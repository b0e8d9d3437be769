---------------------------- MODULE RuntimeBroker -----------------------------
(* hermes_agent/acp/runtime_broker.py with the AcpRuntime table: executor    *)
(* threads acquire a runtime under _lock, one step per database, HTTP or OS  *)
(* call; the heartbeat (and the startup) cleans up without the lock; OpenCode *)
(* processes start, serve, hang, die and survive a crash of the agent.       *)
(*                                                                           *)
(* Runtime i is the i-th process spawned; its row has the same number, so the *)
(* order of numbers is the rowid order in which SQLite scans acp_runtimes.   *)
EXTENDS Naturals, FiniteSets

CONSTANTS
    Threads,       \* executor threads that call acquire
    NoThread,      \* _lock is free
    MaxManaged,    \* MAX_MANAGED
    NumPorts,      \* ports tried from DEFAULT_PORT on
    MaxSpawns,     \* bound on the processes spawned in a behaviour
    MaxCrashes,    \* bound on the crashes of the agent process
    MaxFaults      \* bound on the database errors that interrupt a start

ASSUME ThreadAssumption == NoThread \notin Threads
ASSUME BrokerLimitAssumption ==
    /\ MaxManaged \in Nat \ {0} /\ NumPorts \in Nat \ {0}
    /\ MaxSpawns \in Nat /\ MaxCrashes \in Nat /\ MaxFaults \in Nat

Ids == 1..MaxSpawns
Ports == 1..NumPorts
NoId == 0

VARIABLES
    row,       \* AcpRuntime.status of each runtime, "none" before the INSERT
    proc,      \* the OpenCode process of each runtime
    port,      \* the port it was spawned with
    lock,      \* the holder of RuntimeBroker._lock
    pc,        \* where each thread is in acquire
    todo,      \* per thread: rows of its get_ready_managed list still to check
    mine,      \* per thread: the runtime it spawned
    got,       \* the runtime the last acquire returned, NoId if it raised or is inside
    hbTodo,    \* cleanup_zombies: rows of its list still to check
    hbVictim,  \* cleanup_zombies: the row to mark stopped next, or NoId
    boot,      \* "up", "down" after a crash, "reconciling" in the lifespan startup
    crashes,
    faults     \* database errors between a spawn and its mark_ready

threadVars == <<lock, pc, todo, mine, got>>
processVars == <<proc, port>>
heartbeatVars == <<hbTodo, hbVictim>>
bootVars == <<boot, crashes, faults>>
vars == <<row, processVars, threadVars, heartbeatVars, bootVars>>

Alive == {"booting", "serving"}
Critical == {"probing", "spawned", "waiting", "killing", "marking", "lookup"}
Starting == {"spawned", "waiting", "marking"}

TypeOK ==
    /\ row \in [Ids -> {"none", "starting", "ready", "stale", "stopped"}]
    /\ proc \in [Ids -> Alive \cup {"none", "dying", "dead"}]
    /\ port \in [Ids -> Ports]
    /\ lock \in Threads \cup {NoThread}
    /\ pc \in [Threads -> Critical \cup {"idle"}]
    /\ todo \in [Threads -> SUBSET Ids]
    /\ mine \in [Threads -> Ids \cup {NoId}]
    /\ got \in Ids \cup {NoId}
    /\ hbTodo \in SUBSET Ids
    /\ hbVictim \in Ids \cup {NoId}
    /\ boot \in {"up", "down", "reconciling"}
    /\ crashes \in Nat
    /\ faults \in Nat

Init ==
    /\ row = [i \in Ids |-> "none"]
    /\ proc = [i \in Ids |-> "none"]
    /\ port = [i \in Ids |-> 1]
    /\ lock = NoThread
    /\ pc = [w \in Threads |-> "idle"]
    /\ todo = [w \in Threads |-> {}]
    /\ mine = [w \in Threads |-> NoId]
    /\ got = NoId
    /\ hbTodo = {}
    /\ hbVictim = NoId
    /\ boot = "up"
    /\ crashes = 0
    /\ faults = 0

-----------------------------------------------------------------------------
(* Helpers.                                                                 *)

(* Some helpers are preceded by the variant a plausible bug would leave in    *)
(* their place; no action uses a variant.                                     *)

\* get_ready_managed and count_managed_ready: every row of the broker is managed.
NotStoppedRows == {i \in Ids : row[i] \in {"starting", "ready"}}
ReadyRows == {i \in Ids : row[i] = "ready"}

\* The next row of a list in rowid order.
First(i, S) == i \in S /\ \A j \in S : i <= j

\* A health check can only succeed if some process answers on the port; it may
\* fail at any time (the request timed out after 3 s).
Answers(p) == \E i \in Ids : port[i] = p /\ proc[i] \in {"serving", "dying"}

\* _is_port_available: a booting process has not bound its port yet.
PortAvailable(p) == ~Answers(p)
FirstFreePort(p) == PortAvailable(p) /\ \A q \in 1..(p - 1) : ~PortAvailable(q)

\* Process numbers are used in order.
Fresh(i) == proc[i] = "none" /\ \A j \in 1..(i - 1) : proc[j] # "none"

\* os.kill(pid, SIGTERM), errors ignored.
NotTerminated(i) == proc
Terminated(i) == IF proc[i] \in Alive THEN [proc EXCEPT ![i] = "dying"] ELSE proc

\* get_by_endpoint: the first row with the endpoint of i that is not "stopped".
SameEndpoint(i) == {j \in Ids : row[j] \notin {"none", "stopped"} /\ port[j] = port[i]}

\* Leave the "with self._lock" block, returning runtime i or raising (NoId).
Leave(w, i) ==
    /\ lock' = NoThread
    /\ pc' = [pc EXCEPT ![w] = "idle"]
    /\ todo' = [todo EXCEPT ![w] = {}]
    /\ mine' = [mine EXCEPT ![w] = NoId]
    /\ got' = i

\* create_runtime's status.
DefaultStatus == "queued"
InitialStatus == "starting"

\* "with self._lock"
LockFree == lock = NoThread

Goto(w, label) == pc' = [pc EXCEPT ![w] = label]

-----------------------------------------------------------------------------
(* acquire.                                                                 *)

Enter(w) ==
    /\ boot = "up"
    /\ pc[w] = "idle" /\ LockFree
    /\ lock' = w
    /\ Goto(w, "probing")
    /\ todo' = [todo EXCEPT ![w] = ReadyRows]
    /\ got' = NoId
    /\ UNCHANGED <<row, processVars, mine, heartbeatVars, bootVars>>

\* The first listed runtime that passes its health check is returned.
ReuseRuntime(w) ==
    /\ pc[w] = "probing"
    /\ \E i \in todo[w] : First(i, todo[w]) /\ Answers(port[i]) /\ Leave(w, i)
    /\ UNCHANGED <<row, processVars, heartbeatVars, bootVars>>

RetryRuntime(w) ==
    /\ pc[w] = "probing" /\ todo[w] # {}
    /\ UNCHANGED vars

SkipRuntime(w) ==
    /\ pc[w] = "probing"
    /\ \E i \in todo[w] : First(i, todo[w]) /\ todo' = [todo EXCEPT ![w] = @ \ {i}]
    /\ UNCHANGED <<row, processVars, lock, pc, mine, got, heartbeatVars, bootVars>>

AtLimit == Cardinality(ReadyRows) <= MaxManaged
BelowLimit == Cardinality(ReadyRows) < MaxManaged

\* The limit is reached, no port is free, or the binary is missing.
GiveUp(w) ==
    /\ pc[w] = "probing" /\ todo[w] = {}
    /\ Leave(w, NoId)
    /\ UNCHANGED <<row, processVars, heartbeatVars, bootVars>>

\* count_managed_ready, _find_port and adapter.spawn.
Spawn(w) ==
    /\ pc[w] = "probing" /\ todo[w] = {}
    /\ BelowLimit
    /\ \E p \in Ports, i \in Ids :
        /\ FirstFreePort(p) /\ Fresh(i)
        /\ port' = [port EXCEPT ![i] = p]
        /\ proc' = [proc EXCEPT ![i] = "booting"]
        /\ mine' = [mine EXCEPT ![w] = i]
    /\ Goto(w, "spawned")
    /\ UNCHANGED <<row, lock, todo, got, heartbeatVars, bootVars>>

\* create_runtime
InsertRow(w) ==
    /\ pc[w] = "spawned"
    /\ row' = [row EXCEPT ![mine[w]] = InitialStatus]
    /\ Goto(w, "waiting")
    /\ UNCHANGED <<processVars, lock, todo, mine, got, heartbeatVars, bootVars>>

\* wait_ready: somebody answers on the endpoint within HEALTH_TIMEOUT ...
WaitReady(w) ==
    /\ pc[w] = "waiting"
    /\ Answers(port[mine[w]])
    /\ Goto(w, "marking")
    /\ UNCHANGED <<row, processVars, lock, todo, mine, got, heartbeatVars, bootVars>>

\* ... or not: mark_stale, then SIGTERM and raise.
WaitFailed(w) ==
    /\ pc[w] = "waiting"
    /\ row' = [row EXCEPT ![mine[w]] = "stale"]
    /\ Goto(w, "killing")
    /\ UNCHANGED <<processVars, lock, todo, mine, got, heartbeatVars, bootVars>>

StaleNotKilled(w) ==
    /\ pc[w] = "killing"
    /\ Leave(w, NoId)
    /\ UNCHANGED <<row, processVars, heartbeatVars, bootVars>>

KillStale(w) ==
    /\ pc[w] = "killing"
    /\ proc' = Terminated(mine[w])
    /\ Leave(w, NoId)
    /\ UNCHANGED <<row, port, heartbeatVars, bootVars>>

\* get_version (may fail silently) and mark_ready
MarkReady(w) ==
    /\ pc[w] = "marking"
    /\ row' = [row EXCEPT ![mine[w]] = "ready"]
    /\ Goto(w, "lookup")
    /\ UNCHANGED <<processVars, lock, todo, mine, got, heartbeatVars, bootVars>>

\* get_by_endpoint; None.runtime_id raises when the heartbeat stopped the row.
Lookup(w) ==
    /\ pc[w] = "lookup"
    /\ \/ \E j \in SameEndpoint(mine[w]) : First(j, SameEndpoint(mine[w])) /\ Leave(w, j)
       \/ SameEndpoint(mine[w]) = {} /\ Leave(w, NoId)
    /\ UNCHANGED <<row, processVars, heartbeatVars, bootVars>>

\* get_ready_managed, count_managed_ready or get_by_endpoint raises: the database
\* is locked.
QueryRaises(w) ==
    /\ pc[w] \in {"probing", "lookup"}
    /\ Leave(w, NoId)
    /\ UNCHANGED <<row, processVars, heartbeatVars, bootVars>>

\* create_runtime, mark_stale or mark_ready raises: "with" releases the lock, the
\* row and the process stay as they are.  (An error of os.kill is caught.)
StartRaises(w) ==
    /\ pc[w] \in Starting /\ faults < MaxFaults
    /\ faults' = faults + 1
    /\ Leave(w, NoId)
    /\ UNCHANGED <<row, processVars, heartbeatVars, boot, crashes>>

-----------------------------------------------------------------------------
(* cleanup_zombies: the heartbeat thread, without _lock.                    *)

HeartbeatIdle == hbTodo = {} /\ hbVictim = NoId

HeartbeatBegin ==
    /\ boot = "up"
    /\ HeartbeatIdle
    /\ hbTodo' = ReadyRows
    /\ UNCHANGED <<row, processVars, threadVars, hbVictim, bootVars>>

HeartbeatPass ==
    /\ hbVictim = NoId
    /\ \E i \in hbTodo : First(i, hbTodo) /\ Answers(port[i]) /\ hbTodo' = hbTodo \ {i}
    /\ UNCHANGED <<row, processVars, threadVars, hbVictim, bootVars>>

\* The health check failed: SIGTERM to the pid of the listed row.
HeartbeatKill ==
    /\ hbVictim = NoId
    /\ \E i \in hbTodo :
        /\ First(i, hbTodo)
        /\ proc' = Terminated(i)
        /\ hbVictim' = i
        /\ hbTodo' = hbTodo \ {i}
    /\ UNCHANGED <<row, port, threadVars, bootVars>>

\* mark_stopped (fail_tasks_for_runtime follows: TaskService.LoseRuntime).
HeartbeatStop ==
    /\ hbVictim # NoId
    /\ row' = [row EXCEPT ![hbVictim] = "stopped"]
    /\ hbVictim' = NoId
    /\ UNCHANGED <<processVars, threadVars, hbTodo, bootVars>>

\* mark_stopped raises, or fail_tasks_for_runtime after it: the rest of the list is
\* dropped.  start_heartbeat catches it; in the startup it ends the process.
HeartbeatRaises ==
    /\ hbVictim # NoId
    /\ \/ UNCHANGED row
       \/ row' = [row EXCEPT ![hbVictim] = "stopped"]
    /\ hbTodo' = {} /\ hbVictim' = NoId
    /\ boot' = IF boot = "reconciling" THEN "down" ELSE boot
    /\ UNCHANGED <<processVars, threadVars, crashes, faults>>

-----------------------------------------------------------------------------
(* OpenCode processes (external).                                           *)

\* The server binds its port, or exits because the port is taken.
Bind(i) ==
    /\ proc[i] = "booting"
    /\ proc' = [proc EXCEPT ![i] = IF Answers(port[i]) THEN "dead" ELSE "serving"]
    /\ UNCHANGED <<row, port, threadVars, heartbeatVars, bootVars>>

\* It exits on SIGTERM, or dies by itself.
Exit(i) ==
    /\ proc[i] \in Alive \cup {"dying"}
    /\ proc' = [proc EXCEPT ![i] = "dead"]
    /\ UNCHANGED <<row, port, threadVars, heartbeatVars, bootVars>>

-----------------------------------------------------------------------------
(* Crash and restart of the agent.  Rows and processes survive (spawn uses   *)
(* start_new_session).                                                       *)

Crash ==
    /\ boot # "down" /\ crashes < MaxCrashes
    /\ boot' = "down"
    /\ crashes' = crashes + 1
    /\ lock' = NoThread
    /\ pc' = [w \in Threads |-> "idle"]
    /\ todo' = [w \in Threads |-> {}]
    /\ mine' = [w \in Threads |-> NoId]
    /\ got' = NoId
    /\ hbTodo' = {} /\ hbVictim' = NoId
    /\ UNCHANGED <<row, processVars, faults>>

\* lifespan: broker.reconcile is one pass of cleanup_zombies ...
Restart ==
    /\ boot = "down"
    /\ boot' = "reconciling"
    /\ hbTodo' = ReadyRows
    /\ UNCHANGED <<row, processVars, threadVars, hbVictim, crashes, faults>>

\* ... before requests are served.
StartServing ==
    /\ boot = "reconciling" /\ HeartbeatIdle
    /\ boot' = "up"
    /\ UNCHANGED <<row, processVars, threadVars, heartbeatVars, crashes, faults>>

-----------------------------------------------------------------------------
\* The next call of acquire returns, or it raises.
Proceed(w) ==
    \/ ReuseRuntime(w) \/ SkipRuntime(w) \/ GiveUp(w) \/ Spawn(w) \/ InsertRow(w)
    \/ WaitReady(w) \/ WaitFailed(w) \/ KillStale(w) \/ MarkReady(w) \/ Lookup(w)

AcquireStep(w) == Proceed(w) \/ QueryRaises(w) \/ StartRaises(w)

HeartbeatStep == HeartbeatPass \/ HeartbeatKill \/ HeartbeatStop \/ HeartbeatRaises

Next ==
    \/ \E w \in Threads : Enter(w) \/ AcquireStep(w)
    \/ HeartbeatBegin \/ HeartbeatStep
    \/ \E i \in Ids : Bind(i) \/ Exit(i)
    \/ Crash \/ Restart \/ StartServing

Spec == Init /\ [][Next]_vars

(* Every call of acquire and of cleanup_zombies has a timeout or is local, so *)
(* a thread inside one takes its next step; nothing is assumed of OpenCode,   *)
(* and not that a call raises.                                                *)
FairSpec == Spec /\ WF_vars(HeartbeatStep) /\ \A w \in Threads : WF_vars(Proceed(w))

-----------------------------------------------------------------------------
(* Properties.                                                              *)

\* At most MAX_MANAGED runtimes are ready, although the count is read several
\* steps before the row becomes ready and the heartbeat does not take _lock.
AtMostMaxReady == Cardinality(ReadyRows) <= MaxManaged

\* Only the holder of _lock is past its acquisition.
LockExclusive == \A w \in Threads : pc[w] \in Critical => lock = w

Running == {i \in Ids : proc[i] \in Alive}
Opening == {i \in Ids : \E w \in Threads : mine[w] = i /\ pc[w] \in Starting}

\* The broker keeps what RuntimePool promises, with the lock and the order of its
\* calls as the reason that processes are started one at a time and never beyond
\* the limit, and although the heartbeat works on an old list without the lock: it
\* stops only ready runtimes whose process it has signalled or that are dead.
Pool == INSTANCE RuntimePool WITH
    Runtimes <- Ids, Room <- MaxManaged,
    status <- row, running <- Running, opening <- Opening
PoolSpec == Pool!Spec

\* A runtime that was stopped stays stopped (a consequence of PoolSpec): no late
\* mark_ready or mark_stale of an acquire and no restart revives a row the
\* heartbeat has given up.
StoppedIsFinal == [][\A i \in Ids : row[i] = "stopped" => row'[i] = "stopped"]_vars

\* A stopped row has no process of its own left running: the pid is forgotten
\* (mark_stopped writes NULL) only after it was signalled.
StoppedIsKilled == \A i \in Ids : row[i] = "stopped" => proc[i] \notin Alive

\* A runtime nobody will look at again, although it is not done with: a process
\* that runs without a ready row (only ready rows are checked), or a "starting" row,
\* when no acquire is working on it.
Forgotten ==
    {i \in Ids :
        /\ row[i] = "starting" \/ (proc[i] \in Alive /\ row[i] # "ready")
        /\ ~\E w \in Threads : mine[w] = i /\ pc[w] \in Starting \cup {"killing"}}

\* The broker forgets a runtime only by a crash or by a database error in the middle
\* of a start, and each of them costs the one runtime being started at that moment:
\* no failed health wait, no error elsewhere, no race with the heartbeat and no
\* restart leaves a process or a starting row behind.
ForgottenBounded == Cardinality(Forgotten) <= crashes + faults

\* acquire always gives _lock back, whatever OpenCode and the heartbeat do.
LockReleased == \A w \in Threads : lock = w ~> lock # w

(* What the documentation says and the code does not keep.                   *)

\* README.md:132: "cleans up stale runtimes on restart": when the agent serves
\* again, no runtime that failed or was interrupted while starting still runs.
StaleCleanedOnRestart ==
    [][boot = "reconciling" /\ boot' = "up" =>
        \A i \in Ids : row[i] \in {"stale", "starting"} => proc[i] \notin Alive]_vars

\* README.md:357: "lifecycle management, health checks, stale runtime cleanup": a
\* runtime that was given up ("stale") is not handed out to a task.
StaleNotAcquired ==
    [][\A w \in Threads : lock = w /\ lock' = NoThread /\ got' # NoId
            => row[got'] # "stale"]_vars
=============================================================================
