----------------------------- MODULE TaskService ------------------------------
(* The lifecycle of ACP tasks: hermes_agent/acp/task_service.py with the     *)
(* AcpTask table of acp/models.py, the DELETE/POST handlers of               *)
(* routers/acp.py, the heartbeat's fail_tasks_for_runtime and startup.       *)
(*                                                                           *)
(* Three kinds of actor write the same row with unconditional UPDATEs:       *)
(*   - the asyncio event loop (POST, DELETE and the coroutine _run_async),   *)
(*     one callback at a time; _abort_running_session is a synchronous HTTP  *)
(*     call, so the loop is blocked while it is in flight (LoopFree);        *)
(*   - one executor thread per task (_execute_and_poll), which no            *)
(*     cancellation or timeout can stop once it has started;                 *)
(*   - the heartbeat thread (cleanup_zombies).                               *)
(* What a thread does with runtimes and sessions is abstracted to the        *)
(* conversation row it links and to "answered" or "raised"; RuntimeBroker    *)
(* and ConversationSessions have the detail.                                 *)
EXTENDS Naturals, FiniteSets

CONSTANTS
    Tasks, Convs, Runtimes,
    NoRuntime,       \* AcpConversation.runtime_id of a conversation without a row
    ConvOf,          \* the conversation_id each task is submitted with
    MaxConcurrent,   \* MAX_CONCURRENT_ASYNC
    MaxWorkers,      \* threads of asyncio's default executor
    MaxCrashes       \* bound on the crashes of the agent process

ASSUME TasksAssumption == IsFiniteSet(Tasks)
ASSUME ConvAssumption == ConvOf \in [Tasks -> Convs] /\ NoRuntime \notin Runtimes
ASSUME LimitAssumption ==
    MaxConcurrent \in Nat \ {0} /\ MaxWorkers \in Nat \ {0} /\ MaxCrashes \in Nat

VARIABLES
    status,      \* AcpTask.status, "absent" before the row exists
    answered,    \* tasks whose prompt the coding agent has answered
    link,        \* AcpConversation.runtime_id
    late,        \* tasks whose AcpTask.deadline has passed
    boot,        \* "up", "down" after a crash, "reconciling" in the lifespan startup
    crashes,
    co,          \* phase of the coroutine _run_async of a task
    permits,     \* the value of _async_semaphore
    handles,     \* the keys of _active_tasks
    cancelled,   \* handle.cancel() was called, CancelledError not delivered yet
    cancelling,  \* the task whose DELETE handler is in _abort_running_session
    worker,      \* phase of the executor thread of a task
    lost,        \* runtimes the heartbeat has marked stopped
    doomed       \* rows selected by fail_tasks_for_runtime and not written yet

rowVars == <<status, answered, link, late>>
bootVars == <<boot, crashes>>
loopVars == <<co, permits, handles, cancelled, cancelling>>
heartbeatVars == <<lost, doomed>>
vars == <<rowVars, bootVars, loopVars, worker, heartbeatVars>>

Terminal == {"completed", "failed", "cancelled"}
LivePhases == {"waiting", "inside", "timingOut"}
RunningPhases == {"attaching", "sending", "resending", "storing"}

TypeOK ==
    /\ status \in [Tasks -> Terminal \cup {"absent", "running", "deleted"}]
    /\ answered \subseteq Tasks
    /\ link \in [Convs -> Runtimes \cup {NoRuntime}]
    /\ late \subseteq Tasks
    /\ boot \in {"up", "down", "reconciling"}
    /\ crashes \in Nat
    /\ co \in [Tasks -> LivePhases \cup {"none", "done", "crashed"}]
    /\ permits \in Nat
    /\ handles \subseteq Tasks
    /\ cancelled \subseteq Tasks
    /\ cancelling \subseteq Tasks
    /\ worker \in [Tasks -> RunningPhases \cup {"none", "queued", "returned", "raised", "ended"}]
    /\ lost \subseteq Runtimes
    /\ doomed \subseteq Tasks

Init ==
    /\ status = [t \in Tasks |-> "absent"]
    /\ answered = {}
    /\ link = [c \in Convs |-> NoRuntime]
    /\ late = {}
    /\ boot = "up"
    /\ crashes = 0
    /\ co = [t \in Tasks |-> "none"]
    /\ permits = MaxConcurrent
    /\ handles = {}
    /\ cancelled = {}
    /\ cancelling = {}
    /\ worker = [t \in Tasks |-> "none"]
    /\ lost = {}
    /\ doomed = {}

-----------------------------------------------------------------------------
(* Helpers.                                                                 *)

\* The event loop can run another callback.
LoopFree == boot = "up" /\ cancelling = {} /\ \A t \in Tasks : co[t] # "timingOut"

\* mark_completed, mark_failed and mark_cancelled do not look at the old status.
Mark(t, s) == status' = [status EXCEPT ![t] = s]

\* The executor drops a call that no thread has picked up; a running one goes on.
Dropped(t) == IF worker[t] = "queued" THEN [worker EXCEPT ![t] = "ended"] ELSE worker

WorkerFree ==
    Cardinality({t \in Tasks : worker[t] \in RunningPhases})
        + (IF doomed = {} THEN 0 ELSE 1) < MaxWorkers

(* Some helpers are preceded by the variant a plausible bug would leave in    *)
(* their place; no action uses a variant.                                     *)

\* "async with _async_semaphore" waits for a permit.
SlotFreeUnchecked == TRUE
SlotFree == permits > 0

\* Every exit of the "async with" gives the permit back.
ReleasedLost == permits
Released == permits + 1

\* The finally of _run_async: _active_tasks.pop(task_id, None).
UnregisteredLeak(t) == handles
Unregistered(t) == handles \ {t}

\* The row when _execute_and_poll raised.
MarkRaisedMissing(t) == UNCHANGED status
MarkRaised(t) == Mark(t, "failed")

\* The timer of wait_for: timeout + 10 s after the slot, so after the deadline.
TimerNever(t) == FALSE
TimerDue(t) == co[t] = "inside" /\ t \notin cancelled /\ t \in late

\* A call of the thread that can raise is never one after mark_completed.
CanRaiseLate(t) == worker[t] \in RunningPhases \cup {"returned"}
CanRaise(t) == worker[t] \in RunningPhases

\* cleanup_old deletes closed rows only.
CleanableAny(t) == status[t] # "absent"
Cleanable(t) == status[t] \in Terminal

-----------------------------------------------------------------------------
(* The event loop.                                                          *)

\* POST /acp/tasks: the row, the coroutine and its handle, in one callback.
Submit(t) ==
    /\ LoopFree
    /\ status[t] = "absent"
    /\ Mark(t, "running")
    /\ co' = [co EXCEPT ![t] = "waiting"]
    /\ handles' = handles \cup {t}
    /\ UNCHANGED <<answered, link, late, bootVars, permits, cancelled, cancelling, worker, heartbeatVars>>

\* _run_async gets a permit and hands _execute_and_poll to the executor.
EnterSlot(t) ==
    /\ LoopFree
    /\ co[t] = "waiting" /\ t \notin cancelled
    /\ SlotFree
    /\ permits' = permits - 1
    /\ co' = [co EXCEPT ![t] = "inside"]
    /\ worker' = [worker EXCEPT ![t] = "queued"]
    /\ UNCHANGED <<rowVars, bootVars, handles, cancelled, cancelling, heartbeatVars>>

\* The thread returned: mark_completed was its own write.
FinishReturned(t) ==
    /\ LoopFree
    /\ co[t] = "inside" /\ t \notin cancelled
    /\ worker[t] = "returned"
    /\ co' = [co EXCEPT ![t] = "done"]
    /\ permits' = Released
    /\ handles' = Unregistered(t)
    /\ UNCHANGED <<rowVars, bootVars, cancelled, cancelling, worker, heartbeatVars>>

\* The thread raised: except Exception writes task_error.
FinishRaised(t) ==
    /\ LoopFree
    /\ co[t] = "inside" /\ t \notin cancelled
    /\ worker[t] = "raised"
    /\ MarkRaised(t)
    /\ co' = [co EXCEPT ![t] = "done"]
    /\ permits' = Released
    /\ handles' = Unregistered(t)
    /\ UNCHANGED <<answered, link, late, bootVars, cancelled, cancelling, worker, heartbeatVars>>

\* wait_for gives up, whatever the thread has done; the handler starts aborting
\* the session of the conversation and blocks the loop.
TimeoutBegin(t) ==
    /\ LoopFree
    /\ TimerDue(t)
    /\ co' = [co EXCEPT ![t] = "timingOut"]
    /\ worker' = Dropped(t)
    /\ UNCHANGED <<rowVars, bootVars, permits, handles, cancelled, cancelling, heartbeatVars>>

\* The abort call is over: mark_failed "task_timeout", finally, semaphore.
TimeoutEnd(t) ==
    /\ co[t] = "timingOut"
    /\ Mark(t, "failed")
    /\ co' = [co EXCEPT ![t] = "done"]
    /\ permits' = Released
    /\ handles' = Unregistered(t)
    /\ UNCHANGED <<answered, link, late, bootVars, cancelled, cancelling, worker, heartbeatVars>>

\* DELETE of a task whose row reads "running": the abort call blocks the loop.
CancelBegin(t) ==
    /\ LoopFree
    /\ status[t] = "running"
    /\ cancelling' = {t}
    /\ UNCHANGED <<rowVars, bootVars, co, permits, handles, cancelled, worker, heartbeatVars>>

\* The rest of cancel: pop the handle, cancel it, and mark_cancelled whatever
\* the row says by now.
CancelEnd(t) ==
    /\ cancelling = {t}
    /\ cancelling' = {}
    /\ handles' = handles \ {t}
    /\ cancelled' = IF t \in handles THEN cancelled \cup {t} ELSE cancelled
    /\ Mark(t, "cancelled")
    /\ UNCHANGED <<answered, link, late, bootVars, co, permits, worker, heartbeatVars>>

\* DELETE of a task that is already closed only rewrites its row.
CancelClosed(t) ==
    /\ LoopFree
    /\ status[t] \in Terminal
    /\ Mark(t, "cancelled")
    /\ UNCHANGED <<answered, link, late, bootVars, loopVars, worker, heartbeatVars>>

\* CancelledError reaches the coroutine, in the semaphore or in wait_for: no
\* handler catches it, only the finally and the semaphore run.
DeliverCancel(t) ==
    /\ LoopFree
    /\ t \in cancelled
    /\ cancelled' = cancelled \ {t}
    /\ permits' = IF co[t] = "inside" THEN Released ELSE permits
    /\ co' = [co EXCEPT ![t] = "done"]
    /\ worker' = Dropped(t)
    /\ UNCHANGED <<rowVars, bootVars, handles, cancelling, heartbeatVars>>

\* AcpTask.deadline passes while the task still matters.
DeadlinePasses(t) ==
    /\ t \notin late
    /\ status[t] = "running" \/ co[t] \in LivePhases
    /\ late' = late \cup {t}
    /\ UNCHANGED <<status, answered, link, bootVars, loopVars, worker, heartbeatVars>>

-----------------------------------------------------------------------------
(* The executor thread of a task: _execute_and_poll.                        *)

StartWorker(t) ==
    /\ worker[t] = "queued"
    /\ WorkerFree
    /\ worker' = [worker EXCEPT ![t] = "attaching"]
    /\ UNCHANGED <<rowVars, bootVars, loopVars, heartbeatVars>>

\* acquire returned runtime r and resolve linked the conversation to it; again
\* in the recovery path, when the session could not be recreated.
Attach(t, r) ==
    /\ \/ worker[t] = "attaching" /\ worker' = [worker EXCEPT ![t] = "sending"]
       \/ worker[t] = "sending" /\ worker' = [worker EXCEPT ![t] = "resending"]
    /\ link' = [link EXCEPT ![ConvOf[t]] = r]
    /\ UNCHANGED <<status, answered, late, bootVars, loopVars, heartbeatVars>>

Reply(t) ==
    /\ worker[t] \in {"sending", "resending"}
    /\ worker' = [worker EXCEPT ![t] = "storing"]
    /\ answered' = answered \cup {t}
    /\ UNCHANGED <<status, link, late, bootVars, loopVars, heartbeatVars>>

\* Any call of the thread may raise: no runtime, no session, an HTTP error or
\* timeout, a locked database.
Raise(t) ==
    /\ CanRaise(t)
    /\ worker' = [worker EXCEPT ![t] = "raised"]
    /\ UNCHANGED <<rowVars, bootVars, loopVars, heartbeatVars>>

\* mark_completed, on whatever row there is by now.
Store(t) ==
    /\ worker[t] = "storing"
    /\ Mark(t, "completed")
    /\ worker' = [worker EXCEPT ![t] = "returned"]
    /\ UNCHANGED <<answered, link, late, bootVars, loopVars, heartbeatVars>>

-----------------------------------------------------------------------------
(* The heartbeat thread, also run once by the startup before serving.       *)

\* A ready runtime fails its health check: mark_stopped, then the running rows
\* of its conversations are selected.
LoseRuntime(r) ==
    /\ boot # "down"
    /\ doomed = {} /\ r \notin lost
    /\ WorkerFree
    /\ lost' = lost \cup {r}
    /\ doomed' = {t \in Tasks : status[t] = "running" /\ link[ConvOf[t]] = r}
    /\ UNCHANGED <<rowVars, bootVars, loopVars, worker>>

\* One mark_failed "runtime_lost" of the loop over the selected rows.
FailLost(t) ==
    /\ t \in doomed
    /\ Mark(t, "failed")
    /\ doomed' = doomed \ {t}
    /\ UNCHANGED <<answered, link, late, bootVars, loopVars, worker, lost>>

-----------------------------------------------------------------------------
(* Crash and restart.  The database and the OpenCode processes survive.     *)

Crash ==
    /\ boot # "down" /\ crashes < MaxCrashes
    /\ boot' = "down"
    /\ crashes' = crashes + 1
    /\ co' = [t \in Tasks |-> IF co[t] = "none" THEN "none" ELSE "crashed"]
    /\ worker' = [t \in Tasks |-> IF worker[t] = "none" THEN "none" ELSE "ended"]
    /\ permits' = MaxConcurrent
    /\ handles' = {} /\ cancelled' = {} /\ cancelling' = {}
    /\ doomed' = {}
    /\ UNCHANGED <<rowVars, lost>>

\* lifespan: broker.reconcile() runs (LoseRuntime, FailLost) ...
Restart ==
    /\ boot = "down"
    /\ boot' = "reconciling"
    /\ UNCHANGED <<rowVars, crashes, loopVars, worker, heartbeatVars>>

\* ... then reconcile_stale_tasks: overdue rows fail, closed rows older than
\* 24 hours (any, after a long enough downtime) are deleted, and serving starts.
Reconcile(old) ==
    /\ boot = "reconciling" /\ doomed = {}
    /\ \A t \in old : Cleanable(t)
    /\ status' = [t \in Tasks |-> IF status[t] = "running" /\ t \in late THEN "failed"
                                  ELSE IF t \in old THEN "deleted" ELSE status[t]]
    /\ boot' = "up"
    /\ UNCHANGED <<answered, link, late, crashes, loopVars, worker, heartbeatVars>>

-----------------------------------------------------------------------------
LoopStep(t) ==
    \/ Submit(t) \/ EnterSlot(t) \/ FinishReturned(t) \/ FinishRaised(t)
    \/ TimeoutBegin(t) \/ TimeoutEnd(t)
    \/ CancelBegin(t) \/ CancelEnd(t) \/ CancelClosed(t) \/ DeliverCancel(t)

WorkerStep(t) ==
    \/ StartWorker(t) \/ Reply(t) \/ Raise(t) \/ Store(t)
    \/ \E r \in Runtimes : Attach(t, r)

Next ==
    \/ \E t \in Tasks : LoopStep(t) \/ WorkerStep(t) \/ DeadlinePasses(t) \/ FailLost(t)
    \/ \E r \in Runtimes : LoseRuntime(r)
    \/ Crash
    \/ Restart
    \/ \E old \in SUBSET Tasks : Reconcile(old)

Spec == Init /\ [][Next]_vars

(* The event loop serves every ready callback, time passes, the heartbeat    *)
(* loop runs on and the agent is restarted.  Nothing is assumed of clients,  *)
(* of the executor threads (an HTTP call may hang) or of the coding agent.   *)
Fairness ==
    /\ \A t \in Tasks :
        /\ WF_vars(EnterSlot(t)) /\ WF_vars(FinishReturned(t)) /\ WF_vars(FinishRaised(t))
        /\ WF_vars(TimeoutBegin(t)) /\ WF_vars(TimeoutEnd(t))
        /\ WF_vars(CancelEnd(t)) /\ WF_vars(DeliverCancel(t))
        /\ WF_vars(DeadlinePasses(t)) /\ WF_vars(FailLost(t))
    /\ WF_vars(Restart)
    /\ WF_vars(\E old \in SUBSET Tasks : Reconcile(old))

FairSpec == Spec /\ Fairness

-----------------------------------------------------------------------------
(* Properties.                                                              *)

\* A permit is held by exactly the coroutines inside _run_async's "async with":
\* no exit, cancellation or timeout leaks or duplicates one.
SemaphoreConserved ==
    permits + Cardinality({t \in Tasks : co[t] \in {"inside", "timingOut"}}) = MaxConcurrent

\* _active_tasks holds the handle of every coroutine that DELETE can still
\* cancel, and of no other: cancel() pops it early, the finally pops the rest.
HandlesExact == handles = {t \in Tasks : co[t] \in LivePhases /\ t \notin cancelled}

\* A row says "running" only while a live, registered coroutine will close it;
\* the one exception is a row that a crash of the agent left behind.
RunningIsServed ==
    \A t \in Tasks : status[t] = "running" =>
        (co[t] \in LivePhases /\ t \in handles) \/ co[t] = "crashed"

\* A stored result is replaced by a failure only if the deadline had passed
\* (wait_for's timer beat the return of the thread) or the heartbeat had already
\* selected the row: a call that raised is never one that had completed.
TimelyResultKept ==
    [][\A t \in Tasks : status[t] = "completed" /\ status'[t] = "failed" =>
            t \in late \/ t \in doomed]_vars

\* The task table keeps the contract of a polled task table: no reopening, no
\* "completed" without an answer, no deletion of a running row.
Contract == INSTANCE TaskContract WITH Tasks <- Tasks, status <- status, answered <- answered
ContractSpec == Contract!Spec

\* Every accepted task is closed, even if its thread, its runtime or the abort
\* call never answers: wait_for's timer is enough (README.md:103).
EveryTaskCloses == \A t \in Tasks : status[t] = "running" ~> status[t] # "running"

\* The same across crashes: only a row that a crash of the agent orphaned may
\* stay open, and rows accepted before, during or after one are otherwise closed.
EveryServedTaskCloses ==
    \A t \in Tasks : status[t] = "running" ~> status[t] # "running" \/ co[t] = "crashed"

\* Every permit comes back, so the tasks behind it in the semaphore get their turn.
EverySlotReturns ==
    \A t \in Tasks : co[t] \in {"inside", "timingOut"} ~> co[t] \in {"done", "crashed"}

(* What the documentation says and the code does not keep.                   *)

\* README.md:135: the client "submits once and gets the final result": a task
\* reported as failed or cancelled does not become completed afterwards.
ReportedFailureFinal ==
    [][\A t \in Tasks : status[t] \in {"failed", "cancelled"} => status'[t] # "completed"]_vars
=============================================================================
