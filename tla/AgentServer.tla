------------------------------ MODULE AgentServer ------------------------------
(* One agent process: run_server, the middleware chain of app.py around the    *)
(* handlers (RequestLogging, Audit, RateLimit, router), shell commands and     *)
(* batches (routers/exec.py), shutdown by signal or from the tray icon.        *)
(*                                                                             *)
(* Handlers run in the event loop without an await, so a batch blocks every    *)
(* other request (loop).  verify_token runs in a thread.  The verdict of the   *)
(* rate limiter (RateLimiter) and the answers of the handlers that are not     *)
(* exec (Endpoints) are left to chance.                                        *)
EXTENDS Integers, Sequences, FiniteSets

CONSTANTS
    Requests,    \* the requests that may come
    Choices,     \* what they may ask for: functions from Requests to Jobs
    MaxSignals,  \* bound on the SIGINT and SIGTERM received
    None

\* "hangs" is killed at its timeout; so is "held", but a process it has started
\* keeps its pipes open, which Windows waits for.
Commands == {"succeeds", "fails", "hangs", "held", "empty"}
Jobs == [route : {"exec", "desktop", "stats"}, token : BOOLEAN,
         commands : Seq(Commands), stopOnError : BOOLEAN]

ASSUME ServerAssumption ==
    Choices \subseteq [Requests -> Jobs] /\ MaxSignals \in Nat /\ None \notin Requests

\* min_length=1 of BatchExecRequest.commands; a shorter batch does not get past 422.
ASSUME BatchAssumption ==
    \A choice \in Choices : \A r \in Requests :
        choice[r].route = "exec" => choice[r].commands # <<>>

VARIABLES
    job,      \* what each request asks for
    server,   \* "starting", "serving", "draining", "exiting", "joining", "down",
              \* "killed"
    signals,  \* signals received: the first sets should_exit, the second force_exit
    auditDb,  \* the SQLite connection: "open" or "closed"
    icon,     \* pystray's icon: "absent", "made", "shown", "stopped"
    executor, \* "busy" while a thread of the default executor runs at the end
    phase,    \* where a request is in the chain
    whole,    \* has its body arrived whole?
    status,   \* the status the application has set, 0 before
    sent,     \* the status sent to its client, 0 before
    loop,     \* the request whose handler occupies the event loop, or None
    ran,      \* history: the commands whose turn it was, as <<request, index>>
    trail     \* the audit entries, as <<request, status>>

processVars == <<server, signals, auditDb, icon, executor>>
requestVars == <<phase, whole, status, sent>>
vars == <<job, processVars, requestVars, loop, ran, trail>>

Codes == {0, 200, 400, 401, 422, 429, 500}
Servers == {"starting", "serving", "draining", "exiting", "joining", "down", "killed"}
Phases == {"new", "body", "limit", "auth", "handler", "running", "reply", "raised",
           "entry", "closed", "cancelled"}

Init ==
    /\ job \in Choices
    /\ server = "starting" /\ signals = 0 /\ auditDb = "closed"
    /\ icon = "absent" /\ executor = "idle"
    /\ phase = [r \in Requests |-> "new"]
    /\ whole = [r \in Requests |-> FALSE]
    /\ status = [r \in Requests |-> 0] /\ sent = [r \in Requests |-> 0]
    /\ loop = None
    /\ ran = <<>> /\ trail = <<>>

(* Variants that no action uses precede the definitions they are variants of. *)

\* A handler that runs its commands in threads would leave the loop free.
LoopNeverTaken == server \in {"serving", "draining"}
LoopFree == server \in {"serving", "draining"} /\ loop = None

\* Every path but the four of _SKIP_ENDPOINTS is audited.
Audited(r) == job[r].route # "stats"

\* RunBy(r): how many commands of the request have run.
RunBy(r) == Cardinality({k \in DOMAIN ran : ran[k][1] = r})

Ends(command) == command \in {"succeeds", "fails", "hangs"}

\* The next command of a running request is one that need not end: on Windows,
\* subprocess.run reads the pipes to their end, without a timeout, after the kill.
HeldOpen(r) == phase[r] = "running" /\ job[r].commands[RunBy(r) + 1] = "held"

\* "if result["exit_code"] != 0 and request.stop_on_error: break"
LastUnchecked(r, i) == i = Len(job[r].commands)
Last(r, i) ==
    \/ i = Len(job[r].commands)
    \/ job[r].stopOnError /\ job[r].commands[i] # "succeeds"

\* log_request comes after "await self.app(...)" has sent the response.
EntryEarly(r) == phase[r] \in {"reply", "entry"}
EntryDue(r) == phase[r] = "entry"

Finish(r, code) ==
    /\ status' = [status EXCEPT ![r] = code]
    /\ phase' = [phase EXCEPT ![r] = "reply"]

-----------------------------------------------------------------------------
(* A request on its way through the chain.                                  *)

Arrive(r) ==
    /\ server = "serving" /\ LoopFree /\ phase[r] = "new"
    /\ phase' = [phase EXCEPT ![r] = IF Audited(r) THEN "body" ELSE "limit"]
    /\ whole' = [whole EXCEPT ![r] = ~Audited(r)]
    /\ UNCHANGED <<processVars, status, sent, loop, ran, trail>>

\* The loop that collects the body ends with the last chunk, or with
\* http.disconnect, which has no more_body either.
ReceiveBody(r) ==
    /\ LoopFree /\ phase[r] = "body"
    /\ \E complete \in BOOLEAN : whole' = [whole EXCEPT ![r] = complete]
    /\ phase' = [phase EXCEPT ![r] = "limit"]
    /\ UNCHANGED <<processVars, status, sent, loop, ran, trail>>

Limit(r) ==
    /\ LoopFree /\ phase[r] = "limit"
    /\ \/ Finish(r, 429)
       \/ phase' = [phase EXCEPT ![r] = "auth"] /\ UNCHANGED status
    /\ UNCHANGED <<processVars, whole, sent, loop, ran, trail>>

\* FastAPI parses the body first: a strict prefix of a JSON object is no JSON.
VerifyToken(r) ==
    /\ LoopFree /\ phase[r] = "auth"
    /\ \/ ~whole[r] /\ Finish(r, 422)
       \/ whole[r] /\ ~job[r].token /\ Finish(r, 401)
       \/ /\ whole[r] /\ job[r].token
          /\ phase' = [phase EXCEPT ![r] = "handler"] /\ UNCHANGED status
    /\ UNCHANGED <<processVars, whole, sent, loop, ran, trail>>

StartCommands(r) ==
    /\ LoopFree /\ phase[r] = "handler" /\ job[r].route = "exec"
    /\ phase' = [phase EXCEPT ![r] = "running"]
    /\ loop' = r
    /\ UNCHANGED <<processVars, whole, status, sent, ran, trail>>

\* _run_command, once: an empty command raises HTTPException out of the batch; a
\* shell that cannot be started is a command that "fails" (Endpoints tells them apart).
RunCommand(r) ==
    LET i == RunBy(r) + 1 IN
    /\ server \in {"serving", "draining"} /\ phase[r] = "running"
    /\ \/ /\ job[r].commands[i] = "empty"
          /\ Finish(r, 400)
          /\ loop' = None /\ UNCHANGED ran
       \/ /\ Ends(job[r].commands[i]) \/ HeldOpen(r)
          /\ ran' = Append(ran, <<r, i>>)
          /\ IF Last(r, i) THEN Finish(r, 200) /\ loop' = None
                           ELSE UNCHANGED <<phase, status, loop>>
    /\ UNCHANGED <<processVars, whole, sent, trail>>

\* Any other handler answers, or an exception leaves it (a desktop library).
Handle(r) ==
    /\ LoopFree /\ phase[r] = "handler" /\ job[r].route # "exec"
    /\ \/ Finish(r, 200)
       \/ /\ job[r].route = "desktop"
          /\ phase' = [phase EXCEPT ![r] = "raised"] /\ UNCHANGED status
    /\ UNCHANGED <<processVars, whole, sent, loop, ran, trail>>

Reply(r) ==
    /\ LoopFree /\ phase[r] = "reply"
    /\ sent' = [sent EXCEPT ![r] = status[r]]
    /\ phase' = [phase EXCEPT ![r] = IF Audited(r) THEN "entry" ELSE "closed"]
    /\ UNCHANGED <<processVars, whole, status, loop, ran, trail>>

WriteEntry(r) ==
    /\ LoopFree /\ EntryDue(r)
    /\ trail' = Append(trail, <<r, status[r]>>)
    /\ phase' = [phase EXCEPT ![r] = "closed"]
    /\ UNCHANGED <<processVars, whole, status, sent, loop, ran>>

\* The exception passes all middleware; the outermost layer answers 500.
Escape(r) ==
    /\ LoopFree /\ phase[r] = "raised"
    /\ sent' = [sent EXCEPT ![r] = 500]
    /\ phase' = [phase EXCEPT ![r] = "closed"]
    /\ UNCHANGED <<processVars, whole, status, loop, ran, trail>>

RequestStep(r) ==
    /\ \/ ReceiveBody(r) \/ Limit(r) \/ VerifyToken(r) \/ StartCommands(r)
       \/ RunCommand(r) \/ Handle(r) \/ Reply(r) \/ WriteEntry(r) \/ Escape(r)
    /\ UNCHANGED job

-----------------------------------------------------------------------------
(* The process.                                                             *)

Alive == server \notin {"down", "killed"}

\* No pystray, no icon; otherwise a daemon thread is to run it.
StartTray == icon' \in {"absent", "made"}

\* start_tray, then uvicorn: the lifespan opens the audit table and serves, or the
\* startup pass raises, or the port is taken, which ends the lifespan again.
Start ==
    /\ server = "starting"
    /\ StartTray
    /\ \/ server' = "serving" /\ auditDb' = "open"
       \/ server' = "exiting" /\ auditDb' \in {"open", "closed"}
    /\ UNCHANGED <<signals, executor, requestVars, loop, ran, trail>>

RunTray ==
    /\ Alive /\ icon = "made"
    /\ icon' = "shown"
    /\ UNCHANGED <<server, signals, auditDb, executor, requestVars, loop, ran, trail>>

\* SIGINT or SIGTERM from outside; the handler runs between two bytecodes.
Signal ==
    /\ server \in {"serving", "draining"} /\ signals < MaxSignals
    /\ signals' = signals + 1
    /\ UNCHANGED <<server, auditDb, icon, executor, requestVars, loop, ran, trail>>

QuitFromTray ==
    /\ server \in {"serving", "draining"} /\ signals < MaxSignals /\ icon = "shown"
    /\ icon' = "stopped"
    /\ signals' = signals + 1
    /\ UNCHANGED <<server, auditDb, executor, requestVars, loop, ran, trail>>

StopAccepting ==
    /\ server = "serving" /\ LoopFree /\ signals > 0
    /\ server' = "draining"
    /\ UNCHANGED <<signals, auditDb, icon, executor, requestVars, loop, ran, trail>>

\* uvicorn waits for its tasks, not just for the responses, before the lifespan ends.
Drained == \A r \in Requests : phase[r] \in {"new", "closed"}

\* The second half of lifespan closes the audit table.
Shutdown ==
    /\ server = "draining" /\ LoopFree /\ Drained
    /\ server' = "exiting" /\ auditDb' = "closed"
    /\ UNCHANGED <<signals, icon, executor, requestVars, loop, ran, trail>>

\* At a second SIGINT uvicorn skips the wait and the lifespan, and the loop cancels
\* the rest; a second SIGTERM changes nothing.
ForceShutdown ==
    /\ server = "draining" /\ LoopFree /\ signals > 1
    /\ server' = "exiting"
    /\ phase' = [r \in Requests |->
                    IF phase[r] \in {"new", "closed"} THEN phase[r] ELSE "cancelled"]
    /\ UNCHANGED <<signals, auditDb, icon, executor, whole, status, sent, loop, ran, trail>>

\* Whether a task of TaskService occupies a thread at that moment is left to chance.
StopTray ==
    /\ server = "exiting"
    /\ icon' = IF icon = "absent" THEN icon ELSE "stopped"
    /\ server' = "joining"
    /\ executor' \in {"idle", "busy"}
    /\ UNCHANGED <<signals, auditDb, requestVars, loop, ran, trail>>

\* The thread ends when OpenCode lets it.
ThreadEnds ==
    /\ server = "joining" /\ executor = "busy"
    /\ executor' = "idle"
    /\ UNCHANGED <<server, signals, auditDb, icon, requestVars, loop, ran, trail>>

\* The interpreter joins the executor's threads before it exits (asyncio.run has
\* waited for them already, from Python 3.12 on for 300 s).
Exit ==
    /\ server = "joining" /\ executor = "idle"
    /\ server' = "down"
    /\ UNCHANGED <<signals, auditDb, icon, executor, requestVars, loop, ran, trail>>

Kill ==
    /\ Alive
    /\ server' = "killed"
    /\ UNCHANGED <<signals, auditDb, icon, executor, requestVars, loop, ran, trail>>

ProcessStep ==
    /\ Start \/ RunTray \/ StopAccepting \/ Shutdown \/ StopTray \/ Exit
    /\ UNCHANGED job

Environment ==
    /\ \/ \E r \in Requests : Arrive(r)
       \/ Signal \/ QuitFromTray \/ ForceShutdown \/ ThreadEnds \/ Kill
    /\ UNCHANGED job

Next == ProcessStep \/ Environment \/ \E r \in Requests : RequestStep(r)

Spec == Init /\ [][Next]_vars

\* Nothing assures that a client finishes its body or hangs up (the middleware has
\* no timeout), nor that the pipes of a killed command are closed.
Assured(r) == phase[r] # "body" /\ ~HeldOpen(r)

\* The event loop serves its ready tasks in turn, a handler and a command with a
\* timeout end, and starting and stopping go on.
FairSpec ==
    /\ Spec
    /\ WF_vars(ProcessStep)
    /\ \A r \in Requests : WF_vars(Assured(r) /\ RequestStep(r))

-----------------------------------------------------------------------------
(* Properties.                                                              *)

\* The loop belongs to the request whose commands run, and to one at a time.
TypeOK ==
    /\ job \in Choices
    /\ server \in Servers /\ signals \in 0..MaxSignals
    /\ auditDb \in {"open", "closed"}
    /\ icon \in {"absent", "made", "shown", "stopped"}
    /\ executor \in {"idle", "busy"}
    /\ phase \in [Requests -> Phases] /\ whole \in [Requests -> BOOLEAN]
    /\ status \in [Requests -> Codes] /\ sent \in [Requests -> Codes]
    /\ loop \in Requests \cup {None}
    /\ ran \in Seq(Requests \X (Nat \ {0})) /\ trail \in Seq(Requests \X Codes)
    /\ \A r \in Requests : phase[r] = "running" => loop = r

\* Every entry is of a request that was answered with that very status, none has
\* two, and once the agent is down after an orderly exit every answered request
\* has its own, unless an exception left its handler.
AuditedAsAnswered ==
    /\ \A k \in DOMAIN trail : trail[k][2] # 0 /\ trail[k][2] = sent[trail[k][1]]
    /\ \A j, k \in DOMAIN trail : trail[j][1] = trail[k][1] => j = k
    /\ server = "down" /\ auditDb = "closed" =>
          \A r \in Requests : Audited(r) /\ sent[r] \notin {0, 500} =>
              \E k \in DOMAIN trail : trail[k][1] = r

\* The commands of a request run one after another, in order and with none of
\* another request in between, and only if its whole body arrived; an answer 200
\* reports all of them, or those up to the first failure with stop_on_error.
BatchAsReported ==
    \A r \in Requests : job[r].route = "exec" =>
        LET own == {k \in DOMAIN ran : ran[k][1] = r}
            commands == job[r].commands
            Failed(i) == commands[i] # "succeeds"
        IN /\ \A j, k \in own : j < k =>
                  /\ ran[k][2] = ran[j][2] + (k - j)
                  /\ job[r].stopOnError => ~Failed(ran[j][2])
           /\ own # {} => whole[r] /\ \E k \in own : ran[k][2] = 1
           /\ status[r] = 200 => \E k \in own :
                  \/ ran[k][2] = Len(commands)
                  \/ job[r].stopOnError /\ Failed(ran[k][2])

\* Only three things can hold a stopping agent up: a client that leaves its body
\* unfinished, a killed command whose pipes stay open, and a thread of the executor.
HeldUp ==
    \/ \E r \in Requests : phase[r] = "body" \/ HeldOpen(r)
    \/ executor = "busy"

=============================================================================
