------------------------------ MODULE AcpClient -------------------------------
(* The windows_acp tool of the client plugin, _acp_handler of                *)
(* windows_control/tools.py, against the task service over HTTP.             *)
(*                                                                           *)
(* The service is represented by its contract, TaskContract, which           *)
(* TaskService implements.  Each call of the tool is one member of Tasks: it *)
(* creates at most that task.  A request may be lost, or be handled after    *)
(* the client has stopped waiting for it; a reply may be lost or arrive when *)
(* the row has changed again.  Several calls run side by side.               *)
EXTENDS Naturals

CONSTANT Tasks

VARIABLES
    status, answered,   \* the service (TaskContract)
    requests,           \* requests on their way to the agent
    reply,              \* the reply to the outstanding request of a call
    phase,              \* where the handler of a call is
    verdict,            \* what it returned
    expired             \* calls whose polling deadline has passed

serviceVars == <<status, answered>>
networkVars == <<requests, reply>>
clientVars == <<phase, verdict, expired>>
vars == <<serviceVars, networkVars, clientVars>>

Service == INSTANCE TaskContract

Verbs == {"POST", "GET", "DELETE"}
Replies == Service!Terminal \cup {"none", "running", "http_404"}
Waiting == {"submitting", "asking", "deleting"}

TypeOK ==
    /\ status \in [Tasks -> Service!Terminal \cup {"absent", "running", "deleted"}]
    /\ answered \subseteq Tasks
    /\ requests \subseteq Tasks \X Verbs
    /\ reply \in [Tasks -> Replies]
    /\ phase \in [Tasks -> Waiting \cup {"idle", "polling", "returned"}]
    /\ verdict \in [Tasks -> Service!Terminal \cup {"none", "error", "timed_out"}]
    /\ expired \subseteq Tasks

Init ==
    /\ Service!Init
    /\ requests = {}
    /\ reply = [t \in Tasks |-> "none"]
    /\ phase = [t \in Tasks |-> "idle"]
    /\ verdict = [t \in Tasks |-> "none"]
    /\ expired = {}

-----------------------------------------------------------------------------
(* Helpers.  Some are preceded by the variant a plausible bug would leave in  *)
(* their place; no action uses a variant.                                     *)

\* _make_request puts a request on the wire and waits.
Send(t, verb, waiting) ==
    /\ requests' = requests \cup {<<t, verb>>}
    /\ reply' = [reply EXCEPT ![t] = "none"]
    /\ phase' = [phase EXCEPT ![t] = waiting]

Return(t, v) ==
    /\ phase' = [phase EXCEPT ![t] = "returned"]
    /\ verdict' = [verdict EXCEPT ![t] = v]

\* An answer reaches the caller only while it waits for that request.
Answered(t, verb, waiting, r) ==
    /\ <<t, verb>> \in requests
    /\ requests' = requests \ {<<t, verb>>}
    /\ reply' = IF phase[t] = waiting THEN [reply EXCEPT ![t] = r] ELSE reply

\* poll's answer, 404 for a row that does not exist (any more).
StatusRaw(t) == status[t]
StatusOf(t) == IF status[t] \in {"absent", "deleted"} THEN "http_404" ELSE status[t]

\* The statuses that end the polling loop.
FinalAny(r) == r # "none"
Final(r) == r \in {"completed", "failed", "cancelled"}

\* while time.time() < deadline
DeadlineNever(t) == FALSE
DeadlinePassed(t) == t \in expired

-----------------------------------------------------------------------------
(* The handler.                                                             *)

Submit(t) ==
    /\ phase[t] = "idle"
    /\ Send(t, "POST", "submitting")
    /\ UNCHANGED <<serviceVars, verdict, expired>>

\* The reply has a task_id and says "running": start polling.
SubmitAnswered(t) ==
    /\ phase[t] = "submitting" /\ reply[t] = "running"
    /\ phase' = [phase EXCEPT ![t] = "polling"]
    /\ UNCHANGED <<serviceVars, networkVars, verdict, expired>>

\* No task_id in what _make_request returned: connection error, timeout, HTTP
\* error.  The caller gets the error; the request may still be under way.
SubmitFails(t) ==
    /\ phase[t] = "submitting"
    /\ Return(t, "error")
    /\ UNCHANGED <<serviceVars, networkVars, expired>>

\* acp_timeout + 10 s after the submission.
Expire(t) ==
    /\ phase[t] \in {"polling", "asking"} /\ t \notin expired
    /\ expired' = expired \cup {t}
    /\ UNCHANGED <<serviceVars, networkVars, phase, verdict>>

Poll(t) ==
    /\ phase[t] = "polling" /\ ~DeadlinePassed(t)
    /\ Send(t, "GET", "asking")
    /\ UNCHANGED <<serviceVars, verdict, expired>>

PollFinal(t) ==
    /\ phase[t] = "asking" /\ Final(reply[t])
    /\ Return(t, reply[t])
    /\ UNCHANGED <<serviceVars, networkVars, expired>>

\* "running", or an error of any kind, which has no status: go round again.
PollAgain(t) ==
    /\ phase[t] = "asking" /\ ~Final(reply[t])
    /\ phase' = [phase EXCEPT ![t] = "polling"]
    /\ UNCHANGED <<serviceVars, networkVars, verdict, expired>>

GiveUp(t) ==
    /\ phase[t] = "polling" /\ DeadlinePassed(t)
    /\ Send(t, "DELETE", "deleting")
    /\ UNCHANGED <<serviceVars, verdict, expired>>

\* Whatever the DELETE returned, or failed to.
DeleteDone(t) ==
    /\ phase[t] = "deleting"
    /\ Return(t, "timed_out")
    /\ UNCHANGED <<serviceVars, networkVars, expired>>

-----------------------------------------------------------------------------
(* The agent's routes and the network.                                      *)

HandlePost(t) ==
    /\ Answered(t, "POST", "submitting", "running")
    /\ Service!Accept(t)
    /\ UNCHANGED clientVars

HandleGet(t) ==
    /\ Answered(t, "GET", "asking", StatusOf(t))
    /\ UNCHANGED <<serviceVars, clientVars>>

\* DELETE ends in mark_cancelled for every row it finds, else in a 404.
HandleDelete(t) ==
    /\ \/ Service!Close(t, "cancelled") /\ Answered(t, "DELETE", "deleting", "cancelled")
       \/ /\ status[t] \in {"absent", "deleted"}
          /\ UNCHANGED serviceVars
          /\ Answered(t, "DELETE", "deleting", "http_404")
    /\ UNCHANGED clientVars

Lose(t, verb) ==
    /\ <<t, verb>> \in requests
    /\ requests' = requests \ {<<t, verb>>}
    /\ UNCHANGED <<serviceVars, reply, clientVars>>

\* What the service does on its own.
ServiceStep ==
    /\ \/ \E t \in Tasks : Service!Answer(t) \/ \E s \in Service!Terminal : Service!Close(t, s)
       \/ \E overdue, old \in SUBSET Tasks : Service!Sweep(overdue, old)
    /\ UNCHANGED <<networkVars, clientVars>>

-----------------------------------------------------------------------------
ClientStep(t) ==
    \/ Submit(t) \/ SubmitAnswered(t) \/ SubmitFails(t) \/ Expire(t) \/ Poll(t)
    \/ PollFinal(t) \/ PollAgain(t) \/ GiveUp(t) \/ DeleteDone(t)

NetworkStep(t) ==
    \/ HandlePost(t) \/ HandleGet(t) \/ HandleDelete(t)
    \/ \E verb \in Verbs : Lose(t, verb)

Next ==
    \/ \E t \in Tasks : ClientStep(t) \/ NetworkStep(t)
    \/ ServiceStep

Spec == Init /\ [][Next]_vars

(* Every HTTP call of the plugin ends (a timeout limits the wait for each part *)
(* of an answer, which has finitely many) and the clock goes on; nothing else *)
(* is assumed of the network or of the agent.                                  *)
Fairness ==
    \A t \in Tasks :
        /\ WF_vars(SubmitAnswered(t) \/ SubmitFails(t))
        /\ WF_vars(Expire(t))
        /\ WF_vars(PollFinal(t) \/ PollAgain(t))
        /\ WF_vars(Poll(t) \/ GiveUp(t))
        /\ WF_vars(DeleteDone(t))

FairSpec == Spec /\ Fairness

-----------------------------------------------------------------------------
(* Properties.                                                              *)

\* The tool returns, whatever the network and the agent lose or delay
\* (schemas.py:312, "the tool waits internally").
ClientReturns == \A t \in Tasks : phase[t] = "submitting" ~> phase[t] = "returned"

\* A status that was returned as the final one, possibly late, is of a task that
\* is closed for good: it has stopped running and will not be seen running again.
ReturnedIsClosed ==
    \A t \in Tasks : phase[t] = "returned" /\ verdict[t] \notin {"error", "timed_out"} =>
        status[t] \in Service!Terminal \cup {"deleted"}

(* What the documentation says and the code does not keep.                   *)

\* schemas.py:312: the tool "returns the final result": the DELETE it sends when it
\* gives up does not overwrite a result that is already stored.
ResultNotDiscarded ==
    [][\A t \in Tasks : <<t, "DELETE">> \in requests /\ <<t, "DELETE">> \notin requests' =>
            ~(status[t] = "completed" /\ status'[t] = "cancelled")]_vars
=============================================================================
