----------------------------- MODULE TaskContract -----------------------------
(* What the ACP task table promises to a client that only polls it.          *)
(*                                                                           *)
(* A task is accepted once, is then "running" until something closes it with *)
(* one of the three terminal statuses, and says "completed" only when the    *)
(* coding agent has answered its prompt.  A terminal status is NOT promised  *)
(* to be final: the code lets a late writer replace one terminal status by   *)
(* another (see TaskService), but never reopens a task, and only rows that   *)
(* are closed are ever deleted.                                              *)

CONSTANT Tasks

VARIABLES
    status,    \* what GET /acp/tasks/{id} reports; "absent" and "deleted" are 404
    answered   \* the tasks whose prompt the coding agent has answered

contractVars == <<status, answered>>

Terminal == {"completed", "failed", "cancelled"}

Init ==
    /\ status = [t \in Tasks |-> "absent"]
    /\ answered = {}

Accept(t) ==
    /\ status[t] = "absent"
    /\ status' = [status EXCEPT ![t] = "running"]
    /\ UNCHANGED answered

\* The answer may also arrive after the task was closed by a timeout or DELETE.
Answer(t) ==
    /\ status[t] # "absent"
    /\ answered' = answered \cup {t}
    /\ UNCHANGED status

Close(t, s) ==
    /\ status[t] \in Terminal \cup {"running"}
    /\ s = "completed" => t \in answered
    /\ status' = [status EXCEPT ![t] = s]
    /\ UNCHANGED answered

\* Startup: overdue rows fail and old closed rows are deleted, together.
Sweep(overdue, old) ==
    /\ \A t \in overdue : status[t] = "running"
    /\ \A t \in old : status[t] \in Terminal
    /\ status' = [t \in Tasks |-> IF t \in overdue THEN "failed"
                                  ELSE IF t \in old THEN "deleted" ELSE status[t]]
    /\ UNCHANGED answered

Next ==
    \/ \E t \in Tasks : Accept(t) \/ Answer(t) \/ \E s \in Terminal : Close(t, s)
    \/ \E overdue, old \in SUBSET Tasks : Sweep(overdue, old)

Spec == Init /\ [][Next]_contractVars
=============================================================================
