----------------------------- MODULE RuntimePool ------------------------------
(* What the runtime broker promises to the rest of the agent.                *)
(*                                                                           *)
(* OpenCode processes are started one at a time, and only while there is room *)
(* for one more ready runtime.  A runtime that is being started becomes ready *)
(* or is given up as stale, which nothing undoes; a ready one can only be     *)
(* stopped, and only once its process no longer runs or has been told to end. *)
(* A crash or an error interrupts a start and leaves everything else alone.   *)
EXTENDS Naturals, FiniteSets

CONSTANTS
    Runtimes,  \* the runtimes that may ever be started
    Room       \* how many may be ready at a time

VARIABLES
    status,    \* AcpRuntime.status, "none" before there is a row
    running,   \* the runtimes whose process runs and was not told to end
    opening    \* the runtime being started, as a set of at most one

poolVars == <<status, running, opening>>

ReadyRuntimes == {i \in Runtimes : status[i] = "ready"}

Init ==
    /\ status = [i \in Runtimes |-> "none"]
    /\ running = {}
    /\ opening = {}

\* A process is started before it has a row.
Launch(i) ==
    /\ opening = {} /\ Cardinality(ReadyRuntimes) < Room
    /\ status[i] = "none" /\ i \notin running
    /\ running' = running \cup {i}
    /\ opening' = {i}
    /\ UNCHANGED status

Announce(i) ==
    /\ i \in opening /\ status[i] = "none"
    /\ status' = [status EXCEPT ![i] = "starting"]
    /\ UNCHANGED <<running, opening>>

Open(i) ==
    /\ i \in opening /\ status[i] = "starting"
    /\ status' = [status EXCEPT ![i] = "ready"]
    /\ opening' = {}
    /\ UNCHANGED running

Abandon(i) ==
    /\ i \in opening /\ status[i] = "starting"
    /\ status' = [status EXCEPT ![i] = "stale"]
    /\ opening' = {}
    /\ UNCHANGED running

\* A process ends by itself or is told to.
End(i) ==
    /\ i \in running
    /\ running' = running \ {i}
    /\ UNCHANGED <<status, opening>>

Retire(i) ==
    /\ status[i] = "ready" /\ i \notin running
    /\ status' = [status EXCEPT ![i] = "stopped"]
    /\ UNCHANGED <<running, opening>>

\* The agent crashes, or the start raises: whatever was being started stays as it
\* is.
Interrupt ==
    /\ opening' = {}
    /\ UNCHANGED <<status, running>>

Next ==
    \/ \E i \in Runtimes :
        Launch(i) \/ Announce(i) \/ Open(i) \/ Abandon(i) \/ End(i) \/ Retire(i)
    \/ Interrupt

Spec == Init /\ [][Next]_poolVars
=============================================================================
