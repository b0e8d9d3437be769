----------------------------- MODULE SlidingWindow ----------------------------
(* What a sliding-window limiter promises each client: a request is answered  *)
(* if and only if fewer than MaxRequests of this client's requests were       *)
(* answered at times not older than Window.  Nothing is said of deques.       *)
EXTENDS Integers, Sequences, FiniteSets

CONSTANTS Clients, MaxRequests, Window, MaxTime

VARIABLES
    clock,
    accepted,   \* the times at which requests of a client were answered
    verdict     \* what the last request of a client got

Recent(c) == {i \in DOMAIN accepted[c] : accepted[c][i] >= clock - Window}

Init ==
    /\ clock = 0
    /\ accepted = [c \in Clients |-> <<>>]
    /\ verdict = [c \in Clients |-> "none"]

Answer(c) ==
    /\ Cardinality(Recent(c)) < MaxRequests
    /\ accepted' = [accepted EXCEPT ![c] = Append(@, clock)]
    /\ verdict' = [verdict EXCEPT ![c] = "allowed"]
    /\ UNCHANGED clock

Refuse(c) ==
    /\ Cardinality(Recent(c)) >= MaxRequests
    /\ verdict' = [verdict EXCEPT ![c] = "refused"]
    /\ UNCHANGED <<clock, accepted>>

Tick ==
    /\ clock < MaxTime
    /\ clock' = clock + 1
    /\ UNCHANGED <<accepted, verdict>>

Next == Tick \/ \E c \in Clients : Answer(c) \/ Refuse(c)

Spec == Init /\ [][Next]_<<clock, accepted, verdict>>
=============================================================================
