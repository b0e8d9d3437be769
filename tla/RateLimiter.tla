------------------------------ MODULE RateLimiter ------------------------------
(* hermes_agent/rate_limiter.py: a deque of times per client address.  The    *)
(* only caller of is_allowed is RateLimitMiddleware.dispatch, which runs in   *)
(* the event loop, so one call is one action.  time.time() is taken to be     *)
(* monotone: a clock set back is outside the model (README).                  *)
EXTENDS Integers, Sequences

CONSTANTS
    Clients,
    MaxRequests,   \* RATE_LIMIT
    Window,        \* RATE_WINDOW
    MaxTime        \* bound on the clock

ASSUME LimitAssumption ==
    MaxRequests \in Nat \ {0} /\ Window \in Nat /\ MaxTime \in Nat

VARIABLES
    clock,      \* time.time()
    clients,    \* _clients: the deque of an address, empty before its first request
    accepted,   \* history: every time at which a request of an address was allowed
    popped,     \* history: how many of them popleft() has dropped
    verdict     \* what the last request of an address got

vars == <<clock, clients, accepted, popped, verdict>>

Init ==
    /\ clock = 0
    /\ clients = [c \in Clients |-> <<>>]
    /\ accepted = [c \in Clients |-> <<>>]
    /\ popped = [c \in Clients |-> 0]
    /\ verdict = [c \in Clients |-> "none"]

(* Variants that no action uses precede the definitions they are variants of. *)

\* "timestamps[0] < now - self.window": a time exactly Window old still counts.
ExpiredAtEdge(time) == time <= clock - Window
ExpiredNever(time) == FALSE
Expired(time) == time < clock - Window

\* The while loop drops the longest expired prefix of the deque.
PrunesTo(deque, k) ==
    /\ k \in 0..Len(deque)
    /\ \A i \in 1..k : Expired(deque[i])
    /\ k < Len(deque) => ~Expired(deque[k + 1])

\* "len(timestamps) >= self.max_requests"
FullTooLate(deque) == Len(deque) > MaxRequests
Full(deque) == Len(deque) >= MaxRequests

\* is_allowed, whether it returns True or False.
IsAllowed(c) ==
    \E k \in 0..Len(clients[c]) :
        /\ PrunesTo(clients[c], k)
        /\ popped' = [popped EXCEPT ![c] = @ + k]
        /\ LET kept == SubSeq(clients[c], k + 1, Len(clients[c])) IN
           \/ /\ Full(kept)
              /\ clients' = [clients EXCEPT ![c] = kept]
              /\ verdict' = [verdict EXCEPT ![c] = "refused"]
              /\ UNCHANGED <<clock, accepted>>
           \/ /\ ~Full(kept)
              /\ clients' = [clients EXCEPT ![c] = Append(kept, clock)]
              /\ accepted' = [accepted EXCEPT ![c] = Append(@, clock)]
              /\ verdict' = [verdict EXCEPT ![c] = "allowed"]
              /\ UNCHANGED clock

Tick ==
    /\ clock < MaxTime
    /\ clock' = clock + 1
    /\ UNCHANGED <<clients, accepted, popped, verdict>>

Next == Tick \/ \E c \in Clients : IsAllowed(c)

Spec == Init /\ [][Next]_vars

-----------------------------------------------------------------------------
(* Properties.                                                              *)

\* The deque of an address never holds more than the configured number of times.
TypeOK ==
    /\ clock \in Nat
    /\ clients \in [Clients -> Seq(Nat)] /\ accepted \in [Clients -> Seq(Nat)]
    /\ popped \in [Clients -> Nat]
    /\ verdict \in [Clients -> {"none", "allowed", "refused"}]
    /\ \A c \in Clients : Len(clients[c]) <= MaxRequests

\* Wherever the window is laid, at most MaxRequests allowed requests of one
\* address fall into it: two that are MaxRequests apart are more than Window apart.
WithinLimit ==
    \A c \in Clients : \A i, j \in DOMAIN accepted[c] :
        j - i >= MaxRequests => accepted[c][j] - accepted[c][i] > Window

\* The deques decide as the abstract window does, which counts all answered
\* requests: pruning loses none that counts, nobody with room left is refused
\* and no address uses up the room of another.
WindowContract == INSTANCE SlidingWindow WITH accepted <- accepted
WindowSpec == WindowContract!Spec
=============================================================================
