--------------------------- MODULE RateLimiterProofs ---------------------------
(* Proofs about RateLimiter for every set of addresses, every limit, every    *)
(* window and every bound on the clock.  The facts about sequences are lemmas *)
(* of their own; the steps of the limiter only cite them.                     *)
EXTENDS RateLimiter, FiniteSetTheorems, TLAPS

\* A deque is the history without its p oldest times.
Suffix(history, deque, p) ==
    /\ Len(history) = p + Len(deque)
    /\ \A i \in 1..Len(deque) : deque[i] = history[p + i]

\* The p oldest times of a history are older than time.
OlderThan(history, p, time) == \A i \in 1..p : history[i] < time

\* Times in order, none later than now.
Ordered(history, now) ==
    \A i, j \in 1..Len(history) : i <= j => history[i] <= history[j] /\ history[j] <= now

\* Times that are MaxRequests apart are more than Window apart.
Spread(history) ==
    \A i, j \in 1..Len(history) : j - i >= MaxRequests => history[j] - history[i] > Window

Shape(c) ==
    /\ Suffix(accepted[c], clients[c], popped[c])
    /\ OlderThan(accepted[c], popped[c], clock - Window)
    /\ Ordered(accepted[c], clock)
    /\ Spread(accepted[c])

IInv == TypeOK /\ \A c \in Clients : Shape(c)

-----------------------------------------------------------------------------
(* Sequences.                                                                *)

\* What a pruned deque holds.
LEMMA PrunedElements ==
    ASSUME NEW s \in Seq(Nat), NEW k \in Nat, k <= Len(s)
    PROVE  /\ SubSeq(s, k + 1, Len(s)) \in Seq(Nat)
           /\ Len(SubSeq(s, k + 1, Len(s))) = Len(s) - k
           /\ \A i \in 1..(Len(s) - k) : SubSeq(s, k + 1, Len(s))[i] = s[k + i]
  <1>1. Len(s) \in Nat
    OBVIOUS
  <1> QED
    BY <1>1

\* What a sequence holds after an append.
LEMMA AppendedElements ==
    ASSUME NEW s \in Seq(Nat), NEW n \in Nat
    PROVE  /\ Append(s, n) \in Seq(Nat) /\ Len(s) \in Nat /\ Len(Append(s, n)) = Len(s) + 1
           /\ \A i \in 1..Len(s) : Append(s, n)[i] = s[i] /\ s[i] \in Nat
           /\ Append(s, n)[Len(s) + 1] = n
  OBVIOUS

\* Dropping k times from the front of the deque.
LEMMA SuffixPruned ==
    ASSUME NEW history \in Seq(Nat), NEW deque \in Seq(Nat), NEW p \in Nat, NEW k \in Nat,
           k <= Len(deque), Suffix(history, deque, p)
    PROVE  Suffix(history, SubSeq(deque, k + 1, Len(deque)), p + k)
  <1> DEFINE kept == SubSeq(deque, k + 1, Len(deque))
  <1>1. Len(kept) = Len(deque) - k /\ Len(deque) \in Nat /\ Len(history) \in Nat
    BY PrunedElements
  <1>2. \A i \in 1..(Len(deque) - k) : kept[i] = deque[k + i]
    BY PrunedElements
  <1> HIDE DEF kept
  <1>3. ASSUME NEW i \in 1..Len(kept) PROVE kept[i] = history[(p + k) + i]
    <2>1. i \in 1..(Len(deque) - k) /\ k + i \in 1..Len(deque) /\ p + (k + i) = (p + k) + i
      BY <1>1
    <2>2. deque[k + i] = history[p + (k + i)]
      BY <2>1 DEF Suffix
    <2> QED
      BY <1>2, <2>1, <2>2
  <1>4. Len(history) = (p + k) + Len(kept)
    BY <1>1 DEF Suffix
  <1> QED
    BY <1>3, <1>4 DEF Suffix, kept

\* Appending to the history and to the deque keeps the deque a suffix.
LEMMA SuffixAppended ==
    ASSUME NEW history \in Seq(Nat), NEW deque \in Seq(Nat), NEW p \in Nat, NEW n \in Nat,
           Suffix(history, deque, p)
    PROVE  Suffix(Append(history, n), Append(deque, n), p)
  <1> DEFINE h == Append(history, n)
             d == Append(deque, n)
  <1>1. /\ Len(history) \in Nat /\ Len(h) = Len(history) + 1 /\ h[Len(history) + 1] = n
        /\ \A i \in 1..Len(history) : h[i] = history[i]
    BY AppendedElements
  <1>2. /\ Len(deque) \in Nat /\ Len(d) = Len(deque) + 1 /\ d[Len(deque) + 1] = n
        /\ \A i \in 1..Len(deque) : d[i] = deque[i]
    BY AppendedElements
  <1>3. Len(history) = p + Len(deque) /\ \A i \in 1..Len(deque) : deque[i] = history[p + i]
    BY DEF Suffix
  <1> HIDE DEF h, d
  <1>4. ASSUME NEW i \in 1..Len(d) PROVE d[i] = h[p + i]
    <2>1. CASE i = Len(deque) + 1
      BY <1>1, <1>2, <1>3, <2>1
    <2>2. CASE i # Len(deque) + 1
      <3>1. i \in 1..Len(deque)
        BY <1>2, <2>2
      <3>2. p + i \in 1..Len(history)
        BY <1>1, <1>2, <1>3, <3>1
      <3> QED
        BY <1>1, <1>2, <1>3, <3>1, <3>2
    <2> QED
      BY <2>1, <2>2
  <1>5. Len(h) = p + Len(d)
    BY <1>1, <1>2, <1>3
  <1> QED
    BY <1>4, <1>5 DEF Suffix, h, d

\* Appending a time that is not older keeps the times in order.
LEMMA OrderedAppended ==
    ASSUME NEW history \in Seq(Nat), NEW now \in Nat, Ordered(history, now)
    PROVE  Ordered(Append(history, now), now)
  <1> DEFINE h == Append(history, now)
  <1>1. /\ Len(history) \in Nat /\ Len(h) = Len(history) + 1 /\ h[Len(history) + 1] = now
        /\ \A i \in 1..Len(history) : h[i] = history[i] /\ history[i] \in Nat
    BY AppendedElements
  <1> HIDE DEF h
  <1>2. ASSUME NEW i \in 1..Len(h), NEW j \in 1..Len(h), i <= j PROVE h[i] <= h[j] /\ h[j] <= now
    <2>1. CASE j = Len(history) + 1
      <3>1. i \in 1..Len(history) => history[i] <= now
        BY DEF Ordered
      <3> QED
        BY <1>1, <2>1, <3>1
    <2>2. CASE j # Len(history) + 1
      <3>1. i \in 1..Len(history) /\ j \in 1..Len(history)
        BY <1>1, <1>2, <2>2
      <3> QED
        BY <1>1, <1>2, <3>1 DEF Ordered
    <2> QED
      BY <2>1, <2>2
  <1> QED
    BY <1>2 DEF Ordered, h

\* A new time behind fewer than MaxRequests times that are not too old.
LEMMA SpreadAppended ==
    ASSUME NEW history \in Seq(Nat), NEW now \in Nat, NEW m \in Nat, m <= Len(history),
           Spread(history), OlderThan(history, m, now - Window), Len(history) - m < MaxRequests
    PROVE  Spread(Append(history, now))
  <1> USE LimitAssumption
  <1> DEFINE h == Append(history, now)
  <1>1. /\ Len(history) \in Nat /\ Len(h) = Len(history) + 1 /\ h[Len(history) + 1] = now
        /\ \A i \in 1..Len(history) : h[i] = history[i] /\ history[i] \in Nat
    BY AppendedElements
  <1> HIDE DEF h
  <1>2. ASSUME NEW i \in 1..Len(h), NEW j \in 1..Len(h), j - i >= MaxRequests PROVE h[j] - h[i] > Window
    <2>1. CASE j = Len(history) + 1
      <3>1. i \in 1..m /\ i \in 1..Len(history)
        BY <1>1, <1>2, <2>1
      <3>2. history[i] < now - Window
        BY <3>1 DEF OlderThan
      <3> QED
        BY <1>1, <2>1, <3>1, <3>2
    <2>2. CASE j # Len(history) + 1
      <3>1. j \in 1..Len(history)
        BY <1>1, <2>2
      <3>2. i \in 1..Len(history)
        BY <1>1, <1>2, <3>1
      <3> QED
        BY <1>1, <1>2, <3>1, <3>2 DEF Spread
    <2> QED
      BY <2>1, <2>2
  <1> QED
    BY <1>2 DEF Spread, h

\* The loop of popleft() drops the times that are too old, and keeps no such time.
LEMMA PrunedIsOlder ==
    ASSUME NEW history \in Seq(Nat), NEW deque \in Seq(Nat), NEW p \in Nat,
           NEW k \in 0..Len(deque), clock \in Nat, Window \in Nat,
           Suffix(history, deque, p), OlderThan(history, p, clock - Window),
           Ordered(history, clock), PrunesTo(deque, k)
    PROVE  /\ OlderThan(history, p + k, clock - Window)
           /\ \A i \in 1..Len(history) : i > p + k => history[i] >= clock - Window
  <1>1. /\ Len(deque) \in Nat /\ Len(history) = p + Len(deque) /\ Len(history) \in Nat
        /\ k \in Nat /\ k <= Len(deque) /\ \A i \in 1..Len(history) : history[i] \in Nat
    BY DEF Suffix
  <1>2. \A i \in 1..Len(deque) : deque[i] = history[p + i]
    BY DEF Suffix
  <1>3. ASSUME NEW i \in 1..(p + k) PROVE history[i] < clock - Window
    <2>1. CASE i <= p
      BY <1>1, <1>3, <2>1 DEF OlderThan
    <2>2. CASE i > p
      <3>1. i - p \in 1..k /\ i - p \in 1..Len(deque) /\ p + (i - p) = i
        BY <1>1, <1>3, <2>2
      <3>2. deque[i - p] < clock - Window
        BY <3>1 DEF PrunesTo, Expired
      <3> QED
        BY <1>2, <3>1, <3>2
    <2> QED
      BY <1>1, <1>3, <2>1, <2>2
  <1>4. ASSUME NEW i \in 1..Len(history), i > p + k PROVE history[i] >= clock - Window
    <2>1. k < Len(deque) /\ k + 1 \in 1..Len(deque) /\ p + (k + 1) \in 1..Len(history) /\ p + (k + 1) <= i
      BY <1>1, <1>4
    <2>2. deque[k + 1] = history[p + (k + 1)] /\ ~(deque[k + 1] < clock - Window)
      BY <1>2, <2>1 DEF PrunesTo, Expired
    <2>3. history[p + (k + 1)] <= history[i]
      BY <2>1 DEF Ordered
    <2> QED
      BY <1>1, <2>1, <2>2, <2>3
  <1> QED
    BY <1>3, <1>4 DEF OlderThan

-----------------------------------------------------------------------------
(* The inductive invariant.                                                  *)

\* The empty deques satisfy the invariant.
LEMMA InitIInv == Init => IInv
  BY LimitAssumption DEF Init, IInv, TypeOK, Shape, Suffix, OlderThan, Ordered, Spread

\* The clock preserves the invariant: what is older than a window stays so.
LEMMA TickStep == ASSUME IInv, Tick PROVE IInv'
  <1>1. TypeOK'
    BY DEF IInv, TypeOK, Tick
  <1>2. ASSUME NEW c \in Clients PROVE Shape(c)'
    <2> DEFINE h == accepted[c]
    <2>1. h \in Seq(Nat) /\ popped[c] \in Nat /\ clock \in Nat /\ clock' = clock + 1 /\ Len(h) \in Nat
      BY DEF IInv, TypeOK, Tick
    <2>2. Suffix(h, clients[c], popped[c]) /\ OlderThan(h, popped[c], clock - Window) /\ Ordered(h, clock) /\ Spread(h)
      BY DEF IInv, Shape
    <2>3. \A i \in 1..Len(h) : h[i] \in Nat
      BY <2>1
    <2>4. popped[c] <= Len(h)
      <3>1. clients[c] \in Seq(Nat)
        BY DEF IInv, TypeOK
      <3>2. Len(clients[c]) \in Nat
        BY <3>1
      <3> QED
        BY <2>1, <2>2, <3>2 DEF Suffix
    <2>5. UNCHANGED <<accepted, clients, popped>>
      BY DEF Tick
    <2> HIDE DEF h
    <2>6. OlderThan(h, popped[c], clock' - Window)
      BY <2>1, <2>2, <2>3, <2>4, LimitAssumption DEF OlderThan
    <2>7. Ordered(h, clock')
      BY <2>1, <2>2, <2>3 DEF Ordered
    <2> QED
      BY <2>2, <2>5, <2>6, <2>7 DEF Shape, h, Suffix, OlderThan, Ordered, Spread
  <1> QED
    BY <1>1, <1>2 DEF IInv

\* What is known of an address before a call, and what its pruned deque is.
LEMMA Pruned ==
    ASSUME IInv, NEW c \in Clients, NEW k \in 0..Len(clients[c]), PrunesTo(clients[c], k)
    PROVE  LET kept == SubSeq(clients[c], k + 1, Len(clients[c])) IN
           /\ kept \in Seq(Nat) /\ Len(kept) \in Nat /\ Len(kept) <= MaxRequests
           /\ Suffix(accepted[c], kept, popped[c] + k)
           /\ OlderThan(accepted[c], popped[c] + k, clock - Window)
           /\ \A i \in 1..Len(accepted[c]) : i > popped[c] + k => accepted[c][i] >= clock - Window
           /\ accepted[c] \in Seq(Nat) /\ popped[c] + k \in Nat /\ clock \in Nat
           /\ Len(accepted[c]) = (popped[c] + k) + Len(kept) /\ Len(accepted[c]) \in Nat
           /\ Ordered(accepted[c], clock) /\ Spread(accepted[c])
  <1>1. /\ clients[c] \in Seq(Nat) /\ accepted[c] \in Seq(Nat) /\ popped[c] \in Nat /\ clock \in Nat
        /\ Len(clients[c]) <= MaxRequests
    BY DEF IInv, TypeOK
  <1>2. Len(clients[c]) \in Nat /\ Len(accepted[c]) \in Nat
    BY <1>1
  <1>3. k \in Nat /\ k <= Len(clients[c])
    BY <1>2
  <1>4. Suffix(accepted[c], clients[c], popped[c]) /\ OlderThan(accepted[c], popped[c], clock - Window)
        /\ Ordered(accepted[c], clock) /\ Spread(accepted[c])
    BY DEF IInv, Shape
  <1> DEFINE kept == SubSeq(clients[c], k + 1, Len(clients[c]))
  <1>5. kept \in Seq(Nat) /\ Len(kept) = Len(clients[c]) - k
    BY <1>1, <1>3, PrunedElements
  <1>6. Suffix(accepted[c], kept, popped[c] + k)
    BY <1>1, <1>3, <1>4, SuffixPruned
  <1>7. /\ OlderThan(accepted[c], popped[c] + k, clock - Window)
        /\ \A i \in 1..Len(accepted[c]) : i > popped[c] + k => accepted[c][i] >= clock - Window
    BY <1>1, <1>4, PrunedIsOlder, LimitAssumption
  <1> HIDE DEF kept
  <1>8. Len(accepted[c]) = (popped[c] + k) + Len(kept)
    BY <1>6 DEF Suffix
  <1>9. Len(kept) \in Nat /\ Len(kept) <= MaxRequests /\ popped[c] + k \in Nat
    BY <1>1, <1>2, <1>3, <1>5, LimitAssumption
  <1> QED
    BY <1>1, <1>2, <1>4, <1>5, <1>6, <1>7, <1>8, <1>9 DEF kept

\* A call of is_allowed, refused or allowed.
LEMMA IsAllowedStep == ASSUME IInv, NEW c \in Clients, IsAllowed(c) PROVE IInv'
  <1>1. PICK k \in 0..Len(clients[c]) :
          /\ PrunesTo(clients[c], k)
          /\ popped' = [popped EXCEPT ![c] = @ + k]
          /\ LET kept == SubSeq(clients[c], k + 1, Len(clients[c])) IN
             \/ /\ Full(kept)
                /\ clients' = [clients EXCEPT ![c] = kept]
                /\ verdict' = [verdict EXCEPT ![c] = "refused"]
                /\ UNCHANGED <<clock, accepted>>
             \/ /\ ~Full(kept)
                /\ clients' = [clients EXCEPT ![c] = Append(kept, clock)]
                /\ accepted' = [accepted EXCEPT ![c] = Append(@, clock)]
                /\ verdict' = [verdict EXCEPT ![c] = "allowed"]
                /\ UNCHANGED clock
    BY DEF IsAllowed
  <1> DEFINE kept == SubSeq(clients[c], k + 1, Len(clients[c]))
             m == popped[c] + k
             h == accepted[c]
  <1>2. /\ kept \in Seq(Nat) /\ Len(kept) \in Nat /\ Len(kept) <= MaxRequests
        /\ Suffix(h, kept, m) /\ OlderThan(h, m, clock - Window)
        /\ h \in Seq(Nat) /\ m \in Nat /\ clock \in Nat
        /\ Len(h) = m + Len(kept) /\ Len(h) \in Nat /\ Ordered(h, clock) /\ Spread(h)
    BY <1>1, Pruned
  <1>3. clock' = clock /\ popped' = [popped EXCEPT ![c] = m]
    BY <1>1
  <1>4. CASE Full(kept)
    <2>1. /\ clients' = [clients EXCEPT ![c] = kept] /\ accepted' = accepted
          /\ verdict' = [verdict EXCEPT ![c] = "refused"]
      BY <1>1, <1>4
    <2> HIDE DEF kept, m, h
    <2>2. TypeOK'
      BY <1>2, <1>3, <2>1 DEF IInv, TypeOK
    <2>3. ASSUME NEW d \in Clients PROVE Shape(d)'
      <3>1. CASE d # c
        <4>1. clients'[d] = clients[d] /\ accepted'[d] = accepted[d] /\ popped'[d] = popped[d]
          BY <1>3, <2>1, <3>1 DEF IInv, TypeOK
        <4> QED
          BY <1>3, <4>1 DEF IInv, Shape, Suffix, OlderThan, Ordered, Spread
      <3>2. CASE d = c
        <4>1. clients'[c] = kept /\ accepted'[c] = h /\ popped'[c] = m
          BY <1>3, <2>1 DEF IInv, TypeOK, h
        <4> QED
          BY <1>2, <1>3, <3>2, <4>1 DEF Shape, Suffix, OlderThan, Ordered, Spread
      <3> QED
        BY <3>1, <3>2
    <2> QED
      BY <2>2, <2>3 DEF IInv
  <1>5. CASE ~Full(kept)
    <2>1. /\ clients' = [clients EXCEPT ![c] = Append(kept, clock)]
          /\ accepted' = [accepted EXCEPT ![c] = Append(h, clock)]
          /\ verdict' = [verdict EXCEPT ![c] = "allowed"]
      BY <1>1, <1>5
    <2>2. Len(kept) < MaxRequests
      BY <1>2, <1>5, LimitAssumption DEF Full
    <2> HIDE DEF kept, m, h
    <2>3. /\ Append(kept, clock) \in Seq(Nat) /\ Len(Append(kept, clock)) = Len(kept) + 1
          /\ Append(h, clock) \in Seq(Nat)
      BY <1>2, AppendedElements
    <2>4. Suffix(Append(h, clock), Append(kept, clock), m)
      BY <1>2, SuffixAppended
    <2>5. OlderThan(Append(h, clock), m, clock - Window)
      <3>1. \A i \in 1..Len(h) : Append(h, clock)[i] = h[i]
        BY <1>2, AppendedElements
      <3>2. \A i \in 1..m : i \in 1..Len(h)
        BY <1>2
      <3> QED
        BY <1>2, <3>1, <3>2 DEF OlderThan
    <2>6. Ordered(Append(h, clock), clock)
      BY <1>2, OrderedAppended
    <2>7. Spread(Append(h, clock))
      <3>1. m <= Len(h) /\ Len(h) - m < MaxRequests
        BY <1>2, <2>2, LimitAssumption
      <3> QED
        BY <1>2, <3>1, SpreadAppended
    <2>8. TypeOK'
      <3>1. Len(Append(kept, clock)) <= MaxRequests
        BY <1>2, <2>2, <2>3, LimitAssumption
      <3> QED
        BY <1>2, <1>3, <2>1, <2>3, <3>1 DEF IInv, TypeOK
    <2>9. ASSUME NEW d \in Clients PROVE Shape(d)'
      <3>1. CASE d # c
        <4>1. clients'[d] = clients[d] /\ accepted'[d] = accepted[d] /\ popped'[d] = popped[d]
          BY <1>3, <2>1, <3>1 DEF IInv, TypeOK
        <4> QED
          BY <1>3, <4>1 DEF IInv, Shape, Suffix, OlderThan, Ordered, Spread
      <3>2. CASE d = c
        <4>1. clients'[c] = Append(kept, clock) /\ accepted'[c] = Append(h, clock) /\ popped'[c] = m
          BY <1>3, <2>1 DEF IInv, TypeOK
        <4> QED
          BY <1>3, <2>4, <2>5, <2>6, <2>7, <3>2, <4>1 DEF Shape, Suffix, OlderThan, Ordered, Spread
      <3> QED
        BY <3>1, <3>2
    <2> QED
      BY <2>8, <2>9 DEF IInv
  <1> QED
    BY <1>4, <1>5

\* Every step of the limiter preserves the invariant.
LEMMA NextIInv == ASSUME IInv, [Next]_vars PROVE IInv'
  <1>1. CASE Tick
    BY <1>1, TickStep
  <1>2. ASSUME NEW c \in Clients, IsAllowed(c) PROVE IInv'
    BY <1>2, IsAllowedStep
  <1>3. CASE UNCHANGED vars
    BY <1>3 DEF vars, IInv, TypeOK, Shape, Suffix, OlderThan, Ordered, Spread
  <1> QED
    BY <1>1, <1>2, <1>3 DEF Next

\* The invariant holds in every reachable state of the limiter.
THEOREM Invariant == Spec => []IInv
  <1>1. IInv /\ [Next]_vars => IInv'
    BY NextIInv
  <1> QED
    BY <1>1, InitIInv, PTL DEF Spec

\* The deque of an address stays within the limit (rate_limiter.py:31-33).
THEOREM TypeCorrect == Spec => []TypeOK
  BY Invariant, PTL DEF IInv

\* No window of the configured length holds more than the configured number of
\* allowed requests of an address (rate_limiter.py:22-34).
THEOREM WithinLimitHolds == Spec => []WithinLimit
  <1>1. IInv => WithinLimit
    <2> SUFFICES ASSUME IInv, NEW c \in Clients, NEW i \in DOMAIN accepted[c], NEW j \in DOMAIN accepted[c],
                        j - i >= MaxRequests
                 PROVE  accepted[c][j] - accepted[c][i] > Window
      BY DEF WithinLimit
    <2>1. accepted[c] \in Seq(Nat) /\ Spread(accepted[c])
      BY DEF IInv, TypeOK, Shape
    <2>2. DOMAIN accepted[c] = 1..Len(accepted[c])
      BY <2>1
    <2> QED
      BY <2>1, <2>2 DEF Spread
  <1> QED
    BY <1>1, Invariant, PTL

-----------------------------------------------------------------------------
(* The refinement.                                                           *)

\* The times that count are an interval of the history, as long as the kept deque.
LEMMA RecentIsKept ==
    ASSUME IInv, NEW c \in Clients, NEW k \in 0..Len(clients[c]), PrunesTo(clients[c], k)
    PROVE  WindowContract!Cardinality(WindowContract!Recent(c))
             = Len(SubSeq(clients[c], k + 1, Len(clients[c])))
  <1> DEFINE n == Len(accepted[c])
             m == popped[c] + k
             kept == SubSeq(clients[c], k + 1, Len(clients[c]))
  <1>1. /\ accepted[c] \in Seq(Nat) /\ n \in Nat /\ m \in Nat /\ clock \in Nat
        /\ OlderThan(accepted[c], m, clock - Window) /\ n = m + Len(kept) /\ Len(kept) \in Nat
        /\ \A i \in 1..n : i > m => accepted[c][i] >= clock - Window
    BY Pruned
  <1>2. DOMAIN accepted[c] = 1..n /\ \A i \in 1..n : accepted[c][i] \in Nat
    <2>1. accepted[c] \in Seq(Nat)
      BY <1>1
    <2> QED
      BY <2>1
  <1> HIDE DEF n, m, kept
  <1>3. \A i \in 1..n : accepted[c][i] >= clock - Window <=> i > m
    <2> SUFFICES ASSUME NEW i \in 1..n PROVE accepted[c][i] >= clock - Window <=> i > m
      OBVIOUS
    <2>1. accepted[c][i] \in Nat /\ clock - Window \in Int
      BY <1>1, <1>2, LimitAssumption
    <2>2. CASE i > m
      BY <1>1, <2>2
    <2>3. CASE i <= m
      <3>1. i \in 1..m
        BY <1>1, <2>3
      <3>2. accepted[c][i] < clock - Window
        BY <1>1, <3>1 DEF OlderThan
      <3> QED
        BY <1>1, <2>1, <2>3, <3>2
    <2> QED
      BY <1>1, <2>2, <2>3
  <1>4. WindowContract!Recent(c) = (m + 1)..n
    BY <1>1, <1>2, <1>3 DEF WindowContract!Recent
  <1>5. Cardinality((m + 1)..n) = IF m + 1 > n THEN 0 ELSE n - (m + 1) + 1
    <2>1. m + 1 \in Int /\ n \in Int
      BY <1>1
    <2> QED
      BY <2>1, FS_Interval
  <1>6. Cardinality((m + 1)..n) = Len(kept)
    BY <1>1, <1>5
  <1>7. WindowContract!Cardinality((m + 1)..n) = Cardinality((m + 1)..n)
    BY DEF WindowContract!Cardinality, Cardinality
  <1> QED
    BY <1>4, <1>6, <1>7 DEF kept

\* Every call decides as the abstract window does (rate_limiter.py:22-34).
THEOREM ImplementsWindow == Spec => WindowSpec
  <1>1. Init => WindowContract!Init
    BY DEF Init, WindowContract!Init
  <1>2. IInv /\ [Next]_vars => [WindowContract!Next]_<<clock, accepted, verdict>>
    <2> SUFFICES ASSUME IInv, [Next]_vars PROVE [WindowContract!Next]_<<clock, accepted, verdict>>
      OBVIOUS
    <2>1. CASE Tick
      BY <2>1 DEF Tick, WindowContract!Tick, WindowContract!Next
    <2>2. ASSUME NEW c \in Clients, IsAllowed(c) PROVE WindowContract!Next
      <3>1. PICK k \in 0..Len(clients[c]) :
              /\ PrunesTo(clients[c], k)
              /\ LET kept == SubSeq(clients[c], k + 1, Len(clients[c])) IN
                 \/ /\ Full(kept)
                    /\ verdict' = [verdict EXCEPT ![c] = "refused"] /\ UNCHANGED <<clock, accepted>>
                 \/ /\ ~Full(kept)
                    /\ accepted' = [accepted EXCEPT ![c] = Append(@, clock)]
                    /\ verdict' = [verdict EXCEPT ![c] = "allowed"] /\ UNCHANGED clock
        BY <2>2 DEF IsAllowed
      <3> DEFINE kept == SubSeq(clients[c], k + 1, Len(clients[c]))
      <3>2. WindowContract!Cardinality(WindowContract!Recent(c)) = Len(kept)
        BY <3>1, RecentIsKept
      <3>3. Len(kept) \in Nat
        BY <3>1, Pruned
      <3>4. CASE Full(kept)
        <4>1. WindowContract!Cardinality(WindowContract!Recent(c)) >= MaxRequests
          BY <3>2, <3>4 DEF Full
        <4>2. WindowContract!Refuse(c)
          BY <3>1, <3>4, <4>1 DEF WindowContract!Refuse
        <4> QED
          BY <4>2 DEF WindowContract!Next
      <3>5. CASE ~Full(kept)
        <4>1. WindowContract!Cardinality(WindowContract!Recent(c)) < MaxRequests
          BY <3>2, <3>3, <3>5, LimitAssumption DEF Full
        <4>2. WindowContract!Answer(c)
          BY <3>1, <3>5, <4>1 DEF WindowContract!Answer
        <4> QED
          BY <4>2 DEF WindowContract!Next
      <3> QED
        BY <3>4, <3>5
    <2>3. CASE UNCHANGED vars
      BY <2>3 DEF vars
    <2> QED
      BY <2>1, <2>2, <2>3 DEF Next
  <1> QED
    BY <1>1, <1>2, Invariant, PTL DEF Spec, WindowSpec, WindowContract!Spec
=============================================================================
