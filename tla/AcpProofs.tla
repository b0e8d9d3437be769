------------------------------- MODULE AcpProofs -------------------------------
(* Proofs about the two modules of the ACP part that stand alone.             *)
(*                                                                            *)
(* AcpClient: type correctness, and that a status returned as final is of a   *)
(* closed task, for any number of calls and any network.                      *)
(*                                                                            *)
(* Diagnostics: that the scanner of the configuration file removes exactly    *)
(* the comments, for texts of any length, and that the loop over the output   *)
(* of OpenCode lists exactly the models that can be told apart, for listings  *)
(* of any length.  Both rest on induction over numbers, proved first.         *)
EXTENDS AcpClient, Diagnostics, WellFoundedInduction, SequenceTheorems, TLAPS

\* The row of a task is closed for good: it can change its terminal status or be
\* deleted, but it cannot run again.
Closed(t) == status[t] \in Service!Terminal \cup {"deleted"}

-----------------------------------------------------------------------------
(* The service alone.                                                       *)

\* What the contract allows keeps the type of the table.
LEMMA ServiceTypes ==
    ASSUME TypeOK,
           \/ \E t \in Tasks : Service!Accept(t) \/ Service!Answer(t)
           \/ \E t \in Tasks, s \in Service!Terminal : Service!Close(t, s)
           \/ \E overdue, old \in SUBSET Tasks : Service!Sweep(overdue, old)
           \/ UNCHANGED serviceVars
    PROVE  /\ status' \in [Tasks -> Service!Terminal \cup {"absent", "running", "deleted"}]
           /\ answered' \subseteq Tasks
  BY DEF TypeOK, serviceVars, Service!Accept, Service!Answer, Service!Close,
         Service!Sweep, Service!Terminal

\* A closed row stays closed (AcpTask has no write that sets "running" after the
\* INSERT, and cleanup_old only deletes).
LEMMA ServiceKeepsClosed ==
    ASSUME TypeOK, NEW u \in Tasks, Closed(u),
           \/ \E t \in Tasks : Service!Accept(t) \/ Service!Answer(t)
           \/ \E t \in Tasks, s \in Service!Terminal : Service!Close(t, s)
           \/ \E overdue, old \in SUBSET Tasks : Service!Sweep(overdue, old)
           \/ UNCHANGED serviceVars
    PROVE  Closed(u)'
  BY DEF TypeOK, Closed, serviceVars, Service!Accept, Service!Answer, Service!Close,
         Service!Sweep, Service!Terminal

\* Every step of the composition is a step of the service or leaves it alone.
LEMMA ServiceMoves ==
    ASSUME [Next]_vars
    PROVE  \/ \E t \in Tasks : Service!Accept(t) \/ Service!Answer(t)
           \/ \E t \in Tasks, s \in Service!Terminal : Service!Close(t, s)
           \/ \E overdue, old \in SUBSET Tasks : Service!Sweep(overdue, old)
           \/ UNCHANGED serviceVars
<1>1. CASE UNCHANGED vars
  BY <1>1 DEF vars
<1>2. ASSUME NEW t \in Tasks, ClientStep(t)
      PROVE  UNCHANGED serviceVars
  BY <1>2 DEF ClientStep, Submit, SubmitAnswered, SubmitFails, Expire, Poll, PollFinal,
              PollAgain, GiveUp, DeleteDone
<1>3. ASSUME NEW t \in Tasks, NetworkStep(t)
      PROVE  \/ Service!Accept(t) \/ \E s \in Service!Terminal : Service!Close(t, s)
             \/ UNCHANGED serviceVars
  BY <1>3 DEF NetworkStep, HandlePost, HandleGet, HandleDelete, Lose, Service!Terminal
<1>4. CASE ServiceStep
  BY <1>4 DEF ServiceStep
<1>5. QED
  BY <1>1, <1>2, <1>3, <1>4 DEF Next

-----------------------------------------------------------------------------
(* Type correctness.                                                        *)

\* The initial state is well typed.
LEMMA InitTypes == Init => TypeOK
  BY DEF Init, TypeOK, Service!Init, Service!Terminal, Replies

\* Every step keeps the types of the network and of the handlers.
LEMMA NextTypes == TypeOK /\ [Next]_vars => TypeOK'
<1> SUFFICES ASSUME TypeOK, [Next]_vars PROVE TypeOK'
  OBVIOUS
<1>1. /\ status' \in [Tasks -> Service!Terminal \cup {"absent", "running", "deleted"}]
      /\ answered' \subseteq Tasks
  BY ServiceMoves, ServiceTypes
<1> DEFINE Rest ==
        /\ requests \subseteq Tasks \X Verbs
        /\ reply \in [Tasks -> Replies]
        /\ phase \in [Tasks -> Waiting \cup {"idle", "polling", "returned"}]
        /\ verdict \in [Tasks -> Service!Terminal \cup {"none", "error", "timed_out"}]
        /\ expired \subseteq Tasks
<1>2. Rest
  BY DEF TypeOK
<1>3. ASSUME UNCHANGED vars PROVE Rest'
  BY <1>2, <1>3 DEF vars, networkVars, clientVars
<1>4. ASSUME NEW t \in Tasks, Submit(t) \/ Poll(t) \/ GiveUp(t) PROVE Rest'
  BY <1>2, <1>4 DEF Submit, Poll, GiveUp, Send, Verbs, Waiting, Replies
<1>5. ASSUME NEW t \in Tasks, SubmitAnswered(t) \/ PollAgain(t) \/ Expire(t) PROVE Rest'
  BY <1>2, <1>5 DEF SubmitAnswered, PollAgain, Expire, networkVars
<1>6. ASSUME NEW t \in Tasks, SubmitFails(t) \/ PollFinal(t) \/ DeleteDone(t) PROVE Rest'
  BY <1>2, <1>6 DEF SubmitFails, PollFinal, DeleteDone, Return, Final, networkVars,
                    Service!Terminal
<1>7. ASSUME NEW t \in Tasks, NEW verb \in Verbs, Lose(t, verb) PROVE Rest'
  BY <1>2, <1>7 DEF Lose, clientVars
<1>8. ASSUME NEW t \in Tasks, HandlePost(t) \/ HandleDelete(t) PROVE Rest'
  BY <1>2, <1>8 DEF HandlePost, HandleDelete, Answered, clientVars, Replies, Service!Terminal
<1>9. ASSUME NEW t \in Tasks, HandleGet(t) PROVE Rest'
  <2>1. StatusOf(t) \in Replies
    BY DEF StatusOf, Replies, TypeOK
  <2> QED
    BY <1>2, <1>9, <2>1 DEF HandleGet, Answered, clientVars
<1>10. ASSUME ServiceStep PROVE Rest'
  BY <1>2, <1>10 DEF ServiceStep, networkVars, clientVars
<1>11. Rest'
  BY <1>3, <1>4, <1>5, <1>6, <1>7, <1>8, <1>9, <1>10 DEF Next, ClientStep, NetworkStep
<1>12. QED
  BY <1>1, <1>11 DEF TypeOK

\* Type correctness of the client and its network.
THEOREM TypeCorrect == Spec => []TypeOK
  BY InitTypes, NextTypes, PTL DEF Spec

-----------------------------------------------------------------------------
(* The inductive invariant: a final status is true of the row from the moment *)
(* it is put into a reply, however long the reply takes and whatever the      *)
(* service does meanwhile.                                                    *)

ReplyTrue == \A t \in Tasks : Final(reply[t]) => Closed(t)

VerdictTrue ==
    \A t \in Tasks : phase[t] = "returned" =>
        verdict[t] \in {"error", "timed_out"} \/ (Final(verdict[t]) /\ Closed(t))

IInv == TypeOK /\ ReplyTrue /\ VerdictTrue

\* No reply and no verdict exist at the start.
LEMMA InitInvariant == Init => IInv
  BY InitTypes DEF Init, IInv, ReplyTrue, VerdictTrue, Final

\* Every step keeps replies and verdicts true.
LEMMA NextInvariant == IInv /\ [Next]_vars => IInv'
<1> SUFFICES ASSUME IInv, [Next]_vars PROVE IInv'
  OBVIOUS
<1> USE DEF IInv
<1>1. TypeOK'
  BY NextTypes
<1>2. ASSUME NEW u \in Tasks, Closed(u) PROVE Closed(u)'
  BY <1>2, ServiceMoves, ServiceKeepsClosed
<1>3. ReplyTrue'
  <2> SUFFICES ASSUME NEW u \in Tasks, Final(reply'[u]) PROVE Closed(u)'
    BY DEF ReplyTrue, Final
  <2>1. CASE reply'[u] = reply[u]
    BY <2>1, <1>2 DEF ReplyTrue
  <2>2. ASSUME NEW t \in Tasks, Submit(t) \/ Poll(t) \/ GiveUp(t) PROVE reply'[u] = reply[u]
    <3>1. reply' = [reply EXCEPT ![t] = "none"]
      BY <2>2 DEF Submit, Poll, GiveUp, Send
    <3> QED
      BY <3>1 DEF TypeOK, Final
  <2>3. ASSUME NEW t \in Tasks, HandlePost(t) PROVE reply'[u] = reply[u]
    BY <2>3 DEF HandlePost, Answered, TypeOK, Final
  <2>4. ASSUME NEW t \in Tasks, HandleGet(t) PROVE Closed(u)'
    <3>1. CASE reply'[u] = reply[u]
      BY <3>1, <2>1
    <3>2. CASE reply'[u] # reply[u]
      <4>1. u = t /\ reply'[u] = StatusOf(u)
        BY <2>4, <3>2 DEF HandleGet, Answered, TypeOK
      <4>2. Closed(u)
        BY <4>1 DEF StatusOf, Final, Closed, Service!Terminal
      <4> QED
        BY <4>2, <1>2
    <3> QED
      BY <3>1, <3>2
  <2>5. ASSUME NEW t \in Tasks, HandleDelete(t) PROVE Closed(u)'
    <3>1. CASE reply'[u] = reply[u]
      BY <3>1, <2>1
    <3>2. CASE reply'[u] # reply[u]
      <4>1. u = t /\ Service!Close(t, "cancelled")
        BY <2>5, <3>2 DEF HandleDelete, Answered, TypeOK, Final
      <4> QED
        BY <4>1 DEF Service!Close, Service!Terminal, Closed, TypeOK
    <3> QED
      BY <3>1, <3>2
  <2>6. ASSUME NEW t \in Tasks,
               \/ SubmitAnswered(t) \/ SubmitFails(t) \/ Expire(t) \/ PollFinal(t)
               \/ PollAgain(t) \/ DeleteDone(t) \/ \E verb \in Verbs : Lose(t, verb)
        PROVE  reply'[u] = reply[u]
    BY <2>6 DEF SubmitAnswered, SubmitFails, Expire, PollFinal, PollAgain, DeleteDone, Lose,
                networkVars
  <2>7. CASE ServiceStep \/ UNCHANGED vars
    BY <2>7, <2>1 DEF ServiceStep, vars, networkVars
  <2> QED
    BY <2>1, <2>2, <2>3, <2>4, <2>5, <2>6, <2>7 DEF Next, ClientStep, NetworkStep
<1>4. VerdictTrue'
  <2> SUFFICES ASSUME NEW u \in Tasks, phase'[u] = "returned"
               PROVE  verdict'[u] \in {"error", "timed_out"} \/ (Final(verdict'[u]) /\ Closed(u)')
    BY DEF VerdictTrue, Final
  <2>1. CASE phase'[u] = phase[u] /\ verdict'[u] = verdict[u]
    BY <2>1, <1>2 DEF VerdictTrue
  <2>2. ASSUME NEW t \in Tasks,
               \/ Submit(t) \/ SubmitAnswered(t) \/ Expire(t) \/ Poll(t) \/ PollAgain(t)
               \/ GiveUp(t)
        PROVE  phase'[u] = phase[u] /\ verdict'[u] = verdict[u]
    BY <2>2 DEF Submit, SubmitAnswered, Expire, Poll, PollAgain, GiveUp, Send, TypeOK
  <2>3. ASSUME NEW t \in Tasks, SubmitFails(t) \/ DeleteDone(t)
        PROVE  \/ verdict'[u] \in {"error", "timed_out"}
               \/ phase'[u] = phase[u] /\ verdict'[u] = verdict[u]
    BY <2>3 DEF SubmitFails, DeleteDone, Return, TypeOK
  <2>4. ASSUME NEW t \in Tasks, PollFinal(t)
        PROVE  \/ Final(verdict'[u]) /\ Closed(u)
               \/ phase'[u] = phase[u] /\ verdict'[u] = verdict[u]
    BY <2>4 DEF PollFinal, Return, TypeOK, ReplyTrue
  <2>5. ASSUME NEW t \in Tasks, NetworkStep(t)
        PROVE  phase'[u] = phase[u] /\ verdict'[u] = verdict[u]
    BY <2>5 DEF NetworkStep, HandlePost, HandleGet, HandleDelete, Lose, clientVars
  <2>6. CASE ServiceStep \/ UNCHANGED vars
    BY <2>6, <2>1 DEF ServiceStep, vars, clientVars
  <2> QED
    BY <1>2, <2>1, <2>2, <2>3, <2>4, <2>5, <2>6 DEF Next, ClientStep
<1>5. QED
  BY <1>1, <1>3, <1>4

\* A status returned as final is of a task that is closed for good.
THEOREM ReturnedIsClosedHolds == Spec => []ReturnedIsClosed
<1>1. IInv => ReturnedIsClosed
  BY DEF IInv, VerdictTrue, ReturnedIsClosed, Closed
<1>2. QED
  BY <1>1, InitInvariant, NextInvariant, PTL DEF Spec

-----------------------------------------------------------------------------
(* Induction and recursion over numbers.  The induction theorems of the      *)
(* library take an operator; that every set of numbers has a least element    *)
(* does not.                                                                  *)

Less == {p \in Nat \X Nat : p[1] < p[2]}

\* A set that holds 0, and with a number the next one, holds all numbers.
LEMMA SetInduction ==
    ASSUME NEW S, 0 \in S, \A k \in Nat : k \in S => k + 1 \in S
    PROVE  Nat \subseteq S
  <1>1. IsWellFoundedOn(Less, Nat)
    BY NatLessThanWellFounded DEF OpToRel, Less
  <1> SUFFICES ASSUME Nat \ S # {} PROVE FALSE
    OBVIOUS
  <1>2. Nat \ S \subseteq Nat
    OBVIOUS
  <1>3. PICK x \in Nat \ S : \A y \in Nat \ S : <<y, x>> \notin Less
    BY <1>1, <1>2, WFMin
  <1>4. x - 1 \in Nat /\ x - 1 \notin S
    <2>1. x # 0
      OBVIOUS
    <2>2. x - 1 \in Nat /\ (x - 1) + 1 = x
      BY <2>1
    <2> QED
      BY <2>2
  <1>5. <<x - 1, x>> \in Less
    BY <1>4 DEF Less
  <1> QED
    BY <1>3, <1>4, <1>5

Solvable(S, base, m, d) ==
    \E f \in [0..m -> S] : f[0] = base /\ \A k \in 1..m : f[k] = d[<<f[k - 1], k>>]

\* A function is given by its value at 0 and a step from each number to the next.
LEMMA Recursion ==
    ASSUME NEW S, NEW base \in S, NEW m \in Nat, NEW d \in [S \X (1..m) -> S]
    PROVE  Solvable(S, base, m, d)
  <1> DEFINE Upto(h) == \E f \in [0..h -> S] :
                            f[0] = base /\ \A k \in 1..h : f[k] = d[<<f[k - 1], k>>]
             T == {h \in Nat : h <= m => Upto(h)}
  <1>1. 0 \in T
    <2> DEFINE f == [k \in 0..0 |-> base]
    <2>1. f \in [0..0 -> S] /\ f[0] = base /\ \A k \in 1..0 : f[k] = d[<<f[k - 1], k>>]
      OBVIOUS
    <2> QED
      BY <2>1
  <1>2. ASSUME NEW h \in Nat, h \in T, h + 1 <= m PROVE Upto(h + 1)
    <2>1. PICK f \in [0..h -> S] : f[0] = base /\ \A k \in 1..h : f[k] = d[<<f[k - 1], k>>]
      BY <1>2
    <2> DEFINE g == [k \in 0..(h + 1) |-> IF k = h + 1 THEN d[<<f[h], h + 1>>] ELSE f[k]]
    <2>2. d[<<f[h], h + 1>>] \in S
      BY <1>2
    <2>3. g \in [0..(h + 1) -> S]
      BY <2>2
    <2>4. g[0] = base
      BY <2>1
    <2>5. ASSUME NEW k \in 1..(h + 1) PROVE g[k] = d[<<g[k - 1], k>>]
      <3>1. CASE k = h + 1
        <4>1. k - 1 = h /\ h \in 0..(h + 1) /\ h # h + 1
          BY <3>1
        <4>2. g[k] = d[<<f[h], h + 1>>] /\ g[k - 1] = f[h]
          BY <3>1, <4>1
        <4> QED
          BY <3>1, <4>2
      <3>2. CASE k # h + 1
        <4>1. k \in 1..h /\ k - 1 \in 0..h /\ k - 1 # h + 1
          BY <3>2
        <4>2. g[k] = f[k] /\ g[k - 1] = f[k - 1]
          BY <4>1
        <4> QED
          BY <2>1, <4>1, <4>2
      <3> QED
        BY <3>1, <3>2
    <2> HIDE DEF g
    <2> QED
      BY <2>3, <2>4, <2>5
  <1> HIDE DEF Upto
  <1>3. Nat \subseteq T
    <2>1. \A h \in Nat : h \in T => h + 1 \in T
      BY <1>2
    <2> HIDE DEF T
    <2> QED
      BY <1>1, <2>1, SetInduction
  <1>4. Upto(m)
    BY <1>3
  <1> QED
    BY <1>4 DEF Upto, Solvable

-----------------------------------------------------------------------------
(* The reference reader.                                                     *)

Modes == {"code", "slash", "string", "escape", "line", "block", "star"}

Texts == Seq(Characters)

\* The reader is always in one of its modes.
LEMMA StepType == ASSUME NEW mode \in Modes, NEW ch \in Characters PROVE Step(mode, ch) \in Modes
  BY DEF Modes, Characters, Step

\* The recursion of After has a solution, so that After follows Step.
LEMMA AfterSteps ==
    ASSUME NEW t \in Texts
    PROVE  /\ After(t)[0] = "code"
           /\ \A k \in 1..Len(t) : After(t)[k] = Step(After(t)[k - 1], t[k])
           /\ \A k \in 0..Len(t) : After(t)[k] \in Modes
  <1> DEFINE d == [p \in Modes \X (1..Len(t)) |-> Step(p[1], t[p[2]])]
             Solves(f) == f = [k \in 0..Len(t) |-> IF k = 0 THEN "code" ELSE Step(f[k - 1], t[k])]
  <1>1. Len(t) \in Nat /\ \A k \in 1..Len(t) : t[k] \in Characters
    BY DEF Texts
  <1>2. d \in [Modes \X (1..Len(t)) -> Modes] /\ "code" \in Modes
    BY <1>1, StepType DEF Modes
  <1>3. PICK f \in [0..Len(t) -> Modes] : f[0] = "code" /\ \A k \in 1..Len(t) : f[k] = d[<<f[k - 1], k>>]
    <2> HIDE DEF d
    <2>1. Solvable(Modes, "code", Len(t), d)
      BY <1>1, <1>2, Recursion
    <2> QED
      BY <2>1 DEF Solvable
  <1>4. \A k \in 1..Len(t) : f[k] = Step(f[k - 1], t[k])
    <2> SUFFICES ASSUME NEW k \in 1..Len(t) PROVE f[k] = Step(f[k - 1], t[k])
      OBVIOUS
    <2>1. k - 1 \in 0..Len(t)
      BY <1>1
    <2>2. <<f[k - 1], k>> \in Modes \X (1..Len(t))
      BY <2>1
    <2> QED
      BY <1>3, <2>2
  <1>5. Solves(f)
    BY <1>1, <1>3, <1>4
  <1>6. Solves(After(t))
    <2>1. After(t) = CHOOSE g : Solves(g)
      BY DEF After
    <2> HIDE DEF Solves
    <2> QED
      BY <1>5, <2>1
  <1>7. After(t)[0] = "code" /\ \A k \in 1..Len(t) : After(t)[k] = Step(After(t)[k - 1], t[k])
    BY <1>1, <1>6
  <1>8. \A k \in 0..Len(t) : After(t)[k] \in Modes
    <2> DEFINE T == {h \in Nat : h <= Len(t) => After(t)[h] \in Modes}
    <2>1. 0 \in T
      BY <1>7 DEF Modes
    <2>2. ASSUME NEW h \in Nat, h \in T PROVE h + 1 \in T
      <3> SUFFICES ASSUME h + 1 <= Len(t) PROVE After(t)[h + 1] \in Modes
        OBVIOUS
      <3>1. After(t)[h] \in Modes /\ t[h + 1] \in Characters
        BY <1>1, <2>2
      <3>2. After(t)[h + 1] = Step(After(t)[h], t[h + 1])
        BY <1>1, <1>7
      <3> QED
        BY <3>1, <3>2, StepType
    <2> HIDE DEF T
    <2>3. Nat \subseteq T
      BY <2>1, <2>2, SetInduction
    <2> QED
      BY <1>1, <2>3 DEF T
  <1> QED
    BY <1>7, <1>8

\* The recursion of Kept has a solution too.
LEMMA KeptSteps ==
    ASSUME NEW t \in Texts
    PROVE  /\ Kept(t)[0] = <<>>
           /\ \A k \in 1..Len(t) :
                Kept(t)[k] = IF InComment(t, k) THEN Kept(t)[k - 1] ELSE Append(Kept(t)[k - 1], t[k])
           /\ \A k \in 0..Len(t) : Kept(t)[k] \in Texts
  <1> DEFINE d == [p \in Texts \X (1..Len(t)) |-> IF InComment(t, p[2]) THEN p[1] ELSE Append(p[1], t[p[2]])]
             Solves(f) == f = [k \in 0..Len(t) |-> IF k = 0 THEN <<>>
                                  ELSE IF InComment(t, k) THEN f[k - 1] ELSE Append(f[k - 1], t[k])]
  <1>1. Len(t) \in Nat /\ \A k \in 1..Len(t) : t[k] \in Characters
    BY DEF Texts
  <1>2. d \in [Texts \X (1..Len(t)) -> Texts] /\ <<>> \in Texts
    BY <1>1 DEF Texts
  <1>3. PICK f \in [0..Len(t) -> Texts] : f[0] = <<>> /\ \A k \in 1..Len(t) : f[k] = d[<<f[k - 1], k>>]
    <2> HIDE DEF d
    <2>1. Solvable(Texts, <<>>, Len(t), d)
      BY <1>1, <1>2, Recursion
    <2> QED
      BY <2>1 DEF Solvable
  <1>4. \A k \in 1..Len(t) : f[k] = IF InComment(t, k) THEN f[k - 1] ELSE Append(f[k - 1], t[k])
    <2> SUFFICES ASSUME NEW k \in 1..Len(t)
                 PROVE  f[k] = IF InComment(t, k) THEN f[k - 1] ELSE Append(f[k - 1], t[k])
      OBVIOUS
    <2>1. k - 1 \in 0..Len(t)
      BY <1>1
    <2>2. <<f[k - 1], k>> \in Texts \X (1..Len(t))
      BY <2>1
    <2> QED
      BY <1>3, <2>2
  <1>5. Solves(f)
    <2> DEFINE h == [k \in 0..Len(t) |-> IF k = 0 THEN <<>>
                        ELSE IF InComment(t, k) THEN f[k - 1] ELSE Append(f[k - 1], t[k])]
    <2>1. \A k \in 0..Len(t) : f[k] = h[k]
      <3> SUFFICES ASSUME NEW k \in 0..Len(t) PROVE f[k] = h[k]
        OBVIOUS
      <3>1. k = 0 \/ k \in 1..Len(t)
        BY <1>1
      <3> QED
        BY <1>3, <1>4, <3>1
    <2>2. DOMAIN f = 0..Len(t) /\ DOMAIN h = 0..Len(t) /\ f = [k \in DOMAIN f |-> f[k]] /\ h = [k \in DOMAIN h |-> h[k]]
      OBVIOUS
    <2>3. f = h
      <3> HIDE DEF h
      <3> QED
        BY <2>1, <2>2
    <2> QED
      BY <2>3
  <1>6. Solves(Kept(t))
    <2>1. Kept(t) = CHOOSE g : Solves(g)
      BY DEF Kept
    <2> HIDE DEF Solves
    <2> QED
      BY <1>5, <2>1
  <1>7. /\ Kept(t)[0] = <<>>
        /\ \A k \in 1..Len(t) :
             Kept(t)[k] = IF InComment(t, k) THEN Kept(t)[k - 1] ELSE Append(Kept(t)[k - 1], t[k])
    <2>1. ASSUME NEW g, Solves(g), NEW k \in 0..Len(t)
          PROVE  g[k] = IF k = 0 THEN <<>> ELSE IF InComment(t, k) THEN g[k - 1] ELSE Append(g[k - 1], t[k])
      BY <2>1, Zenon
    <2> HIDE DEF Solves
    <2>2. \A k \in 0..Len(t) :
             Kept(t)[k] = IF k = 0 THEN <<>>
                          ELSE IF InComment(t, k) THEN Kept(t)[k - 1] ELSE Append(Kept(t)[k - 1], t[k])
      BY <1>6, <2>1
    <2>3. 0 \in 0..Len(t) /\ \A k \in 1..Len(t) : k \in 0..Len(t) /\ k # 0
      BY <1>1
    <2> QED
      BY <2>2, <2>3
  <1>8. \A k \in 0..Len(t) : Kept(t)[k] \in Texts
    <2> DEFINE T == {h \in Nat : h <= Len(t) => Kept(t)[h] \in Texts}
    <2>1. 0 \in T
      BY <1>2, <1>7
    <2>2. ASSUME NEW h \in Nat, h \in T PROVE h + 1 \in T
      <3> SUFFICES ASSUME h + 1 <= Len(t) PROVE Kept(t)[h + 1] \in Texts
        OBVIOUS
      <3>1. Kept(t)[h] \in Texts /\ t[h + 1] \in Characters
        BY <1>1, <2>2
      <3>2. Kept(t)[h + 1] = IF InComment(t, h + 1) THEN Kept(t)[h] ELSE Append(Kept(t)[h], t[h + 1])
        BY <1>1, <1>7
      <3> QED
        BY <3>1, <3>2 DEF Texts
    <2> HIDE DEF T
    <2>3. Nat \subseteq T
      BY <2>1, <2>2, SetInduction
    <2> QED
      BY <1>1, <2>3 DEF T
  <1> QED
    BY <1>7, <1>8

\* A stretch of one character.
LEMMA OneOf ==
    ASSUME NEW t \in Texts, NEW k \in 1..Len(t)
    PROVE  SubSeq(t, k, k) = <<t[k]>>
  <1>1. Len(t) \in Nat /\ t[k] \in Characters
    BY DEF Texts
  <1>2. SubSeq(t, k, k) = <<t[k]>> \o SubSeq(t, k + 1, k)
    BY <1>1, SubSeqRecursiveFirst DEF Texts
  <1>3. SubSeq(t, k + 1, k) = <<>>
    BY <1>1, SubSeqEmpty
  <1>4. ASSUME NEW c PROVE <<c>> \o <<>> = <<c>>
    OBVIOUS
  <1> QED
    BY <1>2, <1>3, <1>4

\* What the reader does not find to be comment is appended.
LEMMA KeepsOne ==
    ASSUME NEW t \in Texts, NEW k \in 1..Len(t), ~InComment(t, k)
    PROVE  Kept(t)[k] = Kept(t)[k - 1] \o SubSeq(t, k, k)
  <1>1. Len(t) \in Nat /\ t[k] \in Characters /\ k - 1 \in 0..Len(t)
    BY DEF Texts
  <1>2. Kept(t)[k - 1] \in Texts /\ Kept(t)[k] = Append(Kept(t)[k - 1], t[k])
    BY <1>1, KeptSteps
  <1>3. SubSeq(t, k, k) = <<t[k]>>
    BY <1>1, OneOf
  <1> QED
    BY <1>1, <1>2, <1>3 DEF Texts

\* Two characters in a row.
LEMMA KeepsTwo ==
    ASSUME NEW t \in Texts, NEW k \in 1..(Len(t) - 1), ~InComment(t, k), ~InComment(t, k + 1)
    PROVE  Kept(t)[k + 1] = Kept(t)[k - 1] \o SubSeq(t, k, k + 1)
  <1>1. Len(t) \in Nat /\ t[k] \in Characters /\ t[k + 1] \in Characters
        /\ k - 1 \in 0..Len(t) /\ k \in 1..Len(t) /\ k + 1 \in 1..Len(t) /\ (k + 1) - 1 = k
    BY DEF Texts
  <1>2. Kept(t)[k - 1] \in Texts /\ Kept(t)[k] = Append(Kept(t)[k - 1], t[k])
        /\ Kept(t)[k + 1] = Append(Kept(t)[k], t[k + 1])
    BY <1>1, KeptSteps
  <1>3. SubSeq(t, k, k + 1) = <<t[k]>> \o <<t[k + 1]>>
    <2>1. SubSeq(t, k, k + 1) = <<t[k]>> \o SubSeq(t, k + 1, k + 1)
      BY <1>1, SubSeqRecursiveFirst DEF Texts
    <2> QED
      BY <1>1, <2>1, OneOf
  <1>4. ASSUME NEW s \in Texts, NEW x \in Characters, NEW y \in Characters
        PROVE  s \o (<<x>> \o <<y>>) = Append(Append(s, x), y)
    <2>1. Append(s, x) \in Texts /\ Append(s, x) = s \o <<x>>
      BY AppendIsConcat DEF Texts
    <2>2. Append(Append(s, x), y) = (s \o <<x>>) \o <<y>>
      BY <2>1, AppendIsConcat DEF Texts
    <2>3. <<x>> \in Texts /\ <<y>> \in Texts
      BY DEF Texts
    <2> QED
      BY <2>2, <2>3, ConcatAssociative DEF Texts
  <1> QED
    BY <1>1, <1>2, <1>3, <1>4

\* A stretch that is comment all through adds nothing.
LEMMA KeepsNothing ==
    ASSUME NEW t \in Texts, NEW from \in 1..(Len(t) + 1), NEW to \in from..(Len(t) + 1),
           \A k \in from..(to - 1) : InComment(t, k)
    PROVE  Kept(t)[to - 1] = Kept(t)[from - 1]
  <1> DEFINE T == {h \in Nat : from + h <= to => Kept(t)[from + h - 1] = Kept(t)[from - 1]}
  <1>1. Len(t) \in Nat
    BY DEF Texts
  <1>2. 0 \in T
    BY <1>1
  <1>3. ASSUME NEW h \in Nat, h \in T PROVE h + 1 \in T
    <2> SUFFICES ASSUME from + (h + 1) <= to PROVE Kept(t)[from + (h + 1) - 1] = Kept(t)[from - 1]
      OBVIOUS
    <2>1. from + h \in from..(to - 1) /\ from + h \in 1..Len(t) /\ from + (h + 1) - 1 = from + h
      BY <1>1
    <2>2. Kept(t)[from + h] = Kept(t)[from + h - 1]
      BY <2>1, KeptSteps
    <2> QED
      BY <1>3, <2>1, <2>2
  <1> HIDE DEF T
  <1>4. to - from \in T
    BY <1>1, <1>2, <1>3, SetInduction
  <1> QED
    BY <1>1, <1>4 DEF T

-----------------------------------------------------------------------------
(* What the scanner skips.                                                   *)

\* Every set of numbers that is not empty has a least one.
LEMMA LeastIsLeast ==
    ASSUME NEW S \in SUBSET Nat, S # {}
    PROVE  Least(S) \in S /\ \A k \in S : Least(S) <= k
  <1>1. IsWellFoundedOn(Less, Nat)
    BY NatLessThanWellFounded DEF OpToRel, Less
  <1>2. PICK x \in S : \A y \in S : <<y, x>> \notin Less
    BY <1>1, WFMin
  <1>3. \A y \in S : x <= y
    <2> SUFFICES ASSUME NEW y \in S, y < x PROVE FALSE
      OBVIOUS
    <2>1. <<y, x>> \in Less
      BY DEF Less
    <2> QED
      BY <1>2, <2>1
  <1> QED
    BY <1>3 DEF Least

\* A line comment is skipped up to its newline, which the reader finds next.
LEMMA LineSkipped ==
    ASSUME text \in Texts, NEW k \in 1..(n - 1), text[k] = "s", text[k + 1] = "s",
           After(text)[k - 1] = "code"
    PROVE  /\ BehindLine(k) \in (k + 2)..(n + 1)
           /\ Kept(text)[BehindLine(k) - 1] = Kept(text)[k - 1]
           /\ BehindLine(k) <= n =>
                text[BehindLine(k)] = "n" /\ After(text)[BehindLine(k) - 1] = "line"
  <1> DEFINE e == BehindLine(k)
             S == {j \in k..n : text[j] = "n"} \cup {n + 1}
             t == text
  <1>1. n \in Nat /\ n = Len(t) /\ t \in Texts
    BY DEF n, Texts
  <1>2. e \in S /\ \A j \in S : e <= j
    <2>1. S \in SUBSET Nat /\ S # {}
      BY <1>1
    <2> QED
      BY <2>1, LeastIsLeast DEF BehindLine
  <1>3. e \in (k + 2)..(n + 1)
    BY <1>1, <1>2
  <1>4. \A j \in k..(e - 1) : j \in 1..n /\ t[j] # "n"
    BY <1>1, <1>2, <1>3
  <1>5. After(t)[k] = "slash" /\ After(t)[k + 1] = "line"
    <2>1. k \in 1..n /\ k + 1 \in 1..n /\ (k + 1) - 1 = k
      BY <1>1
    <2>2. After(t)[k] = Step(After(t)[k - 1], t[k]) /\ After(t)[k + 1] = Step(After(t)[k], t[k + 1])
      BY <1>1, <2>1, AfterSteps
    <2>3. After(t)[k] = "slash"
      BY <2>2 DEF Step
    <2> QED
      BY <2>2, <2>3 DEF Step
  <1> DEFINE T == {h \in Nat : k + 1 + h <= e - 1 => After(t)[k + 1 + h] = "line"}
  <1>6. Nat \subseteq T
    <2>1. 0 \in T
      BY <1>1, <1>5
    <2>2. ASSUME NEW h \in Nat, h \in T PROVE h + 1 \in T
      <3> SUFFICES ASSUME k + 1 + (h + 1) <= e - 1 PROVE After(t)[k + 1 + (h + 1)] = "line"
        OBVIOUS
      <3> DEFINE at == k + 1 + (h + 1)
      <3>1. at \in 1..n /\ at \in k..(e - 1) /\ at - 1 = k + 1 + h
        BY <1>1, <1>3
      <3>2. After(t)[at - 1] = "line" /\ t[at] # "n"
        BY <1>3, <1>4, <2>2, <3>1
      <3>3. After(t)[at] = Step(After(t)[at - 1], t[at])
        BY <1>1, <3>1, AfterSteps
      <3> QED
        BY <3>2, <3>3 DEF Step
    <2> HIDE DEF T
    <2> QED
      BY <2>1, <2>2, SetInduction
  <1>7. ASSUME NEW j \in (k + 1)..(e - 1) PROVE After(t)[j] = "line"
    <2>1. j - (k + 1) \in Nat /\ k + 1 + (j - (k + 1)) = j
      BY <1>1, <1>3
    <2>2. j - (k + 1) \in T
      BY <1>6, <2>1
    <2> QED
      BY <1>3, <2>1, <2>2
  <1>8. ASSUME NEW j \in k..(e - 1) PROVE InComment(t, j)
    <2>1. CASE j = k
      BY <1>1, <1>5, <2>1 DEF InComment
    <2>2. CASE j = k + 1
      BY <1>5, <2>2, <1>1 DEF InComment
    <2>3. CASE j > k + 1
      <3>1. j - 1 \in (k + 1)..(e - 1)
        BY <1>1, <1>3, <2>3
      <3> QED
        BY <1>4, <1>7, <3>1 DEF InComment
    <2> QED
      BY <1>3, <2>1, <2>2, <2>3
  <1> HIDE DEF e
  <1>9. Kept(t)[e - 1] = Kept(t)[k - 1]
    BY <1>1, <1>3, <1>8, KeepsNothing
  <1>10. e <= n => t[e] = "n" /\ After(t)[e - 1] = "line"
    <2>1. e - 1 \in (k + 1)..(e - 1)
      BY <1>1, <1>3
    <2> QED
      BY <1>1, <1>2, <1>7, <2>1
  <1> QED
    BY <1>3, <1>9, <1>10 DEF e

\* A block comment is skipped with its end, behind which the reader is in code.
LEMMA BlockSkipped ==
    ASSUME text \in Texts, NEW k \in 1..(n - 1), text[k] = "s", text[k + 1] = "a",
           After(text)[k - 1] = "code"
    PROVE  /\ BehindBlock(k) \in (k + 2)..(n + 1)
           /\ Kept(text)[BehindBlock(k) - 1] = Kept(text)[k - 1]
           /\ BehindBlock(k) <= n => After(text)[BehindBlock(k) - 1] = "code"
  <1> DEFINE e == BehindBlock(k)
             E == {j \in (k + 2)..(n - 1) : text[j] = "a" /\ text[j + 1] = "s"}
             S == {j + 2 : j \in E} \cup {n + 1}
             t == text
             In(j) == IF j >= k + 2 /\ t[j] = "a" THEN "star" ELSE "block"
             last == IF e = n + 1 /\ n + 1 \notin {j + 2 : j \in E} THEN n ELSE e - 2
  <1>1. n \in Nat /\ n = Len(t) /\ t \in Texts
    BY DEF n, Texts
  <1>2. e \in S /\ \A j \in S : e <= j
    <2>1. S \in SUBSET Nat /\ S # {}
      BY <1>1
    <2> QED
      BY <2>1, LeastIsLeast DEF BehindBlock
  <1>3. e \in (k + 2)..(n + 1) /\ last \in k..n
    BY <1>1, <1>2
  <1>4. \A j \in (k + 2)..(last - 1) : t[j] = "a" => t[j + 1] # "s"
    <2> SUFFICES ASSUME NEW j \in (k + 2)..(last - 1), t[j] = "a", t[j + 1] = "s" PROVE FALSE
      OBVIOUS
    <2>1. j \in E
      BY <1>1, <1>3
    <2>2. e <= j + 2 /\ j + 2 \in {q + 2 : q \in E}
      BY <1>2, <2>1
    <2> QED
      BY <1>1, <1>2, <1>3, <2>2
  <1>5. After(t)[k] = "slash" /\ After(t)[k + 1] = "block"
    <2>1. k \in 1..n /\ k + 1 \in 1..n /\ (k + 1) - 1 = k
      BY <1>1
    <2>2. After(t)[k] = Step(After(t)[k - 1], t[k]) /\ After(t)[k + 1] = Step(After(t)[k], t[k + 1])
      BY <1>1, <2>1, AfterSteps
    <2>3. After(t)[k] = "slash"
      BY <2>2 DEF Step
    <2> QED
      BY <2>2, <2>3 DEF Step
  <1> DEFINE T == {h \in Nat : k + 1 + h <= last => After(t)[k + 1 + h] = In(k + 1 + h)}
  <1>6. Nat \subseteq T
    <2>1. 0 \in T
      BY <1>1, <1>5
    <2>2. ASSUME NEW h \in Nat, h \in T PROVE h + 1 \in T
      <3> SUFFICES ASSUME k + 1 + (h + 1) <= last
                   PROVE  After(t)[k + 1 + (h + 1)] = In(k + 1 + (h + 1))
        OBVIOUS
      <3> DEFINE at == k + 1 + (h + 1)
      <3>1. at \in 1..n /\ at >= k + 2 /\ at - 1 = k + 1 + h /\ at <= last
        BY <1>1, <1>3
      <3>2. After(t)[at - 1] = In(at - 1)
        BY <1>3, <2>2, <3>1
      <3>3. After(t)[at] = Step(After(t)[at - 1], t[at])
        BY <1>1, <3>1, AfterSteps
      <3>4. (at - 1 >= k + 2 /\ t[at - 1] = "a") => t[at] # "s"
        <4>1. at - 1 >= k + 2 => at - 1 \in (k + 2)..(last - 1) /\ (at - 1) + 1 = at
          BY <1>1, <1>3, <3>1
        <4> QED
          BY <1>4, <4>1
      <3> HIDE DEF at
      <3>5. After(t)[at] = In(at)
        BY <3>1, <3>2, <3>3, <3>4 DEF Step
      <3> QED
        BY <3>5 DEF at
    <2> HIDE DEF T
    <2> QED
      BY <2>1, <2>2, SetInduction
  <1>7. ASSUME NEW j \in (k + 1)..last PROVE After(t)[j] = In(j)
    <2>1. j - (k + 1) \in Nat /\ k + 1 + (j - (k + 1)) = j
      BY <1>1, <1>3
    <2>2. j - (k + 1) \in T
      BY <1>6, <2>1
    <2> QED
      BY <1>3, <2>1, <2>2
  <1>8. ASSUME NEW j \in k..(e - 1) PROVE InComment(t, j)
    <2>1. CASE j = k
      BY <1>1, <1>5, <2>1 DEF InComment
    <2>2. CASE j = k + 1
      BY <1>5, <2>2, <1>1 DEF InComment
    <2>3. CASE j > k + 1
      <3>1. j - 1 \in (k + 1)..last
        BY <1>1, <1>3, <2>3
      <3>2. After(t)[j - 1] \in {"block", "star"}
        BY <1>7, <3>1
      <3> QED
        BY <3>2 DEF InComment
    <2> QED
      BY <1>3, <2>1, <2>2, <2>3
  <1>9. Kept(t)[e - 1] = Kept(t)[k - 1]
    <2> HIDE DEF e
    <2> QED
      BY <1>1, <1>3, <1>8, KeepsNothing
  <1>10. ASSUME e <= n PROVE After(t)[e - 1] = "code"
    <2>1. last = e - 2 /\ e - 2 \in E
      BY <1>1, <1>2, <1>3, <1>10
    <2>2. e - 2 >= k + 2 /\ t[e - 2] = "a" /\ t[e - 1] = "s" /\ e - 1 \in 1..n /\ (e - 1) - 1 = e - 2
      BY <1>1, <1>3, <2>1
    <2>3. After(t)[e - 2] = "star"
      BY <1>7, <2>1, <2>2, <1>1, <1>3
    <2>4. After(t)[e - 1] = Step(After(t)[e - 2], t[e - 1])
      BY <1>1, <2>2, AfterSteps
    <2> QED
      BY <2>2, <2>3, <2>4 DEF Step
  <1> QED
    BY <1>3, <1>9, <1>10

-----------------------------------------------------------------------------
(* The scanner and the reader side by side.                                  *)

\* The scanner stands in a string when the reader does.  Outside, the reader may
\* be behind a slash that starts no comment, or at the newline of a line comment.
Together ==
    IF inString THEN After(text)[i - 1] = "string"
    ELSE \/ After(text)[i - 1] = "code"
         \/ After(text)[i - 1] = "slash" /\ text[i] \notin {"s", "a"}
         \/ After(text)[i - 1] = "line" /\ text[i] = "n"

ScanShape ==
    /\ input \in Inputs
    /\ stage \in {"binary", "config"} => (i = 1 /\ out = <<>> /\ inString = FALSE)
    /\ stage = "strip" =>
          /\ i \in 1..(n + 1) /\ inString \in BOOLEAN
          /\ out = Kept(text)[i - 1]
          /\ i <= n => Together

\* The text is one of those the run reads.
LEMMA TextType == ASSUME input \in Inputs PROVE text \in Texts /\ n \in Nat /\ n = Len(text)
  BY InputAssumption DEF text, n, Texts

\* The report starts with the scanner at the first character.
LEMMA InitScan == DiagnosticsInit => ScanShape
  BY DEF DiagnosticsInit, ScanShape

\* A character of a string, or two when the first one is a backslash.
LEMMA StringScanned ==
    ASSUME ScanShape, stage = "strip", InsideString
    PROVE  /\ i' \in 1..(n + 1) /\ inString' \in BOOLEAN
           /\ out' = Kept(text)[i' - 1]
           /\ i' <= n => (IF inString' THEN After(text)[i' - 1] = "string" ELSE After(text)[i' - 1] = "code")
  <1> DEFINE t == text
             mode == After(t)[i - 1]
  <1>1. t \in Texts /\ n \in Nat /\ n = Len(t)
    BY TextType DEF ScanShape
  <1>2. i \in 1..n /\ inString = TRUE /\ out = Kept(t)[i - 1] /\ mode = "string"
    BY <1>1 DEF ScanShape, InsideString, Together
  <1>3. After(t)[i] = Step("string", t[i])
    BY <1>1, <1>2, AfterSteps
  <1>4. ~InComment(t, i)
    BY <1>2, <1>3 DEF InComment, Step
  <1>5. CASE Escapes(i)
    <2>1. i + 1 \in 1..n /\ t[i] = "b" /\ (i + 1) - 1 = i /\ i \in 1..(n - 1)
      BY <1>1, <1>2, <1>5 DEF Escapes
    <2>2. After(t)[i] = "escape"
      BY <1>3, <2>1 DEF Step
    <2>3. After(t)[i + 1] = "string"
      <3>1. After(t)[i + 1] = Step(After(t)[i], t[i + 1])
        BY <1>1, <2>1, AfterSteps
      <3> QED
        BY <2>2, <3>1 DEF Step
    <2>4. ~InComment(t, i + 1)
      BY <2>1, <2>2, <2>3 DEF InComment
    <2>5. i' = i + 2 /\ inString' = TRUE /\ out' = out \o SubSeq(t, i, i + 1)
      <3>1. i' = i + 2 /\ inString' = TRUE /\ out' = out \o SubSeq(t, i, i + 2 - 1)
        BY <1>2, <1>5 DEF InsideString, Keep
      <3>2. i + 2 - 1 = i + 1
        BY <1>2
      <3> QED
        BY <3>1, <3>2
    <2>6. Kept(t)[i + 1] = Kept(t)[i - 1] \o SubSeq(t, i, i + 1)
      BY <1>1, <1>4, <2>1, <2>4, KeepsTwo
    <2>7. i' - 1 = i + 1 /\ i' \in 1..(n + 1)
      BY <1>1, <2>1, <2>5
    <2> QED
      BY <1>2, <2>3, <2>5, <2>6, <2>7
  <1>6. CASE ~Escapes(i)
    <2>1. i' = i + 1 /\ inString' = (t[i] # "q") /\ out' = out \o SubSeq(t, i, i)
      BY <1>1, <1>2, <1>6 DEF InsideString, Keep
    <2>2. out' = Kept(t)[i]
      BY <1>1, <1>2, <1>4, <2>1, KeepsOne
    <2>3. i' - 1 = i /\ i' \in 1..(n + 1)
      BY <1>1, <1>2, <2>1
    <2>4. i' <= n => t[i] # "b"
      BY <1>1, <1>2, <1>6, <2>1 DEF Escapes
    <2>5. i' <= n => (IF inString' THEN After(t)[i] = "string" ELSE After(t)[i] = "code")
      BY <1>3, <2>1, <2>4 DEF Step
    <2> QED
      BY <2>1, <2>2, <2>3, <2>5
  <1> QED
    BY <1>5, <1>6

\* A character outside strings, or a whole comment.
LEMMA CodeScanned ==
    ASSUME ScanShape, stage = "strip", OutsideString
    PROVE  /\ i' \in 1..(n + 1) /\ inString' \in BOOLEAN
           /\ out' = Kept(text)[i' - 1]
           /\ i' <= n =>
                IF inString' THEN After(text)[i' - 1] = "string"
                ELSE \/ After(text)[i' - 1] = "code"
                     \/ After(text)[i' - 1] = "slash" /\ text[i'] \notin {"s", "a"}
                     \/ After(text)[i' - 1] = "line" /\ text[i'] = "n"
  <1> DEFINE t == text
             mode == After(t)[i - 1]
             comment == t[i] = "s" /\ i + 1 <= n /\ t[i + 1] \in {"s", "a"}
  <1>1. t \in Texts /\ n \in Nat /\ n = Len(t)
    BY TextType DEF ScanShape
  <1>2. /\ i \in 1..n /\ inString = FALSE /\ out = Kept(t)[i - 1]
        /\ \/ mode = "code"
           \/ mode = "slash" /\ t[i] \notin {"s", "a"}
           \/ mode = "line" /\ t[i] = "n"
    BY <1>1 DEF ScanShape, OutsideString, Together
  <1>3. CASE comment
    <2>1. i \in 1..(n - 1) /\ mode = "code"
      BY <1>1, <1>2, <1>3
    <2>2. i' = (IF t[i + 1] = "s" THEN BehindLine(i) ELSE BehindBlock(i)) /\ inString' = FALSE /\ out' = out
      BY <1>2, <1>3 DEF OutsideString
    <2>3. CASE t[i + 1] = "s"
      <3>1. i' = BehindLine(i)
        BY <2>2, <2>3
      <3>2. /\ i' \in (i + 2)..(n + 1) /\ Kept(t)[i' - 1] = Kept(t)[i - 1]
            /\ i' <= n => t[i'] = "n" /\ After(t)[i' - 1] = "line"
        BY <1>1, <1>3, <2>1, <2>3, <3>1, LineSkipped
      <3>3. i' \in 1..(n + 1) /\ inString' = FALSE
        BY <1>1, <1>2, <2>2, <3>2
      <3>4. out' = Kept(t)[i' - 1]
        BY <1>2, <2>2, <3>2
      <3> QED
        BY <3>2, <3>3, <3>4
    <2>4. CASE t[i + 1] # "s"
      <3>1. i' = BehindBlock(i) /\ t[i + 1] = "a"
        BY <1>3, <2>2, <2>4
      <3>2. /\ i' \in (i + 2)..(n + 1) /\ Kept(t)[i' - 1] = Kept(t)[i - 1]
            /\ i' <= n => After(t)[i' - 1] = "code"
        BY <1>1, <1>3, <2>1, <3>1, BlockSkipped
      <3>3. i' \in 1..(n + 1) /\ inString' = FALSE
        BY <1>1, <1>2, <2>2, <3>2
      <3>4. out' = Kept(t)[i' - 1]
        BY <1>2, <2>2, <3>2
      <3> QED
        BY <3>2, <3>3, <3>4
    <2> QED
      BY <2>3, <2>4
  <1>4. CASE ~comment
    <2>1. i' = i + 1 /\ inString' = (t[i] = "q") /\ out' = out \o SubSeq(t, i, i)
      BY <1>1, <1>2, <1>4 DEF OutsideString, Keep
    <2>2. After(t)[i] = Step(mode, t[i])
      BY <1>1, <1>2, AfterSteps
    <2>3. /\ t[i] = "q" => After(t)[i] = "string"
          /\ t[i] # "q" => After(t)[i] = "code" \/ (After(t)[i] = "slash" /\ t[i] = "s")
      BY <1>2, <2>2 DEF Step
    <2>4. ASSUME After(t)[i] = "slash", i + 1 <= n
          PROVE  t[i + 1] \notin {"s", "a"} /\ After(t)[i + 1] \notin {"line", "block"}
      <3>1. t[i] = "s" /\ t[i + 1] \notin {"s", "a"}
        BY <1>4, <2>3, <2>4
      <3>2. After(t)[i + 1] = Step(After(t)[i], t[i + 1])
        <4>1. i + 1 \in 1..n /\ (i + 1) - 1 = i
          BY <1>1, <1>2, <2>4
        <4> QED
          BY <1>1, <4>1, AfterSteps
      <3> QED
        BY <2>4, <3>1, <3>2 DEF Step
    <2>5. ~InComment(t, i)
      <3>1. After(t)[i] \notin {"line", "block"}
        BY <2>3
      <3>2. i < Len(t) => i + 1 <= n
        BY <1>1, <1>2
      <3> QED
        BY <1>2, <2>4, <3>1, <3>2 DEF InComment
    <2>6. out' = Kept(t)[i]
      BY <1>1, <1>2, <2>1, <2>5, KeepsOne
    <2>7. i' - 1 = i /\ i' \in 1..(n + 1)
      BY <1>1, <1>2, <2>1
    <2> QED
      BY <2>1, <2>3, <2>4, <2>6, <2>7
  <1> QED
    BY <1>3, <1>4

\* Every step keeps the scanner and the reader together.
LEMMA NextScan == ScanShape /\ [DiagnosticsNext]_reportVars => ScanShape'
  <1> SUFFICES ASSUME ScanShape, [DiagnosticsNext]_reportVars PROVE ScanShape'
    OBVIOUS
  <1>1. ASSUME input' = input PROVE text' = text /\ n' = n
    BY <1>1 DEF text, n
  <1>2. CASE UNCHANGED reportVars
    BY <1>1, <1>2 DEF reportVars, ScanShape, Together
  <1>3. CASE InspectBinary
    BY <1>3 DEF InspectBinary, ScanShape
  <1>4. CASE InspectConfig
    <2>1. CASE stage' = "models"
      BY <1>4, <2>1 DEF InspectConfig, ScanShape
    <2>2. CASE stage' = "strip"
      <3>1. text \in Texts /\ n \in Nat /\ n = Len(text) /\ text' = text /\ n' = n
        BY <1>1, <1>4, TextType DEF InspectConfig, ScanShape
      <3>2. /\ input' \in Inputs /\ i' = 1 /\ out' = <<>> /\ inString' = FALSE
            /\ stage' = "strip"
        BY <1>4, <2>2 DEF InspectConfig, ScanShape
      <3>3. Kept(text)[0] = <<>> /\ After(text)[0] = "code"
        BY <3>1, AfterSteps, KeptSteps
      <3>4. Together'
        BY <3>1, <3>2, <3>3 DEF Together
      <3>5. i' - 1 = 0 /\ i' \in 1..(n' + 1)
        <4>1. 1 \in 1..(n + 1) /\ n' = n
          BY <3>1
        <4>2. i' = 1
          BY <3>2
        <4>3. i' - 1 = 0
          BY <4>2
        <4>4. 1 \in 1..(n' + 1)
          BY <4>1
        <4> QED
          BY <4>2, <4>3, <4>4
      <3>6. out' = Kept(text')[i' - 1]
        BY <3>1, <3>2, <3>3, <3>5
      <3> QED
        BY <3>2, <3>4, <3>5, <3>6 DEF ScanShape
    <2> QED
      BY <1>4, <2>1, <2>2 DEF InspectConfig
  <1>5. CASE StripComments
    <2>1. text' = text /\ n' = n /\ input' = input /\ stage = "strip" /\ stage' = "strip"
      BY <1>1, <1>5 DEF StripComments
    <2>2. /\ i' \in 1..(n + 1) /\ inString' \in BOOLEAN
          /\ out' = Kept(text)[i' - 1]
          /\ i' <= n =>
                IF inString' THEN After(text)[i' - 1] = "string"
                ELSE \/ After(text)[i' - 1] = "code"
                     \/ After(text)[i' - 1] = "slash" /\ text[i'] \notin {"s", "a"}
                     \/ After(text)[i' - 1] = "line" /\ text[i'] = "n"
      BY <1>5, <2>1, StringScanned, CodeScanned DEF StripComments
    <2> QED
      BY <2>1, <2>2 DEF ScanShape, Together
  <1>6. CASE ParseConfig \/ InspectModels \/ ListModel \/ EndListing \/ FunctionalTest
    BY <1>6 DEF ParseConfig, InspectModels, ListModel, EndListing, FunctionalTest, ScanShape
  <1> QED
    BY <1>2, <1>3, <1>4, <1>5, <1>6 DEF DiagnosticsNext

\* For texts of any length, the scanner removes exactly the comments.
THEOREM CommentsStrippedHolds == DiagnosticsSpec => []CommentsStripped
  <1>1. ScanShape => CommentsStripped
    <2> SUFFICES ASSUME ScanShape, stage = "strip", i > n PROVE out = Kept(text)[n]
      BY DEF CommentsStripped
    <2>1. n \in Nat /\ i = n + 1
      BY TextType DEF ScanShape
    <2> QED
      BY <2>1 DEF ScanShape
  <1> QED
    BY <1>1, InitScan, NextScan, PTL DEF DiagnosticsSpec

-----------------------------------------------------------------------------
(* The lines of a listing.                                                   *)

Listings == Seq(Blocks)
Objects == {"model", "nested", "brace"}
Kinds == {"header", "noise", "blank", "open", "field", "close"}
LineSet == [block : Nat, kind : Kinds, braces : Int]

\* The last line of the first b blocks.
End(l, b) == Len(LinesTo(l)[b])

\* The lines of an object, one by one.
LEMMA BodyShape ==
    ASSUME NEW b \in Nat, NEW kind \in Objects
    PROVE  /\ Body(b, kind) \in Seq(LineSet)
           /\ Len(Body(b, kind)) = IF kind = "nested" THEN 4 ELSE 3
           /\ Body(b, kind)[1] = Line(b, "open", 1)
           /\ Body(b, kind)[2] = Line(b, "field", IF kind = "model" THEN 0 ELSE 1)
           /\ Body(b, kind)[3] = Line(b, "close", -1)
           /\ kind = "nested" => Body(b, kind)[4] = Line(b, "close", -1)
  <1>1. /\ Line(b, "open", 1) \in LineSet /\ Line(b, "field", 0) \in LineSet
        /\ Line(b, "field", 1) \in LineSet /\ Line(b, "close", -1) \in LineSet
    BY DEF Line, LineSet, Kinds
  <1>2. CASE kind = "model"
    BY <1>1, <1>2 DEF Body
  <1>3. CASE kind = "nested"
    BY <1>1, <1>3 DEF Body
  <1>4. CASE kind = "brace"
    BY <1>1, <1>4 DEF Body
  <1> QED
    BY <1>2, <1>3, <1>4 DEF Objects

\* A block is printed as one line, or as a header with an object.
LEMMA PrintedShape ==
    ASSUME NEW l \in Listings, NEW b \in 1..Len(l)
    PROVE  /\ Printed(l, b) \in Seq(LineSet) /\ Len(Printed(l, b)) >= 1
           /\ l[b] \in {"noise", "blank"} => Printed(l, b) = <<Line(b, l[b], 0)>>
           /\ l[b] \in Objects =>
                /\ Len(Printed(l, b)) = Len(Body(b, l[b])) + 1
                /\ Printed(l, b)[1] = Line(b, "header", 0)
                /\ \A j \in 1..Len(Body(b, l[b])) : Printed(l, b)[j + 1] = Body(b, l[b])[j]
  <1>1. b \in Nat /\ l[b] \in Blocks
    BY DEF Listings
  <1>2. CASE l[b] \in {"noise", "blank"}
    <2>1. Line(b, l[b], 0) \in LineSet
      BY <1>1, <1>2 DEF Line, LineSet, Kinds
    <2> QED
      BY <1>2, <2>1 DEF Printed, Objects
  <1>3. CASE l[b] \in Objects
    <2> DEFINE head == <<Line(b, "header", 0)>>
               body == Body(b, l[b])
    <2>1. head \in Seq(LineSet) /\ Len(head) = 1 /\ head[1] = Line(b, "header", 0)
      BY <1>1 DEF Line, LineSet, Kinds
    <2>2. body \in Seq(LineSet) /\ Len(body) \in Nat
      BY <1>1, <1>3, BodyShape
    <2>3. Printed(l, b) = head \o body
      BY <1>3 DEF Printed, Objects
    <2> HIDE DEF head, body
    <2>4. /\ head \o body \in Seq(LineSet) /\ Len(head \o body) = Len(head) + Len(body)
          /\ \A j \in 1..(Len(head) + Len(body)) :
                (head \o body)[j] = IF j <= Len(head) THEN head[j] ELSE body[j - Len(head)]
      BY <2>1, <2>2, ConcatProperties
    <2>5. (head \o body)[1] = head[1] /\ \A j \in 1..Len(body) : (head \o body)[j + 1] = body[j]
      <3>1. (head \o body)[1] = head[1]
        BY <2>1, <2>2, <2>4
      <3>2. ASSUME NEW j \in 1..Len(body) PROVE (head \o body)[j + 1] = body[j]
        <4>1. j + 1 \in 1..(Len(head) + Len(body)) /\ ~(j + 1 <= Len(head)) /\ (j + 1) - Len(head) = j
          BY <2>1, <2>2
        <4> QED
          BY <2>4, <4>1
      <3> QED
        BY <3>1, <3>2
    <2> QED
      BY <1>3, <2>1, <2>2, <2>3, <2>4, <2>5 DEF body, Objects
  <1> QED
    BY <1>1, <1>2, <1>3 DEF Blocks, Objects

\* The recursion of LinesTo has a solution: each block adds its lines.
LEMMA LinesSteps ==
    ASSUME NEW l \in Listings
    PROVE  /\ LinesTo(l)[0] = <<>>
           /\ \A b \in 1..Len(l) : LinesTo(l)[b] = LinesTo(l)[b - 1] \o Printed(l, b)
           /\ \A b \in 0..Len(l) : LinesTo(l)[b] \in Seq(LineSet)
  <1> DEFINE d == [p \in Seq(LineSet) \X (1..Len(l)) |-> p[1] \o Printed(l, p[2])]
             Solves(f) == f = [b \in 0..Len(l) |-> IF b = 0 THEN <<>> ELSE f[b - 1] \o Printed(l, b)]
  <1>1. Len(l) \in Nat
    BY DEF Listings
  <1>2. d \in [Seq(LineSet) \X (1..Len(l)) -> Seq(LineSet)] /\ <<>> \in Seq(LineSet)
    <2>1. \A s \in Seq(LineSet), b \in 1..Len(l) : s \o Printed(l, b) \in Seq(LineSet)
      BY PrintedShape
    <2> QED
      BY <2>1
  <1>3. PICK f \in [0..Len(l) -> Seq(LineSet)] :
               f[0] = <<>> /\ \A b \in 1..Len(l) : f[b] = d[<<f[b - 1], b>>]
    <2> HIDE DEF d
    <2>1. Solvable(Seq(LineSet), <<>>, Len(l), d)
      BY <1>1, <1>2, Recursion
    <2> QED
      BY <2>1 DEF Solvable
  <1>4. \A b \in 1..Len(l) : f[b] = f[b - 1] \o Printed(l, b)
    <2> SUFFICES ASSUME NEW b \in 1..Len(l) PROVE f[b] = f[b - 1] \o Printed(l, b)
      OBVIOUS
    <2>1. b - 1 \in 0..Len(l)
      BY <1>1
    <2>2. <<f[b - 1], b>> \in Seq(LineSet) \X (1..Len(l))
      BY <2>1
    <2> QED
      BY <1>3, <2>2
  <1>5. Solves(f)
    BY <1>1, <1>3, <1>4
  <1>6. Solves(LinesTo(l))
    <2>1. LinesTo(l) = CHOOSE g : Solves(g)
      BY DEF LinesTo
    <2> HIDE DEF Solves
    <2> QED
      BY <1>5, <2>1
  <1>7. /\ LinesTo(l)[0] = <<>>
        /\ \A b \in 1..Len(l) : LinesTo(l)[b] = LinesTo(l)[b - 1] \o Printed(l, b)
    <2>1. ASSUME NEW g, Solves(g), NEW b \in 0..Len(l)
          PROVE  g[b] = IF b = 0 THEN <<>> ELSE g[b - 1] \o Printed(l, b)
      BY <2>1, Zenon
    <2> HIDE DEF Solves
    <2>2. \A b \in 0..Len(l) :
             LinesTo(l)[b] = IF b = 0 THEN <<>> ELSE LinesTo(l)[b - 1] \o Printed(l, b)
      BY <1>6, <2>1
    <2>3. 0 \in 0..Len(l) /\ \A b \in 1..Len(l) : b \in 0..Len(l) /\ b # 0
      BY <1>1
    <2> QED
      BY <2>2, <2>3
  <1>8. \A b \in 0..Len(l) : LinesTo(l)[b] \in Seq(LineSet)
    <2> DEFINE T == {h \in Nat : h <= Len(l) => LinesTo(l)[h] \in Seq(LineSet)}
    <2>1. 0 \in T
      BY <1>2, <1>7
    <2>2. ASSUME NEW h \in Nat, h \in T PROVE h + 1 \in T
      <3> SUFFICES ASSUME h + 1 <= Len(l) PROVE LinesTo(l)[h + 1] \in Seq(LineSet)
        OBVIOUS
      <3>1. h + 1 \in 1..Len(l) /\ (h + 1) - 1 = h /\ h <= Len(l)
        BY <1>1
      <3>2. LinesTo(l)[h + 1] = LinesTo(l)[h] \o Printed(l, h + 1)
        BY <1>7, <3>1
      <3>3. LinesTo(l)[h] \in Seq(LineSet) /\ Printed(l, h + 1) \in Seq(LineSet)
        BY <2>2, <3>1, PrintedShape
      <3> QED
        BY <3>2, <3>3
    <2> HIDE DEF T
    <2>3. Nat \subseteq T
      BY <2>1, <2>2, SetInduction
    <2> QED
      BY <1>1, <2>3 DEF T
  <1> QED
    BY <1>7, <1>8

\* So has the recursion of BraceCount.
LEMMA CountSteps ==
    ASSUME NEW lines \in Seq(LineSet)
    PROVE  /\ BraceCount(lines)[0] = 0
           /\ \A k \in 1..Len(lines) : BraceCount(lines)[k] = BraceCount(lines)[k - 1] + lines[k].braces
           /\ \A k \in 0..Len(lines) : BraceCount(lines)[k] \in Int
  <1> DEFINE d == [p \in Int \X (1..Len(lines)) |-> p[1] + lines[p[2]].braces]
             Solves(f) == f = [k \in 0..Len(lines) |-> IF k = 0 THEN 0 ELSE f[k - 1] + lines[k].braces]
  <1>1. Len(lines) \in Nat /\ \A k \in 1..Len(lines) : lines[k].braces \in Int
    <2>1. \A k \in 1..Len(lines) : lines[k] \in LineSet
      OBVIOUS
    <2> QED
      BY <2>1 DEF LineSet
  <1>2. d \in [Int \X (1..Len(lines)) -> Int]
    BY <1>1
  <1>3. PICK f \in [0..Len(lines) -> Int] :
               f[0] = 0 /\ \A k \in 1..Len(lines) : f[k] = d[<<f[k - 1], k>>]
    <2> HIDE DEF d
    <2>1. Solvable(Int, 0, Len(lines), d)
      <3>1. 0 \in Int
        OBVIOUS
      <3> QED
        BY <1>1, <1>2, <3>1, Recursion
    <2> QED
      BY <2>1 DEF Solvable
  <1>4. \A k \in 1..Len(lines) : f[k] = f[k - 1] + lines[k].braces
    <2> SUFFICES ASSUME NEW k \in 1..Len(lines) PROVE f[k] = f[k - 1] + lines[k].braces
      OBVIOUS
    <2>1. k - 1 \in 0..Len(lines)
      BY <1>1
    <2>2. <<f[k - 1], k>> \in Int \X (1..Len(lines))
      BY <2>1
    <2> QED
      BY <1>3, <2>2
  <1>5. Solves(f)
    BY <1>1, <1>3, <1>4
  <1>6. Solves(BraceCount(lines))
    <2>1. BraceCount(lines) = CHOOSE g : Solves(g)
      BY DEF BraceCount
    <2> HIDE DEF Solves
    <2> QED
      BY <1>5, <2>1
  <1> DEFINE C == BraceCount(lines)
  <1>7. C[0] = 0 /\ \A k \in 1..Len(lines) : C[k] = C[k - 1] + lines[k].braces
    BY <1>1, <1>6
  <1>8. \A k \in 0..Len(lines) : C[k] \in Int
    <2> DEFINE T == {h \in Nat : h <= Len(lines) => C[h] \in Int}
    <2> HIDE DEF C
    <2>1. 0 \in T
      BY <1>7
    <2>2. ASSUME NEW h \in Nat, h \in T PROVE h + 1 \in T
      <3> SUFFICES ASSUME h + 1 <= Len(lines) PROVE C[h + 1] \in Int
        OBVIOUS
      <3>1. C[h + 1] = C[h] + lines[h + 1].braces /\ lines[h + 1].braces \in Int
        BY <1>1, <1>7
      <3> QED
        BY <2>2, <3>1
    <2> HIDE DEF T
    <2>3. Nat \subseteq T
      BY <2>1, <2>2, SetInduction
    <2> QED
      BY <1>1, <2>3 DEF T
  <1> QED
    BY <1>7, <1>8

All(l) == LinesTo(l)[Len(l)]

\* Each block ends its number of lines behind the one before.
LEMMA EndSteps ==
    ASSUME NEW l \in Listings
    PROVE  /\ End(l, 0) = 0
           /\ \A b \in 0..Len(l) : End(l, b) \in Nat
           /\ \A b \in 1..Len(l) : /\ End(l, b) = End(l, b - 1) + Len(Printed(l, b))
                                   /\ End(l, b - 1) < End(l, b)
  <1>1. Len(l) \in Nat
    BY DEF Listings
  <1>2. End(l, 0) = 0
    BY LinesSteps DEF End
  <1>3. \A b \in 0..Len(l) : End(l, b) \in Nat
    BY LinesSteps, LenProperties DEF End
  <1>4. ASSUME NEW b \in 1..Len(l)
        PROVE  End(l, b) = End(l, b - 1) + Len(Printed(l, b)) /\ End(l, b - 1) < End(l, b)
    <2>1. b - 1 \in 0..Len(l) /\ b \in 0..Len(l)
      BY <1>1
    <2>2. /\ LinesTo(l)[b] = LinesTo(l)[b - 1] \o Printed(l, b)
          /\ LinesTo(l)[b - 1] \in Seq(LineSet)
      BY <2>1, LinesSteps
    <2>3. Printed(l, b) \in Seq(LineSet) /\ Len(Printed(l, b)) >= 1 /\ Len(Printed(l, b)) \in Nat
      BY PrintedShape, LenProperties
    <2>4. End(l, b) = End(l, b - 1) + Len(Printed(l, b))
      BY <2>2, <2>3, ConcatProperties DEF End
    <2> QED
      BY <1>3, <2>1, <2>3, <2>4
  <1> QED
    BY <1>2, <1>3, <1>4

\* The lines of the first blocks come first.
LEMMA LinesPrefix ==
    ASSUME NEW l \in Listings, NEW b \in 0..Len(l), NEW c \in b..Len(l)
    PROVE  /\ End(l, b) <= End(l, c)
           /\ \A k \in 1..End(l, b) : LinesTo(l)[c][k] = LinesTo(l)[b][k]
  <1> DEFINE Fits(h) == /\ End(l, b) <= End(l, b + h)
                        /\ \A k \in 1..End(l, b) : LinesTo(l)[b + h][k] = LinesTo(l)[b][k]
             T == {h \in Nat : b + h <= Len(l) => Fits(h)}
  <1>1. Len(l) \in Nat
    BY DEF Listings
  <1>2. 0 \in T
    <2>1. b + 0 = b /\ End(l, b) \in Nat
      BY EndSteps
    <2> QED
      BY <2>1
  <1>3. ASSUME NEW h \in Nat, h \in T PROVE h + 1 \in T
    <2> SUFFICES ASSUME b + (h + 1) <= Len(l) PROVE Fits(h + 1)
      OBVIOUS
    <2> DEFINE x == b + h
    <2>1. x \in 0..Len(l) /\ x + 1 \in 1..Len(l) /\ (x + 1) - 1 = x /\ b + (h + 1) = x + 1
      BY <1>1
    <2>2. Fits(h)
      BY <1>1, <1>3, <2>1
    <2>3. End(l, x) \in Nat /\ End(l, b) \in Nat /\ End(l, x + 1) \in Nat /\ End(l, x) < End(l, x + 1)
      BY <2>1, EndSteps
    <2>4. /\ LinesTo(l)[x + 1] = LinesTo(l)[x] \o Printed(l, x + 1)
          /\ LinesTo(l)[x] \in Seq(LineSet)
      BY <2>1, LinesSteps
    <2>5. Printed(l, x + 1) \in Seq(LineSet)
      BY <2>1, PrintedShape
    <2> HIDE DEF x
    <2>6. \A k \in 1..End(l, x) : LinesTo(l)[x + 1][k] = LinesTo(l)[x][k]
      <3> SUFFICES ASSUME NEW k \in 1..End(l, x) PROVE LinesTo(l)[x + 1][k] = LinesTo(l)[x][k]
        OBVIOUS
      <3>1. Len(Printed(l, x + 1)) \in Nat
        BY <2>5, LenProperties
      <3>2. k \in 1..(Len(LinesTo(l)[x]) + Len(Printed(l, x + 1))) /\ k <= Len(LinesTo(l)[x])
        <4>1. k \in 1..(End(l, x) + Len(Printed(l, x + 1))) /\ k <= End(l, x)
          BY <2>3, <3>1
        <4> QED
          BY <4>1 DEF End
      <3> QED
        BY <2>4, <2>5, <3>2, ConcatProperties
    <2>7. End(l, b) <= End(l, x + 1)
      BY <2>2, <2>3 DEF x
    <2>8. \A k \in 1..End(l, b) : LinesTo(l)[x + 1][k] = LinesTo(l)[b][k]
      BY <2>2, <2>3, <2>6 DEF x
    <2> QED
      BY <2>1, <2>7, <2>8
  <1> HIDE DEF T
  <1>4. c - b \in T
    BY <1>1, <1>2, <1>3, SetInduction
  <1>5. Fits(c - b) /\ b + (c - b) = c
    BY <1>1, <1>4 DEF T
  <1> QED
    BY <1>5

\* The lines of a block, where they are in the listing.
LEMMA LineAt ==
    ASSUME NEW l \in Listings, NEW b \in 1..Len(l), NEW j \in 1..Len(Printed(l, b))
    PROVE  /\ End(l, b - 1) + j \in 1..End(l, b) /\ End(l, b) <= Len(All(l))
           /\ All(l)[End(l, b - 1) + j] = Printed(l, b)[j]
  <1>1. Len(l) \in Nat /\ b - 1 \in 0..Len(l) /\ b \in 0..Len(l) /\ Len(l) \in b..Len(l)
    BY DEF Listings
  <1>2. /\ LinesTo(l)[b] = LinesTo(l)[b - 1] \o Printed(l, b)
        /\ LinesTo(l)[b - 1] \in Seq(LineSet)
    BY <1>1, LinesSteps
  <1>3. Printed(l, b) \in Seq(LineSet) /\ Len(Printed(l, b)) \in Nat
    BY PrintedShape, LenProperties
  <1>4. End(l, b - 1) \in Nat /\ End(l, b) = End(l, b - 1) + Len(Printed(l, b))
    BY <1>1, EndSteps
  <1> DEFINE k == End(l, b - 1) + j
  <1>5. k \in 1..End(l, b) /\ ~(k <= End(l, b - 1)) /\ k - End(l, b - 1) = j
    BY <1>3, <1>4
  <1>6. LinesTo(l)[b][k] = Printed(l, b)[j]
    <2> HIDE DEF k
    <2>1. k \in 1..(Len(LinesTo(l)[b - 1]) + Len(Printed(l, b)))
      BY <1>4, <1>5 DEF End
    <2>2. (LinesTo(l)[b - 1] \o Printed(l, b))[k] = Printed(l, b)[k - Len(LinesTo(l)[b - 1])]
      BY <1>2, <1>3, <1>5, <2>1, ConcatProperties DEF End
    <2> QED
      BY <1>2, <1>5, <2>2 DEF End
  <1>7. End(l, b) <= End(l, Len(l)) /\ LinesTo(l)[Len(l)][k] = LinesTo(l)[b][k]
    BY <1>1, <1>5, LinesPrefix
  <1> QED
    BY <1>5, <1>6, <1>7 DEF All, End

\* The lines of an object, one by one, with their places in the listing.
LEMMA ObjectAt ==
    ASSUME NEW l \in Listings, NEW b \in 1..Len(l), l[b] \in Objects
    PROVE  /\ All(l)[End(l, b - 1) + 1] = Line(b, "header", 0)
           /\ All(l)[End(l, b - 1) + 2] = Line(b, "open", 1)
           /\ All(l)[End(l, b - 1) + 3] = Line(b, "field", IF l[b] = "model" THEN 0 ELSE 1)
           /\ All(l)[End(l, b - 1) + 4] = Line(b, "close", -1)
           /\ l[b] = "nested" => All(l)[End(l, b - 1) + 5] = Line(b, "close", -1)
           /\ End(l, b) = End(l, b - 1) + (IF l[b] = "nested" THEN 5 ELSE 4)
           /\ End(l, b) <= Len(All(l))
  <1> DEFINE P == Printed(l, b)
             m == IF l[b] = "nested" THEN 4 ELSE 3
  <1>1. b \in Nat /\ Len(Body(b, l[b])) = m
    <2>1. b \in Nat
      OBVIOUS
    <2> QED
      BY <2>1, BodyShape
  <1>2. /\ Len(P) = m + 1 /\ P[1] = Line(b, "header", 0)
        /\ \A j \in 1..m : P[j + 1] = Body(b, l[b])[j]
    BY <1>1, PrintedShape
  <1>3. /\ P[2] = Line(b, "open", 1) /\ P[3] = Line(b, "field", IF l[b] = "model" THEN 0 ELSE 1)
        /\ P[4] = Line(b, "close", -1) /\ (l[b] = "nested" => P[5] = Line(b, "close", -1))
    <2>1. 1 \in 1..m /\ 2 \in 1..m /\ 3 \in 1..m /\ (l[b] = "nested" => 4 \in 1..m)
      OBVIOUS
    <2>2. P[1 + 1] = Body(b, l[b])[1] /\ P[2 + 1] = Body(b, l[b])[2] /\ P[3 + 1] = Body(b, l[b])[3]
          /\ (l[b] = "nested" => P[4 + 1] = Body(b, l[b])[4])
      BY <1>2, <2>1
    <2>3. /\ Body(b, l[b])[1] = Line(b, "open", 1)
          /\ Body(b, l[b])[2] = Line(b, "field", IF l[b] = "model" THEN 0 ELSE 1)
          /\ Body(b, l[b])[3] = Line(b, "close", -1)
          /\ l[b] = "nested" => Body(b, l[b])[4] = Line(b, "close", -1)
      BY <1>1, BodyShape
    <2> HIDE DEF P
    <2> QED
      BY <2>2, <2>3
  <1>4. \A j \in 1..Len(P) : All(l)[End(l, b - 1) + j] = P[j]
    BY LineAt
  <1>5. 1 \in 1..Len(P) /\ 2 \in 1..Len(P) /\ 3 \in 1..Len(P) /\ 4 \in 1..Len(P)
        /\ (l[b] = "nested" => 5 \in 1..Len(P))
    BY <1>2
  <1>6. End(l, b) = End(l, b - 1) + Len(P) /\ End(l, b) <= Len(All(l))
    BY <1>5, EndSteps, LineAt
  <1> HIDE DEF P
  <1>7. /\ All(l)[End(l, b - 1) + 1] = P[1] /\ All(l)[End(l, b - 1) + 2] = P[2]
        /\ All(l)[End(l, b - 1) + 3] = P[3] /\ All(l)[End(l, b - 1) + 4] = P[4]
        /\ l[b] = "nested" => All(l)[End(l, b - 1) + 5] = P[5]
    BY <1>4, <1>5
  <1>8. Len(P) = IF l[b] = "nested" THEN 5 ELSE 4
    BY <1>2
  <1> HIDE DEF m
  <1> QED
    BY <1>2, <1>3, <1>6, <1>7, <1>8

\* brace_count over the first k lines of a listing.
Count(l) == BraceCount(All(l))

\* The types of what the brace count is taken of.
LEMMA CountType ==
    ASSUME NEW l \in Listings
    PROVE  /\ Len(l) \in Nat
           /\ All(l) \in Seq(LineSet) /\ Len(All(l)) \in Nat /\ Len(All(l)) = End(l, Len(l))
           /\ \A b \in 0..Len(l) : End(l, b) \in 0..Len(All(l))
           /\ \A k \in 0..Len(All(l)) : Count(l)[k] \in Int
           /\ \A k \in 1..Len(All(l)) : Count(l)[k] = Count(l)[k - 1] + All(l)[k].braces
  <1>1. Len(l) \in Nat
    BY DEF Listings
  <1>2. All(l) \in Seq(LineSet) /\ Len(All(l)) = End(l, Len(l))
    BY <1>1, LinesSteps DEF All, End
  <1>3. \A b \in 0..Len(l) : End(l, b) \in 0..Len(All(l))
    <2> SUFFICES ASSUME NEW b \in 0..Len(l) PROVE End(l, b) \in 0..Len(All(l))
      OBVIOUS
    <2>1. Len(l) \in b..Len(l) /\ Len(l) \in 0..Len(l)
      BY <1>1
    <2>2. End(l, b) <= End(l, Len(l)) /\ End(l, b) \in Nat /\ End(l, Len(l)) \in Nat
      BY <2>1, LinesPrefix, EndSteps
    <2> QED
      BY <1>2, <2>2
  <1> QED
    BY <1>1, <1>2, <1>3, CountSteps, LenProperties DEF Count

\* What a block does to the brace count: only the last line of an object that is
\* balanced closes at the count the block started with.
LEMMA BlockCounts ==
    ASSUME NEW l \in Listings, NEW b \in 1..Len(l)
    PROVE  /\ Count(l)[End(l, b)] = Count(l)[End(l, b - 1)] + (IF l[b] = "brace" THEN 1 ELSE 0)
           /\ Count(l)[End(l, b - 1) + 1] = Count(l)[End(l, b - 1)]
           /\ \A k \in (End(l, b - 1) + 1)..End(l, b) : All(l)[k].kind = "close" =>
                 \/ Count(l)[k] > Count(l)[End(l, b - 1)]
                 \/ k = End(l, b) /\ l[b] \in {"model", "nested"}
           /\ l[b] \in {"model", "nested"} => All(l)[End(l, b)].kind = "close"
  <1> DEFINE C == Count(l)
             s == End(l, b - 1)
             e == End(l, b)
  <1>1. s \in Nat /\ e \in Nat /\ s < e /\ e <= Len(All(l)) /\ Len(All(l)) \in Nat
    <2>1. b - 1 \in 0..Len(l) /\ b \in 0..Len(l)
      BY CountType
    <2> QED
      BY <2>1, CountType, EndSteps
  <1>2. \A k \in (s + 1)..e : C[k] = C[k - 1] + All(l)[k].braces /\ C[k] \in Int
    BY <1>1, CountType
  <1>3. C[s] \in Int
    BY <1>1, CountType
  <1>4. CASE l[b] \in {"noise", "blank"}
    <2>1. Printed(l, b) = <<Line(b, l[b], 0)>>
      BY <1>4, PrintedShape
    <2>2. Len(Printed(l, b)) = 1 /\ Printed(l, b)[1] = Line(b, l[b], 0)
      BY <2>1
    <2>3. 1 \in 1..Len(Printed(l, b))
      BY <2>2
    <2>4. e = s + 1 /\ All(l)[s + 1] = Line(b, l[b], 0)
      BY <2>2, <2>3, EndSteps, LineAt
    <2>5. All(l)[s + 1].kind # "close" /\ All(l)[s + 1].braces = 0
      BY <1>4, <2>4 DEF Line
    <2>6. C[s + 1] = C[s]
      BY <1>1, <1>2, <1>3, <2>4, <2>5
    <2> HIDE DEF C, s, e
    <2>7. \A k \in (s + 1)..e : k = s + 1
      BY <1>1, <2>4
    <2> QED
      BY <1>3, <1>4, <2>4, <2>5, <2>6, <2>7 DEF C, s, e
  <1>5. CASE l[b] \in Objects
    <2> DEFINE add == IF l[b] = "model" THEN 0 ELSE 1
    <2>1. /\ All(l)[s + 1] = Line(b, "header", 0) /\ All(l)[s + 2] = Line(b, "open", 1)
          /\ All(l)[s + 3] = Line(b, "field", add) /\ All(l)[s + 4] = Line(b, "close", -1)
          /\ l[b] = "nested" => All(l)[s + 5] = Line(b, "close", -1)
          /\ e = s + (IF l[b] = "nested" THEN 5 ELSE 4)
      BY <1>5, ObjectAt
    <2> HIDE DEF C, s, e
    <2>2. /\ s + 1 \in (s + 1)..e /\ s + 2 \in (s + 1)..e /\ s + 3 \in (s + 1)..e
          /\ s + 4 \in (s + 1)..e /\ (l[b] = "nested" => s + 5 \in (s + 1)..e)
          /\ (s + 1) - 1 = s /\ (s + 2) - 1 = s + 1 /\ (s + 3) - 1 = s + 2 /\ (s + 4) - 1 = s + 3
          /\ (s + 5) - 1 = s + 4
      BY <1>1, <2>1
    <2>3. /\ All(l)[s + 1].braces = 0 /\ All(l)[s + 2].braces = 1 /\ All(l)[s + 3].braces = add
          /\ All(l)[s + 4].braces = -1 /\ (l[b] = "nested" => All(l)[s + 5].braces = -1)
      BY <2>1 DEF Line
    <2>4. /\ C[s + 1] = C[(s + 1) - 1] + All(l)[s + 1].braces
          /\ C[s + 2] = C[(s + 2) - 1] + All(l)[s + 2].braces
          /\ C[s + 3] = C[(s + 3) - 1] + All(l)[s + 3].braces
          /\ C[s + 4] = C[(s + 4) - 1] + All(l)[s + 4].braces
          /\ l[b] = "nested" => C[s + 5] = C[(s + 5) - 1] + All(l)[s + 5].braces
      BY <1>2, <2>2
    <2>5. C[s + 1] = C[s] + 0 /\ C[s + 2] = C[s + 1] + 1 /\ C[s + 3] = C[s + 2] + add
      BY <2>2, <2>3, <2>4
    <2>6. C[s + 4] = C[s + 3] - 1
      BY <1>2, <2>2, <2>3, <2>4
    <2>7. l[b] = "nested" => C[s + 5] = C[s + 4] - 1
      BY <1>2, <2>2, <2>3, <2>4
    <2>8. C[s + 1] = C[s] /\ C[s + 4] = C[s] + add
      BY <1>3, <2>5, <2>6
    <2>9. C[e] = C[s] + (IF l[b] = "brace" THEN 1 ELSE 0)
      <3>1. CASE l[b] = "nested"
        BY <1>3, <2>1, <2>7, <2>8, <3>1
      <3>2. CASE l[b] \in {"model", "brace"}
        BY <1>3, <2>1, <2>8, <3>2
      <3> QED
        BY <1>5, <3>1, <3>2 DEF Objects
    <2>10. l[b] \in {"model", "nested"} => All(l)[e].kind = "close"
      BY <2>1 DEF Line
    <2>11. ASSUME NEW k \in (s + 1)..e, All(l)[k].kind = "close"
           PROVE  C[k] > C[s] \/ (k = e /\ l[b] \in {"model", "nested"})
      <3>1. k \in {s + 1, s + 2, s + 3, s + 4} \/ (l[b] = "nested" /\ k = s + 5)
        BY <1>1, <2>1
      <3>2. k \notin {s + 1, s + 2, s + 3}
        BY <2>1, <2>11 DEF Line
      <3>3. CASE k = s + 4
        BY <1>3, <1>5, <2>1, <2>8, <3>3 DEF Objects
      <3>4. CASE l[b] = "nested" /\ k = s + 5
        BY <2>1, <3>4
      <3> QED
        BY <3>1, <3>2, <3>3, <3>4
    <2> QED
      BY <2>8, <2>9, <2>10, <2>11 DEF C, s, e
  <1>6. l[b] \in {"noise", "blank"} \/ l[b] \in Objects
    BY DEF Listings, Blocks, Objects
  <1> QED
    BY <1>4, <1>5, <1>6

\* The brace count never falls from block to block, and rises only by a brace in a string.
LEMMA CountGrows ==
    ASSUME NEW l \in Listings, NEW b \in 0..Len(l), NEW c \in b..Len(l)
    PROVE  /\ Count(l)[End(l, b)] <= Count(l)[End(l, c)]
           /\ (\A a \in (b + 1)..c : l[a] # "brace") => Count(l)[End(l, b)] = Count(l)[End(l, c)]
  <1> DEFINE at(x) == Count(l)[End(l, x)]
             Grows(x) == /\ at(b) <= at(x)
                         /\ (\A a \in (b + 1)..x : l[a] # "brace") => at(b) = at(x)
             T == {h \in Nat : b + h <= Len(l) => Grows(b + h)}
  <1>1. Len(l) \in Nat /\ \A x \in 0..Len(l) : at(x) \in Int
    BY CountType
  <1>2. \A x \in 1..Len(l) : at(x) = at(x - 1) + (IF l[x] = "brace" THEN 1 ELSE 0)
    BY BlockCounts
  <1> HIDE DEF at
  <1>3. 0 \in T
    BY <1>1
  <1>4. ASSUME NEW h \in Nat, h \in T PROVE h + 1 \in T
    <2> SUFFICES ASSUME b + (h + 1) <= Len(l) PROVE Grows(b + (h + 1))
      OBVIOUS
    <2> DEFINE x == b + (h + 1)
    <2>1. x \in 1..Len(l) /\ x - 1 = b + h /\ x - 1 \in 0..Len(l) /\ x \in 0..Len(l)
      BY <1>1
    <2>2. Grows(x - 1)
      BY <1>1, <1>4, <2>1
    <2>3. at(x) = at(x - 1) + (IF l[x] = "brace" THEN 1 ELSE 0)
      BY <1>2, <2>1
    <2>4. at(x) \in Int /\ at(x - 1) \in Int /\ at(b) \in Int
      BY <1>1, <2>1
    <2>5. (\A a \in (b + 1)..x : l[a] # "brace") => (l[x] # "brace" /\ \A a \in (b + 1)..(x - 1) : l[a] # "brace")
      BY <2>1
    <2> HIDE DEF x
    <2>6. Grows(x)
      BY <2>2, <2>3, <2>4, <2>5
    <2> QED
      BY <2>6 DEF x
  <1> HIDE DEF T
  <1>5. c - b \in T
    BY <1>1, <1>3, <1>4, SetInduction
  <1>6. Grows(c)
    BY <1>1, <1>5 DEF T
  <1> QED
    BY <1>6 DEF at

\* Every line belongs to a block.
LEMMA InBlock ==
    ASSUME NEW l \in Listings, NEW b \in 0..Len(l), NEW k \in (End(l, b) + 1)..Len(All(l))
    PROVE  \E d \in (b + 1)..Len(l) : k \in (End(l, d - 1) + 1)..End(l, d)
  <1> DEFINE S == {d \in 0..Len(l) : k <= End(l, d)}
             d == Least(S)
  <1>1. Len(l) \in Nat /\ Len(All(l)) = End(l, Len(l)) /\ Len(All(l)) \in Nat /\ End(l, b) \in Nat
    BY CountType, EndSteps
  <1>2. S \in SUBSET Nat /\ S # {}
    BY <1>1
  <1>3. d \in S /\ \A x \in S : d <= x
    BY <1>2, LeastIsLeast
  <1>4. \A x \in 0..b : x \notin S
    <2> SUFFICES ASSUME NEW x \in 0..b, k <= End(l, x) PROVE FALSE
      OBVIOUS
    <2>1. x \in 0..Len(l) /\ b \in x..Len(l)
      BY <1>1
    <2>2. End(l, x) <= End(l, b) /\ End(l, x) \in Nat
      BY <2>1, LinesPrefix, EndSteps
    <2> QED
      BY <1>1, <2>2
  <1> HIDE DEF d
  <1>5. d \in (b + 1)..Len(l) /\ d - 1 \in 0..Len(l) /\ d - 1 \notin S
    BY <1>1, <1>3, <1>4
  <1>6. End(l, d - 1) \in Nat /\ End(l, d) \in Nat
    BY <1>1, <1>5, EndSteps
  <1>7. k \in (End(l, d - 1) + 1)..End(l, d)
    BY <1>1, <1>3, <1>5, <1>6
  <1> QED
    BY <1>5, <1>7

\* Blocks that hold no object, from behind block b to before block d.
NoObjects(l, b, d) == \A c \in (b + 1)..(d - 1) : l[c] \in {"noise", "blank"}

\* Lines is All of the listing.
LEMMA LinesAre == Lines = All(input.listing)
  BY DEF Lines, All

\* The listing is one of those the run reads.
LEMMA ListingType == ASSUME input \in Inputs PROVE input.listing \in Listings
  BY InputAssumption DEF Listings

\* From behind the first line of a block on, the first object decides where the
\* count of the braces is zero again at a closing line: not before its end, and
\* never if it has a brace in a string.
LEMMA ClosesAgain ==
    ASSUME NEW l \in Listings, NEW b \in 0..(Len(l) - 1), NEW d \in (b + 1)..(Len(l) + 1),
           NoObjects(l, b, d), d <= Len(l) => l[d] \in Objects,
           NEW k \in (End(l, b) + 2)..Len(All(l)),
           All(l)[k].kind = "close", Count(l)[k] = Count(l)[End(l, b)]
    PROVE  d <= Len(l) /\ l[d] # "brace" /\ End(l, d) <= k
  <1> DEFINE C(x) == Count(l)[End(l, x)]
  <1>1. Len(l) \in Nat /\ b \in 0..Len(l) /\ End(l, b) \in Nat /\ Len(All(l)) \in Nat
    BY CountType, EndSteps
  <1>2. k \in (End(l, b) + 1)..Len(All(l))
    BY <1>1
  <1>3. PICK q \in (b + 1)..Len(l) : k \in (End(l, q - 1) + 1)..End(l, q)
    BY <1>1, <1>2, InBlock
  <1>4. q \in 1..Len(l) /\ q - 1 \in b..Len(l)
    BY <1>1
  <1>5. Count(l)[k] > C(q - 1) \/ (k = End(l, q) /\ l[q] \in {"model", "nested"})
    BY <1>3, <1>4, BlockCounts
  <1>6. C(b) <= C(q - 1) /\ C(b) \in Int /\ C(q - 1) \in Int
    <2>1. q - 1 \in 0..Len(l)
      BY <1>1, <1>4
    <2> QED
      BY <1>1, <1>4, <2>1, CountGrows, CountType
  <1>7. k = End(l, q) /\ l[q] \in {"model", "nested"}
    BY <1>1, <1>5, <1>6, CountType
  <1>8. d <= q
    BY <1>1, <1>4, <1>7 DEF NoObjects
  <1>9. d \in 1..Len(l) /\ d - 1 \in b..Len(l) /\ d - 1 \in 0..Len(l) /\ d \in 0..Len(l)
        /\ q \in d..Len(l) /\ q \in 0..Len(l)
    BY <1>1, <1>3, <1>4, <1>8
  <1>10. l[d] # "brace"
    <2> SUFFICES ASSUME l[d] = "brace" PROVE FALSE
      OBVIOUS
    <2>1. C(d) = C(d - 1) + 1
      BY <1>9, BlockCounts
    <2>2. C(b) <= C(d - 1) /\ C(d) <= C(q)
      BY <1>1, <1>9, CountGrows
    <2>3. C(d - 1) \in Int /\ C(d) \in Int /\ C(q) \in Int
      <3>1. \A a \in 0..Len(l) : C(a) \in Int
        BY CountType
      <3> HIDE DEF C
      <3> QED
        BY <1>9, <3>1
    <2> QED
      BY <1>6, <1>7, <2>1, <2>2, <2>3
  <1>11. End(l, d) <= End(l, q)
    BY <1>9, LinesPrefix
  <1> QED
    BY <1>7, <1>9, <1>10, <1>11

\* How the search for the end of an object behind block b ends.
LEMMA ObjectEnds ==
    ASSUME input.listing \in Listings,
           NEW b \in 0..(Len(input.listing) - 1), NEW d \in (b + 1)..(Len(input.listing) + 1),
           NoObjects(input.listing, b, d),
           d <= Len(input.listing) => input.listing[d] \in Objects
    PROVE  ObjectEnd(End(input.listing, b) + 2) =
              IF d <= Len(input.listing) /\ input.listing[d] # "brace"
              THEN End(input.listing, d) ELSE Len(All(input.listing))
  <1> DEFINE l == input.listing
             from == End(l, b) + 2
             S == {k \in from..Len(All(l)) : All(l)[k].kind = "close" /\ Count(l)[k] = Count(l)[End(l, b)]}
             x == IF d <= Len(l) /\ l[d] # "brace" THEN End(l, d) ELSE Len(All(l))
  <1>1. /\ Len(l) \in Nat /\ b \in 0..Len(l) /\ b + 1 \in 1..Len(l) /\ (b + 1) - 1 = b
        /\ End(l, b) \in Nat /\ Len(All(l)) \in Nat
    BY CountType, EndSteps
  <1>2. ObjectEnd(from) = Least(S \cup {Len(All(l))})
    <2>1. \A k \in from..Len(All(l)) : Braces(from, k) = 0 <=> Count(l)[k] = Count(l)[End(l, b)]
      <3> SUFFICES ASSUME NEW k \in from..Len(All(l))
                   PROVE  Braces(from, k) = 0 <=> Count(l)[k] = Count(l)[End(l, b)]
        OBVIOUS
      <3>1. Braces(from, k) = Count(l)[k] - Count(l)[from - 1]
        BY LinesAre DEF Braces, Count
      <3>2. from - 1 = End(l, b) + 1 /\ k \in 0..Len(All(l))
        BY <1>1
      <3>3. Count(l)[End(l, b) + 1] = Count(l)[End(l, b)]
        BY <1>1, BlockCounts
      <3>4. Count(l)[k] \in Int /\ Count(l)[End(l, b)] \in Int
        BY <1>1, <3>2, CountType
      <3> QED
        BY <3>1, <3>2, <3>3, <3>4
    <2>2. ObjectEnd(from) = Least({k \in from..Len(All(l)) : All(l)[k].kind = "close" /\ Braces(from, k) = 0}
                                     \cup {Len(All(l))})
      BY LinesAre DEF ObjectEnd
    <2>3. {k \in from..Len(All(l)) : All(l)[k].kind = "close" /\ Braces(from, k) = 0} = S
      BY <2>1
    <2> QED
      BY <2>2, <2>3
  <1>3. \A k \in S : d <= Len(l) /\ l[d] # "brace" /\ End(l, d) <= k
    BY <1>1, ClosesAgain
  <1>4. x \in S \cup {Len(All(l))} /\ \A k \in S \cup {Len(All(l))} : x <= k
    <2>1. CASE d <= Len(l) /\ l[d] # "brace"
      <3>1. /\ d \in 1..Len(l) /\ d \in 0..Len(l) /\ d - 1 \in b..Len(l) /\ d - 1 \in 0..Len(l)
            /\ l[d] \in {"model", "nested"}
        BY <1>1, <2>1 DEF Objects
      <3>2. End(l, d) \in 0..Len(All(l)) /\ End(l, b) <= End(l, d - 1) /\ End(l, d - 1) \in Nat
        BY <1>1, <3>1, CountType, LinesPrefix, EndSteps
      <3>3. End(l, d) >= End(l, d - 1) + 4
        BY <3>1, <3>2, ObjectAt DEF Objects
      <3>4. All(l)[End(l, d)].kind = "close" /\ Count(l)[End(l, d)] = Count(l)[End(l, b)]
        <4>1. Count(l)[End(l, d)] = Count(l)[End(l, d - 1)] + 0 /\ All(l)[End(l, d)].kind = "close"
          BY <3>1, BlockCounts
        <4>2. \A a \in (b + 1)..(d - 1) : l[a] # "brace"
          BY DEF NoObjects
        <4>3. Count(l)[End(l, b)] = Count(l)[End(l, d - 1)]
          BY <1>1, <3>1, <4>2, CountGrows
        <4>4. Count(l)[End(l, b)] \in Int
          BY <1>1, CountType
        <4> QED
          BY <4>1, <4>3, <4>4
      <3>5. End(l, d) \in S
        BY <1>1, <3>2, <3>3, <3>4
      <3> HIDE DEF S
      <3> QED
        BY <1>3, <2>1, <3>2, <3>5
    <2>2. CASE ~(d <= Len(l) /\ l[d] # "brace")
      <3>1. S = {}
        BY <1>3, <2>2
      <3> HIDE DEF S
      <3> QED
        BY <1>1, <2>2, <3>1
    <2> QED
      BY <2>1, <2>2
  <1>5. S \cup {Len(All(l))} \in SUBSET Nat
    BY <1>1
  <1> HIDE DEF S, x
  <1>6. Least(S \cup {Len(All(l))}) = x
    <2> DEFINE y == Least(S \cup {Len(All(l))})
    <2>1. y \in S \cup {Len(All(l))} /\ \A k \in S \cup {Len(All(l))} : y <= k
      BY <1>4, <1>5, LeastIsLeast
    <2> HIDE DEF y
    <2>2. x <= y /\ y <= x /\ x \in Nat /\ y \in Nat
      BY <1>4, <1>5, <2>1
    <2>3. x = y
      BY <2>2
    <2> QED
      BY <2>3 DEF y
  <1> QED
    BY <1>2, <1>6 DEF x

\* Lines that are an object start where it opens and are as many as it has.
LEMMA ObjectLines ==
    ASSUME input.listing \in Listings, NEW x \in 1..Len(input.listing),
           NEW from \in 1..(Len(All(input.listing)) + 1), NEW to \in 0..Len(All(input.listing)),
           IsObjectOf(x, from, to)
    PROVE  /\ input.listing[x] \in Objects /\ from <= to
           /\ All(input.listing)[from] = Line(x, "open", 1)
           /\ to - from + 1 = IF input.listing[x] = "nested" THEN 4 ELSE 3
  <1> DEFINE L == All(input.listing)
             kind == input.listing[x]
             m == IF kind = "nested" THEN 4 ELSE 3
  <1>1. L \in Seq(LineSet) /\ Len(L) \in Nat
    BY CountType
  <1>2. kind \in Objects /\ SubSeq(L, from, to) = Body(x, kind)
    BY LinesAre DEF IsObjectOf, Objects
  <1>3. Len(SubSeq(L, from, to)) = m /\ SubSeq(L, from, to)[1] = Line(x, "open", 1)
    <2>1. x \in Nat
      BY CountType
    <2> QED
      BY <1>2, <2>1, BodyShape
  <1>4. \A k \in from..to : L[k] \in LineSet
    BY <1>1
  <1> HIDE DEF L
  <1>5. /\ Len(SubSeq(L, from, to)) = IF from <= to THEN to - from + 1 ELSE 0
        /\ \A k \in 1..(to - from + 1) : SubSeq(L, from, to)[k] = L[from + k - 1]
    <2>1. from \in Int /\ to \in Int
      BY <1>1
    <2> QED
      BY <1>4, <2>1, SubSeqProperties
  <1>6. from <= to /\ to - from + 1 = m
    BY <1>3, <1>5
  <1>7. 1 \in 1..(to - from + 1) /\ from + 1 - 1 = from
    BY <1>1, <1>6
  <1>8. SubSeq(L, from, to)[1] = L[from]
    BY <1>5, <1>7
  <1> QED
    BY <1>2, <1>3, <1>6, <1>8 DEF L

\* An object is recognised between its header and its last line.
LEMMA OwnObject ==
    ASSUME input.listing \in Listings, NEW b \in 1..Len(input.listing), input.listing[b] \in Objects
    PROVE  IsObjectOf(b, End(input.listing, b - 1) + 2, End(input.listing, b))
  <1> DEFINE l == input.listing
             L == All(l)
             body == Body(b, l[b])
             s == End(l, b - 1)
             m == IF l[b] = "nested" THEN 4 ELSE 3
  <1>1. s \in Nat /\ L \in Seq(LineSet) /\ Len(L) \in Nat /\ b \in Nat
    <2>1. b - 1 \in 0..Len(l)
      BY CountType
    <2> QED
      BY <2>1, CountType, EndSteps
  <1>2. End(l, b) = s + m + 1 /\ End(l, b) <= Len(L)
    <2>1. End(l, b) = s + (IF l[b] = "nested" THEN 5 ELSE 4) /\ End(l, b) <= Len(L)
      BY ObjectAt
    <2> QED
      BY <1>1, <2>1
  <1>3. body \in Seq(LineSet) /\ Len(body) = m
    BY <1>1, BodyShape
  <1>4. \A k \in 1..m : L[s + 1 + k] = body[k]
    <2>1. /\ L[s + 2] = body[1] /\ L[s + 3] = body[2] /\ L[s + 4] = body[3]
          /\ l[b] = "nested" => L[s + 5] = body[4]
      <3>1. /\ L[s + 2] = Line(b, "open", 1)
            /\ L[s + 3] = Line(b, "field", IF l[b] = "model" THEN 0 ELSE 1)
            /\ L[s + 4] = Line(b, "close", -1)
            /\ l[b] = "nested" => L[s + 5] = Line(b, "close", -1)
        BY ObjectAt
      <3>2. /\ body[1] = Line(b, "open", 1)
            /\ body[2] = Line(b, "field", IF l[b] = "model" THEN 0 ELSE 1)
            /\ body[3] = Line(b, "close", -1)
            /\ l[b] = "nested" => body[4] = Line(b, "close", -1)
        BY <1>1, BodyShape
      <3> HIDE DEF L, body, s
      <3> QED
        BY <3>1, <3>2
    <2> HIDE DEF L, body, s
    <2> SUFFICES ASSUME NEW k \in 1..m PROVE L[s + 1 + k] = body[k]
      OBVIOUS
    <2>2. k \in {1, 2, 3} \/ (l[b] = "nested" /\ k = 4)
      OBVIOUS
    <2>3. s + 1 + 1 = s + 2 /\ s + 1 + 2 = s + 3 /\ s + 1 + 3 = s + 4 /\ s + 1 + 4 = s + 5
      BY <1>1
    <2> QED
      BY <2>1, <2>2, <2>3
  <1> DEFINE from == s + 2
             to == End(l, b)
  <1> HIDE DEF L, body, s
  <1>5. /\ SubSeq(L, from, to) \in Seq(LineSet)
        /\ Len(SubSeq(L, from, to)) = IF from <= to THEN to - from + 1 ELSE 0
        /\ \A k \in 1..(to - from + 1) : SubSeq(L, from, to)[k] = L[from + k - 1]
    <2>1. from \in Int /\ to \in Int /\ \A k \in from..to : L[k] \in LineSet
      BY <1>1, <1>2
    <2> HIDE DEF from, to
    <2> QED
      BY <2>1, SubSeqProperties
  <1>6. from <= to /\ to - from + 1 = m
    BY <1>1, <1>2
  <1>7. \A k \in 1..m : SubSeq(L, from, to)[k] = body[k]
    <2> SUFFICES ASSUME NEW k \in 1..m PROVE SubSeq(L, from, to)[k] = body[k]
      OBVIOUS
    <2>1. from + k - 1 = s + 1 + k
      BY <1>1
    <2>2. SubSeq(L, from, to)[k] = L[from + k - 1]
      BY <1>5, <1>6
    <2> HIDE DEF from, to
    <2> QED
      BY <1>4, <2>1, <2>2
  <1> HIDE DEF from, to
  <1>8. SubSeq(L, from, to) = body
    <2> DEFINE own == SubSeq(L, from, to)
    <2>1. own \in Seq(LineSet) /\ Len(own) = m /\ \A k \in 1..m : own[k] = body[k]
      BY <1>5, <1>6, <1>7
    <2> HIDE DEF own, m
    <2>2. own = body
      BY <1>3, <2>1, SeqEqual
    <2> QED
      BY <2>2 DEF own
  <1> QED
    BY <1>8, LinesAre DEF IsObjectOf, L, body, from, to, s, Objects

-----------------------------------------------------------------------------
(* What is listed after so many blocks.                                      *)

ReadTo(l, m, b) ==
    /\ m \in Seq(1..b)
    /\ {m[k] : k \in DOMAIN m} = {c \in 1..b : Listed(l, c)}
    /\ \A j, k \in DOMAIN m : j < k => m[j] < m[k]

\* Blocks that are not listed add nothing.
LEMMA ReadNothing ==
    ASSUME NEW l, NEW m, NEW b \in Nat, NEW d \in Nat, b <= d, ReadTo(l, m, b),
           \A c \in (b + 1)..d : ~Listed(l, c)
    PROVE  ReadTo(l, m, d)
  <1>1. {c \in 1..d : Listed(l, c)} = {c \in 1..b : Listed(l, c)}
    <2>1. \A c \in 1..d : c \in 1..b \/ c \in (b + 1)..d
      OBVIOUS
    <2>2. 1..b \subseteq 1..d
      OBVIOUS
    <2> QED
      BY <2>1, <2>2
  <1>2. m \in Seq(1..d)
    BY DEF ReadTo
  <1> QED
    BY <1>1, <1>2 DEF ReadTo

\* A block that is listed is appended.
LEMMA ReadOne ==
    ASSUME NEW l, NEW m, NEW b \in Nat, ReadTo(l, m, b), Listed(l, b + 1)
    PROVE  ReadTo(l, Append(m, b + 1), b + 1)
  <1> DEFINE p == Append(m, b + 1)
  <1>1. m \in Seq(1..b) /\ Len(m) \in Nat /\ DOMAIN m = 1..Len(m) /\ \A k \in 1..Len(m) : m[k] \in 1..b
    BY DEF ReadTo
  <1>2. p \in Seq(1..(b + 1))
    <2>1. m \in Seq(1..(b + 1)) /\ b + 1 \in 1..(b + 1)
      BY <1>1
    <2> QED
      BY <2>1
  <1>3. /\ DOMAIN p = 1..(Len(m) + 1) /\ p[Len(m) + 1] = b + 1
        /\ \A k \in 1..Len(m) : p[k] = m[k]
    BY <1>1
  <1> HIDE DEF p
  <1>4. {p[k] : k \in DOMAIN p} = {c \in 1..(b + 1) : Listed(l, c)}
    <2>1. {p[k] : k \in DOMAIN p} = {m[k] : k \in DOMAIN m} \cup {b + 1}
      <3>1. \A k \in 1..(Len(m) + 1) : k \in 1..Len(m) \/ k = Len(m) + 1
        BY <1>1
      <3>2. 1..Len(m) \subseteq 1..(Len(m) + 1) /\ Len(m) + 1 \in 1..(Len(m) + 1)
        BY <1>1
      <3> QED
        BY <1>1, <1>3, <3>1, <3>2
    <2>2. {c \in 1..(b + 1) : Listed(l, c)} = {c \in 1..b : Listed(l, c)} \cup {b + 1}
      <3>1. \A c : c \in 1..(b + 1) <=> (c \in 1..b \/ c = b + 1)
        OBVIOUS
      <3> QED
        BY <3>1
    <2> QED
      BY <2>1, <2>2 DEF ReadTo
  <1>5. ASSUME NEW j \in DOMAIN p, NEW k \in DOMAIN p, j < k PROVE p[j] < p[k]
    <2>1. j \in 1..Len(m)
      BY <1>1, <1>3, <1>5
    <2>2. CASE k = Len(m) + 1
      BY <1>1, <1>3, <2>1, <2>2
    <2>3. CASE k \in 1..Len(m)
      BY <1>1, <1>3, <1>5, <2>1, <2>3 DEF ReadTo
    <2> QED
      BY <1>1, <1>3, <2>2, <2>3
  <1> QED
    BY <1>2, <1>4, <1>5 DEF ReadTo, p

\* A step of the loop that finds an object takes the block on, one that does not
\* takes nothing.
LEMMA ListsFound ==
    ASSUME ListModel, Lines[i].kind \in {"header", "noise"}, i \in Nat,
           NEW last, last = ObjectEnd(i + 1)
    PROVE  /\ \/ \E b \in 1..Len(input.listing) : IsObjectOf(b, i + 1, last) /\ models' = Append(models, b)
              \/ /\ \A b \in 1..Len(input.listing) : ~IsObjectOf(b, i + 1, last)
                 /\ models' = models
           /\ i' = IF last <= i THEN i + 1 ELSE last + 1
  BY DEF ListModel

\* The first line of a block.
LEMMA FirstLine ==
    ASSUME NEW l \in Listings, NEW b \in 1..Len(l)
    PROVE  /\ End(l, b - 1) + 1 \in 1..Len(All(l))
           /\ All(l)[End(l, b - 1) + 1].kind =
                IF l[b] \in Objects THEN "header" ELSE l[b]
           /\ l[b] \in Blocks
  <1>1. 1 \in 1..Len(Printed(l, b)) /\ End(l, b - 1) \in Nat /\ Len(All(l)) \in Nat /\ End(l, b) \in Nat
    <2>1. b - 1 \in 0..Len(l) /\ b \in 0..Len(l)
      BY CountType
    <2> QED
      BY <2>1, PrintedShape, LenProperties, EndSteps, CountType
  <1>2. /\ End(l, b - 1) + 1 \in 1..End(l, b) /\ End(l, b) <= Len(All(l))
        /\ All(l)[End(l, b - 1) + 1] = Printed(l, b)[1]
    BY <1>1, LineAt
  <1>3. l[b] \in Blocks
    BY DEF Listings
  <1>4. Printed(l, b)[1] = IF l[b] \in Objects THEN Line(b, "header", 0) ELSE Line(b, l[b], 0)
    <2>1. CASE l[b] \in Objects
      BY <2>1, PrintedShape
    <2>2. CASE l[b] \notin Objects
      <3>1. Printed(l, b) = <<Line(b, l[b], 0)>>
        BY <1>3, <2>2, PrintedShape DEF Blocks, Objects
      <3> QED
        BY <2>2, <3>1
    <2> QED
      BY <2>1, <2>2
  <1> QED
    BY <1>1, <1>2, <1>3, <1>4 DEF Line

\* The loop at the first line of a block that is read from its header on goes on
\* to the first line of such a block, or to the end, and has listed what it should.
LEMMA BlockListed ==
    ASSUME input.listing \in Listings, NEW b \in 0..(Len(input.listing) - 1),
           i = End(input.listing, b) + 1, ReadTo(input.listing, models, b),
           Clear(input.listing, b), ListModel
    PROVE  \E d \in (b + 1)..Len(input.listing) :
              /\ i' = End(input.listing, d) + 1 /\ ReadTo(input.listing, models', d)
              /\ d = Len(input.listing) \/ Clear(input.listing, d)
  <1> DEFINE l == input.listing
             c == b + 1
             whole == Len(All(l))
  <1>1. /\ Len(l) \in Nat /\ b \in Nat /\ b \in 0..Len(l) /\ c \in 1..Len(l) /\ c - 1 = b
        /\ whole \in Nat /\ End(l, b) \in Nat /\ i \in Nat /\ i + 1 = End(l, b) + 2
        /\ whole = End(l, Len(l)) /\ Len(l) \in c..Len(l)
    <2>1. Len(l) \in Nat /\ whole \in Nat /\ whole = End(l, Len(l))
      BY CountType
    <2>2. b \in Nat /\ b \in 0..Len(l) /\ c \in 1..Len(l) /\ c - 1 = b /\ Len(l) \in c..Len(l)
      BY <2>1
    <2>3. End(l, b) \in Nat
      BY <2>2, EndSteps
    <2>4. i \in Nat /\ i + 1 = End(l, b) + 2
      BY <2>3
    <2> HIDE DEF whole
    <2> QED
      BY <2>1, <2>2, <2>3, <2>4
  <1>2. /\ i \in 1..whole /\ Lines = All(l) /\ l[c] \in Blocks
        /\ Lines[i].kind = IF l[c] \in Objects THEN "header" ELSE l[c]
    BY <1>1, LinesAre, FirstLine
  <1>3. CASE l[c] = "blank"
    <2>1. i' = i + 1 /\ models' = models
      BY <1>2, <1>3 DEF ListModel, Objects
    <2>2. End(l, c) = End(l, b) + 1
      <3>1. Len(Printed(l, c)) = 1
        BY <1>1, <1>3, PrintedShape
      <3> QED
        BY <1>1, <3>1, EndSteps
    <2>3. ReadTo(l, models, c)
      <3>1. \A x \in (b + 1)..c : ~Listed(l, x)
        BY <1>1, <1>3 DEF Listed
      <3> QED
        BY <1>1, <3>1, ReadNothing
    <2>4. Clear(l, c)
      <3>1. \A a \in 1..c : a \in 1..b \/ a = c
        BY <1>1
      <3>2. \A a \in 1..b : (a + 1)..b \subseteq (a + 1)..c
        BY <1>1
      <3> QED
        BY <1>3, <3>1, <3>2 DEF Clear
    <2> QED
      BY <1>1, <2>1, <2>2, <2>3, <2>4
  <1>4. CASE l[c] \in Objects
    <2>1. ObjectEnd(i + 1) = IF l[c] # "brace" THEN End(l, c) ELSE whole
      <3>1. NoObjects(l, b, c) /\ c \in (b + 1)..(Len(l) + 1) /\ c <= Len(l)
        BY <1>1 DEF NoObjects
      <3> QED
        BY <1>1, <1>4, <3>1, ObjectEnds
    <2>2. Lines[i].kind \in {"header", "noise"}
      BY <1>2, <1>4
    <2>3. End(l, c) >= End(l, b) + 4 /\ End(l, c) \in Nat /\ End(l, c) <= whole
          /\ (l[c] # "nested" => End(l, c) = End(l, b) + 4)
      <3>1. End(l, c) = End(l, b) + (IF l[c] = "nested" THEN 5 ELSE 4) /\ End(l, c) <= whole
        BY <1>1, <1>4, ObjectAt
      <3> QED
        BY <1>1, <3>1
    <2>4. i + 1 \in 1..(whole + 1) /\ Line(c, "open", 1) = All(l)[i + 1]
      BY <1>1, <1>2, <1>4, ObjectAt
    <2>5. ASSUME NEW x \in 1..Len(l), NEW to \in 0..whole, IsObjectOf(x, i + 1, to)
          PROVE  x = c /\ to - (i + 1) + 1 = IF l[c] = "nested" THEN 4 ELSE 3
      <3>1. /\ All(l)[i + 1] = Line(x, "open", 1)
            /\ to - (i + 1) + 1 = IF l[x] = "nested" THEN 4 ELSE 3
        BY <2>4, <2>5, ObjectLines
      <3>2. x = c
        BY <2>4, <3>1 DEF Line
      <3> QED
        BY <3>1, <3>2
    <2>6. IsObjectOf(c, i + 1, End(l, c))
      BY <1>1, <1>4, OwnObject
    <2>7. CASE l[c] # "brace"
      <3>1. i' = End(l, c) + 1
        BY <1>1, <2>1, <2>2, <2>3, <2>7, ListsFound
      <3>2. models' = Append(models, c)
        <4>1. End(l, c) \in 0..whole /\ ObjectEnd(i + 1) = End(l, c)
          BY <2>1, <2>3, <2>7
        <4> QED
          BY <1>1, <2>2, <2>5, <2>6, <4>1, ListsFound
      <3>3. Listed(l, c)
        BY <1>1, <1>4, <2>7 DEF Listed, Objects
      <3>4. ReadTo(l, models', c)
        BY <1>1, <3>2, <3>3, ReadOne
      <3>5. Clear(l, c)
        <4>1. \A a \in 1..c : l[a] = "brace" => FALSE
          BY <1>1, <2>7 DEF Clear
        <4>2. \A a \in 1..c : l[a] = "noise" => c \in (a + 1)..c
          BY <1>1, <1>4 DEF Objects
        <4> QED
          BY <1>4, <2>7, <4>1, <4>2 DEF Clear, Objects
      <3> QED
        BY <1>1, <3>1, <3>4, <3>5
    <2>8. CASE l[c] = "brace"
      <3>1. i' = whole + 1
        BY <1>1, <2>1, <2>2, <2>3, <2>8, ListsFound
      <3>2. \A x \in (c + 1)..Len(l) : ~Listed(l, x)
        <4> SUFFICES ASSUME NEW x \in (c + 1)..Len(l), Clear(l, x - 1) PROVE FALSE
          BY DEF Listed
        <4>1. c \in 1..(x - 1)
          BY <1>1
        <4> QED
          BY <2>8, <4>1 DEF Clear
      <3>3. CASE c = Len(l)
        <4>1. End(l, c) = whole
          BY <1>1, <3>3
        <4>2. models' = Append(models, c)
          <5>1. ObjectEnd(i + 1) = End(l, c) /\ End(l, c) \in 0..whole
            BY <2>1, <2>3, <2>8, <4>1
          <5> QED
            BY <1>1, <2>2, <2>5, <2>6, <5>1, ListsFound
        <4>3. Listed(l, c)
          BY <1>1, <2>8, <3>3 DEF Listed
        <4>4. ReadTo(l, models', c)
          BY <1>1, <4>2, <4>3, ReadOne
        <4> QED
          BY <1>1, <3>1, <3>3, <4>1, <4>4
      <3>4. CASE c # Len(l)
        <4>1. whole > End(l, c)
          <5>1. c + 1 \in 1..Len(l) /\ (c + 1) - 1 = c /\ c + 1 \in 0..Len(l)
            BY <1>1, <3>4
          <5>2. End(l, c) < End(l, c + 1) /\ End(l, c + 1) <= whole /\ End(l, c + 1) \in Nat
            BY <5>1, EndSteps, CountType
          <5> QED
            BY <1>1, <2>3, <5>2
        <4>2. models' = models
          <5>1. ObjectEnd(i + 1) = whole /\ whole \in 0..whole
            BY <1>1, <2>1, <2>8
          <5>2. whole - (i + 1) + 1 # 3
            BY <1>1, <2>3, <2>8, <4>1
          <5>3. \A x \in 1..Len(l) : ~IsObjectOf(x, i + 1, whole)
            BY <2>5, <2>8, <5>1, <5>2
          <5> QED
            BY <1>1, <2>2, <5>1, <5>3, ListsFound
        <4>3. \A x \in (b + 1)..Len(l) : ~Listed(l, x)
          BY <1>1, <2>8, <3>2, <3>4 DEF Listed
        <4>4. ReadTo(l, models', Len(l))
          BY <1>1, <4>2, <4>3, ReadNothing
        <4> QED
          BY <1>1, <3>1, <4>4
      <3> QED
        BY <3>3, <3>4
    <2> QED
      BY <2>7, <2>8
  <1>5. CASE l[c] = "noise"
    <2> DEFINE D == {x \in (c + 1)..Len(l) : l[x] \in Objects}
               d == IF D = {} THEN Len(l) + 1 ELSE Least(D)
    <2>1. /\ d \in (c + 1)..(Len(l) + 1) /\ NoObjects(l, b, d)
          /\ d <= Len(l) => l[d] \in Objects
      <3>1. \A x \in (b + 1)..Len(l) : l[x] \in {"noise", "blank"} \/ x \in D
        <4> SUFFICES ASSUME NEW x \in (b + 1)..Len(l), x \notin D PROVE l[x] \in {"noise", "blank"}
          OBVIOUS
        <4>1. x = c \/ x \in (c + 1)..Len(l)
          BY <1>1
        <4>2. x \in 1..Len(l)
          BY <1>1
        <4>3. l[x] \in Blocks
          BY <4>2, FirstLine
        <4> QED
          BY <1>5, <4>1, <4>3 DEF Blocks, Objects
      <3>2. CASE D = {}
        <4>1. d = Len(l) + 1 /\ d - 1 = Len(l)
          BY <1>1, <3>2
        <4>2. d \in (c + 1)..(Len(l) + 1) /\ ~(d <= Len(l))
          BY <1>1, <4>1
        <4> HIDE DEF d
        <4>3. \A x \in (b + 1)..(d - 1) : l[x] \in {"noise", "blank"}
          BY <3>1, <3>2, <4>1
        <4> QED
          BY <4>2, <4>3 DEF NoObjects
      <3>3. CASE D # {}
        <4>1. D \in SUBSET Nat
          BY <1>1
        <4>2. d \in D /\ \A x \in D : d <= x
          BY <3>3, <4>1, LeastIsLeast
        <4> HIDE DEF d
        <4>3. \A x \in (b + 1)..(d - 1) : x \in (b + 1)..Len(l) /\ x \notin D
          <5> SUFFICES ASSUME NEW x \in (b + 1)..(d - 1) PROVE x \in (b + 1)..Len(l) /\ x \notin D
            OBVIOUS
          <5>1. d \in (c + 1)..Len(l)
            BY <4>2
          <5>2. x \in (b + 1)..Len(l) /\ ~(d <= x)
            BY <1>1, <5>1
          <5> HIDE DEF D
          <5> QED
            BY <4>2, <5>2
        <4> QED
          BY <1>1, <3>1, <4>2, <4>3 DEF NoObjects
      <3> QED
        BY <3>2, <3>3
    <2> HIDE DEF D, d
    <2>2. ObjectEnd(i + 1) = IF d <= Len(l) /\ l[d] # "brace" THEN End(l, d) ELSE whole
      BY <1>1, <2>1, ObjectEnds
    <2>3. Lines[i].kind \in {"header", "noise"}
      BY <1>2, <1>5 DEF Objects
    <2>4. End(l, c) = i
      <3>1. Len(Printed(l, c)) = 1
        BY <1>1, <1>5, PrintedShape
      <3> QED
        BY <1>1, <3>1, EndSteps
    <2>5. ASSUME NEW x \in 1..Len(l), NEW to \in 0..whole, IsObjectOf(x, i + 1, to)
          PROVE  FALSE
      <3>1. i + 1 \in 1..(whole + 1)
        BY <1>1, <1>2
      <3>2. i + 1 <= to /\ All(l)[i + 1] = Line(x, "open", 1)
        BY <2>5, <3>1, ObjectLines
      <3>3. c # Len(l)
        BY <1>1, <2>4, <3>2
      <3>4. c + 1 \in 1..Len(l) /\ (c + 1) - 1 = c
        BY <1>1, <3>3
      <3>5. All(l)[i + 1].kind = (IF l[c + 1] \in Objects THEN "header" ELSE l[c + 1]) /\ l[c + 1] \in Blocks
        <4>1. End(l, (c + 1) - 1) + 1 = i + 1
          BY <2>4, <3>4
        <4>2. /\ All(l)[End(l, (c + 1) - 1) + 1].kind = IF l[c + 1] \in Objects THEN "header" ELSE l[c + 1]
              /\ l[c + 1] \in Blocks
          BY <3>4, FirstLine
        <4> QED
          BY <4>1, <4>2
      <3>6. All(l)[i + 1].kind # "open"
        BY <3>5 DEF Blocks, Objects
      <3> QED
        BY <3>2, <3>6 DEF Line
    <2>6. ObjectEnd(i + 1) \in 0..whole
      <3>1. d <= Len(l) => End(l, d) \in 0..whole
        <4>1. d <= Len(l) => d \in 0..Len(l)
          BY <1>1, <2>1
        <4> QED
          BY <4>1, CountType
      <3> QED
        BY <1>1, <2>2, <3>1
    <2>7. models' = models /\ i' = IF ObjectEnd(i + 1) <= i THEN i + 1 ELSE ObjectEnd(i + 1) + 1
      BY <1>1, <2>3, <2>5, <2>6, ListsFound
    <2>8. \A x \in (b + 1)..(d - 1) : ~Listed(l, x)
      BY <1>1, <2>1 DEF Listed, NoObjects
    <2>9. d <= Len(l) => ~Listed(l, d)
      <3> SUFFICES ASSUME d <= Len(l), Clear(l, d - 1) PROVE FALSE
        BY DEF Listed
      <3>1. c \in 1..(d - 1)
        BY <1>1, <2>1
      <3>2. PICK x \in (c + 1)..(d - 1) : l[x] \in {"model", "nested"}
        BY <1>5, <3>1 DEF Clear
      <3>3. x \in (b + 1)..(d - 1)
        BY <1>1
      <3> QED
        BY <2>1, <3>2, <3>3 DEF NoObjects
    <2>10. CASE d <= Len(l) /\ l[d] # "brace"
      <3>1. d \in (b + 1)..Len(l) /\ d \in 0..Len(l) /\ l[d] \in {"model", "nested"} /\ d \in c..Len(l)
            /\ d - 1 \in c..Len(l) /\ d \in 1..Len(l)
        BY <1>1, <2>1, <2>10 DEF Objects
      <3>2. i < End(l, d)
        <4>1. End(l, c) <= End(l, d - 1) /\ End(l, d - 1) < End(l, d)
          BY <1>1, <3>1, LinesPrefix, EndSteps
        <4>2. End(l, d - 1) \in Nat /\ End(l, d) \in Nat
          <5>1. d - 1 \in 0..Len(l)
            BY <1>1, <3>1
          <5> QED
            BY <3>1, <5>1, EndSteps
        <4> QED
          BY <1>1, <2>4, <4>1, <4>2
      <3>3. i' = End(l, d) + 1
        <4>1. ObjectEnd(i + 1) = End(l, d) /\ End(l, d) \in Nat
          BY <2>2, <2>10, <3>1, EndSteps
        <4> QED
          BY <1>1, <2>7, <3>2, <4>1
      <3>4. ReadTo(l, models', d)
        <4>1. \A x \in (b + 1)..d : ~Listed(l, x)
          BY <1>1, <2>8, <2>9, <2>10, <3>1
        <4>2. d \in Nat /\ b <= d
          BY <1>1, <3>1
        <4> QED
          BY <1>1, <2>7, <4>1, <4>2, ReadNothing
      <3>5. Clear(l, d)
        <4>1. \A a \in 1..d : a \in 1..b \/ a \in (b + 1)..(d - 1) \/ a = d
          BY <1>1, <3>1
        <4>2. \A a \in 1..d : l[a] # "brace"
          BY <2>1, <3>1, <4>1 DEF Clear, NoObjects
        <4>3. \A a \in 1..d : l[a] = "noise" => d \in (a + 1)..d
          BY <3>1
        <4> QED
          BY <3>1, <4>2, <4>3 DEF Clear
      <3> QED
        BY <3>1, <3>3, <3>4, <3>5
    <2>11. CASE ~(d <= Len(l) /\ l[d] # "brace")
      <3>1. i' = whole + 1
        <4>1. ObjectEnd(i + 1) = whole
          BY <2>2, <2>11
        <4> QED
          BY <1>1, <1>2, <2>7, <4>1
      <3>2. \A x \in (b + 1)..Len(l) : ~Listed(l, x)
        <4> SUFFICES ASSUME NEW x \in (b + 1)..Len(l), Listed(l, x) PROVE FALSE
          OBVIOUS
        <4>1. d \in Nat /\ ~(x \in (b + 1)..(d - 1)) /\ x # d
          BY <1>1, <2>1, <2>8, <2>9
        <4>2. d <= Len(l) /\ d \in 1..(x - 1)
          BY <1>1, <2>1, <4>1
        <4>3. l[d] = "brace"
          BY <2>11, <4>2
        <4> QED
          BY <4>2, <4>3 DEF Listed, Clear
      <3>3. ReadTo(l, models', Len(l))
        BY <1>1, <2>7, <3>2, ReadNothing
      <3> QED
        BY <1>1, <3>1, <3>3
    <2> QED
      BY <2>10, <2>11
  <1> QED
    BY <1>2, <1>3, <1>4, <1>5 DEF Blocks, Objects

\* Before the listing is read nothing is listed; the loop is at the first line of
\* a block, has listed what it should of those before, and is not inside an object.
ListShape ==
    /\ input \in Inputs
    /\ stage \in {"binary", "config", "strip", "models"} => models = <<>>
    /\ stage = "list" =>
          \E b \in 0..Len(input.listing) :
              /\ i = End(input.listing, b) + 1 /\ ReadTo(input.listing, models, b)
              /\ b = Len(input.listing) \/ Clear(input.listing, b)

\* Nothing is listed at the start.
LEMMA InitList == DiagnosticsInit => ListShape
  BY DEF DiagnosticsInit, ListShape

\* Every step keeps the listing as read as it should be.
LEMMA NextList == ListShape /\ [DiagnosticsNext]_reportVars => ListShape'
  <1> SUFFICES ASSUME ListShape, [DiagnosticsNext]_reportVars PROVE ListShape'
    OBVIOUS
  <1>1. input.listing \in Listings /\ Len(input.listing) \in Nat
    BY ListingType, CountType DEF ListShape
  <1>2. CASE UNCHANGED reportVars
    BY <1>2 DEF reportVars, ListShape
  <1>3. CASE InspectBinary \/ InspectConfig \/ StripComments \/ ParseConfig
    BY <1>3 DEF InspectBinary, InspectConfig, StripComments, ParseConfig, ListShape
  <1>4. CASE InspectModels
    <2>1. CASE stage' # "list"
      BY <1>4, <2>1 DEF InspectModels, ListShape
    <2>2. CASE stage' = "list"
      <3>1. i' = 1 /\ models' = <<>> /\ input' = input
        BY <1>4 DEF InspectModels, ListShape
      <3>2. End(input.listing, 0) + 1 = 1 /\ 0 \in 0..Len(input.listing)
        BY <1>1, EndSteps
      <3>3. ReadTo(input.listing, <<>>, 0) /\ Clear(input.listing, 0)
        BY DEF ReadTo, Clear
      <3> QED
        BY <1>1, <2>2, <3>1, <3>2, <3>3 DEF ListShape
    <2> QED
      BY <2>1, <2>2
  <1>5. CASE ListModel
    <2>1. PICK b \in 0..Len(input.listing) :
              /\ i = End(input.listing, b) + 1 /\ ReadTo(input.listing, models, b)
              /\ b = Len(input.listing) \/ Clear(input.listing, b)
      BY <1>5 DEF ListModel, ListShape
    <2>2. b # Len(input.listing)
      <3>1. Len(Lines) = End(input.listing, Len(input.listing)) /\ Len(Lines) \in Nat
        BY <1>1, LinesAre, CountType
      <3> QED
        BY <1>5, <2>1, <3>1 DEF ListModel
    <2>3. \E d \in (b + 1)..Len(input.listing) :
              /\ i' = End(input.listing, d) + 1 /\ ReadTo(input.listing, models', d)
              /\ d = Len(input.listing) \/ Clear(input.listing, d)
      <3>1. b \in 0..(Len(input.listing) - 1)
        BY <1>1, <2>2
      <3> QED
        BY <1>1, <1>5, <2>1, <2>2, <3>1, BlockListed
    <2>4. input' = input /\ stage' = "list"
      BY <1>5 DEF ListModel
    <2> QED
      BY <1>1, <2>3, <2>4 DEF ListShape
  <1>6. CASE EndListing \/ FunctionalTest
    BY <1>6 DEF EndListing, FunctionalTest, ListShape
  <1> QED
    BY <1>2, <1>3, <1>4, <1>5, <1>6 DEF DiagnosticsNext

\* For listings of any length, what is listed is exactly what can be.
THEOREM ListingCompleteHolds == DiagnosticsSpec => []ListingComplete
  <1>1. ListShape => ListingComplete
    <2> SUFFICES ASSUME ListShape, stage = "list", i > Len(Lines)
                 PROVE  /\ {models[k] : k \in DOMAIN models} =
                               {b \in DOMAIN input.listing : Listed(input.listing, b)}
                        /\ \A j, k \in DOMAIN models : j < k => models[j] < models[k]
      BY DEF ListingComplete
    <2> DEFINE l == input.listing
    <2>1. l \in Listings /\ Len(l) \in Nat /\ DOMAIN l = 1..Len(l)
      BY ListingType, CountType DEF ListShape, Listings
    <2>2. PICK b \in 0..Len(l) : i = End(l, b) + 1 /\ ReadTo(l, models, b)
      BY DEF ListShape
    <2>3. b = Len(l)
      <3> SUFFICES ASSUME b # Len(l) PROVE FALSE
        OBVIOUS
      <3>1. b + 1 \in 1..Len(l) /\ (b + 1) - 1 = b /\ b + 1 \in 0..Len(l)
        BY <2>1
      <3>2. End(l, b) < End(l, b + 1) /\ End(l, b + 1) <= Len(Lines) /\ End(l, b) \in Nat
            /\ End(l, b + 1) \in Nat /\ Len(Lines) \in Nat
        BY <2>1, <3>1, EndSteps, CountType, LinesAre
      <3> QED
        BY <2>2, <3>2
    <2> QED
      BY <2>1, <2>2, <2>3 DEF ReadTo
  <1> QED
    BY <1>1, InitList, NextList, PTL DEF DiagnosticsSpec
================================================================================
