------------------------- MODULE RuntimeBrokerProofs --------------------------
(* Proofs about RuntimeBroker for any set of threads, any limits, any number *)
(* of processes and of crashes.                                              *)
EXTENDS RuntimeBroker, FiniteSetTheorems, TLAPS

-----------------------------------------------------------------------------
(* Types.                                                                   *)

\* The initial state is well typed.
LEMMA TypeInit == Init => TypeOK
  BY BrokerLimitAssumption DEF Init, TypeOK, Ids, Ports, NoId

\* Every action keeps every variable within its type.
LEMMA TypeStep == TypeOK /\ [Next]_vars => TypeOK'
  <1> SUFFICES ASSUME TypeOK, [Next]_vars PROVE TypeOK'
    OBVIOUS
  <1> USE DEF TypeOK, Alive, Critical, ReadyRows, processVars, threadVars, heartbeatVars, bootVars
  <1>1. ASSUME NEW w \in Threads, Enter(w) PROVE TypeOK'
    BY <1>1 DEF Enter, Goto, LockFree
  <1>2. ASSUME NEW w \in Threads, ReuseRuntime(w) PROVE TypeOK'
    BY <1>2 DEF ReuseRuntime, Leave, First
  <1>3. ASSUME NEW w \in Threads, SkipRuntime(w) PROVE TypeOK'
    BY <1>3 DEF SkipRuntime
  <1>4. ASSUME NEW w \in Threads, GiveUp(w) PROVE TypeOK'
    BY <1>4 DEF GiveUp, Leave
  <1>5. ASSUME NEW w \in Threads, Spawn(w) PROVE TypeOK'
    BY <1>5 DEF Spawn, Goto, Fresh
  <1>6. ASSUME NEW w \in Threads, InsertRow(w) PROVE TypeOK'
    BY <1>6 DEF InsertRow, Goto, InitialStatus
  <1>7. ASSUME NEW w \in Threads, WaitReady(w) PROVE TypeOK'
    BY <1>7 DEF WaitReady, Goto
  <1>8. ASSUME NEW w \in Threads, WaitFailed(w) PROVE TypeOK'
    BY <1>8 DEF WaitFailed, Goto
  <1>9. ASSUME NEW w \in Threads, KillStale(w) PROVE TypeOK'
    BY <1>9 DEF KillStale, Leave, Terminated
  <1>10. ASSUME NEW w \in Threads, MarkReady(w) PROVE TypeOK'
    BY <1>10 DEF MarkReady, Goto
  <1>11. ASSUME NEW w \in Threads, Lookup(w) PROVE TypeOK'
    BY <1>11 DEF Lookup, Leave, First, SameEndpoint
  <1>12. CASE HeartbeatBegin
    BY <1>12 DEF HeartbeatBegin, HeartbeatIdle
  <1>13. CASE HeartbeatPass
    BY <1>13 DEF HeartbeatPass
  <1>14. CASE HeartbeatKill
    BY <1>14 DEF HeartbeatKill, Terminated
  <1>15. CASE HeartbeatStop
    BY <1>15 DEF HeartbeatStop
  <1>16. ASSUME NEW i \in Ids, Bind(i) PROVE TypeOK'
    BY <1>16 DEF Bind
  <1>17. ASSUME NEW i \in Ids, Exit(i) PROVE TypeOK'
    BY <1>17 DEF Exit
  <1>18. CASE Crash
    BY <1>18 DEF Crash
  <1>19. CASE Restart
    BY <1>19 DEF Restart
  <1>20. CASE StartServing
    BY <1>20 DEF StartServing, HeartbeatIdle
  <1>21. CASE UNCHANGED vars
    BY <1>21 DEF vars
  <1>22. ASSUME NEW w \in Threads, QueryRaises(w) PROVE TypeOK'
    BY <1>22 DEF QueryRaises, Leave
  <1>23. ASSUME NEW w \in Threads, StartRaises(w) PROVE TypeOK'
    BY <1>23 DEF StartRaises, Starting, Leave
  <1>24. CASE HeartbeatRaises
    BY <1>24 DEF HeartbeatRaises
  <1> QED
    BY <1>1, <1>2, <1>3, <1>4, <1>5, <1>6, <1>7, <1>8, <1>9, <1>10, <1>11, <1>12, <1>13, <1>14, <1>15, <1>16, <1>17, <1>18, <1>19, <1>20, <1>21, <1>22, <1>23, <1>24 DEF Next, AcquireStep, Proceed, HeartbeatStep

\* Every variable of the broker keeps its type, in every behaviour.
THEOREM TypeCorrect == Spec => []TypeOK
  BY TypeInit, TypeStep, PTL DEF Spec

-----------------------------------------------------------------------------
(* The inductive invariant: the lock is needed to know that nobody else      *)
(* writes the row an acquire is starting, and the heartbeat's list is needed  *)
(* to know that it only stops rows that have left the hands of acquire.       *)

\* Between spawn and return the thread's own row goes none, starting, ready or stale.
OwnRow ==
    \A w \in Threads :
        /\ pc[w] \in {"spawned", "waiting", "killing", "marking", "lookup"} => mine[w] \in Ids
        /\ pc[w] = "spawned" => row[mine[w]] = "none"
        /\ pc[w] \in {"waiting", "marking"} => row[mine[w]] = "starting"
        /\ pc[w] = "killing" => row[mine[w]] = "stale"

\* A number whose process was never spawned has no row and no owner.
FreshRow ==
    \A i \in Ids : proc[i] = "none" => row[i] = "none" /\ \A w \in Threads : mine[w] # i

\* The heartbeat works on ready rows, and has signalled its victim.
HeartbeatRows ==
    /\ \A i \in hbTodo : row[i] = "ready"
    /\ hbVictim # NoId =>
        hbVictim \notin hbTodo /\ row[hbVictim] = "ready" /\ proc[hbVictim] \notin Alive
    /\ boot = "down" => HeartbeatIdle

IInv == TypeOK /\ LockExclusive /\ OwnRow /\ FreshRow /\ HeartbeatRows /\ StoppedIsKilled

\* The initial state, with no row and no process, satisfies the invariant.
LEMMA IInvInit == Init => IInv
  BY TypeInit DEF Init, IInv, TypeOK, LockExclusive, OwnRow, FreshRow, HeartbeatRows, StoppedIsKilled, HeartbeatIdle, Critical, Alive, NoId, Ids

\* Every action keeps the inductive invariant.
LEMMA IInvStep == IInv /\ [Next]_vars => IInv'
  <1> DEFINE Shape == LockExclusive /\ OwnRow /\ FreshRow /\ HeartbeatRows /\ StoppedIsKilled
  <1> SUFFICES ASSUME IInv, [Next]_vars PROVE Shape'
    BY TypeStep DEF IInv
  <1>0. TypeOK' /\ NoId \notin Ids
    BY TypeStep DEF IInv, NoId, Ids
  <1> USE <1>0, ThreadAssumption DEF IInv, TypeOK, LockExclusive, OwnRow, FreshRow, HeartbeatRows, HeartbeatIdle, StoppedIsKilled, Alive, Critical, ReadyRows, processVars, threadVars, heartbeatVars, bootVars
  <1>1. ASSUME NEW w \in Threads, Enter(w) PROVE Shape'
    BY <1>1 DEF Enter, Goto, LockFree
  <1>2. ASSUME NEW w \in Threads, ReuseRuntime(w) PROVE Shape'
    BY <1>2 DEF ReuseRuntime, Leave, First
  <1>3. ASSUME NEW w \in Threads, SkipRuntime(w) PROVE Shape'
    BY <1>3 DEF SkipRuntime
  <1>4. ASSUME NEW w \in Threads, GiveUp(w) PROVE Shape'
    BY <1>4 DEF GiveUp, Leave
  <1>5. ASSUME NEW w \in Threads, Spawn(w) PROVE Shape'
    BY <1>5 DEF Spawn, Goto, Fresh
  <1>6. ASSUME NEW w \in Threads, InsertRow(w) PROVE Shape'
    BY <1>6 DEF InsertRow, Goto, InitialStatus
  <1>7. ASSUME NEW w \in Threads, WaitReady(w) PROVE Shape'
    BY <1>7 DEF WaitReady, Goto
  <1>8. ASSUME NEW w \in Threads, WaitFailed(w) PROVE Shape'
    BY <1>8 DEF WaitFailed, Goto
  <1>9. ASSUME NEW w \in Threads, KillStale(w) PROVE Shape'
    BY <1>9 DEF KillStale, Leave, Terminated
  <1>10. ASSUME NEW w \in Threads, MarkReady(w) PROVE Shape'
    BY <1>10 DEF MarkReady, Goto
  <1>11. ASSUME NEW w \in Threads, Lookup(w) PROVE Shape'
    BY <1>11 DEF Lookup, Leave, First, SameEndpoint
  <1>12. CASE HeartbeatBegin
    BY <1>12 DEF HeartbeatBegin, HeartbeatIdle
  <1>13. CASE HeartbeatPass
    BY <1>13 DEF HeartbeatPass
  <1>14. CASE HeartbeatKill
    BY <1>14 DEF HeartbeatKill, Terminated
  <1>15. CASE HeartbeatStop
    BY <1>15 DEF HeartbeatStop
  <1>16. ASSUME NEW i \in Ids, Bind(i) PROVE Shape'
    BY <1>16 DEF Bind
  <1>17. ASSUME NEW i \in Ids, Exit(i) PROVE Shape'
    BY <1>17 DEF Exit
  <1>18. CASE Crash
    BY <1>18 DEF Crash
  <1>19. CASE Restart
    BY <1>19 DEF Restart
  <1>20. CASE StartServing
    BY <1>20 DEF StartServing, HeartbeatIdle
  <1>21. CASE UNCHANGED vars
    BY <1>21 DEF vars
  <1>22. ASSUME NEW w \in Threads, QueryRaises(w) PROVE Shape'
    BY <1>22 DEF QueryRaises, Leave
  <1>23. ASSUME NEW w \in Threads, StartRaises(w) PROVE Shape'
    BY <1>23 DEF StartRaises, Starting, Leave
  <1>24. CASE HeartbeatRaises
    BY <1>24 DEF HeartbeatRaises
  <1> QED
    BY <1>1, <1>2, <1>3, <1>4, <1>5, <1>6, <1>7, <1>8, <1>9, <1>10, <1>11, <1>12, <1>13, <1>14, <1>15, <1>16, <1>17, <1>18, <1>19, <1>20, <1>21, <1>22, <1>23, <1>24 DEF Next, AcquireStep, Proceed, HeartbeatStep

\* The inductive invariant holds in every reachable state.
THEOREM Invariant == Spec => []IInv
  BY IInvInit, IInvStep, PTL DEF Spec

\* Two threads are never both past the acquisition of _lock.
THEOREM LockExclusiveHolds == Spec => []LockExclusive
  BY Invariant, PTL DEF IInv

\* The process of a stopped row was signalled or is dead.
THEOREM StoppedIsKilledHolds == Spec => []StoppedIsKilled
  BY Invariant, PTL DEF IInv

-----------------------------------------------------------------------------
(* The limit on ready runtimes.                                             *)

\* From the check of the limit to mark_ready the number of ready rows stays below
\* it: only this thread adds one, because it holds the lock.
RoomForOne ==
    \A w \in Threads : pc[w] \in {"spawned", "waiting", "marking"} => BelowLimit

LimitInv == AtMostMaxReady /\ RoomForOne

\* Counting ready rows: fewer rows are not more, one more row is one more.
LEMMA ReadyCount ==
  ASSUME NEW S \in SUBSET Ids, NEW T \in SUBSET Ids, NEW i
  PROVE  /\ Cardinality(S) \in Nat
         /\ T \subseteq S => Cardinality(T) <= Cardinality(S)
         /\ T \subseteq S \cup {i} => Cardinality(T) <= Cardinality(S) + 1
  <1>1. IsFiniteSet(Ids)
    BY FS_Interval, BrokerLimitAssumption DEF Ids
  <1>2. IsFiniteSet(S) /\ IsFiniteSet(S \cup {i})
    BY <1>1, FS_Subset, FS_AddElement
  <1>3. Cardinality(S) \in Nat /\ Cardinality(S \cup {i}) <= Cardinality(S) + 1
    BY <1>2, FS_CardinalityType, FS_AddElement
  <1>4. T \subseteq S => Cardinality(T) <= Cardinality(S)
    BY <1>2, FS_Subset
  <1>5. T \subseteq S \cup {i} => Cardinality(T) <= Cardinality(S \cup {i}) /\ Cardinality(T) \in Nat
    BY <1>2, FS_Subset, FS_CardinalityType
  <1>6. Cardinality(S \cup {i}) \in Nat
    BY <1>2, FS_CardinalityType
  <1> QED
    BY <1>3, <1>4, <1>5, <1>6

\* mark_ready is the only step that adds a ready row, and it adds one.
LEMMA ReadyGrowth ==
  ASSUME IInv, [Next]_vars
  PROVE  \/ ReadyRows' \subseteq ReadyRows
         \/ \E w \in Threads :
               MarkReady(w) /\ mine[w] \in Ids /\ ReadyRows' \subseteq ReadyRows \cup {mine[w]}
  <1> DEFINE G == \/ ReadyRows' \subseteq ReadyRows
                  \/ \E w \in Threads :
                        MarkReady(w) /\ mine[w] \in Ids /\ ReadyRows' \subseteq ReadyRows \cup {mine[w]}
  <1> SUFFICES G
    OBVIOUS
  <1> USE DEF IInv, TypeOK, OwnRow, ReadyRows, processVars, threadVars, heartbeatVars, bootVars
  <1>1. ASSUME NEW w \in Threads, Enter(w) PROVE G
    BY <1>1 DEF Enter, Goto, LockFree
  <1>2. ASSUME NEW w \in Threads, ReuseRuntime(w) PROVE G
    BY <1>2 DEF ReuseRuntime, Leave, First
  <1>3. ASSUME NEW w \in Threads, SkipRuntime(w) PROVE G
    BY <1>3 DEF SkipRuntime
  <1>4. ASSUME NEW w \in Threads, GiveUp(w) PROVE G
    BY <1>4 DEF GiveUp, Leave
  <1>5. ASSUME NEW w \in Threads, Spawn(w) PROVE G
    BY <1>5 DEF Spawn, Goto, Fresh
  <1>6. ASSUME NEW w \in Threads, InsertRow(w) PROVE G
    BY <1>6 DEF InsertRow, Goto, InitialStatus
  <1>7. ASSUME NEW w \in Threads, WaitReady(w) PROVE G
    BY <1>7 DEF WaitReady, Goto
  <1>8. ASSUME NEW w \in Threads, WaitFailed(w) PROVE G
    BY <1>8 DEF WaitFailed, Goto
  <1>9. ASSUME NEW w \in Threads, KillStale(w) PROVE G
    BY <1>9 DEF KillStale, Leave, Terminated
  <1>10. ASSUME NEW w \in Threads, MarkReady(w) PROVE G
    BY <1>10 DEF MarkReady
  <1>11. ASSUME NEW w \in Threads, Lookup(w) PROVE G
    BY <1>11 DEF Lookup, Leave, First, SameEndpoint
  <1>12. CASE HeartbeatBegin
    BY <1>12 DEF HeartbeatBegin, HeartbeatIdle
  <1>13. CASE HeartbeatPass
    BY <1>13 DEF HeartbeatPass
  <1>14. CASE HeartbeatKill
    BY <1>14 DEF HeartbeatKill, Terminated
  <1>15. CASE HeartbeatStop
    BY <1>15 DEF HeartbeatStop
  <1>16. ASSUME NEW i \in Ids, Bind(i) PROVE G
    BY <1>16 DEF Bind
  <1>17. ASSUME NEW i \in Ids, Exit(i) PROVE G
    BY <1>17 DEF Exit
  <1>18. CASE Crash
    BY <1>18 DEF Crash
  <1>19. CASE Restart
    BY <1>19 DEF Restart
  <1>20. CASE StartServing
    BY <1>20 DEF StartServing, HeartbeatIdle
  <1>21. CASE UNCHANGED vars
    BY <1>21 DEF vars
  <1>22. ASSUME NEW w \in Threads, QueryRaises(w) PROVE G
    BY <1>22 DEF QueryRaises, Leave
  <1>23. ASSUME NEW w \in Threads, StartRaises(w) PROVE G
    BY <1>23 DEF StartRaises, Starting, Leave
  <1>24. CASE HeartbeatRaises
    BY <1>24 DEF HeartbeatRaises
  <1> QED
    BY <1>1, <1>2, <1>3, <1>4, <1>5, <1>6, <1>7, <1>8, <1>9, <1>10, <1>11, <1>12, <1>13, <1>14, <1>15, <1>16, <1>17, <1>18, <1>19, <1>20, <1>21, <1>22, <1>23, <1>24 DEF Next, AcquireStep, Proceed, HeartbeatStep

\* A thread starts a runtime only after it saw room for one.
LEMMA RoomChecked ==
  ASSUME TypeOK, [Next]_vars, NEW v \in Threads, pc'[v] \in {"spawned", "waiting", "marking"}
  PROVE  pc[v] \in {"spawned", "waiting", "marking"} \/ BelowLimit
  <1> DEFINE G == pc[v] \in {"spawned", "waiting", "marking"} \/ BelowLimit
  <1> SUFFICES G
    OBVIOUS
  <1> USE DEF TypeOK, threadVars
  <1>1. ASSUME NEW w \in Threads, Enter(w) PROVE G
    BY <1>1 DEF Enter, Goto, LockFree
  <1>2. ASSUME NEW w \in Threads, ReuseRuntime(w) PROVE G
    BY <1>2 DEF ReuseRuntime, Leave, First
  <1>3. ASSUME NEW w \in Threads, SkipRuntime(w) PROVE G
    BY <1>3 DEF SkipRuntime
  <1>4. ASSUME NEW w \in Threads, GiveUp(w) PROVE G
    BY <1>4 DEF GiveUp, Leave
  <1>5. ASSUME NEW w \in Threads, Spawn(w) PROVE G
    BY <1>5 DEF Spawn, Goto, Fresh
  <1>6. ASSUME NEW w \in Threads, InsertRow(w) PROVE G
    BY <1>6 DEF InsertRow, Goto, InitialStatus
  <1>7. ASSUME NEW w \in Threads, WaitReady(w) PROVE G
    BY <1>7 DEF WaitReady, Goto
  <1>8. ASSUME NEW w \in Threads, WaitFailed(w) PROVE G
    BY <1>8 DEF WaitFailed, Goto
  <1>9. ASSUME NEW w \in Threads, KillStale(w) PROVE G
    BY <1>9 DEF KillStale, Leave, Terminated
  <1>10. ASSUME NEW w \in Threads, MarkReady(w) PROVE G
    BY <1>10 DEF MarkReady, Goto
  <1>11. ASSUME NEW w \in Threads, Lookup(w) PROVE G
    BY <1>11 DEF Lookup, Leave, First, SameEndpoint
  <1>12. CASE HeartbeatBegin
    BY <1>12 DEF HeartbeatBegin, HeartbeatIdle
  <1>13. CASE HeartbeatPass
    BY <1>13 DEF HeartbeatPass
  <1>14. CASE HeartbeatKill
    BY <1>14 DEF HeartbeatKill, Terminated
  <1>15. CASE HeartbeatStop
    BY <1>15 DEF HeartbeatStop
  <1>16. ASSUME NEW i \in Ids, Bind(i) PROVE G
    BY <1>16 DEF Bind
  <1>17. ASSUME NEW i \in Ids, Exit(i) PROVE G
    BY <1>17 DEF Exit
  <1>18. CASE Crash
    BY <1>18 DEF Crash
  <1>19. CASE Restart
    BY <1>19 DEF Restart
  <1>20. CASE StartServing
    BY <1>20 DEF StartServing, HeartbeatIdle
  <1>21. CASE UNCHANGED vars
    BY <1>21 DEF vars
  <1>22. ASSUME NEW w \in Threads, QueryRaises(w) PROVE G
    BY <1>22 DEF QueryRaises, Leave
  <1>23. ASSUME NEW w \in Threads, StartRaises(w) PROVE G
    BY <1>23 DEF StartRaises, Starting, Leave
  <1>24. CASE HeartbeatRaises
    BY <1>24 DEF HeartbeatRaises
  <1> QED
    BY <1>1, <1>2, <1>3, <1>4, <1>5, <1>6, <1>7, <1>8, <1>9, <1>10, <1>11, <1>12, <1>13, <1>14, <1>15, <1>16, <1>17, <1>18, <1>19, <1>20, <1>21, <1>22, <1>23, <1>24 DEF Next, AcquireStep, Proceed, HeartbeatStep
\* Every action keeps the number of ready rows within the limit.
LEMMA LimitStep == IInv /\ LimitInv /\ [Next]_vars => LimitInv'
  <1> SUFFICES ASSUME IInv, LimitInv, [Next]_vars PROVE LimitInv'
    OBVIOUS
  <1>0. IInv' /\ MaxManaged \in Nat /\ ReadyRows \in SUBSET Ids /\ ReadyRows' \in SUBSET Ids
    BY IInvStep, BrokerLimitAssumption DEF ReadyRows
  <1>1. CASE \E w \in Threads :
               MarkReady(w) /\ mine[w] \in Ids /\ ReadyRows' \subseteq ReadyRows \cup {mine[w]}
    <2> PICK w \in Threads :
               MarkReady(w) /\ mine[w] \in Ids /\ ReadyRows' \subseteq ReadyRows \cup {mine[w]}
      BY <1>1
    <2>1. BelowLimit /\ lock = w /\ pc'[w] = "lookup" /\ lock' = w
      BY DEF MarkReady, Goto, LimitInv, RoomForOne, IInv, LockExclusive, Critical, TypeOK
    <2>2. AtMostMaxReady'
      BY <1>0, <2>1, ReadyCount DEF BelowLimit, AtMostMaxReady
    <2>3. RoomForOne'
      BY <1>0, <2>1 DEF RoomForOne, IInv, LockExclusive, Critical
    <2> QED
      BY <2>2, <2>3 DEF LimitInv
  <1>2. CASE ReadyRows' \subseteq ReadyRows
    <2>1. /\ Cardinality(ReadyRows') \in Nat /\ Cardinality(ReadyRows) \in Nat
          /\ Cardinality(ReadyRows') <= Cardinality(ReadyRows)
      BY <1>0, <1>2, ReadyCount
    <2>2. AtMostMaxReady' /\ (BelowLimit => BelowLimit')
      BY <1>0, <2>1 DEF LimitInv, AtMostMaxReady, BelowLimit
    <2> QED
      BY <2>2, RoomChecked DEF LimitInv, RoomForOne, IInv
  <1> QED
    BY <1>1, <1>2, ReadyGrowth

\* At most MAX_MANAGED runtimes are ready at any time.
THEOREM AtMostMaxReadyHolds == Spec => []AtMostMaxReady
  <1>1. Init => LimitInv
    <2> SUFFICES ASSUME Init PROVE LimitInv
      OBVIOUS
    <2>1. ReadyRows = {}
      BY DEF Init, ReadyRows
    <2> QED
      BY <2>1, FS_EmptySet, BrokerLimitAssumption DEF Init, LimitInv, AtMostMaxReady, RoomForOne
  <1>2. LimitInv => AtMostMaxReady
    BY DEF LimitInv
  <1> QED
    BY <1>1, <1>2, LimitStep, Invariant, PTL DEF Spec

-----------------------------------------------------------------------------
(* Nothing the broker started is forgotten.                                 *)

\* A start is interrupted by a crash or by a database error.
Interruption == Crash \/ \E w \in Threads : StartRaises(w)

\* A runtime is forgotten in an interruption only, and then it is the one the holder
\* of the lock was starting: IInv ties a thread's place to the status of its row, and
\* the heartbeat to rows that are ready.
LEMMA ForgottenStep ==
  ASSUME IInv, [Next]_vars, NEW k \in Ids, k \in Forgotten'
  PROVE  k \in Forgotten \/ (Interruption /\ k = mine[lock])
  <1> DEFINE Remembered == k \in Forgotten \/ (Interruption /\ k = mine[lock])
  <1> SUFFICES Remembered
    OBVIOUS
  <1> USE DEF IInv, TypeOK, LockExclusive, OwnRow, FreshRow, HeartbeatRows, StoppedIsKilled, Forgotten, Alive, Critical, Starting, processVars, threadVars, heartbeatVars, bootVars
  <1>1. ASSUME NEW w \in Threads, Enter(w) PROVE Remembered
    BY <1>1 DEF Enter, Goto, LockFree
  <1>2. ASSUME NEW w \in Threads, ReuseRuntime(w) PROVE Remembered
    BY <1>2 DEF ReuseRuntime, Leave, First
  <1>3. ASSUME NEW w \in Threads, SkipRuntime(w) PROVE Remembered
    BY <1>3 DEF SkipRuntime
  <1>4. ASSUME NEW w \in Threads, GiveUp(w) PROVE Remembered
    BY <1>4 DEF GiveUp, Leave
  <1>5. ASSUME NEW w \in Threads, Spawn(w) PROVE Remembered
    BY <1>5 DEF Spawn, Goto, Fresh
  <1>6. ASSUME NEW w \in Threads, InsertRow(w) PROVE Remembered
    BY <1>6 DEF InsertRow, Goto, InitialStatus
  <1>7. ASSUME NEW w \in Threads, WaitReady(w) PROVE Remembered
    BY <1>7 DEF WaitReady, Goto
  <1>8. ASSUME NEW w \in Threads, WaitFailed(w) PROVE Remembered
    BY <1>8 DEF WaitFailed, Goto
  <1>9. ASSUME NEW w \in Threads, KillStale(w) PROVE Remembered
    BY <1>9 DEF KillStale, Leave, Terminated
  <1>10. ASSUME NEW w \in Threads, MarkReady(w) PROVE Remembered
    BY <1>10 DEF MarkReady, Goto
  <1>11. ASSUME NEW w \in Threads, Lookup(w) PROVE Remembered
    BY <1>11 DEF Lookup, Leave, First, SameEndpoint
  <1>12. CASE HeartbeatBegin
    BY <1>12 DEF HeartbeatBegin, HeartbeatIdle
  <1>13. CASE HeartbeatPass
    BY <1>13 DEF HeartbeatPass
  <1>14. CASE HeartbeatKill
    BY <1>14 DEF HeartbeatKill, Terminated
  <1>15. CASE HeartbeatStop
    BY <1>15 DEF HeartbeatStop
  <1>16. ASSUME NEW i \in Ids, Bind(i) PROVE Remembered
    BY <1>16 DEF Bind
  <1>17. ASSUME NEW i \in Ids, Exit(i) PROVE Remembered
    BY <1>17 DEF Exit
  <1>18. CASE Crash
    BY <1>18 DEF Crash, Interruption
  <1>19. CASE Restart
    BY <1>19 DEF Restart
  <1>20. CASE StartServing
    BY <1>20 DEF StartServing, HeartbeatIdle
  <1>21. CASE UNCHANGED vars
    BY <1>21 DEF vars
  <1>22. ASSUME NEW w \in Threads, QueryRaises(w) PROVE Remembered
    BY <1>22 DEF QueryRaises, Leave
  <1>23. ASSUME NEW w \in Threads, StartRaises(w) PROVE Remembered
    BY <1>23 DEF StartRaises, Leave, Interruption
  <1>24. CASE HeartbeatRaises
    BY <1>24 DEF HeartbeatRaises
  <1> QED
    BY <1>1, <1>2, <1>3, <1>4, <1>5, <1>6, <1>7, <1>8, <1>9, <1>10, <1>11, <1>12, <1>13, <1>14, <1>15, <1>16, <1>17, <1>18, <1>19, <1>20, <1>21, <1>22, <1>23, <1>24 DEF Next, AcquireStep, Proceed, HeartbeatStep

\* The two counters count interruptions, one at a time.
LEMMA InterruptionCounted ==
  ASSUME TypeOK, [Next]_vars
  PROVE  IF Interruption THEN crashes' + faults' = crashes + faults + 1
         ELSE crashes' = crashes /\ faults' = faults
  <1> DEFINE G == IF Interruption THEN crashes' + faults' = crashes + faults + 1
                  ELSE crashes' = crashes /\ faults' = faults
  <1> SUFFICES G
    OBVIOUS
  <1> USE DEF TypeOK, bootVars, Interruption
  <1>1. CASE Crash
    BY <1>1 DEF Crash
  <1>2. CASE \E w \in Threads : StartRaises(w)
    BY <1>2 DEF StartRaises
  <1>3. CASE crashes' = crashes /\ faults' = faults
    BY <1>3 DEF Crash, StartRaises
  <1>4. ASSUME NEW w \in Threads, Enter(w) \/ AcquireStep(w) PROVE G
    <2>1. StartRaises(w) \/ (crashes' = crashes /\ faults' = faults)
      BY <1>4 DEF Enter, AcquireStep, Proceed, ReuseRuntime, SkipRuntime, GiveUp, Spawn, InsertRow, WaitReady, WaitFailed, KillStale, MarkReady, Lookup, QueryRaises
    <2> QED
      BY <1>2, <1>3, <2>1
  <1>5. CASE HeartbeatBegin \/ HeartbeatStep \/ Restart \/ StartServing
    BY <1>3, <1>5 DEF HeartbeatBegin, HeartbeatStep, HeartbeatPass, HeartbeatKill, HeartbeatStop, HeartbeatRaises, Restart, StartServing
  <1>6. ASSUME NEW i \in Ids, Bind(i) \/ Exit(i) PROVE G
    BY <1>3, <1>6 DEF Bind, Exit
  <1>7. CASE UNCHANGED vars
    BY <1>3, <1>7 DEF vars
  <1> QED
    BY <1>1, <1>4, <1>5, <1>6, <1>7 DEF Next

\* Every step keeps the number of forgotten runtimes within the interruptions.
LEMMA ForgottenCount == IInv /\ ForgottenBounded /\ [Next]_vars => ForgottenBounded'
  <1> SUFFICES ASSUME IInv, ForgottenBounded, [Next]_vars PROVE ForgottenBounded'
    OBVIOUS
  <1>0. crashes \in Nat /\ faults \in Nat /\ crashes' \in Nat /\ faults' \in Nat
    BY IInvStep DEF IInv, TypeOK
  <1>1. Forgotten \in SUBSET Ids /\ Forgotten' \in SUBSET Ids
    BY DEF Forgotten
  <1>2. Cardinality(Forgotten) \in Nat /\ Cardinality(Forgotten') \in Nat
    BY <1>1, ReadyCount
  <1>3. CASE Interruption
    <2>1. Forgotten' \subseteq Forgotten \cup {mine[lock]}
      BY <1>1, ForgottenStep
    <2>2. Cardinality(Forgotten') <= Cardinality(Forgotten) + 1
      BY <1>1, <2>1, ReadyCount
    <2>3. crashes' + faults' = crashes + faults + 1
      BY <1>3, InterruptionCounted DEF IInv
    <2>4. Cardinality(Forgotten) <= crashes + faults
      BY DEF ForgottenBounded
    <2>5. Cardinality(Forgotten') <= crashes' + faults'
      <3>1. \A a, b, c, d, e, f \in Nat :
                a <= b + 1 /\ b <= c + d /\ e + f = c + d + 1 => a <= e + f
        OBVIOUS
      <3> QED
        BY <1>0, <1>2, <2>2, <2>3, <2>4, <3>1
    <2> QED
      BY <2>5 DEF ForgottenBounded
  <1>4. CASE ~Interruption
    <2>1. Forgotten' \subseteq Forgotten
      BY <1>1, <1>4, ForgottenStep
    <2>2. Cardinality(Forgotten') <= Cardinality(Forgotten)
      BY <1>1, <2>1, ReadyCount
    <2>3. crashes' = crashes /\ faults' = faults
      BY <1>4, InterruptionCounted DEF IInv
    <2> QED
      BY <1>0, <1>2, <2>2, <2>3 DEF ForgottenBounded
  <1> QED
    BY <1>3, <1>4

\* Each crash and each database error in a start costs the broker at most the one
\* runtime it was starting; nothing else makes it forget a process or a starting row.
THEOREM ForgottenBoundedHolds == Spec => []ForgottenBounded
  <1>1. Init => ForgottenBounded
    <2> SUFFICES ASSUME Init PROVE ForgottenBounded
      OBVIOUS
    <2>1. Forgotten = {}
      BY DEF Init, Forgotten, Alive
    <2> QED
      BY <2>1, FS_EmptySet DEF Init, ForgottenBounded
  <1> QED
    BY <1>1, ForgottenCount, Invariant, PTL DEF Spec

-----------------------------------------------------------------------------
(* The broker implements RuntimePool.                                       *)

\* The initial state is the initial state of the pool.
LEMMA PoolInit == Init => Pool!Init
  BY DEF Init, Pool!Init, Running, Opening, Starting, Alive

\* While a thread holds the lock, what is being started is its own runtime, from
\* the spawn until the row is ready or stale.
LEMMA OpeningIsOwn ==
  ASSUME TypeOK, LockExclusive, NEW w \in Threads, lock = w
  PROVE  /\ pc[w] \in Starting /\ mine[w] \in Ids => Opening = {mine[w]}
         /\ pc[w] \notin Starting => Opening = {}
  BY DEF TypeOK, LockExclusive, Opening, Starting, Critical

\* A step that does not touch rows and processes and moves no thread into or out of
\* starting a runtime is a stutter of the pool.
LEMMA PoolStutter ==
  ASSUME row' = row, Running' = Running, Opening' = Opening
  PROVE  UNCHANGED Pool!poolVars
  BY DEF Pool!poolVars

\* A step that changes the running processes only, and ends one, is a step of the
\* pool or a stutter.
LEMMA PoolEnd ==
  ASSUME NEW i \in Ids, row' = row, Opening' = Opening,
         (Running' = Running) \/ (i \in Running /\ Running' = Running \ {i})
  PROVE  [Pool!Next]_(Pool!poolVars)
  BY DEF Pool!poolVars, Pool!Next, Pool!End

\* SIGTERM takes the process from the running ones, if it was one of them.
LEMMA TerminatedEnds ==
  ASSUME TypeOK, NEW i \in Ids, proc' = Terminated(i)
  PROVE  (Running' = Running) \/ (i \in Running /\ Running' = Running \ {i})
  BY DEF TypeOK, Running, Terminated, Alive

\* Every step of the broker is a step of the pool or a stutter.
LEMMA PoolStep ==
  ASSUME IInv, [Next]_vars
  PROVE  [Pool!Next]_(Pool!poolVars)
  <1> DEFINE P == [Pool!Next]_(Pool!poolVars)
  <1>0. IInv' /\ NoId \notin Ids /\ TypeOK /\ LockExclusive /\ TypeOK' /\ LockExclusive'
    BY IInvStep DEF IInv, NoId, Ids
  <1> USE <1>0 DEF Starting, processVars, threadVars, heartbeatVars, bootVars
  <1>1. ASSUME NEW w \in Threads, Enter(w) PROVE P
    <2>1. Opening' = Opening /\ Running' = Running
      BY <1>1 DEF Enter, Goto, LockFree, Opening, Running, TypeOK
    <2> QED
      BY <1>1, <2>1, PoolStutter DEF Enter
  <1>2. ASSUME NEW w \in Threads, ReuseRuntime(w) PROVE P
    <2>1. Opening' = Opening /\ Running' = Running
      BY <1>2 DEF ReuseRuntime, Leave, Opening, Running, TypeOK
    <2> QED
      BY <1>2, <2>1, PoolStutter DEF ReuseRuntime
  <1>3. ASSUME NEW w \in Threads, SkipRuntime(w) PROVE P
    <2>1. Opening' = Opening /\ Running' = Running
      BY <1>3 DEF SkipRuntime, Opening, Running
    <2> QED
      BY <1>3, <2>1, PoolStutter DEF SkipRuntime
  <1>4. ASSUME NEW w \in Threads, GiveUp(w) PROVE P
    <2>1. Opening' = Opening /\ Running' = Running
      BY <1>4 DEF GiveUp, Leave, Opening, Running, TypeOK
    <2> QED
      BY <1>4, <2>1, PoolStutter DEF GiveUp
  <1>5. ASSUME NEW w \in Threads, Spawn(w) PROVE P
    <2>1. PICK i \in Ids : Fresh(i) /\ proc' = [proc EXCEPT ![i] = "booting"] /\ mine' = [mine EXCEPT ![w] = i]
      BY <1>5 DEF Spawn
    <2>2. lock = w /\ lock' = w /\ pc[w] = "probing" /\ pc'[w] = "spawned" /\ mine'[w] = i /\ row' = row
      BY <1>5, <2>1 DEF Spawn, Goto, LockExclusive, Critical, TypeOK
    <2>3. Opening = {}
      BY <2>2, OpeningIsOwn
    <2>4. Opening' = {i}
      BY <2>2 DEF Opening, LockExclusive, Critical
    <2>5. i \notin Running /\ Running' = Running \cup {i}
      BY <2>1 DEF Running, Alive, Fresh, TypeOK
    <2>6. row[i] = "none"
      BY <2>1 DEF Fresh, IInv, FreshRow
    <2>7. Pool!Cardinality(Pool!ReadyRuntimes) < MaxManaged
      BY <1>5 DEF Spawn, BelowLimit, ReadyRows, Pool!ReadyRuntimes, Cardinality, Pool!Cardinality, IsFiniteSet, Pool!IsFiniteSet
    <2>8. Pool!Launch(i)
      BY <2>2, <2>3, <2>4, <2>5, <2>6, <2>7 DEF Pool!Launch
    <2> QED
      BY <2>8 DEF Pool!Next
  <1>6. ASSUME NEW w \in Threads, InsertRow(w) PROVE P
    <2>1. lock = w /\ mine[w] \in Ids /\ row[mine[w]] = "none"
      BY <1>6 DEF InsertRow, IInv, OwnRow, LockExclusive, Critical
    <2>2. Opening' = Opening /\ Running' = Running
      BY <1>6 DEF InsertRow, Goto, Opening, Running, TypeOK
    <2>3. mine[w] \in Opening
      BY <1>6, <2>1, OpeningIsOwn DEF InsertRow
    <2>4. Pool!Announce(mine[w])
      BY <1>6, <2>1, <2>2, <2>3 DEF InsertRow, InitialStatus, Pool!Announce
    <2> QED
      BY <2>1, <2>4 DEF Pool!Next
  <1>7. ASSUME NEW w \in Threads, WaitReady(w) PROVE P
    <2>1. Opening' = Opening /\ Running' = Running
      BY <1>7 DEF WaitReady, Goto, Opening, Running, TypeOK
    <2> QED
      BY <1>7, <2>1, PoolStutter DEF WaitReady
  <1>8. ASSUME NEW w \in Threads, WaitFailed(w) PROVE P
    <2>1. lock = w /\ lock' = w /\ pc'[w] = "killing" /\ mine[w] \in Ids /\ row[mine[w]] = "starting"
      BY <1>8 DEF WaitFailed, Goto, IInv, OwnRow, LockExclusive, Critical, TypeOK
    <2>2. Opening = {mine[w]}
      BY <1>8, <2>1, OpeningIsOwn DEF WaitFailed
    <2>3. Opening' = {} /\ Running' = Running
      BY <1>8, <2>1 DEF WaitFailed, Opening, Running, LockExclusive, Critical
    <2>4. Pool!Abandon(mine[w])
      BY <1>8, <2>1, <2>2, <2>3 DEF WaitFailed, Pool!Abandon
    <2> QED
      BY <2>1, <2>4 DEF Pool!Next
  <1>9. ASSUME NEW w \in Threads, KillStale(w) PROVE P
    <2>1. mine[w] \in Ids /\ row' = row /\ proc' = Terminated(mine[w])
      BY <1>9 DEF KillStale, IInv, OwnRow
    <2>2. Opening' = Opening
      BY <1>9 DEF KillStale, Leave, Opening, TypeOK
    <2> QED
      BY <2>1, <2>2, TerminatedEnds, PoolEnd
  <1>10. ASSUME NEW w \in Threads, MarkReady(w) PROVE P
    <2>1. lock = w /\ lock' = w /\ pc'[w] = "lookup" /\ mine[w] \in Ids /\ row[mine[w]] = "starting"
      BY <1>10 DEF MarkReady, Goto, IInv, OwnRow, LockExclusive, Critical, TypeOK
    <2>2. Opening = {mine[w]}
      BY <1>10, <2>1, OpeningIsOwn DEF MarkReady
    <2>3. Opening' = {} /\ Running' = Running
      BY <1>10, <2>1 DEF MarkReady, Opening, Running, LockExclusive, Critical
    <2>4. Pool!Open(mine[w])
      BY <1>10, <2>1, <2>2, <2>3 DEF MarkReady, Pool!Open
    <2> QED
      BY <2>1, <2>4 DEF Pool!Next
  <1>11. ASSUME NEW w \in Threads, Lookup(w) PROVE P
    <2>1. Opening' = Opening /\ Running' = Running /\ row' = row
      BY <1>11 DEF Lookup, Leave, Opening, Running, TypeOK
    <2> QED
      BY <2>1, PoolStutter
  <1>12. CASE HeartbeatBegin \/ HeartbeatPass \/ Restart \/ StartServing
    <2>1. row' = row /\ Opening' = Opening /\ Running' = Running
      BY <1>12 DEF HeartbeatBegin, HeartbeatPass, Restart, StartServing, Opening, Running
    <2> QED
      BY <2>1, PoolStutter
  <1>13. CASE HeartbeatKill
    <2>1. PICK i \in Ids : proc' = Terminated(i)
      BY <1>13 DEF HeartbeatKill, TypeOK
    <2>2. row' = row /\ Opening' = Opening
      BY <1>13 DEF HeartbeatKill, Opening
    <2> QED
      BY <2>1, <2>2, TerminatedEnds, PoolEnd
  <1>14. CASE HeartbeatStop
    <2>1. hbVictim \in Ids /\ row[hbVictim] = "ready" /\ hbVictim \notin Running
      BY <1>14 DEF HeartbeatStop, IInv, HeartbeatRows, TypeOK, Running
    <2>2. Opening' = Opening /\ Running' = Running
      BY <1>14 DEF HeartbeatStop, Opening, Running
    <2>3. Pool!Retire(hbVictim)
      BY <1>14, <2>1, <2>2 DEF HeartbeatStop, Pool!Retire
    <2> QED
      BY <2>1, <2>3 DEF Pool!Next
  <1>15. ASSUME NEW i \in Ids, Bind(i) \/ Exit(i) PROVE P
    <2>1. row' = row /\ Opening' = Opening
      BY <1>15 DEF Bind, Exit, Opening
    <2>2. (Running' = Running) \/ (i \in Running /\ Running' = Running \ {i})
      BY <1>15 DEF Bind, Exit, Running, Alive, TypeOK
    <2> QED
      BY <2>1, <2>2, PoolEnd
  <1>16. CASE Crash
    <2>1. row' = row /\ Opening' = {} /\ Running' = Running
      BY <1>16 DEF Crash, Opening, Running
    <2> QED
      BY <2>1 DEF Pool!Next, Pool!Interrupt
  <1>18. ASSUME NEW w \in Threads, QueryRaises(w) PROVE P
    <2>1. Opening' = Opening /\ Running' = Running /\ row' = row
      BY <1>18 DEF QueryRaises, Leave, Opening, Running, TypeOK
    <2> QED
      BY <2>1, PoolStutter
  <1>19. ASSUME NEW w \in Threads, StartRaises(w) PROVE P
    <2>1. row' = row /\ Running' = Running /\ lock' = NoThread
      BY <1>19 DEF StartRaises, Leave, Running
    <2>2. Opening' = {}
      BY <2>1, ThreadAssumption DEF Opening, LockExclusive, Critical
    <2> QED
      BY <2>1, <2>2 DEF Pool!Next, Pool!Interrupt
  <1>20. CASE HeartbeatRaises
    <2>1. hbVictim \in Ids /\ row[hbVictim] = "ready" /\ hbVictim \notin Running
      BY <1>20 DEF HeartbeatRaises, IInv, HeartbeatRows, TypeOK, Running
    <2>2. Opening' = Opening /\ Running' = Running
      BY <1>20 DEF HeartbeatRaises, Opening, Running
    <2>3. (row' = row) \/ Pool!Retire(hbVictim)
      BY <1>20, <2>1, <2>2 DEF HeartbeatRaises, Pool!Retire
    <2> QED
      BY <2>1, <2>2, <2>3, PoolStutter DEF Pool!Next
  <1>17. CASE UNCHANGED vars
    <2>1. row' = row /\ Opening' = Opening /\ Running' = Running
      BY <1>17 DEF vars, Opening, Running
    <2> QED
      BY <2>1, PoolStutter
  <1> QED
    BY <1>1, <1>2, <1>3, <1>4, <1>5, <1>6, <1>7, <1>8, <1>9, <1>10, <1>11, <1>12, <1>13, <1>14, <1>15, <1>16, <1>17, <1>18, <1>19, <1>20 DEF Next, AcquireStep, Proceed, HeartbeatStep

\* Seen through rows, running processes and the runtime being started, the broker
\* does only what the pool allows.
THEOREM ImplementsPool == Spec => PoolSpec
  <1>1. IInv /\ [Next]_vars => [Pool!Next]_(Pool!poolVars)
    BY PoolStep
  <1> QED
    BY <1>1, PoolInit, Invariant, PTL DEF Spec, PoolSpec, Pool!Spec

\* The pool never takes a runtime back that was stopped.
LEMMA PoolKeepsStopped ==
  ASSUME TypeOK, [Pool!Next]_(Pool!poolVars), NEW k \in Ids, row[k] = "stopped"
  PROVE  row'[k] = "stopped"
  BY DEF TypeOK, Pool!Next, Pool!poolVars, Pool!Launch, Pool!Announce, Pool!Open, Pool!Abandon, Pool!End, Pool!Retire, Pool!Interrupt

\* A runtime the heartbeat or a restart gave up stays stopped.
THEOREM StoppedIsFinalHolds == Spec => StoppedIsFinal
  <1>1. IInv /\ [Next]_vars => (\A i \in Ids : row[i] = "stopped" => row'[i] = "stopped")
    BY PoolStep, PoolKeepsStopped DEF IInv
  <1> QED
    BY <1>1, Invariant, PTL DEF Spec, StoppedIsFinal

-----------------------------------------------------------------------------
(* The part of LockReleased that needs no fairness: acquire does not go       *)
(* round in circles.                                                         *)

\* How many steps a thread inside acquire can still take before it returns.
StepsLeft(w) ==
    IF pc[w] = "probing" THEN 5 + Cardinality(todo[w])
    ELSE IF pc[w] = "spawned" THEN 4
    ELSE IF pc[w] = "waiting" THEN 3
    ELSE IF pc[w] = "marking" THEN 2
    ELSE IF pc[w] = "idle" THEN 0 ELSE 1

\* While a thread keeps the lock, every step of it brings it nearer to giving the
\* lock back, and no step of anybody else takes it back on its way.
AcquireAdvances ==
    [][\A w \in Threads : lock = w /\ lock' = w =>
        \/ pc'[w] = pc[w] /\ todo'[w] = todo[w]
        \/ StepsLeft(w)' < StepsLeft(w)]_vars

\* A list without its first element is one shorter.
LEMMA TodoCount ==
  ASSUME NEW S \in SUBSET Ids, NEW i
  PROVE  /\ Cardinality(S) \in Nat /\ Cardinality(S) <= MaxSpawns
         /\ i \in S => Cardinality(S \ {i}) = Cardinality(S) - 1
  <1>1. IsFiniteSet(Ids) /\ Cardinality(Ids) = MaxSpawns
    BY FS_Interval, BrokerLimitAssumption DEF Ids
  <1>2. IsFiniteSet(S) /\ Cardinality(S) <= Cardinality(Ids)
    BY <1>1, FS_Subset
  <1>3. Cardinality(S) \in Nat
    BY <1>2, FS_CardinalityType
  <1>4. i \in S => Cardinality(S \ {i}) = Cardinality(S) - 1
    BY <1>2, FS_RemoveElement
  <1> QED
    BY <1>1, <1>2, <1>3, <1>4

\* The holder of the lock is the only thread that moves, and it moves forward.
LEMMA AdvanceStep ==
  ASSUME IInv, [Next]_vars, NEW u \in Threads, lock = u, lock' = u
  PROVE  \/ pc'[u] = pc[u] /\ todo'[u] = todo[u]
         \/ StepsLeft(u)' < StepsLeft(u)
  <1> DEFINE G == \/ pc'[u] = pc[u] /\ todo'[u] = todo[u]
                  \/ StepsLeft(u)' < StepsLeft(u)
  <1> SUFFICES G
    OBVIOUS
  <1>0. TypeOK /\ LockExclusive /\ NoThread # u
    BY ThreadAssumption DEF IInv
  <1>t. Cardinality(todo[u]) \in Nat
    BY <1>0, TodoCount DEF TypeOK
  <1> USE <1>0 DEF TypeOK, threadVars
  <1>1. ASSUME NEW w \in Threads, Enter(w) PROVE G
    BY <1>1 DEF Enter, LockFree
  <1>2. ASSUME NEW w \in Threads, ReuseRuntime(w) \/ GiveUp(w) \/ KillStale(w) \/ Lookup(w) \/ QueryRaises(w) \/ StartRaises(w) PROVE G
    BY <1>2 DEF ReuseRuntime, GiveUp, KillStale, Lookup, QueryRaises, StartRaises, Leave
  <1>3. ASSUME NEW w \in Threads, SkipRuntime(w) PROVE G
    <2>1. w = u
      BY <1>3 DEF SkipRuntime, LockExclusive, Critical
    <2>2. PICK i \in todo[u] : todo'[u] = todo[u] \ {i}
      BY <1>3, <2>1 DEF SkipRuntime
    <2>3. Cardinality(todo'[u]) < Cardinality(todo[u]) /\ Cardinality(todo'[u]) \in Nat
      <3>1. todo[u] \in SUBSET Ids /\ todo[u] \ {i} \in SUBSET Ids
        BY <1>0 DEF TypeOK
      <3>2. Cardinality(todo[u] \ {i}) \in Nat /\ Cardinality(todo[u] \ {i}) = Cardinality(todo[u]) - 1
        BY <2>2, <3>1, TodoCount
      <3> QED
        BY <1>t, <2>2, <3>2
    <2>4. pc[u] = "probing" /\ pc'[u] = "probing"
      BY <1>3, <2>1 DEF SkipRuntime
    <2> QED
      BY <1>t, <2>3, <2>4 DEF StepsLeft
  <1>4. ASSUME NEW w \in Threads, Spawn(w) PROVE G
    <2>1. w = u /\ pc[u] = "probing" /\ pc'[u] = "spawned"
      BY <1>4 DEF Spawn, Goto, LockExclusive, Critical
    <2> QED
      BY <1>t, <2>1 DEF StepsLeft
  <1>5. ASSUME NEW w \in Threads, InsertRow(w) \/ WaitReady(w) \/ WaitFailed(w) \/ MarkReady(w) PROVE G
    <2>1. w = u
      BY <1>5 DEF InsertRow, WaitReady, WaitFailed, MarkReady, LockExclusive, Critical
    <2> QED
      BY <1>5, <2>1 DEF InsertRow, WaitReady, WaitFailed, MarkReady, Goto, StepsLeft
  <1>6. CASE HeartbeatBegin \/ HeartbeatStep \/ Restart \/ StartServing
    BY <1>6 DEF HeartbeatBegin, HeartbeatStep, HeartbeatPass, HeartbeatKill, HeartbeatStop, HeartbeatRaises, Restart, StartServing
  <1>7. ASSUME NEW i \in Ids, Bind(i) \/ Exit(i) PROVE G
    BY <1>7 DEF Bind, Exit
  <1>8. CASE Crash
    BY <1>8 DEF Crash
  <1>9. CASE UNCHANGED vars
    BY <1>9 DEF vars
  <1> QED
    BY <1>1, <1>2, <1>3, <1>4, <1>5, <1>6, <1>7, <1>8, <1>9 DEF Next, AcquireStep, Proceed

\* acquire makes progress with every step, and has at most MaxSpawns + 5 of them to
\* take: with a fair thread the lock comes back.
THEOREM AcquireAdvancesHolds == Spec => AcquireAdvances
  <1>1. IInv /\ [Next]_vars => (\A w \in Threads : lock = w /\ lock' = w =>
            \/ pc'[w] = pc[w] /\ todo'[w] = todo[w]
            \/ StepsLeft(w)' < StepsLeft(w))
    BY AdvanceStep
  <1> QED
    BY <1>1, Invariant, PTL DEF Spec, AcquireAdvances

\* The bound: no call of acquire has more steps ahead than runtimes ever spawned,
\* and five.
THEOREM AcquireIsBounded == Spec => [](\A w \in Threads : StepsLeft(w) \in 0..(MaxSpawns + 5))
  <1>1. TypeOK => \A w \in Threads : StepsLeft(w) \in 0..(MaxSpawns + 5)
    <2> SUFFICES ASSUME TypeOK, NEW w \in Threads PROVE StepsLeft(w) \in 0..(MaxSpawns + 5)
      OBVIOUS
    <2>1. Cardinality(todo[w]) \in Nat /\ Cardinality(todo[w]) <= MaxSpawns
      BY TodoCount DEF TypeOK
    <2> QED
      BY <2>1, BrokerLimitAssumption DEF StepsLeft
  <1> QED
    BY <1>1, TypeCorrect, PTL
=============================================================================
