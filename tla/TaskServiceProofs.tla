-------------------------- MODULE TaskServiceProofs ---------------------------
(* Proofs about TaskService for any finite set of tasks, any conversations,  *)
(* runtimes, limits and number of crashes.                                   *)
EXTENDS TaskService, FiniteSetTheorems, TLAPS

-----------------------------------------------------------------------------
(* The inductive invariant.  HandlesExact and RunningIsServed are not        *)
(* inductive alone: that a cancelled coroutine leaves no running row needs    *)
(* CancelShape, that a DELETE never meets a coroutine in its timeout handler  *)
(* needs LoopSerial, and that late threads only write to existing rows needs  *)
(* to know what is left after a crash (BootShape).                           *)

\* The event loop is inside at most one kind of blocking handler.
LoopSerial == cancelling = {} \/ \A t \in Tasks : co[t] # "timingOut"

\* A cancelled coroutine is parked in the semaphore or wait_for, its row closed.
CancelShape == \A t \in cancelled : co[t] \in {"waiting", "inside"} /\ status[t] # "running"

\* Which rows exist, given the coroutine and the thread of their task.
RowShape ==
    /\ \A t \in Tasks :
        /\ status[t] = "absent" <=> co[t] = "none"
        /\ status[t] = "deleted" => co[t] = "crashed"
        /\ co[t] \in {"none", "waiting"} => worker[t] = "none"
        /\ co[t] = "timingOut" => t \in late
        /\ co[t] = "crashed" => worker[t] \in {"none", "ended"}
    /\ \A t \in doomed \cup cancelling : status[t] \notin {"absent", "deleted"}

\* A thread stores only an answer it got, and nobody reopens the row after it.
AnswerShape ==
    \A t \in Tasks :
        /\ worker[t] \in {"storing", "returned"} => t \in answered
        /\ status[t] = "completed" => t \in answered /\ worker[t] \in {"returned", "ended"}
        /\ worker[t] = "returned" => status[t] # "running"

\* What a crash leaves until the agent serves again.
BootShape ==
    boot # "up" =>
        /\ cancelling = {}
        /\ \A t \in Tasks : co[t] \in {"none", "crashed"}

IInv ==
    /\ TypeOK
    /\ HandlesExact /\ RunningIsServed
    /\ LoopSerial /\ CancelShape /\ RowShape /\ AnswerShape /\ BootShape

-----------------------------------------------------------------------------
(* Types.                                                                   *)

\* The initial state is well typed.
LEMMA TypeInit == Init => TypeOK
  BY LimitAssumption DEF Init, TypeOK, LivePhases

\* Every action keeps every variable within its type.
LEMMA TypeStep == TypeOK /\ [Next]_vars => TypeOK'
  <1> SUFFICES ASSUME TypeOK, [Next]_vars PROVE TypeOK'
    OBVIOUS
  <1> USE LimitAssumption, ConvAssumption DEF TypeOK, LivePhases, RunningPhases, Terminal, rowVars, bootVars, loopVars, heartbeatVars
  <1>1. ASSUME NEW t \in Tasks, Submit(t) PROVE TypeOK'
    BY <1>1 DEF Submit, LoopFree, Mark
  <1>2. ASSUME NEW t \in Tasks, EnterSlot(t) PROVE TypeOK'
    BY <1>2 DEF EnterSlot, SlotFree, LoopFree
  <1>3. ASSUME NEW t \in Tasks, FinishReturned(t) PROVE TypeOK'
    BY <1>3 DEF FinishReturned, LoopFree, Released, Unregistered
  <1>4. ASSUME NEW t \in Tasks, FinishRaised(t) PROVE TypeOK'
    BY <1>4 DEF FinishRaised, LoopFree, MarkRaised, Mark, Released, Unregistered
  <1>5. ASSUME NEW t \in Tasks, TimeoutBegin(t) PROVE TypeOK'
    BY <1>5 DEF TimeoutBegin, LoopFree, TimerDue, Dropped
  <1>6. ASSUME NEW t \in Tasks, TimeoutEnd(t) PROVE TypeOK'
    BY <1>6 DEF TimeoutEnd, Mark, Released, Unregistered
  <1>7. ASSUME NEW t \in Tasks, CancelBegin(t) PROVE TypeOK'
    BY <1>7 DEF CancelBegin, LoopFree
  <1>8. ASSUME NEW t \in Tasks, CancelEnd(t) PROVE TypeOK'
    BY <1>8 DEF CancelEnd, Mark
  <1>9. ASSUME NEW t \in Tasks, CancelClosed(t) PROVE TypeOK'
    BY <1>9 DEF CancelClosed, LoopFree, Mark
  <1>10. ASSUME NEW t \in Tasks, DeliverCancel(t) PROVE TypeOK'
    BY <1>10 DEF DeliverCancel, LoopFree, Released, Dropped
  <1>11. ASSUME NEW t \in Tasks, StartWorker(t) PROVE TypeOK'
    BY <1>11 DEF StartWorker
  <1>12. ASSUME NEW t \in Tasks, Reply(t) PROVE TypeOK'
    BY <1>12 DEF Reply
  <1>13. ASSUME NEW t \in Tasks, Raise(t) PROVE TypeOK'
    BY <1>13 DEF Raise, CanRaise
  <1>14. ASSUME NEW t \in Tasks, Store(t) PROVE TypeOK'
    BY <1>14 DEF Store, Mark
  <1>15. ASSUME NEW t \in Tasks, DeadlinePasses(t) PROVE TypeOK'
    BY <1>15 DEF DeadlinePasses
  <1>16. ASSUME NEW t \in Tasks, FailLost(t) PROVE TypeOK'
    BY <1>16 DEF FailLost, Mark
  <1>17. ASSUME NEW t \in Tasks, NEW r \in Runtimes, Attach(t, r) PROVE TypeOK'
    BY <1>17 DEF Attach
  <1>18. ASSUME NEW r \in Runtimes, LoseRuntime(r) PROVE TypeOK'
    BY <1>18 DEF LoseRuntime
  <1>19. CASE Crash
    BY <1>19 DEF Crash
  <1>20. CASE Restart
    BY <1>20 DEF Restart
  <1>21. ASSUME NEW old \in SUBSET Tasks, Reconcile(old) PROVE TypeOK'
    BY <1>21 DEF Reconcile, Cleanable
  <1>22. CASE UNCHANGED vars
    BY <1>22 DEF vars
  <1> QED
    BY <1>1, <1>2, <1>3, <1>4, <1>5, <1>6, <1>7, <1>8, <1>9, <1>10, <1>11, <1>12, <1>13, <1>14, <1>15, <1>16, <1>17, <1>18, <1>19, <1>20, <1>21, <1>22 DEF Next, LoopStep, WorkerStep

\* Every variable of the task service keeps its type, in every behaviour.
THEOREM TypeCorrect == Spec => []TypeOK
  BY TypeInit, TypeStep, PTL DEF Spec

-----------------------------------------------------------------------------
(* The inductive invariant holds.                                           *)

\* The initial state, with no task, satisfies the invariant.
LEMMA IInvInit == Init => IInv
  BY TypeInit DEF Init, IInv, HandlesExact, RunningIsServed, LoopSerial, CancelShape, RowShape, AnswerShape, BootShape, LivePhases

\* Every action keeps the inductive invariant.
LEMMA IInvStep == IInv /\ [Next]_vars => IInv'
  <1> DEFINE Shape == HandlesExact /\ RunningIsServed /\ LoopSerial /\ CancelShape /\ RowShape /\ AnswerShape /\ BootShape
  <1> SUFFICES ASSUME IInv, [Next]_vars PROVE Shape'
    BY TypeStep DEF IInv
  <1>0. TypeOK'
    BY TypeStep DEF IInv
  <1> USE <1>0 DEF IInv, TypeOK, HandlesExact, RunningIsServed, LoopSerial, CancelShape, RowShape, AnswerShape, BootShape, LivePhases, RunningPhases, Terminal, rowVars, bootVars, loopVars, heartbeatVars
  <1>1. ASSUME NEW t \in Tasks, Submit(t) PROVE Shape'
    BY <1>1 DEF Submit, LoopFree, Mark
  <1>2. ASSUME NEW t \in Tasks, EnterSlot(t) PROVE Shape'
    BY <1>2 DEF EnterSlot, SlotFree, LoopFree
  <1>3. ASSUME NEW t \in Tasks, FinishReturned(t) PROVE Shape'
    BY <1>3 DEF FinishReturned, LoopFree, Released, Unregistered
  <1>4. ASSUME NEW t \in Tasks, FinishRaised(t) PROVE Shape'
    BY <1>4 DEF FinishRaised, LoopFree, MarkRaised, Mark, Released, Unregistered
  <1>5. ASSUME NEW t \in Tasks, TimeoutBegin(t) PROVE Shape'
    BY <1>5 DEF TimeoutBegin, LoopFree, TimerDue, Dropped
  <1>6. ASSUME NEW t \in Tasks, TimeoutEnd(t) PROVE Shape'
    BY <1>6 DEF TimeoutEnd, Mark, Released, Unregistered
  <1>7. ASSUME NEW t \in Tasks, CancelBegin(t) PROVE Shape'
    BY <1>7 DEF CancelBegin, LoopFree
  <1>8. ASSUME NEW t \in Tasks, CancelEnd(t) PROVE Shape'
    BY <1>8 DEF CancelEnd, Mark
  <1>9. ASSUME NEW t \in Tasks, CancelClosed(t) PROVE Shape'
    BY <1>9 DEF CancelClosed, LoopFree, Mark
  <1>10. ASSUME NEW t \in Tasks, DeliverCancel(t) PROVE Shape'
    BY <1>10 DEF DeliverCancel, LoopFree, Released, Dropped
  <1>11. ASSUME NEW t \in Tasks, StartWorker(t) PROVE Shape'
    BY <1>11 DEF StartWorker
  <1>12. ASSUME NEW t \in Tasks, Reply(t) PROVE Shape'
    BY <1>12 DEF Reply
  <1>13. ASSUME NEW t \in Tasks, Raise(t) PROVE Shape'
    BY <1>13 DEF Raise, CanRaise
  <1>14. ASSUME NEW t \in Tasks, Store(t) PROVE Shape'
    BY <1>14 DEF Store, Mark
  <1>15. ASSUME NEW t \in Tasks, DeadlinePasses(t) PROVE Shape'
    BY <1>15 DEF DeadlinePasses
  <1>16. ASSUME NEW t \in Tasks, FailLost(t) PROVE Shape'
    BY <1>16 DEF FailLost, Mark
  <1>17. ASSUME NEW t \in Tasks, NEW r \in Runtimes, Attach(t, r) PROVE Shape'
    BY <1>17 DEF Attach
  <1>18. ASSUME NEW r \in Runtimes, LoseRuntime(r) PROVE Shape'
    BY <1>18 DEF LoseRuntime
  <1>19. CASE Crash
    BY <1>19 DEF Crash
  <1>20. CASE Restart
    BY <1>20 DEF Restart
  <1>21. ASSUME NEW old \in SUBSET Tasks, Reconcile(old) PROVE Shape'
    BY <1>21 DEF Reconcile, Cleanable
  <1>22. CASE UNCHANGED vars
    BY <1>22 DEF vars
  <1> QED
    BY <1>1, <1>2, <1>3, <1>4, <1>5, <1>6, <1>7, <1>8, <1>9, <1>10, <1>11, <1>12, <1>13, <1>14, <1>15, <1>16, <1>17, <1>18, <1>19, <1>20, <1>21, <1>22 DEF Next, LoopStep, WorkerStep

\* The inductive invariant holds in every reachable state.
THEOREM Invariant == Spec => []IInv
  BY IInvInit, IInvStep, PTL DEF Spec

\* _active_tasks is exactly the set of coroutines DELETE can still cancel.
THEOREM HandlesExactHolds == Spec => []HandlesExact
  BY Invariant, PTL DEF IInv

\* Without a crash, a row that reads "running" always has a coroutine to close it.
THEOREM RunningIsServedHolds == Spec => []RunningIsServed
  BY Invariant, PTL DEF IInv

-----------------------------------------------------------------------------
(* A stored result is only overwritten by a failure after its deadline or by *)
(* the heartbeat.                                                            *)

\* One step never fails a completed row that is neither late nor selected.
LEMMA TimelyStep ==
  ASSUME IInv, [Next]_vars, NEW u \in Tasks, status[u] = "completed", status'[u] = "failed"
  PROVE  u \in late \/ u \in doomed
  <1> USE DEF IInv, TypeOK, RowShape, AnswerShape, rowVars
  <1>1. ASSUME NEW t \in Tasks, Submit(t) PROVE u \in late \/ u \in doomed
    BY <1>1 DEF Submit, LoopFree, Mark
  <1>2. ASSUME NEW t \in Tasks, EnterSlot(t) PROVE u \in late \/ u \in doomed
    BY <1>2 DEF EnterSlot, SlotFree, LoopFree
  <1>3. ASSUME NEW t \in Tasks, FinishReturned(t) PROVE u \in late \/ u \in doomed
    BY <1>3 DEF FinishReturned, LoopFree, Released, Unregistered
  <1>4. ASSUME NEW t \in Tasks, FinishRaised(t) PROVE u \in late \/ u \in doomed
    BY <1>4 DEF FinishRaised, LoopFree, MarkRaised, Mark, Released, Unregistered
  <1>5. ASSUME NEW t \in Tasks, TimeoutBegin(t) PROVE u \in late \/ u \in doomed
    BY <1>5 DEF TimeoutBegin, LoopFree, TimerDue, Dropped
  <1>6. ASSUME NEW t \in Tasks, TimeoutEnd(t) PROVE u \in late \/ u \in doomed
    BY <1>6 DEF TimeoutEnd, Mark, Released, Unregistered
  <1>7. ASSUME NEW t \in Tasks, CancelBegin(t) PROVE u \in late \/ u \in doomed
    BY <1>7 DEF CancelBegin, LoopFree
  <1>8. ASSUME NEW t \in Tasks, CancelEnd(t) PROVE u \in late \/ u \in doomed
    BY <1>8 DEF CancelEnd, Mark
  <1>9. ASSUME NEW t \in Tasks, CancelClosed(t) PROVE u \in late \/ u \in doomed
    BY <1>9 DEF CancelClosed, LoopFree, Mark
  <1>10. ASSUME NEW t \in Tasks, DeliverCancel(t) PROVE u \in late \/ u \in doomed
    BY <1>10 DEF DeliverCancel, LoopFree, Released, Dropped
  <1>11. ASSUME NEW t \in Tasks, StartWorker(t) PROVE u \in late \/ u \in doomed
    BY <1>11 DEF StartWorker
  <1>12. ASSUME NEW t \in Tasks, Reply(t) PROVE u \in late \/ u \in doomed
    BY <1>12 DEF Reply
  <1>13. ASSUME NEW t \in Tasks, Raise(t) PROVE u \in late \/ u \in doomed
    BY <1>13 DEF Raise, CanRaise
  <1>14. ASSUME NEW t \in Tasks, Store(t) PROVE u \in late \/ u \in doomed
    BY <1>14 DEF Store, Mark
  <1>15. ASSUME NEW t \in Tasks, DeadlinePasses(t) PROVE u \in late \/ u \in doomed
    BY <1>15 DEF DeadlinePasses
  <1>16. ASSUME NEW t \in Tasks, FailLost(t) PROVE u \in late \/ u \in doomed
    BY <1>16 DEF FailLost, Mark
  <1>17. ASSUME NEW t \in Tasks, NEW r \in Runtimes, Attach(t, r) PROVE u \in late \/ u \in doomed
    BY <1>17 DEF Attach
  <1>18. ASSUME NEW r \in Runtimes, LoseRuntime(r) PROVE u \in late \/ u \in doomed
    BY <1>18 DEF LoseRuntime
  <1>19. CASE Crash
    BY <1>19 DEF Crash
  <1>20. CASE Restart
    BY <1>20 DEF Restart
  <1>21. ASSUME NEW old \in SUBSET Tasks, Reconcile(old) PROVE u \in late \/ u \in doomed
    BY <1>21 DEF Reconcile, Cleanable
  <1>22. CASE UNCHANGED vars
    BY <1>22 DEF vars
  <1> QED
    BY <1>1, <1>2, <1>3, <1>4, <1>5, <1>6, <1>7, <1>8, <1>9, <1>10, <1>11, <1>12, <1>13, <1>14, <1>15, <1>16, <1>17, <1>18, <1>19, <1>20, <1>21, <1>22 DEF Next, LoopStep, WorkerStep

\* A result stored in time is never turned into a failure, except by the heartbeat.
THEOREM TimelyResultKeptHolds == Spec => TimelyResultKept
  <1>1. IInv /\ [Next]_vars => (\A t \in Tasks : status[t] = "completed" /\ status'[t] = "failed" => t \in late \/ t \in doomed)
    BY TimelyStep
  <1> QED
    BY <1>1, Invariant, PTL DEF Spec, TimelyResultKept

-----------------------------------------------------------------------------
(* Refinement of the contract of the task table.                            *)

\* Every step of the task service is a step of the contract or leaves it alone.
LEMMA ContractStep ==
  ASSUME IInv, [Next]_vars
  PROVE  [Contract!Next]_<<status, answered>>
  <1> USE DEF IInv, TypeOK, RowShape, AnswerShape, rowVars, RunningPhases, LivePhases, Terminal, Contract!Terminal
  <1>1. ASSUME NEW t \in Tasks, Submit(t) PROVE [Contract!Next]_<<status, answered>>
    BY <1>1 DEF Submit, LoopFree, Mark, Contract!Accept, Contract!Next
  <1>2. ASSUME NEW t \in Tasks, EnterSlot(t) PROVE [Contract!Next]_<<status, answered>>
    BY <1>2 DEF EnterSlot, SlotFree, LoopFree
  <1>3. ASSUME NEW t \in Tasks, FinishReturned(t) PROVE [Contract!Next]_<<status, answered>>
    BY <1>3 DEF FinishReturned, LoopFree, Released, Unregistered
  <1>4. ASSUME NEW t \in Tasks, FinishRaised(t) PROVE [Contract!Next]_<<status, answered>>
    BY <1>4 DEF FinishRaised, LoopFree, MarkRaised, Mark, Released, Unregistered, Contract!Close, Contract!Next
  <1>5. ASSUME NEW t \in Tasks, TimeoutBegin(t) PROVE [Contract!Next]_<<status, answered>>
    BY <1>5 DEF TimeoutBegin, LoopFree, TimerDue, Dropped
  <1>6. ASSUME NEW t \in Tasks, TimeoutEnd(t) PROVE [Contract!Next]_<<status, answered>>
    BY <1>6 DEF TimeoutEnd, Mark, Released, Unregistered, Contract!Close, Contract!Next
  <1>7. ASSUME NEW t \in Tasks, CancelBegin(t) PROVE [Contract!Next]_<<status, answered>>
    BY <1>7 DEF CancelBegin, LoopFree
  <1>8. ASSUME NEW t \in Tasks, CancelEnd(t) PROVE [Contract!Next]_<<status, answered>>
    BY <1>8 DEF CancelEnd, Mark, Contract!Close, Contract!Next
  <1>9. ASSUME NEW t \in Tasks, CancelClosed(t) PROVE [Contract!Next]_<<status, answered>>
    BY <1>9 DEF CancelClosed, LoopFree, Mark, Contract!Close, Contract!Next
  <1>10. ASSUME NEW t \in Tasks, DeliverCancel(t) PROVE [Contract!Next]_<<status, answered>>
    BY <1>10 DEF DeliverCancel, LoopFree, Released, Dropped
  <1>11. ASSUME NEW t \in Tasks, StartWorker(t) PROVE [Contract!Next]_<<status, answered>>
    BY <1>11 DEF StartWorker
  <1>12. ASSUME NEW t \in Tasks, Reply(t) PROVE [Contract!Next]_<<status, answered>>
    BY <1>12 DEF Reply, Contract!Answer, Contract!Next
  <1>13. ASSUME NEW t \in Tasks, Raise(t) PROVE [Contract!Next]_<<status, answered>>
    BY <1>13 DEF Raise, CanRaise
  <1>14. ASSUME NEW t \in Tasks, Store(t) PROVE [Contract!Next]_<<status, answered>>
    BY <1>14 DEF Store, Mark, Contract!Close, Contract!Next
  <1>15. ASSUME NEW t \in Tasks, DeadlinePasses(t) PROVE [Contract!Next]_<<status, answered>>
    BY <1>15 DEF DeadlinePasses
  <1>16. ASSUME NEW t \in Tasks, FailLost(t) PROVE [Contract!Next]_<<status, answered>>
    BY <1>16 DEF FailLost, Mark, Contract!Close, Contract!Next
  <1>17. ASSUME NEW t \in Tasks, NEW r \in Runtimes, Attach(t, r) PROVE [Contract!Next]_<<status, answered>>
    BY <1>17 DEF Attach
  <1>18. ASSUME NEW r \in Runtimes, LoseRuntime(r) PROVE [Contract!Next]_<<status, answered>>
    BY <1>18 DEF LoseRuntime
  <1>19. CASE Crash
    BY <1>19 DEF Crash
  <1>20. CASE Restart
    BY <1>20 DEF Restart
  <1>21. ASSUME NEW old \in SUBSET Tasks, Reconcile(old) PROVE [Contract!Next]_<<status, answered>>
    <2> DEFINE overdue == {t \in Tasks : status[t] = "running" /\ t \in late}
    <2>1. Contract!Sweep(overdue, old)
      BY <1>21 DEF Reconcile, Cleanable, Contract!Sweep
    <2>2. overdue \in SUBSET Tasks
      OBVIOUS
    <2> QED
      BY <2>1, <2>2 DEF Contract!Next
  <1>22. CASE UNCHANGED vars
    BY <1>22 DEF vars
  <1> QED
    BY <1>1, <1>2, <1>3, <1>4, <1>5, <1>6, <1>7, <1>8, <1>9, <1>10, <1>11, <1>12, <1>13, <1>14, <1>15, <1>16, <1>17, <1>18, <1>19, <1>20, <1>21, <1>22 DEF Next, LoopStep, WorkerStep

\* The task service implements the contract of a polled task table.
THEOREM ImplementsContract == Spec => ContractSpec
  <1>1. Init => Contract!Init
    BY DEF Init, Contract!Init
  <1>2. IInv /\ [Next]_vars => [Contract!Next]_(Contract!contractVars)
    BY ContractStep DEF Contract!contractVars
  <1> QED
    BY <1>1, <1>2, Invariant, PTL DEF Spec, ContractSpec, Contract!Spec

-----------------------------------------------------------------------------
(* Conservation of the semaphore's permits.                                 *)

Holders == {t \in Tasks : co[t] \in {"inside", "timingOut"}}

\* How one coroutine entering or leaving changes the number of holders.
LEMMA HoldersCount ==
  ASSUME NEW S \in SUBSET Tasks, NEW t \in Tasks
  PROVE  /\ Cardinality(S) \in Nat
         /\ t \notin S => Cardinality(S \cup {t}) = Cardinality(S) + 1
         /\ t \in S => Cardinality(S \ {t}) = Cardinality(S) - 1
  <1>1. IsFiniteSet(S)
    BY TasksAssumption, FS_Subset
  <1> QED
    BY <1>1, FS_CardinalityType, FS_AddElement, FS_RemoveElement

\* Every action moves a permit together with its holder.
LEMMA SemaphoreStep == IInv /\ SemaphoreConserved /\ [Next]_vars => SemaphoreConserved'
  <1> SUFFICES ASSUME IInv, permits + Cardinality(Holders) = MaxConcurrent, [Next]_vars
               PROVE  permits' + Cardinality(Holders') = MaxConcurrent
    BY DEF SemaphoreConserved, Holders
  <1>0. Holders \in SUBSET Tasks /\ permits \in Nat /\ co \in [Tasks -> LivePhases \cup {"none", "done", "crashed"}]
    BY DEF Holders, IInv, TypeOK
  <1>1. CASE UNCHANGED <<permits, co>>
    BY <1>1 DEF Holders
  <1>2. ASSUME NEW t \in Tasks, Submit(t) \/ TimeoutBegin(t) PROVE permits' = permits /\ Holders' = Holders
    BY <1>0, <1>2 DEF Submit, TimeoutBegin, TimerDue, Holders, IInv, RowShape
  <1>3. ASSUME NEW t \in Tasks, EnterSlot(t)
        PROVE  permits' = permits - 1 /\ t \notin Holders /\ Holders' = Holders \cup {t}
    BY <1>0, <1>3 DEF EnterSlot, SlotFree, Holders
  <1>4. ASSUME NEW t \in Tasks, FinishReturned(t) \/ FinishRaised(t) \/ TimeoutEnd(t)
        PROVE  permits' = permits + 1 /\ t \in Holders /\ Holders' = Holders \ {t}
    BY <1>0, <1>4 DEF FinishReturned, FinishRaised, TimeoutEnd, Released, Holders
  <1>5. ASSUME NEW t \in Tasks, DeliverCancel(t)
        PROVE  \/ permits' = permits /\ Holders' = Holders
               \/ permits' = permits + 1 /\ t \in Holders /\ Holders' = Holders \ {t}
    <2>1. co[t] \in {"waiting", "inside"} /\ co' = [co EXCEPT ![t] = "done"]
      BY <1>5 DEF DeliverCancel, IInv, CancelShape
    <2>2. CASE co[t] = "waiting"
      BY <1>0, <1>5, <2>1, <2>2 DEF DeliverCancel, Holders
    <2>3. CASE co[t] = "inside"
      BY <1>0, <1>5, <2>1, <2>3 DEF DeliverCancel, Released, Holders
    <2> QED
      BY <2>1, <2>2, <2>3
  <1>6. CASE Crash
    <2>1. permits' = MaxConcurrent /\ Holders' = {}
      BY <1>0, <1>6 DEF Crash, Holders
    <2> QED
      BY <2>1, FS_EmptySet, LimitAssumption
  <1>7. \/ UNCHANGED <<permits, co>>
        \/ \E t \in Tasks : Submit(t) \/ TimeoutBegin(t)
        \/ \E t \in Tasks : EnterSlot(t)
        \/ \E t \in Tasks : FinishReturned(t) \/ FinishRaised(t) \/ TimeoutEnd(t)
        \/ \E t \in Tasks : DeliverCancel(t)
        \/ Crash
    BY DEF Next, LoopStep, WorkerStep, vars, loopVars, CancelBegin, CancelEnd, CancelClosed, StartWorker, Reply,
           Raise, Store, Attach, DeadlinePasses, FailLost, LoseRuntime, Restart, Reconcile
  <1> QED
    BY <1>0, <1>1, <1>2, <1>3, <1>4, <1>5, <1>6, <1>7, HoldersCount, LimitAssumption

\* No exit, timeout, cancellation or crash leaks or duplicates a permit.
THEOREM SemaphoreConservedHolds == Spec => []SemaphoreConserved
  <1>1. Init => SemaphoreConserved
    <2> SUFFICES ASSUME Init PROVE SemaphoreConserved
      OBVIOUS
    <2>1. {t \in Tasks : co[t] \in {"inside", "timingOut"}} = {}
      BY DEF Init
    <2> QED
      BY <2>1, FS_EmptySet, LimitAssumption DEF Init, SemaphoreConserved
  <1> QED
    BY <1>1, SemaphoreStep, Invariant, PTL DEF Spec

-----------------------------------------------------------------------------
(* The part of EveryServedTaskCloses and EverySlotReturns that needs no       *)
(* fairness: the tasks never wait for each other in a circle.                *)

\* A task whose coroutine the event loop or the clock can move on by itself: the
\* guards of TimeoutEnd, CancelEnd, DeliverCancel, DeadlinePasses, TimeoutBegin and
\* EnterSlot.  No executor thread, runtime or client has to do anything.
Movable(t) ==
    \/ co[t] = "timingOut"
    \/ cancelling = {t}
    \/ LoopFree /\ t \in cancelled
    \/ co[t] \in LivePhases /\ t \notin late
    \/ LoopFree /\ TimerDue(t)
    \/ LoopFree /\ co[t] = "waiting" /\ t \notin cancelled /\ SlotFree

\* As long as a coroutine lives, some task can be moved on: a waiting one by its
\* permit, or else a holder of a permit by its timer or its cancellation, and while
\* the loop is blocked the one whose abort blocks it.
NeverStuck == (\E t \in Tasks : co[t] \in LivePhases) => \E t \in Tasks : Movable(t)

\* At most one DELETE is inside its blocking abort.
OneAbort == cancelling = {} \/ \E t \in Tasks : cancelling = {t}

\* An abort starts only in a free loop, so it is alone.
LEMMA OneAbortStep == OneAbort /\ [Next]_vars => OneAbort'
  <1> SUFFICES ASSUME OneAbort, [Next]_vars PROVE OneAbort'
    OBVIOUS
  <1>1. \/ UNCHANGED cancelling
        \/ cancelling' = {}
        \/ \E t \in Tasks : cancelling' = {t}
    BY DEF Next, LoopStep, WorkerStep, vars, loopVars, Submit, EnterSlot, FinishReturned, FinishRaised, TimeoutBegin,
           TimeoutEnd, CancelBegin, CancelEnd, CancelClosed, DeliverCancel, StartWorker, Reply, Raise, Store, Attach,
           DeadlinePasses, FailLost, LoseRuntime, Crash, Restart, Reconcile
  <1> QED
    BY <1>1 DEF OneAbort

\* Without a free permit somebody holds one.
LEMMA NoPermitHasHolder ==
  ASSUME TypeOK, SemaphoreConserved, ~SlotFree
  PROVE  \E u \in Tasks : co[u] \in {"inside", "timingOut"}
  <1>1. permits = 0
    BY DEF TypeOK, SlotFree
  <1>2. Holders # {}
    BY <1>1, FS_EmptySet, LimitAssumption DEF SemaphoreConserved, Holders
  <1> QED
    BY <1>2 DEF Holders

\* NeverStuck follows from what is already known of permits and of the loop.
LEMMA StuckNever == IInv /\ SemaphoreConserved /\ OneAbort => NeverStuck
  <1> SUFFICES ASSUME IInv, SemaphoreConserved, OneAbort, NEW t \in Tasks, co[t] \in LivePhases
               PROVE  \E u \in Tasks : Movable(u)
    BY DEF NeverStuck
  <1>1. boot = "up"
    BY DEF IInv, BootShape, LivePhases
  <1>2. CASE ~LoopFree
    BY <1>1, <1>2 DEF LoopFree, OneAbort, Movable
  <1>3. ASSUME LoopFree, NEW u \in Tasks, co[u] = "inside" PROVE Movable(u)
    BY <1>3 DEF Movable, TimerDue, LivePhases
  <1>4. CASE LoopFree /\ co[t] = "waiting"
    <2>1. CASE SlotFree
      BY <1>4, <2>1 DEF Movable
    <2>2. CASE ~SlotFree
      BY <1>3, <1>4, <2>2, NoPermitHasHolder DEF LoopFree, IInv
    <2> QED
      BY <2>1, <2>2
  <1> QED
    BY <1>2, <1>3, <1>4 DEF LoopFree, LivePhases

\* In every reachable state with a live coroutine, the loop or the clock alone can
\* move some task on.
THEOREM NeverStuckHolds == Spec => []NeverStuck
  <1>1. Init => OneAbort
    BY DEF Init, OneAbort
  <1> QED
    BY <1>1, OneAbortStep, StuckNever, Invariant, SemaphoreConservedHolds, PTL DEF Spec
=============================================================================
