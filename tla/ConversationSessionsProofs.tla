---------------------- MODULE ConversationSessionsProofs ----------------------
(* Proofs about ConversationSessions, for any number of tasks, conversations, *)
(* runtimes and sessions: isolation of conversations, at most two deliveries  *)
(* of a prompt, that OpenCode is used only through a linked row, and that a   *)
(* conversation never loses its session.                                      *)
EXTENDS ConversationSessions, TLAPS

USE SessionAssumption DEF SessionAssumption

-----------------------------------------------------------------------------
(* Types.                                                                   *)

\* The initial state is well typed.
LEMMA TypeInit == Init => TypeOK
  BY DEF Init, TypeOK, Labels

\* Every action keeps the types.
LEMMA TypeStep == TypeOK /\ [Next]_vars => TypeOK'
  <1> SUFFICES ASSUME TypeOK, [Next]_vars PROVE TypeOK'
    OBVIOUS
  <1> USE DEF TypeOK, Labels, Goto, Leave, convVars, threadVars, loopVars
  <1>1. ASSUME NEW t \in Tasks, Start(t) \/ AcquireFails(t) \/ ResolveRead(t) PROVE TypeOK'
    <2>1. CASE Start(t)
      BY <2>1 DEF Start
    <2>2. CASE AcquireFails(t)
      BY <2>2 DEF AcquireFails
    <2>3. CASE ResolveRead(t)
      BY <2>3 DEF ResolveRead
    <2> QED
      BY <1>1, <2>1, <2>2, <2>3
  <1>2. ASSUME NEW t \in Tasks, NEW r \in Runtimes, Acquire(t, r) PROVE TypeOK'
    BY <1>2 DEF Acquire
  <1>3. ASSUME NEW t \in Tasks, Relink(t) PROVE TypeOK'
    BY <1>3 DEF Relink, RelinkedSession, AfterLink
  <1>4. ASSUME NEW t \in Tasks, InsertRow(t) \/ RowFails(t) PROVE TypeOK'
    <2>1. CASE InsertRow(t)
      BY <2>1 DEF InsertRow, AfterLink
    <2>2. CASE RowFails(t)
      BY <2>2 DEF RowFails
    <2> QED
      BY <1>4, <2>1, <2>2
  <1>5. ASSUME NEW t \in Tasks, GetSession(t) PROVE TypeOK'
    BY <1>5 DEF GetSession
  <1>6. ASSUME NEW t \in Tasks, NEW s \in Sessions, Create(t, s) PROVE TypeOK'
    BY <1>6 DEF Create
  <1>7. ASSUME NEW t \in Tasks, CreateFails(t) PROVE TypeOK'
    BY <1>7 DEF CreateFails
  <1>8. ASSUME NEW t \in Tasks, StoreSession(t) PROVE TypeOK'
    BY <1>8 DEF StoreSession, StoredSession
  <1>9. ASSUME NEW t \in Tasks, SendAnswered(t) PROVE TypeOK'
    BY <1>9 DEF SendAnswered, Delivered
  <1>10. ASSUME NEW t \in Tasks, SendRejected(t) PROVE TypeOK'
    <2>1. deliveries' \in [Tasks -> Nat]
      BY <1>10 DEF SendRejected, Delivered
    <2>2. CASE RetriesLeft(t)
      <3>1. /\ pc' = [pc EXCEPT ![t] = "recreate"] /\ retry' = retry \cup {t}
            /\ seen' = seen /\ end' = end /\ sid' = sid
        BY <1>10, <2>2 DEF SendRejected
      <3>2. /\ rows' = rows /\ link' = link /\ session' = session /\ owner' = owner
            /\ cut' = cut /\ abort' = abort
        BY <1>10 DEF SendRejected
      <3> QED
        BY <2>1, <3>1, <3>2
    <2>3. CASE ~RetriesLeft(t)
      BY <1>10, <2>1, <2>3 DEF SendRejected
    <2> QED
      BY <2>2, <2>3
  <1>11. ASSUME NEW t \in Tasks, SendFails(t) PROVE TypeOK'
    <2>1. deliveries' \in [Tasks -> Nat]
      BY <1>11 DEF SendFails, Delivered
    <2> QED
      BY <1>11, <2>1 DEF SendFails
  <1>12. ASSUME NEW t \in Tasks, AbortRead(t) PROVE TypeOK'
    BY <1>12 DEF AbortRead
  <1>13. ASSUME AbortSend \/ UNCHANGED vars PROVE TypeOK'
    BY <1>13 DEF AbortSend, vars
  <1> QED
    BY <1>1, <1>2, <1>3, <1>4, <1>5, <1>6, <1>7, <1>8, <1>9, <1>10, <1>11, <1>12, <1>13
       DEF Next, ThreadStep

\* Every variable keeps its type, in every behaviour.
THEOREM TypeCorrect == Spec => []TypeOK
  BY TypeInit, TypeStep, PTL DEF Spec

-----------------------------------------------------------------------------
(* Isolation.                                                               *)

\* A session id enters a thread or a row only from create_session for the same
\* conversation, or from the row of that conversation.
LEMMA IsolatedStep == TypeOK /\ SessionsIsolated /\ [Next]_vars => SessionsIsolated'
  <1> SUFFICES ASSUME TypeOK, SessionsIsolated, [Next]_vars PROVE SessionsIsolated'
    OBVIOUS
  <1> USE DEF TypeOK, SessionsIsolated, Goto, Leave, convVars, threadVars, loopVars
  <1>1. ASSUME NEW t \in Tasks,
               \/ Start(t) \/ AcquireFails(t) \/ ResolveRead(t) \/ InsertRow(t)
               \/ RowFails(t) \/ CreateFails(t) \/ SendAnswered(t) \/ SendFails(t)
               \/ AbortRead(t) \/ \E r \in Runtimes : Acquire(t, r)
        PROVE  SessionsIsolated'
    BY <1>1 DEF Start, AcquireFails, ResolveRead, InsertRow, RowFails, CreateFails,
                SendAnswered, SendFails, AbortRead, Acquire
  <1>2. ASSUME NEW t \in Tasks, Relink(t) PROVE SessionsIsolated'
    BY <1>2 DEF Relink, RelinkedSession
  <1>3. ASSUME NEW t \in Tasks, GetSession(t) PROVE SessionsIsolated'
    BY <1>3 DEF GetSession
  <1>4. ASSUME NEW t \in Tasks, NEW s \in Sessions, Create(t, s) PROVE SessionsIsolated'
    <2>1. owner[s] = None /\ s # None /\ None \notin Convs
      BY <1>4 DEF Create
    <2>2. \A c \in Convs : session[c] # s
      BY <2>1
    <2>3. \A u \in Tasks : ConvOf[u] \in Convs /\ sid[u] # s
      BY <2>1
    <2> QED
      BY <1>4, <2>1, <2>2, <2>3 DEF Create
  <1>5. ASSUME NEW t \in Tasks, StoreSession(t) PROVE SessionsIsolated'
    BY <1>5 DEF StoreSession, StoredSession
  <1>6. ASSUME NEW t \in Tasks, SendRejected(t) PROVE SessionsIsolated'
    BY <1>6 DEF SendRejected
  <1>7. ASSUME AbortSend \/ UNCHANGED vars PROVE SessionsIsolated'
    BY <1>7 DEF AbortSend, vars
  <1> QED
    BY <1>1, <1>2, <1>3, <1>4, <1>5, <1>6, <1>7 DEF Next, ThreadStep

\* Conversations never share an OpenCode session, whatever races and recoveries
\* happen inside each of them.
THEOREM SessionsIsolatedHolds == Spec => []SessionsIsolated
  <1>1. Init => SessionsIsolated
    BY DEF Init, SessionsIsolated
  <1> QED
    BY <1>1, IsolatedStep, TypeCorrect, PTL DEF Spec

-----------------------------------------------------------------------------
(* Deliveries.                                                              *)

\* A prompt has not been sent before the first send, and at most once before the
\* second; whoever sends a second time is in the recovery path.
SendsLeft ==
    \A t \in Tasks : pc[t] \notin {"done", "failed"} =>
        deliveries[t] <= 1 /\ (t \notin retry => deliveries[t] = 0)

DeliveryInv == SendsLeft /\ AtMostTwoDeliveries

\* Only the three outcomes of a send count, and only one of them goes on.
LEMMA DeliveryStep == TypeOK /\ DeliveryInv /\ [Next]_vars => DeliveryInv'
  <1> SUFFICES ASSUME TypeOK, DeliveryInv, [Next]_vars PROVE DeliveryInv'
    OBVIOUS
  <1> USE DEF TypeOK, DeliveryInv, SendsLeft, AtMostTwoDeliveries, Goto, Leave, convVars,
              threadVars, loopVars
  <1>1. ASSUME NEW t \in Tasks,
               \/ Start(t) \/ AcquireFails(t) \/ ResolveRead(t) \/ Relink(t) \/ InsertRow(t)
               \/ RowFails(t) \/ GetSession(t) \/ StoreSession(t) \/ AbortRead(t)
               \/ \E r \in Runtimes : Acquire(t, r)
               \/ \E s \in Sessions : Create(t, s)
        PROVE  DeliveryInv'
    BY <1>1 DEF Start, AcquireFails, ResolveRead, Relink, InsertRow, RowFails, GetSession,
                StoreSession, AbortRead, Acquire, Create
  <1>2. ASSUME NEW t \in Tasks, CreateFails(t) PROVE DeliveryInv'
    BY <1>2 DEF CreateFails
  <1>3. ASSUME NEW t \in Tasks, SendAnswered(t) \/ SendFails(t) PROVE DeliveryInv'
    <2>1. /\ pc[t] = "send"
          /\ pc' = [pc EXCEPT ![t] = "done"] \/ pc' = [pc EXCEPT ![t] = "failed"]
          /\ retry' = retry \ {t}
          /\ deliveries' = deliveries \/ deliveries' = [deliveries EXCEPT ![t] = @ + 1]
      BY <1>3 DEF SendAnswered, SendFails, Delivered
    <2>2. ASSUME NEW u \in Tasks, pc'[u] \notin {"done", "failed"}
          PROVE  deliveries'[u] <= 1 /\ (u \notin retry' => deliveries'[u] = 0)
      <3>1. u # t
        BY <2>1, <2>2
      <3>2. pc[u] = pc'[u] /\ deliveries'[u] = deliveries[u] /\ (u \in retry <=> u \in retry')
        BY <2>1, <3>1
      <3> QED
        BY <2>2, <3>2
    <2>3. ASSUME NEW u \in Tasks PROVE deliveries'[u] <= 2
      <3>1. deliveries[t] \in Nat /\ deliveries[t] <= 1 /\ deliveries[u] <= 2
        BY <2>1
      <3>2. CASE deliveries' = deliveries
        BY <3>1, <3>2
      <3>3. CASE deliveries' = [deliveries EXCEPT ![t] = @ + 1]
        <4>1. deliveries'[u] = deliveries[u] \/ deliveries'[u] = deliveries[t] + 1
          BY <3>3
        <4> QED
          BY <3>1, <4>1
      <3> QED
        BY <2>1, <3>2, <3>3
    <2> QED
      BY <2>2, <2>3
  <1>4. ASSUME NEW t \in Tasks, SendRejected(t) PROVE DeliveryInv'
    <2>1. /\ pc[t] = "send"
          /\ deliveries' = deliveries \/ deliveries' = [deliveries EXCEPT ![t] = @ + 1]
      BY <1>4 DEF SendRejected, Delivered
    <2>2. deliveries[t] \in Nat /\ deliveries[t] <= 1 /\ (t \notin retry => deliveries[t] = 0)
      BY <2>1
    <2>3. CASE RetriesLeft(t)
      <3>1. pc' = [pc EXCEPT ![t] = "recreate"] /\ retry' = retry \cup {t} /\ deliveries[t] = 0
        BY <1>4, <2>2, <2>3 DEF SendRejected, RetriesLeft
      <3>2. \A u \in Tasks : u # t => /\ pc'[u] = pc[u] /\ deliveries'[u] = deliveries[u]
                                     /\ (u \in retry' <=> u \in retry)
        BY <2>1, <3>1
      <3>3. deliveries'[t] \in {0, 1} /\ t \in retry'
        BY <2>1, <3>1
      <3>4. \A u \in Tasks : deliveries'[u] <= 2
        BY <3>2, <3>3
      <3>5. \A u \in Tasks : pc'[u] \notin {"done", "failed"} =>
                deliveries'[u] <= 1 /\ (u \notin retry' => deliveries'[u] = 0)
        BY <3>2, <3>3
      <3> QED
        BY <3>4, <3>5
    <2>4. CASE ~RetriesLeft(t)
      <3>1. pc' = [pc EXCEPT ![t] = "failed"] /\ retry' = retry \ {t}
        BY <1>4, <2>4 DEF SendRejected
      <3>2. \A u \in Tasks : u # t => pc'[u] = pc[u] /\ deliveries'[u] = deliveries[u]
        BY <2>1, <3>1
      <3>3. deliveries'[t] <= 2 /\ pc'[t] = "failed"
        BY <2>1, <2>2, <3>1
      <3> QED
        BY <3>1, <3>2, <3>3
    <2> QED
      BY <2>3, <2>4
  <1>5. ASSUME AbortSend \/ UNCHANGED vars PROVE DeliveryInv'
    BY <1>5 DEF AbortSend, vars
  <1> QED
    BY <1>1, <1>2, <1>3, <1>4, <1>5 DEF Next, ThreadStep

\* A prompt reaches OpenCode at most twice.
THEOREM AtMostTwoDeliveriesHolds == Spec => []AtMostTwoDeliveries
  <1>1. Init => DeliveryInv
    BY DEF Init, DeliveryInv, SendsLeft, AtMostTwoDeliveries
  <1>2. DeliveryInv => AtMostTwoDeliveries
    BY DEF DeliveryInv
  <1> QED
    BY <1>1, <1>2, DeliveryStep, TypeCorrect, PTL DEF Spec

-----------------------------------------------------------------------------
(* Links.                                                                   *)

\* Rows are never deleted and always have a runtime; a thread that has seen the
\* row can rely on it, and has a runtime when it writes the link.
LinkShape ==
    /\ \A c \in rows : link[c] # None
    /\ \A t \in seen : ConvOf[t] \in rows
    /\ \A t \in Tasks : pc[t] \in {"resolve", "link"} => end[t] # None

LinkInv == LinkShape /\ LinkedWhenUsed

\* Every step keeps rows linked.
LEMMA LinkStep == TypeOK /\ LinkInv /\ [Next]_vars => LinkInv'
  <1> SUFFICES ASSUME TypeOK, LinkInv, [Next]_vars PROVE LinkInv'
    OBVIOUS
  <1> USE DEF TypeOK, LinkInv, LinkShape, LinkedWhenUsed, Goto, Leave, convVars, threadVars,
              loopVars
  <1>1. ASSUME NEW t \in Tasks, Start(t) \/ AcquireFails(t) \/ ResolveRead(t) PROVE LinkInv'
    <2>1. CASE Start(t)
      BY <2>1 DEF Start
    <2>2. CASE AcquireFails(t)
      BY <2>2 DEF AcquireFails
    <2>3. CASE ResolveRead(t)
      BY <2>3 DEF ResolveRead
    <2> QED
      BY <1>1, <2>1, <2>2, <2>3
  <1>2. ASSUME NEW t \in Tasks, NEW r \in Runtimes, Acquire(t, r) PROVE LinkInv'
    BY <1>2 DEF Acquire
  <1>3. ASSUME NEW t \in Tasks, Relink(t) PROVE LinkInv'
    BY <1>3 DEF Relink, AfterLink
  <1>4. ASSUME NEW t \in Tasks, InsertRow(t) PROVE LinkInv'
    BY <1>4 DEF InsertRow, AfterLink
  <1>5. ASSUME NEW t \in Tasks, SendAnswered(t) \/ SendFails(t)
        PROVE  LinkInv'
    <2>1. /\ pc' = [pc EXCEPT ![t] = "done"] \/ pc' = [pc EXCEPT ![t] = "failed"]
          /\ seen' = seen \ {t} /\ end' = [end EXCEPT ![t] = None]
          /\ rows' = rows /\ link' = link
      BY <1>5 DEF SendAnswered, SendFails
    <2> QED
      BY <2>1
  <1>6. ASSUME NEW t \in Tasks, GetSession(t) PROVE LinkInv'
    BY <1>6 DEF GetSession
  <1>7. ASSUME NEW t \in Tasks, NEW s \in Sessions, Create(t, s) PROVE LinkInv'
    BY <1>7 DEF Create
  <1>8. ASSUME NEW t \in Tasks, CreateFails(t) \/ StoreSession(t) PROVE LinkInv'
    BY <1>8 DEF CreateFails, StoreSession
  <1>9. ASSUME NEW t \in Tasks, SendRejected(t) PROVE LinkInv'
    <2>1. pc[t] = "send" /\ rows' = rows /\ link' = link
      BY <1>9 DEF SendRejected
    <2>2. CASE RetriesLeft(t)
      <3>1. pc' = [pc EXCEPT ![t] = "recreate"] /\ seen' = seen /\ end' = end
        BY <1>9, <2>2 DEF SendRejected
      <3> QED
        BY <2>1, <3>1
    <2>3. CASE ~RetriesLeft(t)
      <3>1. /\ pc' = [pc EXCEPT ![t] = "failed"] /\ seen' = seen \ {t}
            /\ end' = [end EXCEPT ![t] = None]
        BY <1>9, <2>3 DEF SendRejected
      <3> QED
        BY <2>1, <3>1
    <2> QED
      BY <2>2, <2>3
  <1>10. ASSUME NEW t \in Tasks, AbortRead(t) PROVE LinkInv'
    BY <1>10 DEF AbortRead
  <1>11. ASSUME NEW t \in Tasks, RowFails(t) PROVE LinkInv'
    <2>1. \/ pc' = [pc EXCEPT ![t] = "acquire"] /\ seen' = seen /\ end' = end
          \/ /\ pc' = [pc EXCEPT ![t] = "failed"]
             /\ seen' = seen \ {t} /\ end' = [end EXCEPT ![t] = None]
      BY <1>11 DEF RowFails
    <2>2. rows' = rows /\ link' = link
      BY <1>11 DEF RowFails
    <2> QED
      BY <2>1, <2>2
  <1>12. ASSUME AbortSend \/ UNCHANGED vars PROVE LinkInv'
    BY <1>12 DEF AbortSend, vars
  <1> QED
    BY <1>1, <1>2, <1>3, <1>4, <1>5, <1>6, <1>7, <1>8, <1>9, <1>10, <1>11, <1>12 DEF Next, ThreadStep

\* A thread talks to OpenCode only while its conversation has a linked row.
THEOREM LinkedWhenUsedHolds == Spec => []LinkedWhenUsed
  <1>1. Init => LinkInv
    BY DEF Init, LinkInv, LinkShape, LinkedWhenUsed
  <1>2. LinkInv => LinkedWhenUsed
    BY DEF LinkInv
  <1> QED
    BY <1>1, <1>2, LinkStep, TypeCorrect, PTL DEF Spec

-----------------------------------------------------------------------------
(* Sessions are kept.                                                       *)

\* What a thread is about to store is the session it has just created.
StoresSession == \A t \in Tasks : pc[t] \in {"store", "restore"} => sid[t] # None

\* Only create_session leads to the store, with the id it returned.
LEMMA StoresStep == TypeOK /\ StoresSession /\ [Next]_vars => StoresSession'
  <1> SUFFICES ASSUME TypeOK, StoresSession, [Next]_vars PROVE StoresSession'
    OBVIOUS
  <1> USE DEF TypeOK, StoresSession, Goto, Leave, convVars, threadVars, loopVars
  <1>1. ASSUME NEW t \in Tasks,
               \/ Start(t) \/ AcquireFails(t) \/ ResolveRead(t) \/ RowFails(t)
               \/ CreateFails(t) \/ StoreSession(t) \/ SendAnswered(t) \/ SendFails(t)
               \/ \E r \in Runtimes : Acquire(t, r)
        PROVE  StoresSession'
    BY <1>1 DEF Start, AcquireFails, ResolveRead, RowFails, CreateFails, StoreSession,
                SendAnswered, SendFails, Acquire
  <1>2. ASSUME NEW t \in Tasks, Relink(t) \/ InsertRow(t) PROVE StoresSession'
    BY <1>2 DEF Relink, InsertRow, AfterLink
  <1>3. ASSUME NEW t \in Tasks, GetSession(t) PROVE StoresSession'
    BY <1>3 DEF GetSession
  <1>4. ASSUME NEW t \in Tasks, NEW s \in Sessions, Create(t, s) PROVE StoresSession'
    BY <1>4 DEF Create
  <1>5. ASSUME NEW t \in Tasks, SendRejected(t) PROVE StoresSession'
    BY <1>5 DEF SendRejected
  <1>6. ASSUME NEW t \in Tasks, AbortRead(t) PROVE StoresSession'
    BY <1>6 DEF AbortRead
  <1>7. ASSUME AbortSend \/ UNCHANGED vars PROVE StoresSession'
    BY <1>7 DEF AbortSend, vars
  <1> QED
    BY <1>1, <1>2, <1>3, <1>4, <1>5, <1>6, <1>7 DEF Next, ThreadStep

\* StoreSession is the only writer of a stored session, and it has one to write.
LEMMA KeptStep ==
  TypeOK /\ StoresSession /\ [Next]_vars =>
    [\A c \in Convs : session[c] # None => session'[c] # None]_vars
  <1> SUFFICES ASSUME TypeOK, StoresSession, Next, NEW c \in Convs, session[c] # None
               PROVE  session'[c] # None
    BY DEF vars
  <1> USE DEF TypeOK, StoresSession, convVars
  <1>1. ASSUME NEW t \in Tasks, StoreSession(t) PROVE session'[c] # None
    BY <1>1 DEF StoreSession, StoredSession
  <1>2. ASSUME NEW t \in Tasks,
               \/ Start(t) \/ AcquireFails(t) \/ ResolveRead(t) \/ Relink(t) \/ InsertRow(t)
               \/ RowFails(t) \/ GetSession(t) \/ CreateFails(t) \/ SendAnswered(t)
               \/ SendRejected(t) \/ SendFails(t) \/ AbortRead(t)
               \/ \E r \in Runtimes : Acquire(t, r)
               \/ \E s \in Sessions : Create(t, s)
        PROVE  session' = session
    BY <1>2 DEF Start, AcquireFails, ResolveRead, Relink, RelinkedSession, InsertRow,
                RowFails, GetSession, CreateFails, SendAnswered, SendRejected, SendFails,
                AbortRead, Acquire, Create
  <1>3. CASE AbortSend
    BY <1>3 DEF AbortSend
  <1> QED
    BY <1>1, <1>2, <1>3 DEF Next, ThreadStep

\* A conversation that has an OpenCode session is never left without one by the
\* moves and recoveries of its tasks.
THEOREM SessionKeptHolds == Spec => SessionKept
  <1>1. Init => StoresSession
    BY DEF Init, StoresSession
  <1> QED
    BY <1>1, StoresStep, KeptStep, TypeCorrect, PTL DEF Spec, SessionKept

-----------------------------------------------------------------------------
(* The stored session of a task that is alone.                              *)

\* A step of a thread touches its own place and session id and the row of its
\* conversation; it ends at a send only with the stored session in hand.
LEMMA ThreadMove ==
  ASSUME TypeOK, LinkedWhenUsed, NEW t \in Tasks, ThreadStep(t)
  PROVE  /\ \A u \in Tasks \ {t} : pc'[u] = pc[u] /\ sid'[u] = sid[u]
         /\ pc'[t] # "idle"
         /\ \A c \in Convs : c # ConvOf[t] => session'[c] = session[c]
         /\ pc'[t] = "send" => session'[ConvOf[t]] = sid'[t]
  <1> DEFINE Move == /\ \A u \in Tasks \ {t} : pc'[u] = pc[u] /\ sid'[u] = sid[u]
                     /\ pc'[t] # "idle"
                     /\ \A c \in Convs : c # ConvOf[t] => session'[c] = session[c]
                     /\ pc'[t] = "send" => session'[ConvOf[t]] = sid'[t]
  <1> USE DEF TypeOK, Goto, Leave, convVars, threadVars, loopVars
  <1>1. ASSUME \/ Start(t) \/ AcquireFails(t) \/ ResolveRead(t) \/ RowFails(t)
               \/ SendAnswered(t) \/ SendFails(t) \/ \E r \in Runtimes : Acquire(t, r)
        PROVE  Move
    BY <1>1 DEF Start, AcquireFails, ResolveRead, RowFails, SendAnswered, SendFails, Acquire
  <1>2. CASE Relink(t) \/ InsertRow(t)
    BY <1>2 DEF Relink, RelinkedSession, InsertRow, AfterLink
  <1>3. CASE GetSession(t)
    BY <1>3 DEF GetSession
  <1>4. ASSUME NEW s \in Sessions, Create(t, s) PROVE Move
    BY <1>4 DEF Create
  <1>5. CASE CreateFails(t)
    BY <1>5 DEF CreateFails
  <1>6. CASE StoreSession(t)
    <2>1. ConvOf[t] \in rows
      BY <1>6 DEF StoreSession, LinkedWhenUsed
    <2> QED
      BY <1>6, <2>1 DEF StoreSession, StoredSession
  <1>7. CASE SendRejected(t)
    BY <1>7 DEF SendRejected
  <1> QED
    BY <1>1, <1>2, <1>3, <1>4, <1>5, <1>6, <1>7 DEF ThreadStep

\* A task is not alone once a thread of its conversation has moved, and threads of
\* other conversations leave its row as it is.
LEMMA AloneStep == TypeOK /\ LinkedWhenUsed /\ StoredWhenAlone /\ [Next]_vars => StoredWhenAlone'
  <1> SUFFICES ASSUME TypeOK, LinkedWhenUsed, StoredWhenAlone, [Next]_vars,
                      NEW u \in Tasks, pc'[u] = "send",
                      \A v \in Tasks \ {u} : ConvOf[v] = ConvOf[u] => pc'[v] = "idle"
               PROVE  session'[ConvOf[u]] = sid'[u]
    BY DEF StoredWhenAlone
  <1>1. ASSUME NEW t \in Tasks, ThreadStep(t) PROVE session'[ConvOf[u]] = sid'[u]
    <2>1. CASE t = u
      BY <1>1, <2>1, ThreadMove
    <2>2. CASE t # u
      <3>1. ConvOf[t] # ConvOf[u]
        BY <1>1, <2>2, ThreadMove
      <3>2. session'[ConvOf[u]] = session[ConvOf[u]] /\ pc[u] = "send" /\ sid'[u] = sid[u]
        BY <1>1, <2>2, <3>1, ThreadMove
      <3>3. \A v \in Tasks \ {u} : ConvOf[v] = ConvOf[u] => pc[v] = "idle"
        BY <1>1, <3>1, ThreadMove
      <3> QED
        BY <3>2, <3>3 DEF StoredWhenAlone
    <2> QED
      BY <2>1, <2>2
  <1>2. ASSUME \/ \E t \in Tasks : AbortRead(t)
               \/ AbortSend
               \/ UNCHANGED vars
        PROVE  session'[ConvOf[u]] = sid'[u]
    <2>1. session' = session /\ pc' = pc /\ sid' = sid
      BY <1>2 DEF AbortRead, AbortSend, vars, convVars, threadVars
    <2> QED
      BY <2>1 DEF StoredWhenAlone
  <1> QED
    BY <1>1, <1>2 DEF Next

\* A task that has its conversation to itself prompts the session that DELETE,
\* timeouts and the live view look up.
THEOREM StoredWhenAloneHolds == Spec => []StoredWhenAlone
  <1>1. Init => StoredWhenAlone
    BY DEF Init, StoredWhenAlone
  <1> QED
    BY <1>1, AloneStep, LinkedWhenUsedHolds, TypeCorrect, PTL DEF Spec
=============================================================================
