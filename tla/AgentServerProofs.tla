--------------------------- MODULE AgentServerProofs ---------------------------
(* Proofs about AgentServer for any number of requests, any jobs and any      *)
(* number of signals: types, the audit trail, and the order of a batch.       *)
EXTENDS AgentServer, FiniteSetTheorems, TLAPS

-----------------------------------------------------------------------------
(* The inductive invariants.                                                *)

\* What has been set and sent of a request follows from its place in the chain.
ChainShape ==
    \A r \in Requests :
        /\ phase[r] \in {"new", "body", "limit", "auth", "handler", "running", "raised"} =>
               sent[r] = 0 /\ status[r] = 0
        /\ phase[r] = "reply" => sent[r] = 0 /\ status[r] # 0
        /\ phase[r] = "entry" => sent[r] = status[r] /\ status[r] # 0

\* An entry is of a closed request and says what was sent; a closed request has
\* its entry unless it needs none.
TrailShape ==
    /\ \A k \in DOMAIN trail :
           /\ trail[k][2] # 0 /\ trail[k][2] = sent[trail[k][1]]
           /\ phase[trail[k][1]] = "closed"
    /\ \A j, k \in DOMAIN trail : trail[j][1] = trail[k][1] => j = k
    /\ \A r \in Requests : phase[r] = "closed" /\ Audited(r) /\ sent[r] \notin {0, 500} =>
           \E k \in DOMAIN trail : trail[k][1] = r

\* The audit table is open while requests are served, and closed after an orderly
\* shutdown only when none is left in the chain.
DatabaseShape ==
    /\ server = "starting" => \A r \in Requests : phase[r] = "new"
    /\ server \in {"serving", "draining"} => auditDb = "open"
    /\ server \in {"exiting", "joining", "down"} /\ auditDb = "closed" =>
           \A r \in Requests : phase[r] \in {"new", "closed"}

AuditInv == TypeOK /\ ChainShape /\ TrailShape /\ DatabaseShape

\* The entries of a request in the history of commands.
Own(r) == {k \in DOMAIN ran : ran[k][1] = r}

\* While a request runs its commands, the last command run is its own and the
\* next number is behind it; nothing has run before its handler was reached.
RunShape ==
    \A r \in Requests : job[r].route = "exec" =>
        /\ phase[r] \in {"new", "body", "limit", "auth", "handler"} => Own(r) = {}
        /\ phase[r] \in {"handler", "running"} => whole[r]
        /\ phase[r] = "running" /\ Own(r) # {} =>
               /\ ran[Len(ran)] = <<r, RunBy(r)>>
               /\ job[r].stopOnError =>
                      \A k \in Own(r) : job[r].commands[ran[k][2]] = "succeeds"

BatchInv == RunShape /\ BatchAsReported

-----------------------------------------------------------------------------
(* Types.                                                                   *)

\* The initial state is well typed.
LEMMA TypeInit == Init => TypeOK
  BY ServerAssumption DEF Init, TypeOK, Servers, Codes, Phases

\* Append keeps what is there and adds one element.
LEMMA Appended ==
  ASSUME NEW S, NEW s \in Seq(S), NEW e \in S
  PROVE  /\ Append(s, e) \in Seq(S) /\ Len(s) \in Nat /\ Len(Append(s, e)) = Len(s) + 1
         /\ DOMAIN s = 1..Len(s) /\ DOMAIN Append(s, e) = DOMAIN s \cup {Len(s) + 1}
         /\ \A k \in DOMAIN s : Append(s, e)[k] = s[k]
         /\ Append(s, e)[Len(s) + 1] = e
  OBVIOUS

\* What Finish leaves behind.
LEMMA FinishType ==
  ASSUME TypeOK, NEW r \in Requests, NEW code \in {200, 400, 401, 422, 429}, Finish(r, code)
  PROVE  /\ phase' \in [Requests -> Phases] /\ status' \in [Requests -> Codes]
         /\ phase'[r] = "reply" /\ status'[r] = code
         /\ \A q \in Requests \ {r} : phase'[q] = phase[q] /\ status'[q] = status[q]
  BY DEF TypeOK, Finish, Phases, Codes

\* A request has run a number of commands.
LEMMA RunByNat == ASSUME TypeOK, NEW r \in Requests PROVE RunBy(r) \in Nat
  <1>1. DOMAIN ran = 1..Len(ran) /\ Len(ran) \in Nat
    BY DEF TypeOK
  <1>2. IsFiniteSet(1..Len(ran)) /\ {k \in DOMAIN ran : ran[k][1] = r} \subseteq 1..Len(ran)
    BY <1>1, FS_Interval
  <1>3. IsFiniteSet({k \in DOMAIN ran : ran[k][1] = r})
    BY <1>2, FS_Subset
  <1> QED
    BY <1>3, FS_CardinalityType DEF RunBy

\* Every action keeps the types.
LEMMA TypeStep == TypeOK /\ [Next]_vars => TypeOK'
  <1> SUFFICES ASSUME TypeOK, [Next]_vars PROVE TypeOK'
    OBVIOUS
  <1> USE ServerAssumption DEF TypeOK, Servers, Codes, Phases, processVars, requestVars
  <1>1. ASSUME NEW r \in Requests, Arrive(r), UNCHANGED job PROVE TypeOK'
    BY <1>1 DEF Arrive, LoopFree
  <1>2. ASSUME NEW r \in Requests, ReceiveBody(r), UNCHANGED job PROVE TypeOK'
    BY <1>2 DEF ReceiveBody, LoopFree
  <1>3. ASSUME NEW r \in Requests, Limit(r), UNCHANGED job PROVE TypeOK'
    <2>1. /\ phase' \in [Requests -> Phases] /\ status' \in [Requests -> Codes]
          /\ \A q \in Requests : phase'[q] = "running" => phase[q] = "running"
      <3>1. ASSUME Finish(r, 429)
            PROVE  /\ phase' \in [Requests -> Phases] /\ status' \in [Requests -> Codes]
                   /\ \A q \in Requests : phase'[q] = "running" => phase[q] = "running"
        BY <3>1, FinishType
      <3>2. ASSUME phase' = [phase EXCEPT ![r] = "auth"], status' = status
            PROVE  /\ phase' \in [Requests -> Phases] /\ status' \in [Requests -> Codes]
                   /\ \A q \in Requests : phase'[q] = "running" => phase[q] = "running"
        BY <3>2
      <3> QED
        BY <1>3, <3>1, <3>2 DEF Limit
    <2> QED
      BY <1>3, <2>1 DEF Limit
  <1>4. ASSUME NEW r \in Requests, VerifyToken(r), UNCHANGED job PROVE TypeOK'
    <2>1. \/ \E code \in {422, 401} : Finish(r, code)
          \/ phase' = [phase EXCEPT ![r] = "handler"] /\ status' = status
      BY <1>4 DEF VerifyToken
    <2>2. /\ phase' \in [Requests -> Phases] /\ status' \in [Requests -> Codes]
          /\ \A q \in Requests : phase'[q] = "running" => phase[q] = "running"
      <3>1. ASSUME NEW code \in {422, 401}, Finish(r, code)
            PROVE  /\ phase' \in [Requests -> Phases] /\ status' \in [Requests -> Codes]
                   /\ \A q \in Requests : phase'[q] = "running" => phase[q] = "running"
        BY <3>1, FinishType
      <3>2. ASSUME phase' = [phase EXCEPT ![r] = "handler"], status' = status
            PROVE  /\ phase' \in [Requests -> Phases] /\ status' \in [Requests -> Codes]
                   /\ \A q \in Requests : phase'[q] = "running" => phase[q] = "running"
        BY <3>2
      <3> QED
        BY <2>1, <3>1, <3>2
    <2> QED
      BY <1>4, <2>2 DEF VerifyToken
  <1>5. ASSUME NEW r \in Requests, StartCommands(r), UNCHANGED job PROVE TypeOK'
    BY <1>5 DEF StartCommands, LoopFree
  <1>6. ASSUME NEW r \in Requests, RunCommand(r), UNCHANGED job PROVE TypeOK'
    <2>1. /\ phase' \in [Requests -> Phases] /\ status' \in [Requests -> Codes]
          /\ \A q \in Requests : phase'[q] = "running" => phase[q] = "running"
      BY <1>6, FinishType DEF RunCommand
    <2>2. loop' = loop \/ (loop' = None /\ phase'[r] = "reply")
      BY <1>6, FinishType DEF RunCommand
    <2>3. \A q \in Requests : phase'[q] = "running" => loop'= q
      BY <1>6, <2>1, <2>2 DEF RunCommand
    <2>4. RunBy(r) + 1 \in Nat \ {0}
      BY RunByNat
    <2>5. ran' \in Seq(Requests \X (Nat \ {0}))
      <3>1. ran' = ran \/ ran' = Append(ran, <<r, RunBy(r) + 1>>)
        BY <1>6 DEF RunCommand
      <3>2. <<r, RunBy(r) + 1>> \in Requests \X (Nat \ {0})
        BY <2>4
      <3>3. Append(ran, <<r, RunBy(r) + 1>>) \in Seq(Requests \X (Nat \ {0}))
        BY <3>2, Appended
      <3>4. ran \in Seq(Requests \X (Nat \ {0}))
        OBVIOUS
      <3> QED
        BY ONLY <3>1, <3>3, <3>4
    <2> QED
      BY <1>6, <2>1, <2>2, <2>3, <2>5 DEF RunCommand
  <1>7. ASSUME NEW r \in Requests, Handle(r), UNCHANGED job PROVE TypeOK'
    <2>1. \/ \E code \in {200} : Finish(r, code)
          \/ phase' = [phase EXCEPT ![r] = "raised"] /\ status' = status
      BY <1>7 DEF Handle
    <2>2. /\ phase' \in [Requests -> Phases] /\ status' \in [Requests -> Codes]
          /\ \A q \in Requests : phase'[q] = "running" => phase[q] = "running"
      <3>1. ASSUME NEW code \in {200}, Finish(r, code)
            PROVE  /\ phase' \in [Requests -> Phases] /\ status' \in [Requests -> Codes]
                   /\ \A q \in Requests : phase'[q] = "running" => phase[q] = "running"
        BY <3>1, FinishType
      <3>2. ASSUME phase' = [phase EXCEPT ![r] = "raised"], status' = status
            PROVE  /\ phase' \in [Requests -> Phases] /\ status' \in [Requests -> Codes]
                   /\ \A q \in Requests : phase'[q] = "running" => phase[q] = "running"
        BY <3>2
      <3> QED
        BY <2>1, <3>1, <3>2
    <2> QED
      BY <1>7, <2>2 DEF Handle
  <1>8. ASSUME NEW r \in Requests, Reply(r), UNCHANGED job PROVE TypeOK'
    BY <1>8 DEF Reply, LoopFree
  <1>9. ASSUME NEW r \in Requests, WriteEntry(r), UNCHANGED job PROVE TypeOK'
    BY <1>9 DEF WriteEntry, LoopFree, EntryDue
  <1>10. ASSUME NEW r \in Requests, Escape(r), UNCHANGED job PROVE TypeOK'
    BY <1>10 DEF Escape, LoopFree
  <1>11. ASSUME Start, UNCHANGED job PROVE TypeOK'
    BY <1>11 DEF Start, StartTray
  <1>12. ASSUME RunTray, UNCHANGED job PROVE TypeOK'
    BY <1>12 DEF RunTray
  <1>13. ASSUME Signal, UNCHANGED job PROVE TypeOK'
    BY <1>13 DEF Signal
  <1>14. ASSUME QuitFromTray, UNCHANGED job PROVE TypeOK'
    BY <1>14 DEF QuitFromTray
  <1>15. ASSUME StopAccepting, UNCHANGED job PROVE TypeOK'
    BY <1>15 DEF StopAccepting, LoopFree
  <1>16. ASSUME Shutdown, UNCHANGED job PROVE TypeOK'
    BY <1>16 DEF Shutdown, LoopFree, Drained
  <1>17. ASSUME ForceShutdown, UNCHANGED job PROVE TypeOK'
    BY <1>17 DEF ForceShutdown, LoopFree
  <1>18. ASSUME StopTray, UNCHANGED job PROVE TypeOK'
    BY <1>18 DEF StopTray
  <1>19. ASSUME Kill, UNCHANGED job PROVE TypeOK'
    BY <1>19 DEF Kill, Alive
  <1>20. ASSUME ThreadEnds, UNCHANGED job PROVE TypeOK'
    BY <1>20 DEF ThreadEnds
  <1>21. ASSUME Exit, UNCHANGED job PROVE TypeOK'
    BY <1>21 DEF Exit
  <1>22. CASE UNCHANGED vars
    BY <1>22 DEF vars
  <1> QED
    BY <1>1, <1>2, <1>3, <1>4, <1>5, <1>6, <1>7, <1>8, <1>9, <1>10, <1>11, <1>12, <1>13, <1>14, <1>15, <1>16, <1>17, <1>18, <1>19, <1>20, <1>21, <1>22 DEF Next, RequestStep, ProcessStep, Environment

\* Every variable keeps its type, and the loop belongs to whoever runs commands.
THEOREM TypeCorrect == Spec => []TypeOK
  BY TypeInit, TypeStep, PTL DEF Spec

-----------------------------------------------------------------------------
(* The chain.                                                               *)
\* Every action keeps what has been set and sent in step with the place in the chain.
LEMMA ChainStep == TypeOK /\ ChainShape /\ [Next]_vars => ChainShape'
  <1> SUFFICES ASSUME TypeOK, ChainShape, [Next]_vars PROVE ChainShape'
    OBVIOUS
  <1> USE DEF TypeOK, ChainShape, Phases, processVars, requestVars
  <1>1. ASSUME NEW r \in Requests, Arrive(r), UNCHANGED job PROVE ChainShape'
    BY <1>1 DEF Arrive, LoopFree
  <1>2. ASSUME NEW r \in Requests, ReceiveBody(r), UNCHANGED job PROVE ChainShape'
    BY <1>2 DEF ReceiveBody, LoopFree
  <1>3. ASSUME NEW r \in Requests, Limit(r), UNCHANGED job PROVE ChainShape'
    BY <1>3 DEF Limit, LoopFree, Finish
  <1>4. ASSUME NEW r \in Requests, VerifyToken(r), UNCHANGED job PROVE ChainShape'
    BY <1>4 DEF VerifyToken, LoopFree, Finish
  <1>5. ASSUME NEW r \in Requests, StartCommands(r), UNCHANGED job PROVE ChainShape'
    BY <1>5 DEF StartCommands, LoopFree
  <1>6. ASSUME NEW r \in Requests, RunCommand(r), UNCHANGED job PROVE ChainShape'
    BY <1>6 DEF RunCommand, Finish
  <1>7. ASSUME NEW r \in Requests, Handle(r), UNCHANGED job PROVE ChainShape'
    BY <1>7 DEF Handle, LoopFree, Finish
  <1>8. ASSUME NEW r \in Requests, Reply(r), UNCHANGED job PROVE ChainShape'
    BY <1>8 DEF Reply, LoopFree
  <1>9. ASSUME NEW r \in Requests, WriteEntry(r), UNCHANGED job PROVE ChainShape'
    BY <1>9 DEF WriteEntry, LoopFree, EntryDue
  <1>10. ASSUME NEW r \in Requests, Escape(r), UNCHANGED job PROVE ChainShape'
    BY <1>10 DEF Escape, LoopFree
  <1>11. ASSUME Start, UNCHANGED job PROVE ChainShape'
    BY <1>11 DEF Start, StartTray
  <1>12. ASSUME RunTray, UNCHANGED job PROVE ChainShape'
    BY <1>12 DEF RunTray
  <1>13. ASSUME Signal, UNCHANGED job PROVE ChainShape'
    BY <1>13 DEF Signal
  <1>14. ASSUME QuitFromTray, UNCHANGED job PROVE ChainShape'
    BY <1>14 DEF QuitFromTray
  <1>15. ASSUME StopAccepting, UNCHANGED job PROVE ChainShape'
    BY <1>15 DEF StopAccepting, LoopFree
  <1>16. ASSUME Shutdown, UNCHANGED job PROVE ChainShape'
    BY <1>16 DEF Shutdown, LoopFree, Drained
  <1>17. ASSUME ForceShutdown, UNCHANGED job PROVE ChainShape'
    BY <1>17 DEF ForceShutdown, LoopFree
  <1>18. ASSUME StopTray, UNCHANGED job PROVE ChainShape'
    BY <1>18 DEF StopTray
  <1>19. ASSUME Kill, UNCHANGED job PROVE ChainShape'
    BY <1>19 DEF Kill, Alive
  <1>20. ASSUME ThreadEnds, UNCHANGED job PROVE ChainShape'
    BY <1>20 DEF ThreadEnds
  <1>21. ASSUME Exit, UNCHANGED job PROVE ChainShape'
    BY <1>21 DEF Exit
  <1>22. CASE UNCHANGED vars
    BY <1>22 DEF vars
  <1> QED
    BY <1>1, <1>2, <1>3, <1>4, <1>5, <1>6, <1>7, <1>8, <1>9, <1>10, <1>11, <1>12, <1>13, <1>14, <1>15, <1>16, <1>17, <1>18, <1>19, <1>20, <1>21, <1>22 DEF Next, RequestStep, ProcessStep, Environment

\* Only an orderly shutdown closes the audit table, and it waits for the chain.
LEMMA DatabaseStep == TypeOK /\ DatabaseShape /\ [Next]_vars => DatabaseShape'
  <1> SUFFICES ASSUME TypeOK, DatabaseShape, [Next]_vars PROVE DatabaseShape'
    OBVIOUS
  <1> USE DEF TypeOK, DatabaseShape, Phases, Servers, processVars, requestVars
  <1>1. ASSUME NEW r \in Requests, Arrive(r), UNCHANGED job PROVE DatabaseShape'
    BY <1>1 DEF Arrive, LoopFree
  <1>2. ASSUME NEW r \in Requests, ReceiveBody(r), UNCHANGED job PROVE DatabaseShape'
    BY <1>2 DEF ReceiveBody, LoopFree
  <1>3. ASSUME NEW r \in Requests, Limit(r), UNCHANGED job PROVE DatabaseShape'
    BY <1>3 DEF Limit, LoopFree, Finish
  <1>4. ASSUME NEW r \in Requests, VerifyToken(r), UNCHANGED job PROVE DatabaseShape'
    BY <1>4 DEF VerifyToken, LoopFree, Finish
  <1>5. ASSUME NEW r \in Requests, StartCommands(r), UNCHANGED job PROVE DatabaseShape'
    BY <1>5 DEF StartCommands, LoopFree
  <1>6. ASSUME NEW r \in Requests, RunCommand(r), UNCHANGED job PROVE DatabaseShape'
    BY <1>6 DEF RunCommand, Finish
  <1>7. ASSUME NEW r \in Requests, Handle(r), UNCHANGED job PROVE DatabaseShape'
    BY <1>7 DEF Handle, LoopFree, Finish
  <1>8. ASSUME NEW r \in Requests, Reply(r), UNCHANGED job PROVE DatabaseShape'
    BY <1>8 DEF Reply, LoopFree
  <1>9. ASSUME NEW r \in Requests, WriteEntry(r), UNCHANGED job PROVE DatabaseShape'
    BY <1>9 DEF WriteEntry, LoopFree, EntryDue
  <1>10. ASSUME NEW r \in Requests, Escape(r), UNCHANGED job PROVE DatabaseShape'
    BY <1>10 DEF Escape, LoopFree
  <1>11. ASSUME Start, UNCHANGED job PROVE DatabaseShape'
    BY <1>11 DEF Start, StartTray
  <1>12. ASSUME RunTray, UNCHANGED job PROVE DatabaseShape'
    BY <1>12 DEF RunTray
  <1>13. ASSUME Signal, UNCHANGED job PROVE DatabaseShape'
    BY <1>13 DEF Signal
  <1>14. ASSUME QuitFromTray, UNCHANGED job PROVE DatabaseShape'
    BY <1>14 DEF QuitFromTray
  <1>15. ASSUME StopAccepting, UNCHANGED job PROVE DatabaseShape'
    BY <1>15 DEF StopAccepting, LoopFree
  <1>16. ASSUME Shutdown, UNCHANGED job PROVE DatabaseShape'
    BY <1>16 DEF Shutdown, LoopFree, Drained
  <1>17. ASSUME ForceShutdown, UNCHANGED job PROVE DatabaseShape'
    BY <1>17 DEF ForceShutdown, LoopFree
  <1>18. ASSUME StopTray, UNCHANGED job PROVE DatabaseShape'
    BY <1>18 DEF StopTray
  <1>19. ASSUME Kill, UNCHANGED job PROVE DatabaseShape'
    BY <1>19 DEF Kill, Alive
  <1>20. ASSUME ThreadEnds, UNCHANGED job PROVE DatabaseShape'
    BY <1>20 DEF ThreadEnds
  <1>21. ASSUME Exit, UNCHANGED job PROVE DatabaseShape'
    BY <1>21 DEF Exit
  <1>22. CASE UNCHANGED vars
    BY <1>22 DEF vars
  <1> QED
    BY <1>1, <1>2, <1>3, <1>4, <1>5, <1>6, <1>7, <1>8, <1>9, <1>10, <1>11, <1>12, <1>13, <1>14, <1>15, <1>16, <1>17, <1>18, <1>19, <1>20, <1>21, <1>22 DEF Next, RequestStep, ProcessStep, Environment

-----------------------------------------------------------------------------
(* The audit trail.                                                         *)

\* What a step does to the trail and to closed requests.
TrailKept ==
    /\ trail' = trail
    /\ \A q \in Requests :
           /\ phase[q] = "closed" => phase'[q] = "closed" /\ sent'[q] = sent[q]
           /\ phase'[q] = "closed" /\ phase[q] # "closed" =>
                  ~Audited(q) \/ sent'[q] \in {0, 500}

EntryAdded(r) ==
    /\ phase[r] = "entry"
    /\ trail' = Append(trail, <<r, status[r]>>)
    /\ phase' = [phase EXCEPT ![r] = "closed"] /\ sent' = sent

TrailMove == TrailKept \/ \E r \in Requests : EntryAdded(r)

\* Only WriteEntry adds to the trail, and only it closes an answered request that
\* needs an entry.
LEMMA TrailMoves == TypeOK /\ ChainShape /\ [Next]_vars => TrailMove
  <1> SUFFICES ASSUME TypeOK, ChainShape, [Next]_vars PROVE TrailMove
    OBVIOUS
  <1> USE DEF TypeOK, ChainShape, TrailMove, TrailKept, EntryAdded, Phases, processVars, requestVars
  <1>1. ASSUME NEW r \in Requests, Arrive(r), UNCHANGED job PROVE TrailMove
    BY <1>1 DEF Arrive, LoopFree
  <1>2. ASSUME NEW r \in Requests, ReceiveBody(r), UNCHANGED job PROVE TrailMove
    BY <1>2 DEF ReceiveBody, LoopFree
  <1>3. ASSUME NEW r \in Requests, Limit(r), UNCHANGED job PROVE TrailMove
    BY <1>3 DEF Limit, LoopFree, Finish
  <1>4. ASSUME NEW r \in Requests, VerifyToken(r), UNCHANGED job PROVE TrailMove
    BY <1>4 DEF VerifyToken, LoopFree, Finish
  <1>5. ASSUME NEW r \in Requests, StartCommands(r), UNCHANGED job PROVE TrailMove
    BY <1>5 DEF StartCommands, LoopFree
  <1>6. ASSUME NEW r \in Requests, RunCommand(r), UNCHANGED job PROVE TrailMove
    BY <1>6 DEF RunCommand, Finish
  <1>7. ASSUME NEW r \in Requests, Handle(r), UNCHANGED job PROVE TrailMove
    BY <1>7 DEF Handle, LoopFree, Finish
  <1>8. ASSUME NEW r \in Requests, Reply(r), UNCHANGED job PROVE TrailMove
    BY <1>8 DEF Reply, LoopFree
  <1>9. ASSUME NEW r \in Requests, WriteEntry(r), UNCHANGED job PROVE TrailMove
    BY <1>9 DEF WriteEntry, LoopFree, EntryDue
  <1>10. ASSUME NEW r \in Requests, Escape(r), UNCHANGED job PROVE TrailMove
    BY <1>10 DEF Escape, LoopFree
  <1>11. ASSUME Start, UNCHANGED job PROVE TrailMove
    BY <1>11 DEF Start, StartTray
  <1>12. ASSUME RunTray, UNCHANGED job PROVE TrailMove
    BY <1>12 DEF RunTray
  <1>13. ASSUME Signal, UNCHANGED job PROVE TrailMove
    BY <1>13 DEF Signal
  <1>14. ASSUME QuitFromTray, UNCHANGED job PROVE TrailMove
    BY <1>14 DEF QuitFromTray
  <1>15. ASSUME StopAccepting, UNCHANGED job PROVE TrailMove
    BY <1>15 DEF StopAccepting, LoopFree
  <1>16. ASSUME Shutdown, UNCHANGED job PROVE TrailMove
    BY <1>16 DEF Shutdown, LoopFree, Drained
  <1>17. ASSUME ForceShutdown, UNCHANGED job PROVE TrailMove
    BY <1>17 DEF ForceShutdown, LoopFree
  <1>18. ASSUME StopTray, UNCHANGED job PROVE TrailMove
    BY <1>18 DEF StopTray
  <1>19. ASSUME Kill, UNCHANGED job PROVE TrailMove
    BY <1>19 DEF Kill, Alive
  <1>20. ASSUME ThreadEnds, UNCHANGED job PROVE TrailMove
    BY <1>20 DEF ThreadEnds
  <1>21. ASSUME Exit, UNCHANGED job PROVE TrailMove
    BY <1>21 DEF Exit
  <1>22. CASE UNCHANGED vars
    BY <1>22 DEF vars
  <1> QED
    BY <1>1, <1>2, <1>3, <1>4, <1>5, <1>6, <1>7, <1>8, <1>9, <1>10, <1>11, <1>12, <1>13, <1>14, <1>15, <1>16, <1>17, <1>18, <1>19, <1>20, <1>21, <1>22 DEF Next, RequestStep, ProcessStep, Environment

\* What a request asks for does not change.
LEMMA JobKept == [Next]_vars => job' = job
  BY DEF Next, RequestStep, ProcessStep, Environment, vars

\* The trail stays truthful, without a second entry and without a gap.
LEMMA TrailStep == TypeOK /\ ChainShape /\ TrailShape /\ [Next]_vars => TrailShape'
  <1> SUFFICES ASSUME TypeOK, ChainShape, TrailShape, [Next]_vars PROVE TrailShape'
    OBVIOUS
  <1>1. TrailMove /\ \A q \in Requests : Audited(q)' = Audited(q)
    BY TrailMoves, JobKept DEF Audited
  <1>2. trail \in Seq(Requests \X Codes) /\ \A k \in DOMAIN trail : trail[k][1] \in Requests
    BY DEF TypeOK
  <1>3. CASE TrailKept
    BY <1>1, <1>2, <1>3 DEF TrailKept, TrailShape
  <1>4. ASSUME NEW r \in Requests, EntryAdded(r) PROVE TrailShape'
    <2> DEFINE n == Len(trail) + 1
               e == <<r, status[r]>>
    <2>1. e \in Requests \X Codes /\ status[r] = sent[r] /\ status[r] # 0
      BY <1>4 DEF EntryAdded, TypeOK, ChainShape
    <2>2. /\ trail' = Append(trail, e) /\ n \notin DOMAIN trail
          /\ DOMAIN trail' = DOMAIN trail \cup {n}
          /\ trail'[n] = e /\ \A k \in DOMAIN trail : trail'[k] = trail[k]
      BY <1>2, <1>4, <2>1, Appended DEF EntryAdded
    <2>3. \A k \in DOMAIN trail : trail[k][1] # r
      BY <1>4 DEF EntryAdded, TrailShape
    <2>4. /\ phase'[r] = "closed" /\ sent' = sent
          /\ \A q \in Requests \ {r} : phase'[q] = phase[q]
      BY <1>4 DEF EntryAdded, TypeOK
    <2>5. \A k \in DOMAIN trail' :
              /\ trail'[k][2] # 0 /\ trail'[k][2] = sent'[trail'[k][1]]
              /\ phase'[trail'[k][1]] = "closed"
      BY <1>2, <2>1, <2>2, <2>3, <2>4 DEF TrailShape
    <2>6. \A j, k \in DOMAIN trail' : trail'[j][1] = trail'[k][1] => j = k
      BY <2>2, <2>3 DEF TrailShape
    <2>7. \A q \in Requests : phase'[q] = "closed" /\ Audited(q)' /\ sent'[q] \notin {0, 500} =>
              \E k \in DOMAIN trail' : trail'[k][1] = q
      BY <1>1, <2>2, <2>4 DEF TrailShape
    <2> QED
      BY <2>5, <2>6, <2>7 DEF TrailShape
  <1> QED
    BY <1>1, <1>3, <1>4 DEF TrailMove

\* Nothing has been audited at first.
LEMMA AuditInit == Init => AuditInv
  <1> SUFFICES ASSUME Init PROVE AuditInv
    OBVIOUS
  <1>1. trail = <<>> /\ DOMAIN trail = {}
    BY DEF Init
  <1> QED
    BY <1>1, TypeInit DEF Init, AuditInv, ChainShape, TrailShape, DatabaseShape

\* The invariants of the chain, the trail and the audit table hold together.
THEOREM AuditInvariant == Spec => []AuditInv
  <1>1. AuditInv /\ [Next]_vars => AuditInv'
    BY TypeStep, ChainStep, TrailStep, DatabaseStep DEF AuditInv
  <1> QED
    BY <1>1, AuditInit, PTL DEF Spec

\* Every entry says what was sent, none is written twice, and an orderly shutdown
\* leaves no answered request without its entry.
THEOREM AuditedAsAnsweredHolds == Spec => []AuditedAsAnswered
  <1>1. AuditInv => AuditedAsAnswered
    BY DEF AuditInv, ChainShape, TrailShape, DatabaseShape, AuditedAsAnswered
  <1> QED
    BY <1>1, AuditInvariant, PTL

-----------------------------------------------------------------------------
(* The order of a batch.                                                    *)

\* What the answer of a request may say, in the terms of Own.
Reported(r) ==
    /\ \A j, k \in Own(r) : j < k =>
           /\ ran[k][2] = ran[j][2] + (k - j)
           /\ job[r].stopOnError => job[r].commands[ran[j][2]] = "succeeds"
    /\ Own(r) # {} => whole[r] /\ \E k \in Own(r) : ran[k][2] = 1
    /\ status[r] = 200 => \E k \in Own(r) :
           \/ ran[k][2] = Len(job[r].commands)
           \/ job[r].stopOnError /\ job[r].commands[ran[k][2]] # "succeeds"

\* The property of a run, request by request.
LEMMA ReportedForAll ==
  /\ BatchAsReported <=> \A r \in Requests : job[r].route = "exec" => Reported(r)
  /\ job' = job =>
        (BatchAsReported' <=> \A r \in Requests : job[r].route = "exec" => Reported(r)')
  BY DEF BatchAsReported, Reported, Own

\* One command more in the history.
LEMMA OwnAppended ==
  ASSUME TypeOK, TypeOK', NEW r \in Requests, NEW i \in Nat \ {0}, ran' = Append(ran, <<r, i>>)
  PROVE  /\ Len(ran) \in Nat /\ Len(ran') = Len(ran) + 1
         /\ Own(r)' = Own(r) \cup {Len(ran) + 1} /\ RunBy(r)' = RunBy(r) + 1
         /\ \A q \in Requests \ {r} : Own(q)' = Own(q) /\ RunBy(q)' = RunBy(q)
         /\ \A q \in Requests : Own(q) \subseteq 1..Len(ran)
         /\ \A k \in 1..Len(ran) : ran'[k] = ran[k]
         /\ ran'[Len(ran) + 1] = <<r, i>>
  <1>1. ran \in Seq(Requests \X (Nat \ {0})) /\ <<r, i>> \in Requests \X (Nat \ {0})
    BY DEF TypeOK
  <1>2. /\ Len(ran) \in Nat /\ Len(ran') = Len(ran) + 1
        /\ DOMAIN ran = 1..Len(ran) /\ DOMAIN ran' = DOMAIN ran \cup {Len(ran) + 1}
        /\ \A k \in DOMAIN ran : ran'[k] = ran[k]
        /\ ran'[Len(ran) + 1] = <<r, i>>
    BY <1>1, Appended
  <1>3. Len(ran) + 1 \notin DOMAIN ran
    BY <1>2
  <1>4. \A q \in Requests : RunBy(q) = Cardinality(Own(q)) /\ RunBy(q)' = Cardinality(Own(q)')
    BY DEF RunBy, Own
  <1>5. Own(r)' = Own(r) \cup {Len(ran) + 1} /\ Len(ran) + 1 \notin Own(r)
    BY <1>2, <1>3 DEF Own
  <1>6. \A q \in Requests \ {r} : Own(q)' = Own(q)
    BY <1>2, <1>3 DEF Own
  <1>7. \A q \in Requests : Own(q) \subseteq 1..Len(ran)
    BY <1>2 DEF Own
  <1>8. IsFiniteSet(Own(r))
    <2>1. IsFiniteSet(1..Len(ran)) /\ Own(r) \subseteq 1..Len(ran)
      BY <1>2, <1>7, FS_Interval
    <2> QED
      BY <2>1, FS_Subset
  <1>9. RunBy(r)' = RunBy(r) + 1
    BY <1>4, <1>5, <1>8, FS_AddElement
  <1> QED
    BY <1>2, <1>4, <1>5, <1>6, <1>7, <1>9

\* A step that runs no command: a request enters its handler with its whole body,
\* and an answer 200 of a command request is set by its last command alone.
NothingRun ==
    /\ ran' = ran
    /\ \A q \in Requests : job[q].route = "exec" =>
           /\ phase'[q] \in {"new", "body", "limit", "auth", "handler"} =>
                  phase[q] \in {"new", "body", "limit", "auth", "handler"}
           /\ phase'[q] = "running" => phase[q] \in {"handler", "running"}
           /\ phase'[q] \in {"handler", "running"} => whole'[q]
           /\ phase[q] \notin {"new", "body"} => whole'[q] = whole[q]
           /\ status'[q] = 200 => status[q] = 200

\* Only RunCommand adds to the history.
LEMMA NothingElseRun ==
  ASSUME TypeOK, RunShape, [Next]_vars
  PROVE  NothingRun \/ \E r \in Requests : RunCommand(r)
  <1> DEFINE G == NothingRun \/ \E r \in Requests : RunCommand(r)
  <1> SUFFICES G
    OBVIOUS
  <1> USE DEF TypeOK, RunShape, NothingRun, Phases, processVars, requestVars
  <1>1. ASSUME NEW r \in Requests, Arrive(r), UNCHANGED job PROVE G
    BY <1>1 DEF Arrive, LoopFree
  <1>2. ASSUME NEW r \in Requests, ReceiveBody(r), UNCHANGED job PROVE G
    BY <1>2 DEF ReceiveBody, LoopFree
  <1>3. ASSUME NEW r \in Requests, Limit(r), UNCHANGED job PROVE G
    BY <1>3 DEF Limit, LoopFree, Finish
  <1>4. ASSUME NEW r \in Requests, VerifyToken(r), UNCHANGED job PROVE G
    BY <1>4 DEF VerifyToken, LoopFree, Finish
  <1>5. ASSUME NEW r \in Requests, StartCommands(r), UNCHANGED job PROVE G
    BY <1>5 DEF StartCommands, LoopFree
  <1>6. ASSUME NEW r \in Requests, RunCommand(r), UNCHANGED job PROVE G
    BY <1>6
  <1>7. ASSUME NEW r \in Requests, Handle(r), UNCHANGED job PROVE G
    BY <1>7 DEF Handle, LoopFree, Finish
  <1>8. ASSUME NEW r \in Requests, Reply(r), UNCHANGED job PROVE G
    BY <1>8 DEF Reply, LoopFree
  <1>9. ASSUME NEW r \in Requests, WriteEntry(r), UNCHANGED job PROVE G
    BY <1>9 DEF WriteEntry, LoopFree, EntryDue
  <1>10. ASSUME NEW r \in Requests, Escape(r), UNCHANGED job PROVE G
    BY <1>10 DEF Escape, LoopFree
  <1>11. ASSUME Start, UNCHANGED job PROVE G
    BY <1>11 DEF Start, StartTray
  <1>12. ASSUME RunTray, UNCHANGED job PROVE G
    BY <1>12 DEF RunTray
  <1>13. ASSUME Signal, UNCHANGED job PROVE G
    BY <1>13 DEF Signal
  <1>14. ASSUME QuitFromTray, UNCHANGED job PROVE G
    BY <1>14 DEF QuitFromTray
  <1>15. ASSUME StopAccepting, UNCHANGED job PROVE G
    BY <1>15 DEF StopAccepting, LoopFree
  <1>16. ASSUME Shutdown, UNCHANGED job PROVE G
    BY <1>16 DEF Shutdown, LoopFree, Drained
  <1>17. ASSUME ForceShutdown, UNCHANGED job PROVE G
    BY <1>17 DEF ForceShutdown, LoopFree
  <1>18. ASSUME StopTray, UNCHANGED job PROVE G
    BY <1>18 DEF StopTray
  <1>19. ASSUME Kill, UNCHANGED job PROVE G
    BY <1>19 DEF Kill, Alive
  <1>20. ASSUME ThreadEnds, UNCHANGED job PROVE G
    BY <1>20 DEF ThreadEnds
  <1>21. ASSUME Exit, UNCHANGED job PROVE G
    BY <1>21 DEF Exit
  <1>22. CASE UNCHANGED vars
    BY <1>22 DEF vars
  <1> QED
    BY <1>1, <1>2, <1>3, <1>4, <1>5, <1>6, <1>7, <1>8, <1>9, <1>10, <1>11, <1>12, <1>13, <1>14, <1>15, <1>16, <1>17, <1>18, <1>19, <1>20, <1>21, <1>22 DEF Next, RequestStep, ProcessStep, Environment

\* A step that runs no command keeps the batch invariant.
LEMMA NothingRunStep ==
  ASSUME TypeOK, BatchInv, [Next]_vars, NothingRun
  PROVE  BatchInv'
  <1>1. job' = job /\ ran' = ran
    BY JobKept DEF NothingRun
  <1>2. \A q \in Requests : Own(q)' = Own(q) /\ RunBy(q)' = RunBy(q)
    BY <1>1 DEF Own, RunBy
  <1>3. RunShape'
    BY <1>1, <1>2 DEF BatchInv, RunShape, NothingRun
  <1>4. ASSUME NEW q \in Requests, job[q].route = "exec" PROVE Reported(q)'
    <2>1. Reported(q) /\ (Own(q) # {} => whole'[q] = whole[q])
      BY <1>4, ReportedForAll DEF BatchInv, RunShape, NothingRun
    <2>2. status'[q] = 200 => status[q] = 200
      BY <1>4 DEF NothingRun
    <2> QED
      BY <1>1, <1>2, <2>1, <2>2 DEF Reported
  <1> QED
    BY <1>1, <1>3, <1>4, ReportedForAll DEF BatchInv

\* A command that runs is the next one of the only request that runs any.
LEMMA CommandStep ==
  ASSUME TypeOK, TypeOK', ChainShape, BatchInv, job' = job, NEW r \in Requests, RunCommand(r)
  PROVE  BatchInv'
  <1> DEFINE n == Len(ran) + 1
             i == RunBy(r) + 1
  <1>1. /\ phase[r] = "running" /\ loop = r /\ status[r] = 0 /\ whole' = whole
        /\ \A q \in Requests \ {r} : phase[q] # "running"
    BY DEF RunCommand, TypeOK, ChainShape
  <1>2. /\ \A q \in Requests \ {r} : phase'[q] = phase[q] /\ status'[q] = status[q]
        /\ phase'[r] \in {"running", "reply"}
    BY <1>1 DEF RunCommand, Finish, TypeOK
  <1>3. CASE ran' = ran /\ Finish(r, 400)
    <2>1. phase'[r] = "reply" /\ status'[r] = 400
      BY <1>3 DEF Finish, TypeOK
    <2>2. \A q \in Requests : Own(q)' = Own(q) /\ RunBy(q)' = RunBy(q)
      BY <1>3 DEF Own, RunBy
    <2>3. RunShape'
      BY <1>1, <1>2, <1>3, <2>1, <2>2 DEF BatchInv, RunShape
    <2>4. \A q \in Requests : job[q].route = "exec" => Reported(q)'
      BY <1>1, <1>2, <1>3, <2>1, <2>2, ReportedForAll DEF BatchInv, Reported
    <2> QED
      BY <2>3, <2>4, ReportedForAll DEF BatchInv
  <1>4. CASE /\ ran' = Append(ran, <<r, i>>)
             /\ IF Last(r, i) THEN Finish(r, 200) /\ loop' = None
                              ELSE UNCHANGED <<phase, status, loop>>
    <2>1. i \in Nat \ {0}
      BY RunByNat
    <2>2. /\ Len(ran) \in Nat /\ Len(ran') = n
          /\ Own(r)' = Own(r) \cup {n} /\ RunBy(r)' = i
          /\ \A q \in Requests \ {r} : Own(q)' = Own(q) /\ RunBy(q)' = RunBy(q)
          /\ \A q \in Requests : Own(q) \subseteq 1..Len(ran)
          /\ \A k \in 1..Len(ran) : ran'[k] = ran[k]
          /\ ran'[n] = <<r, i>>
      BY <1>4, <2>1, OwnAppended
    <2>3. \/ Last(r, i) /\ phase'[r] = "reply" /\ status'[r] = 200
          \/ ~Last(r, i) /\ phase'[r] = "running" /\ status'[r] = 0
      BY <1>1, <1>4 DEF Finish, TypeOK
    <2>4. ASSUME job[r].route = "exec"
          PROVE  /\ \A j \in Own(r) : i = ran[j][2] + (n - j)
                 /\ Own(r) = {} => i = 1
                 /\ job[r].stopOnError =>
                        \A j \in Own(r) : job[r].commands[ran[j][2]] = "succeeds"
                 /\ whole[r]
      <3>1. /\ whole[r]
            /\ Own(r) # {} =>
                  /\ ran[Len(ran)] = <<r, RunBy(r)>>
                  /\ job[r].stopOnError =>
                         \A k \in Own(r) : job[r].commands[ran[k][2]] = "succeeds"
        BY <1>1, <2>4 DEF BatchInv, RunShape
      <3>2. Own(r) = {} => i = 1
        <4>1. RunBy(r) = Cardinality(Own(r))
          BY DEF RunBy, Own
        <4> QED
          BY <4>1, FS_EmptySet
      <3>3. ASSUME NEW j \in Own(r) PROVE i = ran[j][2] + (n - j)
        <4>1. Len(ran) \in Own(r) /\ ran[Len(ran)][2] = RunBy(r) /\ RunBy(r) \in Nat
          <5>1. Len(ran) \in DOMAIN ran
            BY <2>2, <3>3 DEF Own, TypeOK
          <5> QED
            BY <3>1, <3>3, <5>1, RunByNat DEF Own
        <4>2. j \in 1..Len(ran) /\ ran[j][2] \in Nat
          BY <2>2, <3>3 DEF TypeOK
        <4>3. Reported(r)
          BY <2>4, ReportedForAll DEF BatchInv
        <4>4. j < Len(ran) => RunBy(r) = ran[j][2] + (Len(ran) - j)
          BY <4>1, <4>3 DEF Reported
        <4>5. CASE j < Len(ran)
          BY <2>2, <4>1, <4>2, <4>4, <4>5
        <4>6. CASE j = Len(ran)
          BY <2>2, <4>1, <4>6
        <4> QED
          BY <2>2, <4>2, <4>5, <4>6
      <3> QED
        BY <3>1, <3>2, <3>3
    <2>5. ASSUME NEW q \in Requests \ {r}, job[q].route = "exec" PROVE Reported(q)'
      <3>1. Reported(q) /\ Own(q)' = Own(q) /\ \A k \in Own(q) : ran'[k] = ran[k]
        BY <2>2, <2>5, ReportedForAll DEF BatchInv
      <3> QED
        BY <1>1, <1>2, <3>1 DEF Reported
    <2>6. ASSUME job[r].route = "exec" PROVE Reported(r)'
      <3>1. Reported(r) /\ \A k \in Own(r) : ran'[k] = ran[k] /\ k < n
        BY <2>2, <2>6, ReportedForAll DEF BatchInv
      <3>2. \A j, k \in Own(r)' : j < k =>
                /\ ran'[k][2] = ran'[j][2] + (k - j)
                /\ job[r].stopOnError => job[r].commands[ran'[j][2]] = "succeeds"
        <4> SUFFICES ASSUME NEW j \in Own(r)', NEW k \in Own(r)', j < k
                     PROVE  /\ ran'[k][2] = ran'[j][2] + (k - j)
                            /\ job[r].stopOnError => job[r].commands[ran'[j][2]] = "succeeds"
          OBVIOUS
        <4>1. CASE k \in Own(r)
          <5>1. j \in Own(r)
            BY <2>2, <3>1, <4>1
          <5> QED
            BY <3>1, <4>1, <5>1 DEF Reported
        <4>2. CASE k = n
          <5>1. j \in Own(r)
            BY <2>2, <4>2
          <5> QED
            BY <2>2, <2>4, <2>6, <3>1, <4>2, <5>1
        <4> QED
          BY <2>2, <4>1, <4>2
      <3>3. Own(r)' # {} => whole'[r] /\ \E k \in Own(r)' : ran'[k][2] = 1
        <4>1. CASE Own(r) = {}
          BY <1>1, <2>2, <2>4, <2>6, <4>1
        <4>2. CASE Own(r) # {}
          BY <1>1, <2>2, <2>4, <2>6, <3>1, <4>2 DEF Reported
        <4> QED
          BY <4>1, <4>2
      <3>4. status'[r] = 200 => \E k \in Own(r)' :
                \/ ran'[k][2] = Len(job[r].commands)
                \/ job[r].stopOnError /\ job[r].commands[ran'[k][2]] # "succeeds"
        BY <2>2, <2>3 DEF Last
      <3> QED
        BY <3>2, <3>3, <3>4 DEF Reported
    <2>7. ASSUME job[r].route = "exec", phase'[r] = "running"
          PROVE  /\ whole'[r] /\ ran'[Len(ran')] = <<r, RunBy(r)'>>
                 /\ job[r].stopOnError =>
                        \A k \in Own(r)' : job[r].commands[ran'[k][2]] = "succeeds"
      <3>1. ~Last(r, i)
        BY <2>3, <2>7
      <3>2. job[r].stopOnError => job[r].commands[i] = "succeeds"
        BY <3>1 DEF Last
      <3> QED
        BY <1>1, <2>2, <2>4, <2>7, <3>2
    <2>8. RunShape'
      BY <1>1, <1>2, <2>2, <2>7 DEF BatchInv, RunShape
    <2> QED
      BY <2>5, <2>6, <2>8, ReportedForAll DEF BatchInv
  <1> QED
    BY <1>3, <1>4 DEF RunCommand

\* Every action keeps the batch invariant.
LEMMA BatchStep ==
  TypeOK /\ ChainShape /\ BatchInv /\ [Next]_vars => BatchInv'
  <1> SUFFICES ASSUME TypeOK, ChainShape, BatchInv, [Next]_vars PROVE BatchInv'
    OBVIOUS
  <1>1. CASE NothingRun
    BY <1>1, NothingRunStep
  <1>2. ASSUME NEW r \in Requests, RunCommand(r) PROVE BatchInv'
    BY <1>2, CommandStep, JobKept, TypeStep
  <1> QED
    BY <1>1, <1>2, NothingElseRun DEF BatchInv

\* The commands of a request run in order and together, after its whole body has
\* arrived, and an answer 200 reports all it should.
THEOREM BatchAsReportedHolds == Spec => []BatchAsReported
  <1>1. Init => BatchInv
    <2> SUFFICES ASSUME Init PROVE BatchInv
      OBVIOUS
    <2>1. DOMAIN ran = {} /\ \A q \in Requests : status[q] = 0 /\ phase[q] = "new"
      BY DEF Init
    <2> QED
      BY <2>1 DEF BatchInv, RunShape, BatchAsReported, Own
  <1>2. AuditInv => TypeOK /\ ChainShape
    BY DEF AuditInv
  <1>3. BatchInv => BatchAsReported
    BY DEF BatchInv
  <1> QED
    BY <1>1, <1>2, <1>3, AuditInvariant, BatchStep, PTL DEF Spec

-----------------------------------------------------------------------------
(* The part of QuitStops that needs no fairness: the event loop is never held  *)
(* by a request that has nothing left to run, and a server that drains waits   *)
(* for requests only that can move.                                            *)

\* While the server serves or drains, either the request that holds the loop has a
\* command left, or the loop is free and every request that is not over is at a
\* place of the chain where the loop, its client or its own next step moves it on
\* (the body may never come, and the command may be one that does not end).
NeverWedged ==
    server \in {"serving", "draining"} =>
        \/ /\ loop \in Requests /\ phase[loop] = "running"
           /\ RunBy(loop) < Len(job[loop].commands)
        \/ /\ loop = None
           /\ \A r \in Requests : phase[r] \notin {"running", "cancelled"}

\* Who holds the loop, and how far a batch can have come.
HeldShape ==
    /\ loop # None => phase[loop] = "running"
    /\ \A r \in Requests : phase[r] = "running" =>
           job[r].route = "exec" /\ RunBy(r) < Len(job[r].commands)
    /\ server \in {"starting", "serving", "draining"} =>
           \A r \in Requests : phase[r] # "cancelled"

\* A step that runs no command: a request starts its commands only from its
\* handler, and takes the loop with it.
NoneRun ==
    /\ ran' = ran
    /\ loop' # None => phase'[loop'] = "running"
    /\ \A q \in Requests : phase'[q] = "running" =>
           phase[q] = "running" \/ (phase[q] = "handler" /\ job[q].route = "exec")
    /\ server' \in {"starting", "serving", "draining"} =>
           \A q \in Requests : phase'[q] # "cancelled"

\* Only RunCommand runs commands.
LEMMA NoneRunStep ==
  ASSUME TypeOK, HeldShape, [Next]_vars
  PROVE  NoneRun \/ \E r \in Requests : RunCommand(r)
  <1> DEFINE G == NoneRun \/ \E r \in Requests : RunCommand(r)
  <1> SUFFICES G
    OBVIOUS
  <1> USE ServerAssumption DEF TypeOK, HeldShape, NoneRun, Phases, Servers, processVars, requestVars
  <1>1. ASSUME NEW r \in Requests, Arrive(r), UNCHANGED job PROVE G
    BY <1>1 DEF Arrive, LoopFree
  <1>2. ASSUME NEW r \in Requests, ReceiveBody(r), UNCHANGED job PROVE G
    BY <1>2 DEF ReceiveBody, LoopFree
  <1>3. ASSUME NEW r \in Requests, Limit(r), UNCHANGED job PROVE G
    BY <1>3 DEF Limit, LoopFree, Finish
  <1>4. ASSUME NEW r \in Requests, VerifyToken(r), UNCHANGED job PROVE G
    BY <1>4 DEF VerifyToken, LoopFree, Finish
  <1>5. ASSUME NEW r \in Requests, StartCommands(r), UNCHANGED job PROVE G
    BY <1>5 DEF StartCommands, LoopFree
  <1>6. ASSUME NEW r \in Requests, Handle(r), UNCHANGED job PROVE G
    BY <1>6 DEF Handle, LoopFree, Finish
  <1>7. ASSUME NEW r \in Requests, Reply(r), UNCHANGED job PROVE G
    BY <1>7 DEF Reply, LoopFree
  <1>8. ASSUME NEW r \in Requests, WriteEntry(r), UNCHANGED job PROVE G
    BY <1>8 DEF WriteEntry, LoopFree, EntryDue
  <1>9. ASSUME NEW r \in Requests, Escape(r), UNCHANGED job PROVE G
    BY <1>9 DEF Escape, LoopFree
  <1>10. ASSUME NEW r \in Requests, RunCommand(r), UNCHANGED job PROVE G
    BY <1>10
  <1>11. ASSUME Start, UNCHANGED job PROVE G
    BY <1>11 DEF Start, StartTray
  <1>12. ASSUME RunTray, UNCHANGED job PROVE G
    BY <1>12 DEF RunTray, Alive
  <1>13. ASSUME Signal, UNCHANGED job PROVE G
    BY <1>13 DEF Signal
  <1>14. ASSUME QuitFromTray, UNCHANGED job PROVE G
    BY <1>14 DEF QuitFromTray
  <1>15. ASSUME StopAccepting, UNCHANGED job PROVE G
    BY <1>15 DEF StopAccepting, LoopFree
  <1>16. ASSUME Shutdown, UNCHANGED job PROVE G
    BY <1>16 DEF Shutdown, LoopFree, Drained
  <1>17. ASSUME ForceShutdown, UNCHANGED job PROVE G
    BY <1>17 DEF ForceShutdown, LoopFree
  <1>18. ASSUME StopTray, UNCHANGED job PROVE G
    BY <1>18 DEF StopTray
  <1>19. ASSUME Kill, UNCHANGED job PROVE G
    BY <1>19 DEF Kill, Alive
  <1>20. ASSUME ThreadEnds, UNCHANGED job PROVE G
    BY <1>20 DEF ThreadEnds
  <1>21. ASSUME Exit, UNCHANGED job PROVE G
    BY <1>21 DEF Exit
  <1>22. CASE UNCHANGED vars
    BY <1>22 DEF vars
  <1> QED
    BY <1>1, <1>2, <1>3, <1>4, <1>5, <1>6, <1>7, <1>8, <1>9, <1>10, <1>11, <1>12, <1>13, <1>14, <1>15, <1>16, <1>17, <1>18, <1>19, <1>20, <1>21, <1>22 DEF Next, RequestStep, ProcessStep, Environment

\* A request that has run nothing has its whole batch in front of it, which is not
\* empty.
LEMMA BatchAhead ==
  ASSUME TypeOK, RunShape, NEW r \in Requests, phase[r] = "handler", job[r].route = "exec"
  PROVE  RunBy(r) = 0 /\ 0 < Len(job[r].commands)
  <1>1. Own(r) = {} /\ RunBy(r) = Cardinality(Own(r))
    BY DEF RunShape, Own, RunBy
  <1>2. RunBy(r) = 0
    BY <1>1, FS_EmptySet
  <1>3. job[r].commands \in Seq(Commands) /\ job[r].commands # <<>>
    BY ServerAssumption, BatchAssumption DEF TypeOK, Jobs
  <1>4. Len(job[r].commands) # 0 /\ Len(job[r].commands) \in Nat
    BY <1>3
  <1> QED
    BY <1>2, <1>4

\* Every action keeps HeldShape: after the last command the loop is given back.
LEMMA HeldStep ==
  TypeOK /\ RunShape /\ HeldShape /\ [Next]_vars => HeldShape'
  <1> SUFFICES ASSUME TypeOK, RunShape, HeldShape, [Next]_vars PROVE HeldShape'
    OBVIOUS
  <1>1. TypeOK' /\ job' = job
    BY TypeStep, JobKept
  <1>2. CASE NoneRun
    <2>1. \A q \in Requests : RunBy(q)' = RunBy(q)
      BY <1>2 DEF NoneRun, RunBy
    <2>2. ASSUME NEW q \in Requests, phase'[q] = "running"
          PROVE  job[q].route = "exec" /\ RunBy(q) < Len(job[q].commands)
      BY <1>2, <2>2, BatchAhead DEF NoneRun, HeldShape
    <2> QED
      BY <1>1, <1>2, <2>1, <2>2 DEF NoneRun, HeldShape
  <1>3. ASSUME NEW r \in Requests, RunCommand(r) PROVE HeldShape'
    <2> DEFINE i == RunBy(r) + 1
    <2>1. /\ phase[r] = "running" /\ loop = r /\ server' = server
          /\ \A q \in Requests \ {r} : phase'[q] = phase[q] /\ phase[q] # "running"
          /\ phase'[r] \in {"running", "reply"}
      BY <1>3 DEF RunCommand, Finish, TypeOK, processVars
    <2>2. CASE phase'[r] = "reply"
      <3>1. loop' = None
        BY <1>3, <2>1, <2>2 DEF RunCommand
      <3> QED
        BY <2>1, <2>2, <3>1 DEF HeldShape
    <2>3. CASE phase'[r] = "running"
      <3>1. ran' = Append(ran, <<r, i>>) /\ ~Last(r, i) /\ loop' = loop
        BY <1>3, <2>3 DEF RunCommand, Finish, TypeOK
      <3>2. i \in Nat \ {0}
        BY RunByNat
      <3>3. RunBy(r)' = i
        BY <1>1, <3>1, <3>2, OwnAppended
      <3>4. i < Len(job[r].commands)
        <4>1. Len(job[r].commands) \in Nat /\ RunBy(r) < Len(job[r].commands)
          BY <2>1, ServerAssumption DEF HeldShape, TypeOK, Jobs
        <4> QED
          BY <3>1, <3>2, <4>1, RunByNat DEF Last
      <3> QED
        BY <1>1, <2>1, <2>3, <3>1, <3>3, <3>4 DEF HeldShape
    <2> QED
      BY <2>1, <2>2, <2>3
  <1> QED
    BY <1>2, <1>3, NoneRunStep

\* The loop always comes back from a batch, and a draining server is never left
\* with a request that cannot move.
THEOREM NeverWedgedHolds == Spec => []NeverWedged
  <1>1. Init => BatchInv /\ HeldShape
    <2> SUFFICES ASSUME Init PROVE BatchInv /\ HeldShape
      OBVIOUS
    <2>1. DOMAIN ran = {} /\ \A q \in Requests : status[q] = 0 /\ phase[q] = "new"
      BY DEF Init
    <2>2. loop = None
      BY DEF Init
    <2> QED
      BY <2>1, <2>2 DEF BatchInv, RunShape, BatchAsReported, Own, HeldShape
  <1>2. AuditInv => TypeOK /\ ChainShape
    BY DEF AuditInv
  <1>3. TypeOK /\ BatchInv /\ HeldShape /\ [Next]_vars => HeldShape'
    BY HeldStep DEF BatchInv
  <1>4. TypeOK /\ HeldShape => NeverWedged
    BY DEF TypeOK, HeldShape, NeverWedged
  <1> QED
    BY <1>1, <1>2, <1>3, <1>4, AuditInvariant, BatchStep, PTL DEF Spec
=============================================================================
