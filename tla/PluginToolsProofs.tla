--------------------------- MODULE PluginToolsProofs ---------------------------
(* Proofs about PluginTools for any calls, agents and machines: a call raises  *)
(* only against its schema, each request is handled at most once, at the agent *)
(* it is meant for and on a route the agent has, and a result tells what the   *)
(* request did to the machine.                                                 *)
EXTENDS PluginTools, TLAPS

-----------------------------------------------------------------------------
(* The tables.                                                              *)

Routes == {h[2] : h \in Handlers}

NotFoundRoutes == {"GET:/file", "POST:/file/delete", "POST:/window/focus", "POST:/process/kill"}

\* The routes with outcomes of their own.
WindowRoutes == {"GET:/window/active", "GET:/window/list"}
OneRoutes == WindowRoutes \cup
             {"POST:/window/focus", "GET:/file", "GET:/file/read", "PUT:/file",
              "POST:/file/delete", "GET:/screenshot", "POST:/process/kill", "POST:/exec",
              "POST:/exec/batch"}

\* Every tool has a route.
LEMMA RouteKnown == \A tool \in Tools : Route(tool) \in Routes
  <1> SUFFICES ASSUME NEW tool \in Tools PROVE Route(tool) \in Routes
    OBVIOUS
  <1>1. \E h \in Handlers : h[1] = tool
    BY DEF Tools
  <1>2. (CHOOSE h \in Handlers : h[1] = tool) \in Handlers
    BY <1>1
  <1> QED
    BY <1>2 DEF Route, Routes

\* A handler reads no argument without a default that its schema does not require.
LEMMA ReadIsRequired == \A c \in Calls : Brings(c, Required) => Brings(c, Read)
  <1>1. Read \subseteq Required
    BY DEF Read, Required
  <1> QED
    BY <1>1 DEF Brings

\* A screenshot changes nothing, and there is nothing it could not find.
LEMMA ScreenshotAnswers ==
  ASSUME NEW m, NEW options, NEW o \in Screenshot(m, options)
  PROVE  o.machine = m /\ o.status \in {200, 400, 422, 500, 503}
  <1>1. \A codes, n : \A a \in Answers(codes, n) : a.status \in codes /\ a.machine = n
    BY DEF Answers
  <1>2. CASE options = "bad_format"
    <2>1. Screenshot(m, options) = Answers({422}, m)
      BY <1>2 DEF Screenshot
    <2> QED
      BY <1>1, <2>1
  <1>3. CASE options # "bad_format" /\ m.screen = "none"
    <2>1. Screenshot(m, options) = Answers({503}, m)
      BY <1>3 DEF Screenshot
    <2> QED
      BY <1>1, <2>1
  <1>4. CASE options # "bad_format" /\ m.screen # "none"
    <2> DEFINE failed == IF m.screen = "display" THEN {503, 500} ELSE {500}
               shot == IF "pillow" \notin m.modules THEN {}
                       ELSE IF options = "bad_region" THEN {400} ELSE {200}
    <2>1. Screenshot(m, options) = Answers(failed \cup shot, m)
      BY <1>4 DEF Screenshot
    <2>2. o.machine = m /\ o.status \in failed \cup shot
      <3> HIDE DEF failed, shot
      <3> QED
        BY <1>1, <2>1
    <2> QED
      BY <2>2
  <1> QED
    BY <1>2, <1>3, <1>4

\* A command is refused, has run, or is reported with -1.
LEMMA ExecAnswers ==
  ASSUME NEW m, NEW command, NEW o \in Exec(m, command)
  PROVE  \/ o.status = 400 /\ o.machine = m
         \/ o.status = 200 /\ o.machine \in AfterRunning(m, command)
         \/ o.status = 200 /\ o.machine = m /\ o.report = "minus_one"
  <1>1. \A codes, n : \A a \in Answers(codes, n) : a.status \in codes /\ a.machine = n
    BY DEF Answers
  <1>2. \A report, S : \A a \in Reports(report, S) :
            a.status = 200 /\ a.report = report /\ a.machine \in S
    BY DEF Reports
  <1> QED
    BY <1>1, <1>2 DEF Exec

\* Of a batch, a number of commands has run: one at least, if it is not refused and
\* no command is reported with -1.
LEMMA BatchAnswers ==
  ASSUME NEW m, NEW commands, NEW o \in ExecBatch(m, commands)
  PROVE  \/ o.status = 422 /\ o.machine = m
         \/ \E j \in Nat :
                /\ o.machine = Ran(m, j)
                /\ o.status = 400 \/ (o.status = 200 /\ (j # 0 \/ o.report = "minus_one"))
  <1> DEFINE After(counts) == {Ran(m, k) : k \in counts}
             turns == Turns(commands)
  <1>1. \A codes, n : \A a \in Answers(codes, n) : a.status \in codes /\ a.machine = n
    BY DEF Answers
  <1>2. \A report, S : \A a \in Reports(report, S) :
            a.status = 200 /\ a.report = report /\ a.machine \in S
    BY DEF Reports
  <1>3. turns \subseteq Nat
    BY DEF Turns
  <1>4. \/ o \in Answers({422}, m)
        \/ o \in Reports("plain", After(turns \ {0}))
        \/ o \in Reports("minus_one", After(turns))
        \/ o \in UNION {Answers({400}, n) : n \in After(turns)}
    BY Zenon DEF ExecBatch
  <1> HIDE DEF turns
  <1>5. CASE o \in Answers({422}, m)
    BY <1>1, <1>5
  <1>6. CASE o \in Reports("plain", After(turns \ {0}))
    <2>1. o.status = 200 /\ o.machine \in After(turns \ {0})
      BY <1>2, <1>6
    <2> QED
      BY <1>3, <2>1
  <1>7. CASE o \in Reports("minus_one", After(turns))
    <2>1. o.status = 200 /\ o.report = "minus_one" /\ o.machine \in After(turns)
      BY <1>2, <1>7
    <2>2. PICK k \in turns : o.machine = Ran(m, k)
      BY <2>1
    <2> QED
      BY <1>3, <2>1, <2>2
  <1>8. CASE o \in UNION {Answers({400}, n) : n \in After(turns)}
    <2>1. \E n \in After(turns) : o.status = 400 /\ o.machine = n
      BY <1>1, <1>8
    <2>2. PICK k \in turns : o.status = 400 /\ o.machine = Ran(m, k)
      BY <2>1
    <2> QED
      BY <1>3, <2>2
  <1> QED
    BY <1>4, <1>5, <1>6, <1>7, <1>8

\* Which handler serves a request.
Dispatched(m, q) ==
    \/ q.route \in InfoRoutes /\ Outcomes(m, q) = Answers({200, 500}, m)
    \/ q.route \in InputRoutes /\ Outcomes(m, q) = Input(m)
    \/ q.route \in KeyRoutes /\ Outcomes(m, q) = Keys(m, q.arg)
    \/ q.route \in WindowRoutes /\ Outcomes(m, q) = LookAtWindows(m)
    \/ q.route = "POST:/window/focus" /\ Outcomes(m, q) = FocusWindow(m, q.arg)
    \/ q.route = "GET:/file" /\ Outcomes(m, q) = ReadFile(m, q.arg)
    \/ q.route = "PUT:/file" /\ Outcomes(m, q) = WriteFile(m, q.arg)
    \/ q.route = "POST:/file/delete" /\ Outcomes(m, q) = DeleteFile(m, q.arg)
    \/ q.route = "GET:/screenshot" /\ Outcomes(m, q) = Screenshot(m, q.arg)
    \/ q.route = "POST:/process/kill" /\ Outcomes(m, q) = Kill(m, q.arg)
    \/ q.route = "POST:/exec" /\ Outcomes(m, q) = Exec(m, q.arg)
    \/ q.route = "POST:/exec/batch" /\ Outcomes(m, q) = ExecBatch(m, q.arg)

\* Every route of a tool has a handler on the agent.
LEMMA Dispatch ==
  ASSUME NEW m, NEW q, q.route \in Routes
  PROVE  Dispatched(m, q)
  <1>1. q.route \in InfoRoutes \cup InputRoutes \cup KeyRoutes \cup OneRoutes
    <2>1. \A h \in Handlers : h[2] \in InfoRoutes \cup InputRoutes \cup KeyRoutes \cup OneRoutes
      BY DEF Handlers, InfoRoutes, InputRoutes, KeyRoutes, OneRoutes, WindowRoutes
    <2> QED
      BY <2>1 DEF Routes
  <1>2. CASE q.route \in InfoRoutes
    <2>1. q.route \notin InputRoutes \cup KeyRoutes \cup OneRoutes
      BY <1>2 DEF InfoRoutes, InputRoutes, KeyRoutes, OneRoutes, WindowRoutes
    <2>2. Outcomes(m, q) = Answers({200, 500}, m)
      BY <1>2, <2>1 DEF Outcomes, OneRoutes, WindowRoutes
    <2> QED
      BY <1>2, <2>2 DEF Dispatched
  <1>3. CASE q.route \in InputRoutes
    <2>1. q.route \notin InfoRoutes \cup KeyRoutes \cup OneRoutes
      BY <1>3 DEF InfoRoutes, InputRoutes, KeyRoutes, OneRoutes, WindowRoutes
    <2>2. Outcomes(m, q) = Input(m)
      BY <1>3, <2>1 DEF Outcomes, OneRoutes, WindowRoutes
    <2> QED
      BY <1>3, <2>2 DEF Dispatched
  <1>4. CASE q.route \in KeyRoutes
    <2>1. q.route \notin InfoRoutes \cup InputRoutes \cup OneRoutes
      BY <1>4 DEF InfoRoutes, InputRoutes, KeyRoutes, OneRoutes, WindowRoutes
    <2>2. Outcomes(m, q) = Keys(m, q.arg)
      BY <1>4, <2>1 DEF Outcomes, OneRoutes, WindowRoutes
    <2> QED
      BY <1>4, <2>2 DEF Dispatched
  <1>5. CASE q.route \in OneRoutes
    <2>1. q.route \notin InfoRoutes \cup InputRoutes \cup KeyRoutes
      BY <1>5 DEF InfoRoutes, InputRoutes, KeyRoutes, OneRoutes, WindowRoutes
    <2>2. q.route # "GET:/file/read"
      <3>1. \A h \in Handlers : h[2] # "GET:/file/read"
        BY DEF Handlers
      <3> QED
        BY <3>1 DEF Routes
    <2>3. CASE q.route \in WindowRoutes
      <3>1. Outcomes(m, q) = LookAtWindows(m)
        BY <2>1, <2>3 DEF Outcomes, WindowRoutes
      <3> QED
        BY <2>3, <3>1 DEF Dispatched
    <2>4. CASE q.route = "POST:/window/focus"
      <3>1. Outcomes(m, q) = FocusWindow(m, q.arg)
        BY <2>1, <2>4 DEF Outcomes, WindowRoutes
      <3> QED
        BY <2>4, <3>1 DEF Dispatched
    <2>5. CASE q.route = "GET:/file"
      <3>1. Outcomes(m, q) = ReadFile(m, q.arg)
        BY <2>1, <2>5 DEF Outcomes, WindowRoutes
      <3> QED
        BY <2>5, <3>1 DEF Dispatched
    <2>6. CASE q.route = "PUT:/file"
      <3>1. Outcomes(m, q) = WriteFile(m, q.arg)
        BY <2>1, <2>6 DEF Outcomes, WindowRoutes
      <3> QED
        BY <2>6, <3>1 DEF Dispatched
    <2>7. CASE q.route = "POST:/file/delete"
      <3>1. Outcomes(m, q) = DeleteFile(m, q.arg)
        BY <2>1, <2>7 DEF Outcomes, WindowRoutes
      <3> QED
        BY <2>7, <3>1 DEF Dispatched
    <2>8. CASE q.route = "GET:/screenshot"
      <3>1. Outcomes(m, q) = Screenshot(m, q.arg)
        BY <2>1, <2>8 DEF Outcomes, WindowRoutes
      <3> QED
        BY <2>8, <3>1 DEF Dispatched
    <2>9. CASE q.route = "POST:/process/kill"
      <3>1. Outcomes(m, q) = Kill(m, q.arg)
        BY <2>1, <2>9 DEF Outcomes, WindowRoutes
      <3> QED
        BY <2>9, <3>1 DEF Dispatched
    <2>10. CASE q.route = "POST:/exec"
      <3>1. Outcomes(m, q) = Exec(m, q.arg)
        BY <2>1, <2>10 DEF Outcomes, WindowRoutes
      <3> QED
        BY <2>10, <3>1 DEF Dispatched
    <2>11. CASE q.route = "POST:/exec/batch"
      <3>1. Outcomes(m, q) = ExecBatch(m, q.arg)
        BY <2>1, <2>11 DEF Outcomes, WindowRoutes
      <3> QED
        BY <2>11, <3>1 DEF Dispatched
    <2> QED
      BY <1>5, <2>2, <2>3, <2>4, <2>5, <2>6, <2>7, <2>8, <2>9, <2>10, <2>11
         DEF OneRoutes, WindowRoutes
  <1> QED
    BY <1>1, <1>2, <1>3, <1>4, <1>5

\* The routes of the tools answer 404 only about a file, a window or a process.
LEMMA NotFound ==
  ASSUME NEW m, NEW q, q.route \in Routes, NEW o \in Outcomes(m, q) \cup Answers({429}, m),
         o.status = 404
  PROVE  q.route \in NotFoundRoutes
  <1> SUFFICES ASSUME q.route \notin NotFoundRoutes PROVE FALSE
    OBVIOUS
  <1>1. \A codes, n : \A a \in Answers(codes, n) : a.status \in codes
    BY DEF Answers
  <1>2. o \in Outcomes(m, q)
    BY <1>1
  <1>3. CASE Outcomes(m, q) = Answers({200, 500}, m)
    BY <1>1, <1>2, <1>3
  <1>4. CASE Outcomes(m, q) = Input(m)
    BY <1>1, <1>2, <1>4 DEF Input
  <1>5. CASE Outcomes(m, q) = Keys(m, q.arg)
    BY <1>1, <1>2, <1>5 DEF Keys, Input
  <1>6. CASE Outcomes(m, q) = LookAtWindows(m)
    BY <1>1, <1>2, <1>6 DEF LookAtWindows
  <1>7. CASE Outcomes(m, q) = WriteFile(m, q.arg)
    BY <1>1, <1>2, <1>7 DEF WriteFile
  <1>8. CASE Outcomes(m, q) = Screenshot(m, q.arg)
    BY <1>2, <1>8, ScreenshotAnswers
  <1>9. CASE Outcomes(m, q) = Exec(m, q.arg)
    BY <1>2, <1>9, ExecAnswers
  <1>10. CASE Outcomes(m, q) = ExecBatch(m, q.arg)
    BY <1>2, <1>10, BatchAnswers
  <1> QED
    BY <1>3, <1>4, <1>5, <1>6, <1>7, <1>8, <1>9, <1>10, Dispatch DEF Dispatched, NotFoundRoutes

-----------------------------------------------------------------------------
(* What a status tells.                                                     *)

Codes == {200, 400, 403, 404, 422, 429, 500, 503}
PlainRoutes == InfoRoutes \cup InputRoutes \cup KeyRoutes \cup WindowRoutes
                   \cup {"GET:/file", "GET:/screenshot"}

\* A handled request was answered according to its effect.
TellsEffect(h) ==
    /\ h.status < 400 => h.status = 200 /\ (h.report # "minus_one" => Done(h))
    /\ 400 <= h.status /\ h.status # 500 =>
           h.after = h.before \/ h.request.route \in {"POST:/exec/batch", "POST:/process/kill"}

\* An outcome of a single answer has its status and its machine.
LEMMA AnswersAre ==
  \A codes, n : \A a \in Answers(codes, n) : a.status \in codes /\ a.machine = n
  BY DEF Answers

\* A request that only looks, or acts outside the model, leaves the machine alone.
LEMMA PlainDone ==
  ASSUME NEW h, h.request.route \in PlainRoutes, h.after = h.before
  PROVE  Done(h)
  <1>1. h.request.route \notin {"PUT:/file", "POST:/file/delete", "POST:/window/focus",
                               "POST:/process/kill", "POST:/exec", "POST:/exec/batch"}
    BY DEF PlainRoutes, InfoRoutes, InputRoutes, KeyRoutes, WindowRoutes
  <1> QED
    BY <1>1 DEF Done

\* Requests on these routes leave the machine as it was.
LEMMA PlainOutcomes ==
  ASSUME NEW m, NEW q, q.route \in PlainRoutes, NEW o \in Outcomes(m, q), q.route \in Routes
  PROVE  o.machine = m /\ o.status \in Codes
  <1>1. CASE Outcomes(m, q) = Answers({200, 500}, m)
    BY <1>1, AnswersAre DEF Codes
  <1>2. CASE Outcomes(m, q) = Input(m)
    BY <1>2, AnswersAre DEF Codes, Input
  <1>3. CASE Outcomes(m, q) = Keys(m, q.arg)
    BY <1>3, AnswersAre DEF Codes, Input, Keys
  <1>4. CASE Outcomes(m, q) = LookAtWindows(m)
    BY <1>4, AnswersAre DEF Codes, LookAtWindows
  <1>5. CASE Outcomes(m, q) = ReadFile(m, q.arg)
    BY <1>5, AnswersAre DEF Codes, ReadFile
  <1>6. CASE Outcomes(m, q) = Screenshot(m, q.arg)
    BY <1>6, ScreenshotAnswers DEF Codes
  <1>7. q.route \notin {"PUT:/file", "POST:/file/delete", "POST:/window/focus",
                       "POST:/process/kill", "POST:/exec", "POST:/exec/batch"}
    BY DEF PlainRoutes, InfoRoutes, InputRoutes, KeyRoutes, WindowRoutes
  <1> QED
    BY <1>1, <1>2, <1>3, <1>4, <1>5, <1>6, <1>7, Dispatch DEF Dispatched

\* The status of a request that an agent handled tells its effect.
LEMMA Effect ==
  ASSUME NEW h, IsMachine(h.before), h.request.route \in Routes,
         NEW o \in Outcomes(h.before, h.request) \cup Answers({429}, h.before),
         h.status = o.status, h.report = o.report, h.after = o.machine
  PROVE  IsMachine(h.after) /\ h.status \in Nat /\ TellsEffect(h)
  <1> DEFINE m == h.before
             q == h.request
  <1>1. o.status = h.status /\ o.machine = h.after
    OBVIOUS
  <1>2. CASE o \in Answers({429}, m)
    <2>1. h.status = 429 /\ h.after = h.before
      BY <1>1, <1>2, AnswersAre
    <2> QED
      BY <2>1 DEF TellsEffect
  <1>3. CASE o \in Outcomes(m, q) /\ q.route \in PlainRoutes
    <2>1. h.after = h.before /\ h.status \in Codes
      BY <1>1, <1>3, PlainOutcomes
    <2>2. Done(h)
      BY <1>3, <2>1, PlainDone
    <2> QED
      BY <2>1, <2>2 DEF TellsEffect, Codes
  <1>4. CASE q.route = "POST:/window/focus" /\ o \in FocusWindow(m, q.arg)
    <2>1. \/ \E w \in Matching(m, q.arg) :
                 \/ o \in Answers({200}, [m EXCEPT !.focused = w])
                 \/ o \in Answers({500}, [m EXCEPT !.windows = @ \ {w}])
          \/ o \in Answers({503}, m) \/ o \in Answers({400}, m)
          \/ o \in Answers({404}, m) \/ o \in Answers({500}, m)
      BY <1>4 DEF FocusWindow
    <2>2. CASE \/ o \in Answers({503}, m) \/ o \in Answers({400}, m)
               \/ o \in Answers({404}, m) \/ o \in Answers({500}, m)
      <3>1. h.after = h.before /\ h.status \in {400, 404, 500, 503}
        BY <1>1, <2>2, AnswersAre
      <3> QED
        BY <3>1 DEF TellsEffect
    <2>3. ASSUME NEW w \in Matching(m, q.arg), o \in Answers({200}, [m EXCEPT !.focused = w])
          PROVE  IsMachine(h.after) /\ h.status \in Nat /\ TellsEffect(h)
      <3> DEFINE focused == [m EXCEPT !.focused = w]
      <3>1. h.status = 200 /\ h.after = focused
        BY <1>1, <2>3, AnswersAre
      <3>2. IsMachine(focused) /\ focused.focused = w
        BY DEF IsMachine
      <3>3. <<q.arg, w>> \in Within
        BY <2>3 DEF Matching
      <3>4. <<q.arg, h.after.focused>> \in Within => Done(h)
        BY <1>4 DEF Done
      <3> HIDE DEF focused
      <3> QED
        BY <3>1, <3>2, <3>3, <3>4 DEF TellsEffect
    <2>4. ASSUME NEW w \in Matching(m, q.arg), o \in Answers({500}, [m EXCEPT !.windows = @ \ {w}])
          PROVE  IsMachine(h.after) /\ h.status \in Nat /\ TellsEffect(h)
      <3> DEFINE closed == [m EXCEPT !.windows = @ \ {w}]
      <3>1. h.status = 500 /\ h.after = closed
        BY <1>1, <2>4, AnswersAre
      <3>2. IsMachine(closed)
        BY DEF IsMachine
      <3> HIDE DEF closed
      <3> QED
        BY <3>1, <3>2 DEF TellsEffect
    <2>5. CASE \E w \in Matching(m, q.arg) :
                   \/ o \in Answers({200}, [m EXCEPT !.focused = w])
                   \/ o \in Answers({500}, [m EXCEPT !.windows = @ \ {w}])
      <3>1. PICK w \in Matching(m, q.arg) :
                   \/ o \in Answers({200}, [m EXCEPT !.focused = w])
                   \/ o \in Answers({500}, [m EXCEPT !.windows = @ \ {w}])
        BY <2>5
      <3> QED
        BY ONLY <3>1, <2>3, <2>4
    <2> QED
      BY ONLY <2>1, <2>2, <2>5
  <1>5. CASE q.route = "PUT:/file" /\ o \in WriteFile(m, q.arg)
    <2> DEFINE written == [m EXCEPT !.files = @ \cup {q.arg}]
    <2>1. \/ h.after = h.before /\ h.status \in {400, 403, 500}
          \/ h.status \in {200, 500} /\ h.after = written
      BY <1>1, <1>5, AnswersAre DEF WriteFile
    <2>2. IsMachine(written) /\ q.arg \in written.files
      BY DEF IsMachine
    <2>3. q.arg \in h.after.files => Done(h)
      BY <1>5 DEF Done
    <2> HIDE DEF written
    <2> QED
      BY <2>1, <2>2, <2>3 DEF TellsEffect
  <1>6. CASE q.route = "POST:/file/delete" /\ o \in DeleteFile(m, q.arg)
    <2> DEFINE deleted == [m EXCEPT !.files = @ \ {q.arg}]
    <2>1. \/ h.after = h.before /\ h.status \in {400, 403, 404, 500}
          \/ h.status = 200 /\ h.after = deleted
      BY <1>1, <1>6, AnswersAre DEF DeleteFile
    <2>2. IsMachine(deleted) /\ q.arg \notin deleted.files
      BY DEF IsMachine
    <2>3. q.arg \notin h.after.files => Done(h)
      BY <1>6 DEF Done
    <2> HIDE DEF deleted
    <2> QED
      BY <2>1, <2>2, <2>3 DEF TellsEffect
  <1>7. CASE q.route = "POST:/process/kill" /\ o \in Kill(m, q.arg)
    <2> DEFINE gone == [m EXCEPT !.procs = @ \ {q.arg}]
    <2>1. \/ h.after = h.before /\ h.status \in {200, 400, 403, 404}
          \/ h.after = gone /\ h.status \in {200, 404}
      BY <1>1, <1>7, AnswersAre DEF Kill
    <2>2. IsMachine(gone)
      BY DEF IsMachine
    <2>3. h.status = 200 /\ "psutil" \in m.modules => q.arg \in m.procs \ Protected
      <3>1. ASSUME "psutil" \in m.modules, q.arg \notin m.procs PROVE h.status = 404
        <4>1. Kill(m, q.arg) = Answers({404}, m)
          BY <3>1 DEF Kill
        <4> QED
          BY <1>1, <1>7, <4>1, AnswersAre
      <3>2. ASSUME "psutil" \in m.modules, q.arg \in m.procs, q.arg \in Protected
            PROVE  h.status = 403
        <4>1. Kill(m, q.arg) = Answers({403}, m)
          BY <3>2 DEF Kill
        <4> QED
          BY <1>1, <1>7, <4>1, AnswersAre
      <3> QED
        BY <3>1, <3>2
    <2>4. h.status = 200 => Done(h)
      BY <1>7, <2>3 DEF Done
    <2> HIDE DEF gone
    <2> QED
      BY <1>7, <2>1, <2>2, <2>4 DEF TellsEffect
  <1>8. \A k \in Nat : IsMachine(Ran(m, k)) /\ Ran(m, k).ran = m.ran + k
    BY DEF IsMachine, Ran
  <1>9. q.route \in {"POST:/exec", "POST:/exec/batch"} /\ h.after.ran > h.before.ran => Done(h)
    BY DEF Done
  <1>10. CASE q.route = "POST:/exec" /\ o \in Exec(m, q.arg)
    <2>1. \/ h.after = h.before /\ h.status = 400
          \/ h.status = 200 /\ h.after \in AfterRunning(m, q.arg)
          \/ h.status = 200 /\ h.after = h.before /\ h.report = "minus_one"
      BY <1>1, <1>10, ExecAnswers
    <2>2. \A n \in AfterRunning(m, q.arg) : IsMachine(n) /\ n.ran = m.ran + 1
      <3>1. IsMachine(Ran(m, 1)) /\ Ran(m, 1).ran = m.ran + 1
        BY <1>8
      <3> DEFINE ran == Ran(m, 1)
                 opened == [ran EXCEPT !.windows = @ \cup (Titles \cap {q.arg})]
      <3>2. AfterRunning(m, q.arg) = {ran, opened}
        BY DEF AfterRunning
      <3> HIDE DEF ran
      <3>3. IsMachine(ran) /\ ran.ran = m.ran + 1
        BY <3>1 DEF ran
      <3>4. IsMachine(opened) /\ opened.ran = ran.ran
        <4>1. \A x : IsMachine([ran EXCEPT !.windows = x]) /\ [ran EXCEPT !.windows = x].ran = ran.ran
          BY <3>3 DEF IsMachine
        <4> DEFINE more == ran.windows \cup (Titles \cap {q.arg})
        <4>2. opened = [ran EXCEPT !.windows = more]
          OBVIOUS
        <4> HIDE DEF more, opened
        <4> QED
          BY <4>1, <4>2
      <3> HIDE DEF opened
      <3> QED
        BY <3>2, <3>3, <3>4
    <2>3. m.ran \in Nat
      BY DEF IsMachine
    <2> QED
      BY <1>9, <1>10, <2>1, <2>2, <2>3 DEF TellsEffect
  <1>11. CASE q.route = "POST:/exec/batch" /\ o \in ExecBatch(m, q.arg)
    <2>1. CASE h.status = 422 /\ h.after = h.before
      BY <2>1 DEF TellsEffect
    <2>2. CASE \E k \in Nat :
              /\ h.after = Ran(m, k)
              /\ h.status = 400 \/ (h.status = 200 /\ (k # 0 \/ h.report = "minus_one"))
      <3>1. PICK k \in Nat :
              /\ h.after = Ran(m, k)
              /\ h.status = 400 \/ (h.status = 200 /\ (k # 0 \/ h.report = "minus_one"))
        BY <2>2
      <3>2. m.ran \in Nat
        BY DEF IsMachine
      <3> QED
        BY <1>8, <1>9, <1>11, <3>1, <3>2 DEF TellsEffect
    <2> QED
      BY <1>1, <1>11, <2>1, <2>2, BatchAnswers
  <1> QED
    BY <1>2, <1>3, <1>4, <1>5, <1>6, <1>7, <1>10, <1>11, Dispatch
       DEF Dispatched, PlainRoutes

-----------------------------------------------------------------------------
(* The invariant.  A request that was sent lies at a step its call has reached, *)
(* and at the current one only when the call has left "send": so no second      *)
(* request of that step can be sent, and the network does not copy any.         *)

States == {"idle", "send", "wait", "done"}
Results == {"raised", "missing_executable", "no_answer", "ok", "doubtful", "http_500",
            "refused"}

Shape ==
    /\ call \in Choices
    /\ pc \in [Calls -> States]
    /\ step \in [Calls -> {1, 2}]
    /\ results \in [Calls -> Seq(Results)]

SentShape ==
    \A q \in inbox \cup handled :
        /\ q.call \in Calls /\ q.step \in {1, 2}
        /\ q.step <= step[q.call]
        /\ q.step = step[q.call] => pc[q.call] \in {"wait", "done"}
        /\ q.agent = AgentConfig(call[q.call].agent)
        /\ q.request.route \in Routes

SameRequest(p, q) == p.call = q.call /\ p.step = q.step

OnceShape ==
    /\ \A p, q \in inbox : SameRequest(p, q) => p = q
    /\ \A g, h \in handled : SameRequest(g, h) => g = h
    /\ \A q \in inbox, h \in handled : ~SameRequest(q, h)

NotRaised == \A c \in Calls : Brings(c, Required) => results[c] # <<"raised">>

FoundShape == \A h \in handled : h.status = 404 => h.request.route \in NotFoundRoutes

IInv == Shape /\ SentShape /\ OnceShape /\ NotRaised /\ FoundShape

\* The request a call sends next goes to a route of the tables.
LEMMA RequestRoute == Shape => \A c \in Calls : RequestOf(c).route \in Routes
  <1> SUFFICES ASSUME Shape, NEW c \in Calls PROVE RequestOf(c).route \in Routes
    OBVIOUS
  <1>1. Route(call[c].tool) \in Routes
    BY RouteKnown, PluginAssumption DEF Shape
  <1>2. <<"windows_window_focus", "POST:/window/focus">> \in Handlers
    BY DEF Handlers
  <1>3. "POST:/window/focus" \in Routes
    BY <1>2 DEF Routes
  <1> QED
    BY <1>1, <1>3 DEF RequestOf

\* An appended result other than "raised" leaves no list that is just "raised".
LEMMA AppendedResult ==
  ASSUME NEW s \in Seq(Results), NEW r \in Results, r # "raised"
  PROVE  Append(s, r) # <<"raised">>
  <1>1. Len(Append(s, r)) = Len(s) + 1 /\ Append(s, r)[Len(s) + 1] = r
    OBVIOUS
  <1>2. Len(<<"raised">>) = 1 /\ <<"raised">>[1] = "raised"
    OBVIOUS
  <1>3. Len(s) \in Nat
    OBVIOUS
  <1> SUFFICES ASSUME Append(s, r) = <<"raised">> PROVE FALSE
    OBVIOUS
  <1>4. Len(s) = 0
    BY <1>1, <1>2, <1>3
  <1> QED
    BY <1>1, <1>2, <1>4

\* _make_request returns: the call moves on, and what it sent stays behind it.
LEMMA ReturnStep ==
  ASSUME IInv, NEW c \in Calls, pc[c] \in {"send", "wait"},
         NEW r \in Results, r # "raised", Return(c, r, "done"),
         UNCHANGED <<call, inbox, handled>>
  PROVE  IInv'
  <1> USE DEF IInv
  <1>1. results' = [results EXCEPT ![c] = Append(@, r)]
    BY DEF Return
  <1>2. \/ pc' = [pc EXCEPT ![c] = "done"] /\ step' = step
        \/ pc' = [pc EXCEPT ![c] = "send"] /\ step' = [step EXCEPT ![c] = 2] /\ step[c] # 2
    BY DEF Return, LastStep
  <1>3. Shape'
    <2>1. Append(results[c], r) \in Seq(Results)
      BY DEF Shape
    <2>2. results' \in [Calls -> Seq(Results)]
      BY <1>1, <2>1 DEF Shape
    <2>3. pc' \in [Calls -> States] /\ step' \in [Calls -> {1, 2}]
      BY <1>2 DEF Shape, States
    <2> QED
      BY <2>2, <2>3 DEF Shape
  <1>4. SentShape'
    <2> SUFFICES ASSUME NEW q \in inbox \cup handled
                 PROVE  /\ q.step <= step'[q.call]
                        /\ q.step = step'[q.call] => pc'[q.call] \in {"wait", "done"}
      BY DEF SentShape, AgentConfig
    <2>1. /\ q.call \in Calls /\ q.step \in {1, 2} /\ q.step <= step[q.call]
          /\ q.step = step[q.call] => pc[q.call] \in {"wait", "done"}
      BY DEF SentShape
    <2>2. CASE q.call # c
      BY <1>2, <2>1, <2>2 DEF Shape
    <2>3. CASE q.call = c /\ pc' = [pc EXCEPT ![c] = "done"] /\ step' = step
      BY <2>1, <2>3 DEF Shape
    <2>4. CASE q.call = c /\ step' = [step EXCEPT ![c] = 2] /\ step[c] # 2
      <3>1. step[c] = 1 /\ step'[c] = 2
        BY <2>4 DEF Shape
      <3>2. q.step = 1
        BY <2>1, <2>4, <3>1
      <3>3. step'[q.call] = 2
        BY <2>4, <3>1
      <3> QED
        BY <3>2, <3>3
    <2> QED
      BY <1>2, <2>2, <2>3, <2>4
  <1>5. NotRaised'
    <2> SUFFICES ASSUME NEW d \in Calls, Brings(d, Required)'
                 PROVE  results'[d] # <<"raised">>
      BY DEF NotRaised
    <2>1. Brings(d, Required)
      BY DEF Brings, Required
    <2>2. CASE d = c
      BY <1>1, <2>2, AppendedResult DEF Shape
    <2>3. CASE d # c
      BY <1>1, <2>1, <2>3 DEF NotRaised, Shape
    <2> QED
      BY <2>2, <2>3
  <1> QED
    BY <1>3, <1>4, <1>5 DEF OnceShape, FoundShape

\* A handler that starts raises only when the schema is not satisfied.
LEMMA BeginStep ==
  ASSUME IInv, NEW c \in Calls, Begin(c)
  PROVE  IInv'
  <1> USE DEF IInv
  <1>1. /\ pc[c] = "idle"
        /\ pc' \in {[pc EXCEPT ![c] = "done"], [pc EXCEPT ![c] = "send"]}
        /\ UNCHANGED <<call, step, inbox, handled>>
    BY DEF Begin, networkVars
  <1>2. \/ ~Brings(c, Read) /\ results' = [results EXCEPT ![c] = <<"raised">>]
        \/ results' = [results EXCEPT ![c] = <<"missing_executable">>]
        \/ results' = results
    BY DEF Begin
  <1>3. Shape'
    <2>1. <<"raised">> \in Seq(Results) /\ <<"missing_executable">> \in Seq(Results)
      BY DEF Results
    <2>2. results' \in [Calls -> Seq(Results)]
      BY <1>2, <2>1 DEF Shape
    <2> QED
      BY <1>1, <2>2 DEF Shape, States
  <1>4. SentShape'
    BY <1>1 DEF SentShape, Shape, AgentConfig
  <1>5. NotRaised'
    <2> SUFFICES ASSUME NEW d \in Calls, Brings(d, Required)'
                 PROVE  results'[d] # <<"raised">>
      BY DEF NotRaised
    <2>1. Brings(d, Required)
      BY <1>1 DEF Brings, Required
    <2>2. d = c => Brings(c, Read)
      BY <2>1, ReadIsRequired
    <2>3. <<"missing_executable">> # <<"raised">>
      OBVIOUS
    <2> QED
      BY <1>2, <2>1, <2>2, <2>3 DEF NotRaised, Shape
  <1> QED
    BY <1>1, <1>3, <1>4, <1>5 DEF OnceShape, FoundShape

\* A request is sent once for each step of a call, to the agent of the call.
LEMMA SendStep ==
  ASSUME IInv, NEW c \in Calls, Send(c)
  PROVE  IInv'
  <1> USE DEF IInv
  <1>1. CASE Return(c, "no_answer", "done") /\ UNCHANGED inbox
    <2>1. /\ pc[c] \in {"send", "wait"} /\ Return(c, "no_answer", "done")
          /\ UNCHANGED <<call, inbox, handled>>
      BY <1>1 DEF Send
    <2>2. "no_answer" \in Results /\ "no_answer" # "raised"
      BY DEF Results
    <2> QED
      BY <2>1, <2>2, ReturnStep
  <1>2. CASE pc' = [pc EXCEPT ![c] = "wait"] /\ UNCHANGED <<step, results>>
             /\ inbox' = inbox \cup {[call |-> c, step |-> step[c], request |-> RequestOf(c),
                                      agent |-> AgentConfig(call[c].agent)]}
    <2> DEFINE new == [call |-> c, step |-> step[c], request |-> RequestOf(c),
                       agent |-> AgentConfig(call[c].agent)]
    <2>1. pc[c] = "send" /\ UNCHANGED <<call, handled, step, results>>
      BY <1>2 DEF Send
    <2>2. new.call = c /\ new.step = step[c] /\ new.request = RequestOf(c)
          /\ new.agent = AgentConfig(call[c].agent)
      OBVIOUS
    <2>3. inbox' = inbox \cup {new}
      BY <1>2
    <2>4. RequestOf(c).route \in Routes
      BY RequestRoute
    <2> HIDE DEF new
    <2>5. Shape'
      BY <1>2, <2>1 DEF Shape, States
    <2>6. \A q \in inbox \cup handled : ~SameRequest(q, new)
      BY <2>1, <2>2 DEF SentShape, SameRequest
    <2>7. SentShape'
      <3> SUFFICES ASSUME NEW q \in inbox' \cup handled'
                   PROVE  /\ q.call \in Calls /\ q.step \in {1, 2}
                          /\ q.step <= step'[q.call]
                          /\ q.step = step'[q.call] => pc'[q.call] \in {"wait", "done"}
                          /\ q.agent = AgentConfig(call'[q.call].agent)
                          /\ q.request.route \in Routes
        BY DEF SentShape, AgentConfig
      <3>1. CASE q = new
        BY <1>2, <2>1, <2>2, <2>4, <3>1 DEF Shape
      <3>2. CASE q \in inbox \cup handled
        BY <1>2, <2>1, <3>2 DEF SentShape, Shape
      <3> QED
        BY <2>1, <2>3, <3>1, <3>2
    <2>8. OnceShape'
      BY <2>1, <2>3, <2>6 DEF OnceShape, SameRequest
    <2> QED
      BY <2>1, <2>5, <2>7, <2>8 DEF NotRaised, FoundShape, Brings, Required
  <1> QED
    BY <1>1, <1>2 DEF Send

\* An agent takes a request out of the network when it handles it.
LEMMA HandleStep ==
  ASSUME IInv, NEW q \in inbox, HandleRequest(q)
  PROVE  IInv'
  <1> USE DEF IInv
  <1>1. PICK o \in Outcomes(machine[q.agent], q.request) \cup Answers({429}, machine[q.agent]) :
            handled' = handled \cup
               {[call |-> q.call, step |-> q.step, request |-> q.request, agent |-> q.agent,
                 status |-> o.status, report |-> o.report,
                 before |-> machine[q.agent], after |-> o.machine]}
    BY DEF HandleRequest
  <1>2. inbox' = inbox \ {q} /\ UNCHANGED <<call, pc, step, results>>
    BY DEF HandleRequest, clientVars
  <1> DEFINE new == [call |-> q.call, step |-> q.step, request |-> q.request, agent |-> q.agent,
                     status |-> o.status, report |-> o.report,
                     before |-> machine[q.agent], after |-> o.machine]
  <1>3. /\ new.call = q.call /\ new.step = q.step /\ new.request = q.request
        /\ new.agent = q.agent /\ new.status = o.status
    OBVIOUS
  <1>4. handled' = handled \cup {new}
    BY <1>1
  <1> HIDE DEF new
  <1>5. Shape' /\ NotRaised'
    BY <1>2 DEF Shape, NotRaised, Brings, Required
  <1>6. SentShape'
    <2> SUFFICES ASSUME NEW p \in inbox' \cup handled'
                 PROVE  /\ p.call \in Calls /\ p.step \in {1, 2}
                        /\ p.step <= step[p.call]
                        /\ p.step = step[p.call] => pc[p.call] \in {"wait", "done"}
                        /\ p.agent = AgentConfig(call[p.call].agent)
                        /\ p.request.route \in Routes
      BY <1>2 DEF SentShape, AgentConfig
    <2>1. CASE p = new
      BY <1>3, <2>1 DEF SentShape
    <2>2. CASE p \in inbox \cup handled
      BY <2>2 DEF SentShape
    <2> QED
      BY <1>2, <1>4, <2>1, <2>2
  <1>7. OnceShape'
    BY <1>2, <1>3, <1>4 DEF OnceShape, SameRequest
  <1>8. FoundShape'
    <2>1. q.request.route \in Routes
      BY DEF SentShape
    <2>2. o.status = 404 => q.request.route \in NotFoundRoutes
      <3> SUFFICES ASSUME o.status = 404 PROVE q.request.route \in NotFoundRoutes
        OBVIOUS
      <3> DEFINE request == q.request
      <3>1. request.route \in Routes /\ o \in Outcomes(machine[q.agent], request)
                                            \cup Answers({429}, machine[q.agent])
        BY <2>1
      <3> HIDE DEF request
      <3>2. request.route \in NotFoundRoutes
        BY <3>1, NotFound
      <3> QED
        BY <3>2 DEF request
    <2> QED
      BY <1>3, <1>4, <2>2 DEF FoundShape
  <1> QED
    BY <1>5, <1>6, <1>7, <1>8

\* A lost message leaves fewer requests on their way.
LEMMA LoseStep ==
  ASSUME IInv, inbox' \subseteq inbox, UNCHANGED <<call, pc, step, results, handled>>
  PROVE  IInv'
  <1>1. Shape' /\ NotRaised' /\ FoundShape'
    BY DEF IInv, Shape, NotRaised, FoundShape, Brings, Required
  <1>2. SentShape'
    BY DEF IInv, SentShape, AgentConfig
  <1>3. OnceShape'
    BY DEF IInv, OnceShape, SameRequest
  <1> QED
    BY <1>1, <1>2, <1>3 DEF IInv

\* The invariant holds in every reachable state.
THEOREM PluginInvariant == Spec => []IInv
  <1>1. Init => IInv
    BY DEF Init, IInv, Shape, SentShape, OnceShape, NotRaised, FoundShape, States
  <1>2. IInv /\ [Next]_vars => IInv'
    <2> SUFFICES ASSUME IInv, [Next]_vars PROVE IInv'
      OBVIOUS
    <2>1. ASSUME NEW c \in Calls, ClientStep(c) PROVE IInv'
      <3>1. CASE Begin(c)
        BY <3>1, BeginStep
      <3>2. CASE Send(c)
        BY <3>2, SendStep
      <3>3. CASE Receive(c)
        <4>1. PICK a \in answers : /\ pc[c] = "wait"
                                   /\ Return(c, ResultOf(a), "done")
                                   /\ UNCHANGED <<call, inbox, machine, handled>>
          BY <3>3 DEF Receive
        <4>2. ResultOf(a) \in Results /\ ResultOf(a) # "raised"
          <5>1. ResultOf(a) \in {"ok", "doubtful", "http_500", "refused"}
            BY Zenon DEF ResultOf
          <5> QED
            BY <5>1 DEF Results
        <4> QED
          BY <4>1, <4>2, ReturnStep
      <3>4. CASE GiveUp(c)
        <4>1. /\ pc[c] = "wait" /\ Return(c, "no_answer", "done")
              /\ UNCHANGED <<call, inbox, handled>>
          BY <3>4 DEF GiveUp, TimesOut, AfterTimeout, networkVars
        <4>2. "no_answer" \in Results /\ "no_answer" # "raised"
          BY DEF Results
        <4> QED
          BY <4>1, <4>2, ReturnStep
      <3> QED
        BY <2>1, <3>1, <3>2, <3>3, <3>4 DEF ClientStep
    <2>2. ASSUME NEW q \in inbox, HandleRequest(q) PROVE IInv'
      BY <2>2, HandleStep
    <2>3. CASE Lose
      BY <2>3, LoseStep DEF Lose, clientVars
    <2>4. CASE UNCHANGED vars
      BY <2>4, LoseStep DEF vars, clientVars, networkVars
    <2> QED
      BY <2>1, <2>2, <2>3, <2>4 DEF Next
  <1> QED
    BY <1>1, <1>2, PTL DEF Spec

\* A call that satisfies its schema never raises; each of its requests is handled
\* at most once, by the agent it names if that one is configured, and on a route
\* the agent has.
THEOREM OnceAtItsAgentHolds == Spec => []OnceAtItsAgent
  <1>1. IInv => OnceAtItsAgent
    <2> SUFFICES ASSUME IInv PROVE OnceAtItsAgent
      OBVIOUS
    <2>1. \A c \in Calls : Brings(c, Required) => results[c] # <<"raised">>
      BY DEF IInv, NotRaised
    <2>2. \A h \in handled : call[h.call].agent \in Agents => h.agent = call[h.call].agent
      BY DEF IInv, SentShape, AgentConfig
    <2>3. \A h, g \in handled : g.call = h.call /\ g.step = h.step => g = h
      BY DEF IInv, OnceShape, SameRequest
    <2>4. \A h \in handled : h.status = 404 => h.request.route \in NotFoundRoutes
      BY DEF IInv, FoundShape
    <2> QED
      BY <2>1, <2>2, <2>3, <2>4 DEF OnceAtItsAgent, NotFoundRoutes
  <1> QED
    BY <1>1, PluginInvariant, PTL

-----------------------------------------------------------------------------
(* What a result tells.  Behind every verdict lies an answer, behind every      *)
(* answer a handled request of the same call and step, whose status was true    *)
(* when it was given.                                                           *)

Verdicts == {"ok", "doubtful", "refused", "http_500"}

MachineShape ==
    machine = [a \in Agents |-> machine[a]] /\ \A a \in Agents : IsMachine(machine[a])

TruthShape == \A h \in handled : h.status \in Nat /\ TellsEffect(h)

AnswerShape ==
    \A a \in answers : \E h \in handled : SameRequest(a, h) /\ h.status = a.status /\ h.report = a.report

Told(records, c, i, result) ==
    result \in Verdicts => \E h \in records : h.call = c /\ h.step = i /\ result = ResultOf(h)

ResultShape ==
    \A c \in Calls :
        /\ pc[c] # "done" => Len(results[c]) = step[c] - 1
        /\ \A i \in DOMAIN results[c] : Told(handled, c, i, results[c][i])

TInv == MachineShape /\ TruthShape /\ AnswerShape /\ ResultShape

\* A result that _make_request returns is told truly if an answer lies behind it.
LEMMA ReturnTold ==
  ASSUME IInv, ResultShape, NEW c \in Calls, pc[c] \in {"send", "wait"},
         NEW r \in Results, Told(handled, c, step[c], r), Return(c, r, "done"), UNCHANGED handled
  PROVE  ResultShape'
  <1>1. results' = [results EXCEPT ![c] = Append(@, r)]
    BY DEF Return
  <1>2. \/ pc' = [pc EXCEPT ![c] = "done"] /\ step' = step
        \/ pc' = [pc EXCEPT ![c] = "send"] /\ step' = [step EXCEPT ![c] = 2] /\ step[c] # 2
    BY DEF Return, LastStep
  <1>3. /\ pc \in [Calls -> States] /\ step \in [Calls -> {1, 2}]
        /\ results \in [Calls -> Seq(Results)]
    BY DEF IInv, Shape
  <1>4. Len(results[c]) = step[c] - 1
    BY DEF ResultShape
  <1> SUFFICES ASSUME NEW d \in Calls
               PROVE  /\ pc'[d] # "done" => Len(results'[d]) = step'[d] - 1
                      /\ \A i \in DOMAIN results'[d] : Told(handled', d, i, results'[d][i])
    BY DEF ResultShape
  <1>5. \A i, result : Told(handled, d, i, result) => Told(handled', d, i, result)
    BY DEF Told
  <1>6. CASE d = c
    <2>1. results'[d] = Append(results[c], r)
      BY <1>1, <1>3, <1>6
    <2>2. results[c] \in Seq(Results)
      BY <1>3
    <2>3. Len(results'[d]) = Len(results[c]) + 1 /\ DOMAIN results'[d] = 1..(Len(results[c]) + 1)
      BY <2>1, <2>2
    <2>4. pc'[d] # "done" => Len(results'[d]) = step'[d] - 1
      BY <1>2, <1>3, <1>4, <1>6, <2>3
    <2>5. ASSUME NEW i \in DOMAIN results'[d] PROVE Told(handled, d, i, results'[d][i])
      <3>1. CASE i = Len(results[c]) + 1
        <4>1. results'[d][i] = r
          BY <2>1, <2>2, <3>1
        <4>2. i = step[c]
          BY <1>3, <1>4, <3>1
        <4> QED
          BY <1>6, <4>1, <4>2
      <3>2. CASE i \in 1..Len(results[c])
        <4>1. results'[d][i] = results[c][i] /\ i \in DOMAIN results[c]
          BY <2>1, <2>2, <3>2
        <4> QED
          BY <1>6, <4>1 DEF ResultShape
      <3> QED
        BY <2>2, <2>3, <3>1, <3>2
    <2> QED
      BY <1>5, <2>4, <2>5
  <1>7. CASE d # c
    <2>1. results'[d] = results[d] /\ step'[d] = step[d] /\ pc'[d] = pc[d]
      BY <1>1, <1>2, <1>3, <1>7
    <2> QED
      BY <1>5, <2>1 DEF ResultShape
  <1> QED
    BY <1>6, <1>7

\* A call that ends at once has no verdict to tell, one that starts has no result yet.
LEMMA BeginTold ==
  ASSUME IInv, ResultShape, NEW c \in Calls, Begin(c)
  PROVE  ResultShape'
  <1>1. /\ pc \in [Calls -> States] /\ results \in [Calls -> Seq(Results)]
    BY DEF IInv, Shape
  <1>2. pc[c] = "idle" /\ UNCHANGED <<step, handled>>
    BY DEF Begin
  <1>3. \/ pc' = [pc EXCEPT ![c] = "send"] /\ results' = results
        \/ pc' = [pc EXCEPT ![c] = "done"] /\ results' = [results EXCEPT ![c] = <<"raised">>]
        \/ /\ pc' = [pc EXCEPT ![c] = "done"]
           /\ results' = [results EXCEPT ![c] = <<"missing_executable">>]
    BY DEF Begin
  <1> SUFFICES ASSUME NEW d \in Calls
               PROVE  /\ pc'[d] # "done" => Len(results'[d]) = step'[d] - 1
                      /\ \A i \in DOMAIN results'[d] : Told(handled', d, i, results'[d][i])
    BY DEF ResultShape
  <1>4. \A i, result : Told(handled, d, i, result) => Told(handled', d, i, result)
    BY <1>2 DEF Told
  <1>5. CASE results'[d] = results[d] /\ (pc'[d] = "done" => pc[d] = "done" \/ d = c)
             /\ (pc[d] = "done" => pc'[d] = "done")
    BY <1>2, <1>4, <1>5 DEF ResultShape
  <1>6. CASE d = c /\ pc'[d] = "done" /\ results'[d] \in {<<"raised">>, <<"missing_executable">>}
    <2>1. \A i \in DOMAIN results'[d] : results'[d][i] \notin Verdicts
      BY <1>6 DEF Verdicts
    <2> QED
      BY <1>6, <2>1 DEF Told
  <1> QED
    BY <1>1, <1>2, <1>3, <1>5, <1>6

\* What the client does leaves handled requests and machines alone, and takes a
\* verdict only from an answer.
LEMMA ClientTold ==
  ASSUME IInv, TInv, NEW c \in Calls, ClientStep(c)
  PROVE  TInv'
  <1>1. UNCHANGED <<machine, handled>> /\ answers' \subseteq answers
    BY DEF ClientStep, Begin, Send, Receive, GiveUp, networkVars
  <1>2. MachineShape' /\ TruthShape' /\ AnswerShape'
    BY <1>1 DEF TInv, MachineShape, TruthShape, TellsEffect, Done, AnswerShape, SameRequest
  <1>3. "no_answer" \in Results /\ Told(handled, c, step[c], "no_answer")
    BY DEF Results, Told, Verdicts
  <1>4. CASE Begin(c)
    BY <1>2, <1>4, BeginTold DEF TInv
  <1>5. CASE Send(c)
    <2>1. CASE Return(c, "no_answer", "done")
      <3>1. pc[c] \in {"send", "wait"} /\ UNCHANGED handled
        BY <1>5 DEF Send
      <3> QED
        BY <1>2, <1>3, <2>1, <3>1, ReturnTold DEF TInv
    <2>2. CASE pc' = [pc EXCEPT ![c] = "wait"] /\ UNCHANGED <<step, results>>
      <3>1. pc[c] = "send" /\ UNCHANGED handled
        BY <1>5 DEF Send
      <3>2. pc \in [Calls -> States]
        BY DEF IInv, Shape
      <3>3. ResultShape'
        BY <2>2, <3>1, <3>2 DEF TInv, ResultShape, Told
      <3> QED
        BY <1>2, <3>3 DEF TInv
    <2> QED
      BY <1>5, <2>1, <2>2 DEF Send
  <1>6. CASE Receive(c)
    <2>1. PICK a \in answers : /\ pc[c] = "wait" /\ a.call = c /\ a.step = step[c]
                               /\ Return(c, ResultOf(a), "done")
      BY <1>6 DEF Receive
    <2>2. PICK h \in handled : SameRequest(a, h) /\ h.status = a.status /\ h.report = a.report
      BY DEF TInv, AnswerShape
    <2>3. ResultOf(a) \in Results
      <3>1. ResultOf(a) \in Verdicts
        BY Zenon DEF ResultOf, Verdicts
      <3> QED
        BY <3>1 DEF Results, Verdicts
    <2>4. Told(handled, c, step[c], ResultOf(a))
      <3>1. ResultOf(a) = ResultOf(h)
        BY <2>2 DEF ResultOf
      <3> QED
        BY <2>1, <2>2, <3>1 DEF Told, SameRequest
    <2>5. pc[c] \in {"send", "wait"} /\ UNCHANGED handled
      BY <1>1, <2>1
    <2>6. ResultShape'
      BY <2>1, <2>3, <2>4, <2>5, ReturnTold DEF TInv
    <2> QED
      BY <1>2, <2>6 DEF TInv
  <1>7. CASE GiveUp(c)
    <2>1. pc[c] \in {"send", "wait"} /\ UNCHANGED handled /\ Return(c, "no_answer", "done")
      BY <1>1, <1>7 DEF GiveUp, TimesOut, AfterTimeout
    <2>2. ResultShape'
      BY <1>3, <2>1, ReturnTold DEF TInv
    <2> QED
      BY <1>2, <2>2 DEF TInv
  <1> QED
    BY <1>4, <1>5, <1>6, <1>7 DEF ClientStep

\* An agent records a status that tells the effect, and answers with it.
LEMMA HandleTold ==
  ASSUME IInv, TInv, NEW q \in inbox, HandleRequest(q)
  PROVE  TInv'
  <1>1. PICK o \in Outcomes(machine[q.agent], q.request) \cup Answers({429}, machine[q.agent]) :
            /\ machine' = [machine EXCEPT ![q.agent] = o.machine]
            /\ handled' = handled \cup
               {[call |-> q.call, step |-> q.step, request |-> q.request, agent |-> q.agent,
                 status |-> o.status, report |-> o.report,
                 before |-> machine[q.agent], after |-> o.machine]}
            /\ answers' = answers \cup {[call |-> q.call, step |-> q.step,
                                         status |-> o.status, report |-> o.report]}
    BY DEF HandleRequest
  <1>2. UNCHANGED <<call, pc, step, results>>
    BY DEF HandleRequest, clientVars
  <1>3. q.agent \in Agents /\ q.request.route \in Routes
    BY PluginAssumption DEF IInv, SentShape, AgentConfig
  <1> DEFINE new == [call |-> q.call, step |-> q.step, request |-> q.request, agent |-> q.agent,
                     status |-> o.status, report |-> o.report,
                     before |-> machine[q.agent], after |-> o.machine]
             reply == [call |-> q.call, step |-> q.step,
                       status |-> o.status, report |-> o.report]
  <1>4. /\ new.call = q.call /\ new.step = q.step /\ new.request = q.request
        /\ new.status = o.status /\ new.before = machine[q.agent] /\ new.after = o.machine
        /\ new.report = o.report
        /\ SameRequest(reply, new) /\ reply.status = new.status /\ reply.report = new.report
    BY DEF SameRequest
  <1>5. handled' = handled \cup {new} /\ answers' = answers \cup {reply}
    BY <1>1
  <1> HIDE DEF new, reply
  <1>6. IsMachine(new.before) /\ o \in Outcomes(new.before, new.request)
                                        \cup Answers({429}, new.before)
    BY <1>3, <1>4 DEF TInv, MachineShape
  <1>7. IsMachine(new.after) /\ new.status \in Nat /\ TellsEffect(new)
    BY <1>3, <1>4, <1>6, Effect
  <1>8. TruthShape'
    <2>1. \A h \in handled' : h.status \in Nat /\ TellsEffect(h)
      BY <1>5, <1>7 DEF TInv, TruthShape
    <2> QED
      BY <2>1 DEF TruthShape, TellsEffect, Done
  <1>9. MachineShape'
    <2>1. machine = [a \in Agents |-> machine[a]] /\ \A a \in Agents : IsMachine(machine[a])
      BY DEF TInv, MachineShape
    <2>2. machine' = [a \in Agents |-> machine'[a]]
      BY <1>1, <2>1
    <2>3. \A a \in Agents : machine'[a] = machine[a] \/ machine'[a] = o.machine
      BY <1>1, <2>1
    <2> QED
      BY <1>4, <1>7, <2>1, <2>2, <2>3 DEF MachineShape
  <1>10. AnswerShape'
    BY <1>4, <1>5 DEF TInv, AnswerShape, SameRequest
  <1>11. ResultShape'
    <2>1. \A c, i, result : Told(handled, c, i, result) => Told(handled', c, i, result)
      BY <1>5 DEF Told
    <2> QED
      BY <1>2, <2>1 DEF TInv, ResultShape
  <1> QED
    BY <1>8, <1>9, <1>10, <1>11 DEF TInv

\* A result that is no error and holds no exit_code of -1 means that the request
\* took effect on the agent's machine, as far as Done says; one http_<status>, 500
\* apart, that it left the machine as it was, unless a batch stopped at an empty
\* command or a process ended by itself.
THEOREM ResultTellsEffectHolds == Spec => []ResultTellsEffect
  <1>1. Init => TInv
    <2> SUFFICES ASSUME Init PROVE TInv
      OBVIOUS
    <2>1. MachineShape
      BY PluginAssumption DEF Init, MachineShape
    <2>2. ResultShape
      <3>1. \A c \in Calls : results[c] = << >> /\ step[c] = 1
        BY DEF Init
      <3> QED
        BY <3>1 DEF ResultShape
    <2> QED
      BY <2>1, <2>2 DEF Init, TInv, TruthShape, AnswerShape
  <1>2. IInv /\ TInv /\ [Next]_vars => TInv'
    <2> SUFFICES ASSUME IInv, TInv, [Next]_vars PROVE TInv'
      OBVIOUS
    <2>1. ASSUME NEW c \in Calls, ClientStep(c) PROVE TInv'
      BY <2>1, ClientTold
    <2>2. ASSUME NEW q \in inbox, HandleRequest(q) PROVE TInv'
      BY <2>2, HandleTold
    <2>3. ASSUME answers' \subseteq answers, UNCHANGED <<pc, step, results, machine, handled>>
          PROVE  TInv'
      <3>1. MachineShape' /\ TruthShape' /\ AnswerShape'
        BY <2>3 DEF TInv, MachineShape, TruthShape, TellsEffect, Done, AnswerShape, SameRequest
      <3>2. ResultShape'
        BY <2>3 DEF TInv, ResultShape, Told
      <3> QED
        BY <3>1, <3>2 DEF TInv
    <2>4. CASE Lose
      BY <2>3, <2>4 DEF Lose, clientVars
    <2>5. CASE UNCHANGED vars
      BY <2>3, <2>5 DEF vars, clientVars, networkVars
    <2> QED
      BY <2>1, <2>2, <2>4, <2>5 DEF Next
  <1>3. TInv => ResultTellsEffect
    <2> SUFFICES ASSUME TInv PROVE ResultTellsEffect
      OBVIOUS
    <2>1. ASSUME NEW c \in Calls, NEW i \in DOMAIN results[c], results[c][i] \in {"ok", "refused"}
          PROVE  \E h \in handled :
                     /\ h.call = c /\ h.step = i
                     /\ results[c][i] = ResultOf(h)
                     /\ h.status \in Nat /\ TellsEffect(h)
      BY <2>1 DEF TInv, ResultShape, TruthShape, Told, Verdicts
    <2>2. ASSUME NEW h \in handled, h.status \in Nat
          PROVE  /\ ResultOf(h) = "ok" => h.status < 400 /\ h.report # "minus_one"
                 /\ ResultOf(h) = "refused" => 400 <= h.status /\ h.status # 500
      BY <2>2 DEF ResultOf
    <2>3. ASSUME NEW c \in Calls, NEW i \in DOMAIN results[c], results[c][i] = "ok"
          PROVE  \E h \in {h \in handled : h.call = c /\ h.step = i} : h.status = 200 /\ Done(h)
      BY <2>1, <2>2, <2>3 DEF TellsEffect
    <2>4. ASSUME NEW c \in Calls, NEW i \in DOMAIN results[c], results[c][i] = "refused"
          PROVE  \E h \in {h \in handled : h.call = c /\ h.step = i} :
                     \/ h.after = h.before
                     \/ h.request.route \in {"POST:/exec/batch", "POST:/process/kill"}
      BY <2>1, <2>2, <2>4 DEF TellsEffect
    <2> QED
      BY <2>3, <2>4 DEF ResultTellsEffect
  <1> QED
    BY <1>1, <1>2, <1>3, PluginInvariant, PTL DEF Spec
=============================================================================
