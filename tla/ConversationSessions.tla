------------------------- MODULE ConversationSessions -------------------------
(* What the executor threads of the tasks do between acquiring a runtime and *)
(* getting an answer: task_service._execute_and_poll and                     *)
(* _send_message_with_session_recovery, conversation_store.py, the           *)
(* AcpConversation table, and the abort that DELETE and timeouts send from   *)
(* the event loop.  One step per database or HTTP call; threads of the same  *)
(* conversation share its row and its OpenCode session without a lock.       *)
EXTENDS Naturals

CONSTANTS
    Tasks, Convs, Runtimes,
    Sessions,      \* ids OpenCode can give to the sessions it creates
    None,          \* a NULL column, a variable not assigned yet
    ConvOf         \* the conversation_id each task is submitted with

ASSUME SessionAssumption ==
    /\ ConvOf \in [Tasks -> Convs]
    /\ None \notin Sessions \cup Runtimes \cup Convs

VARIABLES
    rows,        \* conversations that have an AcpConversation row
    link,        \* its runtime_id
    session,     \* its upstream_session_id
    owner,       \* the conversation an OpenCode session was created for
    pc,          \* where the thread of each task is
    seen,        \* threads whose get_or_none found the row
    end,         \* thread: the runtime whose endpoint it uses
    sid,         \* thread: upstream_sid
    retry,       \* threads inside the recovery path
    deliveries,  \* how often OpenCode may have worked on the prompt of a task
    cut,         \* tasks that were cancelled or timed out
    abort        \* the event loop's abort call in flight: task and session, or <<>>

convVars == <<rows, link, session>>
threadVars == <<pc, seen, end, sid, retry>>
loopVars == <<cut, abort>>
vars == <<convVars, owner, threadVars, deliveries, loopVars>>

Labels == {"idle", "acquire", "resolve", "link", "session", "create", "recreate",
           "store", "restore", "send", "done", "failed"}

TypeOK ==
    /\ rows \subseteq Convs
    /\ link \in [Convs -> Runtimes \cup {None}]
    /\ session \in [Convs -> Sessions \cup {None}]
    /\ owner \in [Sessions -> Convs \cup {None}]
    /\ pc \in [Tasks -> Labels]
    /\ seen \subseteq Tasks
    /\ end \in [Tasks -> Runtimes \cup {None}]
    /\ sid \in [Tasks -> Sessions \cup {None}]
    /\ retry \subseteq Tasks
    /\ deliveries \in [Tasks -> Nat]
    /\ cut \subseteq Tasks
    /\ abort \in {<<>>} \cup (Tasks \X Sessions)

Init ==
    /\ rows = {}
    /\ link = [c \in Convs |-> None]
    /\ session = [c \in Convs |-> None]
    /\ owner = [s \in Sessions |-> None]
    /\ pc = [t \in Tasks |-> "idle"]
    /\ seen = {}
    /\ end = [t \in Tasks |-> None]
    /\ sid = [t \in Tasks |-> None]
    /\ retry = {}
    /\ deliveries = [t \in Tasks |-> 0]
    /\ cut = {}
    /\ abort = <<>>

Goto(t, label) == pc' = [pc EXCEPT ![t] = label]

\* _execute_and_poll returns or raises; its local variables are gone.
Leave(t, label) ==
    /\ Goto(t, label)
    /\ seen' = seen \ {t}
    /\ end' = [end EXCEPT ![t] = None]
    /\ sid' = [sid EXCEPT ![t] = None]
    /\ retry' = retry \ {t}

-----------------------------------------------------------------------------
(* The thread of a task.                                                    *)

Start(t) ==
    /\ pc[t] = "idle"
    /\ Goto(t, "acquire")
    /\ UNCHANGED <<convVars, owner, seen, end, sid, retry, deliveries, loopVars>>

\* broker.acquire returns some runtime (RuntimeBroker says which) ...
Acquire(t, r) ==
    /\ pc[t] = "acquire"
    /\ end' = [end EXCEPT ![t] = r]
    /\ Goto(t, "resolve")
    /\ UNCHANGED <<convVars, owner, seen, sid, retry, deliveries, loopVars>>

\* ... or raises.
AcquireFails(t) ==
    /\ pc[t] = "acquire"
    /\ Leave(t, "failed")
    /\ UNCHANGED <<convVars, owner, deliveries, loopVars>>

\* get_or_create_for_runtime reads the row first ...
ResolveRead(t) ==
    /\ pc[t] = "resolve"
    /\ seen' = IF ConvOf[t] \in rows THEN seen \cup {t} ELSE seen \ {t}
    /\ Goto(t, "link")
    /\ UNCHANGED <<convVars, owner, end, sid, retry, deliveries, loopVars>>

AfterLink(t) == IF t \in retry THEN "create" ELSE "session"

(* Some helpers are preceded by the variant a plausible bug would leave in    *)
(* their place; no action uses a variant.                                     *)

\* What the UPDATE of an existing row leaves of its upstream_session_id.
ClearedSession(c) == [session EXCEPT ![c] = None]
RelinkedSession(c) == session

\* ... then updates it,
Relink(t) ==
    /\ pc[t] = "link" /\ t \in seen
    /\ link' = [link EXCEPT ![ConvOf[t]] = end[t]]
    /\ session' = RelinkedSession(ConvOf[t])
    /\ Goto(t, AfterLink(t))
    /\ seen' = seen \ {t}
    /\ UNCHANGED <<rows, owner, end, sid, retry, deliveries, loopVars>>

\* or inserts it,
InsertUnlinked(t) ==
    /\ pc[t] = "link" /\ t \notin seen
    /\ ConvOf[t] \notin rows
    /\ rows' = rows \cup {ConvOf[t]}
    /\ Goto(t, AfterLink(t))
    /\ UNCHANGED <<link, session, owner, seen, end, sid, retry, deliveries, loopVars>>

InsertRow(t) ==
    /\ pc[t] = "link" /\ t \notin seen
    /\ ConvOf[t] \notin rows
    /\ rows' = rows \cup {ConvOf[t]}
    /\ link' = [link EXCEPT ![ConvOf[t]] = end[t]]
    /\ Goto(t, AfterLink(t))
    /\ UNCHANGED <<session, owner, seen, end, sid, retry, deliveries, loopVars>>

\* or fails.  Every call on the table may raise: the INSERT on the primary key when
\* another thread has inserted the row since, any of them on a locked database.  Only
\* the recovery catches it, around its first new session, and takes another runtime.
RowFails(t) ==
    /\ \/ pc[t] \in {"resolve", "link", "session", "store"} /\ Leave(t, "failed")
       \/ pc[t] = "restore" /\ Goto(t, "acquire") /\ UNCHANGED <<seen, end, sid, retry>>
    /\ UNCHANGED <<convVars, owner, deliveries, loopVars>>

\* get_upstream_session: reuse the stored session if there is one.
GetSession(t) ==
    /\ pc[t] = "session"
    /\ sid' = [sid EXCEPT ![t] = session[ConvOf[t]]]
    /\ Goto(t, IF session[ConvOf[t]] = None THEN "create" ELSE "send")
    /\ UNCHANGED <<convVars, owner, seen, end, retry, deliveries, loopVars>>

\* adapter.create_session
Create(t, s) ==
    /\ pc[t] \in {"create", "recreate"}
    /\ owner[s] = None
    /\ owner' = [owner EXCEPT ![s] = ConvOf[t]]
    /\ sid' = [sid EXCEPT ![t] = s]
    /\ Goto(t, IF pc[t] = "create" THEN "store" ELSE "restore")
    /\ UNCHANGED <<convVars, seen, end, retry, deliveries, loopVars>>

\* The recovery path falls back to another runtime, once; elsewhere it raises.
CreateFails(t) ==
    /\ \/ pc[t] = "create" /\ Leave(t, "failed")
       \/ pc[t] = "recreate" /\ Goto(t, "acquire") /\ UNCHANGED <<seen, end, sid, retry>>
    /\ UNCHANGED <<convVars, owner, deliveries, loopVars>>

\* update_upstream_session: one row, if it exists.
SwappedArguments(c, s) == IF c \in rows THEN [session EXCEPT ![c] = c] ELSE session
StoredOnce(c, s) == IF c \in rows /\ session[c] = None THEN [session EXCEPT ![c] = s] ELSE session
StoredEverywhere(c, s) == [x \in Convs |-> IF x \in rows THEN s ELSE session[x]]
StoredSession(c, s) == IF c \in rows THEN [session EXCEPT ![c] = s] ELSE session

StoreSession(t) ==
    /\ pc[t] \in {"store", "restore"}
    /\ session' = StoredSession(ConvOf[t], sid[t])
    /\ Goto(t, "send")
    /\ UNCHANGED <<rows, link, owner, seen, end, sid, retry, deliveries, loopVars>>

Delivered(t) == deliveries' = [deliveries EXCEPT ![t] = @ + 1]

\* adapter.send_message returned the answer.
SendAnswered(t) ==
    /\ pc[t] = "send"
    /\ Delivered(t)
    /\ Leave(t, "done")
    /\ UNCHANGED <<convVars, owner, loopVars>>

\* HTTP 404 or 500, which may come after OpenCode took the prompt, is retried
\* in a new session, once.
RetriesLeftAlways(t) == TRUE
RetriesLeft(t) == t \notin retry

SendRejected(t) ==
    /\ pc[t] = "send"
    /\ Delivered(t) \/ UNCHANGED deliveries
    /\ IF RetriesLeft(t)
       THEN Goto(t, "recreate") /\ retry' = retry \cup {t} /\ UNCHANGED <<seen, end, sid>>
       ELSE Leave(t, "failed")
    /\ UNCHANGED <<convVars, owner, loopVars>>

\* Any other HTTP error or a timeout is raised.
SendFails(t) ==
    /\ pc[t] = "send"
    /\ Delivered(t) \/ UNCHANGED deliveries
    /\ Leave(t, "failed")
    /\ UNCHANGED <<convVars, owner, loopVars>>

-----------------------------------------------------------------------------
(* _abort_running_session, for a task whose row still reads "running": the    *)
(* stored session is read, then its runtime, and the abort is posted there.   *)

AbortRead(t) ==
    /\ abort = <<>>
    /\ t \notin cut /\ pc[t] \notin {"done", "failed"}
    /\ session[ConvOf[t]] # None
    /\ cut' = cut \cup {t}
    /\ abort' = <<t, session[ConvOf[t]]>>
    /\ UNCHANGED <<convVars, owner, threadVars, deliveries>>

AbortSend ==
    /\ abort # <<>>
    /\ abort' = <<>>
    /\ UNCHANGED <<convVars, owner, threadVars, deliveries, cut>>

-----------------------------------------------------------------------------
ThreadStep(t) ==
    \/ Start(t) \/ AcquireFails(t) \/ ResolveRead(t) \/ Relink(t) \/ InsertRow(t)
    \/ RowFails(t) \/ GetSession(t) \/ CreateFails(t) \/ StoreSession(t)
    \/ SendAnswered(t) \/ SendRejected(t) \/ SendFails(t)
    \/ \E r \in Runtimes : Acquire(t, r)
    \/ \E s \in Sessions : Create(t, s)

Next ==
    \/ \E t \in Tasks : ThreadStep(t) \/ AbortRead(t)
    \/ AbortSend

Spec == Init /\ [][Next]_vars

-----------------------------------------------------------------------------
(* Properties.                                                              *)

\* Conversations never share an OpenCode session: the stored session of a row
\* and the session a thread talks to were created for that conversation.
SessionsIsolated ==
    /\ \A c \in Convs : session[c] # None => owner[session[c]] = c
    /\ \A t \in Tasks : sid[t] # None => owner[sid[t]] = ConvOf[t]

\* OpenCode gets the prompt of a task at most twice, whichever calls of the
\* recovery path fail and although it may change runtime in between.
AtMostTwoDeliveries == \A t \in Tasks : deliveries[t] <= 2

\* A thread talks to OpenCode only when its conversation has a row with a runtime,
\* so its UPDATEs hit a row and an abort or a lost runtime can find the task.
LinkedWhenUsed ==
    \A t \in Tasks : pc[t] \in {"session", "create", "recreate", "store", "restore", "send"} =>
        ConvOf[t] \in rows /\ link[ConvOf[t]] # None

\* Once a conversation has a session it keeps one: a task that moves the row to
\* another runtime, or recovers on one, never leaves it without.
SessionKept == [][\A c \in Convs : session[c] # None => session'[c] # None]_vars

\* A task that has its conversation to itself prompts the stored session, the one
\* that DELETE, timeouts and the live view look up, also after a recovery.
StoredWhenAlone ==
    \A t \in Tasks :
        pc[t] = "send" /\ (\A u \in Tasks \ {t} : ConvOf[u] = ConvOf[t] => pc[u] = "idle")
            => session[ConvOf[t]] = sid[t]

(* What the documentation says and the code does not keep.                   *)

\* routers/acp.py:85: DELETE is "Cancel a running task": the abort it sends does not
\* hit the session in which another task is waiting for its answer.
AbortHitsOnlyItsTask ==
    [][abort # <<>> /\ abort' = <<>> =>
        \A u \in Tasks \ {abort[1]} : ~(pc[u] = "send" /\ sid[u] = abort[2])]_vars
=============================================================================
