------------------------------- MODULE AuditLog --------------------------------
(* The audit table: audit/models.py, AuditLogger.log_request, the clear-logs   *)
(* and logs routes of routers/dashboard.py and the paging of dashboard.js.     *)
(*                                                                             *)
(* Every writer and reader runs in the event loop, so a request finds the      *)
(* table between two clean-ups (Idle).  But each statement commits on its own: *)
(* the agent can die, or a statement raise (the database is locked), between   *)
(* any two deletions of a clean-up.  The wall clock that stamps the entries    *)
(* may be set back between requests.  This is the agent that cleans up, which  *)
(* HERMES_AUDIT_AUTO_CLEANUP=false turns off: it then promises no size.        *)
EXTENDS Integers, FiniteSets

CONSTANTS
    MaxRows,     \* HERMES_AUDIT_MAX_ROWS
    Share,       \* a clean-up removes MaxRows / Share more than the excess: 10
    MaxAge,      \* HERMES_AUDIT_MAX_AGE_DAYS
    PurgeAge,    \* max_age_hours of purge_older_than
    PageSize,    \* "count" of GET /api/logs
    MaxEntries,  \* bound on the entries ever written
    MaxTime,     \* bound on the clock
    MaxCuts      \* bound on the clean-ups cut short

ASSUME RetentionAssumption ==
    /\ MaxRows \in Nat /\ Share \in Nat \ {0} /\ MaxAge \in Nat /\ PurgeAge \in Nat
    /\ PageSize \in Nat \ {0} /\ MaxEntries \in Nat /\ MaxTime \in Nat /\ MaxCuts \in Nat

VARIABLES
    rows,       \* the audit_logs table: [id |-> order of insertion, ts |-> timestamp]
    written,    \* number of entries ever inserted
    clock,      \* datetime.now(timezone.utc)
    phase,      \* what clear_old_entries is at: "idle", "trimming", "expiring"
    victims,    \* the selected rows it has not deleted yet
    cuts,       \* the clean-ups cut short so far
    offset,     \* the page a reader asks for next, Done when it has seen the last
    present,    \* history: the rows when that reader began (see Cut)
    seen        \* the rows the reader was sent

tableVars == <<rows, written>>
cleanupVars == <<phase, victims>>
readerVars == <<offset, present, seen>>
vars == <<tableVars, clock, cleanupVars, cuts, readerVars>>

Done == -1
Entries == [id : 1..MaxEntries, ts : 0..MaxTime]

Init ==
    /\ rows = {} /\ written = 0
    /\ clock \in 0..MaxTime
    /\ phase = "idle" /\ victims = {}
    /\ cuts = 0
    /\ offset = Done /\ present = {} /\ seen = {}

Idle == phase = "idle"

(* Variants that no action uses precede the definitions they are variants of. *)

\* "int(max_rows * 0.1)": what a clean-up removes beyond the excess.
Spare == MaxRows \div Share

\* "if total > max_rows"
OverLimitLate(table) == Cardinality(table) > MaxRows + 1
OverLimit(table) == Cardinality(table) > MaxRows

\* uuid4: the key of a new entry was never used before.
NewIdReused == Cardinality(rows) + 1
NewId == written + 1

Excess(table) == Cardinality(table) - MaxRows + Spare

\* "order_by(timestamp.asc()).limit(excess)": rows of equal time in any order.
NewestFirst(table, chosen) == \A r \in chosen, q \in table \ chosen : r.ts >= q.ts
OldestFirst(table, chosen) == \A r \in chosen, q \in table \ chosen : r.ts <= q.ts

\* The rows older than an age: "timestamp < cutoff".
OlderThan(age) == {r \in rows : r.ts < clock - age}

-----------------------------------------------------------------------------
(* log_request.                                                             *)

\* create_entry commits the row; clear_old_entries counts and selects.
Log ==
    /\ Idle /\ written < MaxEntries
    /\ written' = written + 1
    /\ LET table == rows \cup {[id |-> NewId, ts |-> clock]} IN
       /\ rows' = table
       /\ \E chosen \in SUBSET table :
            /\ OldestFirst(table, chosen)
            /\ Cardinality(chosen) = IF OverLimit(table) THEN Excess(table) ELSE 0
            /\ victims' = chosen
    /\ phase' = "trimming"
    /\ UNCHANGED <<clock, cuts, readerVars>>

\* One delete_instance of the loop over the excess, oldest first.
Trim(r) ==
    /\ phase = "trimming" /\ r \in victims
    /\ \A q \in victims : r.ts <= q.ts
    /\ rows' = rows \ {r} /\ victims' = victims \ {r}
    /\ UNCHANGED <<written, clock, phase, cuts, readerVars>>

\* The loop over the excess is over: the rows past max_age_days are selected.
SelectExpired ==
    /\ phase = "trimming" /\ victims = {}
    /\ victims' = OlderThan(MaxAge)
    /\ phase' = "expiring"
    /\ UNCHANGED <<tableVars, clock, cuts, readerVars>>

\* One delete_instance of the second loop, in the order of the table.
Expire(r) ==
    /\ phase = "expiring" /\ r \in victims
    /\ \A q \in victims : r.id <= q.id
    /\ rows' = rows \ {r} /\ victims' = victims \ {r}
    /\ UNCHANGED <<written, clock, phase, cuts, readerVars>>

EndCleanup ==
    /\ phase = "expiring" /\ victims = {}
    /\ phase' = "idle"
    /\ UNCHANGED <<tableVars, clock, victims, cuts, readerVars>>

\* POST /api/clear-logs: one DELETE statement.
Purge ==
    /\ Idle
    /\ rows' = rows \ OlderThan(PurgeAge)
    /\ UNCHANGED <<written, clock, cleanupVars, cuts, readerVars>>

-----------------------------------------------------------------------------
(* A reader pages through GET /api/logs, as the dashboard's Next button does. *)

\* "order_by(timestamp.desc())"; SQLite keeps equal times in table order.
BeforeOldestFirst(q, r) == q.ts < r.ts \/ (q.ts = r.ts /\ q.id < r.id)
Before(q, r) == q.ts > r.ts \/ (q.ts = r.ts /\ q.id < r.id)

Rank(r) == Cardinality({q \in rows : Before(q, r)})

\* "offset(offset).limit(limit)"
Page == {r \in rows : Rank(r) \in offset..(offset + PageSize - 1)}

StartReading ==
    /\ Idle
    /\ offset = Done
    /\ offset' = 0 /\ present' = rows /\ seen' = {}
    /\ UNCHANGED <<tableVars, clock, cleanupVars, cuts>>

\* fetch_logs with its total; nextPage() while "offset + limit < total".
ReadPage ==
    /\ Idle
    /\ offset # Done
    /\ seen' = seen \cup Page
    /\ offset' = IF offset + PageSize < Cardinality(rows) THEN offset + PageSize ELSE Done
    /\ UNCHANGED <<tableVars, clock, cleanupVars, cuts, present>>

\* The timer of the page: applyFilters(true) goes back to the first page.
Refresh ==
    /\ Idle /\ offset # Done
    /\ offset' = 0
    /\ UNCHANGED <<tableVars, clock, cleanupVars, cuts, present, seen>>

-----------------------------------------------------------------------------
(* The environment.                                                         *)

Tick ==
    /\ Idle /\ clock < MaxTime
    /\ clock' = clock + 1
    /\ UNCHANGED <<tableVars, cleanupVars, cuts, readerVars>>

SetBack ==
    /\ Idle /\ clock > 0
    /\ clock' = clock - 1
    /\ UNCHANGED <<tableVars, cleanupVars, cuts, readerVars>>

\* The agent dies, or a statement of the clean-up raises, which ends log_request.
\* What was committed stays, the rest of the clean-up is forgotten.  An entry past
\* its age that is left over is not owed to a reader any more.
Cut ==
    /\ cuts < MaxCuts /\ ~Idle
    /\ cuts' = cuts + 1
    /\ phase' = "idle" /\ victims' = {}
    /\ present' = IF phase = "expiring" THEN present \ victims ELSE present
    /\ UNCHANGED <<tableVars, clock, offset, seen>>

Next ==
    \/ Log \/ SelectExpired \/ EndCleanup \/ Purge
    \/ \E r \in rows : Trim(r) \/ Expire(r)
    \/ StartReading \/ ReadPage \/ Refresh
    \/ Tick \/ SetBack \/ Cut

Spec == Init /\ [][Next]_vars

-----------------------------------------------------------------------------
(* Properties.                                                              *)

\* Entries are numbered by insertion and victims are rows of the table.
TypeOK ==
    /\ written \in 0..MaxEntries
    /\ rows \subseteq Entries /\ \A r \in rows : r.id <= written
    /\ \A r, q \in rows : r.id = q.id => r = q
    /\ clock \in 0..MaxTime
    /\ phase \in {"idle", "trimming", "expiring"}
    /\ victims \subseteq rows
    /\ cuts \in 0..MaxCuts
    /\ offset \in Nat \cup {Done}
    /\ present \subseteq Entries /\ seen \subseteq Entries

\* Between requests the table holds at most MaxRows entries, and one more for
\* every clean-up that a crash or an exception has cut short: none stops early else.
SizeBounded ==
    Cardinality(rows) <= MaxRows + cuts + (IF Idle THEN 0 ELSE 1)

\* Only old entries are deleted: one that the size limit removes leaves MaxRows
\* less a tenth entries behind that are not older; any other has reached its age.
RecentRetained ==
    [][\A r \in rows \ rows' :
        \/ phase = "trimming" /\ Cardinality({q \in rows' : q.ts >= r.ts}) >= MaxRows - Spare
        \/ phase = "expiring" /\ r.ts < clock - MaxAge
        \/ Idle /\ r.ts < clock - PurgeAge]_vars

\* A reader that pages to the end is sent every entry that was there when it
\* began and still is, although entries are added and removed between pages.  Only
\* the deletion of an entry of the same time moves one past the reader, or an age
\* clean-up that had selected the entry and was cut short (Cut).
ScanComplete ==
    offset = Done => \A r \in present \cap rows :
        r \in seen \/ \E q \in present \ rows : q.ts = r.ts /\ q.id < r.id
=============================================================================
