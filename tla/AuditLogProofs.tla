----------------------------- MODULE AuditLogProofs ----------------------------
(* Proofs about AuditLog for every limit, age, number of entries and cuts.    *)
EXTENDS AuditLog, FiniteSetTheorems, TLAPS

\* While the excess is deleted, the rows that will stay are at most MaxRows,
\* none older than a victim, and at least as many as retention promises.
TrimShape ==
    phase = "trimming" =>
        /\ OldestFirst(rows, victims)
        /\ Cardinality(rows \ victims) <= MaxRows
        /\ victims # {} => Cardinality(rows \ victims) >= MaxRows - Spare

\* While expired rows are deleted, the size limit holds already.
ExpireShape ==
    phase = "expiring" =>
        /\ victims = OlderThan(MaxAge)
        /\ Cardinality(rows) <= MaxRows

IdleShape == Idle => victims = {}

IInv == TypeOK /\ IsFiniteSet(rows) /\ SizeBounded /\ TrimShape /\ ExpireShape /\ IdleShape

-----------------------------------------------------------------------------
(* Lemmas.                                                                   *)

\* What a clean-up removes beyond the excess is a natural number.
LEMMA SpareNat == Spare \in Nat
  BY RetentionAssumption DEF Spare

\* A finite table has a number of rows.
LEMMA CardinalityNat == ASSUME IsFiniteSet(rows) PROVE Cardinality(rows) \in Nat
  BY FS_CardinalityType

\* Deleting one row leaves a finite table with one row less.
LEMMA Removed ==
    ASSUME NEW S, IsFiniteSet(S), NEW r \in S
    PROVE  IsFiniteSet(S \ {r}) /\ Cardinality(S \ {r}) = Cardinality(S) - 1 /\ Cardinality(S) \in Nat
  BY FS_RemoveElement, FS_CardinalityType

\* The rows a clean-up of the size selects leave the promised number behind.
LEMMA LeftBehind ==
    ASSUME NEW T, IsFiniteSet(T), NEW chosen \in SUBSET T, OverLimit(T), Cardinality(chosen) = Excess(T)
    PROVE  Cardinality(T \ chosen) = MaxRows - Spare
  <1>1. IsFiniteSet(chosen) /\ Cardinality(T) \in Nat /\ Cardinality(chosen) \in Nat
    BY FS_Subset, FS_CardinalityType
  <1>2. T \cap chosen = chosen
    OBVIOUS
  <1>3. Cardinality(T \ chosen) = Cardinality(T) - Cardinality(T \cap chosen)
    BY FS_Difference
  <1>4. Cardinality(T \ chosen) = Cardinality(T) - Cardinality(chosen)
    BY <1>2, <1>3
  <1>5. Cardinality(chosen) = Cardinality(T) - MaxRows + Spare
    BY DEF Excess
  <1> QED
    BY <1>1, <1>4, <1>5, SpareNat, RetentionAssumption

-----------------------------------------------------------------------------
(* The inductive invariant.                                                  *)

\* The empty log satisfies the invariant.
LEMMA InitIInv == Init => IInv
  BY RetentionAssumption, FS_EmptySet DEF Init, IInv, TypeOK, SizeBounded, TrimShape, ExpireShape, IdleShape, Idle, Done

\* An insertion preserves the invariant: it chooses the oldest rows beyond the limit.
LEMMA LogStep == ASSUME IInv, Log PROVE IInv'
  <1> DEFINE new == [id |-> NewId, ts |-> clock]
             table == rows \cup {new}
  <1>1. PICK chosen \in SUBSET table :
          /\ OldestFirst(table, chosen)
          /\ Cardinality(chosen) = IF OverLimit(table) THEN Excess(table) ELSE 0
          /\ victims' = chosen
    BY DEF Log
  <1>2. rows' = table /\ phase' = "trimming" /\ phase = "idle" /\ cuts' = cuts /\ written' = written + 1
    BY DEF Log, Idle
  <1>3. new \notin rows /\ new \in Entries /\ written + 1 \in 1..MaxEntries
    BY RetentionAssumption DEF IInv, TypeOK, Log, Entries, NewId
  <1>4. IsFiniteSet(rows) /\ Cardinality(rows) \in Nat /\ Cardinality(rows) <= MaxRows + cuts
    <2>1. IsFiniteSet(rows) /\ Cardinality(rows) \in Nat /\ cuts \in Nat
      BY CardinalityNat, RetentionAssumption DEF IInv, TypeOK
    <2> QED
      BY <1>2, <2>1, RetentionAssumption DEF IInv, SizeBounded, Idle
  <1>5. IsFiniteSet(table) /\ Cardinality(table) = Cardinality(rows) + 1
    BY <1>3, <1>4, FS_AddElement
  <1>6. IsFiniteSet(rows)'
    BY <1>2, <1>5
  <1>7. TypeOK'
    <2>1. \A r \in table : r.id <= written + 1
      BY <1>3, RetentionAssumption DEF IInv, TypeOK, Entries, NewId
    <2>2. \A r, q \in table : r.id = q.id => r = q
      BY RetentionAssumption DEF IInv, TypeOK, Entries, NewId
    <2> QED
      BY <1>1, <1>2, <1>3, <2>1, <2>2 DEF IInv, TypeOK, Log, readerVars, NewId
  <1>8. SizeBounded'
    <2>1. cuts \in Nat
      BY RetentionAssumption DEF IInv, TypeOK
    <2> QED
      BY <1>2, <1>4, <1>5, <2>1, RetentionAssumption DEF SizeBounded, Idle
  <1>9. TrimShape'
    <2>1. CASE OverLimit(table)
      <3>1. Cardinality(table \ chosen) = MaxRows - Spare
        BY <1>1, <1>5, <2>1, LeftBehind
      <3>2. Cardinality(table \ chosen) <= MaxRows
        BY <3>1, SpareNat, RetentionAssumption
      <3>3. Cardinality(table \ chosen) >= MaxRows - Spare
        BY <3>1, SpareNat, RetentionAssumption
      <3> QED
        BY <1>1, <1>2, <3>2, <3>3 DEF TrimShape, OldestFirst
    <2>2. CASE ~OverLimit(table)
      <3>1. chosen = {}
        BY <1>1, <1>5, <2>2, FS_Subset, FS_EmptySet
      <3>2. Cardinality(table) <= MaxRows
        BY <1>4, <1>5, <2>2, RetentionAssumption DEF OverLimit
      <3> QED
        BY <1>1, <1>2, <3>1, <3>2 DEF TrimShape, OldestFirst
    <2> QED
      BY <2>1, <2>2
  <1>10. ExpireShape'
    BY <1>2 DEF ExpireShape
  <1> QED
    BY <1>2, <1>6, <1>7, <1>8, <1>9, <1>10 DEF IInv, IdleShape, Idle

\* Deleting a row for the size limit preserves the invariant: the rows that stay are the same.
LEMMA TrimStep == ASSUME IInv, NEW r \in rows, Trim(r) PROVE IInv'
  <1>1. /\ phase = "trimming" /\ r \in victims /\ rows' = rows \ {r} /\ victims' = victims \ {r}
        /\ phase' = phase /\ cuts' = cuts
    BY DEF Trim
  <1>2. IsFiniteSet(rows') /\ Cardinality(rows') = Cardinality(rows) - 1 /\ Cardinality(rows) \in Nat
    BY <1>1, Removed DEF IInv
  <1>3. rows' \ victims' = rows \ victims
    BY <1>1
  <1>4. TypeOK'
    BY <1>1 DEF IInv, TypeOK, Trim, readerVars
  <1>5. SizeBounded'
    BY <1>1, <1>2, RetentionAssumption DEF IInv, TypeOK, SizeBounded, Idle
  <1>6. TrimShape'
    BY <1>1, <1>3 DEF IInv, TrimShape, OldestFirst
  <1>7. ExpireShape'
    BY <1>1 DEF ExpireShape
  <1> QED
    BY <1>1, <1>2, <1>4, <1>5, <1>6, <1>7 DEF IInv, IdleShape, Idle

\* Deleting an expired row preserves the invariant: the table only shrinks.
LEMMA ExpireStep == ASSUME IInv, NEW r \in rows, Expire(r) PROVE IInv'
  <1>1. /\ phase = "expiring" /\ r \in victims /\ rows' = rows \ {r} /\ victims' = victims \ {r}
        /\ phase' = phase /\ cuts' = cuts /\ clock' = clock
    BY DEF Expire
  <1>2. IsFiniteSet(rows') /\ Cardinality(rows') = Cardinality(rows) - 1 /\ Cardinality(rows) \in Nat
    BY <1>1, Removed DEF IInv
  <1>3. TypeOK'
    BY <1>1 DEF IInv, TypeOK, Expire, readerVars
  <1>4. SizeBounded'
    BY <1>1, <1>2, RetentionAssumption DEF IInv, TypeOK, SizeBounded, Idle
  <1>5. TrimShape'
    BY <1>1 DEF TrimShape
  <1>6. ExpireShape'
    <2>1. Cardinality(rows') <= MaxRows
      BY <1>1, <1>2, RetentionAssumption DEF IInv, ExpireShape
    <2> QED
      BY <1>1, <2>1 DEF IInv, ExpireShape, OlderThan
  <1> QED
    BY <1>1, <1>2, <1>3, <1>4, <1>5, <1>6 DEF IInv, IdleShape, Idle

\* Passing from the size limit to the age limit preserves the invariant.
LEMMA SelectExpiredStep == ASSUME IInv, SelectExpired PROVE IInv'
  <1>1. /\ phase = "trimming" /\ victims = {} /\ rows' = rows /\ phase' = "expiring"
        /\ cuts' = cuts /\ clock' = clock /\ victims' = OlderThan(MaxAge)
    BY DEF SelectExpired, tableVars
  <1>2. rows \ {} = rows
    OBVIOUS
  <1>3. Cardinality(rows) <= MaxRows
    BY <1>1, <1>2 DEF IInv, TrimShape
  <1>4. TypeOK'
    BY <1>1 DEF IInv, TypeOK, SelectExpired, tableVars, readerVars, OlderThan
  <1>5. SizeBounded'
    BY <1>1 DEF IInv, SizeBounded, Idle
  <1>6. TrimShape' /\ ExpireShape'
    BY <1>1, <1>3 DEF TrimShape, ExpireShape, OlderThan
  <1> QED
    BY <1>1, <1>4, <1>5, <1>6 DEF IInv, IdleShape, Idle

\* The end of a clean-up preserves the invariant: no victim is left.
LEMMA EndCleanupStep == ASSUME IInv, EndCleanup PROVE IInv'
  <1>1. phase = "expiring" /\ phase' = "idle" /\ UNCHANGED <<rows, victims, cuts>> /\ victims = {}
    BY DEF EndCleanup, tableVars
  <1>2. Cardinality(rows) <= MaxRows /\ cuts \in Nat /\ Cardinality(rows) \in Nat
    BY <1>1, CardinalityNat, RetentionAssumption DEF IInv, ExpireShape, TypeOK
  <1>3. SizeBounded'
    BY <1>1, <1>2, RetentionAssumption DEF SizeBounded, Idle
  <1>4. TypeOK' /\ TrimShape' /\ ExpireShape' /\ IdleShape'
    BY <1>1 DEF IInv, TypeOK, EndCleanup, tableVars, readerVars, TrimShape, ExpireShape, IdleShape
  <1> QED
    BY <1>1, <1>3, <1>4 DEF IInv

\* A purge from the dashboard preserves the invariant.
LEMMA PurgeStep == ASSUME IInv, Purge PROVE IInv'
  <1>1. /\ phase = "idle" /\ phase' = "idle" /\ victims' = victims /\ cuts' = cuts /\ victims = {}
        /\ rows' = rows \ OlderThan(PurgeAge)
    BY DEF Purge, Idle, cleanupVars, IInv, IdleShape
  <1>2. /\ IsFiniteSet(rows') /\ Cardinality(rows') <= Cardinality(rows)
        /\ Cardinality(rows') \in Nat /\ Cardinality(rows) \in Nat
    BY <1>1, FS_Subset, FS_CardinalityType DEF IInv
  <1>3. SizeBounded'
    BY <1>1, <1>2, RetentionAssumption DEF IInv, TypeOK, SizeBounded, Idle
  <1>4. TypeOK'
    BY <1>1 DEF IInv, TypeOK, Purge, cleanupVars, readerVars
  <1> QED
    BY <1>1, <1>2, <1>3, <1>4 DEF IInv, TrimShape, ExpireShape, IdleShape

\* A cut preserves the invariant: it is counted, and the rest of the clean-up forgotten.
LEMMA CutStep == ASSUME IInv, Cut PROVE IInv'
  <1>1. /\ phase # "idle" /\ phase' = "idle" /\ victims' = {} /\ cuts' = cuts + 1
        /\ rows' = rows /\ cuts < MaxCuts
    BY DEF Cut, Idle, tableVars
  <1>2. Cardinality(rows) \in Nat /\ cuts \in Nat /\ Cardinality(rows) <= MaxRows + cuts + 1
    BY <1>1, CardinalityNat, RetentionAssumption DEF IInv, TypeOK, SizeBounded, Idle
  <1>3. SizeBounded'
    BY <1>1, <1>2, RetentionAssumption DEF SizeBounded, Idle
  <1>4. TypeOK'
    BY <1>1, RetentionAssumption DEF IInv, TypeOK, Cut, tableVars, readerVars
  <1> QED
    BY <1>1, <1>3, <1>4 DEF IInv, TrimShape, ExpireShape, IdleShape

\* Readers and the clock leave the table alone, and the clock moves only when idle.
LEMMA OtherStep ==
    ASSUME IInv, StartReading \/ ReadPage \/ Refresh \/ Tick \/ SetBack \/ UNCHANGED vars
    PROVE  IInv'
  <1> USE DEF IInv, SizeBounded, TrimShape, ExpireShape, IdleShape, Idle, OldestFirst, OlderThan
  <1>1. CASE StartReading
    BY <1>1, RetentionAssumption DEF StartReading, TypeOK, tableVars, cleanupVars
  <1>2. CASE ReadPage
    <2>1. UNCHANGED <<rows, written, clock, phase, victims, cuts, present>>
      BY <1>2 DEF ReadPage, tableVars, cleanupVars
    <2>2. offset' \in Nat \cup {Done}
      BY <1>2, RetentionAssumption DEF ReadPage, TypeOK
    <2>3. seen' \subseteq Entries
      BY <1>2 DEF ReadPage, Page, TypeOK
    <2> QED
      BY <2>1, <2>2, <2>3 DEF TypeOK
  <1>3. CASE Refresh
    BY <1>3, RetentionAssumption DEF Refresh, TypeOK, tableVars, cleanupVars
  <1>4. CASE Tick
    BY <1>4, RetentionAssumption DEF Tick, TypeOK, tableVars, cleanupVars, readerVars
  <1>5. CASE SetBack
    BY <1>5, RetentionAssumption DEF SetBack, TypeOK, tableVars, cleanupVars, readerVars
  <1>6. CASE UNCHANGED vars
    BY <1>6 DEF vars, TypeOK, tableVars, cleanupVars, readerVars
  <1> QED
    BY <1>1, <1>2, <1>3, <1>4, <1>5, <1>6

\* Every step of the log preserves the invariant.
LEMMA NextIInv == IInv /\ [Next]_vars => IInv'
  BY LogStep, TrimStep, ExpireStep, SelectExpiredStep, EndCleanupStep, PurgeStep, CutStep, OtherStep DEF Next

\* The invariant holds in every reachable state of the log.
THEOREM Invariant == Spec => []IInv
  BY InitIInv, NextIInv, PTL DEF Spec

\* Types, unique keys, and victims that are rows of the table.
THEOREM TypeCorrect == Spec => []TypeOK
  BY Invariant, PTL DEF IInv

\* The size limit of clear_old_entries (audit/models.py:160-175), whatever cuts it short.
THEOREM SizeBoundedHolds == Spec => []SizeBounded
  BY Invariant, PTL DEF IInv

-----------------------------------------------------------------------------
(* Retention.                                                                *)

\* A step deletes only what the size limit or an age limit allows
\* (audit/models.py:166-175, 186-194).
THEOREM RecentRetainedHolds == Spec => RecentRetained
  <1> DEFINE Retained ==
        \A r \in rows \ rows' :
            \/ phase = "trimming" /\ Cardinality({q \in rows' : q.ts >= r.ts}) >= MaxRows - Spare
            \/ phase = "expiring" /\ r.ts < clock - MaxAge
            \/ Idle /\ r.ts < clock - PurgeAge
  <1>1. ASSUME IInv, NEW r \in rows, Trim(r) PROVE Retained
    <2>1. phase = "trimming" /\ r \in victims /\ rows' = rows \ {r} /\ IsFiniteSet(rows)
      BY <1>1 DEF Trim, IInv
    <2> DEFINE newer == {q \in rows' : q.ts >= r.ts}
    <2>2. rows \ victims \subseteq newer /\ newer \subseteq rows
      <3>1. ASSUME NEW q \in rows \ victims PROVE q.ts >= r.ts
        <4>1. r.ts <= q.ts /\ r \in Entries /\ q \in Entries
          BY <2>1, <1>1 DEF IInv, TrimShape, OldestFirst, TypeOK
        <4>2. r.ts \in 0..MaxTime /\ q.ts \in 0..MaxTime
          BY <4>1 DEF Entries
        <4> QED
          BY <4>1, <4>2, RetentionAssumption
      <3> QED
        BY <2>1, <3>1
    <2>3. IsFiniteSet(newer) /\ Cardinality(rows \ victims) <= Cardinality(newer)
      BY <2>1, <2>2, FS_Subset
    <2>4. Cardinality(newer) \in Nat /\ Cardinality(rows \ victims) \in Nat
      BY <2>1, <2>3, FS_Subset, FS_CardinalityType
    <2>5. Cardinality(rows \ victims) >= MaxRows - Spare
      BY <1>1, <2>1 DEF IInv, TrimShape
    <2>6. Cardinality(newer) >= MaxRows - Spare
      BY <2>3, <2>4, <2>5, SpareNat, RetentionAssumption
    <2> QED
      BY <2>1, <2>6
  <1>2. ASSUME IInv, NEW r \in rows, Expire(r) PROVE Retained
    <2>1. phase = "expiring" /\ r \in victims /\ rows' = rows \ {r} /\ victims \subseteq OlderThan(MaxAge)
      BY <1>2 DEF Expire, IInv, ExpireShape
    <2> QED
      BY <2>1 DEF OlderThan
  <1>3. ASSUME Purge PROVE Retained
    BY <1>3 DEF Purge, OlderThan
  <1>4. ASSUME Log PROVE Retained
    BY <1>4 DEF Log
  <1>5. ASSUME rows' = rows PROVE Retained
    BY <1>5
  <1>6. ASSUME SelectExpired \/ EndCleanup \/ StartReading \/ ReadPage \/ Refresh \/ Tick \/ SetBack \/ Cut \/ UNCHANGED vars
        PROVE  rows' = rows
    BY <1>6 DEF SelectExpired, EndCleanup, StartReading, ReadPage, Refresh, Tick, SetBack, Cut, vars, tableVars
  <1> HIDE DEF Retained
  <1>7. Next => \/ Log \/ Purge \/ \E r \in rows : Trim(r) \/ Expire(r)
                \/ rows' = rows
    BY <1>6 DEF Next
  <1>8. IInv /\ [Next]_vars => Retained
    BY <1>1, <1>2, <1>3, <1>4, <1>5, <1>6, <1>7, Zenon
  <1>9. IInv /\ [Next]_vars => [Retained]_vars
    BY <1>8
  <1> QED
    BY <1>9, Invariant, PTL DEF Spec, RecentRetained, Retained

-----------------------------------------------------------------------------
(* The reader.                                                               *)

\* What can move an entry past the reader: one of its time, deleted before it.
Overtaken(r) == \E q \in present \ rows : q.ts = r.ts /\ q.id < r.id

\* Entries that came after the reader began have a higher number; an entry that
\* was there is still ahead of the reader unless it was sent, overtaken or is
\* about to be deleted for its age.
ReaderShape ==
    /\ \A r \in present : r.id <= written
    /\ \A r \in present \cap rows, q \in rows \ present : q.ts = r.ts => r.id < q.id
    /\ \A r \in present \cap rows :
        \/ r \in seen \/ Overtaken(r)
        \/ offset # Done /\ (Rank(r) >= offset \/ (phase = "expiring" /\ r \in victims))

\* The position of a row is a number below the number of rows.
LEMMA RankBounded ==
    ASSUME IsFiniteSet(rows), TypeOK, NEW r \in rows
    PROVE  Rank(r) \in Nat /\ Rank(r) < Cardinality(rows) /\ Cardinality(rows) \in Nat
  <1> DEFINE ahead == {q \in rows : Before(q, r)}
  <1>1. r.ts \in 0..MaxTime /\ r.id \in 1..MaxEntries
    BY DEF TypeOK, Entries
  <1>2. r \notin ahead
    BY <1>1, RetentionAssumption DEF Before
  <1>3. ahead \subseteq rows /\ ahead # rows
    BY <1>2
  <1>4. IsFiniteSet(ahead) /\ Cardinality(ahead) <= Cardinality(rows)
    BY <1>3, FS_Subset
  <1>5. Cardinality(ahead) # Cardinality(rows)
    BY <1>3, FS_Subset
  <1>6. Cardinality(ahead) \in Nat /\ Cardinality(rows) \in Nat
    BY <1>4, FS_CardinalityType
  <1> QED
    BY <1>4, <1>5, <1>6 DEF Rank

\* The position of a row depends on the rows ahead of it only.
LEMMA RankKept ==
    ASSUME NEW r, \A q \in rows \cup rows' : Before(q, r) => q \in rows \cap rows'
    PROVE  Cardinality({q \in rows' : Before(q, r)}) = Rank(r)
  <1>1. {q \in rows' : Before(q, r)} = {q \in rows : Before(q, r)}
    OBVIOUS
  <1> QED
    BY <1>1 DEF Rank

\* A new entry moves nobody towards the reader's past.
LEMMA LogReader == ASSUME IInv, ReaderShape, Log PROVE ReaderShape'
  <1> DEFINE new == [id |-> NewId, ts |-> clock]
  <1>1. /\ rows' = rows \cup {new} /\ written' = written + 1 /\ phase = "idle" /\ phase' = "trimming"
        /\ UNCHANGED <<offset, present, seen>>
    BY DEF Log, Idle, readerVars
  <1>2. written \in Nat /\ new.id = written + 1 /\ new \notin present
    BY RetentionAssumption DEF IInv, TypeOK, NewId, ReaderShape
  <1>3. ASSUME NEW r \in present PROVE r.id <= written'
    <2>1. r.id \in Nat /\ r.id <= written
      BY RetentionAssumption DEF IInv, TypeOK, ReaderShape, Entries
    <2> QED
      BY <1>1, <1>2, <2>1
  <1>4. ASSUME NEW r \in present \cap rows', NEW q \in rows' \ present, q.ts = r.ts PROVE r.id < q.id
    <2>1. r \in rows /\ r.id \in Nat /\ r.id <= written
      BY <1>1, <1>2, RetentionAssumption DEF IInv, TypeOK, ReaderShape, Entries
    <2>2. CASE q = new
      BY <1>2, <2>1, <2>2
    <2>3. CASE q # new
      BY <1>1, <1>4, <2>1, <2>3 DEF ReaderShape
    <2> QED
      BY <2>2, <2>3
  <1>5. ASSUME NEW r \in present \cap rows' PROVE r \in seen \/ Overtaken(r)' \/ (offset # Done /\ Rank(r)' >= offset)
    <2>1. r \in rows
      BY <1>1, <1>2
    <2>2. Overtaken(r) => Overtaken(r)'
      BY <1>1, <1>2 DEF Overtaken
    <2> DEFINE ahead == {q \in rows : Before(q, r)}
               ahead2 == {q \in rows' : Before(q, r)}
    <2>3. IsFiniteSet(ahead2) /\ ahead \subseteq ahead2
      <3>1. IsFiniteSet(rows')
        BY LogStep DEF IInv
      <3>2. ahead2 \subseteq rows'
        OBVIOUS
      <3> QED
        BY <1>1, <3>1, <3>2, FS_Subset
    <2>4. Cardinality(ahead) <= Cardinality(ahead2) /\ Cardinality(ahead) \in Nat /\ Cardinality(ahead2) \in Nat
      BY <2>3, FS_Subset, FS_CardinalityType
    <2>5. Rank(r) = Cardinality(ahead) /\ Rank(r)' = Cardinality(ahead2)
      BY DEF Rank, Before
    <2>6. offset # Done => offset \in Nat
      BY DEF IInv, TypeOK
    <2> QED
      BY <1>1, <2>1, <2>2, <2>4, <2>5, <2>6 DEF ReaderShape
  <1> QED
    BY <1>1, <1>3, <1>4, <1>5 DEF ReaderShape

\* The size limit deletes from the end of the list, or what overtakes its equals.
LEMMA TrimReader == ASSUME IInv, ReaderShape, NEW v \in rows, Trim(v) PROVE ReaderShape'
  <1>1. /\ rows' = rows \ {v} /\ v \in victims /\ phase = "trimming" /\ phase' = "trimming"
        /\ \A q \in victims : v.ts <= q.ts
        /\ UNCHANGED <<written, offset, present, seen>>
    BY DEF Trim, readerVars
  <1>2. ASSUME NEW r \in present \cap rows' PROVE r \in seen \/ Overtaken(r)' \/ (offset # Done /\ Rank(r)' >= offset)
    <2>1. r \in rows /\ r # v
      BY <1>1
    <2>2. /\ v.ts \in 0..MaxTime /\ r.ts \in 0..MaxTime
          /\ v.id \in 1..MaxEntries /\ r.id \in 1..MaxEntries
      BY <2>1 DEF IInv, TypeOK, Entries
    <2>3. v.ts <= r.ts
      BY <1>1, <2>1 DEF IInv, TrimShape, OldestFirst
    <2>4. Overtaken(r) => Overtaken(r)'
      BY <1>1 DEF Overtaken
    <2>5. CASE Before(v, r)
      <3>1. v.ts = r.ts /\ v.id < r.id
        BY <2>2, <2>3, <2>5, RetentionAssumption DEF Before
      <3>2. v \in present
        BY <1>1, <2>1, <2>2, <3>1, RetentionAssumption DEF ReaderShape
      <3> QED
        BY <1>1, <3>1, <3>2 DEF Overtaken
    <2>6. CASE ~Before(v, r)
      <3>1. Cardinality({q \in rows' : Before(q, r)}) = Rank(r)
        BY <1>1, <2>6, RankKept
      <3>2. Rank(r)' = Rank(r)
        BY <3>1 DEF Rank, Before
      <3> QED
        BY <1>1, <2>1, <2>4, <3>2 DEF ReaderShape
    <2> QED
      BY <2>5, <2>6
  <1> QED
    BY <1>1, <1>2 DEF ReaderShape

\* The age limit deletes what is older than all that stays, in any order.
LEMMA ExpireReader == ASSUME IInv, ReaderShape, NEW v \in rows, Expire(v) PROVE ReaderShape'
  <1>1. /\ rows' = rows \ {v} /\ v \in victims /\ phase = "expiring" /\ phase' = "expiring"
        /\ victims' = victims \ {v} /\ UNCHANGED <<written, offset, present, seen>>
    BY DEF Expire, readerVars
  <1>2. victims = OlderThan(MaxAge)
    BY <1>1 DEF IInv, ExpireShape
  <1>3. ASSUME NEW r \in present \cap rows', r \notin victims
        PROVE  r \in seen \/ Overtaken(r)' \/ (offset # Done /\ Rank(r)' >= offset)
    <2>1. r \in rows
      BY <1>1, <1>3
    <2>2. v.ts \in Int /\ r.ts \in Int /\ clock \in Int
      BY <2>1 DEF IInv, TypeOK, Entries
    <2>3. v.ts < clock - MaxAge /\ ~(r.ts < clock - MaxAge)
      BY <1>1, <1>2, <1>3, <2>1 DEF OlderThan
    <2>4. ~Before(v, r)
      BY <2>2, <2>3, RetentionAssumption DEF Before
    <2>5. Cardinality({q \in rows' : Before(q, r)}) = Rank(r)
      BY <1>1, <2>4, RankKept
    <2>6. Rank(r)' = Rank(r)
      BY <2>5 DEF Rank, Before
    <2>7. Overtaken(r) => Overtaken(r)'
      BY <1>1 DEF Overtaken
    <2> QED
      BY <1>1, <1>3, <2>1, <2>6, <2>7 DEF ReaderShape
  <1>4. ASSUME NEW r \in present \cap rows', r \in victims
        PROVE  r \in victims' /\ (r \in seen \/ Overtaken(r)' \/ offset # Done)
    <2>1. Overtaken(r) => Overtaken(r)'
      BY <1>1 DEF Overtaken
    <2> QED
      BY <1>1, <1>4, <2>1 DEF ReaderShape
  <1> QED
    BY <1>1, <1>3, <1>4 DEF ReaderShape

\* A purge deletes everything older than some time at once.
LEMMA PurgeReader == ASSUME IInv, ReaderShape, Purge PROVE ReaderShape'
  <1>1. /\ rows' = rows \ OlderThan(PurgeAge) /\ phase = "idle" /\ phase' = "idle"
        /\ UNCHANGED <<written, offset, present, seen>>
    BY DEF Purge, Idle, readerVars, cleanupVars
  <1>2. ASSUME NEW r \in present \cap rows' PROVE r \in seen \/ Overtaken(r)' \/ (offset # Done /\ Rank(r)' >= offset)
    <2>1. r \in rows /\ ~(r.ts < clock - PurgeAge)
      BY <1>1 DEF OlderThan
    <2>2. ASSUME NEW q \in rows, Before(q, r) PROVE q \in rows'
      <3>1. q.ts \in Int /\ r.ts \in Int /\ clock \in Int /\ q.ts >= r.ts
        BY <2>1, <2>2 DEF IInv, TypeOK, Entries, Before
      <3> QED
        BY <1>1, <2>1, <3>1, RetentionAssumption DEF OlderThan
    <2>3. Cardinality({q \in rows' : Before(q, r)}) = Rank(r)
      BY <1>1, <2>2, RankKept
    <2>4. Rank(r)' = Rank(r)
      BY <2>3 DEF Rank, Before
    <2>5. Overtaken(r) => Overtaken(r)'
      BY <1>1 DEF Overtaken
    <2> QED
      BY <1>1, <2>1, <2>4, <2>5 DEF ReaderShape
  <1> QED
    BY <1>1, <1>2 DEF ReaderShape

\* A cut owes nothing for what the age limit was about to delete, and what it
\* was about to delete is older than what is still owed.
LEMMA CutReader == ASSUME IInv, ReaderShape, Cut PROVE ReaderShape'
  <1>1. /\ UNCHANGED <<rows, written, clock, offset, seen>> /\ phase' = "idle"
        /\ present' = IF phase = "expiring" THEN present \ victims ELSE present
        /\ victims \subseteq rows
    BY DEF Cut, tableVars, IInv, TypeOK
  <1>2. ASSUME NEW r \in present' \cap rows', NEW q \in rows' \ present', q.ts = r.ts PROVE r.id < q.id
    <2>1. CASE q \notin present
      BY <1>1, <1>2, <2>1 DEF ReaderShape
    <2>2. CASE q \in present
      <3>1. phase = "expiring" /\ q \in victims /\ r \notin victims
        BY <1>1, <2>2
      <3>2. victims = OlderThan(MaxAge)
        BY <3>1 DEF IInv, ExpireShape
      <3> QED
        BY <1>1, <1>2, <3>1, <3>2 DEF OlderThan
    <2> QED
      BY <2>1, <2>2
  <1>3. ASSUME NEW r \in present' \cap rows' PROVE r \in seen \/ Overtaken(r)' \/ (offset # Done /\ Rank(r)' >= offset)
    <2>1. r \in present \cap rows /\ ~(phase = "expiring" /\ r \in victims)
      BY <1>1
    <2>2. Overtaken(r) => Overtaken(r)'
      BY <1>1 DEF Overtaken
    <2>3. Rank(r)' = Rank(r)
      BY <1>1 DEF Rank, Before
    <2> QED
      BY <1>1, <2>1, <2>2, <2>3 DEF ReaderShape
  <1>4. \A r \in present' : r.id <= written'
    BY <1>1 DEF ReaderShape
  <1> QED
    BY <1>1, <1>2, <1>3, <1>4 DEF ReaderShape

\* A reader begins with everything ahead of it.
LEMMA StartReader == ASSUME IInv, ReaderShape, StartReading PROVE ReaderShape'
  <1>1. UNCHANGED <<rows, written>> /\ present' = rows /\ offset' = 0 /\ phase = "idle" /\ phase' = "idle"
    BY DEF StartReading, tableVars, cleanupVars, Idle
  <1>2. ASSUME NEW r \in rows PROVE Rank(r)' >= 0
    <2>1. Rank(r) \in Nat
      BY RankBounded DEF IInv
    <2>2. Rank(r)' = Rank(r)
      BY <1>1 DEF Rank, Before
    <2> QED
      BY <2>1, <2>2
  <1>3. offset' # Done
    BY <1>1 DEF Done
  <1> QED
    BY <1>1, <1>2, <1>3 DEF ReaderShape, IInv, TypeOK

\* A page holds all rows between the old and the new offset.
LEMMA PageReader == ASSUME IInv, ReaderShape, ReadPage PROVE ReaderShape'
  <1>1. /\ UNCHANGED <<rows, written, present>> /\ phase = "idle" /\ phase' = "idle" /\ offset # Done
        /\ seen' = seen \cup Page
        /\ offset' = IF offset + PageSize < Cardinality(rows) THEN offset + PageSize ELSE Done
    BY DEF ReadPage, tableVars, cleanupVars, Idle
  <1>2. offset \in Nat
    BY <1>1 DEF IInv, TypeOK
  <1>3. ASSUME NEW r \in present \cap rows
        PROVE  r \in seen' \/ Overtaken(r)' \/ (offset' # Done /\ Rank(r)' >= offset')
    <2>1. Rank(r) \in Nat /\ Rank(r) < Cardinality(rows) /\ Cardinality(rows) \in Nat
      BY RankBounded DEF IInv
    <2>2. Overtaken(r) <=> Overtaken(r)'
      BY <1>1 DEF Overtaken
    <2>3. Rank(r)' = Rank(r)
      BY <1>1 DEF Rank, Before
    <2>4. CASE r \in seen \/ Overtaken(r)
      BY <1>1, <2>2, <2>4
    <2>5. CASE Rank(r) >= offset /\ Rank(r) < offset + PageSize
      <3>1. Rank(r) \in offset..(offset + PageSize - 1)
        BY <1>2, <2>1, <2>5, RetentionAssumption
      <3> QED
        BY <1>1, <3>1 DEF Page
    <2>6. CASE Rank(r) >= offset + PageSize
      <3>1. offset + PageSize < Cardinality(rows)
        BY <1>2, <2>1, <2>6, RetentionAssumption
      <3>2. offset' = offset + PageSize
        BY <1>1, <3>1
      <3> QED
        BY <1>2, <2>3, <2>6, <3>2, RetentionAssumption DEF Done
    <2> QED
      BY <1>1, <1>2, <2>1, <2>4, <2>5, <2>6, RetentionAssumption DEF ReaderShape
  <1> QED
    BY <1>1, <1>3 DEF ReaderShape

\* Going back to the first page puts every row ahead again.
LEMMA RefreshReader == ASSUME IInv, ReaderShape, Refresh PROVE ReaderShape'
  <1>1. UNCHANGED <<rows, written, present, seen, victims>> /\ phase' = phase /\ offset' = 0
    BY DEF Refresh, tableVars, cleanupVars
  <1>2. ASSUME NEW r \in rows PROVE Rank(r)' >= offset'
    <2>1. Rank(r) \in Nat
      BY RankBounded DEF IInv
    <2>2. Rank(r)' = Rank(r)
      BY <1>1 DEF Rank, Before
    <2> QED
      BY <1>1, <2>1, <2>2
  <1>3. offset' # Done
    BY <1>1 DEF Done
  <1> QED
    BY <1>1, <1>2, <1>3 DEF ReaderShape

\* The rest changes neither the rows nor what the reader was sent.
LEMMA OtherReader ==
    ASSUME IInv, ReaderShape, SelectExpired \/ EndCleanup \/ Tick \/ SetBack \/ UNCHANGED vars
    PROVE  ReaderShape'
  <1>1. UNCHANGED <<rows, written, offset, present, seen>>
    BY DEF SelectExpired, EndCleanup, Tick, SetBack, vars, tableVars, readerVars
  <1>2. ASSUME NEW r, phase = "expiring" /\ r \in victims PROVE phase' = "expiring" /\ r \in victims'
    BY <1>2 DEF SelectExpired, EndCleanup, Tick, SetBack, Idle, vars, cleanupVars
  <1>3. ASSUME NEW r PROVE Rank(r)' = Rank(r) /\ (Overtaken(r)' <=> Overtaken(r))
    BY <1>1 DEF Rank, Before, Overtaken
  <1> QED
    BY <1>1, <1>2, <1>3 DEF ReaderShape

\* What a reader that pages to the end is sent (audit/models.py:104-128 and
\* dashboard.js:99-120), whatever is added, deleted or cut short meanwhile.
THEOREM ScanCompleteHolds == Spec => []ScanComplete
  <1>1. Init => ReaderShape
    BY DEF Init, ReaderShape
  <1>2. IInv /\ ReaderShape /\ [Next]_vars => ReaderShape'
    BY LogReader, TrimReader, ExpireReader, PurgeReader, CutReader, StartReader, PageReader, RefreshReader,
       OtherReader DEF Next
  <1>3. IInv /\ ReaderShape => ScanComplete
    <2> SUFFICES ASSUME IInv, ReaderShape, offset = Done, NEW r \in present \cap rows
                 PROVE  r \in seen \/ Overtaken(r)
      BY DEF ScanComplete, Overtaken
    <2> QED
      BY DEF ReaderShape
  <1> QED
    BY <1>1, <1>2, <1>3, Invariant, PTL DEF Spec
=============================================================================
