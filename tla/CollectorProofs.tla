--------------------------- MODULE CollectorProofs ---------------------------
(***************************************************************************)
(* Theorems about Collector and the retention of TickStore, for any        *)
(* windows, venues and bounds.                                             *)
(***************************************************************************)
EXTENDS Collector, FiniteSetTheorems, TLAPS

-----------------------------------------------------------------------------
(* Counting ticks.                                                         *)

\* Deleting some of a finite set of ticks splits every count in two.
LEMMA CountSplits ==
  ASSUME NEW S, IsFiniteSet(S), NEW T, T \subseteq S
  PROVE  /\ IsFiniteSet(S \ T) /\ IsFiniteSet(T)
         /\ Cardinality(T) \in Nat /\ Cardinality(S \ T) \in Nat
         /\ Cardinality(S) = Cardinality(S \ T) + Cardinality(T)
<1>1. IsFiniteSet(T)
  BY FS_Subset
<1>2. S \cap T = T
  OBVIOUS
<1>3. IsFiniteSet(S \ T) /\ Cardinality(S \ T) = Cardinality(S) - Cardinality(T)
  BY <1>2, FS_Difference
<1>4. Cardinality(S) \in Nat /\ Cardinality(T) \in Nat /\ Cardinality(S \ T) \in Nat
  BY <1>1, <1>3, FS_CardinalityType
<1> QED BY <1>1, <1>3, <1>4

\* Ticks are counted by their hour; the raw rows do not matter.
Stripped(ticks, n) == {[t EXCEPT !.raw = @ /\ t.at >= n - RawAfter] : t \in ticks}

UniqueIds(ticks) == \A a, b \in ticks : a.id = b.id => a = b

LEMMA StripCount ==
  ASSUME NEW ticks \in SUBSET TickRec, IsFiniteSet(ticks), UniqueIds(ticks), NEW n, NEW h
  PROVE  /\ IsFiniteSet(Stripped(ticks, n))
         /\ Cardinality(InHour(Stripped(ticks, n), h)) = Cardinality(InHour(ticks, h))
<1> DEFINE strip(t) == [t EXCEPT !.raw = @ /\ t.at >= n - RawAfter]
<1>1. \A t \in ticks : strip(t).id = t.id /\ strip(t).ok = t.ok /\ strip(t).at = t.at
  BY DEF TickRec
<1>2. ASSUME NEW S \in SUBSET ticks
      PROVE  ExistsBijection(S, {strip(t) : t \in S})
  <2> DEFINE f == [t \in S |-> strip(t)]
             T == {strip(t) : t \in S}
  <2>1. f \in [S -> T] /\ \A u \in T : \E t \in S : f[t] = u
    OBVIOUS
  <2>2. \A a, b \in S : f[a] = f[b] => a = b
    <3> SUFFICES ASSUME NEW a \in S, NEW b \in S, f[a] = f[b] PROVE a = b
      OBVIOUS
    <3>1. strip(a).id = a.id /\ strip(b).id = b.id
      BY <1>1
    <3>2. strip(a) = strip(b)
      OBVIOUS
    <3> HIDE DEF strip
    <3> QED BY <3>1, <3>2 DEF UniqueIds
  <2>3. f \in Injection(S, T)
    BY <2>1, <2>2 DEF Injection, IsInjective
  <2>4. f \in Surjection(S, T)
    BY <2>1 DEF Surjection
  <2> QED BY <2>3, <2>4 DEF ExistsBijection, Bijection
<1>3. IsFiniteSet(Stripped(ticks, n))
  BY <1>2, FS_Bijection DEF Stripped
<1>4. InHour(Stripped(ticks, n), h) = {strip(t) : t \in InHour(ticks, h)}
  BY <1>1 DEF Stripped, InHour
<1>5. InHour(ticks, h) \in SUBSET ticks /\ IsFiniteSet(InHour(ticks, h))
  BY FS_Subset DEF InHour
<1> QED BY <1>2, <1>3, <1>4, <1>5, FS_Bijection

-----------------------------------------------------------------------------
(* The inductive invariant.                                                *)

\* Ids grow; a poll numbers its rows.
Rows ==
  /\ IsFiniteSet(db.ticks) /\ UniqueIds(db.ticks)
  /\ \A t \in db.ticks : t.id < nextId /\ t.poll <= poll

\* What a poll has stored so far.
OwnRows ==
  /\ pc \in {"tick", "insert"} => \A t \in db.ticks : t.poll # poll
  /\ pc \in {"purge", "beat", "failed"} => \A t \in db.ticks : t.poll = poll => t.note = "none"
  /\ pc \in {"tick", "insert", "purge", "beat", "failed"} => poll # 0
  /\ pc \in {"purge", "beat"} => tickId < nextId

Promises ==
  /\ RollupConserves /\ ScheduledPollTakesPriority /\ NoLateResult
  /\ OneProbePerVenueAndDay

CollectorInv == TypeOK /\ Rows /\ OwnRows /\ Promises

-----------------------------------------------------------------------------
LEMMA Zero == MaxTime \in Nat /\ 0 \in 0..MaxTime /\ 0 \in 0..MaxPolls
<1>1. MaxTime \in Nat
  BY StoreAssumption
<1>2. MaxPolls \in Nat
  BY CollectorAssumption
<1> QED BY <1>1, <1>2

LEMMA HoursOf == \A t \in 0..MaxTime : Hour(t) \in Hours
<1> QED BY DEF Hours

\* What Store does to the table, whoever calls it.
LEMMA StoreCounts ==
  ASSUME CollectorInv, NEW row \in TickRec, Store(row), poll' = poll,
         row.id = nextId, row.at \in 0..MaxTime, row.poll <= poll
  PROVE  /\ db' \in DbRec /\ nextId' \in Nat \ {0} /\ kept' \in [Hours -> Int]
         /\ Rows' /\ RollupConserves' /\ OneProbePerVenueAndDay'
         /\ db'.ticks = db.ticks \cup {row} /\ nextId' = nextId + 1
<1> USE DEF CollectorInv, TypeOK, DbRec
<1>1. /\ db'.ticks = db.ticks \cup {row} /\ db'.rollup = db.rollup /\ db'.probes = db.probes
      /\ db' \in DbRec /\ nextId' = nextId + 1 /\ nextId' \in Nat \ {0}
  BY DEF Store, InsertTickWithQuotes
<1>2. kept' = [kept EXCEPT ![Hour(row.at)] = @ + (IF row.ok THEN 1 ELSE 0)]
  BY DEF Store
<1>3. Hour(row.at) \in Hours
  BY HoursOf
<1>4. kept' \in [Hours -> Int]
  BY <1>2, <1>3
<1>5. row \notin db.ticks
  BY DEF Rows, TickRec
<1>6. Rows'
  <2>1. IsFiniteSet(db'.ticks)
    BY <1>1, FS_AddElement DEF Rows
  <2>2. UniqueIds(db'.ticks)
    BY <1>1 DEF Rows, UniqueIds, TickRec
  <2>3. \A t \in db'.ticks : t.id < nextId' /\ t.poll <= poll'
    BY <1>1 DEF Rows, TickRec
  <2> QED BY <2>1, <2>2, <2>3 DEF Rows
<1>7. RollupConserves'
  <2> SUFFICES ASSUME NEW h \in Hours
               PROVE  kept'[h] = db'.rollup[h] + Cardinality(InHour(db'.ticks, h))
    BY DEF RollupConserves
  <2> DEFINE S == InHour(db.ticks, h)
  <2>1. /\ IsFiniteSet(S) /\ Cardinality(S) \in Nat /\ row \notin S
        /\ kept[h] = db.rollup[h] + Cardinality(S) /\ db.rollup[h] \in Nat
    BY <1>5, FS_Subset, FS_CardinalityType DEF InHour, Rows, Promises, RollupConserves
  <2>2. CASE row.ok /\ Hour(row.at) = h
    <3>1. InHour(db'.ticks, h) = S \cup {row}
      BY <1>1, <2>2 DEF InHour
    <3>2. Cardinality(S \cup {row}) = Cardinality(S) + 1
      BY <2>1, FS_AddElement
    <3>3. kept'[h] = kept[h] + 1
      BY <1>2, <1>3, <2>2
    <3>4. Cardinality(InHour(db'.ticks, h)) = Cardinality(S) + 1 /\ db'.rollup[h] = db.rollup[h]
      BY <1>1, <3>1, <3>2
    <3> HIDE DEF S
    <3> QED BY <2>1, <3>3, <3>4
  <2>3. CASE ~(row.ok /\ Hour(row.at) = h)
    <3>1. InHour(db'.ticks, h) = S
      BY <1>1, <2>3 DEF InHour
    <3>2. kept'[h] = kept[h]
      BY <1>2, <1>3, <2>3
    <3> QED BY <1>1, <2>1, <3>1, <3>2
  <2> QED BY <2>2, <2>3
<1>8. OneProbePerVenueAndDay'
  BY <1>1 DEF Promises, OneProbePerVenueAndDay
<1> QED BY <1>1, <1>4, <1>6, <1>7, <1>8

\* Ticks leave the table and with them leaves what was counted for them.
LEMMA RemovalCounts ==
  ASSUME CollectorInv, NEW gone \in SUBSET db.ticks, NEW h \in Hours
  PROVE  /\ IsFiniteSet(db.ticks \ gone)
         /\ Cardinality(InHour(gone, h)) \in Nat
         /\ Cardinality(InHour(db.ticks \ gone, h)) \in Nat
         /\ Cardinality(InHour(db.ticks, h))
              = Cardinality(InHour(db.ticks \ gone, h)) + Cardinality(InHour(gone, h))
<1> DEFINE S == InHour(db.ticks, h)
           T == InHour(gone, h)
<1>1. IsFiniteSet(db.ticks) /\ IsFiniteSet(S) /\ T \subseteq S
  BY FS_Subset DEF InHour, CollectorInv, Rows
<1>2. InHour(db.ticks \ gone, h) = S \ T
  BY DEF InHour
<1>3. IsFiniteSet(db.ticks \ gone)
  BY <1>1, CountSplits
<1> QED BY <1>1, <1>2, <1>3, CountSplits

\* A step that leaves the database and the poll's number alone.
LEMMA QuietKeeps ==
  ASSUME CollectorInv, TypeOK', UNCHANGED <<store, poll>>,
         pc' \in {"tick", "insert"} => pc \in {"tick", "insert"},
         pc' = "failed" => pc \in {"tick", "insert", "purge", "beat", "failed"},
         pc' \in {"purge", "beat"} => pc' = pc /\ tickId' = tickId
  PROVE  CollectorInv'
<1> USE DEF CollectorInv, store
<1>1. Rows'
  BY DEF Rows
<1>2. OwnRows'
  BY DEF OwnRows, TypeOK, DbRec, TickRec
<1>3. Promises'
  BY DEF Promises, RollupConserves, ScheduledPollTakesPriority, NoLateResult,
         OneProbePerVenueAndDay
<1> QED BY <1>1, <1>2, <1>3

LEMMA DayOf == \A t \in 0..MaxTime : Day(t) \in Nat
<1> QED BY StoreAssumption DEF Day

\* A step that may only take ticks, or their raw rows, out of the table, while
\* nothing the poll has stored is being looked at.
LEMMA RetentionKeeps ==
  ASSUME CollectorInv, TypeOK', Rows', RollupConserves', poll' = poll,
         db'.probes = db.probes,
         pc' \in {"maintain", "rollup", "coherence"},
         \A t \in db'.ticks : \E u \in db.ticks : t.id = u.id /\ t.poll = u.poll /\ t.note = u.note
  PROVE  CollectorInv'
<1>1. OwnRows'
  BY DEF OwnRows
<1>2. NoLateResult'
  <2> SUFFICES ASSUME NEW a \in db'.ticks, NEW b \in db'.ticks,
                      a.poll = b.poll, a.poll # 0, a.id < b.id
               PROVE  a.note = "none" /\ b.note = "exception"
    BY DEF NoLateResult
  <2>1. PICK c \in db.ticks : a.id = c.id /\ a.poll = c.poll /\ a.note = c.note
    OBVIOUS
  <2>2. PICK d \in db.ticks : b.id = d.id /\ b.poll = d.poll /\ b.note = d.note
    OBVIOUS
  <2>3. c.poll = d.poll /\ c.poll # 0 /\ c.id < d.id
    BY <2>1, <2>2
  <2>4. c.note = "none" /\ d.note = "exception"
    BY <2>3 DEF CollectorInv, Promises, NoLateResult
  <2> QED BY <2>1, <2>2, <2>4
<1>3. ScheduledPollTakesPriority' /\ OneProbePerVenueAndDay'
  BY DEF ScheduledPollTakesPriority, CollectorInv, Promises, OneProbePerVenueAndDay
<1> QED BY <1>1, <1>2, <1>3 DEF CollectorInv, Promises

-----------------------------------------------------------------------------
LEMMA CollectorInit == Init => CollectorInv
<1> SUFFICES ASSUME Init PROVE CollectorInv
  OBVIOUS
<1> USE Zero DEF Init, EmptyDb
<1>1. TypeOK
  <2>1. db \in DbRec /\ kept \in [Hours -> Int]
    BY DEF DbRec
  <2>2. -1 \in Int /\ nextId \in Nat \ {0}
    OBVIOUS
  <2> QED BY <2>1, <2>2 DEF TypeOK, Step, NoDay
<1>2. Rows
  BY FS_EmptySet DEF Rows, UniqueIds
<1>3. RollupConserves
  <2>1. \A h \in Hours : InHour({}, h) = {}
    BY DEF InHour
  <2> QED BY <2>1, FS_EmptySet DEF RollupConserves
<1>4. OwnRows /\ ScheduledPollTakesPriority /\ NoLateResult /\ OneProbePerVenueAndDay
  BY DEF OwnRows, ScheduledPollTakesPriority, NoLateResult, OneProbePerVenueAndDay
<1> QED BY <1>1, <1>2, <1>3, <1>4 DEF CollectorInv, Promises

\* Steps that do not touch the database.
LEMMA QuietSteps ==
  ASSUME CollectorInv,
         \/ Advance \/ Boot \/ LateEnds \/ TickTimesOut \/ Heartbeat \/ CoherenceEnds
         \/ GoToSleep \/ Exit \/ TickAnswers \/ TickThrows \/ StoreThrows \/ Sigterm
         \/ Crash \/ RefreshStart \/ RefreshFails
  PROVE  CollectorInv'
<1> USE Zero
    DEF vars, store, daemon, job, upkeep, outside, web, Goto, Forget, Die, Step, NoDay, Poll
<1>0. TypeOK
  BY DEF CollectorInv
<1>1. CASE Advance
  <2>1. now' \in 0..MaxTime
    BY <1>0, <1>1 DEF Advance, TypeOK
  <2>2. UNCHANGED <<store, daemon, late, web, crashes>>
    BY <1>1 DEF Advance
  <2>3. TypeOK'
    BY <1>0, <2>1, <2>2 DEF TypeOK
  <2> QED BY <2>2, <2>3, QuietKeeps
<1>2. CASE Boot
  <2>1. TypeOK' /\ UNCHANGED <<store, poll>> /\ pc' = "boot"
    BY <1>0, <1>2 DEF Boot, TypeOK
  <2> QED BY <2>1, QuietKeeps
<1>3. CASE LateEnds
  <2>1. TypeOK' /\ UNCHANGED <<store, poll, pc, tickId>>
    BY <1>0, <1>3 DEF LateEnds, TypeOK
  <2> QED BY <2>1, QuietKeeps
<1>4. CASE TickTimesOut \/ TickThrows
  <2>1. poll \in Poll
    BY <1>0, <1>4 DEF TickTimesOut, TickThrows, TypeOK, CollectorInv, OwnRows
  <2>2. TypeOK' /\ UNCHANGED <<store, poll>> /\ pc' = "failed" /\ pc = "tick"
    BY <1>0, <1>4, <2>1 DEF TickTimesOut, TickThrows, TypeOK
  <2> QED BY <2>2, QuietKeeps
<1>5. CASE Heartbeat
  <2>1. TypeOK' /\ UNCHANGED <<store, poll>> /\ pc' = "maintain"
    BY <1>0, <1>5 DEF Heartbeat, TypeOK
  <2> QED BY <2>1, QuietKeeps
<1>6. CASE CoherenceEnds \/ GoToSleep
  <2>1. TypeOK' /\ UNCHANGED <<store, poll>> /\ pc' \in {"loop", "sleep"}
    BY <1>0, <1>6 DEF CoherenceEnds, GoToSleep, TypeOK
  <2> QED BY <2>1, QuietKeeps
<1>7. CASE Exit \/ Crash
  <2>1. UNCHANGED <<store, poll, now, inFlight, refreshAt, refreshes>> /\ pc' = "off"
    BY <1>7 DEF Exit, Crash
  <2>2. /\ started' = 0 /\ pending' = FALSE /\ tickId' = 0 /\ asOf' = 0 /\ todo' = {}
        /\ maintDay' = -1 /\ stopping' = FALSE /\ late' = {}
    BY <1>7 DEF Exit, Crash
  <2>3. crashes' \in Nat /\ -1 \in Int
    BY <1>0, <1>7 DEF Exit, Crash, TypeOK
  <2>4. TypeOK'
    BY <1>0, <2>1, <2>2, <2>3 DEF TypeOK
  <2> QED BY <2>1, <2>4, QuietKeeps
<1>8. CASE TickAnswers
  <2>1. TypeOK' /\ UNCHANGED <<store, poll>> /\ pc' = "insert" /\ pc = "tick"
    BY <1>0, <1>8 DEF TickAnswers, TypeOK
  <2> QED BY <2>1, QuietKeeps
<1>9. CASE StoreThrows
  <2>1. /\ TypeOK' /\ UNCHANGED <<store, poll>> /\ pc' = "failed"
        /\ pc \in {"insert", "purge", "beat"}
    BY <1>0, <1>9 DEF StoreThrows, TypeOK
  <2> QED BY <2>1, QuietKeeps
<1>10. CASE Sigterm
  <2>1. TypeOK' /\ UNCHANGED <<store, poll, pc, tickId>>
    BY <1>0, <1>10 DEF Sigterm, TypeOK
  <2> QED BY <2>1, QuietKeeps
<1>11. CASE RefreshStart \/ RefreshFails
  <2>1. UNCHANGED <<store, daemon, late, now, crashes>>
    BY <1>11 DEF RefreshStart, RefreshFails
  <2>2. inFlight' \in BOOLEAN /\ refreshAt' \in 0..MaxTime /\ refreshes' \in Nat
    <3>1. CASE RefreshStart
      BY <1>0, <3>1 DEF RefreshStart, TypeOK
    <3>2. CASE RefreshFails
      BY <1>0, <3>2 DEF RefreshFails, TypeOK
    <3> QED BY <1>11, <3>1, <3>2
  <2>3. TypeOK'
    BY <1>0, <2>1, <2>2 DEF TypeOK
  <2> QED BY <2>1, <2>3, QuietKeeps
<1> QED BY <1>1, <1>2, <1>3, <1>4, <1>5, <1>6, <1>7, <1>8, <1>9, <1>10, <1>11

\* A new poll has stored nothing yet.
LEMMA StartPollKeeps ==
  ASSUME CollectorInv, StartPoll PROVE CollectorInv'
<1> USE Zero DEF CollectorInv, StartPoll, store, upkeep, outside, web, Goto, Step, NoDay
<1>1. TypeOK'
  <2>1. poll' \in 0..MaxPolls
    BY CollectorAssumption DEF TypeOK
  <2> QED BY <2>1 DEF TypeOK
<1>2. poll' = poll + 1 /\ poll \in Nat /\ db' = db /\ nextId' = nextId
  BY DEF TypeOK
<1>3. \A t \in db.ticks : t.poll \in Nat
  BY DEF TypeOK, DbRec, TickRec
<1>4. Rows'
  BY <1>2, <1>3 DEF Rows
<1>5. \A t \in db'.ticks : t.poll # poll'
  BY <1>2, <1>3 DEF Rows
<1>6. OwnRows'
  BY <1>2, <1>5 DEF OwnRows
<1>7. Promises'
  BY DEF Promises, RollupConserves, ScheduledPollTakesPriority, NoLateResult,
         OneProbePerVenueAndDay
<1> QED BY <1>1, <1>4, <1>6, <1>7

\* The three rows the two processes store.
LEMMA RowHasType ==
  ASSUME CollectorInv, NEW at \in 0..MaxTime, NEW note \in {"none", "manual", "exception"},
         NEW ok \in BOOLEAN, NEW p \in Nat, p <= poll
  PROVE  /\ Row(at, note, ok, p) \in TickRec
         /\ Row(at, note, ok, p).id = nextId /\ Row(at, note, ok, p).at = at
         /\ Row(at, note, ok, p).note = note /\ Row(at, note, ok, p).poll = p
<1> QED BY Zero DEF Row, TickRec, CollectorInv, TypeOK

\* A row of a higher id than the others respects their order.
LEMMA NewRowInOrder ==
  ASSUME CollectorInv, NEW row \in TickRec, db'.ticks = db.ticks \cup {row}, row.id = nextId,
         \A t \in db.ticks : t.poll = row.poll /\ row.poll # 0
                               => t.note = "none" /\ row.note = "exception"
  PROVE  NoLateResult'
<1> SUFFICES ASSUME NEW a \in db'.ticks, NEW b \in db'.ticks,
                    a.poll = b.poll, a.poll # 0, a.id < b.id
             PROVE  a.note = "none" /\ b.note = "exception"
  BY DEF NoLateResult
<1>1. \A t \in db.ticks : t.id \in Nat /\ t.id < nextId
  BY DEF CollectorInv, Rows, TypeOK, DbRec, TickRec
<1>2. CASE a \in db.ticks /\ b \in db.ticks
  BY <1>2 DEF CollectorInv, Promises, NoLateResult
<1>3. CASE a = row
  <2>1. ~(row.id < row.id) /\ \A t \in db.ticks : ~(row.id < t.id)
    BY <1>1 DEF TickRec
  <2> QED BY <1>3, <2>1
<1>4. CASE a \in db.ticks /\ b = row
  BY <1>4
<1> QED BY <1>2, <1>3, <1>4

LEMMA InsertKeeps ==
  ASSUME CollectorInv, Insert PROVE CollectorInv'
<1> DEFINE row == Row(started, "none", pending, poll)
<1>0. TypeOK /\ poll \in Nat /\ started \in 0..MaxTime /\ pending \in BOOLEAN /\ nextId \in Nat
  BY Zero DEF CollectorInv, TypeOK
<1>1. /\ pc = "insert" /\ pc' = "purge" /\ Store(row) /\ tickId' = nextId /\ pending' = FALSE
      /\ UNCHANGED <<poll, started, asOf, todo, maintDay, stopping, late>>
      /\ UNCHANGED <<now, inFlight, refreshAt, refreshes, crashes>>
  BY DEF Insert, Goto, upkeep, outside, web
<1>2. row \in TickRec /\ row.id = nextId /\ row.at = started /\ row.note = "none" /\ row.poll = poll
  BY <1>0, RowHasType
<1> HIDE DEF row
<1>3. /\ db' \in DbRec /\ nextId' \in Nat \ {0} /\ kept' \in [Hours -> Int]
      /\ Rows' /\ RollupConserves' /\ OneProbePerVenueAndDay'
      /\ db'.ticks = db.ticks \cup {row} /\ nextId' = nextId + 1
  BY <1>0, <1>1, <1>2, StoreCounts
<1>4. TypeOK'
  BY <1>0, <1>1, <1>3 DEF TypeOK, Step
<1>5. \A t \in db.ticks : t.poll # poll
  BY <1>1 DEF CollectorInv, OwnRows
<1>6. OwnRows'
  <2>1. tickId' < nextId'
    BY <1>0, <1>1, <1>3
  <2>2. poll' # 0
    BY <1>1 DEF CollectorInv, OwnRows
  <2> QED BY <1>1, <1>2, <1>3, <1>5, <2>1, <2>2 DEF OwnRows
<1>7. NoLateResult'
  BY <1>2, <1>3, <1>5, NewRowInOrder
<1>8. ScheduledPollTakesPriority'
  BY <1>1 DEF ScheduledPollTakesPriority
<1> QED BY <1>3, <1>4, <1>6, <1>7, <1>8 DEF CollectorInv, Promises

LEMMA RecordFailureKeeps ==
  ASSUME CollectorInv, RecordFailure PROVE CollectorInv'
<1> DEFINE row == Row(started, "exception", FALSE, poll)
<1>0. TypeOK /\ poll \in Nat /\ started \in 0..MaxTime /\ nextId \in Nat
  BY Zero DEF CollectorInv, TypeOK
<1>1. /\ pc = "failed" /\ pc' = "maintain" /\ started' = 0 /\ pending' = FALSE /\ tickId' = 0
      /\ UNCHANGED <<poll, asOf, todo, maintDay, stopping, late>>
      /\ UNCHANGED <<now, inFlight, refreshAt, refreshes, crashes>>
  BY DEF RecordFailure, Goto, Forget, upkeep, outside, web
<1>2. CASE UNCHANGED store
  <2>1. TypeOK'
    BY <1>0, <1>1, <1>2, Zero DEF TypeOK, Step, store
  <2> QED BY <1>1, <1>2, <2>1, QuietKeeps
<1>3. CASE Store(row)
  <2>1. /\ row \in TickRec /\ row.id = nextId /\ row.at = started
        /\ row.note = "exception" /\ row.poll = poll
    BY <1>0, Zero DEF Row, TickRec
  <2> HIDE DEF row
  <2>2. /\ db' \in DbRec /\ nextId' \in Nat \ {0} /\ kept' \in [Hours -> Int]
        /\ Rows' /\ RollupConserves' /\ OneProbePerVenueAndDay'
        /\ db'.ticks = db.ticks \cup {row}
    BY <1>0, <1>1, <1>3, <2>1, StoreCounts
  <2>3. TypeOK'
    BY <1>0, <1>1, <2>2, Zero DEF TypeOK, Step
  <2>4. \A t \in db.ticks : t.poll = poll => t.note = "none"
    BY <1>1 DEF CollectorInv, OwnRows
  <2>5. NoLateResult'
    BY <2>1, <2>2, <2>4, NewRowInOrder
  <2>6. OwnRows' /\ ScheduledPollTakesPriority'
    BY <1>1 DEF OwnRows, ScheduledPollTakesPriority
  <2> QED BY <2>2, <2>3, <2>5, <2>6 DEF CollectorInv, Promises
<1> QED BY <1>2, <1>3 DEF RecordFailure

LEMMA RefreshStoresKeeps ==
  ASSUME CollectorInv, RefreshStores PROVE CollectorInv'
<1>0. TypeOK /\ poll \in Nat /\ refreshAt \in 0..MaxTime /\ nextId \in Nat /\ tickId \in Nat
  BY Zero DEF CollectorInv, TypeOK
<1>1. /\ inFlight' = FALSE /\ refreshAt' = 0
      /\ UNCHANGED <<pc, poll, started, pending, tickId, asOf, todo, maintDay, stopping>>
      /\ UNCHANGED <<late, now, refreshes, crashes>>
  BY DEF RefreshStores, daemon, job, upkeep
<1>2. PICK ok \in BOOLEAN : Store(Row(refreshAt, "manual", ok, 0))
  BY DEF RefreshStores
<1> DEFINE row == Row(refreshAt, "manual", ok, 0)
<1>3. /\ row \in TickRec /\ row.id = nextId /\ row.at = refreshAt
      /\ row.note = "manual" /\ row.poll = 0
  BY <1>0, RowHasType
<1>4. Store(row)
  BY <1>2
<1> HIDE DEF row
<1>5. /\ db' \in DbRec /\ nextId' \in Nat \ {0} /\ kept' \in [Hours -> Int]
      /\ Rows' /\ RollupConserves' /\ OneProbePerVenueAndDay'
      /\ db'.ticks = db.ticks \cup {row} /\ nextId' = nextId + 1
  BY <1>0, <1>1, <1>3, <1>4, StoreCounts
<1>6. TypeOK'
  BY <1>0, <1>1, <1>5, Zero DEF TypeOK
<1>7. OwnRows'
  <2>1. tickId < nextId => tickId' < nextId'
    BY <1>0, <1>1, <1>5
  <2> QED BY <1>1, <1>3, <1>5, <2>1 DEF CollectorInv, OwnRows
<1>8. NoLateResult'
  BY <1>3, <1>5, NewRowInOrder
<1>9. ScheduledPollTakesPriority'
  <2> SUFFICES ASSUME pc' = "beat", NEW t \in db'.ticks, t.note = "manual" PROVE t.id > tickId'
    BY DEF ScheduledPollTakesPriority
  <2>1. CASE t \in db.ticks
    BY <1>1, <2>1 DEF CollectorInv, Promises, ScheduledPollTakesPriority
  <2>2. CASE t = row
    <3>1. tickId < nextId
      BY <1>1 DEF CollectorInv, OwnRows
    <3> QED BY <1>0, <1>1, <1>3, <2>2, <3>1
  <2> QED BY <1>5, <2>1, <2>2
<1> QED BY <1>5, <1>6, <1>7, <1>8, <1>9 DEF CollectorInv, Promises

LEMMA PurgeKeeps ==
  ASSUME CollectorInv, Purge PROVE CollectorInv'
<1> DEFINE gone == {t \in db.ticks : t.note = "manual"}
<1>0. TypeOK
  BY DEF CollectorInv
<1>1. /\ pc = "purge" /\ pc' = "beat" /\ db' = PurgeManualTicks(db)
      /\ UNCHANGED <<nextId, poll, started, pending, tickId, asOf, todo, maintDay>>
      /\ UNCHANGED <<stopping, late, now, inFlight, refreshAt, refreshes, crashes>>
  BY DEF Purge, Goto, job, upkeep, outside, web
<1>2. /\ db'.ticks = db.ticks \ gone /\ db'.rollup = db.rollup /\ db'.probes = db.probes
      /\ db' \in DbRec
  BY <1>0, <1>1 DEF PurgeManualTicks, TypeOK, DbRec
<1>3. \A h \in Hours : /\ kept'[h] = kept[h] - Cardinality(InHour(gone, h))
                       /\ Cardinality(InHour(gone, h)) \in Nat
  <2> TAKE h \in Hours
  <2>1. {t \in InHour(db.ticks, h) : t.note = "manual"} = InHour(gone, h)
    BY DEF InHour
  <2>2. kept'[h] = kept[h] - Cardinality(InHour(gone, h))
    BY <2>1 DEF Purge
  <2> QED BY <2>2, RemovalCounts
<1>4. kept' = [h \in Hours |-> kept'[h]]
  BY DEF Purge
<1>5. kept' \in [Hours -> Int]
  <2>1. \A h \in Hours : kept[h] \in Int
    BY <1>0 DEF TypeOK
  <2> HIDE DEF gone
  <2>2. \A h \in Hours : kept'[h] \in Int
    BY <1>3, <2>1
  <2> QED BY <1>4, <2>2
<1>6. TypeOK'
  BY <1>0, <1>1, <1>2, <1>5 DEF TypeOK, Step
<1>7. Rows'
  <2>1. IsFiniteSet(db'.ticks)
    BY <1>2, FS_Subset DEF CollectorInv, Rows
  <2> QED BY <1>1, <1>2, <2>1 DEF CollectorInv, Rows, UniqueIds
<1>8. OwnRows'
  BY <1>1, <1>2 DEF CollectorInv, OwnRows
<1>9. RollupConserves'
  <2> SUFFICES ASSUME NEW h \in Hours
               PROVE  kept'[h] = db'.rollup[h] + Cardinality(InHour(db'.ticks, h))
    BY DEF RollupConserves
  <2>1. /\ kept[h] = db.rollup[h] + Cardinality(InHour(db.ticks, h))
        /\ db.rollup[h] \in Nat
    BY <1>0 DEF CollectorInv, Promises, RollupConserves, TypeOK, DbRec
  <2>2. /\ Cardinality(InHour(db.ticks \ gone, h)) \in Nat
        /\ Cardinality(InHour(db.ticks, h))
             = Cardinality(InHour(db.ticks \ gone, h)) + Cardinality(InHour(gone, h))
    BY RemovalCounts
  <2> HIDE DEF gone
  <2> QED BY <1>2, <1>3, <2>1, <2>2
<1>10. ScheduledPollTakesPriority' /\ NoLateResult' /\ OneProbePerVenueAndDay'
  <2>1. \A t \in db'.ticks : t \in db.ticks /\ t.note # "manual"
    BY <1>2
  <2> QED BY <1>2, <2>1
          DEF ScheduledPollTakesPriority, NoLateResult, OneProbePerVenueAndDay,
              CollectorInv, Promises
<1> QED BY <1>6, <1>7, <1>8, <1>9, <1>10 DEF CollectorInv, Promises

\* Purging raw rows changes neither a count nor an id.
LEMMA MaintainKeeps ==
  ASSUME CollectorInv, Maintain PROVE CollectorInv'
<1>0. TypeOK /\ now \in 0..MaxTime /\ Day(now) \in Int
  BY DayOf DEF CollectorInv, TypeOK
<1>1. /\ pc = "maintain" /\ pc' \in {"rollup", "coherence"}
      /\ maintDay' = Day(now) /\ asOf' = now /\ todo' \in {todo, Venue}
      /\ UNCHANGED <<nextId, kept, poll, started, pending, tickId, stopping, late>>
      /\ UNCHANGED <<now, inFlight, refreshAt, refreshes, crashes>>
  BY DEF Maintain, Goto, store, job, outside, web
<1>2. CASE db' = db
  <2>1. TypeOK'
    BY <1>0, <1>1, <1>2 DEF TypeOK, Step
  <2>2. UNCHANGED <<store, poll>>
    BY <1>1, <1>2 DEF store
  <2> QED BY <1>1, <2>1, <2>2, QuietKeeps
<1>3. CASE db' = PurgeRaw(db, now) /\ RawAfter # 0
  <2>1. /\ db'.ticks = Stripped(db.ticks, now) /\ db'.rollup = db.rollup
        /\ db'.probes = db.probes
    BY <1>0, <1>3 DEF PurgeRaw, Stripped, TypeOK, DbRec
  <2>2. /\ db.ticks \in SUBSET TickRec /\ IsFiniteSet(db.ticks) /\ UniqueIds(db.ticks)
    BY <1>0 DEF CollectorInv, Rows, TypeOK, DbRec
  <2>3. \A t \in db'.ticks : /\ t \in TickRec
                             /\ \E u \in db.ticks : /\ t.id = u.id /\ t.poll = u.poll /\ t.note = u.note
                                                    /\ t = [u EXCEPT !.raw = @ /\ u.at >= now - RawAfter]
    BY <2>1, <2>2 DEF Stripped, TickRec
  <2>4. db' = [db EXCEPT !.ticks = Stripped(db.ticks, now)]
    BY <1>3 DEF PurgeRaw, Stripped
  <2>5. db' \in DbRec
    BY <1>0, <2>1, <2>3, <2>4 DEF TypeOK, DbRec
  <2>6. TypeOK'
    BY <1>0, <1>1, <2>5 DEF TypeOK, Step
  <2>7. Rows'
    <3>1. IsFiniteSet(db'.ticks)
      BY <2>1, <2>2, StripCount, HoursOf, Zero
    <3>2. UniqueIds(db'.ticks)
      BY <2>2, <2>3 DEF UniqueIds
    <3>3. \A t \in db'.ticks : t.id < nextId' /\ t.poll <= poll'
      BY <1>1, <2>3 DEF CollectorInv, Rows
    <3> QED BY <3>1, <3>2, <3>3 DEF Rows
  <2>8. RollupConserves'
    BY <1>1, <2>1, <2>2, StripCount DEF CollectorInv, Promises, RollupConserves
  <2> QED BY <1>1, <2>1, <2>3, <2>6, <2>7, <2>8, RetentionKeeps
<1>4. db' = db \/ (db' = PurgeRaw(db, now) /\ RawAfter # 0)
  BY DEF Maintain, store, PurgeRaw
<1> QED BY <1>2, <1>3, <1>4

\* A rollup moves winners from their ticks to the bucket of their hour.
LEMMA MaintainRollupKeeps ==
  ASSUME CollectorInv, MaintainRollup PROVE CollectorInv'
<1>0. TypeOK
  BY DEF CollectorInv
<1>1. /\ pc = "rollup" /\ pc' = "coherence" /\ todo' = Venue /\ asOf' = now
      /\ UNCHANGED <<nextId, kept, poll, started, pending, tickId, maintDay, stopping, late>>
      /\ UNCHANGED <<now, inFlight, refreshAt, refreshes, crashes>>
  BY DEF MaintainRollup, Goto, store, job, outside, web
<1>2. CASE db' = db
  <2>1. TypeOK'
    BY <1>0, <1>1, <1>2 DEF TypeOK, Step
  <2>2. UNCHANGED <<store, poll>>
    BY <1>1, <1>2 DEF store
  <2> QED BY <1>1, <2>1, <2>2, QuietKeeps
<1>3. CASE db' = Rollup(db, asOf) /\ RollupAfter # 0
  <2> DEFINE old == Before(db, asOf - RollupAfter)
  <2>1. /\ db' = [db EXCEPT !.ticks = @ \ old, !.rollup = Merged(db, old)]
        /\ db'.ticks = db.ticks \ old /\ db'.rollup = Merged(db, old)
        /\ db'.probes = db.probes
    BY <1>0, <1>3 DEF Rollup, TypeOK, DbRec
  <2>2. old \in SUBSET db.ticks
    BY DEF Before
  <2>3. \A h \in Hours : db.rollup[h] \in Nat /\ Cardinality(InHour(old, h)) \in Nat
    BY <1>0, <2>2, RemovalCounts DEF TypeOK, DbRec
  <2> HIDE DEF old
  <2>4. Merged(db, old) \in [Hours -> Nat]
    BY <2>3 DEF Merged
  <2>5. db' \in DbRec
    BY <1>0, <2>1, <2>4 DEF TypeOK, DbRec
  <2>6. TypeOK'
    BY <1>0, <1>1, <2>5 DEF TypeOK, Step
  <2>7. Rows'
    <3>1. IsFiniteSet(db'.ticks)
      BY <2>1, FS_Subset DEF CollectorInv, Rows
    <3> QED BY <1>1, <2>1, <3>1 DEF CollectorInv, Rows, UniqueIds
  <2>8. RollupConserves'
    <3> SUFFICES ASSUME NEW h \in Hours
                 PROVE  kept'[h] = db'.rollup[h] + Cardinality(InHour(db'.ticks, h))
      BY DEF RollupConserves
    <3>1. kept[h] = db.rollup[h] + Cardinality(InHour(db.ticks, h))
      BY DEF CollectorInv, Promises, RollupConserves
    <3>2. /\ Cardinality(InHour(db.ticks \ old, h)) \in Nat
          /\ Cardinality(InHour(db.ticks, h))
               = Cardinality(InHour(db.ticks \ old, h)) + Cardinality(InHour(old, h))
      BY <2>2, RemovalCounts
    <3>3. db'.rollup[h] = db.rollup[h] + Cardinality(InHour(old, h))
      BY <2>1 DEF Merged
    <3> QED BY <1>1, <2>1, <2>3, <3>1, <3>2, <3>3
  <2>9. \A t \in db'.ticks : \E u \in db.ticks : t.id = u.id /\ t.poll = u.poll /\ t.note = u.note
    BY <2>1
  <2> QED BY <1>1, <2>1, <2>6, <2>7, <2>8, <2>9, RetentionKeeps
<1>4. db' = db \/ (db' = Rollup(db, asOf) /\ RollupAfter # 0)
  BY DEF MaintainRollup, Rollup
<1> QED BY <1>2, <1>3, <1>4

\* A venue is recorded only if it has no probe of that day yet.
LEMMA CoherenceKeeps ==
  ASSUME CollectorInv, CoherenceVenue PROVE CollectorInv'
<1>0. TypeOK
  BY DEF CollectorInv
<1>1. /\ pc = "coherence"
      /\ UNCHANGED <<nextId, kept, pc, poll, started, pending, tickId, asOf, maintDay>>
      /\ UNCHANGED <<stopping, late, now, inFlight, refreshAt, refreshes, crashes>>
  BY DEF CoherenceVenue, job, outside, web
<1>2. PICK v \in todo :
        /\ todo' = todo \ {v}
        /\ \/ UNCHANGED db
           \/ /\ ~HasCoherenceProbeSince(db, v, Day(asOf))
              /\ db' = [db EXCEPT !.probes = @ \cup
                          {[venue |-> v, day |-> Day(asOf), poll |-> poll]}]
  BY DEF CoherenceVenue
<1>3. CASE UNCHANGED db
  <2>1. TypeOK'
    BY <1>0, <1>1, <1>2, <1>3 DEF TypeOK
  <2>2. UNCHANGED <<store, poll>>
    BY <1>1, <1>3 DEF store
  <2> QED BY <1>1, <2>1, <2>2, QuietKeeps
<1>4. CASE /\ ~HasCoherenceProbeSince(db, v, Day(asOf))
           /\ db' = [db EXCEPT !.probes = @ \cup
                       {[venue |-> v, day |-> Day(asOf), poll |-> poll]}]
  <2> DEFINE new == [venue |-> v, day |-> Day(asOf), poll |-> poll]
  <2>1. new \in ProbeRec /\ Day(asOf) \in Nat /\ new.venue = v /\ new.day = Day(asOf)
    <3>1. asOf \in 0..MaxTime /\ poll \in Nat /\ v \in Venue
      BY <1>0, Zero DEF TypeOK
    <3>2. Day(asOf) \in Nat
      BY <3>1, DayOf
    <3> QED BY <3>1, <3>2 DEF ProbeRec
  <2>2. /\ db'.ticks = db.ticks /\ db'.rollup = db.rollup
        /\ db'.probes = db.probes \cup {new}
    BY <1>0, <1>4 DEF TypeOK, DbRec
  <2>3. db' \in DbRec
    BY <1>0, <1>4, <2>1 DEF TypeOK, DbRec
  <2>4. TypeOK'
    BY <1>0, <1>1, <1>2, <2>3 DEF TypeOK
  <2>5. Rows' /\ OwnRows'
    BY <1>1, <2>2 DEF CollectorInv, Rows, OwnRows
  <2>6. RollupConserves' /\ ScheduledPollTakesPriority' /\ NoLateResult'
    BY <1>1, <2>2
       DEF CollectorInv, Promises, RollupConserves, ScheduledPollTakesPriority, NoLateResult
  <2>7. OneProbePerVenueAndDay'
    <3>1. \A p \in db.probes : ~(p.venue = v /\ p.day = Day(asOf))
      BY <1>4, <2>1 DEF HasCoherenceProbeSince
    <3> HIDE DEF new
    <3> QED BY <2>1, <2>2, <3>1 DEF CollectorInv, Promises, OneProbePerVenueAndDay
  <2> QED BY <2>4, <2>5, <2>6, <2>7 DEF CollectorInv, Promises
<1> QED BY <1>2, <1>3, <1>4

-----------------------------------------------------------------------------
LEMMA CollectorStep == CollectorInv /\ [Next]_vars => CollectorInv'
<1> SUFFICES ASSUME CollectorInv, [Next]_vars PROVE CollectorInv'
  OBVIOUS
<1>1. CASE UNCHANGED vars
  BY <1>1
     DEF vars, store, daemon, job, upkeep, outside, web, CollectorInv, TypeOK, Rows, OwnRows,
         Promises, RollupConserves, ScheduledPollTakesPriority, NoLateResult,
         OneProbePerVenueAndDay
<1>2. CASE \/ Advance \/ Boot \/ LateEnds \/ TickTimesOut \/ Heartbeat \/ CoherenceEnds
           \/ GoToSleep \/ Exit \/ TickAnswers \/ TickThrows \/ StoreThrows \/ Sigterm
           \/ Crash \/ RefreshStart \/ RefreshFails
  BY <1>2, QuietSteps
<1>3. CASE StartPoll
  BY <1>3, StartPollKeeps
<1>4. CASE Insert \/ Purge \/ RecordFailure
  BY <1>4, InsertKeeps, PurgeKeeps, RecordFailureKeeps
<1>5. CASE Maintain \/ MaintainRollup \/ CoherenceVenue
  BY <1>5, MaintainKeeps, MaintainRollupKeeps, CoherenceKeeps
<1>6. CASE RefreshStores
  BY <1>6, RefreshStoresKeeps
<1> QED BY <1>1, <1>2, <1>3, <1>4, <1>5, <1>6 DEF Next, Bounded, Unbounded

LEMMA CollectorAlways == Spec => []CollectorInv
<1>1. Init => CollectorInv
  BY CollectorInit
<1>2. CollectorInv /\ [Next]_vars => CollectorInv'
  BY CollectorStep
<1> QED BY <1>1, <1>2, PTL DEF Spec

\* Every variable of the daemon, the refresh and the database keeps its type.
THEOREM TypeCorrect == Spec => []TypeOK
<1>1. CollectorInv => TypeOK
  BY DEF CollectorInv
<1> QED BY <1>1, CollectorAlways, PTL

\* For any retention windows and hour and day lengths: every winner stored and
\* not purged is in its tick or in its hourly bucket, never in both and never
\* lost, though the daemon is killed between any two transactions.
THEOREM RetentionConserves == Spec => []RollupConserves
<1>1. CollectorInv => RollupConserves
  BY DEF CollectorInv, Promises
<1> QED BY <1>1, CollectorAlways, PTL

\* Once a scheduled poll has purged, the only manual refreshes left are newer
\* than the poll, for any number of refreshes of the other process.
THEOREM PollsTakePriority == Spec => []ScheduledPollTakesPriority
<1>1. CollectorInv => ScheduledPollTakesPriority
  BY DEF CollectorInv, Promises
<1> QED BY <1>1, CollectorAlways, PTL

\* A poll given up by its timeout stores nothing after its failure row.
THEOREM AbandonedPollsStaySilent == Spec => []NoLateResult
<1>1. CollectorInv => NoLateResult
  BY DEF CollectorInv, Promises
<1> QED BY <1>1, CollectorAlways, PTL

\* One coherence probe per venue and UTC day, across restarts and crashes.
THEOREM ProbesOncePerDay == Spec => []OneProbePerVenueAndDay
<1>1. CollectorInv => OneProbePerVenueAndDay
  BY DEF CollectorInv, Promises
<1> QED BY <1>1, CollectorAlways, PTL
=============================================================================
