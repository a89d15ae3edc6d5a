------------------------------ MODULE TickStore ------------------------------
(***************************************************************************)
(* The collector's SQLite database (db/schema.ts, db/index.ts) and its     *)
(* tiered retention (collector/maintenance.ts), as functions on a database *)
(* value.  Each operator is one transaction.                               *)
(*                                                                         *)
(* A row of table tick stands for its quotes as well: ok says whether it   *)
(* holds a winner with a net amount, for the one (pair, size) modelled.    *)
(* Time is counted in slots shorter than an hour.                          *)
(***************************************************************************)
EXTENDS Integers, FiniteSets

CONSTANTS
  SlotsPerHour, SlotsPerDay,
  RawAfter,      \* rawRetentionDays, in slots; 0 keeps the raw rows
  RollupAfter,   \* rollupAfterDays, in slots; 0 keeps the ticks
  Venue,         \* venues of the coherence probes
  MaxTime        \* bound on the clock

ASSUME StoreAssumption ==
  /\ SlotsPerHour \in Nat \ {0} /\ SlotsPerDay \in Nat \ {0}
  /\ RawAfter \in Nat /\ RollupAfter \in Nat /\ MaxTime \in Nat

Hour(t) == t \div SlotsPerHour
Day(t)  == t \div SlotsPerDay
Hours   == {Hour(t) : t \in 0..MaxTime}

EmptyDb == [ticks |-> {}, rollup |-> [h \in Hours |-> 0], probes |-> {}]

InsertTickWithQuotes(db, t) == [db EXCEPT !.ticks = @ \cup {t}]

\* The quotes and raw rows of a deleted tick go with it (ON DELETE CASCADE).
PurgeManualTicks(db) == [db EXCEPT !.ticks = {t \in @ : t.note # "manual"}]

NeverProbed(db, v, day) == FALSE   \* mutant: the daily check finds nothing

HasCoherenceProbeSince(db, v, day) ==
  \E p \in db.probes : p.venue = v /\ p.day >= day

Before(db, cutoff) == {t \in db.ticks : t.at < cutoff}
InHour(ticks, h)   == {t \in ticks : t.ok /\ Hour(t.at) = h}

PurgeRaw(db, n) ==
  IF RawAfter = 0 THEN db
  ELSE [db EXCEPT !.ticks =
         {[t EXCEPT !.raw = @ /\ t.at >= n - RawAfter] : t \in db.ticks}]

\* Winners before the cutoff are added to their hourly bucket and every tick
\* before the cutoff is deleted.
Merged(db, old) == [h \in Hours |-> db.rollup[h] + Cardinality(InHour(old, h))]

\* Mutant: the ticks rolled up are not deleted.
RollupKeepsTicks(db, n) ==
  IF RollupAfter = 0 THEN db
  ELSE [db EXCEPT !.rollup = Merged(db, Before(db, n - RollupAfter))]

Rollup(db, n) ==
  IF RollupAfter = 0 THEN db
  ELSE LET old == Before(db, n - RollupAfter)
       IN [db EXCEPT !.ticks = @ \ old, !.rollup = Merged(db, old)]
=============================================================================
