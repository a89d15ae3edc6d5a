------------------------------ MODULE Collector ------------------------------
(***************************************************************************)
(* The collector daemon (collector/daemon.ts, scheduler.ts, tick.ts,       *)
(* maintenance.ts, coherence.ts), the manual refresh of the web server     *)
(* (web/refresh.ts) and the database they share (TickStore).               *)
(*                                                                         *)
(* They are two processes.  Within one, a step is the code between two     *)
(* awaits or between two database transactions: the other process may act  *)
(* in between, and the process may be killed there.                        *)
(*                                                                         *)
(* History, read by properties only: polls are numbered, ticks carry the   *)
(* number of their poll (0 for a refresh), and kept counts, per hour, the  *)
(* winners stored and not purged.                                          *)
(***************************************************************************)
EXTENDS TickStore

CONSTANTS
  MaxPolls,      \* bound on the polls of a behaviour
  MaxRefreshes,  \* bound on the manual refreshes
  MaxCrashes     \* bound on the times the daemon is killed

ASSUME CollectorAssumption ==
  MaxPolls \in Nat /\ MaxRefreshes \in Nat /\ MaxCrashes \in Nat

Poll == 1..MaxPolls

VARIABLES
  now,
  db, nextId,                      \* the database and the next tick.id
  pc, poll, started, pending,      \* tickAndStore: its step, number, startedAt, assembled tick
  asOf, todo,                      \* the Date passed to a job, the venues left to probe
  maintDay, stopping,              \* lastMaintenanceDay, SIGTERM received
  late,                            \* polls whose abandoned runTick goes on
  tickId,                          \* id under which the poll was stored
  inFlight, refreshAt, refreshes,  \* the web server's refresh
  kept, crashes

store   == <<db, nextId, kept>>
job     == <<poll, started, pending, tickId>>
upkeep  == <<asOf, todo, maintDay>>
daemon  == <<pc, job, upkeep, stopping>>
web     == <<inFlight, refreshAt, refreshes>>
outside == <<now, web, crashes>>
vars    == <<store, daemon, late, outside>>

-----------------------------------------------------------------------------
Step == {"off", "boot", "tick", "insert", "purge", "beat", "failed", "maintain",
         "rollup", "coherence", "loop", "sleep"}
NoDay == -1

TickRec == [id : Nat, at : Nat, note : {"none", "manual", "exception"}, ok : BOOLEAN,
            raw : BOOLEAN, poll : Nat]

\* Mutant: refreshes carry another note than the one the purge looks for.
RowOtherNote(at, note, ok, p) ==
  [id |-> nextId, at |-> at, note |-> IF note = "manual" THEN "refresh" ELSE note,
   ok |-> ok, raw |-> ok, poll |-> p]

Row(at, note, ok, p) ==
  [id |-> nextId, at |-> at, note |-> note, ok |-> ok, raw |-> ok, poll |-> p]

\* A committed insertTickWithQuotes.
Store(row) ==
  /\ db' = InsertTickWithQuotes(db, row)
  /\ nextId' = nextId + 1
  /\ kept' = [kept EXCEPT ![Hour(row.at)] = @ + (IF row.ok THEN 1 ELSE 0)]

Init ==
  /\ now = 0
  /\ db = EmptyDb /\ nextId = 1 /\ kept = [h \in Hours |-> 0]
  /\ pc = "off" /\ poll = 0 /\ started = 0 /\ pending = FALSE
  /\ asOf = 0 /\ todo = {} /\ maintDay = NoDay /\ stopping = FALSE /\ tickId = 0
  /\ late = {}
  /\ inFlight = FALSE /\ refreshAt = 0 /\ refreshes = 0
  /\ crashes = 0

Advance ==
  /\ now < MaxTime /\ now' = now + 1
  /\ UNCHANGED <<store, daemon, late, web, crashes>>

-----------------------------------------------------------------------------
(* The daemon.                                                             *)

Goto(s) == pc' = s

\* The local variables of tickAndStore go out of scope.
Forget == started' = 0 /\ pending' = FALSE /\ tickId' = 0

\* The process ends; lastMaintenanceDay is not persisted.
Die ==
  /\ Goto("off") /\ Forget
  /\ asOf' = 0 /\ todo' = {} /\ maintDay' = NoDay /\ stopping' = FALSE
  /\ late' = {}

Boot ==
  /\ pc = "off" /\ Goto("boot")
  /\ UNCHANGED <<store, job, upkeep, stopping, late, outside>>

\* runTick up to its first await: the boot tick, or the end of a sleep.
StartPoll ==
  /\ pc \in {"boot", "sleep"} /\ ~stopping
  /\ poll < MaxPolls /\ poll' = poll + 1
  /\ Goto("tick") /\ started' = now
  /\ UNCHANGED <<store, pending, tickId, upkeep, stopping, late, outside>>

TickAnswers ==
  /\ pc = "tick" /\ Goto("insert")
  /\ pending' \in BOOLEAN
  /\ UNCHANGED <<store, poll, started, tickId, upkeep, stopping, late, outside>>

\* One probe rejected: the others go on behind the rejected Promise.all.
TickThrows ==
  /\ pc = "tick" /\ Goto("failed")
  /\ late' \in {late, late \cup {poll}}
  /\ UNCHANGED <<store, job, upkeep, stopping, outside>>

TickNeverTimesOut == FALSE   \* mutant: runTick is awaited without withTimeout

\* withTimeout gives up waiting; runTick goes on.
TickTimesOut ==
  /\ pc = "tick" /\ Goto("failed")
  /\ late' = late \cup {poll}
  /\ UNCHANGED <<store, job, upkeep, stopping, outside>>

\* Mutant: an abandoned runTick stores what it found after all.
LateResultStored ==
  /\ \E p \in late :
       /\ late' = late \ {p}
       /\ Store(Row(now, "none", TRUE, p))
  /\ UNCHANGED <<daemon, outside>>

\* Nobody awaits an abandoned runTick any more: its result is dropped.
LateEnds ==
  /\ \E p \in late : late' = late \ {p}
  /\ UNCHANGED <<store, daemon, outside>>

Insert ==
  /\ pc = "insert" /\ Goto("purge")
  /\ Store(Row(started, "none", pending, poll)) /\ tickId' = nextId /\ pending' = FALSE
  /\ UNCHANGED <<poll, started, upkeep, stopping, late, outside>>

\* Mutant: only the refreshes begun before this poll are purged.
PurgeStartedBefore ==
  /\ pc = "purge" /\ Goto("beat")
  /\ LET gone == {t \in db.ticks : t.note = "manual" /\ t.at < started}
     IN /\ db' = [db EXCEPT !.ticks = @ \ gone]
        /\ kept' = [h \in Hours |-> kept[h] - Cardinality(InHour(gone, h))]
  /\ UNCHANGED <<nextId, job, upkeep, stopping, late, outside>>

Purge ==
  /\ pc = "purge" /\ Goto("beat")
  /\ db' = PurgeManualTicks(db)
  /\ kept' = [h \in Hours |->
                kept[h] - Cardinality({t \in InHour(db.ticks, h) : t.note = "manual"})]
  /\ UNCHANGED <<nextId, job, upkeep, stopping, late, outside>>

Heartbeat ==
  /\ pc = "beat" /\ Goto("maintain") /\ Forget
  /\ UNCHANGED <<store, poll, upkeep, stopping, late, outside>>

\* The database is locked or the disk is full: any of the three steps throws.
StoreThrows ==
  /\ pc \in {"insert", "purge", "beat"} /\ Goto("failed")
  /\ pending' = FALSE /\ tickId' = 0
  /\ UNCHANGED <<store, poll, started, upkeep, stopping, late, outside>>

\* The catch of tickAndStore: failedTick is stored, if it can be.
RecordFailure ==
  /\ pc = "failed" /\ Goto("maintain") /\ Forget
  /\ \/ Store(Row(started, "exception", FALSE, poll))
     \/ UNCHANGED store
  /\ UNCHANGED <<poll, upkeep, stopping, late, outside>>

\* runMaintenance, first statement, or its failure.
Maintain ==
  /\ pc = "maintain"
  /\ maintDay' = Day(now) /\ asOf' = now
  /\ IF Day(now) = maintDay
     THEN Goto("coherence") /\ todo' = Venue /\ UNCHANGED store
     ELSE \/ /\ Goto("rollup") /\ db' = PurgeRaw(db, now)
             /\ UNCHANGED <<nextId, kept, todo>>
          \/ Goto("coherence") /\ todo' = Venue /\ UNCHANGED store
  /\ UNCHANGED <<job, stopping, late, outside>>

\* The rollup transaction commits or is rolled back.
MaintainRollup ==
  /\ pc = "rollup" /\ Goto("coherence") /\ todo' = Venue
  /\ db' \in {db, Rollup(db, asOf)} /\ asOf' = now
  /\ UNCHANGED <<nextId, kept, job, maintDay, stopping, late, outside>>

\* runCoherenceProbes: a venue is skipped, fails, or is probed and recorded.
CoherenceVenue ==
  /\ pc = "coherence"
  /\ \E v \in todo :
       /\ todo' = todo \ {v}
       /\ \/ UNCHANGED db
          \/ /\ ~HasCoherenceProbeSince(db, v, Day(asOf))
             /\ db' = [db EXCEPT !.probes = @ \cup
                         {[venue |-> v, day |-> Day(asOf), poll |-> poll]}]
  /\ UNCHANGED <<nextId, kept, pc, job, asOf, maintDay, stopping, late, outside>>

CoherenceEnds ==
  /\ pc = "coherence" /\ todo = {} /\ Goto("loop")
  /\ asOf' = 0
  /\ UNCHANGED <<store, job, todo, maintDay, stopping, late, outside>>

\* runLoop goes to sleep.
GoToSleep ==
  /\ pc = "loop" /\ ~stopping /\ Goto("sleep")
  /\ UNCHANGED <<store, job, upkeep, stopping, late, outside>>

\* Between two ticks a stop request ends the process.
Exit ==
  /\ pc \in {"boot", "loop", "sleep"} /\ stopping /\ Die
  /\ UNCHANGED <<store, poll, outside>>

Sigterm ==
  /\ pc # "off" /\ ~stopping /\ stopping' = TRUE
  /\ UNCHANGED <<store, pc, job, upkeep, late, outside>>

Crash ==
  /\ pc # "off" /\ crashes < MaxCrashes /\ crashes' = crashes + 1
  /\ Die
  /\ UNCHANGED <<store, poll, now, web>>

-----------------------------------------------------------------------------
(* The web server's manual refresh.                                        *)

\* Refused (429) while another is in flight.
RefreshStart ==
  /\ ~inFlight /\ refreshes < MaxRefreshes
  /\ inFlight' = TRUE /\ refreshAt' = now /\ refreshes' = refreshes + 1
  /\ UNCHANGED <<store, daemon, late, now, crashes>>

RefreshStores ==
  /\ inFlight /\ inFlight' = FALSE /\ refreshAt' = 0
  /\ \E ok \in BOOLEAN : Store(Row(refreshAt, "manual", ok, 0))
  /\ UNCHANGED <<daemon, late, now, refreshes, crashes>>

\* runTick or the insertion throws, or the web server is restarted.
RefreshFails ==
  /\ inFlight /\ inFlight' = FALSE /\ refreshAt' = 0
  /\ UNCHANGED <<store, daemon, late, now, refreshes, crashes>>

-----------------------------------------------------------------------------
\* Steps of the daemon that wait for nothing, or for no longer than a timer.
Bounded ==
  \/ TickTimesOut \/ Insert \/ Purge \/ Heartbeat \/ RecordFailure
  \/ Maintain \/ MaintainRollup \/ CoherenceEnds \/ GoToSleep \/ Exit

\* Steps that wait for the network without a timeout of their own, and faults.
Unbounded ==
  \/ TickAnswers \/ TickThrows \/ StoreThrows \/ CoherenceVenue

Next ==
  \/ Advance \/ Boot \/ StartPoll \/ LateEnds \/ Bounded \/ Unbounded
  \/ Sigterm \/ Crash
  \/ RefreshStart \/ RefreshStores \/ RefreshFails

Spec == Init /\ [][Next]_vars

\* Timers fire and code that awaits nothing is executed.
FairSpec == Spec /\ WF_vars(Bounded)

-----------------------------------------------------------------------------
ProbeRec  == [venue : Venue, day : Nat, poll : Nat]
DbRec     == [ticks : SUBSET TickRec, rollup : [Hours -> Nat], probes : SUBSET ProbeRec]

\* Every variable has its type.
TypeOK ==
  /\ now \in 0..MaxTime
  /\ db \in DbRec /\ nextId \in Nat \ {0} /\ kept \in [Hours -> Int]
  /\ pc \in Step /\ poll \in 0..MaxPolls /\ started \in 0..MaxTime
  /\ pending \in BOOLEAN /\ asOf \in 0..MaxTime /\ todo \subseteq Venue
  /\ maintDay \in Int /\ stopping \in BOOLEAN /\ tickId \in Nat
  /\ late \subseteq Poll
  /\ inFlight \in BOOLEAN /\ refreshAt \in 0..MaxTime /\ refreshes \in Nat
  /\ crashes \in Nat

\* Retention counts every winner once: what was stored and not purged is either
\* still in its tick or in the bucket of its hour, whatever fails or is killed.
RollupConserves ==
  \A h \in Hours : kept[h] = db.rollup[h] + Cardinality(InHour(db.ticks, h))

\* "the scheduled poll takes priority: discard provisional manual refreshes":
\* once a poll has purged, every refresh in the database was stored after it,
\* though refreshes start and finish in another process meanwhile.
ScheduledPollTakesPriority ==
  pc = "beat" => \A t \in db.ticks : t.note = "manual" => t.id > tickId

\* A poll that was given up stores nothing later: rows of one poll are at most
\* its data followed by its failure.
NoLateResult ==
  \A a, b \in db.ticks :
    a.poll = b.poll /\ a.poll # 0 /\ a.id < b.id => a.note = "none" /\ b.note = "exception"

\* "Runs one coherence probe per venue, once per UTC day", across restarts.
OneProbePerVenueAndDay ==
  \A p, q \in db.probes : p.venue = q.venue /\ p.day = q.day => p = q

\* Whatever the network does, a poll is given up, recorded and maintained after.
PollIsBounded ==
  pc \in {"tick", "insert", "purge", "beat", "failed", "maintain", "rollup"}
    ~> pc \in {"coherence", "off"}

\* "a hung RPC re-sim must never freeze the loop": tickAndStore always returns.
LoopNeverFreezes ==
  pc \in Step \ {"off", "boot", "sleep"} ~> pc \in {"sleep", "off"}
=============================================================================
