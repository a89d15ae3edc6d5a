------------------------------ MODULE Dashboard ------------------------------
(***************************************************************************)
(* What a page displays of the collector's readings: the page              *)
(* (web/public/app.js), the overview cache and the refresh handler of the  *)
(* web server (web/server.ts, refresh.ts), and the collector as they see   *)
(* it, through the table of ticks and the file of its forecast.            *)
(*                                                                         *)
(* A step of the page or of the server is the code between two awaits.     *)
(* Answers travel: between the computation of one and its arrival anything *)
(* may happen.  Two ticks never start at the same instant.                 *)
(*                                                                         *)
(* History, read by properties only: outdated holds the pairs whose cached *)
(* overview was computed before the last refresh stored its tick.          *)
(***************************************************************************)
EXTENDS Integers

CONSTANTS
  Asset, Task,
  None,         \* no overview, no forecast
  Cadence,      \* the collector's sleep
  TickTimes,    \* durations of a tick its forecast may count on
  MaxTime,      \* bound on the instants
  MaxClicks,    \* bound on the user's clicks
  MaxLosses     \* bound on the requests that fail

ASSUME DashboardAssumption ==
  /\ Asset # {}
  /\ Cadence \in Nat \ {0} /\ TickTimes \subseteq Nat
  /\ MaxTime \in Nat \ {0, 1} /\ MaxClicks \in Nat /\ MaxLosses \in Nat
  /\ None \notin Nat

VARIABLES
  now, lastStart,                \* clock, instant of the last start of a tick
  sched, manual,                 \* database: latest scheduled tick, latest manual tick
  forecast,                      \* the file .next_tick
  collector, started, wakeAt,    \* tickAndStore and runLoop
  cache, inFlight,      \* web server
  runs, outdated,                \* calls of manualRefresh under way
  target, overview, refreshing,  \* page
  task,                          \* requests of the page under way
  clicks, losses

clock    == <<now, lastStart>>
database == <<sched, manual>>
daemon   == <<forecast, collector, started, wakeAt>>
server   == <<cache, inFlight, runs, outdated>>
page     == <<target, overview, refreshing>>
bounds   == <<clicks, losses>>
vars     == <<clock, database, daemon, server, page, task, bounds>>

-----------------------------------------------------------------------------
(* The overview.                                                           *)

\* meta.lastTickAt: the latest start of a successful tick.
LastTickAt == IF sched > manual THEN sched ELSE manual

\* overview(): it is read in one go, without an await.
Computed(a) == [pair |-> a, lastTickAt |-> LastTickAt, nextTickAt |-> forecast]

\* computeNextTickAt: the forecast if it lies after the last tick, else an estimate.
ComputeNextTickAt(o) ==
  CASE o.nextTickAt # None /\ o.nextTickAt > o.lastTickAt -> o.nextTickAt
    [] (o.nextTickAt = None \/ o.nextTickAt <= o.lastTickAt) /\ o.lastTickAt # 0
         -> o.lastTickAt + Cadence
    [] OTHER -> None

\* The deadline of the countdown is known and has passed.
Imminent ==
  /\ overview # None /\ ComputeNextTickAt(overview) # None
  /\ ComputeNextTickAt(overview) <= now

-----------------------------------------------------------------------------
DefaultPair == CHOOSE a \in Asset : TRUE

Idle == [pc |-> "idle", kind |-> "load", pair |-> DefaultPair, ans |-> None, at |-> 0]

\* Requests are alike: a new one takes a given slot among the free ones.
Request(t, kind, pair) ==
  /\ task[t].pc = "idle" /\ t = CHOOSE u \in Task : task[u].pc = "idle"
  /\ task' = [task EXCEPT ![t] = [Idle EXCEPT !.pc = "sent", !.kind = kind, !.pair = pair]]

Answer(t, ans) == task' = [task EXCEPT ![t].pc = "answered", ![t].ans = ans, ![t].at = 0]

Done(t) == task' = [task EXCEPT ![t] = Idle]

\* The collector sleeps after a tick, the page is loading.
Init ==
  /\ now = 2 /\ lastStart = 1
  /\ sched = 1 /\ manual = 0
  /\ collector = "sleep" /\ started = 0 /\ wakeAt = 1 + Cadence
  /\ forecast \in {wakeAt + d : d \in TickTimes}
  /\ cache = [a \in Asset |-> None] /\ inFlight = FALSE
  /\ runs = {} /\ outdated = {}
  /\ target = DefaultPair /\ overview = None /\ refreshing = FALSE
  /\ task = [t \in Task |-> IF t = CHOOSE u \in Task : TRUE
                            THEN [Idle EXCEPT !.pc = "sent"] ELSE Idle]
  /\ clicks = 0 /\ losses = 0

\* A tick starts: no two at the same instant.
Starts == lastStart < now /\ lastStart' = now /\ UNCHANGED now

Advance ==
  /\ now < MaxTime /\ now' = now + 1
  /\ UNCHANGED <<lastStart, database, daemon, server, page, task, bounds>>

-----------------------------------------------------------------------------
(* The collector.                                                          *)

\* runLoop wakes up, or the boot tick starts.
Wake ==
  /\ collector = "sleep" /\ wakeAt <= now /\ Starts
  /\ collector' = "tick" /\ started' = now
  /\ UNCHANGED <<database, forecast, wakeAt, server, page, task, bounds>>

\* insertTickWithQuotes; a failed tick adds nothing to what is displayed.
InsertTick ==
  /\ collector = "tick" /\ collector' = "stored"
  /\ sched' \in {sched, started}
  /\ started' = 0
  /\ UNCHANGED <<clock, manual, forecast, wakeAt, server, page, task, bounds>>

\* The refreshes are purged, unless the poll or the purge itself threw.
PurgeManual ==
  /\ collector = "stored" /\ collector' = "purged"
  /\ manual' \in {0, manual}
  /\ UNCHANGED <<clock, sched, forecast, started, wakeAt, server, page, task, bounds>>

\* delayMs, after maintenance and probes: the forecast is published, if it can be.
PublishForecast ==
  /\ collector = "purged" /\ collector' = "sleep"
  /\ wakeAt' = now + Cadence
  /\ forecast' \in {forecast} \cup {now + Cadence + d : d \in TickTimes}
  /\ UNCHANGED <<clock, database, started, server, page, task, bounds>>

-----------------------------------------------------------------------------
(* The web server.                                                         *)

\* What is answered for a pair: the cached overview, or a new one.
Served(a) == IF cache[a] # None THEN cache[a] ELSE Computed(a)

\* GET /api/overview.
ServeOverview(t) ==
  /\ task[t].pc = "sent" /\ task[t].kind \in {"load", "poll"}
  /\ LET a == task[t].pair
     IN /\ Answer(t, Served(a))
        /\ cache' = [cache EXCEPT ![a] = Served(a)]
        /\ outdated' = IF cache[a] # None THEN outdated ELSE outdated \ {a}
  /\ UNCHANGED <<clock, database, daemon, inFlight, runs, page, bounds>>

\* The minute of a cached overview is over.
CacheExpires ==
  /\ \E a \in Asset :
       /\ cache[a] # None /\ cache' = [cache EXCEPT ![a] = None]
       /\ outdated' = outdated \ {a}
  /\ UNCHANGED <<clock, database, daemon, inFlight, runs, page, task, bounds>>

NeverBusy == FALSE   \* mutant: only the cooldown keeps a second refresh out

Busy == inFlight

\* manualRefresh up to its await.
StartRun(pair) ==
  /\ ~Busy /\ Starts
  /\ inFlight' = TRUE
  /\ runs' = runs \cup {[at |-> now, pair |-> pair, stored |-> FALSE]}
  /\ UNCHANGED <<cache, outdated>>

\* POST /api/refresh to its await: a manual tick is started, unless one is under
\* way or the last one was asked less than 15 s ago, which is not measured here.
ServeRefresh(t) ==
  /\ task[t].pc = "sent" /\ task[t].kind = "refresh"
  /\ \/ Answer(t, None) /\ UNCHANGED <<clock, server>>
     \/ /\ StartRun(task[t].pair)
        /\ task' = [task EXCEPT ![t].pc = "running", ![t].at = now]
  /\ UNCHANGED <<database, daemon, page, bounds>>

\* The same for another page of another user.
RefreshOther ==
  /\ StartRun(DefaultPair)
  /\ UNCHANGED <<database, daemon, page, task, bounds>>

\* The answer to the page's request for run r, if the page still waits for it.
AnswerRun(r, ans) ==
  task' = [t \in Task |->
             IF task[t].pc = "running" /\ task[t].at = r.at
             THEN [task[t] EXCEPT !.pc = "answered", !.ans = ans, !.at = 0] ELSE task[t]]

\* manualRefresh inserts its tick and ends; a failed tick is not displayed.
RefreshStores ==
  /\ \E r \in runs :
       /\ ~r.stored
       /\ runs' = (runs \ {r}) \cup {[r EXCEPT !.stored = TRUE]}
       /\ manual' \in {manual} \cup (IF r.at > manual THEN {r.at} ELSE {})
  /\ inFlight' = FALSE
  /\ outdated' = {a \in Asset : cache[a] # None}
  /\ UNCHANGED <<clock, sched, daemon, cache, page, task, bounds>>

\* runTick or the insertion throws: a 500.
RefreshFails ==
  /\ \E r \in runs : ~r.stored /\ runs' = runs \ {r} /\ AnswerRun(r, None)
  /\ inFlight' = FALSE
  /\ UNCHANGED <<clock, database, daemon, cache, outdated, page, bounds>>

AnswerWithoutClearing ==   \* mutant: only the pair asked for leaves the cache
  /\ \E r \in runs :
       /\ r.stored /\ runs' = runs \ {r} /\ AnswerRun(r, Computed(r.pair))
       /\ cache' = [cache EXCEPT ![r.pair] = None] /\ outdated' = outdated \ {r.pair}
  /\ UNCHANGED <<clock, database, daemon, inFlight, page, bounds>>

\* After the await: the caches are cleared and the overview is computed anew.
RefreshAnswers ==
  /\ \E r \in runs : r.stored /\ runs' = runs \ {r} /\ AnswerRun(r, Computed(r.pair))
  /\ cache' = [a \in Asset |-> None] /\ outdated' = {}
  /\ UNCHANGED <<clock, database, daemon, inFlight, page, bounds>>

LostBody(t) ==   \* mutant: an error body is taken for an overview
  /\ losses < MaxLosses /\ losses' = losses + 1
  /\ task[t].pc \in {"sent", "running"} /\ Answer(t, [error |-> TRUE])
  /\ UNCHANGED <<clock, database, daemon, server, page, clicks>>

\* A request is lost or answered by an error; a refresh the server has begun goes on.
Lost(t) ==
  /\ losses < MaxLosses /\ losses' = losses + 1
  /\ task[t].pc \in {"sent", "running"} /\ Answer(t, None)
  /\ UNCHANGED <<clock, database, daemon, server, page, clicks>>

-----------------------------------------------------------------------------
(* The page.                                                               *)

Click == clicks < MaxClicks /\ clicks' = clicks + 1 /\ UNCHANGED losses

SetTarget(t) ==
  /\ Click
  /\ \E a \in Asset \ {target} : target' = a /\ Request(t, "load", a)
  /\ UNCHANGED <<clock, database, daemon, server, overview, refreshing>>

DoRefresh(t) ==
  /\ Click
  /\ ~refreshing /\ refreshing' = TRUE
  /\ Request(t, "refresh", target)
  /\ UNCHANGED <<clock, database, daemon, server, target, overview>>

\* The countdown's interval: while the deadline is passed, pollForTick every 10 s.
StartPoll(t) ==
  /\ Imminent
  /\ Request(t, "poll", target)
  /\ UNCHANGED <<clock, database, daemon, server, page, bounds>>

\* loadOverview after its await.
LoadAnswered(t) ==
  /\ task[t].pc = "answered" /\ task[t].kind = "load" /\ Done(t)
  /\ overview' = IF task[t].ans # None THEN task[t].ans ELSE overview
  /\ UNCHANGED <<clock, database, daemon, server, target, refreshing, bounds>>

\* doRefresh after its await.
RefreshAnswered(t) ==
  /\ task[t].pc = "answered" /\ task[t].kind = "refresh" /\ Done(t)
  /\ overview' = IF task[t].ans # None THEN task[t].ans ELSE overview
  /\ refreshing' = FALSE
  /\ UNCHANGED <<clock, database, daemon, server, target, bounds>>

\* Mutant: only a later tick is news.
IsNewsOnlyLater(t) ==
  /\ task[t].ans # None /\ task[t].pair = target
  /\ overview = None \/ overview.lastTickAt < task[t].ans.lastTickAt

\* pollForTick: an answer is news if it is for the pair on the page and of another tick.
IsNews(t) ==
  /\ task[t].ans # None /\ task[t].pair = target
  /\ task[t].ans.lastTickAt # 0
  /\ overview = None \/ overview.lastTickAt # task[t].ans.lastTickAt

\* pollForTick after its first await.
PollAnswered(t) ==
  /\ task[t].pc = "answered" /\ task[t].kind = "poll"
  /\ \/ /\ ~IsNews(t) /\ Done(t)
        /\ UNCHANGED refreshing
     \/ /\ IsNews(t) /\ task' = [task EXCEPT ![t].pc = "hold"]
        /\ refreshing' = TRUE
  /\ UNCHANGED <<clock, database, daemon, server, target, overview, bounds>>

PollSwapsAnyway(t) ==   \* mutant: the pair is not looked at again
  /\ task[t].pc = "hold" /\ Done(t)
  /\ refreshing' = FALSE /\ overview' = task[t].ans
  /\ UNCHANGED <<clock, database, daemon, server, target, bounds>>

PollSwapsOrStops(t) ==   \* mutant: the early return leaves the gray flash on
  /\ task[t].pc = "hold" /\ Done(t)
  /\ IF task[t].pair = target
     THEN refreshing' = FALSE /\ overview' = task[t].ans
     ELSE UNCHANGED <<refreshing, overview>>
  /\ UNCHANGED <<clock, database, daemon, server, target, bounds>>

\* pollForTick after the flash of 400 ms.
PollSwaps(t) ==
  /\ task[t].pc = "hold" /\ Done(t)
  /\ refreshing' = FALSE
  /\ overview' = IF task[t].pair = target THEN task[t].ans ELSE overview
  /\ UNCHANGED <<clock, database, daemon, server, target, bounds>>

-----------------------------------------------------------------------------
Collects == Wake \/ InsertTick \/ PurgeManual \/ PublishForecast

Serves(t) ==
  ServeOverview(t) \/ ServeRefresh(t) \/ Lost(t)

\* Code of the page that goes on by itself once an answer or a timer is there.
Continues(t) == LoadAnswered(t) \/ RefreshAnswered(t) \/ PollAnswered(t) \/ PollSwaps(t)

Clicks(t) == SetTarget(t) \/ DoRefresh(t)

Next ==
  \/ Advance \/ Collects \/ CacheExpires
  \/ RefreshOther \/ RefreshStores \/ RefreshFails \/ RefreshAnswers
  \/ \E t \in Task : Serves(t) \/ Clicks(t) \/ StartPoll(t) \/ Continues(t)

Spec == Init /\ [][Next]_vars

\* Timers fire, the page goes on, and the network does not lose every request.
\* Nothing is assumed of the collector, of the end of a refresh or of clicks.
FairSpec ==
  /\ Spec /\ WF_vars(CacheExpires)
  /\ WF_vars(\E t \in Task : StartPoll(t))
  /\ WF_vars(\E t \in Task : Continues(t))
  /\ WF_vars(\E t \in Task : ServeOverview(t))

-----------------------------------------------------------------------------
Overview == [pair : Asset, lastTickAt : Nat, nextTickAt : Nat \cup {None}]

Run == [at : Nat, pair : Asset, stored : BOOLEAN]

TaskRec ==
  [pc : {"idle", "sent", "running", "answered", "hold"},
   kind : {"load", "poll", "refresh"}, pair : Asset, ans : Overview \cup {None}, at : Nat]

\* Every variable has its type.
TypeOK ==
  /\ now \in 1..MaxTime /\ lastStart \in 1..MaxTime
  /\ sched \in Nat /\ manual \in Nat
  /\ forecast \in Nat \cup {None} /\ started \in Nat /\ wakeAt \in Nat
  /\ collector \in {"sleep", "tick", "stored", "purged"}
  /\ cache \in [Asset -> Overview \cup {None}]
  /\ inFlight \in BOOLEAN
  /\ runs \subseteq Run /\ outdated \subseteq Asset
  /\ target \in Asset /\ overview \in Overview \cup {None} /\ refreshing \in BOOLEAN
  /\ task \in [Task -> TaskRec] /\ clicks \in 0..MaxClicks /\ losses \in 0..MaxLosses

\* "invalidate caches after a refresh (data changed)": once a refresh has been
\* answered the server answers nothing computed before it, for any pair, though
\* overviews are computed and cached while its tick runs.
RefreshIsSeen ==
  \A a \in outdated : cache[a] # None => \E r \in runs : r.stored

\* "in-flight guard = 1 refresh at a time": however long a tick takes, and though
\* the cooldown ends before it, no second manual tick is started.
OneRefreshAtATime == \A r, s \in runs : ~r.stored /\ ~s.stored => r = s

\* The gray flash, which also disables the refresh button, is somebody's: a
\* refresh under way or a poll about to swap its data in.
RefreshingHasCause ==
  refreshing => \E t \in Task :
    task[t].pc # "idle" /\ (task[t].kind = "refresh" \/ task[t].pc = "hold")

\* A poll in the background never puts another pair's data on the page, though
\* the user changes pairs while it waits and while it flashes.
PollKeepsThePair ==
  [][\A t \in Task : task[t].pc = "hold" /\ task'[t] # task[t] /\ overview' # overview
       => overview'.pair = target']_vars

\* No request may be added: every slot is waiting for a refresh that may never end.
OnlyRefreshes == \A t \in Task : task[t].pc # "idle" /\ task[t].kind = "refresh"

\* A page whose countdown has run out and that shows another tick than the last
\* one gets to it, whatever answers arrive late or are lost.
CatchesUp ==
  (Imminent /\ overview.lastTickAt # LastTickAt)
    ~> (~Imminent \/ overview.lastTickAt = LastTickAt \/ OnlyRefreshes)

=============================================================================
