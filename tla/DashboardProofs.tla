--------------------------- MODULE DashboardProofs ---------------------------
(***************************************************************************)
(* Theorems about Dashboard, for any pairs, requests, cadence and bounds.  *)
(***************************************************************************)
EXTENDS Dashboard, TLAPS

LEMMA DefaultIsAnAsset == DefaultPair \in Asset
BY DashboardAssumption DEF DefaultPair

LEMMA IdleIsATask == Idle \in TaskRec
BY DefaultIsAnAsset DEF Idle, TaskRec

LEMMA ComputedType ==
  ASSUME TypeOK, NEW a \in Asset
  PROVE  Computed(a) \in Overview
BY DEF TypeOK, Computed, LastTickAt, Overview

LEMMA ServedType ==
  ASSUME TypeOK, NEW a \in Asset
  PROVE  Served(a) \in Overview
BY ComputedType DEF TypeOK, Served

-----------------------------------------------------------------------------
(* What the page does to its requests keeps their type.                    *)

LEMMA RequestType ==
  ASSUME TypeOK, NEW t \in Task, NEW kind \in {"load", "poll", "refresh"},
         NEW a \in Asset, Request(t, kind, a)
  PROVE  task' \in [Task -> TaskRec]
<1>1. [Idle EXCEPT !.pc = "sent", !.kind = kind, !.pair = a] \in TaskRec
  BY DEF Idle, TaskRec
<1> QED BY <1>1 DEF TypeOK, Request

LEMMA AnswerType ==
  ASSUME TypeOK, NEW t \in Task, NEW ans \in Overview \cup {None}, Answer(t, ans)
  PROVE  task' \in [Task -> TaskRec]
<1>1. task[t] \in TaskRec
  BY DEF TypeOK
<1>2. [task[t] EXCEPT !.pc = "answered", !.ans = ans, !.at = 0] \in TaskRec
  BY <1>1 DEF TaskRec
<1>3. task' = [task EXCEPT ![t] = [task[t] EXCEPT !.pc = "answered", !.ans = ans, !.at = 0]]
  BY DEF Answer, TypeOK
<1> QED BY <1>2, <1>3 DEF TypeOK

LEMMA DoneType ==
  ASSUME TypeOK, NEW t \in Task, Done(t)
  PROVE  task' \in [Task -> TaskRec]
BY IdleIsATask DEF TypeOK, Done

LEMMA AnswerRunType ==
  ASSUME TypeOK, NEW r, NEW ans \in Overview \cup {None}, AnswerRun(r, ans)
  PROVE  task' \in [Task -> TaskRec]
<1>1. ASSUME NEW t \in Task
      PROVE  [task[t] EXCEPT !.pc = "answered", !.ans = ans, !.at = 0] \in TaskRec
  BY DEF TypeOK, TaskRec
<1> QED BY <1>1 DEF TypeOK, AnswerRun

-----------------------------------------------------------------------------
LEMMA InitType == Init => TypeOK
<1> SUFFICES ASSUME Init PROVE TypeOK
  OBVIOUS
<1> USE DashboardAssumption DEF Init
<1>1. task \in [Task -> TaskRec]
  <2>1. [Idle EXCEPT !.pc = "sent"] \in TaskRec
    BY DefaultIsAnAsset DEF Idle, TaskRec
  <2> QED BY <2>1, IdleIsATask
<1>2. forecast \in Nat
  OBVIOUS
<1>3. now \in 1..MaxTime /\ lastStart \in 1..MaxTime
  OBVIOUS
<1>4. cache \in [Asset -> Overview \cup {None}]
  OBVIOUS
<1>5. sched \in Nat /\ manual \in Nat /\ started \in Nat /\ wakeAt \in Nat
  OBVIOUS
<1>6. clicks \in 0..MaxClicks /\ losses \in 0..MaxLosses
  OBVIOUS
<1>7. collector \in {"sleep", "tick", "stored", "purged"} /\ inFlight \in BOOLEAN
  OBVIOUS
<1>8. /\ runs \subseteq Run /\ outdated \subseteq Asset /\ target \in Asset
      /\ overview \in Overview \cup {None} /\ refreshing \in BOOLEAN
  BY DefaultIsAnAsset
<1> QED BY <1>1, <1>2, <1>3, <1>4, <1>5, <1>6, <1>7, <1>8 DEF TypeOK

LEMMA CollectorType ==
  ASSUME TypeOK, Advance \/ Collects
  PROVE  TypeOK'
<1> USE DashboardAssumption DEF TypeOK
<1>1. CASE Advance
  BY <1>1 DEF Advance, database, daemon, server, page, bounds
<1>2. CASE Wake
  BY <1>2 DEF Wake, Starts, database, server, page, bounds
<1>3. CASE InsertTick
  BY <1>3 DEF InsertTick, clock, server, page, bounds
<1>4. CASE PurgeManual
  BY <1>4 DEF PurgeManual, clock, server, page, bounds
<1>5. CASE PublishForecast
  <2>1. \A d \in TickTimes : now + Cadence + d \in Nat
    OBVIOUS
  <2>2. forecast' \in Nat \cup {None} /\ wakeAt' \in Nat
    BY <1>5, <2>1 DEF PublishForecast
  <2> QED BY <1>5, <2>2 DEF PublishForecast, clock, database, server, page, bounds
<1> QED BY <1>1, <1>2, <1>3, <1>4, <1>5 DEF Collects

LEMMA OverviewRouteType ==
  ASSUME TypeOK, NEW t \in Task, ServeOverview(t)
  PROVE  TypeOK'
<1> DEFINE a == task[t].pair
<1>1. a \in Asset
  BY DEF TypeOK, TaskRec
<1>2. Served(a) \in Overview
  BY <1>1, ServedType
<1>3. task' \in [Task -> TaskRec]
  <2>1. Answer(t, Served(a))
    BY DEF ServeOverview
  <2> HIDE DEF a
  <2> QED BY <1>2, <2>1, AnswerType
<1>4. cache' \in [Asset -> Overview \cup {None}] /\ outdated' \subseteq Asset
  <2>1. cache' = [cache EXCEPT ![a] = Served(a)]
    BY DEF ServeOverview
  <2>2. outdated' \subseteq outdated
    BY DEF ServeOverview
  <2> HIDE DEF a
  <2> QED BY <1>2, <2>1, <2>2 DEF TypeOK
<1> QED
  BY <1>3, <1>4
  DEF TypeOK, ServeOverview, clock, database, daemon, server, page, bounds

LEMMA RunStarts ==
  ASSUME TypeOK, NEW a \in Asset, StartRun(a)
  PROVE  /\ now' \in 1..MaxTime /\ lastStart' \in 1..MaxTime
         /\ inFlight' \in BOOLEAN /\ runs' \subseteq Run
         /\ UNCHANGED <<cache, outdated>>
<1> USE DashboardAssumption DEF TypeOK
<1>1. now' \in 1..MaxTime /\ lastStart' \in 1..MaxTime
  BY DEF StartRun, Starts
<1>2. [at |-> now, pair |-> a, stored |-> FALSE] \in Run
  BY DEF Run
<1> QED BY <1>1, <1>2 DEF StartRun

LEMMA RefreshRouteType ==
  ASSUME TypeOK, NEW t \in Task, ServeRefresh(t)
  PROVE  TypeOK'
<1>1. CASE Answer(t, None) /\ UNCHANGED <<clock, server>>
  <2>1. task' \in [Task -> TaskRec]
    BY <1>1, AnswerType
  <2> QED
    BY <1>1, <2>1 DEF TypeOK, ServeRefresh, clock, database, daemon, server, page, bounds
<1>2. CASE /\ StartRun(task[t].pair)
           /\ task' = [task EXCEPT ![t].pc = "running", ![t].at = now]
  <2>1. task[t].pair \in Asset
    BY DEF TypeOK, TaskRec
  <2>2. [task[t] EXCEPT !.pc = "running", !.at = now] \in TaskRec
    <3>1. task[t] \in TaskRec /\ now \in Nat
      BY DashboardAssumption DEF TypeOK
    <3> QED BY <3>1 DEF TaskRec
  <2>3. task' = [task EXCEPT ![t] = [task[t] EXCEPT !.pc = "running", !.at = now]]
    BY <1>2 DEF TypeOK
  <2>4. task' \in [Task -> TaskRec]
    BY <2>2, <2>3 DEF TypeOK
  <2> QED
    BY <1>2, <2>1, <2>4, RunStarts
    DEF TypeOK, ServeRefresh, clock, database, daemon, server, page, bounds
<1> QED BY <1>1, <1>2 DEF ServeRefresh

LEMMA OtherType ==
  ASSUME TypeOK, RefreshOther
  PROVE  TypeOK'
BY DefaultIsAnAsset, RunStarts
DEF TypeOK, RefreshOther, database, daemon, page, bounds

LEMMA RunType ==
  ASSUME TypeOK, RefreshStores \/ RefreshFails \/ RefreshAnswers \/ CacheExpires
  PROVE  TypeOK'
<1>1. CASE RefreshStores
  <2>1. PICK r \in runs :
          /\ runs' = (runs \ {r}) \cup {[r EXCEPT !.stored = TRUE]}
          /\ manual' \in {manual} \cup (IF r.at > manual THEN {r.at} ELSE {})
    BY <1>1 DEF RefreshStores
  <2>2. r \in Run /\ [r EXCEPT !.stored = TRUE] \in Run
    BY DEF TypeOK, Run
  <2>3. runs' \subseteq Run /\ manual' \in Nat
    BY <2>1, <2>2 DEF TypeOK, Run
  <2> QED
    BY <1>1, <2>3 DEF TypeOK, RefreshStores, clock, daemon, page, bounds
<1>2. CASE RefreshFails
  <2>1. PICK r \in runs : runs' = runs \ {r} /\ AnswerRun(r, None)
    BY <1>2 DEF RefreshFails
  <2>2. task' \in [Task -> TaskRec]
    BY <2>1, AnswerRunType
  <2> QED
    BY <1>2, <2>1, <2>2
    DEF TypeOK, RefreshFails, clock, database, daemon, page, bounds
<1>3. CASE RefreshAnswers
  <2>1. PICK r \in runs : runs' = runs \ {r} /\ AnswerRun(r, Computed(r.pair))
    BY <1>3 DEF RefreshAnswers
  <2>2. Computed(r.pair) \in Overview
    BY ComputedType DEF TypeOK, Run
  <2>3. task' \in [Task -> TaskRec]
    BY <2>1, <2>2, AnswerRunType
  <2> QED
    BY <1>3, <2>1, <2>3
    DEF TypeOK, RefreshAnswers, clock, database, daemon, page, bounds
<1>4. CASE CacheExpires
  BY <1>4 DEF TypeOK, CacheExpires, clock, database, daemon, page, bounds
<1> QED BY <1>1, <1>2, <1>3, <1>4

LEMMA LostType ==
  ASSUME TypeOK, NEW t \in Task, Lost(t)
  PROVE  TypeOK'
<1>1. task' \in [Task -> TaskRec]
  BY AnswerType DEF Lost
<1>2. losses' \in 0..MaxLosses
  BY DashboardAssumption DEF Lost, TypeOK
<1> QED
  BY <1>1, <1>2 DEF TypeOK, Lost, clock, database, daemon, server, page

LEMMA PageType ==
  ASSUME TypeOK, NEW t \in Task, Clicks(t) \/ StartPoll(t) \/ Continues(t)
  PROVE  TypeOK'
<1>0. task[t] \in TaskRec
  BY DEF TypeOK
<1>1. CASE SetTarget(t)
  <2>1. PICK a \in Asset \ {target} : target' = a /\ Request(t, "load", a)
    BY <1>1 DEF SetTarget
  <2>2. task' \in [Task -> TaskRec]
    BY <2>1, RequestType
  <2> QED
    BY <1>1, <2>1, <2>2, DashboardAssumption
    DEF TypeOK, SetTarget, Click, clock, database, daemon, server
<1>2. CASE DoRefresh(t)
  <2>1. task' \in [Task -> TaskRec]
    BY <1>2, RequestType DEF DoRefresh, TypeOK
  <2> QED
    BY <1>2, <2>1, DashboardAssumption
    DEF TypeOK, DoRefresh, Click, clock, database, daemon, server
<1>3. CASE StartPoll(t)
  <2>1. task' \in [Task -> TaskRec]
    BY <1>3, RequestType DEF StartPoll, TypeOK
  <2> QED
    BY <1>3, <2>1
    DEF TypeOK, StartPoll, clock, database, daemon, server, page, bounds
<1>4. CASE LoadAnswered(t) \/ RefreshAnswered(t) \/ PollSwaps(t)
  <2>1. task' \in [Task -> TaskRec]
    BY <1>4, DoneType DEF LoadAnswered, RefreshAnswered, PollSwaps
  <2>2. overview' \in Overview \cup {None} /\ refreshing' \in BOOLEAN
    BY <1>0, <1>4 DEF TypeOK, TaskRec, LoadAnswered, RefreshAnswered, PollSwaps
  <2> QED
    BY <1>4, <2>1, <2>2
    DEF TypeOK, LoadAnswered, RefreshAnswered, PollSwaps,
        clock, database, daemon, server, bounds
<1>5. CASE PollAnswered(t)
  <2>1. task' \in [Task -> TaskRec]
    <3>1. CASE Done(t)
      BY <3>1, DoneType
    <3>2. CASE task' = [task EXCEPT ![t].pc = "hold"]
      BY <1>0, <3>2 DEF TypeOK, TaskRec
    <3> QED BY <1>5, <3>1, <3>2 DEF PollAnswered
  <2> QED
    BY <1>5, <2>1
    DEF TypeOK, PollAnswered, clock, database, daemon, server, bounds
<1> QED BY <1>1, <1>2, <1>3, <1>4, <1>5 DEF Clicks, Continues

LEMMA StepType == TypeOK /\ [Next]_vars => TypeOK'
<1> SUFFICES ASSUME TypeOK, [Next]_vars PROVE TypeOK'
  OBVIOUS
<1>1. CASE Advance \/ Collects
  BY <1>1, CollectorType
<1>2. CASE CacheExpires \/ RefreshStores \/ RefreshFails \/ RefreshAnswers
  BY <1>2, RunType
<1>3. CASE RefreshOther
  BY <1>3, OtherType
<1>4. CASE \E t \in Task : Serves(t)
  BY <1>4, OverviewRouteType, RefreshRouteType, LostType DEF Serves
<1>5. CASE \E t \in Task : Clicks(t) \/ StartPoll(t) \/ Continues(t)
  BY <1>5, PageType
<1>6. CASE UNCHANGED vars
  BY <1>6 DEF TypeOK, vars, clock, database, daemon, server, page, bounds
<1> QED BY <1>1, <1>2, <1>3, <1>4, <1>5, <1>6 DEF Next

\* Every variable keeps its type: what the page shows, what the server caches
\* and what travels between them is an overview or nothing.
THEOREM TypeCorrect == Spec => []TypeOK
BY InitType, StepType, PTL DEF Spec

-----------------------------------------------------------------------------
(* The manual refreshes.                                                   *)

\* The guard of refresh.ts is up while a manual tick is not stored.
GuardIsUp == \A r \in runs : ~r.stored => inFlight

RunInv == GuardIsUp /\ OneRefreshAtATime

LEMMA StartKeepsRuns ==
  ASSUME RunInv, NEW a, StartRun(a)
  PROVE  RunInv'
<1>1. ~inFlight
  BY DEF StartRun, Busy
<1>2. \A r \in runs : r.stored
  BY <1>1 DEF RunInv, GuardIsUp
<1>3. GuardIsUp'
  BY DEF StartRun, GuardIsUp
<1>4. OneRefreshAtATime'
  BY <1>2 DEF StartRun, OneRefreshAtATime
<1> QED BY <1>3, <1>4 DEF RunInv

LEMMA StepRuns == TypeOK /\ RunInv /\ [Next]_vars => RunInv'
<1> SUFFICES ASSUME TypeOK, RunInv, [Next]_vars PROVE RunInv'
  OBVIOUS
<1>1. CASE RefreshStores
  <2>1. PICK r \in runs :
          ~r.stored /\ runs' = (runs \ {r}) \cup {[r EXCEPT !.stored = TRUE]}
    BY <1>1 DEF RefreshStores
  <2>2. [r EXCEPT !.stored = TRUE].stored
    BY DEF TypeOK, Run
  <2>3. \A s \in runs' : s.stored
    <3>1. \A s \in runs \ {r} : s.stored
      BY <2>1 DEF RunInv, OneRefreshAtATime
    <3> QED BY <2>1, <2>2, <3>1
  <2> QED BY <2>3 DEF RunInv, GuardIsUp, OneRefreshAtATime
<1>2. CASE RefreshFails
  <2>1. PICK r \in runs : ~r.stored /\ runs' = runs \ {r}
    BY <1>2 DEF RefreshFails
  <2>2. \A s \in runs' : s.stored
    BY <2>1 DEF RunInv, OneRefreshAtATime
  <2> QED BY <2>2 DEF RunInv, GuardIsUp, OneRefreshAtATime
<1>3. CASE RefreshAnswers
  <2>1. runs' \subseteq runs /\ inFlight' = inFlight
    BY <1>3 DEF RefreshAnswers
  <2> QED BY <2>1 DEF RunInv, GuardIsUp, OneRefreshAtATime
<1>4. CASE RefreshOther
  BY <1>4, StartKeepsRuns DEF RefreshOther
<1>5. ASSUME NEW t \in Task, ServeRefresh(t) PROVE RunInv'
  <2>1. CASE UNCHANGED server
    BY <2>1 DEF RunInv, GuardIsUp, OneRefreshAtATime, server
  <2>2. CASE StartRun(task[t].pair)
    BY <2>2, StartKeepsRuns
  <2> QED BY <1>5, <2>1, <2>2 DEF ServeRefresh
<1>6. CASE UNCHANGED <<inFlight, runs>>
  BY <1>6 DEF RunInv, GuardIsUp, OneRefreshAtATime
<1>7. CASE Advance \/ Collects \/ CacheExpires
  <2>1. UNCHANGED <<inFlight, runs>>
    BY <1>7
    DEF Advance, Collects, Wake, InsertTick, PurgeManual, PublishForecast,
        CacheExpires, server
  <2> QED BY <1>6, <2>1
<1>8. ASSUME NEW t \in Task,
             ServeOverview(t) \/ Lost(t) \/ Clicks(t) \/ StartPoll(t) \/ Continues(t)
      PROVE  RunInv'
  <2>1. UNCHANGED <<inFlight, runs>>
    BY <1>8
    DEF ServeOverview, Lost, Clicks, SetTarget, DoRefresh, StartPoll, Continues,
        LoadAnswered, RefreshAnswered, PollAnswered, PollSwaps, server
  <2> QED BY <1>6, <2>1
<1>9. CASE UNCHANGED vars
  BY <1>6, <1>9 DEF vars, server
<1> QED BY <1>1, <1>2, <1>3, <1>4, <1>5, <1>7, <1>8, <1>9 DEF Next, Serves

\* Whatever the cooldown, the collector and the other pages do, one manual
\* refresh is under way at most.
THEOREM OneRefresh == Spec => []OneRefreshAtATime
<1>1. Init => RunInv
  BY DEF Init, RunInv, GuardIsUp, OneRefreshAtATime
<1>2. RunInv => OneRefreshAtATime
  BY DEF RunInv
<1> QED BY <1>1, <1>2, InitType, StepType, StepRuns, PTL DEF Spec

-----------------------------------------------------------------------------
(* The cache of the server.                                                *)

LEMMA StepSeen == TypeOK /\ RefreshIsSeen /\ [Next]_vars => RefreshIsSeen'
<1> SUFFICES ASSUME TypeOK, RefreshIsSeen, [Next]_vars PROVE RefreshIsSeen'
  OBVIOUS
<1>1. CASE RefreshStores
  <2>1. PICK r \in runs : runs' = (runs \ {r}) \cup {[r EXCEPT !.stored = TRUE]}
    BY <1>1 DEF RefreshStores
  <2>2. [r EXCEPT !.stored = TRUE].stored
    BY DEF TypeOK, Run
  <2> QED BY <2>1, <2>2 DEF RefreshIsSeen
<1>2. CASE RefreshFails
  <2>1. PICK r \in runs : ~r.stored /\ runs' = runs \ {r}
    BY <1>2 DEF RefreshFails
  <2>2. UNCHANGED <<cache, outdated>>
    BY <1>2 DEF RefreshFails
  <2> QED BY <2>1, <2>2 DEF RefreshIsSeen
<1>3. CASE RefreshAnswers
  BY <1>3 DEF RefreshAnswers, RefreshIsSeen
<1>4. ASSUME NEW a, StartRun(a) PROVE RefreshIsSeen'
  BY <1>4 DEF StartRun, RefreshIsSeen
<1>5. CASE CacheExpires
  BY <1>5 DEF CacheExpires, RefreshIsSeen, TypeOK
<1>6. ASSUME NEW t \in Task, ServeOverview(t) PROVE RefreshIsSeen'
  <2> DEFINE a == task[t].pair
  <2>1. /\ cache' = [cache EXCEPT ![a] = Served(a)]
        /\ outdated' = IF cache[a] # None THEN outdated ELSE outdated \ {a}
        /\ runs' = runs
    BY <1>6 DEF ServeOverview
  <2>2. cache[a] # None => Served(a) = cache[a]
    BY DEF Served
  <2> HIDE DEF a
  <2> QED BY <2>1, <2>2 DEF RefreshIsSeen, TypeOK
<1>7. CASE UNCHANGED <<cache, runs, outdated>>
  BY <1>7 DEF RefreshIsSeen
<1>8. CASE Advance \/ Collects
  <2>1. UNCHANGED <<cache, runs, outdated>>
    BY <1>8
    DEF Advance, Collects, Wake, InsertTick, PurgeManual, PublishForecast, server
  <2> QED BY <1>7, <2>1
<1>9. ASSUME NEW t \in Task,
             ServeRefresh(t) \/ Lost(t) \/ Clicks(t) \/ StartPoll(t) \/ Continues(t)
      PROVE  RefreshIsSeen'
  <2>1. CASE ServeRefresh(t)
    BY <1>4, <1>7, <2>1 DEF ServeRefresh, server
  <2>2. CASE Lost(t) \/ Clicks(t) \/ StartPoll(t) \/ Continues(t)
    <3>1. UNCHANGED <<cache, runs, outdated>>
      BY <2>2
      DEF Lost, Clicks, SetTarget, DoRefresh, StartPoll, Continues,
          LoadAnswered, RefreshAnswered, PollAnswered, PollSwaps, server
    <3> QED BY <1>7, <3>1
  <2> QED BY <1>9, <2>1, <2>2
<1>10. CASE UNCHANGED vars
  BY <1>7, <1>10 DEF vars, server
<1>11. CASE RefreshOther
  BY <1>4, <1>11 DEF RefreshOther
<1> QED
  BY <1>1, <1>2, <1>3, <1>5, <1>6, <1>8, <1>9, <1>10, <1>11 DEF Next, Serves

\* No answer given after a refresh ended comes from before its tick, for any
\* number of pairs: clearing one pair only would not do.
THEOREM RefreshSeen == Spec => []RefreshIsSeen
<1>1. Init => RefreshIsSeen
  BY DEF Init, RefreshIsSeen
<1> QED BY <1>1, InitType, StepType, StepSeen, PTL DEF Spec

-----------------------------------------------------------------------------
(* The requests of the page.                                               *)

\* A request that keeps the gray flash on.
Flashes(r) == r.pc # "idle" /\ (r.kind = "refresh" \/ r.pc = "hold")

\* An answer neither changes what a request is for nor touches another one.
LEMMA AnswerFlashes ==
  ASSUME TypeOK, NEW ans, NEW t \in Task,
         task[t].pc \in {"sent", "running"}, Answer(t, ans)
  PROVE  \A u \in Task : Flashes(task[u]) => Flashes(task'[u])
<1> SUFFICES ASSUME NEW u \in Task, Flashes(task[u]) PROVE Flashes(task'[u])
  OBVIOUS
<1>1. task[t] \in TaskRec
  BY DEF TypeOK
<1>2. task'[t].kind = task[t].kind /\ task'[t].pc = "answered"
  BY <1>1 DEF Answer, TypeOK, TaskRec
<1>3. u # t => task'[u] = task[u]
  BY DEF Answer, TypeOK
<1> QED BY <1>2, <1>3 DEF Flashes

LEMMA StepCause == TypeOK /\ RefreshingHasCause /\ [Next]_vars => RefreshingHasCause'
<1> SUFFICES ASSUME TypeOK, RefreshingHasCause, [Next]_vars,
                    refreshing'
             PROVE  \E u \in Task : Flashes(task'[u])
  BY DEF RefreshingHasCause, Flashes
<1>0. \A u \in Task : task[u] \in TaskRec
  BY DEF TypeOK
<1>1. SUFFICES ASSUME ~ \E u \in Task : Flashes(task'[u]) PROVE FALSE
  OBVIOUS
<1>2. refreshing => \E u \in Task : Flashes(task[u])
  BY DEF RefreshingHasCause, Flashes
<1>3. ASSUME UNCHANGED refreshing, \A u \in Task : Flashes(task[u]) => Flashes(task'[u])
      PROVE  FALSE
  BY <1>1, <1>2, <1>3
<1>4. CASE UNCHANGED <<refreshing, task>>
  BY <1>3, <1>4
<1>5. CASE Advance \/ Collects \/ CacheExpires \/ RefreshOther \/ RefreshStores
  <2>1. UNCHANGED <<refreshing, task>>
    BY <1>5
    DEF Advance, Collects, Wake, InsertTick, PurgeManual, PublishForecast,
        CacheExpires, RefreshOther, RefreshStores, page
  <2> QED BY <1>4, <2>1
<1>6. ASSUME NEW r, NEW ans, AnswerRun(r, ans), UNCHANGED page PROVE FALSE
  <2>1. ASSUME NEW u \in Task, Flashes(task[u]) PROVE Flashes(task'[u])
    BY <1>0, <1>6, <2>1 DEF AnswerRun, Flashes, TaskRec
  <2> QED BY <1>3, <1>6, <2>1 DEF page
<1>7. CASE RefreshFails \/ RefreshAnswers
  BY <1>6, <1>7 DEF RefreshFails, RefreshAnswers
<1>8. ASSUME NEW t \in Task, Serves(t) PROVE FALSE
  <2>1. UNCHANGED refreshing
    BY <1>8 DEF Serves, ServeOverview, ServeRefresh, Lost, page
  <2>2. CASE \E ans : Answer(t, ans) /\ task[t].pc \in {"sent", "running"}
    BY <1>3, <2>1, <2>2, AnswerFlashes
  <2>3. CASE /\ task[t].kind = "refresh"
             /\ task' = [task EXCEPT ![t].pc = "running", ![t].at = now]
    <3>1. Flashes(task'[t])
      BY <1>0, <2>3 DEF TypeOK, TaskRec, Flashes
    <3> QED BY <1>1, <3>1
  <2> QED BY <1>8, <2>2, <2>3 DEF Serves, ServeOverview, ServeRefresh, Lost
<1>9. ASSUME NEW t \in Task, NEW kind, NEW a, UNCHANGED refreshing, Request(t, kind, a)
      PROVE  FALSE
  <2>1. ASSUME NEW u \in Task, Flashes(task[u]) PROVE Flashes(task'[u])
    BY <1>9, <2>1 DEF Request, TypeOK, Flashes
  <2> QED BY <1>3, <1>9, <2>1
<1>10. ASSUME NEW t \in Task, DoRefresh(t) PROVE FALSE
  <2>1. task'[t].pc = "sent" /\ task'[t].kind = "refresh"
    BY <1>10 DEF DoRefresh, Request, TypeOK, Idle
  <2> QED BY <1>1, <2>1 DEF Flashes
<1>11. ASSUME NEW t \in Task, SetTarget(t) \/ StartPoll(t) PROVE FALSE
  BY <1>9, <1>11 DEF SetTarget, StartPoll, page
<1>12. ASSUME NEW t \in Task, ~Flashes(task[t]), UNCHANGED refreshing, Done(t)
       PROVE  FALSE
  <2>1. ASSUME NEW u \in Task, Flashes(task[u]) PROVE Flashes(task'[u])
    BY <1>12, <2>1 DEF Done, TypeOK
  <2> QED BY <1>3, <1>12, <2>1
<1>13. ASSUME NEW t \in Task, Continues(t) PROVE FALSE
  <2>1. CASE LoadAnswered(t)
    BY <1>12, <2>1 DEF LoadAnswered, Flashes
  <2>2. CASE RefreshAnswered(t) \/ PollSwaps(t)
    BY <2>2 DEF RefreshAnswered, PollSwaps
  <2>3. CASE PollAnswered(t)
    <3>1. CASE Done(t) /\ UNCHANGED refreshing
      BY <1>12, <2>3, <3>1 DEF PollAnswered, Flashes
    <3>2. CASE task' = [task EXCEPT ![t].pc = "hold"]
      <4>1. task'[t].pc = "hold"
        BY <1>0, <3>2 DEF TypeOK, TaskRec
      <4> QED BY <1>1, <4>1 DEF Flashes
    <3> QED BY <2>3, <3>1, <3>2 DEF PollAnswered
  <2> QED BY <1>13, <2>1, <2>2, <2>3 DEF Continues
<1>14. CASE UNCHANGED vars
  BY <1>4, <1>14 DEF vars, page
<1> QED
  BY <1>5, <1>7, <1>8, <1>10, <1>11, <1>13, <1>14 DEF Next, Clicks

\* The refresh button is never left disabled by a poll that gave up or a refresh
\* that failed.
THEOREM RefreshingExplained == Spec => []RefreshingHasCause
<1>1. Init => RefreshingHasCause
  BY DEF Init, RefreshingHasCause
<1> QED BY <1>1, InitType, StepType, StepCause, PTL DEF Spec

-----------------------------------------------------------------------------
(* The polls.                                                              *)

\* A cached overview is of the pair it is cached for.
CacheIsOfItsPair == \A a \in Asset : cache[a] # None => cache[a].pair = a

\* Only a refresh waits for a tick, and a poll waits with an overview of its pair.
RequestOk(r) ==
  /\ r.pc = "running" => r.kind = "refresh"
  /\ r.pc = "hold" => r.kind = "poll" /\ r.ans # None
  /\ r.kind = "poll" /\ r.pc \in {"answered", "hold"} /\ r.ans # None
       => r.ans.pair = r.pair

PollInv == CacheIsOfItsPair /\ \A t \in Task : RequestOk(task[t])

LEMMA ServedPair ==
  ASSUME CacheIsOfItsPair, NEW a \in Asset
  PROVE  Served(a).pair = a
BY DEF CacheIsOfItsPair, Served, Computed

LEMMA StepPoll == TypeOK /\ PollInv /\ [Next]_vars => PollInv'
<1> SUFFICES ASSUME TypeOK, PollInv, [Next]_vars PROVE PollInv'
  OBVIOUS
<1>0. \A u \in Task : task[u] \in TaskRec /\ RequestOk(task[u])
  BY DEF TypeOK, PollInv
<1>1. ASSUME UNCHANGED cache, NEW t \in Task, RequestOk(task'[t]),
             \A u \in Task \ {t} : task'[u] = task[u]
      PROVE  PollInv'
  BY <1>0, <1>1 DEF PollInv, CacheIsOfItsPair, RequestOk
<1>2. CASE UNCHANGED <<cache, task>>
  BY <1>2 DEF PollInv, CacheIsOfItsPair, RequestOk
<1>3. CASE Advance \/ Collects \/ RefreshOther \/ RefreshStores
  <2>1. UNCHANGED <<cache, task>>
    BY <1>3
    DEF Advance, Collects, Wake, InsertTick, PurgeManual, PublishForecast,
        RefreshOther, RefreshStores, StartRun, server
  <2> QED BY <1>2, <2>1
<1>4. CASE CacheExpires
  BY <1>4 DEF CacheExpires, PollInv, CacheIsOfItsPair, TypeOK, RequestOk
<1>5. CASE RefreshFails \/ RefreshAnswers
  <2>1. \A a \in Asset : cache'[a] # None => cache'[a] = cache[a]
    BY <1>5 DEF RefreshFails, RefreshAnswers
  <2>2. PICK r, ans : AnswerRun(r, ans)
    BY <1>5 DEF RefreshFails, RefreshAnswers
  <2>3. ASSUME NEW u \in Task PROVE RequestOk(task'[u])
    <3>1. CASE task[u].pc = "running" /\ task[u].at = r.at
      <4>1. task[u].kind = "refresh"
        BY <1>0, <3>1 DEF RequestOk
      <4>2. task'[u].kind = "refresh" /\ task'[u].pc = "answered"
        BY <1>0, <2>2, <3>1, <4>1 DEF AnswerRun, TaskRec
      <4> QED BY <4>2 DEF RequestOk
    <3>2. CASE ~(task[u].pc = "running" /\ task[u].at = r.at)
      BY <1>0, <2>2, <3>2 DEF AnswerRun
    <3> QED BY <3>1, <3>2
  <2> QED BY <2>1, <2>3 DEF PollInv, CacheIsOfItsPair
<1>6. ASSUME NEW t \in Task, ServeOverview(t) PROVE PollInv'
  <2> DEFINE a == task[t].pair
  <2>1. a \in Asset
    BY <1>0 DEF TaskRec
  <2>2. Served(a).pair = a
    BY <2>1, ServedPair DEF PollInv
  <2>3. Answer(t, Served(a)) /\ cache' = [cache EXCEPT ![a] = Served(a)]
    BY <1>6 DEF ServeOverview
  <2>4. /\ task'[t].pc = "answered" /\ task'[t].ans = Served(a) /\ task'[t].pair = a
        /\ \A u \in Task \ {t} : task'[u] = task[u]
    BY <1>0, <2>3 DEF Answer, TypeOK, TaskRec
  <2>5. CacheIsOfItsPair'
    <3> HIDE DEF a
    <3> QED BY <2>1, <2>2, <2>3 DEF PollInv, CacheIsOfItsPair, TypeOK
  <2>6. RequestOk(task'[t])
    BY <2>2, <2>4 DEF RequestOk
  <2> QED BY <1>0, <2>4, <2>5, <2>6 DEF PollInv
<1>7. ASSUME NEW t \in Task, ServeRefresh(t) PROVE PollInv'
  <2>1. cache' = cache
    BY <1>7 DEF ServeRefresh, StartRun, server
  <2>2. CASE Answer(t, None)
    <3>1. /\ task'[t].pc = "answered" /\ task'[t].ans = None
          /\ \A u \in Task \ {t} : task'[u] = task[u]
      BY <1>0, <2>2 DEF Answer, TypeOK, TaskRec
    <3> QED BY <1>1, <2>1, <3>1 DEF RequestOk
  <2>3. CASE task' = [task EXCEPT ![t].pc = "running", ![t].at = now]
    <3>1. /\ task'[t].pc = "running" /\ task'[t].kind = task[t].kind
          /\ \A u \in Task \ {t} : task'[u] = task[u]
      BY <1>0, <2>3 DEF TypeOK, TaskRec
    <3>2. task[t].kind = "refresh"
      BY <1>7 DEF ServeRefresh
    <3> QED BY <1>1, <2>1, <3>1, <3>2 DEF RequestOk
  <2> QED BY <1>7, <2>2, <2>3 DEF ServeRefresh
<1>8. ASSUME NEW t \in Task, Lost(t) PROVE PollInv'
  <2>1. /\ task'[t].pc = "answered" /\ task'[t].ans = None /\ cache' = cache
        /\ \A u \in Task \ {t} : task'[u] = task[u]
    BY <1>0, <1>8 DEF Lost, Answer, TypeOK, TaskRec, server
  <2> QED BY <1>1, <2>1 DEF RequestOk
<1>9. ASSUME NEW t \in Task, Clicks(t) \/ StartPoll(t) PROVE PollInv'
  <2>1. PICK kind, a : Request(t, kind, a)
    BY <1>9 DEF Clicks, SetTarget, DoRefresh, StartPoll
  <2>2. task'[t].pc = "sent" /\ \A u \in Task \ {t} : task'[u] = task[u]
    BY <2>1 DEF Request, TypeOK, Idle
  <2>3. cache' = cache
    BY <1>9 DEF Clicks, SetTarget, DoRefresh, StartPoll, server
  <2> QED BY <1>1, <2>2, <2>3 DEF RequestOk
<1>10. ASSUME NEW t \in Task, Continues(t) PROVE PollInv'
  <2>1. cache' = cache
    BY <1>10
    DEF Continues, LoadAnswered, RefreshAnswered, PollAnswered, PollSwaps, server
  <2>2. CASE Done(t)
    <3>1. task'[t].pc = "idle" /\ \A u \in Task \ {t} : task'[u] = task[u]
      BY <2>2 DEF Done, TypeOK, Idle
    <3> QED BY <1>1, <2>1, <3>1 DEF RequestOk
  <2>3. CASE /\ task[t].pc = "answered" /\ task[t].kind = "poll" /\ IsNews(t)
             /\ task' = [task EXCEPT ![t].pc = "hold"]
    <3>1. /\ task'[t].pc = "hold" /\ task'[t].kind = "poll"
          /\ task'[t].ans = task[t].ans /\ task'[t].pair = task[t].pair
          /\ \A u \in Task \ {t} : task'[u] = task[u]
      BY <1>0, <2>3 DEF TypeOK, TaskRec
    <3>2. task[t].ans # None /\ task[t].ans.pair = task[t].pair
      BY <1>0, <2>3 DEF IsNews, RequestOk
    <3> QED BY <1>1, <2>1, <3>1, <3>2 DEF RequestOk
  <2> QED
    BY <1>10, <2>2, <2>3
    DEF Continues, LoadAnswered, RefreshAnswered, PollAnswered, PollSwaps
<1>11. CASE UNCHANGED vars
  BY <1>2, <1>11 DEF vars, server
<1> QED
  BY <1>3, <1>4, <1>5, <1>6, <1>7, <1>8, <1>9, <1>10, <1>11 DEF Next, Serves

\* A poll leaves its flash only when it swaps its data in.
LEMMA LeavesHold ==
  ASSUME TypeOK, PollInv, Next, NEW t \in Task,
         task[t].pc = "hold", task'[t] # task[t], overview' # overview
  PROVE  overview'.pair = target'
<1>0. task[t] \in TaskRec /\ RequestOk(task[t])
  BY DEF TypeOK, PollInv
<1>1. CASE \E u \in Task : PollSwaps(u)
  <2>1. PICK u \in Task : PollSwaps(u)
    BY <1>1
  <2>2. u = t
    BY <2>1 DEF PollSwaps, Done, TypeOK
  <2> QED BY <1>0, <2>1, <2>2 DEF PollSwaps, RequestOk
<1>2. CASE \E u \in Task : LoadAnswered(u) \/ RefreshAnswered(u)
  <2>1. PICK u \in Task : task[u].pc = "answered" /\ Done(u)
    BY <1>2 DEF LoadAnswered, RefreshAnswered
  <2> QED BY <2>1 DEF Done, TypeOK
<1>3. CASE Advance \/ Collects \/ CacheExpires \/ RefreshOther \/ RefreshStores
           \/ RefreshFails \/ RefreshAnswers
  <2>1. overview' = overview
    BY <1>3
    DEF Advance, Collects, Wake, InsertTick, PurgeManual, PublishForecast,
        CacheExpires, RefreshOther, RefreshStores, RefreshFails, RefreshAnswers, page
  <2> QED BY <2>1
<1>4. CASE \E u \in Task : Serves(u) \/ Clicks(u) \/ StartPoll(u) \/ PollAnswered(u)
  <2>1. overview' = overview
    BY <1>4
    DEF Serves, ServeOverview, ServeRefresh, Lost, Clicks, SetTarget, DoRefresh,
        StartPoll, PollAnswered, page
  <2> QED BY <2>1
<1> QED BY <1>1, <1>2, <1>3, <1>4 DEF Next, Continues

\* The data a poll brings into the page is that of the pair the page is set to,
\* whatever the user did during the two waits of the poll.
THEOREM PollsKeepThePair == Spec => PollKeepsThePair
<1>1. Init => PollInv
  BY IdleIsATask DEF Init, PollInv, CacheIsOfItsPair, RequestOk, Idle
<1>2. ASSUME TypeOK, PollInv, [Next]_vars
      PROVE  [\A t \in Task :
                task[t].pc = "hold" /\ task'[t] # task[t] /\ overview' # overview
                  => overview'.pair = target']_vars
  BY <1>2, LeavesHold
<1> QED
  BY <1>1, <1>2, InitType, StepType, StepPoll, PTL DEF Spec, PollKeepsThePair

=============================================================================
