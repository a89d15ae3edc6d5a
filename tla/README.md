# DecantFi: a TLA+ model

DecantFi quotes and executes sales of BLND for USDC or EURC on Stellar. A
collector daemon polls every venue and stores the quotes; a web server answers
live quotes, builds and submits transactions; a browser page signs them with the
user's wallet and drives swaps of one or two legs. This directory holds a model
of the parts in which something can go wrong that a unit test hardly reaches:
overlapping asynchronous handlers, lost answers, retries, processes killed
between two steps, two processes over one database, caches read while they go
stale, quotes corrected after they were compared, funds parked in an account that
only one browser tab knows.

Sources are named relative to `src/`. `PROJECT.json` maps every definition to the
lines it stands for.

## 1. Inventory

| Component | State it keeps | Operations | What makes it hard | What makes it correct |
|---|---|---|---|---|
| Browser execution session (`web/public/app.js`, `choose-exec.js`, `composite-leg2-dispatch.js`) | `execState` (the modal), `target`, `selectedSource`, `simResult`, wallet, `sbOrphanNotice` | `doExecute*`, `confirmExecute`, `pollTxStatus`, `startCompositeLeg1`, `buildCompositeLeg2`, `retryCompositeLeg2`, `addTrustline`, `recoverSbMediators`, `cancelExecute` | async handlers that overlap and overwrite each other's modal; answers lost after the transaction landed; two-leg swaps resumed after errors | one request sells BLND once; leg 2 follows leg 1 and sells its receipt; the verdict shown is true; the modal never has no way out |
| Browser dashboard (`web/public/app.js`) | `overview`, `target`, `refreshing`, `nextTickAt` | `loadOverview`, `setTarget`, `doRefresh`, the countdown and `pollForTick` | answers that arrive late or for another pair, a cache in between, a forecast published after its tick | what is displayed gets to the last reading; a poll keeps the pair; the refresh button comes back |
| Server execution (`web/execute.ts`) | none (stateless; xBull keeps an id) | `pickExecutableVenue`, `assertAllowedOps`, `submit`, `txStatus`, `buildChangeTrust` | synchronous and fire-and-poll venues, preflights that are best effort | what it builds it also submits |
| Web server (`web/server.ts`) | overview and health caches, rate limiter, refresh cooldown | routes | caches and limits under concurrent requests | no stale answer after a refresh; no request lost to the limiter |
| Manual refresh (`web/refresh.ts`) | `inFlight` | `manualRefresh` | second writer of the database | one at a time; provisional until the next poll |
| Collector (`collector/daemon.ts`, `scheduler.ts`, `core/timeout.ts`, `core/rpc-meter.ts`) | step of `tickAndStore`, `lastMaintenanceDay`, the RPC counter, abandoned `runTick` calls | boot, loop, poll, store, purge, heartbeat, failure row, SIGTERM | timeouts that do not cancel; kills between steps; a failing disk | each poll is recorded, once, with its own data; the loop goes on |
| Retention (`collector/maintenance.ts`) | `tick`, `quote_raw`, `rollup_hourly` | raw purge, rollup, deletion | transactions, windows cut inside an hour, restarts | every winner is counted exactly once |
| Coherence probes (`collector/coherence.ts`) | `coherence_probe` | `runCoherenceProbes` | failures, restarts | one probe per venue and day |
| Database (`db/index.ts`, `db/schema.ts`) | the tables | insert, purge, queries | two writers | transactions are atomic |
| StellarBroker mediator flow (`web/sb-mediator-flow.js`, the `Mediator` class of `web/public/sb-mediator.js`) | ephemeral accounts, `localStorage` | `init`, stream, guard, `stop`, `dispose`, recovery | funds in transit, lost answers, closed tabs, several tabs | funds are never stranded without a trace |
| StellarBroker guard (`core/sources/stellarbroker-guard.ts`) | none | `validateStreamedTx` | aggregate caps over operations | caps hold in aggregate |
| StellarBroker quote capture (`core/sources/stellarbroker.ts`) | a WebSocket session | `captureStellarBrokerTx`, `quote` | timeouts racing messages | settles once, socket closed |
| Quote engine, ranking, EURC paths (`core/engine.ts`, `rank.ts`, `eurc.ts`, `split.ts`, `executable.ts`) | none | `quoteAll`, `rankQuotes`, `compareEurc` | partial failures, ties, ordering | the winner is the best of what answered |
| Live quote (`web/quote-api.ts`) | none | `liveQuote`, `makeReSimLeg`, `resimAquariusXbull` | some quotes are simulated again, others not; one venue is quoted several times | the row executed is the best of the ladder; what is called observed was; a composite can be played as shown |
| RPC selection and cache (`core/rpc-select.ts`, `core/sources/util.ts`) | per-tick cache of promises | `selectRpc`, `cached` | failed entries, stale promises | a failure is not cached |
| Statistics, CLI, access log, source adapters, bundles, deployment | - | - | pure I/O, formatting, third-party code | not modelled |

Interactions: page -> server by HTTP (`/api/build`, `/api/submit`,
`/api/tx-status`, `/api/asset-balance`, `/api/refresh`); server -> Horizon and
Soroban RPC; collector and server share one SQLite file; page -> StellarBroker by
WebSocket through the mediator bundle, which writes `localStorage`.

## 2. Modules

| Module | Models | Extends |
|---|---|---|
| `Settlement` | what a click on Execute promises: the abstract swap | - |
| `SwapExecution` | the execution session of the page, the server's answers, the ledger | - |
| `SwapRefinement` | the refinement mapping: `SwapExecution` implements `Settlement` | `SwapExecution`, INSTANCE `Settlement` |
| `MCSwapExecution` | instances, with the symmetry of handlers and requests | `SwapRefinement` |
| `SwapExecutionProofs`, `SwapRefinementProofs`, `SwapModalProofs` | theorems about them | the above, `TLAPS` |
| `TickStore` | the database and retention, as functions on a database value | - |
| `Collector` | the daemon and the refresh over that database | `TickStore` |
| `CollectorProofs` | theorems about it | `Collector`, `TLAPS` |
| `SbMediator` | sessions and recoveries of the StellarBroker mediator, `localStorage`, the ledger | - |
| `Escrow` | what the accounts of these sessions promise: their abstract life cycle | - |
| `SbRefinement` | the refinement mapping: `SbMediator` implements `Escrow` | `SbMediator`, INSTANCE `Escrow` |
| `SbMediatorProofs` | theorems about it | `SbRefinement`, `TLAPS` |
| `Dashboard` | the overview on the page, the server's cache and refresh, the collector as they see it | - |
| `DashboardProofs` | theorems about it | `Dashboard`, `TLAPS` |
| `RateLimiter` | the buckets of the web server | - |
| `RateLimiterProofs` | theorems about it | `RateLimiter`, `TLAPS` |
| `CompositeTraffic` | the requests of one composite swap through the limiter | `RateLimiter` |
| `LiveQuote` | one live quote: engine, comparison, simulations, ladder, row executed | - |
| `LiveQuoteProofs` | theorems about it | `LiveQuote`, `FiniteSetTheorems`, `TLAPS` |

Each module `M` that TLC checks has its instances in `MCM`, with one `.cfg` for each run.

### SwapExecution

A JavaScript handler runs alone from one `await` to the next, so an action is the
code between two awaits. `task` holds the handlers in flight: `pc` names the await
a handler is suspended at, the other fields are the local variables it uses after
it (leg, build, composite context, counters). `execState` keeps the fields the
handlers read back: phase, build, composite context, error code, missing asset.
The server's part is the nondeterministic answer to an await, constrained by what
its handler can answer: a venue that is confirmed synchronously (`sync`) or only
admitted (`poll`), a restore transaction instead of the swap, a missing trustline,
a refusal by `assertAllowedOps`, or a failure of the fetch, which at `/api/submit`
can come before or after the transaction was sent (`SubmitFires`, `LedgerApply` are
actions of their own, so an error may be shown while the transaction lands).
`usdcSeen` is the balance Horizon reports, which trails the ledger.

Abstractions. The modal overlay covers the page, so page actions need no modal
(`PageReachable`), but a quote asked earlier may still arrive. Amounts are units:
a sale of the simulated BLND yields one `Proceeds`. Fees, slippage, sequence numbers
and the BLND balance are left out; `ensureKit` always succeeds; the wallet is
connected or not. `chooseExec` is abstracted to the kind of row it designates.
Which operation type xBull's restore transaction carries is not in the
repository, hence the constant `RestoreOp`. What StellarBroker does is `SbSale`.

History, for properties only: a click on an Execute button is a request, and
handlers and transactions carry it; `retried` holds the requests whose second leg the user
asked to try again, by the button of the error modal or after adding a trustline.

### Settlement and SwapRefinement

`Settlement` is the promise behind a click, whatever overlaps, retries or gets lost
below: a request is asked, then its BLND is sold at most once, straight or for USDC, and
only USDC obtained that way is converted in its name: once, or again if the user asks for another
try. Its state is the requests asked, those retried, and what has landed. `SwapRefinement` maps a
state of the session to it: every transaction the ledger has applied is a member of its own, with
its request and its leg, so a leg that lands twice is a second step. The exception for retries is
what the code does: when the answer of `/api/submit` is lost the page says that leg 2 failed and
offers to try it again, and both tries can land.

### TickStore and Collector

`TickStore` gives each transaction of the database as a function; `Collector` says
when they happen. The daemon's `pc` names the step of `tickAndStore`; a step ends
at an await or at the end of a database transaction, where the other process may
act or this one may be killed. `withTimeout` gives up waiting but does not cancel, so
`late` holds the polls still running behind their failure. The web server's
refresh is a second writer.

Abstractions. The clock counts slots shorter than an hour; jitter and cadence are
any number of slots. One (pair, size) is modelled, so a tick stands for its
quotes. `rpc_call_log`, the RPC counter and the 15 s cooldown are left out. The
selection before the rollup transaction is part of its step: no row older than
the cutoff can be inserted in between. The random spread of the coherence probes
over the day is the choice to skip a venue.

### SbMediator

`SwapExecution` sees a StellarBroker execution as one await that ends somehow
(`SbProgress`, `SbEnd`, `RecoverEnd`); `SbMediator` is what happens inside it. `tab` holds,
for each tab, the await the session or recovery is suspended at and the locals of
`executeSbMediatorSwap` (`inited`, `result`, `attempt`) and of the page (`sbOrphanNotice`, the
modal). `storage` is the set of `msb_` entries, shared by the tabs. `acct` and `merges` are
the ledger's side: a funding, a streamed transaction or a disposal that was
submitted lands or is dropped at any later time, and the answer to a submission
says nothing when it is an error. A disposal pays out the balance that was loaded,
so it fails if a trade lands in between: that is why the code retries.

Abstractions. An account is a model value; `Lots` streamed transactions sell the
amount. What the guard lets through is abstracted to its verdict. The wallet is
connected and is always the same. A recovery that asks for an account and is answered 404
removes its entry in the same step. The funding may land after that, since its builder sets no time
bound: nothing in the code excludes it.

`Escrow` is what a careful user expects of all this: an account is listed, funded once,
sold from while it is held, returned, and never struck off the list while it holds anything.
What it does not promise is that every funding finds its entry: one that lands after its account
was struck off makes the account `lost`, to be returned only by a session that still knows it.
`SbRefinement` reads the stage of an account off the ledger and `storage`. `KeepsEscrow` says
`SbMediator` implements it: the only way to funds without an entry is that order. That the order
exists, which the code's comments deny, is the run `sb_late`.

### Dashboard

A step of the page or of the server is the code between two awaits; requests
(`task`) travel, may be lost, and answer in any order. `cache` holds one overview per
pair, with its minute left open: an entry may expire at any time and, without
fairness, never. An overview is reduced to the pair it is about, the start of the last
successful tick and the forecast of the next. The collector is seen through what an overview reads:
`InsertTick`, `PurgeManual` and `PublishForecast` are the three writes of
`tickAndStore` in their order, with every read in between; the purge is skipped when the poll
or the purge itself throws. `runs` are the calls of
`manualRefresh` under way, of this page and of others; the end of one is two steps
(`RefreshStores`, `RefreshAnswers`) since the handler resumes after the promise.

Abstractions. Instants are coarse (any two ticks start at different ones); the page
polls whenever its deadline is passed and a slot is free, not every 10 s; the
15 s cooldown may refuse a refresh or not. Statistics, health, balance and charts are
not on this page. Two requests in flight are what it takes to answer in the wrong order.

History, for properties only: `outdated`, the pairs whose cached overview was
computed before the last refresh stored its tick.

### RateLimiter and CompositeTraffic

`RateLimiter` is `rateLimited` with its purge: one bucket per address, shared by all
routes, each of which compares it with a maximum of its own. `admitted` (history) is the
sequence of instants at which an address had a request to a route let through. `CompositeTraffic` sends through it what a page sends
for one composite: `Sends` is the order of the requests in `startCompositeLeg1`,
`confirmExecute`, `pollTxStatus`, `buildCompositeLeg2`; an instant is the 1.5 s between two tries of a poll.

### LiveQuote

A step is one await of `liveQuote` and of the engine below it. At each, every venue
answers again or not at all, so two quotes of one venue for one amount may differ, as
they do on a live market; each simulation comes to any of its outcomes (a fill, a route that
cannot be executed, a partly observed StellarBroker trade, an error or the
15 s watchdog). Amounts are a small set; the second leg is quoted on whatever the first
gives. The quotes of a step are kept by the position of the venue that gave them: a venue that
did not answer has none. `Ahead` is the comparison of `rankQuotes` followed by what a stable sort
does with a tie, so the engine's order of adapters, a constant, decides it; `Ranked` puts a
quote after as many as are ahead of it.

A quote may come without what its simulation needs (xBull's `route`, Aquarius'
`swap_chain_xdr`) and a simulation may fill nothing. Such an xBull row is neither corrected nor
marked (`net > 0n`, `quote-api.ts:183`, `327`) and keeps "exact" with the net quoted;
`ObservedIsSimulated` names the two as exceptions. A leg of the composite whose simulation failed
stands on its quote, unless it is an Aquarius route found unexecutable.

Abstractions. Routes, impacts, gas and wording are left out (gas is not deducted
from a net).
The history is in `sim` (what the simulation of a quote did) and `fills`.

## 3. Runs

Passing runs:

| Run | Instance | Shows |
|---|---|---|
| `swap_overlap` | 2 handlers, 4 transactions, 2 requests, 4 clicks, atomic and composite swaps, USDC held beforehand, restores that the allowlist lets through | type; a request sells BLND at most once; leg 2 only after its leg 1 landed; `done` and `pending` are true; leg 2 sells the receipt of its leg 1 unless the other request moved USDC; every transaction that lands is a step of `Settlement` |
| `swap_live` | 1 request, every kind of row, 4 clicks, 2 tries per poll, USDC held beforehand, a restore at leg 2, orphaned mediators | leg 2 sells the receipt of leg 1 and no USDC of the user; what lands, with every kind of execution, is a step of `Settlement`; a modal without buttons has a handler at work on it and, under fairness, gives way; still one sale per request |
| `collector` | 2 polls, 1 refresh, 1 kill, an hour and a day of 2 slots, both tiers of retention, 1 venue | every stored winner is counted once, whatever fails; after a purge no older refresh is left; an abandoned poll stores nothing; one coherence probe per venue and day; a poll is given up, recorded and followed by maintenance |
| `sb_sessions` | 1 tab, 2 accounts, 3 attempts, 2 lots, closed twice, fundings that land at any time | a session that does not ask for a recovery has returned its funds, or ended in error before its funding was confirmed to it and has sold nothing; every account goes through the stages of `Escrow`, so no entry goes while its account holds funds; sessions and recoveries end |
| `limiter` | 2 addresses, limits 1 and 2, several windows | a route lets through at most twice its limit in any span of a window; an address of which nothing was let through during a window is served |
| `dashboard` | 2 pairs, 2 requests in flight, 3 instants, 1 click, 1 lost answer | once a refresh is answered nothing computed before it is served; one refresh at a time; the disabled button has a cause; a poll never brings in another pair; a page past its deadline gets to the last tick |
| `quote` | the three simulated venues, 2 amounts, both pairs | a composite can be played as shown; a row called exact of a simulated venue shows its fill, with the two exceptions of xBull; the row executed is the best one listed |

Runs that TLC refutes, each a disagreement between the code and its own words
(quoted in `PROJECT.json`, "findings"):

| Run | Counterexample |
|---|---|
| `swap_refused` | the restore transaction the server built for xBull is refused by the server's own allowlist |
| `collector_freeze` | a coherence probe that never answers stops the loop |
| `sb_late` | one tab: the answer to the funding is lost, the session ends as one that funded nothing, a recovery finds no account yet and removes the entry; the funding then lands in an account without a trace |
| `web_limit` | the balances and statuses that one composite polls for count against the limit of `/api/submit`: its second leg, already signed, is answered 429 |
| `quote_headline` | direct EURC is quoted twice; the simulation confirms the quote of the ranking, so nothing is corrected, and the headline keeps the other, higher one |

Three disagreements seen while modelling are not runs of their own. After the
answer of `/api/submit` is lost, a second leg that lands is still reported as USDC held,
and selling it again is offered (`Settlement` allows for that retry, and says that nothing else
converts twice). A trustline found missing at submission comes
without its asset, so the first leg of a composite adds EURC where USDC is
missing. A heartbeat that fails after the commit makes the poll be stored with its data and
once more as a gap.

Bounds. Two handlers are what it takes to overwrite a modal; a third adds no new
pair. Four clicks allow a composite (execute, confirm, confirm) with a retry or a
trustline in it. Tries of polls are 1 or 2: what matters is that they can end; `web_limit`
alone takes those of the code (20 and 10) and its limits. Two polls and a
refresh allow every order of their steps; with an hour and a day of two slots a
bucket is cut by the window and merged twice. Two attempts of a venue at two amounts
are enough for every order of two quotes and their fills. `MaxClicks`, `MaxSims`,
`PollTries`, `BalTries`, `MaxPolls`, `MaxRefreshes`, `MaxCrashes`, `MaxCloses`, `MaxLosses`,
`MaxTime` are the bounds. Deadlock is not checked: the user may stop clicking, a quote is
answered once, and bounded behaviours end.

`RestoreOp` is the operation a restore transaction carries, which the repository does
not say. `swap_overlap` lets it through, so that restores are exercised;
`swap_live` and `swap_refused` take Stellar's own name for it, which the allowlist refuses.

Fairness. `SwapExecution` assumes weak fairness of every handler in flight: fetch,
the wallet and the mediator answer or fail (the browser and the server bound
them). It assumes nothing about clicks, the ledger or Horizon. `Collector` assumes
weak fairness only of code that awaits nothing and of timers; the network may
never answer. `LoopNeverFreezes` fails under exactly that. `SbMediator` assumes that Horizon
and the wallet answer or fail, and that the 60 s timer fires; it assumes nothing
about StellarBroker, the user or the ledger. Its `SessionEnds` is what justifies the
fairness `SwapExecution` assumes of a StellarBroker execution. `Dashboard` assumes that the
minute of a cached overview ends, that the countdown's interval polls, that an answer
is continued with, and that some request for an overview is served again and again; the
number of losses is bounded. It assumes nothing of the collector, of the end of a
refresh, which awaits the network without a timer (`refresh.ts:30`), or of clicks:
`CatchesUp` therefore excepts the page whose every request waits for such a refresh.

## 4. Proofs

`SwapExecutionProofs` proves, for any number of handlers, transactions, requests
and any bounds:

- `TypeCorrect`: `Spec => []TypeOK`. Inductive with `ReviewHasTx` (a modal under review
  holds a build); without it the handler that confirms could take a missing
  transaction.
- `OneSale`: `Spec => []OneSalePerRequest`, the property the comments of `addTrustline`
  are about. The inductive invariant `SaleInv` adds to the types `OneOwner` (a request
  has at most one thing that can still sell BLND: a handler on its way to a build,
  or one transaction that is neither spent nor failed) and `OneConfirmation` (what a
  handler confirms is the transaction of its own request). The theorem assumes
  `NoLeg2Restore`: either the second leg never needs a state restore, or the
  allowlist refuses the restore. Without the assumption it is false: the restore
  branch of `confirmExecute` re-enters `doExecute`, which starts the swap over. Today
  the defect shown by `swap_refused` hides this one.

`SwapRefinementProofs` proves, under the same assumption and for any number of overlapping
requests:

- `LegsInOrder` (`Leg2AfterLeg1`). `LegInv` says that whatever is on its way to a second leg (a
  handler, the modal, a transaction) belongs to a request whose first leg has landed, and that the
  context a handler or the modal carries is that of its own transaction.
- `ReceiptSold` (`Leg2SellsTheReceipt`), whatever the user held beforehand. `ReceiptInv` is said of
  each request on its own: no second leg exists while a first one is open (`LegsApart`), and one
  handler at most waits for the receipt (`OneWaiter`). While no other request has moved USDC,
  the balance is what the user held, plus the proceeds once the sale has landed (`Balances`), so a
  reading is one of these two amounts (`Readings`) and the difference taken for the receipt is
  nothing or the proceeds. When another request moves USDC in the meantime the amount is wrong:
  `confirmExecute` takes any rise of the balance for the receipt of its own first leg
  (`app.js:3084-3105`). That is why the property speaks of requests left `Undisturbed`.
- `SwapSettles` (`Spec => Settles`): initial states map to the initial state of `Settlement`, and
  each step to one of its steps or to a stutter. Every transaction counts, so the proof needs that
  none is one too many: the sale by `SaleInv`, the conversion by `OneSecond` (until the user
  asks for another try, one handler builds the second leg or one transaction is it).

`SwapModalProofs` proves what the modal says and that it can be left:

- `VerdictsTrue` (`VerdictIsTrue`), under the same assumption. `VerdictInv` adds that only swaps
  are polled and that a handler polls only what was handed to the network: without it
  the poll that runs out of tries could announce "pending" of nothing. Transactions only go
  forward (`StepForward`), so a true verdict stays true while other handlers work.
- `BusyServed` (`BusyHasHandler`), under `RestoresRefused`: the allowlist refuses restores,
  as the code's does. It is inductive with `SaleInv`: a handler either shows the phase it goes on to serve,
  or keeps serving the phase on screen, or ends in one that has a button (`Relays`).
  Were restores let through it would be false: the `doExecute` that follows a confirmed
  restore leaves "submitting" on screen until its build has answered.

`CollectorProofs` proves, for any windows, hour and day lengths, venues, polls,
refreshes and kills, without further assumption: `TypeCorrect`, `RetentionConserves`
(`RollupConserves`), `PollsTakePriority` (`ScheduledPollTakesPriority`),
`AbandonedPollsStaySilent` (`NoLateResult`) and `ProbesOncePerDay`
(`OneProbePerVenueAndDay`). `CollectorInv` adds to these properties `Rows` (the table is
finite, ids are unique and below the next one, no row is of a later poll: without
it a count could not be split nor a new row be told from the old ones) and
`OwnRows` (what the current poll has stored so far, at each step of `tickAndStore`:
without it a failure could be recorded before data). Two lemmas carry the
counting: `StripCount` (dropping raw rows is a bijection on ticks, so no count
changes) and `RemovalCounts` (the winners of an hour are those that stay and those
that go).

`SbMediatorProofs` proves, for any number of tabs, accounts, lots and attempts, with fundings that
land at any time or never:

- `TypeCorrect` (`TypeOK`). `SbInv` adds what the other proofs need: `KnowsAccount` and
  `InitedInSession` (what a session past its funding knows), `KeyIsOwn` (two tabs never wait for
  the signature of the same account) and `NotOversold` (trades in flight never exceed the balance, so
  a disposal that succeeds leaves nothing behind).
- `SessionsReturn` (`EndedMeansReturned`): a session that ends without asking for a recovery has
  returned its funds, or it ended in error before its funding was confirmed to it. Of the latter
  `sb-mediator-flow.js:206` says that nothing was funded, which is not so when only the answer was
  lost; what holds, and is proved, is that nothing was sold of it. `OwnInv` says that an account
  belongs to one session, and is sold from only once its funding is confirmed to that session.
- `AccountsKept` (`KeepsEscrow`): the sessions implement `Escrow`, step by step: `LedgerEscrow` for
  what the ledger does to one account, `AnswerEscrow` for the sessions. No assumption on the
  ledger or on the number of tabs is made: an entry that goes before its funding comes is a stage
  of `Escrow`, an entry that goes while the account holds funds is not.

`DashboardProofs` proves, for any pairs, slots of requests, cadence, forecasts and bounds:

- `TypeCorrect`: inductive as it stands, with one lemma for each helper that writes the
  requests.
- `OneRefresh` (`OneRefreshAtATime`) with `GuardIsUp`: while the tick of a run is not stored,
  the guard of `refresh.ts` is up, so no other run starts.
- `RefreshSeen` (`RefreshIsSeen`) and `RefreshingExplained` (`RefreshingHasCause`), inductive
  once types are known.
- `PollsKeepThePair`, an action property, from `PollInv`: a cached overview is of the pair
  it is cached for, and the answer to a poll is of the pair the poll asked for. Without
  the first half the second could not be kept by an answer from the cache.

`RateLimiterProofs` proves, for any addresses, routes, limits and window:

- `TypeCorrect`: a bucket never counts beyond the largest limit.
- `NoLockout` (`QuietIsServed`). It needs `OpenerPassed`: a bucket whose window is open was opened
  by a request that was let through, at the instant its window says; so an address let nothing
  through for a window has no bucket that is still open.
- `BurstsBounded` (`BurstIsBounded`: never more than twice the limit in a window). `BurstInv` says of
  the requests let through, taken in order, that the bucket counts those since it was opened
  (`NewestCounted`), and that between a request and the one a limit later a bucket was
  opened whose window ends before the one two limits later (`Spread`). A bucket that is purged or
  replaced turns the first fact into the second.

`LiveQuoteProofs` proves, for any venues, any order of them, any amounts, with or without
the EURC leg:

- `TypeCorrect` (`TypeOK`), `CompositeFed` (`CompositeIsFed`), `ObservedSimulated`
  (`ObservedIsSimulated`) and `BestRowExecuted` (`BestRowIsTheTarget`), all from `QuoteInv`: what each
  step of `liveQuote` has at hand. `Waiting` says what later steps have not yet written,
  `Legs` that the two legs and the composite are of the quotes they were made from,
  `RankingIsQuoted` that the ranking is of the venues of this step and that its corrections
  come from a simulation. None of the four is inductive without it: each is established
  by one step from locals that others wrote.
- The sort they rest on: `RankedPermutes` (`Ranked` is a permutation of the quotes: `Ahead` is a
  strict total order, and an injection of a finite set into one of its size is onto),
  `LadderRows` and `ChooseExecFinds` (the row that `chooseExec` picks exists and is the best one).

Only model-checked: liveness (`BusyReleases`, `PollIsBounded`, `SessionEnds`,
`CatchesUp`), which with ENABLED and fairness is out of the prover's reach. Every invariant and
action property of the passing runs is stated by a theorem.

## 5. Not modelled, and what could follow

- The StellarBroker guard is a sequential, stateless check of one transaction's
  operations; `SbMediator` takes its verdict as an input. The capture of a StellarBroker quote is one
  WebSocket session per quote; `LiveQuote` takes its outcome.
- RPC selection and the coalescing cache only change which answers a poll gets, and
  answers are arbitrary in `LiveQuote` and `Collector`.
- Of the statistics, only the last reading and the forecast are modelled; the rest is
  read-only SQL. The health cache has the shape of the overview's.
- Source adapters, prices, the command line, the access log, build and deployment: pure I/O,
  parsing and formatting.
- The vendored bundles: `sb-mediator.js` except its `Mediator` class, and `walletkit.js`. They
  are three quarters of the repository's JavaScript, which is why the lines mapped are a
  small share of the whole while they are most of what has state in the program's own code.
- What could follow: the tie between a simulated quote and the pair it was asked for
  (`doSim`), and the statistics pages' own loads.
