---------------------------- MODULE SwapExecution ----------------------------
(***************************************************************************)
(* The execution session of the browser client (web/public/app.js): the    *)
(* modal state execState, the asynchronous click handlers that write it,   *)
(* the transactions the server builds and submits for them                 *)
(* (web/server.ts, web/execute.ts) and the ledger that applies these.      *)
(*                                                                         *)
(* A handler runs alone from one await to the next, so an action is the    *)
(* code between two awaits.  Handlers in flight are the members of Task;   *)
(* nothing in the code prevents several of them from being in flight and   *)
(* writing execState one over the other.                                   *)
(*                                                                         *)
(* History, read by properties only: every click on an Execute button is   *)
(* a request, a member of Req, handlers and transactions carry the request *)
(* they work for, and the requests whose second leg the user asked to try  *)
(* again are members of retried.                                           *)
(***************************************************************************)
EXTENDS Integers, FiniteSets

CONSTANTS
  Task,         \* handler invocations that may be in flight together
  TxId,         \* transactions built during a behaviour
  Req,          \* clicks on an Execute button
  NoTx, NoReq,
  Restores,     \* legs whose build may need a Soroban state restore first
  RestoreOp,    \* operation of xBull's restore transaction (on Stellar, restoreFootprint)
  Selections,   \* rows chooseExec may designate
  Targets,      \* pairs the page offers
  InitialUsdc,  \* USDC the user holds beforehand
  PollTries,    \* tries of pollTxStatus (20 in the code)
  BalTries,     \* tries of the leg 1 balance poll (10 in the code)
  Orphans,      \* whether a mediator account was left behind earlier (msb_* in localStorage)
  MaxSims,      \* quotes in flight together
  MaxClicks     \* bound on the clicks that may lead to a transaction

Asset == {"USDC", "EURC"}
Leg   == {"swap", "leg1", "leg2"}
SellsBlnd == {"swap", "leg1"}
Null  == -1
Proceeds == 1   \* USDC delivered by one sale of the simulated amount

ASSUME ConstantsAssumption ==
  /\ NoTx \notin TxId /\ NoReq \notin Req
  /\ Restores \subseteq Leg
  /\ RestoreOp \in {"restoreFootprint", "invokeHostFunction"}
  /\ Selections \subseteq {"none", "venue", "sb", "comp", "compSb"}
  /\ Targets \subseteq Asset /\ Targets # {}
  /\ Orphans \in BOOLEAN
  /\ InitialUsdc \in Nat /\ MaxSims \in Nat /\ MaxClicks \in Nat
  /\ PollTries \in Nat \ {0} /\ BalTries \in Nat \ {0}

VARIABLES
  target, sel, sims, wallet,   \* the page: pair, row chosen, quotes in flight, wallet connected
  sbOrphanNotice,              \* the banner offering to recover mediator accounts
  execState,                         \* what the modal shows
  task,                              \* handlers in flight
  tx, usdc, trust,                   \* transactions, USDC balance and trustlines on the ledger
  usdcSeen,                          \* the balance as Horizon reports it
  reqs, retried, clicks

page   == <<target, sel, sims, wallet, sbOrphanNotice>>
ledger == <<tx, usdc, trust, usdcSeen>>
count  == <<reqs, retried, clicks>>
vars   == <<page, execState, task, ledger, count>>

-----------------------------------------------------------------------------
Busy    == {"signing", "submitting", "confirming", "leg1_confirming",
            "sb_mediator", "trustline_adding"}
Closable == {"review", "pending", "done", "error", "sb_blocked", "sb_done",
             "sb_recover_needed", "trustline_added"}
Phase   == Busy \cup Closable \cup {"none"}
PC      == {"idle", "balBefore", "build", "sign", "submit", "poll", "pollFetch",
            "balWait", "balFetch", "sbKit", "sbKey", "sbRun", "recKit",
            "recRun", "trust"}
Confirming == {"sign", "submit", "poll", "pollFetch"}

CompRec == [leg : 0..2, sb : BOOLEAN, before : Int, got : Int, req : Req \cup {NoReq}]
NoComp  == [leg |-> 0, sb |-> FALSE, before |-> Null, got |-> Null, req |-> NoReq]

TxRec == [status : {"free", "built", "sent", "ok", "failed", "spent"}, leg : Leg,
          type : {"swap", "restore"}, venue : {"sync", "poll"}, fw : BOOLEAN,
          asset : Asset, amt : Int, req : Req \cup {NoReq}]
FreeTx == [status |-> "free", leg |-> "swap", type |-> "swap", venue |-> "sync",
           fw |-> FALSE, asset |-> "USDC", amt |-> Null, req |-> NoReq]

TaskRec == [pc : PC, leg : Leg, req : Req \cup {NoReq}, tx : TxId \cup {NoTx},
            comp : CompRec, asset : Asset, first : Int, n : Nat]
Idle == [pc |-> "idle", leg |-> "swap", req |-> NoReq, tx |-> NoTx,
         comp |-> NoComp, asset |-> "USDC", first |-> Null, n |-> 0]

\* The fields of execState the handlers read back: the build (tx), the
\* composite context, the error code and the missing asset.
Modal(phase, x, comp) ==
  [phase |-> phase, tx |-> x, comp |-> comp, code |-> "other", asset |-> "none"]
Closed == Modal("none", NoTx, NoComp)
FailedModal(comp) == Modal("failed", NoTx, comp)   \* mutant: a phase execModal does not know
ErrorModal(comp) == Modal("error", NoTx, comp)
RefusedModal(comp) == [ErrorModal(comp) EXCEPT !.code = "bad_request"]
TrustlineModal(comp, a) == [ErrorModal(comp) EXCEPT !.code = "trustline", !.asset = a]

\* The identity of the next transaction built: any one not in use.
Unused == {x \in TxId : tx[x].status = "free"}
Fresh  == CHOOSE x \in TxId : tx[x].status = "free"

\* What applying transaction r does to the USDC balance.
UsdcChange(r) ==
  IF r.type = "swap" /\ r.leg = "leg2" THEN -r.amt
  ELSE IF r.type = "swap" /\ r.asset = "USDC" THEN Proceeds ELSE 0

Init ==
  /\ target \in Targets /\ sel = "none" /\ sims = 0 /\ wallet = TRUE
  /\ sbOrphanNotice = Orphans
  /\ execState = Closed
  /\ task = [t \in Task |-> Idle]
  /\ tx = [x \in TxId |-> FreeTx]
  /\ usdc = InitialUsdc /\ usdcSeen = InitialUsdc
  /\ trust \in SUBSET Asset
  /\ reqs = {} /\ retried = {} /\ clicks = 0

-----------------------------------------------------------------------------
(* The page under the modal.  The overlay covers it while a modal is open. *)

PageReachable == execState.phase = "none"

\* setTarget, selectSource, onAmt and clearSim: another pair drops the quote,
\* an invalid amount suspends it.
EditPage ==
  /\ PageReachable
  /\ \E a \in Targets :
       /\ target' = a
       /\ IF a # target THEN sel' = "none"
          ELSE sel' \in (IF sims = 0 THEN Selections ELSE {"none", sel})
  /\ UNCHANGED <<sims, wallet, sbOrphanNotice, execState, task, ledger, count>>

DoSim ==
  /\ PageReachable /\ sims < MaxSims
  /\ sel' = "none" /\ sims' = sims + 1
  /\ UNCHANGED <<target, wallet, sbOrphanNotice, execState, task, ledger, count>>

\* The quote may arrive after a modal was opened, and for an earlier pair.
SimAnswer ==
  /\ sims > 0
  /\ sims' = sims - 1 /\ sel' \in Selections
  /\ UNCHANGED <<target, wallet, sbOrphanNotice, execState, task, ledger, count>>

ToggleWallet ==
  /\ PageReachable
  /\ wallet' = ~wallet
  /\ sbOrphanNotice' \in (IF wallet THEN {FALSE} ELSE {FALSE, Orphans})
  /\ UNCHANGED <<target, sel, sims, execState, task, ledger, count>>

-----------------------------------------------------------------------------
(* Entering a swap: the code from a click to the first await.              *)

Click(t) == task[t].pc = "idle" /\ clicks < MaxClicks /\ clicks' = clicks + 1

NewRequest(r) == r \in Req \ reqs /\ reqs' = reqs \cup {r}

Enter(t, pc, leg, r, comp, a) ==
  task' = [task EXCEPT ![t] = [Idle EXCEPT !.pc = pc, !.leg = leg, !.req = r,
                                           !.comp = comp, !.asset = a]]

StartLeg1(t, r, sb) ==
  /\ Enter(t, "balBefore", "leg1", r,
           [NoComp EXCEPT !.leg = 1, !.sb = sb, !.req = r], "USDC")
  /\ UNCHANGED execState

\* doExecute up to its first await, for request r.
DoExecute(t, r) ==
  \/ /\ sel = "none"
     /\ task' = [task EXCEPT ![t] = Idle]
     /\ UNCHANGED execState
  \/ /\ sel # "none" /\ ~wallet
     /\ task' = [task EXCEPT ![t] = Idle]
     /\ execState' = ErrorModal(NoComp)
  \/ /\ sel \in {"comp", "compSb"} /\ wallet
     /\ StartLeg1(t, r, sel = "compSb")
  \/ /\ sel = "sb" /\ wallet
     /\ Enter(t, "sbKit", "swap", r, NoComp, target)
     /\ UNCHANGED execState
  \/ /\ sel = "venue" /\ wallet
     /\ Enter(t, "build", "swap", r, NoComp, target)
     /\ UNCHANGED execState

ClickExecute(t) ==
  /\ \/ PageReachable /\ sel \in {"venue", "comp", "compSb", "sb"}
     \/ /\ execState.phase = "trustline_added"
        /\ execState.comp.leg # 1
        /\ ~(execState.comp.leg = 2 /\ execState.comp.got # Null)
  /\ Click(t)
  /\ \E r \in Req : NewRequest(r) /\ DoExecute(t, r)
  /\ UNCHANGED <<page, ledger, retried>>

\* doExecuteSbFloor: a plain build with the venue forced to Horizon.
ClickSbFloor(t) ==
  /\ PageReachable /\ sel = "sb" /\ wallet
  /\ Click(t)
  /\ \E r \in Req : NewRequest(r) /\ Enter(t, "build", "swap", r, NoComp, target)
  /\ UNCHANGED <<page, execState, ledger, retried>>

\* doExecuteComposite after the USDC trustline was added for leg 1.
ClickResumeLeg1(t) ==
  /\ execState.phase = "trustline_added" /\ execState.comp.leg = 1
  /\ sel # "none" /\ wallet
  /\ Click(t)
  /\ \E r \in Req, sb \in BOOLEAN : NewRequest(r) /\ StartLeg1(t, r, sb)
  /\ UNCHANGED <<page, ledger, retried>>

-----------------------------------------------------------------------------
(* Building: /api/asset-balance, then /api/build.                          *)

BalBeforeAnswer(t) ==
  /\ task[t].pc = "balBefore"
  /\ \E b \in {Null, usdcSeen} :
       task' = [task EXCEPT ![t].pc = "build", ![t].comp.before = b]
  /\ UNCHANGED <<page, execState, ledger, count>>

\* The composite context a build answer leaves in the modal.
BuiltComp(t) ==
  IF task[t].leg = "leg2" THEN [task[t].comp EXCEPT !.leg = 2] ELSE task[t].comp

\* The server prices an amount only if it is positive.
Payable(t) == task[t].leg = "leg2" => task[t].comp.got > 0

\* The preflight of the trustline is best effort, so a build may be offered
\* without one.  Only xBull, confirmed synchronously, answers with a restore.
BuildReview(t) ==
  /\ task[t].pc = "build" /\ Payable(t)
  /\ Unused # {}
  /\ \E ty \in {"swap", "restore"}, ve \in {"sync", "poll"}, fw \in BOOLEAN :
       /\ ty = "restore" => task[t].leg \in Restores /\ ve = "sync"
       /\ tx' = [tx EXCEPT ![Fresh] =
            [status |-> "built", leg |-> task[t].leg, type |-> ty, venue |-> ve,
             fw |-> fw, asset |-> task[t].asset, amt |-> task[t].comp.got,
             req |-> task[t].req]]
       /\ execState' = Modal("review", Fresh, BuiltComp(t))
  /\ task' = [task EXCEPT ![t] = Idle]
  /\ UNCHANGED <<page, usdc, usdcSeen, trust, count>>

\* Mutant: the fetch of a second leg is not caught.
BuildErrorUncaught(t) ==
  /\ task[t].pc = "build"
  /\ IF task[t].leg = "leg2" THEN UNCHANGED execState ELSE execState' = ErrorModal(BuiltComp(t))
  /\ task' = [task EXCEPT ![t] = Idle]
  /\ UNCHANGED <<page, ledger, count>>

\* A refusal keeps the context; a failed fetch of leg 1 drops it; only the
\* composite answers record which asset lacks its trustline.
BuildError(t) ==
  /\ task[t].pc = "build"
  /\ \/ execState' = ErrorModal(BuiltComp(t))
     \/ execState' = ErrorModal(IF task[t].leg = "leg1" THEN NoComp ELSE BuiltComp(t))
     \/ /\ Payable(t) /\ task[t].asset \notin trust
        /\ execState' = TrustlineModal(BuiltComp(t),
                          IF task[t].leg = "swap" THEN "none" ELSE task[t].asset)
  /\ task' = [task EXCEPT ![t] = Idle]
  /\ UNCHANGED <<page, ledger, count>>

-----------------------------------------------------------------------------
(* confirmExecute: sign, submit, confirm.                                  *)

ClickConfirm(t) ==
  /\ execState.phase = "review" /\ ~tx[execState.tx].fw
  /\ Click(t)
  /\ LET x == execState.tx IN
       task' = [task EXCEPT ![t] =
         [Idle EXCEPT !.pc = "sign", !.leg = tx[x].leg, !.req = tx[x].req,
                      !.tx = x, !.comp = execState.comp, !.asset = tx[x].asset]]
  /\ execState' = [execState EXCEPT !.phase = "signing"]
  /\ UNCHANGED <<page, ledger, reqs, retried>>

Signed(t) ==
  /\ task[t].pc = "sign"
  /\ task' = [task EXCEPT ![t].pc = "submit"]
  /\ execState' = Modal("submitting", task[t].tx, task[t].comp)
  /\ UNCHANGED <<page, ledger, count>>

\* assertAllowedOps: what submit lets through to the network.  Swaps are path
\* payments or contract calls, which the list holds.
ALLOWED_OP_TYPES == {"pathPaymentStrictSend", "invokeHostFunction", "changeTrust"}
AnyOpAllowed(x) == TRUE   \* mutant: the list is not consulted
AllowedOps(x) == tx[x].type = "restore" => RestoreOp \in ALLOWED_OP_TYPES

\* The catch of confirmExecute, or a refused submission.  At submission the
\* transaction may be unsent, in flight or already applied: the answer that
\* was lost or timed out does not tell.  /api/submit reports a missing
\* trustline without naming the asset.
ConfirmError(t) ==
  /\ task[t].pc \in {"sign", "submit"}
  /\ task' = [task EXCEPT ![t] = Idle]
  /\ \/ execState' = ErrorModal(task[t].comp)
     \/ /\ task[t].pc = "submit" /\ ~AllowedOps(task[t].tx)
        /\ execState' = RefusedModal(task[t].comp)
     \/ /\ task[t].pc = "submit" /\ tx[task[t].tx].venue = "sync"
        /\ tx[task[t].tx].status = "failed" /\ task[t].asset \notin trust
        /\ execState' = TrustlineModal(task[t].comp, "none")
  /\ UNCHANGED <<page, ledger, count>>

\* submit: the server hands the signed transaction to its venue.
SubmitFires(t) ==
  /\ task[t].pc = "submit" /\ tx[task[t].tx].status = "built"
  /\ AllowedOps(task[t].tx)
  /\ tx' = [tx EXCEPT ![task[t].tx].status = "sent"]
  /\ UNCHANGED <<page, execState, task, usdc, usdcSeen, trust, count>>

\* What confirmExecute does with a confirmed transaction.
\* A restore re-enters doExecute, its transaction being spent.
AfterConfirm(t) ==
  LET x == task[t].tx IN
  \/ /\ tx[x].type = "restore"
     /\ DoExecute(t, task[t].req)
     /\ tx' = [tx EXCEPT ![x].status = "spent"]
  \/ /\ tx[x].type = "swap" /\ task[t].comp.leg = 1
     /\ task' = [task EXCEPT ![t].pc = "balWait", ![t].n = 0]
     /\ execState' = Modal("leg1_confirming", NoTx, task[t].comp)
     /\ UNCHANGED tx
  \/ /\ tx[x].type = "swap" /\ task[t].comp.leg # 1
     /\ task' = [task EXCEPT ![t] = Idle]
     /\ execState' = Modal("done", x, task[t].comp)
     /\ UNCHANGED tx

\* Mutant: 'pending' is taken for a confirmation.
SubmitPendingAsDone(t) ==
  /\ task[t].pc = "submit"
  /\ tx[task[t].tx].venue = "poll" /\ tx[task[t].tx].status \in {"sent", "ok", "failed"}
  /\ AfterConfirm(t)
  /\ UNCHANGED <<page, usdc, usdcSeen, trust, count>>

\* Fire-and-poll venues answer 'pending' once the transaction is admitted.
SubmitPending(t) ==
  /\ task[t].pc = "submit"
  /\ tx[task[t].tx].venue = "poll" /\ tx[task[t].tx].status \in {"sent", "ok", "failed"}
  /\ task' = [task EXCEPT ![t].pc = "poll", ![t].n = 0]
  /\ execState' = Modal("confirming", task[t].tx, task[t].comp)
  /\ UNCHANGED <<page, ledger, count>>

SubmitConfirmed(t) ==
  /\ task[t].pc = "submit"
  /\ tx[task[t].tx].venue = "sync" /\ tx[task[t].tx].status = "ok"
  /\ AfterConfirm(t)
  /\ UNCHANGED <<page, usdc, usdcSeen, trust, count>>

\* pollTxStatus stops silently when the modal is no longer its own.
PollCheck(t) ==
  /\ task[t].pc = "poll"
  /\ task' = IF execState.phase = "confirming" /\ execState.tx = task[t].tx
             THEN [task EXCEPT ![t].pc = "pollFetch"]
             ELSE [task EXCEPT ![t] = Idle]
  /\ UNCHANGED <<page, execState, ledger, count>>

PollSuccess(t) ==
  /\ task[t].pc = "pollFetch" /\ tx[task[t].tx].status = "ok"
  /\ AfterConfirm(t)
  /\ UNCHANGED <<page, usdc, usdcSeen, trust, count>>

PollFailed(t) ==
  /\ task[t].pc = "pollFetch" /\ tx[task[t].tx].status = "failed"
  /\ task' = [task EXCEPT ![t] = Idle]
  /\ execState' = ErrorModal(task[t].comp)
  /\ UNCHANGED <<page, ledger, count>>

\* Mutants: the cap is taken for a success; there is no cap.
PollCapAsDone(t) ==
  /\ task[t].pc = "pollFetch"
  /\ task' = [task EXCEPT ![t] = Idle]
  /\ execState' = Modal("done", task[t].tx, task[t].comp)
  /\ UNCHANGED <<page, ledger, count>>
PollWithoutCap(t) ==
  /\ task[t].pc = "pollFetch"
  /\ task' = [task EXCEPT ![t].pc = "poll"]
  /\ UNCHANGED <<page, execState, ledger, count>>

\* NOT_FOUND, or the RPC could not be reached.
PollNoNews(t) ==
  /\ task[t].pc = "pollFetch"
  /\ IF task[t].n + 1 < PollTries
     THEN /\ task' = [task EXCEPT ![t].pc = "poll", ![t].n = @ + 1]
          /\ UNCHANGED execState
     ELSE /\ task' = [task EXCEPT ![t] = Idle]
          /\ execState' = Modal("pending", task[t].tx, task[t].comp)
  /\ UNCHANGED <<page, ledger, count>>

-----------------------------------------------------------------------------
(* Composite: waiting for the USDC of leg 1, then leg 2.                   *)

\* buildCompositeLeg2 up to its first await.
StartLeg2(t, comp) ==
  IF comp.sb /\ ~wallet
  THEN /\ task' = [task EXCEPT ![t] = Idle]
       /\ execState' = ErrorModal(NoComp)
  ELSE /\ Enter(t, IF comp.sb THEN "sbKit" ELSE "build", "leg2", comp.req,
                IF comp.sb THEN [comp EXCEPT !.leg = 2] ELSE comp, "EURC")
       /\ execState' = Modal("leg1_confirming", NoTx, comp)

BalCheck(t) ==
  /\ task[t].pc = "balWait"
  /\ task' = IF execState.phase = "leg1_confirming"
             THEN [task EXCEPT ![t].pc = "balFetch"]
             ELSE [task EXCEPT ![t] = Idle]
  /\ UNCHANGED <<page, execState, ledger, count>>

\* Mutant: the balance held beforehand is not deducted.
LastKnownTotal(before, first) == IF first # Null /\ before # Null THEN first ELSE Null

\* usdcReceived once the loop has ended without detecting the arrival.
LastKnown(before, first) ==
  IF first # Null /\ before # Null
  THEN (IF first > before THEN first - before ELSE 0) ELSE Null

BalAnswer(t) ==
  /\ task[t].pc = "balFetch"
  /\ \E b \in {Null, usdcSeen} :
       LET comp  == task[t].comp
           first == IF task[t].first = Null THEN b ELSE task[t].first
           ref   == IF comp.before # Null THEN comp.before ELSE first
       IN  \/ /\ b # Null /\ b > ref
              /\ StartLeg2(t, [comp EXCEPT !.got = b - ref])
           \/ /\ ~(b # Null /\ b > ref) /\ task[t].n + 1 < BalTries
              /\ task' = [task EXCEPT ![t].pc = "balWait", ![t].n = @ + 1,
                                      ![t].first = first]
              /\ UNCHANGED execState
           \/ /\ ~(b # Null /\ b > ref) /\ task[t].n + 1 >= BalTries
              /\ StartLeg2(t, [comp EXCEPT !.got = LastKnown(comp.before, first)])
  /\ UNCHANGED <<page, ledger, count>>

\* Mutant: the retry of a second leg starts the swap over.
ClickRetryAnew(t) ==
  /\ execState.comp.leg = 2 /\ execState.comp.got # Null
  /\ execState.phase \in {"error", "trustline_added"}
  /\ Click(t)
  /\ DoExecute(t, execState.comp.req)
  /\ retried' = retried \cup {execState.comp.req}
  /\ UNCHANGED <<page, ledger, reqs>>

ClickRetryLeg2(t) ==
  /\ execState.comp.leg = 2 /\ execState.comp.got # Null
  /\ \/ execState.phase = "error" /\ execState.code # "trustline"
     \/ execState.phase = "trustline_added"
  /\ Click(t)
  /\ StartLeg2(t, execState.comp)
  /\ retried' = retried \cup {execState.comp.req}
  /\ UNCHANGED <<page, ledger, reqs>>

-----------------------------------------------------------------------------
(* StellarBroker: the mediator session seen from the modal.                *)

SbShow(t) ==
  /\ task[t].pc = "sbKit"
  /\ task' = [task EXCEPT ![t].pc = "sbKey"]
  /\ execState' = Modal("sb_mediator", NoTx, task[t].comp)
  /\ UNCHANGED <<page, ledger, count>>

SbKeyAnswer(t) ==
  /\ task[t].pc = "sbKey"
  /\ \/ task' = [task EXCEPT ![t].pc = "sbRun"] /\ UNCHANGED execState
     \/ task' = [task EXCEPT ![t] = Idle] /\ execState' = ErrorModal(task[t].comp)
  /\ UNCHANGED <<page, ledger, count>>

\* onProgress 'streaming' (and 'dispose-obsolete') writes the modal anew.
SbProgress(t) ==
  /\ task[t].pc \in {"sbRun", "recRun"}
  /\ execState' = Modal("sb_mediator", NoTx, task[t].comp)
  /\ UNCHANGED <<page, task, ledger, count>>

\* The mediator sold, in whole or in part, on the user's behalf.
SbSale(t) ==
  /\ Unused # {} /\ Payable(t)
  /\ task[t].leg = "leg2" => usdc >= task[t].comp.got
  /\ LET sale == [FreeTx EXCEPT !.status = "ok", !.leg = task[t].leg,
                                !.asset = task[t].asset, !.amt = task[t].comp.got,
                                !.req = task[t].req]
     IN tx' = [tx EXCEPT ![Fresh] = sale] /\ usdc' = usdc + UsdcChange(sale)

\* Mutant: a second leg whose session ended in an error is run once more.
SbEndAgain(t) ==
  /\ task[t].pc = "sbRun"
  /\ SbSale(t) \/ UNCHANGED <<tx, usdc>>
  /\ task' = [task EXCEPT ![t] = IF @.leg = "leg2" THEN [@ EXCEPT !.pc = "sbKit"] ELSE Idle]
  /\ execState' = Modal("error", NoTx, task[t].comp)
  /\ UNCHANGED <<page, usdcSeen, trust, count>>

SbEnd(t) ==
  /\ task[t].pc = "sbRun"
  /\ \/ /\ SbSale(t)
        /\ \E p \in {"sb_done", "sb_blocked", "sb_recover_needed", "error"} :
             execState' = Modal(p, NoTx, task[t].comp)
     \/ /\ UNCHANGED <<tx, usdc>>
        /\ \E p \in {"sb_blocked", "sb_recover_needed", "error"} :
             execState' = Modal(p, NoTx, task[t].comp)
  /\ task' = [task EXCEPT ![t] = Idle]
  /\ UNCHANGED <<page, usdcSeen, trust, count>>

\* recoverSbMediators, from the modal or from the page's banner.
ClickRecover(t) ==
  /\ (PageReachable /\ sbOrphanNotice) \/ execState.phase = "sb_recover_needed"
  /\ wallet /\ task[t].pc = "idle"
  /\ task' = [task EXCEPT ![t] = [Idle EXCEPT !.pc = "recKit"]]
  /\ UNCHANGED <<page, execState, ledger, count>>

RecoverShow(t) ==
  /\ task[t].pc = "recKit"
  /\ task' = [task EXCEPT ![t].pc = "recRun"]
  /\ execState' = Modal("sb_mediator", NoTx, NoComp)
  /\ UNCHANGED <<page, ledger, count>>

RecoverEnd(t) ==
  /\ task[t].pc = "recRun"
  /\ task' = [task EXCEPT ![t] = Idle]
  /\ \/ execState' = Modal("sb_done", NoTx, NoComp) /\ sbOrphanNotice' = FALSE
     \/ execState' = ErrorModal(NoComp) /\ UNCHANGED sbOrphanNotice
  /\ UNCHANGED <<target, sel, sims, wallet, ledger, count>>

-----------------------------------------------------------------------------
(* Adding a trustline, closing the modal.                                  *)

Missing == IF execState.asset \in Asset THEN execState.asset ELSE target

ClickAddTrustline(t) ==
  /\ execState.phase = "error" /\ execState.code = "trustline"
  /\ task[t].pc = "idle"
  /\ IF wallet
     THEN /\ Enter(t, "trust", "swap", NoReq, execState.comp, Missing)
          /\ execState' = [Modal("trustline_adding", NoTx, execState.comp)
                             EXCEPT !.asset = Missing]
     ELSE /\ execState' = ErrorModal(NoComp)
          /\ UNCHANGED task
  /\ UNCHANGED <<page, ledger, count>>

\* The changeTrust transaction may land although its answer is an error.
TrustlineEnd(t) ==
  /\ task[t].pc = "trust"
  /\ \/ /\ trust' = trust \cup {task[t].asset}
        /\ \E p \in {"trustline_added", "error"} :
             execState' = [Modal(p, NoTx, task[t].comp) EXCEPT !.asset = task[t].asset]
     \/ /\ execState' = [ErrorModal(task[t].comp) EXCEPT !.asset = task[t].asset]
        /\ UNCHANGED trust
  /\ task' = [task EXCEPT ![t] = Idle]
  /\ UNCHANGED <<page, tx, usdc, usdcSeen, count>>

ClickClose ==
  /\ execState.phase \in Closable
  /\ execState' = Closed
  /\ UNCHANGED <<page, task, ledger, count>>

-----------------------------------------------------------------------------
(* The network.                                                            *)

\* A transaction in flight is applied, or fails, or is never included.
LedgerApply(x) ==
  /\ tx[x].status = "sent"
  /\ \/ /\ tx' = [tx EXCEPT ![x].status = "failed"]
        /\ UNCHANGED usdc
     \/ /\ tx[x].type = "swap" => tx[x].asset \in trust
        /\ tx[x].type = "swap" /\ tx[x].leg = "leg2" => usdc >= tx[x].amt
        /\ tx' = [tx EXCEPT ![x].status = "ok"]
        /\ usdc' = usdc + UsdcChange(tx[x])
  /\ UNCHANGED <<page, execState, task, usdcSeen, trust, count>>

\* Horizon's view of an account trails the ledger.
HorizonCatchesUp ==
  /\ usdcSeen # usdc /\ usdcSeen' = usdc
  /\ UNCHANGED <<page, execState, task, tx, usdc, trust, count>>

-----------------------------------------------------------------------------
UserClick(t) ==
  \/ ClickExecute(t) \/ ClickSbFloor(t) \/ ClickResumeLeg1(t) \/ ClickConfirm(t)
  \/ ClickRetryLeg2(t) \/ ClickRecover(t) \/ ClickAddTrustline(t)

\* The next step of a handler in flight: each awaited call answers or fails.
TaskStep(t) ==
  \/ BalBeforeAnswer(t) \/ BuildReview(t) \/ BuildError(t)
  \/ Signed(t) \/ ConfirmError(t) \/ SubmitPending(t) \/ SubmitConfirmed(t)
  \/ PollCheck(t) \/ PollSuccess(t) \/ PollFailed(t) \/ PollNoNews(t)
  \/ BalCheck(t) \/ BalAnswer(t)
  \/ SbShow(t) \/ SbKeyAnswer(t) \/ SbEnd(t) \/ RecoverShow(t) \/ RecoverEnd(t)
  \/ TrustlineEnd(t)

Next ==
  \/ EditPage \/ DoSim \/ SimAnswer \/ ToggleWallet \/ ClickClose \/ HorizonCatchesUp
  \/ \E t \in Task : UserClick(t) \/ TaskStep(t) \/ SubmitFires(t) \/ SbProgress(t)
  \/ \E x \in TxId : LedgerApply(x)

Spec == Init /\ [][Next]_vars

\* fetch, the wallet and the mediator answer or fail: no handler waits for ever.
FairSpec == Spec /\ \A t \in Task : WF_vars(TaskStep(t))

-----------------------------------------------------------------------------
ModalRec == [phase : Phase, tx : TxId \cup {NoTx}, comp : CompRec,
             code : {"other", "trustline", "bad_request"}, asset : Asset \cup {"none"}]

\* Every variable has its type; the balances never go below zero.
TypeOK ==
  /\ target \in Asset /\ sel \in Selections \cup {"none"} /\ sims \in Nat
  /\ wallet \in BOOLEAN /\ sbOrphanNotice \in BOOLEAN
  /\ execState \in ModalRec
  /\ task \in [Task -> TaskRec]
  /\ tx \in [TxId -> TxRec]
  /\ usdc \in Nat /\ usdcSeen \in Nat /\ trust \in SUBSET Asset
  /\ reqs \in SUBSET Req /\ retried \in SUBSET (Req \cup {NoReq}) /\ clicks \in Nat

Landed(x) == tx[x].status = "ok" /\ tx[x].type = "swap"

\* However handlers overlap, retry and resume, one click on an Execute button
\* sells BLND at most once: the composite resumes its second leg and never
\* swaps BLND again ("NEVER doExecute(), which would re-swap BLND").
OneSalePerRequest ==
  \A x, y \in TxId :
    /\ Landed(x) /\ tx[x].leg \in SellsBlnd
    /\ Landed(y) /\ tx[y].leg \in SellsBlnd
    /\ tx[x].req = tx[y].req
    => x = y

\* A second leg is built only once the first leg of its own request has
\* landed: confirmExecute never acts on a transaction still in flight.
Leg2AfterLeg1 ==
  \A x \in TxId :
    tx[x].status # "free" /\ tx[x].leg = "leg2" =>
      \E y \in TxId : Landed(y) /\ tx[y].leg = "leg1" /\ tx[y].req = tx[x].req

\* The modal announces success only for a swap the ledger applied, and offers
\* "pending" only for one that was really fired.
VerdictIsTrue ==
  /\ execState.phase = "done" => Landed(execState.tx)
  /\ execState.phase = "pending" => tx[execState.tx].status \in {"sent", "ok", "failed"}

\* No swap of another request has moved USDC: the receipt of leg 1 is told by
\* the balance of the account, which all requests share.
Undisturbed(r) ==
  \A y \in TxId : Landed(y) /\ tx[y].req # r => UsdcChange(tx[y]) = 0

\* The second leg sells what the first one delivered, never the USDC the user
\* already held, in spite of failed and stale balance reads, unless another
\* request has moved USDC: the code takes any increase for the receipt.
Leg2SellsTheReceipt ==
  \A x \in TxId :
    tx[x].status # "free" /\ tx[x].leg = "leg2" /\ Undisturbed(tx[x].req) =>
      tx[x].amt = Proceeds

\* Handler t is at work on the phase on screen.
Serves(t) ==
  LET x == execState.tx
  IN CASE execState.phase = "signing"    -> task[t].pc = "sign" /\ task[t].tx = x
       [] execState.phase = "submitting" -> task[t].pc = "submit" /\ task[t].tx = x
       [] execState.phase = "confirming" -> task[t].pc \in {"poll", "pollFetch"} /\ task[t].tx = x
       [] execState.phase = "leg1_confirming" ->
            \/ task[t].pc \in {"balWait", "balFetch"}
            \/ task[t].pc \in {"build", "sbKit"} /\ task[t].leg = "leg2"
       [] execState.phase = "sb_mediator" -> task[t].pc \in {"sbKey", "sbRun", "recRun"}
       [] OTHER                           -> task[t].pc = "trust"

\* A phase whose modal has no button is always followed up by a handler in
\* flight for that very phase: the modal cannot be left without a way out.
BusyHasHandler ==
  execState.phase \in Busy => \E t \in Task : Serves(t)

\* exec_restore: "A state restore step is required - sign it, then we rebuild
\* the swap".  submit does not refuse the operations of what the server built.
OwnBuildsAreAllowed == execState.code # "bad_request"

\* Under the handlers' fairness a modal without buttons gives way to one that
\* can be closed or acted upon.
BusyReleases == execState.phase \in Busy ~> execState.phase \notin Busy
=============================================================================
