---------------------------- MODULE SwapModalProofs ----------------------------
(***************************************************************************)
(* What the modal says and whether it can be left, for every number of     *)
(* handlers, transactions, requests and clicks.                            *)
(***************************************************************************)
EXTENDS SwapRefinementProofs

\* A swap that was handed to the network.
Fired(x) == tx[x].type = "swap" /\ tx[x].status \in {"sent", "ok", "failed"}

Polls(t) == task[t].pc \in {"poll", "pollFetch"}

VerdictInv ==
  /\ \A x \in TxId : tx[x].venue = "poll" => tx[x].type = "swap"
  /\ \A t \in Task : Polls(t) => Fired(task[t].tx)
  /\ execState.phase = "done" => execState.tx \in TxId /\ Landed(execState.tx)
  /\ execState.phase = "pending" => execState.tx \in TxId /\ Fired(execState.tx)

-----------------------------------------------------------------------------
(* What a step may do to the transactions.                                 *)

\* A fired swap stays fired, an applied one stays applied, and restores are
\* confirmed synchronously.
TxForward ==
  /\ \A x \in TxId : (Fired(x) => Fired(x)') /\ (Landed(x) => Landed(x)')
  /\ \A x \in TxId : tx'[x].venue = "poll" => tx'[x].type = "swap"

LEMMA SameForward ==
  ASSUME VerdictInv, UNCHANGED tx PROVE TxForward
BY DEF VerdictInv, TxForward, Fired, Landed

LEMMA NewForward ==
  ASSUME TypeOK, VerdictInv, Unused # {}, NEW r, tx' = [tx EXCEPT ![Fresh] = r],
         r.venue = "poll" => r.type = "swap"
  PROVE  TxForward
<1>1. PICK x \in TxId : x = Fresh /\ tx[x].status = "free"
  BY FreshIsFree
<1>2. tx'[x] = r /\ \A y \in TxId \ {x} : tx'[y] = tx[y]
  BY <1>1 DEF TypeOK
<1>3. QED
  BY <1>1, <1>2 DEF VerdictInv, TxForward, Fired, Landed

LEMMA StatusForward ==
  ASSUME TypeOK, VerdictInv, NEW x \in TxId, NEW s, tx' = [tx EXCEPT ![x].status = s],
         \/ tx[x].status = "built" /\ s = "sent"
         \/ tx[x].status = "sent" /\ s \in {"ok", "failed"}
         \/ tx[x].type = "restore"
  PROVE  TxForward
<1>1. /\ tx'[x].status = s /\ tx'[x].type = tx[x].type /\ tx'[x].venue = tx[x].venue
      /\ \A y \in TxId \ {x} : tx'[y] = tx[y]
  BY DEF TypeOK, TxRec
<1>2. QED
  BY <1>1 DEF VerdictInv, TxForward, Fired, Landed

\* A confirmation acts on an applied transaction; a restore is spent by it.
LEMMA ConfirmedForward ==
  ASSUME SaleInv, VerdictInv, NEW t \in Task, SubmitConfirmed(t) \/ PollSuccess(t)
  PROVE  TxForward
<1>1. PICK x \in TxId : x = task[t].tx /\ AfterConfirm(t)
  BY DEF SubmitConfirmed, PollSuccess, SaleInv, OneConfirmation, Confirms, Confirming
<1>2. UNCHANGED tx \/ (tx[x].type = "restore" /\ tx' = [tx EXCEPT ![x].status = "spent"])
  BY <1>1 DEF AfterConfirm
<1>3. QED
  BY <1>2, SameForward, StatusForward DEF SaleInv, TypeInv

LEMMA HandlerForward ==
  ASSUME SaleInv, VerdictInv, NEW t \in Task, TaskStep(t) \/ SbProgress(t) \/ SubmitFires(t)
  PROVE  TxForward
<1>0. TypeOK
  BY DEF SaleInv, TypeInv
<1>1. CASE BuildReview(t)
  <2>1. PICK ty \in {"swap", "restore"}, ve \in {"sync", "poll"}, fw \in BOOLEAN :
       /\ ty = "restore" => ve = "sync"
       /\ tx' = [tx EXCEPT ![Fresh] =
            [status |-> "built", leg |-> task[t].leg, type |-> ty, venue |-> ve,
             fw |-> fw, asset |-> task[t].asset, amt |-> task[t].comp.got,
             req |-> task[t].req]]
    BY <1>1 DEF BuildReview
  <2>2. Unused # {}
    BY <1>1 DEF BuildReview
  <2> QED
    BY <1>0, <2>1, <2>2, NewForward
<1>2. CASE SbEnd(t) /\ SbSale(t)
  <2> DEFINE r == [FreeTx EXCEPT !.status = "ok", !.leg = task[t].leg,
                     !.asset = task[t].asset, !.amt = task[t].comp.got, !.req = task[t].req]
  <2>1. r.venue = "sync"
    BY DEF FreeTx
  <2> HIDE DEF r
  <2>2. tx' = [tx EXCEPT ![Fresh] = r] /\ Unused # {}
    BY <1>2 DEF SbSale, r
  <2> QED
    BY <1>0, <2>1, <2>2, NewForward
<1>3. CASE SubmitFires(t)
  <2>1. task[t].tx \in TxId
    BY <1>3 DEF SubmitFires, SaleInv, OneConfirmation, Confirms, Confirming
  <2> QED
    BY <1>0, <1>3, <2>1, StatusForward DEF SubmitFires
<1>4. CASE UNCHANGED tx
  BY <1>4, SameForward
<1> QED
  BY <1>1, <1>2, <1>3, <1>4, ConfirmedForward DEF TaskStep, SbProgress, BalBeforeAnswer,
     BuildError, Signed, ConfirmError, SubmitPending, PollCheck, PollFailed, PollNoNews, BalCheck,
     BalAnswer, SbShow, SbKeyAnswer, SbEnd, RecoverShow, RecoverEnd, TrustlineEnd, ledger

LEMMA StepForward ==
  ASSUME SaleInv, VerdictInv, [Next]_vars PROVE TxForward
<1>1. CASE \/ UNCHANGED vars \/ EditPage \/ DoSim \/ SimAnswer \/ ToggleWallet
           \/ HorizonCatchesUp \/ ClickClose \/ \E t \in Task : UserClick(t)
  <2>1. UNCHANGED tx
    BY <1>1 DEF vars, EditPage, DoSim, SimAnswer, ToggleWallet, HorizonCatchesUp, ClickClose,
       UserClick, ClickExecute, ClickSbFloor, ClickResumeLeg1, ClickConfirm, ClickRetryLeg2,
       ClickRecover, ClickAddTrustline, ledger
  <2> QED
    BY <2>1, SameForward
<1>2. ASSUME NEW x \in TxId, LedgerApply(x) PROVE TxForward
  <2>1. \E s \in {"failed", "ok"} : tx' = [tx EXCEPT ![x].status = s]
    BY <1>2 DEF LedgerApply
  <2> QED
    BY <1>2, <2>1, StatusForward DEF LedgerApply, SaleInv, TypeInv
<1> QED
  BY <1>1, <1>2, HandlerForward DEF Next

-----------------------------------------------------------------------------
(* The verdicts.                                                           *)

\* A step that leaves the modal alone, or gives no verdict.
NoVerdict == execState' = execState \/ execState'.phase \notin {"done", "pending"}

\* A handler that, after the step, polls only if it polled the same before.
PollsNoMore(t) == Polls(t)' => Polls(t) /\ task'[t].tx = task[t].tx

LEMMA VerdictKept ==
  ASSUME SaleInv, VerdictInv, TxForward, \A t \in Task : PollsNoMore(t), NoVerdict
  PROVE  VerdictInv'
<1>1. \A t \in Task : Polls(t) => task[t].tx \in TxId
  BY DEF Polls, SaleInv, OneConfirmation, Confirms, Confirming
<1>2. (\A t \in Task : Polls(t) => Fired(task[t].tx))'
  BY <1>1 DEF VerdictInv, TxForward, PollsNoMore, Fired
<1> QED
  BY <1>2 DEF VerdictInv, TxForward, NoVerdict, Fired, Landed

\* A success announced of an applied swap is true.
LEMMA GivenVerdict ==
  ASSUME SaleInv, VerdictInv, TxForward, \A t \in Task : PollsNoMore(t),
         NEW x \in TxId, execState'.phase = "done", execState'.tx = x, Landed(x)'
  PROVE  VerdictInv'
<1>1. \A t \in Task : Polls(t) => task[t].tx \in TxId
  BY DEF Polls, SaleInv, OneConfirmation, Confirms, Confirming
<1>2. (\A t \in Task : Polls(t) => Fired(task[t].tx))'
  BY <1>1 DEF VerdictInv, TxForward, PollsNoMore, Fired
<1> QED
  BY <1>2 DEF VerdictInv, TxForward, Landed

\* Handlers that do not move poll what they polled.
LEMMA OthersPoll ==
  ASSUME NEW s \in Task, task'[s] = task[s] PROVE PollsNoMore(s)
BY DEF PollsNoMore, Polls

\* What comes after a click, a balance or a confirmation gives no verdict but
\* the last one's own.
LEMMA DoExecuteSilent ==
  ASSUME TypeOK, NEW t \in Task, NEW r, DoExecute(t, r)
  PROVE  /\ NoVerdict /\ ~Polls(t)' /\ \A s \in Task \ {t} : task'[s] = task[s]
<1>1. NoVerdict
  BY DEF DoExecute, StartLeg1, NoVerdict, ErrorModal, Modal
<1>2. CASE task' = [task EXCEPT ![t] = Idle]
  BY <1>1, <1>2 DEF Polls, TypeOK, Idle
<1>3. CASE \E pc \in {"balBefore", "sbKit", "build"} : \E leg, c, a : Enter(t, pc, leg, r, c, a)
  BY <1>1, <1>3, EnterFields DEF Polls
<1> QED
  BY <1>2, <1>3 DEF DoExecute, StartLeg1

LEMMA StartLeg2Silent ==
  ASSUME TypeOK, NEW t \in Task, NEW c, StartLeg2(t, c)
  PROVE  /\ NoVerdict /\ ~Polls(t)' /\ \A s \in Task \ {t} : task'[s] = task[s]
<1>1. NoVerdict
  BY DEF StartLeg2, NoVerdict, ErrorModal, Modal
<1>2. CASE task' = [task EXCEPT ![t] = Idle]
  BY <1>1, <1>2 DEF Polls, TypeOK, Idle
<1>3. CASE \E pc \in {"sbKit", "build"} : \E leg, r, d, a : Enter(t, pc, leg, r, d, a)
  BY <1>1, <1>3, EnterFields DEF Polls
<1> QED
  BY <1>2, <1>3 DEF StartLeg2

LEMMA ClickSilent ==
  ASSUME TypeOK, NEW t \in Task, UserClick(t)
  PROVE  NoVerdict /\ \A s \in Task : PollsNoMore(s)
<1>1. CASE ClickExecute(t)
  BY <1>1, DoExecuteSilent, OthersPoll DEF ClickExecute, PollsNoMore
<1>2. CASE ClickSbFloor(t) \/ ClickResumeLeg1(t) \/ ClickRecover(t) \/ ClickConfirm(t)
  <2>1. NoVerdict
    BY <1>2 DEF ClickSbFloor, ClickResumeLeg1, ClickRecover, ClickConfirm, StartLeg1, NoVerdict,
       TypeOK, ModalRec
  <2>2. CASE \E pc \in {"build", "balBefore"} : \E leg, r, c, a : Enter(t, pc, leg, r, c, a)
    BY <2>1, <2>2, EnterFields, OthersPoll DEF PollsNoMore, Polls
  <2>3. CASE ClickRecover(t)
    BY <2>1, <2>3, OthersPoll DEF ClickRecover, PollsNoMore, Polls, TypeOK, Idle
  <2>4. CASE ClickConfirm(t)
    <3>1. PICK rec : task' = [task EXCEPT ![t] = rec] /\ rec.pc = "sign"
      <4> DEFINE rec == [Idle EXCEPT !.pc = "sign", !.leg = tx[execState.tx].leg,
                           !.req = tx[execState.tx].req, !.tx = execState.tx,
                           !.comp = execState.comp, !.asset = tx[execState.tx].asset]
      <4>1. rec.pc = "sign"
        BY DEF Idle
      <4>2. task' = [task EXCEPT ![t] = rec]
        BY <2>4 DEF ClickConfirm
      <4> HIDE DEF rec
      <4> QED
        BY <4>1, <4>2
    <3> QED
      BY <2>1, <3>1, OthersPoll DEF PollsNoMore, Polls, TypeOK
  <2> QED
    BY <1>2, <2>2, <2>3, <2>4 DEF ClickSbFloor, ClickResumeLeg1, StartLeg1
<1>3. CASE ClickRetryLeg2(t)
  BY <1>3, StartLeg2Silent, OthersPoll DEF ClickRetryLeg2, PollsNoMore
<1>4. CASE ClickAddTrustline(t)
  <2>1. NoVerdict
    BY <1>4 DEF ClickAddTrustline, NoVerdict, ErrorModal, Modal
  <2>2. UNCHANGED task \/ (task'[t].pc = "trust" /\ \A s \in Task \ {t} : task'[s] = task[s])
    BY <1>4, EnterFields DEF ClickAddTrustline
  <2> QED
    BY <2>1, <2>2, OthersPoll DEF PollsNoMore, Polls
<1> QED
  BY <1>1, <1>2, <1>3, <1>4 DEF UserClick

\* The steps of a handler that give no verdict and start no poll.
LEMMA HandlerSilent ==
  ASSUME TypeOK, NEW t \in Task,
         \/ BalBeforeAnswer(t) \/ BuildReview(t) \/ BuildError(t) \/ Signed(t) \/ ConfirmError(t)
         \/ PollCheck(t) \/ PollFailed(t) \/ BalCheck(t) \/ BalAnswer(t)
         \/ SbShow(t) \/ SbKeyAnswer(t) \/ SbProgress(t) \/ SbEnd(t)
         \/ RecoverShow(t) \/ RecoverEnd(t) \/ TrustlineEnd(t)
  PROVE  NoVerdict /\ \A s \in Task : PollsNoMore(s)
<1>1. CASE BalAnswer(t) /\ \E c : StartLeg2(t, c)
  BY <1>1, StartLeg2Silent, OthersPoll DEF PollsNoMore
<1>2. CASE BalAnswer(t) /\ ~\E c : StartLeg2(t, c)
  <2>1. NoVerdict
    BY <1>2 DEF BalAnswer, NoVerdict
  <2>2. task'[t].pc = "balWait" /\ \A s \in Task \ {t} : task'[s] = task[s]
    BY <1>2 DEF BalAnswer, TypeOK, TaskRec
  <2> QED
    BY <2>1, <2>2, OthersPoll DEF PollsNoMore, Polls
<1>3. ASSUME ~BalAnswer(t) PROVE NoVerdict
  <2>1. CASE BuildError(t) \/ ConfirmError(t)
    BY <2>1, ErrorPhase DEF BuildError, ConfirmError, NoVerdict
  <2> QED
    BY <1>3, <2>1 DEF BalBeforeAnswer, BuildReview, Signed, PollCheck, PollFailed, BalCheck,
       SbShow, SbKeyAnswer, SbProgress, SbEnd, RecoverShow, RecoverEnd, TrustlineEnd, NoVerdict,
       Modal, ErrorModal
<1>4. ASSUME ~BalAnswer(t) PROVE \A s \in Task : PollsNoMore(s)
  <2>1. CASE task' = [task EXCEPT ![t] = Idle]
    BY <2>1, OthersPoll DEF PollsNoMore, Polls, TypeOK, Idle
  <2>2. CASE UNCHANGED task
    BY <2>2, OthersPoll
  <2>3. CASE BalBeforeAnswer(t)
    BY <2>3, OthersPoll DEF BalBeforeAnswer, PollsNoMore, Polls, TypeOK, TaskRec
  <2>4. CASE Signed(t) \/ BalCheck(t) \/ SbShow(t) \/ SbKeyAnswer(t) \/ RecoverShow(t)
    BY <2>1, <2>4, OthersPoll DEF Signed, BalCheck, SbShow, SbKeyAnswer, RecoverShow, PollsNoMore,
       Polls, TypeOK, TaskRec
  <2>5. CASE PollCheck(t)
    BY <2>1, <2>5, OthersPoll DEF PollCheck, PollsNoMore, Polls, TypeOK, TaskRec
  <2> QED
    BY <1>4, <2>1, <2>2, <2>3, <2>4, <2>5 DEF BuildReview, BuildError, ConfirmError, PollFailed,
       SbProgress, SbEnd, RecoverEnd, TrustlineEnd
<1> QED
  BY <1>1, <1>2, <1>3, <1>4

\* What confirmExecute does with a swap that landed is a true verdict.
LEMMA ConfirmedVerdict ==
  ASSUME SaleInv, VerdictInv, NEW t \in Task, SubmitConfirmed(t) \/ PollSuccess(t)
  PROVE  VerdictInv'
<1>0. TypeOK /\ TxForward
  BY ConfirmedForward DEF SaleInv, TypeInv
<1>1. PICK x \in TxId : x = task[t].tx /\ tx[x].status = "ok" /\ AfterConfirm(t)
  BY DEF SubmitConfirmed, PollSuccess, SaleInv, OneConfirmation, Confirms, Confirming
<1>2. CASE DoExecute(t, task[t].req)
  BY <1>0, <1>2, DoExecuteSilent, OthersPoll, VerdictKept DEF PollsNoMore
<1>3. CASE /\ task' = [task EXCEPT ![t].pc = "balWait", ![t].n = 0]
           /\ execState' = Modal("leg1_confirming", NoTx, task[t].comp)
  <2>1. \A s \in Task : PollsNoMore(s)
    BY <1>0, <1>3, OthersPoll DEF PollsNoMore, Polls, TypeOK, TaskRec
  <2>2. NoVerdict
    BY <1>3 DEF NoVerdict, Modal
  <2> QED
    BY <1>0, <2>1, <2>2, VerdictKept
<1>4. CASE /\ task' = [task EXCEPT ![t] = Idle] /\ UNCHANGED tx /\ tx[x].type = "swap"
           /\ execState' = Modal("done", x, task[t].comp)
  <2>1. \A s \in Task : PollsNoMore(s)
    BY <1>0, <1>4, OthersPoll DEF PollsNoMore, Polls, TypeOK, Idle
  <2>2. execState'.phase = "done" /\ execState'.tx = x /\ Landed(x)'
    BY <1>1, <1>4 DEF Modal, Landed
  <2> QED
    BY <1>0, <2>1, <2>2, GivenVerdict
<1> QED
  BY <1>1, <1>2, <1>3, <1>4 DEF AfterConfirm

\* A transaction admitted for polling is a swap that was fired, and the poll
\* that runs out of tries says so.
LEMMA PollVerdict ==
  ASSUME SaleInv, VerdictInv, NEW t \in Task, SubmitPending(t) \/ PollNoNews(t)
  PROVE  VerdictInv'
<1>0. TypeOK /\ TxForward /\ UNCHANGED tx
  BY SameForward DEF SaleInv, TypeInv, SubmitPending, PollNoNews, ledger
<1>1. PICK x \in TxId : x = task[t].tx
  BY DEF SubmitPending, PollNoNews, SaleInv, OneConfirmation, Confirms, Confirming
<1>2. Fired(x) /\ Fired(x)'
  BY <1>0, <1>1 DEF SubmitPending, PollNoNews, VerdictInv, Polls, Fired
<1>3. /\ \A s \in Task \ {t} : task'[s] = task[s]
      /\ Polls(t)' => task'[t].tx = x
  BY <1>0, <1>1 DEF SubmitPending, PollNoNews, TypeOK, TaskRec, Polls, Idle
<1>4. \/ execState' = execState
      \/ execState'.phase = "confirming"
      \/ execState'.phase = "pending" /\ execState'.tx = x
  BY <1>1 DEF SubmitPending, PollNoNews, Modal
<1>5. \A s \in Task : Polls(s)' => Fired(task[s].tx)'
  BY <1>0, <1>1, <1>2, <1>3 DEF VerdictInv, Polls, Fired
<1>6. execState'.phase = "done" => execState'.tx \in TxId /\ Landed(execState.tx)'
  BY <1>0, <1>4 DEF VerdictInv, Landed
<1>7. execState'.phase = "pending" => execState'.tx \in TxId /\ Fired(execState.tx)'
  BY <1>0, <1>2, <1>4 DEF VerdictInv, Fired
<1> QED
  BY <1>0, <1>5, <1>6, <1>7 DEF VerdictInv, TxForward

LEMMA VerdictStep ==
  ASSUME SaleInv, VerdictInv, [Next]_vars PROVE VerdictInv'
<1>0. TypeOK /\ TxForward
  BY StepForward DEF SaleInv, TypeInv
<1>1. CASE \/ UNCHANGED vars \/ EditPage \/ DoSim \/ SimAnswer \/ ToggleWallet
           \/ HorizonCatchesUp \/ ClickClose \/ \E x \in TxId : LedgerApply(x)
           \/ \E t \in Task : SubmitFires(t)
  <2>1. UNCHANGED task /\ execState' \in {execState, Closed}
    BY <1>1 DEF vars, EditPage, DoSim, SimAnswer, ToggleWallet, HorizonCatchesUp, ClickClose,
       LedgerApply, SubmitFires
  <2>2. NoVerdict
    BY <2>1 DEF NoVerdict, Closed, Modal
  <2> QED
    BY <1>0, <2>1, <2>2, OthersPoll, VerdictKept
<1>2. ASSUME NEW t \in Task, UserClick(t) PROVE VerdictInv'
  BY <1>0, <1>2, ClickSilent, VerdictKept
<1>3. ASSUME NEW t \in Task, TaskStep(t) \/ SbProgress(t) PROVE VerdictInv'
  BY <1>0, <1>3, HandlerSilent, VerdictKept, ConfirmedVerdict, PollVerdict DEF TaskStep
<1> QED
  BY <1>1, <1>2, <1>3 DEF Next

\* However handlers overlap, the modal says "done" only of a swap the ledger
\* applied, and "pending" only of one that was handed to the network.
THEOREM VerdictsTrue ==
  ASSUME NoLeg2Restore PROVE Spec => []VerdictIsTrue
<1>1. Init => SaleInv /\ VerdictInv
  <2>1. SUFFICES ASSUME Init PROVE SaleInv /\ VerdictInv
    OBVIOUS
  <2>2. SaleInv
    BY <2>1, FlowInit DEF FlowInv
  <2>3. VerdictInv
    BY <2>1 DEF Init, Idle, FreeTx, Closed, Modal, VerdictInv, Polls
  <2> QED
    BY <2>2, <2>3
<1>2. SaleInv /\ VerdictInv /\ [Next]_vars => (SaleInv /\ VerdictInv)'
  BY SaleStep, VerdictStep
<1>3. VerdictInv => VerdictIsTrue
  BY DEF VerdictInv, VerdictIsTrue, Fired
<1> QED
  BY <1>1, <1>2, <1>3, PTL DEF Spec

-----------------------------------------------------------------------------
(* The phases without a button.                                            *)

\* submit lets no restore through, so none is ever confirmed.
RestoresRefused == RestoreOp \notin ALLOWED_OP_TYPES

\* What the step of handler t may do to the phase on screen.
Relays(t) ==
  /\ \A s \in Task \ {t} : task'[s] = task[s]
  /\ \/ execState'.phase \notin Busy
     \/ Serves(t)'
     \/ execState' = execState /\ (Serves(t) => Serves(t)')

LEMMA RelayStep ==
  ASSUME BusyHasHandler, NEW t \in Task, Relays(t) PROVE BusyHasHandler'
<1>1. SUFFICES ASSUME execState'.phase \in Busy, execState' = execState, Serves(t) => Serves(t)'
               PROVE  \E s \in Task : Serves(s)'
  BY DEF BusyHasHandler, Relays
<1>2. PICK s \in Task : Serves(s)
  BY <1>1 DEF BusyHasHandler
<1>3. CASE s # t
  <2>1. task'[s] = task[s]
    BY <1>3 DEF Relays
  <2>2. Serves(s)'
    BY <1>1, <1>2, <2>1 DEF Serves
  <2> QED
    BY <2>2
<1> QED
  BY <1>1, <1>2, <1>3

\* A handler between two tasks serves no phase.
LEMMA IdleServes == ASSUME NEW t \in Task, task[t].pc = "idle" PROVE ~Serves(t)
BY DEF Serves

\* buildCompositeLeg2 is at work on the phase it shows, or leaves an error.
LEMMA StartLeg2Relays ==
  ASSUME TypeOK, NEW t \in Task, NEW c, StartLeg2(t, c) PROVE Relays(t)
<1>1. CASE task' = [task EXCEPT ![t] = Idle] /\ execState' = ErrorModal(NoComp)
  <2>1. execState'.phase \notin Busy
    BY <1>1 DEF ErrorModal, Modal, Busy
  <2> QED
    BY <1>1, <2>1 DEF Relays, TypeOK
<1>2. CASE /\ \E pc \in {"sbKit", "build"} : \E r, d, a : Enter(t, pc, "leg2", r, d, a)
           /\ execState' = Modal("leg1_confirming", NoTx, c)
  <2>1. execState'.phase = "leg1_confirming"
    BY <1>2 DEF Modal
  <2>2. /\ task'[t].pc \in {"sbKit", "build"} /\ task'[t].leg = "leg2"
        /\ \A s \in Task \ {t} : task'[s] = task[s]
    BY <1>2, EnterFields
  <2> QED
    BY <2>1, <2>2 DEF Relays, Serves
<1> QED
  BY <1>1, <1>2 DEF StartLeg2

LEMMA ClickRelays ==
  ASSUME TypeOK, NEW t \in Task, UserClick(t) PROVE Relays(t)
<1>1. ClickAddTrustline(t) \/ ~Serves(t)
  BY IdleServes DEF UserClick, ClickExecute, ClickSbFloor, ClickResumeLeg1, ClickConfirm,
     ClickRetryLeg2, ClickRecover, ClickAddTrustline, Click
<1>2. CASE ClickExecute(t)
  <2>1. PICK r : DoExecute(t, r)
    BY <1>2 DEF ClickExecute
  <2>2. execState' = execState \/ execState'.phase \notin Busy
    BY <2>1 DEF DoExecute, StartLeg1, ErrorModal, Modal, Busy
  <2> QED
    BY <1>1, <1>2, <2>1, <2>2, DoExecuteSilent, IdleServes DEF Relays, ClickExecute, Click
<1>3. CASE ClickSbFloor(t) \/ ClickResumeLeg1(t) \/ ClickRecover(t)
  <2>1. execState' = execState /\ task[t].pc = "idle"
    BY <1>3 DEF ClickSbFloor, ClickResumeLeg1, ClickRecover, StartLeg1, Click
  <2>2. \A s \in Task \ {t} : task'[s] = task[s]
    BY <1>3 DEF ClickSbFloor, ClickResumeLeg1, ClickRecover, StartLeg1, Enter, TypeOK
  <2> QED
    BY <2>1, <2>2, IdleServes DEF Relays
<1>4. CASE ClickConfirm(t)
  <2> DEFINE rec == [Idle EXCEPT !.pc = "sign", !.leg = tx[execState.tx].leg,
                       !.req = tx[execState.tx].req, !.tx = execState.tx,
                       !.comp = execState.comp, !.asset = tx[execState.tx].asset]
  <2>1. rec.pc = "sign" /\ rec.tx = execState.tx
    BY DEF Idle
  <2>2. task' = [task EXCEPT ![t] = rec]
    BY <1>4 DEF ClickConfirm
  <2> HIDE DEF rec
  <2>3. execState'.phase = "signing" /\ execState'.tx = execState.tx
    BY <1>4 DEF ClickConfirm, TypeOK, ModalRec
  <2> QED
    BY <2>1, <2>2, <2>3 DEF Relays, Serves, TypeOK
<1>5. CASE ClickRetryLeg2(t)
  BY <1>5, StartLeg2Relays DEF ClickRetryLeg2
<1>6. CASE ClickAddTrustline(t) /\ wallet
  <2>1. execState' = [Modal("trustline_adding", NoTx, execState.comp) EXCEPT !.asset = Missing]
    BY <1>6 DEF ClickAddTrustline
  <2>2. execState'.phase = "trustline_adding"
    BY <2>1 DEF Modal
  <2>3. task'[t].pc = "trust" /\ \A s \in Task \ {t} : task'[s] = task[s]
    BY <1>6, EnterFields DEF ClickAddTrustline
  <2> QED
    BY <2>2, <2>3 DEF Relays, Serves
<1>7. CASE ClickAddTrustline(t) /\ ~wallet
  <2>1. UNCHANGED task /\ execState'.phase \notin Busy
    BY <1>7 DEF ClickAddTrustline, ErrorModal, Modal, Busy
  <2> QED
    BY <2>1 DEF Relays
<1> QED
  BY <1>2, <1>3, <1>4, <1>5, <1>6, <1>7 DEF UserClick

\* A handler that ends leaves a phase one can leave.
LEMMA EndRelays ==
  ASSUME TypeOK, NEW t \in Task, task' = [task EXCEPT ![t] = Idle], execState'.phase \notin Busy
  PROVE  Relays(t)
BY DEF Relays, TypeOK

\* A handler that goes on serves the phase it shows.
LEMMA GoOnRelays ==
  ASSUME TypeOK, NEW t \in Task,
         \/ Signed(t) \/ SubmitPending(t) \/ PollCheck(t) \/ BalCheck(t) \/ BalBeforeAnswer(t)
         \/ SbShow(t) \/ RecoverShow(t) \/ SbProgress(t)
  PROVE  Relays(t)
<1>1. \A s \in Task \ {t} : task'[s] = task[s]
  BY DEF Signed, SubmitPending, PollCheck, BalCheck, BalBeforeAnswer, SbShow, RecoverShow,
     SbProgress, TypeOK
<1>2. CASE Signed(t) \/ SubmitPending(t)
  <2>1. task'[t].pc \in {"submit", "poll"} /\ task'[t].tx = task[t].tx
        /\ (task'[t].pc = "submit" <=> Signed(t))
    BY <1>2 DEF Signed, SubmitPending, TypeOK, TaskRec
  <2>2. /\ Signed(t) => execState'.phase = "submitting"
        /\ ~Signed(t) => execState'.phase = "confirming"
        /\ execState'.tx = task[t].tx
    BY <1>2 DEF Signed, SubmitPending, Modal
  <2> QED
    BY <1>1, <2>1, <2>2 DEF Relays, Serves
<1>3. CASE PollCheck(t) \/ BalCheck(t) \/ BalBeforeAnswer(t)
  <2>1. execState' = execState
    BY <1>3 DEF PollCheck, BalCheck, BalBeforeAnswer
  <2>2. CASE PollCheck(t)
    BY <1>1, <2>1, <2>2 DEF PollCheck, Relays, Serves, TypeOK, TaskRec
  <2>3. CASE BalCheck(t)
    BY <1>1, <2>1, <2>3 DEF BalCheck, Relays, Serves, TypeOK, TaskRec
  <2>4. CASE BalBeforeAnswer(t)
    BY <1>1, <2>1, <2>4 DEF BalBeforeAnswer, Relays, Serves
  <2> QED
    BY <1>3, <2>2, <2>3, <2>4
<1>4. CASE SbShow(t) \/ RecoverShow(t) \/ SbProgress(t)
  <2>1. execState'.phase = "sb_mediator"
    BY <1>4 DEF SbShow, RecoverShow, SbProgress, Modal
  <2>2. task'[t].pc \in {"sbKey", "sbRun", "recRun"}
    BY <1>4 DEF SbShow, RecoverShow, SbProgress, TypeOK, TaskRec
  <2> QED
    BY <1>1, <2>1, <2>2 DEF Relays, Serves
<1> QED
  BY <1>2, <1>3, <1>4

LEMMA ConfirmedRelays ==
  ASSUME RestoresRefused, SaleInv, NEW t \in Task, SubmitConfirmed(t) \/ PollSuccess(t)
  PROVE  Relays(t)
<1>0. TypeOK
  BY DEF SaleInv, TypeInv
<1>1. PICK x \in TxId : x = task[t].tx /\ tx[x].status = "ok" /\ AfterConfirm(t)
  BY DEF SubmitConfirmed, PollSuccess, SaleInv, OneConfirmation, Confirms, Confirming
<1>2. tx[x].type # "restore"
  BY <1>1 DEF SaleInv, OneConfirmation, RestoresRefused
<1>3. CASE /\ task' = [task EXCEPT ![t].pc = "balWait", ![t].n = 0]
           /\ execState' = Modal("leg1_confirming", NoTx, task[t].comp)
  <2>1. execState'.phase = "leg1_confirming" /\ task'[t].pc = "balWait"
    BY <1>0, <1>3 DEF Modal, TypeOK, TaskRec
  <2> QED
    BY <1>0, <1>3, <2>1 DEF Relays, Serves, TypeOK
<1>4. CASE /\ task' = [task EXCEPT ![t] = Idle]
           /\ execState' = Modal("done", x, task[t].comp)
  <2>1. execState'.phase \notin Busy
    BY <1>4 DEF Modal, Busy
  <2> QED
    BY <1>0, <1>4, <2>1, EndRelays
<1> QED
  BY <1>1, <1>2, <1>3, <1>4 DEF AfterConfirm

LEMMA HandlerRelays ==
  ASSUME RestoresRefused, SaleInv, NEW t \in Task, TaskStep(t) \/ SbProgress(t)
  PROVE  Relays(t)
<1>0. TypeOK
  BY DEF SaleInv, TypeInv
<1>1. CASE BuildReview(t) \/ BuildError(t) \/ ConfirmError(t) \/ PollFailed(t) \/ SbEnd(t)
           \/ RecoverEnd(t) \/ TrustlineEnd(t)
  <2>1. execState'.phase \in {"review", "error", "sb_done", "sb_blocked", "sb_recover_needed",
                              "trustline_added"}
    <3>1. CASE BuildError(t) \/ ConfirmError(t)
      BY <3>1, ErrorPhase DEF BuildError, ConfirmError
    <3> QED
      BY <1>1, <3>1 DEF BuildReview, PollFailed, SbEnd, RecoverEnd, TrustlineEnd, Modal, ErrorModal
  <2>2. task' = [task EXCEPT ![t] = Idle]
    BY <1>1 DEF BuildReview, BuildError, ConfirmError, PollFailed, SbEnd, RecoverEnd, TrustlineEnd
  <2> QED
    BY <1>0, <2>1, <2>2, EndRelays DEF Busy
<1>2. CASE PollNoNews(t)
  <2>1. CASE /\ task' = [task EXCEPT ![t].pc = "poll", ![t].n = @ + 1] /\ execState' = execState
    BY <1>0, <1>2, <2>1 DEF PollNoNews, Relays, Serves, TypeOK, TaskRec
  <2>2. CASE /\ task' = [task EXCEPT ![t] = Idle]
             /\ execState' = Modal("pending", task[t].tx, task[t].comp)
    BY <1>0, <2>2, EndRelays DEF Modal, Busy
  <2> QED
    BY <1>2, <2>1, <2>2 DEF PollNoNews
<1>3. CASE SbKeyAnswer(t)
  <2>1. CASE task' = [task EXCEPT ![t].pc = "sbRun"] /\ execState' = execState
    BY <1>0, <1>3, <2>1 DEF SbKeyAnswer, Relays, Serves, TypeOK, TaskRec
  <2>2. CASE task' = [task EXCEPT ![t] = Idle] /\ execState' = ErrorModal(task[t].comp)
    BY <1>0, <2>2, EndRelays DEF ErrorModal, Modal, Busy
  <2> QED
    BY <1>3, <2>1, <2>2 DEF SbKeyAnswer
<1>4. CASE BalAnswer(t) /\ \E c : StartLeg2(t, c)
  BY <1>0, <1>4, StartLeg2Relays
<1>5. CASE BalAnswer(t) /\ ~\E c : StartLeg2(t, c)
  <2>1. PICK first : task' = [task EXCEPT ![t].pc = "balWait", ![t].n = @ + 1, ![t].first = first]
    BY <1>5 DEF BalAnswer
  <2>2. task[t].pc = "balFetch" /\ execState' = execState
    BY <1>5 DEF BalAnswer
  <2> QED
    BY <1>0, <2>1, <2>2 DEF Relays, Serves, TypeOK, TaskRec
<1> QED
  BY <1>0, <1>1, <1>2, <1>3, <1>4, <1>5, GoOnRelays, ConfirmedRelays DEF TaskStep

LEMMA BusyStep ==
  ASSUME RestoresRefused, SaleInv, BusyHasHandler, [Next]_vars PROVE BusyHasHandler'
<1>1. CASE \/ UNCHANGED vars \/ EditPage \/ DoSim \/ SimAnswer \/ ToggleWallet
           \/ HorizonCatchesUp \/ ClickClose \/ \E x \in TxId : LedgerApply(x)
           \/ \E t \in Task : SubmitFires(t)
  <2>1. UNCHANGED task /\ execState' \in {execState, Closed}
    BY <1>1 DEF vars, EditPage, DoSim, SimAnswer, ToggleWallet, HorizonCatchesUp, ClickClose,
       LedgerApply, SubmitFires
  <2>2. Closed.phase \notin Busy
    BY DEF Closed, Modal, Busy
  <2> QED
    BY <2>1, <2>2 DEF BusyHasHandler, Serves
<1>2. ASSUME NEW t \in Task, UserClick(t) \/ TaskStep(t) \/ SbProgress(t) PROVE BusyHasHandler'
  BY <1>2, ClickRelays, HandlerRelays, RelayStep DEF SaleInv, TypeInv
<1> QED
  BY <1>1, <1>2 DEF Next

\* A phase that offers no button is always served by a handler in flight, so
\* the modal can be left.  It needs that submit refuses restores: confirmExecute
\* answers a confirmed one with doExecute, which shows no phase of its own
\* before the build has answered.
THEOREM BusyServed ==
  ASSUME RestoresRefused PROVE Spec => []BusyHasHandler
<1>1. NoLeg2Restore
  BY DEF RestoresRefused, NoLeg2Restore
<1>2. Init => SaleInv /\ BusyHasHandler
  <2>1. Init => execState.phase \notin Busy
    BY DEF Init, Closed, Modal, Busy
  <2> QED
    BY <2>1, FlowInit DEF FlowInv, BusyHasHandler
<1>3. SaleInv /\ BusyHasHandler /\ [Next]_vars => (SaleInv /\ BusyHasHandler)'
  BY <1>1, SaleStep, BusyStep
<1> QED
  BY <1>2, <1>3, PTL DEF Spec
=============================================================================
