------------------------- MODULE SwapRefinementProofs -------------------------
(***************************************************************************)
(* The order of the legs, what the second one sells, and the refinement of *)
(* Settlement, for every number of handlers, transactions, requests and    *)
(* clicks.                                                                 *)
(***************************************************************************)
EXTENDS SwapRefinement, SwapExecutionProofs

\* The requests whose first leg has landed.
Paid == {tx[y].req : y \in {y \in TxId : Landed(y) /\ tx[y].leg = "leg1"}}

\* What a handler still building knows of its composite.
Builds(t) ==
  /\ task[t].pc \in {"balBefore", "build"} =>
       /\ task[t].leg = "swap" => task[t].comp.leg = 0
       /\ task[t].leg = "leg1" => task[t].comp.req = task[t].req
  /\ task[t].pc = "balBefore" => task[t].leg = "leg1"

\* A context at its first leg belongs to the transaction being confirmed.
FirstLegOf(c, x) == c.leg = 1 => tx[x].leg = "leg1" /\ tx[x].req = c.req

\* A handler, or a modal, of a second leg works for a request already paid.
SecondLegTask(t) ==
  /\ task[t].pc # "idle" /\ task[t].leg = "leg2" => task[t].req \in Paid
  /\ task[t].pc \in {"build", "sbKit", "sbKey", "sbRun"} /\ task[t].leg = "leg2" =>
       task[t].comp.req = task[t].req
  /\ task[t].pc \in {"balWait", "balFetch"} => task[t].comp.req \in Paid
  /\ task[t].pc # "idle" /\ task[t].comp.leg = 2 => task[t].comp.req \in Paid

HandlerLegs(t) ==
  /\ Builds(t) /\ SecondLegTask(t)
  /\ Confirms(t) => FirstLegOf(task[t].comp, task[t].tx)

ModalLegs ==
  /\ execState.comp.leg = 2 => execState.comp.req \in Paid
  /\ execState.phase = "review" => FirstLegOf(execState.comp, execState.tx)

LegInv ==
  /\ \A t \in Task : HandlerLegs(t)
  /\ ModalLegs
  /\ Leg2AfterLeg1

-----------------------------------------------------------------------------
(* Transactions keep their leg and their request, and stay applied.        *)

TxKept ==
  \A x \in TxId :
    /\ tx[x].status # "free" => /\ tx'[x].status # "free"
                                /\ tx'[x].leg = tx[x].leg /\ tx'[x].req = tx[x].req
    /\ Landed(x) => Landed(x)'

\* A transaction that takes the place of a free one touches no other.
LEMMA NewTxKept ==
  ASSUME TypeOK, Unused # {}, NEW r \in TxRec, tx' = [tx EXCEPT ![Fresh] = r],
         r.status # "free"
  PROVE  /\ TxKept /\ Fresh \in TxId /\ tx[Fresh].status = "free"
         /\ tx'[Fresh] = r /\ \A y \in TxId \ {Fresh} : tx'[y] = tx[y]
<1>1. PICK x \in TxId : x = Fresh /\ tx[x].status = "free"
  BY FreshIsFree
<1>2. tx'[x] = r /\ \A y \in TxId \ {x} : tx'[y] = tx[y]
  BY <1>1 DEF TypeOK
<1>3. QED
  BY <1>1, <1>2 DEF TxKept, Landed

\* A change of status that undoes no application keeps what was paid.
LEMMA StatusKept ==
  ASSUME TypeOK, NEW x \in TxId, NEW s, s # "free", tx[x].status # "ok" \/ tx[x].type = "restore",
         tx' = [tx EXCEPT ![x].status = s]
  PROVE  /\ TxKept
         /\ tx'[x] = [tx[x] EXCEPT !.status = s] /\ \A y \in TxId \ {x} : tx'[y] = tx[y]
<1>1. tx'[x] = [tx[x] EXCEPT !.status = s] /\ \A y \in TxId \ {x} : tx'[y] = tx[y]
  BY DEF TypeOK
<1>2. /\ tx'[x].status = s /\ tx'[x].leg = tx[x].leg /\ tx'[x].req = tx[x].req
      /\ tx'[x].type = tx[x].type
  BY <1>1 DEF TypeOK, TxRec
<1>3. QED
  BY <1>1, <1>2 DEF TxKept, Landed

\* What was paid stays paid.
LEMMA PaidKept ==
  ASSUME TxKept PROVE Paid \subseteq Paid'
BY DEF TxKept, Paid, Landed

\* A handler that does not move keeps what it knows.
LEMMA OtherHandler ==
  ASSUME SaleInv, TxKept, NEW s \in Task, HandlerLegs(s), task'[s] = task[s]
  PROVE  HandlerLegs(s)'
<1>1. Builds(s)'
  BY DEF HandlerLegs, Builds
<1>2. SecondLegTask(s)'
  BY PaidKept DEF HandlerLegs, SecondLegTask
<1>3. (Confirms(s) => FirstLegOf(task[s].comp, task[s].tx))'
  BY DEF HandlerLegs, FirstLegOf, Confirms, SaleInv, OneConfirmation, TxKept
<1>4. QED
  BY <1>1, <1>2, <1>3 DEF HandlerLegs

\* So does a modal left alone.
LEMMA SameModal ==
  ASSUME SaleInv, TxKept, ModalLegs, UNCHANGED execState
  PROVE  ModalLegs'
BY PaidKept DEF ModalLegs, FirstLegOf, SaleInv, OneConfirmation, TxKept

\* A modal that offers no build knows no more than its context.
LEMMA PlainModal ==
  ASSUME execState'.phase # "review",
         execState'.comp.leg = 2 => execState'.comp.req \in Paid'
  PROVE  ModalLegs'
BY DEF ModalLegs

\* A handler that ended knows nothing.
LEMMA IdleLegs ==
  ASSUME TypeOK, NEW t \in Task, task' = [task EXCEPT ![t] = Idle]
  PROVE  HandlerLegs(t)' /\ \A s \in Task \ {t} : task'[s] = task[s]
<1>1. task'[t].pc = "idle" /\ \A s \in Task \ {t} : task'[s] = task[s]
  BY DEF TypeOK, Idle
<1>2. QED
  BY <1>1 DEF HandlerLegs, Builds, SecondLegTask, Confirms, Confirming

\* The invariant follows from what the handler that moved, the modal and the
\* second legs built know.
LEMMA OneHandler ==
  ASSUME SaleInv, LegInv, TxKept, NEW t \in Task, HandlerLegs(t)', ModalLegs',
         \A s \in Task \ {t} : task'[s] = task[s],
         \A x \in TxId : tx'[x].status # "free" /\ tx'[x].leg = "leg2" =>
           tx[x].status # "free" \/ tx'[x].req \in Paid'
  PROVE  LegInv'
<1>1. \A s \in Task : HandlerLegs(s)'
  BY OtherHandler DEF LegInv
<1>2. Leg2AfterLeg1'
  <2>1. SUFFICES ASSUME NEW x \in TxId, tx'[x].status # "free", tx'[x].leg = "leg2"
                 PROVE  tx'[x].req \in Paid'
    BY DEF Leg2AfterLeg1, Paid
  <2>2. CASE tx[x].status # "free"
    <3>1. tx[x].req \in Paid /\ tx'[x].req = tx[x].req
      BY <2>1, <2>2 DEF LegInv, Leg2AfterLeg1, Paid, TxKept
    <3>2. QED
      BY <3>1, PaidKept
  <2>3. QED
    BY <2>1, <2>2
<1>3. QED
  BY <1>1, <1>2 DEF LegInv

-----------------------------------------------------------------------------
(* The order of the legs is kept by every step.                            *)

\* A handler entered with a context knows that context.
LEMMA EnterComp ==
  ASSUME TypeOK, NEW t \in Task, NEW pc, NEW leg, NEW r, NEW c, NEW a, Enter(t, pc, leg, r, c, a)
  PROVE  task'[t].comp = c
<1> DEFINE entered == [Idle EXCEPT !.pc = pc, !.leg = leg, !.req = r, !.comp = c, !.asset = a]
<1>1. entered.comp = c
  BY DEF Idle
<1> HIDE DEF entered
<1>2. task' = [task EXCEPT ![t] = entered]
  BY DEF Enter, entered
<1>3. QED
  BY <1>1, <1>2 DEF TypeOK

\* A step that leaves the transactions alone keeps them.
LEMMA SameTxKept ==
  ASSUME UNCHANGED tx PROVE TxKept
BY DEF TxKept, Landed

\* doExecute starts a first leg or an atomic swap, and opens no build.
LEMMA DoExecuteLegs ==
  ASSUME TypeOK, NEW t \in Task, NEW r, DoExecute(t, r)
  PROVE  /\ HandlerLegs(t)' /\ \A s \in Task \ {t} : task'[s] = task[s]
         /\ \/ UNCHANGED execState
            \/ execState'.phase # "review" /\ execState'.comp.leg = 0
<1>1. CASE task' = [task EXCEPT ![t] = Idle] /\ (UNCHANGED execState \/ execState' = ErrorModal(NoComp))
  <2>1. HandlerLegs(t)' /\ \A s \in Task \ {t} : task'[s] = task[s]
    BY <1>1, IdleLegs
  <2>2. ErrorModal(NoComp).phase # "review" /\ ErrorModal(NoComp).comp.leg = 0
    BY DEF ErrorModal, Modal, NoComp
  <2>3. QED
    BY <1>1, <2>1, <2>2
<1>2. ASSUME NEW pc \in {"sbKit", "build"}, Enter(t, pc, "swap", r, NoComp, target)
      PROVE  HandlerLegs(t)' /\ \A s \in Task \ {t} : task'[s] = task[s]
  <2>1. /\ task'[t].pc = pc /\ task'[t].leg = "swap" /\ task'[t].comp = NoComp
        /\ \A s \in Task \ {t} : task'[s] = task[s]
    BY <1>2, EnterFields, EnterComp
  <2>2. QED
    BY <2>1 DEF HandlerLegs, Builds, SecondLegTask, Confirms, Confirming, NoComp
<1>3. ASSUME NEW sb, StartLeg1(t, r, sb)
      PROVE  HandlerLegs(t)' /\ \A s \in Task \ {t} : task'[s] = task[s]
  <2> DEFINE c == [NoComp EXCEPT !.leg = 1, !.sb = sb, !.req = r]
  <2>1. c.leg = 1 /\ c.req = r
    BY DEF NoComp
  <2> HIDE DEF c
  <2>2. Enter(t, "balBefore", "leg1", r, c, "USDC")
    BY <1>3 DEF StartLeg1, c
  <2>3. /\ task'[t].pc = "balBefore" /\ task'[t].leg = "leg1" /\ task'[t].req = r
        /\ task'[t].comp = c /\ \A s \in Task \ {t} : task'[s] = task[s]
    BY <2>2, EnterFields, EnterComp
  <2>4. QED
    BY <2>1, <2>3 DEF HandlerLegs, Builds, SecondLegTask, Confirms, Confirming
<1>4. CASE sel \in {"comp", "compSb"} /\ wallet
  <2>1. PICK sb \in BOOLEAN : StartLeg1(t, r, sb)
    BY <1>4 DEF DoExecute
  <2>2. UNCHANGED execState
    BY <2>1 DEF StartLeg1
  <2>3. QED
    BY <1>3, <2>1, <2>2
<1>5. QED
  BY <1>1, <1>2, <1>4 DEF DoExecute

\* buildCompositeLeg2 is entered for a paid request only.
LEMMA StartLeg2Legs ==
  ASSUME TypeOK, NEW t \in Task, NEW c \in CompRec, c.req \in Paid, UNCHANGED tx, StartLeg2(t, c)
  PROVE  HandlerLegs(t)' /\ ModalLegs' /\ \A s \in Task \ {t} : task'[s] = task[s]
<1>0. c.req \in Paid'
  BY SameTxKept, PaidKept
<1>1. CASE task' = [task EXCEPT ![t] = Idle] /\ execState' = ErrorModal(NoComp)
  <2>1. execState'.phase # "review" /\ execState'.comp.leg = 0
    BY <1>1 DEF ErrorModal, Modal, NoComp
  <2>2. HandlerLegs(t)' /\ \A s \in Task \ {t} : task'[s] = task[s]
    BY <1>1, IdleLegs
  <2>3. ModalLegs'
    BY <2>1, PlainModal
  <2>4. QED
    BY <2>2, <2>3
<1>2. ASSUME NEW pc \in {"sbKit", "build"}, NEW d, d.req = c.req,
             Enter(t, pc, "leg2", c.req, d, "EURC"),
             execState' = Modal("leg1_confirming", NoTx, c)
      PROVE  HandlerLegs(t)' /\ ModalLegs' /\ \A s \in Task \ {t} : task'[s] = task[s]
  <2>1. /\ task'[t].pc = pc /\ task'[t].leg = "leg2" /\ task'[t].req = c.req
        /\ task'[t].comp = d /\ \A s \in Task \ {t} : task'[s] = task[s]
    BY <1>2, EnterFields, EnterComp
  <2>2. HandlerLegs(t)'
    BY <1>0, <1>2, <2>1 DEF HandlerLegs, Builds, SecondLegTask, Confirms, Confirming
  <2>3. execState'.phase # "review" /\ execState'.comp = c
    BY <1>2 DEF Modal
  <2>4. QED
    BY <1>0, <2>1, <2>2, <2>3, PlainModal
<1>3. CASE c.sb /\ ~wallet
  BY <1>1, <1>3 DEF StartLeg2
<1>4. CASE c.sb /\ wallet
  <2>1. [c EXCEPT !.leg = 2].req = c.req
    BY DEF CompRec
  <2>2. /\ Enter(t, "sbKit", "leg2", c.req, [c EXCEPT !.leg = 2], "EURC")
        /\ execState' = Modal("leg1_confirming", NoTx, c)
    BY <1>4 DEF StartLeg2
  <2>3. QED
    BY <1>2, <2>1, <2>2
<1>5. CASE ~c.sb
  BY <1>2, <1>5 DEF StartLeg2
<1>6. QED
  BY <1>3, <1>4, <1>5

\* Each click keeps the order of the legs.
LEMMA ClickLegs ==
  ASSUME SaleInv, LegInv, NEW t \in Task, UserClick(t)
  PROVE  LegInv'
<1>0. TypeOK /\ ModalLegs /\ execState \in ModalRec /\ execState.comp \in CompRec
  BY DEF SaleInv, TypeInv, LegInv, TypeOK, ModalRec
<1>1. UNCHANGED tx /\ TxKept
  <2>1. UNCHANGED tx
    BY DEF UserClick, ClickExecute, ClickSbFloor, ClickResumeLeg1, ClickConfirm, ClickRetryLeg2,
         ClickRecover, ClickAddTrustline, ledger
  <2>2. QED
    BY <2>1, SameTxKept
<1>2. SUFFICES HandlerLegs(t)' /\ ModalLegs' /\ \A s \in Task \ {t} : task'[s] = task[s]
  BY <1>1, OneHandler
<1>3. CASE ClickExecute(t)
  <2>1. PICK r \in Req : DoExecute(t, r)
    BY <1>3 DEF ClickExecute
  <2>2. QED
    BY <1>0, <1>1, <2>1, DoExecuteLegs, SameModal, PlainModal
<1>4. CASE ClickSbFloor(t)
  <2>1. PICK r \in Req : Enter(t, "build", "swap", r, NoComp, target)
    BY <1>4 DEF ClickSbFloor
  <2>2. /\ task'[t].pc = "build" /\ task'[t].leg = "swap" /\ task'[t].comp = NoComp
        /\ \A s \in Task \ {t} : task'[s] = task[s]
    BY <1>0, <2>1, EnterFields, EnterComp
  <2>3. HandlerLegs(t)'
    BY <2>2 DEF HandlerLegs, Builds, SecondLegTask, Confirms, Confirming, NoComp
  <2>4. QED
    BY <1>0, <1>1, <1>4, <2>2, <2>3, SameModal DEF ClickSbFloor
<1>5. CASE ClickResumeLeg1(t)
  <2>1. PICK r \in Req, sb \in BOOLEAN : StartLeg1(t, r, sb)
    BY <1>5 DEF ClickResumeLeg1
  <2> DEFINE c == [NoComp EXCEPT !.leg = 1, !.sb = sb, !.req = r]
  <2>2. c.leg = 1 /\ c.req = r
    BY DEF NoComp
  <2> HIDE DEF c
  <2>3. Enter(t, "balBefore", "leg1", r, c, "USDC") /\ UNCHANGED execState
    BY <2>1 DEF StartLeg1, c
  <2>4. /\ task'[t].pc = "balBefore" /\ task'[t].leg = "leg1" /\ task'[t].req = r
        /\ task'[t].comp = c /\ \A s \in Task \ {t} : task'[s] = task[s]
    BY <1>0, <2>3, EnterFields, EnterComp
  <2>5. HandlerLegs(t)'
    BY <2>2, <2>4 DEF HandlerLegs, Builds, SecondLegTask, Confirms, Confirming
  <2>6. QED
    BY <1>0, <1>1, <2>3, <2>4, <2>5, SameModal
<1>6. CASE ClickConfirm(t)
  <2> DEFINE x == execState.tx
             e == [Idle EXCEPT !.pc = "sign", !.leg = tx[x].leg, !.req = tx[x].req,
                     !.tx = x, !.comp = execState.comp, !.asset = tx[x].asset]
  <2>1. e.pc = "sign" /\ e.leg = tx[x].leg /\ e.req = tx[x].req /\ e.tx = x /\ e.comp = execState.comp
    BY DEF Idle
  <2>2. task' = [task EXCEPT ![t] = e]
    BY <1>6 DEF ClickConfirm
  <2> HIDE DEF e
  <2>3. task'[t] = e /\ \A s \in Task \ {t} : task'[s] = task[s]
    BY <1>0, <2>2 DEF TypeOK
  <2>4. /\ execState.phase = "review" /\ execState'.phase = "signing"
        /\ execState'.comp = execState.comp
    BY <1>0, <1>6 DEF ClickConfirm, ModalRec
  <2>5. FirstLegOf(execState.comp, x) /\ (execState.comp.leg = 2 => execState.comp.req \in Paid')
    BY <1>0, <1>1, <2>4, PaidKept DEF ModalLegs
  <2>6. tx[x].leg = "leg2" => tx[x].req \in Paid'
    <3>1. x \in TxId /\ tx[x].status = "built"
      BY <2>4 DEF SaleInv, OneConfirmation
    <3>2. tx[x].leg = "leg2" => tx[x].req \in Paid
      BY <3>1 DEF LegInv, Leg2AfterLeg1, Paid
    <3>3. QED
      BY <1>1, <3>2, PaidKept
  <2>7. HandlerLegs(t)'
    BY <1>1, <2>1, <2>3, <2>5, <2>6 DEF HandlerLegs, Builds, SecondLegTask, FirstLegOf
  <2>8. ModalLegs'
    BY <2>4, <2>5, PlainModal
  <2>9. QED
    BY <2>3, <2>7, <2>8
<1>7. CASE ClickRetryLeg2(t)
  <2>1. execState.comp.req \in Paid /\ StartLeg2(t, execState.comp)
    BY <1>0, <1>7 DEF ClickRetryLeg2, ModalLegs
  <2>2. QED
    BY <1>0, <1>1, <2>1, StartLeg2Legs
<1>8. CASE ClickRecover(t)
  <2> DEFINE e == [Idle EXCEPT !.pc = "recKit"]
  <2>1. e.pc = "recKit" /\ e.leg = "swap" /\ e.comp = NoComp
    BY DEF Idle
  <2>2. task' = [task EXCEPT ![t] = e] /\ UNCHANGED execState
    BY <1>8 DEF ClickRecover
  <2> HIDE DEF e
  <2>3. task'[t] = e /\ \A s \in Task \ {t} : task'[s] = task[s]
    BY <1>0, <2>2 DEF TypeOK
  <2>4. HandlerLegs(t)'
    BY <2>1, <2>3 DEF HandlerLegs, Builds, SecondLegTask, Confirms, Confirming, NoComp
  <2>5. QED
    BY <1>0, <1>1, <2>2, <2>3, <2>4, SameModal
<1>9. CASE ClickAddTrustline(t)
  <2>1. CASE wallet
    <3>1. Enter(t, "trust", "swap", NoReq, execState.comp, Missing)
      BY <1>9, <2>1 DEF ClickAddTrustline
    <3>2. /\ task'[t].pc = "trust" /\ task'[t].leg = "swap" /\ task'[t].comp = execState.comp
          /\ \A s \in Task \ {t} : task'[s] = task[s]
      BY <1>0, <3>1, EnterFields, EnterComp
    <3>3. execState.comp.leg = 2 => execState.comp.req \in Paid'
      BY <1>0, <1>1, PaidKept DEF ModalLegs
    <3>4. execState'.phase # "review" /\ execState'.comp = execState.comp
      BY <1>9, <2>1 DEF ClickAddTrustline, Modal
    <3>5. HandlerLegs(t)'
      BY <3>2, <3>3 DEF HandlerLegs, Builds, SecondLegTask, Confirms, Confirming
    <3>6. QED
      BY <3>2, <3>3, <3>4, <3>5, PlainModal
  <2>2. CASE ~wallet
    <3>1. UNCHANGED task /\ execState'.phase # "review" /\ execState'.comp.leg = 0
      BY <1>9, <2>2 DEF ClickAddTrustline, ErrorModal, Modal, NoComp
    <3>2. HandlerLegs(t)'
      BY <1>1, <3>1, OtherHandler DEF LegInv
    <3>3. QED
      BY <3>1, <3>2, PlainModal
  <2>3. QED
    BY <2>1, <2>2
<1>10. QED
  BY <1>3, <1>4, <1>5, <1>6, <1>7, <1>8, <1>9 DEF UserClick

\* The contexts a handler may leave in the modal.
LEMMA OwnContext ==
  ASSUME TypeOK, NEW t \in Task, HandlerLegs(t), task[t].pc # "idle", TxKept
  PROVE  /\ task[t].comp.leg = 2 => task[t].comp.req \in Paid'
         /\ task[t].pc = "build" /\ BuiltComp(t).leg = 2 => BuiltComp(t).req \in Paid'
<1>1. task[t].comp.leg = 2 => task[t].comp.req \in Paid'
  BY PaidKept DEF HandlerLegs, SecondLegTask
<1>2. ASSUME task[t].pc = "build", task[t].leg = "leg2" PROVE BuiltComp(t).req \in Paid'
  <2>1. BuiltComp(t).req = task[t].comp.req
    BY <1>2, TaskFields DEF BuiltComp, CompRec
  <2>2. QED
    BY <1>2, <2>1, PaidKept DEF HandlerLegs, SecondLegTask
<1>3. QED
  BY <1>1, <1>2 DEF BuiltComp

\* A handler that goes on with the same work keeps what it knows.
LEMMA MoveLegs ==
  ASSUME SaleInv, TxKept, NEW t \in Task, HandlerLegs(t), task[t].pc # "idle",
         task'[t].leg = task[t].leg, task'[t].req = task[t].req, task'[t].tx = task[t].tx,
         task'[t].comp.leg = task[t].comp.leg, task'[t].comp.req = task[t].comp.req,
         task'[t].pc # "balBefore", task'[t].pc = "build" => task[t].pc \in {"balBefore", "build"},
         task'[t].pc \in {"build", "sbKit", "sbKey", "sbRun"} =>
           task[t].pc \in {"build", "sbKit", "sbKey", "sbRun"} \/ task[t].leg # "leg2",
         task'[t].pc \in {"balWait", "balFetch"} => task[t].pc \in {"balWait", "balFetch"},
         task'[t].pc \in Confirming => task[t].pc \in Confirming
  PROVE  HandlerLegs(t)'
<1>1. Builds(t)'
  BY DEF HandlerLegs, Builds
<1>2. SecondLegTask(t)'
  BY PaidKept DEF HandlerLegs, SecondLegTask
<1>3. ASSUME task'[t].pc \in Confirming PROVE FirstLegOf(task[t].comp, task[t].tx)'
  <2>1. FirstLegOf(task[t].comp, task[t].tx) /\ tx[task[t].tx].status # "free" /\ task[t].tx \in TxId
    BY <1>3 DEF HandlerLegs, Confirms, SaleInv, OneConfirmation
  <2>2. QED
    BY <2>1 DEF FirstLegOf, TxKept
<1>4. QED
  BY <1>1, <1>2, <1>3 DEF HandlerLegs, Confirms

\* A step of handler t to another await, which keeps its other fields.
Awaits(t) ==
  /\ task'[t].leg = task[t].leg /\ task'[t].req = task[t].req /\ task'[t].tx = task[t].tx
  /\ task'[t].comp = task[t].comp /\ \A s \in Task \ {t} : task'[s] = task[s]

\* An assignment of the await, and of the count of tries, is such a step.
LEMMA AwaitFields ==
  ASSUME TypeOK, NEW t \in Task, NEW p
  PROVE  /\ task' = [task EXCEPT ![t].pc = p] => Awaits(t) /\ task'[t].pc = p
         /\ \A k : task' = [task EXCEPT ![t].pc = p, ![t].n = k] => Awaits(t) /\ task'[t].pc = p
<1>1. task \in [Task -> TaskRec]
  BY DEF TypeOK
<1>2. ASSUME task' = [task EXCEPT ![t].pc = p] PROVE Awaits(t) /\ task'[t].pc = p
  BY <1>1, <1>2 DEF TaskRec, Awaits
<1>3. ASSUME NEW k, task' = [task EXCEPT ![t].pc = p, ![t].n = k]
      PROVE  Awaits(t) /\ task'[t].pc = p
  BY <1>1, <1>3 DEF TaskRec, Awaits
<1>4. QED
  BY <1>2, <1>3

\* The steps of a handler that ends without a sale: whatever it shows offers no
\* build and has a context of its own.
LEMMA EndLegs ==
  ASSUME SaleInv, LegInv, UNCHANGED tx, NEW t \in Task, task[t].pc # "idle",
         task' = [task EXCEPT ![t] = Idle],
         \/ UNCHANGED execState
         \/ /\ execState'.phase # "review"
            /\ \/ execState'.comp \in {NoComp, task[t].comp}
               \/ task[t].pc = "build" /\ execState'.comp = BuiltComp(t)
  PROVE  LegInv'
<1>0. TypeOK /\ HandlerLegs(t) /\ ModalLegs /\ TxKept
  BY SameTxKept DEF SaleInv, TypeInv, LegInv
<1>1. HandlerLegs(t)' /\ \A s \in Task \ {t} : task'[s] = task[s]
  BY <1>0, IdleLegs
<1>2. NoComp.leg = 0
  BY DEF NoComp
<1>3. ModalLegs'
  BY <1>0, <1>2, OwnContext, SameModal, PlainModal
<1>4. QED
  BY <1>0, <1>1, <1>3, OneHandler

\* The steps of a handler that goes on, showing its context or nothing new.
LEMMA GoOnLegs ==
  ASSUME SaleInv, LegInv, NEW t \in Task,
         task'[t].pc # "idle",
         \/ BalBeforeAnswer(t) \/ Signed(t) \/ SubmitPending(t) \/ PollCheck(t) \/ PollNoNews(t)
         \/ BalCheck(t) \/ SbShow(t) \/ SbKeyAnswer(t) \/ RecoverShow(t)
  PROVE  LegInv'
<1>0. /\ task \in [Task -> TaskRec] /\ HandlerLegs(t) /\ ModalLegs /\ TypeOK
      /\ task[t].comp \in CompRec /\ task[t] \in TaskRec
  BY DEF SaleInv, TypeInv, TypeOK, LegInv, TaskRec
<1>1. UNCHANGED tx /\ TxKept
  BY SameTxKept DEF BalBeforeAnswer, Signed, SubmitPending, PollCheck, PollNoNews, BalCheck,
     SbShow, SbKeyAnswer, RecoverShow, ledger
<1>2. task[t].pc # "idle"
  BY DEF BalBeforeAnswer, Signed, SubmitPending, PollCheck, PollNoNews, BalCheck, SbShow,
     SbKeyAnswer, RecoverShow
<1>3. /\ HandlerLegs(t)' /\ \A s \in Task \ {t} : task'[s] = task[s]
  <2>1. CASE BalBeforeAnswer(t)
    <3>1. PICK b : task' = [task EXCEPT ![t].pc = "build", ![t].comp.before = b]
      BY <2>1 DEF BalBeforeAnswer
    <3>2. /\ task'[t].pc = "build" /\ task'[t].leg = task[t].leg /\ task'[t].req = task[t].req
          /\ task'[t].tx = task[t].tx /\ task'[t].comp = [task[t].comp EXCEPT !.before = b]
          /\ \A s \in Task \ {t} : task'[s] = task[s]
      BY <1>0, <3>1 DEF TaskRec
    <3>3. task'[t].comp.leg = task[t].comp.leg /\ task'[t].comp.req = task[t].comp.req
      BY <1>0, <3>2 DEF CompRec
    <3>5. task[t].leg # "leg2"
      BY <1>0, <2>1 DEF BalBeforeAnswer, HandlerLegs, Builds
    <3>6. QED
      BY <1>0, <1>1, <1>2, <2>1, <3>2, <3>3, <3>5, MoveLegs DEF BalBeforeAnswer, Confirming
  <2>2. CASE Signed(t)
    <3>1. task' = [task EXCEPT ![t].pc = "submit"]
      BY <1>0, <2>2 DEF Signed
    <3>2. Awaits(t) /\ task'[t].pc = "submit"
      BY <1>0, <3>1, AwaitFields
    <3>3. QED
      BY <1>0, <1>1, <1>2, <2>2, <3>2, MoveLegs DEF Signed, Confirming, Awaits
  <2>3. CASE SubmitPending(t)
    <3>1. \E k : task' = [task EXCEPT ![t].pc = "poll", ![t].n = k]
      BY <1>0, <2>3 DEF SubmitPending
    <3>2. Awaits(t) /\ task'[t].pc = "poll"
      BY <1>0, <3>1, AwaitFields
    <3>3. QED
      BY <1>0, <1>1, <1>2, <2>3, <3>2, MoveLegs DEF SubmitPending, Confirming, Awaits
  <2>4. CASE PollCheck(t)
    <3>1. task' = [task EXCEPT ![t].pc = "pollFetch"]
      BY <1>0, <2>4 DEF PollCheck, Idle
    <3>2. Awaits(t) /\ task'[t].pc = "pollFetch"
      BY <1>0, <3>1, AwaitFields
    <3>3. QED
      BY <1>0, <1>1, <1>2, <2>4, <3>2, MoveLegs DEF PollCheck, Confirming, Awaits
  <2>5. CASE PollNoNews(t)
    <3>1. \E k : task' = [task EXCEPT ![t].pc = "poll", ![t].n = k]
      BY <1>0, <2>5 DEF PollNoNews, Idle
    <3>2. Awaits(t) /\ task'[t].pc = "poll"
      BY <1>0, <3>1, AwaitFields
    <3>3. QED
      BY <1>0, <1>1, <1>2, <2>5, <3>2, MoveLegs DEF PollNoNews, Confirming, Awaits
  <2>6. CASE BalCheck(t)
    <3>1. task' = [task EXCEPT ![t].pc = "balFetch"]
      BY <1>0, <2>6 DEF BalCheck, Idle
    <3>2. Awaits(t) /\ task'[t].pc = "balFetch"
      BY <1>0, <3>1, AwaitFields
    <3>3. QED
      BY <1>0, <1>1, <1>2, <2>6, <3>2, MoveLegs DEF BalCheck, Confirming, Awaits
  <2>7. CASE SbShow(t)
    <3>1. task' = [task EXCEPT ![t].pc = "sbKey"]
      BY <1>0, <2>7 DEF SbShow
    <3>2. Awaits(t) /\ task'[t].pc = "sbKey"
      BY <1>0, <3>1, AwaitFields
    <3>3. QED
      BY <1>0, <1>1, <1>2, <2>7, <3>2, MoveLegs DEF SbShow, Confirming, Awaits
  <2>8. CASE SbKeyAnswer(t)
    <3>1. task' = [task EXCEPT ![t].pc = "sbRun"]
      BY <1>0, <2>8 DEF SbKeyAnswer, Idle
    <3>2. Awaits(t) /\ task'[t].pc = "sbRun"
      BY <1>0, <3>1, AwaitFields
    <3>3. QED
      BY <1>0, <1>1, <1>2, <2>8, <3>2, MoveLegs DEF SbKeyAnswer, Confirming, Awaits
  <2>9. CASE RecoverShow(t)
    <3>1. task' = [task EXCEPT ![t].pc = "recRun"]
      BY <1>0, <2>9 DEF RecoverShow
    <3>2. Awaits(t) /\ task'[t].pc = "recRun"
      BY <1>0, <3>1, AwaitFields
    <3>3. QED
      BY <1>0, <1>1, <1>2, <2>9, <3>2, MoveLegs DEF RecoverShow, Confirming, Awaits
  <2>10. QED
    BY <2>1, <2>2, <2>3, <2>4, <2>5, <2>6, <2>7, <2>8, <2>9
<1>4. ModalLegs'
  <2>1. \/ UNCHANGED execState
        \/ execState'.phase # "review" /\ execState'.comp \in {NoComp, task[t].comp}
    BY <1>0 DEF BalBeforeAnswer, Signed, SubmitPending, PollCheck, PollNoNews, BalCheck, SbShow,
       SbKeyAnswer, RecoverShow, Modal, ErrorModal
  <2>2. NoComp.leg = 0
    BY DEF NoComp
  <2>3. QED
    BY <1>0, <1>1, <1>2, <2>1, <2>2, OwnContext, SameModal, PlainModal
<1>5. QED
  BY <1>1, <1>3, <1>4, OneHandler

\* A build of a second leg, and a sale of one by StellarBroker, are for a request
\* already paid; a build shows the context of the handler that asked for it.
LEMMA NewTxLegs ==
  ASSUME SaleInv, LegInv, NEW t \in Task, NEW r \in TxRec, Unused # {},
         task[t].pc \in {"build", "sbRun"}, task' = [task EXCEPT ![t] = Idle],
         tx' = [tx EXCEPT ![Fresh] = r], r.status # "free", r.leg = task[t].leg,
         r.req = task[t].req,
         \/ execState'.phase # "review" /\ execState'.comp = task[t].comp
         \/ /\ task[t].pc = "build" /\ execState'.comp = BuiltComp(t)
            /\ execState'.phase = "review" /\ execState'.tx = Fresh
  PROVE  LegInv'
<1>0. TypeOK /\ HandlerLegs(t) /\ task[t].pc # "idle" /\ task[t] \in TaskRec
  BY DEF SaleInv, TypeInv, LegInv, TypeOK
<1>1. /\ TxKept /\ Fresh \in TxId /\ tx'[Fresh] = r
      /\ \A y \in TxId \ {Fresh} : tx'[y] = tx[y]
  BY <1>0, NewTxKept
<1>2. HandlerLegs(t)' /\ \A s \in Task \ {t} : task'[s] = task[s]
  BY <1>0, IdleLegs
<1>3. \A x \in TxId : tx'[x].status # "free" /\ tx'[x].leg = "leg2" =>
        tx[x].status # "free" \/ tx'[x].req \in Paid'
  <2>1. task[t].leg = "leg2" => task[t].req \in Paid'
    BY <1>0, <1>1, PaidKept DEF HandlerLegs, SecondLegTask
  <2>2. QED
    BY <1>1, <2>1
<1>4. ModalLegs'
  <2>1. execState'.comp.leg = 2 => execState'.comp.req \in Paid'
    BY <1>0, <1>1, OwnContext
  <2>2. CASE execState'.phase # "review"
    BY <2>1, <2>2, PlainModal
  <2>3. CASE execState'.phase = "review"
    <3>1. task[t].pc = "build" /\ execState'.comp = BuiltComp(t) /\ execState'.tx = Fresh
      BY <2>3
    <3>2. BuiltComp(t).leg = 1 => task[t].leg = "leg1" /\ task[t].comp.req = task[t].req
      <4>1. task[t].leg = "leg2" => BuiltComp(t).leg = 2
        BY <1>0 DEF BuiltComp, TaskRec, CompRec
      <4>2. task[t].leg # "leg2" => BuiltComp(t) = task[t].comp
        BY DEF BuiltComp
      <4>3. task[t].leg \in {"swap", "leg1", "leg2"}
        BY <1>0 DEF TaskRec, Leg
      <4>4. QED
        BY <1>0, <3>1, <4>1, <4>2, <4>3 DEF HandlerLegs, Builds
    <3>3. BuiltComp(t).leg = 1 => BuiltComp(t).req = task[t].req
      BY <3>2 DEF BuiltComp
    <3>4. FirstLegOf(execState.comp, execState.tx)'
      BY <1>1, <3>1, <3>2, <3>3 DEF FirstLegOf
    <3>5. QED
      BY <2>1, <2>3, <3>4 DEF ModalLegs
  <2>4. QED
    BY <2>2, <2>3
<1>5. QED
  BY <1>1, <1>2, <1>3, <1>4, OneHandler

\* A confirmed first leg is what its request waits to see paid.
LEMMA ConfirmedLegs ==
  ASSUME SaleInv, LegInv, NEW t \in Task, SubmitConfirmed(t) \/ PollSuccess(t)
  PROVE  LegInv'
<1>0. TypeOK /\ HandlerLegs(t) /\ ModalLegs /\ task[t].comp \in CompRec
  BY TaskFields DEF SaleInv, TypeInv, LegInv
<1>1. PICK x \in TxId : x = task[t].tx /\ tx[x].status = "ok" /\ Confirms(t) /\ AfterConfirm(t)
  BY DEF SubmitConfirmed, PollSuccess, SaleInv, OneConfirmation, Confirms, Confirming
<1>2. task[t].pc # "idle"
  BY <1>1 DEF Confirms, Confirming
<1>3. CASE tx[x].type = "restore"
  <2>1. DoExecute(t, task[t].req) /\ tx' = [tx EXCEPT ![x].status = "spent"]
    BY <1>1, <1>3 DEF AfterConfirm
  <2>2. TxKept /\ tx'[x] = [tx[x] EXCEPT !.status = "spent"] /\ \A y \in TxId \ {x} : tx'[y] = tx[y]
    BY <1>0, <1>3, <2>1, StatusKept
  <2>3. PICK r : r = task[t].req
    OBVIOUS
  <2>4. /\ HandlerLegs(t)' /\ \A s \in Task \ {t} : task'[s] = task[s]
        /\ \/ UNCHANGED execState
           \/ execState'.phase # "review" /\ execState'.comp.leg = 0
    BY <1>0, <2>1, <2>3, DoExecuteLegs
  <2>5. ModalLegs'
    BY <1>0, <2>2, <2>4, SameModal, PlainModal
  <2>6. QED
    BY <1>1, <2>2, <2>4, <2>5, OneHandler
<1>4. CASE tx[x].type = "swap" /\ task[t].comp.leg = 1
  <2>1. /\ task' = [task EXCEPT ![t].pc = "balWait", ![t].n = 0] /\ UNCHANGED tx
        /\ execState' = Modal("leg1_confirming", NoTx, task[t].comp)
    BY <1>1, <1>4 DEF AfterConfirm
  <2>2. TxKept
    BY <2>1, SameTxKept
  <2>3. task[t].comp.req \in Paid'
    <3>1. Landed(x) /\ tx[x].leg = "leg1" /\ tx[x].req = task[t].comp.req
      BY <1>0, <1>1, <1>4 DEF HandlerLegs, FirstLegOf, Landed
    <3>2. task[t].comp.req \in Paid
      BY <3>1 DEF Paid
    <3>3. QED
      BY <2>2, <3>2, PaidKept
  <2>4. Awaits(t) /\ task'[t].pc = "balWait"
    BY <1>0, <2>1, AwaitFields
  <2>5. HandlerLegs(t)'
    <3>1. task[t].leg = "leg2" => task[t].req \in Paid'
      BY <1>0, <1>2, <2>2, PaidKept DEF HandlerLegs, SecondLegTask
    <3>2. QED
      BY <2>3, <2>4, <3>1 DEF HandlerLegs, Builds, SecondLegTask, Confirms, Confirming, Awaits
  <2>6. execState'.phase # "review" /\ execState'.comp = task[t].comp
    BY <2>1 DEF Modal
  <2>7. ModalLegs'
    BY <2>3, <2>6, PlainModal
  <2>8. QED
    BY <2>1, <2>2, <2>4, <2>5, <2>7, OneHandler DEF Awaits
<1>5. CASE tx[x].type = "swap" /\ task[t].comp.leg # 1
  <2>1. /\ task' = [task EXCEPT ![t] = Idle] /\ UNCHANGED tx
        /\ execState' = Modal("done", x, task[t].comp)
    BY <1>1, <1>5 DEF AfterConfirm
  <2>2. execState'.phase # "review" /\ execState'.comp = task[t].comp
    BY <2>1 DEF Modal
  <2>3. QED
    BY <1>2, <2>1, <2>2, EndLegs
<1>6. QED
  BY <1>0, <1>1, <1>3, <1>4, <1>5 DEF TypeOK, TxRec

\* The balance poll leads to a second leg of the request that was paid.
LEMMA BalanceLegs ==
  ASSUME SaleInv, LegInv, NEW t \in Task, BalAnswer(t)
  PROVE  LegInv'
<1>0. /\ TypeOK /\ HandlerLegs(t) /\ ModalLegs /\ task[t].comp \in CompRec /\ UNCHANGED tx
      /\ TxKept /\ task[t].pc = "balFetch"
  BY TaskFields, SameTxKept DEF SaleInv, TypeInv, LegInv, BalAnswer, ledger
<1>1. task[t].comp.req \in Paid
  BY <1>0 DEF HandlerLegs, SecondLegTask
<1>2. CASE \E f : task' = [task EXCEPT ![t].pc = "balWait", ![t].n = @ + 1, ![t].first = f] /\ UNCHANGED execState
  <2>1. Awaits(t) /\ task'[t].pc = "balWait"
    BY <1>0, <1>2 DEF TypeOK, TaskRec, Awaits
  <2>2. HandlerLegs(t)'
    BY <1>0, <2>1, MoveLegs DEF Awaits, Confirming
  <2>3. QED
    BY <1>0, <1>2, <2>1, <2>2, SameModal, OneHandler DEF Awaits
<1>3. CASE \E g \in Int : StartLeg2(t, [task[t].comp EXCEPT !.got = g])
  <2>1. PICK g \in Int, c \in CompRec : c = [task[t].comp EXCEPT !.got = g] /\ StartLeg2(t, c)
    BY <1>0, <1>3, CompGotType
  <2>2. c.req = task[t].comp.req
    BY <1>0, <2>1 DEF CompRec
  <2>3. QED
    BY <1>0, <1>1, <2>1, <2>2, StartLeg2Legs, OneHandler
<1>4. PICK b \in {Null, usdcSeen} :
       LET comp  == task[t].comp
           first == IF task[t].first = Null THEN b ELSE task[t].first
           ref   == IF comp.before # Null THEN comp.before ELSE first
       IN  \/ StartLeg2(t, [comp EXCEPT !.got = b - ref])
           \/ /\ task' = [task EXCEPT ![t].pc = "balWait", ![t].n = @ + 1, ![t].first = first]
              /\ UNCHANGED execState
           \/ StartLeg2(t, [comp EXCEPT !.got = LastKnown(comp.before, first)])
  BY Zenon DEF BalAnswer
<1> DEFINE first == IF task[t].first = Null THEN b ELSE task[t].first
           ref   == IF task[t].comp.before # Null THEN task[t].comp.before ELSE first
<1>5. b \in Int /\ first \in Int /\ ref \in Int /\ task[t].comp.before \in Int
  BY <1>0, <1>4, TaskFields DEF TypeOK, Null, CompRec
<1>6. b - ref \in Int /\ LastKnown(task[t].comp.before, first) \in Int
  BY <1>5 DEF LastKnown, Null
<1>7. QED
  BY <1>2, <1>3, <1>4, <1>6

\* An error offers no build and shows the context it was given.
LEMMA ErrorModalFields ==
  ASSUME NEW c, NEW a
  PROVE  /\ ErrorModal(c).phase # "review" /\ ErrorModal(c).comp = c
         /\ RefusedModal(c).phase # "review" /\ RefusedModal(c).comp = c
         /\ TrustlineModal(c, a).phase # "review" /\ TrustlineModal(c, a).comp = c
BY DEF ErrorModal, RefusedModal, TrustlineModal, Modal

\* Every step of a handler keeps the order of the legs.
LEMMA TaskLegs ==
  ASSUME SaleInv, LegInv, NEW t \in Task, TaskStep(t) \/ SbProgress(t)
  PROVE  LegInv'
<1>0. TypeOK /\ HandlerLegs(t) /\ ModalLegs /\ task[t].comp \in CompRec
  BY TaskFields DEF SaleInv, TypeInv, LegInv
<1>1. CASE task' = [task EXCEPT ![t] = Idle] /\ UNCHANGED tx /\ ~BuildReview(t)
           /\ ~(SubmitConfirmed(t) \/ PollSuccess(t) \/ BalAnswer(t) \/ SbProgress(t))
  <2>1. task[t].pc # "idle"
    BY <1>1 DEF TaskStep, BalBeforeAnswer, BuildError, Signed, ConfirmError, SubmitPending,
       PollCheck, PollFailed, PollNoNews, BalCheck, SbShow, SbKeyAnswer, SbEnd, RecoverShow,
       RecoverEnd, TrustlineEnd
  <2>2. execState \in ModalRec
    BY <1>0 DEF TypeOK
  <2>3. CASE BuildError(t)
    <3>1. /\ execState'.phase # "review" /\ task[t].pc = "build"
          /\ execState'.comp \in {NoComp, BuiltComp(t), task[t].comp}
      BY <2>3, ErrorModalFields DEF BuildError
    <3>2. QED
      BY <1>1, <2>1, <3>1, EndLegs
  <2>4. CASE ~BuildError(t)
    <3>1. \/ UNCHANGED execState
          \/ execState'.phase # "review" /\ execState'.comp \in {NoComp, task[t].comp}
      <4>1. CASE BalBeforeAnswer(t) \/ PollCheck(t) \/ BalCheck(t)
        BY <4>1 DEF BalBeforeAnswer, PollCheck, BalCheck
      <4>2. CASE Signed(t) \/ SubmitPending(t) \/ PollNoNews(t) \/ SbShow(t) \/ RecoverShow(t)
        BY <4>2 DEF Signed, SubmitPending, PollNoNews, SbShow, RecoverShow, Modal
      <4>3. CASE ConfirmError(t) \/ PollFailed(t) \/ SbKeyAnswer(t)
        BY <4>3, ErrorModalFields DEF ConfirmError, PollFailed, SbKeyAnswer
      <4>4. CASE SbEnd(t)
        BY <4>4 DEF SbEnd, Modal
      <4>5. CASE RecoverEnd(t)
        <5>1. Modal("sb_done", NoTx, NoComp).phase # "review" /\ Modal("sb_done", NoTx, NoComp).comp = NoComp
          BY DEF Modal
        <5>2. QED
          BY <4>5, <5>1, ErrorModalFields DEF RecoverEnd
      <4>6. CASE TrustlineEnd(t)
        BY <4>6 DEF TrustlineEnd, ErrorModal, Modal
      <4>7. QED
        BY <1>1, <2>4, <4>1, <4>2, <4>3, <4>4, <4>5, <4>6 DEF TaskStep
    <3>2. QED
      BY <1>1, <2>1, <3>1, EndLegs
  <2>5. QED
    BY <2>3, <2>4
<1>2. CASE BuildReview(t)
  <2>1. PICK ty \in {"swap", "restore"}, ve \in {"sync", "poll"}, fw \in BOOLEAN :
       /\ tx' = [tx EXCEPT ![Fresh] =
            [status |-> "built", leg |-> task[t].leg, type |-> ty, venue |-> ve,
             fw |-> fw, asset |-> task[t].asset, amt |-> task[t].comp.got,
             req |-> task[t].req]]
       /\ execState' = Modal("review", Fresh, BuiltComp(t))
    BY <1>2 DEF BuildReview
  <2> DEFINE r == [status |-> "built", leg |-> task[t].leg, type |-> ty, venue |-> ve,
                   fw |-> fw, asset |-> task[t].asset, amt |-> task[t].comp.got,
                   req |-> task[t].req]
  <2>2. r \in TxRec /\ r.status # "free" /\ r.leg = task[t].leg /\ r.req = task[t].req
    BY <1>0, TaskFields DEF TxRec, CompRec
  <2>3. /\ execState'.comp = BuiltComp(t) /\ execState'.phase = "review"
        /\ execState'.tx = Fresh
    BY <2>1 DEF Modal
  <2>4. tx' = [tx EXCEPT ![Fresh] = r] /\ Unused # {} /\ task[t].pc = "build"
        /\ task' = [task EXCEPT ![t] = Idle]
    BY <1>2, <2>1 DEF BuildReview
  <2> HIDE DEF r
  <2>5. QED
    BY <2>2, <2>3, <2>4, NewTxLegs
<1>3. CASE SbEnd(t) /\ SbSale(t)
  <2> DEFINE r == [FreeTx EXCEPT !.status = "ok", !.leg = task[t].leg,
                     !.asset = task[t].asset, !.amt = task[t].comp.got, !.req = task[t].req]
  <2>1. r \in TxRec
    BY <1>0, TaskFields DEF TxRec, CompRec, FreeTx
  <2>2. r.status # "free" /\ r.leg = task[t].leg /\ r.req = task[t].req
    BY DEF FreeTx
  <2>3. tx' = [tx EXCEPT ![Fresh] = r] /\ Unused # {}
    BY <1>3 DEF SbSale
  <2>4. /\ task[t].pc = "sbRun" /\ task' = [task EXCEPT ![t] = Idle]
        /\ execState'.phase # "review" /\ execState'.comp = task[t].comp
    BY <1>3 DEF SbEnd, Modal
  <2> HIDE DEF r
  <2>5. QED
    BY <2>1, <2>2, <2>3, <2>4, NewTxLegs
<1>4. CASE SbProgress(t)
  <2>1. /\ UNCHANGED <<task, tx>> /\ task[t].pc # "idle"
        /\ execState'.phase # "review" /\ execState'.comp = task[t].comp
    BY <1>4 DEF SbProgress, ledger, Modal
  <2>2. TxKept
    BY <2>1, SameTxKept
  <2>3. ModalLegs'
    BY <1>0, <2>1, <2>2, OwnContext, PlainModal
  <2>4. HandlerLegs(t)'
    BY <1>0, <2>1, <2>2, OtherHandler
  <2>5. QED
    BY <2>1, <2>2, <2>3, <2>4, OneHandler
<1>5. CASE SubmitConfirmed(t) \/ PollSuccess(t)
  BY <1>5, ConfirmedLegs
<1>6. CASE BalAnswer(t)
  BY <1>6, BalanceLegs
<1> DEFINE GoesOn == \/ BalBeforeAnswer(t) \/ Signed(t) \/ SubmitPending(t) \/ PollCheck(t)
                     \/ PollNoNews(t) \/ BalCheck(t) \/ SbShow(t) \/ SbKeyAnswer(t) \/ RecoverShow(t)
           Ends == \/ BuildError(t) \/ ConfirmError(t) \/ PollFailed(t) \/ (SbEnd(t) /\ ~SbSale(t))
                   \/ RecoverEnd(t) \/ TrustlineEnd(t)
           Others == \/ BuildReview(t) \/ SubmitConfirmed(t) \/ PollSuccess(t) \/ BalAnswer(t)
                     \/ SbProgress(t)
<1>7. ASSUME GoesOn PROVE LegInv' \/ (task' = [task EXCEPT ![t] = Idle] /\ UNCHANGED tx)
  <2>1. task' = [task EXCEPT ![t] = Idle] \/ task'[t].pc # "idle"
    BY <1>0, <1>7 DEF BalBeforeAnswer, Signed, SubmitPending, PollCheck, PollNoNews, BalCheck,
       SbShow, SbKeyAnswer, RecoverShow, TypeOK, TaskRec
  <2>2. UNCHANGED tx
    BY <1>7 DEF BalBeforeAnswer, Signed, SubmitPending, PollCheck, PollNoNews, BalCheck, SbShow,
       SbKeyAnswer, RecoverShow, ledger
  <2>3. QED
    BY <1>7, <2>1, <2>2, GoOnLegs
<1>8. ASSUME Ends PROVE task' = [task EXCEPT ![t] = Idle] /\ UNCHANGED tx
  BY <1>8 DEF BuildError, ConfirmError, PollFailed, SbEnd, RecoverEnd, TrustlineEnd, ledger
<1>9. Others => LegInv'
  BY <1>2, <1>4, <1>5, <1>6
<1>10. Others \/ GoesOn \/ Ends \/ (SbEnd(t) /\ SbSale(t))
  BY DEF TaskStep
<1>11. CASE task' = [task EXCEPT ![t] = Idle] /\ UNCHANGED tx
  BY <1>1, <1>9, <1>11
<1> HIDE DEF GoesOn, Ends, Others
<1>12. QED
  BY <1>3, <1>7, <1>8, <1>9, <1>10, <1>11

\* A step of the page, of the network or of the venue builds no second leg.
LEMMA OtherLegs ==
  ASSUME SaleInv, LegInv, UNCHANGED task, TxKept,
         UNCHANGED execState \/ execState' = Closed,
         \A x \in TxId : tx[x].status = "free" => tx'[x] = tx[x]
  PROVE  LegInv'
<1>1. \A t \in Task : HandlerLegs(t)'
  BY OtherHandler DEF LegInv
<1>2. Closed.phase # "review" /\ Closed.comp.leg = 0
  BY DEF Closed, Modal, NoComp
<1>3. ModalLegs'
  BY <1>2, SameModal, PlainModal DEF LegInv
<1>4. Leg2AfterLeg1'
  <2>1. SUFFICES ASSUME NEW x \in TxId, tx'[x].status # "free", tx'[x].leg = "leg2"
                 PROVE  tx'[x].req \in Paid'
    BY DEF Leg2AfterLeg1, Paid
  <2>2. tx[x].status # "free" /\ tx'[x].leg = tx[x].leg /\ tx'[x].req = tx[x].req
    BY <2>1 DEF TxKept
  <2>3. tx[x].req \in Paid
    BY <2>1, <2>2 DEF LegInv, Leg2AfterLeg1, Paid
  <2>4. QED
    BY <2>2, <2>3, PaidKept
<1>5. QED
  BY <1>1, <1>3, <1>4 DEF LegInv

\* What SubmitFires and LedgerApply do to the transactions.
LEMMA NetworkKept ==
  ASSUME TypeOK, \/ \E t \in Task : SubmitFires(t) /\ task[t].tx \in TxId
                 \/ \E x \in TxId : LedgerApply(x)
  PROVE  /\ TxKept /\ UNCHANGED <<task, execState, reqs>>
         /\ \A x \in TxId : tx[x].status = "free" => tx'[x] = tx[x]
<1>1. ASSUME NEW t \in Task, SubmitFires(t), task[t].tx \in TxId
      PROVE  \E x \in TxId : /\ tx' = [tx EXCEPT ![x].status = "sent"] /\ tx[x].status = "built"
                             /\ UNCHANGED <<task, execState, reqs>>
  BY <1>1 DEF SubmitFires, count
<1>2. ASSUME NEW x \in TxId, LedgerApply(x)
      PROVE  /\ \E s \in {"failed", "ok"} : tx' = [tx EXCEPT ![x].status = s]
             /\ tx[x].status = "sent" /\ UNCHANGED <<task, execState, reqs>>
  BY <1>2 DEF LedgerApply, count
<1>3. PICK x \in TxId, s \in {"sent", "failed", "ok"} :
        /\ tx' = [tx EXCEPT ![x].status = s] /\ tx[x].status \in {"built", "sent"}
        /\ UNCHANGED <<task, execState, reqs>>
  BY <1>1, <1>2
<1>4. TxKept /\ \A y \in TxId \ {x} : tx'[y] = tx[y]
  BY <1>3, StatusKept
<1>5. QED
  BY <1>3, <1>4

\* Every step keeps the order of the legs.
LEMMA LegStep ==
  ASSUME SaleInv, LegInv, [Next]_vars PROVE LegInv'
<1>0. TypeOK
  BY DEF SaleInv, TypeInv
<1>1. CASE \/ UNCHANGED vars \/ EditPage \/ DoSim \/ SimAnswer \/ ToggleWallet
           \/ HorizonCatchesUp \/ ClickClose
  <2>1. UNCHANGED <<task, tx>> /\ (UNCHANGED execState \/ execState' = Closed)
    BY <1>1 DEF vars, EditPage, DoSim, SimAnswer, ToggleWallet, HorizonCatchesUp, ClickClose, ledger
  <2>2. QED
    BY <2>1, SameTxKept, OtherLegs
<1>2. ASSUME NEW t \in Task, SubmitFires(t) PROVE LegInv'
  <2>1. task[t].tx \in TxId
    BY <1>2 DEF SubmitFires, SaleInv, OneConfirmation, Confirms, Confirming
  <2>2. QED
    BY <1>0, <1>2, <2>1, NetworkKept, OtherLegs
<1>3. ASSUME NEW x \in TxId, LedgerApply(x) PROVE LegInv'
  BY <1>0, <1>3, NetworkKept, OtherLegs
<1>4. ASSUME NEW t \in Task, UserClick(t) \/ TaskStep(t) \/ SbProgress(t) PROVE LegInv'
  BY <1>4, ClickLegs, TaskLegs
<1>5. QED
  BY <1>1, <1>2, <1>3, <1>4 DEF Next

\* The invariant behind both theorems of this module.
FlowInv == SaleInv /\ LegInv

\* It holds at first.
LEMMA FlowInit == ASSUME Init PROVE FlowInv
<1>1. TypeInv
  BY InitType
<1>2. /\ \A t \in Task : task[t].pc = "idle"
      /\ \A x \in TxId : tx[x].status = "free" /\ tx[x].type = "swap"
      /\ execState.phase = "none" /\ execState.comp.leg = 0
  BY DEF Init, Idle, FreeTx, Closed, Modal, NoComp
<1>3. SaleInv
  BY <1>1, <1>2 DEF SaleInv, OneOwner, OneConfirmation, Works, Claims, Confirms, Confirming
<1>4. LegInv
  BY <1>2 DEF LegInv, HandlerLegs, Builds, SecondLegTask, Confirms, Confirming, ModalLegs, Leg2AfterLeg1
<1>5. QED
  BY <1>3, <1>4 DEF FlowInv

\* A second leg is built only for a request whose first leg the ledger applied,
\* however handlers overlap, retry and resume, as long as no restore of a second
\* leg is confirmed.
THEOREM LegsInOrder ==
  ASSUME NoLeg2Restore PROVE Spec => []Leg2AfterLeg1
<1>1. Init => FlowInv
  BY FlowInit
<1>2. FlowInv /\ [Next]_vars => FlowInv'
  BY SaleStep, LegStep DEF FlowInv
<1>3. FlowInv => Leg2AfterLeg1
  BY DEF FlowInv, LegInv
<1>4. QED
  BY <1>1, <1>2, <1>3, PTL DEF Spec

(* The receipt, one request at a time.  A request sells its BLND once, so  *)
(* no second leg of it exists while its first is open or its receipt is    *)
(* waited for, and until the user asks for another try there is one second *)
(* leg.  While no other request has moved USDC, a balance read until that  *)
(* leg lands is one of two amounts: what was held beforehand, or that and  *)
(* the proceeds.                                                           *)

\* Handler t polls the balance for the receipt of a first leg, that of q.
Waits(t)       == task[t].pc \in {"balWait", "balFetch"}
WaitsFor(t, q) == Waits(t) /\ task[t].comp.req = q

\* A handler that may yet sell the BLND of q or confirm its sale, a build that
\* is reviewed, and so a first leg that is open.
Confirming1(t, q) ==
  Confirms(t) /\ tx[task[t].tx].leg \in SellsBlnd /\ tx[task[t].tx].req = q
Sells(t, q) == (Works(t) /\ task[t].req = q) \/ Confirming1(t, q)
Reviewed(q) ==
  /\ execState.phase = "review"
  /\ tx[execState.tx].leg \in SellsBlnd /\ tx[execState.tx].req = q
FirstOpen(q) == (\E t \in Task : Sells(t, q) \/ WaitsFor(t, q)) \/ Reviewed(q)

\* A transaction, a handler and a context of the second leg of q.
SecondTx(x, q)   == tx[x].status # "free" /\ tx[x].leg = "leg2" /\ tx[x].req = q
SecondOf(t, q)   == task[t].leg = "leg2" /\ task[t].req = q
InSecond(c, q)   == c.leg = 2 /\ c.req = q
SecondWork(t, q) == SecondOf(t, q) /\ task[t].pc \in {"build", "sbKit", "sbKey", "sbRun"}
NoSecond(q) ==
  /\ \A x \in TxId : ~SecondTx(x, q)
  /\ \A t \in Task : ~SecondOf(t, q) /\ ~InSecond(task[t].comp, q)
  /\ ~InSecond(execState.comp, q)

\* One handler at most waits for the receipt, and the sale is then confirmed.
OneWaiter(q) ==
  \A s \in Task : WaitsFor(s, q) =>
    /\ \A t \in Task : WaitsFor(t, q) => s = t
    /\ \A t \in Task : ~Confirming1(t, q)

\* The second leg starts when the first is over, never before the request.
LegsApart(q) == FirstOpen(q) \/ q \notin reqs => NoSecond(q)

\* Before a retry one handler at most builds the second leg, or one
\* transaction is it.
OneSecond(q) ==
  q \notin retried =>
    /\ \A s, t \in Task : SecondWork(s, q) /\ SecondWork(t, q) => s = t
    /\ \A t \in Task, x \in TxId : ~(SecondWork(t, q) /\ SecondTx(x, q))
    /\ \A x, y \in TxId : SecondTx(x, q) /\ SecondTx(y, q) => x = y

\* What the ledger and Horizon can say before the sale, and before the second leg.
Balances(q) ==
  /\ (\A x \in TxId : Landed(x) => tx[x].req # q) => usdc = InitialUsdc /\ usdcSeen = InitialUsdc
  /\ (\A x \in TxId : Landed(x) /\ tx[x].req = q => tx[x].leg # "leg2") =>
       /\ usdc \in {InitialUsdc, InitialUsdc + Proceeds}
       /\ usdcSeen \in {InitialUsdc, InitialUsdc + Proceeds}

\* What a context, and a handler, have kept of the balances read.
Reading(c) == c.before \in {Null, InitialUsdc} /\ c.got \in {Null, 0, Proceeds}
Reads(t) == Reading(task[t].comp) /\ task[t].first \in {Null, InitialUsdc, InitialUsdc + Proceeds}
Readings(q) ==
  /\ \A t \in Task : task[t].comp.req = q => Reads(t)
  /\ execState.comp.req = q => Reading(execState.comp)

Delivered(q) == \A x \in TxId : SecondTx(x, q) => tx[x].amt = Proceeds

ReceiptOf(q) ==
  /\ OneWaiter(q) /\ LegsApart(q) /\ OneSecond(q)
  /\ Undisturbed(q) => Balances(q) /\ Readings(q) /\ Delivered(q)

ReceiptInv == \A q \in Req : ReceiptOf(q)

\* A request that has no owner sells no BLND.
LEMMA OwnSale ==
  ASSUME SaleInv, NEW q \in Req
  PROVE  /\ \A t \in Task, x \in TxId : ~(Works(t) /\ task[t].req = q /\ Claims(x) /\ tx[x].req = q)
         /\ \A x, y \in TxId : Claims(x) /\ tx[x].req = q /\ Claims(y) /\ tx[y].req = q => x = y
         /\ \A t \in Task : Works(t) /\ task[t].req = q => q \in reqs
         /\ \A x \in TxId : Claims(x) /\ tx[x].req = q => q \in reqs
BY DEF SaleInv, OneOwner

\* A handler that waits for the receipt waits for that of the only sale.
LEMMA WaiterPaid ==
  ASSUME FlowInv, NEW q \in Req, NEW t \in Task, WaitsFor(t, q)
  PROVE  /\ \A s \in Task : ~(Works(s) /\ task[s].req = q)
         /\ \A x \in TxId : Claims(x) /\ tx[x].req = q => Landed(x)
         /\ q \in reqs
         /\ ~Reviewed(q)
<1>1. q \in Paid
  BY DEF FlowInv, LegInv, HandlerLegs, SecondLegTask, WaitsFor, Waits
<1>2. PICK y \in TxId : Landed(y) /\ tx[y].leg = "leg1" /\ tx[y].req = q
  BY <1>1 DEF Paid
<1>3. Claims(y)
  BY <1>2 DEF Claims, Landed, SellsBlnd
<1>4. /\ \A s \in Task : ~(Works(s) /\ task[s].req = q)
      /\ \A x \in TxId : Claims(x) /\ tx[x].req = q => x = y
      /\ q \in reqs
  BY <1>2, <1>3, OwnSale DEF FlowInv
<1>5. ~Reviewed(q)
  <2>1. SUFFICES ASSUME Reviewed(q) PROVE FALSE
    OBVIOUS
  <2>2. execState.tx \in TxId /\ tx[execState.tx].status = "built"
    BY <2>1 DEF Reviewed, FlowInv, SaleInv, OneConfirmation
  <2>3. Claims(execState.tx) /\ tx[execState.tx].req = q
    BY <2>1, <2>2 DEF Claims, Reviewed
  <2>4. QED
    BY <1>2, <1>4, <2>2, <2>3 DEF Landed
<1>6. QED
  BY <1>2, <1>4, <1>5

\* While the first leg is open and has not landed, the balance is the one held
\* beforehand.
LEMMA NothingLanded ==
  ASSUME FlowInv, NEW q \in Req, ReceiptOf(q), NEW t \in Task, Works(t), task[t].req = q,
         Undisturbed(q)
  PROVE  NoSecond(q) /\ usdc = InitialUsdc /\ usdcSeen = InitialUsdc
<1>1. NoSecond(q)
  BY DEF ReceiptOf, LegsApart, FirstOpen, Sells
<1>2. ASSUME NEW x \in TxId, Landed(x), tx[x].req = q PROVE FALSE
  <2>1. tx[x].leg \in SellsBlnd
    <3>1. tx[x].leg \in Leg
      BY DEF FlowInv, SaleInv, TypeInv, TypeOK, TxRec
    <3>2. QED
      BY <1>1, <1>2, <3>1 DEF NoSecond, SecondTx, Landed, Leg, SellsBlnd
  <2>2. Claims(x)
    BY <1>2, <2>1 DEF Claims, Landed
  <2>3. QED
    BY <1>2, <2>2, OwnSale DEF FlowInv
<1>3. QED
  BY <1>1, <1>2 DEF ReceiptOf, Balances

\* What the receipt is told by does not change while the transactions do not.
LEMMA SameTxReceipt ==
  ASSUME NEW q \in Req, UNCHANGED <<tx, usdc, usdcSeen>>
  PROVE  /\ Undisturbed(q)' <=> Undisturbed(q)
         /\ Balances(q)' <=> Balances(q)
         /\ Delivered(q)' <=> Delivered(q)
         /\ \A x \in TxId : SecondTx(x, q)' <=> SecondTx(x, q)
<1>1. \A x \in TxId : SecondTx(x, q)' <=> SecondTx(x, q)
  BY DEF SecondTx
<1>2. Delivered(q)' <=> Delivered(q)
  BY <1>1 DEF Delivered
<1>3. Balances(q)' <=> Balances(q)
  BY DEF Balances, Landed
<1>4. Undisturbed(q)' <=> Undisturbed(q)
  BY DEF Undisturbed, Landed, UsdcChange
<1>5. QED
  BY <1>1, <1>2, <1>3, <1>4

\* A step that opens no first leg, and makes nothing of a second one appear
\* where there was none.
LEMMA QuietReceipt ==
  ASSUME SaleInv, NEW q \in Req, ReceiptOf(q), NEW t \in Task, QuietTask(t), NoNewReview,
         UNCHANGED <<tx, usdc, usdcSeen, reqs>>, retried \subseteq retried',
         WaitsFor(t, q)' => WaitsFor(t, q),
         NoSecond(q) => /\ ~SecondOf(t, q)' /\ ~InSecond(task'[t].comp, q)
                        /\ ~InSecond(execState'.comp, q),
         q \in retried' \/ (SecondWork(t, q)' => SecondWork(t, q)),
         Undisturbed(q) => /\ task'[t].comp.req = q => Reads(t)'
                           /\ execState'.comp.req = q => Reading(execState'.comp)
  PROVE  ReceiptOf(q)'
<1>1. \A s \in Task \ {t} : task'[s] = task[s]
  BY DEF QuietTask
<1>2. \A s \in Task : /\ (Confirming1(s, q)' => Confirming1(s, q))
                      /\ (Sells(s, q)' => Sells(s, q)) /\ (WaitsFor(s, q)' => WaitsFor(s, q))
  BY <1>1 DEF QuietTask, Confirms, Works, Waits, WaitsFor, Confirming1, Sells
<1>3. OneWaiter(q)'
  BY <1>2 DEF ReceiptOf, OneWaiter
<1>4. FirstOpen(q)' => FirstOpen(q)
  BY <1>2 DEF FirstOpen, Reviewed, NoNewReview
<1>5. NoSecond(q) => NoSecond(q)'
  BY <1>1 DEF NoSecond, SecondTx, SecondOf
<1>6. LegsApart(q)'
  BY <1>4, <1>5 DEF ReceiptOf, LegsApart
<1>7. OneSecond(q)'
  <2>1. CASE q \in retried'
    BY <2>1 DEF OneSecond
  <2>2. CASE SecondWork(t, q)' => SecondWork(t, q)
    <3>1. \A s \in Task : SecondWork(s, q)' => SecondWork(s, q)
      BY <1>1, <2>2 DEF SecondWork, SecondOf
    <3>2. QED
      BY <3>1, SameTxReceipt DEF ReceiptOf, OneSecond
  <2>3. QED
    BY <2>1, <2>2
<1>8. Undisturbed(q) => Readings(q)'
  BY <1>1 DEF ReceiptOf, Readings, Reads
<1>9. QED
  BY <1>3, <1>6, <1>7, <1>8, SameTxReceipt DEF ReceiptOf

\* What an ended handler, and an empty context, say.
LEMMA IdleReads ==
  /\ Reading(NoComp) /\ NoComp.leg = 0 /\ NoComp.req = NoReq
  /\ Idle.pc = "idle" /\ Idle.leg = "swap" /\ Idle.comp = NoComp /\ Idle.first = Null
BY DEF Idle, NoComp, Reading

LEMMA EndedReads ==
  ASSUME TypeOK, NEW t \in Task, task' = [task EXCEPT ![t] = Idle]
  PROVE  /\ Reads(t)' /\ task'[t].pc = "idle" /\ task'[t].leg = "swap" /\ task'[t].comp = NoComp
         /\ ~Waits(t)' /\ \A s \in Task \ {t} : task'[s] = task[s]
<1>1. task'[t] = Idle /\ \A s \in Task \ {t} : task'[s] = task[s]
  BY DEF TypeOK
<1>2. QED
  BY <1>1, IdleReads DEF Reads, Waits

\* An assignment of the await, and of the count of tries, keeps what was read.
LEMMA AwaitReads ==
  ASSUME TypeOK, NEW t \in Task, NEW p
  PROVE  /\ task' = [task EXCEPT ![t].pc = p] =>
              Awaits(t) /\ task'[t].pc = p /\ task'[t].first = task[t].first
         /\ \A k : task' = [task EXCEPT ![t].pc = p, ![t].n = k] =>
              Awaits(t) /\ task'[t].pc = p /\ task'[t].first = task[t].first
<1>1. task \in [Task -> TaskRec]
  BY DEF TypeOK
<1>2. ASSUME task' = [task EXCEPT ![t].pc = p] PROVE task'[t].first = task[t].first
  BY <1>1, <1>2 DEF TaskRec
<1>3. ASSUME NEW k, task' = [task EXCEPT ![t].pc = p, ![t].n = k] PROVE task'[t].first = task[t].first
  BY <1>1, <1>3 DEF TaskRec
<1>4. QED
  BY <1>2, <1>3, AwaitFields

\* A handler entered has read nothing yet.
LEMMA EnterReads ==
  ASSUME TypeOK, NEW t \in Task, NEW pc, NEW leg, NEW r, NEW c, NEW a, Enter(t, pc, leg, r, c, a)
  PROVE  task'[t].first = Null
<1> DEFINE entered == [Idle EXCEPT !.pc = pc, !.leg = leg, !.req = r, !.comp = c, !.asset = a]
<1>1. entered.first = Null
  BY DEF Idle
<1> HIDE DEF entered
<1>2. task' = [task EXCEPT ![t] = entered]
  BY DEF Enter, entered
<1>3. QED
  BY <1>1, <1>2 DEF TypeOK

\* A handler with nothing of a second leg, which has read nothing yet.
Starts(t) ==
  Reads(t)' /\ task'[t].leg # "leg2" /\ task'[t].comp.leg # 2 /\ ~Waits(t)'

\* So starts a handler of a composite.
LEMMA StartLeg1Reads ==
  ASSUME TypeOK, NEW t \in Task, NEW r, NEW sb, StartLeg1(t, r, sb)
  PROVE  /\ Starts(t) /\ ~Confirms(t)' /\ task'[t].req = r
         /\ \A s \in Task \ {t} : task'[s] = task[s]
<1> DEFINE c == [NoComp EXCEPT !.leg = 1, !.sb = sb, !.req = r]
<1>1. c.leg = 1 /\ c.before = Null /\ c.got = Null
  BY DEF NoComp
<1> HIDE DEF c
<1>2. Enter(t, "balBefore", "leg1", r, c, "USDC")
  BY DEF StartLeg1, c
<1>3. /\ task'[t].pc = "balBefore" /\ task'[t].leg = "leg1" /\ task'[t].comp = c
      /\ task'[t].req = r
      /\ task'[t].first = Null /\ \A s \in Task \ {t} : task'[s] = task[s]
  BY <1>2, EnterFields, EnterComp, EnterReads
<1>4. QED
  BY <1>1, <1>3 DEF Starts, Reads, Reading, Waits, Confirms, Confirming

\* So does any handler that doExecute starts.
LEMMA DoExecuteReads ==
  ASSUME TypeOK, NEW t \in Task, NEW r, DoExecute(t, r)
  PROVE  Starts(t) /\ (UNCHANGED execState \/ execState'.comp = NoComp)
<1>1. CASE task' = [task EXCEPT ![t] = Idle] /\ (UNCHANGED execState \/ execState' = ErrorModal(NoComp))
  <2>1. execState' = ErrorModal(NoComp) => execState'.comp = NoComp
    BY ErrorModalFields
  <2>2. Reads(t)' /\ task'[t].leg = "swap" /\ task'[t].comp = NoComp /\ ~Waits(t)'
    BY <1>1, EndedReads
  <2>3. QED
    BY <1>1, <2>1, <2>2, IdleReads DEF Starts
<1>2. ASSUME NEW pc \in {"sbKit", "build"}, Enter(t, pc, "swap", r, NoComp, target)
      PROVE  Starts(t)
  <2>1. /\ task'[t].pc = pc /\ task'[t].leg = "swap" /\ task'[t].comp = NoComp
        /\ task'[t].first = Null
    BY <1>2, EnterFields, EnterComp, EnterReads
  <2>2. QED
    BY <2>1, IdleReads DEF Starts, Reads, Waits
<1>3. CASE sel \in {"comp", "compSb"} /\ wallet
  <2>1. PICK sb \in BOOLEAN : StartLeg1(t, r, sb)
    BY <1>3 DEF DoExecute
  <2>2. UNCHANGED execState
    BY <2>1 DEF StartLeg1
  <2>3. QED
    BY <2>1, <2>2, StartLeg1Reads
<1>4. QED
  BY <1>1, <1>2, <1>3 DEF DoExecute

\* The steps of a handler that changes nothing but itself and the modal, where
\* it shows a context of its own.
LEMMA HandlerReads ==
  ASSUME FlowInv, NEW q \in Req, ReceiptOf(q), NEW t \in Task,
         \/ BalBeforeAnswer(t) \/ BuildError(t) \/ Signed(t) \/ ConfirmError(t)
         \/ SubmitPending(t) \/ PollCheck(t) \/ PollFailed(t) \/ PollNoNews(t)
         \/ BalCheck(t) \/ SbShow(t) \/ SbKeyAnswer(t) \/ SbProgress(t)
         \/ RecoverShow(t) \/ RecoverEnd(t) \/ TrustlineEnd(t)
  PROVE  /\ WaitsFor(t, q)' => WaitsFor(t, q)
         /\ SecondOf(t, q)' => SecondOf(t, q)
         /\ SecondWork(t, q)' => SecondWork(t, q)
         /\ InSecond(task'[t].comp, q) => InSecond(task[t].comp, q)
         /\ Undisturbed(q) /\ task'[t].comp.req = q => Reads(t)'
<1>0. /\ TypeOK /\ task \in [Task -> TaskRec] /\ task[t].comp \in CompRec
      /\ Undisturbed(q) /\ task[t].comp.req = q => Reads(t)
  BY TaskFields DEF FlowInv, SaleInv, TypeInv, TypeOK, ReceiptOf, Readings
<1>1. CASE task' = [task EXCEPT ![t] = Idle]
  <2>1. /\ Reads(t)' /\ task'[t].leg = "swap" /\ task'[t].comp = NoComp /\ NoComp.leg = 0
        /\ ~Waits(t)'
    BY <1>0, <1>1, EndedReads, IdleReads
  <2>2. QED
    BY <2>1 DEF WaitsFor, SecondOf, SecondWork, InSecond
<1>2. CASE UNCHANGED task
  BY <1>0, <1>2 DEF Reads, Waits, WaitsFor, SecondOf, SecondWork, InSecond
<1>3. CASE BalBeforeAnswer(t)
  <2>1. PICK b \in {Null, usdcSeen} : task' = [task EXCEPT ![t].pc = "build", ![t].comp.before = b]
    BY <1>3 DEF BalBeforeAnswer
  <2>2. Works(t) /\ task[t].leg = "leg1" /\ task[t].comp.req = task[t].req
    BY <1>3 DEF BalBeforeAnswer, FlowInv, LegInv, HandlerLegs, Builds, Works, SellsBlnd
  <2>3. Undisturbed(q) /\ task[t].comp.req = q => b \in {Null, InitialUsdc}
    BY <2>1, <2>2, NothingLanded
  <2>4. /\ task'[t].pc = "build" /\ task'[t].leg = task[t].leg /\ task'[t].first = task[t].first
        /\ task'[t].comp = [task[t].comp EXCEPT !.before = b]
    BY <1>0, <2>1 DEF TaskRec
  <2>5. /\ task'[t].comp.leg = task[t].comp.leg /\ task'[t].comp.before = b
        /\ task'[t].comp.got = task[t].comp.got /\ task'[t].comp.req = task[t].comp.req
    BY <1>0, <2>4 DEF CompRec
  <2>6. QED
    BY <1>0, <2>2, <2>3, <2>4, <2>5
       DEF Reads, Reading, Waits, WaitsFor, SecondOf, SecondWork, InSecond
<1>4. ASSUME NEW p, \/ task' = [task EXCEPT ![t].pc = p]
                    \/ \E k : task' = [task EXCEPT ![t].pc = p, ![t].n = k],
             p \in {"balWait", "balFetch"} => Waits(t),
             p \in {"build", "sbKit", "sbKey", "sbRun"} =>
               task[t].pc \in {"build", "sbKit", "sbKey", "sbRun"}
      PROVE  /\ WaitsFor(t, q)' => WaitsFor(t, q)
             /\ SecondOf(t, q)' => SecondOf(t, q)
             /\ SecondWork(t, q)' => SecondWork(t, q)
             /\ InSecond(task'[t].comp, q) => InSecond(task[t].comp, q)
             /\ Undisturbed(q) /\ task'[t].comp.req = q => Reads(t)'
  <2>0. TypeOK
    BY <1>0
  <2>1. Awaits(t) /\ task'[t].pc = p /\ task'[t].first = task[t].first
    BY <2>0, <1>4, AwaitReads
  <2>2. QED
    BY <1>0, <1>4, <2>1 DEF Reads, Waits, WaitsFor, Awaits, SecondOf, SecondWork, InSecond
<1>5. CASE Signed(t) \/ SubmitPending(t)
  <2>1. \/ task' = [task EXCEPT ![t].pc = "submit"]
        \/ \E k : task' = [task EXCEPT ![t].pc = "poll", ![t].n = k]
    BY <1>5 DEF Signed, SubmitPending
  <2>2. QED
    BY <1>4, <2>1
<1>6. CASE PollCheck(t) \/ PollNoNews(t)
  <2>1. \/ task' = [task EXCEPT ![t] = Idle]
        \/ task' = [task EXCEPT ![t].pc = "pollFetch"]
        \/ \E k : task' = [task EXCEPT ![t].pc = "poll", ![t].n = k]
    BY <1>6 DEF PollCheck, PollNoNews
  <2>2. QED
    BY <1>1, <1>4, <2>1
<1>7. CASE BalCheck(t)
  <2>1. /\ \/ task' = [task EXCEPT ![t] = Idle]
           \/ task' = [task EXCEPT ![t].pc = "balFetch"]
        /\ Waits(t)
    BY <1>7 DEF BalCheck, Waits
  <2>2. QED
    BY <1>1, <1>4, <2>1
<1>8. CASE SbShow(t) \/ SbKeyAnswer(t) \/ RecoverShow(t)
  <2>1. \/ task' = [task EXCEPT ![t] = Idle]
        \/ task' = [task EXCEPT ![t].pc = "recRun"]
        \/ /\ \E p \in {"sbKey", "sbRun"} : task' = [task EXCEPT ![t].pc = p]
           /\ task[t].pc \in {"sbKit", "sbKey"}
    BY <1>8 DEF SbShow, SbKeyAnswer, RecoverShow
  <2>2. QED
    BY <1>1, <1>4, <2>1
<1>9. QED
  BY <1>1, <1>2, <1>3, <1>5, <1>6, <1>7, <1>8
     DEF BuildError, ConfirmError, PollFailed, SbProgress, RecoverEnd, TrustlineEnd

\* The context such a step shows.
LEMMA HandlerShows ==
  ASSUME NEW t \in Task,
         \/ BalBeforeAnswer(t) \/ BuildError(t) \/ Signed(t) \/ ConfirmError(t)
         \/ SubmitPending(t) \/ PollCheck(t) \/ PollFailed(t) \/ PollNoNews(t)
         \/ BalCheck(t) \/ SbShow(t) \/ SbKeyAnswer(t) \/ SbProgress(t)
         \/ RecoverShow(t) \/ RecoverEnd(t) \/ TrustlineEnd(t)
  PROVE  \/ UNCHANGED execState
         \/ execState'.comp \in {NoComp, task[t].comp}
         \/ task[t].pc = "build" /\ execState'.comp = BuiltComp(t)
<1>1. CASE BalBeforeAnswer(t) \/ PollCheck(t) \/ BalCheck(t)
  BY <1>1 DEF BalBeforeAnswer, PollCheck, BalCheck
<1>2. CASE \/ Signed(t) \/ SubmitPending(t) \/ PollNoNews(t) \/ SbShow(t) \/ RecoverShow(t)
           \/ SbProgress(t)
  BY <1>2 DEF Signed, SubmitPending, PollNoNews, SbShow, RecoverShow, SbProgress, Modal
<1>3. CASE BuildError(t)
  BY <1>3, ErrorModalFields DEF BuildError
<1>4. CASE ConfirmError(t) \/ PollFailed(t) \/ SbKeyAnswer(t)
  BY <1>4, ErrorModalFields DEF ConfirmError, PollFailed, SbKeyAnswer
<1>5. CASE RecoverEnd(t)
  <2>1. Modal("sb_done", NoTx, NoComp).comp = NoComp
    BY DEF Modal
  <2>2. QED
    BY <1>5, <2>1, ErrorModalFields DEF RecoverEnd
<1>6. CASE TrustlineEnd(t)
  BY <1>6 DEF TrustlineEnd, ErrorModal, Modal
<1>7. QED
  BY <1>1, <1>2, <1>3, <1>4, <1>5, <1>6

\* The context a build answer leaves was read by the handler that asked for it,
\* and is of a second leg only if the handler is.
LEMMA BuiltReads ==
  ASSUME FlowInv, NEW t \in Task, NEW q
  PROVE  /\ BuiltComp(t).req = task[t].comp.req
         /\ Reads(t) => Reading(BuiltComp(t))
         /\ task[t].pc = "build" /\ InSecond(BuiltComp(t), q) =>
              SecondOf(t, q) \/ InSecond(task[t].comp, q)
<1>1. task[t].comp \in CompRec
  BY TaskFields DEF FlowInv, SaleInv, TypeInv
<1>2. CASE task[t].leg = "leg2"
  <2>1. /\ BuiltComp(t).req = task[t].comp.req /\ BuiltComp(t).before = task[t].comp.before
        /\ BuiltComp(t).got = task[t].comp.got
    BY <1>1, <1>2 DEF BuiltComp, CompRec
  <2>2. task[t].pc = "build" => task[t].comp.req = task[t].req
    BY <1>2 DEF FlowInv, LegInv, HandlerLegs, SecondLegTask
  <2>3. QED
    BY <1>2, <2>1, <2>2 DEF Reads, Reading, SecondOf, InSecond
<1>3. CASE task[t].leg # "leg2"
  BY <1>3 DEF BuiltComp, Reads
<1>4. QED
  BY <1>2, <1>3

\* The empty context is of no request.
LEMMA NoCompOfNone ==
  ASSUME NEW q \in Req PROVE NoComp.req # q /\ ~InSecond(NoComp, q)
BY IdleReads, ConstantsAssumption DEF InSecond

\* None of these steps disturbs the receipt.
LEMMA HandlerReceipt ==
  ASSUME FlowInv, NEW q \in Req, ReceiptOf(q), NEW t \in Task,
         \/ BalBeforeAnswer(t) \/ BuildError(t) \/ Signed(t) \/ ConfirmError(t)
         \/ SubmitPending(t) \/ PollCheck(t) \/ PollFailed(t) \/ PollNoNews(t)
         \/ BalCheck(t) \/ SbShow(t) \/ SbKeyAnswer(t) \/ SbProgress(t)
         \/ RecoverShow(t) \/ RecoverEnd(t) \/ TrustlineEnd(t)
  PROVE  ReceiptOf(q)'
<1>0. /\ TypeOK /\ SaleInv
      /\ Undisturbed(q) /\ task[t].comp.req = q => Reads(t)
      /\ Undisturbed(q) /\ execState.comp.req = q => Reading(execState.comp)
  BY DEF FlowInv, SaleInv, TypeInv, ReceiptOf, Readings
<1>1. UNCHANGED <<tx, usdc, usdcSeen, reqs, retried>>
  BY DEF BalBeforeAnswer, BuildError, Signed, ConfirmError, SubmitPending, PollCheck,
     PollFailed, PollNoNews, BalCheck, SbShow, SbKeyAnswer, SbProgress, RecoverShow,
     RecoverEnd, TrustlineEnd, ledger, count
<1>2. QuietTask(t) /\ NoNewReview
  BY <1>0, HandlerQuiet, HandlersOpenNoReview
<1>3. /\ WaitsFor(t, q)' => WaitsFor(t, q)
      /\ SecondWork(t, q)' => SecondWork(t, q)
      /\ NoSecond(q) => ~SecondOf(t, q)' /\ ~InSecond(task'[t].comp, q)
      /\ Undisturbed(q) /\ task'[t].comp.req = q => Reads(t)'
  BY HandlerReads DEF NoSecond
<1>4. /\ NoSecond(q) => ~InSecond(execState'.comp, q)
      /\ Undisturbed(q) /\ execState'.comp.req = q => Reading(execState'.comp)
  <2>1. CASE UNCHANGED execState
    BY <1>0, <2>1 DEF NoSecond
  <2>2. CASE execState'.comp = NoComp
    BY <2>2, NoCompOfNone
  <2>3. CASE execState'.comp = task[t].comp
    BY <1>0, <2>3 DEF NoSecond, Reads
  <2>4. CASE task[t].pc = "build" /\ execState'.comp = BuiltComp(t)
    BY <1>0, <2>4, BuiltReads DEF NoSecond
  <2>5. QED
    BY <2>1, <2>2, <2>3, <2>4, HandlerShows
<1>5. QED
  BY <1>0, <1>1, <1>2, <1>3, <1>4, QuietReceipt

\* The reading that decides how much leg 1 delivered can only be of the balance
\* held beforehand, or of that and the proceeds of the one sale.
LEMMA BalanceReads ==
  ASSUME NEW q \in Req, ReceiptOf(q), NEW t \in Task, WaitsFor(t, q)
  PROVE  /\ NoSecond(q)
         /\ Undisturbed(q) => usdcSeen \in {InitialUsdc, InitialUsdc + Proceeds}
<1>1. NoSecond(q)
  BY DEF ReceiptOf, LegsApart, FirstOpen
<1>2. \A x \in TxId : Landed(x) /\ tx[x].req = q => tx[x].leg # "leg2"
  BY <1>1 DEF NoSecond, SecondTx, Landed
<1>3. QED
  BY <1>1, <1>2 DEF ReceiptOf, Balances

\* Once the receipt is known the first leg is open no more.
LEMMA WaiterLeaves ==
  ASSUME FlowInv, NEW q \in Req, ReceiptOf(q), NEW t \in Task, WaitsFor(t, q), QuietTask(t),
         NoNewReview, ~Waits(t)', UNCHANGED <<tx, reqs>>
  PROVE  ~FirstOpen(q)' /\ q \in reqs' /\ OneWaiter(q)'
<1>1. \A s \in Task : /\ (Confirming1(s, q)' => Confirming1(s, q))
                      /\ (Sells(s, q)' => Sells(s, q))
                      /\ (WaitsFor(s, q)' => WaitsFor(s, q) /\ s # t)
  BY DEF QuietTask, Confirms, Works, Waits, WaitsFor, Confirming1, Sells
<1>2. \A s \in Task : ~WaitsFor(s, q)' /\ ~Sells(s, q)'
  BY <1>1, WaiterPaid DEF ReceiptOf, OneWaiter, Sells
<1>3. ~Reviewed(q)'
  BY WaiterPaid DEF NoNewReview, Reviewed
<1>4. QED
  BY <1>2, <1>3, WaiterPaid DEF FirstOpen, OneWaiter

\* buildCompositeLeg2 hands on the context it was given.
LEMMA StartLeg2Reads ==
  ASSUME TypeOK, NEW t \in Task, NEW c \in CompRec, StartLeg2(t, c)
  PROVE  /\ Reading(c) => Reads(t)' /\ Reading(execState'.comp)
         /\ ~Waits(t)' /\ \A s \in Task \ {t} : task'[s] = task[s]
         /\ task'[t].leg = "leg2" => task'[t].req = c.req
         /\ task'[t].comp.req \in {NoReq, c.req} /\ execState'.comp.req \in {NoReq, c.req}
<1>1. CASE task' = [task EXCEPT ![t] = Idle] /\ execState' = ErrorModal(NoComp)
  <2>1. execState'.comp = NoComp
    BY <1>1, ErrorModalFields
  <2>2. /\ Reads(t)' /\ ~Waits(t)' /\ task'[t].leg = "swap" /\ task'[t].comp = NoComp
        /\ \A s \in Task \ {t} : task'[s] = task[s]
    BY <1>1, EndedReads
  <2>3. QED
    BY <2>1, <2>2, IdleReads DEF Reading
<1>2. ASSUME NEW pc \in {"sbKit", "build"}, NEW d, d.before = c.before, d.got = c.got,
             d.req = c.req,
             Enter(t, pc, "leg2", c.req, d, "EURC"), execState' = Modal("leg1_confirming", NoTx, c)
      PROVE  /\ Reading(c) => Reads(t)' /\ Reading(execState'.comp)
             /\ ~Waits(t)' /\ \A s \in Task \ {t} : task'[s] = task[s]
             /\ task'[t].leg = "leg2" => task'[t].req = c.req
             /\ task'[t].comp.req \in {NoReq, c.req} /\ execState'.comp.req \in {NoReq, c.req}
  <2>1. /\ task'[t].pc = pc /\ task'[t].comp = d /\ task'[t].first = Null
        /\ task'[t].req = c.req /\ \A s \in Task \ {t} : task'[s] = task[s]
    BY <1>2, EnterFields, EnterComp, EnterReads
  <2>2. execState'.comp = c
    BY <1>2 DEF Modal
  <2>3. QED
    BY <1>2, <2>1, <2>2 DEF Reads, Reading, Waits
<1>3. CASE c.sb /\ ~wallet
  BY <1>1, <1>3 DEF StartLeg2
<1>4. CASE c.sb /\ wallet
  <2>1. /\ [c EXCEPT !.leg = 2].before = c.before /\ [c EXCEPT !.leg = 2].got = c.got
        /\ [c EXCEPT !.leg = 2].req = c.req
    BY DEF CompRec
  <2>2. /\ Enter(t, "sbKit", "leg2", c.req, [c EXCEPT !.leg = 2], "EURC")
        /\ execState' = Modal("leg1_confirming", NoTx, c)
    BY <1>4 DEF StartLeg2
  <2>3. QED
    BY <1>2, <2>1, <2>2
<1>5. CASE ~c.sb
  BY <1>2, <1>5 DEF StartLeg2
<1>6. QED
  BY <1>3, <1>4, <1>5

\* It is of no concern to another request, nor to one already tried again.
LEMMA StartLeg2Receipt ==
  ASSUME FlowInv, NEW q \in Req, ReceiptOf(q), NEW t \in Task, NEW c \in CompRec,
         StartLeg2(t, c), UNCHANGED <<tx, usdc, usdcSeen, reqs>>, retried \subseteq retried',
         c.req # q \/ (q \in retried' /\ ~NoSecond(q)),
         Undisturbed(q) /\ c.req = q => Reading(c)
  PROVE  ReceiptOf(q)'
<1>0. TypeOK /\ SaleInv
  BY DEF FlowInv, SaleInv, TypeInv
<1>1. /\ Reading(c) => Reads(t)' /\ Reading(execState'.comp)
      /\ ~Waits(t)'
      /\ task'[t].leg = "leg2" => task'[t].req = c.req
      /\ task'[t].comp.req \in {NoReq, c.req} /\ execState'.comp.req \in {NoReq, c.req}
  BY <1>0, StartLeg2Reads
<1>2. q # NoReq
  BY ConstantsAssumption
<1>3. QuietTask(t) /\ NoNewReview
  BY <1>0, StartLeg2Owns
<1>4. Undisturbed(q) => /\ task'[t].comp.req = q => Reads(t)'
                        /\ execState'.comp.req = q => Reading(execState'.comp)
  BY <1>1, <1>2
<1>5. c.req # q => ~SecondOf(t, q)' /\ ~InSecond(task'[t].comp, q) /\ ~InSecond(execState'.comp, q)
  BY <1>1, <1>2 DEF SecondOf, InSecond
<1>6. /\ NoSecond(q) => /\ ~SecondOf(t, q)' /\ ~InSecond(task'[t].comp, q)
                        /\ ~InSecond(execState'.comp, q)
      /\ q \in retried' \/ ~SecondWork(t, q)'
  BY <1>5 DEF SecondWork
<1>7. QED
  BY <1>0, <1>1, <1>3, <1>4, <1>6, QuietReceipt DEF WaitsFor

\* The balance poll concludes with what the first leg delivered, or with none.
LEMMA BalAnswerReceipt ==
  ASSUME FlowInv, NEW q \in Req, ReceiptOf(q), NEW t \in Task, BalAnswer(t)
  PROVE  ReceiptOf(q)'
<1> DEFINE Known == {Null, InitialUsdc, InitialUsdc + Proceeds}
           Mine == Undisturbed(q) /\ task[t].comp.req = q
<1>0. /\ TypeOK /\ SaleInv /\ task \in [Task -> TaskRec] /\ task[t].comp \in CompRec
      /\ UNCHANGED <<tx, usdc, usdcSeen, reqs, retried>> /\ Waits(t) /\ InitialUsdc \in Nat
      /\ Mine => Reads(t)
      /\ Undisturbed(q) /\ execState.comp.req = q => Reading(execState.comp)
  BY TaskFields, ConstantsAssumption
     DEF FlowInv, SaleInv, TypeInv, TypeOK, BalAnswer, ledger, count, Waits, ReceiptOf, Readings
<1>1. task[t].comp.req = q => NoSecond(q) /\ (Mine => usdcSeen \in Known)
  BY <1>0, BalanceReads DEF WaitsFor
<1>2. ASSUME NEW f, Mine => f \in Known,
             task' = [task EXCEPT ![t].pc = "balWait", ![t].n = @ + 1, ![t].first = f],
             UNCHANGED execState
      PROVE  ReceiptOf(q)'
  <2>1. Awaits(t) /\ task'[t].pc = "balWait" /\ task'[t].first = f
    BY <1>0, <1>2 DEF TaskRec, Awaits
  <2>2. QuietTask(t) /\ NoNewReview
    BY <1>0, <1>2, <2>1 DEF QuietTask, Awaits, Works, Confirms, Confirming, NoNewReview
  <2>3. Undisturbed(q) /\ task'[t].comp.req = q => Reads(t)'
    BY <1>0, <1>2, <2>1 DEF Reads, Awaits
  <2>4. /\ WaitsFor(t, q)' => WaitsFor(t, q)
        /\ ~SecondWork(t, q)'
        /\ NoSecond(q) => /\ ~SecondOf(t, q)' /\ ~InSecond(task'[t].comp, q)
                          /\ ~InSecond(execState'.comp, q)
    BY <1>0, <1>2, <2>1 DEF Awaits, WaitsFor, SecondWork, SecondOf, NoSecond
  <2>5. QED
    BY <1>0, <1>2, <2>2, <2>3, <2>4, QuietReceipt
<1>3. ASSUME NEW g \in Int, Mine => g \in {Null, 0, Proceeds},
             StartLeg2(t, [task[t].comp EXCEPT !.got = g])
      PROVE  ReceiptOf(q)'
  <2>1. PICK c \in CompRec : c = [task[t].comp EXCEPT !.got = g] /\ StartLeg2(t, c)
    BY <1>0, <1>3, CompGotType
  <2>2. c.req = task[t].comp.req /\ c.before = task[t].comp.before /\ c.got = g
    BY <1>0, <2>1 DEF CompRec
  <2>3. Undisturbed(q) /\ c.req = q => Reading(c)
    BY <1>0, <1>3, <2>2 DEF Reading, Reads
  <2>4. CASE c.req # q
    BY <1>0, <2>1, <2>3, <2>4, StartLeg2Receipt
  <2>5. CASE c.req = q
    <3>1. WaitsFor(t, q) /\ NoSecond(q)
      BY <1>0, <1>1, <2>2, <2>5 DEF WaitsFor
    <3>2. /\ Reading(c) => Reads(t)' /\ Reading(execState'.comp)
          /\ ~Waits(t)' /\ \A s \in Task \ {t} : task'[s] = task[s]
      BY <1>0, <2>1, StartLeg2Reads
    <3>3. QuietTask(t) /\ NoNewReview
      BY <1>0, <2>1, StartLeg2Owns
    <3>4. ~FirstOpen(q)' /\ q \in reqs' /\ OneWaiter(q)'
      BY <1>0, <3>1, <3>2, <3>3, WaiterLeaves
    <3>5. LegsApart(q)'
      BY <3>4 DEF LegsApart
    <3>6. OneSecond(q)'
      <4>1. \A x \in TxId : ~SecondTx(x, q)'
        BY <1>0, <3>1, SameTxReceipt DEF NoSecond
      <4>2. \A s \in Task \ {t} : ~SecondWork(s, q)'
        BY <3>1, <3>2 DEF NoSecond, SecondWork, SecondOf
      <4>3. QED
        BY <4>1, <4>2 DEF OneSecond
    <3>7. Undisturbed(q) => Readings(q)'
      BY <2>3, <2>5, <3>2 DEF ReceiptOf, Readings, Reads
    <3>8. QED
      BY <1>0, <3>4, <3>5, <3>6, <3>7, SameTxReceipt DEF ReceiptOf
  <2>6. QED
    BY <2>4, <2>5
<1>4. PICK b \in {Null, usdcSeen} :
       LET comp  == task[t].comp
           first == IF task[t].first = Null THEN b ELSE task[t].first
           ref   == IF comp.before # Null THEN comp.before ELSE first
       IN  \/ /\ b # Null /\ b > ref
              /\ StartLeg2(t, [comp EXCEPT !.got = b - ref])
           \/ /\ task' = [task EXCEPT ![t].pc = "balWait", ![t].n = @ + 1, ![t].first = first]
              /\ UNCHANGED execState
           \/ StartLeg2(t, [comp EXCEPT !.got = LastKnown(comp.before, first)])
  BY Zenon DEF BalAnswer
<1> DEFINE first == IF task[t].first = Null THEN b ELSE task[t].first
           ref   == IF task[t].comp.before # Null THEN task[t].comp.before ELSE first
<1>5. b \in Int /\ first \in Int /\ ref \in Int /\ task[t].comp.before \in Int
  BY <1>0, <1>4, TaskFields DEF TypeOK, Null, CompRec
<1>6. b - ref \in Int /\ LastKnown(task[t].comp.before, first) \in Int
  BY <1>5 DEF LastKnown, Null
<1>7. Mine => b \in Known /\ first \in Known /\ task[t].comp.before \in {Null, InitialUsdc}
  BY <1>0, <1>1, <1>4 DEF Reads, Reading
<1>8. Mine /\ b # Null /\ b > ref => b - ref \in {Null, 0, Proceeds}
  BY <1>0, <1>7 DEF Null, Proceeds
<1>9. Mine => LastKnown(task[t].comp.before, first) \in {Null, 0, Proceeds}
  BY <1>0, <1>7 DEF LastKnown, Null, Proceeds
<1> HIDE DEF Known, Mine
<1>10. CASE StartLeg2(t, [task[t].comp EXCEPT !.got = b - ref]) /\ b # Null /\ b > ref
  BY <1>3, <1>6, <1>8, <1>10
<1>11. CASE StartLeg2(t, [task[t].comp EXCEPT !.got = LastKnown(task[t].comp.before, first)])
  BY <1>3, <1>6, <1>9, <1>11
<1>12. CASE /\ task' = [task EXCEPT ![t].pc = "balWait", ![t].n = @ + 1, ![t].first = first]
            /\ UNCHANGED execState
  BY <1>2, <1>7, <1>12
<1>13. QED
  BY <1>4, <1>10, <1>11, <1>12

\* While nothing is undone a request that is undisturbed always was.
LEMMA StaysUndisturbed ==
  ASSUME NEW q \in Req, \A x \in TxId : Landed(x) => tx'[x] = tx[x]
  PROVE  Undisturbed(q)' => Undisturbed(q)
BY DEF Undisturbed, Landed, UsdcChange

\* A handler that ends with a build, or with a sale by StellarBroker.
LEMMA NewTxReceipt ==
  ASSUME FlowInv, NEW q \in Req, ReceiptOf(q), NEW t \in Task, NEW r \in TxRec, Unused # {},
         task[t].pc \in {"build", "sbRun"}, task' = [task EXCEPT ![t] = Idle],
         tx' = [tx EXCEPT ![Fresh] = r], r.status # "free",
         r.leg = task[t].leg, r.req = task[t].req, r.amt = task[t].comp.got, Payable(t),
         UNCHANGED <<usdcSeen, reqs, retried>>,
         \/ r.status = "built" /\ UNCHANGED usdc
         \/ r.status = "ok" /\ r.type = "swap" /\ usdc' = usdc + UsdcChange(r),
         \/ NoNewReview /\ execState'.comp = task[t].comp
         \/ task[t].pc = "build" /\ execState'.comp = BuiltComp(t) /\ execState'.tx = Fresh
  PROVE  ReceiptOf(q)'
<1>0. /\ TypeOK /\ SaleInv /\ task[t].pc # "idle" /\ tx \in [TxId -> TxRec]
      /\ InitialUsdc \in Nat /\ usdc \in Nat
      /\ Undisturbed(q) /\ task[t].comp.req = q => Reads(t)
  BY ConstantsAssumption DEF FlowInv, SaleInv, TypeInv, TypeOK, ReceiptOf, Readings
<1>1. PICK x \in TxId : x = Fresh /\ tx[x].status = "free"
  BY FreshIsFree
<1>2. tx'[x] = r /\ \A y \in TxId \ {x} : tx'[y] = tx[y]
  BY <1>0, <1>1
<1>3. /\ Reads(t)' /\ task'[t].pc = "idle" /\ task'[t].leg = "swap" /\ task'[t].comp.leg = 0
      /\ ~Waits(t)' /\ \A s \in Task \ {t} : task'[s] = task[s]
  BY <1>0, EndedReads, IdleReads
<1>4. \A s \in Task : /\ Works(s)' => Works(s) /\ s # t
                      /\ Waits(s)' => Waits(s) /\ s # t
                      /\ Confirms(s)' => Confirms(s) /\ s # t /\ task[s].tx \in TxId \ {x}
  BY <1>0, <1>1, <1>3 DEF Works, Waits, Confirms, Confirming, SaleInv, OneConfirmation
<1>5. \A s \in Task : /\ (Confirming1(s, q)' => Confirming1(s, q))
                      /\ (Sells(s, q)' => Sells(s, q)) /\ (WaitsFor(s, q)' => WaitsFor(s, q))
  BY <1>2, <1>3, <1>4 DEF WaitsFor, Confirming1, Sells
<1>6. OneWaiter(q)'
  BY <1>5 DEF ReceiptOf, OneWaiter
<1>7. r.leg \in SellsBlnd => Works(t)
  BY DEF Works
<1>8. FirstOpen(q)' => FirstOpen(q)
  <2>1. ASSUME Reviewed(q)' PROVE FirstOpen(q)
    <3>1. CASE execState'.tx = x
      BY <1>2, <1>7, <2>1, <3>1 DEF FirstOpen, Sells, Reviewed
    <3>2. CASE execState'.tx # x
      <4>1. execState' = execState
        BY <1>1, <2>1, <3>2 DEF NoNewReview, Reviewed
      <4>2. execState.tx \in TxId \ {x}
        BY <1>0, <2>1, <3>2, <4>1 DEF SaleInv, OneConfirmation, Reviewed
      <4>3. QED
        BY <1>2, <2>1, <4>1, <4>2 DEF FirstOpen, Reviewed
    <3>3. QED
      BY <3>1, <3>2
  <2>2. QED
    BY <1>5, <2>1 DEF FirstOpen
<1>9. /\ NoSecond(q) => ~InSecond(execState'.comp, q)
      /\ Undisturbed(q) /\ execState'.comp.req = q => Reading(execState'.comp)
  BY <1>0, BuiltReads DEF Reads, NoSecond
<1>10. \A y \in TxId : SecondTx(y, q)' => SecondTx(y, q) \/ (y = x /\ SecondWork(t, q))
  BY <1>2 DEF SecondTx, SecondWork, SecondOf
<1>11. NoSecond(q) => NoSecond(q)'
  BY <1>3, <1>9, <1>10 DEF NoSecond, SecondWork, SecondOf, InSecond
<1>12. LegsApart(q)'
  BY <1>8, <1>11 DEF ReceiptOf, LegsApart
<1>13. OneSecond(q)'
  <2>1. \A s \in Task : SecondWork(s, q)' => SecondWork(s, q) /\ s # t
    BY <1>3 DEF SecondWork, SecondOf
  <2>2. QED
    BY <1>10, <2>1 DEF ReceiptOf, OneSecond
<1>14. Undisturbed(q)' => Undisturbed(q)
  <2>1. \A y \in TxId : Landed(y) => tx'[y] = tx[y]
    BY <1>1, <1>2 DEF Landed
  <2>2. QED
    BY <2>1, StaysUndisturbed
<1>15. Undisturbed(q) => Readings(q)'
  BY <1>3, <1>9 DEF ReceiptOf, Readings, Reads
<1>16. Undisturbed(q) => Delivered(q)'
  <2>1. Undisturbed(q) /\ SecondWork(t, q) => r.amt = Proceeds
    <3>1. SecondWork(t, q) => task[t].comp.req = q
      BY DEF SecondWork, SecondOf, FlowInv, LegInv, HandlerLegs, SecondLegTask
    <3>2. QED
      BY <1>0, <3>1 DEF SecondWork, SecondOf, Payable, Reads, Reading, Null, Proceeds
  <2>2. \A y \in TxId : SecondTx(y, q)' /\ y # x => SecondTx(y, q) /\ tx'[y].amt = tx[y].amt
    BY <1>2 DEF SecondTx
  <2>3. ~SecondTx(x, q)
    BY <1>1 DEF SecondTx
  <2>4. QED
    BY <1>2, <1>10, <2>1, <2>2, <2>3 DEF ReceiptOf, Delivered
<1>17. Undisturbed(q)' => Balances(q)'
  <2>1. \A y \in TxId \ {x} : Landed(y)' <=> Landed(y)
    BY <1>2 DEF Landed
  <2>2. ~Landed(x)
    BY <1>1 DEF Landed
  <2>3. SUFFICES ASSUME Undisturbed(q)', Undisturbed(q), Balances(q) PROVE Balances(q)'
    BY <1>14 DEF ReceiptOf
  <2>4. ASSUME Landed(x)' => tx'[x].req # q, usdc' = usdc PROVE Balances(q)'
    BY <1>2, <2>1, <2>2, <2>3, <2>4 DEF Balances
  <2>5. CASE r.status = "built" /\ UNCHANGED usdc
    BY <1>2, <2>4, <2>5 DEF Landed
  <2>6. CASE r.status = "ok" /\ r.type = "swap" /\ usdc' = usdc + UsdcChange(r)
    <3>1. Landed(x)'
      BY <1>2, <2>6 DEF Landed
    <3>2. CASE r.req # q
      <4>1. UsdcChange(tx'[x]) = 0
        BY <1>2, <2>3, <3>1, <3>2 DEF Undisturbed, UsdcChange
      <4>2. usdc' = usdc
        BY <1>0, <1>2, <2>6, <4>1 DEF UsdcChange
      <4>3. QED
        BY <1>2, <2>4, <3>2, <4>2
    <3>3. CASE r.req = q /\ r.leg = "leg2"
      BY <1>2, <3>1, <3>3 DEF Balances
    <3>4. CASE r.req = q /\ r.leg # "leg2"
      <4>1. Works(t) /\ task[t].req = q
        BY <1>0, <1>7, <3>4 DEF TxRec, Leg, SellsBlnd
      <4>2. usdc = InitialUsdc /\ usdcSeen = InitialUsdc
        BY <2>3, <4>1, NothingLanded
      <4>3. UsdcChange(r) \in {0, Proceeds}
        BY <3>4 DEF UsdcChange
      <4>4. usdc' \in {InitialUsdc, InitialUsdc + Proceeds} /\ usdcSeen' = InitialUsdc
        BY <1>0, <2>6, <4>2, <4>3 DEF Proceeds
      <4>5. QED
        BY <1>2, <3>1, <3>4, <4>4 DEF Balances
    <3>5. QED
      BY <3>2, <3>3, <3>4
  <2>7. QED
    BY <2>5, <2>6
<1>18. QED
  BY <1>6, <1>12, <1>13, <1>14, <1>15, <1>16, <1>17 DEF ReceiptOf

\* Both ways a handler has of bringing a transaction about.
LEMMA BuildReceipt ==
  ASSUME FlowInv, NEW q \in Req, ReceiptOf(q), NEW t \in Task, BuildReview(t) \/ SbEnd(t)
  PROVE  ReceiptOf(q)'
<1>0. /\ TypeOK /\ SaleInv
      /\ Undisturbed(q) /\ task[t].comp.req = q => Reads(t)
  BY DEF FlowInv, SaleInv, TypeInv, ReceiptOf, Readings
<1>1. CASE BuildReview(t)
  <2>1. PICK ty \in {"swap", "restore"}, ve \in {"sync", "poll"}, fw \in BOOLEAN :
       /\ tx' = [tx EXCEPT ![Fresh] =
            [status |-> "built", leg |-> task[t].leg, type |-> ty, venue |-> ve,
             fw |-> fw, asset |-> task[t].asset, amt |-> task[t].comp.got,
             req |-> task[t].req]]
       /\ execState' = Modal("review", Fresh, BuiltComp(t))
    BY <1>1 DEF BuildReview
  <2> DEFINE r == [status |-> "built", leg |-> task[t].leg, type |-> ty, venue |-> ve,
                   fw |-> fw, asset |-> task[t].asset, amt |-> task[t].comp.got,
                   req |-> task[t].req]
  <2>2. /\ r \in TxRec /\ r.status = "built" /\ r.leg = task[t].leg /\ r.req = task[t].req
        /\ r.amt = task[t].comp.got
    BY <1>0, TaskFields DEF TxRec, CompRec
  <2>3. execState'.comp = BuiltComp(t) /\ execState'.tx = Fresh
    BY <2>1 DEF Modal
  <2>4. /\ tx' = [tx EXCEPT ![Fresh] = r] /\ Unused # {} /\ task[t].pc = "build" /\ Payable(t)
        /\ task' = [task EXCEPT ![t] = Idle] /\ UNCHANGED <<usdc, usdcSeen, reqs, retried>>
    BY <1>1, <2>1 DEF BuildReview, count
  <2> HIDE DEF r
  <2>5. QED
    BY <2>2, <2>3, <2>4, NewTxReceipt
<1>2. CASE SbEnd(t) /\ SbSale(t)
  <2> DEFINE r == [FreeTx EXCEPT !.status = "ok", !.leg = task[t].leg,
                     !.asset = task[t].asset, !.amt = task[t].comp.got, !.req = task[t].req]
  <2>1. r \in TxRec
    BY <1>0, TaskFields DEF TxRec, CompRec, FreeTx
  <2>2. /\ r.status = "ok" /\ r.type = "swap" /\ r.leg = task[t].leg /\ r.req = task[t].req
        /\ r.amt = task[t].comp.got
    BY DEF FreeTx
  <2>3. /\ tx' = [tx EXCEPT ![Fresh] = r] /\ Unused # {} /\ Payable(t)
        /\ usdc' = usdc + UsdcChange(r)
    BY <1>2 DEF SbSale
  <2>4. /\ task[t].pc = "sbRun" /\ task' = [task EXCEPT ![t] = Idle]
        /\ UNCHANGED <<usdcSeen, reqs, retried>> /\ execState'.phase # "review"
        /\ execState'.comp = task[t].comp
    BY <1>2 DEF SbEnd, Modal, count
  <2> HIDE DEF r
  <2>5. QED
    BY <2>1, <2>2, <2>3, <2>4, NewTxReceipt DEF NoNewReview
<1>3. CASE SbEnd(t) /\ ~SbSale(t)
  <2>1. /\ UNCHANGED <<tx, usdc, usdcSeen, reqs, retried>> /\ task' = [task EXCEPT ![t] = Idle]
        /\ execState'.phase # "review" /\ execState'.comp = task[t].comp
    BY <1>3 DEF SbEnd, Modal, count
  <2>2. /\ Reads(t)' /\ task'[t].pc = "idle" /\ task'[t].leg = "swap" /\ task'[t].comp.leg = 0
        /\ ~Waits(t)' /\ \A s \in Task \ {t} : task'[s] = task[s]
    BY <1>0, <2>1, EndedReads, IdleReads
  <2>3. QuietTask(t) /\ NoNewReview
    BY <2>1, <2>2 DEF QuietTask, NoNewReview, Works, Confirms, Confirming
  <2>4. /\ Undisturbed(q) /\ execState'.comp.req = q => Reading(execState'.comp)
        /\ NoSecond(q) => ~InSecond(execState'.comp, q)
    BY <1>0, <2>1 DEF Reads, NoSecond
  <2>5. QED
    BY <1>0, <2>1, <2>2, <2>3, <2>4, QuietReceipt DEF WaitsFor, SecondWork, SecondOf, InSecond
<1>4. QED
  BY <1>1, <1>2, <1>3

\* The end of a confirmed restore, which starts the sale over.
LEMMA RestoredReceipt ==
  ASSUME FlowInv, NoLeg2Restore, NEW q \in Req, ReceiptOf(q), NEW t \in Task, NEW x \in TxId,
         x = task[t].tx, tx[x].status = "ok", tx[x].type = "restore", Confirms(t),
         DoExecute(t, task[t].req), tx' = [tx EXCEPT ![x].status = "spent"],
         UNCHANGED <<usdc, usdcSeen, reqs, retried>>
  PROVE  ReceiptOf(q)'
<1>0. /\ TypeOK /\ SaleInv /\ task[t].req = tx[x].req
      /\ Undisturbed(q) /\ execState.comp.req = q => Reading(execState.comp)
  BY DEF FlowInv, SaleInv, TypeInv, ReceiptOf, Readings, OneConfirmation
<1>1. tx[x].leg \in SellsBlnd
  BY <1>0 DEF SaleInv, OneConfirmation, NoLeg2Restore
<1>2. /\ tx'[x].status = "spent" /\ tx'[x].leg = tx[x].leg /\ tx'[x].req = tx[x].req
      /\ tx'[x].type = "restore" /\ \A y \in TxId \ {x} : tx'[y] = tx[y]
  BY <1>0 DEF TypeOK, TxRec
<1>3. PICK r : r = task[t].req
  OBVIOUS
<1>4. /\ Starts(t) /\ (UNCHANGED execState \/ execState'.comp = NoComp)
      /\ \A s \in Task \ {t} : task'[s] = task[s]
      /\ ~Confirms(t)' /\ NoNewReview /\ (Works(t)' => task'[t].req = r)
  BY <1>0, <1>3, DoExecuteReads, DoExecuteOwns
<1>5. \A s \in Task : /\ (Confirming1(s, q)' => Confirming1(s, q))
                      /\ (WaitsFor(s, q)' => WaitsFor(s, q) /\ s # t)
                      /\ (s # t /\ Sells(s, q)' => Sells(s, q))
  <2>1. ASSUME NEW s \in Task PROVE s # t => (Confirms(s)' => Confirms(s) /\ task[s].tx \in TxId)
    BY <1>0, <1>4 DEF Confirms, SaleInv, OneConfirmation
  <2>2. QED
    BY <1>2, <1>4, <2>1 DEF Confirming1, WaitsFor, Waits, Starts, Sells, Works
<1>6. OneWaiter(q)'
  BY <1>5 DEF ReceiptOf, OneWaiter
<1>7. FirstOpen(q)' => FirstOpen(q)
  <2>1. Sells(t, q)' => Sells(t, q)
    BY <1>0, <1>1, <1>3, <1>4 DEF Sells, Confirming1
  <2>2. Reviewed(q)' => Reviewed(q)
    <3>1. SUFFICES ASSUME Reviewed(q)' PROVE Reviewed(q)
      OBVIOUS
    <3>2. execState' = execState /\ execState.tx \in TxId
      BY <1>0, <1>4, <3>1 DEF Reviewed, NoNewReview, SaleInv, OneConfirmation
    <3>3. QED
      BY <1>2, <3>1, <3>2 DEF Reviewed
  <2>3. QED
    BY <1>5, <2>1, <2>2 DEF FirstOpen
<1>8. \A y \in TxId : SecondTx(y, q)' => SecondTx(y, q) /\ y # x
  BY <1>1, <1>2 DEF SecondTx, SellsBlnd
<1>9. NoSecond(q) => NoSecond(q)'
  BY <1>4, <1>8, NoCompOfNone DEF NoSecond, Starts, SecondOf, InSecond
<1>10. OneSecond(q)'
  <2>1. \A s \in Task : SecondWork(s, q)' => SecondWork(s, q)
    BY <1>4 DEF SecondWork, SecondOf, Starts
  <2>2. QED
    BY <1>8, <2>1 DEF ReceiptOf, OneSecond
<1>11. \A y \in TxId : /\ Landed(y)' <=> Landed(y)
                       /\ Landed(y) => tx'[y] = tx[y]
  BY <1>2 DEF Landed
<1>12. Undisturbed(q)' => Undisturbed(q)
  BY <1>11, StaysUndisturbed
<1>13. Undisturbed(q) => Balances(q)' /\ Readings(q)' /\ Delivered(q)'
  <2>1. Balances(q) => Balances(q)'
    BY <1>11 DEF Balances
  <2>2. Delivered(q) => Delivered(q)'
    BY <1>2, <1>8 DEF Delivered
  <2>3. Undisturbed(q) => Readings(q)'
    BY <1>0, <1>4, NoCompOfNone DEF ReceiptOf, Readings, Reads, Starts
  <2>4. QED
    BY <2>1, <2>2, <2>3 DEF ReceiptOf
<1>14. QED
  BY <1>6, <1>7, <1>9, <1>10, <1>12, <1>13 DEF ReceiptOf, LegsApart

\* The confirmation of a first leg, whose receipt is then waited for.
LEMMA Leg1Receipt ==
  ASSUME FlowInv, NEW q \in Req, ReceiptOf(q), NEW t \in Task, NEW x \in TxId,
         x = task[t].tx, tx[x].status = "ok", Confirms(t), task[t].comp.leg = 1,
         task' = [task EXCEPT ![t].pc = "balWait", ![t].n = 0],
         execState' = Modal("leg1_confirming", NoTx, task[t].comp),
         UNCHANGED <<tx, usdc, usdcSeen, reqs, retried>>
  PROVE  ReceiptOf(q)'
<1>0. /\ TypeOK /\ SaleInv
      /\ Undisturbed(q) /\ task[t].comp.req = q => Reads(t)
  BY DEF FlowInv, SaleInv, TypeInv, ReceiptOf, Readings
<1>1. tx[x].leg = "leg1" /\ tx[x].req = task[t].comp.req
  BY DEF FlowInv, LegInv, HandlerLegs, FirstLegOf
<1>2. Awaits(t) /\ task'[t].pc = "balWait" /\ task'[t].first = task[t].first
  BY <1>0, AwaitReads
<1>3. execState'.comp = task[t].comp /\ execState'.phase # "review"
  BY DEF Modal
<1>4. task[t].comp.req = q => Confirming1(t, q) /\ \A s \in Task : ~WaitsFor(s, q)
  BY <1>1 DEF Confirming1, SellsBlnd, ReceiptOf, OneWaiter
<1>5. \A s \in Task \ {t} : /\ (Confirming1(s, q)' => Confirming1(s, q))
                            /\ (WaitsFor(s, q)' => WaitsFor(s, q))
                            /\ (Sells(s, q)' => Sells(s, q))
  BY <1>2 DEF Awaits, Confirming1, Confirms, WaitsFor, Waits, Sells, Works
<1>6. ~Sells(t, q)' /\ ~Confirming1(t, q)'
  BY <1>2 DEF Sells, Works, Confirms, Confirming, Confirming1
<1>7. WaitsFor(t, q)' => task[t].comp.req = q
  BY <1>2 DEF Awaits, WaitsFor
<1>8. OneWaiter(q)'
  <2>1. ASSUME task[t].comp.req = q, NEW s \in Task \ {t}, Confirming1(s, q) PROVE FALSE
    <3>1. Claims(task[s].tx) /\ task[s].tx \in TxId /\ tx[task[s].tx].req = q
      BY <1>0, <2>1 DEF Confirming1, SaleInv, OneConfirmation, Claims
    <3>2. Claims(x) /\ tx[x].req = q
      BY <1>1, <2>1 DEF Claims, SellsBlnd
    <3>3. task[s].tx = x
      BY <1>0, <3>1, <3>2, OwnSale
    <3>4. QED
      BY <1>0, <2>1, <3>3 DEF Confirming1, SaleInv, OneConfirmation
  <2>2. QED
    BY <1>4, <1>5, <1>6, <1>7, <2>1 DEF ReceiptOf, OneWaiter
<1>9. FirstOpen(q)' => FirstOpen(q)
  <2>1. WaitsFor(t, q)' => Sells(t, q)
    BY <1>4, <1>7 DEF Sells
  <2>2. QED
    BY <1>3, <1>5, <1>6, <2>1 DEF FirstOpen, Reviewed
<1>10. NoSecond(q) => NoSecond(q)'
  <2>1. \A s \in Task : task'[s].leg = task[s].leg /\ task'[s].req = task[s].req
                        /\ task'[s].comp = task[s].comp
    BY <1>2 DEF Awaits
  <2>2. ~InSecond(execState'.comp, q)
    BY <1>3 DEF InSecond
  <2>3. QED
    BY <2>1, <2>2, SameTxReceipt DEF NoSecond, SecondOf
<1>11. OneSecond(q)'
  <2>1. \A s \in Task : SecondWork(s, q)' => SecondWork(s, q)
    BY <1>2 DEF SecondWork, SecondOf, Awaits
  <2>2. QED
    BY <2>1, SameTxReceipt DEF ReceiptOf, OneSecond
<1>12. Undisturbed(q) => Readings(q)'
  BY <1>0, <1>2, <1>3 DEF ReceiptOf, Readings, Reads, Awaits
<1>13. QED
  BY <1>8, <1>9, <1>10, <1>11, <1>12, SameTxReceipt DEF ReceiptOf, LegsApart

\* A confirmation: of a restore, of a first leg, or of a swap that ends there.
LEMMA ConfirmedReceipt ==
  ASSUME FlowInv, NoLeg2Restore, NEW q \in Req, ReceiptOf(q), NEW t \in Task,
         SubmitConfirmed(t) \/ PollSuccess(t)
  PROVE  ReceiptOf(q)'
<1>0. /\ TypeOK /\ SaleInv
      /\ Undisturbed(q) /\ task[t].comp.req = q => Reads(t)
  BY DEF FlowInv, SaleInv, TypeInv, ReceiptOf, Readings
<1>1. PICK x \in TxId : /\ x = task[t].tx /\ tx[x].status = "ok" /\ Confirms(t) /\ AfterConfirm(t)
                        /\ UNCHANGED <<usdc, usdcSeen, reqs, retried>>
  BY DEF SubmitConfirmed, PollSuccess, FlowInv, SaleInv, OneConfirmation, Confirms, Confirming, count
<1>2. CASE tx[x].type = "restore"
  BY <1>1, <1>2, RestoredReceipt DEF AfterConfirm
<1>3. CASE tx[x].type = "swap" /\ task[t].comp.leg = 1
  BY <1>1, <1>3, Leg1Receipt DEF AfterConfirm
<1>4. CASE tx[x].type = "swap" /\ task[t].comp.leg # 1
  <2>1. /\ task' = [task EXCEPT ![t] = Idle] /\ UNCHANGED tx
        /\ execState' = Modal("done", x, task[t].comp)
    BY <1>1, <1>4 DEF AfterConfirm
  <2>2. execState'.phase # "review" /\ execState'.comp = task[t].comp
    BY <2>1 DEF Modal
  <2>3. /\ Reads(t)' /\ task'[t].pc = "idle" /\ task'[t].leg = "swap" /\ task'[t].comp.leg = 0
        /\ ~Waits(t)' /\ \A s \in Task \ {t} : task'[s] = task[s]
    BY <1>0, <2>1, EndedReads, IdleReads
  <2>4. QuietTask(t) /\ NoNewReview
    BY <2>2, <2>3 DEF QuietTask, NoNewReview, Works, Confirms, Confirming
  <2>5. /\ Undisturbed(q) /\ execState'.comp.req = q => Reading(execState'.comp)
        /\ NoSecond(q) => ~InSecond(execState'.comp, q)
    BY <1>0, <2>2 DEF Reads, NoSecond
  <2>6. QED
    BY <1>0, <1>1, <2>1, <2>3, <2>4, <2>5, QuietReceipt DEF WaitsFor, SecondWork, SecondOf, InSecond
<1>5. QED
  BY <1>0, <1>1, <1>2, <1>3, <1>4 DEF TypeOK, TxRec


\* A request starts while nothing of it exists, and leaves the others alone.
LEMMA NewRequestReceipt ==
  ASSUME FlowInv, NEW q \in Req, ReceiptOf(q), NEW t \in Task, NEW r \in Req, NewRequest(r),
         UNCHANGED <<tx, usdc, usdcSeen, retried>>, \A s \in Task \ {t} : task'[s] = task[s],
         Starts(t), ~Confirms(t)', NoNewReview, Works(t)' => task'[t].req = r,
         UNCHANGED execState \/ execState'.comp = NoComp
  PROVE  ReceiptOf(q)'
<1>1. r \notin reqs /\ (q \notin reqs' => q \notin reqs)
  BY DEF NewRequest
<1>2. \A s \in Task : /\ (Confirming1(s, q)' => Confirming1(s, q))
                      /\ (WaitsFor(s, q)' => WaitsFor(s, q))
                      /\ (SecondWork(s, q)' => SecondWork(s, q))
                      /\ (Sells(s, q)' => Sells(s, q) \/ q = r)
  BY DEF Starts, Confirming1, Confirms, Waits, WaitsFor, SecondWork, SecondOf, Sells, Works
<1>3. OneWaiter(q)'
  BY <1>2 DEF ReceiptOf, OneWaiter
<1>4. NoSecond(q) => NoSecond(q)'
  BY NoCompOfNone, SameTxReceipt DEF NoSecond, Starts, SecondOf, InSecond
<1>5. FirstOpen(q)' => FirstOpen(q) \/ q \notin reqs
  BY <1>1, <1>2 DEF FirstOpen, Reviewed, NoNewReview
<1>6. LegsApart(q)'
  BY <1>1, <1>4, <1>5 DEF ReceiptOf, LegsApart
<1>7. OneSecond(q)'
  BY <1>2, SameTxReceipt DEF ReceiptOf, OneSecond
<1>8. Undisturbed(q) => Readings(q)'
  BY NoCompOfNone DEF ReceiptOf, Readings, Reads, Starts
<1>9. QED
  BY <1>3, <1>6, <1>7, <1>8, SameTxReceipt DEF ReceiptOf

\* A confirmation that starts takes the build off the review.
LEMMA ConfirmClickReceipt ==
  ASSUME FlowInv, NEW q \in Req, ReceiptOf(q), NEW t \in Task, ClickConfirm(t)
  PROVE  ReceiptOf(q)'
<1>0. /\ TypeOK /\ SaleInv /\ execState \in ModalRec
      /\ Undisturbed(q) /\ execState.comp.req = q => Reading(execState.comp)
  BY DEF FlowInv, SaleInv, TypeInv, TypeOK, ReceiptOf, Readings
<1> DEFINE x == execState.tx
           e == [Idle EXCEPT !.pc = "sign", !.leg = tx[x].leg, !.req = tx[x].req,
                   !.tx = x, !.comp = execState.comp, !.asset = tx[x].asset]
<1>1. /\ e.pc = "sign" /\ e.leg = tx[x].leg /\ e.req = tx[x].req /\ e.tx = x
      /\ e.comp = execState.comp /\ e.first = Null
  BY DEF Idle
<1>2. task' = [task EXCEPT ![t] = e]
  BY DEF ClickConfirm
<1> HIDE DEF e
<1>3. task'[t] = e /\ \A s \in Task \ {t} : task'[s] = task[s]
  BY <1>0, <1>2 DEF TypeOK
<1>4. /\ UNCHANGED <<tx, usdc, usdcSeen, reqs, retried>> /\ execState'.phase # "review"
      /\ execState.phase = "review" /\ execState'.comp = execState.comp
  BY <1>0 DEF ClickConfirm, ledger, ModalRec
<1>5. x \in TxId /\ tx[x].status = "built"
  BY <1>0, <1>4 DEF SaleInv, OneConfirmation
<1>6. /\ ~Waits(t)' /\ ~Works(t)'
      /\ Confirming1(t, q)' => Reviewed(q)
  BY <1>1, <1>3, <1>4 DEF Waits, Works, Confirming1, Reviewed
<1>7. \A s \in Task \ {t} : /\ (Sells(s, q)' => Sells(s, q))
                            /\ (Confirming1(s, q)' => Confirming1(s, q))
                            /\ (WaitsFor(s, q)' => WaitsFor(s, q))
  BY <1>3, <1>4 DEF Works, Waits, WaitsFor, Confirms, Confirming1, Sells
<1>8. OneWaiter(q)'
  <2>1. ASSUME NEW s \in Task, WaitsFor(s, q)' PROVE s # t /\ WaitsFor(s, q) /\ ~Reviewed(q)
    BY <1>6, <1>7, <2>1, WaiterPaid DEF WaitsFor
  <2>2. QED
    BY <1>6, <1>7, <2>1 DEF ReceiptOf, OneWaiter
<1>9. FirstOpen(q)' => FirstOpen(q)
  BY <1>4, <1>6, <1>7 DEF FirstOpen, Sells, WaitsFor, Reviewed
<1>10. NoSecond(q) => NoSecond(q)'
  BY <1>1, <1>3, <1>4, <1>5, SameTxReceipt DEF NoSecond, SecondTx, SecondOf, InSecond
<1>11. LegsApart(q)'
  BY <1>4, <1>9, <1>10 DEF ReceiptOf, LegsApart
<1>12. OneSecond(q)'
  <2>1. \A s \in Task : SecondWork(s, q)' => SecondWork(s, q)
    BY <1>1, <1>3 DEF SecondWork, SecondOf
  <2>2. QED
    BY <1>4, <2>1, SameTxReceipt DEF ReceiptOf, OneSecond
<1>13. Undisturbed(q) => Readings(q)'
  BY <1>0, <1>1, <1>3, <1>4 DEF ReceiptOf, Readings, Reads
<1>14. QED
  BY <1>4, <1>8, <1>11, <1>12, <1>13, SameTxReceipt DEF ReceiptOf

\* Every click keeps the receipt.
LEMMA ClickReceipt ==
  ASSUME FlowInv, NEW q \in Req, ReceiptOf(q), NEW t \in Task, UserClick(t)
  PROVE  ReceiptOf(q)'
<1>0. /\ TypeOK /\ SaleInv /\ execState \in ModalRec /\ execState.comp \in CompRec
      /\ Undisturbed(q) /\ execState.comp.req = q => Reading(execState.comp)
  BY DEF FlowInv, SaleInv, TypeInv, TypeOK, ModalRec, ReceiptOf, Readings
<1>1. UNCHANGED <<tx, usdc, usdcSeen>> /\ NoNewReview
  BY <1>0, ClicksOpenNoReview
     DEF UserClick, ClickExecute, ClickSbFloor, ClickResumeLeg1, ClickConfirm, ClickRetryLeg2,
     ClickRecover, ClickAddTrustline, ledger
<1>2. CASE ClickExecute(t)
  <2>1. PICK r \in Req : NewRequest(r) /\ DoExecute(t, r)
    BY <1>2 DEF ClickExecute
  <2>2. UNCHANGED retried
    BY <1>2 DEF ClickExecute
  <2>3. QED
    BY <1>0, <1>1, <2>1, <2>2, DoExecuteReads, DoExecuteOwns, NewRequestReceipt
<1>3. CASE ClickSbFloor(t)
  <2>1. PICK r \in Req : NewRequest(r) /\ Enter(t, "build", "swap", r, NoComp, target)
    BY <1>3 DEF ClickSbFloor
  <2>2. /\ task'[t].pc = "build" /\ task'[t].leg = "swap" /\ task'[t].comp = NoComp
        /\ task'[t].req = r
        /\ task'[t].first = Null /\ \A s \in Task \ {t} : task'[s] = task[s]
    BY <1>0, <2>1, EnterFields, EnterComp, EnterReads
  <2>3. Starts(t) /\ ~Confirms(t)' /\ UNCHANGED <<execState, retried>>
    BY <1>3, <2>2, IdleReads DEF ClickSbFloor, Starts, Reads, Waits, Confirms, Confirming
  <2>4. QED
    BY <1>1, <2>1, <2>2, <2>3, NewRequestReceipt
<1>4. CASE ClickResumeLeg1(t)
  <2>1. PICK r \in Req, sb \in BOOLEAN : NewRequest(r) /\ StartLeg1(t, r, sb)
    BY <1>4 DEF ClickResumeLeg1
  <2>2. UNCHANGED <<execState, retried>>
    BY <1>4, <2>1 DEF StartLeg1, ClickResumeLeg1
  <2>3. QED
    BY <1>0, <1>1, <2>1, <2>2, StartLeg1Reads, NewRequestReceipt
<1>5. CASE ClickConfirm(t)
  BY <1>5, ConfirmClickReceipt
<1>6. CASE ClickRetryLeg2(t)
  <2>1. /\ StartLeg2(t, execState.comp) /\ execState.comp.leg = 2 /\ UNCHANGED reqs
        /\ retried' = retried \cup {execState.comp.req}
    BY <1>6 DEF ClickRetryLeg2
  <2>2. execState.comp.req # q \/ (q \in retried' /\ ~NoSecond(q))
    BY <2>1 DEF NoSecond, InSecond
  <2>3. PICK c \in CompRec : c = execState.comp
    BY <1>0
  <2>4. QED
    BY <1>0, <1>1, <2>1, <2>2, <2>3, StartLeg2Receipt
<1>7. CASE ClickRecover(t)
  <2> DEFINE e == [Idle EXCEPT !.pc = "recKit"]
  <2>1. e.pc = "recKit" /\ e.leg = "swap" /\ e.comp = NoComp /\ e.first = Null
    BY DEF Idle
  <2>2. task' = [task EXCEPT ![t] = e] /\ UNCHANGED <<execState, reqs, retried>>
    BY <1>7 DEF ClickRecover, count
  <2> HIDE DEF e
  <2>3. task'[t] = e /\ \A s \in Task \ {t} : task'[s] = task[s]
    BY <1>0, <2>2 DEF TypeOK
  <2>4. QuietTask(t) /\ ~Waits(t)'
    BY <2>1, <2>3 DEF QuietTask, Works, Confirms, Confirming, Waits
  <2>5. Reads(t)' /\ task'[t].leg # "leg2" /\ task'[t].comp.leg # 2
    BY <2>1, <2>3, IdleReads DEF Reads
  <2>6. NoSecond(q) => ~InSecond(execState'.comp, q)
    BY <2>2 DEF NoSecond
  <2>7. Undisturbed(q) /\ execState'.comp.req = q => Reading(execState'.comp)
    BY <1>0, <2>2
  <2>8. ~WaitsFor(t, q)' /\ ~SecondOf(t, q)' /\ ~SecondWork(t, q)' /\ ~InSecond(task'[t].comp, q)
    BY <2>4, <2>5 DEF WaitsFor, SecondOf, SecondWork, InSecond
  <2>9. QED
    BY <1>0, <1>1, <2>2, <2>4, <2>5, <2>6, <2>7, <2>8, QuietReceipt
<1>8. CASE ClickAddTrustline(t)
  <2>1. UNCHANGED <<reqs, retried>>
    BY <1>8 DEF ClickAddTrustline, count
  <2>2. CASE wallet
    <3>1. /\ Enter(t, "trust", "swap", NoReq, execState.comp, Missing)
          /\ execState' = [Modal("trustline_adding", NoTx, execState.comp) EXCEPT !.asset = Missing]
      BY <1>8, <2>2 DEF ClickAddTrustline
    <3>2. /\ task'[t].pc = "trust" /\ task'[t].leg = "swap" /\ task'[t].comp = execState.comp
          /\ task'[t].first = Null /\ \A s \in Task \ {t} : task'[s] = task[s]
      BY <1>0, <3>1, EnterFields, EnterComp, EnterReads
    <3>3. execState'.comp = execState.comp
      BY <3>1 DEF Modal
    <3>4. QuietTask(t) /\ ~WaitsFor(t, q)' /\ ~SecondOf(t, q)' /\ ~SecondWork(t, q)'
      BY <3>2 DEF QuietTask, Works, Confirms, Confirming, Waits, WaitsFor, SecondOf, SecondWork
    <3>5. NoSecond(q) => ~InSecond(task'[t].comp, q) /\ ~InSecond(execState'.comp, q)
      BY <3>2, <3>3 DEF NoSecond
    <3>6. Undisturbed(q) => /\ task'[t].comp.req = q => Reads(t)'
                            /\ execState'.comp.req = q => Reading(execState'.comp)
      BY <1>0, <3>2, <3>3 DEF Reads
    <3>7. QED
      BY <1>0, <1>1, <2>1, <3>4, <3>5, <3>6, QuietReceipt
  <2>3. CASE ~wallet
    <3>1. UNCHANGED task /\ execState' = ErrorModal(NoComp)
      BY <1>8, <2>3 DEF ClickAddTrustline
    <3>2. execState'.comp = NoComp
      BY <3>1, ErrorModalFields
    <3>3. QuietTask(t) /\ (WaitsFor(t, q)' => WaitsFor(t, q)) /\ (SecondWork(t, q)' => SecondWork(t, q))
      BY <3>1 DEF QuietTask, Works, Confirms, Waits, WaitsFor, SecondOf, SecondWork
    <3>4. NoSecond(q) => /\ ~SecondOf(t, q)' /\ ~InSecond(task'[t].comp, q)
                         /\ ~InSecond(execState'.comp, q)
      BY <3>1, <3>2, NoCompOfNone DEF NoSecond, SecondOf
    <3>5. Undisturbed(q) => /\ task'[t].comp.req = q => Reads(t)'
                            /\ execState'.comp.req = q => Reading(execState'.comp)
      BY <3>1, <3>2, NoCompOfNone DEF ReceiptOf, Readings, Reads
    <3>6. QED
      BY <1>0, <1>1, <2>1, <3>3, <3>4, <3>5, QuietReceipt
  <2>4. QED
    BY <2>2, <2>3
<1>9. QED
  BY <1>2, <1>3, <1>4, <1>5, <1>6, <1>7, <1>8 DEF UserClick

\* A change of status alone: the ledger applies at most one sale of a request,
\* to the balance held beforehand.
LEMMA StatusReceipt ==
  ASSUME FlowInv, NEW q \in Req, ReceiptOf(q), NEW x \in TxId, NEW s \in {"sent", "failed", "ok"},
         tx[x].status \in {"built", "sent"}, tx' = [tx EXCEPT ![x].status = s],
         UNCHANGED <<task, execState, usdcSeen, reqs, retried>>,
         \/ s # "ok" /\ UNCHANGED usdc
         \/ s = "ok" /\ usdc' = usdc + UsdcChange(tx[x])
  PROVE  ReceiptOf(q)'
<1>0. TypeOK /\ SaleInv /\ InitialUsdc \in Nat /\ tx[x] \in TxRec
  BY ConstantsAssumption DEF FlowInv, SaleInv, TypeInv, TypeOK
<1>1. /\ tx'[x].status = s /\ tx'[x].leg = tx[x].leg /\ tx'[x].amt = tx[x].amt
      /\ tx'[x].type = tx[x].type /\ tx'[x].asset = tx[x].asset /\ tx'[x].req = tx[x].req
      /\ \A y \in TxId \ {x} : tx'[y] = tx[y]
  BY <1>0 DEF TypeOK, TxRec
<1>2. \A y \in TxId : /\ tx'[y].leg = tx[y].leg /\ tx'[y].amt = tx[y].amt
                      /\ tx'[y].req = tx[y].req
                      /\ (tx'[y].status = "free") <=> (tx[y].status = "free")
  BY <1>1
<1>3. \A t \in Task : Confirms(t) => task[t].tx \in TxId
  BY <1>0 DEF SaleInv, OneConfirmation
<1>4. execState.phase = "review" => execState.tx \in TxId
  BY <1>0 DEF SaleInv, OneConfirmation
<1>5. \A t \in Task : /\ (Confirming1(t, q)' => Confirming1(t, q))
                      /\ (Sells(t, q)' => Sells(t, q)) /\ (WaitsFor(t, q)' => WaitsFor(t, q))
                      /\ (SecondWork(t, q)' => SecondWork(t, q))
  BY <1>2, <1>3 DEF Confirming1, Confirms, Works, Waits, WaitsFor, Sells, SecondWork, SecondOf
<1>6. \A y \in TxId : SecondTx(y, q)' <=> SecondTx(y, q)
  BY <1>2 DEF SecondTx
<1>7. OneWaiter(q)'
  BY <1>5 DEF ReceiptOf, OneWaiter
<1>8. FirstOpen(q)' => FirstOpen(q)
  BY <1>2, <1>4, <1>5 DEF FirstOpen, Reviewed
<1>9. NoSecond(q) => NoSecond(q)'
  BY <1>6 DEF NoSecond, SecondOf
<1>10. LegsApart(q)'
  BY <1>8, <1>9 DEF ReceiptOf, LegsApart
<1>11. OneSecond(q)'
  BY <1>5, <1>6 DEF ReceiptOf, OneSecond
<1>12. ~Landed(x) /\ \A y \in TxId : /\ Landed(y) => tx'[y] = tx[y]
                                     /\ y # x => (Landed(y)' <=> Landed(y))
  BY <1>1 DEF Landed
<1>13. Undisturbed(q)' => Undisturbed(q)
  BY <1>12, StaysUndisturbed
<1>14. Undisturbed(q) => Readings(q)' /\ Delivered(q)'
  BY <1>2, <1>6 DEF ReceiptOf, Readings, Reads, Delivered
<1>15. Undisturbed(q)' => Balances(q)'
  <2>1. SUFFICES ASSUME Undisturbed(q)', Undisturbed(q), Balances(q) PROVE Balances(q)'
    BY <1>13 DEF ReceiptOf
  <2>2. ASSUME Landed(x)' => tx[x].req # q, usdc' = usdc PROVE Balances(q)'
    BY <1>2, <1>12, <2>1, <2>2 DEF Balances
  <2>3. CASE ~Landed(x)'
    <3>1. usdc' = usdc
      BY <1>0, <1>1, <2>3 DEF Landed, UsdcChange, TypeOK, TxRec
    <3>2. QED
      BY <2>2, <2>3, <3>1
  <2>4. CASE Landed(x)'
    <3>1. tx[x].type = "swap" /\ usdc' = usdc + UsdcChange(tx[x])
      BY <1>1, <2>4 DEF Landed
    <3>2. CASE tx[x].req # q
      <4>1. UsdcChange(tx'[x]) = 0 /\ UsdcChange(tx'[x]) = UsdcChange(tx[x])
        BY <1>1, <2>1, <2>4, <3>2 DEF Undisturbed, UsdcChange
      <4>2. usdc' = usdc
        BY <1>0, <3>1, <4>1 DEF TypeOK
      <4>3. QED
        BY <2>2, <3>2, <4>2
    <3>3. CASE tx[x].req = q /\ tx[x].leg = "leg2"
      BY <1>1, <2>4, <3>3 DEF Balances
    <3>4. CASE tx[x].req = q /\ tx[x].leg \in SellsBlnd
      <4>1. Claims(x)
        BY <3>4 DEF Claims
      <4>2. SUFFICES ASSUME \A y \in TxId : Landed(y)' /\ tx'[y].req = q => tx'[y].leg # "leg2"
                     PROVE  /\ usdc' \in {InitialUsdc, InitialUsdc + Proceeds}
                            /\ usdcSeen' \in {InitialUsdc, InitialUsdc + Proceeds}
        BY <1>1, <2>4, <3>4 DEF Balances
      <4>3. \A y \in TxId : Landed(y) => tx[y].req # q
        <5>1. SUFFICES ASSUME NEW y \in TxId, Landed(y), tx[y].req = q PROVE FALSE
          OBVIOUS
        <5>2. y # x /\ tx[y].leg # "leg2"
          BY <1>2, <1>12, <4>2, <5>1
        <5>3. Claims(y)
          BY <1>0, <5>1, <5>2 DEF Claims, Landed, TypeOK, TxRec, Leg, SellsBlnd
        <5>4. QED
          BY <1>0, <3>4, <4>1, <5>1, <5>2, <5>3, OwnSale
      <4>4. usdc = InitialUsdc /\ usdcSeen = InitialUsdc
        BY <2>1, <4>3 DEF Balances
      <4>5. UsdcChange(tx[x]) \in {0, Proceeds}
        BY <3>4 DEF UsdcChange, SellsBlnd
      <4>6. QED
        BY <1>0, <3>1, <4>4, <4>5 DEF Proceeds
    <3>5. QED
      BY <1>0, <3>2, <3>3, <3>4 DEF TxRec, Leg, SellsBlnd
  <2>5. QED
    BY <2>3, <2>4
<1>16. QED
  BY <1>7, <1>10, <1>11, <1>13, <1>14, <1>15 DEF ReceiptOf

\* A step that leaves handlers and transactions alone.
LEMMA PageReceipt ==
  ASSUME NEW q \in Req, ReceiptOf(q), UNCHANGED <<task, tx, usdc, reqs, retried>>,
         UNCHANGED execState \/ execState' = Closed,
         usdcSeen' \in {usdcSeen, usdc}
  PROVE  ReceiptOf(q)'
<1>1. Closed.phase # "review" /\ Closed.comp = NoComp
  BY DEF Closed, Modal
<1>2. OneWaiter(q)'
  BY DEF ReceiptOf, OneWaiter, Waits, WaitsFor, Confirms, Confirming1
<1>3. FirstOpen(q)' => FirstOpen(q)
  BY <1>1 DEF FirstOpen, Sells, Works, Waits, WaitsFor, Confirms, Confirming1, Reviewed
<1>4. NoSecond(q) => NoSecond(q)'
  BY <1>1, NoCompOfNone DEF NoSecond, SecondTx, SecondOf
<1>5. LegsApart(q)'
  BY <1>3, <1>4 DEF ReceiptOf, LegsApart
<1>6. OneSecond(q)'
  BY DEF ReceiptOf, OneSecond, SecondWork, SecondOf, SecondTx
<1>7. Undisturbed(q)' => Undisturbed(q)
  BY StaysUndisturbed
<1>8. Undisturbed(q) => Balances(q)' /\ Delivered(q)'
  BY DEF ReceiptOf, Balances, Delivered, SecondTx, Landed
<1>9. Undisturbed(q) => Readings(q)'
  BY <1>1, NoCompOfNone DEF ReceiptOf, Readings, Reads
<1>10. QED
  BY <1>2, <1>5, <1>6, <1>7, <1>8, <1>9 DEF ReceiptOf

\* Every step keeps the receipt of every request.
LEMMA ReceiptStep ==
  ASSUME FlowInv, NoLeg2Restore, ReceiptInv, [Next]_vars PROVE ReceiptInv'
<1>0. SUFFICES ASSUME NEW q \in Req, ReceiptOf(q) PROVE ReceiptOf(q)'
  BY DEF ReceiptInv
<1>1. CASE \/ UNCHANGED vars \/ EditPage \/ DoSim \/ SimAnswer \/ ToggleWallet
           \/ HorizonCatchesUp \/ ClickClose
  <2>1. /\ UNCHANGED <<task, tx, usdc, reqs, retried>>
        /\ (UNCHANGED execState \/ execState' = Closed)
        /\ usdcSeen' \in {usdcSeen, usdc}
    BY <1>1 DEF vars, EditPage, DoSim, SimAnswer, ToggleWallet, HorizonCatchesUp, ClickClose,
       ledger, count
  <2>2. QED
    BY <1>0, <2>1, PageReceipt
<1>2. ASSUME NEW t \in Task, SubmitFires(t) PROVE ReceiptOf(q)'
  <2>1. PICK x \in TxId : x = task[t].tx
    BY <1>2 DEF SubmitFires, FlowInv, SaleInv, OneConfirmation, Confirms, Confirming
  <2>2. /\ tx' = [tx EXCEPT ![x].status = "sent"] /\ tx[x].status = "built"
        /\ UNCHANGED <<task, execState, usdc, usdcSeen, reqs, retried>>
    BY <1>2, <2>1 DEF SubmitFires, count
  <2>3. QED
    BY <1>0, <2>2, StatusReceipt
<1>3. ASSUME NEW x \in TxId, LedgerApply(x) PROVE ReceiptOf(q)'
  <2>1. PICK s \in {"failed", "ok"} :
          /\ tx' = [tx EXCEPT ![x].status = s] /\ tx[x].status = "sent"
          /\ UNCHANGED <<task, execState, usdcSeen, reqs, retried>>
          /\ \/ s # "ok" /\ UNCHANGED usdc
             \/ s = "ok" /\ usdc' = usdc + UsdcChange(tx[x])
    BY <1>3 DEF LedgerApply, count
  <2>2. QED
    BY <1>0, <2>1, StatusReceipt
<1>4. ASSUME NEW t \in Task, TaskStep(t) \/ SbProgress(t) PROVE ReceiptOf(q)'
  BY <1>0, <1>4, HandlerReceipt, BuildReceipt, ConfirmedReceipt, BalAnswerReceipt DEF TaskStep
<1>5. ASSUME NEW t \in Task, UserClick(t) PROVE ReceiptOf(q)'
  BY <1>0, <1>5, ClickReceipt
<1>6. QED
  BY <1>1, <1>2, <1>3, <1>4, <1>5 DEF Next

\* At first nothing was read, nothing landed and no leg exists.
LEMMA InitReceipt == ASSUME Init PROVE ReceiptInv
<1>1. /\ \A t \in Task : /\ task[t].pc = "idle" /\ task[t].leg = "swap" /\ task[t].comp.leg = 0
                         /\ task[t].first = Null /\ Reading(task[t].comp)
      /\ \A x \in TxId : tx[x].status = "free"
      /\ execState.phase = "none" /\ execState.comp.leg = 0 /\ Reading(execState.comp)
  BY DEF Init, Idle, FreeTx, Closed, Modal, NoComp, Reading
<1>2. SUFFICES ASSUME NEW q \in Req PROVE ReceiptOf(q)
  BY DEF ReceiptInv
<1>3. NoSecond(q) /\ OneWaiter(q) /\ OneSecond(q) /\ Delivered(q)
  BY <1>1 DEF OneWaiter, OneSecond, Delivered, NoSecond, Waits, WaitsFor, SecondTx, SecondOf,
     InSecond, SecondWork
<1>4. Balances(q) /\ Readings(q)
  BY <1>1 DEF Init, Balances, Readings, Reads
<1>5. QED
  BY <1>3, <1>4 DEF ReceiptOf, LegsApart

\* A second leg belongs to a request that was made.
LEMMA SecondAsked ==
  ASSUME FlowInv, NEW x \in TxId, tx[x].status # "free", tx[x].leg = "leg2"
  PROVE  tx[x].req \in reqs /\ tx[x].req \in Req
<1>1. PICK y \in TxId : Landed(y) /\ tx[y].leg = "leg1" /\ tx[y].req = tx[x].req
  BY DEF FlowInv, LegInv, Leg2AfterLeg1
<1>2. Claims(y)
  BY <1>1 DEF Claims, Landed, SellsBlnd
<1>3. QED
  BY <1>1, <1>2 DEF FlowInv, SaleInv, OneOwner, TypeInv, TypeOK

\* Of any number of overlapping requests, one whose USDC no other request moves
\* sells in its second leg what its first one delivered and none of the USDC
\* held beforehand, however stale or lost the readings of the balance and
\* however often the second leg is retried.
THEOREM ReceiptSold ==
  ASSUME NoLeg2Restore PROVE Spec => []Leg2SellsTheReceipt
<1>1. Init => FlowInv /\ ReceiptInv
  BY FlowInit, InitReceipt
<1>2. FlowInv /\ ReceiptInv /\ [Next]_vars => (FlowInv /\ ReceiptInv)'
  BY SaleStep, LegStep, ReceiptStep DEF FlowInv
<1>3. FlowInv /\ ReceiptInv => Leg2SellsTheReceipt
  BY SecondAsked DEF ReceiptInv, ReceiptOf, Delivered, SecondTx, Leg2SellsTheReceipt
<1>4. QED
  BY <1>1, <1>2, <1>3, PTL DEF Spec

-----------------------------------------------------------------------------
(* The refinement: every step is one step of Settlement, or none.          *)

\* No transaction is newly applied.
NoneLands ==
  \A x \in TxId : /\ Landed(x)' <=> Landed(x)
                  /\ Landed(x) => tx'[x].leg = tx[x].leg /\ tx'[x].req = tx[x].req

\* One is, and no other transaction changes.
Lands(x) ==
  /\ ~Landed(x) /\ Landed(x)' /\ \A y \in TxId \ {x} : tx'[y] = tx[y]
  /\ tx'[x].leg \in Leg

\* A build, a submission, a refusal or the end of a restore applies nothing.
LEMMA StatusLandsNone ==
  ASSUME TypeOK, NEW x \in TxId, NEW s, s # "ok" \/ tx[x].type = "restore",
         tx[x].status # "ok" \/ tx[x].type = "restore",
         tx' = [tx EXCEPT ![x].status = s]
  PROVE  NoneLands
<1>1. /\ tx'[x].status = s /\ tx'[x].type = tx[x].type
      /\ \A y \in TxId \ {x} : tx'[y] = tx[y]
  BY DEF TypeOK, TxRec
<1>2. tx[x].type = "restore" => tx[x].type # "swap"
  OBVIOUS
<1>3. QED
  BY <1>1, <1>2 DEF NoneLands, Landed

\* What each step of a handler does to the transactions and the requests.
LEMMA HandlerLands ==
  ASSUME SaleInv, NEW t \in Task, TaskStep(t) \/ SbProgress(t)
  PROVE  UNCHANGED <<reqs, retried>> /\ (NoneLands \/ \E x \in TxId : Lands(x))
<1>0. TypeOK
  BY DEF SaleInv, TypeInv
<1>1. UNCHANGED <<reqs, retried>>
  BY DEF TaskStep, SbProgress, BalBeforeAnswer, BuildReview, BuildError, Signed, ConfirmError,
     SubmitPending, SubmitConfirmed, PollCheck, PollSuccess, PollFailed, PollNoNews, BalCheck,
     BalAnswer, SbShow, SbKeyAnswer, SbEnd, RecoverShow, RecoverEnd, TrustlineEnd, count
<1>2. CASE UNCHANGED tx
  BY <1>1, <1>2 DEF NoneLands, Landed
<1>3. CASE BuildReview(t)
  <2>1. PICK ty \in {"swap", "restore"}, ve \in {"sync", "poll"}, fw \in BOOLEAN :
       tx' = [tx EXCEPT ![Fresh] =
            [status |-> "built", leg |-> task[t].leg, type |-> ty, venue |-> ve,
             fw |-> fw, asset |-> task[t].asset, amt |-> task[t].comp.got,
             req |-> task[t].req]]
    BY <1>3 DEF BuildReview
  <2> DEFINE r == [status |-> "built", leg |-> task[t].leg, type |-> ty, venue |-> ve,
                   fw |-> fw, asset |-> task[t].asset, amt |-> task[t].comp.got,
                   req |-> task[t].req]
  <2>2. r.status = "built"
    OBVIOUS
  <2> HIDE DEF r
  <2>3. PICK x \in TxId : x = Fresh /\ tx[x].status = "free"
    BY <1>3, FreshIsFree DEF BuildReview
  <2>4. tx'[x] = r /\ \A y \in TxId \ {x} : tx'[y] = tx[y]
    BY <1>0, <2>1, <2>3 DEF TypeOK, r
  <2>5. QED
    BY <1>1, <2>2, <2>3, <2>4 DEF NoneLands, Landed
<1>4. CASE SubmitConfirmed(t) \/ PollSuccess(t)
  <2>1. PICK x \in TxId : x = task[t].tx /\ tx[x].status = "ok" /\ AfterConfirm(t)
    BY <1>4 DEF SubmitConfirmed, PollSuccess, SaleInv, OneConfirmation, Confirms, Confirming
  <2>2. \/ UNCHANGED tx
        \/ tx[x].type = "restore" /\ tx' = [tx EXCEPT ![x].status = "spent"]
    BY <2>1 DEF AfterConfirm
  <2>3. QED
    BY <1>0, <1>1, <1>2, <2>2, StatusLandsNone
<1>5. CASE SbEnd(t) /\ SbSale(t)
  <2> DEFINE r == [FreeTx EXCEPT !.status = "ok", !.leg = task[t].leg,
                     !.asset = task[t].asset, !.amt = task[t].comp.got, !.req = task[t].req]
  <2>1. r.status = "ok" /\ r.type = "swap" /\ r.leg \in Leg
    BY <1>0, TaskFields DEF FreeTx
  <2>2. PICK x \in TxId : x = Fresh /\ tx[x].status = "free" /\ tx' = [tx EXCEPT ![x] = r]
    BY <1>5, FreshIsFree DEF SbSale
  <2> HIDE DEF r
  <2>3. tx'[x] = r /\ \A y \in TxId \ {x} : tx'[y] = tx[y]
    BY <1>0, <2>2 DEF TypeOK
  <2>4. Lands(x)
    BY <2>1, <2>2, <2>3 DEF Lands, Landed
  <2>5. QED
    BY <1>1, <2>4
<1>6. CASE SbEnd(t) /\ ~SbSale(t)
  BY <1>2, <1>6 DEF SbEnd
<1>7. QED
  BY <1>2, <1>3, <1>4, <1>5, <1>6 DEF TaskStep, SbProgress, BalBeforeAnswer, BuildError, Signed,
     ConfirmError, SubmitPending, PollCheck, PollFailed, PollNoNews, BalCheck, BalAnswer, SbShow,
     SbKeyAnswer, RecoverShow, RecoverEnd, TrustlineEnd, ledger

\* Every step applies nothing, takes up a request, tries a second leg again, or
\* applies one transaction.
LEMMA StepLands ==
  ASSUME FlowInv, [Next]_vars
  PROVE  \/ NoneLands /\ UNCHANGED <<reqs, retried>>
         \/ NoneLands /\ UNCHANGED retried /\ \E r \in Req : NewRequest(r)
         \/ NoneLands /\ UNCHANGED reqs /\ \E r \in Paid : retried' = retried \cup {r}
         \/ UNCHANGED <<reqs, retried>> /\ \E x \in TxId : Lands(x)
<1>0. TypeOK /\ SaleInv
  BY DEF FlowInv, SaleInv, TypeInv
<1>1. CASE \/ UNCHANGED vars \/ EditPage \/ DoSim \/ SimAnswer \/ ToggleWallet
           \/ HorizonCatchesUp \/ ClickClose
  <2>1. UNCHANGED <<tx, reqs, retried>>
    BY <1>1 DEF vars, EditPage, DoSim, SimAnswer, ToggleWallet, HorizonCatchesUp, ClickClose,
       ledger, count
  <2>2. QED
    BY <2>1 DEF NoneLands, Landed
<1>2. ASSUME NEW t \in Task, SubmitFires(t) PROVE NoneLands /\ UNCHANGED <<reqs, retried>>
  <2>1. PICK x \in TxId : x = task[t].tx /\ tx[x].status = "built"
    BY <1>0, <1>2 DEF SubmitFires, SaleInv, OneConfirmation, Confirms, Confirming
  <2>2. tx' = [tx EXCEPT ![x].status = "sent"] /\ UNCHANGED <<reqs, retried>>
    BY <1>2, <2>1 DEF SubmitFires, count
  <2>3. QED
    BY <1>0, <2>1, <2>2, StatusLandsNone
<1>3. ASSUME NEW x \in TxId, LedgerApply(x)
      PROVE  UNCHANGED <<reqs, retried>> /\ (NoneLands \/ Lands(x))
  <2>1. PICK s \in {"failed", "ok"} : /\ tx' = [tx EXCEPT ![x].status = s]
                                      /\ tx[x].status = "sent" /\ UNCHANGED <<reqs, retried>>
    BY <1>3 DEF LedgerApply, count
  <2>2. CASE s = "failed" \/ tx[x].type = "restore"
    BY <1>0, <2>1, <2>2, StatusLandsNone
  <2>3. CASE s = "ok" /\ tx[x].type = "swap"
    <3>1. /\ tx'[x].status = "ok" /\ tx'[x].type = "swap" /\ tx'[x].leg \in Leg
          /\ \A y \in TxId \ {x} : tx'[y] = tx[y]
      BY <1>0, <2>1, <2>3 DEF TypeOK, TxRec
    <3>2. QED
      BY <2>1, <3>1 DEF Lands, Landed
  <2>4. QED
    BY <1>0, <2>1, <2>2, <2>3 DEF TypeOK, TxRec
<1>4. ASSUME NEW t \in Task, UserClick(t)
      PROVE  /\ NoneLands
             /\ \/ UNCHANGED <<reqs, retried>>
                \/ UNCHANGED retried /\ \E r \in Req : NewRequest(r)
                \/ UNCHANGED reqs /\ \E r \in Paid : retried' = retried \cup {r}
  <2>1. UNCHANGED tx
    BY <1>4 DEF UserClick, ClickExecute, ClickSbFloor, ClickResumeLeg1, ClickConfirm,
       ClickRetryLeg2, ClickRecover, ClickAddTrustline, ledger
  <2>2. CASE ClickRetryLeg2(t)
    <3>1. execState.comp.req \in Paid
      BY <2>2 DEF ClickRetryLeg2, FlowInv, LegInv, ModalLegs
    <3>2. QED
      BY <2>1, <2>2, <3>1 DEF ClickRetryLeg2, NoneLands, Landed
  <2>3. CASE ~ClickRetryLeg2(t)
    <3>1. UNCHANGED retried /\ (UNCHANGED reqs \/ \E r \in Req : NewRequest(r))
      BY <1>4, <2>3 DEF UserClick, ClickExecute, ClickSbFloor, ClickResumeLeg1, ClickConfirm,
         ClickRecover, ClickAddTrustline, count
    <3>2. QED
      BY <2>1, <3>1 DEF NoneLands, Landed
  <2>4. QED
    BY <2>2, <2>3
<1>5. ASSUME NEW t \in Task, TaskStep(t) \/ SbProgress(t)
      PROVE  UNCHANGED <<reqs, retried>> /\ (NoneLands \/ \E x \in TxId : Lands(x))
  BY <1>0, <1>5, HandlerLands
<1>6. QED
  BY <1>1, <1>2, <1>3, <1>4, <1>5 DEF Next

\* What Settlement reads off the ledger: the legs applied for a request.
LEMMA AppliedLegs ==
  ASSUME NEW r, NEW legs
  PROVE  Settled!Applied(r, legs) # {} <=>
           \E y \in TxId : Landed(y) /\ tx[y].req = r /\ tx[y].leg \in legs
<1> DEFINE rec(y) == [req |-> tx[y].req, leg |-> tx[y].leg, tx |-> y]
<1>1. ASSUME NEW y \in TxId, Landed(y), tx[y].req = r, tx[y].leg \in legs
      PROVE  rec(y) \in Settled!Applied(r, legs)
  BY <1>1 DEF Settled!Applied, LandedLegs
<1>2. ASSUME NEW a \in Settled!Applied(r, legs)
      PROVE  \E y \in TxId : Landed(y) /\ tx[y].req = r /\ tx[y].leg \in legs
  <2>1. PICK y \in TxId : Landed(y) /\ a = rec(y)
    BY <1>2 DEF Settled!Applied, LandedLegs
  <2>2. a.req = r /\ a.leg \in legs
    BY <1>2 DEF Settled!Applied
  <2>3. QED
    BY <2>1, <2>2
<1> HIDE DEF rec
<1>3. QED
  BY <1>1, <1>2

\* As long as nothing lands it stays the same.
LEMMA NoneLandsLegs == ASSUME NoneLands PROVE LandedLegs' = LandedLegs
<1> DEFINE rec(y) == [req |-> tx[y].req, leg |-> tx[y].leg, tx |-> y]
           new(y) == [req |-> tx'[y].req, leg |-> tx'[y].leg, tx |-> y]
<1>1. \A y \in TxId : Landed(y) => rec(y) = new(y)
  BY DEF NoneLands
<1>2. \A y \in TxId : Landed(y)' <=> Landed(y)
  BY DEF NoneLands
<1>3. LandedLegs = {rec(y) : y \in {z \in TxId : Landed(z)}}
  BY DEF LandedLegs
<1>4. LandedLegs' = {new(y) : y \in {z \in TxId : Landed(z)'}}
  BY DEF LandedLegs
<1> HIDE DEF rec, new
<1>5. QED
  BY <1>1, <1>2, <1>3, <1>4

\* A transaction that lands is added to it.
LEMMA LandingAdds ==
  ASSUME NEW x \in TxId, Lands(x)
  PROVE  Settled!Land(tx'[x].req, tx'[x].leg, x)
<1> DEFINE rec(y) == [req |-> tx[y].req, leg |-> tx[y].leg, tx |-> y]
           new(y) == [req |-> tx'[y].req, leg |-> tx'[y].leg, tx |-> y]
<1>1. \A y \in TxId \ {x} : new(y) = rec(y) /\ (Landed(y)' <=> Landed(y))
  BY DEF Lands, Landed
<1>2. Landed(x)' /\ ~Landed(x)
  BY DEF Lands
<1>3. LandedLegs = {rec(y) : y \in {z \in TxId : Landed(z)}}
  BY DEF LandedLegs
<1>4. LandedLegs' = {new(y) : y \in {z \in TxId : Landed(z)'}}
  BY DEF LandedLegs
<1>5. SUFFICES LandedLegs' = LandedLegs \cup {new(x)}
  BY DEF Settled!Land
<1> HIDE DEF rec, new
<1>6. ASSUME NEW a \in LandedLegs' PROVE a \in LandedLegs \cup {new(x)}
  BY <1>1, <1>2, <1>3, <1>4, <1>6
<1>7. ASSUME NEW a \in LandedLegs \cup {new(x)} PROVE a \in LandedLegs'
  BY <1>1, <1>2, <1>3, <1>4, <1>7
<1>8. QED
  BY <1>6, <1>7

\* A transaction that lands is a sale of a request that has sold nothing, or a
\* conversion, the first of its request or one the user asked for.
LEMMA LandingMoves ==
  ASSUME FlowInv, FlowInv', ReceiptInv', UNCHANGED <<reqs, retried>>, NEW x \in TxId, Lands(x)
  PROVE  Settled!Next
<1>1. /\ ~Landed(x) /\ Landed(x)' /\ tx'[x].leg \in Leg
      /\ \A y \in TxId : Landed(y) => y # x /\ tx'[y] = tx[y] /\ Landed(y)'
  BY DEF Lands, Landed
<1>2. ASSUME tx'[x].leg \in SellsBlnd PROVE Settled!Next
  <2>1. Claims(x)'
    BY <1>1, <1>2 DEF Claims, Landed
  <2>2. PICK r \in Req : r = tx'[x].req /\ r \in reqs
    BY <2>1 DEF FlowInv, SaleInv, OneOwner, TypeInv, TypeOK
  <2>3. ASSUME NEW y \in TxId, Landed(y), tx[y].req = r, tx[y].leg \in {"swap", "leg1"} PROVE FALSE
    <3>1. Claims(y)' /\ tx'[y].req = r /\ y # x
      BY <1>1, <2>3 DEF Claims, Landed, SellsBlnd
    <3>2. QED
      BY <2>1, <2>2, <3>1 DEF FlowInv, SaleInv, OneOwner
  <2>4. Settled!Applied(r, {"swap", "leg1"}) = {}
    BY <2>3, AppliedLegs
  <2>5. Settled!Sell(r, x)
    BY <1>2, <2>2, <2>4, LandingAdds DEF Settled!Sell, SellsBlnd
  <2>6. QED
    BY <2>5 DEF Settled!Next
<1>3. ASSUME tx'[x].leg = "leg2" PROVE Settled!Next
  <2>1. PICK y \in TxId : Landed(y)' /\ tx'[y].leg = "leg1" /\ tx'[y].req = tx'[x].req
    BY <1>1, <1>3 DEF FlowInv, LegInv, Leg2AfterLeg1, Landed
  <2>2. y # x /\ Landed(y) /\ tx[y] = tx'[y]
    BY <1>3, <2>1 DEF Lands, Landed
  <2>3. PICK r \in Req : r = tx'[x].req
    <3>1. Claims(y)'
      BY <2>1 DEF Claims, Landed, SellsBlnd
    <3>2. QED
      BY <2>1, <3>1 DEF FlowInv, SaleInv, OneOwner, TypeInv, TypeOK
  <2>4. Settled!Applied(r, {"leg1"}) # {}
    BY <2>1, <2>2, <2>3, AppliedLegs
  <2>5. ASSUME NEW z \in TxId, Landed(z), tx[z].req = r, tx[z].leg = "leg2" PROVE r \in retried
    <3>1. SecondTx(z, r)' /\ SecondTx(x, r)' /\ z # x
      BY <1>1, <1>3, <2>3, <2>5 DEF SecondTx, Landed
    <3>2. QED
      BY <3>1 DEF ReceiptInv, ReceiptOf, OneSecond
  <2>6. Settled!Applied(r, {"leg2"}) # {} => r \in retried
    BY <2>5, AppliedLegs
  <2>7. Settled!Convert(r, x)
    BY <1>3, <2>3, <2>4, <2>6, LandingAdds DEF Settled!Convert
  <2>8. QED
    BY <2>7 DEF Settled!Next
<1>4. QED
  BY <1>1, <1>2, <1>3 DEF Leg, SellsBlnd

\* A second leg is tried again only for a request whose first one landed.
LEMMA RetryMoves ==
  ASSUME FlowInv, NoneLands, UNCHANGED reqs, NEW r \in Paid, retried' = retried \cup {r}
  PROVE  Settled!Next
<1>1. PICK y \in TxId : Landed(y) /\ tx[y].leg = "leg1" /\ tx[y].req = r
  BY DEF Paid
<1>2. r \in Req
  <2>1. Claims(y)
    BY <1>1 DEF Claims, Landed, SellsBlnd
  <2>2. QED
    BY <1>1, <2>1 DEF FlowInv, SaleInv, OneOwner, TypeInv, TypeOK
<1>3. Settled!Applied(r, {"leg1"}) # {}
  BY <1>1, AppliedLegs
<1>4. Settled!Retry(r)
  BY <1>3, NoneLandsLegs DEF Settled!Retry
<1>5. QED
  BY <1>2, <1>4 DEF Settled!Next

\* The execution session implements Settlement: whatever the handlers and the
\* network do, what the ledger applies for a click on an Execute button is one
\* sale of its BLND, straight or through USDC, and then one conversion of what
\* that sale brought, or more if the user asks to try the conversion again.
THEOREM SwapSettles ==
  ASSUME NoLeg2Restore PROVE Spec => Settles
<1>1. Init => FlowInv /\ ReceiptInv
  BY FlowInit, InitReceipt
<1>2. FlowInv /\ ReceiptInv /\ [Next]_vars => (FlowInv /\ ReceiptInv)'
  BY SaleStep, LegStep, ReceiptStep DEF FlowInv
<1>3. Init => Settled!Init
  <2>1. Init => \A x \in TxId : ~Landed(x)
    BY DEF Init, Landed, FreeTx
  <2>2. QED
    BY <2>1 DEF Init, Settled!Init, LandedLegs
<1>4. (FlowInv /\ ReceiptInv) /\ (FlowInv /\ ReceiptInv)' /\ [Next]_vars
        => [Settled!Next]_<<reqs, retried, LandedLegs>>
  <2>1. SUFFICES ASSUME FlowInv, FlowInv', ReceiptInv', [Next]_vars
                 PROVE  [Settled!Next]_<<reqs, retried, LandedLegs>>
    OBVIOUS
  <2>2. CASE NoneLands /\ UNCHANGED <<reqs, retried>>
    BY <2>2, NoneLandsLegs
  <2>3. ASSUME NoneLands, UNCHANGED retried, NEW r \in Req, NewRequest(r) PROVE Settled!Next
    <3>1. Settled!Ask(r)
      BY <2>3, NoneLandsLegs DEF Settled!Ask, NewRequest
    <3>2. QED
      BY <3>1 DEF Settled!Next
  <2>4. CASE NoneLands /\ UNCHANGED reqs /\ \E r \in Paid : retried' = retried \cup {r}
    BY <2>1, <2>4, RetryMoves
  <2>5. CASE UNCHANGED <<reqs, retried>> /\ \E x \in TxId : Lands(x)
    BY <2>1, <2>5, LandingMoves
  <2>6. QED
    BY <2>1, <2>2, <2>3, <2>4, <2>5, StepLands
<1>5. QED
  BY <1>1, <1>2, <1>3, <1>4, PTL DEF Spec, Settles, Settled!Spec
=============================================================================
