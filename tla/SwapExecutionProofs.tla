------------------------- MODULE SwapExecutionProofs -------------------------
(***************************************************************************)
(* What holds of SwapExecution for every number of handlers, transactions, *)
(* requests and clicks.                                                    *)
(***************************************************************************)
EXTENDS SwapExecution, TLAPS

-----------------------------------------------------------------------------
(* The values the actions store are of the types TypeOK names.             *)

\* The next identity exists and is unused whenever some identity is unused.
LEMMA FreshIsFree ==
  ASSUME Unused # {} PROVE Fresh \in TxId /\ tx[Fresh].status = "free"
BY Zenon DEF Unused, Fresh

\* The empty composite context is a composite context.
LEMMA NoCompType == NoComp \in CompRec
BY DEF NoComp, CompRec, Null

\* An idle handler is a handler.
LEMMA IdleType == Idle \in TaskRec
BY NoCompType DEF Idle, TaskRec, PC, Leg, Asset, Null

\* Modal builds a modal of any phase.
LEMMA ModalType ==
  ASSUME NEW p \in Phase, NEW x \in TxId \cup {NoTx}, NEW c \in CompRec
  PROVE  Modal(p, x, c) \in ModalRec
BY DEF Modal, ModalRec

\* So do the error modals.
LEMMA ErrorType ==
  ASSUME NEW c \in CompRec, NEW a \in Asset \cup {"none"}
  PROVE  /\ ErrorModal(c) \in ModalRec /\ RefusedModal(c) \in ModalRec
         /\ TrustlineModal(c, a) \in ModalRec
<1>1. "error" \in Phase
  BY DEF Phase, Closable
<1>2. QED
  BY <1>1, ModalType DEF ErrorModal, RefusedModal, TrustlineModal, Modal, ModalRec

\* Entering a handler leaves every handler well typed.
LEMMA EnterType ==
  ASSUME TypeOK, NEW t \in Task, NEW pc \in PC, NEW leg \in Leg,
         NEW r \in Req \cup {NoReq}, NEW c \in CompRec, NEW a \in Asset,
         Enter(t, pc, leg, r, c, a)
  PROVE  task' \in [Task -> TaskRec]
<1>1. [Idle EXCEPT !.pc = pc, !.leg = leg, !.req = r, !.comp = c, !.asset = a] \in TaskRec
  BY IdleType DEF TaskRec, Idle
<1>2. QED
  BY <1>1 DEF Enter, TypeOK

\* Ending a handler, too.
LEMMA EndType ==
  ASSUME TypeOK, NEW t \in Task
  PROVE  [task EXCEPT ![t] = Idle] \in [Task -> TaskRec]
BY IdleType DEF TypeOK

\* The fields of a handler.
LEMMA TaskFields ==
  ASSUME TypeOK, NEW t \in Task
  PROVE  /\ task[t] \in TaskRec
         /\ task[t].pc \in PC /\ task[t].leg \in Leg /\ task[t].req \in Req \cup {NoReq}
         /\ task[t].tx \in TxId \cup {NoTx} /\ task[t].comp \in CompRec
         /\ task[t].asset \in Asset /\ task[t].first \in Int /\ task[t].n \in Nat
BY DEF TypeOK, TaskRec

\* A handler that moves to another await is a handler.
LEMMA MoveType ==
  ASSUME TypeOK, NEW t \in Task, NEW p \in PC, NEW k \in Nat
  PROVE  /\ [task EXCEPT ![t].pc = p] \in [Task -> TaskRec]
         /\ [task EXCEPT ![t].pc = p, ![t].n = k] \in [Task -> TaskRec]
<1>1. task \in [Task -> TaskRec] /\ task[t] \in TaskRec
  BY DEF TypeOK
<1>2. [task[t] EXCEPT !.pc = p] \in TaskRec
  BY <1>1 DEF TaskRec
<1>3. [[task[t] EXCEPT !.pc = p] EXCEPT !.n = k] \in TaskRec
  BY <1>2 DEF TaskRec
<1>4. [task EXCEPT ![t].pc = p] = [task EXCEPT ![t] = [task[t] EXCEPT !.pc = p]]
  BY <1>1, Zenon
<1>5. [task EXCEPT ![t].pc = p, ![t].n = k]
        = [task EXCEPT ![t] = [[task[t] EXCEPT !.pc = p] EXCEPT !.n = k]]
  BY <1>1
<1>6. QED
  BY <1>1, <1>2, <1>3, <1>4, <1>5

\* The fields of the modal.
LEMMA ModalFields ==
  ASSUME TypeOK
  PROVE  /\ execState.phase \in Phase /\ execState.tx \in TxId \cup {NoTx}
         /\ execState.comp \in CompRec /\ execState.asset \in Asset \cup {"none"}
BY DEF TypeOK, ModalRec

\* A composite context with another amount received is one.
LEMMA CompGotType ==
  ASSUME NEW c \in CompRec, NEW g \in Int
  PROVE  [c EXCEPT !.got = g] \in CompRec /\ [c EXCEPT !.leg = 2] \in CompRec
BY DEF CompRec

\* The context a composite starts with is one.
LEMMA NewCompType ==
  ASSUME NEW r \in Req \cup {NoReq}, NEW sb \in BOOLEAN
  PROVE  [NoComp EXCEPT !.leg = 1, !.sb = sb, !.req = r] \in CompRec
<1>1. Null \in Int /\ 1 \in 0..2
  BY DEF Null
<1>2. QED
  BY <1>1, Zenon DEF CompRec, NoComp

\* doExecute leaves the handlers and the modal well typed.
LEMMA DoExecuteType ==
  ASSUME TypeOK, NEW t \in Task, NEW r \in Req \cup {NoReq}, DoExecute(t, r)
  PROVE  task' \in [Task -> TaskRec] /\ execState' \in ModalRec
<1>0. target \in Asset /\ execState \in ModalRec
  BY DEF TypeOK
<1>1. CASE sel = "none"
  BY <1>0, <1>1, EndType DEF DoExecute
<1>2. CASE sel # "none" /\ ~wallet
  BY <1>0, <1>2, EndType, ErrorType, NoCompType DEF DoExecute
<1>3. ASSUME sel \in {"comp", "compSb"}, wallet
      PROVE  task' \in [Task -> TaskRec] /\ execState' \in ModalRec
  <2>1. StartLeg1(t, r, sel = "compSb")
    BY <1>3 DEF DoExecute
  <2>2. [NoComp EXCEPT !.leg = 1, !.sb = (sel = "compSb"), !.req = r] \in CompRec
    BY NewCompType
  <2>3. "balBefore" \in PC /\ "leg1" \in Leg /\ "USDC" \in Asset
    BY DEF PC, Leg, Asset
  <2>4. QED
    BY <1>0, <2>1, <2>2, <2>3, EnterType DEF StartLeg1
<1>4. CASE sel = "sb" /\ wallet
  <2>1. "sbKit" \in PC /\ "swap" \in Leg
    BY DEF PC, Leg
  <2>2. QED
    BY <1>0, <1>4, <2>1, NoCompType, EnterType DEF DoExecute
<1>5. CASE sel = "venue" /\ wallet
  <2>1. "build" \in PC /\ "swap" \in Leg
    BY DEF PC, Leg
  <2>2. QED
    BY <1>0, <1>5, <2>1, NoCompType, EnterType DEF DoExecute
<1>6. QED
  BY <1>1, <1>2, <1>3, <1>4, <1>5 DEF DoExecute

\* buildCompositeLeg2 leaves the handlers and the modal well typed.
LEMMA StartLeg2Type ==
  ASSUME TypeOK, NEW t \in Task, NEW c \in CompRec, StartLeg2(t, c)
  PROVE  task' \in [Task -> TaskRec] /\ execState' \in ModalRec
<1>0. /\ "sbKit" \in PC /\ "build" \in PC /\ "leg2" \in Leg /\ "EURC" \in Asset
      /\ "leg1_confirming" \in Phase
  BY DEF PC, Leg, Asset, Phase, Busy
<1>1. c.req \in Req \cup {NoReq} /\ [c EXCEPT !.leg = 2] \in CompRec
  BY CompGotType DEF CompRec
<1>2. CASE c.sb /\ ~wallet
  BY <1>2, EndType, ErrorType, NoCompType DEF StartLeg2
<1>3. CASE ~(c.sb /\ ~wallet)
  BY <1>0, <1>1, <1>3, EnterType, ModalType DEF StartLeg2
<1>4. QED
  BY <1>2, <1>3

-----------------------------------------------------------------------------
(* Type correctness, one step per action.                                  *)

\* A transaction record keeps its type under a change of status.
LEMMA StatusType ==
  ASSUME TypeOK, NEW x \in TxId, NEW s \in {"free", "built", "sent", "ok", "failed", "spent"}
  PROVE  [tx EXCEPT ![x].status = s] \in [TxId -> TxRec]
BY DEF TypeOK, TxRec

\* A build under review is a transaction.
ReviewHasTx == execState.phase = "review" => execState.tx \in TxId

\* The page's own actions are well typed.
LEMMA PageType ==
  ASSUME TypeOK, EditPage \/ DoSim \/ SimAnswer \/ ToggleWallet \/ ClickClose \/ HorizonCatchesUp
  PROVE  TypeOK'
<1>1. CASE EditPage
  BY <1>1, ConstantsAssumption DEF EditPage, TypeOK, page, ledger, count
<1>2. CASE DoSim
  BY <1>2 DEF DoSim, TypeOK, page, ledger, count
<1>3. CASE SimAnswer
  BY <1>3 DEF SimAnswer, TypeOK, page, ledger, count
<1>4. CASE ToggleWallet
  BY <1>4, ConstantsAssumption DEF ToggleWallet, TypeOK, page, ledger, count
<1>5. CASE ClickClose
  <2>1. Closed \in ModalRec
    BY NoCompType, ModalType DEF Closed, Phase
  <2>2. QED
    BY <1>5, <2>1 DEF ClickClose, TypeOK, page, ledger, count
<1>6. CASE HorizonCatchesUp
  BY <1>6 DEF HorizonCatchesUp, TypeOK, page, ledger, count
<1>7. QED
  BY <1>1, <1>2, <1>3, <1>4, <1>5, <1>6

\* The clicks that start or resume a handler are well typed.
LEMMA ClickType ==
  ASSUME TypeOK, ReviewHasTx, NEW t \in Task, UserClick(t)
  PROVE  TypeOK'
<1> USE DEF page, ledger, count
<1>0. /\ "build" \in PC /\ "balBefore" \in PC /\ "sign" \in PC /\ "recKit" \in PC /\ "trust" \in PC
      /\ "swap" \in Leg /\ "leg1" \in Leg /\ "USDC" \in Asset /\ "EURC" \in Asset
      /\ {"signing", "trustline_adding"} \subseteq Phase
  BY DEF PC, Leg, Asset, Phase, Busy
<1>1. CASE ClickExecute(t)
  <2>1. PICK r \in Req : NewRequest(r) /\ DoExecute(t, r)
    BY <1>1 DEF ClickExecute
  <2>2. task' \in [Task -> TaskRec] /\ execState' \in ModalRec
    BY <2>1, DoExecuteType
  <2>3. QED
    BY <1>1, <2>1, <2>2 DEF ClickExecute, Click, NewRequest, TypeOK
<1>2. CASE ClickSbFloor(t)
  <2>1. PICK r \in Req : NewRequest(r) /\ Enter(t, "build", "swap", r, NoComp, target)
    BY <1>2 DEF ClickSbFloor
  <2>2. task' \in [Task -> TaskRec]
    BY <2>1, <1>0, NoCompType, EnterType DEF TypeOK
  <2>3. QED
    BY <1>2, <2>1, <2>2 DEF ClickSbFloor, Click, NewRequest, TypeOK
<1>3. CASE ClickResumeLeg1(t)
  <2>1. PICK r \in Req, sb \in BOOLEAN : NewRequest(r) /\ StartLeg1(t, r, sb)
    BY <1>3 DEF ClickResumeLeg1
  <2>2. task' \in [Task -> TaskRec]
    BY <2>1, <1>0, NewCompType, EnterType DEF StartLeg1
  <2>3. QED
    BY <1>3, <2>1, <2>2 DEF ClickResumeLeg1, StartLeg1, Click, NewRequest, TypeOK
<1>4. CASE ClickConfirm(t)
  <2> DEFINE x == execState.tx
  <2>1. x \in TxId /\ tx[x] \in TxRec
    BY <1>4 DEF ClickConfirm, ReviewHasTx, TypeOK
  <2>2. tx[x].leg \in Leg /\ tx[x].req \in Req \cup {NoReq} /\ tx[x].asset \in Asset
    BY <2>1 DEF TxRec
  <2>3. [Idle EXCEPT !.pc = "sign", !.leg = tx[x].leg, !.req = tx[x].req, !.tx = x,
                     !.comp = execState.comp, !.asset = tx[x].asset] \in TaskRec
    BY <1>0, <2>1, <2>2, IdleType, ModalFields DEF Idle, TaskRec
  <2>4. [execState EXCEPT !.phase = "signing"] \in ModalRec
    BY <1>0 DEF TypeOK, ModalRec
  <2>5. QED
    BY <1>4, <2>3, <2>4 DEF ClickConfirm, Click, TypeOK
<1>5. CASE ClickRetryLeg2(t)
  <2>1. task' \in [Task -> TaskRec] /\ execState' \in ModalRec
    BY <1>5, ModalFields, StartLeg2Type DEF ClickRetryLeg2
  <2>2. retried' \subseteq Req \cup {NoReq}
    BY <1>5, ModalFields DEF ClickRetryLeg2, CompRec, TypeOK
  <2>3. QED
    BY <1>5, <2>1, <2>2 DEF ClickRetryLeg2, Click, TypeOK
<1>6. CASE ClickRecover(t)
  <2>1. [Idle EXCEPT !.pc = "recKit"] \in TaskRec
    BY <1>0, IdleType DEF Idle, TaskRec
  <2>2. QED
    BY <1>6, <2>1 DEF ClickRecover, TypeOK
<1>7. CASE ClickAddTrustline(t)
  <2>1. Missing \in Asset
    BY DEF Missing, TypeOK
  <2>2. CASE wallet
    <3>1. task' \in [Task -> TaskRec]
      BY <1>0, <1>7, <2>1, <2>2, ModalFields, EnterType DEF ClickAddTrustline
    <3>2. Modal("trustline_adding", NoTx, execState.comp) \in ModalRec
      BY <1>0, ModalFields, ModalType
    <3>3. execState' \in ModalRec
      BY <1>7, <2>1, <2>2, <3>2 DEF ClickAddTrustline, ModalRec
    <3>4. QED
      BY <1>7, <3>1, <3>3 DEF ClickAddTrustline, TypeOK
  <2>3. CASE ~wallet
    BY <1>7, <2>3, NoCompType, ErrorType DEF ClickAddTrustline, TypeOK
  <2>4. QED
    BY <2>2, <2>3
<1>8. QED
  BY <1>1, <1>2, <1>3, <1>4, <1>5, <1>6, <1>7 DEF UserClick

\* confirmExecute's continuation is well typed.
LEMMA AfterConfirmType ==
  ASSUME TypeOK, NEW t \in Task, AfterConfirm(t)
  PROVE  task' \in [Task -> TaskRec] /\ execState' \in ModalRec /\ tx' \in [TxId -> TxRec]
<1> DEFINE x == task[t].tx
<1>0. /\ "balWait" \in PC /\ 0 \in Nat /\ {"leg1_confirming", "done"} \subseteq Phase
      /\ tx \in [TxId -> TxRec]
  BY DEF PC, Phase, Busy, Closable, TypeOK
<1>1. CASE DoExecute(t, task[t].req) /\ tx' = [tx EXCEPT ![x].status = "spent"]
  <2>1. tx' \in [TxId -> TxRec]
    <3>1. CASE x \in TxId
      <4>1. [tx EXCEPT ![x].status = "spent"] \in [TxId -> TxRec]
        BY <3>1, StatusType
      <4>2. QED
        BY <1>1, <4>1, Zenon
    <3>2. CASE x \notin TxId
      <4>1. tx' = tx
        BY <1>0, <1>1, <3>2
      <4>2. QED
        BY <1>0, <4>1
    <3>3. QED
      BY <3>1, <3>2
  <2>2. QED
    BY <1>1, <2>1, TaskFields, DoExecuteType
<1>2. CASE /\ task' = [task EXCEPT ![t].pc = "balWait", ![t].n = 0]
           /\ execState' = Modal("leg1_confirming", NoTx, task[t].comp)
           /\ UNCHANGED tx
  <2>1. task' \in [Task -> TaskRec]
    <3>1. [task EXCEPT ![t].pc = "balWait", ![t].n = 0] \in [Task -> TaskRec]
      BY <1>0, MoveType, Zenon
    <3>2. QED
      BY <1>2, <3>1, Zenon
  <2>2. task[t].comp \in CompRec
    BY TaskFields
  <2>3. Modal("leg1_confirming", NoTx, task[t].comp) \in ModalRec
    BY <1>0, <2>2, ModalType
  <2>4. QED
    BY <1>0, <1>2, <2>1, <2>3
<1>3. CASE /\ task' = [task EXCEPT ![t] = Idle]
           /\ execState' = Modal("done", x, task[t].comp)
           /\ UNCHANGED tx
  <2>1. task' \in [Task -> TaskRec]
    BY <1>3, EndType
  <2>2. x \in TxId \cup {NoTx} /\ task[t].comp \in CompRec
    BY TaskFields
  <2> HIDE DEF x
  <2>3. execState' \in ModalRec
    BY <1>0, <1>3, <2>2, ModalType
  <2>4. QED
    BY <1>0, <1>3, <2>1, <2>3
<1>4. QED
  BY <1>1, <1>2, <1>3 DEF AfterConfirm

\* The steps of building are well typed.
LEMMA BuildType ==
  ASSUME TypeOK, NEW t \in Task, BalBeforeAnswer(t) \/ BuildReview(t) \/ BuildError(t)
  PROVE  TypeOK'
<1> USE DEF page, ledger, count
<1>0. "build" \in PC /\ "review" \in Phase
  BY DEF PC, Phase, Closable
<1>a. BuiltComp(t) \in CompRec
  BY TaskFields, CompGotType DEF BuiltComp
<1>1. CASE BalBeforeAnswer(t)
  <2>1. PICK b \in {Null, usdcSeen} :
               task' = [task EXCEPT ![t].pc = "build", ![t].comp.before = b]
    BY <1>1 DEF BalBeforeAnswer
  <2>2. b \in Int
    BY DEF Null, TypeOK
  <2>3. [task[t].comp EXCEPT !.before = b] \in CompRec
    BY <2>2, TaskFields DEF CompRec
  <2>4. task' = [task EXCEPT ![t] = [task[t] EXCEPT !.pc = "build",
                                        !.comp = [task[t].comp EXCEPT !.before = b]]]
    BY <2>1, TaskFields DEF TypeOK, TaskRec
  <2>5. [task[t] EXCEPT !.pc = "build", !.comp = [task[t].comp EXCEPT !.before = b]] \in TaskRec
    BY <1>0, <2>3, TaskFields DEF TaskRec
  <2>6. QED
    BY <1>1, <2>4, <2>5 DEF BalBeforeAnswer, TypeOK
<1>2. CASE BuildReview(t)
  <2>1. Fresh \in TxId
    BY <1>2, FreshIsFree DEF BuildReview
  <2>2. PICK ty \in {"swap", "restore"}, ve \in {"sync", "poll"}, fw \in BOOLEAN :
       /\ tx' = [tx EXCEPT ![Fresh] =
            [status |-> "built", leg |-> task[t].leg, type |-> ty, venue |-> ve,
             fw |-> fw, asset |-> task[t].asset, amt |-> task[t].comp.got,
             req |-> task[t].req]]
       /\ execState' = Modal("review", Fresh, BuiltComp(t))
    BY <1>2 DEF BuildReview
  <2>3. task[t].comp.got \in Int
    BY TaskFields DEF CompRec
  <2>4. tx' \in [TxId -> TxRec]
    BY <2>1, <2>2, <2>3, TaskFields DEF TypeOK, TxRec
  <2>5. execState' \in ModalRec
    BY <1>0, <1>a, <2>1, <2>2, ModalType
  <2>6. QED
    BY <1>2, <2>4, <2>5, EndType DEF BuildReview, TypeOK
<1>3. CASE BuildError(t)
  <2>1. execState' \in ModalRec
    BY <1>3, <1>a, TaskFields, NoCompType, ErrorType DEF BuildError
  <2>2. QED
    BY <1>3, <2>1, EndType DEF BuildError, TypeOK
<1>4. QED
  BY <1>1, <1>2, <1>3

\* The steps of confirmExecute and its status poll are well typed.
LEMMA ConfirmType ==
  ASSUME TypeOK, NEW t \in Task,
         \/ Signed(t) \/ ConfirmError(t) \/ SubmitPending(t) \/ SubmitConfirmed(t)
         \/ PollCheck(t) \/ PollSuccess(t) \/ PollFailed(t) \/ PollNoNews(t)
  PROVE  TypeOK'
<1> USE DEF page, ledger, count
<1>0. /\ {"submit", "poll", "pollFetch"} \subseteq PC /\ 0 \in Nat
      /\ {"submitting", "confirming", "pending"} \subseteq Phase
  BY DEF PC, Phase, Busy, Closable
<1>1. CASE Signed(t)
  <2>1. task' \in [Task -> TaskRec]
    BY <1>0, <1>1, MoveType DEF Signed
  <2>2. QED
    BY <1>0, <1>1, <2>1, TaskFields, ModalType DEF Signed, TypeOK
<1>2. CASE ConfirmError(t)
  <2>1. execState' \in ModalRec
    BY <1>2, TaskFields, ErrorType DEF ConfirmError
  <2>2. QED
    BY <1>2, <2>1, EndType DEF ConfirmError, TypeOK
<1>3. CASE SubmitPending(t)
  <2>1. task' \in [Task -> TaskRec]
    BY <1>0, <1>3, MoveType DEF SubmitPending
  <2>2. QED
    BY <1>0, <1>3, <2>1, TaskFields, ModalType DEF SubmitPending, TypeOK
<1>4. CASE SubmitConfirmed(t)
  BY <1>4, AfterConfirmType DEF SubmitConfirmed, TypeOK
<1>5. CASE PollCheck(t)
  <2>1. [task EXCEPT ![t].pc = "pollFetch"] \in [Task -> TaskRec]
    BY <1>0, MoveType
  <2>2. QED
    BY <1>5, <2>1, EndType DEF PollCheck, TypeOK
<1>6. CASE PollSuccess(t)
  BY <1>6, AfterConfirmType DEF PollSuccess, TypeOK
<1>7. CASE PollFailed(t)
  BY <1>7, EndType, TaskFields, ErrorType DEF PollFailed, TypeOK
<1>8. CASE PollNoNews(t)
  <2>1. [task EXCEPT ![t].pc = "poll", ![t].n = @ + 1] \in [Task -> TaskRec]
    <3>1. task[t].n + 1 \in Nat
      BY TaskFields
    <3>2. [task EXCEPT ![t].pc = "poll", ![t].n = task[t].n + 1] \in [Task -> TaskRec]
      BY <1>0, <3>1, MoveType
    <3>3. QED
      BY <3>2
  <2>2. Modal("pending", task[t].tx, task[t].comp) \in ModalRec
    BY <1>0, TaskFields, ModalType
  <2>3. QED
    BY <1>8, <2>1, <2>2, EndType DEF PollNoNews, TypeOK
<1>9. QED
  BY <1>1, <1>2, <1>3, <1>4, <1>5, <1>6, <1>7, <1>8

\* The steps of the leg 1 balance poll are well typed.
LEMMA BalanceType ==
  ASSUME TypeOK, NEW t \in Task, BalCheck(t) \/ BalAnswer(t)
  PROVE  TypeOK'
<1> USE DEF page, ledger, count
<1>0. {"balFetch", "balWait"} \subseteq PC
  BY DEF PC
<1>1. CASE BalCheck(t)
  <2>1. [task EXCEPT ![t].pc = "balFetch"] \in [Task -> TaskRec]
    BY <1>0 DEF TypeOK, TaskRec
  <2>2. QED
    BY <1>1, <2>1, EndType DEF BalCheck, TypeOK
<1>2. CASE BalAnswer(t)
  <2> DEFINE comp == task[t].comp
             first(b) == IF task[t].first = Null THEN b ELSE task[t].first
             ref(b) == IF comp.before # Null THEN comp.before ELSE first(b)
  <2>1. PICK b \in {Null, usdcSeen} :
          \/ StartLeg2(t, [comp EXCEPT !.got = b - ref(b)])
          \/ /\ task' = [task EXCEPT ![t].pc = "balWait", ![t].n = @ + 1, ![t].first = first(b)]
             /\ UNCHANGED execState
          \/ StartLeg2(t, [comp EXCEPT !.got = LastKnown(comp.before, first(b))])
    BY <1>2 DEF BalAnswer
  <2>2. b \in Int /\ comp \in CompRec /\ comp.before \in Int /\ Null \in Int
    BY TaskFields DEF Null, TypeOK, CompRec
  <2>3. first(b) \in Int /\ ref(b) \in Int
    BY <2>2, TaskFields
  <2>4. LastKnown(comp.before, first(b)) \in Int /\ b - ref(b) \in Int
    BY <2>2, <2>3 DEF LastKnown, Null
  <2>5. task' \in [Task -> TaskRec] /\ execState' \in ModalRec
    <3>1. ASSUME NEW g \in Int, StartLeg2(t, [comp EXCEPT !.got = g])
          PROVE  task' \in [Task -> TaskRec] /\ execState' \in ModalRec
      <4>1. [comp EXCEPT !.got = g] \in CompRec
        BY <2>2, CompGotType
      <4>2. QED
        BY <3>1, <4>1, StartLeg2Type
    <3>2. ASSUME task' = [task EXCEPT ![t].pc = "balWait", ![t].n = @ + 1, ![t].first = first(b)],
                 UNCHANGED execState
          PROVE  task' \in [Task -> TaskRec] /\ execState' \in ModalRec
      <4> HIDE DEF first
      <4>1. QED
        BY <1>0, <2>3, <3>2 DEF TypeOK, TaskRec
    <3> HIDE DEF first, ref, comp
    <3>3. QED
      BY <2>1, <2>4, <3>1, <3>2
  <2>6. QED
    BY <1>2, <2>5 DEF BalAnswer, TypeOK
<1>3. QED
  BY <1>1, <1>2

\* The StellarBroker and trustline steps are well typed.
LEMMA SbType ==
  ASSUME TypeOK, NEW t \in Task,
         \/ SbShow(t) \/ SbKeyAnswer(t) \/ SbProgress(t) \/ SbEnd(t)
         \/ RecoverShow(t) \/ RecoverEnd(t) \/ TrustlineEnd(t)
  PROVE  TypeOK'
<1> USE DEF page, ledger, count
<1>0. /\ {"sbKey", "sbRun", "recRun"} \subseteq PC
      /\ {"sb_mediator", "sb_done", "sb_blocked", "sb_recover_needed", "error",
          "trustline_added"} \subseteq Phase
  BY DEF PC, Phase, Busy, Closable
<1>1. CASE SbShow(t)
  <2>1. [task EXCEPT ![t].pc = "sbKey"] \in [Task -> TaskRec]
    BY <1>0 DEF TypeOK, TaskRec
  <2>2. QED
    BY <1>0, <1>1, <2>1, TaskFields, ModalType DEF SbShow, TypeOK
<1>2. CASE SbKeyAnswer(t)
  <2>1. [task EXCEPT ![t].pc = "sbRun"] \in [Task -> TaskRec]
    BY <1>0 DEF TypeOK, TaskRec
  <2>2. QED
    BY <1>2, <2>1, EndType, TaskFields, ErrorType DEF SbKeyAnswer, TypeOK
<1>3. CASE SbProgress(t)
  BY <1>0, <1>3, TaskFields, ModalType DEF SbProgress, TypeOK
<1>4. CASE SbEnd(t)
  <2>1. execState' \in ModalRec
    <3>1. PICK p \in {"sb_done", "sb_blocked", "sb_recover_needed", "error"} :
            execState' = Modal(p, NoTx, task[t].comp)
      BY <1>4 DEF SbEnd
    <3>2. QED
      BY <1>0, <3>1, TaskFields, ModalType
  <2>2. tx' \in [TxId -> TxRec] /\ usdc' \in Nat
    <3>1. CASE UNCHANGED <<tx, usdc>>
      BY <3>1 DEF TypeOK
    <3>2. CASE SbSale(t)
      <4>1. Fresh \in TxId
        BY <3>2, FreshIsFree DEF SbSale
      <4>2. task[t].comp.got \in Int
        BY TaskFields DEF CompRec
      <4> DEFINE sale == [FreeTx EXCEPT !.status = "ok", !.leg = task[t].leg,
                            !.asset = task[t].asset, !.amt = task[t].comp.got,
                            !.req = task[t].req]
      <4>3. sale \in TxRec
        BY <4>2, TaskFields DEF FreeTx, TxRec
      <4>4. tx' \in [TxId -> TxRec]
        BY <3>2, <4>1, <4>3 DEF SbSale, TypeOK
      <4>5. usdc' \in Nat
        <5>1. sale.type = "swap" /\ sale.leg = task[t].leg /\ sale.amt = task[t].comp.got
          BY DEF FreeTx
        <5>2. usdc' = usdc + UsdcChange(sale) /\ usdc \in Nat
          BY <3>2 DEF SbSale, TypeOK
        <5>3. QED
          BY <3>2, <4>2, <5>1, <5>2 DEF SbSale, UsdcChange, Proceeds
      <4>6. QED
        BY <4>4, <4>5
    <3>3. QED
      BY <1>4, <3>1, <3>2 DEF SbEnd
  <2>3. QED
    BY <1>4, <2>1, <2>2, EndType DEF SbEnd, TypeOK
<1>5. CASE RecoverShow(t)
  <2>1. [task EXCEPT ![t].pc = "recRun"] \in [Task -> TaskRec]
    BY <1>0 DEF TypeOK, TaskRec
  <2>2. QED
    BY <1>0, <1>5, <2>1, NoCompType, ModalType DEF RecoverShow, TypeOK
<1>6. CASE RecoverEnd(t)
  <2>1. execState' \in ModalRec /\ sbOrphanNotice' \in BOOLEAN
    BY <1>0, <1>6, NoCompType, ModalType, ErrorType DEF RecoverEnd, TypeOK
  <2>2. QED
    BY <1>6, <2>1, EndType DEF RecoverEnd, TypeOK
<1>7. CASE TrustlineEnd(t)
  <2>1. ASSUME NEW m \in ModalRec PROVE [m EXCEPT !.asset = task[t].asset] \in ModalRec
    BY TaskFields DEF ModalRec
  <2>2. execState' \in ModalRec
    <3>1. /\ Modal("trustline_added", NoTx, task[t].comp) \in ModalRec
          /\ Modal("error", NoTx, task[t].comp) \in ModalRec
          /\ ErrorModal(task[t].comp) \in ModalRec
      BY <1>0, TaskFields, ModalType DEF ErrorModal
    <3>2. QED
      BY <1>7, <2>1, <3>1 DEF TrustlineEnd
  <2>3. trust' \in SUBSET Asset
    BY <1>7, TaskFields DEF TrustlineEnd, TypeOK
  <2>4. QED
    BY <1>7, <2>2, <2>3, EndType DEF TrustlineEnd, TypeOK
<1>8. QED
  BY <1>1, <1>2, <1>3, <1>4, <1>5, <1>6, <1>7

\* What the server and the ledger do is well typed; above all, no balance
\* becomes negative.
LEMMA LedgerType ==
  ASSUME TypeOK,
         \/ \E t \in Task : SubmitFires(t)
         \/ \E x \in TxId : LedgerApply(x)
  PROVE  TypeOK'
<1> USE DEF page, ledger, count
<1>1. ASSUME NEW t \in Task, SubmitFires(t) PROVE TypeOK'
  <2>1. CASE task[t].tx \in TxId
    BY <1>1, <2>1, StatusType DEF SubmitFires, TypeOK
  <2>2. CASE task[t].tx \notin TxId
    <3>1. tx' = tx
      BY <1>1, <2>2 DEF SubmitFires, TypeOK
    <3>2. QED
      BY <1>1, <3>1 DEF SubmitFires, TypeOK
  <2>3. QED
    BY <2>1, <2>2
<1>2. ASSUME NEW x \in TxId, LedgerApply(x) PROVE TypeOK'
  <2>1. tx' \in [TxId -> TxRec]
    <3>1. \/ tx' = [tx EXCEPT ![x].status = "failed"]
          \/ tx' = [tx EXCEPT ![x].status = "ok"]
      BY <1>2 DEF LedgerApply
    <3>2. QED
      BY <3>1 DEF TypeOK, TxRec
  <2>2. /\ usdc \in Nat /\ tx[x].amt \in Int
        /\ tx[x].type \in {"swap", "restore"} /\ tx[x].asset \in Asset
    BY DEF TypeOK, TxRec
  <2>3. usdc' = usdc \/ usdc' = usdc + UsdcChange(tx[x])
    BY <1>2 DEF LedgerApply
  <2>4. usdc' \in Nat
    BY <1>2, <2>2, <2>3 DEF LedgerApply, UsdcChange, Proceeds
  <2>5. QED
    BY <1>2, <2>1, <2>4 DEF LedgerApply, TypeOK
<1>3. QED
  BY <1>1, <1>2

\* The types and the transaction under review are preserved together.
TypeInv == TypeOK /\ ReviewHasTx

\* Every step keeps every variable well typed.
LEMMA TypeStep == ASSUME TypeInv, [Next]_vars PROVE TypeOK'
<1>1. CASE UNCHANGED vars
  BY <1>1 DEF TypeInv, TypeOK, vars, page, ledger, count
<1>2. ASSUME NEW t \in Task, TaskStep(t) PROVE TypeOK'
  BY <1>2, BuildType, ConfirmType, BalanceType, SbType DEF TaskStep, TypeInv
<1>3. QED
  BY <1>1, <1>2, PageType, ClickType, SbType, LedgerType DEF Next, TypeInv

\* Only BuildReview opens a review; ClickExecute and the rest leave one alone.
NoNewReview == execState' = execState \/ execState'.phase # "review"

\* An error modal is in phase "error".
LEMMA ErrorPhase ==
  ASSUME NEW c, NEW a
  PROVE  /\ ErrorModal(c).phase = "error" /\ RefusedModal(c).phase = "error"
         /\ TrustlineModal(c, a).phase = "error"
<1>1. ErrorModal(c) = [phase |-> "error", tx |-> NoTx, comp |-> c, code |-> "other", asset |-> "none"]
  BY DEF ErrorModal, Modal
<1>2. QED
  BY <1>1 DEF TrustlineModal, RefusedModal

\* doExecute, buildCompositeLeg2 and what follows a confirmation open none.
LEMMA ContinuationsOpenNoReview ==
  ASSUME NEW t \in Task
  PROVE  /\ \A r : DoExecute(t, r) => NoNewReview
         /\ \A c : StartLeg2(t, c) => NoNewReview
         /\ AfterConfirm(t) => NoNewReview
<1>1. \A r : DoExecute(t, r) => NoNewReview
  BY DEF DoExecute, StartLeg1, NoNewReview, ErrorModal, Modal
<1>2. \A c : StartLeg2(t, c) => NoNewReview
  BY DEF StartLeg2, NoNewReview, ErrorModal, Modal
<1>3. AfterConfirm(t) => NoNewReview
  BY <1>1 DEF AfterConfirm, NoNewReview, Modal
<1>4. QED
  BY <1>1, <1>2, <1>3

\* No click opens one.
LEMMA ClicksOpenNoReview ==
  ASSUME TypeOK, NEW t \in Task, UserClick(t)
  PROVE  NoNewReview
<1>1. CASE ClickExecute(t)
  BY <1>1, ContinuationsOpenNoReview DEF ClickExecute
<1>2. CASE ClickSbFloor(t) \/ ClickRecover(t)
  BY <1>2 DEF ClickSbFloor, ClickRecover, NoNewReview
<1>3. CASE ClickResumeLeg1(t)
  BY <1>3 DEF ClickResumeLeg1, StartLeg1, NoNewReview
<1>4. CASE ClickConfirm(t)
  BY <1>4 DEF ClickConfirm, NoNewReview, TypeOK, ModalRec
<1>5. CASE ClickRetryLeg2(t)
  BY <1>5, ContinuationsOpenNoReview DEF ClickRetryLeg2
<1>6. CASE ClickAddTrustline(t)
  BY <1>6 DEF ClickAddTrustline, NoNewReview, ErrorModal, Modal
<1>7. QED
  BY <1>1, <1>2, <1>3, <1>4, <1>5, <1>6 DEF UserClick

\* No step of a handler but BuildReview opens one.
LEMMA HandlersOpenNoReview ==
  ASSUME NEW t \in Task,
         \/ BalBeforeAnswer(t) \/ BuildError(t) \/ Signed(t) \/ ConfirmError(t)
         \/ SubmitPending(t) \/ PollCheck(t) \/ PollFailed(t) \/ PollNoNews(t)
         \/ BalCheck(t) \/ SubmitConfirmed(t) \/ PollSuccess(t) \/ BalAnswer(t)
         \/ SbShow(t) \/ SbKeyAnswer(t) \/ SbProgress(t) \/ SbEnd(t)
         \/ RecoverShow(t) \/ RecoverEnd(t) \/ TrustlineEnd(t)
  PROVE  NoNewReview
<1>1. CASE \/ BalBeforeAnswer(t) \/ BuildError(t) \/ Signed(t) \/ ConfirmError(t)
           \/ SubmitPending(t) \/ PollCheck(t) \/ PollFailed(t) \/ PollNoNews(t)
           \/ BalCheck(t)
  <2>1. CASE BuildError(t) \/ ConfirmError(t)
    BY <2>1, ErrorPhase DEF BuildError, ConfirmError, NoNewReview
  <2>2. CASE Signed(t) \/ SubmitPending(t) \/ PollFailed(t) \/ PollNoNews(t)
    BY <2>2 DEF Signed, SubmitPending, PollFailed, PollNoNews, NoNewReview, Modal, ErrorModal
  <2>3. CASE BalBeforeAnswer(t) \/ PollCheck(t) \/ BalCheck(t)
    BY <2>3 DEF BalBeforeAnswer, PollCheck, BalCheck, NoNewReview
  <2>4. QED
    BY <1>1, <2>1, <2>2, <2>3
<1>2. CASE SubmitConfirmed(t) \/ PollSuccess(t)
  BY <1>2, ContinuationsOpenNoReview DEF SubmitConfirmed, PollSuccess
<1>3. CASE BalAnswer(t)
  BY <1>3, ContinuationsOpenNoReview DEF BalAnswer, NoNewReview
<1>4. CASE SbShow(t) \/ SbKeyAnswer(t) \/ SbProgress(t) \/ SbEnd(t)
  BY <1>4 DEF SbShow, SbKeyAnswer, SbProgress, SbEnd, NoNewReview, Modal, ErrorModal
<1>5. CASE RecoverShow(t) \/ RecoverEnd(t) \/ TrustlineEnd(t)
  BY <1>5 DEF RecoverShow, RecoverEnd, TrustlineEnd, NoNewReview, Modal, ErrorModal
<1>6. QED
  BY <1>1, <1>2, <1>3, <1>4, <1>5

\* A build under review remains a transaction.
LEMMA ReviewStep == ASSUME TypeInv, [Next]_vars PROVE ReviewHasTx'
<1>1. ASSUME NoNewReview PROVE ReviewHasTx'
  BY <1>1 DEF NoNewReview, ReviewHasTx, TypeInv
<1>2. CASE \/ UNCHANGED vars \/ EditPage \/ DoSim \/ SimAnswer \/ ToggleWallet
           \/ HorizonCatchesUp
           \/ \E t \in Task : SubmitFires(t)
           \/ \E x \in TxId : LedgerApply(x)
  BY <1>1, <1>2 DEF vars, EditPage, DoSim, SimAnswer, ToggleWallet, HorizonCatchesUp,
       SubmitFires, LedgerApply, NoNewReview
<1>3. CASE ClickClose
  BY <1>1, <1>3 DEF ClickClose, Closed, Modal, NoNewReview
<1>4. ASSUME NEW t \in Task, BuildReview(t) PROVE ReviewHasTx'
  <2>1. execState'.tx = Fresh /\ Unused # {}
    BY <1>4 DEF BuildReview, Modal
  <2>2. QED
    BY <2>1, FreshIsFree DEF ReviewHasTx, BuildReview, Modal
<1>5. ASSUME NEW t \in Task, UserClick(t) \/ TaskStep(t) \/ SbProgress(t) PROVE ReviewHasTx'
  BY <1>1, <1>4, <1>5, ClicksOpenNoReview, HandlersOpenNoReview DEF TypeInv, TaskStep
<1>6. QED
  BY <1>2, <1>3, <1>5 DEF Next

\* A page just opened is well typed.
LEMMA InitType == ASSUME Init PROVE TypeInv
<1>1. Closed \in ModalRec /\ Closed.phase = "none"
  BY NoCompType, ModalType DEF Closed, Phase, Modal
<1>2. FreeTx \in TxRec
  BY DEF FreeTx, TxRec, Leg, Asset, Null
<1>3. QED
  BY <1>1, <1>2, ConstantsAssumption, IdleType DEF Init, TypeInv, TypeOK, ReviewHasTx

\* Every variable keeps its type and the USDC balance never becomes negative,
\* whatever the overlap of the handlers of app.js.
THEOREM TypeCorrect == Spec => []TypeOK
<1>1. Init => TypeInv
  BY InitType
<1>2. TypeInv /\ [Next]_vars => TypeInv'
  BY TypeStep, ReviewStep DEF TypeInv
<1>3. TypeInv => TypeOK
  BY DEF TypeInv
<1>4. QED
  BY <1>1, <1>2, <1>3, PTL DEF Spec

-----------------------------------------------------------------------------
(* One sale of BLND per click on an Execute button.  A request is owned by *)
(* at most one handler at work on selling it or one transaction, and only  *)
(* its owner passes it on: a build to its transaction, a confirmed restore *)
(* back to the handler that rebuilds the swap.                             *)

Works(t)    == /\ task[t].pc \in {"balBefore", "build", "sbKit", "sbKey", "sbRun"}
               /\ task[t].leg \in SellsBlnd
Claims(x)   == tx[x].status \notin {"free", "spent"} /\ tx[x].leg \in SellsBlnd
Confirms(t) == task[t].pc \in Confirming

OneOwner ==
  /\ \A t \in Task : Works(t) => task[t].req \in reqs
  /\ \A x \in TxId : Claims(x) => tx[x].req \in reqs
  /\ \A s, t \in Task : Works(s) /\ Works(t) /\ task[s].req = task[t].req => s = t
  /\ \A t \in Task, x \in TxId : Works(t) /\ Claims(x) => task[t].req # tx[x].req
  /\ \A x, y \in TxId : Claims(x) /\ Claims(y) /\ tx[x].req = tx[y].req => x = y

OneConfirmation ==
  /\ \A t \in Task : Confirms(t) =>
       /\ task[t].tx \in TxId /\ task[t].req = tx[task[t].tx].req
       /\ tx[task[t].tx].status \notin {"free", "spent"}
  /\ \A s, t \in Task : Confirms(s) /\ Confirms(t) /\ task[s].tx = task[t].tx => s = t
  /\ execState.phase = "review" =>
       /\ execState.tx \in TxId /\ tx[execState.tx].status = "built"
       /\ \A t \in Task : Confirms(t) => task[t].tx # execState.tx
  /\ \A x \in TxId : tx[x].type = "restore" =>
       /\ tx[x].leg \in Restores
       /\ tx[x].status \in {"sent", "ok", "failed", "spent"} => RestoreOp \in ALLOWED_OP_TYPES

SaleInv == TypeInv /\ OneOwner /\ OneConfirmation

\* A step of handler t alone that neither takes up a request nor a transaction.
QuietTask(t) ==
  /\ \A s \in Task \ {t} : task'[s] = task[s]
  /\ Works(t)' => Works(t) /\ task'[t].req = task[t].req
  /\ Confirms(t)' => /\ Confirms(t)
                     /\ task'[t].tx = task[t].tx /\ task'[t].req = task[t].req

\* Such a step leaves the owners as they are.
LEMMA QuietStep ==
  ASSUME SaleInv, NEW t \in Task, QuietTask(t), UNCHANGED <<tx, reqs>>, NoNewReview
  PROVE  (OneOwner /\ OneConfirmation)'
<1>1. \A s \in Task : /\ Works(s)' => Works(s) /\ task'[s].req = task[s].req
                      /\ Confirms(s)' => /\ Confirms(s)
                                         /\ task'[s].tx = task[s].tx /\ task'[s].req = task[s].req
  BY DEF QuietTask, Works, Confirms
<1>2. OneOwner'
  BY <1>1 DEF SaleInv, OneOwner, Claims
<1>3. OneConfirmation'
  BY <1>1 DEF SaleInv, OneConfirmation, NoNewReview
<1>4. QED
  BY <1>2, <1>3

\* A handler that starts or resumes at pc stores what it was entered with.
LEMMA EnterFields ==
  ASSUME TypeOK, NEW t \in Task, NEW pc, NEW leg, NEW r, NEW c, NEW a, Enter(t, pc, leg, r, c, a)
  PROVE  /\ task'[t].pc = pc /\ task'[t].leg = leg /\ task'[t].req = r
         /\ \A s \in Task \ {t} : task'[s] = task[s]
<1> DEFINE entered == [Idle EXCEPT !.pc = pc, !.leg = leg, !.req = r, !.comp = c, !.asset = a]
<1>1. entered.pc = pc /\ entered.leg = leg /\ entered.req = r
  BY DEF Idle
<1> HIDE DEF entered
<1>2. task' = [task EXCEPT ![t] = entered]
  BY DEF Enter, entered
<1>3. QED
  BY <1>1, <1>2 DEF TypeOK

\* doExecute for request r leaves its handler idle, or at work on r alone.
LEMMA DoExecuteOwns ==
  ASSUME TypeOK, NEW t \in Task, NEW r, DoExecute(t, r)
  PROVE  /\ \A s \in Task \ {t} : task'[s] = task[s]
         /\ ~Confirms(t)' /\ NoNewReview
         /\ Works(t)' => task'[t].req = r
<1>1. CASE task' = [task EXCEPT ![t] = Idle]
  BY <1>1, ContinuationsOpenNoReview DEF TypeOK, Idle, Works, Confirms, Confirming
<1>2. ASSUME NEW pc \in {"balBefore", "sbKit", "build"}, NEW leg, NEW c, NEW a,
             Enter(t, pc, leg, r, c, a)
      PROVE  /\ \A s \in Task \ {t} : task'[s] = task[s]
             /\ ~Confirms(t)' /\ task'[t].req = r
  BY <1>2, EnterFields DEF Confirms, Confirming
<1>3. QED
  BY <1>1, <1>2, ContinuationsOpenNoReview DEF DoExecute, StartLeg1

\* So does buildCompositeLeg2, which sells no BLND.
LEMMA StartLeg2Owns ==
  ASSUME TypeOK, NEW t \in Task, NEW c, StartLeg2(t, c)
  PROVE  QuietTask(t) /\ NoNewReview
<1>1. CASE task' = [task EXCEPT ![t] = Idle]
  BY <1>1, ContinuationsOpenNoReview DEF TypeOK, Idle, QuietTask, Works, Confirms, Confirming
<1>2. ASSUME NEW pc \in {"sbKit", "build"}, NEW r, NEW d, Enter(t, pc, "leg2", r, d, "EURC")
      PROVE  QuietTask(t)
  BY <1>2, EnterFields DEF QuietTask, Works, Confirms, Confirming, SellsBlnd
<1>3. QED
  BY <1>1, <1>2, ContinuationsOpenNoReview DEF StartLeg2

\* A click takes up a request that had no owner.
LEMMA NewOwner ==
  ASSUME SaleInv, NEW t \in Task, NEW r \in Req, NewRequest(r), UNCHANGED tx, NoNewReview,
         \A s \in Task \ {t} : task'[s] = task[s],
         ~Confirms(t)', Works(t)' => task'[t].req = r
  PROVE  (OneOwner /\ OneConfirmation)'
<1>1. \A s \in Task \ {t} : (Works(s)' <=> Works(s)) /\ (Confirms(s)' <=> Confirms(s))
  BY DEF Works, Confirms
<1>2. r \notin reqs /\ reqs' = reqs \cup {r}
  BY DEF NewRequest
<1>3. OneOwner'
  BY <1>1, <1>2 DEF SaleInv, OneOwner, Claims
<1>4. OneConfirmation'
  BY <1>1 DEF SaleInv, OneConfirmation, NoNewReview
<1>5. QED
  BY <1>3, <1>4


\* An owner at work becomes the transaction it built, or that sold for it.
LEMMA OwnerToTx ==
  ASSUME SaleInv, NEW t \in Task, NEW x \in TxId, NEW r \in TxRec,
         tx[x].status = "free", tx' = [tx EXCEPT ![x] = r], UNCHANGED reqs,
         r.status \notin {"free", "spent"}, r.leg \in SellsBlnd => Works(t),
         r.req = task[t].req, r.type = "restore" => r.leg \in Restores /\ r.status = "built",
         task' = [task EXCEPT ![t] = Idle],
         NoNewReview \/ (execState'.phase = "review" => execState'.tx = x /\ r.status = "built")
  PROVE  (OneOwner /\ OneConfirmation)'
<1>1. tx \in [TxId -> TxRec] /\ task \in [Task -> TaskRec]
  BY DEF SaleInv, TypeInv, TypeOK
<1>2. /\ tx'[x] = r /\ \A y \in TxId \ {x} : tx'[y] = tx[y]
      /\ ~Works(t)' /\ ~Confirms(t)' /\ \A s \in Task \ {t} : task'[s] = task[s]
  BY <1>1 DEF Idle, Works, Confirms, Confirming
<1>3. /\ \A s \in Task \ {t} : (Works(s)' <=> Works(s)) /\ (Confirms(s)' <=> Confirms(s))
      /\ \A y \in TxId \ {x} : Claims(y)' <=> Claims(y)
      /\ Claims(x)' <=> r.leg \in SellsBlnd
  BY <1>2 DEF Works, Confirms, Claims
<1>4. OneOwner'
  BY <1>2, <1>3 DEF SaleInv, OneOwner
<1>5. OneConfirmation'
  BY <1>2, <1>3 DEF SaleInv, OneConfirmation, NoNewReview
<1>6. QED
  BY <1>4, <1>5

\* A transaction in the hands of its confirmation, or of the ledger, changes
\* status and nothing else.
LEMMA StatusStep ==
  ASSUME SaleInv, NEW x \in TxId, NEW s \in {"sent", "ok", "failed"},
         tx[x].status \notin {"free", "spent"},
         tx' = [tx EXCEPT ![x].status = s], UNCHANGED <<task, execState, reqs>>, AllowedOps(x),
         \/ tx[x].status # "built"
         \/ \E t \in Task : Confirms(t) /\ task[t].tx = x
  PROVE  (OneOwner /\ OneConfirmation)'
<1>1. tx \in [TxId -> TxRec]
  BY DEF SaleInv, TypeInv, TypeOK
<1>2. /\ tx'[x].status = s /\ tx'[x].req = tx[x].req /\ tx'[x].leg = tx[x].leg
      /\ tx'[x].type = tx[x].type
      /\ \A y \in TxId \ {x} : tx'[y] = tx[y]
  BY <1>1 DEF TxRec
<1>3. \A y \in TxId : Claims(y)' <=> Claims(y)
  BY <1>2 DEF Claims
<1>4. OneOwner'
  BY <1>2, <1>3 DEF SaleInv, OneOwner, Works
<1>5. OneConfirmation'
  BY <1>2 DEF SaleInv, OneConfirmation, Confirms, AllowedOps
<1>6. QED
  BY <1>4, <1>5

\* Confirming a build takes it off the review.
LEMMA ConfirmClickStep ==
  ASSUME SaleInv, NEW t \in Task, ClickConfirm(t)
  PROVE  (OneOwner /\ OneConfirmation)'
<1> DEFINE x == execState.tx
           entered == [Idle EXCEPT !.pc = "sign", !.leg = tx[x].leg, !.req = tx[x].req,
                        !.tx = x, !.comp = execState.comp, !.asset = tx[x].asset]
<1>1. entered.pc = "sign" /\ entered.req = tx[x].req /\ entered.tx = x
  BY DEF Idle
<1>2. task' = [task EXCEPT ![t] = entered] /\ UNCHANGED <<tx, reqs>>
  BY DEF ClickConfirm, ledger
<1> HIDE DEF entered
<1>3. /\ task'[t].pc = "sign" /\ task'[t].req = tx[x].req /\ task'[t].tx = x
      /\ \A s \in Task \ {t} : task'[s] = task[s]
  BY <1>1, <1>2 DEF SaleInv, TypeInv, TypeOK
<1>4. execState'.phase = "signing" /\ execState.phase = "review"
  BY DEF ClickConfirm, SaleInv, TypeInv, TypeOK, ModalRec
<1>5. /\ \A s \in Task \ {t} : (Works(s)' <=> Works(s)) /\ (Confirms(s)' <=> Confirms(s))
      /\ ~Works(t)'
  BY <1>3 DEF Works, Confirms
<1>6. OneOwner'
  BY <1>2, <1>3, <1>5 DEF SaleInv, OneOwner, Claims
<1>7. OneConfirmation'
  BY <1>2, <1>3, <1>4, <1>5 DEF SaleInv, OneConfirmation
<1>8. QED
  BY <1>6, <1>7

\* No restore of a second leg is ever confirmed: none is needed, or submit
\* refuses the operation of a restore.
NoLeg2Restore == Restores \subseteq SellsBlnd \/ RestoreOp \notin ALLOWED_OP_TYPES

\* A confirmed restore returns its request to the handler that rebuilds the
\* swap, provided its leg sells BLND; everything else it does is quiet.
LEMMA AfterConfirmStep ==
  ASSUME SaleInv, NoLeg2Restore, NEW t \in Task, Confirms(t),
         tx[task[t].tx].status = "ok" \/ tx[task[t].tx].type = "swap",
         AfterConfirm(t), UNCHANGED reqs
  PROVE  (OneOwner /\ OneConfirmation)'
<1>0. PICK x \in TxId : /\ x = task[t].tx /\ task[t].req = tx[x].req
                       /\ tx[x].status \notin {"free", "spent"} /\ TypeOK
  BY DEF SaleInv, OneConfirmation, TypeInv
<1>1. CASE tx[x].type = "restore"
  <2>1. DoExecute(t, task[t].req) /\ tx' = [tx EXCEPT ![x].status = "spent"]
    BY <1>0, <1>1 DEF AfterConfirm
  <2>2. /\ \A s \in Task \ {t} : task'[s] = task[s]
        /\ ~Confirms(t)' /\ NoNewReview
        /\ Works(t)' => task'[t].req = task[t].req
    BY <1>0, <2>1, DoExecuteOwns
  <2>3. /\ tx'[x].status = "spent" /\ tx'[x].leg = tx[x].leg
        /\ \A y \in TxId \ {x} : tx'[y] = tx[y]
    BY <1>0, <2>1 DEF TypeOK, TxRec
  <2>r. RestoreOp \in ALLOWED_OP_TYPES /\ tx[x].leg \in Restores /\ tx[x].leg \in SellsBlnd
    BY <1>0, <1>1 DEF SaleInv, OneConfirmation, NoLeg2Restore
  <2>4. Claims(x) /\ tx[x].req \in reqs /\ ~Claims(x)'
    BY <1>0, <2>3, <2>r DEF SaleInv, OneOwner, Claims
  <2>5. /\ \A s \in Task \ {t} : (Works(s)' <=> Works(s)) /\ (Confirms(s)' <=> Confirms(s))
        /\ \A y \in TxId \ {x} : Claims(y)' <=> Claims(y)
    BY <2>2, <2>3 DEF Works, Confirms, Claims
  <2>6. OneOwner'
    BY <1>0, <2>2, <2>3, <2>4, <2>5 DEF SaleInv, OneOwner
  <2>7. OneConfirmation'
    BY <1>0, <2>2, <2>3, <2>5, <2>r DEF SaleInv, OneConfirmation, NoNewReview
  <2>8. QED
    BY <2>6, <2>7
<1>2. CASE tx[x].type # "restore"
  <2>1. UNCHANGED tx /\ NoNewReview
    BY <1>0, <1>2, ContinuationsOpenNoReview DEF AfterConfirm
  <2>2. QuietTask(t)
    BY <1>0, <1>2 DEF AfterConfirm, QuietTask, Works, Confirms, Confirming, TypeOK, TaskRec, Idle
  <2>3. QED
    BY <2>1, <2>2, QuietStep
<1>3. QED
  BY <1>1, <1>2


\* Each click is quiet, takes up a new request or confirms a build.
LEMMA ClickStep ==
  ASSUME SaleInv, NEW t \in Task, UserClick(t)
  PROVE  (OneOwner /\ OneConfirmation)'
<1>0. TypeOK
  BY DEF SaleInv, TypeInv
<1>1. CASE ClickExecute(t)
  <2>1. PICK r \in Req : NewRequest(r) /\ DoExecute(t, r)
    BY <1>1 DEF ClickExecute
  <2>2. UNCHANGED tx
    BY <1>1 DEF ClickExecute, ledger
  <2>3. QED
    BY <1>0, <2>1, <2>2, DoExecuteOwns, NewOwner
<1>2. CASE ClickSbFloor(t)
  <2>1. PICK r \in Req : NewRequest(r) /\ Enter(t, "build", "swap", r, NoComp, target)
    BY <1>2 DEF ClickSbFloor
  <2>2. UNCHANGED <<tx, execState>>
    BY <1>2 DEF ClickSbFloor, ledger
  <2>3. task'[t].pc = "build" /\ task'[t].req = r /\ \A s \in Task \ {t} : task'[s] = task[s]
    BY <1>0, <2>1, EnterFields
  <2>4. ~Confirms(t)' /\ NoNewReview
    BY <2>2, <2>3 DEF Confirms, Confirming, NoNewReview
  <2>5. QED
    BY <2>1, <2>2, <2>3, <2>4, NewOwner
<1>3. CASE ClickResumeLeg1(t)
  <2>1. PICK r \in Req, sb \in BOOLEAN : NewRequest(r) /\ StartLeg1(t, r, sb)
    BY <1>3 DEF ClickResumeLeg1
  <2>2. UNCHANGED <<tx, execState>>
    BY <1>3, <2>1 DEF ClickResumeLeg1, StartLeg1, ledger
  <2>3. /\ task'[t].pc = "balBefore" /\ task'[t].req = r
        /\ \A s \in Task \ {t} : task'[s] = task[s]
    BY <1>0, <2>1, EnterFields DEF StartLeg1
  <2>4. ~Confirms(t)' /\ NoNewReview
    BY <2>2, <2>3 DEF Confirms, Confirming, NoNewReview
  <2>5. QED
    BY <2>1, <2>2, <2>3, <2>4, NewOwner
<1>4. CASE ClickConfirm(t)
  BY <1>4, ConfirmClickStep
<1>5. CASE ClickRetryLeg2(t)
  <2>1. StartLeg2(t, execState.comp) /\ UNCHANGED <<tx, reqs>>
    BY <1>5 DEF ClickRetryLeg2, ledger
  <2>2. QED
    BY <1>0, <2>1, StartLeg2Owns, QuietStep
<1>6. CASE ClickRecover(t)
  <2>1. QuietTask(t)
    BY <1>0, <1>6 DEF ClickRecover, QuietTask, Works, Confirms, Confirming, TypeOK, Idle
  <2>2. QED
    BY <1>6, <2>1, QuietStep DEF ClickRecover, ledger, count, NoNewReview
<1>7. CASE ClickAddTrustline(t)
  <2>1. QuietTask(t)
    <3>1. CASE Enter(t, "trust", "swap", NoReq, execState.comp, Missing)
      BY <1>0, <3>1, EnterFields DEF QuietTask, Works, Confirms, Confirming
    <3>2. CASE UNCHANGED task
      BY <3>2 DEF QuietTask, Works, Confirms
    <3>3. QED
      BY <1>7, <3>1, <3>2 DEF ClickAddTrustline
  <2>2. UNCHANGED <<tx, reqs>> /\ NoNewReview
    BY <1>0, <1>7, ClicksOpenNoReview DEF UserClick, ClickAddTrustline, ledger, count
  <2>3. QED
    BY <2>1, <2>2, QuietStep
<1>8. QED
  BY <1>1, <1>2, <1>3, <1>4, <1>5, <1>6, <1>7 DEF UserClick

\* The steps of a handler that ends, or goes on with what it holds.
LEMMA HandlerQuiet ==
  ASSUME SaleInv, NEW t \in Task,
         \/ BalBeforeAnswer(t) \/ BuildError(t) \/ Signed(t) \/ ConfirmError(t)
         \/ SubmitPending(t) \/ PollCheck(t) \/ PollFailed(t) \/ PollNoNews(t)
         \/ BalCheck(t) \/ SbShow(t) \/ SbKeyAnswer(t) \/ SbProgress(t)
         \/ RecoverShow(t) \/ RecoverEnd(t) \/ TrustlineEnd(t)
  PROVE  QuietTask(t)
<1>0. task \in [Task -> TaskRec]
  BY DEF SaleInv, TypeInv, TypeOK
<1>1. CASE task' = [task EXCEPT ![t] = Idle]
  BY <1>0, <1>1 DEF QuietTask, Works, Confirms, Confirming, Idle
<1>2. CASE UNCHANGED task
  BY <1>2 DEF QuietTask, Works, Confirms
<1>3. CASE BalBeforeAnswer(t)
  BY <1>0, <1>3 DEF BalBeforeAnswer, QuietTask, Works, Confirms, Confirming, TaskRec
<1>4. CASE Signed(t) \/ SubmitPending(t)
  BY <1>0, <1>4 DEF Signed, SubmitPending, QuietTask, Works, Confirms, Confirming, TaskRec
<1>5. CASE PollCheck(t) \/ PollNoNews(t)
  BY <1>0, <1>1, <1>5 DEF PollCheck, PollNoNews, QuietTask, Works, Confirms, Confirming, TaskRec
<1>6. CASE BalCheck(t)
  BY <1>0, <1>1, <1>6 DEF BalCheck, QuietTask, Works, Confirms, Confirming, TaskRec
<1>7. CASE SbShow(t) \/ SbKeyAnswer(t) \/ RecoverShow(t)
  BY <1>0, <1>1, <1>7 DEF SbShow, SbKeyAnswer, RecoverShow, QuietTask, Works, Confirms,
       Confirming, TaskRec
<1>8. QED
  BY <1>1, <1>2, <1>3, <1>4, <1>5, <1>6, <1>7
     DEF BuildError, ConfirmError, PollFailed, SbProgress, RecoverEnd, TrustlineEnd

\* Every step of a handler preserves the owners.
LEMMA HandlerStep ==
  ASSUME SaleInv, NoLeg2Restore, NEW t \in Task, TaskStep(t) \/ SbProgress(t)
  PROVE  (OneOwner /\ OneConfirmation)'
<1>0. TypeOK
  BY DEF SaleInv, TypeInv
<1>1. CASE \/ BalBeforeAnswer(t) \/ BuildError(t) \/ Signed(t) \/ ConfirmError(t)
           \/ SubmitPending(t) \/ PollCheck(t) \/ PollFailed(t) \/ PollNoNews(t)
           \/ BalCheck(t) \/ SbShow(t) \/ SbKeyAnswer(t) \/ SbProgress(t)
           \/ RecoverShow(t) \/ RecoverEnd(t) \/ TrustlineEnd(t)
  <2>1. UNCHANGED <<tx, reqs>>
    BY <1>1 DEF BalBeforeAnswer, BuildError, Signed, ConfirmError, SubmitPending, PollCheck,
         PollFailed, PollNoNews, BalCheck, SbShow, SbKeyAnswer, SbProgress, RecoverShow,
         RecoverEnd, TrustlineEnd, ledger, count
  <2>2. NoNewReview
    BY <1>1, HandlersOpenNoReview
  <2>3. QED
    BY <1>1, <2>1, <2>2, HandlerQuiet, QuietStep
<1>2. CASE BuildReview(t)
  <2>1. PICK x \in TxId : x = Fresh /\ tx[x].status = "free"
    BY <1>2, FreshIsFree DEF BuildReview
  <2>2. PICK ty \in {"swap", "restore"}, ve \in {"sync", "poll"}, fw \in BOOLEAN :
       /\ ty = "restore" => task[t].leg \in Restores
       /\ tx' = [tx EXCEPT ![x] =
            [status |-> "built", leg |-> task[t].leg, type |-> ty, venue |-> ve,
             fw |-> fw, asset |-> task[t].asset, amt |-> task[t].comp.got,
             req |-> task[t].req]]
       /\ execState' = Modal("review", x, BuiltComp(t))
    BY <1>2, <2>1 DEF BuildReview
  <2> DEFINE r == [status |-> "built", leg |-> task[t].leg, type |-> ty, venue |-> ve,
                   fw |-> fw, asset |-> task[t].asset, amt |-> task[t].comp.got,
                   req |-> task[t].req]
  <2>3. r \in TxRec
    BY <1>0, TaskFields DEF TxRec, CompRec
  <2>4. r.leg \in SellsBlnd => Works(t)
    BY <1>2 DEF BuildReview, Works
  <2>5. execState'.tx = x
    BY <2>2 DEF Modal
  <2>6. UNCHANGED reqs /\ task' = [task EXCEPT ![t] = Idle]
    BY <1>2 DEF BuildReview, count
  <2>7. /\ r.status = "built" /\ r.req = task[t].req
        /\ r.type = "restore" => r.leg \in Restores
        /\ tx' = [tx EXCEPT ![x] = r]
    BY <2>2
  <2> HIDE DEF r
  <2>8. QED
    BY <2>1, <2>3, <2>4, <2>5, <2>6, <2>7, OwnerToTx
<1>3. CASE SubmitConfirmed(t) \/ PollSuccess(t)
  BY <1>3, AfterConfirmStep DEF SubmitConfirmed, PollSuccess, Confirms, Confirming, count
<1>4. CASE BalAnswer(t)
  <2>1. UNCHANGED <<tx, reqs>> /\ NoNewReview
    BY <1>4, HandlersOpenNoReview DEF BalAnswer, ledger, count
  <2>2. QuietTask(t)
    <3>1. CASE \E c : StartLeg2(t, c)
      BY <1>0, <3>1, StartLeg2Owns
    <3>2. CASE \E f : task' = [task EXCEPT ![t].pc = "balWait", ![t].n = @ + 1, ![t].first = f]
      BY <1>0, <3>2 DEF QuietTask, Works, Confirms, Confirming, TypeOK, TaskRec
    <3>3. QED
      BY <1>4, <3>1, <3>2 DEF BalAnswer
  <2>3. QED
    BY <2>1, <2>2, QuietStep
<1>5. CASE SbEnd(t)
  <2>1. task' = [task EXCEPT ![t] = Idle] /\ UNCHANGED reqs /\ NoNewReview
    BY <1>5, HandlersOpenNoReview DEF SbEnd, count
  <2>2. CASE UNCHANGED <<tx, usdc>>
    <3>1. QuietTask(t)
      BY <1>0, <2>1 DEF QuietTask, Works, Confirms, Confirming, TypeOK, Idle
    <3>2. QED
      BY <2>1, <2>2, <3>1, QuietStep
  <2>3. CASE SbSale(t)
    <3> DEFINE r == [FreeTx EXCEPT !.status = "ok", !.leg = task[t].leg,
                       !.asset = task[t].asset, !.amt = task[t].comp.got, !.req = task[t].req]
    <3>1. PICK x \in TxId : x = Fresh /\ tx[x].status = "free"
      BY <2>3, FreshIsFree DEF SbSale
    <3>2. tx' = [tx EXCEPT ![x] = r]
      BY <2>3, <3>1 DEF SbSale
    <3>3. r \in TxRec
      BY <1>0, TaskFields DEF TxRec, CompRec, FreeTx
    <3>4. /\ r.status = "ok" /\ r.req = task[t].req /\ r.type = "swap"
          /\ r.leg = task[t].leg
      BY DEF FreeTx
    <3>5. r.leg \in SellsBlnd => Works(t)
      BY <1>5, <3>4 DEF SbEnd, Works
    <3> HIDE DEF r
    <3>6. QED
      BY <2>1, <3>1, <3>2, <3>3, <3>4, <3>5, OwnerToTx
  <2>4. QED
    BY <1>5, <2>2, <2>3 DEF SbEnd
<1>6. QED
  BY <1>1, <1>2, <1>3, <1>4, <1>5 DEF TaskStep

\* Every step preserves the owners, provided no second leg needs a restore.
LEMMA SaleStep ==
  ASSUME SaleInv, NoLeg2Restore, [Next]_vars PROVE SaleInv'
<1>1. TypeInv'
  BY TypeStep, ReviewStep DEF SaleInv, TypeInv
<1>2. CASE \/ UNCHANGED vars \/ EditPage \/ DoSim \/ SimAnswer \/ ToggleWallet
           \/ HorizonCatchesUp \/ ClickClose
  <2>1. UNCHANGED <<task, tx, reqs>> /\ NoNewReview
    <3>1. CASE ClickClose
      BY <3>1 DEF ClickClose, ledger, count, NoNewReview, Closed, Modal
    <3>2. CASE UNCHANGED vars
      BY <3>2 DEF vars, ledger, count, NoNewReview
    <3>3. QED
      BY <1>2, <3>1, <3>2 DEF EditPage, DoSim, SimAnswer, ToggleWallet, HorizonCatchesUp,
           ledger, count, NoNewReview
  <2>2. OneOwner'
    BY <2>1 DEF SaleInv, OneOwner, Works, Claims
  <2>3. OneConfirmation'
    BY <2>1 DEF SaleInv, OneConfirmation, Confirms, NoNewReview
  <2>4. QED
    BY <1>1, <2>2, <2>3 DEF SaleInv
<1>3. ASSUME NEW t \in Task, SubmitFires(t) PROVE SaleInv'
  <2>1. PICK x \in TxId : x = task[t].tx /\ Confirms(t)
    BY <1>3 DEF SubmitFires, SaleInv, OneConfirmation, Confirms, Confirming
  <2>2. /\ tx' = [tx EXCEPT ![x].status = "sent"] /\ tx[x].status = "built"
        /\ UNCHANGED <<task, execState, reqs>> /\ AllowedOps(x)
    BY <1>3, <2>1 DEF SubmitFires, count
  <2>3. QED
    BY <1>1, <2>1, <2>2, StatusStep DEF SaleInv
<1>4. ASSUME NEW x \in TxId, LedgerApply(x) PROVE SaleInv'
  <2>1. PICK s \in {"failed", "ok"} : tx' = [tx EXCEPT ![x].status = s]
    BY <1>4 DEF LedgerApply
  <2>2. /\ tx[x].status = "sent" /\ UNCHANGED <<task, execState, reqs>>
        /\ AllowedOps(x)
    BY <1>4 DEF LedgerApply, count, SaleInv, OneConfirmation, AllowedOps
  <2>3. QED
    BY <1>1, <2>1, <2>2, StatusStep DEF SaleInv
<1>5. ASSUME NEW t \in Task, UserClick(t) \/ TaskStep(t) \/ SbProgress(t) PROVE SaleInv'
  BY <1>1, <1>5, ClickStep, HandlerStep DEF SaleInv
<1>6. QED
  BY <1>2, <1>3, <1>4, <1>5 DEF Next

\* However many handlers overlap, one click on an Execute button sells BLND at
\* most once, as long as no restore of a second leg is confirmed: confirmExecute
\* answers a confirmed restore with doExecute, which starts the swap over.
THEOREM OneSale ==
  ASSUME NoLeg2Restore PROVE Spec => []OneSalePerRequest
<1>1. Init => SaleInv
  <2>1. SUFFICES ASSUME Init PROVE SaleInv
    OBVIOUS
  <2>2. TypeInv
    BY <2>1, InitType
  <2>3. /\ \A t \in Task : task[t].pc = "idle"
        /\ \A x \in TxId : tx[x].status = "free" /\ tx[x].type = "swap"
        /\ execState.phase = "none"
    BY <2>1 DEF Init, Idle, FreeTx, Closed, Modal
  <2>4. QED
    BY <2>2, <2>3 DEF SaleInv, OneOwner, OneConfirmation, Works, Claims, Confirms, Confirming
<1>2. SaleInv /\ [Next]_vars => SaleInv'
  BY SaleStep
<1>3. SaleInv => OneSalePerRequest
  BY DEF SaleInv, OneOwner, Claims, OneSalePerRequest, Landed
<1>4. QED
  BY <1>1, <1>2, <1>3, PTL DEF Spec
=============================================================================
