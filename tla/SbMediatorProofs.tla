--------------------------- MODULE SbMediatorProofs ---------------------------
(***************************************************************************)
(* Theorems about SbMediator, for any tabs, accounts and bounds.           *)
(***************************************************************************)
EXTENDS SbRefinement, TLAPS

-----------------------------------------------------------------------------
(* The inductive invariant.                                                *)

WithAccount == {"sign", "fund", "load", "merge", "rmerge"} \cup Streaming

\* A session past the choice of its key knows its account.
KnowsAccount ==
  \A t \in Tab : tab[t].pc \in WithAccount \/ tab[t].inited => tab[t].acct \in Account

\* An account whose funding awaits a signature belongs to one session.
KeyIsOwn ==
  /\ \A t \in Tab : tab[t].pc = "sign" => acct[tab[t].acct].state = "keyed"
  /\ \A t, u \in Tab : tab[t].pc = "sign" /\ tab[u].pc = "sign"
                         /\ tab[t].acct = tab[u].acct => t = u

Unopened == {"none", "keyed", "funding", "dropped"}

\* No more is signed away than is left, and nothing before there is something.
NotOversold ==
  \A a \in Account :
    /\ acct[a].flying <= acct[a].left
    /\ acct[a].state \in Unopened => acct[a].left = 0

\* inited is set by the answer to the funding, and never in a recovery.
BeforeInit == {"init", "sign", "fund", "rload", "rmerge"}
InitedInSession == \A t \in Tab : tab[t].pc \in BeforeInit => ~tab[t].inited

\* A confirmed session that ends without asking for a recovery has returned its funds.
ReturnedOnceConfirmed ==
  \A t \in Tab :
    tab[t].pc = "idle" /\ tab[t].inited /\ ~tab[t].needsRecovery
      => acct[tab[t].acct].state = "merged"

SbInv == TypeOK /\ KnowsAccount /\ InitedInSession /\ KeyIsOwn /\ NotOversold /\ ReturnedOnceConfirmed

-----------------------------------------------------------------------------
\* A tab moves to s, the ledger stays: what must be known of s.
LEMMA TabMoves ==
  ASSUME SbInv, NEW t \in Tab, NEW s \in TabRec, Becomes(t, s),
         UNCHANGED Ledger, storage' \subseteq Account, closes' \in 0..MaxCloses,
         s.pc # "sign",
         s.pc \in WithAccount \/ s.inited => s.acct \in Account,
         s.pc \in BeforeInit => ~s.inited,
         s.pc = "idle" /\ s.inited /\ ~s.needsRecovery => acct[s.acct].state = "merged"
  PROVE  SbInv'
<1> USE DEF SbInv, Becomes, Ledger
<1>1. tab' \in [Tab -> TabRec] /\ tab'[t] = s /\ \A u \in Tab \ {t} : tab'[u] = tab[u]
  BY DEF TypeOK
<1>2. TypeOK'
  BY <1>1 DEF TypeOK
<1>3. KnowsAccount' /\ InitedInSession'
  BY <1>1 DEF KnowsAccount, InitedInSession
<1>4. KeyIsOwn'
  BY <1>1 DEF KeyIsOwn
<1>5. NotOversold'
  BY DEF NotOversold
<1>6. ReturnedOnceConfirmed'
  BY <1>1 DEF ReturnedOnceConfirmed
<1> QED BY <1>2, <1>3, <1>4, <1>5, <1>6

\* The ledger resolves something, the tabs stay.
LEMMA LedgerMoves ==
  ASSUME SbInv, NEW a \in Account, NEW r \in AcctRec,
         acct' = [acct EXCEPT ![a] = r], UNCHANGED <<tab, storage, closes>>,
         merges' \subseteq merges,
         r.flying <= r.left, r.state \in Unopened => r.left = 0,
         acct[a].state \in {"keyed", "merged"} => r.state = acct[a].state
  PROVE  SbInv'
<1> USE DEF SbInv
<1>1. acct' \in [Account -> AcctRec] /\ acct'[a] = r
        /\ \A b \in Account \ {a} : acct'[b] = acct[b]
  BY DEF TypeOK
<1>2. \A b \in Account : acct[b].state \in {"keyed", "merged"} => acct'[b].state = acct[b].state
  BY <1>1
<1>3. TypeOK'
  BY <1>1 DEF TypeOK
<1>4. KnowsAccount' /\ InitedInSession'
  BY DEF KnowsAccount, InitedInSession
<1>5. KeyIsOwn'
  BY <1>2 DEF KeyIsOwn, KnowsAccount, WithAccount
<1>6. NotOversold'
  BY <1>1 DEF NotOversold
<1>7. ReturnedOnceConfirmed'
  BY <1>2 DEF ReturnedOnceConfirmed, KnowsAccount
<1> QED BY <1>3, <1>4, <1>5, <1>6, <1>7

-----------------------------------------------------------------------------
LEMMA SbInit == Init => SbInv
<1> SUFFICES ASSUME Init PROVE SbInv
  OBVIOUS
<1> USE SbAssumption DEF Init, Idle
<1>1. TypeOK
  BY DEF TypeOK, TabRec, AcctRec
<1>2. KnowsAccount /\ InitedInSession /\ KeyIsOwn /\ ReturnedOnceConfirmed
  BY DEF KnowsAccount, InitedInSession, BeforeInit, KeyIsOwn, ReturnedOnceConfirmed,
         WithAccount, Streaming
<1>3. NotOversold
  BY DEF NotOversold
<1> QED BY <1>1, <1>2, <1>3 DEF SbInv

\* Sessions before there is an account, and the way the user and the tab end them.
LEMMA UserKeeps == ASSUME SbInv, NEW t \in Tab, User(t) PROVE SbInv'
<1> USE SbAssumption
<1>0. tab[t] \in TabRec /\ storage \subseteq Account /\ closes \in 0..MaxCloses
  BY DEF SbInv, TypeOK
<1>a. Idle \in TabRec /\ Idle.pc = "idle" /\ ~Idle.inited
  BY DEF Idle, TabRec
<1>1. CASE StartSwap(t)
  <2> DEFINE s == [Idle EXCEPT !.pc = "init", !.notice = tab[t].notice]
  <2>1. s \in TabRec /\ s.pc = "init" /\ ~s.inited
    BY <1>0, <1>a DEF TabRec, Running
  <2> QED BY <1>0, <1>1, <2>1, TabMoves DEF StartSwap, BeforeInit, WithAccount, Streaming
<1>2. CASE ClickClose(t)
  <2> DEFINE s == [Idle EXCEPT !.notice = tab[t].notice]
  <2>1. s \in TabRec /\ s.pc = "idle" /\ ~s.inited
    BY <1>0, <1>a DEF TabRec
  <2> QED BY <1>0, <1>2, <2>1, TabMoves DEF ClickClose, BeforeInit, WithAccount, Streaming
<1>3. CASE Reconnect(t)
  <2> DEFINE s == [tab[t] EXCEPT !.notice = TRUE]
  <2>1. s \in TabRec /\ s.pc = tab[t].pc /\ s.inited = tab[t].inited
          /\ s.acct = tab[t].acct /\ s.needsRecovery = tab[t].needsRecovery
    BY <1>0 DEF TabRec
  <2> QED
    BY <1>0, <1>3, <2>1, TabMoves
    DEF Reconnect, PageReachable, BeforeInit, WithAccount, Streaming, SbInv, KnowsAccount, ReturnedOnceConfirmed
<1>4. CASE StartRecover(t)
  <2> DEFINE s == [Idle EXCEPT !.pc = "rload", !.todo = storage, !.notice = tab[t].notice]
  <2>1. s \in TabRec /\ s.pc = "rload" /\ ~s.inited
    BY <1>0, <1>a DEF TabRec, Recovery
  <2> QED BY <1>0, <1>4, <2>1, TabMoves DEF StartRecover, WithAccount, Streaming
<1>5. CASE CloseTab(t)
  <2>1. closes' \in 0..MaxCloses
    BY <1>0, <1>5 DEF CloseTab
  <2> QED BY <1>0, <1>5, <1>a, <2>1, TabMoves DEF CloseTab, BeforeInit, WithAccount, Streaming
<1> QED BY <1>1, <1>2, <1>3, <1>4, <1>5 DEF User

\* Creating and funding the account.
LEMMA InitStoresKeeps == ASSUME SbInv, NEW t \in Tab, InitStores(t) PROVE SbInv'
<1> USE DEF SbInv
<1>1. PICK a \in Account :
        /\ acct[a].state = "none"
        /\ acct' = [acct EXCEPT ![a].state = "keyed"]
        /\ storage' = storage \cup {a}
        /\ tab' = [tab EXCEPT ![t] = [tab[t] EXCEPT !.pc = "sign", !.acct = a]]
  BY DEF InitStores, Becomes
<1>2. /\ acct' \in [Account -> AcctRec]
      /\ acct'[a] = [acct[a] EXCEPT !.state = "keyed"]
      /\ \A b \in Account \ {a} : acct'[b] = acct[b]
  BY <1>1 DEF TypeOK, AcctRec
<1>3. /\ tab' \in [Tab -> TabRec]
      /\ tab'[t].pc = "sign" /\ tab'[t].acct = a
      /\ \A u \in Tab \ {t} : tab'[u] = tab[u]
  <2>1. tab \in [Tab -> TabRec] /\ tab[t] \in TabRec
    BY DEF TypeOK
  <2>2. /\ [tab[t] EXCEPT !.pc = "sign", !.acct = a] \in TabRec
        /\ [tab[t] EXCEPT !.pc = "sign", !.acct = a].pc = "sign"
        /\ [tab[t] EXCEPT !.pc = "sign", !.acct = a].acct = a
    BY <2>1 DEF TabRec, Running
  <2> QED BY <1>1, <2>1, <2>2
<1>4. TypeOK'
  BY <1>1, <1>2, <1>3 DEF TypeOK, InitStores
<1>5. KnowsAccount' /\ InitedInSession'
  <2>1. ~tab'[t].inited
    BY <1>1, <1>3 DEF InitStores, InitedInSession, BeforeInit, TypeOK, TabRec
  <2> QED BY <1>3, <2>1 DEF KnowsAccount, InitedInSession
<1>6. KeyIsOwn'
  <2>1. acct'[a].state = "keyed"
    BY <1>2 DEF TypeOK, AcctRec
  <2>2. \A u \in Tab \ {t} : tab[u].pc = "sign" => tab[u].acct \in Account \ {a}
    BY <1>1 DEF KeyIsOwn, KnowsAccount, WithAccount
  <2>3. \A u \in Tab : tab'[u].pc = "sign" => acct'[tab'[u].acct].state = "keyed"
    <3> SUFFICES ASSUME NEW u \in Tab, tab'[u].pc = "sign"
                 PROVE  acct'[tab'[u].acct].state = "keyed"
      OBVIOUS
    <3>1. CASE u = t
      BY <3>1, <1>3, <2>1
    <3>2. CASE u # t
      BY <3>2, <1>2, <1>3, <2>2 DEF KeyIsOwn
    <3> QED BY <3>1, <3>2
  <2>4. \A u, v \in Tab : tab'[u].pc = "sign" /\ tab'[v].pc = "sign"
                            /\ tab'[u].acct = tab'[v].acct => u = v
    BY <1>3, <2>2 DEF KeyIsOwn
  <2> QED BY <2>3, <2>4 DEF KeyIsOwn
<1>7. NotOversold'
  BY <1>1, <1>2 DEF NotOversold, Unopened, TypeOK, AcctRec
<1>8. ReturnedOnceConfirmed'
  <2>1. \A b \in Account : acct[b].state = "merged" => acct'[b].state = "merged"
    BY <1>1, <1>2
  <2> QED BY <1>3, <2>1 DEF ReturnedOnceConfirmed, KnowsAccount
<1> QED BY <1>4, <1>5, <1>6, <1>7, <1>8

LEMMA FundingSentKeeps == ASSUME SbInv, NEW t \in Tab, FundingSent(t) PROVE SbInv'
<1> USE DEF SbInv
<1> DEFINE a == tab[t].acct
<1>1. /\ tab[t].pc = "sign" /\ a \in Account /\ acct[a].state = "keyed"
      /\ acct' = [acct EXCEPT ![a].state = "funding"]
      /\ tab' = [tab EXCEPT ![t] = [tab[t] EXCEPT !.pc = "fund"]]
  BY DEF FundingSent, Goto, Becomes, KnowsAccount, WithAccount, KeyIsOwn
<1>2. /\ acct' \in [Account -> AcctRec]
      /\ acct'[a] = [acct[a] EXCEPT !.state = "funding"]
      /\ \A b \in Account \ {a} : acct'[b] = acct[b]
  BY <1>1 DEF TypeOK, AcctRec
<1>3. /\ tab' \in [Tab -> TabRec]
      /\ tab'[t].pc = "fund" /\ tab'[t].acct = a
      /\ \A u \in Tab \ {t} : tab'[u] = tab[u]
  BY <1>1 DEF TypeOK, TabRec, Running
<1>4. TypeOK'
  BY <1>2, <1>3 DEF TypeOK, FundingSent
<1>5. KnowsAccount' /\ InitedInSession'
  <2>1. ~tab'[t].inited
    BY <1>1, <1>3 DEF InitedInSession, BeforeInit, TypeOK, TabRec
  <2> QED BY <1>1, <1>3, <2>1 DEF KnowsAccount, InitedInSession
<1>6. KeyIsOwn'
  <2>1. \A u \in Tab \ {t} : tab[u].pc = "sign" => tab[u].acct \in Account \ {a}
    BY <1>1 DEF KeyIsOwn, KnowsAccount, WithAccount
  <2> QED BY <1>2, <1>3, <2>1 DEF KeyIsOwn
<1>7. NotOversold'
  BY <1>1, <1>2 DEF NotOversold, Unopened, TypeOK, AcctRec
<1>8. ReturnedOnceConfirmed'
  <2>1. \A b \in Account : acct[b].state = "merged" => acct'[b].state = "merged"
    BY <1>1, <1>2
  <2> QED BY <1>3, <2>1 DEF ReturnedOnceConfirmed, KnowsAccount
<1> QED BY <1>4, <1>5, <1>6, <1>7, <1>8

\* A submitted disposal changes the set of disposals in flight and one tab.
LEMMA SubmitsKeeps ==
  ASSUME SbInv, NEW t \in Tab, NEW a \in Account, NEW s \in TabRec,
         Submits(a), Becomes(t, s), s.pc \in {"merge", "rmerge"}, s.acct \in Account,
         s.pc = "rmerge" => ~s.inited
  PROVE  SbInv'
<1> USE DEF SbInv, Becomes, Submits
<1>1. tab' \in [Tab -> TabRec] /\ tab'[t] = s /\ \A u \in Tab \ {t} : tab'[u] = tab[u]
  BY DEF TypeOK
<1>2. TypeOK'
  <2>1. acct[a].left \in 0..Lots
    BY DEF TypeOK, AcctRec
  <2> QED BY <1>1, <2>1 DEF TypeOK
<1>3. KnowsAccount' /\ InitedInSession' /\ KeyIsOwn' /\ ReturnedOnceConfirmed'
  BY <1>1 DEF KnowsAccount, InitedInSession, BeforeInit, KeyIsOwn, ReturnedOnceConfirmed
<1>4. NotOversold'
  BY DEF NotOversold
<1> QED BY <1>2, <1>3, <1>4

\* What becomes of a tab whose disposal has thrown.
LEMMA AttemptKeeps ==
  ASSUME SbInv, NEW t \in Tab, tab[t].pc \in {"load", "merge"}, AttemptFails(t),
         UNCHANGED Ledger, closes' = closes, storage' \subseteq storage
  PROVE  SbInv'
<1> USE SbAssumption
<1>1. /\ tab[t] \in TabRec /\ tab[t].acct \in Account
      /\ storage' \subseteq Account /\ closes' \in 0..MaxCloses
  BY DEF SbInv, TypeOK, KnowsAccount, WithAccount
<1>2. CASE tab[t].attempt < Attempts
  <2> DEFINE s == [tab[t] EXCEPT !.pc = "load", !.attempt = @ + 1]
  <2>1. tab[t].attempt + 1 \in 0..Attempts
    BY <1>1, <1>2 DEF TabRec
  <2>2. s \in TabRec /\ s.pc = "load" /\ s.acct = tab[t].acct
    BY <1>1, <2>1 DEF TabRec, Running
  <2> QED BY <1>1, <1>2, <2>2, TabMoves DEF AttemptFails, BeforeInit
<1>3. CASE ~(tab[t].attempt < Attempts)
  <2> DEFINE s == [tab[t] EXCEPT !.pc = "idle", !.needsRecovery = TRUE]
  <2>1. s \in TabRec /\ s.pc = "idle" /\ s.acct = tab[t].acct /\ s.needsRecovery
    BY <1>1 DEF TabRec
  <2> QED BY <1>1, <1>3, <2>1, TabMoves DEF AttemptFails, BeforeInit
<1> QED BY <1>2, <1>3

\* The end of the stream, for whatever reason.
LEMMA StreamEndKeeps ==
  ASSUME SbInv, NEW t \in Tab, tab[t].pc \in Streaming,
         NEW result \in {"done", "blocked", "error"}, StreamEnds(t, result)
  PROVE  SbInv'
<1> USE SbAssumption
<1> DEFINE s == [tab[t] EXCEPT !.pc = "load", !.attempt = 1, !.result = result]
<1>1. /\ tab[t] \in TabRec /\ tab[t].acct \in Account
      /\ storage \subseteq Account /\ closes \in 0..MaxCloses
  BY DEF SbInv, TypeOK, KnowsAccount, WithAccount
<1>2. 1 \in 0..Attempts
  OBVIOUS
<1>3. s \in TabRec /\ s.pc = "load" /\ s.acct = tab[t].acct
  BY <1>1, <1>2 DEF TabRec, Running
<1> QED BY <1>1, <1>3, TabMoves DEF StreamEnds, BeforeInit

LEMMA AnswerKeeps == ASSUME SbInv, NEW t \in Tab, Answer(t) PROVE SbInv'
<1> USE SbAssumption
<1>0. /\ tab[t] \in TabRec /\ storage \subseteq Account /\ closes \in 0..MaxCloses
      /\ tab[t].pc \in WithAccount \/ tab[t].inited => tab[t].acct \in Account
      /\ tab[t].pc \in BeforeInit => ~tab[t].inited
  BY DEF SbInv, TypeOK, KnowsAccount, InitedInSession
<1>1. CASE InitRefused(t) \/ SignRejected(t) \/ FundAnswerFails(t)
  <2> DEFINE s == [tab[t] EXCEPT !.pc = "idle", !.result = "error"]
  <2>1. s \in TabRec /\ s.pc = "idle" /\ s.inited = tab[t].inited
    BY <1>0 DEF TabRec
  <2>2. ~tab[t].inited
    BY <1>0, <1>1 DEF InitRefused, SignRejected, FundAnswerFails, BeforeInit
  <2> QED
    BY <1>0, <1>1, <2>1, <2>2, TabMoves
    DEF InitRefused, SignRejected, FundAnswerFails, Ends, BeforeInit, WithAccount, Streaming
<1>2. CASE InitStores(t)
  BY <1>2, InitStoresKeeps
<1>3. CASE FundingSent(t)
  BY <1>3, FundingSentKeeps
<1>4. CASE FundAnswerOk(t)
  <2> DEFINE s == [tab[t] EXCEPT !.pc = "connect", !.inited = TRUE]
  <2>1. s \in TabRec /\ s.pc = "connect" /\ s.acct = tab[t].acct
    BY <1>0 DEF TabRec, Running, Streaming
  <2>2. tab[t].acct \in Account
    BY <1>0, <1>4 DEF FundAnswerOk, WithAccount
  <2> QED BY <1>0, <1>4, <2>1, <2>2, TabMoves DEF FundAnswerOk, BeforeInit
<1>5. CASE StreamFails(t)
  BY <1>5, StreamEndKeeps DEF StreamFails
<1>6. CASE DisposeSubmits(t)
  <2> DEFINE s == [tab[t] EXCEPT !.pc = "merge"]
  <2>1. s \in TabRec /\ s.pc = "merge" /\ s.acct = tab[t].acct
    BY <1>0 DEF TabRec, Running
  <2>2. tab[t].acct \in Account
    BY <1>0, <1>6 DEF DisposeSubmits, WithAccount
  <2> QED BY <1>6, <2>1, <2>2, SubmitsKeeps DEF DisposeSubmits, Goto
<1>7. CASE DisposeMissing(t) \/ DisposeFails(t)
  BY <1>7, AttemptKeeps DEF DisposeMissing, DisposeFails
<1>8. CASE DisposeOk(t)
  <2> DEFINE s == [tab[t] EXCEPT !.pc = "idle"]
  <2>1. s \in TabRec /\ s.pc = "idle" /\ s.inited = tab[t].inited /\ s.acct = tab[t].acct
    BY <1>0 DEF TabRec
  <2> QED
    BY <1>0, <1>8, <2>1, TabMoves DEF DisposeOk, Goto, BeforeInit, WithAccount, Streaming
<1>9. CASE RecoverSubmits(t)
  <2>1. PICK a \in tab[t].todo :
          Submits(a) /\ Becomes(t, [tab[t] EXCEPT !.pc = "rmerge", !.acct = a])
    BY <1>9 DEF RecoverSubmits
  <2> DEFINE s == [tab[t] EXCEPT !.pc = "rmerge", !.acct = a]
  <2>2. a \in Account
    BY <1>0 DEF TabRec
  <2>3. s \in TabRec /\ s.pc = "rmerge" /\ s.acct = a /\ s.inited = tab[t].inited
    BY <1>0, <2>2 DEF TabRec, Recovery
  <2>4. ~tab[t].inited
    BY <1>0, <1>9 DEF RecoverSubmits, BeforeInit
  <2> QED BY <2>1, <2>2, <2>3, <2>4, SubmitsKeeps
<1>10. CASE RecoverMissing(t) \/ RecoverFails(t)
  <2> DEFINE s == [Idle EXCEPT !.result = "error", !.notice = tab[t].notice]
  <2>1. Idle \in TabRec /\ Idle.pc = "idle" /\ ~Idle.inited
    BY DEF Idle, TabRec
  <2>2. s \in TabRec /\ s.pc = "idle" /\ ~s.inited
    BY <1>0, <2>1 DEF TabRec
  <2>3. storage' \subseteq Account
    BY <1>0, <1>10 DEF RecoverMissing, RecoverFails
  <2> QED
    BY <1>0, <1>10, <2>2, <2>3, TabMoves
    DEF RecoverMissing, RecoverFails, BeforeInit, WithAccount, Streaming
<1>11. CASE RecoverOk(t)
  <2> DEFINE s == [tab[t] EXCEPT !.pc = "rload", !.acct = NoAccount,
                                 !.todo = @ \ {tab[t].acct}]
  <2>1. s \in TabRec /\ s.pc = "rload" /\ s.inited = tab[t].inited
    BY <1>0 DEF TabRec, Recovery
  <2>2. ~tab[t].inited
    BY <1>0, <1>11 DEF RecoverOk, BeforeInit
  <2> QED BY <1>0, <1>11, <2>1, <2>2, TabMoves DEF RecoverOk, WithAccount, Streaming
<1>12. CASE RecoverEnds(t)
  <2> DEFINE s == [Idle EXCEPT !.result = "recovered"]
  <2>1. Idle \in TabRec /\ Idle.pc = "idle" /\ ~Idle.inited
    BY DEF Idle, TabRec
  <2>2. s \in TabRec /\ s.pc = "idle" /\ ~s.inited
    BY <2>1 DEF TabRec
  <2> QED
    BY <1>0, <1>12, <2>2, TabMoves DEF RecoverEnds, BeforeInit, WithAccount, Streaming
<1> QED
  BY <1>1, <1>2, <1>3, <1>4, <1>5, <1>6, <1>7, <1>8, <1>9, <1>10, <1>11, <1>12 DEF Answer

LEMMA BrokerKeeps == ASSUME SbInv, NEW t \in Tab, Broker(t) PROVE SbInv'
<1>0. /\ tab[t] \in TabRec /\ storage \subseteq Account /\ closes \in 0..MaxCloses
      /\ tab[t].pc \in WithAccount => tab[t].acct \in Account
  BY DEF SbInv, TypeOK, KnowsAccount
<1>1. CASE Connected(t)
  <2> DEFINE s == [tab[t] EXCEPT !.pc = "quote"]
  <2>1. s \in TabRec /\ s.pc = "quote" /\ s.acct = tab[t].acct
    BY <1>0 DEF TabRec, Running, Streaming
  <2> QED
    BY <1>0, <1>1, <2>1, TabMoves DEF Connected, Goto, BeforeInit, WithAccount, Streaming
<1>2. CASE QuoteArrives(t)
  <2> DEFINE s == [tab[t] EXCEPT !.pc = "trade"]
  <2>1. s \in TabRec /\ s.pc = "trade" /\ s.acct = tab[t].acct
    BY <1>0 DEF TabRec, Running, Streaming
  <2> QED
    BY <1>0, <1>2, <2>1, TabMoves DEF QuoteArrives, Goto, BeforeInit, WithAccount, Streaming
<1>3. CASE StreamedTx(t)
  <2> DEFINE a == tab[t].acct
             r == [acct[a] EXCEPT !.flying = @ + 1]
  <2>1. a \in Account /\ acct[a] \in AcctRec /\ acct[a].flying < acct[a].left
    BY <1>0, <1>3 DEF StreamedTx, WithAccount, Streaming, SbInv, TypeOK
  <2>2. acct[a].flying + 1 \in 0..Lots /\ acct[a].flying + 1 <= acct[a].left
    BY <2>1, SbAssumption DEF AcctRec
  <2>3. /\ r \in AcctRec /\ r.flying <= r.left /\ r.state = acct[a].state
        /\ r.left = acct[a].left
    BY <2>1, <2>2 DEF AcctRec
  <2>4. r.state \in Unopened => r.left = 0
    BY <2>1, <2>3 DEF SbInv, NotOversold
  <2> QED BY <1>3, <2>1, <2>3, <2>4, LedgerMoves DEF StreamedTx
<1>4. CASE Finished(t) \/ GuardBlocks(t)
  BY <1>4, StreamEndKeeps DEF Finished, GuardBlocks, Streaming
<1> QED BY <1>1, <1>2, <1>3, <1>4 DEF Broker

LEMMA LedgerKeeps ==
  ASSUME SbInv, NEW a \in Account,
         FundApplies(a) \/ FundDrops(a) \/ TradeApplies(a) \/ TradeDrops(a)
  PROVE  SbInv'
<1> USE SbAssumption
<1>0. /\ acct[a] \in AcctRec /\ acct[a].flying <= acct[a].left
      /\ acct[a].state \in Unopened => acct[a].left = 0
  BY DEF SbInv, TypeOK, NotOversold
<1>1. CASE FundApplies(a)
  <2> DEFINE r == [acct[a] EXCEPT !.state = "open", !.left = Lots]
  <2>1. Lots \in 0..Lots /\ acct[a].flying \in 0..Lots /\ acct[a].left \in 0..Lots
    BY <1>0 DEF AcctRec
  <2>2. r \in AcctRec /\ r.state = "open" /\ r.left = Lots /\ r.flying = acct[a].flying
    BY <1>0, <2>1 DEF AcctRec
  <2>3. r.flying <= r.left
    BY <2>1, <2>2
  <2>4. /\ acct' = [acct EXCEPT ![a] = r] /\ UNCHANGED <<tab, storage, closes>>
        /\ merges' \subseteq merges /\ acct[a].state \notin {"keyed", "merged"}
    BY <1>1 DEF FundApplies
  <2>5. r.state \notin Unopened
    BY <2>2 DEF Unopened
  <2> HIDE DEF r
  <2> QED BY <2>2, <2>3, <2>4, <2>5, LedgerMoves
<1>2. CASE FundDrops(a)
  <2> DEFINE r == [acct[a] EXCEPT !.state = "dropped"]
  <2>1. /\ r \in AcctRec /\ r.state = "dropped" /\ r.flying = acct[a].flying
        /\ r.left = acct[a].left
    BY <1>0 DEF AcctRec
  <2> QED BY <1>0, <1>2, <2>1, LedgerMoves DEF FundDrops, Unopened
<1>3. CASE TradeApplies(a)
  <2> DEFINE r == [acct[a] EXCEPT !.left = @ - 1, !.flying = @ - 1]
  <2>1. /\ acct[a].left \in Nat /\ acct[a].flying \in Nat
        /\ acct[a].left - 1 \in 0..Lots /\ acct[a].flying - 1 \in 0..Lots
    BY <1>0, <1>3 DEF TradeApplies, AcctRec
  <2>2. /\ r \in AcctRec /\ r.state = acct[a].state
        /\ r.left = acct[a].left - 1 /\ r.flying = acct[a].flying - 1
    BY <1>0, <2>1 DEF AcctRec
  <2>3. r.state = "open" /\ r.flying <= r.left
    BY <1>0, <1>3, <2>1, <2>2 DEF TradeApplies
  <2> QED BY <1>3, <2>2, <2>3, LedgerMoves DEF TradeApplies, Unopened
<1>4. CASE TradeDrops(a)
  <2> DEFINE r == [acct[a] EXCEPT !.flying = @ - 1]
  <2>1. acct[a].flying - 1 \in 0..Lots
    BY <1>0, <1>4 DEF TradeDrops, AcctRec
  <2>2. /\ r \in AcctRec /\ r.state = acct[a].state /\ r.left = acct[a].left
        /\ r.flying <= r.left
    BY <1>0, <2>1 DEF AcctRec
  <2> QED BY <1>0, <1>4, <2>2, LedgerMoves DEF TradeDrops
<1> QED BY <1>1, <1>2, <1>3, <1>4

LEMMA MergeKeeps ==
  ASSUME SbInv, NEW m \in merges, MergeApplies(m) \/ MergeDrops(m) PROVE SbInv'
<1> DEFINE a == m.acct
<1>0. a \in Account /\ acct[a] \in AcctRec /\ acct[a].flying <= acct[a].left
  BY DEF SbInv, TypeOK, NotOversold
<1>1. CASE MergeApplies(m)
  <2> DEFINE r == [acct[a] EXCEPT !.state = "merged"]
  <2>1. r \in AcctRec /\ r.state = "merged" /\ r.flying <= r.left
    BY <1>0 DEF AcctRec
  <2> QED BY <1>0, <1>1, <2>1, LedgerMoves DEF MergeApplies, Unopened
<1>2. CASE MergeDrops(m)
  <2>1. TypeOK'
    BY <1>2 DEF MergeDrops, SbInv, TypeOK
  <2> QED
    BY <1>2, <2>1
    DEF MergeDrops, SbInv, KnowsAccount, InitedInSession, KeyIsOwn, NotOversold,
        ReturnedOnceConfirmed
<1> QED BY <1>1, <1>2

-----------------------------------------------------------------------------
LEMMA SbStep == SbInv /\ [Next]_vars => SbInv'
<1> SUFFICES ASSUME SbInv, [Next]_vars PROVE SbInv'
  OBVIOUS
<1>1. CASE \E t \in Tab : Answer(t) \/ Broker(t) \/ User(t)
  BY <1>1, AnswerKeeps, BrokerKeeps, UserKeeps
<1>2. CASE \E a \in Account :
             FundApplies(a) \/ FundDrops(a) \/ TradeApplies(a) \/ TradeDrops(a)
  BY <1>2, LedgerKeeps
<1>3. CASE \E m \in merges : MergeApplies(m) \/ MergeDrops(m)
  BY <1>3, MergeKeeps
<1>4. CASE UNCHANGED vars
  BY <1>4 DEF vars, SbInv, TypeOK, KnowsAccount, InitedInSession, KeyIsOwn, NotOversold,
              ReturnedOnceConfirmed
<1> QED BY <1>1, <1>2, <1>3, <1>4 DEF Next

LEMMA SbInvariant == Spec => []SbInv
<1> QED BY SbInit, SbStep, PTL DEF Spec

\* The types hold for any number of tabs; in particular the attempts never
\* exceed Attempts and no more is sold than the account was funded with.
THEOREM TypeCorrect == Spec => []TypeOK
<1>1. SbInv => TypeOK
  BY DEF SbInv
<1> QED BY <1>1, SbInvariant, PTL

-----------------------------------------------------------------------------
(* Sessions and their accounts.                                            *)

Owner(s) == s.acct \in Account /\ s.pc \notin Recovery

\* An account belongs to one session, and is sold from only once its funding is
\* confirmed to that session.
OwnInv ==
  /\ \A t \in Tab : tab[t].pc \in Streaming \cup {"load", "merge"} => tab[t].inited
  /\ \A t, u \in Tab : Owner(tab[t]) /\ Owner(tab[u]) /\ tab[t].acct = tab[u].acct => t = u
  /\ \A t \in Tab : Owner(tab[t]) => acct[tab[t].acct].state # "none"
  /\ \A t \in Tab : Owner(tab[t]) /\ ~tab[t].inited => Whole(tab[t].acct)
  /\ \A t \in Tab : tab[t].pc = "idle" /\ Owner(tab[t]) /\ ~tab[t].inited => tab[t].result = "error"

\* A tab goes on with its account, or lets go of it.
GoesOn(from, s) ==
  /\ s.pc \in Streaming \cup {"load", "merge"} => s.inited
  /\ Owner(s) =>
       /\ from.acct = s.acct /\ from.pc \notin Recovery
       /\ from.inited => s.inited
       /\ s.pc = "idle" /\ ~s.inited => s.result = "error"

LEMMA TabGoesOn ==
  ASSUME OwnInv, tab \in [Tab -> TabRec], NEW t \in Tab, NEW s, Becomes(t, s),
         GoesOn(tab[t], s), acct' = acct
  PROVE  OwnInv'
<1>1. tab'[t] = s /\ \A u \in Tab \ {t} : tab'[u] = tab[u]
  BY DEF Becomes
<1>2. \A u \in Tab : Owner(tab'[u]) =>
        /\ Owner(tab[u]) /\ tab'[u].acct = tab[u].acct
        /\ tab[u].inited => tab'[u].inited
  BY <1>1 DEF Owner, GoesOn, Owner
<1>3. \A a \in Account : Whole(a)' = Whole(a)
  BY DEF Whole
<1>4. \A u \in Tab : tab'[u].pc \in Streaming \cup {"load", "merge"} => tab'[u].inited
  BY <1>1 DEF OwnInv, GoesOn, Owner
<1>5. \A u, v \in Tab : Owner(tab'[u]) /\ Owner(tab'[v]) /\ tab'[u].acct = tab'[v].acct => u = v
  BY <1>2 DEF OwnInv
<1>6. \A u \in Tab : Owner(tab'[u]) => acct'[tab'[u].acct].state # "none"
  BY <1>2 DEF OwnInv
<1>7. \A u \in Tab : Owner(tab'[u]) /\ ~tab'[u].inited => Whole(tab[u].acct)'
  <2> SUFFICES ASSUME NEW u \in Tab, Owner(tab'[u]), ~tab'[u].inited PROVE Whole(tab[u].acct)'
    OBVIOUS
  <2>1. Owner(tab[u]) /\ tab'[u].acct = tab[u].acct /\ ~tab[u].inited
    BY <1>2
  <2> QED
    BY <2>1 DEF OwnInv, Whole
<1>8. \A u \in Tab : tab'[u].pc = "idle" /\ Owner(tab'[u]) /\ ~tab'[u].inited
                      => tab'[u].result = "error"
  BY <1>1 DEF OwnInv, GoesOn, Owner
<1> QED BY <1>4, <1>5, <1>6, <1>7, <1>8 DEF OwnInv

\* The ledger and the broker: no account is undone, and an account whose session is
\* not confirmed stays whole.
LEMMA AccountsGoOn ==
  ASSUME OwnInv, tab' = tab,
         \A a \in Account : acct'[a].state = "none" => acct[a].state = "none",
         \A t \in Tab : Owner(tab[t]) /\ ~tab[t].inited => Whole(tab[t].acct)'
  PROVE  OwnInv'
<1>1. \A t \in Tab : Owner(tab'[t]) = Owner(tab[t])
  BY DEF Owner
<1> QED BY <1>1 DEF OwnInv, Owner

\* The end of the stream, and what becomes of the disposals.
LEMMA OwnStreamEnds ==
  ASSUME SbInv, OwnInv, NEW t \in Tab, tab[t].pc \in Streaming, NEW result,
         StreamEnds(t, result)
  PROVE  OwnInv'
<1>0. tab \in [Tab -> TabRec] /\ tab[t] \in TabRec /\ tab[t].inited
  BY DEF SbInv, TypeOK, OwnInv
<1> DEFINE s == [tab[t] EXCEPT !.pc = "load", !.attempt = 1, !.result = result]
<1>1. s.pc = "load" /\ s.acct = tab[t].acct /\ s.inited
  BY <1>0 DEF TabRec
<1>2. GoesOn(tab[t], s)
  BY <1>1 DEF GoesOn, Owner, Streaming, Recovery
<1> QED BY <1>0, <1>2, TabGoesOn DEF StreamEnds, Ledger

LEMMA OwnDisposes ==
  ASSUME SbInv, OwnInv, NEW t \in Tab,
         DisposeSubmits(t) \/ DisposeMissing(t) \/ DisposeFails(t) \/ DisposeOk(t)
  PROVE  OwnInv'
<1>0. /\ tab \in [Tab -> TabRec] /\ tab[t] \in TabRec /\ tab[t].inited
      /\ tab[t].pc \in {"load", "merge"} /\ acct' = acct
  BY DEF SbInv, TypeOK, OwnInv, DisposeSubmits, DisposeMissing, DisposeFails, DisposeOk,
         Submits, Ledger
<1>1. ASSUME NEW s, Becomes(t, s), s.acct = tab[t].acct, s.inited, s.pc \notin Recovery
      PROVE  OwnInv'
  <2>1. GoesOn(tab[t], s)
    BY <1>0, <1>1 DEF GoesOn, Owner, Recovery
  <2> QED BY <1>0, <1>1, <2>1, TabGoesOn
<1>2. CASE DisposeSubmits(t) \/ DisposeOk(t)
  <2>1. PICK pc \in {"merge", "idle"} : Goto(t, pc)
    BY <1>2 DEF DisposeSubmits, DisposeOk
  <2> DEFINE s == [tab[t] EXCEPT !.pc = pc]
  <2>2. s.acct = tab[t].acct /\ s.inited /\ s.pc = pc
    BY <1>0 DEF TabRec
  <2> QED BY <1>1, <2>1, <2>2 DEF Goto, Recovery
<1>3. CASE DisposeMissing(t) \/ DisposeFails(t)
  <2>0. AttemptFails(t)
    BY <1>3 DEF DisposeMissing, DisposeFails
  <2>1. CASE tab[t].attempt < Attempts
    <3> DEFINE s == [tab[t] EXCEPT !.pc = "load", !.attempt = @ + 1]
    <3>1. s.acct = tab[t].acct /\ s.inited /\ s.pc = "load"
      BY <1>0 DEF TabRec
    <3> QED BY <1>1, <2>0, <2>1, <3>1 DEF AttemptFails, Recovery
  <2>2. CASE ~(tab[t].attempt < Attempts)
    <3> DEFINE s == [tab[t] EXCEPT !.pc = "idle", !.needsRecovery = TRUE]
    <3>1. s.acct = tab[t].acct /\ s.inited /\ s.pc = "idle"
      BY <1>0 DEF TabRec
    <3> QED BY <1>1, <2>0, <2>2, <3>1 DEF AttemptFails, Recovery
  <2> QED BY <2>1, <2>2
<1> QED BY <1>2, <1>3

\* A session gets a fresh key, and has its account funded.
LEMMA OwnInitStores == ASSUME SbInv, OwnInv, NEW t \in Tab, InitStores(t) PROVE OwnInv'
<1>0. /\ tab \in [Tab -> TabRec] /\ tab[t] \in TabRec /\ acct \in [Account -> AcctRec]
      /\ tab[t].pc = "init" /\ NotOversold
  BY DEF SbInv, TypeOK, InitStores
<1>1. PICK a \in Account :
        /\ acct[a].state = "none"
        /\ acct' = [acct EXCEPT ![a].state = "keyed"]
        /\ tab' = [tab EXCEPT ![t] = [tab[t] EXCEPT !.pc = "sign", !.acct = a]]
  BY DEF InitStores, Becomes
<1>2. /\ tab'[t].pc = "sign" /\ tab'[t].acct = a
      /\ \A u \in Tab \ {t} : tab'[u] = tab[u]
  BY <1>0, <1>1 DEF TabRec
<1>3. /\ acct'[a].state = "keyed" /\ acct'[a].flying = 0
      /\ \A b \in Account \ {a} : acct'[b] = acct[b]
  <2>1. acct[a].flying \in Nat /\ acct[a].left = 0 /\ acct[a].flying <= acct[a].left
    BY <1>0, <1>1, SbAssumption DEF NotOversold, Unopened, AcctRec
  <2> QED BY <1>0, <1>1, <2>1 DEF AcctRec
<1>4. \A u \in Tab \ {t} : Owner(tab'[u]) => Owner(tab[u]) /\ tab[u].acct \in Account \ {a}
  BY <1>1, <1>2 DEF OwnInv, Owner
<1>5. \A u, v \in Tab : Owner(tab'[u]) /\ Owner(tab'[v]) /\ tab'[u].acct = tab'[v].acct => u = v
  BY <1>2, <1>4 DEF OwnInv
<1>6. \A u \in Tab : Owner(tab'[u]) => acct'[tab'[u].acct].state # "none"
  BY <1>2, <1>3, <1>4 DEF OwnInv
<1>7. \A u \in Tab : Owner(tab'[u]) /\ ~tab'[u].inited => Whole(tab[u].acct)'
  BY <1>2, <1>3, <1>4 DEF OwnInv, Whole
<1>8. \A u \in Tab : tab'[u].pc \in Streaming \cup {"load", "merge"} => tab'[u].inited
  BY <1>2 DEF OwnInv, Streaming
<1>9. \A u \in Tab : tab'[u].pc = "idle" /\ Owner(tab'[u]) /\ ~tab'[u].inited
                      => tab'[u].result = "error"
  BY <1>2, <1>4 DEF OwnInv
<1> QED BY <1>5, <1>6, <1>7, <1>8, <1>9 DEF OwnInv

LEMMA OwnFundingSent == ASSUME SbInv, OwnInv, NEW t \in Tab, FundingSent(t) PROVE OwnInv'
<1>0. /\ tab \in [Tab -> TabRec] /\ tab[t] \in TabRec /\ acct \in [Account -> AcctRec]
      /\ tab[t].pc = "sign"
  BY DEF SbInv, TypeOK, FundingSent
<1>1. PICK a \in Account : a = tab[t].acct
  BY <1>0 DEF SbInv, KnowsAccount, WithAccount
<1>2. /\ acct' = [acct EXCEPT ![a].state = "funding"]
      /\ tab' = [tab EXCEPT ![t] = [tab[t] EXCEPT !.pc = "fund"]]
  BY <1>1 DEF FundingSent, Goto, Becomes
<1>3. /\ tab'[t].pc = "fund" /\ tab'[t].acct = a /\ tab'[t].inited = tab[t].inited
      /\ \A u \in Tab \ {t} : tab'[u] = tab[u]
  BY <1>0, <1>1, <1>2 DEF TabRec
<1>4. /\ acct'[a].state = "funding" /\ acct'[a].flying = acct[a].flying
      /\ \A b \in Account \ {a} : acct'[b] = acct[b]
  BY <1>0, <1>2 DEF AcctRec
<1>5. \A u \in Tab : Owner(tab'[u]) =>
        /\ Owner(tab[u]) /\ tab'[u].acct = tab[u].acct
        /\ tab'[u].inited = tab[u].inited
  BY <1>0, <1>1, <1>3 DEF Owner, Recovery
<1>6. \A u, v \in Tab : Owner(tab'[u]) /\ Owner(tab'[v]) /\ tab'[u].acct = tab'[v].acct => u = v
  BY <1>5 DEF OwnInv
<1>7. \A u \in Tab : Owner(tab'[u]) => acct'[tab'[u].acct].state # "none"
  BY <1>4, <1>5 DEF OwnInv, Owner
<1>8. \A u \in Tab : Owner(tab'[u]) /\ ~tab'[u].inited => Whole(tab[u].acct)'
  BY <1>4, <1>5 DEF OwnInv, Owner, Whole
<1>9. \A u \in Tab : tab'[u].pc \in Streaming \cup {"load", "merge"} => tab'[u].inited
  BY <1>3 DEF OwnInv, Streaming
<1>10. \A u \in Tab : tab'[u].pc = "idle" /\ Owner(tab'[u]) /\ ~tab'[u].inited
                       => tab'[u].result = "error"
  BY <1>3, <1>5 DEF OwnInv
<1> QED BY <1>6, <1>7, <1>8, <1>9, <1>10 DEF OwnInv

LEMMA OwnInit == Init => OwnInv
<1> SUFFICES ASSUME Init PROVE OwnInv
  OBVIOUS
<1>1. \A t \in Tab : tab[t] = Idle
  BY DEF Init
<1>2. Idle.pc = "idle" /\ Idle.acct \notin Account
  BY SbAssumption DEF Idle
<1> QED BY <1>1, <1>2 DEF OwnInv, Owner, Streaming

LEMMA OwnUser == ASSUME SbInv, OwnInv, NEW t \in Tab, User(t) PROVE OwnInv'
<1>0. tab \in [Tab -> TabRec] /\ tab[t] \in TabRec
  BY DEF SbInv, TypeOK
<1>1. Idle \in TabRec /\ Idle.pc = "idle" /\ Idle.acct \notin Account
  BY SbAssumption DEF Idle, TabRec
<1>2. CASE StartSwap(t)
  <2> DEFINE s == [Idle EXCEPT !.pc = "init", !.notice = tab[t].notice]
  <2>1. s.pc = "init" /\ s.acct \notin Account
    BY <1>1 DEF TabRec
  <2> QED BY <1>0, <1>2, <2>1, TabGoesOn DEF StartSwap, Ledger, GoesOn, Owner, Streaming
<1>3. CASE ClickClose(t)
  <2> DEFINE s == [Idle EXCEPT !.notice = tab[t].notice]
  <2>1. s.pc = "idle" /\ s.acct \notin Account
    BY <1>1 DEF TabRec
  <2> QED BY <1>0, <1>3, <2>1, TabGoesOn DEF ClickClose, Ledger, GoesOn, Owner, Streaming
<1>4. CASE Reconnect(t)
  <2> DEFINE s == [tab[t] EXCEPT !.notice = TRUE]
  <2>1. /\ s.pc = "idle" /\ s.acct = tab[t].acct /\ s.inited = tab[t].inited
        /\ s.result = tab[t].result /\ tab[t].pc = "idle"
    BY <1>0, <1>4 DEF Reconnect, PageReachable, TabRec
  <2>2. GoesOn(tab[t], s)
    BY <2>1 DEF GoesOn, OwnInv, Owner, Streaming, Recovery
  <2> QED BY <1>0, <1>4, <2>2, TabGoesOn DEF Reconnect, Ledger
<1>5. CASE StartRecover(t)
  <2> DEFINE s == [Idle EXCEPT !.pc = "rload", !.todo = storage, !.notice = tab[t].notice]
  <2>1. s.pc = "rload"
    BY <1>1 DEF TabRec
  <2> QED BY <1>0, <1>5, <2>1, TabGoesOn DEF StartRecover, Ledger, GoesOn, Owner, Streaming, Recovery
<1>6. CASE CloseTab(t)
  BY <1>0, <1>1, <1>6, TabGoesOn DEF CloseTab, Ledger, GoesOn, Owner, Streaming
<1> QED BY <1>2, <1>3, <1>4, <1>5, <1>6 DEF User

LEMMA OwnBroker == ASSUME SbInv, OwnInv, NEW t \in Tab, Broker(t) PROVE OwnInv'
<1>0. /\ tab \in [Tab -> TabRec] /\ tab[t] \in TabRec /\ acct \in [Account -> AcctRec]
      /\ tab[t].pc \in Streaming => tab[t].acct \in Account /\ tab[t].inited
  BY DEF SbInv, TypeOK, KnowsAccount, WithAccount, OwnInv
<1>1. CASE Connected(t) \/ QuoteArrives(t)
  <2>1. PICK pc \in Streaming : Goto(t, pc) /\ tab[t].pc \in Streaming /\ acct' = acct
    BY <1>1 DEF Connected, QuoteArrives, Ledger, Streaming
  <2> DEFINE s == [tab[t] EXCEPT !.pc = pc]
  <2>2. s.pc = pc /\ s.acct = tab[t].acct /\ s.inited = tab[t].inited
    BY <1>0 DEF TabRec
  <2>3. GoesOn(tab[t], s)
    BY <1>0, <2>1, <2>2 DEF GoesOn, Owner, Streaming, Recovery
  <2> QED BY <1>0, <2>1, <2>3, TabGoesOn DEF Goto
<1>2. CASE StreamedTx(t)
  <2> DEFINE a == tab[t].acct
  <2>1. /\ tab[t].pc = "trade" /\ a \in Account /\ tab[t].inited /\ Owner(tab[t]) /\ tab' = tab
        /\ acct' = [acct EXCEPT ![a] = [acct[a] EXCEPT !.flying = @ + 1]]
    BY <1>0, <1>2 DEF StreamedTx, Owner, Streaming, Recovery
  <2> HIDE DEF a
  <2>2. \A b \in Account : acct'[b].state = acct[b].state
    BY <1>0, <2>1 DEF AcctRec
  <2>3. \A u \in Tab : Owner(tab[u]) /\ ~tab[u].inited => tab[u].acct \in Account \ {a}
    BY <2>1 DEF OwnInv, Owner, a
  <2>4. \A b \in Account \ {a} : acct'[b] = acct[b]
    BY <1>0, <2>1
  <2>5. \A u \in Tab : Owner(tab[u]) /\ ~tab[u].inited => Whole(tab[u].acct)'
    BY <2>1, <2>3, <2>4 DEF OwnInv, Whole
  <2> QED BY <2>1, <2>2, <2>5, AccountsGoOn
<1>3. CASE Finished(t) \/ GuardBlocks(t)
  BY <1>3, OwnStreamEnds DEF Finished, GuardBlocks, Streaming
<1> QED BY <1>1, <1>2, <1>3 DEF Broker

LEMMA OwnAnswer == ASSUME SbInv, OwnInv, NEW t \in Tab, Answer(t) PROVE OwnInv'
<1>0. /\ tab \in [Tab -> TabRec] /\ tab[t] \in TabRec /\ acct \in [Account -> AcctRec]
      /\ tab[t].pc \in Streaming \cup {"load", "merge"} => tab[t].inited
  BY DEF SbInv, TypeOK, OwnInv
<1>1. Idle \in TabRec /\ Idle.pc = "idle" /\ Idle.acct \notin Account
  BY SbAssumption DEF Idle, TabRec
<1>2. CASE InitRefused(t) \/ SignRejected(t) \/ FundAnswerFails(t)
  <2> DEFINE s == [tab[t] EXCEPT !.pc = "idle", !.result = "error"]
  <2>1. /\ s.pc = "idle" /\ s.acct = tab[t].acct /\ s.inited = tab[t].inited
        /\ s.result = "error" /\ tab[t].pc \in {"init", "sign", "fund"}
    BY <1>0, <1>2 DEF TabRec, InitRefused, SignRejected, FundAnswerFails
  <2>2. GoesOn(tab[t], s)
    BY <2>1 DEF GoesOn, Owner, Streaming, Recovery
  <2> QED
    BY <1>0, <1>2, <2>2, TabGoesOn
    DEF InitRefused, SignRejected, FundAnswerFails, Ends, Ledger
<1>3. CASE InitStores(t)
  BY <1>3, OwnInitStores
<1>4. CASE FundingSent(t)
  BY <1>4, OwnFundingSent
<1>5. CASE FundAnswerOk(t)
  <2> DEFINE s == [tab[t] EXCEPT !.pc = "connect", !.inited = TRUE]
  <2>1. s.pc = "connect" /\ s.acct = tab[t].acct /\ s.inited /\ tab[t].pc = "fund"
    BY <1>0, <1>5 DEF TabRec, FundAnswerOk
  <2>2. GoesOn(tab[t], s)
    BY <2>1 DEF GoesOn, Owner, Streaming, Recovery
  <2> QED BY <1>0, <1>5, <2>2, TabGoesOn DEF FundAnswerOk, Ledger
<1>6. CASE StreamFails(t)
  BY <1>6, OwnStreamEnds DEF StreamFails
<1>7. CASE DisposeSubmits(t) \/ DisposeMissing(t) \/ DisposeFails(t) \/ DisposeOk(t)
  BY <1>7, OwnDisposes
<1>8. CASE RecoverSubmits(t)
  <2>1. PICK a \in tab[t].todo :
          Becomes(t, [tab[t] EXCEPT !.pc = "rmerge", !.acct = a]) /\ acct' = acct
    BY <1>8 DEF RecoverSubmits, Submits
  <2> DEFINE s == [tab[t] EXCEPT !.pc = "rmerge", !.acct = a]
  <2>2. s.pc = "rmerge"
    BY <1>0 DEF TabRec
  <2>3. GoesOn(tab[t], s)
    BY <2>2 DEF GoesOn, Owner, Streaming, Recovery
  <2> QED BY <1>0, <2>1, <2>3, TabGoesOn
<1>9. CASE RecoverMissing(t) \/ RecoverFails(t)
  <2> DEFINE s == [Idle EXCEPT !.result = "error", !.notice = tab[t].notice]
  <2>1. s.pc = "idle" /\ s.acct \notin Account
    BY <1>1 DEF TabRec
  <2> QED
    BY <1>0, <1>9, <2>1, TabGoesOn DEF RecoverMissing, RecoverFails, Ledger, GoesOn, Owner, Streaming
<1>10. CASE RecoverOk(t)
  <2> DEFINE s == [tab[t] EXCEPT !.pc = "rload", !.acct = NoAccount,
                                 !.todo = @ \ {tab[t].acct}]
  <2>1. s.pc = "rload"
    BY <1>0 DEF TabRec
  <2> QED BY <1>0, <1>10, <2>1, TabGoesOn DEF RecoverOk, Ledger, GoesOn, Owner, Streaming, Recovery
<1>11. CASE RecoverEnds(t)
  <2> DEFINE s == [Idle EXCEPT !.result = "recovered"]
  <2>1. s.pc = "idle" /\ s.acct \notin Account
    BY <1>1 DEF TabRec
  <2> QED BY <1>0, <1>11, <2>1, TabGoesOn DEF RecoverEnds, Ledger, GoesOn, Owner, Streaming
<1> QED
  BY <1>2, <1>3, <1>4, <1>5, <1>6, <1>7, <1>8, <1>9, <1>10, <1>11 DEF Answer

LEMMA OwnLedger ==
  ASSUME SbInv, OwnInv, NEW a \in Account,
         \/ FundApplies(a) \/ FundDrops(a) \/ TradeApplies(a) \/ TradeDrops(a)
         \/ \E m \in merges : m.acct = a /\ MergeApplies(m)
  PROVE  OwnInv'
<1>0. acct \in [Account -> AcctRec] /\ acct[a] \in AcctRec
  BY DEF SbInv, TypeOK
<1>1. tab' = tab /\ \A b \in Account \ {a} : acct'[b] = acct[b]
  BY <1>0 DEF FundApplies, FundDrops, TradeApplies, TradeDrops, MergeApplies
<1>2. \A b \in Account : acct'[b].state = "none" => acct[b].state = "none"
  <2>1. acct'[a].state = "none" => acct[a].state = "none"
    <3>1. CASE FundApplies(a) \/ FundDrops(a)
      BY <1>0, <3>1 DEF FundApplies, FundDrops, AcctRec
    <3>2. CASE TradeApplies(a) \/ TradeDrops(a)
      BY <1>0, <3>2 DEF TradeApplies, TradeDrops, AcctRec
    <3>3. CASE \E m \in merges : m.acct = a /\ MergeApplies(m)
      BY <1>0, <3>3 DEF MergeApplies, AcctRec
    <3> QED BY <3>1, <3>2, <3>3
  <2> QED BY <1>1, <2>1
<1>3. Whole(a) => Whole(a)'
  <2>1. CASE FundApplies(a)
    BY <1>0, <2>1 DEF FundApplies, Whole, AcctRec
  <2>2. CASE FundDrops(a)
    BY <1>0, <2>2 DEF FundDrops, Whole, AcctRec
  <2>3. CASE TradeApplies(a) \/ TradeDrops(a)
    BY <1>0, <2>3 DEF TradeApplies, TradeDrops, Whole, AcctRec
  <2>4. CASE \E m \in merges : m.acct = a /\ MergeApplies(m)
    BY <1>0, <2>4 DEF MergeApplies, Whole, AcctRec
  <2> QED BY <2>1, <2>2, <2>3, <2>4
<1>4. \A b \in Account : Whole(b) => Whole(b)'
  BY <1>1, <1>3 DEF Whole
<1>5. \A t \in Tab : Owner(tab[t]) /\ ~tab[t].inited => Whole(tab[t].acct)'
  <2> SUFFICES ASSUME NEW t \in Tab, Owner(tab[t]), ~tab[t].inited PROVE Whole(tab[t].acct)'
    OBVIOUS
  <2>1. PICK b \in Account : b = tab[t].acct
    BY DEF Owner
  <2>2. Whole(b)'
    BY <1>4, <2>1 DEF OwnInv
  <2> QED BY <1>1, <2>1, <2>2 DEF Whole
<1> QED BY <1>1, <1>2, <1>5, AccountsGoOn

LEMMA OwnStep == SbInv /\ OwnInv /\ [Next]_vars => OwnInv'
<1> SUFFICES ASSUME SbInv, OwnInv, [Next]_vars PROVE OwnInv'
  OBVIOUS
<1>1. ASSUME NEW m \in merges, MergeApplies(m) \/ MergeDrops(m) PROVE OwnInv'
  <2>1. CASE MergeApplies(m)
    <3>1. m.acct \in Account
      BY DEF SbInv, TypeOK
    <3> QED BY <2>1, <3>1, OwnLedger
  <2>2. CASE MergeDrops(m)
    BY <2>2 DEF MergeDrops, OwnInv, Owner, Whole
  <2> QED BY <1>1, <2>1, <2>2
<1>2. CASE UNCHANGED vars
  BY <1>2 DEF vars, OwnInv, Owner, Whole
<1> QED BY <1>1, <1>2, OwnUser, OwnBroker, OwnAnswer, OwnLedger DEF Next

\* In any number of tabs that recover each other's sessions: a session that ends
\* without asking for a recovery has returned what it funded, or it ended in error
\* before its funding was confirmed to it and has sold nothing.
THEOREM SessionsReturn == Spec => []EndedMeansReturned
<1>1. SbInv /\ OwnInv => EndedMeansReturned
  BY DEF SbInv, ReturnedOnceConfirmed, OwnInv, Owner, Recovery, EndedMeansReturned
<1> QED BY <1>1, SbInvariant, OwnInit, OwnStep, PTL DEF Spec

-----------------------------------------------------------------------------
(* The refinement of Escrow: StageFor is taken apart in the lemmas below,  *)
(* and a step is then known by what it does to storage and to one account. *)

Unchanged(a) == acct'[a].state = acct[a].state /\ acct'[a].left = acct[a].left

Moved == Kept!Next \/ UNCHANGED [a \in Account |-> EscrowOf(a)]

\* Neither an entry nor a balance changes.
LEMMA EscrowRests ==
  ASSUME storage' = storage, \A a \in Account : Unchanged(a) PROVE Moved
<1>1. \A a \in Account : EscrowOf(a)' = EscrowOf(a)
  BY DEF Unchanged, EscrowOf
<1> QED BY <1>1 DEF Moved

\* The stages of every other account stay.
LEMMA EscrowMoves ==
  ASSUME NEW a \in Account, \A b \in Account \ {a} : EscrowOf(b)' = EscrowOf(b)
  PROVE  [b \in Account |-> EscrowOf(b)]'
           = [[b \in Account |-> EscrowOf(b)] EXCEPT ![a] = EscrowOf(a)']
<1> QED OBVIOUS

\* An entry goes, of an account that holds nothing.
LEMMA EntryGoes ==
  ASSUME SbInv, NEW a \in Account,
         acct[a].state \in {"keyed", "funding", "dropped", "merged"},
         storage' = storage \ {a}, acct' = acct
  PROVE  Moved
<1>1. \A b \in Account \ {a} : EscrowOf(b)' = EscrowOf(b)
  BY DEF EscrowOf
<1>2. CASE a \notin storage
  <2>1. EscrowOf(a)' = EscrowOf(a)
    BY <1>2 DEF EscrowOf
  <2> QED BY <1>1, <2>1 DEF Moved
<1>3. CASE a \in storage /\ acct[a].state = "merged"
  <2>1. /\ EscrowOf(a)' = [stage |-> "closed", left |-> acct[a].left]
        /\ EscrowOf(a).stage = "returned" /\ EscrowOf(a).left = acct[a].left
    BY <1>3 DEF EscrowOf, StageFor
  <2>2. Kept!Strike(a)
    BY <1>1, <2>1, EscrowMoves DEF Kept!Strike, Kept!Moves, Kept!Left
  <2> QED BY <2>2 DEF Moved, Kept!Next
<1>4. CASE a \in storage /\ acct[a].state # "merged"
  <2>1. acct[a].left = 0
    BY <1>4 DEF SbInv, NotOversold, Unopened
  <2>2. /\ EscrowOf(a)' = [stage |-> "unlisted", left |-> 0]
        /\ EscrowOf(a).stage = "listed"
    BY <1>4, <2>1 DEF EscrowOf, StageFor
  <2>3. Kept!Strike(a)
    BY <1>1, <2>2, EscrowMoves DEF Kept!Strike, Kept!Moves
  <2> QED BY <2>3 DEF Moved, Kept!Next
<1> QED BY <1>2, <1>3, <1>4

\* The ledger changes one account, the entries stay.
LEMMA LedgerEscrow ==
  ASSUME SbInv, NEW a \in Account,
         \/ FundApplies(a) \/ FundDrops(a) \/ TradeApplies(a) \/ TradeDrops(a)
         \/ \E m \in merges : m.acct = a /\ MergeApplies(m)
  PROVE  Moved
<1>0. /\ acct \in [Account -> AcctRec] /\ acct[a].left \in Nat /\ acct[a].flying \in Nat
      /\ acct[a].flying <= acct[a].left
  BY SbAssumption DEF SbInv, TypeOK, AcctRec, NotOversold
<1>1. storage' = storage
  BY DEF FundApplies, FundDrops, TradeApplies, TradeDrops, MergeApplies
<1>2. \A b \in Account \ {a} : acct'[b] = acct[b]
  BY <1>0 DEF FundApplies, FundDrops, TradeApplies, TradeDrops, MergeApplies
<1>3. \A b \in Account \ {a} : EscrowOf(b)' = EscrowOf(b)
  BY <1>1, <1>2 DEF EscrowOf
<1> DEFINE Here(listed, there) == IF a \in storage THEN listed ELSE there
<1>4. ASSUME acct'[a].state = "open", acct'[a].left = Lots, acct[a].state = "funding"
      PROVE  Moved
  <2>1. /\ EscrowOf(a)' = [stage |-> Here("held", "lost"), left |-> Lots]
        /\ EscrowOf(a).stage = Here("listed", "unlisted")
    BY <1>1, <1>4 DEF EscrowOf, StageFor
  <2>2. Kept!Deposit(a) \/ Kept!DepositLate(a)
    BY <1>3, <2>1, EscrowMoves DEF Kept!Deposit, Kept!DepositLate, Kept!Moves
  <2> QED BY <2>2 DEF Moved, Kept!Next
<1>5. CASE FundApplies(a)
  BY <1>0, <1>4, <1>5 DEF FundApplies, AcctRec
<1>6. CASE FundDrops(a)
  <2>1. acct[a].state = "funding"
    BY <1>6 DEF FundDrops
  <2>2. acct'[a].state = "dropped" /\ acct'[a].left = acct[a].left
    BY <1>0, <1>6 DEF FundDrops, AcctRec
  <2>3. EscrowOf(a)' = EscrowOf(a)
    BY <1>1, <2>1, <2>2 DEF EscrowOf, StageFor
  <2> QED BY <1>3, <2>3 DEF Moved
<1>7. CASE TradeApplies(a)
  <2>1. acct[a].state = "open" /\ acct[a].left > 0
    BY <1>0, <1>7 DEF TradeApplies
  <2>2. acct'[a].state = "open" /\ acct'[a].left = acct[a].left - 1
    BY <1>0, <1>7 DEF TradeApplies, AcctRec
  <2>3. /\ EscrowOf(a)' = [stage |-> Here("held", "lost"), left |-> acct[a].left - 1]
        /\ EscrowOf(a).stage = Here("held", "lost") /\ EscrowOf(a).left = acct[a].left
    BY <1>1, <2>1, <2>2 DEF EscrowOf, StageFor
  <2>4. Kept!Sell(a) \/ Kept!SellLost(a)
    BY <1>3, <2>1, <2>3, EscrowMoves
    DEF Kept!Sell, Kept!SellLost, Kept!Moves, Kept!Left
  <2> QED BY <2>4 DEF Moved, Kept!Next
<1>8. CASE TradeDrops(a)
  <2>1. acct'[a].state = acct[a].state /\ acct'[a].left = acct[a].left
    BY <1>0, <1>8 DEF TradeDrops, AcctRec
  <2>2. EscrowOf(a)' = EscrowOf(a)
    BY <1>1, <2>1 DEF EscrowOf
  <2> QED BY <1>3, <2>2 DEF Moved
<1>9. CASE \E m \in merges : m.acct = a /\ MergeApplies(m)
  <2>1. acct[a].state = "open"
    BY <1>9 DEF MergeApplies
  <2>2. acct'[a].state = "merged" /\ acct'[a].left = acct[a].left
    BY <1>0, <1>9 DEF MergeApplies, AcctRec
  <2>3. /\ EscrowOf(a)' = [stage |-> Here("returned", "closed"), left |-> acct[a].left]
        /\ EscrowOf(a).stage = Here("held", "lost") /\ EscrowOf(a).left = acct[a].left
    BY <1>1, <2>1, <2>2 DEF EscrowOf, StageFor
  <2>4. Kept!Return(a) \/ Kept!ReturnLost(a)
    BY <1>3, <2>3, EscrowMoves DEF Kept!Return, Kept!ReturnLost, Kept!Moves, Kept!Left
  <2> QED BY <2>4 DEF Moved, Kept!Next
<1> QED BY <1>5, <1>6, <1>7, <1>8, <1>9

\* A session or a recovery goes on.
LEMMA AnswerEscrow ==
  ASSUME SbInv, NEW t \in Tab, Answer(t) PROVE Moved
<1>0. acct \in [Account -> AcctRec] /\ tab[t] \in TabRec
  BY DEF SbInv, TypeOK
<1>1. CASE InitStores(t)
  <2>1. PICK a \in Account :
          /\ acct[a].state = "none"
          /\ acct' = [acct EXCEPT ![a].state = "keyed"]
          /\ storage' = storage \cup {a}
    BY <1>1 DEF InitStores
  <2>2. acct'[a].state = "keyed" /\ acct'[a].left = acct[a].left /\ acct[a].left = 0
    BY <1>0, <2>1 DEF AcctRec, SbInv, NotOversold, Unopened
  <2>3. \A b \in Account \ {a} : EscrowOf(b)' = EscrowOf(b)
    BY <1>0, <2>1 DEF EscrowOf
  <2>4. EscrowOf(a)' = [stage |-> "listed", left |-> 0] /\ EscrowOf(a).stage = "unused"
    BY <2>1, <2>2 DEF EscrowOf, StageFor
  <2>5. Kept!Register(a)
    BY <2>3, <2>4, EscrowMoves DEF Kept!Register, Kept!Moves
  <2> QED BY <2>5 DEF Moved, Kept!Next
<1>2. CASE FundingSent(t)
  <2>1. PICK a \in Account : /\ acct[a].state = "keyed" /\ storage' = storage
                             /\ acct' = [acct EXCEPT ![a].state = "funding"]
    BY <1>2 DEF FundingSent, SbInv, KnowsAccount, WithAccount, KeyIsOwn
  <2>2. acct'[a].state = "funding" /\ acct'[a].left = acct[a].left
    BY <1>0, <2>1 DEF AcctRec
  <2>3. EscrowOf(a)' = EscrowOf(a)
    BY <2>1, <2>2 DEF EscrowOf, StageFor
  <2>4. \A b \in Account \ {a} : EscrowOf(b)' = EscrowOf(b)
    BY <1>0, <2>1 DEF EscrowOf
  <2> QED BY <2>3, <2>4 DEF Moved
<1>3. CASE DisposeMissing(t) \/ DisposeOk(t) \/ RecoverMissing(t) \/ RecoverOk(t)
  <2>1. \A u \in Tab : tab[u].pc \in {"load", "merge", "rmerge"} => tab[u].acct \in Account
    BY DEF SbInv, KnowsAccount, WithAccount
  <2>2. tab[t].todo \subseteq Account
    BY <1>0 DEF TabRec
  <2>3. PICK a \in Account : /\ storage' = storage \ {a} /\ acct' = acct
                             /\ Missing(a) \/ acct[a].state = "merged"
    BY <1>3, <2>1, <2>2 DEF DisposeMissing, DisposeOk, RecoverMissing, RecoverOk, Ledger
  <2>4. acct[a].state \in {"keyed", "funding", "dropped", "merged"}
    BY <2>3 DEF Missing
  <2> QED BY <2>3, <2>4, EntryGoes
<1>4. CASE InitRefused(t) \/ SignRejected(t) \/ FundAnswerOk(t) \/ FundAnswerFails(t)
           \/ StreamFails(t) \/ DisposeSubmits(t) \/ DisposeFails(t)
           \/ RecoverSubmits(t) \/ RecoverFails(t) \/ RecoverEnds(t)
  <2>1. storage' = storage /\ acct' = acct
    BY <1>4
    DEF InitRefused, SignRejected, FundAnswerOk, FundAnswerFails, StreamFails, StreamEnds,
        DisposeSubmits, DisposeFails, RecoverSubmits, RecoverFails, RecoverEnds, Submits,
        Ledger
  <2> QED BY <2>1, EscrowRests DEF Unchanged
<1> QED BY <1>1, <1>2, <1>3, <1>4 DEF Answer

LEMMA EscrowStep ==
  ASSUME SbInv, [Next]_vars PROVE Moved
<1>1. ASSUME NEW t \in Tab, User(t) \/ Broker(t) PROVE Moved
  <2>1. storage' = storage
    BY <1>1
    DEF User, StartSwap, ClickClose, Reconnect, StartRecover, CloseTab, Broker, Connected,
        QuoteArrives, StreamedTx, Finished, GuardBlocks, StreamEnds
  <2>2. acct \in [Account -> AcctRec]
    BY DEF SbInv, TypeOK
  <2>3. CASE StreamedTx(t)
    <3>1. \A a \in Account : Unchanged(a)
      BY <2>2, <2>3 DEF StreamedTx, Unchanged, AcctRec
    <3> QED BY <2>1, <3>1, EscrowRests
  <2>4. CASE ~StreamedTx(t)
    <3>1. acct' = acct
      BY <1>1, <2>4
      DEF User, StartSwap, ClickClose, Reconnect, StartRecover, CloseTab, Broker, Connected,
          QuoteArrives, Finished, GuardBlocks, StreamEnds, Ledger
    <3> QED BY <2>1, <3>1, EscrowRests DEF Unchanged
  <2> QED BY <2>3, <2>4
<1>2. ASSUME NEW m \in merges, MergeApplies(m) \/ MergeDrops(m) PROVE Moved
  <2>1. CASE MergeApplies(m)
    <3>1. m.acct \in Account
      BY DEF SbInv, TypeOK
    <3> QED BY <2>1, <3>1, LedgerEscrow
  <2>2. CASE MergeDrops(m)
    BY <2>2, EscrowRests DEF MergeDrops, Unchanged
  <2> QED BY <1>2, <2>1, <2>2
<1>3. CASE UNCHANGED vars
  BY <1>3, EscrowRests DEF vars, Unchanged
<1> QED BY <1>1, <1>2, <1>3, AnswerEscrow, LedgerEscrow DEF Next

\* The sessions and recoveries of any number of tabs, closed and reopened, with
\* answers lost and fundings that land at any time, implement Escrow: each account is
\* listed before it is funded, funded once, and has its entry while it holds funds,
\* unless the entry went before the funding came.
THEOREM AccountsKept == Spec => KeepsEscrow
<1>1. Init => Kept!Init
  BY DEF Init, Kept!Init, EscrowOf, StageFor
<1>2. SbInv /\ [Next]_vars => [Kept!Next]_([a \in Account |-> EscrowOf(a)])
  BY EscrowStep DEF Moved
<1> QED BY <1>1, <1>2, SbInvariant, PTL DEF Spec, KeepsEscrow, Kept!Spec
=============================================================================
