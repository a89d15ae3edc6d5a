------------------------------ MODULE SbMediator ------------------------------
(***************************************************************************)
(* The StellarBroker execution: executeSbMediatorSwap and                  *)
(* disposeObsoleteMediators (web/sb-mediator-flow.js) over the Mediator    *)
(* class (web/public/sb-mediator.js), as run by the tabs of one browser    *)
(* for one wallet.  It is what SwapExecution calls SbProgress, SbEnd and   *)
(* RecoverEnd.                                                             *)
(*                                                                         *)
(* A session creates an ephemeral account, funds it, lets StellarBroker    *)
(* stream transactions to sign, and merges the account back.  The only     *)
(* trace of a session that ends early is its localStorage entry, which the *)
(* tabs share.  A transaction, once submitted, is applied or dropped by    *)
(* the ledger at any later time (the builder sets TimeoutInfinite),        *)
(* whatever the answer to the submission was.                              *)
(***************************************************************************)
EXTENDS Naturals, FiniteSets

CONSTANTS
  Tab, Account, NoAccount,
  Attempts,      \* attempts to dispose of an account
  Lots,          \* the amount to sell, in streamed transactions
  MaxCloses      \* bound on the tabs closed or reloaded

ASSUME SbAssumption ==
  /\ NoAccount \notin Account
  /\ Attempts \in Nat \ {0} /\ Lots \in Nat /\ MaxCloses \in Nat

VARIABLES
  tab,        \* the session or recovery each tab runs, and its modal
  storage,    \* addresses with an msb_ entry in localStorage
  acct,       \* the ledger: state, BLND left to sell, signed transactions in flight
  merges,     \* disposals in flight: the account and the balance they pay out
  closes

vars == <<tab, storage, acct, merges, closes>>

-----------------------------------------------------------------------------
Streaming == {"connect", "quote", "trade"}
Running   == {"init", "sign", "fund", "load", "merge"} \cup Streaming
Recovery  == {"rload", "rmerge"}

Idle == [pc |-> "idle", acct |-> NoAccount, inited |-> FALSE, result |-> "none",
         needsRecovery |-> FALSE, attempt |-> 0, todo |-> {}, notice |-> FALSE]

Init ==
  /\ tab = [t \in Tab |-> Idle]
  /\ storage = {} /\ merges = {} /\ closes = 0
  /\ acct = [a \in Account |-> [state |-> "none", left |-> 0, flying |-> 0]]

Becomes(t, s)   == tab' = [tab EXCEPT ![t] = s]
Goto(t, pc)     == Becomes(t, [tab[t] EXCEPT !.pc = pc])
Ends(t, result) == Becomes(t, [tab[t] EXCEPT !.pc = "idle", !.result = result])
Ledger          == <<acct, merges>>

-----------------------------------------------------------------------------
(* executeSbMediatorSwap.                                                  *)

\* From the page, or from the error modal of a composite (retryCompositeLeg2).
StartSwap(t) ==
  /\ tab[t].pc = "idle" /\ tab[t].result \in {"none", "error"} /\ ~tab[t].needsRecovery
  /\ Becomes(t, [Idle EXCEPT !.pc = "init", !.notice = tab[t].notice])
  /\ UNCHANGED <<storage, Ledger, closes>>

\* The source account cannot be loaded or lacks funds.
InitRefused(t) ==
  /\ tab[t].pc = "init" /\ Ends(t, "error")
  /\ UNCHANGED <<storage, Ledger, closes>>

\* A fresh key; its entry is written before anything is signed.
InitStores(t) ==
  /\ tab[t].pc = "init"
  /\ \E a \in Account :
       /\ acct[a].state = "none"
       /\ acct' = [acct EXCEPT ![a].state = "keyed"]
       /\ storage' = storage \cup {a}
       /\ Becomes(t, [tab[t] EXCEPT !.pc = "sign", !.acct = a])
  /\ UNCHANGED <<merges, closes>>

SignRejected(t) ==
  /\ tab[t].pc = "sign" /\ Ends(t, "error")
  /\ UNCHANGED <<storage, Ledger, closes>>

FundingSent(t) ==
  /\ tab[t].pc = "sign" /\ Goto(t, "fund")
  /\ acct' = [acct EXCEPT ![tab[t].acct].state = "funding"]
  /\ UNCHANGED <<storage, merges, closes>>

FundAnswerOk(t) ==
  /\ tab[t].pc = "fund" /\ acct[tab[t].acct].state = "open"
  /\ Becomes(t, [tab[t] EXCEPT !.pc = "connect", !.inited = TRUE])
  /\ UNCHANGED <<storage, Ledger, closes>>

\* Refused, or the answer is lost: the funding itself is not known to have failed.
FundAnswerFails(t) ==
  /\ tab[t].pc = "fund" /\ Ends(t, "error")
  /\ UNCHANGED <<storage, Ledger, closes>>

Connected(t) ==
  /\ tab[t].pc = "connect" /\ Goto(t, "quote")
  /\ UNCHANGED <<storage, Ledger, closes>>

\* The first quote is confirmed at once.
QuoteArrives(t) ==
  /\ tab[t].pc = "quote" /\ Goto(t, "trade")
  /\ UNCHANGED <<storage, Ledger, closes>>

\* A streamed transaction passes the guard and is signed and sent back.
StreamedTx(t) ==
  LET a == tab[t].acct
  IN /\ tab[t].pc = "trade" /\ acct[a].flying < acct[a].left
     /\ acct' = [acct EXCEPT ![a].flying = @ + 1]
     /\ UNCHANGED <<tab, storage, merges, closes>>

\* The stream is over and the session closed; disposal begins.
StreamEnds(t, result) ==
  /\ Becomes(t, [tab[t] EXCEPT !.pc = "load", !.attempt = 1, !.result = result])
  /\ UNCHANGED <<storage, Ledger, closes>>

Finished(t) == tab[t].pc \in {"quote", "trade"} /\ StreamEnds(t, "done")

GuardBlocks(t) == tab[t].pc \in {"quote", "trade"} /\ StreamEnds(t, "blocked")

\* Error message, lost connection, a quote that cannot be confirmed, or 60 s.
StreamFails(t) == tab[t].pc \in Streaming /\ StreamEnds(t, "error")

-----------------------------------------------------------------------------
(* dispose.                                                                *)

\* Horizon answers 404: no such account, or none yet, its funding being signed or
\* on its way.
Missing(a) == acct[a].state \in {"keyed", "funding", "dropped", "merged"}

\* The account is loaded and a transaction that pays out its balances and
\* merges it is submitted.
Submits(a) ==
  /\ acct[a].state = "open"
  /\ merges' = merges \cup {[acct |-> a, left |-> acct[a].left]}
  /\ UNCHANGED <<storage, acct, closes>>

DisposeSubmits(t) ==
  tab[t].pc = "load" /\ Submits(tab[t].acct) /\ Goto(t, "merge")

\* Mutant: every failure is tried again.
AttemptAlways(t) ==
  Becomes(t, [tab[t] EXCEPT !.pc = "load", !.attempt = Attempts])

\* Mutant: one attempt too many.
AttemptTooMany(t) ==
  IF tab[t].attempt <= Attempts
  THEN Becomes(t, [tab[t] EXCEPT !.pc = "load", !.attempt = @ + 1])
  ELSE Becomes(t, [tab[t] EXCEPT !.pc = "idle", !.needsRecovery = TRUE])

\* Mutant: the last failure is not reported.
AttemptForgotten(t) ==
  IF tab[t].attempt < Attempts
  THEN Becomes(t, [tab[t] EXCEPT !.pc = "load", !.attempt = @ + 1])
  ELSE Goto(t, "idle")

\* An attempt has thrown: try again, or give up and say so.
AttemptFails(t) ==
  IF tab[t].attempt < Attempts
  THEN Becomes(t, [tab[t] EXCEPT !.pc = "load", !.attempt = @ + 1])
  ELSE Becomes(t, [tab[t] EXCEPT !.pc = "idle", !.needsRecovery = TRUE])

\* No such account: its entry goes, and dispose throws all the same.
DisposeMissing(t) ==
  /\ tab[t].pc = "load" /\ Missing(tab[t].acct) /\ AttemptFails(t)
  /\ storage' = storage \ {tab[t].acct}
  /\ UNCHANGED <<Ledger, closes>>

\* The load fails, or the submission, whatever became of the transaction.
DisposeFails(t) ==
  /\ tab[t].pc \in {"load", "merge"} /\ AttemptFails(t)
  /\ UNCHANGED <<storage, Ledger, closes>>

DisposeOk(t) ==
  /\ tab[t].pc = "merge" /\ acct[tab[t].acct].state = "merged"
  /\ storage' = storage \ {tab[t].acct}
  /\ Goto(t, "idle")
  /\ UNCHANGED <<Ledger, closes>>

-----------------------------------------------------------------------------
(* The modal, the notice and disposeObsoleteMediators.                     *)

\* No modal covers the page.
PageReachable(t) == tab[t].pc = "idle" /\ tab[t].result = "none"

ClickClose(t) ==
  /\ tab[t].pc = "idle" /\ tab[t].result # "none"
  /\ Becomes(t, [Idle EXCEPT !.notice = tab[t].notice])
  /\ UNCHANGED <<storage, Ledger, closes>>

\* connectWallet looks for entries; nothing else does.
Reconnect(t) ==
  /\ PageReachable(t) /\ storage # {}
  /\ Becomes(t, [tab[t] EXCEPT !.notice = TRUE])
  /\ UNCHANGED <<storage, Ledger, closes>>

\* From the notice or the modal; the entries are listed once, those of other
\* tabs' sessions among them.
StartRecover(t) ==
  /\ tab[t].pc = "idle"
  /\ (PageReachable(t) /\ tab[t].notice) \/ tab[t].needsRecovery
  /\ Becomes(t, [Idle EXCEPT !.pc = "rload", !.todo = storage, !.notice = tab[t].notice])
  /\ UNCHANGED <<storage, Ledger, closes>>

RecoverSubmits(t) ==
  /\ tab[t].pc = "rload"
  /\ \E a \in tab[t].todo :
       /\ Submits(a)
       /\ Becomes(t, [tab[t] EXCEPT !.pc = "rmerge", !.acct = a])

\* Mutant: the first account that no longer exists clears the list.
RecoverClears(t) ==
  /\ tab[t].pc = "rload"
  /\ \E a \in tab[t].todo : Missing(a) /\ storage' = storage \ tab[t].todo
  /\ Becomes(t, [Idle EXCEPT !.result = "error", !.notice = tab[t].notice])
  /\ UNCHANGED <<Ledger, closes>>

\* The first account that no longer exists ends the recovery.
RecoverMissing(t) ==
  /\ tab[t].pc = "rload"
  /\ \E a \in tab[t].todo : Missing(a) /\ storage' = storage \ {a}
  /\ Becomes(t, [Idle EXCEPT !.result = "error", !.notice = tab[t].notice])
  /\ UNCHANGED <<Ledger, closes>>

\* A load or a submission fails, or the wallet refuses to sign.
RecoverFails(t) ==
  /\ \/ tab[t].pc = "rload" /\ tab[t].todo # {}
     \/ tab[t].pc = "rmerge"
  /\ Becomes(t, [Idle EXCEPT !.result = "error", !.notice = tab[t].notice])
  /\ UNCHANGED <<storage, Ledger, closes>>

RecoverOk(t) ==
  /\ tab[t].pc = "rmerge" /\ acct[tab[t].acct].state = "merged"
  /\ storage' = storage \ {tab[t].acct}
  /\ Becomes(t, [tab[t] EXCEPT !.pc = "rload", !.acct = NoAccount,
                               !.todo = @ \ {tab[t].acct}])
  /\ UNCHANGED <<Ledger, closes>>

RecoverEnds(t) ==
  /\ tab[t].pc = "rload" /\ tab[t].todo = {}
  /\ Becomes(t, [Idle EXCEPT !.result = "recovered"])
  /\ UNCHANGED <<storage, Ledger, closes>>

\* The tab is closed or reloaded: only localStorage and the ledger remain.
CloseTab(t) ==
  /\ closes < MaxCloses /\ closes' = closes + 1
  /\ tab[t] # Idle /\ Becomes(t, Idle)
  /\ UNCHANGED <<storage, Ledger>>

-----------------------------------------------------------------------------
(* The ledger.                                                             *)

FundApplies(a) ==
  /\ acct[a].state = "funding"
  /\ acct' = [acct EXCEPT ![a].state = "open", ![a].left = Lots]
  /\ UNCHANGED <<tab, storage, merges, closes>>

FundDrops(a) ==
  /\ acct[a].state = "funding"
  /\ acct' = [acct EXCEPT ![a].state = "dropped"]
  /\ UNCHANGED <<tab, storage, merges, closes>>

TradeApplies(a) ==
  /\ acct[a].state = "open" /\ acct[a].flying > 0
  /\ acct' = [acct EXCEPT ![a].left = @ - 1, ![a].flying = @ - 1]
  /\ UNCHANGED <<tab, storage, merges, closes>>

TradeDrops(a) ==
  /\ acct[a].flying > 0
  /\ acct' = [acct EXCEPT ![a].flying = @ - 1]
  /\ UNCHANGED <<tab, storage, merges, closes>>

\* A merge succeeds only if no trade came between the load and it.
MergeApplies(m) ==
  /\ acct[m.acct].state = "open" /\ acct[m.acct].left = m.left
  /\ acct' = [acct EXCEPT ![m.acct].state = "merged"]
  /\ merges' = merges \ {m}
  /\ UNCHANGED <<tab, storage, closes>>

MergeDrops(m) ==
  /\ merges' = merges \ {m}
  /\ UNCHANGED <<tab, storage, acct, closes>>

-----------------------------------------------------------------------------
\* What a tab awaits is answered, fails or times out.
Answer(t) ==
  \/ InitRefused(t) \/ InitStores(t) \/ SignRejected(t) \/ FundingSent(t)
  \/ FundAnswerOk(t) \/ FundAnswerFails(t) \/ StreamFails(t)
  \/ DisposeSubmits(t) \/ DisposeMissing(t) \/ DisposeFails(t) \/ DisposeOk(t)
  \/ RecoverSubmits(t) \/ RecoverMissing(t) \/ RecoverFails(t)
  \/ RecoverOk(t) \/ RecoverEnds(t)

Broker(t) == Connected(t) \/ QuoteArrives(t) \/ StreamedTx(t) \/ Finished(t) \/ GuardBlocks(t)

User(t) == StartSwap(t) \/ ClickClose(t) \/ Reconnect(t) \/ StartRecover(t) \/ CloseTab(t)

Next ==
  \/ \E t \in Tab : Answer(t) \/ Broker(t) \/ User(t)
  \/ \E a \in Account : FundApplies(a) \/ FundDrops(a) \/ TradeApplies(a) \/ TradeDrops(a)
  \/ \E m \in merges : MergeApplies(m) \/ MergeDrops(m)

Spec == Init /\ [][Next]_vars

FairSpec == Spec /\ \A t \in Tab : WF_vars(Answer(t))

-----------------------------------------------------------------------------
TabRec == [pc : {"idle"} \cup Running \cup Recovery,
           acct : Account \cup {NoAccount}, inited : BOOLEAN,
           result : {"none", "done", "blocked", "error", "recovered"},
           needsRecovery : BOOLEAN, attempt : 0..Attempts,
           todo : SUBSET Account, notice : BOOLEAN]

AcctRec == [state : {"none", "keyed", "funding", "dropped", "open", "merged"},
            left : 0..Lots, flying : 0..Lots]

\* Every variable has its type; at most Attempts disposals are tried.
TypeOK ==
  /\ tab \in [Tab -> TabRec] /\ storage \subseteq Account
  /\ acct \in [Account -> AcctRec]
  /\ merges \subseteq [acct : Account, left : 0..Lots]
  /\ closes \in 0..MaxCloses

\* "The SDK stores active mediator secrets in localStorage": an account that holds
\* funds has its entry, the only way back to them.
FundsHaveATrace == \A a \in Account : acct[a].state = "open" => a \in storage

\* Nothing was sold from the account: what it was funded with, if it was, is there.
Whole(a) == acct[a].flying = 0 /\ (acct[a].state = "open" => acct[a].left = Lots)

\* A session that got to an account and ends without asking for a recovery has
\* returned what it funded.  The one exception is a session that ends in error before
\* its funding is confirmed to it: the funding may land all the same ("nothing was
\* funded, nothing to recover" is only what the session knows), but then nothing of
\* it is sold, whatever the tab and the other ones do next.
EndedMeansReturned ==
  \A t \in Tab :
    tab[t].pc = "idle" /\ tab[t].acct \in Account /\ ~tab[t].needsRecovery
      => \/ acct[tab[t].acct].state = "merged"
         \/ tab[t].result = "error" /\ ~tab[t].inited /\ Whole(tab[t].acct)

\* Every session and every recovery comes to an end, whatever StellarBroker and
\* the ledger do: the hard timeout and the bounded attempts see to it.
SessionEnds == \A t \in Tab : tab[t].pc # "idle" ~> tab[t].pc = "idle"
=============================================================================
