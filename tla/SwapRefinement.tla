---------------------------- MODULE SwapRefinement ----------------------------
(* The execution session implements Settlement. *)
EXTENDS SwapExecution

\* What the ledger has applied: each transaction, with its request and its leg.
LandedLegs ==
  {[req |-> tx[x].req, leg |-> tx[x].leg, tx |-> x] : x \in {y \in TxId : Landed(y)}}

Settled == INSTANCE Settlement
             WITH Request <- Req, Tx <- TxId, asked <- reqs, landed <- LandedLegs

\* Every behaviour of the session, seen through what the ledger applied, is a
\* behaviour of Settlement: no sale of BLND after another, no conversion before
\* the sale it spends, and no second conversion the user did not ask for.  When
\* the answer of /api/submit is lost the page says that leg 2 failed and offers
\* to try it again, so that with the user's retry it may land twice.
Settles == Settled!Spec
=============================================================================
