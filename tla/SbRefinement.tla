---------------------------- MODULE SbRefinement ----------------------------
(* The StellarBroker sessions implement Escrow. *)
EXTENDS SbMediator

\* How far an account is, with its entry in localStorage or without one.
StageFor(state, listed) ==
  CASE state = "none"   -> "unused"
    [] state = "open"   -> IF listed THEN "held" ELSE "lost"
    [] state = "merged" -> IF listed THEN "returned" ELSE "closed"
    [] OTHER            -> IF listed THEN "listed" ELSE "unlisted"

EscrowOf(a) ==
  [stage |-> StageFor(acct[a].state, a \in storage), left |-> acct[a].left]

Kept == INSTANCE Escrow WITH Amount <- Lots, escrow <- [a \in Account |-> EscrowOf(a)]

\* Whatever is lost, closed, retried or recovered, and in any number of tabs, an
\* account is listed before it is funded and funded once; while it holds anything
\* its entry stays.  So funds without an entry come about in one way only: the entry
\* of an account not yet funded is struck off, and its funding lands after that.
KeepsEscrow == Kept!Spec
=============================================================================
