------------------------------- MODULE Escrow -------------------------------
(***************************************************************************)
(* What the accounts of the StellarBroker sessions promise: each is listed *)
(* before it is funded, funded once, sold from while it holds something    *)
(* and returned whole, and never struck off the list while it holds        *)
(* something.  What is not promised: an account may be struck off before   *)
(* its funding arrives, and its funds are then "lost", to be returned only *)
(* by a session that still knows it.                                       *)
(***************************************************************************)
EXTENDS Naturals

CONSTANTS Account, Amount

VARIABLE escrow    \* the stage of each account and what is left of its amount

Moves(a, from, to, left) ==
  /\ escrow[a].stage = from
  /\ escrow' = [escrow EXCEPT ![a] = [stage |-> to, left |-> left]]

Left(a) == escrow[a].left

Register(a) == Moves(a, "unused", "listed", 0)
Deposit(a)  == Moves(a, "listed", "held", Amount)
Sell(a)     == Left(a) > 0 /\ Moves(a, "held", "held", Left(a) - 1)
Return(a)   == Moves(a, "held", "returned", Left(a))

Strike(a) == Moves(a, "listed", "unlisted", 0) \/ Moves(a, "returned", "closed", Left(a))

\* The same, of an account that is not listed any more.
DepositLate(a) == Moves(a, "unlisted", "lost", Amount)
SellLost(a)    == Left(a) > 0 /\ Moves(a, "lost", "lost", Left(a) - 1)
ReturnLost(a)  == Moves(a, "lost", "closed", Left(a))

Init == escrow = [a \in Account |-> [stage |-> "unused", left |-> 0]]

Next ==
  \E a \in Account :
    \/ Register(a) \/ Deposit(a) \/ Sell(a) \/ Return(a) \/ Strike(a)
    \/ DepositLate(a) \/ SellLost(a) \/ ReturnLost(a)

Spec == Init /\ [][Next]_escrow
=============================================================================
