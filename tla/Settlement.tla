------------------------------ MODULE Settlement ------------------------------
(***************************************************************************)
(* What a click on an Execute button promises, whatever the page, the      *)
(* wallet, the server and the network do in between.  The BLND is sold at  *)
(* most once, either straight for the asset asked or, by a composite, for  *)
(* USDC; only USDC obtained that way is converted in its name, and once,   *)
(* unless the user asked for another try of the conversion.                *)
(***************************************************************************)
CONSTANTS Request, Tx

VARIABLES
  asked, retried,  \* requests made, and those whose conversion is to be tried again
  landed           \* what the ledger applied: a transaction, for a request, as a leg

Applied(r, legs) == {a \in landed : a.req = r /\ a.leg \in legs}
Land(r, leg, x)  == landed' = landed \cup {[req |-> r, leg |-> leg, tx |-> x]}

Init == asked = {} /\ retried = {} /\ landed = {}

Ask(r) ==
  /\ r \notin asked
  /\ asked' = asked \cup {r}
  /\ UNCHANGED <<retried, landed>>

Sell(r, x) ==
  /\ r \in asked /\ Applied(r, {"swap", "leg1"}) = {}
  /\ \E leg \in {"swap", "leg1"} : Land(r, leg, x)
  /\ UNCHANGED <<asked, retried>>

Convert(r, x) ==
  /\ Applied(r, {"leg1"}) # {}
  /\ Applied(r, {"leg2"}) # {} => r \in retried
  /\ Land(r, "leg2", x)
  /\ UNCHANGED <<asked, retried>>

Retry(r) ==
  /\ Applied(r, {"leg1"}) # {}
  /\ retried' = retried \cup {r}
  /\ UNCHANGED <<asked, landed>>

Next == \E r \in Request : Ask(r) \/ Retry(r) \/ \E x \in Tx : Sell(r, x) \/ Convert(r, x)

Spec == Init /\ [][Next]_<<asked, retried, landed>>
=============================================================================
