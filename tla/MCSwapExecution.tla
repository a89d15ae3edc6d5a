--------------------------- MODULE MCSwapExecution ---------------------------
(* Instances of SwapExecution for TLC. *)
EXTENDS SwapRefinement, TLC

Symmetry == Permutations(Task) \cup Permutations(Req)
=============================================================================
