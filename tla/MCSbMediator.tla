---------------------------- MODULE MCSbMediator ----------------------------
(* Instances of SbMediator: tabs and ephemeral accounts are interchangeable. *)
EXTENDS SbRefinement, TLC

Symmetry == Permutations(Tab) \cup Permutations(Account)
=============================================================================
