----------------------------- MODULE MCSkipList -----------------------------
(* A small instance of SkipList for TLC.  The addresses are compared for     *)
(* equality only and KvMap does not see them, so they are symmetric; op is   *)
(* set by every step and read by none, so it is left out of the view.       *)
EXTENDS SkipList, TLC

Symmetry == Permutations(Node)
View == <<list, loading>>
=============================================================================
