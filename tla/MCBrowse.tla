------------------------------ MODULE MCBrowse ------------------------------
(* Browse for TLC: CreateSession calls are interchangeable. *)
EXTENDS Browse, TLC

Symmetry == Permutations(Calls)
=============================================================================
