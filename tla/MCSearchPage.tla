---------------------------- MODULE MCSearchPage ----------------------------
(* SearchPage for TLC: queries are interchangeable, and so are requests. *)
EXTENDS SearchPage, TLC

Symmetry == Permutations(Queries) \cup Permutations(Requests)
=============================================================================
