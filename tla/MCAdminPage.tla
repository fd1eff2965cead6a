---------------------------- MODULE MCAdminPage ----------------------------
(* AdminPage for TLC: nonces are interchangeable. *)
EXTENDS AdminPage, TLC

Symmetry == Permutations(Nonces)
=============================================================================
