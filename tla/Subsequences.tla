---------------------------- MODULE Subsequences ----------------------------
(***************************************************************************)
(* What is left of a list when some of its elements are removed.  It is    *)
(* SelectSeq by places, written without recursion.                         *)
(***************************************************************************)
EXTENDS Naturals, Sequences, FiniteSets

\* Those of the places P that are n or before it.
UpTo(P, n) == {m \in P : m <= n}

\* The k-th of the places P.
PlaceOf(P, k) == CHOOSE n \in P : Cardinality(UpTo(P, n)) = k

\* The elements of s at the places P, in their order.
AtPlaces(s, P) == [k \in 1..Cardinality(P) |-> s[PlaceOf(P, k)]]
=============================================================================
