--------------------------- MODULE MCTrackCache ---------------------------
(* TrackCache for TLC: calls are interchangeable, tracks too. *)
EXTENDS TrackCache, TLC

Symmetry == Permutations(Adds) \cup Permutations(Tracks)
=============================================================================
