----------------------------- MODULE MCBotAuth -----------------------------
(* BotAuth for TLC: nonces are interchangeable, and so are the calls. *)
EXTENDS BotAuth, TLC

Symmetry == Permutations(Nonces) \cup Permutations(Stops)
=============================================================================
