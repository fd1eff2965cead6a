----------------------------- MODULE MCPlayback -----------------------------
(***************************************************************************)
(* ServedQueue for TLC.  The AddTrack calls are interchangeable, so the    *)
(* ones that reach the queue may be taken to do so in a fixed order: a     *)
(* symmetry set would save the same, but does not go with liveness.        *)
(***************************************************************************)
EXTENDS ServedQueue

InOrder ==
    \A a, b \in Adds : a < b /\ add[b] = "idle" /\ add'[b] # "idle" => add[a] # "idle"

MCNext == ServedNext /\ InOrder

MCSpec == ServedInit /\ [][MCNext]_servedVars /\ Fairness
=============================================================================
