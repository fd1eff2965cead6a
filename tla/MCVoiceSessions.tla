-------------------------- MODULE MCVoiceSessions --------------------------
(* VoiceSessions for TLC, without symmetry: its run checks liveness. *)
EXTENDS VoiceSessions
=============================================================================
