------------------------- MODULE MCElaborationQueue -------------------------
(* Small instances of parallel elaboration for TLC. *)
EXTENDS ElaborationQueue, TLC

CONSTANTS q1, q2, h1, h2
==============================================================================
