--------------------------- MODULE MCReplayNarration ---------------------------
(* The values are those of the configuration. *)
EXTENDS ReplayNarration
=============================================================================
