------------------------- MODULE MCSessionSourcePoll -------------------------
(* Values for the model checker.                                           *)
EXTENDS SessionSourcePoll, TLC
=============================================================================
