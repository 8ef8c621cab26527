---------------------------- MODULE MCDecisionLog ----------------------------
(* Values for the model checker.                                           *)
EXTENDS DecisionLog, TLC

Symm == Permutations(Recorders) \cup Permutations(Answers)
=============================================================================
