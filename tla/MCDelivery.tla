----------------------------- MODULE MCDelivery -----------------------------
(* Values for the model checker.                                           *)
EXTENDS Delivery, TLC

CONSTANTS f1, f2, f3

MCConfidence == [f \in Findings |-> IF f = f1 THEN 0 ELSE 1]
Symm == Permutations(Workers)
=============================================================================
