-------------------------- MODULE MCSignatureLedger --------------------------
(* Values for the model checker.                                           *)
EXTENDS SignatureLedger, TLC

CONSTANTS s1, s2, s3, p1, p2

MCSigOf == [p \in Presses |-> IF p = p1 THEN s1 ELSE s2]
\* A chain, a choice of successors, a shared successor and a cycle.
MCRenames == {<<s1, s2>>, <<s2, s3>>, <<s1, s3>>, <<s3, s1>>}
Symm == Permutations(Callers)
=============================================================================
