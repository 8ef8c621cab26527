--------------------------- MODULE MCAnalysisRuns ---------------------------
(* Values for the model checker: one project, so that every lane meets     *)
(* every other.                                                            *)
EXTENDS AnalysisRuns, TLC

CONSTANT a

MCProjectOf == [s \in Signatures |-> a]

Symmetry == Permutations(Workers) \cup Permutations(Signatures)
=============================================================================
