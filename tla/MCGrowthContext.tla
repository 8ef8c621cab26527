--------------------------- MODULE MCGrowthContext ---------------------------
(* Two addresses whose pages share no sentence.                            *)
EXTENDS GrowthContext, TLC

CONSTANTS d1, d2, a, b

MCSays == (d1 :> {a}) @@ (d2 :> {b})

Symm == Permutations(Slots) \cup Permutations(Jobs)
=============================================================================
