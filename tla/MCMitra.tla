------------------------------ MODULE MCMitra ------------------------------
(* Mitra for TLC: two keywords with different stems, two identifiers.      *)
EXTENDS Mitra, TLC

CONSTANTS w1, w2

KeywordSymmetry == Permutations(Keyword)

MCStem == [w \in Keyword |-> w]
=============================================================================
