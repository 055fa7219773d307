---------------------------- MODULE MCAmortized ----------------------------
(* Instances of Amortized for TLC. *)
EXTENDS Amortized

CONSTANTS k1, k2

\* Keyword 1 fills the bytes before the operation, keyword 2 leaves a zero.
KeywordLength == [w \in Keyword |-> IF w = 1 THEN OpAt ELSE OpAt - 1]

\* Whatever is read back for keyword 1 is no other keyword of the model.
Misread == [c \in Call |-> 0]

\* The contents of a key are only compared for equality.
KeySymmetry == Permutations({k1, k2})
=============================================================================
