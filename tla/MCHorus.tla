------------------------------ MODULE MCHorus ------------------------------
(* Instances of Horus for TLC. *)
EXTENDS Horus, TLC

CONSTANTS x1, x2, x3

\* Identifiers are only compared for equality.
IndSymmetry == Permutations(Ind)
=============================================================================
