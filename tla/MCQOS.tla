------------------------------- MODULE MCQOS -------------------------------
(* Instances of QOS for TLC. *)
EXTENDS QOS, TLC

CONSTANTS x1, x2, x3

\* Identifiers are only compared for equality.
IndSymmetry == Permutations(Ind)
=============================================================================
