----------------------------- MODULE MCPRFORAM -----------------------------
(* Instances of PRFORAM for TLC. *)
EXTENDS PRFORAM, TLC

CONSTANTS v1, v2
=============================================================================
