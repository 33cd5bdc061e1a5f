------------------------------- MODULE MCWAL -------------------------------
(* The write-ahead log for TLC. *)
EXTENDS WALProperties, TLC

CallSymmetry == Permutations(Call)
=============================================================================
