----------------------------- MODULE MCReplica -----------------------------
(* The replicated queue for TLC. *)
EXTENDS Replica, TLC
=============================================================================
