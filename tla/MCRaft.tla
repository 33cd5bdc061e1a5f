------------------------------- MODULE MCRaft -------------------------------
(* Raft for TLC: servers and commands are interchangeable. *)
EXTENDS RaftProperties, TLC

RaftSymmetry == Permutations(Server) \cup Permutations(Command)
=============================================================================
