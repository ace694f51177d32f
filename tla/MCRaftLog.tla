------------------------------ MODULE MCRaftLog ------------------------------
(* Instances of RaftLog for TLC. *)
EXTENDS RaftLog

CONSTANTS n1, n2, n3

OneInitial == {n2}
TwoPeers == {n2, n3}
=============================================================================
