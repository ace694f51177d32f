---------------------------- MODULE MCRaftMinter ----------------------------
(* Instances of RaftMinter for TLC. *)
EXTENDS RaftMinter

CONSTANTS t1, t2

TwoTxs == {t1, t2}

=============================================================================
