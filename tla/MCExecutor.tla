----------------------------- MODULE MCExecutor -----------------------------
(* The executor and its queue for TLC. *)
EXTENDS Executor

MCItem == 1..MaxRtx

=============================================================================
