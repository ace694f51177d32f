---------------------------- MODULE MCCrossSync ----------------------------
(* CrossSync for TLC. *)
EXTENDS PendingSync

\* Two transactions share a block, across the end of a page.
MCNum == <<1, 1, 2>>
=============================================================================
