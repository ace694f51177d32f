---------------------------- MODULE MCSubscriber ----------------------------
(* Instances of Subscriber for TLC. *)
EXTENDS Subscriber

CONSTANTS la, lb

\* Blocks with a maker and a taker, and blocks with a finish.
TwoAndOne == (la :> <<"Maker", "Taker">>) @@ (lb :> <<"Finish", "Anchor">>)
=============================================================================
