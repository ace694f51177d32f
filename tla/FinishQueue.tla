---------------------------- MODULE FinishQueue ----------------------------
(***************************************************************************)
(* What the executor of the cross-chain service expects of its queue of    *)
(* postponed finish transactions (cross/database/queuedb.go): items leave  *)
(* in the order in which they came, each at most once, and an item is      *)
(* either handed to the caller or, when the process or a write fails in    *)
(* the middle of Pop, dropped.                                             *)
(***************************************************************************)
EXTENDS Sequences

CONSTANTS Item, NoItem

VARIABLES queue, \* the items, oldest first
          got    \* what the last successful Pop returned

vars == <<queue, got>>

Init == queue = <<>> /\ got = NoItem

Push(x) == queue' = Append(queue, x) /\ UNCHANGED got

Pop ==
  /\ queue # <<>>
  /\ got' = Head(queue)
  /\ queue' = Tail(queue)

Drop ==
  /\ queue # <<>>
  /\ queue' = Tail(queue)
  /\ UNCHANGED got

Next == (\E x \in Item : Push(x)) \/ Pop \/ Drop

Spec == Init /\ [][Next]_vars
=============================================================================
