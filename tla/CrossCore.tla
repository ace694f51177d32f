----------------------------- MODULE CrossCore -----------------------------
(***************************************************************************)
(* Cross transactions and their status (cross/core/cross_status.go), which *)
(* the pool, the store and the handlers of a chain share.                  *)
(***************************************************************************)
EXTENDS Integers

CONSTANT MaxCtx  \* cross transactions are 1..MaxCtx

ASSUME CtxAssumption == MaxCtx \in Nat \ {0}

Ctx == 1..MaxCtx

\* CtxStatus
Pending == 0
Waiting == 1
Illegal == 2
Executing == 3
Executed == 4
Finishing == 5
Finished == 6
=============================================================================
