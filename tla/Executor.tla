------------------------------ MODULE Executor ------------------------------
(***************************************************************************)
(* The executor of one chain (cross/trigger/simpletrigger/executor): it    *)
(* turns confirmed takers into finish transactions of the anchor account.  *)
(* SubmitTransaction runs in the goroutine of the handler, the loop and    *)
(* PromoteTransaction in that of the executor; both use the transaction    *)
(* pool of the chain and the persistent queue of QueueDB.                  *)
(*                                                                         *)
(* Finish transactions are numbered in the order in which the handler      *)
(* submits them.  The pool holds those of the anchor in the order of their *)
(* nonces; the miner takes them from it in that order.  The pool and the   *)
(* chain are external: the pool journals local transactions, so it         *)
(* survives a crash, and drops mined ones some time after the block.       *)
(***************************************************************************)
EXTENDS QueueDB, FiniteSetsExt

CONSTANTS
  MaxFinish,    \* maxFinishTransactions
  AccountSlots, \* core.DefaultTxPoolConfig.AccountSlots
  ChanSize,     \* capacity of submitCh, 10 in the code
  MaxBatch,     \* bound: finish transactions per call of SubmitTransaction
  MaxRtx,       \* bound: finish transactions
  MaxTroubles   \* bound: crashes, clean stops, failing writes and signatures

ASSUME ExecutorAssumption ==
  /\ {MaxFinish, AccountSlots, ChanSize, MaxBatch} \subseteq Nat \ {0}
  /\ MaxRtx \in Nat /\ Item = 1..MaxRtx

VARIABLES
  submitted, \* history: how many finish transactions the handler was given
  handler,   \* SubmitTransaction: where it is, what it has to push, what failed
  submitCh,  \* batches on their way to the loop
  exe,       \* the loop: where it is and what it holds
  pool,      \* the anchor's transactions in the pool: nonce of the first, items
  nonce,     \* the anchor's nonce in the state of the head block
  done,      \* what the contract has finished
  excused,   \* history: what was only in memory, or in a failing step
  popBroken, \* history: a Pop was cut off between its two writes
  shifted,   \* history: signing again failed between two that were signed
  troubles   \* crashes, stops and failures so far

vars == <<queueVars, submitted, handler, submitCh, exe, pool, nonce, done,
          excused, popBroken, shifted, troubles>>

env == <<pool, nonce, done>>
history == <<submitted, excused, popBroken, shifted>>

Waiting == [pc |-> "wait", todo |-> <<>>, failure |-> <<>>]
Select == [pc |-> "select", txs |-> <<>>, first |-> 0, idles |-> 0]

Init ==
  /\ QueueInit
  /\ submitted = 0
  /\ handler = Waiting
  /\ submitCh = <<>>
  /\ exe = Select
  /\ pool = [first |-> 0, txs |-> <<>>]
  /\ nonce = 0 /\ done = {}
  /\ excused = {} /\ popBroken = FALSE /\ shifted = FALSE
  /\ troubles = 0

-----------------------------------------------------------------------------
(* The pool and the chain. *)

\* txpool.Nonce: the first nonce the pool has no transaction for.
GetNonce == pool.first + Len(pool.txs)

\* pm.AddLocals of txs with consecutive nonces from n: each takes the place of the
\* one with its nonce, or of the next nonce; one below the first nonce is refused.
AddLocals(p, n, txs) ==
  LET end == Max({p.first + Len(p.txs), n + Len(txs)})
  IN  [p EXCEPT !.txs = [i \in 1..(end - p.first) |->
         IF p.first + i - n \in DOMAIN txs THEN txs[p.first + i - n] ELSE p.txs[i]]]

\* The sequences of seqs one after the other.
Flatten(seqs) ==
  LET flatten[i \in 0..Len(seqs)] == IF i = 0 THEN <<>> ELSE flatten[i - 1] \o seqs[i]
  IN  flatten[Len(seqs)]

\* txs without its k-th.
Skip(txs, k) == SubSeq(txs, 1, k - 1) \o SubSeq(txs, k + 1, Len(txs))

\* txs without those of S.
Without(txs, S) ==
  Flatten([i \in DOMAIN txs |-> IF txs[i] \in S THEN <<>> ELSE <<txs[i]>>])

\* checkTransaction, and the filter of lockout: the call would still succeed.
Open(txs) == Without(txs, done)

\* A block takes the next transaction of the anchor.
Mine ==
  /\ nonce < GetNonce
  /\ done' = done \cup {pool.txs[nonce - pool.first + 1]}
  /\ nonce' = nonce + 1
  /\ UNCHANGED <<queueVars, handler, submitCh, exe, pool, history, troubles>>

\* The contract finishes r for another anchor.
OtherAnchor(r) ==
  /\ r <= submitted
  /\ done' = done \cup {r}
  /\ UNCHANGED <<queueVars, handler, submitCh, exe, pool, nonce, history, troubles>>

\* The pool hears of the new head.
ResetPool ==
  /\ pool.first < nonce
  /\ pool' = [first |-> nonce,
              txs |-> SubSeq(pool.txs, nonce - pool.first + 1, Len(pool.txs))]
  /\ UNCHANGED <<queueVars, handler, submitCh, exe, nonce, done, history, troubles>>

-----------------------------------------------------------------------------
(* SubmitTransaction, in the goroutine of the handler. *)

Running == exe.pc \notin {"drain", "stopped"}

\* The handler calls SubmitTransaction with the next n; demoteBusyTxs looks at the
\* pool.
SubmitTransaction(n) ==
  LET rtxs == [i \in 1..n |-> submitted + i]
      busy == Len(pool.txs) >= MaxFinish
  IN  /\ Running
      /\ handler.pc = "wait"
      /\ submitted + n <= MaxRtx
      /\ submitted' = submitted + n
      /\ handler' = IF busy
                    THEN [pc |-> "demote", todo |-> rtxs, failure |-> <<>>]
                    ELSE [pc |-> "send", todo |-> <<>>, failure |-> rtxs]
      /\ UNCHANGED <<queueVars, submitCh, exe, env, excused, popBroken, shifted, troubles>>

DemoteItem ==
  /\ handler.pc = "demote" /\ handler.todo # <<>>
  /\ PushItem(Head(handler.todo))
  /\ UNCHANGED <<handler, submitCh, exe, env, history, troubles>>

\* Mutant: what was pushed is also counted as a failure.
DemotePositionBoth ==
  /\ handler.pc = "demote" /\ handler.todo # <<>>
  /\ PushPosition
  /\ handler' = [handler EXCEPT !.todo = Tail(@),
                                !.failure = Append(@, Head(handler.todo))]
  /\ UNCHANGED <<submitCh, exe, env, history, troubles>>

DemotePosition ==
  /\ handler.pc = "demote" /\ handler.todo # <<>>
  /\ PushPosition
  /\ handler' = [handler EXCEPT !.todo = Tail(@)]
  /\ UNCHANGED <<submitCh, exe, env, history, troubles>>

DemoteFails ==
  /\ handler.pc = "demote" /\ handler.todo # <<>> /\ troubles < MaxTroubles
  /\ PushFails
  /\ handler' = [handler EXCEPT !.todo = Tail(@),
                                !.failure = Append(@, Head(handler.todo))]
  /\ troubles' = troubles + 1
  /\ UNCHANGED <<submitCh, exe, env, history>>

\* Mutant: what could not be pushed is dropped.
DemoteDoneAnyway ==
  /\ handler.pc = "demote" /\ handler.todo = <<>>
  /\ handler' = Waiting
  /\ UNCHANGED <<queueVars, submitCh, exe, env, history, troubles>>

\* What could not be pushed goes to the loop all the same.
DemoteDone ==
  /\ handler.pc = "demote" /\ handler.todo = <<>>
  /\ handler' = IF handler.failure = <<>> THEN Waiting
                                          ELSE [handler EXCEPT !.pc = "send"]
  /\ UNCHANGED <<queueVars, submitCh, exe, env, history, troubles>>

Send ==
  /\ handler.pc = "send"
  /\ Len(submitCh) < ChanSize
  /\ submitCh' = Append(submitCh, handler.failure)
  /\ handler' = Waiting
  /\ UNCHANGED <<queueVars, exe, env, history, troubles>>

-----------------------------------------------------------------------------
(* The loop of the executor. *)

\* getTxForLockOut takes the nonce and checks each of the batch.
TakeBatch ==
  /\ exe.pc = "select" /\ submitCh # <<>>
  /\ exe' = [Select EXCEPT !.pc = "add", !.txs = Open(Head(submitCh)),
                           !.first = GetNonce]
  /\ submitCh' = Tail(submitCh)
  /\ UNCHANGED <<queueVars, handler, env, history, troubles>>

\* Signing fails for one of them, and lockout returns nil.
TakeBatchUnsigned ==
  /\ exe.pc = "select" /\ submitCh # <<>> /\ troubles < MaxTroubles
  /\ \E r \in Range(Open(Head(submitCh))) :
       /\ exe' = [Select EXCEPT
            !.pc = "add", !.first = GetNonce,
            !.txs = Without(Open(Head(submitCh)), {r})]
       /\ excused' = excused \cup {r}
  /\ submitCh' = Tail(submitCh)
  /\ troubles' = troubles + 1
  /\ UNCHANGED <<queueVars, handler, env, submitted, popBroken, shifted>>

AddBatch ==
  /\ exe.pc \in {"add", "promote"}
  /\ pool' = AddLocals(pool, exe.first, exe.txs)
  /\ exe' = Select
  /\ UNCHANGED <<queueVars, handler, submitCh, nonce, done, history, troubles>>

\* PromoteTransaction begins with the pending transactions of the pool.
PromoteTransaction ==
  /\ exe.pc = "select"
  /\ exe' = [pc |-> "sign", txs |-> pool.txs, first |-> pool.first,
             idles |-> IF Len(pool.txs) < MaxFinish THEN MaxFinish - Len(pool.txs)
                                                    ELSE 0]
  /\ UNCHANGED <<queueVars, handler, submitCh, env, history, troubles>>

\* It reads the state and signs those that are not packed yet at a higher price.
Packed == IF nonce > exe.first THEN nonce - exe.first ELSE 0

AtMost(n, txs) == SubSeq(txs, 1, IF Len(txs) < n THEN Len(txs) ELSE n)

Unpacked == SubSeq(exe.txs, Packed + 1, Len(exe.txs))

SignAgain ==
  /\ exe.pc = "sign"
  /\ exe' = [exe EXCEPT !.pc = "bump", !.first = @ + Packed,
                        !.txs = AtMost(AccountSlots, Unpacked)]
  /\ UNCHANGED <<queueVars, handler, submitCh, env, history, troubles>>

\* Signing fails for the k-th.  The nonces are counted from the first that is
\* signed, so those after the k-th move down by one: each overwrites the one before
\* it, and the last is in the pool twice.  As a rule only the k-th is gone, but
\* blocks may take some of the old ones before the new ones are in the pool, and
\* then the first that is left is overwritten.
SignAgainFails(k) ==
  /\ exe.pc = "sign" /\ troubles < MaxTroubles
  /\ k \in DOMAIN Unpacked /\ k <= AccountSlots
  /\ LET signed == AtMost(AccountSlots, Skip(Unpacked, k))
         moves == 1 < k /\ k <= Len(signed)
     IN  /\ exe' = [exe EXCEPT !.pc = "bump", !.txs = signed,
                               !.first = @ + Packed + (IF k = 1 THEN 1 ELSE 0)]
         /\ excused' = IF moves THEN excused \cup {Unpacked[j] : j \in k..Len(signed)}
                                ELSE excused
         /\ shifted' = (shifted \/ moves)
  /\ troubles' = troubles + 1
  /\ UNCHANGED <<queueVars, handler, submitCh, env, submitted, popBroken>>

\* They replace the old ones, and promoteIdleTxs starts with the next free nonce.
Bump ==
  /\ exe.pc = "bump"
  /\ pool' = AddLocals(pool, exe.first, exe.txs)
  /\ exe' = IF exe.idles = 0 THEN Select
            ELSE [exe EXCEPT !.pc = "pop", !.txs = <<>>,
                             !.first = pool'.first + Len(pool'.txs)]
  /\ UNCHANGED <<queueVars, handler, submitCh, nonce, done, history, troubles>>

PromotePop ==
  /\ exe.pc = "pop" /\ exe.idles > 0
  /\ PopDelete
  /\ UNCHANGED <<handler, submitCh, exe, env, history, troubles>>

PromotePopped ==
  /\ exe.pc = "pop"
  /\ PopPosition
  /\ exe' = [exe EXCEPT !.idles = @ - 1, !.txs = @ \o Open(<<op.item>>)]
  /\ UNCHANGED <<handler, submitCh, env, history, troubles>>

\* lockout cannot sign what was popped.
PromoteUnsigned ==
  /\ exe.pc = "pop" /\ troubles < MaxTroubles
  /\ PopPosition
  /\ exe' = [exe EXCEPT !.idles = @ - 1]
  /\ excused' = excused \cup {op.item}
  /\ troubles' = troubles + 1
  /\ UNCHANGED <<handler, submitCh, env, submitted, popBroken, shifted>>

PromotePopFails ==
  /\ exe.pc = "pop" /\ troubles < MaxTroubles
  /\ PopFails
  /\ exe' = [exe EXCEPT !.pc = "promote"]
  /\ excused' = excused \cup {op.item}
  /\ popBroken' = TRUE
  /\ troubles' = troubles + 1
  /\ UNCHANGED <<handler, submitCh, env, submitted, shifted>>

\* Mutant: an error of Pop does not end the loop.
PromoteEndEmpty ==
  /\ exe.pc = "pop" /\ op.kind # "pop"
  /\ exe.idles = 0
  /\ exe' = [exe EXCEPT !.pc = "promote"]
  /\ UNCHANGED <<queueVars, handler, submitCh, env, history, troubles>>

\* The pool is full, the queue is empty, or Pop returns an error.
PromoteEnd ==
  /\ exe.pc = "pop" /\ op.kind # "pop"
  /\ exe.idles = 0 \/ (op = Idle /\ (Size = 0 \/ Missing))
  /\ exe' = [exe EXCEPT !.pc = "promote"]
  /\ UNCHANGED <<queueVars, handler, submitCh, env, history, troubles>>

-----------------------------------------------------------------------------
(* Stop and start, and crashes. *)

\* Handler.Stop has waited for its own goroutines; the loop sees stopCh.
Stop ==
  /\ exe.pc = "select" /\ handler.pc = "wait" /\ troubles < MaxTroubles
  /\ exe' = [Select EXCEPT !.pc = "drain"]
  /\ troubles' = troubles + 1
  /\ UNCHANGED <<queueVars, handler, submitCh, env, history>>

DrainTake ==
  /\ exe.pc = "drain" /\ exe.txs = <<>> /\ submitCh # <<>>
  /\ exe' = [exe EXCEPT !.txs = Head(submitCh)]
  /\ submitCh' = Tail(submitCh)
  /\ UNCHANGED <<queueVars, handler, env, history, troubles>>

DrainItem ==
  /\ exe.pc = "drain" /\ exe.txs # <<>>
  /\ PushItem(Head(exe.txs))
  /\ UNCHANGED <<handler, submitCh, exe, env, history, troubles>>

DrainPosition ==
  /\ exe.pc = "drain" /\ exe.txs # <<>>
  /\ PushPosition
  /\ exe' = [exe EXCEPT !.txs = Tail(@)]
  /\ UNCHANGED <<handler, submitCh, env, history, troubles>>

DrainFails ==
  /\ exe.pc = "drain" /\ exe.txs # <<>> /\ troubles < MaxTroubles
  /\ PushFails
  /\ exe' = [exe EXCEPT !.txs = Tail(@)]
  /\ excused' = excused \cup {op.item}
  /\ troubles' = troubles + 1
  /\ UNCHANGED <<handler, submitCh, env, submitted, popBroken, shifted>>

DrainEnd ==
  /\ exe.pc = "drain" /\ exe.txs = <<>> /\ submitCh = <<>>
  /\ exe' = [exe EXCEPT !.pc = "stopped"]
  /\ UNCHANGED <<queueVars, handler, submitCh, env, history, troubles>>

Start ==
  /\ exe.pc = "stopped"
  /\ NewQueueDB
  /\ exe' = Select
  /\ UNCHANGED <<handler, submitCh, env, history, troubles>>

\* What only the process holds.
Volatile ==
  Range(handler.todo) \cup Range(handler.failure)
    \cup (UNION {Range(submitCh[i]) : i \in DOMAIN submitCh})
    \cup (IF exe.pc \in {"add", "pop", "promote", "drain"} THEN Range(exe.txs) ELSE {})
    \cup (IF op.kind = "pop" THEN {op.item} ELSE {})

Crash ==
  /\ troubles < MaxTroubles
  /\ NewQueueDB
  /\ handler' = Waiting /\ submitCh' = <<>> /\ exe' = Select
  /\ excused' = excused \cup Volatile
  /\ popBroken' = (popBroken \/ op.kind = "pop")
  /\ troubles' = troubles + 1
  /\ UNCHANGED <<env, submitted, shifted>>

-----------------------------------------------------------------------------
HandlerStep == DemoteItem \/ DemotePosition \/ DemoteDone \/ Send

LoopStep ==
  \/ AddBatch \/ SignAgain \/ Bump
  \/ PromotePop \/ PromotePopped \/ PromoteEnd
  \/ DrainTake \/ DrainItem \/ DrainPosition \/ DrainEnd \/ Start

Fault ==
  \/ DemoteFails \/ TakeBatchUnsigned \/ PromoteUnsigned \/ PromotePopFails
  \/ DrainFails \/ \E k \in 1..AccountSlots : SignAgainFails(k)

Next ==
  \/ \E n \in 1..MaxBatch : SubmitTransaction(n)
  \/ HandlerStep
  \/ TakeBatch \/ PromoteTransaction \/ LoopStep
  \/ Mine \/ ResetPool \/ \E r \in Item : OtherAnchor(r)
  \/ Fault \/ Stop \/ Crash

Spec == Init /\ [][Next]_vars

\* The goroutines run, a select takes every ready case sooner or later (Go chooses
\* at random), blocks are mined and the pool follows the head.
Fairness ==
  /\ WF_vars(HandlerStep) /\ WF_vars(LoopStep)
  /\ SF_vars(TakeBatch) /\ SF_vars(PromoteTransaction)
  /\ SF_vars(DemoteItem) /\ SF_vars(PromotePop)
  /\ WF_vars(Mine) /\ WF_vars(ResetPool)

LiveSpec == Spec /\ Fairness

-----------------------------------------------------------------------------
(* Properties *)

\* The places a finish transaction can be in, until it is in a block.
Places ==
  <<handler.todo, handler.failure, Flatten(submitCh), Contents,
    IF exe.pc \in {"add", "pop", "promote", "drain"} THEN exe.txs ELSE <<>>,
    SubSeq(pool.txs, nonce - pool.first + 1, Len(pool.txs))>>

\* A finish transaction handed to SubmitTransaction is waiting somewhere, or is
\* finished in the contract; only what a crash finds in memory, or a failing write
\* or signature in its hands, is gone.  A clean stop loses nothing.
NothingForgotten ==
  \A r \in 1..submitted :
    r \in done \cup excused \cup UNION {Range(Places[i]) : i \in DOMAIN Places}

\* It is in one place only, so the anchor does not pay for it twice: not after a
\* write that failed half way, not after a crash, and not when pending ones are
\* signed again, unless signing failed for one between two others.
HeldOnce ==
  LET all == Flatten(Places)
  IN  shifted \/ \A i, j \in DOMAIN all : all[i] = all[j] => i = j

\* The queue has items and Pop cannot return them only after a crash or a failing
\* write between the two writes of a Pop.  Nothing repairs it.
StuckOnlyByPop == op = Idle /\ Missing => popBroken

\* What is submitted is finished in the end, unless it was lost with the memory of
\* the process, overwritten, or the queue is stuck.
EveryRtxFinished ==
  \A r \in Item :
    r <= submitted ~> r \in done \cup excused \/ popBroken
=============================================================================
