--------------------------- MODULE ExecutorProofs ---------------------------
(***************************************************************************)
(* The queue of QueueDB implements the first-in first-out queue of         *)
(* FinishQueue, for every set of items; and the executor uses it only      *)
(* through Push, Pop and NewQueueDB, so this holds of its runs, too.       *)
(***************************************************************************)
EXTENDS Executor, WellFoundedInduction, TLAPS

\* Zenon is tried before SMT, and both have a minute.
USE ZenonT(60), SMTT(60)

\* The two positions in the store are those in memory, and every position between
\* them but the first has its item: only a Pop that was cut off leaves a gap, and
\* only there.
QueueInv ==
  /\ readPosition \in Nat /\ writePosition \in Nat
  /\ readPosition <= writePosition
  /\ readPos = readPosition /\ writePos = writePosition
  /\ \A p \in DOMAIN slots : slots[p] \in Item
  /\ \A p \in Nat : readPosition < p /\ p < writePosition => p \in DOMAIN slots
  /\ op.kind \in {"idle", "push", "pop"}
  /\ op.kind = "push" => /\ writePosition \in DOMAIN slots
                         /\ slots[writePosition] \in Item
  /\ op.kind = "pop" => /\ readPosition < writePosition
                        /\ readPosition \notin DOMAIN slots
                        /\ op.item \in Item

-----------------------------------------------------------------------------
(* Slices *)

\* A slice that ends before it starts is empty.
LEMMA SliceEmpty ==
  ASSUME NEW f, NEW a \in Nat, NEW b \in Nat, b <= a
  PROVE  Slice(f, a, b) = <<>>
  BY SMTT(60) DEF Slice

\* The others hold the items from the first position on.
LEMMA SliceFull ==
  ASSUME NEW f, NEW a \in Nat, NEW b \in Nat, a < b
  PROVE  Slice(f, a, b) = [i \in 1..(b - a) |-> f[a + i - 1]]
  BY DEF Slice

\* A slice is a sequence.
LEMMA SliceIsSeq ==
  ASSUME NEW f, NEW a \in Nat, NEW b \in Nat, NEW S,
         \A p \in Nat : a <= p /\ p < b => f[p] \in S
  PROVE  /\ Slice(f, a, b) \in Seq(S)
         /\ Len(Slice(f, a, b)) = IF a <= b THEN b - a ELSE 0
  <1>1. CASE a < b
    <2>1. b - a \in Nat
      BY <1>1, SMTT(60)
    <2>2. \A i \in 1..(b - a) : f[a + i - 1] \in S
      <3> TAKE i \in 1..(b - a)
      <3> QED BY SMTT(60)
    <2>3. Slice(f, a, b) = [i \in 1..(b - a) |-> f[a + i - 1]]
      BY <1>1, SliceFull, SMTT(60)
    <2> QED
      BY <1>1, <2>1, <2>2, <2>3, SMTT(60)
  <1>2. CASE b <= a
    <2>1. Slice(f, a, b) = <<>>
      BY <1>2, SliceEmpty
    <2> QED
      BY <1>2, <2>1, SMTT(60)
  <1> QED
    BY <1>1, <1>2, SMTT(60)

\* Two functions with the same items at the positions of a slice.
LEMMA SliceAgrees ==
  ASSUME NEW f, NEW g, NEW a \in Nat, NEW b \in Nat,
         \A p \in Nat : a <= p /\ p < b => f[p] = g[p]
  PROVE  Slice(f, a, b) = Slice(g, a, b)
  <1>1. \A i \in 1..(b - a) : f[a + i - 1] = g[a + i - 1]
    BY SMTT(60)
  <1> QED
    BY <1>1 DEF Slice

\* One more position at the end.
LEMMA SliceAppend ==
  ASSUME NEW f, NEW a \in Nat, NEW b \in Nat, NEW S, a <= b,
         \A p \in Nat : a <= p /\ p < b => f[p] \in S, f[b] \in S
  PROVE  Slice(f, a, b + 1) = Append(Slice(f, a, b), f[b])
  <1> DEFINE s == Slice(f, a, b)
             t == Slice(f, a, b + 1)
             u == Append(s, f[b])
  <1>1. s \in Seq(S) /\ Len(s) = b - a
    BY SliceIsSeq
  <1>2. \A p \in Nat : a <= p /\ p < b + 1 => f[p] \in S
    BY SMTT(60)
  <1>3. t \in Seq(S) /\ Len(t) = b + 1 - a
    <2>1. b + 1 \in Nat /\ a <= b + 1
      BY SMTT(60)
    <2>2. /\ t \in Seq(S)
          /\ Len(t) = IF a <= b + 1 THEN (b + 1) - a ELSE 0
      BY <1>2, <2>1, SliceIsSeq
    <2> QED
      BY <2>1, <2>2, SMTT(60)
  <1>4. u \in Seq(S) /\ Len(u) = b - a + 1
    BY <1>1, SMTT(60)
  <1>5. \A i \in 1..Len(t) : t[i] = u[i]
    <2> TAKE i \in 1..Len(t)
    <2>1. t[i] = f[a + i - 1]
      BY <1>3, SMTT(60) DEF Slice
    <2>2. CASE i <= b - a
      <3>1. u[i] = s[i]
        BY <1>1, <1>3, <2>2, SMTT(60)
      <3>2. s[i] = f[a + i - 1]
        BY <2>2, <1>3, SMTT(60) DEF Slice
      <3> QED
        BY <2>1, <3>1, <3>2
    <2>3. CASE i = b - a + 1
      <3>1. u[i] = f[b]
        BY <1>1, <2>3, SMTT(60)
      <3>2. a + i - 1 = b
        BY <2>3, SMTT(60)
      <3> QED
        BY <2>1, <3>1, <3>2
    <2> HIDE DEF t, u
    <2> QED
      BY <1>3, <2>2, <2>3, SMTT(60)
  <1> QED
    BY <1>3, <1>4, <1>5, SMTT(60)

\* The first position of a slice and the rest.
LEMMA SliceHeadTail ==
  ASSUME NEW f, NEW a \in Nat, NEW b \in Nat, NEW S, a < b,
         \A p \in Nat : a <= p /\ p < b => f[p] \in S
  PROVE  Slice(f, a, b) = <<f[a]>> \o Slice(f, a + 1, b)
  <1> DEFINE s == Slice(f, a + 1, b)
             t == Slice(f, a, b)
             u == <<f[a]>> \o s
  <1>1. \A p \in Nat : a + 1 <= p /\ p < b => f[p] \in S
    BY SMTT(60)
  <1>2. s \in Seq(S) /\ Len(s) = b - a - 1
    <2>1. a + 1 \in Nat /\ a + 1 <= b
      BY SMTT(60)
    <2>2. /\ s \in Seq(S)
          /\ Len(s) = IF a + 1 <= b THEN b - (a + 1) ELSE 0
      BY <1>1, <2>1, SliceIsSeq
    <2> QED
      BY <2>1, <2>2, SMTT(60)
  <1>3. t \in Seq(S) /\ Len(t) = b - a
    BY SliceIsSeq, SMTT(60)
  <1>4. <<f[a]>> \in Seq(S) /\ Len(<<f[a]>>) = 1
    BY SMTT(60)
  <1>5. u \in Seq(S) /\ Len(u) = b - a
    BY <1>2, <1>4, SMTT(60)
  <1>6. \A i \in 1..Len(t) : t[i] = u[i]
    <2> TAKE i \in 1..Len(t)
    <2>1. t[i] = f[a + i - 1]
      BY <1>3 DEF Slice
    <2>2. CASE i = 1
      <3>1. u[i] = f[a]
        BY <1>2, <1>4, <2>2, SMTT(60)
      <3> QED
        BY <2>1, <2>2, <3>1, SMTT(60)
    <2>3. CASE i > 1
      <3>1. u[i] = s[i - 1]
        BY <1>2, <1>3, <1>4, <2>3, SMTT(60)
      <3>2. s[i - 1] = f[(a + 1) + (i - 1) - 1]
        BY <2>3, <1>3, SMTT(60) DEF Slice
      <3>3. (a + 1) + (i - 1) - 1 = a + i - 1
        BY <1>3, i \in Int, SMTT(60)
      <3> QED
        BY <2>1, <3>1, <3>2, <3>3
    <2> HIDE DEF t, u
    <2> QED
      BY <1>3, <2>2, <2>3, SMTT(60)
  <1> QED
    BY <1>3, <1>5, <1>6, SMTT(60)

-----------------------------------------------------------------------------
(* The invariant *)

\* The positions and the items between them stay as QueueInv says through every
\* write of Push and Pop, the errors of a write and a restart.
LEMMA QueueStep ==
  ASSUME QueueInv, [QueueNext]_queueVars
  PROVE  QueueInv'
  <1>1. ASSUME NEW x \in Item, PushItem(x)
        PROVE  QueueInv'
    BY <1>1 DEF QueueInv, PushItem, put, Idle
  <1>2. CASE PushPosition
    BY <1>2, SMTT(60) DEF QueueInv, PushPosition, Idle
  <1>3. CASE PushFails
    BY <1>3 DEF QueueInv, PushFails, Idle
  <1>4. CASE PopDelete
    BY <1>4, SMTT(60) DEF QueueInv, PopDelete, delete, Size, Missing, Idle
  <1>5. CASE PopPosition
    BY <1>5, SMTT(60) DEF QueueInv, PopPosition, Idle
  <1>6. CASE PopFails
    BY <1>6 DEF QueueInv, PopFails, Idle
  <1>7. CASE NewQueueDB
    BY <1>7 DEF QueueInv, NewQueueDB, Idle
  <1>8. CASE UNCHANGED queueVars
    BY <1>8 DEF QueueInv, queueVars
  <1> QED
    BY <1>1, <1>2, <1>3, <1>4, <1>5, <1>6, <1>7, <1>8 DEF QueueNext

\* So they are as QueueInv says in every state.
THEOREM QueueInvariant == QueueSpec => []QueueInv
  <1>1. QueueInit => QueueInv
    BY SMTT(60) DEF QueueInit, QueueInv, Idle
  <1> QED
    BY <1>1, QueueStep, PTL DEF QueueSpec

-----------------------------------------------------------------------------
(* The refinement *)

\* What is stored from the first item on is a sequence of items.
LEMMA StoredItems ==
  ASSUME QueueInv
  PROVE  /\ First \in Nat
         /\ \A p \in Nat : First <= p /\ p < writePosition => slots[p] \in Item
         /\ Stored \in Seq(Item)
  <1>1. First \in Nat
    BY SMTT(60) DEF QueueInv, First
  <1>2. \A p \in Nat : First <= p /\ p < writePosition => slots[p] \in Item
    BY SMTT(60) DEF QueueInv, First
  <1>3. writePosition \in Nat
    BY DEF QueueInv
  <1> QED
    BY <1>1, <1>2, <1>3, SliceIsSeq DEF Stored

\* The first write of Push changes nothing that can be read.
LEMMA PushItemStutters ==
  ASSUME QueueInv, NEW x \in Item, PushItem(x)
  PROVE  Contents' = Contents /\ got' = got
  <1>1. Contents = Stored /\ Contents' = Stored'
    BY DEF PushItem, Contents, Idle
  <1>2. writePosition' = writePosition /\ writePosition \in Nat
    BY DEF QueueInv, PushItem
  <1>3. CASE readPosition = writePosition
    <2>1. First \in Nat /\ First' \in Nat /\ writePosition <= First
          /\ writePosition <= First'
      BY <1>3, SMTT(60) DEF QueueInv, PushItem, First
    <2>2. Stored = <<>> /\ Stored' = <<>>
      BY <2>1, <1>2, SliceEmpty DEF Stored
    <2> QED
      BY <1>1, <2>2 DEF PushItem
  <1>4. CASE readPosition # writePosition
    <2>1. First' = First /\ First \in Nat
      BY <1>4, SMTT(60) DEF QueueInv, PushItem, First, put
    <2>2. \A p \in Nat : First <= p /\ p < writePosition => slots'[p] = slots[p]
      BY <1>4, SMTT(60) DEF QueueInv, PushItem, First, put
    <2>3. Slice(slots', First, writePosition) = Slice(slots, First, writePosition)
      BY <2>1, <2>2, <1>2, SliceAgrees
    <2> QED
      BY <1>1, <1>2, <2>1, <2>3 DEF Stored, PushItem
  <1> QED
    BY <1>3, <1>4

\* The second write of Push appends the item.
LEMMA PushPositionPushes ==
  ASSUME QueueInv, PushPosition
  PROVE  slots[writePosition] \in Item /\ FIFO!Push(slots[writePosition])
  <1> DEFINE x == slots[writePosition]
  <1>1. x \in Item /\ writePosition \in Nat
    BY DEF QueueInv, PushPosition
  <1>2. Contents = Stored /\ Contents' = Stored'
    BY DEF PushPosition, Contents, Idle
  <1>3. /\ First' = First /\ First \in Nat /\ First <= writePosition
        /\ slots' = slots /\ writePosition' = writePosition + 1
    BY SMTT(60) DEF QueueInv, PushPosition, First
  <1>4. Slice(slots, First, writePosition + 1)
          = Append(Slice(slots, First, writePosition), slots[writePosition])
    BY <1>1, <1>3, StoredItems, SliceAppend
  <1>5. Contents' = Append(Contents, x)
    BY <1>2, <1>3, <1>4 DEF Stored
  <1> QED
    BY <1>1, <1>5 DEF FIFO!Push, PushPosition

\* While Pop is between its writes its item is still the first.
LEMMA PopDeleteStutters ==
  ASSUME QueueInv, PopDelete
  PROVE  Contents' = Contents /\ got' = got
  <1>1. /\ readPosition \in Nat /\ writePosition \in Nat
        /\ readPosition < writePosition
        /\ readPosition \in DOMAIN slots
        /\ writePosition' = writePosition
    BY SMTT(60) DEF QueueInv, PopDelete, Size, Missing
  <1>2. First = readPosition /\ First' = readPosition + 1
    BY <1>1 DEF First, PopDelete, delete
  <1>3. Contents = Slice(slots, readPosition, writePosition)
    BY <1>2 DEF Contents, Stored, PopDelete, Idle
  <1>4. Contents' = <<slots[readPosition]>>
                      \o Slice(slots', readPosition + 1, writePosition)
    BY <1>1, <1>2 DEF Contents, Stored, PopDelete
  <1>5. Slice(slots', readPosition + 1, writePosition)
          = Slice(slots, readPosition + 1, writePosition)
    <2>1. \A p \in Nat : readPosition + 1 <= p /\ p < writePosition
            => slots'[p] = slots[p]
      BY <1>1, SMTT(60) DEF QueueInv, PopDelete, delete
    <2>2. readPosition + 1 \in Nat
      BY <1>1, SMTT(60)
    <2> QED
      BY <1>1, <2>1, <2>2, SliceAgrees
  <1>6. Slice(slots, readPosition, writePosition)
          = <<slots[readPosition]>> \o Slice(slots, readPosition + 1, writePosition)
    BY <1>1, <1>2, StoredItems, SliceHeadTail
  <1> QED
    BY <1>3, <1>4, <1>5, <1>6 DEF PopDelete

\* In the middle of Pop the item and what is stored behind it.
LEMMA PopContents ==
  ASSUME QueueInv, op.kind = "pop"
  PROVE  /\ Contents # <<>>
         /\ Head(Contents) = op.item
         /\ Tail(Contents) = Stored
         /\ First = readPosition + 1
  <1>1. op.item \in Item /\ Stored \in Seq(Item)
    BY StoredItems DEF QueueInv
  <1>2. Contents = <<op.item>> \o Stored
    BY DEF Contents
  <1>3. First = readPosition + 1
    BY DEF QueueInv, First
  <1>4. <<op.item>> \o Stored # <<>>
    BY <1>1, SMTT(60)
  <1>5. Head(<<op.item>> \o Stored) = op.item
    BY <1>1, SMTT(60)
  <1>6. Tail(<<op.item>> \o Stored) = Stored
    BY <1>1, SMTT(60)
  <1> QED
    BY <1>2, <1>3, <1>4, <1>5, <1>6

\* The second write of Pop takes the item away and returns it.
LEMMA PopPositionPops ==
  ASSUME QueueInv, PopPosition
  PROVE  FIFO!Pop
  <1>1. /\ readPosition \in Nat /\ writePosition \in Nat
        /\ readPosition < writePosition
        /\ slots' = slots /\ writePosition' = writePosition
        /\ readPosition' = readPosition + 1
    BY DEF QueueInv, PopPosition
  <1>2. Contents' = Slice(slots, First', writePosition)
    BY <1>1 DEF Contents, Stored, PopPosition, Idle
  <1>3. Stored = Slice(slots, readPosition + 1, writePosition)
    BY PopContents DEF Stored, PopPosition
  <1>4. Slice(slots, First', writePosition)
          = Slice(slots, readPosition + 1, writePosition)
    <2>1. CASE readPosition + 1 = writePosition
      <3>1. First' \in Nat /\ readPosition + 1 \in Nat /\ writePosition <= First'
        BY <1>1, <2>1, SMTT(60) DEF First
      <3> QED
        BY <1>1, <2>1, <3>1, SliceEmpty, SMTT(60)
    <2>2. CASE readPosition + 1 # writePosition
      <3>1. First' = readPosition + 1
        BY <1>1, <2>2, SMTT(60) DEF First, QueueInv
      <3> QED
        BY <3>1
    <2> QED
      BY <2>1, <2>2
  <1> QED
    BY <1>2, <1>3, <1>4, PopContents DEF FIFO!Pop, PopPosition

\* A Pop that is cut off between its writes loses its item and nothing else.
LEMMA PopCutOffDrops ==
  ASSUME QueueInv, op.kind = "pop", op' = Idle, got' = got,
         slots' = slots, readPosition' = readPosition, writePosition' = writePosition
  PROVE  FIFO!Drop
  <1>1. Contents' = Stored
    BY DEF Contents, Stored, First, Idle
  <1> QED
    BY <1>1, PopContents DEF FIFO!Drop

\* Every write of Push and Pop, with a crash or an error between any two of them,
\* is a step of a first-in first-out queue or changes nothing: items come out in
\* the order in which they went in, each at most once, and a crash or an error
\* costs at most the item that is being popped.
THEOREM QueueImplementsFIFO == QueueSpec => ImplementsFIFO
  <1>1. QueueInit => FIFO!Init
    <2> SUFFICES ASSUME QueueInit
                 PROVE  FIFO!Init
      OBVIOUS
    <2>1. First \in Nat /\ writePosition \in Nat /\ writePosition <= First
      BY SMTT(60) DEF QueueInit, First
    <2>2. Contents = <<>>
      BY <2>1, SliceEmpty DEF QueueInit, Contents, Stored, Idle
    <2> QED
      BY <2>2 DEF QueueInit, FIFO!Init
  <1>2. QueueInv /\ [QueueNext]_queueVars => [FIFO!Next]_(FIFO!vars)
    <2> SUFFICES ASSUME QueueInv, [QueueNext]_queueVars
                 PROVE  FIFO!Next \/ UNCHANGED FIFO!vars
      OBVIOUS
    <2>1. ASSUME NEW x \in Item, PushItem(x)
          PROVE  UNCHANGED FIFO!vars
      BY <2>1, PushItemStutters DEF FIFO!vars
    <2>2. CASE PushPosition
      BY <2>2, PushPositionPushes DEF FIFO!Next
    <2>3. CASE PushFails
      BY <2>3 DEF FIFO!vars, PushFails, Contents, Stored, First, Idle
    <2>4. CASE PopDelete
      BY <2>4, PopDeleteStutters DEF FIFO!vars
    <2>5. CASE PopPosition
      BY <2>5, PopPositionPops DEF FIFO!Next
    <2>6. CASE PopFails
      BY <2>6, PopCutOffDrops DEF FIFO!Next, PopFails
    <2>7. CASE NewQueueDB
      <3>1. readPosition' = readPosition /\ writePosition' = writePosition
        BY <2>7 DEF NewQueueDB, QueueInv
      <3>2. CASE op.kind = "pop"
        BY <2>7, <3>1, <3>2, PopCutOffDrops DEF FIFO!Next, NewQueueDB
      <3>3. CASE op.kind # "pop"
        BY <2>7, <3>1, <3>3
        DEF FIFO!vars, NewQueueDB, Contents, Stored, First, Idle
      <3> QED
        BY <3>2, <3>3
    <2>8. CASE UNCHANGED queueVars
      BY <2>8 DEF queueVars, FIFO!vars, Contents, Stored, First
    <2> QED
      BY <2>1, <2>2, <2>3, <2>4, <2>5, <2>6, <2>7, <2>8 DEF QueueNext
  <1> QED
    BY <1>1, <1>2, QueueInvariant, PTL DEF QueueSpec, ImplementsFIFO, FIFO!Spec

-----------------------------------------------------------------------------
(* The executor *)

\* What the two goroutines and the channel between them can hand to Push.
Handed ==
  /\ submitted \in Nat
  /\ DOMAIN handler = {"pc", "todo", "failure"}
  /\ handler.todo \in Seq(Item) /\ handler.failure \in Seq(Item)
  /\ submitCh \in Seq(Seq(Item))
  /\ DOMAIN exe = {"pc", "txs", "first", "idles"}
  /\ exe.pc = "drain" => exe.txs \in Seq(Item)

\* SubmitTransaction hands over finish transactions only, and the channel and the
\* loop keep them.
THEOREM HandedInvariant == Spec => []Handed
  <1>1. Init => Handed
    BY SMTT(60) DEF Init, Handed, Waiting, Select
  <1>2. Handed /\ [Next]_vars => Handed'
    <2> SUFFICES ASSUME Handed, [Next]_vars
                 PROVE  Handed'
      OBVIOUS
    <2>1. ASSUME NEW n \in 1..MaxBatch, SubmitTransaction(n)
          PROVE  Handed'
      <3> DEFINE rtxs == [i \in 1..n |-> submitted + i]
      <3>1. n \in Nat
        BY SMTT(60)
      <3>2. \A i \in 1..n : submitted + i \in Item
        BY <2>1, ExecutorAssumption, SMTT(60) DEF SubmitTransaction, Handed
      <3>3. rtxs \in Seq(Item)
        BY <3>1, <3>2, SMTT(60)
      <3>4. /\ DOMAIN handler' = {"pc", "todo", "failure"}
            /\ handler'.todo \in Seq(Item) /\ handler'.failure \in Seq(Item)
        BY <2>1, <3>3, SMTT(60) DEF SubmitTransaction
      <3>5. submitted' \in Nat /\ submitCh' = submitCh /\ exe' = exe
        BY <2>1, <3>1, SMTT(60) DEF SubmitTransaction, Handed
      <3> QED
        BY <3>4, <3>5 DEF Handed
    <2>2. CASE HandlerStep
      <3>1. CASE DemoteItem
        BY <3>1 DEF DemoteItem, Handed, history
      <3>2. CASE DemotePosition
        BY <3>2, SMTT(60) DEF DemotePosition, Handed, history
      <3>3. CASE DemoteDone
        BY <3>3 DEF DemoteDone, Handed, history, Waiting
      <3>4. CASE Send
        BY <3>4, SMTT(60) DEF Send, Handed, history, Waiting
      <3> QED
        BY <2>2, <3>1, <3>2, <3>3, <3>4 DEF HandlerStep
    <2>3. CASE TakeBatch
      BY <2>3, SMTT(60) DEF TakeBatch, Handed, history, Select
    <2>4. CASE PromoteTransaction
      BY <2>4 DEF PromoteTransaction, Handed, history
    <2>5. CASE LoopStep
      <3>1. CASE AddBatch \/ Start
        BY <3>1, SMTT(60) DEF AddBatch, Start, Handed, history, Select
      <3>2. CASE SignAgain \/ PromotePopped \/ PromoteEnd
        BY <3>2 DEF SignAgain, PromotePopped, PromoteEnd, Handed, history
      <3>3. CASE Bump
        BY <3>3 DEF Bump, Handed, history, Select
      <3>4. CASE PromotePop \/ DrainItem
        BY <3>4 DEF PromotePop, DrainItem, Handed, history
      <3>5. CASE DrainTake
        BY <3>5, SMTT(60) DEF DrainTake, Handed, history
      <3>6. CASE DrainPosition
        BY <3>6, SMTT(60) DEF DrainPosition, Handed, history
      <3>7. CASE DrainEnd
        BY <3>7 DEF DrainEnd, Handed, history
      <3> QED
        BY <2>5, <3>1, <3>2, <3>3, <3>4, <3>5, <3>6, <3>7 DEF LoopStep
    <2>6. CASE Mine \/ ResetPool \/ \E r \in Item : OtherAnchor(r)
      BY <2>6 DEF Mine, ResetPool, OtherAnchor, Handed, history
    <2>7. CASE Fault
      <3>1. CASE DemoteFails
        BY <3>1, SMTT(60) DEF DemoteFails, Handed, history
      <3>2. CASE TakeBatchUnsigned
        BY <3>2, SMTT(60) DEF TakeBatchUnsigned, Handed, Select
      <3>3. CASE PromoteUnsigned \/ PromotePopFails
        BY <3>3 DEF PromoteUnsigned, PromotePopFails, Handed
      <3>4. CASE DrainFails
        BY <3>4, SMTT(60) DEF DrainFails, Handed
      <3>5. CASE \E k \in 1..AccountSlots : SignAgainFails(k)
        BY <3>5 DEF SignAgainFails, Handed
      <3> QED
        BY <2>7, <3>1, <3>2, <3>3, <3>4, <3>5 DEF Fault
    <2>8. CASE Stop
      BY <2>8, SMTT(60) DEF Stop, Handed, history, Select
    <2>9. CASE Crash
      BY <2>9, SMTT(60) DEF Crash, Handed, Waiting, Select
    <2>10. CASE UNCHANGED vars
      BY <2>10 DEF vars, Handed
    <2> QED
      BY <2>1, <2>2, <2>3, <2>4, <2>5, <2>6, <2>7, <2>8, <2>9, <2>10 DEF Next
  <1> QED
    BY <1>1, <1>2, PTL DEF Spec

\* Every step of the handler, the loop, the pool, the chain and the faults is a
\* step of the queue or leaves it alone.
LEMMA StepOfQueue ==
  ASSUME Handed, [Next]_vars
  PROVE  [QueueNext]_queueVars
  <1>1. ASSUME NEW n \in 1..MaxBatch, SubmitTransaction(n)
        PROVE  UNCHANGED queueVars
    BY <1>1 DEF SubmitTransaction
  <1>2. CASE HandlerStep
    <2>1. CASE DemoteItem
      BY <2>1, SMTT(60) DEF DemoteItem, Handed, QueueNext
    <2>2. CASE DemotePosition \/ DemoteDone \/ Send
      BY <2>2 DEF DemotePosition, DemoteDone, Send, QueueNext
    <2> QED
      BY <1>2, <2>1, <2>2 DEF HandlerStep
  <1>3. CASE TakeBatch \/ PromoteTransaction \/ Stop
    BY <1>3 DEF TakeBatch, PromoteTransaction, Stop
  <1>4. CASE LoopStep
    <2>1. CASE DrainItem
      BY <2>1, SMTT(60) DEF DrainItem, Handed, QueueNext
    <2>2. CASE PromotePop \/ PromotePopped \/ DrainPosition \/ Start
      BY <2>2 DEF PromotePop, PromotePopped, DrainPosition, Start, QueueNext
    <2>3. CASE AddBatch \/ SignAgain \/ Bump \/ PromoteEnd \/ DrainTake \/ DrainEnd
      BY <2>3 DEF AddBatch, SignAgain, Bump, PromoteEnd, DrainTake, DrainEnd
    <2> QED
      BY <1>4, <2>1, <2>2, <2>3 DEF LoopStep
  <1>5. CASE Mine \/ ResetPool \/ \E r \in Item : OtherAnchor(r)
    BY <1>5 DEF Mine, ResetPool, OtherAnchor
  <1>6. CASE Fault
    BY <1>6 DEF Fault, DemoteFails, TakeBatchUnsigned, PromoteUnsigned,
                PromotePopFails, DrainFails, SignAgainFails, QueueNext
  <1>7. CASE Crash
    BY <1>7 DEF Crash, QueueNext
  <1>8. CASE UNCHANGED vars
    BY <1>8 DEF vars
  <1> QED
    BY <1>1, <1>2, <1>3, <1>4, <1>5, <1>6, <1>7, <1>8 DEF Next

\* Whatever the handler, the loop, the pool and the chain do, and whenever the
\* process stops, crashes or a write fails, the queue of postponed finish
\* transactions is first in, first out.
THEOREM ExecutorImplementsFIFO == Spec => ImplementsFIFO
  <1>1. Init => QueueInit
    BY DEF Init
  <1>2. Spec => QueueSpec
    BY <1>1, HandedInvariant, StepOfQueue, PTL DEF Spec, QueueSpec
  <1> QED
    BY <1>2, QueueImplementsFIFO

-----------------------------------------------------------------------------
(* The queue is stuck only after a Pop that was cut off *)

\* Only the loop pops.  The position of the reader has its item unless a Pop is,
\* or was, between its two writes.
GapOnlyByPop ==
  /\ op.kind = "pop" => exe.pc = "pop"
  /\ ~popBroken /\ op.kind # "pop" /\ readPosition < writePosition
       => readPosition \in DOMAIN slots

\* No step but a failing Pop, or a crash in the middle of Pop, makes the gap.
LEMMA GapStep ==
  ASSUME QueueInv, Handed, GapOnlyByPop, [Next]_vars
  PROVE  GapOnlyByPop'
  <1>1. ASSUME NEW n \in 1..MaxBatch, SubmitTransaction(n)
        PROVE  GapOnlyByPop'
    BY <1>1 DEF SubmitTransaction, GapOnlyByPop, queueVars
  <1>2. CASE HandlerStep
    <2>1. CASE DemoteItem
      BY <2>1 DEF DemoteItem, GapOnlyByPop, PushItem, put, Idle, history
    <2>2. CASE DemotePosition
      BY <2>2, SMTT(60) DEF DemotePosition, GapOnlyByPop, PushPosition, QueueInv, Idle, history
    <2>3. CASE DemoteDone \/ Send
      BY <2>3 DEF DemoteDone, Send, GapOnlyByPop, queueVars, history
    <2> QED
      BY <1>2, <2>1, <2>2, <2>3 DEF HandlerStep
  <1>3. CASE TakeBatch \/ PromoteTransaction \/ Stop
    BY <1>3 DEF TakeBatch, PromoteTransaction, Stop, GapOnlyByPop, queueVars, history
  <1>4. CASE LoopStep
    <2>1. CASE DrainItem
      BY <2>1 DEF DrainItem, GapOnlyByPop, PushItem, put, Idle, history
    <2>2. CASE DrainPosition
      BY <2>2, SMTT(60) DEF DrainPosition, GapOnlyByPop, PushPosition, QueueInv, Idle, history
    <2>3. CASE PromotePop
      BY <2>3 DEF PromotePop, GapOnlyByPop, PopDelete, history
    <2>4. CASE PromotePopped
      BY <2>4, SMTT(60) DEF PromotePopped, GapOnlyByPop, PopPosition, QueueInv, Idle, history
    <2>5. CASE Start
      BY <2>5 DEF Start, GapOnlyByPop, NewQueueDB, QueueInv, Idle, history
    <2>6. CASE AddBatch \/ SignAgain \/ Bump \/ PromoteEnd \/ DrainTake \/ DrainEnd
      BY <2>6 DEF AddBatch, SignAgain, Bump, PromoteEnd, DrainTake, DrainEnd,
                  GapOnlyByPop, queueVars, history
    <2> QED
      BY <1>4, <2>1, <2>2, <2>3, <2>4, <2>5, <2>6 DEF LoopStep
  <1>5. CASE Mine \/ ResetPool \/ \E r \in Item : OtherAnchor(r)
    BY <1>5 DEF Mine, ResetPool, OtherAnchor, GapOnlyByPop, queueVars, history
  <1>6. CASE Fault
    <2>1. CASE DemoteFails \/ DrainFails
      BY <2>1, SMTT(60) DEF DemoteFails, DrainFails, GapOnlyByPop, PushFails, Idle, history
    <2>2. CASE PromoteUnsigned
      BY <2>2, SMTT(60) DEF PromoteUnsigned, GapOnlyByPop, PopPosition, QueueInv, Idle
    <2>3. CASE PromotePopFails
      BY <2>3 DEF PromotePopFails, GapOnlyByPop, PopFails, Idle
    <2>4. CASE TakeBatchUnsigned \/ \E k \in 1..AccountSlots : SignAgainFails(k)
      BY <2>4 DEF TakeBatchUnsigned, SignAgainFails, GapOnlyByPop, queueVars
    <2> QED
      BY <1>6, <2>1, <2>2, <2>3, <2>4 DEF Fault
  <1>7. CASE Crash
    BY <1>7 DEF Crash, GapOnlyByPop, NewQueueDB, QueueInv, Idle
  <1>8. CASE UNCHANGED vars
    BY <1>8 DEF vars, queueVars, GapOnlyByPop
  <1> QED
    BY <1>1, <1>2, <1>3, <1>4, <1>5, <1>6, <1>7, <1>8 DEF Next

\* As long as no Pop was cut off between its Delete and its Put, Pop finds an item
\* whenever the positions say that there is one.
THEOREM QueueStuckOnlyByPop == Spec => []StuckOnlyByPop
  <1>1. Init => QueueInit /\ GapOnlyByPop
    BY SMTT(60) DEF Init, QueueInit, GapOnlyByPop, Idle
  <1>2. Spec => QueueSpec
    BY <1>1, HandedInvariant, StepOfQueue, PTL DEF Spec, QueueSpec
  <1>3. QueueInv /\ GapOnlyByPop => StuckOnlyByPop
    BY SMTT(60) DEF QueueInv, GapOnlyByPop, StuckOnlyByPop, Missing, Size, Idle
  <1> QED
    BY <1>1, <1>2, <1>3, GapStep, HandedInvariant, QueueInvariant, PTL DEF Spec

-----------------------------------------------------------------------------
(* Sequences *)

\* A set of natural numbers that is not empty has a least element.
LEMMA LeastNat ==
  ASSUME NEW T \in SUBSET Nat, T # {}
  PROVE  \E n \in T : \A m \in T : n <= m
  <1>1. IsWellFoundedOn(OpToRel(<, Nat), Nat)
    BY NatLessThanWellFounded
  <1>2. PICK n \in T : \A m \in T : ~(<<m, n>> \in OpToRel(<, Nat))
    BY <1>1, WFMin
  <1>3. \A m \in T : ~(m < n)
    BY <1>2 DEF OpToRel
  <1> QED
    BY <1>3, SMTT(60)

\* The function that Flatten defines by recursion exists.
LEMMA FlattenExists ==
  ASSUME NEW ss, NEW n \in Nat
  PROVE  \E f : f = [i \in 0..n |-> IF i = 0 THEN <<>> ELSE f[i - 1] \o ss[i]]
  <1> DEFINE G(f, m) == [i \in 0..m |-> IF i = 0 THEN <<>> ELSE f[i - 1] \o ss[i]]
             Exists(m) == \E f : f = G(f, m)
             T == {m \in Nat : ~Exists(m)}
  <1>0. Exists(0)
    <2> DEFINE z == [i \in 0..0 |-> <<>>]
    <2>1. z = G(z, 0)
      BY SMTT(60)
    <2> QED
      BY <2>1
  <1> HIDE DEF Exists
  <1>1. SUFFICES ASSUME T # {} PROVE FALSE
    BY DEF Exists
  <1>2. PICK m \in T : \A k \in T : m <= k
    BY <1>1, LeastNat
  <1>3. m # 0
    BY <1>0, <1>2
  <1>4. m - 1 \in Nat /\ m - 1 \notin T
    BY <1>2, <1>3, SMTT(60)
  <1>5. PICK f : f = G(f, m - 1)
    BY <1>4 DEF Exists
  <1> DEFINE g == [i \in 0..m |-> IF i = m THEN f[m - 1] \o ss[m] ELSE f[i]]
  <1>6. ASSUME NEW i \in 0..m
        PROVE  g[i] = IF i = 0 THEN <<>> ELSE g[i - 1] \o ss[i]
    <2>1. CASE i = m
      <3>1. m \in 0..m /\ m - 1 \in 0..m /\ m - 1 # m
        BY <1>2, <1>3, SMTT(60)
      <3>2. g[m] = f[m - 1] \o ss[m] /\ g[m - 1] = f[m - 1]
        BY <3>1
      <3> HIDE DEF g
      <3> QED
        BY <1>3, <2>1, <3>2
    <2>2. CASE i # m
      <3>1. i \in 0..(m - 1) /\ (i # 0 => i - 1 \in 0..m /\ i - 1 # m)
        BY <1>2, <2>2, SMTT(60)
      <3>2. f[i] = IF i = 0 THEN <<>> ELSE f[i - 1] \o ss[i]
        BY <1>5, <3>1
      <3> QED
        BY <2>2, <3>1, <3>2
    <2> QED
      BY <2>1, <2>2
  <1>7. g = G(g, m)
    BY <1>6
  <1> QED
    BY <1>2, <1>7 DEF Exists

\* No item of s comes twice.
Once(s) == \A i, j \in DOMAIN s : s[i] = s[j] => i = j

Apart(s, t) == Range(s) \cap Range(t) = {}

\* The concatenation of two sequences.
LEMMA ConcatFacts ==
  ASSUME NEW S, NEW s \in Seq(S), NEW t \in Seq(S)
  PROVE  /\ s \o t \in Seq(S)
         /\ Range(s \o t) = Range(s) \cup Range(t)
         /\ Once(s \o t) <=> Once(s) /\ Once(t) /\ Apart(s, t)
  <1> DEFINE u == s \o t
  <1>1. u \in Seq(S) /\ Len(u) = Len(s) + Len(t)
    BY SMTT(60)
  <1>2. DOMAIN s = 1..Len(s) /\ DOMAIN t = 1..Len(t) /\ DOMAIN u = 1..Len(u)
    BY SMTT(60)
  <1>3. \A i \in 1..Len(s) : u[i] = s[i] /\ i \in 1..Len(u)
    BY SMTT(60)
  <1>4. \A i \in 1..Len(t) : u[Len(s) + i] = t[i] /\ Len(s) + i \in 1..Len(u)
    BY SMTT(60)
  <1>5. \A i \in 1..Len(u) : i \in 1..Len(s) \/ \E j \in 1..Len(t) : i = Len(s) + j
    <2> TAKE i \in 1..Len(u)
    <2>1. CASE i <= Len(s)
      BY <2>1, SMTT(60)
    <2>2. CASE i > Len(s)
      <3>1. i - Len(s) \in 1..Len(t) /\ i = Len(s) + (i - Len(s))
        BY <1>1, <2>2, SMTT(60)
      <3> QED
        BY <3>1
    <2> QED
      BY <2>1, <2>2, SMTT(60)
  <1> HIDE DEF u
  <1>6. Range(u) = Range(s) \cup Range(t)
    <2>1. ASSUME NEW i \in 1..Len(u) PROVE u[i] \in Range(s) \cup Range(t)
      <3>1. CASE i \in 1..Len(s)
        BY <1>2, <1>3, <3>1 DEF Range
      <3>2. ASSUME NEW j \in 1..Len(t), i = Len(s) + j
            PROVE  u[i] \in Range(t)
        BY <1>2, <1>4, <3>2 DEF Range
      <3> QED
        BY <1>5, <3>1, <3>2
    <2>2. Range(s) \subseteq Range(u)
      BY <1>2, <1>3 DEF Range
    <2>3. Range(t) \subseteq Range(u)
      BY <1>2, <1>4 DEF Range
    <2>4. Range(u) = {u[i] : i \in 1..Len(u)}
      BY <1>2 DEF Range
    <2> QED
      BY <2>1, <2>2, <2>3, <2>4
  <1>7. ASSUME Once(u) PROVE Once(s) /\ Once(t) /\ Apart(s, t)
    <2>1. Once(s)
      BY <1>2, <1>3, <1>7 DEF Once
    <2>2. Once(t)
      <3>1. ASSUME NEW i \in 1..Len(t), NEW j \in 1..Len(t), t[i] = t[j]
            PROVE  i = j
        <4>1. Len(s) + i = Len(s) + j
          BY <1>2, <1>4, <1>7, <3>1 DEF Once
        <4> QED
          BY <4>1, SMTT(60)
      <3> QED
        BY <1>2, <3>1 DEF Once
    <2>3. ASSUME NEW i \in 1..Len(s), NEW j \in 1..Len(t), s[i] = t[j]
          PROVE  FALSE
      <3>1. i = Len(s) + j
        BY <1>2, <1>3, <1>4, <1>7, <2>3 DEF Once
      <3> QED
        BY <3>1, SMTT(60)
    <2> QED
      BY <1>2, <2>1, <2>2, <2>3 DEF Apart, Range
  <1>8. ASSUME Once(s), Once(t), Apart(s, t) PROVE Once(u)
    <2> SUFFICES ASSUME NEW i \in 1..Len(u), NEW j \in 1..Len(u), u[i] = u[j]
                 PROVE  i = j
      BY <1>2 DEF Once
    <2>1. CASE i \in 1..Len(s) /\ j \in 1..Len(s)
      BY <1>2, <1>3, <1>8, <2>1 DEF Once
    <2>2. ASSUME NEW k \in 1..Len(t), NEW l \in 1..Len(t), i = Len(s) + k, j = Len(s) + l
          PROVE  i = j
      BY <1>2, <1>4, <1>8, <2>2 DEF Once
    <2>3. ASSUME NEW k \in 1..Len(t), i = Len(s) + k, j \in 1..Len(s)
          PROVE  FALSE
      BY <1>2, <1>3, <1>4, <1>8, <2>3 DEF Apart, Range
    <2>4. ASSUME NEW k \in 1..Len(t), j = Len(s) + k, i \in 1..Len(s)
          PROVE  FALSE
      BY <1>2, <1>3, <1>4, <1>8, <2>4 DEF Apart, Range
    <2> QED
      BY <1>5, <2>1, <2>2, <2>3, <2>4
  <1> QED
    BY <1>1, <1>6, <1>7, <1>8 DEF u

\* The sequences before the k-th do not share items with each other.
Disjoint(ss, k) ==
  /\ \A i \in 1..k : Once(ss[i])
  /\ \A i, j \in 1..k : i # j => Apart(ss[i], ss[j])

\* Flatten has the items of all, and none twice if they share none.
LEMMA FlattenFacts ==
  ASSUME NEW S, NEW ss \in Seq(Seq(S))
  PROVE  /\ Flatten(ss) \in Seq(S)
         /\ Range(Flatten(ss)) = UNION {Range(ss[i]) : i \in 1..Len(ss)}
         /\ Once(Flatten(ss)) <=> Disjoint(ss, Len(ss))
  <1> DEFINE n == Len(ss)
             flatten == CHOOSE f : f = [i \in 0..n |-> IF i = 0 THEN <<>> ELSE f[i - 1] \o ss[i]]
  <1>1. n \in Nat /\ \A i \in 1..n : ss[i] \in Seq(S)
    BY SMTT(60)
  <1>2. Flatten(ss) = flatten[n]
    BY DEF Flatten
  <1>3. flatten = [i \in 0..n |-> IF i = 0 THEN <<>> ELSE flatten[i - 1] \o ss[i]]
    BY <1>1, FlattenExists
  <1> HIDE DEF flatten
  <1> DEFINE P(k) == /\ flatten[k] \in Seq(S)
                     /\ Range(flatten[k]) = UNION {Range(ss[i]) : i \in 1..k}
                     /\ Once(flatten[k]) <=> Disjoint(ss, k)
             T == {k \in Nat : k \in 0..n /\ ~P(k)}
  <1> HIDE DEF P
  <1>4. T = {}
    <2>1. SUFFICES ASSUME T # {} PROVE FALSE
      OBVIOUS
    <2>2. PICK m \in T : \A k \in T : m <= k
      BY <2>1, LeastNat
    <2>3. CASE m = 0
      <3>1. flatten[0] = <<>> /\ 1..0 = {}
        BY <1>1, <1>3, SMTT(60)
      <3>2. P(0)
        BY <3>1, SMTT(60) DEF P, Range, Once, Disjoint
      <3> QED
        BY <2>2, <2>3, <3>2
    <2>4. CASE m # 0
      <3>1. m \in 1..n /\ m - 1 \in 0..n /\ m - 1 \notin T /\ m - 1 \in Nat
        BY <2>2, <2>4, SMTT(60)
      <3>2. flatten[m] = flatten[m - 1] \o ss[m]
        BY <1>3, <2>4, <3>1
      <3>3. P(m - 1)
        BY <3>1
      <3>4. 1..m = (1..(m - 1)) \cup {m} /\ m \notin 1..(m - 1) /\ ss[m] \in Seq(S)
        BY <1>1, <3>1, SMTT(60)
      <3> DEFINE h == flatten[m - 1]
                 D == 1..(m - 1)
      <3>5. /\ h \in Seq(S)
            /\ Range(h) = UNION {Range(ss[i]) : i \in 1..(m - 1)}
            /\ Once(h) <=> Disjoint(ss, m - 1)
        BY <3>3 DEF P
      <3>6. /\ flatten[m] \in Seq(S)
            /\ Range(flatten[m]) = Range(h) \cup Range(ss[m])
            /\ Once(flatten[m]) <=> Once(h) /\ Once(ss[m]) /\ Apart(h, ss[m])
        BY <3>2, <3>4, <3>5, ConcatFacts, SMTT(60)
      <3>7. Range(h) = UNION {Range(ss[i]) : i \in D} /\ (Once(h) <=> Disjoint(ss, m - 1))
        BY <3>5
      <3> HIDE DEF h, D
      <3>8. Range(flatten[m]) = UNION {Range(ss[i]) : i \in 1..m}
        BY <3>4, <3>6, <3>7 DEF D
      <3>9. Apart(h, ss[m]) <=> \A i \in D : Apart(ss[i], ss[m])
        BY <3>7 DEF Apart
      <3>10. Disjoint(ss, m) <=>
               Disjoint(ss, m - 1) /\ Once(ss[m]) /\ \A i \in D : Apart(ss[i], ss[m])
        BY <3>4 DEF Disjoint, D, Apart
      <3> QED
        BY <2>2, <3>6, <3>7, <3>8, <3>9, <3>10 DEF P
    <2> QED
      BY <2>3, <2>4
  <1>5. P(n)
    BY <1>1, <1>4, SMTT(60)
  <1> QED
    BY <1>2, <1>5 DEF P



\* One item more, at the end.
LEMMA AppendFacts ==
  ASSUME NEW S, NEW s \in Seq(S), NEW x \in S
  PROVE  /\ Append(s, x) \in Seq(S)
         /\ Range(Append(s, x)) = Range(s) \cup {x}
         /\ Once(Append(s, x)) <=> Once(s) /\ x \notin Range(s)
  <1>1. Append(s, x) = s \o <<x>> /\ <<x>> \in Seq(S)
    BY SMTT(60)
  <1>2. Range(<<x>>) = {x} /\ Once(<<x>>)
    BY SMTT(60) DEF Range, Once
  <1>3. /\ Range(s \o <<x>>) = Range(s) \cup Range(<<x>>)
        /\ Once(s \o <<x>>) <=> Once(s) /\ Once(<<x>>) /\ Apart(s, <<x>>)
    BY <1>1, ConcatFacts
  <1> QED
    BY <1>1, <1>2, <1>3, SMTT(60) DEF Apart

\* The first item and the rest.
LEMMA HeadTailFacts ==
  ASSUME NEW S, NEW s \in Seq(S), s # <<>>
  PROVE  /\ Head(s) \in S /\ Tail(s) \in Seq(S)
         /\ Range(s) = Range(Tail(s)) \cup {Head(s)}
         /\ Once(s) <=> Once(Tail(s)) /\ Head(s) \notin Range(Tail(s))
  <1>1. Head(s) \in S /\ Tail(s) \in Seq(S) /\ <<Head(s)>> \in Seq(S)
    BY SMTT(60)
  <1>2. s = <<Head(s)>> \o Tail(s)
    <2> DEFINE u == <<Head(s)>> \o Tail(s)
    <2>1. u \in Seq(S) /\ Len(u) = Len(s)
      BY <1>1, SMTT(60)
    <2>2. \A i \in 1..Len(s) : u[i] = s[i]
      BY <1>1, SMTT(60)
    <2> HIDE DEF u
    <2>3. s = u
      BY <2>1, <2>2, SMTT(60)
    <2> QED
      BY <2>3 DEF u
  <1>3. Range(<<Head(s)>>) = {Head(s)} /\ Once(<<Head(s)>>)
    BY SMTT(60) DEF Range, Once
  <1>4. /\ Range(<<Head(s)>> \o Tail(s)) = Range(<<Head(s)>>) \cup Range(Tail(s))
        /\ Once(<<Head(s)>> \o Tail(s)) <=>
             Once(<<Head(s)>>) /\ Once(Tail(s)) /\ Apart(<<Head(s)>>, Tail(s))
    BY <1>1, ConcatFacts
  <1> QED
    BY <1>1, <1>2, <1>3, <1>4 DEF Apart

\* A batch more in the channel.
LEMMA FlattenAppend ==
  ASSUME NEW S, NEW ss \in Seq(Seq(S)), NEW t \in Seq(S)
  PROVE  /\ Range(Flatten(Append(ss, t))) = Range(Flatten(ss)) \cup Range(t)
         /\ Once(Flatten(Append(ss, t))) <=>
              Once(Flatten(ss)) /\ Once(t) /\ Apart(Flatten(ss), t)
  <1> DEFINE uu == Append(ss, t)
             n == Len(ss)
             A == Range(Flatten(ss))
  <1>1. uu \in Seq(Seq(S)) /\ Len(uu) = n + 1 /\ n \in Nat
    BY SMTT(60)
  <1>2. 1..(n + 1) = (1..n) \cup {n + 1} /\ n + 1 \notin 1..n
    BY <1>1, SMTT(60)
  <1>3. uu[n + 1] = t /\ \A i \in 1..n : uu[i] = ss[i]
    BY SMTT(60)
  <1>4. /\ A = UNION {Range(ss[i]) : i \in 1..n}
        /\ Once(Flatten(ss)) <=> Disjoint(ss, n)
    BY FlattenFacts
  <1>5. /\ Range(Flatten(uu)) = UNION {Range(uu[i]) : i \in 1..(n + 1)}
        /\ Once(Flatten(uu)) <=> Disjoint(uu, n + 1)
    BY <1>1, FlattenFacts
  <1> HIDE DEF uu, n, A
  <1>6. Range(Flatten(uu)) = A \cup Range(t)
    BY <1>2, <1>3, <1>4, <1>5
  <1>7. A \cap Range(t) = {} <=> \A i \in 1..n : Apart(ss[i], t)
    BY <1>4 DEF Apart
  <1>8. ASSUME Disjoint(uu, n + 1)
        PROVE  Disjoint(ss, n) /\ Once(t) /\ \A i \in 1..n : Apart(ss[i], t)
    BY <1>2, <1>3, <1>8 DEF Disjoint
  <1>9. ASSUME Disjoint(ss, n), Once(t), \A i \in 1..n : Apart(ss[i], t)
        PROVE  Disjoint(uu, n + 1)
    <2>1. \A i \in 1..(n + 1) : Once(uu[i])
      BY <1>2, <1>3, <1>9 DEF Disjoint
    <2>2. ASSUME NEW i \in 1..(n + 1), NEW j \in 1..(n + 1), i # j
          PROVE  Apart(uu[i], uu[j])
      <3>1. CASE i \in 1..n /\ j \in 1..n
        BY <1>3, <1>9, <2>2, <3>1 DEF Disjoint
      <3>2. CASE i = n + 1 /\ j \in 1..n
        BY <1>3, <1>9, <3>2 DEF Apart
      <3>3. CASE j = n + 1 /\ i \in 1..n
        BY <1>3, <1>9, <3>3
      <3> QED
        BY <1>2, <2>2, <3>1, <3>2, <3>3
    <2> QED
      BY <2>1, <2>2 DEF Disjoint
  <1> QED
    BY <1>4, <1>5, <1>6, <1>7, <1>8, <1>9 DEF A, uu, Apart

\* The first batch of the channel and the others.
LEMMA FlattenHeadTail ==
  ASSUME NEW S, NEW ss \in Seq(Seq(S)), ss # <<>>
  PROVE  /\ Head(ss) \in Seq(S) /\ Tail(ss) \in Seq(Seq(S))
         /\ Range(Flatten(ss)) = Range(Flatten(Tail(ss))) \cup Range(Head(ss))
         /\ Once(Flatten(ss)) <=>
              Once(Flatten(Tail(ss))) /\ Once(Head(ss)) /\ Apart(Flatten(Tail(ss)), Head(ss))
  <1> DEFINE uu == Tail(ss)
             n == Len(uu)
             t == Head(ss)
             A == Range(Flatten(uu))
  <1>1. t \in Seq(S) /\ uu \in Seq(Seq(S)) /\ Len(ss) = n + 1 /\ n \in Nat
    BY SMTT(60)
  <1>2. /\ \A i \in 1..n : i + 1 \in 1..(n + 1) /\ i + 1 # 1 /\ ss[i + 1] = uu[i]
        /\ 1 \in 1..(n + 1) /\ ss[1] = t
    BY <1>1, SMTT(60)
  <1>3. \A i \in 1..(n + 1) : i = 1 \/ \E j \in 1..n : i = j + 1
    <2> TAKE i \in 1..(n + 1)
    <2>1. i # 1 => i - 1 \in 1..n /\ i = (i - 1) + 1
      BY <1>1, SMTT(60)
    <2> QED
      BY <2>1
  <1>4. /\ A = UNION {Range(uu[i]) : i \in 1..n}
        /\ Once(Flatten(uu)) <=> Disjoint(uu, n)
    BY <1>1, FlattenFacts
  <1>5. /\ Range(Flatten(ss)) = UNION {Range(ss[i]) : i \in 1..(n + 1)}
        /\ Once(Flatten(ss)) <=> Disjoint(ss, n + 1)
    BY <1>1, FlattenFacts
  <1>6. \A i, j \in 1..n : i + 1 = j + 1 => i = j
    BY <1>1, SMTT(60)
  <1> HIDE DEF uu, n, t, A
  <1>7. Range(Flatten(ss)) = A \cup Range(t)
    <2>1. ASSUME NEW i \in 1..(n + 1) PROVE Range(ss[i]) \subseteq A \cup Range(t)
      BY <1>2, <1>3, <1>4, SMTT(60)
    <2>2. ASSUME NEW i \in 1..n PROVE Range(uu[i]) \subseteq Range(Flatten(ss))
      BY <1>2, <1>5
    <2>3. Range(t) \subseteq Range(Flatten(ss))
      BY <1>2, <1>5
    <2> QED
      BY <1>4, <1>5, <2>1, <2>2, <2>3
  <1>8. A \cap Range(t) = {} <=> \A i \in 1..n : Apart(uu[i], t)
    BY <1>4 DEF Apart
  <1>9. ASSUME Disjoint(ss, n + 1)
        PROVE  Disjoint(uu, n) /\ Once(t) /\ \A i \in 1..n : Apart(uu[i], t)
    BY <1>2, <1>6, <1>9 DEF Disjoint
  <1>10. ASSUME Disjoint(uu, n), Once(t), \A i \in 1..n : Apart(uu[i], t)
         PROVE  Disjoint(ss, n + 1)
    <2>1. \A i \in 1..(n + 1) : Once(ss[i])
      BY <1>2, <1>3, <1>10 DEF Disjoint
    <2>2. ASSUME NEW i \in 1..(n + 1), NEW j \in 1..(n + 1), i # j
          PROVE  Apart(ss[i], ss[j])
      <3>1. CASE i = 1
        BY <1>2, <1>3, <1>10, <2>2, <3>1, SMTT(60) DEF Apart
      <3>2. CASE j = 1
        BY <1>2, <1>3, <1>10, <2>2, <3>2 DEF Apart
      <3>3. CASE i # 1 /\ j # 1
        BY <1>2, <1>3, <1>10, <2>2, <3>3 DEF Disjoint
      <3> QED
        BY <3>1, <3>2, <3>3
    <2> QED
      BY <2>1, <2>2 DEF Disjoint
  <1> QED
    BY <1>1, <1>4, <1>5, <1>7, <1>8, <1>9, <1>10 DEF A, uu, t, Apart

\* Without keeps the items that are not in D, each once if it came once.
LEMMA WithoutFacts ==
  ASSUME NEW S, NEW s \in Seq(S), NEW D
  PROVE  /\ Without(s, D) \in Seq(S)
         /\ Range(Without(s, D)) = Range(s) \ D
         /\ Once(s) => Once(Without(s, D))
  <1> DEFINE uu == [i \in DOMAIN s |-> IF s[i] \in D THEN <<>> ELSE <<s[i]>>]
             n == Len(s)
  <1>1. DOMAIN s = 1..n /\ n \in Nat /\ \A i \in 1..n : s[i] \in S
    BY SMTT(60)
  <1>2. \A i \in 1..n : uu[i] \in Seq(S)
    BY <1>1, SMTT(60)
  <1>3. uu \in Seq(Seq(S)) /\ Len(uu) = n
    BY <1>1, <1>2, SMTT(60)
  <1>4. \A i \in 1..n : Range(uu[i]) = (IF s[i] \in D THEN {} ELSE {s[i]}) /\ Once(uu[i])
    BY <1>1, SMTT(60) DEF Range, Once
  <1>5. Without(s, D) = Flatten(uu)
    BY DEF Without
  <1> HIDE DEF uu
  <1>6. /\ Flatten(uu) \in Seq(S)
        /\ Range(Flatten(uu)) = UNION {Range(uu[i]) : i \in 1..n}
        /\ Once(Flatten(uu)) <=> Disjoint(uu, n)
    BY <1>3, FlattenFacts
  <1>7. Range(s) = {s[i] : i \in 1..n}
    BY <1>1 DEF Range
  <1> HIDE DEF n
  <1>8. UNION {Range(uu[i]) : i \in 1..n} = {s[i] : i \in 1..n} \ D
    <2>1. ASSUME NEW i \in 1..n PROVE Range(uu[i]) \subseteq {s[j] : j \in 1..n} \ D
      BY <1>4
    <2>2. ASSUME NEW i \in 1..n, s[i] \notin D PROVE s[i] \in Range(uu[i])
      BY <1>4, <2>2
    <2> QED
      BY <2>1, <2>2
  <1>9. ASSUME Once(s) PROVE Disjoint(uu, n)
    <2>1. ASSUME NEW i \in 1..n, NEW j \in 1..n, i # j
          PROVE  Apart(uu[i], uu[j])
      <3>1. s[i] # s[j]
        BY <1>1, <1>9, <2>1 DEF Once
      <3>2. Range(uu[i]) \subseteq {s[i]} /\ Range(uu[j]) \subseteq {s[j]}
        BY <1>4
      <3> QED
        BY <3>1, <3>2 DEF Apart
    <2> QED
      BY <1>4, <2>1 DEF Disjoint
  <1> QED
    BY <1>5, <1>6, <1>7, <1>8, <1>9

\* The end of a sequence.
LEMMA SuffixFacts ==
  ASSUME NEW S, NEW s \in Seq(S), NEW a \in Nat, a <= Len(s)
  PROVE  /\ SubSeq(s, a + 1, Len(s)) \in Seq(S)
         /\ Len(SubSeq(s, a + 1, Len(s))) = Len(s) - a
         /\ \A i \in 1..(Len(s) - a) : SubSeq(s, a + 1, Len(s))[i] = s[a + i]
         /\ Range(SubSeq(s, a + 1, Len(s))) = {s[i] : i \in (a + 1)..Len(s)}
         /\ Once(s) => Once(SubSeq(s, a + 1, Len(s)))
  <1> DEFINE u == SubSeq(s, a + 1, Len(s))
             n == Len(s)
  <1>1. n \in Nat /\ DOMAIN s = 1..n
    BY SMTT(60)
  <1>2. u \in Seq(S) /\ Len(u) = n - a
    BY SMTT(60)
  <1>3. \A i \in 1..(n - a) : u[i] = s[a + i] /\ a + i \in (a + 1)..n
    <2> TAKE i \in 1..(n - a)
    <2> QED BY SMTT(60)
  <1>4. \A j \in (a + 1)..n : j - a \in 1..(n - a) /\ a + (j - a) = j
    BY SMTT(60)
  <1>5. DOMAIN u = 1..(n - a)
    BY <1>2, SMTT(60)
  <1> HIDE DEF u, n
  <1>6. Range(u) = {u[i] : i \in 1..(n - a)}
    BY <1>5 DEF Range
  <1>7. Range(u) = {s[i] : i \in (a + 1)..n}
    <2>1. \A j \in (a + 1)..n : s[j] \in Range(u)
      BY <1>3, <1>4, <1>6
    <2> QED
      BY <1>3, <1>6, <2>1, SMTT(60)
  <1>8. ASSUME Once(s) PROVE Once(u)
    <2> SUFFICES ASSUME NEW i \in 1..(n - a), NEW j \in 1..(n - a), u[i] = u[j]
                 PROVE  i = j
      BY <1>5 DEF Once
    <2>1. a + i \in 1..n /\ a + j \in 1..n
      BY <1>1, SMTT(60)
    <2>2. a + i = a + j
      BY <1>1, <1>3, <1>8, <2>1 DEF Once
    <2> QED
      BY <2>2, SMTT(60)
  <1> QED
    BY <1>2, <1>3, <1>7, <1>8 DEF u, n

\* What it holds.
LEMMA SuffixRange ==
  ASSUME NEW S, NEW s \in Seq(S), NEW a \in Nat, a <= Len(s)
  PROVE  Range(SubSeq(s, a + 1, Len(s))) = {s[i] : i \in (a + 1)..Len(s)}
  BY SuffixFacts, SMTT(60)

-----------------------------------------------------------------------------
(* Every finish transaction is in one place *)

\* Of n finish transactions each is in one of the six places p or in D, nothing
\* else is in a place, and none is in two places or twice in one, unless sh.
Good(p, n, D, sh) ==
  /\ \A r \in 1..n : r \in D \/ \E k \in 1..6 : r \in Range(p[k])
  /\ \A k \in 1..6 : Range(p[k]) \subseteq 1..n
  /\ sh = FALSE => Disjoint(p, 6)

\* Items move between the places a and b, and may leave them for E.
LEMMA GoodMove ==
  ASSUME NEW p, NEW q, NEW n, NEW D, NEW E, NEW sh,
         NEW a \in 1..6, NEW b \in 1..6,
         Good(p, n, D, sh), D \subseteq E,
         \A k \in 1..6 : k # a /\ k # b => q[k] = p[k],
         Range(q[a]) \cup Range(q[b]) \subseteq Range(p[a]) \cup Range(p[b]),
         Range(p[a]) \cup Range(p[b]) \subseteq Range(q[a]) \cup Range(q[b]) \cup E,
         Disjoint(p, 6) => Once(q[a]) /\ Once(q[b]) /\ (a # b => Apart(q[a], q[b]))
  PROVE  Good(q, n, E, sh)
  <1>1. ASSUME NEW r \in 1..n
        PROVE  r \in E \/ \E k \in 1..6 : r \in Range(q[k])
    <2>1. CASE r \in D
      BY <2>1
    <2>2. ASSUME NEW k \in 1..6, r \in Range(p[k])
          PROVE  r \in E \/ \E l \in 1..6 : r \in Range(q[l])
      <3>1. CASE k # a /\ k # b
        BY <2>2, <3>1
      <3>2. CASE k = a \/ k = b
        BY <2>2, <3>2
      <3> QED
        BY <3>1, <3>2
    <2> QED
      BY <2>1, <2>2 DEF Good
  <1>2. ASSUME NEW k \in 1..6
        PROVE  Range(q[k]) \subseteq 1..n
    <2>1. Range(p[k]) \subseteq 1..n /\ Range(p[a]) \subseteq 1..n /\ Range(p[b]) \subseteq 1..n
      BY DEF Good
    <2> QED
      BY <2>1
  <1>3. ASSUME Disjoint(p, 6)
        PROVE  Disjoint(q, 6)
    <2>1. \A k \in 1..6 : Once(q[k])
      BY <1>3 DEF Disjoint
    <2>2. ASSUME NEW k \in 1..6, NEW l \in 1..6, k # l
          PROVE  Apart(q[k], q[l])
      <3>1. \A i, j \in 1..6 : i # j => Range(p[i]) \cap Range(p[j]) = {}
        BY <1>3 DEF Disjoint, Apart
      <3>2. CASE k \notin {a, b} /\ l \notin {a, b}
        BY <2>2, <3>1, <3>2 DEF Apart
      <3>3. CASE k \in {a, b} /\ l \notin {a, b}
        <4>1. Range(p[a]) \cap Range(p[l]) = {} /\ Range(p[b]) \cap Range(p[l]) = {}
          BY <3>1, <3>3
        <4>2. q[l] = p[l] /\ Range(q[k]) \subseteq Range(p[a]) \cup Range(p[b])
          BY <3>3
        <4> QED
          BY <4>1, <4>2 DEF Apart
      <3>4. CASE k \notin {a, b} /\ l \in {a, b}
        <4>1. Range(p[a]) \cap Range(p[k]) = {} /\ Range(p[b]) \cap Range(p[k]) = {}
          BY <3>1, <3>4
        <4>2. q[k] = p[k] /\ Range(q[l]) \subseteq Range(p[a]) \cup Range(p[b])
          BY <3>4
        <4> QED
          BY <4>1, <4>2 DEF Apart
      <3>5. CASE k \in {a, b} /\ l \in {a, b}
        BY <1>3, <2>2, <3>5, SMTT(60) DEF Apart
      <3> QED
        BY <3>2, <3>3, <3>4, <3>5
    <2> QED
      BY <2>1, <2>2 DEF Disjoint
  <1> QED
    BY <1>1, <1>2, <1>3 DEF Good

\* Every place may lose items to E.
LEMMA GoodShrink ==
  ASSUME NEW p, NEW q, NEW n, NEW D, NEW E, NEW sh, Good(p, n, D, sh), D \subseteq E,
         \A k \in 1..6 : Range(q[k]) \subseteq Range(p[k]),
         \A k \in 1..6 : Range(p[k]) \subseteq Range(q[k]) \cup E,
         \A k \in 1..6 : Once(p[k]) => Once(q[k])
  PROVE  Good(q, n, E, sh)
  <1>1. ASSUME NEW r \in 1..n
        PROVE  r \in E \/ \E k \in 1..6 : r \in Range(q[k])
    BY DEF Good
  <1>2. \A k \in 1..6 : Range(q[k]) \subseteq 1..n
    BY DEF Good
  <1>3. ASSUME Disjoint(p, 6)
        PROVE  Disjoint(q, 6)
    <2>1. ASSUME NEW k \in 1..6, NEW l \in 1..6, k # l
          PROVE  Apart(q[k], q[l])
      BY <1>3, <2>1 DEF Disjoint, Apart
    <2> QED
      BY <1>3, <2>1 DEF Disjoint
  <1> QED
    BY <1>1, <1>2, <1>3 DEF Good

\* More items come into the place a, which was empty.
LEMMA GoodNew ==
  ASSUME NEW p, NEW q, NEW n \in Nat, NEW m \in Nat, NEW D, NEW sh, NEW a \in 1..6,
         Good(p, n, D, sh), n <= m, Range(p[a]) = {},
         \A k \in 1..6 : k # a => q[k] = p[k],
         Range(q[a]) = (n + 1)..m, Once(q[a])
  PROVE  Good(q, m, D, sh)
  <1>1. 1..m = (1..n) \cup ((n + 1)..m) /\ (1..n) \cap ((n + 1)..m) = {}
    BY SMTT(60)
  <1>2. \A k \in 1..6 : Range(p[k]) \subseteq 1..n
    BY DEF Good
  <1>3. ASSUME NEW r \in 1..m
        PROVE  r \in D \/ \E k \in 1..6 : r \in Range(q[k])
    BY <1>1 DEF Good
  <1>4. \A k \in 1..6 : Range(q[k]) \subseteq 1..m
    BY <1>1, <1>2
  <1>5. ASSUME Disjoint(p, 6)
        PROVE  Disjoint(q, 6)
    <2>1. ASSUME NEW k \in 1..6, NEW l \in 1..6, k # l
          PROVE  Apart(q[k], q[l])
      BY <1>1, <1>2, <1>5, <2>1 DEF Disjoint, Apart
    <2> QED
      BY <1>5, <2>1 DEF Disjoint
  <1> QED
    BY <1>3, <1>4, <1>5 DEF Good

\* The places stay as they are.
LEMMA GoodSame ==
  ASSUME NEW p, NEW n, NEW D, NEW E, NEW s, NEW t, Good(p, n, D, s), D \subseteq E,
         t = FALSE => s = FALSE
  PROVE  Good(p, n, E, t)
  BY DEF Good

\* The place a is written over, and what is gone from it is in D.
LEMMA GoodReplace ==
  ASSUME NEW p, NEW q, NEW n, NEW D, NEW a \in 1..6, Good(p, n, D, TRUE),
         \A k \in 1..6 : k # a => q[k] = p[k],
         Range(q[a]) \subseteq 1..n, Range(p[a]) \subseteq Range(q[a]) \cup D
  PROVE  Good(q, n, D, TRUE)
  <1>1. ASSUME NEW r \in 1..n
        PROVE  r \in D \/ \E k \in 1..6 : r \in Range(q[k])
    <2>1. ASSUME NEW k \in 1..6, r \in Range(p[k])
          PROVE  r \in D \/ r \in Range(q[k])
      BY <2>1
    <2> QED
      BY <2>1 DEF Good
  <1> QED
    BY <1>1 DEF Good

\* Where the two goroutines are and what they hold; and whose item it is that is
\* between the two writes of Push.
Control ==
  /\ submitted \in Nat /\ shifted \in BOOLEAN
  /\ handler \in [pc : {"wait", "demote", "send"}, todo : Seq(Item), failure : Seq(Item)]
  /\ handler.pc = "wait" => handler.todo = <<>> /\ handler.failure = <<>>
  /\ handler.pc = "send" => handler.todo = <<>>
  /\ submitCh \in Seq(Seq(Item))
  /\ exe \in [pc : {"select", "add", "sign", "bump", "pop", "promote", "drain", "stopped"},
              txs : Seq(Item), first : Nat, idles : Nat]
  /\ exe.pc \in {"drain", "stopped"} => handler.pc = "wait"
  /\ exe.pc \in {"select", "stopped"} => exe.txs = <<>>
  /\ op.kind = "pop" => exe.pc = "pop" /\ exe.idles > 0
  /\ op.kind = "push" =>
       /\ slots[writePosition] = op.item
       /\ \/ handler.pc = "demote" /\ handler.todo # <<>> /\ op.item = Head(handler.todo)
          \/ exe.pc = "drain" /\ exe.txs # <<>> /\ op.item = Head(exe.txs)

\* The transaction of nonce m in the pool.
At(m) == pool.txs[m - pool.first + 1]

\* What the loop holds, and what is in the pool and not yet in a block.
Loop == IF exe.pc \in {"add", "pop", "promote", "drain"} THEN exe.txs ELSE <<>>
Unmined == SubSeq(pool.txs, nonce - pool.first + 1, Len(pool.txs))

\* What the loop has read from the pool is still so when it writes: the next free
\* nonce is the same, and what it signs again is what the pool has, except where a
\* signature failed.
Nonces ==
  /\ pool \in [first : Nat, txs : Seq(Item)]
  /\ nonce \in Nat /\ pool.first <= nonce /\ nonce <= GetNonce
  /\ exe.pc \in {"add", "pop", "promote"} => exe.first = GetNonce
  /\ exe.pc = "sign" =>
       /\ exe.first <= pool.first /\ exe.first + Len(exe.txs) = GetNonce
       /\ \A m \in pool.first..(GetNonce - 1) : exe.txs[m - exe.first + 1] = At(m)
  /\ exe.pc = "bump" =>
       /\ exe.first + Len(exe.txs) <= GetNonce
       /\ \A m \in pool.first..(GetNonce - 1) :
            m - exe.first + 1 \in DOMAIN exe.txs =>
              \/ exe.txs[m - exe.first + 1] = At(m)
              \/ shifted = TRUE /\ At(m) \in excused

\* Nothing but what the handler was given is in the loop and in the pool.
Given == Range(exe.txs) \subseteq 1..submitted /\ Range(pool.txs) \subseteq 1..submitted

\* Every finish transaction that was submitted is done, excused or in one place.
Placed == Good(Places, submitted, done \cup excused, shifted)

ExecutorInv == QueueInv /\ Control /\ Nonces /\ Given /\ Placed

-----------------------------------------------------------------------------
(* The pool *)

\* A prefix.
LEMMA AtMostFacts ==
  ASSUME NEW S, NEW s \in Seq(S), NEW n \in Nat
  PROVE  /\ AtMost(n, s) \in Seq(S)
         /\ Len(AtMost(n, s)) = IF Len(s) < n THEN Len(s) ELSE n
         /\ \A i \in 1..Len(AtMost(n, s)) : AtMost(n, s)[i] = s[i]
  <1> DEFINE k == IF Len(s) < n THEN Len(s) ELSE n
  <1>1. k \in 0..Len(s)
    BY SMTT(60)
  <1>2. AtMost(n, s) = SubSeq(s, 1, k)
    BY DEF AtMost
  <1> HIDE DEF k
  <1>3. /\ SubSeq(s, 1, k) \in Seq(S) /\ Len(SubSeq(s, 1, k)) = k
        /\ \A i \in 1..k : SubSeq(s, 1, k)[i] = s[i]
    BY <1>1, SMTT(60)
  <1> QED
    BY <1>2, <1>3 DEF k

\* What is not packed yet, when the loop signs.
LEMMA SignFacts ==
  ASSUME Control, Nonces, exe.pc = "sign"
  PROVE  /\ Packed \in Nat /\ Packed <= Len(exe.txs)
         /\ exe.first + Packed \in Nat
         /\ Unpacked \in Seq(Item) /\ Len(Unpacked) = Len(exe.txs) - Packed
         /\ \A i \in 1..Len(Unpacked) : Unpacked[i] = exe.txs[Packed + i]
         /\ AtMost(AccountSlots, Unpacked) \in Seq(Item)
  <1>1. exe.first \in Nat /\ exe.txs \in Seq(Item) /\ nonce \in Nat /\ Len(exe.txs) \in Nat
    BY SMTT(60) DEF Control, Nonces
  <1>2. nonce <= exe.first + Len(exe.txs)
    BY DEF Nonces
  <1>3. Packed \in Nat /\ Packed <= Len(exe.txs)
    BY <1>1, <1>2, SMTT(60) DEF Packed
  <1>4. /\ Unpacked \in Seq(Item) /\ Len(Unpacked) = Len(exe.txs) - Packed
        /\ \A i \in 1..Len(Unpacked) : Unpacked[i] = exe.txs[Packed + i]
    BY <1>1, <1>3, SuffixFacts, SMTT(60) DEF Unpacked
  <1>5. AccountSlots \in Nat
    BY ExecutorAssumption
  <1> QED
    BY <1>1, <1>3, <1>4, <1>5, AtMostFacts, SMTT(60)

\* What is signed when signing fails for the k-th.
LEMMA SignFailsFacts ==
  ASSUME NEW S, NEW u \in Seq(S), NEW k \in DOMAIN u, NEW n \in Nat
  PROVE  LET signed == AtMost(n, Skip(u, k))
         IN  /\ signed \in Seq(S) /\ Len(signed) <= Len(u) - 1
             /\ \A i \in 1..Len(signed) :
                  signed[i] = IF i < k THEN u[i] ELSE u[i + 1]
  <1> DEFINE a == SubSeq(u, 1, k - 1)
             b == SubSeq(u, k + 1, Len(u))
             r == Skip(u, k)
             signed == AtMost(n, r)
  <1>1. k \in 1..Len(u) /\ Len(u) \in Nat
    BY SMTT(60)
  <1>2. a \in Seq(S) /\ Len(a) = k - 1 /\ \A i \in 1..(k - 1) : a[i] = u[i]
    BY <1>1, SMTT(60)
  <1>3. /\ b \in Seq(S) /\ Len(b) = Len(u) - k
        /\ \A i \in 1..(Len(u) - k) : b[i] = u[k + i]
    BY <1>1, SuffixFacts, SMTT(60)
  <1>4. r = a \o b
    BY DEF Skip
  <1> HIDE DEF a, b
  <1>5. r \in Seq(S) /\ Len(r) = Len(u) - 1
    BY <1>1, <1>2, <1>3, <1>4, SMTT(60)
  <1>6. ASSUME NEW i \in 1..Len(r)
        PROVE  r[i] = IF i < k THEN u[i] ELSE u[i + 1]
    <2>1. CASE i < k
      BY <1>1, <1>2, <1>3, <1>4, <2>1, SMTT(60)
    <2>2. CASE i >= k
      <3>1. i - (k - 1) \in 1..(Len(u) - k) /\ k + (i - (k - 1)) = i + 1
        BY <1>1, <1>5, <2>2, SMTT(60)
      <3>2. r[i] = b[i - (k - 1)]
        <4>2. PICK j \in 1..Len(b) : i = Len(a) + j
          <5>1. Len(a) = k - 1 /\ Len(b) = Len(u) - k
            BY <1>2, <1>3
          <5>2. i = (k - 1) + (i - (k - 1))
            BY <1>1, <1>5, SMTT(60)
          <5> QED
            BY <3>1, <5>1, <5>2
        <4>1. a \in Seq(S) /\ b \in Seq(S)
          BY <1>2, <1>3
        <4>3. (a \o b)[Len(a) + j] = b[j]
          BY ONLY <4>1, <4>2, SMTT(60)
        <4>4. j = i - (k - 1)
          BY <1>1, <1>2, <1>3, <4>2, SMTT(60)
        <4> QED
          BY <1>2, <1>3, <1>4, <4>2, <4>3, <4>4
      <3>3. b[i - (k - 1)] = u[k + (i - (k - 1))]
        BY <1>3, <3>1
      <3> QED
        BY <1>1, <2>2, <3>1, <3>2, <3>3, SMTT(60)
    <2> QED
      BY <1>1, <2>1, <2>2, SMTT(60)
  <1> HIDE DEF r
  <1>7. /\ signed \in Seq(S) /\ Len(signed) \in Nat /\ Len(signed) <= Len(r)
        /\ \A i \in 1..Len(signed) : signed[i] = r[i]
    <2>1. /\ signed \in Seq(S)
          /\ Len(signed) = IF Len(r) < n THEN Len(r) ELSE n
          /\ \A i \in 1..Len(signed) : signed[i] = r[i]
      BY <1>5, AtMostFacts
    <2> QED
      BY <1>5, <2>1, SMTT(60)
  <1> HIDE DEF signed
  <1>8. \A i \in 1..Len(signed) : i \in 1..Len(r)
    BY <1>5, <1>7, SMTT(60)
  <1>9. Len(signed) <= Len(u) - 1
    BY <1>5, <1>7
  <1>10. \A i \in 1..Len(signed) : signed[i] = IF i < k THEN u[i] ELSE u[i + 1]
    BY <1>6, <1>7, <1>8
  <1> QED
    BY <1>7, <1>9, <1>10 DEF signed, r

\* What the pool is when txs were added to p with the nonces from n.
Added(q, p, n, txs) ==
  /\ q \in [first : Nat, txs : Seq(Item)]
  /\ q.first = p.first
  /\ Len(q.txs) = IF p.first + Len(p.txs) < n + Len(txs) THEN n + Len(txs) - p.first
                                                         ELSE Len(p.txs)
  /\ \A i \in 1..Len(q.txs) :
       q.txs[i] = IF p.first + i - n \in 1..Len(txs) THEN txs[p.first + i - n] ELSE p.txs[i]

\* The pool after AddLocals: it does not shrink, and a nonce has the new one, if
\* there is one, or what it had.
LEMMA AddLocalsFacts ==
  ASSUME NEW p \in [first : Nat, txs : Seq(Item)], NEW n \in Nat, NEW txs \in Seq(Item),
         n <= p.first + Len(p.txs)
  PROVE  Added(AddLocals(p, n, txs), p, n, txs)
  <1> DEFINE a == p.first + Len(p.txs)
             b == n + Len(txs)
             end == Max({a, b})
             t == [i \in 1..(end - p.first) |->
                     IF p.first + i - n \in DOMAIN txs THEN txs[p.first + i - n] ELSE p.txs[i]]
  <1>1. a \in Nat /\ b \in Nat /\ p.first \in Nat /\ Len(p.txs) \in Nat /\ Len(txs) \in Nat
        /\ DOMAIN txs = 1..Len(txs) /\ p.txs \in Seq(Item)
    BY SMTT(60)
  <1>2. end = IF a < b THEN b ELSE a
    <2> HIDE DEF a, b
    <2>1. \E x \in {a, b} : \A y \in {a, b} : x >= y
      BY <1>1, SMTT(60)
    <2>2. end \in {a, b} /\ \A y \in {a, b} : end >= y
      BY <2>1 DEF Max
    <2> QED
      BY <1>1, <2>2, SMTT(60)
  <1>3. AddLocals(p, n, txs) = [p EXCEPT !.txs = t]
    BY DEF AddLocals
  <1> HIDE DEF end
  <1>4. end - p.first \in Nat /\ a <= end /\ b <= end
    BY <1>1, <1>2, SMTT(60)
  <1>5. ASSUME NEW i \in 1..(end - p.first)
        PROVE  (IF p.first + i - n \in DOMAIN txs THEN txs[p.first + i - n] ELSE p.txs[i]) \in Item
    <2>1. CASE p.first + i - n \in DOMAIN txs
      BY <2>1, SMTT(60)
    <2>2. CASE p.first + i - n \notin DOMAIN txs
      <3>1. i \in 1..Len(p.txs)
        BY <1>1, <1>2, <1>4, <2>2, SMTT(60)
      <3> QED
        BY <1>1, <2>2, <3>1, SMTT(60)
    <2> QED
      BY <2>1, <2>2
  <1>6. t \in Seq(Item) /\ Len(t) = end - p.first
    <2>1. PICK len \in Nat : len = end - p.first
      BY <1>4
    <2>2. t \in [1..len -> Item]
      BY <1>5, <2>1
    <2> HIDE DEF t
    <2> QED
      BY <2>1, <2>2, SMTT(60)
  <1>7. \A i \in 1..Len(t) :
          t[i] = IF p.first + i - n \in 1..Len(txs) THEN txs[p.first + i - n] ELSE p.txs[i]
    BY <1>1, <1>6
  <1>8. Len(t) = IF a < b THEN b - p.first ELSE Len(p.txs)
    BY <1>1, <1>2, <1>6, SMTT(60)
  <1> HIDE DEF t
  <1>9. /\ [p EXCEPT !.txs = t] \in [first : Nat, txs : Seq(Item)]
        /\ [p EXCEPT !.txs = t].first = p.first /\ [p EXCEPT !.txs = t].txs = t
    BY <1>6
  <1> QED
    BY <1>3, <1>7, <1>8, <1>9, SMTT(60) DEF Added

-----------------------------------------------------------------------------
(* The goroutines *)

\* The steps of the handler, which demotes or sends what it was given.
LEMMA HandlerControl ==
  ASSUME Control, QueueInv,
         \/ \E n \in 1..MaxBatch : SubmitTransaction(n)
         \/ HandlerStep \/ DemoteFails
  PROVE  Control'
  <1>1. ASSUME NEW n \in 1..MaxBatch, SubmitTransaction(n)
        PROVE  Control'
    <2> DEFINE rtxs == [i \in 1..n |-> submitted + i]
    <2>1. n \in Nat /\ submitted \in Nat
      BY SMTT(60) DEF Control
    <2>2. \A i \in 1..n : submitted + i \in Item
      BY <1>1, <2>1, ExecutorAssumption, SMTT(60) DEF SubmitTransaction
    <2>3. rtxs \in Seq(Item)
      BY <2>1, <2>2, SMTT(60)
    <2>4. \/ handler' = [pc |-> "demote", todo |-> rtxs, failure |-> <<>>]
          \/ handler' = [pc |-> "send", todo |-> <<>>, failure |-> rtxs]
      BY <1>1 DEF SubmitTransaction
    <2>5. /\ submitted' \in Nat /\ submitCh' = submitCh /\ exe' = exe /\ shifted' = shifted
          /\ op' = op /\ slots' = slots /\ writePosition' = writePosition
          /\ exe.pc \notin {"drain", "stopped"} /\ handler.pc = "wait"
      BY <1>1, <2>1, SMTT(60) DEF SubmitTransaction, queueVars, Running
    <2> HIDE DEF rtxs
    <2> QED
      BY <2>3, <2>4, <2>5, SMTT(60) DEF Control
  <1>2. CASE DemoteItem
    BY <1>2 DEF DemoteItem, PushItem, put, Control, history, Idle
  <1>3. CASE DemotePosition
    <2>1. Tail(handler.todo) \in Seq(Item)
      BY <1>3, HeadTailFacts DEF DemotePosition, Control
    <2>2. /\ handler' \in [pc : {"wait", "demote", "send"}, todo : Seq(Item),
                           failure : Seq(Item)]
          /\ handler'.pc = "demote" /\ handler.pc = "demote"
      BY <1>3, <2>1 DEF DemotePosition, Control
    <2> QED
      BY <1>3, <2>2 DEF DemotePosition, PushPosition, Control, history, Idle
  <1>4. CASE DemoteDone
    BY <1>4 DEF DemoteDone, queueVars, Control, history, Waiting
  <1>5. CASE Send
    BY <1>5, SMTT(60) DEF Send, queueVars, Control, history, Waiting
  <1>6. CASE DemoteFails
    <2>1. /\ Tail(handler.todo) \in Seq(Item)
          /\ Append(handler.failure, Head(handler.todo)) \in Seq(Item)
      BY <1>6, HeadTailFacts, SMTT(60) DEF DemoteFails, Control
    <2>2. /\ handler' \in [pc : {"wait", "demote", "send"}, todo : Seq(Item),
                           failure : Seq(Item)]
          /\ handler'.pc = "demote" /\ handler.pc = "demote"
      BY <1>6, <2>1 DEF DemoteFails, Control
    <2> QED
      BY <1>6, <2>2 DEF DemoteFails, PushFails, Control, history, Idle
  <1> QED
    BY <1>1, <1>2, <1>3, <1>4, <1>5, <1>6 DEF HandlerStep

\* The steps of the loop that take a batch or look at the pool.
LEMMA LoopControl ==
  ASSUME Control, Nonces, QueueInv,
         \/ TakeBatch \/ TakeBatchUnsigned \/ AddBatch \/ PromoteTransaction
         \/ SignAgain \/ Bump \/ \E k \in 1..AccountSlots : SignAgainFails(k)
  PROVE  Control'
  <1>0. GetNonce \in Nat
    BY SMTT(60) DEF Nonces, GetNonce
  <1>1. CASE TakeBatch
    <2>1. Open(Head(submitCh)) \in Seq(Item) /\ Tail(submitCh) \in Seq(Seq(Item))
      BY <1>1, FlattenHeadTail, WithoutFacts DEF TakeBatch, Control, Open
    <2> QED
      BY <1>0, <1>1, <2>1 DEF TakeBatch, Select, queueVars, Control, history
  <1>2. CASE TakeBatchUnsigned
    <2>1. Open(Head(submitCh)) \in Seq(Item) /\ Tail(submitCh) \in Seq(Seq(Item))
      BY <1>2, FlattenHeadTail, WithoutFacts DEF TakeBatchUnsigned, Control, Open
    <2>2. \A r : Without(Open(Head(submitCh)), {r}) \in Seq(Item)
      BY <2>1, WithoutFacts
    <2> QED
      <3>1. PICK r : exe' = [Select EXCEPT !.pc = "add", !.first = GetNonce,
                               !.txs = Without(Open(Head(submitCh)), {r})]
        BY <1>2 DEF TakeBatchUnsigned
      <3>2. /\ exe'.pc = "add" /\ exe.pc = "select"
            /\ exe' \in [pc : {"select", "add", "sign", "bump", "pop", "promote", "drain",
                               "stopped"},
                         txs : Seq(Item), first : Nat, idles : Nat]
        BY <1>0, <1>2, <2>2, <3>1 DEF Select, TakeBatchUnsigned
      <3> QED
        BY <1>2, <2>1, <3>2 DEF TakeBatchUnsigned, queueVars, Control
  <1>3. CASE AddBatch
    BY <1>3, SMTT(60) DEF AddBatch, Select, queueVars, Control, history
  <1>4. CASE PromoteTransaction
    <2>1. (IF Len(pool.txs) < MaxFinish THEN MaxFinish - Len(pool.txs) ELSE 0) \in Nat
      BY ExecutorAssumption, SMTT(60) DEF Nonces
    <2> QED
      BY <1>4, <2>1 DEF PromoteTransaction, queueVars, Control, history, Nonces
  <1>5. CASE SignAgain
    <2>1. AtMost(AccountSlots, Unpacked) \in Seq(Item) /\ exe.first + Packed \in Nat
      BY <1>5, SignFacts DEF SignAgain
    <2> QED
      BY <1>5, <2>1 DEF SignAgain, queueVars, Control, history
  <1>6. CASE Bump
    <2>1. (pool'.first + Len(pool'.txs)) \in Nat
      <3>1. pool' = AddLocals(pool, exe.first, exe.txs)
        BY <1>6 DEF Bump
      <3> QED
        <4>1. /\ pool \in [first : Nat, txs : Seq(Item)] /\ exe.first \in Nat
              /\ exe.txs \in Seq(Item) /\ exe.first <= pool.first + Len(pool.txs)
          BY <1>6, SMTT(60) DEF Nonces, Control, GetNonce, Bump
        <4>2. pool' \in [first : Nat, txs : Seq(Item)]
          BY <3>1, <4>1, AddLocalsFacts DEF Added
        <4> QED
          BY <4>2, SMTT(60)
    <2>2. /\ exe' \in [pc : {"select", "add", "sign", "bump", "pop", "promote", "drain",
                             "stopped"},
                       txs : Seq(Item), first : Nat, idles : Nat]
          /\ (exe'.pc = "select" /\ exe'.txs = <<>>) \/ exe'.pc = "pop"
          /\ exe.pc = "bump"
      <3>1. PICK n \in Nat : n = pool'.first + Len(pool'.txs)
        BY <2>1
      <3>2. exe' = IF exe.idles = 0 THEN Select
                   ELSE [exe EXCEPT !.pc = "pop", !.txs = <<>>, !.first = n]
        BY <1>6, <3>1 DEF Bump
      <3>3. exe.pc = "bump"
        BY <1>6 DEF Bump
      <3>4. CASE exe.idles = 0
        BY <3>2, <3>3, <3>4, SMTT(60) DEF Select
      <3>5. CASE exe.idles # 0
        <4>1. exe' = [exe EXCEPT !.pc = "pop", !.txs = <<>>, !.first = n]
          BY <3>2, <3>5
        <4>2. exe' = [pc |-> "pop", txs |-> <<>>, first |-> n, idles |-> exe.idles]
          BY <4>1 DEF Control
        <4>3. exe.idles \in Nat
          BY DEF Control
        <4> QED
          BY <3>3, <4>2, <4>3, SMTT(60)
      <3> QED
        BY <3>4, <3>5
    <2> QED
      BY <1>6, <2>2 DEF Bump, queueVars, Control, history
  <1>7. ASSUME NEW k \in 1..AccountSlots, SignAgainFails(k)
        PROVE  Control'
    <2> DEFINE signed == AtMost(AccountSlots, Skip(Unpacked, k))
               n == exe.first + Packed + (IF k = 1 THEN 1 ELSE 0)
    <2>1. signed \in Seq(Item) /\ n \in Nat
      <3>1. k \in DOMAIN Unpacked
        BY <1>7 DEF SignAgainFails
      <3> QED
        <4>1. /\ Unpacked \in Seq(Item) /\ exe.first + Packed \in Nat
              /\ AccountSlots \in Nat
          BY <1>7, SignFacts, ExecutorAssumption DEF SignAgainFails
        <4>2. n \in Nat
          BY <4>1, SMTT(60)
        <4>3. signed \in Seq(Item)
          BY <3>1, <4>1, SignFailsFacts
        <4> QED
          BY <4>2, <4>3
    <2>2. /\ exe' = [exe EXCEPT !.pc = "bump", !.txs = signed, !.first = n]
          /\ shifted' \in BOOLEAN /\ exe.pc = "sign"
          /\ UNCHANGED <<submitted, handler, submitCh, op, slots, writePosition>>
      BY <1>7 DEF SignAgainFails, queueVars, Control
    <2> HIDE DEF signed, n
    <2> QED
      BY <2>1, <2>2 DEF Control
  <1> QED
    BY <1>1, <1>2, <1>3, <1>4, <1>5, <1>6, <1>7

\* The steps of the loop that pop from the queue.
LEMMA PopControl ==
  ASSUME Control, QueueInv,
         \/ PromotePop \/ PromotePopped \/ PromoteEnd
         \/ PromoteUnsigned \/ PromotePopFails
  PROVE  Control'
  <1>1. CASE PromotePop
    BY <1>1 DEF PromotePop, PopDelete, Control, history
  <1>2. CASE PromotePopped \/ PromoteUnsigned
    <2>1. op.item \in Item /\ exe.idles - 1 \in Nat /\ exe.pc = "pop"
      BY <1>2, SMTT(60) DEF PromotePopped, PromoteUnsigned, PopPosition, Control, QueueInv
    <2>2. <<op.item>> \in Seq(Item) /\ exe.txs \in Seq(Item)
      BY <2>1, SMTT(60) DEF Control
    <2>3. exe.txs \o Open(<<op.item>>) \in Seq(Item)
      BY <2>2, WithoutFacts, ConcatFacts DEF Open
    <2>4. PICK t \in Seq(Item) : exe' = [exe EXCEPT !.idles = @ - 1, !.txs = t]
      <3>1. CASE PromotePopped
        BY <2>3, <3>1 DEF PromotePopped
      <3>2. CASE PromoteUnsigned
        <4>1. exe' = [exe EXCEPT !.idles = @ - 1, !.txs = exe.txs]
          BY <3>2 DEF PromoteUnsigned, Control
        <4> QED
          BY <2>2, <4>1
      <3> QED
        BY <1>2, <3>1, <3>2
    <2>5. /\ exe' \in [pc : {"select", "add", "sign", "bump", "pop", "promote", "drain",
                             "stopped"},
                       txs : Seq(Item), first : Nat, idles : Nat]
          /\ exe'.pc = "pop"
      BY <2>1, <2>4 DEF Control
    <2>6. /\ op'.kind = "idle"
          /\ UNCHANGED <<handler, submitCh, submitted, shifted>>
      BY <1>2, SMTT(60) DEF PromotePopped, PromoteUnsigned, PopPosition, Idle, history
    <2> QED
      BY <2>5, <2>6 DEF Control
  <1>3. CASE PromoteEnd
    BY <1>3 DEF PromoteEnd, queueVars, Control, history
  <1>4. CASE PromotePopFails
    BY <1>4 DEF PromotePopFails, PopFails, Idle, Control
  <1> QED
    BY <1>1, <1>2, <1>3, <1>4

\* Stopping, starting and dying.
LEMMA StopControl ==
  ASSUME Control, QueueInv,
         \/ Stop \/ DrainTake \/ DrainItem \/ DrainPosition \/ DrainEnd
         \/ Start \/ DrainFails \/ Crash
  PROVE  Control'
  <1>1. CASE Stop
    BY <1>1 DEF Stop, Select, queueVars, Control, history
  <1>2. CASE DrainTake
    <2>1. Head(submitCh) \in Seq(Item) /\ Tail(submitCh) \in Seq(Seq(Item))
      BY <1>2, FlattenHeadTail DEF DrainTake, Control
    <2> QED
      BY <1>2, <2>1 DEF DrainTake, queueVars, Control, history
  <1>3. CASE DrainItem
    BY <1>3 DEF DrainItem, PushItem, put, Control, history, Idle
  <1>4. CASE DrainPosition \/ DrainFails
    <2>1. Tail(exe.txs) \in Seq(Item)
      BY <1>4, HeadTailFacts DEF DrainPosition, DrainFails, Control
    <2>2. /\ exe' = [exe EXCEPT !.txs = Tail(@)] /\ exe.pc = "drain"
          /\ op'.kind = "idle"
          /\ UNCHANGED <<handler, submitCh, submitted, shifted>>
      BY <1>4, SMTT(60) DEF DrainPosition, DrainFails, PushPosition, PushFails, Idle, history
    <2> QED
      BY <2>1, <2>2 DEF Control
  <1>5. CASE DrainEnd
    BY <1>5 DEF DrainEnd, queueVars, Control, history
  <1>6. CASE Start
    BY <1>6 DEF Start, NewQueueDB, Select, Idle, Control, history
  <1>7. CASE Crash
    BY <1>7, SMTT(60) DEF Crash, NewQueueDB, Waiting, Select, Idle, Control
  <1> QED
    BY <1>1, <1>2, <1>3, <1>4, <1>5, <1>6, <1>7

\* Every step.
LEMMA ControlStep ==
  ASSUME Control, Nonces, QueueInv, [Next]_vars
  PROVE  Control'
  <1>1. CASE Mine \/ ResetPool \/ \E r \in Item : OtherAnchor(r)
    BY <1>1 DEF Mine, ResetPool, OtherAnchor, queueVars, Control, history
  <1>2. CASE UNCHANGED vars
    BY <1>2 DEF vars, queueVars, Control
  <1> QED
    BY <1>1, <1>2, HandlerControl, LoopControl, PopControl, StopControl
    DEF Next, LoopStep, Fault

-----------------------------------------------------------------------------
(* The nonces *)

\* The steps of others, and those of the loop that have to do with the queue.
LEMMA NoncesFrame ==
  ASSUME Control, Nonces, UNCHANGED <<pool, nonce, shifted>>, excused \subseteq excused',
         \/ exe' = exe
         \/ exe'.pc \in {"select", "drain", "stopped"}
         \/ exe'.pc \in {"add", "pop", "promote"} /\ exe'.first = GetNonce
  PROVE  Nonces'
  <1>1. GetNonce' = GetNonce /\ \A m : At(m)' = At(m)
    BY DEF GetNonce, At
  <1> QED
    BY <1>1 DEF Nonces

\* The next transaction is in a block.
LEMMA MineNonces ==
  ASSUME Control, Nonces, Mine
  PROVE  Nonces'
  <1>1. GetNonce' = GetNonce /\ \A m : At(m)' = At(m)
    BY DEF Mine, GetNonce, At
  <1>2. UNCHANGED <<exe, pool, shifted, excused>> /\ nonce' = nonce + 1 /\ nonce < GetNonce
    BY DEF Mine, history
  <1>3. nonce \in Nat /\ GetNonce \in Nat /\ pool.first \in Nat
    BY SMTT(60) DEF Nonces, GetNonce
  <1>4. nonce' \in Nat /\ pool.first <= nonce' /\ nonce' <= GetNonce
    BY <1>2, <1>3, SMTT(60) DEF Nonces
  <1> QED
    BY <1>1, <1>2, <1>4 DEF Nonces

\* The pool forgets what is in a block.
LEMMA ResetNonces ==
  ASSUME Control, Nonces, ResetPool
  PROVE  /\ Nonces'
         /\ Unmined' = Unmined
         /\ Range(pool'.txs) \subseteq Range(pool.txs)
  <1> DEFINE a == nonce - pool.first
             s == pool.txs
  <1>1. s \in Seq(Item) /\ pool.first \in Nat /\ nonce \in Nat /\ Len(s) \in Nat
    BY SMTT(60) DEF Nonces
  <1>2. a \in Nat /\ a <= Len(s)
    BY <1>1, SMTT(60) DEF Nonces, GetNonce
  <1>3. pool' = [first |-> nonce, txs |-> SubSeq(s, a + 1, Len(s))]
    BY DEF ResetPool
  <1>4. UNCHANGED <<exe, nonce, shifted, excused>>
    BY DEF ResetPool, history
  <1> HIDE DEF a
  <1>5. /\ pool'.txs \in Seq(Item) /\ Len(pool'.txs) = Len(s) - a
        /\ \A i \in 1..(Len(s) - a) : pool'.txs[i] = s[a + i]
        /\ Range(pool'.txs) = {s[i] : i \in (a + 1)..Len(s)}
    <2> DEFINE u == SubSeq(s, a + 1, Len(s))
    <2>1. /\ u \in Seq(Item) /\ Len(u) = Len(s) - a
          /\ \A i \in 1..(Len(s) - a) : u[i] = s[a + i]
          /\ Range(u) = {s[i] : i \in (a + 1)..Len(s)}
      BY <1>1, <1>2, SuffixFacts, SMTT(60)
    <2>2. pool'.txs = u
      BY <1>3
    <2> HIDE DEF u
    <2> QED
      BY <2>1, <2>2
  <1>6. pool' \in [first : Nat, txs : Seq(Item)] /\ pool'.first = nonce
    BY <1>1, <1>3, <1>5
  <1>7. GetNonce' = GetNonce
    <2>1. GetNonce' = nonce + (Len(s) - a)
      BY <1>5, <1>6 DEF GetNonce
    <2>2. GetNonce = pool.first + Len(s)
      BY DEF GetNonce
    <2> QED
      BY <1>1, <2>1, <2>2, SMTT(60) DEF a
  <1>8. ASSUME NEW m \in nonce..(GetNonce - 1)
        PROVE  At(m)' = At(m)
    <2>1. m - nonce + 1 \in 1..(Len(s) - a) /\ a + (m - nonce + 1) = m - pool.first + 1
      BY <1>1, <1>2, SMTT(60) DEF a, GetNonce
    <2>2. At(m)' = pool'.txs[m - nonce + 1]
      BY <1>6 DEF At
    <2> QED
      BY <1>5, <2>1, <2>2 DEF At
  <1>9. Nonces'
    <2>1. \A m \in nonce..(GetNonce - 1) : m \in pool.first..(GetNonce - 1)
      BY <1>1, SMTT(60) DEF Nonces, GetNonce
    <2>2. nonce' \in Nat /\ pool'.first <= nonce' /\ nonce' <= GetNonce'
      BY <1>1, <1>4, <1>6, <1>7, SMTT(60) DEF Nonces
    <2>3. exe.pc = "sign" => exe.first <= nonce
      BY <1>1, SMTT(60) DEF Nonces, Control
    <2> QED
      BY <1>4, <1>6, <1>7, <1>8, <2>1, <2>2, <2>3 DEF Nonces
  <1>10. Range(pool'.txs) \subseteq Range(s)
    <2>1. \A i \in (a + 1)..Len(s) : i \in DOMAIN s
      BY <1>1, <1>2, SMTT(60)
    <2> QED
      BY <1>5, <2>1 DEF Range
  <1>11. Unmined' = Unmined
    <2>1. Unmined' = SubSeq(pool'.txs, 0 + 1, Len(pool'.txs))
      BY <1>1, <1>4, <1>6, SMTT(60) DEF Unmined
    <2>2. SubSeq(pool'.txs, 0 + 1, Len(pool'.txs)) = pool'.txs
      BY <1>5, SMTT(60)
    <2>3. Unmined = SubSeq(s, a + 1, Len(s))
      BY DEF Unmined, a
    <2> QED
      BY <1>3, <2>1, <2>2, <2>3
  <1> QED
    BY <1>9, <1>10, <1>11

\* The new transactions follow the old ones in the pool.
LEMMA AddFacts ==
  ASSUME Control, Nonces, AddBatch
  PROVE  /\ pool' \in [first : Nat, txs : Seq(Item)]
         /\ pool'.first = pool.first
         /\ pool'.txs = pool.txs \o exe.txs
  <1> DEFINE q == AddLocals(pool, exe.first, exe.txs)
             l == Len(pool.txs)
             n == Len(exe.txs)
  <1>1. /\ pool \in [first : Nat, txs : Seq(Item)] /\ exe.txs \in Seq(Item)
        /\ exe.first \in Nat /\ pool.first \in Nat /\ pool.txs \in Seq(Item)
        /\ exe.first = pool.first + l /\ l \in Nat /\ n \in Nat
    <2>1. /\ pool \in [first : Nat, txs : Seq(Item)] /\ exe.txs \in Seq(Item)
          /\ exe.first \in Nat /\ exe.first = GetNonce
      BY DEF AddBatch, Control, Nonces
    <2>2. pool.first \in Nat /\ pool.txs \in Seq(Item)
      BY <2>1
    <2>3. l \in Nat /\ n \in Nat
      BY <2>1, <2>2, SMTT(60)
    <2> QED
      BY <2>1, <2>2, <2>3 DEF GetNonce
  <1>2. /\ q \in [first : Nat, txs : Seq(Item)] /\ q.first = pool.first
        /\ Len(q.txs) = IF pool.first + l < exe.first + n
                        THEN exe.first + n - pool.first ELSE l
        /\ \A i \in 1..Len(q.txs) :
             q.txs[i] = IF pool.first + i - exe.first \in 1..n
                        THEN exe.txs[pool.first + i - exe.first] ELSE pool.txs[i]
    <2>1. exe.first <= pool.first + Len(pool.txs)
      BY <1>1, SMTT(60)
    <2>2. Added(q, pool, exe.first, exe.txs)
      BY <1>1, <2>1, AddLocalsFacts
    <2> HIDE DEF q
    <2> QED
      BY <2>2 DEF Added
  <1>3. pool' = q
    BY DEF AddBatch
  <1> HIDE DEF q
  <1>4. Len(q.txs) = l + n
    BY <1>1, <1>2, SMTT(60)
  <1>5. ASSUME NEW i \in 1..(l + n)
        PROVE  q.txs[i] = (pool.txs \o exe.txs)[i]
    <2>1. i \in Nat /\ pool.first + i - exe.first = i - l
      BY <1>1, SMTT(60)
    <2>2. q.txs[i] = IF i - l \in 1..n THEN exe.txs[i - l] ELSE pool.txs[i]
      BY <1>2, <1>4, <2>1
    <2> QED
      BY <1>1, <2>2, SMTT(60)
  <1>6. /\ (pool.txs \o exe.txs) \in Seq(Item) /\ Len(pool.txs \o exe.txs) = l + n
        /\ q.txs \in Seq(Item)
    BY <1>1, <1>2, SMTT(60)
  <1>7. q.txs = pool.txs \o exe.txs
    <2> DEFINE t == q.txs
               u == pool.txs \o exe.txs
    <2>1. t \in Seq(Item) /\ u \in Seq(Item) /\ Len(t) = Len(u)
          /\ \A i \in 1..Len(u) : t[i] = u[i]
      BY <1>4, <1>5, <1>6
    <2> HIDE DEF t, u
    <2>2. t = u
      BY ONLY <2>1, SMTT(60)
    <2> QED
      BY <2>2 DEF t, u
  <1> QED
    BY <1>2, <1>3, <1>7

\* Those that are signed again replace the old ones and nothing else.
LEMMA BumpFacts ==
  ASSUME Control, Nonces, Bump
  PROVE  /\ pool' \in [first : Nat, txs : Seq(Item)]
         /\ pool'.first = pool.first
         /\ Len(pool'.txs) = Len(pool.txs)
         /\ \A i \in 1..Len(pool.txs) :
              \/ pool'.txs[i] = pool.txs[i]
              \/ /\ pool'.txs[i] \in Range(exe.txs)
                 /\ shifted = TRUE /\ pool.txs[i] \in excused
  <1> DEFINE q == AddLocals(pool, exe.first, exe.txs)
             l == Len(pool.txs)
             n == Len(exe.txs)
  <1>1. /\ pool \in [first : Nat, txs : Seq(Item)] /\ exe.txs \in Seq(Item)
        /\ exe.first \in Nat /\ pool.first \in Nat /\ pool.txs \in Seq(Item)
        /\ exe.first + n <= pool.first + l /\ l \in Nat /\ n \in Nat
    <2>1. /\ pool \in [first : Nat, txs : Seq(Item)] /\ exe.txs \in Seq(Item)
          /\ exe.first \in Nat /\ exe.first + n <= GetNonce
      BY DEF Bump, Control, Nonces
    <2>2. pool.first \in Nat /\ pool.txs \in Seq(Item)
      BY <2>1
    <2>3. l \in Nat /\ n \in Nat
      BY <2>1, <2>2, SMTT(60)
    <2> QED
      BY <2>1, <2>2, <2>3 DEF GetNonce
  <1>2. /\ q \in [first : Nat, txs : Seq(Item)] /\ q.first = pool.first
        /\ Len(q.txs) = IF pool.first + l < exe.first + n
                        THEN exe.first + n - pool.first ELSE l
        /\ \A i \in 1..Len(q.txs) :
             q.txs[i] = IF pool.first + i - exe.first \in 1..n
                        THEN exe.txs[pool.first + i - exe.first] ELSE pool.txs[i]
    <2>1. exe.first <= pool.first + Len(pool.txs)
      BY <1>1, SMTT(60)
    <2>2. Added(q, pool, exe.first, exe.txs)
      BY <1>1, <2>1, AddLocalsFacts
    <2> HIDE DEF q
    <2> QED
      BY <2>2 DEF Added
  <1>3. pool' = q
    BY DEF Bump
  <1> HIDE DEF q
  <1>4. Len(q.txs) = l
    BY <1>1, <1>2, SMTT(60)
  <1>5. ASSUME NEW i \in 1..l, q.txs[i] # pool.txs[i]
        PROVE  /\ q.txs[i] \in Range(exe.txs)
               /\ shifted = TRUE /\ pool.txs[i] \in excused
    <2>1. PICK j : j = pool.first + i - exe.first
      OBVIOUS
    <2>2. j \in 1..n /\ q.txs[i] = exe.txs[j]
      BY <1>2, <1>4, <1>5, <2>1
    <2>3. PICK m : m = pool.first + i - 1
      OBVIOUS
    <2>4. /\ m \in pool.first..(GetNonce - 1) /\ m - exe.first + 1 = j
          /\ m - pool.first + 1 = i
      <3> DEFINE a == pool.first
                 b == exe.first
      <3>1. /\ i \in Nat /\ 1 <= i /\ i <= l /\ GetNonce = a + l /\ l \in Nat
            /\ a \in Nat /\ b \in Nat /\ j = a + i - b /\ m = a + i - 1
        BY <1>1, <2>1, <2>3, SMTT(60) DEF GetNonce
      <3> HIDE DEF l, n, a, b
      <3>2. m \in a..(GetNonce - 1) /\ m - b + 1 = j /\ m - a + 1 = i
        BY ONLY <3>1, SMTT(60)
      <3> QED
        BY <3>2 DEF a, b
    <2>5. At(m) = pool.txs[i] /\ DOMAIN exe.txs = 1..n
      BY <1>1, <2>4, SMTT(60) DEF At
    <2>6. exe.txs[j] = pool.txs[i] \/ (shifted = TRUE /\ pool.txs[i] \in excused)
      BY <2>2, <2>4, <2>5 DEF Nonces, Bump
    <2> QED
      BY <1>5, <2>2, <2>5, <2>6 DEF Range
  <1> QED
    BY <1>2, <1>3, <1>4, <1>5

\* The steps of the loop that have to do with the pool.
LEMMA LoopNonces ==
  ASSUME Control, Nonces,
         \/ TakeBatch \/ TakeBatchUnsigned \/ AddBatch \/ PromoteTransaction
         \/ SignAgain \/ Bump \/ \E k \in 1..AccountSlots : SignAgainFails(k)
  PROVE  Nonces'
  <1>0. /\ pool.first \in Nat /\ Len(pool.txs) \in Nat /\ nonce \in Nat
        /\ GetNonce = pool.first + Len(pool.txs) /\ GetNonce \in Nat
        /\ exe.first \in Nat /\ Len(exe.txs) \in Nat
    BY SMTT(60) DEF Nonces, Control, GetNonce
  <1>1. CASE TakeBatch
    <2>1. exe'.pc = "add" /\ exe'.first = GetNonce
      BY <1>1 DEF TakeBatch, Select
    <2> QED
      BY <1>1, <2>1, NoncesFrame DEF TakeBatch, env, history
  <1>2. CASE TakeBatchUnsigned
    <2>1. exe'.pc = "add" /\ exe'.first = GetNonce
      BY <1>2 DEF TakeBatchUnsigned, Select
    <2> QED
      BY <1>2, <2>1, NoncesFrame DEF TakeBatchUnsigned, env
  <1>3. CASE AddBatch
    <2>1. exe'.pc = "select" /\ nonce' = nonce
      BY <1>3 DEF AddBatch, Select
    <2>2. /\ pool' \in [first : Nat, txs : Seq(Item)] /\ pool'.first = pool.first
          /\ pool'.txs = pool.txs \o exe.txs
      BY <1>3, AddFacts
    <2>3. Len(pool'.txs) = Len(pool.txs) + Len(exe.txs)
      BY <2>2, SMTT(60) DEF Nonces, Control
    <2>4. nonce <= GetNonce' /\ pool'.first <= nonce
      <3>1. GetNonce' = pool.first + (Len(pool.txs) + Len(exe.txs))
        BY <2>2, <2>3 DEF GetNonce
      <3> QED
        BY <1>0, <2>2, <3>1, SMTT(60) DEF Nonces
    <2> QED
      BY <1>0, <2>1, <2>2, <2>4 DEF Nonces
  <1>4. CASE PromoteTransaction
    <2>1. /\ exe'.pc = "sign" /\ exe'.txs = pool.txs /\ exe'.first = pool.first
          /\ UNCHANGED <<pool, nonce>>
      BY <1>4 DEF PromoteTransaction, env
    <2>2. GetNonce' = GetNonce /\ \A m : At(m)' = pool.txs[m - pool.first + 1]
      BY <2>1 DEF GetNonce, At
    <2> QED
      BY <1>0, <2>1, <2>2, SMTT(60) DEF Nonces
  <1>5. CASE SignAgain
    <2> DEFINE u == Unpacked
               s == AtMost(AccountSlots, u)
    <2>1. /\ exe'.pc = "bump" /\ exe'.txs = s /\ exe'.first = exe.first + Packed
          /\ UNCHANGED <<pool, nonce>> /\ exe.pc = "sign"
      BY <1>5 DEF SignAgain, env, Control
    <2>2. GetNonce' = GetNonce /\ \A m : At(m)' = At(m)
      BY <2>1 DEF GetNonce, At
    <2>3. /\ Packed \in Nat /\ Packed <= Len(exe.txs)
          /\ u \in Seq(Item) /\ Len(u) = Len(exe.txs) - Packed
          /\ \A i \in 1..Len(u) : u[i] = exe.txs[Packed + i]
          /\ AccountSlots \in Nat
      BY <2>1, SignFacts, ExecutorAssumption
    <2> HIDE DEF u
    <2>4. /\ s \in Seq(Item) /\ Len(s) <= Len(u) /\ Len(s) \in Nat
          /\ \A i \in 1..Len(s) : s[i] = u[i]
      BY <2>3, AtMostFacts, SMTT(60)
    <2> HIDE DEF s
    <2>5. exe.first + Len(exe.txs) = GetNonce
      BY <2>1 DEF Nonces
    <2>6. exe.first + Packed + Len(s) <= GetNonce
      BY <1>0, <2>3, <2>4, <2>5, SMTT(60)
    <2>7. ASSUME NEW m \in pool.first..(GetNonce - 1),
                 m - (exe.first + Packed) + 1 \in 1..Len(s)
          PROVE  s[m - (exe.first + Packed) + 1] = At(m)
      <3>1. PICK i : i = m - (exe.first + Packed) + 1
        OBVIOUS
      <3>2. i \in 1..Len(s) /\ i \in 1..Len(u) /\ Packed + i = m - exe.first + 1
        <4> DEFINE a == exe.first
                   b == Packed
                   l == Len(s)
                   n == Len(u)
        <4>1. /\ a \in Nat /\ b \in Nat /\ l \in Nat /\ n \in Nat /\ l <= n /\ m \in Int
              /\ i = m - (a + b) + 1 /\ i \in 1..l
          BY <1>0, <2>3, <2>4, <2>7, <3>1, SMTT(60)
        <4> HIDE DEF a, b, l, n
        <4>2. i \in 1..l /\ i \in 1..n /\ b + i = m - a + 1
          BY ONLY <4>1, SMTT(60)
        <4> QED
          BY <4>2 DEF a, b, l, n
      <3>3. s[i] = exe.txs[m - exe.first + 1]
        BY <2>3, <2>4, <3>2
      <3> QED
        BY <2>1, <3>1, <3>3 DEF Nonces
    <2>8. DOMAIN s = 1..Len(s)
      BY <2>4, SMTT(60)
    <2> QED
      BY <2>1, <2>2, <2>6, <2>7, <2>8 DEF Nonces
  <1>6. CASE Bump
    <2>1. /\ pool' \in [first : Nat, txs : Seq(Item)] /\ pool'.first = pool.first
          /\ Len(pool'.txs) = Len(pool.txs)
      BY <1>6, BumpFacts
    <2>2. GetNonce' = GetNonce /\ nonce' = nonce
      BY <1>6, <2>1 DEF GetNonce, Bump
    <2>3. exe'.pc = "select" \/ (exe'.pc = "pop" /\ exe'.first = GetNonce')
      BY <1>6 DEF Bump, Select, GetNonce, Control
    <2> QED
      BY <2>1, <2>2, <2>3 DEF Nonces
  <1>7. ASSUME NEW k \in 1..AccountSlots, SignAgainFails(k)
        PROVE  Nonces'
    <2> DEFINE u == Unpacked
               s == AtMost(AccountSlots, Skip(u, k))
               moves == 1 < k /\ k <= Len(s)
               d == IF k = 1 THEN 1 ELSE 0
    <2>1. /\ exe'.pc = "bump" /\ exe'.txs = s /\ exe'.first = exe.first + Packed + d
          /\ UNCHANGED <<pool, nonce>> /\ exe.pc = "sign" /\ k \in DOMAIN u
      BY <1>7 DEF SignAgainFails, env, Control
    <2>2. GetNonce' = GetNonce /\ \A m : At(m)' = At(m)
      BY <2>1 DEF GetNonce, At
    <2>3. /\ Packed \in Nat /\ Packed <= Len(exe.txs)
          /\ u \in Seq(Item) /\ Len(u) = Len(exe.txs) - Packed
          /\ \A i \in 1..Len(u) : u[i] = exe.txs[Packed + i]
          /\ AccountSlots \in Nat
      BY <2>1, SignFacts, ExecutorAssumption
    <2>4. moves => shifted' = TRUE /\ \A i \in k..Len(s) : u[i] \in excused'
      BY <1>7 DEF SignAgainFails
    <2> HIDE DEF u
    <2>5. /\ s \in Seq(Item) /\ Len(s) <= Len(u) - 1 /\ Len(s) \in Nat
          /\ \A i \in 1..Len(s) : s[i] = IF i < k THEN u[i] ELSE u[i + 1]
      <3>1. u \in Seq(Item) /\ k \in DOMAIN u /\ AccountSlots \in Nat
        BY <2>1, <2>3
      <3>2. s \in Seq(Item) /\ Len(s) <= Len(u) - 1
        BY <3>1, SignFailsFacts
      <3>3. \A i \in 1..Len(s) : s[i] = IF i < k THEN u[i] ELSE u[i + 1]
        BY <3>1, SignFailsFacts
      <3> HIDE DEF s
      <3> QED
        BY <3>2, <3>3, SMTT(60)
    <2> HIDE DEF s
    <2>6. exe.first + Len(exe.txs) = GetNonce
      BY <2>1 DEF Nonces
    <2>7. exe.first + Packed + d + Len(s) <= GetNonce
      <3> DEFINE a == exe.first
                 b == Packed
                 l == Len(s)
                 e == Len(exe.txs)
      <3>1. /\ a \in Nat /\ b \in Nat /\ l \in Nat /\ e \in Nat /\ l <= e - b - 1
            /\ a + e = GetNonce /\ d <= 1 /\ d \in Nat
        BY <1>0, <2>3, <2>5, <2>6, SMTT(60)
      <3> HIDE DEF a, b, l, e, d
      <3>2. a + b + d + l <= GetNonce
        BY ONLY <3>1, SMTT(60)
      <3> QED
        BY <3>2 DEF a, b, l, e
    <2>8. ASSUME NEW m \in pool.first..(GetNonce - 1),
                 m - (exe.first + Packed + d) + 1 \in 1..Len(s)
          PROVE  \/ s[m - (exe.first + Packed + d) + 1] = At(m)
                 \/ shifted' = TRUE /\ At(m) \in excused'
      <3>1. PICK i : i = m - (exe.first + Packed + d) + 1
        OBVIOUS
      <3>2. /\ i \in 1..Len(s) /\ i + d \in 1..Len(u)
            /\ Packed + (i + d) = m - exe.first + 1
        <4> DEFINE a == exe.first
                   b == Packed
                   l == Len(s)
                   n == Len(u)
        <4>1. /\ a \in Nat /\ b \in Nat /\ l \in Nat /\ n \in Nat /\ l <= n - 1
              /\ i = m - (a + b + d) + 1 /\ i \in 1..l
              /\ d \in {0, 1} /\ m \in Int
          BY <1>0, <2>3, <2>5, <2>8, <3>1, SMTT(60)
        <4> HIDE DEF a, b, l, n, d
        <4>2. i \in 1..l /\ i + d \in 1..n /\ b + (i + d) = m - a + 1
          BY ONLY <4>1, SMTT(60)
        <4> QED
          BY <4>2 DEF a, b, l, n
      <3>3. At(m) = exe.txs[m - exe.first + 1]
        BY <2>1 DEF Nonces
      <3>4. At(m) = u[i + d]
        BY <2>3, <3>2, <3>3
      <3>5. s[i] = u[i + d] \/ (moves /\ i \in k..Len(s) /\ i + d = i)
        BY <2>5, <3>2, SMTT(60)
      <3> QED
        BY <2>4, <3>1, <3>4, <3>5
    <2>9. DOMAIN s = 1..Len(s)
      BY <2>5, SMTT(60)
    <2> HIDE DEF d
    <2> QED
      BY <2>1, <2>2, <2>7, <2>8, <2>9 DEF Nonces
  <1> QED
    BY <1>1, <1>2, <1>3, <1>4, <1>5, <1>6, <1>7

\* Every step.
LEMMA NoncesStep ==
  ASSUME Control, Nonces, QueueInv, [Next]_vars
  PROVE  Nonces'
  <1>1. CASE \/ \E n \in 1..MaxBatch : SubmitTransaction(n)
             \/ HandlerStep \/ DemoteFails \/ PromotePop \/ DrainItem
             \/ \E r \in Item : OtherAnchor(r)
             \/ UNCHANGED vars
    <2>1. UNCHANGED <<pool, nonce, shifted, exe, excused>>
      BY <1>1 DEF SubmitTransaction, HandlerStep, DemoteItem, DemotePosition, DemoteDone, Send,
                  DemoteFails, PromotePop, DrainItem, OtherAnchor, vars, env, history
    <2> QED
      BY <2>1, NoncesFrame
  <1>2. CASE PromotePopped \/ PromoteEnd \/ PromoteUnsigned \/ PromotePopFails
    <2>1. /\ UNCHANGED <<pool, nonce, shifted>> /\ excused \subseteq excused'
          /\ exe.pc = "pop"
      BY <1>2 DEF PromotePopped, PromoteEnd, PromoteUnsigned, PromotePopFails, env, history
    <2>2. exe'.pc \in {"pop", "promote"} /\ exe'.first = exe.first
      BY <1>2, <2>1
      DEF PromotePopped, PromoteEnd, PromoteUnsigned, PromotePopFails, Control
    <2>3. exe'.pc \in {"add", "pop", "promote"} /\ exe'.first = GetNonce
      BY <2>1, <2>2 DEF Nonces
    <2> QED
      BY <2>1, <2>3, NoncesFrame
  <1>3. CASE \/ Stop \/ DrainTake \/ DrainPosition \/ DrainEnd \/ Start \/ DrainFails
             \/ Crash
    <2>1. UNCHANGED <<pool, nonce, shifted>> /\ excused \subseteq excused'
      BY <1>3 DEF Stop, DrainTake, DrainPosition, DrainEnd, Start, DrainFails, Crash, env,
                  history
    <2>2. exe'.pc \in {"select", "drain", "stopped"}
      BY <1>3, SMTT(60)
      DEF Stop, DrainTake, DrainPosition, DrainEnd, Start, DrainFails, Crash, Select,
                  Control
    <2> QED
      BY <2>1, <2>2, NoncesFrame
  <1> QED
    BY <1>1, <1>2, <1>3, LoopNonces, MineNonces, ResetNonces DEF Next, LoopStep, Fault

-----------------------------------------------------------------------------
(* The places *)

\* The places by number.
LEMMA PlacesAre ==
  /\ Places[1] = handler.todo /\ Places[2] = handler.failure
  /\ Places[3] = Flatten(submitCh) /\ Places[4] = Contents
  /\ Places[5] = Loop /\ Places[6] = Unmined
  /\ Places'[1] = handler'.todo /\ Places'[2] = handler'.failure
  /\ Places'[3] = Flatten(submitCh') /\ Places'[4] = Contents'
  /\ Places'[5] = Loop' /\ Places'[6] = Unmined'
  BY DEF Places, Loop, Unmined

\* What is in them.
LEMMA PlacesTypes ==
  ASSUME QueueInv, Control, Nonces
  PROVE  /\ handler.todo \in Seq(Item) /\ handler.failure \in Seq(Item)
         /\ Flatten(submitCh) \in Seq(Item) /\ Contents \in Seq(Item)
         /\ Loop \in Seq(Item) /\ Unmined \in Seq(Item)
  <1>1. handler.todo \in Seq(Item) /\ handler.failure \in Seq(Item) /\ Loop \in Seq(Item)
    BY SMTT(60) DEF Control, Loop
  <1>2. Flatten(submitCh) \in Seq(Item)
    BY FlattenFacts DEF Control
  <1>3. Contents \in Seq(Item)
    <2>1. Stored \in Seq(Item)
      BY StoredItems
    <2>2. op.kind = "pop" => <<op.item>> \o Stored \in Seq(Item)
      BY <2>1, SMTT(60) DEF QueueInv
    <2> QED
      BY <2>1, <2>2 DEF Contents
  <1>4. Unmined \in Seq(Item)
    <2>1. /\ pool.txs \in Seq(Item) /\ nonce - pool.first \in Nat
          /\ nonce - pool.first <= Len(pool.txs)
      BY SMTT(60) DEF Nonces, GetNonce
    <2> QED
      BY <2>1, SuffixFacts DEF Unmined
  <1> QED
    BY <1>1, <1>2, <1>3, <1>4

\* An empty place holds nothing.
LEMMA EmptyFacts == Range(<<>>) = {} /\ Once(<<>>) /\ Flatten(<<>>) = <<>>
  <1>1. Range(<<>>) = {} /\ Once(<<>>)
    BY SMTT(60) DEF Range, Once
  <1>2. Flatten(<<>>) = <<>>
    <2>1. <<>> \in Seq(Seq({0})) /\ 1..Len(<<>>) = {}
      BY SMTT(60)
    <2>2. /\ Flatten(<<>>) \in Seq({0})
          /\ Range(Flatten(<<>>)) = UNION {Range(<<>>[i]) : i \in 1..Len(<<>>)}
      BY <2>1, FlattenFacts
    <2>3. Range(Flatten(<<>>)) = {}
      BY <2>1, <2>2
    <2> DEFINE s == Flatten(<<>>)
    <2> HIDE DEF s
    <2>4. s \in Seq({0}) /\ Range(s) = {}
      BY <2>2, <2>3 DEF s
    <2>5. Len(s) \in Nat /\ \A i \in 1..Len(s) : s[i] \in Range(s)
      BY <2>4, SMTT(60) DEF Range
    <2>6. Len(s) = 0
      <3>1. Len(s) # 0 => 1 \in 1..Len(s)
        BY <2>5, SMTT(60)
      <3> QED
        BY <2>4, <2>5, <3>1
    <2> QED
      BY <2>4, <2>6, SMTT(60) DEF s
  <1> QED
    BY <1>1, <1>2

\* What two places hold is shared out anew between them, or done with.
Moved(a, b) ==
  /\ a \in 1..6 /\ b \in 1..6 /\ a # b
  /\ \A k \in 1..6 : k # a /\ k # b => Places'[k] = Places[k]
  /\ Range(Places'[a]) \cup Range(Places'[b]) \subseteq Range(Places[a]) \cup Range(Places[b])
  /\ Range(Places[a]) \cup Range(Places[b])
       \subseteq Range(Places'[a]) \cup Range(Places'[b]) \cup (done' \cup excused')
  /\ Once(Places[a]) /\ Once(Places[b]) /\ Apart(Places[a], Places[b])
       => Once(Places'[a]) /\ Once(Places'[b]) /\ Apart(Places'[a], Places'[b])

\* Items move between two places.
LEMMA PlacedMove ==
  ASSUME Placed, UNCHANGED <<submitted, shifted>>,
         done \cup excused \subseteq done' \cup excused',
         NEW a, NEW b, Moved(a, b)
  PROVE  Placed'
  <1>1. Disjoint(Places, 6)
          => Once(Places[a]) /\ Once(Places[b]) /\ Apart(Places[a], Places[b])
    BY DEF Disjoint, Moved
  <1>2. Good(Places, submitted, done \cup excused, shifted)
    BY DEF Placed
  <1> DEFINE p == Places
             q == Places'
             D == done \cup excused
             E == done' \cup excused'
  <1>3. /\ Good(p, submitted, D, shifted) /\ D \subseteq E
        /\ \A k \in 1..6 : k # a /\ k # b => q[k] = p[k]
        /\ Range(q[a]) \cup Range(q[b]) \subseteq Range(p[a]) \cup Range(p[b])
        /\ Range(p[a]) \cup Range(p[b]) \subseteq Range(q[a]) \cup Range(q[b]) \cup E
        /\ Disjoint(p, 6) => Once(q[a]) /\ Once(q[b]) /\ (a # b => Apart(q[a], q[b]))
    BY <1>1, <1>2 DEF Moved
  <1>5. a \in 1..6 /\ b \in 1..6
    BY DEF Moved
  <1> HIDE DEF p, q, D, E
  <1>4. Good(q, submitted, E, shifted)
    BY <1>3, <1>5, GoodMove
  <1> QED
    BY <1>4 DEF Placed, q, E

\* The places are as they were.
LEMMA PlacedSame ==
  ASSUME Placed, submitted' = submitted, shifted' = FALSE => shifted = FALSE,
         done \cup excused \subseteq done' \cup excused',
         UNCHANGED <<handler, Flatten(submitCh), Contents, Loop, Unmined>>
  PROVE  Placed'
  <1>1. Places' = Places
    BY DEF Places, Loop, Unmined
  <1> QED
    BY <1>1, GoodSame DEF Placed

\* The steps that do not touch the queue.
LEMMA ContentsSame ==
  ASSUME UNCHANGED queueVars
  PROVE  Contents' = Contents
  BY DEF queueVars, Contents, Stored, First

\* The first of s goes to the end of t.
LEMMA MoveHead ==
  ASSUME NEW s \in Seq(Item), NEW t \in Seq(Item), s # <<>>
  PROVE  /\ Range(Tail(s)) \cup Range(Append(t, Head(s))) = Range(s) \cup Range(t)
         /\ Once(s) /\ Once(t) /\ Apart(s, t) =>
              Once(Tail(s)) /\ Once(Append(t, Head(s))) /\ Apart(Tail(s), Append(t, Head(s)))
  <1>1. /\ Head(s) \in Item
        /\ Range(s) = Range(Tail(s)) \cup {Head(s)}
        /\ Once(s) <=> Once(Tail(s)) /\ Head(s) \notin Range(Tail(s))
    BY HeadTailFacts
  <1>2. /\ Range(Append(t, Head(s))) = Range(t) \cup {Head(s)}
        /\ Once(Append(t, Head(s))) <=> Once(t) /\ Head(s) \notin Range(t)
    BY <1>1, AppendFacts
  <1> QED
    BY <1>1, <1>2 DEF Apart

\* SubmitTransaction is given new transactions.
LEMMA SubmitPlaced ==
  ASSUME QueueInv, Control, Nonces, Placed, NEW n \in 1..MaxBatch, SubmitTransaction(n)
  PROVE  Placed'
  <1> DEFINE m == submitted + n
             rtxs == [i \in 1..n |-> submitted + i]
             p == Places
             q == Places'
             D == done \cup excused
  <1>1. submitted \in Nat /\ m \in Nat /\ submitted <= m /\ n \in Nat
    BY SMTT(60) DEF Control
  <1>2. DOMAIN rtxs = 1..n /\ \A i \in 1..n : rtxs[i] = submitted + i
    OBVIOUS
  <1>3. Once(rtxs)
    BY <1>1, <1>2, SMTT(60) DEF Once
  <1>4. Range(rtxs) = (submitted + 1)..m
    <2>1. \A i \in 1..n : rtxs[i] \in (submitted + 1)..m
      BY <1>1, <1>2, SMTT(60)
    <2>2. \A r \in (submitted + 1)..m : r - submitted \in 1..n /\ rtxs[r - submitted] = r
      BY <1>1, <1>2, SMTT(60)
    <2> HIDE DEF rtxs, m
    <2> QED
      BY <1>2, <2>1, <2>2 DEF Range
  <1>5. /\ handler.todo = <<>> /\ handler.failure = <<>>
        /\ UNCHANGED <<submitCh, exe, pool, nonce, done, excused, shifted, queueVars>>
        /\ submitted' = m
    BY DEF SubmitTransaction, Control, env
  <1>6. Contents' = Contents /\ Loop' = Loop /\ Unmined' = Unmined
    BY <1>5, ContentsSame DEF Loop, Unmined
  <1>7. \/ handler'.todo = rtxs /\ handler'.failure = <<>>
        \/ handler'.todo = <<>> /\ handler'.failure = rtxs
    <2> HIDE DEF rtxs
    <2>1. \/ handler' = [pc |-> "demote", todo |-> rtxs, failure |-> <<>>]
          \/ handler' = [pc |-> "send", todo |-> <<>>, failure |-> rtxs]
      BY DEF SubmitTransaction, rtxs
    <2> QED
      BY <2>1, SMTT(60)
  <1>8. Good(p, submitted, D, shifted)
    BY DEF Placed
  <1>9. \A k \in 1..6 : k = 1 \/ k = 2 \/ k = 3 \/ k = 4 \/ k = 5 \/ k = 6
    BY SMTT(60)
  <1>10. PICK a \in {1, 2} :
           /\ \A k \in 1..6 : k # a => q[k] = p[k]
           /\ Range(p[a]) = {} /\ q[a] = rtxs
    <2> HIDE DEF rtxs
    <2>1. CASE handler'.todo = rtxs /\ handler'.failure = <<>>
      BY <1>5, <1>6, <1>9, <2>1, PlacesAre, EmptyFacts
    <2>2. CASE handler'.todo = <<>> /\ handler'.failure = rtxs
      BY <1>5, <1>6, <1>9, <2>2, PlacesAre, EmptyFacts
    <2> QED
      BY <1>7, <2>1, <2>2
  <1> HIDE DEF p, q, D, m, rtxs
  <1>11. Good(q, m, D, shifted)
    <2>1. a \in 1..6 /\ Range(q[a]) = (submitted + 1)..m /\ Once(q[a])
      BY <1>3, <1>4, <1>10, SMTT(60)
    <2> QED
      BY <1>1, <1>8, <1>10, <2>1, GoodNew
  <1> QED
    BY <1>5, <1>11 DEF Placed, q, D

\* The steps of the handler.
LEMMA HandlerPlaced ==
  ASSUME QueueInv, Control, Nonces, Placed, HandlerStep \/ DemoteFails
  PROVE  Placed'
  <1>0. /\ UNCHANGED <<submitted, shifted, done, excused, exe, pool, nonce>>
        /\ Loop' = Loop /\ Unmined' = Unmined
    BY
    DEF HandlerStep, DemoteItem, DemotePosition, DemoteDone, Send, DemoteFails, env,
           history, Loop, Unmined
  <1>t. /\ handler.todo \in Seq(Item) /\ handler.failure \in Seq(Item)
        /\ Flatten(submitCh) \in Seq(Item) /\ Contents \in Seq(Item)
    BY PlacesTypes
  <1>k. \A k \in 1..6 : k = 1 \/ k = 2 \/ k = 3 \/ k = 4 \/ k = 5 \/ k = 6
    BY SMTT(60)
  <1>1. CASE DemoteItem
    <2>1. Head(handler.todo) \in Item /\ PushItem(Head(handler.todo))
          /\ UNCHANGED <<handler, submitCh>>
      BY <1>1, <1>t, HeadTailFacts DEF DemoteItem
    <2>2. Contents' = Contents
      BY <2>1, PushItemStutters
    <2> QED
      BY <1>0, <2>1, <2>2, PlacedSame
  <1>2. CASE DemotePosition
    <2>1. /\ handler.todo # <<>> /\ handler.pc = "demote" /\ PushPosition
          /\ handler'.todo = Tail(handler.todo) /\ handler'.failure = handler.failure
          /\ submitCh' = submitCh
      BY <1>2 DEF DemotePosition, Control
    <2>2. slots[writePosition] = Head(handler.todo)
      BY <2>1 DEF Control, PushPosition
    <2>3. Contents' = Append(Contents, Head(handler.todo))
      BY <2>1, <2>2, PushPositionPushes DEF FIFO!Push
    <2>4. \A k \in 1..6 : k # 1 /\ k # 4 => Places'[k] = Places[k]
      BY <1>0, <1>k, <2>1, PlacesAre
    <2>5. /\ Places[1] = handler.todo /\ Places[4] = Contents
          /\ Places'[1] = Tail(handler.todo)
          /\ Places'[4] = Append(Contents, Head(handler.todo))
      BY <2>1, <2>3, PlacesAre
    <2>6. /\ Range(Places'[1]) \cup Range(Places'[4]) = Range(Places[1]) \cup Range(Places[4])
          /\ Once(Places[1]) /\ Once(Places[4]) /\ Apart(Places[1], Places[4])
               => Once(Places'[1]) /\ Once(Places'[4]) /\ Apart(Places'[1], Places'[4])
      BY <1>t, <2>1, <2>5, MoveHead, SMTT(60)
    <2>7. 1 \in 1..6 /\ 4 \in 1..6 /\ 1 # 4
      BY SMTT(60)
    <2>8. Moved(1, 4)
      BY <2>4, <2>6, <2>7 DEF Moved
    <2> QED
      BY <1>0, <2>8, PlacedMove
  <1>3. CASE DemoteFails
    <2>1. /\ handler.todo # <<>> /\ PushFails
          /\ handler'.todo = Tail(handler.todo)
          /\ handler'.failure = Append(handler.failure, Head(handler.todo))
          /\ submitCh' = submitCh
      BY <1>3 DEF DemoteFails, Control
    <2>2. Contents' = Contents
      BY <2>1 DEF PushFails, Contents, Stored, First, Idle
    <2>3. \A k \in 1..6 : k # 1 /\ k # 2 => Places'[k] = Places[k]
      BY <1>0, <1>k, <2>1, <2>2, PlacesAre
    <2>4. /\ Places[1] = handler.todo /\ Places[2] = handler.failure
          /\ Places'[1] = Tail(handler.todo)
          /\ Places'[2] = Append(handler.failure, Head(handler.todo))
      BY <2>1, PlacesAre
    <2>5. /\ Range(Places'[1]) \cup Range(Places'[2]) = Range(Places[1]) \cup Range(Places[2])
          /\ Once(Places[1]) /\ Once(Places[2]) /\ Apart(Places[1], Places[2])
               => Once(Places'[1]) /\ Once(Places'[2]) /\ Apart(Places'[1], Places'[2])
      BY <1>t, <2>1, <2>4, MoveHead, SMTT(60)
    <2>6. 1 \in 1..6 /\ 2 \in 1..6 /\ 1 # 2
      BY SMTT(60)
    <2>7. Moved(1, 2)
      BY <2>3, <2>5, <2>6 DEF Moved
    <2> QED
      BY <1>0, <2>7, PlacedMove
  <1>4. CASE DemoteDone
    <2>1. /\ handler'.todo = handler.todo /\ handler'.failure = handler.failure
          /\ UNCHANGED <<submitCh, queueVars>>
      BY <1>4 DEF DemoteDone, Waiting, Control
    <2>2. Contents' = Contents
      BY <2>1, ContentsSame
    <2>3. Places' = Places
      BY <1>0, <2>1, <2>2 DEF Places, Loop, Unmined
    <2> QED
      BY <1>0, <2>3, GoodSame DEF Placed
  <1>5. CASE Send
    <2>1. /\ handler.todo = <<>> /\ handler'.todo = <<>> /\ handler'.failure = <<>>
          /\ submitCh' = Append(submitCh, handler.failure)
          /\ UNCHANGED queueVars /\ submitCh \in Seq(Seq(Item))
      BY <1>5 DEF Send, Waiting, Control
    <2>2. Contents' = Contents
      BY <2>1, ContentsSame
    <2>3. \A k \in 1..6 : k # 2 /\ k # 3 => Places'[k] = Places[k]
      BY <1>0, <1>k, <2>1, <2>2, PlacesAre
    <2>4. /\ Places[2] = handler.failure /\ Places[3] = Flatten(submitCh)
          /\ Places'[2] = <<>> /\ Places'[3] = Flatten(Append(submitCh, handler.failure))
      BY <2>1, PlacesAre
    <2>5. /\ Range(Places'[3]) = Range(Places[3]) \cup Range(Places[2])
          /\ Once(Places'[3]) <=> Once(Places[3]) /\ Once(Places[2]) /\ Apart(Places[3], Places[2])
      BY <1>t, <2>1, <2>4, FlattenAppend, SMTT(60)
    <2>6. Range(Places'[2]) = {} /\ Once(Places'[2])
      BY <2>4, EmptyFacts
    <2>7. /\ Range(Places'[2]) \cup Range(Places'[3]) = Range(Places[2]) \cup Range(Places[3])
          /\ Once(Places[2]) /\ Once(Places[3]) /\ Apart(Places[2], Places[3])
               => Once(Places'[2]) /\ Once(Places'[3]) /\ Apart(Places'[2], Places'[3])
      BY <2>5, <2>6 DEF Apart
    <2>8. 2 \in 1..6 /\ 3 \in 1..6 /\ 2 # 3
      BY SMTT(60)
    <2>9. Moved(2, 3)
      BY <2>3, <2>7, <2>8 DEF Moved
    <2> QED
      BY <1>0, <2>9, PlacedMove
  <1> QED
    BY <1>1, <1>2, <1>3, <1>4, <1>5 DEF HandlerStep

\* The loop takes a batch from the channel, whole or without those it does not want.
LEMMA TakePlaced ==
  ASSUME QueueInv, Control, Nonces, Placed, UNCHANGED <<submitted, shifted, queueVars>>,
         done \cup excused \subseteq done' \cup excused',
         submitCh # <<>>, submitCh' = Tail(submitCh), UNCHANGED <<handler, pool, nonce>>,
         Loop = <<>>, Once(Head(submitCh)) => Once(Loop'),
         Range(Loop') \subseteq Range(Head(submitCh)),
         Range(Head(submitCh)) \subseteq Range(Loop') \cup (done' \cup excused')
  PROVE  Placed'
  <1>1. \A k \in 1..6 : k = 1 \/ k = 2 \/ k = 3 \/ k = 4 \/ k = 5 \/ k = 6
    BY SMTT(60)
  <1>2. Contents' = Contents /\ Unmined' = Unmined
    BY ContentsSame DEF Unmined
  <1>3. \A k \in 1..6 : k # 3 /\ k # 5 => Places'[k] = Places[k]
    BY <1>1, <1>2, PlacesAre
  <1>4. /\ Places[3] = Flatten(submitCh) /\ Places'[3] = Flatten(Tail(submitCh))
        /\ Places[5] = <<>> /\ Places'[5] = Loop'
    BY PlacesAre
  <1>5. /\ Range(Places[3]) = Range(Places'[3]) \cup Range(Head(submitCh))
        /\ Once(Places[3]) <=>
             Once(Places'[3]) /\ Once(Head(submitCh)) /\ Apart(Places'[3], Head(submitCh))
    BY <1>4, FlattenHeadTail DEF Control
  <1>6. Range(Places[5]) = {}
    BY <1>4, EmptyFacts
  <1>7. /\ Range(Places'[3]) \cup Range(Places'[5]) \subseteq Range(Places[3]) \cup Range(Places[5])
        /\ Range(Places[3]) \cup Range(Places[5])
             \subseteq Range(Places'[3]) \cup Range(Places'[5]) \cup (done' \cup excused')
        /\ Once(Places[3]) => Once(Places'[3]) /\ Once(Places'[5]) /\ Apart(Places'[3], Places'[5])
    <2>1. Range(Places'[5]) = Range(Loop') /\ (Once(Places'[5]) <=> Once(Loop'))
      BY <1>4
    <2> QED
      BY <1>5, <1>6, <2>1 DEF Apart
  <1>8. 3 \in 1..6 /\ 5 \in 1..6 /\ 3 # 5
    BY SMTT(60)
  <1>9. Moved(3, 5)
    BY <1>3, <1>7, <1>8 DEF Moved
  <1> QED
    BY <1>9, PlacedMove

\* The three steps that take a batch from the channel.
LEMMA BatchPlaced ==
  ASSUME QueueInv, Control, Nonces, Placed, TakeBatch \/ TakeBatchUnsigned \/ DrainTake
  PROVE  Placed'
  <1> DEFINE h == Head(submitCh)
  <1>0. /\ submitCh # <<>> /\ submitCh' = Tail(submitCh) /\ h \in Seq(Item)
        /\ UNCHANGED <<submitted, shifted, queueVars, handler, pool, nonce>>
        /\ done \cup excused \subseteq done' \cup excused'
        /\ Loop = <<>>
    BY FlattenHeadTail
    DEF TakeBatch, TakeBatchUnsigned, DrainTake, env, history, Control, Loop
  <1>1. /\ Open(h) \in Seq(Item) /\ Range(Open(h)) = Range(h) \ done
        /\ Once(h) => Once(Open(h))
    BY <1>0, WithoutFacts DEF Open
  <1>2. CASE TakeBatch
    <2>1. Loop' = Open(h) /\ done' = done
      BY <1>2 DEF TakeBatch, Loop, Select, env
    <2>2. /\ Once(h) => Once(Loop')
          /\ Range(Loop') \subseteq Range(h)
          /\ Range(h) \subseteq Range(Loop') \cup (done' \cup excused')
      BY <1>1, <2>1
    <2> QED
      BY <1>0, <2>2, TakePlaced
  <1>3. CASE TakeBatchUnsigned
    <2>1. PICK r : /\ exe' = [Select EXCEPT !.pc = "add", !.first = GetNonce,
                                            !.txs = Without(Open(h), {r})]
                   /\ excused' = excused \cup {r}
      BY <1>3 DEF TakeBatchUnsigned
    <2>2. Loop' = Without(Open(h), {r}) /\ done' = done
      BY <1>3, <2>1 DEF TakeBatchUnsigned, Loop, Select, env
    <2>3. /\ Range(Without(Open(h), {r})) = Range(Open(h)) \ {r}
          /\ Once(Open(h)) => Once(Without(Open(h), {r}))
      BY <1>1, WithoutFacts, SMTT(60)
    <2>4. /\ Once(h) => Once(Loop')
          /\ Range(Loop') \subseteq Range(h)
          /\ Range(h) \subseteq Range(Loop') \cup (done' \cup excused')
      BY <1>1, <2>1, <2>2, <2>3
    <2> QED
      BY <1>0, <2>4, TakePlaced
  <1>4. CASE DrainTake
    <2>1. Loop' = h
      BY <1>4 DEF DrainTake, Loop, Control
    <2>2. /\ Once(h) => Once(Loop')
          /\ Range(Loop') \subseteq Range(h)
          /\ Range(h) \subseteq Range(Loop') \cup (done' \cup excused')
      BY <2>1
    <2> QED
      BY <1>0, <2>2, TakePlaced
  <1> QED
    BY <1>2, <1>3, <1>4

\* A suffix of a concatenation.
LEMMA SuffixConcat ==
  ASSUME NEW S, NEW s \in Seq(S), NEW t \in Seq(S), NEW a \in Nat, a <= Len(s)
  PROVE  SubSeq(s \o t, a + 1, Len(s \o t)) = SubSeq(s, a + 1, Len(s)) \o t
  <1> DEFINE u == s \o t
             v == SubSeq(s, a + 1, Len(s))
             w == SubSeq(u, a + 1, Len(u))
             x == v \o t
             k == Len(s)
             l == Len(t)
  <1>1. /\ u \in Seq(S) /\ Len(u) = k + l /\ k \in Nat /\ l \in Nat /\ a <= k
        /\ \A i \in 1..(k + l) : u[i] = IF i <= k THEN s[i] ELSE t[i - k]
    BY SMTT(60)
  <1>2. /\ v \in Seq(S) /\ Len(v) = k - a
        /\ \A i \in 1..(k - a) : v[i] = s[a + i]
    BY SuffixFacts
  <1> HIDE DEF v, k, l
  <1>3. x \in Seq(S) /\ Len(x) = Len(v) + Len(t)
    <2>1. v \in Seq(S) /\ t \in Seq(S)
      BY <1>2
    <2> QED
      BY ONLY <2>1, SMTT(60)
  <1>4. \A i \in 1..(Len(v) + Len(t)) : x[i] = IF i <= Len(v) THEN v[i] ELSE t[i - Len(v)]
    <2>1. v \in Seq(S) /\ t \in Seq(S)
      BY <1>2
    <2> QED
      BY ONLY <2>1, SMTT(60) DEF x
  <1> HIDE DEF x, u
  <1>5. a <= Len(u)
    BY <1>1, SMTT(60)
  <1>6. /\ w \in Seq(S) /\ Len(w) = Len(u) - a
        /\ \A i \in 1..(Len(u) - a) : w[i] = u[a + i]
    BY <1>1, <1>5, SuffixFacts
  <1> HIDE DEF w
  <1>7. Len(x) = (k - a) + l /\ Len(w) = (k - a) + l
    BY <1>1, <1>2, <1>3, <1>6, SMTT(60) DEF l
  <1>8. ASSUME NEW i \in 1..((k - a) + l)
        PROVE  w[i] = x[i]
    <2>1. PICK j : j = a + i
      OBVIOUS
    <2>2. /\ i \in Nat /\ j \in 1..(k + l) /\ i \in 1..(Len(u) - a)
          /\ j <= k <=> i <= k - a
          /\ j - k = i - (k - a)
          /\ i \in 1..(k - a) \/ ~(i <= k - a)
      BY <1>1, <2>1, SMTT(60)
    <2>3. w[i] = IF i <= k - a THEN s[j] ELSE t[j - k]
      <3>1. w[i] = u[j]
        BY <1>6, <2>1, <2>2
      <3>2. u[j] = IF j <= k THEN s[j] ELSE t[j - k]
        BY <1>1, <2>2
      <3> QED
        BY <2>2, <3>1, <3>2
    <2>4. x[i] = IF i <= k - a THEN v[i] ELSE t[i - (k - a)]
      <3>1. i \in 1..(Len(v) + Len(t)) /\ Len(v) = k - a
        BY <1>2 DEF l
      <3> QED
        BY <1>4, <3>1
    <2>5. i \in 1..(k - a) => v[i] = s[j]
      BY <1>2, <2>1
    <2> QED
      BY <2>2, <2>3, <2>4, <2>5
  <1>9. w = x
    BY <1>3, <1>6, <1>7, <1>8, SMTT(60)
  <1> QED
    BY <1>9 DEF w, x, u, v

\* The loop adds what it holds to the pool.
LEMMA AddPlaced ==
  ASSUME QueueInv, Control, Nonces, Placed, AddBatch
  PROVE  Placed'
  <1> DEFINE s == pool.txs
             t == exe.txs
             a == nonce - pool.first
             u == s \o t
  <1>1. /\ s \in Seq(Item) /\ t \in Seq(Item) /\ a \in Nat /\ a <= Len(s)
        /\ Len(s) \in Nat /\ Len(t) \in Nat
    <2>1. /\ s \in Seq(Item) /\ t \in Seq(Item) /\ pool.first \in Nat /\ nonce \in Nat
          /\ pool.first <= nonce /\ nonce <= pool.first + Len(s)
      BY DEF Nonces, Control, GetNonce
    <2> HIDE DEF s, t
    <2> QED
      BY <2>1, SMTT(60)
  <1>2. pool'.first = pool.first /\ pool'.txs = u
    BY AddFacts
  <1>3. /\ UNCHANGED <<submitted, shifted, done, excused, handler, submitCh, queueVars, nonce>>
        /\ Loop = t /\ Loop' = <<>>
    BY DEF AddBatch, history, Loop, Select
  <1>4. u \in Seq(Item) /\ Len(u) = Len(s) + Len(t)
    BY <1>1, SMTT(60)
  <1>5. Unmined = SubSeq(s, a + 1, Len(s)) /\ Unmined' = SubSeq(u, a + 1, Len(u))
    BY <1>2, <1>3 DEF Unmined
  <1>6. Unmined' = Unmined \o t
    BY <1>1, <1>5, SuffixConcat
  <1> HIDE DEF s, t, a, u
  <1>7. Unmined \in Seq(Item)
    BY PlacesTypes
  <1>8. /\ Range(Unmined') = Range(Unmined) \cup Range(t)
        /\ Once(Unmined') <=> Once(Unmined) /\ Once(t) /\ Apart(Unmined, t)
    BY <1>1, <1>6, <1>7, ConcatFacts
  <1>9. Contents' = Contents
    BY <1>3, ContentsSame
  <1>10. \A k \in 1..6 : k = 1 \/ k = 2 \/ k = 3 \/ k = 4 \/ k = 5 \/ k = 6
    BY SMTT(60)
  <1>11. \A k \in 1..6 : k # 5 /\ k # 6 => Places'[k] = Places[k]
    BY <1>3, <1>9, <1>10, PlacesAre
  <1>12. /\ Places[5] = t /\ Places'[5] = <<>>
         /\ Places[6] = Unmined /\ Places'[6] = Unmined'
    BY <1>3, PlacesAre
  <1>13. /\ Range(Places'[5]) \cup Range(Places'[6]) = Range(Places[5]) \cup Range(Places[6])
         /\ Once(Places[5]) /\ Once(Places[6]) /\ Apart(Places[5], Places[6])
              => Once(Places'[5]) /\ Once(Places'[6]) /\ Apart(Places'[5], Places'[6])
    <2>1. Apart(t, Unmined) <=> Apart(Unmined, t)
      BY DEF Apart
    <2>2. Range(Places'[5]) = {} /\ Once(Places'[5])
      BY <1>12, EmptyFacts
    <2>3. Apart(Places'[5], Places'[6])
      BY <2>2 DEF Apart
    <2>4. Range(Places'[6]) = Range(Places[6]) \cup Range(Places[5])
      BY <1>8, <1>12
    <2>5. Once(Places[5]) /\ Once(Places[6]) /\ Apart(Places[5], Places[6])
            => Once(Places'[6])
      BY <1>8, <1>12, <2>1
    <2> QED
      BY <2>2, <2>3, <2>4, <2>5
  <1>14. 5 \in 1..6 /\ 6 \in 1..6 /\ 5 # 6
    BY SMTT(60)
  <1>15. Moved(5, 6)
    BY <1>3, <1>11, <1>13, <1>14 DEF Moved
  <1> QED
    BY <1>3, <1>15, PlacedMove

\* The places lose what is done or excused, and nothing is added to them.
LEMMA PlacedShrink ==
  ASSUME Placed, UNCHANGED <<submitted, shifted>>,
         done \cup excused \subseteq done' \cup excused',
         \A k \in 1..6 : Range(Places'[k]) \subseteq Range(Places[k]),
         \A k \in 1..6 : Range(Places[k]) \subseteq Range(Places'[k]) \cup (done' \cup excused'),
         \A k \in 1..6 : Once(Places[k]) => Once(Places'[k])
  PROVE  Placed'
  <1> DEFINE p == Places
             q == Places'
             D == done \cup excused
             E == done' \cup excused'
  <1>1. /\ Good(p, submitted, D, shifted) /\ D \subseteq E
        /\ \A k \in 1..6 : Range(q[k]) \subseteq Range(p[k])
        /\ \A k \in 1..6 : Range(p[k]) \subseteq Range(q[k]) \cup E
        /\ \A k \in 1..6 : Once(p[k]) => Once(q[k])
    BY DEF Placed
  <1> HIDE DEF p, q, D, E
  <1>2. Good(q, submitted, E, shifted)
    BY <1>1, GoodShrink
  <1> QED
    BY <1>2 DEF Placed, q, E

\* One place loses its first item.
LEMMA PlacedDrop ==
  ASSUME Placed, UNCHANGED <<submitted, shifted>>,
         done \cup excused \subseteq done' \cup excused',
         NEW a \in 1..6, Places[a] \in Seq(Item), Places[a] # <<>>,
         Places'[a] = Tail(Places[a]), Head(Places[a]) \in done' \cup excused',
         \A k \in 1..6 : k # a => Places'[k] = Places[k]
  PROVE  Placed'
  <1>1. /\ Range(Places[a]) = Range(Places'[a]) \cup {Head(Places[a])}
        /\ Once(Places[a]) => Once(Places'[a])
    BY HeadTailFacts, SMTT(60)
  <1>2. ASSUME NEW k \in 1..6
        PROVE  /\ Range(Places'[k]) \subseteq Range(Places[k])
               /\ Range(Places[k]) \subseteq Range(Places'[k]) \cup (done' \cup excused')
               /\ Once(Places[k]) => Once(Places'[k])
    <2>1. CASE k = a
      BY <1>1, <2>1
    <2>2. CASE k # a
      BY <2>2
    <2> QED
      BY <2>1, <2>2
  <1> QED
    BY <1>2, PlacedShrink

\* The steps of Pop.
LEMMA PopPlaced ==
  ASSUME QueueInv, Control, Nonces, Placed,
         \/ PromotePop \/ PromotePopped \/ PromoteEnd
         \/ PromoteUnsigned \/ PromotePopFails
  PROVE  Placed'
  <1>0. /\ UNCHANGED <<submitted, shifted, done, handler, submitCh, pool, nonce>>
        /\ done \cup excused \subseteq done' \cup excused'
        /\ Unmined' = Unmined /\ exe.pc = "pop" /\ Loop = exe.txs
    BY
    DEF PromotePop, PromotePopped, PromoteEnd, PromoteUnsigned, PromotePopFails, env,
           history, Loop, Unmined
  <1>t. Contents \in Seq(Item) /\ Loop \in Seq(Item)
    BY PlacesTypes
  <1>k. \A k \in 1..6 : k = 1 \/ k = 2 \/ k = 3 \/ k = 4 \/ k = 5 \/ k = 6
    BY SMTT(60)
  <1>1. CASE PromotePop
    <2>1. Contents' = Contents /\ Loop' = Loop
      BY <1>1, PopDeleteStutters DEF PromotePop, Loop
    <2> QED
      BY <1>0, <2>1, PlacedSame
  <1>2. CASE PromoteEnd
    <2>1. UNCHANGED queueVars /\ Loop' = Loop
      BY <1>2 DEF PromoteEnd, Loop, Control
    <2>2. Contents' = Contents
      BY <2>1, ContentsSame
    <2> QED
      BY <1>0, <2>1, <2>2, PlacedSame
  <1>3. CASE PromotePopped
    <2>1. op.kind = "pop" /\ PopPosition /\ op.item \in Item /\ excused' = excused
      BY <1>3 DEF PromotePopped, PopPosition, QueueInv, history
    <2>2. Contents # <<>> /\ Head(Contents) = op.item /\ Contents' = Tail(Contents)
      BY <2>1, PopContents, PopPositionPops DEF FIFO!Pop
    <2>3. Loop' = Loop \o Open(<<op.item>>)
      BY <1>0, <1>3 DEF PromotePopped, Loop, Control
    <2>4. <<op.item>> \in Seq(Item) /\ Range(<<op.item>>) = {op.item} /\ Once(<<op.item>>)
      BY <2>1, SMTT(60) DEF Range, Once
    <2>5. /\ Open(<<op.item>>) \in Seq(Item) /\ Range(Open(<<op.item>>)) = {op.item} \ done
          /\ Once(Open(<<op.item>>))
      <3> DEFINE s == <<op.item>>
      <3>1. s \in Seq(Item) /\ Range(s) = {op.item} /\ Once(s)
        BY <2>4
      <3> HIDE DEF s
      <3>2. /\ Without(s, done) \in Seq(Item) /\ Range(Without(s, done)) = Range(s) \ done
            /\ Once(Without(s, done))
        BY <3>1, WithoutFacts
      <3>3. Open(<<op.item>>) = Without(s, done)
        BY DEF Open, s
      <3> QED
        BY <3>1, <3>2, <3>3
    <2>6. /\ Range(Loop') = Range(Loop) \cup ({op.item} \ done)
          /\ Once(Loop') <=> Once(Loop) /\ Apart(Loop, Open(<<op.item>>))
      BY <1>t, <2>3, <2>5, ConcatFacts, SMTT(60)
    <2>7. /\ Range(Contents) = Range(Contents') \cup {op.item}
          /\ Once(Contents) <=> Once(Contents') /\ op.item \notin Range(Contents')
      BY <1>t, <2>2, HeadTailFacts, SMTT(60)
    <2>8. \A k \in 1..6 : k # 4 /\ k # 5 => Places'[k] = Places[k]
      BY <1>0, <1>k, PlacesAre
    <2>9. /\ Places[4] = Contents /\ Places'[4] = Contents'
          /\ Places[5] = Loop /\ Places'[5] = Loop'
      BY PlacesAre
    <2>10. /\ Range(Contents') \cup Range(Loop') \subseteq Range(Contents) \cup Range(Loop)
           /\ Range(Contents) \cup Range(Loop) \subseteq Range(Contents') \cup Range(Loop') \cup done
           /\ Once(Contents) /\ Once(Loop) /\ Apart(Contents, Loop)
                => Once(Contents') /\ Once(Loop') /\ Apart(Contents', Loop')
      BY <2>5, <2>6, <2>7 DEF Apart
    <2>11. 4 \in 1..6 /\ 5 \in 1..6 /\ 4 # 5
      BY SMTT(60)
    <2>12. /\ Range(Places'[4]) \cup Range(Places'[5])
                \subseteq Range(Places[4]) \cup Range(Places[5])
           /\ Range(Places[4]) \cup Range(Places[5])
                \subseteq Range(Places'[4]) \cup Range(Places'[5]) \cup (done' \cup excused')
           /\ Once(Places[4]) /\ Once(Places[5]) /\ Apart(Places[4], Places[5])
                => Once(Places'[4]) /\ Once(Places'[5]) /\ Apart(Places'[4], Places'[5])
      BY <1>0, <2>9, <2>10
    <2>13. Moved(4, 5)
      BY <2>8, <2>11, <2>12 DEF Moved
    <2> QED
      BY <1>0, <2>13, PlacedMove
  <1>4. CASE PromoteUnsigned \/ PromotePopFails
    <2>1. op.kind = "pop" /\ excused' = excused \cup {op.item} /\ Loop' = Loop
      BY <1>0, <1>4 DEF PromoteUnsigned, PromotePopFails, PopPosition, PopFails, Loop, Control
    <2>2. Contents # <<>> /\ Head(Contents) = op.item
      BY <2>1, PopContents
    <2>3. Contents' = Tail(Contents)
      <3>1. CASE PromoteUnsigned
        BY <3>1, PopPositionPops DEF PromoteUnsigned, FIFO!Pop
      <3>2. CASE PromotePopFails
        BY <3>2, PopCutOffDrops DEF PromotePopFails, PopFails, FIFO!Drop
      <3> QED
        BY <1>4, <3>1, <3>2
    <2>4. \A k \in 1..6 : k # 4 => Places'[k] = Places[k]
      BY <1>0, <1>k, <2>1, PlacesAre
    <2>5. Places[4] = Contents /\ Places'[4] = Tail(Places[4])
      BY <2>3, PlacesAre
    <2>6. /\ Places[4] \in Seq(Item) /\ Places[4] # <<>>
          /\ Head(Places[4]) \in done' \cup excused' /\ 4 \in 1..6
      BY <1>t, <2>1, <2>2, <2>5, SMTT(60)
    <2> QED
      BY <1>0, <2>4, <2>5, <2>6, PlacedDrop
  <1> QED
    BY <1>1, <1>2, <1>3, <1>4

\* The steps of the loop when it stops, and its start.
LEMMA DrainPlaced ==
  ASSUME QueueInv, Control, Nonces, Placed,
         Stop \/ DrainItem \/ DrainPosition \/ DrainFails \/ DrainEnd \/ Start
  PROVE  Placed'
  <1>0. /\ UNCHANGED <<submitted, shifted, done, handler, submitCh, pool, nonce>>
        /\ done \cup excused \subseteq done' \cup excused'
        /\ Unmined' = Unmined
    BY
    DEF Stop, DrainItem, DrainPosition, DrainFails, DrainEnd, Start, env, history, Unmined
  <1>t. Contents \in Seq(Item) /\ Loop \in Seq(Item)
    BY PlacesTypes
  <1>k. \A k \in 1..6 : k = 1 \/ k = 2 \/ k = 3 \/ k = 4 \/ k = 5 \/ k = 6
    BY SMTT(60)
  <1>1. CASE Stop \/ DrainEnd
    <2>1. UNCHANGED queueVars /\ Loop = <<>> /\ Loop' = <<>>
      BY <1>1 DEF Stop, DrainEnd, Loop, Control, Select
    <2>2. Contents' = Contents
      BY <2>1, ContentsSame
    <2> QED
      BY <1>0, <2>1, <2>2, PlacedSame
  <1>2. CASE DrainItem
    <2>1. /\ Loop' = Loop /\ Loop = exe.txs /\ exe.txs # <<>>
          /\ PushItem(Head(exe.txs))
      BY <1>2 DEF DrainItem, Loop
    <2>2. Head(exe.txs) \in Item
      BY <1>t, <2>1, HeadTailFacts
    <2>3. Contents' = Contents
      BY <2>1, <2>2, PushItemStutters
    <2> QED
      BY <1>0, <2>1, <2>3, PlacedSame
  <1>3. CASE DrainPosition
    <2>1. /\ exe.pc = "drain" /\ Loop = exe.txs /\ Loop # <<>> /\ Loop' = Tail(Loop)
          /\ PushPosition /\ handler.pc = "wait"
      BY <1>3 DEF DrainPosition, Control, Loop
    <2>2. slots[writePosition] = Head(Loop)
      BY <2>1 DEF Control, PushPosition
    <2>3. Contents' = Append(Contents, Head(Loop))
      BY <2>1, <2>2, PushPositionPushes DEF FIFO!Push
    <2>4. \A k \in 1..6 : k # 5 /\ k # 4 => Places'[k] = Places[k]
      BY <1>0, <1>k, <2>1, PlacesAre
    <2>5. /\ Places[5] = Loop /\ Places[4] = Contents
          /\ Places'[5] = Tail(Loop)
          /\ Places'[4] = Append(Contents, Head(Loop))
      BY <2>1, <2>3, PlacesAre
    <2>6. /\ Range(Places'[5]) \cup Range(Places'[4]) = Range(Places[5]) \cup Range(Places[4])
          /\ Once(Places[5]) /\ Once(Places[4]) /\ Apart(Places[5], Places[4])
               => Once(Places'[5]) /\ Once(Places'[4]) /\ Apart(Places'[5], Places'[4])
      BY <1>t, <2>1, <2>5, MoveHead
    <2>7. 5 \in 1..6 /\ 4 \in 1..6 /\ 5 # 4
      BY SMTT(60)
    <2>8. Moved(5, 4)
      BY <2>4, <2>6, <2>7 DEF Moved
    <2> QED
      BY <1>0, <2>8, PlacedMove
  <1>4. CASE DrainFails
    <2>1. /\ exe.pc = "drain" /\ Loop = exe.txs /\ Loop # <<>> /\ Loop' = Tail(Loop)
          /\ PushFails /\ excused' = excused \cup {op.item} /\ handler.pc = "wait"
      BY <1>4 DEF DrainFails, Control, Loop
    <2>2. op.item = Head(Loop)
      BY <2>1 DEF Control, PushFails
    <2>3. Contents' = Contents
      BY <2>1 DEF PushFails, Contents, Stored, First, Idle
    <2>4. \A k \in 1..6 : k # 5 => Places'[k] = Places[k]
      BY <1>0, <1>k, <2>3, PlacesAre
    <2>5. Places[5] = Loop /\ Places'[5] = Tail(Places[5])
      BY <2>1, PlacesAre
    <2>6. /\ Places[5] \in Seq(Item) /\ Places[5] # <<>>
          /\ Head(Places[5]) \in done' \cup excused' /\ 5 \in 1..6
      BY <1>t, <2>1, <2>2, <2>5, SMTT(60)
    <2> QED
      BY <1>0, <2>4, <2>5, <2>6, PlacedDrop
  <1>5. CASE Start
    <2>1. Loop = <<>> /\ Loop' = <<>> /\ op.kind # "pop" /\ NewQueueDB
      BY <1>5 DEF Start, Loop, Select, Control
    <2>2. Contents' = Contents
      BY <2>1 DEF NewQueueDB, QueueInv, Contents, Stored, First, Idle
    <2> QED
      BY <1>0, <2>1, <2>2, PlacedSame
  <1> QED
    BY <1>1, <1>2, <1>3, <1>4, <1>5

\* A crash loses what is in memory.
LEMMA CrashPlaced ==
  ASSUME QueueInv, Control, Nonces, Placed, Crash
  PROVE  Placed'
  <1>1. /\ UNCHANGED <<submitted, shifted, done, pool, nonce>>
        /\ excused' = excused \cup Volatile
        /\ Unmined' = Unmined /\ Loop' = <<>>
        /\ handler'.todo = <<>> /\ handler'.failure = <<>> /\ Flatten(submitCh') = <<>>
    BY EmptyFacts DEF Crash, env, Unmined, Loop, Select, Waiting
  <1>2. Contents \in Seq(Item)
    BY PlacesTypes
  <1>3. /\ Range(handler.todo) \cup Range(handler.failure) \subseteq Volatile
        /\ Range(Loop) \subseteq Volatile
        /\ op.kind = "pop" => op.item \in Volatile
    <2> DEFINE U == UNION {Range(submitCh[i]) : i \in DOMAIN submitCh}
               H == Range(handler.todo) \cup Range(handler.failure)
               L == IF exe.pc \in {"add", "pop", "promote", "drain"} THEN Range(exe.txs) ELSE {}
               P == IF op.kind = "pop" THEN {op.item} ELSE {}
    <2>0. Volatile = H \cup U \cup L \cup P
      BY DEF Volatile
    <2>p. op.kind = "pop" => op.item \in P
      OBVIOUS
    <2>l. exe.pc \in {"add", "pop", "promote", "drain"} => L = Range(exe.txs)
      OBVIOUS
    <2> HIDE DEF U, L, P
    <2>1. Range(handler.todo) \cup Range(handler.failure) \subseteq Volatile
      BY <2>0
    <2>2. op.kind = "pop" => op.item \in Volatile
      BY <2>0, <2>p
    <2>3. CASE exe.pc \in {"add", "pop", "promote", "drain"}
      <3>1. Loop = exe.txs /\ Range(exe.txs) \subseteq Volatile
        BY <2>0, <2>l, <2>3 DEF Loop
      <3> QED
        BY <2>1, <2>2, <3>1
    <2>4. CASE ~(exe.pc \in {"add", "pop", "promote", "drain"})
      <3>1. Loop = <<>>
        BY <2>4 DEF Loop
      <3> QED
        BY <2>1, <2>2, <3>1, EmptyFacts
    <2> QED
      BY <2>3, <2>4
  <1>4. Range(Flatten(submitCh)) \subseteq Volatile
    <2>1. submitCh \in Seq(Seq(Item)) /\ DOMAIN submitCh = 1..Len(submitCh)
      BY SMTT(60) DEF Control
    <2>2. Range(Flatten(submitCh)) = UNION {Range(submitCh[i]) : i \in 1..Len(submitCh)}
      BY <2>1, FlattenFacts
    <2> QED
      BY <2>1, <2>2 DEF Volatile
  <1>5. /\ Range(Contents') \subseteq Range(Contents)
        /\ Range(Contents) \subseteq Range(Contents') \cup Volatile
        /\ Once(Contents) => Once(Contents')
    <2>1. NewQueueDB
      BY DEF Crash
    <2>2. CASE op.kind = "pop"
      <3>1. /\ op' = Idle /\ got' = got /\ slots' = slots
            /\ readPosition' = readPosition /\ writePosition' = writePosition
        BY <2>1 DEF NewQueueDB, QueueInv
      <3>2. Contents # <<>> /\ Contents' = Tail(Contents) /\ Head(Contents) = op.item
        BY <2>2, <3>1, PopCutOffDrops, PopContents DEF FIFO!Drop
      <3>3. /\ Range(Contents) = Range(Contents') \cup {op.item}
            /\ Once(Contents) => Once(Contents')
        BY <1>2, <3>2, HeadTailFacts
      <3> QED
        BY <1>3, <2>2, <3>3
    <2>3. CASE op.kind # "pop"
      <3>1. Contents' = Contents
        BY <2>1, <2>3 DEF NewQueueDB, QueueInv, Contents, Stored, First, Idle
      <3> QED
        BY <3>1
    <2> QED
      BY <2>2, <2>3
  <1>6. ASSUME NEW k \in 1..6
        PROVE  /\ Range(Places'[k]) \subseteq Range(Places[k])
               /\ Range(Places[k]) \subseteq Range(Places'[k]) \cup Volatile
               /\ Once(Places[k]) => Once(Places'[k])
    <2>1. CASE k = 4
      BY <1>5, <2>1, PlacesAre
    <2>2. CASE k = 6
      BY <1>1, <2>2, PlacesAre
    <2>3. CASE k \in {1, 2, 3, 5}
      <3>1. Places'[k] = <<>>
        BY <1>1, <2>3, PlacesAre
      <3>2. Range(Places[k]) \subseteq Volatile
        BY <1>3, <1>4, <2>3, PlacesAre
      <3> QED
        BY <3>1, <3>2, EmptyFacts
    <2> QED
      BY <2>1, <2>2, <2>3, SMTT(60)
  <1>7. /\ done \cup excused \subseteq done' \cup excused'
        /\ Volatile \subseteq done' \cup excused'
    BY <1>1
  <1> QED
    BY <1>1, <1>6, <1>7, PlacedShrink

\* A block takes the next transaction of the pool.
LEMMA MinePlaced ==
  ASSUME QueueInv, Control, Nonces, Placed, Mine
  PROVE  Placed'
  <1> DEFINE s == pool.txs
             a == nonce - pool.first
  <1>1. /\ s \in Seq(Item) /\ pool.first \in Nat /\ nonce \in Nat
        /\ pool.first <= nonce /\ nonce < pool.first + Len(s)
    BY DEF Nonces, Mine, GetNonce
  <1>2. /\ UNCHANGED <<submitted, shifted, excused, handler, submitCh, exe, pool, queueVars>>
        /\ done' = done \cup {s[a + 1]} /\ nonce' = nonce + 1
    BY DEF Mine, history
  <1>3. Contents' = Contents /\ Loop' = Loop
    BY <1>2, ContentsSame DEF Loop
  <1>4. Unmined = SubSeq(s, a + 1, Len(s)) /\ Unmined' = SubSeq(s, (a + 1) + 1, Len(s))
    <2>1. nonce' - pool.first + 1 = (a + 1) + 1
      BY <1>1, <1>2, SMTT(60)
    <2> QED
      BY <1>2, <2>1 DEF Unmined
  <1>5. a \in Nat /\ a + 1 \in Nat /\ a + 1 <= Len(s) /\ a <= Len(s) /\ Len(s) \in Nat
    <2> HIDE DEF s
    <2> QED
      BY <1>1, SMTT(60)
  <1> HIDE DEF s, a
  <1>6. Unmined # <<>> /\ Head(Unmined) = s[a + 1] /\ Unmined' = Tail(Unmined)
    <2>1. /\ Unmined \in Seq(Item) /\ Len(Unmined) = Len(s) - a
          /\ \A i \in 1..(Len(s) - a) : Unmined[i] = s[a + i]
      BY <1>1, <1>4, <1>5, SuffixFacts
    <2>2. /\ Unmined' \in Seq(Item) /\ Len(Unmined') = Len(s) - (a + 1)
          /\ \A i \in 1..(Len(s) - (a + 1)) : Unmined'[i] = s[(a + 1) + i]
      BY <1>1, <1>4, <1>5, SuffixFacts
    <2>3. Unmined # <<>> /\ Head(Unmined) = Unmined[1] /\ 1 \in 1..(Len(s) - a)
      BY <1>5, <2>1, SMTT(60)
    <2> DEFINE t == Unmined
               u == Unmined'
               v == Tail(t)
               n == Len(s) - (a + 1)
    <2>4. /\ t \in Seq(Item) /\ Len(t) = n + 1 /\ n \in Nat
          /\ \A i \in 1..n : t[i + 1] = s[(a + 1) + i]
      <3>1. \A i \in 1..n : i + 1 \in 1..(Len(s) - a) /\ a + (i + 1) = (a + 1) + i
        BY <1>5, SMTT(60)
      <3>2. Len(s) - a = n + 1 /\ n \in Nat
        BY <1>5, SMTT(60)
      <3> HIDE DEF n
      <3> QED
        BY <2>1, <3>1, <3>2
    <2>5. u \in Seq(Item) /\ Len(u) = n /\ \A i \in 1..n : u[i] = s[(a + 1) + i]
      BY <2>2
    <2> HIDE DEF t, u, n
    <2>6. v \in Seq(Item) /\ Len(v) = n /\ \A i \in 1..n : v[i] = t[i + 1]
      BY <2>4, SMTT(60)
    <2> HIDE DEF v
    <2>7. u = v
      <3>1. \A i \in 1..n : u[i] = v[i]
        BY <2>4, <2>5, <2>6
      <3> QED
        BY <2>5, <2>6, <3>1, SMTT(60)
    <2> QED
      BY <2>1, <2>3, <2>7 DEF t, u, v
  <1>7. \A k \in 1..6 : k = 1 \/ k = 2 \/ k = 3 \/ k = 4 \/ k = 5 \/ k = 6
    BY SMTT(60)
  <1>8. \A k \in 1..6 : k # 6 => Places'[k] = Places[k]
    BY <1>2, <1>3, <1>7, PlacesAre
  <1>9. Places[6] = Unmined /\ Places'[6] = Tail(Places[6])
    BY <1>6, PlacesAre
  <1>10. /\ Places[6] \in Seq(Item) /\ Places[6] # <<>> /\ 6 \in 1..6
         /\ Head(Places[6]) \in done' \cup excused'
    BY <1>2, <1>6, <1>9, PlacesTypes, SMTT(60)
  <1>11. done \cup excused \subseteq done' \cup excused'
    BY <1>2
  <1> QED
    BY <1>2, <1>8, <1>9, <1>10, <1>11, PlacedDrop

\* The loop signs again: the places are the same while it does, and afterwards too
\* unless a signature failed between two others.
LEMMA SignPlaced ==
  ASSUME QueueInv, Control, Nonces, Given, Placed,
         \/ PromoteTransaction \/ SignAgain \/ Bump
         \/ \E k \in 1..AccountSlots : SignAgainFails(k)
  PROVE  Placed'
  <1>0. /\ UNCHANGED <<submitted, handler, submitCh, queueVars, nonce, done>>
        /\ excused \subseteq excused' /\ Loop = <<>> /\ Loop' = <<>>
        /\ shifted' = FALSE => shifted = FALSE
    <2>1. CASE PromoteTransaction \/ SignAgain \/ Bump
      <3>1. /\ UNCHANGED <<submitted, handler, submitCh, queueVars, nonce, done, excused, shifted>>
            /\ exe.pc \in {"select", "sign", "bump"}
        BY <2>1 DEF PromoteTransaction, SignAgain, Bump, env, history
      <3>2. exe'.pc \in {"sign", "bump", "select"} \/ exe'.txs = <<>>
        <4>1. CASE PromoteTransaction
          BY <4>1 DEF PromoteTransaction
        <4>3. CASE SignAgain
          BY <4>3 DEF SignAgain, Control
        <4>2. CASE Bump
          <5>1. PICK f : \/ exe' = Select
                         \/ exe' = [exe EXCEPT !.pc = "pop", !.txs = <<>>, !.first = f]
            BY <4>2 DEF Bump
          <5>2. CASE exe' = Select
            BY <5>2 DEF Select
          <5>3. CASE exe' = [exe EXCEPT !.pc = "pop", !.txs = <<>>, !.first = f]
            <6>1. exe' = [pc |-> "pop", txs |-> <<>>, first |-> f, idles |-> exe.idles]
              BY <5>3 DEF Control
            <6> QED
              BY <6>1
          <5> QED
            BY <5>1, <5>2, <5>3
        <4> QED
          BY <2>1, <4>1, <4>2, <4>3
      <3> QED
        BY <3>1, <3>2 DEF Loop
    <2>2. ASSUME NEW k \in 1..AccountSlots, SignAgainFails(k)
          PROVE  /\ UNCHANGED <<submitted, handler, submitCh, queueVars, nonce, done>>
                 /\ excused \subseteq excused' /\ Loop = <<>> /\ Loop' = <<>>
                 /\ shifted' = FALSE => shifted = FALSE
      <3>1. /\ UNCHANGED <<submitted, handler, submitCh, queueVars, nonce, done>>
            /\ excused \subseteq excused' /\ Loop = <<>>
        BY <2>2 DEF SignAgainFails, env, Loop
      <3>2. exe'.pc = "bump"
        BY <2>2 DEF SignAgainFails, Control
      <3>3. shifted' = FALSE => shifted = FALSE
        BY <2>2 DEF SignAgainFails, Control
      <3> QED
        BY <3>1, <3>2, <3>3 DEF Loop
    <2> QED
      BY <2>1, <2>2
  <1>1. Contents' = Contents
    BY <1>0, ContentsSame
  <1>2. CASE pool' = pool
    <2>1. Unmined' = Unmined
      BY <1>0, <1>2 DEF Unmined
    <2> QED
      BY <1>0, <1>1, <2>1, PlacedSame
  <1>3. CASE Bump
    <2> DEFINE s == pool.txs
               t == pool'.txs
               n == Len(s)
               a == nonce - pool.first
    <2>1. /\ pool'.first = pool.first /\ s \in Seq(Item) /\ t \in Seq(Item)
          /\ Len(t) = n /\ n \in Nat
          /\ \A i \in 1..n : \/ t[i] = s[i]
                             \/ t[i] \in Range(exe.txs) /\ shifted = TRUE /\ s[i] \in excused
      <3>1. s \in Seq(Item) /\ n \in Nat
        BY SMTT(60) DEF Nonces
      <3>2. pool' \in [first : Nat, txs : Seq(Item)] /\ pool'.first = pool.first /\ Len(t) = n
        BY <1>3, BumpFacts
      <3>3. \A i \in 1..n : \/ t[i] = s[i]
                            \/ t[i] \in Range(exe.txs) /\ shifted = TRUE /\ s[i] \in excused
        BY <1>3, BumpFacts
      <3>4. t \in Seq(Item)
        BY <3>2
      <3> HIDE DEF s, t, n
      <3> QED
        BY <3>1, <3>2, <3>3, <3>4
    <2>2. UNCHANGED <<shifted, excused>>
      BY <1>3 DEF Bump, history
    <2>3. a \in Nat /\ a <= n
      <3>1. pool.first \in Nat /\ nonce \in Nat /\ pool.first <= nonce /\ nonce <= pool.first + n
        BY DEF Nonces, GetNonce
      <3> HIDE DEF n
      <3> QED
        BY <2>1, <3>1, SMTT(60)
    <2>4. Unmined = SubSeq(s, a + 1, Len(s)) /\ Unmined' = SubSeq(t, a + 1, Len(t))
      BY <1>0, <2>1 DEF Unmined
    <2>5. CASE shifted = FALSE
      <3>1. \A i \in 1..n : t[i] = s[i]
        BY <2>1, <2>5
      <3> HIDE DEF s, t
      <3>2. t = s
        BY <2>1, <3>1, SMTT(60)
      <3>3. Unmined' = Unmined
        BY <2>4, <3>2
      <3> QED
        BY <1>0, <1>1, <3>3, PlacedSame
    <2>6. CASE shifted = TRUE
      <3>1. Range(s) \subseteq 1..submitted /\ Range(exe.txs) \subseteq 1..submitted
        BY DEF Given
      <3>2. Range(s) = {s[i] : i \in 1..n}
        BY <2>1, SMTT(60) DEF Range
      <3> HIDE DEF s, t, a
      <3>3. /\ Range(Unmined) = {s[i] : i \in (a + 1)..n}
            /\ Range(Unmined') = {t[i] : i \in (a + 1)..n}
        <4>0. s \in Seq(Item) /\ t \in Seq(Item) /\ a \in Nat /\ a <= Len(s) /\ a <= Len(t)
          BY <2>1, <2>3
        <4>1. Range(SubSeq(s, a + 1, Len(s))) = {s[i] : i \in (a + 1)..Len(s)}
          BY ONLY <4>0, SuffixRange, ZenonT(60)
        <4>2. Range(SubSeq(t, a + 1, Len(t))) = {t[i] : i \in (a + 1)..Len(t)}
          BY ONLY <4>0, SuffixRange, ZenonT(60)
        <4> QED
          BY <2>1, <2>4, <4>1, <4>2
      <3> DEFINE I == (a + 1)..n
      <3>4. \A i \in I : i \in 1..n
        BY <2>1, <2>3, SMTT(60)
      <3> HIDE DEF I, n
      <3>5. Range(Unmined') \subseteq 1..submitted
        BY <2>1, <3>1, <3>2, <3>3, <3>4 DEF I
      <3>6. Range(Unmined) \subseteq Range(Unmined') \cup (done \cup excused)
        BY <2>1, <3>3, <3>4 DEF I
      <3>7. \A k \in 1..6 : k = 1 \/ k = 2 \/ k = 3 \/ k = 4 \/ k = 5 \/ k = 6
        BY SMTT(60)
      <3> DEFINE p == Places
                 q == Places'
                 D == done \cup excused
      <3>8. /\ \A k \in 1..6 : k # 6 => q[k] = p[k]
            /\ p[6] = Unmined /\ q[6] = Unmined'
        BY <1>0, <1>1, <3>7, PlacesAre
      <3>9. Good(p, submitted, D, TRUE) /\ 6 \in 1..6
        <4>1. Good(Places, submitted, done \cup excused, shifted)
          BY DEF Placed
        <4> QED
          BY <4>1, SMTT(60) DEF Good
      <3> HIDE DEF p, q, D
      <3>10. Good(q, submitted, D, TRUE)
        <4>1. Range(q[6]) \subseteq 1..submitted /\ Range(p[6]) \subseteq Range(q[6]) \cup D
          BY <3>5, <3>6, <3>8 DEF D
        <4> QED
          BY <3>8, <3>9, <4>1, GoodReplace
      <3> QED
        BY <1>0, <2>2, <2>6, <3>10 DEF Placed, q, D
    <2> QED
      BY <2>5, <2>6 DEF Control
  <1> QED
    BY <1>2, <1>3 DEF PromoteTransaction, SignAgain, SignAgainFails, env

\* Every step.
LEMMA PlacedStep ==
  ASSUME QueueInv, Control, Nonces, Given, Placed, [Next]_vars
  PROVE  Placed'
  <1>1. CASE ResetPool
    <2>1. /\ UNCHANGED <<submitted, shifted, done, excused, handler, submitCh, exe, queueVars>>
          /\ Unmined' = Unmined
      BY <1>1, ResetNonces DEF ResetPool, history
    <2>2. Contents' = Contents /\ Loop' = Loop
      BY <2>1, ContentsSame DEF Loop
    <2> QED
      BY <2>1, <2>2, PlacedSame
  <1>2. CASE UNCHANGED vars \/ \E r \in Item : OtherAnchor(r)
    <2>1. /\ UNCHANGED <<submitted, shifted, excused, handler, submitCh, exe, queueVars,
                         pool, nonce>>
          /\ done \subseteq done'
      BY <1>2 DEF OtherAnchor, history, vars
    <2>2. Contents' = Contents /\ Loop' = Loop /\ Unmined' = Unmined
      BY <2>1, ContentsSame DEF Loop, Unmined
    <2> QED
      BY <2>1, <2>2, PlacedSame
  <1> QED
    BY <1>1, <1>2, SubmitPlaced, HandlerPlaced, BatchPlaced, AddPlaced, PopPlaced, DrainPlaced,
       CrashPlaced, MinePlaced, SignPlaced
    DEF Next, LoopStep, Fault

-----------------------------------------------------------------------------
(* The executor's invariant *)

\* Nothing but what was submitted is in the places.
LEMMA PlacesGiven ==
  ASSUME Placed
  PROVE  /\ Range(Flatten(submitCh)) \subseteq 1..submitted
         /\ Range(Contents) \subseteq 1..submitted
  <1>1. Range(Places[3]) \subseteq 1..submitted /\ Range(Places[4]) \subseteq 1..submitted
    <2>1. \A k \in 1..6 : Range(Places[k]) \subseteq 1..submitted
      BY DEF Placed, Good
    <2> QED
      BY <2>1, SMTT(60)
  <1> QED
    BY <1>1, PlacesAre

\* Neither the loop nor the pool holds anything else.
LEMMA GivenStep ==
  ASSUME QueueInv, Control, Nonces, Given, Placed, [Next]_vars
  PROVE  Given'
  <1>1. CASE \E n \in 1..MaxBatch : SubmitTransaction(n)
    <2>1. PICK n \in 1..MaxBatch : SubmitTransaction(n)
      BY <1>1
    <2>2. submitted' = submitted + n /\ exe' = exe /\ pool' = pool /\ submitted \in Nat
      BY <2>1 DEF SubmitTransaction, env, Control
    <2>3. 1..submitted \subseteq 1..submitted'
      BY <2>2, SMTT(60)
    <2> QED
      BY <2>2, <2>3 DEF Given
  <1>2. CASE \/ HandlerStep \/ DemoteFails \/ PromotePop \/ DrainItem \/ Mine
             \/ \E r \in Item : OtherAnchor(r)
             \/ UNCHANGED vars
    <2>1. UNCHANGED <<exe, pool, submitted>>
      BY <1>2 DEF HandlerStep, DemoteItem, DemotePosition, DemoteDone, Send, DemoteFails,
                  PromotePop, DrainItem, Mine, OtherAnchor, vars, env, history
    <2> QED
      BY <2>1 DEF Given
  <1>3. CASE TakeBatch \/ TakeBatchUnsigned \/ DrainTake
    <2> DEFINE h == Head(submitCh)
    <2>1. submitCh # <<>> /\ UNCHANGED <<pool, submitted>>
      BY <1>3 DEF TakeBatch, TakeBatchUnsigned, DrainTake, env, history
    <2>2. h \in Seq(Item) /\ Range(h) \subseteq 1..submitted
      BY <2>1, FlattenHeadTail, PlacesGiven DEF Control
    <2>3. Open(h) \in Seq(Item) /\ Range(Open(h)) \subseteq Range(h)
      BY <2>2, WithoutFacts, SMTT(60) DEF Open
    <2>4. \A r : Range(Without(Open(h), {r})) \subseteq Range(Open(h))
      BY <2>3, WithoutFacts, SMTT(60)
    <2>5. \E r : exe'.txs \in {h, Open(h), Without(Open(h), {r})}
      <3>1. CASE TakeBatch
        BY <3>1 DEF TakeBatch, Select
      <3>2. CASE TakeBatchUnsigned
        BY <3>2 DEF TakeBatchUnsigned, Select
      <3>3. CASE DrainTake
        BY <3>3 DEF DrainTake, Control
      <3> QED
        BY <1>3, <3>1, <3>2, <3>3
    <2>6. Range(exe'.txs) \subseteq Range(h)
      BY <2>3, <2>4, <2>5
    <2> QED
      BY <2>1, <2>2, <2>6 DEF Given
  <1>4. CASE AddBatch
    <2>1. exe'.txs = <<>> /\ submitted' = submitted /\ pool'.txs = pool.txs \o exe.txs
      BY <1>4, AddFacts DEF AddBatch, Select, history
    <2>2. pool.txs \in Seq(Item) /\ exe.txs \in Seq(Item)
      BY DEF Nonces, Control
    <2>3. Range(pool'.txs) = Range(pool.txs) \cup Range(exe.txs)
      BY <2>1, <2>2, ConcatFacts, SMTT(60)
    <2> QED
      BY <2>1, <2>3, EmptyFacts DEF Given
  <1>5. CASE PromoteTransaction
    BY <1>5 DEF PromoteTransaction, Given, env, history
  <1>6. CASE SignAgain \/ \E k \in 1..AccountSlots : SignAgainFails(k)
    <2>1. exe.pc = "sign" /\ UNCHANGED <<pool, submitted>>
      BY <1>6 DEF SignAgain, SignAgainFails, env, history
    <2>2. /\ Unpacked \in Seq(Item) /\ Packed \in Nat /\ Len(Unpacked) = Len(exe.txs) - Packed
          /\ \A i \in 1..Len(Unpacked) : Unpacked[i] = exe.txs[Packed + i]
          /\ AccountSlots \in Nat /\ exe.txs \in Seq(Item)
      BY <2>1, SignFacts, ExecutorAssumption DEF Control
    <2>3. \A i \in 1..Len(Unpacked) : Unpacked[i] \in Range(exe.txs)
      <3>1. \A i \in 1..Len(Unpacked) : Packed + i \in DOMAIN exe.txs
        BY <2>2, SMTT(60)
      <3> QED
        BY <2>2, <3>1 DEF Range
    <2>4. exe'.txs \in Seq(Item)
          /\ \A i \in 1..Len(exe'.txs) : \E j \in 1..Len(Unpacked) : exe'.txs[i] = Unpacked[j]
      <3>1. CASE SignAgain
        <4> DEFINE t == AtMost(AccountSlots, Unpacked)
        <4>1. exe'.txs = t
          BY <3>1 DEF SignAgain, Control
        <4>2. /\ t \in Seq(Item) /\ Len(t) <= Len(Unpacked)
              /\ \A i \in 1..Len(t) : t[i] = Unpacked[i]
          BY <2>2, AtMostFacts, SMTT(60)
        <4> HIDE DEF t
        <4>3. \A i \in 1..Len(t) : i \in 1..Len(Unpacked)
          BY <2>2, <4>2, SMTT(60)
        <4> QED
          BY <4>1, <4>2, <4>3
      <3>2. ASSUME NEW k \in 1..AccountSlots, SignAgainFails(k)
            PROVE  /\ exe'.txs \in Seq(Item)
                   /\ \A i \in 1..Len(exe'.txs) :
                        \E j \in 1..Len(Unpacked) : exe'.txs[i] = Unpacked[j]
        <4> DEFINE u == Unpacked
                   t == AtMost(AccountSlots, Skip(u, k))
        <4>1. exe'.txs = t /\ k \in DOMAIN u
          BY <3>2 DEF SignAgainFails, Control
        <4>2. u \in Seq(Item) /\ AccountSlots \in Nat /\ Len(u) \in Nat
          BY <2>2, SMTT(60)
        <4> HIDE DEF u
        <4>3. t \in Seq(Item) /\ Len(t) <= Len(u) - 1
          BY <4>1, <4>2, SignFailsFacts
        <4>4. \A i \in 1..Len(t) : t[i] = IF i < k THEN u[i] ELSE u[i + 1]
          BY <4>1, <4>2, SignFailsFacts
        <4> HIDE DEF t
        <4>5. \A i \in 1..Len(t) : i \in 1..Len(u) /\ i + 1 \in 1..Len(u)
          BY <4>2, <4>3, SMTT(60)
        <4>6. \A i \in 1..Len(t) : \E j \in 1..Len(u) : t[i] = u[j]
          BY <4>4, <4>5
        <4> QED
          BY <4>1, <4>3, <4>6 DEF u
      <3> QED
        BY <1>6, <3>1, <3>2
    <2>5. Range(exe'.txs) \subseteq Range(exe.txs)
      <3>1. DOMAIN exe'.txs = 1..Len(exe'.txs)
        BY <2>4, SMTT(60)
      <3> QED
        BY <2>3, <2>4, <3>1, SMTT(60) DEF Range
    <2> QED
      BY <2>1, <2>5 DEF Given
  <1>7. CASE Bump
    <2>1. submitted' = submitted /\ exe'.txs = <<>>
      <3>1. PICK f : \/ exe' = Select
                     \/ exe' = [exe EXCEPT !.pc = "pop", !.txs = <<>>, !.first = f]
        BY <1>7 DEF Bump
      <3>2. CASE exe' = Select
        BY <1>7, <3>2, SMTT(60) DEF Select, Bump, history
      <3>3. CASE exe' = [exe EXCEPT !.pc = "pop", !.txs = <<>>, !.first = f]
        <4>1. exe' = [pc |-> "pop", txs |-> <<>>, first |-> f, idles |-> exe.idles]
          BY <3>3 DEF Control
        <4> QED
          BY <1>7, <4>1, SMTT(60) DEF Bump, history
      <3> QED
        BY <3>1, <3>2, <3>3
    <2> DEFINE s == pool.txs
               t == pool'.txs
               n == Len(s)
    <2>2. s \in Seq(Item) /\ n \in Nat
      BY SMTT(60) DEF Nonces
    <2>3. pool' \in [first : Nat, txs : Seq(Item)] /\ Len(t) = n
      BY <1>7, BumpFacts
    <2>4. \A i \in 1..n : t[i] = s[i] \/ t[i] \in Range(exe.txs)
      BY <1>7, BumpFacts
    <2>5. t \in Seq(Item)
      BY <2>3
    <2> HIDE DEF s, t, n
    <2>6. DOMAIN t = 1..n /\ DOMAIN s = 1..n
      BY <2>2, <2>3, <2>5, SMTT(60) DEF n
    <2>7. Range(t) \subseteq Range(s) \cup Range(exe.txs)
      BY <2>4, <2>6 DEF Range
    <2> QED
      BY <2>1, <2>7, EmptyFacts DEF Given, s, t
  <1>8. CASE PromotePopped
    <2>1. op.kind = "pop" /\ op.item \in Item /\ UNCHANGED <<pool, submitted>>
      BY <1>8 DEF PromotePopped, PopPosition, QueueInv, env, history
    <2>2. op.item \in Range(Contents)
      BY <2>1, PopContents, PlacesTypes, HeadTailFacts
    <2>3. exe'.txs = exe.txs \o Open(<<op.item>>) /\ exe.txs \in Seq(Item)
      BY <1>8 DEF PromotePopped, Control
    <2> DEFINE s == <<op.item>>
    <2>4. s \in Seq(Item) /\ Range(s) = {op.item}
      BY <2>1, SMTT(60) DEF Range
    <2> HIDE DEF s
    <2>5. Open(s) \in Seq(Item) /\ Range(Open(s)) \subseteq Range(s)
      BY <2>4, WithoutFacts, SMTT(60) DEF Open
    <2>6. Range(exe'.txs) = Range(exe.txs) \cup Range(Open(s))
      BY <2>3, <2>5, ConcatFacts, SMTT(60) DEF s
    <2> QED
      BY <2>1, <2>2, <2>4, <2>5, <2>6, PlacesGiven DEF Given
  <1>9. CASE \/ PromoteEnd \/ PromoteUnsigned \/ PromotePopFails \/ DrainEnd
             \/ Stop \/ Start \/ Crash
    <2>1. UNCHANGED <<pool, submitted>> /\ (exe'.txs = exe.txs \/ exe'.txs = <<>>)
      BY <1>9, SMTT(60)
      DEF PromoteEnd, PromoteUnsigned, PromotePopFails, DrainEnd, Stop, Start, Crash,
                  Control, Select, env, history
    <2> QED
      BY <2>1, EmptyFacts DEF Given
  <1>10. CASE DrainPosition \/ DrainFails
    <2>1. UNCHANGED <<pool, submitted>> /\ exe'.txs = Tail(exe.txs) /\ exe.txs # <<>>
          /\ exe.txs \in Seq(Item)
      BY <1>10 DEF DrainPosition, DrainFails, Control, env, history
    <2>2. Range(exe'.txs) \subseteq Range(exe.txs)
      BY <2>1, HeadTailFacts
    <2> QED
      BY <2>1, <2>2 DEF Given
  <1>11. CASE ResetPool
    <2>1. UNCHANGED <<exe, submitted>> /\ Range(pool'.txs) \subseteq Range(pool.txs)
      BY <1>11, ResetNonces DEF ResetPool, history
    <2> QED
      BY <2>1 DEF Given
  <1> QED
    BY <1>1, <1>2, <1>3, <1>4, <1>5, <1>6, <1>7, <1>8, <1>9, <1>10, <1>11
    DEF Next, LoopStep, Fault

\* Where the goroutines are, the nonces they work with and the places of the
\* finish transactions stay as ExecutorInv says.
THEOREM ExecutorInvariant == Spec => []ExecutorInv
  <1>1. Init => ExecutorInv
    <2> SUFFICES ASSUME Init
                 PROVE  ExecutorInv
      OBVIOUS
    <2>1. QueueInv
      BY SMTT(60) DEF Init, QueueInit, QueueInv, Idle
    <2>2. Control
      <3>1. /\ submitted = 0 /\ shifted = FALSE /\ submitCh = <<>> /\ op.kind = "idle"
            /\ handler = [pc |-> "wait", todo |-> <<>>, failure |-> <<>>]
            /\ exe = [pc |-> "select", txs |-> <<>>, first |-> 0, idles |-> 0]
        BY DEF Init, Waiting, Select, QueueInit, Idle
      <3>2. submitted \in Nat /\ shifted \in BOOLEAN /\ submitCh \in Seq(Seq(Item))
        <4>1. shifted \in BOOLEAN
          BY <3>1
        <4>2. submitted \in Nat /\ submitCh \in Seq(Seq(Item))
          BY <3>1, SMTT(60)
        <4> QED
          BY <4>1, <4>2
      <3>3. /\ handler \in [pc : {"wait", "demote", "send"}, todo : Seq(Item),
                            failure : Seq(Item)]
            /\ handler.pc = "wait" /\ handler.todo = <<>> /\ handler.failure = <<>>
        BY <3>1, SMTT(60)
      <3>4. /\ exe \in [pc : {"select", "add", "sign", "bump", "pop", "promote", "drain",
                              "stopped"},
                        txs : Seq(Item), first : Nat, idles : Nat]
            /\ exe.pc = "select" /\ exe.txs = <<>>
        BY <3>1, SMTT(60)
      <3> QED
        BY <3>1, <3>2, <3>3, <3>4 DEF Control
    <2>3. Nonces
      BY SMTT(60) DEF Init, Nonces, GetNonce, Select
    <2>4. Given
      BY EmptyFacts DEF Init, Given, Select
    <2>5. Placed
      <3>1. Contents = <<>>
        <4>1. First \in Nat /\ writePosition \in Nat /\ writePosition <= First
          BY SMTT(60) DEF Init, QueueInit, First
        <4> QED
          BY <4>1, SliceEmpty DEF Init, QueueInit, Contents, Stored, Idle
      <3>2. Unmined = <<>>
        BY SMTT(60) DEF Init, Unmined
      <3>3. \A k \in 1..6 : Places[k] = <<>>
        <4>1. handler.todo = <<>> /\ handler.failure = <<>> /\ submitCh = <<>>
          BY DEF Init, Waiting
        <4>2. Loop = <<>>
          BY DEF Init, Select, Loop
        <4>3. \A k \in 1..6 : k = 1 \/ k = 2 \/ k = 3 \/ k = 4 \/ k = 5 \/ k = 6
          BY SMTT(60)
        <4> QED
          BY <3>1, <3>2, <4>1, <4>2, <4>3, PlacesAre, EmptyFacts
      <3>4. Disjoint(Places, 6)
        BY <3>3, EmptyFacts DEF Disjoint, Apart
      <3>5. 1..submitted = {}
        BY SMTT(60) DEF Init
      <3> QED
        BY <3>3, <3>4, <3>5, EmptyFacts DEF Placed, Good
    <2> QED
      BY <2>1, <2>2, <2>3, <2>4, <2>5 DEF ExecutorInv
  <1>2. Handed /\ ExecutorInv /\ [Next]_vars => ExecutorInv'
    <2> SUFFICES ASSUME Handed, ExecutorInv, [Next]_vars
                 PROVE  ExecutorInv'
      OBVIOUS
    <2>1. QueueInv /\ Control /\ Nonces /\ Given /\ Placed
      BY DEF ExecutorInv
    <2>2. QueueInv'
      BY <2>1, StepOfQueue, QueueStep
    <2>3. Control' /\ Nonces' /\ Given' /\ Placed'
      BY <2>1, ControlStep, NoncesStep, GivenStep, PlacedStep
    <2> QED
      BY <2>2, <2>3 DEF ExecutorInv
  <1> QED
    BY <1>1, <1>2, HandedInvariant, PTL DEF Spec

\* A finish transaction that SubmitTransaction was given is in a block, or in the
\* hands of the handler, the channel, the queue, the loop or the pool, or it was
\* excused: a crash found it in memory only, or a write or a signature failed.
THEOREM ExecutorForgetsNothing == Spec => []NothingForgotten
  <1>1. ExecutorInv => NothingForgotten
    <2> SUFFICES ASSUME Placed
                 PROVE  NothingForgotten
      BY DEF ExecutorInv
    <2>1. DOMAIN Places = 1..6
      BY SMTT(60) DEF Places
    <2>2. \A r \in 1..submitted : r \in done \cup excused \/ \E k \in 1..6 : r \in Range(Places[k])
      BY DEF Placed, Good
    <2> QED
      BY <2>1, <2>2 DEF NothingForgotten
  <1> QED
    BY <1>1, ExecutorInvariant, PTL

\* No finish transaction is in two of these places, or twice in one, as long as no
\* signature failed between two others that are signed again.
THEOREM ExecutorHoldsOnce == Spec => []HeldOnce
  <1>1. ExecutorInv => HeldOnce
    <2> SUFFICES ASSUME ExecutorInv, shifted = FALSE
                 PROVE  Once(Flatten(Places))
      <3>1. ExecutorInv => shifted \in BOOLEAN
        BY DEF ExecutorInv, Control
      <3> QED
        BY <3>1 DEF HeldOnce, Once
    <2>1. Disjoint(Places, 6)
      BY DEF ExecutorInv, Placed, Good
    <2>2. Places \in Seq(Seq(Item)) /\ Len(Places) = 6
      <3>1. /\ handler.todo \in Seq(Item) /\ handler.failure \in Seq(Item)
            /\ Flatten(submitCh) \in Seq(Item) /\ Contents \in Seq(Item)
            /\ Loop \in Seq(Item) /\ Unmined \in Seq(Item)
        BY PlacesTypes DEF ExecutorInv
      <3>2. Places = <<handler.todo, handler.failure, Flatten(submitCh), Contents, Loop,
                       Unmined>>
        BY DEF Places, Loop, Unmined
      <3> QED
        BY <3>1, <3>2, SMTT(60)
    <2> QED
      BY <2>1, <2>2, FlattenFacts
  <1> QED
    BY <1>1, ExecutorInvariant, PTL
=============================================================================
