------------------------------ MODULE QueueDB ------------------------------
(***************************************************************************)
(* The persistent queue of cross/database/queuedb.go: items under their    *)
(* position in a key-value store, and two more keys for the positions of   *)
(* the reader and the writer.  Push and Pop hold the mutex and make two    *)
(* writes each; the process may die, or the second write fail, between     *)
(* them.  A key that is not in the store makes Get fail, as it does in     *)
(* every ethdb.KeyValueStore.                                              *)
(***************************************************************************)
EXTENDS Integers, Sequences

CONSTANTS Item, NoItem

ASSUME NoItemAssumption == NoItem \notin Item

VARIABLES
  slots,         \* the items in the store, by position
  readPos,       \* the key _readPosition of the store
  writePos,      \* the key _writePosition of the store
  readPosition,  \* q.readPosition
  writePosition, \* q.writePosition
  op,            \* the operation that holds the mutex between its two writes
  got            \* what the last successful Pop returned

queueVars == <<slots, readPos, writePos, readPosition, writePosition, op, got>>

Idle == [kind |-> "idle", item |-> NoItem]

put(f, k, v) == [p \in DOMAIN f \cup {k} |-> IF p = k THEN v ELSE f[p]]

delete(f, k) == [p \in DOMAIN f \ {k} |-> f[p]]

QueueInit ==
  /\ slots = [p \in {} |-> NoItem]
  /\ readPos = 0 /\ writePos = 0
  /\ readPosition = 0 /\ writePosition = 0
  /\ op = Idle
  /\ got = NoItem

-----------------------------------------------------------------------------
(* Push *)

\* Mutant: the item goes where the next position will be.
PushItemNext(x) ==
  /\ op = Idle
  /\ slots' = put(slots, writePosition + 1, x)
  /\ op' = [kind |-> "push", item |-> x]
  /\ UNCHANGED <<readPos, writePos, readPosition, writePosition, got>>

PushItem(x) ==
  /\ op = Idle
  /\ slots' = put(slots, writePosition, x)
  /\ op' = [kind |-> "push", item |-> x]
  /\ UNCHANGED <<readPos, writePos, readPosition, writePosition, got>>

PushPosition ==
  /\ op.kind = "push"
  /\ writePos' = writePosition + 1
  /\ writePosition' = writePosition + 1
  /\ op' = Idle
  /\ UNCHANGED <<slots, readPos, readPosition, got>>

\* The second Put returns an error: the item stays where the next one will go.
PushFails ==
  /\ op.kind = "push"
  /\ op' = Idle
  /\ UNCHANGED <<slots, readPos, writePos, readPosition, writePosition, got>>

-----------------------------------------------------------------------------
(* Pop *)

Size == IF readPosition >= writePosition THEN 0 ELSE writePosition - readPosition

\* Get finds no item at the position of the reader: Pop returns the error.
Missing == Size > 0 /\ readPosition \notin DOMAIN slots

\* Mutant: Pop takes the newest item and leaves the oldest in its place.
PopDeleteNewest ==
  /\ op = Idle
  /\ Size > 0 /\ ~Missing
  /\ slots' = delete(put(slots, writePosition - 1, slots[readPosition]), readPosition)
  /\ op' = [kind |-> "pop", item |-> slots[writePosition - 1]]
  /\ UNCHANGED <<readPos, writePos, readPosition, writePosition, got>>

PopDelete ==
  /\ op = Idle
  /\ Size > 0 /\ ~Missing
  /\ slots' = delete(slots, readPosition)
  /\ op' = [kind |-> "pop", item |-> slots[readPosition]]
  /\ UNCHANGED <<readPos, writePos, readPosition, writePosition, got>>

PopPosition ==
  /\ op.kind = "pop"
  /\ readPos' = readPosition + 1
  /\ readPosition' = readPosition + 1
  /\ op' = Idle
  /\ got' = op.item
  /\ UNCHANGED <<slots, writePos, writePosition>>

\* The Put of the position returns an error: the item is deleted and not returned.
PopFails ==
  /\ op.kind = "pop"
  /\ op' = Idle
  /\ UNCHANGED <<slots, readPos, writePos, readPosition, writePosition, got>>

-----------------------------------------------------------------------------
(* A new process opens the store of the old one. *)

NewQueueDB ==
  /\ readPosition' = readPos
  /\ writePosition' = writePos
  /\ op' = Idle
  /\ UNCHANGED <<slots, readPos, writePos, got>>

QueueNext ==
  \/ \E x \in Item : PushItem(x)
  \/ PushPosition \/ PushFails
  \/ PopDelete \/ PopPosition \/ PopFails
  \/ NewQueueDB

QueueSpec == QueueInit /\ [][QueueNext]_queueVars

-----------------------------------------------------------------------------
(* The refinement mapping.  A Pop counts when it writes the position, so   *)
(* until then its item is still the first.                                 *)

First == IF readPosition \in DOMAIN slots THEN readPosition ELSE readPosition + 1

\* The items of f at the positions from a to before b.
Slice(f, a, b) == IF a < b THEN [i \in 1..(b - a) |-> f[a + i - 1]] ELSE <<>>

Stored == Slice(slots, First, writePosition)

Contents == IF op.kind = "pop" THEN <<op.item>> \o Stored ELSE Stored

FIFO == INSTANCE FinishQueue WITH queue <- Contents

\* The two writes of Push and Pop, with a crash or a failing write between them,
\* still are a first-in first-out queue: nothing is returned twice, out of order
\* or without having been pushed, and a crash costs at most the item being popped.
ImplementsFIFO == FIFO!Spec
=============================================================================
