------------------------------ MODULE CrossSync ------------------------------
(***************************************************************************)
(* An anchor fetches the cross transactions that it has missed from the    *)
(* store of another anchor, page by page (Sync.syncWithPeer).  The answers *)
(* come through the message loop of the peer, which hands them over in a   *)
(* channel for one page; an answer does not say which request it belongs   *)
(* to, and may come after its synchronisation has timed out.               *)
(*                                                                         *)
(* Cross transactions are numbers in the order of the stores' index on     *)
(* BlockNum.  The other anchors hold all of them up to some block.         *)
(***************************************************************************)
EXTENDS Integers, Sequences, FiniteSets, FiniteSetsExt

CONSTANTS
  Peer,        \* the other anchors
  Nobody,      \* the peer of a synchronisation that lost its connection
  Num,         \* the BlockNum of each cross transaction, in ascending order
  Limit,       \* defaultMaxSyncSize: transactions in a page, or a few more
  ChannelSize, \* syncChannelSize
  MaxConnects, \* bound: number of connections made
  MaxChanges   \* bound: failed writes, lost connections, own transactions, blocks of peers

Ctx == DOMAIN Num

\* There is no cross transaction in the genesis block.
ASSUME NumAssumption == /\ Num \in Seq(Nat \ {0})
                        /\ \A c, d \in Ctx : c < d => Num[c] <= Num[d]
ASSUME PeerAssumption == Nobody \notin Peer
ASSUME SizeAssumption == {Limit, ChannelSize} \subseteq Nat \ {0}
ASSUME BoundAssumption == {MaxConnects, MaxChanges} \subseteq Nat

VARIABLES
  known,    \* per peer: the block up to which its store is filled
  status,   \* per connected peer: the height that it gave in the handshake
  due,      \* the calls of Synchronise that have not run yet
  local,    \* the transactions in the store of this anchor
  own,      \* history: those that it stored without a synchronisation
  sync,     \* the running synchronisation; want: what its peer had when it began,
            \* or nothing once it took the answer to an earlier one
  ch,       \* synchronizeCh
  reqs,     \* per peer: requests on their way to it
  answers,  \* per peer: answers on their way, or in its message loop
  connects, \* bound: number of connections made so far
  timeouts, \* history: number of synchronisations that timed out
  failed,   \* history: the blocks whose transactions could not be written
  changes   \* bound: changes so far

vars == <<known, status, due, local, own, sync, ch, reqs, answers, connects, timeouts,
          failed, changes>>

Nums == {Num[c] : c \in Ctx}
Off == [on |-> FALSE, peer |-> Nobody, id |-> 0, want |-> {}]

\* Mutant: without the current block.
HeldBefore(p) == {c \in Ctx : Num[c] < known[p]}

\* The store of a peer, up to its current block.
Held(p) == {c \in Ctx : Num[c] <= known[p]}

\* indexDB.Height: the block of the newest transaction.
Height == IF local = {} THEN 0 ELSE Max({Num[c] : c \in local})

\* Mutant: in the order that Height reads the index in, the newest first.
RangeByNumberReverse(store, begin) ==
  {c \in store : Num[c] >= begin /\ Cardinality({d \in store : d > c}) < Limit}

\* indexDB.RangeByNumber: the first Limit transactions from block begin on, and
\* all others of the last block among them.
RangeByNumber(store, begin) ==
  LET from == {c \in store : Num[c] >= begin}
      page == {c \in from : Cardinality({d \in from : d < c}) < Limit}
  IN  {c \in from : \E d \in page : Num[d] = Num[c]}

-----------------------------------------------------------------------------
Init ==
  /\ known \in [Peer -> Nums \cup {0}]
  /\ status = <<>>
  /\ due = {}
  /\ local = {} /\ own = {}
  /\ sync = Off
  /\ ch = <<>>
  /\ reqs = [p \in Peer |-> <<>>]
  /\ answers = [p \in Peer |-> <<>>]
  /\ connects = 0 /\ timeouts = 0 /\ failed = {} /\ changes = 0

\* RequestCtxSyncByHeight, which is lost when the connection is.
Request(p, height, number) ==
  reqs' = IF p = Nobody THEN reqs
          ELSE [reqs EXCEPT ![p] = Append(@, [height |-> height, sync |-> number])]

\* handle registers a peer after the handshake; sync then starts a call of
\* Synchronise for the best of the peers, the one with the greatest height.
Connect(p) ==
  LET now == [q \in DOMAIN status \cup {p} |-> IF q = p THEN known[p] ELSE status[q]]
  IN  /\ p \notin DOMAIN status /\ connects < MaxConnects
      /\ connects' = connects + 1
      /\ status' = now
      /\ \E best \in DOMAIN now :
           /\ \A q \in DOMAIN now : now[q] <= now[best]
           /\ due' = due \cup {[peer |-> best, height |-> now[best], id |-> connects']}
      /\ UNCHANGED <<known, local, own, sync, ch, reqs, answers, timeouts, failed, changes>>

\* The checks of syncWithPeer: no other one runs, and the peer is there.
CanStart(d) == ~sync.on /\ d.peer \in DOMAIN status

\* A call of Synchronise that finds another one running (errBusy) or the peer
\* gone (errUnknownPeer).
SynchroniseRefused(d) ==
  /\ d \in due /\ ~CanStart(d)
  /\ due' = due \ {d}
  /\ UNCHANGED <<known, status, local, own, sync, ch, reqs, answers, connects, timeouts, failed,
                 changes>>

\* syncWithPeer up to its loop.  Emptying the channel also takes the answers of
\* the message loops that wait for room in it meanwhile.
Synchronise(d) ==
  LET ask == Height <= d.height
  IN  /\ d \in due /\ CanStart(d)
      /\ due' = due \ {d}
      /\ sync' = [on |-> TRUE, peer |-> d.peer, id |-> d.id,
                  want |-> {c \in Ctx : ask /\ Num[c] \in Height..known[d.peer]}]
      /\ ch' = <<>>
      /\ \E gone \in [Peer -> 0..MaxConnects] :
           /\ \A q \in Peer : gone[q] <= Len(answers[q])
           /\ ch = <<>> => \A q \in Peer : gone[q] = 0
           /\ answers' = [q \in Peer |-> SubSeq(answers[q], gone[q] + 1, Len(answers[q]))]
      /\ IF ask THEN Request(d.peer, Height, d.id) ELSE UNCHANGED reqs
      /\ UNCHANGED <<known, status, local, own, connects, timeouts, failed, changes>>

\* handleMsg of the peer for GetCtxSyncMsg.
Answer(p) ==
  /\ reqs[p] # <<>>
  /\ reqs' = [reqs EXCEPT ![p] = Tail(@)]
  /\ answers' = [answers EXCEPT ![p] =
       Append(@, [page |-> RangeByNumber(Held(p), Head(reqs[p]).height),
                  sync |-> Head(reqs[p]).sync])]
  /\ UNCHANGED <<known, status, due, local, own, sync, ch, connects, timeouts, failed, changes>>

\* DeliverCrossTransactions in the message loop of p, which waits for room,
\* whether a synchronisation runs or not.
DeliverCrossTransactions(p) ==
  /\ answers[p] # <<>>
  /\ Len(ch) < ChannelSize
  /\ ch' = Append(ch, Head(answers[p]))
  /\ answers' = [answers EXCEPT ![p] = Tail(@)]
  /\ UNCHANGED <<known, status, due, local, own, sync, reqs, connects, timeouts, failed, changes>>

\* Mutant: the last block is asked for again.
NextHeightSame(numbers) == Max(numbers)

\* lastHeight + 1.
NextHeight(numbers) == Max(numbers) + 1

\* syncCrossTransaction writes the transactions of each block at once, and goes
\* on with the next block when a write fails.  The next page is asked for.
ImportPage ==
  LET item == Head(ch)
      numbers == {Num[c] : c \in item.page}
  IN  /\ sync.on /\ ch # <<>> /\ item.page # {}
      /\ \E bad \in SUBSET numbers :
           /\ changes + Cardinality(bad) <= MaxChanges
           /\ local' = local \cup {c \in item.page : Num[c] \notin bad}
           /\ failed' = failed \cup bad
           /\ changes' = changes + Cardinality(bad)
      /\ Request(sync.peer, NextHeight(numbers), sync.id)
      /\ sync' = [sync EXCEPT !.want = IF item.sync = sync.id THEN @ ELSE {}]
      /\ ch' = Tail(ch)
      /\ UNCHANGED <<known, status, due, own, answers, connects, timeouts>>

\* An empty page ends the synchronisation.
Complete ==
  /\ sync.on /\ ch # <<>> /\ Head(ch).page = {}
  /\ sync' = Off
  /\ ch' = Tail(ch)
  /\ UNCHANGED <<known, status, due, local, own, reqs, answers, connects, timeouts, failed, changes>>

\* No answer within rttMaxEstimate.
Timeout ==
  /\ sync.on
  /\ sync' = Off
  /\ timeouts' = timeouts + 1
  /\ UNCHANGED <<known, status, due, local, own, ch, reqs, answers, connects, failed, changes>>

-----------------------------------------------------------------------------
(* What happens meanwhile.                                                 *)

\* The peer stores the transactions of its next block.
Grow(p) ==
  /\ changes < MaxChanges /\ \E n \in Nums : n > known[p]
  /\ changes' = changes + 1
  /\ known' = [known EXCEPT ![p] = Min({n \in Nums : n > @})]
  /\ UNCHANGED <<status, due, local, own, sync, ch, reqs, answers, connects, timeouts, failed>>

\* The handler of this anchor stores a transaction of its own pool.
StoreOwn(c) ==
  /\ c \notin local /\ changes < MaxChanges
  /\ local' = local \cup {c}
  /\ own' = own \cup {c}
  /\ changes' = changes + 1
  /\ UNCHANGED <<known, status, due, sync, ch, reqs, answers, connects, timeouts, failed>>

\* The connection is lost, which a message loop that waits for room in the
\* channel does not notice.
Disconnect(p) ==
  /\ p \in DOMAIN status /\ changes < MaxChanges
  /\ answers[p] = <<>> \/ Len(ch) < ChannelSize
  /\ changes' = changes + 1
  /\ status' = [q \in DOMAIN status \ {p} |-> status[q]]
  /\ reqs' = [reqs EXCEPT ![p] = <<>>]
  /\ answers' = [answers EXCEPT ![p] = <<>>]
  /\ sync' = [sync EXCEPT !.peer = IF @ = p THEN Nobody ELSE @]
  /\ UNCHANGED <<known, due, local, own, ch, connects, timeouts, failed>>

Next ==
  \/ \E p \in Peer : \/ Connect(p) \/ Answer(p) \/ DeliverCrossTransactions(p)
                     \/ Grow(p) \/ Disconnect(p)
  \/ \E d \in due : SynchroniseRefused(d) \/ Synchronise(d)
  \/ ImportPage \/ Complete \/ Timeout
  \/ \E c \in Ctx : StoreOwn(c)

\* A timeout is certain when no answer can come any more.
Silent == ch = <<>> /\ \A p \in Peer : reqs[p] = <<>> /\ answers[p] = <<>>

\* Goroutines run, the peers answer and their answers arrive.
Fairness ==
  /\ WF_vars(ImportPage) /\ WF_vars(Complete) /\ WF_vars(Silent /\ Timeout)
  /\ \A p \in Peer : WF_vars(Answer(p)) /\ WF_vars(DeliverCrossTransactions(p))

-----------------------------------------------------------------------------
\* The next synchronisation begins at Height, so a transaction below it that is
\* missing is never asked for again.  Whatever answers are late, taken for those
\* of another request or lost, there is no such hole, except below transactions
\* that this anchor stored itself or in a block whose write failed.
NoHoleBelowHeight ==
  \A c \in local, d \in Ctx \ local :
    Num[d] < Num[c] => \/ Num[d] \in failed
                       \/ \E o \in own : Num[o] > Num[d]
=============================================================================
