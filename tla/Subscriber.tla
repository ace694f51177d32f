----------------------------- MODULE Subscriber -----------------------------
(***************************************************************************)
(* The cross-chain subscriber of one chain (SimpleSubscriber): the logs of *)
(* the cross contract wait in a ring of unconfirmed blocks until their     *)
(* block is Depth blocks deep, while core/blockchain.go extends the chain  *)
(* and reorganises it.  Logs in the ring are journaled to a file, which is *)
(* read back when the process starts.                                      *)
(*                                                                         *)
(* A block is the path of labels from the genesis block to it, so it is    *)
(* its own hash, its number is its length, and its parent is its front.    *)
(* The label says which logs of the cross contract the block holds.        *)
(***************************************************************************)
EXTENDS Integers, Sequences, SequencesExt, FiniteSets, BagsExt

CONSTANTS
  Label,      \* the different blocks that can be built on one parent
  Content,    \* per label: the kinds of the logs in the block, in order
  Depth,      \* simpletrigger.DefaultConfirmDepth
  ShorterWins, \* TRUE when a chain of fewer blocks can have more difficulty
  Journaled,  \* FALSE when the journal path is empty
  MaxNumber,  \* bound: highest block number
  MaxBlocks,  \* bound: number of blocks imported
  MaxStarts,  \* bound: number of times the process is started again
  MaxStartBlocks \* bound: number of blocks imported when it is started again

Kind == {"Maker", "Taker", "Finish", "Anchor"}

ASSUME ContentAssumption == Content \in [Label -> Seq(Kind)]
ASSUME DepthAssumption == Depth \in Nat
ASSUME BoundAssumption == {MaxNumber, MaxBlocks, MaxStarts, MaxStartBlocks} \subseteq Nat
ASSUME SwitchAssumption == {ShorterWins, Journaled} \subseteq BOOLEAN

Genesis == <<>>

\* The logs of the cross contract in block b, as its receipts hold them.
LogsOf(b) ==
  IF b = Genesis THEN <<>>
  ELSE [i \in 1 .. Len(Content[Last(b)]) |->
          [block |-> b, index |-> i, kind |-> Content[Last(b)][i]]]

VARIABLES
  known,   \* blocks in the database with their state
  head,    \* the current block
  canon,   \* the canonical hash of each number; may reach above the head
  indexed, \* blocks whose transactions have a lookup entry
  ring,    \* unconfirmedBlockLogs.blocks, oldest first
  journal, \* the logs in the journal file
  sent,    \* the CrossBlockEvents sent by the last step
  done,    \* history: the logs announced as confirmed
  taken,   \* history: NewTaker and NewFinish less ReorgTaker and ReorgFinish
  starts   \* bound: starts so far

vars == <<known, head, canon, indexed, ring, journal, sent, done, taken, starts>>

NoEvent(n) == [number |-> n, confirmed |-> <<>>, new |-> <<>>, reorg |-> <<>>]

IsEmpty(ev) == ev.confirmed = <<>> /\ ev.new = <<>> /\ ev.reorg = <<>>

\* What the subscriber asks the chain c = [canon, indexed]: whether
\* GetHeaderByNumber finds block b, and GetTransactionByTxHash log l in its block.
isCanonical(c, b) == Len(b) <= Len(c.canon) /\ c.canon[Len(b)] = b

isVisible(c, l) == isCanonical(c, l.block) /\ l.block \in c.indexed

-----------------------------------------------------------------------------
(* What one call of the subscriber does.  A state s of the subscriber is a *)
(* record [ring, journal, sent].                                           *)

\* Mutant: the depth is counted one block too low.
tooFreshOffByOne(item, c, height) ==
  isCanonical(c, item.block) /\ Len(item.block) + Depth > height + 1

\* The case of shift that leaves the loop: canonical and not deep enough.
tooFresh(item, c, height) ==
  isCanonical(c, item.block) /\ Len(item.block) + Depth > height

\* The logs of a ring item that are announced: its block is canonical, and so
\* is the block in which each log says it is.
confirmedLogs(item, c) ==
  IF isCanonical(c, item.block)
  THEN SelectSeq(item.logs, LAMBDA l : isVisible(c, l)) ELSE <<>>

\* Mutant: a block of a side fork stops the loop, as a fresh block does.
shiftStopsAtFork(s, ev, c, height) ==
  LET stops == {i \in 1 .. Len(s.ring) : \/ tooFresh(s.ring[i], c, height)
                                        \/ ~isCanonical(c, s.ring[i].block)}
      n == IF stops = {} THEN Len(s.ring) ELSE Min(stops) - 1
  IN  [state |-> [s EXCEPT !.ring = SubSeq(@, n + 1, Len(@))],
       event |-> [ev EXCEPT !.confirmed = @ \o
                    FlattenSeq([i \in 1 .. n |-> confirmedLogs(s.ring[i], c)])]]

\* Mutant: the block that stopped the loop leaves the ring too.
shiftUnlinksOneMore(s, ev, c, height) ==
  [shiftStopsAtFork(s, ev, c, height) EXCEPT !.state.ring = IF @ = <<>> THEN @ ELSE Tail(@)]

\* SimpleSubscriber.shift: everything before the first block that is too fresh
\* leaves the ring.  What a block confirms joins the current event ev when
\* that is the event of its confirming block, and is sent on its own if not.
shift(s, ev, c, height) ==
  LET stops == {i \in 1 .. Len(s.ring) : tooFresh(s.ring[i], c, height)}
      n == IF stops = {} THEN Len(s.ring) ELSE Min(stops) - 1
      drop(acc, item) ==
        LET logs == confirmedLogs(item, c)
            number == Len(item.block) + Depth
        IN  IF logs = <<>> THEN acc
            ELSE IF acc.event.number = number
            THEN [acc EXCEPT !.event.confirmed = @ \o logs]
            ELSE [acc EXCEPT !.state.sent =
                    Append(@, [NoEvent(number) EXCEPT !.confirmed = logs])]
  IN  FoldLeft(drop,
               [state |-> [s EXCEPT !.ring = SubSeq(@, n + 1, Len(@))],
                event |-> ev],
               SubSeq(s.ring, 1, n))

\* SimpleSubscriber.add with journalLog.
add(s, b, logs) ==
  [s EXCEPT !.ring = Append(@, [block |-> b, logs |-> logs]),
            !.journal = IF Journaled THEN @ \o logs ELSE @]

\* SimpleSubscriber.StoreCrossContractLog for block b: shift, add, and send the
\* event of the block itself.  A maker is announced when it is confirmed, a
\* change of the anchors at once, and the others both times.
StoreCrossContractLog(s, b, c) ==
  LET new == SelectSeq(LogsOf(b), LAMBDA l : l.kind # "Maker")
      unconfirmed == SelectSeq(LogsOf(b), LAMBDA l : l.kind # "Anchor")
      r == shift(s, [NoEvent(Len(b)) EXCEPT !.new = new], c, Len(b))
      t == add(r.state, b, unconfirmed)
  IN  IF IsEmpty(r.event) THEN t ELSE [t EXCEPT !.sent = Append(@, r.event)]

\* The blocks of the chain that ends in b above its common ancestor with h,
\* lowest first.
Above(b, h) ==
  LET common == Len(LongestCommonPrefix({b, h}))
  IN  [i \in 1 .. Len(b) - common |-> SubSeq(b, 1, common + i)]

\* Mutant: the logs of the blocks that are dropped are not taken back.
NotifyBlockReorgForgets(s, old, new, c) ==
  FoldLeft(LAMBDA t, b : IF LogsOf(b) = <<>> THEN t ELSE StoreCrossContractLog(t, b, c),
           s, Front(Above(new, old)))

\* SimpleSubscriber.NotifyBlockReorg, called by BlockChain.reorg(old, new): the
\* takers and finishes of the old chain are taken back in one event, then the
\* logs of the new chain below its head are stored again, block by block.
NotifyBlockReorg(s, old, new, c) ==
  LET dropped == Reverse(Above(old, new))
      deleted == FlattenSeq([i \in 1 .. Len(dropped) |-> LogsOf(dropped[i])])
      ev == [NoEvent(Len(new)) EXCEPT
               !.reorg = SelectSeq(deleted, LAMBDA l : l.kind \in {"Taker", "Finish"})]
      t == IF IsEmpty(ev) THEN s ELSE [s EXCEPT !.sent = Append(@, ev)]
  IN  FoldLeft(LAMBDA u, b : IF LogsOf(b) = <<>> THEN u ELSE StoreCrossContractLog(u, b, c),
               t, Front(Above(new, old)))

-----------------------------------------------------------------------------
(* The journal.                                                            *)

\* The batch that unconfirmedJournal.load collects is a Go slice, which is handed
\* to add and cut to length zero, so the next batch is written into the same
\* array until an append outgrows it.  In a loader r, arrays are the arrays used
\* so far, len is the length of the batch in the last of them, block is the
\* block of the batch, and items are the slices handed to add.
flush(r) ==
  [r EXCEPT !.items = Append(@, [block |-> r.block, array |-> Len(r.arrays), len |-> r.len]),
            !.len = 0]

\* append(batch, l): in place, or into a new array of twice the capacity.
push(r, l) ==
  LET array == Last(r.arrays)
      spare == IF array = <<>> THEN 0 ELSE Len(array) - 1
  IN  IF r.len < Len(array)
      THEN [r EXCEPT !.arrays[Len(r.arrays)][r.len + 1] = l, !.len = @ + 1]
      ELSE [r EXCEPT !.arrays = Append(@, Append(array, l) \o [i \in 1 .. spare |-> l]),
                     !.len = @ + 1]

\* Mutant: the last batch of the file is not added.
lastBatchForgotten(r) == r

\* What load does after the end of the file.
lastBatch(r) == IF r.len = 0 THEN r ELSE flush(r)

\* unconfirmedJournal.load: the ring that the logs of the file make, in batches
\* of one block.
load(file) ==
  LET next(r, l) ==
        [push(IF r.block \in {Genesis, l.block} THEN r ELSE flush(r), l)
           EXCEPT !.block = l.block]
      end == lastBatch(FoldLeft(next, [block |-> Genesis, arrays |-> << <<>> >>,
                                       len |-> 0, items |-> <<>>], file))
  IN  [i \in 1 .. Len(end.items) |->
         [block |-> end.items[i].block,
          logs |-> SubSeq(end.arrays[end.items[i].array], 1, end.items[i].len)]]

\* unconfirmedJournal.rotate: the file is written anew from the ring.
rotate(r) == FlattenSeq([i \in 1 .. Len(r) |-> r[i].logs])

-----------------------------------------------------------------------------
Init ==
  /\ known = {Genesis}
  /\ head = Genesis
  /\ canon = <<>>
  /\ indexed = {}
  /\ ring = <<>>
  /\ journal = <<>>
  /\ sent = <<>>
  /\ done = {}
  /\ taken = EmptyBag
  /\ starts = 0

\* The subscriber's state becomes s; the histories follow the events sent.
Become(s) ==
  LET logs(pick(_)) ==
        Range(FlattenSeq([i \in 1 .. Len(s.sent) |-> pick(s.sent[i])]))
      both(set) == SetToBag({l \in set : l.kind \in {"Taker", "Finish"}})
  IN  /\ ring' = s.ring
      /\ journal' = s.journal
      /\ sent' = s.sent
      /\ done' = done \cup logs(LAMBDA ev : ev.confirmed)
      /\ taken' = (taken (+) both(logs(LAMBDA ev : ev.new)))
                    (-) both(logs(LAMBDA ev : ev.reorg))

\* Path(b): the blocks of the chain that ends in b.
Path(b) == [n \in 1 .. Len(b) |-> SubSeq(b, 1, n)]

\* BlockChain.insert: b becomes the canonical block of its number.
insert(c, b) == [c EXCEPT !.canon = Path(b) \o SubSeq(@, Len(b) + 1, Len(@))]

\* BlockChain.reorg: every block of the new chain but its last is inserted and
\* becomes the current block, the numbers above the current block are cleared,
\* and the transactions of the old chain lose their lookup entries.  When the
\* new chain is one block, the current block is still the old one.
reorg(c, old, new) ==
  [canon |-> IF Len(Above(new, old)) > 1 THEN Path(Front(new)) ELSE c.canon,
   indexed |-> (c.indexed \ Range(Above(old, new))) \cup Range(Front(Above(new, old)))]

\* BlockChain.WriteBlockWithState for a block that becomes the head, with a
\* reorg first unless its parent is the head.
WriteCanonical(b) ==
  LET self == [ring |-> ring, journal |-> journal, sent |-> <<>>]
      chain == [canon |-> canon, indexed |-> indexed]
      extends == Front(b) = head
      c == IF extends THEN chain ELSE reorg(chain, head, b)
      s == IF extends THEN self ELSE NotifyBlockReorg(self, head, b, c)
      final == [insert(c, b) EXCEPT !.indexed = @ \cup {b}]
  IN  /\ ShorterWins \/ Len(b) >= Len(head)
      /\ known' = known \cup {b}
      /\ head' = b
      /\ canon' = final.canon
      /\ indexed' = final.indexed
      /\ Become(StoreCrossContractLog(s, b, final))
      /\ UNCHANGED starts

\* WriteBlockWithState for a block that has no more difficulty than the head.
WriteSide(b) ==
  /\ Front(b) # head
  /\ known' = known \cup {b}
  /\ sent' = <<>>
  /\ UNCHANGED <<head, canon, indexed, ring, journal, done, taken, starts>>

\* The ticker of SimpleSubscriber.loop.
RotateJournal ==
  /\ Journaled
  /\ journal' = rotate(ring)
  /\ journal' # journal
  /\ sent' = <<>>
  /\ UNCHANGED <<known, head, canon, indexed, ring, done, taken, starts>>

\* NewSimpleSubscriber after the last process left the journal file.
NewSimpleSubscriber(file) ==
  LET items == IF Journaled THEN load(file) ELSE <<>>
  IN  /\ starts < MaxStarts /\ Cardinality(known) <= MaxStartBlocks + 1
      /\ starts' = starts + 1
      /\ ring' = items
      /\ journal' = IF Journaled THEN rotate(items) ELSE file
      /\ sent' = <<>>
      /\ UNCHANGED <<canon, indexed, done, taken>>

\* SimpleSubscriber.Stop rotates the journal before the process ends.
StopAndStart ==
  /\ NewSimpleSubscriber(IF Journaled THEN rotate(ring) ELSE journal)
  /\ UNCHANGED <<known, head>>

\* The process dies.  The states above number n were not on disk yet, and
\* BlockChain.repair goes back to the last block that has its state.
KillAndStart(n) ==
  /\ NewSimpleSubscriber(journal)
  /\ known' = {b \in known : Len(b) <= n}
  /\ head' = SubSeq(head, 1, n)

Next ==
  \/ \E p \in known, l \in Label :
       LET b == Append(p, l)
       IN  /\ b \notin known
           /\ Len(b) <= MaxNumber
           /\ Cardinality(known) <= IF starts = 0 THEN MaxBlocks ELSE MaxStartBlocks
           /\ WriteCanonical(b) \/ WriteSide(b)
  \/ RotateJournal
  \/ StopAndStart
  \/ \E n \in 0 .. Len(head) : KillAndStart(n)

Spec == Init /\ [][Next]_vars

-----------------------------------------------------------------------------
(* Properties.                                                             *)

\* The logs that go through the ring, in the chain up to number n.
ChainLogs(n) ==
  {l \in UNION {Range(LogsOf(b)) : b \in Range(Path(SubSeq(head, 1, n)))} : l.kind # "Anchor"}

\* A log that shift announces as confirmed is in a canonical block that is at
\* least Depth blocks below the head, through any sequence of reorgs that
\* leave side-fork blocks, or the same block twice, in the ring.
ConfirmedIsDeep ==
  starts = 0 => \A i \in 1 .. Len(sent) :
                  Range(sent[i].confirmed) \subseteq ChainLogs(Len(head) - Depth)

\* Log l was announced as confirmed, or waits in the ring with its own block.
Kept(l) ==
  \/ l \in done
  \/ \E i \in 1 .. Len(ring) : ring[i].block = l.block /\ l \in Range(ring[i].logs)

\* What the anchors rely on: StoreCrossContractLog and the rebirth logs of a
\* reorg keep every log of the canonical chain, whatever reorgs took its block
\* out of the chain and back.
NothingLost == starts = 0 => \A l \in ChainLogs(Len(head)) : Kept(l)

\* unconfirmedJournal says the same for restarts: it is kept "to allow
\* non-executed ones to survive node restarts".
SurvivesRestart == \A l \in ChainLogs(Len(head)) : Kept(l)

\* "Shift drops all trigger blocks from the set which exceed the trigger sets
\* depth allowance": a fresh block in front of the ring never holds back one
\* behind it that is deep enough.
DeepIsAnnounced == starts = 0 => ChainLogs(Len(head) - Depth) \subseteq done

\* NewTaker and NewFinish are announced once for each log of the canonical
\* chain, and every other one was taken back by a reorg event, so the status
\* of a cross transaction follows the chain.
TakenIsCanonical ==
  starts = 0 => taken = SetToBag({l \in ChainLogs(Len(head)) : l.kind # "Maker"})

\* After a stop or a crash at any moment, the newest block that was waiting
\* with logs is the last one in the ring again, with all of its logs.
RestartKeepsNewest ==
  [][starts' # starts /\ rotate(ring) # <<>> =>
       LET newest == Last(SelectSeq(ring, LAMBDA item : item.logs # <<>>))
       IN  /\ ring' # <<>>
           /\ Last(ring').block = newest.block
           /\ Range(newest.logs) \subseteq Range(Last(ring').logs)]_vars
=============================================================================
