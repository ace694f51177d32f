----------------------------- MODULE RaftMinter -----------------------------
(***************************************************************************)
(* The minter of one node of a raft cluster: the worker builds blocks on   *)
(* blocks that raft has not confirmed yet (its SpeculativeChain) while the *)
(* raft event loop applies the entries of the log, in the order raft gives *)
(* them, and refuses every block that does not extend the chain.  The      *)
(* blocks of former and later leaders come through the same log.           *)
(*                                                                         *)
(* A block is its position in blocks, which stands for its hash.           *)
(***************************************************************************)
EXTENDS Integers, Sequences, FiniteSets, Functions

CONSTANTS
  Tx,          \* transactions
  ChanSize,    \* capacity of chainHeadCh
  MaxOwn,      \* bound: blocks minted by this node
  MaxForeign,  \* bound: blocks minted by other leaders
  MaxTroubles  \* bound: times this node stops to be the minter or raft drops a proposal

ASSUME BoundAssumption == {ChanSize, MaxOwn, MaxForeign, MaxTroubles} \subseteq Nat

VARIABLES
  blocks,    \* every block: its parent, transactions, minter, and the
             \* transactions of the chain that ends in it
  chain,     \* the blocks of the blockchain, without the genesis block
  log,       \* committed entries of raft that are not applied yet
  proposals, \* blockProposalC: own blocks on their way to raft
  heads,     \* chainHeadCh
  invalids,  \* invalidRaftOrderingChan
  pool,      \* transactions the pool has seen
  spec,      \* the SpeculativeChain
  running,   \* worker.running
  request,   \* shouldMine holds a request
  troubles   \* bound: stops and lost proposals so far

vars == <<blocks, chain, log, proposals, heads, invalids, pool, spec, running, request, troubles>>

Genesis == 0

Last(s) == s[Len(s)]

HeadBlock == IF chain = <<>> THEN Genesis ELSE Last(chain)

TxsUpTo(b) == IF b = Genesis THEN {} ELSE blocks[b].upTo

TxsIn(bs) == UNION {blocks[b].txs : b \in bs}

-----------------------------------------------------------------------------
(* The operations of SpeculativeChain.                                     *)

\* SpeculativeChain.Clear.
Clear(b) == [head |-> b, unapplied |-> <<>>, guard |-> {}, proposed |-> {}]

\* SpeculativeChain.Extend.
Extend(s, b, txs) ==
  [s EXCEPT !.head = b, !.unapplied = Append(@, b), !.proposed = @ \cup txs]

\* SpeculativeChain.SetHead.
SetHead(s, b) == [s EXCEPT !.head = b]

\* Mutant: the transactions of an accepted block stay in the blacklist.
AcceptKeepsTxes(s, b) ==
  IF s.unapplied = <<>> THEN SetHead(s, b)
  ELSE IF Head(s.unapplied) = b THEN [s EXCEPT !.unapplied = Tail(@)]
  ELSE Clear(b)

\* Mutant: a block of another minter removes only the oldest own block.
AcceptWithoutClear(s, b) ==
  IF s.unapplied = <<>> THEN SetHead(s, b)
  ELSE [s EXCEPT !.unapplied = Tail(@), !.proposed = @ \ TxsIn({Head(s.unapplied)})]

\* SpeculativeChain.Accept.
Accept(s, b) ==
  IF s.unapplied = <<>> THEN SetHead(s, b)
  ELSE IF Head(s.unapplied) = b
  THEN [s EXCEPT !.unapplied = Tail(@), !.proposed = @ \ TxsIn({b})]
  ELSE Clear(b)

\* The first position of b in s, or 0.
indexOf(s, b) ==
  LET I == {i \in 1..Len(s) : s[i] = b}
  IN  IF I = {} THEN 0 ELSE CHOOSE i \in I : \A j \in I : i <= j

\* SpeculativeChain.UnwindFrom: the invalid block and all after it leave the
\* chain, or the whole chain when the block is not in it.
UnwindFrom(s, b, head) ==
  LET keep == indexOf(s.unapplied, b) - 1
      rest == SubSeq(s.unapplied, 1, keep)
      popped == Range(SubSeq(s.unapplied, Len(rest) + 1, Len(s.unapplied)))
  IN  IF b \in s.guard THEN [s EXCEPT !.guard = @ \ {b}]
      ELSE IF popped = {} THEN s
      ELSE [head |-> IF rest = <<>> THEN head ELSE Last(rest),
            unapplied |-> rest,
            guard |-> s.guard \cup (popped \ {b}),
            proposed |-> s.proposed \ TxsIn(popped)]

-----------------------------------------------------------------------------
Init ==
  /\ blocks = <<>>
  /\ chain = <<>>
  /\ log = <<>>
  /\ proposals = <<>>
  /\ heads = <<>>
  /\ invalids = <<>>
  /\ pool = {}
  /\ spec = Clear(Genesis)
  /\ running = FALSE
  /\ request = FALSE
  /\ troubles = 0

NewBlock(parent, txs, own) ==
  Append(blocks, [parent |-> parent, txs |-> txs, own |-> own, upTo |-> TxsUpTo(parent) \cup txs])

Minted(own) == Cardinality({b \in DOMAIN blocks : blocks[b].own = own})

\* worker.start and worker.stop, when raft changes the role of the node.
Start ==
  /\ ~running
  /\ running' = TRUE
  /\ request' = TRUE
  /\ UNCHANGED <<blocks, chain, log, proposals, heads, invalids, pool, spec, troubles>>

Stop ==
  /\ running
  /\ troubles < MaxTroubles
  /\ running' = FALSE
  /\ troubles' = troubles + 1
  /\ UNCHANGED <<blocks, chain, log, proposals, heads, invalids, pool, spec, request>>

\* A transaction reaches the pool, and the raftLoop hears of it.
NewTxs(t) ==
  /\ t \notin pool
  /\ pool' = pool \cup {t}
  /\ request' = (request \/ running)
  /\ UNCHANGED <<blocks, chain, log, proposals, heads, invalids, spec, running, troubles>>

\* SpeculativeChain.WithoutProposedTxes.
WithoutProposedTxes(s, txs) == txs \ s.proposed

\* commitTransactions leaves out what the chain of the parent already holds.
Available == WithoutProposedTxes(spec, pool) \ TxsUpTo(spec.head)

\* mintingLoop serves a request with commitRaftWork: a block on the head of the
\* speculative chain with some of the transactions ...
commitRaftWork(txs) ==
  LET b == Len(blocks) + 1
  IN  /\ request /\ running
      /\ Minted(TRUE) < MaxOwn
      /\ txs # {}
      /\ request' = FALSE
      /\ blocks' = NewBlock(spec.head, txs, TRUE)
      /\ spec' = Extend(spec, b, txs)
      /\ proposals' = Append(proposals, b)
      /\ UNCHANGED <<chain, log, heads, invalids, pool, running, troubles>>

\* ... or no block, when the node is not the minter or nothing is left.
mintNothing ==
  /\ request
  /\ ~running \/ Available = {}
  /\ request' = FALSE
  /\ UNCHANGED <<blocks, chain, log, proposals, heads, invalids, pool, spec, running, troubles>>

\* serveLocalProposals gives a block to raft, which appends it to the log ...
Propose ==
  /\ proposals # <<>>
  /\ log' = Append(log, Head(proposals))
  /\ proposals' = Tail(proposals)
  /\ UNCHANGED <<blocks, chain, heads, invalids, pool, spec, running, request, troubles>>

\* ... or loses it, which serveLocalProposals does not look at.
Lose ==
  /\ troubles < MaxTroubles
  /\ proposals # <<>>
  /\ proposals' = Tail(proposals)
  /\ troubles' = troubles + 1
  /\ UNCHANGED <<blocks, chain, log, heads, invalids, pool, spec, running, request>>

\* Another leader puts a block into the log, on a block of the chain or on one
\* of its own speculative chain.
Foreign(parent, txs) ==
  /\ Minted(FALSE) < MaxForeign
  /\ txs # {}
  /\ blocks' = NewBlock(parent, txs, FALSE)
  /\ log' = Append(log, Len(blocks) + 1)
  /\ UNCHANGED <<chain, proposals, heads, invalids, pool, spec, running, request, troubles>>

blockExtendsChain(b) == blocks[b].parent = HeadBlock

\* eventLoop applies the next entry with applyNewChainHead: the block is
\* inserted, and the worker hears of the new head ...
applyNewChainHead ==
  /\ log # <<>>
  /\ blockExtendsChain(Head(log))
  /\ Len(heads) < ChanSize
  /\ chain' = Append(chain, Head(log))
  /\ heads' = Append(heads, Head(log))
  /\ log' = Tail(log)
  /\ UNCHANGED <<blocks, proposals, invalids, pool, spec, running, request, troubles>>

\* ... or the worker is told that the block does not extend the chain.
sendInvalidRaftOrdering ==
  /\ log # <<>>
  /\ ~blockExtendsChain(Head(log))
  /\ invalids = <<>>
  /\ invalids' = <<[block |-> Head(log), head |-> HeadBlock]>>
  /\ log' = Tail(log)
  /\ UNCHANGED <<blocks, chain, proposals, heads, pool, spec, running, request, troubles>>

\* Mutant: a new head does not ask for the next block.
raftLoopHeadNoRequest ==
  /\ heads # <<>>
  /\ heads' = Tail(heads)
  /\ spec' = IF running THEN Accept(spec, Head(heads)) ELSE SetHead(spec, Head(heads))
  /\ UNCHANGED <<blocks, chain, log, proposals, invalids, pool, running, request, troubles>>

\* raftLoop receives a ChainHeadEvent.
raftLoopHead ==
  /\ heads # <<>>
  /\ heads' = Tail(heads)
  /\ spec' = IF running THEN Accept(spec, Head(heads)) ELSE SetHead(spec, Head(heads))
  /\ request' = (request \/ running)
  /\ UNCHANGED <<blocks, chain, log, proposals, invalids, pool, running, troubles>>

\* updateSpeculativeChainPerInvalidOrdering; HasBlock looks in the database.
raftLoopInvalid ==
  /\ invalids # <<>>
  /\ invalids' = <<>>
  /\ LET ev == Head(invalids)
     IN  spec' = IF ev.block \in Range(chain) THEN UnwindFrom(spec, ev.block, ev.head) ELSE spec
  /\ UNCHANGED <<blocks, chain, log, proposals, heads, pool, running, request, troubles>>

Next ==
  \/ Start
  \/ Stop
  \/ \E t \in Tx : NewTxs(t)
  \/ \E txs \in SUBSET Available : commitRaftWork(txs)
  \/ mintNothing
  \/ Propose
  \/ Lose
  \/ \E parent \in Range(chain) \cup {Genesis} \cup {b \in DOMAIN blocks : ~blocks[b].own} :
       \E txs \in SUBSET (Tx \ TxsUpTo(parent)) : Foreign(parent, txs)
  \/ applyNewChainHead
  \/ sendInvalidRaftOrdering
  \/ raftLoopHead
  \/ raftLoopInvalid

Spec == Init /\ [][Next]_vars

\* The goroutines of the node run, and it becomes the minter when it can.
Fairness ==
  /\ WF_vars(Start)
  /\ WF_vars(\E t \in Tx : NewTxs(t))
  /\ WF_vars(\E txs \in SUBSET Available : commitRaftWork(txs))
  /\ WF_vars(mintNothing)
  /\ WF_vars(Propose)
  /\ WF_vars(applyNewChainHead \/ sendInvalidRaftOrdering)
  /\ WF_vars(raftLoopHead)
  /\ WF_vars(raftLoopInvalid)

LiveSpec == Spec /\ Fairness

-----------------------------------------------------------------------------
(* Properties.                                                             *)

\* The blacklist of proposed transactions is exactly what the blocks hold that
\* are waiting to be accepted, so it does not "grow endlessly" and hides no
\* transaction that is in no block on its way.
ProposedIsUnapplied == spec.proposed = TxsIn(Range(spec.unapplied))

\* A minter that was never stopped and lost no proposal recovers from the blocks of the old leader:
\* once the worker has heard of every head, its speculative chain starts on the
\* head of the blockchain, and the next block is built on its end.
HeadIsCurrent ==
  (heads = <<>> /\ running /\ troubles = 0) =>
    IF spec.unapplied = <<>> THEN spec.head = HeadBlock
    ELSE blocks[Head(spec.unapplied)].parent = HeadBlock /\ spec.head = Last(spec.unapplied)

\* Every transaction of the pool gets into the chain, with the blocks of the
\* old leader still coming in, when the node stays the minter and raft loses
\* none of its proposals.
EveryTxIsMined ==
  \A t \in Tx : <>[](t \in TxsUpTo(HeadBlock)) \/ <>(troubles > 0)
=============================================================================
