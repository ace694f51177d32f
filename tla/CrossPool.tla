----------------------------- MODULE CrossPool -----------------------------
(***************************************************************************)
(* The cross pool of one anchor for one chain (cross/backend/pool.go) with *)
(* the parts of the two handlers and of the store that it works with       *)
(* (handler.go, store.go, database/indexdb.go).  Makers of this chain are  *)
(* signed by the anchor when they are confirmed, collect the signatures of *)
(* the other anchors, and are committed when they have enough: a message   *)
(* goes to the handler of the other chain, which verifies them and calls   *)
(* back to store or to roll back.                                          *)
(*                                                                         *)
(* Four kinds of goroutines meet here: the loop of this chain's handler,   *)
(* the peers that bring signatures, the reader of the other chain's        *)
(* handler, and the loop that handles the takers of the other chain.       *)
(*                                                                         *)
(* Block numbers are relative to the number at which a maker is confirmed  *)
(* when its chain grows block by block.  A signature is made over the hash *)
(* of the maker's block, of which only the fork matters.  A list of cross  *)
(* transactions is a set of ids, or a function of them, in their order.    *)
(***************************************************************************)
EXTENDS CrossCore, Sequences, FiniteSets

CONSTANTS
  Signer,    \* the anchors known to this chain
  Self,      \* config.Signer
  Require,   \* RequireSignatures
  MaxLate,   \* bound: blocks by which a confirmation can be late
  MaxInputs, \* bound: events of confirmed makers and packets of peers
  MaxTaken,  \* bound: makers that are taken
  MaxTroubles \* bound: late confirmations, uses of the side fork, restarts

ASSUME PoolAssumption ==
  /\ Self \in Signer
  /\ Require \in Nat \ {0}
  /\ {MaxLate, MaxInputs, MaxTaken, MaxTroubles} \subseteq Nat

VARIABLES
  pending,   \* pool.pending
  queued,    \* pool.queued
  store,     \* the transactions of this chain in the store
  finished,  \* txLog: finished and removed from the store
  loop,      \* the loop of the handler, between the steps of AddLocals
  peer,      \* a peer's goroutine between the checks and addTxs of AddRemotes
  sent,      \* goroutines of Commit
  msgs,      \* crossMsgReader of the other handler
  reader,    \* commits that the other handler has verified: the callback's argument
  valid,     \* the anchors that the other chain accepts
  onchain,   \* how far a maker is: 1 taken, 2 and 3 new and confirmed taker handled, 4 finished
  confirmed, \* history: makers confirmed on the main fork
  stranded,  \* history: <<c, why>>: why c may never be waiting
  inputs, troubles

poolVars == <<pending, queued>>
storeVars == <<store, finished>>
msgVars == <<sent, msgs, reader>>
chainVars == <<valid, onchain>>
vars == <<poolVars, storeVars, loop, peer, msgVars, chainVars, confirmed,
          stranded, inputs, troubles>>

Fork == {"main", "side"}

\* No transaction: a nil pointer, an id that is not found.
None == [fork |-> "none", sigs |-> <<>>, num |-> 0, status |-> Pending]

\* NewCrossTransactionWithSignatures, whose status is pending
NewCws(s, fork, num) == [fork |-> fork, sigs |-> <<s>>, num |-> num, status |-> Pending]

\* The anchors that have signed
signers(cws) == {cws.sigs[i] : i \in DOMAIN cws.sigs}

\* The lists of cross transactions of one event, block or packet
Batches == SUBSET Ctx \ {{}}

\* Nothing is verified.
NoBatch == [c \in {} |-> None]

Select == [pc |-> "select", txs |-> {}, fork |-> "main", num |-> 0]
NoPeer == [signer |-> Self, txs |-> {}, fork |-> "main"]

Init ==
  /\ pending = [c \in Ctx |-> None]
  /\ queued = [c \in Ctx |-> None]
  /\ store = [c \in Ctx |-> None]
  /\ finished = {}
  /\ loop = Select
  /\ peer = NoPeer
  /\ sent = {} /\ msgs = <<>> /\ reader = NoBatch
  /\ valid \in {S \in SUBSET Signer : Self \in S}
  /\ onchain = [c \in Ctx |-> 0]
  /\ confirmed = {} /\ stranded = {}
  /\ inputs = 0 /\ troubles = 0

\* A trouble counts against its bound.
Trouble(is) ==
  /\ is => troubles < MaxTroubles
  /\ troubles' = IF is THEN troubles + 1 ELSE troubles

Because(S, why) == stranded' = stranded \cup {<<c, why>> : c \in S}

-----------------------------------------------------------------------------
(* Signatures in the pool *)

\* AddSignature returns no error.
Addable(cws, s, fork) == cws.fork = fork /\ s \notin signers(cws)

AddSignature(cws, s) == [cws EXCEPT !.sigs = Append(@, s)]

\* addTx of the signature of s for c: what it leaves of c in the pool
addTx(c, s, fork, local) ==
  LET p == pending[c]
      q == queued[c]
      new == NewCws(s, fork, 0)
  IN  CASE p # None /\ Addable(p, s, fork) ->
             [pending |-> AddSignature(p, s), queued |-> q]
        [] p = None /\ local /\ q = None ->
             [pending |-> new, queued |-> None]
        [] p = None /\ local /\ Addable(q, s, fork) ->
             [pending |-> AddSignature(q, s), queued |-> None]
        [] p = None /\ ~local /\ q = None ->
             [pending |-> None, queued |-> new]
        [] p = None /\ ~local /\ Addable(q, s, fork) ->
             [pending |-> None, queued |-> AddSignature(q, s)]
        [] OTHER -> [pending |-> p, queued |-> q]

\* checkAndCommit after a signature was added: the ones that are complete
commits(txs, s, fork, local) ==
  {c \in txs : LET p == addTx(c, s, fork, local).pending
               IN  p # pending[c] /\ Len(p.sigs) >= Require}

\* addTxs: Commit removes the complete ones and sends them from a goroutine of
\* its own.
addTxs(txs, s, fork, local) ==
  LET r == [c \in txs |-> addTx(c, s, fork, local)]
      complete == commits(txs, s, fork, local)
  IN  /\ pending' = [c \in Ctx |-> IF c \in complete THEN None
                                   ELSE IF c \in txs THEN r[c].pending ELSE pending[c]]
      /\ queued' = [c \in Ctx |-> IF c \in txs THEN r[c].queued ELSE queued[c]]
      /\ sent' = IF complete = {} THEN sent
                 ELSE sent \cup {[c \in complete |-> r[c].pending]}

-----------------------------------------------------------------------------
(* The handler's loop: confirmed makers *)

\* The checks of AddLocals: finished log, verifyReorg, the store.  The side fork
\* is left for the main fork, never the other way.
MakerConfirmed ==
  \E txs \in Batches, fork \in Fork, num \in 0..MaxLate :
    LET legal(c) == c \notin finished /\ store[c] = None
        reorg == {c \in txs : store[c] # None /\ store[c].fork # fork}
        signed == {c \in txs : legal(c)}
    IN  /\ loop = Select
        /\ inputs < MaxInputs
        /\ inputs' = inputs + 1
        /\ Trouble(fork = "side" \/ num > 0)
        /\ fork = "side" => txs \cap confirmed = {}
        /\ loop' = IF signed = {} THEN Select
                   ELSE [pc |-> "add", txs |-> signed, fork |-> fork, num |-> num]
        /\ confirmed' = IF fork = "main" THEN confirmed \cup txs ELSE confirmed
        /\ Because(reorg, "reorg")
        /\ UNCHANGED <<poolVars, storeVars, peer, msgVars, chainVars>>

AddLocals ==
  LET complete == commits(loop.txs, Self, loop.fork, TRUE)
      refused == {c \in loop.txs : addTx(c, Self, loop.fork, TRUE).pending.fork # loop.fork}
  IN  /\ loop.pc = "add"
      /\ addTxs(loop.txs, Self, loop.fork, TRUE)
      /\ loop' = [loop EXCEPT !.pc = "store", !.txs = @ \ complete]
      /\ Because(refused, "fork")
      /\ UNCHANGED <<storeVars, peer, msgs, reader, chainVars, confirmed,
                     inputs, troubles>>

\* store.Adds of the ones that were not committed, not replaceable
StorePending ==
  /\ loop.pc = "store"
  /\ store' = [c \in Ctx |-> IF c \in loop.txs /\ store[c] = None
                             THEN NewCws(Self, loop.fork, loop.num) ELSE store[c]]
  /\ loop' = Select
  /\ UNCHANGED <<poolVars, finished, peer, msgVars, chainVars, confirmed,
                 stranded, inputs, troubles>>

-----------------------------------------------------------------------------
(* Signatures from peers *)

\* addRemoteTx for each one of a packet
CheckRemotes ==
  \E s \in Signer \ {Self}, txs \in Batches, fork \in Fork :
    LET legal(c) == /\ c \notin finished
                    /\ store[c].status = Pending
                    /\ onchain[c] < 4
    IN  /\ peer = NoPeer
        /\ \E c \in txs : legal(c)
        /\ inputs < MaxInputs
        /\ inputs' = inputs + 1
        /\ Trouble(fork = "side")
        /\ peer' = [signer |-> s, txs |-> {c \in txs : legal(c)}, fork |-> fork]
        /\ UNCHANGED <<poolVars, storeVars, loop, msgVars, chainVars, confirmed,
                       stranded>>

AddRemotes ==
  /\ peer # NoPeer
  /\ addTxs(peer.txs, peer.signer, peer.fork, FALSE)
  /\ peer' = NoPeer
  /\ UNCHANGED <<storeVars, loop, msgs, reader, chainVars, confirmed, stranded,
                 inputs, troubles>>

-----------------------------------------------------------------------------
(* Commits: through the loop to the reader of the other handler, and back *)

\* signedCtxCh, writeCrossMessage
WriteCrossMessage ==
  \E batch \in sent :
    /\ loop = Select
    /\ sent' = sent \ {batch}
    /\ msgs' = Append(msgs, batch)
    /\ UNCHANGED <<poolVars, storeVars, loop, peer, reader, chainVars, confirmed,
                   stranded, inputs, troubles>>

\* Mutant of invalidSigIndex: only the first signature is verified.
invalidFirstIndex(cws) == IF cws.sigs[1] \in valid THEN {} ELSE {1}

invalidSigIndex(cws) == {i \in DOMAIN cws.sigs : cws.sigs[i] \notin valid}

\* A maker that is taken is discarded, and the break ends the loop.
ReadCrossMessage ==
  LET batch == Head(msgs)
      taken == {c \in DOMAIN batch : onchain[c] > 0}
      passed == {c \in DOMAIN batch : \A d \in taken : c < d}
  IN  /\ msgs # <<>>
      /\ reader = NoBatch
      /\ reader' = [c \in passed |-> batch[c]]
      /\ msgs' = Tail(msgs)
      /\ Because(DOMAIN batch \ passed, "discarded")
      /\ UNCHANGED <<poolVars, storeVars, loop, peer, sent, chainVars, confirmed,
                     inputs, troubles>>

\* RemoveSignature for each invalid index in turn, ascending, on the list as it
\* is by then: what is left at p has moved down once for each index up to p.
RemoveSignatures(cws) ==
  LET moved(p) == Cardinality({i \in invalidSigIndex(cws) : i <= p})
      left == {p \in DOMAIN cws.sigs : p + moved(p) <= Len(cws.sigs)}
  IN  [cws EXCEPT !.sigs = [p \in left |-> cws.sigs[p + moved(p)]]]

\* Mutant of canReplace: any status is replaced.
canReplaceAny(old, new) == new.num >= old.num

\* canReplace, for a new one that is waiting
canReplace(old, new) == new.num >= old.num /\ old.status < Waiting

\* The callback of Commit: Rollback of some, which Put ignores when the pool has
\* them again, and Store of the rest as waiting
CallBack ==
  LET bad == {c \in DOMAIN reader : invalidSigIndex(reader[c]) # {}}
      good == DOMAIN reader \ bad
      back == [c \in bad |-> RemoveSignatures(reader[c])]
      writes == {c \in good : store[c] = None \/ canReplace(store[c], reader[c])}
  IN  /\ reader # NoBatch
      /\ reader' = NoBatch
      /\ pending' = [c \in Ctx |-> IF c \in bad /\ pending[c] = None
                                   THEN back[c] ELSE pending[c]]
      /\ store' = [c \in Ctx |-> IF c \in writes
                                 THEN [reader[c] EXCEPT !.status = Waiting] ELSE store[c]]
      /\ stranded' = stranded
           \cup {<<c, "late">> : c \in {d \in good \ writes : store[d].status = Pending}}
           \cup {<<c, "signature">> : c \in {d \in bad : Self \notin signers(back[d])}}
           \cup {<<c, "fork">> : c \in {d \in bad : pending[d].fork \notin {"none", reader[d].fork}}}
      /\ UNCHANGED <<queued, finished, loop, peer, sent, msgs, chainVars, confirmed,
                     inputs, troubles>>

-----------------------------------------------------------------------------
(* The chains *)

\* The taker of c is in a block of the other chain: it carries the signatures
\* of enough anchors.
Take(c) ==
  /\ onchain[c] = 0
  /\ Cardinality({d \in Ctx : onchain[d] > 0}) < MaxTaken
  /\ Cardinality(valid \ (IF c \in confirmed THEN {} ELSE {Self})) >= Require
  /\ onchain' = [onchain EXCEPT ![c] = 1]
  /\ UNCHANGED <<poolVars, storeVars, loop, peer, msgVars, valid, confirmed,
                 stranded, inputs, troubles>>

\* The other handler handles a new, then a confirmed taker.
HandleTaker(c) ==
  LET status == IF onchain[c] = 1 THEN Executing ELSE Executed
  IN  /\ onchain[c] \in {1, 2}
      /\ onchain' = [onchain EXCEPT ![c] = @ + 1]
      /\ store' = IF store[c] # None /\ status > store[c].status
                  THEN [store EXCEPT ![c].status = status] ELSE store
      /\ Because(IF store[c] = None /\ status = Executed THEN {c} ELSE {}, "missed")
      /\ UNCHANGED <<poolVars, finished, loop, peer, msgVars, valid, confirmed,
                     inputs, troubles>>

\* The handler handles the finishes of this chain.
HandleFinish(c) ==
  /\ loop = Select
  /\ onchain[c] = 3
  /\ onchain' = [onchain EXCEPT ![c] = 4]
  /\ store' = IF store[c] # None THEN [store EXCEPT ![c].status = Finished] ELSE store
  /\ UNCHANGED <<poolVars, finished, loop, peer, msgVars, valid, confirmed,
                 stranded, inputs, troubles>>

\* RemoveCrossTransactionBefore, from the loop's ticker
RemoveFinished(c) ==
  /\ loop = Select
  /\ store[c].status = Finished
  /\ store' = [store EXCEPT ![c] = None]
  /\ finished' = finished \cup {c}
  /\ UNCHANGED <<poolVars, loop, peer, msgVars, chainVars, confirmed, stranded,
                 inputs, troubles>>

-----------------------------------------------------------------------------
(* Upkeep and restart *)

\* The pool's ticker: RemoveUnderNum of the queue
ExpireQueued(c) ==
  /\ queued[c] # None
  /\ queued' = [queued EXCEPT ![c] = None]
  /\ UNCHANGED <<pending, storeVars, loop, peer, msgVars, chainVars, confirmed,
                 stranded, inputs, troubles>>

\* Pending, asked by the synchronisation, removes what is finished.
PruneFinished ==
  /\ \E c \in finished : pending[c] # None
  /\ pending' = [c \in Ctx |-> IF c \in finished THEN None ELSE pending[c]]
  /\ queued' = [c \in Ctx |-> IF c \in finished /\ pending[c] # None THEN None ELSE queued[c]]
  /\ UNCHANGED <<storeVars, loop, peer, msgVars, chainVars, confirmed, stranded,
                 inputs, troubles>>

\* Mutant of Restart: pending transactions are not loaded.
RestartUnloaded ==
  LET stored == {c \in Ctx : store[c] # None}
  IN  /\ Trouble(TRUE)
      /\ pending' = [c \in Ctx |-> None]
      /\ queued' = [c \in Ctx |-> None]
      /\ loop' = Select /\ peer' = NoPeer
      /\ sent' = {} /\ msgs' = <<>> /\ reader' = NoBatch
      /\ Because(confirmed \ stored, "crash")
      /\ UNCHANGED <<storeVars, chainVars, confirmed, inputs>>

\* The process stops anywhere and starts again: load.
Restart ==
  LET stored == {c \in Ctx : store[c] # None}
  IN  /\ Trouble(TRUE)
      /\ pending' = [c \in Ctx |-> IF store[c].status = Pending THEN store[c] ELSE None]
      /\ queued' = [c \in Ctx |-> None]
      /\ loop' = Select /\ peer' = NoPeer
      /\ sent' = {} /\ msgs' = <<>> /\ reader' = NoBatch
      /\ Because(confirmed \ stored, "crash")
      /\ UNCHANGED <<storeVars, chainVars, confirmed, inputs>>

Next ==
  \/ MakerConfirmed \/ AddLocals \/ StorePending
  \/ CheckRemotes \/ AddRemotes
  \/ WriteCrossMessage \/ ReadCrossMessage \/ CallBack
  \/ \E c \in Ctx : \/ Take(c) \/ HandleTaker(c) \/ HandleFinish(c)
                    \/ RemoveFinished(c) \/ ExpireQueued(c)
  \/ PruneFinished
  \/ Restart

Spec == Init /\ [][Next]_vars

-----------------------------------------------------------------------------
(* Properties *)

\* What the store offers to takers as waiting carries at least Require
\* signatures, of different anchors that the other chain accepts: the callback
\* of Commit stores only what the other handler found no invalid signature in,
\* however late signatures, rollbacks and restarts interleave.
WaitingHasQuorum ==
  \A c \in Ctx : store[c].status = Waiting =>
    /\ signers(store[c]) \subseteq valid
    /\ Cardinality(signers(store[c])) >= Require
    /\ Cardinality(signers(store[c])) = Len(store[c].sigs)

\* The commits on their way through a goroutine, the channel or the callback
Flying == sent \cup {msgs[i] : i \in DOMAIN msgs} \cup {reader}

InFlight(c) == c \in loop.txs \/ \E m \in Flying : c \in DOMAIN m

\* A confirmed maker that is not waiting yet is on its way or pending with the
\* anchor's own signature, so that the next signature completes it.  The ways
\* out of this are exactly these: it was confirmed on another fork before, the
\* pool has it signed for another fork when it is added or rolled back, the other
\* handler discarded it because of a maker that is taken, a rollback removed the
\* wrong signature, the store has it at a higher number, or the process stopped
\* before it was stored.
NotStranded ==
  \A c \in confirmed \ finished :
    store[c].status = Pending /\ ~InFlight(c)
      => \/ pending[c].fork = "main" /\ Self \in signers(pending[c])
         \/ \E why \in {"reorg", "fork", "discarded", "signature", "late", "crash"} :
              <<c, why>> \in stranded

\* A transaction whose taker is confirmed is executed in the store, unless it
\* came to the store after that: neither a late signature nor a late callback
\* brings it back to waiting.
TakenIsNoticed ==
  \A c \in Ctx : onchain[c] = 3 /\ store[c] # None =>
    \/ store[c].status = Executed
    \/ <<c, "missed">> \in stranded
=============================================================================
