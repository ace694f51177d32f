---------------------------- MODULE IstanbulCore ----------------------------
(***************************************************************************)
(* The Istanbul BFT core (consensus/istanbul/core) of N validators and the *)
(* part of its backend that feeds it: the chain of each validator, the     *)
(* blocks its miner asks to seal, and the network.                         *)
(*                                                                         *)
(* core[v] is the Go struct core of validator v together with its current  *)
(* roundState.  msgs is every consensus message ever broadcast: any        *)
(* validator may handle any of them at any time, never, or again.  That    *)
(* one set stands for the network (loss, delay, reordering, gossip of the  *)
(* same payload by several peers), for the message events posted by        *)
(* goroutines, and for the backlogs: a message from the future is kept by  *)
(* storeBacklog and posted again by processBacklog, so it can be handled   *)
(* later.  Handler branches that only return an error change nothing and   *)
(* are stuttering steps.                                                   *)
(***************************************************************************)
EXTENDS Integers, Sequences, FiniteSets

CONSTANTS
  N,          \* number of validators; validator i is the i-th address
  Sticky,     \* TRUE for the sticky proposer policy, FALSE for round robin
  Payload,    \* the distinct bodies a miner may give to a block of a height
  BadPayload, \* bodies that pass Verify and fail when the block is executed
  Live,       \* validators that are up; the others are crashed for good
  Miners,     \* bound: the validators whose miner delivers blocks to seal
  Timers,     \* bound: the validators whose round timer may fire
  Faulty,     \* validators that may be stopped and started again
  MaxSeq,     \* bound: highest sequence in which blocks are proposed
  MaxRound    \* bound: highest round a validator may ask for

ASSUME NAssumption == N \in Nat \ {0}
ASSUME StickyAssumption == Sticky \in BOOLEAN
ASSUME BoundAssumption == MaxSeq \in Nat /\ MaxRound \in Nat

Validator == 0 .. N - 1

\* Validator set arithmetic: validator/default.go F, core.go Confirmations.
F == (N + 2) \div 3 - 1
Confirmations == (2 * N + 2) \div 3

ASSUME LiveAssumption == Live \subseteq Validator
ASSUME FaultyAssumption == Faulty \subseteq Validator /\ Cardinality(Faulty) <= F

\* A proposal: the block `author' sealed at `height'.  A record is its own hash.
Block == [height : Nat \ {0}, author : Validator, payload : Payload]
NoBlock == [height |-> 0]
Bad(b) == b.payload \in BadPayload

\* The states of core/types.go, ordered as State.Cmp orders them.
StateAcceptRequest == 0
StatePreprepared == 1
StatePrepared == 2
StateCommitted == 3

VARIABLES
  core,      \* per validator: the core struct and its current roundState
  chain,     \* per validator: the blocks it inserted, heights 1..Len
  badBlocks, \* per validator: blocks whose insertion failed (hasBadBlock)
  requests,  \* per validator: RequestEvents posted or kept in pendingRequests
  msgs,      \* every message broadcast so far
  sealed     \* blocks handed to backend.Commit with their committed seals

vars == <<core, chain, badBlocks, requests, msgs, sealed>>

Code == {"Preprepare", "Prepare", "Commit", "RoundChange"}

\* old marks a COMMIT sent by sendCommitForOldBlock; receivers do not see it.
Message == [code : Code, sequence : Nat, round : Nat,
            digest : Block \cup {NoBlock}, src : Validator, old : BOOLEAN]

RoundChange == [round : Nat, src : Validator]

CoreState ==
  [sequence : Nat \ {0}, round : Nat,
   state : StateAcceptRequest .. StateCommitted,
   waitingForRoundChange : BOOLEAN,
   proposer : Validator,
   preprepare : Block \cup {NoBlock},
   lockedHash : Block \cup {NoBlock},
   pendingRequest : Block \cup {NoBlock},
   prepares : SUBSET Validator,
   commits : SUBSET Validator,
   roundChanges : SUBSET RoundChange]

-----------------------------------------------------------------------------
(* Proposer selection, and the messages a validator broadcasts.            *)

\* Mutant: the seed is not reduced modulo the number of validators.
CalcProposerNoWrap(v, s, r) ==
  IF s = 1 THEN r
  ELSE chain[v][s - 1].author + r + (IF Sticky THEN 0 ELSE 1)

\* defaultSet.CalcProposer at height s of v's chain: the author of the last
\* block is the previous proposer, and the genesis block has none.
CalcProposer(v, s, r) ==
  IF s = 1 THEN r % N
  ELSE (chain[v][s - 1].author + r + (IF Sticky THEN 0 ELSE 1)) % N

Msg(code, c, b, v) ==
  [code |-> code, sequence |-> c.sequence, round |-> c.round,
   digest |-> b, src |-> v, old |-> FALSE]

\* core.sendPreprepare: the sequence must match and this validator's idea of
\* the proposer, which catchUpRound does not recompute, must be itself.
sendPreprepare(v, c, b) ==
  IF c.sequence = b.height /\ c.proposer = v
  THEN {Msg("Preprepare", c, b, v)} ELSE {}

\* roundState.IsHashLocked: a lock on a block known to be bad does not count.
IsHashLocked(v, c) ==
  c.lockedHash # NoBlock /\ c.lockedHash \notin badBlocks[v]

GetPrepareOrCommitSize(c) == Cardinality(c.prepares \cup c.commits)

RoundChangeSize(c, r) ==
  Cardinality({w \in Validator : [round |-> r, src |-> w] \in c.roundChanges})

-----------------------------------------------------------------------------
(* Round state changes shared by the handlers.  Each maps a core struct to *)
(* the struct the Go function leaves behind.                               *)

\* Mutant: the new round state is built without the locked hash.
updateRoundStateUnlocks(v, c, s, r, roundChange) ==
  [c EXCEPT !.sequence = s, !.round = r,
            !.preprepare = NoBlock, !.lockedHash = NoBlock,
            !.pendingRequest = IF roundChange THEN @ ELSE NoBlock,
            !.prepares = {}, !.commits = {}]

\* core.updateRoundState: lock and preprepare survive a round change only
\* while the hash is locked, the pending request survives every round change.
updateRoundState(v, c, s, r, roundChange) ==
  LET keep == roundChange /\ IsHashLocked(v, c)
  IN  [c EXCEPT !.sequence = s, !.round = r,
                !.preprepare = IF keep THEN @ ELSE NoBlock,
                !.lockedHash = IF keep THEN @ ELSE NoBlock,
                !.pendingRequest = IF roundChange THEN @ ELSE NoBlock,
                !.prepares = {}, !.commits = {}]

\* Mutant: the round is raised as if it had been started.
catchUpRoundStarts(v, c, r) ==
  [updateRoundState(v, c, c.sequence, r, TRUE) EXCEPT
     !.roundChanges = {rc \in @ : rc.round >= r}]

\* core.catchUpRound, with roundChangeSet.Clear.
catchUpRound(v, c, r) ==
  [updateRoundState(v, c, c.sequence, r, TRUE) EXCEPT
     !.waitingForRoundChange = TRUE,
     !.roundChanges = {rc \in @ : rc.round >= r}]

\* Mutant: waitingForRoundChange is left as it was.
enterRoundWaits(v, c, s, r, roundChange) ==
  [updateRoundState(v, c, s, r, roundChange) EXCEPT
     !.roundChanges = {},
     !.proposer = CalcProposer(v, s, r),
     !.state = StateAcceptRequest]

\* The part of core.startNewRound below its early returns.
enterRound(v, c, s, r, roundChange) ==
  [updateRoundState(v, c, s, r, roundChange) EXCEPT
     !.roundChanges = {},
     !.proposer = CalcProposer(v, s, r),
     !.waitingForRoundChange = FALSE,
     !.state = StateAcceptRequest]

\* core.startNewRound.  LastProposal is the head of the validator's own chain.
startNewRound(v, c, r) ==
  LET last == Len(chain[v])
  IN  IF last >= c.sequence
      THEN enterRound(v, c, last + 1, 0, FALSE)
      ELSE IF last = c.sequence - 1 /\ r # 0 /\ r >= c.round
      THEN enterRound(v, c, c.sequence, r, TRUE)
      ELSE c

\* The PRE-PREPARE that startNewRound sends when it changed the round: the
\* locked proposal, or else the pending request.  c is the new core struct.
newRoundProposal(v, c) ==
  IF c.sequence # Len(chain[v]) + 1 \/ c.round = 0 \/ c.proposer # v THEN {}
  ELSE IF IsHashLocked(v, c) THEN sendPreprepare(v, c, c.preprepare)
  ELSE IF c.pendingRequest # NoBlock THEN sendPreprepare(v, c, c.pendingRequest)
  ELSE {}

\* core.sendRoundChange(round), for a round above the current one.
sendRoundChange(v, c, r) ==
  /\ r > c.round
  /\ r <= MaxRound
  /\ core' = [core EXCEPT ![v] = catchUpRound(v, c, r)]
  /\ msgs' = msgs \cup {Msg("RoundChange", catchUpRound(v, c, r), NoBlock, v)}

sendNextRoundChange(v, c) == sendRoundChange(v, c, c.round + 1)

-----------------------------------------------------------------------------
(* checkMessage: which messages a handler goes on with.                    *)

SameView(c, m) == m.sequence = c.sequence /\ m.round = c.round

OldView(c, m) ==
  \/ m.sequence < c.sequence
  \/ m.sequence = c.sequence /\ m.round < c.round

checkMessage(c, m) ==
  IF m.code = "RoundChange"
  THEN m.sequence = c.sequence /\ m.round >= c.round
  ELSE /\ SameView(c, m)
       /\ ~c.waitingForRoundChange
       /\ c.state = StateAcceptRequest => m.code = "Preprepare"

\* Mutant: a second proposal is accepted until the block is committed.
canAcceptAgain(c) == c.state < StateCommitted

\* handlePreprepare acts on a proposal only before it has accepted another.
canAccept(c) == c.state = StateAcceptRequest

-----------------------------------------------------------------------------
Init ==
  /\ core = [v \in Validator |->
       [sequence |-> 1, round |-> 0, state |-> StateAcceptRequest,
        waitingForRoundChange |-> FALSE, proposer |-> 0,
        preprepare |-> NoBlock, lockedHash |-> NoBlock,
        pendingRequest |-> NoBlock,
        prepares |-> {}, commits |-> {}, roundChanges |-> {}]]
  /\ chain = [v \in Validator |-> <<>>]
  /\ badBlocks = [v \in Validator |-> {}]
  /\ requests = [v \in Validator |-> {}]
  /\ msgs = {}
  /\ sealed = {}

\* backend.Seal: v's miner posts a block built on the head of its chain.
Seal(v, p) ==
  LET b == [height |-> Len(chain[v]) + 1, author |-> v, payload |-> p]
  IN  /\ v \in Miners
      /\ b.height <= MaxSeq
      /\ b \notin requests[v] \cup {core[v].pendingRequest}
      /\ requests' = [requests EXCEPT ![v] = @ \cup {b}]
      /\ UNCHANGED <<core, chain, badBlocks, msgs, sealed>>

\* core.handleRequest.  A future request stays in pendingRequests, which
\* processPendingRequests posts again; an old one is dropped.
handleRequest(v, b) ==
  LET c == core[v]
      d == [c EXCEPT !.pendingRequest = b]
  IN  /\ b \in requests[v]
      /\ b.height <= c.sequence
      /\ requests' = [requests EXCEPT ![v] = @ \ {b}]
      /\ IF b.height < c.sequence
         THEN UNCHANGED <<core, msgs>>
         ELSE /\ core' = [core EXCEPT ![v] = d]
              /\ msgs' = IF c.state = StateAcceptRequest
                         THEN msgs \cup sendPreprepare(v, d, b) ELSE msgs
      /\ UNCHANGED <<chain, badBlocks, sealed>>

\* core.handlePreprepare on a message of an old view: the proposer of that
\* view gets a COMMIT for a block that is already in the chain.
handleOldPreprepare(v, m) ==
  /\ m \in msgs
  /\ m.code = "Preprepare"
  /\ OldView(core[v], m)
  /\ m.digest.height <= Len(chain[v])
  /\ m.src = CalcProposer(v, m.digest.height, m.round)
  /\ chain[v][m.digest.height] = m.digest
  /\ msgs' = msgs \cup {[code |-> "Commit", sequence |-> m.sequence,
                         round |-> m.round, digest |-> m.digest,
                         src |-> v, old |-> TRUE]}
  /\ UNCHANGED <<core, chain, badBlocks, requests, sealed>>

\* core.handlePreprepare on a message of the current view.  Verify refuses a
\* block known to be bad; a block from the future is posted again later.
handlePreprepare(v, m) ==
  LET c == core[v]
      accepted(s) == [c EXCEPT !.preprepare = m.digest, !.state = s]
  IN  /\ m \in msgs
      /\ m.code = "Preprepare"
      /\ checkMessage(c, m)
      /\ m.src = c.proposer
      /\ \/ /\ m.digest \in badBlocks[v]
            /\ sendNextRoundChange(v, c)
         \/ /\ m.digest \notin badBlocks[v]
            /\ canAccept(c)
            /\ IsHashLocked(v, c) /\ m.digest = c.lockedHash
            /\ core' = [core EXCEPT ![v] = accepted(StatePrepared)]
            /\ msgs' = msgs \cup {Msg("Commit", c, m.digest, v)}
         \/ /\ m.digest \notin badBlocks[v]
            /\ canAccept(c)
            /\ IsHashLocked(v, c) /\ m.digest # c.lockedHash
            /\ sendNextRoundChange(v, c)
         \/ /\ m.digest \notin badBlocks[v]
            /\ canAccept(c)
            /\ ~IsHashLocked(v, c)
            /\ core' = [core EXCEPT ![v] = accepted(StatePreprepared)]
            /\ msgs' = msgs \cup {Msg("Prepare", c, m.digest, v)}
      /\ UNCHANGED <<chain, badBlocks, requests, sealed>>

\* core.handlePrepare, with verifyPrepare, acceptPrepare and sendCommit.
handlePrepare(v, m) ==
  LET c == core[v]
      d == [c EXCEPT !.prepares = @ \cup {m.src}]
      prepared == /\ \/ IsHashLocked(v, d) /\ m.digest = d.lockedHash
                     \/ GetPrepareOrCommitSize(d) >= Confirmations
                  /\ d.state < StatePrepared
  IN  /\ m \in msgs
      /\ m.code = "Prepare"
      /\ checkMessage(c, m)
      /\ c.preprepare # NoBlock /\ m.digest = c.preprepare
      /\ IF prepared
         THEN /\ core' = [core EXCEPT ![v] =
                   [d EXCEPT !.lockedHash = d.preprepare, !.state = StatePrepared]]
              /\ msgs' = msgs \cup {Msg("Commit", d, d.preprepare, v)}
         ELSE /\ core' = [core EXCEPT ![v] = d]
              /\ UNCHANGED msgs
      /\ UNCHANGED <<chain, badBlocks, requests, sealed>>

\* core.handleCommit and core.commit.  backend.Commit hands the block on to be
\* inserted; should it fail, which only a validator in Faulty sees, the hash
\* is unlocked and the next round asked for.
handleCommit(v, m) ==
  LET c == core[v]
      d == [c EXCEPT !.commits = @ \cup {m.src}]
      e == [d EXCEPT !.lockedHash = d.preprepare, !.state = StateCommitted]
      committed == /\ Cardinality(d.commits) >= Confirmations
                   /\ d.state < StateCommitted
  IN  /\ m \in msgs
      /\ m.code = "Commit"
      /\ checkMessage(c, m)
      /\ c.preprepare # NoBlock /\ m.digest = c.preprepare
      /\ \/ /\ ~committed
            /\ core' = [core EXCEPT ![v] = d]
            /\ UNCHANGED <<msgs, sealed>>
         \/ /\ committed
            /\ core' = [core EXCEPT ![v] = e]
            /\ sealed' = sealed \cup {e.preprepare}
            /\ UNCHANGED msgs
         \/ /\ committed
            /\ v \in Faulty
            /\ sendNextRoundChange(v, [e EXCEPT !.lockedHash = NoBlock])
            /\ UNCHANGED sealed
      /\ UNCHANGED <<chain, badBlocks, requests>>

\* The quorum of ROUND CHANGEs for round r that starts it.
startsRound(c, r, num) ==
  num = Confirmations /\ (c.waitingForRoundChange \/ c.round < r)

\* core.handleRoundChange.  num is the size of the set for that round after
\* the message was added; the branch for F+1 messages comes first.
handleRoundChange(v, m) ==
  LET c == core[v]
      d == [c EXCEPT !.roundChanges = @ \cup {[round |-> m.round, src |-> m.src]}]
      num == RoundChangeSize(d, m.round)
      weak == c.waitingForRoundChange /\ num = F + 1
      strong == ~weak /\ startsRound(c, m.round, num)
      next == startNewRound(v, d, m.round)
  IN  /\ m \in msgs
      /\ m.code = "RoundChange"
      /\ checkMessage(c, m)
      /\ \/ weak /\ c.round < m.round /\ sendRoundChange(v, d, m.round)
         \/ /\ strong
            /\ core' = [core EXCEPT ![v] = next]
            /\ msgs' = msgs \cup newRoundProposal(v, next)
         \/ /\ ~strong /\ ~(weak /\ c.round < m.round)
            /\ core' = [core EXCEPT ![v] = d]
            /\ UNCHANGED msgs
      /\ UNCHANGED <<chain, badBlocks, requests, sealed>>

\* roundChangeSet.MaxRound(num): the rounds it takes the maximum of.
RoundsWith(c, num) ==
  {rc.round : rc \in {x \in c.roundChanges : RoundChangeSize(c, x.round) >= num}}

\* core.handleTimeoutMsg.
handleTimeoutMsg(v) ==
  LET c == core[v]
      ahead == {r \in RoundsWith(c, F + 1) : r > c.round}
      behind == ~c.waitingForRoundChange /\ ahead # {}
  IN  /\ v \in Timers
      /\ c.sequence <= MaxSeq
      /\ \/ /\ behind
            /\ \E r \in ahead : /\ \A q \in ahead : q <= r
                              /\ sendRoundChange(v, c, r)
         \/ /\ ~behind /\ Len(chain[v]) >= c.sequence
            /\ core' = [core EXCEPT ![v] = startNewRound(v, c, 0)]
            /\ UNCHANGED msgs
         \/ /\ ~behind /\ Len(chain[v]) < c.sequence
            /\ sendNextRoundChange(v, c)
      /\ UNCHANGED <<chain, badBlocks, requests, sealed>>

\* core.handleFinalCommitted, posted by NewChainHead after an insertion.
handleFinalCommitted(v) ==
  /\ Len(chain[v]) >= core[v].sequence
  /\ core' = [core EXCEPT ![v] = startNewRound(v, core[v], 0)]
  /\ UNCHANGED <<chain, badBlocks, requests, msgs, sealed>>

\* Mutant: a block is appended although the chain may have one of its height.
InsertBlockAgain(v, b) ==
  /\ b \in sealed
  /\ b.height \in Len(chain[v]) .. Len(chain[v]) + 1
  /\ b \notin badBlocks[v]
  /\ IF Bad(b)
     THEN /\ badBlocks' = [badBlocks EXCEPT ![v] = @ \cup {b}]
          /\ UNCHANGED chain
     ELSE /\ chain' = [chain EXCEPT ![v] = Append(@, b)]
          /\ UNCHANGED badBlocks
  /\ UNCHANGED <<core, requests, msgs, sealed>>

\* The block importer behind backend.Commit: a sealed block, its own or one
\* propagated by a peer, is inserted on the head or reported as bad.
InsertBlock(v, b) ==
  /\ b \in sealed
  /\ b.height = Len(chain[v]) + 1
  /\ b \notin badBlocks[v]
  /\ IF Bad(b)
     THEN /\ badBlocks' = [badBlocks EXCEPT ![v] = @ \cup {b}]
          /\ UNCHANGED chain
     ELSE /\ chain' = [chain EXCEPT ![v] = Append(@, b)]
          /\ UNCHANGED badBlocks
  /\ UNCHANGED <<core, requests, msgs, sealed>>

\* backend.Stop and Start: handleEvents drops c.current, and with it the lock,
\* the pending request and the votes; the chain is on disk.
Restart(v) ==
  /\ v \in Faulty
  /\ core' = [core EXCEPT ![v] =
                enterRound(v, @, Len(chain[v]) + 1, 0, FALSE)]
  /\ UNCHANGED <<chain, badBlocks, requests, msgs, sealed>>

Next ==
  \E v \in Live :
    \/ \E p \in Payload : Seal(v, p)
    \/ \E b \in requests[v] : handleRequest(v, b)
    \/ \E m \in msgs : handleOldPreprepare(v, m)
    \/ \E m \in msgs : handlePreprepare(v, m)
    \/ \E m \in msgs : handlePrepare(v, m)
    \/ \E m \in msgs : handleCommit(v, m)
    \/ \E m \in msgs : handleRoundChange(v, m)
    \/ handleTimeoutMsg(v)
    \/ handleFinalCommitted(v)
    \/ \E b \in sealed : InsertBlock(v, b)
    \/ Restart(v)

Spec == Init /\ [][Next]_vars

-----------------------------------------------------------------------------
(* Properties.                                                             *)

\* The type of every variable.  A PRE-PREPARE always carries a block.
TypeOK ==
  /\ core \in [Validator -> CoreState]
  /\ chain \in [Validator -> Seq(Block)]
  /\ badBlocks \in [Validator -> SUBSET Block]
  /\ requests \in [Validator -> SUBSET Block]
  /\ msgs \subseteq Message
  /\ sealed \subseteq Block
  /\ \A m \in msgs : m.code = "Preprepare" => m.digest \in Block

\* The point of consensus/istanbul: whatever the rounds, timeouts, late
\* messages and restarts, core.commit never hands two different blocks that
\* can be executed to the backend for one height.
Agreement ==
  \A a, b \in sealed : a.height = b.height /\ ~Bad(a) /\ ~Bad(b) => a = b

\* What the users of the chain see: any two validators hold the same block at
\* every height both have, so a block InsertBlock appended is final.
ChainsAgree ==
  \A v, w \in Validator : \A h \in 1 .. Len(chain[v]) :
    h <= Len(chain[w]) => chain[v][h] = chain[w][h]

Votes(code, s, r, b) ==
  {m.src : m \in {n \in msgs : /\ n.code = code /\ ~n.old
                               /\ n.sequence = s /\ n.round = r /\ n.digest = b}}

\* Between restarts a validator sends PREPARE for one digest per view, although
\* a proposer whose miner replaces its work may propose twice in a view.
PrepareOncePerView ==
  \A m, n \in msgs :
    /\ m.code = "Prepare" /\ n.code = "Prepare"
    /\ m.src = n.src /\ m.src \notin Faulty
    /\ m.sequence = n.sequence /\ m.round = n.round
    => m.digest = n.digest

\* startNewRound(round) with round > 0 is only entered by a validator when a
\* quorum asked for that very round; one that merely timed out keeps waiting.
StartedRoundHasQuorum ==
  \A v \in Validator :
    LET c == core[v]
    IN  c.round > 0 /\ ~c.waitingForRoundChange =>
          Cardinality(Votes("RoundChange", c.sequence, c.round, NoBlock))
            >= Confirmations

\* A lock on a block that can be executed is never dropped or replaced by a
\* validator that is not restarted, until its chain moves to the next sequence:
\* this is what carries Agreement from one round to the next.
LockKept ==
  [][\A v \in Validator \ Faulty :
       LET b == core[v].lockedHash
       IN  b # NoBlock /\ ~Bad(b) /\ core'[v].sequence = core[v].sequence
             => core'[v].lockedHash = b]_vars

\* Sequence and round of a validator only move forward between restarts, so a
\* late ROUND CHANGE quorum never takes it back to a round it has left.
ViewNeverDecreases ==
  [][\A v \in Validator \ Faulty :
       \/ core'[v].sequence > core[v].sequence
       \/ /\ core'[v].sequence = core[v].sequence
          /\ core'[v].round >= core[v].round]_vars
=============================================================================
