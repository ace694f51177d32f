------------------------- MODULE IstanbulCoreProofs -------------------------
(***************************************************************************)
(* Proofs about IstanbulCore for every number of validators, every set of  *)
(* blocks and every bound: type correctness, Agreement, ChainsAgree,       *)
(* LockKept, ViewNeverDecreases, PrepareOncePerView and                    *)
(* StartedRoundHasQuorum.                                                  *)
(***************************************************************************)
EXTENDS IstanbulCore, FiniteSetTheorems, TLAPS

\* Zenon is tried before SMT, and both have a minute.
USE ZenonT(60), SMTT(60)

-----------------------------------------------------------------------------
(* Validator sets.                                                         *)

\* There are N validators.
LEMMA ValidatorFinite == IsFiniteSet(Validator) /\ Cardinality(Validator) = N
  BY NAssumption, FS_Interval, SMTT(60) DEF Validator

\* Two sets of Ceil(2N/3) validators have a validator in common that is never
\* restarted: the arithmetic of Confirmations and F.
LEMMA QuorumIntersection ==
  ASSUME NEW A \in SUBSET Validator, NEW B \in SUBSET Validator,
         Cardinality(A) >= Confirmations, Cardinality(B) >= Confirmations
  PROVE  \E w \in A \cap B : w \notin Faulty
<1>1. IsFiniteSet(A) /\ IsFiniteSet(B) /\ IsFiniteSet(Faulty)
  BY ValidatorFinite, FaultyAssumption, FS_Subset
<1>2. /\ IsFiniteSet(A \cap B)
      /\ Cardinality(A \cup B) = Cardinality(A) + Cardinality(B) - Cardinality(A \cap B)
  BY <1>1, FS_Union, FS_Intersection
<1>3. Cardinality(A \cup B) <= N
  BY ValidatorFinite, FS_Subset
<1>4. /\ Cardinality(A) \in Nat /\ Cardinality(B) \in Nat
      /\ Cardinality(A \cap B) \in Nat /\ Cardinality(Faulty) \in Nat
  BY <1>1, <1>2, FS_CardinalityType
<1>5. 2 * Confirmations - N > F
  BY NAssumption, SMTT(60) DEF Confirmations, F
<1>6. Cardinality(A \cap B) > F
  BY <1>2, <1>3, <1>4, <1>5, NAssumption, SMTT(60) DEF Confirmations, F
<1>7. ~(A \cap B \subseteq Faulty)
  BY <1>1, <1>2, <1>4, <1>6, FaultyAssumption, FS_Subset, NAssumption, SMTT(60) DEF F
<1> QED
  BY <1>7

\* CalcProposer names a validator.
LEMMA ProposerType ==
  ASSUME TypeOK, NEW v \in Validator, NEW s \in Nat \ {0}, NEW r \in Nat,
         s - 1 <= Len(chain[v])
  PROVE  CalcProposer(v, s, r) \in Validator
<1>1. \A a \in Nat : a % N \in 0 .. N - 1
  BY NAssumption, SMTT(60)
<1>2. CASE s = 1
  <2>1. CalcProposer(v, s, r) = r % N
    BY ONLY <1>2, ZenonT(60) DEF CalcProposer
  <2> QED
    BY ONLY <1>1, <2>1, r \in Nat, ZenonT(60) DEF Validator
<1>3. CASE s # 1
  <2>1. chain[v] \in Seq(Block) /\ s - 1 \in 1 .. Len(chain[v])
    BY <1>3, SMTT(60) DEF TypeOK
  <2>2. chain[v][s - 1] \in Block
    BY <2>1, SMTT(60)
  <2>3. chain[v][s - 1].author \in Nat
    BY <2>2, SMTT(60) DEF Block, Validator
  <2>4. chain[v][s - 1].author + r + (IF Sticky THEN 0 ELSE 1) \in Nat
    BY ONLY <2>3, r \in Nat, SMTT(60)
  <2> QED
    BY <1>1, <1>3, <2>4 DEF CalcProposer, Validator
<1> QED
  BY <1>2, <1>3

-----------------------------------------------------------------------------
(* The inductive invariant.                                                *)

\* A COMMIT a validator sent for a block it is locked on.
LockVote(m) == m.code = "Commit" /\ ~m.old

Voters(b) == {w \in Validator : \E m \in msgs : LockVote(m) /\ m.src = w /\ m.digest = b}

\* A quorum has sent COMMIT for b from behind its locks.
Chosen(b) == Cardinality(Voters(b)) >= Confirmations

\* One validator's struct: its proposal is for its sequence, a lock on a good
\* block is a lock on the proposal, and every COMMIT it counts was sent for it.
CoreOK(c) ==
  /\ c.preprepare # NoBlock => c.preprepare.height = c.sequence
  /\ c.lockedHash # NoBlock /\ ~Bad(c.lockedHash) => c.preprepare = c.lockedHash
  /\ c.state = StateAcceptRequest => c.commits = {}
  /\ \A w \in c.commits : \E m \in msgs :
       /\ m.code = "Commit" /\ m.src = w
       /\ c.preprepare # NoBlock /\ m.digest = c.preprepare

CoresOK == \A v \in Validator : CoreOK(core[v])

BadOK == \A v \in Validator : \A b \in badBlocks[v] : Bad(b)

ChainOK ==
  \A v \in Validator : \A h \in 1 .. Len(chain[v]) :
    chain[v][h] \in sealed /\ ~Bad(chain[v][h]) /\ chain[v][h].height = h

PreprepareOK ==
  \A m \in msgs : m.code = "Preprepare" => m.digest.height = m.sequence

CommitOK ==
  \A m \in msgs : m.code = "Commit" =>
    /\ m.digest \in Block
    /\ m.digest.height = m.sequence
    /\ m.old => m.digest \in sealed

\* The strengthening that makes Agreement inductive: a vote from behind a lock
\* binds its sender for the rest of the sequence.
VoteBinds ==
  \A m \in msgs : LockVote(m) /\ ~Bad(m.digest) /\ m.src \notin Faulty =>
    /\ m.sequence <= core[m.src].sequence
    /\ m.sequence = core[m.src].sequence => core[m.src].lockedHash = m.digest

VoteOnce ==
  \A m, n \in msgs :
    /\ LockVote(m) /\ LockVote(n) /\ ~Bad(m.digest) /\ ~Bad(n.digest)
    /\ m.src = n.src /\ m.src \notin Faulty /\ m.sequence = n.sequence
    => m.digest = n.digest

SealedChosen == \A b \in sealed : Chosen(b)

IInv ==
  /\ TypeOK /\ CoresOK /\ BadOK /\ ChainOK /\ PreprepareOK
  /\ CommitOK /\ VoteBinds /\ VoteOnce /\ SealedChosen

\* What a step of validator v that leaves it with struct d may do.
StepOK(v, d) ==
  /\ d \in CoreState
  /\ core' = [core EXCEPT ![v] = d]
  /\ msgs \subseteq msgs' /\ sealed \subseteq sealed'
  /\ CoreOK(d)
  /\ \A m \in msgs' \ msgs :
       /\ m \in Message
       /\ m.code = "Preprepare" => m.digest \in Block /\ m.digest.height = m.sequence
       /\ m.code = "Commit" /\ m.old =>
            m.digest \in sealed /\ m.digest.height = m.sequence
       /\ m.code = "Commit" /\ ~m.old =>
            /\ m.src = v /\ m.sequence = core[v].sequence
            /\ m.sequence = d.sequence
            /\ m.digest \in Block
            /\ m.digest = d.preprepare /\ m.digest = d.lockedHash
  /\ v \notin Faulty =>
       \/ d.sequence > core[v].sequence
       \/ /\ d.sequence = core[v].sequence /\ d.round >= core[v].round
          /\ core[v].lockedHash # NoBlock /\ ~Bad(core[v].lockedHash)
               => d.lockedHash = core[v].lockedHash
  /\ \A b \in sealed' \ sealed :
       /\ b \in Block /\ b = d.preprepare
       /\ Cardinality(d.commits) >= Confirmations
       /\ msgs' = msgs

-----------------------------------------------------------------------------
(* What the round state functions return.                                  *)

\* The nil proposal is none of the blocks.
LEMMA NoBlockNotBlock == NoBlock \notin Block /\ \A b \in Block : b # NoBlock
<1> SUFFICES ASSUME NEW b \in Block, b = NoBlock PROVE FALSE
  OBVIOUS
<1>1. b.height # 0
  BY DEF Block
<1>2. NoBlock.height = 0
  BY DEF NoBlock
<1> QED
  BY <1>1, <1>2

\* catchUpRound keeps the sequence, and the proposal exactly when it is locked.
LEMMA CatchUpFields ==
  ASSUME NEW v \in Validator, NEW c \in CoreState, NEW r \in Nat
  PROVE  LET d == catchUpRound(v, c, r)
         IN  /\ d \in CoreState
             /\ d.sequence = c.sequence /\ d.round = r /\ d.commits = {}
             /\ IsHashLocked(v, c) =>
                  d.preprepare = c.preprepare /\ d.lockedHash = c.lockedHash
             /\ ~IsHashLocked(v, c) => d.preprepare = NoBlock /\ d.lockedHash = NoBlock
<1> DEFINE u == updateRoundState(v, c, c.sequence, r, TRUE)
<1>1. c.sequence \in Nat \ {0}
  BY DEF CoreState
<1>2. /\ u \in CoreState /\ u.sequence = c.sequence /\ u.round = r /\ u.commits = {}
      /\ IsHashLocked(v, c) => u.preprepare = c.preprepare /\ u.lockedHash = c.lockedHash
      /\ ~IsHashLocked(v, c) => u.preprepare = NoBlock /\ u.lockedHash = NoBlock
  BY <1>1 DEF updateRoundState, CoreState
<1>3. catchUpRound(v, c, r) = [u EXCEPT !.waitingForRoundChange = TRUE,
                                !.roundChanges = {x \in @ : x.round >= r}]
  BY DEF catchUpRound
<1> HIDE DEF u
<1> QED
  BY <1>2, <1>3 DEF CoreState

\* The messages of a validator have the type of messages.
LEMMA MsgFields ==
  ASSUME NEW code \in Code, NEW c \in CoreState, NEW b \in Block \cup {NoBlock},
         NEW v \in Validator
  PROVE  LET m == Msg(code, c, b, v)
         IN  /\ m \in Message /\ m.code = code /\ m.digest = b /\ m.src = v
             /\ m.sequence = c.sequence /\ m.round = c.round /\ ~m.old
<1>1. c.sequence \in Nat /\ c.round \in Nat
  BY DEF CoreState
<1> QED
  BY <1>1 DEF Msg, Message

\* A round state without COMMITs that keeps proposal and lock, or drops both, is
\* as good as the one before.
LEMMA RoundStateOK ==
  ASSUME NEW c, NEW d, CoreOK(c), d.commits = {},
         \/ /\ d.sequence = c.sequence
            /\ d.preprepare = c.preprepare /\ d.lockedHash = c.lockedHash
         \/ d.preprepare = NoBlock /\ d.lockedHash = NoBlock
  PROVE  CoreOK(d)
  BY DEF CoreOK

\* A lock on a good block counts as a lock: only bad blocks are reported bad.
LEMMA GoodLockHolds ==
  ASSUME BadOK, NEW v \in Validator, NEW c, c.lockedHash # NoBlock, ~Bad(c.lockedHash)
  PROVE  IsHashLocked(v, c)
  BY DEF BadOK, IsHashLocked

-----------------------------------------------------------------------------
(* Every action is a StepOK of the validator that takes it.                *)

\* sendRoundChange takes a step of the form StepOK.
LEMMA RoundChangeStep ==
  ASSUME IInv, NEW v \in Validator, NEW c \in CoreState, NEW r \in Nat,
         CoreOK(c), c.sequence = core[v].sequence, c.round = core[v].round,
         c.lockedHash = core[v].lockedHash \/ v \in Faulty,
         sendRoundChange(v, c, r), UNCHANGED sealed
  PROVE  StepOK(v, catchUpRound(v, c, r))
<1> DEFINE d == catchUpRound(v, c, r)
<1>1. /\ d \in CoreState
      /\ d.sequence = c.sequence /\ d.round = r /\ d.commits = {}
      /\ IsHashLocked(v, c) =>
           d.preprepare = c.preprepare /\ d.lockedHash = c.lockedHash
      /\ ~IsHashLocked(v, c) => d.preprepare = NoBlock /\ d.lockedHash = NoBlock
  BY CatchUpFields, SMTT(60)
<1>2. /\ core' = [core EXCEPT ![v] = d]
      /\ msgs' = msgs \cup {Msg("RoundChange", d, NoBlock, v)}
      /\ r > c.round
  BY DEF sendRoundChange
<1> HIDE DEF d
<1>3. CoreOK(d)
  BY <1>1, RoundStateOK
<1>4. \A m \in msgs' \ msgs : m \in Message /\ m.code = "RoundChange"
  <2>1. "RoundChange" \in Code /\ NoBlock \in Block \cup {NoBlock}
    BY DEF Code
  <2>2. /\ Msg("RoundChange", d, NoBlock, v) \in Message
        /\ Msg("RoundChange", d, NoBlock, v).code = "RoundChange"
    BY <1>1, <2>1, MsgFields, SMTT(60)
  <2> QED
    BY <1>2, <2>2
<1>5. c.lockedHash = core[v].lockedHash /\ c.lockedHash # NoBlock /\ ~Bad(c.lockedHash)
        => d.lockedHash = core[v].lockedHash
  BY <1>1, GoodLockHolds DEF IInv
<1>6. core[v] \in CoreState /\ c.round \in Nat
  BY DEF IInv, TypeOK, CoreState
<1>7. v \notin Faulty =>
         /\ d.sequence = core[v].sequence /\ d.round >= core[v].round
         /\ core[v].lockedHash # NoBlock /\ ~Bad(core[v].lockedHash)
              => d.lockedHash = core[v].lockedHash
  BY <1>1, <1>2, <1>5, <1>6, SMTT(60)
<1>8. msgs \subseteq msgs' /\ sealed \subseteq sealed' /\ sealed' \ sealed = {}
  BY <1>2
<1> QED
  BY <1>1, <1>2, <1>3, <1>4, <1>7, <1>8 DEF StepOK, d

\* startNewRound leaves a struct that a step may leave.
LEMMA NewRoundFacts ==
  ASSUME IInv, NEW v \in Validator, NEW c \in CoreState, NEW r \in Nat,
         CoreOK(c), c.sequence = core[v].sequence, c.round = core[v].round,
         c.lockedHash = core[v].lockedHash
  PROVE  LET d == startNewRound(v, c, r)
         IN  /\ d \in CoreState /\ CoreOK(d)
             /\ \/ d.sequence > core[v].sequence
                \/ /\ d.sequence = core[v].sequence /\ d.round >= core[v].round
                   /\ core[v].lockedHash # NoBlock /\ ~Bad(core[v].lockedHash)
                        => d.lockedHash = core[v].lockedHash
<1> DEFINE last == Len(chain[v])
<1>1. last \in Nat /\ c.sequence \in Nat \ {0} /\ c.round \in Nat
  BY SMTT(60) DEF IInv, TypeOK, CoreState
<1>2. CASE last >= c.sequence
  <2> DEFINE d == enterRound(v, c, last + 1, 0, FALSE)
  <2>1. startNewRound(v, c, r) = d
    BY <1>2 DEF startNewRound
  <2>2. /\ d \in CoreState /\ d.sequence = last + 1 /\ d.commits = {}
        /\ d.preprepare = NoBlock /\ d.lockedHash = NoBlock
    <3>1. last + 1 \in Nat \ {0} /\ (last + 1) - 1 <= Len(chain[v])
      BY <1>1, SMTT(60)
    <3>2. CalcProposer(v, last + 1, 0) \in Validator
      BY <3>1, ProposerType DEF IInv
    <3>3. StateAcceptRequest \in StateAcceptRequest .. StateCommitted
      BY SMTT(60) DEF StateAcceptRequest, StateCommitted
    <3> QED
      BY <3>1, <3>2, <3>3 DEF enterRound, updateRoundState, CoreState
  <2> HIDE DEF d
  <2>3. CoreOK(d)
    BY <2>2, RoundStateOK
  <2> QED
    BY <1>1, <1>2, <2>1, <2>2, <2>3, SMTT(60)
<1>3. CASE ~(last >= c.sequence) /\ last = c.sequence - 1 /\ r # 0 /\ r >= c.round
  <2> DEFINE d == enterRound(v, c, c.sequence, r, TRUE)
  <2>1. startNewRound(v, c, r) = d
    BY <1>3 DEF startNewRound
  <2>2. /\ d \in CoreState /\ d.sequence = c.sequence /\ d.round = r /\ d.commits = {}
        /\ IsHashLocked(v, c) =>
             d.preprepare = c.preprepare /\ d.lockedHash = c.lockedHash
        /\ ~IsHashLocked(v, c) => d.preprepare = NoBlock /\ d.lockedHash = NoBlock
    <3>1. c.sequence - 1 <= Len(chain[v])
      BY <1>1, <1>3, SMTT(60)
    <3>2. CalcProposer(v, c.sequence, r) \in Validator
      BY <1>1, <3>1, ProposerType DEF IInv
    <3>3. StateAcceptRequest \in StateAcceptRequest .. StateCommitted
      BY SMTT(60) DEF StateAcceptRequest, StateCommitted
    <3> QED
      BY <1>1, <3>2, <3>3 DEF enterRound, updateRoundState, CoreState
  <2> HIDE DEF d
  <2>3. CoreOK(d)
    BY <2>2, RoundStateOK
  <2>4. c.lockedHash # NoBlock /\ ~Bad(c.lockedHash) => d.lockedHash = c.lockedHash
    BY <2>2, GoodLockHolds DEF IInv
  <2> QED
    BY <1>1, <1>3, <2>1, <2>2, <2>3, <2>4
<1>4. CASE ~(last >= c.sequence) /\ ~(last = c.sequence - 1 /\ r # 0 /\ r >= c.round)
  <2>1. startNewRound(v, c, r) = c
    BY <1>4 DEF startNewRound
  <2> QED
    BY <1>1, <2>1, SMTT(60)
<1> QED
  BY <1>2, <1>3, <1>4

\* The struct of a validator under the invariant.
LEMMA CoreFacts ==
  ASSUME IInv, NEW v \in Validator
  PROVE  /\ core[v] \in CoreState /\ CoreOK(core[v])
         /\ core = [core EXCEPT ![v] = core[v]]
         /\ core[v].sequence \in Nat \ {0} /\ core[v].round \in Nat
         /\ core[v].preprepare \in Block \cup {NoBlock}
  BY DEF IInv, TypeOK, CoresOK, CoreState

\* A step that leaves sequence, round, proposal, lock and COMMITs alone and
\* sends at most PRE-PREPAREs and PREPAREs.
LEMMA QuietStep ==
  ASSUME IInv, NEW v \in Validator, NEW d \in CoreState,
         core' = [core EXCEPT ![v] = d],
         d.sequence = core[v].sequence, d.round = core[v].round,
         d.preprepare = core[v].preprepare, d.lockedHash = core[v].lockedHash,
         d.commits = core[v].commits, d.state = core[v].state,
         msgs \subseteq msgs', sealed' = sealed,
         \A m \in msgs' \ msgs :
           /\ m \in Message /\ m.code \in {"Preprepare", "Prepare"}
           /\ m.code = "Preprepare" => m.digest \in Block /\ m.digest.height = m.sequence
  PROVE  StepOK(v, d)
<1>1. core[v].round \in Nat /\ CoreOK(core[v])
  BY CoreFacts
<1>2. CoreOK(d)
  BY <1>1, SMTT(60) DEF CoreOK
<1> QED
  BY <1>1, <1>2, SMTT(60) DEF StepOK

\* The states are numbered in the order of the protocol.
LEMMA StateRange ==
  /\ StateAcceptRequest \in StateAcceptRequest .. StateCommitted
  /\ StatePreprepared \in StateAcceptRequest .. StateCommitted
  /\ StatePrepared \in StateAcceptRequest .. StateCommitted
  /\ StateCommitted \in StateAcceptRequest .. StateCommitted
  /\ StatePrepared # StateAcceptRequest /\ StateCommitted # StateAcceptRequest
  BY SMTT(60) DEF StateAcceptRequest, StatePreprepared, StatePrepared, StateCommitted

\* A step inside a view that keeps a good lock and sends at most PREPAREs and
\* COMMITs for the proposal it is locked on.
LEMMA VoteStep ==
  ASSUME IInv, NEW v \in Validator, NEW d \in CoreState,
         core' = [core EXCEPT ![v] = d], CoreOK(d),
         d.sequence = core[v].sequence, d.round = core[v].round,
         core[v].lockedHash # NoBlock /\ ~Bad(core[v].lockedHash)
           => d.lockedHash = core[v].lockedHash,
         msgs \subseteq msgs', sealed' = sealed,
         \A m \in msgs' \ msgs :
           /\ m \in Message /\ m.code \in {"Prepare", "Commit"} /\ ~m.old
           /\ m.src = v /\ m.sequence = core[v].sequence
           /\ m.code = "Commit" =>
                m.digest \in Block /\ m.digest = d.preprepare /\ m.digest = d.lockedHash
  PROVE  StepOK(v, d)
<1>1. core[v].round \in Nat
  BY CoreFacts
<1>2. /\ v \notin Faulty =>
           \/ d.sequence > core[v].sequence
           \/ /\ d.sequence = core[v].sequence /\ d.round >= core[v].round
              /\ core[v].lockedHash # NoBlock /\ ~Bad(core[v].lockedHash)
                   => d.lockedHash = core[v].lockedHash
  BY <1>1, SMTT(60)
<1>3. \A m \in msgs' \ msgs :
        /\ m \in Message
        /\ m.code = "Preprepare" => m.digest \in Block /\ m.digest.height = m.sequence
        /\ m.code = "Commit" /\ m.old =>
             m.digest \in sealed /\ m.digest.height = m.sequence
        /\ m.code = "Commit" /\ ~m.old =>
             /\ m.src = v /\ m.sequence = core[v].sequence
             /\ m.sequence = d.sequence
             /\ m.digest \in Block
             /\ m.digest = d.preprepare /\ m.digest = d.lockedHash
  OBVIOUS
<1> QED
  BY <1>2, <1>3 DEF StepOK

\* The sequence check of sendPreprepare also keeps an absent proposal back.
LEMMA SendPreprepareFacts ==
  ASSUME NEW v \in Validator, NEW d \in CoreState, NEW b \in Block \cup {NoBlock},
         NEW m \in sendPreprepare(v, d, b)
  PROVE  /\ m \in Message /\ m.code = "Preprepare"
         /\ m.digest \in Block /\ m.digest.height = m.sequence
<1>1. m = Msg("Preprepare", d, b, v) /\ d.sequence = b.height
  BY DEF sendPreprepare
<1>2. "Preprepare" \in Code
  BY DEF Code
<1>3. b # NoBlock
  <2>1. d.sequence # 0
    BY DEF CoreState
  <2>2. NoBlock.height = 0
    BY DEF NoBlock
  <2> QED
    BY <1>1, <2>1, <2>2
<1> QED
  BY <1>1, <1>2, <1>3, MsgFields, SMTT(60)

\* Seal only adds a request.
LEMMA SealStep ==
  ASSUME IInv, NEW v \in Validator, NEW p \in Payload, Seal(v, p)
  PROVE  StepOK(v, core[v])
<1>1. core' = core /\ msgs' = msgs /\ sealed' = sealed
  BY DEF Seal
<1> QED
  BY <1>1, CoreFacts, QuietStep

\* handleRequest sends a PRE-PREPARE for its sequence, or keeps the request.
LEMMA HandleRequestStep ==
  ASSUME IInv, NEW v \in Validator, NEW b \in requests[v], handleRequest(v, b)
  PROVE  \E d : StepOK(v, d)
<1> DEFINE c == core[v]
           d == [c EXCEPT !.pendingRequest = b]
<1>1. b \in Block /\ c \in CoreState
  BY DEF IInv, TypeOK
<1>2. sealed' = sealed
  BY DEF handleRequest
<1>3. CASE b.height < c.sequence
  <2>1. core' = core /\ msgs' = msgs
    BY <1>3 DEF handleRequest
  <2>2. StepOK(v, core[v])
    BY <1>2, <2>1, CoreFacts, QuietStep
  <2> QED
    BY <2>2
<1>4. CASE ~(b.height < c.sequence)
  <2>1. /\ core' = [core EXCEPT ![v] = d]
        /\ msgs' = msgs \/ msgs' = msgs \cup sendPreprepare(v, d, b)
    BY <1>4 DEF handleRequest
  <2>2. /\ d \in CoreState
        /\ d.sequence = c.sequence /\ d.round = c.round /\ d.commits = c.commits
        /\ d.preprepare = c.preprepare /\ d.lockedHash = c.lockedHash
        /\ d.state = c.state
    BY <1>1 DEF CoreState
  <2> HIDE DEF d
  <2>3. \A m \in msgs' \ msgs :
           /\ m \in Message /\ m.code = "Preprepare"
           /\ m.digest \in Block /\ m.digest.height = m.sequence
    BY <1>1, <2>1, <2>2, SendPreprepareFacts, SMTT(60)
  <2>4. StepOK(v, d)
    BY <1>2, <2>1, <2>2, <2>3, QuietStep
  <2> QED
    BY <2>4
<1> QED
  BY <1>3, <1>4

\* The COMMIT that answers an old PRE-PREPARE is for a sealed block.
LEMMA HandleOldPreprepareStep ==
  ASSUME IInv, NEW v \in Validator, NEW m \in msgs, handleOldPreprepare(v, m)
  PROVE  StepOK(v, core[v])
<1> DEFINE n == [code |-> "Commit", sequence |-> m.sequence, round |-> m.round,
                 digest |-> m.digest, src |-> v, old |-> TRUE]
<1>1. /\ core' = core /\ sealed' = sealed /\ msgs' = msgs \cup {n}
      /\ m.code = "Preprepare"
      /\ m.digest.height <= Len(chain[v])
      /\ chain[v][m.digest.height] = m.digest
  BY DEF handleOldPreprepare
<1>2. m \in Message /\ m.digest \in Block /\ m.digest.height = m.sequence
  BY <1>1 DEF IInv, TypeOK, PreprepareOK
<1>3. m.digest.height \in Nat \ {0}
  BY <1>2 DEF Block
<1>4. Len(chain[v]) \in Nat
  BY SMTT(60) DEF IInv, TypeOK
<1>5. m.digest \in sealed
  BY <1>1, <1>3, <1>4, SMTT(60) DEF IInv, ChainOK
<1>6. /\ n \in Message /\ n.code = "Commit" /\ n.old
      /\ n.digest \in sealed /\ n.digest.height = n.sequence
  BY <1>2, <1>5 DEF Message, Code
<1> HIDE DEF n
<1>7. \A x \in msgs' \ msgs : x = n
  BY <1>1
<1>8. msgs \subseteq msgs' /\ sealed \subseteq sealed' /\ sealed' \ sealed = {}
  BY <1>1
<1> QED
  BY <1>1, <1>6, <1>7, <1>8, CoreFacts, SMTT(60) DEF StepOK

\* sendNextRoundChange takes a step of the form StepOK.
LEMMA NextRoundChangeStep ==
  ASSUME IInv, NEW v \in Validator, sendNextRoundChange(v, core[v]), UNCHANGED sealed
  PROVE  \E d : StepOK(v, d)
<1>1. core[v].round + 1 \in Nat
  BY CoreFacts, SMTT(60)
<1>2. sendRoundChange(v, core[v], core[v].round + 1)
  BY DEF sendNextRoundChange
<1>3. StepOK(v, catchUpRound(v, core[v], core[v].round + 1))
  BY <1>1, <1>2, CoreFacts, RoundChangeStep
<1> QED
  BY <1>3

\* handlePreprepare commits at once only behind its lock.
LEMMA HandlePreprepareStep ==
  ASSUME IInv, NEW v \in Validator, NEW m \in msgs, handlePreprepare(v, m)
  PROVE  \E d : StepOK(v, d)
<1> DEFINE c == core[v]
           accepted(s) == [c EXCEPT !.preprepare = m.digest, !.state = s]
<1>1. /\ m.code = "Preprepare" /\ checkMessage(c, m) /\ sealed' = sealed
  BY DEF handlePreprepare
<1>2. m.digest \in Block /\ m.digest.height = m.sequence /\ m.sequence = c.sequence
  BY <1>1 DEF IInv, TypeOK, PreprepareOK, checkMessage, SameView
<1>3. c \in CoreState /\ CoreOK(c) /\ c.round \in Nat
  BY CoreFacts
<1>4. CASE sendNextRoundChange(v, c)
  BY <1>1, <1>4, NextRoundChangeStep
<1>5. CASE /\ canAccept(c) /\ IsHashLocked(v, c) /\ m.digest = c.lockedHash
           /\ core' = [core EXCEPT ![v] = accepted(StatePrepared)]
           /\ msgs' = msgs \cup {Msg("Commit", c, m.digest, v)}
  <2> DEFINE d == accepted(StatePrepared)
  <2>1. /\ d \in CoreState
        /\ d.sequence = c.sequence /\ d.round = c.round /\ d.commits = c.commits
        /\ d.preprepare = m.digest /\ d.lockedHash = c.lockedHash
        /\ d.state = StatePrepared
    BY <1>2, <1>3, StateRange DEF CoreState
  <2>2. core' = [core EXCEPT ![v] = d]
    BY <1>5
  <2> HIDE DEF d
  <2>3. c.commits = {}
    BY <1>3, <1>5 DEF CoreOK, canAccept
  <2>4. CoreOK(d)
    BY <1>2, <1>5, <2>1, <2>3 DEF CoreOK
  <2>5. "Commit" \in Code /\ m.digest \in Block \cup {NoBlock}
    BY <1>2 DEF Code
  <2>6. \A x \in msgs' \ msgs :
          /\ x \in Message /\ x.code = "Commit" /\ ~x.old
          /\ x.src = v /\ x.sequence = c.sequence /\ x.digest = m.digest
    BY <1>3, <1>5, <2>5, MsgFields, SMTT(60)
  <2>7. StepOK(v, d)
    BY <1>1, <1>2, <1>5, <2>1, <2>2, <2>4, <2>6, VoteStep
  <2> QED
    BY <2>7
<1>6. CASE /\ canAccept(c) /\ ~IsHashLocked(v, c)
           /\ core' = [core EXCEPT ![v] = accepted(StatePreprepared)]
           /\ msgs' = msgs \cup {Msg("Prepare", c, m.digest, v)}
  <2> DEFINE d == accepted(StatePreprepared)
  <2>1. /\ d \in CoreState
        /\ d.sequence = c.sequence /\ d.round = c.round /\ d.commits = c.commits
        /\ d.preprepare = m.digest /\ d.lockedHash = c.lockedHash
    BY <1>2, <1>3, StateRange DEF CoreState
  <2>2. core' = [core EXCEPT ![v] = d]
    BY <1>6
  <2> HIDE DEF d
  <2>3. c.commits = {}
    BY <1>3, <1>6 DEF CoreOK, canAccept
  <2>4. ~(c.lockedHash # NoBlock /\ ~Bad(c.lockedHash))
    BY <1>6, GoodLockHolds DEF IInv
  <2>5. CoreOK(d)
    BY <1>2, <2>1, <2>3, <2>4 DEF CoreOK
  <2>6. "Prepare" \in Code /\ m.digest \in Block \cup {NoBlock}
    BY <1>2 DEF Code
  <2>7. \A x \in msgs' \ msgs :
          /\ x \in Message /\ x.code = "Prepare" /\ ~x.old
          /\ x.src = v /\ x.sequence = c.sequence
    BY <1>3, <1>6, <2>6, MsgFields, SMTT(60)
  <2>8. StepOK(v, d)
    BY <1>1, <1>6, <2>1, <2>2, <2>4, <2>5, <2>7, VoteStep
  <2> QED
    BY <2>8
<1> QED
  BY <1>4, <1>5, <1>6 DEF handlePreprepare

\* handlePrepare locks the proposal before it sends COMMIT.
LEMMA HandlePrepareStep ==
  ASSUME IInv, NEW v \in Validator, NEW m \in msgs, handlePrepare(v, m)
  PROVE  \E d : StepOK(v, d)
<1> DEFINE c == core[v]
           d == [c EXCEPT !.prepares = @ \cup {m.src}]
           e == [d EXCEPT !.lockedHash = d.preprepare, !.state = StatePrepared]
<1>1. c \in CoreState /\ CoreOK(c) /\ c.round \in Nat
  BY CoreFacts
<1>2. m.src \in Validator
  BY DEF IInv, TypeOK, Message
<1>3. /\ d \in CoreState
      /\ d.sequence = c.sequence /\ d.round = c.round /\ d.commits = c.commits
      /\ d.preprepare = c.preprepare /\ d.lockedHash = c.lockedHash
      /\ d.state = c.state
  BY <1>1, <1>2 DEF CoreState
<1>4. sealed' = sealed /\ c.preprepare # NoBlock
  BY DEF handlePrepare
<1>5. CASE core' = [core EXCEPT ![v] = d] /\ msgs' = msgs
  <2> HIDE DEF d
  <2>1. StepOK(v, d)
    BY <1>3, <1>4, <1>5, QuietStep
  <2> QED
    BY <2>1
<1>6. CASE core' = [core EXCEPT ![v] = e] /\ msgs' = msgs \cup {Msg("Commit", d, d.preprepare, v)}
  <2> HIDE DEF d
  <2>1. /\ e \in CoreState
        /\ e.sequence = c.sequence /\ e.round = c.round /\ e.commits = c.commits
        /\ e.preprepare = c.preprepare /\ e.lockedHash = c.preprepare
        /\ e.state = StatePrepared
    BY <1>3, StateRange DEF CoreState
  <2>2. core' = [core EXCEPT ![v] = e]
    BY <1>6
  <2> HIDE DEF e
  <2>3. CoreOK(e)
    BY <1>1, <2>1, StateRange, SMTT(60) DEF CoreOK
  <2>4. "Commit" \in Code /\ c.preprepare \in Block \cup {NoBlock} /\ c.preprepare \in Block
    BY <1>1, <1>4 DEF Code, CoreState
  <2>5. \A x \in msgs' \ msgs :
          /\ x \in Message /\ x.code = "Commit" /\ ~x.old
          /\ x.src = v /\ x.sequence = c.sequence /\ x.digest = c.preprepare
    BY <1>3, <1>6, <2>4, MsgFields, SMTT(60)
  <2>6. c.lockedHash # NoBlock /\ ~Bad(c.lockedHash) => e.lockedHash = c.lockedHash
    BY <1>1, <2>1 DEF CoreOK
  <2>7. StepOK(v, e)
    BY <1>4, <1>6, <2>1, <2>2, <2>3, <2>4, <2>5, <2>6, VoteStep
  <2> QED
    BY <2>7
<1> QED
  BY <1>5, <1>6 DEF handlePrepare

\* handleCommit hands over a proposal that a quorum has sent COMMIT for.
LEMMA HandleCommitStep ==
  ASSUME IInv, NEW v \in Validator, NEW m \in msgs, handleCommit(v, m)
  PROVE  \E d : StepOK(v, d)
<1> DEFINE c == core[v]
           d == [c EXCEPT !.commits = @ \cup {m.src}]
           e == [d EXCEPT !.lockedHash = d.preprepare, !.state = StateCommitted]
           f == [e EXCEPT !.lockedHash = NoBlock]
<1>1. c \in CoreState /\ CoreOK(c) /\ c.round \in Nat
  BY CoreFacts
<1>2. m.src \in Validator
  BY DEF IInv, TypeOK, Message
<1>3. /\ m.code = "Commit" /\ c.state # StateAcceptRequest
      /\ c.preprepare # NoBlock /\ m.digest = c.preprepare
  BY DEF handleCommit, checkMessage
<1>4. /\ d \in CoreState
      /\ d.sequence = c.sequence /\ d.round = c.round /\ d.commits = c.commits \cup {m.src}
      /\ d.preprepare = c.preprepare /\ d.lockedHash = c.lockedHash
      /\ d.state = c.state
  BY <1>1, <1>2 DEF CoreState
<1> HIDE DEF d
<1>5. /\ e \in CoreState
      /\ e.sequence = c.sequence /\ e.round = c.round /\ e.commits = d.commits
      /\ e.preprepare = c.preprepare /\ e.lockedHash = c.preprepare
      /\ e.state = StateCommitted
  BY <1>4, StateRange DEF CoreState
<1> HIDE DEF e
<1>6. /\ f \in CoreState
      /\ f.sequence = c.sequence /\ f.round = c.round /\ f.commits = d.commits
      /\ f.preprepare = c.preprepare /\ f.lockedHash = NoBlock
      /\ f.state = StateCommitted
  BY <1>5 DEF CoreState
<1> HIDE DEF f
<1>7. \A w \in d.commits : \E n \in msgs :
        /\ n.code = "Commit" /\ n.src = w
        /\ c.preprepare # NoBlock /\ n.digest = c.preprepare
  BY <1>1, <1>3, <1>4 DEF CoreOK
<1>8. CoreOK(d) /\ CoreOK(e) /\ CoreOK(f)
  BY <1>1, <1>3, <1>4, <1>5, <1>6, <1>7, StateRange, SMTT(60) DEF CoreOK
<1>9. c.lockedHash # NoBlock /\ ~Bad(c.lockedHash) => e.lockedHash = c.lockedHash
  BY <1>1, <1>5 DEF CoreOK
<1>10. CASE core' = [core EXCEPT ![v] = d] /\ msgs' = msgs /\ sealed' = sealed
  <2>1. StepOK(v, d)
    BY <1>4, <1>8, <1>10, VoteStep
  <2> QED
    BY <2>1
<1>11. CASE /\ Cardinality(d.commits) >= Confirmations
            /\ core' = [core EXCEPT ![v] = e] /\ msgs' = msgs
            /\ sealed' = sealed \cup {e.preprepare}
  <2>1. e.preprepare \in Block
    BY <1>1, <1>3, <1>5 DEF CoreState
  <2>2. \A b \in sealed' \ sealed :
          /\ b \in Block /\ b = e.preprepare
          /\ Cardinality(e.commits) >= Confirmations
          /\ msgs' = msgs
    BY <1>5, <1>11, <2>1
  <2>3. e.round >= core[v].round
    BY <1>1, <1>5, SMTT(60)
  <2>4. StepOK(v, e)
    BY <1>5, <1>8, <1>9, <1>11, <2>2, <2>3 DEF StepOK
  <2> QED
    BY <2>4
<1>12. CASE v \in Faulty /\ sendNextRoundChange(v, f) /\ sealed' = sealed
  <2>1. f.round + 1 \in Nat /\ sendRoundChange(v, f, f.round + 1)
    BY <1>1, <1>6, <1>12, SMTT(60) DEF sendNextRoundChange
  <2>2. StepOK(v, catchUpRound(v, f, f.round + 1))
    BY <1>6, <1>8, <1>12, <2>1, RoundChangeStep
  <2> QED
    BY <2>2
<1> QED
  BY <1>10, <1>11, <1>12 DEF handleCommit, d, e, f

\* A new round sends at most a PRE-PREPARE for its sequence.
LEMMA NewRoundProposalFacts ==
  ASSUME NEW v \in Validator, NEW d \in CoreState, NEW m \in newRoundProposal(v, d)
  PROVE  /\ m \in Message /\ m.code = "Preprepare"
         /\ m.digest \in Block /\ m.digest.height = m.sequence
<1>1. d.preprepare \in Block \cup {NoBlock} /\ d.pendingRequest \in Block \cup {NoBlock}
  BY DEF CoreState
<1>2. m \in sendPreprepare(v, d, d.preprepare) \/ m \in sendPreprepare(v, d, d.pendingRequest)
  BY DEF newRoundProposal
<1> QED
  BY <1>1, <1>2, SendPreprepareFacts

\* A step to the struct startNewRound returns, with or without a proposal.
LEMMA NewRoundStep ==
  ASSUME IInv, NEW v \in Validator, NEW c \in CoreState, NEW r \in Nat,
         CoreOK(c), c.sequence = core[v].sequence, c.round = core[v].round,
         c.lockedHash = core[v].lockedHash,
         core' = [core EXCEPT ![v] = startNewRound(v, c, r)],
         \/ msgs' = msgs
         \/ msgs' = msgs \cup newRoundProposal(v, startNewRound(v, c, r)),
         sealed' = sealed
  PROVE  StepOK(v, startNewRound(v, c, r))
<1> DEFINE d == startNewRound(v, c, r)
<1>1. /\ d \in CoreState /\ CoreOK(d)
      /\ \/ d.sequence > core[v].sequence
         \/ /\ d.sequence = core[v].sequence /\ d.round >= core[v].round
            /\ core[v].lockedHash # NoBlock /\ ~Bad(core[v].lockedHash)
                 => d.lockedHash = core[v].lockedHash
  BY NewRoundFacts
<1>2. /\ core' = [core EXCEPT ![v] = d]
      /\ msgs' = msgs \/ msgs' = msgs \cup newRoundProposal(v, d)
  OBVIOUS
<1> HIDE DEF d
<1>3. \A m \in msgs' \ msgs :
        /\ m \in Message /\ m.code = "Preprepare"
        /\ m.digest \in Block /\ m.digest.height = m.sequence
  BY <1>1, <1>2, NewRoundProposalFacts, SMTT(60)
<1>4. msgs \subseteq msgs' /\ sealed \subseteq sealed' /\ sealed' \ sealed = {}
  BY <1>2
<1>5. StepOK(v, d)
  BY <1>1, <1>2, <1>3, <1>4 DEF StepOK
<1> QED
  BY <1>5 DEF d

\* handleRoundChange catches up, starts the round or counts.
LEMMA HandleRoundChangeStep ==
  ASSUME IInv, NEW v \in Validator, NEW m \in msgs, handleRoundChange(v, m)
  PROVE  \E d : StepOK(v, d)
<1> DEFINE c == core[v]
           d == [c EXCEPT !.roundChanges = @ \cup {[round |-> m.round, src |-> m.src]}]
<1>1. c \in CoreState /\ CoreOK(c)
  BY CoreFacts
<1>2. m.src \in Validator /\ m.round \in Nat
  BY DEF IInv, TypeOK, Message
<1>3. /\ d \in CoreState
      /\ d.sequence = c.sequence /\ d.round = c.round /\ d.commits = c.commits
      /\ d.preprepare = c.preprepare /\ d.lockedHash = c.lockedHash
      /\ d.state = c.state
  BY <1>1, <1>2, SMTT(60) DEF CoreState, RoundChange
<1>4. sealed' = sealed
  BY DEF handleRoundChange
<1>5. \/ sendRoundChange(v, d, m.round)
      \/ /\ core' = [core EXCEPT ![v] = startNewRound(v, d, m.round)]
         /\ msgs' = msgs \cup newRoundProposal(v, startNewRound(v, d, m.round))
      \/ core' = [core EXCEPT ![v] = d] /\ msgs' = msgs
  BY DEF handleRoundChange
<1> HIDE DEF d
<1>6. CoreOK(d)
  BY <1>1, <1>3, SMTT(60) DEF CoreOK
<1>7. CASE sendRoundChange(v, d, m.round)
  <2>1. StepOK(v, catchUpRound(v, d, m.round))
    BY <1>2, <1>3, <1>4, <1>6, <1>7, RoundChangeStep
  <2> QED
    BY <2>1
<1>8. CASE /\ core' = [core EXCEPT ![v] = startNewRound(v, d, m.round)]
           /\ msgs' = msgs \cup newRoundProposal(v, startNewRound(v, d, m.round))
  <2>1. StepOK(v, startNewRound(v, d, m.round))
    BY <1>2, <1>3, <1>4, <1>6, <1>8, NewRoundStep
  <2> QED
    BY <2>1
<1>9. CASE core' = [core EXCEPT ![v] = d] /\ msgs' = msgs
  <2>1. StepOK(v, d)
    BY <1>3, <1>4, <1>9, QuietStep
  <2> QED
    BY <2>1
<1> QED
  BY <1>5, <1>7, <1>8, <1>9

\* handleTimeoutMsg asks for a round or starts the next height.
LEMMA HandleTimeoutStep ==
  ASSUME IInv, NEW v \in Validator, handleTimeoutMsg(v)
  PROVE  \E d : StepOK(v, d)
<1> DEFINE c == core[v]
<1>1. c \in CoreState /\ CoreOK(c)
  BY CoreFacts
<1>2. sealed' = sealed
  BY DEF handleTimeoutMsg
<1>3. \/ \E r \in RoundsWith(c, F + 1) : sendRoundChange(v, c, r)
      \/ core' = [core EXCEPT ![v] = startNewRound(v, c, 0)] /\ msgs' = msgs
      \/ sendNextRoundChange(v, c)
  BY DEF handleTimeoutMsg
<1>4. RoundsWith(c, F + 1) \subseteq Nat
  BY <1>1, SMTT(60) DEF RoundsWith, CoreState, RoundChange
<1>5. CASE \E r \in RoundsWith(c, F + 1) : sendRoundChange(v, c, r)
  <2>1. PICK r \in RoundsWith(c, F + 1) : sendRoundChange(v, c, r)
    BY <1>5
  <2>2. StepOK(v, catchUpRound(v, c, r))
    BY <1>1, <1>2, <1>4, <2>1, RoundChangeStep
  <2> QED
    BY <2>2
<1>6. CASE core' = [core EXCEPT ![v] = startNewRound(v, c, 0)] /\ msgs' = msgs
  <2>1. StepOK(v, startNewRound(v, c, 0))
    BY <1>1, <1>2, <1>6, NewRoundStep
  <2> QED
    BY <2>1
<1>7. CASE sendNextRoundChange(v, c)
  BY <1>2, <1>7, NextRoundChangeStep
<1> QED
  BY <1>3, <1>5, <1>6, <1>7

\* handleFinalCommitted starts the next height.
LEMMA HandleFinalCommittedStep ==
  ASSUME IInv, NEW v \in Validator, handleFinalCommitted(v)
  PROVE  StepOK(v, startNewRound(v, core[v], 0))
<1>1. /\ core' = [core EXCEPT ![v] = startNewRound(v, core[v], 0)]
      /\ msgs' = msgs /\ sealed' = sealed
  BY DEF handleFinalCommitted
<1> QED
  BY <1>1, CoreFacts, NewRoundStep

\* InsertBlock leaves the cores alone.
LEMMA InsertBlockStep ==
  ASSUME IInv, NEW v \in Validator, NEW b \in sealed, InsertBlock(v, b)
  PROVE  StepOK(v, core[v])
<1>1. core' = core /\ msgs' = msgs /\ sealed' = sealed
  BY DEF InsertBlock
<1> QED
  BY <1>1, CoreFacts, QuietStep

\* Restart may drop a lock, of a validator in Faulty only.
LEMMA RestartStep ==
  ASSUME IInv, NEW v \in Validator, Restart(v)
  PROVE  \E d : StepOK(v, d)
<1> DEFINE c == core[v]
           s == Len(chain[v]) + 1
           d == enterRound(v, c, s, 0, FALSE)
<1>1. /\ v \in Faulty /\ core' = [core EXCEPT ![v] = d]
      /\ msgs' = msgs /\ sealed' = sealed
  BY DEF Restart
<1>2. c \in CoreState /\ CoreOK(c)
  BY CoreFacts
<1>3. s \in Nat \ {0} /\ s - 1 <= Len(chain[v])
  BY SMTT(60) DEF IInv, TypeOK
<1>4. CalcProposer(v, s, 0) \in Validator
  BY <1>3, ProposerType DEF IInv
<1>5. /\ d \in CoreState /\ d.commits = {}
      /\ d.preprepare = NoBlock /\ d.lockedHash = NoBlock
  BY <1>2, <1>3, <1>4, StateRange DEF enterRound, updateRoundState, CoreState
<1> HIDE DEF d
<1>6. CoreOK(d)
  BY <1>2, <1>5, RoundStateOK
<1>7. StepOK(v, d)
  BY <1>1, <1>5, <1>6 DEF StepOK
<1> QED
  BY <1>7

\* Every step is a StepOK step of one validator.
LEMMA NextStep ==
  ASSUME IInv, Next
  PROVE  \E v \in Validator : \E d : StepOK(v, d)
<1>1. PICK v \in Live :
        \/ \E p \in Payload : Seal(v, p)
        \/ \E b \in requests[v] : handleRequest(v, b)
        \/ \E m \in msgs : handleOldPreprepare(v, m)
        \/ \E m \in msgs : handlePreprepare(v, m)
        \/ \E m \in msgs : handlePrepare(v, m)
        \/ \E m \in msgs : handleCommit(v, m)
        \/ \E m \in msgs : handleRoundChange(v, m)
        \/ handleTimeoutMsg(v)
        \/ handleFinalCommitted(v)
        \/ \E b \in sealed : InsertBlock(v, b)
        \/ Restart(v)
  BY DEF Next
<1>2. v \in Validator
  BY LiveAssumption
<1>3. \E d : StepOK(v, d)
  BY <1>1, <1>2, SealStep, HandleRequestStep, HandleOldPreprepareStep,
     HandlePreprepareStep, HandlePrepareStep, HandleCommitStep,
     HandleRoundChangeStep, HandleTimeoutStep, HandleFinalCommittedStep,
     InsertBlockStep, RestartStep
<1> QED
  BY <1>2, <1>3

-----------------------------------------------------------------------------
(* The invariant is inductive.                                             *)

\* A step keeps the types of what the backend holds, and chains of sealed blocks.
LEMMA ChainStep ==
  ASSUME IInv, Next
  PROVE  /\ requests' \in [Validator -> SUBSET Block]
         /\ badBlocks' \in [Validator -> SUBSET Block]
         /\ chain' \in [Validator -> Seq(Block)]
         /\ BadOK'
         /\ \A v \in Validator : \A h \in 1 .. Len(chain'[v]) :
              chain'[v][h] \in sealed /\ ~Bad(chain'[v][h]) /\ chain'[v][h].height = h
<1> DEFINE same == UNCHANGED <<chain, badBlocks, requests>>
<1>1. PICK v \in Live :
        \/ \E p \in Payload : Seal(v, p)
        \/ \E b \in requests[v] : handleRequest(v, b)
        \/ same
        \/ \E b \in sealed : InsertBlock(v, b)
  <2>1. ASSUME NEW v, NEW m
        PROVE  /\ handleOldPreprepare(v, m) => same
               /\ handlePreprepare(v, m) => same
               /\ handlePrepare(v, m) => same
    BY DEF handleOldPreprepare, handlePreprepare, handlePrepare
  <2>2. ASSUME NEW v, NEW m
        PROVE  /\ handleCommit(v, m) => same
               /\ handleRoundChange(v, m) => same
    BY DEF handleCommit, handleRoundChange
  <2>3. ASSUME NEW v
        PROVE  /\ handleTimeoutMsg(v) => same
               /\ handleFinalCommitted(v) => same
               /\ Restart(v) => same
    BY DEF handleTimeoutMsg, handleFinalCommitted, Restart
  <2> HIDE DEF same
  <2> QED
    BY <2>1, <2>2, <2>3 DEF Next
<1> USE DEF IInv, TypeOK, BadOK, ChainOK
<1>2. v \in Validator
  BY LiveAssumption
<1>3. ASSUME NEW p \in Payload, Seal(v, p)
      PROVE  UNCHANGED <<chain, badBlocks>> /\ requests' \in [Validator -> SUBSET Block]
  <2> DEFINE b == [height |-> Len(chain[v]) + 1, author |-> v, payload |-> p]
  <2>1. b \in Block
    BY <1>2, SMTT(60) DEF Block
  <2>2. requests' = [requests EXCEPT ![v] = @ \cup {b}] /\ UNCHANGED <<chain, badBlocks>>
    BY <1>3 DEF Seal
  <2> HIDE DEF b
  <2> QED
    BY <1>2, <2>1, <2>2, SMTT(60)
<1>4. ASSUME NEW b \in requests[v], handleRequest(v, b)
      PROVE  UNCHANGED <<chain, badBlocks>> /\ requests' \in [Validator -> SUBSET Block]
  <2>1. requests' = [requests EXCEPT ![v] = @ \ {b}] /\ UNCHANGED <<chain, badBlocks>>
    BY <1>4 DEF handleRequest
  <2> QED
    BY <1>2, <2>1
<1>5. CASE UNCHANGED <<chain, badBlocks>> /\ requests' \in [Validator -> SUBSET Block]
  BY <1>5
<1>6. ASSUME NEW b \in sealed, InsertBlock(v, b), Bad(b)
      PROVE  /\ UNCHANGED <<chain, requests>>
             /\ badBlocks' \in [Validator -> SUBSET Block] /\ BadOK'
  <2>1. badBlocks' = [badBlocks EXCEPT ![v] = @ \cup {b}] /\ UNCHANGED <<chain, requests>>
    BY <1>6 DEF InsertBlock
  <2> QED
    BY <1>2, <1>6, <2>1, SMTT(60)
<1>7. ASSUME NEW b \in sealed, InsertBlock(v, b), ~Bad(b)
      PROVE  /\ UNCHANGED <<badBlocks, requests>>
             /\ chain' \in [Validator -> Seq(Block)]
             /\ \A w \in Validator : \A h \in 1 .. Len(chain'[w]) :
                  chain'[w][h] \in sealed /\ ~Bad(chain'[w][h]) /\ chain'[w][h].height = h
  <2>1. /\ chain' = [chain EXCEPT ![v] = Append(@, b)]
        /\ UNCHANGED <<badBlocks, requests>>
        /\ b.height = Len(chain[v]) + 1
    BY <1>7 DEF InsertBlock
  <2>2. /\ chain[v] \in Seq(Block) /\ b \in Block
        /\ chain'[v] = Append(chain[v], b)
    BY <1>2, <2>1
  <2>3. ASSUME NEW h \in 1 .. Len(chain'[v])
        PROVE  chain'[v][h] \in sealed /\ ~Bad(chain'[v][h]) /\ chain'[v][h].height = h
    <3>1. Len(chain'[v]) = Len(chain[v]) + 1 /\ Len(chain[v]) \in Nat
      BY <2>2, SMTT(60)
    <3>2. CASE h = Len(chain[v]) + 1
      BY <1>7, <2>1, <2>2, <3>2, SMTT(60)
    <3>3. CASE h # Len(chain[v]) + 1
      <4>1. h \in 1 .. Len(chain[v])
        BY <3>1, <3>3, SMTT(60)
      <4>2. chain'[v][h] = chain[v][h]
        BY <2>2, <4>1, SMTT(60)
      <4> QED
        BY <1>2, <4>1, <4>2, SMTT(60)
    <3> QED
      BY <3>2, <3>3
  <2>4. \A w \in Validator : w # v => chain'[w] = chain[w]
    BY <2>1
  <2>5. chain' \in [Validator -> Seq(Block)]
    BY <1>2, <2>1, <2>2, SMTT(60)
  <2> QED
    BY <2>1, <2>3, <2>4, <2>5, SMTT(60)
<1> QED
  BY <1>1, <1>3, <1>4, <1>5, <1>6, <1>7

\* A block that is chosen stays chosen.
LEMMA VotersGrow ==
  ASSUME msgs \subseteq msgs', NEW b, Chosen(b)
  PROVE  Chosen(b)'
<1>1. Voters(b) \subseteq Voters(b)' /\ Voters(b)' \subseteq Validator
  BY DEF Voters, LockVote
<1>2. IsFiniteSet(Voters(b)')
  BY <1>1, ValidatorFinite, FS_Subset
<1>3. IsFiniteSet(Voters(b)) /\ Cardinality(Voters(b)) <= Cardinality(Voters(b)')
  BY <1>1, <1>2, FS_Subset
<1>4. Cardinality(Voters(b)) \in Nat /\ Cardinality(Voters(b)') \in Nat /\ Confirmations \in Nat
  BY <1>2, <1>3, FS_CardinalityType, NAssumption, SMTT(60) DEF Confirmations
<1>5. Cardinality(Voters(b)') >= Confirmations
  BY <1>3, <1>4, SMTT(60) DEF Chosen
<1> QED
  BY <1>5 DEF Chosen

\* A StepOK step preserves the invariant.
LEMMA StepPreserves ==
  ASSUME IInv, Next
  PROVE  IInv'
<1>1. PICK v \in Validator : \E d : StepOK(v, d)
  BY NextStep
<1>2. PICK d : StepOK(v, d)
  BY <1>1
<1>3. /\ core'[v] = d
      /\ \A w \in Validator : w # v => core'[w] = core[w]
      /\ core' \in [Validator -> CoreState]
  BY <1>2 DEF StepOK, IInv, TypeOK
<1>4. msgs \subseteq msgs' /\ sealed \subseteq sealed' /\ CoreOK(d)
  BY <1>2 DEF StepOK
<1>5. \A m \in msgs' \ msgs :
        /\ m \in Message
        /\ m.code = "Preprepare" => m.digest \in Block /\ m.digest.height = m.sequence
        /\ m.code = "Commit" /\ m.old =>
             m.digest \in sealed /\ m.digest.height = m.sequence
        /\ LockVote(m) =>
             /\ m.src = v /\ m.sequence = core[v].sequence /\ m.sequence = d.sequence
             /\ m.digest \in Block
             /\ m.digest = d.preprepare /\ m.digest = d.lockedHash
  BY <1>2 DEF StepOK, LockVote
<1>6. v \notin Faulty =>
        \/ d.sequence > core[v].sequence
        \/ /\ d.sequence = core[v].sequence
           /\ core[v].lockedHash # NoBlock /\ ~Bad(core[v].lockedHash)
                => d.lockedHash = core[v].lockedHash
  BY <1>2 DEF StepOK
<1>7. \A b \in sealed' \ sealed :
        /\ b \in Block /\ b = d.preprepare
        /\ Cardinality(d.commits) >= Confirmations /\ msgs' = msgs
  BY <1>2 DEF StepOK
<1>8. TypeOK'
  <2>1. msgs' \subseteq Message /\ sealed' \subseteq Block
    BY <1>5, <1>7 DEF IInv, TypeOK
  <2>2. \A m \in msgs' : m.code = "Preprepare" => m.digest \in Block
    BY <1>5 DEF IInv, TypeOK
  <2> QED
    BY <1>3, <2>1, <2>2, ChainStep DEF TypeOK
<1>9. CoresOK'
  <2>1. ASSUME NEW w \in Validator PROVE CoreOK(core'[w])
    BY <1>3, <1>4 DEF IInv, CoresOK
  <2>2. ASSUME NEW w \in Validator PROVE CoreOK(core[w])'
    BY <1>4, <2>1, SMTT(60) DEF CoreOK
  <2> QED
    BY <2>2 DEF CoresOK
<1>10. BadOK' /\ ChainOK'
  BY <1>4, ChainStep DEF ChainOK
<1>11. PreprepareOK'
  BY <1>5 DEF IInv, PreprepareOK
<1>12. CommitOK'
  <2> SUFFICES ASSUME NEW m \in msgs', m.code = "Commit"
               PROVE  /\ m.digest \in Block /\ m.digest.height = m.sequence
                      /\ m.old => m.digest \in sealed'
    BY DEF CommitOK
  <2>1. CASE m \in msgs
    BY <1>4, <2>1 DEF IInv, CommitOK
  <2>2. CASE m \notin msgs /\ m.old
    BY <1>4, <1>5, <2>2 DEF IInv, TypeOK
  <2>3. CASE m \notin msgs /\ ~m.old
    BY <1>4, <1>5, <2>3, NoBlockNotBlock DEF LockVote, CoreOK
  <2> QED
    BY <2>1, <2>2, <2>3
<1>13. VoteBinds'
  <2> SUFFICES ASSUME NEW m \in msgs', LockVote(m), ~Bad(m.digest), m.src \notin Faulty
               PROVE  /\ m.sequence <= core'[m.src].sequence
                      /\ m.sequence = core'[m.src].sequence
                           => core'[m.src].lockedHash = m.digest
    BY DEF VoteBinds, LockVote
  <2>1. m \in Message /\ m.src \in Validator /\ m.sequence \in Nat
    BY <1>8 DEF TypeOK, Message
  <2>2. core[v].sequence \in Nat /\ d.sequence \in Nat
    BY <1>2, CoreFacts DEF StepOK, CoreState
  <2>3. CASE m \notin msgs
    BY <1>3, <1>5, <2>1, <2>2, <2>3, SMTT(60)
  <2>4. CASE m \in msgs
    <3>1. /\ m.sequence <= core[m.src].sequence
          /\ m.sequence = core[m.src].sequence => core[m.src].lockedHash = m.digest
      BY <2>4 DEF IInv, VoteBinds
    <3>2. m.digest \in Block /\ m.digest # NoBlock
      BY <2>4, NoBlockNotBlock DEF IInv, CommitOK, LockVote
    <3>3. CASE m.src # v
      BY <1>3, <2>1, <3>1, <3>3
    <3>4. CASE m.src = v
      BY <1>3, <1>6, <2>1, <2>2, <3>1, <3>2, <3>4, SMTT(60)
    <3> QED
      BY <3>3, <3>4
  <2> QED
    BY <2>3, <2>4
<1>14. VoteOnce'
  <2> SUFFICES ASSUME NEW m \in msgs', NEW n \in msgs',
                      LockVote(m), LockVote(n), ~Bad(m.digest), ~Bad(n.digest),
                      m.src = n.src, m.src \notin Faulty, m.sequence = n.sequence
               PROVE  m.digest = n.digest
    BY DEF VoteOnce, LockVote
  <2>1. CASE m \in msgs /\ n \in msgs
    BY <2>1 DEF IInv, VoteOnce
  <2>2. CASE m \notin msgs \/ n \notin msgs
    <3>1. m.src = v /\ m.sequence = d.sequence
      BY <1>5, <2>2
    <3>2. d.lockedHash = m.digest /\ d.lockedHash = n.digest
      BY <1>3, <1>13, <3>1 DEF VoteBinds, LockVote
    <3> QED
      BY <3>2
  <2> QED
    BY <2>1, <2>2
<1>15. SealedChosen'
  <2>1. ASSUME NEW b \in sealed PROVE Chosen(b)'
    BY <1>4, <2>1, VotersGrow DEF IInv, SealedChosen
  <2>2. ASSUME NEW b \in sealed' \ sealed PROVE Chosen(b)'
    <3>1. b = d.preprepare /\ Cardinality(d.commits) >= Confirmations
      BY <1>7
    <3>2. d.commits \subseteq Voters(b)
      <4> SUFFICES ASSUME NEW w \in d.commits PROVE w \in Voters(b)
        OBVIOUS
      <4>1. PICK m \in msgs : m.code = "Commit" /\ m.src = w /\ m.digest = b
        BY <1>4, <3>1 DEF CoreOK
      <4>2. ~m.old
        BY <2>2, <4>1 DEF IInv, CommitOK
      <4>3. w \in Validator
        BY <1>2 DEF StepOK, CoreState
      <4> QED
        BY <4>1, <4>2, <4>3 DEF Voters, LockVote
    <3>3. Voters(b) \subseteq Validator /\ IsFiniteSet(Voters(b))
      BY ValidatorFinite, FS_Subset DEF Voters
    <3>4. IsFiniteSet(d.commits) /\ Cardinality(d.commits) <= Cardinality(Voters(b))
      BY <3>2, <3>3, FS_Subset
    <3>5. Cardinality(d.commits) \in Nat /\ Cardinality(Voters(b)) \in Nat /\ Confirmations \in Nat
      BY <3>3, <3>4, FS_CardinalityType, NAssumption, SMTT(60) DEF Confirmations
    <3>6. Chosen(b)
      BY <3>1, <3>4, <3>5, SMTT(60) DEF Chosen
    <3> QED
      BY <1>4, <3>6, VotersGrow
  <2> QED
    BY <2>1, <2>2 DEF SealedChosen
<1> QED
  BY <1>8, <1>9, <1>10, <1>11, <1>12, <1>13, <1>14, <1>15 DEF IInv

\* So does a stuttering step.
LEMMA StutterPreserves ==
  ASSUME IInv, UNCHANGED vars
  PROVE  IInv'
<1>1. /\ core' = core /\ chain' = chain /\ badBlocks' = badBlocks
      /\ requests' = requests /\ msgs' = msgs /\ sealed' = sealed
  BY DEF vars
<1>2. TypeOK'
  BY <1>1 DEF IInv, TypeOK
<1>3. CoresOK'
  BY <1>1 DEF IInv, CoresOK, CoreOK
<1>4. BadOK' /\ ChainOK'
  BY <1>1 DEF IInv, BadOK, ChainOK
<1>5. PreprepareOK' /\ CommitOK'
  BY <1>1 DEF IInv, PreprepareOK, CommitOK
<1>6. VoteBinds' /\ VoteOnce'
  BY <1>1 DEF IInv, VoteBinds, VoteOnce
<1>7. SealedChosen'
  BY <1>1 DEF IInv, SealedChosen, Chosen, Voters
<1> QED
  BY <1>2, <1>3, <1>4, <1>5, <1>6, <1>7 DEF IInv

\* The invariant holds initially.
LEMMA InitInv == Init => IInv
<1> SUFFICES ASSUME Init PROVE IInv
  OBVIOUS
<1>1. 0 \in Validator
  BY NAssumption, SMTT(60) DEF Validator
<1>2. core \in [Validator -> CoreState]
  <2> DEFINE c0 == [sequence |-> 1, round |-> 0, state |-> StateAcceptRequest,
                    waitingForRoundChange |-> FALSE, proposer |-> 0,
                    preprepare |-> NoBlock, lockedHash |-> NoBlock,
                    pendingRequest |-> NoBlock,
                    prepares |-> {}, commits |-> {}, roundChanges |-> {}]
  <2>1. StateAcceptRequest \in StateAcceptRequest .. StateCommitted
    BY StateRange
  <2>2. c0 \in CoreState
    BY <1>1, <2>1, SMTT(60) DEF CoreState
  <2>3. core = [v \in Validator |-> c0]
    BY DEF Init
  <2> QED
    BY <2>2, <2>3
<1>3. chain \in [Validator -> Seq(Block)] /\ \A v \in Validator : Len(chain[v]) = 0
  BY SMTT(60) DEF Init
<1>4. CoresOK
  BY DEF Init, CoresOK, CoreOK
<1>5. TypeOK
  BY <1>2, <1>3 DEF Init, TypeOK
<1>6. BadOK
  BY DEF Init, BadOK
<1>7. ChainOK
  BY <1>3, SMTT(60) DEF ChainOK
<1>8. PreprepareOK /\ CommitOK /\ VoteBinds /\ VoteOnce /\ SealedChosen
  BY DEF Init, PreprepareOK, CommitOK, VoteBinds, VoteOnce, SealedChosen
<1> QED
  BY <1>4, <1>5, <1>6, <1>7, <1>8 DEF IInv

-----------------------------------------------------------------------------
(* The theorems.                                                           *)

\* The invariant holds in every reachable state.
THEOREM Invariance == Spec => []IInv
<1>1. IInv /\ [Next]_vars => IInv'
  BY StepPreserves, StutterPreserves
<1> QED
  BY InitInv, <1>1, PTL DEF Spec

\* No handler, timer, insertion or restart breaks the types of the core
\* structs, messages and chains, for every number of validators.
THEOREM TypeCorrect == Spec => []TypeOK
<1>1. IInv => TypeOK
  BY DEF IInv
<1> QED
  BY Invariance, <1>1, PTL

\* The invariant implies Agreement: two quorums share a validator outside Faulty.
LEMMA InvAgreement == IInv => Agreement
<1> SUFFICES ASSUME IInv, NEW a \in sealed, NEW b \in sealed,
                    a.height = b.height, ~Bad(a), ~Bad(b)
             PROVE  a = b
  BY DEF Agreement
<1>1. Chosen(a) /\ Chosen(b)
  BY DEF IInv, SealedChosen
<1>2. Voters(a) \in SUBSET Validator /\ Voters(b) \in SUBSET Validator
  BY DEF Voters
<1>3. PICK w \in Voters(a) \cap Voters(b) : w \notin Faulty
  BY <1>1, <1>2, QuorumIntersection DEF Chosen
<1>4. PICK m \in msgs : LockVote(m) /\ m.src = w /\ m.digest = a
  BY <1>3 DEF Voters
<1>5. PICK n \in msgs : LockVote(n) /\ n.src = w /\ n.digest = b
  BY <1>3 DEF Voters
<1>6. m.sequence = a.height /\ n.sequence = b.height
  BY <1>4, <1>5 DEF IInv, CommitOK, LockVote
<1> QED
  BY <1>3, <1>4, <1>5, <1>6 DEF IInv, VoteOnce

\* core.commit never decides two executable blocks for a height, whatever the
\* number of validators, rounds and heights, as long as at most F restart.
THEOREM AgreementHolds == Spec => []Agreement
  BY Invariance, InvAgreement, PTL

\* The chains of any two validators agree wherever both have a block.
THEOREM ChainsAgreeHolds == Spec => []ChainsAgree
<1>1. IInv => ChainsAgree
  <2> SUFFICES ASSUME IInv, NEW v \in Validator, NEW w \in Validator,
                      NEW h \in 1 .. Len(chain[v]), h <= Len(chain[w])
               PROVE  chain[v][h] = chain[w][h]
    BY DEF ChainsAgree
  <2>1. Len(chain[v]) \in Nat /\ Len(chain[w]) \in Nat
    BY SMTT(60) DEF IInv, TypeOK
  <2>2. h \in 1 .. Len(chain[w])
    BY <2>1, SMTT(60)
  <2>3. /\ chain[v][h] \in sealed /\ ~Bad(chain[v][h]) /\ chain[v][h].height = h
        /\ chain[w][h] \in sealed /\ ~Bad(chain[w][h]) /\ chain[w][h].height = h
    BY <2>2 DEF IInv, ChainOK
  <2> QED
    BY <2>3, InvAgreement DEF Agreement
<1> QED
  BY Invariance, <1>1, PTL

\* A validator that is not restarted keeps a lock on an executable block until
\* it moves to the next sequence.
THEOREM LockKeptHolds == Spec => LockKept
<1> DEFINE A == \A v \in Validator \ Faulty :
                  LET b == core[v].lockedHash
                  IN  b # NoBlock /\ ~Bad(b) /\ core'[v].sequence = core[v].sequence
                        => core'[v].lockedHash = b
<1>1. IInv /\ Next => A
  <2> SUFFICES ASSUME IInv, Next, NEW w \in Validator \ Faulty,
                      core[w].lockedHash # NoBlock, ~Bad(core[w].lockedHash),
                      core'[w].sequence = core[w].sequence
               PROVE  core'[w].lockedHash = core[w].lockedHash
    OBVIOUS
  <2>1. PICK v \in Validator : \E d : StepOK(v, d)
    BY NextStep
  <2>2. PICK d : StepOK(v, d)
    BY <2>1
  <2>3. core'[v] = d /\ (w # v => core'[w] = core[w])
    BY <2>2 DEF StepOK, IInv, TypeOK
  <2>4. core[w].sequence \in Nat
    BY CoreFacts
  <2> QED
    BY <2>2, <2>3, <2>4, SMTT(60) DEF StepOK
<1>2. UNCHANGED vars => A
  BY DEF vars
<1> QED
  BY Invariance, <1>1, <1>2, PTL DEF Spec, LockKept

\* Sequence and round of a validator that is not restarted never go back.
THEOREM ViewNeverDecreasesHolds == Spec => ViewNeverDecreases
<1> DEFINE A == \A v \in Validator \ Faulty :
                  \/ core'[v].sequence > core[v].sequence
                  \/ /\ core'[v].sequence = core[v].sequence
                     /\ core'[v].round >= core[v].round
<1>1. IInv /\ Next => A
  <2> SUFFICES ASSUME IInv, Next, NEW w \in Validator \ Faulty
               PROVE  \/ core'[w].sequence > core[w].sequence
                      \/ /\ core'[w].sequence = core[w].sequence
                         /\ core'[w].round >= core[w].round
    OBVIOUS
  <2>1. PICK v \in Validator : \E d : StepOK(v, d)
    BY NextStep
  <2>2. PICK d : StepOK(v, d)
    BY <2>1
  <2>3. core'[v] = d /\ (w # v => core'[w] = core[w])
    BY <2>2 DEF StepOK, IInv, TypeOK
  <2>4. core[w].round \in Nat
    BY CoreFacts
  <2> QED
    BY <2>2, <2>3, <2>4, SMTT(60) DEF StepOK
<1>2. IInv /\ UNCHANGED vars => A
  <2> SUFFICES ASSUME IInv, UNCHANGED vars, NEW w \in Validator \ Faulty
               PROVE  core'[w].sequence = core[w].sequence /\ core'[w].round >= core[w].round
    OBVIOUS
  <2>1. core[w].round \in Nat
    BY CoreFacts
  <2> QED
    BY <2>1, SMTT(60) DEF vars
<1> QED
  BY Invariance, <1>1, <1>2, PTL DEF Spec, ViewNeverDecreases

-----------------------------------------------------------------------------
(* Rounds: when one is started, and what is sent in it.                    *)

\* Every ROUND CHANGE is like the ones that sendRoundChange sends.
RoundChangeOK ==
  \A m \in msgs : m.code = "RoundChange" => m.digest = NoBlock /\ ~m.old

\* The ROUND CHANGEs that a struct counts were sent for its sequence.
Asked(c) ==
  \A rc \in c.roundChanges :
    rc.src \in Votes("RoundChange", c.sequence, rc.round, NoBlock)

\* A quorum has asked for the round of a struct.
HasQuorum(c) ==
  Cardinality(Votes("RoundChange", c.sequence, c.round, NoBlock)) >= Confirmations

AllAsked == \A v \in Validator : Asked(core[v])

\* A validator that has sent PREPARE in its view has accepted a proposal there,
\* and does not wait for the start of the round any more.
PrepareBinds ==
  \A m \in msgs : m.code = "Prepare" /\ m.src \notin Faulty =>
    LET c == core[m.src]
    IN  \/ OldView(c, m)
        \/ /\ SameView(c, m) /\ ~c.waitingForRoundChange
           /\ c.state # StateAcceptRequest

RInv == RoundChangeOK /\ AllAsked /\ StartedRoundHasQuorum /\ PrepareBinds /\ PrepareOncePerView

\* What a step of validator v that leaves it with struct d may do to its round.
RoundStepOK(v, d) ==
  /\ core' = [core EXCEPT ![v] = d]
  /\ msgs \subseteq msgs'
  /\ Asked(d)
  /\ d.round > 0 /\ ~d.waitingForRoundChange =>
       \/ HasQuorum(d)
       \/ /\ d.sequence = core[v].sequence /\ d.round = core[v].round
          /\ ~core[v].waitingForRoundChange
  /\ \A m \in msgs' \ msgs :
       /\ m.code = "RoundChange" => m.digest = NoBlock /\ ~m.old
       /\ m.code = "Prepare" =>
            /\ m.src = v /\ m.digest = d.preprepare
            /\ SameView(core[v], m) /\ core[v].state = StateAcceptRequest
            /\ ~core[v].waitingForRoundChange
            /\ SameView(d, m) /\ d.state # StateAcceptRequest
            /\ ~d.waitingForRoundChange
  /\ v \notin Faulty =>
       \/ d.sequence > core[v].sequence
       \/ d.sequence = core[v].sequence /\ d.round > core[v].round
       \/ /\ d.sequence = core[v].sequence /\ d.round = core[v].round
          /\ \/ core[v].waitingForRoundChange
             \/ /\ ~d.waitingForRoundChange
                /\ core[v].state # StateAcceptRequest => d.state # StateAcceptRequest

\* Messages are never withdrawn, so neither are votes.
LEMMA VotesGrow ==
  ASSUME msgs \subseteq msgs', NEW code, NEW s, NEW r, NEW b
  PROVE  Votes(code, s, r, b) \subseteq Votes(code, s, r, b)'
  BY DEF Votes

\* A quorum for a round stays one.
LEMMA QuorumGrows ==
  ASSUME TypeOK', msgs \subseteq msgs', NEW s, NEW r,
         Cardinality(Votes("RoundChange", s, r, NoBlock)) >= Confirmations
  PROVE  Cardinality(Votes("RoundChange", s, r, NoBlock)') >= Confirmations
<1> DEFINE V == Votes("RoundChange", s, r, NoBlock)
<1>1. V \subseteq V'
  BY VotesGrow
<1>2. V' \subseteq Validator
  BY DEF Votes, TypeOK, Message
<1>3. IsFiniteSet(V')
  BY <1>2, ValidatorFinite, FS_Subset
<1>4. IsFiniteSet(V) /\ Cardinality(V) <= Cardinality(V')
  BY <1>1, <1>3, FS_Subset
<1>5. Cardinality(V) \in Nat /\ Cardinality(V') \in Nat /\ Confirmations \in Nat
  BY <1>3, <1>4, FS_CardinalityType, NAssumption, SMTT(60) DEF Confirmations
<1> QED
  BY <1>4, <1>5, SMTT(60)

\* A step that leaves view, waiting and counted ROUND CHANGEs alone, does not go
\* back to StateAcceptRequest and sends neither PREPARE nor ROUND CHANGE.
LEMMA RoundQuiet ==
  ASSUME RInv, NEW v \in Validator, NEW d,
         core' = [core EXCEPT ![v] = d],
         d.sequence = core[v].sequence, d.round = core[v].round,
         d.waitingForRoundChange = core[v].waitingForRoundChange,
         d.roundChanges = core[v].roundChanges,
         core[v].state # StateAcceptRequest => d.state # StateAcceptRequest,
         msgs \subseteq msgs',
         \A m \in msgs' \ msgs : m.code \notin {"Prepare", "RoundChange"}
  PROVE  RoundStepOK(v, d)
<1>1. Asked(d)
  BY DEF RInv, AllAsked, Asked
<1> QED
  BY <1>1 DEF RoundStepOK

\* sendRoundChange goes on to a later round and waits for its start.
LEMMA RoundChangeRound ==
  ASSUME IInv, RInv, NEW v \in Validator, NEW c \in CoreState, NEW r \in Nat,
         c.sequence = core[v].sequence, c.round = core[v].round, Asked(c),
         sendRoundChange(v, c, r)
  PROVE  RoundStepOK(v, catchUpRound(v, c, r))
<1> DEFINE d == catchUpRound(v, c, r)
<1>1. d \in CoreState /\ d.sequence = c.sequence /\ d.round = r
  BY CatchUpFields, SMTT(60)
<1>2. d.waitingForRoundChange /\ d.roundChanges \subseteq c.roundChanges
  <2> DEFINE u == updateRoundState(v, c, c.sequence, r, TRUE)
  <2>1. u \in CoreState /\ u.roundChanges = c.roundChanges
    <3>1. c.sequence \in Nat \ {0}
      BY DEF CoreState
    <3> QED
      BY <3>1 DEF updateRoundState, CoreState
  <2>2. d = [u EXCEPT !.waitingForRoundChange = TRUE,
                      !.roundChanges = {x \in @ : x.round >= r}]
    BY DEF catchUpRound
  <2> HIDE DEF u, d
  <2> QED
    BY <2>1, <2>2 DEF CoreState
<1>3. /\ core' = [core EXCEPT ![v] = d]
      /\ msgs' = msgs \cup {Msg("RoundChange", d, NoBlock, v)}
      /\ r > core[v].round
  BY DEF sendRoundChange
<1> HIDE DEF d
<1>4. Asked(d)
  BY <1>1, <1>2 DEF Asked
<1>5. \A m \in msgs' \ msgs : m.code = "RoundChange" /\ m.digest = NoBlock /\ ~m.old
  <2>1. "RoundChange" \in Code /\ NoBlock \in Block \cup {NoBlock}
    BY DEF Code
  <2> QED
    BY <1>1, <1>3, <2>1, MsgFields, SMTT(60)
<1>6. RoundStepOK(v, d)
  BY <1>1, <1>2, <1>3, <1>4, <1>5 DEF RoundStepOK
<1> QED
  BY <1>6 DEF d

\* startNewRound starts a round above 0 only with a quorum for it, and the one
\* that runs only when it waits for that.
LEMMA NewRoundRound ==
  ASSUME IInv, RInv, NEW v \in Validator, NEW c \in CoreState, NEW r \in Nat,
         CoreOK(c), c.sequence = core[v].sequence, c.round = core[v].round,
         c.lockedHash = core[v].lockedHash, Asked(c),
         c.waitingForRoundChange = core[v].waitingForRoundChange,
         c.state = core[v].state,
         r = 0 \/ Cardinality(Votes("RoundChange", c.sequence, r, NoBlock)) >= Confirmations,
         r = 0 \/ c.waitingForRoundChange \/ c.round < r,
         core' = [core EXCEPT ![v] = startNewRound(v, c, r)],
         \/ msgs' = msgs
         \/ msgs' = msgs \cup newRoundProposal(v, startNewRound(v, c, r))
  PROVE  RoundStepOK(v, startNewRound(v, c, r))
<1> DEFINE last == Len(chain[v])
           d == startNewRound(v, c, r)
<1>1. last \in Nat /\ c.sequence \in Nat \ {0} /\ c.round \in Nat
  BY SMTT(60) DEF IInv, TypeOK, CoreState
<1>2. core[v] \in CoreState /\ CoreOK(core[v])
  BY CoreFacts
<1>3. d \in CoreState
  BY NewRoundFacts
<1>4. \A m \in msgs' \ msgs : m.code = "Preprepare"
  BY <1>3, NewRoundProposalFacts
<1>5. msgs \subseteq msgs'
  OBVIOUS
<1>6. CASE last >= c.sequence
  <2> DEFINE e == enterRound(v, c, last + 1, 0, FALSE)
  <2>1. d = e
    BY <1>6 DEF startNewRound
  <2>2. e.sequence = last + 1 /\ e.round = 0 /\ e.roundChanges = {}
    BY DEF enterRound, updateRoundState, CoreState
  <2> HIDE DEF e, d
  <2>3. Asked(d) /\ d.sequence > core[v].sequence /\ ~(d.round > 0)
    BY <1>1, <1>6, <2>1, <2>2, SMTT(60) DEF Asked
  <2>4. core' = [core EXCEPT ![v] = d]
    BY DEF d
  <2>5. RoundStepOK(v, d)
    BY <1>4, <1>5, <2>3, <2>4 DEF RoundStepOK
  <2> QED
    BY <2>5 DEF d
<1>7. CASE ~(last >= c.sequence) /\ last = c.sequence - 1 /\ r # 0 /\ r >= c.round
  <2> DEFINE e == enterRound(v, c, c.sequence, r, TRUE)
  <2>1. d = e
    BY <1>7 DEF startNewRound
  <2>2. e.sequence = c.sequence /\ e.round = r /\ e.roundChanges = {}
    BY DEF enterRound, updateRoundState, CoreState
  <2> HIDE DEF e, d
  <2>3. Asked(d) /\ HasQuorum(d)
    BY <1>7, <2>1, <2>2 DEF Asked, HasQuorum
  <2>4. /\ d.sequence = core[v].sequence
        /\ \/ d.round > core[v].round
           \/ d.round = core[v].round /\ core[v].waitingForRoundChange
    BY <1>1, <1>7, <2>1, <2>2, SMTT(60)
  <2>5. core' = [core EXCEPT ![v] = d]
    BY DEF d
  <2>6. RoundStepOK(v, d)
    BY <1>4, <1>5, <2>3, <2>4, <2>5 DEF RoundStepOK
  <2> QED
    BY <2>6 DEF d
<1>8. CASE ~(last >= c.sequence) /\ ~(last = c.sequence - 1 /\ r # 0 /\ r >= c.round)
  <2>1. d = c
    BY <1>8 DEF startNewRound
  <2>2. core' = [core EXCEPT ![v] = c]
    BY <2>1
  <2> HIDE DEF d
  <2>3. RoundStepOK(v, c)
    BY <1>4, <1>5, <2>2 DEF RoundStepOK
  <2> QED
    BY <2>1, <2>3 DEF d
<1> QED
  BY <1>6, <1>7, <1>8

\* Every action is a RoundStepOK of the validator that takes it: first those
\* that leave the round alone.
LEMMA QuietRounds ==
  ASSUME IInv, RInv, NEW v \in Validator,
         \/ \E p \in Payload : Seal(v, p)
         \/ \E b \in requests[v] : handleRequest(v, b)
         \/ \E m \in msgs : handleOldPreprepare(v, m)
         \/ \E m \in msgs : handlePrepare(v, m)
         \/ \E b \in sealed : InsertBlock(v, b)
  PROVE  \E d : RoundStepOK(v, d)
<1> DEFINE c == core[v]
<1>1. c \in CoreState /\ core = [core EXCEPT ![v] = c]
  BY CoreFacts
<1>2. CASE core' = core /\ msgs' = msgs
  <2>1. RoundStepOK(v, c)
    BY <1>1, <1>2, RoundQuiet
  <2> QED
    BY <2>1
<1>3. ASSUME NEW b \in requests[v], handleRequest(v, b), ~(b.height < c.sequence)
      PROVE  \E d : RoundStepOK(v, d)
  <2> DEFINE d == [c EXCEPT !.pendingRequest = b]
  <2>1. /\ core' = [core EXCEPT ![v] = d]
        /\ msgs' = msgs \/ msgs' = msgs \cup sendPreprepare(v, d, b)
    BY <1>3 DEF handleRequest
  <2>2. b \in Block
    BY DEF IInv, TypeOK
  <2>3. /\ d \in CoreState
        /\ d.sequence = c.sequence /\ d.round = c.round /\ d.roundChanges = c.roundChanges
        /\ d.waitingForRoundChange = c.waitingForRoundChange /\ d.state = c.state
    BY <1>1, <2>2 DEF CoreState
  <2> HIDE DEF d
  <2>4. \A m \in msgs' \ msgs : m.code = "Preprepare"
    BY <2>1, <2>2, <2>3, SendPreprepareFacts
  <2>5. RoundStepOK(v, d)
    BY <2>1, <2>3, <2>4, RoundQuiet
  <2> QED
    BY <2>5
<1>4. ASSUME NEW m \in msgs, handleOldPreprepare(v, m)
      PROVE  \E d : RoundStepOK(v, d)
  <2>1. core' = core /\ \A n \in msgs' \ msgs : n.code = "Commit"
    BY <1>4, SMTT(60) DEF handleOldPreprepare
  <2>2. msgs \subseteq msgs'
    BY <1>4 DEF handleOldPreprepare
  <2>3. RoundStepOK(v, c)
    BY <1>1, <2>1, <2>2, RoundQuiet
  <2> QED
    BY <2>3
<1>5. ASSUME NEW m \in msgs, handlePrepare(v, m)
      PROVE  \E d : RoundStepOK(v, d)
  <2> DEFINE d == [c EXCEPT !.prepares = @ \cup {m.src}]
             e == [d EXCEPT !.lockedHash = d.preprepare, !.state = StatePrepared]
  <2>1. m.src \in Validator
    BY DEF IInv, TypeOK, Message
  <2>2. /\ d \in CoreState
        /\ d.sequence = c.sequence /\ d.round = c.round /\ d.roundChanges = c.roundChanges
        /\ d.waitingForRoundChange = c.waitingForRoundChange /\ d.state = c.state
    BY <1>1, <2>1 DEF CoreState
  <2>3. \/ core' = [core EXCEPT ![v] = d] /\ msgs' = msgs
        \/ /\ core' = [core EXCEPT ![v] = e]
           /\ msgs' = msgs \cup {Msg("Commit", d, d.preprepare, v)}
    BY <1>5 DEF handlePrepare
  <2> HIDE DEF d
  <2>4. /\ e.sequence = c.sequence /\ e.round = c.round /\ e.roundChanges = c.roundChanges
        /\ e.waitingForRoundChange = c.waitingForRoundChange /\ e.state = StatePrepared
    BY <2>2 DEF CoreState
  <2> HIDE DEF e
  <2>5. CASE core' = [core EXCEPT ![v] = d] /\ msgs' = msgs
    <3>1. RoundStepOK(v, d)
      BY <2>2, <2>5, RoundQuiet
    <3> QED
      BY <3>1
  <2>6. CASE /\ core' = [core EXCEPT ![v] = e]
             /\ msgs' = msgs \cup {Msg("Commit", d, d.preprepare, v)}
    <3>1. \A n \in msgs' \ msgs : n.code = "Commit"
      <4>1. \A n \in msgs' \ msgs : n = Msg("Commit", d, d.preprepare, v)
        BY ONLY <2>6, ZenonT(60)
      <4>2. Msg("Commit", d, d.preprepare, v).code = "Commit"
        BY ONLY ZenonT(60) DEF Msg
      <4> QED
        BY ONLY <4>1, <4>2, ZenonT(60)
    <3>2. RoundStepOK(v, e)
      BY <2>4, <2>6, <3>1, StateRange, RoundQuiet
    <3> QED
      BY <3>2
  <2> QED
    BY <2>3, <2>5, <2>6
<1>6. ASSUME NEW b \in requests[v], handleRequest(v, b), b.height < c.sequence
      PROVE  core' = core /\ msgs' = msgs
  BY <1>6 DEF handleRequest
<1>7. ASSUME \/ \E p \in Payload : Seal(v, p)
             \/ \E b \in sealed : InsertBlock(v, b)
      PROVE  core' = core /\ msgs' = msgs
  BY <1>7 DEF Seal, InsertBlock
<1> QED
  BY <1>2, <1>3, <1>4, <1>5, <1>6, <1>7

\* handlePreprepare sends PREPARE once in a round that has started.
LEMMA HandlePreprepareRound ==
  ASSUME IInv, RInv, NEW v \in Validator, NEW m \in msgs, handlePreprepare(v, m)
  PROVE  \E d : RoundStepOK(v, d)
<1> DEFINE c == core[v]
           accepted(s) == [c EXCEPT !.preprepare = m.digest, !.state = s]
<1>1. c \in CoreState /\ c.round \in Nat /\ c.sequence \in Nat
  BY CoreFacts DEF CoreState
<1>2. m.code = "Preprepare" /\ SameView(c, m) /\ ~c.waitingForRoundChange
  BY DEF handlePreprepare, checkMessage
<1>3. m.digest \in Block
  BY <1>2 DEF IInv, TypeOK
<1>4. CASE sendNextRoundChange(v, c)
  <2>1. c.round + 1 \in Nat /\ sendRoundChange(v, c, c.round + 1)
    BY <1>1, <1>4, SMTT(60) DEF sendNextRoundChange
  <2>2. Asked(c)
    BY DEF RInv, AllAsked
  <2>3. RoundStepOK(v, catchUpRound(v, c, c.round + 1))
    BY <1>1, <2>1, <2>2, RoundChangeRound
  <2> QED
    BY <2>3
<1>5. CASE /\ core' = [core EXCEPT ![v] = accepted(StatePrepared)]
           /\ msgs' = msgs \cup {Msg("Commit", c, m.digest, v)}
  <2> DEFINE d == accepted(StatePrepared)
  <2>1. /\ d.sequence = c.sequence /\ d.round = c.round /\ d.roundChanges = c.roundChanges
        /\ d.waitingForRoundChange = c.waitingForRoundChange /\ d.state = StatePrepared
    BY <1>1 DEF CoreState
  <2>2. core' = [core EXCEPT ![v] = d]
    BY <1>5
  <2> HIDE DEF d
  <2>3. \A n \in msgs' \ msgs : n.code = "Commit"
    BY <1>5, SMTT(60) DEF Msg
  <2>4. RoundStepOK(v, d)
    BY <1>5, <2>1, <2>2, <2>3, StateRange, RoundQuiet
  <2> QED
    BY <2>4
<1>6. CASE /\ canAccept(c)
           /\ core' = [core EXCEPT ![v] = accepted(StatePreprepared)]
           /\ msgs' = msgs \cup {Msg("Prepare", c, m.digest, v)}
  <2> DEFINE d == accepted(StatePreprepared)
  <2>1. /\ d.sequence = c.sequence /\ d.round = c.round /\ d.roundChanges = c.roundChanges
        /\ d.waitingForRoundChange = c.waitingForRoundChange /\ d.state = StatePreprepared
        /\ d.preprepare = m.digest
    BY <1>1 DEF CoreState
  <2>2. core' = [core EXCEPT ![v] = d]
    BY <1>6
  <2> HIDE DEF d
  <2>3. Asked(d)
    BY <2>1 DEF RInv, AllAsked, Asked
  <2>4. "Prepare" \in Code /\ m.digest \in Block \cup {NoBlock}
    BY <1>3 DEF Code
  <2>5. \A n \in msgs' \ msgs :
          /\ n.code = "Prepare" /\ n.src = v /\ n.digest = m.digest
          /\ n.sequence = c.sequence /\ n.round = c.round
    BY <1>1, <1>6, <2>4, MsgFields, SMTT(60)
  <2>6. StatePreprepared # StateAcceptRequest
    BY SMTT(60) DEF StatePreprepared, StateAcceptRequest
  <2>7. msgs \subseteq msgs' /\ c.state = StateAcceptRequest
    BY <1>6 DEF canAccept
  <2>8. RoundStepOK(v, d)
    BY <1>2, <2>1, <2>2, <2>3, <2>5, <2>6, <2>7 DEF RoundStepOK, SameView
  <2> QED
    BY <2>8
<1> QED
  BY <1>4, <1>5, <1>6 DEF handlePreprepare

\* handleCommit stays in the round, or asks for the next one.
LEMMA HandleCommitRound ==
  ASSUME IInv, RInv, NEW v \in Validator, NEW m \in msgs, handleCommit(v, m)
  PROVE  \E d : RoundStepOK(v, d)
<1> DEFINE c == core[v]
           d == [c EXCEPT !.commits = @ \cup {m.src}]
           e == [d EXCEPT !.lockedHash = d.preprepare, !.state = StateCommitted]
           f == [e EXCEPT !.lockedHash = NoBlock]
<1>1. c \in CoreState /\ m.src \in Validator
  BY CoreFacts DEF IInv, TypeOK, Message
<1>2. /\ d \in CoreState
      /\ d.sequence = c.sequence /\ d.round = c.round /\ d.roundChanges = c.roundChanges
      /\ d.waitingForRoundChange = c.waitingForRoundChange /\ d.state = c.state
  BY <1>1 DEF CoreState
<1> HIDE DEF d
<1>3. /\ e \in CoreState
      /\ e.sequence = c.sequence /\ e.round = c.round /\ e.roundChanges = c.roundChanges
      /\ e.waitingForRoundChange = c.waitingForRoundChange /\ e.state = StateCommitted
  BY <1>2, StateRange DEF CoreState
<1> HIDE DEF e
<1>4. /\ f \in CoreState
      /\ f.sequence = c.sequence /\ f.round = c.round /\ f.roundChanges = c.roundChanges
  BY <1>3 DEF CoreState
<1> HIDE DEF f
<1>5. CASE core' = [core EXCEPT ![v] = d] /\ msgs' = msgs
  <2>1. RoundStepOK(v, d)
    BY <1>2, <1>5, RoundQuiet
  <2> QED
    BY <2>1
<1>6. CASE core' = [core EXCEPT ![v] = e] /\ msgs' = msgs
  <2>1. RoundStepOK(v, e)
    BY <1>3, <1>6, StateRange, RoundQuiet
  <2> QED
    BY <2>1
<1>7. CASE sendNextRoundChange(v, f)
  <2>1. f.round + 1 \in Nat /\ sendRoundChange(v, f, f.round + 1)
    BY <1>4, <1>7, SMTT(60) DEF sendNextRoundChange, CoreState
  <2>2. Asked(f)
    BY <1>4 DEF RInv, AllAsked, Asked
  <2>3. RoundStepOK(v, catchUpRound(v, f, f.round + 1))
    BY <1>4, <2>1, <2>2, RoundChangeRound
  <2> QED
    BY <2>3
<1> QED
  BY <1>5, <1>6, <1>7 DEF handleCommit, d, e, f

\* What a struct counts for a round is at most what was sent for it.
LEMMA CountedAreVotes ==
  ASSUME TypeOK, NEW d \in CoreState, Asked(d), NEW r \in Nat,
         RoundChangeSize(d, r) = Confirmations
  PROVE  Cardinality(Votes("RoundChange", d.sequence, r, NoBlock)) >= Confirmations
<1> DEFINE W == {w \in Validator : [round |-> r, src |-> w] \in d.roundChanges}
           V == Votes("RoundChange", d.sequence, r, NoBlock)
<1>1. W \subseteq V
  <2> SUFFICES ASSUME NEW w \in W PROVE w \in V
    OBVIOUS
  <2> DEFINE rc == [round |-> r, src |-> w]
  <2>1. rc \in d.roundChanges /\ rc.src = w /\ rc.round = r
    OBVIOUS
  <2> QED
    BY <2>1 DEF Asked
<1>2. V \subseteq Validator
  BY DEF Votes, TypeOK, Message
<1>3. IsFiniteSet(V)
  BY <1>2, ValidatorFinite, FS_Subset
<1>4. IsFiniteSet(W) /\ Cardinality(W) <= Cardinality(V)
  BY <1>1, <1>3, FS_Subset
<1>5. Cardinality(W) = Confirmations
  BY DEF RoundChangeSize
<1>6. Cardinality(W) \in Nat /\ Cardinality(V) \in Nat
  BY <1>3, <1>4, FS_CardinalityType
<1> QED
  BY <1>4, <1>5, <1>6

\* handleRoundChange catches up, starts the round with a quorum, or counts.
LEMMA HandleRoundChangeRound ==
  ASSUME IInv, RInv, NEW v \in Validator, NEW m \in msgs, handleRoundChange(v, m)
  PROVE  \E d : RoundStepOK(v, d)
<1> DEFINE c == core[v]
           d == [c EXCEPT !.roundChanges = @ \cup {[round |-> m.round, src |-> m.src]}]
<1>1. c \in CoreState /\ CoreOK(c)
  BY CoreFacts
<1>2. m \in Message /\ m.src \in Validator /\ m.round \in Nat
  BY DEF IInv, TypeOK, Message
<1>3. /\ d \in CoreState
      /\ d.sequence = c.sequence /\ d.round = c.round /\ d.commits = c.commits
      /\ d.preprepare = c.preprepare /\ d.lockedHash = c.lockedHash
      /\ d.waitingForRoundChange = c.waitingForRoundChange /\ d.state = c.state
      /\ d.roundChanges = c.roundChanges \cup {[round |-> m.round, src |-> m.src]}
  BY <1>1, <1>2, SMTT(60) DEF CoreState, RoundChange
<1>4. \/ sendRoundChange(v, d, m.round)
      \/ /\ startsRound(c, m.round, RoundChangeSize(d, m.round))
         /\ core' = [core EXCEPT ![v] = startNewRound(v, d, m.round)]
         /\ msgs' = msgs \cup newRoundProposal(v, startNewRound(v, d, m.round))
      \/ core' = [core EXCEPT ![v] = d] /\ msgs' = msgs
  BY DEF handleRoundChange
<1>5. m.code = "RoundChange" /\ m.sequence = c.sequence
  BY DEF handleRoundChange, checkMessage
<1> HIDE DEF d
<1>6. CoreOK(d)
  BY <1>1, <1>3, SMTT(60) DEF CoreOK
<1>7. Asked(d)
  <2>1. m.src \in Votes("RoundChange", c.sequence, m.round, NoBlock)
    BY <1>5 DEF Votes, RInv, RoundChangeOK
  <2> SUFFICES ASSUME NEW rc \in d.roundChanges
               PROVE  rc.src \in Votes("RoundChange", d.sequence, rc.round, NoBlock)
    BY DEF Asked
  <2>2. CASE rc \in c.roundChanges
    BY <1>3, <2>2 DEF RInv, AllAsked, Asked
  <2>3. CASE rc = [round |-> m.round, src |-> m.src]
    BY <1>3, <2>1, <2>3
  <2> QED
    BY <1>3, <2>2, <2>3
<1>8. CASE sendRoundChange(v, d, m.round)
  <2>1. RoundStepOK(v, catchUpRound(v, d, m.round))
    BY <1>2, <1>3, <1>7, <1>8, RoundChangeRound
  <2> QED
    BY <2>1
<1>9. CASE /\ startsRound(c, m.round, RoundChangeSize(d, m.round))
           /\ core' = [core EXCEPT ![v] = startNewRound(v, d, m.round)]
           /\ msgs' = msgs \cup newRoundProposal(v, startNewRound(v, d, m.round))
  <2>1. /\ RoundChangeSize(d, m.round) = Confirmations
        /\ d.waitingForRoundChange \/ d.round < m.round
    BY <1>3, <1>9 DEF startsRound
  <2>2. Cardinality(Votes("RoundChange", d.sequence, m.round, NoBlock)) >= Confirmations
    BY <1>2, <1>3, <1>7, <2>1, CountedAreVotes DEF IInv
  <2>3. RoundStepOK(v, startNewRound(v, d, m.round))
    BY <1>2, <1>3, <1>6, <1>7, <1>9, <2>1, <2>2, NewRoundRound
  <2> QED
    BY <2>3
<1>10. CASE core' = [core EXCEPT ![v] = d] /\ msgs' = msgs
  <2>1. RoundStepOK(v, d)
    BY <1>3, <1>7, <1>10 DEF RoundStepOK
  <2> QED
    BY <2>1
<1> QED
  BY <1>4, <1>8, <1>9, <1>10

\* A timer asks for a round or starts a height; so does a final committed block.
LEMMA TimeoutRound ==
  ASSUME IInv, RInv, NEW v \in Validator, handleTimeoutMsg(v) \/ handleFinalCommitted(v)
  PROVE  \E d : RoundStepOK(v, d)
<1> DEFINE c == core[v]
<1>1. c \in CoreState /\ CoreOK(c) /\ c.round \in Nat /\ Asked(c)
  BY CoreFacts DEF RInv, AllAsked
<1>2. \/ \E r \in RoundsWith(c, F + 1) : sendRoundChange(v, c, r)
      \/ core' = [core EXCEPT ![v] = startNewRound(v, c, 0)] /\ msgs' = msgs
      \/ sendNextRoundChange(v, c)
  BY DEF handleTimeoutMsg, handleFinalCommitted
<1>3. RoundsWith(c, F + 1) \subseteq Nat
  BY <1>1, SMTT(60) DEF RoundsWith, CoreState, RoundChange
<1>4. ASSUME NEW r \in Nat, sendRoundChange(v, c, r)
      PROVE  \E d : RoundStepOK(v, d)
  <2>1. RoundStepOK(v, catchUpRound(v, c, r))
    BY <1>1, <1>4, RoundChangeRound
  <2> QED
    BY <2>1
<1>5. CASE core' = [core EXCEPT ![v] = startNewRound(v, c, 0)] /\ msgs' = msgs
  <2>1. RoundStepOK(v, startNewRound(v, c, 0))
    BY <1>1, <1>5, NewRoundRound
  <2> QED
    BY <2>1
<1>6. CASE sendNextRoundChange(v, c)
  <2>1. c.round + 1 \in Nat /\ sendRoundChange(v, c, c.round + 1)
    BY <1>1, <1>6, SMTT(60) DEF sendNextRoundChange
  <2> QED
    BY <1>4, <2>1
<1> QED
  BY <1>2, <1>3, <1>4, <1>5, <1>6

\* Restart begins at round 0.
LEMMA RestartRound ==
  ASSUME IInv, RInv, NEW v \in Validator, Restart(v)
  PROVE  \E d : RoundStepOK(v, d)
<1> DEFINE d == enterRound(v, core[v], Len(chain[v]) + 1, 0, FALSE)
<1>1. v \in Faulty /\ core' = [core EXCEPT ![v] = d] /\ msgs' = msgs
  BY DEF Restart
<1>2. core[v] \in CoreState
  BY CoreFacts
<1>3. d.round = 0 /\ d.roundChanges = {}
  BY <1>2 DEF enterRound, updateRoundState, CoreState
<1> HIDE DEF d
<1>4. Asked(d)
  BY <1>3 DEF Asked
<1>5. RoundStepOK(v, d)
  <2>1. ~(d.round > 0) /\ msgs \subseteq msgs' /\ msgs' \ msgs = {}
    BY ONLY <1>1, <1>3, SMTT(60)
  <2> QED
    BY ONLY <1>1, <1>4, <2>1, ZenonT(60) DEF RoundStepOK
<1> QED
  BY <1>5

\* Every step is a RoundStepOK step of one validator.
LEMMA NextRound ==
  ASSUME IInv, RInv, Next
  PROVE  \E v \in Validator : \E d : RoundStepOK(v, d)
<1>1. PICK v \in Live :
        \/ \E p \in Payload : Seal(v, p)
        \/ \E b \in requests[v] : handleRequest(v, b)
        \/ \E m \in msgs : handleOldPreprepare(v, m)
        \/ \E m \in msgs : handlePreprepare(v, m)
        \/ \E m \in msgs : handlePrepare(v, m)
        \/ \E m \in msgs : handleCommit(v, m)
        \/ \E m \in msgs : handleRoundChange(v, m)
        \/ handleTimeoutMsg(v)
        \/ handleFinalCommitted(v)
        \/ \E b \in sealed : InsertBlock(v, b)
        \/ Restart(v)
  BY DEF Next
<1>2. v \in Validator
  BY LiveAssumption
<1>3. \E d : RoundStepOK(v, d)
  <2>1. CASE \/ \E p \in Payload : Seal(v, p)
             \/ \E b \in requests[v] : handleRequest(v, b)
             \/ \E m \in msgs : handleOldPreprepare(v, m)
             \/ \E m \in msgs : handlePrepare(v, m)
             \/ \E b \in sealed : InsertBlock(v, b)
    BY ONLY IInv, RInv, <1>2, <2>1, QuietRounds, ZenonT(60)
  <2>2. CASE \E m \in msgs : handlePreprepare(v, m)
    BY ONLY IInv, RInv, <1>2, <2>2, HandlePreprepareRound, ZenonT(60)
  <2>3. CASE \E m \in msgs : handleCommit(v, m)
    BY ONLY IInv, RInv, <1>2, <2>3, HandleCommitRound, ZenonT(60)
  <2>4. CASE \E m \in msgs : handleRoundChange(v, m)
    BY ONLY IInv, RInv, <1>2, <2>4, HandleRoundChangeRound, ZenonT(60)
  <2>5. CASE handleTimeoutMsg(v) \/ handleFinalCommitted(v) \/ Restart(v)
    BY ONLY IInv, RInv, <1>2, <2>5, TimeoutRound, RestartRound, ZenonT(60)
  <2> QED
    BY ONLY <1>1, <2>1, <2>2, <2>3, <2>4, <2>5, ZenonT(60)
<1> QED
  BY <1>2, <1>3

\* A RoundStepOK step preserves the invariant on rounds.
LEMMA RoundPreserves ==
  ASSUME IInv, RInv, Next
  PROVE  RInv'
<1>1. PICK v \in Validator : \E d : RoundStepOK(v, d)
  BY NextRound
<1>2. PICK d : RoundStepOK(v, d)
  BY <1>1
<1>3. TypeOK /\ TypeOK'
  BY StepPreserves DEF IInv
<1>4. /\ core'[v] = d /\ msgs \subseteq msgs'
      /\ \A w \in Validator : w # v => core'[w] = core[w]
  BY <1>2, <1>3 DEF RoundStepOK, TypeOK
<1>5. /\ core[v].sequence \in Nat /\ core[v].round \in Nat
      /\ d.sequence \in Nat /\ d.round \in Nat
  BY <1>3, <1>4 DEF TypeOK, CoreState
<1>6. RoundChangeOK'
  BY <1>2 DEF RInv, RoundChangeOK, RoundStepOK
<1>7. AllAsked'
  <2>1. ASSUME NEW w \in Validator PROVE Asked(core'[w])
    BY <1>2, <1>4 DEF RoundStepOK, RInv, AllAsked
  <2>2. ASSUME NEW w \in Validator PROVE Asked(core[w])'
    BY <1>4, <2>1, SMTT(60) DEF Asked, Votes
  <2> QED
    BY <2>2 DEF AllAsked
<1>8. StartedRoundHasQuorum'
  <2>1. ASSUME NEW w \in Validator,
               core'[w].round > 0, ~core'[w].waitingForRoundChange
        PROVE  HasQuorum(core'[w])
    BY <1>2, <1>4, <2>1 DEF RoundStepOK, RInv, StartedRoundHasQuorum, HasQuorum
  <2>2. ASSUME NEW w \in Validator, HasQuorum(core'[w])
        PROVE  HasQuorum(core[w])'
    <3> DEFINE V(s, r) == Votes("RoundChange", s, r, NoBlock)
    <3>1. ASSUME NEW s, NEW r, s = core'[w].sequence, r = core'[w].round
          PROVE  HasQuorum(core[w])'
      <4>1. Cardinality(V(s, r)) >= Confirmations
        BY <2>2, <3>1 DEF HasQuorum
      <4>2. Cardinality(V(s, r)') >= Confirmations
        BY <1>3, <1>4, <4>1, QuorumGrows
      <4>3. V(core[w].sequence, core[w].round)' = V(s, r)'
        BY <3>1 DEF Votes
      <4> QED
        BY <4>2, <4>3 DEF HasQuorum
    <3> QED
      BY <3>1
  <2> QED
    BY <2>1, <2>2 DEF StartedRoundHasQuorum, HasQuorum
<1>9. PrepareBinds'
  <2> SUFFICES ASSUME NEW m \in msgs', m.code = "Prepare", m.src \notin Faulty
               PROVE  \/ OldView(core'[m.src], m)
                      \/ /\ SameView(core'[m.src], m)
                         /\ ~core'[m.src].waitingForRoundChange
                         /\ core'[m.src].state # StateAcceptRequest
    BY DEF PrepareBinds, OldView, SameView
  <2>1. m.src \in Validator /\ m.sequence \in Nat /\ m.round \in Nat
    BY <1>3 DEF TypeOK, Message
  <2>2. CASE m \notin msgs
    BY <1>2, <1>4, <2>2 DEF RoundStepOK
  <2>3. CASE m \in msgs /\ m.src # v
    BY <1>4, <2>1, <2>3 DEF RInv, PrepareBinds
  <2>4. CASE m \in msgs /\ m.src = v
    <3>1. \/ OldView(core[v], m)
          \/ /\ SameView(core[v], m) /\ ~core[v].waitingForRoundChange
             /\ core[v].state # StateAcceptRequest
      BY <2>4 DEF RInv, PrepareBinds
    <3>2. \/ d.sequence > core[v].sequence
          \/ d.sequence = core[v].sequence /\ d.round > core[v].round
          \/ /\ d.sequence = core[v].sequence /\ d.round = core[v].round
             /\ \/ core[v].waitingForRoundChange
                \/ /\ ~d.waitingForRoundChange
                   /\ core[v].state # StateAcceptRequest => d.state # StateAcceptRequest
      BY <1>2, <2>4 DEF RoundStepOK
    <3> QED
      BY <1>4, <1>5, <2>1, <2>4, <3>1, <3>2, SMTT(60) DEF OldView, SameView
  <2> QED
    BY <2>2, <2>3, <2>4
<1>10. PrepareOncePerView'
  <2> SUFFICES ASSUME NEW m \in msgs', NEW n \in msgs',
                      m.code = "Prepare", n.code = "Prepare",
                      m.src = n.src, m.src \notin Faulty,
                      m.sequence = n.sequence, m.round = n.round
               PROVE  m.digest = n.digest
    BY DEF PrepareOncePerView
  <2>1. CASE m \in msgs /\ n \in msgs
    BY <2>1 DEF RInv, PrepareOncePerView
  <2>2. CASE m \notin msgs /\ n \notin msgs
    BY <1>2, <2>2 DEF RoundStepOK
  <2>3. ASSUME NEW x \in msgs, NEW y \in msgs' \ msgs,
               x.code = "Prepare", y.code = "Prepare", x.src = y.src, x.src \notin Faulty,
               x.sequence = y.sequence, x.round = y.round
        PROVE  FALSE
    <3>1. /\ y.src = v /\ SameView(core[v], y)
          /\ core[v].state = StateAcceptRequest
      BY <1>2, <2>3 DEF RoundStepOK
    <3>2. OldView(core[v], x) \/ core[v].state # StateAcceptRequest
      BY <2>3, <3>1 DEF RInv, PrepareBinds
    <3> QED
      BY <1>5, <2>3, <3>1, <3>2, SMTT(60) DEF OldView, SameView
  <2> QED
    BY <2>1, <2>2, <2>3
<1> QED
  BY <1>6, <1>7, <1>8, <1>9, <1>10 DEF RInv

\* The invariant on rounds holds in every reachable state.
THEOREM RoundInvariance == Spec => []RInv
<1>1. Init => RInv
  <2> SUFFICES ASSUME Init PROVE RInv
    OBVIOUS
  <2>1. msgs = {} /\ \A v \in Validator : core[v].roundChanges = {} /\ core[v].round = 0
    BY DEF Init
  <2>2. RoundChangeOK /\ PrepareBinds /\ PrepareOncePerView
    BY <2>1 DEF RoundChangeOK, PrepareBinds, PrepareOncePerView
  <2>3. AllAsked /\ StartedRoundHasQuorum
    BY <2>1, SMTT(60) DEF AllAsked, Asked, StartedRoundHasQuorum
  <2> QED
    BY <2>2, <2>3 DEF RInv
<1>2. IInv /\ RInv /\ [Next]_vars => RInv'
  <2>1. ASSUME IInv, RInv, UNCHANGED vars PROVE RInv'
    <3>1. core' = core /\ msgs' = msgs
      BY <2>1 DEF vars
    <3>2. RoundChangeOK' /\ AllAsked'
      BY <2>1, <3>1 DEF RInv, RoundChangeOK, AllAsked, Asked, Votes
    <3>3. StartedRoundHasQuorum'
      BY <2>1, <3>1 DEF RInv, StartedRoundHasQuorum, Votes
    <3>4. PrepareBinds' /\ PrepareOncePerView'
      BY <2>1, <3>1 DEF RInv, PrepareBinds, PrepareOncePerView, OldView, SameView
    <3> QED
      BY <3>2, <3>3, <3>4 DEF RInv
  <2> QED
    BY <2>1, RoundPreserves
<1> QED
  BY Invariance, <1>1, <1>2, PTL DEF Spec

\* A validator that is not restarted sends PREPARE for one digest per view,
\* however often the proposer proposes and whichever rounds it comes back from.
THEOREM PrepareOncePerViewHolds == Spec => []PrepareOncePerView
<1>1. RInv => PrepareOncePerView
  BY DEF RInv
<1> QED
  BY RoundInvariance, <1>1, PTL

\* No validator is in a started round above 0 that no quorum has asked for.
THEOREM StartedRoundHasQuorumHolds == Spec => []StartedRoundHasQuorum
<1>1. RInv => StartedRoundHasQuorum
  BY DEF RInv
<1> QED
  BY RoundInvariance, <1>1, PTL
=============================================================================
