--------------------------- MODULE MCIstanbulCore ---------------------------
(***************************************************************************)
(* Instances of IstanbulCore for TLC.  The proofs are about Spec itself.   *)
(* PromptSpec makes several heights and four validators affordable by      *)
(* three bounds on the scheduling:                                         *)
(*   - steps local to one machine happen as soon as they can: a miner's    *)
(*     block reaches the core, and a validator's own vote, which Broadcast *)
(*     posts to itself, is handled;                                        *)
(*   - votes that no longer count are not handled;                         *)
(*   - votes are counted, not told apart, so a validator takes those of    *)
(*     the others in the order of their senders.                           *)
(* Messages between machines, timers, insertions and restarts interleave   *)
(* freely.                                                                 *)
(***************************************************************************)
EXTENDS IstanbulCore, TLC

\* The messages that make a difference to v.
Useful(v) ==
  LET c == core[v]
      counts(m) ==
        CASE m.code = "Preprepare" ->
               m.src = c.proposer /\ (canAccept(c) \/ m.digest \in badBlocks[v])
          [] m.code = "Prepare" ->
               m.digest = c.preprepare /\ m.src \notin c.prepares
                 /\ c.state < StatePrepared
          [] m.code = "Commit" ->
               m.digest = c.preprepare /\ m.src \notin c.commits
                 /\ c.state < StateCommitted
          [] m.code = "RoundChange" ->
               [round |-> m.round, src |-> m.src] \notin c.roundChanges
  IN  {m \in msgs : checkMessage(c, m) /\ counts(m)}

OwnVotes(v) == {m \in Useful(v) : m.src = v /\ m.code # "Preprepare"}

InOrder(v) ==
  LET U == Useful(v)
  IN  {m \in U : \A n \in U : n.code = m.code => n.src >= m.src}

Idle(v) ==
  /\ core[v].pendingRequest = NoBlock
  /\ core[v].sequence = Len(chain[v]) + 1
  /\ core[v].sequence <= MaxSeq

\* Bound: a block that fails on insertion is proposed by validator 0 at height 1.
MinerPayload(v) ==
  IF core[v].sequence = 1 /\ v = 0 THEN Payload ELSE Payload \ BadPayload

Local(v) == OwnVotes(v) # {} \/ requests[v] # {} \/ (v \in Miners /\ Idle(v))

LocalStep(v) ==
  \/ \E m \in OwnVotes(v) :
       handlePrepare(v, m) \/ handleCommit(v, m) \/ handleRoundChange(v, m)
  \/ OwnVotes(v) = {} /\ \E b \in requests[v] : handleRequest(v, b)
  \/ /\ OwnVotes(v) = {} /\ requests[v] = {} /\ Idle(v)
     /\ \E p \in MinerPayload(v) : Seal(v, p)

\* What a validator does without a timer or a restart, once nothing is local.
Reaction(v) ==
  \/ \E m \in InOrder(v) : \/ handlePreprepare(v, m)
                           \/ handlePrepare(v, m)
                           \/ handleCommit(v, m)
                           \/ handleRoundChange(v, m)
  \/ \E m \in msgs : handleOldPreprepare(v, m)
  \/ handleFinalCommitted(v)
  \/ \E b \in sealed : InsertBlock(v, b)

Work ==
  IF \E v \in Live : Local(v)
  THEN LET first == CHOOSE v \in Live : Local(v) IN LocalStep(first)
  ELSE \E v \in Live : Reaction(v) \/ \E p \in MinerPayload(v) : Seal(v, p)

Trouble == (\A v \in Live : ~Local(v)) /\ \E v \in Live : handleTimeoutMsg(v)

PromptSpec == Init /\ [][Work \/ Trouble \/ \E v \in Live : Restart(v)]_vars

\* Bound: the last height is explored until all validators have changed its round.
LastRoundBegins == ~\A v \in Live : core[v].sequence = MaxSeq /\ core[v].round = MaxRound

\* Bound: only what happens before the first insertion is explored.
OneSequence == \A v \in Validator : chain[v] = <<>>

-----------------------------------------------------------------------------
(* The scheduling the round timers aim at: a timer lasts RequestTimeout +  *)
(* 2^round seconds, so it fires after the messages of its round have been  *)
(* handled, and first for the validator in the lowest round.               *)

Expire ==
  /\ ~ENABLED <<Work>>_vars
  /\ \E v \in Live :
       /\ \A w \in Live : core[v].round <= core[w].round
       /\ handleTimeoutMsg(v)

\* Weak fairness of the whole: while a live validator has something to do,
\* something is done.
LiveSpec == Init /\ [][Work \/ Expire]_vars /\ WF_vars(Work \/ Expire)

\* F crashed validators, the first proposer among them, do not stop the chain:
\* the round changes and every live validator inserts the blocks.
Progress == <>(\A v \in Live : Len(chain[v]) >= MaxSeq)
=============================================================================
