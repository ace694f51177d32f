---------------------------- MODULE DposSnapshot ----------------------------
(***************************************************************************)
(* DPoS keeps in its snapshot the stakes that accounts have given to       *)
(* candidates, and the proposals with their deposits.  Every node computes *)
(* it from the extra data of the headers.  apply takes several headers at  *)
(* once, as many as the node has seen since the last snapshot it can find, *)
(* so each node cuts the chain into batches of its own.                    *)
(*                                                                         *)
(* One node seals and applies every header as it comes.  Another one       *)
(* catches up now and then, as after a restart, when it has only the last  *)
(* snapshot on disk.  An account is a voter, a candidate and a proposer    *)
(* here.  Signer queues, confirmations and punishments are left out.       *)
(***************************************************************************)
EXTENDS VoteSnapshot, SequencesExt

CONSTANTS
  Accounts,           \* how many accounts take part
  MaxSignerCount,     \* blocks in a loop
  LCRS,               \* loops between two elections
  VoteEpoch,          \* blocks until a vote expires
  CandidateMaxLen,    \* candidates that an election leaves
  ValidationLoopCnt,  \* loops until a proposal is decided
  CheckpointInterval, \* blocks between two snapshots on disk
  MaxBlocks,          \* bound: number of blocks
  MaxFull             \* bound: number of blocks that are not empty

ASSUME DposAssumption ==
  /\ Accounts \in Nat \ {0, 1}
  /\ {MaxSignerCount, LCRS, ValidationLoopCnt, CheckpointInterval} \subseteq Nat \ {0}

VARIABLES
  order,   \* the accounts by address
  sealer,  \* the snapshot of the node that applies every header as it comes
  other,   \* that of the node that catches up
  behind,  \* the headers that it has not applied
  full,    \* number of blocks that are not empty
  made,    \* history: the proposals, and the block that each came in
  paid     \* history: the deposits given back to each account

dposVars == <<order, sealer, other, behind, full, made, paid>>

Stake == {0, 1}

Without(f, x) == Restrict(f, DOMAIN f \ {x})

NoEntries == [x \in {} |-> 0]

\* newSnapshot, with the votes of the signers for themselves.
newDpos(voters) ==
  [Number |-> 0, Votes |-> [a \in voters |-> [candidate |-> a, stake |-> 1]],
   Tally |-> [a \in voters |-> 1], Voters |-> [a \in voters |-> 0],
   Candidates |-> voters, Proposals |-> NoEntries, ProposalRefund |-> NoEntries,
   MinerReward |-> 0,
   crowded |-> FALSE,     \* history: there were more candidates than an election leaves
   failure |-> "none"]    \* why a header could not be applied

-----------------------------------------------------------------------------
(* The votes.                                                              *)

stakeOf(s, candidate) == IF candidate \in DOMAIN s.Tally THEN s.Tally[candidate] ELSE 0

\* The last vote of a voter leaves the tally.  The entry of its candidate is
\* used without asking whether there is one.
takeBack(s, voter) ==
  IF voter \notin DOMAIN s.Votes THEN s
  ELSE IF s.Votes[voter].candidate \notin DOMAIN s.Tally
       THEN [s EXCEPT !.failure = "nil"]
       ELSE [s EXCEPT !.Tally[s.Votes[voter].candidate] = @ - s.Votes[voter].stake]

\* updateSnapshotByVotes for one vote; a stake of zero ends the vote.
updateSnapshotByVote(s, vote, number) ==
  LET t == takeBack(s, vote.voter)
      c == vote.candidate
  IN  IF vote.stake = 0
      THEN [t EXCEPT !.Votes = Without(@, vote.voter), !.Voters = Without(@, vote.voter)]
      ELSE [t EXCEPT !.Tally = (c :> stakeOf(t, c) + vote.stake) @@ @,
                     !.Candidates = IF c \in DOMAIN t.Tally THEN @ ELSE @ \cup {c},
                     !.Votes = (vote.voter :> [candidate |-> c, stake |-> vote.stake]) @@ @,
                     !.Voters = (vote.voter :> number) @@ @]

\* updateSnapshotByMPVotes for one voter whose balance has changed.
updateSnapshotByMPVote(s, mp) ==
  LET t == takeBack(s, mp.voter)
  IN  IF mp.voter \notin DOMAIN s.Votes \/ t.failure # "none" THEN t
      ELSE [t EXCEPT !.Tally[s.Votes[mp.voter].candidate] = @ + mp.stake,
                     !.Votes[mp.voter].stake = mp.stake]

\* Mutant: the age of a vote is counted from the first header of the batch.
expiredInBatch(s, number) ==
  {v \in DOMAIN s.Votes : s.Number + 1 - s.Voters[v] > VoteEpoch}

expired(s, number) == {v \in DOMAIN s.Votes : number - s.Voters[v] > VoteEpoch}

\* "remove 0 stake tally".
dropEmpty(s) ==
  [s EXCEPT !.Tally = Restrict(@, {c \in DOMAIN @ : @[c] > 0})]

\* updateSnapshotForExpired: expired votes go only if enough voters are left.
updateSnapshotForExpired(s, number) ==
  LET old == expired(s, number)
      left == DOMAIN s.Votes \ old
      gone(c) == Cardinality({v \in old : s.Votes[v].candidate = c /\ s.Votes[v].stake = 1})
  IN  IF Cardinality(left) < MaxSignerCount THEN dropEmpty(s)
      ELSE dropEmpty([s EXCEPT !.Tally = [c \in DOMAIN @ |-> @[c] - gone(c)],
                               !.Votes = Restrict(@, left), !.Voters = Restrict(@, left)])

\* verifyTallyCnt: a candidate in the tally has the stakes of its voters.
verifyTallyCnt(s) ==
  \A c \in DOMAIN s.Tally :
    LET voters == {v \in DOMAIN s.Votes : s.Votes[v].candidate = c}
    IN  voters # {} /\ s.Tally[c] = Cardinality({v \in voters : s.Votes[v].stake = 1})

\* removeExtraCandidate keeps the candidates with the highest stake; of two with
\* the same stake the higher address comes first.  The number that is tested is
\* that of the snapshot, which does not move within a batch.
removeExtraCandidate(s) ==
  LET index(a) == CHOOSE i \in DOMAIN order : order[i] = a
      before(c) == {d \in DOMAIN s.Tally : \/ s.Tally[d] > s.Tally[c]
                                           \/ s.Tally[d] = s.Tally[c] /\ index(d) > index(c)}
      over == {c \in DOMAIN s.Tally : Cardinality(before(c)) >= CandidateMaxLen}
      many == Cardinality(s.Candidates) > CandidateMaxLen
  IN  [s EXCEPT !.crowded = @ \/ many,
                !.Candidates = IF many /\ (s.Number + 1) % (MaxSignerCount * LCRS) = 0
                               THEN @ \ over ELSE @]

-----------------------------------------------------------------------------
(* The proposals.                                                          *)

\* updateSnapshotByProposals stores a pointer to the variable of its loop, so all
\* proposals of a block are the last one.
updateSnapshotByProposals(s, proposals, number) ==
  IF proposals = <<>> THEN s
  ELSE LET last == Last(proposals)
           stored == [proposer |-> last.proposer, value |-> last.hash,
                      ReceivedNumber |-> number, yes |-> {}, no |-> {}]
       IN  [s EXCEPT !.Proposals = [h \in {p.hash : p \in Range(proposals)} |-> stored] @@ @]

\* They share it until the next batch begins with a copy of the snapshot.
sharing(s, hash) ==
  {h \in DOMAIN s.Proposals :
     h = hash \/ /\ s.Proposals[h].ReceivedNumber = s.Proposals[hash].ReceivedNumber
                 /\ s.Proposals[hash].ReceivedNumber > s.Number}

\* The last block in which a proposal can be declared on.
lastDeclare(proposal) == proposal.ReceivedNumber + ValidationLoopCnt * MaxSignerCount

\* updateSnapshotByDeclares for one declaration.
updateSnapshotByDeclare(s, declare, number) ==
  IF \/ declare.hash \notin DOMAIN s.Proposals
     \/ lastDeclare(s.Proposals[declare.hash]) < number
     \/ declare.declarer \notin s.Candidates
     \/ declare.declarer \in s.Proposals[declare.hash].yes \cup s.Proposals[declare.hash].no
  THEN s
  ELSE [s EXCEPT !.Proposals = [h \in DOMAIN @ |->
          IF h \notin sharing(s, declare.hash) THEN @[h]
          ELSE IF declare.decision
               THEN [@[h] EXCEPT !.yes = @ \cup {declare.declarer}]
               ELSE [@[h] EXCEPT !.no = @ \cup {declare.declarer}]]]

\* More than two thirds of all stake.
accepted(s, proposal) ==
  SumFunctionOnSet(s.Tally, proposal.yes \cap DOMAIN s.Tally)
    > (2 * SumFunction(s.Tally)) \div 3

\* calculateProposalResult: the deposits of the proposals that end here are to be
\* given back, and those that are accepted take effect.
calculateProposalResult(s, number) ==
  LET ended == {h \in DOMAIN s.Proposals : lastDeclare(s.Proposals[h]) + 1 = number}
      yes == {h \in ended : accepted(s, s.Proposals[h])}
      refund == [a \in {s.Proposals[h].proposer : h \in ended} |->
                   Cardinality({h \in ended : s.Proposals[h].proposer = a})]
      kept == Without(s.ProposalRefund, number - 2 * MaxSignerCount)
  IN  [s EXCEPT !.ProposalRefund = IF ended = {} THEN kept ELSE (number :> refund) @@ kept,
                !.MinerReward = IF yes = {} THEN @ ELSE s.Proposals[Max(yes)].value,
                !.Proposals = Restrict(@, DOMAIN @ \ ended)]

\* Mutant: everything that is still recorded is paid.
calculateProposalRefundAll(s, a) ==
  SumFunction([n \in DOMAIN s.ProposalRefund |->
                 IF a \in DOMAIN s.ProposalRefund[n] THEN s.ProposalRefund[n][a] ELSE 0])

\* What the next block pays back to an account.
calculateProposalRefund(s, a) ==
  IF s.Number \in DOMAIN s.ProposalRefund /\ a \in DOMAIN s.ProposalRefund[s.Number]
  THEN s.ProposalRefund[s.Number][a] ELSE 0

-----------------------------------------------------------------------------
(* Snapshots.                                                              *)

\* One header in the loop of apply.
applyHeader(s, header) ==
  LET n == header.number
      voted == FoldLeft(LAMBDA t, v : updateSnapshotByVote(t, v, n), s, header.votes)
      changed == FoldLeft(updateSnapshotByMPVote, voted, header.mpVotes)
      proposed == updateSnapshotByProposals(changed, header.proposals, n)
      declared == FoldLeft(LAMBDA t, d : updateSnapshotByDeclare(t, d, n), proposed,
                           header.declares)
      decided == calculateProposalResult(declared, n)
  IN  IF s.failure # "none" THEN s
      ELSE IF changed.failure # "none" THEN changed
      ELSE updateSnapshotForExpired(removeExtraCandidate(decided), n)

\* apply works on a copy; when it fails the node stays where it is.
applyDpos(s, headers) ==
  LET t == FoldLeft(applyHeader, s, headers)
  IN  IF t.failure # "none" THEN [s EXCEPT !.failure = t.failure]
      ELSE IF ~verifyTallyCnt(t) THEN [s EXCEPT !.failure = "tally"]
      ELSE [t EXCEPT !.Number = @ + Len(headers)]

-----------------------------------------------------------------------------
(* The chain.                                                              *)

Taking == Range(order)

\* The stake that an account would have if it voted without a transfer.
balance(a) == IF a \in DOMAIN sealer.Votes THEN sealer.Votes[a].stake ELSE 1

\* The transactions with an event, and transfers.  A vote needs a balance above
\* MinVB.  Bounds: only a transfer or the end of a vote leaves its sender with a
\* balance of zero, and every proposal is about the miner's reward.
Tx ==
  LET tx(kind, from, to, stake) == [kind |-> kind, from |-> from, to |-> to, stake |-> stake]
  IN  {tx("vote", a, c, 1) : a \in Taking, c \in Taking}
        \cup {tx(k, a, a, s) : k \in {"devote", "transfer"}, a \in DOMAIN sealer.Voters, s \in Stake}
        \cup {tx("proposal", a, a, balance(a)) : a \in Taking}
        \cup {tx(k, a, h, balance(a)) : k \in {"yes", "no"}, a \in sealer.Candidates,
                                        h \in DOMAIN made}

\* The events of some kinds, in the order of the block.
Events(content, kinds) == SelectSeq(content, LAMBDA tx : tx.kind \in kinds)

\* processTxEvent: what the transactions of a block put into its header.  Every
\* transaction reports the balance of the voters it touches.
processTxEvent(content) ==
  LET each(kinds, Op(_)) ==
        [i \in DOMAIN Events(content, kinds) |-> Op(Events(content, kinds)[i])]
      after(a) == IF \E tx \in Range(content) : tx.from = a
                  THEN (CHOOSE tx \in Range(content) : tx.from = a).stake ELSE balance(a)
      touched == FlattenSeq([i \in DOMAIN content |->
                   SelectSeq(<<content[i].from, content[i].to>>,
                             LAMBDA a : a \in DOMAIN sealer.Voters)])
  IN  [number |-> sealer.Number + 1,
       votes |-> each({"vote", "devote"},
                      LAMBDA tx : [voter |-> tx.from, candidate |-> tx.to,
                                   stake |-> IF tx.kind = "vote" THEN tx.stake ELSE 0]),
       mpVotes |-> [i \in DOMAIN touched |-> [voter |-> touched[i], stake |-> after(touched[i])]],
       proposals |-> [i \in DOMAIN Events(content, {"proposal"}) |->
                        [hash |-> Len(made) + i,
                         proposer |-> Events(content, {"proposal"})[i].from]],
       declares |-> each({"yes", "no"},
                         LAMBDA tx : [hash |-> tx.to, declarer |-> tx.from,
                                      decision |-> tx.kind = "yes"])]

\* Bound: a block has one transaction of interest, or a proposal each of the two
\* accounts with the lowest addresses.
Contents ==
  LET some == {<<t>> : t \in Tx}
      by(i) == {t \in some : t[1].kind = "proposal" /\ t[1].from = order[i]}
  IN  {<<>>} \cup some \cup {p \o q : p \in by(1), q \in by(2)}

DposInit ==
  /\ engine = "dpos"
  /\ snap = NoSnapshot /\ late = NoSnapshot /\ extra = {} /\ ballots = {}
  /\ order \in {o \in SeqOf(Account, Accounts) : Len(o) = Accounts /\ IsInjective(o)}
  /\ \E voters \in SUBSET Range(order) \ {{}} :
       sealer = newDpos(voters) /\ other = sealer
  /\ behind = <<>> /\ full = 0 /\ made = <<>>
  /\ paid = [a \in Range(order) |-> 0]

\* Finalize and Seal of the next block, and apply for its header.  Finalize pays
\* the deposits that the parent's snapshot has recorded.  In the first block
\* events find no snapshot.
SealDpos(content) ==
  LET header == processTxEvent(content)
  IN  /\ sealer.failure = "none" /\ sealer.Number < MaxBlocks
      /\ Len(behind) < CheckpointInterval
      /\ full' = IF content = <<>> THEN full ELSE full + 1
      /\ full' <= MaxFull
      /\ sealer.Number = 0 => content = <<>>
      /\ sealer' = applyDpos(sealer, <<header>>)
      /\ behind' = Append(behind, header)
      /\ made' = made \o [i \in DOMAIN header.proposals |->
                            [proposer |-> header.proposals[i].proposer, number |-> header.number]]
      /\ paid' = [a \in DOMAIN paid |-> paid[a] + calculateProposalRefund(sealer, a)]
      /\ UNCHANGED <<vars, order, other>>

\* snapshot goes back to the last snapshot that the node has, and applies the
\* headers since then.
CatchUp ==
  /\ other.failure = "none" /\ behind # <<>>
  /\ other' = applyDpos(other, behind)
  /\ behind' = <<>>
  /\ UNCHANGED <<vars, order, sealer, full, made, paid>>

DposNext ==
  \/ \E content \in Contents : SealDpos(content)
  \/ CatchUp

-----------------------------------------------------------------------------
(* Properties.                                                             *)

\* No two proposals have come in the same block.
Alone == \A i, j \in DOMAIN made : made[i].number = made[j].number => i = j

\* A node that goes back to an old snapshot and applies many headers at once gets
\* the votes, stakes, proposals and refunds of one that has applied them one by
\* one, and fails on no header that the other took.  Where the code is known to
\* depend on the batch is excluded: two proposals of one block, which share
\* their declarations until the snapshot is copied, and the candidates that are
\* removed by the number of the snapshot.  verifyTallyCnt, which counts the votes
\* again, finds the tally right on both; a header fails only on a tally entry
\* that was removed under a vote without stake.
NodesAgree ==
  engine = "dpos" =>
    /\ {sealer.failure, other.failure} \subseteq {"none", "nil"}
    /\ sealer.failure = "nil" => \E v \in DOMAIN sealer.Votes : sealer.Votes[v].stake = 0
    /\ Alone /\ ~sealer.crowded /\ ~other.crowded =>
         /\ other.failure # "none" => sealer.failure # "none"
         /\ other.failure = "none" /\ behind = <<>> => other = sealer

\* Every proposer gets the deposit back, in the block after the one that decides
\* the proposal, and gets it once, whether the proposal is accepted or not and
\* however many blocks keep the record of the refund, unless two proposals come
\* in the same block: then both deposits go to the last proposer.
DepositReturned ==
  engine = "dpos" /\ Alone =>
    \A a \in Taking :
      paid[a] = Cardinality({i \in DOMAIN made :
                  /\ made[i].proposer = a
                  /\ made[i].number + ValidationLoopCnt * MaxSignerCount + 2 <= sealer.Number})
=============================================================================
