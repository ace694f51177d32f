---------------------------- MODULE VoteSnapshot ----------------------------
(***************************************************************************)
(* Clique and Istanbul keep the set of accounts that may sign in a         *)
(* snapshot, which every node computes from the headers: the signer of a   *)
(* header votes for one account to be added or dropped, and a majority of  *)
(* the signers changes the set.  The snapshot counts the votes as it goes, *)
(* in Tally.  In Clique a signer also has to wait after each block.        *)
(*                                                                         *)
(* One node applies all headers from the genesis block on.  In Clique a    *)
(* second one may start at a checkpoint that it trusts.                    *)
(***************************************************************************)
EXTENDS Integers, FiniteSets, Functions

CONSTANTS
  Account,   \* the accounts that sign, or may be voted in
  Nobody,    \* the zero address: a header without a vote
  Epoch,     \* blocks between two checkpoints
  MaxNumber  \* bound: number of blocks

ASSUME AccountAssumption == Nobody \notin Account /\ IsFiniteSet(Account)
ASSUME EpochAssumption == Epoch \in Nat \ {0} /\ MaxNumber \in Nat

VARIABLES
  engine,  \* which engine runs
  snap,    \* the snapshot after the last header
  late,    \* that of a node which started at a checkpoint, or NoSnapshot
  extra,   \* the signers in the extra data of the last header
  ballots  \* history: what the signers asked for and may still get

vars == <<engine, snap, late, extra, ballots>>

\* The map f with the entry of x set to y
With(f, x, y) == [z \in DOMAIN f \cup {x} |-> IF z = x THEN y ELSE f[z]]

Vote(signer, address, authorize) ==
  [signer |-> signer, address |-> address, authorize |-> authorize]

EmptyTally == [a \in {} |-> [authorize |-> TRUE, votes |-> 0]]

newSnapshot(number, signers) ==
  [Number |-> number, Start |-> number, Signers |-> signers,
   Recents |-> [n \in {} |-> Nobody], Votes |-> {}, Tally |-> EmptyTally]

NoSnapshot == newSnapshot(0, {})

-----------------------------------------------------------------------------
(* The votes.                                                              *)

\* Clique validVote, Istanbul checkVote.
validVote(s, address, authorize) == (address \in s.Signers) # authorize

\* The votes on an account that its tally holds, none without one.
tallied(s, address) ==
  IF address \in DOMAIN s.Tally THEN s.Tally[address].votes ELSE 0

cast(s, vote) ==
  LET t == [authorize |-> IF vote.address \in DOMAIN s.Tally
                          THEN s.Tally[vote.address].authorize ELSE vote.authorize,
            votes |-> tallied(s, vote.address) + 1]
  IN  IF ~validVote(s, vote.address, vote.authorize) THEN s
      ELSE [s EXCEPT !.Votes = @ \cup {vote}, !.Tally = With(@, vote.address, t)]

\* Votes leave the list, and the tally if they were counted; a tally without a
\* vote is deleted.
uncast(s, votes) ==
  LET counted(a) ==
        Cardinality({v \in votes : v.address = a /\ v.authorize = s.Tally[a].authorize})
      left == {a \in DOMAIN s.Tally : s.Tally[a].votes > counted(a)}
  IN  [s EXCEPT !.Votes = @ \ votes,
                !.Tally = [a \in left |-> [authorize |-> s.Tally[a].authorize,
                                        votes |-> s.Tally[a].votes - counted(a)]]]

\* On a checkpoint all votes are dropped.
dropVotes(s, number) ==
  IF number % Epoch # 0 THEN s ELSE [s EXCEPT !.Votes = {}, !.Tally = EmptyTally]

\* The signer's previous vote on the account is discarded, the new one cast.
countVote(s, vote) ==
  cast(uncast(s, {v \in s.Votes : v.signer = vote.signer /\ v.address = vote.address}),
       vote)

\* Mutant: half of the signers are enough.
passedByHalf(s, address) ==
  tallied(s, address) > 0 /\ tallied(s, address) >= Cardinality(s.Signers) \div 2

passed(s, address) == tallied(s, address) > Cardinality(s.Signers) \div 2

\* Mutant: the votes of an account that is dropped stay in the tally.
changeSignersTallied(s, address) ==
  LET changed ==
        IF s.Tally[address].authorize
        THEN [s EXCEPT !.Signers = @ \cup {address}]
        ELSE [s EXCEPT !.Signers = @ \ {address},
                       !.Votes = {v \in @ : v.signer # address}]
  IN  [changed EXCEPT !.Votes = {v \in @ : v.address # address},
                      !.Tally = Restrict(@, DOMAIN @ \ {address})]

\* A vote that has passed changes the set.  The votes of an account that is
\* dropped go, and so do all votes on the account that has changed.
changeSigners(s, address) ==
  LET changed ==
        IF s.Tally[address].authorize
        THEN [s EXCEPT !.Signers = @ \cup {address}]
        ELSE uncast([s EXCEPT !.Signers = @ \ {address}],
                    {v \in s.Votes : v.signer = address})
  IN  [changed EXCEPT !.Votes = {v \in @ : v.address # address},
                      !.Tally = Restrict(@, DOMAIN @ \ {address})]

-----------------------------------------------------------------------------
(* Clique: a signer waits while its last block is among the recent ones.   *)

\* A signer may sign one of as many blocks.
limit(s) == Cardinality(s.Signers) \div 2 + 1

deleteRecent(s, number) ==
  [s EXCEPT !.Recents = Restrict(@, DOMAIN @ \ {number - limit(s)})]

\* What apply refuses: a signer that is still in Recents.
recentlySigned(s, signer) ==
  signer \in Range(deleteRecent(s, s.Number + 1).Recents)

\* What Seal waits for.
mustWait(s, signer) ==
  LET number == s.Number + 1
  IN  \E seen \in DOMAIN s.Recents :
        /\ s.Recents[seen] = signer
        /\ number < limit(s) \/ seen > number - limit(s)

\* What verifySeal refuses.  number - limit is unsigned, so nothing is refused
\* before the first signer can be shifted out.
sealRefused(s, signer) ==
  LET number == s.Number + 1
  IN  \E seen \in DOMAIN s.Recents :
        /\ s.Recents[seen] = signer
        /\ number >= limit(s) /\ seen > number - limit(s)

-----------------------------------------------------------------------------
(* Applying one header; several are applied one by one.                    *)

istanbulApply(s, vote) ==
  LET number == s.Number + 1
      counted == countVote(dropVotes(s, number), vote)
      changed == IF passed(counted, vote.address)
                 THEN changeSigners(counted, vote.address) ELSE counted
  IN  [changed EXCEPT !.Number = number]

\* Mutant: a set that got smaller leaves an old block in Recents.
cliqueApplyLeftover(s, vote) ==
  LET number == s.Number + 1
      shifted == deleteRecent(dropVotes(s, number), number)
      counted == countVote([shifted EXCEPT !.Recents = With(@, number, vote.signer)], vote)
      changed == IF passed(counted, vote.address)
                 THEN changeSigners(counted, vote.address) ELSE counted
  IN  [changed EXCEPT !.Number = number]

cliqueApply(s, vote) ==
  LET number == s.Number + 1
      shifted == deleteRecent(dropVotes(s, number), number)
      counted == countVote([shifted EXCEPT !.Recents = With(@, number, vote.signer)], vote)
      changed == IF passed(counted, vote.address)
                 THEN changeSigners(counted, vote.address) ELSE counted
      shrunk == IF Cardinality(changed.Signers) < Cardinality(s.Signers)
                THEN deleteRecent(changed, number) ELSE changed
  IN  [shrunk EXCEPT !.Number = number]

apply(s, vote) ==
  IF engine = "clique" THEN cliqueApply(s, vote) ELSE istanbulApply(s, vote)

-----------------------------------------------------------------------------
\* What the signers ask for by now: the last word of each signer on each
\* account since the checkpoint, as far as it has not come true.
Standing(s) ==
  {b \in ballots : b.signer \in s.Signers /\ validVote(s, b.address, b.authorize)}

Said(vote) ==
  LET before == IF (snap.Number + 1) % Epoch = 0 THEN {} ELSE Standing(snap)
  IN  {b \in before : b.signer # vote.signer \/ b.address # vote.address}
        \cup {v \in {vote} : v.address # Nobody /\ validVote(snap, v.address, v.authorize)}

Init ==
  /\ engine \in {"clique", "istanbul"}
  /\ \E signers \in SUBSET Account : signers # {} /\ snap = newSnapshot(0, signers)
  /\ late = NoSnapshot
  /\ extra = snap.Signers
  /\ ballots = {}

\* The header of the next block is sealed, and every node applies it.  A header
\* without a vote, as on the checkpoints of Clique, asks to drop nobody.
Seal(signer, address, authorize) ==
  LET vote == Vote(signer, address, authorize)
      checkpoint == (snap.Number + 1) % Epoch = 0
  IN  /\ snap.Number < MaxNumber
      /\ signer \in snap.Signers
      /\ engine = "clique" => ~mustWait(snap, signer)
      /\ address = Nobody => ~authorize
      /\ engine = "clique" /\ checkpoint => address = Nobody
      /\ snap' = apply(snap, vote)
      /\ late' = IF late = NoSnapshot THEN late ELSE apply(late, vote)
      /\ extra' = snap.Signers
      /\ ballots' = Said(vote)
      /\ UNCHANGED engine

\* Mutant: any block is trusted, not only a checkpoint.
TrustAnyBlock ==
  /\ engine = "clique" /\ late = NoSnapshot
  /\ snap.Number > 0
  /\ late' = newSnapshot(snap.Number, extra)
  /\ UNCHANGED <<engine, snap, extra, ballots>>

\* Clique's snapshot takes a checkpoint without a parent, or one that cannot be
\* reorganised any more, as trusted.
TrustCheckpoint ==
  /\ engine = "clique" /\ late = NoSnapshot
  /\ snap.Number > 0 /\ snap.Number % Epoch = 0
  /\ late' = newSnapshot(snap.Number, extra)
  /\ UNCHANGED <<engine, snap, extra, ballots>>

Next ==
  \/ \E signer \in Account, address \in Account \cup {Nobody}, authorize \in BOOLEAN :
       Seal(signer, address, authorize)
  \/ TrustCheckpoint

Spec == Init /\ [][Next]_vars

-----------------------------------------------------------------------------
(* Properties.                                                             *)

\* Tally is kept "to avoid recalculating": through revotes, dropped signers,
\* changed accounts and checkpoints it is what a recount of the standing votes
\* gives, and so is the list of votes.
TallyIsRecount ==
  /\ snap.Votes = Standing(snap)
  /\ \A a \in Account :
       /\ tallied(snap, a) = Cardinality({b \in Standing(snap) : b.address = a})
       /\ a \in DOMAIN snap.Tally => validVote(snap, a, snap.Tally[a].authorize)

\* The signers change as a majority asks.
ChangedByMajority ==
  LET majority == {a \in Account : 2 * Cardinality({b \in ballots' : b.address = a})
                                     > Cardinality(snap.Signers)}
      changed == (snap.Signers \ snap'.Signers) \cup (snap'.Signers \ snap.Signers)
  IN  /\ changed \subseteq majority
      /\ Cardinality(changed) <= 1
      /\ \A b \in ballots' \ ballots : b.address \in majority => b.address \in changed

\* An account comes in or goes out only when more than half of the signers ask
\* for it, at most one per block, and always when the vote that makes the
\* majority is cast.
ChangeNeedsMajority == [][ChangedByMajority]_vars

\* Seal, verifySeal and apply each decide in their own way whether a signer has
\* signed recently.  What Seal signs the other two accept, on every node, and
\* Seal waits no longer than apply demands, while the set grows and shrinks.
SealedIsAccepted ==
  engine = "clique" =>
    \A a \in snap.Signers :
      /\ mustWait(snap, a) <=> recentlySigned(snap, a)
      /\ sealRefused(snap, a) => mustWait(snap, a)
      /\ late # NoSnapshot /\ recentlySigned(late, a) => recentlySigned(snap, a)

\* A node that starts at a trusted checkpoint has the signers, the votes and the
\* tally of one that has applied every header, and the recent blocks since then.
CheckpointIsEnough ==
  late # NoSnapshot =>
    /\ late.Signers = snap.Signers /\ late.Votes = snap.Votes /\ late.Tally = snap.Tally
    /\ late.Recents = Restrict(snap.Recents, {n \in DOMAIN snap.Recents : n > late.Start})
=============================================================================
