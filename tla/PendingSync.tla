----------------------------- MODULE PendingSync -----------------------------
(***************************************************************************)
(* An anchor asks a peer for its signatures of the transactions in the     *)
(* pool (Sync.syncPendingWithPeer), beside the synchronisation of the      *)
(* store that CrossSync describes.  Each round with the peer makes a       *)
(* channel of its own, which the message loop of the peer looks up         *)
(* (pendingSyncing.Load) before it hands an answer over, and which is      *)
(* forgotten when the round ends.                                          *)
(*                                                                         *)
(* Rounds with several peers have nothing in common but the pool: here is  *)
(* one peer, while the pool changes for other reasons too.  The mode of    *)
(* the configuration says which synchronisation an anchor does.            *)
(***************************************************************************)
EXTENDS CrossSync

CONSTANT MaxRounds \* bound: rounds with the peer

ASSUME RoundAssumption == MaxRounds \in Nat

VARIABLES
  mode,    \* SyncMode: "store" or "pending"
  pool,    \* the transactions in pool.pending
  left,    \* those that have left it
  theirs,  \* the transactions that the peer has signed
  got,     \* those of which this anchor has the signature
  round,   \* the round that runs; want: as in CrossSync
  rounds,  \* bound: number of rounds so far
  chans,   \* the channel of each round
  asked,   \* requests on their way
  replies, \* answers on their way
  loop,    \* the answer in the message loop and the round whose channel it has
  late     \* history: rounds that timed out

poolVars == <<mode, pool, left, theirs, got>>
roundVars == <<poolVars, round, rounds, chans, asked, replies, loop, late>>

NoRound == [on |-> FALSE, want |-> {}]
NoReply == [page |-> {}, round |-> 0, to |-> 0]

PendingInit ==
  /\ mode = "pending"
  /\ pool \in SUBSET Ctx /\ left = {}
  /\ theirs \in SUBSET Ctx /\ got = {}
  /\ round = NoRound /\ rounds = 0
  /\ chans = [n \in 1..MaxRounds |-> <<>>]
  /\ asked = <<>> /\ replies = <<>> /\ loop = NoReply
  /\ late = 0

\* pool.Pending: the first Limit transactions above the block given, and those
\* after them of the same block.
Pending(ctxs, number) ==
  LET above == {c \in ctxs : Num[c] > number}
      before(c) == {d \in above : d < c}
  IN  {c \in above : Cardinality(before(c)) < Limit
                      \/ \E d \in before(c) : Num[d] = Num[c] /\ Cardinality(before(d)) = Limit - 1}

\* RequestPendingSync.
RequestPending(ids, n) == asked' = Append(asked, [ids |-> ids, round |-> n])

-----------------------------------------------------------------------------
\* Mutant: the channel of a round that runs is replaced.
CanStartRoundTwice == TRUE

\* LoadOrStore refuses a second round with the same peer (errBusy).
CanStartRound == ~round.on

\* synchronisePending and syncPendingWithPeer up to its loop.
SynchronisePending ==
  /\ CanStartRound
  /\ rounds < MaxRounds /\ Pending(pool, 0) # {}
  /\ rounds' = rounds + 1
  /\ round' = [on |-> TRUE, want |-> pool \cap theirs]
  /\ RequestPending(Pending(pool, 0), rounds')
  /\ UNCHANGED <<poolVars, chans, replies, loop, late>>

\* Handler.GetPending: the transactions of which the peer has a signature.
GetLocal(ids) == ids \cap theirs

\* GetPending of the peer: its signatures of what is asked for.
GetPending ==
  /\ asked # <<>>
  /\ asked' = Tail(asked)
  /\ replies' = Append(replies, [page |-> GetLocal(Head(asked).ids),
                                 round |-> Head(asked).round])
  /\ UNCHANGED <<poolVars, round, rounds, chans, loop, late>>

\* DeliverPending up to the send: an answer without a round is dropped.
LoadChannel ==
  /\ loop = NoReply /\ replies # <<>>
  /\ replies' = Tail(replies)
  /\ loop' = IF round.on THEN [page |-> Head(replies).page, round |-> Head(replies).round,
                               to |-> rounds]
                         ELSE NoReply
  /\ UNCHANGED <<poolVars, round, rounds, chans, asked, late>>

\* The send of DeliverPending waits for room in the channel that it has loaded.
DeliverPending ==
  /\ loop # NoReply
  /\ Len(chans[loop.to]) < ChannelSize
  /\ chans' = [chans EXCEPT ![loop.to] = Append(@, loop)]
  /\ loop' = NoReply
  /\ UNCHANGED <<poolVars, round, rounds, asked, replies, late>>

\* syncPending: the block of the last transaction that the peer has signed.
LastNumber(page) == Max({Num[c] : c \in page})

\* syncPending adds the signatures; AddRemotes takes the transactions that now
\* have enough of them from the pool, and what the pool holds above the last
\* block is asked for next.  The round ends when that is nothing.
ImportPending ==
  LET item == Head(chans[rounds])
      signed == item.page \cap pool
  IN  /\ round.on /\ chans[rounds] # <<>> /\ item.page # {}
      /\ got' = got \cup signed
      /\ \E enough \in SUBSET signed :
           LET more == Pending(pool \ enough, LastNumber(item.page))
           IN  /\ pool' = pool \ enough /\ left' = left \cup enough
               /\ round' = [on |-> more # {},
                            want |-> IF item.round = rounds THEN round.want ELSE {}]
               /\ IF more = {} THEN UNCHANGED asked ELSE RequestPending(more, rounds)
      /\ chans' = [chans EXCEPT ![rounds] = Tail(@)]
      /\ UNCHANGED <<mode, theirs, rounds, replies, loop, late>>

\* An empty answer ends the round.
StopPending ==
  /\ round.on /\ chans[rounds] # <<>> /\ Head(chans[rounds]).page = {}
  /\ round' = NoRound
  /\ chans' = [chans EXCEPT ![rounds] = Tail(@)]
  /\ UNCHANGED <<poolVars, rounds, asked, replies, loop, late>>

\* No answer within rttMaxEstimate.
TimeoutPending ==
  /\ round.on
  /\ round' = NoRound
  /\ late' = late + 1
  /\ UNCHANGED <<poolVars, rounds, chans, asked, replies, loop>>

-----------------------------------------------------------------------------
(* What happens meanwhile.                                                 *)

PeerSigns(c) ==
  /\ c \notin theirs
  /\ theirs' = theirs \cup {c}
  /\ UNCHANGED <<mode, pool, left, got, round, rounds, chans, asked, replies, loop, late>>

\* A transaction of this anchor enters the pool, or has enough signatures of
\* other anchors and leaves it.
PoolChanges(c) ==
  /\ c \notin left
  /\ pool' = IF c \in pool THEN pool \ {c} ELSE pool \cup {c}
  /\ left' = IF c \in pool THEN left \cup {c} ELSE left
  /\ UNCHANGED <<mode, theirs, got, round, rounds, chans, asked, replies, loop, late>>

PendingNext ==
  \/ SynchronisePending \/ GetPending \/ LoadChannel \/ DeliverPending
  \/ ImportPending \/ StopPending \/ TimeoutPending
  \/ \E c \in Ctx : PeerSigns(c) \/ PoolChanges(c)

\* The message loop waits for a channel that nobody will take from again.
Wedged == /\ loop # NoReply
          /\ Len(chans[loop.to]) >= ChannelSize
          /\ ~(round.on /\ loop.to = rounds)

\* No answer can come any more.
SilentPending ==
  /\ chans[rounds] = <<>>
  /\ Wedged \/ (asked = <<>> /\ replies = <<>> /\ loop = NoReply)

\* Goroutines run, the peer answers and its answers arrive.
PendingFairness ==
  /\ WF_roundVars(GetPending) /\ WF_roundVars(LoadChannel) /\ WF_roundVars(DeliverPending)
  /\ WF_roundVars(ImportPending) /\ WF_roundVars(StopPending)
  /\ WF_roundVars(round.on /\ SilentPending /\ TimeoutPending)

-----------------------------------------------------------------------------
\* A synchroniser in one of the two modes.
SyncInit ==
  \/ /\ mode = "store" /\ Init
     /\ pool = {} /\ left = {} /\ theirs = {} /\ got = {}
     /\ round = NoRound /\ rounds = 0
     /\ chans = <<>> /\ asked = <<>> /\ replies = <<>> /\ loop = NoReply /\ late = 0
  \/ PendingInit /\ Init /\ known = [p \in Peer |-> 0]

SyncNext ==
  \/ mode = "store" /\ Next /\ UNCHANGED roundVars
  \/ mode = "pending" /\ PendingNext /\ UNCHANGED vars

SyncSpec == /\ SyncInit /\ [][SyncNext]_<<vars, roundVars>>
            /\ Fairness /\ PendingFairness

-----------------------------------------------------------------------------
\* A synchronisation of the store that ends with an empty page, and took no answer
\* of an earlier one, leaves nothing out that its peer had when it began, from the
\* height of the own store on, except what a failed write leaves out.  A round that
\* ends because the pool holds nothing more to ask for has every signature that
\* the peer had made when it began: neither kind of paging skips anything.
EndedHasAll ==
  [][/\ Complete /\ Head(ch).sync = sync.id
          => \A c \in sync.want : c \in local \/ Num[c] \in failed
     /\ ImportPending /\ ~round'.on
          => round'.want \cap pool' \subseteq got']_<<vars, roundVars>>

\* DeliverCrossTransactions keeps the message loop of a peer waiting, with all its
\* other messages, while nobody takes from the channel; DeliverPending may load
\* the channel of a round that ends before the answer is sent, and hold up the
\* loop for good.  Either takes two synchronisations that timed out.
LoopHeldAfterTimeouts ==
  /\ (\E p \in Peer : answers[p] # <<>>) /\ Len(ch) >= ChannelSize /\ ~sync.on
       => timeouts >= 2
  /\ Wedged => late >= 2

\* A synchronisation of either kind comes to an end, whatever answers to earlier
\* ones it takes, also when it lost its peer or when the message loop of the peer
\* waits for good.
SynchronisationEnds == (sync.on \/ round.on) ~> ~(sync.on \/ round.on)
=============================================================================
