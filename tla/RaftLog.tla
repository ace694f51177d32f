------------------------------- MODULE RaftLog -------------------------------
(***************************************************************************)
(* One node of a raft cluster applies the committed entries of the log: a  *)
(* block extends the chain or is refused, a configuration change moves the *)
(* membership and forces a snapshot.  The process may die between any two  *)
(* writes, and starts again from its blockchain database, its snapshot and *)
(* the applied index, three stores that are written one after the other.   *)
(*                                                                         *)
(* The log is what etcd/raft has committed.  A block is named by its index *)
(* in the log.                                                             *)
(***************************************************************************)
EXTENDS Integers, Sequences, FiniteSets

CONSTANTS
  Self,           \* pm.raftId
  Peer,           \* raft ids of the other nodes, now or later
  InitialPeer,    \* the other bootstrap nodes
  SnapshotPeriod, \* entries between two snapshots
  CanReuse,       \* TRUE when a removed id can still be added by a late change
  CanRewind,      \* TRUE when a crash can lose the state of blocks that a
                  \* snapshot covers, FALSE when only of later ones
  CanCrashEarly,  \* TRUE when a crash can come before the first snapshot
  MaxLog,         \* bound: length of the log
  MaxCrashes      \* bound: number of crashes

ASSUME PeerAssumption ==
  InitialPeer \subseteq Peer /\ IsFiniteSet(InitialPeer) /\ Self \notin Peer
ASSUME BoundAssumption == {SnapshotPeriod, MaxLog, MaxCrashes} \subseteq Nat
ASSUME SwitchAssumption == {CanReuse, CanRewind, CanCrashEarly} \subseteq BOOLEAN

VARIABLES
  log,     \* the committed entries
  node,    \* chain head, blocks in the database, confState, known addresses
           \* (pm.peers and pm.address) and removedPeers of this node
  applied, \* pm.appliedIndex, and its copy in LevelDB
  pending, \* the entry that is applied while its index is not yet written, or 0
  snap,    \* the newest snapshot on disk
  run,     \* what the process is doing
  crashes  \* bound: crashes so far

vars == <<log, node, applied, pending, snap, run, crashes>>

Genesis == 0
Lost == -1   \* a block that was proposed and never committed

Node == Peer \cup {Self}
Bootstrap == InitialPeer \cup {Self}

Block(parent) == [kind |-> "block", parent |-> parent]
Change(kind, id) == [kind |-> kind, id |-> id]

Blocks == {i \in DOMAIN log : log[i].kind = "block"}

\* The chain that ends in block b, as the set of its blocks.
Chain(b) ==
  LET chain[i \in Lost .. Len(log)] ==
        IF i \in Blocks THEN chain[log[i].parent] \cup {i} ELSE {}
  IN  chain[b]

number(b) == Cardinality(Chain(b))

-----------------------------------------------------------------------------
(* Applying an entry.                                                      *)

\* Mutant: a block is inserted wherever its parent is in the database.
blockExtendsAny(n, parent) == parent \in n.known \cup {Genesis}

blockExtendsChain(n, parent) == parent = n.head

\* A block that is already in the database is skipped, one that extends the
\* chain is inserted, any other is refused.
applyNewChainHead(n, i) ==
  IF i \in n.known \/ ~blockExtendsChain(n, log[i].parent) THEN n
  ELSE [n EXCEPT !.head = i, !.known = @ \cup {i}]

isRaftIdUsed(n, id) == id = Self \/ id \in n.removed \cup n.addrs

\* The node's own address is not in pm.peers and stays.
removePeer(n, id) == [n EXCEPT !.addrs = @ \ ({id} \ {Self}), !.removed = @ \cup {id}]

\* ConfChangeAddNode, after etcd has added the node to the ConfState.
addNode(n, id) ==
  LET m == [n EXCEPT !.conf = @ \cup {id}]
  IN  IF isRaftIdUsed(n, id) THEN m ELSE [m EXCEPT !.addrs = @ \cup {id}]

\* ConfChangeRemoveNode, after etcd has removed the node.
removeNode(n, id) ==
  LET m == [n EXCEPT !.conf = @ \ {id}]
  IN  IF id \in n.removed THEN m ELSE removePeer(m, id)

applyEntry(n, i) ==
  CASE log[i].kind = "block" -> applyNewChainHead(n, i)
    [] log[i].kind = "add" -> addNode(n, log[i].id)
    [] log[i].kind = "remove" -> removeNode(n, log[i].id)

\* Mutant: only a removal is saved at once.
forceSnapshotRemoval(n, i) == log[i].kind = "remove" /\ log[i].id \notin n.removed

forceSnapshot(n, i) == log[i].kind # "block" /\ log[i].id \notin n.removed

NewNode == [head |-> Genesis, known |-> {}, conf |-> Bootstrap, addrs |-> Bootstrap,
            removed |-> {}]

\* A node that has applied the first i entries and never crashed.
Ideal ==
  LET after[i \in 0 .. Len(log)] ==
        IF i = 0 THEN NewNode ELSE applyEntry(after[i - 1], i)
  IN  after

-----------------------------------------------------------------------------
(* Snapshots.                                                              *)

NoSnapshot == [index |-> 0, head |-> Genesis, conf |-> {}, removed |-> {}]

\* buildSnapshot dereferences the address of every node of the ConfState.
hasAddresses(n) == n.conf \subseteq n.addrs

buildSnapshot(n, i) == [index |-> i, head |-> n.head, conf |-> n.conf, removed |-> n.removed]

\* updateClusterMembership: nodes that are no longer in the ConfState become
\* removed ones, and the addresses of the snapshot are learnt.
updateClusterMembership(n, s) ==
  LET old == n.conf \ s.conf
  IN  [n EXCEPT !.conf = s.conf,
                !.addrs = (@ \ (old \ {Self})) \cup s.conf,
                !.removed = s.removed \cup old]

\* applyRaftSnapshot downloads the chain only if the snapshot's head is missing.
applyRaftSnapshot(n, s) ==
  LET m == updateClusterMembership(n, s)
  IN  IF s.head \in n.known \cup {Genesis} THEN m
      ELSE [m EXCEPT !.head = s.head, !.known = @ \cup Chain(s.head)]

\* Mutant: the replay leaves out the first entry after the snapshot.
replayFromSecond(n, s) ==
  LET seen == {b \in Blocks \cap n.known : b > s.index + 1 /\ number(b) > number(n.head)}
  IN  IF seen = {} THEN n
      ELSE [n EXCEPT !.head = CHOOSE b \in seen : \A c \in seen : number(c) <= number(b)]

\* startRaft inserts the blocks of the WAL after the snapshot again that are in
\* the database and above the head, each with what is missing below it.
replay(n, s) ==
  LET seen == {b \in Blocks \cap n.known : b > s.index /\ number(b) > number(n.head)}
  IN  IF seen = {} THEN n
      ELSE [n EXCEPT !.head = CHOOSE b \in seen : \A c \in seen : number(c) <= number(b)]

\* startRaft with a WAL: the membership comes from the snapshot, if there is one.
startRaft(n, s) ==
  LET m == [n EXCEPT !.conf = {}, !.addrs = {}, !.removed = {}]
  IN  IF s = NoSnapshot THEN m ELSE replay(applyRaftSnapshot(m, s), s)

-----------------------------------------------------------------------------
\* etcd starts the log with the bootstrap nodes, in some order.
Init ==
  /\ log \in [1 .. Cardinality(Bootstrap) -> {Change("add", id) : id \in Bootstrap}]
  /\ \A i, j \in DOMAIN log : log[i] = log[j] => i = j
  /\ node = NewNode
  /\ applied = 0
  /\ pending = 0
  /\ snap = NoSnapshot
  /\ run = "up"
  /\ crashes = 0

\* Raft commits a block on a committed block or on a lost one.
CommitBlock(parent) ==
  /\ Len(log) < MaxLog
  /\ log' = Append(log, Block(parent))
  /\ UNCHANGED <<node, applied, pending, snap, run, crashes>>

\* Raft commits a change that ProposeNewPeer, PromoteToPeer or
\* ProposePeerRemoval asked for.  The first two look at the removed ids, long
\* before the change is committed.
CommitChange(kind, id) ==
  /\ Len(log) < MaxLog
  /\ kind = "add" /\ ~CanReuse => id \notin Ideal[Len(log)].removed
  /\ log' = Append(log, Change(kind, id))
  /\ UNCHANGED <<node, applied, pending, snap, run, crashes>>

\* eventLoop applies the next entry.  A change of the membership is saved in a
\* snapshot before its index is written.
Apply ==
  LET i == applied + 1
      n == applyEntry(node, i)
      force == forceSnapshot(node, i)
  IN  /\ run \in {"up", "leaving"} /\ pending = 0
      /\ i <= Len(log) /\ snap.index <= applied
      /\ node' = n
      /\ pending' = i
      /\ snap' = IF force /\ hasAddresses(n) THEN buildSnapshot(n, i) ELSE snap
      /\ run' = IF force /\ ~hasAddresses(n) THEN "panic"
                ELSE IF Self \in n.removed \ node.removed THEN "leaving" ELSE run
      /\ UNCHANGED <<log, applied, crashes>>

\* The leader, which has applied more, sends its snapshot; it is saved first, ...
SaveRaftSnapshot(i) ==
  /\ run = "up" /\ pending = 0
  /\ i > applied /\ i > snap.index /\ hasAddresses(Ideal[i])
  /\ snap' = buildSnapshot(Ideal[i], i)
  /\ pending' = i
  /\ run' = "installing"
  /\ UNCHANGED <<log, node, applied, crashes>>

\* ... then applied.
ApplyRaftSnapshot ==
  /\ run = "installing"
  /\ node' = applyRaftSnapshot(node, snap)
  /\ run' = "up"
  /\ UNCHANGED <<log, applied, pending, snap, crashes>>

\* Mutant: the index of an entry that a snapshot has just saved is not written.
AdvanceAppliedIndexSaved ==
  /\ run \in {"up", "leaving"} /\ pending # 0
  /\ applied' = IF snap.index = pending THEN applied ELSE pending
  /\ pending' = 0
  /\ UNCHANGED <<log, node, snap, run, crashes>>

AdvanceAppliedIndex ==
  /\ run \in {"up", "leaving"} /\ pending # 0
  /\ applied' = pending
  /\ pending' = 0
  /\ UNCHANGED <<log, node, snap, run, crashes>>

\* After a batch.  The difference is unsigned: an applied index behind the
\* snapshot asks for a snapshot that etcd refuses to create.
MaybeTriggerSnapshot ==
  /\ run \in {"up", "leaving"} /\ pending = 0
  /\ snap.index > applied \/ applied - snap.index >= SnapshotPeriod
  /\ IF snap.index <= applied /\ hasAddresses(node)
     THEN snap' = buildSnapshot(node, applied) /\ run' = run
     ELSE run' = "panic" /\ snap' = snap
  /\ UNCHANGED <<log, node, applied, pending, crashes>>

\* entriesToApply: raft delivers the entries after the snapshot, and the first
\* of them does not follow the applied index.
EntriesToApplyFatal ==
  /\ run = "up" /\ pending = 0
  /\ snap.index > applied /\ snap.index < Len(log)
  /\ run' = "fatal"
  /\ UNCHANGED <<log, node, applied, pending, snap, crashes>>

\* A node that has applied its own removal leaves after the batch.
Exit ==
  /\ run = "leaving" /\ pending = 0
  /\ run' = "exit"
  /\ UNCHANGED <<log, node, applied, pending, snap, crashes>>

\* The process dies and startRaft brings the node up again.  The blockchain has
\* gone back to the block h, which is the head when no state was lost.
Crash(h) ==
  /\ run \in {"up", "leaving", "installing"}
  /\ CanCrashEarly \/ snap # NoSnapshot
  /\ CanRewind \/ h = node.head \/ node.head > snap.index
  /\ crashes < MaxCrashes
  /\ crashes' = crashes + 1
  /\ node' = startRaft([node EXCEPT !.head = h], snap)
  /\ pending' = 0
  /\ run' = "up"
  /\ UNCHANGED <<log, applied, snap>>

Next ==
  \/ \E parent \in Blocks \cup {Genesis, Lost} : CommitBlock(parent)
  \/ \E kind \in {"add", "remove"}, id \in Node : CommitChange(kind, id)
  \/ Apply
  \/ \E i \in 1 .. Len(log) : SaveRaftSnapshot(i)
  \/ ApplyRaftSnapshot
  \/ AdvanceAppliedIndex
  \/ MaybeTriggerSnapshot
  \/ EntriesToApplyFatal
  \/ Exit
  \/ \E h \in Chain(node.head) \cup {Genesis} : Crash(h)

Spec == Init /\ [][Next]_vars

-----------------------------------------------------------------------------
(* Properties.                                                             *)

\* The prefixes of the log that the node's state may stand for: the one whose
\* index it is about to write, or after a crash one that it had got to.
Reached ==
  IF pending # 0 /\ run # "installing" THEN {pending}
  ELSE {i \in applied .. Len(log) : i <= applied + 1 \/ i <= snap.index}

\* The chain is the one that every node gets from the same entries, through
\* crashes between the writes of a block, of a snapshot and of the applied
\* index: eventLoop skips a block that it finds in the database, and none else.
ChainFollowsLog == node.head \in {Ideal[i].head : i \in Reached}

\* A crash does not cause "the loss of a cluster member upon restart": the
\* ConfState and the tombstones are those that the log gives to every node,
\* because eventLoop saves a change before it writes its index.
MembersFollowLog ==
  \E i \in Reached : node.conf = Ideal[i].conf /\ node.removed = Ideal[i].removed

\* Neither entriesToApply nor maybeTriggerSnapshot gives the process up, except
\* after a crash between the write of a snapshot and that of its applied index.
\* triggerSnapshot names this case, "we snapshot for a future index that we have
\* not yet recorded in LevelDB", as one that has to be supported.
GivesUpOnlyBehindSnapshot ==
  run \in {"panic", "fatal"} => crashes > 0 /\ applied < snap.index

\* startRaft's replay brings a chain that has lost its state back to the head it
\* had, if that head was committed after the snapshot.
ReplayRestores ==
  [][crashes' # crashes /\ snap # NoSnapshot /\ node.head > snap.index
       => node'.head = node.head]_vars
=============================================================================
