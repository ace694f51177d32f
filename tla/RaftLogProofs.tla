--------------------------- MODULE RaftLogProofs ---------------------------
(***************************************************************************)
(* The chain and the membership of a node follow the committed log, through *)
(* crashes between any two of its writes, for every log and every set of   *)
(* nodes.                                                                  *)
(***************************************************************************)
EXTENDS RaftLog, FiniteSetTheorems, TLAPS

\* Zenon is tried before SMT, and both have a minute.
USE ZenonT(60), SMTT(60)

Entry == [kind : {"block"}, parent : Int] \cup [kind : {"add", "remove"}, id : Node]

NodeState ==
  [head : Nat, known : SUBSET Nat, conf : SUBSET Node, addrs : SUBSET Node, removed : SUBSET Node]

SnapState == [index : Nat, head : Nat, conf : SUBSET Node, removed : SUBSET Node]

\* The log starts with a bootstrap node, and a block comes after its parent.
LogInv ==
  /\ log \in Seq(Entry) /\ Len(log) > 0 /\ log[1].kind = "add"
  /\ \A i \in 1 .. Len(log) : log[i].kind = "block" => log[i].parent \in Lost .. i - 1

\* What the process is doing.  The pending entry is the next one, or that of the
\* newest snapshot; and only a crash leaves the applied index behind a snapshot
\* that is not being installed.
Control ==
  /\ node \in NodeState /\ snap \in SnapState /\ crashes \in Nat
  /\ node.head <= Len(log) /\ snap.head <= Len(log)
  /\ run \in {"up", "leaving", "installing", "panic", "fatal", "exit"}
  /\ applied \in 0 .. Len(log) /\ snap.index \in 0 .. Len(log)
  /\ pending # 0 => /\ pending \in applied + 1 .. Len(log)
                    /\ pending = applied + 1 \/ pending = snap.index
  /\ run = "installing" => pending # 0 /\ pending = snap.index
  /\ snap.index > applied => pending = snap.index \/ crashes > 0
  /\ snap = NoSnapshot => /\ applied = 0 /\ node.removed = {}
                          /\ pending = 0 \/ (pending = 1 /\ run = "panic")

\* The database holds the blocks that a node accepts on its way to an entry that
\* this one has reached, and the head is the last of them.  The head of a snapshot is
\* that of its index, or a block that was pending when it was taken.
ChainInv ==
  /\ \E p \in Reached : node.head = Ideal[p].head /\ node.known = Ideal[p].known
  /\ \/ snap.head = Ideal[snap.index].head
     \/ snap.head = snap.index + 1 /\ snap.head \in node.known

\* An id that was removed does not come back.
NoReuse ==
  \A i \in 1 .. Len(log) : log[i].kind = "add" => log[i].id \notin Ideal[i - 1].removed

\* The last entry whose effect on the membership the node has.
Position == IF pending # 0 /\ run # "installing" THEN pending ELSE applied

MembersOf(n, i) == n.conf = Ideal[i].conf /\ n.removed = Ideal[i].removed

\* The membership is that of the log at the node's position, and so is that of
\* the newest snapshot, from its index to the position.  No entry is applied
\* that a snapshot covers.
MemberInv ==
  /\ pending # 0 => snap.index <= pending
  /\ node.conf \subseteq node.addrs
  /\ Self \in node.addrs \cup node.removed
  /\ snap # NoSnapshot => MembersOf(snap, snap.index)
  /\ snap # NoSnapshot => \A c \in snap.index .. Position : MembersOf(snap, c)
  /\ snap.index <= Position => MembersOf(node, Position)
  /\ snap.index > Position => \E c \in applied .. snap.index : MembersOf(node, c)
  /\ run \in {"panic", "fatal"} => crashes > 0 /\ applied < snap.index

-----------------------------------------------------------------------------
(* The node that never crashes. *)

\* A set of natural numbers that is not empty has a least element.
LEMMA LeastNat ==
  ASSUME NEW T \in SUBSET Nat, T # {}
  PROVE  \E n \in T : \A m \in T : n <= m
  <1>1. IsWellFoundedOn(OpToRel(<, Nat), Nat)
    BY NatLessThanWellFounded
  <1>2. PICK n \in T : \A m \in T : ~(<<m, n>> \in OpToRel(<, Nat))
    BY <1>1, WFMin
  <1>3. \A m \in T : ~(m < n)
    BY <1>2 DEF OpToRel
  <1> QED
    BY <1>3, SMTT(60)

\* The recursion of Ideal.
IdealDefined ==
  /\ Ideal[0] = NewNode
  /\ \A i \in 1 .. Len(log) : Ideal[i] = applyEntry(Ideal[i - 1], i)

\* The function that Ideal defines by recursion over the log exists.
LEMMA IdealDef == LogInv => IdealDefined
  <1> SUFFICES ASSUME LogInv PROVE IdealDefined
    OBVIOUS
  <1> DEFINE G(f, m) == [i \in 0 .. m |-> IF i = 0 THEN NewNode ELSE applyEntry(f[i - 1], i)]
             Exists(m) == \E f : f = G(f, m)
             T == {m \in Nat : ~Exists(m)}
  <1>1. Exists(0)
    <2> DEFINE z == [i \in 0 .. 0 |-> NewNode]
    <2>1. z = G(z, 0)
      BY SMTT(60)
    <2> QED
      BY <2>1
  <1> HIDE DEF Exists
  <1>2. T = {}
    <2>1. SUFFICES ASSUME T # {} PROVE FALSE
      OBVIOUS
    <2>2. PICK m \in T : \A k \in T : m <= k
      BY <2>1, LeastNat
    <2>3. m # 0 /\ m - 1 \in Nat /\ m - 1 \notin T /\ m \in Nat
      BY <1>1, <2>2, SMTT(60)
    <2>4. PICK f : f = G(f, m - 1)
      BY <2>3 DEF Exists
    <2> DEFINE g == [i \in 0 .. m |-> IF i = m THEN applyEntry(f[m - 1], m) ELSE f[i]]
    <2>5. ASSUME NEW i \in 0 .. m
          PROVE  g[i] = IF i = 0 THEN NewNode ELSE applyEntry(g[i - 1], i)
      <3>1. CASE i = m
        <4>1. m \in 0 .. m /\ m - 1 \in 0 .. m /\ m - 1 # m
          BY <2>3, SMTT(60)
        <4>2. g[m] = applyEntry(f[m - 1], m) /\ g[m - 1] = f[m - 1]
          BY <4>1
        <4> HIDE DEF g
        <4> QED
          BY <2>3, <3>1, <4>2
      <3>2. CASE i # m
        <4>1. i \in 0 .. (m - 1) /\ (i # 0 => i - 1 \in 0 .. m /\ i - 1 # m)
          BY <2>2, <3>2, SMTT(60)
        <4>2. f[i] = IF i = 0 THEN NewNode ELSE applyEntry(f[i - 1], i)
          BY <2>4, <4>1
        <4>3. g[i] = f[i] /\ (i # 0 => g[i - 1] = f[i - 1])
          BY <3>2, <4>1
        <4> HIDE DEF g
        <4> QED
          BY <4>2, <4>3
      <3> QED
        BY <3>1, <3>2
    <2>6. g = G(g, m)
      BY <2>5
    <2> QED
      BY <2>2, <2>6 DEF Exists
  <1>3. Len(log) \in Nat
    BY SMTT(60) DEF LogInv
  <1>4. Exists(Len(log))
    BY <1>2, <1>3
  <1>5. Ideal = CHOOSE f : f = G(f, Len(log))
    BY DEF Ideal
  <1>6. Ideal = G(Ideal, Len(log))
    BY <1>4, <1>5 DEF Exists
  <1>7. ASSUME NEW i \in 0 .. Len(log)
        PROVE  Ideal[i] = IF i = 0 THEN NewNode ELSE applyEntry(Ideal[i - 1], i)
    BY ONLY <1>6, <1>7, ZenonT(60)
  <1>8. 0 \in 0 .. Len(log) /\ \A i \in 1 .. Len(log) : i \in 0 .. Len(log) /\ i # 0
    BY <1>3, SMTT(60)
  <1> QED
    BY <1>7, <1>8 DEF IdealDefined

\* The recursion of Chain.
ChainDefined ==
  \A i \in Lost .. Len(log) :
    Chain(i) = IF i \in Blocks THEN Chain(log[i].parent) \cup {i} ELSE {}

\* The function that Chain defines by recursion over the parents exists.
LEMMA ChainDef == LogInv => ChainDefined
  <1> SUFFICES ASSUME LogInv PROVE ChainDefined
    OBVIOUS
  <1> DEFINE G(f, m) ==
               [i \in Lost .. m |-> IF i \in Blocks THEN f[log[i].parent] \cup {i} ELSE {}]
             Exists(m) == \E f : f = G(f, m)
             T == {m \in Nat : ~Exists(m)}
  <1>1. /\ \A i \in Blocks : i \in Nat \ {0} /\ log[i].parent \in Lost .. i - 1
        /\ Lost = -1 /\ Len(log) \in Nat
    BY SMTT(60) DEF LogInv, Blocks, Lost
  <1>2. Exists(0)
    <2> DEFINE z == [i \in Lost .. 0 |-> {}]
    <2>1. \A i \in Lost .. 0 : i \notin Blocks
      BY <1>1, SMTT(60)
    <2>2. z = G(z, 0)
      BY <2>1
    <2> QED
      BY <2>2
  <1> HIDE DEF Exists
  <1>3. T = {}
    <2>1. SUFFICES ASSUME T # {} PROVE FALSE
      OBVIOUS
    <2>2. PICK m \in T : \A k \in T : m <= k
      BY <2>1, LeastNat
    <2>3. m # 0 /\ m - 1 \in Nat /\ m - 1 \notin T /\ m \in Nat
      BY <1>2, <2>2, SMTT(60)
    <2>4. PICK f : f = G(f, m - 1)
      BY <2>3 DEF Exists
    <2> DEFINE g == [i \in Lost .. m |->
                      IF i = m THEN IF m \in Blocks THEN f[log[m].parent] \cup {m} ELSE {}
                      ELSE f[i]]
    <2>5. ASSUME NEW i \in Lost .. m
          PROVE  g[i] = IF i \in Blocks THEN g[log[i].parent] \cup {i} ELSE {}
      <3>1. i \in Blocks => log[i].parent \in Lost .. m /\ log[i].parent # m
        BY <1>1, <2>3, SMTT(60)
      <3>2. i \in Blocks => g[log[i].parent] = f[log[i].parent]
        BY <3>1
      <3>3. CASE i = m
        <4>1. g[m] = IF m \in Blocks THEN f[log[m].parent] \cup {m} ELSE {}
          BY <3>3
        <4> HIDE DEF g
        <4> QED
          BY <3>2, <3>3, <4>1
      <3>4. CASE i # m
        <4>1. i \in Lost .. m - 1
          BY <1>1, <2>3, <3>4, SMTT(60)
        <4>2. f[i] = IF i \in Blocks THEN f[log[i].parent] \cup {i} ELSE {}
          BY <2>4, <4>1
        <4>3. g[i] = f[i]
          BY <3>4
        <4> HIDE DEF g
        <4> QED
          BY <3>2, <4>2, <4>3
      <3> QED
        BY <3>3, <3>4
    <2>6. g = G(g, m)
      BY <2>5
    <2> QED
      BY <2>2, <2>6 DEF Exists
  <1>4. Exists(Len(log))
    BY <1>1, <1>3
  <1> DEFINE chain == CHOOSE f : f = G(f, Len(log))
  <1>5. chain = G(chain, Len(log))
    BY <1>4 DEF Exists
  <1>6. \A b : Chain(b) = chain[b]
    BY DEF Chain
  <1> HIDE DEF chain
  <1>7. ASSUME NEW i \in Lost .. Len(log)
        PROVE  chain[i] = IF i \in Blocks THEN chain[log[i].parent] \cup {i} ELSE {}
    BY ONLY <1>5, <1>7, ZenonT(60)
  <1> QED
    BY <1>6, <1>7 DEF ChainDefined

\* The chain of a block has no later blocks, and the chains of its blocks are
\* part of it.
ChainNested ==
  \A c \in Lost .. Len(log) :
    /\ Chain(c) \subseteq 1 .. c
    /\ \A b \in Chain(c) : b \in Blocks /\ b \in Chain(b) /\ Chain(b) \subseteq Chain(c)

\* Chain follows the parents down to the genesis block.
LEMMA ChainFacts == LogInv => ChainNested
  <1> SUFFICES ASSUME LogInv PROVE ChainNested
    OBVIOUS
  <1> DEFINE P(c) == /\ Chain(c) \subseteq 1 .. c
                     /\ \A b \in Chain(c) : b \in Blocks /\ b \in Chain(b) /\ Chain(b) \subseteq Chain(c)
             T == {m \in Nat : m \in 1 .. Len(log) /\ ~P(m)}
  <1>1. /\ \A i \in Blocks : i \in 1 .. Len(log) /\ log[i].parent \in Lost .. i - 1
        /\ Lost = -1 /\ Len(log) \in Nat
    BY SMTT(60) DEF LogInv, Blocks, Lost
  <1>2. \A i \in Lost .. Len(log) :
          Chain(i) = IF i \in Blocks THEN Chain(log[i].parent) \cup {i} ELSE {}
    BY ChainDef DEF ChainDefined
  <1>3. ASSUME NEW c \in Lost .. 0 PROVE P(c)
    <2>1. Chain(c) = {}
      BY <1>1, <1>2, SMTT(60)
    <2> QED
      BY <2>1
  <1> HIDE DEF P
  <1>4. T = {}
    <2>1. SUFFICES ASSUME T # {} PROVE FALSE
      OBVIOUS
    <2>2. PICK m \in T : \A k \in T : m <= k
      BY <2>1, LeastNat
    <2>3. m \in 1 .. Len(log) /\ m \in Lost .. Len(log) /\ ~P(m)
      BY <1>1, <2>2, SMTT(60)
    <2>4. CASE m \notin Blocks
      <3>1. Chain(m) = {}
        BY <1>2, <2>3, <2>4
      <3> QED
        BY <2>3, <3>1 DEF P
    <2>5. CASE m \in Blocks
      <3> DEFINE q == log[m].parent
      <3>1. Chain(m) = Chain(q) \cup {m}
        BY <1>2, <2>3, <2>5
      <3>2. q \in Lost .. m - 1 /\ q \notin T
        BY <1>1, <2>2, <2>5, SMTT(60)
      <3>3. P(q)
        BY <1>1, <1>3, <2>3, <3>2, SMTT(60)
      <3> HIDE DEF q
      <3>4. Chain(q) \subseteq 1 .. m
        BY <1>1, <2>3, <3>2, <3>3, SMTT(60) DEF P
      <3>5. Chain(m) \subseteq 1 .. m
        BY <2>3, <3>1, <3>4, SMTT(60)
      <3>6. \A b \in Chain(m) : b \in Blocks /\ b \in Chain(b) /\ Chain(b) \subseteq Chain(m)
        BY <2>5, <3>1, <3>3 DEF P
      <3> QED
        BY <2>3, <3>5, <3>6 DEF P
    <2> QED
      BY <2>4, <2>5
  <1>5. ASSUME NEW c \in Lost .. Len(log) PROVE P(c)
    <2>1. CASE c \in Lost .. 0
      BY <1>3, <2>1
    <2>2. CASE c \in 1 .. Len(log)
      BY <1>1, <1>4, <2>2, SMTT(60)
    <2> QED
      BY <1>1, <2>1, <2>2, SMTT(60)
  <1> QED
    BY <1>5 DEF P, ChainNested

\* A block of the chain of c other than c has a smaller number.
LEMMA NumberGrows ==
  ASSUME LogInv, NEW c \in 0 .. Len(log), NEW b \in Chain(c), b # c
  PROVE  number(b) < number(c)
  <1>1. c \in Lost .. Len(log) /\ Len(log) \in Nat
    BY SMTT(60) DEF LogInv, Lost
  <1>2. /\ Chain(c) \subseteq 1 .. c /\ b \in Blocks /\ b \in Chain(b)
        /\ Chain(b) \subseteq Chain(c)
    BY <1>1, ChainFacts DEF ChainNested
  <1>3. b \in 1 .. c /\ b \in Lost .. Len(log)
    BY <1>1, <1>2, SMTT(60) DEF Lost
  <1>4. Chain(b) \subseteq 1 .. b
    BY <1>3, ChainFacts DEF ChainNested
  <1>5. c \notin Chain(b)
    BY <1>3, <1>4, SMTT(60)
  <1>6. Chain(c) = IF c \in Blocks THEN Chain(log[c].parent) \cup {c} ELSE {}
    BY <1>1, ChainDef DEF ChainDefined
  <1>7. c \in Chain(c)
    BY <1>6
  <1>8. IsFiniteSet(1 .. c)
    BY FS_Interval, SMTT(60)
  <1>9. IsFiniteSet(Chain(c))
    BY <1>2, <1>8, FS_Subset
  <1>10. Cardinality(Chain(b)) < Cardinality(Chain(c))
    <2>1. /\ IsFiniteSet(Chain(b)) /\ Cardinality(Chain(b)) <= Cardinality(Chain(c))
          /\ Cardinality(Chain(c)) = Cardinality(Chain(b)) => Chain(c) = Chain(b)
      BY <1>2, <1>9, FS_Subset
    <2>2. Cardinality(Chain(b)) \in Nat /\ Cardinality(Chain(c)) \in Nat
      BY <1>9, <2>1, FS_CardinalityType
    <2> QED
      BY <1>5, <1>7, <2>1, <2>2, SMTT(60)
  <1> QED
    BY <1>10 DEF number

\* What applying an entry does to the chain and to the membership of a node.
EntryApplied(a, b, i) ==
  /\ log[i].kind = "block" =>
       /\ b.conf = a.conf /\ b.removed = a.removed /\ b.addrs = a.addrs
       /\ IF i \in a.known \/ log[i].parent # a.head
          THEN b.head = a.head /\ b.known = a.known
          ELSE b.head = i /\ b.known = a.known \cup {i}
  /\ log[i].kind # "block" => b.head = a.head /\ b.known = a.known
  /\ log[i].kind = "add" =>
       /\ b.conf = a.conf \cup {log[i].id} /\ b.removed = a.removed
       /\ a.addrs \subseteq b.addrs
       /\ log[i].id \in b.addrs \cup a.removed \cup {Self}
  /\ log[i].kind = "remove" =>
       /\ b.conf = a.conf \ {log[i].id} /\ b.removed = a.removed \cup {log[i].id}
       /\ a.addrs \ ({log[i].id} \ {Self}) \subseteq b.addrs

\* The entries of the log.
LEMMA EntryFacts ==
  ASSUME LogInv, NEW i \in 1 .. Len(log)
  PROVE  \/ log[i].kind = "block" /\ log[i].parent \in Lost .. i - 1 /\ i \in Blocks
         \/ log[i].kind = "add" /\ log[i].id \in Node
         \/ log[i].kind = "remove" /\ log[i].id \in Node
  <1>1. log[i] \in Entry /\ i \in DOMAIN log
    BY SMTT(60) DEF LogInv
  <1>2. CASE log[i] \in [kind : {"block"}, parent : Int]
    BY <1>1, <1>2 DEF LogInv, Blocks
  <1>3. CASE log[i] \in [kind : {"add", "remove"}, id : Node]
    BY <1>3
  <1> QED
    BY <1>1, <1>2, <1>3 DEF Entry

\* applyNewChainHead, and addNode and removeNode after etcd's ApplyConfChange.
LEMMA ApplyFacts ==
  ASSUME LogInv, NEW n \in NodeState, NEW i \in 1 .. Len(log)
  PROVE  applyEntry(n, i) \in NodeState /\ EntryApplied(n, applyEntry(n, i), i)
  <1>1. i \in Nat
    BY SMTT(60) DEF LogInv
  <1>2. CASE log[i].kind = "block"
    <2>1. applyEntry(n, i) = applyNewChainHead(n, i)
      BY <1>2 DEF applyEntry
    <2>2. applyNewChainHead(n, i) = IF i \in n.known \/ log[i].parent # n.head THEN n
                                    ELSE [n EXCEPT !.head = i, !.known = @ \cup {i}]
      BY DEF applyNewChainHead, blockExtendsChain
    <2>3. CASE i \in n.known \/ log[i].parent # n.head
      BY <1>2, <2>1, <2>2, <2>3 DEF EntryApplied
    <2>4. CASE ~(i \in n.known \/ log[i].parent # n.head)
      <3> DEFINE b == [n EXCEPT !.head = i, !.known = @ \cup {i}]
      <3>1. applyEntry(n, i) = b
        BY <2>1, <2>2, <2>4
      <3>2. /\ b \in NodeState /\ b.head = i /\ b.known = n.known \cup {i}
            /\ b.conf = n.conf /\ b.removed = n.removed /\ b.addrs = n.addrs
        BY <1>1 DEF NodeState
      <3> HIDE DEF b
      <3> QED
        BY <1>2, <2>4, <3>1, <3>2 DEF EntryApplied
    <2> QED
      BY <2>3, <2>4
  <1>3. CASE log[i].kind = "add"
    <2> DEFINE id == log[i].id
               m == [n EXCEPT !.conf = @ \cup {id}]
    <2>1. applyEntry(n, i) = addNode(n, id) /\ id \in Node
      BY <1>3, EntryFacts DEF applyEntry
    <2>2. addNode(n, id) = IF isRaftIdUsed(n, id) THEN m ELSE [m EXCEPT !.addrs = @ \cup {id}]
      BY DEF addNode
    <2>3. /\ m \in NodeState /\ [m EXCEPT !.addrs = @ \cup {id}] \in NodeState
      BY <2>1 DEF NodeState
    <2>4. CASE isRaftIdUsed(n, id)
      <3>1. id \in n.addrs \cup n.removed \cup {Self}
        BY <2>4 DEF isRaftIdUsed
      <3> QED
        BY <1>3, <2>1, <2>2, <2>3, <2>4, <3>1 DEF NodeState, EntryApplied
    <2>5. CASE ~isRaftIdUsed(n, id)
      BY <1>3, <2>1, <2>2, <2>3, <2>5, SMTT(60) DEF NodeState, EntryApplied
    <2> QED
      BY <2>4, <2>5
  <1>4. CASE log[i].kind = "remove"
    <2> DEFINE id == log[i].id
               m == [n EXCEPT !.conf = @ \ {id}]
    <2>1. applyEntry(n, i) = removeNode(n, id) /\ id \in Node
      BY <1>4, EntryFacts DEF applyEntry
    <2>2. removeNode(n, id) = IF id \in n.removed THEN m ELSE removePeer(m, id)
      BY DEF removeNode
    <2>3. removePeer(m, id) = [m EXCEPT !.addrs = @ \ ({id} \ {Self}), !.removed = @ \cup {id}]
      BY DEF removePeer
    <2>4. CASE id \in n.removed
      <3>1. /\ m \in NodeState /\ m.head = n.head /\ m.known = n.known /\ m.addrs = n.addrs
            /\ m.conf = n.conf \ {id} /\ m.removed = n.removed
        BY DEF NodeState
      <3>2. applyEntry(n, i) = m
        BY <2>1, <2>2, <2>4
      <3> HIDE DEF m
      <3> QED
        BY <1>4, <2>4, <3>1, <3>2 DEF EntryApplied
    <2>5. CASE id \notin n.removed
      <3> DEFINE b == [m EXCEPT !.addrs = @ \ ({id} \ {Self}), !.removed = @ \cup {id}]
      <3>1. /\ b \in NodeState /\ b.head = n.head /\ b.known = n.known
            /\ b.addrs = n.addrs \ ({id} \ {Self})
            /\ b.conf = n.conf \ {id} /\ b.removed = n.removed \cup {id}
        BY <2>1 DEF NodeState
      <3>2. applyEntry(n, i) = b
        BY <2>1, <2>2, <2>3, <2>5
      <3> HIDE DEF b
      <3> QED
        BY <1>4, <3>1, <3>2 DEF EntryApplied
    <2> QED
      BY <2>4, <2>5
  <1> QED
    BY <1>2, <1>3, <1>4, EntryFacts

\* What the proofs use of Ideal: its steps, its chain, and that neither the
\* chain nor the tombstones shrink.
IdealInv ==
  /\ Ideal[0] = NewNode
  /\ \A i \in 0 .. Len(log) :
       /\ Ideal[i] \in NodeState
       /\ Ideal[i].head \in 0 .. i
       /\ Ideal[i].head = 0 \/ Ideal[i].head \in Ideal[i].known
       /\ Ideal[i].known \subseteq 1 .. Ideal[i].head
       /\ Ideal[i].known = Chain(Ideal[i].head)
       /\ Self \in Ideal[i].conf \cup Ideal[i].removed
  /\ \A i \in 1 .. Len(log) : EntryApplied(Ideal[i - 1], Ideal[i], i)
  /\ \A i \in 0 .. Len(log) : \A j \in 0 .. i :
       /\ Ideal[j].head <= Ideal[i].head
       /\ Ideal[j].known \subseteq Ideal[i].known
       /\ Ideal[j].removed \subseteq Ideal[i].removed
       /\ Ideal[j].conf \subseteq Ideal[i].conf \cup Ideal[i].removed

\* A node that never crashes keeps a chain, and the log only adds to it.
LEMMA IdealFacts == LogInv => IdealInv
  <1> SUFFICES ASSUME LogInv PROVE IdealInv
    OBVIOUS
  <1> DEFINE L == Len(log)
  <1>1. /\ Ideal[0] = NewNode
        /\ \A i \in 1 .. L : Ideal[i] = applyEntry(Ideal[i - 1], i)
    BY IdealDef DEF IdealDefined
  <1>2. L \in Nat
    BY SMTT(60) DEF LogInv
  <1>3. NewNode \in NodeState
    BY PeerAssumption DEF NewNode, NodeState, Bootstrap, Node, Genesis
  <1>4. Chain(0) = {}
    <2>1. 0 \in Lost .. Len(log) /\ 0 \notin Blocks
      BY <1>2, SMTT(60) DEF Lost, Blocks, LogInv
    <2> QED
      BY <2>1, ChainDef DEF ChainDefined
  <1> HIDE DEF L
  <1> DEFINE Good(i) == /\ Ideal[i] \in NodeState
                        /\ Ideal[i].head \in 0 .. i
                        /\ Ideal[i].head = 0 \/ Ideal[i].head \in Ideal[i].known
                        /\ Ideal[i].known \subseteq 1 .. Ideal[i].head
                        /\ Ideal[i].known = Chain(Ideal[i].head)
                        /\ Self \in Ideal[i].conf \cup Ideal[i].removed
             Grows(j, i) == /\ Ideal[j].head <= Ideal[i].head
                            /\ Ideal[j].known \subseteq Ideal[i].known
                            /\ Ideal[j].removed \subseteq Ideal[i].removed
                            /\ Ideal[j].conf \subseteq Ideal[i].conf \cup Ideal[i].removed
             P(i) == Good(i) /\ \A j \in 0 .. i : Grows(j, i)
             T == {i \in Nat : i \in 0 .. L /\ ~P(i)}
  <1>5. P(0)
    <2>1. /\ Ideal[0].head = 0 /\ Ideal[0].known = {} /\ Ideal[0].conf = Bootstrap
          /\ Self \in Bootstrap /\ Ideal[0] \in NodeState
      BY <1>1, <1>3, SMTT(60) DEF NewNode, Bootstrap, Genesis
    <2>2. Good(0)
      BY <1>4, <2>1, SMTT(60)
    <2>3. \A j \in 0 .. 0 : j = 0
      BY SMTT(60)
    <2> QED
      BY <2>1, <2>2, <2>3, SMTT(60)
  <1>6. ASSUME NEW i \in 1 .. L, Good(i - 1)
        PROVE  /\ EntryApplied(Ideal[i - 1], Ideal[i], i) /\ Good(i) /\ Grows(i - 1, i)
               /\ Grows(i, i)
    <2>1. i - 1 \in 0 .. L /\ i \in 1 .. Len(log) /\ i \in Nat
      BY <1>2, SMTT(60) DEF L
    <2> DEFINE a == Ideal[i - 1]
               b == Ideal[i]
    <2>2. b = applyEntry(a, i) /\ a \in NodeState
      BY <1>1, <1>6
    <2>3. b \in NodeState /\ EntryApplied(a, b, i)
      BY <2>1, <2>2, ApplyFacts
    <2>4. /\ a.head \in 0 .. i - 1 /\ (a.head = 0 \/ a.head \in a.known)
          /\ a.known \subseteq 1 .. a.head /\ a.known = Chain(a.head)
          /\ Self \in a.conf \cup a.removed
      BY <1>6
    <2> HIDE DEF a, b
    <2>5. \/ b.head = a.head /\ b.known = a.known
          \/ /\ b.head = i /\ b.known = a.known \cup {i}
             /\ i \in Blocks /\ log[i].parent = a.head
      <3>1. CASE log[i].kind = "block"
        BY <2>1, <2>3, <3>1, EntryFacts DEF EntryApplied
      <3>2. CASE log[i].kind # "block"
        BY <2>3, <3>2 DEF EntryApplied
      <3> QED
        BY <3>1, <3>2
    <2>6. /\ a.removed \subseteq b.removed
          /\ a.conf \subseteq b.conf \cup b.removed
      BY <2>1, <2>3, EntryFacts DEF EntryApplied
    <2>7. CASE b.head = a.head /\ b.known = a.known
      <3>1. b.head \in 0 .. i /\ b.head \in Int
        BY <2>1, <2>4, <2>7, SMTT(60)
      <3> QED
        BY <2>3, <2>4, <2>6, <2>7, <3>1, SMTT(60) DEF a, b
    <2>8. CASE /\ b.head = i /\ b.known = a.known \cup {i}
               /\ i \in Blocks /\ log[i].parent = a.head
      <3>1. Chain(i) = Chain(a.head) \cup {i}
        <4>1. i \in Lost .. Len(log)
          BY <2>1, SMTT(60) DEF Lost
        <4> QED
          BY <2>8, <4>1, ChainDef DEF ChainDefined
      <3>2. b.head \in 0 .. i /\ a.head <= b.head /\ b.head <= b.head
        BY <2>1, <2>4, <2>8, SMTT(60)
      <3>3. b.known \subseteq 1 .. b.head
        BY <2>1, <2>4, <2>8, SMTT(60)
      <3> QED
        BY <2>3, <2>4, <2>6, <2>8, <3>1, <3>2, <3>3 DEF a, b
    <2> QED
      BY <2>5, <2>7, <2>8
  <1> HIDE DEF Good
  <1>7. \A i, j, k \in 0 .. L : Grows(j, k) /\ Grows(k, i) /\ Good(i) /\ Good(j) /\ Good(k) => Grows(j, i)
    <2> SUFFICES ASSUME NEW i \in 0 .. L, NEW j \in 0 .. L, NEW k \in 0 .. L,
                        Grows(j, k), Grows(k, i), Good(i), Good(j), Good(k)
                 PROVE  Grows(j, i)
      BY SMTT(60)
    <2>1. Ideal[i].head \in Int /\ Ideal[j].head \in Int /\ Ideal[k].head \in Int
      BY SMTT(60) DEF Good
    <2>2. Ideal[j].head <= Ideal[i].head
      BY <2>1, SMTT(60)
    <2> QED
      BY <2>2
  <1> HIDE DEF Grows
  <1>8. T = {}
    <2>1. SUFFICES ASSUME T # {} PROVE FALSE
      OBVIOUS
    <2>2. PICK i \in T : \A k \in T : i <= k
      BY <2>1, LeastNat
    <2>3. i # 0 /\ i \in 1 .. L /\ i - 1 \in 0 .. L /\ i - 1 \notin T
      BY <1>2, <1>5, <2>2, SMTT(60)
    <2>4. P(i - 1)
      BY <1>2, <2>3, SMTT(60)
    <2>5. Good(i) /\ Grows(i - 1, i) /\ Grows(i, i)
      BY <1>6, <2>3, <2>4
    <2>6. ASSUME NEW j \in 0 .. i PROVE Grows(j, i)
      <3>1. CASE j = i
        BY <2>5, <3>1
      <3>2. CASE j # i
        <4>1. j \in 0 .. i - 1 /\ j \in 0 .. L /\ i \in 0 .. L /\ j \notin T
          BY <1>2, <2>2, <2>3, <3>2, SMTT(60)
        <4>2. Good(j) /\ Good(i - 1)
          BY <1>2, <2>4, <4>1, SMTT(60)
        <4> QED
          BY <1>7, <2>3, <2>4, <2>5, <4>1, <4>2
      <3> QED
        BY <3>1, <3>2
    <2> QED
      BY <2>2, <2>5, <2>6
  <1>9. \A i \in 0 .. L : Good(i) /\ \A j \in 0 .. i : Grows(j, i)
    BY <1>2, <1>8, SMTT(60)
  <1>10. \A i \in 1 .. L : EntryApplied(Ideal[i - 1], Ideal[i], i)
    <2> TAKE i \in 1 .. L
    <2>1. i - 1 \in 0 .. L
      BY <1>2, SMTT(60)
    <2> QED
      BY <1>6, <1>9, <2>1
  <1> QED
    BY <1>1, <1>9, <1>10 DEF IdealInv, Good, Grows, L

\* Entries are never taken back.
LogGrows == Len(log) <= Len(log') /\ \A i \in 1 .. Len(log) : log'[i] = log[i]

\* More entries do not change what the first ones give.
LEMMA IdealKept ==
  ASSUME LogInv, LogInv', LogGrows
  PROVE  \A i \in 0 .. Len(log) : Ideal'[i] = Ideal[i]
  <1> DEFINE T == {i \in Nat : i \in 0 .. Len(log) /\ Ideal'[i] # Ideal[i]}
  <1>1. /\ Ideal[0] = NewNode
        /\ \A i \in 1 .. Len(log) : Ideal[i] = applyEntry(Ideal[i - 1], i)
    BY IdealDef DEF IdealDefined
  <1>2. LogInv' => IdealDefined'
    BY IdealDef, PTL
  <1>3. /\ Ideal'[0] = NewNode
        /\ \A i \in 1 .. Len(log') : Ideal'[i] = applyEntry(Ideal[i - 1], i)'
    BY <1>2 DEF IdealDefined, NewNode, Bootstrap, Genesis
  <1>4. /\ Len(log) \in Nat /\ Len(log') \in Nat /\ Len(log) <= Len(log')
        /\ \A i \in 1 .. Len(log) : log'[i] = log[i]
    BY SMTT(60) DEF LogInv, LogGrows
  <1>5. T = {}
    <2>1. SUFFICES ASSUME T # {} PROVE FALSE
      OBVIOUS
    <2>2. PICK i \in T : \A k \in T : i <= k
      BY <2>1, LeastNat
    <2>3. i # 0
      BY <1>1, <1>3, <2>2
    <2>4. i \in 1 .. Len(log) /\ i \in 1 .. Len(log') /\ i - 1 \notin T /\ i - 1 \in 0 .. Len(log)
      BY <1>4, <2>2, <2>3, SMTT(60)
    <2>5. Ideal'[i - 1] = Ideal[i - 1]
      BY <1>4, <2>4, SMTT(60)
    <2>6. applyEntry(Ideal[i - 1], i) = applyEntry(Ideal[i - 1], i)'
      <3>1. log'[i] = log[i]
        BY <1>4, <2>4
      <3> QED
        BY <2>5, <3>1 DEF applyEntry, applyNewChainHead, blockExtendsChain, addNode,
           removeNode, removePeer, isRaftIdUsed
    <2> QED
      BY <1>1, <1>3, <2>2, <2>4, <2>6
  <1> QED
    BY <1>4, <1>5, SMTT(60)

-----------------------------------------------------------------------------
(* Snapshots. *)

\* Of some blocks, one has the largest number.
LEMMA LargestNumber ==
  ASSUME LogInv, NEW S \in SUBSET Blocks, S # {}
  PROVE  \E b \in S : \A c \in S : number(c) <= number(b)
  <1> DEFINE L == Len(log)
             T == {L - number(b) : b \in S}
  <1>1. ASSUME NEW b \in S PROVE number(b) \in Nat /\ number(b) <= L
    <2>1. b \in 1 .. L /\ b \in Lost .. L /\ L \in Nat
      BY SMTT(60) DEF Blocks, Lost, LogInv
    <2>2. Chain(b) \subseteq 1 .. b
      BY <2>1, ChainFacts DEF ChainNested
    <2>3. Chain(b) \subseteq 1 .. L
      BY <2>1, <2>2, SMTT(60)
    <2>4. IsFiniteSet(1 .. L) /\ Cardinality(1 .. L) = L
      <3>1. 1 \in Int /\ L \in Int /\ ~(1 > L) /\ L - 1 + 1 = L
        BY <2>1, SMTT(60)
      <3>2. IsFiniteSet(1 .. L) /\ Cardinality(1 .. L) = IF 1 > L THEN 0 ELSE L - 1 + 1
        BY <3>1, FS_Interval
      <3> QED
        BY <3>1, <3>2
    <2>5. IsFiniteSet(Chain(b)) /\ Cardinality(Chain(b)) <= L
      BY <2>3, <2>4, FS_Subset
    <2> QED
      BY <2>5, FS_CardinalityType DEF number
  <1>2. L \in Nat
    BY SMTT(60) DEF LogInv
  <1> HIDE DEF L
  <1>3. T \in SUBSET Nat /\ T # {}
    BY <1>1, <1>2, SMTT(60)
  <1>4. PICK t \in T : \A u \in T : t <= u
    BY <1>3, LeastNat
  <1>5. PICK b \in S : t = L - number(b)
    BY <1>4
  <1>6. ASSUME NEW c \in S PROVE number(c) <= number(b)
    <2>1. L - number(b) <= L - number(c)
      BY <1>4, <1>5
    <2> QED
      BY <1>1, <1>2, <2>1, SMTT(60)
  <1> QED
    BY <1>6

\* updateClusterMembership and the download in applyRaftSnapshot.
LEMMA InstallFacts ==
  ASSUME LogInv, NEW n \in NodeState, NEW s \in SnapState, s.head <= Len(log)
  PROVE  LET m == applyRaftSnapshot(n, s)
         IN  /\ m \in NodeState
             /\ m.conf = s.conf
             /\ m.addrs = (n.addrs \ ((n.conf \ s.conf) \ {Self})) \cup s.conf
             /\ m.removed = s.removed \cup (n.conf \ s.conf)
             /\ IF s.head \in n.known \cup {Genesis}
                THEN m.head = n.head /\ m.known = n.known
                ELSE m.head = s.head /\ m.known = n.known \cup Chain(s.head)
  <1> DEFINE u == updateClusterMembership(n, s)
             m == applyRaftSnapshot(n, s)
  <1>1. /\ u \in NodeState /\ u.head = n.head /\ u.known = n.known /\ u.conf = s.conf
        /\ u.addrs = (n.addrs \ ((n.conf \ s.conf) \ {Self})) \cup s.conf
        /\ u.removed = s.removed \cup (n.conf \ s.conf)
    BY DEF updateClusterMembership, NodeState, SnapState
  <1>2. s.head \in Lost .. Len(log) /\ s.head \in Nat
    BY SMTT(60) DEF SnapState, Lost, LogInv
  <1>3. Chain(s.head) \subseteq Nat
    BY <1>2, ChainFacts, SMTT(60) DEF ChainNested
  <1>4. m = IF s.head \in n.known \cup {Genesis} THEN u
            ELSE [u EXCEPT !.head = s.head, !.known = @ \cup Chain(s.head)]
    BY DEF applyRaftSnapshot
  <1> HIDE DEF u, m
  <1>5. CASE s.head \in n.known \cup {Genesis}
    BY <1>1, <1>4, <1>5 DEF m
  <1>6. CASE s.head \notin n.known \cup {Genesis}
    <2> DEFINE v == [u EXCEPT !.head = s.head, !.known = @ \cup Chain(s.head)]
    <2>1. /\ v \in NodeState /\ v.head = s.head /\ v.known = n.known \cup Chain(s.head)
          /\ v.conf = u.conf /\ v.addrs = u.addrs /\ v.removed = u.removed
      BY <1>1, <1>2, <1>3 DEF NodeState
    <2>2. m = v
      BY <1>4, <1>6
    <2> HIDE DEF v
    <2> QED
      BY <1>1, <1>6, <2>1, <2>2 DEF m
  <1> QED
    BY <1>5, <1>6

\* The blocks that startRaft inserts again.
Seen(n, s) == {b \in Blocks \cap n.known : b > s.index /\ number(b) > number(n.head)}

\* The replay in startRaft.
LEMMA ReplayFacts ==
  ASSUME LogInv, NEW n \in NodeState, NEW s
  PROVE  LET m == replay(n, s)
         IN  /\ m \in NodeState
             /\ m.known = n.known /\ m.conf = n.conf /\ m.addrs = n.addrs /\ m.removed = n.removed
             /\ Seen(n, s) = {} => m.head = n.head
             /\ Seen(n, s) # {} =>
                  m.head \in Seen(n, s) /\ \A c \in Seen(n, s) : number(c) <= number(m.head)
  <1> DEFINE S == Seen(n, s)
             b == CHOOSE c \in S : \A d \in S : number(d) <= number(c)
             m == replay(n, s)
  <1>1. m = IF S = {} THEN n ELSE [n EXCEPT !.head = b]
    BY DEF replay, Seen
  <1>2. S \in SUBSET Blocks
    BY DEF Seen
  <1>3. CASE S = {}
    BY <1>1, <1>3
  <1>4. CASE S # {}
    <2>1. b \in S /\ \A d \in S : number(d) <= number(b)
      <3>1. \E c \in S : \A d \in S : number(d) <= number(c)
        BY <1>2, <1>4, LargestNumber
      <3> HIDE DEF S
      <3> QED
        BY <3>1
    <2>2. b \in Nat
      BY <1>2, <2>1, SMTT(60) DEF Blocks, LogInv
    <2> HIDE DEF b, S
    <2> DEFINE v == [n EXCEPT !.head = b]
    <2>3. /\ v \in NodeState /\ v.head = b /\ v.known = n.known
          /\ v.conf = n.conf /\ v.addrs = n.addrs /\ v.removed = n.removed
      BY <2>2 DEF NodeState
    <2>4. m = v
      BY <1>1, <1>4
    <2> HIDE DEF v
    <2> QED
      BY <1>4, <2>1, <2>3, <2>4 DEF S
  <1> QED
    BY <1>3, <1>4

\* What startRaft makes of a node with state n whose chain has gone back to h.
Restarted(n, h, s, m) ==
  /\ m \in NodeState
  /\ s = NoSnapshot =>
       /\ m.head = h /\ m.known = n.known
       /\ m.conf = {} /\ m.addrs = {} /\ m.removed = {}
  /\ s # NoSnapshot =>
       /\ m.conf = s.conf /\ m.addrs = s.conf /\ m.removed = s.removed
       /\ \E a \in NodeState :
            /\ IF s.head \in n.known \cup {Genesis}
               THEN a.head = h /\ a.known = n.known
               ELSE a.head = s.head /\ a.known = n.known \cup Chain(s.head)
            /\ m.known = a.known
            /\ Seen(a, s) = {} => m.head = a.head
            /\ Seen(a, s) # {} =>
                 m.head \in Seen(a, s) /\ \A c \in Seen(a, s) : number(c) <= number(m.head)

\* startRaft without a snapshot, and with one.
LEMMA StartFacts ==
  ASSUME LogInv, NEW n \in NodeState, NEW h \in Nat, h <= Len(log),
         NEW s \in SnapState, s.head <= Len(log)
  PROVE  Restarted(n, h, s, startRaft([n EXCEPT !.head = h], s))
  <1> DEFINE k == [n EXCEPT !.head = h]
             o == [k EXCEPT !.conf = {}, !.addrs = {}, !.removed = {}]
             a == applyRaftSnapshot(o, s)
             m == startRaft(k, s)
  <1>1. /\ o \in NodeState /\ o.head = h /\ o.known = n.known
        /\ o.conf = {} /\ o.addrs = {} /\ o.removed = {}
    BY DEF NodeState
  <1>2. m = IF s = NoSnapshot THEN o ELSE replay(a, s)
    BY DEF startRaft
  <1> HIDE DEF o
  <1>3. /\ a \in NodeState
        /\ a.conf = s.conf
        /\ a.addrs = (o.addrs \ ((o.conf \ s.conf) \ {Self})) \cup s.conf
        /\ a.removed = s.removed \cup (o.conf \ s.conf)
        /\ IF s.head \in o.known \cup {Genesis}
           THEN a.head = o.head /\ a.known = o.known
           ELSE a.head = s.head /\ a.known = o.known \cup Chain(s.head)
    BY <1>1, InstallFacts
  <1> HIDE DEF a
  <1>4. LET r == replay(a, s)
        IN  /\ r \in NodeState
            /\ r.known = a.known /\ r.conf = a.conf /\ r.addrs = a.addrs /\ r.removed = a.removed
            /\ Seen(a, s) = {} => r.head = a.head
            /\ Seen(a, s) # {} =>
                 r.head \in Seen(a, s) /\ \A c \in Seen(a, s) : number(c) <= number(r.head)
    BY <1>3, ReplayFacts
  <1>5. a.addrs = s.conf /\ a.removed = s.removed
    BY <1>1, <1>3
  <1> HIDE DEF m
  <1>6. CASE s = NoSnapshot
    BY <1>1, <1>2, <1>6 DEF m, Restarted
  <1>7. CASE s # NoSnapshot
    <2>1. m = replay(a, s)
      BY <1>2, <1>7
    <2>2. /\ IF s.head \in n.known \cup {Genesis}
             THEN a.head = h /\ a.known = n.known
             ELSE a.head = s.head /\ a.known = n.known \cup Chain(s.head)
      BY <1>1, <1>3
    <2>3. /\ m \in NodeState
          /\ m.conf = s.conf /\ m.addrs = s.conf /\ m.removed = s.removed
          /\ m.known = a.known
          /\ Seen(a, s) = {} => m.head = a.head
          /\ Seen(a, s) # {} =>
               m.head \in Seen(a, s) /\ \A c \in Seen(a, s) : number(c) <= number(m.head)
      BY <1>3, <1>4, <1>5, <2>1
    <2> QED
      BY <1>3, <1>7, <2>2, <2>3 DEF m, k, Restarted
  <1> QED
    BY <1>6, <1>7

-----------------------------------------------------------------------------
(* The log and the control. *)

\* Raft only appends to the committed log.
LEMMA LogStep ==
  ASSUME LogInv, [Next]_vars
  PROVE  LogInv' /\ LogGrows
  <1>1. CASE log' = log
    BY <1>1, SMTT(60) DEF LogInv, LogGrows
  <1>2. ASSUME NEW e \in Entry, log' = Append(log, e),
               e.kind = "block" => e.parent \in Lost .. Len(log)
        PROVE  LogInv' /\ LogGrows
    <2>1. /\ log' \in Seq(Entry) /\ Len(log') = Len(log) + 1 /\ Len(log) \in Nat \ {0}
          /\ \A i \in 1 .. Len(log) : log'[i] = log[i]
          /\ log'[Len(log) + 1] = e
      BY <1>2, SMTT(60) DEF LogInv
    <2>2. LogGrows
      BY <2>1, SMTT(60) DEF LogGrows
    <2>3. log'[1].kind = "add" /\ Len(log') > 0
      BY <2>1, SMTT(60) DEF LogInv
    <2>4. ASSUME NEW i \in 1 .. Len(log'), log'[i].kind = "block"
          PROVE  log'[i].parent \in Lost .. i - 1
      <3>1. CASE i \in 1 .. Len(log)
        BY <2>1, <2>4, <3>1 DEF LogInv
      <3>2. CASE i = Len(log) + 1
        BY <1>2, <2>1, <2>4, <3>2, SMTT(60)
      <3> QED
        BY <2>1, <3>1, <3>2, SMTT(60)
    <2> QED
      BY <2>1, <2>2, <2>3, <2>4 DEF LogInv
  <1>3. ASSUME NEW parent \in Blocks \cup {Genesis, Lost}, CommitBlock(parent)
        PROVE  LogInv' /\ LogGrows
    <2>1. parent \in Lost .. Len(log)
      BY SMTT(60) DEF Blocks, Genesis, Lost, LogInv
    <2>2. Block(parent) \in Entry /\ Block(parent).parent = parent
      BY <2>1, SMTT(60) DEF Block, Entry, Lost, LogInv
    <2>3. log' = Append(log, Block(parent))
      BY <1>3 DEF CommitBlock
    <2> QED
      BY <1>2, <2>1, <2>2, <2>3
  <1>4. ASSUME NEW kind \in {"add", "remove"}, NEW id \in Node, CommitChange(kind, id)
        PROVE  LogInv' /\ LogGrows
    <2>1. Change(kind, id) \in Entry /\ Change(kind, id).kind # "block"
      BY DEF Change, Entry
    <2>2. log' = Append(log, Change(kind, id))
      BY <1>4 DEF CommitChange
    <2> QED
      BY <1>2, <2>1, <2>2
  <1>5. CASE Apply \/ (\E i \in 1 .. Len(log) : SaveRaftSnapshot(i)) \/ ApplyRaftSnapshot
    BY <1>1, <1>5 DEF Apply, SaveRaftSnapshot, ApplyRaftSnapshot
  <1>6. CASE AdvanceAppliedIndex \/ MaybeTriggerSnapshot \/ EntriesToApplyFatal \/ Exit
    BY <1>1, <1>6 DEF AdvanceAppliedIndex, MaybeTriggerSnapshot, EntriesToApplyFatal, Exit
  <1>7. CASE \E h \in Chain(node.head) \cup {Genesis} : Crash(h)
    BY <1>1, <1>7 DEF Crash
  <1>8. CASE UNCHANGED vars
    BY <1>1, <1>8 DEF vars
  <1> QED
    BY <1>3, <1>4, <1>5, <1>6, <1>7, <1>8 DEF Next

\* A block that the state of the chain can go back to.
LEMMA HeadFacts ==
  ASSUME LogInv, Control, NEW h \in Chain(node.head) \cup {Genesis}
  PROVE  h \in Nat /\ h <= Len(log)
  <1>1. node.head \in Lost .. Len(log) /\ node.head \in Nat /\ Len(log) \in Nat
    BY SMTT(60) DEF Control, NodeState, Lost, LogInv
  <1>2. Chain(node.head) \subseteq 1 .. node.head
    BY <1>1, ChainFacts DEF ChainNested
  <1> QED
    BY <1>1, <1>2, SMTT(60) DEF Control, Genesis

\* A snapshot of a node.
LEMMA BuildFacts ==
  ASSUME NEW n \in NodeState, NEW i \in Nat
  PROVE  LET s == buildSnapshot(n, i)
         IN  /\ s \in SnapState /\ s.index = i /\ s.head = n.head
             /\ s.conf = n.conf /\ s.removed = n.removed
             /\ i # 0 => s # NoSnapshot
  BY DEF buildSnapshot, NodeState, SnapState, NoSnapshot

\* eventLoop applies an entry.
LEMMA ApplyControl ==
  ASSUME LogInv, Control, Apply
  PROVE  Control'
  <1> DEFINE i == applied + 1
             n == applyEntry(node, i)
  <1>1. /\ run \in {"up", "leaving"} /\ pending = 0
        /\ i <= Len(log) /\ snap.index <= applied
        /\ node' = n /\ pending' = i /\ UNCHANGED <<log, applied, crashes>>
        /\ snap' = IF forceSnapshot(node, i) /\ hasAddresses(n) THEN buildSnapshot(n, i) ELSE snap
    BY DEF Apply
  <1>2. run' = IF forceSnapshot(node, i) /\ ~hasAddresses(n) THEN "panic"
              ELSE IF Self \in n.removed \ node.removed THEN "leaving" ELSE run
    BY DEF Apply
  <1>3. i \in 1 .. Len(log) /\ i \in Nat /\ applied \in Nat
    BY <1>1, SMTT(60) DEF Control, LogInv
  <1>4. n \in NodeState /\ EntryApplied(node, n, i)
    BY <1>3, ApplyFacts DEF Control
  <1>5. n.head <= Len(log)
    <2>1. n.head = node.head \/ n.head = i
      BY <1>4 DEF EntryApplied
    <2> QED
      BY <1>1, <2>1 DEF Control
  <1> HIDE DEF n
  <1>6. /\ run' \in {"panic", "leaving", run}
        /\ forceSnapshot(node, i) /\ ~hasAddresses(n) => run' = "panic"
    BY <1>2
  <1>7. /\ buildSnapshot(n, i) \in SnapState /\ buildSnapshot(n, i).index = i
        /\ buildSnapshot(n, i).head = n.head /\ buildSnapshot(n, i) # NoSnapshot
    BY <1>3, <1>4, BuildFacts, SMTT(60)
  <1>8. snap' = NoSnapshot => applied = 0 /\ n.removed = {} /\ run' = "panic"
    <2> SUFFICES ASSUME snap' = NoSnapshot PROVE applied = 0 /\ n.removed = {} /\ run' = "panic"
      OBVIOUS
    <2>1. snap' = snap /\ ~(forceSnapshot(node, i) /\ hasAddresses(n))
      BY <1>1, <1>7
    <2>2. applied = 0 /\ node.removed = {} /\ i = 1
      BY <2>1, SMTT(60) DEF Control
    <2>3. log[i].kind = "add"
      BY <2>2 DEF LogInv
    <2>4. n.removed = node.removed /\ forceSnapshot(node, i)
      BY <1>4, <2>2, <2>3 DEF EntryApplied, forceSnapshot
    <2> QED
      BY <1>6, <2>1, <2>2, <2>4
  <1>9. /\ snap' \in SnapState /\ snap'.head <= Len(log) /\ snap'.index \in 0 .. Len(log)
        /\ snap'.index <= applied \/ snap'.index = i
    BY <1>1, <1>3, <1>5, <1>7, SMTT(60) DEF Control
  <1>10. /\ node' \in NodeState /\ crashes' \in Nat /\ node'.head <= Len(log')
        /\ run' \in {"up", "leaving", "panic"} /\ applied' \in 0 .. Len(log')
        /\ pending' \in applied' + 1 .. Len(log') /\ pending' = applied' + 1
    BY <1>1, <1>3, <1>4, <1>5, <1>6, SMTT(60) DEF Control, LogInv
  <1>11. snap'.index > applied' => pending' = snap'.index
    BY <1>1, <1>3, <1>9, SMTT(60) DEF SnapState
  <1> QED
    BY <1>1, <1>8, <1>9, <1>10, <1>11, SMTT(60) DEF Control

\* A snapshot of the leader is saved, then installed.
LEMMA InstallControl ==
  ASSUME LogInv, Control,
         (\E i \in 1 .. Len(log) : SaveRaftSnapshot(i)) \/ ApplyRaftSnapshot
  PROVE  Control'
  <1>1. ASSUME NEW i \in 1 .. Len(log), SaveRaftSnapshot(i) PROVE Control'
    <2>1. i \in 0 .. Len(log) /\ i \in Nat \ {0} /\ Len(log) \in Nat
      BY SMTT(60) DEF LogInv
    <2>2. Ideal[i] \in NodeState /\ Ideal[i].head \in 0 .. i
      BY <2>1, IdealFacts DEF IdealInv
    <2>3. /\ buildSnapshot(Ideal[i], i) \in SnapState /\ buildSnapshot(Ideal[i], i).index = i
          /\ buildSnapshot(Ideal[i], i).head = Ideal[i].head
          /\ buildSnapshot(Ideal[i], i) # NoSnapshot
      BY <2>1, <2>2, BuildFacts
    <2>4. /\ i > applied /\ snap' = buildSnapshot(Ideal[i], i) /\ pending' = i
          /\ run' = "installing" /\ UNCHANGED <<log, node, applied, crashes>>
      BY <1>1 DEF SaveRaftSnapshot
    <2>5. /\ snap' \in SnapState /\ snap'.index = i /\ snap'.head \in 0 .. i /\ snap' # NoSnapshot
      BY <2>2, <2>3, <2>4
    <2>6. i \in applied + 1 .. Len(log) /\ i \in 0 .. Len(log) /\ snap'.head <= Len(log)
      BY <2>1, <2>4, <2>5, SMTT(60) DEF Control
    <2> QED
      BY <2>1, <2>4, <2>5, <2>6 DEF Control
  <1>2. CASE ApplyRaftSnapshot
    <2> DEFINE m == applyRaftSnapshot(node, snap)
    <2>1. /\ run = "installing" /\ node' = m /\ run' = "up"
          /\ UNCHANGED <<log, applied, pending, snap, crashes>>
      BY <1>2 DEF ApplyRaftSnapshot
    <2>2. m \in NodeState /\ (m.head = node.head \/ m.head = snap.head)
      BY InstallFacts DEF Control
    <2>3. m.head <= Len(log)
      BY <2>2 DEF Control
    <2>4. snap # NoSnapshot
      BY <2>1 DEF Control
    <2> HIDE DEF m
    <2> QED
      BY <2>1, <2>2, <2>3, <2>4 DEF Control
  <1> QED
    BY <1>1, <1>2

\* The process dies and starts again.
LEMMA CrashControl ==
  ASSUME LogInv, Control, NEW h \in Chain(node.head) \cup {Genesis}, Crash(h)
  PROVE  Control'
  <1> DEFINE m == startRaft([node EXCEPT !.head = h], snap)
  <1>1. /\ node' = m /\ pending' = 0 /\ run' = "up" /\ crashes' = crashes + 1
        /\ UNCHANGED <<log, applied, snap>>
    BY DEF Crash
  <1>2. h \in Nat /\ h <= Len(log)
    BY HeadFacts
  <1>3. node \in NodeState /\ snap \in SnapState /\ snap.head <= Len(log)
    BY DEF Control
  <1>4. /\ m \in NodeState
        /\ snap = NoSnapshot => m.head = h /\ m.removed = {}
        /\ snap # NoSnapshot =>
             \E a \in NodeState : /\ a.head = h \/ a.head = snap.head
                                  /\ m.head = a.head \/ m.head \in Seen(a, snap)
    <2>1. Restarted(node, h, snap, m)
      BY <1>2, <1>3, StartFacts
    <2> HIDE DEF m
    <2> QED
      BY <2>1 DEF Restarted
  <1> HIDE DEF m
  <1>5. m.head <= Len(log)
    <2>1. \A a : Seen(a, snap) \subseteq 1 .. Len(log)
      BY SMTT(60) DEF Seen, Blocks, LogInv
    <2> QED
      BY <1>2, <1>3, <1>4, <2>1, SMTT(60)
  <1>6. crashes' \in Nat /\ crashes' > 0
    BY <1>1, SMTT(60) DEF Control
  <1> QED
    BY <1>1, <1>4, <1>5, <1>6 DEF Control

\* The pending entry and the applied index, at every step.
LEMMA ControlStep ==
  ASSUME LogInv, Control, [Next]_vars
  PROVE  Control'
  <1>0. LogInv' /\ LogGrows
    BY LogStep
  <1>1. Len(log) \in Nat /\ Len(log') \in Nat /\ Len(log) <= Len(log')
    BY <1>0, SMTT(60) DEF LogInv, LogGrows
  <1>2. CASE UNCHANGED <<node, applied, pending, snap, run, crashes>>
    <2>1. /\ 0 .. Len(log) \subseteq 0 .. Len(log')
          /\ applied \in Nat => applied + 1 .. Len(log) \subseteq applied + 1 .. Len(log')
      BY <1>1, SMTT(60)
    <2>2. node.head <= Len(log') /\ snap.head <= Len(log')
      BY <1>1, SMTT(60) DEF Control, NodeState, SnapState
    <2>3. applied \in Nat
      BY <1>1, SMTT(60) DEF Control
    <2> QED
      BY <1>2, <2>1, <2>2, <2>3 DEF Control
  <1>3. ASSUME NEW parent \in Blocks \cup {Genesis, Lost}, CommitBlock(parent)
        PROVE  Control'
    BY <1>2, <1>3 DEF CommitBlock
  <1>4. ASSUME NEW kind \in {"add", "remove"}, NEW id \in Node, CommitChange(kind, id)
        PROVE  Control'
    BY <1>2, <1>4 DEF CommitChange
  <1>5. CASE Apply
    BY <1>5, ApplyControl
  <1>6. CASE (\E i \in 1 .. Len(log) : SaveRaftSnapshot(i)) \/ ApplyRaftSnapshot
    BY <1>6, InstallControl
  <1>7. CASE AdvanceAppliedIndex
    <2>1. pending' = 0 /\ applied' = pending /\ pending # 0 /\ run \in {"up", "leaving"}
          /\ UNCHANGED <<log, node, snap, run, crashes>>
      BY <1>7 DEF AdvanceAppliedIndex
    <2>2. pending \in 0 .. Len(log) /\ pending > applied
      BY <1>1, <2>1, SMTT(60) DEF Control
    <2>3. snap.index > pending => crashes > 0
      BY <1>1, <2>1, <2>2, SMTT(60) DEF Control
    <2>4. snap # NoSnapshot
      BY <2>1 DEF Control
    <2> QED
      BY <2>1, <2>2, <2>3, <2>4 DEF Control
  <1>8. CASE MaybeTriggerSnapshot
    <2>1. /\ pending = 0 /\ run' \in {run, "panic"} /\ run \in {"up", "leaving"}
          /\ \/ snap' = snap
             \/ snap.index <= applied /\ snap' = buildSnapshot(node, applied)
          /\ UNCHANGED <<log, node, applied, pending, crashes>>
      BY <1>8 DEF MaybeTriggerSnapshot
    <2>2. CASE snap' = snap
      BY <2>1, <2>2 DEF Control
    <2>3. CASE snap' = buildSnapshot(node, applied)
      <3>1. /\ snap' \in SnapState /\ snap'.index = applied /\ snap'.head = node.head
            /\ snap'.removed = node.removed
        BY <1>1, <2>3, BuildFacts, SMTT(60) DEF Control
      <3>2. snap' = NoSnapshot => applied = 0 /\ node.removed = {}
        BY <3>1, SMTT(60) DEF NoSnapshot
      <3>3. ~(snap'.index > applied)
        BY <1>1, <3>1, SMTT(60) DEF Control
      <3> QED
        BY <2>1, <3>1, <3>2, <3>3 DEF Control
    <2> QED
      BY <2>1, <2>2, <2>3
  <1>9. CASE EntriesToApplyFatal \/ Exit
    <2>1. /\ pending = 0 /\ run' \in {"fatal", "exit"}
          /\ UNCHANGED <<log, node, applied, pending, snap, crashes>>
      BY <1>9 DEF EntriesToApplyFatal, Exit
    <2> QED
      BY <2>1 DEF Control
  <1>10. ASSUME NEW h \in Chain(node.head) \cup {Genesis}, Crash(h)
         PROVE  Control'
    BY <1>10, CrashControl
  <1>11. CASE UNCHANGED vars
    BY <1>2, <1>11 DEF vars
  <1> QED
    BY <1>3, <1>4, <1>5, <1>6, <1>7, <1>8, <1>9, <1>10, <1>11 DEF Next

-----------------------------------------------------------------------------
(* The chain. *)

\* The prefixes that the node can stand for are prefixes of the log.
LEMMA ReachedFacts ==
  ASSUME LogInv, Control
  PROVE  /\ Reached \subseteq 0 .. Len(log) /\ applied \in Nat /\ snap.index \in Nat /\ Len(log) \in Nat
         /\ pending # 0 /\ run # "installing" => Reached = {pending}
         /\ ~(pending # 0 /\ run # "installing") =>
              Reached = {i \in applied .. Len(log) : i <= applied + 1 \/ i <= snap.index}
  <1>1. applied \in Nat /\ snap.index \in Nat /\ Len(log) \in Nat
    BY SMTT(60) DEF Control, LogInv
  <1>2. pending # 0 => pending \in 0 .. Len(log)
    BY <1>1, SMTT(60) DEF Control
  <1> QED
    BY <1>1, <1>2, SMTT(60) DEF Reached

\* A later state that stands for a prefix of the log keeps the invariant.
LEMMA ChainNext ==
  ASSUME LogInv, LogInv', LogGrows, NEW p \in 0 .. Len(log), p \in Reached',
         node'.head = Ideal[p].head, node'.known = Ideal[p].known,
         snap'.index \in 0 .. Len(log),
         \/ snap'.head = Ideal[snap'.index].head
         \/ snap'.head = snap'.index + 1 /\ snap'.head \in node'.known
  PROVE  ChainInv'
  <1>1. Ideal'[p] = Ideal[p] /\ Ideal'[snap'.index] = Ideal[snap'.index]
    BY IdealKept
  <1> QED
    BY <1>1 DEF ChainInv

\* A step that leaves the chain and the snapshot alone.
LEMMA ChainSame ==
  ASSUME LogInv, LogInv', LogGrows, Control, ChainInv,
         node'.head = node.head, node'.known = node.known, snap' = snap,
         Reached \subseteq Reached'
  PROVE  ChainInv'
  <1>1. PICK p \in Reached : node.head = Ideal[p].head /\ node.known = Ideal[p].known
    BY DEF ChainInv
  <1>2. p \in 0 .. Len(log) /\ snap.index \in 0 .. Len(log)
    BY ReachedFacts DEF Control
  <1>3. \/ snap.head = Ideal[snap.index].head
        \/ snap.head = snap.index + 1 /\ snap.head \in node.known
    BY DEF ChainInv
  <1>4. p \in Reached'
    BY <1>1
  <1> QED
    BY <1>1, <1>2, <1>3, <1>4, ChainNext

\* eventLoop applies an entry: the block that it finds in the database is one
\* that it applied before a crash.
LEMMA ApplyChain ==
  ASSUME LogInv, LogInv', LogGrows, Control, ChainInv, Apply
  PROVE  ChainInv'
  <1> DEFINE i == applied + 1
             n == applyEntry(node, i)
  <1>1. /\ run \in {"up", "leaving"} /\ pending = 0
        /\ i <= Len(log) /\ snap.index <= applied
        /\ node' = n /\ pending' = i
        /\ snap' = IF forceSnapshot(node, i) /\ hasAddresses(n) THEN buildSnapshot(n, i) ELSE snap
    BY DEF Apply
  <1>2. i \in 1 .. Len(log) /\ i \in Nat /\ applied \in Nat /\ i - 1 = applied /\ i # 0
    BY <1>1, SMTT(60) DEF Control, LogInv
  <1>3. n \in NodeState /\ EntryApplied(node, n, i)
    BY <1>2, ApplyFacts DEF Control
  <1>4. EntryApplied(Ideal[applied], Ideal[i], i)
    BY <1>2, IdealFacts DEF IdealInv
  <1>5. run' # "installing"
    BY <1>1 DEF Apply
  <1>6. Reached' = {i}
    BY <1>1, <1>2, <1>5 DEF Reached
  <1>7. PICK p \in Reached : node.head = Ideal[p].head /\ node.known = Ideal[p].known
    BY DEF ChainInv
  <1> HIDE DEF n
  <1>8. p = applied \/ p = i
    BY <1>1, <1>2, <1>7, ReachedFacts, SMTT(60)
  <1>9. n.head = Ideal[i].head /\ n.known = Ideal[i].known
    <2>1. CASE log[i].kind # "block"
      BY <1>3, <1>4, <1>7, <1>8, <2>1 DEF EntryApplied
    <2>2. CASE log[i].kind = "block"
      <3>1. IF i \in node.known \/ log[i].parent # node.head
            THEN n.head = node.head /\ n.known = node.known
            ELSE n.head = i /\ n.known = node.known \cup {i}
        BY <1>3, <2>2 DEF EntryApplied
      <3>2. IF i \in Ideal[applied].known \/ log[i].parent # Ideal[applied].head
            THEN Ideal[i].head = Ideal[applied].head /\ Ideal[i].known = Ideal[applied].known
            ELSE Ideal[i].head = i /\ Ideal[i].known = Ideal[applied].known \cup {i}
        BY <1>4, <2>2 DEF EntryApplied
      <3> HIDE DEF i
      <3> QED
        BY <1>7, <1>8, <3>1, <3>2
    <2> QED
      BY <2>1, <2>2
  <1>10. node.known \subseteq n.known
    BY <1>3, EntryFacts, <1>2 DEF EntryApplied
  <1>11. /\ snap'.index \in 0 .. Len(log)
         /\ \/ snap'.head = Ideal[snap'.index].head
            \/ snap'.head = snap'.index + 1 /\ snap'.head \in node'.known
    <2>1. CASE snap' = snap
      BY <1>1, <1>10, <2>1 DEF ChainInv, Control
    <2>2. CASE snap' = buildSnapshot(n, i)
      <3>1. snap'.index = i /\ snap'.head = n.head
        BY <1>2, <1>3, <2>2, BuildFacts
      <3> QED
        BY <1>2, <1>9, <3>1, SMTT(60)
    <2> QED
      BY <1>1, <2>1, <2>2
  <1>12. i \in 0 .. Len(log) /\ i \in Reached' /\ node'.head = Ideal[i].head /\ node'.known = Ideal[i].known
    BY <1>1, <1>2, <1>6, <1>9, SMTT(60)
  <1> HIDE DEF i
  <1> QED
    BY <1>11, <1>12, ChainNext

\* A snapshot of the leader is of a later prefix than any that the node can
\* stand for.
LEMMA SaveChain ==
  ASSUME LogInv, LogInv', LogGrows, Control, ChainInv,
         NEW i \in 1 .. Len(log), SaveRaftSnapshot(i)
  PROVE  ChainInv'
  <1>1. /\ run = "up" /\ pending = 0 /\ i > applied /\ i > snap.index
        /\ snap' = buildSnapshot(Ideal[i], i) /\ pending' = i /\ run' = "installing"
        /\ UNCHANGED <<log, node, applied>>
    BY DEF SaveRaftSnapshot
  <1>2. i \in 0 .. Len(log) /\ i \in Nat
    BY SMTT(60) DEF LogInv
  <1>3. Ideal[i] \in NodeState
    BY <1>2, IdealFacts DEF IdealInv
  <1>4. snap'.index = i /\ snap'.head = Ideal[i].head
    BY <1>1, <1>2, <1>3, BuildFacts
  <1>5. PICK p \in Reached : node.head = Ideal[p].head /\ node.known = Ideal[p].known
    BY DEF ChainInv
  <1>6. p \in applied .. Len(log) /\ (p <= applied + 1 \/ p <= snap.index)
        /\ applied \in Nat /\ snap.index \in Nat /\ Len(log) \in Nat
    BY <1>1, <1>5, ReachedFacts
  <1>7. Reached' = {q \in applied .. Len(log) : q <= applied + 1 \/ q <= i}
    BY <1>1, <1>4 DEF Reached
  <1>8. p \in Reached' /\ p \in 0 .. Len(log)
    BY <1>1, <1>2, <1>6, <1>7, SMTT(60)
  <1> QED
    BY <1>1, <1>2, <1>4, <1>5, <1>8, ChainNext

\* applyRaftSnapshot: the chain becomes that of the snapshot, whether it is
\* downloaded or was there already.
LEMMA InstallChain ==
  ASSUME LogInv, LogInv', LogGrows, Control, ChainInv, ApplyRaftSnapshot
  PROVE  ChainInv'
  <1> DEFINE m == applyRaftSnapshot(node, snap)
             s == snap.index
  <1>1. /\ run = "installing" /\ node' = m /\ run' = "up"
        /\ UNCHANGED <<log, applied, pending, snap>>
    BY DEF ApplyRaftSnapshot
  <1>2. /\ m.known = IF snap.head \in node.known \cup {Genesis} THEN node.known
                     ELSE node.known \cup Chain(snap.head)
        /\ m.head = IF snap.head \in node.known \cup {Genesis} THEN node.head ELSE snap.head
    BY InstallFacts DEF Control
  <1> HIDE DEF m
  <1>3. pending = s /\ pending # 0 /\ s \in 0 .. Len(log) /\ s > applied
    BY <1>1, SMTT(60) DEF Control, LogInv
  <1>4. PICK p \in Reached : node.head = Ideal[p].head /\ node.known = Ideal[p].known
    BY DEF ChainInv
  <1>5. p \in 0 .. s /\ p \in 0 .. Len(log)
    BY <1>1, <1>3, <1>4, ReachedFacts, SMTT(60)
  <1>6. /\ Ideal[p].head <= Ideal[s].head /\ Ideal[p].known \subseteq Ideal[s].known
        /\ Ideal[p].head \in 0 .. p /\ Ideal[s].head \in 0 .. s
        /\ Ideal[p].known \subseteq 1 .. Ideal[p].head
        /\ Ideal[p].known = Chain(Ideal[p].head) /\ Ideal[s].known = Chain(Ideal[s].head)
    BY <1>3, <1>5, IdealFacts DEF IdealInv
  <1>7. snap.head = Ideal[s].head
    <2>1. s + 1 \notin Ideal[p].known
      BY <1>3, <1>5, <1>6, SMTT(60)
    <2> QED
      BY <1>4, <2>1 DEF ChainInv
  <1> HIDE DEF s
  <1>8. m.head = Ideal[s].head /\ m.known = Ideal[s].known
    <2>1. CASE snap.head \in node.known \cup {Genesis}
      <3>1. Ideal[s].head <= Ideal[p].head
        BY <1>4, <1>6, <1>7, <2>1, SMTT(60) DEF Genesis
      <3>2. Ideal[s].head = Ideal[p].head
        BY <1>3, <1>5, <1>6, <3>1, SMTT(60)
      <3> QED
        BY <1>2, <1>4, <1>6, <2>1, <3>2
    <2>2. CASE snap.head \notin node.known \cup {Genesis}
      BY <1>2, <1>4, <1>6, <1>7, <2>2
    <2> QED
      BY <2>1, <2>2
  <1>9. s \in Reached'
    BY <1>1, <1>3 DEF Reached
  <1> QED
    BY <1>1, <1>3, <1>7, <1>8, <1>9, ChainNext DEF s

\* What startRaft makes of the chain: it keeps the head, or takes that of a
\* snapshot whose blocks were missing.  A head that was committed after the
\* snapshot comes back through the replay, because the database still has it.
LEMMA RestartChain ==
  ASSUME ~CanRewind, LogInv, Control, ChainInv,
         NEW h \in Chain(node.head) \cup {Genesis}, Crash(h),
         NEW p \in Reached, node.head = Ideal[p].head, node.known = Ideal[p].known
  PROVE  /\ snap'.head \in node'.known \cup {Genesis}
         /\ \/ node'.head = node.head /\ node'.known = node.known
            \/ /\ snap.index > p /\ node.head <= snap.index
               /\ node'.head = Ideal[snap.index].head
               /\ node'.known = Ideal[snap.index].known
  <1> DEFINE m == startRaft([node EXCEPT !.head = h], snap)
             s == snap.index
  <1>1. /\ node' = m /\ snap' = snap
        /\ h = node.head \/ node.head > snap.index
    BY DEF Crash
  <1>2. h \in Nat /\ h <= Len(log)
    BY HeadFacts
  <1>3. /\ node \in NodeState /\ snap \in SnapState /\ snap.head <= Len(log)
        /\ s \in 0 .. Len(log) /\ s \in Nat /\ Len(log) \in Nat
    BY SMTT(60) DEF Control, LogInv
  <1>4. Restarted(node, h, snap, m)
    BY <1>2, <1>3, StartFacts
  <1> HIDE DEF m
  <1>5. p \in 0 .. Len(log)
    BY ReachedFacts
  <1>6. /\ Ideal[p].head \in 0 .. p /\ Ideal[s].head \in 0 .. s
        /\ Ideal[p].head = 0 \/ Ideal[p].head \in Ideal[p].known
        /\ Ideal[s].head = 0 \/ Ideal[s].head \in Ideal[s].known
        /\ Ideal[p].known \subseteq 1 .. Ideal[p].head
        /\ Ideal[s].known \subseteq 1 .. Ideal[s].head
        /\ Ideal[p].known = Chain(Ideal[p].head) /\ Ideal[s].known = Chain(Ideal[s].head)
    BY <1>3, <1>5, IdealFacts DEF IdealInv
  <1>7. CASE snap = NoSnapshot
    <2>1. p = 0 \/ p = 1
      <3>1. applied = 0 /\ s = 0 /\ (pending = 0 \/ pending = 1)
        BY <1>7 DEF Control, NoSnapshot
      <3> QED
        BY <3>1, ReachedFacts, SMTT(60)
    <2>2. Ideal[0].head = 0 /\ Ideal[1].head = 0
      <3>1. 1 \in 1 .. Len(log) /\ log[1].kind = "add"
        BY SMTT(60) DEF LogInv
      <3>2. Ideal[0] = NewNode /\ EntryApplied(Ideal[0], Ideal[1], 1)
        <4>1. EntryApplied(Ideal[1 - 1], Ideal[1], 1) /\ Ideal[0] = NewNode
          BY <3>1, IdealFacts DEF IdealInv
        <4> QED
          BY <4>1, SMTT(60)
      <3>3. Ideal[0].head = 0
        BY <3>2, SMTT(60) DEF NewNode, Genesis
      <3> QED
        BY <3>1, <3>2, <3>3 DEF EntryApplied
    <2>3. node.head = 0
      BY <2>1, <2>2
    <2>4. h = 0
      BY <1>6, <2>3, SMTT(60) DEF Genesis
    <2>5. m.head = h /\ m.known = node.known
      BY <1>4, <1>7 DEF Restarted
    <2>6. snap.head = Genesis
      BY <1>7 DEF NoSnapshot
    <2> QED
      BY <1>1, <2>3, <2>4, <2>5, <2>6
  <1>8. CASE snap # NoSnapshot
    <2>1. PICK a \in NodeState :
            /\ IF snap.head \in node.known \cup {Genesis}
               THEN a.head = h /\ a.known = node.known
               ELSE a.head = snap.head /\ a.known = node.known \cup Chain(snap.head)
            /\ m.known = a.known
            /\ Seen(a, snap) = {} => m.head = a.head
            /\ Seen(a, snap) # {} =>
                 m.head \in Seen(a, snap) /\ \A c \in Seen(a, snap) : number(c) <= number(m.head)
      BY <1>4, <1>8 DEF Restarted
    <2>2. CASE snap.head \in node.known \cup {Genesis}
      <3>1. a.head = h /\ a.known = node.known
        BY <2>1, <2>2
      <3>2. CASE node.head <= s
        <4>1. h = node.head
          BY <1>1, <1>3, <3>2, SMTT(60) DEF NodeState
        <4>2. Seen(a, snap) = {}
          <5>1. \A b \in node.known : b <= s
            BY <1>3, <1>6, <3>2, SMTT(60)
          <5> QED
            BY <1>3, <1>6, <3>1, <5>1, SMTT(60) DEF Seen
        <4> QED
          BY <1>1, <2>1, <2>2, <3>1, <4>1, <4>2
      <3>3. CASE node.head > s
        <4>1. node.head \in node.known /\ node.head \in 0 .. Len(log)
          BY <1>3, <1>5, <1>6, <3>3, SMTT(60)
        <4>2. node.known = Chain(node.head)
          BY <1>6
        <4>3. node.head \in Blocks
          <5>1. node.head \in Lost .. Len(log)
            BY <4>1, SMTT(60) DEF Lost
          <5> QED
            BY <4>1, <4>2, <5>1, ChainFacts DEF ChainNested
        <4>4. \A b \in node.known : b # node.head => number(b) < number(node.head)
          BY <4>1, <4>2, NumberGrows
        <4>5. \A b \in Blocks : number(b) \in Int
          <5> TAKE b \in Blocks
          <5>1. b \in Lost .. Len(log) /\ b \in Int
            BY SMTT(60) DEF Blocks, LogInv, Lost
          <5>2. Chain(b) \subseteq 1 .. b /\ IsFiniteSet(1 .. b)
            BY <5>1, ChainFacts, FS_Interval, SMTT(60) DEF ChainNested
          <5>3. IsFiniteSet(Chain(b))
            BY <5>2, FS_Subset
          <5> QED
            BY <5>3, FS_CardinalityType, SMTT(60) DEF number
        <4>6. CASE h = node.head
          <5>1. \A b \in Blocks \cap node.known : ~(number(b) > number(node.head))
            BY <4>3, <4>4, <4>5, SMTT(60)
          <5>2. Seen(a, snap) = {}
            BY <3>1, <4>6, <5>1 DEF Seen
          <5> QED
            BY <1>1, <2>1, <2>2, <3>1, <4>6, <5>2
        <4>7. CASE h # node.head
          <5>1. number(h) < number(node.head)
            <6>1. CASE h = Genesis
              <7>1. Chain(h) = {}
                <8>1. h \in Lost .. Len(log) /\ h \notin Blocks
                  BY <1>3, <6>1, SMTT(60) DEF Genesis, Lost, Blocks, LogInv
                <8> QED
                  BY <8>1, ChainDef DEF ChainDefined
              <7>2. number(h) = 0
                BY <7>1, FS_EmptySet DEF number
              <7>3. IsFiniteSet(Chain(node.head)) /\ Chain(node.head) # {}
                <8>1. Chain(node.head) \subseteq 1 .. node.head /\ IsFiniteSet(1 .. node.head)
                  BY <1>6, <4>1, FS_Interval, SMTT(60)
                <8> QED
                  BY <4>1, <4>2, <8>1, FS_Subset
              <7>4. Cardinality(Chain(node.head)) \in Nat /\ Cardinality(Chain(node.head)) # 0
                BY <7>3, FS_CardinalityType, FS_EmptySet
              <7> QED
                BY <7>2, <7>4, SMTT(60) DEF number
            <6>2. CASE h \in Chain(node.head)
              BY <4>2, <4>4, <4>7, <6>2
            <6> QED
              BY <6>1, <6>2
          <5>2. node.head \in Seen(a, snap)
            <6>1. number(node.head) > number(a.head)
              <7>1. number(h) \in Int /\ number(node.head) \in Int
                <8>1. CASE h = Genesis
                  <9>1. h \in Lost .. Len(log) /\ h \notin Blocks
                    BY <1>3, <8>1, SMTT(60) DEF Genesis, Lost, Blocks, LogInv
                  <9>2. Chain(h) = {}
                    BY <9>1, ChainDef DEF ChainDefined
                  <9> QED
                    BY <4>3, <4>5, <9>2, FS_EmptySet, SMTT(60) DEF number
                <8>2. CASE h \in Chain(node.head)
                  <9>1. node.head \in Lost .. Len(log)
                    BY <4>1, SMTT(60) DEF Lost
                  <9>2. h \in Blocks
                    BY <8>2, <9>1, ChainFacts DEF ChainNested
                  <9> QED
                    BY <4>3, <4>5, <9>2
                <8> QED
                  BY <8>1, <8>2
              <7> QED
                BY <3>1, <5>1, <7>1
            <6> QED
              BY <3>1, <3>3, <4>1, <4>3, <6>1 DEF Seen
          <5>3. m.head \in Seen(a, snap) /\ number(node.head) <= number(m.head)
            BY <2>1, <5>2
          <5>4. m.head \in node.known /\ m.head \in Blocks
            BY <3>1, <5>3 DEF Seen
          <5>5. m.head = node.head
            BY <4>3, <4>4, <4>5, <5>3, <5>4, SMTT(60)
          <5> QED
            BY <1>1, <2>1, <2>2, <3>1, <5>5
        <4> QED
          BY <4>6, <4>7
      <3> QED
        BY <1>3, <3>2, <3>3, SMTT(60) DEF NodeState
    <2>3. CASE snap.head \notin node.known \cup {Genesis}
      <3>1. snap.head = Ideal[s].head
        BY <2>3 DEF ChainInv
      <3>2. s > p
        <4>1. s <= p => Ideal[s].known \subseteq Ideal[p].known
          BY <1>3, <1>5, IdealFacts, SMTT(60) DEF IdealInv
        <4> QED
          BY <1>3, <1>5, <1>6, <2>3, <3>1, <4>1, SMTT(60) DEF Genesis
      <3>3. Ideal[p].known \subseteq Ideal[s].known
        BY <1>3, <1>5, <3>2, IdealFacts, SMTT(60) DEF IdealInv
      <3>4. a.head = Ideal[s].head /\ a.known = Ideal[s].known
        BY <1>6, <2>1, <2>3, <3>1, <3>3
      <3>5. Seen(a, snap) = {}
        <4>1. \A b \in Ideal[s].known : ~(b > s)
          BY <1>3, <1>6, SMTT(60)
        <4> QED
          BY <3>4, <4>1 DEF Seen
      <3>6. m.head = Ideal[s].head /\ m.known = Ideal[s].known
        BY <2>1, <3>4, <3>5
      <3>7. node.head <= s
        BY <1>3, <1>5, <1>6, <3>2, SMTT(60)
      <3>8. snap.head \in m.known
        BY <1>6, <2>3, <3>1, <3>6 DEF Genesis
      <3> QED
        BY <1>1, <3>2, <3>6, <3>7, <3>8
    <2> QED
      BY <2>2, <2>3
  <1> QED
    BY <1>7, <1>8

\* A crash and startRaft.
LEMMA CrashChain ==
  ASSUME ~CanRewind, LogInv, LogInv', LogGrows, Control, ChainInv,
         NEW h \in Chain(node.head) \cup {Genesis}, Crash(h)
  PROVE  ChainInv'
  <1> DEFINE s == snap.index
  <1>1. PICK p \in Reached : node.head = Ideal[p].head /\ node.known = Ideal[p].known
    BY DEF ChainInv
  <1>2. /\ snap'.head \in node'.known \cup {Genesis}
        /\ \/ node'.head = node.head /\ node'.known = node.known
           \/ s > p /\ node'.head = Ideal[s].head /\ node'.known = Ideal[s].known
    BY <1>1, RestartChain
  <1>3. pending' = 0 /\ UNCHANGED <<log, applied, snap>>
    BY DEF Crash
  <1>4. Reached' = {i \in applied .. Len(log) : i <= applied + 1 \/ i <= s}
    BY <1>3 DEF Reached
  <1>5. /\ p \in 0 .. Len(log) /\ s \in 0 .. Len(log) /\ p \in applied .. Len(log)
        /\ p <= applied + 1 \/ p <= s
        /\ applied \in Nat /\ Len(log) \in Nat
    BY <1>1, ReachedFacts, SMTT(60) DEF Control
  <1>6. /\ snap'.index \in 0 .. Len(log)
        /\ \/ snap'.head = Ideal[snap'.index].head
           \/ snap'.head = snap'.index + 1 /\ snap'.head \in node'.known
    <2>1. s \in Nat
      BY <1>5, SMTT(60)
    <2>2. \/ snap.head = Ideal[s].head
          \/ snap.head = s + 1
      BY DEF ChainInv
    <2> QED
      BY <1>2, <1>3, <1>5, <2>1, <2>2, SMTT(60) DEF Genesis
  <1>7. CASE node'.head = node.head /\ node'.known = node.known
    <2>1. p \in Reached'
      BY <1>4, <1>5
    <2> QED
      BY <1>1, <1>5, <1>6, <1>7, <2>1, ChainNext
  <1>8. CASE s > p /\ node'.head = Ideal[s].head /\ node'.known = Ideal[s].known
    <2>1. s \in Reached'
      BY <1>4, <1>5, <1>8, SMTT(60)
    <2> QED
      BY <1>5, <1>6, <1>8, <2>1, ChainNext
  <1> QED
    BY <1>2, <1>7, <1>8

\* maybeTriggerSnapshot may find the block after the applied index in the chain
\* already, when a crash came between the two writes.
LEMMA TriggerChain ==
  ASSUME LogInv, LogInv', LogGrows, Control, ChainInv, MaybeTriggerSnapshot
  PROVE  ChainInv'
  <1>1. /\ pending = 0 /\ run \in {"up", "leaving"} /\ run' \in {run, "panic"}
        /\ \/ snap' = snap
           \/ snap.index <= applied /\ snap' = buildSnapshot(node, applied)
        /\ UNCHANGED <<log, node, applied, pending>>
    BY DEF MaybeTriggerSnapshot
  <1>2. CASE snap' = snap
    <2>1. Reached' = Reached
      BY <1>1, <1>2 DEF Reached
    <2> QED
      BY <1>1, <1>2, <2>1, ChainSame
  <1>3. CASE snap.index <= applied /\ snap' = buildSnapshot(node, applied)
    <2>1. PICK p \in Reached : node.head = Ideal[p].head /\ node.known = Ideal[p].known
      BY DEF ChainInv
    <2>2. /\ p \in 0 .. Len(log) /\ p \in applied .. Len(log) /\ p <= applied + 1
          /\ applied \in Nat /\ Len(log) \in Nat
      BY <1>1, <1>3, <2>1, ReachedFacts, SMTT(60)
    <2>3. snap'.index = applied /\ snap'.head = node.head
      BY <1>3, <2>2, BuildFacts DEF Control
    <2>4. Reached' = {i \in applied .. Len(log) : i <= applied + 1 \/ i <= applied}
      BY <1>1, <2>3 DEF Reached
    <2>5. p \in Reached'
      BY <2>2, <2>4
    <2>6. snap'.head = Ideal[applied].head \/ (snap'.head = applied + 1 /\ snap'.head \in node.known)
      <3>1. CASE p = applied
        BY <2>1, <2>3, <3>1
      <3>2. CASE p = applied + 1
        <4>1. p \in 1 .. Len(log) /\ p - 1 = applied /\ p # 0
          BY <2>2, <3>2, SMTT(60)
        <4>2. EntryApplied(Ideal[applied], Ideal[p], p)
          BY <4>1, IdealFacts DEF IdealInv
        <4>3. Ideal[p].head = Ideal[applied].head
              \/ (Ideal[p].head = p /\ Ideal[p].known = Ideal[applied].known \cup {p})
          BY <4>2 DEF EntryApplied
        <4> QED
          BY <2>1, <2>3, <3>2, <4>3
      <3> QED
        BY <2>2, <3>1, <3>2, SMTT(60)
    <2>7. applied \in 0 .. Len(log)
      BY DEF Control
    <2> QED
      BY <1>1, <2>1, <2>2, <2>3, <2>5, <2>6, <2>7, ChainNext
  <1> QED
    BY <1>1, <1>2, <1>3

\* The chain, at every step.
LEMMA ChainStep ==
  ASSUME ~CanRewind, LogInv, Control, ChainInv, [Next]_vars
  PROVE  ChainInv'
  <1>0. LogInv' /\ LogGrows
    BY LogStep
  <1>1. Len(log) \in Nat /\ Len(log') \in Nat /\ Len(log) <= Len(log') /\ applied \in Nat
    BY <1>0, SMTT(60) DEF LogInv, LogGrows, Control
  <1>2. ASSUME UNCHANGED <<node, applied, pending, snap>>,
               run' = run \/ (run # "installing" /\ run' # "installing")
        PROVE  ChainInv'
    <2>1. applied .. Len(log) \subseteq applied .. Len(log')
      BY <1>1, SMTT(60)
    <2>2. Reached \subseteq Reached'
      BY <1>2, <2>1 DEF Reached
    <2> QED
      BY <1>0, <1>2, <2>2, ChainSame
  <1>3. CASE \E parent \in Blocks \cup {Genesis, Lost} : CommitBlock(parent)
    BY <1>2, <1>3 DEF CommitBlock
  <1>4. CASE \E kind \in {"add", "remove"}, id \in Node : CommitChange(kind, id)
    BY <1>2, <1>4 DEF CommitChange
  <1>5. CASE Apply
    BY <1>0, <1>5, ApplyChain
  <1>6. CASE \E i \in 1 .. Len(log) : SaveRaftSnapshot(i)
    BY <1>0, <1>6, SaveChain
  <1>7. CASE ApplyRaftSnapshot
    BY <1>0, <1>7, InstallChain
  <1>8. CASE AdvanceAppliedIndex
    <2>1. /\ run \in {"up", "leaving"} /\ pending # 0 /\ applied' = pending /\ pending' = 0
          /\ UNCHANGED <<log, node, snap, run>>
      BY <1>8 DEF AdvanceAppliedIndex
    <2>2. Reached = {pending} /\ pending \in 0 .. Len(log)
      BY <2>1, ReachedFacts
    <2>3. pending \in Reached'
      BY <1>1, <2>1, <2>2, SMTT(60) DEF Reached
    <2> QED
      BY <1>0, <2>1, <2>2, <2>3, ChainSame
  <1>9. CASE MaybeTriggerSnapshot
    BY <1>0, <1>9, TriggerChain
  <1>10. CASE EntriesToApplyFatal \/ Exit
    BY <1>2, <1>10 DEF EntriesToApplyFatal, Exit
  <1>11. CASE \E h \in Chain(node.head) \cup {Genesis} : Crash(h)
    BY <1>0, <1>11, CrashChain
  <1>12. CASE UNCHANGED vars
    BY <1>2, <1>12 DEF vars
  <1> QED
    BY <1>3, <1>4, <1>5, <1>6, <1>7, <1>8, <1>9, <1>10, <1>11, <1>12 DEF Next

\* The head comes back with the replay.
LEMMA ReplayStep ==
  ASSUME ~CanRewind, LogInv, Control, ChainInv, [Next]_vars,
         crashes' # crashes, node.head > snap.index
  PROVE  node'.head = node.head
  <1>1. CASE \E h \in Chain(node.head) \cup {Genesis} : Crash(h)
    <2>1. PICK p \in Reached : node.head = Ideal[p].head /\ node.known = Ideal[p].known
      BY DEF ChainInv
    <2>2. node'.head = node.head \/ node.head <= snap.index
      BY <1>1, <2>1, RestartChain
    <2>3. node.head \in Int /\ snap.index \in Int
      BY SMTT(60) DEF Control, NodeState, SnapState
    <2> QED
      BY <2>2, <2>3, SMTT(60)
  <1>2. CASE UNCHANGED crashes
    BY <1>2
  <1> QED
    BY <1>1, <1>2
    DEF Next, vars, CommitBlock, CommitChange, Apply, SaveRaftSnapshot,
       ApplyRaftSnapshot, AdvanceAppliedIndex, MaybeTriggerSnapshot, EntriesToApplyFatal, Exit

-----------------------------------------------------------------------------
(* The membership. *)

\* A node that was removed is not in the ConfState, as long as its id does not
\* come back.
LEMMA RemovedIsOut ==
  ASSUME LogInv, NoReuse
  PROVE  \A i \in 0 .. Len(log) : Ideal[i].conf \cap Ideal[i].removed = {}
  <1> DEFINE T == {i \in Nat : i <= Len(log) /\ Ideal[i].conf \cap Ideal[i].removed # {}}
  <1>1. Len(log) \in Nat
    BY SMTT(60) DEF LogInv
  <1>2. SUFFICES ASSUME T # {} PROVE FALSE
    BY <1>1, SMTT(60)
  <1>3. PICK i \in T : \A j \in T : i <= j
    BY <1>2, LeastNat
  <1>4. CASE i = 0
    <2>1. Ideal[0] = NewNode
      BY IdealFacts DEF IdealInv
    <2> QED
      BY <1>3, <1>4, <2>1, SMTT(60) DEF NewNode
  <1>5. CASE i # 0
    <2>1. i \in 1 .. Len(log) /\ i - 1 \in Nat /\ i - 1 <= Len(log) /\ ~(i <= i - 1)
      BY <1>1, <1>3, <1>5, SMTT(60)
    <2>2. Ideal[i - 1].conf \cap Ideal[i - 1].removed = {}
      BY <1>3, <2>1
    <2>3. EntryApplied(Ideal[i - 1], Ideal[i], i)
      BY <2>1, IdealFacts DEF IdealInv
    <2>4. log[i].kind = "add" => log[i].id \notin Ideal[i - 1].removed
      BY <2>1 DEF NoReuse
    <2>5. Ideal[i].conf \cap Ideal[i].removed = {}
      BY <2>1, <2>2, <2>3, <2>4, EntryFacts DEF EntryApplied
    <2> QED
      BY <1>3, <2>5
  <1> QED
    BY <1>4, <1>5

\* ProposeNewPeer and PromoteToPeer refuse an id that was removed.
LEMMA NoReuseStep ==
  ASSUME ~CanReuse, LogInv, NoReuse, [Next]_vars
  PROVE  NoReuse'
  <1>0. LogInv' /\ LogGrows
    BY LogStep
  <1>1. /\ Len(log) \in Nat /\ \A i \in 0 .. Len(log) : Ideal'[i] = Ideal[i]
        /\ \A i \in 1 .. Len(log) : log'[i] = log[i]
    BY <1>0, IdealKept, SMTT(60) DEF LogInv, LogGrows
  <1>2. ASSUME NEW i \in 1 .. Len(log), log'[i].kind = "add"
        PROVE  log'[i].id \notin Ideal'[i - 1].removed
    <2>1. i - 1 \in 0 .. Len(log)
      BY <1>1, SMTT(60)
    <2> QED
      BY <1>1, <1>2, <2>1 DEF NoReuse
  <1>3. CASE log' = log
    BY <1>2, <1>3 DEF NoReuse
  <1>4. ASSUME NEW e \in Entry, log' = Append(log, e),
               e.kind = "add" => e.id \notin Ideal[Len(log)].removed
        PROVE  NoReuse'
    <2>1. Len(log') = Len(log) + 1 /\ log'[Len(log) + 1] = e
      BY <1>4, SMTT(60) DEF LogInv
    <2>2. Len(log) \in 0 .. Len(log) /\ (Len(log) + 1) - 1 = Len(log)
      BY <1>1, SMTT(60)
    <2>3. log'[Len(log) + 1].kind = "add" =>
            log'[Len(log) + 1].id \notin Ideal'[(Len(log) + 1) - 1].removed
      BY <1>1, <1>4, <2>1, <2>2
    <2>4. \A i \in 1 .. Len(log') : i \in 1 .. Len(log) \/ i = Len(log) + 1
      BY <1>1, <2>1, SMTT(60)
    <2> QED
      BY <1>2, <2>3, <2>4 DEF NoReuse
  <1>5. ASSUME NEW parent \in Blocks \cup {Genesis, Lost}, CommitBlock(parent)
        PROVE  NoReuse'
    <2>1. parent \in Int
      BY SMTT(60) DEF Blocks, Genesis, Lost, LogInv
    <2>2. Block(parent) \in Entry /\ Block(parent).kind # "add"
      BY <2>1 DEF Block, Entry
    <2>3. log' = Append(log, Block(parent))
      BY <1>5 DEF CommitBlock
    <2> QED
      BY <1>4, <2>2, <2>3
  <1>6. ASSUME NEW kind \in {"add", "remove"}, NEW id \in Node, CommitChange(kind, id)
        PROVE  NoReuse'
    <2>1. Change(kind, id) \in Entry /\ Change(kind, id).kind = kind /\ Change(kind, id).id = id
      BY DEF Change, Entry
    <2>2. log' = Append(log, Change(kind, id)) /\ (kind = "add" => id \notin Ideal[Len(log)].removed)
      BY <1>6 DEF CommitChange
    <2> QED
      BY <1>4, <2>1, <2>2
  <1>7. CASE Apply \/ (\E i \in 1 .. Len(log) : SaveRaftSnapshot(i)) \/ ApplyRaftSnapshot
    BY <1>3, <1>7 DEF Apply, SaveRaftSnapshot, ApplyRaftSnapshot
  <1>8. CASE AdvanceAppliedIndex \/ MaybeTriggerSnapshot \/ EntriesToApplyFatal \/ Exit
    BY <1>3, <1>8 DEF AdvanceAppliedIndex, MaybeTriggerSnapshot, EntriesToApplyFatal, Exit
  <1>9. CASE \E h \in Chain(node.head) \cup {Genesis} : Crash(h)
    BY <1>3, <1>9 DEF Crash
  <1>10. CASE UNCHANGED vars
    BY <1>3, <1>10 DEF vars
  <1> QED
    BY <1>5, <1>6, <1>7, <1>8, <1>9, <1>10 DEF Next

\* A later state keeps the invariant if it holds of the prefixes there were.
LEMMA MemberNext ==
  ASSUME LogInv, LogInv', LogGrows,
         Position' \in 0 .. Len(log), snap'.index \in 0 .. Len(log), applied' \in 0 .. Len(log),
         pending' # 0 => snap'.index <= pending',
         node'.conf \subseteq node'.addrs, Self \in node'.addrs \cup node'.removed,
         snap' # NoSnapshot => MembersOf(snap', snap'.index),
         snap' # NoSnapshot => \A c \in snap'.index .. Position' : MembersOf(snap', c),
         snap'.index <= Position' => MembersOf(node', Position'),
         snap'.index > Position' => \E c \in applied' .. snap'.index : MembersOf(node', c),
         run' \in {"panic", "fatal"} => crashes' > 0 /\ applied' < snap'.index
  PROVE  MemberInv'
  <1>1. \A c \in 0 .. Len(log) : Ideal'[c] = Ideal[c]
    BY IdealKept
  <1>2. /\ snap'.index .. Position' \subseteq 0 .. Len(log)
        /\ applied' .. snap'.index \subseteq 0 .. Len(log)
    BY SMTT(60) DEF LogInv
  <1>3. NoSnapshot' = NoSnapshot
    BY DEF NoSnapshot, Genesis
  <1> HIDE DEF Position
  <1>4. snap' # NoSnapshot => MembersOf(snap, snap.index)'
    BY <1>1 DEF MembersOf
  <1>5. snap' # NoSnapshot => \A c \in snap'.index .. Position' : MembersOf(snap, c)'
    BY <1>1, <1>2 DEF MembersOf
  <1>6. snap'.index <= Position' => MembersOf(node, Position)'
    BY <1>1 DEF MembersOf
  <1>7. snap'.index > Position' => \E c \in applied' .. snap'.index : MembersOf(node, c)'
    BY <1>1, <1>2 DEF MembersOf
  <1> QED
    BY <1>3, <1>4, <1>5, <1>6, <1>7 DEF MemberInv

\* The position is an index of the log, at or after the applied index.
LEMMA PositionFacts ==
  ASSUME LogInv, Control
  PROVE  /\ Position \in 0 .. Len(log) /\ Position \in Nat /\ applied \in Nat /\ applied <= Position
         /\ snap.index \in Nat /\ Len(log) \in Nat /\ applied \in 0 .. Len(log)
         /\ snap.index \in 0 .. Len(log)
  <1>1. applied \in Nat /\ snap.index \in Nat /\ Len(log) \in Nat
    BY SMTT(60) DEF Control, LogInv
  <1>2. pending # 0 => pending \in 0 .. Len(log) /\ pending > applied
    BY <1>1, SMTT(60) DEF Control
  <1> QED
    BY <1>1, <1>2, SMTT(60) DEF Position, Control

\* Every node of the ConfState keeps an address when an entry is applied, so that
\* the snapshot which is forced by a change can be taken.
LEMMA AddressesKept ==
  ASSUME LogInv, NEW n, NEW m, NEW i \in 1 .. Len(log), EntryApplied(n, m, i),
         log[i].kind = "add" => log[i].id \notin n.removed,
         n.conf \subseteq n.addrs, Self \in n.addrs \cup n.removed
  PROVE  m.conf \subseteq m.addrs /\ Self \in m.addrs \cup m.removed
  <1>1. CASE log[i].kind = "block"
    BY <1>1 DEF EntryApplied
  <1>2. CASE log[i].kind = "add"
    BY <1>2 DEF EntryApplied
  <1>3. CASE log[i].kind = "remove"
    BY <1>3 DEF EntryApplied
  <1> QED
    BY <1>1, <1>2, <1>3, EntryFacts

\* eventLoop applies an entry: a change that is not saved changes nothing.
LEMMA ApplyMember ==
  ASSUME LogInv, LogInv', LogGrows, Control, NoReuse, MemberInv, Apply
  PROVE  MemberInv'
  <1> DEFINE i == applied + 1
             n == applyEntry(node, i)
  <1>1. /\ run \in {"up", "leaving"} /\ pending = 0
        /\ i <= Len(log) /\ snap.index <= applied
        /\ node' = n /\ pending' = i /\ applied' = applied
        /\ snap' = IF forceSnapshot(node, i) /\ hasAddresses(n) THEN buildSnapshot(n, i) ELSE snap
        /\ hasAddresses(n) => run' \in {"up", "leaving"}
    BY DEF Apply
  <1>2. i \in 1 .. Len(log) /\ i \in Nat /\ applied \in Nat /\ i - 1 = applied /\ i # 0
    BY <1>1, SMTT(60) DEF Control, LogInv
  <1>3. n \in NodeState /\ EntryApplied(node, n, i)
    BY <1>2, ApplyFacts DEF Control
  <1>4. EntryApplied(Ideal[applied], Ideal[i], i)
    BY <1>2, IdealFacts DEF IdealInv
  <1>5. Position = applied /\ MembersOf(node, applied)
    BY <1>1 DEF Position, MemberInv
  <1>6. log[i].kind = "add" => log[i].id \notin node.removed
    BY <1>2, <1>5 DEF NoReuse, MembersOf
  <1> HIDE DEF n, i
  <1>7. n.conf \subseteq n.addrs /\ Self \in n.addrs \cup n.removed
    BY <1>2, <1>3, <1>6, AddressesKept DEF MemberInv
  <1>8. hasAddresses(n)
    BY <1>7 DEF hasAddresses
  <1>9. MembersOf(n, i)
    BY <1>2, <1>3, <1>4, <1>5, EntryFacts DEF EntryApplied, MembersOf
  <1>10. Position' = i
    BY <1>1, <1>2, <1>8 DEF Position
  <1>11. i \in 0 .. Len(log) /\ applied \in 0 .. Len(log) /\ Len(log) \in Nat
    BY <1>2, SMTT(60) DEF Control, LogInv
  <1>12. CASE forceSnapshot(node, i)
    <2>1. snap' = buildSnapshot(n, i)
      BY <1>1, <1>8, <1>12
    <2>2. snap'.index = i /\ snap'.conf = n.conf /\ snap'.removed = n.removed
      BY <1>2, <1>3, <2>1, BuildFacts
    <2>3. MembersOf(snap', i)
      BY <1>9, <2>2 DEF MembersOf
    <2>4. \A c \in i .. i : c = i
      BY <1>2, SMTT(60)
    <2>5. i <= i /\ ~(i > i)
      BY <1>2, SMTT(60)
    <2> QED
      BY <1>1, <1>7, <1>8, <1>9, <1>10, <1>11, <2>2, <2>3, <2>4, <2>5, MemberNext
  <1>13. CASE ~forceSnapshot(node, i)
    <2>1. snap' = snap
      BY <1>1, <1>13
    <2>2. snap.index <= i /\ ~(snap.index > i) /\ snap.index \in 0 .. Len(log)
          /\ applied \in snap.index .. applied
      BY <1>1, <1>2, SMTT(60) DEF Control, i
    <2>3. Ideal[i].conf = Ideal[applied].conf /\ Ideal[i].removed = Ideal[applied].removed
      <3>1. CASE log[i].kind = "block"
        BY <1>4, <3>1 DEF EntryApplied
      <3>2. CASE log[i].kind # "block"
        <4>1. log[i].id \in node.removed
          BY <1>13, <3>2 DEF forceSnapshot
        <4>2. log[i].kind = "remove"
          BY <1>2, <1>6, <3>2, <4>1, EntryFacts
        <4>3. Ideal[applied].conf \cap Ideal[applied].removed = {}
          BY <1>11, RemovedIsOut
        <4>4. /\ Ideal[i].conf = Ideal[applied].conf \ {log[i].id}
              /\ Ideal[i].removed = Ideal[applied].removed \cup {log[i].id}
          BY <1>4, <4>2 DEF EntryApplied
        <4>5. log[i].id \in Ideal[applied].removed
          BY <1>5, <4>1 DEF MembersOf
        <4> QED
          BY ONLY <4>3, <4>4, <4>5, ZenonT(60)
      <3> QED
        BY <3>1, <3>2
    <2>4. snap # NoSnapshot =>
            MembersOf(snap, snap.index) /\ \A c \in snap.index .. applied : MembersOf(snap, c)
      BY <1>5 DEF MemberInv
    <2>5. \A c \in snap.index .. i : c \in snap.index .. applied \/ c = i
      BY <1>2, <2>2, SMTT(60) DEF i
    <2>6. snap # NoSnapshot => \A c \in snap.index .. i : MembersOf(snap, c)
      BY <2>2, <2>3, <2>4, <2>5 DEF MembersOf
    <2> QED
      BY <1>1, <1>7, <1>8, <1>9, <1>10, <1>11, <2>1, <2>2, <2>4, <2>6, MemberNext
  <1> QED
    BY <1>12, <1>13

\* The leader's snapshot is saved: the membership stays behind it.
LEMMA SaveMember ==
  ASSUME LogInv, LogInv', LogGrows, Control, MemberInv,
         NEW i \in 1 .. Len(log), SaveRaftSnapshot(i)
  PROVE  MemberInv'
  <1>1. /\ run = "up" /\ pending = 0 /\ i > applied /\ i > snap.index
        /\ snap' = buildSnapshot(Ideal[i], i) /\ pending' = i /\ run' = "installing"
        /\ UNCHANGED <<log, node, applied, crashes>>
    BY DEF SaveRaftSnapshot
  <1>2. i \in 0 .. Len(log) /\ i \in Nat /\ applied \in 0 .. Len(log) /\ applied \in Nat
        /\ snap.index \in Nat
    BY SMTT(60) DEF LogInv, Control
  <1>3. Ideal[i] \in NodeState
    BY <1>2, IdealFacts DEF IdealInv
  <1>4. snap'.index = i /\ MembersOf(snap', i)
    BY <1>1, <1>2, <1>3, BuildFacts DEF MembersOf
  <1>5. Position = applied /\ Position' = applied
    BY <1>1 DEF Position
  <1>6. \E c \in applied .. i : MembersOf(node, c)
    <2>1. CASE snap.index <= applied
      BY <1>1, <1>2, <1>5, <2>1, SMTT(60) DEF MemberInv
    <2>2. CASE snap.index > applied
      <3>1. PICK c \in applied .. snap.index : MembersOf(node, c)
        BY <1>5, <2>2 DEF MemberInv
      <3>2. c \in applied .. i
        BY <1>1, <1>2, SMTT(60)
      <3> QED
        BY <3>1, <3>2
    <2> QED
      BY <1>2, <2>1, <2>2, SMTT(60)
  <1>7. i .. applied = {} /\ ~(i <= applied) /\ i <= i
    BY <1>1, <1>2, SMTT(60)
  <1>8. node'.conf \subseteq node'.addrs /\ Self \in node'.addrs \cup node'.removed
    BY <1>1 DEF MemberInv
  <1> QED
    BY <1>1, <1>2, <1>4, <1>5, <1>6, <1>7, <1>8, MemberNext

\* applyRaftSnapshot: the nodes that left the ConfState meanwhile have tombstones
\* in the snapshot.
LEMMA InstallMember ==
  ASSUME LogInv, LogInv', LogGrows, Control, MemberInv, ApplyRaftSnapshot
  PROVE  MemberInv'
  <1> DEFINE m == applyRaftSnapshot(node, snap)
             s == snap.index
  <1>1. /\ run = "installing" /\ node' = m /\ run' = "up"
        /\ UNCHANGED <<log, applied, pending, snap, crashes>>
    BY DEF ApplyRaftSnapshot
  <1>2. /\ pending = s /\ s # 0 /\ applied \in 0 .. Len(log) /\ s \in 0 .. Len(log)
        /\ s > applied /\ s \in Nat /\ applied \in Nat /\ Len(log) \in Nat
    BY <1>1, SMTT(60) DEF Control, LogInv
  <1>3. snap # NoSnapshot
    BY <1>2, SMTT(60) DEF NoSnapshot
  <1>4. /\ m.conf = snap.conf /\ snap.conf \subseteq m.addrs
        /\ m.removed = snap.removed \cup (node.conf \ snap.conf)
    BY InstallFacts, SMTT(60) DEF Control
  <1> HIDE DEF m
  <1>5. Position = applied /\ Position' = s
    BY <1>1, <1>2 DEF Position
  <1>6. PICK c \in applied .. s : MembersOf(node, c)
    BY <1>2, <1>5 DEF MemberInv
  <1>7. MembersOf(snap, s)
    BY <1>3 DEF MemberInv
  <1>8. c \in 0 .. s
    BY <1>2, SMTT(60)
  <1>9. /\ Ideal[c].conf \subseteq Ideal[s].conf \cup Ideal[s].removed
        /\ Self \in Ideal[s].conf \cup Ideal[s].removed
    BY <1>2, <1>8, IdealFacts DEF IdealInv
  <1>10. MembersOf(m, s) /\ Self \in m.addrs \cup m.removed /\ m.conf \subseteq m.addrs
    BY <1>4, <1>6, <1>7, <1>9 DEF MembersOf
  <1>11. (\A d \in s .. s : d = s) /\ s <= s /\ ~(s > s)
    BY <1>2, SMTT(60)
  <1> QED
    BY <1>1, <1>2, <1>5, <1>7, <1>10, <1>11, MemberNext

\* maybeTriggerSnapshot: behind a snapshot it asks for one that etcd refuses.
LEMMA TriggerMember ==
  ASSUME LogInv, LogInv', LogGrows, Control, MemberInv, MaybeTriggerSnapshot
  PROVE  MemberInv'
  <1>1. /\ pending = 0 /\ run \in {"up", "leaving"}
        /\ UNCHANGED <<log, node, applied, pending, crashes>>
        /\ IF snap.index <= applied /\ hasAddresses(node)
           THEN snap' = buildSnapshot(node, applied) /\ run' = run
           ELSE run' = "panic" /\ snap' = snap
    BY DEF MaybeTriggerSnapshot
  <1>2. /\ applied \in 0 .. Len(log) /\ applied \in Nat /\ snap.index \in 0 .. Len(log)
        /\ snap.index \in Nat
    BY SMTT(60) DEF Control, LogInv
  <1>3. Position = applied /\ Position' = applied
    BY <1>1 DEF Position
  <1>4. hasAddresses(node) /\ Self \in node.addrs \cup node.removed
    BY DEF MemberInv, hasAddresses
  <1>5. CASE snap.index <= applied
    <2>1. snap' = buildSnapshot(node, applied) /\ run' = run
      BY <1>1, <1>4, <1>5
    <2>2. snap'.index = applied /\ snap'.conf = node.conf /\ snap'.removed = node.removed
      BY <1>2, <2>1, BuildFacts DEF Control
    <2>3. MembersOf(node, applied)
      BY <1>3, <1>5 DEF MemberInv
    <2>4. MembersOf(snap', applied)
      BY <2>2, <2>3 DEF MembersOf
    <2>5. (\A d \in applied .. applied : d = applied) /\ applied <= applied /\ ~(applied > applied)
      BY <1>2, SMTT(60)
    <2> QED
      BY <1>1, <1>2, <1>3, <1>4, <2>1, <2>2, <2>3, <2>4, <2>5, MemberNext DEF hasAddresses
  <1>6. CASE snap.index > applied
    <2>1. run' = "panic" /\ snap' = snap
      BY <1>1, <1>2, <1>6, SMTT(60)
    <2>2. crashes > 0 /\ applied < snap.index
      BY <1>1, <1>2, <1>6, SMTT(60) DEF Control
    <2>3. /\ snap # NoSnapshot =>
               MembersOf(snap, snap.index) /\ \A c \in snap.index .. applied : MembersOf(snap, c)
          /\ \E c \in applied .. snap.index : MembersOf(node, c)
          /\ ~(snap.index <= applied)
      BY <1>2, <1>3, <1>6, SMTT(60) DEF MemberInv
    <2> QED
      BY <1>1, <1>2, <1>3, <1>4, <2>1, <2>2, <2>3, MemberNext DEF hasAddresses
  <1> QED
    BY <1>2, <1>5, <1>6, SMTT(60)

\* A crash and startRaft: the membership goes back to that of the snapshot, which
\* is that of every prefix since.
LEMMA CrashMember ==
  ASSUME ~CanCrashEarly, LogInv, LogInv', LogGrows, Control, MemberInv,
         NEW h \in Chain(node.head) \cup {Genesis}, Crash(h)
  PROVE  MemberInv'
  <1> DEFINE m == startRaft([node EXCEPT !.head = h], snap)
             s == snap.index
  <1>1. /\ node' = m /\ snap' = snap /\ applied' = applied /\ pending' = 0 /\ run' = "up"
        /\ snap # NoSnapshot
    BY DEF Crash
  <1>2. h \in Nat /\ h <= Len(log)
    BY HeadFacts
  <1>3. Restarted(node, h, snap, m)
    BY <1>2, StartFacts DEF Control
  <1> HIDE DEF m
  <1>4. m.conf = snap.conf /\ m.addrs = snap.conf /\ m.removed = snap.removed
    BY <1>1, <1>3 DEF Restarted
  <1>5. /\ Position \in Nat /\ applied \in Nat /\ applied <= Position
        /\ s \in Nat /\ applied \in 0 .. Len(log) /\ s \in 0 .. Len(log)
    BY PositionFacts
  <1>6. Position' = applied
    BY <1>1 DEF Position
  <1>7. MembersOf(snap, s) /\ \A c \in s .. Position : MembersOf(snap, c)
    BY <1>1 DEF MemberInv
  <1>8. \A c \in s .. applied : MembersOf(snap, c)
    BY <1>5, <1>7, SMTT(60)
  <1>9. Self \in m.addrs \cup m.removed
    <2>1. Self \in Ideal[s].conf \cup Ideal[s].removed
      BY <1>5, IdealFacts DEF IdealInv
    <2> QED
      BY <1>4, <1>7, <2>1 DEF MembersOf
  <1>10. s <= applied => MembersOf(m, applied)
    BY <1>4, <1>5, <1>8, SMTT(60) DEF MembersOf
  <1>11. s > applied => \E c \in applied .. s : MembersOf(m, c)
    BY <1>4, <1>5, <1>7, SMTT(60) DEF MembersOf
  <1> QED
    BY <1>1, <1>4, <1>5, <1>6, <1>7, <1>8, <1>9, <1>10, <1>11, MemberNext

\* The membership, at every step.
LEMMA MemberStep ==
  ASSUME ~CanCrashEarly, LogInv, Control, NoReuse, MemberInv, [Next]_vars
  PROVE  MemberInv'
  <1>0. LogInv' /\ LogGrows
    BY LogStep
  <1>1. /\ Position \in 0 .. Len(log) /\ applied \in 0 .. Len(log) /\ snap.index \in 0 .. Len(log)
        /\ applied \in Nat /\ snap.index \in Nat
    BY PositionFacts
  <1>2. ASSUME UNCHANGED <<node, applied, pending, snap, crashes>>,
               run' = run \/ (run # "installing" /\ run' # "installing"),
               run' \in {"panic", "fatal"} => crashes > 0 /\ applied < snap.index
        PROVE  MemberInv'
    <2>1. Position' = Position
      BY <1>2 DEF Position
    <2> QED
      BY <1>0, <1>1, <1>2, <2>1, MemberNext DEF MemberInv
  <1>3. CASE \E parent \in Blocks \cup {Genesis, Lost} : CommitBlock(parent)
    BY <1>2, <1>3 DEF CommitBlock, MemberInv
  <1>4. CASE \E kind \in {"add", "remove"}, id \in Node : CommitChange(kind, id)
    BY <1>2, <1>4 DEF CommitChange, MemberInv
  <1>5. CASE Apply
    BY <1>0, <1>5, ApplyMember
  <1>6. CASE \E i \in 1 .. Len(log) : SaveRaftSnapshot(i)
    BY <1>0, <1>6, SaveMember
  <1>7. CASE ApplyRaftSnapshot
    BY <1>0, <1>7, InstallMember
  <1>8. CASE AdvanceAppliedIndex
    <2>1. /\ run \in {"up", "leaving"} /\ pending # 0 /\ applied' = pending /\ pending' = 0
          /\ UNCHANGED <<log, node, snap, run, crashes>>
      BY <1>8 DEF AdvanceAppliedIndex
    <2>2. Position = pending /\ Position' = pending
      BY <2>1 DEF Position
    <2>3. snap.index <= pending /\ ~(snap.index > pending)
      BY <1>1, <2>1, <2>2, SMTT(60) DEF MemberInv
    <2>4. /\ node.conf \subseteq node.addrs /\ Self \in node.addrs \cup node.removed
          /\ MembersOf(node, pending)
          /\ snap # NoSnapshot =>
               MembersOf(snap, snap.index) /\ \A c \in snap.index .. pending : MembersOf(snap, c)
      BY <2>2, <2>3 DEF MemberInv
    <2> QED
      BY <1>0, <1>1, <2>1, <2>2, <2>3, <2>4, MemberNext
  <1>9. CASE MaybeTriggerSnapshot
    BY <1>0, <1>9, TriggerMember
  <1>10. CASE EntriesToApplyFatal
    <2>1. /\ run = "up" /\ pending = 0 /\ snap.index > applied /\ run' = "fatal"
          /\ UNCHANGED <<node, applied, pending, snap, crashes>>
      BY <1>10 DEF EntriesToApplyFatal
    <2>2. crashes > 0 /\ applied < snap.index
      BY <1>1, <2>1, SMTT(60) DEF Control
    <2> QED
      BY <1>2, <2>1, <2>2
  <1>11. CASE Exit
    BY <1>2, <1>11 DEF Exit
  <1>12. CASE \E h \in Chain(node.head) \cup {Genesis} : Crash(h)
    BY <1>0, <1>12, CrashMember
  <1>13. CASE UNCHANGED vars
    BY <1>2, <1>13 DEF vars, MemberInv
  <1> QED
    BY <1>3, <1>4, <1>5, <1>6, <1>7, <1>8, <1>9, <1>10, <1>11, <1>12, <1>13
    DEF Next

-----------------------------------------------------------------------------
(* The theorems. *)

\* etcd starts the log with the bootstrap nodes.
LEMMA InitFacts ==
  ASSUME Init
  PROVE  LogInv /\ Control /\ ChainInv /\ NoReuse /\ MemberInv
  <1>1. Cardinality(Bootstrap) \in Nat /\ Cardinality(Bootstrap) # 0
    <2>1. IsFiniteSet(Bootstrap) /\ Bootstrap # {}
      BY PeerAssumption, FS_AddElement DEF Bootstrap
    <2> QED
      BY <2>1, FS_CardinalityType, FS_EmptySet
  <1>2. {Change("add", id) : id \in Bootstrap} \subseteq Entry
    BY PeerAssumption, SMTT(60) DEF Change, Entry, Bootstrap, Node
  <1> DEFINE k == Cardinality(Bootstrap)
             A == {Change("add", id) : id \in Bootstrap}
  <1>3. log \in [1 .. k -> A] /\ \A e \in A : e.kind = "add"
    BY SMTT(60) DEF Init, Change
  <1> HIDE DEF k, A
  <1>4. log \in [1 .. k -> Entry] /\ k \in Nat /\ k # 0
    BY <1>1, <1>2, <1>3 DEF k, A
  <1>5. log \in Seq(Entry) /\ Len(log) = k
    BY <1>4, SMTT(60)
  <1>6. \A i \in 1 .. Len(log) : log[i].kind = "add"
    BY <1>3, <1>5
  <1>7. LogInv
    BY <1>4, <1>5, <1>6, SMTT(60) DEF LogInv
  <1>8. /\ node = NewNode /\ applied = 0 /\ pending = 0 /\ snap = NoSnapshot
        /\ run = "up" /\ crashes = 0
    BY DEF Init
  <1>9. /\ NewNode \in NodeState /\ NewNode.head = 0 /\ NewNode.removed = {}
        /\ NewNode.conf = Bootstrap /\ NewNode.addrs = Bootstrap /\ Self \in Bootstrap
    BY PeerAssumption DEF NewNode, NodeState, Bootstrap, Node, Genesis
  <1>10. NoSnapshot \in SnapState /\ NoSnapshot.index = 0 /\ NoSnapshot.head = 0
    BY DEF NoSnapshot, SnapState, Genesis
  <1>11. 0 \in 0 .. Len(log) /\ Len(log) \in Nat
    BY <1>4, <1>5, SMTT(60)
  <1>12. Control
    BY <1>8, <1>9, <1>10, <1>11, SMTT(60) DEF Control
  <1>13. Ideal[0] = NewNode
    BY <1>7, IdealFacts DEF IdealInv
  <1>14. ChainInv
    <2>1. 0 \in Reached
      BY <1>8, <1>10, <1>11, SMTT(60) DEF Reached
    <2> QED
      BY <1>8, <1>9, <1>10, <1>13, <2>1 DEF ChainInv
  <1>15. NoReuse
    <2> DEFINE T == {i \in Nat : i <= Len(log) /\ Ideal[i].removed # {}}
    <2>1. T = {}
      <3>1. SUFFICES ASSUME T # {} PROVE FALSE
        OBVIOUS
      <3>2. PICK i \in T : \A j \in T : i <= j
        BY <3>1, LeastNat
      <3>3. i # 0
        BY <1>9, <1>13, <3>2
      <3>4. i \in 1 .. Len(log) /\ i - 1 \in Nat /\ i - 1 <= Len(log) /\ ~(i <= i - 1)
        BY <1>11, <3>2, <3>3, SMTT(60)
      <3>5. Ideal[i - 1].removed = {}
        BY <3>2, <3>4
      <3>6. EntryApplied(Ideal[i - 1], Ideal[i], i)
        BY <1>7, <3>4, IdealFacts DEF IdealInv
      <3>7. Ideal[i].removed = {}
        BY <1>6, <3>4, <3>5, <3>6 DEF EntryApplied
      <3> QED
        BY <3>2, <3>7
    <2>2. \A i \in 1 .. Len(log) : Ideal[i - 1].removed = {}
      <3> TAKE i \in 1 .. Len(log)
      <3>1. i - 1 \in Nat /\ i - 1 <= Len(log)
        BY <1>11, SMTT(60)
      <3> QED
        BY <2>1, <3>1
    <2> QED
      BY <2>2 DEF NoReuse
  <1>16. MemberInv
    <2>1. Position = 0
      BY <1>8 DEF Position
    <2>2. MembersOf(node, 0)
      BY <1>8, <1>13 DEF MembersOf
    <2> QED
      BY <1>8, <1>9, <1>10, <2>1, <2>2, SMTT(60) DEF MemberInv
  <1> QED
    BY <1>7, <1>12, <1>14, <1>15, <1>16

\* The applied index, the pending entry and the newest snapshot of a node, over
\* every sequence of its steps and of crashes.
THEOREM RaftControl == Spec => [](LogInv /\ Control)
  <1>1. Init => LogInv /\ Control
    BY InitFacts
  <1>2. LogInv /\ Control /\ [Next]_vars => (LogInv /\ Control)'
    BY LogStep, ControlStep
  <1> QED
    BY <1>1, <1>2, PTL DEF Spec

\* The chain and the database of a node are those of a prefix of the log that it
\* has reached, whenever a crash only loses the state of blocks after the
\* newest snapshot.
THEOREM RaftChainInvariant ==
  ASSUME ~CanRewind
  PROVE  Spec => []ChainInv
  <1>1. Init => ChainInv
    BY InitFacts
  <1>2. LogInv /\ Control /\ ChainInv /\ [Next]_vars => ChainInv'
    BY ChainStep
  <1> QED
    BY <1>1, <1>2, RaftControl, PTL DEF Spec

\* eventLoop, applyRaftSnapshot and startRaft leave the head of the chain at a
\* block that every node has at the same entry.
THEOREM RaftChainFollowsLog ==
  ASSUME ~CanRewind
  PROVE  Spec => []ChainFollowsLog
  <1>1. ChainInv => ChainFollowsLog
    BY DEF ChainInv, ChainFollowsLog
  <1>2. Spec => []ChainInv
    BY RaftChainInvariant
  <1> QED
    BY <1>1, <1>2, PTL

\* startRaft's replay of the WAL restores the head.
THEOREM RaftReplayRestores ==
  ASSUME ~CanRewind
  PROVE  Spec => ReplayRestores
  <1>1. LogInv /\ Control /\ ChainInv /\ [Next]_vars =>
          [crashes' # crashes /\ snap # NoSnapshot /\ node.head > snap.index
             => node'.head = node.head]_vars
    BY ReplayStep
  <1>2. Spec => []ChainInv
    BY RaftChainInvariant
  <1> QED
    BY <1>1, <1>2, RaftControl, PTL DEF Spec, ReplayRestores

\* The membership of a node is that of its position in the log, whenever an id is
\* not used again and no crash comes before the first snapshot.
THEOREM RaftMemberInvariant ==
  ASSUME ~CanReuse, ~CanCrashEarly
  PROVE  Spec => [](NoReuse /\ MemberInv)
  <1>1. Init => NoReuse /\ MemberInv
    BY InitFacts
  <1>2. LogInv /\ Control /\ NoReuse /\ MemberInv /\ [Next]_vars => (NoReuse /\ MemberInv)'
    BY NoReuseStep, MemberStep
  <1> QED
    BY <1>1, <1>2, RaftControl, PTL DEF Spec

\* No crash loses a member of the cluster, or brings one back.
THEOREM RaftMembersFollowLog ==
  ASSUME ~CanReuse, ~CanCrashEarly
  PROVE  Spec => []MembersFollowLog
  <1>1. LogInv /\ Control /\ MemberInv => MembersFollowLog
    <2> SUFFICES ASSUME LogInv, Control, MemberInv PROVE MembersFollowLog
      OBVIOUS
    <2>1. CASE snap.index <= Position
      <3>1. Position \in Reached
        <4>1. CASE pending # 0 /\ run # "installing"
          BY <4>1, ReachedFacts DEF Position
        <4>2. CASE ~(pending # 0 /\ run # "installing")
          <5>1. Position = applied /\ applied \in applied .. Len(log) /\ applied <= applied + 1
            BY <4>2, PositionFacts, SMTT(60) DEF Position
          <5> QED
            BY <4>2, <5>1, ReachedFacts
        <4> QED
          BY <4>1, <4>2
      <3>2. MembersOf(node, Position)
        BY <2>1 DEF MemberInv
      <3> QED
        BY <3>1, <3>2 DEF MembersOf, MembersFollowLog
    <2>2. CASE snap.index > Position
      <3>1. PICK c \in applied .. snap.index : MembersOf(node, c)
        BY <2>2 DEF MemberInv
      <3>2. ~(pending # 0 /\ run # "installing")
        BY <2>2, PositionFacts, SMTT(60) DEF MemberInv, Position
      <3>3. c \in applied .. Len(log) /\ c <= snap.index
        BY PositionFacts, SMTT(60)
      <3>4. c \in Reached
        BY <3>2, <3>3, ReachedFacts
      <3> QED
        BY <3>1, <3>4 DEF MembersOf, MembersFollowLog
    <2> QED
      BY <2>1, <2>2, PositionFacts, SMTT(60)
  <1>2. Spec => [](NoReuse /\ MemberInv)
    BY RaftMemberInvariant
  <1> QED
    BY <1>1, <1>2, RaftControl, PTL

\* The process is given up only behind a snapshot whose index a crash kept from
\* being written.
THEOREM RaftGivesUpOnlyBehindSnapshot ==
  ASSUME ~CanReuse, ~CanCrashEarly
  PROVE  Spec => []GivesUpOnlyBehindSnapshot
  <1>1. MemberInv => GivesUpOnlyBehindSnapshot
    BY DEF MemberInv, GivesUpOnlyBehindSnapshot
  <1>2. Spec => [](NoReuse /\ MemberInv)
    BY RaftMemberInvariant
  <1> QED
    BY <1>1, <1>2, PTL
=============================================================================
