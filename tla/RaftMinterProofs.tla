-------------------------- MODULE RaftMinterProofs --------------------------
(***************************************************************************)
(* Proofs about RaftMinter for every set of transactions and every bound:  *)
(* the blacklist of the speculative chain is what its blocks hold          *)
(* (ProposedIsUnapplied), and the minter builds on the head of the         *)
(* blockchain once it has heard of it (HeadIsCurrent).                     *)
(***************************************************************************)
EXTENDS RaftMinter, WellFoundedInduction, TLAPS

\* Zenon is tried before SMT, and both have a minute.
USE ZenonT(60), SMTT(60)

Block == [parent : Nat, txs : SUBSET Tx, own : BOOLEAN, upTo : SUBSET Tx]
Invalid == [block : Nat, head : Nat]

TypeOK ==
  /\ blocks \in Seq(Block)
  /\ chain \in Seq(Nat) /\ log \in Seq(Nat) /\ proposals \in Seq(Nat) /\ heads \in Seq(Nat)
  /\ invalids \in Seq(Invalid)
  /\ pool \subseteq Tx
  /\ spec \in [head : Nat, unapplied : Seq(Nat), guard : SUBSET Nat, proposed : SUBSET Tx]
  /\ running \in BOOLEAN /\ request \in BOOLEAN
  /\ troubles \in Nat

\* No two blocks of the speculative chain hold the same transaction, so that the
\* blacklist loses exactly what a block holds that leaves the chain.
Blacklist(u, proposed, bs) ==
  /\ \A i \in 1..Len(u) : u[i] \in 1..Len(bs)
  /\ \A i, j \in 1..Len(u) : i # j => bs[u[i]].txs \cap bs[u[j]].txs = {}
  /\ proposed = UNION {bs[u[i]].txs : i \in 1..Len(u)}

BlacklistInv == Blacklist(spec.unapplied, spec.proposed, blocks)

Elems(s) == {s[i] : i \in 1..Len(s)}
Distinct(s) == \A i, j \in 1..Len(s) : i # j => s[i] # s[j]

\* The blocks that raft found to be out of order and the worker has not heard of.
Refused == {invalids[i].block : i \in 1..Len(invalids)}

\* Every block is in one place on its way through raft, so that a block that does
\* not extend the chain is not in it.
PlaceInv ==
  /\ Elems(proposals) \cup Elems(log) \cup Elems(chain) \subseteq 1..Len(blocks)
  /\ Elems(heads) \cup Refused \subseteq 1..Len(blocks)
  /\ spec.head \in 0..Len(blocks)
  /\ \A i \in 1..Len(invalids) : invalids[i].head \in 0..Len(blocks)
  /\ Elems(proposals) \cap (Elems(log) \cup Elems(chain) \cup Refused) = {}
  /\ Elems(log) \cap (Elems(chain) \cup Refused) = {}
  /\ Refused \cap Elems(chain) = {}
  /\ Distinct(proposals) /\ Distinct(log)

\* The number of blocks of the chain that the worker has heard of, and the last one.
Heard == Len(chain) - Len(heads)
HeardBlock == IF Heard = 0 THEN Genesis ELSE chain[Heard]

\* The worker hears of the blocks of the chain in their order.
ChainInv ==
  /\ Len(heads) <= Len(chain)
  /\ \A i \in 1..Len(heads) : heads[i] = chain[Heard + i]

\* The blocks of u follow each other, on base, and head is the last one.
OnTop(u, head, base, bs) ==
  /\ u = <<>> => head = base
  /\ u # <<>> => bs[u[1]].parent = base /\ head = u[Len(u)]
  /\ \A i \in 2..Len(u) : bs[u[i]].parent = u[i-1]

\* The speculative chain begins on the last head that the worker has heard of.
SpecInv ==
  troubles = 0 =>
    /\ ~running => spec.unapplied = <<>>
    /\ OnTop(spec.unapplied, spec.head, HeardBlock, blocks)

MinterInv == TypeOK /\ BlacklistInv /\ PlaceInv /\ ChainInv /\ SpecInv

-----------------------------------------------------------------------------
(* Sequences.                                                              *)

\* What a queue holds after a send.
LEMMA AppendFacts ==
  ASSUME NEW S, NEW s \in Seq(S), NEW e \in S
  PROVE  /\ Append(s, e) \in Seq(S) /\ Append(s, e) # <<>>
         /\ Len(Append(s, e)) = Len(s) + 1 /\ Len(s) \in Nat
         /\ Append(s, e)[Len(s) + 1] = e
         /\ \A i \in 1..Len(s) : Append(s, e)[i] = s[i]
         /\ Elems(Append(s, e)) = Elems(s) \cup {e}
         /\ Distinct(s) /\ e \notin Elems(s) => Distinct(Append(s, e))
<1>1. /\ Append(s, e) \in Seq(S) /\ Append(s, e) # <<>>
      /\ Len(Append(s, e)) = Len(s) + 1 /\ Len(s) \in Nat
      /\ Append(s, e)[Len(s) + 1] = e
      /\ \A i \in 1..Len(s) : Append(s, e)[i] = s[i]
  BY SMTT(60)
<1>2. 1..Len(s) + 1 = 1..Len(s) \cup {Len(s) + 1}
  BY <1>1, SMTT(60)
<1>3. Elems(Append(s, e)) = Elems(s) \cup {e}
  BY <1>1, <1>2 DEF Elems
<1>4. ASSUME Distinct(s), e \notin Elems(s),
             NEW i \in 1..Len(Append(s, e)), NEW j \in 1..Len(Append(s, e)), i # j
      PROVE  Append(s, e)[i] # Append(s, e)[j]
  <2>1. \A k \in 1..Len(s) : s[k] # e
    BY <1>4 DEF Elems
  <2>2. \A k \in 1..Len(Append(s, e)) : k \in 1..Len(s) \/ k = Len(s) + 1
    BY <1>1, SMTT(60)
  <2>3. CASE i \in 1..Len(s) /\ j \in 1..Len(s)
    BY <1>1, <1>4, <2>3 DEF Distinct
  <2> QED
    BY <1>1, <1>4, <2>1, <2>2, <2>3
<1> QED
  BY <1>1, <1>3, <1>4 DEF Distinct

\* What a queue holds after a receive.
LEMMA TailFacts ==
  ASSUME NEW S, NEW s \in Seq(S), s # <<>>
  PROVE  /\ Tail(s) \in Seq(S) /\ Len(Tail(s)) = Len(s) - 1 /\ Len(s) \in Nat \ {0}
         /\ Head(s) \in S /\ Head(s) = s[1]
         /\ \A i \in 1..Len(Tail(s)) : Tail(s)[i] = s[i+1]
         /\ Elems(s) = Elems(Tail(s)) \cup {Head(s)}
         /\ Distinct(s) => Head(s) \notin Elems(Tail(s)) /\ Distinct(Tail(s))
<1>1. /\ Tail(s) \in Seq(S) /\ Len(Tail(s)) = Len(s) - 1 /\ Len(s) \in Nat \ {0}
      /\ Head(s) \in S /\ Head(s) = s[1]
      /\ \A i \in 1..Len(Tail(s)) : Tail(s)[i] = s[i+1]
  BY SMTT(60)
<1>2. \A i \in 1..Len(s) : i = 1 \/ (i - 1 \in 1..Len(Tail(s)) /\ s[i] = Tail(s)[i-1])
  BY <1>1, SMTT(60)
<1>3. \A i \in 1..Len(Tail(s)) : i + 1 \in 1..Len(s) /\ i + 1 # 1
  BY <1>1, SMTT(60)
<1>4. 1 \in 1..Len(s)
  BY <1>1, SMTT(60)
<1>5. Elems(s) = Elems(Tail(s)) \cup {Head(s)}
  <2>1. Elems(s) \subseteq Elems(Tail(s)) \cup {Head(s)}
    BY <1>1, <1>2, SMTT(60) DEF Elems
  <2>2. Elems(Tail(s)) \cup {Head(s)} \subseteq Elems(s)
    BY <1>1, <1>3, <1>4, SMTT(60) DEF Elems
  <2> QED
    BY <2>1, <2>2
<1>6. ASSUME Distinct(s)
      PROVE  Head(s) \notin Elems(Tail(s)) /\ Distinct(Tail(s))
  <2>1. Head(s) \notin Elems(Tail(s))
    BY <1>1, <1>3, <1>4, <1>6, SMTT(60) DEF Elems, Distinct
  <2>2. ASSUME NEW i \in 1..Len(Tail(s)), NEW j \in 1..Len(Tail(s)), i # j
        PROVE  Tail(s)[i] # Tail(s)[j]
    <3>1. i + 1 # j + 1
      BY <2>2, SMTT(60)
    <3> QED
      BY <1>1, <1>3, <1>6, <2>2, <3>1, SMTT(60) DEF Distinct
  <2> QED
    BY <2>1, <2>2 DEF Distinct
<1> QED
  BY <1>1, <1>5, <1>6

-----------------------------------------------------------------------------
(* Types.                                                                  *)

\* What a block is: its parent, and transactions.
LEMMA NewBlockFacts ==
  ASSUME TypeOK, NEW parent \in Nat, parent \in 0..Len(blocks), NEW txs \in SUBSET Tx,
         NEW own \in BOOLEAN, blocks' = NewBlock(parent, txs, own)
  PROVE  /\ blocks' \in Seq(Block) /\ Len(blocks') = Len(blocks) + 1 /\ Len(blocks) \in Nat
         /\ blocks'[Len(blocks) + 1].txs = txs /\ blocks'[Len(blocks) + 1].parent = parent
         /\ \A b \in 1..Len(blocks) : blocks'[b] = blocks[b]
<1>1. blocks \in Seq(Block) /\ Len(blocks) \in Nat
  BY SMTT(60) DEF TypeOK
<1>2. TxsUpTo(parent) \subseteq Tx
  <2>1. CASE parent = Genesis
    BY <2>1 DEF TxsUpTo
  <2>2. CASE parent # Genesis
    <3>1. parent \in 1..Len(blocks)
      BY <1>1, <2>2, SMTT(60) DEF Genesis
    <3>2. blocks[parent] \in Block
      BY <1>1, <3>1, SMTT(60)
    <3> QED
      BY <2>2, <3>2 DEF TxsUpTo, Block
  <2> QED
    BY <2>1, <2>2
<1>3. PICK e \in Block : /\ e.txs = txs /\ e.parent = parent /\ blocks' = Append(blocks, e)
  BY <1>2 DEF NewBlock, Block
<1> QED
  BY <1>1, <1>3, AppendFacts, SMTT(60)

\* The blocks that a new one is built on.
LEMMA ParentFacts ==
  ASSUME TypeOK, PlaceInv
  PROVE  /\ Range(chain) = Elems(chain) /\ DOMAIN blocks = 1..Len(blocks)
         /\ \A b \in Range(chain) \cup {Genesis} \cup DOMAIN blocks : b \in Nat /\ b \in 0..Len(blocks)
         /\ HeadBlock \in Nat /\ HeadBlock \in 0..Len(blocks)
<1>1. /\ DOMAIN chain = 1..Len(chain) /\ Len(chain) \in Nat
      /\ DOMAIN blocks = 1..Len(blocks) /\ Len(blocks) \in Nat
  BY SMTT(60) DEF TypeOK
<1>2. Range(chain) = Elems(chain)
  BY <1>1 DEF Range, Elems
<1>3. \A b \in Range(chain) \cup {Genesis} \cup DOMAIN blocks : b \in Nat /\ b \in 0..Len(blocks)
  BY <1>1, <1>2, SMTT(60) DEF PlaceInv, Genesis
<1>4. HeadBlock \in Nat /\ HeadBlock \in 0..Len(blocks)
  <2>1. CASE chain = <<>>
    BY <1>1, <2>1, SMTT(60) DEF HeadBlock, Genesis
  <2>2. CASE chain # <<>>
    <3>1. Len(chain) \in 1..Len(chain)
      BY <2>2, SMTT(60) DEF TypeOK
    <3>2. HeadBlock \in Elems(chain)
      BY <2>2, <3>1 DEF HeadBlock, Last, Elems
    <3> QED
      BY <1>2, <1>3, <3>2
  <2> QED
    BY <2>1, <2>2
<1> QED
  BY <1>1, <1>2, <1>3, <1>4

\* The operations of the speculative chain, on its types.
LEMMA AcceptType ==
  ASSUME TypeOK, NEW b \in Nat
  PROVE  /\ Accept(spec, b) \in [head : Nat, unapplied : Seq(Nat), guard : SUBSET Nat,
                                 proposed : SUBSET Tx]
         /\ SetHead(spec, b) \in [head : Nat, unapplied : Seq(Nat), guard : SUBSET Nat,
                                  proposed : SUBSET Tx]
<1>1. spec.unapplied \in Seq(Nat) /\ <<>> \in Seq(Nat) /\ spec.proposed \subseteq Tx
  BY SMTT(60) DEF TypeOK
<1>2. spec.unapplied # <<>> => Tail(spec.unapplied) \in Seq(Nat)
  BY <1>1, SMTT(60)
<1> QED
  BY <1>1, <1>2 DEF TypeOK, Accept, SetHead, Clear

\* A set of naturals that is not empty has a least element.
LEMMA LeastNat ==
  ASSUME NEW T \in SUBSET Nat, T # {}
  PROVE  \E n \in T : \A m \in T : n <= m
<1>1. IsWellFoundedOn(OpToRel(<, Nat), Nat)
  BY NatLessThanWellFounded
<1>2. PICK n \in T : \A m \in T : ~(<<m, n>> \in OpToRel(<, Nat))
  BY <1>1, WFMin
<1>3. \A m \in T : ~(m < n)
  BY <1>2 DEF OpToRel
<1>4. \A m \in T : n <= m
  BY <1>3, SMTT(60)
<1> QED
  BY <1>4

\* UnwindFrom keeps a part of the chain from its beginning.
LEMMA UnwindFacts ==
  ASSUME TypeOK, NEW b \in Nat, NEW head \in Nat
  PROVE  \/ UnwindFrom(spec, b, head) = spec
         \/ UnwindFrom(spec, b, head) = [spec EXCEPT !.guard = @ \ {b}]
         \/ \E k \in Nat :
              LET u == spec.unapplied
                  rest == SubSeq(u, 1, k)
                  popped == {u[i] : i \in k+1..Len(u)}
              IN  /\ k < Len(u)
                  /\ UnwindFrom(spec, b, head) =
                       [head |-> IF rest = <<>> THEN head ELSE Last(rest),
                        unapplied |-> rest,
                        guard |-> spec.guard \cup (popped \ {b}),
                        proposed |-> spec.proposed \ TxsIn(popped)]
<1> DEFINE u == spec.unapplied
           I == {i \in 1..Len(u) : u[i] = b}
           first == CHOOSE i \in I : \A j \in I : i <= j
           keep == indexOf(u, b) - 1
           rest == SubSeq(u, 1, keep)
           popped == Range(SubSeq(u, Len(rest) + 1, Len(u)))
<1>1. u \in Seq(Nat) /\ Len(u) \in Nat
  BY SMTT(60) DEF TypeOK
<1>2. keep = (IF I = {} THEN 0 ELSE first) - 1
  BY DEF indexOf
<1>3. I # {} => first \in I
  <2>1. I \in SUBSET Nat
    BY <1>1, SMTT(60)
  <2> HIDE DEF I
  <2> QED
    BY <2>1, LeastNat
<1> DEFINE k == IF I # {} THEN first - 1 ELSE 0
<1>4. k \in Nat /\ keep \in Int /\ k <= Len(u) /\ (keep = k \/ (keep < 1 /\ k < 1))
  <2>1. CASE I # {}
    <3>1. PICK i \in 1..Len(u) : i = first
      BY <1>3, <2>1
    <3>2. k = i - 1 /\ keep = i - 1
      BY <1>2, <2>1, <3>1
    <3> HIDE DEF I, first, keep, k
    <3> QED
      BY ONLY <1>1, <3>2, SMTT(60)
  <2>2. CASE I = {}
    <3>1. k = 0 /\ keep = 0 - 1
      BY <1>2, <2>2
    <3> HIDE DEF I, first, keep, k
    <3> QED
      BY ONLY <1>1, <3>1, SMTT(60)
  <2> QED
    BY ONLY <2>1, <2>2, ZenonT(60)
<1> HIDE DEF I, first, keep, k
<1>5. rest = SubSeq(u, 1, k)
  <2>1. keep < 1 => SubSeq(u, 1, keep) = <<>>
    BY <1>4, SMTT(60)
  <2>2. k < 1 => SubSeq(u, 1, k) = <<>>
    BY <1>4, SMTT(60)
  <2> QED
    BY <1>4, <2>1, <2>2
<1>6. Len(rest) = k
  <2>1. \A i \in 1..k : u[i] \in Nat
    BY <1>1, <1>4, SMTT(60)
  <2>2. Len(SubSeq(u, 1, k)) = IF 1 <= k THEN k - 1 + 1 ELSE 0
    BY <1>4, <2>1, SMTT(60)
  <2> QED
    BY <1>4, <1>5, <2>2, SMTT(60)
<1> DEFINE last == SubSeq(u, k + 1, Len(u))
<1>7. popped = {u[i] : i \in k+1..Len(u)}
  <2>1. \A i \in k+1..Len(u) : u[i] \in Nat
    BY <1>1, <1>4, SMTT(60)
  <2>2. /\ last \in Seq(Nat)
        /\ Len(last) = IF k + 1 <= Len(u) THEN Len(u) - (k + 1) + 1 ELSE 0
        /\ \A i \in 1..Len(u)-(k+1)+1 : last[i] = u[k + 1 + i - 1]
    <3>1. k + 1 \in Int /\ Len(u) \in Int
      BY <1>1, <1>4, SMTT(60)
    <3> QED
      BY ONLY <2>1, <3>1, SMTT(60)
  <2>3. Len(last) = Len(u) - k /\ DOMAIN last = 1..Len(u) - k
    BY <1>1, <1>4, <2>2, SMTT(60)
  <2>4. \A i \in 1..Len(u) - k : last[i] = u[k + i] /\ k + i \in k+1..Len(u)
    BY <1>1, <1>4, <2>2, SMTT(60)
  <2>5. \A i \in k+1..Len(u) : i - k \in 1..Len(u) - k /\ last[i - k] = u[i]
    <3> SUFFICES ASSUME NEW i \in k+1..Len(u)
                 PROVE  i - k \in 1..Len(u) - k /\ last[i - k] = u[i]
      OBVIOUS
    <3>1. i - k \in 1..Len(u) - k /\ k + (i - k) = i
      BY <1>1, <1>4, SMTT(60)
    <3> QED
      BY <2>4, <3>1
  <2>6. popped = Range(last)
    BY <1>6
  <2> HIDE DEF last, popped
  <2>7. Range(last) = {last[i] : i \in 1..Len(u) - k}
    BY <2>3 DEF Range
  <2>8. Range(last) \subseteq {u[i] : i \in k+1..Len(u)}
    BY <2>4, <2>7
  <2>9. {u[i] : i \in k+1..Len(u)} \subseteq Range(last)
    BY <2>5, <2>7
  <2> QED
    BY <2>6, <2>8, <2>9
<1>8. popped # {} => k < Len(u)
  BY <1>1, <1>4, <1>7, SMTT(60)
<1>9. UnwindFrom(spec, b, head) =
        IF b \in spec.guard THEN [spec EXCEPT !.guard = @ \ {b}]
        ELSE IF popped = {} THEN spec
        ELSE [head |-> IF rest = <<>> THEN head ELSE Last(rest),
              unapplied |-> rest,
              guard |-> spec.guard \cup (popped \ {b}),
              proposed |-> spec.proposed \ TxsIn(popped)]
  BY DEF UnwindFrom, keep
<1> HIDE DEF u, rest, popped
<1>10. CASE b \in spec.guard
  BY <1>9, <1>10
<1>11. CASE b \notin spec.guard /\ popped = {}
  BY <1>9, <1>11
<1>12. CASE b \notin spec.guard /\ popped # {}
  <2>1. UnwindFrom(spec, b, head) =
          [head |-> IF rest = <<>> THEN head ELSE Last(rest),
           unapplied |-> rest,
           guard |-> spec.guard \cup (popped \ {b}),
           proposed |-> spec.proposed \ TxsIn(popped)]
    BY <1>9, <1>12
  <2> QED
    BY <1>4, <1>5, <1>7, <1>8, <1>12, <2>1 DEF u
<1> QED
  BY <1>10, <1>11, <1>12

\* UnwindFrom, on the types of the speculative chain.
LEMMA UnwindType ==
  ASSUME TypeOK, NEW b \in Nat, NEW head \in Nat
  PROVE  UnwindFrom(spec, b, head) \in [head : Nat, unapplied : Seq(Nat), guard : SUBSET Nat,
                                        proposed : SUBSET Tx]
<1>1. spec \in [head : Nat, unapplied : Seq(Nat), guard : SUBSET Nat, proposed : SUBSET Tx]
  BY DEF TypeOK
<1>2. CASE UnwindFrom(spec, b, head) = spec
  BY <1>1, <1>2
<1>3. CASE UnwindFrom(spec, b, head) = [spec EXCEPT !.guard = @ \ {b}]
  BY <1>1, <1>3
<1> DEFINE u == spec.unapplied
<1>4. ASSUME NEW k \in Nat, k < Len(u),
             UnwindFrom(spec, b, head) =
               [head |-> IF SubSeq(u, 1, k) = <<>> THEN head ELSE Last(SubSeq(u, 1, k)),
                unapplied |-> SubSeq(u, 1, k),
                guard |-> spec.guard \cup ({u[i] : i \in k+1..Len(u)} \ {b}),
                proposed |-> spec.proposed \ TxsIn({u[i] : i \in k+1..Len(u)})]
      PROVE  UnwindFrom(spec, b, head) \in [head : Nat, unapplied : Seq(Nat), guard : SUBSET Nat,
                                            proposed : SUBSET Tx]
  <2>1. u \in Seq(Nat) /\ Len(u) \in Nat
    BY <1>1, SMTT(60)
  <2>2. SubSeq(u, 1, k) \in Seq(Nat)
    <3>1. \A i \in 1..k : u[i] \in Nat
      BY <1>4, <2>1, SMTT(60)
    <3> QED
      BY <3>1, SMTT(60)
  <2> DEFINE rest == SubSeq(u, 1, k)
             popped == {u[i] : i \in k+1..Len(u)}
  <2>3. rest # <<>> => Last(rest) \in Nat
    <3>1. rest # <<>> => Len(rest) \in 1..Len(rest)
      BY <2>2, SMTT(60)
    <3> QED
      BY <2>2, <3>1, SMTT(60) DEF Last
  <2>4. spec.guard \cup (popped \ {b}) \subseteq Nat
    BY <1>1, <1>4, <2>1, SMTT(60)
  <2>5. spec.proposed \ TxsIn(popped) \subseteq Tx
    BY <1>1
  <2>6. UnwindFrom(spec, b, head) = [head |-> IF rest = <<>> THEN head ELSE Last(rest),
                                     unapplied |-> rest, guard |-> spec.guard \cup (popped \ {b}),
                                     proposed |-> spec.proposed \ TxsIn(popped)]
    BY <1>4
  <2>7. rest \in Seq(Nat)
    BY <2>2
  <2> HIDE DEF rest, popped
  <2> QED
    BY <2>3, <2>4, <2>5, <2>6, <2>7, SMTT(60)
<1> QED
  BY <1>2, <1>3, <1>4, UnwindFacts

\* Every step keeps the types.
LEMMA TypeStep ==
  ASSUME TypeOK, PlaceInv, Next
  PROVE  TypeOK'
<1>1. CASE Start \/ Stop \/ mintNothing \/ (\E t \in Tx : NewTxs(t))
  <2>1. /\ UNCHANGED <<blocks, chain, log, proposals, heads, invalids, spec>>
        /\ pool' \subseteq Tx /\ running' \in BOOLEAN /\ request' \in BOOLEAN
        /\ troubles' \in {troubles, troubles + 1}
    BY <1>1 DEF TypeOK, Start, Stop, mintNothing, NewTxs
  <2> QED
    BY <2>1, SMTT(60) DEF TypeOK
<1>2. ASSUME NEW txs \in SUBSET Available, commitRaftWork(txs)
      PROVE  TypeOK'
  <2>1. txs \subseteq Tx
    BY DEF Available, WithoutProposedTxes, TypeOK
  <2>2. spec.head \in Nat /\ spec.head \in 0..Len(blocks) /\ Len(blocks) + 1 \in Nat
    BY SMTT(60) DEF TypeOK, PlaceInv
  <2>3. blocks' = NewBlock(spec.head, txs, TRUE)
    BY <1>2 DEF commitRaftWork
  <2>4. blocks' \in Seq(Block)
    BY <2>1, <2>2, <2>3, NewBlockFacts
  <2>5. /\ proposals' = Append(proposals, Len(blocks) + 1)
        /\ spec' = Extend(spec, Len(blocks) + 1, txs)
        /\ request' = FALSE
        /\ UNCHANGED <<chain, log, heads, invalids, pool, running, troubles>>
    BY <1>2 DEF commitRaftWork
  <2>6. spec' \in [head : Nat, unapplied : Seq(Nat), guard : SUBSET Nat, proposed : SUBSET Tx]
    BY <2>1, <2>2, <2>5, AppendFacts DEF TypeOK, Extend
  <2>7. proposals' \in Seq(Nat)
    BY <2>2, <2>5, SMTT(60) DEF TypeOK
  <2> QED
    BY <2>4, <2>5, <2>6, <2>7 DEF TypeOK
<1>3. CASE Propose
  BY <1>3, SMTT(60) DEF Propose, TypeOK
<1>4. CASE Lose
  BY <1>4, SMTT(60) DEF Lose, TypeOK
<1>5. ASSUME NEW parent \in Range(chain) \cup {Genesis} \cup {b \in DOMAIN blocks : ~blocks[b].own},
             NEW txs \in SUBSET (Tx \ TxsUpTo(parent)), Foreign(parent, txs)
      PROVE  TypeOK'
  <2>1. parent \in Nat /\ parent \in 0..Len(blocks) /\ txs \in SUBSET Tx
    BY ParentFacts
  <2>2. blocks' = NewBlock(parent, txs, FALSE)
    BY <1>5 DEF Foreign
  <2>3. blocks' \in Seq(Block)
    BY <2>1, <2>2, NewBlockFacts
  <2>4. Len(blocks) + 1 \in Nat
    BY SMTT(60) DEF TypeOK
  <2> QED
    BY <1>5, <2>3, <2>4, AppendFacts DEF Foreign, TypeOK
<1>6. CASE applyNewChainHead
  <2>1. Head(log) \in Nat /\ Tail(log) \in Seq(Nat)
    BY <1>6, SMTT(60) DEF applyNewChainHead, TypeOK
  <2>2. chain' \in Seq(Nat) /\ heads' \in Seq(Nat) /\ log' \in Seq(Nat)
    BY <1>6, <2>1, SMTT(60) DEF applyNewChainHead, TypeOK
  <2>3. UNCHANGED <<blocks, proposals, invalids, pool, spec, running, request, troubles>>
    BY <1>6 DEF applyNewChainHead
  <2> QED
    BY <2>2, <2>3 DEF TypeOK
<1>7. CASE sendInvalidRaftOrdering
  <2>1. Head(log) \in Nat /\ Tail(log) \in Seq(Nat) /\ HeadBlock \in Nat
    BY <1>7, ParentFacts, SMTT(60) DEF sendInvalidRaftOrdering, TypeOK
  <2>2. [block |-> Head(log), head |-> HeadBlock] \in Invalid
    BY <2>1 DEF Invalid
  <2> QED
    BY <1>7, <2>1, <2>2, SMTT(60) DEF sendInvalidRaftOrdering, TypeOK
<1>8. CASE raftLoopHead
  <2>1. Head(heads) \in Nat /\ Tail(heads) \in Seq(Nat)
    BY <1>8, SMTT(60) DEF raftLoopHead, TypeOK
  <2>2. spec' \in [head : Nat, unapplied : Seq(Nat), guard : SUBSET Nat, proposed : SUBSET Tx]
    BY <1>8, <2>1, AcceptType DEF raftLoopHead
  <2> QED
    BY <1>8, <2>1, <2>2 DEF raftLoopHead, TypeOK
<1>9. CASE raftLoopInvalid
  <2>1. Head(invalids).block \in Nat /\ Head(invalids).head \in Nat
    <3>1. Head(invalids) \in Invalid
      BY <1>9, TailFacts DEF raftLoopInvalid, TypeOK
    <3> QED
      BY <3>1 DEF Invalid
  <2>2. spec' \in [head : Nat, unapplied : Seq(Nat), guard : SUBSET Nat, proposed : SUBSET Tx]
    <3>1. spec' = spec \/ spec' = UnwindFrom(spec, Head(invalids).block, Head(invalids).head)
      BY <1>9 DEF raftLoopInvalid
    <3> QED
      BY <2>1, <3>1, UnwindType DEF TypeOK
  <2> QED
    BY <1>9, <2>2, SMTT(60) DEF raftLoopInvalid, TypeOK
<1> QED
  BY <1>1, <1>2, <1>3, <1>4, <1>5, <1>6, <1>7, <1>8, <1>9 DEF Next

-----------------------------------------------------------------------------
(* The blacklist.                                                          *)

\* More blocks do not matter.
LEMMA BlacklistGrows ==
  ASSUME NEW u \in Seq(Nat), NEW P, NEW bs, NEW cs, Blacklist(u, P, bs),
         Len(bs) \in Nat, Len(cs) \in Nat, Len(bs) <= Len(cs),
         \A b \in 1..Len(bs) : cs[b] = bs[b]
  PROVE  Blacklist(u, P, cs)
<1>1. \A i \in 1..Len(u) : cs[u[i]] = bs[u[i]]
  BY DEF Blacklist
<1>2. {cs[u[i]].txs : i \in 1..Len(u)} = {bs[u[i]].txs : i \in 1..Len(u)}
  BY <1>1
<1>3. \A i \in 1..Len(u) : u[i] \in 1..Len(cs)
  BY SMTT(60) DEF Blacklist
<1> QED
  BY <1>1, <1>2, <1>3 DEF Blacklist

\* Extend with a block that has other transactions.
LEMMA BlacklistExtends ==
  ASSUME NEW u \in Seq(Nat), NEW P, NEW bs, Blacklist(u, P, bs),
         NEW b \in Nat, b \in 1..Len(bs), bs[b].txs \cap P = {}
  PROVE  Blacklist(Append(u, b), P \cup bs[b].txs, bs)
<1> DEFINE v == Append(u, b)
<1>1. /\ Len(v) = Len(u) + 1 /\ Len(u) \in Nat /\ v[Len(u) + 1] = b
      /\ \A i \in 1..Len(u) : v[i] = u[i]
  BY AppendFacts, SMTT(60)
<1> HIDE DEF v
<1>2. \A i \in 1..Len(v) : i \in 1..Len(u) \/ i = Len(u) + 1
  BY <1>1, SMTT(60)
<1>3. \A i \in 1..Len(u) : i \in 1..Len(v) /\ bs[u[i]].txs \subseteq P
  <2>1. \A i \in 1..Len(u) : i \in 1..Len(v)
    BY <1>1, SMTT(60)
  <2>2. \A i \in 1..Len(u) : bs[u[i]].txs \subseteq P
    BY DEF Blacklist
  <2> QED
    BY <2>1, <2>2
<1>4. \A i \in 1..Len(v) : v[i] \in 1..Len(bs)
  BY <1>1, <1>2 DEF Blacklist
<1>5. ASSUME NEW i \in 1..Len(v), NEW j \in 1..Len(v), i # j
      PROVE  bs[v[i]].txs \cap bs[v[j]].txs = {}
  <2>1. CASE i \in 1..Len(u) /\ j \in 1..Len(u)
    BY <1>1, <1>5, <2>1 DEF Blacklist
  <2>2. CASE i \in 1..Len(u) /\ j = Len(u) + 1
    BY <1>1, <1>3, <2>2
  <2>3. CASE j \in 1..Len(u) /\ i = Len(u) + 1
    BY <1>1, <1>3, <2>3
  <2> QED
    BY <1>2, <1>5, <2>1, <2>2, <2>3
<1>6. P \cup bs[b].txs = UNION {bs[v[i]].txs : i \in 1..Len(v)}
  <2>1. P = UNION {bs[u[i]].txs : i \in 1..Len(u)}
    BY DEF Blacklist
  <2>2. Len(u) + 1 \in 1..Len(v)
    BY <1>1, SMTT(60)
  <2>3. ASSUME NEW t \in P \cup bs[b].txs
        PROVE  \E i \in 1..Len(v) : t \in bs[v[i]].txs
    <3>1. CASE t \in P
      <4>1. PICK i \in 1..Len(u) : t \in bs[u[i]].txs
        BY <2>1, <3>1
      <4> QED
        BY <1>1, <1>3, <4>1
    <3>2. CASE t \in bs[b].txs
      BY <1>1, <2>2, <3>2
    <3> QED
      BY <3>1, <3>2
  <2>4. ASSUME NEW i \in 1..Len(v)
        PROVE  bs[v[i]].txs \subseteq P \cup bs[b].txs
    BY <1>1, <1>2, <1>3
  <2> QED
    BY <2>3, <2>4
<1> QED
  BY <1>4, <1>5, <1>6 DEF Blacklist, v

\* v is what is left of u without the places of J, and f says where it was.
Remains(u, v, f, J) ==
  /\ J \subseteq 1..Len(u)
  /\ \A i \in 1..Len(v) : f[i] \in 1..Len(u) \ J /\ v[i] = u[f[i]]
  /\ \A i, j \in 1..Len(v) : i # j => f[i] # f[j]
  /\ \A i \in 1..Len(u) \ J : \E j \in 1..Len(v) : f[j] = i

\* A part of the chain leaves it, and with it the part's transactions.
LEMMA BlacklistShrinks ==
  ASSUME NEW u \in Seq(Nat), NEW P, NEW bs, Blacklist(u, P, bs), NEW v, NEW f, NEW J,
         Remains(u, v, f, J), NEW gone, gone = UNION {bs[u[i]].txs : i \in J}
  PROVE  Blacklist(v, P \ gone, bs)
<1> USE DEF Remains
<1>1. \A i \in 1..Len(v) : f[i] \in 1..Len(u)
  OBVIOUS
<1>2. \A i \in 1..Len(v) : v[i] \in 1..Len(bs)
  BY <1>1 DEF Blacklist
<1>3. ASSUME NEW i \in 1..Len(v), NEW j \in 1..Len(v), i # j
      PROVE  bs[v[i]].txs \cap bs[v[j]].txs = {}
  <2>1. f[i] \in 1..Len(u) /\ f[j] \in 1..Len(u) /\ f[i] # f[j]
    BY <1>1, <1>3
  <2>2. bs[u[f[i]]].txs \cap bs[u[f[j]]].txs = {}
    BY <2>1 DEF Blacklist
  <2> QED
    BY <2>2
<1>4. P \ gone = UNION {bs[v[i]].txs : i \in 1..Len(v)}
  <2>1. ASSUME NEW t \in P \ gone PROVE t \in UNION {bs[v[i]].txs : i \in 1..Len(v)}
    <3>0. P = UNION {bs[u[i]].txs : i \in 1..Len(u)} /\ t \in P
      BY DEF Blacklist
    <3>1. PICK i \in 1..Len(u) : t \in bs[u[i]].txs
      BY ONLY <3>0, ZenonT(60)
    <3>2. i \notin J
      BY <3>1, SMTT(60)
    <3>3. PICK j \in 1..Len(v) : f[j] = i
      BY <3>2
    <3>4. t \in bs[v[j]].txs
      BY <3>1, <3>3
    <3> QED
      BY ONLY <3>4, j \in 1..Len(v), ZenonT(60)
  <2>2. ASSUME NEW j \in 1..Len(v), NEW t \in bs[v[j]].txs PROVE t \in P \ gone
    <3>1. t \in bs[u[f[j]]].txs /\ f[j] \in 1..Len(u) /\ f[j] \notin J
      BY <1>1, <2>2
    <3>2. t \in P
      BY <3>1, SMTT(60) DEF Blacklist
    <3>3. \A i \in J : t \notin bs[u[i]].txs
      BY <3>1 DEF Blacklist
    <3> QED
      BY <3>2, <3>3, SMTT(60)
  <2>3. P \ gone \subseteq UNION {bs[v[i]].txs : i \in 1..Len(v)}
    BY <2>1
  <2>4. UNION {bs[v[i]].txs : i \in 1..Len(v)} \subseteq P \ gone
    BY ONLY <2>2, ZenonT(60)
  <2> QED
    BY <2>3, <2>4
<1> QED
  BY <1>2, <1>3, <1>4 DEF Blacklist

\* Accept takes the block that waits first from the chain.
LEMMA BlacklistTail ==
  ASSUME NEW u \in Seq(Nat), NEW P, NEW bs, Blacklist(u, P, bs), u # <<>>
  PROVE  Blacklist(Tail(u), P \ bs[Head(u)].txs, bs)
<1> DEFINE v == Tail(u)
           f == [i \in 1..Len(v) |-> i + 1]
           gone == bs[Head(u)].txs
<1>1. /\ Len(v) = Len(u) - 1 /\ Len(u) \in Nat \ {0} /\ Head(u) = u[1]
      /\ \A i \in 1..Len(v) : v[i] = u[i+1]
  BY TailFacts, SMTT(60)
<1> HIDE DEF v
<1>2. \A i \in 1..Len(v) : f[i] \in 1..Len(u) \ {1} /\ v[i] = u[f[i]] /\ f[i] = i + 1
  BY <1>1, SMTT(60)
<1>3. \A i \in 1..Len(u) \ {1} : i - 1 \in 1..Len(v) /\ f[i-1] = i
  BY <1>1, SMTT(60)
<1>4. Remains(u, v, f, {1})
  <2>1. {1} \subseteq 1..Len(u)
    BY <1>1, SMTT(60)
  <2>2. \A i \in 1..Len(u) \ {1} : \E j \in 1..Len(v) : f[j] = i
    BY <1>3
  <2> HIDE DEF f
  <2> QED
    BY <1>2, <2>1, <2>2, SMTT(60) DEF Remains
<1>5. gone = UNION {bs[u[i]].txs : i \in {1}}
  BY <1>1
<1> HIDE DEF f, gone
<1>6. Blacklist(v, P \ gone, bs)
  BY <1>4, <1>5, BlacklistShrinks
<1> QED
  BY <1>6 DEF v, gone

\* UnwindFrom keeps the first k blocks.
LEMMA BlacklistPrefix ==
  ASSUME NEW u \in Seq(Nat), NEW P, NEW bs, Blacklist(u, P, bs), NEW k \in Nat, k < Len(u)
  PROVE  Blacklist(SubSeq(u, 1, k), P \ UNION {bs[b].txs : b \in {u[i] : i \in k+1..Len(u)}}, bs)
<1> DEFINE v == SubSeq(u, 1, k)
           f == [i \in 1..k |-> i]
           gone == UNION {bs[b].txs : b \in {u[i] : i \in k+1..Len(u)}}
<1>1. Len(u) \in Nat /\ Len(v) = k /\ \A i \in 1..k : v[i] = u[i]
  <2>1. \A i \in 1..k : u[i] \in Nat
    BY SMTT(60)
  <2>2. /\ Len(v) = IF 1 <= k THEN k - 1 + 1 ELSE 0
        /\ \A i \in 1..k-1+1 : v[i] = u[1 + i - 1]
    BY <2>1, SMTT(60)
  <2> QED
    BY <2>2, SMTT(60)
<1> HIDE DEF v
<1>2. \A i \in 1..Len(v) : f[i] \in 1..Len(u) \ (k+1..Len(u)) /\ v[i] = u[f[i]] /\ f[i] = i
  BY <1>1, SMTT(60)
<1>3. \A i \in 1..Len(u) \ (k+1..Len(u)) : i \in 1..Len(v) /\ f[i] = i
  BY <1>1, SMTT(60)
<1>4. Remains(u, v, f, k+1..Len(u))
  <2>1. k+1..Len(u) \subseteq 1..Len(u)
    BY <1>1, SMTT(60)
  <2>2. \A i \in 1..Len(u) \ (k+1..Len(u)) : \E j \in 1..Len(v) : f[j] = i
    BY <1>3
  <2> HIDE DEF f
  <2> QED
    BY <1>2, <2>1, <2>2, SMTT(60) DEF Remains
<1>5. gone = UNION {bs[u[i]].txs : i \in k+1..Len(u)}
  BY ONLY ZenonT(60)
<1> HIDE DEF f, gone
<1>6. Blacklist(v, P \ gone, bs)
  BY <1>4, <1>5, BlacklistShrinks
<1> QED
  BY <1>6 DEF v, gone

\* The blacklist is what the blocks of the speculative chain hold, whatever
\* becomes of them.
LEMMA BlacklistStep ==
  ASSUME TypeOK, PlaceInv, BlacklistInv, Next
  PROVE  BlacklistInv'
<1>1. spec.unapplied \in Seq(Nat) /\ Blacklist(spec.unapplied, spec.proposed, blocks)
  BY DEF TypeOK, BlacklistInv
<1>2. CASE \/ Start \/ Stop \/ mintNothing \/ (\E t \in Tx : NewTxs(t)) \/ Propose \/ Lose
           \/ applyNewChainHead \/ sendInvalidRaftOrdering
  <2>1. UNCHANGED <<spec, blocks>>
    BY <1>2 DEF Start, Stop, mintNothing, NewTxs, Propose, Lose, applyNewChainHead,
                sendInvalidRaftOrdering
  <2> QED
    BY <1>1, <2>1 DEF BlacklistInv
<1>3. ASSUME NEW txs \in SUBSET Available, commitRaftWork(txs)
      PROVE  BlacklistInv'
  <2>1. txs \in SUBSET Tx /\ txs \cap spec.proposed = {}
    BY DEF Available, WithoutProposedTxes, TypeOK
  <2>2. /\ spec.head \in Nat /\ spec.head \in 0..Len(blocks)
        /\ blocks' = NewBlock(spec.head, txs, TRUE)
        /\ spec' = Extend(spec, Len(blocks) + 1, txs)
    BY <1>3 DEF TypeOK, PlaceInv, commitRaftWork
  <2>3. /\ Len(blocks') = Len(blocks) + 1 /\ Len(blocks) \in Nat
        /\ blocks'[Len(blocks) + 1].txs = txs
        /\ \A b \in 1..Len(blocks) : blocks'[b] = blocks[b]
    BY <2>1, <2>2, NewBlockFacts
  <2>4. Blacklist(spec.unapplied, spec.proposed, blocks')
    BY <1>1, <2>3, BlacklistGrows, SMTT(60)
  <2>5. Blacklist(Append(spec.unapplied, Len(blocks) + 1), spec.proposed \cup txs, blocks')
    BY <1>1, <2>1, <2>3, <2>4, BlacklistExtends, SMTT(60)
  <2>6. /\ spec'.unapplied = Append(spec.unapplied, Len(blocks) + 1)
        /\ spec'.proposed = spec.proposed \cup txs
    BY <2>2 DEF Extend, TypeOK
  <2> QED
    BY <2>5, <2>6 DEF BlacklistInv
<1>4. ASSUME NEW parent \in Range(chain) \cup {Genesis} \cup {b \in DOMAIN blocks : ~blocks[b].own},
             NEW txs \in SUBSET (Tx \ TxsUpTo(parent)), Foreign(parent, txs)
      PROVE  BlacklistInv'
  <2>1. parent \in Nat /\ parent \in 0..Len(blocks) /\ txs \in SUBSET Tx
    BY ParentFacts
  <2>2. blocks' = NewBlock(parent, txs, FALSE) /\ spec' = spec
    BY <1>4 DEF Foreign
  <2>3. /\ Len(blocks') = Len(blocks) + 1 /\ Len(blocks) \in Nat
        /\ \A b \in 1..Len(blocks) : blocks'[b] = blocks[b]
    BY <2>1, <2>2, NewBlockFacts
  <2>4. Blacklist(spec.unapplied, spec.proposed, blocks')
    BY <1>1, <2>3, BlacklistGrows, SMTT(60)
  <2> QED
    BY <2>2, <2>4 DEF BlacklistInv
<1>5. CASE raftLoopHead
  <2>1. /\ blocks' = blocks
        /\ spec' = SetHead(spec, Head(heads)) \/ spec' = Accept(spec, Head(heads))
    BY <1>5 DEF raftLoopHead
  <2>2. CASE spec' = SetHead(spec, Head(heads))
    <3>1. spec'.unapplied = spec.unapplied /\ spec'.proposed = spec.proposed
      BY <2>2 DEF SetHead, TypeOK
    <3> QED
      BY <1>1, <2>1, <3>1 DEF BlacklistInv
  <2>3. CASE spec' = Clear(Head(heads))
    <3>1. spec'.unapplied = <<>> /\ spec'.proposed = {}
      BY <2>3 DEF Clear
    <3>2. Blacklist(<<>>, {}, blocks)
      BY SMTT(60) DEF Blacklist
    <3> QED
      BY <2>1, <3>1, <3>2 DEF BlacklistInv
  <2>4. CASE /\ spec.unapplied # <<>>
             /\ spec' = [spec EXCEPT !.unapplied = Tail(@),
                                     !.proposed = @ \ TxsIn({Head(spec.unapplied)})]
    <3>1. /\ spec'.unapplied = Tail(spec.unapplied)
          /\ spec'.proposed = spec.proposed \ TxsIn({Head(spec.unapplied)})
      BY <2>4 DEF TypeOK
    <3>2. TxsIn({Head(spec.unapplied)}) = blocks[Head(spec.unapplied)].txs
      BY DEF TxsIn
    <3>3. Blacklist(Tail(spec.unapplied), spec.proposed \ blocks[Head(spec.unapplied)].txs, blocks)
      BY <1>1, <2>4, BlacklistTail
    <3> QED
      BY <2>1, <3>1, <3>2, <3>3 DEF BlacklistInv
  <2> QED
    BY <2>1, <2>2, <2>3, <2>4 DEF Accept
<1>6. CASE raftLoopInvalid
  <2>1. /\ blocks' = blocks
        /\ spec' = spec \/ spec' = UnwindFrom(spec, Head(invalids).block, Head(invalids).head)
    BY <1>6 DEF raftLoopInvalid
  <2>2. Head(invalids).block \in Nat /\ Head(invalids).head \in Nat
    <3>1. Head(invalids) \in Invalid
      BY <1>6, TailFacts DEF raftLoopInvalid, TypeOK
    <3> QED
      BY <3>1 DEF Invalid
  <2>3. CASE spec'.unapplied = spec.unapplied /\ spec'.proposed = spec.proposed
    BY <1>1, <2>1, <2>3 DEF BlacklistInv
  <2>4. ASSUME NEW k \in Nat, k < Len(spec.unapplied),
               spec'.unapplied = SubSeq(spec.unapplied, 1, k),
               spec'.proposed =
                 spec.proposed \ TxsIn({spec.unapplied[i] : i \in k+1..Len(spec.unapplied)})
        PROVE  BlacklistInv'
    <3> DEFINE gone == {spec.unapplied[i] : i \in k+1..Len(spec.unapplied)}
    <3>1. Blacklist(SubSeq(spec.unapplied, 1, k), spec.proposed \ UNION {blocks[b].txs : b \in gone},
                    blocks)
      BY <1>1, <2>4, BlacklistPrefix
    <3>2. TxsIn(gone) = UNION {blocks[b].txs : b \in gone}
      BY DEF TxsIn
    <3> HIDE DEF gone
    <3> QED
      BY <2>1, <2>4, <3>1, <3>2 DEF BlacklistInv, gone
  <2>5. CASE spec' = UnwindFrom(spec, Head(invalids).block, Head(invalids).head)
    <3> DEFINE u == spec.unapplied
               b == Head(invalids).block
    <3>1. CASE spec' = spec
      BY <2>3, <3>1
    <3>2. CASE spec' = [spec EXCEPT !.guard = @ \ {b}]
      BY <2>3, <3>2 DEF TypeOK
    <3>3. ASSUME NEW k \in Nat, k < Len(u), NEW h, NEW g,
                 spec' = [head |-> h, unapplied |-> SubSeq(u, 1, k), guard |-> g,
                          proposed |-> spec.proposed \ TxsIn({u[i] : i \in k+1..Len(u)})]
          PROVE  BlacklistInv'
      BY <2>4, <3>3
    <3>4. CASE \E k \in Nat : /\ k < Len(u)
                              /\ spec' = [head |-> IF SubSeq(u, 1, k) = <<>> THEN Head(invalids).head
                                                   ELSE Last(SubSeq(u, 1, k)),
                                          unapplied |-> SubSeq(u, 1, k),
                                          guard |-> spec.guard \cup ({u[i] : i \in k+1..Len(u)} \ {b}),
                                          proposed |-> spec.proposed
                                                        \ TxsIn({u[i] : i \in k+1..Len(u)})]
      BY <3>3, <3>4
    <3> QED
      BY <2>2, <2>5, <3>1, <3>2, <3>4, UnwindFacts
  <2> QED
    BY <2>1, <2>3, <2>5
<1> QED
  BY <1>2, <1>3, <1>4, <1>5, <1>6 DEF Next

-----------------------------------------------------------------------------
(* The way of the blocks.                                                  *)

\* A block that is refused is never in the chain, so that
\* updateSpeculativeChainPerInvalidOrdering finds no such block with HasBlock and
\* leaves the speculative chain alone.
LEMMA InvalidIgnored ==
  ASSUME TypeOK, PlaceInv, raftLoopInvalid
  PROVE  spec' = spec
<1>1. Head(invalids).block \in Refused
  <2>1. 1 \in 1..Len(invalids) /\ Head(invalids) = invalids[1]
    BY TailFacts, SMTT(60) DEF raftLoopInvalid, TypeOK
  <2> QED
    BY <2>1 DEF Refused
<1>2. Head(invalids).block \notin Range(chain)
  BY <1>1, ParentFacts DEF PlaceInv
<1> QED
  BY <1>2 DEF raftLoopInvalid

\* Every block is in one place.
LEMMA PlaceStep ==
  ASSUME TypeOK, PlaceInv, Next, TypeOK'
  PROVE  PlaceInv'
<1>1. Len(blocks) \in Nat /\ spec.head \in Nat
  BY SMTT(60) DEF TypeOK
<1>2. CASE Start \/ Stop \/ mintNothing \/ (\E t \in Tx : NewTxs(t))
  <2>1. UNCHANGED <<blocks, chain, log, proposals, heads, invalids, spec>>
    BY <1>2 DEF Start, Stop, mintNothing, NewTxs
  <2> QED
    BY <2>1, SMTT(60) DEF PlaceInv, Refused
<1>3. ASSUME NEW txs \in SUBSET Available, commitRaftWork(txs)
      PROVE  PlaceInv'
  <2>1. txs \in SUBSET Tx
    BY DEF Available, WithoutProposedTxes, TypeOK
  <2>2. /\ blocks' = NewBlock(spec.head, txs, TRUE) /\ spec.head \in 0..Len(blocks)
        /\ spec' = Extend(spec, Len(blocks) + 1, txs)
        /\ proposals' = Append(proposals, Len(blocks) + 1)
        /\ UNCHANGED <<chain, log, heads, invalids>>
    BY <1>3 DEF commitRaftWork, PlaceInv
  <2>3. Len(blocks') = Len(blocks) + 1
    BY <1>1, <2>1, <2>2, NewBlockFacts
  <2>4. spec'.head = Len(blocks) + 1
    BY <2>2 DEF Extend, TypeOK
  <2>5. /\ Elems(proposals') = Elems(proposals) \cup {Len(blocks) + 1}
        /\ Len(blocks) + 1 \notin Elems(proposals) => Distinct(proposals')
    <3>1. proposals \in Seq(Nat) /\ Len(blocks) + 1 \in Nat /\ Distinct(proposals)
      BY <1>1, SMTT(60) DEF TypeOK, PlaceInv
    <3> QED
      BY <2>2, <3>1, AppendFacts, SMTT(60)
  <2>6. /\ 1..Len(blocks) \subseteq 1..Len(blocks') /\ 0..Len(blocks) \subseteq 0..Len(blocks')
        /\ Len(blocks) + 1 \in 1..Len(blocks') /\ Len(blocks) + 1 \notin 1..Len(blocks)
        /\ Len(blocks) + 1 \in 0..Len(blocks')
    BY <1>1, <2>3, SMTT(60)
  <2>7. Refused' = Refused
    BY <2>2 DEF Refused
  <2>8. Len(blocks) + 1 \notin Elems(proposals) \cup Elems(log) \cup Elems(chain) \cup Refused
    BY <2>6 DEF PlaceInv
  <2>9. /\ Elems(proposals') \cup Elems(log') \cup Elems(chain') \subseteq 1..Len(blocks')
        /\ Elems(heads') \cup Refused' \subseteq 1..Len(blocks')
        /\ spec'.head \in 0..Len(blocks')
    BY <2>2, <2>4, <2>5, <2>6, <2>7 DEF PlaceInv
  <2>10. \A i \in 1..Len(invalids') : invalids'[i].head \in 0..Len(blocks')
    BY <2>2, <2>6 DEF PlaceInv
  <2>11. /\ Elems(proposals') \cap (Elems(log') \cup Elems(chain') \cup Refused') = {}
         /\ Elems(log') \cap (Elems(chain') \cup Refused') = {}
         /\ Refused' \cap Elems(chain') = {}
    BY <2>2, <2>5, <2>7, <2>8, SMTT(60) DEF PlaceInv
  <2>12. Distinct(proposals') /\ Distinct(log')
    BY <2>2, <2>5, <2>8 DEF PlaceInv
  <2> QED
    BY <2>9, <2>10, <2>11, <2>12 DEF PlaceInv
<1>4. CASE Propose
  <2>1. /\ proposals # <<>> /\ log' = Append(log, Head(proposals)) /\ proposals' = Tail(proposals)
        /\ UNCHANGED <<blocks, chain, heads, invalids, spec>>
    BY <1>4 DEF Propose
  <2>2. /\ Elems(proposals) = Elems(proposals') \cup {Head(proposals)}
        /\ Head(proposals) \in Nat /\ Head(proposals) \notin Elems(proposals')
        /\ Distinct(proposals')
    BY <2>1, TailFacts DEF TypeOK, PlaceInv
  <2>3. Elems(log') = Elems(log) \cup {Head(proposals)} /\ Distinct(log')
    <3>1. log \in Seq(Nat) /\ Distinct(log) /\ Head(proposals) \notin Elems(log)
      BY <2>2 DEF TypeOK, PlaceInv
    <3> QED
      BY <2>1, <2>2, <3>1, AppendFacts, SMTT(60)
  <2>4. Refused' = Refused
    BY <2>1 DEF Refused
  <2> QED
    BY <2>1, <2>2, <2>3, <2>4 DEF PlaceInv
<1>5. CASE Lose
  <2>1. /\ proposals # <<>> /\ proposals' = Tail(proposals)
        /\ UNCHANGED <<blocks, chain, log, heads, invalids, spec>>
    BY <1>5 DEF Lose
  <2>2. /\ Elems(proposals) = Elems(proposals') \cup {Head(proposals)}
        /\ Distinct(proposals')
    BY <2>1, TailFacts DEF TypeOK, PlaceInv
  <2>3. Refused' = Refused
    BY <2>1 DEF Refused
  <2> QED
    BY <2>1, <2>2, <2>3 DEF PlaceInv
<1>6. ASSUME NEW parent \in Range(chain) \cup {Genesis} \cup {b \in DOMAIN blocks : ~blocks[b].own},
             NEW txs \in SUBSET (Tx \ TxsUpTo(parent)), Foreign(parent, txs)
      PROVE  PlaceInv'
  <2>1. parent \in Nat /\ parent \in 0..Len(blocks) /\ txs \in SUBSET Tx
    BY ParentFacts
  <2>2. /\ blocks' = NewBlock(parent, txs, FALSE) /\ log' = Append(log, Len(blocks) + 1)
        /\ UNCHANGED <<chain, proposals, heads, invalids, spec>>
    BY <1>6 DEF Foreign
  <2>3. Len(blocks') = Len(blocks) + 1
    BY <1>1, <2>1, <2>2, NewBlockFacts
  <2>4. /\ Elems(log') = Elems(log) \cup {Len(blocks) + 1}
        /\ Len(blocks) + 1 \notin Elems(log) => Distinct(log')
    <3>1. log \in Seq(Nat) /\ Len(blocks) + 1 \in Nat /\ Distinct(log)
      BY <1>1, SMTT(60) DEF TypeOK, PlaceInv
    <3> QED
      BY <2>2, <3>1, AppendFacts, SMTT(60)
  <2>5. /\ 1..Len(blocks) \subseteq 1..Len(blocks') /\ 0..Len(blocks) \subseteq 0..Len(blocks')
        /\ Len(blocks) + 1 \in 1..Len(blocks') /\ Len(blocks) + 1 \notin 1..Len(blocks)
    BY <1>1, <2>3, SMTT(60)
  <2>6. Refused' = Refused
    BY <2>2 DEF Refused
  <2>7. Len(blocks) + 1 \notin Elems(proposals) \cup Elems(log) \cup Elems(chain) \cup Refused
    BY <2>5 DEF PlaceInv
  <2>8. /\ Elems(proposals') \cup Elems(log') \cup Elems(chain') \subseteq 1..Len(blocks')
        /\ Elems(heads') \cup Refused' \subseteq 1..Len(blocks')
        /\ spec'.head \in 0..Len(blocks')
    BY <2>2, <2>4, <2>5, <2>6 DEF PlaceInv
  <2>9. \A i \in 1..Len(invalids') : invalids'[i].head \in 0..Len(blocks')
    BY <2>2, <2>5 DEF PlaceInv
  <2>10. /\ Elems(proposals') \cap (Elems(log') \cup Elems(chain') \cup Refused') = {}
         /\ Elems(log') \cap (Elems(chain') \cup Refused') = {}
         /\ Refused' \cap Elems(chain') = {}
    BY <2>2, <2>4, <2>6, <2>7, SMTT(60) DEF PlaceInv
  <2>11. Distinct(proposals') /\ Distinct(log')
    BY <2>2, <2>4, <2>7 DEF PlaceInv
  <2> QED
    BY <2>8, <2>9, <2>10, <2>11 DEF PlaceInv
<1>7. CASE applyNewChainHead
  <2>1. /\ log # <<>> /\ chain' = Append(chain, Head(log)) /\ heads' = Append(heads, Head(log))
        /\ log' = Tail(log) /\ UNCHANGED <<blocks, proposals, invalids, spec>>
    BY <1>7 DEF applyNewChainHead
  <2>2. /\ Elems(log) = Elems(log') \cup {Head(log)}
        /\ Head(log) \in Nat /\ Head(log) \notin Elems(log')
        /\ Distinct(log')
    BY <2>1, TailFacts DEF TypeOK, PlaceInv
  <2>3. Elems(chain') = Elems(chain) \cup {Head(log)} /\ Elems(heads') = Elems(heads) \cup {Head(log)}
    <3>1. chain \in Seq(Nat) /\ heads \in Seq(Nat)
      BY DEF TypeOK
    <3>2. \A s \in Seq(Nat), e \in Nat : Elems(Append(s, e)) = Elems(s) \cup {e}
      BY AppendFacts, SMTT(60)
    <3>3. /\ Elems(Append(chain, Head(log))) = Elems(chain) \cup {Head(log)}
          /\ Elems(Append(heads, Head(log))) = Elems(heads) \cup {Head(log)}
      BY ONLY <2>2, <3>1, <3>2, ZenonT(60)
    <3> QED
      BY ONLY <2>1, <3>3, ZenonT(60)
  <2>4. Refused' = Refused
    BY <2>1 DEF Refused
  <2> QED
    BY <2>1, <2>2, <2>3, <2>4 DEF PlaceInv
<1>8. CASE sendInvalidRaftOrdering
  <2>1. /\ log # <<>> /\ log' = Tail(log) /\ invalids = <<>>
        /\ invalids' = <<[block |-> Head(log), head |-> HeadBlock]>>
        /\ UNCHANGED <<blocks, chain, proposals, heads, spec>>
    BY <1>8 DEF sendInvalidRaftOrdering
  <2>2. /\ Elems(log) = Elems(log') \cup {Head(log)}
        /\ Head(log) \in Nat /\ Head(log) \notin Elems(log')
        /\ Distinct(log')
    BY <2>1, TailFacts DEF TypeOK, PlaceInv
  <2>3. /\ 1..Len(invalids') = {1} /\ invalids'[1].block = Head(log)
        /\ invalids'[1].head = HeadBlock
    BY <2>1, SMTT(60)
  <2>4. Refused' = {Head(log)}
    BY <2>3, SMTT(60) DEF Refused
  <2>5. HeadBlock \in 0..Len(blocks)
    BY ParentFacts
  <2>6. \A i \in 1..Len(invalids') : invalids'[i].head \in 0..Len(blocks')
    BY <2>1, <2>3, <2>5
  <2>7. /\ Elems(proposals') \cap (Elems(log') \cup Elems(chain') \cup Refused') = {}
        /\ Elems(log') \cap (Elems(chain') \cup Refused') = {}
        /\ Refused' \cap Elems(chain') = {}
    BY <2>1, <2>2, <2>4 DEF PlaceInv
  <2>8. /\ Elems(proposals') \cup Elems(log') \cup Elems(chain') \subseteq 1..Len(blocks')
        /\ Elems(heads') \cup Refused' \subseteq 1..Len(blocks')
        /\ spec'.head \in 0..Len(blocks')
    BY <2>1, <2>2, <2>4 DEF PlaceInv
  <2>9. Distinct(proposals') /\ Distinct(log')
    BY <2>1, <2>2 DEF PlaceInv
  <2> QED
    BY <2>6, <2>7, <2>8, <2>9 DEF PlaceInv
<1>9. CASE raftLoopHead
  <2>1. /\ heads # <<>> /\ heads' = Tail(heads)
        /\ spec' = SetHead(spec, Head(heads)) \/ spec' = Accept(spec, Head(heads))
        /\ UNCHANGED <<blocks, chain, log, proposals, invalids>>
    BY <1>9 DEF raftLoopHead
  <2>2. Elems(heads) = Elems(heads') \cup {Head(heads)}
    BY <2>1, TailFacts DEF TypeOK
  <2>3. spec'.head \in {spec.head, Head(heads)}
    <3>1. spec \in [head : Nat, unapplied : Seq(Nat), guard : SUBSET Nat, proposed : SUBSET Tx]
      BY DEF TypeOK
    <3>2. SetHead(spec, Head(heads)).head = Head(heads) /\ Clear(Head(heads)).head = Head(heads)
      BY ONLY <3>1, ZenonT(60) DEF SetHead, Clear
    <3>3. ASSUME spec' = [spec EXCEPT !.unapplied = Tail(@), !.proposed = @ \ TxsIn({Head(heads)})]
          PROVE  spec'.head = spec.head
      BY ONLY <3>1, <3>3, ZenonT(60)
    <3>4. \/ spec' = SetHead(spec, Head(heads)) \/ spec' = Clear(Head(heads))
          \/ spec' = [spec EXCEPT !.unapplied = Tail(@), !.proposed = @ \ TxsIn({Head(heads)})]
      BY ONLY <2>1, ZenonT(60) DEF Accept
    <3> QED
      BY ONLY <3>2, <3>3, <3>4, ZenonT(60)
  <2>4. Head(heads) \in 0..Len(blocks)
    <3>1. Head(heads) \in 1..Len(blocks)
      BY <2>2 DEF PlaceInv
    <3> QED
      BY <1>1, <3>1, SMTT(60)
  <2>5. Refused' = Refused
    BY <2>1 DEF Refused
  <2>6. spec'.head \in 0..Len(blocks)
    BY <2>3, <2>4 DEF PlaceInv
  <2> QED
    BY <2>1, <2>2, <2>5, <2>6 DEF PlaceInv
<1>10. CASE raftLoopInvalid
  <2>1. spec' = spec /\ invalids' = <<>> /\ UNCHANGED <<blocks, chain, log, proposals, heads>>
    BY <1>10, InvalidIgnored DEF raftLoopInvalid
  <2>2. 1..Len(invalids') = {}
    BY <2>1, SMTT(60)
  <2>3. Refused' = {}
    BY <2>2 DEF Refused
  <2> QED
    BY <2>1, <2>2, <2>3 DEF PlaceInv
<1> QED
  BY <1>2, <1>3, <1>4, <1>5, <1>6, <1>7, <1>8, <1>9, <1>10 DEF Next

\* The worker hears of the blocks in the order of the chain.
LEMMA ChainStep ==
  ASSUME TypeOK, ChainInv, Next
  PROVE  ChainInv'
<1>1. /\ chain \in Seq(Nat) /\ heads \in Seq(Nat) /\ Len(chain) \in Nat /\ Len(heads) \in Nat
      /\ Heard \in Nat
  BY SMTT(60) DEF TypeOK, ChainInv, Heard
<1>2. CASE applyNewChainHead
  <2>1. /\ chain' = Append(chain, Head(log)) /\ heads' = Append(heads, Head(log))
        /\ Head(log) \in Nat
    BY <1>2, TailFacts DEF applyNewChainHead, TypeOK
  <2>2. /\ Len(chain') = Len(chain) + 1 /\ chain'[Len(chain) + 1] = Head(log)
        /\ \A i \in 1..Len(chain) : chain'[i] = chain[i]
    BY <1>1, <2>1, AppendFacts, SMTT(60)
  <2>3. /\ Len(heads') = Len(heads) + 1 /\ heads'[Len(heads) + 1] = Head(log)
        /\ \A i \in 1..Len(heads) : heads'[i] = heads[i]
    BY <1>1, <2>1, AppendFacts, SMTT(60)
  <2>4. Heard' = Heard /\ Heard + Len(heads) = Len(chain)
    BY <1>1, <2>2, <2>3, SMTT(60) DEF Heard
  <2>5. ASSUME NEW i \in 1..Len(heads') PROVE heads'[i] = chain'[Heard + i]
    <3>1. CASE i \in 1..Len(heads)
      <4>1. Heard + i \in 1..Len(chain)
        BY <1>1, <2>4, <3>1, SMTT(60)
      <4>2. heads[i] = chain[Heard + i]
        BY <3>1 DEF ChainInv
      <4>3. chain'[Heard + i] = chain[Heard + i] /\ heads'[i] = heads[i]
        BY ONLY <2>2, <2>3, <3>1, <4>1, ZenonT(60)
      <4> QED
        BY <4>2, <4>3
    <3>2. CASE i = Len(heads) + 1
      <4>1. Heard + i = Len(chain) + 1
        <5>1. Heard \in Nat /\ Len(heads) \in Nat
          BY <1>1
        <5>2. Heard + (Len(heads) + 1) = (Heard + Len(heads)) + 1
          BY ONLY <5>1, SMTT(60)
        <5> QED
          BY <2>4, <3>2, <5>2
      <4> QED
        BY <2>2, <2>3, <3>2, <4>1
    <3> QED
      BY <1>1, <2>3, <3>1, <3>2, SMTT(60)
  <2>6. Len(heads') <= Len(chain')
    BY <1>1, <2>2, <2>3, SMTT(60) DEF ChainInv
  <2> QED
    BY <2>4, <2>5, <2>6 DEF ChainInv
<1>3. CASE raftLoopHead
  <2>1. heads # <<>> /\ heads' = Tail(heads) /\ chain' = chain
    BY <1>3 DEF raftLoopHead
  <2>2. /\ Len(heads') = Len(heads) - 1 /\ \A i \in 1..Len(heads') : heads'[i] = heads[i+1]
    BY <1>1, <2>1, TailFacts, SMTT(60)
  <2>3. Heard' = Heard + 1
    BY <1>1, <2>1, <2>2, SMTT(60) DEF Heard
  <2>4. ASSUME NEW i \in 1..Len(heads') PROVE heads'[i] = chain'[Heard' + i]
    <3>1. i + 1 \in 1..Len(heads) /\ Heard' + i = Heard + (i + 1)
      BY <1>1, <2>2, <2>3, SMTT(60)
    <3> QED
      BY <2>1, <2>2, <3>1 DEF ChainInv
  <2>5. Len(heads') <= Len(chain')
    BY <1>1, <2>1, <2>2, SMTT(60) DEF ChainInv
  <2> QED
    BY <2>4, <2>5 DEF ChainInv
<1>4. CASE UNCHANGED <<chain, heads>>
  BY <1>4 DEF ChainInv, Heard
<1> QED
  BY <1>2, <1>3, <1>4
  DEF Next, Start, Stop, mintNothing, NewTxs, commitRaftWork, Propose, Lose, Foreign,
                          sendInvalidRaftOrdering, raftLoopInvalid

-----------------------------------------------------------------------------
(* The head of the speculative chain.                                      *)

\* More blocks do not matter.
LEMMA OnTopGrows ==
  ASSUME NEW u \in Seq(Nat), NEW head, NEW base, NEW bs, NEW cs, OnTop(u, head, base, bs),
         \A i \in 1..Len(u) : cs[u[i]] = bs[u[i]]
  PROVE  OnTop(u, head, base, cs)
<1>1. Len(u) \in Nat /\ (u # <<>> => 1 \in 1..Len(u)) /\ \A i \in 2..Len(u) : i \in 1..Len(u)
  BY SMTT(60)
<1> QED
  BY <1>1 DEF OnTop

\* Extend with a block on the head.
LEMMA OnTopExtends ==
  ASSUME NEW u \in Seq(Nat), NEW head, NEW base, NEW bs, OnTop(u, head, base, bs),
         NEW b \in Nat, bs[b].parent = head
  PROVE  OnTop(Append(u, b), b, base, bs)
<1> DEFINE v == Append(u, b)
<1>1. /\ Len(v) = Len(u) + 1 /\ Len(u) \in Nat /\ v[Len(u) + 1] = b /\ v # <<>>
      /\ \A i \in 1..Len(u) : v[i] = u[i]
  BY AppendFacts, SMTT(60)
<1> HIDE DEF v
<1>2. CASE u = <<>>
  <2>1. Len(u) = 0
    BY <1>2
  <2>2. Len(v) = 1 /\ v[1] = b /\ 2..Len(v) = {}
    BY <1>1, <2>1, SMTT(60)
  <2>3. bs[v[1]].parent = base
    BY <1>2, <2>2 DEF OnTop
  <2> QED
    BY <1>1, <2>2, <2>3 DEF OnTop, v
<1>3. CASE u # <<>>
  <2>1. 1 \in 1..Len(u) /\ Len(u) \in 1..Len(u)
    BY <1>3, SMTT(60)
  <2>2. ASSUME NEW i \in 2..Len(v) PROVE bs[v[i]].parent = v[i-1]
    <3>1. CASE i \in 2..Len(u)
      <4>1. i \in 1..Len(u) /\ i - 1 \in 1..Len(u)
        BY <3>1, SMTT(60)
      <4> QED
        BY <1>1, <3>1, <4>1 DEF OnTop
    <3>2. CASE i = Len(u) + 1
      <4>1. i - 1 = Len(u)
        BY <1>1, <3>2, SMTT(60)
      <4> QED
        BY <1>1, <1>3, <2>1, <3>2, <4>1 DEF OnTop
    <3> QED
      BY <1>1, <3>1, <3>2, SMTT(60)
  <2>3. bs[v[1]].parent = base /\ v[Len(v)] = b
    BY <1>1, <1>3, <2>1 DEF OnTop
  <2> QED
    BY <1>1, <2>2, <2>3 DEF OnTop, v
<1> QED
  BY <1>2, <1>3

\* Accept of the block that waits first: the rest stands on it.
LEMMA OnTopTail ==
  ASSUME NEW u \in Seq(Nat), u # <<>>, NEW head, NEW base, NEW bs, OnTop(u, head, base, bs)
  PROVE  OnTop(Tail(u), head, Head(u), bs)
<1> DEFINE v == Tail(u)
<1>1. /\ Len(v) = Len(u) - 1 /\ Len(u) \in Nat \ {0} /\ Head(u) = u[1] /\ v \in Seq(Nat)
      /\ \A i \in 1..Len(v) : v[i] = u[i+1]
  BY TailFacts, SMTT(60)
<1>2. head = u[Len(u)] /\ \A i \in 2..Len(u) : bs[u[i]].parent = u[i-1]
  BY DEF OnTop
<1> HIDE DEF v
<1>3. CASE v = <<>>
  <2>1. Len(v) = 0
    BY <1>3
  <2>2. Len(v) = Len(u) - 1 /\ Len(u) \in Nat
    BY <1>1
  <2>3. Len(u) = 1 /\ 2..Len(v) = {}
    BY ONLY <2>1, <2>2, SMTT(60)
  <2> QED
    BY <1>1, <1>2, <1>3, <2>3 DEF OnTop, v
<1>4. CASE v # <<>>
  <2>1. 1 \in 1..Len(v) /\ Len(v) \in 1..Len(v)
    BY <1>1, <1>4, SMTT(60)
  <2>2. v[1] = u[2] /\ v[Len(v)] = u[Len(u)] /\ 2 \in 2..Len(u)
    BY <1>1, <2>1, SMTT(60)
  <2>3. bs[u[2]].parent = u[1]
    BY <1>2, <2>2, SMTT(60)
  <2>4. ASSUME NEW i \in 2..Len(v) PROVE bs[v[i]].parent = v[i-1]
    <3>1. i \in 1..Len(v) /\ i - 1 \in 1..Len(v) /\ i + 1 \in 2..Len(u) /\ (i + 1) - 1 = (i - 1) + 1
      BY <1>1, SMTT(60)
    <3>2. bs[u[i+1]].parent = u[(i+1)-1]
      BY <1>2, <3>1
    <3> QED
      BY <1>1, <3>1, <3>2
  <2> QED
    BY <1>1, <1>2, <1>4, <2>2, <2>3, <2>4 DEF OnTop, v
<1> QED
  BY <1>3, <1>4

\* The speculative chain begins on the last head that the worker has heard of, as
\* long as the node stays the minter and raft loses none of its blocks.
LEMMA SpecStep ==
  ASSUME TypeOK, BlacklistInv, PlaceInv, ChainInv, SpecInv, Next
  PROVE  SpecInv'
<1>1. /\ spec.unapplied \in Seq(Nat) /\ troubles \in Nat /\ Len(blocks) \in Nat
      /\ \A i \in 1..Len(spec.unapplied) : spec.unapplied[i] \in 1..Len(blocks)
  BY SMTT(60) DEF TypeOK, BlacklistInv, Blacklist
<1>2. /\ Len(chain) \in Nat /\ Len(heads) \in Nat /\ Heard \in Nat /\ Heard <= Len(chain)
  BY SMTT(60) DEF TypeOK, ChainInv, Heard
<1>3. CASE Start \/ mintNothing \/ Propose \/ sendInvalidRaftOrdering \/ (\E t \in Tx : NewTxs(t))
  <2>1. UNCHANGED <<spec, blocks, chain, heads, troubles>> /\ (running => running')
    BY <1>3, SMTT(60) DEF Start, mintNothing, Propose, sendInvalidRaftOrdering, NewTxs
  <2> QED
    BY <2>1 DEF SpecInv, HeardBlock, Heard
<1>4. CASE Stop \/ Lose
  <2>1. troubles' # 0
    BY <1>1, <1>4, SMTT(60) DEF Stop, Lose
  <2> QED
    BY <2>1 DEF SpecInv
<1>5. ASSUME NEW txs \in SUBSET Available, commitRaftWork(txs)
      PROVE  SpecInv'
  <2>1. txs \in SUBSET Tx
    BY DEF Available, WithoutProposedTxes, TypeOK
  <2>2. /\ spec.head \in Nat /\ spec.head \in 0..Len(blocks)
        /\ blocks' = NewBlock(spec.head, txs, TRUE)
        /\ spec' = Extend(spec, Len(blocks) + 1, txs)
        /\ running /\ UNCHANGED <<chain, heads, running, troubles>>
    BY <1>5 DEF TypeOK, PlaceInv, commitRaftWork
  <2>3. /\ blocks'[Len(blocks) + 1].parent = spec.head
        /\ \A b \in 1..Len(blocks) : blocks'[b] = blocks[b]
    BY <2>1, <2>2, NewBlockFacts
  <2>4. /\ spec'.unapplied = Append(spec.unapplied, Len(blocks) + 1)
        /\ spec'.head = Len(blocks) + 1
    BY <2>2 DEF Extend, TypeOK
  <2>5. HeardBlock' = HeardBlock
    BY <2>2 DEF HeardBlock, Heard
  <2>6. ASSUME troubles = 0
        PROVE  OnTop(spec'.unapplied, spec'.head, HeardBlock, blocks')
    <3>1. OnTop(spec.unapplied, spec.head, HeardBlock, blocks)
      BY <2>6 DEF SpecInv
    <3>2. OnTop(spec.unapplied, spec.head, HeardBlock, blocks')
      BY <1>1, <2>3, <3>1, OnTopGrows
    <3>3. Len(blocks) + 1 \in Nat
      BY <1>1, SMTT(60)
    <3> QED
      BY <1>1, <2>3, <2>4, <3>2, <3>3, OnTopExtends
  <2> QED
    BY <2>2, <2>5, <2>6 DEF SpecInv
<1>6. ASSUME NEW parent \in Range(chain) \cup {Genesis} \cup {b \in DOMAIN blocks : ~blocks[b].own},
             NEW txs \in SUBSET (Tx \ TxsUpTo(parent)), Foreign(parent, txs)
      PROVE  SpecInv'
  <2>1. parent \in Nat /\ parent \in 0..Len(blocks) /\ txs \in SUBSET Tx
    BY ParentFacts
  <2>2. /\ blocks' = NewBlock(parent, txs, FALSE)
        /\ UNCHANGED <<spec, chain, heads, running, troubles>>
    BY <1>6 DEF Foreign
  <2>3. \A b \in 1..Len(blocks) : blocks'[b] = blocks[b]
    BY <2>1, <2>2, NewBlockFacts
  <2>4. HeardBlock' = HeardBlock
    BY <2>2 DEF HeardBlock, Heard
  <2>5. ASSUME troubles = 0
        PROVE  OnTop(spec.unapplied, spec.head, HeardBlock, blocks')
    <3>1. OnTop(spec.unapplied, spec.head, HeardBlock, blocks)
      BY <2>5 DEF SpecInv
    <3> QED
      BY ONLY <1>1, <2>3, <3>1, OnTopGrows, ZenonT(60)
  <2> QED
    BY <2>2, <2>4, <2>5 DEF SpecInv
<1>7. CASE applyNewChainHead
  <2>1. /\ UNCHANGED <<blocks, spec, running, troubles>>
        /\ chain' = Append(chain, Head(log)) /\ heads' = Append(heads, Head(log))
        /\ Head(log) \in Nat
    BY <1>7, TailFacts DEF applyNewChainHead, TypeOK
  <2>2. /\ Len(chain') = Len(chain) + 1 /\ Len(heads') = Len(heads) + 1
        /\ \A i \in 1..Len(chain) : chain'[i] = chain[i]
    BY <2>1, AppendFacts, SMTT(60) DEF TypeOK
  <2>3. Heard' = Heard
    BY <1>2, <2>2, SMTT(60) DEF Heard
  <2>4. Heard # 0 => chain'[Heard] = chain[Heard]
    BY <1>2, <2>2, SMTT(60)
  <2>5. HeardBlock' = HeardBlock
    BY <2>3, <2>4 DEF HeardBlock
  <2> QED
    BY <2>1, <2>5 DEF SpecInv
<1>8. CASE raftLoopHead
  <2> DEFINE h == Head(heads)
  <2>1. /\ heads # <<>> /\ heads' = Tail(heads)
        /\ spec' = IF running THEN Accept(spec, h) ELSE SetHead(spec, h)
        /\ UNCHANGED <<blocks, chain, running, troubles>>
    BY <1>8 DEF raftLoopHead
  <2>2. Len(heads') = Len(heads) - 1 /\ h = heads[1] /\ Len(heads) \in Nat \ {0} /\ h \in Nat
    BY <2>1, TailFacts DEF TypeOK
  <2>3. Heard' = Heard + 1 /\ Heard + 1 # 0
    <3>1. chain' = chain /\ Len(heads') = Len(heads) - 1
      BY <2>1, <2>2
    <3>2. Heard' = Len(chain) - (Len(heads) - 1) /\ Heard = Len(chain) - Len(heads)
      BY ONLY <3>1, ZenonT(60) DEF Heard
    <3> QED
      BY ONLY <1>2, <3>2, SMTT(60)
  <2>4. HeardBlock' = h
    <3>1. 1 \in 1..Len(heads)
      BY <2>2, SMTT(60)
    <3>2. heads[1] = chain[Heard + 1]
      BY <3>1 DEF ChainInv
    <3> QED
      BY <2>1, <2>2, <2>3, <3>2 DEF HeardBlock
  <2> HIDE DEF h
  <2>5. spec \in [head : Nat, unapplied : Seq(Nat), guard : SUBSET Nat, proposed : SUBSET Tx]
    BY DEF TypeOK
  <2>6. CASE spec.unapplied = <<>>
    <3>1. spec' = SetHead(spec, h)
      BY <2>1, <2>6 DEF Accept
    <3>2. spec'.unapplied = <<>> /\ spec'.head = h
      BY ONLY <2>5, <2>6, <3>1, ZenonT(60) DEF SetHead
    <3>3. 2..Len(spec'.unapplied) = {}
      BY <3>2, SMTT(60)
    <3>4. OnTop(spec'.unapplied, spec'.head, h, blocks')
      BY <3>2, <3>3 DEF OnTop
    <3> QED
      BY <2>4, <3>2, <3>4 DEF SpecInv
  <2>7. CASE spec.unapplied # <<>> /\ troubles = 0
    <3>1. running /\ OnTop(spec.unapplied, spec.head, HeardBlock, blocks)
      BY <2>7 DEF SpecInv
    <3>2. CASE Head(spec.unapplied) = h
      <4>1. spec' = [spec EXCEPT !.unapplied = Tail(@), !.proposed = @ \ TxsIn({h})]
        BY <2>1, <2>7, <3>1, <3>2 DEF Accept
      <4>2. spec'.unapplied = Tail(spec.unapplied) /\ spec'.head = spec.head
        BY ONLY <2>5, <4>1, ZenonT(60)
      <4>3. OnTop(Tail(spec.unapplied), spec.head, h, blocks)
        BY <1>1, <2>7, <3>1, <3>2, OnTopTail
      <4> QED
        BY <2>1, <2>4, <3>1, <4>2, <4>3 DEF SpecInv
    <3>3. CASE Head(spec.unapplied) # h
      <4>1. spec' = Clear(h)
        BY <2>1, <2>7, <3>1, <3>3 DEF Accept
      <4>2. spec'.unapplied = <<>> /\ spec'.head = h
        BY ONLY <4>1, ZenonT(60) DEF Clear
      <4>3. 2..Len(spec'.unapplied) = {}
        BY <4>2, SMTT(60)
      <4>4. OnTop(spec'.unapplied, spec'.head, h, blocks')
        BY <4>2, <4>3 DEF OnTop
      <4> QED
        BY <2>4, <4>2, <4>4 DEF SpecInv
    <3> QED
      BY <3>2, <3>3
  <2>8. CASE troubles # 0
    BY <2>1, <2>8 DEF SpecInv
  <2> QED
    BY <2>6, <2>7, <2>8
<1>9. CASE raftLoopInvalid
  <2>1. UNCHANGED <<spec, blocks, chain, heads, running, troubles>>
    BY <1>9, InvalidIgnored DEF raftLoopInvalid
  <2> QED
    BY <2>1 DEF SpecInv, HeardBlock, Heard
<1> QED
  BY <1>3, <1>4, <1>5, <1>6, <1>7, <1>8, <1>9 DEF Next

-----------------------------------------------------------------------------
(* What the minter guarantees.                                             *)

\* Each step keeps the invariant.
LEMMA MinterStep == MinterInv /\ [Next]_vars => MinterInv'
<1> SUFFICES ASSUME MinterInv, [Next]_vars PROVE MinterInv'
  OBVIOUS
<1>1. TypeOK /\ BlacklistInv /\ PlaceInv /\ ChainInv /\ SpecInv
  BY DEF MinterInv
<1>2. CASE Next
  BY <1>1, <1>2, TypeStep, BlacklistStep, PlaceStep, ChainStep, SpecStep DEF MinterInv
<1>3. CASE UNCHANGED vars
  <2>1. TypeOK' /\ BlacklistInv'
    BY <1>1, <1>3 DEF vars, TypeOK, BlacklistInv
  <2>2. PlaceInv'
    BY <1>1, <1>3, SMTT(60) DEF vars, PlaceInv, Refused
  <2>3. ChainInv' /\ SpecInv'
    BY <1>1, <1>3 DEF vars, ChainInv, Heard, SpecInv, HeardBlock
  <2> QED
    BY <2>1, <2>2, <2>3 DEF MinterInv
<1> QED
  BY <1>2, <1>3

\* The speculative chain begins empty, on the genesis block.
LEMMA MinterInit == Init => MinterInv
<1> SUFFICES ASSUME Init PROVE MinterInv
  OBVIOUS
<1>1. Len(<<>>) = 0 /\ Elems(<<>>) = {} /\ \A S : <<>> \in Seq(S)
  BY SMTT(60) DEF Elems
<1>2. /\ spec.unapplied = <<>> /\ spec.proposed = {} /\ spec.head = Genesis /\ spec.guard = {}
      /\ spec = [head |-> Genesis, unapplied |-> <<>>, guard |-> {}, proposed |-> {}]
  BY DEF Init, Clear
<1>3. /\ blocks = <<>> /\ chain = <<>> /\ log = <<>> /\ proposals = <<>> /\ heads = <<>>
      /\ invalids = <<>> /\ pool = {} /\ running = FALSE /\ request = FALSE /\ troubles = 0
  BY DEF Init
<1>4. TypeOK
  BY <1>1, <1>2, <1>3 DEF TypeOK, Genesis
<1>5. BlacklistInv
  BY <1>1, <1>2, SMTT(60) DEF BlacklistInv, Blacklist
<1>6. PlaceInv
  <2>1. Refused = {}
    BY <1>1, <1>3, SMTT(60) DEF Refused
  <2>2. Distinct(<<>>)
    BY <1>1, SMTT(60) DEF Distinct
  <2>3. 0 \in 0..0 /\ 1..0 = {}
    BY SMTT(60)
  <2> QED
    BY <1>1, <1>2, <1>3, <2>1, <2>2, <2>3 DEF PlaceInv, Genesis
<1>7. Heard = 0 /\ ChainInv
  BY <1>1, <1>3, SMTT(60) DEF ChainInv, Heard
<1>8. SpecInv
  <2>1. HeardBlock = Genesis /\ 2..Len(<<>>) = {}
    BY <1>1, <1>7, SMTT(60) DEF HeardBlock
  <2> QED
    BY <1>2, <2>1 DEF SpecInv, OnTop
<1> QED
  BY <1>4, <1>5, <1>6, <1>7, <1>8 DEF MinterInv

\* The speculative chain stands on the last head that the worker has heard of, no
\* two of its blocks hold the same transaction, and a block that raft finds out of
\* order is not in the blockchain.
THEOREM MinterInvariance == Spec => []MinterInv
BY MinterInit, MinterStep, PTL DEF Spec

\* The blacklist of SpeculativeChain is what its blocks hold that wait to be
\* accepted, whatever raft, other leaders and lost proposals do.
THEOREM ProposedIsUnappliedHolds == Spec => []ProposedIsUnapplied
<1>1. MinterInv => ProposedIsUnapplied
  <2> SUFFICES ASSUME MinterInv PROVE ProposedIsUnapplied
    OBVIOUS
  <2> DEFINE u == spec.unapplied
  <2>1. u \in Seq(Nat) /\ DOMAIN u = 1..Len(u)
    BY SMTT(60) DEF MinterInv, TypeOK
  <2>2. spec.proposed = UNION {blocks[u[i]].txs : i \in 1..Len(u)}
    BY DEF MinterInv, BlacklistInv, Blacklist
  <2>3. Range(u) = {u[i] : i \in 1..Len(u)}
    BY <2>1 DEF Range
  <2> HIDE DEF u
  <2>4. UNION {blocks[b].txs : b \in {u[i] : i \in 1..Len(u)}}
          = UNION {blocks[u[i]].txs : i \in 1..Len(u)}
    BY ONLY ZenonT(60)
  <2> QED
    BY <2>2, <2>3, <2>4 DEF ProposedIsUnapplied, TxsIn, u
<1> QED
  BY <1>1, MinterInvariance, PTL

\* A minter that was never stopped and lost no proposal builds on the head of the
\* blockchain, or on own blocks that begin there, once raftLoop has heard of it.
THEOREM HeadIsCurrentHolds == Spec => []HeadIsCurrent
<1>1. MinterInv => HeadIsCurrent
  <2> SUFFICES ASSUME MinterInv, heads = <<>>, running, troubles = 0
               PROVE  IF spec.unapplied = <<>> THEN spec.head = HeadBlock
                      ELSE /\ blocks[Head(spec.unapplied)].parent = HeadBlock
                           /\ spec.head = Last(spec.unapplied)
    BY DEF HeadIsCurrent
  <2>1. chain \in Seq(Nat) /\ Len(chain) \in Nat /\ Len(heads) = 0 /\ spec.unapplied \in Seq(Nat)
    BY SMTT(60) DEF MinterInv, TypeOK
  <2>2. Heard = Len(chain)
    BY <2>1, SMTT(60) DEF Heard
  <2>3. HeardBlock = HeadBlock
    <3>1. CASE chain = <<>>
      <4>1. Len(chain) = 0
        BY <3>1
      <4> QED
        BY <2>2, <3>1, <4>1 DEF HeardBlock, HeadBlock
    <3>2. CASE chain # <<>>
      <4>1. Len(chain) # 0
        BY <2>1, <3>2, SMTT(60)
      <4> QED
        BY <2>2, <3>2, <4>1 DEF HeardBlock, HeadBlock, Last
    <3> QED
      BY <3>1, <3>2
  <2>4. OnTop(spec.unapplied, spec.head, HeadBlock, blocks)
    BY <2>3 DEF MinterInv, SpecInv
  <2>5. spec.unapplied # <<>> => Head(spec.unapplied) = spec.unapplied[1]
    BY <2>1, TailFacts
  <2> QED
    BY <2>4, <2>5 DEF OnTop, Last
<1> QED
  BY <1>1, MinterInvariance, PTL
=============================================================================
