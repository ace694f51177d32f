--------------------------- MODULE CrossSyncProofs ---------------------------
(***************************************************************************)
(* Proofs about CrossSync for every set of peers, every list of            *)
(* transactions, every page and channel size and every bound: the          *)
(* synchronisation of the store keeps StoreInv, which says what requests   *)
(* and answers mean wherever they are.  PendingSyncProofs draws the        *)
(* theorems from it.                                                       *)
(***************************************************************************)
EXTENDS CrossSync, FiniteSetTheorems, TLAPS

\* Zenon is tried before SMT, and both have a minute.
USE ZenonT(60), SMTT(60)

-----------------------------------------------------------------------------
(* Numbers.                                                                *)

\* A set of naturals that is not empty has a least element.
LEMMA LeastNat ==
  ASSUME NEW T \in SUBSET Nat, T # {}
  PROVE  \E n \in T : \A m \in T : n <= m
<1>1. IsWellFoundedOn(OpToRel(<, Nat), Nat)
  BY NatLessThanWellFounded
<1>2. PICK n \in T : \A m \in T : ~(<<m, n>> \in OpToRel(<, Nat))
  BY <1>1, WFMin
<1>3. \A m \in T : ~(m < n)
  BY <1>2 DEF OpToRel
<1> QED
  BY <1>3, SMTT(60)

\* A bounded one has a greatest element, which Max names.
LEMMA MaxFacts ==
  ASSUME NEW S \in SUBSET Nat, S # {}, NEW b \in Nat, \A x \in S : x <= b
  PROVE  Max(S) \in S /\ \A x \in S : x <= Max(S)
<1> DEFINE T == {n \in Nat : \A x \in S : x <= n}
<1>1. PICK n \in T : \A m \in T : n <= m
  BY LeastNat, b \in T
<1>2. n \in S
  <2>1. SUFFICES ASSUME n \notin S PROVE FALSE
    OBVIOUS
  <2>2. \A x \in S : x < n
    BY <1>1, <2>1, SMTT(60)
  <2>3. n - 1 \in T
    <3>1. PICK x \in S : TRUE
      OBVIOUS
    <3>2. x < n
      BY <2>2
    <3> QED
      BY <1>1, <2>2, <3>1, <3>2, SMTT(60)
  <2> QED
    BY <1>1, <2>3, SMTT(60)
<1>3. \E x \in S : \A y \in S : x >= y
  BY <1>1, <1>2
<1> QED
  BY <1>3 DEF Max

\* The transactions are finitely many, and their blocks are numbers above zero
\* in ascending order.
LEMMA NumFacts ==
  /\ Ctx \subseteq Nat /\ IsFiniteSet(Ctx)
  /\ \A c \in Ctx : Num[c] \in Nat \ {0}
  /\ \E b \in Nat : \A c \in Ctx : Num[c] <= b
<1>1. Ctx = 1..Len(Num) /\ Len(Num) \in Nat /\ \A c \in Ctx : Num[c] \in Nat \ {0}
  BY NumAssumption, SMTT(60) DEF Ctx
<1>2. IsFiniteSet(Ctx) /\ Ctx \subseteq Nat
  BY <1>1, FS_Interval, SMTT(60)
<1>3. CASE Len(Num) = 0
  BY <1>1, <1>2, <1>3, SMTT(60)
<1>4. CASE Len(Num) # 0
  <2>1. Len(Num) \in Ctx
    BY <1>1, <1>4, SMTT(60)
  <2>2. ASSUME NEW c \in Ctx
        PROVE  Num[c] <= Num[Len(Num)]
    <3>1. c = Len(Num) \/ c < Len(Num)
      BY <1>1, SMTT(60)
    <3>2. Num[c] \in Nat /\ Num[Len(Num)] \in Nat
      BY <1>1, <2>1
    <3>3. c < Len(Num) => Num[c] <= Num[Len(Num)]
      BY <2>1, NumAssumption
    <3> QED
      BY <3>1, <3>2, <3>3, SMTT(60)
  <2>3. Num[Len(Num)] \in Nat
    BY <1>1, <2>1
  <2>4. \E b \in Nat : \A c \in Ctx : Num[c] <= b
    BY <2>2, <2>3
  <2> QED
    BY <1>1, <1>2, <2>4
<1> QED
  BY <1>3, <1>4

\* Later transactions are in later blocks, or in the same one.
LEMMA NumAscends ==
  ASSUME NEW x \in Ctx, NEW y \in Ctx, x <= y
  PROVE  Num[x] <= Num[y]
<1>1. x \in Nat /\ y \in Nat /\ Num[x] \in Nat /\ Num[y] \in Nat
  BY NumFacts
<1>2. x < y => Num[x] <= Num[y]
  BY NumAssumption
<1>3. x = y \/ x < y
  BY <1>1, SMTT(60)
<1>4. x = y => Num[x] = Num[y]
  OBVIOUS
<1> QED
  BY <1>1, <1>2, <1>3, <1>4, SMTT(60)

\* The greatest block of some transactions.
LEMMA MaxNum ==
  ASSUME NEW S \in SUBSET Ctx, S # {}
  PROVE  /\ \E c \in S : Num[c] = Max({Num[d] : d \in S})
         /\ \A c \in S : Num[c] <= Max({Num[d] : d \in S})
         /\ Max({Num[d] : d \in S}) \in Nat
<1> DEFINE T == {Num[d] : d \in S}
<1>1. T \in SUBSET Nat /\ T # {}
  BY NumFacts
<1>2. PICK b \in Nat : \A x \in T : x <= b
  BY NumFacts
<1>3. Max(T) \in T /\ \A x \in T : x <= Max(T)
  BY <1>1, <1>2, MaxFacts
<1> QED
  BY <1>1, <1>3

-----------------------------------------------------------------------------
(* Pages.                                                                  *)

\* The transactions of S before c.
Before(S, c) == {d \in S : d < c}

\* There are no fewer of them before a later one.
LEMMA BeforeGrows ==
  ASSUME NEW S \in SUBSET Ctx, NEW c \in Ctx, NEW e \in Ctx, c <= e
  PROVE  /\ IsFiniteSet(Before(S, c)) /\ Cardinality(Before(S, c)) \in Nat
         /\ Cardinality(Before(S, c)) <= Cardinality(Before(S, e))
<1>1. IsFiniteSet(Before(S, e)) /\ IsFiniteSet(Before(S, c))
  BY NumFacts, FS_Subset DEF Before
<1>2. Before(S, c) \subseteq Before(S, e)
  <2>1. \A x \in S : x \in Nat
    BY NumFacts
  <2>2. c \in Nat /\ e \in Nat
    BY NumFacts
  <2>3. \A x \in S : x < c => x < e
    BY <2>1, <2>2, SMTT(60)
  <2> QED
    BY <2>3 DEF Before
<1>3. Before(S, c) \in SUBSET Before(S, e)
  BY <1>2
<1>4. Cardinality(Before(S, c)) <= Cardinality(Before(S, e))
  BY <1>1, <1>3, FS_Subset
<1> QED
  BY <1>1, <1>4, FS_CardinalityType

\* A page of RangeByNumber holds everything in the store from block begin up to
\* its last block, and is empty only if the store holds nothing from there on.
LEMMA PageFacts ==
  ASSUME NEW store \in SUBSET Ctx, NEW begin \in Nat
  PROVE  /\ RangeByNumber(store, begin) \subseteq store
         /\ \A c \in RangeByNumber(store, begin), d \in store :
              Num[d] >= begin /\ Num[d] <= Num[c] => d \in RangeByNumber(store, begin)
         /\ RangeByNumber(store, begin) = {} => \A d \in store : Num[d] < begin
<1> DEFINE from == {c \in store : Num[c] >= begin}
           page == {c \in from : Cardinality(Before(from, c)) < Limit}
<1>1. RangeByNumber(store, begin) = {c \in from : \E d \in page : Num[d] = Num[c]}
  BY DEF RangeByNumber, Before
<1>2. from \in SUBSET Ctx /\ page \subseteq from
  OBVIOUS
<1>3. ASSUME NEW c \in RangeByNumber(store, begin), NEW d \in store,
             Num[d] >= begin, Num[d] <= Num[c]
      PROVE  d \in RangeByNumber(store, begin)
  <2>1. d \in from
    BY <1>3
  <2>2. PICK e \in page : Num[e] = Num[c]
    BY <1>1, <1>3
  <2>3. CASE d <= e
    <3>1. d \in Ctx /\ e \in Ctx
      BY <1>2, <2>1, <2>2
    <3>2. /\ Cardinality(Before(from, d)) \in Nat /\ Cardinality(Before(from, e)) \in Nat
          /\ Cardinality(Before(from, d)) <= Cardinality(Before(from, e))
      BY <1>2, <2>3, <3>1, BeforeGrows, NumFacts, SMTT(60)
    <3>3. Cardinality(Before(from, d)) < Limit
      BY <2>2, <3>2, SizeAssumption, SMTT(60)
    <3> QED
      BY <1>1, <2>1, <3>3
  <2>4. CASE ~(d <= e)
    <3>1. Num[e] <= Num[d]
      BY <1>2, <2>1, <2>4, NumFacts, NumAssumption, SMTT(60)
    <3>2. Num[e] = Num[d]
      BY <1>2, <1>3, <2>1, <2>2, <3>1, NumFacts, SMTT(60)
    <3> QED
      BY <1>1, <2>1, <2>2, <3>2
  <2> QED
    BY <2>3, <2>4
<1>4. ASSUME from # {}
      PROVE  RangeByNumber(store, begin) # {}
  <2>a. from \in SUBSET Nat
    BY <1>2, NumFacts
  <2>1. PICK m \in from : \A d \in from : m <= d
    BY <1>4, <2>a, LeastNat
  <2>2. Before(from, m) = {}
    BY <2>a, <2>1, SMTT(60) DEF Before
  <2>3. Cardinality(Before(from, m)) < Limit
    BY <2>2, FS_EmptySet, SizeAssumption, SMTT(60)
  <2> QED
    BY <1>1, <2>1, <2>3
<1>5. \A d \in store : Num[d] < begin \/ d \in from
  BY NumFacts, SMTT(60)
<1> QED
  BY <1>1, <1>3, <1>4, <1>5

-----------------------------------------------------------------------------
(* The synchronisation of the store.                                       *)

Elems(s) == {s[i] : i \in 1..Len(s)}

Req == [height : Nat, sync : Nat]
Answers == [page : SUBSET Ctx, sync : Nat]

\* The types of what CrossSync keeps.
StoreTypeOK ==
  /\ known \in [Peer -> Nat]
  /\ DOMAIN status \subseteq Peer
  /\ \A d \in due : d.peer \in Peer /\ d.id \in Nat
  /\ local \subseteq Ctx /\ own \subseteq Ctx
  /\ sync \in [on : BOOLEAN, peer : Peer \cup {Nobody}, id : Nat, want : SUBSET Ctx]
  /\ ch \in Seq(Answers)
  /\ reqs \in [Peer -> Seq(Req)]
  /\ answers \in [Peer -> Seq(Answers)]
  /\ connects \in Nat /\ timeouts \in Nat

\* What a hole below the height of the store may be due to.
Excused(d) ==
  \/ d \in local
  \/ Num[d] \in failed
  \/ \E o \in own : Num[o] > Num[d]

\* What a synchronisation has stored, or failed to write.
Tried(c) == c \in local \/ Num[c] \in failed

\* A number that belongs to a call of Synchronise that has run.
Used(n) == n <= connects /\ \A d \in due : d.id # n

\* What a request to p means: nothing is left out below the block that it asks
\* from, and the synchronisation that made it has all that it wants below.
RequestOK(p, r) ==
  /\ Used(r.sync)
  /\ \A d \in Ctx : Num[d] < r.height => Excused(d)
  /\ sync.on /\ sync.id = r.sync =>
       \A c \in sync.want : Num[c] <= known[p] /\ (Num[c] < r.height => Tried(c))

\* What an answer means: nothing is left out below its last block but what it
\* brings, and of what the synchronisation that asked for it wants it leaves out
\* later blocks only.
AnswerOK(a) ==
  /\ Used(a.sync)
  /\ \A c \in a.page, d \in Ctx : Num[d] <= Num[c] => d \in a.page \/ Excused(d)
  /\ sync.on /\ sync.id = a.sync =>
       \A c \in sync.want : \/ Tried(c) \/ c \in a.page
                            \/ a.page # {} /\ \A e \in a.page : Num[e] < Num[c]

\* The inductive invariant of the paging: calls of Synchronise have numbers of
\* their own, requests and answers mean what they should wherever they are, and
\* the store has no hole.
PagesInv ==
  /\ \A d \in due : d.id <= connects
  /\ \A d, e \in due : d.id = e.id => d = e
  /\ sync.on => /\ Used(sync.id)
                /\ sync.peer \in Peer => \A c \in sync.want : Num[c] <= known[sync.peer]
  /\ \A p \in Peer : \A r \in Elems(reqs[p]) : RequestOK(p, r)
  /\ \A p \in Peer : \A a \in Elems(answers[p]) : AnswerOK(a)
  /\ \A a \in Elems(ch) : AnswerOK(a)
  /\ \A c \in local, d \in Ctx : Num[d] < Num[c] => Excused(d)

\* Where requests and answers are: on the way to a peer, on the way back, or in
\* the channel.
Places(rs, as, c) ==
  (UNION {{<<p, 1, i>> : i \in 1..Len(rs[p])} : p \in Peer})
    \cup (UNION {{<<p, 2, i>> : i \in 1..Len(as[p])} : p \in Peer})
    \cup {<<Nobody, 3, i>> : i \in 1..Len(c)}

Underway == Places(reqs, answers, ch)

\* A synchronisation waits for one answer at a time, so that each other request or
\* answer is left from one that timed out.
UnderwayInv ==
  /\ IsFiniteSet(Underway)
  /\ Cardinality(Underway) <= timeouts + (IF sync.on THEN 1 ELSE 0)

StoreInv == StoreTypeOK /\ PagesInv /\ UnderwayInv

-----------------------------------------------------------------------------
(* Sequences.                                                              *)

\* What a queue holds after its first element is taken, after another one is
\* added and after some are dropped.
LEMMA ElemsTail ==
  ASSUME NEW S, NEW s \in Seq(S), s # <<>>
  PROVE  /\ Tail(s) \in Seq(S) /\ Elems(Tail(s)) \subseteq Elems(s)
         /\ Head(s) \in S /\ Head(s) \in Elems(s)
         /\ Len(Tail(s)) = Len(s) - 1 /\ Len(s) \in Nat \ {0}
<1>1. /\ Head(s) \in S /\ Tail(s) \in Seq(S) /\ Len(Tail(s)) = Len(s) - 1
      /\ \A i \in 1..Len(Tail(s)) : Tail(s)[i] = s[i+1]
      /\ Len(s) \in Nat \ {0}
  BY SMTT(60)
<1>2. Elems(Tail(s)) \subseteq Elems(s)
  BY <1>1, SMTT(60) DEF Elems
<1>3. Head(s) = s[1]
  BY <1>1, SMTT(60)
<1>4. Head(s) \in Elems(s)
  BY <1>1, <1>3, SMTT(60) DEF Elems
<1> QED
  BY <1>1, <1>2, <1>4

\* What sending on a channel adds to what is on it.
LEMMA ElemsAppend ==
  ASSUME NEW S, NEW s \in Seq(S), NEW x \in S
  PROVE  /\ Append(s, x) \in Seq(S) /\ Elems(Append(s, x)) = Elems(s) \cup {x}
         /\ Len(Append(s, x)) = Len(s) + 1 /\ Len(s) \in Nat
<1>1. /\ Append(s, x) \in Seq(S) /\ Len(Append(s, x)) = Len(s) + 1 /\ Len(s) \in Nat
      /\ \A i \in 1..Len(s) : Append(s, x)[i] = s[i]
      /\ Append(s, x)[Len(s) + 1] = x
  BY SMTT(60)
<1>2. Elems(Append(s, x)) \subseteq Elems(s) \cup {x}
  BY <1>1, SMTT(60) DEF Elems
<1>3. Elems(s) \cup {x} \subseteq Elems(Append(s, x))
  BY <1>1, SMTT(60) DEF Elems
<1> QED
  BY <1>1, <1>2, <1>3

\* What taking from a channel leaves on it.
LEMMA ElemsSubSeq ==
  ASSUME NEW S, NEW s \in Seq(S), NEW m \in Nat \ {0}
  PROVE  /\ SubSeq(s, m, Len(s)) \in Seq(S) /\ Elems(SubSeq(s, m, Len(s))) \subseteq Elems(s)
         /\ Len(SubSeq(s, m, Len(s))) <= Len(s)
<1>1. Len(s) \in Nat /\ \A i \in m..Len(s) : s[i] \in S
  BY SMTT(60)
<1>2. /\ SubSeq(s, m, Len(s)) \in Seq(S)
      /\ Len(SubSeq(s, m, Len(s))) = IF m <= Len(s) THEN Len(s) - m + 1 ELSE 0
      /\ \A i \in 1..Len(s)-m+1 : SubSeq(s, m, Len(s))[i] = s[m+i-1]
  BY <1>1, SMTT(60)
<1>3. Elems(SubSeq(s, m, Len(s))) \subseteq Elems(s)
  BY <1>1, <1>2, SMTT(60) DEF Elems
<1> QED
  BY <1>1, <1>2, <1>3, SMTT(60)

-----------------------------------------------------------------------------
(* Steps of the synchronisation of the store.                              *)

\* The heights that are asked from are numbers.
LEMMA HeightFacts ==
  ASSUME StoreTypeOK
  PROVE  /\ Height \in Nat
         /\ \A d \in Ctx : Num[d] < Height => \E c \in local : Num[d] < Num[c]
<1>1. CASE local = {}
  BY <1>1, NumFacts, SMTT(60) DEF Height
<1>2. CASE local # {}
  BY <1>2, MaxNum, NumFacts DEF Height, StoreTypeOK
<1> QED
  BY <1>1, <1>2

\* What RequestCtxSyncByHeight adds.
LEMMA RequestFacts ==
  ASSUME StoreTypeOK, NEW p \in Peer \cup {Nobody}, NEW h \in Nat, NEW n \in Nat,
         Request(p, h, n)
  PROVE  /\ reqs' \in [Peer -> Seq(Req)]
         /\ \A q \in Peer : \A r \in Elems(reqs'[q]) :
              r \in Elems(reqs[q]) \/ (q = p /\ r = [height |-> h, sync |-> n])
         /\ \/ reqs' = reqs
            \/ /\ p \in Peer /\ Len(reqs'[p]) = Len(reqs[p]) + 1
               /\ \A q \in Peer \ {p} : reqs'[q] = reqs[q]
<1>1. CASE p = Nobody
  BY <1>1 DEF Request, StoreTypeOK
<1>2. CASE p # Nobody
  <2> DEFINE r == [height |-> h, sync |-> n]
  <2>1. r \in Req /\ p \in Peer /\ reqs[p] \in Seq(Req)
    BY <1>2 DEF Req, StoreTypeOK
  <2>2. reqs' = [reqs EXCEPT ![p] = Append(@, r)]
    BY <1>2 DEF Request
  <2> HIDE DEF r
  <2>3. /\ Append(reqs[p], r) \in Seq(Req)
        /\ Elems(Append(reqs[p], r)) = Elems(reqs[p]) \cup {r}
        /\ Len(Append(reqs[p], r)) = Len(reqs[p]) + 1
    BY <2>1, ElemsAppend, SMTT(60)
  <2>4. /\ reqs' \in [Peer -> Seq(Req)] /\ reqs'[p] = Append(reqs[p], r)
        /\ \A q \in Peer \ {p} : reqs'[q] = reqs[q]
    BY <2>1, <2>2, <2>3 DEF StoreTypeOK
  <2>5. \A q \in Peer : \A x \in Elems(reqs'[q]) : x \in Elems(reqs[q]) \/ (q = p /\ x = r)
    BY <2>3, <2>4
  <2> QED
    BY <2>1, <2>3, <2>4, <2>5 DEF r
<1> QED
  BY <1>1, <1>2

\* What a step may do to the state that requests and answers are about.
StoreStepOK ==
  /\ StoreTypeOK'
  /\ local \subseteq local' /\ failed \subseteq failed' /\ own \subseteq own'
  /\ \A p \in Peer : known[p] <= known'[p]
  /\ connects <= connects'
  /\ \A d \in due' : d \in due \/ (d.id = connects + 1 /\ d.id = connects')
  /\ \A d, e \in due' : d \in due \/ e \in due \/ d = e
  /\ sync'.on => \/ sync.on /\ sync'.id = sync.id /\ sync'.want \subseteq sync.want
                 \/ \E d \in due : sync'.id = d.id

\* A call that has run keeps its number.
LEMMA UsedKept ==
  ASSUME StoreTypeOK, StoreStepOK, NEW n \in Nat, Used(n)
  PROVE  Used(n)'
<1>1. connects \in Nat /\ connects' \in Nat /\ connects <= connects'
  BY DEF StoreTypeOK, StoreStepOK
<1>2. n <= connects /\ n <= connects'
  BY <1>1, SMTT(60) DEF Used
<1>3. ASSUME NEW d \in due'
      PROVE  d.id # n
  <2>1. CASE d \in due
    BY <2>1 DEF Used
  <2>2. CASE d.id = connects + 1
    BY <1>1, <1>2, <2>2, SMTT(60)
  <2> QED
    BY <2>1, <2>2 DEF StoreStepOK
<1> QED
  BY <1>2, <1>3 DEF Used

\* So does the synchronisation that runs.
LEMMA RunningKept ==
  ASSUME StoreTypeOK, PagesInv, StoreStepOK, sync'.on => sync.on /\ sync'.id = sync.id
  PROVE  sync'.on => Used(sync.id)'
<1> SUFFICES ASSUME sync'.on, NEW n \in Nat, n = sync.id, n = sync'.id
             PROVE  Used(n)'
  BY DEF StoreTypeOK, Used
<1> QED
  BY UsedKept DEF PagesInv

\* Requests and answers keep their meaning.
LEMMA RequestKept ==
  ASSUME StoreTypeOK, PagesInv, StoreStepOK, NEW p \in Peer, NEW r \in Req, RequestOK(p, r)
  PROVE  RequestOK(p, r)'
<1>1. Used(r.sync)'
  BY UsedKept DEF RequestOK, Req
<1>2. \A d \in Ctx : Num[d] < r.height => Excused(d)'
  BY DEF RequestOK, Excused, StoreStepOK
<1>3. ASSUME sync'.on, sync'.id = r.sync, NEW c \in sync'.want
      PROVE  Num[c] <= known'[p] /\ (Num[c] < r.height => Tried(c)')
  <2>1. sync.on /\ sync.id = r.sync /\ c \in sync.want
    BY <1>3 DEF RequestOK, Used, StoreStepOK
  <2>2. Num[c] <= known[p] /\ (Num[c] < r.height => Tried(c))
    BY <2>1 DEF RequestOK
  <2>3. c \in Ctx /\ Num[c] \in Nat /\ known[p] \in Nat /\ known'[p] \in Nat
    BY <2>1, NumFacts DEF StoreTypeOK, StoreStepOK
  <2> QED
    BY <2>2, <2>3, SMTT(60) DEF Tried, StoreStepOK
<1> QED
  BY <1>1, <1>2, <1>3 DEF RequestOK

\* An answer on its way keeps its meaning while the store is written.
LEMMA AnswerKept ==
  ASSUME StoreTypeOK, PagesInv, StoreStepOK, NEW a \in Answers, AnswerOK(a)
  PROVE  AnswerOK(a)'
<1>1. Used(a.sync)'
  BY UsedKept DEF AnswerOK, Answers
<1>2. \A c \in a.page, d \in Ctx : Num[d] <= Num[c] => d \in a.page \/ Excused(d)'
  BY DEF AnswerOK, Excused, StoreStepOK
<1>3. ASSUME sync'.on, sync'.id = a.sync, NEW c \in sync'.want
      PROVE  \/ Tried(c)' \/ c \in a.page
             \/ a.page # {} /\ \A e \in a.page : Num[e] < Num[c]
  <2>1. sync.on /\ sync.id = a.sync /\ c \in sync.want
    BY <1>3 DEF AnswerOK, Used, StoreStepOK
  <2> QED
    BY <2>1 DEF AnswerOK, Tried, StoreStepOK
<1> QED
  BY <1>1, <1>2, <1>3 DEF AnswerOK

\* So a step keeps the invariant if what it adds means what it should.
LEMMA PagesKept ==
  ASSUME StoreTypeOK, PagesInv, StoreStepOK,
         sync'.on => /\ Used(sync.id)'
                     /\ sync'.peer \in Peer => \A c \in sync'.want : Num[c] <= known'[sync'.peer],
         \A p \in Peer : \A r \in Elems(reqs'[p]) : r \in Elems(reqs[p]) \/ RequestOK(p, r)',
         \A p \in Peer : \A a \in Elems(answers'[p]) :
            \/ a \in Elems(answers[p]) \/ AnswerOK(a)',
         \A a \in Elems(ch') : a \in Elems(ch) \/ AnswerOK(a) \/ AnswerOK(a)',
         \A c \in local', d \in Ctx : Num[d] < Num[c] => c \in local \/ Excused(d)'
  PROVE  PagesInv'
<1>1. /\ \A d \in due' : d.id <= connects'
      /\ \A d, e \in due' : d.id = e.id => d = e
  <2>1. connects \in Nat /\ connects' \in Nat /\ connects <= connects'
    BY DEF StoreStepOK, StoreTypeOK
  <2>2. \A d \in due : d.id \in Nat /\ d.id <= connects
    BY DEF PagesInv, StoreTypeOK
  <2>3. \A d \in due' : d \in due \/ (d.id = connects + 1 /\ d.id = connects')
    BY DEF StoreStepOK
  <2>4. ASSUME NEW d \in due', NEW e \in due', d.id = e.id
        PROVE  d = e
    <3>1. CASE d \in due /\ e \in due
      BY <2>4, <3>1 DEF PagesInv
    <3>2. CASE ~(d \in due /\ e \in due)
      <4>1. d \notin due /\ e \notin due
        BY <2>1, <2>2, <2>3, <2>4, <3>2, SMTT(60)
      <4> QED
        BY <4>1 DEF StoreStepOK
    <3> QED
      BY <3>1, <3>2
  <2> QED
    BY <2>1, <2>2, <2>3, <2>4, SMTT(60)
<1>2. \A p \in Peer : \A r \in Elems(reqs'[p]) : RequestOK(p, r)'
  <2> SUFFICES ASSUME NEW p \in Peer, NEW r \in Elems(reqs'[p]), r \in Elems(reqs[p])
               PROVE  RequestOK(p, r)'
    OBVIOUS
  <2>1. r \in Req /\ RequestOK(p, r)
    <3>1. reqs[p] \in Seq(Req)
      BY DEF StoreTypeOK
    <3>2. Elems(reqs[p]) \subseteq Req
      BY ONLY <3>1, SMTT(60) DEF Elems
    <3>3. RequestOK(p, r)
      BY DEF PagesInv
    <3> QED
      BY <3>2, <3>3
  <2> QED
    BY <2>1, RequestKept
<1>3. \A p \in Peer : \A a \in Elems(answers'[p]) : AnswerOK(a)'
  <2> SUFFICES ASSUME NEW p \in Peer, NEW a \in Elems(answers'[p]), a \in Elems(answers[p])
               PROVE  AnswerOK(a)'
    OBVIOUS
  <2>1. a \in Answers /\ AnswerOK(a)
    BY SMTT(60) DEF PagesInv, Elems, StoreTypeOK
  <2> QED
    BY <2>1, AnswerKept
<1>4. \A a \in Elems(ch') : AnswerOK(a)'
  <2> SUFFICES ASSUME NEW a \in Elems(ch'), a \in Elems(ch) \/ AnswerOK(a)
               PROVE  AnswerOK(a)'
    OBVIOUS
  <2>1. a \in Answers
    BY SMTT(60) DEF Elems, StoreTypeOK, StoreStepOK
  <2>2. AnswerOK(a)
    BY DEF PagesInv
  <2> QED
    BY <2>1, <2>2, AnswerKept
<1>5. \A c \in local', d \in Ctx : Num[d] < Num[c] => Excused(d)'
  BY DEF PagesInv, Excused, StoreStepOK
<1> QED
  BY <1>1, <1>2, <1>3, <1>4, <1>5 DEF PagesInv, Used

\* handle registers a peer: the new call of Synchronise has a number of its own.
LEMMA ConnectPages ==
  ASSUME StoreTypeOK, PagesInv, NEW p \in Peer, Connect(p)
  PROVE  StoreTypeOK' /\ PagesInv'
<1> DEFINE now == [q \in DOMAIN status \cup {p} |-> IF q = p THEN known[p] ELSE status[q]]
<1>1. PICK best \in DOMAIN now :
           due' = due \cup {[peer |-> best, height |-> now[best], id |-> connects']}
  BY DEF Connect
<1>2. best \in Peer /\ DOMAIN status' \subseteq Peer /\ connects' = connects + 1
  BY <1>1 DEF Connect, StoreTypeOK
<1>3. /\ UNCHANGED <<known, local, own, sync, ch, reqs, answers, timeouts, failed>>
      /\ connects \in Nat
  BY DEF Connect, StoreTypeOK
<1> DEFINE d == [peer |-> best, height |-> now[best], id |-> connects']
<1>4. d.peer \in Peer /\ d.id = connects + 1 /\ due' = due \cup {d}
  BY <1>1, <1>2
<1> HIDE DEF d, now
<1>5. StoreTypeOK'
  <2>1. \A e \in due' : e.peer \in Peer /\ e.id \in Nat
    <3>1. \A e \in due : e.peer \in Peer /\ e.id \in Nat
      BY DEF StoreTypeOK
    <3> QED
      BY ONLY <1>3, <1>4, <3>1, SMTT(60)
  <2>2. connects' \in Nat
    BY ONLY <1>2, <1>3, SMTT(60)
  <2> QED
    BY <1>2, <1>3, <2>1, <2>2 DEF StoreTypeOK
<1>6. StoreStepOK
  <2>1. \A e \in due' : e \in due \/ (e.id = connects + 1 /\ e.id = connects')
    BY <1>2, <1>4
  <2>2. \A e, f \in due' : e \in due \/ f \in due \/ e = f
    BY <1>4
  <2>3. connects <= connects' /\ \A q \in Peer : known[q] <= known'[q]
    BY <1>2, <1>3, SMTT(60) DEF StoreTypeOK
  <2> QED
    BY <1>3, <1>5, <2>1, <2>2, <2>3 DEF StoreStepOK
<1>7. sync'.on => Used(sync.id)'
  BY <1>3, <1>6, RunningKept
<1>8. sync'.on /\ sync'.peer \in Peer => \A c \in sync'.want : Num[c] <= known'[sync'.peer]
  BY <1>3 DEF PagesInv
<1> QED
  BY <1>3, <1>5, <1>6, <1>7, <1>8, PagesKept

\* Synchronise is refused.
LEMMA RefusedPages ==
  ASSUME StoreTypeOK, PagesInv, NEW d \in due, SynchroniseRefused(d)
  PROVE  StoreTypeOK' /\ PagesInv'
<1>1. /\ UNCHANGED <<known, status, local, own, sync, ch, reqs, answers, connects, timeouts,
                     failed>>
      /\ due' \subseteq due
  BY DEF SynchroniseRefused
<1>2. StoreTypeOK'
  BY <1>1 DEF StoreTypeOK
<1>3. StoreStepOK
  BY <1>1, <1>2, SMTT(60) DEF StoreStepOK, StoreTypeOK
<1>4. sync'.on => Used(sync.id)'
  BY <1>1, <1>3, RunningKept
<1>5. sync'.on /\ sync'.peer \in Peer => \A c \in sync'.want : Num[c] <= known'[sync'.peer]
  BY <1>1 DEF PagesInv
<1> QED
  BY <1>1, <1>2, <1>3, <1>4, <1>5, PagesKept

\* syncWithPeer begins: it asks from the height of the store on, below which there
\* is no hole, and nothing that is underway has its number.
LEMMA SynchronisePages ==
  ASSUME StoreTypeOK, PagesInv, NEW d \in due, Synchronise(d)
  PROVE  StoreTypeOK' /\ PagesInv'
<1> DEFINE ask == Height <= d.height
           want == {c \in Ctx : ask /\ Num[c] \in Height..known[d.peer]}
<1>1. /\ UNCHANGED <<known, status, local, own, connects, timeouts, failed>>
      /\ due' = due \ {d} /\ ch' = <<>>
      /\ sync' = [on |-> TRUE, peer |-> d.peer, id |-> d.id, want |-> want]
      /\ reqs' = reqs \/ Request(d.peer, Height, d.id)
  BY DEF Synchronise
<1>2. Height \in Nat /\ d.peer \in Peer /\ d.id \in Nat /\ known[d.peer] \in Nat
  BY HeightFacts DEF StoreTypeOK
<1>3. PICK gone \in [Peer -> 0..MaxConnects] :
        answers' = [q \in Peer |-> SubSeq(answers[q], gone[q] + 1, Len(answers[q]))]
  BY DEF Synchronise
<1>4. /\ answers' \in [Peer -> Seq(Answers)]
      /\ \A q \in Peer : Elems(answers'[q]) \subseteq Elems(answers[q])
  <2>1. ASSUME NEW q \in Peer
        PROVE  /\ SubSeq(answers[q], gone[q] + 1, Len(answers[q])) \in Seq(Answers)
               /\ Elems(SubSeq(answers[q], gone[q] + 1, Len(answers[q]))) \subseteq Elems(answers[q])
    <3>1. gone[q] + 1 \in Nat \ {0} /\ answers[q] \in Seq(Answers)
      <4>1. gone[q] \in Nat
        BY ONLY BoundAssumption, gone \in [Peer -> 0..MaxConnects], q \in Peer, SMTT(60)
      <4>2. answers[q] \in Seq(Answers)
        BY DEF StoreTypeOK
      <4> QED
        BY ONLY <4>1, <4>2, SMTT(60)
    <3> QED
      BY <3>1, ElemsSubSeq
  <2> QED
    BY <1>3, <2>1
<1>5. /\ reqs' \in [Peer -> Seq(Req)]
      /\ \A q \in Peer : \A r \in Elems(reqs'[q]) :
           \/ r \in Elems(reqs[q])
           \/ q = d.peer /\ r = [height |-> Height, sync |-> d.id]
  <2>1. CASE reqs' = reqs
    BY <2>1 DEF StoreTypeOK
  <2>2. CASE Request(d.peer, Height, d.id)
    BY <1>2, <2>2, RequestFacts
  <2> QED
    BY <1>1, <2>1, <2>2
<1>6. want \subseteq Ctx /\ \A c \in want : Num[c] >= Height /\ Num[c] <= known[d.peer]
  BY <1>2, SMTT(60)
<1> HIDE DEF want
<1>7. StoreTypeOK'
  <2>1. sync' \in [on : BOOLEAN, peer : Peer \cup {Nobody}, id : Nat, want : SUBSET Ctx]
    BY <1>1, <1>2, <1>6
  <2>2. ch' \in Seq(Answers)
    BY <1>1, SMTT(60)
  <2> QED
    BY <1>1, <1>4, <1>5, <2>1, <2>2 DEF StoreTypeOK
<1>8. StoreStepOK
  <2>1. \E e \in due : sync'.id = e.id
    BY <1>1
  <2>2. connects <= connects' /\ \A q \in Peer : known[q] <= known'[q]
    BY <1>1, SMTT(60) DEF StoreTypeOK
  <2> QED
    BY <1>1, <1>7, <2>1, <2>2 DEF StoreStepOK
<1>9. Used(d.id)'
  BY <1>1 DEF Used, PagesInv
<1>10. \A x \in Ctx : Num[x] < Height => Excused(x)'
  BY <1>1, HeightFacts DEF PagesInv, Excused
<1>11. ASSUME NEW r \in Req, r = [height |-> Height, sync |-> d.id]
       PROVE  RequestOK(d.peer, r)'
  <2>1. r.height = Height /\ r.sync = d.id
    BY <1>11
  <2>2. sync'.want = want /\ known' = known
    BY <1>1
  <2>3. \A c \in want : Num[c] \in Nat
    BY <1>6, NumFacts
  <2>4. \A c \in sync'.want : Num[c] <= known'[d.peer] /\ ~(Num[c] < r.height)
    BY <1>2, <1>6, <2>1, <2>2, <2>3, SMTT(60)
  <2> QED
    BY <1>9, <1>10, <2>1, <2>4 DEF RequestOK, Used
<1>12. \A p \in Peer : \A r \in Elems(reqs'[p]) : r \in Elems(reqs[p]) \/ RequestOK(p, r)'
  <2>1. [height |-> Height, sync |-> d.id] \in Req
    BY <1>2 DEF Req
  <2> QED
    BY <1>5, <1>11, <2>1
<1>13. Elems(ch') = {}
  BY <1>1, SMTT(60) DEF Elems
<1>14. /\ Used(sync.id)'
       /\ \A c \in sync'.want : Num[c] <= known'[sync'.peer]
  BY <1>1, <1>6, <1>9 DEF Used
<1> QED
  BY <1>1, <1>4, <1>7, <1>8, <1>12, <1>13, <1>14, PagesKept

\* A step that makes no call of Synchronise run.
LEMMA PlainStep ==
  ASSUME StoreTypeOK, StoreTypeOK', local \subseteq local', failed \subseteq failed', own \subseteq own',
         \A p \in Peer : known[p] <= known'[p],
         UNCHANGED <<connects, due>>,
         sync'.on => sync.on /\ sync'.id = sync.id /\ sync'.want \subseteq sync.want
  PROVE  StoreStepOK
<1>1. connects <= connects'
  BY SMTT(60) DEF StoreTypeOK
<1> QED
  BY <1>1 DEF StoreStepOK

\* Nothing that the peers have changes.
LEMMA KnownSame ==
  ASSUME StoreTypeOK, known' = known
  PROVE  \A p \in Peer : known[p] <= known'[p]
BY SMTT(60) DEF StoreTypeOK

\* The peer of the synchronisation that runs has what it wants.
LEMMA WantKept ==
  ASSUME StoreTypeOK, PagesInv, StoreStepOK, sync'.on, sync'.peer \in Peer,
         sync.on, sync'.peer = sync.peer, sync'.want \subseteq sync.want
  PROVE  \A c \in sync'.want : Num[c] <= known'[sync'.peer]
<1> SUFFICES ASSUME NEW c \in sync'.want, NEW p \in Peer, p = sync.peer, p = sync'.peer
             PROVE  Num[c] <= known'[p]
  OBVIOUS
<1>1. Num[c] <= known[p]
  BY DEF PagesInv
<1>2. c \in Ctx /\ known[p] \in Nat /\ known'[p] \in Nat /\ known[p] <= known'[p]
  BY DEF StoreTypeOK, StoreStepOK
<1>3. Num[c] \in Nat
  BY <1>2, NumFacts
<1> QED
  BY <1>1, <1>2, <1>3, SMTT(60)

\* The store of the peer answers: the page goes on where the request begins.
LEMMA AnswerPages ==
  ASSUME StoreTypeOK, PagesInv, NEW p \in Peer, Answer(p)
  PROVE  StoreTypeOK' /\ PagesInv'
<1>1. /\ UNCHANGED <<known, status, due, local, own, sync, ch, connects, timeouts, failed>>
      /\ reqs[p] # <<>> /\ reqs' = [reqs EXCEPT ![p] = Tail(@)]
  BY DEF Answer
<1>2. PICK r \in Req : r = Head(reqs[p]) /\ r \in Elems(reqs[p])
  <2>1. reqs[p] \in Seq(Req)
    BY DEF StoreTypeOK
  <2> QED
    BY <1>1, <2>1, ElemsTail
<1>3. r.height \in Nat /\ r.sync \in Nat /\ RequestOK(p, r)
  BY <1>2 DEF Req, PagesInv
<1>4. PICK page \in SUBSET Ctx : page = RangeByNumber(Held(p), r.height)
  BY DEF RangeByNumber, Held
<1>5. PICK a \in Answers : a.page = page /\ a.sync = r.sync /\ a = [page |-> page, sync |-> r.sync]
  BY <1>3 DEF Answers
<1>6. answers' = [answers EXCEPT ![p] = Append(@, a)]
  BY <1>2, <1>4, <1>5 DEF Answer
<1>7. /\ reqs' \in [Peer -> Seq(Req)]
      /\ \A q \in Peer : Elems(reqs'[q]) \subseteq Elems(reqs[q])
  <2>1. Tail(reqs[p]) \in Seq(Req) /\ Elems(Tail(reqs[p])) \subseteq Elems(reqs[p])
    BY <1>1, ElemsTail DEF StoreTypeOK
  <2> QED
    BY <1>1, <2>1 DEF StoreTypeOK
<1>8. /\ answers' \in [Peer -> Seq(Answers)]
      /\ \A q \in Peer : \A x \in Elems(answers'[q]) : x \in Elems(answers[q]) \/ x = a
  <2>1. /\ Append(answers[p], a) \in Seq(Answers)
        /\ Elems(Append(answers[p], a)) = Elems(answers[p]) \cup {a}
    BY ElemsAppend, SMTT(60) DEF StoreTypeOK
  <2> QED
    BY <1>6, <2>1 DEF StoreTypeOK
<1>9. StoreTypeOK'
  BY <1>1, <1>7, <1>8 DEF StoreTypeOK
<1>10. StoreStepOK
  BY <1>1, <1>9, PlainStep, KnownSame
<1>11. AnswerOK(a)
  <2>1. /\ page \subseteq Held(p)
        /\ \A c \in page, d \in Held(p) : Num[d] >= r.height /\ Num[d] <= Num[c] => d \in page
        /\ page = {} => \A d \in Held(p) : Num[d] < r.height
    <3>1. Held(p) \in SUBSET Ctx
      BY DEF Held
    <3> QED
      BY <1>3, <1>4, <3>1, PageFacts
  <2>2. \A c \in Ctx : Num[c] \in Nat /\ (c \in Held(p) <=> Num[c] <= known[p])
    BY NumFacts DEF Held
  <2>3. known[p] \in Nat
    BY DEF StoreTypeOK
  <2>4. ASSUME NEW c \in page, NEW d \in Ctx, Num[d] <= Num[c]
        PROVE  d \in page \/ Excused(d)
    <3>1. d \in Held(p)
      BY <2>1, <2>2, <2>3, <2>4, SMTT(60)
    <3>2. CASE Num[d] < r.height
      BY <1>3, <3>2 DEF RequestOK
    <3>3. CASE Num[d] >= r.height
      BY <2>1, <2>4, <3>1, <3>3
    <3> QED
      BY <1>3, <2>2, <3>2, <3>3, SMTT(60)
  <2>5. ASSUME sync.on, sync.id = a.sync, NEW c \in sync.want
        PROVE  \/ Tried(c) \/ c \in page
               \/ page # {} /\ \A e \in page : Num[e] < Num[c]
    <3>1. c \in Ctx /\ c \in Held(p) /\ (Num[c] < r.height => Tried(c))
      BY <1>3, <1>5, <2>2, <2>5 DEF RequestOK, StoreTypeOK
    <3>2. CASE Num[c] < r.height
      BY <3>1, <3>2
    <3>3. CASE Num[c] >= r.height
      <4>1. page # {}
        BY <1>3, <2>1, <2>2, <3>1, <3>3, SMTT(60)
      <4>2. \A e \in page : Num[c] <= Num[e] => c \in page
        BY <2>1, <3>1, <3>3
      <4>3. \A e \in page : Num[e] < Num[c] \/ Num[c] <= Num[e]
        BY <2>2, <3>1, SMTT(60)
      <4> QED
        BY <4>1, <4>2, <4>3
    <3> QED
      BY <1>3, <2>2, <3>1, <3>2, <3>3, SMTT(60)
  <2> QED
    BY <1>3, <1>5, <2>4, <2>5 DEF AnswerOK, RequestOK
<1>12. AnswerOK(a)'
  BY <1>10, <1>11, AnswerKept
<1>13. sync'.on => Used(sync.id)'
  BY <1>1, <1>10, RunningKept
<1>14. sync'.on /\ sync'.peer \in Peer => \A c \in sync'.want : Num[c] <= known'[sync'.peer]
  BY <1>1, <1>10, WantKept
<1> QED
  BY <1>1, <1>7, <1>8, <1>9, <1>10, <1>12, <1>13, <1>14, PagesKept

\* An answer goes into the channel.
LEMMA DeliverPages ==
  ASSUME StoreTypeOK, PagesInv, NEW p \in Peer, DeliverCrossTransactions(p)
  PROVE  StoreTypeOK' /\ PagesInv'
<1>1. /\ UNCHANGED <<known, status, due, local, own, sync, reqs, connects, timeouts, failed>>
      /\ answers[p] # <<>> /\ answers' = [answers EXCEPT ![p] = Tail(@)]
      /\ ch' = Append(ch, Head(answers[p]))
  BY DEF DeliverCrossTransactions
<1>2. /\ Tail(answers[p]) \in Seq(Answers) /\ Elems(Tail(answers[p])) \subseteq Elems(answers[p])
      /\ Head(answers[p]) \in Answers /\ Head(answers[p]) \in Elems(answers[p])
  BY <1>1, ElemsTail DEF StoreTypeOK
<1>3. /\ answers' \in [Peer -> Seq(Answers)]
      /\ \A q \in Peer : Elems(answers'[q]) \subseteq Elems(answers[q])
  BY <1>1, <1>2 DEF StoreTypeOK
<1>4. ch' \in Seq(Answers) /\ Elems(ch') = Elems(ch) \cup {Head(answers[p])}
  BY <1>1, <1>2, ElemsAppend, SMTT(60) DEF StoreTypeOK
<1>5. StoreTypeOK'
  BY <1>1, <1>3, <1>4 DEF StoreTypeOK
<1>6. StoreStepOK
  BY <1>1, <1>5, PlainStep, KnownSame
<1>7. \A a \in Elems(ch') : a \in Elems(ch) \/ AnswerOK(a)
  BY <1>2, <1>4 DEF PagesInv
<1>8. sync'.on => Used(sync.id)'
  BY <1>1, <1>6, RunningKept
<1>9. sync'.on /\ sync'.peer \in Peer => \A c \in sync'.want : Num[c] <= known'[sync'.peer]
  BY <1>1, <1>6, WantKept
<1> QED
  BY <1>1, <1>3, <1>5, <1>6, <1>7, <1>8, <1>9, PagesKept

\* syncCrossTransaction stores a page: whatever is below its last block is then
\* stored or excused, which is what the next request needs.
LEMMA ImportPages ==
  ASSUME StoreTypeOK, PagesInv, ImportPage
  PROVE  StoreTypeOK' /\ PagesInv'
<1>1. /\ UNCHANGED <<known, status, due, own, answers, connects, timeouts>>
      /\ sync.on /\ ch # <<>> /\ ch' = Tail(ch)
      /\ sync' = [sync EXCEPT !.want = IF Head(ch).sync = sync.id THEN @ ELSE {}]
  BY DEF ImportPage
<1>2. PICK a \in Answers : a = Head(ch) /\ a \in Elems(ch)
  BY <1>1, ElemsTail DEF StoreTypeOK
<1>3. ch' \in Seq(Answers) /\ Elems(ch') \subseteq Elems(ch)
  BY <1>1, ElemsTail DEF StoreTypeOK
<1>4. AnswerOK(a) /\ a.page \in SUBSET Ctx /\ a.page # {}
  BY <1>2 DEF Answers, PagesInv, ImportPage
<1>5. PICK bad \in SUBSET {Num[c] : c \in a.page} :
        /\ local' = local \cup {c \in a.page : Num[c] \notin bad}
        /\ failed' = failed \cup bad
  BY <1>2 DEF ImportPage
<1>6. PICK h \in Nat : /\ h = NextHeight({Num[c] : c \in a.page})
                       /\ \E c \in a.page : h = Num[c] + 1
                       /\ \A c \in a.page : Num[c] < h
  <2> DEFINE m == Max({Num[c] : c \in a.page})
  <2>1. m \in Nat /\ (\E c \in a.page : Num[c] = m) /\ \A c \in a.page : Num[c] <= m
    BY <1>4, MaxNum
  <2>2. \A c \in a.page : Num[c] \in Nat
    BY <1>4, NumFacts
  <2> HIDE DEF m
  <2>3. m + 1 \in Nat /\ (\E c \in a.page : m + 1 = Num[c] + 1) /\ \A c \in a.page : Num[c] < m + 1
    BY <2>1, <2>2, SMTT(60)
  <2> QED
    BY <2>3 DEF NextHeight, m
<1>7. Request(sync.peer, h, sync.id)
  BY <1>2, <1>6 DEF ImportPage
<1>8. /\ sync' \in [on : BOOLEAN, peer : Peer \cup {Nobody}, id : Nat, want : SUBSET Ctx]
      /\ sync'.on /\ sync'.id = sync.id /\ sync'.peer = sync.peer
      /\ sync'.want \subseteq sync.want
      /\ sync'.want # {} => a.sync = sync.id
  BY <1>1, <1>2 DEF StoreTypeOK
<1>9. sync.peer \in Peer \cup {Nobody} /\ sync.id \in Nat
  BY DEF StoreTypeOK
<1>10. /\ reqs' \in [Peer -> Seq(Req)]
       /\ \A q \in Peer : \A r \in Elems(reqs'[q]) :
            r \in Elems(reqs[q]) \/ (q = sync.peer /\ r = [height |-> h, sync |-> sync.id])
  BY <1>7, <1>9, RequestFacts
<1>11. StoreTypeOK'
  <2>1. local' \subseteq Ctx
    BY <1>4, <1>5 DEF StoreTypeOK
  <2> QED
    BY <1>1, <1>3, <1>8, <1>10, <2>1 DEF StoreTypeOK
<1>12. StoreStepOK
  BY <1>1, <1>5, <1>8, <1>11, PlainStep, KnownSame
<1>13. sync'.on => Used(sync.id)'
  BY <1>1, <1>8, <1>12, RunningKept
<1>14. sync'.on /\ sync'.peer \in Peer => \A c \in sync'.want : Num[c] <= known'[sync'.peer]
  BY <1>1, <1>8, <1>12, WantKept
<1>15. \A c \in a.page : Tried(c)'
  BY <1>5 DEF Tried
<1>16. ASSUME NEW d \in Ctx, NEW c \in a.page, Num[d] <= Num[c]
       PROVE  Excused(d)'
  <2>1. d \in a.page \/ Excused(d)
    BY <1>4, <1>16 DEF AnswerOK
  <2> QED
    BY <1>15, <1>12, <2>1 DEF Excused, Tried, StoreStepOK
<1>17. ASSUME NEW r \in Req, r = [height |-> h, sync |-> sync.id],
              NEW p \in Peer, p = sync.peer
       PROVE  RequestOK(p, r)'
  <2>1. r.height = h /\ r.sync = sync.id
    BY <1>17
  <2>2. PICK c \in a.page : h = Num[c] + 1
    BY <1>6
  <2>a. c \in Ctx /\ Num[c] \in Nat /\ \A d \in Ctx : Num[d] \in Nat
    BY <1>4, NumFacts
  <2>3. \A d \in Ctx : Num[d] < h => Num[d] <= Num[c]
    BY <2>2, <2>a, SMTT(60)
  <2>4. \A d \in Ctx : Num[d] < r.height => Excused(d)'
    BY <1>16, <2>1, <2>3
  <2>5. ASSUME NEW w \in sync'.want, Num[w] < h
        PROVE  Tried(w)'
    <3>1. a.sync = sync.id /\ w \in sync.want /\ w \in Ctx
      BY <1>8 DEF StoreTypeOK
    <3>2. Tried(w) \/ w \in a.page \/ \A e \in a.page : Num[e] < Num[w]
      BY <1>1, <1>4, <3>1 DEF AnswerOK
    <3>3. ~(Num[c] < Num[w])
      BY <2>2, <2>3, <2>5, <2>a, <3>1, SMTT(60)
    <3> QED
      BY <1>12, <1>15, <3>2, <3>3 DEF Tried, StoreStepOK
  <2>6. Used(r.sync)'
    BY <1>8, <1>13, <2>1 DEF Used
  <2>7. \A w \in sync'.want : Num[w] <= known'[p]
    BY <1>8, <1>14, <1>17
  <2> QED
    BY <2>1, <2>4, <2>5, <2>6, <2>7 DEF RequestOK
<1>18. \A p \in Peer : \A r \in Elems(reqs'[p]) : r \in Elems(reqs[p]) \/ RequestOK(p, r)'
  <2>1. [height |-> h, sync |-> sync.id] \in Req
    BY <1>9 DEF Req
  <2> QED
    BY <1>10, <1>17, <2>1
<1>19. \A c \in local', d \in Ctx : Num[d] < Num[c] => c \in local \/ Excused(d)'
  <2> SUFFICES ASSUME NEW c \in local', NEW d \in Ctx, Num[d] < Num[c], c \notin local
               PROVE  Excused(d)'
    OBVIOUS
  <2>1. c \in a.page
    BY <1>5
  <2>2. Num[d] <= Num[c]
    <3>1. c \in Ctx
      BY <1>4, <2>1
    <3>2. Num[c] \in Nat /\ Num[d] \in Nat
      BY <3>1, NumFacts
    <3> QED
      BY ONLY <3>2, Num[d] < Num[c], SMTT(60)
  <2> QED
    BY <1>16, <2>1, <2>2
<1> QED
  BY <1>1, <1>3, <1>11, <1>12, <1>13, <1>14, <1>18, <1>19, PagesKept

\* A synchronisation ends or times out.
LEMMA EndPages ==
  ASSUME StoreTypeOK, PagesInv, Complete \/ Timeout
  PROVE  StoreTypeOK' /\ PagesInv'
<1>1. /\ UNCHANGED <<known, status, due, local, own, reqs, answers, connects, failed>>
      /\ sync' = Off /\ timeouts' \in Nat
  BY SMTT(60) DEF Complete, Timeout, StoreTypeOK
<1>2. ch' \in Seq(Answers) /\ Elems(ch') \subseteq Elems(ch)
  <2>1. CASE Complete
    BY <2>1, ElemsTail DEF Complete, StoreTypeOK
  <2>2. CASE Timeout
    BY <2>2 DEF Timeout, StoreTypeOK
  <2> QED
    BY <2>1, <2>2
<1>3. ~sync'.on /\ sync' \in [on : BOOLEAN, peer : Peer \cup {Nobody}, id : Nat, want : SUBSET Ctx]
  BY <1>1 DEF Off
<1>4. StoreTypeOK'
  BY <1>1, <1>2, <1>3 DEF StoreTypeOK
<1>5. StoreStepOK
  BY <1>1, <1>3, <1>4, PlainStep, KnownSame
<1> QED
  BY <1>1, <1>2, <1>3, <1>4, <1>5, PagesKept

\* The next block of a peer.
LEMMA GrowPages ==
  ASSUME StoreTypeOK, PagesInv, NEW p \in Peer, Grow(p)
  PROVE  StoreTypeOK' /\ PagesInv'
<1>1. /\ UNCHANGED <<status, due, local, own, sync, ch, reqs, answers, connects, timeouts, failed>>
      /\ known' = [known EXCEPT ![p] = Min({n \in Nums : n > @})]
  BY DEF Grow
<1>2. PICK S \in SUBSET Nat : S = {n \in Nums : n > known[p]} /\ S # {}
  BY NumFacts, SMTT(60) DEF Grow, Nums
<1>3. PICK n \in S : \A m \in S : n <= m
  BY <1>2, LeastNat
<1>4. Min(S) \in S
  BY <1>3 DEF Min
<1>5. known' \in [Peer -> Nat] /\ \A q \in Peer : known[q] <= known'[q]
  <2>1. PICK m \in Nat : m = Min(S) /\ m > known[p]
    BY <1>2, <1>4
  <2>2. known' = [known EXCEPT ![p] = m]
    BY <1>1, <1>2, <2>1
  <2>3. known \in [Peer -> Nat]
    BY DEF StoreTypeOK
  <2> QED
    BY ONLY <2>1, <2>2, <2>3, p \in Peer, SMTT(60)
<1>6. StoreTypeOK'
  BY <1>1, <1>5 DEF StoreTypeOK
<1>7. StoreStepOK
  BY <1>1, <1>5, <1>6, PlainStep
<1>8. sync'.on => Used(sync.id)'
  BY <1>1, <1>7, RunningKept
<1>9. sync'.on /\ sync'.peer \in Peer => \A c \in sync'.want : Num[c] <= known'[sync'.peer]
  BY <1>1, <1>7, WantKept
<1> QED
  BY <1>1, <1>6, <1>7, <1>8, <1>9, PagesKept

\* A transaction of the own pool is stored.
LEMMA StoreOwnPages ==
  ASSUME StoreTypeOK, PagesInv, NEW c \in Ctx, StoreOwn(c)
  PROVE  StoreTypeOK' /\ PagesInv'
<1>1. /\ UNCHANGED <<known, status, due, sync, ch, reqs, answers, connects, timeouts, failed>>
      /\ local' = local \cup {c} /\ own' = own \cup {c}
  BY DEF StoreOwn
<1>2. StoreTypeOK'
  BY <1>1 DEF StoreTypeOK
<1>3. StoreStepOK
  BY <1>1, <1>2, PlainStep, KnownSame
<1>4. sync'.on => Used(sync.id)'
  BY <1>1, <1>3, RunningKept
<1>5. sync'.on /\ sync'.peer \in Peer => \A x \in sync'.want : Num[x] <= known'[sync'.peer]
  BY <1>1, <1>3, WantKept
<1>6. \A x \in local', d \in Ctx : Num[d] < Num[x] => x \in local \/ Excused(d)'
  BY <1>1, NumFacts DEF Excused
<1> QED
  BY <1>1, <1>2, <1>3, <1>4, <1>5, <1>6, PagesKept

\* A connection is lost.
LEMMA DisconnectPages ==
  ASSUME StoreTypeOK, PagesInv, NEW p \in Peer, Disconnect(p)
  PROVE  StoreTypeOK' /\ PagesInv'
<1>1. /\ UNCHANGED <<known, due, local, own, ch, connects, timeouts, failed>>
      /\ reqs' = [reqs EXCEPT ![p] = <<>>] /\ answers' = [answers EXCEPT ![p] = <<>>]
      /\ sync' = [sync EXCEPT !.peer = IF @ = p THEN Nobody ELSE @]
      /\ DOMAIN status' \subseteq DOMAIN status
  BY DEF Disconnect
<1>2. Elems(<<>>) = {} /\ <<>> \in Seq(Req) /\ <<>> \in Seq(Answers)
  BY SMTT(60) DEF Elems
<1>3. /\ reqs' \in [Peer -> Seq(Req)] /\ answers' \in [Peer -> Seq(Answers)]
      /\ \A q \in Peer : reqs'[q] = reqs[q] \/ reqs'[q] = <<>>
      /\ \A q \in Peer : answers'[q] = answers[q] \/ answers'[q] = <<>>
  BY <1>1, <1>2 DEF StoreTypeOK
<1>4. /\ sync' \in [on : BOOLEAN, peer : Peer \cup {Nobody}, id : Nat, want : SUBSET Ctx]
      /\ sync'.on = sync.on /\ sync'.id = sync.id /\ sync'.want = sync.want
      /\ sync'.peer = sync.peer \/ sync'.peer = Nobody
  BY <1>1 DEF StoreTypeOK
<1>5. StoreTypeOK'
  BY <1>1, <1>3, <1>4 DEF StoreTypeOK
<1>6. StoreStepOK
  BY <1>1, <1>4, <1>5, PlainStep, KnownSame
<1>7. sync'.on => Used(sync.id)'
  BY <1>4, <1>6, RunningKept
<1>8. sync'.on /\ sync'.peer \in Peer => \A c \in sync'.want : Num[c] <= known'[sync'.peer]
  BY <1>4, <1>6, WantKept, PeerAssumption
<1>9. /\ \A q \in Peer : Elems(reqs'[q]) \subseteq Elems(reqs[q])
      /\ \A q \in Peer : Elems(answers'[q]) \subseteq Elems(answers[q])
  BY <1>2, <1>3
<1> QED
  BY <1>1, <1>5, <1>6, <1>7, <1>8, <1>9, PagesKept

-----------------------------------------------------------------------------
(* How many requests and answers are underway.                             *)

\* One goes away, one comes, or one moves.
LEMMA SetMoves ==
  ASSUME NEW S, IsFiniteSet(S), NEW T, NEW x \in S, NEW y
  PROVE  /\ T \subseteq S => IsFiniteSet(T) /\ Cardinality(T) <= Cardinality(S)
         /\ T \subseteq S \ {x} => IsFiniteSet(T) /\ Cardinality(T) <= Cardinality(S) - 1
         /\ T \subseteq (S \ {x}) \cup {y} => IsFiniteSet(T) /\ Cardinality(T) <= Cardinality(S)
<1>1. Cardinality(S) \in Nat
  BY FS_CardinalityType
<1>2. IsFiniteSet(S \ {x}) /\ Cardinality(S \ {x}) = Cardinality(S) - 1
  BY FS_RemoveElement
<1> DEFINE R == S \ {x}
<1>3. /\ IsFiniteSet(R \cup {y})
      /\ Cardinality(R \cup {y}) = IF y \in R THEN Cardinality(R) ELSE Cardinality(R) + 1
  BY <1>2, FS_AddElement
<1>4. ASSUME NEW Q, IsFiniteSet(Q), T \subseteq Q
      PROVE  IsFiniteSet(T) /\ Cardinality(T) \in Nat /\ Cardinality(T) <= Cardinality(Q)
  <2>1. IsFiniteSet(T) /\ Cardinality(T) <= Cardinality(Q)
    <3>1. T \in SUBSET Q
      BY <1>4
    <3> QED
      BY <1>4, <3>1, FS_Subset
  <2> QED
    BY <2>1, FS_CardinalityType
<1>5. T \subseteq S => IsFiniteSet(T) /\ Cardinality(T) <= Cardinality(S)
  BY <1>4
<1>6. T \subseteq R => IsFiniteSet(T) /\ Cardinality(T) <= Cardinality(R)
  BY <1>2, <1>4
<1>7. T \subseteq R \cup {y} => /\ IsFiniteSet(T) /\ Cardinality(T) \in Nat
                               /\ Cardinality(T) <= Cardinality(R \cup {y})
  BY <1>3, <1>4
<1>8. T \subseteq R \cup {y} => Cardinality(T) <= Cardinality(S)
  BY <1>1, <1>2, <1>3, <1>7, SMTT(60)
<1> QED
  BY <1>2, <1>5, <1>6, <1>7, <1>8

\* A finite set to which at most one element is added.
LEMMA SetGrows ==
  ASSUME NEW S, IsFiniteSet(S), NEW T, NEW y, T \subseteq S \cup {y}
  PROVE  IsFiniteSet(T) /\ Cardinality(T) <= Cardinality(S) + 1
<1>1. /\ IsFiniteSet(S \cup {y}) /\ Cardinality(S) \in Nat
      /\ Cardinality(S \cup {y}) = IF y \in S THEN Cardinality(S) ELSE Cardinality(S) + 1
  BY FS_AddElement, FS_CardinalityType
<1>2. IsFiniteSet(T) /\ Cardinality(T) <= Cardinality(S \cup {y})
  <2>1. T \in SUBSET (S \cup {y})
    OBVIOUS
  <2> QED
    BY <1>1, <2>1, FS_Subset
<1>3. Cardinality(T) \in Nat /\ Cardinality(S \cup {y}) \in Nat
  BY <1>1, <1>2, FS_CardinalityType
<1> QED
  BY <1>1, <1>2, <1>3, SMTT(60)

\* A place in one of the queues of kind k, one per peer; a place in the channel.
InQueues(x, qs, k) == \E q \in Peer : \E i \in 1..Len(qs[q]) : x = <<q, k, i>>
InChannel(x, c) == \E i \in 1..Len(c) : x = <<Nobody, 3, i>>

\* A place is one in a queue of requests, in one of answers, or in the channel.
LEMMA PlacesMember ==
  ASSUME NEW rs, NEW as, NEW c, NEW x
  PROVE  x \in Places(rs, as, c) <=> InQueues(x, rs, 1) \/ InQueues(x, as, 2) \/ InChannel(x, c)
<1> DEFINE R == UNION {{<<p, 1, i>> : i \in 1..Len(rs[p])} : p \in Peer}
           A == UNION {{<<p, 2, i>> : i \in 1..Len(as[p])} : p \in Peer}
           C == {<<Nobody, 3, i>> : i \in 1..Len(c)}
<1>1. x \in R <=> InQueues(x, rs, 1)
  <2> DEFINE row(p) == {<<p, 1, i>> : i \in 1..Len(rs[p])}
  <2>1. x \in UNION {row(p) : p \in Peer} <=> \E p \in Peer : x \in row(p)
    <3> HIDE DEF row
    <3> QED
      OBVIOUS
  <2> QED
    BY <2>1 DEF InQueues
<1>2. x \in A <=> InQueues(x, as, 2)
  <2> DEFINE row(p) == {<<p, 2, i>> : i \in 1..Len(as[p])}
  <2>1. x \in UNION {row(p) : p \in Peer} <=> \E p \in Peer : x \in row(p)
    <3> HIDE DEF row
    <3> QED
      OBVIOUS
  <2> QED
    BY <2>1 DEF InQueues
<1>3. x \in C <=> InChannel(x, c)
  BY DEF InChannel
<1>4. Places(rs, as, c) = R \cup A \cup C
  BY DEF Places
<1>5. x \in Places(rs, as, c) <=> x \in R \/ x \in A \/ x \in C
  <2> HIDE DEF R, A, C
  <2> QED
    BY <1>4
<1> HIDE DEF R, A, C
<1> QED
  BY <1>1, <1>2, <1>3, <1>5

\* Fewer are underway when no queue gets longer.
LEMMA PlacesShrink ==
  ASSUME NEW rs, NEW as, NEW c, NEW rt, NEW at, NEW d,
         \A p \in Peer : 1..Len(rt[p]) \subseteq 1..Len(rs[p])
                         /\ 1..Len(at[p]) \subseteq 1..Len(as[p]),
         1..Len(d) \subseteq 1..Len(c)
  PROVE  Places(rt, at, d) \subseteq Places(rs, as, c)
<1> SUFFICES ASSUME NEW x \in Places(rt, at, d) PROVE x \in Places(rs, as, c)
  OBVIOUS
<1>1. InQueues(x, rt, 1) => InQueues(x, rs, 1)
  BY DEF InQueues
<1>2. InQueues(x, at, 2) => InQueues(x, as, 2)
  BY DEF InQueues
<1>3. InChannel(x, d) => InChannel(x, c)
  BY DEF InChannel
<1> QED
  BY <1>1, <1>2, <1>3, PlacesMember

\* The last place of a queue is taken.
LEMMA LastPlace ==
  ASSUME NEW rs, NEW as, NEW c, NEW n \in Nat \ {0}
  PROVE  /\ \A p \in Peer : n = Len(rs[p]) => <<p, 1, n>> \in Places(rs, as, c)
         /\ \A p \in Peer : n = Len(as[p]) => <<p, 2, n>> \in Places(rs, as, c)
         /\ n = Len(c) => <<Nobody, 3, n>> \in Places(rs, as, c)
<1>1. n \in 1..n
  BY SMTT(60)
<1>2. ASSUME NEW p \in Peer, NEW f, NEW k, n = Len(f[p])
      PROVE  InQueues(<<p, k, n>>, f, k)
  BY <1>1, <1>2 DEF InQueues
<1>3. n = Len(c) => InChannel(<<Nobody, 3, n>>, c)
  BY <1>1 DEF InChannel
<1> QED
  BY <1>2, <1>3, PlacesMember

\* Another request.
LEMMA MoreRequests ==
  ASSUME NEW rs, NEW as, NEW c, NEW rt, NEW at, NEW d, NEW n, NEW p,
         \A q \in Peer \ {p} : 1..Len(rt[q]) \subseteq 1..Len(rs[q]),
         1..Len(rt[p]) \subseteq 1..Len(rs[p]) \cup {n},
         \A q \in Peer : 1..Len(at[q]) \subseteq 1..Len(as[q]),
         1..Len(d) \subseteq 1..Len(c)
  PROVE  Places(rt, at, d) \subseteq Places(rs, as, c) \cup {<<p, 1, n>>}
<1> SUFFICES ASSUME NEW x \in Places(rt, at, d), x # <<p, 1, n>>
             PROVE  x \in Places(rs, as, c)
  OBVIOUS
<1>1. InQueues(x, rt, 1) => InQueues(x, rs, 1)
  <2> SUFFICES ASSUME NEW q \in Peer, NEW i \in 1..Len(rt[q]), x = <<q, 1, i>>
               PROVE  i \in 1..Len(rs[q])
    BY DEF InQueues
  <2>1. q # p \/ i # n
    OBVIOUS
  <2> QED
    BY <2>1
<1>2. InQueues(x, at, 2) => InQueues(x, as, 2)
  BY DEF InQueues
<1>3. InChannel(x, d) => InChannel(x, c)
  BY DEF InChannel
<1> QED
  BY <1>1, <1>2, <1>3, PlacesMember

\* Another answer.
LEMMA MoreAnswers ==
  ASSUME NEW rs, NEW as, NEW c, NEW rt, NEW at, NEW d, NEW n, NEW p,
         \A q \in Peer : 1..Len(rt[q]) \subseteq 1..Len(rs[q]),
         \A q \in Peer \ {p} : 1..Len(at[q]) \subseteq 1..Len(as[q]),
         1..Len(at[p]) \subseteq 1..Len(as[p]) \cup {n},
         1..Len(d) \subseteq 1..Len(c)
  PROVE  Places(rt, at, d) \subseteq Places(rs, as, c) \cup {<<p, 2, n>>}
<1> SUFFICES ASSUME NEW x \in Places(rt, at, d), x # <<p, 2, n>>
             PROVE  x \in Places(rs, as, c)
  OBVIOUS
<1>1. InQueues(x, rt, 1) => InQueues(x, rs, 1)
  BY DEF InQueues
<1>2. InQueues(x, at, 2) => InQueues(x, as, 2)
  <2> SUFFICES ASSUME NEW q \in Peer, NEW i \in 1..Len(at[q]), x = <<q, 2, i>>
               PROVE  i \in 1..Len(as[q])
    BY DEF InQueues
  <2>1. q # p \/ i # n
    OBVIOUS
  <2> QED
    BY <2>1
<1>3. InChannel(x, d) => InChannel(x, c)
  BY DEF InChannel
<1> QED
  BY <1>1, <1>2, <1>3, PlacesMember

\* Another one in the channel.
LEMMA MoreInChannel ==
  ASSUME NEW rs, NEW as, NEW c, NEW rt, NEW at, NEW d, NEW n,
         \A q \in Peer : 1..Len(rt[q]) \subseteq 1..Len(rs[q]),
         \A q \in Peer : 1..Len(at[q]) \subseteq 1..Len(as[q]),
         1..Len(d) \subseteq 1..Len(c) \cup {n}
  PROVE  Places(rt, at, d) \subseteq Places(rs, as, c) \cup {<<Nobody, 3, n>>}
<1> SUFFICES ASSUME NEW x \in Places(rt, at, d), x # <<Nobody, 3, n>>
             PROVE  x \in Places(rs, as, c)
  OBVIOUS
<1>1. InQueues(x, rt, 1) => InQueues(x, rs, 1)
  BY DEF InQueues
<1>2. InQueues(x, at, 2) => InQueues(x, as, 2)
  BY DEF InQueues
<1>3. InChannel(x, d) => InChannel(x, c)
  <2> SUFFICES ASSUME NEW i \in 1..Len(d), x = <<Nobody, 3, i>>
               PROVE  i \in 1..Len(c)
    BY DEF InChannel
  <2>1. i # n
    OBVIOUS
  <2> QED
    BY <2>1
<1> QED
  BY <1>1, <1>2, <1>3, PlacesMember

\* No queue reaches beyond its length.
LEMMA NoPlace ==
  ASSUME NEW rs, NEW as, NEW c, NEW n, NEW p
  PROVE  /\ n \notin 1..Len(rs[p]) => <<p, 1, n>> \notin Places(rs, as, c)
         /\ n \notin 1..Len(as[p]) => <<p, 2, n>> \notin Places(rs, as, c)
         /\ n \notin 1..Len(c) => <<p, 3, n>> \notin Places(rs, as, c)
<1>1. ~InChannel(<<p, 1, n>>, c) /\ ~InChannel(<<p, 2, n>>, c)
  BY SMTT(60) DEF InChannel
<1>2. \A f : ~InQueues(<<p, 1, n>>, f, 2) /\ ~InQueues(<<p, 2, n>>, f, 1)
  BY SMTT(60) DEF InQueues
<1>3. \A f : ~InQueues(<<p, 3, n>>, f, 1) /\ ~InQueues(<<p, 3, n>>, f, 2)
  BY SMTT(60) DEF InQueues
<1>4. \A f, k : InQueues(<<p, k, n>>, f, k) => n \in 1..Len(f[p])
  BY DEF InQueues
<1>5. InChannel(<<p, 3, n>>, c) => n \in 1..Len(c)
  BY DEF InChannel
<1> QED
  BY <1>1, <1>2, <1>3, <1>4, <1>5, PlacesMember

\* Steps that leave the queues alone.
LEMMA QuietUnderway ==
  ASSUME UnderwayInv, UNCHANGED <<reqs, answers, ch, timeouts>>, sync'.on = sync.on
  PROVE  UnderwayInv'
BY DEF UnderwayInv, Underway

\* syncWithPeer begins and asks.
LEMMA SynchroniseUnderway ==
  ASSUME StoreTypeOK, StoreTypeOK', UnderwayInv, NEW d \in due, Synchronise(d)
  PROVE  UnderwayInv'
<1>1. /\ ~sync.on /\ sync'.on /\ timeouts' = timeouts /\ ch' = <<>>
      /\ reqs' = reqs \/ Request(d.peer, Height, d.id)
  BY DEF Synchronise, CanStart
<1>2. Height \in Nat /\ d.peer \in Peer /\ d.id \in Nat
  BY HeightFacts DEF StoreTypeOK
<1>3. \A q \in Peer : 1..Len(answers'[q]) \subseteq 1..Len(answers[q])
  <2>1. PICK gone \in [Peer -> 0..MaxConnects] :
          answers' = [q \in Peer |-> SubSeq(answers[q], gone[q] + 1, Len(answers[q]))]
    BY DEF Synchronise
  <2>2. ASSUME NEW q \in Peer
        PROVE  1..Len(answers'[q]) \subseteq 1..Len(answers[q])
    <3>a. MaxConnects \in Nat /\ gone[q] \in 0..MaxConnects
      BY BoundAssumption
    <3>b. answers[q] \in Seq(Answers)
      BY DEF StoreTypeOK
    <3>1. gone[q] + 1 \in Nat \ {0} /\ answers[q] \in Seq(Answers)
      BY <3>a, <3>b, SMTT(60)
    <3>2. Len(SubSeq(answers[q], gone[q] + 1, Len(answers[q]))) <= Len(answers[q])
      BY <3>1, ElemsSubSeq
    <3>3. Len(answers'[q]) \in Nat /\ Len(answers[q]) \in Nat /\ Len(answers'[q]) <= Len(answers[q])
      <4>1. Len(answers'[q]) <= Len(answers[q])
        BY <2>1, <3>2
      <4>2. answers'[q] \in Seq(Answers)
        BY DEF StoreTypeOK
      <4> QED
        BY <3>1, <4>1, <4>2, SMTT(60)
    <3> QED
      BY <3>3, SMTT(60)
  <2> QED
    BY <2>2
<1>4. 1..Len(ch') \subseteq 1..Len(ch)
  BY <1>1, SMTT(60)
<1>5. PICK y : Underway' \subseteq Underway \cup {y}
  <2>1. CASE reqs' = reqs
    BY <1>3, <1>4, <2>1, PlacesShrink DEF Underway
  <2>2. CASE Len(reqs'[d.peer]) = Len(reqs[d.peer]) + 1
             /\ \A q \in Peer \ {d.peer} : reqs'[q] = reqs[q]
    <3> DEFINE n == Len(reqs[d.peer])
    <3>1. n \in Nat
      BY <1>2, SMTT(60) DEF StoreTypeOK
    <3>2. 1..Len(reqs'[d.peer]) \subseteq 1..Len(reqs[d.peer]) \cup {n + 1}
      BY <2>2, <3>1, SMTT(60)
    <3>3. Places(reqs', answers', ch') \subseteq Places(reqs, answers, ch) \cup {<<d.peer, 1, n + 1>>}
      <4>1. \A q \in Peer \ {d.peer} : 1..Len(reqs'[q]) \subseteq 1..Len(reqs[q])
        BY <2>2
      <4> HIDE DEF n
      <4> QED
        BY <1>3, <1>4, <3>2, <4>1, MoreRequests
    <3> QED
      BY <3>3 DEF Underway
  <2>3. CASE Request(d.peer, Height, d.id)
    BY <1>2, <2>1, <2>2, <2>3, RequestFacts
  <2> QED
    BY <1>1, <2>1, <2>3
<1>6. IsFiniteSet(Underway') /\ Cardinality(Underway') <= Cardinality(Underway) + 1
  BY <1>5, SetGrows DEF UnderwayInv
<1>7. Cardinality(Underway) \in Nat /\ Cardinality(Underway') \in Nat /\ timeouts \in Nat
  BY <1>6, FS_CardinalityType DEF UnderwayInv, StoreTypeOK
<1> QED
  BY <1>1, <1>6, <1>7, SMTT(60) DEF UnderwayInv

\* The requests and answers of a step that makes at least as many go as come.
LEMMA UnderwayMoves ==
  ASSUME StoreTypeOK, UnderwayInv, NEW x \in Underway, x \notin Underway',
         \E y : Underway' \subseteq Underway \cup {y}
  PROVE  /\ IsFiniteSet(Underway') /\ Cardinality(Underway') <= Cardinality(Underway)
         /\ Cardinality(Underway') \in Nat /\ Cardinality(Underway) \in Nat
<1>1. PICK y : Underway' \subseteq (Underway \ {x}) \cup {y}
  OBVIOUS
<1>2. IsFiniteSet(Underway') /\ Cardinality(Underway') <= Cardinality(Underway)
  BY <1>1, SetMoves DEF UnderwayInv
<1> QED
  BY <1>2, FS_CardinalityType DEF UnderwayInv

\* A queue without its first element.
LEMMA TailPlaces ==
  ASSUME NEW S, NEW s \in Seq(S), s # <<>>
  PROVE  /\ Len(s) \in Nat \ {0} /\ 1..Len(Tail(s)) \subseteq 1..Len(s)
         /\ Len(s) \notin 1..Len(Tail(s))
<1>1. Len(Tail(s)) = Len(s) - 1 /\ Len(s) \in Nat \ {0}
  BY ElemsTail
<1> QED
  BY <1>1, SMTT(60)

\* A request becomes an answer.
LEMMA AnswerUnderway ==
  ASSUME StoreTypeOK, UnderwayInv, NEW p \in Peer, Answer(p), StoreTypeOK'
  PROVE  UnderwayInv'
<1>1. /\ UNCHANGED <<sync, ch, timeouts>> /\ reqs[p] # <<>> /\ reqs[p] \in Seq(Req)
      /\ reqs' = [reqs EXCEPT ![p] = Tail(@)]
      /\ \E a : answers' = [answers EXCEPT ![p] = Append(@, a)]
  BY DEF Answer, StoreTypeOK
<1> DEFINE n == Len(reqs[p])
           m == Len(answers[p])
<1>2. n \in Nat \ {0} /\ 1..Len(Tail(reqs[p])) \subseteq 1..n /\ n \notin 1..Len(Tail(reqs[p]))
  BY <1>1, TailPlaces
<1>3. reqs'[p] = Tail(reqs[p]) /\ \A q \in Peer \ {p} : reqs'[q] = reqs[q]
  BY <1>1 DEF StoreTypeOK
<1>4. m \in Nat /\ Len(answers'[p]) = m + 1 /\ \A q \in Peer \ {p} : answers'[q] = answers[q]
  BY <1>1, SMTT(60) DEF StoreTypeOK
<1>5. 1..Len(answers'[p]) \subseteq 1..m \cup {m + 1} /\ m + 1 \in Nat
  BY <1>4, SMTT(60)
<1>6. Underway' \subseteq Underway \cup {<<p, 2, m + 1>>}
  <2> HIDE DEF m, n
  <2>1. \A q \in Peer : 1..Len(reqs'[q]) \subseteq 1..Len(reqs[q])
    BY <1>2, <1>3 DEF n
  <2>2. /\ \A q \in Peer \ {p} : 1..Len(answers'[q]) \subseteq 1..Len(answers[q])
        /\ 1..Len(ch') \subseteq 1..Len(ch)
    BY <1>1, <1>4
  <2>3. PICK k \in Nat : k = m + 1 /\ 1..Len(answers'[p]) \subseteq 1..Len(answers[p]) \cup {k}
    BY <1>5 DEF m
  <2>4. Places(reqs', answers', ch') \subseteq Places(reqs, answers, ch) \cup {<<p, 2, k>>}
    BY <2>1, <2>2, <2>3, MoreAnswers
  <2> QED
    BY <2>3, <2>4 DEF Underway
<1>7. <<p, 1, n>> \in Underway /\ <<p, 1, n>> \notin Underway'
  <2>1. <<p, 1, n>> \in Places(reqs, answers, ch)
    BY <1>2, LastPlace
  <2>2. <<p, 1, n>> \notin Places(reqs', answers', ch')
    BY <1>2, <1>3, NoPlace
  <2> QED
    BY <2>1, <2>2 DEF Underway
<1>8. /\ IsFiniteSet(Underway') /\ Cardinality(Underway') <= Cardinality(Underway)
      /\ Cardinality(Underway') \in Nat /\ Cardinality(Underway) \in Nat
  BY <1>6, <1>7, UnderwayMoves
<1> QED
  BY <1>1, <1>8, SMTT(60) DEF UnderwayInv, StoreTypeOK

\* An answer goes into the channel.
LEMMA DeliverUnderway ==
  ASSUME StoreTypeOK, UnderwayInv, NEW p \in Peer, DeliverCrossTransactions(p), StoreTypeOK'
  PROVE  UnderwayInv'
<1>1. /\ UNCHANGED <<sync, reqs, timeouts>> /\ answers[p] # <<>> /\ answers[p] \in Seq(Answers)
      /\ answers' = [answers EXCEPT ![p] = Tail(@)]
      /\ \E a : ch' = Append(ch, a)
  BY DEF DeliverCrossTransactions, StoreTypeOK
<1> DEFINE n == Len(answers[p])
           m == Len(ch)
<1>2. n \in Nat \ {0} /\ 1..Len(Tail(answers[p])) \subseteq 1..n /\ n \notin 1..Len(Tail(answers[p]))
  BY <1>1, TailPlaces
<1>3. answers'[p] = Tail(answers[p]) /\ \A q \in Peer \ {p} : answers'[q] = answers[q]
  BY <1>1 DEF StoreTypeOK
<1>4. m \in Nat /\ Len(ch') = m + 1
  BY <1>1, SMTT(60) DEF StoreTypeOK
<1>5. 1..Len(ch') \subseteq 1..m \cup {m + 1} /\ m + 1 \in Nat
  BY <1>4, SMTT(60)
<1>6. Underway' \subseteq Underway \cup {<<Nobody, 3, m + 1>>}
  <2> HIDE DEF m, n
  <2>1. \A q \in Peer : 1..Len(answers'[q]) \subseteq 1..Len(answers[q])
    BY <1>2, <1>3 DEF n
  <2>2. PICK k \in Nat : k = m + 1 /\ 1..Len(ch') \subseteq 1..Len(ch) \cup {k}
    BY <1>5 DEF m
  <2>3. Places(reqs', answers', ch') \subseteq Places(reqs, answers, ch) \cup {<<Nobody, 3, k>>}
    <3>1. \A q \in Peer : 1..Len(reqs'[q]) \subseteq 1..Len(reqs[q])
      BY <1>1
    <3> QED
      BY <2>1, <2>2, <3>1, MoreInChannel
  <2> QED
    BY <2>2, <2>3 DEF Underway
<1>7. <<p, 2, n>> \in Underway /\ <<p, 2, n>> \notin Underway'
  <2>1. <<p, 2, n>> \in Places(reqs, answers, ch)
    BY <1>2, LastPlace
  <2>2. <<p, 2, n>> \notin Places(reqs', answers', ch')
    BY <1>2, <1>3, NoPlace
  <2> QED
    BY <2>1, <2>2 DEF Underway
<1>8. /\ IsFiniteSet(Underway') /\ Cardinality(Underway') <= Cardinality(Underway)
      /\ Cardinality(Underway') \in Nat /\ Cardinality(Underway) \in Nat
  BY <1>6, <1>7, UnderwayMoves
<1> QED
  <2>1. timeouts' = timeouts /\ sync' = sync
    BY <1>1
  <2>2. timeouts + (IF sync.on THEN 1 ELSE 0) \in Nat
    BY SMTT(60) DEF StoreTypeOK
  <2>3. Cardinality(Underway) <= timeouts + (IF sync.on THEN 1 ELSE 0)
    BY DEF UnderwayInv
  <2>4. Cardinality(Underway') <= timeouts + (IF sync.on THEN 1 ELSE 0)
    BY ONLY <1>8, <2>2, <2>3, SMTT(60)
  <2> QED
    BY ONLY <1>8, <2>1, <2>4, ZenonT(60) DEF UnderwayInv

\* The next page is asked for when one is taken from the channel.
LEMMA ImportUnderway ==
  ASSUME StoreTypeOK, UnderwayInv, ImportPage, StoreTypeOK'
  PROVE  UnderwayInv'
<1>1. /\ UNCHANGED <<answers, timeouts>> /\ ch # <<>> /\ ch \in Seq(Answers) /\ ch' = Tail(ch)
      /\ sync'.on = sync.on /\ sync.peer \in Peer \cup {Nobody} /\ sync.id \in Nat
      /\ Request(sync.peer, NextHeight({Num[c] : c \in Head(ch).page}), sync.id)
  BY DEF ImportPage, StoreTypeOK
<1>2. NextHeight({Num[c] : c \in Head(ch).page}) \in Nat
  <2>1. Head(ch) \in Answers
    BY <1>1, ElemsTail
  <2>2. Head(ch).page \in SUBSET Ctx /\ Head(ch).page # {}
    BY <2>1 DEF Answers, ImportPage
  <2>3. Max({Num[c] : c \in Head(ch).page}) \in Nat
    BY <2>2, MaxNum
  <2> QED
    BY <2>3, SMTT(60) DEF NextHeight
<1> DEFINE n == Len(ch)
<1>3. n \in Nat \ {0} /\ 1..Len(ch') \subseteq 1..n /\ n \notin 1..Len(ch')
  BY <1>1, TailPlaces
<1>4. \E y : Underway' \subseteq Underway \cup {y}
  <2>1. CASE reqs' = reqs
    BY <1>1, <1>3, <2>1, PlacesShrink DEF Underway
  <2>2. CASE /\ sync.peer \in Peer /\ Len(reqs'[sync.peer]) = Len(reqs[sync.peer]) + 1
             /\ \A q \in Peer \ {sync.peer} : reqs'[q] = reqs[q]
    <3> DEFINE m == Len(reqs[sync.peer])
    <3>1. m \in Nat
      BY <2>2, SMTT(60) DEF StoreTypeOK
    <3>2. 1..Len(reqs'[sync.peer]) \subseteq 1..Len(reqs[sync.peer]) \cup {m + 1} /\ m + 1 \in Nat
      BY <2>2, <3>1, SMTT(60)
    <3>3. \E y : Places(reqs', answers', ch') \subseteq Places(reqs, answers, ch) \cup {y}
      <4> HIDE DEF m, n
      <4>1. 1..Len(ch') \subseteq 1..Len(ch)
        BY <1>3 DEF n
      <4>2. PICK p \in Peer : p = sync.peer
        BY <2>2
      <4>3. PICK k \in Nat : k = m + 1
        BY <3>2
      <4>4. /\ 1..Len(reqs'[p]) \subseteq 1..Len(reqs[p]) \cup {k}
            /\ \A q \in Peer : 1..Len(reqs'[q]) \subseteq 1..Len(reqs[q]) \/ q = p
        BY <2>2, <3>2, <4>2, <4>3
      <4>5. Places(reqs', answers', ch') \subseteq Places(reqs, answers, ch) \cup {<<p, 1, k>>}
        BY <1>1, <4>1, <4>4, MoreRequests
      <4> QED
        BY <4>5
    <3> QED
      BY <3>3 DEF Underway
  <2> QED
    BY <1>1, <1>2, <2>1, <2>2, RequestFacts
<1>5. <<Nobody, 3, n>> \in Underway /\ <<Nobody, 3, n>> \notin Underway'
  <2>1. <<Nobody, 3, n>> \in Places(reqs, answers, ch)
    BY <1>3, LastPlace
  <2>2. <<Nobody, 3, n>> \notin Places(reqs', answers', ch')
    BY <1>3, NoPlace
  <2> QED
    BY <2>1, <2>2 DEF Underway
<1>6. /\ IsFiniteSet(Underway') /\ Cardinality(Underway') <= Cardinality(Underway)
      /\ Cardinality(Underway') \in Nat /\ Cardinality(Underway) \in Nat
  BY <1>4, <1>5, UnderwayMoves
<1>7. /\ sync.on \in BOOLEAN /\ timeouts \in Nat
      /\ Cardinality(Underway) <= timeouts + (IF sync.on THEN 1 ELSE 0)
  BY DEF UnderwayInv, StoreTypeOK
<1>8. Cardinality(Underway') <= timeouts' + (IF sync'.on THEN 1 ELSE 0)
  BY ONLY <1>1, <1>6, <1>7, SMTT(60)
<1> QED
  BY <1>6, <1>8 DEF UnderwayInv

\* A synchronisation takes its last answer.
LEMMA CompleteUnderway ==
  ASSUME StoreTypeOK, UnderwayInv, Complete, StoreTypeOK'
  PROVE  UnderwayInv'
<1>1. /\ UNCHANGED <<reqs, answers, timeouts>> /\ ch # <<>> /\ ch \in Seq(Answers) /\ ch' = Tail(ch)
      /\ sync.on /\ ~sync'.on
  BY DEF Complete, Off, StoreTypeOK
<1> DEFINE n == Len(ch)
<1>2. n \in Nat \ {0} /\ 1..Len(ch') \subseteq 1..n /\ n \notin 1..Len(ch')
  BY <1>1, TailPlaces
<1>3. Underway' \subseteq Underway
  BY <1>1, <1>2, PlacesShrink DEF Underway
<1>4. <<Nobody, 3, n>> \in Underway /\ <<Nobody, 3, n>> \notin Underway'
  <2>1. <<Nobody, 3, n>> \in Places(reqs, answers, ch)
    BY <1>2, LastPlace
  <2>2. <<Nobody, 3, n>> \notin Places(reqs', answers', ch')
    BY <1>2, NoPlace
  <2> QED
    BY <2>1, <2>2 DEF Underway
<1>5. IsFiniteSet(Underway') /\ Cardinality(Underway') <= Cardinality(Underway) - 1
  <2> DEFINE x == <<Nobody, 3, n>>
  <2> HIDE DEF x, n
  <2>1. x \in Underway /\ Underway' \subseteq Underway \ {x}
    BY <1>3, <1>4 DEF x
  <2> QED
    BY <2>1, SetMoves DEF UnderwayInv
<1>6. Cardinality(Underway') \in Nat /\ Cardinality(Underway) \in Nat /\ timeouts \in Nat
  BY <1>5, FS_CardinalityType DEF UnderwayInv, StoreTypeOK
<1> QED
  BY <1>1, <1>5, <1>6, SMTT(60) DEF UnderwayInv

\* A synchronisation times out, and leaves what it waited for behind.
LEMMA TimeoutUnderway ==
  ASSUME StoreTypeOK, UnderwayInv, Timeout
  PROVE  UnderwayInv'
<1>1. /\ UNCHANGED <<reqs, answers, ch>> /\ sync.on /\ ~sync'.on /\ timeouts' = timeouts + 1
      /\ timeouts \in Nat
  BY DEF Timeout, Off, StoreTypeOK
<1>2. Underway' = Underway
  BY <1>1 DEF Underway
<1>3. Cardinality(Underway) \in Nat
  BY FS_CardinalityType DEF UnderwayInv
<1> QED
  BY <1>1, <1>2, <1>3, SMTT(60) DEF UnderwayInv

\* What is underway between a peer and this anchor is lost with the connection.
LEMMA DisconnectUnderway ==
  ASSUME StoreTypeOK, UnderwayInv, NEW p \in Peer, Disconnect(p)
  PROVE  UnderwayInv'
<1>1. /\ UNCHANGED <<ch, timeouts>> /\ sync'.on = sync.on
      /\ reqs' = [reqs EXCEPT ![p] = <<>>] /\ answers' = [answers EXCEPT ![p] = <<>>]
  BY DEF Disconnect, StoreTypeOK
<1>2. /\ \A q \in Peer : 1..Len(reqs'[q]) \subseteq 1..Len(reqs[q])
      /\ \A q \in Peer : 1..Len(answers'[q]) \subseteq 1..Len(answers[q])
      /\ 1..Len(ch') \subseteq 1..Len(ch)
  BY <1>1, SMTT(60) DEF StoreTypeOK
<1>3. Underway' \subseteq Underway
  BY <1>2, PlacesShrink DEF Underway
<1>4. IsFiniteSet(Underway') /\ Cardinality(Underway') <= Cardinality(Underway)
  <2>1. Underway' \in SUBSET Underway
    BY <1>3
  <2> QED
    BY <2>1, FS_Subset DEF UnderwayInv
<1>5. Cardinality(Underway') \in Nat /\ Cardinality(Underway) \in Nat /\ timeouts \in Nat
  BY <1>4, FS_CardinalityType DEF UnderwayInv, StoreTypeOK
<1> QED
  BY <1>1, <1>4, <1>5, SMTT(60) DEF UnderwayInv

-----------------------------------------------------------------------------
\* Nothing is stored or underway at first.
LEMMA StoreInit == Init => StoreInv
<1> SUFFICES ASSUME Init PROVE StoreInv
  OBVIOUS
<1>1. Elems(<<>>) = {} /\ \A S : <<>> \in Seq(S)
  BY SMTT(60) DEF Elems
<1>2. StoreTypeOK
  <2>1. known \in [Peer -> Nat]
    <3>1. Nums \cup {0} \subseteq Nat
      BY NumFacts, SMTT(60) DEF Nums
    <3>2. known \in [Peer -> Nums \cup {0}]
      BY DEF Init
    <3> QED
      BY <3>1, <3>2
  <2>2. sync \in [on : BOOLEAN, peer : Peer \cup {Nobody}, id : Nat, want : SUBSET Ctx]
    BY DEF Init, Off
  <2>3. DOMAIN status \subseteq Peer
    BY SMTT(60) DEF Init
  <2> QED
    BY <1>1, <2>1, <2>2, <2>3 DEF Init, StoreTypeOK
<1>3. PagesInv
  BY <1>1 DEF Init, PagesInv, Off
<1>4. Underway = {}
  <2>1. ASSUME NEW x
        PROVE  /\ ~InQueues(x, reqs, 1) /\ ~InQueues(x, answers, 2) /\ ~InChannel(x, ch)
    <3>1. /\ \A p \in Peer : 1..Len(reqs[p]) = {} /\ 1..Len(answers[p]) = {}
          /\ 1..Len(ch) = {}
      BY SMTT(60) DEF Init
    <3> QED
      BY <3>1 DEF InQueues, InChannel
  <2> QED
    BY <2>1, PlacesMember DEF Underway
<1>5. UnderwayInv
  BY <1>4, FS_EmptySet, SMTT(60) DEF UnderwayInv, Init, Off
<1> QED
  BY <1>2, <1>3, <1>5 DEF StoreInv

\* Every step of the synchronisation of the store keeps its invariant.
LEMMA StoreStep == StoreInv /\ Next => StoreInv'
<1> SUFFICES ASSUME StoreTypeOK, PagesInv, UnderwayInv, Next
             PROVE  StoreTypeOK' /\ PagesInv' /\ UnderwayInv'
  BY DEF StoreInv
<1>1. ASSUME NEW p \in Peer, Connect(p) PROVE StoreTypeOK' /\ PagesInv' /\ UnderwayInv'
  <2>1. UNCHANGED <<reqs, answers, ch, timeouts>> /\ sync'.on = sync.on
    BY <1>1 DEF Connect
  <2> QED
    BY <1>1, <2>1, ConnectPages, QuietUnderway
<1>2. ASSUME NEW p \in Peer, Answer(p) PROVE StoreTypeOK' /\ PagesInv' /\ UnderwayInv'
  BY <1>2, AnswerPages, AnswerUnderway
<1>3. ASSUME NEW p \in Peer, DeliverCrossTransactions(p)
      PROVE  StoreTypeOK' /\ PagesInv' /\ UnderwayInv'
  BY <1>3, DeliverPages, DeliverUnderway
<1>4. ASSUME NEW p \in Peer, Grow(p) PROVE StoreTypeOK' /\ PagesInv' /\ UnderwayInv'
  <2>1. UNCHANGED <<reqs, answers, ch, timeouts>> /\ sync'.on = sync.on
    BY <1>4 DEF Grow
  <2> QED
    BY <1>4, <2>1, GrowPages, QuietUnderway
<1>5. ASSUME NEW p \in Peer, Disconnect(p) PROVE StoreTypeOK' /\ PagesInv' /\ UnderwayInv'
  BY <1>5, DisconnectPages, DisconnectUnderway
<1>6. ASSUME NEW d \in due, SynchroniseRefused(d) PROVE StoreTypeOK' /\ PagesInv' /\ UnderwayInv'
  <2>1. UNCHANGED <<reqs, answers, ch, timeouts>> /\ sync'.on = sync.on
    BY <1>6 DEF SynchroniseRefused
  <2> QED
    BY <1>6, <2>1, RefusedPages, QuietUnderway
<1>7. ASSUME NEW d \in due, Synchronise(d) PROVE StoreTypeOK' /\ PagesInv' /\ UnderwayInv'
  BY <1>7, SynchronisePages, SynchroniseUnderway
<1>8. CASE ImportPage
  BY <1>8, ImportPages, ImportUnderway
<1>9. CASE Complete
  BY <1>9, EndPages, CompleteUnderway
<1>10. CASE Timeout
  BY <1>10, EndPages, TimeoutUnderway
<1>11. ASSUME NEW c \in Ctx, StoreOwn(c) PROVE StoreTypeOK' /\ PagesInv' /\ UnderwayInv'
  <2>1. UNCHANGED <<reqs, answers, ch, timeouts>> /\ sync'.on = sync.on
    BY <1>11 DEF StoreOwn
  <2> QED
    BY <1>11, <2>1, StoreOwnPages, QuietUnderway
<1> QED
  BY <1>1, <1>2, <1>3, <1>4, <1>5, <1>6, <1>7, <1>8, <1>9, <1>10, <1>11 DEF Next

\* The variables of CrossSync are left alone by a round with a peer.
LEMMA StoreUnchanged == StoreInv /\ UNCHANGED vars => StoreInv'
<1> SUFFICES ASSUME StoreInv, UNCHANGED vars PROVE StoreInv'
  OBVIOUS
<1>1. UNCHANGED <<known, status, due, local, own, sync, ch, reqs, answers, connects, timeouts,
                  failed>>
  BY DEF vars
<1>2. StoreTypeOK'
  BY <1>1 DEF StoreInv, StoreTypeOK
<1>3. PagesInv'
  <2>1. /\ \A p, r : RequestOK(p, r)' <=> RequestOK(p, r)
        /\ \A a : AnswerOK(a)' <=> AnswerOK(a)
    BY ONLY <1>1, ZenonT(60) DEF RequestOK, AnswerOK, Used, Excused, Tried
  <2> QED
    BY ONLY StoreInv, <1>1, <2>1, ZenonT(60) DEF StoreInv, PagesInv, Used, Excused
<1>4. UnderwayInv'
  BY ONLY StoreInv, <1>1, ZenonT(60) DEF StoreInv, UnderwayInv, Underway
<1> QED
  BY <1>2, <1>3, <1>4 DEF StoreInv

==============================================================================
