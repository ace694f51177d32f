-------------------------- MODULE PendingSyncProofs --------------------------
(***************************************************************************)
(* Proofs about PendingSync, CrossSync with the rounds for the signatures  *)
(* of the pool, for every value of the constants: the paging of the store  *)
(* leaves no hole and skips nothing (NoHoleBelowHeight, EndedHasAll), and  *)
(* a message loop is held up only after two timeouts                       *)
(* (LoopHeldAfterTimeouts).                                                *)
(***************************************************************************)
EXTENDS PendingSync, CrossSyncProofs

\* Zenon is tried before SMT, and both have a minute.
USE ZenonT(60), SMTT(60)

-----------------------------------------------------------------------------
(* The rounds with a peer for the signatures of the pool.                  *)

Asked == [ids : SUBSET Ctx, round : Nat]
Reply == [page : SUBSET Ctx, round : Nat]
Loaded == [page : SUBSET Ctx, round : Nat, to : Nat]

RoundTypeOK ==
  /\ pool \subseteq Ctx /\ left \subseteq Ctx /\ theirs \subseteq Ctx /\ got \subseteq Ctx
  /\ round \in [on : BOOLEAN, want : SUBSET Ctx]
  /\ rounds \in 0..MaxRounds
  /\ chans \in [1..MaxRounds -> Seq(Loaded)]
  /\ asked \in Seq(Asked) /\ replies \in Seq(Reply)
  /\ loop \in Loaded /\ (loop # NoReply => loop.to \in 1..rounds)
  /\ round.on => rounds # 0
  /\ late \in Nat

\* What a page for round n means: of what the round wants and the pool still holds,
\* it leaves out nothing up to its last block but what this anchor has.
PageOK(page, n) ==
  /\ n <= rounds
  /\ round.on /\ n = rounds =>
       \A c \in round.want \cap pool, e \in page : Num[c] <= Num[e] => c \in got \/ c \in page

\* The inductive invariant of the rounds: what leaves the pool never comes back,
\* and requests and answers mean what they should.
RoundPagesInv ==
  /\ pool \cap left = {}
  /\ round.want \subseteq theirs \cap (pool \cup left)
  /\ \A x \in Elems(asked) : PageOK(x.ids, x.round)
  /\ \A x \in Elems(replies) : PageOK(x.page, x.round)
  /\ PageOK(loop.page, loop.round)
  /\ \A n \in 1..MaxRounds : \A x \in Elems(chans[n]) : PageOK(x.page, x.round)

\* The answers that the channel of round n holds or will get.
Destined(n) == Len(chans[n]) + (IF loop # NoReply /\ loop.to = n THEN 1 ELSE 0)

\* What a round may still get.
Awaited == Len(asked) + Len(replies) + (IF loop = NoReply THEN 0 ELSE 1)
             + (IF rounds = 0 THEN 0 ELSE Len(chans[rounds]))

\* A round waits for one answer at a time, and after its end no more answers get
\* into its channel than there have been timeouts.
AwaitedInv ==
  /\ Awaited <= late + (IF round.on THEN 1 ELSE 0)
  /\ \A n \in 1..MaxRounds : n # rounds \/ ~round.on => Destined(n) <= late
  /\ \A n \in rounds+1..MaxRounds : chans[n] = <<>>

RoundInv == RoundTypeOK /\ RoundPagesInv /\ AwaitedInv

SyncInv ==
  /\ StoreInv
  /\ mode \in {"store", "pending"}
  /\ mode = "store" => loop = NoReply
  /\ mode = "pending" => RoundInv

-----------------------------------------------------------------------------
(* The pages of pool.Pending.                                              *)

\* The transaction just before c has one less before it.
LEMMA Predecessor ==
  ASSUME NEW S \in SUBSET Ctx, NEW c \in Ctx, Before(S, c) # {}
  PROVE  \E m \in Before(S, c) : Cardinality(Before(S, m)) = Cardinality(Before(S, c)) - 1
<1>1. Before(S, c) \in SUBSET Nat /\ c \in Nat /\ \A x \in Before(S, c) : x <= c
  <2>1. c \in Nat /\ \A x \in S : x \in Nat
    BY NumFacts
  <2>2. \A x \in Before(S, c) : x \in S /\ x < c
    BY DEF Before
  <2>3. \A x \in Before(S, c) : x \in Nat
    BY <2>1, <2>2
  <2>4. \A x \in Before(S, c) : x <= c
    BY <2>1, <2>2, <2>3, SMTT(60)
  <2> QED
    BY <2>1, <2>3, <2>4
<1>2. PICK m \in Before(S, c) : \A x \in Before(S, c) : x <= m
  BY <1>1, MaxFacts
<1>3. Before(S, m) = Before(S, c) \ {m}
  <2>1. \A x \in S : x \in Nat
    BY NumFacts
  <2>2. m \in Nat /\ m < c /\ m \in S
    BY <1>1, <1>2 DEF Before
  <2>3. ASSUME NEW x \in S
        PROVE  x < m <=> x < c /\ x # m
    <3>1. x < c => x <= m
      BY <1>2 DEF Before
    <3> QED
      BY <1>1, <2>1, <2>2, <3>1, SMTT(60)
  <2> QED
    BY <2>3, <2>2 DEF Before
<1>4. IsFiniteSet(Before(S, c))
  BY BeforeGrows, <1>1, SMTT(60)
<1> QED
  BY <1>3, <1>4, FS_RemoveElement, SMTT(60)

\* So one of those before c has exactly k before it, if there are more than k.
LEMMA RankExists ==
  ASSUME NEW S \in SUBSET Ctx, NEW c \in Ctx, NEW k \in Nat, Cardinality(Before(S, c)) > k
  PROVE  \E d \in Before(S, c) : Cardinality(Before(S, d)) = k
<1>1. \A x \in Ctx : x \in Nat /\ Cardinality(Before(S, x)) \in Nat /\ IsFiniteSet(Before(S, x))
  BY BeforeGrows, NumFacts, SMTT(60)
<1>2. Before(S, c) \subseteq Ctx /\ \A x \in Ctx : \A y \in Before(S, x) : y < x /\ y \in S
  BY DEF Before
<1>3. \A x \in Ctx : Cardinality(Before(S, x)) > k => Before(S, x) # {}
  BY <1>1, FS_EmptySet, SMTT(60)
<1> DEFINE T == {x \in Before(S, c) : Cardinality(Before(S, x)) >= k}
<1>4. T \in SUBSET Nat /\ T # {}
  <2>1. PICK m \in Before(S, c) : Cardinality(Before(S, m)) = Cardinality(Before(S, c)) - 1
    BY <1>3, Predecessor
  <2>2. Cardinality(Before(S, m)) >= k
    BY <1>1, <1>2, <2>1, SMTT(60)
  <2> QED
    BY <1>1, <1>2, <2>2
<1>5. PICK d \in T : \A x \in T : d <= x
  BY <1>4, LeastNat
<1>6. d \in Before(S, c) /\ d \in Ctx /\ Cardinality(Before(S, d)) >= k
  BY <1>2, <1>5
<1>7. ASSUME Cardinality(Before(S, d)) > k
      PROVE  FALSE
  <2>1. PICK m \in Before(S, d) : Cardinality(Before(S, m)) = Cardinality(Before(S, d)) - 1
    BY <1>3, <1>6, <1>7, Predecessor
  <2>2. m < d /\ m \in S /\ m \in Ctx /\ m < c
    BY <1>1, <1>2, <1>6, <2>1, SMTT(60)
  <2>3. Cardinality(Before(S, m)) >= k
    BY <1>1, <1>6, <1>7, <2>1, SMTT(60)
  <2>4. m \in T
    BY <2>2, <2>3 DEF Before
  <2> QED
    BY <1>1, <1>5, <1>6, <2>2, <2>4, SMTT(60)
<1> QED
  BY <1>1, <1>6, <1>7, SMTT(60)

\* There are more before a later one of the same set.
LEMMA BeforeStrict ==
  ASSUME NEW S \in SUBSET Ctx, NEW c \in S, NEW e \in Ctx, c < e
  PROVE  Cardinality(Before(S, c)) < Cardinality(Before(S, e))
<1>1. c \in Nat /\ e \in Nat /\ c \in Ctx
  BY NumFacts
<1>2. /\ IsFiniteSet(Before(S, c)) /\ IsFiniteSet(Before(S, e))
      /\ Cardinality(Before(S, c)) \in Nat /\ Cardinality(Before(S, e)) \in Nat
      /\ Cardinality(Before(S, c)) <= Cardinality(Before(S, e))
  BY <1>1, BeforeGrows, SMTT(60)
<1>3. c \in Before(S, e) /\ c \notin Before(S, c)
  BY <1>1, SMTT(60) DEF Before
<1>4. Before(S, c) \in SUBSET Before(S, e)
  <2>1. \A x \in S : x < c => x < e
    BY <1>1, NumFacts, SMTT(60)
  <2> QED
    BY <2>1 DEF Before
<1>5. Cardinality(Before(S, e)) # Cardinality(Before(S, c))
  BY <1>2, <1>3, <1>4, FS_Subset
<1> QED
  BY <1>2, <1>5, SMTT(60)

\* A page of pool.Pending holds everything in the pool above the block given up to
\* its last block, and is empty only if the pool holds nothing above.
LEMMA PendingFacts ==
  ASSUME NEW ctxs \in SUBSET Ctx, NEW number \in Nat
  PROVE  /\ Pending(ctxs, number) \subseteq ctxs
         /\ \A e \in Pending(ctxs, number), c \in ctxs :
              Num[c] > number /\ Num[c] <= Num[e] => c \in Pending(ctxs, number)
         /\ Pending(ctxs, number) = {} => \A c \in ctxs : Num[c] <= number
<1> DEFINE above == {c \in ctxs : Num[c] > number}
           card(c) == Cardinality(Before(above, c))
<1>1. Pending(ctxs, number) =
        {c \in above : \/ card(c) < Limit
                       \/ \E d \in Before(above, c) : Num[d] = Num[c] /\ card(d) = Limit - 1}
  BY DEF Pending, Before
<1>2. above \in SUBSET Ctx /\ Limit \in Nat \ {0} /\ Limit - 1 \in Nat
  BY SizeAssumption, SMTT(60)
<1>3. \A x \in Ctx : x \in Nat /\ Num[x] \in Nat /\ card(x) \in Nat
  BY <1>2, BeforeGrows, NumFacts, SMTT(60)
<1>4. \A x, y \in Ctx : x <= y => card(x) <= card(y) /\ Num[x] <= Num[y]
  <2>1. \A x, y \in Ctx : x <= y => card(x) <= card(y)
    BY <1>2, BeforeGrows
  <2>2. \A x, y \in Ctx : x <= y => Num[x] <= Num[y]
    BY NumAscends
  <2> QED
    BY <2>1, <2>2
<1>5. \A x \in Ctx, y \in above : y < x => y \in Before(above, x)
  BY DEF Before
<1>6. \A x \in Ctx : Before(above, x) \subseteq above /\ \A y \in Before(above, x) : y < x
  BY DEF Before
<1>7. \A x \in Ctx : card(x) > Limit - 1 => \E d \in Before(above, x) : card(d) = Limit - 1
  BY <1>2, RankExists
<1>8. \A c \in ctxs : Num[c] <= number \/ c \in above
  <2>1. \A c \in ctxs : Num[c] \in Nat
    BY <1>3
  <2>2. \A c \in ctxs : Num[c] <= number \/ Num[c] > number
    BY <2>1, SMTT(60)
  <2> QED
    BY <2>2
<1> HIDE DEF card, above
<1>9. ASSUME NEW e \in Pending(ctxs, number), NEW c \in above, Num[c] <= Num[e]
      PROVE  c \in Pending(ctxs, number)
  <2>1. e \in above /\ e \in Ctx /\ c \in Ctx
    BY <1>1, <1>2
  <2>2. CASE card(c) < Limit
    BY <1>1, <2>2
  <2>3. CASE card(c) >= Limit
    <3>1. PICK d \in Before(above, c) : card(d) = Limit - 1
      BY <1>2, <1>3, <1>7, <2>1, <2>3, SMTT(60)
    <3>2. d \in above /\ d \in Ctx /\ d < c
      BY <1>2, <1>6, <2>1, <3>1
    <3>3. Num[d] <= Num[c]
      BY <1>3, <1>4, <2>1, <3>2, SMTT(60)
    <3>4. CASE e <= d
      <4>1. Num[e] <= Num[d]
        BY <1>4, <2>1, <3>2, <3>4
      <4> QED
        BY <1>1, <1>3, <1>9, <2>1, <3>1, <3>2, <3>3, <4>1, SMTT(60)
    <3>5. CASE d < e
      <4>1. d \in Before(above, e)
        BY <1>5, <2>1, <3>2, <3>5
      <4>2. CASE card(e) < Limit
        <5>1. card(e) = Limit - 1 \/ card(e) < Limit - 1
          BY <1>2, <1>3, <2>1, <4>2, SMTT(60)
        <5>2. card(d) < card(e)
          BY <1>2, <1>3, <2>1, <3>2, <3>5, <4>1, BeforeStrict DEF card
        <5> QED
          BY <1>2, <1>3, <2>1, <3>1, <3>2, <5>1, <5>2, SMTT(60)
      <4>3. CASE \E f \in Before(above, e) : Num[f] = Num[e] /\ card(f) = Limit - 1
        <5>1. PICK f \in Before(above, e) : Num[f] = Num[e] /\ card(f) = Limit - 1
          BY <4>3
        <5>2. f \in above /\ f \in Ctx
          BY <1>2, <1>6, <2>1, <5>1
        <5>3. f = d
          <6>1. f < d => card(f) < card(d)
            BY <1>2, <3>2, <5>2, BeforeStrict DEF card
          <6>2. d < f => card(d) < card(f)
            BY <1>2, <3>2, <5>2, BeforeStrict DEF card
          <6> QED
            BY <1>2, <1>3, <3>1, <3>2, <5>1, <5>2, <6>1, <6>2, SMTT(60)
        <5> QED
          BY <1>1, <1>3, <1>9, <2>1, <3>1, <3>2, <3>3, <5>1, <5>3, SMTT(60)
      <4> QED
        BY <1>1, <4>2, <4>3
    <3> QED
      BY <1>3, <2>1, <3>2, <3>4, <3>5, SMTT(60)
  <2> QED
    BY <1>2, <1>3, <2>1, <2>2, <2>3, SMTT(60)
<1>10. ASSUME above # {} PROVE Pending(ctxs, number) # {}
  <2>1. above \in SUBSET Nat
    BY <1>2, <1>3
  <2>2. PICK m \in above : \A d \in above : m <= d
    BY <1>10, <2>1, LeastNat
  <2>3. Before(above, m) = {}
    <3>1. \A d \in above : ~(d < m)
      BY <2>1, <2>2, SMTT(60)
    <3> QED
      BY <3>1 DEF Before
  <2>4. card(m) < Limit
    BY <1>2, <2>3, FS_EmptySet, SMTT(60) DEF card
  <2> QED
    BY <1>1, <2>2, <2>4
<1>11. above \subseteq ctxs /\ \A c \in ctxs : Num[c] > number => c \in above
  BY DEF above
<1> QED
  BY <1>1, <1>8, <1>9, <1>10, <1>11

-----------------------------------------------------------------------------
(* Steps of a round with a peer.                                           *)

\* What a step may do to the state that pages are about.
RoundStepOK ==
  /\ RoundTypeOK'
  /\ got \subseteq got' /\ rounds <= rounds'
  /\ round'.on /\ rounds' = rounds =>
       /\ round.on /\ round'.want \subseteq round.want
       /\ round'.want \cap pool' \subseteq pool

\* Pages keep their meaning.
LEMMA PageKept ==
  ASSUME RoundTypeOK, RoundStepOK, NEW page \in SUBSET Ctx, NEW n \in Nat, PageOK(page, n)
  PROVE  PageOK(page, n)'
<1>1. rounds \in Nat /\ rounds' \in Nat /\ n <= rounds /\ rounds <= rounds'
  BY RoundAssumption, SMTT(60) DEF RoundTypeOK, RoundStepOK, PageOK
<1>2. n <= rounds' /\ (n = rounds' => rounds' = rounds)
  BY <1>1, SMTT(60)
<1>3. ASSUME round'.on, n = rounds', NEW c \in round'.want \cap pool', NEW e \in page,
             Num[c] <= Num[e]
      PROVE  c \in got' \/ c \in page
  <2>1. round.on /\ n = rounds /\ c \in round.want \cap pool
    BY <1>2, <1>3 DEF RoundStepOK
  <2>2. c \in got \/ c \in page
    BY <1>3, <2>1 DEF PageOK
  <2> QED
    BY <2>2 DEF RoundStepOK
<1> QED
  BY <1>2, <1>3 DEF PageOK

\* So a step keeps the invariant if the pages that it adds mean what they should.
LEMMA RoundPagesKept ==
  ASSUME RoundTypeOK, RoundPagesInv, RoundStepOK,
         pool' \cap left' = {},
         round'.want \subseteq theirs' \cap (pool' \cup left'),
         \A x \in Elems(asked') : x \in Elems(asked) \/ PageOK(x.ids, x.round)',
         \A x \in Elems(replies') : \/ x \in Elems(replies) \/ PageOK(x.page, x.round)',
         loop' \in {loop, NoReply} \/ PageOK(loop'.page, loop'.round),
         \A n \in 1..MaxRounds : \A x \in Elems(chans'[n]) :
            x \in Elems(chans[n]) \/ (x \in Loaded /\ PageOK(x.page, x.round))
  PROVE  RoundPagesInv'
<1>1. ASSUME NEW x \in Elems(asked') PROVE PageOK(x.ids, x.round)'
  <2>1. x \in Elems(asked) => x \in Asked /\ PageOK(x.ids, x.round)
    BY SMTT(60) DEF RoundPagesInv, RoundTypeOK, Elems
  <2> QED
    BY <2>1, PageKept DEF Asked
<1>2. ASSUME NEW x \in Elems(replies') PROVE PageOK(x.page, x.round)'
  <2>1. x \in Elems(replies) => x \in Reply /\ PageOK(x.page, x.round)
    BY SMTT(60) DEF RoundPagesInv, RoundTypeOK, Elems
  <2> QED
    BY <2>1, PageKept DEF Reply
<1>3. PageOK(loop.page, loop.round)'
  <2>1. PICK x \in Loaded : x = loop'
    BY DEF RoundStepOK, RoundTypeOK
  <2>2. PageOK(x.page, x.round)
    <3>1. CASE loop' = loop
      BY <2>1, <3>1 DEF RoundPagesInv
    <3>2. CASE loop' = NoReply
      <4>1. x.page = {} /\ x.round = 0
        BY <2>1, <3>2 DEF NoReply
      <4>2. rounds \in Nat
        BY SMTT(60) DEF RoundTypeOK
      <4> QED
        BY <4>1, <4>2, SMTT(60) DEF PageOK
    <3> QED
      BY <2>1, <3>1, <3>2
  <2>3. PageOK(x.page, x.round)'
    BY <2>2, PageKept DEF Loaded
  <2> QED
    BY <2>1, <2>3 DEF PageOK
<1>4. ASSUME NEW n \in 1..MaxRounds, NEW x \in Elems(chans'[n]) PROVE PageOK(x.page, x.round)'
  <2>1. x \in Elems(chans[n]) => x \in Loaded /\ PageOK(x.page, x.round)
    <3>1. chans[n] \in Seq(Loaded)
      BY DEF RoundTypeOK
    <3>2. x \in Elems(chans[n]) => x \in Loaded
      BY <3>1, SMTT(60) DEF Elems
    <3> QED
      BY <3>2 DEF RoundPagesInv
  <2>2. x \in Loaded /\ PageOK(x.page, x.round)
    BY <2>1
  <2> QED
    BY <2>2, PageKept DEF Loaded
<1> QED
  BY <1>1, <1>2, <1>3, <1>4 DEF RoundPagesInv

\* syncPendingWithPeer begins: it asks for the first page of the pool.
LEMMA BeginRound ==
  ASSUME RoundTypeOK, RoundPagesInv, AwaitedInv, SynchronisePending
  PROVE  RoundTypeOK' /\ RoundPagesInv' /\ AwaitedInv'
<1>1. /\ UNCHANGED <<poolVars, chans, replies, loop, late>>
      /\ ~round.on /\ rounds < MaxRounds /\ rounds' = rounds + 1
      /\ round' = [on |-> TRUE, want |-> pool \cap theirs]
  BY DEF SynchronisePending, CanStartRound
<1>2. UNCHANGED <<pool, left, theirs, got>>
  BY <1>1 DEF poolVars
<1>3. PICK x \in Asked : /\ x.ids = Pending(pool, 0) /\ x.round = rounds'
                         /\ asked' = Append(asked, x)
  <2>1. Pending(pool, 0) \subseteq Ctx /\ rounds' \in Nat
    BY <1>1, PendingFacts, SMTT(60) DEF RoundTypeOK
  <2> QED
    BY <2>1 DEF SynchronisePending, RequestPending, Asked
<1>4. /\ asked' \in Seq(Asked) /\ Elems(asked') = Elems(asked) \cup {x}
      /\ Len(asked') = Len(asked) + 1 /\ Len(asked) \in Nat
  BY <1>3, ElemsAppend, SMTT(60) DEF RoundTypeOK
<1>5. rounds \in Nat /\ MaxRounds \in Nat /\ rounds' \in 1..MaxRounds
  BY <1>1, RoundAssumption, SMTT(60) DEF RoundTypeOK
<1>6. RoundTypeOK'
  <2>1. round' \in [on : BOOLEAN, want : SUBSET Ctx]
    BY <1>1 DEF RoundTypeOK
  <2>2. loop # NoReply => loop.to \in 1..rounds'
    BY <1>1, <1>5, SMTT(60) DEF RoundTypeOK
  <2> QED
    BY <1>1, <1>2, <1>4, <1>5, <2>1, <2>2, SMTT(60) DEF RoundTypeOK
<1>7. RoundStepOK
  BY <1>1, <1>2, <1>5, <1>6, SMTT(60) DEF RoundStepOK
<1>8. PageOK(x.ids, x.round)'
  <2>1. ASSUME NEW c \in pool, NEW e \in x.ids, Num[c] <= Num[e] PROVE c \in x.ids
    <3>1. Num[c] > 0
      BY NumFacts, SMTT(60) DEF RoundTypeOK
    <3> QED
      BY <1>3, <2>1, <3>1, PendingFacts, SMTT(60) DEF RoundTypeOK
  <2>2. x.round <= rounds'
    BY <1>3, <1>5, SMTT(60)
  <2> QED
    BY <1>2, <2>1, <2>2 DEF PageOK
<1>9. RoundPagesInv'
  BY <1>1, <1>2, <1>4, <1>6, <1>7, <1>8, RoundPagesKept DEF RoundPagesInv
<1>10. AwaitedInv'
  <2>1. chans[rounds'] = <<>>
    BY <1>1, <1>5, SMTT(60) DEF AwaitedInv
  <2>2. Len(replies) \in Nat /\ late \in Nat /\ (rounds # 0 => Len(chans[rounds]) \in Nat)
    BY <1>5, SMTT(60) DEF RoundTypeOK
  <2>3. Awaited <= late
    BY <1>1, <2>2, SMTT(60) DEF AwaitedInv
  <2>4. Awaited' <= late' + 1
    <3> DEFINE l == IF loop = NoReply THEN 0 ELSE 1
               k == IF rounds = 0 THEN 0 ELSE Len(chans[rounds])
    <3>1. l \in Nat /\ k \in Nat
      BY <2>2
    <3>2. Awaited = Len(asked) + Len(replies) + l + k
      BY DEF Awaited
    <3>3. rounds' # 0 /\ Len(chans'[rounds']) = 0
      BY <1>1, <1>5, <2>1, SMTT(60)
    <3>4. Awaited' = Len(asked') + Len(replies) + l + 0
      BY <1>1, <3>3 DEF Awaited
    <3> HIDE DEF l, k
    <3> QED
      BY <1>1, <1>4, <2>2, <2>3, <3>1, <3>2, <3>4, SMTT(60)
  <2>5. \A n \in 1..MaxRounds : n # rounds' => Destined(n)' <= late'
    BY <1>1 DEF AwaitedInv, Destined
  <2>6. \A n \in rounds'+1..MaxRounds : chans'[n] = <<>>
    BY <1>1, <1>5, SMTT(60) DEF AwaitedInv
  <2> QED
    BY <1>1, <2>4, <2>5, <2>6 DEF AwaitedInv
<1> QED
  BY <1>6, <1>9, <1>10

\* The channel of the round, and the message loop, in numbers.
InChannelNow == IF rounds = 0 THEN 0 ELSE Len(chans[rounds])
InLoop == IF loop = NoReply THEN 0 ELSE 1

\* What the requests and answers of a round add up to.
LEMMA AwaitedFacts ==
  ASSUME RoundTypeOK
  PROVE  /\ Awaited = Len(asked) + Len(replies) + InLoop + InChannelNow
         /\ Len(asked) \in Nat /\ Len(replies) \in Nat /\ InLoop \in Nat /\ InChannelNow \in Nat
         /\ late \in Nat /\ rounds \in Nat /\ MaxRounds \in Nat /\ rounds <= MaxRounds
         /\ \A n \in 1..MaxRounds : chans[n] \in Seq(Loaded) /\ Len(chans[n]) \in Nat
<1>1. rounds \in Nat /\ MaxRounds \in Nat /\ rounds <= MaxRounds /\ late \in Nat
  BY RoundAssumption, SMTT(60) DEF RoundTypeOK
<1>2. \A n \in 1..MaxRounds : chans[n] \in Seq(Loaded) /\ Len(chans[n]) \in Nat
  BY SMTT(60) DEF RoundTypeOK
<1>3. InChannelNow \in Nat
  <2>1. rounds # 0 => rounds \in 1..MaxRounds
    BY <1>1, SMTT(60)
  <2> QED
    BY <1>2, <2>1 DEF InChannelNow
<1>4. Len(asked) \in Nat /\ Len(replies) \in Nat /\ InLoop \in Nat
  BY SMTT(60) DEF RoundTypeOK, InLoop
<1> QED
  BY <1>1, <1>2, <1>3, <1>4 DEF Awaited, InLoop, InChannelNow

\* The peer answers with its signatures of what is asked for.
LEMMA GetPendingRound ==
  ASSUME RoundTypeOK, RoundPagesInv, AwaitedInv, GetPending
  PROVE  RoundTypeOK' /\ RoundPagesInv' /\ AwaitedInv'
<1>1. /\ UNCHANGED <<mode, pool, left, theirs, got, round, rounds, chans, loop, late>>
      /\ asked # <<>> /\ asked' = Tail(asked)
  BY DEF GetPending, poolVars
<1>2. /\ asked' \in Seq(Asked) /\ Elems(asked') \subseteq Elems(asked)
      /\ Head(asked) \in Asked /\ Head(asked) \in Elems(asked)
      /\ Len(asked') = Len(asked) - 1 /\ Len(asked) \in Nat \ {0}
  BY <1>1, ElemsTail DEF RoundTypeOK
<1>3. PICK x \in Reply : /\ x.page = Head(asked).ids \cap theirs /\ x.round = Head(asked).round
                         /\ replies' = Append(replies, x)
  BY <1>2 DEF GetPending, GetLocal, Asked, Reply
<1>4. /\ replies' \in Seq(Reply) /\ Elems(replies') = Elems(replies) \cup {x}
      /\ Len(replies') = Len(replies) + 1
  BY <1>3, ElemsAppend, SMTT(60) DEF RoundTypeOK
<1>5. RoundTypeOK'
  BY <1>1, <1>2, <1>4 DEF RoundTypeOK
<1>6. RoundStepOK
  BY <1>1, <1>5, SMTT(60) DEF RoundStepOK, RoundTypeOK
<1>7. PageOK(x.page, x.round)
  <2>1. PageOK(Head(asked).ids, Head(asked).round)
    BY <1>2 DEF RoundPagesInv
  <2> QED
    BY <1>3, <2>1 DEF PageOK, RoundPagesInv
<1>8. PageOK(x.page, x.round)'
  BY <1>6, <1>7, PageKept DEF Reply
<1>9. RoundPagesInv'
  BY <1>1, <1>2, <1>4, <1>6, <1>8, RoundPagesKept DEF RoundPagesInv
<1>10. AwaitedInv'
  <2>1. InLoop' = InLoop /\ InChannelNow' = InChannelNow
    BY <1>1 DEF InLoop, InChannelNow
  <2>2. Awaited' = Len(asked') + Len(replies') + InLoop' + InChannelNow'
    BY DEF Awaited, InLoop, InChannelNow
  <2>3. Awaited' = Awaited
    BY <1>2, <1>4, <2>1, <2>2, AwaitedFacts, SMTT(60)
  <2> QED
    BY <1>1, <2>3 DEF AwaitedInv, Destined
<1> QED
  BY <1>5, <1>9, <1>10

\* DeliverPending looks the channel up.
LEMMA LoadChannelRound ==
  ASSUME RoundTypeOK, RoundPagesInv, AwaitedInv, LoadChannel
  PROVE  RoundTypeOK' /\ RoundPagesInv' /\ AwaitedInv'
<1>1. /\ UNCHANGED <<mode, pool, left, theirs, got, round, rounds, chans, asked, late>>
      /\ loop = NoReply /\ replies # <<>> /\ replies' = Tail(replies)
  BY DEF LoadChannel, poolVars
<1>2. /\ replies' \in Seq(Reply) /\ Elems(replies') \subseteq Elems(replies)
      /\ Head(replies) \in Reply /\ Head(replies) \in Elems(replies)
      /\ Len(replies') = Len(replies) - 1 /\ Len(replies) \in Nat \ {0}
  BY <1>1, ElemsTail DEF RoundTypeOK
<1>3. \/ loop' = NoReply
      \/ /\ round.on /\ loop' \in Loaded
         /\ loop'.page = Head(replies).page /\ loop'.round = Head(replies).round
         /\ loop'.to = rounds
  BY <1>2, AwaitedFacts DEF LoadChannel, Reply, Loaded
<1>4. rounds \in Nat /\ (round.on => rounds # 0)
  BY AwaitedFacts DEF RoundTypeOK
<1>5. RoundTypeOK'
  <2>1. loop' \in Loaded /\ (loop' # NoReply => loop'.to \in 1..rounds)
    BY <1>1, <1>3, <1>4, SMTT(60) DEF RoundTypeOK
  <2> QED
    BY <1>1, <1>2, <2>1 DEF RoundTypeOK
<1>6. RoundStepOK
  BY <1>1, <1>5, SMTT(60) DEF RoundStepOK, RoundTypeOK
<1>7. loop' = NoReply \/ PageOK(loop'.page, loop'.round)
  BY <1>2, <1>3 DEF RoundPagesInv
<1>8. RoundPagesInv'
  BY <1>1, <1>2, <1>6, <1>7, RoundPagesKept DEF RoundPagesInv
<1>9. AwaitedInv'
  <2>1. InLoop = 0 /\ InLoop' \in {0, 1} /\ InChannelNow' = InChannelNow
    BY <1>1 DEF InLoop, InChannelNow
  <2>2. Awaited' = Len(asked') + Len(replies') + InLoop' + InChannelNow'
    BY DEF Awaited, InLoop, InChannelNow
  <2>3. Awaited' <= Awaited /\ Awaited' \in Nat /\ Awaited \in Nat
    <3>1. /\ Awaited = Len(asked) + Len(replies) + InLoop + InChannelNow
          /\ Len(asked) \in Nat /\ InChannelNow \in Nat
      BY AwaitedFacts
    <3> QED
      BY ONLY <1>1, <1>2, <2>1, <2>2, <3>1, SMTT(60)
  <2>4. ASSUME NEW n \in 1..MaxRounds, n # rounds \/ ~round.on PROVE Destined(n)' <= late'
    <3>1. ~(loop' # NoReply /\ loop'.to = n)
      BY <1>3, <2>4
    <3>2. Len(chans[n]) \in Nat
      BY AwaitedFacts
    <3>3. Destined(n)' = Len(chans[n]) + 0
      BY <1>1, <3>1 DEF Destined
    <3>4. Destined(n) = Len(chans[n]) + 0
      BY <1>1 DEF Destined
    <3> QED
      BY <1>1, <2>4, <3>3, <3>4 DEF AwaitedInv
  <2>5. Awaited' <= late' + (IF round'.on THEN 1 ELSE 0)
    <3>1. late \in Nat /\ Awaited <= late + (IF round.on THEN 1 ELSE 0)
      BY AwaitedFacts DEF AwaitedInv
    <3> QED
      BY ONLY <1>1, <2>3, <3>1, SMTT(60)
  <2> QED
    BY <1>1, <2>4, <2>5 DEF AwaitedInv
<1> QED
  BY <1>5, <1>8, <1>9

\* The answer goes into the channel that was looked up.
LEMMA DeliverPendingRound ==
  ASSUME RoundTypeOK, RoundPagesInv, AwaitedInv, DeliverPending
  PROVE  RoundTypeOK' /\ RoundPagesInv' /\ AwaitedInv'
<1>1. /\ UNCHANGED <<mode, pool, left, theirs, got, round, rounds, asked, replies, late>>
      /\ loop # NoReply /\ loop' = NoReply
      /\ chans' = [chans EXCEPT ![loop.to] = Append(@, loop)]
  BY DEF DeliverPending, poolVars
<1>2. PICK t \in 1..MaxRounds : t = loop.to /\ t <= rounds
  <2>1. loop.to \in 1..rounds
    BY <1>1 DEF RoundTypeOK
  <2>2. rounds \in Nat /\ MaxRounds \in Nat /\ rounds <= MaxRounds
    BY AwaitedFacts
  <2> QED
    BY ONLY <2>1, <2>2, SMTT(60)
<1>3. chans[t] \in Seq(Loaded) /\ loop \in Loaded
  BY AwaitedFacts DEF RoundTypeOK
<1>4. /\ Append(chans[t], loop) \in Seq(Loaded)
      /\ Elems(Append(chans[t], loop)) = Elems(chans[t]) \cup {loop}
      /\ Len(Append(chans[t], loop)) = Len(chans[t]) + 1 /\ Len(chans[t]) \in Nat
  BY <1>3, ElemsAppend, SMTT(60)
<1>5. /\ chans' \in [1..MaxRounds -> Seq(Loaded)]
      /\ chans'[t] = Append(chans[t], loop)
      /\ \A n \in 1..MaxRounds : n # t => chans'[n] = chans[n]
  BY <1>1, <1>2, <1>4 DEF RoundTypeOK
<1>6. RoundTypeOK'
  <2>1. NoReply \in Loaded
    BY DEF NoReply, Loaded
  <2> QED
    BY <1>1, <1>5, <2>1 DEF RoundTypeOK
<1>7. RoundStepOK
  BY <1>1, <1>6, SMTT(60) DEF RoundStepOK, RoundTypeOK
<1>8. \A n \in 1..MaxRounds : \A x \in Elems(chans'[n]) :
        x \in Elems(chans[n]) \/ (x \in Loaded /\ PageOK(x.page, x.round))
  <2>1. PageOK(loop.page, loop.round)
    BY DEF RoundPagesInv
  <2>2. \A x \in Elems(chans'[t]) : x \in Elems(chans[t]) \/ x = loop
    BY <1>4, <1>5
  <2>3. \A n \in 1..MaxRounds : \A x \in Elems(chans'[n]) : x \in Elems(chans[n]) \/ x = loop
    BY <1>5, <2>2
  <2> QED
    BY <1>3, <2>1, <2>3
<1>9. RoundPagesInv'
  BY <1>1, <1>7, <1>8, RoundPagesKept DEF RoundPagesInv
<1>10. AwaitedInv'
  <2>1. InLoop = 1 /\ InLoop' = 0
    BY <1>1 DEF InLoop
  <2>2. InChannelNow' <= InChannelNow + 1 /\ InChannelNow' \in Nat
    <3>1. rounds # 0 /\ rounds \in 1..MaxRounds
      <4>1. rounds \in Nat /\ MaxRounds \in Nat /\ rounds <= MaxRounds
        BY AwaitedFacts
      <4> QED
        BY ONLY <1>2, <4>1, t \in 1..MaxRounds, SMTT(60)
    <3>2. InChannelNow = Len(chans[rounds]) /\ InChannelNow' = Len(chans'[rounds])
      BY <1>1, <3>1 DEF InChannelNow
    <3>3. CASE rounds = t
      BY <1>4, <1>5, <3>2, <3>3, SMTT(60)
    <3>4. CASE rounds # t
      BY <1>5, <3>1, <3>2, <3>4, AwaitedFacts, SMTT(60)
    <3> QED
      BY <3>3, <3>4
  <2>3. Awaited' = Len(asked') + Len(replies') + InLoop' + InChannelNow'
    BY DEF Awaited, InLoop, InChannelNow
  <2>4. Awaited' <= Awaited /\ Awaited' \in Nat /\ Awaited \in Nat
    <3>1. /\ Awaited = Len(asked) + Len(replies) + InLoop + InChannelNow
          /\ Len(asked) \in Nat /\ Len(replies) \in Nat /\ InChannelNow \in Nat
      BY AwaitedFacts
    <3>2. Len(asked') = Len(asked) /\ Len(replies') = Len(replies)
      BY ONLY <1>1, ZenonT(60)
    <3> QED
      BY ONLY <2>1, <2>2, <2>3, <3>1, <3>2, SMTT(60)
  <2>5. \A n \in 1..MaxRounds : Destined(n)' = Destined(n)
    <3>1. Destined(t)' = Destined(t)
      BY <1>1, <1>2, <1>4, <1>5, SMTT(60) DEF Destined
    <3>2. \A n \in 1..MaxRounds : n # t => Destined(n)' = Destined(n)
      BY <1>1, <1>2, <1>5 DEF Destined
    <3> QED
      BY <3>1, <3>2
  <2>6. Awaited' <= late' + (IF round'.on THEN 1 ELSE 0)
    <3>1. late \in Nat /\ Awaited <= late + (IF round.on THEN 1 ELSE 0)
      BY AwaitedFacts DEF AwaitedInv
    <3> QED
      BY ONLY <1>1, <2>4, <3>1, SMTT(60)
  <2>7. \A n \in rounds+1..MaxRounds : chans'[n] = <<>>
    <3>1. \A n \in rounds+1..MaxRounds : n \in 1..MaxRounds /\ n # t
      BY <1>2, AwaitedFacts, SMTT(60)
    <3> QED
      BY <1>5, <3>1 DEF AwaitedInv
  <2> QED
    BY <1>1, <2>5, <2>6, <2>7 DEF AwaitedInv
<1> QED
  BY <1>6, <1>9, <1>10

\* What is in the channel of the round, or will be, is part of what is awaited.
LEMMA DestinedNow ==
  ASSUME RoundTypeOK, rounds # 0
  PROVE  Destined(rounds) <= Awaited
<1>1. rounds \in 1..MaxRounds
  BY AwaitedFacts, SMTT(60)
<1>2. Len(chans[rounds]) \in Nat /\ InChannelNow = Len(chans[rounds])
  BY <1>1, AwaitedFacts DEF InChannelNow
<1>3. Destined(rounds) <= Len(chans[rounds]) + InLoop
  BY <1>2, SMTT(60) DEF Destined, InLoop
<1>4. Destined(rounds) \in Nat
  <2>1. Destined(rounds) = Len(chans[rounds]) + 0 \/ Destined(rounds) = Len(chans[rounds]) + 1
    BY DEF Destined
  <2> QED
    BY <1>2, <2>1, SMTT(60)
<1>5. /\ Awaited = Len(asked) + Len(replies) + InLoop + InChannelNow
      /\ Len(asked) \in Nat /\ Len(replies) \in Nat /\ InLoop \in Nat
  BY AwaitedFacts
<1> QED
  <2>1. Awaited = Len(asked) + Len(replies) + InLoop + Len(chans[rounds])
    BY ONLY <1>2, <1>5, ZenonT(60)
  <2>2. PICK a \in Nat, r \in Nat, i \in Nat, l \in Nat, d \in Nat :
          /\ a = Len(asked) /\ r = Len(replies) /\ i = InLoop /\ l = Len(chans[rounds])
          /\ d = Destined(rounds)
    BY ONLY <1>2, <1>4, <1>5, ZenonT(60)
  <2>3. d <= l + i => d <= a + r + i + l
    BY SMTT(60)
  <2> QED
    BY ONLY <1>3, <2>1, <2>2, <2>3, ZenonT(60)

\* The round takes from its channel.
LEMMA TakeFromChannel ==
  ASSUME RoundTypeOK, AwaitedInv, round.on, chans[rounds] # <<>>,
         chans' = [chans EXCEPT ![rounds] = Tail(@)]
  PROVE  /\ rounds \in 1..MaxRounds
         /\ Head(chans[rounds]) \in Loaded /\ Head(chans[rounds]) \in Elems(chans[rounds])
         /\ chans' \in [1..MaxRounds -> Seq(Loaded)]
         /\ Len(chans'[rounds]) = Len(chans[rounds]) - 1
         /\ Len(chans[rounds]) \in Nat \ {0}
         /\ \A n \in 1..MaxRounds : Elems(chans'[n]) \subseteq Elems(chans[n])
         /\ \A n \in 1..MaxRounds : n # rounds => chans'[n] = chans[n]
         /\ \A n \in rounds+1..MaxRounds : chans'[n] = <<>>
<1>1. rounds \in 1..MaxRounds /\ rounds \in Nat /\ MaxRounds \in Nat
  BY AwaitedFacts, SMTT(60) DEF RoundTypeOK
<1>2. chans[rounds] \in Seq(Loaded)
  BY <1>1 DEF RoundTypeOK
<1>3. /\ Tail(chans[rounds]) \in Seq(Loaded)
      /\ Elems(Tail(chans[rounds])) \subseteq Elems(chans[rounds])
      /\ Head(chans[rounds]) \in Loaded /\ Head(chans[rounds]) \in Elems(chans[rounds])
      /\ Len(Tail(chans[rounds])) = Len(chans[rounds]) - 1
      /\ Len(chans[rounds]) \in Nat \ {0}
  BY <1>2, ElemsTail
<1>4. /\ chans' \in [1..MaxRounds -> Seq(Loaded)]
      /\ chans'[rounds] = Tail(chans[rounds])
      /\ \A n \in 1..MaxRounds : n # rounds => chans'[n] = chans[n]
  BY <1>1, <1>3 DEF RoundTypeOK
<1>5. \A n \in 1..MaxRounds : Elems(chans'[n]) \subseteq Elems(chans[n])
  BY <1>3, <1>4
<1>6. \A n \in rounds+1..MaxRounds : n \in 1..MaxRounds /\ n # rounds
  BY <1>1, SMTT(60)
<1>7. \A n \in rounds+1..MaxRounds : chans'[n] = <<>>
  BY <1>4, <1>6 DEF AwaitedInv
<1> QED
  BY <1>1, <1>3, <1>4, <1>5, <1>7

\* One less in the channel, and perhaps one more on its way.
LEMMA OneTaken ==
  ASSUME NEW a \in Nat, NEW b \in Nat, NEW r \in Nat, NEW i \in Nat, NEW k \in Nat \ {0},
         NEW l \in Nat, a + r + i + k <= l + 1
  PROVE  /\ b + r + i + (k - 1) \in Nat
         /\ b = a + 1 => b + r + i + (k - 1) <= l + 1
         /\ b = a + 0 => b + r + i + (k - 1) <= l
         /\ (k - 1) + i <= b + r + i + (k - 1)
BY SMTT(60)

\* What is awaited when the round takes an answer and asks again, or ends.
LEMMA TakenAwaited ==
  ASSUME RoundTypeOK, AwaitedInv, round.on, chans[rounds] # <<>>,
         chans' = [chans EXCEPT ![rounds] = Tail(@)],
         UNCHANGED <<rounds, replies, loop, late>>, RoundTypeOK',
         Len(asked') = Len(asked) + (IF round'.on THEN 1 ELSE 0)
  PROVE  AwaitedInv'
<1>1. /\ rounds \in 1..MaxRounds /\ rounds # 0
      /\ Len(chans'[rounds]) = Len(chans[rounds]) - 1 /\ Len(chans[rounds]) \in Nat \ {0}
      /\ \A n \in 1..MaxRounds : n # rounds => chans'[n] = chans[n]
      /\ \A n \in rounds+1..MaxRounds : chans'[n] = <<>>
  BY TakeFromChannel, SMTT(60)
<1>2. InChannelNow = Len(chans[rounds]) /\ InChannelNow' = Len(chans[rounds]) - 1
  BY <1>1 DEF InChannelNow
<1>3. InLoop' = InLoop
  BY DEF InLoop
<1>4. Awaited' = Len(asked') + Len(replies') + InLoop' + InChannelNow'
  BY DEF Awaited, InLoop, InChannelNow
<1>5. Awaited <= late + 1
  BY DEF AwaitedInv
<1>a. /\ Awaited = Len(asked) + Len(replies) + InLoop + Len(chans[rounds])
      /\ Len(asked) \in Nat /\ Len(replies) \in Nat /\ InLoop \in Nat /\ late \in Nat
      /\ Len(chans[rounds]) \in Nat \ {0} /\ Len(chans'[rounds]) = Len(chans[rounds]) - 1
  BY <1>1, <1>2, AwaitedFacts
<1>b. Awaited' = Len(asked') + Len(replies) + InLoop + (Len(chans[rounds]) - 1)
  BY <1>2, <1>3, <1>4
<1>c. Len(asked') \in Nat /\ late' = late
  BY SMTT(60) DEF RoundTypeOK
<1>6. /\ Awaited' \in Nat
      /\ Len(asked') = Len(asked) + 1 => Awaited' <= late + 1
      /\ Len(asked') = Len(asked) + 0 => Awaited' <= late
      /\ (Len(chans[rounds]) - 1) + InLoop <= Awaited'
  <2>1. Len(asked) + Len(replies) + InLoop + Len(chans[rounds]) <= late + 1
    BY <1>5, <1>a
  <2> DEFINE w == Len(asked') + Len(replies) + InLoop + (Len(chans[rounds]) - 1)
  <2>2. /\ Len(asked) \in Nat /\ Len(asked') \in Nat /\ Len(replies) \in Nat /\ InLoop \in Nat
        /\ Len(chans[rounds]) \in Nat \ {0} /\ late \in Nat
    BY <1>a, <1>c
  <2>3. /\ w \in Nat
        /\ Len(asked') = Len(asked) + 1 => w <= late + 1
        /\ Len(asked') = Len(asked) + 0 => w <= late
        /\ (Len(chans[rounds]) - 1) + InLoop <= w
    <3>1. PICK a \in Nat, b \in Nat, r \in Nat, i \in Nat, k \in Nat \ {0}, l \in Nat :
            /\ a = Len(asked) /\ b = Len(asked') /\ r = Len(replies) /\ i = InLoop
            /\ k = Len(chans[rounds]) /\ l = late
      BY ONLY <2>2, ZenonT(60)
    <3>2. a + r + i + k <= l + 1
      BY ONLY <2>1, <3>1, ZenonT(60)
    <3>3. /\ b + r + i + (k - 1) \in Nat
          /\ b = a + 1 => b + r + i + (k - 1) <= l + 1
          /\ b = a + 0 => b + r + i + (k - 1) <= l
          /\ (k - 1) + i <= b + r + i + (k - 1)
      BY <3>2, OneTaken
    <3> QED
      BY ONLY <3>1, <3>3, ZenonT(60)
  <2>4. Awaited' = w
    BY <1>b
  <2> HIDE DEF w
  <2> QED
    BY <2>3, <2>4
<1>d. Awaited' <= late' + (IF round'.on THEN 1 ELSE 0)
  <2>1. CASE round'.on
    <3>1. Len(asked') = Len(asked) + 1
      BY <2>1
    <3>2. Awaited' <= late' + 1
      BY <1>6, <1>c, <3>1
    <3> QED
      BY <2>1, <3>2
  <2>2. CASE ~round'.on
    <3>1. Len(asked') = Len(asked) + 0
      BY <2>2
    <3>2. Awaited' <= late' + 0
      BY <1>6, <1>a, <1>c, <3>1, SMTT(60)
    <3> QED
      BY <2>2, <3>2
  <2> QED
    BY <2>1, <2>2
<1>7. ASSUME NEW n \in 1..MaxRounds, n # rounds' \/ ~round'.on
      PROVE  Destined(n)' <= late'
  <2>1. CASE n # rounds
    BY <1>1, <2>1 DEF AwaitedInv, Destined
  <2>2. CASE n = rounds
    <3>1. Destined(n)' <= Len(chans'[rounds]) + InLoop'
      BY <1>1, <2>2, SMTT(60) DEF Destined, InLoop
    <3>2. Destined(n)' \in Nat
      <4>1. \/ Destined(n)' = Len(chans'[rounds]) + 0
            \/ Destined(n)' = Len(chans'[rounds]) + 1
        BY <2>2 DEF Destined
      <4> QED
        BY <1>1, <4>1, SMTT(60)
    <3>3. Awaited' <= late'
      <4>1. ~round'.on
        BY <1>7, <2>2
      <4>2. Len(asked') = Len(asked) + 0
        BY <4>1
      <4> QED
        BY <1>6, <1>c, <4>2
    <3>4. Destined(n)' <= (Len(chans[rounds]) - 1) + InLoop
      BY <1>3, <1>a, <3>1
    <3>5. Destined(n)' <= Awaited'
      BY <1>6, <1>a, <3>2, <3>4, SMTT(60)
    <3> QED
      BY <1>6, <1>a, <1>c, <3>2, <3>3, <3>5, SMTT(60)
  <2> QED
    BY <2>1, <2>2
<1> QED
  BY <1>1, <1>7, <1>d DEF AwaitedInv

\* syncPending: what the round wants and the pool holds, up to the last block of
\* the page, this anchor has now.
LEMMA ImportedUpToLast ==
  ASSUME RoundTypeOK, RoundPagesInv, NEW item \in Loaded, item.page # {}, round.on,
         PageOK(item.page, item.round),
         NEW want, want = IF item.round = rounds THEN round.want ELSE {},
         NEW c \in want \cap pool, Num[c] <= LastNumber(item.page)
  PROVE  c \in got \cup (item.page \cap pool)
<1>1. item.page \in SUBSET Ctx
  BY DEF Loaded
<1>2. PICK e \in item.page : Num[e] = LastNumber(item.page)
  BY <1>1, MaxNum DEF LastNumber
<1>3. item.round = rounds /\ c \in round.want \cap pool
  OBVIOUS
<1>4. c \in got \/ c \in item.page
  BY <1>2, <1>3 DEF PageOK
<1> QED
  BY <1>3, <1>4

\* syncPending adds a page of signatures.
LEMMA ImportPendingRound ==
  ASSUME RoundTypeOK, RoundPagesInv, AwaitedInv, ImportPending
  PROVE  /\ RoundTypeOK' /\ RoundPagesInv' /\ AwaitedInv'
         /\ ~round'.on => round'.want \cap pool' \subseteq got'
<1> DEFINE item == Head(chans[rounds])
           signed == item.page \cap pool
           want == IF item.round = rounds THEN round.want ELSE {}
           number == LastNumber(item.page)
<1>1. /\ UNCHANGED <<mode, theirs, rounds, replies, loop, late>>
      /\ round.on /\ chans[rounds] # <<>> /\ item.page # {}
      /\ got' = got \cup signed
      /\ chans' = [chans EXCEPT ![rounds] = Tail(@)]
  BY DEF ImportPending
<1>2. PICK enough \in SUBSET signed :
        /\ pool' = pool \ enough /\ left' = left \cup enough
        /\ round' = [on |-> Pending(pool \ enough, number) # {}, want |-> want]
        /\ IF Pending(pool \ enough, number) = {} THEN UNCHANGED asked
           ELSE RequestPending(Pending(pool \ enough, number), rounds)
  BY DEF ImportPending
<1> DEFINE more == Pending(pool \ enough, number)
<1>3. /\ rounds \in 1..MaxRounds /\ rounds \in Nat
      /\ item \in Loaded /\ item \in Elems(chans[rounds])
      /\ chans' \in [1..MaxRounds -> Seq(Loaded)]
      /\ \A n \in 1..MaxRounds : Elems(chans'[n]) \subseteq Elems(chans[n])
  BY <1>1, TakeFromChannel, AwaitedFacts
<1>4. item.page \in SUBSET Ctx /\ PageOK(item.page, item.round)
  BY <1>3 DEF Loaded, RoundPagesInv
<1>5. number \in Nat
  BY <1>1, <1>4, MaxNum DEF LastNumber
<1>6. /\ more \subseteq pool'
      /\ \A e \in more, c \in pool' : Num[c] > number /\ Num[c] <= Num[e] => c \in more
      /\ more = {} => \A c \in pool' : Num[c] <= number
  <2>1. pool' = pool \ enough /\ pool \ enough \in SUBSET Ctx
    BY <1>2 DEF RoundTypeOK
  <2> HIDE DEF number
  <2> QED
    BY <1>5, <2>1, PendingFacts
<1>7. \A c \in want \cap pool' : Num[c] <= number => c \in got'
  <2> SUFFICES ASSUME NEW c \in want \cap pool', Num[c] <= number PROVE c \in got'
    OBVIOUS
  <2>1. c \in want \cap pool
    BY <1>2
  <2> HIDE DEF item
  <2>2. c \in got \cup (item.page \cap pool)
    BY <1>1, <1>3, <1>4, <2>1, ImportedUpToLast
  <2> QED
    BY <1>1, <2>2
<1> HIDE DEF item, signed, want, number, more
<1>8. round'.on = (more # {}) /\ round'.want = want /\ round' = [on |-> more # {}, want |-> want]
  BY <1>2 DEF more
<1>9. ~round'.on => round'.want \cap pool' \subseteq got'
  BY <1>6, <1>7, <1>8
<1>10. want \subseteq round.want
  BY DEF want
<1>11. pool' \subseteq pool /\ pool' \subseteq Ctx /\ left' \subseteq Ctx /\ got' \subseteq Ctx
  BY <1>1, <1>2, <1>4 DEF RoundTypeOK, signed
<1>12. /\ asked' \in Seq(Asked)
       /\ Len(asked') = Len(asked) + (IF round'.on THEN 1 ELSE 0)
       /\ \A x \in Elems(asked') : x \in Elems(asked) \/ (x \in Asked /\ x.ids = more /\ x.round = rounds)
  <2>1. CASE more = {}
    <3>1. asked' = asked
      BY <1>2, <2>1 DEF more
    <3>2. ~round'.on
      BY <1>8, <2>1
    <3> QED
      BY <3>1, <3>2, SMTT(60) DEF RoundTypeOK
  <2>2. CASE more # {}
    <3>1. PICK x \in Asked : x.ids = more /\ x.round = rounds /\ asked' = Append(asked, x)
      BY <1>2, <1>3, <1>6, <1>11, <2>2 DEF more, RequestPending, Asked
    <3>2. /\ asked' \in Seq(Asked) /\ Elems(asked') = Elems(asked) \cup {x}
          /\ Len(asked') = Len(asked) + 1
      BY <3>1, ElemsAppend, SMTT(60) DEF RoundTypeOK
    <3>3. round'.on
      BY <1>8, <2>2
    <3> QED
      BY <3>1, <3>2, <3>3
  <2> QED
    BY <2>1, <2>2
<1>13. RoundTypeOK'
  <2>1. round' \in [on : BOOLEAN, want : SUBSET Ctx]
    BY <1>8, <1>10 DEF RoundTypeOK
  <2> QED
    BY <1>1, <1>3, <1>11, <1>12, <2>1 DEF RoundTypeOK
<1>14. RoundStepOK
  BY <1>1, <1>3, <1>8, <1>10, <1>11, <1>13, SMTT(60) DEF RoundStepOK
<1>15. \A x \in Elems(asked') : x \in Elems(asked) \/ PageOK(x.ids, x.round)'
  <2> SUFFICES ASSUME NEW x \in Elems(asked'), x \notin Elems(asked)
               PROVE  PageOK(x.ids, x.round)'
    OBVIOUS
  <2>1. x.ids = more /\ x.round = rounds
    BY <1>12
  <2>2. ASSUME NEW c \in want \cap pool', NEW e \in more, Num[c] <= Num[e]
        PROVE  c \in got' \/ c \in more
    <3>1. Num[c] \in Nat
      BY <1>11, NumFacts
    <3>2. CASE Num[c] <= number
      BY <1>7, <3>2
    <3>3. CASE Num[c] > number
      BY <1>6, <2>2, <3>3
    <3> QED
      BY <1>5, <3>1, <3>2, <3>3, SMTT(60)
  <2>3. PageOK(x.ids, x.round)' <=>
          /\ x.round <= rounds'
          /\ round'.on /\ x.round = rounds' =>
               \A c \in round'.want \cap pool', e \in x.ids :
                  Num[c] <= Num[e] => c \in got' \/ c \in x.ids
    BY DEF PageOK
  <2> QED
    BY <1>1, <1>3, <1>8, <2>1, <2>2, <2>3, SMTT(60)
<1>16. pool' \cap left' = {} /\ round'.want \subseteq theirs' \cap (pool' \cup left')
  BY <1>1, <1>2, <1>8, <1>10 DEF RoundPagesInv, signed
<1>17. RoundPagesInv'
  BY <1>1, <1>3, <1>14, <1>15, <1>16, RoundPagesKept
<1>18. AwaitedInv'
  BY <1>1, <1>12, <1>13, TakenAwaited
<1> QED
  BY <1>9, <1>13, <1>17, <1>18

\* An empty answer ends the round.
LEMMA StopPendingRound ==
  ASSUME RoundTypeOK, RoundPagesInv, AwaitedInv, StopPending
  PROVE  RoundTypeOK' /\ RoundPagesInv' /\ AwaitedInv'
<1>1. /\ UNCHANGED <<mode, pool, left, theirs, got, rounds, asked, replies, loop, late>>
      /\ round.on /\ chans[rounds] # <<>> /\ round' = NoRound
      /\ chans' = [chans EXCEPT ![rounds] = Tail(@)]
  BY DEF StopPending, poolVars
<1>2. /\ rounds \in 1..MaxRounds
      /\ chans' \in [1..MaxRounds -> Seq(Loaded)]
      /\ \A n \in 1..MaxRounds : Elems(chans'[n]) \subseteq Elems(chans[n])
  BY <1>1, TakeFromChannel
<1>3. /\ round' \in [on : BOOLEAN, want : SUBSET Ctx] /\ round'.want = {} /\ ~round'.on
  BY <1>1 DEF NoRound
<1>4. RoundTypeOK'
  BY <1>1, <1>2, <1>3 DEF RoundTypeOK
<1>5. RoundStepOK
  BY <1>1, <1>2, <1>3, <1>4, SMTT(60) DEF RoundStepOK
<1>6. RoundPagesInv'
  BY <1>1, <1>2, <1>3, <1>5, RoundPagesKept DEF RoundPagesInv
<1>7. Len(asked') = Len(asked) + (IF round'.on THEN 1 ELSE 0)
  BY <1>1, <1>3, SMTT(60) DEF RoundTypeOK
<1>8. AwaitedInv'
  BY <1>1, <1>4, <1>7, TakenAwaited
<1> QED
  BY <1>4, <1>6, <1>8

\* No answer in time.
LEMMA TimeoutPendingRound ==
  ASSUME RoundTypeOK, RoundPagesInv, AwaitedInv, TimeoutPending
  PROVE  RoundTypeOK' /\ RoundPagesInv' /\ AwaitedInv'
<1>1. /\ UNCHANGED <<mode, pool, left, theirs, got, rounds, chans, asked, replies, loop>>
      /\ round.on /\ round' = NoRound /\ late' = late + 1
  BY DEF TimeoutPending, poolVars
<1>2. round' \in [on : BOOLEAN, want : SUBSET Ctx] /\ round'.want = {} /\ ~round'.on
  BY <1>1 DEF NoRound
<1>3. RoundTypeOK'
  BY <1>1, <1>2, SMTT(60) DEF RoundTypeOK
<1>4. RoundStepOK
  BY <1>1, <1>2, <1>3, SMTT(60) DEF RoundStepOK, RoundTypeOK
<1>5. RoundPagesInv'
  BY <1>1, <1>2, <1>4, RoundPagesKept DEF RoundPagesInv
<1>6. AwaitedInv'
  <2>1. /\ Awaited <= late + 1 /\ late \in Nat /\ rounds # 0
        /\ Awaited' = Awaited /\ \A n \in 1..MaxRounds : Destined(n)' = Destined(n)
    BY <1>1, AwaitedFacts DEF AwaitedInv, Awaited, Destined, RoundTypeOK
  <2>2. Awaited' <= late' + 0
    BY ONLY <1>1, <2>1, SMTT(60)
  <2>3. \A n \in 1..MaxRounds : Destined(n) \in Nat
    <3> SUFFICES ASSUME NEW n \in 1..MaxRounds PROVE Destined(n) \in Nat
      OBVIOUS
    <3>1. Len(chans[n]) \in Nat
      BY AwaitedFacts
    <3>2. Destined(n) = Len(chans[n]) + 0 \/ Destined(n) = Len(chans[n]) + 1
      BY DEF Destined
    <3> QED
      BY ONLY <3>1, <3>2, SMTT(60)
  <2>4. Awaited \in Nat /\ Destined(rounds) <= Awaited
    BY <2>1, DestinedNow, AwaitedFacts, SMTT(60)
  <2>5. ASSUME NEW n \in 1..MaxRounds PROVE Destined(n)' <= late'
    <3>1. CASE n = rounds
      <4>1. Destined(n) <= Awaited /\ Destined(n) \in Nat
        BY <2>3, <2>4, <3>1
      <4> QED
        BY ONLY <1>1, <2>1, <2>4, <4>1, n \in 1..MaxRounds, SMTT(60)
    <3>2. CASE n # rounds
      <4>1. Destined(n) <= late /\ Destined(n) \in Nat
        BY <2>3, <3>2 DEF AwaitedInv
      <4> QED
        BY ONLY <1>1, <2>1, <4>1, n \in 1..MaxRounds, SMTT(60)
    <3> QED
      BY <3>1, <3>2
  <2> QED
    BY <1>1, <1>2, <2>2, <2>5 DEF AwaitedInv
<1> QED
  BY <1>3, <1>5, <1>6

\* Only the peer's store, or the pool, changes.
LEMMA MeanwhileRound ==
  ASSUME RoundTypeOK, RoundPagesInv, AwaitedInv, NEW c \in Ctx, PeerSigns(c) \/ PoolChanges(c)
  PROVE  RoundTypeOK' /\ RoundPagesInv' /\ AwaitedInv'
<1>1. UNCHANGED <<mode, got, round, rounds, chans, asked, replies, loop, late>>
  BY DEF PeerSigns, PoolChanges
<1>2. /\ pool' \subseteq Ctx /\ left' \subseteq Ctx /\ theirs' \subseteq Ctx
      /\ theirs \subseteq theirs' /\ pool \cup left \subseteq pool' \cup left'
      /\ pool' \cap left' = {} /\ pool' \cap (pool \cup left) \subseteq pool
  BY DEF PeerSigns, PoolChanges, RoundTypeOK, RoundPagesInv
<1>3. RoundTypeOK'
  BY <1>1, <1>2 DEF RoundTypeOK
<1>4. RoundStepOK
  <2>1. got \subseteq got' /\ round' = round /\ rounds' = rounds
    BY ONLY <1>1, ZenonT(60)
  <2>2. rounds <= rounds
    BY SMTT(60) DEF RoundTypeOK
  <2>3. round.want \cap pool' \subseteq pool
    BY <1>2 DEF RoundPagesInv
  <2> QED BY ONLY <1>3, <2>1, <2>2, <2>3, ZenonT(60) DEF RoundStepOK
<1>5. round'.want \subseteq theirs' \cap (pool' \cup left')
  BY <1>1, <1>2 DEF RoundPagesInv
<1>6. RoundPagesInv'
  BY <1>1, <1>2, <1>4, <1>5, RoundPagesKept
<1>7. AwaitedInv'
  BY <1>1 DEF AwaitedInv, Awaited, Destined
<1> QED
  BY <1>3, <1>6, <1>7

\* A round begins with nothing underway.
LEMMA RoundInit == PendingInit => RoundInv
<1> SUFFICES ASSUME PendingInit PROVE RoundInv
  OBVIOUS
<1>1. Elems(<<>>) = {} /\ Len(<<>>) = 0 /\ \A S : <<>> \in Seq(S)
  BY SMTT(60) DEF Elems
<1>2. MaxRounds \in Nat /\ NoReply \in Loaded
  BY RoundAssumption DEF NoReply, Loaded
<1>3. RoundTypeOK
  BY <1>1, <1>2, SMTT(60) DEF PendingInit, RoundTypeOK, NoRound
<1>4. \A n \in 1..MaxRounds : chans[n] = <<>>
  BY DEF PendingInit
<1>5. asked = <<>> /\ replies = <<>> /\ loop = NoReply /\ rounds = 0 /\ late = 0
  BY DEF PendingInit
<1>6. RoundPagesInv
  <2>1. PageOK(loop.page, loop.round)
    BY <1>5, SMTT(60) DEF NoReply, PageOK
  <2> QED
    BY <1>1, <1>4, <1>5, <2>1 DEF PendingInit, RoundPagesInv, NoRound
<1>7. AwaitedInv
  <2>1. Awaited = 0
    BY <1>1, <1>5, SMTT(60) DEF Awaited
  <2>2. \A n \in 1..MaxRounds : Destined(n) = 0
    BY <1>1, <1>4, <1>5, SMTT(60) DEF Destined
  <2>3. ~round.on
    BY DEF PendingInit, NoRound
  <2> QED
    BY <1>4, <1>5, <2>1, <2>2, <2>3, SMTT(60) DEF AwaitedInv
<1> QED
  BY <1>3, <1>6, <1>7 DEF RoundInv

\* Each step of the rounds keeps their invariant.
LEMMA RoundStep == RoundInv /\ PendingNext => RoundInv'
<1> SUFFICES ASSUME RoundTypeOK, RoundPagesInv, AwaitedInv, PendingNext
             PROVE  RoundTypeOK' /\ RoundPagesInv' /\ AwaitedInv'
  BY DEF RoundInv
<1>1. CASE SynchronisePending
  BY <1>1, BeginRound
<1>2. CASE GetPending
  BY <1>2, GetPendingRound
<1>3. CASE LoadChannel
  BY <1>3, LoadChannelRound
<1>4. CASE DeliverPending
  BY <1>4, DeliverPendingRound
<1>5. CASE ImportPending
  BY <1>5, ImportPendingRound
<1>6. CASE StopPending
  BY <1>6, StopPendingRound
<1>7. CASE TimeoutPending
  BY <1>7, TimeoutPendingRound
<1>8. ASSUME NEW c \in Ctx, PeerSigns(c) \/ PoolChanges(c)
      PROVE  RoundTypeOK' /\ RoundPagesInv' /\ AwaitedInv'
  BY <1>8, MeanwhileRound
<1> QED
  BY <1>1, <1>2, <1>3, <1>4, <1>5, <1>6, <1>7, <1>8 DEF PendingNext

\* A step that leaves the rounds alone.
LEMMA RoundUnchanged == RoundInv /\ UNCHANGED roundVars => RoundInv'
BY
DEF roundVars, poolVars, RoundInv, RoundTypeOK, RoundPagesInv, PageOK, AwaitedInv, Awaited,
       Destined

-----------------------------------------------------------------------------
(* What the synchroniser guarantees.                                       *)

\* Requests and answers mean what they should wherever they are, also those of a
\* synchronisation that has ended, and there is at most one of them for each
\* timeout besides the one that the synchronisation waits for.
THEOREM SyncInvariance == SyncSpec => []SyncInv
<1>1. SyncInit => SyncInv
  <2>1. SyncInit => Init /\ (PendingInit \/ (mode = "store" /\ loop = NoReply))
    BY DEF SyncInit
  <2>2. PendingInit => mode = "pending"
    BY DEF PendingInit
  <2> QED
    BY <2>1, <2>2, StoreInit, RoundInit DEF SyncInv
<1>2. SyncInv /\ [SyncNext]_<<vars, roundVars>> => SyncInv'
  <2> SUFFICES ASSUME SyncInv, [SyncNext]_<<vars, roundVars>> PROVE SyncInv'
    OBVIOUS
  <2>1. StoreInv /\ (mode = "pending" => RoundInv)
    BY DEF SyncInv
  <2>2. CASE mode = "store" /\ Next /\ UNCHANGED roundVars
    <3>1. StoreInv'
      BY <2>1, <2>2, StoreStep
    <3>2. mode' = mode /\ loop' = loop
      BY <2>2 DEF roundVars, poolVars
    <3> QED
      BY <2>2, <3>1, <3>2 DEF SyncInv
  <2>3. CASE mode = "pending" /\ PendingNext /\ UNCHANGED vars
    <3>1. StoreInv' /\ RoundInv'
      BY <2>1, <2>3, StoreUnchanged, RoundStep
    <3>2. mode' = mode
      BY <2>3
      DEF PendingNext, poolVars, SynchronisePending, GetPending, LoadChannel, DeliverPending,
                  ImportPending, StopPending, TimeoutPending, PeerSigns, PoolChanges
    <3> QED
      BY <2>3, <3>1, <3>2 DEF SyncInv
  <2>4. CASE UNCHANGED <<vars, roundVars>>
    <3>1. UNCHANGED vars /\ UNCHANGED roundVars
      BY <2>4
    <3>2. StoreInv' /\ (RoundInv => RoundInv')
      BY <2>1, <3>1, StoreUnchanged, RoundUnchanged
    <3>3. mode' = mode /\ loop' = loop
      BY <3>1 DEF roundVars, poolVars
    <3> QED
      BY <3>2, <3>3 DEF SyncInv
  <2> QED
    BY <2>2, <2>3, <2>4 DEF SyncNext
<1> QED
  BY <1>1, <1>2, PTL DEF SyncSpec

\* syncWithPeer leaves no hole below indexDB.Height, from where the next call
\* begins, for any number of peers, pages and late answers.
THEOREM NoHoleBelowHeightHolds == SyncSpec => []NoHoleBelowHeight
<1>1. SyncInv => NoHoleBelowHeight
  BY DEF SyncInv, StoreInv, PagesInv, Excused, NoHoleBelowHeight
<1> QED
  BY <1>1, SyncInvariance, PTL

\* DeliverCrossTransactions holds up the message loop of a peer only after two
\* synchronisations that timed out, and so does DeliverPending, whatever the size
\* of the channels: an answer that waits and one in the channel are two that no
\* synchronisation waits for.
THEOREM LoopHeldAfterTimeoutsHolds == SyncSpec => []LoopHeldAfterTimeouts
<1>1. ASSUME StoreInv, NEW p \in Peer, answers[p] # <<>>, Len(ch) >= ChannelSize, ~sync.on
      PROVE  timeouts >= 2
  <2>1. Len(answers[p]) \in Nat /\ Len(answers[p]) # 0 /\ Len(ch) \in Nat /\ Len(ch) >= 1
    BY <1>1, SizeAssumption, SMTT(60) DEF StoreInv, StoreTypeOK
  <2>2. <<p, 2, 1>> \in Underway /\ <<Nobody, 3, 1>> \in Underway
    <3>1. 1 \in 1..Len(answers[p]) /\ 1 \in 1..Len(ch)
      BY <2>1, SMTT(60)
    <3> QED
      BY <3>1, SMTT(60) DEF Underway, Places
  <2>3. <<p, 2, 1>> # <<Nobody, 3, 1>>
    BY SMTT(60)
  <2>4. IsFiniteSet(Underway) /\ Cardinality(Underway) <= timeouts /\ timeouts \in Nat
    BY <1>1, SMTT(60) DEF StoreInv, UnderwayInv, StoreTypeOK
  <2>5. ASSUME NEW x, NEW y, x # y PROVE Cardinality({x, y}) = 2
    <3>1. {x, y} = {y} \cup {x} /\ x \notin {y}
      BY <2>5
    <3>2. IsFiniteSet({y}) /\ Cardinality({y}) = 1
      BY FS_Singleton
    <3>3. Cardinality({y} \cup {x}) = Cardinality({y}) + 1
      BY <3>1, <3>2, FS_AddElement
    <3> QED
      BY <3>1, <3>2, <3>3, SMTT(60)
  <2>6. Cardinality({<<p, 2, 1>>, <<Nobody, 3, 1>>}) = 2
    BY <2>3, <2>5
  <2>7. {<<p, 2, 1>>, <<Nobody, 3, 1>>} \subseteq Underway
    BY <2>2
  <2>8. 2 <= Cardinality(Underway) /\ Cardinality(Underway) \in Nat
    BY <2>4, <2>6, <2>7, FS_Subset, FS_CardinalityType, SMTT(60)
  <2> QED
    BY <2>4, <2>8, SMTT(60)
<1>2. ASSUME RoundInv, Wedged PROVE late >= 2
  <2>1. RoundTypeOK /\ AwaitedInv /\ loop # NoReply
    BY <1>2 DEF RoundInv, Wedged
  <2>2. PICK t \in 1..MaxRounds : t = loop.to
    BY <2>1, AwaitedFacts, SMTT(60) DEF RoundTypeOK
  <2>3. Len(chans[t]) \in Nat /\ Len(chans[t]) >= 1 /\ late \in Nat
    <3>1. Len(chans[t]) \in Nat /\ late \in Nat
      BY <2>1, AwaitedFacts
    <3>2. Len(chans[t]) >= ChannelSize
      BY <1>2, <2>2 DEF Wedged
    <3> QED
      BY ONLY <3>1, <3>2, SizeAssumption, SMTT(60)
  <2>4. Destined(t) <= late
    BY <1>2, <2>1, <2>2 DEF AwaitedInv, Wedged
  <2>5. Destined(t) = Len(chans[t]) + 1
    BY <2>1, <2>2 DEF Destined
  <2> QED
    BY ONLY <2>3, <2>4, <2>5, SMTT(60)
<1>3. SyncInv => LoopHeldAfterTimeouts
  <2> SUFFICES ASSUME SyncInv PROVE LoopHeldAfterTimeouts
    OBVIOUS
  <2>1. Wedged => RoundInv
    BY DEF SyncInv, Wedged
  <2> QED
    BY <1>1, <1>2, <2>1 DEF SyncInv, LoopHeldAfterTimeouts
<1> QED
  BY <1>3, SyncInvariance, PTL

\* Neither paging skips anything: a synchronisation that ends with an empty page
\* has what its peer held when it began, and a round that ends with nothing more
\* to ask for has the signatures that the peer had made, for every size of the
\* pages and whatever is stored, signed and taken from the pool meanwhile.
THEOREM EndedHasAllHolds == SyncSpec => EndedHasAll
<1> DEFINE Ended == /\ Complete /\ Head(ch).sync = sync.id
                         => \A c \in sync.want : c \in local \/ Num[c] \in failed
                    /\ ImportPending /\ ~round'.on => round'.want \cap pool' \subseteq got'
<1>1. ASSUME StoreInv, Complete, Head(ch).sync = sync.id, NEW c \in sync.want
      PROVE  c \in local \/ Num[c] \in failed
  <2>1. sync.on /\ ch # <<>> /\ Head(ch).page = {}
    BY <1>1 DEF Complete
  <2>2. AnswerOK(Head(ch))
    BY <1>1, <2>1, ElemsTail DEF StoreInv, StoreTypeOK, PagesInv
  <2> QED
    BY <1>1, <2>1, <2>2 DEF AnswerOK, Tried
<1>2. ASSUME SyncInv, SyncNext, ImportPending, ~round'.on
      PROVE  round'.want \cap pool' \subseteq got'
  <2>1. CASE mode = "pending"
    BY <1>2, <2>1, ImportPendingRound DEF SyncInv, RoundInv
  <2>2. CASE mode = "store"
    BY <1>2, <2>2 DEF SyncNext, ImportPending, roundVars
  <2> QED
    BY <1>2, <2>1, <2>2 DEF SyncInv
<1>3. SyncInv /\ [SyncNext]_<<vars, roundVars>> => [Ended]_<<vars, roundVars>>
  BY <1>1, <1>2 DEF SyncInv
<1> QED
  BY <1>3, SyncInvariance, PTL DEF SyncSpec, EndedHasAll
=============================================================================
