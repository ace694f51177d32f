------------------------- MODULE VoteSnapshotProofs -------------------------
(***************************************************************************)
(* Proofs about the snapshots of Clique and Istanbul (VoteSnapshot).       *)
(*                                                                         *)
(* The tally is a function of the votes and the signers: all votes on one  *)
(* account ask for the same, which the signers determine.  Each operation  *)
(* on a snapshot is shown to keep it so.                                   *)
(***************************************************************************)
EXTENDS VoteSnapshot, FiniteSetTheorems, TLAPS

\* Zenon is tried before SMT, and both have a minute.
USE ZenonT(60), SMTT(60)

-----------------------------------------------------------------------------
(* The tally as a function of the votes *)

On(V, a) == {v \in V : v.address = a}

TallyOf(V, S) ==
  [a \in {v.address : v \in V} |-> [authorize |-> a \notin S, votes |-> Cardinality(On(V, a))]]

ValidVotes(V, S) ==
  /\ IsFiniteSet(V)
  /\ \A v \in V : /\ v.signer \in S /\ v.address \in Account
                  /\ v.authorize = (v.address \notin S)

\* What uncast subtracts from the entry of an account
CountedOn(T, W, a) == Cardinality({v \in W : v.address = a /\ v.authorize = T[a].authorize})

Untally(T, W) ==
  [a \in {a \in DOMAIN T : T[a].votes > CountedOn(T, W, a)} |->
     [authorize |-> T[a].authorize, votes |-> T[a].votes - CountedOn(T, W, a)]]

\* An account has an entry in the tally when there is a vote on it.
LEMMA TallyEntry ==
  ASSUME NEW V, NEW S, IsFiniteSet(V)
  PROVE  /\ DOMAIN TallyOf(V, S) = {v.address : v \in V}
         /\ \A a : a \in DOMAIN TallyOf(V, S) <=> On(V, a) # {}
         /\ \A a : /\ IsFiniteSet(On(V, a)) /\ Cardinality(On(V, a)) \in Nat
                   /\ Cardinality(On(V, a)) = 0 <=> On(V, a) = {}
<1>1. DOMAIN TallyOf(V, S) = {v.address : v \in V}
  BY DEF TallyOf
<1>3. \A a : a \in DOMAIN TallyOf(V, S) <=> On(V, a) # {}
  BY ONLY <1>1, ZenonT(60) DEF On
<1>4. ASSUME NEW a
      PROVE  /\ IsFiniteSet(On(V, a)) /\ Cardinality(On(V, a)) \in Nat
             /\ Cardinality(On(V, a)) = 0 <=> On(V, a) = {}
  <2>1. On(V, a) \in SUBSET V
    BY DEF On
  <2>2. IsFiniteSet(On(V, a))
    BY ONLY <2>1, IsFiniteSet(V), FS_Subset, ZenonT(60)
  <2> QED BY ONLY <2>2, FS_CardinalityType, FS_EmptySet, ZenonT(60)
<1> QED BY ONLY <1>1, <1>3, <1>4, ZenonT(60)

\* Votes that leave the list leave the tally.
LEMMA UntallyVotes ==
  ASSUME NEW V, NEW S, ValidVotes(V, S), NEW W \in SUBSET V
  PROVE  Untally(TallyOf(V, S), W) = TallyOf(V \ W, S) /\ ValidVotes(V \ W, S)
<1> DEFINE T == TallyOf(V, S)
           U == TallyOf(V \ W, S)
           X == Untally(T, W)
<1>1. IsFiniteSet(V) /\ IsFiniteSet(V \ W) /\ ValidVotes(V \ W, S)
  BY FS_Difference DEF ValidVotes
<1>2. ASSUME NEW a, a \in DOMAIN T
      PROVE  {v \in W : v.address = a /\ v.authorize = T[a].authorize} = On(W, a)
  <2>1. T[a].authorize = (a \notin S)
    BY ONLY <1>2, ZenonT(60) DEF TallyOf
  <2>2. \A v \in W : v.address = a => v.authorize = T[a].authorize
    BY ONLY <2>1, ValidVotes(V, S), W \in SUBSET V, ZenonT(60) DEF ValidVotes
  <2> QED BY ONLY <2>2, ZenonT(60) DEF On
<1>3. ASSUME NEW a
      PROVE  Cardinality(On(V \ W, a)) = Cardinality(On(V, a)) - Cardinality(On(W, a))
  <2>1. On(V \ W, a) = On(V, a) \ On(W, a) /\ On(V, a) \cap On(W, a) = On(W, a)
    BY ONLY W \in SUBSET V, ZenonT(60) DEF On
  <2>2. IsFiniteSet(On(V, a))
    BY ONLY <1>1, TallyEntry, ZenonT(60)
  <2>3. Cardinality(On(V, a) \ On(W, a)) = Cardinality(On(V, a)) - Cardinality(On(V, a) \cap On(W, a))
    BY ONLY <2>2, FS_Difference, ZenonT(60)
  <2> QED BY ONLY <2>1, <2>3, ZenonT(60)
<1>4. \A a : /\ Cardinality(On(V, a)) \in Nat /\ Cardinality(On(V \ W, a)) \in Nat
             /\ Cardinality(On(V \ W, a)) = 0 <=> On(V \ W, a) = {}
             /\ a \in DOMAIN U <=> On(V \ W, a) # {}
  BY ONLY <1>1, TallyEntry, ZenonT(60)
<1>4a. \A a : Cardinality(On(W, a)) \in Nat
  BY ONLY <1>1, W \in SUBSET V, FS_Subset, TallyEntry, ZenonT(60)
<1>5. \A a \in DOMAIN T : T[a] = [authorize |-> a \notin S, votes |-> Cardinality(On(V, a))]
  BY DEF TallyOf
<1>6. \A a \in DOMAIN U : U[a] = [authorize |-> a \notin S, votes |-> Cardinality(On(V \ W, a))]
  BY DEF TallyOf
<1>7. DOMAIN U \subseteq DOMAIN T
  BY DEF TallyOf
<1>8. \A a \in DOMAIN T : CountedOn(T, W, a) = Cardinality(On(W, a))
  BY ONLY <1>2, ZenonT(60) DEF CountedOn
<1>9. DOMAIN X = {a \in DOMAIN T : T[a].votes > CountedOn(T, W, a)}
  BY DEF Untally
<1>9a. \A a \in DOMAIN X : X[a] = [authorize |-> T[a].authorize, votes |-> T[a].votes - CountedOn(T, W, a)]
  BY DEF Untally
<1>9b. X = [a \in DOMAIN X |-> X[a]] /\ U = [a \in DOMAIN U |-> U[a]]
  BY DEF Untally, TallyOf
<1> HIDE DEF T, U, X
<1>10. DOMAIN X = DOMAIN U
  <2>1. \A a \in DOMAIN T : T[a].votes = Cardinality(On(V, a))
    BY ONLY <1>5, SMTT(60)
  <2>2. \A a \in DOMAIN T : T[a].votes > CountedOn(T, W, a) <=> a \in DOMAIN U
    <3> SUFFICES ASSUME NEW a \in DOMAIN T
                 PROVE  T[a].votes > CountedOn(T, W, a) <=> a \in DOMAIN U
      OBVIOUS
    <3>1. /\ T[a].votes = Cardinality(On(V, a)) /\ CountedOn(T, W, a) = Cardinality(On(W, a))
          /\ Cardinality(On(V \ W, a)) = Cardinality(On(V, a)) - Cardinality(On(W, a))
          /\ Cardinality(On(V, a)) \in Nat /\ Cardinality(On(V \ W, a)) \in Nat
          /\ Cardinality(On(W, a)) \in Nat
          /\ a \in DOMAIN U <=> Cardinality(On(V \ W, a)) # 0
      BY ONLY <2>1, <1>3, <1>4, <1>4a, <1>8, a \in DOMAIN T, ZenonT(60)
    <3> QED BY ONLY <3>1, SMTT(60)
  <2> QED BY ONLY <2>2, <1>7, <1>9, ZenonT(60)
<1>11. ASSUME NEW a \in DOMAIN U
       PROVE  X[a] = U[a]
  <2>1. a \in DOMAIN T /\ a \in DOMAIN X
    BY ONLY <1>7, <1>10, <1>11, ZenonT(60)
  <2>2. X[a] = [authorize |-> a \notin S, votes |-> Cardinality(On(V, a)) - Cardinality(On(W, a))]
    BY ONLY <2>1, <1>5, <1>8, <1>9a, SMTT(60)
  <2> QED BY ONLY <2>2, <1>3, <1>6, <1>11, ZenonT(60)
<1> QED BY <1>1, <1>9b, <1>10, <1>11 DEF T, U, X

\* A vote that is cast is counted.
LEMMA TallyVote ==
  ASSUME NEW V, NEW S, ValidVotes(V, S), NEW vote, vote \notin V,
         vote.signer \in S, vote.address \in Account, vote.authorize = (vote.address \notin S),
         NEW T, T = TallyOf(V, S)
  PROVE  LET a == vote.address
             t == [authorize |-> IF a \in DOMAIN T THEN T[a].authorize ELSE vote.authorize,
                   votes |-> (IF a \in DOMAIN T THEN T[a].votes ELSE 0) + 1]
         IN  /\ With(T, a, t) = TallyOf(V \cup {vote}, S)
             /\ ValidVotes(V \cup {vote}, S)
<1> DEFINE a == vote.address
           t == [authorize |-> IF a \in DOMAIN T THEN T[a].authorize ELSE vote.authorize,
                 votes |-> (IF a \in DOMAIN T THEN T[a].votes ELSE 0) + 1]
           Z == V \cup {vote}
           U == TallyOf(Z, S)
<1>1. IsFiniteSet(V) /\ IsFiniteSet(Z)
  BY FS_AddElement DEF ValidVotes
<1>2. ValidVotes(Z, S)
  BY <1>1 DEF ValidVotes
<1>3. On(Z, a) = On(V, a) \cup {vote} /\ vote \notin On(V, a)
  BY DEF On
<1>4. \A b : b # a => On(Z, b) = On(V, b)
  BY DEF On
<1>5. /\ IsFiniteSet(On(V, a)) /\ Cardinality(On(V, a)) \in Nat
      /\ Cardinality(On(V, a)) = 0 <=> On(V, a) = {}
  BY ONLY <1>1, TallyEntry, ZenonT(60)
<1>6. Cardinality(On(Z, a)) = Cardinality(On(V, a)) + 1
  BY ONLY <1>3, <1>5, FS_AddElement, ZenonT(60)
<1>7. \A b \in DOMAIN T : T[b] = [authorize |-> b \notin S, votes |-> Cardinality(On(V, b))]
  BY DEF TallyOf
<1>7a. a \in DOMAIN T <=> On(V, a) # {}
  BY ONLY <1>1, TallyEntry, T = TallyOf(V, S), ZenonT(60)
<1>8. \A b \in DOMAIN U : U[b] = [authorize |-> b \notin S, votes |-> Cardinality(On(Z, b))]
  BY DEF TallyOf
<1>9. DOMAIN U = DOMAIN T \cup {a}
  <2>1. DOMAIN T = {v.address : v \in V} /\ DOMAIN U = {v.address : v \in Z}
    BY ONLY <1>1, TallyEntry, T = TallyOf(V, S), ZenonT(60)
  <2> QED BY ONLY <2>1, ZenonT(60)
<1>10. t = [authorize |-> a \notin S, votes |-> Cardinality(On(V, a)) + 1]
  <2>1. CASE a \in DOMAIN T
    <3>1. T[a].authorize = (a \notin S) /\ T[a].votes = Cardinality(On(V, a))
      BY ONLY <2>1, <1>7, SMTT(60)
    <3> QED BY ONLY <2>1, <3>1, ZenonT(60)
  <2>2. CASE a \notin DOMAIN T
    <3>1. Cardinality(On(V, a)) = 0 /\ vote.authorize = (a \notin S)
      BY ONLY <2>2, <1>5, <1>7a, vote.authorize = (vote.address \notin S), ZenonT(60)
    <3> QED BY ONLY <2>2, <3>1, ZenonT(60)
  <2> QED BY ONLY <2>1, <2>2, ZenonT(60)
<1>11. U = [b \in DOMAIN U |-> U[b]]
  BY DEF TallyOf
<1> HIDE DEF U, t
<1>12. ASSUME NEW b \in DOMAIN U
       PROVE  U[b] = IF b = a THEN t ELSE T[b]
  BY ONLY <1>4, <1>6, <1>7, <1>8, <1>9, <1>10, <1>12, ZenonT(60)
<1>13. With(T, a, t) = U
  BY ONLY <1>9, <1>11, <1>12, ZenonT(60) DEF With
<1> QED BY <1>2, <1>13 DEF U, t

\* An account that has changed has no votes and no entry any more.
LEMMA TallyWithout ==
  ASSUME NEW V, NEW S, ValidVotes(V, S), NEW a, NEW R,
         \A b \in Account : b # a => (b \in S <=> b \in R),
         \A v \in V : v.signer \in R
  PROVE  LET W == {v \in V : v.address # a}
         IN  /\ Restrict(TallyOf(V, S), DOMAIN TallyOf(V, S) \ {a}) = TallyOf(W, R)
             /\ ValidVotes(W, R)
<1> DEFINE W == {v \in V : v.address # a}
           T == TallyOf(V, S)
           U == TallyOf(W, R)
<1>1. IsFiniteSet(V) /\ IsFiniteSet(W)
  BY FS_Subset DEF ValidVotes
<1>2. ValidVotes(W, R)
  <2>1. \A v \in W : v.address \in Account /\ v.address # a /\ v.authorize = (v.address \notin S)
    BY DEF ValidVotes
  <2>2. \A v \in W : (v.address \notin S) = (v.address \notin R)
    BY <2>1
  <2> QED BY <1>1, <2>1, <2>2 DEF ValidVotes
<1>3. DOMAIN U = DOMAIN T \ {a}
  BY DEF TallyOf
<1>4. \A b : b # a => On(W, b) = On(V, b)
  BY DEF On
<1>5. /\ \A b \in DOMAIN T : T[b] = [authorize |-> b \notin S, votes |-> Cardinality(On(V, b))]
      /\ \A b \in DOMAIN U : U[b] = [authorize |-> b \notin R, votes |-> Cardinality(On(W, b))]
  BY DEF TallyOf
<1>6. \A b \in DOMAIN U : b \in Account /\ b # a
  BY DEF TallyOf, ValidVotes
<1>7. U = [b \in DOMAIN U |-> U[b]]
  BY DEF TallyOf
<1> HIDE DEF T, U, W
<1>8. ASSUME NEW b \in DOMAIN U
      PROVE  U[b] = T[b]
  <2>1. b \in DOMAIN T /\ (b \notin S) = (b \notin R) /\ On(W, b) = On(V, b)
    BY <1>3, <1>4, <1>6, <1>8
  <2> QED BY ONLY <2>1, <1>5, <1>8, ZenonT(60)
<1>9. Restrict(T, DOMAIN T \ {a}) = U
  BY ONLY <1>3, <1>7, <1>8, ZenonT(60) DEF Restrict
<1> QED BY <1>2, <1>9 DEF T, U, W

-----------------------------------------------------------------------------
(* The operations on a snapshot *)

IsSnap(s) ==
  s = [Number |-> s.Number, Start |-> s.Start, Signers |-> s.Signers,
       Recents |-> s.Recents, Votes |-> s.Votes, Tally |-> s.Tally]

\* The tally counts the votes, and the votes are valid.
Counted(s) ==
  /\ IsSnap(s)
  /\ s.Signers \in SUBSET Account
  /\ ValidVotes(s.Votes, s.Signers)
  /\ s.Tally = TallyOf(s.Votes, s.Signers)

\* The vote of a header that a signer makes
GoodVote(s, vote) ==
  /\ vote.signer \in s.Signers
  /\ vote.address \in Account \cup {Nobody}
  /\ vote.authorize \in BOOLEAN
  /\ vote.address = Nobody => ~vote.authorize

\* t is s but for its votes, their tally and the signers
SameBlocks(s, t) == t.Number = s.Number /\ t.Start = s.Start /\ t.Recents = s.Recents

\* Without votes there is no tally.
LEMMA EmptyVotes ==
  ASSUME NEW S
  PROVE  ValidVotes({}, S) /\ TallyOf({}, S) = EmptyTally
<1>1. ValidVotes({}, S)
  BY FS_EmptySet DEF ValidVotes
<1>2. TallyOf({}, S) = EmptyTally
  BY DEF TallyOf, EmptyTally
<1> QED BY <1>1, <1>2

\* A checkpoint drops votes and tally together.
LEMMA DropVotesCounted ==
  ASSUME NEW s, Counted(s), NEW n
  PROVE  LET t == dropVotes(s, n)
         IN  /\ Counted(t) /\ SameBlocks(s, t) /\ t.Signers = s.Signers
             /\ t.Votes = IF n % Epoch # 0 THEN s.Votes ELSE {}
<1> DEFINE t == dropVotes(s, n)
<1>1. CASE n % Epoch # 0
  BY <1>1 DEF dropVotes, SameBlocks
<1>2. CASE n % Epoch = 0
  <2>1. t = [s EXCEPT !.Votes = {}, !.Tally = EmptyTally]
    BY <1>2 DEF dropVotes
  <2>2. /\ IsSnap(t) /\ SameBlocks(s, t) /\ t.Signers = s.Signers
        /\ t.Votes = {} /\ t.Tally = EmptyTally
    BY <2>1 DEF Counted, IsSnap, SameBlocks
  <2> QED BY <1>2, <2>2, EmptyVotes DEF Counted
<1> QED BY <1>1, <1>2

\* uncast takes votes out of the list and the tally.
LEMMA UncastFields ==
  ASSUME NEW s, IsSnap(s), NEW W
  PROVE  LET t == uncast(s, W)
         IN  /\ IsSnap(t) /\ SameBlocks(s, t) /\ t.Signers = s.Signers
             /\ t.Votes = s.Votes \ W /\ t.Tally = Untally(s.Tally, W)
<1> DEFINE T == Untally(s.Tally, W)
<1>1. uncast(s, W) = [s EXCEPT !.Votes = @ \ W, !.Tally = T]
  BY DEF uncast, Untally, CountedOn, IsSnap
<1> HIDE DEF T
<1>2. /\ IsSnap(uncast(s, W)) /\ SameBlocks(s, uncast(s, W)) /\ uncast(s, W).Signers = s.Signers
      /\ uncast(s, W).Votes = s.Votes \ W /\ uncast(s, W).Tally = T
  BY <1>1 DEF IsSnap, SameBlocks
<1> QED BY <1>2 DEF T

\* A signer's new vote replaces the old one, in the list and in the tally.
LEMMA CountVoteCounted ==
  ASSUME NEW s, Counted(s), NEW vote, GoodVote(s, vote)
  PROVE  LET t == countVote(s, vote)
         IN  /\ Counted(t) /\ SameBlocks(s, t) /\ t.Signers = s.Signers
             /\ t.Votes = {v \in s.Votes : v.signer # vote.signer \/ v.address # vote.address}
                            \cup {v \in {vote} : validVote(s, vote.address, vote.authorize)}
<1> DEFINE a == vote.address
           W == {v \in s.Votes : v.signer = vote.signer /\ v.address = a}
           L == {v \in s.Votes : v.signer # vote.signer \/ v.address # a}
           u == uncast(s, W)
           t == cast(u, vote)
<1>1. countVote(s, vote) = t
  BY DEF countVote
<1>2. W \in SUBSET s.Votes /\ s.Votes \ W = L
  OBVIOUS
<1>3. /\ IsSnap(u) /\ SameBlocks(s, u) /\ u.Signers = s.Signers
      /\ u.Votes = s.Votes \ W /\ u.Tally = Untally(s.Tally, W)
  BY UncastFields DEF Counted
<1> HIDE DEF W, u
<1>4. u.Votes = L /\ ValidVotes(L, s.Signers) /\ u.Tally = TallyOf(L, s.Signers)
  <2>1. Untally(TallyOf(s.Votes, s.Signers), W) = TallyOf(s.Votes \ W, s.Signers)
        /\ ValidVotes(s.Votes \ W, s.Signers)
    BY <1>2, UntallyVotes DEF Counted
  <2> QED BY <1>2, <1>3, <2>1 DEF Counted
<1>5. validVote(u, a, vote.authorize) = validVote(s, a, vote.authorize)
  BY <1>3 DEF validVote
<1>6. vote \notin L
  OBVIOUS
<1> HIDE DEF L
<1>7. CASE ~validVote(s, a, vote.authorize)
  <2>1. t = u
    BY <1>5, <1>7 DEF cast
  <2>2. {v \in {vote} : validVote(s, a, vote.authorize)} = {}
    BY <1>7
  <2> QED BY <1>1, <1>3, <1>4, <2>1, <2>2 DEF Counted, L
<1>8. CASE validVote(s, a, vote.authorize)
  <2> DEFINE e == [authorize |-> IF a \in DOMAIN u.Tally THEN u.Tally[a].authorize ELSE vote.authorize,
                   votes |-> (IF a \in DOMAIN u.Tally THEN u.Tally[a].votes ELSE 0) + 1]
  <2>1. t = [u EXCEPT !.Votes = @ \cup {vote}, !.Tally = With(@, a, e)]
    BY <1>5, <1>8 DEF cast, tallied
  <2>2. a \in Account /\ vote.authorize = (a \notin s.Signers)
    <3>1. (a \in s.Signers) # vote.authorize
      BY <1>8 DEF validVote
    <3>2. vote.authorize = (a \notin s.Signers)
      BY <3>1, SMTT(60) DEF GoodVote
    <3>3. a # Nobody
      BY <3>1, AccountAssumption, SMTT(60) DEF GoodVote, Counted
    <3> QED BY <3>2, <3>3 DEF GoodVote
  <2>3. vote.signer \in s.Signers
    BY DEF GoodVote
  <2>4. With(u.Tally, a, e) = TallyOf(L \cup {vote}, s.Signers) /\ ValidVotes(L \cup {vote}, s.Signers)
    BY ONLY <1>4, <1>6, <2>2, <2>3, TallyVote, SMTT(60)
  <2> HIDE DEF e
  <2>5. /\ IsSnap(t) /\ SameBlocks(u, t) /\ t.Signers = u.Signers
        /\ t.Votes = u.Votes \cup {vote} /\ t.Tally = With(u.Tally, a, e)
    BY ONLY <2>1, <1>3, ZenonT(60) DEF IsSnap, SameBlocks
  <2>6. {v \in {vote} : validVote(s, a, vote.authorize)} = {vote}
    BY <1>8
  <2>7. SameBlocks(s, t)
    BY ONLY <2>5, <1>3, ZenonT(60) DEF SameBlocks
  <2> HIDE DEF t
  <2>8. Counted(t)
    BY <1>3, <1>4, <2>4, <2>5 DEF Counted
  <2> QED BY <1>1, <1>3, <1>4, <2>5, <2>6, <2>7, <2>8 DEF L
<1> QED BY <1>7, <1>8

\* A signer is dropped, another account is added.
Flip(S, a) == IF a \in S THEN S \ {a} ELSE S \cup {a}

\* The votes of the signers in S on other accounts
Others(V, a, S) == {v \in V : v.address # a /\ v.signer \in S}

\* A change of the signers takes out every vote that has lost its meaning.
LEMMA ChangeSignersCounted ==
  ASSUME NEW s, Counted(s), NEW a, a \in DOMAIN s.Tally
  PROVE  LET t == changeSigners(s, a)
         IN  /\ Counted(t) /\ SameBlocks(s, t)
             /\ t.Signers = Flip(s.Signers, a)
             /\ t.Votes = Others(s.Votes, a, t.Signers)
<1> DEFINE S == s.Signers
           R == IF a \in S THEN S \ {a} ELSE S \cup {a}
           V == IF a \in S THEN {v \in s.Votes : v.signer # a} ELSE s.Votes
           c == IF s.Tally[a].authorize THEN [s EXCEPT !.Signers = @ \cup {a}]
                ELSE uncast([s EXCEPT !.Signers = @ \ {a}], {v \in s.Votes : v.signer = a})
           t == changeSigners(s, a)
<1>1. s.Tally[a].authorize = (a \notin S)
  BY SMTT(60) DEF Counted, TallyOf
<1>2. a \in Account
  BY SMTT(60) DEF Counted, TallyOf, ValidVotes
<1>3. t = [c EXCEPT !.Votes = {v \in @ : v.address # a}, !.Tally = Restrict(@, DOMAIN @ \ {a})]
  BY DEF changeSigners
<1>4. /\ IsSnap(c) /\ SameBlocks(s, c) /\ c.Signers = R
      /\ c.Votes = V /\ c.Tally = TallyOf(V, S) /\ ValidVotes(V, S)
  <2>1. CASE a \notin S
    <3>1. c = [s EXCEPT !.Signers = @ \cup {a}]
      BY <1>1, <2>1
    <3> QED BY <2>1, <3>1 DEF Counted, IsSnap, SameBlocks
  <2>2. CASE a \in S
    <3> DEFINE u == [s EXCEPT !.Signers = @ \ {a}]
               W == {v \in s.Votes : v.signer = a}
    <3>1. /\ IsSnap(u) /\ SameBlocks(s, u) /\ u.Signers = S \ {a} /\ u.Votes = s.Votes
          /\ u.Tally = s.Tally
      BY SMTT(60) DEF Counted, IsSnap, SameBlocks
    <3>2. c = uncast(u, W)
      BY <1>1, <2>2
    <3>3. W \in SUBSET s.Votes /\ s.Votes \ W = V
      BY <2>2
    <3> HIDE DEF u, W, c
    <3>4. /\ IsSnap(c) /\ SameBlocks(u, c) /\ c.Signers = u.Signers
          /\ c.Votes = u.Votes \ W /\ c.Tally = Untally(u.Tally, W)
      BY ONLY <3>1, <3>2, UncastFields, SMTT(60)
    <3>5. Untally(TallyOf(s.Votes, S), W) = TallyOf(V, S) /\ ValidVotes(V, S)
      <4>1. Untally(TallyOf(s.Votes, S), W) = TallyOf(s.Votes \ W, S) /\ ValidVotes(s.Votes \ W, S)
        BY <3>3, UntallyVotes DEF Counted
      <4> QED BY ONLY <3>3, <4>1, ZenonT(60)
    <3>6. SameBlocks(s, c)
      BY ONLY <3>1, <3>4, ZenonT(60) DEF SameBlocks
    <3>7. s.Tally = TallyOf(s.Votes, S) /\ R = S \ {a}
      BY <2>2 DEF Counted
    <3> QED BY ONLY <3>1, <3>3, <3>4, <3>5, <3>6, <3>7, ZenonT(60)
  <2> QED BY <2>1, <2>2
<1> DEFINE X == {v \in V : v.address # a}
           Y == Restrict(TallyOf(V, S), DOMAIN TallyOf(V, S) \ {a})
<1>5. Y = TallyOf(X, R) /\ ValidVotes(X, R)
  <2>1. \A b \in Account : b # a => (b \in S <=> b \in R)
    OBVIOUS
  <2>2. \A v \in V : v.signer \in R
    BY DEF Counted, ValidVotes
  <2> HIDE DEF R, V
  <2>3. ValidVotes(V, S)
    BY ONLY <1>4, ZenonT(60)
  <2> HIDE DEF S
  <2> QED BY ONLY <2>1, <2>2, <2>3, TallyWithout, ZenonT(60)
<1>6. X = {v \in s.Votes : v.address # a /\ v.signer \in R}
  <2>1. \A v \in s.Votes : v.signer \in S
    BY DEF Counted, ValidVotes
  <2>2. CASE a \in S
    BY ONLY <2>1, <2>2, ZenonT(60)
  <2>3. CASE a \notin S
    BY ONLY <2>1, <2>3, ZenonT(60)
  <2> QED BY ONLY <2>2, <2>3, ZenonT(60)
<1>7. R \in SUBSET Account
  BY <1>2 DEF Counted
<1> HIDE DEF c, R, V
<1>8. /\ IsSnap(t) /\ SameBlocks(c, t) /\ t.Signers = c.Signers
      /\ t.Votes = {v \in c.Votes : v.address # a}
      /\ t.Tally = Restrict(c.Tally, DOMAIN c.Tally \ {a})
  BY ONLY <1>3, <1>4, ZenonT(60) DEF IsSnap, SameBlocks
<1> HIDE DEF t
<1>9. SameBlocks(s, t) /\ t.Signers = R /\ t.Votes = X /\ t.Tally = Y
  BY ONLY <1>4, <1>8, ZenonT(60) DEF SameBlocks
<1> HIDE DEF X, Y
<1>10. Counted(t)
  BY ONLY <1>5, <1>7, <1>8, <1>9, ZenonT(60) DEF Counted
<1>11. t.Votes = {v \in s.Votes : v.address # a /\ v.signer \in t.Signers}
  BY ONLY <1>6, <1>9, ZenonT(60)
<1> QED BY ONLY <1>9, <1>10, <1>11, ZenonT(60) DEF t, R, S, Flip, Others

-----------------------------------------------------------------------------
(* Applying a header *)

\* The votes when that of the header is counted
VotesHeard(s, vote) ==
  {v \in (IF (s.Number + 1) % Epoch # 0 THEN s.Votes ELSE {}) :
     v.signer # vote.signer \/ v.address # vote.address}
    \cup {v \in {vote} : validVote(s, vote.address, vote.authorize)}

Major(V, S, a) == 2 * Cardinality(On(V, a)) > Cardinality(S)

SignersAfter(V, S, a) ==
  IF Major(V, S, a) THEN Flip(S, a) ELSE S

VotesAfter(V, S, a) ==
  IF Major(V, S, a) THEN Others(V, a, SignersAfter(V, S, a)) ELSE V

\* Every set of signers is finite.
LEMMA FiniteSigners ==
  ASSUME NEW S \in SUBSET Account
  PROVE  IsFiniteSet(S) /\ Cardinality(S) \in Nat
BY AccountAssumption, FS_Subset, FS_CardinalityType

\* The test of apply is for more than half of the signers.
LEMMA PassedIsMajor ==
  ASSUME NEW c, Counted(c), NEW a
  PROVE  /\ passed(c, a) <=> Major(c.Votes, c.Signers, a)
         /\ passed(c, a) => a \in DOMAIN c.Tally
<1>1. IsFiniteSet(c.Votes) /\ c.Tally = TallyOf(c.Votes, c.Signers)
  BY DEF Counted, ValidVotes
<1>2. /\ a \in DOMAIN c.Tally <=> On(c.Votes, a) # {}
      /\ Cardinality(On(c.Votes, a)) \in Nat
      /\ Cardinality(On(c.Votes, a)) = 0 <=> On(c.Votes, a) = {}
  BY ONLY <1>1, TallyEntry, ZenonT(60)
<1>3. a \in DOMAIN c.Tally => c.Tally[a].votes = Cardinality(On(c.Votes, a))
  BY ONLY <1>1, SMTT(60) DEF TallyOf
<1>4. tallied(c, a) = Cardinality(On(c.Votes, a))
  BY ONLY <1>2, <1>3, ZenonT(60) DEF tallied
<1>5. Cardinality(c.Signers) \in Nat
  BY FiniteSigners DEF Counted
<1>6. \A n, m \in Nat : n > m \div 2 <=> 2 * n > m
  BY SMTT(60)
<1>7. passed(c, a) => tallied(c, a) # 0
  BY ONLY <1>4, <1>5, SMTT(60) DEF passed
<1> QED BY ONLY <1>2, <1>4, <1>5, <1>6, <1>7, ZenonT(60) DEF passed, Major

\* Counting a vote and changing the signers, in both engines.
LEMMA CountAndChange ==
  ASSUME NEW s, Counted(s), NEW vote, GoodVote(s, vote)
  PROVE  LET c == countVote(s, vote)
             t == IF passed(c, vote.address) THEN changeSigners(c, vote.address) ELSE c
             V == {v \in s.Votes : v.signer # vote.signer \/ v.address # vote.address}
                    \cup {v \in {vote} : validVote(s, vote.address, vote.authorize)}
         IN  /\ Counted(t) /\ SameBlocks(s, t)
             /\ t.Signers = SignersAfter(V, s.Signers, vote.address)
             /\ t.Votes = VotesAfter(V, s.Signers, vote.address)
<1> DEFINE c == countVote(s, vote)
           a == vote.address
           t == IF passed(c, a) THEN changeSigners(c, a) ELSE c
           V == {v \in s.Votes : v.signer # vote.signer \/ v.address # vote.address}
                  \cup {v \in {vote} : validVote(s, vote.address, vote.authorize)}
<1>1. Counted(c) /\ SameBlocks(s, c) /\ c.Signers = s.Signers /\ c.Votes = V
  BY CountVoteCounted
<1> HIDE DEF c, V
<1>2. passed(c, a) <=> Major(V, s.Signers, a)
  BY ONLY <1>1, PassedIsMajor, ZenonT(60)
<1>3. CASE ~passed(c, a)
  <2>1. t = c
    BY <1>3
  <2> QED BY ONLY <1>1, <1>2, <1>3, <2>1, ZenonT(60) DEF SignersAfter, VotesAfter, c, V
<1>4. CASE passed(c, a)
  <2>1. a \in DOMAIN c.Tally
    BY ONLY <1>1, <1>4, PassedIsMajor, ZenonT(60)
  <2>2. t = changeSigners(c, a)
    BY <1>4
  <2> HIDE DEF t
  <2>3. /\ Counted(t) /\ SameBlocks(c, t)
        /\ t.Signers = Flip(c.Signers, a)
        /\ t.Votes = Others(c.Votes, a, t.Signers)
    <3>1. Counted(c) /\ a \in DOMAIN c.Tally
      BY ONLY <1>1, <2>1, ZenonT(60)
    <3> QED BY ONLY <3>1, <2>2, ChangeSignersCounted, ZenonT(60)
  <2>4. SameBlocks(s, t)
    BY ONLY <1>1, <2>3, ZenonT(60) DEF SameBlocks
  <2>5. t.Signers = SignersAfter(V, s.Signers, a)
    BY ONLY <1>1, <1>2, <1>4, <2>3, ZenonT(60) DEF SignersAfter
  <2>6. t.Votes = VotesAfter(V, s.Signers, a)
    BY ONLY <1>1, <1>2, <1>4, <2>3, <2>5, ZenonT(60) DEF VotesAfter
  <2> QED BY ONLY <2>3, <2>4, <2>5, <2>6, ZenonT(60) DEF t, c, V
<1> QED BY <1>3, <1>4

\* The number of a block is apart from the votes.
LEMMA OtherNumber ==
  ASSUME NEW s, Counted(s), NEW x, NEW t, t = [s EXCEPT !.Number = x]
  PROVE  /\ Counted(t) /\ t.Number = x /\ t.Start = s.Start /\ t.Recents = s.Recents
         /\ t.Signers = s.Signers /\ t.Votes = s.Votes
<1>1. /\ IsSnap(t) /\ t.Number = x /\ t.Start = s.Start /\ t.Recents = s.Recents
      /\ t.Signers = s.Signers /\ t.Votes = s.Votes /\ t.Tally = s.Tally
  BY DEF Counted, IsSnap
<1> QED BY ONLY <1>1, Counted(s), ZenonT(60) DEF Counted

\* The recent blocks are apart from the votes.
LEMMA OtherRecents ==
  ASSUME NEW s, Counted(s), NEW x, NEW t, t = [s EXCEPT !.Recents = x]
  PROVE  /\ Counted(t) /\ t.Number = s.Number /\ t.Start = s.Start /\ t.Recents = x
         /\ t.Signers = s.Signers /\ t.Votes = s.Votes
<1>1. /\ IsSnap(t) /\ t.Number = s.Number /\ t.Start = s.Start /\ t.Recents = x
      /\ t.Signers = s.Signers /\ t.Votes = s.Votes /\ t.Tally = s.Tally
  BY DEF Counted, IsSnap
<1> QED BY ONLY <1>1, Counted(s), ZenonT(60) DEF Counted

\* What one header does in Istanbul.
LEMMA IstanbulApplied ==
  ASSUME NEW s, Counted(s), NEW vote, GoodVote(s, vote)
  PROVE  LET t == istanbulApply(s, vote)
             V == VotesHeard(s, vote)
         IN  /\ Counted(t) /\ t.Number = s.Number + 1
             /\ t.Signers = SignersAfter(V, s.Signers, vote.address)
             /\ t.Votes = VotesAfter(V, s.Signers, vote.address)
<1> DEFINE n == s.Number + 1
           d == dropVotes(s, n)
           c == countVote(d, vote)
           h == IF passed(c, vote.address) THEN changeSigners(c, vote.address) ELSE c
           V == {v \in d.Votes : v.signer # vote.signer \/ v.address # vote.address}
                    \cup {v \in {vote} : validVote(d, vote.address, vote.authorize)}
<1>1. istanbulApply(s, vote) = [h EXCEPT !.Number = n]
  BY DEF istanbulApply
<1>2. /\ Counted(d) /\ SameBlocks(s, d) /\ d.Signers = s.Signers
      /\ d.Votes = IF n % Epoch # 0 THEN s.Votes ELSE {}
  BY DropVotesCounted
<1> HIDE DEF d
<1>3. GoodVote(d, vote) /\ V = VotesHeard(s, vote)
  BY <1>2 DEF GoodVote, VotesHeard, validVote
<1>4. /\ Counted(h) /\ h.Signers = SignersAfter(V, d.Signers, vote.address)
      /\ h.Votes = VotesAfter(V, d.Signers, vote.address)
  BY ONLY <1>2, <1>3, CountAndChange, ZenonT(60)
<1> HIDE DEF h, V
<1>5. /\ Counted(istanbulApply(s, vote)) /\ istanbulApply(s, vote).Number = n
      /\ istanbulApply(s, vote).Signers = h.Signers /\ istanbulApply(s, vote).Votes = h.Votes
  BY ONLY <1>1, <1>4, OtherNumber, SMTT(60)
<1> QED BY ONLY <1>2, <1>3, <1>4, <1>5, ZenonT(60)

\* The recent blocks of s after a header that makes it t
RecentsAfter(s, t, vote) ==
  LET n == s.Number + 1
      kept == (DOMAIN s.Recents \ {n - limit(s)}) \cup {n}
      small == Cardinality(t.Signers) < Cardinality(s.Signers)
  IN  [b \in IF small THEN kept \ {n - limit(t)} ELSE kept |->
         IF b = n THEN vote.signer ELSE s.Recents[b]]

\* What one header does in Clique.
LEMMA CliqueApplied ==
  ASSUME NEW s, Counted(s), NEW vote, GoodVote(s, vote)
  PROVE  LET t == cliqueApply(s, vote)
             V == VotesHeard(s, vote)
         IN  /\ Counted(t) /\ t.Number = s.Number + 1 /\ t.Start = s.Start
             /\ t.Signers = SignersAfter(V, s.Signers, vote.address)
             /\ t.Votes = VotesAfter(V, s.Signers, vote.address)
             /\ t.Recents = RecentsAfter(s, t, vote)
<1> DEFINE n == s.Number + 1
           d == dropVotes(s, n)
           R1 == Restrict(d.Recents, DOMAIN d.Recents \ {n - limit(d)})
           e == [d EXCEPT !.Recents = R1]
           R2 == With(e.Recents, n, vote.signer)
           r == [e EXCEPT !.Recents = R2]
           c == countVote(r, vote)
           h == IF passed(c, vote.address) THEN changeSigners(c, vote.address) ELSE c
           V == {v \in r.Votes : v.signer # vote.signer \/ v.address # vote.address}
                    \cup {v \in {vote} : validVote(r, vote.address, vote.authorize)}
           R3 == Restrict(h.Recents, DOMAIN h.Recents \ {n - limit(h)})
           g == IF Cardinality(h.Signers) < Cardinality(s.Signers)
                THEN [h EXCEPT !.Recents = R3] ELSE h
           t == cliqueApply(s, vote)
           kept == (DOMAIN s.Recents \ {n - limit(s)}) \cup {n}
           W == VotesHeard(s, vote)
<1>1. t = [g EXCEPT !.Number = n]
  <2>1. /\ deleteRecent(d, n) = e
        /\ [deleteRecent(d, n) EXCEPT !.Recents = With(@, n, vote.signer)] = r
    <3>1. deleteRecent(d, n) = e
      BY DEF deleteRecent
    <3> QED BY ONLY <3>1, ZenonT(60)
  <2>2. deleteRecent(h, n) = [h EXCEPT !.Recents = R3]
    BY DEF deleteRecent
  <2> QED BY <2>1, <2>2 DEF cliqueApply
<1>2. /\ Counted(d) /\ SameBlocks(s, d) /\ d.Signers = s.Signers
      /\ d.Votes = IF n % Epoch # 0 THEN s.Votes ELSE {}
  BY DropVotesCounted
<1> HIDE DEF t, g, R3, d
<1>3. /\ Counted(e) /\ e.Number = s.Number /\ e.Start = s.Start /\ e.Recents = R1
      /\ e.Signers = s.Signers /\ e.Votes = d.Votes
  BY ONLY <1>2, OtherRecents, SMTT(60) DEF SameBlocks
<1> HIDE DEF e, R1
<1>4. /\ Counted(r) /\ r.Number = s.Number /\ r.Start = s.Start /\ r.Recents = R2
      /\ r.Signers = s.Signers /\ r.Votes = d.Votes
  BY ONLY <1>3, OtherRecents, SMTT(60)
<1> HIDE DEF r, R2
<1>5. GoodVote(r, vote) /\ V = W
  BY <1>2, <1>4 DEF GoodVote, VotesHeard, validVote
<1>6. /\ Counted(h) /\ SameBlocks(r, h)
      /\ h.Signers = SignersAfter(V, r.Signers, vote.address)
      /\ h.Votes = VotesAfter(V, r.Signers, vote.address)
  BY ONLY <1>4, <1>5, CountAndChange, ZenonT(60)
<1> HIDE DEF h, V, W
<1>7. /\ Counted(g) /\ g.Number = h.Number /\ g.Start = h.Start
      /\ g.Signers = h.Signers /\ g.Votes = h.Votes
      /\ g.Recents = IF Cardinality(h.Signers) < Cardinality(s.Signers) THEN R3 ELSE h.Recents
  BY ONLY <1>6, OtherRecents, SMTT(60) DEF g
<1>8. /\ Counted(t) /\ t.Number = n /\ t.Start = g.Start
      /\ t.Signers = g.Signers /\ t.Votes = g.Votes /\ t.Recents = g.Recents
  BY ONLY <1>1, <1>7, OtherNumber, SMTT(60)
<1>9. R2 = [b \in kept |-> IF b = n THEN vote.signer ELSE s.Recents[b]]
  <2>1. limit(d) = limit(s) /\ d.Recents = s.Recents
    BY ONLY <1>2, ZenonT(60) DEF limit, SameBlocks
  <2>2. e.Recents = [b \in DOMAIN s.Recents \ {n - limit(s)} |-> s.Recents[b]]
    BY ONLY <2>1, <1>3, ZenonT(60) DEF R1, Restrict
  <2> QED BY ONLY <2>2, ZenonT(60) DEF R2, With
<1>10. h.Recents = R2 /\ limit(h) = limit(t)
  BY ONLY <1>4, <1>6, <1>7, <1>8, ZenonT(60) DEF SameBlocks, limit
<1>11. R3 = [b \in kept \ {n - limit(t)} |-> IF b = n THEN vote.signer ELSE s.Recents[b]]
  BY ONLY <1>9, <1>10, ZenonT(60) DEF R3, Restrict
<1>12. t.Recents = [b \in IF Cardinality(t.Signers) < Cardinality(s.Signers)
                           THEN kept \ {n - limit(t)} ELSE kept |->
                      IF b = n THEN vote.signer ELSE s.Recents[b]]
  <2>1. t.Recents = IF Cardinality(t.Signers) < Cardinality(s.Signers) THEN R3 ELSE R2
    BY ONLY <1>7, <1>8, <1>10, ZenonT(60)
  <2>2. CASE Cardinality(t.Signers) < Cardinality(s.Signers)
    BY ONLY <2>1, <2>2, <1>11, ZenonT(60)
  <2>3. CASE ~(Cardinality(t.Signers) < Cardinality(s.Signers))
    BY ONLY <2>1, <2>3, <1>9, ZenonT(60)
  <2> QED BY ONLY <2>2, <2>3, ZenonT(60)
<1>13. /\ Counted(t) /\ t.Number = n /\ t.Start = s.Start
       /\ t.Signers = SignersAfter(W, s.Signers, vote.address)
       /\ t.Votes = VotesAfter(W, s.Signers, vote.address)
  BY ONLY <1>4, <1>5, <1>6, <1>7, <1>8, ZenonT(60) DEF SameBlocks
<1> QED BY ONLY <1>12, <1>13, ZenonT(60) DEF t, W, RecentsAfter

-----------------------------------------------------------------------------
(* The invariant *)

\* The recent blocks are those that still keep their signers waiting.
RecentOK(s) ==
  /\ s.Number \in Nat
  /\ s.Recents = [b \in DOMAIN s.Recents |-> s.Recents[b]]
  /\ \A b \in DOMAIN s.Recents : b \in Nat /\ 0 < b /\ b <= s.Number /\ b > s.Number - limit(s)

\* The node that started at a checkpoint has what the other one has since then.
LateOK ==
  /\ engine = "clique"
  /\ Counted(late)
  /\ late.Number = snap.Number
  /\ late.Start \in Nat /\ 0 < late.Start /\ late.Start <= late.Number
  /\ late.Signers = snap.Signers /\ late.Votes = snap.Votes
  /\ late.Recents = Restrict(snap.Recents, {b \in DOMAIN snap.Recents : b > late.Start})

SnapInv ==
  /\ engine \in {"clique", "istanbul"}
  /\ Counted(snap) /\ snap.Number \in Nat
  /\ snap.Votes = Standing(snap)
  /\ engine = "clique" => RecentOK(snap)
  /\ engine = "clique" /\ snap.Number % Epoch = 0 => snap.Votes = {} /\ extra = snap.Signers
  /\ late # NoSnapshot => LateOK

\* The votes that are counted are those the signers ask for.
LEMMA HeardIsSaid ==
  ASSUME SnapInv, NEW vote, GoodVote(snap, vote)
  PROVE  /\ VotesHeard(snap, vote) = Said(vote)
         /\ \A v \in Said(vote) : /\ v.signer \in snap.Signers
                                  /\ v.authorize = (v.address \notin snap.Signers)
<1>1. (snap.Number + 1) % Epoch = 0 \/ (snap.Number + 1) % Epoch # 0
  OBVIOUS
<1>2. validVote(snap, vote.address, vote.authorize) => vote.address # Nobody
  BY AccountAssumption, SMTT(60) DEF validVote, GoodVote, SnapInv, Counted
<1>3. snap.Votes = Standing(snap)
  BY DEF SnapInv
<1>4. VotesHeard(snap, vote) = Said(vote)
  BY ONLY <1>2, <1>3, ZenonT(60) DEF VotesHeard, Said
<1>5. \A v \in snap.Votes : v.signer \in snap.Signers /\ v.authorize = (v.address \notin snap.Signers)
  BY DEF SnapInv, Counted, ValidVotes
<1>6. validVote(snap, vote.address, vote.authorize) =>
        vote.signer \in snap.Signers /\ vote.authorize = (vote.address \notin snap.Signers)
  BY SMTT(60) DEF validVote, GoodVote
<1>7. \A v \in VotesHeard(snap, vote) : v \in snap.Votes \/ (v = vote /\ validVote(snap, vote.address, vote.authorize))
  BY DEF VotesHeard
<1> QED BY ONLY <1>4, <1>5, <1>6, <1>7, SMTT(60)

\* What is left of the votes is what still stands.
LEMMA LeftIsStanding ==
  ASSUME NEW V, NEW S, NEW a, NEW R, R = SignersAfter(V, S, a),
         \A v \in V : v.signer \in S /\ v.authorize = (v.address \notin S)
  PROVE  VotesAfter(V, S, a) = {v \in V : v.signer \in R /\ (v.address \in R) # v.authorize}
<1>1. CASE ~Major(V, S, a)
  <2>1. R = S /\ VotesAfter(V, S, a) = V
    BY <1>1 DEF SignersAfter, VotesAfter
  <2> QED BY <2>1
<1>2. CASE Major(V, S, a)
  <2>1. R = Flip(S, a) /\ VotesAfter(V, S, a) = {v \in V : v.address # a /\ v.signer \in R}
    BY <1>2 DEF SignersAfter, VotesAfter, Others
  <2>2. \A v \in V : (v.address \in R) # v.authorize <=> v.address # a
    <3>1. \A b : b # a => (b \in R <=> b \in S)
      BY ONLY <2>1, ZenonT(60) DEF Flip
    <3>2. a \in R <=> a \notin S
      BY ONLY <2>1, ZenonT(60) DEF Flip
    <3> QED BY <3>1, <3>2, SMTT(60)
  <2> QED BY <2>1, <2>2
<1> QED BY <1>1, <1>2

\* Half of the signers, before and after an account comes or goes.
LEMMA LimitArith ==
  ASSUME NEW k \in Nat
  PROVE  /\ (k + 1) \div 2 >= k \div 2 /\ (k + 1) \div 2 <= k \div 2 + 1
         /\ k \div 2 \in Nat /\ (k + 1) \div 2 \in Nat
BY SMTT(60)

\* The window moves by one, and by no more than the set's change allows.
LEMMA WindowArith ==
  ASSUME NEW N \in Nat, NEW l \in Nat, NEW m \in Nat, 0 < l, 0 < m, NEW b \in Nat,
         b = N + 1 \/ (b <= N /\ 0 < b /\ b > N - l /\ b # N + 1 - l),
         m >= l \/ (m = l - 1 /\ b # N + 1 - m)
  PROVE  0 < b /\ b <= N + 1 /\ b > N + 1 - m
BY SMTT(60)

\* A header keeps the recent blocks in the window, also when the set shrinks.
LEMMA RecentStep ==
  ASSUME NEW s, Counted(s), RecentOK(s), NEW vote, GoodVote(s, vote)
  PROVE  RecentOK(cliqueApply(s, vote))
<1> DEFINE t == cliqueApply(s, vote)
           n == s.Number + 1
           kept == (DOMAIN s.Recents \ {n - limit(s)}) \cup {n}
           a == vote.address
           small == Cardinality(t.Signers) < Cardinality(s.Signers)
           dom == IF small THEN kept \ {n - limit(t)} ELSE kept
<1>1. /\ t.Number = n /\ t.Signers = SignersAfter(VotesHeard(s, vote), s.Signers, a)
      /\ t.Recents = RecentsAfter(s, t, vote)
  BY ONLY Counted(s), GoodVote(s, vote), CliqueApplied, ZenonT(60)
<1>1a. t.Recents = [b \in dom |-> IF b = n THEN vote.signer ELSE s.Recents[b]]
  BY ONLY <1>1, ZenonT(60) DEF RecentsAfter
<1>2. IsFiniteSet(s.Signers) /\ Cardinality(s.Signers) \in Nat
  BY FiniteSigners DEF Counted
<1>3. \/ t.Signers = s.Signers
      \/ t.Signers = s.Signers \ {a} /\ a \in s.Signers
      \/ t.Signers = s.Signers \cup {a} /\ a \notin s.Signers
  BY ONLY <1>1, ZenonT(60) DEF SignersAfter, Flip
<1> HIDE DEF t
<1>4. \/ Cardinality(t.Signers) = Cardinality(s.Signers)
      \/ Cardinality(t.Signers) = Cardinality(s.Signers) - 1
      \/ Cardinality(t.Signers) = Cardinality(s.Signers) + 1
  BY ONLY <1>2, <1>3, FS_AddElement, FS_RemoveElement, SMTT(60)
<1>5. IsFiniteSet(t.Signers) /\ Cardinality(t.Signers) \in Nat
  BY ONLY <1>2, <1>3, FS_AddElement, FS_RemoveElement, FS_CardinalityType, SMTT(60)
<1>6. limit(s) \in Nat /\ 0 < limit(s) /\ limit(t) \in Nat /\ 0 < limit(t)
  BY ONLY <1>2, <1>5, LimitArith, SMTT(60) DEF limit
<1>7. limit(t) >= limit(s) \/ (small /\ limit(t) = limit(s) - 1)
  <2>1. CASE Cardinality(t.Signers) = Cardinality(s.Signers)
    BY ONLY <2>1, <1>6, SMTT(60) DEF limit
  <2>2. CASE Cardinality(t.Signers) = Cardinality(s.Signers) + 1
    BY ONLY <2>2, <1>2, <1>6, LimitArith, SMTT(60) DEF limit
  <2>3. CASE Cardinality(t.Signers) = Cardinality(s.Signers) - 1
    <3>1. Cardinality(s.Signers) = Cardinality(t.Signers) + 1 /\ small
      BY ONLY <2>3, <1>2, <1>5, SMTT(60)
    <3> QED BY ONLY <3>1, <1>5, <1>6, LimitArith, SMTT(60) DEF limit
  <2> QED BY ONLY <1>4, <2>1, <2>2, <2>3, ZenonT(60)
<1>8. s.Number \in Nat /\ n \in Nat
  BY SMTT(60) DEF RecentOK
<1>9. ASSUME NEW b \in dom
      PROVE  b \in Nat /\ 0 < b /\ b <= n /\ b > n - limit(t)
  <2>1. \/ b = n
        \/ b \in Nat /\ b <= s.Number /\ 0 < b /\ b > s.Number - limit(s) /\ b # n - limit(s)
    BY <1>9 DEF RecentOK
  <2>2. small => b # n - limit(t)
    BY <1>9
  <2>3. b \in Nat
    BY ONLY <2>1, <1>8, ZenonT(60)
  <2>4. limit(t) >= limit(s) \/ (limit(t) = limit(s) - 1 /\ b # s.Number + 1 - limit(t))
    BY ONLY <1>6, <1>7, <1>8, <2>2, SMTT(60)
  <2> QED BY ONLY <2>1, <2>3, <2>4, <1>6, <1>8, WindowArith, SMTT(60)
<1>10. DOMAIN t.Recents = dom /\ t.Recents = [b \in DOMAIN t.Recents |-> t.Recents[b]]
  <2> HIDE DEF dom
  <2> QED BY ONLY <1>1a, ZenonT(60)
<1> HIDE DEF dom
<1> QED BY ONLY <1>1, <1>8, <1>9, <1>10, ZenonT(60) DEF RecentOK, t

-----------------------------------------------------------------------------
(* The steps *)

\* What one header does to the votes and the signers, in either engine.
LEMMA Applied ==
  ASSUME NEW s, Counted(s), NEW vote, GoodVote(s, vote)
  PROVE  LET t == apply(s, vote)
             V == VotesHeard(s, vote)
         IN  /\ Counted(t) /\ t.Number = s.Number + 1
             /\ t.Signers = SignersAfter(V, s.Signers, vote.address)
             /\ t.Votes = VotesAfter(V, s.Signers, vote.address)
<1>1. CASE engine = "clique"
  <2>1. apply(s, vote) = cliqueApply(s, vote)
    BY <1>1 DEF apply
  <2> QED BY ONLY <2>1, Counted(s), GoodVote(s, vote), CliqueApplied, ZenonT(60)
<1>2. CASE engine # "clique"
  <2>1. apply(s, vote) = istanbulApply(s, vote)
    BY <1>2 DEF apply
  <2> QED BY ONLY <2>1, Counted(s), GoodVote(s, vote), IstanbulApplied, ZenonT(60)
<1> QED BY <1>1, <1>2

\* The node that started late follows.
LEMMA LateStep ==
  ASSUME SnapInv, LateOK, NEW vote, GoodVote(snap, vote), NEW t, NEW u,
         t = cliqueApply(snap, vote), u = cliqueApply(late, vote)
  PROVE  /\ Counted(u) /\ u.Number = t.Number /\ u.Start = late.Start
         /\ u.Signers = t.Signers /\ u.Votes = t.Votes
         /\ u.Recents = Restrict(t.Recents, {b \in DOMAIN t.Recents : b > u.Start})
<1> DEFINE a == vote.address
           V == VotesHeard(snap, vote)
<1>1. Counted(snap) /\ Counted(late) /\ snap.Number \in Nat
  BY DEF SnapInv, LateOK
<1>2. /\ late.Number = snap.Number /\ late.Signers = snap.Signers /\ late.Votes = snap.Votes
      /\ late.Start \in Nat /\ late.Start <= late.Number
  BY DEF LateOK
<1>3. GoodVote(late, vote) /\ VotesHeard(late, vote) = V
  BY ONLY <1>2, GoodVote(snap, vote), ZenonT(60) DEF GoodVote, VotesHeard, validVote
<1>4. /\ t.Number = snap.Number + 1 /\ t.Signers = SignersAfter(V, snap.Signers, a)
      /\ t.Votes = VotesAfter(V, snap.Signers, a) /\ t.Recents = RecentsAfter(snap, t, vote)
  BY ONLY <1>1, GoodVote(snap, vote), t = cliqueApply(snap, vote), CliqueApplied, ZenonT(60)
<1>5. /\ Counted(u) /\ u.Number = late.Number + 1 /\ u.Start = late.Start
      /\ u.Signers = SignersAfter(V, late.Signers, a)
      /\ u.Votes = VotesAfter(V, late.Signers, a) /\ u.Recents = RecentsAfter(late, u, vote)
  BY ONLY <1>1, <1>3, u = cliqueApply(late, vote), CliqueApplied, ZenonT(60)
<1> HIDE DEF V
<1>6. u.Signers = t.Signers /\ u.Votes = t.Votes /\ u.Number = t.Number
  BY ONLY <1>2, <1>4, <1>5, ZenonT(60)
<1> DEFINE n == snap.Number + 1
           D == DOMAIN snap.Recents
           E == {b \in D : b > late.Start}
           x == n - limit(snap)
           y == n - limit(t)
           small == Cardinality(t.Signers) < Cardinality(snap.Signers)
           kept == (D \ {x}) \cup {n}
           keptL == (E \ {x}) \cup {n}
           dom == IF small THEN kept \ {y} ELSE kept
           domL == IF small THEN keptL \ {y} ELSE keptL
<1>7. t.Recents = [b \in dom |-> IF b = n THEN vote.signer ELSE snap.Recents[b]]
  BY ONLY <1>4, ZenonT(60) DEF RecentsAfter
<1>8. late.Recents = [b \in E |-> snap.Recents[b]]
  BY DEF LateOK, Restrict
<1>9. limit(late) = limit(snap) /\ limit(u) = limit(t)
  BY ONLY <1>2, <1>6, ZenonT(60) DEF limit
<1>10. u.Recents = [b \in domL |-> IF b = n THEN vote.signer ELSE late.Recents[b]]
  <2>1. DOMAIN late.Recents = E
    BY ONLY <1>8, ZenonT(60)
  <2>2. Cardinality(u.Signers) < Cardinality(late.Signers) <=> small
    BY ONLY <1>2, <1>6, ZenonT(60)
  <2>3. /\ late.Number + 1 = n /\ n - limit(late) = x /\ n - limit(u) = y
    BY ONLY <1>2, <1>9, ZenonT(60)
  <2> HIDE DEF n, x, y, E, small
  <2> QED BY ONLY <1>5, <2>1, <2>2, <2>3, ZenonT(60) DEF RecentsAfter
<1>11. n > late.Start
  BY ONLY <1>1, <1>2, SMTT(60)
<1>12. \A b \in domL : b # n => b \in E
  OBVIOUS
<1>13. u.Recents = [b \in domL |-> IF b = n THEN vote.signer ELSE snap.Recents[b]]
  <2>1. \A b \in domL : b # n => late.Recents[b] = snap.Recents[b]
    BY ONLY <1>8, <1>12, ZenonT(60)
  <2> HIDE DEF domL, n
  <2> QED BY ONLY <1>10, <2>1, ZenonT(60)
<1>14. domL = {b \in dom : b > late.Start}
  <2> HIDE DEF n, x, y, D
  <2>1. keptL = {b \in kept : b > late.Start}
    BY ONLY <1>11, ZenonT(60)
  <2> QED BY ONLY <2>1, ZenonT(60)
<1>15. DOMAIN t.Recents = dom
  <2> HIDE DEF dom
  <2> QED BY ONLY <1>7, ZenonT(60)
<1>16. u.Recents = Restrict(t.Recents, {b \in DOMAIN t.Recents : b > u.Start})
  <2>1. {b \in DOMAIN t.Recents : b > u.Start} = domL
    BY ONLY <1>5, <1>14, <1>15, ZenonT(60)
  <2>2. \A b \in domL : b \in dom
    BY ONLY <1>14, ZenonT(60)
  <2> HIDE DEF dom, domL, n
  <2> QED BY ONLY <1>7, <1>13, <2>1, <2>2, ZenonT(60) DEF Restrict
<1> QED BY ONLY <1>5, <1>6, <1>16, ZenonT(60)

\* Sealing a block keeps the invariant, and changes signers by majority.
LEMMA SealStep ==
  ASSUME SnapInv, NEW signer \in Account, NEW address \in Account \cup {Nobody},
         NEW authorize \in BOOLEAN, Seal(signer, address, authorize)
  PROVE  SnapInv' /\ ChangedByMajority
<1> DEFINE vote == Vote(signer, address, authorize)
           t == apply(snap, vote)
           S == snap.Signers
           V == Said(vote)
           checkpoint == (snap.Number + 1) % Epoch = 0
<1>1. /\ signer \in S /\ (address = Nobody => ~authorize)
      /\ (engine = "clique" /\ checkpoint => address = Nobody)
      /\ snap' = t /\ late' = (IF late = NoSnapshot THEN late ELSE apply(late, vote))
      /\ extra' = S /\ ballots' = V /\ engine' = engine
  BY DEF Seal
<1>2. vote.signer = signer /\ vote.address = address /\ vote.authorize = authorize
  BY DEF Vote
<1> HIDE DEF vote
<1>3. GoodVote(snap, vote)
  BY ONLY <1>1, <1>2, address \in Account \cup {Nobody}, authorize \in BOOLEAN, ZenonT(60)
  DEF GoodVote
<1>4. Counted(snap) /\ snap.Number \in Nat /\ engine \in {"clique", "istanbul"}
  BY DEF SnapInv
<1>5. /\ VotesHeard(snap, vote) = V
      /\ \A v \in V : v.signer \in S /\ v.authorize = (v.address \notin S)
  BY ONLY <1>3, SnapInv, HeardIsSaid, ZenonT(60)
<1>6. /\ Counted(t) /\ t.Number = snap.Number + 1
      /\ t.Signers = SignersAfter(V, S, address) /\ t.Votes = VotesAfter(V, S, address)
  BY ONLY <1>2, <1>3, <1>4, <1>5, Applied, ZenonT(60)
<1>7. engine = "clique" => t = cliqueApply(snap, vote)
  BY DEF apply
<1>8. checkpoint /\ engine = "clique" => V = {}
  BY ONLY <1>1, <1>2, ZenonT(60) DEF Said
<1> HIDE DEF t, V
<1>9. t.Votes = {v \in V : v.signer \in t.Signers /\ (v.address \in t.Signers) # v.authorize}
  BY ONLY <1>5, <1>6, LeftIsStanding, SMTT(60)
<1>10. (snap.Votes = Standing(snap))'
  BY ONLY <1>1, <1>9, ZenonT(60) DEF Standing, validVote
<1>11. engine = "clique" => RecentOK(t)
  BY ONLY <1>3, <1>4, <1>7, SnapInv, RecentStep, ZenonT(60) DEF SnapInv
<1>12. engine = "clique" /\ checkpoint => t.Votes = {} /\ t.Signers = S
  <2> SUFFICES ASSUME engine = "clique", checkpoint PROVE t.Votes = {} /\ t.Signers = S
    OBVIOUS
  <2>1. V = {}
    BY ONLY <1>8, engine = "clique", checkpoint, ZenonT(60)
  <2>2. On(V, address) = {}
    BY ONLY <2>1, ZenonT(60) DEF On
  <2>3. Cardinality(On(V, address)) = 0 /\ Cardinality(S) \in Nat
    BY ONLY <2>2, <1>4, FS_EmptySet, FiniteSigners, ZenonT(60) DEF Counted
  <2>4. ~Major(V, S, address)
    BY ONLY <2>3, SMTT(60) DEF Major
  <2> QED BY ONLY <2>1, <2>4, <1>6, ZenonT(60) DEF SignersAfter, VotesAfter
<1>13. late' # NoSnapshot => LateOK'
  <2> SUFFICES ASSUME late' # NoSnapshot PROVE LateOK'
    OBVIOUS
  <2>1. late # NoSnapshot /\ late' = apply(late, vote)
    BY <1>1
  <2>2. LateOK
    BY <2>1 DEF SnapInv
  <2> DEFINE u == apply(late, vote)
  <2>3. engine = "clique" /\ u = cliqueApply(late, vote)
    BY <2>2 DEF LateOK, apply
  <2> HIDE DEF u
  <2>4. /\ Counted(u) /\ u.Number = t.Number /\ u.Start = late.Start
        /\ u.Signers = t.Signers /\ u.Votes = t.Votes
        /\ u.Recents = Restrict(t.Recents, {b \in DOMAIN t.Recents : b > u.Start})
    BY ONLY <1>3, <1>7, <2>2, <2>3, SnapInv, LateStep, SMTT(60)
  <2>5. u.Start \in Nat /\ 0 < u.Start /\ u.Start <= u.Number
    <3>1. late.Start \in Nat /\ 0 < late.Start /\ late.Start <= late.Number /\ late.Number = snap.Number
      BY <2>2 DEF LateOK
    <3> QED BY ONLY <3>1, <2>4, <1>4, <1>6, SMTT(60)
  <2>6. late' = u
    BY ONLY <2>1, ZenonT(60) DEF u
  <2> QED BY ONLY <1>1, <2>3, <2>4, <2>5, <2>6, ZenonT(60) DEF LateOK
<1>14. SnapInv'
  BY ONLY <1>1, <1>4, <1>6, <1>10, <1>11, <1>12, <1>13, SMTT(60) DEF SnapInv
<1>15. ChangedByMajority
  <2> DEFINE R == t.Signers
             majority == {a \in Account : 2 * Cardinality({b \in V : b.address = a}) > Cardinality(S)}
             changed == (S \ R) \cup (R \ S)
  <2>1. \A a : Major(V, S, a) <=> 2 * Cardinality({b \in V : b.address = a}) > Cardinality(S)
    BY DEF Major, On
  <2>2. \/ ~Major(V, S, address) /\ changed = {}
        \/ Major(V, S, address) /\ changed = {address}
    BY ONLY <1>6, ZenonT(60) DEF SignersAfter, Flip
  <2>3. Major(V, S, address) => address \in Account
    <3> SUFFICES ASSUME address = Nobody PROVE ~Major(V, S, address)
      OBVIOUS
    <3>1. On(V, address) = {}
      BY <1>5, <1>1, AccountAssumption, <1>4, <1>2
      DEF On, V, Said, Standing, SnapInv, Counted, ValidVotes
    <3>2. Cardinality(On(V, address)) = 0 /\ Cardinality(S) \in Nat
      BY ONLY <3>1, <1>4, FS_EmptySet, FiniteSigners, ZenonT(60) DEF Counted
    <3> QED BY ONLY <3>2, SMTT(60) DEF Major
  <2>4. changed \subseteq majority
    BY ONLY <2>1, <2>2, <2>3, ZenonT(60)
  <2>5. Cardinality(changed) <= 1
    <3>1. Cardinality({}) = 0 /\ Cardinality({address}) = 1
      BY ONLY FS_EmptySet, FS_Singleton, ZenonT(60)
    <3> HIDE DEF changed
    <3> QED BY ONLY <2>2, <3>1, SMTT(60)
  <2>6. ASSUME NEW b \in V \ ballots, b.address \in majority
        PROVE  b.address \in changed
    <3>1. b = vote
      BY ONLY <2>6, ZenonT(60) DEF V, Said, Standing
    <3>2. b.address = address
      BY ONLY <3>1, <1>2, ZenonT(60)
    <3>3. Major(V, S, address)
      BY ONLY <2>1, <2>6, <3>2, ZenonT(60)
    <3> QED BY ONLY <2>2, <3>2, <3>3, ZenonT(60)
  <2> HIDE DEF R, S
  <2>7. ballots' = V /\ snap'.Signers = R /\ snap.Signers = S
    BY ONLY <1>1, ZenonT(60) DEF R, S
  <2> QED BY ONLY <2>4, <2>5, <2>6, <2>7, ZenonT(60) DEF ChangedByMajority
<1> QED BY ONLY <1>14, <1>15, ZenonT(60)

\* Trusting a checkpoint keeps the invariant: there are no votes at that block.
LEMMA TrustStep ==
  ASSUME SnapInv, TrustCheckpoint
  PROVE  SnapInv' /\ ChangedByMajority
<1> DEFINE u == newSnapshot(snap.Number, extra)
<1>1. /\ engine = "clique" /\ snap.Number > 0 /\ snap.Number % Epoch = 0
      /\ late' = u /\ UNCHANGED <<engine, snap, extra, ballots>>
  BY DEF TrustCheckpoint
<1>2. Counted(snap) /\ snap.Number \in Nat /\ snap.Votes = {} /\ extra = snap.Signers /\ RecentOK(snap)
  BY <1>1 DEF SnapInv
<1>3. /\ u.Number = snap.Number /\ u.Start = snap.Number /\ u.Signers = snap.Signers
      /\ u.Recents = [n \in {} |-> Nobody] /\ u.Votes = {} /\ u.Tally = EmptyTally /\ IsSnap(u)
  BY <1>2 DEF newSnapshot, IsSnap
<1> HIDE DEF u
<1>4. Counted(u)
  BY ONLY <1>2, <1>3, EmptyVotes, ZenonT(60) DEF Counted
<1>5. u.Recents = Restrict(snap.Recents, {b \in DOMAIN snap.Recents : b > u.Start})
  <2>1. {b \in DOMAIN snap.Recents : b > u.Start} = {}
    BY ONLY <1>2, <1>3, SMTT(60) DEF RecentOK
  <2> QED BY ONLY <1>3, <2>1, ZenonT(60) DEF Restrict
<1>6. LateOK'
  BY ONLY <1>1, <1>2, <1>3, <1>4, <1>5, SMTT(60) DEF LateOK
<1>7. SnapInv'
  BY ONLY <1>1, <1>6, SnapInv, ZenonT(60) DEF SnapInv, Standing
<1>8. ChangedByMajority
  <2>1. snap'.Signers = snap.Signers /\ ballots' = ballots
    BY ONLY <1>1, ZenonT(60)
  <2>2. (snap.Signers \ snap'.Signers) \cup (snap'.Signers \ snap.Signers) = {}
    BY ONLY <2>1, ZenonT(60)
  <2> QED BY ONLY <2>1, <2>2, FS_EmptySet, SMTT(60) DEF ChangedByMajority
<1> QED BY ONLY <1>7, <1>8, ZenonT(60)

\* The genesis block has signers and no votes.
LEMMA SnapInit == Init => SnapInv
<1> SUFFICES ASSUME Init PROVE SnapInv
  OBVIOUS
<1>1. PICK signers \in SUBSET Account : snap = newSnapshot(0, signers)
  BY DEF Init
<1>2. /\ snap.Number = 0 /\ snap.Signers = signers
      /\ snap.Recents = [n \in {} |-> Nobody] /\ snap.Votes = {} /\ snap.Tally = EmptyTally
      /\ IsSnap(snap)
  BY ONLY <1>1, ZenonT(60) DEF newSnapshot, IsSnap
<1>3. Counted(snap)
  BY ONLY <1>2, signers \in SUBSET Account, EmptyVotes, ZenonT(60) DEF Counted
<1>4. snap.Votes = Standing(snap)
  BY <1>2 DEF Init, Standing
<1>5. RecentOK(snap)
  BY ONLY <1>2, SMTT(60) DEF RecentOK
<1> QED BY <1>2, <1>3, <1>4, <1>5, SMTT(60) DEF Init, SnapInv

\* Every step keeps the invariant, and changes signers only by a majority.
LEMMA SnapStep ==
  SnapInv /\ [Next]_vars => SnapInv' /\ [ChangedByMajority]_vars
<1> SUFFICES ASSUME SnapInv, [Next]_vars PROVE SnapInv' /\ [ChangedByMajority]_vars
  OBVIOUS
<1>1. ASSUME NEW signer \in Account, NEW address \in Account \cup {Nobody},
             NEW authorize \in BOOLEAN, Seal(signer, address, authorize)
      PROVE  SnapInv' /\ ChangedByMajority
  BY ONLY <1>1, SnapInv, SealStep, ZenonT(60)
<1>2. CASE TrustCheckpoint
  BY ONLY <1>2, SnapInv, TrustStep, ZenonT(60)
<1>3. CASE UNCHANGED vars
  BY ONLY <1>3, SnapInv, ZenonT(60) DEF vars, SnapInv, LateOK, Standing
<1> QED BY ONLY <1>1, <1>2, <1>3, [Next]_vars, ZenonT(60) DEF Next

-----------------------------------------------------------------------------
(* Theorems *)

\* The invariant holds in every run of Clique and Istanbul.
THEOREM SnapInvHolds == Spec => []SnapInv
<1>1. SnapInv /\ [Next]_vars => SnapInv'
  BY ONLY SnapStep, ZenonT(60)
<1> QED BY ONLY <1>1, SnapInit, PTL DEF Spec

\* For any accounts, votes, epoch and chain, the tally that apply keeps is what
\* a recount of the standing votes gives.
THEOREM TallyIsRecountHolds == Spec => []TallyIsRecount
<1>1. SnapInv => TallyIsRecount
  <2> SUFFICES ASSUME SnapInv PROVE TallyIsRecount
    OBVIOUS
  <2>1. Counted(snap) /\ snap.Votes = Standing(snap)
    BY DEF SnapInv
  <2>2. ASSUME NEW a \in Account
        PROVE  /\ tallied(snap, a) = Cardinality({b \in snap.Votes : b.address = a})
               /\ a \in DOMAIN snap.Tally => validVote(snap, a, snap.Tally[a].authorize)
    <3>1. IsFiniteSet(snap.Votes) /\ snap.Tally = TallyOf(snap.Votes, snap.Signers)
      BY <2>1 DEF Counted, ValidVotes
    <3>2. /\ a \in DOMAIN snap.Tally <=> On(snap.Votes, a) # {}
          /\ Cardinality(On(snap.Votes, a)) = 0 <=> On(snap.Votes, a) = {}
      BY ONLY <3>1, TallyEntry, ZenonT(60)
    <3>3. a \in DOMAIN snap.Tally =>
            /\ snap.Tally[a].votes = Cardinality(On(snap.Votes, a))
            /\ snap.Tally[a].authorize = (a \notin snap.Signers)
      BY ONLY <3>1, SMTT(60) DEF TallyOf
    <3>4. tallied(snap, a) = Cardinality(On(snap.Votes, a))
      BY ONLY <3>2, <3>3, ZenonT(60) DEF tallied
    <3>5. a \in DOMAIN snap.Tally => validVote(snap, a, snap.Tally[a].authorize)
      BY ONLY <3>3, ZenonT(60) DEF validVote
    <3> QED BY ONLY <3>4, <3>5, ZenonT(60) DEF On
  <2> QED BY ONLY <2>1, <2>2, ZenonT(60) DEF TallyIsRecount
<1> QED BY ONLY <1>1, SnapInvHolds, PTL

\* An account comes in or goes out only when more than half of the signers ask
\* for it, at most one in a block, and at once.
THEOREM ChangeNeedsMajorityHolds == Spec => ChangeNeedsMajority
<1>1. SnapInv /\ [Next]_vars => [ChangedByMajority]_vars
  BY ONLY SnapStep, ZenonT(60)
<1> QED BY ONLY <1>1, SnapInvHolds, PTL DEF Spec, ChangeNeedsMajority

\* Seal, verifySeal and apply agree on who has signed too recently, for every
\* size that the set of signers may take.
THEOREM SealedIsAcceptedHolds == Spec => []SealedIsAccepted
<1>1. SnapInv => SealedIsAccepted
  <2> SUFFICES ASSUME SnapInv, engine = "clique", NEW a \in snap.Signers
               PROVE  /\ mustWait(snap, a) <=> recentlySigned(snap, a)
                      /\ sealRefused(snap, a) => mustWait(snap, a)
                      /\ late # NoSnapshot /\ recentlySigned(late, a) => recentlySigned(snap, a)
    BY DEF SealedIsAccepted
  <2> DEFINE l == limit(snap)
             n == snap.Number + 1
             D == DOMAIN snap.Recents
  <2>1. RecentOK(snap) /\ Counted(snap)
    BY DEF SnapInv
  <2>2. l \in Nat /\ 0 < l
    <3>1. Cardinality(snap.Signers) \in Nat
      BY ONLY <2>1, FiniteSigners, ZenonT(60) DEF Counted
    <3> QED BY ONLY <3>1, LimitArith, SMTT(60) DEF limit
  <2>3. snap.Number \in Nat /\ \A b \in D : b \in Nat /\ 0 < b /\ b > snap.Number - l
    BY ONLY <2>1, ZenonT(60) DEF RecentOK
  <2>4. recentlySigned(snap, a) <=> \E b \in D : b # n - l /\ snap.Recents[b] = a
    <3>1. deleteRecent(snap, n).Recents = [b \in D \ {n - l} |-> snap.Recents[b]]
      BY ONLY <2>1, ZenonT(60) DEF deleteRecent, Counted, IsSnap, Restrict
    <3> QED BY ONLY <3>1, ZenonT(60) DEF recentlySigned, Range
  <2> HIDE DEF l
  <2>5. \A b \in D : b # n - l <=> n < l \/ b > n - l
    BY ONLY <2>2, <2>3, SMTT(60)
  <2>6. mustWait(snap, a) <=> \E b \in D : snap.Recents[b] = a /\ (n < l \/ b > n - l)
    BY DEF mustWait, l
  <2>7. mustWait(snap, a) <=> recentlySigned(snap, a)
    BY ONLY <2>4, <2>5, <2>6, ZenonT(60)
  <2>8. sealRefused(snap, a) => mustWait(snap, a)
    BY DEF sealRefused, mustWait
  <2>9. ASSUME late # NoSnapshot, recentlySigned(late, a)
        PROVE  recentlySigned(snap, a)
    <3>1. LateOK
      BY <2>9 DEF SnapInv
    <3>2. /\ Counted(late) /\ late.Number + 1 = n /\ limit(late) = l
          /\ late.Recents = [b \in {b \in D : b > late.Start} |-> snap.Recents[b]]
      BY ONLY <3>1, ZenonT(60) DEF LateOK, limit, Restrict, l
    <3>3. deleteRecent(late, n).Recents = [b \in DOMAIN late.Recents \ {n - l} |-> late.Recents[b]]
      BY ONLY <3>2, ZenonT(60) DEF deleteRecent, Counted, IsSnap, Restrict
    <3>4. \E b \in DOMAIN late.Recents \ {n - l} : late.Recents[b] = a
      <4> DEFINE f == deleteRecent(late, n).Recents
                 d == DOMAIN late.Recents \ {n - l}
      <4>1. a \in Range(f)
        BY ONLY <2>9, <3>2, ZenonT(60) DEF recentlySigned
      <4>2. f = [b \in d |-> late.Recents[b]]
        BY ONLY <3>3, ZenonT(60)
      <4> HIDE DEF f, d
      <4>3. \E b \in d : late.Recents[b] = a
        BY ONLY <4>1, <4>2, ZenonT(60) DEF Range
      <4> QED BY ONLY <4>3, ZenonT(60) DEF d
    <3> QED BY ONLY <2>4, <3>2, <3>4, ZenonT(60)
  <2> QED BY ONLY <2>7, <2>8, <2>9, ZenonT(60)
<1> QED BY ONLY <1>1, SnapInvHolds, PTL

\* The list of signers in the header of a checkpoint is all that a node needs: one
\* that takes its snapshot from there agrees with one that applied every header.
THEOREM CheckpointIsEnoughHolds == Spec => []CheckpointIsEnough
<1>1. SnapInv => CheckpointIsEnough
  <2> SUFFICES ASSUME SnapInv, late # NoSnapshot PROVE CheckpointIsEnough
    BY DEF CheckpointIsEnough
  <2>1. LateOK /\ Counted(snap)
    BY DEF SnapInv
  <2> QED BY ONLY <2>1, ZenonT(60) DEF LateOK, Counted, CheckpointIsEnough
<1> QED BY ONLY <1>1, SnapInvHolds, PTL
=============================================================================
