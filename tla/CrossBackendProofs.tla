------------------------- MODULE CrossBackendProofs -------------------------
(***************************************************************************)
(* Proofs about the store and the pool of cross transactions (CrossStatus, *)
(* CrossPool), for every number of cross transactions, anchors and         *)
(* required signatures and every bound.                                    *)
(*                                                                         *)
(* The properties of CrossStatus speak of states in which the handlers     *)
(* have written all their events.  What is inductive says where the last   *)
(* word about a transaction is: its taker is confirmed only when the       *)
(* modifier for it is on its way to the store, behind every reorganisation *)
(* of that taker, or has arrived; and so for its finish and for a change   *)
(* of anchors.                                                             *)
(*                                                                         *)
(* Of the pool: what is waiting has its signatures, what is taken is       *)
(* noticed, and a confirmed maker is stranded only for one of the named    *)
(* reasons.                                                                *)
(***************************************************************************)
EXTENDS CrossStatus, CrossPool, FiniteSetTheorems, WellFoundedInduction, TLAPS

\* Zenon is tried before SMT, and both have a minute.
USE ZenonT(60), SMTT(60)

-----------------------------------------------------------------------------
(* What the handlers read and write *)

Mod(t, s) == [type |-> t, status |-> s]
RemoteMod == {Mod("remote", Executing), Mod("remote", Executed), Mod("reorg", Waiting)}
LocalMod ==
  {Mod("normal", Finishing), Mod("normal", Finished), Mod("normal", Illegal), Mod("reorg", Executed)}

ModBatch(M) == UNION {[S -> M] : S \in SUBSET Ctx}
LocalEvent == [anchors : BOOLEAN, mods : ModBatch(LocalMod)]

TypeOK ==
  /\ status \in [Ctx -> {NoStatus} \cup 1..6]
  /\ txLog \in SUBSET Ctx
  /\ takers \in [Ctx -> 0..2]
  /\ finishes \in [Ctx -> 0..2]
  /\ revoked \in BOOLEAN
  /\ localCh \in Seq(LocalEvent)
  /\ remoteCh \in Seq(ModBatch(RemoteMod))
  /\ localMods \in ModBatch(LocalMod)
  /\ remoteMods \in ModBatch(RemoteMod)
  /\ aborted \in SUBSET Ctx
  /\ crossed \in SUBSET Ctx
  /\ reborn \in SUBSET Ctx

\* What a batch says of transaction c
Executes(b, c) == c \in DOMAIN b /\ b[c] = Mod("remote", Executed)
Finishes(b, c) == c \in DOMAIN b /\ b[c] = Mod("normal", Finished)
Revokes(b, c) == c \in DOMAIN b /\ b[c] = Mod("normal", Illegal)
Lowers(b, c) == c \in DOMAIN b /\ b[c].type = "reorg"

\* Nothing that is still to come can undo this.
TakenDone(c) == status[c] >= Executed \/ status[c] = NoStatus \/ c \in aborted
FinishDone(c) ==
  status[c] = Finished \/ (status[c] = NoStatus /\ c \in txLog) \/ c \in aborted \cup crossed

\* A confirmed taker: the last word about it is that it is executed.
TakenOK(c) ==
  /\ \/ TakenDone(c)
     \/ Executes(remoteMods, c)
     \/ \E i \in 1..Len(remoteCh) : Executes(remoteCh[i], c)
  /\ Lowers(remoteMods, c) => \E i \in 1..Len(remoteCh) : Executes(remoteCh[i], c)
  /\ \A j \in 1..Len(remoteCh) : Lowers(remoteCh[j], c) =>
       \E i \in 1..Len(remoteCh) : j < i /\ Executes(remoteCh[i], c)

TakenInv == \A c \in Ctx : takers[c] = Confirmed => TakenOK(c)

\* A confirmed finish: the last word about it is that it is finished.
FinishOK(c) ==
  /\ \/ FinishDone(c)
     \/ Finishes(localMods, c)
     \/ \E i \in 1..Len(localCh) : Finishes(localCh[i].mods, c)
  /\ Lowers(localMods, c) => \E i \in 1..Len(localCh) : Finishes(localCh[i].mods, c)
  /\ \A j \in 1..Len(localCh) : Lowers(localCh[j].mods, c) =>
       \E i \in 1..Len(localCh) : j < i /\ Finishes(localCh[i].mods, c)

FinishInv == \A c \in Ctx : finishes[c] = Confirmed => FinishOK(c)

\* An event about anchors has no modifiers of its own.
AnchorEvents == \A i \in 1..Len(localCh) : localCh[i].anchors => DOMAIN localCh[i].mods = {}

\* The anchors are replaced: the local handler is still to see it, or what waits
\* is about to be made illegal.
RevokeInv ==
  revoked =>
    \/ \E i \in 1..Len(localCh) : localCh[i].anchors
    \/ \A c \in Ctx : status[c] = Waiting => c \in reborn \cup aborted \/ Revokes(localMods, c)

StatusInv == TypeOK /\ TakenInv /\ FinishInv /\ AnchorEvents /\ RevokeInv

-----------------------------------------------------------------------------
(* Batches and the updates of the store *)

\* A batch is a function from some transactions to modifiers.
LEMMA BatchIntro ==
  ASSUME NEW M, NEW S \in SUBSET Ctx, NEW b \in [S -> M]
  PROVE  b \in ModBatch(M)
BY DEF ModBatch

\* What a batch names is a transaction, with a modifier of its kind.
LEMMA BatchElim ==
  ASSUME NEW M, NEW b \in ModBatch(M)
  PROVE  DOMAIN b \in SUBSET Ctx /\ b \in [DOMAIN b -> M]
<1>1. PICK S \in SUBSET Ctx : b \in [S -> M]
  BY DEF ModBatch
<1> QED BY <1>1

\* The batches that blocks and reorganisations send and handlers make.
LEMMA BatchKinds ==
  /\ NoMods \in ModBatch(LocalMod) /\ NoMods \in ModBatch(RemoteMod) /\ DOMAIN NoMods = {}
  /\ \A S \in SUBSET Ctx : /\ Mods(S, "reorg", Waiting) \in ModBatch(RemoteMod)
                           /\ Mods(S, "reorg", Executed) \in ModBatch(LocalMod)
                           /\ Mods(S, "normal", Illegal) \in ModBatch(LocalMod)
  /\ \A S, T \in SUBSET Ctx :
       /\ BlockMods(S, T, "remote", Executing, Executed) \in ModBatch(RemoteMod)
       /\ BlockMods(S, T, "normal", Finishing, Finished) \in ModBatch(LocalMod)
<1>1. NoMods \in [{} -> LocalMod] /\ NoMods \in [{} -> RemoteMod] /\ DOMAIN NoMods = {}
  BY DEF NoMods, Mods
<1>2. ASSUME NEW S \in SUBSET Ctx
      PROVE  /\ Mods(S, "reorg", Waiting) \in [S -> RemoteMod]
             /\ Mods(S, "reorg", Executed) \in [S -> LocalMod]
             /\ Mods(S, "normal", Illegal) \in [S -> LocalMod]
  BY DEF Mods, RemoteMod, LocalMod, Mod
<1>3. ASSUME NEW S \in SUBSET Ctx, NEW T \in SUBSET Ctx
      PROVE  /\ S \cup T \in SUBSET Ctx
             /\ BlockMods(S, T, "remote", Executing, Executed) \in [S \cup T -> RemoteMod]
             /\ BlockMods(S, T, "normal", Finishing, Finished) \in [S \cup T -> LocalMod]
  BY DEF BlockMods, RemoteMod, LocalMod, Mod
<1>4. {} \in SUBSET Ctx
  OBVIOUS
<1> QED BY ONLY <1>1, <1>2, <1>3, <1>4, BatchIntro, ZenonT(60)

Kind == [type : {"reorg", "remote", "normal"}, status : 1..6]

\* The modifiers have the types and statuses of the code.
LEMMA ModKinds == RemoteMod \subseteq Kind /\ LocalMod \subseteq Kind
BY SMTT(60) DEF RemoteMod, LocalMod, Kind, Mod, Executing, Executed, Waiting,
       Finishing, Finished, Illegal

\* Updates writes each modifier, or none and then the batch is aborted.
LEMMA UpdatesFacts ==
  ASSUME TypeOK, NEW M, M \subseteq Kind, NEW b \in ModBatch(M), Updates(b)
  PROVE  /\ status' \in [Ctx -> {NoStatus} \cup 1..6]
         /\ aborted' \in SUBSET Ctx
         /\ aborted \subseteq aborted'
         /\ \A c \in Ctx :
              \/ c \notin DOMAIN b /\ status'[c] = status[c]
              \/ c \in aborted' /\ status'[c] = status[c]
              \/ c \in DOMAIN b /\ status[c] # NoStatus /\ status'[c] = Updated(status[c], b[c])
<1>1. DOMAIN b \in SUBSET Ctx /\ \A c \in DOMAIN b : b[c] \in Kind
  BY BatchElim
<1> DEFINE missing == \E c \in DOMAIN b : status[c] = NoStatus
<1>2. CASE missing
  <2>1. status' = status /\ aborted' = aborted \cup DOMAIN b
    BY <1>2 DEF Updates
  <2> QED BY <2>1, <1>1 DEF TypeOK
<1>3. CASE ~missing
  <2> DEFINE new == [c \in Ctx |-> IF c \in DOMAIN b THEN Updated(status[c], b[c]) ELSE status[c]]
  <2>1. status' = new /\ aborted' = aborted
    BY <1>3 DEF Updates
  <2>2. ASSUME NEW c \in Ctx, c \in DOMAIN b
        PROVE  Updated(status[c], b[c]) \in {NoStatus} \cup 1..6
    <3>1. b[c].status \in 1..6 /\ status[c] \in {NoStatus} \cup 1..6
      BY <1>1, <2>2 DEF Kind, TypeOK
    <3> QED BY <3>1 DEF Updated
  <2>3. new \in [Ctx -> {NoStatus} \cup 1..6]
    BY <2>2 DEF TypeOK
  <2>4. \A c \in Ctx : \/ c \notin DOMAIN b /\ new[c] = status[c]
                       \/ c \in DOMAIN b /\ status[c] # NoStatus /\ new[c] = Updated(status[c], b[c])
    BY <1>3
  <2> HIDE DEF new
  <2> QED BY <2>1, <2>3, <2>4 DEF TypeOK
<1> QED BY <1>2, <1>3

-----------------------------------------------------------------------------
(* Queues *)

\* An event is added at the end.
LEMMA AppendFacts ==
  ASSUME NEW S, NEW q \in Seq(S), NEW e \in S
  PROVE  /\ Append(q, e) \in Seq(S)
         /\ Len(q) \in Nat
         /\ Len(Append(q, e)) = Len(q) + 1
         /\ \A i \in 1..Len(q) : i \in 1..Len(Append(q, e)) /\ Append(q, e)[i] = q[i]
         /\ Append(q, e)[Len(q) + 1] = e
         /\ Len(q) + 1 \in 1..Len(Append(q, e))
         /\ \A i \in 1..Len(Append(q, e)) : i \in 1..Len(q) \/ i = Len(q) + 1
BY SMTT(60)

\* An event is taken from the front.
LEMMA TailFacts ==
  ASSUME NEW S, NEW q \in Seq(S), q # <<>>
  PROVE  /\ Tail(q) \in Seq(S)
         /\ Head(q) \in S
         /\ Head(q) = q[1]
         /\ Len(q) \in Nat /\ 1 \in 1..Len(q)
         /\ Len(Tail(q)) = Len(q) - 1
         /\ \A i \in 1..Len(Tail(q)) : i + 1 \in 1..Len(q) /\ Tail(q)[i] = q[i + 1]
         /\ \A i \in 1..Len(q) : i # 1 => i - 1 \in 1..Len(Tail(q)) /\ Tail(q)[i - 1] = q[i]
BY SMTT(60)

-----------------------------------------------------------------------------
(* Types *)

\* What RemoteBlock and LocalBlock write is typed.
LEMMA StepType ==
  ASSUME NEW chain \in [Ctx -> 0..2], NEW new, NEW conf
  PROVE  Step(chain, new, conf) \in [Ctx -> 0..2]
BY SMTT(60) DEF Step, New, Confirmed

\* The variables keep their types.
LEMMA TypeStep ==
  ASSUME TypeOK, [StatusNext]_statusVars
  PROVE  TypeOK'
<1>1. CASE RemoteBlock
  <2>1. PICK new \in SUBSET At(takers, Absent), conf \in SUBSET At(takers, New) :
          /\ takers' = Step(takers, new, conf)
          /\ remoteCh' = Append(remoteCh, BlockMods(new, conf, "remote", Executing, Executed))
    BY <1>1 DEF RemoteBlock
  <2>2. new \in SUBSET Ctx /\ conf \in SUBSET Ctx
    BY DEF At
  <2>3. takers' \in [Ctx -> 0..2]
    BY <2>1, StepType DEF TypeOK
  <2>4. remoteCh' \in Seq(ModBatch(RemoteMod))
    BY ONLY <2>1, <2>2, BatchKinds, AppendFacts, TypeOK, ZenonT(60) DEF TypeOK
  <2> QED BY ONLY <2>3, <2>4, <1>1, TypeOK, ZenonT(60) DEF RemoteBlock, TypeOK, recordVars, history
<1>2. CASE RemoteReorg
  <2>1. PICK old \in SUBSET At(takers, New) :
          /\ takers' = [c \in Ctx |-> IF c \in old THEN Absent ELSE takers[c]]
          /\ remoteCh' = Append(remoteCh, Mods(old, "reorg", Waiting))
    BY <1>2 DEF RemoteReorg
  <2>2. old \in SUBSET Ctx
    BY DEF At
  <2>3. takers' \in [Ctx -> 0..2]
    BY <2>1, SMTT(60) DEF TypeOK, Absent
  <2>4. remoteCh' \in Seq(ModBatch(RemoteMod))
    BY ONLY <2>1, <2>2, BatchKinds, AppendFacts, TypeOK, ZenonT(60) DEF TypeOK
  <2> QED BY ONLY <2>3, <2>4, <1>2, TypeOK, ZenonT(60) DEF RemoteReorg, TypeOK, recordVars, history
<1>3. CASE LocalBlock
  <2>1. PICK new \in SUBSET At(finishes, Absent), conf \in SUBSET At(finishes, New) :
          /\ finishes' = Step(finishes, new, conf)
          /\ localCh' = Append(localCh, [anchors |-> FALSE,
                          mods |-> BlockMods(new, conf, "normal", Finishing, Finished)])
    BY <1>3 DEF LocalBlock
  <2>2. new \in SUBSET Ctx /\ conf \in SUBSET Ctx
    BY DEF At
  <2>3. finishes' \in [Ctx -> 0..2]
    BY <2>1, StepType DEF TypeOK
  <2>4. BlockMods(new, conf, "normal", Finishing, Finished) \in ModBatch(LocalMod)
    BY ONLY <2>2, BatchKinds, ZenonT(60)
  <2>5. localCh' \in Seq(LocalEvent)
    BY ONLY <2>1, <2>4, AppendFacts, TypeOK, SMTT(60) DEF TypeOK, LocalEvent
  <2> QED BY ONLY <2>3, <2>5, <1>3, TypeOK, ZenonT(60) DEF LocalBlock, TypeOK, recordVars, history
<1>4. CASE LocalReorg
  <2>1. PICK old \in SUBSET At(finishes, New) :
          /\ finishes' = [c \in Ctx |-> IF c \in old THEN Absent ELSE finishes[c]]
          /\ localCh' = Append(localCh, [anchors |-> FALSE, mods |-> Mods(old, "reorg", Executed)])
    BY <1>4 DEF LocalReorg
  <2>2. old \in SUBSET Ctx
    BY DEF At
  <2>3. finishes' \in [Ctx -> 0..2]
    BY <2>1, SMTT(60) DEF TypeOK, Absent
  <2>4. Mods(old, "reorg", Executed) \in ModBatch(LocalMod)
    BY ONLY <2>2, BatchKinds, ZenonT(60)
  <2>5. localCh' \in Seq(LocalEvent)
    BY ONLY <2>1, <2>4, AppendFacts, TypeOK, SMTT(60) DEF TypeOK, LocalEvent
  <2> QED BY ONLY <2>3, <2>5, <1>4, TypeOK, ZenonT(60) DEF LocalReorg, TypeOK, recordVars, history
<1>5. CASE ReplaceAnchors
  <2>1. localCh' \in Seq(LocalEvent)
    BY ONLY <1>5, BatchKinds, AppendFacts, TypeOK, SMTT(60) DEF TypeOK, LocalEvent, ReplaceAnchors
  <2>2. revoked' \in BOOLEAN
    BY <1>5 DEF ReplaceAnchors
  <2> QED BY ONLY <2>1, <2>2, <1>5, TypeOK, ZenonT(60) DEF ReplaceAnchors, TypeOK, recordVars, history
<1>6. CASE HandleLocal
  <2>1. localCh' \in Seq(LocalEvent) /\ Head(localCh) \in LocalEvent
    BY ONLY <1>6, TailFacts, TypeOK, ZenonT(60) DEF HandleLocal, TypeOK
  <2>2. At(status, Waiting) \in SUBSET Ctx
    BY DEF At
  <2>3. Mods(At(status, Waiting), "normal", Illegal) \in ModBatch(LocalMod)
    BY ONLY <2>2, BatchKinds, ZenonT(60)
  <2>4. Head(localCh).mods \in ModBatch(LocalMod)
    BY <2>1 DEF LocalEvent
  <2>5. localMods' \in ModBatch(LocalMod)
    BY ONLY <1>6, <2>3, <2>4, ZenonT(60) DEF HandleLocal
  <2> QED BY ONLY <2>1, <2>5, <1>6, TypeOK, ZenonT(60) DEF HandleLocal, TypeOK, recordVars, sideVars, history
<1>7. CASE UpdateLocal
  <2>1. localMods' \in ModBatch(LocalMod)
    BY ONLY <1>7, BatchKinds, ZenonT(60) DEF UpdateLocal
  <2>2. Updates(localMods) /\ localMods \in ModBatch(LocalMod)
    BY <1>7 DEF UpdateLocal, TypeOK
  <2>3. status' \in [Ctx -> {NoStatus} \cup 1..6] /\ aborted' \in SUBSET Ctx
    BY ONLY <2>2, TypeOK, UpdatesFacts, ModKinds, ZenonT(60)
  <2> QED BY ONLY <2>1, <2>3, <1>7, TypeOK, ZenonT(60) DEF UpdateLocal, TypeOK, sideVars
<1>8. CASE HandleRemote
  <2> DEFINE mods == Head(remoteCh)
             known == {d \in DOMAIN mods : status[d] # NoStatus}
  <2>1. remoteCh' \in Seq(ModBatch(RemoteMod)) /\ mods \in ModBatch(RemoteMod)
    BY ONLY <1>8, TailFacts, TypeOK, ZenonT(60) DEF HandleRemote, TypeOK
  <2>2. DOMAIN mods \in SUBSET Ctx /\ mods \in [DOMAIN mods -> RemoteMod]
    BY ONLY <2>1, BatchElim, ZenonT(60)
  <2>3. remoteMods' = [c \in known |-> mods[c]]
    BY <1>8 DEF HandleRemote
  <2>4. known \in SUBSET Ctx /\ remoteMods' \in [known -> RemoteMod]
    BY ONLY <2>2, <2>3, ZenonT(60)
  <2>5. remoteMods' \in ModBatch(RemoteMod)
    BY ONLY <2>4, BatchIntro, ZenonT(60)
  <2> QED BY ONLY <2>1, <2>5, <1>8, TypeOK, ZenonT(60) DEF HandleRemote, TypeOK, recordVars, sideVars, history
<1>9. CASE UpdateRemote
  <2>1. remoteMods' \in ModBatch(RemoteMod)
    BY ONLY <1>9, BatchKinds, ZenonT(60) DEF UpdateRemote
  <2>2. Updates(remoteMods) /\ remoteMods \in ModBatch(RemoteMod)
    BY <1>9 DEF UpdateRemote, TypeOK
  <2>3. status' \in [Ctx -> {NoStatus} \cup 1..6] /\ aborted' \in SUBSET Ctx
    BY ONLY <2>2, TypeOK, UpdatesFacts, ModKinds, ZenonT(60)
  <2>4. crossed' \in SUBSET Ctx /\ reborn' \in SUBSET Ctx
    BY <1>9 DEF UpdateRemote, TypeOK
  <2> QED BY ONLY <2>1, <2>3, <2>4, <1>9, TypeOK, ZenonT(60) DEF UpdateRemote, TypeOK, sideVars
<1>10. ASSUME NEW c \in Ctx, StoreWaiting(c)
       PROVE  TypeOK'
  <2>1. status' \in [Ctx -> {NoStatus} \cup 1..6]
    BY <1>10, SMTT(60) DEF StoreWaiting, TypeOK, Waiting
  <2> QED BY ONLY <2>1, <1>10, TypeOK, ZenonT(60) DEF StoreWaiting, TypeOK, sideVars, history
<1>11. ASSUME NEW c \in Ctx, RemoveBefore(c)
       PROVE  TypeOK'
  <2>1. status' \in [Ctx -> {NoStatus} \cup 1..6] /\ txLog' \in SUBSET Ctx
    BY <1>11 DEF RemoveBefore, TypeOK
  <2> QED BY ONLY <2>1, <1>11, TypeOK, ZenonT(60) DEF RemoveBefore, TypeOK, sideVars, history
<1>12. CASE UNCHANGED statusVars
  BY ONLY <1>12, TypeOK, ZenonT(60) DEF statusVars, TypeOK, recordVars, sideVars, history
<1> QED BY ONLY <1>1, <1>2, <1>3, <1>4, <1>5, <1>6, <1>7, <1>8, <1>9, <1>10, <1>11, <1>12,
             [StatusNext]_statusVars, ZenonT(60) DEF StatusNext

-----------------------------------------------------------------------------
(* Takers *)

\* An event of the remote chain keeps the last word, or says it.
LEMMA TakenAppend ==
  ASSUME TypeOK, NEW c \in Ctx, NEW b \in ModBatch(RemoteMod),
         remoteCh' = Append(remoteCh, b), remoteMods' = remoteMods,
         UNCHANGED <<status, aborted>>,
         Executes(b, c) \/ (TakenOK(c) /\ c \notin DOMAIN b)
  PROVE  TakenOK(c)'
<1> DEFINE q == remoteCh
           r == Append(q, b)
<1>1. /\ Len(q) \in Nat /\ Len(r) = Len(q) + 1
      /\ \A i \in 1..Len(q) : i \in 1..Len(r) /\ r[i] = q[i]
      /\ r[Len(q) + 1] = b /\ Len(q) + 1 \in 1..Len(r)
      /\ \A i \in 1..Len(r) : i \in 1..Len(q) \/ i = Len(q) + 1
  BY AppendFacts, SMTT(60) DEF TypeOK
<1>2. remoteCh' = r /\ remoteMods' = remoteMods /\ (TakenDone(c)' <=> TakenDone(c))
  BY DEF TakenDone
<1> HIDE DEF q, r
<1>3. CASE Executes(b, c)
  <2>1. ~Lowers(b, c)
    BY <1>3, SMTT(60) DEF Executes, Lowers, Mod
  <2>2. \A j \in 1..Len(r) : Lowers(r[j], c) => j < Len(q) + 1
    BY <1>1, <2>1, SMTT(60)
  <2> QED BY ONLY <1>1, <1>2, <1>3, <2>2, ZenonT(60) DEF TakenOK
<1>4. CASE TakenOK(c) /\ c \notin DOMAIN b
  <2>1. ~Lowers(b, c)
    BY <1>4 DEF Lowers
  <2>2. ASSUME \E i \in 1..Len(q) : Executes(q[i], c)
        PROVE  \E i \in 1..Len(r) : Executes(r[i], c)
    BY ONLY <1>1, <2>2, ZenonT(60)
  <2>3. ASSUME NEW j \in 1..Len(r), Lowers(r[j], c)
        PROVE  \E i \in 1..Len(r) : j < i /\ Executes(r[i], c)
    <3>1. j \in 1..Len(q) /\ Lowers(q[j], c)
      BY ONLY <1>1, <2>1, <2>3, ZenonT(60)
    <3>2. PICK i \in 1..Len(q) : j < i /\ Executes(q[i], c)
      BY ONLY <3>1, <1>4, ZenonT(60) DEF TakenOK, q
    <3> QED BY ONLY <3>2, <1>1, ZenonT(60)
  <2>4. \/ TakenDone(c) \/ Executes(remoteMods, c)
        \/ \E i \in 1..Len(q) : Executes(q[i], c)
    BY <1>4 DEF TakenOK, q
  <2>5. Lowers(remoteMods, c) => \E i \in 1..Len(q) : Executes(q[i], c)
    BY <1>4 DEF TakenOK, q
  <2> QED BY ONLY <1>2, <2>2, <2>3, <2>4, <2>5, ZenonT(60) DEF TakenOK
<1> QED BY <1>3, <1>4

\* The handler reads the event; a modifier that it leaves out is not in the store.
LEMMA TakenHandle ==
  ASSUME TypeOK, NEW c \in Ctx, TakenOK(c), HandleRemote
  PROVE  TakenOK(c)'
<1> DEFINE q == remoteCh
           r == Tail(q)
           mods == q[1]
<1>1. /\ Len(q) \in Nat /\ 1 \in 1..Len(q) /\ Head(q) = q[1] /\ Len(r) = Len(q) - 1
      /\ \A i \in 1..Len(r) : i + 1 \in 1..Len(q) /\ r[i] = q[i + 1]
      /\ \A i \in 1..Len(q) : i # 1 => i - 1 \in 1..Len(r) /\ r[i - 1] = q[i]
  BY TailFacts DEF TypeOK, HandleRemote
<1>2. /\ remoteCh' = r /\ (TakenDone(c)' <=> TakenDone(c))
      /\ remoteMods' = [d \in {d \in DOMAIN mods : status[d] # NoStatus} |-> mods[d]]
  BY <1>1 DEF HandleRemote, TakenDone, recordVars, history
<1>3. Executes(mods, c) => TakenDone(c) \/ Executes(remoteMods', c)
  BY <1>2 DEF Executes, TakenDone
<1>4. Lowers(remoteMods', c) => Lowers(mods, c)
  BY <1>2 DEF Lowers
<1>5. ~Executes(remoteMods, c)
  BY BatchKinds DEF HandleRemote, Executes
<1> HIDE DEF q, r, mods
<1>6. ASSUME NEW j \in 1..Len(q), Lowers(q[j], c)
      PROVE  \E i \in 1..Len(q) : j < i /\ Executes(q[i], c)
  BY ONLY TakenOK(c), <1>6, ZenonT(60) DEF TakenOK, q
<1>7. Lowers(remoteMods', c) => \E i \in 1..Len(r) : Executes(r[i], c)
  <2> SUFFICES ASSUME Lowers(mods, c) PROVE \E i \in 1..Len(r) : Executes(r[i], c)
    BY <1>4
  <2>1. PICK i \in 1..Len(q) : 1 < i /\ Executes(q[i], c)
    BY <1>1, <1>6 DEF mods
  <2> QED BY ONLY <2>1, <1>1, SMTT(60)
<1>8. ASSUME NEW j \in 1..Len(r), Lowers(r[j], c)
      PROVE  \E i \in 1..Len(r) : j < i /\ Executes(r[i], c)
  <2>1. j + 1 \in 1..Len(q) /\ Lowers(q[j + 1], c)
    BY ONLY <1>1, <1>8, ZenonT(60)
  <2>2. PICK i \in 1..Len(q) : j + 1 < i /\ Executes(q[i], c)
    BY ONLY <2>1, <1>6, ZenonT(60)
  <2>3. i # 1 /\ j < i - 1
    BY ONLY <2>2, <1>1, <1>8, SMTT(60)
  <2> QED BY ONLY <2>2, <2>3, <1>1, ZenonT(60)
<1>9. TakenDone(c) \/ Executes(remoteMods', c) \/ \E i \in 1..Len(r) : Executes(r[i], c)
  <2>1. CASE TakenDone(c)
    BY <2>1
  <2>2. CASE \E i \in 1..Len(q) : Executes(q[i], c)
    <3>1. PICK i \in 1..Len(q) : Executes(q[i], c)
      BY <2>2
    <3> QED BY ONLY <3>1, <1>1, <1>3, ZenonT(60) DEF mods
  <2> QED BY ONLY <2>1, <2>2, <1>5, TakenOK(c), ZenonT(60) DEF TakenOK, q
<1> QED BY ONLY <1>2, <1>7, <1>8, <1>9, ZenonT(60) DEF TakenOK

\* What the remote handler writes is the last word so far.
LEMMA TakenUpdate ==
  ASSUME TypeOK, NEW c \in Ctx, TakenOK(c), UpdateRemote
  PROVE  TakenOK(c)'
<1>1. /\ remoteCh' = remoteCh /\ remoteMods' = NoMods /\ aborted \subseteq aborted'
      /\ \/ c \notin DOMAIN remoteMods /\ status'[c] = status[c]
         \/ c \in aborted' /\ status'[c] = status[c]
         \/ c \in DOMAIN remoteMods /\ status[c] # NoStatus /\ status'[c] = Updated(status[c], remoteMods[c])
  BY UpdatesFacts, ModKinds DEF UpdateRemote, TypeOK
<1>2. ~Lowers(remoteMods', c)
  BY ONLY <1>1, BatchKinds, ZenonT(60) DEF Lowers
<1>3. CASE \E i \in 1..Len(remoteCh) : Executes(remoteCh[i], c)
  BY ONLY <1>1, <1>2, <1>3, TakenOK(c), ZenonT(60) DEF TakenOK
<1>4. CASE ~\E i \in 1..Len(remoteCh) : Executes(remoteCh[i], c)
  <2>1. ~Lowers(remoteMods, c) /\ (TakenDone(c) \/ Executes(remoteMods, c))
    BY ONLY <1>4, TakenOK(c), ZenonT(60) DEF TakenOK
  <2>2. c \in DOMAIN remoteMods => remoteMods[c] \in Kind
    BY BatchElim, ModKinds DEF TypeOK
  <2>3. status[c] \in {NoStatus} \cup 1..6
    BY DEF TypeOK
  <2>4. TakenDone(c)'
    <3>1. CASE c \in aborted'
      BY ONLY <3>1, ZenonT(60) DEF TakenDone
    <3>2. CASE c \notin DOMAIN remoteMods /\ status'[c] = status[c]
      BY ONLY <1>1, <2>1, <3>2, ZenonT(60) DEF TakenDone, Executes
    <3>3. CASE c \in DOMAIN remoteMods /\ status[c] # NoStatus /\ status'[c] = Updated(status[c], remoteMods[c])
      <4>1. remoteMods[c].type \in {"remote", "normal"} /\ remoteMods[c].status \in 1..6
        BY ONLY <2>1, <2>2, <3>3, ZenonT(60) DEF Lowers, Kind
      <4>2. status'[c] >= status[c] /\ status'[c] >= remoteMods[c].status
        BY ONLY <4>1, <2>3, <3>3, SMTT(60) DEF Updated, NoStatus
      <4>3. status'[c] \in Int /\ (c \in aborted => c \in aborted')
        BY ONLY <4>1, <2>3, <3>3, <1>1, SMTT(60) DEF Updated, NoStatus
      <4> QED BY ONLY <4>1, <4>2, <4>3, <2>1, <2>3, <3>3, SMTT(60) DEF TakenDone, Executes, Executed, NoStatus, Mod
    <3> QED BY ONLY <1>1, <3>1, <3>2, <3>3, ZenonT(60)
  <2> QED BY ONLY <1>1, <1>2, <2>4, TakenOK(c), ZenonT(60) DEF TakenOK
<1> QED BY <1>3, <1>4

\* A step that leaves the remote handler alone keeps what is done.
LEMMA TakenKept ==
  ASSUME NEW c \in Ctx, TakenOK(c), remoteCh' = remoteCh, remoteMods' = remoteMods,
         TakenDone(c) => TakenDone(c)'
  PROVE  TakenOK(c)'
BY DEF TakenOK

\* The local handler never lowers a status below executed.
LEMMA LocalUpdates ==
  ASSUME TypeOK, UpdateLocal, NEW c \in Ctx
  PROVE  /\ status'[c] \in {NoStatus} \cup 1..6 /\ aborted \subseteq aborted'
         /\ status[c] = NoStatus => status'[c] = NoStatus
         /\ status[c] >= Executed => status'[c] >= Executed
         /\ status[c] = Finished /\ ~Lowers(localMods, c) => status'[c] = Finished
         /\ Finishes(localMods, c) => status'[c] = Finished \/ c \in aborted'
         /\ status'[c] = Waiting => status[c] = Waiting
         /\ status'[c] = Waiting /\ Revokes(localMods, c) => c \in aborted'
<1>1. /\ status' \in [Ctx -> {NoStatus} \cup 1..6] /\ aborted \subseteq aborted'
      /\ \/ c \notin DOMAIN localMods /\ status'[c] = status[c]
         \/ c \in aborted' /\ status'[c] = status[c]
         \/ c \in DOMAIN localMods /\ status[c] # NoStatus /\ status'[c] = Updated(status[c], localMods[c])
  BY UpdatesFacts, ModKinds DEF UpdateLocal, TypeOK
<1>2. c \in DOMAIN localMods => localMods[c] \in LocalMod
  BY BatchElim DEF TypeOK
<1>3. status[c] \in {NoStatus} \cup 1..6 /\ status'[c] \in {NoStatus} \cup 1..6
  BY <1>1 DEF TypeOK
<1>4. CASE status'[c] = status[c] /\ c \in aborted'
  BY ONLY <1>1, <1>3, <1>4, ZenonT(60)
<1>5. CASE status'[c] = status[c] /\ c \notin DOMAIN localMods
  BY ONLY <1>1, <1>3, <1>5, ZenonT(60) DEF Finishes, Revokes
<1>6. CASE c \in DOMAIN localMods /\ status[c] # NoStatus /\ status'[c] = Updated(status[c], localMods[c])
  BY ONLY <1>1, <1>2, <1>3, <1>6, SMTT(60)
     DEF Updated, LocalMod, Mod, Lowers, Finishes, Revokes, NoStatus, Waiting, Illegal, Executed,
         Finishing, Finished
<1> QED BY ONLY <1>1, <1>4, <1>5, <1>6, ZenonT(60)

\* Every step keeps the last word about a confirmed taker.
LEMMA TakenStep ==
  ASSUME TypeOK, TakenInv, [StatusNext]_statusVars
  PROVE  TakenInv'
<1> SUFFICES ASSUME NEW c \in Ctx, takers'[c] = Confirmed PROVE TakenOK(c)'
  BY DEF TakenInv
<1>0. takers[c] = Confirmed => TakenOK(c)
  BY DEF TakenInv
<1>1. CASE RemoteBlock
  <2>1. PICK new \in SUBSET At(takers, Absent), conf \in SUBSET At(takers, New) :
          /\ takers' = Step(takers, new, conf)
          /\ remoteCh' = Append(remoteCh, BlockMods(new, conf, "remote", Executing, Executed))
    BY <1>1 DEF RemoteBlock
  <2> DEFINE b == BlockMods(new, conf, "remote", Executing, Executed)
  <2>2. new \in SUBSET Ctx /\ conf \in SUBSET Ctx
    BY DEF At
  <2>3. b \in ModBatch(RemoteMod)
    BY ONLY <2>2, BatchKinds, ZenonT(60)
  <2>4. c \notin new /\ (c \in conf \/ takers[c] = Confirmed)
    BY <2>1, SMTT(60) DEF Step, New, Confirmed
  <2>5. c \in conf => Executes(b, c)
    BY ONLY <2>4, ZenonT(60) DEF BlockMods, Executes, Mod
  <2>6. takers[c] = Confirmed => c \notin DOMAIN b
    BY ONLY <2>2, SMTT(60) DEF BlockMods, At, Absent, New, Confirmed
  <2>7. remoteMods' = remoteMods /\ UNCHANGED <<status, aborted>>
    BY ONLY <1>1, ZenonT(60) DEF RemoteBlock, recordVars, history
  <2> HIDE DEF b
  <2>8. remoteCh' = Append(remoteCh, b)
    BY ONLY <2>1, ZenonT(60) DEF b
  <2> QED BY ONLY <1>0, <2>3, <2>4, <2>5, <2>6, <2>7, <2>8, TypeOK, TakenAppend, ZenonT(60)
<1>2. CASE RemoteReorg
  <2>1. PICK old \in SUBSET At(takers, New) :
          /\ takers' = [d \in Ctx |-> IF d \in old THEN Absent ELSE takers[d]]
          /\ remoteCh' = Append(remoteCh, Mods(old, "reorg", Waiting))
    BY <1>2 DEF RemoteReorg
  <2> DEFINE b == Mods(old, "reorg", Waiting)
  <2>2. old \in SUBSET Ctx
    BY DEF At
  <2>3. b \in ModBatch(RemoteMod)
    BY ONLY <2>2, BatchKinds, ZenonT(60)
  <2>4. takers[c] = Confirmed /\ c \notin DOMAIN b
    BY <2>1, SMTT(60) DEF Mods, Absent, Confirmed
  <2>5. remoteMods' = remoteMods /\ UNCHANGED <<status, aborted>>
    BY ONLY <1>2, ZenonT(60) DEF RemoteReorg, recordVars, history
  <2> HIDE DEF b
  <2>6. remoteCh' = Append(remoteCh, b)
    BY ONLY <2>1, ZenonT(60) DEF b
  <2> QED BY ONLY <1>0, <2>3, <2>4, <2>5, <2>6, TypeOK, TakenAppend, ZenonT(60)
<1>3. CASE LocalBlock \/ LocalReorg \/ ReplaceAnchors \/ HandleLocal \/ UNCHANGED statusVars
  <2>1. UNCHANGED <<takers, remoteCh, remoteMods, status, aborted>>
    BY ONLY <1>3, ZenonT(60)
    DEF LocalBlock, LocalReorg, ReplaceAnchors, HandleLocal, statusVars, recordVars,
                            sideVars, history
  <2>2. TakenDone(c) => TakenDone(c)'
    BY ONLY <2>1, ZenonT(60) DEF TakenDone
  <2> QED BY ONLY <1>0, <2>1, <2>2, takers'[c] = Confirmed, TakenKept, ZenonT(60)
<1>4. CASE UpdateLocal
  <2>1. UNCHANGED <<takers, remoteCh, remoteMods>>
    BY ONLY <1>4, ZenonT(60) DEF UpdateLocal, sideVars
  <2>2. TakenDone(c) => TakenDone(c)'
    BY ONLY <1>4, TypeOK, LocalUpdates, ZenonT(60) DEF TakenDone
  <2> QED BY ONLY <1>0, <2>1, <2>2, takers'[c] = Confirmed, TakenKept, ZenonT(60)
<1>5. CASE HandleRemote
  <2>1. takers' = takers
    BY <1>5 DEF HandleRemote, sideVars
  <2> QED BY ONLY <1>0, <1>5, <2>1, takers'[c] = Confirmed, TypeOK, TakenHandle, ZenonT(60)
<1>6. CASE UpdateRemote
  <2>1. takers' = takers
    BY <1>6 DEF UpdateRemote, sideVars
  <2> QED BY ONLY <1>0, <1>6, <2>1, takers'[c] = Confirmed, TypeOK, TakenUpdate, ZenonT(60)
<1>7. ASSUME NEW d \in Ctx, StoreWaiting(d)
      PROVE  TakenOK(c)'
  <2>1. UNCHANGED <<takers, remoteCh, remoteMods, aborted>> /\ takers[d] = Absent
        /\ status' = [status EXCEPT ![d] = Waiting]
    BY ONLY <1>7, ZenonT(60) DEF StoreWaiting, sideVars, history
  <2>2. c # d
    BY <2>1, SMTT(60) DEF Absent, Confirmed
  <2>3. status'[c] = status[c]
    BY <2>1, <2>2 DEF TypeOK
  <2>4. TakenDone(c) => TakenDone(c)'
    BY ONLY <2>1, <2>3, ZenonT(60) DEF TakenDone
  <2> QED BY ONLY <1>0, <2>1, <2>4, takers'[c] = Confirmed, TakenKept, ZenonT(60)
<1>8. ASSUME NEW d \in Ctx, RemoveBefore(d)
      PROVE  TakenOK(c)'
  <2>1. UNCHANGED <<takers, remoteCh, remoteMods, aborted>> /\ status' = [status EXCEPT ![d] = NoStatus]
    BY ONLY <1>8, ZenonT(60) DEF RemoveBefore, sideVars, history
  <2>2. status'[c] = status[c] \/ status'[c] = NoStatus
    BY <2>1 DEF TypeOK
  <2>3. TakenDone(c) => TakenDone(c)'
    BY ONLY <2>1, <2>2, ZenonT(60) DEF TakenDone
  <2> QED BY ONLY <1>0, <2>1, <2>3, takers'[c] = Confirmed, TakenKept, ZenonT(60)
<1> QED BY ONLY <1>1, <1>2, <1>3, <1>4, <1>5, <1>6, <1>7, <1>8, [StatusNext]_statusVars, ZenonT(60) DEF StatusNext

-----------------------------------------------------------------------------
(* Finishes *)

\* An event of the local chain keeps the last word, or says it.
LEMMA FinishAppend ==
  ASSUME TypeOK, NEW c \in Ctx, NEW e \in LocalEvent,
         localCh' = Append(localCh, e), localMods' = localMods,
         UNCHANGED <<status, txLog, aborted, crossed>>,
         Finishes(e.mods, c) \/ (FinishOK(c) /\ c \notin DOMAIN e.mods)
  PROVE  FinishOK(c)'
<1> DEFINE q == localCh
           r == Append(q, e)
<1>1. /\ Len(q) \in Nat /\ Len(r) = Len(q) + 1
      /\ \A i \in 1..Len(q) : i \in 1..Len(r) /\ r[i] = q[i]
      /\ r[Len(q) + 1] = e /\ Len(q) + 1 \in 1..Len(r)
      /\ \A i \in 1..Len(r) : i \in 1..Len(q) \/ i = Len(q) + 1
  BY AppendFacts, SMTT(60) DEF TypeOK
<1>2. localCh' = r /\ localMods' = localMods /\ (FinishDone(c)' <=> FinishDone(c))
  BY DEF FinishDone
<1> HIDE DEF q, r
<1>3. CASE Finishes(e.mods, c)
  <2>1. ~Lowers(e.mods, c)
    BY <1>3, SMTT(60) DEF Finishes, Lowers, Mod
  <2>2. \A j \in 1..Len(r) : Lowers(r[j].mods, c) => j < Len(q) + 1
    BY <1>1, <2>1, SMTT(60)
  <2> QED BY ONLY <1>1, <1>2, <1>3, <2>2, ZenonT(60) DEF FinishOK
<1>4. CASE FinishOK(c) /\ c \notin DOMAIN e.mods
  <2>1. ~Lowers(e.mods, c)
    BY <1>4 DEF Lowers
  <2>2. ASSUME \E i \in 1..Len(q) : Finishes(q[i].mods, c)
        PROVE  \E i \in 1..Len(r) : Finishes(r[i].mods, c)
    BY ONLY <1>1, <2>2, ZenonT(60)
  <2>3. ASSUME NEW j \in 1..Len(r), Lowers(r[j].mods, c)
        PROVE  \E i \in 1..Len(r) : j < i /\ Finishes(r[i].mods, c)
    <3>1. j \in 1..Len(q) /\ Lowers(q[j].mods, c)
      BY ONLY <1>1, <2>1, <2>3, ZenonT(60)
    <3>2. PICK i \in 1..Len(q) : j < i /\ Finishes(q[i].mods, c)
      BY ONLY <3>1, <1>4, ZenonT(60) DEF FinishOK, q
    <3> QED BY ONLY <3>2, <1>1, ZenonT(60)
  <2>4. \/ FinishDone(c) \/ Finishes(localMods, c)
        \/ \E i \in 1..Len(q) : Finishes(q[i].mods, c)
    BY <1>4 DEF FinishOK, q
  <2>5. Lowers(localMods, c) => \E i \in 1..Len(q) : Finishes(q[i].mods, c)
    BY <1>4 DEF FinishOK, q
  <2> QED BY ONLY <1>2, <2>2, <2>3, <2>4, <2>5, ZenonT(60) DEF FinishOK
<1> QED BY <1>3, <1>4

\* The handler reads the event; one about anchors says nothing of finishes.
LEMMA FinishHandle ==
  ASSUME TypeOK, AnchorEvents, NEW c \in Ctx, FinishOK(c), HandleLocal
  PROVE  FinishOK(c)'
<1> DEFINE q == localCh
           r == Tail(q)
           ev == q[1]
<1>1. /\ Len(q) \in Nat /\ 1 \in 1..Len(q) /\ Head(q) = q[1] /\ Len(r) = Len(q) - 1
      /\ \A i \in 1..Len(r) : i + 1 \in 1..Len(q) /\ r[i] = q[i + 1]
      /\ \A i \in 1..Len(q) : i # 1 => i - 1 \in 1..Len(r) /\ r[i - 1] = q[i]
  BY TailFacts DEF TypeOK, HandleLocal
<1>2. /\ localCh' = r /\ (FinishDone(c)' <=> FinishDone(c))
      /\ localMods' = IF ev.anchors THEN Mods(At(status, Waiting), "normal", Illegal) ELSE ev.mods
  BY <1>1 DEF HandleLocal, FinishDone, recordVars, history
<1>3. ev.anchors => DOMAIN ev.mods = {}
  BY <1>1 DEF AnchorEvents
<1>4. Finishes(ev.mods, c) => Finishes(localMods', c)
  BY ONLY <1>2, <1>3, ZenonT(60) DEF Finishes
<1>5. Lowers(localMods', c) => Lowers(ev.mods, c)
  BY ONLY <1>2, ZenonT(60) DEF Lowers, Mods
<1>6. ~Finishes(localMods, c)
  BY BatchKinds DEF HandleLocal, Finishes
<1> HIDE DEF q, r, ev
<1>7. ASSUME NEW j \in 1..Len(q), Lowers(q[j].mods, c)
      PROVE  \E i \in 1..Len(q) : j < i /\ Finishes(q[i].mods, c)
  BY ONLY FinishOK(c), <1>7, ZenonT(60) DEF FinishOK, q
<1>8. Lowers(localMods', c) => \E i \in 1..Len(r) : Finishes(r[i].mods, c)
  <2> SUFFICES ASSUME Lowers(ev.mods, c) PROVE \E i \in 1..Len(r) : Finishes(r[i].mods, c)
    BY <1>5
  <2>1. PICK i \in 1..Len(q) : 1 < i /\ Finishes(q[i].mods, c)
    BY <1>1, <1>7 DEF ev
  <2> QED BY ONLY <2>1, <1>1, SMTT(60)
<1>9. ASSUME NEW j \in 1..Len(r), Lowers(r[j].mods, c)
      PROVE  \E i \in 1..Len(r) : j < i /\ Finishes(r[i].mods, c)
  <2>1. j + 1 \in 1..Len(q) /\ Lowers(q[j + 1].mods, c)
    BY ONLY <1>1, <1>9, ZenonT(60)
  <2>2. PICK i \in 1..Len(q) : j + 1 < i /\ Finishes(q[i].mods, c)
    BY ONLY <2>1, <1>7, ZenonT(60)
  <2>3. i # 1 /\ j < i - 1
    BY ONLY <2>2, <1>1, <1>9, SMTT(60)
  <2> QED BY ONLY <2>2, <2>3, <1>1, ZenonT(60)
<1>10. FinishDone(c) \/ Finishes(localMods', c) \/ \E i \in 1..Len(r) : Finishes(r[i].mods, c)
  <2>1. CASE FinishDone(c)
    BY <2>1
  <2>2. CASE \E i \in 1..Len(q) : Finishes(q[i].mods, c)
    <3>1. PICK i \in 1..Len(q) : Finishes(q[i].mods, c)
      BY <2>2
    <3> QED BY ONLY <3>1, <1>1, <1>4, ZenonT(60) DEF ev
  <2> QED BY ONLY <2>1, <2>2, <1>6, FinishOK(c), ZenonT(60) DEF FinishOK, q
<1> QED BY ONLY <1>2, <1>8, <1>9, <1>10, ZenonT(60) DEF FinishOK

\* What the local handler writes is the last word so far.
LEMMA FinishUpdate ==
  ASSUME TypeOK, NEW c \in Ctx, FinishOK(c), UpdateLocal
  PROVE  FinishOK(c)'
<1>1. localCh' = localCh /\ localMods' = NoMods /\ UNCHANGED <<txLog, crossed>>
  BY DEF UpdateLocal
<1>2. ~Lowers(localMods', c)
  BY ONLY <1>1, BatchKinds, ZenonT(60) DEF Lowers
<1>3. CASE \E i \in 1..Len(localCh) : Finishes(localCh[i].mods, c)
  BY ONLY <1>1, <1>2, <1>3, FinishOK(c), ZenonT(60) DEF FinishOK
<1>4. CASE ~\E i \in 1..Len(localCh) : Finishes(localCh[i].mods, c)
  <2>1. ~Lowers(localMods, c) /\ (FinishDone(c) \/ Finishes(localMods, c))
    BY ONLY <1>4, FinishOK(c), ZenonT(60) DEF FinishOK
  <2>2. /\ aborted \subseteq aborted'
        /\ status[c] = NoStatus => status'[c] = NoStatus
        /\ status[c] = Finished /\ ~Lowers(localMods, c) => status'[c] = Finished
        /\ Finishes(localMods, c) => status'[c] = Finished \/ c \in aborted'
    BY LocalUpdates
  <2>3. FinishDone(c)'
    BY ONLY <1>1, <2>1, <2>2, ZenonT(60) DEF FinishDone
  <2> QED BY ONLY <1>1, <1>2, <2>3, FinishOK(c), ZenonT(60) DEF FinishOK
<1> QED BY <1>3, <1>4

\* A step that leaves the local handler alone keeps what is done.
LEMMA FinishKept ==
  ASSUME NEW c \in Ctx, FinishOK(c), localCh' = localCh, localMods' = localMods,
         FinishDone(c) => FinishDone(c)'
  PROVE  FinishOK(c)'
BY DEF FinishOK

\* What the remote handler lowers is noted.
LEMMA RemoteUpdates ==
  ASSUME TypeOK, UpdateRemote, NEW c \in Ctx
  PROVE  /\ aborted \subseteq aborted' /\ crossed \subseteq crossed' /\ reborn \subseteq reborn'
         /\ status[c] = NoStatus => status'[c] = NoStatus
         /\ status[c] = Finished => status'[c] = Finished \/ c \in crossed'
         /\ status'[c] = Waiting => status[c] = Waiting \/ c \in reborn'
<1>1. /\ status' \in [Ctx -> {NoStatus} \cup 1..6] /\ aborted \subseteq aborted'
      /\ \/ c \notin DOMAIN remoteMods /\ status'[c] = status[c]
         \/ c \in aborted' /\ status'[c] = status[c]
         \/ c \in DOMAIN remoteMods /\ status[c] # NoStatus /\ status'[c] = Updated(status[c], remoteMods[c])
  BY UpdatesFacts, ModKinds DEF UpdateRemote, TypeOK
<1>2. c \in DOMAIN remoteMods => remoteMods[c] \in RemoteMod
  BY BatchElim DEF TypeOK
<1>3. status[c] \in {NoStatus} \cup 1..6 /\ status'[c] \in {NoStatus} \cup 1..6
  BY <1>1 DEF TypeOK
<1>4. /\ crossed \subseteq crossed' /\ reborn \subseteq reborn'
      /\ status'[c] < status[c] => c \in reborn'
      /\ status'[c] < status[c] /\ status[c] > Executing => c \in crossed'
  BY DEF UpdateRemote
<1>5. CASE status'[c] = status[c]
  BY ONLY <1>1, <1>4, <1>5, ZenonT(60)
<1>6. CASE c \in DOMAIN remoteMods /\ status[c] # NoStatus /\ status'[c] = Updated(status[c], remoteMods[c])
  BY ONLY <1>1, <1>2, <1>3, <1>4, <1>6, SMTT(60)
     DEF Updated, RemoteMod, Mod, NoStatus, Waiting, Executing, Executed, Finished
<1> QED BY ONLY <1>1, <1>5, <1>6, ZenonT(60)

\* Every step keeps the last word about a confirmed finish.
LEMMA FinishStep ==
  ASSUME TypeOK, AnchorEvents, FinishInv, [StatusNext]_statusVars
  PROVE  FinishInv'
<1> SUFFICES ASSUME NEW c \in Ctx, finishes'[c] = Confirmed PROVE FinishOK(c)'
  BY DEF FinishInv
<1>0. finishes[c] = Confirmed => FinishOK(c)
  BY DEF FinishInv
<1>1. CASE LocalBlock
  <2>1. PICK new \in SUBSET At(finishes, Absent), conf \in SUBSET At(finishes, New) :
          /\ finishes' = Step(finishes, new, conf)
          /\ localCh' = Append(localCh, [anchors |-> FALSE,
                          mods |-> BlockMods(new, conf, "normal", Finishing, Finished)])
    BY <1>1 DEF LocalBlock
  <2> DEFINE b == BlockMods(new, conf, "normal", Finishing, Finished)
             e == [anchors |-> FALSE, mods |-> b]
  <2>2. new \in SUBSET Ctx /\ conf \in SUBSET Ctx
    BY DEF At
  <2>3. b \in ModBatch(LocalMod)
    BY ONLY <2>2, BatchKinds, ZenonT(60)
  <2>4. c \notin new /\ (c \in conf \/ finishes[c] = Confirmed)
    BY <2>1, SMTT(60) DEF Step, New, Confirmed
  <2>5. c \in conf => Finishes(b, c)
    BY ONLY <2>4, ZenonT(60) DEF BlockMods, Finishes, Mod
  <2>6. finishes[c] = Confirmed => c \notin DOMAIN b
    BY ONLY <2>2, SMTT(60) DEF BlockMods, At, Absent, New, Confirmed
  <2>7. localMods' = localMods /\ UNCHANGED <<status, txLog, aborted, crossed>>
    BY ONLY <1>1, ZenonT(60) DEF LocalBlock, recordVars, history
  <2> HIDE DEF b
  <2>8. e \in LocalEvent /\ e.mods = b
    BY ONLY <2>3, ZenonT(60) DEF LocalEvent
  <2>9. localCh' = Append(localCh, e)
    BY ONLY <2>1, ZenonT(60) DEF b
  <2> HIDE DEF e
  <2> QED BY ONLY <1>0, <2>4, <2>5, <2>6, <2>7, <2>8, <2>9, TypeOK, FinishAppend, ZenonT(60)
<1>2. CASE LocalReorg
  <2>1. PICK old \in SUBSET At(finishes, New) :
          /\ finishes' = [d \in Ctx |-> IF d \in old THEN Absent ELSE finishes[d]]
          /\ localCh' = Append(localCh, [anchors |-> FALSE, mods |-> Mods(old, "reorg", Executed)])
    BY <1>2 DEF LocalReorg
  <2> DEFINE b == Mods(old, "reorg", Executed)
             e == [anchors |-> FALSE, mods |-> b]
  <2>2. old \in SUBSET Ctx
    BY DEF At
  <2>3. b \in ModBatch(LocalMod)
    BY ONLY <2>2, BatchKinds, ZenonT(60)
  <2>4. finishes[c] = Confirmed /\ c \notin DOMAIN b
    BY <2>1, SMTT(60) DEF Mods, Absent, Confirmed
  <2>5. localMods' = localMods /\ UNCHANGED <<status, txLog, aborted, crossed>>
    BY ONLY <1>2, ZenonT(60) DEF LocalReorg, recordVars, history
  <2> HIDE DEF b
  <2>6. e \in LocalEvent /\ e.mods = b
    BY ONLY <2>3, ZenonT(60) DEF LocalEvent
  <2>7. localCh' = Append(localCh, e)
    BY ONLY <2>1, ZenonT(60) DEF b
  <2> HIDE DEF e
  <2> QED BY ONLY <1>0, <2>4, <2>5, <2>6, <2>7, TypeOK, FinishAppend, ZenonT(60)
<1>3. CASE ReplaceAnchors
  <2> DEFINE e == [anchors |-> TRUE, mods |-> NoMods]
  <2>1. e \in LocalEvent /\ e.mods = NoMods
    BY BatchKinds DEF LocalEvent
  <2>2. finishes' = finishes /\ localMods' = localMods /\ UNCHANGED <<status, txLog, aborted, crossed>>
    BY ONLY <1>3, ZenonT(60) DEF ReplaceAnchors, recordVars, history
  <2>3. localCh' = Append(localCh, e)
    BY <1>3 DEF ReplaceAnchors
  <2> HIDE DEF e
  <2>4. c \notin DOMAIN e.mods
    BY <2>1, BatchKinds
  <2> QED BY ONLY <1>0, <2>1, <2>2, <2>3, <2>4, finishes'[c] = Confirmed, TypeOK, FinishAppend, ZenonT(60)
<1>4. CASE HandleLocal
  <2>1. finishes' = finishes
    BY <1>4 DEF HandleLocal, sideVars
  <2> QED BY ONLY <1>0, <1>4, <2>1, finishes'[c] = Confirmed, TypeOK, AnchorEvents, FinishHandle, ZenonT(60)
<1>5. CASE UpdateLocal
  <2>1. finishes' = finishes
    BY <1>5 DEF UpdateLocal, sideVars
  <2> QED BY ONLY <1>0, <1>5, <2>1, finishes'[c] = Confirmed, TypeOK, FinishUpdate, ZenonT(60)
<1>6. CASE RemoteBlock \/ RemoteReorg \/ HandleRemote \/ UNCHANGED statusVars
  <2>1. UNCHANGED <<finishes, localCh, localMods, status, txLog, aborted, crossed>>
    BY ONLY <1>6, ZenonT(60)
    DEF RemoteBlock, RemoteReorg, HandleRemote, statusVars, recordVars, sideVars, history
  <2>2. FinishDone(c) => FinishDone(c)'
    BY ONLY <2>1, ZenonT(60) DEF FinishDone
  <2> QED BY ONLY <1>0, <2>1, <2>2, finishes'[c] = Confirmed, FinishKept, ZenonT(60)
<1>7. CASE UpdateRemote
  <2>1. UNCHANGED <<finishes, localCh, localMods, txLog>>
    BY ONLY <1>7, ZenonT(60) DEF UpdateRemote, sideVars
  <2>2. FinishDone(c) => FinishDone(c)'
    BY ONLY <1>7, <2>1, TypeOK, RemoteUpdates, ZenonT(60) DEF FinishDone
  <2> QED BY ONLY <1>0, <2>1, <2>2, finishes'[c] = Confirmed, FinishKept, ZenonT(60)
<1>8. ASSUME NEW d \in Ctx, StoreWaiting(d)
      PROVE  FinishOK(c)'
  <2>1. /\ UNCHANGED <<finishes, localCh, localMods, txLog, aborted, crossed>>
        /\ status[d] = NoStatus /\ d \notin txLog /\ status' = [status EXCEPT ![d] = Waiting]
    BY ONLY <1>8, ZenonT(60) DEF StoreWaiting, sideVars, history
  <2>2. status'[c] = status[c] \/ c = d
    BY <2>1 DEF TypeOK
  <2>3. FinishDone(c) => FinishDone(c)'
    BY ONLY <2>1, <2>2, SMTT(60) DEF FinishDone, NoStatus, Finished
  <2> QED BY ONLY <1>0, <2>1, <2>3, finishes'[c] = Confirmed, FinishKept, ZenonT(60)
<1>9. ASSUME NEW d \in Ctx, RemoveBefore(d)
      PROVE  FinishOK(c)'
  <2>1. /\ UNCHANGED <<finishes, localCh, localMods, aborted, crossed>>
        /\ txLog' = txLog \cup {d} /\ status' = [status EXCEPT ![d] = NoStatus]
    BY ONLY <1>9, ZenonT(60) DEF RemoveBefore, sideVars, history
  <2>2. status'[c] = status[c] \/ (c = d /\ status'[c] = NoStatus)
    BY <2>1 DEF TypeOK
  <2>3. FinishDone(c) => FinishDone(c)'
    BY ONLY <2>1, <2>2, ZenonT(60) DEF FinishDone
  <2> QED BY ONLY <1>0, <2>1, <2>3, finishes'[c] = Confirmed, FinishKept, ZenonT(60)
<1> QED BY ONLY <1>1, <1>2, <1>3, <1>4, <1>5, <1>6, <1>7, <1>8, <1>9, [StatusNext]_statusVars, ZenonT(60) DEF StatusNext

-----------------------------------------------------------------------------
(* Changes of anchors *)

\* The local chain sends an event, which may be about anchors.
LEMMA AnchorAppend ==
  ASSUME TypeOK, NEW e \in LocalEvent, localCh' = Append(localCh, e)
  PROVE  /\ AnchorEvents /\ (e.anchors => DOMAIN e.mods = {}) => AnchorEvents'
         /\ e.anchors \/ (\E i \in 1..Len(localCh) : localCh[i].anchors) =>
              \E i \in 1..Len(localCh') : localCh'[i].anchors
<1> DEFINE q == localCh
           r == Append(q, e)
<1>1. /\ \A i \in 1..Len(q) : i \in 1..Len(r) /\ r[i] = q[i]
      /\ r[Len(q) + 1] = e /\ Len(q) + 1 \in 1..Len(r)
      /\ \A i \in 1..Len(r) : i \in 1..Len(q) \/ i = Len(q) + 1
  BY AppendFacts, SMTT(60) DEF TypeOK
<1>2. localCh' = r
  OBVIOUS
<1> HIDE DEF r
<1> QED BY ONLY <1>1, <1>2, ZenonT(60) DEF AnchorEvents

\* What the actions on localCh append.
LEMMA LocalEvents ==
  ASSUME TypeOK, LocalBlock \/ LocalReorg \/ ReplaceAnchors
  PROVE  \E e \in LocalEvent :
           /\ localCh' = Append(localCh, e)
           /\ e.anchors <=> revoked' # revoked
           /\ e.anchors => DOMAIN e.mods = {}
           /\ UNCHANGED <<status, localMods, reborn, aborted>>
           /\ revoked' => revoked \/ e.anchors
<1>1. CASE LocalBlock
  <2>1. PICK new \in SUBSET At(finishes, Absent), conf \in SUBSET At(finishes, New) :
          localCh' = Append(localCh, [anchors |-> FALSE,
                       mods |-> BlockMods(new, conf, "normal", Finishing, Finished)])
    BY <1>1 DEF LocalBlock
  <2> DEFINE b == BlockMods(new, conf, "normal", Finishing, Finished)
  <2>2. new \in SUBSET Ctx /\ conf \in SUBSET Ctx
    BY DEF At
  <2>3. b \in ModBatch(LocalMod)
    BY ONLY <2>2, BatchKinds, ZenonT(60)
  <2>4. UNCHANGED <<status, revoked, localMods, reborn, aborted>>
    BY ONLY <1>1, ZenonT(60) DEF LocalBlock, recordVars, history
  <2> HIDE DEF b
  <2>5. localCh' = Append(localCh, [anchors |-> FALSE, mods |-> b])
    BY ONLY <2>1, ZenonT(60) DEF b
  <2>6. [anchors |-> FALSE, mods |-> b] \in LocalEvent /\ ~[anchors |-> FALSE, mods |-> b].anchors
    BY ONLY <2>3, ZenonT(60) DEF LocalEvent
  <2> QED BY ONLY <2>4, <2>5, <2>6, ZenonT(60)
<1>2. CASE LocalReorg
  <2>1. PICK old \in SUBSET At(finishes, New) :
          localCh' = Append(localCh, [anchors |-> FALSE, mods |-> Mods(old, "reorg", Executed)])
    BY <1>2 DEF LocalReorg
  <2> DEFINE b == Mods(old, "reorg", Executed)
  <2>2. old \in SUBSET Ctx
    BY DEF At
  <2>3. b \in ModBatch(LocalMod)
    BY ONLY <2>2, BatchKinds, ZenonT(60)
  <2>4. UNCHANGED <<status, revoked, localMods, reborn, aborted>>
    BY ONLY <1>2, ZenonT(60) DEF LocalReorg, recordVars, history
  <2> HIDE DEF b
  <2>5. localCh' = Append(localCh, [anchors |-> FALSE, mods |-> b])
    BY ONLY <2>1, ZenonT(60) DEF b
  <2>6. [anchors |-> FALSE, mods |-> b] \in LocalEvent /\ ~[anchors |-> FALSE, mods |-> b].anchors
    BY ONLY <2>3, ZenonT(60) DEF LocalEvent
  <2> QED BY ONLY <2>4, <2>5, <2>6, ZenonT(60)
<1>3. CASE ReplaceAnchors
  <2> DEFINE e == [anchors |-> TRUE, mods |-> NoMods]
  <2>1. e \in LocalEvent /\ e.anchors /\ DOMAIN e.mods = {}
    BY BatchKinds DEF LocalEvent
  <2>2. /\ localCh' = Append(localCh, e) /\ ~revoked /\ revoked'
        /\ UNCHANGED <<status, localMods, reborn, aborted>>
    BY <1>3 DEF ReplaceAnchors, recordVars, history
  <2>3. revoked' # revoked
    BY ONLY <2>2, ZenonT(60)
  <2> HIDE DEF e
  <2> QED BY ONLY <2>1, <2>2, <2>3, ZenonT(60)
<1> QED BY <1>1, <1>2, <1>3

\* Every step keeps that replaced anchors are on their way to the store.
LEMMA RevokeStep ==
  ASSUME TypeOK, AnchorEvents, RevokeInv, [StatusNext]_statusVars
  PROVE  AnchorEvents' /\ RevokeInv'
<1>1. CASE LocalBlock \/ LocalReorg \/ ReplaceAnchors
  <2>1. PICK e \in LocalEvent :
           /\ localCh' = Append(localCh, e)
           /\ e.anchors => DOMAIN e.mods = {}
           /\ UNCHANGED <<status, localMods, reborn, aborted>>
           /\ revoked' => revoked \/ e.anchors
    BY ONLY <1>1, TypeOK, LocalEvents, ZenonT(60)
  <2>2. /\ AnchorEvents'
        /\ e.anchors \/ (\E i \in 1..Len(localCh) : localCh[i].anchors) =>
              \E i \in 1..Len(localCh') : localCh'[i].anchors
    BY ONLY <2>1, TypeOK, AnchorEvents, AnchorAppend, ZenonT(60)
  <2> QED BY ONLY <2>1, <2>2, RevokeInv, ZenonT(60) DEF RevokeInv, Revokes
<1>2. CASE HandleLocal
  <2> DEFINE q == localCh
             r == Tail(q)
             ev == q[1]
  <2>1. /\ Len(q) \in Nat /\ 1 \in 1..Len(q) /\ Head(q) = q[1] /\ Len(r) = Len(q) - 1
        /\ \A i \in 1..Len(r) : i + 1 \in 1..Len(q) /\ r[i] = q[i + 1]
        /\ \A i \in 1..Len(q) : i # 1 => i - 1 \in 1..Len(r) /\ r[i - 1] = q[i]
    BY <1>2, TailFacts DEF TypeOK, HandleLocal
  <2>2. /\ localCh' = r /\ UNCHANGED <<revoked, status, reborn, aborted>> /\ localMods = NoMods
        /\ localMods' = IF ev.anchors THEN Mods(At(status, Waiting), "normal", Illegal) ELSE ev.mods
    BY <1>2, <2>1 DEF HandleLocal, recordVars, sideVars, history
  <2>3. \A c \in Ctx : ~Revokes(localMods, c)
    BY ONLY <2>2, BatchKinds, ZenonT(60) DEF Revokes
  <2>4. ev.anchors => \A c \in Ctx : status[c] = Waiting => Revokes(localMods', c)
    BY ONLY <2>2, ZenonT(60) DEF Revokes, Mods, At, Mod
  <2> HIDE DEF r
  <2>5. AnchorEvents'
    BY ONLY <2>1, <2>2, AnchorEvents, ZenonT(60) DEF AnchorEvents
  <2>6. (\E i \in 1..Len(q) : q[i].anchors) => ev.anchors \/ \E i \in 1..Len(r) : r[i].anchors
    BY ONLY <2>1, ZenonT(60)
  <2> QED BY ONLY <2>2, <2>3, <2>4, <2>5, <2>6, RevokeInv, ZenonT(60) DEF RevokeInv
<1>3. CASE UpdateLocal
  <2>1. UNCHANGED <<localCh, revoked, reborn>>
    BY ONLY <1>3, ZenonT(60) DEF UpdateLocal, sideVars
  <2>2. \A c \in Ctx : /\ aborted \subseteq aborted'
                       /\ status'[c] = Waiting => status[c] = Waiting
                       /\ status'[c] = Waiting /\ Revokes(localMods, c) => c \in aborted'
    BY ONLY <1>3, TypeOK, LocalUpdates, ZenonT(60)
  <2>3. AnchorEvents'
    BY ONLY <2>1, AnchorEvents, ZenonT(60) DEF AnchorEvents
  <2>4. ASSUME NEW c \in Ctx, status'[c] = Waiting,
               status[c] = Waiting => c \in reborn \cup aborted \/ Revokes(localMods, c)
        PROVE  c \in reborn' \cup aborted'
    BY ONLY <2>1, <2>2, <2>4, ZenonT(60)
  <2> QED BY ONLY <2>1, <2>3, <2>4, RevokeInv, ZenonT(60) DEF RevokeInv
<1>4. CASE UpdateRemote
  <2>1. UNCHANGED <<localCh, revoked, localMods>>
    BY ONLY <1>4, ZenonT(60) DEF UpdateRemote, sideVars
  <2>2. \A c \in Ctx : /\ aborted \subseteq aborted' /\ reborn \subseteq reborn'
                       /\ status'[c] = Waiting => status[c] = Waiting \/ c \in reborn'
    BY ONLY <1>4, TypeOK, RemoteUpdates, ZenonT(60)
  <2>3. AnchorEvents'
    BY ONLY <2>1, AnchorEvents, ZenonT(60) DEF AnchorEvents
  <2>4. ASSUME NEW c \in Ctx, status'[c] = Waiting,
               status[c] = Waiting => c \in reborn \cup aborted \/ Revokes(localMods, c)
        PROVE  c \in reborn' \cup aborted' \/ Revokes(localMods', c)
    BY ONLY <2>1, <2>2, <2>4, ZenonT(60)
  <2> QED BY ONLY <2>1, <2>3, <2>4, RevokeInv, ZenonT(60) DEF RevokeInv
<1>5. CASE RemoteBlock \/ RemoteReorg \/ HandleRemote \/ UNCHANGED statusVars
  <2>1. UNCHANGED <<localCh, localMods, revoked, status, reborn, aborted>>
    BY ONLY <1>5, ZenonT(60)
    DEF RemoteBlock, RemoteReorg, HandleRemote, statusVars, recordVars, sideVars, history
  <2> QED BY ONLY <2>1, AnchorEvents, RevokeInv, ZenonT(60) DEF AnchorEvents, RevokeInv, Revokes
<1>6. ASSUME NEW d \in Ctx, StoreWaiting(d)
      PROVE  AnchorEvents' /\ RevokeInv'
  <2>1. localCh' = localCh /\ ~revoked'
    BY ONLY <1>6, ZenonT(60) DEF StoreWaiting, sideVars
  <2> QED BY ONLY <2>1, AnchorEvents, ZenonT(60) DEF AnchorEvents, RevokeInv
<1>7. ASSUME NEW d \in Ctx, RemoveBefore(d)
      PROVE  AnchorEvents' /\ RevokeInv'
  <2>1. /\ UNCHANGED <<localCh, localMods, revoked, reborn, aborted>>
        /\ status' = [status EXCEPT ![d] = NoStatus]
    BY ONLY <1>7, ZenonT(60) DEF RemoveBefore, sideVars, history
  <2>2. \A c \in Ctx : status'[c] = Waiting => status[c] = Waiting
    BY <2>1, SMTT(60) DEF TypeOK, NoStatus, Waiting
  <2> QED BY ONLY <2>1, <2>2, AnchorEvents, RevokeInv, ZenonT(60) DEF AnchorEvents, RevokeInv, Revokes
<1> QED BY ONLY <1>1, <1>2, <1>3, <1>4, <1>5, <1>6, <1>7, [StatusNext]_statusVars, ZenonT(60) DEF StatusNext

-----------------------------------------------------------------------------
(* Theorems *)

\* A store that starts with no events on their way satisfies the invariant.
LEMMA InitInv == StatusInit => StatusInv
<1> SUFFICES ASSUME StatusInit PROVE StatusInv
  OBVIOUS
<1>1. TypeOK
  <2>1. localMods \in ModBatch(LocalMod) /\ remoteMods \in ModBatch(RemoteMod)
    BY BatchKinds DEF StatusInit
  <2>2. localCh \in Seq(LocalEvent) /\ remoteCh \in Seq(ModBatch(RemoteMod))
    BY SMTT(60) DEF StatusInit
  <2>3. takers \in [Ctx -> 0..2] /\ finishes \in [Ctx -> 0..2]
    BY SMTT(60) DEF StatusInit, Absent
  <2>4. status \in [Ctx -> {NoStatus} \cup 1..6]
    BY SMTT(60) DEF StatusInit, Waiting
  <2>5. /\ revoked \in BOOLEAN /\ txLog \in SUBSET Ctx /\ aborted \in SUBSET Ctx
        /\ crossed \in SUBSET Ctx /\ reborn \in SUBSET Ctx
    BY DEF StatusInit
  <2> QED BY ONLY <2>1, <2>2, <2>3, <2>4, <2>5, ZenonT(60) DEF TypeOK
<1>2. TakenInv /\ FinishInv
  BY SMTT(60) DEF StatusInit, TakenInv, FinishInv, Absent, Confirmed
<1>3. AnchorEvents /\ RevokeInv
  BY SMTT(60) DEF StatusInit, AnchorEvents, RevokeInv
<1> QED BY ONLY <1>1, <1>2, <1>3, ZenonT(60) DEF StatusInv

\* The last word about every transaction is on its way or in the store.
THEOREM StatusInvHolds == StatusSpec => []StatusInv
<1>1. StatusInv /\ [StatusNext]_statusVars => StatusInv'
  BY ONLY TypeStep, TakenStep, FinishStep, RevokeStep, ZenonT(60) DEF StatusInv
<1> QED BY ONLY <1>1, InitInv, PTL DEF StatusSpec

\* Once both handlers have written their events, a stored transaction whose
\* taker is confirmed is executed, finishing or finished, unless Updates left
\* out its batch, for any number of transactions, events and reorganisations.
THEOREM TakenIsExecutedHolds == StatusSpec => []TakenIsExecuted
<1>1. StatusInv => TakenIsExecuted
  <2> SUFFICES ASSUME StatusInv, Quiet, NEW c \in Ctx, takers[c] = Confirmed, status[c] # NoStatus
               PROVE  status[c] >= Executed \/ c \in aborted
    BY DEF TakenIsExecuted
  <2>1. TakenOK(c)
    BY DEF StatusInv, TakenInv
  <2>2. remoteCh = <<>> /\ ~Executes(remoteMods, c)
    BY BatchKinds DEF Quiet, Executes
  <2>3. ~\E i \in 1..Len(remoteCh) : Executes(remoteCh[i], c)
    BY ONLY <2>2, SMTT(60)
  <2> QED BY <2>1, <2>2, <2>3 DEF TakenOK, TakenDone
<1> QED BY ONLY <1>1, StatusInvHolds, PTL

\* Once both handlers have written their events, a stored transaction whose
\* finish is confirmed is finished, unless Updates left out its batch or its
\* taker was reorganised here after others had it finished.
THEOREM FinishedIsFinishedHolds == StatusSpec => []FinishedIsFinished
<1>1. StatusInv => FinishedIsFinished
  <2> SUFFICES ASSUME StatusInv, Quiet, NEW c \in Ctx, finishes[c] = Confirmed, status[c] # NoStatus
               PROVE  status[c] = Finished \/ c \in aborted \cup crossed
    BY DEF FinishedIsFinished
  <2>1. FinishOK(c)
    BY DEF StatusInv, FinishInv
  <2>2. localCh = <<>> /\ ~Finishes(localMods, c)
    BY BatchKinds DEF Quiet, Finishes
  <2>3. ~\E i \in 1..Len(localCh) : Finishes(localCh[i].mods, c)
    BY ONLY <2>2, SMTT(60)
  <2> QED BY <2>1, <2>2, <2>3 DEF FinishOK, FinishDone
<1> QED BY ONLY <1>1, StatusInvHolds, PTL

\* After the local handler has written a change of anchors, no transaction that
\* the replaced anchors signed is waiting, unless a reorganisation of its taker
\* made it waiting again or Updates left out its batch.
THEOREM RevokedIsNotOfferedHolds == StatusSpec => []RevokedIsNotOffered
<1>1. StatusInv => RevokedIsNotOffered
  <2> SUFFICES ASSUME StatusInv, revoked, localMods = NoMods,
                      \A i \in DOMAIN localCh : ~localCh[i].anchors,
                      NEW c \in Ctx, status[c] = Waiting
               PROVE  c \in reborn \cup aborted
    BY DEF RevokedIsNotOffered
  <2>1. DOMAIN localCh = 1..Len(localCh)
    BY SMTT(60) DEF StatusInv, TypeOK
  <2>2. ~Revokes(localMods, c)
    BY BatchKinds DEF Revokes
  <2> QED BY <2>1, <2>2 DEF StatusInv, RevokeInv
<1> QED BY ONLY <1>1, StatusInvHolds, PTL

-----------------------------------------------------------------------------
(* The inductive invariant.  st stands for stranded and cf for confirmed.  *)

Cws == [fork : Fork, sigs : Seq(Signer), num : Nat, status : Nat]

\* Every signature is of another anchor.
Signed(w) ==
  /\ w \in Cws
  /\ \A i, j \in DOMAIN w.sigs : w.sigs[i] = w.sigs[j] => i = j

Queueable(w) == Signed(w) /\ w.status = Pending

\* What the pool or a commit holds of c: it has the own signature, unless a
\* rollback took the wrong one.
Held(c, w, st, cf) ==
  /\ Queueable(w)
  /\ Self \in signers(w) \/ <<c, "signature">> \in st
  /\ w.fork = "main" => c \in cf

Batch == UNION {[S -> Cws] : S \in SUBSET Ctx}

\* A commit: all of it complete
Complete(m, st, cf) ==
  /\ m \in Batch
  /\ \A c \in DOMAIN m : Held(c, m[c], st, cf) /\ Len(m[c].sigs) >= Require

Stored(c, w, st, cf, vd, on) ==
  /\ Signed(w)
  /\ w.status \in {Pending, Waiting, Executing, Executed, Finished}
  /\ Self \in signers(w) \/ <<c, "signature">> \in st
  /\ w.fork = "main" => c \in cf
  /\ w.status = Waiting => signers(w) \subseteq vd /\ Len(w.sigs) >= Require
  /\ w.status = Executed => on >= 3
  /\ w.status = Finished => on = 4
  /\ w.status = Pending /\ w.fork = "side" /\ c \in cf => <<c, "reorg">> \in st

TypeInv ==
  /\ pending \in [Ctx -> Cws \cup {None}]
  /\ queued \in [Ctx -> Cws \cup {None}]
  /\ store \in [Ctx -> Cws \cup {None}]
  /\ loop \in [pc : {"select", "add", "store"}, txs : SUBSET Ctx, fork : Fork, num : Nat]
  /\ peer \in [signer : Signer, txs : SUBSET Ctx, fork : Fork]
  /\ msgs \in Seq(Batch)
  /\ onchain \in [Ctx -> 0..4]
  /\ valid \subseteq Signer
  /\ confirmed \subseteq Ctx

PendingInv == \A c \in Ctx : pending[c] # None => Held(c, pending[c], stranded, confirmed)

QueuedInv == \A c \in Ctx : queued[c] # None => Queueable(queued[c])

FlightInv == \A m \in Flying : Complete(m, stranded, confirmed)

StoreInv ==
  \A c \in Ctx : store[c] # None =>
    Stored(c, store[c], stranded, confirmed, valid, onchain[c])

\* The side fork is left for the main fork.
LoopInv ==
  /\ loop.fork = "main" => loop.txs \subseteq confirmed
  /\ loop.fork = "side" => loop.txs \cap confirmed = {}

NoticedInv ==
  \A c \in Ctx : onchain[c] = 3 =>
    store[c].status = Executed \/ <<c, "missed">> \in stranded

Excused(c, st) ==
  \E why \in {"reorg", "fork", "discarded", "signature", "late", "crash"} : <<c, why>> \in st

\* Commit m has c as it was confirmed.
Carries(m, c) == c \in DOMAIN m /\ m[c].fork = "main"

OnItsWay(c, ms) == \E m \in ms : Carries(m, c)

\* The loop has c in its hands and has not added it yet.
ToAdd(c, lp) == lp.pc = "add" /\ c \in lp.txs

SafeInv ==
  \A c \in confirmed \ finished : store[c].status = Pending =>
    \/ ToAdd(c, loop)
    \/ OnItsWay(c, Flying)
    \/ pending[c].fork = "main"
    \/ Excused(c, stranded)

PoolInv ==
  /\ TypeInv /\ PendingInv /\ QueuedInv /\ FlightInv /\ StoreInv
  /\ LoopInv /\ NoticedInv /\ SafeInv

-----------------------------------------------------------------------------
(* Signatures *)

\* No transaction is not a transaction.
LEMMA NoneFacts ==
  /\ None \notin Cws /\ None.fork = "none" /\ None.status = Pending
  /\ \A w \in Cws : w # None /\ w.fork \in Fork
<1>1. None.fork = "none" /\ None.status = Pending
  BY DEF None
<1>2. \A w \in Cws : w.fork \in Fork
  BY DEF Cws
<1>3. "none" \notin Fork
  BY DEF Fork
<1> QED BY <1>1, <1>2, <1>3

\* NewCrossTransactionWithSignatures has one signature.
LEMMA NewSigned ==
  ASSUME NEW s \in Signer, NEW fork \in Fork, NEW num \in Nat,
         NEW t, t = NewCws(s, fork, num)
  PROVE  /\ Queueable(t) /\ t.fork = fork /\ t.num = num
         /\ signers(t) = {s} /\ Len(t.sigs) = 1
<1>1. t = [fork |-> fork, sigs |-> <<s>>, num |-> num, status |-> Pending]
  BY DEF NewCws
<1>2. t.sigs = <<s>> /\ t.fork = fork /\ t.num = num /\ t.status = Pending
  BY <1>1, SMTT(60)
<1>3. <<s>> \in Seq(Signer) /\ DOMAIN <<s>> = {1} /\ <<s>>[1] = s /\ Len(<<s>>) = 1
  BY SMTT(60)
<1>4. Pending \in Nat
  BY DEF Pending
<1>5. t \in Cws
  BY <1>1, <1>3, <1>4, SMTT(60) DEF Cws
<1>6. \A i, j \in DOMAIN t.sigs : t.sigs[i] = t.sigs[j] => i = j
  BY <1>2, <1>3, SMTT(60)
<1>7. signers(t) = {s}
  BY <1>2, <1>3 DEF signers
<1> QED BY <1>2, <1>3, <1>5, <1>6, <1>7 DEF Queueable, Signed

\* AddSignature adds the signature of another anchor and nothing else.
LEMMA AddSigned ==
  ASSUME NEW w, NEW s \in Signer, Queueable(w), s \notin signers(w),
         NEW t, t = AddSignature(w, s)
  PROVE  /\ Queueable(t) /\ t.fork = w.fork /\ t # w
         /\ signers(t) = signers(w) \cup {s} /\ Len(t.sigs) = Len(w.sigs) + 1
<1>1. w \in Cws /\ w.sigs \in Seq(Signer) /\ w.status = Pending
  BY DEF Queueable, Signed, Cws
<1>2. t = [w EXCEPT !.sigs = Append(w.sigs, s)]
  BY DEF AddSignature
<1>3. /\ t.sigs = Append(w.sigs, s) /\ t.fork = w.fork /\ t.status = w.status
      /\ t \in Cws
  <2>1. Append(w.sigs, s) \in Seq(Signer)
    BY <1>1, SMTT(60)
  <2> QED BY ONLY <1>1, <1>2, <2>1, ZenonT(60) DEF Cws
<1> DEFINE n == Len(w.sigs)
<1>5. /\ n \in Nat /\ Len(t.sigs) = n + 1 /\ DOMAIN w.sigs = 1..n /\ DOMAIN t.sigs = 1..(n + 1)
      /\ t.sigs[n + 1] = s /\ \A i \in 1..n : t.sigs[i] = w.sigs[i]
  BY <1>1, <1>3, SMTT(60)
<1> HIDE DEF n
<1>6. \A i \in 1..n : w.sigs[i] # s
  BY <1>5 DEF signers
<1>7. \A i, j \in 1..n : w.sigs[i] = w.sigs[j] => i = j
  BY <1>5 DEF Queueable, Signed
<1>8. \A i, j \in 1..(n + 1) : t.sigs[i] = t.sigs[j] => i = j
  <2> SUFFICES ASSUME NEW i \in 1..(n + 1), NEW j \in 1..(n + 1), t.sigs[i] = t.sigs[j]
               PROVE  i = j
    OBVIOUS
  <2>1. i = n + 1 \/ i \in 1..n
    BY <1>5, SMTT(60)
  <2>2. j = n + 1 \/ j \in 1..n
    BY <1>5, SMTT(60)
  <2> QED BY <2>1, <2>2, <1>5, <1>6, <1>7
<1>9. signers(t) = signers(w) \cup {s}
  <2>1. \A i : i \in 1..(n + 1) <=> i \in 1..n \/ i = n + 1
    BY <1>5, SMTT(60)
  <2>2. \A x : x \in signers(t) <=> \E i \in 1..(n + 1) : t.sigs[i] = x
    BY ONLY <1>5, ZenonT(60) DEF signers
  <2>3. \A x : x \in signers(w) <=> \E i \in 1..n : w.sigs[i] = x
    BY ONLY <1>5, ZenonT(60) DEF signers
  <2>4. \A x : x \in signers(t) <=> x \in signers(w) \/ x = s
    BY ONLY <1>5, <2>1, <2>2, <2>3, ZenonT(60)
  <2> QED BY ONLY <2>4, ZenonT(60)
<1>10. t # w
  BY <1>5, SMTT(60) DEF n
<1> QED BY <1>1, <1>3, <1>5, <1>8, <1>9, <1>10 DEF Queueable, Signed, n

\* The signatures are as many as the anchors that have signed.
LEMMA SignersCount ==
  ASSUME NEW w, Signed(w)
  PROVE  IsFiniteSet(signers(w)) /\ Cardinality(signers(w)) = Len(w.sigs)
<1>1. w.sigs \in Seq(Signer)
  BY DEF Signed, Cws
<1>2. PICK n \in Nat : n = Len(w.sigs) /\ DOMAIN w.sigs = 1..n
  BY <1>1, SMTT(60)
<1> DEFINE f == [i \in 1..n |-> w.sigs[i]]
<1>3. f \in Bijection(1..n, signers(w))
  <2>1. \A i, j \in 1..n : f[i] = f[j] => i = j
    BY <1>2 DEF Signed
  <2>2. f \in [1..n -> signers(w)] /\ \A x \in signers(w) : \E i \in 1..n : f[i] = x
    BY <1>2 DEF signers
  <2> QED BY <2>1, <2>2 DEF Bijection, Injection, Surjection, IsInjective
<1>4. IsFiniteSet(1..n) /\ Cardinality(1..n) = n
  BY <1>2, FS_Interval, SMTT(60)
<1>5. ExistsBijection(1..n, signers(w))
  BY <1>3 DEF ExistsBijection
<1> QED BY <1>2, <1>4, <1>5, FS_Bijection

\* How far Rollback has moved what is at position p in the end
Moved(w, p) == Cardinality({i \in invalidSigIndex(w) : i <= p})

\* The positions that are left
Left(w) == {p \in DOMAIN w.sigs : p + Moved(w, p) <= Len(w.sigs)}

\* The distances are numbers and do not get smaller.
LEMMA MovedFacts ==
  ASSUME NEW w, Signed(w)
  PROVE  /\ \A p \in Nat : Moved(w, p) \in Nat
         /\ \A p, q \in Nat : p <= q => Moved(w, p) <= Moved(w, q)
<1> DEFINE I == invalidSigIndex(w)
           Up(p) == {i \in I : i <= p}
<1>1. PICK n \in Nat : DOMAIN w.sigs = 1..n
  BY SMTT(60) DEF Signed, Cws
<1>2. I \in SUBSET Nat /\ \A i \in I : i <= n
  BY <1>1, SMTT(60) DEF invalidSigIndex
<1>3. IsFiniteSet(I)
  BY ONLY <1>2, FS_BoundedSetOfNaturals, ZenonT(60)
<1>4. \A p : Up(p) \in SUBSET I /\ Moved(w, p) = Cardinality(Up(p))
  BY DEF Moved
<1>5. \A p : IsFiniteSet(Up(p)) /\ Cardinality(Up(p)) \in Nat
  BY ONLY <1>3, <1>4, FS_Subset, FS_CardinalityType, ZenonT(60)
<1>6. ASSUME NEW p \in Nat, NEW q \in Nat, p <= q
      PROVE  Cardinality(Up(p)) <= Cardinality(Up(q))
  <2>1. Up(p) \in SUBSET Up(q)
    BY <1>2, <1>6, SMTT(60)
  <2> HIDE DEF Up
  <2> QED BY ONLY <1>5, <2>1, FS_Subset, ZenonT(60)
<1> HIDE DEF Up
<1> QED BY ONLY <1>4, <1>5, <1>6, ZenonT(60)

\* The positions that are left have no gap.
LEMMA LeftIsInterval ==
  ASSUME NEW w, Signed(w)
  PROVE  \E k \in Nat : Left(w) = 1..k
<1>1. PICK n \in Nat : DOMAIN w.sigs = 1..n /\ Len(w.sigs) = n
  BY SMTT(60) DEF Signed, Cws
<1>2. \A p : p \in Left(w) <=> p \in 1..n /\ p + Moved(w, p) <= n
  BY ONLY <1>1, ZenonT(60) DEF Left
<1> DEFINE T == {p \in Nat : p + 1 \notin Left(w)}
<1>3. n \in T
  <2>1. n + 1 \notin 1..n
    BY <1>1, SMTT(60)
  <2> QED BY <1>2, <2>1
<1>4. PICK k \in T : \A m \in T : ~(m < k)
  <2>1. IsWellFoundedOn(OpToRel(<, Nat), Nat)
    BY NatLessThanWellFounded
  <2>2. PICK k \in T : \A m \in T : ~(<<m, k>> \in OpToRel(<, Nat))
    BY <1>3, <2>1, WFMin, T \in SUBSET Nat
  <2> QED BY <2>2 DEF OpToRel
<1>5. ASSUME NEW p \in 1..k PROVE p \in Left(w)
  <2>1. p - 1 \in Nat /\ p - 1 < k /\ (p - 1) + 1 = p
    BY <1>4, SMTT(60)
  <2> QED BY ONLY <1>4, <2>1, ZenonT(60)
<1>6. ASSUME NEW p \in Left(w) PROVE p \in 1..k
  <2>1. p \in Nat \ {0} /\ p <= n /\ p + Moved(w, p) <= n
    BY ONLY <1>1, <1>2, <1>6, SMTT(60)
  <2>2. k \in Nat /\ ~(k + 1 \in 1..n /\ k + 1 + Moved(w, k + 1) <= n)
    BY ONLY <1>2, <1>4, ZenonT(60)
  <2>3. k + 1 <= p => Moved(w, k + 1) <= Moved(w, p)
    BY ONLY <2>1, <2>2, MovedFacts, Signed(w), k + 1 \in Nat, ZenonT(60)
  <2>4. Moved(w, k + 1) \in Nat /\ Moved(w, p) \in Nat
    BY ONLY <2>1, <2>2, MovedFacts, Signed(w), k + 1 \in Nat, ZenonT(60)
  <2> QED BY ONLY <1>1, <2>1, <2>2, <2>3, <2>4, SMTT(60)
<1> QED BY <1>4, <1>5, <1>6

\* Rollback leaves signatures of different anchors, if not the valid ones.
LEMMA RemoveSigned ==
  ASSUME NEW w, Queueable(w), NEW t, t = RemoveSignatures(w)
  PROVE  Queueable(t) /\ t.fork = w.fork
<1>1. Signed(w) /\ w \in Cws /\ w.sigs \in Seq(Signer) /\ w.status = Pending
  BY DEF Queueable, Signed, Cws
<1>2. PICK n \in Nat : DOMAIN w.sigs = 1..n /\ Len(w.sigs) = n
  BY <1>1, SMTT(60)
<1>3. PICK k \in Nat : Left(w) = 1..k
  BY <1>1, LeftIsInterval
<1> DEFINE sigs == [p \in Left(w) |-> w.sigs[p + Moved(w, p)]]
<1>4. t = [w EXCEPT !.sigs = sigs]
  BY DEF RemoveSignatures, Left, Moved
<1>5. \A p \in 1..k : p \in Nat /\ p + Moved(w, p) \in 1..n
  <2> SUFFICES ASSUME NEW p \in 1..k PROVE p \in Nat /\ p + Moved(w, p) \in 1..n
    OBVIOUS
  <2>1. p \in Nat \ {0} /\ p + Moved(w, p) <= n
    BY <1>2, <1>3, SMTT(60) DEF Left
  <2>2. Moved(w, p) \in Nat
    BY ONLY <1>1, <2>1, MovedFacts, ZenonT(60)
  <2> QED BY ONLY <2>1, <2>2, n \in Nat, SMTT(60)
<1>6. \A i \in 1..n : w.sigs[i] \in Signer
  BY <1>1, <1>2, SMTT(60)
<1>7. sigs \in Seq(Signer) /\ DOMAIN sigs = 1..k
  <2>1. sigs \in [1..k -> Signer]
    BY ONLY <1>3, <1>5, <1>6, ZenonT(60)
  <2> QED BY ONLY <2>1, k \in Nat, SMTT(60)
<1>8. ASSUME NEW i \in 1..k, NEW j \in 1..k, sigs[i] = sigs[j]
      PROVE  i = j
  <2>1. w.sigs[i + Moved(w, i)] = w.sigs[j + Moved(w, j)]
    BY ONLY <1>3, <1>8, ZenonT(60)
  <2>2. i + Moved(w, i) = j + Moved(w, j)
    BY ONLY <1>1, <1>2, <1>5, <2>1, i \in 1..k, j \in 1..k, ZenonT(60) DEF Signed
  <2>3. /\ Moved(w, i) \in Nat /\ Moved(w, j) \in Nat
        /\ i <= j => Moved(w, i) <= Moved(w, j)
        /\ j <= i => Moved(w, j) <= Moved(w, i)
    BY ONLY <1>1, <1>5, MovedFacts, i \in 1..k, j \in 1..k, ZenonT(60)
  <2> QED BY ONLY <1>3, <1>5, <2>2, <2>3, i \in 1..k, j \in 1..k, SMTT(60)
<1> HIDE DEF sigs
<1>9. t.sigs = sigs /\ t.fork = w.fork /\ t.status = w.status /\ t \in Cws
  BY ONLY <1>1, <1>4, <1>7, ZenonT(60) DEF Cws
<1> QED BY ONLY <1>1, <1>7, <1>8, <1>9, ZenonT(60) DEF Queueable, Signed

-----------------------------------------------------------------------------
(* What a step leaves alone *)

\* A step that gives a reason for S gives up no other reason.
LEMMA BecauseFacts ==
  ASSUME NEW S, NEW why, Because(S, why)
  PROVE  stranded \subseteq stranded' /\ \A c \in S : <<c, why>> \in stranded'
BY DEF Because

\* The constants: what is and what is not a number.
LEMMA Constants ==
  /\ Self \in Signer /\ Require \in Nat /\ Require # 0
  /\ Pending \in Nat /\ Waiting \in Nat /\ Executing \in Nat /\ Executed \in Nat
  /\ Finished \in Nat
BY PoolAssumption DEF Pending, Waiting, Executing, Executed, Finished

\* What the pool and the commits hold stays right when more is known.
LEMMA HeldKept ==
  ASSUME NEW c, NEW w, NEW st, NEW cf, NEW st2, NEW cf2, st \subseteq st2, cf \subseteq cf2,
         Held(c, w, st, cf)
  PROVE  Held(c, w, st2, cf2)
BY DEF Held

LEMMA CompleteKept ==
  ASSUME NEW m, NEW st, NEW cf, NEW st2, NEW cf2, st \subseteq st2, cf \subseteq cf2,
         Complete(m, st, cf)
  PROVE  Complete(m, st2, cf2)
BY HeldKept DEF Complete

\* The pool keeps what it has, or loses it.
LEMMA PendingKept ==
  ASSUME PendingInv, stranded \subseteq stranded', confirmed \subseteq confirmed',
         \A c \in Ctx : pending'[c] = pending[c] \/ pending'[c] = None
  PROVE  PendingInv'
BY HeldKept DEF PendingInv

LEMMA QueuedKept ==
  ASSUME QueuedInv, \A c \in Ctx : queued'[c] = queued[c] \/ queued'[c] = None
  PROVE  QueuedInv'
BY DEF QueuedInv

\* Every commit was there before, or is right.
LEMMA FlightKept ==
  ASSUME FlightInv, stranded \subseteq stranded', confirmed \subseteq confirmed',
         \A m \in Flying' : m \in Flying \/ Complete(m, stranded', confirmed')
  PROVE  FlightInv'
BY CompleteKept DEF FlightInv

\* The store keeps, drops or rightly writes a transaction.
LEMMA StoreKept ==
  ASSUME StoreInv, stranded \subseteq stranded', confirmed' = confirmed, valid' = valid,
         onchain' = onchain,
         \A c \in Ctx : \/ store'[c] = store[c] \/ store'[c] = None
                        \/ Stored(c, store'[c], stranded', confirmed, valid, onchain[c])
  PROVE  StoreInv'
<1> SUFFICES ASSUME NEW c \in Ctx, store'[c] # None
             PROVE  Stored(c, store'[c], stranded', confirmed', valid', onchain'[c])
  BY DEF StoreInv
<1>1. CASE store'[c] = store[c]
  <2>1. Stored(c, store[c], stranded, confirmed, valid, onchain[c])
    BY <1>1 DEF StoreInv
  <2>2. Stored(c, store[c], stranded', confirmed, valid, onchain[c])
    BY ONLY <2>1, stranded \subseteq stranded', ZenonT(60) DEF Stored
  <2> QED BY <1>1, <2>2
<1> QED BY <1>1

\* What was executed stays so as long as its taker is the last that happened.
LEMMA NoticedKept ==
  ASSUME NoticedInv, stranded \subseteq stranded', onchain' = onchain,
         \A c \in Ctx : store[c].status = Executed /\ onchain[c] = 3
                          => store'[c].status = Executed
  PROVE  NoticedInv'
BY DEF NoticedInv

\* A maker that was safe is safe.
LEMMA SafeKept ==
  ASSUME SafeInv, stranded \subseteq stranded', confirmed' = confirmed, finished \subseteq finished',
         \A c \in confirmed \ finished' : store'[c].status = Pending =>
           /\ store[c].status = Pending
           /\ \/ ToAdd(c, loop) \/ OnItsWay(c, Flying) \/ pending[c].fork = "main"
              => \/ ToAdd(c, loop') \/ OnItsWay(c, Flying') \/ pending'[c].fork = "main"
                 \/ Excused(c, stranded')
  PROVE  SafeInv'
<1> SUFFICES ASSUME NEW c \in confirmed \ finished', store'[c].status = Pending
             PROVE  \/ ToAdd(c, loop') \/ OnItsWay(c, Flying') \/ pending'[c].fork = "main"
                    \/ Excused(c, stranded')
  BY DEF SafeInv
<1>1. c \in confirmed \ finished /\ store[c].status = Pending
  OBVIOUS
<1>2. Excused(c, stranded) => Excused(c, stranded')
  BY DEF Excused
<1>3. \/ ToAdd(c, loop) \/ OnItsWay(c, Flying) \/ pending[c].fork = "main"
      \/ Excused(c, stranded)
  BY <1>1 DEF SafeInv
<1> QED BY <1>2, <1>3

-----------------------------------------------------------------------------
(* Adding signatures to the pool *)

\* addTx keeps what the pool holds in order: it adds signatures of other anchors
\* on the same fork, and only the own one makes a transaction pending.
LEMMA AddTxFacts ==
  ASSUME PendingInv, QueuedInv, NEW c \in Ctx, NEW s \in Signer, NEW fork \in Fork,
         NEW local \in BOOLEAN,
         local = FALSE \/ (s = Self /\ (fork = "main" => c \in confirmed)),
         NEW r, r = addTx(c, s, fork, local)
  PROVE  /\ r.pending # None => Held(c, r.pending, stranded, confirmed)
         /\ r.queued # None => Queueable(r.queued)
         /\ pending[c] # None => r.pending # None /\ r.pending.fork = pending[c].fork
         /\ r.pending # pending[c] => r.pending # None
<1> DEFINE p == pending[c]
           q == queued[c]
           new == NewCws(s, fork, 0)
           addp == AddSignature(p, s)
           addq == AddSignature(q, s)
<1>1. /\ p # None => Held(c, p, stranded, confirmed)
      /\ q # None => Queueable(q)
  BY DEF PendingInv, QueuedInv
<1>2. Queueable(new) /\ new.fork = fork /\ signers(new) = {s}
  BY NewSigned, SMTT(60)
<1>3. ASSUME NEW w, Queueable(w), Addable(w, s, fork)
      PROVE  LET t == AddSignature(w, s)
             IN  Queueable(t) /\ t.fork = w.fork /\ w.fork = fork
                   /\ signers(t) = signers(w) \cup {s}
  BY <1>3, AddSigned DEF Addable
<1>4. \A w : Queueable(w) => w # None
  BY NoneFacts DEF Queueable, Signed
<1>5. r = CASE p # None /\ Addable(p, s, fork) -> [pending |-> addp, queued |-> q]
            [] p = None /\ local /\ q = None -> [pending |-> new, queued |-> None]
            [] p = None /\ local /\ Addable(q, s, fork) -> [pending |-> addq, queued |-> None]
            [] p = None /\ ~local /\ q = None -> [pending |-> None, queued |-> new]
            [] p = None /\ ~local /\ Addable(q, s, fork) -> [pending |-> None, queued |-> addq]
            [] OTHER -> [pending |-> p, queued |-> q]
  BY DEF addTx
<1>12. ~Addable(None, s, fork)
  BY NoneFacts DEF Addable, Fork
<1> HIDE DEF p, q, new, addp, addq
<1>6. CASE p # None /\ Addable(p, s, fork)
  <2>1. r.pending = addp /\ r.queued = q
    BY ONLY <1>5, <1>6, ZenonT(60)
  <2>2. /\ Queueable(addp) /\ addp.fork = p.fork /\ signers(addp) = signers(p) \cup {s}
    BY <1>1, <1>3, <1>6 DEF Held, addp
  <2>3. Held(c, addp, stranded, confirmed)
    BY <1>1, <1>6, <2>2 DEF Held
  <2> QED BY ONLY <1>1, <1>4, <2>1, <2>2, <2>3, ZenonT(60) DEF p
<1>7. CASE p = None /\ local /\ q = None
  <2>1. r.pending = new /\ r.queued = None
    BY ONLY <1>5, <1>7, <1>12, ZenonT(60)
  <2>2. Held(c, new, stranded, confirmed)
    BY <1>2, <1>7 DEF Held
  <2> QED BY ONLY <1>2, <1>4, <1>7, <2>1, <2>2, ZenonT(60) DEF p
<1>8. CASE p = None /\ local /\ q # None /\ Addable(q, s, fork)
  <2>1. r.pending = addq /\ r.queued = None
    BY ONLY <1>5, <1>8, ZenonT(60)
  <2>2. /\ Queueable(addq) /\ addq.fork = fork /\ signers(addq) = signers(q) \cup {s}
    BY <1>1, <1>3, <1>8 DEF addq
  <2>3. Held(c, addq, stranded, confirmed)
    BY <1>8, <2>2 DEF Held
  <2> QED BY ONLY <1>4, <1>8, <2>1, <2>2, <2>3, ZenonT(60) DEF p
<1>9. CASE p = None /\ ~local /\ q = None
  <2>1. r.pending = None /\ r.queued = new
    BY ONLY <1>5, <1>9, <1>12, ZenonT(60)
  <2> QED BY ONLY <1>2, <1>9, <2>1, ZenonT(60) DEF p
<1>10. CASE p = None /\ ~local /\ q # None /\ Addable(q, s, fork)
  <2>1. r.pending = None /\ r.queued = addq
    BY ONLY <1>5, <1>10, ZenonT(60)
  <2>2. Queueable(addq)
    BY <1>1, <1>3, <1>10 DEF addq
  <2> QED BY ONLY <1>10, <2>1, <2>2, ZenonT(60) DEF p
<1>11. CASE ~(p # None /\ Addable(p, s, fork)) /\ (p = None => q # None /\ ~Addable(q, s, fork))
  <2>1. r.pending = p /\ r.queued = q
    BY ONLY <1>5, <1>11, ZenonT(60)
  <2> QED BY ONLY <1>1, <2>1, ZenonT(60) DEF p
<1> QED BY ONLY <1>6, <1>7, <1>8, <1>9, <1>10, <1>11, local \in BOOLEAN, ZenonT(60)

\* What addTxs does to the forks: it leaves other transactions alone, what it makes
\* of one on the main fork stays pending or is sent, and no fork changes.
ForksKept(txs, s, fork, local) ==
  /\ \A c \in Ctx \ txs : pending'[c] = pending[c]
  /\ \A c \in txs : addTx(c, s, fork, local).pending.fork = "main"
       => pending'[c].fork = "main" \/ OnItsWay(c, Flying')
  /\ \A c \in txs : pending[c] # None
       => addTx(c, s, fork, local).pending.fork = pending[c].fork

\* addTxs keeps the pool in order and sends what is complete; what is pending on
\* the main fork stays so or is sent.
LEMMA AddStep ==
  ASSUME TypeInv, PendingInv, QueuedInv, FlightInv, stranded \subseteq stranded',
         confirmed' = confirmed, UNCHANGED <<msgs, reader>>,
         NEW txs \in SUBSET Ctx, NEW s \in Signer, NEW fork \in Fork, NEW local \in BOOLEAN,
         local = FALSE \/ (s = Self /\ (fork = "main" => txs \subseteq confirmed)),
         addTxs(txs, s, fork, local)
  PROVE  /\ pending' \in [Ctx -> Cws \cup {None}] /\ queued' \in [Ctx -> Cws \cup {None}]
         /\ PendingInv' /\ QueuedInv' /\ FlightInv' /\ Flying \subseteq Flying'
         /\ ForksKept(txs, s, fork, local)
<1> DEFINE r == [c \in txs |-> addTx(c, s, fork, local)]
           complete == commits(txs, s, fork, local)
           new == [c \in complete |-> r[c].pending]
<1>1. /\ pending' = [c \in Ctx |-> IF c \in complete THEN None
                                   ELSE IF c \in txs THEN r[c].pending ELSE pending[c]]
      /\ queued' = [c \in Ctx |-> IF c \in txs THEN r[c].queued ELSE queued[c]]
      /\ sent' = IF complete = {} THEN sent ELSE sent \cup {new}
  BY DEF addTxs
<1>2. /\ complete \subseteq txs
      /\ \A c \in complete : r[c].pending # pending[c] /\ Len(r[c].pending.sigs) >= Require
  BY DEF commits
<1>3. ASSUME NEW c \in txs
      PROVE  /\ r[c].pending # None => Held(c, r[c].pending, stranded, confirmed)
             /\ r[c].queued # None => Queueable(r[c].queued)
             /\ pending[c] # None => r[c].pending # None /\ r[c].pending.fork = pending[c].fork
             /\ r[c].pending # pending[c] => r[c].pending # None
  <2>1. local = FALSE \/ (s = Self /\ (fork = "main" => c \in confirmed))
    OBVIOUS
  <2>2. r[c] = addTx(c, s, fork, local)
    OBVIOUS
  <2>3. PICK x : x = r[c]
    OBVIOUS
  <2>4. c \in Ctx /\ x = addTx(c, s, fork, local)
    BY ONLY <2>2, <2>3, <1>3, txs \in SUBSET Ctx, ZenonT(60)
  <2>5. /\ x.pending # None => Held(c, x.pending, stranded, confirmed)
        /\ x.queued # None => Queueable(x.queued)
        /\ pending[c] # None => x.pending # None /\ x.pending.fork = pending[c].fork
        /\ x.pending # pending[c] => x.pending # None
    BY ONLY PendingInv, QueuedInv, s \in Signer, fork \in Fork, local \in BOOLEAN, <2>1, <2>4,
            AddTxFacts, ZenonT(60)
  <2> HIDE DEF r
  <2> QED BY ONLY <2>3, <2>5, ZenonT(60)
<1>4. \A c \in txs : r[c] = addTx(c, s, fork, local)
  OBVIOUS
<1> HIDE DEF r, complete
<1>5. ASSUME NEW c \in Ctx
      PROVE  /\ pending'[c] # None => Held(c, pending'[c], stranded, confirmed)
             /\ queued'[c] # None => Queueable(queued'[c])
  <2>1. /\ pending'[c] \in {None, pending[c]} \/ (c \in txs /\ pending'[c] = r[c].pending)
        /\ queued'[c] = queued[c] \/ (c \in txs /\ queued'[c] = r[c].queued)
    BY <1>1
  <2> QED BY <2>1, <1>3 DEF PendingInv, QueuedInv
<1>6. PendingInv' /\ QueuedInv'
  BY <1>5, HeldKept DEF PendingInv, QueuedInv
<1>7. pending' \in [Ctx -> Cws \cup {None}] /\ queued' \in [Ctx -> Cws \cup {None}]
  <2>1. \A c \in Ctx : pending'[c] \in Cws \cup {None} /\ queued'[c] \in Cws \cup {None}
    BY <1>5 DEF Held, Queueable, Signed
  <2>2. pending' = [c \in Ctx |-> pending'[c]] /\ queued' = [c \in Ctx |-> queued'[c]]
    BY <1>1
  <2> QED BY ONLY <2>1, <2>2, ZenonT(60)
<1>8. Complete(new, stranded, confirmed)
  <2>1. \A c \in complete : Held(c, r[c].pending, stranded, confirmed)
    BY <1>2, <1>3
  <2>2. \A c \in complete : new[c] = r[c].pending
    OBVIOUS
  <2>3. new \in [complete -> Cws] /\ complete \in SUBSET Ctx
    BY <1>2, <2>1 DEF Held, Queueable, Signed
  <2>4. new \in Batch
    BY ONLY <2>3, ZenonT(60) DEF Batch
  <2> QED BY <1>2, <2>1, <2>2, <2>4 DEF Complete
<1>9. Flying' = Flying \/ (complete # {} /\ Flying' = Flying \cup {new})
  BY <1>1 DEF Flying
<1>10. Flying \subseteq Flying' /\ (complete # {} => new \in Flying')
  BY <1>1 DEF Flying
<1>11. FlightInv'
  <2>1. Complete(new, stranded', confirmed')
    BY <1>8, CompleteKept
  <2> HIDE DEF new
  <2> QED BY <1>9, <2>1, FlightKept
<1>12. ASSUME NEW c \in txs, r[c].pending.fork = "main"
       PROVE  pending'[c].fork = "main" \/ OnItsWay(c, Flying')
  <2>1. CASE c \in complete
    <3>1. Carries(new, c)
      BY <1>12, <2>1 DEF Carries
    <3> QED BY <1>10, <2>1, <3>1 DEF OnItsWay
  <2>2. CASE c \notin complete
    BY <1>1, <1>12, <2>2
  <2> QED BY <2>1, <2>2
<1>13. \A c \in Ctx \ txs : pending'[c] = pending[c]
  BY <1>1, <1>2
<1>14. ForksKept(txs, s, fork, local)
  BY <1>3, <1>4, <1>12, <1>13 DEF ForksKept
<1> QED BY <1>6, <1>7, <1>10, <1>11, <1>14

-----------------------------------------------------------------------------
(* The handler's loop *)

\* A confirmed maker is in the loop's hands, unless the store has it.
LEMMA MakerConfirmedInv ==
  ASSUME PoolInv, MakerConfirmed
  PROVE  PoolInv'
<1> USE DEF PoolInv
<1>1. PICK txs \in Batches, fork \in Fork, num \in 0..MaxLate :
        LET legal(c) == c \notin finished /\ store[c] = None
            reorg == {c \in txs : store[c] # None /\ store[c].fork # fork}
            signed == {c \in txs : legal(c)}
        IN  /\ loop = Select
            /\ inputs < MaxInputs
            /\ inputs' = inputs + 1
            /\ Trouble(fork = "side" \/ num > 0)
            /\ fork = "side" => txs \cap confirmed = {}
            /\ loop' = IF signed = {} THEN Select
                       ELSE [pc |-> "add", txs |-> signed, fork |-> fork, num |-> num]
            /\ confirmed' = IF fork = "main" THEN confirmed \cup txs ELSE confirmed
            /\ Because(reorg, "reorg")
            /\ UNCHANGED <<poolVars, storeVars, peer, msgVars, chainVars>>
  BY DEF MakerConfirmed
<1> DEFINE reorg == {c \in txs : store[c] # None /\ store[c].fork # fork}
           signed == {c \in txs : c \notin finished /\ store[c] = None}
<1>2. /\ loop = Select /\ (fork = "side" => txs \cap confirmed = {})
      /\ loop' = IF signed = {} THEN Select
                 ELSE [pc |-> "add", txs |-> signed, fork |-> fork, num |-> num]
      /\ confirmed' = IF fork = "main" THEN confirmed \cup txs ELSE confirmed
      /\ UNCHANGED <<pending, queued, store, finished, peer, sent, msgs, reader, valid, onchain>>
  BY <1>1 DEF poolVars, storeVars, msgVars, chainVars
<1>3. stranded \subseteq stranded' /\ \A c \in reorg : <<c, "reorg">> \in stranded'
  <2>1. Because(reorg, "reorg")
    BY <1>1
  <2> HIDE DEF reorg
  <2> QED BY <2>1, BecauseFacts
<1>4. txs \subseteq Ctx /\ num \in Nat /\ signed \subseteq txs /\ Flying' = Flying
      /\ confirmed \subseteq confirmed' /\ confirmed' \subseteq confirmed \cup txs
  <2>1. txs \subseteq Ctx /\ num \in Nat
    BY PoolAssumption, SMTT(60) DEF Batches
  <2>2. Flying' = Flying
    BY <1>2 DEF Flying
  <2> QED BY <1>2, <2>1, <2>2
<1>5. /\ loop' \in [pc : {"select", "add", "store"}, txs : SUBSET Ctx, fork : Fork, num : Nat]
      /\ loop'.txs \subseteq signed /\ (loop'.txs # {} => loop'.fork = fork)
      /\ \A c \in signed : loop'.pc = "add" /\ c \in loop'.txs
  <2>1. CASE signed = {}
    <3>1. loop' = [pc |-> "select", txs |-> {}, fork |-> "main", num |-> 0]
      BY <1>2, <2>1 DEF Select
    <3> QED BY ONLY <2>1, <3>1, ZenonT(60) DEF Fork
  <2>2. CASE signed # {}
    <3>1. loop' = [pc |-> "add", txs |-> signed, fork |-> fork, num |-> num]
      BY <1>2, <2>2
    <3>2. signed \subseteq Ctx
      BY <1>4
    <3> HIDE DEF signed
    <3> QED BY ONLY <1>4, <3>1, <3>2, fork \in Fork, ZenonT(60)
  <2> QED BY <2>1, <2>2
<1>6. TypeInv'
  BY <1>2, <1>4, <1>5 DEF TypeInv
<1>7. PendingInv' /\ QueuedInv' /\ FlightInv'
  BY <1>2, <1>3, <1>4, PendingKept, QueuedKept, FlightKept
<1>8. StoreInv'
  <2> SUFFICES ASSUME NEW c \in Ctx, store[c] # None
               PROVE  Stored(c, store[c], stranded', confirmed', valid, onchain[c])
    BY <1>2 DEF StoreInv
  <2>1. Stored(c, store[c], stranded, confirmed, valid, onchain[c])
    BY DEF StoreInv
  <2>2. store[c].fork = "side" /\ c \in confirmed' /\ c \notin confirmed => c \in reorg
    BY <1>2
  <2> HIDE DEF reorg
  <2> QED BY ONLY <1>3, <1>4, <2>1, <2>2, ZenonT(60) DEF Stored
<1>9. LoopInv'
  BY <1>2, <1>4, <1>5 DEF LoopInv, Fork
<1>10. NoticedInv'
  BY <1>2, <1>3, NoticedKept
<1>11. SafeInv'
  <2> SUFFICES ASSUME NEW c \in confirmed' \ finished, store[c].status = Pending
               PROVE  \/ ToAdd(c, loop') \/ OnItsWay(c, Flying) \/ pending[c].fork = "main"
                      \/ Excused(c, stranded')
    BY <1>2, <1>4 DEF SafeInv
  <2>1. CASE c \in confirmed
    <3>1. ~ToAdd(c, loop)
      BY <1>2 DEF Select, ToAdd
    <3>2. \/ OnItsWay(c, Flying) \/ pending[c].fork = "main" \/ Excused(c, stranded)
      BY <2>1, <3>1 DEF SafeInv
    <3> QED BY <1>3, <3>2 DEF Excused
  <2>2. CASE c \notin confirmed
    <3>1. c \in txs /\ fork = "main" /\ c \in Ctx
      BY <1>2, <1>4, <2>2
    <3>2. CASE store[c] = None
      BY <1>5, <3>1, <3>2 DEF ToAdd
    <3>3. CASE store[c] # None
      <4>1. store[c].fork # "main"
        BY <2>2, <3>1, <3>3 DEF StoreInv, Stored
      <4> QED BY <1>3, <3>1, <3>3, <4>1 DEF Excused
    <3> QED BY <3>2, <3>3
  <2> QED BY <2>1, <2>2
<1> QED BY <1>6, <1>7, <1>8, <1>9, <1>10, <1>11

\* The own signature makes a maker pending or completes it, unless the pool has
\* it signed for another fork.
LEMMA AddLocalsInv ==
  ASSUME PoolInv, AddLocals
  PROVE  PoolInv'
<1> USE DEF PoolInv
<1> DEFINE complete == commits(loop.txs, Self, loop.fork, TRUE)
           add(c) == addTx(c, Self, loop.fork, TRUE)
           refused == {c \in loop.txs : add(c).pending.fork # loop.fork}
<1>1. /\ loop.pc = "add" /\ addTxs(loop.txs, Self, loop.fork, TRUE)
      /\ loop' = [loop EXCEPT !.pc = "store", !.txs = @ \ complete]
      /\ UNCHANGED <<store, finished, peer, msgs, reader, valid, onchain, confirmed>>
  BY DEF AddLocals, storeVars, chainVars
<1>2. stranded \subseteq stranded' /\ \A c \in refused : <<c, "fork">> \in stranded'
  <2>1. Because(refused, "fork")
    BY DEF AddLocals
  <2> HIDE DEF refused
  <2> QED BY <2>1, BecauseFacts
<1>3. /\ loop.txs \in SUBSET Ctx /\ loop.fork \in Fork /\ Self \in Signer /\ TRUE \in BOOLEAN
      /\ loop.fork = "main" => loop.txs \subseteq confirmed
  BY PoolAssumption DEF TypeInv, LoopInv
<1>4. /\ pending' \in [Ctx -> Cws \cup {None}] /\ queued' \in [Ctx -> Cws \cup {None}]
      /\ PendingInv' /\ QueuedInv' /\ FlightInv' /\ Flying \subseteq Flying'
      /\ \A c \in Ctx \ loop.txs : pending'[c] = pending[c]
      /\ \A c \in loop.txs : add(c).pending.fork = "main"
           => pending'[c].fork = "main" \/ OnItsWay(c, Flying')
  <2>1. UNCHANGED <<msgs, reader>> /\ confirmed' = confirmed
    BY <1>1
  <2>2. PICK local \in BOOLEAN, txs \in SUBSET Ctx, fork \in Fork :
          local = TRUE /\ txs = loop.txs /\ fork = loop.fork
    BY <1>3
  <2>3. fork = "main" => txs \subseteq confirmed
    BY <1>3, <2>2
  <2>4. addTxs(txs, Self, fork, local) /\ \A c : add(c) = addTx(c, Self, fork, local)
    BY ONLY <1>1, <2>2, ZenonT(60)
  <2>5. /\ pending' \in [Ctx -> Cws \cup {None}] /\ queued' \in [Ctx -> Cws \cup {None}]
        /\ PendingInv' /\ QueuedInv' /\ FlightInv' /\ Flying \subseteq Flying'
        /\ ForksKept(txs, Self, fork, local)
    BY <1>2, <1>3, <2>1, <2>3, <2>4, AddStep
  <2> HIDE DEF add
  <2> QED BY ONLY <2>2, <2>4, <2>5, ZenonT(60) DEF ForksKept
<1>5. loop' \in [pc : {"select", "add", "store"}, txs : SUBSET Ctx, fork : Fork, num : Nat]
      /\ loop'.txs \subseteq loop.txs /\ loop'.fork = loop.fork
  <2>1. loop' = [loop EXCEPT !.pc = "store", !.txs = loop.txs \ complete]
    BY <1>1
  <2>2. loop \in [pc : {"select", "add", "store"}, txs : SUBSET Ctx, fork : Fork, num : Nat]
    BY DEF TypeInv
  <2> HIDE DEF complete
  <2> QED BY ONLY <2>1, <2>2, ZenonT(60)
<1> HIDE DEF complete, add
<1>6. TypeInv'
  BY <1>1, <1>4, <1>5 DEF TypeInv
<1>7. StoreInv' /\ NoticedInv'
  BY <1>1, <1>2, StoreKept, NoticedKept
<1>8. LoopInv'
  BY <1>1, <1>5 DEF LoopInv
<1>9. SafeInv'
  <2>1. ASSUME NEW c \in confirmed,
               \/ ToAdd(c, loop) \/ OnItsWay(c, Flying) \/ pending[c].fork = "main"
        PROVE  \/ OnItsWay(c, Flying') \/ pending'[c].fork = "main" \/ Excused(c, stranded')
    <3>1. CASE c \in loop.txs
      <4>1. loop.fork = "main"
        BY <3>1, <1>3 DEF LoopInv, Fork
      <4>2. CASE add(c).pending.fork = "main"
        BY <1>4, <3>1, <4>2
      <4>3. CASE add(c).pending.fork # "main"
        BY <1>2, <3>1, <4>1, <4>3 DEF Excused
      <4> QED BY <4>2, <4>3
    <3>2. CASE c \notin loop.txs
      <4>1. pending'[c] = pending[c]
        BY <1>4, <3>2 DEF TypeInv
      <4> QED BY <1>4, <2>1, <3>2, <4>1 DEF OnItsWay, ToAdd
    <3> QED BY <3>1, <3>2
  <2> QED BY <1>1, <1>2, <2>1, SafeKept
<1> QED BY <1>4, <1>6, <1>7, <1>8, <1>9

\* What is stored as pending has the own signature, and is of the main fork when
\* it is confirmed there.
LEMMA StorePendingInv ==
  ASSUME PoolInv, StorePending
  PROVE  PoolInv'
<1> USE DEF PoolInv
<1> DEFINE new == NewCws(Self, loop.fork, loop.num)
<1>1. /\ loop.pc = "store" /\ loop' = Select
      /\ store' = [c \in Ctx |-> IF c \in loop.txs /\ store[c] = None THEN new ELSE store[c]]
      /\ UNCHANGED <<pending, queued, finished, peer, sent, msgs, reader, valid, onchain,
                     confirmed, stranded>>
  BY DEF StorePending, poolVars, msgVars, chainVars
<1>2. Queueable(new) /\ new.fork = loop.fork /\ signers(new) = {Self}
  BY NewSigned, PoolAssumption, SMTT(60) DEF TypeInv
<1> HIDE DEF new
<1>3. new \in Cws /\ new.status = Pending /\ None.status = Pending
  BY <1>2, NoneFacts DEF Queueable, Signed
<1>4. store' \in [Ctx -> Cws \cup {None}]
  BY <1>1, <1>3 DEF TypeInv
<1>5. Select \in [pc : {"select", "add", "store"}, txs : SUBSET Ctx, fork : Fork, num : Nat]
      /\ Select.txs = {} /\ Select.pc = "select"
  BY DEF Select, Fork
<1>6. TypeInv'
  BY <1>1, <1>4, <1>5 DEF TypeInv
<1>7. PendingInv' /\ QueuedInv' /\ FlightInv'
  <2>1. Flying' = Flying
    BY <1>1 DEF Flying
  <2> QED BY <1>1, <2>1, PendingKept, QueuedKept, FlightKept
<1>8. StoreInv'
  <2>1. ASSUME NEW c \in Ctx, c \in loop.txs
        PROVE  Stored(c, new, stranded, confirmed, valid, onchain[c])
    <3>1. loop.fork = "main" => c \in confirmed
      BY <2>1 DEF LoopInv
    <3>2. loop.fork = "side" => c \notin confirmed
      BY <2>1 DEF LoopInv
    <3>3. new.status # Waiting /\ new.status # Executed /\ new.status # Finished
      BY <1>3, SMTT(60) DEF Pending, Waiting, Executed, Finished
    <3> QED BY <1>2, <1>3, <3>1, <3>2, <3>3 DEF Stored, Queueable
  <2>2. ASSUME NEW c \in Ctx
        PROVE  store'[c] = store[c] \/ Stored(c, store'[c], stranded', confirmed, valid, onchain[c])
    BY <1>1, <2>1
  <2> QED BY <1>1, <2>2, StoreKept
<1>9. LoopInv'
  BY <1>1, <1>5 DEF LoopInv
<1>10. NoticedInv'
  <2>1. \A c \in Ctx : store[c].status = Executed => store'[c] = store[c]
    BY <1>1, <1>3, SMTT(60) DEF Pending, Executed
  <2> QED BY <1>1, <2>1, NoticedKept
<1>11. SafeInv'
  <2>1. \A c \in Ctx : store'[c].status = store[c].status
    BY <1>1, <1>3
  <2>2. Flying' = Flying /\ \A c : ~ToAdd(c, loop)
    BY <1>1 DEF Flying, ToAdd
  <2> QED BY <1>1, <2>1, <2>2, SafeKept DEF TypeInv
<1> QED BY <1>6, <1>7, <1>8, <1>9, <1>10, <1>11

-----------------------------------------------------------------------------
(* Signatures from peers, and the commits *)

\* The checks change nothing that matters.
LEMMA CheckRemotesInv ==
  ASSUME PoolInv, CheckRemotes
  PROVE  PoolInv'
<1> USE DEF PoolInv
<1>1. /\ UNCHANGED <<pending, queued, store, finished, loop, sent, msgs, reader, valid, onchain,
                     confirmed, stranded>>
      /\ peer' \in [signer : Signer, txs : SUBSET Ctx, fork : Fork]
  <2>1. PICK s \in Signer \ {Self}, txs \in Batches, fork \in Fork :
          /\ peer' = [signer |-> s, txs |-> {c \in txs : /\ c \notin finished
                                                         /\ store[c].status = Pending
                                                         /\ onchain[c] < 4}, fork |-> fork]
          /\ UNCHANGED <<poolVars, storeVars, loop, msgVars, chainVars, confirmed, stranded>>
    BY DEF CheckRemotes
  <2> QED BY <2>1 DEF poolVars, storeVars, msgVars, chainVars, Batches
<1>2. Flying' = Flying
  BY <1>1 DEF Flying
<1>3. TypeInv' /\ LoopInv'
  BY <1>1 DEF TypeInv, LoopInv
<1>4. PendingInv' /\ QueuedInv' /\ FlightInv' /\ StoreInv' /\ NoticedInv'
  BY <1>1, <1>2, PendingKept, QueuedKept, FlightKept, StoreKept, NoticedKept
<1>5. SafeInv'
  BY <1>1, <1>2 DEF SafeInv
<1> QED BY <1>3, <1>4, <1>5

\* The signature of a peer leaves the fork of what is pending alone.
LEMMA AddRemotesInv ==
  ASSUME PoolInv, AddRemotes
  PROVE  PoolInv'
<1> USE DEF PoolInv
<1>1. /\ addTxs(peer.txs, peer.signer, peer.fork, FALSE) /\ peer' = NoPeer
      /\ UNCHANGED <<store, finished, loop, msgs, reader, valid, onchain, confirmed, stranded>>
  BY DEF AddRemotes, storeVars, chainVars
<1>2. PICK local \in BOOLEAN, txs \in SUBSET Ctx, fork \in Fork, s \in Signer :
        local = FALSE /\ txs = peer.txs /\ fork = peer.fork /\ s = peer.signer
  BY DEF TypeInv
<1>3. addTxs(txs, s, fork, local)
  BY ONLY <1>1, <1>2, ZenonT(60)
<1>4. stranded \subseteq stranded' /\ confirmed' = confirmed /\ UNCHANGED <<msgs, reader>>
  BY <1>1
<1>5. /\ pending' \in [Ctx -> Cws \cup {None}] /\ queued' \in [Ctx -> Cws \cup {None}]
      /\ PendingInv' /\ QueuedInv' /\ FlightInv' /\ Flying \subseteq Flying'
      /\ ForksKept(txs, s, fork, local)
  BY <1>2, <1>3, <1>4, AddStep
<1>6. TypeInv' /\ LoopInv'
  <2>1. NoPeer \in [signer : Signer, txs : SUBSET Ctx, fork : Fork]
    BY PoolAssumption DEF NoPeer, Fork
  <2> QED BY <1>1, <1>5, <2>1 DEF TypeInv, LoopInv
<1>7. StoreInv' /\ NoticedInv'
  BY <1>1, StoreKept, NoticedKept
<1>8. SafeInv'
  <2>1. ASSUME NEW c \in confirmed, pending[c].fork = "main"
        PROVE  pending'[c].fork = "main" \/ OnItsWay(c, Flying')
    <3>1. c \in Ctx /\ pending[c] # None
      BY <2>1, NoneFacts DEF TypeInv
    <3> QED BY <1>5, <2>1, <3>1 DEF ForksKept
  <2>2. \A c : OnItsWay(c, Flying) => OnItsWay(c, Flying')
    BY <1>5 DEF OnItsWay
  <2> QED BY <1>1, <2>1, <2>2, SafeKept
<1> QED BY <1>5, <1>6, <1>7, <1>8

\* A commit moves from its goroutine to the channel.
LEMMA WriteCrossMessageInv ==
  ASSUME PoolInv, WriteCrossMessage
  PROVE  PoolInv'
<1> USE DEF PoolInv
<1>1. PICK batch \in sent : sent' = sent \ {batch} /\ msgs' = Append(msgs, batch)
  BY DEF WriteCrossMessage
<1>2. UNCHANGED <<pending, queued, store, finished, loop, peer, reader, valid, onchain,
                  confirmed, stranded>>
  BY DEF WriteCrossMessage, poolVars, storeVars, chainVars
<1>3. batch \in Batch
  BY DEF FlightInv, Flying, Complete
<1>4. msgs' \in Seq(Batch) /\ {msgs'[i] : i \in DOMAIN msgs'} = {msgs[i] : i \in DOMAIN msgs} \cup {batch}
  <2>1. PICK n \in Nat : n = Len(msgs) /\ DOMAIN msgs = 1..n
    BY SMTT(60) DEF TypeInv
  <2>2. /\ msgs' \in Seq(Batch) /\ DOMAIN msgs' = 1..(n + 1) /\ msgs'[n + 1] = batch
        /\ \A i \in 1..n : msgs'[i] = msgs[i]
    BY <1>1, <1>3, <2>1, SMTT(60) DEF TypeInv
  <2>3. \A i : i \in 1..(n + 1) <=> i \in 1..n \/ i = n + 1
    BY <2>1, SMTT(60)
  <2> QED BY ONLY <2>1, <2>2, <2>3, ZenonT(60)
<1>5. Flying' = Flying
  BY <1>1, <1>2, <1>4 DEF Flying
<1>6. TypeInv' /\ LoopInv'
  BY <1>2, <1>4 DEF TypeInv, LoopInv
<1>7. PendingInv' /\ QueuedInv' /\ FlightInv' /\ StoreInv' /\ NoticedInv'
  BY <1>2, <1>5, PendingKept, QueuedKept, FlightKept, StoreKept, NoticedKept
<1>8. SafeInv'
  BY <1>2, <1>5 DEF SafeInv
<1> QED BY <1>6, <1>7, <1>8

\* The other handler drops part of a commit, with a reason.
LEMMA ReadCrossMessageInv ==
  ASSUME PoolInv, ReadCrossMessage
  PROVE  PoolInv'
<1> USE DEF PoolInv
<1>1. PICK batch, passed :
        /\ batch = Head(msgs) /\ passed \subseteq DOMAIN batch
        /\ msgs # <<>> /\ reader = NoBatch /\ reader' = [c \in passed |-> batch[c]]
        /\ msgs' = Tail(msgs)
        /\ Because(DOMAIN batch \ passed, "discarded")
  BY DEF ReadCrossMessage
<1>2. UNCHANGED <<pending, queued, store, finished, loop, peer, sent, valid, onchain, confirmed>>
  BY DEF ReadCrossMessage, poolVars, storeVars, chainVars
<1>3. stranded \subseteq stranded' /\ \A c \in DOMAIN batch \ passed : <<c, "discarded">> \in stranded'
  BY <1>1, BecauseFacts
<1>4. /\ msgs' \in Seq(Batch)
      /\ {msgs[i] : i \in DOMAIN msgs} = {msgs'[i] : i \in DOMAIN msgs'} \cup {batch}
  <2>1. PICK n \in Nat : n = Len(msgs) /\ DOMAIN msgs = 1..n /\ n # 0
    BY <1>1, SMTT(60) DEF TypeInv
  <2>2. /\ msgs' \in Seq(Batch) /\ DOMAIN msgs' = 1..(n - 1) /\ msgs[1] = batch
        /\ \A i \in 1..(n - 1) : msgs'[i] = msgs[i + 1]
    BY <1>1, <2>1, SMTT(60) DEF TypeInv
  <2>3. \A i : i \in 1..n <=> i = 1 \/ \E j \in 1..(n - 1) : i = j + 1
    <3>1. ASSUME NEW i \in 1..n, i # 1 PROVE i - 1 \in 1..(n - 1) /\ i = (i - 1) + 1
      BY <2>1, <3>1, SMTT(60)
    <3>2. \A j \in 1..(n - 1) : j + 1 \in 1..n
      BY <2>1, SMTT(60)
    <3>3. 1 \in 1..n
      BY <2>1, SMTT(60)
    <3> QED BY ONLY <3>1, <3>2, <3>3, ZenonT(60)
  <2>4. ASSUME NEW x
        PROVE  x \in {msgs[i] : i \in DOMAIN msgs}
                 <=> x \in {msgs'[i] : i \in DOMAIN msgs'} \cup {batch}
    <3>1. x \in {msgs[i] : i \in DOMAIN msgs} <=> \E i \in 1..n : x = msgs[i]
      BY ONLY <2>1, ZenonT(60)
    <3>2. x \in {msgs'[i] : i \in DOMAIN msgs'} <=> \E j \in 1..(n - 1) : x = msgs'[j]
      BY ONLY <2>2, ZenonT(60)
    <3>3. ASSUME NEW i \in 1..n
          PROVE  msgs[i] = batch \/ \E j \in 1..(n - 1) : msgs[i] = msgs'[j]
      BY ONLY <2>2, <2>3, <3>3, ZenonT(60)
    <3>4. (\E j \in 1..(n - 1) : x = msgs'[j]) \/ x = batch => \E i \in 1..n : x = msgs[i]
      BY ONLY <2>2, <2>3, ZenonT(60)
    <3> QED BY ONLY <3>1, <3>2, <3>3, <3>4, ZenonT(60)
  <2> QED BY ONLY <2>2, <2>4, ZenonT(60)
<1>5. batch \in Flying /\ Complete(batch, stranded, confirmed)
  BY <1>4 DEF FlightInv, Flying
<1>6. Complete(reader', stranded, confirmed)
  <2>1. PICK S \in SUBSET Ctx : batch \in [S -> Cws]
    BY <1>5 DEF Complete, Batch
  <2>2. reader' \in [passed -> Cws] /\ passed \in SUBSET Ctx
    BY <1>1, <2>1
  <2>3. reader' \in Batch
    BY <2>2 DEF Batch
  <2>4. DOMAIN reader' = passed /\ \A c \in passed : reader'[c] = batch[c] /\ c \in DOMAIN batch
    BY <1>1
  <2> QED BY <1>5, <2>3, <2>4 DEF Complete
<1>7. Flying' \subseteq Flying \cup {reader'} /\ Flying \subseteq Flying' \cup {batch, NoBatch}
      /\ reader' \in Flying'
  BY <1>1, <1>2, <1>4 DEF Flying
<1>8. TypeInv' /\ LoopInv'
  BY <1>2, <1>4 DEF TypeInv, LoopInv
<1>9. PendingInv' /\ QueuedInv' /\ StoreInv' /\ NoticedInv'
  BY <1>2, <1>3, PendingKept, QueuedKept, StoreKept, NoticedKept
<1>10. FlightInv'
  <2>1. Complete(reader', stranded', confirmed')
    BY <1>2, <1>3, <1>6, CompleteKept
  <2> QED BY <1>2, <1>3, <1>7, <2>1, FlightKept
<1>11. SafeInv'
  <2>1. ASSUME NEW c, OnItsWay(c, Flying)
        PROVE  OnItsWay(c, Flying') \/ Excused(c, stranded')
    <3>1. PICK m \in Flying : Carries(m, c)
      BY <2>1 DEF OnItsWay
    <3>2. CASE m \in Flying'
      BY <3>1, <3>2 DEF OnItsWay
    <3>3. m # NoBatch
      BY <3>1 DEF Carries, NoBatch
    <3>4. CASE m = batch
      <4>1. c \in DOMAIN batch /\ batch[c].fork = "main"
        BY <3>1, <3>4 DEF Carries
      <4>2. CASE c \in passed
        <5>1. Carries(reader', c)
          BY <1>1, <4>1, <4>2 DEF Carries
        <5> QED BY <1>7, <5>1 DEF OnItsWay
      <4>3. CASE c \notin passed
        BY <1>3, <4>1, <4>3 DEF Excused
      <4> QED BY <4>2, <4>3
    <3> QED BY <1>7, <3>2, <3>3, <3>4
  <2> QED BY <1>2, <1>3, <2>1, SafeKept
<1> QED BY <1>8, <1>9, <1>10, <1>11

\* What the callback rolls back keeps its fork, and what it stores as waiting has
\* only valid signatures, and enough.
LEMMA CallBackInv ==
  ASSUME PoolInv, CallBack
  PROVE  PoolInv'
<1> USE DEF PoolInv
<1> DEFINE bad == {c \in DOMAIN reader : invalidSigIndex(reader[c]) # {}}
           good == DOMAIN reader \ bad
           back == [c \in bad |-> RemoveSignatures(reader[c])]
           writes == {c \in good : store[c] = None \/ canReplace(store[c], reader[c])}
           new(c) == [reader[c] EXCEPT !.status = Waiting]
<1>1. /\ reader' = NoBatch
      /\ pending' = [c \in Ctx |-> IF c \in bad /\ pending[c] = None
                                   THEN back[c] ELSE pending[c]]
      /\ store' = [c \in Ctx |-> IF c \in writes THEN new(c) ELSE store[c]]
      /\ UNCHANGED <<queued, finished, loop, peer, sent, msgs, valid, onchain, confirmed>>
  BY DEF CallBack, chainVars
<1>2. /\ stranded \subseteq stranded'
      /\ \A c \in good \ writes : store[c].status = Pending => <<c, "late">> \in stranded'
      /\ \A c \in bad : Self \notin signers(back[c]) => <<c, "signature">> \in stranded'
      /\ \A c \in bad : pending[c].fork \notin {"none", reader[c].fork} => <<c, "fork">> \in stranded'
  <2>1. stranded' = stranded
           \cup {<<c, "late">> : c \in {d \in good \ writes : store[d].status = Pending}}
           \cup {<<c, "signature">> : c \in {d \in bad : Self \notin signers(back[d])}}
           \cup {<<c, "fork">> : c \in {d \in bad : pending[d].fork \notin {"none", reader[d].fork}}}
    BY DEF CallBack
  <2> HIDE DEF bad, good, back, writes
  <2> QED BY ONLY <2>1, ZenonT(60)
<1>3. /\ DOMAIN reader \subseteq Ctx
      /\ \A c \in DOMAIN reader : Held(c, reader[c], stranded, confirmed)
                                    /\ Len(reader[c].sigs) >= Require
  <2>1. Complete(reader, stranded, confirmed)
    BY DEF FlightInv, Flying
  <2> QED BY <2>1 DEF Complete, Batch
<1>4. ASSUME NEW c \in bad
      PROVE  /\ Held(c, back[c], stranded', confirmed) /\ back[c].fork = reader[c].fork
             /\ back[c] \in Cws
  <2>1. back[c] = RemoveSignatures(reader[c]) /\ Held(c, reader[c], stranded, confirmed)
    BY <1>3
  <2>2. Queueable(back[c]) /\ back[c].fork = reader[c].fork
    BY <2>1, RemoveSigned DEF Held
  <2>3. Self \in signers(back[c]) \/ <<c, "signature">> \in stranded'
    BY <1>2
  <2> HIDE DEF bad, back
  <2> QED BY ONLY <2>1, <2>2, <2>3, ZenonT(60) DEF Held, Queueable, Signed
<1>5. ASSUME NEW c \in writes
      PROVE  /\ Stored(c, new(c), stranded, confirmed, valid, onchain[c])
             /\ new(c) \in Cws /\ new(c).status = Waiting
  <2>1. /\ Held(c, reader[c], stranded, confirmed) /\ Len(reader[c].sigs) >= Require
        /\ invalidSigIndex(reader[c]) = {}
    BY <1>3
  <2>2. reader[c] \in Cws /\ Signed(reader[c])
    BY <2>1 DEF Held, Queueable, Signed
  <2> DEFINE t == new(c)
  <2>3. /\ t \in Cws /\ t.status = Waiting /\ t.sigs = reader[c].sigs /\ t.fork = reader[c].fork
    BY <2>2 DEF Cws, Waiting
  <2> HIDE DEF new, t
  <2>4. signers(t) = signers(reader[c]) /\ Signed(t)
    BY ONLY <2>2, <2>3, ZenonT(60) DEF signers, Signed
  <2>5. signers(t) \subseteq valid
    BY ONLY <2>1, <2>4, ZenonT(60) DEF signers, invalidSigIndex
  <2>6. Waiting # Executed /\ Waiting # Finished /\ Waiting # Pending
    BY SMTT(60) DEF Waiting, Executed, Finished, Pending
  <2>7. Stored(c, t, stranded, confirmed, valid, onchain[c])
    BY ONLY <2>1, <2>3, <2>4, <2>5, <2>6, ZenonT(60) DEF Stored, Held
  <2> QED BY ONLY <2>3, <2>7, ZenonT(60) DEF t
<1>6. \A c \in writes : store[c].status = Pending
  <2>1. \A c \in writes : store[c].status \in Nat /\ c \in Ctx
    BY <1>3, NoneFacts, Constants DEF TypeInv, Cws
  <2>2. \A c \in writes : store[c] = None \/ store[c].status < 1
    BY DEF canReplace, Waiting
  <2> HIDE DEF writes
  <2> QED BY ONLY <2>1, <2>2, NoneFacts, SMTT(60) DEF Pending
<1> HIDE DEF back, new, writes
<1>7. /\ Flying' \subseteq Flying \cup {NoBatch} /\ Flying \subseteq Flying' \cup {reader}
      /\ Complete(NoBatch, stranded', confirmed')
  <2>1. NoBatch \in [{} -> Cws] /\ DOMAIN NoBatch = {}
    BY DEF NoBatch
  <2>2. NoBatch \in Batch
    BY ONLY <2>1, ZenonT(60) DEF Batch
  <2>3. Complete(NoBatch, stranded', confirmed')
    BY ONLY <2>1, <2>2, ZenonT(60) DEF Complete
  <2> QED BY <1>1, <2>3 DEF Flying
<1>8. TypeInv' /\ LoopInv'
  <2>1. pending' \in [Ctx -> Cws \cup {None}]
    BY <1>1, <1>4 DEF TypeInv
  <2>2. store' \in [Ctx -> Cws \cup {None}]
    BY <1>1, <1>5 DEF TypeInv
  <2> QED BY <1>1, <2>1, <2>2 DEF TypeInv, LoopInv
<1>9. PendingInv'
  <2> SUFFICES ASSUME NEW c \in Ctx, pending'[c] # None
               PROVE  Held(c, pending'[c], stranded', confirmed)
    BY <1>1 DEF PendingInv
  <2>1. CASE c \in bad /\ pending[c] = None
    BY <1>1, <1>4, <2>1
  <2>2. CASE ~(c \in bad /\ pending[c] = None)
    <3>1. pending'[c] = pending[c]
      BY <1>1, <2>2
    <3> QED BY <1>2, <3>1, HeldKept DEF PendingInv
  <2> QED BY <2>1, <2>2
<1>10. QueuedInv' /\ FlightInv'
  BY <1>1, <1>2, <1>7, QueuedKept, FlightKept
<1>11. StoreInv'
  <2>1. ASSUME NEW c \in Ctx
        PROVE  store'[c] = store[c] \/ Stored(c, store'[c], stranded', confirmed, valid, onchain[c])
    <3>1. CASE c \in writes
      <4>1. Stored(c, new(c), stranded', confirmed, valid, onchain[c])
        BY ONLY <1>2, <1>5, <3>1, ZenonT(60) DEF Stored
      <4> QED BY <1>1, <3>1, <4>1
    <3> QED BY <1>1, <3>1
  <2> QED BY <1>1, <1>2, <2>1, StoreKept
<1>12. NoticedInv'
  <2>1. \A c \in Ctx : store[c].status = Executed => store'[c] = store[c]
    BY <1>1, <1>6, SMTT(60) DEF Executed, Pending
  <2> QED BY <1>1, <1>2, <2>1, NoticedKept
<1>13. SafeInv'
  <2>1. ASSUME NEW c \in confirmed, store'[c].status = Pending
        PROVE  c \in Ctx /\ c \notin writes /\ store[c].status = Pending
    <3>1. c \in Ctx
      BY DEF TypeInv
    <3>2. c \notin writes
      <4>1. c \in writes => store'[c] = new(c)
        BY ONLY <1>1, <3>1, ZenonT(60)
      <4> QED BY ONLY <1>5, <2>1, <4>1, SMTT(60) DEF Waiting, Pending
    <3> QED BY <1>1, <2>1, <3>1, <3>2
  <2>2. ASSUME NEW c \in Ctx, pending[c].fork = "main"
        PROVE  pending'[c].fork = "main"
    BY <1>1, <2>2, NoneFacts
  <2>3. ASSUME NEW c \in Ctx, c \notin writes, store[c].status = Pending, OnItsWay(c, Flying)
        PROVE  \/ OnItsWay(c, Flying') \/ pending'[c].fork = "main" \/ Excused(c, stranded')
    <3>1. PICK m \in Flying : Carries(m, c)
      BY <2>3 DEF OnItsWay
    <3>2. CASE m \in Flying'
      BY <3>1, <3>2 DEF OnItsWay
    <3>3. CASE m = reader
      <4>1. c \in DOMAIN reader /\ reader[c].fork = "main"
        BY <3>1, <3>3 DEF Carries
      <4>2. CASE c \in good
        BY <1>2, <2>3, <4>2 DEF Excused
      <4>3. CASE c \in bad /\ pending[c] = None
        BY <1>1, <1>4, <4>1, <4>3
      <4>4. CASE c \in bad /\ pending[c] # None
        <5>1. pending[c].fork \in Fork
          BY <4>4, NoneFacts DEF TypeInv
        <5>2. CASE pending[c].fork = "main"
          BY <2>2, <5>2
        <5>3. CASE pending[c].fork # "main"
          BY <1>2, <4>1, <4>4, <5>1, <5>3 DEF Excused, Fork
        <5> QED BY <5>2, <5>3
      <4> QED BY <4>1, <4>2, <4>3, <4>4
    <3> QED BY <1>7, <3>2, <3>3
  <2> QED BY <1>1, <1>2, <2>1, <2>2, <2>3, SafeKept
<1> QED BY <1>8, <1>9, <1>10, <1>11, <1>12, <1>13

-----------------------------------------------------------------------------
(* The chains, upkeep and restart *)

\* A step of the chains, of the status in the store: everything else is as it was.
LEMMA ChainStep ==
  ASSUME PoolInv, NEW c \in Ctx, NEW n \in 0..4, n = onchain[c] + 1,
         onchain' = [onchain EXCEPT ![c] = n], stranded \subseteq stranded',
         store' \in [Ctx -> Cws \cup {None}],
         \A d \in Ctx \ {c} : store'[d] = store[d],
         store'[c] # None => Stored(c, store'[c], stranded', confirmed, valid, n),
         store'[c].status = Pending => store[c].status = Pending,
         n = 3 => store'[c].status = Executed \/ <<c, "missed">> \in stranded',
         UNCHANGED <<pending, queued, finished, loop, peer, sent, msgs, reader, valid, confirmed>>
  PROVE  PoolInv'
<1> USE DEF PoolInv
<1>1. /\ onchain' \in [Ctx -> 0..4] /\ onchain'[c] = n
      /\ \A d \in Ctx \ {c} : onchain'[d] = onchain[d]
  BY DEF TypeInv
<1>2. Flying' = Flying
  BY DEF Flying
<1>3. TypeInv' /\ LoopInv'
  BY <1>1 DEF TypeInv, LoopInv
<1>4. PendingInv' /\ QueuedInv' /\ FlightInv'
  BY <1>2, PendingKept, QueuedKept, FlightKept
<1>5. StoreInv'
  <2> SUFFICES ASSUME NEW d \in Ctx, store'[d] # None
               PROVE  Stored(d, store'[d], stranded', confirmed, valid, onchain'[d])
    BY DEF StoreInv
  <2>1. CASE d = c
    BY <1>1, <2>1
  <2>2. CASE d # c
    <3>1. store'[d] = store[d] /\ onchain'[d] = onchain[d]
      BY <1>1, <2>2
    <3>2. Stored(d, store[d], stranded, confirmed, valid, onchain[d])
      BY <3>1 DEF StoreInv
    <3>3. Stored(d, store[d], stranded', confirmed, valid, onchain[d])
      BY ONLY <3>2, stranded \subseteq stranded', ZenonT(60) DEF Stored
    <3> QED BY <3>1, <3>3
  <2> QED BY <2>1, <2>2
<1>6. NoticedInv'
  <2> SUFFICES ASSUME NEW d \in Ctx, onchain'[d] = 3
               PROVE  store'[d].status = Executed \/ <<d, "missed">> \in stranded'
    BY DEF NoticedInv
  <2>1. CASE d = c
    BY <1>1, <2>1
  <2>2. CASE d # c
    BY <1>1, <2>2 DEF NoticedInv
  <2> QED BY <2>1, <2>2
<1>7. SafeInv'
  <2>1. \A d \in Ctx : store'[d].status = Pending => store[d].status = Pending
    OBVIOUS
  <2> QED BY <1>2, <2>1, SafeKept DEF TypeInv
<1> QED BY <1>3, <1>4, <1>5, <1>6, <1>7

\* A taker in a block is not noticed yet.
LEMMA TakeInv ==
  ASSUME PoolInv, NEW c \in Ctx, Take(c)
  PROVE  PoolInv'
<1>1. /\ onchain[c] = 0 /\ onchain' = [onchain EXCEPT ![c] = 1]
      /\ UNCHANGED <<pending, queued, store, finished, loop, peer, sent, msgs, reader, valid,
                     confirmed, stranded>>
  BY DEF Take, poolVars, storeVars, msgVars
<1>2. store[c] # None => Stored(c, store[c], stranded, confirmed, valid, 1)
  <2>1. store[c] # None => Stored(c, store[c], stranded, confirmed, valid, 0)
    BY <1>1 DEF PoolInv, StoreInv
  <2>2. ~(0 >= 3) /\ 0 # 4
    BY SMTT(60)
  <2> QED BY ONLY <2>1, <2>2, ZenonT(60) DEF Stored
<1>3. store \in [Ctx -> Cws \cup {None}]
  BY DEF PoolInv, TypeInv
<1>4. 1 \in 0..4 /\ 1 = onchain[c] + 1 /\ 1 # 3
  BY <1>1, SMTT(60)
<1>5. /\ stranded \subseteq stranded' /\ store' \in [Ctx -> Cws \cup {None}]
      /\ \A d \in Ctx \ {c} : store'[d] = store[d]
      /\ store'[c] # None => Stored(c, store'[c], stranded', confirmed, valid, 1)
      /\ store'[c].status = Pending => store[c].status = Pending
      /\ UNCHANGED <<pending, queued, finished, loop, peer, sent, msgs, reader, valid, confirmed>>
  BY <1>1, <1>2, <1>3
<1> QED BY ONLY PoolInv, c \in Ctx, <1>1, <1>4, <1>5, ChainStep, ZenonT(60)

\* A taker that is confirmed is noticed in the store, or missed.
LEMMA HandleTakerInv ==
  ASSUME PoolInv, NEW c \in Ctx, HandleTaker(c)
  PROVE  PoolInv'
<1> DEFINE stage == IF onchain[c] = 1 THEN Executing ELSE Executed
           up == store[c] # None /\ stage > store[c].status
<1>1. /\ onchain[c] \in {1, 2} /\ onchain' = [onchain EXCEPT ![c] = onchain[c] + 1]
      /\ store' = IF up THEN [store EXCEPT ![c].status = stage] ELSE store
      /\ UNCHANGED <<pending, queued, finished, loop, peer, sent, msgs, reader, valid, confirmed>>
  BY DEF HandleTaker, poolVars, msgVars
<1>2. /\ stranded \subseteq stranded'
      /\ store[c] = None /\ stage = Executed => <<c, "missed">> \in stranded'
  <2> DEFINE S == IF store[c] = None /\ stage = Executed THEN {c} ELSE {}
  <2>1. Because(S, "missed")
    BY DEF HandleTaker
  <2>2. store[c] = None /\ stage = Executed => c \in S
    OBVIOUS
  <2> HIDE DEF S
  <2> QED BY <2>1, <2>2, BecauseFacts
<1>3. PICK n \in 0..4 : n = onchain[c] + 1 /\ onchain' = [onchain EXCEPT ![c] = n] /\ n \in {2, 3}
  <2>1. onchain[c] + 1 \in 0..4 /\ onchain[c] + 1 \in {2, 3}
    BY ONLY <1>1, SMTT(60)
  <2> HIDE DEF stage, up
  <2> QED BY ONLY <1>1, <2>1, ZenonT(60)
<1>4. store \in [Ctx -> Cws \cup {None}]
  BY DEF PoolInv, TypeInv
<1>5. store[c] # None => Stored(c, store[c], stranded, confirmed, valid, onchain[c])
  BY DEF PoolInv, StoreInv
<1>6. /\ stage \in Nat /\ (n = 3 <=> stage = Executed) /\ (n = 2 <=> stage = Executing)
  BY <1>1, <1>3, SMTT(60) DEF Executing, Executed
<1>7. CASE up
  <2> DEFINE t == [store[c] EXCEPT !.status = stage]
  <2>1. /\ store' = [store EXCEPT ![c] = t] /\ store[c] \in Cws
    BY <1>1, <1>4, <1>7
  <2>2. /\ t \in Cws /\ t.status = stage /\ t.fork = store[c].fork /\ t.sigs = store[c].sigs
    BY <1>6, <2>1 DEF Cws
  <2> HIDE DEF t, stage
  <2>3. /\ store' \in [Ctx -> Cws \cup {None}] /\ store'[c] = t
        /\ \A d \in Ctx \ {c} : store'[d] = store[d]
    BY <1>4, <2>1, <2>2
  <2>4. signers(t) = signers(store[c]) /\ Signed(t)
    BY <1>5, <1>7, <2>2 DEF signers, Signed, Stored
  <2>5. stage \notin {Pending, Waiting, Finished}
    BY <1>3, <1>6, SMTT(60) DEF Pending, Waiting, Executing, Executed, Finished
  <2>6. Stored(c, t, stranded', confirmed, valid, n)
    <3>1. Self \in signers(t) \/ <<c, "signature">> \in stranded'
      BY <1>2, <1>5, <1>7, <2>4 DEF Stored
    <3>2. t.fork = "main" => c \in confirmed
      BY <1>5, <1>7, <2>2 DEF Stored
    <3>3. stage \in {Executing, Executed} /\ (stage = Executed => n >= 3)
      BY <1>3, <1>6, SMTT(60)
    <3> QED BY ONLY <2>2, <2>4, <2>5, <3>1, <3>2, <3>3, ZenonT(60) DEF Stored
  <2>7. store'[c].status = stage /\ stage # Pending
    BY <2>2, <2>3, <2>5
  <2>8. UNCHANGED <<pending, queued, finished, loop, peer, sent, msgs, reader, valid, confirmed>>
    BY <1>1
  <2>9. store'[c] # None => Stored(c, store'[c], stranded', confirmed, valid, n)
    BY <2>3, <2>6
  <2>10. /\ store'[c].status = Pending => store[c].status = Pending
         /\ n = 3 => store'[c].status = Executed \/ <<c, "missed">> \in stranded'
    BY <1>6, <2>7
  <2> QED BY ONLY PoolInv, c \in Ctx, n \in 0..4, <1>2, <1>3, <2>3, <2>8, <2>9, <2>10, ChainStep, ZenonT(60)
<1>8. CASE ~up
  <2>1. store' = store
    BY <1>1, <1>8
  <2>2. ASSUME store[c] # None
        PROVE  /\ Stored(c, store[c], stranded', confirmed, valid, n)
               /\ n = 3 => store[c].status = Executed
    <3>1. Stored(c, store[c], stranded', confirmed, valid, onchain[c])
      BY <1>2, <1>5, <2>2 DEF Stored
    <3>2. store[c].status # Finished
      BY <1>1, <3>1, SMTT(60) DEF Stored
    <3>3. Stored(c, store[c], stranded', confirmed, valid, n)
      BY <1>1, <1>3, <3>1, <3>2, SMTT(60) DEF Stored
    <3>4. stage <= store[c].status
      <4>1. store[c].status \in Nat
        BY <1>4, <2>2 DEF Cws
      <4> QED BY <1>6, <1>8, <2>2, <4>1, SMTT(60)
    <3>5. n = 3 => store[c].status = Executed
      <4>1. store[c].status \in {Pending, Waiting, Executing, Executed}
        BY ONLY <3>1, <3>2, ZenonT(60) DEF Stored
      <4>2. n = 3 => Executed <= store[c].status
        BY ONLY <1>6, <3>4, ZenonT(60)
      <4> QED BY ONLY <4>1, <4>2, SMTT(60) DEF Pending, Waiting, Executing, Executed
    <3> QED BY <3>3, <3>5
  <2>3. /\ store' \in [Ctx -> Cws \cup {None}] /\ \A d \in Ctx \ {c} : store'[d] = store[d]
        /\ store'[c] # None => Stored(c, store'[c], stranded', confirmed, valid, n)
        /\ store'[c].status = Pending => store[c].status = Pending
        /\ n = 3 => store'[c].status = Executed \/ <<c, "missed">> \in stranded'
    BY <1>2, <1>4, <1>6, <2>1, <2>2
  <2>4. UNCHANGED <<pending, queued, finished, loop, peer, sent, msgs, reader, valid, confirmed>>
    BY <1>1
  <2> QED BY ONLY PoolInv, c \in Ctx, n \in 0..4, <1>2, <1>3, <2>3, <2>4, ChainStep, ZenonT(60)
<1> QED BY <1>7, <1>8

\* The finish of this chain ends it.
LEMMA HandleFinishInv ==
  ASSUME PoolInv, NEW c \in Ctx, HandleFinish(c)
  PROVE  PoolInv'
<1>1. /\ onchain[c] = 3 /\ onchain' = [onchain EXCEPT ![c] = 4]
      /\ store' = IF store[c] # None THEN [store EXCEPT ![c].status = Finished] ELSE store
      /\ UNCHANGED <<pending, queued, finished, loop, peer, sent, msgs, reader, valid, confirmed,
                     stranded>>
  BY DEF HandleFinish, poolVars, msgVars
<1>2. store \in [Ctx -> Cws \cup {None}]
  BY DEF PoolInv, TypeInv
<1>3. 4 \in 0..4 /\ 4 = onchain[c] + 1 /\ 4 # 3
  BY <1>1, SMTT(60)
<1>4. CASE store[c] = None
  BY <1>1, <1>2, <1>3, <1>4, ChainStep
<1>5. CASE store[c] # None
  <2> DEFINE t == [store[c] EXCEPT !.status = Finished]
  <2>1. /\ store' = [store EXCEPT ![c] = t] /\ store[c] \in Cws
    BY <1>1, <1>2, <1>5
  <2>2. /\ t \in Cws /\ t.status = Finished /\ t.fork = store[c].fork /\ t.sigs = store[c].sigs
    BY <2>1 DEF Cws, Finished
  <2> HIDE DEF t
  <2>3. /\ store' \in [Ctx -> Cws \cup {None}] /\ store'[c] = t
        /\ \A d \in Ctx \ {c} : store'[d] = store[d]
    BY <1>2, <2>1, <2>2
  <2>4. Stored(c, store[c], stranded, confirmed, valid, onchain[c])
    BY <1>5 DEF PoolInv, StoreInv
  <2>5. signers(t) = signers(store[c]) /\ Signed(t)
    BY <2>2, <2>4 DEF signers, Signed, Stored
  <2>6. Finished \notin {Pending, Waiting, Executed}
    BY SMTT(60) DEF Pending, Waiting, Executed, Finished
  <2>7. Stored(c, t, stranded, confirmed, valid, 4)
    BY ONLY <2>2, <2>4, <2>5, <2>6, ZenonT(60) DEF Stored
  <2>8. store'[c].status # Pending
    BY <2>2, <2>3, <2>6
  <2> QED BY <1>1, <1>3, <2>3, <2>7, <2>8, ChainStep
<1> QED BY <1>4, <1>5

\* What is removed from the store is in the log of the finished ones.
LEMMA RemoveFinishedInv ==
  ASSUME PoolInv, NEW c \in Ctx, RemoveFinished(c)
  PROVE  PoolInv'
<1> USE DEF PoolInv
<1>1. /\ store[c].status = Finished /\ store' = [store EXCEPT ![c] = None]
      /\ finished' = finished \cup {c}
      /\ UNCHANGED <<pending, queued, loop, peer, sent, msgs, reader, valid, onchain, confirmed,
                     stranded>>
  BY DEF RemoveFinished, poolVars, msgVars, chainVars
<1>2. Flying' = Flying
  BY <1>1 DEF Flying
<1>3. store' \in [Ctx -> Cws \cup {None}] /\ \A d \in Ctx : store'[d] = IF d = c THEN None ELSE store[d]
  BY <1>1 DEF TypeInv
<1>4. TypeInv' /\ LoopInv'
  BY <1>1, <1>3 DEF TypeInv, LoopInv
<1>5. PendingInv' /\ QueuedInv' /\ FlightInv' /\ StoreInv'
  BY <1>1, <1>2, <1>3, PendingKept, QueuedKept, FlightKept, StoreKept
<1>6. NoticedInv'
  <2>1. store[c].status # Executed
    BY <1>1, SMTT(60) DEF Finished, Executed
  <2> QED BY <1>1, <1>3, <2>1, NoticedKept
<1>7. SafeInv'
  <2>1. \A d \in confirmed \ finished' : store'[d] = store[d]
    BY <1>1, <1>3 DEF TypeInv
  <2> QED BY <1>1, <1>2, <2>1, SafeKept
<1> QED BY <1>4, <1>5, <1>6, <1>7

\* Only the queue, or what is finished, is dropped from the pool.
LEMMA UpkeepInv ==
  ASSUME PoolInv, (\E c \in Ctx : ExpireQueued(c)) \/ PruneFinished
  PROVE  PoolInv'
<1> USE DEF PoolInv
<1>1. UNCHANGED <<store, finished, loop, peer, sent, msgs, reader, valid, onchain, confirmed,
                  stranded>>
  BY DEF ExpireQueued, PruneFinished, storeVars, msgVars, chainVars
<1>2. /\ pending' \in [Ctx -> Cws \cup {None}] /\ queued' \in [Ctx -> Cws \cup {None}]
      /\ \A d \in Ctx : queued'[d] \in {queued[d], None}
      /\ \A d \in Ctx : pending'[d] = pending[d] \/ (pending'[d] = None /\ d \in finished)
  <2>1. ASSUME NEW c \in Ctx, ExpireQueued(c)
        PROVE  /\ pending' = pending /\ queued' \in [Ctx -> Cws \cup {None}]
               /\ \A d \in Ctx : queued'[d] \in {queued[d], None}
    BY <2>1 DEF ExpireQueued, TypeInv
  <2>2. ASSUME PruneFinished
        PROVE  /\ pending' = [d \in Ctx |-> IF d \in finished THEN None ELSE pending[d]]
               /\ queued' = [d \in Ctx |-> IF d \in finished /\ pending[d] # None
                                           THEN None ELSE queued[d]]
    BY <2>2 DEF PruneFinished
  <2> QED BY <2>1, <2>2 DEF TypeInv
<1>3. Flying' = Flying
  BY <1>1 DEF Flying
<1>4. TypeInv' /\ LoopInv'
  BY <1>1, <1>2 DEF TypeInv, LoopInv
<1>5. PendingInv' /\ QueuedInv' /\ FlightInv' /\ StoreInv' /\ NoticedInv'
  BY <1>1, <1>2, <1>3, PendingKept, QueuedKept, FlightKept, StoreKept, NoticedKept
<1>6. SafeInv'
  BY <1>1, <1>2, <1>3, SafeKept DEF TypeInv
<1> QED BY <1>4, <1>5, <1>6

\* After a restart the pool has what the store has as pending.
LEMMA RestartInv ==
  ASSUME PoolInv, Restart
  PROVE  PoolInv'
<1> USE DEF PoolInv
<1> DEFINE stored == {c \in Ctx : store[c] # None}
<1>1. /\ pending' = [c \in Ctx |-> IF store[c].status = Pending THEN store[c] ELSE None]
      /\ queued' = [c \in Ctx |-> None]
      /\ loop' = Select /\ peer' = NoPeer /\ sent' = {} /\ msgs' = <<>> /\ reader' = NoBatch
      /\ UNCHANGED <<store, finished, valid, onchain, confirmed>>
  BY DEF Restart, storeVars, chainVars
<1>2. stranded \subseteq stranded' /\ \A c \in confirmed \ stored : <<c, "crash">> \in stranded'
  <2>1. Because(confirmed \ stored, "crash")
    BY DEF Restart
  <2> HIDE DEF stored
  <2> QED BY <2>1, BecauseFacts
<1>3. /\ Select \in [pc : {"select", "add", "store"}, txs : SUBSET Ctx, fork : Fork, num : Nat]
      /\ Select.txs = {} /\ Select.pc = "select"
      /\ NoPeer \in [signer : Signer, txs : SUBSET Ctx, fork : Fork]
  BY PoolAssumption DEF Select, NoPeer, Fork
<1>4. TypeInv' /\ LoopInv'
  <2>1. pending' \in [Ctx -> Cws \cup {None}] /\ queued' \in [Ctx -> Cws \cup {None}]
    BY <1>1 DEF TypeInv
  <2> QED BY <1>1, <1>3, <2>1, SMTT(60) DEF TypeInv, LoopInv
<1>5. PendingInv'
  <2> SUFFICES ASSUME NEW c \in Ctx, store[c].status = Pending, store[c] # None
               PROVE  Held(c, store[c], stranded', confirmed)
    BY <1>1 DEF PendingInv
  <2>1. Stored(c, store[c], stranded, confirmed, valid, onchain[c])
    BY DEF StoreInv
  <2> QED BY <1>2, <2>1 DEF Stored, Held, Queueable
<1>6. QueuedInv'
  BY <1>1 DEF QueuedInv
<1>7. FlightInv'
  <2>1. Flying' = {NoBatch}
    BY <1>1, SMTT(60) DEF Flying
  <2>2. NoBatch \in [{} -> Cws] /\ DOMAIN NoBatch = {}
    BY DEF NoBatch
  <2>3. NoBatch \in Batch
    BY ONLY <2>2, ZenonT(60) DEF Batch
  <2> QED BY <2>1, <2>2, <2>3 DEF FlightInv, Complete
<1>8. StoreInv' /\ NoticedInv'
  BY <1>1, <1>2, StoreKept, NoticedKept
<1>9. SafeInv'
  <2> SUFFICES ASSUME NEW c \in confirmed, store[c].status = Pending
               PROVE  pending'[c].fork = "main" \/ Excused(c, stranded')
    BY <1>1 DEF SafeInv
  <2>1. c \in Ctx
    BY DEF TypeInv
  <2>2. CASE store[c] = None
    BY <1>2, <2>2 DEF Excused
  <2>3. CASE store[c] # None
    <3>1. pending'[c] = store[c]
      BY <1>1, <2>1
    <3>2. Stored(c, store[c], stranded, confirmed, valid, onchain[c]) /\ store[c].fork \in Fork
      BY <2>1, <2>3 DEF StoreInv, TypeInv, Cws
    <3> QED BY <1>2, <3>1, <3>2, SMTT(60) DEF Stored, Excused, Fork
  <2> QED BY <2>2, <2>3
<1> QED BY <1>4, <1>5, <1>6, <1>7, <1>8, <1>9

-----------------------------------------------------------------------------
(* The theorems *)

LEMMA PoolInit == Init => PoolInv
<1> SUFFICES ASSUME Init PROVE PoolInv
  OBVIOUS
<1>1. /\ \A c \in Ctx : pending[c] = None /\ queued[c] = None /\ store[c] = None /\ onchain[c] = 0
      /\ confirmed = {} /\ loop = Select
  BY DEF Init
<1>2. TypeInv
  <2>1. Select \in [pc : {"select", "add", "store"}, txs : SUBSET Ctx, fork : Fork, num : Nat]
    BY DEF Select, Fork
  <2>2. NoPeer \in [signer : Signer, txs : SUBSET Ctx, fork : Fork]
    BY PoolAssumption DEF NoPeer, Fork
  <2>3. 0 \in 0..4 /\ <<>> \in Seq(Batch)
    BY SMTT(60)
  <2> QED BY <2>1, <2>2, <2>3 DEF Init, TypeInv
<1>3. FlightInv
  <2>1. Flying = {NoBatch}
    BY SMTT(60) DEF Init, Flying
  <2>2. NoBatch \in [{} -> Cws] /\ DOMAIN NoBatch = {}
    BY DEF NoBatch
  <2>3. NoBatch \in Batch
    BY ONLY <2>2, ZenonT(60) DEF Batch
  <2> QED BY <2>1, <2>2, <2>3 DEF FlightInv, Complete
<1>4. PendingInv /\ QueuedInv /\ StoreInv
  BY ONLY <1>1, ZenonT(60) DEF PendingInv, QueuedInv, StoreInv
<1>5. NoticedInv /\ SafeInv
  BY ONLY <1>1, SMTT(60) DEF NoticedInv, SafeInv
<1>6. LoopInv
  BY <1>1 DEF LoopInv, Select
<1> QED BY <1>2, <1>3, <1>4, <1>5, <1>6 DEF PoolInv

\* Every step of the pool, the handlers and the chains keeps the invariant.
LEMMA PoolStep == PoolInv /\ [Next]_vars => PoolInv'
<1> SUFFICES ASSUME PoolInv, [Next]_vars PROVE PoolInv'
  OBVIOUS
<1>1. CASE Next
  <2>1. ASSUME NEW c \in Ctx,
               Take(c) \/ HandleTaker(c) \/ HandleFinish(c) \/ RemoveFinished(c)
        PROVE  PoolInv'
    BY <2>1, TakeInv, HandleTakerInv, HandleFinishInv, RemoveFinishedInv
  <2> QED BY <1>1, <2>1, MakerConfirmedInv, AddLocalsInv, StorePendingInv, CheckRemotesInv,
             AddRemotesInv, WriteCrossMessageInv, ReadCrossMessageInv, CallBackInv, UpkeepInv,
             RestartInv DEF Next
<1>2. CASE UNCHANGED vars
  <2>1. UNCHANGED <<pending, queued, store, finished, loop, peer, sent, msgs, reader, valid,
                    onchain, confirmed, stranded>>
    BY <1>2 DEF vars, poolVars, storeVars, msgVars, chainVars
  <2>2. Flying' = Flying
    BY ONLY <2>1, ZenonT(60) DEF Flying
  <2>3. TypeInv' /\ LoopInv'
    BY ONLY PoolInv, <2>1, ZenonT(60) DEF PoolInv, TypeInv, LoopInv
  <2>4. PendingInv' /\ QueuedInv' /\ FlightInv'
    BY ONLY PoolInv, <2>1, <2>2, ZenonT(60) DEF PoolInv, PendingInv, QueuedInv, FlightInv
  <2>5. StoreInv' /\ NoticedInv'
    BY ONLY PoolInv, <2>1, ZenonT(60) DEF PoolInv, StoreInv, NoticedInv
  <2>6. SafeInv'
    BY ONLY PoolInv, <2>1, <2>2, ZenonT(60) DEF PoolInv, SafeInv
  <2> QED BY <2>3, <2>4, <2>5, <2>6 DEF PoolInv
<1> QED BY <1>1, <1>2

\* The pool, the store and the commits in flight stay consistent for every number
\* of transactions and anchors, however the handler's loop, the peers, the other
\* handler's reader and callback, and restarts interleave.
THEOREM PoolInvHolds == Spec => []PoolInv
BY PoolInit, PoolStep, PTL DEF Spec

\* What the store offers as waiting has Require signatures of different anchors
\* that the other chain accepts: only the callback of Commit stores it, after
\* verification.
THEOREM WaitingHasQuorumHolds == Spec => []WaitingHasQuorum
<1>1. PoolInv => WaitingHasQuorum
  <2> SUFFICES ASSUME PoolInv, NEW c \in Ctx, store[c].status = Waiting
               PROVE  /\ signers(store[c]) \subseteq valid
                      /\ Cardinality(signers(store[c])) >= Require
                      /\ Cardinality(signers(store[c])) = Len(store[c].sigs)
    BY DEF WaitingHasQuorum
  <2>1. store[c] # None
    BY NoneFacts, SMTT(60) DEF Waiting, Pending
  <2>2. Stored(c, store[c], stranded, confirmed, valid, onchain[c])
    BY <2>1 DEF PoolInv, StoreInv
  <2>3. /\ Signed(store[c]) /\ signers(store[c]) \subseteq valid
        /\ Len(store[c].sigs) >= Require
    BY <2>2 DEF Stored
  <2> QED BY <2>3, SignersCount
<1> QED BY <1>1, PoolInvHolds, PTL

\* A transaction whose taker is confirmed is executed in the store, or came there
\* later: neither a late signature nor a late callback of Commit takes it back.
THEOREM TakenIsNoticedHolds == Spec => []TakenIsNoticed
<1>1. PoolInv => TakenIsNoticed
  BY DEF PoolInv, NoticedInv, TakenIsNoticed
<1> QED BY <1>1, PoolInvHolds, PTL

\* A confirmed maker that is not waiting is on its way, or pending with the own
\* signature, or left behind for one of the six reasons that the code has.
THEOREM NotStrandedHolds == Spec => []NotStranded
<1>1. PoolInv => NotStranded
  <2> SUFFICES ASSUME PoolInv, NEW c \in confirmed \ finished, store[c].status = Pending,
                      ~InFlight(c), ~Excused(c, stranded)
               PROVE  pending[c].fork = "main" /\ Self \in signers(pending[c])
    BY DEF NotStranded, Excused
  <2>1. ~ToAdd(c, loop) /\ ~OnItsWay(c, Flying)
    BY DEF InFlight, ToAdd, OnItsWay, Carries
  <2>2. pending[c].fork = "main"
    BY <2>1 DEF PoolInv, SafeInv
  <2>3. c \in Ctx /\ pending[c] # None
    BY <2>2, NoneFacts DEF PoolInv, TypeInv
  <2>4. Held(c, pending[c], stranded, confirmed)
    BY <2>3 DEF PoolInv, PendingInv
  <2> QED BY <2>2, <2>4 DEF Held, Excused
<1> QED BY <1>1, PoolInvHolds, PTL
=============================================================================
