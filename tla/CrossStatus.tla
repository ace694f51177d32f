---------------------------- MODULE CrossStatus ----------------------------
(***************************************************************************)
(* The status of cross transactions in the store of one chain, the chain   *)
(* of their makers (cross/backend/store.go, cross/core/cross_status.go).   *)
(* Two handlers write it, each with the events of its own chain and at its *)
(* own pace (cross/backend/handler.go): the local one the finishes and the *)
(* changes of anchors, the remote one the takers.  Either chain may        *)
(* reorganise what it has not confirmed yet.                               *)
(*                                                                         *)
(* The two chains are what this node sees of them: other anchors finish a  *)
(* transaction when they see its taker confirmed, which may be before this *)
(* node does.                                                              *)
(***************************************************************************)
EXTENDS CrossCore, Sequences

CONSTANTS
  MaxQueue,  \* bound: events that wait in crossBlockCh
  MaxReorgs  \* bound: reorganisations

ASSUME StatusAssumption == {MaxQueue, MaxReorgs} \subseteq Nat

VARIABLES
  status,    \* the store: the status of each transaction, or NoStatus
  txLog,     \* txLog: transactions that were finished and removed
  takers,    \* takers on the remote chain
  finishes,  \* finishes on the local chain
  revoked,   \* whether the anchors that signed have been replaced
  localCh,   \* crossBlockCh of the local handler
  remoteCh,  \* crossBlockCh of the remote handler
  localMods, \* modifiers that the local handler is about to write
  remoteMods, \* modifiers that the remote handler is about to write
  reorgs,
  aborted,   \* history: transactions whose modifiers were not written
  crossed,   \* history: taker reorganised here after it was finished by others
  reborn     \* history: transactions that a reorganisation made waiting

recordVars == <<status, txLog>>
sideVars == <<takers, finishes, revoked, reorgs>>
history == <<aborted, crossed, reborn>>
statusVars == <<recordVars, sideVars, localCh, remoteCh, localMods, remoteMods, history>>

\* Not in the store
NoStatus == -1

\* What a chain says of a taker or of a finish
Absent == 0
New == 1
Confirmed == 2

\* A batch of modifiers, at most one for each transaction: those of S
Mods(S, type, to) == [c \in S |-> [type |-> type, status |-> to]]

NoMods == Mods({}, "normal", Waiting)

\* The modifiers of a block with the new logs of S that confirms those of T
BlockMods(S, T, type, first, then) ==
  [c \in S \cup T |-> [type |-> type, status |-> IF c \in S THEN first ELSE then]]

StatusInit ==
  /\ status \in [Ctx -> {NoStatus, Waiting}]
  /\ txLog = {}
  /\ takers = [c \in Ctx |-> Absent]
  /\ finishes = [c \in Ctx |-> Absent]
  /\ revoked = FALSE
  /\ localCh = <<>> /\ remoteCh = <<>>
  /\ localMods = NoMods /\ remoteMods = NoMods
  /\ reorgs = 0
  /\ aborted = {} /\ crossed = {} /\ reborn = {}

-----------------------------------------------------------------------------
(* The chains: a block with new logs confirms others; a reorganisation     *)
(* takes back what is new.                                                 *)

Step(chain, new, conf) ==
  [c \in Ctx |-> IF c \in new THEN New ELSE IF c \in conf THEN Confirmed ELSE chain[c]]

At(chain, stage) == {c \in Ctx : chain[c] = stage}

RemoteBlock ==
  \E new \in SUBSET At(takers, Absent), conf \in SUBSET At(takers, New) :
    /\ new \cup conf # {}
    /\ Len(remoteCh) < MaxQueue
    /\ takers' = Step(takers, new, conf)
    /\ remoteCh' = Append(remoteCh, BlockMods(new, conf, "remote", Executing, Executed))
    /\ UNCHANGED <<recordVars, finishes, revoked, reorgs, localCh, localMods, remoteMods, history>>

RemoteReorg ==
  \E old \in SUBSET At(takers, New) \ {{}} :
    /\ reorgs < MaxReorgs
    /\ Len(remoteCh) < MaxQueue
    /\ reorgs' = reorgs + 1
    /\ takers' = [c \in Ctx |-> IF c \in old THEN Absent ELSE takers[c]]
    /\ remoteCh' = Append(remoteCh, Mods(old, "reorg", Waiting))
    /\ UNCHANGED <<recordVars, finishes, revoked, localCh, localMods, remoteMods, history>>

LocalBlock ==
  \E new \in SUBSET At(finishes, Absent), conf \in SUBSET At(finishes, New) :
    /\ new \cup conf # {}
    /\ Len(localCh) < MaxQueue
    /\ finishes' = Step(finishes, new, conf)
    /\ localCh' = Append(localCh, [anchors |-> FALSE,
                    mods |-> BlockMods(new, conf, "normal", Finishing, Finished)])
    /\ UNCHANGED <<recordVars, takers, revoked, reorgs, remoteCh, localMods, remoteMods, history>>

LocalReorg ==
  \E old \in SUBSET At(finishes, New) \ {{}} :
    /\ reorgs < MaxReorgs
    /\ Len(localCh) < MaxQueue
    /\ reorgs' = reorgs + 1
    /\ finishes' = [c \in Ctx |-> IF c \in old THEN Absent ELSE finishes[c]]
    /\ localCh' = Append(localCh, [anchors |-> FALSE, mods |-> Mods(old, "reorg", Executed)])
    /\ UNCHANGED <<recordVars, takers, revoked, remoteCh, localMods, remoteMods, history>>

\* The anchors are replaced: the signatures made so far are not valid any more.
ReplaceAnchors ==
  /\ ~revoked
  /\ Len(localCh) < MaxQueue
  /\ revoked' = TRUE
  /\ localCh' = Append(localCh, [anchors |-> TRUE, mods |-> NoMods])
  /\ UNCHANGED <<recordVars, takers, finishes, reorgs, remoteCh, localMods, remoteMods, history>>

-----------------------------------------------------------------------------
(* The store *)

\* Mutant of Updated: finishing only what is executed.
UpdatedInOrder(old, m) ==
  IF \/ m.type = "reorg" /\ m.status < old
     \/ m.type = "remote" /\ m.status > old
     \/ m.type = "normal" /\ m.status > old /\ (m.status > Illegal => old >= Executed)
  THEN m.status ELSE old

\* The updater of Updates for one modifier
Updated(old, m) ==
  IF \/ m.type = "reorg" /\ m.status < old
     \/ m.type \in {"remote", "normal"} /\ m.status > old
  THEN m.status ELSE old

\* Updates: all of the modifiers in one transaction, or none if an id is missing
Updates(mods) ==
  LET missing == \E c \in DOMAIN mods : status[c] = NoStatus
      new == [c \in Ctx |-> IF c \in DOMAIN mods THEN Updated(status[c], mods[c]) ELSE status[c]]
  IN  /\ status' = IF missing THEN status ELSE new
      /\ aborted' = IF missing THEN aborted \cup DOMAIN mods ELSE aborted

-----------------------------------------------------------------------------
(* The handlers: what is read from the store first, and written after that *)

\* Mutant of HandleLocal: a change of anchors is not looked at.
HandleLocalFinishes ==
  /\ localCh # <<>> /\ localMods = NoMods
  /\ localCh' = Tail(localCh)
  /\ localMods' = Head(localCh).mods
  /\ UNCHANGED <<recordVars, sideVars, remoteCh, remoteMods, history>>

\* An event has modifiers or says that the anchors changed; then
\* handleAnchorChange looks for the waiting ones.
HandleLocal ==
  LET ev == Head(localCh)
  IN  /\ localCh # <<>> /\ localMods = NoMods
      /\ localCh' = Tail(localCh)
      /\ localMods' = IF ev.anchors THEN Mods(At(status, Waiting), "normal", Illegal) ELSE ev.mods
      /\ UNCHANGED <<recordVars, sideVars, remoteCh, remoteMods, history>>

UpdateLocal ==
  /\ localMods # NoMods
  /\ Updates(localMods)
  /\ localMods' = NoMods
  /\ UNCHANGED <<txLog, sideVars, localCh, remoteCh, remoteMods, crossed, reborn>>

\* Mutant of HandleRemote: an unknown transaction ends the event.
HandleRemoteAll ==
  LET mods == Head(remoteCh)
  IN  /\ remoteCh # <<>> /\ remoteMods = NoMods
      /\ remoteCh' = Tail(remoteCh)
      /\ remoteMods' = IF \A c \in DOMAIN mods : status[c] # NoStatus THEN mods ELSE NoMods
      /\ UNCHANGED <<recordVars, sideVars, localCh, localMods, history>>

\* Takers of transactions that are not in the store are left out.
HandleRemote ==
  LET mods == Head(remoteCh)
  IN  /\ remoteCh # <<>> /\ remoteMods = NoMods
      /\ remoteCh' = Tail(remoteCh)
      /\ remoteMods' = [c \in {d \in DOMAIN mods : status[d] # NoStatus} |-> mods[c]]
      /\ UNCHANGED <<recordVars, sideVars, localCh, localMods, history>>

UpdateRemote ==
  LET lowered == {c \in Ctx : status'[c] < status[c]}
  IN  /\ remoteMods # NoMods
      /\ Updates(remoteMods)
      /\ remoteMods' = NoMods
      /\ crossed' = crossed \cup {c \in lowered : status[c] > Executing}
      /\ reborn' = reborn \cup lowered
      /\ UNCHANGED <<txLog, sideVars, localCh, remoteCh, localMods>>

\* The pool stores a complete transaction that is not taken yet.
StoreWaiting(c) ==
  /\ status[c] = NoStatus
  /\ c \notin txLog
  /\ takers[c] = Absent /\ ~revoked
  /\ status' = [status EXCEPT ![c] = Waiting]
  /\ UNCHANGED <<txLog, sideVars, localCh, remoteCh, localMods, remoteMods, history>>

\* RemoveCrossTransactionBefore, from the loop or from the administrator
RemoveBefore(c) ==
  /\ status[c] = Finished
  /\ status' = [status EXCEPT ![c] = NoStatus]
  /\ txLog' = txLog \cup {c}
  /\ UNCHANGED <<sideVars, localCh, remoteCh, localMods, remoteMods, history>>

StatusNext ==
  \/ RemoteBlock \/ RemoteReorg
  \/ LocalBlock \/ LocalReorg \/ ReplaceAnchors
  \/ HandleLocal \/ UpdateLocal
  \/ HandleRemote \/ UpdateRemote
  \/ \E c \in Ctx : StoreWaiting(c) \/ RemoveBefore(c)

StatusSpec == StatusInit /\ [][StatusNext]_statusVars

-----------------------------------------------------------------------------
(* Properties *)

\* The handlers have written all events.
Quiet == localCh = <<>> /\ remoteCh = <<>> /\ localMods = NoMods /\ remoteMods = NoMods

\* Once the events are written, a stored transaction whose taker is confirmed is
\* executed or further, in whatever order the two handlers ran and whatever was
\* reorganised before, unless Updates left out a whole batch because of an id
\* that was not in the store.
TakenIsExecuted ==
  Quiet => \A c \in Ctx : takers[c] = Confirmed /\ status[c] # NoStatus =>
             status[c] >= Executed \/ c \in aborted

\* Once the events are written, a stored transaction whose finish is confirmed
\* is finished and can be removed, unless its batch was left out or the taker
\* was reorganised on this node's chain after other anchors had it finished.
FinishedIsFinished ==
  Quiet => \A c \in Ctx : finishes[c] = Confirmed /\ status[c] # NoStatus =>
             status[c] = Finished \/ c \in aborted \cup crossed

\* After a change of anchors no transaction with their signatures is offered as
\* waiting, unless a reorganisation of its taker made it waiting again, or the
\* batch was left out.
RevokedIsNotOffered ==
  revoked /\ localMods = NoMods /\ (\A i \in DOMAIN localCh : ~localCh[i].anchors) =>
    \A c \in Ctx : status[c] = Waiting => c \in reborn \cup aborted
=============================================================================
