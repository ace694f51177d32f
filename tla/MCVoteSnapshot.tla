--------------------------- MODULE MCVoteSnapshot ---------------------------
(* Instances of VoteSnapshot and DposSnapshot for TLC.  A behaviour is one *)
(* of Clique, of Istanbul or of DPoS.                                      *)
EXTENDS DposSnapshot

NoDpos ==
  /\ order = <<>> /\ behind = <<>> /\ full = 0 /\ made = <<>> /\ paid = NoEntries
  /\ sealer = newDpos({}) /\ other = sealer

VotesInit == (Init /\ NoDpos) \/ DposInit

VotesNext == (Next /\ UNCHANGED dposVars) \/ (engine = "dpos" /\ DposNext)

VotesSpec == VotesInit /\ [][VotesNext]_<<vars, dposVars>>

\* Accounts are only compared for equality; their order is a variable.
Symmetry == Permutations(Account)
=============================================================================
