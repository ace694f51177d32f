SPECIFICATION Spec
CONSTANTS
  n1 = n1
  n2 = n2
  n3 = n3
  Self = n1
  Peer <- TwoPeers
  InitialPeer <- OneInitial
  SnapshotPeriod = 2
  CanReuse = FALSE
  CanRewind = FALSE
  CanCrashEarly = FALSE
  MaxLog = 5
  MaxCrashes = 2
INVARIANTS  MembersFollowLog 
PROPERTY ReplayRestores
CHECK_DEADLOCK FALSE
