SPECIFICATION SyncSpec
CONSTANTS
  Peer = {p, q}
  Nobody = nobody
  Num <- MCNum
  Limit = 1
  ChannelSize = 1
  MaxConnects = 3
  MaxChanges = 1
  MaxRounds = 2
INVARIANTS
  
  LoopHeldAfterTimeouts
PROPERTIES
  
  SynchronisationEnds
CHECK_DEADLOCK FALSE
