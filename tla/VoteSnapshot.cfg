SPECIFICATION VotesSpec
CONSTANTS
  Account = {a, b, c, d}
  Nobody = nobody
  Epoch = 8
  MaxNumber = 11
  Accounts = 3
  MaxSignerCount = 2
  LCRS = 2
  VoteEpoch = 2
  CandidateMaxLen = 2
  ValidationLoopCnt = 1
  CheckpointInterval = 3
  MaxBlocks = 7
  MaxFull = 2
SYMMETRY Symmetry
INVARIANTS TallyIsRecount SealedIsAccepted CheckpointIsEnough  DepositReturned
PROPERTY ChangeNeedsMajority
CHECK_DEADLOCK FALSE
