SPECIFICATION LiveSpec
CONSTANTS
  t1 = t1
  t2 = t2
  Tx <- TwoTxs
  ChanSize = 2
  MaxOwn = 4
  MaxForeign = 2
  MaxTroubles = 2
INVARIANTS ProposedIsUnapplied HeadIsCurrent
PROPERTY EveryTxIsMined
CHECK_DEADLOCK FALSE
