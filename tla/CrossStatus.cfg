SPECIFICATION StatusSpec
CONSTANTS
  MaxCtx = 2
  MaxQueue = 1
  MaxReorgs = 1
CHECK_DEADLOCK FALSE
INVARIANTS
  
  FinishedIsFinished
  
