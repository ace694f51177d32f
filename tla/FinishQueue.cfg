SPECIFICATION LiveSpec
CONSTANTS
  Item <- MCItem
  NoItem = NoItem
  MaxFinish = 1
  AccountSlots = 2
  ChanSize = 1
  MaxBatch = 2
  MaxRtx = 3
  MaxTroubles = 2
INVARIANTS
  StuckOnlyByPop
  
  HeldOnce
PROPERTIES
  ImplementsFIFO
  
