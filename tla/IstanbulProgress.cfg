SPECIFICATION LiveSpec
CONSTANTS
  N = 4
  Sticky = FALSE
  Live = {1, 2, 3}
  Payload = {x}
  BadPayload = {}
  Faulty = {}
  Miners = {1}
  Timers = {1, 2, 3}
  MaxSeq = 1
  MaxRound = 2
PROPERTY Progress
CHECK_DEADLOCK FALSE
