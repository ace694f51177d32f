SPECIFICATION PromptSpec
CONSTANTS
  N = 4
  Sticky = FALSE
  Live = {0, 1, 3}
  Payload = {x}
  BadPayload = {}
  Faulty = {3}
  Miners = {0, 1}
  Timers = {0, 1}
  MaxSeq = 1
  MaxRound = 1
CONSTRAINT OneSequence
INVARIANTS Agreement StartedRoundHasQuorum
CHECK_DEADLOCK FALSE
