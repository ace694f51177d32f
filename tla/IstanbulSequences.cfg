SPECIFICATION PromptSpec
CONSTANTS
  N = 2
  Sticky = TRUE
  Live = {0, 1}
  Payload = {x, y}
  BadPayload = {y}
  Faulty = {}
  Miners = {0, 1}
  Timers = {0, 1}
  MaxSeq = 2
  MaxRound = 1
CONSTRAINT LastRoundBegins
INVARIANTS TypeOK PrepareOncePerView ChainsAgree
PROPERTY LockKept
CHECK_DEADLOCK FALSE
