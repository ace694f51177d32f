SPECIFICATION Spec
CONSTANTS
  la = la
  lb = lb
  Label = {la, lb}
  Content <- TwoAndOne
  Depth = 2
  ShorterWins = TRUE
  Journaled = TRUE
  MaxNumber = 3
  MaxBlocks = 4
  MaxStarts = 2
  MaxStartBlocks = 4
INVARIANT SurvivesRestart
CHECK_DEADLOCK FALSE
