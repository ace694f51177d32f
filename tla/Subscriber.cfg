SPECIFICATION Spec
CONSTANTS
  la = la
  lb = lb
  Label = {la, lb}
  Content <- TwoAndOne
  Depth = 2
  ShorterWins = FALSE
  Journaled = TRUE
  MaxNumber = 5
  MaxBlocks = 7
  MaxStarts = 2
  MaxStartBlocks = 3
INVARIANTS ConfirmedIsDeep NothingLost TakenIsCanonical 
PROPERTY RestartKeepsNewest
CHECK_DEADLOCK FALSE
