SPECIFICATION Spec
CONSTANTS
  MaxCtx = 2
  Signer = {self, a, b}
  Self = self
  Require = 2
  MaxLate = 1
  MaxInputs = 3
  MaxTaken = 1
  MaxTroubles = 1
SYMMETRY Anchors
CHECK_DEADLOCK FALSE
INVARIANTS
  
  
  TakenIsNoticed
