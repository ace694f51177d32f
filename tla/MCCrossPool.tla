---------------------------- MODULE MCCrossPool ----------------------------
EXTENDS CrossPool, TLC

\* The other anchors are alike.
Anchors == Permutations(Signer \ {Self})
=============================================================================
