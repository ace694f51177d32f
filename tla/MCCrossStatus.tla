--------------------------- MODULE MCCrossStatus ---------------------------
EXTENDS CrossStatus
=============================================================================
