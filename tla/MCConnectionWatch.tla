------------------------- MODULE MCConnectionWatch -------------------------
EXTENDS ConnectionWatch

CONSTANTS p1, p2

OneProc == {p1}
TwoProcs == {p1, p2}
=============================================================================
