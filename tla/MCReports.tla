----------------------------- MODULE MCReports -----------------------------
EXTENDS Reports, TLC

CONSTANTS p1, p2

OneProc == {p1}
TwoProcs == {p1, p2}
Symmetry == Permutations(TwoProcs)
=============================================================================
