---------------------- MODULE MCObservationScheduler ----------------------
EXTENDS ObservationScheduler

CONSTANTS p1, p2, t1, t2

OneProc == {p1}
TwoProcs == {p1, p2}
OneTarget == {t1}
TwoTargets == {t1, t2}
=============================================================================
