CONSTANTS
  p1 = p1
  p2 = p2
  t1 = t1
  t2 = t2
  NoLease = NoLease
  NoState = NoState
  Procs <- OneProc
  Targets <- TwoTargets
  Remote = {}
  Monitored <- OneTarget
  Tunneled = {t1}
  Readers = {p1}
  GlobalConcurrency = 1
  MaxToken = 2
  MaxLife = 0
SPECIFICATION FairSpec
INVARIANTS AdmissionHeld OneReading ReadingSlotsKept
PROPERTIES CheckedAgain
CHECK_DEADLOCK FALSE
