CONSTANTS
  p1 = p1
  p2 = p2
  t1 = t1
  t2 = t2
  NoLease = NoLease
  NoState = NoState
  Procs <- TwoProcs
  Targets <- OneTarget
  Remote = {p2}
  Monitored <- OneTarget
  Tunneled = {}
  Readers = {}
  GlobalConcurrency = 1
  MaxToken = 2
  MaxLife = 1
SPECIFICATION Spec
INVARIANTS TypeOK LeasesReturned
PROPERTIES WritesInOrder
CHECK_DEADLOCK FALSE
