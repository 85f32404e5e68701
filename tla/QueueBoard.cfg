SPECIFICATION Spec
SYMMETRY Interchangeable
CONSTANTS
  p1 = p1
  k3 = k3
  p2 = p2
  k1 = k1
  k2 = k2
  Targets = {db}
  Procs = {p1}
  Keys = {k1}
  Remote = {}
  NoProc = NoProc
  NoRow = NoRow
  NoQuery = NoQuery
  Cap = 1
  NewcomerCap = 1
  Reserve = 0
  Concurrency = 2
  MaxId = 2
  Causes = {"new"}
  Failures = {"other"}
  Backoffs = 1
  FirstHourMax = 2
  Changes = {"sign-in", "removal", "monitoring"}
  StartHours = {"over"}
  StartExecute = {FALSE}
  MaxAsked = 1
  MaxSerial = 2
  MaxAttempt = 2
  MaxDay = 1
INVARIANTS WaitingHoldsNothing
PROPERTIES ImplementsBoard
CHECK_DEADLOCK FALSE
