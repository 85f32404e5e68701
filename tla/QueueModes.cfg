SPECIFICATION Spec
SYMMETRY Interchangeable
CONSTANTS
  p1 = p1
  k3 = k3
  p2 = p2
  k1 = k1
  k2 = k2
  Targets = {db}
  Procs = {p1, p2}
  Keys = {k1, k2}
  Remote = {}
  NoProc = NoProc
  NoRow = NoRow
  NoQuery = NoQuery
  Cap = 2
  NewcomerCap = 1
  Reserve = 0
  Concurrency = 2
  MaxId = 2
  Causes = {"new"}
  Failures = {"other"}
  Backoffs = 1
  FirstHourMax = 2
  Changes = {"execute", "hour", "crash"}
  StartHours = {"now"}
  StartExecute = {TRUE, FALSE}
  MaxAsked = 1
  MaxSerial = 2
  MaxAttempt = 2
  MaxDay = 1
INVARIANTS MeasuredAlone NewcomersKept
CHECK_DEADLOCK FALSE
