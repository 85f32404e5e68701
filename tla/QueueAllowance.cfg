SPECIFICATION Spec
SYMMETRY Interchangeable
CONSTANTS
  p1 = p1
  k3 = k3
  p2 = p2
  k1 = k1
  k2 = k2
  Targets = {db}
  Procs = {p1}
  Keys = {k1, k2}
  Remote = {}
  NoProc = NoProc
  NoRow = NoRow
  NoQuery = NoQuery
  Cap = 2
  NewcomerCap = 1
  Reserve = 1
  Concurrency = 1
  MaxId = 3
  Causes = {"top15_stale", "report"}
  Failures = {"ai"}
  Backoffs = 1
  FirstHourMax = 2
  Changes = {}
  StartHours = {"over"}
  StartExecute = {FALSE}
  MaxAsked = 1
  MaxSerial = 3
  MaxAttempt = 1
  MaxDay = 2
INVARIANTS OneLiveJob AllowanceKept SlotsKept
CHECK_DEADLOCK FALSE
PROPERTIES ReserveKept
