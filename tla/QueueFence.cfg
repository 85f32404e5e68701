SPECIFICATION LiveSpec
CONSTANTS
  p1 = p1
  k3 = k3
  p2 = p2
  k1 = k1
  k2 = k2
  Targets = {db}
  Procs = {p1, p2}
  Keys = {k1}
  Remote = {p2}
  NoProc = NoProc
  NoRow = NoRow
  NoQuery = NoQuery
  Cap = 1
  NewcomerCap = 1
  Reserve = 0
  Concurrency = 2
  MaxId = 1
  Causes = {"user"}
  Failures = {"other"}
  Backoffs = 1
  FirstHourMax = 2
  Changes = {"crash", "deadline"}
  StartHours = {"over"}
  StartExecute = {FALSE}
  MaxAsked = 1
  MaxSerial = 1
  MaxAttempt = 5
  MaxDay = 1
INVARIANTS TypeOK OneWorkerPerJob
PROPERTIES EndedIsFinal RunningEnds ClicksSettle
CHECK_DEADLOCK FALSE
