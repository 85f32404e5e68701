CONSTANTS
  p1 = p1
  p2 = p2
  Procs <- OneProc
  Collectors <- OneProc
  LostAfterFailures = 2
  LostAfter = 1
  PushAfter = 2
  MaxLate = 1
  CollectionsWait = FALSE
  Changes = {"user", "switch", "settings", "crash"}
SPECIFICATION FairSpec
INVARIANTS TypeOK PushedOnce FailsAfterAnswer
PROPERTIES ClosedIsQuiet OutageReported OutageCloses
CHECK_DEADLOCK FALSE
