CONSTANTS
  p1 = p1
  p2 = p2
  NoRun = NoRun
  Procs <- OneProc
  MaxRuns = 2
  CheckupSlots = 1
SPECIFICATION FairSpec
PROPERTIES RunsEnd NightlyHappens
CHECK_DEADLOCK FALSE
