CONSTANTS
  p1 = p1
  p2 = p2
  NoRun = NoRun
  Procs <- TwoProcs
  MaxRuns = 1
  CheckupSlots = 1
SPECIFICATION Spec
PROPERTIES CancelStops
CHECK_DEADLOCK FALSE
