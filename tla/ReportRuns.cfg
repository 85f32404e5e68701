CONSTANTS
  p1 = p1
  p2 = p2
  NoRun = NoRun
  Procs <- TwoProcs
  MaxRuns = 2
  CheckupSlots = 1
SPECIFICATION Spec
INVARIANTS OneRunning
PROPERTIES EndedStaysEnded
SYMMETRY Symmetry
CHECK_DEADLOCK FALSE
