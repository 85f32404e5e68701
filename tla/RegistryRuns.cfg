CONSTANTS
  t1 = t1
  s1 = s1
  NoRun = NoRun
  MaxRuns = 2
  MaxEvents = 1
  MaxFinished = 1
  Audits = {1}
  Targets = {t1}
  TargetOf <- OneDatabase
  Swallows = {2}
  Subscribers = {s1}
  Afters <- Places
SPECIFICATION FairSpec
INVARIANTS EndedOnce StreamComplete
PROPERTIES RetentionKept StreamsSettle CancelSettles
CHECK_DEADLOCK FALSE
