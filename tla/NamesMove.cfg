CONSTANTS
  a = a
  b = b
  d1 = d1
  d2 = d2
  NoDb = NoDb
  Names = {a, b}
  Dbs = {d1, d2}
  Answering = {a}
  Start <- OneNamed
  Settings = {a}
  Requests = {1, 2}
  Working = {b}
  MaxChanges = 2
SPECIFICATION FairSpec
INVARIANTS ResultsFollow MidwayUnread StaleCycleStops OffIsQuiet
PROPERTIES SlowOnlyDelaysItself
CHECK_DEADLOCK FALSE
