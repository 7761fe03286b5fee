SPECIFICATION BatchSpec
CONSTANTS
  u1 = u1
  u2 = u2
  Uids = {u1, u2}
INVARIANTS ReportIsTrue
PROPERTIES CacheEmptiedFirst
CHECK_DEADLOCK FALSE
