SPECIFICATION FairSpec
CONSTANTS
  None = None
  Calls = {c1, c2}
  Scopes = {k1, k2}
  Paths = {f1}
  Forces = {FALSE}
  Signals = {TRUE, FALSE}
  TTL = 1
  MaxTime = 1
  Outsiders = TRUE
INVARIANTS CacheInv
PROPERTIES OnlyTheNewestIsWritten EveryCallReturns
CHECK_DEADLOCK FALSE
