SPECIFICATION Spec
CONSTANTS
  None = None
  k1 = k1
  k2 = k2
  c1 = c1
  c2 = c2
  m1 = m1
  Keys = {k1, k2}
  Calls = {c1, c2}
  Cmds = {m1}
  MaxLifecycle = 2
  MaxStored = 1
  HasUI = TRUE
SYMMETRY Symmetry
INVARIANTS StatusIsTrue DirectoryInv OnlyTheLiveContext
PROPERTIES RecoveryEndsOnce
CHECK_DEADLOCK FALSE
