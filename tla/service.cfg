SPECIFICATION Spec
CONSTANTS
  None = None
  Cancelled = Cancelled
  Requests = {r1, r2}
  Keys = {k1, k2}
  Modes = {"local", "normal", "force"}
  MaxServices = 2
  MaxSaves = 1
SYMMETRY Symmetry
INVARIANTS TaskInv RequestInv
PROPERTIES ListsOnlyGetNewer
CHECK_DEADLOCK FALSE
