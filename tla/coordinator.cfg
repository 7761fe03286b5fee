SPECIFICATION Spec
CONSTANTS
  NoJob = NoJob
  NoSignal = NoSignal
  Ext = Ext
  Other = Other
  Requests = {r1, r2}
  Signals = {s1, s2}
  SharedService = TRUE
  ForeignCallbacks = TRUE
  MaxStops = 1
SYMMETRY Symmetry
VIEW LiveView
INVARIANTS NoLostWaiter NothingQueuedWhileIdle
PROPERTIES NoSuccessAfterPreemption ImplementsPromises
CHECK_DEADLOCK FALSE
