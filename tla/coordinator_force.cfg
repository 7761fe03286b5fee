CONSTANTS
  NoJob = NoJob
  NoSignal = NoSignal
  Ext = Ext
  Other = Other
  Requests = {r1, r2}
  Signals = {}
  SharedService = TRUE
  ForeignCallbacks = FALSE
  MaxStops = 0
SPECIFICATION Spec
PROPERTIES ForceNotAnsweredFromCache
CHECK_DEADLOCK FALSE
