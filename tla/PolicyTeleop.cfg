SPECIFICATION PolicySpec
CONSTANTS
  ControlSource = "policy"
  GripperMode = "analog"
  MaxRehomes = 0
  MaxReflexes = 1
  MayStop = FALSE
  MaxDisturbances = 0
  SettleCycles = 1
  InhibitTicks = 2
  Grippers = {"Close"}
  Repeat = 2
  MaxRequests = 1
  MaxLost = 0
INVARIANTS
  OneRoutePerRequest
  NoStaleAction
PROPERTIES
  RequestKept
