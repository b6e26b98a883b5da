SPECIFICATION Spec
CONSTANTS
  ControlSource = "xr"
  GripperMode = "binary"
  MaxRehomes = 2
  MaxReflexes = 1
  MayStop = TRUE
  MaxDisturbances = 1
  SettleCycles = 2
  InhibitTicks = 0
INVARIANTS
  OneRoutePerRequest
  NothingOutlivesRehome
PROPERTIES
  ActiveTickIsAnchored
  ImplementsService
CHECK_DEADLOCK FALSE
