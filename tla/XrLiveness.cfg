SPECIFICATION FairSpec
CONSTANTS
  ControlSource = "xr"
  GripperMode = "analog"
  MaxRehomes = 1
  MaxReflexes = 1
  MayStop = TRUE
  MaxDisturbances = 0
  SettleCycles = 2
  InhibitTicks = 0
PROPERTIES
  RehomeCompletes
  StopEndsThreads
CHECK_DEADLOCK FALSE
