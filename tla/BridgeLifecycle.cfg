SPECIFICATION BridgeFairSpec
INVARIANTS
  BridgeTypeOK
  UsedWhileAlive
PROPERTIES
  StopEndsProcess
CHECK_DEADLOCK FALSE
