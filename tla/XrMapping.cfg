SPECIFICATION MappingSpec
CONSTANTS
  HandSpace = {0, 2}
  HandSpeed = 2
  ArmSpace = {0}
  MaxCoast = 1
  Deadband = 1
  StillThreshold = 1
  ReleaseThreshold = 2
  Dwell = 1
  WorkspaceMin = 1
  WorkspaceMax = 4
  JumpReject = 2
  MaxStep = 1
  MaxFreezes = 2
INVARIANTS
  MappingTypeOK
  DriftBounded
PROPERTIES
  NoLeap
  RejoinsNearArm
