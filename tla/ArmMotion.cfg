SPECIFICATION Spec
CONSTANTS
  Joints = {1, 2}
  Lower <- MCLower
  Upper <- MCUpper
  MaxVelocity = 2
  MaxAcceleration = 1
  MaxJerk = 1
  MaxStep = 1
  Deadzone = 1
  CyclesPerSecond = 2
  ServoKp = 4
  ServoKd = 2
  HoldDamping = 1
  HoldPosition = 1
  HoldVelocity = 1
  HoldRelease = 2
  Margin = 1
  IkReach = 1
  MaxJointDelta = 2
  NullspaceHome <- MCNullspace
  StartHome <- MCStart
  ArrivalTolerance = 2
  Slow = 2
  CoastTime = 8
INVARIANTS
  TypeOK
  SlowsDown
PROPERTIES
  NoJump
  LimitsKept
  ChangesGently
