SPECIFICATION GripperFairSpec
INVARIANTS
  GripperTypeOK
PROPERTIES
  ActiveFollowsCall
  DesiredIsReached
