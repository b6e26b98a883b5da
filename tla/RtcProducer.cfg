SPECIFICATION FairSpec
CONSTANTS
  Chunk = 4
  Elapsed = {0, 2, 4}
  Horizon = 1
  Explicit = 0
  MaxKeys = 4
CHECK_DEADLOCK FALSE
INVARIANTS
  NoOldAction
  NoResetDuringInference
PROPERTIES
  ResumeIsServed
  ProgramEnds
