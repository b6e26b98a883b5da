SPECIFICATION FairSpec
CONSTANTS
  PlannerCapacity = 1
  RtCapacity = 2
  PlannerDecimation = 1
  RtDecimation = 2
  MaxTicks = 5
CHECK_DEADLOCK FALSE
INVARIANTS
  AllAccounted
PROPERTIES
  ImplementsLog
  TraceEnds
