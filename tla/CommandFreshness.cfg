SPECIFICATION Spec
CONSTANTS
  Timeout = 2
  Grace = 2
  Refresh = 2
  Never = 99
  MaxTime = 8
CHECK_DEADLOCK FALSE
INVARIANTS
  TypeOK
  CommandAgeBounded
  LettingGoStops
