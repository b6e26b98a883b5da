SPECIFICATION TargetSpec
CONSTANTS
  Readers = {callback}
  Words = {w1, w2}
  MaxPublishes = 6
  Overtaking = FALSE
  InhibitTicks = 2
  MaxRoutes = 2
INVARIANTS
  MovesOnLastPlanned
PROPERTIES
  MovesByRegister
CHECK_DEADLOCK FALSE
