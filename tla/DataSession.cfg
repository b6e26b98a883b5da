SPECIFICATION FairSpec
CONSTANTS
  Robots = {robot}
  Realsenses = {thirdPerson}
  Zeds = {wrist}
  MaxItems = 1
  robot = robot
  thirdPerson = thirdPerson
  wrist = wrist
CHECK_DEADLOCK FALSE
INVARIANTS
  NoRecorderLeft
  GoodSessionIsComplete
  RowsNameFinishedVideos
PROPERTIES
  SessionEnds
