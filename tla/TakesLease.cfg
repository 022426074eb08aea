SPECIFICATION Spec
CONSTANTS
  MaxTakes = 1
  NTools = 1
  Options <- Chapters
  Disturbances = {}
  MaxTrouble = 0
INVARIANTS LeaseLastsAsLongAsTheTake
CHECK_DEADLOCK FALSE
