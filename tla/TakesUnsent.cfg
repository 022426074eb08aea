SPECIFICATION Spec
CONSTANTS
  MaxTakes = 1
  NTools = 1
  Options <- Plain
  Disturbances = {}
  MaxTrouble = 0
PROPERTIES UnsentStopCanBeRepeated
CHECK_DEADLOCK FALSE
