SPECIFICATION Spec
CONSTANTS
  MaxTakes = 2
  NTools = 0
  Options <- Timed
  Disturbances = {}
  MaxTrouble = 0
INVARIANTS ConfirmedMeansStopped NoDeadlineIsForgotten
CHECK_DEADLOCK FALSE
