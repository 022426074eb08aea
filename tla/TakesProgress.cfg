SPECIFICATION FairSpec
CONSTANTS
  MaxTakes = 1
  NTools = 0
  Options <- Timed
  Disturbances = {"manual"}
  MaxTrouble = 1
PROPERTIES DueDeadlineIsServed ShutdownCompletes
CHECK_DEADLOCK FALSE
