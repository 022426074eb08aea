SPECIFICATION Spec
CONSTANTS
  MaxTakes = 1
  NTools = 1
  Options <- ChaptersAndClips
  Disturbances = {"foreign", "manual", "fault", "gone"}
  MaxTrouble = 1
INVARIANTS TypeOK
PROPERTIES StopsOnlyItsOwnRecording StopIsNeverReplayed ManualStopVetoesOwnedStop
CHECK_DEADLOCK FALSE
