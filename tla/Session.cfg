SPECIFICATION Spec
CONSTANTS
  obs = obs
  eff = eff
  own = own
  bat = bat
  pub = pub
  None = None
  Requests = {obs, own}
  Kind <- KindOf
  RequestItems = 1
  Faults = {"cancel", "shutdown", "drop", "consumer", "socket"}
INVARIANTS TypeOK BeforeDispatchIsHonest StoppedLeavesNoOrphan
PROPERTIES AnswerIsPeersOwn ObservationExpiresAlone ImplementsRpc
CHECK_DEADLOCK FALSE
