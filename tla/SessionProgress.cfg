SPECIFICATION FairSpec
CONSTANTS
  obs = obs
  eff = eff
  own = own
  bat = bat
  pub = pub
  None = None
  Requests = {bat, obs, own}
  Kind <- KindOf
  RequestItems = 1
  Faults = {}
PROPERTIES StopLanesNeverWaitForOrdinaryWork LeasesComeBack
CHECK_DEADLOCK FALSE
