SPECIFICATION FairSpec
CONSTANTS
  Profile = {low, hd, custom}
  Request = {r1, r2}
  None = None
  OneRequestAtATime = TRUE
INVARIANTS
  PumpInv
  OneStream
  StreamHasSessionProfile
PROPERTIES
  StopEndsVideo
  ProfileReachesPhone
CHECK_DEADLOCK FALSE
