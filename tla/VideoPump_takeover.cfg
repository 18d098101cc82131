SPECIFICATION FairSpec
CONSTANTS
  Profile = {low, hd}
  Request = {r1}
  None = None
  OneRequestAtATime = TRUE
PROPERTIES
  TakeoverEndsVideo
CHECK_DEADLOCK FALSE
