SPECIFICATION FairSpec
CONSTANTS
  Request = {r1}
  Channel = channel
  None = None
  MaxDown = 1
  MaxRepair = 1
INVARIANTS
  PathInv
  EventReachesPhoneOnce
  GestureStartsOnce
  OldShellsWereOvertaken
PROPERTIES
  EventsAreAnswered
  RepairEnds
CHECK_DEADLOCK FALSE
