SPECIFICATION Spec
CONSTANTS
  Request = {}
  Loop = {l1, l2}
  Syncer = syncer
INVARIANTS
  StatusIsHonest
CHECK_DEADLOCK FALSE
