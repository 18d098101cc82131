SPECIFICATION FairSpec
CONSTANTS
  Request = {request}
  Loop = {l1, l2}
  Syncer = syncer
INVARIANTS
  LoopInv
  SessionCoherent
  SignOutStands
PROPERTIES
  RetryRestoresSession
CHECK_DEADLOCK FALSE
