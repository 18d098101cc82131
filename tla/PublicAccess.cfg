SPECIFICATION FairSpec
CONSTANTS
  Saver = {handler}
  Syncer = {loop}
  Ice = ice
  None = None
  Own = Own
  Broken = Broken
  MaxSave = 1
  MaxMove = 1
  MaxFault = 1
INVARIANTS
  AccessInv
  OwnerChoiceStands
PROPERTIES
  NodeStands
  FollowsNode
  DiscoveryEnds
CHECK_DEADLOCK FALSE
