SPECIFICATION FairSpec
CONSTANTS
  MaxFrame = 6
INVARIANTS
  Inv
  EveryFrameCounted
PROPERTIES
  TrackInOrder
  ImplementsMailbox
  NoSideBlocks
  LatestArrives
CHECK_DEADLOCK FALSE
