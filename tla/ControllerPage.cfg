SPECIFICATION FairSpec
CONSTANTS
  MaxRecoveries = 1
  MaxRounds = 3
INVARIANTS
  PageInv
  RecoveryBounded
  KeepsTrying
PROPERTIES
  RoundsSettle
CHECK_DEADLOCK FALSE
