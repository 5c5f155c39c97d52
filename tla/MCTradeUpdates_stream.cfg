SPECIFICATION Spec
CONSTANTS
  Shares = 3
  Price <- Prices
  At <- Stamps
  MaxUnreadable = 1
  MaxEpochs = 2
  MaxCheckpoints = 3
INVARIANTS
  TypeOK
  CleanIsTrue
  NothingForgotten
  RecoveredIsClean
PROPERTIES
  CleanIsMonotone
CHECK_DEADLOCK FALSE
