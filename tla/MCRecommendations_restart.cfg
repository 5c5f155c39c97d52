SPECIFICATION Spec
CONSTANTS
  Days = 2
  Bars <- MCBars
  MaxLag = 2
  Window = 2
  Shapes <- MCShapes
CHECK_DEADLOCK FALSE
INVARIANTS
  TypeOK
  OneTrade
  OncePerDay
  NothingExcluded
  OvernightOnlyIfCut
PROPERTIES
  CheckpointIsTrue
