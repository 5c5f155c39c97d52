SPECIFICATION Spec
CONSTANTS
  Days = 1
  Bars <- MCLongDay
  MaxLag = 0
  Window = 2
  Shapes <- MCShapes
CHECK_DEADLOCK FALSE
PROPERTIES
  MissedBarsAreUsed
