SPECIFICATION Spec
CONSTANTS
  Quantity = 3
  MaxPlans = 3
  Behaviours <- Flattening
INVARIANTS
  TypeOK
  OneLiveOco
  NoOversell
  CloseStandsAlone
  GuardLetsClose
PROPERTIES
  NoOcoAfterKill
CHECK_DEADLOCK FALSE
