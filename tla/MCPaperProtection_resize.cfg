SPECIFICATION Spec
CONSTANTS
  Quantity = 3
  MaxPlans = 4
  Behaviours <- Resizing
INVARIANTS
  ReplacementIsNew
CHECK_DEADLOCK FALSE
