SPECIFICATION FairSafetySpec
CONSTANTS
  Quantity = 2
  MaxPlans = 1
  Behaviours <- FillDuringKill
PROPERTIES
  KillReplans
