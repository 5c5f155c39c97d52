SPECIFICATION Spec
CONSTANTS
  Quantity = 3
  MaxPlans = 3
  Behaviours <- Lagging
PROPERTIES
  MissingHistoryBlocks
