SPECIFICATION FairSpec
CONSTANTS
  c1 = c1
  c2 = c2
  Cycles = {c1, c2}
  Bridged = {c2}
  Limit = 2
  MaxDrafts = 2
  Demands = {1, 2}
  Flaws = {"none", "malformed", "time"}
  MaxStops = 1
INVARIANTS
  TypeOK
  AuditHolds
  EffectsOnce
  AcceptedIsBacked
  FinalizedProjects
PROPERTIES
  ContractSpec
  PaidCyclesFinish
