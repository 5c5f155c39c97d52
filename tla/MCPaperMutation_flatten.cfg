SPECIFICATION Spec
CONSTANTS
  p1 = p1
  p2 = p2
  entry = entry
  oco = oco
  cancel = cancel
  close = close
  close2 = close2
  Proc = {p1}
  Mutation = {cancel, close, close2}
  Op <- MCOp
  Plans <- SafetyPlans
  SettleDelay = 3
  MaxEvidenceAge = 4
  ReceiptAge = 1
  RequestTTL = 1
  MaxAttempts = 2
  MaxFaults = 1
INVARIANTS
  AcknowledgedIsTrue
  OneOutstanding
