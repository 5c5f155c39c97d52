SPECIFICATION FairSpec
CONSTANTS
  opportunity = opportunity
  signal = signal
  Sources = {opportunity, signal}
  Root <- Threads
  Market = {opportunity}
  MaxAttempts = 3
  MaxRedrives = 1
  MaxAge = 3
  Lease = 3
  RetryDelay = 1
  SendLimit = 4
  Transit = 1
INVARIANTS
  TypeOK
  ReportIsTrue
  RepliesFollowRoots
  OneAcknowledged
PROPERTIES
  EndedIsFinal
  PostedInTime
  EveryDeliveryEnds
