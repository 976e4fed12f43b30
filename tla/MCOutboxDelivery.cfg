SPECIFICATION FairSpec
CONSTANTS
  MaxRows = 3
  MaxAttempts = 2
  BatchSize = 2
  MaxFaults = 2
  MaxRetries = 1
INVARIANTS
  SentWasReceived
  NoLimbo
  CopiesPaidFor
PROPERTIES
  DeliverySpec
  EventuallySettled
CHECK_DEADLOCK FALSE
