SPECIFICATION FairSpec
CONSTANTS
  MaxRows = 2
  MaxAttempts = 2
  BatchSize = 2
  MaxFaults = 0
  MaxRetries = 0
PROPERTY ChronologicalDrainage
CHECK_DEADLOCK FALSE
