SPECIFICATION FairSpec
CONSTANTS
  MaxAgents = 2
  MaxFaults = 3
INVARIANTS
  TypeOK
  RowsPaidFor
  InUseIsOnDisk
  NeverStranded
  OneAttempt
PROPERTY EventuallyRegistered
CHECK_DEADLOCK FALSE
