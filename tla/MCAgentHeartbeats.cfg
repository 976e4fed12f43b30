SPECIFICATION FairSpec
CONSTANTS
  MaxAgents = 2
  MaxFaults = 1
PROPERTY HeartbeatsRestart
CHECK_DEADLOCK FALSE
