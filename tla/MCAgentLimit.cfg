SPECIFICATION Spec
CONSTANTS
  MaxAgents = 1
  MaxFaults = 1
INVARIANT LimitEnforced
CHECK_DEADLOCK FALSE
