CONSTANTS
  Callers = {"infra", "ops", "runtime", "anomaly"}
  AlertKeys <- KeysSent
  NoKey = "no_key"
  Watched <- MCWatched
  MaxErrors = 1
  Plans <- MCPlans
  Violations = {"DUPLICATE_FILL"}
  MaxFailures = 2
  RestartThreshold = 1
  MaxRestarts = 2
  Modes = {"STOP_BUY"}
  AlarmAfter = 2
  StructuralCritical = 3
  ConfidenceWarning = 1
  ConfidenceCritical = 2
SPECIFICATION FairSpec
INVARIANTS
  AlertsBounded
  NoVerdictDropped
  HaltIsEarned
CHECK_DEADLOCK FALSE
PROPERTIES
  AlarmIsEarned
  HaltHappens
  OutageAnnounced
  RecoveryClears
