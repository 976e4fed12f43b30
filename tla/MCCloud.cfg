SPECIFICATION FairSpec
CONSTANTS
  a1 = a1
  a2 = a2
  Agents = {a1, a2}
  Installations = {a1, a2}
  MaxFaults = 2
  Overrides = {"{}", "levels", "torn"}
  Malformed = {"torn"}
  Empty = "{}"
  NoRaw = ""
  Gaps = {1, 61, 121}
  MaxMoments = 3
  MaxAudits = 2
  Overloads = {{"CPU"}, {"MEMORY", "DISK"}}
  Plans <- MCPlans
INVARIANTS TypeOK RevisionMeansConfiguration NetworkBeforeExchange CascadeBlamed
PROPERTY StatusConverges
CHECK_DEADLOCK FALSE
