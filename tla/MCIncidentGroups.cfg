SPECIFICATION FairGSpec
CONSTANTS
  hb = hb
  viol = viol
  risk = risk
  stuck = stuck
  vm = vm
  btc = btc
  gl = gl
  ops = ops
  anomaly = anomaly
  infra = infra
  lab = lab
  oper = oper
  sweeper = sweeper
  Keys = {viol, risk}
  Symbol <- MCSymbol
  Global = gl
  Infra <- MCInfra
  Exempt <- MCExempt
  Sim <- MCSim
  Families <- MCFamilies
  Detectors = {ops}
  Owner <- MCOwner
  Labs = {lab}
  Operators = {oper}
  Sweeper = sweeper
  Levels = {5, 6}
  PoolSize = 2
  MaxCalls = 2
  MaxFailures = 1
  MaxCrashes = 1
INVARIANT GroupTracksChildren
PROPERTIES
  CallsReturn
  ExpiredAreResolved
CHECK_DEADLOCK FALSE
