SPECIFICATION Spec
CONSTANTS
  hb = hb
  viol = viol
  risk = risk
  stuck = stuck
  vm = vm
  btc = btc
  gl = gl
  ops = ops
  anomaly = anomaly
  infra = infra
  lab = lab
  oper = oper
  sweeper = sweeper
  Keys = {viol, stuck}
  Symbol <- MCSymbol
  Global = gl
  Infra <- MCInfra
  Exempt <- MCExempt
  Sim <- MCSim
  Families <- MCFamilies
  Detectors = {ops, anomaly}
  Owner <- MCOwner
  Labs = {}
  Operators = {}
  Sweeper = sweeper
  Levels = {5, 6}
  PoolSize = 2
  MaxCalls = 3
  MaxFailures = 0
  MaxCrashes = 0
INVARIANT OpenWhileChildActive
CHECK_DEADLOCK FALSE
