SPECIFICATION Spec
CONSTANTS
  hb = hb
  viol = viol
  risk = risk
  stuck = stuck
  vm = vm
  btc = btc
  gl = gl
  ops = ops
  anomaly = anomaly
  infra = infra
  lab = lab
  oper = oper
  sweeper = sweeper
  Keys = {hb, viol, stuck}
  Symbol <- MCSymbol
  Global = gl
  Infra <- MCInfra
  Exempt <- MCExempt
  Sim <- MCSim
  Families <- MCFamilies
  Detectors = {ops, anomaly}
  Owner <- MCOwner
  Labs = {lab}
  Operators = {}
  Sweeper = sweeper
  Levels = {5, 6}
  PoolSize = 2
  MaxCalls = 2
  MaxFailures = 1
  MaxCrashes = 1
INVARIANTS
  TypeOK
  OneActiveRow
  ExemptAgrees
  NoPhantomEvents
PROPERTY LedgerSpec
CHECK_DEADLOCK FALSE
