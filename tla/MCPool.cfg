SPECIFICATION PoolSpec
CHECK_DEADLOCK FALSE
CONSTANTS
  a = a
  b = b
  p = p
  q = q
  model = model
  Accounts = {a, b}
  Priority <- MCPriority
  Id <- MCId
  Requests = {p, q}
  Routes = {model}
  RouteOf <- MCRouteOf
  Polled = {a}
  Usages <- MCUsages
  MaxAge = 1
  Reserve = 5
  QuotaLengths = {2}
  AuthLength = 1
  MaxTime = 2
  None = None
SYMMETRY RequestSymmetry
PROPERTIES
  ClearsNeedNewerReading
  FailsOverCleanly
  QuotaIsReported
