SPECIFICATION Spec
CHECK_DEADLOCK FALSE
CONSTANTS
  c1 = c1
  c2 = c2
  Calls = {c1, c2}
  Enveloped = {c1, c2}
  MaxTurns = 1
  MaxAttempts <- ConfiguredAttempts
  Concurrency = 2
PROPERTIES
  RunsInApprovedForm
