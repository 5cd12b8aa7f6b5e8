SPECIFICATION Spec
CHECK_DEADLOCK FALSE
CONSTANTS
  k = k
  call = call
  other = other
  d1 = d1
  d2 = d2
  d3 = d3
  Keys = {k}
  Calls = {call, other}
  Execs = {d1, d2, d3}
  KeyOf <- MCKeyOf
  CallOf <- MCCallOf
  Outcomes = {"succeeded", "failed", "large"}
  Oversized = {"large"}
  LeaseMs = 4
  RequestedBeat = None
  PollMs = 1
  MaxWaitMs = 2
  Deadlines = {9}
  WriteTimeoutMs = 1
  MaxLate = 1
  MaxTime = 4
  None = None
SYMMETRY Alike
INVARIANTS
  RunsAtMostOnce
  AnswersAgree
  LeaseOutlivesCall
