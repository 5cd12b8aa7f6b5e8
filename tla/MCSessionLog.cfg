SPECIFICATION Spec
CHECK_DEADLOCK FALSE
CONSTANTS
  Inputs = {i1, i2}
  Answers = {a1, a2}
  Questions = {q1, q2}
  MaxReconnects = 2
  MaxRestarts = 1
  None = None
SYMMETRY SendSymmetry
INVARIANTS
  AnswersReachTheirBatch
PROPERTIES
  LogOnlyGrows
