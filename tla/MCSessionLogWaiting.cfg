SPECIFICATION Spec
CHECK_DEADLOCK FALSE
CONSTANTS
  Inputs = {i1, i2}
  Answers = {}
  Questions = {q1}
  MaxReconnects = 1
  MaxRestarts = 0
  None = None
PROPERTIES
  WaitingSurvivesReconnect
