SPECIFICATION Spec
CHECK_DEADLOCK FALSE
CONSTANTS
  Lifecycles = {"Disposable", "Persistent"}
  IdleTtl = 2
  MaxLifetime = 3
  MayFail = TRUE
  MaxTime = 5
  MaxBoxes = 3
  None = None
PROPERTIES
  EnsureTellsOfReset
