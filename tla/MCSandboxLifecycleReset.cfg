SPECIFICATION Spec
CHECK_DEADLOCK FALSE
CONSTANTS
  Lifecycles = {"Disposable"}
  IdleTtl = 2
  MaxLifetime = 3
  MayFail = FALSE
  MaxTime = 5
  MaxBoxes = 3
  None = None
PROPERTIES
  ResetIsReported
