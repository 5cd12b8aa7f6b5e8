SPECIFICATION FairSpec
CHECK_DEADLOCK FALSE
CONSTANTS
  a = a
  c = c
  old = old
  new = new
  first = first
  second = second
  closesOld = closesOld
  Starts = {a, c}
  Sockets = {old, new}
  SocketOf <- MCSocketOf
  Reconnects = {first, second}
  Closes = {closesOld}
  ClosedSocket <- MCClosedSocket
  None = None
INVARIANTS
  OneDrain
  FinalizeAlone
  NoRunOutlivesReconnect
PROPERTIES
  InterruptsItsOwn
  ImplementsSingleOwner
  EverybodyLeaves
  AdmissionReopens
