SPECIFICATION FairSpec
CONSTANTS
  Runs = {r1, r2}
  Fibers = {f1, f2, f3}
  NoFiber = NoFiber
  NoOp = NoOp
  MaxResumes = 1
INVARIANTS
  MemoryMatchesDurable
PROPERTIES
  ImplementsClaims
  LockIsFreed
