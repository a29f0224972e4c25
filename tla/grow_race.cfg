SPECIFICATION Spec
CONSTANTS
  None = None
  Garbage = Garbage
  Node <- MCNode
  Key <- MCKey
  Value <- MCKey
  Home <- AppHome
  Programs <- LinusOnly
  MaxBatch = 1
  InitCapacity = 10
  Lossy = FALSE
INVARIANTS
  NoReadDuringGrow
CHECK_DEADLOCK FALSE
