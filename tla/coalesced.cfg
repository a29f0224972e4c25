SPECIFICATION Spec
CONSTANTS
  None = None
  Garbage = Garbage
  Node <- MCNode
  Key <- MCKey
  Value <- MCKey
  Home <- AppHome
  Programs <- WordCountOnly
  MaxBatch = 2
  InitCapacity = 64
  Lossy = FALSE
INVARIANTS
  NothingLost
CHECK_DEADLOCK FALSE
