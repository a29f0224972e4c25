SPECIFICATION FairSpec
CONSTANTS
  None = None
  Garbage = Garbage
  Node <- MCNode
  Key <- MCKey
  Value <- MCKey
  Home <- AppHome
  Programs <- AllApps
  MaxBatch = 1
  InitCapacity = 64
  Lossy = FALSE
INVARIANTS
  NoFailure
PROPERTIES
  AppsComplete
  AllFinish
CHECK_DEADLOCK FALSE
