SPECIFICATION Spec
CONSTANTS
  None = None
  Garbage = Garbage
  Node <- MCNode
  Key <- MCKey
  Value <- MCKey
  Home <- AppHome
  Programs <- DemoOnly
  MaxBatch = 1
  InitCapacity = 10
  Lossy = FALSE
INVARIANTS
  NoFailure
CHECK_DEADLOCK FALSE
