SPECIFICATION Spec
CONSTANTS
  n0 = n0
  n1 = n1
  n2 = n2
  a = a
  b = b
  c = c
  va = va
  vb = vb
  vc = vc
  None = None
  Garbage = Garbage
  Node <- Pair
  Key <- PairKeys
  Value <- PairBlobs
  Home <- PairHome
  Programs <- ChaosPrograms
  MaxBatch = 2
  InitCapacity = 1
  Lossy = TRUE
INVARIANTS
  TypeOK
  AnswersMatchCalls
  OnePlacePerCall
  AckMeansStored
  MutexOK
CHECK_DEADLOCK FALSE
