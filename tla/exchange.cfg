SPECIFICATION FairSpec
CONSTANTS
  n0 = n0
  n1 = n1
  n2 = n2
  a = a
  b = b
  c = c
  va = va
  vb = vb
  vc = vc
  None = None
  Garbage = Garbage
  Node <- Trio
  Key <- TrioKeys
  Value <- TrioBlobs
  Home <- TrioHome
  Programs <- ExchangePrograms
  MaxBatch = 1
  InitCapacity = 10
  Lossy = FALSE
PROPERTIES
  ImplementsPromise
  CallsReturn
CHECK_DEADLOCK FALSE
