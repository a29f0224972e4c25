SPECIFICATION Spec
CONSTANTS
  h1 = h1
  h2 = h2
  k1 = k1
  None = None
  Missing = Missing
  Default = Default
  Undefined = Undefined
  ChunkSize = 2
  NumNodes = 2
  MaxRows = 5
  MaxCols = 2
  Handle <- TwoHandles
  Key <- OneKey
  RowCounts <- Lengths
PROPERTIES
  FramesKept
CHECK_DEADLOCK FALSE
