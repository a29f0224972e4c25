SPECIFICATION PartsSpec
CONSTANTS
  Absent = Absent
  NoLine = NoLine
  Lost = Lost
  Zero = Zero
  Conn <- MCConn
  BufSize = 4
  Traffic <- MCTraffic
  MapKey <- MCMapKey
  MapValue = {1, 2}
  Hash <- MCHash
  Capacity = 1
  File <- MCFile
  ReadSize = 3
  GuessLines = 2
  TextFile <- MCTextFile
  BufLen = 4
  h1 = h1
  h2 = h2
  k1 = k1
  None = None
  Missing = Missing
  Default = Default
  Undefined = Undefined
  ChunkSize = 2
  NumNodes = 2
  MaxRows = 5
  MaxCols = 2
  Handle <- TwoHandles
  Key <- OneKey
  RowCounts <- Lengths
INVARIANTS
  LinesInRange
CHECK_DEADLOCK FALSE
