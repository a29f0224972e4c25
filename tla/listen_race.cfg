SPECIFICATION Spec
CONSTANTS
  Node <- MCNode
  Server = 0
  Backlog = 4
  MayCrash = {}
  None = None
INVARIANTS
  DirectoryConnects
CHECK_DEADLOCK FALSE
