SPECIFICATION FairSpec
CONSTANTS
  Node <- MCNode
  Server = 0
  Backlog = 4
  MayCrash <- MCNode
  None = None
INVARIANTS
  TypeOK
  OneConnection
  SocketsAgree
PROPERTIES
  AllConnect
  AllGoDown
CHECK_DEADLOCK FALSE
