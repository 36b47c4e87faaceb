SPECIFICATION Spec
CONSTANTS
  Server = s
  Clients = {b}
  Edge = 1
  PointerEdge = 2
  Unknown = Unknown
  KeyInterval = 3
  MaxMoves = 4
  MaxFaults = 2
INVARIANTS
  TypeOK
  OnlyFaultsDrift
  MasterAligns
PROPERTIES
  MoverIsSeen
CHECK_DEADLOCK FALSE
