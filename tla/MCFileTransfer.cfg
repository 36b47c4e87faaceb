SPECIFICATION Spec
CONSTANTS
  Server = s
  Clients = {c1, c2}
  Big = Big
  Small = Small
  Files = {Big, Small}
  Chunks <- MCChunks
  None = None
  MaxStarts = 2
  MaxCleanups = 1
INVARIANTS
  TypeOK
  OnlyCollisionsCorrupt
PROPERTY LoneTransferArrives
CONSTRAINT TwoEvents
CHECK_DEADLOCK FALSE
