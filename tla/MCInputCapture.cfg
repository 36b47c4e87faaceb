SPECIFICATION FairSpec
CONSTANTS
  Keys = {k}
  Button = b
  Threshold = 1
  MaxActs = 4
  MaxPosted = 1
  MaxFaults = 1
INVARIANTS
  TypeOK
  DownWhereCaptured
  StuckOnOneSide
PROPERTIES
  Regained
CHECK_DEADLOCK FALSE
