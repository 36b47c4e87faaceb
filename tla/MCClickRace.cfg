SPECIFICATION RaceSpec
CONSTANTS
  Peers = {p1, p2, p3, p4}
  Nobody = Nobody
  Timeout = 2
  Stamps <- MCStamps
INVARIANTS
  EarliestWins
  BlockedHasLost
PROPERTY ImplementsEarliestClaim
CHECK_DEADLOCK FALSE
