SPECIFICATION Spec
CONSTANTS
  Peers = {p1, p2}
  Nobody = Nobody
  Timeout = 1
  Roles = {"server", "client"}
  Skews <- Synchronised
  PruneAfter = 1
  MaxPresses = 2
  MaxTime = 2
SYMMETRY PeerSymmetry
CONSTRAINT FewInFlight
INVARIANTS
  TypeOK
  OwnerIsKnown
  ReleasedAtRest
PROPERTIES
  OnlyOwnerPressInjected
  GestureHolds
  OwnerTimeAdvances
CHECK_DEADLOCK FALSE
