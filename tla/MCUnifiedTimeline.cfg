SPECIFICATION Spec
CONSTANTS
  Peers = {p1, p2}
  Nobody = Nobody
  Timeout = 1
  Roles = {"client"}
  Skews <- OneTickApart
  PruneAfter = 1
  MaxPresses = 1
  MaxTime = 2
INVARIANT UnifiedTimeline
CHECK_DEADLOCK FALSE
