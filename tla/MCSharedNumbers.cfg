SPECIFICATION Spec
CONSTANTS
  Origins = {"peer", "server"}
  Starts <- Fresh
  Modulus = 16
  Window = 4
  Retention = 2
  MaxLag = 3
  Lifetime = 2
  MaxSent = 4
  MaxTime = 3
INVARIANT OnlyReplaysDropped
CHECK_DEADLOCK FALSE
