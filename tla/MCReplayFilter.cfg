SPECIFICATION Spec
CONSTANTS
  Origins = {"peer"}
  Starts <- FreshOrWrapping
  Modulus = 16
  Window = 4
  Retention = 2
  MaxLag = 3
  Lifetime = 2
  MaxSent = 4
  MaxTime = 3
INVARIANTS
  TypeOK
  OnlyNewerDatagramsPass
  CachedAtMostOnce
  OnlyReplaysDropped
CHECK_DEADLOCK FALSE
