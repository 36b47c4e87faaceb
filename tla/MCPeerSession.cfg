SPECIFICATION Spec
CONSTANTS
  Clients = {c1, c2}
  Nonces <- MCNonces
  NoNonce = 0
  PruneAfter = 1
  ChallengeAfter = 1
  Cuttable = {c1}
INVARIANTS
  TypeOK
  OnlySilentPruned
PROPERTIES
  TrustIsKept
  StayingClientsTrusted
CHECK_DEADLOCK FALSE
