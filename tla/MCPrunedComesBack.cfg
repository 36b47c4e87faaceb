SPECIFICATION Spec
CONSTANTS
  Clients = {c1}
  Nonces <- MCNonces
  NoNonce = 0
  PruneAfter = 1
  ChallengeAfter = 1
  Cuttable = {c1}
PROPERTY PrunedComesBack
CHECK_DEADLOCK FALSE
