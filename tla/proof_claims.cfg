\* Two versions on two vaults, two rows of server jobs or one of a wallet, restarts.
SPECIFICATION Spec
CONSTANTS
  None = None
  c1 = c1
  c2 = c2
  v1 = v1
  v2 = v2
  Contents = {c1, c2}
  Vaults = {v1, v2}
  FieldClaims <- Bounds
  TransitionClaims <- OneChange
  MaxRows = 2
  MaxSeeds = 2
  MaxVersions = 1
  CallSlots = 2
  Wallets <- OneBound
  Indexed = TRUE
  Restarts = TRUE
SYMMETRY Symmetric
INVARIANTS
  GreenIsOnChain
  ListedClaimVerifies
  OpeningsReproduceAnchors
CHECK_DEADLOCK FALSE
