SPECIFICATION Spec
CONSTANTS
  None = None
  VNets = {prod, lab}
  SourceVNet = prod
  RPs = {1, 2, 3}
  MaxSeq = 2
  NBlocks = 2
  MaxVersion = 2
  Runbook = TRUE
  Orphans = TRUE
CONSTRAINTS
  FewWrites
  FewBundles
CHECK_DEADLOCK FALSE
INVARIANTS
  TypeOK
  VerifiedMeansHeld
  NothingLost
  NeverBehind
  AuthoritativeKept
