SPECIFICATION Spec
CONSTANTS
  None = None
  VNets = {prod, lab}
  SourceVNet = prod
  RPs = {1, 2}
  MaxSeq = 1
  NBlocks = 1
  MaxVersion = 1
  Runbook = TRUE
  Orphans = FALSE
CHECK_DEADLOCK FALSE
PROPERTY ExactCopy
