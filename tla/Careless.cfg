SPECIFICATION Spec
CONSTANTS
  None = None
  VNets = {prod, lab}
  SourceVNet = prod
  RPs = {r1, r2}
  MaxSeq = 2
  Procs = {p1}
  Runbook = FALSE
  Crashes = TRUE
INVARIANTS
  AttendedTargetStopped
  RollbackStopped
  VerifiedMeansRegisteredInv
  CutoverGatedInv
  CompleteMeansDoneInv
