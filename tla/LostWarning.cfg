SPECIFICATION Spec
CONSTANTS
  None = None
  VNets = {prod, lab}
  SourceVNet = prod
  RPs = {r1}
  MaxSeq = 1
  Procs = {p1}
  Runbook = TRUE
  Crashes = TRUE
INVARIANT DivergenceRecorded
