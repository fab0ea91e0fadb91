SPECIFICATION Spec
CONSTANTS
  None = None
  VNets = {prod, lab}
  SourceVNet = prod
  RPs = {r1}
  MaxSeq = 1
  Procs = {p1, p2}
  Runbook = TRUE
  Crashes = FALSE
SYMMETRY ProcSymmetry
INVARIANT NoSplitBrain
