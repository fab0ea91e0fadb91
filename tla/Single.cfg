SPECIFICATION Spec
CONSTANTS
  None = None
  VNets = {prod, lab}
  SourceVNet = prod
  RPs = {r1, r2}
  MaxSeq = 2
  Procs = {p1}
  Runbook = TRUE
  Crashes = TRUE
INVARIANTS
  TypeOK
  NoSplitBrain
  RollbackIsolated
  RecordsInv
  SingleInv
  WarningKept
  PowerRecorded
PROPERTIES
  ProductionStartGated
  PhaseLegal
  PointAdvances
  ImplementsOwnership
  RollbackSucceeds
  CutoverCompletes
