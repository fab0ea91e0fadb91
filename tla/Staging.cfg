SPECIFICATION Spec
CONSTANTS
  Disks = {d1, d2}
  Blocks = {1, 2}
  Procs = {p1}
  Writers = {w1, w2}
  MaxDevice = 1
  SameDisk = TRUE
  None = None
  Partial = Partial
INVARIANTS TypeOK SuccessExact StagingCleaned
PROPERTY ForeignMappingKept
SYMMETRY Symmetric
CHECK_DEADLOCK FALSE
