SPECIFICATION Spec
CONSTANTS
  Disks = {d1, d2}
  Blocks = {1, 2}
  Procs = {p1}
  Writers = {w1, w2}
  MaxDevice = 1
  SameDisk = FALSE
  None = None
  Partial = Partial
INVARIANT SuccessExact
CHECK_DEADLOCK FALSE
