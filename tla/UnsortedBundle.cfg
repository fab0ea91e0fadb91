SPECIFICATION Spec
CONSTANTS
  Size = 4
  Batch = 2
  AnyOrder = TRUE
CHECK_DEADLOCK FALSE
INVARIANT NothingMisplaced
