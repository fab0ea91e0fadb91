SPECIFICATION Spec
CONSTANTS
  Size = 5
  Batch = 2
  AnyOrder = FALSE
CHECK_DEADLOCK FALSE
INVARIANTS
  TypeOK
  QueryExact
  AppliedExact
  NothingMisplaced
  MergeCanonical
