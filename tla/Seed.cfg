SPECIFICATION FairSpec
CONSTANTS
  Letters = {1, 2}
  Exts = {"vhdx", "avhdx"}
  MaxDisks = 2
  MaxFiles = 3
  MaxStem = 2
  DistinctNames = TRUE
  Migrations = {m1, m2}
  Procs = {p1, p2}
  Vmids = {100, 101, 102}
  ForeignVmid = 100
INVARIANTS TypeOK SeededExact OneDestination OwnTarget
PROPERTY EventuallySeeded
CHECK_DEADLOCK FALSE
