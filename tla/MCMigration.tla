---------------------------- MODULE MCMigration -----------------------------
EXTENDS MigrationGoals, TLC

\* The invocations are interchangeable.
ProcSymmetry == Permutations(Procs)
=============================================================================
