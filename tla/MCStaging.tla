----------------------------- MODULE MCStaging ------------------------------
EXTENDS Staging, TLC

\* Disks and scripts are interchangeable.
Symmetric == Permutations(Disks) \cup Permutations(Writers)
=============================================================================
