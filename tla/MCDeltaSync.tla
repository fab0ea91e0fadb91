---------------------------- MODULE MCDeltaSync -----------------------------
EXTENDS DeltaSync, TLC, FiniteSetsExt

\* Bound on the writes of the source: one block is written twice, the other once.
FewWrites == MapThenSumSet(LAMBDA b : src[b], Blocks) <= 3

\* Bound on the exports: a baseline and two deltas, be it one after the other or
\* one that replaces the other.
FewBundles == Cardinality(bundles) <= 3
=============================================================================
