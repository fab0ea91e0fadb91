--------------------------- MODULE MCDeltaBundle ----------------------------
EXTENDS DeltaBundle

=============================================================================
