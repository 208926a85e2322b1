--------------------------- MODULE MCUnstakeLedger ---------------------------
\* Small instances of UnstakeLedger for TLC.
EXTENDS UnstakeLedger, CollectorRefinement, TLC

CONSTANTS s1, s2

Symmetry == Permutations(Stakers)

=============================================================================
