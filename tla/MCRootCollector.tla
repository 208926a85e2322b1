--------------------------- MODULE MCRootCollector ---------------------------
\* Small instances of RootCollector for TLC.
EXTENDS RootCollector, TLC

CONSTANTS s1, s2

Symmetry == Permutations(Stakers)

=============================================================================
