--------------------------- MODULE MCDividendLedger ---------------------------
\* Small instances of DividendLedger for TLC.
EXTENDS DividendLedger, TLC

CONSTANTS s1, s2

Symmetry == Permutations(Stakers)

=============================================================================
