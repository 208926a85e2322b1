---------------------------- MODULE MCTerraNames ----------------------------
\* TLC instance of TerraNames.
EXTENDS TerraNames, TLC

CONSTANTS a1, a2, s1, n1, v1

Symmetry == Permutations(Addrs)

=============================================================================
