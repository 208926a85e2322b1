----------------------------- MODULE MCAuction -----------------------------
(* TLC instance of Auction. *)
EXTENDS Auction, TLC

CONSTANTS a1, a2, n1

Symmetry == Permutations(Addrs)

=============================================================================
