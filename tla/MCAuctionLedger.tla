-------------------------- MODULE MCAuctionLedger --------------------------
(* TLC instance of AuctionLedger. *)
EXTENDS AuctionLedger, TLC

CONSTANTS a1, a2, n1

Symmetry == Permutations(Addrs)

=============================================================================
