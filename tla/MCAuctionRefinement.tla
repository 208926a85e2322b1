------------------------ MODULE MCAuctionRefinement ------------------------
(* TLC instance of AuctionRefinement and AuctionPaging; no symmetry, since it checks liveness. *)
EXTENDS AuctionRefinement, AuctionPaging

CONSTANTS a1, a2, a3

\* One name, of one byte.
MCNames == {<<1>>}

=============================================================================
