---------------------------- MODULE PagedAuction ----------------------------
(***************************************************************************)
(* The auction with a client that lists its names, as NamePaging has it.   *)
(***************************************************************************)
EXTENDS AuctionPaging

VARIABLES
    cursor, page, seen, done, at_start   \* the client's, as in NamePaging

client_vars == <<cursor, page, seen, done, at_start>>

paged_vars == <<vars, client_vars>>

Paging == INSTANCE NamePaging WITH stored <- Stored, owing <- Owing

PagedInit == Init /\ Paging!Init

\* A query is answered from the state between two transactions and changes
\* nothing in it.
Query ==
    /\ UNCHANGED vars
    /\ Paging!StartListing \/ Paging!ReadPage

PagedNext ==
    \/ Next /\ UNCHANGED client_vars
    \/ Query

PagedSpec == PagedInit /\ [][PagedNext]_paged_vars

=============================================================================
