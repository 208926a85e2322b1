--------------------------- MODULE AuctionPaging ---------------------------
(***************************************************************************)
(* The names of the auction as NamePaging sees them.  NamePaging lets      *)
(* names appear, owe rent and be taken up again as it likes; here the      *)
(* handlers of the auction and the block time decide.  The client is one   *)
(* that never lists; PagedAuction has one that does.                       *)
(***************************************************************************)
EXTENDS Auction

CONSTANTS
    NoName, Limits, NoLimit, DEFAULT_LIMIT, MAX_LIMIT   \* those of NamePaging

ASSUME AuctionPagingAssumption ==
    /\ Names \subseteq Seq(0 .. 255)
    /\ NoName \notin Names
    /\ Limits \subseteq (Nat \ {0}) \union {NoLimit}
    /\ NoLimit \notin Nat
    /\ {DEFAULT_LIMIT, MAX_LIMIT} \subseteq Nat \ {0}

\* The names whose response aborts (current_deposit).
Owing == {name \in Stored : current_deposit_aborts(name_states[name], now)}

Listed == INSTANCE NamePaging
    WITH stored <- Stored, owing <- Owing, cursor <- NoName, page <- <<>>,
         seen <- {}, done <- TRUE, at_start <- {}

\* What NamePaging assumes of the auction is what its handlers do: names are added
\* one by one, and neither a call nor the end of a lease removes one (Store).
ImplementsPaging == Listed!SafeSpec

\* No call, whatever it stores, leaves a name that could be listed owing more rent
\* than its deposit, so that nobody can keep others from listing the names by a call
\* (current_deposit aborts, in query_all_name_states); only time can.
OnlyTimeOwes ==
    [][ Owing' \subseteq Owing \/ now' # now ]_vars

=============================================================================
