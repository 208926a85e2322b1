------------------------- MODULE AuctionRefinement -------------------------
(***************************************************************************)
(* The auction implements NameRegistry when it is configured so that a bid *)
(* is contested for some time (counter_delay_secs) and buys some time      *)
(* (min_lease_secs).  instantiate checks neither: with a counter delay of  *)
(* zero a bid takes the name from its holder at once.                      *)
(***************************************************************************)
EXTENDS Auction

ASSUME RegistryAssumption ==
    /\ counter_delay_secs # 0
    /\ min_lease_secs # 0

\* Within the counter delay of its record, whether or not the lease lapsed.
Contested(name) ==
    /\ name \in Stored
    /\ seconds_spent_since_bid(name_states[name], now) < counter_delay_secs

holder == [name \in Names |->
    IF name \notin Stored THEN None
    ELSE IF Contested(name) THEN name_states[name].previous_owner
    ELSE name_states[name].owner]

holder_since == [name \in Names |->
    IF name \notin Stored THEN 0
    ELSE IF Contested(name) THEN name_states[name].previous_transition_reference_time
    ELSE name_states[name].transition_reference_time]

bidder == [name \in Names |->
    IF name \notin Stored THEN None ELSE name_states[name].owner]

bidder_since == [name \in Names |->
    IF name \notin Stored THEN 0 ELSE name_states[name].transition_reference_time]

live == {name \in Stored : ~Expired(name_states[name], now)}

\* The instance takes now and the refinement mapping's functions above.
Registry == INSTANCE NameRegistry

\* The auction implements the registry: no call takes a name from its holder,
\* only time does, in favour of the highest bidder; and a holder that wins its
\* own name back keeps its tenure (execute_bid_existing, "Only update
\* transition reference time if ownership is assigned to a new owner").
ImplementsRegistry == Registry!Spec
=============================================================================
