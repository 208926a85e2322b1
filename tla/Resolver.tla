------------------------------ MODULE Resolver ------------------------------
(***************************************************************************)
(* The terranames_resolver contract beside the auction it queries.  It     *)
(* keeps one value per name, set by the controller the auction knows, and  *)
(* answers what a name resolves to.  Its query of the auction runs in the  *)
(* same transaction and sees the auction's current state.                  *)
(***************************************************************************)
EXTENDS Auction

CONSTANTS
    Values,     \* values a name can resolve to; None is a deleted value
    NoValue     \* nothing was ever stored for the name

ASSUME ResolverAssumption == NoValue \notin Values \union {None}

VARIABLE name_values   \* the bucket of values

resolver_vars == <<vars, name_values>>

ResolverInit ==
    /\ Init
    /\ name_values = [name \in Names |-> NoValue]

\* Mutant: the lease may have ended.
controller_may_set(sender, name) ==
    create_name_state_response(name_states[name], now).controller = sender

\* The checks of execute_set_value on what the auction answers.
may_set_value(sender, name) ==
    LET name_state == create_name_state_response(name_states[name], now)
    IN  /\ name_state.controller = sender
        /\ name_state.expire_time # None => now < name_state.expire_time

SetNameValue(sender, name, value) ==
    /\ query_name_state_answers(name)
    /\ may_set_value(sender, name)
    /\ name_values' = [name_values EXCEPT ![name] = value]
    /\ UNCHANGED vars

\* query_resolve answers when the auction answers, a value was stored, be it a
\* deleted one, and the name has an owner.
query_resolve_answers(name) ==
    /\ query_name_state_answers(name)
    /\ name_values[name] # NoValue
    /\ create_name_state_response(name_states[name], now).name_owner # None

ResolverNext ==
    \/ Next /\ UNCHANGED name_values
    \/ \E sender \in Addrs, name \in Names, value \in Values \union {None} :
         SetNameValue(sender, name, value)

ResolverSpec == ResolverInit /\ [][ResolverNext]_resolver_vars

----------------------------------------------------------------------------
(* Properties.                                                             *)

\* A value is set only while somebody holds the name.  A bidder that has not
\* yet won, or a controller whose lease has ended, cannot set one, although
\* the resolver looks at neither the bids nor the status but at the
\* controller and the expire_time of the auction's answer.
ValueSetOnlyWhileHeld ==
    [][ \A name \in Names :
          name_values'[name] # name_values[name]
            => /\ name \in Stored
               /\ name_owner(name_states[name], now) # None ]_resolver_vars

\* A name with a holder and a value always resolves: the auction's query aborts
\* for some lapsed names (current_deposit), but for none that somebody holds,
\* whatever was bid, funded and raised before and however it was rounded.
HeldNamesResolve ==
    \A name \in Stored :
        name_owner(name_states[name], now) # None /\ name_values[name] # NoValue
          => query_resolve_answers(name)

=============================================================================
