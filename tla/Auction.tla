------------------------------ MODULE Auction ------------------------------
(***************************************************************************)
(* The terranames_auction contract: names are leased at a rate chosen by   *)
(* the bidder and paid from a deposit.  A higher rate takes a name over    *)
(* after a counter delay; a lease ends when its deposit is used up.        *)
(*                                                                         *)
(* The chain runs one transaction at a time and a transaction that fails   *)
(* changes nothing, so a handler is one action whose guard is the          *)
(* conjunction of the conditions under which it does not fail.             *)
(***************************************************************************)
EXTENDS LeaseMath, TerraTax, Sequences

CONSTANTS
    Names,                  \* names that can be bid on
    Addrs,                  \* accounts
    None,                   \* Option::None
    NoState,                \* nothing stored for a name
    collector_addr,         \* where deposits are sent
    Rates,                  \* rates a message may ask for
    Deposits,               \* stablecoin amounts a message may carry
    min_lease_secs, max_lease_secs,
    counter_delay_secs, transition_delay_secs, bid_delay_secs,
    StartTime, MaxTime      \* bounds of the block time

\* instantiate only requires min_lease_secs <= max_lease_secs.  Block times are
\* seconds since 1970, so later than any delay.  The sums of times in the
\* source are checked u64 additions; the last conjunct keeps the block time
\* away from the end of that range.
ASSUME AuctionAssumption ==
    /\ None \notin Addrs
    /\ None \notin Nat
    /\ Rates \subseteq Nat
    /\ Deposits \subseteq Nat
    /\ {min_lease_secs, max_lease_secs, counter_delay_secs,
        transition_delay_secs, bid_delay_secs} \subseteq Nat
    /\ min_lease_secs <= max_lease_secs
    /\ StartTime \in Nat \ {0}
    /\ counter_delay_secs + transition_delay_secs <= StartTime
    /\ MaxTime \in Nat
    /\ StartTime <= MaxTime
    /\ MaxTime + max_lease_secs + counter_delay_secs + transition_delay_secs
         + bid_delay_secs < U64

VARIABLES
    now,           \* block time in seconds
    name_states,   \* the bucket of NameState records
    outbox         \* messages returned by the last transaction

vars == <<now, name_states, outbox>>

NameState ==
    [ owner : Addrs,
      controller : Addrs \union {None},
      transition_reference_time : Nat,
      rate : Nat,
      begin_time : Nat,
      begin_deposit : Nat,
      previous_owner : Addrs \union {None},
      previous_transition_reference_time : Nat ]

ASSUME NoStateAssumption == NoState \notin NameState

Message == [to : Addrs \union {collector_addr}, amount : Nat]

----------------------------------------------------------------------------
(* What a stored state means at time t (impl NameState).                   *)

seconds_spent_since_bid(st, t) == t - st.begin_time

max_seconds(st) == seconds_from_deposit(st.begin_deposit, st.rate)

expire_time(st) == st.begin_time + max_seconds(st)

\* Mutant: a lease lapses with its last second.
used_up_a_second_early(st, t) ==
    /\ st.rate # 0
    /\ seconds_spent_since_bid(st, t) + 1 >= max_seconds(st)

DepositUsedUp(st, t) ==
    /\ st.rate # 0
    /\ seconds_spent_since_bid(st, t) >= max_seconds(st)

\* OwnerStatus::Expired.  The first and the last disjunct answer a clock that
\* runs behind the stored times.
Expired(st, t) ==
    \/ t < st.begin_time
    \/ DepositUsedUp(st, t)
    \/ t < st.transition_reference_time

\* OwnerStatus::CounterDelay
CounterDelay(st, t) ==
    ~Expired(st, t) /\ seconds_spent_since_bid(st, t) < counter_delay_secs

\* OwnerStatus::TransitionDelay and OwnerStatus::Valid
Settled(st, t) ==
    ~Expired(st, t) /\ seconds_spent_since_bid(st, t) >= counter_delay_secs

TransitionDelay(st, t) ==
    /\ Settled(st, t)
    /\ t - st.transition_reference_time < counter_delay_secs + transition_delay_secs

\* Mutant: the highest bidder holds the name during the counter delay.
name_owner_is_bidder(st, t) == IF Expired(st, t) THEN None ELSE st.owner

\* The account that holds the name, and the time its tenure counts from.
name_owner(st, t) ==
    IF CounterDelay(st, t) THEN st.previous_owner
    ELSE IF Settled(st, t) THEN st.owner ELSE None

reference_time(st, t) ==
    IF CounterDelay(st, t) THEN st.previous_transition_reference_time
    ELSE st.transition_reference_time

bid_owner(st, t) == IF Expired(st, t) THEN None ELSE st.owner

\* Mutant: a lapsed name is free only after another counter delay.
lapse_time_delayed(st, t) ==
    IF t >= st.begin_time /\ DepositUsedUp(st, t)
    THEN expire_time(st) + counter_delay_secs ELSE 0

\* The expire_time of OwnerStatus::Expired.
lapse_time(st, t) ==
    IF t >= st.begin_time /\ DepositUsedUp(st, t) THEN expire_time(st) ELSE 0

\* Mutant: the second of the call itself is charged.
current_second_charged(st, t) ==
    deposit_from_seconds_ceil(seconds_spent_since_bid(st, t) + 1, st.rate)

deposit_spent(st, t) ==
    deposit_from_seconds_ceil(seconds_spent_since_bid(st, t), st.rate)

\* What the bidder gets back, or carries over to another rate.
deposit_left(st, t) == saturating_sub(st.begin_deposit, deposit_spent(st, t))

\* Mutant: the allowance is counted from the end of the counter delay.
max_allowed_after_counter_delay(st, t) ==
    deposit_from_seconds_floor(
        max_lease_secs + counter_delay_secs + seconds_spent_since_bid(st, t), st.rate)

max_allowed_deposit(st, t) ==
    IF t < st.begin_time THEN 0
    ELSE deposit_from_seconds_floor(max_lease_secs + seconds_spent_since_bid(st, t), st.rate)

ClosedForBids(st, t) ==
    /\ st.rate # 0
    /\ seconds_spent_since_bid(st, t) >= counter_delay_secs
    /\ seconds_spent_since_bid(st, t) < counter_delay_secs + bid_delay_secs

\* Mutant: a higher rate is enough to outbid.
outbids_by_rate(st, rate, deposit) == rate > st.rate

Outbids(st, rate, deposit) ==
    /\ rate > st.rate
    /\ deposit > deposit_left(st, now)

LeaseAllowed(deposit, rate) ==
    /\ deposit_from_seconds_ceil(min_lease_secs, rate) <= deposit
    /\ deposit <= deposit_from_seconds_floor(max_lease_secs, rate)

\* Mutant: the highest bidder may change the rate of its bid.
bidder_can_set_rate(sender, st, t) == ~Expired(st, t) /\ sender = st.owner

can_set_rate(sender, st, t) == Settled(st, t) /\ sender = st.owner

can_transfer_name_owner(sender, st, t) == sender = name_owner(st, t)

can_transfer_bid_owner(sender, st, t) == CounterDelay(st, t) /\ sender = st.owner

\* Mutant: the highest bidder may name the controller.
bidder_can_set_controller(sender, st, t) == sender \in {name_owner(st, t), bid_owner(st, t)}

can_set_controller(sender, st, t) == sender = name_owner(st, t)

----------------------------------------------------------------------------
(* The handlers.                                                           *)

Stored == {name \in Names : name_states[name] # NoState}

Send(to, amount) == <<[to |-> to, amount |-> deduct_tax(amount)]>>

\* Mutant: the bidder before is not paid back.
nothing_refunded(to, amount) == <<>>

refund_deposit_msg(to, amount) == IF amount = 0 THEN <<>> ELSE Send(to, amount)

\* Mutant: storing the record of a lapsed lease removes it.
lapsed_removed(name, st) ==
    name_states' = [name_states EXCEPT ![name] = IF Expired(st, now) THEN NoState ELSE st]

Store(name, st) == name_states' = [name_states EXCEPT ![name] = st]

Init ==
    /\ now = StartTime
    /\ name_states = [name \in Names |-> NoState]
    /\ outbox = <<>>

\* A bid on a name that is held or contested.
execute_bid_existing(sender, name, rate, deposit) ==
    LET st    == name_states[name]
        owner == name_owner(st, now)
        since == reference_time(st, now)
        left  == deposit_left(st, now)
    IN  /\ name \in Stored
        /\ ~Expired(st, now)
        /\ sender # st.owner
        /\ ~ClosedForBids(st, now)
        /\ Outbids(st, rate, deposit)
        /\ LeaseAllowed(deposit, rate)
        /\ Store(name,
             [st EXCEPT !.previous_owner = owner,
                        !.previous_transition_reference_time = since,
                        !.owner = sender,
                        !.rate = rate,
                        !.begin_time = now,
                        !.begin_deposit = deposit,
                        !.transition_reference_time =
                            IF sender = owner THEN since ELSE now])
        /\ outbox' = refund_deposit_msg(st.owner, left)
                       \o Send(collector_addr, deposit - left)

\* A bid on a name nobody holds: never bid on, or its lease has lapsed.
execute_bid_new(sender, name, rate, deposit) ==
    LET st == name_states[name]
    IN  /\ name \in Stored => Expired(st, now)
        /\ LeaseAllowed(deposit, rate)
        /\ Store(name,
             [ owner |-> sender,
               controller |-> None,
               transition_reference_time |->
                   IF name \in Stored THEN lapse_time(st, now) ELSE 0,
               rate |-> rate,
               begin_time |-> now,
               begin_deposit |-> deposit,
               previous_owner |-> None,
               previous_transition_reference_time |-> 0 ])
        /\ outbox' = IF deposit = 0 THEN <<>> ELSE Send(collector_addr, deposit)

BidName(sender, name, rate, deposit) ==
    /\ \/ execute_bid_existing(sender, name, rate, deposit)
       \/ execute_bid_new(sender, name, rate, deposit)
    /\ UNCHANGED now

\* Mutant: funding opens the counter delay again.
funded_from_now(st, deposit) ==
    [st EXCEPT !.begin_deposit = deposit + st.begin_deposit, !.begin_time = now]

\* Mutant: the new money replaces what was paid before.
funded_instead(st, deposit) == [st EXCEPT !.begin_deposit = deposit]

funded(st, deposit) == [st EXCEPT !.begin_deposit = deposit + st.begin_deposit]

\* Anybody may fund; owner is who the funder takes the name to be with.  The
\* status of the lease is not looked at.
FundName(name, owner, deposit) ==
    LET st == name_states[name]
    IN  /\ name \in Stored
        /\ deposit # 0
        /\ st.owner = owner
        /\ deposit + st.begin_deposit <= max_allowed_deposit(st, now)
        /\ Store(name, funded(st, deposit))
        /\ outbox' = Send(collector_addr, deposit)
        /\ UNCHANGED now

SetNameRate(sender, name, rate) ==
    LET st   == name_states[name]
        left == deposit_left(st, now)
    IN  /\ name \in Stored
        /\ can_set_rate(sender, st, now)
        /\ LeaseAllowed(left, rate)
        /\ Store(name,
             [st EXCEPT !.rate = rate,
                        !.begin_time = now,
                        !.begin_deposit = left,
                        !.previous_owner = st.owner,
                        !.previous_transition_reference_time =
                            st.transition_reference_time])
        /\ outbox' = <<>>
        /\ UNCHANGED now

\* The holder gives the name away, or the highest bidder its bid; during the
\* counter delay the holder is previous_owner.
TransferNameOwner(sender, name, to) ==
    LET st == name_states[name]
    IN  /\ name \in Stored
        /\ \/ /\ can_transfer_name_owner(sender, st, now)
              /\ Store(name, IF CounterDelay(st, now)
                             THEN [st EXCEPT !.previous_owner = to]
                             ELSE [st EXCEPT !.owner = to])
           \/ /\ ~can_transfer_name_owner(sender, st, now)
              /\ can_transfer_bid_owner(sender, st, now)
              /\ Store(name, [st EXCEPT !.owner = to])
        /\ outbox' = <<>>
        /\ UNCHANGED now

SetNameController(sender, name, controller) ==
    LET st == name_states[name]
    IN  /\ name \in Stored
        /\ can_set_controller(sender, st, now)
        /\ Store(name, [st EXCEPT !.controller = controller])
        /\ outbox' = <<>>
        /\ UNCHANGED now

\* A later block.  Block times rise, by any number of seconds.
Tick ==
    /\ now' \in (now + 1) .. MaxTime
    /\ outbox' = <<>>
    /\ UNCHANGED name_states

Transaction(sender, name) ==
    \/ \E rate \in Rates, deposit \in Deposits : BidName(sender, name, rate, deposit)
    \/ \E owner \in Addrs, deposit \in Deposits : FundName(name, owner, deposit)
    \/ \E rate \in Rates : SetNameRate(sender, name, rate)
    \/ \E to \in Addrs : TransferNameOwner(sender, name, to)
    \/ \E controller \in Addrs : SetNameController(sender, name, controller)

Next ==
    \/ Tick
    \/ \E sender \in Addrs, name \in Names : Transaction(sender, name)

Spec == Init /\ [][Next]_vars

\* The chain goes on making blocks, whatever the accounts do.  No account has
\* to do anything.
FairSpec == Spec /\ WF_vars(Tick)

----------------------------------------------------------------------------
(* Queries.                                                                *)

counter_delay_end(st) == st.begin_time + counter_delay_secs

transition_delay_end(st) ==
    IF st.transition_reference_time = 0 THEN st.begin_time
    ELSE st.transition_reference_time + counter_delay_secs + transition_delay_secs

\* Mutant: no special case for a name that is held for free.
bid_end_always_delayed(st) == st.begin_time + counter_delay_secs + bid_delay_secs

bid_delay_end(st) ==
    st.begin_time + (IF st.rate = 0 THEN 0 ELSE counter_delay_secs + bid_delay_secs)

\* current_deposit subtracts without saturating, and the build checks for
\* overflow: the query of a record that owes more than its deposit aborts.
current_deposit_aborts(st, t) ==
    t >= st.begin_time /\ deposit_spent(st, t) > st.begin_deposit

\* GetNameState fails for a name nothing is stored for, or aborts.
query_name_state_answers(name) ==
    name \in Stored /\ ~current_deposit_aborts(name_states[name], now)

create_name_state_response(st, t) ==
    [ name_owner |-> name_owner(st, t),
      bid_owner |-> bid_owner(st, t),
      controller |-> st.controller,
      rate |-> st.rate,
      begin_time |-> st.begin_time,
      begin_deposit |-> st.begin_deposit,
      current_deposit |-> st.begin_deposit - deposit_spent(st, t),
      counter_delay_end |-> counter_delay_end(st),
      transition_delay_end |-> transition_delay_end(st),
      bid_delay_end |-> bid_delay_end(st),
      expire_time |-> IF st.rate = 0 THEN None ELSE expire_time(st) ]

----------------------------------------------------------------------------
(* Properties.                                                             *)

\* The stored records, the clock and the messages have their types; an amount
\* sent is never negative (contract.rs checked_sub of the excess deposit).
TypeOK ==
    /\ now \in StartTime .. MaxTime
    /\ name_states \in [Names -> NameState \union {NoState}]
    /\ outbox \in Seq(Message)

\* The times of a record are in order and not ahead of the block time.  So the
\* branches of owner_status that answer Expired with time zero because a time
\* lies ahead are never taken: no lease is revoked that way.
TimesOrdered ==
    \A name \in Stored :
        LET st == name_states[name]
        IN  /\ st.previous_transition_reference_time <= st.transition_reference_time
            /\ st.transition_reference_time <= st.begin_time
            /\ st.begin_time <= now

\* A bid bought at least the minimum lease, no lease reaches further than
\* max_lease_secs ahead of the block time however it was funded, raised or
\* lowered, and a name held for free carries no deposit.  So the lease length
\* always fits the u64 it is truncated to.
LeaseWithinBounds ==
    \A name \in Stored :
        LET st == name_states[name]
        IN  IF st.rate = 0 THEN st.begin_deposit = 0
            ELSE /\ max_seconds(st) >= min_lease_secs
                 /\ expire_time(st) <= now + max_lease_secs

\* The three roundings agree: as long as a lease has not lapsed, the rent
\* charged for it, rounded up, fits the deposit.  The saturating subtractions
\* in execute_bid_existing and execute_set_rate never hide a debt and
\* current_deposit can be computed.
SpentWithinDeposit ==
    \A name \in Stored :
        LET st == name_states[name]
        IN  ~Expired(st, now) => deposit_spent(st, now) <= st.begin_deposit

\* Until the first counter delay of a name is over nobody holds it, and
\* nobody has named its controller: the controller of an earlier lease does
\* not survive the lapse of that lease.
FreshNameHasNoController ==
    \A name \in Stored :
        LET st == name_states[name]
        IN  CounterDelay(st, now) /\ st.previous_owner = None
              => st.controller = None

\* A holder loses a name only by giving it away, when the counter delay ends
\* with another account's bid standing, or when the lease lapses: no bid, no
\* funding and no call of another account takes it in one step.
OwnerKeepsName ==
    [][ \A name \in Stored :
          LET st     == name_states[name]
              holder == name_owner(st, now)
          IN  holder # None /\ name_owner(name_states[name], now)' # holder
                => \/ \E to \in Addrs : TransferNameOwner(holder, name, to)
                   \/ DepositUsedUp(st, now')
                   \/ /\ CounterDelay(st, now)
                      /\ now' >= st.begin_time + counter_delay_secs ]_vars

\* While a bid can still be countered its rate never falls and its money
\* cannot be taken out: a bidder cannot scare others off with a rate that it
\* does not mean to pay when it wins.
ContestedRateNeverFalls ==
    [][ \A name \in Stored :
          LET st == name_states[name]
          IN  CounterDelay(st, now) =>
                LET new == name_states'[name]
                IN  /\ new.rate >= st.rate
                    /\ new.rate = st.rate => /\ new.begin_time = st.begin_time
                                             /\ new.begin_deposit >= st.begin_deposit ]_vars

\* account has the highest bid, it is contested, and its counter delay can end
\* within the bound of the block time.
BidStands(name, account) ==
    /\ name \in Stored
    /\ CounterDelay(name_states[name], now)
    /\ name_states[name].owner = account
    /\ name_states[name].begin_time + counter_delay_secs <= MaxTime

BidDecided(name, account) ==
    /\ name \in Stored
    /\ \/ name_states[name].owner # account
       \/ name_owner(name_states[name], now) = account
       \/ Expired(name_states[name], now)

\* A bid is decided by the passing of time alone: its account holds the name in
\* the end, unless it was outbid, gave the bid away or let the lease lapse.  No
\* call of another account, a funding or a transfer by the holder, puts the
\* decision off.
StandingBidIsDecided ==
    \A name \in Names, account \in Addrs :
        BidStands(name, account) ~> BidDecided(name, account)

\* FundName is documented to fail when owner is not the current owner
\* (packages/terranames/src/auction.rs, ExecuteMsg::FundName).
FundNeedsCurrentOwner ==
    [][ \A name \in Stored, owner \in Addrs, deposit \in Deposits :
          FundName(name, owner, deposit)
            => bid_owner(name_states[name], now) = owner ]_vars

\* The end times a query reports are the times at which the handlers change
\* their mind: a client that waits for them is not turned away.
ReportedTimesAgree ==
    \A name \in Stored :
        LET st       == name_states[name]
            response == create_name_state_response(st, now)
        IN  /\ Expired(st, now)
                 <=> st.rate # 0 /\ now >= response.expire_time
            /\ ~Expired(st, now) =>
                 /\ CounterDelay(st, now) <=> now < response.counter_delay_end
                 /\ TransitionDelay(st, now)
                      <=> /\ now >= response.counter_delay_end
                          /\ now < response.transition_delay_end
                 /\ ClosedForBids(st, now)
                      <=> /\ now >= response.counter_delay_end
                          /\ now < response.bid_delay_end

\* GetNameState answers for every stored name; for a lapsed one it is meant to
\* answer without an owner (create_name_state_response, OwnerStatus::Expired).
QueryAnswers == \A name \in Stored : query_name_state_answers(name)

\* TransferNameOwner by the holder transfers ownership to "to": nothing of the
\* name is left that brings it back to the sender.
TransferGivesNameAway ==
    [][ \A name \in Stored, sender \in Addrs : \A to \in Addrs \ {sender} :
          /\ sender = name_owner(name_states[name], now)
          /\ TransferNameOwner(sender, name, to)
          => name_states'[name].owner # sender ]_vars

=============================================================================
