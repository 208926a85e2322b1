-------------------------- MODULE TerraNamesProofs --------------------------
(***************************************************************************)
(* The contracts together, for every number of names and accounts, all     *)
(* rates, amounts and delays.                                              *)
(*                                                                         *)
(* First what an account that has a name, or bids for one, can rely on:    *)
(* the auction implements NameRegistry, nobody controls a name before its  *)
(* first holder does, the terms of a contested bid only improve, a holder  *)
(* keeps its name, the times that a query reports are the right ones, and  *)
(* no more is charged than the exact rent and its roundings.               *)
(* Then the system: the resolver beside the auction with the delivery of   *)
(* messages added, so that all that is proved of the auction alone holds   *)
(* in it; the resolver can rely on the auction, and the auction passes on  *)
(* what it is paid.                                                        *)
(* Last the client that lists the names: the auction is what NamePaging    *)
(* takes it to be.                                                         *)
(***************************************************************************)
EXTENDS TerraNames, AuctionRefinement, AuctionLedger, PagedAuction, AuctionProofs

----------------------------------------------------------------------------
(* The auction implements NameRegistry, where all delays are not zero.     *)

\* The entries of the refinement mapping for a stored record.
InContest(st, t) == seconds_spent_since_bid(st, t) < counter_delay_secs

HolderOf(st, t) == IF InContest(st, t) THEN st.previous_owner ELSE st.owner

SinceOf(st, t) ==
    IF InContest(st, t) THEN st.previous_transition_reference_time
    ELSE st.transition_reference_time

LEMMA StoredEntries ==
    ASSUME NEW name \in Stored
    PROVE  /\ name \in Names
           /\ holder[name] = HolderOf(name_states[name], now)
           /\ holder_since[name] = SinceOf(name_states[name], now)
           /\ bidder[name] = name_states[name].owner
           /\ bidder_since[name] = name_states[name].transition_reference_time
           /\ name \in live <=> ~Expired(name_states[name], now)
    BY DEF Stored, holder, holder_since, bidder, bidder_since, live, Contested,
           InContest, HolderOf, SinceOf

LEMMA AbsentEntries ==
    ASSUME NEW name \in Names, name \notin Stored
    PROVE  /\ holder[name] = None /\ holder_since[name] = 0
           /\ bidder[name] = None /\ bidder_since[name] = 0
           /\ name \notin live
    BY DEF holder, holder_since, bidder, bidder_since, live, Contested

\* Storing a record moves the entries of its name to those of the record.
LEMMA StoreMaps ==
    ASSUME AuctionInv, NEW name \in Names, NEW new \in NameState,
           Store(name, new), UNCHANGED now
    PROVE  /\ holder' = [holder EXCEPT ![name] = HolderOf(new, now)]
           /\ holder_since' = [holder_since EXCEPT ![name] = SinceOf(new, now)]
           /\ bidder' = [bidder EXCEPT ![name] = new.owner]
           /\ bidder_since' = [bidder_since EXCEPT ![name] = new.transition_reference_time]
           /\ ~Expired(new, now) => live' = live \union {name}
           /\ Expired(new, now) => live' = live \ {name}
<1>1. /\ name_states' \in [Names -> NameState \union {NoState}]
      /\ name_states'[name] = new /\ name \in Stored'
      /\ \A other \in Names \ {name} :
           /\ name_states'[other] = name_states[other]
           /\ other \in Stored' <=> other \in Stored
    BY NoStateAssumption DEF AuctionInv, TypeOK, Store, Stored
<1>2. holder' = [holder EXCEPT ![name] = HolderOf(new, now)]
    BY <1>1 DEF holder, Contested, HolderOf, InContest, seconds_spent_since_bid
<1>3. holder_since' = [holder_since EXCEPT ![name] = SinceOf(new, now)]
    BY <1>1 DEF holder_since, Contested, SinceOf, InContest, seconds_spent_since_bid
<1>4. bidder' = [bidder EXCEPT ![name] = new.owner]
    BY <1>1 DEF bidder
<1>5. bidder_since' = [bidder_since EXCEPT ![name] = new.transition_reference_time]
    BY <1>1 DEF bidder_since
<1>6. /\ ~Expired(new, now) => live' = live \union {name}
      /\ Expired(new, now) => live' = live \ {name}
    <2>1. \A other \in Names : Expired(name_states[other], now)'
                                 <=> Expired(name_states'[other], now)
        BY DEF Expired, DepositUsedUp, seconds_spent_since_bid
    <2>2. \A other \in Names :
            other \in live' <=> other \in Stored' /\ ~Expired(name_states'[other], now)
        BY <2>1 DEF live, Stored
    <2>3. live \subseteq Names /\ live' \subseteq Names
        BY DEF live, Stored
    <2>4. \A other \in Names \ {name} : other \in live' <=> other \in live
        BY <1>1, <2>2 DEF live
    <2>5. name \in live' <=> ~Expired(new, now)
        BY <1>1, <2>2
    <2> QED BY <2>3, <2>4, <2>5
<1> QED BY <1>2, <1>3, <1>4, <1>5, <1>6

\* Replacing the entry of a name by itself changes nothing.
LEMMA SameEntry ==
    ASSUME NEW name \in Names
    PROVE  /\ holder = [holder EXCEPT ![name] = holder[name]]
           /\ holder_since = [holder_since EXCEPT ![name] = holder_since[name]]
           /\ bidder = [bidder EXCEPT ![name] = bidder[name]]
           /\ bidder_since = [bidder_since EXCEPT ![name] = bidder_since[name]]
    BY DEF holder, holder_since, bidder, bidder_since

\* A lease begun now is contested, and it lasts.
LEMMA BegunIsLive ==
    ASSUME NEW st, NEW t \in Nat, t <= MaxTime, WellFormed(st, t), st.begin_time = t
    PROVE  /\ InContest(st, t)
           /\ ~Expired(st, t)
<1>1. t - st.begin_time = 0 /\ st.rate \in Nat
    BY DEF WellFormed, NameState
<1>2. InContest(st, t)
    BY <1>1, RegistryAssumption, ConfigTypes DEF InContest, seconds_spent_since_bid
<1>3. ~DepositUsedUp(st, t)
    <2> SUFFICES ASSUME st.rate # 0 PROVE ~(0 >= max_seconds(st))
        BY <1>1 DEF DepositUsedUp, seconds_spent_since_bid
    <2> QED BY LeaseLength, RegistryAssumption, ConfigTypes
<1> QED BY <1>2, <1>3, ExpiredOnlyByDeposit DEF WellFormed

----------------------------------------------------------------------------
(* Every step of the auction is a step of the registry or changes nothing  *)
(* in it: one lemma per handler.                                           *)

Same == UNCHANGED <<now, holder, holder_since, bidder, bidder_since, live>>

\* A name with a live lease, as the handlers read it.
LEMMA LiveEntries ==
    ASSUME AuctionInv, NEW name \in Stored, ~Expired(name_states[name], now)
    PROVE  LET st == name_states[name]
           IN  /\ name \in live
               /\ holder[name] = name_owner(st, now)
               /\ holder_since[name] = reference_time(st, now)
               /\ bidder[name] = st.owner
               /\ CounterDelay(st, now) <=> InContest(st, now)
               /\ Settled(st, now) <=> ~InContest(st, now)
<1> DEFINE st == name_states[name]
<1>1. seconds_spent_since_bid(st, now) \in Int /\ counter_delay_secs \in Nat
    BY StoredRecord, ConfigTypes DEF NameState, seconds_spent_since_bid
<1> QED
    BY <1>1, StoredEntries
    DEF HolderOf, SinceOf, InContest, name_owner, reference_time, CounterDelay, Settled

LEMMA BidExistingRefines ==
    ASSUME AuctionInv, NEW sender \in Addrs, NEW name \in Names,
           NEW rate \in Rates, NEW deposit \in Deposits, UNCHANGED now,
           execute_bid_existing(sender, name, rate, deposit)
    PROVE  Registry!Outbid(name, sender)
<1> DEFINE st == name_states[name]
           owner == name_owner(st, now)
           since == reference_time(st, now)
<1>1. name \in Stored /\ ~Expired(st, now) /\ sender # st.owner
    BY BidExistingRecord
<1>2. PICK new \in NameState :
        /\ Store(name, new)
        /\ WellFormed(new, now)
        /\ new.begin_time = now
        /\ new.owner = sender
        /\ new.previous_owner = owner
        /\ new.previous_transition_reference_time = since
        /\ new.transition_reference_time = IF sender = owner THEN since ELSE now
    BY BidExistingRecord
<1>3. /\ holder[name] = owner /\ holder_since[name] = since /\ bidder[name] = st.owner
      /\ name \in live
    BY <1>1, LiveEntries
<1>4. InContest(new, now) /\ ~Expired(new, now)
    BY <1>1, <1>2, StoredRecord, BegunIsLive
<1> HIDE DEF st, owner, since
<1>5. /\ holder' = [holder EXCEPT ![name] = owner]
      /\ holder_since' = [holder_since EXCEPT ![name] = since]
      /\ bidder' = [bidder EXCEPT ![name] = sender]
      /\ bidder_since' = [bidder_since EXCEPT
                            ![name] = IF sender = owner THEN since ELSE now]
      /\ live' = live \union {name}
    BY <1>2, <1>4, StoreMaps DEF HolderOf, SinceOf
<1>6. UNCHANGED <<holder, holder_since, live>>
    BY <1>3, <1>5, SameEntry
<1> QED BY <1>1, <1>3, <1>5, <1>6 DEF Registry!Outbid

LEMMA BidNewRefines ==
    ASSUME AuctionInv, NEW sender \in Addrs, NEW name \in Names,
           NEW rate \in Rates, NEW deposit \in Deposits, UNCHANGED now,
           execute_bid_new(sender, name, rate, deposit)
    PROVE  \E since \in 0 .. now : Registry!Claim(name, sender, since)
<1>1. PICK new \in NameState :
        /\ Store(name, new)
        /\ WellFormed(new, now)
        /\ new.begin_time = now
        /\ new.owner = sender
        /\ new.previous_owner = None
        /\ new.previous_transition_reference_time = 0
        /\ new.transition_reference_time <= now
    BY BidNewRecord
<1>2. name \notin live
    BY BidNewRecord DEF live
<1>3. now \in Nat /\ now <= MaxTime
    BY ConfigTypes DEF AuctionInv, TypeOK
<1>4. InContest(new, now) /\ ~Expired(new, now)
    BY <1>1, <1>3, BegunIsLive
<1>5. /\ holder' = [holder EXCEPT ![name] = None]
      /\ holder_since' = [holder_since EXCEPT ![name] = 0]
      /\ bidder' = [bidder EXCEPT ![name] = sender]
      /\ bidder_since' = [bidder_since EXCEPT ![name] = new.transition_reference_time]
      /\ live' = live \union {name}
    BY <1>1, <1>4, StoreMaps DEF HolderOf, SinceOf
<1>6. new.transition_reference_time \in 0 .. now
    BY <1>1, <1>3 DEF NameState
<1> QED BY <1>2, <1>5, <1>6 DEF Registry!Claim

LEMMA FundRefines ==
    ASSUME AuctionInv, NEW name \in Names, NEW owner \in Addrs, NEW deposit \in Deposits,
           FundName(name, owner, deposit)
    PROVE  Registry!Revive(name) \/ Same
<1> DEFINE st == name_states[name]
<1>1. name \in Stored /\ UNCHANGED now
    BY DEF FundName, funded
<1>2. PICK new \in NameState :
        /\ Store(name, new)
        /\ WellFormed(new, now)
        /\ new.begin_time = st.begin_time
        /\ new.begin_deposit = st.begin_deposit + deposit
        /\ new.owner = st.owner
        /\ new.rate = st.rate
        /\ new.previous_owner = st.previous_owner
        /\ new.transition_reference_time = st.transition_reference_time
        /\ new.previous_transition_reference_time = st.previous_transition_reference_time
    BY FundRecord
<1>3. /\ now \in Nat /\ now <= MaxTime /\ WellFormed(st, now) /\ st \in NameState
      /\ st.begin_deposit \in Nat /\ deposit \in Nat /\ st.owner \in Addrs
    BY <1>1, StoredRecord, AuctionAssumption DEF NameState
<1>4. /\ holder[name] = HolderOf(st, now) /\ holder_since[name] = SinceOf(st, now)
      /\ bidder[name] = st.owner /\ bidder_since[name] = st.transition_reference_time
      /\ name \in live <=> ~Expired(st, now)
    BY <1>1, StoredEntries
<1>5. HolderOf(new, now) = HolderOf(st, now) /\ SinceOf(new, now) = SinceOf(st, now)
    BY <1>2 DEF HolderOf, SinceOf, InContest, seconds_spent_since_bid
<1>6. name \in live => ~Expired(new, now)
    BY <1>2, <1>3, <1>4, MoreDepositLastsLonger
<1> HIDE DEF st
<1>7. UNCHANGED <<holder, holder_since, bidder, bidder_since>>
    BY <1>1, <1>2, <1>4, <1>5, StoreMaps, SameEntry
<1>8. live' = live \/ live' = live \union {name}
    BY <1>1, <1>2, <1>6, StoreMaps
<1>9. bidder[name] # None
    BY <1>3, <1>4, AuctionAssumption
<1> QED BY <1>1, <1>7, <1>8, <1>9 DEF Registry!Revive, Same

LEMMA SetRateRefines ==
    ASSUME AuctionInv, NEW sender \in Addrs, NEW name \in Names, NEW rate \in Rates,
           SetNameRate(sender, name, rate)
    PROVE  Same
<1> DEFINE st == name_states[name]
<1>1. name \in Stored /\ Settled(st, now) /\ UNCHANGED now
    BY SetRateRecord DEF SetNameRate
<1>2. PICK new \in NameState :
        /\ Store(name, new)
        /\ WellFormed(new, now)
        /\ new.begin_time = now
        /\ new.owner = st.owner
        /\ new.previous_owner = st.owner
        /\ new.transition_reference_time = st.transition_reference_time
        /\ new.previous_transition_reference_time = st.transition_reference_time
    BY SetRateRecord
<1>3. /\ holder[name] = st.owner /\ holder_since[name] = st.transition_reference_time
      /\ bidder[name] = st.owner /\ bidder_since[name] = st.transition_reference_time
      /\ name \in live
    BY <1>1, LiveEntries, StoredEntries DEF Settled, CounterDelay, name_owner, reference_time
<1>4. InContest(new, now) /\ ~Expired(new, now)
    BY <1>1, <1>2, StoredRecord, BegunIsLive
<1> HIDE DEF st
<1>5. /\ holder' = [holder EXCEPT ![name] = st.owner]
      /\ holder_since' = [holder_since EXCEPT ![name] = st.transition_reference_time]
      /\ bidder' = [bidder EXCEPT ![name] = st.owner]
      /\ bidder_since' = [bidder_since EXCEPT ![name] = st.transition_reference_time]
      /\ live' = live \union {name}
    BY <1>1, <1>2, <1>4, StoreMaps DEF HolderOf, SinceOf
<1> QED BY <1>1, <1>3, <1>5, SameEntry DEF Same

\* A record that differs in accounts alone is contested and lasts as before.
LEMMA SameTermsSameStatus ==
    ASSUME NEW st, NEW new, NEW t, SameTerms(st, new)
    PROVE  /\ Expired(new, t) <=> Expired(st, t)
           /\ InContest(new, t) <=> InContest(st, t)
           /\ SinceOf(new, t) = SinceOf(st, t)
    BY DEF SameTerms, Expired, DepositUsedUp, max_seconds, seconds_spent_since_bid,
           InContest, SinceOf

\* Storing such a record moves the accounts only.
LEMMA StoreSameTerms ==
    ASSUME AuctionInv, NEW name \in Stored, NEW new \in NameState, Store(name, new),
           SameTerms(name_states[name], new), UNCHANGED now
    PROVE  /\ holder' = [holder EXCEPT ![name] = HolderOf(new, now)]
           /\ bidder' = [bidder EXCEPT ![name] = new.owner]
           /\ UNCHANGED <<holder_since, bidder_since, live>>
<1> DEFINE st == name_states[name]
<1>1. name \in Names
    BY DEF Stored
<1>2. /\ Expired(new, now) <=> Expired(st, now)
      /\ SinceOf(new, now) = SinceOf(st, now)
      /\ new.transition_reference_time = st.transition_reference_time
    BY SameTermsSameStatus DEF SameTerms
<1>3. /\ holder_since[name] = SinceOf(st, now)
      /\ bidder_since[name] = st.transition_reference_time
      /\ name \in live <=> ~Expired(st, now)
    BY StoredEntries
<1>4. /\ holder' = [holder EXCEPT ![name] = HolderOf(new, now)]
      /\ holder_since' = [holder_since EXCEPT ![name] = SinceOf(new, now)]
      /\ bidder' = [bidder EXCEPT ![name] = new.owner]
      /\ bidder_since' = [bidder_since EXCEPT ![name] = new.transition_reference_time]
      /\ ~Expired(new, now) => live' = live \union {name}
      /\ Expired(new, now) => live' = live \ {name}
    BY <1>1, StoreMaps
<1> HIDE DEF st
<1>5. UNCHANGED <<holder_since, bidder_since>>
    BY <1>1, <1>2, <1>3, <1>4, SameEntry
<1>6. UNCHANGED live
    BY <1>2, <1>3, <1>4
<1> QED BY <1>4, <1>5, <1>6

LEMMA TransferRefines ==
    ASSUME AuctionInv, NEW sender \in Addrs, NEW name \in Names, NEW to \in Addrs,
           TransferNameOwner(sender, name, to)
    PROVE  Registry!Give(name, to) \/ Registry!GiveBid(name, to)
<1> DEFINE st == name_states[name]
           byOwner == [st EXCEPT !.owner = to]
           byPrevious == [st EXCEPT !.previous_owner = to]
<1>1. name \in Stored /\ UNCHANGED now
    BY DEF TransferNameOwner
<1>2. /\ byOwner \in NameState /\ byPrevious \in NameState
      /\ byOwner.owner = to /\ byOwner.previous_owner = st.previous_owner
      /\ byPrevious.owner = st.owner /\ byPrevious.previous_owner = to
      /\ SameTerms(st, byOwner) /\ SameTerms(st, byPrevious)
    BY <1>1, RenamedRecord
<1>3. /\ InContest(byOwner, now) <=> InContest(st, now)
      /\ InContest(byPrevious, now) <=> InContest(st, now)
    BY <1>2, SameTermsSameStatus
<1>4. sender # None
    BY AuctionAssumption
<1>5. CASE can_transfer_name_owner(sender, st, now) /\ CounterDelay(st, now)
    <2>1. Store(name, byPrevious)
        BY <1>5 DEF TransferNameOwner
    <2>2. ~Expired(st, now) /\ InContest(st, now)
        BY <1>1, <1>5, LiveEntries DEF CounterDelay
    <2>3. name \in live /\ holder[name] = sender /\ bidder[name] = st.owner
        BY <1>1, <1>5, <2>2, LiveEntries DEF can_transfer_name_owner
    <2> HIDE DEF st, byPrevious
    <2>4. /\ holder' = [holder EXCEPT ![name] = to]
          /\ bidder' = [bidder EXCEPT ![name] = st.owner]
          /\ UNCHANGED <<holder_since, bidder_since, live>>
        BY <1>1, <1>2, <1>3, <2>1, <2>2, StoreSameTerms DEF HolderOf, st
    <2>5. UNCHANGED bidder
        BY <2>3, <2>4, SameEntry
    <2> QED BY <1>1, <1>4, <2>3, <2>4, <2>5 DEF Registry!Give
<1>6. CASE can_transfer_name_owner(sender, st, now) /\ ~CounterDelay(st, now)
    <2>1. Store(name, byOwner)
        BY <1>6 DEF TransferNameOwner
    <2>2. Settled(st, now) /\ ~Expired(st, now)
        BY <1>4, <1>6 DEF can_transfer_name_owner, name_owner, Settled
    <2>3. /\ name \in live /\ holder[name] = sender /\ bidder[name] = sender
          /\ ~InContest(st, now)
        BY <1>1, <1>6, <2>2, LiveEntries DEF can_transfer_name_owner, name_owner
    <2> HIDE DEF st, byOwner
    <2>4. /\ holder' = [holder EXCEPT ![name] = to]
          /\ bidder' = [bidder EXCEPT ![name] = to]
          /\ UNCHANGED <<holder_since, bidder_since, live>>
        BY <1>1, <1>2, <1>3, <2>1, <2>3, StoreSameTerms DEF HolderOf, st
    <2> QED BY <1>1, <1>4, <2>3, <2>4 DEF Registry!Give
<1>7. CASE ~can_transfer_name_owner(sender, st, now)
    <2>1. /\ Store(name, byOwner) /\ CounterDelay(st, now) /\ sender = st.owner
        BY <1>7 DEF TransferNameOwner, can_transfer_bid_owner
    <2>2. ~Expired(st, now) /\ InContest(st, now)
        BY <1>1, <2>1, LiveEntries DEF CounterDelay
    <2>3. /\ name \in live /\ bidder[name] = sender /\ holder[name] # sender
          /\ holder[name] = HolderOf(st, now)
        BY <1>1, <1>7, <2>1, <2>2, LiveEntries, StoredEntries DEF can_transfer_name_owner
    <2> HIDE DEF st, byOwner
    <2>4. /\ holder' = [holder EXCEPT ![name] = HolderOf(st, now)]
          /\ bidder' = [bidder EXCEPT ![name] = to]
          /\ UNCHANGED <<holder_since, bidder_since, live>>
        BY <1>1, <1>2, <1>3, <2>1, <2>2, StoreSameTerms DEF HolderOf, st
    <2>5. UNCHANGED holder
        BY <2>3, <2>4, SameEntry
    <2> QED BY <1>1, <2>3, <2>4, <2>5 DEF Registry!GiveBid
<1> QED BY <1>5, <1>6, <1>7

LEMMA SetControllerRefines ==
    ASSUME AuctionInv, NEW sender \in Addrs, NEW name \in Names, NEW controller \in Addrs,
           SetNameController(sender, name, controller)
    PROVE  Same
<1> DEFINE st == name_states[name]
           new == [st EXCEPT !.controller = controller]
<1>1. name \in Stored /\ UNCHANGED now /\ Store(name, new)
    BY DEF SetNameController
<1>2. /\ new \in NameState /\ SameTerms(st, new)
      /\ new.owner = st.owner /\ new.previous_owner = st.previous_owner
    BY <1>1, RenamedRecord
<1>3. HolderOf(new, now) = HolderOf(st, now)
    BY <1>2, SameTermsSameStatus DEF HolderOf
<1>4. holder[name] = HolderOf(st, now) /\ bidder[name] = st.owner
    BY <1>1, StoredEntries
<1> HIDE DEF st, new
<1>5. /\ holder' = [holder EXCEPT ![name] = HolderOf(new, now)]
      /\ bidder' = [bidder EXCEPT ![name] = new.owner]
      /\ UNCHANGED <<holder_since, bidder_since, live>>
    BY <1>1, <1>2, StoreSameTerms DEF st
<1> QED BY <1>1, <1>2, <1>3, <1>4, <1>5, SameEntry DEF Same, Stored

\* As time passes a contest can end and a lease can lapse, never the reverse.
LEMMA TickRefines ==
    ASSUME AuctionInv, Tick
    PROVE  Registry!Elapse
<1> DEFINE won == {name \in Stored : Contested(name) /\ ~Contested(name)'}
<1>1. /\ now \in Nat /\ now <= MaxTime /\ now' \in Nat /\ now' > now
      /\ UNCHANGED name_states /\ Stored' = Stored
    BY ConfigTypes DEF Tick, AuctionInv, TypeOK, Stored
<1>2. ASSUME NEW name \in Stored
      PROVE  /\ name_states[name].begin_time \in Nat
             /\ ~Contested(name) => ~Contested(name)'
    <2>1. name_states[name].begin_time \in Nat
        BY StoredRecord DEF NameState
    <2> QED BY <1>1, <2>1, ConfigTypes DEF Contested, seconds_spent_since_bid
<1>3. \A name \in Stored :
        /\ holder'[name] = IF name \in won THEN bidder[name] ELSE holder[name]
        /\ holder_since'[name]
             = IF name \in won THEN bidder_since[name] ELSE holder_since[name]
    BY <1>1, <1>2 DEF holder, holder_since, bidder, bidder_since, Contested, Stored
<1>4. \A name \in Names \ Stored :
        /\ holder'[name] = holder[name] /\ holder_since'[name] = holder_since[name]
        /\ name \notin won
    BY <1>1 DEF holder, holder_since
<1>5. /\ holder' = [name \in Names |-> IF name \in won THEN bidder[name] ELSE holder[name]]
      /\ holder_since' = [name \in Names |->
             IF name \in won THEN bidder_since[name] ELSE holder_since[name]]
    <2> DEFINE h(name) == IF name \in won THEN bidder[name] ELSE holder[name]
               k(name) == IF name \in won THEN bidder_since[name] ELSE holder_since[name]
    <2>1. \A name \in Names : holder'[name] = h(name) /\ holder_since'[name] = k(name)
        BY <1>3, <1>4
    <2> HIDE DEF h, k
    <2>2. holder' = [name \in Names |-> h(name)]
        BY <2>1 DEF holder
    <2>3. holder_since' = [name \in Names |-> k(name)]
        BY <2>1 DEF holder_since
    <2> QED BY <2>2, <2>3 DEF h, k
<1>6. won \in SUBSET Names
    BY DEF Stored
<1>7. live' \subseteq live
    <2> SUFFICES ASSUME NEW name \in live' PROVE name \in live
        OBVIOUS
    <2> DEFINE st == name_states[name]
    <2>1. name \in Stored /\ ~Expired(st, now')
        BY <1>1 DEF live, Expired, DepositUsedUp, seconds_spent_since_bid
    <2>2. WellFormed(st, now) /\ st \in NameState /\ st.begin_time \in Nat
        BY <2>1, StoredRecord DEF NameState
    <2>3. ~DepositUsedUp(st, now)
        <3>1. st.rate = 0 \/ ~(now' - st.begin_time >= max_seconds(st))
            BY <2>1 DEF Expired, DepositUsedUp, seconds_spent_since_bid
        <3>2. st.rate # 0 => max_seconds(st) \in Nat
            BY <1>1, <2>2, LeaseLength
        <3> HIDE DEF st
        <3> QED BY <1>1, <2>2, <3>1, <3>2 DEF DepositUsedUp, seconds_spent_since_bid
    <2> QED BY <2>1, <2>3, StoredRecord DEF live
<1>8. UNCHANGED <<bidder, bidder_since>>
    BY <1>1 DEF bidder, bidder_since
<1> HIDE DEF won
<1> QED BY <1>1, <1>5, <1>6, <1>7, <1>8 DEF Registry!Elapse

----------------------------------------------------------------------------

LEMMA InitRefines == Init => Registry!Init
    BY ConfigTypes
    DEF Init, Registry!Init, holder, holder_since, bidder, bidder_since, live, Contested, Stored

LEMMA StepRefines ==
    AuctionInv /\ [Next]_vars => [Registry!Next]_(Registry!registry_vars)
<1> SUFFICES ASSUME AuctionInv, [Next]_vars
             PROVE  Registry!Next \/ Same
    BY DEF Registry!registry_vars, Same
<1>1. CASE Tick
    BY <1>1, TickRefines DEF Registry!Next
<1>2. ASSUME NEW sender \in Addrs, NEW name \in Names, Transaction(sender, name)
      PROVE  Registry!Next \/ Same
    <2>1. ASSUME NEW rate \in Rates, NEW deposit \in Deposits,
                 BidName(sender, name, rate, deposit)
          PROVE  Registry!Next
        BY <2>1, BidExistingRefines, BidNewRefines DEF BidName, Registry!Next
    <2>2. ASSUME NEW owner \in Addrs, NEW deposit \in Deposits,
                 FundName(name, owner, deposit)
          PROVE  Registry!Next \/ Same
        BY <2>2, FundRefines DEF Registry!Next
    <2>3. ASSUME NEW rate \in Rates, SetNameRate(sender, name, rate)
          PROVE  Same
        BY <2>3, SetRateRefines
    <2>4. ASSUME NEW to \in Addrs, TransferNameOwner(sender, name, to)
          PROVE  Registry!Next
        BY <2>4, TransferRefines DEF Registry!Next
    <2>5. ASSUME NEW controller \in Addrs, SetNameController(sender, name, controller)
          PROVE  Same
        BY <2>5, SetControllerRefines
    <2> QED BY <1>2, <2>1, <2>2, <2>3, <2>4, <2>5 DEF Transaction
<1>3. CASE UNCHANGED vars
    <2>1. UNCHANGED <<now, name_states>>
        BY <1>3 DEF vars
    <2> QED BY <2>1
        DEF Same, holder, holder_since, bidder, bidder_since, live, Contested, Stored,
            Expired, DepositUsedUp, seconds_spent_since_bid
<1> QED BY <1>1, <1>2, <1>3 DEF Next

\* Every behaviour of the auction is a behaviour of the registry: whatever is
\* bid, funded, given away or re-priced, a holder keeps its name until time
\* gives it to the highest bidder or its lease ends.
THEOREM AuctionImplementsRegistry == Spec => ImplementsRegistry
<1>1. Init => Registry!Init
    BY InitRefines
<1>2. AuctionInv /\ [Next]_vars => [Registry!Next]_(Registry!registry_vars)
    BY StepRefines
<1> QED BY <1>1, <1>2, AuctionInvariance, PTL DEF Spec, ImplementsRegistry, Registry!Spec

----------------------------------------------------------------------------
(* Nobody controls a fresh name.                                           *)

\* FreshNameHasNoController itself is not inductive: a lease that lapses within
\* the counter delay leaves it, and funding brings it back.  So the invariant
\* looks at the counter delay alone.
Uncontrolled(st, t) ==
    InContest(st, t) /\ st.previous_owner = None => st.controller = None

NoEarlyController ==
    \A name \in Stored : Uncontrolled(name_states[name], now)

\* Storing one record keeps it, when that record has no early controller.
LEMMA StoreKeepsUncontrolled ==
    ASSUME AuctionInv, NoEarlyController, NEW name \in Names, NEW new \in NameState,
           Store(name, new), UNCHANGED now, Uncontrolled(new, now)
    PROVE  NoEarlyController'
<1>1. /\ name_states'[name] = new
      /\ \A other \in Names \ {name} : name_states'[other] = name_states[other]
    BY DEF AuctionInv, TypeOK, Store
<1>2. \A other \in Stored' : Uncontrolled(name_states'[other], now)
    BY <1>1 DEF Stored, NoEarlyController
<1> QED BY <1>2 DEF NoEarlyController, Uncontrolled, InContest, seconds_spent_since_bid

\* A record with the same times and previous owner, and the same controller.
LEMMA SameContest ==
    ASSUME NEW st, NEW new, NEW t, Uncontrolled(st, t),
           new.begin_time = st.begin_time, new.controller = st.controller,
           new.previous_owner = st.previous_owner
    PROVE  Uncontrolled(new, t)
    BY DEF Uncontrolled, InContest, seconds_spent_since_bid

LEMMA BidKeepsUncontrolled ==
    ASSUME AuctionInv, NoEarlyController, NEW sender \in Addrs, NEW name \in Names,
           NEW rate \in Rates, NEW deposit \in Deposits,
           BidName(sender, name, rate, deposit)
    PROVE  NoEarlyController'
<1> DEFINE st == name_states[name]
<1>1. UNCHANGED now
    BY DEF BidName
<1>2. CASE execute_bid_existing(sender, name, rate, deposit)
    <2>1. name \in Stored /\ ~Expired(st, now)
        BY <1>2, BidExistingRecord
    <2>2. PICK new \in NameState :
            /\ Store(name, new)
            /\ new.controller = st.controller
            /\ new.previous_owner = name_owner(st, now)
        BY <1>2, BidExistingRecord
    <2>3. Uncontrolled(st, now) /\ st.owner # None
        BY <2>1, StoredRecord, AuctionAssumption DEF NoEarlyController, NameState
    <2>4. CounterDelay(st, now) <=> InContest(st, now)
        BY <2>1, LiveEntries
    <2>5. Settled(st, now) <=> ~InContest(st, now)
        BY <2>1, LiveEntries
    <2>6. Uncontrolled(new, now)
        BY <2>2, <2>3, <2>4, <2>5 DEF Uncontrolled, name_owner
    <2> QED BY <1>1, <2>2, <2>6, StoreKeepsUncontrolled
<1>3. CASE execute_bid_new(sender, name, rate, deposit)
    <2>1. PICK new \in NameState : Store(name, new) /\ new.controller = None
        BY <1>3, BidNewRecord
    <2> QED BY <1>1, <2>1, StoreKeepsUncontrolled DEF Uncontrolled
<1> QED BY <1>2, <1>3 DEF BidName

LEMMA TransferKeepsUncontrolled ==
    ASSUME AuctionInv, NoEarlyController, NEW sender \in Addrs, NEW name \in Names,
           NEW to \in Addrs, TransferNameOwner(sender, name, to)
    PROVE  NoEarlyController'
<1> DEFINE st == name_states[name]
           byOwner == [st EXCEPT !.owner = to]
           byPrevious == [st EXCEPT !.previous_owner = to]
<1>1. name \in Stored /\ UNCHANGED now
    BY DEF TransferNameOwner
<1>2. st \in NameState /\ Uncontrolled(st, now)
    BY <1>1, StoredRecord DEF NoEarlyController
<1>3. /\ byOwner \in NameState /\ byOwner.begin_time = st.begin_time
      /\ byOwner.controller = st.controller
      /\ byOwner.previous_owner = st.previous_owner
    BY <1>2 DEF NameState
<1>4. byPrevious \in NameState /\ byPrevious.previous_owner # None
    BY <1>2, AuctionAssumption DEF NameState
<1>5. Store(name, byOwner) \/ Store(name, byPrevious)
    BY DEF TransferNameOwner
<1> HIDE DEF byOwner, byPrevious
<1>6. Uncontrolled(byOwner, now) /\ Uncontrolled(byPrevious, now)
    BY <1>2, <1>3, <1>4, SameContest DEF Uncontrolled
<1> QED BY <1>1, <1>3, <1>4, <1>5, <1>6, StoreKeepsUncontrolled DEF Stored

LEMMA SetControllerKeepsUncontrolled ==
    ASSUME AuctionInv, NoEarlyController, NEW sender \in Addrs, NEW name \in Names,
           NEW controller \in Addrs, SetNameController(sender, name, controller)
    PROVE  NoEarlyController'
<1> DEFINE st == name_states[name]
           new == [st EXCEPT !.controller = controller]
<1>1. /\ name \in Stored /\ UNCHANGED now /\ Store(name, new)
      /\ sender = name_owner(st, now)
    BY DEF SetNameController, can_set_controller
<1>2. st \in NameState /\ sender # None
    BY <1>1, StoredRecord, AuctionAssumption
<1>3. /\ new \in NameState /\ new.begin_time = st.begin_time
      /\ new.previous_owner = st.previous_owner
    BY <1>2 DEF NameState
<1>4. ~Expired(st, now)
    BY <1>1, <1>2 DEF name_owner, CounterDelay, Settled
<1>5. InContest(st, now) => CounterDelay(st, now)
    BY <1>1, <1>4, LiveEntries
<1>6. InContest(st, now) => st.previous_owner # None
    BY <1>1, <1>2, <1>5 DEF name_owner
<1> HIDE DEF new
<1>7. Uncontrolled(new, now)
    BY <1>3, <1>6 DEF Uncontrolled, InContest, seconds_spent_since_bid
<1> QED BY <1>1, <1>3, <1>7, StoreKeepsUncontrolled DEF Stored

LEMMA TickKeepsUncontrolled ==
    ASSUME AuctionInv, NoEarlyController, Tick
    PROVE  NoEarlyController'
<1>1. /\ now \in Nat /\ now' \in Nat /\ now' > now
      /\ UNCHANGED name_states /\ Stored' = Stored
    BY ConfigTypes DEF Tick, AuctionInv, TypeOK, Stored
<1>2. ASSUME NEW name \in Stored
      PROVE  Uncontrolled(name_states[name], now')
    <2>1. name_states[name].begin_time \in Nat /\ Uncontrolled(name_states[name], now)
        BY StoredRecord DEF NameState, NoEarlyController
    <2> QED BY <1>1, <2>1, ConfigTypes DEF Uncontrolled, InContest, seconds_spent_since_bid
<1> QED BY <1>1, <1>2 DEF NoEarlyController, Uncontrolled, InContest, seconds_spent_since_bid

LEMMA StepKeepsUncontrolled ==
    AuctionInv /\ NoEarlyController /\ [Next]_vars => NoEarlyController'
<1> SUFFICES ASSUME AuctionInv, NoEarlyController, [Next]_vars
             PROVE  NoEarlyController'
    OBVIOUS
<1>1. CASE Tick
    BY <1>1, TickKeepsUncontrolled
<1>2. ASSUME NEW sender \in Addrs, NEW name \in Names, Transaction(sender, name)
      PROVE  NoEarlyController'
    <2>1. ASSUME NEW rate \in Rates, NEW deposit \in Deposits,
                 BidName(sender, name, rate, deposit)
          PROVE  NoEarlyController'
        BY <2>1, BidKeepsUncontrolled
    <2>2. ASSUME NEW owner \in Addrs, NEW deposit \in Deposits,
                 FundName(name, owner, deposit)
          PROVE  NoEarlyController'
        <3>1. name \in Stored /\ UNCHANGED now
            BY <2>2 DEF FundName
        <3>2. PICK new \in NameState :
                /\ Store(name, new)
                /\ new.begin_time = name_states[name].begin_time
                /\ new.controller = name_states[name].controller
                /\ new.previous_owner = name_states[name].previous_owner
            BY <2>2, FundRecord
        <3>3. Uncontrolled(new, now)
            BY <3>1, <3>2, SameContest DEF NoEarlyController
        <3> QED BY <3>1, <3>2, <3>3, StoreKeepsUncontrolled
    <2>3. ASSUME NEW rate \in Rates, SetNameRate(sender, name, rate)
          PROVE  NoEarlyController'
        <3>1. name \in Stored /\ UNCHANGED now
            BY <2>3 DEF SetNameRate
        <3>2. PICK new \in NameState :
                Store(name, new) /\ new.previous_owner = name_states[name].owner
            BY <2>3, SetRateRecord
        <3>3. name_states[name].owner # None
            BY <3>1, StoredRecord, AuctionAssumption DEF NameState
        <3> QED BY <3>1, <3>2, <3>3, StoreKeepsUncontrolled DEF Uncontrolled
    <2>4. ASSUME NEW to \in Addrs, TransferNameOwner(sender, name, to)
          PROVE  NoEarlyController'
        BY <2>4, TransferKeepsUncontrolled
    <2>5. ASSUME NEW controller \in Addrs, SetNameController(sender, name, controller)
          PROVE  NoEarlyController'
        BY <2>5, SetControllerKeepsUncontrolled
    <2> QED BY <1>2, <2>1, <2>2, <2>3, <2>4, <2>5 DEF Transaction
<1>3. CASE UNCHANGED vars
    BY <1>3 DEF vars, NoEarlyController, Stored, Uncontrolled, InContest,
                seconds_spent_since_bid
<1> QED BY <1>1, <1>2, <1>3 DEF Next

\* Nobody controls a name before somebody holds it, so a controller of an
\* earlier lease cannot set the values of a later one.
THEOREM FreshNamesHaveNoController == Spec => []FreshNameHasNoController
<1>1. Init => NoEarlyController
    BY DEF Init, NoEarlyController, Stored
<1>2. NoEarlyController => FreshNameHasNoController
    BY DEF NoEarlyController, FreshNameHasNoController, Uncontrolled, CounterDelay, InContest
<1> QED BY <1>1, <1>2, StepKeepsUncontrolled, AuctionInvariance, PTL DEF Spec

----------------------------------------------------------------------------
(* The terms of a contested bid.                                           *)

\* A transaction changes the record of its own name alone.
LEMMA OtherRecordsStay ==
    ASSUME AuctionInv, NEW sender \in Addrs, NEW other \in Names,
           Transaction(sender, other), NEW name \in Names, name # other
    PROVE  name_states'[name] = name_states[name]
<1>1. \A new : Store(other, new) => name_states'[name] = name_states[name]
    BY DEF AuctionInv, TypeOK, Store
<1>2. \E new : Store(other, new)
    BY DEF Transaction, BidName, execute_bid_existing, execute_bid_new, FundName,
           SetNameRate, TransferNameOwner, SetNameController
<1> QED BY <1>1, <1>2

LEMMA TransactionTakesNoTime ==
    ASSUME NEW sender \in Addrs, NEW name \in Names, Transaction(sender, name)
    PROVE  now' = now
    BY DEF Transaction, BidName, FundName, SetNameRate, TransferNameOwner, SetNameController

\* What the new record of a contested name owes to the one before.
BetterTerms(st, new) ==
    /\ new.rate >= st.rate
    /\ new.rate = st.rate => /\ new.begin_time = st.begin_time
                             /\ new.begin_deposit >= st.begin_deposit

LEMMA TransactionBettersTerms ==
    ASSUME AuctionInv, NEW sender \in Addrs, NEW name \in Stored,
           Transaction(sender, name), CounterDelay(name_states[name], now)
    PROVE  BetterTerms(name_states[name], name_states'[name])
<1> DEFINE st == name_states[name]
<1>1. /\ name \in Names /\ st \in NameState
      /\ st.rate \in Nat /\ st.begin_deposit \in Nat
    BY StoredRecord DEF Stored, NameState
<1>2. /\ ~Expired(st, now) /\ ~Settled(st, now)
    BY LiveEntries DEF CounterDelay
<1>3. \A new : Store(name, new) => name_states'[name] = new
    BY <1>1 DEF AuctionInv, TypeOK, Store
<1>4. ASSUME NEW rate \in Rates, NEW deposit \in Deposits,
             BidName(sender, name, rate, deposit)
      PROVE  BetterTerms(st, name_states'[name])
    <2>1. execute_bid_existing(sender, name, rate, deposit)
        BY <1>2, <1>4 DEF BidName, execute_bid_new
    <2>2. PICK new \in NameState : Store(name, new) /\ new.rate = rate
        BY <2>1, <1>1, BidExistingRecord
    <2>3. rate > st.rate /\ rate \in Nat
        BY <2>1, AuctionAssumption DEF execute_bid_existing, Outbids
    <2> HIDE DEF st
    <2> QED BY <2>2, <2>3, <1>1, <1>3 DEF BetterTerms
<1>5. ASSUME NEW owner \in Addrs, NEW deposit \in Deposits,
             FundName(name, owner, deposit)
      PROVE  BetterTerms(st, name_states'[name])
    <2>1. PICK new \in NameState :
            /\ Store(name, new)
            /\ new.begin_time = st.begin_time
            /\ new.begin_deposit = st.begin_deposit + deposit
            /\ new.rate = st.rate
        BY <1>1, <1>5, FundRecord
    <2>2. deposit \in Nat
        BY AuctionAssumption
    <2> HIDE DEF st
    <2> QED BY <2>1, <2>2, <1>1, <1>3 DEF BetterTerms
<1>6. ASSUME NEW rate \in Rates, SetNameRate(sender, name, rate)
      PROVE  FALSE
    BY <1>2, <1>6 DEF SetNameRate, can_set_rate
<1>7. ASSUME NEW new, SameTerms(st, new), Store(name, new)
      PROVE  BetterTerms(st, name_states'[name])
    BY <1>1, <1>3, <1>7 DEF SameTerms, BetterTerms
<1>8. ASSUME NEW to \in Addrs, TransferNameOwner(sender, name, to)
      PROVE  BetterTerms(st, name_states'[name])
    BY <1>7, <1>8, RenamedRecord DEF TransferNameOwner
<1>9. ASSUME NEW controller \in Addrs, SetNameController(sender, name, controller)
      PROVE  BetterTerms(st, name_states'[name])
    BY <1>7, <1>9, RenamedRecord DEF SetNameController
<1> QED BY <1>4, <1>5, <1>6, <1>8, <1>9 DEF Transaction

\* As long as a bid can be countered its rate only rises, and what was paid for
\* it stays in, whatever rates, amounts and delays are used.
THEOREM ContestedRatesNeverFall == Spec => ContestedRateNeverFalls
<1> DEFINE Better ==
        \A name \in Stored :
          LET st == name_states[name]
          IN  CounterDelay(st, now) =>
                LET new == name_states'[name]
                IN  /\ new.rate >= st.rate
                    /\ new.rate = st.rate => /\ new.begin_time = st.begin_time
                                             /\ new.begin_deposit >= st.begin_deposit
<1>1. AuctionInv /\ [Next]_vars => [Better]_vars
    <2> SUFFICES ASSUME AuctionInv, Next, NEW name \in Stored,
                        CounterDelay(name_states[name], now)
                 PROVE  BetterTerms(name_states[name], name_states'[name])
        BY DEF BetterTerms
    <2>1. name_states[name] \in NameState /\ name \in Names
        BY StoredRecord DEF Stored
    <2>2. BetterTerms(name_states[name], name_states[name])
        BY <2>1 DEF BetterTerms, NameState
    <2>3. CASE Tick
        BY <2>2, <2>3 DEF Tick
    <2>4. ASSUME NEW sender \in Addrs, NEW other \in Names, Transaction(sender, other)
          PROVE  BetterTerms(name_states[name], name_states'[name])
        <3>1. CASE other = name
            BY <3>1, <2>4, TransactionBettersTerms
        <3>2. CASE other # name
            <4>1. name_states'[name] = name_states[name]
                BY <3>2, <2>1, <2>4, OtherRecordsStay
            <4> QED BY <4>1, <2>2
        <3> QED BY <3>1, <3>2
    <2> QED BY <2>3, <2>4 DEF Next
<1> QED BY <1>1, AuctionInvariance, PTL DEF Spec, ContestedRateNeverFalls

----------------------------------------------------------------------------
(* The deadline of a contested bid.  What StandingBidIsDecided says beyond  *)
(* this is that the block time comes to the deadline.                       *)

\* A contested bid is outbid or given away, or its counter delay ends when it
\* would have.
SameDeadline(st, new) == new.owner # st.owner \/ new.begin_time = st.begin_time

ContestsKeepDeadline ==
    [][ \A name \in Stored :
          CounterDelay(name_states[name], now)
            => name \in Stored' /\ SameDeadline(name_states[name], name_states'[name]) ]_vars

\* At the deadline the highest bidder holds the name or the lease has lapsed.
DecidedAtDeadline ==
    \A name \in Stored, account \in Addrs :
        name_states[name].begin_time + counter_delay_secs <= now => BidDecided(name, account)

LEMMA TransactionKeepsDeadline ==
    ASSUME AuctionInv, NEW sender \in Addrs, NEW name \in Stored,
           Transaction(sender, name), CounterDelay(name_states[name], now)
    PROVE  /\ name_states'[name] \in NameState
           /\ SameDeadline(name_states[name], name_states'[name])
<1> DEFINE st == name_states[name]
           Kept == name_states'[name] \in NameState /\ SameDeadline(st, name_states'[name])
<1>1. /\ name \in Names /\ ~Expired(st, now) /\ ~Settled(st, now)
    BY LiveEntries DEF Stored, CounterDelay
<1>2. \A new : Store(name, new) => name_states'[name] = new
    BY <1>1 DEF AuctionInv, TypeOK, Store
<1>3. ASSUME NEW rate \in Rates, NEW deposit \in Deposits,
             BidName(sender, name, rate, deposit)
      PROVE  Kept
    <2>1. execute_bid_existing(sender, name, rate, deposit)
        BY <1>1, <1>3 DEF BidName, execute_bid_new
    <2>2. sender # st.owner /\ \E new \in NameState : Store(name, new) /\ new.owner = sender
        BY <2>1, <1>1, BidExistingRecord
    <2> HIDE DEF st
    <2> QED BY <2>2, <1>2 DEF SameDeadline
<1>4. ASSUME NEW owner \in Addrs, NEW deposit \in Deposits,
             FundName(name, owner, deposit)
      PROVE  Kept
    <2>1. \E new \in NameState : Store(name, new) /\ new.begin_time = st.begin_time
        BY <1>1, <1>4, FundRecord
    <2> HIDE DEF st
    <2> QED BY <2>1, <1>2 DEF SameDeadline
<1>5. ASSUME NEW rate \in Rates, SetNameRate(sender, name, rate)
      PROVE  FALSE
    BY <1>1, <1>5 DEF SetNameRate, can_set_rate
<1>6. ASSUME NEW new \in NameState, SameTerms(st, new), Store(name, new)
      PROVE  Kept
    BY <1>2, <1>6 DEF SameTerms, SameDeadline
<1>7. ASSUME NEW to \in Addrs, TransferNameOwner(sender, name, to)
      PROVE  Kept
    BY <1>6, <1>7, RenamedRecord DEF TransferNameOwner
<1>8. ASSUME NEW controller \in Addrs, SetNameController(sender, name, controller)
      PROVE  Kept
    BY <1>6, <1>8, RenamedRecord DEF SetNameController
<1> QED BY <1>3, <1>4, <1>5, <1>7, <1>8 DEF Transaction

\* So does any step.
LEMMA StepKeepsDeadline ==
    ASSUME AuctionInv, Next, NEW name \in Stored, CounterDelay(name_states[name], now)
    PROVE  /\ name_states'[name] \in NameState
           /\ name \in Stored'
           /\ SameDeadline(name_states[name], name_states'[name])
<1>1. name_states[name] \in NameState /\ name \in Names
    BY StoredRecord DEF Stored
<1>2. SameDeadline(name_states[name], name_states[name])
    BY DEF SameDeadline
<1>3. CASE Tick
    BY <1>1, <1>2, <1>3, NoStateAssumption DEF Tick, Stored
<1>4. ASSUME NEW sender \in Addrs, NEW other \in Names, Transaction(sender, other)
      PROVE  /\ name_states'[name] \in NameState
             /\ SameDeadline(name_states[name], name_states'[name])
    <2>1. CASE other = name
        BY <2>1, <1>4, TransactionKeepsDeadline
    <2>2. CASE other # name
        BY <2>2, <1>1, <1>2, <1>4, OtherRecordsStay
    <2> QED BY <2>1, <2>2
<1> QED BY <1>1, <1>3, <1>4, NoStateAssumption DEF Next, Stored

\* A bid that stands has a deadline that no call puts off, whatever is funded,
\* transferred or set in between, and at the deadline it is decided.
THEOREM BidsDecidedAtDeadline == Spec => ContestsKeepDeadline /\ []DecidedAtDeadline
<1> DEFINE Keep ==
        \A name \in Stored :
          CounterDelay(name_states[name], now)
            => name \in Stored' /\ SameDeadline(name_states[name], name_states'[name])
<1>1. AuctionInv /\ [Next]_vars => [Keep]_vars
    BY StepKeepsDeadline
<1>2. AuctionInv => DecidedAtDeadline
    <2> SUFFICES ASSUME AuctionInv, NEW name \in Stored, NEW account \in Addrs,
                        name_states[name].begin_time + counter_delay_secs <= now
                 PROVE  BidDecided(name, account)
        BY DEF DecidedAtDeadline
    <2> DEFINE st == name_states[name]
    <2>1. now \in Nat /\ st.begin_time \in Nat /\ counter_delay_secs \in Nat
        BY StoredRecord, ConfigTypes DEF NameState
    <2>2. seconds_spent_since_bid(st, now) >= counter_delay_secs
        BY <2>1 DEF seconds_spent_since_bid
    <2>3. ~CounterDelay(st, now)
        BY <2>1, <2>2 DEF CounterDelay, seconds_spent_since_bid
    <2>4. Expired(st, now) \/ name_owner(st, now) = st.owner
        BY <2>2, <2>3 DEF name_owner, Settled
    <2> QED BY <2>4 DEF BidDecided
<1> QED BY <1>1, <1>2, AuctionInvariance, PTL DEF Spec, ContestsKeepDeadline

\* The block time goes on to the end of its range.  This is what fairness of Tick
\* is for.
TimePasses == <>(now = MaxTime)

LEMMA BidStandsOrDecided ==
    ASSUME AuctionInv, AuctionInv', [Next]_vars, NEW name \in Names, NEW account \in Addrs,
           BidStands(name, account)
    PROVE  BidStands(name, account)' \/ BidDecided(name, account)'
<1>1. CASE Next
    <2> DEFINE st == name_states[name]
               new == name_states'[name]
    <2>1. /\ name \in Stored /\ CounterDelay(st, now) /\ st.owner = account
          /\ st.begin_time + counter_delay_secs <= MaxTime
        BY DEF BidStands
    <2>2. name \in Stored' /\ SameDeadline(st, new)
        BY <1>1, <2>1, StepKeepsDeadline
    <2>3. now' \in Nat /\ new.begin_time \in Nat /\ counter_delay_secs \in Nat
        BY <2>2, ConfigTypes DEF AuctionInv, TypeOK, Stored, NameState
    <2>4. CASE new.owner # account
        BY <2>2, <2>4 DEF BidDecided
    <2>5. CASE Expired(new, now')
        BY <2>2, <2>5 DEF BidDecided
    <2>6. CASE Settled(new, now') /\ new.owner = account
        <3>1. ~CounterDelay(new, now')
            BY <2>3, <2>6 DEF Settled, CounterDelay, seconds_spent_since_bid
        <3>2. name_owner(new, now') = account
            BY <2>6, <3>1 DEF name_owner
        <3> QED BY <2>2, <3>2 DEF BidDecided
    <2>7. CASE ~Expired(new, now') /\ ~Settled(new, now') /\ new.owner = account
        <3>1. CounterDelay(new, now')
            BY <2>3, <2>7 DEF Settled, CounterDelay, seconds_spent_since_bid
        <3>2. new.begin_time = st.begin_time
            BY <2>1, <2>2, <2>7 DEF SameDeadline
        <3> QED BY <2>1, <2>2, <2>7, <3>1, <3>2 DEF BidStands
    <2> QED BY <2>4, <2>5, <2>6, <2>7
<1>2. CASE UNCHANGED vars
    BY <1>2 DEF vars, BidStands, Stored
<1> QED BY <1>1, <1>2

\* If only time passes, every bid that stands is decided: no account has to do
\* anything for it, and none can keep it from happening.
THEOREM TimeDecidesBids == Spec /\ TimePasses => StandingBidIsDecided
<1> SUFFICES ASSUME NEW name \in Names, NEW account \in Addrs
             PROVE  Spec /\ TimePasses
                      => (BidStands(name, account) ~> BidDecided(name, account))
    BY DEF StandingBidIsDecided
<1>1. AuctionInv /\ AuctionInv' /\ [Next]_vars /\ BidStands(name, account)
        => BidStands(name, account)' \/ BidDecided(name, account)'
    BY BidStandsOrDecided
<1>2. AuctionInv /\ BidStands(name, account) => ~(now = MaxTime)
    <2> SUFFICES ASSUME AuctionInv, BidStands(name, account), now = MaxTime
                 PROVE  FALSE
        OBVIOUS
    <2>1. /\ name \in Stored /\ CounterDelay(name_states[name], now)
          /\ name_states[name].begin_time + counter_delay_secs <= now
        BY DEF BidStands
    <2>2. now \in Nat /\ name_states[name].begin_time \in Nat /\ counter_delay_secs \in Nat
        BY <2>1, StoredRecord, ConfigTypes DEF NameState
    <2> QED BY <2>1, <2>2 DEF CounterDelay, seconds_spent_since_bid
<1>3. now = MaxTime /\ [Next]_vars => (now = MaxTime)'
    <2> SUFFICES ASSUME now = MaxTime, [Next]_vars PROVE now' = MaxTime
        OBVIOUS
    <2>1. CASE Tick
        BY <2>1, ConfigTypes DEF Tick
    <2>2. CASE \E sender \in Addrs, name_2 \in Names : Transaction(sender, name_2)
        BY <2>2, TransactionTakesNoTime
    <2> QED BY <2>1, <2>2 DEF Next, vars
<1> QED BY <1>1, <1>2, <1>3, AuctionInvariance, PTL DEF Spec, TimePasses

----------------------------------------------------------------------------
(* A holder keeps its name.                                                *)

\* How a holder may lose its name between now and t.
LostFairly(holder_before, name, st, t) ==
    \/ \E to \in Addrs : TransferNameOwner(holder_before, name, to)
    \/ DepositUsedUp(st, t)
    \/ CounterDelay(st, now) /\ t >= st.begin_time + counter_delay_secs

\* A lease that lasts has the holder of the refinement mapping.
LEMMA LiveHolder ==
    ASSUME NEW st, NEW t, st.begin_time \in Int, t \in Int, ~Expired(st, t)
    PROVE  name_owner(st, t) = HolderOf(st, t)
<1>1. seconds_spent_since_bid(st, t) \in Int
    BY DEF seconds_spent_since_bid
<1> QED BY <1>1, ConfigTypes DEF name_owner, CounterDelay, Settled, HolderOf, InContest

\* A transaction on the name leaves its holder alone, or is its transfer.
LEMMA TransactionKeepsHolder ==
    ASSUME AuctionInv, NEW sender \in Addrs, NEW name \in Stored,
           Transaction(sender, name), name_owner(name_states[name], now) # None
    PROVE  \/ name_owner(name_states'[name], now) = name_owner(name_states[name], now)
           \/ \E to \in Addrs :
                TransferNameOwner(name_owner(name_states[name], now), name, to)
<1> DEFINE st == name_states[name]
           owner == name_owner(st, now)
<1>1. /\ name \in Names /\ st \in NameState /\ WellFormed(st, now)
      /\ now \in Nat /\ now <= MaxTime
      /\ st.begin_time \in Nat /\ st.begin_deposit \in Nat
    BY StoredRecord DEF Stored, NameState
<1>2. ~Expired(st, now)
    BY DEF name_owner, CounterDelay, Settled
<1>3. owner = HolderOf(st, now)
    BY <1>1, <1>2, LiveHolder
<1>4. \A new : Store(name, new) => name_states'[name] = new
    BY <1>1 DEF AuctionInv, TypeOK, Store
\* A record that lasts and has the same holder.
<1>5. ASSUME NEW new \in NameState, Store(name, new), ~Expired(new, now),
             HolderOf(new, now) = owner
      PROVE  name_owner(name_states'[name], now) = owner
    <2>1. new.begin_time \in Int
        BY DEF NameState
    <2> HIDE DEF owner
    <2> QED BY <1>1, <1>4, <1>5, <2>1, LiveHolder
<1>6. ASSUME NEW rate \in Rates, NEW deposit \in Deposits,
             BidName(sender, name, rate, deposit)
      PROVE  name_owner(name_states'[name], now) = owner
    <2>1. execute_bid_existing(sender, name, rate, deposit)
        BY <1>2, <1>6 DEF BidName, execute_bid_new
    <2>2. PICK new \in NameState :
            /\ Store(name, new) /\ WellFormed(new, now)
            /\ new.begin_time = now /\ new.previous_owner = owner
        BY <2>1, <1>1, BidExistingRecord
    <2>3. InContest(new, now) /\ ~Expired(new, now)
        BY <1>1, <2>2, BegunIsLive
    <2> QED BY <1>5, <2>2, <2>3 DEF HolderOf
<1>7. ASSUME NEW fund_owner \in Addrs, NEW deposit \in Deposits,
             FundName(name, fund_owner, deposit)
      PROVE  name_owner(name_states'[name], now) = owner
    <2>1. PICK new \in NameState :
            /\ Store(name, new) /\ WellFormed(new, now)
            /\ new.begin_time = st.begin_time
            /\ new.begin_deposit = st.begin_deposit + deposit
            /\ new.owner = st.owner
            /\ new.rate = st.rate
            /\ new.previous_owner = st.previous_owner
        BY <1>1, <1>7, FundRecord
    <2>2. new.begin_deposit >= st.begin_deposit
        BY <1>1, <2>1, AuctionAssumption
    <2>3. ~Expired(new, now)
        BY <1>1, <1>2, <2>1, <2>2, MoreDepositLastsLonger
    <2>4. HolderOf(new, now) = HolderOf(st, now)
        BY <2>1 DEF HolderOf, InContest, seconds_spent_since_bid
    <2> HIDE DEF owner, st
    <2> QED BY <1>3, <1>5, <2>1, <2>3, <2>4
<1>8. ASSUME NEW rate \in Rates, SetNameRate(sender, name, rate)
      PROVE  name_owner(name_states'[name], now) = owner
    <2>1. PICK new \in NameState :
            /\ Store(name, new) /\ WellFormed(new, now)
            /\ new.begin_time = now /\ new.previous_owner = st.owner
        BY <1>1, <1>8, SetRateRecord
    <2>2. InContest(new, now) /\ ~Expired(new, now)
        BY <1>1, <2>1, BegunIsLive
    <2>3. Settled(st, now)
        BY <1>1, <1>8, SetRateRecord
    <2>4. ~InContest(st, now)
        BY <1>2, <2>3, LiveEntries
    <2>5. owner = st.owner
        BY <1>3, <2>4 DEF HolderOf
    <2> QED BY <1>5, <2>1, <2>2, <2>5 DEF HolderOf
<1>9. ASSUME NEW to \in Addrs, TransferNameOwner(sender, name, to), sender # owner
      PROVE  name_owner(name_states'[name], now) = owner
    <2> DEFINE new == [st EXCEPT !.owner = to]
    <2>1. Store(name, new) /\ CounterDelay(st, now)
        BY <1>9 DEF TransferNameOwner, can_transfer_name_owner, can_transfer_bid_owner
    <2>2. /\ new \in NameState /\ SameTerms(st, new)
          /\ new.previous_owner = st.previous_owner
        BY <1>1, RenamedRecord
    <2>3. ~Expired(new, now) /\ InContest(new, now) /\ InContest(st, now)
        BY <1>2, <2>1, <2>2, LiveEntries, SameTermsSameStatus
    <2> HIDE DEF new
    <2> QED BY <1>3, <1>5, <2>1, <2>2, <2>3 DEF HolderOf
<1>10. ASSUME NEW controller \in Addrs, SetNameController(sender, name, controller)
       PROVE  name_owner(name_states'[name], now) = owner
    <2> DEFINE new == [st EXCEPT !.controller = controller]
    <2>1. Store(name, new)
        BY <1>10 DEF SetNameController
    <2>2. /\ new \in NameState /\ SameTerms(st, new) /\ new.owner = st.owner
          /\ new.previous_owner = st.previous_owner
        BY <1>1, RenamedRecord
    <2>3. ~Expired(new, now) /\ HolderOf(new, now) = HolderOf(st, now)
        BY <1>2, <2>2, SameTermsSameStatus DEF HolderOf
    <2> HIDE DEF new
    <2> QED BY <1>3, <1>5, <2>1, <2>2, <2>3
<1> QED BY <1>6, <1>7, <1>8, <1>9, <1>10 DEF Transaction

\* Time takes the name only from a holder that was outbid or whose lease ends.
LEMMA TickKeepsHolder ==
    ASSUME AuctionInv, Tick, NEW name \in Stored,
           name_owner(name_states[name], now) # None,
           ~DepositUsedUp(name_states[name], now'),
           ~(/\ CounterDelay(name_states[name], now)
             /\ now' >= name_states[name].begin_time + counter_delay_secs)
    PROVE  name_owner(name_states[name], now') = name_owner(name_states[name], now)
<1> DEFINE st == name_states[name]
<1>1. /\ now \in Nat /\ now' \in Nat /\ now' > now
      /\ st \in NameState /\ st.begin_time \in Nat /\ InOrder(st, now)
      /\ WellFormed(st, now)
    BY StoredRecord, ConfigTypes DEF Tick, NameState
<1>2. ~Expired(st, now)
    BY DEF name_owner, CounterDelay, Settled
<1>3. WellFormed(st, now')
    BY <1>1, WellFormedLater
<1>4. ~Expired(st, now')
    BY <1>1, <1>3, ExpiredOnlyByDeposit DEF WellFormed
<1>5. InContest(st, now') <=> InContest(st, now)
    <2>1. InContest(st, now) => CounterDelay(st, now)
        BY <1>2, LiveEntries
    <2> HIDE DEF st
    <2>2. InContest(st, now) => ~(now' >= st.begin_time + counter_delay_secs)
        BY <2>1 DEF st
    <2> QED BY <1>1, <2>2, ConfigTypes DEF InContest, seconds_spent_since_bid
<1>6. HolderOf(st, now') = HolderOf(st, now)
    BY <1>5 DEF HolderOf
<1> HIDE DEF st
<1>7. /\ name_owner(st, now) = HolderOf(st, now)
      /\ name_owner(st, now') = HolderOf(st, now')
    BY <1>1, <1>2, <1>4, LiveHolder
<1> QED BY <1>6, <1>7 DEF st

\* A holder keeps its name whatever others do: it gives the name away itself,
\* lets the lease lapse, or is outbid and the counter delay passes.
THEOREM OwnersKeepNames == Spec => OwnerKeepsName
<1> DEFINE Kept ==
        \A name \in Stored :
          LET st     == name_states[name]
              owner  == name_owner(st, now)
          IN  owner # None /\ name_owner(name_states[name], now)' # owner
                => \/ \E to \in Addrs : TransferNameOwner(owner, name, to)
                   \/ DepositUsedUp(st, now')
                   \/ /\ CounterDelay(st, now)
                      /\ now' >= st.begin_time + counter_delay_secs
<1>1. AuctionInv /\ [Next]_vars => [Kept]_vars
    <2> SUFFICES ASSUME AuctionInv, Next, NEW name \in Stored,
                        name_owner(name_states[name], now) # None,
                        name_owner(name_states[name], now)'
                          # name_owner(name_states[name], now)
                 PROVE  LostFairly(name_owner(name_states[name], now), name,
                                   name_states[name], now')
        BY DEF LostFairly
    <2> DEFINE st == name_states[name]
    <2>1. name_owner(name_states[name], now)' = name_owner(name_states'[name], now')
        BY DEF name_owner, CounterDelay, Settled, Expired, DepositUsedUp,
               seconds_spent_since_bid
    <2>2. CASE Tick
        <3>1. name_states'[name] = st
            BY <2>2 DEF Tick
        <3> QED BY <2>1, <2>2, <3>1, TickKeepsHolder DEF LostFairly
    <2>3. ASSUME NEW sender \in Addrs, NEW other \in Names, Transaction(sender, other)
          PROVE  LostFairly(name_owner(st, now), name, st, now')
        <3>1. now' = now
            BY <2>3, TransactionTakesNoTime
        <3>2. CASE other = name
            BY <2>1, <2>3, <3>1, <3>2, TransactionKeepsHolder DEF LostFairly
        <3>3. CASE other # name
            <4>1. name_states'[name] = st
                BY <2>3, <3>3, OtherRecordsStay DEF Stored
            <4> QED BY <2>1, <3>1, <4>1
        <3> QED BY <3>2, <3>3
    <2> QED BY <2>2, <2>3 DEF Next
<1> QED BY <1>1, AuctionInvariance, PTL DEF Spec, OwnerKeepsName

----------------------------------------------------------------------------
(* The times that clients are told.                                        *)

\* The end times a query reports are the times at which the handlers change
\* their mind.
THEOREM ReportedTimesStayRight == Spec => []ReportedTimesAgree
<1>1. AuctionInv => ReportedTimesAgree
    <2> SUFFICES ASSUME AuctionInv, NEW name \in Stored
                 PROVE  LET st       == name_states[name]
                            response == create_name_state_response(st, now)
                        IN  /\ Expired(st, now)
                                 <=> st.rate # 0 /\ now >= response.expire_time
                            /\ ~Expired(st, now) =>
                                 /\ CounterDelay(st, now) <=> now < response.counter_delay_end
                                 /\ TransitionDelay(st, now)
                                      <=> /\ now >= response.counter_delay_end
                                          /\ now < response.transition_delay_end
                                 /\ ClosedForBids(st, now)
                                      <=> /\ now >= response.counter_delay_end
                                          /\ now < response.bid_delay_end
        BY DEF ReportedTimesAgree
    <2> DEFINE st == name_states[name]
               response == create_name_state_response(st, now)
    <2>1. /\ now \in Nat /\ now <= MaxTime /\ WellFormed(st, now) /\ InOrder(st, now)
          /\ Expired(st, now) <=> DepositUsedUp(st, now)
          /\ st \in NameState
        BY StoredRecord
    <2>2. /\ st.rate \in Nat /\ st.begin_time \in Nat /\ st.begin_time <= now /\ now \in Nat
          /\ st.transition_reference_time \in Nat
          /\ counter_delay_secs \in Nat /\ transition_delay_secs \in Nat
          /\ bid_delay_secs \in Nat
          /\ now >= counter_delay_secs + transition_delay_secs
        BY <2>1, StoredRecord, ConfigTypes, AuctionAssumption DEF NameState, InOrder
    <2>3. st.rate # 0 => max_seconds(st) \in Nat
        BY <2>1, LeaseLength
    <2>4. /\ response.expire_time = IF st.rate = 0 THEN None ELSE expire_time(st)
          /\ response.counter_delay_end = counter_delay_end(st)
          /\ response.transition_delay_end = transition_delay_end(st)
          /\ response.bid_delay_end = bid_delay_end(st)
        BY DEF create_name_state_response
    <2> HIDE DEF st, response
    <2>5. Expired(st, now) <=> st.rate # 0 /\ now >= response.expire_time
        BY <2>1, <2>2, <2>3, <2>4 DEF DepositUsedUp, expire_time, seconds_spent_since_bid
    <2>6. ASSUME ~Expired(st, now)
          PROVE  /\ CounterDelay(st, now) <=> now < response.counter_delay_end
                 /\ TransitionDelay(st, now)
                      <=> /\ now >= response.counter_delay_end
                          /\ now < response.transition_delay_end
                 /\ ClosedForBids(st, now)
                      <=> /\ now >= response.counter_delay_end
                          /\ now < response.bid_delay_end
        <3> DEFINE passed == now - st.begin_time
        <3>1. /\ passed \in Nat /\ passed = seconds_spent_since_bid(st, now)
              /\ now = st.begin_time + passed
            BY <2>2 DEF seconds_spent_since_bid
        <3> HIDE DEF passed
        <3>2. /\ now < response.counter_delay_end <=> passed < counter_delay_secs
              /\ now >= response.counter_delay_end <=> passed >= counter_delay_secs
            BY <2>2, <2>4, <3>1 DEF counter_delay_end
        <3>3. CounterDelay(st, now) <=> now < response.counter_delay_end
            BY <2>6, <3>1, <3>2 DEF CounterDelay
        <3>4. ClosedForBids(st, now)
                <=> /\ now >= response.counter_delay_end
                    /\ now < response.bid_delay_end
            BY <2>2, <2>4, <3>1, <3>2 DEF ClosedForBids, bid_delay_end
        <3>5. now - st.transition_reference_time < counter_delay_secs + transition_delay_secs
                <=> now < response.transition_delay_end
            BY <2>2, <2>4 DEF transition_delay_end
        <3>6. TransitionDelay(st, now)
                <=> /\ now >= response.counter_delay_end
                    /\ now < response.transition_delay_end
            BY <2>6, <3>1, <3>2, <3>5 DEF TransitionDelay, Settled
        <3> QED BY <3>3, <3>4, <3>6
    <2> QED BY <2>5, <2>6 DEF st, response
<1> QED BY <1>1, AuctionInvariance, PTL

----------------------------------------------------------------------------
(* What the auction charges: begin_deposit, into which the contract folds  *)
(* every payment and every rent, follows the exact account that the ledger *)
(* keeps from below, by less than one unit for each change of the rate.    *)
(* The ledger belongs to this part alone: no other theorem looks at it.    *)

\* What begin_deposit stands for, in RATE_SEC_DENOM-ths.
carried(entry) == entry.paid * RATE_SEC_DENOM - entry.accrued

Matches(st, entry) ==
    /\ st.begin_deposit * RATE_SEC_DENOM <= carried(entry)
    /\ carried(entry)
         <= st.begin_deposit * RATE_SEC_DENOM + rounding_loss(entry.rate_changes)

Entry == [paid : Nat, accrued : Nat, rate_changes : Nat]

LedgerInv ==
    /\ ledger \in [Names -> Entry]
    /\ \A name \in Stored : Matches(name_states[name], ledger[name])

----------------------------------------------------------------------------
(* The arithmetic of one record and its entry.                             *)

LEMMA LossInNat ==
    ASSUME NEW n \in Nat
    PROVE  /\ rounding_loss(n) \in Nat
           /\ rounding_loss(n + 1) = rounding_loss(n) + (RATE_SEC_DENOM - 1)
           /\ RATE_SEC_DENOM - 1 \in Nat
<1> DEFINE c == RATE_SEC_DENOM - 1
<1>1. c \in Nat
    BY ConfigTypes
<1> HIDE DEF c
<1>2. n * c \in Nat /\ (n + 1) * c = n * c + c
    BY <1>1, ProductInNat
<1> QED BY <1>1, <1>2 DEF rounding_loss, c

\* The charge for some seconds, against the exact rent of them.
LEMMA CeilBounds ==
    ASSUME NEW s \in Nat, NEW r \in Nat
    PROVE  LET charge == deposit_from_seconds_ceil(s, r)
           IN  /\ charge \in Nat
               /\ s * r <= charge * RATE_SEC_DENOM
               /\ charge * RATE_SEC_DENOM <= s * r + (RATE_SEC_DENOM - 1)
<1> DEFINE charge == deposit_from_seconds_ceil(s, r)
           D == RATE_SEC_DENOM
           rent == s * r
<1>1. rent \in Nat /\ D \in Nat \ {0}
    BY ConfigTypes, ProductInNat
<1>2. charge \in Nat /\ rent <= charge * D
    <2>1. charge \in Nat
        BY CeilAdjunction
    <2> HIDE DEF charge
    <2> QED BY <2>1, CeilAdjunction DEF charge
<1>3. charge * D <= rent + (D - 1)
    <2>1. CASE charge = 0
        <3> HIDE DEF charge, rent
        <3> QED BY <1>1, <2>1
    <2>2. CASE charge # 0
        <3> DEFINE less == charge - 1
        <3>1. less \in Nat /\ ~(charge <= less) /\ charge = less + 1
            BY <1>2, <2>2
        <3>2. ~(rent <= less * D)
            BY <3>1, CeilAdjunction
        <3> HIDE DEF less, rent, D, charge
        <3>3. less * D \in Nat /\ (less + 1) * D = less * D + D
            BY <1>1, <3>1, ProductInNat
        <3>4. charge * D = less * D + D
            BY <3>1, <3>3
        <3> QED BY <1>1, <3>2, <3>3, <3>4
    <2> QED BY <2>1, <2>2
<1> QED BY <1>2, <1>3

\* What the contract has left of a deposit, against the deposit less the rent.
LEMMA LeftAgainstRent ==
    ASSUME NEW st, NEW t \in Nat, t <= MaxTime, WellFormed(st, t), ~Expired(st, t)
    PROVE  LET left == deposit_left(st, t) * RATE_SEC_DENOM
               rent == st.rate * seconds_spent_since_bid(st, t)
               whole == st.begin_deposit * RATE_SEC_DENOM
           IN  /\ left \in Nat /\ rent \in Nat /\ whole \in Nat
               /\ left + rent <= whole
               /\ whole <= left + rent + (RATE_SEC_DENOM - 1)
<1> DEFINE D == RATE_SEC_DENOM
           s == seconds_spent_since_bid(st, t)
           spent == deposit_spent(st, t)
           left == deposit_left(st, t)
           rent == st.rate * s
<1>1. /\ s \in Nat /\ st.rate \in Nat /\ st.begin_deposit \in Nat
      /\ D \in Nat \ {0} /\ ~DepositUsedUp(st, t)
    BY ConfigTypes DEF WellFormed, NameState, InOrder, seconds_spent_since_bid, Expired
<1>2. rent \in Nat /\ s * st.rate = rent
    BY <1>1, ProductInNat
<1>3. /\ spent \in Nat /\ s * st.rate <= spent * D
      /\ spent * D <= s * st.rate + (D - 1)
    BY <1>1, CeilBounds DEF deposit_spent
<1>4. spent <= st.begin_deposit
    BY <1>1, RentCovered
<1>5. left \in Nat /\ st.begin_deposit = left + spent
    BY <1>1, <1>3, <1>4 DEF deposit_left, saturating_sub
<1> HIDE DEF s, spent, left, rent, D
<1>6. /\ left * D \in Nat /\ spent * D \in Nat
      /\ (left + spent) * D = left * D + spent * D
    BY <1>1, <1>3, <1>5, ProductInNat
<1>7. st.begin_deposit * D = left * D + spent * D
    BY <1>5, <1>6
<1>8. /\ left * D \in Nat /\ rent \in Nat /\ st.begin_deposit * D \in Nat
      /\ left * D + rent <= st.begin_deposit * D
      /\ st.begin_deposit * D <= left * D + rent + (D - 1)
    BY <1>1, <1>2, <1>3, <1>6, <1>7
<1> QED BY <1>8 DEF left, D, rent, s

\* A lease whose deposit is used up has less than one second's rent left.
LEMMA UsedUpAgainstRent ==
    ASSUME NEW st, NEW t \in Nat, t <= MaxTime, WellFormed(st, t), DepositUsedUp(st, t)
    PROVE  st.begin_deposit * RATE_SEC_DENOM
             < st.rate * seconds_spent_since_bid(st, t) + st.rate
<1> DEFINE D == RATE_SEC_DENOM
           s == seconds_spent_since_bid(st, t)
           m == max_seconds(st)
           r == st.rate
           whole == st.begin_deposit * D
<1>1. /\ s \in Nat /\ r \in Nat /\ st.begin_deposit \in Nat /\ r # 0 /\ s >= m
      /\ D \in Nat
    BY ConfigTypes
    DEF WellFormed, NameState, InOrder, seconds_spent_since_bid, DepositUsedUp
<1>2. m \in Nat /\ whole \in Nat
    BY <1>1, LeaseLength, ProductInNat
<1>3. ~((m + 1) * r <= whole)
    <2>1. m + 1 \in Nat /\ ~(m + 1 <= m)
        BY <1>2
    <2> QED BY <1>1, <2>1, LeaseLength
<1> HIDE DEF s, m, r, whole, D
<1>4. (m + 1) * r <= (s + 1) * r
    BY <1>1, <1>2, ProductMonotone
<1>5. (s + 1) * r = r * s + r /\ (m + 1) * r \in Nat /\ r * s \in Nat
    BY <1>1, <1>2, ProductInNat
<1>6. whole < r * s + r
    BY <1>1, <1>2, <1>3, <1>4, <1>5
<1> QED BY <1>6 DEF whole, D, r, s

----------------------------------------------------------------------------
(* Every step keeps record and entry together.                             *)

\* Storing a record and an entry that match.
LEMMA StoreKeepsLedger ==
    ASSUME AuctionInv, LedgerInv, NEW name \in Names, NEW new, Store(name, new),
           NEW entry \in Entry, ledger' = [ledger EXCEPT ![name] = entry],
           Matches(new, entry)
    PROVE  LedgerInv'
<1>1. /\ ledger' \in [Names -> Entry] /\ ledger'[name] = entry
      /\ \A other \in Names \ {name} : ledger'[other] = ledger[other]
    BY DEF LedgerInv
<1>2. /\ name_states'[name] = new
      /\ \A other \in Names \ {name} : name_states'[other] = name_states[other]
    BY DEF AuctionInv, TypeOK, Store
<1>3. ASSUME NEW other \in Stored'
      PROVE  Matches(name_states'[other], ledger'[other])
    <2>1. CASE other = name
        BY <1>1, <1>2, <2>1
    <2>2. CASE other # name
        <3>1. other \in Names /\ other \in Stored
            BY <1>2, <1>3, <2>2 DEF Stored
        <3> QED BY <1>1, <1>2, <2>2, <3>1 DEF LedgerInv
    <2> QED BY <2>1, <2>2
<1>4. (\A other \in Stored : Matches(name_states[other], ledger[other]))'
    BY <1>3 DEF Matches, carried, rounding_loss
<1> QED BY <1>1, <1>4 DEF LedgerInv

LEMMA BidKeepsLedger ==
    ASSUME AuctionInv, LedgerInv, NEW sender \in Addrs, NEW name \in Names,
           NEW rate \in Rates, NEW deposit \in Deposits,
           LedgerBid(sender, name, rate, deposit)
    PROVE  LedgerInv'
<1> DEFINE entry == OpeningEntry(deposit)
<1>1. BidName(sender, name, rate, deposit) /\ ledger' = [ledger EXCEPT ![name] = entry]
    BY DEF LedgerBid
<1>2. PICK new \in NameState : Store(name, new) /\ new.begin_deposit = deposit
    BY <1>1, BidExistingRecord, BidNewRecord DEF BidName
<1>3. deposit \in Nat /\ deposit * RATE_SEC_DENOM \in Nat /\ rounding_loss(0) = 0
    BY ConfigTypes, AuctionAssumption, ProductInNat DEF rounding_loss
<1>4. /\ entry \in Entry /\ entry.paid = deposit /\ entry.accrued = 0
      /\ entry.rate_changes = 0
    BY <1>3 DEF OpeningEntry, Entry
<1> HIDE DEF entry
<1>5. Matches(new, entry)
    BY <1>2, <1>3, <1>4 DEF Matches, carried
<1> QED BY <1>1, <1>2, <1>4, <1>5, StoreKeepsLedger

LEMMA FundKeepsLedger ==
    ASSUME AuctionInv, LedgerInv, NEW name \in Names, NEW owner \in Addrs,
           NEW deposit \in Deposits, LedgerFund(name, owner, deposit)
    PROVE  LedgerInv'
<1> DEFINE st == name_states[name]
           old == ledger[name]
           entry == [old EXCEPT !.paid = @ + deposit]
           D == RATE_SEC_DENOM
<1>1. FundName(name, owner, deposit) /\ ledger' = [ledger EXCEPT ![name] = entry]
    BY DEF LedgerFund
<1>2. /\ name \in Stored
      /\ \E new \in NameState :
           Store(name, new) /\ new.begin_deposit = st.begin_deposit + deposit
    BY <1>1, FundRecord
<1>3. PICK new \in NameState :
        Store(name, new) /\ new.begin_deposit = st.begin_deposit + deposit
    BY <1>2
<1>4. /\ old \in Entry /\ Matches(st, old) /\ deposit \in Nat /\ st.begin_deposit \in Nat
      /\ D \in Nat
    BY <1>2, StoredRecord, ConfigTypes, AuctionAssumption DEF LedgerInv, NameState
<1> HIDE DEF st, old, D
<1>5. /\ entry \in Entry /\ entry.paid = old.paid + deposit
      /\ entry.accrued = old.accrued /\ entry.rate_changes = old.rate_changes
      /\ old.paid \in Nat /\ old.accrued \in Nat /\ old.rate_changes \in Nat
    BY <1>4 DEF Entry
<1> HIDE DEF entry
<1>6. /\ (old.paid + deposit) * D = old.paid * D + deposit * D
      /\ (st.begin_deposit + deposit) * D = st.begin_deposit * D + deposit * D
      /\ old.paid * D \in Nat /\ deposit * D \in Nat /\ st.begin_deposit * D \in Nat
      /\ rounding_loss(old.rate_changes) \in Nat
    BY <1>4, <1>5, ProductInNat, LossInNat
<1>7. Matches(new, entry)
    BY <1>3, <1>4, <1>5, <1>6 DEF Matches, carried, D
<1> QED BY <1>1, <1>3, <1>5, <1>7, StoreKeepsLedger DEF entry, old

LEMMA SetRateKeepsLedger ==
    ASSUME AuctionInv, LedgerInv, NEW sender \in Addrs, NEW name \in Names,
           NEW rate \in Rates, LedgerSetRate(sender, name, rate)
    PROVE  LedgerInv'
<1> DEFINE st == name_states[name]
           old == ledger[name]
           D == RATE_SEC_DENOM
           rent == st.rate * seconds_spent_since_bid(st, now)
           entry == [old EXCEPT !.accrued = @ + rent, !.rate_changes = @ + 1]
<1>1. SetNameRate(sender, name, rate) /\ ledger' = [ledger EXCEPT ![name] = entry]
    BY DEF LedgerSetRate
<1>2. /\ name \in Stored /\ ~Expired(st, now)
      /\ \E new \in NameState :
           Store(name, new) /\ new.begin_deposit = deposit_left(st, now)
    BY <1>1, SetRateRecord DEF Settled
<1>3. PICK new \in NameState :
        Store(name, new) /\ new.begin_deposit = deposit_left(st, now)
    BY <1>2
<1>4. /\ old \in Entry /\ Matches(st, old) /\ D \in Nat
      /\ now \in Nat /\ now <= MaxTime /\ WellFormed(st, now)
    BY <1>2, StoredRecord, ConfigTypes DEF LedgerInv
<1>5. /\ new.begin_deposit * D \in Nat /\ rent \in Nat /\ st.begin_deposit * D \in Nat
      /\ new.begin_deposit * D + rent <= st.begin_deposit * D
      /\ st.begin_deposit * D <= new.begin_deposit * D + rent + (D - 1)
    BY <1>2, <1>3, <1>4, LeftAgainstRent
<1> HIDE DEF st, old, rent, D
<1>6. /\ entry \in Entry /\ entry.paid = old.paid
      /\ entry.accrued = old.accrued + rent /\ entry.rate_changes = old.rate_changes + 1
      /\ old.paid \in Nat /\ old.accrued \in Nat /\ old.rate_changes \in Nat
    <2>1. old.paid \in Nat /\ old.accrued \in Nat /\ old.rate_changes \in Nat
        BY <1>4 DEF Entry
    <2> DEFINE sum == old.accrued + rent
               next == old.rate_changes + 1
    <2>2. sum \in Nat /\ next \in Nat /\ rent \in Nat
        BY <1>5, <2>1
    <2>3. entry = [old EXCEPT !.accrued = sum, !.rate_changes = next]
        OBVIOUS
    <2>4. sum = old.accrued + rent /\ next = old.rate_changes + 1
        OBVIOUS
    <2> HIDE DEF sum, next, entry
    <2>5. /\ entry \in Entry /\ entry.paid = old.paid
          /\ entry.accrued = sum /\ entry.rate_changes = next
        BY <1>4, <2>2, <2>3 DEF Entry
    <2> QED BY <2>1, <2>4, <2>5
<1> HIDE DEF entry
<1>7. /\ old.paid * D \in Nat
      /\ rounding_loss(old.rate_changes) \in Nat
      /\ rounding_loss(old.rate_changes + 1) = rounding_loss(old.rate_changes) + (D - 1)
    BY <1>4, <1>6, ProductInNat, LossInNat DEF D
<1>8. Matches(new, entry)
    BY <1>4, <1>5, <1>6, <1>7 DEF Matches, carried, D
<1> QED BY <1>1, <1>3, <1>6, <1>8, StoreKeepsLedger DEF entry, old

LEMMA OtherKeepsLedger ==
    ASSUME AuctionInv, LedgerInv, LedgerOther
    PROVE  LedgerInv'
<1>1. CASE Tick
    BY <1>1 DEF LedgerOther, Tick, LedgerInv, Stored, Matches, carried
<1>2. ASSUME NEW sender \in Addrs, NEW name \in Names, NEW to \in Addrs,
             TransferNameOwner(sender, name, to) \/ SetNameController(sender, name, to)
      PROVE  LedgerInv'
    <2> DEFINE entry == ledger[name]
    <2>1. name \in Stored
        BY <1>2 DEF TransferNameOwner, SetNameController
    <2>2. PICK new \in NameState :
            Store(name, new) /\ new.begin_deposit = name_states[name].begin_deposit
        BY <1>2, <2>1, RenamedRecord DEF TransferNameOwner, SetNameController, SameTerms
    <2>3. entry \in Entry /\ Matches(name_states[name], entry)
        BY <2>1 DEF LedgerInv
    <2>4. ledger' = [ledger EXCEPT ![name] = entry]
        BY DEF LedgerOther, LedgerInv
    <2>5. Matches(new, entry)
        BY <2>2, <2>3 DEF Matches
    <2> HIDE DEF entry
    <2> QED BY <2>2, <2>3, <2>4, <2>5, StoreKeepsLedger
<1> QED BY <1>1, <1>2 DEF LedgerOther

LEMMA InitLedgerInv == LedgerInit => AuctionInv /\ LedgerInv
<1> SUFFICES ASSUME LedgerInit PROVE AuctionInv /\ LedgerInv
    OBVIOUS
<1>1. AuctionInv
    BY InitEstablishesInv DEF LedgerInit
<1>2. ledger \in [Names -> Entry] /\ Stored = {}
    BY DEF LedgerInit, Init, Stored, OpeningEntry, Entry
<1> QED BY <1>1, <1>2 DEF LedgerInv

\* The ledger only watches: every step of it is one of the auction.
LEMMA LedgerWatches == [LedgerNext]_ledger_vars => [Next]_vars
<1> SUFFICES ASSUME LedgerNext PROVE Next
    BY DEF ledger_vars
<1>1. CASE LedgerOther
    BY <1>1 DEF LedgerOther, Next, Transaction
<1>2. ASSUME NEW sender \in Addrs, NEW name \in Names,
             \/ \E rate \in Rates, deposit \in Deposits :
                  LedgerBid(sender, name, rate, deposit)
             \/ \E owner \in Addrs, deposit \in Deposits : LedgerFund(name, owner, deposit)
             \/ \E rate \in Rates : LedgerSetRate(sender, name, rate)
      PROVE  Transaction(sender, name)
    BY <1>2 DEF Transaction, LedgerBid, LedgerFund, LedgerSetRate
<1> QED BY <1>1, <1>2 DEF LedgerNext, Next

LEMMA LedgerStep == AuctionInv /\ LedgerInv /\ [LedgerNext]_ledger_vars => LedgerInv'
<1> SUFFICES ASSUME AuctionInv, LedgerInv, [LedgerNext]_ledger_vars PROVE LedgerInv'
    OBVIOUS
<1>1. CASE UNCHANGED ledger_vars
    BY <1>1 DEF ledger_vars, vars, LedgerInv, Stored, Matches, carried
<1>2. CASE LedgerOther
    BY <1>2, OtherKeepsLedger
<1>3. ASSUME NEW sender \in Addrs, NEW name \in Names,
             \/ \E rate \in Rates, deposit \in Deposits :
                  LedgerBid(sender, name, rate, deposit)
             \/ \E owner \in Addrs, deposit \in Deposits : LedgerFund(name, owner, deposit)
             \/ \E rate \in Rates : LedgerSetRate(sender, name, rate)
      PROVE  LedgerInv'
    BY <1>3, BidKeepsLedger, FundKeepsLedger, SetRateKeepsLedger
<1> QED BY <1>1, <1>2, <1>3 DEF LedgerNext

LEMMA LedgerInvariance == LedgerSpec => [](AuctionInv /\ LedgerInv)
    BY InitLedgerInv, LedgerWatches, LedgerStep, StepKeepsInv, PTL DEF LedgerSpec

----------------------------------------------------------------------------
(* What the auction charges.                                               *)

\* The exact deposit left of a live lease, against what the contract refunds.
LEMMA ChargesFollowRent ==
    ASSUME AuctionInv, LedgerInv, NEW name \in Stored, ~Expired(name_states[name], now)
    PROVE  LET left == deposit_left(name_states[name], now) * RATE_SEC_DENOM
           IN  /\ left <= exact_deposit_left(name)
               /\ exact_deposit_left(name) - left
                    <= rounding_loss(ledger[name].rate_changes + 1)
<1> DEFINE st == name_states[name]
           entry == ledger[name]
           left == deposit_left(st, now) * RATE_SEC_DENOM
           rent == st.rate * seconds_spent_since_bid(st, now)
           whole == st.begin_deposit * RATE_SEC_DENOM
           loss == rounding_loss(entry.rate_changes)
           e == carried(entry)
<1>1. /\ now \in Nat /\ now <= MaxTime /\ WellFormed(st, now)
      /\ entry \in Entry /\ Matches(st, entry)
    BY StoredRecord DEF LedgerInv, Stored
<1>2. /\ left \in Nat /\ rent \in Nat /\ whole \in Nat
      /\ left + rent <= whole /\ whole <= left + rent + (RATE_SEC_DENOM - 1)
    BY <1>1, LeftAgainstRent
<1>3. /\ loss \in Nat /\ RATE_SEC_DENOM - 1 \in Nat
      /\ rounding_loss(entry.rate_changes + 1) = loss + (RATE_SEC_DENOM - 1)
    BY <1>1, LossInNat DEF Entry
<1>4. e \in Int
    BY <1>1, ConfigTypes DEF carried, Entry
<1>5. whole <= e /\ e <= whole + loss
    BY <1>1 DEF Matches
<1>6. exact_deposit_left(name) = e - rent
    BY DEF exact_deposit_left, carried
<1> HIDE DEF st, entry, left, rent, whole, loss, e
<1>7. /\ left <= e - rent
      /\ (e - rent) - left <= loss + (RATE_SEC_DENOM - 1)
    BY <1>2, <1>3, <1>4, <1>5
<1> QED BY <1>3, <1>6, <1>7 DEF left, st, entry

\* A refund never gives back rent that has accrued, however often the rate was
\* changed and the deposit added to.
THEOREM RefundsNeverTooLarge == LedgerSpec => []NeverUndercharged
<1>1. AuctionInv /\ LedgerInv => NeverUndercharged
    BY ChargesFollowRent DEF NeverUndercharged
<1> QED BY <1>1, LedgerInvariance, PTL

\* A refund is short by less than one unit for each change of the rate, and one
\* for the refund itself.
THEOREM RefundsNearlyExact == LedgerSpec => []OverchargeBounded
<1>1. AuctionInv /\ LedgerInv => OverchargeBounded
    BY ChargesFollowRent DEF OverchargeBounded
<1> QED BY <1>1, LedgerInvariance, PTL

\* A lease does not lapse before it is paid up, but for one second's rent and
\* the rounding of the rate changes.
THEOREM LeasesLapsePaidUp == LedgerSpec => []LapsesOnlyWhenPaidUp
<1>1. AuctionInv /\ LedgerInv => LapsesOnlyWhenPaidUp
    <2> SUFFICES ASSUME AuctionInv, LedgerInv, NEW name \in Stored,
                        DepositUsedUp(name_states[name], now)
                 PROVE  exact_deposit_left(name)
                          < name_states[name].rate + rounding_loss(ledger[name].rate_changes)
        BY DEF LapsesOnlyWhenPaidUp
    <2> DEFINE st == name_states[name]
               entry == ledger[name]
               rent == st.rate * seconds_spent_since_bid(st, now)
               whole == st.begin_deposit * RATE_SEC_DENOM
               loss == rounding_loss(entry.rate_changes)
               e == carried(entry)
    <2>1. /\ now \in Nat /\ now <= MaxTime /\ WellFormed(st, now)
          /\ entry \in Entry /\ Matches(st, entry)
        BY StoredRecord DEF LedgerInv, Stored
    <2>2. whole < rent + st.rate
        BY <2>1, UsedUpAgainstRent
    <2>3. /\ seconds_spent_since_bid(st, now) \in Nat /\ st.rate \in Nat
          /\ st.begin_deposit \in Nat
        BY <2>1 DEF WellFormed, NameState, InOrder, seconds_spent_since_bid
    <2>4. rent \in Nat /\ whole \in Nat /\ loss \in Nat
        BY <2>1, <2>3, ConfigTypes, ProductInNat, LossInNat DEF Entry
    <2>5. e \in Int
        BY <2>1, ConfigTypes DEF carried, Entry
    <2>6. e <= whole + loss
        BY <2>1 DEF Matches
    <2>7. exact_deposit_left(name) = e - rent
        BY DEF exact_deposit_left, carried
    <2> HIDE DEF rent, whole, loss, e
    <2>8. e - rent < st.rate + loss
        BY <2>2, <2>3, <2>4, <2>5, <2>6
    <2> QED BY <2>7, <2>8 DEF loss
<1> QED BY <1>1, LedgerInvariance, PTL

----------------------------------------------------------------------------
(* The system implements the resolver's specification, and that the        *)
(* auction's.                                                              *)

LEMMA SystemStep == SystemNext => ResolverNext \/ UNCHANGED resolver_vars
<1> SUFFICES ASSUME SystemNext PROVE ResolverNext \/ UNCHANGED resolver_vars
    OBVIOUS
<1>1. ASSUME NEW sender \in Addrs, NEW name \in Names,
             AuctionCall(sender, name), UNCHANGED name_values
      PROVE  ResolverNext
    <2>1. Transaction(sender, name)
        BY <1>1 DEF AuctionCall, SystemBid, SystemFund, UnpaidCall, Transaction
    <2> QED BY <1>1, <2>1 DEF ResolverNext, Next
<1> QED BY <1>1 DEF SystemNext, ResolverNext, Next

\* Every behaviour of the system is one of the auction with the resolver beside
\* it: the delivery of messages only restricts what the auction does.
THEOREM SystemImplementsResolver == SystemSpec => ResolverSpec
<1>1. SystemInit => ResolverInit
    BY DEF SystemInit
<1>2. [SystemNext]_system_vars => [ResolverNext]_resolver_vars
    BY SystemStep DEF system_vars
<1> QED BY <1>1, <1>2, PTL DEF SystemSpec, ResolverSpec

\* The resolver reads the auction and never changes it.
THEOREM ResolverImplementsAuction == ResolverSpec => Spec
<1>1. ResolverInit => Init
    BY DEF ResolverInit
<1>2. [ResolverNext]_resolver_vars => [Next]_vars
    BY DEF ResolverNext, SetNameValue, resolver_vars
<1> QED BY <1>1, <1>2, PTL DEF ResolverSpec, Spec

----------------------------------------------------------------------------
(* The resolver.                                                           *)

\* The controller the auction reports controls a name that somebody holds, as
\* long as the reported time has not come.
LEMMA MaySetMeansHeld ==
    ASSUME AuctionInv, NoEarlyController, NEW sender \in Addrs, NEW name \in Stored,
           may_set_value(sender, name)
    PROVE  name_owner(name_states[name], now) # None
<1> DEFINE st == name_states[name]
<1>1. /\ now \in Nat /\ now <= MaxTime /\ WellFormed(st, now) /\ InOrder(st, now)
      /\ st \in NameState /\ st.begin_time \in Nat /\ st.owner # None
    BY StoredRecord, AuctionAssumption DEF NameState
<1>2. st.controller = sender /\ sender # None
    BY AuctionAssumption DEF may_set_value, create_name_state_response
<1>3. st.rate = 0 \/ (expire_time(st) # None => now < expire_time(st))
    BY DEF may_set_value, create_name_state_response
<1> HIDE DEF st
<1>4. ~DepositUsedUp(st, now)
    <2>1. CASE st.rate = 0
        BY <2>1 DEF DepositUsedUp
    <2>2. CASE st.rate # 0
        <3>1. max_seconds(st) \in Nat
            BY <1>1, <2>2, LeaseLength
        <3>2. expire_time(st) \in Nat /\ expire_time(st) = st.begin_time + max_seconds(st)
            BY <1>1, <3>1 DEF expire_time
        <3>3. now < st.begin_time + max_seconds(st)
            BY <1>3, <2>2, <3>2, AuctionAssumption
        <3> QED BY <1>1, <3>1, <3>3 DEF DepositUsedUp, seconds_spent_since_bid
    <2> QED BY <2>1, <2>2
<1>5. ~Expired(st, now)
    BY <1>1, <1>4, ExpiredOnlyByDeposit
<1>6. name_owner(st, now) = HolderOf(st, now)
    BY <1>1, <1>5, LiveHolder
<1>7. Uncontrolled(st, now)
    BY DEF NoEarlyController, st
<1> QED BY <1>1, <1>2, <1>6, <1>7 DEF HolderOf, Uncontrolled, st

LEMMA NoEarlyControllerInvariance == Spec => []NoEarlyController
<1>1. Init => NoEarlyController
    BY DEF Init, NoEarlyController, Stored
<1> QED BY <1>1, StepKeepsUncontrolled, AuctionInvariance, PTL DEF Spec

\* The value of a name is set only while somebody holds the name, for all
\* accounts, rates and delays.  It rests on the auction's invariant about the
\* controllers of fresh names: the resolver does not ask who holds the name.
THEOREM ValuesSetOnlyWhileHeld == ResolverSpec => ValueSetOnlyWhileHeld
<1> DEFINE Held ==
        \A name \in Names :
          name_values'[name] # name_values[name]
            => /\ name \in Stored
               /\ name_owner(name_states[name], now) # None
<1>1. AuctionInv /\ NoEarlyController /\ [ResolverNext]_resolver_vars => [Held]_resolver_vars
    <2> SUFFICES ASSUME AuctionInv, NoEarlyController, ResolverNext,
                        NEW name \in Names, name_values'[name] # name_values[name]
                 PROVE  name \in Stored /\ name_owner(name_states[name], now) # None
        OBVIOUS
    <2>1. PICK sender \in Addrs, other \in Names, value \in Values \union {None} :
            SetNameValue(sender, other, value)
        BY DEF ResolverNext
    <2>2. other = name
        BY <2>1 DEF SetNameValue
    <2>3. name \in Stored /\ may_set_value(sender, name)
        BY <2>1, <2>2 DEF SetNameValue, query_name_state_answers
    <2> QED BY <2>3, MaySetMeansHeld
<1>2. ResolverSpec => []AuctionInv /\ []NoEarlyController
    BY ResolverImplementsAuction, AuctionInvariance, NoEarlyControllerInvariance, PTL
<1> QED BY <1>1, <1>2, PTL DEF ResolverSpec, ValueSetOnlyWhileHeld

\* A name that somebody holds and that has a value resolves: the auction's query
\* never aborts for it.
THEOREM HeldNamesAlwaysResolve == ResolverSpec => []HeldNamesResolve
<1>1. AuctionInv => HeldNamesResolve
    <2> SUFFICES ASSUME AuctionInv, NEW name \in Stored,
                        name_owner(name_states[name], now) # None,
                        name_values[name] # NoValue
                 PROVE  query_resolve_answers(name)
        BY DEF HeldNamesResolve
    <2> DEFINE st == name_states[name]
    <2>1. /\ now \in Nat /\ now <= MaxTime /\ WellFormed(st, now) /\ ~DepositUsedUp(st, now)
          /\ st \in NameState
        BY StoredRecord DEF name_owner, CounterDelay, Settled
    <2>2. deposit_spent(st, now) \in Nat /\ deposit_spent(st, now) <= st.begin_deposit
        BY <2>1, RentCovered
    <2>3. ~current_deposit_aborts(st, now)
        BY <2>1, <2>2 DEF current_deposit_aborts, NameState
    <2> QED BY <2>3 DEF query_resolve_answers, query_name_state_answers,
                        create_name_state_response
<1> QED BY <1>1, ResolverImplementsAuction, AuctionInvariance, PTL

----------------------------------------------------------------------------
(* The money of the auction.                                               *)

\* The messages of a call that was sent a deposit share it out: nothing, all of
\* it to the collector, or a refund and the rest to the collector.
Shared(deposit, messages) ==
    \/ deposit = 0 /\ messages = <<>>
    \/ messages = Send(collector_addr, deposit)
    \/ \E to \in Addrs, left \in Nat, rest \in Nat :
         /\ deposit = left + rest
         /\ messages = Send(to, left) \o Send(collector_addr, rest)

LEMMA BidExistingShares ==
    ASSUME AuctionInv, NEW sender \in Addrs, NEW name \in Names,
           NEW rate \in Rates, NEW deposit \in Deposits,
           execute_bid_existing(sender, name, rate, deposit)
    PROVE  Shared(deposit, outbox')
<1> DEFINE st == name_states[name]
           left == deposit_left(st, now)
           rest == deposit - left
<1>1. /\ name \in Stored /\ deposit > left
      /\ outbox' = refund_deposit_msg(st.owner, left) \o Send(collector_addr, rest)
    BY DEF execute_bid_existing, Outbids
<1>2. now \in Nat /\ WellFormed(st, now) /\ deposit \in Nat /\ st.owner \in Addrs
    BY <1>1, StoredRecord, AuctionAssumption DEF NameState
<1>3. left \in Nat
    BY <1>2, DepositLeft
<1>4. rest \in Nat /\ deposit = left + rest
    <2> HIDE DEF left
    <2> QED BY <1>1, <1>2, <1>3
<1> HIDE DEF left, rest, st
<1>5. CASE left = 0
    <2>1. outbox' = Send(collector_addr, rest)
        BY <1>1, <1>5 DEF refund_deposit_msg, Send
    <2>2. deposit = rest
        BY <1>4, <1>5
    <2> QED BY <2>1, <2>2 DEF Shared
<1>6. CASE left # 0
    <2>1. outbox' = Send(st.owner, left) \o Send(collector_addr, rest)
        BY <1>1, <1>6 DEF refund_deposit_msg
    <2> QED BY <1>2, <1>3, <1>4, <2>1 DEF Shared
<1> QED BY <1>5, <1>6

LEMMA CallsShare ==
    ASSUME AuctionInv, NEW account \in Addrs, NEW name \in Names, NEW deposit \in Deposits
    PROVE  /\ \A rate \in Rates :
                BidName(account, name, rate, deposit) => Shared(deposit, outbox')
           /\ FundName(name, account, deposit) => Shared(deposit, outbox')
<1>1. ASSUME NEW rate \in Rates, execute_bid_new(account, name, rate, deposit)
      PROVE  Shared(deposit, outbox')
    BY <1>1 DEF execute_bid_new, Shared
<1>2. ASSUME FundName(name, account, deposit)
      PROVE  Shared(deposit, outbox')
    BY <1>2 DEF FundName, Shared
<1> QED BY <1>1, <1>2, BidExistingShares DEF BidName

\* What two messages, or one, cost, and which of them goes to the collector.
LEMMA OneMessage ==
    ASSUME NEW to, NEW amount \in Nat
    PROVE  LET messages == Send(to, amount)
           IN  /\ Len(messages) = 1
               /\ total_cost(messages) = transfer_cost(deduct_tax(amount))
               /\ to_collector(messages) = deduct_tax(amount)
<1>1. LET messages == Send(to, amount)
      IN  Len(messages) = 1 /\ messages[1].amount = deduct_tax(amount)
    BY DEF Send
<1>2. transfer_cost(deduct_tax(amount)) \in Nat
    BY CostInNat
<1> QED BY <1>1, <1>2 DEF total_cost, cost, to_collector

LEMMA TwoMessages ==
    ASSUME NEW to, NEW left \in Nat, NEW rest \in Nat
    PROVE  LET messages == Send(to, left) \o Send(collector_addr, rest)
           IN  /\ Len(messages) = 2
               /\ total_cost(messages)
                    = transfer_cost(deduct_tax(left)) + transfer_cost(deduct_tax(rest))
               /\ to_collector(messages) = deduct_tax(rest)
<1> DEFINE p == [to |-> to, amount |-> deduct_tax(left)]
           q == [to |-> collector_addr, amount |-> deduct_tax(rest)]
           S == {p, q}
<1>1. Send(to, left) = <<p>> /\ Send(collector_addr, rest) = <<q>>
    BY DEF Send
<1>2. p.amount = deduct_tax(left) /\ q.amount = deduct_tax(rest)
    OBVIOUS
<1> HIDE DEF p, q
<1>3. /\ <<p>> \in Seq(S) /\ <<q>> \in Seq(S)
      /\ Len(<<p>>) = 1 /\ Len(<<q>>) = 1 /\ <<p>>[1] = p /\ <<q>>[1] = q
    OBVIOUS
<1> HIDE DEF S
<1>4. LET messages == <<p>> \o <<q>>
      IN  Len(messages) = 2 /\ messages[1] = p /\ messages[2] = q
    BY <1>3
<1> QED BY <1>1, <1>2, <1>4 DEF total_cost, cost, to_collector

\* Messages that share a deposit out cost an amount that fits in it, and the last
\* of them carries to the collector what a deduction leaves of an amount.
LEMMA SharedFits ==
    ASSUME NEW deposit \in Nat, NEW messages, Shared(deposit, messages)
    PROVE  /\ total_cost(messages) \in Nat
           /\ total_cost(messages) <= deposit
           /\ messages # <<>> => \E amount \in Nat : to_collector(messages) = deduct_tax(amount)
<1>1. CASE deposit = 0 /\ messages = <<>>
    BY <1>1 DEF total_cost, cost
<1>2. CASE messages = Send(collector_addr, deposit)
    BY <1>2, OneMessage, DeductedTransferFits, CostInNat
<1>3. ASSUME NEW to \in Addrs, NEW left \in Nat, NEW rest \in Nat,
             deposit = left + rest,
             messages = Send(to, left) \o Send(collector_addr, rest)
      PROVE  /\ total_cost(messages) \in Nat
             /\ total_cost(messages) <= deposit
             /\ \E amount \in Nat : to_collector(messages) = deduct_tax(amount)
    <2> DEFINE c(amount) == transfer_cost(deduct_tax(amount))
    <2>1. /\ total_cost(messages) = c(left) + c(rest)
          /\ to_collector(messages) = deduct_tax(rest)
        BY <1>3, TwoMessages
    <2>2. c(left) \in Nat /\ c(rest) \in Nat /\ c(left) <= left /\ c(rest) <= rest
        BY DeductedTransferFits, CostInNat
    <2> HIDE DEF c
    <2> QED BY <1>3, <2>1, <2>2
<1> QED BY <1>1, <1>2, <1>3 DEF Shared

\* The messages of a call spend its deposit but for two units each.
Dusty(deposit, messages) ==
    /\ total_cost(messages) \in Nat
    /\ deposit - total_cost(messages) \in 0 .. 2 * Len(messages)

LEMMA SharedDusty ==
    ASSUME TaxRate <= DECIMAL_FRACTION, NEW deposit \in Nat, NEW messages,
           Shared(deposit, messages)
    PROVE  Dusty(deposit, messages)
<1>1. total_cost(messages) \in Nat /\ total_cost(messages) <= deposit
    BY SharedFits
<1>2. CASE deposit = 0 /\ messages = <<>>
    BY <1>2 DEF total_cost, cost, Dusty
<1>3. CASE messages = Send(collector_addr, deposit)
    <2>1. Len(messages) = 1 /\ deposit <= total_cost(messages) + 2
        BY <1>3, OneMessage, DeductedTransferNearlyExact
    <2>2. deposit - total_cost(messages) \in 0 .. 2 * Len(messages)
        BY <1>1, <2>1
    <2> QED BY <1>1, <2>2 DEF Dusty
<1>4. ASSUME NEW to \in Addrs, NEW left \in Nat, NEW rest \in Nat,
             deposit = left + rest,
             messages = Send(to, left) \o Send(collector_addr, rest)
      PROVE  Dusty(deposit, messages)
    <2> DEFINE c(amount) == transfer_cost(deduct_tax(amount))
    <2>1. Len(messages) = 2 /\ total_cost(messages) = c(left) + c(rest)
        BY <1>4, TwoMessages
    <2>2. /\ c(left) \in Nat /\ c(rest) \in Nat
          /\ left <= c(left) + 2 /\ rest <= c(rest) + 2
        BY DeductedTransferNearlyExact, CostInNat
    <2> HIDE DEF c
    <2>3. deposit - total_cost(messages) \in 0 .. 2 * Len(messages)
        BY <1>1, <1>4, <2>1, <2>2
    <2> QED BY <1>1, <2>3 DEF Dusty
<1> QED BY <1>2, <1>3, <1>4 DEF Shared

----------------------------------------------------------------------------
(* Calls that succeed.                                                     *)

\* The messages of a call cost at most what was sent with it.
PaidForByDeposit ==
    \A account \in Addrs, name \in Names, deposit \in Deposits :
        \/ \E rate \in Rates : BidName(account, name, rate, deposit)
        \/ FundName(name, account, deposit)
          => total_cost(outbox') <= deposit

\* Whatever was bid before, and for every tax rate and cap: every bid and every
\* funding that the auction alone accepts returns messages that cost at most
\* what was sent with it, so that it needs no money of the contract's own.
THEOREM CallsPayForTheirMessages == Spec => [][PaidForByDeposit]_vars
<1>1. AuctionInv => PaidForByDeposit
    <2> SUFFICES ASSUME AuctionInv, NEW account \in Addrs, NEW name \in Names,
                        NEW deposit \in Deposits,
                        \/ \E rate \in Rates : BidName(account, name, rate, deposit)
                        \/ FundName(name, account, deposit)
                 PROVE  total_cost(outbox') <= deposit
        BY DEF PaidForByDeposit
    <2>1. deposit \in Nat /\ Shared(deposit, outbox')
        BY CallsShare, AuctionAssumption
    <2> QED BY <2>1, SharedFits
<1> QED BY <1>1, AuctionInvariance, PTL

\* The conditions that Deliver and the collector's Deposit put on a call.
CanDeliver(deposit, messages) ==
    /\ NoneEmpty(messages)
    /\ total_cost(messages) <= auction_funds + deposit
    /\ messages # <<>> =>
         LET sent      == to_collector(messages)
             per_stake == Collector!deposit_per_stake(sent + collector_state.residual)
         IN  /\ collector_funds + sent <= MaxFunds
             /\ collector_state.multiplier + per_stake <= MaxMultiplier

\* What AcceptedCallsSucceed says, action by action: nothing but a message that
\* is taxed down to nothing and a collector without room keeps a call that the
\* auction accepts from succeeding.
THEOREM AcceptedCallsAreDelivered ==
    ASSUME AuctionInv, auction_funds \in Nat, NEW account \in Addrs, NEW name \in Names,
           NEW deposit \in Deposits,
           \/ \E rate \in Rates : BidName(account, name, rate, deposit)
           \/ FundName(name, account, deposit),
           Deliverable(outbox')
    PROVE  CanDeliver(deposit, outbox')
<1>1. deposit \in Nat /\ Shared(deposit, outbox')
    BY CallsShare, AuctionAssumption
<1>2. total_cost(outbox') \in Nat /\ total_cost(outbox') <= deposit
    BY <1>1, SharedFits
<1>3. total_cost(outbox') <= auction_funds + deposit
    BY <1>1, <1>2
<1> QED BY <1>3 DEF CanDeliver, Deliverable, CollectorHasRoom

LEMMA DeliveryKeepsFunds ==
    ASSUME AuctionInv, auction_funds \in Nat, SystemNext
    PROVE  auction_funds' \in Nat
<1>1. ASSUME NEW deposit \in Deposits, Shared(deposit, outbox'), Deliver(deposit, outbox')
      PROVE  auction_funds' \in Nat
    <2>1. deposit \in Nat /\ total_cost(outbox') \in Nat
        BY <1>1, SharedFits, AuctionAssumption
    <2> QED BY <1>1, <2>1 DEF Deliver
<1> QED BY <1>1, CallsShare
    DEF SystemNext, AuctionCall, SystemBid, SystemFund, UnpaidCall

\* The hypotheses of AcceptedCallsAreDelivered hold in every state of the system.
THEOREM SystemFundsInvariance == SystemSpec => [](AuctionInv /\ auction_funds \in Nat)
<1> DEFINE Funds == auction_funds \in Nat
<1>1. SystemInit => Funds
    BY DEF SystemInit
<1>2. AuctionInv /\ Funds /\ [SystemNext]_system_vars => Funds'
    BY DeliveryKeepsFunds DEF system_vars
<1>3. SystemSpec => []AuctionInv
    BY SystemImplementsResolver, ResolverImplementsAuction, AuctionInvariance, PTL
<1> QED BY <1>1, <1>2, <1>3, PTL DEF SystemSpec

----------------------------------------------------------------------------
(* What the auction keeps.                                                 *)

LEMMA StepKeepsDust ==
    ASSUME TaxRate <= DECIMAL_FRACTION, AuctionInv, auction_funds \in Nat, SystemNext
    PROVE  auction_funds' - auction_funds \in 0 .. 2 * Len(outbox')
<1>1. ASSUME NEW deposit \in Deposits, Shared(deposit, outbox'), Deliver(deposit, outbox')
      PROVE  auction_funds' - auction_funds \in 0 .. 2 * Len(outbox')
    <2>1. deposit \in Nat /\ Dusty(deposit, outbox')
        BY <1>1, SharedDusty, AuctionAssumption
    <2> QED BY <1>1, <2>1 DEF Deliver, Dusty
<1>2. CASE UNCHANGED auction_funds
    <2>1. outbox' \in Seq(Message)
        <3>1. [Next]_vars
            BY SystemStep DEF ResolverNext, SetNameValue, resolver_vars
        <3>2. AuctionInv'
            BY <3>1, StepKeepsInv
        <3> QED BY <3>2 DEF AuctionInv, TypeOK
    <2>2. Len(outbox') \in Nat
        BY <2>1
    <2> QED BY <1>2, <2>2
<1> QED BY <1>1, <1>2, CallsShare
    DEF SystemNext, AuctionCall, SystemBid, SystemFund, UnpaidCall

\* Whatever is bid and funded, the auction passes on what it is sent but for two
\* units a message, and its messages never cost more than came with the call:
\* for every tax rate up to the whole amount, and every cap.
THEOREM AuctionPassesMoneyOn ==
    ASSUME TaxRate <= DECIMAL_FRACTION
    PROVE  SystemSpec => AuctionKeepsOnlyDust
<1> DEFINE Dust == auction_funds' - auction_funds \in 0 .. 2 * Len(outbox')
           Inv == AuctionInv /\ auction_funds \in Nat
<1>1. Inv /\ [SystemNext]_system_vars => [Dust]_system_vars
    BY StepKeepsDust DEF system_vars
<1>2. SystemSpec => []Inv
    BY SystemFundsInvariance
<1> QED BY <1>1, <1>2, PTL DEF SystemSpec, AuctionKeepsOnlyDust

----------------------------------------------------------------------------
(* The collector.                                                          *)

\* The collector takes whatever amount the auction may send it, as from
\* anybody else.
DepositsOpen == \A amount \in Nat : deduct_tax(amount) \in DepositAmounts

LEMMA SystemStepsCollector ==
    ASSUME DepositsOpen, AuctionInv, SystemNext
    PROVE  Collector!Next \/ UNCHANGED <<now, collector_vars>>
<1>1. ASSUME NEW deposit \in Deposits, Shared(deposit, outbox'), Deliver(deposit, outbox'),
             UNCHANGED now
      PROVE  Collector!Call \/ UNCHANGED <<now, collector_vars>>
    <2>1. CASE outbox' = <<>>
        BY <1>1, <2>1 DEF Deliver
    <2>2. CASE outbox' # <<>>
        <3>1. deposit \in Nat /\ Collector!Deposit(to_collector(outbox'))
            BY <1>1, <2>2, AuctionAssumption DEF Deliver
        <3>2. to_collector(outbox') \in DepositAmounts
            BY <1>1, <2>2, <3>1, SharedFits DEF DepositsOpen
        <3> QED BY <3>1, <3>2 DEF Collector!Call
    <2> QED BY <2>1, <2>2
<1>2. ASSUME NEW sender \in Addrs, NEW name \in Names, AuctionCall(sender, name)
      PROVE  Collector!Call \/ UNCHANGED <<now, collector_vars>>
    <2>1. UNCHANGED now
        BY <1>2 DEF AuctionCall, SystemBid, SystemFund, UnpaidCall, BidName, FundName,
                    SetNameRate, TransferNameOwner, SetNameController
    <2> QED BY <1>1, <1>2, <2>1, CallsShare DEF AuctionCall, SystemBid, SystemFund, UnpaidCall
<1>3. CASE Tick /\ UNCHANGED collector_vars
    BY <1>3 DEF Tick, collector_vars, Collector!Next, Collector!Tick
<1>4. ASSUME NEW sender \in Addrs, NEW name \in Names, NEW value \in Values \union {None},
             SetNameValue(sender, name, value), UNCHANGED collector_vars
      PROVE  UNCHANGED <<now, collector_vars>>
    BY <1>4 DEF SetNameValue, vars
<1>5. CASE Collector!Call
    BY <1>5 DEF Collector!Next
<1> QED BY <1>2, <1>3, <1>4, <1>5 DEF SystemNext, Collector!Next

\* In the system the collector does what it does alone: the auction is one more
\* of those that deposit, so what is proved of the collector holds beside it.
THEOREM SystemImplementsCollector ==
    ASSUME DepositsOpen
    PROVE  SystemSpec => Collector!Spec
<1>1. SystemInit => Collector!Init
    BY DEF SystemInit
<1>2. AuctionInv /\ [SystemNext]_system_vars => [Collector!Next]_(Collector!vars)
    BY SystemStepsCollector
    DEF system_vars, resolver_vars, vars, collector_vars, Collector!vars
<1>3. SystemSpec => []AuctionInv
    BY SystemFundsInvariance, PTL
<1> QED BY <1>1, <1>2, <1>3, PTL DEF SystemSpec, Collector!Spec

CollectorFacts ==
    INSTANCE RootCollectorProofs WITH state <- collector_state, funds <- collector_funds

\* The collector of these facts is that of the system, operation by operation.
LEMMA SameOperations ==
    Collector!Spec => CollectorFacts!Spec
<1>1. Collector!Init => CollectorFacts!Init
    BY DEF Collector!Init, CollectorFacts!Init
<1>2. ASSUME NEW sent PROVE Collector!Deposit(sent) => CollectorFacts!Deposit(sent)
    BY DEF Collector!Deposit, CollectorFacts!Deposit, Collector!deposit_per_stake,
           CollectorFacts!deposit_per_stake, Collector!handed_out,
           CollectorFacts!handed_out
<1>3. ASSUME NEW sender, NEW staker, NEW amount
      PROVE  Collector!ReceiveStake(sender, staker, amount)
               => CollectorFacts!ReceiveStake(sender, staker, amount)
    BY DEF Collector!ReceiveStake, CollectorFacts!ReceiveStake,
           Collector!may_call_receive, CollectorFacts!may_call_receive,
           Collector!tokens_moved, CollectorFacts!tokens_moved, Collector!StoreStake,
           CollectorFacts!StoreStake, Collector!topped_up, CollectorFacts!topped_up,
           Collector!new_stake, CollectorFacts!new_stake, Collector!Stored,
           CollectorFacts!Stored, Collector!update_dividend,
           CollectorFacts!update_dividend, Collector!dividend, CollectorFacts!dividend,
           Collector!earned, CollectorFacts!earned
<1>4. ASSUME NEW staker, NEW amount
      PROVE  Collector!UnstakeTokens(staker, amount)
               => CollectorFacts!UnstakeTokens(staker, amount)
    BY DEF Collector!UnstakeTokens, CollectorFacts!UnstakeTokens, Collector!StoreStake,
           CollectorFacts!StoreStake, Collector!Stored, CollectorFacts!Stored,
           Collector!moved_to_unstaking, CollectorFacts!moved_to_unstaking,
           Collector!update_dividend, CollectorFacts!update_dividend, Collector!dividend,
           CollectorFacts!dividend, Collector!earned, CollectorFacts!earned,
           Collector!update_unstaked_amount, CollectorFacts!update_unstaked_amount,
           Collector!delay_over, CollectorFacts!delay_over
<1>5. ASSUME NEW staker, NEW amount, NEW to
      PROVE  Collector!WithdrawTokens(staker, amount, to)
               => CollectorFacts!WithdrawTokens(staker, amount, to)
    BY DEF Collector!WithdrawTokens, CollectorFacts!WithdrawTokens, Collector!StoreStake,
           CollectorFacts!StoreStake, Collector!Stored, CollectorFacts!Stored,
           Collector!send_tokens_msg, CollectorFacts!send_tokens_msg,
           Collector!update_unstaked_amount, CollectorFacts!update_unstaked_amount,
           Collector!delay_over, CollectorFacts!delay_over
<1>6. ASSUME NEW staker
      PROVE  Collector!WithdrawDividends(staker) => CollectorFacts!WithdrawDividends(staker)
    BY DEF Collector!WithdrawDividends, CollectorFacts!WithdrawDividends,
           Collector!StoreStake, CollectorFacts!StoreStake, Collector!Stored,
           CollectorFacts!Stored, Collector!send_dividend_msg,
           CollectorFacts!send_dividend_msg, Collector!update_dividend,
           CollectorFacts!update_dividend, Collector!dividend, CollectorFacts!dividend,
           Collector!earned, CollectorFacts!earned, Collector!deduct_tax,
           CollectorFacts!deduct_tax, Collector!calculate_tax,
           CollectorFacts!calculate_tax, Collector!capped, CollectorFacts!capped,
           Collector!transfer_cost, CollectorFacts!transfer_cost, Collector!chain_tax,
           CollectorFacts!chain_tax
<1>7. Collector!Call => CollectorFacts!Call
    BY <1>2, <1>3, <1>4, <1>5, <1>6 DEF Collector!Call, CollectorFacts!Call
<1>8. Collector!Tick => CollectorFacts!Tick
    BY DEF Collector!Tick, CollectorFacts!Tick
<1>9. [Collector!Next]_(Collector!vars) => [CollectorFacts!Next]_(CollectorFacts!vars)
    BY <1>7, <1>8
    DEF Collector!Next, CollectorFacts!Next, Collector!vars, CollectorFacts!vars
<1> QED BY <1>1, <1>9, PTL DEF Collector!Spec, CollectorFacts!Spec

LEMMA SameProperties ==
    /\ CollectorFacts!TotalStakedIsSum => Collector!TotalStakedIsSum
    /\ CollectorFacts!TokensBacked => Collector!TokensBacked
<1>1. Collector!Stored = CollectorFacts!Stored
    BY DEF Collector!Stored, CollectorFacts!Stored
<1>2. \A S : Collector!Cardinality(S) = CollectorFacts!Cardinality(S)
    BY DEF Collector!Cardinality, CollectorFacts!Cardinality
<1>3. \A f : Collector!Total(f) = CollectorFacts!Total(f)
    BY <1>2 DEF Collector!Total, CollectorFacts!Total, Collector!Stored, CollectorFacts!Stored
<1>4. CollectorFacts!TotalStakedIsSum => Collector!TotalStakedIsSum
    BY <1>1, <1>3 DEF Collector!TotalStakedIsSum, CollectorFacts!TotalStakedIsSum
<1>5. CollectorFacts!TokensBacked => Collector!TokensBacked
    BY <1>1, <1>2, <1>3 DEF Collector!TokensBacked, CollectorFacts!TokensBacked
<1> QED BY <1>4, <1>5

\* With the auction as its depositor, the total that the collector divides a
\* deposit by is the sum of the stakes, and every base token is in a wallet or in
\* one account's stake.
THEOREM CollectorSoundInSystem ==
    ASSUME DepositsOpen
    PROVE  SystemSpec => [](Collector!TotalStakedIsSum /\ Collector!TokensBacked)
<1>1. SystemSpec => Collector!Spec
    BY SystemImplementsCollector
<1>2. /\ NoState \notin CollectorFacts!StakeState
      /\ CollectorFacts!IsFiniteSet(Stakers)
    BY CollectorAssumption
    DEF Collector!StakeState, CollectorFacts!StakeState, CollectorFacts!IsFiniteSet, IsFiniteSet
<1>3. /\ CollectorFacts!Spec => []CollectorFacts!TotalStakedIsSum
      /\ CollectorFacts!Spec => []CollectorFacts!TokensBacked
    BY <1>2, CollectorFacts!TotalStakedStaysSum, CollectorFacts!TokensStayBacked,
       CollectorAssumption, AuctionAssumption, TaxAssumption
<1> QED BY <1>1, <1>3, SameOperations, SameProperties, PTL

----------------------------------------------------------------------------
(* The auction as NamePaging sees it.                                      *)

\* A record that was begun at this time owes nothing.
LEMMA BegunOwesNothing ==
    ASSUME NEW st \in NameState, NEW t \in Nat, st.begin_time = t
    PROVE  ~current_deposit_aborts(st, t)
<1> DEFINE s == t - st.begin_time
           d == st.begin_deposit * RATE_SEC_DENOM
<1>1. /\ st.rate \in Nat /\ st.begin_deposit \in Nat
      /\ s = 0 /\ s * st.rate = 0 /\ d \in Nat
    BY ConfigTypes, ProductInNat DEF NameState
<1> HIDE DEF s
<1>2. /\ deposit_from_seconds_ceil(s, st.rate) \in Nat
      /\ deposit_from_seconds_ceil(s, st.rate) <= st.begin_deposit <=> s * st.rate <= d
    BY <1>1, CeilAdjunction
<1>3. s * st.rate <= d
    <2> HIDE DEF d
    <2> QED BY <1>1
<1> QED BY <1>1, <1>2, <1>3
        DEF current_deposit_aborts, deposit_spent, seconds_spent_since_bid, s

\* A record that is better funded, or kept as it is, owes nothing it did not owe.
LEMMA FundedOwesNoMore ==
    ASSUME NEW old \in NameState, NEW new \in NameState, NEW t,
           new.rate = old.rate, new.begin_time = old.begin_time,
           new.begin_deposit >= old.begin_deposit, current_deposit_aborts(new, t),
           t \in Nat, old.begin_time <= t
    PROVE  current_deposit_aborts(old, t)
<1>1. /\ old.begin_deposit \in Nat /\ new.begin_deposit \in Nat /\ old.rate \in Nat
      /\ t - old.begin_time \in Nat
    BY DEF NameState
<1>2. deposit_from_seconds_ceil(t - old.begin_time, old.rate) \in Nat
    BY <1>1, CeilAdjunction
<1> QED BY <1>1, <1>2 DEF current_deposit_aborts, deposit_spent, seconds_spent_since_bid

\* What is owed is owed later, too.
LEMMA OwedLater ==
    ASSUME NEW st \in NameState, NEW t \in Nat, NEW u \in Nat, t <= u,
           current_deposit_aborts(st, t)
    PROVE  current_deposit_aborts(st, u)
<1> DEFINE s == t - st.begin_time
           l == u - st.begin_time
           d == st.begin_deposit * RATE_SEC_DENOM
<1>1. /\ st.rate \in Nat /\ st.begin_deposit \in Nat /\ st.begin_time \in Nat
      /\ st.begin_time <= t /\ st.begin_time <= u /\ d \in Nat
    BY ConfigTypes, ProductInNat DEF NameState, current_deposit_aborts
<1>2. s \in Nat /\ l \in Nat /\ s <= l
    BY <1>1
<1>3. /\ deposit_spent(st, t) \in Nat /\ deposit_spent(st, u) \in Nat
      /\ deposit_spent(st, t) <= st.begin_deposit <=> s * st.rate <= d
      /\ deposit_spent(st, u) <= st.begin_deposit <=> l * st.rate <= d
    BY <1>1, <1>2, CeilAdjunction DEF deposit_spent, seconds_spent_since_bid
<1>4. s * st.rate <= l * st.rate /\ s * st.rate \in Nat /\ l * st.rate \in Nat
    BY <1>1, <1>2, ProductMonotone, ProductInNat
<1> HIDE DEF s, l, d
<1>5. ~(l * st.rate <= d)
    BY <1>1, <1>3, <1>4 DEF current_deposit_aborts
<1> QED BY <1>1, <1>3, <1>5 DEF current_deposit_aborts

\* A call stores one record, and only one that owed before owes afterwards.
LEMMA TransactionOwesNoMore ==
    ASSUME AuctionInv, NEW sender \in Addrs, NEW name \in Names, Transaction(sender, name)
    PROVE  \E new \in NameState :
             /\ Store(name, new)
             /\ current_deposit_aborts(new, now) => name \in Owing
<1> DEFINE st == name_states[name]
           Claim == \E new \in NameState :
                      /\ Store(name, new)
                      /\ current_deposit_aborts(new, now) => name \in Owing
<1>1. now \in Nat
    BY ConfigTypes DEF AuctionInv, TypeOK
<1>2. ASSUME name \in Stored, NEW new \in NameState, Store(name, new),
             new.rate = st.rate, new.begin_time = st.begin_time,
             new.begin_deposit >= st.begin_deposit
      PROVE  Claim
    <2>1. st \in NameState /\ st.begin_time <= now
        BY <1>2, StoredRecord DEF InOrder
    <2>2. current_deposit_aborts(new, now) => current_deposit_aborts(st, now)
        BY <1>1, <1>2, <2>1, FundedOwesNoMore
    <2> QED BY <1>2, <2>2 DEF Owing
<1>3. ASSUME NEW new \in NameState, Store(name, new), new.begin_time = now
      PROVE  Claim
    BY <1>1, <1>3, BegunOwesNothing
<1> HIDE DEF Claim
<1>4. ASSUME NEW rate \in Rates, NEW deposit \in Deposits,
             BidName(sender, name, rate, deposit)
      PROVE  Claim
    BY <1>3, <1>4, BidExistingRecord, BidNewRecord DEF BidName
<1>5. ASSUME NEW owner \in Addrs, NEW deposit \in Deposits, FundName(name, owner, deposit)
      PROVE  Claim
    <2>1. PICK new \in NameState :
            /\ Store(name, new)
            /\ new.begin_time = st.begin_time
            /\ new.begin_deposit = st.begin_deposit + deposit
            /\ new.rate = st.rate
        BY <1>5, FundRecord
    <2>2. name \in Stored /\ deposit \in Nat
        BY <1>5, AuctionAssumption DEF FundName
    <2>3. st.begin_deposit \in Nat
        BY <2>2, StoredRecord DEF NameState
    <2> QED BY <1>2, <2>1, <2>2, <2>3
<1>6. ASSUME NEW rate \in Rates, SetNameRate(sender, name, rate)
      PROVE  Claim
    BY <1>3, <1>6, SetRateRecord
<1>7. ASSUME name \in Stored, NEW new \in NameState, SameTerms(st, new), Store(name, new)
      PROVE  Claim
    <2>1. st.begin_deposit \in Nat
        BY <1>7, StoredRecord DEF NameState
    <2> QED BY <1>2, <1>7, <2>1 DEF SameTerms
<1>8. ASSUME NEW to \in Addrs, TransferNameOwner(sender, name, to)
      PROVE  Claim
    <2>1. name \in Stored
        BY <1>8 DEF TransferNameOwner
    <2> QED BY <1>7, <1>8, <2>1, RenamedRecord DEF TransferNameOwner
<1>9. ASSUME NEW controller \in Addrs, SetNameController(sender, name, controller)
      PROVE  Claim
    <2>1. name \in Stored
        BY <1>9 DEF SetNameController
    <2> QED BY <1>7, <1>9, <2>1, RenamedRecord DEF SetNameController
<1> QED BY <1>4, <1>5, <1>6, <1>8, <1>9 DEF Transaction, Claim

\* A call stores its name and at most makes up for what it owes.
LEMMA TransactionPages ==
    ASSUME AuctionInv, NEW sender \in Addrs, NEW name \in Names, Transaction(sender, name)
    PROVE  /\ Stored' = Stored \union {name}
           /\ Owing' = Owing \/ Owing' = Owing \ {name}
           /\ \/ Stored' = Stored /\ Owing' = Owing
              \/ name \notin Stored
              \/ name \in Owing
           /\ name \notin Stored => name \notin Owing
<1>1. PICK new \in NameState :
        /\ Store(name, new)
        /\ current_deposit_aborts(new, now) => name \in Owing
    BY TransactionOwesNoMore
<1>2. now' = now
    BY TransactionTakesNoTime
<1>3. /\ name_states'[name] = new
      /\ \A other \in Names \ {name} : name_states'[other] = name_states[other]
    BY <1>1 DEF AuctionInv, TypeOK, Store
<1>4. Stored' = Stored \union {name}
    BY <1>3, NoStateAssumption DEF Stored
<1>5. Stored \subseteq Names /\ Stored' \subseteq Names
    BY DEF Stored
<1>6. \A other \in Names \ {name} : other \in Owing' <=> other \in Owing
    BY <1>2, <1>3, <1>4 DEF Owing
<1>7. name \in Owing' => name \in Owing
    BY <1>1, <1>2, <1>3 DEF Owing
<1>8. Owing \subseteq Stored /\ Owing' \subseteq Stored'
    BY DEF Owing
<1>9. Owing' = Owing \/ Owing' = Owing \ {name}
    BY <1>5, <1>6, <1>7, <1>8
<1> QED BY <1>4, <1>8, <1>9

\* What a step of the auction does to the names that are listed: nothing, or one is
\* bid on or funded, or time makes some of them owe.
LEMMA NamesStep ==
    ASSUME AuctionInv, [Next]_vars
    PROVE  \/ Stored' = Stored /\ Owing' = Owing
           \/ \E name \in Names :
                /\ name \notin Stored \/ name \in Owing
                /\ Stored' = Stored \union {name}
                /\ Owing' = Owing \ {name}
           \/ \E names \in SUBSET (Stored \ Owing) :
                /\ names # {}
                /\ Stored' = Stored
                /\ Owing' = Owing \union names
<1>1. CASE Tick
    <2>1. /\ now \in Nat /\ now' \in Nat /\ now <= now' /\ UNCHANGED name_states
        BY <1>1, ConfigTypes DEF AuctionInv, TypeOK, Tick
    <2>2. Stored' = Stored
        BY <2>1 DEF Stored
    <2>3. Owing \subseteq Owing'
        <3> SUFFICES ASSUME NEW name \in Owing PROVE name \in Owing'
            OBVIOUS
        <3>1. name \in Stored /\ current_deposit_aborts(name_states[name], now)
            BY DEF Owing
        <3>2. current_deposit_aborts(name_states[name], now')
            BY <2>1, <3>1, StoredRecord, OwedLater
        <3> QED BY <2>1, <2>2, <3>1, <3>2 DEF Owing
    <2>4. Owing' \subseteq Stored
        BY <2>2 DEF Owing
    <2> DEFINE names == Owing' \ Owing
    <2>5. names \in SUBSET (Stored \ Owing) /\ Owing' = Owing \union names
        BY <2>3, <2>4
    <2> QED BY <2>2, <2>5
<1>2. ASSUME NEW sender \in Addrs, NEW name \in Names, Transaction(sender, name)
      PROVE  \/ Stored' = Stored /\ Owing' = Owing
             \/ /\ name \notin Stored \/ name \in Owing
                /\ Stored' = Stored \union {name}
                /\ Owing' = Owing \ {name}
    BY <1>2, TransactionPages
<1>3. CASE UNCHANGED vars
    BY <1>3 DEF vars, Stored, Owing
<1> QED BY <1>1, <1>2, <1>3 DEF Next

\* The auction is what NamePaging takes it to be, for all names, rates, deposits
\* and delays: names are only added, and they owe and are made up for one by one.
THEOREM AuctionImplementsPaging == Spec => ImplementsPaging
<1>1. Init => Listed!Init
    <2>1. Init => Stored = {} /\ Owing = {}
        BY DEF Init, Stored, Owing
    <2> QED BY <2>1 DEF Listed!Init
<1>2. AuctionInv /\ [Next]_vars => [Listed!Next]_(Listed!vars)
    BY NamesStep DEF Listed!Next, Listed!Bid, Listed!FallBehind, Listed!vars
<1> QED BY <1>1, <1>2, AuctionInvariance, PTL DEF Spec, ImplementsPaging, Listed!SafeSpec

\* No call makes a name owe more than its deposit: a bid and a new rate begin to owe
\* now, and the other calls leave the rent as it is and lower no deposit.
THEOREM CallsOweNothing == Spec => OnlyTimeOwes
<1>1. AuctionInv /\ [Next]_vars => Owing' \subseteq Owing \/ now' # now
    <2> SUFFICES ASSUME AuctionInv, [Next]_vars, now' = now
                 PROVE  Owing' \subseteq Owing
        OBVIOUS
    <2>1. ~Tick
        BY ConfigTypes DEF AuctionInv, TypeOK, Tick
    <2>2. ASSUME NEW sender \in Addrs, NEW name \in Names, Transaction(sender, name)
          PROVE  Owing' \subseteq Owing
        BY <2>2, TransactionPages
    <2>3. CASE UNCHANGED vars
        BY <2>3 DEF vars, Stored, Owing
    <2> QED BY <2>1, <2>2, <2>3 DEF Next
<1> QED BY <1>1, AuctionInvariance, PTL DEF Spec, OnlyTimeOwes

\* With a client that lists them, too.
LEMMA PagedAuctionPages == PagedSpec => Paging!SafeSpec
<1>1. PagedInit => Init /\ Paging!Init
    BY DEF PagedInit
<1>2. AuctionInv /\ [PagedNext]_paged_vars => [Paging!Next]_(Paging!vars)
    <2> SUFFICES ASSUME AuctionInv, [PagedNext]_paged_vars
                 PROVE  [Paging!Next]_(Paging!vars)
        OBVIOUS
    <2>1. CASE Query
        BY <2>1 DEF Query, Paging!Next
    <2>2. CASE [Next]_vars /\ UNCHANGED client_vars
        BY <2>2, NamesStep
        DEF client_vars, Paging!Next, Paging!Bid, Paging!FallBehind, Paging!vars
    <2> QED BY <2>1, <2>2 DEF PagedNext, paged_vars
<1>3. [PagedNext]_paged_vars => [Next]_vars
    BY DEF PagedNext, paged_vars, Query
<1>4. PagedSpec => []AuctionInv
    BY <1>1, <1>3, AuctionInvariance, PTL DEF PagedSpec, Spec
<1> QED BY <1>1, <1>2, <1>4, PTL DEF PagedSpec, Paging!SafeSpec

PagingFacts == INSTANCE NamePagingProofs WITH stored <- Stored, owing <- Owing

\* The client of these facts is that of the auction.
LEMMA SameClient ==
    /\ Paging!SafeSpec => PagingFacts!SafeSpec
    /\ PagingFacts!EachNameOnce => Paging!EachNameOnce
    /\ PagingFacts!NothingSkipped => Paging!NothingSkipped
<1>1. Paging!Init => PagingFacts!Init
    BY DEF Paging!Init, PagingFacts!Init
<1>2. \A a, b : Paging!Precedes(a, b) <=> PagingFacts!Precedes(a, b)
    BY DEF Paging!Precedes, PagingFacts!Precedes
<1>3. Paging!ReadPage => PagingFacts!ReadPage
    BY DEF Paging!ReadPage, PagingFacts!ReadPage,
           Paging!collect_name_states, PagingFacts!collect_name_states,
           Paging!InRange, PagingFacts!InRange, Paging!Precedes, PagingFacts!Precedes,
           Paging!calc_range_start_str, PagingFacts!calc_range_start_str,
           Paging!rank, PagingFacts!rank, Paging!page_size, PagingFacts!page_size,
           Paging!query_all_answers, PagingFacts!query_all_answers,
           Paging!NamesOf, PagingFacts!NamesOf,
           Paging!Cardinality, PagingFacts!Cardinality
<1>4. Paging!StartListing => PagingFacts!StartListing
    BY DEF Paging!StartListing, PagingFacts!StartListing
<1>5. \A name : Paging!Bid(name) => PagingFacts!Bid(name)
    BY DEF Paging!Bid, PagingFacts!Bid
<1>6. \A names : Paging!FallBehind(names) => PagingFacts!FallBehind(names)
    BY DEF Paging!FallBehind, PagingFacts!FallBehind
<1>7. [Paging!Next]_(Paging!vars) => [PagingFacts!Next]_(PagingFacts!vars)
    BY <1>3, <1>4, <1>5, <1>6
    DEF Paging!Next, PagingFacts!Next, Paging!vars, PagingFacts!vars
<1>8. Paging!SafeSpec => PagingFacts!SafeSpec
    BY <1>1, <1>7, PTL DEF Paging!SafeSpec, PagingFacts!SafeSpec
<1>9. PagingFacts!EachNameOnce => Paging!EachNameOnce
    BY <1>2 DEF Paging!EachNameOnce, PagingFacts!EachNameOnce
<1>10. PagingFacts!NothingSkipped => Paging!NothingSkipped
    BY <1>2 DEF Paging!NothingSkipped, PagingFacts!NothingSkipped,
                Paging!NamesOf, PagingFacts!NamesOf
<1> QED BY <1>8, <1>9, <1>10

\* While names are bid on, funded and lapse, a client that reads page after page
\* is given every name that was there when it began, and none twice.
THEOREM AuctionListsAllNames ==
    PagedSpec => [](Paging!EachNameOnce /\ Paging!NothingSkipped)
<1>1. PagedSpec => PagingFacts!SafeSpec
    BY PagedAuctionPages, SameClient, PTL
<1>2. /\ PagingFacts!SafeSpec => []PagingFacts!EachNameOnce
      /\ PagingFacts!SafeSpec => []PagingFacts!NothingSkipped
    BY PagingFacts!NamesGivenOnce, PagingFacts!NamesNotSkipped, AuctionPagingAssumption
<1> QED BY <1>1, <1>2, SameClient, PTL

=============================================================================
