--------------------------- MODULE AuctionProofs ---------------------------
(***************************************************************************)
(* Proofs about the auction, for all names, accounts, rates, amounts and   *)
(* delays that the contract can be configured with.                        *)
(*                                                                         *)
(* The inductive invariant says of each stored record that its times are   *)
(* in order and that its deposit, taken as an exact product and not as a   *)
(* rounded number of seconds, lies between the price of the minimum lease  *)
(* and the price of max_lease_secs from the block time on.                 *)
(***************************************************************************)
EXTENDS Auction, TerraTaxTheorems

----------------------------------------------------------------------------
(* What the roundings of LeaseMath promise: each conversion is the best    *)
(* approximation from its side, so comparing a converted amount is         *)
(* comparing exact products.                                               *)

\* A deposit is within the rounded-down price of some seconds exactly when it
\* does not pay for more.
LEMMA FloorAdjunction ==
    ASSUME NEW s \in Nat, NEW r \in Nat, NEW d \in Nat
    PROVE  /\ deposit_from_seconds_floor(s, r) \in Nat
           /\ d <= deposit_from_seconds_floor(s, r) <=> d * RATE_SEC_DENOM <= s * r
<1>1. s * r \in Nat /\ r * s = s * r
    BY ProductInNat
<1> QED
    BY <1>1, Quotient, QuotientAdjunction, LeaseMathAssumption
    DEF deposit_from_seconds_floor

\* A deposit covers the rounded-up price of some seconds exactly when it pays
\* for all of them.
LEMMA CeilAdjunction ==
    ASSUME NEW s \in Nat, NEW r \in Nat, NEW d \in Nat
    PROVE  /\ deposit_from_seconds_ceil(s, r) \in Nat
           /\ deposit_from_seconds_ceil(s, r) <= d <=> s * r <= d * RATE_SEC_DENOM
<1> DEFINE D == RATE_SEC_DENOM
           p == s * r
           c == (p + D - 1) \div D
<1>1. D \in Nat \ {0} /\ p \in Nat /\ p + D - 1 \in Nat /\ d + 1 \in Nat
    BY ProductInNat, LeaseMathAssumption
<1>2. c \in Nat
    BY <1>1, Quotient
<1>3. d + 1 <= c <=> (d + 1) * D <= p + D - 1
    <2> HIDE DEF p, D
    <2> QED BY <1>1, QuotientAdjunction
<1>4. (d + 1) * D = d * D + D /\ d * D \in Nat
    BY <1>1, ProductInNat
<1>5. c <= d <=> p <= d * D
    <2> HIDE DEF p, c, D
    <2> QED BY <1>1, <1>2, <1>3, <1>4
<1> QED BY <1>2, <1>5 DEF deposit_from_seconds_ceil

\* The seconds a deposit pays for: never more than it pays for, and all it
\* pays for when the cast to u64 loses nothing.
LEMMA SecondsAdjunction ==
    ASSUME NEW s \in Nat, NEW r \in Nat \ {0}, NEW d \in Nat
    PROVE  /\ seconds_from_deposit(d, r) \in Nat
           /\ s <= seconds_from_deposit(d, r) => s * r <= d * RATE_SEC_DENOM
           /\ \A h \in Nat : h < U64 /\ d * RATE_SEC_DENOM <= h * r =>
                /\ seconds_from_deposit(d, r) <= h
                /\ s * r <= d * RATE_SEC_DENOM => s <= seconds_from_deposit(d, r)
<1> DEFINE p == d * RATE_SEC_DENOM
           q == p \div r
<1>1. p \in Nat /\ q \in Nat /\ U64 \in Nat \ {0}
    BY ProductInNat, Quotient, LeaseMathAssumption
<1>2. q % U64 \in Nat /\ q % U64 <= q /\ (q < U64 => q % U64 = q)
    BY <1>1, Remainder
<1>3. s <= q <=> s * r <= p
    BY <1>1, QuotientAdjunction
<1>4. ASSUME NEW h \in Nat, h < U64, p <= h * r
      PROVE  q <= h
    <2>1. q * r <= p
        BY <1>1, QuotientAdjunction
    <2>2. q * r < (h + 1) * r
        BY <2>1, <1>1, <1>4, ProductInNat
    <2>3. q < h + 1
        BY <2>2, <1>1, ProductCancel
    <2> QED BY <2>3, <1>1
<1> HIDE DEF p, q
<1>5. seconds_from_deposit(d, r) = q % U64
    BY DEF seconds_from_deposit, p, q
<1>6. ASSUME NEW h \in Nat, h < U64, p <= h * r
      PROVE  /\ seconds_from_deposit(d, r) <= h
             /\ s * r <= p => s <= seconds_from_deposit(d, r)
    BY <1>1, <1>2, <1>3, <1>4, <1>5, <1>6
<1>7. s <= seconds_from_deposit(d, r) => s * r <= p
    BY <1>1, <1>2, <1>3, <1>5
<1> QED BY <1>2, <1>5, <1>6, <1>7 DEF p

----------------------------------------------------------------------------
(* The inductive invariant.                                                *)

InOrder(st, t) ==
    /\ st.previous_transition_reference_time <= st.transition_reference_time
    /\ st.transition_reference_time <= st.begin_time
    /\ st.begin_time <= t

DepositWithin(st, t) ==
    /\ min_lease_secs * st.rate <= st.begin_deposit * RATE_SEC_DENOM
    /\ st.begin_deposit * RATE_SEC_DENOM
         <= (max_lease_secs + (t - st.begin_time)) * st.rate

WellFormed(st, t) ==
    /\ st \in NameState
    /\ InOrder(st, t)
    /\ DepositWithin(st, t)

AuctionInv ==
    /\ TypeOK
    /\ \A name \in Stored : WellFormed(name_states[name], now)

----------------------------------------------------------------------------
(* Facts about one record.                                                 *)

LEMMA ConfigTypes ==
    /\ min_lease_secs \in Nat /\ max_lease_secs \in Nat
    /\ counter_delay_secs \in Nat /\ transition_delay_secs \in Nat
    /\ bid_delay_secs \in Nat /\ StartTime \in Nat \ {0} /\ MaxTime \in Nat
    /\ U64 \in Nat \ {0} /\ RATE_SEC_DENOM \in Nat \ {0}
    /\ min_lease_secs <= max_lease_secs
    /\ StartTime <= MaxTime
    /\ MaxTime + max_lease_secs < U64
    BY AuctionAssumption, LeaseMathAssumption

\* What LeaseAllowed checks in rounded deposits holds of the exact products.
LEMMA LeaseAllowedExact ==
    ASSUME NEW deposit \in Nat, NEW rate \in Nat, LeaseAllowed(deposit, rate)
    PROVE  /\ min_lease_secs * rate <= deposit * RATE_SEC_DENOM
           /\ deposit * RATE_SEC_DENOM <= max_lease_secs * rate
    BY ConfigTypes, FloorAdjunction, CeilAdjunction DEF LeaseAllowed

\* The lease of a well-formed record: how many seconds it lasts, and which
\* rents it pays for.  The cast to u64 in max_seconds loses nothing.
LEMMA LeaseLength ==
    ASSUME NEW st, NEW t \in Nat, t <= MaxTime, WellFormed(st, t), st.rate # 0
    PROVE  /\ max_seconds(st) \in Nat
           /\ max_seconds(st) >= min_lease_secs
           /\ max_seconds(st) <= max_lease_secs + (t - st.begin_time)
           /\ \A s \in Nat : s <= max_seconds(st)
                               <=> s * st.rate <= st.begin_deposit * RATE_SEC_DENOM
<1> DEFINE h == max_lease_secs + (t - st.begin_time)
<1>1. /\ st.rate \in Nat \ {0} /\ st.begin_deposit \in Nat /\ st.begin_time \in Nat
      /\ st.begin_time <= t
    BY DEF WellFormed, NameState, InOrder
<1>2. h \in Nat /\ h < U64
    BY <1>1, ConfigTypes
<1>3. /\ min_lease_secs * st.rate <= st.begin_deposit * RATE_SEC_DENOM
      /\ st.begin_deposit * RATE_SEC_DENOM <= h * st.rate
    BY DEF WellFormed, DepositWithin
<1> HIDE DEF h
<1>4. ASSUME NEW s \in Nat
      PROVE  /\ max_seconds(st) \in Nat
             /\ max_seconds(st) <= h
             /\ s <= max_seconds(st) <=> s * st.rate <= st.begin_deposit * RATE_SEC_DENOM
    BY <1>1, <1>2, <1>3, SecondsAdjunction DEF max_seconds
<1>5. min_lease_secs <= max_seconds(st)
    BY <1>3, <1>4, ConfigTypes
<1> QED BY <1>4, <1>5, ConfigTypes DEF h

\* As long as the deposit is not used up it covers the rent charged for it.
LEMMA RentCovered ==
    ASSUME NEW st, NEW t \in Nat, t <= MaxTime, WellFormed(st, t), ~DepositUsedUp(st, t)
    PROVE  /\ deposit_spent(st, t) \in Nat
           /\ deposit_spent(st, t) <= st.begin_deposit
<1> DEFINE s == t - st.begin_time
<1>1. s \in Nat /\ st.rate \in Nat /\ st.begin_deposit \in Nat
    BY DEF WellFormed, NameState, InOrder
<1>2. s * st.rate <= st.begin_deposit * RATE_SEC_DENOM
    <2>1. CASE st.rate = 0
        BY <2>1, <1>1, ConfigTypes, ProductInNat
    <2>2. CASE st.rate # 0
        <3>1. s <= max_seconds(st)
            BY <2>2, <1>1, LeaseLength DEF DepositUsedUp, seconds_spent_since_bid
        <3> QED BY <3>1, <2>2, <1>1, LeaseLength
    <2> QED BY <2>1, <2>2
<1> QED
    BY <1>1, <1>2, CeilAdjunction DEF deposit_spent, seconds_spent_since_bid

\* A record whose times are in order expires by its deposit alone.
LEMMA ExpiredOnlyByDeposit ==
    ASSUME NEW st, NEW t \in Nat, st \in NameState, InOrder(st, t)
    PROVE  Expired(st, t) <=> DepositUsedUp(st, t)
    BY DEF Expired, InOrder, NameState

\* A record stays well formed as the block time rises.
LEMMA WellFormedLater ==
    ASSUME NEW st, NEW t \in Nat, NEW u \in Nat, t <= u, WellFormed(st, t)
    PROVE  WellFormed(st, u)
<1> DEFINE h == max_lease_secs + (t - st.begin_time)
           k == max_lease_secs + (u - st.begin_time)
<1>1. /\ st \in NameState /\ st.rate \in Nat /\ st.begin_time \in Nat
      /\ st.begin_deposit \in Nat /\ st.begin_time <= t
    BY DEF WellFormed, NameState, InOrder
<1>2. InOrder(st, u)
    BY <1>1 DEF WellFormed, NameState, InOrder
<1>3. h \in Nat /\ k \in Nat /\ h <= k
    BY <1>1, ConfigTypes
<1>4. /\ min_lease_secs * st.rate <= st.begin_deposit * RATE_SEC_DENOM
      /\ st.begin_deposit * RATE_SEC_DENOM <= h * st.rate
    BY DEF WellFormed, DepositWithin
<1> HIDE DEF h, k
<1>5. h * st.rate <= k * st.rate /\ h * st.rate \in Nat /\ k * st.rate \in Nat
    BY <1>1, <1>3, ProductMonotone, ProductInNat
<1>6. st.begin_deposit * RATE_SEC_DENOM <= k * st.rate
    BY <1>1, <1>4, <1>5, ConfigTypes, ProductInNat
<1> QED BY <1>1, <1>2, <1>4, <1>6 DEF WellFormed, DepositWithin, k

\* A record begun now with a deposit that LeaseAllowed accepts.
LEMMA BegunNow ==
    ASSUME NEW st \in NameState, NEW t \in Nat, st.begin_time = t, InOrder(st, t),
           LeaseAllowed(st.begin_deposit, st.rate)
    PROVE  WellFormed(st, t)
<1>1. st.rate \in Nat /\ st.begin_deposit \in Nat
    BY DEF NameState
<1>2. max_lease_secs + (t - st.begin_time) = max_lease_secs
    BY ConfigTypes
<1> QED BY <1>1, <1>2, LeaseAllowedExact DEF WellFormed, DepositWithin

----------------------------------------------------------------------------
(* The invariant holds of every reachable state: one lemma per handler.    *)

\* Messages carry amounts, whatever the tax.
LEMMA MessagesTyped ==
    ASSUME NEW to \in Addrs, NEW amount \in Nat
    PROVE  /\ Send(collector_addr, amount) \in Seq(Message)
           /\ refund_deposit_msg(to, amount) \in Seq(Message)
<1> DEFINE S == Seq(Message)
           message(acct) == [to |-> acct, amount |-> deduct_tax(amount)]
<1>1. message(to) \in Message /\ message(collector_addr) \in Message
    BY DeductedTransferFits DEF Message
<1>2. \A m \in Message : <<m>> \in S
    OBVIOUS
<1>3. <<>> \in S
    OBVIOUS
<1>4. Send(to, amount) \in S /\ Send(collector_addr, amount) \in S
    <2> HIDE DEF S
    <2> QED BY <1>1, <1>2 DEF Send
<1>5. refund_deposit_msg(to, amount) \in S
    <2> HIDE DEF S
    <2> QED BY <1>3, <1>4 DEF refund_deposit_msg
<1> QED BY <1>4, <1>5

\* A handler that stores one well-formed record keeps the invariant.
LEMMA StoreKeepsInv ==
    ASSUME AuctionInv, NEW name \in Names, NEW st, Store(name, st),
           WellFormed(st, now), outbox' \in Seq(Message), UNCHANGED now
    PROVE  AuctionInv'
<1>1. st \in NameState
    BY DEF WellFormed
<1>2. TypeOK'
    BY <1>1 DEF AuctionInv, TypeOK, Store
<1>3. ASSUME NEW other \in Stored'
      PROVE  WellFormed(name_states'[other], now)
    <2>1. CASE other = name
        BY <2>1 DEF AuctionInv, TypeOK, Store
    <2>2. CASE other # name
        <3>1. other \in Stored /\ name_states'[other] = name_states[other]
            BY <2>2, <1>3 DEF AuctionInv, TypeOK, Store, Stored
        <3> QED BY <3>1 DEF AuctionInv
    <2> QED BY <2>1, <2>2
<1>4. \A other \in Stored' : WellFormed(name_states[other], now)'
    BY <1>3 DEF WellFormed, InOrder, DepositWithin
<1> QED BY <1>2, <1>4 DEF AuctionInv

\* What the handlers may use of a stored record.
LEMMA StoredRecord ==
    ASSUME AuctionInv, NEW name \in Stored
    PROVE  /\ now \in Nat /\ now <= MaxTime /\ StartTime <= now
           /\ name_states[name] \in NameState
           /\ WellFormed(name_states[name], now)
           /\ InOrder(name_states[name], now)
           /\ Expired(name_states[name], now) <=> DepositUsedUp(name_states[name], now)
<1>1. now \in Nat /\ now <= MaxTime /\ StartTime <= now
    BY ConfigTypes DEF AuctionInv, TypeOK
<1>2. WellFormed(name_states[name], now)
    BY DEF AuctionInv
<1> QED BY <1>1, <1>2, ExpiredOnlyByDeposit DEF WellFormed

\* What is left of a deposit is an amount no larger than the deposit.
LEMMA DepositLeft ==
    ASSUME NEW st, NEW t \in Nat, WellFormed(st, t)
    PROVE  deposit_left(st, t) \in Nat /\ deposit_left(st, t) <= st.begin_deposit
<1>1. st.begin_deposit \in Nat /\ st.rate \in Nat /\ t - st.begin_time \in Nat
    BY DEF WellFormed, NameState, InOrder
<1>2. deposit_spent(st, t) \in Nat
    BY <1>1, CeilAdjunction DEF deposit_spent, seconds_spent_since_bid
<1> QED BY <1>1, <1>2 DEF deposit_left, saturating_sub

\* The record a bid on a held or contested name leaves behind.
LEMMA BidExistingRecord ==
    ASSUME AuctionInv, NEW sender \in Addrs, NEW name \in Names, NEW rate \in Rates,
           NEW deposit \in Deposits, execute_bid_existing(sender, name, rate, deposit)
    PROVE  LET st == name_states[name]
           IN  /\ name \in Stored /\ ~Expired(st, now) /\ sender # st.owner
               /\ \E new \in NameState :
                    /\ Store(name, new)
                    /\ WellFormed(new, now)
                    /\ new.begin_time = now
                    /\ new.owner = sender
                    /\ new.rate = rate
                    /\ new.begin_deposit = deposit
                    /\ new.controller = st.controller
                    /\ new.previous_owner = name_owner(st, now)
                    /\ new.previous_transition_reference_time = reference_time(st, now)
                    /\ new.transition_reference_time =
                         IF sender = name_owner(st, now) THEN reference_time(st, now) ELSE now
<1> DEFINE st == name_states[name]
           owner == name_owner(st, now)
           since == reference_time(st, now)
           new == [st EXCEPT !.previous_owner = owner,
                             !.previous_transition_reference_time = since,
                             !.owner = sender,
                             !.rate = rate,
                             !.begin_time = now,
                             !.begin_deposit = deposit,
                             !.transition_reference_time =
                                 IF sender = owner THEN since ELSE now]
<1>1. /\ name \in Stored /\ LeaseAllowed(deposit, rate)
      /\ Store(name, new)
      /\ ~Expired(st, now) /\ sender # st.owner
    BY DEF execute_bid_existing
<1>2. /\ now \in Nat /\ st \in NameState /\ WellFormed(st, now) /\ InOrder(st, now)
    BY <1>1, StoredRecord
<1>3. rate \in Nat /\ deposit \in Nat
    BY AuctionAssumption
<1>4. owner \in Addrs \union {None} /\ since \in Nat /\ since <= now
    BY <1>2 DEF name_owner, reference_time, NameState, InOrder
<1> HIDE DEF owner, since, st
<1>5. new \in NameState
    BY <1>2, <1>3, <1>4 DEF NameState
<1>6. InOrder(new, now)
    BY <1>2, <1>3, <1>4 DEF NameState, InOrder
<1>7. /\ new.begin_time = now /\ new.begin_deposit = deposit /\ new.rate = rate
      /\ new.owner = sender /\ new.controller = st.controller
      /\ new.previous_owner = owner
      /\ new.previous_transition_reference_time = since
      /\ new.transition_reference_time = IF sender = owner THEN since ELSE now
    BY <1>2 DEF NameState
<1> HIDE DEF new
<1>8. WellFormed(new, now)
    BY <1>1, <1>2, <1>5, <1>6, <1>7, BegunNow
<1> QED BY <1>1, <1>5, <1>7, <1>8 DEF owner, since, st

LEMMA BidExistingKeepsInv ==
    ASSUME AuctionInv, NEW sender \in Addrs, NEW name \in Names, NEW rate \in Rates,
           NEW deposit \in Deposits, UNCHANGED now,
           execute_bid_existing(sender, name, rate, deposit)
    PROVE  AuctionInv'
<1> DEFINE st == name_states[name]
           left == deposit_left(st, now)
<1>1. PICK new : Store(name, new) /\ WellFormed(new, now)
    BY BidExistingRecord
<1>2. /\ name \in Stored /\ deposit > left
      /\ outbox' = refund_deposit_msg(st.owner, left) \o Send(collector_addr, deposit - left)
    BY DEF execute_bid_existing, Outbids
<1>3. now \in Nat /\ st \in NameState /\ WellFormed(st, now) /\ deposit \in Nat
    BY <1>2, StoredRecord, AuctionAssumption
<1>4. left \in Nat
    BY <1>3, DepositLeft
<1> HIDE DEF left, st
<1>5. outbox' \in Seq(Message)
    <2>1. st.owner \in Addrs /\ deposit - left \in Nat
        BY <1>2, <1>3, <1>4 DEF NameState
    <2> DEFINE p == refund_deposit_msg(st.owner, left)
               q == Send(collector_addr, deposit - left)
    <2>2. p \in Seq(Message) /\ q \in Seq(Message)
        BY <2>1, <1>4, MessagesTyped
    <2>3. outbox' = p \o q
        BY <1>2
    <2> HIDE DEF p, q
    <2> QED BY <2>2, <2>3
<1> QED BY <1>1, <1>5, StoreKeepsInv

\* A lease that has lapsed ended no later than now.
LEMMA LapseTime ==
    ASSUME AuctionInv, NEW name \in Stored
    PROVE  /\ lapse_time(name_states[name], now) \in Nat
           /\ lapse_time(name_states[name], now) <= now
<1> DEFINE st == name_states[name]
<1>1. now \in Nat /\ now <= MaxTime /\ WellFormed(st, now)
    BY StoredRecord
<1>2. CASE ~(now >= st.begin_time /\ DepositUsedUp(st, now))
    BY <1>1, <1>2 DEF lapse_time
<1>3. CASE now >= st.begin_time /\ DepositUsedUp(st, now)
    <2>1. st.begin_time \in Nat /\ max_seconds(st) \in Nat
        BY <1>1, <1>3, LeaseLength DEF NameState, DepositUsedUp, WellFormed
    <2>2. max_seconds(st) <= now - st.begin_time
        BY <1>1, <1>3, <2>1 DEF DepositUsedUp, seconds_spent_since_bid
    <2>3. lapse_time(st, now) = st.begin_time + max_seconds(st)
        BY <1>3 DEF lapse_time, expire_time
    <2> HIDE DEF st
    <2> QED BY <2>1, <2>2, <2>3, <1>1 DEF st
<1> QED BY <1>2, <1>3

\* The record a bid on a free name leaves behind.
LEMMA BidNewRecord ==
    ASSUME AuctionInv, NEW sender \in Addrs, NEW name \in Names, NEW rate \in Rates,
           NEW deposit \in Deposits, execute_bid_new(sender, name, rate, deposit)
    PROVE  /\ name \in Stored => Expired(name_states[name], now)
           /\ \E new \in NameState :
                /\ Store(name, new)
                /\ WellFormed(new, now)
                /\ new.begin_time = now
                /\ new.begin_deposit = deposit
                /\ new.owner = sender
                /\ new.controller = None
                /\ new.previous_owner = None
                /\ new.previous_transition_reference_time = 0
                /\ new.transition_reference_time <= now
<1> DEFINE since == IF name \in Stored THEN lapse_time(name_states[name], now) ELSE 0
           new == [ owner |-> sender,
                    controller |-> None,
                    transition_reference_time |-> since,
                    rate |-> rate,
                    begin_time |-> now,
                    begin_deposit |-> deposit,
                    previous_owner |-> None,
                    previous_transition_reference_time |-> 0 ]
<1>1. /\ LeaseAllowed(deposit, rate)
      /\ Store(name, new)
      /\ name \in Stored => Expired(name_states[name], now)
    BY DEF execute_bid_new
<1>2. now \in Nat /\ rate \in Nat /\ deposit \in Nat
    BY ConfigTypes, AuctionAssumption DEF AuctionInv, TypeOK
<1>3. since \in Nat /\ since <= now
    BY <1>2, LapseTime
<1> HIDE DEF since
<1>4. /\ new \in NameState /\ InOrder(new, now)
      /\ new.begin_time = now /\ new.begin_deposit = deposit /\ new.rate = rate
    BY <1>2, <1>3 DEF NameState, InOrder
<1>5. /\ new.owner = sender /\ new.controller = None /\ new.previous_owner = None
      /\ new.previous_transition_reference_time = 0
      /\ new.transition_reference_time <= now
    BY <1>3
<1> HIDE DEF new
<1>6. WellFormed(new, now)
    BY <1>1, <1>2, <1>4, BegunNow
<1> QED BY <1>1, <1>4, <1>5, <1>6

LEMMA BidNewKeepsInv ==
    ASSUME AuctionInv, NEW sender \in Addrs, NEW name \in Names, NEW rate \in Rates,
           NEW deposit \in Deposits, UNCHANGED now,
           execute_bid_new(sender, name, rate, deposit)
    PROVE  AuctionInv'
<1>1. PICK new : Store(name, new) /\ WellFormed(new, now)
    BY BidNewRecord
<1>2. outbox' \in Seq(Message)
    <2> DEFINE S == Seq(Message)
               sent == Send(collector_addr, deposit)
    <2>1. outbox' = IF deposit = 0 THEN <<>> ELSE sent
        BY DEF execute_bid_new
    <2>2. deposit \in Nat
        BY AuctionAssumption
    <2>3. sent \in S
        BY <2>2, MessagesTyped
    <2>4. <<>> \in S
        OBVIOUS
    <2> HIDE DEF S, sent
    <2>5. outbox' \in S
        BY <2>1, <2>3, <2>4
    <2> QED BY <2>5 DEF S
<1> QED BY <1>1, <1>2, StoreKeepsInv

\* The allowance for funding, taken exactly: the deposit of a record may grow
\* to the price of max_lease_secs from the block time on.
LEMMA FundingExact ==
    ASSUME NEW st, NEW t \in Nat, WellFormed(st, t), NEW combined \in Nat,
           combined <= max_allowed_deposit(st, t)
    PROVE  combined * RATE_SEC_DENOM <= (max_lease_secs + (t - st.begin_time)) * st.rate
<1>1. /\ st.rate \in Nat /\ st.begin_time \in Nat /\ st.begin_time <= t
    BY DEF WellFormed, NameState, InOrder
<1>2. max_lease_secs + (t - st.begin_time) \in Nat
    BY <1>1, ConfigTypes
<1>3. combined <= deposit_from_seconds_floor(max_lease_secs + (t - st.begin_time), st.rate)
    BY <1>1 DEF max_allowed_deposit, seconds_spent_since_bid
<1> QED BY <1>1, <1>2, <1>3, FloorAdjunction

\* A record that differs from st in the deposit alone, which has grown, lasts
\* at least as long.
LEMMA MoreDepositLastsLonger ==
    ASSUME NEW st, NEW new, NEW t \in Nat, t <= MaxTime,
           WellFormed(st, t), WellFormed(new, t), ~Expired(st, t),
           new.rate = st.rate, new.begin_time = st.begin_time,
           new.begin_deposit >= st.begin_deposit
    PROVE  ~Expired(new, t)
<1> DEFINE s == t - st.begin_time
<1>1. /\ s \in Nat /\ st.rate \in Nat /\ st.begin_deposit \in Nat
      /\ new.begin_deposit \in Nat
    BY DEF WellFormed, NameState, InOrder
<1>2. ~DepositUsedUp(st, t)
    BY DEF Expired
<1>3. SUFFICES ASSUME st.rate # 0 PROVE max_seconds(new) > s
    BY ExpiredOnlyByDeposit, <1>1, LeaseLength
    DEF DepositUsedUp, seconds_spent_since_bid, WellFormed
<1>4. max_seconds(st) \in Nat /\ s + 1 <= max_seconds(st)
    BY <1>1, <1>2, <1>3, LeaseLength DEF DepositUsedUp, seconds_spent_since_bid
<1>5. (s + 1) * st.rate <= st.begin_deposit * RATE_SEC_DENOM
    BY <1>1, <1>3, <1>4, LeaseLength
<1>6. st.begin_deposit * RATE_SEC_DENOM <= new.begin_deposit * RATE_SEC_DENOM
    BY <1>1, ConfigTypes, ProductMonotone
<1>7. (s + 1) * st.rate <= new.begin_deposit * RATE_SEC_DENOM
    BY <1>1, <1>5, <1>6, ConfigTypes, ProductInNat
<1>8. s + 1 <= max_seconds(new) /\ max_seconds(new) \in Nat
    BY <1>1, <1>3, <1>7, LeaseLength
<1> QED BY <1>1, <1>8

\* The record a funding leaves behind.
LEMMA FundRecord ==
    ASSUME AuctionInv, NEW name \in Names, NEW owner \in Addrs, NEW deposit \in Deposits,
           FundName(name, owner, deposit)
    PROVE  LET st == name_states[name]
           IN  /\ name \in Stored
               /\ \E new \in NameState :
                    /\ Store(name, new)
                    /\ WellFormed(new, now)
                    /\ new.begin_time = st.begin_time
                    /\ new.begin_deposit = st.begin_deposit + deposit
                    /\ new.owner = st.owner
                    /\ new.rate = st.rate
                    /\ new.controller = st.controller
                    /\ new.previous_owner = st.previous_owner
                    /\ new.transition_reference_time = st.transition_reference_time
                    /\ new.previous_transition_reference_time
                         = st.previous_transition_reference_time
<1> DEFINE st == name_states[name]
           combined == deposit + st.begin_deposit
           new == [st EXCEPT !.begin_deposit = combined]
<1>1. /\ name \in Stored /\ combined <= max_allowed_deposit(st, now)
      /\ Store(name, new)
    BY DEF FundName, funded
<1>2. now \in Nat /\ st \in NameState /\ WellFormed(st, now)
    BY <1>1, StoredRecord
<1>3. /\ deposit \in Nat /\ st.begin_deposit \in Nat /\ combined \in Nat
      /\ combined = st.begin_deposit + deposit
    BY <1>2, AuctionAssumption DEF NameState
<1>4. combined * RATE_SEC_DENOM <= (max_lease_secs + (now - st.begin_time)) * st.rate
    BY <1>1, <1>2, <1>3, FundingExact
<1>5. min_lease_secs * st.rate <= combined * RATE_SEC_DENOM
    <2>1. st.rate \in Nat /\ min_lease_secs * st.rate <= st.begin_deposit * RATE_SEC_DENOM
        BY <1>2 DEF WellFormed, DepositWithin, NameState
    <2>2. st.begin_deposit * RATE_SEC_DENOM <= combined * RATE_SEC_DENOM
        BY <1>3, ConfigTypes, ProductMonotone
    <2> QED BY <2>1, <2>2, <1>3, ConfigTypes, ProductInNat
<1> HIDE DEF st, combined
<1>6. new \in NameState
    BY <1>2, <1>3 DEF NameState
<1>7. /\ new.begin_deposit = combined /\ new.rate = st.rate
      /\ new.begin_time = st.begin_time /\ new.owner = st.owner
      /\ new.controller = st.controller /\ new.previous_owner = st.previous_owner
      /\ new.transition_reference_time = st.transition_reference_time
      /\ new.previous_transition_reference_time = st.previous_transition_reference_time
    BY <1>2 DEF NameState
<1> HIDE DEF new
<1>8. WellFormed(new, now)
    BY <1>2, <1>4, <1>5, <1>6, <1>7 DEF WellFormed, InOrder, DepositWithin
<1> QED BY <1>1, <1>3, <1>6, <1>7, <1>8 DEF st

LEMMA FundKeepsInv ==
    ASSUME AuctionInv, NEW name \in Names, NEW owner \in Addrs, NEW deposit \in Deposits,
           FundName(name, owner, deposit)
    PROVE  AuctionInv'
<1>1. PICK new : Store(name, new) /\ WellFormed(new, now)
    BY FundRecord
<1>2. name \in Stored /\ outbox' = Send(collector_addr, deposit) /\ UNCHANGED now
    BY DEF FundName, funded
<1>3. outbox' \in Seq(Message)
    BY <1>2, StoredRecord, MessagesTyped, AuctionAssumption DEF NameState
<1> QED BY <1>1, <1>2, <1>3, StoreKeepsInv

\* The record a change of the rate leaves behind.
LEMMA SetRateRecord ==
    ASSUME AuctionInv, NEW sender \in Addrs, NEW name \in Names, NEW rate \in Rates,
           SetNameRate(sender, name, rate)
    PROVE  LET st == name_states[name]
           IN  /\ name \in Stored /\ Settled(st, now)
               /\ \E new \in NameState :
                    /\ Store(name, new)
                    /\ WellFormed(new, now)
                    /\ new.begin_time = now
                    /\ new.begin_deposit = deposit_left(st, now)
                    /\ new.owner = st.owner
                    /\ new.rate = rate
                    /\ new.controller = st.controller
                    /\ new.previous_owner = st.owner
                    /\ new.transition_reference_time = st.transition_reference_time
                    /\ new.previous_transition_reference_time = st.transition_reference_time
<1> DEFINE st == name_states[name]
           left == deposit_left(st, now)
           new == [st EXCEPT !.rate = rate,
                             !.begin_time = now,
                             !.begin_deposit = left,
                             !.previous_owner = st.owner,
                             !.previous_transition_reference_time =
                                 st.transition_reference_time]
<1>1. /\ name \in Stored /\ LeaseAllowed(left, rate) /\ Store(name, new) /\ Settled(st, now)
    BY DEF SetNameRate, can_set_rate
<1>2. now \in Nat /\ st \in NameState /\ WellFormed(st, now) /\ InOrder(st, now)
    BY <1>1, StoredRecord
<1>3. rate \in Nat /\ left \in Nat
    BY <1>2, DepositLeft, AuctionAssumption
<1> HIDE DEF st, left
<1>4. new \in NameState
    BY <1>2, <1>3 DEF NameState
<1>5. /\ new.begin_time = now /\ new.begin_deposit = left /\ new.rate = rate
      /\ new.owner = st.owner /\ new.controller = st.controller
      /\ new.previous_owner = st.owner
      /\ new.transition_reference_time = st.transition_reference_time
      /\ new.previous_transition_reference_time = st.transition_reference_time
    BY <1>2 DEF NameState
<1> HIDE DEF new
<1>6. InOrder(new, now)
    BY <1>2, <1>4, <1>5 DEF NameState, InOrder
<1>7. WellFormed(new, now)
    BY <1>1, <1>2, <1>4, <1>5, <1>6, BegunNow
<1> QED BY <1>1, <1>4, <1>5, <1>7 DEF st, left

LEMMA SetRateKeepsInv ==
    ASSUME AuctionInv, NEW sender \in Addrs, NEW name \in Names, NEW rate \in Rates,
           SetNameRate(sender, name, rate)
    PROVE  AuctionInv'
<1>1. PICK new : Store(name, new) /\ WellFormed(new, now)
    BY SetRateRecord
<1>2. outbox' \in Seq(Message) /\ UNCHANGED now
    BY DEF SetNameRate
<1> QED BY <1>1, <1>2, StoreKeepsInv

\* Two records that agree on everything but accounts.
SameTerms(st, new) ==
    /\ new.rate = st.rate
    /\ new.begin_time = st.begin_time
    /\ new.begin_deposit = st.begin_deposit
    /\ new.transition_reference_time = st.transition_reference_time
    /\ new.previous_transition_reference_time = st.previous_transition_reference_time

\* The record a transfer or a change of the controller leaves behind: accounts
\* do not matter to the invariant.
LEMMA RenamedRecord ==
    ASSUME AuctionInv, NEW name \in Stored, NEW a \in Addrs
    PROVE  LET st == name_states[name]
           IN  /\ \E new \in NameState :
                    /\ new = [st EXCEPT !.owner = a]
                    /\ new.owner = a /\ new.previous_owner = st.previous_owner
                    /\ WellFormed(new, now) /\ SameTerms(st, new)
               /\ \E new \in NameState :
                    /\ new = [st EXCEPT !.previous_owner = a]
                    /\ new.owner = st.owner /\ new.previous_owner = a
                    /\ WellFormed(new, now) /\ SameTerms(st, new)
               /\ \E new \in NameState :
                    /\ new = [st EXCEPT !.controller = a]
                    /\ new.owner = st.owner /\ new.previous_owner = st.previous_owner
                    /\ WellFormed(new, now) /\ SameTerms(st, new)
<1> DEFINE st == name_states[name]
<1>1. st \in NameState /\ WellFormed(st, now)
    BY StoredRecord
<1>2. ASSUME NEW new \in NameState, SameTerms(st, new)
      PROVE  WellFormed(new, now)
    BY <1>1, <1>2 DEF WellFormed, InOrder, DepositWithin, SameTerms
<1> HIDE DEF st
<1>3. LET new == [st EXCEPT !.owner = a]
      IN  new \in NameState /\ SameTerms(st, new)
            /\ new.owner = a /\ new.previous_owner = st.previous_owner
    BY <1>1 DEF NameState, SameTerms
<1>4. LET new == [st EXCEPT !.previous_owner = a]
      IN  new \in NameState /\ SameTerms(st, new)
            /\ new.owner = st.owner /\ new.previous_owner = a
    BY <1>1 DEF NameState, SameTerms
<1>5. LET new == [st EXCEPT !.controller = a]
      IN  new \in NameState /\ SameTerms(st, new)
            /\ new.owner = st.owner /\ new.previous_owner = st.previous_owner
    BY <1>1 DEF NameState, SameTerms
<1> QED BY <1>2, <1>3, <1>4, <1>5 DEF st

LEMMA TransferKeepsInv ==
    ASSUME AuctionInv, NEW sender \in Addrs, NEW name \in Names, NEW to \in Addrs,
           TransferNameOwner(sender, name, to)
    PROVE  AuctionInv'
<1>1. name \in Stored /\ outbox' \in Seq(Message) /\ UNCHANGED now
    BY DEF TransferNameOwner
<1>2. PICK new : Store(name, new) /\ WellFormed(new, now)
    BY <1>1, RenamedRecord DEF TransferNameOwner
<1> QED BY <1>1, <1>2, StoreKeepsInv

LEMMA SetControllerKeepsInv ==
    ASSUME AuctionInv, NEW sender \in Addrs, NEW name \in Names, NEW controller \in Addrs,
           SetNameController(sender, name, controller)
    PROVE  AuctionInv'
<1>1. name \in Stored /\ outbox' \in Seq(Message) /\ UNCHANGED now
    BY DEF SetNameController
<1>2. PICK new : Store(name, new) /\ WellFormed(new, now)
    BY <1>1, RenamedRecord DEF SetNameController
<1> QED BY <1>1, <1>2, StoreKeepsInv

LEMMA TickKeepsInv ==
    ASSUME AuctionInv, Tick
    PROVE  AuctionInv'
<1>1. now \in Nat /\ now' \in Nat /\ now <= now' /\ now' \in StartTime .. MaxTime
    BY ConfigTypes DEF AuctionInv, TypeOK, Tick
<1>2. TypeOK'
    BY <1>1 DEF AuctionInv, TypeOK, Tick
<1>3. \A name \in Stored : WellFormed(name_states[name], now')
    BY <1>1, WellFormedLater DEF AuctionInv
<1>4. \A name \in Stored' : WellFormed(name_states[name], now)'
    BY <1>3 DEF Tick, Stored, WellFormed, InOrder, DepositWithin
<1> QED BY <1>2, <1>4 DEF AuctionInv

LEMMA InitEstablishesInv == Init => AuctionInv
    BY ConfigTypes DEF Init, AuctionInv, TypeOK, Stored

LEMMA StepKeepsInv == AuctionInv /\ [Next]_vars => AuctionInv'
<1> SUFFICES ASSUME AuctionInv, [Next]_vars PROVE AuctionInv'
    OBVIOUS
<1>1. CASE Tick
    BY <1>1, TickKeepsInv
<1>2. ASSUME NEW sender \in Addrs, NEW name \in Names, Transaction(sender, name)
      PROVE  AuctionInv'
    <2>1. ASSUME NEW rate \in Rates, NEW deposit \in Deposits,
                 BidName(sender, name, rate, deposit)
          PROVE  AuctionInv'
        BY <2>1, BidExistingKeepsInv, BidNewKeepsInv DEF BidName
    <2>2. ASSUME NEW owner \in Addrs, NEW deposit \in Deposits,
                 FundName(name, owner, deposit)
          PROVE  AuctionInv'
        BY <2>2, FundKeepsInv
    <2>3. ASSUME NEW rate \in Rates, SetNameRate(sender, name, rate)
          PROVE  AuctionInv'
        BY <2>3, SetRateKeepsInv
    <2>4. ASSUME NEW to \in Addrs, TransferNameOwner(sender, name, to)
          PROVE  AuctionInv'
        BY <2>4, TransferKeepsInv
    <2>5. ASSUME NEW controller \in Addrs, SetNameController(sender, name, controller)
          PROVE  AuctionInv'
        BY <2>5, SetControllerKeepsInv
    <2> QED BY <1>2, <2>1, <2>2, <2>3, <2>4, <2>5 DEF Transaction
<1>3. CASE UNCHANGED vars
    BY <1>3 DEF vars, AuctionInv, TypeOK, Stored, WellFormed, InOrder, DepositWithin
<1> QED BY <1>1, <1>2, <1>3 DEF Next

\* Every reachable state satisfies the invariant.
THEOREM AuctionInvariance == Spec => []AuctionInv
<1> QED BY InitEstablishesInv, StepKeepsInv, PTL DEF Spec

----------------------------------------------------------------------------
(* What follows.                                                           *)

\* Stored records, messages and the clock keep their types: no handler ever
\* sends a negative amount.
THEOREM AuctionTypes == Spec => []TypeOK
<1>1. AuctionInv => TypeOK
    BY DEF AuctionInv
<1> QED BY <1>1, AuctionInvariance, PTL

\* No record's times run ahead of each other or of the block time, so no lease
\* is revoked by the branches of owner_status that guard against that.
THEOREM TimesStayOrdered == Spec => []TimesOrdered
<1>1. AuctionInv => TimesOrdered
    BY DEF AuctionInv, WellFormed, InOrder, TimesOrdered
<1> QED BY <1>1, AuctionInvariance, PTL

\* Whatever sequence of bids, fundings and rate changes led to a lease, it
\* bought the minimum and does not reach further than the maximum ahead.
THEOREM LeasesStayWithinBounds == Spec => []LeaseWithinBounds
<1>1. AuctionInv => LeaseWithinBounds
    <2> SUFFICES ASSUME AuctionInv, NEW name \in Stored
                 PROVE  LET st == name_states[name]
                        IN  IF st.rate = 0 THEN st.begin_deposit = 0
                            ELSE /\ max_seconds(st) >= min_lease_secs
                                 /\ expire_time(st) <= now + max_lease_secs
        BY DEF LeaseWithinBounds
    <2> DEFINE st == name_states[name]
    <2>1. /\ now \in Nat /\ now <= MaxTime /\ WellFormed(st, now)
          /\ st.rate \in Nat /\ st.begin_deposit \in Nat /\ st.begin_time \in Nat
          /\ st.begin_time <= now
        BY StoredRecord DEF NameState, InOrder
    <2>2. CASE st.rate = 0
        <3>1. st.begin_deposit * RATE_SEC_DENOM <= (max_lease_secs + (now - st.begin_time)) * 0
            BY <2>1, <2>2 DEF WellFormed, DepositWithin
        <3>2. (max_lease_secs + (now - st.begin_time)) * 0 = 0
            BY <2>1, ConfigTypes
        <3>3. 1 <= st.begin_deposit
                => 1 * RATE_SEC_DENOM <= st.begin_deposit * RATE_SEC_DENOM
            BY <2>1, ConfigTypes, ProductMonotone
        <3> QED BY <3>1, <3>2, <3>3, <2>1, <2>2, ConfigTypes
    <2>3. CASE st.rate # 0
        BY <2>1, <2>3, LeaseLength, ConfigTypes DEF expire_time
    <2> QED BY <2>2, <2>3
<1> QED BY <1>1, AuctionInvariance, PTL

\* The rent charged never exceeds the deposit while a lease lasts, for every
\* rate and every length: the rounded conversions agree with each other.
THEOREM RentStaysCovered == Spec => []SpentWithinDeposit
<1>1. AuctionInv => SpentWithinDeposit
    BY StoredRecord, RentCovered DEF SpentWithinDeposit
<1> QED BY <1>1, AuctionInvariance, PTL

=============================================================================
