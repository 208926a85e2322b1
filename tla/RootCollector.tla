--------------------------- MODULE RootCollector ---------------------------
(***************************************************************************)
(* The terranames_root_collector contract: it takes the deposits of the    *)
(* auction and shares them among the accounts that stake the base token.   *)
(* A share is not paid out when a deposit arrives: the contract adds the   *)
(* deposit per staked token to a global multiplier, and an account's       *)
(* dividend is what the multiplier has gained since the account last       *)
(* touched its stake.  Unstaked tokens are returned after unstake_delay.   *)
(***************************************************************************)
EXTENDS TerraTax, FiniteSets

CONSTANTS
    Stakers,            \* accounts
    base_token,         \* the token contract whose tokens are staked
    NoTime,             \* Option::None of a time
    NoState,            \* nothing stored for an account
    TokenAmounts,       \* base token amounts a message may name
    DepositAmounts,     \* stablecoin amounts a message may carry
    TokenSupply,        \* base tokens each account starts with
    MaxFunds,           \* bound of the stablecoin sent to the contract
    MaxMultiplier,      \* Decimal::MAX in atomics
    unstake_delay,
    StartTime, MaxTime  \* bounds of the block time

ASSUME RootCollectorAssumption ==
    /\ IsFiniteSet(Stakers)
    /\ base_token \notin Stakers
    /\ NoTime \notin Nat
    /\ TokenAmounts \subseteq Nat
    /\ DepositAmounts \subseteq Nat
    /\ {TokenSupply, MaxFunds, MaxMultiplier, unstake_delay, StartTime, MaxTime} \subseteq Nat
    /\ StartTime <= MaxTime

VARIABLES
    now,            \* block time in seconds
    state,          \* State: multiplier (in atomics), total_staked, residual
    stake_states,   \* the bucket of StakeState records
    funds,          \* stablecoin the bank holds for the contract (external)
    wallets         \* base tokens each account holds (external)

vars == <<now, state, stake_states, funds, wallets>>

State == [multiplier : Nat, total_staked : Nat, residual : Nat]

StakeState ==
    [ staked_amount : Nat,
      unstaking_amount : Nat,
      unstaking_begin_time : Nat \union {NoTime},
      unstaked_amount : Nat,
      multiplier : Nat,
      dividend : Nat ]

ASSUME NoStakeAssumption == NoState \notin StakeState

----------------------------------------------------------------------------
(* impl StakeState.                                                        *)

\* What a staked amount earned between two values of the multiplier.
earned(staked_amount, from, to) ==
    IF to <= from THEN 0 ELSE (staked_amount * (to - from)) \div DECIMAL_FRACTION

dividend(stake, global_multiplier) ==
    stake.dividend + earned(stake.staked_amount, stake.multiplier, global_multiplier)

\* Mutant: the stake keeps its old multiplier.
multiplier_not_advanced(stake, global_multiplier) ==
    [stake EXCEPT !.dividend = dividend(stake, global_multiplier)]

update_dividend(stake, global_multiplier) ==
    [stake EXCEPT !.dividend = dividend(stake, global_multiplier),
                  !.multiplier = global_multiplier]

\* The condition in update_unstaked_amount, which handlers use.
delay_over(stake, t) ==
    /\ stake.unstaking_begin_time # NoTime
    /\ stake.unstaking_begin_time + unstake_delay <= t

\* Mutant: tokens that were unstaked before and not withdrawn are forgotten.
unstaked_overwritten(stake, t) ==
    IF delay_over(stake, t)
    THEN [stake EXCEPT !.unstaked_amount = stake.unstaking_amount,
                       !.unstaking_amount = 0,
                       !.unstaking_begin_time = NoTime]
    ELSE stake

update_unstaked_amount(stake, t) ==
    IF delay_over(stake, t)
    THEN [stake EXCEPT !.unstaked_amount = @ + stake.unstaking_amount,
                       !.unstaking_amount = 0,
                       !.unstaking_begin_time = NoTime]
    ELSE stake

\* The condition in unstaking_unstaked_amount, which the query uses.
delay_past(stake, t) ==
    /\ stake.unstaking_begin_time # NoTime
    /\ stake.unstaking_begin_time + unstake_delay < t

unstaking_unstaked_amount(stake, t) ==
    IF delay_past(stake, t)
    THEN [unstaking |-> 0, unstaked |-> stake.unstaked_amount + stake.unstaking_amount]
    ELSE [unstaking |-> IF stake.unstaking_begin_time = NoTime
                        THEN 0 ELSE stake.unstaking_amount,
          unstaked |-> stake.unstaked_amount]

query_stake_state(staker) ==
    LET stake  == stake_states[staker]
        amount == unstaking_unstaked_amount(stake, now)
    IN  [ staked_amount |-> stake.staked_amount,
          unstaking_amount |-> amount.unstaking,
          unstake_time |-> IF stake.unstaking_begin_time = NoTime THEN NoTime
                           ELSE stake.unstaking_begin_time + unstake_delay,
          unstaked_amount |-> amount.unstaked,
          multiplier |-> stake.multiplier,
          dividend |-> dividend(stake, state.multiplier) ]

----------------------------------------------------------------------------
(* The handlers.                                                           *)

Stored == {staker \in Stakers : stake_states[staker] # NoState}

StoreStake(staker, stake) == stake_states' = [stake_states EXCEPT ![staker] = stake]

\* instantiate
Init ==
    /\ now = StartTime
    /\ state = [multiplier |-> 0, total_staked |-> 0, residual |-> 0]
    /\ stake_states = [staker \in Stakers |-> NoState]
    /\ funds = 0
    /\ wallets = [staker \in Stakers |-> TokenSupply]

\* Mutant: the ratio is rounded up.
deposit_per_stake_ceil(deposit) ==
    IF state.total_staked = 0 THEN 0
    ELSE (deposit * DECIMAL_FRACTION + state.total_staked - 1) \div state.total_staked

\* Decimal::from_ratio(deposit, total_staked), rounded down to atomics.
deposit_per_stake(deposit) ==
    IF state.total_staked = 0 THEN 0
    ELSE (deposit * DECIMAL_FRACTION) \div state.total_staked

\* What a multiplier gain hands out to all stakers, rounded down.
handed_out(per_stake) == (per_stake * state.total_staked) \div DECIMAL_FRACTION

\* Anybody may deposit, also without sending anything.
Deposit(sent) ==
    LET deposit   == sent + state.residual
        per_stake == deposit_per_stake(deposit)
    IN  /\ funds + sent <= MaxFunds
        /\ state.multiplier + per_stake <= MaxMultiplier
        /\ state' = [state EXCEPT !.multiplier = @ + per_stake,
                                  !.residual = deposit - handed_out(per_stake)]
        /\ funds' = funds + sent
        /\ UNCHANGED <<now, stake_states, wallets>>

new_stake(amount) ==
    [ staked_amount |-> amount,
      unstaking_amount |-> 0,
      unstaking_begin_time |-> NoTime,
      unstaked_amount |-> 0,
      multiplier |-> state.multiplier,
      dividend |-> 0 ]

\* Mutant: a second stake replaces the first.
second_stake_replaces(staker, amount) == new_stake(amount)

topped_up(staker, amount) ==
    IF staker \in Stored
    THEN [update_dividend(stake_states[staker], state.multiplier)
            EXCEPT !.staked_amount = @ + amount]
    ELSE new_stake(amount)

\* Mutant: whoever calls Receive is believed.
anybody_may_call(sender) == TRUE

\* execute_receive accepts only the call of the token contract.
may_call_receive(sender) == sender = base_token

\* What a call of Receive with Stake {} brings with it.  The token contract
\* moves the tokens first and refuses an amount of zero; a call by anybody
\* else moves nothing, whatever it says (external).
tokens_moved(sender, staker, amount) ==
    IF sender = base_token
    THEN /\ amount # 0
         /\ amount <= wallets[staker]
         /\ wallets' = [wallets EXCEPT ![staker] = @ - amount]
    ELSE UNCHANGED wallets

ReceiveStake(sender, staker, amount) ==
    /\ may_call_receive(sender)
    /\ tokens_moved(sender, staker, amount)
    /\ StoreStake(staker, topped_up(staker, amount))
    /\ state' = [state EXCEPT !.total_staked = @ + amount]
    /\ UNCHANGED <<now, funds>>

\* Mutant: tokens that join others join the delay that has begun.
delay_not_restarted(stake, amount) ==
    [stake EXCEPT !.staked_amount = @ - amount,
                  !.unstaking_amount = @ + amount,
                  !.unstaking_begin_time = IF @ = NoTime THEN now ELSE @]

moved_to_unstaking(stake, amount) ==
    [stake EXCEPT !.staked_amount = @ - amount,
                  !.unstaking_amount = @ + amount,
                  !.unstaking_begin_time = now]

\* An amount of zero is accepted; the delay starts again for all that is
\* still unstaking.
UnstakeTokens(staker, amount) ==
    LET stake == update_unstaked_amount(
                     update_dividend(stake_states[staker], state.multiplier), now)
    IN  /\ staker \in Stored
        /\ amount <= stake_states[staker].staked_amount
        /\ StoreStake(staker, moved_to_unstaking(stake, amount))
        /\ state' = [state EXCEPT !.total_staked = @ - amount]
        /\ UNCHANGED <<now, funds, wallets>>

\* The token contract refuses to transfer zero tokens, and with it the
\* transaction fails (external).
send_tokens_msg(recipient, amount) ==
    /\ amount # 0
    /\ wallets' = [wallets EXCEPT ![recipient] = @ + amount]

WithdrawTokens(staker, amount, to) ==
    LET stake == update_unstaked_amount(stake_states[staker], now)
    IN  /\ staker \in Stored
        /\ amount <= stake.unstaked_amount
        /\ StoreStake(staker, [stake EXCEPT !.unstaked_amount = @ - amount])
        /\ send_tokens_msg(to, amount)
        /\ UNCHANGED <<now, state, funds>>

\* The dividend is sent less the tax on it.  The bank refuses a transfer of
\* nothing and one the contract cannot pay for, and with it the transaction
\* fails (external).
send_dividend_msg(amount) ==
    LET cost == transfer_cost(deduct_tax(amount))
    IN  /\ deduct_tax(amount) # 0
        /\ cost <= funds
        /\ funds' = funds - cost

WithdrawDividends(staker) ==
    LET stake == update_dividend(stake_states[staker], state.multiplier)
    IN  /\ staker \in Stored
        /\ stake.dividend # 0
        /\ send_dividend_msg(stake.dividend)
        /\ StoreStake(staker, [stake EXCEPT !.dividend = 0])
        /\ UNCHANGED <<now, state, wallets>>

\* A later block.
Tick ==
    /\ now' \in (now + 1) .. MaxTime
    /\ UNCHANGED <<state, stake_states, funds, wallets>>

Call ==
    \/ \E sent \in DepositAmounts : Deposit(sent)
    \/ \E staker \in Stakers :
         \/ \E amount \in TokenAmounts :
              \/ \E sender \in Stakers \union {base_token} : ReceiveStake(sender, staker, amount)
              \/ UnstakeTokens(staker, amount)
              \/ \E to \in Stakers : WithdrawTokens(staker, amount, to)
         \/ WithdrawDividends(staker)

Next == Tick \/ Call

Spec == Init /\ [][Next]_vars

----------------------------------------------------------------------------
(* Properties.                                                             *)

\* The sum of a function from accounts to naturals, by counting.
Total(amounts) == Cardinality(UNION {{staker} \X (1 .. amounts[staker]) : staker \in Stored})

TypeOK ==
    /\ now \in StartTime .. MaxTime
    /\ state \in State
    /\ stake_states \in [Stakers -> StakeState \union {NoState}]
    /\ funds \in Nat
    /\ wallets \in [Stakers -> Nat]

\* total_staked, by which deposits are divided, is what the accounts have
\* staked: neither the order of calls nor a delay that ends in the middle of
\* an unstaking lets the two drift apart.
TotalStakedIsSum ==
    state.total_staked
      = Total([staker \in Stored |-> stake_states[staker].staked_amount])

\* Every token given to the contract is staked, unstaking or unstaked for one
\* account: tokens are neither lost nor counted twice on their way out.
TokensBacked ==
    TokenSupply * Cardinality(Stakers)
      = Cardinality(UNION {{staker} \X (1 .. wallets[staker]) : staker \in Stakers})
        + Total([staker \in Stored |->
                   LET stake == stake_states[staker]
                   IN  stake.staked_amount + stake.unstaking_amount + stake.unstaked_amount])

\* Dividends and what no staker has a claim on add up to at most what the bank
\* holds: "Residual funds" (state.rs, State) are left over.
Solvent ==
    state.residual
      + Total([staker \in Stored |-> dividend(stake_states[staker], state.multiplier)])
        <= funds

\* "Return full unstaked amount" (state.rs, unstaking_unstaked_amount): the
\* query reports what WithdrawTokens would pay at the same block time.
QueryAgreesWithWithdraw ==
    \A staker \in Stored :
        query_stake_state(staker).unstaked_amount
          = update_unstaked_amount(stake_states[staker], now).unstaked_amount

=============================================================================
