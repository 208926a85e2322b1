----------------------------- MODULE TerraNames -----------------------------
(***************************************************************************)
(* The contracts together: the auction, the resolver that queries it and   *)
(* the root collector that is paid by it.  The messages a call of the      *)
(* auction returns are delivered in its transaction, one after the other:  *)
(* a refund to an account, and the rest to the collector's Deposit.  When  *)
(* one of them fails the whole call fails.                                 *)
(***************************************************************************)
EXTENDS Resolver, FiniteSets

CONSTANTS
    Stakers, base_token, NoTime, TokenAmounts, DepositAmounts, TokenSupply,
    MaxFunds, MaxMultiplier, unstake_delay      \* as in RootCollector

VARIABLES
    auction_funds,      \* stablecoin the bank holds for the auction (external)
    collector_state,    \* the collector's variables
    stake_states,
    collector_funds,
    wallets

Collector == INSTANCE RootCollector WITH state <- collector_state, funds <- collector_funds

\* The constants of the collector are as RootCollector needs them.
ASSUME CollectorAssumption ==
    /\ IsFiniteSet(Stakers)
    /\ base_token \notin Stakers
    /\ NoTime \notin Nat
    /\ TokenAmounts \subseteq Nat
    /\ DepositAmounts \subseteq Nat
    /\ {TokenSupply, MaxFunds, MaxMultiplier, unstake_delay} \subseteq Nat
    /\ NoState \notin Collector!StakeState

collector_vars == <<collector_state, stake_states, collector_funds, wallets>>

system_vars == <<resolver_vars, auction_funds, collector_vars>>

SystemInit ==
    /\ ResolverInit
    /\ auction_funds = 0
    /\ Collector!Init

----------------------------------------------------------------------------
(* Delivery of what the auction returns.                                   *)

\* The bank refuses to send nothing (external).
NoneEmpty(messages) == \A i \in 1 .. Len(messages) : messages[i].amount # 0

cost(messages, i) == IF i <= Len(messages) THEN transfer_cost(messages[i].amount) ELSE 0

\* A call returns at most a refund and a message to the collector.
total_cost(messages) == cost(messages, 1) + cost(messages, 2)

\* The message to the collector is the last.
to_collector(messages) == messages[Len(messages)].amount

\* The auction pays for its messages out of what the bank holds for it, the
\* money sent with the call included (external); send_to_collector_msg calls
\* Deposit.
Deliver(deposit, messages) ==
    /\ NoneEmpty(messages)
    /\ total_cost(messages) <= auction_funds + deposit
    /\ auction_funds' = auction_funds + deposit - total_cost(messages)
    /\ IF messages = <<>> THEN UNCHANGED collector_vars
       ELSE Collector!Deposit(to_collector(messages))

----------------------------------------------------------------------------
(* The system.                                                             *)

SystemBid(sender, name, rate, deposit) ==
    /\ BidName(sender, name, rate, deposit)
    /\ Deliver(deposit, outbox')

SystemFund(name, owner, deposit) ==
    /\ FundName(name, owner, deposit)
    /\ Deliver(deposit, outbox')

\* The other calls of the auction move no money.
UnpaidCall(sender, name) ==
    /\ \/ \E rate \in Rates : SetNameRate(sender, name, rate)
       \/ \E to \in Addrs : TransferNameOwner(sender, name, to)
       \/ \E controller \in Addrs : SetNameController(sender, name, controller)
    /\ UNCHANGED <<auction_funds, collector_vars>>

AuctionCall(sender, name) ==
    \/ \E rate \in Rates, deposit \in Deposits : SystemBid(sender, name, rate, deposit)
    \/ \E owner \in Addrs, deposit \in Deposits : SystemFund(name, owner, deposit)
    \/ UnpaidCall(sender, name)

SystemNext ==
    \/ Tick /\ UNCHANGED <<name_values, auction_funds, collector_vars>>
    \/ \E sender \in Addrs, name \in Names :
         \/ AuctionCall(sender, name) /\ UNCHANGED name_values
         \/ /\ \E value \in Values \union {None} : SetNameValue(sender, name, value)
            /\ UNCHANGED <<auction_funds, collector_vars>>
    \/ Collector!Call /\ UNCHANGED <<resolver_vars, auction_funds>>

SystemSpec == SystemInit /\ [][SystemNext]_system_vars

----------------------------------------------------------------------------
(* Properties.                                                             *)

\* Room for another deposit: within the bound MaxFunds, and within the range of
\* the collector's multiplier.
CollectorHasRoom(sent) ==
    LET deposit == sent + collector_state.residual
    IN  /\ collector_funds + sent <= MaxFunds
        /\ collector_state.multiplier + Collector!deposit_per_stake(deposit) <= MaxMultiplier

Deliverable(messages) ==
    /\ NoneEmpty(messages)
    /\ messages # <<>> => CollectorHasRoom(to_collector(messages))

\* A bid or a funding that the auction accepts also succeeds: the refund and the
\* deposit it passes on can always be paid for out of the money sent with it,
\* whatever was bid before.  Two things can still make it fail, a message that
\* is taxed down to nothing and a collector at the end of its multiplier.
AcceptedCallsSucceed ==
    \A name \in Names, account \in Addrs, deposit \in Deposits :
        /\ \A rate \in Rates :
             ENABLED (BidName(account, name, rate, deposit) /\ Deliverable(outbox'))
               => ENABLED SystemBid(account, name, rate, deposit)
        /\ ENABLED (FundName(name, account, deposit) /\ Deliverable(outbox'))
             => ENABLED SystemFund(name, account, deposit)

\* The auction keeps nothing of what it is sent but what the rounding of the tax
\* leaves over, at most two units for each message, and never spends what
\* earlier calls left: no deposit is stuck in the contract or paid from
\* another one's.
AuctionKeepsOnlyDust ==
    [][ auction_funds' - auction_funds \in 0 .. 2 * Len(outbox') ]_system_vars

=============================================================================
