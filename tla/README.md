# Terra Names in TLA+

Terra Names leases names on the Terra blockchain. An account bids a rate and
pays a deposit; while the deposit lasts it may hold the name, and anybody may
take it over by bidding a higher rate, after a delay in which the holder can
answer. What the leases cost is shared among the accounts that stake the base
token. Three CosmWasm contracts do this: `terranames_auction`,
`terranames_resolver` and `terranames_root_collector`, over the shared package
`terranames`.

This directory holds TLA+ models of the contracts, TLC configurations that
check them on small instances, and TLAPS proofs of theorems about them for
every value of the constants.

    tlc -config MCAuctionLedger.cfg MCAuctionLedger   # model-check one run
    tlapm AuctionProofs.tla                           # check the proofs of a module

`PROJECT.json` lists the runs with their properties, the source lines of every
definition, the mutants that show that each property can fail, the hazards the
properties are for, and the findings.

## Inventory

### How the chain runs the contracts

A transaction is one message to one contract. The chain runs transactions one
at a time; the messages a handler returns run in the same transaction, and if
anything fails, the handler or one of its messages, nothing of the transaction
remains. So a handler is one atomic step. There are no threads, no callbacks,
no retries, and nothing a contract does by itself: time passes between blocks
(any number of transactions may carry the same second), and what time changes
is seen only when somebody asks. What is hard here is not concurrency inside a
handler but long sequences of legal calls by accounts with different interests,
the times at which they land, and arithmetic that rounds.

### Components

| component | state | operations | correct when |
|---|---|---|---|
| auction (`contracts/terranames_auction`) | one `NameState` per name: owner (highest bidder), controller, rate, `begin_time`, `begin_deposit`, the owner before, two reference times | `BidName`, `FundName`, `SetNameRate`, `TransferNameOwner`, `SetNameController`; queries | nobody loses a name but by giving it, by time and a standing bid, or by the end of the lease; a bid under contest is binding; rent is charged once and fully; leases stay within the allowed length; queries answer and agree with the handlers |
| lease arithmetic (`packages/terranames/src/auction.rs`) | none | seconds to deposit (down, up), deposit to seconds | the roundings agree, no truncation |
| tax (`packages/terranames/src/terra.rs`) | none | `calculate_tax`, `deduct_tax` | a transfer and the tax on it fit in the amount |
| resolver (`contracts/terranames_resolver`) | one value per name | `SetNameValue`, `ResolveName` | values are set only under a live lease; expired names say so |
| root collector (`contracts/terranames_root_collector`) | `State` (multiplier, total staked, residual), one `StakeState` per account | `Deposit`, `Receive`(`Stake`), `UnstakeTokens`, `WithdrawTokens`, `WithdrawDividends`; queries | a dividend is a share of the deposits made while the tokens were staked; claims are covered; tokens return after the delay, once |
| paging (`GetAllNameStates`) | none; the client keeps its place | a page of names after a given name | a client that reads on meets every name once and comes to the end |
| bank, treasury, cw20 token | external | transfers, tax rate and cap, `Send` and `Transfer` of tokens | |

How they interact: the auction sends deposits to the collector (`Deposit`) and
refunds to bidders through the bank; the resolver queries the auction
(`GetNameState`) inside its own transaction; the token contract calls the
collector's `Receive`; the collector pays dividends through the bank and tokens
through the token contract. Every amount of stablecoin that is sent is reduced
by the tax first.

### What the status of a name depends on

`owner_status` derives everything from the record and the block time: *Expired*
when the deposit is used up, else *CounterDelay* for `counter_delay_secs` after
`begin_time` (the name belongs to `previous_owner`, the bid to `owner`), else
*TransitionDelay* or *Valid* (the name belongs to `owner`; they differ only in
what clients are told). `SetNameRate` writes a new `begin_time`, so that it
starts a counter delay in which the holder is its own challenger.

## Modules

| module | models | extends |
|---|---|---|
| `LeaseMath` | the three lease conversions, with the 64-bit cut | |
| `TerraTax` | tax deduction, and the tax the chain takes (external) | |
| `Auction` | the auction contract: state, every execute message, the query of a name | `LeaseMath`, `TerraTax` |
| `AuctionLedger` | the auction with the exact rent kept beside it | `Auction` |
| `NameRegistry` | what the auction promises about who has a name | |
| `AuctionRefinement` | the mapping under which the auction implements `NameRegistry` | `Auction` |
| `NamePaging` | `GetAllNameStates`, a client that reads page after page, and bidders beside it | |
| `AuctionPaging` | the mapping under which the auction implements `NamePaging` | `Auction` |
| `PagedAuction` | the auction with a client that lists its names | `AuctionPaging` |
| `Resolver` | the resolver beside the auction it queries | `Auction` |
| `TerraNames` | the three contracts together, messages delivered in the transaction that sends them | `Resolver`; `RootCollector` by `INSTANCE` |
| `RootCollector` | the collector, with the bank balance and token wallets it depends on | `TerraTax` |
| `DividendLedger` | the collector with every account credited at every deposit | `RootCollector` |
| `UnstakeLedger` | the collector with the time of every unstaking | `RootCollector` |
| `TokenVault` | what the collector promises about tokens | |
| `CollectorRefinement` | the mapping under which the collector implements `TokenVault` | `RootCollector` |
| `Rounding` | the arithmetic over bounded inputs | `LeaseMath`, `TerraTax` |
| `TerraTaxTheorems`, `AuctionProofs`, `RoundingProofs`, `TerraNamesProofs`, `NamePagingProofs`, `RootCollectorProofs`, `DividendLedgerProofs`, `UnstakeLedgerProofs` | proofs | |

The `MC...` modules add the model values and the symmetry of the accounts.
Accounts are interchangeable: no definition orders or names one. The runs that
check a liveness property (`auction_registry`, `paging`) use no symmetry.

### How state and actions correspond to the code

*Auction.* `name_states` is the storage bucket: a function from names to
records of the type `NameState`, with `NoState` where nothing is stored. `now`
is the block time. `outbox` holds the bank and collector messages of the last
transaction, with the amounts after deduction of the tax; amounts that are zero
before deduction send no message where the code skips them. The contract keeps
no balance of its own in storage. Each execute message is an action whose guard
is the conjunction of the checks (each early return negated) and whose primed
record is what `store_name_state` saves: `BidName` is `execute_bid` with
`execute_bid_existing` or `execute_bid_new` inside, `FundName` is
`execute_fund`, and so on. `owner_status` is split into the predicates
`Expired`, `CounterDelay`, `Settled` (Valid or TransitionDelay) and the
functions `name_owner`, `bid_owner`, `reference_time` and `lapse_time` that read
the fields of the status. The sender of `FundName` does not matter to it and is
left out.

*Resolver.* `name_values` is its bucket. The query of the auction is
`create_name_state_response`, and fails when `query_name_state_answers` is
false.

*Paging.* Names are sequences of bytes in `NamePaging`, since what the query
does depends on their order: `calc_range_start_str` appends a zero byte to make
the first key of a range that must not hold `start_after` itself. Of the auction
there is only which names have a record (`stored`; no handler removes one) and
whose query aborts (`owing`). `ReadPage` is the query and the client, which
goes on after the last name of the page until a page is empty. The client begins
whenever it likes (`StartListing`), and lists again as often. `AuctionPaging` has the
real auction in place of `stored` and `owing`: these are the names that have a
record, and those whose `current_deposit` aborts at the block time. Its client never
begins; that of `PagedAuction` is the client of `NamePaging`. `PagedAuction` is for a theorem
and has no run of its own: its steps are those of `auction_registry` and those of `paging`.

*The system.* `TerraNames` takes the actions of `Auction` as they are and
delivers their `outbox`: `Deliver` pays the messages and the tax on them out of
what the bank holds for the auction (`auction_funds`), the money of the call
included, and the last of them is a `Deposit` of the collector. If the bank
refuses a message or the collector aborts, the action is disabled, as the
transaction is undone. The accounts that bid and those that stake are two sets,
since no contract relates them.

*Root collector.* `state` and `stake_states` are the storage; `funds` is what
the bank holds for the contract and `wallets` what the token contract holds for
the accounts. A `Decimal` is an integer number of atomics over
`DECIMAL_FRACTION`, as in the library. The `to` of `WithdrawDividends` is left
out, since stablecoin outside the contract is not tracked. `ReceiveStake` has
the sender of the call as a parameter: `tokens_moved` is the token contract,
which moves tokens before it calls and never when somebody else does.
When a delay ends the contract does nothing; the next call of the account moves the
tokens on (`update_unstaked_amount`). `CollectorRefinement` looks at each record as
that call would find it (`settled`), so that tokens are free when their delay is over,
as in `TokenVault`.

*Definitions marked "Mutant"* are wrong versions of the definition after them,
used to show that a property can fail. No specification refers to them.

## Runs

The passing runs:

| run | instance | shows |
|---|---|---|
| `auction` | `AuctionLedger`: 1 name, 2 accounts, rates 0..3, deposits up to 6, 3 seconds per rate unit, lease 2..6 s, delays 2, 1 and 2 s, 8 seconds of block time | the invariants and action properties of the auction, and its charges against the exact rent, tax included |
| `auction_registry` | 3 accounts (holder, challenger, third), rates 0..2, lease 2..6 s, delays 2, 1 and 2 s, 7 seconds of block time | the auction implements `NameRegistry` and `NamePaging`; only time makes a name owe; every standing bid is decided |
| `terranames` | 1 name, 2 bidders, rates 2 and 3, deposits 2, 3 and 5, lease 2..5 s, delays 1, 0 and 1 s, 5 seconds; 1 staker with 1 token; tax 1/2 capped at 1; 5 units into the collector | accepted calls succeed, money passes through, held names resolve, values only under a held name |
| `paging` | 5 names of one and two bytes, each other's beginnings among them; limits 1, 4 and none, default 2, maximum 3 | every name once, none skipped, an end |
| `dividend_ledger` | 2 stakers with 2 tokens, deposits of 0, 1, 2, `DECIMAL_FRACTION` 3, tax 2/3 capped at 1, multiplier up to 1.0, no time | dividends, the solvency bound, the total staked |
| `unstake_ledger` | 2 stakers with 2 tokens, delay 2 s of 4, no deposits; `Receive` also from accounts | the unstake delay, conservation of tokens; the collector implements `TokenVault` |
| `rounding` | amounts 0..50, lease rates 1..9, tax rates 0..1.2, caps 0..5 | the arithmetic |

Why these bounds are enough to meet the interesting cases. Names do not
interact (no handler reads the record of another name), so one name is enough.
Two accounts make holder and challenger; the registry run has a third, so that
a transfer to, or a bid by, somebody who is neither occurs. In the auction runs
a lease can pass through all its statuses and lapse within the time bound, and
be bid on again; a lease bought near the start can be funded, raised, contested and
lost. The ledgers change nothing of the component they
extend, so that they are also where its own properties are checked. Two or three
seconds per rate unit make every conversion of the lease
arithmetic round. `DECIMAL_FRACTION` 3 with up to 4 tokens staked makes the
multiplier round, also to zero. `StartTime` is at least
`counter_delay_secs + transition_delay_secs`, as a block time in seconds since
1970 is later than any delay. Time bounds (`MaxTime`), and in the collector
`MaxFunds`, `MaxMultiplier` and `TokenSupply`, are the only caps; the `auction`
runs have no others. `MaxMultiplier` stands for the largest `Decimal`, at which
the code aborts. In `terranames` it is small enough for a deposit to meet it, and
the tax, capped at 1, is large enough that every conversion loses something; both
rates make leases whose seconds do not divide. `MaxFunds` ends a behaviour's deposits
after one or two, so that with a refund the money of two bidders meets.
The paging limits make pages shorter than the default, equal to it and cut at
the maximum; with five names and a default of two there are always several. `dividend_ledger` has no time because dividends do not depend
on it; `unstake_ledger` has no deposits because tokens do not depend on them.

Deadlock is checked everywhere: a state with no further step does not occur
at all, since some call that writes what is stored already is always possible
(and in `paging` a lapsed name can always be leased again).

### Properties worth a comment

- `OwnerKeepsName`, `ImplementsRegistry`: who has a name. The second is the
  first in the language of an abstract machine, with tenure.
- `ContestedRateNeverFalls`: during a counter delay the rate of the standing bid
  cannot be lowered nor its deposit reduced.
- `NeverUndercharged`, `OverchargeBounded`, `LapsesOnlyWhenPaidUp`: the contract
  folds paid deposits and spent rent into one number, rounding at each rate
  change. The ledger keeps both exactly; the bounds are tight in the number of
  roundings.
- `DividendFollowsStake`, `ShortfallBounded`: the same for the multiplier. The
  first is per account and two-sided. The second bounds what `Solvent` misses.
- `AcceptedCallsSucceed`: compares the guard of the auction alone with the whole
  transaction. Its premise leaves out just the two reasons for a failure that
  the auction cannot do anything about, so that what it says is that the refund
  and the deposit of the rest never cost more than the money of the call.
- `AuctionKeepsOnlyDust`: the same money from the other side, per step and both ways.
- `HeldNamesResolve`: the query aborts for some lapsed names (violation 2 below),
  never for one that is held; the two roundings involved agree to the second.
- `EachNameOnce`, `NothingSkipped`, `ListingEnds`: too small a first key of a page
  breaks the first or the last of them, too large a one the second.
- `StandingBidIsDecided`: that calls change `begin_time` only where they start a
  new bid or a new rate.
- `ImplementsVault`: that the collector does its work late, at the account's next
  call, cannot be told from a vault in which delays end by themselves; one call that
  looked at the amounts before moving them on would show.
- `ImplementsPaging`, `OnlyTimeOwes`: what `NamePaging` takes for granted about its names
  is the work of the five handlers and the rounding of the rent: no record is removed, and
  a call that stores one does not leave it owing more than its deposit unless it owed before.
- `NotBeforeDelay`, `ReturnedAfterDelay`: the first from below, the second from
  above, over any mixture of unstaking and withdrawing.

### Violations, and what they say about the code

Five runs check a statement of the repository that the code does not meet; each
has an entry in `PROJECT.json` under `findings`.

1. `fund_lapsed`: `FundName` is documented to fail when the given account is not
   the current owner, but looks only at the stored owner. A lapsed lease can be
   funded, and taken up again.
2. `query_lapsed`: the query of a lapsed name aborts by overflow once the rent
   exceeds the deposit, although the code has a branch that answers without an
   owner. One lapsed name makes every page of `GetAllNameStates` that holds it
   abort (`ListingEnds` has it as its premise), and the resolver passes the error
   on where it means to answer `NameExpired`.
3. `transfer_contested`: after `SetNameRate` the holder transfers the name away
   and has it back when the counter delay ends.
4. `collector_solvent`: the fraction of a deposit that the multiplier keeps is
   also kept in the residual. The claims grow past the money by less than one
   unit for each deposit (`ShortfallBounded`); a test of the repository asserts
   amounts that add up to one unit too much.
5. `collector_query`: `<` in the query, `<=` in the handlers.

### Fairness and liveness

Nothing in the contracts is scheduled: every call is one that somebody may never
make, so no fairness is assumed of any. Two things go on by themselves.

- Time: the chain makes blocks as long as it lives, whatever is called.
  `FairSpec` of `Auction` is `Spec` with `WF_vars(Tick)`; calls may come in any
  number between two blocks, and for ever, without keeping time from passing.
  Under it `StandingBidIsDecided`: a bid that stands is won, lost or lapses. Since
  block times end at `MaxTime` in a run, `BidStands` asks that the counter delay
  end before that; nothing else depends on the bound.
- The client of `NamePaging`: a client that lists names asks for the next page
  until it has seen the end (`Spec` is `SafeSpec` with `WF_vars(ReadPage)`); whether it
  lists again is its own choice. `ListingEnds` says that every listing it begins comes
  to an end. A page that aborts is not a
  step; `ListingEnds` therefore promises an end only if lapsed names are at some
  time leased again. Without its premise it is violated, by the defect of violation 2.

What would be liveness of the collector ("unstaked tokens come back") is a
function of the record and the time, stated as safety (`ReturnedAfterDelay`, and
`ImplementsVault`, where time frees them).

## Proofs

| theorem | module | says |
|---|---|---|
| `AuctionTypes` | `AuctionProofs` | `Spec => []TypeOK` |
| `TimesStayOrdered` | `AuctionProofs` | `Spec => []TimesOrdered` |
| `LeasesStayWithinBounds` | `AuctionProofs` | `Spec => []LeaseWithinBounds` |
| `RentStaysCovered` | `AuctionProofs` | `Spec => []SpentWithinDeposit` |
| `AuctionImplementsRegistry` | `TerraNamesProofs` | `Spec => ImplementsRegistry` |
| `FreshNamesHaveNoController` | `TerraNamesProofs` | `Spec => []FreshNameHasNoController` |
| `ContestedRatesNeverFall` | `TerraNamesProofs` | `Spec => ContestedRateNeverFalls` |
| `OwnersKeepNames` | `TerraNamesProofs` | `Spec => OwnerKeepsName` |
| `ReportedTimesStayRight` | `TerraNamesProofs` | `Spec => []ReportedTimesAgree` |
| `RefundsNeverTooLarge` | `TerraNamesProofs` | `AuctionLedger`'s `LedgerSpec => []NeverUndercharged` |
| `RefundsNearlyExact` | `TerraNamesProofs` | `LedgerSpec => []OverchargeBounded` |
| `LeasesLapsePaidUp` | `TerraNamesProofs` | `LedgerSpec => []LapsesOnlyWhenPaidUp` |
| `SystemImplementsResolver` | `TerraNamesProofs` | `SystemSpec => ResolverSpec` |
| `ValuesSetOnlyWhileHeld` | `TerraNamesProofs` | `ResolverSpec => ValueSetOnlyWhileHeld` |
| `HeldNamesAlwaysResolve` | `TerraNamesProofs` | `ResolverSpec => []HeldNamesResolve` |
| `TimeDecidesBids` | `TerraNamesProofs` | `Spec /\ TimePasses => StandingBidIsDecided`: if the block time goes on, every standing bid is decided |
| `BidsDecidedAtDeadline` | `TerraNamesProofs` | `Spec => ContestsKeepDeadline /\ []DecidedAtDeadline`: no call puts the end of a contested bid off, and then it is decided |
| `CallsPayForTheirMessages` | `TerraNamesProofs` | `Spec => [][PaidForByDeposit]_vars`: the messages of a call cost at most its deposit |
| `AcceptedCallsAreDelivered` | `TerraNamesProofs` | what the auction accepts meets every condition of its delivery, but for empty messages and a full collector |
| `AuctionPassesMoneyOn` | `TerraNamesProofs` | `SystemSpec => AuctionKeepsOnlyDust` |
| `SystemImplementsCollector` | `TerraNamesProofs` | `SystemSpec => Collector!Spec` |
| `CollectorSoundInSystem` | `TerraNamesProofs` | `SystemSpec => [](Collector!TotalStakedIsSum /\ Collector!TokensBacked)` |
| `NamesGivenOnce` | `NamePagingProofs` | `NamePaging`'s `SafeSpec => []EachNameOnce` |
| `NamesNotSkipped` | `NamePagingProofs` | `SafeSpec => []NothingSkipped` |
| `PagesGoOn` | `NamePagingProofs` | every page ends the listing or goes past all names given so far |
| `AuctionImplementsPaging` | `TerraNamesProofs` | `Spec => ImplementsPaging` |
| `CallsOweNothing` | `TerraNamesProofs` | `Spec => OnlyTimeOwes` |
| `AuctionListsAllNames` | `TerraNamesProofs` | `PagedAuction`'s `PagedSpec => [](Paging!EachNameOnce /\ Paging!NothingSkipped)` |
| `CollectorTypes` | `RootCollectorProofs` | `RootCollector`'s `Spec => []TypeOK` |
| `TotalStakedStaysSum` | `RootCollectorProofs` | `Spec => []TotalStakedIsSum` |
| `TokensStayBacked` | `RootCollectorProofs` | `Spec => []TokensBacked` |
| `DividendsFollowStakes` | `DividendLedgerProofs` | `DividendLedger`'s `LedgerSpec => []DividendFollowsStake` |
| `ShortfallStaysBounded` | `DividendLedgerProofs` | `LedgerSpec => []ShortfallBounded` |
| `NoneBeforeDelay` | `UnstakeLedgerProofs` | `UnstakeLedger`'s `LedgerSpec => []NotBeforeDelay` |
| `AllAfterDelay` | `UnstakeLedgerProofs` | `LedgerSpec => []ReturnedAfterDelay` |
| `CollectorImplementsVault` | `UnstakeLedgerProofs` | `RootCollector`'s `Spec => ImplementsVault` |
| `DeductedTransferFits` | `TerraTaxTheorems` | a deducted transfer and its tax fit in the amount |
| `DeductedTransferNearlyExact` | `TerraTaxTheorems` | and fall short of it by at most two units |
| `DeductedTransferNearlyLargest` | `TerraTaxTheorems` | no transfer two units larger would fit |
| `TransfersFit` | `RoundingProofs` | `Rounding`'s `Spec => []TransferFits` |
| `TransfersNearlyLargest` | `RoundingProofs` | `Spec => []TransferNearlyLargest` |
| `RoundingsAlwaysAgree` | `RoundingProofs` | `Spec => []RoundingsAgree` |

*Assumptions.* Those of the modules: `LeaseMathAssumption` and `TaxAssumption`
(the denominators are positive), `AuctionAssumption` (rates, deposits and delays
are naturals; the configuration passed `instantiate`; block times are later than
the delays and far from 2^64; no time or account is `None`), `NoStateAssumption`,
`RootCollectorAssumption` and `NoStakeAssumption` (finitely many stakers, the
token contract not among them; amounts, caps and times are naturals), and for the refinement
`RegistryAssumption` (a counter delay and a shortest lease that are not zero),
on which `OwnersKeepNames` rests too; `CollectorAssumption`, the same of the
collector's constants in the system; `PagingAssumption` (names are sequences of
bytes, limits are at least one), and `AuctionPagingAssumption`, the same beside the auction,
which only `AuctionListsAllNames` needs; `RoundingAssumption` (the inputs of `Rounding` are
bounded by naturals, of which the largest amount is bought in less than 2^64
seconds, as `LeasesStayWithinBounds` shows of every lease that is taken). `DeductedTransferNearlyExact` and
`AuctionPassesMoneyOn` assume a tax rate of at most one (`TaxRate <=
DECIMAL_FRACTION`), as every tax is; above it the deduction keeps more back.
TLC evaluates all named ones in the runs. The two theorems about the collector in
the system have `DepositsOpen` as a hypothesis: `DepositAmounts`, what a message to the collector may
carry, includes what the auction sends (for `DepositAmounts = Nat` it is
true; the run `terranames` has no deposits but the auction's). `RATE_SEC_DENOM`, `DECIMAL_FRACTION` and
`U64` are arbitrary, so the theorems hold for the values of the source.

*The argument.* `AuctionInv` is `TypeOK` and, for each stored record,
`WellFormed`: a record of the right type (`NameState`), its times in order
(`InOrder`), and its deposit within the bounds (`DepositWithin`), stated as exact
products: `min_lease_secs * rate <= begin_deposit * RATE_SEC_DENOM`
`<= (max_lease_secs + (now - begin_time)) * rate`.
`LeaseWithinBounds` alone is not inductive: it speaks of seconds that were rounded
and then cut to 64 bits, and a record whose quotient was cut would satisfy it.
The exact products show that the cut is the identity (`LeaseLength`,
`SecondsAdjunction`) and that both bounds survive the rounding.
That every handler preserves it rests on two adjunctions of the rounding
operators, proved once at the head of `AuctionProofs`:
`deposit <= floor(s, r)` exactly when `deposit * RATE_SEC_DENOM <= s * r`
(`FloorAdjunction`), and `ceil(s, r) <= deposit` exactly when
`s * r <= deposit * RATE_SEC_DENOM` (`CeilAdjunction`). `SpentWithinDeposit` is the second one at
`s = now - begin_time`. `AuctionProofs` has one lemma for each action that says
what record it stores; the step of the invariant and the step of the refinement
both use them. The refinement maps the holder during a counter delay to
`previous_owner`, also when the lease lapses in that time, and proves for each
action which step of `NameRegistry` it is; `FundName` is `Revive` or a stutter.

`FreshNameHasNoController` is not inductive: it speaks of names that have no
holder, and a lease that lapses within its counter delay and is funded again has
one of which the invariant said nothing. `NoEarlyController` says
the same of every record whose counter delay runs and that had no holder before,
lapsed or not. Both action properties follow from `AuctionInv` at each step, by the
lemmas about the stored record; `OwnersKeepNames` needs that time alone hands a
name over only where the counter delay ends.

The ledger's part of `TerraNamesProofs` relates `begin_deposit`, into which the contract folds all
that was paid and all rent of former rates, to the exact account of the ledger.
`Matches` says that `begin_deposit * RATE_SEC_DENOM` is at most
`paid * RATE_SEC_DENOM - accrued`, and short of it by at most `RATE_SEC_DENOM - 1`
for each rate change. The three properties speak of the time now and are not
inductive; `Matches` does not depend on the time. It is preserved because a rate
change deducts the rent rounded up, by less than one unit (`CeilBounds`), and
because the subtraction never saturates (`RentStaysCovered`): a debt that was cut to
zero would break the lower bound. `LeaseLength` gives what is left when a lease lapses.

`BidsDecidedAtDeadline` is the part of `StandingBidIsDecided` that is safety: the
deadline of a contested bid, `begin_time + counter_delay_secs`, stays where it is
until another account has the bid, and at the deadline the status is no longer
`CounterDelay`. `TimeDecidesBids` goes the rest of the way from there, with `TimePasses ==
<>(now = MaxTime)` for a hypothesis: a bid stands from one step to the next or is decided
(`BidStandsOrDecided`), it does not stand when the block time is `MaxTime`, and the block
time never goes back. `TimePasses` speaks of the clock alone, and is what fairness of
`Tick` gives; that step needs `ENABLED` and an induction over the seconds, and is left out.

For the system `TerraNamesProofs` goes along two implications, `SystemSpec =>
ResolverSpec => Spec`. The invariants of the auction then hold in the resolver, and
`ValuesSetOnlyWhileHeld` combines them: a controller exists, so the name is not
fresh (`NoEarlyController`); its expire time lies ahead, so it has not lapsed.
`HeldNamesAlwaysResolve` is `SpentWithinDeposit` for the record of a name that
is held. `Shared` says how the messages of a call share out its deposit: nothing,
all of it to the collector, or a refund and the rest; that the refund is at most the
deposit comes from the outbidding rule. From it `DeductedTransferFits` bounds
what the messages cost from above (`CallsPayForTheirMessages`,
`AcceptedCallsAreDelivered`, for every tax) and `DeductedTransferNearlyExact` from
below (`AuctionPassesMoneyOn`). A third implication, `SystemSpec =>
Collector!Spec`, looks at the same steps from the collector: a delivery is
`Deposit` of an amount that a deduction leaves, so that the theorems of
`RootCollectorProofs` can be cited there by `INSTANCE`.

`NamePagingProofs` first shows that `Precedes`, the order of the byte strings in
the store, is a total order (two names that differ do so at a first place,
`LeastOf`, when the shorter is thought to go on with a value below every byte,
`Padded`), and that nothing lies between a name and that name with a zero byte
appended (`RangeStartsAfter`), so that the range that begins with that key is just
what follows `start_after`. A page takes the stored names of that range by
their rank; that it has as many of them as its limit asks for, with no gap, is an
argument by counting (`RankReaches`), which needs that finitely many names are
stored. `PagingInv` adds to `EachNameOnce` and `NothingSkipped` that the cursor is
the last name given and that no name given lies beyond it (`CursorIsLast`):
without it a later page could begin anywhere.

Three theorems take this to the auction. `AuctionImplementsPaging` and `CallsOweNothing`
rest on what a step of the auction does to `stored` and `owing` (`NamesStep`). The
passing of time only adds to the names that owe (`OwedLater`), any number of them in one
step (`FallBehind`). A call stores one record, and if that owes more than its deposit,
then its predecessor did (`TransactionOwesNoMore`): a bid and a new rate begin at the
time now and owe nothing yet, funding adds to the deposit, the other calls leave rate,
time and deposit alone. `AuctionListsAllNames` then cites `NamePagingProofs` by
`INSTANCE`.

`RootCollectorProofs` needs sums over accounts, which no induction may define.
`Total` is the number of the pairs `<<account, k>>` with `k` from 1 to the
account's amount, and the
lemmas at the head of the module (`SumUpdate`, `SumOfPart`, `SumOfMultiples`)
follow from facts about cardinalities. `CollectorInv` is `TypeOK`,
`TotalStakedIsSum` and `TokensBacked`; it takes all three together, since
`UnstakeTokens` checks its amount against the account's stake only, and the
subtraction from `total_staked` that follows never fails only because the stake is a
part of the sum.

In `DividendLedgerProofs`, `DividendFollowsStake` is not inductive, since what the code has rounded away in
one call is lost for all calls after it. `LedgerInv` compares what the ledger owes an
account with its claim before rounding (`exact_claim`, in which the growth of
the multiplier is still a product): the difference is less than one unit for each
rounding so far, and a call that rounds turns its own loss into one more
(`TouchFollows`); a deposit adds the same product to both sides
(`DepositFollows`). `Covered` is `ShortfallBounded` over all accounts. A deposit
adds the rise of the multiplier, times `total_staked`, to the sum of what is owed
(`SumOfMultiples`, which rests on `TotalStakedIsSum`), and the quotient and the remainder
of the division in the code bound that.

`UnstakeLedgerProofs` has to show that one amount and one time are enough, where
the ledger keeps an amount for each time. `Agrees` says that the recorded time is
that of the account's last call, that what was withdrawn, can be withdrawn and is
still unstaking adds up to all that was ever unstaked, and that the first two
together are no more than what was unstaked a delay ago. A later call restarts
the delay for what is unstaking already: that moves tokens only away from the
bound, and when the delay since the last call has passed, all of them are behind it.

`CollectorImplementsVault` maps each record to what the account's next call would make
of it. A call that moves tokens on first changes nothing of that (`SettledHolding`), and
what it does then is the step of the vault (`ReceiveRefines`, `UnstakeRefines`,
`WithdrawRefines`; a withdrawal of dividends is no step). When time passes, the mapping,
not the contract, moves the tokens of the accounts whose delay is over (`LaterHolding`,
`TickRefines`). `VaultInv` adds to the types that no recorded time lies ahead, and that
nothing is unstaking where no time is recorded (`HasBegun`): otherwise tokens could be
leaving with no time at which they are free, and with a delay of zero those with a time
ahead would not be free at once.

`DeductedTransferNearlyLargest` compares the transfer with any other that would
fit: if it were larger by two units, then its tax, capped or not, would take it
past the amount (the product of the deduction's quotient plus one exceeds the
amount). `RoundingProofs` takes `TerraTaxTheorems` by
`INSTANCE` with the tax rate and cap that `Rounding` tries; the bounds of its
inputs are arbitrary, so that the theorems speak of every amount and rate.

*Only model-checked:* `StandingBidIsDecided` from the fairness of time (proved from what that
gives, `TimePasses`), `ListingEnds` (liveness under fairness is out of the prover's reach;
it rests on `PagesGoOn`), and `AcceptedCallsSucceed` (it speaks of `ENABLED`;
`AcceptedCallsAreDelivered` is what it says about the conditions of an action). The
five statements that the code violates are checked, of course, by TLC only.

## Not modelled

- The syntax of names: the contracts accept any string.
- A page limit of zero, with which a client learns nothing, and a record that
  changes after its page was read: a page says what was true when it was read.
- `uluna` as the stablecoin, which is exempt from tax, except as `TaxRate = 0`;
  tax rates that change between transactions.
- Money sent with a call that does not look at it (`SetNameRate`, transfers,
  collector calls but `Deposit`): it stays in the contract for good.
- `calculate_added_tax`, which no contract calls.
- Overflow of 128-bit amounts; the code checks additions and aborts.
- `migrate` (empty), configuration queries, schemas, deployment.
- Crashes: the chain replicates and replays; a contract sees none.

## Plan

1. *(done)* the auction, its arithmetic, its abstract specification and its
   ledger; the resolver; the collector and its two ledgers; proofs of the
   auction's invariants and of the refinement.
2. *(done)* `TerraNames`, `NamePaging`, liveness of standing bids; proofs of the
   safety of owners, bidders and controllers, and of the system's implication of its
   parts.
3. *(done)* proofs of the collector: its types and sums, the dividends of every
   account and the bound on the shortfall, the delay of unstaking; and of the
   auction's ledger and the times that its query reports.
4. *(done)* proofs of the safety of paging, of the arithmetic against its reference
   definitions, of the messages that a call can always pay for, of the deadline of
   a contested bid, and of the collector inside the system.
5. *(done)* an abstract specification of the collector's tokens, `TokenVault`, and the
   proof that the collector implements it; the auction under the client that lists its
   names, and the proof that it is what `NamePaging` assumes; the decision of standing
   bids from the passing of time.
6. Left to prove: for the collector in the system also the dividends of every
   account, which needs the ledger of `DividendLedger` beside the whole system.
