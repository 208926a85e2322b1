--------------------------- MODULE AuctionLedger ---------------------------
(***************************************************************************)
(* The auction with a ledger beside it that keeps what the contract itself *)
(* forgets: what was paid into the standing bid of each name, and the rent *)
(* that has accrued on it at each rate it had, to the fraction.  The       *)
(* contract folds all of it into begin_deposit, rounding at every change   *)
(* of the rate; the properties bound what that rounding can cost.          *)
(***************************************************************************)
EXTENDS Auction

VARIABLE
    ledger   \* for each name: deposits paid, rent accrued before begin_time
             \* in RATE_SEC_DENOM-ths, and number of changes of the rate

ledger_vars == <<vars, ledger>>

OpeningEntry(deposit) == [paid |-> deposit, accrued |-> 0, rate_changes |-> 0]

LedgerInit ==
    /\ Init
    /\ ledger = [name \in Names |-> OpeningEntry(0)]

\* A bid opens an entry: the bidder before is refunded and its entry closed.
LedgerBid(sender, name, rate, deposit) ==
    /\ BidName(sender, name, rate, deposit)
    /\ ledger' = [ledger EXCEPT ![name] = OpeningEntry(deposit)]

LedgerFund(name, owner, deposit) ==
    /\ FundName(name, owner, deposit)
    /\ ledger' = [ledger EXCEPT ![name].paid = @ + deposit]

LedgerSetRate(sender, name, rate) ==
    /\ SetNameRate(sender, name, rate)
    /\ ledger' = [ledger EXCEPT
         ![name].accrued =
             @ + name_states[name].rate * seconds_spent_since_bid(name_states[name], now),
         ![name].rate_changes = @ + 1]

LedgerOther ==
    /\ \/ Tick
       \/ \E sender \in Addrs, name \in Names, to \in Addrs :
            \/ TransferNameOwner(sender, name, to)
            \/ SetNameController(sender, name, to)
    /\ UNCHANGED ledger

LedgerNext ==
    \/ LedgerOther
    \/ \E sender \in Addrs, name \in Names :
         \/ \E rate \in Rates, deposit \in Deposits : LedgerBid(sender, name, rate, deposit)
         \/ \E owner \in Addrs, deposit \in Deposits : LedgerFund(name, owner, deposit)
         \/ \E rate \in Rates : LedgerSetRate(sender, name, rate)

LedgerSpec == LedgerInit /\ [][LedgerNext]_ledger_vars

----------------------------------------------------------------------------
(* Properties.                                                             *)

\* What is left of what was paid once the exact rent is taken off, in
\* RATE_SEC_DENOM-ths.
exact_deposit_left(name) ==
    LET st == name_states[name]
    IN  ledger[name].paid * RATE_SEC_DENOM - ledger[name].accrued
          - st.rate * seconds_spent_since_bid(st, now)

\* Each computation of the rent rounds up by less than one unit.
rounding_loss(roundings) == roundings * (RATE_SEC_DENOM - 1)

\* "Always round up spent deposit to avoid charging too little"
\* (execute_set_rate): however often the rate is changed and the deposit added
\* to, a refund never gives back rent that has accrued.
NeverUndercharged ==
    \A name \in Stored :
        LET st == name_states[name]
        IN  ~Expired(st, now) =>
              deposit_left(st, now) * RATE_SEC_DENOM <= exact_deposit_left(name)

\* A refund is short of what is really left by less than one unit for each
\* change of the rate and one for the refund itself.
OverchargeBounded ==
    \A name \in Stored :
        LET st == name_states[name]
        IN  ~Expired(st, now) =>
              exact_deposit_left(name) - deposit_left(st, now) * RATE_SEC_DENOM
                <= rounding_loss(ledger[name].rate_changes + 1)

\* A lease does not lapse early: when it lapses, less than one second's rent is
\* left of what was paid, beside the rounding of the rate changes.
LapsesOnlyWhenPaidUp ==
    \A name \in Stored :
        LET st == name_states[name]
        IN  DepositUsedUp(st, now) =>
              exact_deposit_left(name)
                < st.rate + rounding_loss(ledger[name].rate_changes)

=============================================================================
