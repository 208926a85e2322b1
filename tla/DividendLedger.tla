--------------------------- MODULE DividendLedger ---------------------------
(***************************************************************************)
(* The root collector with a ledger beside it that does what the contract  *)
(* avoids: at every deposit it credits each account for the tokens it has  *)
(* staked then, to the fraction.  The contract computes the same credit    *)
(* later, from the multiplier, and rounds it down whenever a stake is      *)
(* touched; the properties bound the difference.                           *)
(***************************************************************************)
EXTENDS RootCollector

VARIABLE
    ledger   \* deposits: number of calls of Deposit that raised the multiplier;
             \* owed: credit of each account less what it was paid, in
             \* DECIMAL_FRACTION-ths; roundings: how often it was rounded

ledger_vars == <<vars, ledger>>

LedgerInit ==
    /\ Init
    /\ ledger = [deposits |-> 0,
                 owed |-> [staker \in Stakers |-> 0],
                 roundings |-> [staker \in Stakers |-> 0]]

staked(staker) == IF staker \in Stored THEN stake_states[staker].staked_amount ELSE 0

LedgerDeposit(sent) ==
    /\ Deposit(sent)
    /\ LET gain == state'.multiplier - state.multiplier
       IN  ledger' = [ledger EXCEPT
             !.deposits = IF gain = 0 THEN @ ELSE @ + 1,
             !.owed = [staker \in Stakers |-> @[staker] + staked(staker) * gain]]

\* What touching a stake adds to the roundings of its account.
rounded(staker) ==
    IF staker \in Stored /\ stake_states[staker].multiplier # state.multiplier THEN 1 ELSE 0

LedgerTouch(staker) ==
    /\ \E amount \in TokenAmounts :
         \/ \E sender \in Stakers \union {base_token} : ReceiveStake(sender, staker, amount)
         \/ UnstakeTokens(staker, amount)
    /\ ledger' = [ledger EXCEPT !.roundings[staker] = @ + rounded(staker)]

LedgerWithdrawDividends(staker) ==
    /\ WithdrawDividends(staker)
    /\ ledger' = [ledger EXCEPT
         !.owed[staker] = @ - DECIMAL_FRACTION * dividend(stake_states[staker], state.multiplier),
         !.roundings[staker] = @ + rounded(staker)]

LedgerOther ==
    /\ \/ Tick
       \/ \E staker, to \in Stakers, amount \in TokenAmounts :
            WithdrawTokens(staker, amount, to)
    /\ UNCHANGED ledger

LedgerNext ==
    \/ LedgerOther
    \/ \E sent \in DepositAmounts : LedgerDeposit(sent)
    \/ \E staker \in Stakers : LedgerTouch(staker) \/ LedgerWithdrawDividends(staker)

LedgerSpec == LedgerInit /\ [][LedgerNext]_ledger_vars

----------------------------------------------------------------------------
(* Properties.                                                             *)

\* An account's dividend is its share of the deposits made while its tokens
\* were staked, and nothing else: staking more does not reach back to an
\* earlier deposit, unstaking does not forfeit one, and each rounding costs the
\* account less than one unit.
DividendFollowsStake ==
    \A staker \in Stored :
        LET claim == DECIMAL_FRACTION * dividend(stake_states[staker], state.multiplier)
        IN  /\ claim <= ledger.owed[staker]
            /\ ledger.owed[staker] - claim
                 <= (DECIMAL_FRACTION - 1) * (ledger.roundings[staker] + rounded(staker))

\* How far the contract can be from solvent: the residual is rounded up by less
\* than one unit at each deposit that raised the multiplier, and by nothing
\* else; the tax on dividends is never paid by the other stakers.
ShortfallBounded ==
    DECIMAL_FRACTION * state.residual
      + Total([staker \in Stored |-> ledger.owed[staker]])
        <= DECIMAL_FRACTION * funds + (DECIMAL_FRACTION - 1) * ledger.deposits

=============================================================================
