---------------------------- MODULE UnstakeLedger ----------------------------
(***************************************************************************)
(* The root collector with a ledger beside it that remembers when tokens   *)
(* were unstaked.  The contract keeps one amount and one time for all that *)
(* an account is unstaking, and starts the delay again at every call.      *)
(***************************************************************************)
EXTENDS RootCollector

VARIABLE
    ledger   \* for each account: the tokens unstaked at each block time, the
             \* time of the last call, and the tokens withdrawn so far

ledger_vars == <<vars, ledger>>

LedgerInit ==
    /\ Init
    /\ ledger = [staker \in Stakers |->
                   [ unstaked |-> [t \in StartTime .. MaxTime |-> 0],
                     last_call |-> StartTime,
                     withdrawn |-> 0 ]]

LedgerUnstake(staker, amount) ==
    /\ UnstakeTokens(staker, amount)
    /\ ledger' = [ledger EXCEPT ![staker].unstaked[now] = @ + amount,
                                ![staker].last_call = now]

LedgerWithdraw(staker, amount, to) ==
    /\ WithdrawTokens(staker, amount, to)
    /\ ledger' = [ledger EXCEPT ![staker].withdrawn = @ + amount]

LedgerOther ==
    /\ \/ Tick
       \/ \E sent \in DepositAmounts : Deposit(sent)
       \/ \E staker \in Stakers :
            \/ WithdrawDividends(staker)
            \/ \E amount \in TokenAmounts, sender \in Stakers \union {base_token} :
                 ReceiveStake(sender, staker, amount)
    /\ UNCHANGED ledger

LedgerNext ==
    \/ LedgerOther
    \/ \E staker \in Stakers, amount \in TokenAmounts :
         \/ LedgerUnstake(staker, amount)
         \/ \E to \in Stakers : LedgerWithdraw(staker, amount, to)

LedgerSpec == LedgerInit /\ [][LedgerNext]_ledger_vars

----------------------------------------------------------------------------
(* Properties.                                                             *)

\* The tokens an account unstaked up to time t.
unstaked_until(staker, t) ==
    Cardinality(UNION {{at} \X (1 .. ledger[staker].unstaked[at]) :
                         at \in {at \in StartTime .. MaxTime : at <= t}})

\* What WithdrawTokens has paid and would pay now.
withdrawable(staker) ==
    update_unstaked_amount(stake_states[staker], now).unstaked_amount

\* No token leaves, or could leave, before unstake_delay has passed since the
\* call that unstaked it, however calls and withdrawals are mixed.
NotBeforeDelay ==
    \A staker \in Stored :
        ledger[staker].withdrawn + withdrawable(staker)
          <= unstaked_until(staker, now - unstake_delay)

\* Once unstake_delay has passed since an account's last unstaking, all that it
\* unstaked can be withdrawn: restarting the delay loses no tokens.
ReturnedAfterDelay ==
    \A staker \in Stored :
        now >= ledger[staker].last_call + unstake_delay
          => ledger[staker].withdrawn + withdrawable(staker) = unstaked_until(staker, now)

=============================================================================
