------------------------ MODULE CollectorRefinement ------------------------
(***************************************************************************)
(* The root collector implements TokenVault.  The contract does nothing    *)
(* when a delay ends: unstaking tokens stay in unstaking_amount until the  *)
(* account's next call, which moves them (update_unstaked_amount) before   *)
(* it does anything else.  The mapping counts them as free when they are.  *)
(***************************************************************************)
EXTENDS RootCollector

\* An account's record as its next call would find it.
settled(staker) == update_unstaked_amount(stake_states[staker], now)

staked == [staker \in Stakers |->
    IF staker \in Stored THEN stake_states[staker].staked_amount ELSE 0]

leaving == [staker \in Stakers |->
    IF staker \in Stored THEN settled(staker).unstaking_amount ELSE 0]

unstake_time(begin_time) == IF begin_time = NoTime THEN NoTime ELSE begin_time + unstake_delay

free_at == [staker \in Stakers |->
    IF staker \in Stored
    THEN unstake_time(settled(staker).unstaking_begin_time)
    ELSE NoTime]

free == [staker \in Stakers |->
    IF staker \in Stored THEN settled(staker).unstaked_amount ELSE 0]

\* The instance takes now, wallets and the refinement mapping's functions above.
Vault == INSTANCE TokenVault

\* The collector implements the vault: whatever an account calls, and when, it
\* has the tokens it would have if delays ended by themselves (update_unstaked_amount
\* in execute_unstake_tokens and execute_withdraw_tokens).
ImplementsVault == Vault!Spec
=============================================================================
