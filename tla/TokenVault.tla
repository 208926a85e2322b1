----------------------------- MODULE TokenVault -----------------------------
(***************************************************************************)
(* What the root collector promises about the tokens it is given, without  *)
(* dividends.  The tokens of an account are in its wallet, staked, leaving *)
(* or free.  Unstaked tokens leave; every unstaking starts the delay again *)
(* for all that are leaving, and when it is over they are free, at that    *)
(* very time and without a call of anybody.                                *)
(***************************************************************************)
EXTENDS Integers

CONSTANTS Stakers, NoTime, TokenSupply, unstake_delay

VARIABLES
    now,        \* the time
    wallets,    \* tokens in each account's hands
    staked,     \* its tokens that earn dividends
    leaving,    \* its tokens that wait for the delay
    free_at,    \* the time they are free, when the account waits for one
    free        \* its tokens that can be withdrawn

vault_vars == <<now, wallets, staked, leaving, free_at, free>>

Init ==
    /\ now \in Nat
    /\ wallets = [staker \in Stakers |-> TokenSupply]
    /\ staked = [staker \in Stakers |-> 0]
    /\ leaving = [staker \in Stakers |-> 0]
    /\ free_at = [staker \in Stakers |-> NoTime]
    /\ free = [staker \in Stakers |-> 0]

Stake(staker) ==
    \E amount \in 1 .. wallets[staker] :
        /\ wallets' = [wallets EXCEPT ![staker] = @ - amount]
        /\ staked' = [staked EXCEPT ![staker] = @ + amount]
        /\ UNCHANGED <<now, leaving, free_at, free>>

\* Tokens leave, and the account waits for all that do until a delay from now.
\* Where there is no delay, they are free at once.
Unstake(staker) ==
    \E amount \in 0 .. staked[staker] :
        /\ staked' = [staked EXCEPT ![staker] = @ - amount]
        /\ IF unstake_delay = 0
           THEN /\ free' = [free EXCEPT ![staker] = @ + amount]
                /\ UNCHANGED <<leaving, free_at>>
           ELSE /\ leaving' = [leaving EXCEPT ![staker] = @ + amount]
                /\ free_at' = [free_at EXCEPT ![staker] = now + unstake_delay]
                /\ UNCHANGED free
        /\ UNCHANGED <<now, wallets>>

Withdraw(staker, to) ==
    \E amount \in 1 .. free[staker] :
        /\ free' = [free EXCEPT ![staker] = @ - amount]
        /\ wallets' = [wallets EXCEPT ![to] = @ + amount]
        /\ UNCHANGED <<now, staked, leaving, free_at>>

\* The accounts whose delay is over at time t.
Freed(t) == {staker \in Stakers : free_at[staker] # NoTime /\ free_at[staker] <= t}

\* Time passes, and frees the tokens of those whose delay is over.
Elapse ==
    /\ now' \in Nat
    /\ now' > now
    /\ free' = [staker \in Stakers |->
         IF staker \in Freed(now') THEN free[staker] + leaving[staker] ELSE free[staker]]
    /\ leaving' = [staker \in Stakers |->
         IF staker \in Freed(now') THEN 0 ELSE leaving[staker]]
    /\ free_at' = [staker \in Stakers |->
         IF staker \in Freed(now') THEN NoTime ELSE free_at[staker]]
    /\ UNCHANGED <<wallets, staked>>

Next ==
    \/ Elapse
    \/ \E staker \in Stakers :
         \/ Stake(staker)
         \/ Unstake(staker)
         \/ \E to \in Stakers : Withdraw(staker, to)

Spec == Init /\ [][Next]_vault_vars
=============================================================================
