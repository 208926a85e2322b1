------------------------ MODULE UnstakeLedgerProofs ------------------------
(***************************************************************************)
(* Proofs about unstaking, for all accounts, amounts and delays: no token  *)
(* comes back before its delay, and all of them do after the last one.     *)
(*                                                                         *)
(* The contract keeps one amount and one time for all that an account is   *)
(* unstaking.  The inductive invariant says that this time is that of the  *)
(* account's last call, and that what it may take now was unstaked at      *)
(* least a delay ago; both survive that a call restarts the delay.         *)
(*                                                                         *)
(* The last part proves that the collector implements TokenVault, whose    *)
(* delays end by themselves.                                               *)
(***************************************************************************)
EXTENDS UnstakeLedger, CollectorRefinement, RootCollectorProofs

Moments == StartTime .. MaxTime

Entry == [unstaked : [Moments -> Nat], last_call : Moments, withdrawn : Nat]

\* What an entry has unstaked up to time t.
UnstakedBy(entry, t) == Sum({at \in Moments : at <= t}, entry.unstaked)

Agrees(stake, entry, t) ==
    /\ entry.last_call <= t
    /\ \A at \in Moments : at > entry.last_call => entry.unstaked[at] = 0
    /\ entry.withdrawn + stake.unstaked_amount + stake.unstaking_amount
         = UnstakedBy(entry, t)
    /\ entry.withdrawn + stake.unstaked_amount <= UnstakedBy(entry, t - unstake_delay)
    /\ stake.unstaking_begin_time = NoTime => stake.unstaking_amount = 0
    /\ stake.unstaking_begin_time # NoTime => stake.unstaking_begin_time = entry.last_call

\* An account without a stake has never unstaked anything.
Untouched(entry, t) ==
    /\ entry.last_call <= t
    /\ entry.withdrawn = 0
    /\ \A at \in Moments : entry.unstaked[at] = 0

LedgerInv ==
    /\ ledger \in [Stakers -> Entry]
    /\ \A staker \in Stored : Agrees(stake_states[staker], ledger[staker], now)
    /\ \A staker \in Stakers \ Stored : Untouched(ledger[staker], now)

----------------------------------------------------------------------------
(* What an entry has unstaked up to a time.                                *)

LEMMA UntilFinite ==
    ASSUME NEW t
    PROVE  IsFiniteSet({at \in Moments : at <= t})
<1>1. IsFiniteSet(Moments)
    BY CollectorConfig, FS_Interval DEF Moments
<1> QED BY <1>1, FS_Subset

LEMMA UntilInNat ==
    ASSUME NEW entry \in Entry, NEW t
    PROVE  UnstakedBy(entry, t) \in Nat
<1> DEFINE S == {at \in Moments : at <= t}
<1>1. IsFiniteSet(S)
    BY UntilFinite
<1>2. \A at \in S : entry.unstaked[at] \in Nat
    BY DEF Entry
<1> HIDE DEF S
<1>3. Sum(S, entry.unstaked) \in Nat
    BY <1>1, <1>2, SumInNat
<1> QED BY <1>3 DEF UnstakedBy, S

\* Nothing is added by times at which nothing was unstaked.
LEMMA UntilSame ==
    ASSUME NEW entry \in Entry, NEW t \in Int, NEW u \in Int, t <= u,
           \A at \in Moments : at > t => entry.unstaked[at] = 0
    PROVE  UnstakedBy(entry, t) = UnstakedBy(entry, u)
<1> DEFINE T == {at \in Moments : at <= t}
           S == {at \in Moments : at <= u}
           f == entry.unstaked
<1>1. \A at \in Moments : at \in Int
    BY CollectorConfig DEF Moments
<1>2. T \in SUBSET S
    BY <1>1
<1>3. \A at \in S \ T : f[at] = 0
    BY <1>1
<1> HIDE DEF T, S, f
<1>4. Sum(T, f) = Sum(S, f)
    BY <1>2, <1>3, SumOfPart
<1> QED BY <1>4 DEF UnstakedBy, T, S, f

LEMMA UntilGrows ==
    ASSUME NEW entry \in Entry, NEW t \in Int, NEW u \in Int, t <= u
    PROVE  UnstakedBy(entry, t) <= UnstakedBy(entry, u)
<1> DEFINE T == {at \in Moments : at <= t}
           S == {at \in Moments : at <= u}
           f == entry.unstaked
<1>1. T \subseteq S
    BY CollectorConfig DEF Moments
<1>2. Blocks(T, f) \subseteq Blocks(S, f)
    BY <1>1 DEF Blocks
<1>3. IsFiniteSet(S) /\ \A at \in S : f[at] \in Nat
    BY UntilFinite DEF Entry
<1> HIDE DEF T, S, f
<1>4. IsFiniteSet(Blocks(S, f))
    BY <1>3, SumInNat
<1>5. Sum(T, f) <= Sum(S, f)
    BY <1>2, <1>4, FS_Subset DEF Sum
<1> QED BY <1>5 DEF UnstakedBy, T, S, f

\* Unstaking more at one time adds it to every sum that reaches that far.
LEMMA UntilAdds ==
    ASSUME NEW old \in Entry, NEW new \in Entry, NEW at \in Moments, NEW amount \in Nat,
           new.unstaked[at] = old.unstaked[at] + amount,
           \A other \in Moments \ {at} : new.unstaked[other] = old.unstaked[other],
           NEW t \in Int
    PROVE  UnstakedBy(new, t) = UnstakedBy(old, t) + (IF at <= t THEN amount ELSE 0)
<1> DEFINE S == {other \in Moments : other <= t}
           f == old.unstaked
           g == new.unstaked
<1>1. /\ IsFiniteSet(S) /\ \A other \in S : f[other] \in Nat /\ g[other] \in Nat
      /\ \A other \in S \ {at} : g[other] = f[other]
      /\ at \in S <=> at <= t
      /\ f[at] \in Nat /\ g[at] = f[at] + amount
    BY UntilFinite DEF Entry
<1> HIDE DEF S, f, g
<1>2. Sum(S, f) \in Nat
    BY <1>1, SumInNat
<1>3. CASE at <= t
    <2>1. Sum(S, g) = Sum(S, f) - f[at] + g[at]
        BY <1>1, <1>3, SumUpdate
    <2>2. Sum(S, g) = Sum(S, f) + amount
        BY <1>1, <1>2, <2>1
    <2> QED BY <1>3, <2>2 DEF UnstakedBy, S, f, g
<1>4. CASE ~(at <= t)
    <2>1. Sum(S, f) = Sum(S, g)
        BY <1>1, <1>4, SumSame
    <2>2. Sum(S, g) = Sum(S, f) + 0
        BY <1>2, <2>1
    <2> QED BY <1>4, <2>2 DEF UnstakedBy, S, f, g
<1> QED BY <1>3, <1>4

\* An account that never unstaked has nothing to come back.
LEMMA UntouchedUntil ==
    ASSUME NEW entry \in Entry, NEW t, NEW u, Untouched(entry, u)
    PROVE  UnstakedBy(entry, t) = 0
<1> DEFINE S == {at \in Moments : at <= t}
           f == entry.unstaked
<1>1. IsFiniteSet(S) /\ \A at \in S : f[at] = 0
    BY UntilFinite DEF Untouched
<1> HIDE DEF S, f
<1>2. Sum(S, f) = 0 * Cardinality(S) /\ Cardinality(S) \in Nat
    BY <1>1, SumOfSame, FS_CardinalityType
<1> QED BY <1>2 DEF UnstakedBy, S, f

----------------------------------------------------------------------------
(* A record and its entry, through what the handlers do to a record.       *)

SameUnstaking(old, new) ==
    /\ new.unstaking_amount = old.unstaking_amount
    /\ new.unstaked_amount = old.unstaked_amount
    /\ new.unstaking_begin_time = old.unstaking_begin_time

LEMMA EntryTypes ==
    ASSUME NEW entry \in Entry
    PROVE  /\ entry.last_call \in Nat /\ entry.withdrawn \in Nat
           /\ \A at \in Moments : entry.unstaked[at] \in Nat
    BY CollectorConfig DEF Entry, Moments

LEMMA SameAgrees ==
    ASSUME NEW old, NEW new, SameUnstaking(old, new), NEW entry, NEW t, Agrees(old, entry, t)
    PROVE  Agrees(new, entry, t)
    BY DEF SameUnstaking, Agrees

\* Time alone brings nothing out of step.
LEMMA LaterAgrees ==
    ASSUME NEW stake \in StakeState, NEW entry \in Entry, NEW t \in Nat, NEW u \in Nat,
           t <= u, Agrees(stake, entry, t)
    PROVE  Agrees(stake, entry, u)
<1> DEFINE a == entry.withdrawn + stake.unstaked_amount
<1>1. /\ stake.unstaked_amount \in Nat /\ stake.unstaking_amount \in Nat
      /\ entry.last_call \in Nat /\ entry.withdrawn \in Nat
      /\ unstake_delay \in Nat
    BY EntryTypes, CollectorConfig DEF StakeState
<1>2. \A at \in Moments : at > t => entry.unstaked[at] = 0
    BY <1>1, CollectorConfig DEF Agrees, Moments
<1>3. UnstakedBy(entry, t) = UnstakedBy(entry, u)
    BY <1>2, UntilSame
<1>4. /\ t - unstake_delay \in Int /\ u - unstake_delay \in Int
      /\ t - unstake_delay <= u - unstake_delay
    BY <1>1
<1>5. /\ UnstakedBy(entry, t - unstake_delay) <= UnstakedBy(entry, u - unstake_delay)
      /\ UnstakedBy(entry, t - unstake_delay) \in Nat
      /\ UnstakedBy(entry, u - unstake_delay) \in Nat
    BY <1>4, UntilGrows, UntilInNat
<1>6. a \in Nat /\ a <= UnstakedBy(entry, t - unstake_delay)
    BY <1>1 DEF Agrees
<1>7. a <= UnstakedBy(entry, u - unstake_delay)
    <2> HIDE DEF a
    <2> QED BY <1>5, <1>6
<1> QED BY <1>1, <1>3, <1>7 DEF Agrees

\* What update_unstaked_amount frees was unstaked a delay ago, and once the
\* delay since the last call is over it frees all.
LEMMA UpdateAgrees ==
    ASSUME NEW stake \in StakeState, NEW entry \in Entry, NEW t \in Nat,
           Agrees(stake, entry, t)
    PROVE  LET new == update_unstaked_amount(stake, t)
           IN  /\ new \in StakeState
               /\ Agrees(new, entry, t)
               /\ entry.last_call + unstake_delay <= t => new.unstaking_amount = 0
<1> DEFINE new == update_unstaked_amount(stake, t)
<1>1. /\ stake.unstaked_amount \in Nat /\ stake.unstaking_amount \in Nat
      /\ entry.last_call \in Nat /\ entry.withdrawn \in Nat
      /\ unstake_delay \in Nat
    BY EntryTypes, CollectorConfig DEF StakeState
<1>2. new \in StakeState
    BY UpdatedUnstaked
<1>3. CASE ~delay_over(stake, t)
    <2>1. new = stake
        BY <1>3 DEF update_unstaked_amount
    <2>2. entry.last_call + unstake_delay <= t => stake.unstaking_amount = 0
        BY <1>3 DEF Agrees, delay_over
    <2> QED BY <1>2, <2>1, <2>2
<1>4. CASE delay_over(stake, t)
    <2> DEFINE u == stake.unstaked_amount + stake.unstaking_amount
    <2>1. entry.last_call + unstake_delay <= t
        BY <1>4 DEF delay_over, Agrees
    <2>2. u \in Nat
        BY <1>1
    <2>3. new = [stake EXCEPT !.unstaked_amount = u, !.unstaking_amount = 0,
                              !.unstaking_begin_time = NoTime]
        BY <1>4 DEF update_unstaked_amount
    <2>4. entry.withdrawn + u = UnstakedBy(entry, t) /\ entry.withdrawn + u \in Nat
        BY <1>1 DEF Agrees
    <2> HIDE DEF u, new
    <2>5. /\ new.unstaked_amount = u /\ new.unstaking_amount = 0
          /\ new.unstaking_begin_time = NoTime
        BY <2>2, <2>3 DEF StakeState
    <2>6. /\ t - unstake_delay \in Int /\ t - unstake_delay <= t
          /\ entry.last_call <= t - unstake_delay
        BY <1>1, <2>1
    <2>7. \A at \in Moments : at > t - unstake_delay => entry.unstaked[at] = 0
        BY <1>1, <2>6, CollectorConfig DEF Agrees, Moments
    <2>8. UnstakedBy(entry, t - unstake_delay) = UnstakedBy(entry, t)
        BY <2>6, <2>7, UntilSame
    <2>9. Agrees(new, entry, t)
        BY <2>4, <2>5, <2>8 DEF Agrees
    <2> QED BY <1>2, <2>5, <2>9 DEF new
<1> QED BY <1>3, <1>4

\* UnstakeTokens: more is unstaking, and the time of the call is that of all.
LEMMA MoreUnstaking ==
    ASSUME NEW old \in StakeState, NEW entry \in Entry, NEW t \in Moments,
           Agrees(old, entry, t), NEW amount \in Nat, NEW more \in Entry,
           more.withdrawn = entry.withdrawn, more.last_call = t,
           more.unstaked[t] = entry.unstaked[t] + amount,
           \A at \in Moments \ {t} : more.unstaked[at] = entry.unstaked[at],
           NEW new,
           new.unstaking_amount = old.unstaking_amount + amount,
           new.unstaked_amount = old.unstaked_amount,
           new.unstaking_begin_time = t
    PROVE  Agrees(new, more, t)
<1> DEFINE before == t - unstake_delay
           a == entry.withdrawn + old.unstaked_amount
<1>1. /\ old.unstaked_amount \in Nat /\ old.unstaking_amount \in Nat
      /\ entry.last_call \in Nat /\ entry.withdrawn \in Nat
      /\ unstake_delay \in Nat /\ t \in Nat
    BY EntryTypes, CollectorConfig DEF StakeState, Moments
<1>2. \A at \in Moments : at > t => more.unstaked[at] = 0
    BY <1>1, CollectorConfig DEF Agrees, Moments
<1>3. UnstakedBy(entry, t) \in Nat /\ UnstakedBy(entry, before) \in Nat /\ before \in Int
    BY <1>1, UntilInNat
<1>4. UnstakedBy(more, t) = UnstakedBy(entry, t) + amount
    <2>1. UnstakedBy(more, t) = UnstakedBy(entry, t) + (IF t <= t THEN amount ELSE 0)
        BY <1>1, UntilAdds
    <2> QED BY <1>1, <2>1
<1>5. UnstakedBy(more, before) >= UnstakedBy(entry, before)
      /\ UnstakedBy(more, before) \in Nat
    <2>1. UnstakedBy(more, before)
            = UnstakedBy(entry, before) + (IF t <= before THEN amount ELSE 0)
        BY <1>3, UntilAdds
    <2> HIDE DEF before
    <2> QED BY <1>3, <2>1
<1>6. a + old.unstaking_amount = UnstakedBy(entry, t) /\ a <= UnstakedBy(entry, before)
      /\ a \in Nat
    BY <1>1 DEF Agrees
<1>7. more.withdrawn + new.unstaked_amount = a
    OBVIOUS
<1> HIDE DEF a, before
<1>8. a + new.unstaking_amount = UnstakedBy(more, t) /\ a <= UnstakedBy(more, before)
    BY <1>1, <1>3, <1>4, <1>5, <1>6
<1> QED BY <1>1, <1>2, <1>7, <1>8, CollectorConfig DEF Agrees, before

\* WithdrawTokens: what was unstaked becomes what was withdrawn.
LEMMA MoreWithdrawn ==
    ASSUME NEW old \in StakeState, NEW entry \in Entry, NEW t,
           Agrees(old, entry, t), NEW amount \in Nat, NEW more,
           more.withdrawn = entry.withdrawn + amount,
           more.last_call = entry.last_call, more.unstaked = entry.unstaked,
           NEW new,
           new.unstaked_amount = old.unstaked_amount - amount,
           new.unstaking_amount = old.unstaking_amount,
           new.unstaking_begin_time = old.unstaking_begin_time
    PROVE  Agrees(new, more, t)
<1>1. /\ old.unstaked_amount \in Nat /\ old.unstaking_amount \in Nat
      /\ entry.withdrawn \in Nat
    BY EntryTypes DEF StakeState
<1>2. more.withdrawn + new.unstaked_amount = entry.withdrawn + old.unstaked_amount
    BY <1>1
<1>3. \A u : UnstakedBy(more, u) = UnstakedBy(entry, u)
    BY DEF UnstakedBy
<1> QED BY <1>2, <1>3 DEF Agrees

----------------------------------------------------------------------------
(* Every step keeps records and entries in agreement.                      *)

\* Storing one record and one entry that agree.
LEMMA StoreAgrees ==
    ASSUME TypeOK, LedgerInv, NEW staker \in Stakers, NEW new \in StakeState,
           StoreStake(staker, new), UNCHANGED now, NEW entry \in Entry,
           ledger' = [ledger EXCEPT ![staker] = entry], Agrees(new, entry, now)
    PROVE  LedgerInv'
<1>1. /\ ledger' \in [Stakers -> Entry] /\ ledger'[staker] = entry
      /\ \A other \in Stakers \ {staker} : ledger'[other] = ledger[other]
    BY DEF LedgerInv
<1>2. /\ Stored' = Stored \union {staker}
      /\ stake_states'[staker] = new
      /\ \A other \in Stakers \ {staker} : stake_states'[other] = stake_states[other]
    BY StoreSums
<1>3. ASSUME NEW other \in Stored'
      PROVE  Agrees(stake_states'[other], ledger'[other], now')
    <2>1. CASE other = staker
        BY <1>1, <1>2, <2>1
    <2>2. CASE other # staker
        <3>1. other \in Stakers /\ other \in Stored
            BY <1>2, <1>3, <2>2 DEF Stored
        <3> QED BY <1>1, <1>2, <2>2, <3>1 DEF LedgerInv
    <2> QED BY <2>1, <2>2
<1>4. ASSUME NEW other \in Stakers \ Stored'
      PROVE  Untouched(ledger'[other], now')
    <2>1. other \in Stakers \ {staker} /\ other \notin Stored
        BY <1>2, <1>4
    <2> QED BY <1>1, <2>1 DEF LedgerInv
<1> QED BY <1>1, <1>3, <1>4 DEF LedgerInv

\* Storing a record whose unstaking amounts are as before, or none at first.
LEMMA StoreSame ==
    ASSUME TypeOK, LedgerInv, NEW staker \in Stakers, NEW new \in StakeState,
           StoreStake(staker, new), UNCHANGED <<now, ledger>>,
           staker \in Stored => SameUnstaking(stake_states[staker], new),
           staker \notin Stored => /\ new.unstaking_amount = 0
                                   /\ new.unstaked_amount = 0
                                   /\ new.unstaking_begin_time = NoTime
    PROVE  LedgerInv'
<1> DEFINE entry == ledger[staker]
<1>1. /\ entry \in Entry /\ ledger' = [ledger EXCEPT ![staker] = entry]
    BY DEF LedgerInv
<1>2. CASE staker \in Stored
    <2>1. Agrees(new, entry, now)
        BY <1>2, SameAgrees DEF LedgerInv
    <2> HIDE DEF entry
    <2> QED BY <1>1, <2>1, StoreAgrees
<1>3. CASE staker \notin Stored
    <2>1. Untouched(entry, now)
        BY <1>3 DEF LedgerInv
    <2> HIDE DEF entry
    <2>2. UnstakedBy(entry, now) = 0 /\ UnstakedBy(entry, now - unstake_delay) = 0
        BY <1>1, <2>1, UntouchedUntil
    <2>3. Agrees(new, entry, now)
        BY <1>3, <2>1, <2>2 DEF Agrees, Untouched
    <2> QED BY <1>1, <2>3, StoreAgrees
<1> QED BY <1>2, <1>3

LEMMA UnstakeKeepsLedger ==
    ASSUME CollectorInv, LedgerInv, NEW staker \in Stakers, NEW amount \in TokenAmounts,
           LedgerUnstake(staker, amount)
    PROVE  LedgerInv'
<1> DEFINE old == stake_states[staker]
           touched == update_dividend(old, state.multiplier)
           moved == update_unstaked_amount(touched, now)
           new == moved_to_unstaking(moved, amount)
           entry == ledger[staker]
           sum == entry.unstaked[now] + amount
           row == [entry.unstaked EXCEPT ![now] = sum]
           more == [entry EXCEPT !.unstaked = row, !.last_call = now]
<1>1. /\ TypeOK /\ amount \in Nat /\ staker \in Stored /\ UNCHANGED now
      /\ amount <= old.staked_amount /\ StoreStake(staker, new)
      /\ state.multiplier \in Nat
    BY CollectorConfig DEF CollectorInv, TypeOK, State, LedgerUnstake, UnstakeTokens
<1>2. /\ old \in StakeState /\ entry \in Entry /\ Agrees(old, entry, now)
      /\ now \in Moments /\ now \in Nat
    BY <1>1, StoredStake, CollectorConfig DEF LedgerInv, TypeOK, Moments
<1>3. new \in StakeState
    BY <1>1, Unstaked
<1>4. touched \in StakeState /\ SameUnstaking(old, touched)
    BY <1>1, <1>2, UpdatedDividend DEF SameUnstaking
<1>5. Agrees(touched, entry, now)
    BY <1>2, <1>4, SameAgrees
<1> HIDE DEF touched
<1>6. moved \in StakeState /\ Agrees(moved, entry, now)
    BY <1>2, <1>4, <1>5, UpdateAgrees
<1> HIDE DEF moved
<1>7. /\ new.unstaking_amount = moved.unstaking_amount + amount
      /\ new.unstaked_amount = moved.unstaked_amount
      /\ new.unstaking_begin_time = now
    BY <1>6 DEF moved_to_unstaking, StakeState
<1>8. /\ ledger' = [ledger EXCEPT ![staker].unstaked[now] = @ + amount,
                                  ![staker].last_call = now]
      /\ ledger \in [Stakers -> Entry]
    BY DEF LedgerUnstake, LedgerInv
<1>9. sum \in Nat /\ entry.unstaked[now] \in Nat
    BY <1>1, <1>2, EntryTypes
<1>10. ledger' = [ledger EXCEPT ![staker] = more]
    BY <1>8
<1> HIDE DEF new, entry, sum
<1>11. /\ row \in [Moments -> Nat] /\ row[now] = sum
       /\ \A at \in Moments \ {now} : row[at] = entry.unstaked[at]
    BY <1>2, <1>9 DEF Entry
<1> HIDE DEF row
<1>12. /\ more \in Entry /\ more.withdrawn = entry.withdrawn /\ more.last_call = now
       /\ more.unstaked = row
    BY <1>2, <1>11 DEF Entry
<1> HIDE DEF more
<1>13. Agrees(new, more, now)
    BY <1>1, <1>2, <1>6, <1>7, <1>11, <1>12, MoreUnstaking DEF sum
<1> QED BY <1>1, <1>3, <1>10, <1>12, <1>13, StoreAgrees

LEMMA WithdrawKeepsLedger ==
    ASSUME CollectorInv, LedgerInv, NEW staker \in Stakers, NEW amount \in TokenAmounts,
           NEW to \in Stakers, LedgerWithdraw(staker, amount, to)
    PROVE  LedgerInv'
<1> DEFINE old == stake_states[staker]
           moved == update_unstaked_amount(old, now)
           left == moved.unstaked_amount - amount
           new == [moved EXCEPT !.unstaked_amount = left]
           entry == ledger[staker]
           sum == entry.withdrawn + amount
           more == [entry EXCEPT !.withdrawn = sum]
<1>1. /\ TypeOK /\ amount \in Nat /\ staker \in Stored /\ UNCHANGED now
      /\ amount <= moved.unstaked_amount /\ StoreStake(staker, new)
      /\ ledger' = [ledger EXCEPT ![staker] = more]
    BY CollectorConfig DEF CollectorInv, LedgerWithdraw, WithdrawTokens
<1>2. /\ old \in StakeState /\ entry \in Entry /\ Agrees(old, entry, now) /\ now \in Nat
    BY <1>1, StoredStake, CollectorConfig DEF LedgerInv, TypeOK
<1>3. moved \in StakeState /\ Agrees(moved, entry, now)
    BY <1>2, UpdateAgrees
<1> HIDE DEF moved
<1>4. left \in Nat /\ left = moved.unstaked_amount - amount
    BY <1>1, <1>3 DEF StakeState
<1> HIDE DEF left
<1>5. /\ new \in StakeState /\ new.unstaked_amount = left
      /\ new.unstaking_amount = moved.unstaking_amount
      /\ new.unstaking_begin_time = moved.unstaking_begin_time
    BY <1>3, <1>4 DEF StakeState
<1> HIDE DEF new, entry
<1>6. sum \in Nat /\ sum = entry.withdrawn + amount
    BY <1>1, <1>2, EntryTypes
<1> HIDE DEF sum
<1>7. /\ more \in Entry /\ more.withdrawn = sum
      /\ more.last_call = entry.last_call /\ more.unstaked = entry.unstaked
    BY <1>2, <1>6 DEF Entry
<1> HIDE DEF more
<1>8. Agrees(new, more, now)
    BY <1>1, <1>2, <1>3, <1>4, <1>5, <1>6, <1>7, MoreWithdrawn
<1> QED BY <1>1, <1>5, <1>7, <1>8, StoreAgrees

LEMMA ReceiveKeepsLedger ==
    ASSUME CollectorInv, LedgerInv, NEW sender, NEW staker \in Stakers,
           NEW amount \in TokenAmounts, ReceiveStake(sender, staker, amount),
           UNCHANGED ledger
    PROVE  LedgerInv'
<1> DEFINE old == stake_states[staker]
           touched == update_dividend(old, state.multiplier)
           new == topped_up(staker, amount)
<1>1. /\ TypeOK /\ amount \in Nat /\ UNCHANGED now /\ StoreStake(staker, new)
      /\ state.multiplier \in Nat
    BY CollectorConfig DEF CollectorInv, TypeOK, State, ReceiveStake
<1>2. new \in StakeState
    BY <1>1, ToppedUp
<1>3. staker \notin Stored => /\ new.unstaking_amount = 0
                              /\ new.unstaked_amount = 0
                              /\ new.unstaking_begin_time = NoTime
    BY DEF topped_up, new_stake
<1>4. ASSUME staker \in Stored PROVE SameUnstaking(old, new)
    <2>1. old \in StakeState
        BY <1>1, <1>4, StoredStake
    <2>2. touched \in StakeState /\ SameUnstaking(old, touched)
        BY <1>1, <2>1, UpdatedDividend DEF SameUnstaking
    <2>3. new = [touched EXCEPT !.staked_amount = @ + amount]
        BY <1>4 DEF topped_up
    <2> HIDE DEF touched, new, old
    <2> QED BY <2>2, <2>3 DEF SameUnstaking, StakeState
<1> HIDE DEF new
<1> QED BY <1>1, <1>2, <1>3, <1>4, StoreSame

LEMMA WithdrawDividendsKeepsLedger ==
    ASSUME CollectorInv, LedgerInv, NEW staker \in Stakers, WithdrawDividends(staker),
           UNCHANGED ledger
    PROVE  LedgerInv'
<1> DEFINE old == stake_states[staker]
           touched == update_dividend(old, state.multiplier)
           new == [touched EXCEPT !.dividend = 0]
<1>1. /\ TypeOK /\ staker \in Stored /\ UNCHANGED now /\ StoreStake(staker, new)
      /\ state.multiplier \in Nat
    BY DEF CollectorInv, TypeOK, State, WithdrawDividends
<1>2. old \in StakeState
    BY <1>1, StoredStake
<1>3. touched \in StakeState /\ SameUnstaking(old, touched)
    BY <1>1, <1>2, UpdatedDividend DEF SameUnstaking
<1> HIDE DEF touched
<1>4. new \in StakeState /\ SameUnstaking(old, new)
    <2> HIDE DEF old
    <2> QED BY <1>3 DEF SameUnstaking, StakeState
<1> HIDE DEF new
<1> QED BY <1>1, <1>4, StoreSame

LEMMA OtherKeepsLedger ==
    ASSUME CollectorInv, LedgerInv, LedgerOther
    PROVE  LedgerInv'
<1>1. CASE Tick
    <2>1. now \in Nat /\ now' \in Nat /\ now <= now' /\ TypeOK
        BY <1>1, CollectorConfig DEF CollectorInv, TypeOK, Tick
    <2>2. UNCHANGED <<stake_states, ledger>>
        BY <1>1 DEF LedgerOther, Tick
    <2>3. \A staker \in Stored : Agrees(stake_states[staker], ledger[staker], now')
        <3> SUFFICES ASSUME NEW staker \in Stored
                     PROVE  Agrees(stake_states[staker], ledger[staker], now')
            OBVIOUS
        <3>1. /\ stake_states[staker] \in StakeState /\ ledger[staker] \in Entry
              /\ Agrees(stake_states[staker], ledger[staker], now)
            BY <2>1, StoredStake DEF LedgerInv
        <3> QED BY <2>1, <3>1, LaterAgrees
    <2>4. \A staker \in Stakers \ Stored : Untouched(ledger[staker], now')
        <3> SUFFICES ASSUME NEW staker \in Stakers \ Stored
                     PROVE  Untouched(ledger[staker], now')
            OBVIOUS
        <3>1. ledger[staker] \in Entry /\ Untouched(ledger[staker], now)
            BY DEF LedgerInv
        <3> QED BY <2>1, <3>1, EntryTypes DEF Untouched
    <2>5. Stored' = Stored
        BY <2>2 DEF Stored
    <2> QED BY <2>2, <2>3, <2>4, <2>5 DEF LedgerInv
<1>2. ASSUME NEW sent \in DepositAmounts, Deposit(sent) PROVE LedgerInv'
    <2>1. UNCHANGED <<now, stake_states, ledger>>
        BY <1>2 DEF LedgerOther, Deposit
    <2> QED BY <2>1 DEF LedgerInv, Stored
<1>3. ASSUME NEW staker \in Stakers,
             \/ WithdrawDividends(staker)
             \/ \E amount \in TokenAmounts, sender \in Stakers \union {base_token} :
                  ReceiveStake(sender, staker, amount)
      PROVE  LedgerInv'
    BY <1>3, ReceiveKeepsLedger, WithdrawDividendsKeepsLedger DEF LedgerOther
<1> QED BY <1>1, <1>2, <1>3 DEF LedgerOther

LEMMA InitLedgerInv == LedgerInit => CollectorInv /\ LedgerInv
<1> SUFFICES ASSUME LedgerInit PROVE CollectorInv /\ LedgerInv
    OBVIOUS
<1>1. CollectorInv
    BY InitCollectorInv DEF LedgerInit
<1>2. Stored = {} /\ now = StartTime
    BY DEF LedgerInit, Init, Stored
<1>3. StartTime \in Moments
    BY CollectorConfig, RootCollectorAssumption DEF Moments
<1>4. /\ ledger \in [Stakers -> Entry]
      /\ \A staker \in Stakers : Untouched(ledger[staker], StartTime)
    BY <1>3, CollectorConfig DEF LedgerInit, Entry, Moments, Untouched
<1> QED BY <1>1, <1>2, <1>4 DEF LedgerInv

\* The ledger only watches: every step of it is one of the collector.
LEMMA LedgerWatches == [LedgerNext]_ledger_vars => [Next]_vars
<1> SUFFICES ASSUME LedgerNext PROVE Next
    BY DEF ledger_vars
<1>1. CASE LedgerOther
    BY <1>1 DEF LedgerOther, Next, Call
<1>2. ASSUME NEW staker \in Stakers, NEW amount \in TokenAmounts,
             \/ LedgerUnstake(staker, amount)
             \/ \E to \in Stakers : LedgerWithdraw(staker, amount, to)
      PROVE  Next
    BY <1>2 DEF Next, Call, LedgerUnstake, LedgerWithdraw
<1> QED BY <1>1, <1>2 DEF LedgerNext

LEMMA LedgerStep == CollectorInv /\ LedgerInv /\ [LedgerNext]_ledger_vars => LedgerInv'
<1> SUFFICES ASSUME CollectorInv, LedgerInv, [LedgerNext]_ledger_vars PROVE LedgerInv'
    OBVIOUS
<1>1. CASE UNCHANGED ledger_vars
    BY <1>1 DEF ledger_vars, vars, LedgerInv, Stored
<1>2. CASE LedgerOther
    BY <1>2, OtherKeepsLedger
<1>3. ASSUME NEW staker \in Stakers, NEW amount \in TokenAmounts,
             \/ LedgerUnstake(staker, amount)
             \/ \E to \in Stakers : LedgerWithdraw(staker, amount, to)
      PROVE  LedgerInv'
    BY <1>3, UnstakeKeepsLedger, WithdrawKeepsLedger
<1> QED BY <1>1, <1>2, <1>3 DEF LedgerNext

LEMMA LedgerInvariance == LedgerSpec => [](CollectorInv /\ LedgerInv)
    BY InitLedgerInv, LedgerWatches, LedgerStep, StepKeepsInv, PTL DEF LedgerSpec

----------------------------------------------------------------------------
(* The delay, from below and from above.                                   *)

\* What WithdrawTokens would pay now, in terms of the invariant.
LEMMA Withdrawable ==
    ASSUME CollectorInv, LedgerInv, NEW staker \in Stored
    PROVE  LET entry == ledger[staker]
               new == update_unstaked_amount(stake_states[staker], now)
           IN  /\ entry \in Entry /\ new \in StakeState /\ now \in Nat
               /\ withdrawable(staker) = new.unstaked_amount
               /\ Agrees(new, entry, now)
               /\ entry.last_call + unstake_delay <= now => new.unstaking_amount = 0
               /\ \A t : unstaked_until(staker, t) = UnstakedBy(entry, t)
<1>1. TypeOK /\ now \in Nat /\ staker \in Stakers
    BY CollectorConfig DEF CollectorInv, TypeOK, Stored
<1>2. /\ stake_states[staker] \in StakeState /\ ledger[staker] \in Entry
      /\ Agrees(stake_states[staker], ledger[staker], now)
    BY <1>1, StoredStake DEF LedgerInv
<1>3. \A t : unstaked_until(staker, t) = UnstakedBy(ledger[staker], t)
    BY DEF unstaked_until, UnstakedBy, Sum, Blocks, Block, Moments
<1> QED BY <1>1, <1>2, <1>3, UpdateAgrees DEF withdrawable

\* No token leaves, or could leave, before the delay since the call that
\* unstaked it has passed.
THEOREM NoneBeforeDelay == LedgerSpec => []NotBeforeDelay
<1>1. CollectorInv /\ LedgerInv => NotBeforeDelay
    BY Withdrawable DEF NotBeforeDelay, Agrees
<1> QED BY <1>1, LedgerInvariance, PTL

\* Once the delay since an account's last unstaking has passed, all that it
\* unstaked can be withdrawn or has been.
THEOREM AllAfterDelay == LedgerSpec => []ReturnedAfterDelay
<1>1. CollectorInv /\ LedgerInv => ReturnedAfterDelay
    <2> SUFFICES ASSUME CollectorInv, LedgerInv, NEW staker \in Stored,
                        now >= ledger[staker].last_call + unstake_delay
                 PROVE  ledger[staker].withdrawn + withdrawable(staker)
                          = unstaked_until(staker, now)
        BY DEF ReturnedAfterDelay
    <2> DEFINE entry == ledger[staker]
               new == update_unstaked_amount(stake_states[staker], now)
    <2>1. /\ entry \in Entry /\ new \in StakeState /\ now \in Nat
          /\ withdrawable(staker) = new.unstaked_amount
          /\ Agrees(new, entry, now)
          /\ entry.last_call + unstake_delay <= now => new.unstaking_amount = 0
          /\ unstaked_until(staker, now) = UnstakedBy(entry, now)
        BY Withdrawable
    <2>2. entry.last_call + unstake_delay <= now
        BY <2>1, EntryTypes, CollectorConfig
    <2>3. entry.withdrawn \in Nat /\ new.unstaked_amount \in Nat
        BY <2>1, EntryTypes DEF StakeState
    <2>4. entry.withdrawn + new.unstaked_amount + new.unstaking_amount
            = UnstakedBy(entry, now)
        BY <2>1 DEF Agrees
    <2> HIDE DEF new
    <2> QED BY <2>1, <2>2, <2>3, <2>4
<1> QED BY <1>1, LedgerInvariance, PTL

----------------------------------------------------------------------------
(* The collector implements TokenVault.                                    *)

\* What is unstaking has begun to, and not in the future.  Without this, tokens
\* would not be free at once where there is no delay.
HasBegun(stake, t) ==
    IF stake.unstaking_begin_time = NoTime
    THEN stake.unstaking_amount = 0
    ELSE stake.unstaking_begin_time <= t

VaultInv ==
    /\ TypeOK
    /\ \A staker \in Stored : HasBegun(stake_states[staker], now)

\* What the vault knows of an account.
Holding(stake, t) ==
    LET new == update_unstaked_amount(stake, t)
    IN  [ staked |-> stake.staked_amount,
          leaving |-> new.unstaking_amount,
          free_at |-> unstake_time(new.unstaking_begin_time),
          free |-> new.unstaked_amount ]

NoHolding == [staked |-> 0, leaving |-> 0, free_at |-> NoTime, free |-> 0]

held(staker) == IF staker \in Stored THEN Holding(stake_states[staker], now) ELSE NoHolding

\* The account's holding before and after the end of its delay.
LEMMA SettledHolding ==
    ASSUME NEW stake \in StakeState, NEW t \in Nat
    PROVE  LET holding == Holding(stake, t)
           IN  /\ holding.staked = stake.staked_amount
               /\ delay_over(stake, t) =>
                    /\ holding.leaving = 0
                    /\ holding.free_at = NoTime
                    /\ holding.free = stake.unstaked_amount + stake.unstaking_amount
               /\ ~delay_over(stake, t) =>
                    /\ holding.leaving = stake.unstaking_amount
                    /\ holding.free_at = unstake_time(stake.unstaking_begin_time)
                    /\ holding.free = stake.unstaked_amount
<1> DEFINE u == stake.unstaked_amount + stake.unstaking_amount
           new == [stake EXCEPT !.unstaked_amount = u,
                                !.unstaking_amount = 0,
                                !.unstaking_begin_time = NoTime]
<1>1. update_unstaked_amount(stake, t) = IF delay_over(stake, t) THEN new ELSE stake
    BY DEF update_unstaked_amount
<1>2. /\ new.staked_amount = stake.staked_amount /\ new.unstaking_amount = 0
      /\ new.unstaked_amount = u /\ new.unstaking_begin_time = NoTime
    BY DEF StakeState
<1> HIDE DEF new
<1> QED BY <1>1, <1>2 DEF Holding, unstake_time

\* An unstaking that waits for its delay, and one that does not.
LEMMA DelayOver ==
    ASSUME NEW stake \in StakeState, NEW t \in Nat
    PROVE  LET begin == stake.unstaking_begin_time
           IN  /\ begin = NoTime => ~delay_over(stake, t) /\ unstake_time(begin) = NoTime
               /\ begin # NoTime =>
                    /\ begin \in Nat
                    /\ unstake_time(begin) \in Nat
                    /\ unstake_time(begin) # NoTime
                    /\ delay_over(stake, t) <=> unstake_time(begin) <= t
    BY CollectorConfig DEF StakeState, delay_over, unstake_time

LEMMA HoldingTypes ==
    ASSUME NEW stake \in StakeState, NEW t \in Nat
    PROVE  LET holding == Holding(stake, t)
           IN  /\ holding.staked \in Nat /\ holding.leaving \in Nat /\ holding.free \in Nat
               /\ holding.free_at # NoTime => holding.free_at \in Nat /\ ~(holding.free_at <= t)
<1>1. /\ stake.staked_amount \in Nat /\ stake.unstaking_amount \in Nat
      /\ stake.unstaked_amount \in Nat
    BY DEF StakeState
<1> QED BY <1>1, SettledHolding, DelayOver

\* The mapping's functions in terms of the holdings.
LEMMA MappedHoldings ==
    /\ staked = [staker \in Stakers |-> held(staker).staked]
    /\ leaving = [staker \in Stakers |-> held(staker).leaving]
    /\ free_at = [staker \in Stakers |-> held(staker).free_at]
    /\ free = [staker \in Stakers |-> held(staker).free]
    BY DEF staked, leaving, free_at, free, held, Holding, NoHolding, settled

LEMMA MappedHoldingsNext ==
    /\ staked' = [staker \in Stakers |-> held(staker)'.staked]
    /\ leaving' = [staker \in Stakers |-> held(staker)'.leaving]
    /\ free_at' = [staker \in Stakers |-> held(staker)'.free_at]
    /\ free' = [staker \in Stakers |-> held(staker)'.free]
    BY DEF staked, leaving, free_at, free, held, Holding, NoHolding, settled

\* Storing a record changes the holding of its account alone.
LEMMA StoreHolding ==
    ASSUME TypeOK, NEW staker \in Stakers, NEW new \in StakeState,
           StoreStake(staker, new), UNCHANGED now
    PROVE  LET holding == Holding(new, now)
           IN  /\ staked' = [staked EXCEPT ![staker] = holding.staked]
               /\ leaving' = [leaving EXCEPT ![staker] = holding.leaving]
               /\ free_at' = [free_at EXCEPT ![staker] = holding.free_at]
               /\ free' = [free EXCEPT ![staker] = holding.free]
<1>1. /\ Stored' = Stored \union {staker}
      /\ stake_states'[staker] = new
      /\ \A other \in Stakers \ {staker} : stake_states'[other] = stake_states[other]
    BY StoreSums
<1>2. held(staker)' = Holding(new, now)
    BY <1>1 DEF held, Holding
<1>3. \A other \in Stakers \ {staker} : held(other)' = held(other)
    BY <1>1 DEF held, Holding
<1> QED BY <1>2, <1>3, MappedHoldings, MappedHoldingsNext

\* A record that differs from the one before in what was not unstaked only.
LEMMA SameUnstakingHolding ==
    ASSUME NEW old \in StakeState, NEW new \in StakeState, NEW t \in Nat,
           SameUnstaking(old, new)
    PROVE  LET holding == Holding(new, t)
               before == Holding(old, t)
           IN  /\ holding.leaving = before.leaving
               /\ holding.free_at = before.free_at
               /\ holding.free = before.free
               /\ HasBegun(old, t) => HasBegun(new, t)
<1>1. delay_over(old, t) <=> delay_over(new, t)
    BY DEF delay_over, SameUnstaking
<1> QED BY <1>1, SettledHolding DEF SameUnstaking, HasBegun

LEMMA StoreHasBegun ==
    ASSUME VaultInv, TypeOK', NEW staker \in Stakers, NEW new \in StakeState,
           StoreStake(staker, new), UNCHANGED now, HasBegun(new, now)
    PROVE  VaultInv'
<1>1. TypeOK
    BY DEF VaultInv
<1>2. /\ Stored' = Stored \union {staker}
      /\ stake_states'[staker] = new
      /\ \A other \in Stakers \ {staker} : stake_states'[other] = stake_states[other]
    BY <1>1, StoreSums
<1>3. ASSUME NEW other \in Stored' PROVE HasBegun(stake_states'[other], now')
    <2>1. CASE other = staker
        BY <1>2, <2>1
    <2>2. CASE other # staker
        <3>1. other \in Stakers /\ other \in Stored
            BY <1>2, <1>3, <2>2 DEF Stored
        <3> QED BY <1>2, <2>2, <3>1 DEF VaultInv
    <2> QED BY <2>1, <2>2
<1> QED BY <1>3 DEF VaultInv

\* A call that touches no unstaked token leaves all but the staked ones as they are.
LEMMA NothingLeaves ==
    ASSUME VaultInv, TypeOK', NEW staker \in Stakers, NEW new \in StakeState,
           StoreStake(staker, new), UNCHANGED now,
           staker \in Stored => SameUnstaking(stake_states[staker], new),
           staker \notin Stored => /\ new.unstaking_amount = 0
                                   /\ new.unstaked_amount = 0
                                   /\ new.unstaking_begin_time = NoTime
    PROVE  /\ UNCHANGED <<leaving, free_at, free>>
           /\ staked' = [staked EXCEPT ![staker] = new.staked_amount]
           /\ VaultInv'
<1> DEFINE holding == Holding(new, now)
<1>1. TypeOK /\ now \in Nat
    BY CollectorConfig DEF VaultInv, TypeOK
<1>2. /\ holding.staked = new.staked_amount
      /\ holding.leaving = held(staker).leaving
      /\ holding.free_at = held(staker).free_at
      /\ holding.free = held(staker).free
      /\ HasBegun(new, now)
    <2>1. CASE staker \in Stored
        <3>1. stake_states[staker] \in StakeState /\ HasBegun(stake_states[staker], now)
            BY <1>1, <2>1, StoredStake DEF VaultInv
        <3>2. held(staker) = Holding(stake_states[staker], now)
            BY <2>1 DEF held
        <3> QED BY <1>1, <2>1, <3>1, <3>2, SameUnstakingHolding, SettledHolding
    <2>2. CASE staker \notin Stored
        <3>1. held(staker) = NoHolding
            BY <2>2 DEF held
        <3>2. ~delay_over(new, now) /\ unstake_time(new.unstaking_begin_time) = NoTime
            BY <1>1, <2>2, DelayOver
        <3> QED BY <1>1, <2>2, <3>1, <3>2, SettledHolding DEF NoHolding, HasBegun
    <2> QED BY <2>1, <2>2
<1>3. /\ staked' = [staked EXCEPT ![staker] = holding.staked]
      /\ leaving' = [leaving EXCEPT ![staker] = holding.leaving]
      /\ free_at' = [free_at EXCEPT ![staker] = holding.free_at]
      /\ free' = [free EXCEPT ![staker] = holding.free]
    BY <1>1, StoreHolding
<1> HIDE DEF holding
<1>4. UNCHANGED <<leaving, free_at, free>>
    BY <1>2, <1>3, MappedHoldings
<1> QED BY <1>2, <1>3, <1>4, StoreHasBegun

----------------------------------------------------------------------------
(* The steps.                                                              *)

LEMMA ReceiveRefines ==
    ASSUME VaultInv, TypeOK', NEW staker \in Stakers, NEW amount \in TokenAmounts,
           NEW sender \in Stakers \union {base_token}, ReceiveStake(sender, staker, amount)
    PROVE  Vault!Stake(staker) /\ VaultInv'
<1> DEFINE old == stake_states[staker]
           touched == update_dividend(old, state.multiplier)
           new == topped_up(staker, amount)
<1>1. /\ TypeOK /\ amount \in Nat /\ UNCHANGED now /\ StoreStake(staker, new)
      /\ state.multiplier \in Nat
    BY CollectorConfig DEF VaultInv, TypeOK, State, ReceiveStake
<1>2. /\ amount # 0 /\ amount <= wallets[staker] /\ wallets[staker] \in Nat
      /\ wallets' = [wallets EXCEPT ![staker] = @ - amount]
    BY <1>1 DEF ReceiveStake, may_call_receive, tokens_moved, TypeOK
<1>3. /\ new \in StakeState
      /\ new.staked_amount = staked_by(staker) + amount
    BY <1>1, ToppedUp
<1>4. ASSUME staker \in Stored PROVE SameUnstaking(old, new)
    <2>1. old \in StakeState
        BY <1>1, <1>4, StoredStake
    <2>2. touched \in StakeState /\ SameUnstaking(old, touched)
        BY <1>1, <2>1, UpdatedDividend DEF SameUnstaking
    <2>3. new = [touched EXCEPT !.staked_amount = @ + amount]
        BY <1>4 DEF topped_up
    <2> HIDE DEF touched, new, old
    <2> QED BY <2>2, <2>3 DEF SameUnstaking, StakeState
<1>5. staker \notin Stored => /\ new.unstaking_amount = 0
                              /\ new.unstaked_amount = 0
                              /\ new.unstaking_begin_time = NoTime
    BY DEF topped_up, new_stake
<1> HIDE DEF new
<1>6. staker \in Stored => SameUnstaking(old, new)
    BY <1>4
<1>7. /\ UNCHANGED <<leaving, free_at, free>>
      /\ staked' = [staked EXCEPT ![staker] = new.staked_amount]
      /\ VaultInv'
    BY <1>1, <1>3, <1>5, <1>6, NothingLeaves
<1>8. staked[staker] = staked_by(staker)
    BY DEF staked, staked_by
<1>9. amount \in 1 .. wallets[staker]
    BY <1>1, <1>2
<1> QED BY <1>1, <1>2, <1>3, <1>7, <1>8, <1>9 DEF Vault!Stake

LEMMA UnstakeRefines ==
    ASSUME VaultInv, TypeOK', NEW staker \in Stakers, NEW amount \in TokenAmounts,
           UnstakeTokens(staker, amount)
    PROVE  Vault!Unstake(staker) /\ VaultInv'
<1> DEFINE old == stake_states[staker]
           touched == update_dividend(old, state.multiplier)
           moved == update_unstaked_amount(touched, now)
           new == moved_to_unstaking(moved, amount)
           before == Holding(old, now)
           after == Holding(new, now)
<1>1. /\ TypeOK /\ now \in Nat /\ amount \in Nat /\ staker \in Stored
      /\ UNCHANGED <<now, wallets>>
      /\ amount <= old.staked_amount /\ StoreStake(staker, new)
      /\ state.multiplier \in Nat
    BY CollectorConfig DEF VaultInv, TypeOK, State, UnstakeTokens
<1>2. old \in StakeState /\ old.staked_amount \in Nat /\ HasBegun(old, now)
    BY <1>1, StoredStake DEF VaultInv, StakeState
<1>3. new \in StakeState /\ new.staked_amount = old.staked_amount - amount
    BY <1>1, Unstaked
<1>4. touched \in StakeState /\ SameUnstaking(old, touched)
    BY <1>1, <1>2, UpdatedDividend DEF SameUnstaking
<1> HIDE DEF touched
<1>5. /\ moved \in StakeState
      /\ moved.unstaking_amount = before.leaving
      /\ moved.unstaked_amount = before.free
    <2>1. moved \in StakeState
        BY <1>4, UpdatedUnstaked
    <2>2. /\ moved.unstaking_amount = Holding(touched, now).leaving
          /\ moved.unstaked_amount = Holding(touched, now).free
        BY DEF Holding
    <2> HIDE DEF moved
    <2> QED BY <1>1, <1>2, <1>4, <2>1, <2>2, SameUnstakingHolding
<1> HIDE DEF moved, old
<1>6. /\ new.unstaking_amount = moved.unstaking_amount + amount
      /\ new.unstaked_amount = moved.unstaked_amount
      /\ new.unstaking_begin_time = now
    BY <1>5 DEF moved_to_unstaking, StakeState
<1> HIDE DEF new
<1>7. HasBegun(new, now)
    BY <1>1, <1>6, CollectorConfig DEF HasBegun
<1>8. /\ before.leaving \in Nat /\ before.free \in Nat
      /\ before.staked = old.staked_amount /\ after.staked = new.staked_amount
    BY <1>1, <1>2, <1>3, HoldingTypes, SettledHolding
<1>9. /\ staked[staker] = before.staked /\ leaving[staker] = before.leaving
      /\ free_at[staker] = before.free_at /\ free[staker] = before.free
    BY <1>1, MappedHoldings DEF held, old
<1>10. /\ staked' = [staked EXCEPT ![staker] = after.staked]
       /\ leaving' = [leaving EXCEPT ![staker] = after.leaving]
       /\ free_at' = [free_at EXCEPT ![staker] = after.free_at]
       /\ free' = [free EXCEPT ![staker] = after.free]
    BY <1>1, <1>3, StoreHolding
<1> HIDE DEF before, after
<1>11. /\ amount \in 0 .. staked[staker]
      /\ staked' = [staked EXCEPT ![staker] = @ - amount]
    BY <1>1, <1>2, <1>3, <1>8, <1>9, <1>10
<1>12. CASE unstake_delay = 0
    <2>1. delay_over(new, now)
        BY <1>1, <1>6, <1>12, CollectorConfig DEF delay_over
    <2>2. after.leaving = 0 /\ after.free_at = NoTime
          /\ after.free = before.free + (before.leaving + amount)
        BY <1>1, <1>3, <1>5, <1>6, <2>1, SettledHolding DEF after
    <2>3. before.leaving = 0 /\ before.free_at = NoTime
        <3>1. CASE delay_over(old, now)
            BY <1>1, <1>2, <3>1, SettledHolding DEF before
        <3>2. CASE ~delay_over(old, now)
            <4>1. old.unstaking_begin_time = NoTime
                BY <1>1, <1>2, <1>12, <3>2, CollectorConfig DEF delay_over, HasBegun, StakeState
            <4>2. unstake_time(old.unstaking_begin_time) = NoTime
                BY <4>1 DEF unstake_time
            <4> QED BY <1>1, <1>2, <3>2, <4>1, <4>2, SettledHolding DEF HasBegun, before
        <3> QED BY <3>1, <3>2
    <2>4. after.free = before.free + amount
        BY <1>1, <1>8, <2>2, <2>3
    <2>5. /\ free' = [free EXCEPT ![staker] = @ + amount]
          /\ UNCHANGED <<leaving, free_at>>
        BY <1>9, <1>10, <2>2, <2>3, <2>4, MappedHoldings
    <2>6. Vault!Unstake(staker)
        BY <1>1, <1>11, <1>12, <2>5 DEF Vault!Unstake
    <2> QED BY <1>1, <1>3, <1>7, <2>6, StoreHasBegun
<1>13. CASE unstake_delay # 0
    <2>1. unstake_time(new.unstaking_begin_time) = now + unstake_delay
        BY <1>1, <1>6, CollectorConfig DEF unstake_time
    <2>2. ~delay_over(new, now)
        BY <1>1, <1>6, <1>13, CollectorConfig DEF delay_over
    <2>3. /\ after.leaving = before.leaving + amount
          /\ after.free_at = now + unstake_delay
          /\ after.free = before.free
        BY <1>1, <1>3, <1>5, <1>6, <2>1, <2>2, SettledHolding DEF after
    <2>4. /\ leaving' = [leaving EXCEPT ![staker] = @ + amount]
          /\ free_at' = [free_at EXCEPT ![staker] = now + unstake_delay]
          /\ UNCHANGED free
        BY <1>9, <1>10, <2>3, MappedHoldings
    <2>5. Vault!Unstake(staker)
        BY <1>1, <1>11, <1>13, <2>4 DEF Vault!Unstake
    <2> QED BY <1>1, <1>3, <1>7, <2>5, StoreHasBegun
<1> QED BY <1>12, <1>13

LEMMA WithdrawRefines ==
    ASSUME VaultInv, TypeOK', NEW staker \in Stakers, NEW amount \in TokenAmounts,
           NEW to \in Stakers, WithdrawTokens(staker, amount, to)
    PROVE  Vault!Withdraw(staker, to) /\ VaultInv'
<1> DEFINE old == stake_states[staker]
           moved == update_unstaked_amount(old, now)
           left == moved.unstaked_amount - amount
           new == [moved EXCEPT !.unstaked_amount = left]
           before == Holding(old, now)
           after == Holding(new, now)
<1>1. /\ TypeOK /\ now \in Nat /\ amount \in Nat \ {0} /\ staker \in Stored
      /\ UNCHANGED now /\ wallets' = [wallets EXCEPT ![to] = @ + amount]
      /\ amount <= moved.unstaked_amount /\ StoreStake(staker, new)
    BY CollectorConfig DEF VaultInv, TypeOK, WithdrawTokens, send_tokens_msg
<1>2. old \in StakeState /\ HasBegun(old, now)
    BY <1>1, StoredStake DEF VaultInv
<1>3. /\ moved \in StakeState
      /\ before.staked = moved.staked_amount
      /\ before.leaving = moved.unstaking_amount
      /\ before.free_at = unstake_time(moved.unstaking_begin_time)
      /\ before.free = moved.unstaked_amount
    BY <1>2, UpdatedUnstaked DEF Holding
<1>4. ~delay_over(moved, now) /\ HasBegun(moved, now)
    <2>1. CASE delay_over(old, now)
        <3>1. moved.unstaking_begin_time = NoTime /\ moved.unstaking_amount = 0
            BY <1>2, <2>1 DEF update_unstaked_amount, StakeState
        <3> HIDE DEF moved
        <3> QED BY <3>1 DEF delay_over, HasBegun
    <2>2. CASE ~delay_over(old, now)
        <3>1. moved = old
            BY <2>2 DEF update_unstaked_amount
        <3> QED BY <1>2, <2>2, <3>1
    <2> QED BY <2>1, <2>2
<1> HIDE DEF moved
<1>5. left \in Nat /\ left = moved.unstaked_amount - amount
    BY <1>1, <1>3 DEF StakeState
<1> HIDE DEF left
<1>6. /\ new \in StakeState /\ new.unstaked_amount = left
      /\ new.staked_amount = moved.staked_amount
      /\ new.unstaking_amount = moved.unstaking_amount
      /\ new.unstaking_begin_time = moved.unstaking_begin_time
    BY <1>3, <1>5 DEF StakeState
<1> HIDE DEF new
<1>7. ~delay_over(new, now) /\ HasBegun(new, now)
    BY <1>4, <1>6 DEF delay_over, HasBegun
<1>8. /\ after.staked = before.staked /\ after.leaving = before.leaving
      /\ after.free_at = before.free_at /\ after.free = before.free - amount
    BY <1>1, <1>3, <1>5, <1>6, <1>7, SettledHolding
<1>9. /\ staked' = [staked EXCEPT ![staker] = after.staked]
      /\ leaving' = [leaving EXCEPT ![staker] = after.leaving]
      /\ free_at' = [free_at EXCEPT ![staker] = after.free_at]
      /\ free' = [free EXCEPT ![staker] = after.free]
    BY <1>1, <1>6, StoreHolding
<1>10. /\ staked[staker] = before.staked /\ leaving[staker] = before.leaving
       /\ free_at[staker] = before.free_at /\ free[staker] = before.free
    BY <1>1, MappedHoldings DEF held, old
<1>11. amount \in 1 .. before.free
    BY <1>1, <1>3 DEF StakeState
<1> HIDE DEF before, after
<1>12. /\ UNCHANGED <<staked, leaving, free_at>>
       /\ free' = [free EXCEPT ![staker] = @ - amount]
    BY <1>8, <1>9, <1>10, MappedHoldings
<1>13. Vault!Withdraw(staker, to)
    BY <1>1, <1>10, <1>11, <1>12 DEF Vault!Withdraw
<1> QED BY <1>1, <1>6, <1>7, <1>13, StoreHasBegun

LEMMA WithdrawDividendsRefines ==
    ASSUME VaultInv, TypeOK', NEW staker \in Stakers, WithdrawDividends(staker)
    PROVE  UNCHANGED Vault!vault_vars /\ VaultInv'
<1> DEFINE old == stake_states[staker]
           touched == update_dividend(old, state.multiplier)
           new == [touched EXCEPT !.dividend = 0]
<1>1. /\ TypeOK /\ staker \in Stored /\ UNCHANGED <<now, wallets>>
      /\ StoreStake(staker, new) /\ state.multiplier \in Nat
    BY DEF VaultInv, TypeOK, State, WithdrawDividends
<1>2. old \in StakeState
    BY <1>1, StoredStake
<1>3. /\ touched \in StakeState /\ SameUnstaking(old, touched)
      /\ touched.staked_amount = old.staked_amount
    BY <1>1, <1>2, UpdatedDividend DEF SameUnstaking
<1> HIDE DEF touched
<1>4. new \in StakeState /\ SameUnstaking(old, new) /\ new.staked_amount = old.staked_amount
    <2> HIDE DEF old
    <2> QED BY <1>3 DEF SameUnstaking, StakeState
<1> HIDE DEF new
<1>5. /\ UNCHANGED <<leaving, free_at, free>>
      /\ staked' = [staked EXCEPT ![staker] = new.staked_amount]
      /\ VaultInv'
    BY <1>1, <1>4, NothingLeaves
<1>6. staked[staker] = old.staked_amount
    BY <1>1 DEF staked
<1>7. UNCHANGED staked
    BY <1>4, <1>5, <1>6, MappedHoldings
<1> QED BY <1>1, <1>5, <1>7 DEF Vault!vault_vars

\* A step that changes no record and no wallet, at the same time.
LEMMA NothingHeldChanges ==
    ASSUME VaultInv, TypeOK', UNCHANGED <<now, stake_states, wallets>>
    PROVE  UNCHANGED Vault!vault_vars /\ VaultInv'
<1>1. Stored' = Stored
    BY DEF Stored
<1>2. UNCHANGED <<staked, leaving, free_at, free>>
    BY <1>1 DEF staked, leaving, free_at, free, settled
<1> QED BY <1>1, <1>2 DEF VaultInv, Vault!vault_vars

\* What has become of a holding at a later time.
LEMMA LaterHolding ==
    ASSUME NEW stake \in StakeState, NEW t \in Nat, NEW u \in Nat, t <= u
    PROVE  LET before == Holding(stake, t)
               after == Holding(stake, u)
               freed == before.free_at # NoTime /\ before.free_at <= u
           IN  /\ after.staked = before.staked
               /\ after.leaving = IF freed THEN 0 ELSE before.leaving
               /\ after.free_at = IF freed THEN NoTime ELSE before.free_at
               /\ after.free = IF freed THEN before.free + before.leaving ELSE before.free
<1> DEFINE before == Holding(stake, t)
           after == Holding(stake, u)
           freed == before.free_at # NoTime /\ before.free_at <= u
<1>1. after.staked = before.staked
    BY SettledHolding
<1>2. CASE delay_over(stake, t)
    <2>1. delay_over(stake, u)
        BY <1>2, CollectorConfig DEF delay_over, StakeState
    <2> QED BY <1>1, <1>2, <2>1, SettledHolding
<1>3. CASE ~delay_over(stake, t)
    <2>1. freed <=> delay_over(stake, u)
        BY <1>3, SettledHolding, DelayOver
    <2>2. /\ before.leaving = stake.unstaking_amount
          /\ before.free_at = unstake_time(stake.unstaking_begin_time)
          /\ before.free = stake.unstaked_amount
        BY <1>3, SettledHolding
    <2>3. CASE freed
        BY <1>1, <2>1, <2>2, <2>3, SettledHolding
    <2>4. CASE ~freed
        BY <1>1, <2>1, <2>2, <2>4, SettledHolding
    <2> QED BY <2>3, <2>4
<1> QED BY <1>2, <1>3

LEMMA TickRefines ==
    ASSUME VaultInv, TypeOK', Tick
    PROVE  Vault!Elapse /\ VaultInv'
<1> DEFINE freed(staker) == held(staker).free_at # NoTime /\ held(staker).free_at <= now'
<1>1. /\ TypeOK /\ now \in Nat /\ now' \in Nat /\ now' > now
      /\ UNCHANGED <<stake_states, wallets>> /\ Stored' = Stored
    BY CollectorConfig DEF VaultInv, TypeOK, Tick, Stored
<1>2. ASSUME NEW staker \in Stakers
      PROVE  /\ held(staker)'.staked = held(staker).staked
             /\ held(staker)'.leaving = IF freed(staker) THEN 0 ELSE held(staker).leaving
             /\ held(staker)'.free_at = IF freed(staker) THEN NoTime ELSE held(staker).free_at
             /\ held(staker)'.free = IF freed(staker)
                                     THEN held(staker).free + held(staker).leaving
                                     ELSE held(staker).free
    <2>1. CASE staker \in Stored
        <3>1. stake_states[staker] \in StakeState
            BY <1>1, <2>1, StoredStake
        <3>2. /\ held(staker) = Holding(stake_states[staker], now)
              /\ held(staker)' = Holding(stake_states[staker], now')
            BY <1>1, <2>1 DEF held, Holding
        <3>3. now <= now'
            BY <1>1
        <3> QED BY <1>1, <3>1, <3>2, <3>3, LaterHolding
    <2>2. CASE staker \notin Stored
        <3>1. held(staker) = NoHolding /\ held(staker)' = NoHolding
            BY <1>1, <2>2 DEF held, NoHolding
        <3> QED BY <3>1 DEF NoHolding
    <2> QED BY <2>1, <2>2
<1>3. \A staker \in Stakers : staker \in Vault!Freed(now') <=> freed(staker)
    BY MappedHoldings DEF Vault!Freed
<1>4. UNCHANGED staked
    BY <1>2, MappedHoldings, MappedHoldingsNext
<1>5. leaving' = [staker \in Stakers |->
                    IF staker \in Vault!Freed(now') THEN 0 ELSE leaving[staker]]
    BY <1>2, <1>3, MappedHoldings, MappedHoldingsNext
<1>6. free_at' = [staker \in Stakers |->
                    IF staker \in Vault!Freed(now') THEN NoTime ELSE free_at[staker]]
    BY <1>2, <1>3, MappedHoldings, MappedHoldingsNext
<1>7. free' = [staker \in Stakers |->
                 IF staker \in Vault!Freed(now')
                 THEN free[staker] + leaving[staker] ELSE free[staker]]
    BY <1>2, <1>3, MappedHoldings, MappedHoldingsNext
<1>8. Vault!Elapse
    BY <1>1, <1>4, <1>5, <1>6, <1>7 DEF Vault!Elapse
<1>9. \A staker \in Stored' : HasBegun(stake_states'[staker], now')
    <2> SUFFICES ASSUME NEW staker \in Stored
                 PROVE  HasBegun(stake_states[staker], now')
        BY <1>1
    <2>1. stake_states[staker] \in StakeState /\ HasBegun(stake_states[staker], now)
        BY <1>1, StoredStake DEF VaultInv
    <2> QED BY <1>1, <2>1 DEF HasBegun, StakeState
<1> QED BY <1>8, <1>9 DEF VaultInv

----------------------------------------------------------------------------
(* The refinement.                                                         *)

LEMMA InitVault == Init => VaultInv /\ Vault!Init
<1> SUFFICES ASSUME Init PROVE VaultInv /\ Vault!Init
    OBVIOUS
<1>1. TypeOK
    BY InitCollectorInv DEF CollectorInv
<1>2. Stored = {}
    BY DEF Init, Stored
<1>3. VaultInv
    BY <1>1, <1>2 DEF VaultInv
<1> QED BY <1>2, <1>3, CollectorConfig
        DEF Init, Vault!Init, staked, leaving, free_at, free

\* Every step of the collector is one of the vault, or leaves it as it is.
LEMMA StepRefines == VaultInv /\ TypeOK' /\ [Next]_vars => VaultInv' /\ [Vault!Next]_(Vault!vault_vars)
<1> SUFFICES ASSUME VaultInv, TypeOK', [Next]_vars
             PROVE  VaultInv' /\ [Vault!Next]_(Vault!vault_vars)
    OBVIOUS
<1>1. CASE Tick
    BY <1>1, TickRefines DEF Vault!Next
<1>2. CASE UNCHANGED vars
    <2>1. UNCHANGED <<now, stake_states, wallets>>
        BY <1>2 DEF vars
    <2> QED BY <2>1, NothingHeldChanges
<1>3. CASE Call
    <2>1. ASSUME NEW sent \in DepositAmounts, Deposit(sent)
          PROVE  VaultInv' /\ UNCHANGED Vault!vault_vars
        <3>1. UNCHANGED <<now, stake_states, wallets>>
            BY <2>1 DEF Deposit
        <3> QED BY <3>1, NothingHeldChanges
    <2>2. ASSUME NEW staker \in Stakers, NEW amount \in TokenAmounts,
                 NEW sender \in Stakers \union {base_token},
                 ReceiveStake(sender, staker, amount)
          PROVE  VaultInv' /\ Vault!Next
        BY <2>2, ReceiveRefines DEF Vault!Next
    <2>3. ASSUME NEW staker \in Stakers, NEW amount \in TokenAmounts,
                 UnstakeTokens(staker, amount)
          PROVE  VaultInv' /\ Vault!Next
        BY <2>3, UnstakeRefines DEF Vault!Next
    <2>4. ASSUME NEW staker \in Stakers, NEW amount \in TokenAmounts,
                 NEW to \in Stakers, WithdrawTokens(staker, amount, to)
          PROVE  VaultInv' /\ Vault!Next
        BY <2>4, WithdrawRefines DEF Vault!Next
    <2>5. ASSUME NEW staker \in Stakers, WithdrawDividends(staker)
          PROVE  VaultInv' /\ UNCHANGED Vault!vault_vars
        BY <2>5, WithdrawDividendsRefines
    <2> QED BY <1>3, <2>1, <2>2, <2>3, <2>4, <2>5 DEF Call
<1> QED BY <1>1, <1>2, <1>3 DEF Next

\* The collector implements the vault, for all accounts, amounts and delays:
\* though its record of an account is brought up to date only by the account's
\* own calls (update_unstaked_amount), every call finds the tokens where they
\* would be if each delay ended at its time.
THEOREM CollectorImplementsVault == Spec => ImplementsVault
<1>1. Spec => []TypeOK
    BY CollectorTypes
<1>2. Spec => VaultInv /\ Vault!Init
    BY InitVault DEF Spec
<1> QED BY <1>1, <1>2, StepRefines, PTL DEF Spec, ImplementsVault, Vault!Spec

=============================================================================
