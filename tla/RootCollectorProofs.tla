------------------------ MODULE RootCollectorProofs ------------------------
(***************************************************************************)
(* Proofs about the root collector, for all accounts, amounts and tax      *)
(* rates: its amounts never become negative, its totals are right, and its *)
(* tokens are all there.                                                   *)
(***************************************************************************)
EXTENDS RootCollector, TerraTaxTheorems, FiniteSetTheorems

----------------------------------------------------------------------------
(* Sums by counting.  A sum over accounts is the size of a set that has a  *)
(* block of as many pairs for each account.                                *)

Block(f, x) == {x} \X (1 .. f[x])

Blocks(S, f) == UNION {Block(f, x) : x \in S}

Sum(S, f) == Cardinality(Blocks(S, f))

LEMMA BlockSize ==
    ASSUME NEW f, NEW x, f[x] \in Nat
    PROVE  IsFiniteSet(Block(f, x)) /\ Cardinality(Block(f, x)) = f[x]
<1>1. IsFiniteSet(1 .. f[x]) /\ Cardinality(1 .. f[x]) = f[x]
    BY FS_Interval
<1>2. IsFiniteSet({x}) /\ Cardinality({x}) = 1
    BY FS_Singleton
<1>3. /\ IsFiniteSet({x} \X (1 .. f[x]))
      /\ Cardinality({x} \X (1 .. f[x])) = Cardinality({x}) * Cardinality(1 .. f[x])
    BY <1>1, <1>2, FS_Product
<1> QED BY <1>1, <1>2, <1>3 DEF Block

LEMMA SumInNat ==
    ASSUME NEW S, IsFiniteSet(S), NEW f, \A x \in S : f[x] \in Nat
    PROVE  IsFiniteSet(Blocks(S, f)) /\ Sum(S, f) \in Nat
<1> DEFINE T == {Block(f, x) : x \in S}
           block == [x \in S |-> Block(f, x)]
<1>1. block \in Surjection(S, T)
    BY DEF Surjection
<1>2. IsFiniteSet(T)
    BY <1>1, FS_Surjection
<1>3. \A B \in T : IsFiniteSet(B)
    BY BlockSize
<1>4. IsFiniteSet(UNION T)
    BY <1>2, <1>3, FS_UNION
<1> QED BY <1>4, FS_CardinalityType DEF Blocks, Sum

\* One account's part of a sum and the rest of it.
LEMMA SumSplit ==
    ASSUME NEW S, IsFiniteSet(S), NEW f, \A y \in S : f[y] \in Nat, NEW x \in S
    PROVE  /\ Sum(S \ {x}, f) \in Nat
           /\ Sum(S, f) = Sum(S \ {x}, f) + f[x]
<1> DEFINE R == S \ {x}
<1>1. IsFiniteSet(R)
    BY FS_RemoveElement
<1>2. IsFiniteSet(Blocks(R, f)) /\ Sum(R, f) \in Nat
    BY <1>1, SumInNat
<1>3. IsFiniteSet(Block(f, x)) /\ Cardinality(Block(f, x)) = f[x]
    BY BlockSize
<1>4. Blocks(S, f) = Blocks(R, f) \cup Block(f, x)
    BY DEF Blocks
<1>5. Blocks(R, f) \cap Block(f, x) = {}
    BY DEF Blocks, Block
<1>6. Cardinality(Blocks(R, f) \cap Block(f, x)) = 0
    BY <1>5, FS_EmptySet
<1>7. Cardinality(Blocks(R, f) \cup Block(f, x))
        = Cardinality(Blocks(R, f)) + Cardinality(Block(f, x))
            - Cardinality(Blocks(R, f) \cap Block(f, x))
    BY <1>2, <1>3, FS_Union
<1> QED BY <1>2, <1>3, <1>4, <1>6, <1>7 DEF Sum

LEMMA SumSame ==
    ASSUME NEW S, NEW f, NEW g, \A x \in S : f[x] = g[x]
    PROVE  Sum(S, f) = Sum(S, g)
<1>1. \A x \in S : Block(f, x) = Block(g, x)
    BY DEF Block
<1>2. Blocks(S, f) = Blocks(S, g)
    BY <1>1 DEF Blocks
<1> QED BY <1>2 DEF Sum

\* What becomes of a sum when one account's part changes.
LEMMA SumUpdate ==
    ASSUME NEW S, IsFiniteSet(S), NEW x \in S, NEW f, NEW g,
           \A y \in S : f[y] \in Nat /\ g[y] \in Nat,
           \A y \in S \ {x} : g[y] = f[y]
    PROVE  /\ f[x] <= Sum(S, f)
           /\ Sum(S, g) = Sum(S, f) - f[x] + g[x]
<1>1. Sum(S \ {x}, f) = Sum(S \ {x}, g)
    BY SumSame
<1>2. /\ Sum(S \ {x}, f) \in Nat
      /\ Sum(S, f) = Sum(S \ {x}, f) + f[x]
      /\ Sum(S, g) = Sum(S \ {x}, g) + g[x]
    BY SumSplit
<1> QED BY <1>1, <1>2

LEMMA SumOfSame ==
    ASSUME NEW S, IsFiniteSet(S), NEW f, NEW n \in Nat, \A x \in S : f[x] = n
    PROVE  Sum(S, f) = n * Cardinality(S)
<1>1. IsFiniteSet(1 .. n) /\ Cardinality(1 .. n) = n
    BY FS_Interval
<1>2. Blocks(S, f) = S \X (1 .. n)
    BY DEF Blocks, Block
<1>3. Cardinality(S) \in Nat
    BY FS_CardinalityType
<1>4. Cardinality(S \X (1 .. n)) = Cardinality(S) * n
    BY <1>1, FS_Product
<1> QED BY <1>2, <1>3, <1>4 DEF Sum

\* Accounts that have nothing count for nothing.
LEMMA SumOfPart ==
    ASSUME NEW S, NEW T \in SUBSET S, NEW f, NEW g,
           \A x \in T : f[x] = g[x],
           \A x \in S \ T : g[x] = 0
    PROVE  Sum(T, f) = Sum(S, g)
<1>1. Sum(T, f) = Sum(T, g)
    BY SumSame
<1>2. \A x \in S \ T : Block(g, x) = {}
    BY DEF Block
<1>3. Blocks(T, g) = Blocks(S, g)
    BY <1>2 DEF Blocks
<1> QED BY <1>1, <1>3 DEF Sum

----------------------------------------------------------------------------
(* The inductive invariant.  The two sums are part of it: that an unstaked *)
(* amount can be taken off total_staked is because it is part of the sum.  *)

staked_by(staker) == IF staker \in Stored THEN stake_states[staker].staked_amount ELSE 0

staked_of == [staker \in Stakers |-> staked_by(staker)]

tokens_in(stake) == stake.staked_amount + stake.unstaking_amount + stake.unstaked_amount

held_for(staker) == IF staker \in Stored THEN tokens_in(stake_states[staker]) ELSE 0

held_of == [staker \in Stakers |-> held_for(staker)]

CollectorInv ==
    /\ TypeOK
    /\ state.total_staked = Sum(Stakers, staked_of)
    /\ TokenSupply * Cardinality(Stakers) = Sum(Stakers, wallets) + Sum(Stakers, held_of)

LEMMA CollectorConfig ==
    /\ IsFiniteSet(Stakers)
    /\ TokenAmounts \subseteq Nat /\ DepositAmounts \subseteq Nat
    /\ TokenSupply \in Nat /\ MaxFunds \in Nat /\ MaxMultiplier \in Nat
    /\ unstake_delay \in Nat /\ StartTime \in Nat /\ MaxTime \in Nat
    /\ NoTime \notin Nat /\ base_token \notin Stakers
    /\ DECIMAL_FRACTION \in Nat \ {0}
    BY RootCollectorAssumption, TaxAssumption

LEMMA StoredStake ==
    ASSUME TypeOK, NEW staker \in Stored
    PROVE  staker \in Stakers /\ stake_states[staker] \in StakeState
    BY DEF TypeOK, Stored

----------------------------------------------------------------------------
(* The helpers of the handlers.                                            *)

\* What an account earned between two values of the multiplier, against the
\* exact product.
LEMMA Earned ==
    ASSUME NEW amount \in Nat, NEW from \in Nat, NEW to \in Nat
    PROVE  /\ earned(amount, from, to) \in Nat
           /\ from <= to =>
                /\ amount * (to - from) \in Nat
                /\ DECIMAL_FRACTION * earned(amount, from, to) <= amount * (to - from)
                /\ amount * (to - from) <= DECIMAL_FRACTION * earned(amount, from, to)
                                             + (DECIMAL_FRACTION - 1)
                /\ from = to => amount * (to - from) = 0 /\ earned(amount, from, to) = 0
<1>1. CASE to <= from
    BY <1>1, CollectorConfig DEF earned
<1>2. CASE ~(to <= from)
    <2> DEFINE gain == to - from
               p == amount * gain
               q == p \div DECIMAL_FRACTION
    <2>1. gain \in Nat /\ p \in Nat
        BY <1>2, ProductInNat
    <2> HIDE DEF p
    <2>2. /\ q \in Nat
          /\ DECIMAL_FRACTION * q <= p
          /\ p < DECIMAL_FRACTION * q + DECIMAL_FRACTION
        BY <2>1, CollectorConfig, Quotient
    <2>3. earned(amount, from, to) = q
        BY <1>2 DEF earned, p
    <2> HIDE DEF q
    <2>4. DECIMAL_FRACTION * q \in Nat
        BY <2>2, CollectorConfig, ProductInNat
    <2>5. p <= DECIMAL_FRACTION * q + (DECIMAL_FRACTION - 1)
        BY <2>1, <2>2, <2>4, CollectorConfig
    <2>6. amount * (to - from) = p
        BY DEF p
    <2> QED BY <1>2, <2>1, <2>2, <2>3, <2>5, <2>6
<1> QED BY <1>1, <1>2

LEMMA DividendInNat ==
    ASSUME NEW stake \in StakeState, NEW multiplier \in Nat
    PROVE  dividend(stake, multiplier) \in Nat
<1>1. /\ stake.staked_amount \in Nat /\ stake.multiplier \in Nat
      /\ stake.dividend \in Nat
    BY DEF StakeState
<1>2. earned(stake.staked_amount, stake.multiplier, multiplier) \in Nat
    BY <1>1, Earned
<1> QED BY <1>1, <1>2 DEF dividend

LEMMA UpdatedDividend ==
    ASSUME NEW stake \in StakeState, NEW multiplier \in Nat
    PROVE  LET new == update_dividend(stake, multiplier)
           IN  /\ new \in StakeState
               /\ new.dividend = dividend(stake, multiplier)
               /\ new.multiplier = multiplier
               /\ new.staked_amount = stake.staked_amount
               /\ new.unstaking_amount = stake.unstaking_amount
               /\ new.unstaked_amount = stake.unstaked_amount
               /\ new.unstaking_begin_time = stake.unstaking_begin_time
<1> DEFINE d == dividend(stake, multiplier)
<1>1. d \in Nat
    BY DividendInNat
<1>2. update_dividend(stake, multiplier) = [stake EXCEPT !.dividend = d, !.multiplier = multiplier]
    BY DEF update_dividend
<1> HIDE DEF d
<1>3. LET new == [stake EXCEPT !.dividend = d, !.multiplier = multiplier]
      IN  /\ new \in StakeState
          /\ new.dividend = d /\ new.multiplier = multiplier
          /\ new.staked_amount = stake.staked_amount
          /\ new.unstaking_amount = stake.unstaking_amount
          /\ new.unstaked_amount = stake.unstaked_amount
          /\ new.unstaking_begin_time = stake.unstaking_begin_time
    BY <1>1 DEF StakeState
<1> QED BY <1>2, <1>3 DEF d

\* The end of a delay moves tokens within a stake.
LEMMA UpdatedUnstaked ==
    ASSUME NEW stake \in StakeState, NEW t
    PROVE  LET new == update_unstaked_amount(stake, t)
           IN  /\ new \in StakeState
               /\ tokens_in(new) = tokens_in(stake)
               /\ new.staked_amount = stake.staked_amount
               /\ new.dividend = stake.dividend
               /\ new.multiplier = stake.multiplier
<1> DEFINE u == stake.unstaked_amount + stake.unstaking_amount
           new == [stake EXCEPT !.unstaked_amount = u,
                                !.unstaking_amount = 0,
                                !.unstaking_begin_time = NoTime]
<1>1. update_unstaked_amount(stake, t) = new \/ update_unstaked_amount(stake, t) = stake
    BY DEF update_unstaked_amount
<1>2. u \in Nat
    BY DEF StakeState
<1>3. /\ new \in StakeState
      /\ new.unstaked_amount = u /\ new.unstaking_amount = 0
      /\ new.staked_amount = stake.staked_amount
      /\ new.dividend = stake.dividend
      /\ new.multiplier = stake.multiplier
    <2> HIDE DEF u
    <2> QED BY <1>2 DEF StakeState
<1>4. tokens_in(new) = tokens_in(stake)
    <2>1. /\ stake.staked_amount \in Nat /\ stake.unstaked_amount \in Nat
          /\ stake.unstaking_amount \in Nat
        BY DEF StakeState
    <2> HIDE DEF new
    <2> QED BY <1>3, <2>1 DEF tokens_in
<1> HIDE DEF new
<1> QED BY <1>1, <1>3, <1>4

\* Storing one stake changes the sums by what changed in it.
LEMMA StoreSums ==
    ASSUME TypeOK, NEW staker \in Stakers, NEW stake \in StakeState,
           StoreStake(staker, stake)
    PROVE  /\ stake_states' \in [Stakers -> StakeState \union {NoState}]
           /\ Stored' = Stored \union {staker}
           /\ stake_states'[staker] = stake
           /\ \A other \in Stakers \ {staker} : stake_states'[other] = stake_states[other]
           /\ staked_by(staker) \in Nat /\ held_for(staker) \in Nat
           /\ staked_by(staker) <= Sum(Stakers, staked_of)
           /\ Sum(Stakers, staked_of') =
                Sum(Stakers, staked_of) - staked_by(staker) + stake.staked_amount
           /\ Sum(Stakers, held_of') =
                Sum(Stakers, held_of) - held_for(staker) + tokens_in(stake)
<1>1. /\ stake_states' \in [Stakers -> StakeState \union {NoState}]
      /\ stake_states'[staker] = stake
      /\ \A other \in Stakers \ {staker} : stake_states'[other] = stake_states[other]
    BY DEF TypeOK, StoreStake
<1>2. Stored' = Stored \union {staker}
    BY <1>1, NoStakeAssumption DEF Stored
<1>3. \A other \in Stakers : /\ staked_by(other) \in Nat /\ held_for(other) \in Nat
                             /\ staked_by(other)' \in Nat /\ held_for(other)' \in Nat
    BY <1>1, NoStakeAssumption DEF TypeOK, staked_by, held_for, tokens_in, Stored, StakeState
<1>4. \A other \in Stakers \ {staker} :
        staked_by(other)' = staked_by(other) /\ held_for(other)' = held_for(other)
    BY <1>1 DEF staked_by, held_for, Stored
<1>5. staked_by(staker)' = stake.staked_amount /\ held_for(staker)' = tokens_in(stake)
    BY <1>1, <1>2 DEF staked_by, held_for
<1>6. /\ staked_of[staker] = staked_by(staker) /\ held_of[staker] = held_for(staker)
      /\ staked_of'[staker] = stake.staked_amount /\ held_of'[staker] = tokens_in(stake)
      /\ \A other \in Stakers :
           /\ staked_of[other] \in Nat /\ staked_of'[other] \in Nat
           /\ held_of[other] \in Nat /\ held_of'[other] \in Nat
      /\ \A other \in Stakers \ {staker} :
           staked_of'[other] = staked_of[other] /\ held_of'[other] = held_of[other]
    BY <1>3, <1>4, <1>5 DEF staked_of, held_of
<1>7. /\ staked_of[staker] <= Sum(Stakers, staked_of)
      /\ Sum(Stakers, staked_of') =
           Sum(Stakers, staked_of) - staked_of[staker] + staked_of'[staker]
      /\ Sum(Stakers, held_of') =
           Sum(Stakers, held_of) - held_of[staker] + held_of'[staker]
    BY <1>6, CollectorConfig, SumUpdate
<1> QED BY <1>1, <1>2, <1>3, <1>6, <1>7

----------------------------------------------------------------------------
(* The handlers keep the invariant.                                        *)

\* What a deposit hands out, against the exact product: never more than the
\* deposit, and short of the gain of all stakes by less than one unit.
LEMMA HandedOut ==
    ASSUME TypeOK, NEW deposit \in Nat
    PROVE  LET per_stake == deposit_per_stake(deposit)
               total     == state.total_staked
           IN  /\ per_stake \in Nat
               /\ handed_out(per_stake) \in Nat
               /\ handed_out(per_stake) <= deposit
               /\ per_stake * total \in Nat
               /\ per_stake * total <= DECIMAL_FRACTION * handed_out(per_stake)
                                         + (DECIMAL_FRACTION - 1)
               /\ per_stake = 0 => handed_out(per_stake) = 0 /\ per_stake * total = 0
<1> DEFINE F == DECIMAL_FRACTION
           total == state.total_staked
           n == deposit * F
           p == deposit_per_stake(deposit)
           m == p * total
           h == m \div F
<1>1. total \in Nat /\ F \in Nat \ {0} /\ n \in Nat
    BY CollectorConfig, ProductInNat DEF TypeOK, State
<1>2. p \in Nat /\ p * total <= n
    <2> HIDE DEF n
    <2>1. CASE total = 0
        BY <1>1, <2>1 DEF deposit_per_stake
    <2>2. CASE total # 0
        <3> DEFINE q == n \div total
        <3>1. q \in Nat /\ total * q <= n
            BY <1>1, <2>2, Quotient
        <3>2. p = q
            BY <2>2 DEF deposit_per_stake, n
        <3> HIDE DEF p, q, total
        <3>3. q * total = total * q
            BY <1>1, <3>1
        <3> QED BY <3>1, <3>2, <3>3
    <2> QED BY <2>1, <2>2
<1> HIDE DEF p
<1>3. m \in Nat
    BY <1>1, <1>2, ProductInNat
<1>4. m <= n
    BY <1>2
<1>5. handed_out(p) = h
    BY DEF handed_out
<1>6. p = 0 => m = 0
    BY <1>1
<1>7. h \in Nat /\ F * h <= m /\ m < F * h + F
    <2> HIDE DEF m
    <2> QED BY <1>1, <1>3, Quotient
<1>8. m = 0 => h = 0
    BY <1>1
<1> HIDE DEF h, m
<1>9. F * h \in Nat
    BY <1>1, <1>7, ProductInNat
<1>10. h * F < (deposit + 1) * F
    <2> HIDE DEF F
    <2> QED BY <1>1, <1>3, <1>4, <1>7, <1>9 DEF n
<1>11. h <= deposit
    <2>1. h < deposit + 1
        BY <1>1, <1>7, <1>10, ProductCancel
    <2> QED BY <1>7, <2>1
<1>12. m <= F * h + (F - 1)
    BY <1>1, <1>3, <1>7, <1>9
<1> QED BY <1>2, <1>3, <1>5, <1>6, <1>7, <1>8, <1>11, <1>12 DEF m, p

\* When neither stakes nor wallets change, only the types are left to show.
LEMMA NothingMoves ==
    ASSUME CollectorInv, TypeOK', UNCHANGED <<stake_states, wallets>>,
           state'.total_staked = state.total_staked
    PROVE  CollectorInv'
<1>1. \A staker : staked_by(staker)' = staked_by(staker) /\ held_for(staker)' = held_for(staker)
    BY DEF staked_by, held_for, Stored
<1>2. staked_of' = staked_of /\ held_of' = held_of
    BY <1>1 DEF staked_of, held_of
<1> QED BY <1>2 DEF CollectorInv

LEMMA DepositKeepsInv ==
    ASSUME CollectorInv, NEW sent \in DepositAmounts, Deposit(sent)
    PROVE  CollectorInv'
<1> DEFINE deposit == sent + state.residual
           p == deposit_per_stake(deposit)
           r == deposit - handed_out(p)
           m == state.multiplier + p
<1>1. /\ TypeOK /\ state \in State /\ sent \in Nat /\ funds \in Nat /\ deposit \in Nat
    BY CollectorConfig DEF CollectorInv, TypeOK, State
<1>2. p \in Nat /\ r \in Nat /\ m \in Nat
    <2> HIDE DEF deposit
    <2>1. p \in Nat /\ handed_out(p) \in Nat /\ handed_out(p) <= deposit
        BY <1>1, HandedOut
    <2> HIDE DEF p
    <2> QED BY <1>1, <2>1 DEF State
<1>3. /\ state' = [state EXCEPT !.multiplier = m, !.residual = r]
      /\ funds' = funds + sent
      /\ UNCHANGED <<now, stake_states, wallets>>
    BY DEF Deposit
<1> HIDE DEF m, r
<1>4. state' \in State /\ state'.total_staked = state.total_staked
    BY <1>1, <1>2, <1>3 DEF State
<1>5. TypeOK'
    BY <1>1, <1>3, <1>4 DEF TypeOK
<1> QED BY <1>3, <1>4, <1>5, NothingMoves

\* Wallets after tokens have come or gone.
LEMMA WalletSums ==
    ASSUME TypeOK, NEW staker \in Stakers, NEW amount \in Nat,
           wallets' = [wallets EXCEPT ![staker] = amount]
    PROVE  /\ wallets' \in [Stakers -> Nat]
           /\ wallets[staker] \in Nat
           /\ Sum(Stakers, wallets) \in Nat
           /\ Sum(Stakers, wallets') = Sum(Stakers, wallets) - wallets[staker] + amount
<1>1. /\ wallets' \in [Stakers -> Nat] /\ wallets \in [Stakers -> Nat]
      /\ wallets'[staker] = amount
      /\ \A other \in Stakers \ {staker} : wallets'[other] = wallets[other]
    BY DEF TypeOK
<1>2. \A other \in Stakers : wallets[other] \in Nat /\ wallets'[other] \in Nat
    BY <1>1
<1>3. Sum(Stakers, wallets') = Sum(Stakers, wallets) - wallets[staker] + wallets'[staker]
    <2> DEFINE f == wallets
               g == wallets'
    <2>1. /\ IsFiniteSet(Stakers)
          /\ \A other \in Stakers : f[other] \in Nat /\ g[other] \in Nat
          /\ \A other \in Stakers \ {staker} : g[other] = f[other]
        BY <1>1, <1>2, CollectorConfig
    <2> HIDE DEF f, g
    <2>2. Sum(Stakers, g) = Sum(Stakers, f) - f[staker] + g[staker]
        BY <2>1, SumUpdate
    <2> QED BY <2>2 DEF f, g
<1>4. Sum(Stakers, wallets) \in Nat
    BY <1>2, CollectorConfig, SumInNat
<1> QED BY <1>1, <1>2, <1>3, <1>4

LEMMA SumsInNat ==
    ASSUME TypeOK
    PROVE  /\ Sum(Stakers, staked_of) \in Nat
           /\ Sum(Stakers, held_of) \in Nat
<1>1. \A staker \in Stakers : staked_by(staker) \in Nat /\ held_for(staker) \in Nat
    BY DEF TypeOK, staked_by, held_for, tokens_in, Stored, StakeState
<1>2. \A staker \in Stakers : staked_of[staker] \in Nat /\ held_of[staker] \in Nat
    BY <1>1 DEF staked_of, held_of
<1> QED BY <1>2, CollectorConfig, SumInNat

\* The stake that ReceiveStake stores.
LEMMA ToppedUp ==
    ASSUME TypeOK, NEW staker \in Stakers, NEW amount \in Nat
    PROVE  LET new == topped_up(staker, amount)
           IN  /\ new \in StakeState
               /\ new.staked_amount = staked_by(staker) + amount
               /\ tokens_in(new) = held_for(staker) + amount
               /\ new.multiplier = state.multiplier
               /\ new.dividend = IF staker \in Stored
                                 THEN dividend(stake_states[staker], state.multiplier) ELSE 0
<1>1. state.multiplier \in Nat
    BY DEF TypeOK, State
<1>2. CASE staker \notin Stored
    <2> DEFINE new == new_stake(amount)
    <2>1. /\ new \in StakeState /\ new.staked_amount = amount
          /\ new.unstaking_amount = 0 /\ new.unstaked_amount = 0
          /\ new.multiplier = state.multiplier /\ new.dividend = 0
        BY <1>1 DEF new_stake, StakeState
    <2>2. topped_up(staker, amount) = new /\ staked_by(staker) = 0 /\ held_for(staker) = 0
        BY <1>2 DEF topped_up, staked_by, held_for
    <2> HIDE DEF new
    <2> QED BY <1>2, <2>1, <2>2 DEF tokens_in
<1>3. CASE staker \in Stored
    <2> DEFINE old == stake_states[staker]
               touched == update_dividend(old, state.multiplier)
               new == [touched EXCEPT !.staked_amount = @ + amount]
    <2>1. old \in StakeState
        BY <1>3, StoredStake
    <2>2. /\ touched \in StakeState
          /\ touched.dividend = dividend(old, state.multiplier)
          /\ touched.multiplier = state.multiplier
          /\ touched.staked_amount = old.staked_amount
          /\ touched.unstaking_amount = old.unstaking_amount
          /\ touched.unstaked_amount = old.unstaked_amount
        BY <1>1, <2>1, UpdatedDividend
    <2>3. topped_up(staker, amount) = new
        BY <1>3 DEF topped_up
    <2> HIDE DEF touched
    <2>4. /\ new \in StakeState
          /\ new.staked_amount = touched.staked_amount + amount
          /\ new.unstaking_amount = touched.unstaking_amount
          /\ new.unstaked_amount = touched.unstaked_amount
          /\ new.multiplier = touched.multiplier
          /\ new.dividend = touched.dividend
        BY <2>2 DEF StakeState
    <2> HIDE DEF new
    <2>5. staked_by(staker) = old.staked_amount /\ held_for(staker) = tokens_in(old)
        BY <1>3 DEF staked_by, held_for
    <2>6. /\ old.staked_amount \in Nat /\ old.unstaking_amount \in Nat
          /\ old.unstaked_amount \in Nat
        BY <2>1 DEF StakeState
    <2>7. tokens_in(new) = tokens_in(old) + amount
        <3> HIDE DEF old
        <3> QED BY <2>2, <2>4, <2>6 DEF tokens_in
    <2> QED BY <1>3, <2>2, <2>3, <2>4, <2>5, <2>7
<1> QED BY <1>2, <1>3

LEMMA ReceiveKeepsInv ==
    ASSUME CollectorInv, NEW sender, NEW staker \in Stakers, NEW amount \in TokenAmounts,
           ReceiveStake(sender, staker, amount)
    PROVE  CollectorInv'
<1> DEFINE new == topped_up(staker, amount)
           total == state.total_staked + amount
           left == wallets[staker] - amount
<1>1. TypeOK /\ amount \in Nat /\ state \in State /\ state.total_staked \in Nat
    BY CollectorConfig DEF CollectorInv, TypeOK, State
<1>2. /\ new \in StakeState
      /\ new.staked_amount = staked_by(staker) + amount
      /\ tokens_in(new) = held_for(staker) + amount
    BY <1>1, ToppedUp
<1>3. /\ StoreStake(staker, new)
      /\ amount <= wallets[staker]
      /\ wallets' = [wallets EXCEPT ![staker] = left]
      /\ state' = [state EXCEPT !.total_staked = total]
      /\ UNCHANGED <<now, funds>>
    BY DEF ReceiveStake, may_call_receive, tokens_moved
<1> HIDE DEF new
<1>4. /\ stake_states' \in [Stakers -> StakeState \union {NoState}]
      /\ staked_by(staker) \in Nat /\ held_for(staker) \in Nat
      /\ Sum(Stakers, staked_of') =
           Sum(Stakers, staked_of) - staked_by(staker) + new.staked_amount
      /\ Sum(Stakers, held_of') =
           Sum(Stakers, held_of) - held_for(staker) + tokens_in(new)
    BY <1>1, <1>2, <1>3, StoreSums
<1>5. left \in Nat
    BY <1>1, <1>3 DEF TypeOK
<1> HIDE DEF left
<1>6. /\ wallets' \in [Stakers -> Nat] /\ wallets[staker] \in Nat
      /\ Sum(Stakers, wallets) \in Nat
      /\ Sum(Stakers, wallets') = Sum(Stakers, wallets) - wallets[staker] + left
    BY <1>1, <1>3, <1>5, WalletSums
<1>7. state' \in State /\ state'.total_staked = state.total_staked + amount
    BY <1>1, <1>3 DEF State
<1>8. TypeOK'
    BY <1>1, <1>3, <1>4, <1>6, <1>7 DEF TypeOK
<1>9. Sum(Stakers, staked_of) \in Nat /\ Sum(Stakers, held_of) \in Nat
    BY <1>1, SumsInNat
<1>10. state'.total_staked = Sum(Stakers, staked_of')
    BY <1>1, <1>2, <1>4, <1>7, <1>9 DEF CollectorInv
<1>11. Sum(Stakers, wallets') + Sum(Stakers, held_of')
         = Sum(Stakers, wallets) + Sum(Stakers, held_of)
    BY <1>1, <1>2, <1>4, <1>6, <1>9 DEF left
<1> QED BY <1>8, <1>10, <1>11 DEF CollectorInv

\* The stake that UnstakeTokens stores.
LEMMA Unstaked ==
    ASSUME TypeOK, NEW staker \in Stored, NEW amount \in Nat,
           amount <= stake_states[staker].staked_amount
    PROVE  LET old == stake_states[staker]
               new == moved_to_unstaking(
                        update_unstaked_amount(
                          update_dividend(old, state.multiplier), now), amount)
           IN  /\ new \in StakeState
               /\ new.staked_amount = old.staked_amount - amount
               /\ tokens_in(new) = tokens_in(old)
               /\ new.multiplier = state.multiplier
               /\ new.dividend = dividend(old, state.multiplier)
<1> DEFINE old == stake_states[staker]
           touched == update_dividend(old, state.multiplier)
           moved == update_unstaked_amount(touched, now)
           left == moved.staked_amount - amount
           out == moved.unstaking_amount + amount
           new == [moved EXCEPT !.staked_amount = left,
                                !.unstaking_amount = out,
                                !.unstaking_begin_time = now]
<1>1. state.multiplier \in Nat /\ old \in StakeState /\ now \in Nat
    BY StoredStake, CollectorConfig DEF TypeOK, State
<1>2. /\ touched \in StakeState
      /\ touched.dividend = dividend(old, state.multiplier)
      /\ touched.multiplier = state.multiplier
      /\ touched.staked_amount = old.staked_amount
      /\ tokens_in(touched) = tokens_in(old)
    BY <1>1, UpdatedDividend DEF tokens_in
<1> HIDE DEF touched
<1>3. /\ moved \in StakeState
      /\ moved.dividend = touched.dividend
      /\ moved.multiplier = touched.multiplier
      /\ moved.staked_amount = touched.staked_amount
      /\ tokens_in(moved) = tokens_in(touched)
    BY <1>2, UpdatedUnstaked
<1>4. moved_to_unstaking(moved, amount) = new
    BY DEF moved_to_unstaking
<1> HIDE DEF moved
<1>5. /\ moved.staked_amount \in Nat /\ moved.unstaking_amount \in Nat
      /\ moved.unstaked_amount \in Nat
    BY <1>3 DEF StakeState
<1>6. left \in Nat /\ out \in Nat
    BY <1>2, <1>3, <1>5
<1> HIDE DEF left, out
<1>7. /\ new \in StakeState
      /\ new.staked_amount = left /\ new.unstaking_amount = out
      /\ new.unstaked_amount = moved.unstaked_amount
      /\ new.multiplier = moved.multiplier /\ new.dividend = moved.dividend
    BY <1>1, <1>3, <1>6 DEF StakeState
<1> HIDE DEF new
<1>8. tokens_in(new) = tokens_in(moved)
    BY <1>5, <1>6, <1>7 DEF tokens_in, left, out
<1>9. new.staked_amount = old.staked_amount - amount
    BY <1>2, <1>3, <1>7 DEF left
<1> QED BY <1>2, <1>3, <1>4, <1>7, <1>8, <1>9 DEF touched, moved

LEMMA UnstakeKeepsInv ==
    ASSUME CollectorInv, NEW staker \in Stakers, NEW amount \in TokenAmounts,
           UnstakeTokens(staker, amount)
    PROVE  CollectorInv'
<1> DEFINE old == stake_states[staker]
           new == moved_to_unstaking(
                    update_unstaked_amount(
                      update_dividend(old, state.multiplier), now), amount)
           total == state.total_staked - amount
<1>1. /\ TypeOK /\ amount \in Nat /\ staker \in Stored
      /\ amount <= old.staked_amount
      /\ StoreStake(staker, new)
      /\ state' = [state EXCEPT !.total_staked = total]
      /\ UNCHANGED <<now, funds, wallets>>
    BY CollectorConfig DEF CollectorInv, UnstakeTokens
<1>2. /\ new \in StakeState
      /\ new.staked_amount = old.staked_amount - amount
      /\ tokens_in(new) = tokens_in(old)
    BY <1>1, Unstaked
<1> HIDE DEF new
<1>3. staked_by(staker) = old.staked_amount /\ held_for(staker) = tokens_in(old)
    BY <1>1 DEF staked_by, held_for
<1>4. /\ stake_states' \in [Stakers -> StakeState \union {NoState}]
      /\ staked_by(staker) \in Nat /\ held_for(staker) \in Nat
      /\ staked_by(staker) <= Sum(Stakers, staked_of)
      /\ Sum(Stakers, staked_of') =
           Sum(Stakers, staked_of) - staked_by(staker) + new.staked_amount
      /\ Sum(Stakers, held_of') =
           Sum(Stakers, held_of) - held_for(staker) + tokens_in(new)
    BY <1>1, <1>2, StoreSums
<1>5. Sum(Stakers, staked_of) \in Nat /\ Sum(Stakers, held_of) \in Nat
    BY <1>1, SumsInNat
<1> HIDE DEF old
<1>6. total \in Nat
    BY <1>1, <1>3, <1>4, <1>5 DEF CollectorInv
<1>7. state' \in State /\ state'.total_staked = total
    <2> HIDE DEF total
    <2> QED BY <1>1, <1>6 DEF State, TypeOK
<1>8. TypeOK'
    BY <1>1, <1>4, <1>7 DEF TypeOK
<1>9. state'.total_staked = Sum(Stakers, staked_of')
    BY <1>1, <1>2, <1>3, <1>4, <1>5, <1>7 DEF CollectorInv
<1>10. Sum(Stakers, held_of') = Sum(Stakers, held_of)
    BY <1>2, <1>3, <1>4, <1>5
<1> QED BY <1>1, <1>8, <1>9, <1>10 DEF CollectorInv

LEMMA WithdrawTokensKeepsInv ==
    ASSUME CollectorInv, NEW staker \in Stakers, NEW amount \in TokenAmounts,
           NEW to \in Stakers, WithdrawTokens(staker, amount, to)
    PROVE  CollectorInv'
<1> DEFINE old == stake_states[staker]
           moved == update_unstaked_amount(old, now)
           left == moved.unstaked_amount - amount
           new == [moved EXCEPT !.unstaked_amount = left]
           paid == wallets[to] + amount
<1>1. /\ TypeOK /\ amount \in Nat /\ staker \in Stored
      /\ amount <= moved.unstaked_amount
      /\ StoreStake(staker, new)
      /\ wallets' = [wallets EXCEPT ![to] = paid]
      /\ UNCHANGED <<now, state, funds>>
    BY CollectorConfig DEF CollectorInv, WithdrawTokens, send_tokens_msg
<1>2. old \in StakeState
    BY <1>1, StoredStake
<1>3. /\ moved \in StakeState
      /\ moved.staked_amount = old.staked_amount
      /\ tokens_in(moved) = tokens_in(old)
    BY <1>2, UpdatedUnstaked
<1> HIDE DEF moved
<1>4. /\ moved.staked_amount \in Nat /\ moved.unstaking_amount \in Nat
      /\ moved.unstaked_amount \in Nat /\ left \in Nat
    BY <1>1, <1>3 DEF StakeState
<1> HIDE DEF left
<1>5. /\ new \in StakeState
      /\ new.staked_amount = moved.staked_amount
      /\ new.unstaking_amount = moved.unstaking_amount
      /\ new.unstaked_amount = left
    BY <1>3, <1>4 DEF StakeState
<1> HIDE DEF new
<1>6. tokens_in(new) = tokens_in(old) - amount
    BY <1>1, <1>3, <1>4, <1>5 DEF tokens_in, left
<1>7. staked_by(staker) = old.staked_amount /\ held_for(staker) = tokens_in(old)
    BY <1>1 DEF staked_by, held_for
<1>8. /\ stake_states' \in [Stakers -> StakeState \union {NoState}]
      /\ staked_by(staker) \in Nat /\ held_for(staker) \in Nat
      /\ Sum(Stakers, staked_of') =
           Sum(Stakers, staked_of) - staked_by(staker) + new.staked_amount
      /\ Sum(Stakers, held_of') =
           Sum(Stakers, held_of) - held_for(staker) + tokens_in(new)
    BY <1>1, <1>5, StoreSums
<1>9. paid \in Nat
    BY <1>1 DEF TypeOK
<1> HIDE DEF paid, old
<1>10. /\ wallets' \in [Stakers -> Nat] /\ wallets[to] \in Nat
       /\ Sum(Stakers, wallets) \in Nat
       /\ Sum(Stakers, wallets') = Sum(Stakers, wallets) - wallets[to] + paid
    BY <1>1, <1>9, WalletSums
<1>11. Sum(Stakers, staked_of) \in Nat /\ Sum(Stakers, held_of) \in Nat
    BY <1>1, SumsInNat
<1>12. TypeOK'
    BY <1>1, <1>8, <1>10 DEF TypeOK
<1>13. Sum(Stakers, staked_of') = Sum(Stakers, staked_of)
    BY <1>3, <1>5, <1>7, <1>8, <1>11
<1>14. Sum(Stakers, wallets') + Sum(Stakers, held_of')
         = Sum(Stakers, wallets) + Sum(Stakers, held_of)
    BY <1>1, <1>6, <1>7, <1>8, <1>10, <1>11 DEF paid
<1> QED BY <1>1, <1>12, <1>13, <1>14 DEF CollectorInv

\* The stake that WithdrawDividends stores, and what the payment costs.
LEMMA PaidOut ==
    ASSUME TypeOK, NEW staker \in Stored, WithdrawDividends(staker)
    PROVE  LET old == stake_states[staker]
           IN  /\ dividend(old, state.multiplier) \in Nat
               /\ funds' \in Nat /\ funds - funds' \in Nat
               /\ funds - funds' <= dividend(old, state.multiplier)
               /\ \E new \in StakeState :
                    /\ StoreStake(staker, new)
                    /\ new.staked_amount = old.staked_amount
                    /\ tokens_in(new) = tokens_in(old)
                    /\ new.multiplier = state.multiplier
                    /\ new.dividend = 0
<1> DEFINE old == stake_states[staker]
           touched == update_dividend(old, state.multiplier)
           new == [touched EXCEPT !.dividend = 0]
           amount == dividend(old, state.multiplier)
           cost == transfer_cost(deduct_tax(amount))
<1>1. state.multiplier \in Nat /\ old \in StakeState /\ funds \in Nat
    BY StoredStake DEF TypeOK, State
<1>2. /\ touched \in StakeState
      /\ touched.dividend = amount
      /\ touched.multiplier = state.multiplier
      /\ touched.staked_amount = old.staked_amount
      /\ tokens_in(touched) = tokens_in(old)
    BY <1>1, UpdatedDividend DEF tokens_in
<1>3. amount \in Nat
    BY <1>1, DividendInNat
<1>4. /\ StoreStake(staker, new)
      /\ cost <= funds /\ funds' = funds - cost
    BY <1>2 DEF WithdrawDividends, send_dividend_msg
<1> HIDE DEF touched, amount
<1>5. cost \in Nat /\ cost <= amount
    BY <1>3, CostInNat, DeductedTransferFits
<1>6. /\ new \in StakeState
      /\ new.staked_amount = touched.staked_amount
      /\ new.unstaking_amount = touched.unstaking_amount
      /\ new.unstaked_amount = touched.unstaked_amount
      /\ new.multiplier = touched.multiplier
      /\ new.dividend = 0
    BY <1>2 DEF StakeState
<1> HIDE DEF new, cost
<1>7. tokens_in(new) = tokens_in(old)
    BY <1>2, <1>6 DEF tokens_in
<1>8. funds' \in Nat /\ funds - funds' \in Nat /\ funds - funds' <= amount
    BY <1>1, <1>3, <1>4, <1>5
<1> QED BY <1>2, <1>3, <1>4, <1>6, <1>7, <1>8 DEF amount

LEMMA WithdrawDividendsKeepsInv ==
    ASSUME CollectorInv, NEW staker \in Stakers, WithdrawDividends(staker)
    PROVE  CollectorInv'
<1> DEFINE old == stake_states[staker]
<1>1. TypeOK /\ staker \in Stored /\ UNCHANGED <<now, state, wallets>>
    BY DEF CollectorInv, WithdrawDividends
<1>2. funds' \in Nat
    BY <1>1, PaidOut
<1>3. PICK new \in StakeState :
        /\ StoreStake(staker, new)
        /\ new.staked_amount = old.staked_amount
        /\ tokens_in(new) = tokens_in(old)
    BY <1>1, PaidOut
<1>4. staked_by(staker) = old.staked_amount /\ held_for(staker) = tokens_in(old)
    BY <1>1 DEF staked_by, held_for
<1>5. /\ stake_states' \in [Stakers -> StakeState \union {NoState}]
      /\ staked_by(staker) \in Nat /\ held_for(staker) \in Nat
      /\ Sum(Stakers, staked_of') =
           Sum(Stakers, staked_of) - staked_by(staker) + new.staked_amount
      /\ Sum(Stakers, held_of') =
           Sum(Stakers, held_of) - held_for(staker) + tokens_in(new)
    BY <1>1, <1>3, StoreSums
<1>6. Sum(Stakers, staked_of) \in Nat /\ Sum(Stakers, held_of) \in Nat
    BY <1>1, SumsInNat
<1>7. TypeOK'
    BY <1>1, <1>2, <1>5 DEF TypeOK
<1>8. Sum(Stakers, staked_of') = Sum(Stakers, staked_of)
    BY <1>3, <1>4, <1>5, <1>6
<1>9. Sum(Stakers, held_of') = Sum(Stakers, held_of)
    BY <1>3, <1>4, <1>5, <1>6
<1> QED BY <1>1, <1>7, <1>8, <1>9 DEF CollectorInv

LEMMA InitCollectorInv == Init => CollectorInv
<1> SUFFICES ASSUME Init PROVE CollectorInv
    OBVIOUS
<1>1. TypeOK
    BY CollectorConfig, RootCollectorAssumption DEF Init, TypeOK, State
<1>2. \A staker \in Stakers : staked_by(staker) = 0 /\ held_for(staker) = 0
    BY DEF Init, staked_by, held_for, Stored
<1>3. \A staker \in Stakers : staked_of[staker] = 0 /\ held_of[staker] = 0
                                /\ wallets[staker] = TokenSupply
    BY <1>2 DEF Init, staked_of, held_of
<1>4. Sum(Stakers, staked_of) = 0 * Cardinality(Stakers)
    BY <1>3, CollectorConfig, SumOfSame
<1>5. Sum(Stakers, held_of) = 0 * Cardinality(Stakers)
    BY <1>3, CollectorConfig, SumOfSame
<1>6. Sum(Stakers, wallets) = TokenSupply * Cardinality(Stakers)
    BY <1>3, CollectorConfig, SumOfSame
<1>7. Cardinality(Stakers) \in Nat /\ TokenSupply * Cardinality(Stakers) \in Nat
    BY CollectorConfig, FS_CardinalityType, ProductInNat
<1>8. state.total_staked = 0
    BY DEF Init
<1> QED BY <1>1, <1>4, <1>5, <1>6, <1>7, <1>8 DEF CollectorInv

LEMMA StepKeepsInv == CollectorInv /\ [Next]_vars => CollectorInv'
<1> SUFFICES ASSUME CollectorInv, [Next]_vars PROVE CollectorInv'
    OBVIOUS
<1>1. CASE Tick
    <2>1. TypeOK' /\ UNCHANGED <<state, stake_states, wallets>>
        BY <1>1, CollectorConfig DEF CollectorInv, TypeOK, Tick
    <2> QED BY <2>1, NothingMoves
<1>2. CASE UNCHANGED vars
    <2>1. TypeOK' /\ UNCHANGED <<state, stake_states, wallets>>
        BY <1>2 DEF CollectorInv, TypeOK, vars
    <2> QED BY <2>1, NothingMoves
<1>3. CASE Call
    <2>1. ASSUME NEW sent \in DepositAmounts, Deposit(sent) PROVE CollectorInv'
        BY <2>1, DepositKeepsInv
    <2>2. ASSUME NEW staker \in Stakers, WithdrawDividends(staker) PROVE CollectorInv'
        BY <2>2, WithdrawDividendsKeepsInv
    <2>3. ASSUME NEW staker \in Stakers, NEW amount \in TokenAmounts,
                 \/ \E sender \in Stakers \union {base_token} : ReceiveStake(sender, staker, amount)
                 \/ UnstakeTokens(staker, amount)
                 \/ \E to \in Stakers : WithdrawTokens(staker, amount, to)
          PROVE  CollectorInv'
        BY <2>3, ReceiveKeepsInv, UnstakeKeepsInv, WithdrawTokensKeepsInv
    <2> QED BY <1>3, <2>1, <2>2, <2>3 DEF Call
<1> QED BY <1>1, <1>2, <1>3 DEF Next

LEMMA CollectorInvariance == Spec => []CollectorInv
    BY InitCollectorInv, StepKeepsInv, PTL DEF Spec

----------------------------------------------------------------------------
(* The collector's own properties.                                         *)

\* The variables of the collector keep their types: no subtraction in a handler
\* goes below zero, neither that of the total staked nor that of the residual.
THEOREM CollectorTypes == Spec => []TypeOK
<1>1. CollectorInv => TypeOK
    BY DEF CollectorInv
<1> QED BY <1>1, CollectorInvariance, PTL

\* The total that every deposit is divided by is the sum of what the accounts
\* have staked.
THEOREM TotalStakedStaysSum == Spec => []TotalStakedIsSum
<1>1. CollectorInv => TotalStakedIsSum
    <2> SUFFICES ASSUME CollectorInv PROVE TotalStakedIsSum
        OBVIOUS
    <2> DEFINE amounts == [staker \in Stored |-> stake_states[staker].staked_amount]
    <2>1. Stored \in SUBSET Stakers
        BY DEF Stored
    <2>2. /\ \A staker \in Stored : amounts[staker] = staked_of[staker]
          /\ \A staker \in Stakers \ Stored : staked_of[staker] = 0
        BY <2>1 DEF staked_of, staked_by
    <2>3. Sum(Stored, amounts) = Sum(Stakers, staked_of)
        BY <2>1, <2>2, SumOfPart
    <2>4. Total(amounts) = Sum(Stored, amounts)
        BY DEF Total, Sum, Blocks, Block
    <2> QED BY <2>3, <2>4 DEF CollectorInv, TotalStakedIsSum
<1> QED BY <1>1, CollectorInvariance, PTL

\* Every base token is in a wallet or in one account's stake, once.
THEOREM TokensStayBacked == Spec => []TokensBacked
<1>1. CollectorInv => TokensBacked
    <2> SUFFICES ASSUME CollectorInv PROVE TokensBacked
        OBVIOUS
    <2> DEFINE amounts == [staker \in Stored |->
                             LET stake == stake_states[staker]
                             IN  stake.staked_amount + stake.unstaking_amount
                                   + stake.unstaked_amount]
    <2>1. Stored \in SUBSET Stakers
        BY DEF Stored
    <2>2. /\ \A staker \in Stored : amounts[staker] = held_of[staker]
          /\ \A staker \in Stakers \ Stored : held_of[staker] = 0
        BY <2>1 DEF held_of, held_for, tokens_in
    <2>3. Sum(Stored, amounts) = Sum(Stakers, held_of)
        BY <2>1, <2>2, SumOfPart
    <2>4. Total(amounts) = Sum(Stored, amounts)
        BY DEF Total, Sum, Blocks, Block
    <2>5. Sum(Stakers, wallets)
            = Cardinality(UNION {{staker} \X (1 .. wallets[staker]) : staker \in Stakers})
        BY DEF Sum, Blocks, Block
    <2> QED BY <2>3, <2>4, <2>5 DEF CollectorInv, TokensBacked
<1> QED BY <1>1, CollectorInvariance, PTL

=============================================================================
