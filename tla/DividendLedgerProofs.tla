------------------------ MODULE DividendLedgerProofs ------------------------
(***************************************************************************)
(* Proofs about the dividends of the root collector, for all accounts,     *)
(* amounts and tax rates: a dividend follows the stake it is for, and what *)
(* is promised exceeds what is held by no more than the rounding of the    *)
(* residual.                                                               *)
(***************************************************************************)
EXTENDS DividendLedger, RootCollectorProofs

----------------------------------------------------------------------------
(* What a deposit adds to the credits of all accounts.                     *)

\* A position in a row of c times n, as the number of its c-block and the place
\* in it.
LEMMA PlaceInBlock ==
    ASSUME NEW c \in Nat \ {0}, NEW n \in Nat, NEW k \in Nat, k < n * c
    PROVE  /\ k \div c + 1 \in 1 .. n
           /\ k % c \in 0 .. c - 1
           /\ k = c * (k \div c) + (k % c)
<1> DEFINE q == k \div c
           r == k % c
<1>1. q \in Nat /\ r \in 0 .. c - 1 /\ k = c * q + r
    BY Quotient
<1> HIDE DEF q, r
<1>2. q * c < n * c
    <2> DEFINE a == c * q
               b == n * c
    <2>1. q * c = a /\ a \in Nat /\ b \in Nat /\ k = a + r /\ k < b
        BY <1>1, ProductInNat
    <2> HIDE DEF a, b
    <2>2. a < b
        BY <1>1, <2>1
    <2> QED BY <2>1, <2>2 DEF b
<1>3. q < n
    BY <1>1, <1>2, ProductCancel
<1>4. q + 1 \in 1 .. n
    BY <1>1, <1>3
<1> QED BY <1>1, <1>4 DEF q, r

LEMMA SamePlace ==
    ASSUME NEW c \in Nat \ {0}, NEW j \in Nat, NEW k \in Nat,
           j \div c + 1 = k \div c + 1, j % c = k % c
    PROVE  j = k
<1>1. j \div c \in Nat /\ k \div c \in Nat
    BY Quotient
<1>2. j \div c = k \div c
    BY <1>1
<1>3. j = c * (j \div c) + (j % c) /\ k = c * (k \div c) + (k % c)
    BY Quotient
<1> QED BY <1>2, <1>3

LEMMA SumOfMultiples ==
    ASSUME NEW S, IsFiniteSet(S), NEW f, NEW g, NEW h, NEW c \in Nat,
           \A x \in S : f[x] \in Nat /\ g[x] \in Nat /\ h[x] = f[x] + g[x] * c
    PROVE  Sum(S, h) <= Sum(S, f) + Sum(S, g) * c
<1>1. \A x \in S : g[x] * c \in Nat /\ h[x] \in Nat /\ f[x] <= h[x]
    BY ProductInNat
<1>2. /\ IsFiniteSet(Blocks(S, f)) /\ Sum(S, f) \in Nat
      /\ IsFiniteSet(Blocks(S, g)) /\ Sum(S, g) \in Nat
      /\ IsFiniteSet(Blocks(S, h)) /\ Sum(S, h) \in Nat
    BY <1>1, SumInNat
<1>3. CASE c = 0
    <2>1. \A x \in S : h[x] = f[x]
        BY <1>3
    <2>2. Sum(S, h) = Sum(S, f)
        BY <2>1, SumSame
    <2> QED BY <1>2, <1>3, <2>2
<1>4. CASE c # 0
    <2> DEFINE A == Blocks(S, h) \ Blocks(S, f)
               T == Blocks(S, g) \X (0 .. c - 1)
               k(z) == z[2] - f[z[1]] - 1
               place == [z \in A |-> << <<z[1], k(z) \div c + 1>>, k(z) % c >>]
    <2>1. \A z \in A : /\ z = <<z[1], z[2]>> /\ z[1] \in S
                       /\ z[2] \in (f[z[1]] + 1) .. h[z[1]]
        <3> SUFFICES ASSUME NEW z \in A
                     PROVE  /\ z = <<z[1], z[2]>> /\ z[1] \in S
                            /\ z[2] \in (f[z[1]] + 1) .. h[z[1]]
            OBVIOUS
        <3>1. PICK x \in S : z \in {x} \X (1 .. h[x])
            BY DEF Blocks, Block
        <3>2. z = <<x, z[2]>> /\ z[1] = x /\ z[2] \in 1 .. h[x]
            BY <3>1
        <3>3. z[2] \notin 1 .. f[x]
            BY <3>2 DEF Blocks, Block
        <3> QED BY <1>1, <3>2, <3>3
    <2>2. \A z \in A : /\ k(z) \in Nat
                       /\ k(z) \div c + 1 \in 1 .. g[z[1]]
                       /\ k(z) % c \in 0 .. c - 1
                       /\ k(z) = c * (k(z) \div c) + (k(z) % c)
        <3> SUFFICES ASSUME NEW z \in A
                     PROVE  /\ k(z) \in Nat
                            /\ k(z) \div c + 1 \in 1 .. g[z[1]]
                            /\ k(z) % c \in 0 .. c - 1
                            /\ k(z) = c * (k(z) \div c) + (k(z) % c)
            OBVIOUS
        <3> DEFINE j == k(z)
                   n == g[z[1]]
        <3>1. n \in Nat /\ j \in Nat /\ j < n * c
            BY <1>1, <2>1
        <3> HIDE DEF j, n
        <3>2. /\ j \div c + 1 \in 1 .. n /\ j % c \in 0 .. c - 1
              /\ j = c * (j \div c) + (j % c)
            BY <1>4, <3>1, PlaceInBlock
        <3> QED BY <3>1, <3>2 DEF j, n
    <2>3. place \in [A -> T]
        <3> SUFFICES ASSUME NEW z \in A
                     PROVE  <<z[1], k(z) \div c + 1>> \in Blocks(S, g)
            BY <2>2
        <3> QED BY <2>1, <2>2 DEF Blocks, Block
    <2>4. ASSUME NEW y \in A, NEW z \in A, place[y] = place[z]
          PROVE  y = z
        <3>1. y[1] = z[1] /\ k(y) \div c + 1 = k(z) \div c + 1 /\ k(y) % c = k(z) % c
            BY <2>4
        <3>2. k(y) = k(z)
            <4> DEFINE i == k(y)
                       j == k(z)
            <4>1. i \in Nat /\ j \in Nat /\ c \in Nat \ {0}
                BY <1>4, <2>2
            <4>2. i \div c + 1 = j \div c + 1 /\ i % c = j % c
                BY <3>1
            <4> HIDE DEF i, j
            <4>3. i = j
                BY <4>1, <4>2, SamePlace
            <4> QED BY <4>3 DEF i, j
        <3>3. y[2] = z[2]
            BY <1>1, <2>1, <3>1, <3>2
        <3> QED BY <2>1, <3>1, <3>3
    <2>5. place \in Injection(A, T)
        <3> HIDE DEF A, T
        <3> QED BY <2>3, <2>4 DEF Injection, IsInjective
    <2>6. /\ IsFiniteSet(0 .. c - 1) /\ Cardinality(0 .. c - 1) = c
        BY <1>4, FS_Interval
    <2>7. IsFiniteSet(T) /\ Cardinality(T) = Sum(S, g) * c
        BY <1>2, <2>6, FS_Product DEF Sum
    <2>8. Cardinality(A) <= Sum(S, g) * c
        <3> HIDE DEF A, T
        <3> QED BY <2>5, <2>7, FS_Injection
    <2>9. Blocks(S, h) \cap Blocks(S, f) = Blocks(S, f)
        <3>1. \A x \in S : Block(f, x) \subseteq Block(h, x)
            BY <1>1 DEF Block
        <3> QED BY <3>1 DEF Blocks
    <2>10. Cardinality(A) = Sum(S, h) - Sum(S, f)
        <3>1. Cardinality(A)
                = Cardinality(Blocks(S, h)) - Cardinality(Blocks(S, h) \cap Blocks(S, f))
            BY <1>2, FS_Difference
        <3> QED BY <2>9, <3>1 DEF Sum
    <2>11. Sum(S, g) * c \in Nat
        BY <1>2, ProductInNat
    <2> HIDE DEF A
    <2> QED BY <1>2, <2>8, <2>10, <2>11
<1> QED BY <1>3, <1>4

----------------------------------------------------------------------------
(* The ledger beside the collector.  The inductive invariant compares it   *)
(* with the exact claim of an account, before the dividend is rounded.     *)

exact_claim(stake, multiplier) ==
    DECIMAL_FRACTION * stake.dividend
      + stake.staked_amount * (multiplier - stake.multiplier)

Follows(stake, multiplier, owed, roundings) ==
    /\ stake.multiplier <= multiplier
    /\ exact_claim(stake, multiplier) <= owed
    /\ owed <= exact_claim(stake, multiplier) + (DECIMAL_FRACTION - 1) * roundings

LedgerType ==
    /\ ledger \in [deposits : Nat, owed : [Stakers -> Nat], roundings : [Stakers -> Nat]]
    /\ \A staker \in Stakers \ Stored : ledger.owed[staker] = 0

Covered ==
    DECIMAL_FRACTION * state.residual + Sum(Stakers, ledger.owed)
      <= DECIMAL_FRACTION * funds + (DECIMAL_FRACTION - 1) * ledger.deposits

LedgerInv ==
    /\ LedgerType
    /\ \A staker \in Stored :
         Follows(stake_states[staker], state.multiplier,
                 ledger.owed[staker], ledger.roundings[staker])
    /\ Covered

\* The dividend of a stake, against its exact claim.
LEMMA ClaimRounded ==
    ASSUME NEW stake \in StakeState, NEW multiplier \in Nat, stake.multiplier <= multiplier
    PROVE  LET claim == DECIMAL_FRACTION * dividend(stake, multiplier)
               exact == exact_claim(stake, multiplier)
           IN  /\ claim \in Nat /\ exact \in Nat
               /\ claim <= exact
               /\ exact <= claim + (DECIMAL_FRACTION - 1)
               /\ stake.multiplier = multiplier => exact = claim
<1> DEFINE F == DECIMAL_FRACTION
           p == stake.staked_amount * (multiplier - stake.multiplier)
           e == earned(stake.staked_amount, stake.multiplier, multiplier)
           d == stake.dividend
<1>1. /\ stake.staked_amount \in Nat /\ stake.multiplier \in Nat /\ d \in Nat
      /\ F \in Nat \ {0}
    BY CollectorConfig DEF StakeState
<1>2. /\ e \in Nat /\ p \in Nat
      /\ F * e <= p /\ p <= F * e + (F - 1)
      /\ stake.multiplier = multiplier => p = 0 /\ e = 0
    BY <1>1, Earned
<1>3. exact_claim(stake, multiplier) = F * d + p /\ dividend(stake, multiplier) = d + e
    BY DEF exact_claim, dividend
<1> HIDE DEF p, e, d, F
<1>4. F * (d + e) = F * d + F * e /\ F * d \in Nat /\ F * e \in Nat
    BY <1>1, <1>2, ProductInNat
<1>5. e = 0 => F * e = 0
    BY <1>1
<1>6. /\ F * (d + e) \in Nat /\ F * d + p \in Nat
      /\ F * (d + e) <= F * d + p
      /\ F * d + p <= F * (d + e) + (F - 1)
      /\ stake.multiplier = multiplier => F * d + p = F * (d + e)
    BY <1>1, <1>2, <1>4, <1>5
<1> QED BY <1>3, <1>6 DEF F

\* An account that was in step stays in step when its stake is touched: one
\* more rounding, if the multiplier has moved.
LEMMA TouchFollows ==
    ASSUME NEW stake \in StakeState, NEW new \in StakeState, NEW multiplier \in Nat,
           NEW owed \in Nat, NEW roundings \in Nat, NEW more \in {0, 1},
           more = 0 => stake.multiplier = multiplier,
           Follows(stake, multiplier, owed, roundings),
           new.multiplier = multiplier, new.dividend = dividend(stake, multiplier)
    PROVE  Follows(new, multiplier, owed, roundings + more)
<1> DEFINE F == DECIMAL_FRACTION
           claim == F * dividend(stake, multiplier)
           exact == exact_claim(stake, multiplier)
           a == (F - 1) * roundings
<1>1. /\ F \in Nat \ {0} /\ a \in Nat
      /\ (F - 1) * (roundings + more) = a + (F - 1) * more
    BY CollectorConfig, ProductInNat
<1>2. /\ stake.multiplier <= multiplier
      /\ exact <= owed /\ owed <= exact + a
    BY DEF Follows
<1>3. /\ claim \in Nat /\ exact \in Nat
      /\ claim <= exact
      /\ exact <= claim + (F - 1)
      /\ stake.multiplier = multiplier => exact = claim
    BY <1>2, ClaimRounded
<1>4. exact_claim(new, multiplier) = claim
    <2>1. new.staked_amount * (multiplier - multiplier) = 0
        BY DEF StakeState
    <2> QED BY <2>1, <1>3 DEF exact_claim
<1> HIDE DEF claim, exact, a
<1>5. (F - 1) * more \in Nat /\ exact <= claim + (F - 1) * more
    BY <1>1, <1>3
<1>6. claim <= owed /\ owed <= claim + (a + (F - 1) * more)
    <2> DEFINE b == (F - 1) * more
    <2>1. b \in Nat /\ exact <= claim + b
        BY <1>5
    <2> HIDE DEF b
    <2>2. claim <= owed /\ owed <= claim + (a + b)
        BY <1>1, <1>2, <1>3, <2>1
    <2> QED BY <2>2 DEF b
<1> QED BY <1>1, <1>4, <1>6 DEF Follows, a

\* A deposit adds to the exact claim of an account what it adds to its credit.
LEMMA DepositFollows ==
    ASSUME NEW stake \in StakeState, NEW multiplier \in Nat, NEW gain \in Nat,
           NEW owed \in Nat, NEW roundings \in Nat,
           Follows(stake, multiplier, owed, roundings)
    PROVE  Follows(stake, multiplier + gain, owed + stake.staked_amount * gain, roundings)
<1> DEFINE F == DECIMAL_FRACTION
           a == (F - 1) * roundings
           more == stake.staked_amount * gain
           exact == exact_claim(stake, multiplier)
<1>1. /\ F \in Nat \ {0} /\ a \in Nat /\ more \in Nat
      /\ stake.staked_amount \in Nat /\ stake.multiplier \in Nat /\ stake.dividend \in Nat
    BY CollectorConfig, ProductInNat DEF StakeState
<1>2. stake.multiplier <= multiplier /\ exact <= owed /\ owed <= exact + a
    BY DEF Follows
<1>3. exact \in Nat
    BY <1>2, ClaimRounded
<1>4. exact_claim(stake, multiplier + gain) = exact + more
    <2> DEFINE n == stake.staked_amount
               before == multiplier - stake.multiplier
    <2>1. n \in Nat /\ before \in Nat /\ (multiplier + gain) - stake.multiplier = before + gain
        BY <1>1, <1>2
    <2> HIDE DEF n, before
    <2>2. n * (before + gain) = n * before + n * gain /\ n * before \in Nat /\ n * gain \in Nat
        BY <2>1, ProductInNat
    <2>3. F * stake.dividend \in Nat
        BY <1>1, ProductInNat
    <2> QED BY <2>1, <2>2, <2>3 DEF exact_claim, n, before
<1> HIDE DEF exact, a, more
<1>5. /\ stake.multiplier <= multiplier + gain
      /\ exact + more <= owed + more
      /\ owed + more <= exact + more + a
    BY <1>1, <1>2, <1>3
<1> QED BY <1>4, <1>5 DEF Follows, a, more

\* What LedgerInv says of the accounts, when one stake is stored.
LEMMA StoreFollows ==
    ASSUME TypeOK, LedgerInv, NEW staker \in Stakers, NEW new \in StakeState,
           StoreStake(staker, new), UNCHANGED state.multiplier,
           \A other \in Stakers \ {staker} :
             /\ ledger'.owed[other] = ledger.owed[other]
             /\ ledger'.roundings[other] = ledger.roundings[other],
           Follows(new, state.multiplier, ledger'.owed[staker], ledger'.roundings[staker])
    PROVE  /\ \A other \in Stored' :
                Follows(stake_states'[other], state'.multiplier,
                        ledger'.owed[other], ledger'.roundings[other])
           /\ \A other \in Stakers \ Stored' : ledger'.owed[other] = 0
<1>1. /\ Stored' = Stored \union {staker}
      /\ stake_states'[staker] = new
      /\ \A other \in Stakers \ {staker} : stake_states'[other] = stake_states[other]
    BY StoreSums
<1>2. \A other \in Stored' : other \in Stakers
    BY DEF Stored
<1>3. ASSUME NEW other \in Stored'
      PROVE  Follows(stake_states'[other], state'.multiplier,
                     ledger'.owed[other], ledger'.roundings[other])
    <2>1. CASE other = staker
        BY <1>1, <2>1
    <2>2. CASE other # staker
        <3>1. other \in Stored /\ other \in Stakers \ {staker}
            BY <1>1, <1>2, <2>2
        <3> QED BY <1>1, <3>1 DEF LedgerInv
    <2> QED BY <2>1, <2>2
<1>4. ASSUME NEW other \in Stakers \ Stored' PROVE ledger'.owed[other] = 0
    <2>1. other \in Stakers \ Stored /\ other # staker
        BY <1>1
    <2> QED BY <2>1 DEF LedgerInv, LedgerType
<1> QED BY <1>3, <1>4

LEMMA OwedSum ==
    ASSUME LedgerType
    PROVE  /\ \A staker \in Stakers : /\ ledger.owed[staker] \in Nat
                                      /\ ledger.roundings[staker] \in Nat
           /\ ledger.deposits \in Nat
           /\ Sum(Stakers, ledger.owed) \in Nat
<1>1. /\ ledger.owed \in [Stakers -> Nat] /\ ledger.roundings \in [Stakers -> Nat]
      /\ ledger.deposits \in Nat
    BY DEF LedgerType
<1>2. \A staker \in Stakers : ledger.owed[staker] \in Nat /\ ledger.roundings[staker] \in Nat
    BY <1>1
<1>3. Sum(Stakers, ledger.owed) \in Nat
    BY <1>2, CollectorConfig, SumInNat
<1> QED BY <1>1, <1>2, <1>3

LEMMA DepositKeepsLedger ==
    ASSUME CollectorInv, LedgerInv, NEW sent \in DepositAmounts, LedgerDeposit(sent)
    PROVE  LedgerInv'
<1> DEFINE F == DECIMAL_FRACTION
           deposit == sent + state.residual
           p == deposit_per_stake(deposit)
           h == handed_out(p)
           total == state.total_staked
           owed == [staker \in Stakers |-> ledger.owed[staker] + staked(staker) * p]
           count == IF p = 0 THEN ledger.deposits ELSE ledger.deposits + 1
<1>1. /\ TypeOK /\ F \in Nat \ {0} /\ sent \in Nat /\ deposit \in Nat /\ funds \in Nat
      /\ state \in State /\ state.residual \in Nat /\ state.multiplier \in Nat
      /\ total \in Nat /\ total = Sum(Stakers, staked_of)
    BY CollectorConfig DEF CollectorInv, TypeOK, State
<1>2. /\ p \in Nat /\ h \in Nat /\ h <= deposit /\ p * total \in Nat
      /\ p * total <= F * h + (F - 1)
      /\ p = 0 => h = 0 /\ p * total = 0
    <2> HIDE DEF deposit
    <2> QED BY <1>1, HandedOut
<1>3. /\ state' = [state EXCEPT !.multiplier = @ + p, !.residual = deposit - h]
      /\ funds' = funds + sent
      /\ UNCHANGED stake_states
    BY DEF LedgerDeposit, Deposit
<1>4. state'.multiplier = state.multiplier + p /\ state'.residual = deposit - h
    <2> HIDE DEF p, h, deposit
    <2> QED BY <1>1, <1>3 DEF State
<1>5. state'.multiplier - state.multiplier = p
    BY <1>1, <1>2, <1>4
<1>6. ledger' = [ledger EXCEPT !.deposits = count, !.owed = owed]
    BY <1>5 DEF LedgerDeposit
<1>7. /\ LedgerType
      /\ \A staker \in Stakers : ledger.owed[staker] \in Nat /\ ledger.roundings[staker] \in Nat
      /\ ledger.deposits \in Nat /\ Sum(Stakers, ledger.owed) \in Nat
    BY OwedSum DEF LedgerInv
<1>8. \A staker \in Stakers : staked(staker) \in Nat
    BY <1>1 DEF TypeOK, staked, Stored, StakeState
<1> HIDE DEF p
<1>9. /\ \A staker \in Stakers : staked(staker) * p \in Nat
      /\ owed \in [Stakers -> Nat] /\ count \in Nat
    BY <1>2, <1>7, <1>8, ProductInNat
<1> HIDE DEF owed, count
<1>10. /\ ledger' \in [deposits : Nat, owed : [Stakers -> Nat], roundings : [Stakers -> Nat]]
       /\ ledger'.deposits = count /\ ledger'.owed = owed
       /\ ledger'.roundings = ledger.roundings
    BY <1>6, <1>7, <1>9 DEF LedgerType
<1>11. Stored' = Stored
    BY <1>3 DEF Stored
<1>12. LedgerType'
    <2>1. ASSUME NEW staker \in Stakers \ Stored PROVE owed[staker] = 0
        <3>1. staked(staker) = 0 /\ ledger.owed[staker] = 0
            BY <1>7 DEF staked, LedgerType
        <3> QED BY <1>2, <3>1 DEF owed
    <2> QED BY <1>10, <1>11, <2>1 DEF LedgerType
<1>13. ASSUME NEW staker \in Stored'
       PROVE  Follows(stake_states'[staker], state'.multiplier,
                      ledger'.owed[staker], ledger'.roundings[staker])
    <2>1. staker \in Stakers /\ staker \in Stored /\ stake_states[staker] \in StakeState
        BY <1>1, <1>11, StoredStake
    <2>2. owed[staker] = ledger.owed[staker] + stake_states[staker].staked_amount * p
        BY <2>1 DEF owed, staked
    <2>3. Follows(stake_states[staker], state.multiplier,
                  ledger.owed[staker], ledger.roundings[staker])
        BY <2>1 DEF LedgerInv
    <2>4. Follows(stake_states[staker], state.multiplier + p,
                  ledger.owed[staker] + stake_states[staker].staked_amount * p,
                  ledger.roundings[staker])
        BY <1>1, <1>2, <1>7, <2>1, <2>3, DepositFollows
    <2> QED BY <1>3, <1>4, <1>10, <2>2, <2>4
<1>14. Sum(Stakers, owed) \in Nat /\ Sum(Stakers, owed) <= Sum(Stakers, ledger.owed) + p * total
    <2> DEFINE f == ledger.owed
    <2>1. \A staker \in Stakers :
            /\ f[staker] \in Nat /\ staked_of[staker] \in Nat
            /\ owed[staker] = f[staker] + staked_of[staker] * p
        BY <1>7, <1>8 DEF owed, staked_of, staked, staked_by
    <2> HIDE DEF f
    <2>2. Sum(Stakers, owed) <= Sum(Stakers, f) + Sum(Stakers, staked_of) * p
        BY <1>2, <2>1, CollectorConfig, SumOfMultiples
    <2>3. Sum(Stakers, owed) \in Nat
        <3>1. \A staker \in Stakers : owed[staker] \in Nat
            BY <1>9
        <3> QED BY <3>1, CollectorConfig, SumInNat
    <2>4. Sum(Stakers, staked_of) * p = p * total
        BY <1>1, <1>2
    <2> QED BY <2>2, <2>3, <2>4 DEF f
<1>15. Covered'
    <2> DEFINE before == Sum(Stakers, ledger.owed)
               after == Sum(Stakers, owed)
               gain == p * total
               loss == (F - 1) * ledger.deposits
               r == state.residual
    <2>1. (F - 1) * count = IF p = 0 THEN loss ELSE loss + (F - 1)
        BY <1>1, <1>7 DEF count
    <2>2. /\ F * (deposit - h) = F * sent + F * r - F * h
          /\ F * (funds + sent) = F * funds + F * sent
          /\ F * sent \in Nat /\ F * r \in Nat /\ F * h \in Nat /\ F * funds \in Nat
          /\ loss \in Nat
        BY <1>1, <1>2, <1>7, ProductInNat
    <2>3. F * r + before <= F * funds + loss
        BY DEF LedgerInv, Covered
    <2>4. p = 0 => F * h = 0 /\ gain = 0
        BY <1>1, <1>2
    <2>5. gain \in Nat /\ gain <= F * h + (F - 1) /\ before \in Nat /\ after \in Nat
          /\ after <= before + gain
        BY <1>2, <1>7, <1>14
    <2> HIDE DEF before, after, gain, loss, r, deposit, h
    <2>6. F * (deposit - h) + after <= F * (funds + sent) + (F - 1) * count
        <3> DEFINE fs == F * sent
                   fr == F * r
                   fh == F * h
                   ff == F * funds
        <3>1. /\ fs \in Nat /\ fr \in Nat /\ fh \in Nat /\ ff \in Nat /\ loss \in Nat
              /\ F \in Nat \ {0}
              /\ fr + before <= ff + loss
              /\ p = 0 => fh = 0 /\ gain = 0
              /\ gain <= fh + (F - 1)
            BY <1>1, <2>2, <2>3, <2>4, <2>5
        <3> HIDE DEF fs, fr, fh, ff
        <3>2. (fs + fr - fh) + after
                <= (ff + fs) + (IF p = 0 THEN loss ELSE loss + (F - 1))
            BY <2>5, <3>1
        <3> QED BY <2>1, <2>2, <3>2 DEF fs, fr, fh, ff
    <2> QED BY <1>3, <1>4, <1>10, <2>6 DEF Covered, after
<1> QED BY <1>12, <1>13, <1>15 DEF LedgerInv

\* The record that ReceiveStake or UnstakeTokens stores.
LEMMA TouchRecord ==
    ASSUME CollectorInv, NEW staker \in Stakers, LedgerTouch(staker)
    PROVE  /\ UNCHANGED <<state.multiplier, state.residual, funds>>
           /\ \E new \in StakeState :
                /\ StoreStake(staker, new)
                /\ new.multiplier = state.multiplier
                /\ new.dividend = IF staker \in Stored
                                  THEN dividend(stake_states[staker], state.multiplier) ELSE 0
<1>1. TypeOK /\ state \in State
    BY DEF CollectorInv, TypeOK
<1>2. PICK amount \in TokenAmounts :
        \/ \E sender \in Stakers \union {base_token} : ReceiveStake(sender, staker, amount)
        \/ UnstakeTokens(staker, amount)
    BY DEF LedgerTouch
<1>3. amount \in Nat
    BY CollectorConfig
<1>4. CASE \E sender \in Stakers \union {base_token} : ReceiveStake(sender, staker, amount)
    <2> DEFINE total == state.total_staked + amount
    <2>1. /\ StoreStake(staker, topped_up(staker, amount))
          /\ state' = [state EXCEPT !.total_staked = total]
          /\ UNCHANGED funds
        BY <1>4 DEF ReceiveStake
    <2> HIDE DEF total
    <2>2. UNCHANGED <<state.multiplier, state.residual, funds>>
        BY <1>1, <2>1 DEF State
    <2> QED BY <1>1, <1>3, <2>1, <2>2, ToppedUp
<1>5. CASE UnstakeTokens(staker, amount)
    <2> DEFINE total == state.total_staked - amount
               old == stake_states[staker]
               new == moved_to_unstaking(
                        update_unstaked_amount(
                          update_dividend(old, state.multiplier), now), amount)
    <2>1. /\ staker \in Stored /\ amount <= old.staked_amount
          /\ StoreStake(staker, new)
          /\ state' = [state EXCEPT !.total_staked = total]
          /\ UNCHANGED funds
        BY <1>5 DEF UnstakeTokens
    <2>2. /\ new \in StakeState
          /\ new.multiplier = state.multiplier
          /\ new.dividend = dividend(old, state.multiplier)
        BY <1>1, <1>3, <2>1, Unstaked
    <2> HIDE DEF total, new
    <2>3. UNCHANGED <<state.multiplier, state.residual, funds>>
        BY <1>1, <2>1 DEF State
    <2> QED BY <2>1, <2>2, <2>3
<1> QED BY <1>2, <1>4, <1>5

LEMMA TouchKeepsLedger ==
    ASSUME CollectorInv, LedgerInv, NEW staker \in Stakers, LedgerTouch(staker)
    PROVE  LedgerInv'
<1> DEFINE old == stake_states[staker]
           more == rounded(staker)
           count == ledger.roundings[staker] + more
<1>1. /\ TypeOK /\ LedgerType /\ state.multiplier \in Nat
      /\ UNCHANGED <<state.multiplier, state.residual, funds>>
    BY TouchRecord DEF CollectorInv, TypeOK, State, LedgerInv
<1>2. PICK new \in StakeState :
        /\ StoreStake(staker, new)
        /\ new.multiplier = state.multiplier
        /\ new.dividend = IF staker \in Stored
                          THEN dividend(old, state.multiplier) ELSE 0
    BY TouchRecord
<1>3. /\ \A other \in Stakers : ledger.owed[other] \in Nat /\ ledger.roundings[other] \in Nat
      /\ more \in {0, 1} /\ count \in Nat
    BY <1>1, OwedSum DEF rounded
<1>4. ledger' = [ledger EXCEPT !.roundings[staker] = count]
    BY DEF LedgerTouch
<1> HIDE DEF more, count
<1>5. /\ ledger' \in [deposits : Nat, owed : [Stakers -> Nat], roundings : [Stakers -> Nat]]
      /\ ledger'.owed = ledger.owed /\ ledger'.deposits = ledger.deposits
      /\ ledger'.roundings[staker] = count
      /\ \A other \in Stakers \ {staker} : ledger'.roundings[other] = ledger.roundings[other]
    BY <1>1, <1>3, <1>4 DEF LedgerType
<1>6. Follows(new, state.multiplier, ledger.owed[staker], count)
    <2>1. CASE staker \in Stored
        <3>1. /\ old \in StakeState
              /\ Follows(old, state.multiplier, ledger.owed[staker], ledger.roundings[staker])
            BY <1>1, <2>1, StoredStake DEF LedgerInv
        <3>2. more = 0 => old.multiplier = state.multiplier
            BY <2>1 DEF more, rounded
        <3> QED BY <1>1, <1>2, <1>3, <2>1, <3>1, <3>2, TouchFollows DEF count
    <2>2. CASE staker \notin Stored
        <3>1. ledger.owed[staker] = 0 /\ new.dividend = 0 /\ new.staked_amount \in Nat
            BY <1>1, <1>2, <2>2 DEF LedgerType, StakeState
        <3>2. exact_claim(new, state.multiplier) = 0
            BY <1>1, <1>2, <3>1, CollectorConfig DEF exact_claim
        <3>3. (DECIMAL_FRACTION - 1) * count \in Nat
            BY <1>3, CollectorConfig, ProductInNat DEF count
        <3> QED BY <1>1, <1>2, <3>1, <3>2, <3>3 DEF Follows
    <2> QED BY <2>1, <2>2
<1>7. /\ \A other \in Stored' :
           Follows(stake_states'[other], state'.multiplier,
                   ledger'.owed[other], ledger'.roundings[other])
      /\ \A other \in Stakers \ Stored' : ledger'.owed[other] = 0
    BY <1>1, <1>2, <1>5, <1>6, StoreFollows
<1>8. Covered'
    BY <1>1, <1>5 DEF LedgerInv, Covered
<1> QED BY <1>5, <1>7, <1>8 DEF LedgerInv, LedgerType

\* Arithmetic of the withdrawal: what is paid and what stays, and their products.
LEMMA Parted ==
    ASSUME NEW a \in Nat, NEW b \in Nat
    PROVE  a = b + (a - b)
    OBVIOUS

LEMMA ProductOfSum ==
    ASSUME NEW a \in Nat, NEW b \in Nat, NEW c \in Nat
    PROVE  a * (b + c) = a * b + a * c
    OBVIOUS

LEMMA ProductInOrder ==
    ASSUME NEW a \in Nat, NEW b \in Nat, NEW c \in Nat, b <= c
    PROVE  a * b <= a * c
    BY ProductMonotone, a * b = b * a, a * c = c * a

LEMMA WithdrawDividendsKeepsLedger ==
    ASSUME CollectorInv, LedgerInv, NEW staker \in Stakers, LedgerWithdrawDividends(staker)
    PROVE  LedgerInv'
<1> DEFINE F == DECIMAL_FRACTION
           old == stake_states[staker]
           d == dividend(old, state.multiplier)
           claim == F * d
           left == ledger.owed[staker] - claim
           more == rounded(staker)
           count == ledger.roundings[staker] + more
<1>1. /\ TypeOK /\ LedgerType /\ state.multiplier \in Nat /\ F \in Nat \ {0}
      /\ staker \in Stored /\ old \in StakeState /\ funds \in Nat
      /\ WithdrawDividends(staker) /\ UNCHANGED state
    BY StoredStake, CollectorConfig
    DEF CollectorInv, TypeOK, State, LedgerInv, LedgerWithdrawDividends, WithdrawDividends
<1>2. /\ d \in Nat /\ funds' \in Nat /\ funds - funds' \in Nat /\ funds - funds' <= d
    BY <1>1, PaidOut
<1>3. PICK new \in StakeState :
        /\ StoreStake(staker, new)
        /\ new.multiplier = state.multiplier
        /\ new.dividend = 0
    BY <1>1, PaidOut
<1>4. /\ \A other \in Stakers : ledger.owed[other] \in Nat /\ ledger.roundings[other] \in Nat
      /\ more \in {0, 1} /\ count \in Nat /\ ledger.deposits \in Nat
      /\ Sum(Stakers, ledger.owed) \in Nat
    BY <1>1, OwedSum DEF rounded
<1>5. ledger' = [ledger EXCEPT !.owed[staker] = left, !.roundings[staker] = count]
    BY DEF LedgerWithdrawDividends
<1>6. /\ Follows(old, state.multiplier, ledger.owed[staker], ledger.roundings[staker])
      /\ more = 0 => old.multiplier = state.multiplier
    BY <1>1 DEF LedgerInv, rounded
<1>7. claim \in Nat /\ left \in Nat /\ left <= (F - 1) * count
    <2> DEFINE exact == exact_claim(old, state.multiplier)
               a == (F - 1) * ledger.roundings[staker]
               b == (F - 1) * more
    <2>1. /\ old.multiplier <= state.multiplier
          /\ exact <= ledger.owed[staker]
          /\ ledger.owed[staker] <= exact + a
        BY <1>6 DEF Follows
    <2>2. /\ claim \in Nat /\ exact \in Nat /\ claim <= exact
          /\ exact <= claim + (F - 1)
          /\ old.multiplier = state.multiplier => exact = claim
        BY <1>1, <2>1, ClaimRounded
    <2>3. /\ a \in Nat /\ b \in Nat /\ (F - 1) * count = a + b
          /\ more = 0 => b = 0
          /\ more = 1 => b = F - 1
        <3> DEFINE held == ledger.roundings[staker]
        <3>1. /\ F - 1 \in Nat /\ held \in Nat /\ more \in Nat /\ more \in {0, 1}
            BY <1>1, <1>4
        <3>2. count = held + more
            OBVIOUS
        <3> HIDE DEF held, more, count
        <3>3. (F - 1) * (held + more) = (F - 1) * held + (F - 1) * more
            BY <3>1, ProductOfSum
        <3>4. (F - 1) * held \in Nat /\ (F - 1) * more \in Nat
            BY <3>1, ProductInNat
        <3>5. more = 1 => (F - 1) * more = F - 1
            BY <3>1
        <3>6. more = 0 => (F - 1) * more = 0
            BY <3>1
        <3> QED BY <3>2, <3>3, <3>4, <3>5, <3>6 DEF held
    <2> HIDE DEF exact, a, b, claim, more, count
    <2>4. exact <= claim + b
        BY <1>4, <1>6, <2>2, <2>3
    <2> QED BY <1>4, <2>1, <2>2, <2>3, <2>4
<1> HIDE DEF d, left, more, count
<1>8. /\ ledger' \in [deposits : Nat, owed : [Stakers -> Nat], roundings : [Stakers -> Nat]]
      /\ ledger'.deposits = ledger.deposits
      /\ ledger'.owed[staker] = left /\ ledger'.roundings[staker] = count
      /\ \A other \in Stakers \ {staker} : /\ ledger'.owed[other] = ledger.owed[other]
                                           /\ ledger'.roundings[other] = ledger.roundings[other]
    BY <1>1, <1>4, <1>5, <1>7 DEF LedgerType
<1>9. Follows(new, state.multiplier, left, count)
    <2>1. /\ new.staked_amount \in Nat /\ new.dividend = 0
          /\ new.multiplier = state.multiplier
        BY <1>3 DEF StakeState
    <2>2. exact_claim(new, state.multiplier) = 0
        BY <1>1, <2>1 DEF exact_claim
    <2>3. (F - 1) * count \in Nat
        BY <1>1, <1>4, ProductInNat
    <2> QED BY <1>1, <1>7, <2>1, <2>2, <2>3 DEF Follows
<1>10. /\ \A other \in Stored' :
            Follows(stake_states'[other], state'.multiplier,
                    ledger'.owed[other], ledger'.roundings[other])
       /\ \A other \in Stakers \ Stored' : ledger'.owed[other] = 0
    BY <1>1, <1>3, <1>8, <1>9, StoreFollows
<1>11. Sum(Stakers, ledger'.owed) = Sum(Stakers, ledger.owed) - claim
    <2> DEFINE f == ledger.owed
               g == ledger'.owed
    <2>1. /\ \A other \in Stakers : f[other] \in Nat /\ g[other] \in Nat
          /\ \A other \in Stakers \ {staker} : g[other] = f[other]
        BY <1>4, <1>8
    <2>2. f[staker] = ledger.owed[staker] /\ g[staker] = left
        BY <1>8
    <2>3. Sum(Stakers, f) \in Nat
        BY <1>4
    <2> HIDE DEF f, g
    <2>4. Sum(Stakers, g) = Sum(Stakers, f) - f[staker] + g[staker]
        BY <2>1, CollectorConfig, SumUpdate
    <2>5. Sum(Stakers, g) = Sum(Stakers, f) - claim
        BY <1>4, <1>7, <2>2, <2>3, <2>4 DEF left
    <2> QED BY <2>5 DEF f, g
<1>12. Covered'
    <2> DEFINE loss == (F - 1) * ledger.deposits
               fr == F * state.residual
    <2>1. fr + Sum(Stakers, ledger.owed) <= F * funds + loss
        BY DEF LedgerInv, Covered
    <2>2. fr \in Nat /\ loss \in Nat
        BY <1>1, <1>4, ProductInNat DEF TypeOK, State
    <2>3. F * funds <= F * funds' + claim
        <3> DEFINE paid == funds - funds'
        <3>1. /\ funds = funds' + paid /\ paid \in Nat /\ paid <= d
              /\ F \in Nat /\ funds' \in Nat /\ d \in Nat
            <4>1. F \in Nat /\ funds \in Nat
                BY <1>1
            <4>2. /\ d \in Nat /\ funds' \in Nat
                  /\ funds - funds' \in Nat /\ funds - funds' <= d
                BY <1>2
            <4>3. funds = funds' + (funds - funds')
                BY <4>1, <4>2, Parted
            <4>4. paid = funds - funds'
                OBVIOUS
            <4> HIDE DEF paid, claim
            <4> QED BY <4>1, <4>2, <4>3, <4>4
        <3> HIDE DEF paid
        <3>2. F * paid <= F * d /\ F * paid \in Nat /\ F * funds' \in Nat
            <4>1. F * paid <= F * d
                BY <3>1, ProductInOrder
            <4> QED BY <3>1, <4>1, ProductInNat
        <3>3. F * (funds' + paid) = F * funds' + F * paid
            BY <3>1, ProductOfSum
        <3>4. F * funds = F * funds' + F * paid
            BY <3>1, <3>3
        <3>5. claim = F * d
            OBVIOUS
        <3> HIDE DEF claim
        <3> QED BY <1>7, <3>2, <3>4, <3>5
    <2>4. F * funds \in Nat /\ F * funds' \in Nat
        BY <1>1, <1>2, ProductInNat
    <2> HIDE DEF loss, fr, claim
    <2>5. fr + (Sum(Stakers, ledger.owed) - claim) <= F * funds' + loss
        BY <1>4, <1>7, <2>1, <2>2, <2>3, <2>4
    <2> QED BY <1>1, <1>8, <1>11, <2>5 DEF Covered, fr, loss
<1> QED BY <1>8, <1>10, <1>12 DEF LedgerInv, LedgerType

LEMMA OtherKeepsLedger ==
    ASSUME CollectorInv, LedgerInv, LedgerOther
    PROVE  LedgerInv'
<1>1. UNCHANGED <<ledger, state, funds>>
    BY DEF LedgerOther, Tick, WithdrawTokens
<1>2. Covered'
    BY <1>1 DEF LedgerInv, Covered
<1>3. CASE UNCHANGED stake_states
    BY <1>1, <1>2, <1>3 DEF LedgerInv, LedgerType, Stored
<1>4. ASSUME NEW staker \in Stakers, NEW to \in Stakers, NEW amount \in TokenAmounts,
             WithdrawTokens(staker, amount, to)
      PROVE  LedgerInv'
    <2> DEFINE old == stake_states[staker]
               moved == update_unstaked_amount(old, now)
               left == moved.unstaked_amount - amount
               new == [moved EXCEPT !.unstaked_amount = left]
    <2>1. /\ TypeOK /\ staker \in Stored /\ amount \in Nat
          /\ amount <= moved.unstaked_amount /\ StoreStake(staker, new)
        BY <1>4, CollectorConfig DEF CollectorInv, WithdrawTokens
    <2>2. old \in StakeState
        BY <2>1, StoredStake
    <2>3. /\ moved \in StakeState
          /\ moved.staked_amount = old.staked_amount
          /\ moved.dividend = old.dividend
          /\ moved.multiplier = old.multiplier
        BY <2>2, UpdatedUnstaked
    <2> HIDE DEF moved
    <2>4. left \in Nat
        BY <2>1, <2>3 DEF StakeState
    <2> HIDE DEF left
    <2>5. /\ new \in StakeState
          /\ new.staked_amount = old.staked_amount
          /\ new.dividend = old.dividend
          /\ new.multiplier = old.multiplier
        BY <2>3, <2>4 DEF StakeState
    <2> HIDE DEF new
    <2>6. Follows(old, state.multiplier, ledger.owed[staker], ledger.roundings[staker])
        BY <2>1 DEF LedgerInv
    <2>7. Follows(new, state.multiplier, ledger'.owed[staker], ledger'.roundings[staker])
        BY <1>1, <2>5, <2>6 DEF Follows, exact_claim
    <2>8. /\ \A other \in Stored' :
               Follows(stake_states'[other], state'.multiplier,
                       ledger'.owed[other], ledger'.roundings[other])
          /\ \A other \in Stakers \ Stored' : ledger'.owed[other] = 0
        BY <1>1, <2>1, <2>5, <2>7, StoreFollows
    <2> QED BY <1>1, <1>2, <2>8 DEF LedgerInv, LedgerType
<1> QED BY <1>3, <1>4 DEF LedgerOther, Tick

LEMMA InitLedgerInv == LedgerInit => LedgerInv
<1> SUFFICES ASSUME LedgerInit PROVE LedgerInv
    OBVIOUS
<1>1. /\ ledger.deposits = 0 /\ \A staker \in Stakers : ledger.owed[staker] = 0
      /\ LedgerType /\ Stored = {}
    BY DEF LedgerInit, Init, LedgerType, Stored
<1>2. Sum(Stakers, ledger.owed) = 0 * Cardinality(Stakers)
    BY <1>1, CollectorConfig, SumOfSame
<1>3. Cardinality(Stakers) \in Nat
    BY CollectorConfig, FS_CardinalityType
<1>4. Sum(Stakers, ledger.owed) = 0
    BY <1>2, <1>3
<1>5. state.residual = 0 /\ funds = 0
    BY DEF LedgerInit, Init
<1>6. Covered
    BY <1>1, <1>4, <1>5, CollectorConfig DEF Covered
<1> QED BY <1>1, <1>6 DEF LedgerInv

\* The ledger watches the collector and does not get in its way.
LEMMA LedgerWatches == [LedgerNext]_ledger_vars => [Next]_vars
<1> SUFFICES ASSUME LedgerNext PROVE [Next]_vars
    BY DEF ledger_vars
<1>1. CASE LedgerOther
    BY <1>1 DEF LedgerOther, Next, Call
<1>2. ASSUME NEW sent \in DepositAmounts, LedgerDeposit(sent) PROVE Next
    BY <1>2 DEF LedgerDeposit, Next, Call
<1>3. ASSUME NEW staker \in Stakers, LedgerTouch(staker) PROVE Next
    BY <1>3 DEF LedgerTouch, Next, Call
<1>4. ASSUME NEW staker \in Stakers, LedgerWithdrawDividends(staker) PROVE Next
    BY <1>4 DEF LedgerWithdrawDividends, Next, Call
<1> QED BY <1>1, <1>2, <1>3, <1>4 DEF LedgerNext

LEMMA StepKeepsLedger ==
    CollectorInv /\ LedgerInv /\ [LedgerNext]_ledger_vars => LedgerInv'
<1> SUFFICES ASSUME CollectorInv, LedgerInv, [LedgerNext]_ledger_vars PROVE LedgerInv'
    OBVIOUS
<1>1. CASE LedgerOther
    BY <1>1, OtherKeepsLedger
<1>2. ASSUME NEW sent \in DepositAmounts, LedgerDeposit(sent) PROVE LedgerInv'
    BY <1>2, DepositKeepsLedger
<1>3. ASSUME NEW staker \in Stakers, LedgerTouch(staker) PROVE LedgerInv'
    BY <1>3, TouchKeepsLedger
<1>4. ASSUME NEW staker \in Stakers, LedgerWithdrawDividends(staker) PROVE LedgerInv'
    BY <1>4, WithdrawDividendsKeepsLedger
<1>5. CASE UNCHANGED ledger_vars
    BY <1>5 DEF ledger_vars, vars, LedgerInv, LedgerType, Covered, Stored
<1> QED BY <1>1, <1>2, <1>3, <1>4, <1>5 DEF LedgerNext

LEMMA LedgerInvariance == LedgerSpec => []CollectorInv /\ []LedgerInv
<1>1. LedgerSpec => Spec
    <2>1. LedgerInit => Init
        BY DEF LedgerInit
    <2> QED BY <2>1, LedgerWatches, PTL DEF LedgerSpec, Spec
<1>2. LedgerSpec => []CollectorInv
    BY <1>1, CollectorInvariance, PTL
<1>3. LedgerSpec => []LedgerInv
    BY <1>2, InitLedgerInv, StepKeepsLedger, PTL DEF LedgerSpec
<1> QED BY <1>2, <1>3, PTL

\* The dividend of an account is its share of the deposits made while its tokens
\* were staked, less than one unit short for each time it was rounded, however
\* staking, unstaking, depositing and withdrawing are mixed.
THEOREM DividendsFollowStakes == LedgerSpec => []DividendFollowsStake
<1>1. CollectorInv /\ LedgerInv => DividendFollowsStake
    <2> SUFFICES ASSUME CollectorInv, LedgerInv, NEW staker \in Stored
                 PROVE  LET claim == DECIMAL_FRACTION
                                       * dividend(stake_states[staker], state.multiplier)
                        IN  /\ claim <= ledger.owed[staker]
                            /\ ledger.owed[staker] - claim
                                 <= (DECIMAL_FRACTION - 1)
                                      * (ledger.roundings[staker] + rounded(staker))
        BY DEF DividendFollowsStake
    <2> DEFINE F == DECIMAL_FRACTION
               old == stake_states[staker]
               claim == F * dividend(old, state.multiplier)
               exact == exact_claim(old, state.multiplier)
               owed == ledger.owed[staker]
               count == ledger.roundings[staker]
               more == rounded(staker)
    <2>1. /\ TypeOK /\ LedgerType /\ staker \in Stakers /\ old \in StakeState
          /\ state.multiplier \in Nat /\ F \in Nat \ {0}
        BY StoredStake, CollectorConfig DEF CollectorInv, TypeOK, State, LedgerInv
    <2>2. owed \in Nat /\ count \in Nat
        BY <2>1, OwedSum
    <2>3. /\ old.multiplier <= state.multiplier
          /\ exact <= owed /\ owed <= exact + (F - 1) * count
        BY DEF LedgerInv, Follows
    <2>4. /\ claim \in Nat /\ exact \in Nat /\ claim <= exact
          /\ exact <= claim + (F - 1)
          /\ old.multiplier = state.multiplier => exact = claim
        BY <2>1, <2>3, ClaimRounded
    <2>5. more \in {0, 1} /\ (more = 0 => old.multiplier = state.multiplier)
        BY DEF rounded
    <2> DEFINE a == (F - 1) * count
               b == (F - 1) * more
    <2> HIDE DEF owed, count, more, claim, exact, old
    <2>6. /\ a \in Nat /\ b \in Nat /\ (F - 1) * (count + more) = a + b
          /\ more = 0 => b = 0
          /\ more = 1 => b = F - 1
        BY <2>1, <2>2, <2>5, ProductInNat
    <2> HIDE DEF a, b
    <2>7. claim <= owed /\ owed - claim <= a + b
        BY <2>1, <2>2, <2>3, <2>4, <2>5, <2>6 DEF a
    <2> QED BY <2>6, <2>7 DEF owed, count, more, claim, old
<1> QED BY <1>1, LedgerInvariance, PTL

\* What the contract has promised, the residual included, exceeds what the bank
\* holds for it by less than one unit for each deposit that raised the
\* multiplier.
THEOREM ShortfallStaysBounded == LedgerSpec => []ShortfallBounded
<1>1. LedgerInv => ShortfallBounded
    <2> SUFFICES ASSUME LedgerInv PROVE ShortfallBounded
        OBVIOUS
    <2> DEFINE amounts == [staker \in Stored |-> ledger.owed[staker]]
               owed == ledger.owed
    <2>1. Stored \in SUBSET Stakers
        BY DEF Stored
    <2>2. /\ \A staker \in Stored : amounts[staker] = owed[staker]
          /\ \A staker \in Stakers \ Stored : owed[staker] = 0
        BY DEF LedgerInv, LedgerType
    <2>3. Total(amounts) = Sum(Stored, amounts)
        BY DEF Total, Sum, Blocks, Block
    <2> HIDE DEF amounts, owed
    <2>4. Sum(Stored, amounts) = Sum(Stakers, owed)
        BY <2>1, <2>2, SumOfPart
    <2>5. Total(amounts) = Sum(Stakers, ledger.owed)
        BY <2>3, <2>4 DEF owed
    <2> QED BY <2>5 DEF LedgerInv, Covered, ShortfallBounded, amounts
<1> QED BY <1>1, LedgerInvariance, PTL

=============================================================================
