------------------------- MODULE TerraTaxTheorems --------------------------
(***************************************************************************)
(* The tax deduction of TerraTax for every tax rate and cap.               *)
(***************************************************************************)
EXTENDS TerraTax, TLAPS

----------------------------------------------------------------------------
(* Quotients and products of natural numbers, which all proofs about       *)
(* rounding rest on.                                                       *)

\* The quotient and the remainder of natural numbers.
LEMMA Quotient ==
    ASSUME NEW a \in Nat, NEW b \in Nat \ {0}
    PROVE  /\ a \div b \in Nat
           /\ b * (a \div b) <= a
           /\ a < b * (a \div b) + b
    OBVIOUS

\* A remainder is at most the number it is taken of, and is that number when
\* that is small: what a truncating cast does.
LEMMA Remainder ==
    ASSUME NEW a \in Nat, NEW b \in Nat \ {0}
    PROVE  /\ a % b \in Nat
           /\ a % b <= a
           /\ a < b => a % b = a
    OBVIOUS

LEMMA ProductInNat ==
    ASSUME NEW a \in Nat, NEW b \in Nat
    PROVE  a * b \in Nat
    OBVIOUS

LEMMA ProductMonotone ==
    ASSUME NEW a \in Nat, NEW b \in Nat, NEW c \in Nat, a <= b
    PROVE  a * c <= b * c
    OBVIOUS

\* Products with the same positive factor are ordered as the other factors.
LEMMA ProductCancel ==
    ASSUME NEW a \in Nat, NEW b \in Nat, NEW c \in Nat
    PROVE  a * c < b * c => a < b
    OBVIOUS

\* m is at most the quotient exactly when it fits in as many times.
LEMMA QuotientAdjunction ==
    ASSUME NEW a \in Nat, NEW b \in Nat \ {0}, NEW m \in Nat
    PROVE  m <= a \div b <=> m * b <= a
<1> DEFINE q == a \div b
<1>1. q \in Nat /\ q * b <= a /\ a < (q + 1) * b
    BY Quotient
<1>2. ASSUME m <= q PROVE m * b <= a
    <2>1. m * b <= q * b
        BY <1>1, <1>2, ProductMonotone
    <2> QED BY <2>1, <1>1, ProductInNat
<1>3. ASSUME m * b <= a PROVE m <= q
    <2>1. m * b < (q + 1) * b
        BY <1>1, <1>3, ProductInNat
    <2>2. m < q + 1
        BY <2>1, <1>1, ProductCancel
    <2> QED BY <2>2, <1>1
<1> QED BY <1>2, <1>3

----------------------------------------------------------------------------
(* The deduction.                                                          *)

\* What a deduction leaves is an amount, and together with the chain's tax on
\* it is never more than the amount the contract means to spend.
THEOREM DeductedTransferFits ==
    ASSUME NEW amount \in Nat
    PROVE  /\ deduct_tax(amount) \in Nat
           /\ deduct_tax(amount) <= amount
           /\ transfer_cost(deduct_tax(amount)) <= amount
<1> DEFINE F == DECIMAL_FRACTION
           T == TaxRate
           q == (amount * F) \div (T + F)
           x == amount - q
           t(s) == (s * T) \div F
<1>1. /\ F \in Nat \ {0} /\ T \in Nat /\ TaxCap \in Nat
      /\ T + F \in Nat \ {0} /\ amount * F \in Nat
    BY TaxAssumption, ProductInNat
<1>2. q \in Nat /\ q * (T + F) <= amount * F
    <2> DEFINE n == amount * F
               m == T + F
               k == n \div m
    <2>1. n \in Nat /\ m \in Nat \ {0}
        BY <1>1
    <2> HIDE DEF n, m
    <2>2. k \in Nat
        BY <2>1, Quotient
    <2> HIDE DEF k
    <2>3. k * m <= n <=> k <= n \div m
        BY <2>1, <2>2, QuotientAdjunction
    <2>4. k <= n \div m
        BY <2>2 DEF k
    <2> QED BY <2>2, <2>3, <2>4 DEF n, m, k
<1>3. /\ q * (T + F) = q * T + q * F /\ q * T \in Nat /\ q * F \in Nat
      /\ x * F = amount * F - q * F /\ x \in Int
    <2> HIDE DEF F, T, q
    <2> QED BY <1>1, <1>2, ProductInNat DEF x
<1>4. q <= amount /\ x \in Nat
    <2>1. q * F <= amount * F
        <3> HIDE DEF F, T, q
        <3> QED BY <1>1, <1>2, <1>3
    <2>2. ~(amount < q)
        <3> HIDE DEF q, F
        <3>1. ASSUME amount < q PROVE amount * F < q * F
            BY <1>1, <1>2, <3>1
        <3> QED BY <3>1, <2>1, <1>1, <1>3
    <2> HIDE DEF q
    <2> QED BY <2>2, <1>2 DEF x
<1>5. t(q) \in Nat /\ t(q) <= x
    <2>1. q * T <= x * F
        <3> HIDE DEF F, T, q, x
        <3> QED BY <1>1, <1>2, <1>3
    <2>2. t(q) \in Nat /\ t(q) * F <= q * T
        <3> HIDE DEF F, T, q, x
        <3> QED BY <1>1, <1>3, Quotient, QuotientAdjunction
    <2> HIDE DEF F, T, q, x, t
    <2>3. t(q) * F < (x + 1) * F
        BY <2>1, <2>2, <1>1, <1>3, <1>4, ProductInNat
    <2>4. t(q) < x + 1
        BY <2>2, <2>3, <1>1, <1>4, ProductCancel
    <2> QED BY <2>2, <2>4, <1>4
<1>6. deduct_tax(amount) = amount - capped(x)
    BY DEF deduct_tax, calculate_tax
<1>7. transfer_cost(deduct_tax(amount)) = deduct_tax(amount) + capped(t(deduct_tax(amount)))
    BY DEF transfer_cost, chain_tax
<1> HIDE DEF F, T, q, t
<1>8. CASE x <= TaxCap
    <2>1. deduct_tax(amount) = q
        BY <1>1, <1>2, <1>6, <1>8 DEF capped, x
    <2>2. capped(t(q)) <= x /\ capped(t(q)) \in Nat
        BY <1>1, <1>5, <1>4, <1>8 DEF capped
    <2> HIDE DEF x
    <2> QED BY <2>1, <2>2, <1>2, <1>4, <1>7 DEF x
<1>9. CASE ~(x <= TaxCap)
    <2>1. capped(x) = TaxCap
        BY <1>9 DEF capped
    <2>2. deduct_tax(amount) = amount - TaxCap /\ amount - TaxCap \in Nat
        BY <2>1, <1>1, <1>2, <1>4, <1>6, <1>9 DEF x
    <2>3. t(amount - TaxCap) \in Nat
        BY <2>2, <1>1, ProductInNat, Quotient DEF t
    <2>4. capped(t(amount - TaxCap)) <= TaxCap
        BY <2>3, <1>1 DEF capped
    <2>5. capped(t(amount - TaxCap)) \in Nat
        BY <2>3, <1>1 DEF capped
    <2> QED BY <2>2, <2>4, <2>5, <1>1, <1>7
<1> QED BY <1>8, <1>9

\* What a message costs is an amount.
LEMMA CostInNat ==
    ASSUME NEW amount \in Nat
    PROVE  transfer_cost(deduct_tax(amount)) \in Nat
<1> DEFINE d == deduct_tax(amount)
<1>1. d \in Nat /\ TaxCap \in Nat /\ TaxRate \in Nat /\ DECIMAL_FRACTION \in Nat \ {0}
    BY DeductedTransferFits, TaxAssumption
<1> HIDE DEF d
<1>2. (d * TaxRate) \div DECIMAL_FRACTION \in Nat
    BY <1>1, ProductInNat, Quotient
<1>3. transfer_cost(d) \in Nat
    BY <1>1, <1>2 DEF transfer_cost, chain_tax, capped
<1> QED BY <1>3 DEF d

\* When the tax is at most the amount itself, what the deduction leaves over is
\* at most two units: one that the deduction loses in rounding down what is
\* left, with the tax on it, and one that the chain's tax loses.
THEOREM DeductedTransferNearlyExact ==
    ASSUME NEW amount \in Nat, TaxRate <= DECIMAL_FRACTION
    PROVE  amount <= transfer_cost(deduct_tax(amount)) + 2
<1> DEFINE F == DECIMAL_FRACTION
           T == TaxRate
           n == amount * F
           m == T + F
           q == n \div m
           x == amount - q
           t(s) == (s * T) \div F
<1>1. /\ F \in Nat \ {0} /\ T \in Nat /\ TaxCap \in Nat /\ T <= F
      /\ m \in Nat \ {0} /\ n \in Nat
    BY TaxAssumption, ProductInNat
<1>2. /\ deduct_tax(amount) = amount - capped(x)
      /\ deduct_tax(amount) \in Nat
      /\ transfer_cost(deduct_tax(amount)) = deduct_tax(amount) + capped(t(deduct_tax(amount)))
    BY DeductedTransferFits DEF deduct_tax, calculate_tax, transfer_cost, chain_tax
<1>3. q \in Nat /\ n < (q + 1) * m
    <2> HIDE DEF n, m
    <2>1. q \in Nat
        BY <1>1, Quotient
    <2>2. q + 1 <= q <=> (q + 1) * m <= n
        BY <1>1, <2>1, QuotientAdjunction
    <2>3. (q + 1) * m \in Nat
        BY <1>1, <2>1, ProductInNat
    <2> HIDE DEF q
    <2> QED BY <1>1, <2>1, <2>2, <2>3
<1>4. ASSUME NEW s \in Nat
      PROVE  t(s) \in Nat /\ s * T \in Nat /\ s * T < (t(s) + 1) * F
    <2> DEFINE p == s * T
               k == p \div F
    <2>1. p \in Nat
        BY <1>1, ProductInNat
    <2> HIDE DEF p, F
    <2>2. k \in Nat
        BY <1>1, <2>1, Quotient
    <2>3. k + 1 <= k <=> (k + 1) * F <= p
        BY <1>1, <2>1, <2>2, QuotientAdjunction
    <2>4. (k + 1) * F \in Nat
        BY <1>1, <2>2, ProductInNat
    <2>5. p < (k + 1) * F
        <3> HIDE DEF k
        <3> QED BY <2>1, <2>2, <2>3, <2>4
    <2> QED BY <2>1, <2>2, <2>5 DEF p
<1>5. x <= t(q) + 2
    <2> DEFINE u == t(q)
    <2>1. u \in Nat /\ q * T \in Nat /\ q * T < (u + 1) * F
        BY <1>3, <1>4
    <2> HIDE DEF u, q, F, T
    <2>2. amount * F < (q + 1) * (T + F)
        BY <1>3 DEF n, m
    <2>3. (q + 1) * (T + F) = q * T + q * F + T + F
        BY <1>1, <1>3
    <2>4. amount * F < (u + 1) * F + q * F + 2 * F
        BY <1>1, <1>3, <2>1, <2>2, <2>3, ProductInNat
    <2>5. (u + 1) * F + q * F + 2 * F = (u + q + 3) * F
        BY <1>1, <1>3, <2>1
    <2>6. amount < u + q + 3
        BY <1>1, <1>3, <2>1, <2>4, <2>5, ProductCancel
    <2>7. amount - q <= u + 2
        BY <1>3, <2>1, <2>6
    <2> QED BY <2>7 DEF u
<1> HIDE DEF n, m, q, t, F, T
<1>6. CASE x <= TaxCap
    <2>1. deduct_tax(amount) = q
        BY <1>2, <1>3, <1>6 DEF capped
    <2>2. capped(t(q)) >= x - 2
        BY <1>1, <1>3, <1>4, <1>5, <1>6 DEF capped
    <2>3. capped(t(q)) \in Nat
        BY <1>1, <1>3, <1>4 DEF capped
    <2> QED BY <1>2, <1>3, <2>1, <2>2, <2>3
<1>7. CASE ~(x <= TaxCap)
    <2> DEFINE d == amount - TaxCap
    <2>1. deduct_tax(amount) = d /\ d \in Nat /\ q <= d
        BY <1>1, <1>2, <1>3, <1>7 DEF capped
    <2>2. t(q) <= t(d)
        <3>1. q * T <= d * T
            BY <1>1, <1>3, <2>1, ProductMonotone
        <3>2. /\ t(q) \in Nat /\ t(d) \in Nat
              /\ d * T \in Nat /\ q * T \in Nat /\ d * T < (t(d) + 1) * F
            BY <1>3, <1>4, <2>1
        <3>3. t(q) * F <= q * T
            <4>1. t(q) <= (q * T) \div F <=> t(q) * F <= q * T
                BY <1>1, <3>2, QuotientAdjunction
            <4> QED BY <4>1, <3>2 DEF t
        <3> HIDE DEF d
        <3>4. t(q) * F < (t(d) + 1) * F
            BY <1>1, <2>1, <3>1, <3>2, <3>3, ProductInNat
        <3> QED BY <1>1, <3>2, <3>4, ProductCancel
    <2>3. t(d) \in Nat /\ t(q) \in Nat
        BY <1>3, <1>4, <2>1
    <2>4. capped(t(d)) >= TaxCap - 1 /\ capped(t(d)) \in Nat
        <3> HIDE DEF d
        <3> QED BY <1>1, <1>3, <1>5, <1>7, <2>2, <2>3 DEF capped
    <2> QED BY <1>1, <1>2, <2>1, <2>4
<1> QED BY <1>6, <1>7

\* No transfer that is two units larger fits in the amount: the deduction takes
\* its own tax off rounded up, which costs the recipient at most one unit.
THEOREM DeductedTransferNearlyLargest ==
    ASSUME NEW amount \in Nat, NEW s \in Nat, transfer_cost(s) <= amount
    PROVE  s <= deduct_tax(amount) + 1
<1> DEFINE F == DECIMAL_FRACTION
           T == TaxRate
           n == amount * F
           m == T + F
           q == n \div m
           x == amount - q
           p == s * T
           u == p \div F
           d == deduct_tax(amount)
<1>1. /\ F \in Nat \ {0} /\ T \in Nat /\ TaxCap \in Nat
      /\ m \in Nat \ {0} /\ n \in Nat /\ p \in Nat
    BY TaxAssumption, ProductInNat
<1>2. d = amount - capped(x) /\ d \in Nat
    BY DeductedTransferFits DEF deduct_tax, calculate_tax
<1>3. s + capped(u) <= amount
    BY DEF transfer_cost, chain_tax
<1>4. q \in Nat /\ n < m * q + m
    <2> HIDE DEF n, m
    <2> QED BY <1>1, Quotient
<1>5. u \in Nat /\ p < F * u + F
    <2> HIDE DEF p, F
    <2> QED BY <1>1, Quotient
<1> HIDE DEF q, u, d
\* Were s two units larger than what is sent, its tax would not fit ...
<1>6. ASSUME s >= q + 2 PROVE amount < s + u
    <2>1. (q + 2) * m <= s * m
        BY <1>1, <1>4, <1>6, ProductMonotone DEF m
    <2>2. s * m = p + s * F /\ m * q + m + m = (q + 2) * m
        <3> HIDE DEF F, T
        <3> QED BY <1>1, <1>4 DEF m, p
    <2>3. F <= m
        BY <1>1 DEF m
    <2>4. n + F < p + s * F
        <3> HIDE DEF n, m, p, F
        <3> QED BY <1>1, <1>4, <2>1, <2>2, <2>3, ProductInNat
    <2>5. n + F < F * u + F + s * F
        <3> HIDE DEF n, p, F
        <3> QED BY <1>1, <1>5, <2>4, ProductInNat
    <2>6. amount * F < (s + u) * F
        <3> HIDE DEF F
        <3> QED BY <1>1, <1>5, <2>5, ProductInNat DEF n
    <2> HIDE DEF F
    <2> QED BY <1>1, <1>5, <2>6, ProductCancel
\* ... nor would the cap on it.
<1>7. ASSUME s >= d + 2
      PROVE  s >= q + 2 /\ amount < s + TaxCap
    BY <1>1, <1>2, <1>4, <1>7 DEF capped, x
<1>8. ASSUME s >= d + 2 PROVE amount < s + capped(u)
    BY <1>1, <1>5, <1>6, <1>7, <1>8 DEF capped
<1>9. capped(u) \in Nat
    BY <1>1, <1>5 DEF capped
<1>10. ~(s >= d + 2)
    BY <1>3, <1>8, <1>9
<1> QED BY <1>2, <1>10 DEF d

=============================================================================
