--------------------------- MODULE RoundingProofs ---------------------------
(***************************************************************************)
(* The properties of Rounding, for all of its inputs: every amount, lease  *)
(* rate, tax rate and tax cap, without a bound but that of 64 bits on the  *)
(* seconds of a lease.                                                     *)
(***************************************************************************)
EXTENDS Rounding, TLAPS

\* What is proved of the tax deduction, for the tax rate and cap that are tried.
Facts == INSTANCE TerraTaxTheorems WITH TaxRate <- tax_rate, TaxCap <- tax_cap

InputTypes ==
    /\ amount \in 0 .. MaxAmount
    /\ rate \in 1 .. MaxRate
    /\ tax_rate \in Nat
    /\ tax_cap \in Nat

LEMMA InputTypesInvariance == Spec => []InputTypes
<1>1. Init => InputTypes
    BY RoundingAssumption DEF Init, InputTypes
<1>2. InputTypes /\ [Next]_inputs => InputTypes'
    <2>1. ASSUME InputTypes PROVE (amount + 1) % (MaxAmount + 1) \in 0 .. MaxAmount
        BY <2>1, RoundingAssumption DEF InputTypes
    <2> QED BY <2>1 DEF InputTypes, Next, inputs
<1> QED BY <1>1, <1>2, PTL DEF Spec

\* The theorems are about these inputs.
LEMMA InputsInNat ==
    ASSUME InputTypes
    PROVE  /\ amount \in Nat /\ rate \in Nat \ {0} /\ tax_rate \in Nat /\ tax_cap \in Nat
           /\ amount <= MaxAmount
           /\ DECIMAL_FRACTION \in Nat \ {0} /\ MaxAmount \in Nat
           /\ RATE_SEC_DENOM \in Nat \ {0} /\ U64 \in Nat \ {0}
    BY RoundingAssumption, LeaseMathAssumption DEF InputTypes

----------------------------------------------------------------------------
(* The tax.                                                                *)

LEMMA SameTax ==
    /\ sent = Facts!deduct_tax(amount)
    /\ \A s : cost_of(s) = Facts!transfer_cost(s)
<1>1. sent = Facts!deduct_tax(amount)
    BY DEF sent, Tax!deduct_tax, Tax!calculate_tax, Tax!capped,
           Facts!deduct_tax, Facts!calculate_tax, Facts!capped
<1>2. ASSUME NEW s PROVE cost_of(s) = Facts!transfer_cost(s)
    BY DEF cost_of, Tax!transfer_cost, Tax!chain_tax, Tax!capped,
           Facts!transfer_cost, Facts!chain_tax, Facts!capped
<1> QED BY <1>1, <1>2

\* What a contract sends and the tax on it fit in what it means to spend, for
\* every amount, tax rate and cap (terra.rs, deduct_tax).
THEOREM TransfersFit == Spec => []TransferFits
<1>1. InputTypes => TransferFits
    <2> SUFFICES ASSUME InputTypes PROVE TransferFits
        OBVIOUS
    <2>1. Facts!transfer_cost(Facts!deduct_tax(amount)) <= amount
        BY InputsInNat, Facts!DeductedTransferFits
    <2> QED BY <2>1, SameTax DEF TransferFits
<1> QED BY <1>1, InputTypesInvariance, PTL

\* The recipient gets what is left of the amount after tax: at most one unit
\* more could have been sent, for every amount, tax rate and cap.
THEOREM TransfersNearlyLargest == Spec => []TransferNearlyLargest
<1>1. InputTypes => TransferNearlyLargest
    <2> SUFFICES ASSUME InputTypes, NEW s \in 0 .. amount, cost_of(s) <= amount
                 PROVE  s <= sent + 1
        BY DEF TransferNearlyLargest
    <2>1. s \in Nat /\ Facts!transfer_cost(s) <= amount
        BY InputsInNat, SameTax
    <2>2. s <= Facts!deduct_tax(amount) + 1
        BY <2>1, InputsInNat, Facts!DeductedTransferNearlyLargest
    <2> QED BY <2>2, SameTax
<1> QED BY <1>1, InputTypesInvariance, PTL

----------------------------------------------------------------------------
(* The lease arithmetic.                                                   *)

\* The rent, rounded up, is within an amount exactly when the amount pays for
\* all of it.
LEMMA CeilFits ==
    ASSUME InputTypes, NEW s \in Nat, NEW d \in Nat
    PROVE  /\ deposit_from_seconds_ceil(s, rate) \in Nat
           /\ deposit_from_seconds_ceil(s, rate) <= d <=> s * rate <= d * RATE_SEC_DENOM
<1> DEFINE D == RATE_SEC_DENOM
           p == s * rate
           c == (p + D - 1) \div D
<1>1. D \in Nat \ {0} /\ p \in Nat /\ p + D - 1 \in Nat /\ d + 1 \in Nat
    BY InputsInNat, Facts!ProductInNat
<1>2. c \in Nat
    BY <1>1, InputsInNat, Facts!Quotient
<1>3. d + 1 <= c <=> (d + 1) * D <= p + D - 1
    <2> HIDE DEF p, D
    <2> QED BY <1>1, InputsInNat, Facts!QuotientAdjunction
<1>4. (d + 1) * D = d * D + D /\ d * D \in Nat
    BY <1>1, InputsInNat, Facts!ProductInNat
<1>5. c <= d <=> p <= d * D
    <2> HIDE DEF p, c, D
    <2> QED BY <1>1, <1>2, <1>3, <1>4
<1> QED BY <1>2, <1>5 DEF deposit_from_seconds_ceil

\* The two roundings of the rent differ by one unit, unless it is whole.
LEMMA CeilIsFloorOrNext ==
    ASSUME InputTypes, NEW s \in Nat
    PROVE  deposit_from_seconds_ceil(s, rate) - deposit_from_seconds_floor(s, rate)
             = IF (s * rate) % RATE_SEC_DENOM = 0 THEN 0 ELSE 1
<1> DEFINE D == RATE_SEC_DENOM
           p == s * rate
           f == deposit_from_seconds_floor(s, rate)
           c == deposit_from_seconds_ceil(s, rate)
<1>1. D \in Nat \ {0} /\ p \in Nat
    BY InputsInNat, Facts!ProductInNat
<1>2. f \in Nat /\ f * D <= p /\ p < f * D + D /\ p % D = p - f * D
    <2>1. f = p \div D
        <3>1. rate * s = s * rate
            BY InputsInNat
        <3> QED BY <3>1 DEF deposit_from_seconds_floor
    <2> HIDE DEF f, p, D
    <2>2. p = D * (p \div D) + (p % D) /\ p % D \in 0 .. D - 1 /\ p \div D \in Nat
        BY <1>1
    <2> QED BY <1>1, <2>1, <2>2
<1>3. c \in Nat
    BY CeilFits
<1>4. \A d \in Nat : c <= d <=> p <= d * D
    BY CeilFits
<1> HIDE DEF f, c, p, D
<1>5. (f + 1) * D = f * D + D /\ f * D \in Nat
    BY <1>1, <1>2
<1>6. c <= f + 1 /\ (c <= f <=> p % D = 0)
    BY <1>1, <1>2, <1>4, <1>5
<1>7. ~(c < f)
    <2> SUFFICES ASSUME c < f PROVE FALSE
        OBVIOUS
    <2>1. p <= c * D
        BY <1>3, <1>4
    <2>2. c * D < f * D /\ c * D \in Nat
        BY <1>1, <1>2, <1>3
    <2> QED BY <1>1, <1>2, <2>1, <2>2
<1>8. c - f = IF p % D = 0 THEN 0 ELSE 1
    BY <1>2, <1>3, <1>6, <1>7
<1> QED BY <1>8 DEF c, f, p, D

\* The time that an amount buys, cut to 64 bits, is the quotient.
LEMMA SecondsAreQuotient ==
    ASSUME InputTypes
    PROVE  /\ (amount * RATE_SEC_DENOM) \div rate \in Nat
           /\ seconds_from_deposit(amount, rate) = (amount * RATE_SEC_DENOM) \div rate
<1> DEFINE p == amount * RATE_SEC_DENOM
           q == p \div rate
<1>1. p \in Nat /\ p < U64
    <2>1. amount * RATE_SEC_DENOM <= MaxAmount * RATE_SEC_DENOM
        BY InputsInNat, Facts!ProductMonotone
    <2>2. p \in Nat /\ MaxAmount * RATE_SEC_DENOM \in Nat
        BY InputsInNat, Facts!ProductInNat
    <2> QED BY <2>1, <2>2, InputsInNat, RoundingAssumption
<1>2. q \in Nat /\ q <= p
    <2> HIDE DEF p
    <2>1. q \in Nat /\ rate * q <= p
        BY <1>1, InputsInNat, Facts!Quotient
    <2> HIDE DEF q
    <2>2. q <= rate * q
        BY <2>1, InputsInNat
    <2> QED BY <1>1, <2>1, <2>2, InputsInNat
<1>3. q % U64 = q
    <2> HIDE DEF p, q
    <2> QED BY <1>1, <1>2, InputsInNat
<1> QED BY <1>2, <1>3 DEF seconds_from_deposit

\* The time that a deposit buys is the longest whose rent the deposit covers,
\* and the rent rounded up is at most one unit over the rent rounded down, for
\* every deposit and rate (auction.rs, seconds_from_deposit and the two
\* conversions back).
THEOREM RoundingsAlwaysAgree == Spec => []RoundingsAgree
<1>1. InputTypes => RoundingsAgree
    <2> SUFFICES ASSUME InputTypes, NEW s \in 0 .. MaxAmount
                 PROVE  /\ s <= seconds_from_deposit(amount, rate)
                             <=> deposit_from_seconds_ceil(s, rate) <= amount
                        /\ deposit_from_seconds_ceil(s, rate)
                             - deposit_from_seconds_floor(s, rate)
                               = IF (s * rate) % RATE_SEC_DENOM = 0 THEN 0 ELSE 1
        BY DEF RoundingsAgree
    <2> DEFINE p == amount * RATE_SEC_DENOM
    <2>1. p \in Nat /\ s \in Nat
        BY InputsInNat, Facts!ProductInNat
    <2>2. s <= p \div rate <=> s * rate <= p
        <3> HIDE DEF p
        <3> QED BY <2>1, InputsInNat, Facts!QuotientAdjunction
    <2>3. deposit_from_seconds_ceil(s, rate) <= amount <=> s * rate <= p
        BY <2>1, InputsInNat, CeilFits
    <2> QED BY <2>1, <2>2, <2>3, SecondsAreQuotient, CeilIsFloorOrNext
<1> QED BY <1>1, InputTypesInvariance, PTL

=============================================================================
