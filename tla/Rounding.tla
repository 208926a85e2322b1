------------------------------ MODULE Rounding ------------------------------
(***************************************************************************)
(* The arithmetic of LeaseMath and TerraTax against reference definitions, *)
(* over bounded inputs: every amount is tried with every lease rate, tax   *)
(* rate and tax cap.                                                       *)
(***************************************************************************)
EXTENDS LeaseMath

CONSTANTS
    DECIMAL_FRACTION,
    MaxAmount, MaxRate, MaxTaxRate, MaxTaxCap   \* bounds of the inputs

ASSUME RoundingAssumption ==
    /\ DECIMAL_FRACTION \in Nat \ {0}
    /\ {MaxAmount, MaxRate, MaxTaxRate, MaxTaxCap} \subseteq Nat
    /\ MaxAmount * RATE_SEC_DENOM < U64   \* the seconds fit in 64 bits

VARIABLES amount, rate, tax_rate, tax_cap

inputs == <<amount, rate, tax_rate, tax_cap>>

Tax(r, c) == INSTANCE TerraTax WITH TaxRate <- r, TaxCap <- c

Init ==
    /\ amount = 0
    /\ rate \in 1 .. MaxRate
    /\ tax_rate \in 0 .. MaxTaxRate
    /\ tax_cap \in 0 .. MaxTaxCap

Next ==
    /\ amount' = (amount + 1) % (MaxAmount + 1)
    /\ UNCHANGED <<rate, tax_rate, tax_cap>>

Spec == Init /\ [][Next]_inputs

----------------------------------------------------------------------------
(* Properties.                                                             *)

sent == Tax(tax_rate, tax_cap)!deduct_tax(amount)

cost_of(s) == Tax(tax_rate, tax_cap)!transfer_cost(s)

\* The amount a contract puts in a message and the tax the chain adds to it
\* fit in the amount it means to spend (terra.rs, deduct_tax): a contract that
\* sends what it was just sent never needs money of its own.
TransferFits == cost_of(sent) <= amount

\* At most one unit more could have been sent: the recipient gets what is
\* left of the amount after tax.
TransferNearlyLargest ==
    \A s \in 0 .. amount : cost_of(s) <= amount => s <= sent + 1

\* The time a deposit buys, rounded down, is the longest time whose rent,
\* rounded up, the deposit covers; the two roundings of the rent differ by one
\* unit exactly when the rent is not whole.
RoundingsAgree ==
    \A seconds \in 0 .. MaxAmount :
        /\ seconds <= seconds_from_deposit(amount, rate)
             <=> deposit_from_seconds_ceil(seconds, rate) <= amount
        /\ deposit_from_seconds_ceil(seconds, rate)
             - deposit_from_seconds_floor(seconds, rate)
               = IF (seconds * rate) % RATE_SEC_DENOM = 0 THEN 0 ELSE 1

=============================================================================
