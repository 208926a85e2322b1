------------------------------ MODULE TerraTax ------------------------------
(***************************************************************************)
(* The transfer tax of the Terra chain and the way the contracts deduct it *)
(* from what they send (packages/terranames/src/terra.rs).  The tax rate   *)
(* is a Decimal: TaxRate atomics over DECIMAL_FRACTION.  The rate and the  *)
(* cap come from the chain's treasury; one value of each is fixed here.  A *)
(* stablecoin denomination that is exempt ("uluna") is TaxRate = 0.        *)
(***************************************************************************)
EXTENDS Integers

CONSTANTS
    DECIMAL_FRACTION,   \* 10^18 in the source
    TaxRate,            \* tax rate in DECIMAL_FRACTION-ths
    TaxCap              \* largest tax on one transfer

ASSUME TaxAssumption ==
    /\ DECIMAL_FRACTION \in Nat \ {0}
    /\ TaxRate \in Nat
    /\ TaxCap \in Nat

capped(tax) == IF tax <= TaxCap THEN tax ELSE TaxCap

\* Mutant: the tax is taken on the amount before the deduction.
tax_on_whole_amount(amount) == capped((amount * TaxRate) \div DECIMAL_FRACTION)

\* Tax that is subtracted from the sent amount: a * (1 - 1 / (rate + 1)).
calculate_tax(amount) ==
    capped(amount - (amount * DECIMAL_FRACTION) \div (TaxRate + DECIMAL_FRACTION))

\* Mutant: nothing is deducted, the tax comes on top of the amount.
tax_on_top(amount) == amount

\* What a contract puts in a message so that the amount and the tax on it
\* fit in the amount it means to spend.
deduct_tax(amount) == amount - calculate_tax(amount)

\* What the chain takes on top of a transfer (the Terra treasury, external).
chain_tax(sent) == capped((sent * TaxRate) \div DECIMAL_FRACTION)

\* What a transfer costs the contract that sends it.
transfer_cost(sent) == sent + chain_tax(sent)
=============================================================================
