----------------------------- MODULE LeaseMath -----------------------------
(***************************************************************************)
(* Conversions between lease seconds and deposits, from the terranames     *)
(* package (packages/terranames/src/auction.rs).  A rate is the amount of  *)
(* stablecoin charged per RATE_SEC_DENOM seconds; the source fixes         *)
(* RATE_SEC_DENOM at 86400, the modules here hold for every positive value *)
(* so that TLC can check them with a small one.                            *)
(***************************************************************************)
EXTENDS Integers

CONSTANTS
    RATE_SEC_DENOM,   \* seconds per rate unit
    U64               \* 2^64, the modulus of the cast "as u64"

ASSUME LeaseMathAssumption ==
    /\ RATE_SEC_DENOM \in Nat \ {0}
    /\ U64 \in Nat \ {0}

deposit_from_seconds_floor(seconds, rate) ==
    (rate * seconds) \div RATE_SEC_DENOM

\* Mutant: the rent is rounded down, as in deposit_from_seconds_floor.
ceil_rounded_down(seconds, rate) ==
    (rate * seconds) \div RATE_SEC_DENOM

\* Mutant: every period that has begun is charged in full.
whole_periods_charged(seconds, rate) ==
    ((seconds + RATE_SEC_DENOM - 1) \div RATE_SEC_DENOM) * rate

deposit_from_seconds_ceil(seconds, rate) ==
    (seconds * rate + RATE_SEC_DENOM - 1) \div RATE_SEC_DENOM

\* Only defined for rate # 0: the source answers None for a free name.  The
\* u128 quotient is truncated to u64 without a check.
seconds_from_deposit(deposit, rate) ==
    ((deposit * RATE_SEC_DENOM) \div rate) % U64

\* Uint128::saturating_sub, from cosmwasm_std
saturating_sub(a, b) == IF a >= b THEN a - b ELSE 0
=============================================================================
