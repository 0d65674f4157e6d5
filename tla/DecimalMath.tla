---------------------------- MODULE DecimalMath ----------------------------
(***************************************************************************)
(* Fixed-point arithmetic of the protocol.  A Decimal of the Radix engine  *)
(* is an integer number of attos: the real number x is the integer x * ONE *)
(* (ONE = 10^18 in the build).  Products and quotients of Decimals drop    *)
(* the digits beyond the last atto, towards zero.  The interest formulas   *)
(* of common/src/utils.rs are built on them.  A token whose divisibility   *)
(* is d has amounts that are multiples of a "unit" of 10^(18-d) attos.     *)
(*                                                                         *)
(* ONE and EPOCH_OF_YEAR are parameters so that small instances keep the   *)
(* truncations and the compounding visible.                                *)
(***************************************************************************)
EXTENDS Integers

CONSTANTS ONE,              \* attos in 1.0
          EPOCH_OF_YEAR     \* epochs in which one yearly rate accrues

ASSUME DecimalAssumption == ONE \in Nat \ {0} /\ EPOCH_OF_YEAR \in Nat \ {0}

Magnitude(x) == IF x < 0 THEN -x ELSE x
Sign(x) == IF x < 0 THEN -1 ELSE 1

\* Integer quotient rounded towards zero (\div rounds towards -infinity).
TruncDiv(a, b) == Sign(a) * Sign(b) * (Magnitude(a) \div Magnitude(b))

\* Decimal::checked_mul and Decimal::checked_div.
DMul(a, b) == TruncDiv(a * b, ONE)
DDiv(a, b) == TruncDiv(a * ONE, b)

\* Decimal::checked_powi on a non-negative exponent: square and multiply, so
\* that the truncations happen where the engine makes them.
Pow[n \in Nat] ==
    [x \in Int |->
        IF n = 0 THEN ONE
        ELSE IF n = 1 THEN x
        ELSE LET squares == Pow[n \div 2][DMul(x, x)]
             IN  IF n % 2 = 0 THEN squares ELSE DMul(x, squares)]

\* floor and ceil to a number of digits, i.e. to a multiple of the unit.
FloorTo(x, unit) == unit * (x \div unit)
CeilTo(x, unit) == -FloorTo(-x, unit)

\* Rounded towards zero, as take_advanced(.., TO_ZERO) does.
TruncTo(x, unit) == unit * TruncDiv(x, unit)

IsMultiple(x, unit) == x % unit = 0

PrecentMul(dec, precent) == DDiv(DMul(dec, precent), 100 * ONE)

----------------------------------------------------------------------------
(* Interest.  apy is a Decimal, delta_epoch a plain number of epochs.      *)

CalcLinearRate(apy, delta_epoch) == TruncDiv(apy * delta_epoch, EPOCH_OF_YEAR)

CalcLinearInterest(amount, apy, delta_epoch) ==
    DMul(amount, ONE + CalcLinearRate(apy, delta_epoch))

CalcCompoundRate(apy, delta_epoch) ==
    Pow[delta_epoch][ONE + TruncDiv(apy, EPOCH_OF_YEAR)]

CalcCompoundInterest(amount, apy, delta_epoch) ==
    DMul(amount, CalcCompoundRate(apy, delta_epoch))

\* What amount, due in delta_epoch epochs, is worth now.
CalcPrincipal(amount, apy, delta_epoch) ==
    DDiv(amount, CalcCompoundRate(apy, delta_epoch))

\* Average of two rates weighted by the amounts they apply to.
GetWeightRate(amount, rate, new_amount, new_rate) ==
    DDiv(DMul(amount, rate) + DMul(new_amount, new_rate), amount + new_amount)
=============================================================================
