----------------------------- MODULE Tolerance -----------------------------
(***************************************************************************)
(* The within-tolerance predicates (core/tolerance.py), exactly.           *)
(*                                                                         *)
(* The code computes on decimals; here amounts, prices and quantities are  *)
(* integers in their smallest unit and a basis-point threshold is an       *)
(* integer number of BpsUnit-ths, so every comparison is exact.  A         *)
(* difference equal to its threshold is within tolerance.                  *)
(***************************************************************************)
EXTENDS Integers

CONSTANTS BpsUnit,    \* what one is, in the units thresholds are given in
          QtyBps      \* the profile's quantity allowance: matching and comparison
                      \* both take it

ASSUME BpsUnitAssumption == BpsUnit \in Nat \ {0}
ASSUME QtyBpsAssumption == QtyBps \in Nat

Abs(n) == IF n < 0 THEN -n ELSE n

\* The larger magnitude of the two: neither side is the reference.
Larger(left, right) == IF Abs(left) >= Abs(right) THEN Abs(left) ELSE Abs(right)

\* The relative difference as a fraction <<numerator, denominator>>; zero
\* when both sides are zero.
Relative(left, right) ==
    IF Larger(left, right) = 0 THEN <<0, 1>>
    ELSE <<Abs(right - left), Larger(left, right)>>

\* A bug the checks must catch: the allowance is taken of the left side.
WithinBpsOfLeft(left, right, bps) == Abs(right - left) * BpsUnit <= bps * Abs(left)

WithinBps(left, right, bps) == Abs(right - left) * BpsUnit <= bps * Larger(left, right)

\* Fractions with positive denominators, in order.
FractionLess(a, b) == a[1] * b[2] < b[1] * a[2]

=============================================================================
