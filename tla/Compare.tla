------------------------------ MODULE Compare ------------------------------
(***************************************************************************)
(* Comparing the two records of a pair, field by field (core/compare.py).  *)
(* Instrument and side are one value, the record's bucket, as in Matching; *)
(* a difference keeps whether it is there and whether it is within         *)
(* tolerance, which is all the verdict and the worklist depend on.         *)
(***************************************************************************)
EXTENDS Tolerance

CONSTANTS AmountBps, AmountFloor,   \* the profile's amount allowances
          PriceBps,                 \* that of the price
          TimeTolerance             \* and of the booking time, in seconds

ASSUME ProfileAssumption == {AmountBps, AmountFloor, PriceBps, TimeTolerance} \subseteq Nat

Exact(l, r) == [differs |-> l # r, within_tolerance |-> l = r]

Measured(l, r, within) == [differs |-> l # r, within_tolerance |-> within]

\* The floor or the relative allowance, whichever is greater.
WithinAmount(l, r) == Abs(r - l) <= AmountFloor \/ WithinBps(l, r, AmountBps)

FieldDiffs(l, r) ==
    [occurred_at  |-> Measured(l.time, r.time, Abs(r.time - l.time) <= TimeTolerance),
     bucket       |-> Exact(l.bucket, r.bucket),
     quantity     |-> Measured(l.quantity, r.quantity, WithinBps(l.quantity, r.quantity, QtyBps)),
     unit_price   |-> Measured(l.price, r.price, WithinBps(l.price, r.price, PriceBps)),
     gross_amount |-> Measured(l.amount, r.amount, WithinAmount(l.amount, r.amount)),
     status       |-> Exact(l.status, r.status)]

\* Anything outside tolerance is a break; otherwise any difference at all
\* is drift.
Verdict(diffs) ==
    IF \E f \in DOMAIN diffs : ~diffs[f].within_tolerance THEN "break"
    ELSE IF \E f \in DOMAIN diffs : diffs[f].differs THEN "agreed_with_drift"
    ELSE "agreed"

=============================================================================
