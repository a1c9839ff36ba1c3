------------------------------- MODULE Pricing -------------------------------
(***************************************************************************)
(* internal/payment/pricing.go: the price of the nth request under a       *)
(* staked credential.  (Amounts small enough that int64 does not wrap.)    *)
(***************************************************************************)
EXTENDS Integers

\* Wrong: the escalation starts one request late.
CurvePriceLate(n, floor, slope) == IF n <= 2 THEN floor ELSE floor + slope * (n - 2)

CurvePrice(n, floor, slope) == IF n <= 1 THEN floor ELSE floor + slope * (n - 1)
=============================================================================
