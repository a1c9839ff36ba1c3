--------------------------- MODULE MCPaywallWidget ---------------------------
(* Instances of PaywallWidget for TLC. *)
EXTENDS PaywallWidget, TLC

CONSTANTS c1, c2, i1, i2

TwoCalls == {c1, c2}
TwoInvoices == {i1, i2}
=============================================================================
