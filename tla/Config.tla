------------------------------- MODULE Config -------------------------------
(***************************************************************************)
(* What validate() of internal/config lets through, section by section.    *)
(* The components' assumptions on their constants are stated with it.      *)
(***************************************************************************)
EXTENDS Integers

Positive == Nat \ {0}

\* At least one route, each with a price.
ValidRoutes(routes, price) == routes # {} /\ price \in [routes -> Positive]

\* min_confirmations.  (Hosts and credentials of the backends are not modelled.)
ValidBitcoind(minConf) == minConf \in Nat

\* One backend: the curve needs Lightning.
ValidBackend(lnd, bitcoind, curve) == lnd # bitcoind /\ (curve => lnd)

\* floor_toll_sats, anonymous_cap, escalation_slope and enrollment_stake_sats.
ValidCurve(floor, cap, slope, stake) == {floor, cap, slope, stake} \subseteq Positive

\* requests_per_second (a float: here in units of the model) and burst.
ValidRateLimit(rate, burst) == {rate, burst} \subseteq Positive
=============================================================================
