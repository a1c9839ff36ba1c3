---------------------------- MODULE MCRateLimiter ----------------------------
(* Instances of RateLimiter for TLC. *)
EXTENDS RateLimiter, TLC

CONSTANTS g1, g2, ip1, ip2, l1, l2, l3

TwoHandlers == {g1, g2}
OneIP == {ip1}
TwoIPs == {ip1, ip2}

\* One for each entry of the map, and a spare: an entry evicted under a handler
\* would need it.
ThreeLimiters == {l1, l2, l3}

\* Requests, addresses and objects are interchangeable.
Symmetry == Permutations(Handlers) \cup Permutations(IPs) \cup Permutations(Limiters)

ASSUME ShortStall
=============================================================================
