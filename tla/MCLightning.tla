----------------------------- MODULE MCLightning -----------------------------
(* Instances of Lightning for TLC. *)
EXTENDS Lightning, TLC

CONSTANTS g1, g2, ip1, h1, h2, h3, h4, p1, p2, cheap, dear

OneHandler == {g1}
TwoHandlers == {g1, g2}
OneIP == {ip1}
CheapRoute == {cheap}
TwoRoutes == {cheap, dear}
ThreeHashes == {h1, h2, h3}
FourHashes == {h1, h2, h3, h4}
OnePrincipal == {p1}
TwoPrincipals == {p1, p2}

\* One satoshi on the cheap route, two on the dear one.
MCPrice == [r \in Routes |-> IF r = dear THEN 2 ELSE 1]

\* Requests, payment hashes and principals are interchangeable.
Symmetry == Permutations(Handlers) \cup Permutations(Hashes) \cup Permutations(Principals)
=============================================================================
