------------------------------ MODULE MCOnchain ------------------------------
(* Instances of Onchain for TLC. *)
EXTENDS Onchain, TLC

CONSTANTS g1, g2, a1, a2, cheap, dear

OneHandler == {g1}
TwoHandlers == {g1, g2}
OneAddr == {a1}
TwoAddrs == {a1, a2}
DearRoute == {dear}
TwoRoutes == {cheap, dear}

\* One satoshi on the cheap route, two on the dear one.
MCPrice == [r \in Routes |-> IF r = dear THEN 2 ELSE 1]

\* Requests are interchangeable, and so are addresses.
Symmetry == Permutations(Handlers) \cup Permutations(Addr)
=============================================================================
