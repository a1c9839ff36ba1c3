----------------------------- MODULE TokenBucket -----------------------------
(***************************************************************************)
(* What rate_limit gives (README, "Optional rate limiting"): one bucket    *)
(* per source IP, which holds burst requests and refills at a steady rate, *)
(* however limiters are created, shared and evicted; an IP that nothing    *)
(* was let through for in a pause may find its bucket full.                *)
(***************************************************************************)
EXTENDS Integers

CONSTANTS
    IPs,
    Cost,      \* what a request takes out of the bucket
    Refill,    \* what a tick puts back
    Capacity,  \* what the bucket holds
    Pause      \* the ticks after which a bucket may be forgotten

VARIABLES
    clock,
    level,     \* of the bucket of each IP
    used       \* when something was last taken out of it

vars == <<clock, level, used>>

\* A bucket after some ticks.
Filled(tokens, ticks) ==
    IF tokens + Refill * ticks > Capacity THEN Capacity ELSE tokens + Refill * ticks

Init == clock = 0 /\ level = [ip \in IPs |-> Capacity] /\ used = [ip \in IPs |-> 0]

Admit(ip) ==
    /\ level[ip] >= Cost
    /\ level' = [level EXCEPT ![ip] = @ - Cost]
    /\ used' = [used EXCEPT ![ip] = clock]
    /\ UNCHANGED clock

Pass ==
    /\ clock' = clock + 1
    /\ level' = [ip \in IPs |-> Filled(level[ip], 1)]
    /\ UNCHANGED used

\* Buckets at rest are forgotten: they are full again, whatever they held.
Forget(rested) ==
    /\ \A ip \in rested : clock - used[ip] >= Pause
    /\ level' = [ip \in IPs |-> IF ip \in rested THEN Capacity ELSE level[ip]]
    /\ UNCHANGED <<clock, used>>

Next ==
    \/ Pass
    \/ \E ip \in IPs : Admit(ip)
    \/ \E rested \in SUBSET IPs : Forget(rested)

Spec == Init /\ [][Next]_vars
=============================================================================
