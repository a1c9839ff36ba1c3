------------------------------ MODULE CostCurve ------------------------------
(***************************************************************************)
(* What the curve costs a client who may abandon a credential and stake    *)
(* another at any moment: the prices of serveMetered (internal/proxy)      *)
(* against the formulas of examples/cost-calculator.                       *)
(*                                                                         *)
(* A request is challenged at the price of the count it finds, and the     *)
(* challenge is redeemed whenever its client likes: nothing ties it to the *)
(* count, or to the credential, that it was priced by.  Every request is   *)
(* made under a credential: the calculator has no anonymous tier.          *)
(***************************************************************************)
EXTENDS Pricing, Config

CONSTANTS
    Floor,           \* floor_toll_sats
    Slope,           \* escalation_slope
    Stake,           \* enrollment_stake_sats
    Slots,           \* where a client keeps the challenges it has not redeemed
    MaxRequests,     \* bound: requests in all
    MaxCredentials,  \* bound: credentials in all
    None             \* no credential yet, no challenge

VARIABLES
    count,    \* RequestCount of the credential in use
    offers,   \* nextN of each unredeemed challenge, which fixed its price
    served,   \* requests forwarded, under any credential
    enrolled, \* credentials staked
    paid,     \* satoshis paid for them, stakes included
    prompt    \* history: every challenge was redeemed at the count that priced it

vars == <<count, offers, served, enrolled, paid, prompt>>

ASSUME CurveAssumption ==
    /\ ValidCurve(Floor, 1, Slope, Stake)
    /\ {MaxRequests, MaxCredentials} \subseteq Nat
    /\ None \notin Nat

TypeOK ==
    /\ count \in Nat \cup {None}
    /\ offers \in [Slots -> Positive \cup {None}]
    /\ {served, enrolled, paid} \subseteq Nat
    /\ prompt \in BOOLEAN

Init ==
    /\ count = None
    /\ offers = [s \in Slots |-> None]
    /\ served = 0
    /\ enrolled = 0
    /\ paid = 0
    /\ prompt = TRUE

\* Wrong: the first request is meant to be free of the count.
EnrollUncounted ==
    /\ enrolled < MaxCredentials
    /\ count' = -1
    /\ enrolled' = enrolled + 1
    /\ paid' = paid + Stake
    /\ UNCHANGED <<offers, served, prompt>>

\* The stake buys a credential with a new record; an old one is dropped, the
\* challenges it was given are not.
Enroll ==
    /\ enrolled < MaxCredentials
    /\ count' = 0
    /\ enrolled' = enrolled + 1
    /\ paid' = paid + Stake
    /\ UNCHANGED <<offers, served, prompt>>

\* A request without a token: a challenge at the price of nextN.
Challenge(s) ==
    /\ count # None
    /\ offers' = [offers EXCEPT ![s] = count + 1]
    /\ UNCHANGED <<count, served, enrolled, paid, prompt>>

\* A request with the paid token of any challenge.  It is counted at the count it
\* finds; what it paid was fixed before.
Request(s) ==
    /\ count # None
    /\ offers[s] # None
    /\ served < MaxRequests
    /\ paid' = paid + CurvePrice(offers[s], Floor, Slope)
    /\ count' = count + 1
    /\ offers' = [offers EXCEPT ![s] = None]
    /\ served' = served + 1
    /\ prompt' = (prompt /\ offers[s] = count + 1)
    /\ UNCHANGED enrolled

Next == Enroll \/ \E s \in Slots : Challenge(s) \/ Request(s)

Spec == Init /\ [][Next]_vars

-----------------------------------------------------------------------------
(* Properties *)

\* curveCum of the calculator, which takes n requests under one credential.
CurveCum(n) == Floor * n + (Slope * n * (n - 1)) \div 2

\* What the calculator plots is the most that a client with one credential has
\* paid, and exactly what one has paid that redeems each challenge at its count.
CumulativeAsPlotted ==
    enrolled = 1 =>
        /\ paid <= Stake + CurveCum(count)
        /\ prompt => paid = Stake + CurveCum(count)

\* Of a client that redeems each challenge at its count, no way of splitting the
\* requests over credentials makes them cheaper than the floor plus k escalations
\* each, while the stake is worth k * (k + 1) / 2 of them.
ResetFloor ==
    prompt =>
        \A k \in 0..Stake : Slope * k * (k + 1) <= 2 * Stake =>
            paid >= (Floor + Slope * k) * served

\* The calculator's "floor no reset strategy can beat": floor + sqrt(2*stake*slope)
\* a request, squared to keep to integers.
AdvertisedFloor == prompt => (paid - Floor * served)^2 >= 2 * Stake * Slope * served^2
=============================================================================
