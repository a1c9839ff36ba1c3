--------------------------- MODULE CostCurveProofs ---------------------------
(***************************************************************************)
(* Proofs about CostCurve, for any floor, slope and stake and any number   *)
(* of requests and credentials.                                            *)
(***************************************************************************)
EXTENDS CostCurve, TLAPS

USE DEF ValidCurve, Positive

\* The (n + 1)st request under a credential costs n escalations over the floor.
LEMMA NextPrice ==
    ASSUME NEW n \in Nat
    PROVE  CurvePrice(n + 1, Floor, Slope) = Floor + Slope * n
<1>1. CASE n = 0
  BY <1>1, CurveAssumption DEF CurvePrice
<1>2. CASE n # 0
  BY <1>2, CurveAssumption DEF CurvePrice
<1> QED
  BY <1>1, <1>2

\* Prices are naturals.
LEMMA PriceType ==
    ASSUME NEW n \in Positive
    PROVE  CurvePrice(n, Floor, Slope) = Floor + Slope * (n - 1) /\ Slope * (n - 1) \in Nat
<1>1. n - 1 \in Nat /\ n = (n - 1) + 1
  OBVIOUS
<1>2. Slope * (n - 1) \in Nat
  BY <1>1, CurveAssumption
<1> QED
  BY <1>1, <1>2, NextPrice

\* Counts and amounts are naturals: a credential starts at 0 and only grows.
THEOREM TypeCorrect == Spec => []TypeOK
<1>1. Init => TypeOK
  BY DEF Init, TypeOK
<1>2. ASSUME TypeOK, [Next]_vars PROVE TypeOK'
  <2>1. CASE Enroll
    BY <1>2, <2>1, CurveAssumption DEF Enroll, TypeOK
  <2>2. ASSUME NEW s \in Slots, Challenge(s) PROVE TypeOK'
    <3>1. count + 1 \in Positive
      BY <1>2, <2>2 DEF Challenge, TypeOK
    <3> QED
      BY <1>2, <2>2, <3>1 DEF Challenge, TypeOK
  <2>3. ASSUME NEW s \in Slots, Request(s) PROVE TypeOK'
    <3>1. count \in Nat /\ offers[s] \in Positive
      BY <1>2, <2>3 DEF Request, TypeOK
    <3>2. CurvePrice(offers[s], Floor, Slope) \in Nat
      BY <3>1, PriceType, CurveAssumption
    <3> QED
      BY <1>2, <2>3, <3>1, <3>2 DEF Request, TypeOK
  <2>4. CASE UNCHANGED vars
    BY <1>2, <2>4 DEF vars, TypeOK
  <2> QED
    BY <1>2, <2>1, <2>2, <2>3, <2>4 DEF Next
<1> QED
  BY <1>1, <1>2, PTL DEF Spec

-----------------------------------------------------------------------------
(* The plotted cumulative cost *)

\* One more request under a credential adds its price to the closed form.
LEMMA CurveCumStep ==
    ASSUME NEW n \in Nat
    PROVE  CurveCum(n + 1) = CurveCum(n) + Floor + Slope * n
<1> DEFINE x == Slope * n * (n - 1)
           y == Slope * n
<1>1. x \in Int /\ y \in Int /\ Floor * n \in Int /\ Floor \in Int
  BY CurveAssumption
<1>2. Slope * (n + 1) * ((n + 1) - 1) = x + 2 * y
  BY CurveAssumption
<1>3. (x + 2 * y) \div 2 = x \div 2 + y
  <2> HIDE DEF x, y
  <2> QED
    BY <1>1
<1>4. Floor * (n + 1) = Floor * n + Floor
  BY CurveAssumption
<1>5. CurveCum(n + 1) = Floor * n + Floor + (x \div 2 + y)
  BY <1>2, <1>3, <1>4 DEF CurveCum
<1>6. CurveCum(n) = Floor * n + x \div 2
  BY DEF CurveCum
<1>7. x \div 2 \in Int
  <2> HIDE DEF x
  <2> QED
    BY <1>1
<1> HIDE DEF x
<1> QED
  BY <1>1, <1>5, <1>6, <1>7

\* A later request under a credential is no cheaper.
LEMMA PricesGrow ==
    ASSUME NEW n \in Positive, NEW c \in Nat, n <= c + 1
    PROVE  CurvePrice(n, Floor, Slope) <= Floor + Slope * c
<1>1. PICK d \in Nat : c = (n - 1) + d
  <2>1. c - (n - 1) \in Nat /\ c = (n - 1) + (c - (n - 1))
    OBVIOUS
  <2> QED
    BY <2>1
<1>2. Slope * c = Slope * (n - 1) + Slope * d /\ Slope * d \in Nat /\ Slope * (n - 1) \in Nat
  BY <1>1, CurveAssumption
<1> QED
  BY <1>2, PriceType, CurveAssumption

\* What it takes to carry CumulativeAsPlotted from step to step: before the first
\* stake nothing is paid or offered, and with one credential no challenge is
\* priced past the count.
PlotInv ==
    /\ TypeOK
    /\ enrolled = 0 => count = None /\ paid = 0 /\ \A s \in Slots : offers[s] = None
    /\ enrolled = 1 =>
        /\ count \in Nat
        /\ \A s \in Slots : offers[s] # None => offers[s] <= count + 1
        /\ paid <= Stake + CurveCum(count)
        /\ prompt => paid = Stake + CurveCum(count)

\* A client that keeps its one credential never pays more than the calculator plots,
\* stake included, and exactly that if it redeems each challenge at its count.
THEOREM CumulativeAsPlottedHolds == Spec => []CumulativeAsPlotted
<1>1. Init => PlotInv
  BY DEF Init, PlotInv, TypeOK
<1>2. ASSUME TypeOK', PlotInv, [Next]_vars PROVE PlotInv'
  <2>1. CASE Enroll
    <3>1. CurveCum(0) = 0
      BY CurveAssumption DEF CurveCum
    <3>2. enrolled \in Nat /\ enrolled' = enrolled + 1
      BY <1>2, <2>1 DEF PlotInv, TypeOK, Enroll
    <3>3. enrolled' # 0
      BY <3>2
    <3>4. ASSUME enrolled' = 1
          PROVE  /\ count' \in Nat /\ paid' = Stake + CurveCum(count')
                 /\ \A s \in Slots : offers'[s] = None
      BY <1>2, <2>1, <3>1, <3>2, <3>4, CurveAssumption DEF PlotInv, Enroll
    <3>5. paid' \in Int
      BY <1>2 DEF TypeOK
    <3>6. ASSUME enrolled' = 1
          PROVE  /\ count' \in Nat /\ paid' <= Stake + CurveCum(count')
                 /\ paid' = Stake + CurveCum(count')
                 /\ \A s \in Slots : offers'[s] = None
      BY <3>4, <3>5, <3>6
    <3> QED
      BY <1>2, <3>3, <3>6 DEF PlotInv, CurveCum
  <2>2. ASSUME NEW s \in Slots, Challenge(s) PROVE PlotInv'
    <3>1. enrolled # 0 /\ enrolled' = enrolled /\ count' = count /\ count \in Nat /\ count + 1 # None
      BY <1>2, <2>2, CurveAssumption DEF PlotInv, TypeOK, Challenge
    <3>2. \A t \in Slots : offers'[t] = (IF t = s THEN count + 1 ELSE offers[t])
      BY <1>2, <2>2 DEF PlotInv, TypeOK, Challenge
    <3>3. ASSUME enrolled = 1, NEW t \in Slots, offers'[t] # None PROVE offers'[t] <= count + 1
      BY <1>2, <3>1, <3>2, <3>3 DEF PlotInv
    <3> QED
      BY <1>2, <2>2, <3>1, <3>3 DEF PlotInv, Challenge, CurveCum
  <2>3. ASSUME NEW s \in Slots, Request(s) PROVE PlotInv'
    <3>1. enrolled # 0 /\ enrolled' = enrolled /\ count \in Nat /\ count' = count + 1
      BY <1>2, <2>3 DEF PlotInv, TypeOK, Request
    <3>2. offers[s] \in Positive
      BY <1>2, <2>3 DEF PlotInv, TypeOK, Request
    <3>3. CurveCum(count + 1) = CurveCum(count) + Floor + Slope * count
      BY <3>1, CurveCumStep
    <3>4. /\ CurveCum(count) \in Int /\ Slope * count \in Nat /\ Stake \in Nat /\ Floor \in Nat
          /\ paid \in Nat
      BY <1>2, <3>1, CurveAssumption DEF CurveCum, PlotInv, TypeOK
    <3>5. \A t \in Slots : offers'[t] # None => offers'[t] = offers[t]
      BY <1>2, <2>3 DEF PlotInv, TypeOK, Request
    <3> DEFINE price == CurvePrice(offers[s], Floor, Slope)
    <3>6. price \in Int /\ paid' = paid + price
      BY <2>3, <3>2, PriceType, CurveAssumption DEF Request
    <3>7. prompt' => prompt /\ price = Floor + Slope * count
      BY <2>3, <3>1, NextPrice DEF Request
    <3>8. ASSUME enrolled = 1
          PROVE  /\ price <= Floor + Slope * count
                 /\ paid <= Stake + CurveCum(count)
                 /\ prompt => paid = Stake + CurveCum(count)
                 /\ \A t \in Slots : offers[t] # None => offers[t] <= count + 1
      BY <1>2, <2>3, <3>1, <3>2, <3>8, PricesGrow DEF PlotInv, Request
    <3> HIDE DEF price
    <3>9. ASSUME enrolled = 1
          PROVE  /\ paid' <= Stake + CurveCum(count')
                 /\ prompt' => paid' = Stake + CurveCum(count')
      BY <3>1, <3>3, <3>4, <3>6, <3>7, <3>8, <3>9
    <3>10. ASSUME enrolled = 1, NEW t \in Slots, offers'[t] # None PROVE offers'[t] <= count' + 1
      <4>1. offers[t] \in Positive /\ offers'[t] = offers[t]
        BY <1>2, <3>5, <3>10 DEF PlotInv, TypeOK
      <4> QED
        BY <3>1, <3>8, <3>10, <4>1
    <3> QED
      BY <1>2, <3>1, <3>9, <3>10 DEF PlotInv
  <2>4. CASE UNCHANGED vars
    BY <1>2, <2>4 DEF vars, PlotInv, TypeOK, CurveCum
  <2> QED
    BY <1>2, <2>1, <2>2, <2>3, <2>4 DEF Next
<1>3. PlotInv => CumulativeAsPlotted
  BY DEF PlotInv, CumulativeAsPlotted
<1> QED
  BY <1>1, <1>2, <1>3, TypeCorrect, PTL DEF Spec

-----------------------------------------------------------------------------
(* The floor of renewal *)

\* Twice what a client is ahead of the floor with k escalations after n requests
\* under a credential: the stake, and the escalations paid less those allowed.
Ahead(n, k) == 2 * Stake + Slope * n * (n - 1) - 2 * Slope * k * n

\* The stake covers the first requests, which are cheaper than the floor.
LEMMA NeverBehind ==
    ASSUME NEW n \in Nat, NEW k \in Nat, Slope * k * (k + 1) <= 2 * Stake
    PROVE  Ahead(n, k) >= 0
<1> DEFINE m == n - k
<1>1. m * (m - 1) \in Nat
  <2>1. CASE m <= 0
    BY <2>1
  <2>2. CASE m >= 1
    BY <2>2
  <2> QED
    BY <2>1, <2>2
<1>2. Slope * (m * (m - 1)) >= 0
  BY <1>1, CurveAssumption
<1>3. Slope * (m * (m - 1)) = Slope * k * (k + 1) + Slope * n * (n - 1) - 2 * Slope * k * n
  BY CurveAssumption
<1>4. /\ Slope * k * (k + 1) \in Int /\ Slope * n * (n - 1) \in Int
      /\ 2 * Slope * k * n \in Int /\ 2 * Stake \in Int
  BY CurveAssumption
<1> QED
  BY <1>2, <1>3, <1>4 DEF Ahead

\* A request pays as many escalations as there were requests before, and k are allowed.
LEMMA AheadStep ==
    ASSUME NEW n \in Nat, NEW k \in Nat
    PROVE  Ahead(n + 1, k) = Ahead(n, k) + 2 * (Slope * n) - 2 * (Slope * k)
<1>1. Slope \in Int /\ Stake \in Int
  BY CurveAssumption
<1>2. Slope * (n + 1) * ((n + 1) - 1) = Slope * n * (n - 1) + 2 * (Slope * n)
  BY <1>1
<1>3. 2 * Slope * k * (n + 1) = 2 * Slope * k * n + 2 * (Slope * k)
  BY <1>1
<1> QED
  BY <1>1, <1>2, <1>3 DEF Ahead

\* ResetFloor as it is carried from request to request: renewal starts over at 2 * Stake,
\* and what the client was ahead of the floor before is not needed again.
FloorInv ==
    /\ TypeOK
    /\ count = None => served = 0 /\ paid = 0
    /\ count # None /\ prompt =>
        \A k \in Nat : Slope * k * (k + 1) <= 2 * Stake =>
            2 * paid >= 2 * ((Floor + Slope * k) * served) + Ahead(count, k)

\* Whatever schedule of requests and new credentials a client chooses, k escalations
\* a request is the least it pays when the stake is worth k * (k + 1) / 2, provided it
\* redeems each challenge at the count that priced it.
THEOREM ResetFloorHolds == Spec => []ResetFloor
<1>1. Init => FloorInv
  BY DEF Init, FloorInv, TypeOK
<1>2. ASSUME TypeOK', FloorInv, [Next]_vars PROVE FloorInv'
  <2>1. CASE Enroll
    <3>1. count' = 0 /\ paid' = paid + Stake /\ served' = served /\ count' # None
          /\ prompt' = prompt
      BY <2>1, CurveAssumption DEF Enroll
    <3>2. ASSUME prompt, NEW k \in Nat, Slope * k * (k + 1) <= 2 * Stake
          PROVE  2 * paid' >= 2 * ((Floor + Slope * k) * served') + Ahead(count', k)
      <4> DEFINE f == (Floor + Slope * k) * served
      <4>1. f \in Int /\ paid \in Int /\ Stake \in Int
        BY <1>2, CurveAssumption DEF FloorInv, TypeOK
      <4>2. Ahead(0, k) = 2 * Stake
        BY CurveAssumption DEF Ahead
      <4>3. 2 * paid >= 2 * f
        <5>1. CASE count = None
          BY <1>2, <5>1, CurveAssumption DEF FloorInv
        <5>2. CASE count # None
          <6>1. count \in Nat
            BY <1>2, <5>2 DEF FloorInv, TypeOK
          <6>2. Ahead(count, k) >= 0 /\ Ahead(count, k) \in Int
            BY <3>2, <6>1, NeverBehind, CurveAssumption DEF Ahead
          <6>3. 2 * paid >= 2 * f + Ahead(count, k)
            BY <1>2, <3>2, <5>2 DEF FloorInv
          <6> HIDE DEF f
          <6> QED
            BY <4>1, <6>2, <6>3
        <5> QED
          BY <5>1, <5>2
      <4> HIDE DEF f
      <4>4. 2 * (paid + Stake) >= 2 * f + 2 * Stake
        BY <4>1, <4>3
      <4> QED
        BY <3>1, <4>2, <4>4 DEF f
    <3> QED
      BY <1>2, <3>1, <3>2 DEF FloorInv
  <2>2. ASSUME NEW s \in Slots, Request(s) PROVE FloorInv'
    <3>1. count \in Nat /\ count' = count + 1 /\ served' = served + 1 /\ count' # None
      BY <1>2, <2>2, CurveAssumption DEF FloorInv, TypeOK, Request
    <3>2. prompt' => prompt /\ paid' = paid + (Floor + Slope * count)
      BY <2>2, <3>1, NextPrice DEF Request
    <3>3. ASSUME prompt', NEW k \in Nat, Slope * k * (k + 1) <= 2 * Stake
          PROVE  2 * paid' >= 2 * ((Floor + Slope * k) * served') + Ahead(count', k)
      <4>1. served \in Nat /\ paid \in Nat
        BY <1>2 DEF FloorInv, TypeOK
      <4>2. 2 * paid >= 2 * ((Floor + Slope * k) * served) + Ahead(count, k)
        BY <1>2, <3>1, <3>2, <3>3, CurveAssumption DEF FloorInv
      <4>3. (Floor + Slope * k) * (served + 1) = (Floor + Slope * k) * served + (Floor + Slope * k)
        <5> DEFINE p == Floor + Slope * k
        <5>1. p \in Int
          BY CurveAssumption
        <5> HIDE DEF p
        <5>2. p * (served + 1) = p * served + p
          BY <4>1, <5>1
        <5> QED
          BY <5>2 DEF p
      <4>4. Ahead(count + 1, k) = Ahead(count, k) + 2 * (Slope * count) - 2 * (Slope * k)
        BY <3>1, AheadStep
      <4>5. /\ (Floor + Slope * k) * served \in Int /\ Ahead(count, k) \in Int
            /\ Slope * count \in Int /\ Slope * k \in Int /\ Floor \in Int
        BY <3>1, <4>1, CurveAssumption DEF Ahead
      <4> QED
        BY <3>1, <3>2, <3>3, <4>1, <4>2, <4>3, <4>4, <4>5
    <3> QED
      BY <1>2, <3>1, <3>3 DEF FloorInv
  <2>4. ASSUME NEW s \in Slots, Challenge(s) PROVE FloorInv'
    BY <1>2, <2>4 DEF Challenge, FloorInv, TypeOK, Ahead
  <2>3. CASE UNCHANGED vars
    BY <1>2, <2>3 DEF vars, FloorInv, TypeOK, Ahead
  <2> QED
    BY <1>2, <2>1, <2>2, <2>3, <2>4 DEF Next
<1>3. FloorInv => ResetFloor
  <2> SUFFICES ASSUME FloorInv, prompt, NEW k \in 0..Stake, Slope * k * (k + 1) <= 2 * Stake
               PROVE  paid >= (Floor + Slope * k) * served
    BY DEF ResetFloor
  <2>1. k \in Nat /\ paid \in Nat /\ (Floor + Slope * k) * served \in Int
    BY CurveAssumption DEF FloorInv, TypeOK
  <2>2. CASE count = None
    BY <2>1, <2>2, CurveAssumption DEF FloorInv
  <2>3. CASE count # None
    <3>1. Ahead(count, k) >= 0 /\ Ahead(count, k) \in Int
      BY <2>1, <2>3, NeverBehind, CurveAssumption DEF FloorInv, TypeOK, Ahead
    <3>2. 2 * paid >= 2 * ((Floor + Slope * k) * served) + Ahead(count, k)
      BY <2>1, <2>3 DEF FloorInv
    <3> QED
      BY <2>1, <3>1, <3>2
  <2> QED
    BY <2>2, <2>3
<1> QED
  BY <1>1, <1>2, <1>3, TypeCorrect, PTL DEF Spec
=============================================================================
