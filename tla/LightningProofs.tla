--------------------------- MODULE LightningProofs ---------------------------
(***************************************************************************)
(* Proofs about Lightning, for any number of handlers, payment hashes,     *)
(* principals and restarts and any prices, with either store, with the     *)
(* curve, without it, and with both in turn.                               *)
(***************************************************************************)
EXTENDS Lightning, FiniteSetTheorems, TLAPS

USE DEF ValidRoutes, ValidCurve, ValidBackend, Positive

-----------------------------------------------------------------------------
(* Type correctness *)

\* Labels of a handler that carries a token, and those past its verification.
Redeeming == {"checkEnrollment", "lookupInvoice", "isUsed", "markUsed"} \cup Passed

\* What a label says of the locals of its handler.
LocalsOK ==
    \A g \in Handlers :
        /\ pc[g] # "idle" => req[g] \in Request
        /\ pc[g] \in Redeeming => req[g].hash \in Hashes
        /\ pc[g] \in {"getPrincipal", "increment"} => req[g].cred \in Principals
        /\ pc[g] = "track" => fresh[g] \in Hashes
        /\ pc[g] = "createPrincipal" => fresh[g] \in Principals

Typed == TypeOK /\ LocalsOK

\* The invoice a handler is about to track is its own, and not sent yet.
MadeOK ==
    /\ \A g \in Handlers : pc[g] = "track" =>
        invoices[fresh[g]] # None /\ invoices[fresh[g]].state = "made"
    /\ \A g, k \in Handlers :
        pc[g] = "track" /\ pc[k] = "track" /\ fresh[g] = fresh[k] => g = k

TInv == Typed /\ MadeOK

LEMMA TypeInit == Init => TInv
  BY ConfigAssumption DEF Init, TInv, Typed, MadeOK, TypeOK, LocalsOK, SpentInit, SpentTypeOK, PrincipalInit, PrincipalTypeOK, Labels, Redeeming, Passed

\* The answer of a handler leaves every local variable in its type.
LEMMA AnswerType ==
    ASSUME TInv, NEW g \in Handlers, Answer(g)
    PROVE  /\ pc' \in [Handlers -> Labels]
           /\ req' \in [Handlers -> Request \cup {None}]
           /\ price' \in [Handlers -> Nat]
           /\ enrolling' \in [Handlers -> BOOLEAN]
           /\ fresh' \in [Handlers -> Hashes \cup Principals \cup {None}]
           /\ LocalsOK'
  BY DEF TInv, Typed, MadeOK, TypeOK, LocalsOK, Answer, Goto, Labels, Redeeming, Passed

\* A request that arrives is one.
LEMMA ArriveType ==
    ASSUME TInv, NEW g \in Handlers, NEW ip \in IPs, NEW cred \in Principals \cup {None},
           NEW hash \in Hashes \cup {None}, Arrive(g, ip, cred, hash)
    PROVE  /\ req' \in [Handlers -> Request \cup {None}]
           /\ req'[g] \in Request /\ req'[g].cred = cred /\ req'[g].hash = hash
           /\ \A k \in Handlers : k # g => req'[k] = req[k]
  BY DEF TInv, Typed, MadeOK, TypeOK, Arrive, Request

\* A counter counts.
LEMMA Increment ==
    ASSUME NEW S, NEW f \in [S -> Nat], NEW x
    PROVE  [f EXCEPT ![x] = @ + 1] \in [S -> Nat]
<1>1. \A y \in S : f[y] \in Nat /\ f[y] + 1 \in Nat
  OBVIOUS
<1> QED
  BY <1>1

\* The price of a request under a credential is a positive number.
LEMMA CurvePriceType ==
    ASSUME NEW n \in Nat
    PROVE  CurvePrice(n + 1, FloorToll, Slope) \in Positive
<1>1. Slope * ((n + 1) - 1) \in Nat
  BY ConfigAssumption
<1> QED
  BY <1>1, ConfigAssumption DEF CurvePrice

\* So is the price of a route; with a curve it is not read.
LEMMA RoutePricesType ==
    ASSUME NEW sats \in RoutePrices
    PROVE  sats \in Nat /\ (~curve => sats > 0)
  BY ConfigAssumption DEF RoutePrices

LEMMA TypeStep ==
    ASSUME TInv, [Next]_vars
    PROVE  Typed'
<1> USE DEF TInv, Typed, TypeOK, SpentTypeOK, PrincipalTypeOK, vars, process, lnd, credentials,
            locals, history, start, Goto, Step, WithPrice
<1>1. ASSUME NEW g \in Handlers, ArriveWithCredential(g) PROVE Typed'
  <2>1. PICK ip \in IPs, p \in Principals, hash \in Hashes \cup {None} : Arrive(g, ip, p, hash)
    BY <1>1 DEF ArriveWithCredential
  <2>2. LocalsOK'
    BY <1>1, <2>1, ArriveType DEF ArriveWithCredential, LocalsOK, Redeeming, Passed
  <2> QED
    BY <1>1, <2>1, <2>2, ArriveType DEF ArriveWithCredential, Labels
<1>2. ASSUME NEW g \in Handlers, ArriveWithToken(g) PROVE Typed'
  <2>1. PICK ip \in IPs, h \in Hashes : Arrive(g, ip, None, h)
    BY <1>2 DEF ArriveWithToken
  <2>2. pc' = [pc EXCEPT ![g] = "checkEnrollment"] \/ pc' = [pc EXCEPT ![g] = "lookupInvoice"]
    BY <1>2 DEF ArriveWithToken
  <2>5. price' \in [Handlers -> Nat] /\ UNCHANGED <<enrolling, fresh>>
    BY <1>2, RoutePricesType DEF ArriveWithToken
  <2>3. pc' \in [Handlers -> Labels] /\ \A k \in Handlers : k # g => pc'[k] = pc[k]
    BY <2>2 DEF Labels
  <2>4. LocalsOK'
    <3> SUFFICES ASSUME NEW k \in Handlers
                 PROVE  /\ pc'[k] # "idle" => req'[k] \in Request
                        /\ pc'[k] \in Redeeming => req'[k].hash \in Hashes
                        /\ pc'[k] \in {"getPrincipal", "increment"} => req'[k].cred \in Principals
                        /\ pc'[k] = "track" => fresh[k] \in Hashes
                        /\ pc'[k] = "createPrincipal" => fresh[k] \in Principals
      BY <1>2 DEF ArriveWithToken, LocalsOK
    <3>1. req'[g] \in Request /\ req'[g].hash \in Hashes /\ (k # g => req'[k] = req[k])
      <4>1. None \in Principals \cup {None} /\ h \in Hashes \cup {None}
        OBVIOUS
      <4>2. req'[g] \in Request /\ req'[g].hash = h /\ \A j \in Handlers : j # g => req'[j] = req[j]
        BY <2>1, <4>1, ArriveType
      <4> QED
        BY <4>2
    <3>2. pc'[g] \in {"checkEnrollment", "lookupInvoice"}
      BY <2>2
    <3>3. CASE k = g
      BY <3>1, <3>2, <3>3
    <3>4. CASE k # g
      BY <2>3, <3>1, <3>4 DEF LocalsOK
    <3> QED
      BY <3>3, <3>4
  <2> QED
    BY <1>2, <2>1, <2>3, <2>4, <2>5, ArriveType DEF ArriveWithToken
<1>3. ASSUME NEW g \in Handlers, ArriveBare(g) PROVE Typed'
  <2>1. PICK ip \in IPs : Arrive(g, ip, None, None)
    BY <1>3 DEF ArriveBare
  <2>2. pc' = [pc EXCEPT ![g] = "anonCount"] \/ pc' = [pc EXCEPT ![g] = "addInvoice"]
    BY <1>3 DEF ArriveBare
  <2>3. price' \in [Handlers -> Nat] /\ UNCHANGED <<enrolling, fresh>>
    BY <1>3, RoutePricesType DEF ArriveBare
  <2>4. pc' \in [Handlers -> Labels]
    BY <2>2 DEF Labels
  <2>5. LocalsOK'
    <3> SUFFICES ASSUME NEW k \in Handlers, pc'[k] # "idle"
                 PROVE  /\ req'[k] \in Request
                        /\ pc'[k] \in Redeeming => req'[k].hash \in Hashes
                        /\ pc'[k] \in {"getPrincipal", "increment"} => req'[k].cred \in Principals
                        /\ pc'[k] = "track" => fresh[k] \in Hashes
                        /\ pc'[k] = "createPrincipal" => fresh[k] \in Principals
      BY <2>3 DEF LocalsOK, Redeeming, Passed
    <3>1. req'[g] \in Request /\ (k # g => req'[k] = req[k] /\ pc'[k] = pc[k])
      BY <2>1, <2>2, ArriveType
    <3>2. pc'[g] \in {"anonCount", "addInvoice"}
      BY <2>2
    <3>3. CASE k = g
      BY <3>1, <3>2, <3>3 DEF Redeeming, Passed
    <3>4. CASE k # g
      BY <3>1, <3>4 DEF LocalsOK
    <3> QED
      BY <3>3, <3>4
  <2> QED
    BY <1>3, <2>1, <2>3, <2>4, <2>5, ArriveType DEF ArriveBare
<1>4. ASSUME NEW g \in Handlers, LookupPrincipal(g) PROVE Typed'
  <2> DEFINE p == req[g].cred
  <2>1. CASE Answer(g)
    BY <1>4, <2>1, AnswerType DEF LookupPrincipal
  <2>2. CASE ~Answer(g)
    <3>1. pc[g] = "getPrincipal" /\ p \in Principals /\ principals[p] \in Nat
      BY <1>4, <2>2 DEF LookupPrincipal, LocalsOK, HasPrincipal
    <3>2. CurvePrice(principals[p] + 1, FloorToll, Slope) \in Nat
      BY <3>1, CurvePriceType
    <3>3. req[g] \in Request
      BY <3>1 DEF LocalsOK
    <3>4. LocalsOK'
      BY <1>4, <2>2, <3>1, <3>3 DEF LookupPrincipal, LocalsOK, Redeeming, Passed, Request
    <3> QED
      BY <1>4, <2>2, <3>1, <3>2, <3>4 DEF LookupPrincipal, Labels
  <2> QED
    BY <2>1, <2>2
<1>5. ASSUME NEW g \in Handlers, CheckEnrollment(g) PROVE Typed'
  <2>1. LocalsOK'
    BY <1>5 DEF CheckEnrollment, LocalsOK, Redeeming, Passed
  <2> QED
    BY <1>5, <2>1 DEF CheckEnrollment, Labels, IsPendingEnrollment
<1>6. ASSUME NEW g \in Handlers, CheckAnonCount(g) PROVE Typed'
  <2>1. LocalsOK'
    BY <1>6 DEF CheckAnonCount, LocalsOK, Redeeming, Passed
  <2> QED
    BY <1>6, <2>1, ConfigAssumption DEF CheckAnonCount, Labels
<1>7. ASSUME NEW g \in Handlers, LookupInvoice(g) PROVE Typed'
  <2>1. CASE Answer(g)
    BY <1>7, <2>1, AnswerType DEF LookupInvoice
  <2>2. CASE ~Answer(g)
    BY <1>7, <2>2 DEF LookupInvoice, LocalsOK, Redeeming, Passed, Labels
  <2> QED
    BY <2>1, <2>2
<1>24. ASSUME NEW g \in Handlers, MintFails(g) PROVE Typed'
  BY <1>24, AnswerType DEF MintFails
<1>8. ASSUME NEW g \in Handlers, CheckUsed(g) PROVE Typed'
  <2>1. CASE Answer(g)
    BY <1>8, <2>1, AnswerType DEF CheckUsed
  <2>2. CASE ~Answer(g)
    BY <1>8, <2>2 DEF CheckUsed, LocalsOK, Redeeming, Passed, Labels
  <2> QED
    BY <2>1, <2>2
<1>9. ASSUME NEW g \in Handlers, RecordUsed(g) PROVE Typed'
  <2>1. CASE Answer(g) /\ UNCHANGED <<used, spent>>
    BY <1>9, <2>1, AnswerType DEF RecordUsed
  <2>2. CASE Step(g, Accepted(g)) /\ MarkUsed(req[g].hash) /\ spent' = spent \cup {req[g].hash}
    <3>1. req[g] \in Request /\ req[g].hash \in Hashes
      BY <1>9 DEF RecordUsed, LocalsOK, Redeeming
    <3>2. Accepted(g) \in Passed \ {"createPrincipal"} /\ Passed \subseteq Labels
      BY DEF Accepted, Passed, Labels
    <3>3. Accepted(g) = "increment" => req[g].cred \in Principals
      BY <3>1 DEF Accepted, Request
    <3>4. LocalsOK'
      BY <2>2, <3>1, <3>2, <3>3 DEF LocalsOK, Redeeming, Passed
    <3> QED
      BY <1>9, <2>2, <3>1, <3>2, <3>4 DEF RecordUsed, MarkUsed
  <2> QED
    BY <1>9, <2>1, <2>2 DEF RecordUsed
<1>10. ASSUME NEW g \in Handlers, Mint(g) PROVE Typed'
  <2>1. LocalsOK'
    BY <1>10 DEF Mint, LocalsOK, Redeeming, Passed
  <2> QED
    BY <1>10, <2>1, Increment DEF Mint, MintCredential, RemovePendingEnrollment, Labels
<1>11. ASSUME NEW g \in Handlers, Enroll(g) PROVE Typed'
  BY <1>11, AnswerType DEF Enroll, CreatePrincipal, LocalsOK
<1>12. ASSUME NEW g \in Handlers, CountRequest(g) PROVE Typed'
  <2>1. LocalsOK'
    BY <1>12 DEF CountRequest, LocalsOK, Redeeming, Passed
  <2>2. principals' \in [Principals -> Nat \cup {None}]
    <3>1. \A p \in Principals : HasPrincipal(p) => principals[p] + 1 \in Nat
      BY DEF HasPrincipal
    <3> QED
      BY <1>12, <3>1 DEF CountRequest, IncrementRequestCount
  <2> QED
    BY <1>12, <2>1, <2>2 DEF CountRequest, Labels
<1>13. ASSUME NEW g \in Handlers, CountAnonymous(g) PROVE Typed'
  <2>1. LocalsOK'
    BY <1>13 DEF CountAnonymous, LocalsOK, Redeeming, Passed
  <2> QED
    BY <1>13, <2>1, Increment DEF CountAnonymous, Labels
<1>14. ASSUME NEW g \in Handlers, Forward(g) PROVE Typed'
  <2>1. grants' \in [Hashes -> Nat] /\ metered' \in [Principals -> Nat]
    BY <1>14, Increment DEF Forward
  <2>2. Answer(g) /\ UNCHANGED <<start, process, lnd, credentials, spent, mints>>
    BY <1>14 DEF Forward
  <2> QED
    BY <2>1, <2>2, AnswerType
<1>15. ASSUME NEW g \in Handlers, IssueChallenge(g) PROVE Typed'
  <2>1. invoices' \in [Hashes -> Invoice \cup {None}]
    BY <1>15 DEF IssueChallenge, NewInvoice, Invoice
  <2> QED
    BY <1>15, <2>1, AnswerType DEF IssueChallenge
<1>16. ASSUME NEW g \in Handlers, IssueEnrollmentChallenge(g) PROVE Typed'
  <2>1. CASE Answer(g) /\ UNCHANGED invoices
    BY <1>16, <2>1, AnswerType DEF IssueEnrollmentChallenge
  <2>2. CASE ~(Answer(g) /\ UNCHANGED invoices)
    <3>1. PICK h \in Hashes : NewInvoice(h, price[g], "stake", "made") /\ fresh' = [fresh EXCEPT ![g] = h]
      BY <1>16, <2>2 DEF IssueEnrollmentChallenge
    <3>2. invoices' \in [Hashes -> Invoice \cup {None}]
      BY <3>1 DEF NewInvoice, Invoice
    <3>3. LocalsOK'
      BY <1>16, <2>2, <3>1 DEF IssueEnrollmentChallenge, LocalsOK, Redeeming, Passed
    <3> QED
      BY <1>16, <2>2, <3>1, <3>2, <3>3 DEF IssueEnrollmentChallenge, Labels
  <2> QED
    BY <2>1, <2>2
<1>17. ASSUME NEW g \in Handlers, TrackEnrollment(g) PROVE Typed'
  <2>1. fresh[g] \in Hashes /\ invoices[fresh[g]] # None
    BY <1>17 DEF TrackEnrollment, LocalsOK, MadeOK
  <2>2. \A h \in Hashes : invoices[h] # None => [invoices[h] EXCEPT !.state = "open"] \in Invoice
    BY DEF Invoice
  <2>3. invoices' \in [Hashes -> Invoice \cup {None}]
    BY <1>17, <2>1, <2>2 DEF TrackEnrollment
  <2> QED
    BY <1>17, <2>1, <2>3, AnswerType DEF TrackEnrollment
<1>18. CASE AnonCleanup
  BY <1>18 DEF AnonCleanup, LocalsOK
<1>19. CASE Restart
  BY <1>19, ConfigAssumption DEF Restart, SpentReopen, LocalsOK, Labels, Redeeming, Passed
<1>20. ASSUME NEW h \in Hashes, Settlement(h) PROVE Typed'
  BY <1>20 DEF Settlement, LookupSettlement, LocalsOK
<1>21. ASSUME NEW h \in Hashes, Pay(h) PROVE Typed'
  BY <1>21 DEF Pay, Invoice, LocalsOK
<1>22. ASSUME NEW h \in Hashes, Cancel(h) PROVE Typed'
  BY <1>22 DEF Cancel, Invoice, LocalsOK
<1>23. CASE UNCHANGED vars
  BY <1>23 DEF LocalsOK
<1> QED
  BY <1>1, <1>2, <1>3, <1>4, <1>5, <1>6, <1>7, <1>8, <1>9, <1>10, <1>11, <1>12, <1>13, <1>14,
     <1>15, <1>16, <1>17, <1>18, <1>19, <1>20, <1>21, <1>22, <1>23, <1>24
     DEF Next, HandlerStep, Environment

-----------------------------------------------------------------------------
(* What a step leaves alone *)

\* A handler's step is its own: it touches no other handler's locals.
LEMMA Frame ==
    ASSUME TInv, NEW g \in Handlers, HandlerStep(g)
    PROVE  \A k \in Handlers \ {g} :
               /\ pc'[k] = pc[k] /\ req'[k] = req[k] /\ price'[k] = price[k]
               /\ enrolling'[k] = enrolling[k] /\ fresh'[k] = fresh[k]
<1> USE DEF TInv, Typed, TypeOK, Goto, Step, WithPrice, Answer, Arrive, locals
<1>1. CASE ArriveWithCredential(g) \/ ArriveWithToken(g) \/ ArriveBare(g)
  BY <1>1 DEF ArriveWithCredential, ArriveWithToken, ArriveBare
<1>2. CASE LookupPrincipal(g) \/ CheckEnrollment(g) \/ CheckAnonCount(g)
  BY <1>2 DEF LookupPrincipal, CheckEnrollment, CheckAnonCount
<1>3. CASE LookupInvoice(g) \/ MintFails(g) \/ CheckUsed(g) \/ RecordUsed(g)
  BY <1>3 DEF LookupInvoice, MintFails, CheckUsed, RecordUsed
<1>4. CASE Mint(g) \/ Enroll(g) \/ CountRequest(g) \/ CountAnonymous(g) \/ Forward(g)
  BY <1>4 DEF Mint, Enroll, CountRequest, CountAnonymous, Forward
<1>5. CASE IssueChallenge(g) \/ IssueEnrollmentChallenge(g) \/ TrackEnrollment(g)
  BY <1>5 DEF IssueChallenge, IssueEnrollmentChallenge, TrackEnrollment
<1> QED
  BY <1>1, <1>2, <1>3, <1>4, <1>5 DEF HandlerStep

\* An invoice stays what it was made as, and a settled one stays settled.
InvoicesKept ==
    \A h \in Hashes : invoices[h] # None =>
        /\ invoices'[h] # None
        /\ invoices'[h].sats = invoices[h].sats
        /\ invoices'[h].memo = invoices[h].memo
        /\ invoices'[h].bornIn = invoices[h].bornIn
        /\ invoices[h].state = "settled" => invoices'[h].state = "settled"
        /\ invoices[h].state # "made" => invoices'[h].state # "made"

LEMMA InvoiceStep ==
    ASSUME TInv, [Next]_vars
    PROVE  InvoicesKept
<1> USE DEF TInv, Typed, TypeOK, InvoicesKept, lnd
<1>1. ASSUME UNCHANGED invoices PROVE InvoicesKept
  BY <1>1
<1>2. ASSUME NEW g \in Handlers, HandlerStep(g) PROVE InvoicesKept
  <2>1. CASE IssueChallenge(g)
    BY <2>1 DEF IssueChallenge, NewInvoice
  <2>2. CASE IssueEnrollmentChallenge(g)
    BY <2>2 DEF IssueEnrollmentChallenge, NewInvoice
  <2>3. CASE TrackEnrollment(g)
    <3>1. invoices[fresh[g]] # None /\ invoices[fresh[g]].state = "made" /\ fresh[g] \in Hashes
      BY <2>3 DEF TrackEnrollment, MadeOK, LocalsOK
    <3>2. invoices[fresh[g]] \in Invoice
      BY <3>1
    <3>3. invoices' = [invoices EXCEPT ![fresh[g]].state = "open"]
      BY <2>3 DEF TrackEnrollment
    <3>4. [invoices[fresh[g]] EXCEPT !.state = "open"] \in Invoice
      BY <3>2 DEF Invoice
    <3> QED
      BY <3>1, <3>2, <3>3, <3>4, NoneAssumption DEF Invoice
  <2>4. CASE ~(IssueChallenge(g) \/ IssueEnrollmentChallenge(g) \/ TrackEnrollment(g))
    BY <1>1, <1>2, <2>4
       DEF HandlerStep, ArriveWithCredential, ArriveWithToken, ArriveBare, LookupPrincipal,
           CheckEnrollment, CheckAnonCount, LookupInvoice, MintFails, CheckUsed, RecordUsed, Mint, Enroll,
           CountRequest, CountAnonymous, Forward
  <2> QED
    BY <2>1, <2>2, <2>3, <2>4
<1>3. ASSUME NEW h \in Hashes, Pay(h) \/ Cancel(h) PROVE InvoicesKept
  <2>1. invoices[h] \in Invoice /\ invoices[h].state = "open"
    BY <1>3 DEF Pay, Cancel
  <2>2. PICK state \in {"settled", "canceled"} : invoices' = [invoices EXCEPT ![h].state = state]
    BY <1>3 DEF Pay, Cancel
  <2>3. [invoices[h] EXCEPT !.state = state] \in Invoice
    BY <2>1, <2>2 DEF Invoice
  <2> QED
    BY <2>1, <2>2, <2>3, NoneAssumption DEF Invoice
<1>4. CASE AnonCleanup \/ Restart \/ (\E h \in Hashes : Settlement(h)) \/ UNCHANGED vars
  BY <1>1, <1>4 DEF AnonCleanup, Restart, Settlement, vars
<1> QED
  BY <1>2, <1>3, <1>4 DEF Next, Environment

\* Only IssueEnrollmentChallenge leaves a handler with an invoice to track.
LEMMA NotTracking ==
    ASSUME TInv, NEW g \in Handlers, HandlerStep(g), ~IssueEnrollmentChallenge(g)
    PROVE  pc'[g] # "track"
<1> USE DEF TInv, Typed, TypeOK, Goto, Step, WithPrice, Answer
<1>1. CASE ArriveWithCredential(g) \/ ArriveWithToken(g) \/ ArriveBare(g)
  BY <1>1 DEF ArriveWithCredential, ArriveWithToken, ArriveBare
<1>2. CASE LookupPrincipal(g) \/ CheckEnrollment(g) \/ CheckAnonCount(g)
  BY <1>2 DEF LookupPrincipal, CheckEnrollment, CheckAnonCount
<1>3. CASE LookupInvoice(g) \/ MintFails(g) \/ CheckUsed(g) \/ RecordUsed(g)
  BY <1>3 DEF LookupInvoice, MintFails, CheckUsed, RecordUsed, Accepted
<1>4. CASE Mint(g) \/ Enroll(g) \/ CountRequest(g) \/ CountAnonymous(g) \/ Forward(g)
  BY <1>4 DEF Mint, Enroll, CountRequest, CountAnonymous, Forward
<1>5. CASE IssueChallenge(g) \/ TrackEnrollment(g)
  BY <1>5 DEF IssueChallenge, TrackEnrollment
<1> QED
  BY <1>1, <1>2, <1>3, <1>4, <1>5 DEF HandlerStep

LEMMA MadeStep ==
    ASSUME TInv, [Next]_vars
    PROVE  MadeOK'
<1>1. \A h \in Hashes : invoices[h] # None => invoices'[h] # None
  BY InvoiceStep DEF InvoicesKept
<1>2. ASSUME NEW g \in Handlers, HandlerStep(g) PROVE MadeOK'
  <2>1. CASE IssueEnrollmentChallenge(g)
    <3>1. CASE Answer(g) /\ UNCHANGED invoices
      BY <3>1 DEF Answer, Goto, TInv, Typed, TypeOK, MadeOK
    <3>2. CASE ~(Answer(g) /\ UNCHANGED invoices)
      <4>1. PICK h \in Hashes :
              /\ invoices[h] = None
              /\ invoices' = [invoices EXCEPT ![h] =
                    [sats |-> price[g], memo |-> "stake", bornIn |-> boot, state |-> "made"]]
              /\ fresh' = [fresh EXCEPT ![g] = h]
              /\ pc' = [pc EXCEPT ![g] = "track"]
        BY <2>1, <3>2 DEF IssueEnrollmentChallenge, NewInvoice, Goto
      <4>2. invoices'[h] # None /\ invoices'[h].state = "made"
        <5>1. [sats |-> price[g], memo |-> "stake", bornIn |-> boot, state |-> "made"] \in Invoice
          BY ConfigAssumption DEF TInv, Typed, TypeOK, Invoice
        <5> QED
          BY <4>1, <5>1, NoneAssumption DEF TInv, Typed, TypeOK
      <4>3. \A k \in Handlers : pc[k] = "track" => fresh[k] \in Hashes /\ fresh[k] # h
        BY <4>1 DEF TInv, Typed, LocalsOK, MadeOK
      <4>4. \A k \in Handlers \ {g} : pc'[k] = pc[k] /\ fresh'[k] = fresh[k]
        BY <1>2, Frame
      <4>5. fresh'[g] = h
        BY <4>1 DEF TInv, Typed, TypeOK
      <4>6. \A j \in Hashes \ {h} : invoices'[j] = invoices[j]
        BY <4>1 DEF TInv, Typed, TypeOK
      <4> QED
        BY <4>2, <4>3, <4>4, <4>5, <4>6 DEF TInv, MadeOK
    <3> QED
      BY <3>1, <3>2
  <2>2. CASE ~IssueEnrollmentChallenge(g)
    <3>1. pc'[g] # "track"
      BY <1>2, <2>2, NotTracking
    <3>2. \A k \in Handlers : pc'[k] = "track" => pc[k] = "track" /\ fresh'[k] = fresh[k] /\ k # g
      BY <1>2, <3>1, Frame
    <3>3. ASSUME NEW k \in Handlers, pc'[k] = "track"
          PROVE  invoices'[fresh'[k]] = invoices[fresh[k]]
      <4>1. k # g /\ fresh[k] \in Hashes /\ invoices[fresh[k]] # None /\ fresh'[k] = fresh[k]
        BY <3>2, <3>3 DEF TInv, Typed, LocalsOK, MadeOK
      <4>2. CASE TrackEnrollment(g)
        <5>1. fresh[g] # fresh[k]
          BY <3>2, <3>3, <4>1, <4>2 DEF TrackEnrollment, TInv, MadeOK
        <5> QED
          BY <4>1, <4>2, <5>1 DEF TrackEnrollment, TInv, Typed, TypeOK
      <4>3. CASE IssueChallenge(g)
        BY <4>1, <4>3 DEF IssueChallenge, NewInvoice, TInv, Typed, TypeOK
      <4>4. CASE ~(IssueChallenge(g) \/ TrackEnrollment(g))
        BY <1>2, <2>2, <4>1, <4>4
           DEF HandlerStep, ArriveWithCredential, ArriveWithToken, ArriveBare, LookupPrincipal,
               CheckEnrollment, CheckAnonCount, LookupInvoice, MintFails, CheckUsed, RecordUsed, Mint,
               Enroll, CountRequest, CountAnonymous, Forward, lnd
      <4> QED
        BY <4>2, <4>3, <4>4
    <3> QED
      BY <3>2, <3>3 DEF TInv, MadeOK
  <2> QED
    BY <2>1, <2>2
<1>3. ASSUME NEW h \in Hashes, Pay(h) \/ Cancel(h) PROVE MadeOK'
  <2>1. invoices[h].state # "made" /\ pc' = pc /\ fresh' = fresh
    BY <1>3 DEF Pay, Cancel, locals
  <2>2. \A j \in Hashes \ {h} : invoices'[j] = invoices[j]
    BY <1>3 DEF Pay, Cancel, TInv, Typed, TypeOK
  <2> QED
    BY <2>1, <2>2 DEF TInv, Typed, LocalsOK, MadeOK
<1>4. CASE Restart
  BY <1>4 DEF Restart, MadeOK
<1>5. CASE AnonCleanup \/ (\E h \in Hashes : Settlement(h)) \/ UNCHANGED vars
  BY <1>5 DEF AnonCleanup, Settlement, vars, lnd, locals, TInv, MadeOK
<1> QED
  BY <1>2, <1>3, <1>4, <1>5 DEF Next, Environment

LEMMA TInvStep == TInv /\ [Next]_vars => TInv'
  BY TypeStep, MadeStep DEF TInv

\* Every variable keeps its type.
THEOREM TypeCorrect == Spec => []TypeOK
<1>1. TInv => TypeOK
  BY DEF TInv, Typed
<1> QED
  BY <1>1, TypeInit, TInvStep, PTL DEF Spec

-----------------------------------------------------------------------------
(* Replays *)

LEMMA BootKept ==
    ASSUME TInv, NEW g \in Handlers, HandlerStep(g)
    PROVE  boot' = boot /\ curve' = curve /\ ~Restart
<1>1. boot' = boot /\ curve' = curve
  BY DEF HandlerStep, start, ArriveWithCredential, ArriveWithToken, ArriveBare, LookupPrincipal,
       CheckEnrollment, CheckAnonCount, LookupInvoice, MintFails, CheckUsed, RecordUsed, Mint, Enroll,
       CountRequest, CountAnonymous, Forward, IssueChallenge, IssueEnrollmentChallenge,
       TrackEnrollment
<1>2. boot + 1 # boot
  BY ConfigAssumption DEF TInv, Typed, TypeOK
<1> QED
  BY <1>1, <1>2 DEF Restart

LEMMA UsedStep ==
    ASSUME TInv, [Next]_vars
    PROVE  /\ spent \subseteq spent'
           /\ Persistent => used \subseteq used'
           /\ Restart \/ (boot' = boot /\ curve' = curve /\ used \subseteq used')
<1> USE DEF start, process, history
<1>1. ASSUME NEW g \in Handlers, HandlerStep(g) PROVE boot' = boot /\ curve' = curve
  BY <1>1, BootKept
<1>2. ASSUME NEW g \in Handlers, HandlerStep(g) PROVE used \subseteq used' /\ spent \subseteq spent'
  <2>1. CASE RecordUsed(g)
    BY <2>1 DEF RecordUsed, MarkUsed
  <2>2. CASE ~RecordUsed(g)
    BY <1>2, <2>2
       DEF HandlerStep, ArriveWithCredential, ArriveWithToken, ArriveBare, LookupPrincipal,
           CheckEnrollment, CheckAnonCount, LookupInvoice, MintFails, CheckUsed, Mint, Enroll,
           CountRequest, CountAnonymous, Forward, IssueChallenge, IssueEnrollmentChallenge,
           TrackEnrollment
  <2> QED
    BY <2>1, <2>2
<1>3. CASE Restart
  BY <1>3 DEF Restart, SpentReopen
<1>4. CASE AnonCleanup \/ (\E h \in Hashes : Settlement(h) \/ Pay(h) \/ Cancel(h)) \/ UNCHANGED vars
  BY <1>4 DEF AnonCleanup, Settlement, Pay, Cancel, vars
<1> QED
  BY <1>1, <1>2, <1>3, <1>4 DEF Next, Environment

\* A request is late if its token is spent.
LEMMA LateField ==
    ASSUME NEW r, NEW ip, NEW cred, NEW hash, NEW proof, NEW S,
           r = [ip |-> ip, cred |-> cred, hash |-> hash, proof |-> proof, late |-> hash \in S]
    PROVE  r.late = (hash \in S)
  BY Zenon

\* ReplayRejected, and what makes it inductive: what was spent stays marked, and
\* a late request does not get past IsUsed.
ReplayInv ==
    Persistent =>
        /\ spent \subseteq used
        /\ \A g \in Handlers : req[g] # None /\ req[g].late =>
            req[g].hash \in spent /\ pc[g] \notin {"markUsed"} \cup Passed

LEMMA ReplayStep ==
    ASSUME TInv, ReplayInv, [Next]_vars
    PROVE  ReplayInv'
<1> SUFFICES ASSUME Persistent
             PROVE  /\ spent' \subseteq used'
                    /\ \A g \in Handlers : req'[g] # None /\ req'[g].late =>
                        req'[g].hash \in spent' /\ pc'[g] \notin {"markUsed"} \cup Passed
  BY DEF ReplayInv
<1>1. spent \subseteq spent' /\ used \subseteq used' /\ spent \subseteq used
  BY UsedStep DEF ReplayInv
<1>2. ASSUME NEW g \in Handlers, HandlerStep(g), NEW k \in Handlers \ {g}, req'[k] # None, req'[k].late
      PROVE  req'[k].hash \in spent' /\ pc'[k] \notin {"markUsed"} \cup Passed
  BY <1>1, <1>2, Frame DEF ReplayInv
<1>3. ASSUME NEW g \in Handlers, HandlerStep(g), req'[g] # None, req'[g].late
      PROVE  req'[g].hash \in spent' /\ pc'[g] \notin {"markUsed"} \cup Passed
  <2> USE DEF TInv, Typed, TypeOK, Goto, Step, WithPrice, locals, Passed
  <2>1. CASE ArriveWithCredential(g) \/ ArriveWithToken(g) \/ ArriveBare(g)
    <3>1. pc'[g] \notin {"markUsed"} \cup Passed
      BY <2>1 DEF ArriveWithCredential, ArriveWithToken, ArriveBare, Arrive
    <3>2. req'[g].hash \in spent
      <4>1. PICK ip, cred, hash : Arrive(g, ip, cred, hash)
        BY <2>1 DEF ArriveWithCredential, ArriveWithToken, ArriveBare
      <4>2. req'[g] = [ip |-> ip, cred |-> cred, hash |-> hash,
                       proof |-> hash \in known, late |-> hash \in spent]
        BY <4>1 DEF Arrive
      <4>3. req'[g].hash = hash
        BY <4>2
      <4>4. req'[g].late = (hash \in spent)
        BY <4>2, LateField
      <4> QED
        BY <1>3, <4>3, <4>4, Zenon
    <3> QED
      BY <1>1, <3>1, <3>2
  <2>2. ~Answer(g)
    BY <1>3 DEF Answer
  <2>3. CASE UNCHANGED req /\ req[g].hash \in spent /\ pc[g] \notin {"markUsed"} \cup Passed
    <3>1. CASE CheckUsed(g)
      BY <1>1, <2>2, <2>3, <3>1 DEF CheckUsed, IsUsed
    <3>2. CASE LookupPrincipal(g) \/ CheckEnrollment(g) \/ CheckAnonCount(g) \/ LookupInvoice(g)
      BY <1>1, <2>2, <2>3, <3>2 DEF LookupPrincipal, CheckEnrollment, CheckAnonCount, LookupInvoice
    <3>3. CASE IssueChallenge(g) \/ IssueEnrollmentChallenge(g) \/ TrackEnrollment(g)
      BY <1>1, <2>2, <2>3, <3>3 DEF IssueChallenge, IssueEnrollmentChallenge, TrackEnrollment
    <3>4. CASE RecordUsed(g) \/ Mint(g) \/ MintFails(g) \/ Enroll(g) \/ CountRequest(g)
               \/ CountAnonymous(g) \/ Forward(g)
      BY <2>3, <3>4 DEF RecordUsed, Mint, MintFails, Enroll, CountRequest, CountAnonymous, Forward
    <3> QED
      BY <1>3, <2>1, <3>1, <3>2, <3>3, <3>4 DEF HandlerStep
  <2>4. CASE ~(ArriveWithCredential(g) \/ ArriveWithToken(g) \/ ArriveBare(g))
    <3>1. UNCHANGED req
      BY <1>3, <2>2, <2>4
         DEF HandlerStep, LookupPrincipal, CheckEnrollment, CheckAnonCount, LookupInvoice,
             MintFails, CheckUsed, RecordUsed, Mint, Enroll, CountRequest, CountAnonymous, Forward,
             IssueChallenge, IssueEnrollmentChallenge, TrackEnrollment
    <3> QED
      BY <1>3, <2>3, <3>1 DEF ReplayInv
  <2> QED
    BY <2>1, <2>4
<1>4. ASSUME NEW g \in Handlers, HandlerStep(g) PROVE spent' \subseteq used'
  <2>1. CASE RecordUsed(g)
    BY <1>1, <2>1 DEF RecordUsed, MarkUsed
  <2>2. CASE ~RecordUsed(g)
    BY <1>1, <1>4, <2>2
       DEF HandlerStep, ArriveWithCredential, ArriveWithToken, ArriveBare, LookupPrincipal,
           CheckEnrollment, CheckAnonCount, LookupInvoice, MintFails, CheckUsed, Mint, Enroll,
           CountRequest, CountAnonymous, Forward, IssueChallenge, IssueEnrollmentChallenge,
           TrackEnrollment, process, history
  <2> QED
    BY <2>1, <2>2
<1>5. CASE Restart
  BY <1>1, <1>5 DEF Restart, SpentReopen, history
<1>6. CASE AnonCleanup \/ (\E h \in Hashes : Settlement(h) \/ Pay(h) \/ Cancel(h)) \/ UNCHANGED vars
  BY <1>6 DEF AnonCleanup, Settlement, Pay, Cancel, vars, process, history, locals, ReplayInv
<1> QED
  BY <1>2, <1>3, <1>4, <1>5, <1>6 DEF Next, Environment

\* With SQLite, a token that was marked used before its request arrived is
\* refused, whatever overlaps with it and however often the process restarts.
THEOREM ReplayRejectedHolds == Spec => []ReplayRejected
<1>1. Init => ReplayInv
  BY DEF Init, ReplayInv, SpentInit
<1>2. TInv /\ ReplayInv /\ [Next]_vars => ReplayInv'
  BY ReplayStep
<1>3. ReplayInv => ReplayRejected
  BY DEF ReplayInv, ReplayRejected
<1> QED
  BY <1>1, <1>2, <1>3, TypeInit, TInvStep, PTL DEF Spec

-----------------------------------------------------------------------------
(* Credentials *)

\* CredentialHasPrincipal, and what makes it inductive: a credential is signed,
\* by this boot or an earlier one, before it is sent, and is sent after its record.
CredentialInv ==
    /\ \A p \in Principals : signedIn[p] # None => signedIn[p] <= boot
    /\ \A p \in held : signedIn[p] # None
    /\ \A g \in Handlers : pc[g] = "createPrincipal" => signedIn[fresh[g]] # None
    /\ CredentialHasPrincipal

\* Who is recorded stays recorded as long as the process lives.
LEMMA PrincipalStep ==
    ASSUME TInv, [Next]_vars
    PROVE  Restart \/ \A p \in Principals : HasPrincipal(p) => HasPrincipal(p)'
<1> USE DEF TInv, Typed, TypeOK, PrincipalTypeOK, process, HasPrincipal
<1>1. ASSUME NEW g \in Handlers, CountRequest(g), NEW p \in Principals, HasPrincipal(p)
      PROVE  HasPrincipal(p)'
  <2>1. principals[p] \in Nat /\ principals[p] + 1 \in Nat
    BY <1>1
  <2> QED
    BY <1>1, <2>1, NoneAssumption DEF CountRequest, IncrementRequestCount
<1>2. ASSUME NEW g \in Handlers, Enroll(g), NEW p \in Principals, HasPrincipal(p)
      PROVE  HasPrincipal(p)'
  BY <1>2, NoneAssumption DEF Enroll, CreatePrincipal
<1>3. ASSUME NEW g \in Handlers, HandlerStep(g), ~CountRequest(g), ~Enroll(g)
      PROVE  principals' = principals
  BY <1>3
     DEF HandlerStep, ArriveWithCredential, ArriveWithToken, ArriveBare, LookupPrincipal,
         CheckEnrollment, CheckAnonCount, LookupInvoice, MintFails, CheckUsed, RecordUsed, Mint,
         CountAnonymous, Forward, IssueChallenge, IssueEnrollmentChallenge, TrackEnrollment
<1>4. CASE AnonCleanup \/ (\E h \in Hashes : Settlement(h) \/ Pay(h) \/ Cancel(h)) \/ UNCHANGED vars
  BY <1>4 DEF AnonCleanup, Settlement, Pay, Cancel, vars
<1> QED
  BY <1>1, <1>2, <1>3, <1>4 DEF Next, Environment

\* Only Mint signs, and only Enroll sends.
LEMMA CredentialFrame ==
    ASSUME TInv, NEW g \in Handlers, HandlerStep(g)
    PROVE  /\ Mint(g) \/ (signedIn' = signedIn /\ pc'[g] # "createPrincipal")
           /\ Enroll(g) \/ held' = held
<1> USE DEF TInv, Typed, TypeOK, Goto, Step, WithPrice, Answer, credentials
<1>1. CASE ArriveWithCredential(g) \/ ArriveWithToken(g) \/ ArriveBare(g)
  BY <1>1 DEF ArriveWithCredential, ArriveWithToken, ArriveBare
<1>2. CASE LookupPrincipal(g) \/ CheckEnrollment(g) \/ CheckAnonCount(g)
  BY <1>2 DEF LookupPrincipal, CheckEnrollment, CheckAnonCount
<1>3. CASE LookupInvoice(g) \/ MintFails(g) \/ CheckUsed(g) \/ RecordUsed(g)
  BY <1>3 DEF LookupInvoice, MintFails, CheckUsed, RecordUsed, Accepted
<1>4. CASE Mint(g) \/ Enroll(g) \/ CountRequest(g) \/ CountAnonymous(g) \/ Forward(g)
  BY <1>4 DEF Mint, Enroll, CountRequest, CountAnonymous, Forward
<1>5. CASE IssueChallenge(g) \/ IssueEnrollmentChallenge(g) \/ TrackEnrollment(g)
  BY <1>5 DEF IssueChallenge, IssueEnrollmentChallenge, TrackEnrollment
<1> QED
  BY <1>1, <1>2, <1>3, <1>4, <1>5 DEF HandlerStep

LEMMA CredentialStep ==
    ASSUME TInv, CredentialInv, [Next]_vars
    PROVE  CredentialInv'
<1> USE DEF TInv, Typed, TypeOK
<1>1. ASSUME NEW g \in Handlers, Mint(g) PROVE CredentialInv'
  <2>1. PICK p \in Principals :
          /\ signedIn[p] = None /\ signedIn' = [signedIn EXCEPT ![p] = boot]
          /\ fresh' = [fresh EXCEPT ![g] = p]
    BY <1>1 DEF Mint, MintCredential
  <2>2. boot \in Nat /\ boot # None
    BY ConfigAssumption, NoneAssumption
  <2>3. held' = held /\ boot' = boot /\ principals' = principals
    BY <1>1 DEF Mint, start
  <2>4. p \notin held
    BY <2>1 DEF CredentialInv
  <2>5. \A q \in Principals \ {p} : signedIn'[q] = signedIn[q]
    BY <2>1
  <2>6. signedIn'[p] = boot
    BY <2>1
  <2>7. ASSUME NEW k \in Handlers, pc'[k] = "createPrincipal" PROVE signedIn'[fresh'[k]] # None
    <3>1. CASE k = g
      BY <2>1, <2>2, <2>6, <3>1
    <3>2. CASE k # g
      <4>1. pc[k] = "createPrincipal" /\ fresh'[k] = fresh[k] /\ fresh[k] \in Principals
        BY <1>1, <2>1, <2>7, <3>2 DEF Mint, Goto, LocalsOK
      <4> QED
        BY <2>2, <2>5, <2>6, <4>1 DEF CredentialInv
    <3> QED
      BY <3>1, <3>2
  <2>8. CredentialHasPrincipal'
    BY <2>3, <2>4, <2>5 DEF CredentialInv, CredentialHasPrincipal, Valid, HasPrincipal
  <2>9. \A q \in Principals : signedIn'[q] # None => signedIn'[q] <= boot'
    BY <2>2, <2>3, <2>5, <2>6 DEF CredentialInv
  <2>10. \A q \in held' : signedIn'[q] # None
    BY <2>3, <2>4, <2>5 DEF CredentialInv
  <2> QED
    BY <2>7, <2>8, <2>9, <2>10 DEF CredentialInv
<1>2. ASSUME NEW g \in Handlers, Enroll(g) PROVE CredentialInv'
  <2>1. PICK p \in Principals : p = fresh[g] /\ signedIn[p] # None
    BY <1>2 DEF Enroll, LocalsOK, CredentialInv
  <2>2. signedIn' = signedIn /\ boot' = boot /\ held' \subseteq held \cup {p}
    BY <1>2, <2>1 DEF Enroll, start
  <2>3. HasPrincipal(p)' /\ \A q \in Principals : HasPrincipal(q) => HasPrincipal(q)'
    <3>1. principals' = [principals EXCEPT ![p] = 0] /\ 0 # None
      BY <1>2, <2>1, NoneAssumption DEF Enroll, CreatePrincipal
    <3> QED
      BY <3>1 DEF HasPrincipal, PrincipalTypeOK
  <2>4. \A k \in Handlers : pc'[k] = "createPrincipal" => pc[k] = "createPrincipal" /\ fresh'[k] = fresh[k]
    BY <1>2 DEF Enroll, Answer, Goto
  <2> QED
    BY <2>1, <2>2, <2>3, <2>4 DEF CredentialInv, CredentialHasPrincipal, Valid
<1>3. ASSUME NEW g \in Handlers, HandlerStep(g), ~Mint(g), ~Enroll(g) PROVE CredentialInv'
  <2>1. signedIn' = signedIn /\ held' = held /\ pc'[g] # "createPrincipal"
    BY <1>3, CredentialFrame
  <2>2. boot' = boot /\ ~Restart
    BY <1>3, BootKept
  <2>3. \A p \in Principals : HasPrincipal(p) => HasPrincipal(p)'
    BY <1>3, <2>2, PrincipalStep DEF Next
  <2>4. \A k \in Handlers : pc'[k] = "createPrincipal" => pc[k] = "createPrincipal" /\ fresh'[k] = fresh[k]
    BY <1>3, <2>1, Frame
  <2> QED
    BY <2>1, <2>2, <2>3, <2>4 DEF CredentialInv, CredentialHasPrincipal, Valid
<1>4. CASE Restart
  <2>1. boot' = boot + 1 /\ signedIn' = signedIn /\ held' = held
    BY <1>4 DEF Restart, credentials
  <2>2. \A p \in Principals : signedIn[p] # None => signedIn[p] \in Nat /\ signedIn[p] < boot'
    BY <2>1, ConfigAssumption DEF CredentialInv
  <2>3. \A p \in Principals : signedIn[p] # None => signedIn[p] # boot'
    BY <2>2, ConfigAssumption
  <2>4. \A g \in Handlers : pc'[g] # "createPrincipal"
    BY <1>4 DEF Restart
  <2> QED
    BY <2>1, <2>2, <2>3, <2>4, ConfigAssumption DEF CredentialInv, CredentialHasPrincipal, Valid
<1>5. CASE AnonCleanup \/ (\E h \in Hashes : Settlement(h) \/ Pay(h) \/ Cancel(h)) \/ UNCHANGED vars
  BY <1>5 DEF AnonCleanup, Settlement, Pay, Cancel, vars, start, process, credentials, locals,
       CredentialInv, CredentialHasPrincipal, Valid, HasPrincipal
<1> QED
  BY <1>1, <1>2, <1>3, <1>4, <1>5 DEF Next, Environment

\* A credential that validates is never that of an unknown principal, whatever
\* crash or disconnection met its enrollment.
THEOREM CredentialHasPrincipalHolds == Spec => []CredentialHasPrincipal
<1>1. Init => CredentialInv
  BY DEF Init, CredentialInv, CredentialHasPrincipal
<1>2. TInv /\ CredentialInv /\ [Next]_vars => CredentialInv'
  BY CredentialStep
<1>3. CredentialInv => CredentialHasPrincipal
  BY DEF CredentialInv
<1> QED
  BY <1>1, <1>2, <1>3, TypeInit, TInvStep, PTL DEF Spec

-----------------------------------------------------------------------------
(* Payments *)

\* ProofRequired, and what carries it from lnd's answer to the grant: the invoice of
\* a handler past LookupInvoice is settled for good.
ProofInv ==
    /\ \A g \in Handlers : pc[g] \in {"isUsed", "markUsed"} \cup Passed => Settled(req[g].hash)
    /\ ProofRequired

LEMMA SettledStep ==
    ASSUME TInv, [Next]_vars, NEW h \in Hashes, Settled(h)
    PROVE  Settled(h)'
  BY InvoiceStep DEF InvoicesKept, Settled

\* Only LookupInvoice takes a handler past it, and only Forward and Mint grant.
LEMMA ProofFrame ==
    ASSUME TInv, NEW g \in Handlers, HandlerStep(g)
    PROVE  /\ pc'[g] \in {"isUsed", "markUsed"} \cup Passed =>
                /\ pc[g] \in {"isUsed", "markUsed"} \cup Passed \/ Settled(req[g].hash)
                /\ pc[g] \in Redeeming
                /\ req'[g] = req[g]
           /\ Forward(g) \/ grants' = grants
           /\ Mint(g) \/ mints' = mints
<1> USE DEF TInv, Typed, TypeOK, Goto, Step, WithPrice, Answer, history, locals, lnd, Passed, Redeeming
<1>1. CASE ArriveWithCredential(g) \/ ArriveWithToken(g) \/ ArriveBare(g)
  BY <1>1 DEF ArriveWithCredential, ArriveWithToken, ArriveBare
<1>2. CASE LookupPrincipal(g) \/ CheckEnrollment(g) \/ CheckAnonCount(g)
  BY <1>2 DEF LookupPrincipal, CheckEnrollment, CheckAnonCount
<1>3. CASE LookupInvoice(g) \/ MintFails(g) \/ CheckUsed(g) \/ RecordUsed(g)
  BY <1>3 DEF LookupInvoice, MintFails, CheckUsed, RecordUsed, Accepted
<1>4. CASE Mint(g) \/ Enroll(g) \/ CountRequest(g) \/ CountAnonymous(g) \/ Forward(g)
  BY <1>4 DEF Mint, Enroll, CountRequest, CountAnonymous, Forward
<1>5. CASE IssueChallenge(g) \/ IssueEnrollmentChallenge(g) \/ TrackEnrollment(g)
  BY <1>5 DEF IssueChallenge, IssueEnrollmentChallenge, TrackEnrollment
<1> QED
  BY <1>1, <1>2, <1>3, <1>4, <1>5 DEF HandlerStep

LEMMA ProofStep ==
    ASSUME TInv, ProofInv, [Next]_vars
    PROVE  ProofInv'
<1> USE DEF TInv, Typed, TypeOK
<1>1. ASSUME NEW g \in Handlers, HandlerStep(g) PROVE ProofInv'
  <2>3. ASSUME NEW k \in Handlers, pc'[k] \in {"isUsed", "markUsed"} \cup Passed
        PROVE  Settled(req[k].hash)'
    <3>1. Settled(req[k].hash) /\ req[k].hash \in Hashes /\ req'[k] = req[k]
      <4>1. CASE k = g
        BY <1>1, <2>3, <4>1, ProofFrame DEF ProofInv, LocalsOK
      <4>2. CASE k # g
        BY <1>1, <2>3, <4>2, Frame DEF ProofInv, LocalsOK, Redeeming
      <4> QED
        BY <4>1, <4>2
    <3>2. PICK h \in Hashes : h = req[k].hash
      BY <3>1
    <3> QED
      BY <3>1, <3>2, SettledStep DEF Settled
  <2>4. ProofRequired'
    <3> SUFFICES ASSUME NEW h \in Hashes, grants'[h] + mints'[h] > 0 PROVE Settled(h)'
      BY DEF ProofRequired
    <3>1. CASE grants'[h] = grants[h] /\ mints'[h] = mints[h]
      BY <3>1, SettledStep DEF ProofInv, ProofRequired
    <3>2. CASE ~(grants'[h] = grants[h] /\ mints'[h] = mints[h])
      <4>1. Forward(g) \/ Mint(g)
        BY <1>1, <3>2, ProofFrame
      <4>2. h = req[g].hash
        BY <3>2, <4>1 DEF Forward, Mint
      <4>3. Settled(req[g].hash)
        BY <4>1 DEF Forward, Mint, ProofInv, Passed
      <4> QED
        BY <4>2, <4>3, SettledStep
    <3> QED
      BY <3>1, <3>2
  <2> QED
    BY <2>3, <2>4 DEF ProofInv
<1>2. ASSUME UNCHANGED <<grants, mints>> PROVE ProofRequired'
  BY <1>2, SettledStep DEF ProofInv, ProofRequired
<1>3. ASSUME UNCHANGED <<pc, req>>, NEW k \in Handlers, pc'[k] \in {"isUsed", "markUsed"} \cup Passed
      PROVE  Settled(req[k].hash)'
  <2>1. PICK h \in Hashes : h = req[k].hash /\ Settled(h)
    BY <1>3 DEF ProofInv, LocalsOK, Redeeming
  <2> QED
    BY <1>3, <2>1, SettledStep DEF Settled
<1>4. ASSUME NEW h \in Hashes, Settlement(h) \/ Pay(h) \/ Cancel(h) PROVE ProofInv'
  <2>3. UNCHANGED <<grants, mints, pc, req>>
    BY <1>4 DEF Settlement, Pay, Cancel, history, locals
  <2> QED
    BY <1>2, <1>3, <2>3 DEF ProofInv
<1>5. CASE Restart
  <2>1. UNCHANGED <<grants, mints>> /\ \A k \in Handlers : pc'[k] = "idle"
    BY <1>5 DEF Restart, history
  <2> QED
    BY <1>2, <2>1 DEF ProofInv, Passed
<1>6. CASE AnonCleanup \/ UNCHANGED vars
  BY <1>6 DEF AnonCleanup, vars, lnd, history, locals, ProofInv, ProofRequired,
       Settled
<1> QED
  BY <1>1, <1>4, <1>5, <1>6 DEF Next, Environment

LEMMA ProofInvHolds == Spec => []ProofInv
<1>1. Init => ProofInv
  BY DEF Init, ProofInv, ProofRequired, Passed
<1>2. TInv /\ ProofInv /\ [Next]_vars => ProofInv'
  BY ProofStep
<1> QED
  BY <1>1, <1>2, TypeInit, TInvStep, PTL DEF Spec

\* Nothing is forwarded and no credential is minted for an unsettled invoice.
THEOREM ProofRequiredHolds == Spec => []ProofRequired
<1>1. ProofInv => ProofRequired
  BY DEF ProofInv
<1> QED
  BY <1>1, ProofInvHolds, PTL

-----------------------------------------------------------------------------
(* Stakes *)

\* A stake of this boot.
CurrentStake(h) == invoices[h] # None /\ invoices[h].memo = "stake" /\ invoices[h].bornIn = boot

\* Stakes are asked for under a curve only, and no invoice is of a boot to come.
BornOK ==
    /\ \A h \in Hashes : invoices[h] # None => invoices[h].bornIn <= boot
    /\ \A h \in Hashes : CurrentStake(h) => curve
    /\ \A g \in Handlers : pc[g] \in {"anonCount", "addStake"} => curve

\* The token of a request has left the proxy, and a handler that enrols its client
\* has marked the stake before it mints.
EnrollingOK ==
    \A g \in Handlers :
        /\ pc[g] # "idle" /\ req[g].hash # None => Sent(req[g].hash)
        /\ pc[g] = "mint" => IsUsed(req[g].hash)
        /\ enrolling[g] => pc[g] \in {"lookupInvoice", "isUsed", "markUsed", "mint", "createPrincipal"}

\* A stake on its way to be spent as a toll has been used already, and is refused.
AsideOK ==
    \A g \in Handlers :
        /\ pc[g] \in {"lookupInvoice", "isUsed", "markUsed", "anonIncrement", "forward"}
        /\ req[g].cred = None /\ ~enrolling[g] /\ CurrentStake(req[g].hash)
        => pc[g] \in {"lookupInvoice", "isUsed"} /\ IsUsed(req[g].hash)

StakeInv == BornOK /\ EnrollingOK /\ StakeTracked /\ AsideOK

\* The invoices a process meets keep their boot and their memo.
LEMMA StakeKept ==
    ASSUME TInv, [Next]_vars, boot' = boot, NEW h \in Hashes, invoices[h] # None
    PROVE  /\ CurrentStake(h)' <=> CurrentStake(h)
           /\ Sent(h) => Sent(h)'
  BY InvoiceStep DEF InvoicesKept, CurrentStake, Sent

\* A stake comes only from IssueEnrollmentChallenge, and is sent only by TrackEnrollment.
LEMMA StakeFrame ==
    ASSUME TInv, NEW g \in Handlers, HandlerStep(g), NEW h \in Hashes
    PROVE  /\ invoices'[h] = invoices[h]
              \/ (invoices[h] = None /\ invoices'[h].bornIn = boot
                  /\ (invoices'[h].memo = "toll" \/ (pc[g] = "addStake" /\ ~Sent(h)')))
              \/ (TrackEnrollment(g) /\ h = fresh[g] /\ h \in pendingEnrollments')
           /\ h \in pendingEnrollments => h \in pendingEnrollments' \/ (Mint(g) /\ h = req[g].hash)
<1> USE DEF TInv, Typed, TypeOK, lnd, process
<1>1. CASE IssueChallenge(g)
  <2>1. price[g] \in Nat /\ boot \in Nat
    BY ConfigAssumption
  <2> QED
    BY <1>1, <2>1 DEF IssueChallenge, NewInvoice
<1>2. CASE IssueEnrollmentChallenge(g)
  BY <1>2 DEF IssueEnrollmentChallenge, NewInvoice, Sent
<1>3. CASE TrackEnrollment(g)
  BY <1>3 DEF TrackEnrollment, LocalsOK
<1>4. CASE Mint(g)
  BY <1>4 DEF Mint, RemovePendingEnrollment
<1>5. CASE ~(IssueChallenge(g) \/ IssueEnrollmentChallenge(g) \/ TrackEnrollment(g) \/ Mint(g))
  BY <1>5
     DEF HandlerStep, ArriveWithCredential, ArriveWithToken, ArriveBare, LookupPrincipal,
         CheckEnrollment, CheckAnonCount, LookupInvoice, MintFails, CheckUsed, RecordUsed, Enroll,
         CountRequest, CountAnonymous, Forward
<1> QED
  BY <1>1, <1>2, <1>3, <1>4, <1>5

LEMMA BornStep ==
    ASSUME TInv, BornOK, [Next]_vars
    PROVE  BornOK'
<1> USE DEF TInv, Typed, TypeOK
<1>1. ASSUME NEW g \in Handlers, HandlerStep(g) PROVE BornOK'
  <2>1. boot' = boot /\ curve' = curve /\ boot \in Nat
    BY <1>1, BootKept, ConfigAssumption
  <2>2. ASSUME NEW h \in Hashes, invoices'[h] # None
        PROVE  invoices'[h].bornIn <= boot /\ (CurrentStake(h)' => curve)
    <3>1. CASE invoices[h] # None
      BY <1>1, <2>1, <3>1, InvoiceStep, StakeKept DEF InvoicesKept, BornOK, Next
    <3>2. CASE invoices[h] = None
      <4>1. /\ invoices'[h].bornIn = boot
            /\ invoices'[h].memo = "toll" \/ pc[g] = "addStake"
        BY <1>1, <2>2, <3>2, StakeFrame DEF TrackEnrollment, MadeOK
      <4> QED
        BY <2>1, <4>1 DEF BornOK, CurrentStake
    <3> QED
      BY <3>1, <3>2
  <2>3. ASSUME NEW k \in Handlers, pc'[k] \in {"anonCount", "addStake"} PROVE curve
    <3>1. CASE k # g
      BY <1>1, <2>3, <3>1, Frame DEF BornOK
    <3>2. CASE k = g
      <4> USE DEF Goto, Step, WithPrice, Answer
      <4>1. CASE ArriveWithCredential(g) \/ ArriveWithToken(g) \/ ArriveBare(g)
        BY <2>3, <3>2, <4>1 DEF ArriveWithCredential, ArriveWithToken, ArriveBare
      <4>2. CASE LookupPrincipal(g) \/ CheckEnrollment(g) \/ CheckAnonCount(g)
        BY <2>3, <3>2, <4>2 DEF LookupPrincipal, CheckEnrollment, CheckAnonCount, BornOK
      <4>3. CASE LookupInvoice(g) \/ MintFails(g) \/ CheckUsed(g) \/ RecordUsed(g)
        BY <2>3, <3>2, <4>3 DEF LookupInvoice, MintFails, CheckUsed, RecordUsed, Accepted
      <4>4. CASE Mint(g) \/ Enroll(g) \/ CountRequest(g) \/ CountAnonymous(g) \/ Forward(g)
        BY <2>3, <3>2, <4>4 DEF Mint, Enroll, CountRequest, CountAnonymous, Forward
      <4>5. CASE IssueChallenge(g) \/ IssueEnrollmentChallenge(g) \/ TrackEnrollment(g)
        BY <2>3, <3>2, <4>5 DEF IssueChallenge, IssueEnrollmentChallenge, TrackEnrollment
      <4> QED
        BY <1>1, <4>1, <4>2, <4>3, <4>4, <4>5 DEF HandlerStep
    <3> QED
      BY <3>1, <3>2
  <2>4. \A h \in Hashes : CurrentStake(h)' => invoices'[h] # None
    BY DEF CurrentStake
  <2> QED
    BY <2>1, <2>2, <2>3, <2>4 DEF BornOK
<1>2. CASE Restart
  <2>1. boot \in Nat /\ boot' = boot + 1 /\ invoices' = invoices /\ \A k \in Handlers : pc'[k] = "idle"
    BY <1>2, ConfigAssumption DEF Restart, lnd
  <2>2. \A h \in Hashes : invoices[h] # None => invoices[h].bornIn \in Nat /\ invoices[h].bornIn <= boot
    BY DEF BornOK, Invoice
  <2> QED
    BY <2>1, <2>2 DEF BornOK, CurrentStake
<1>3. ASSUME NEW h \in Hashes, Settlement(h) \/ Pay(h) \/ Cancel(h) PROVE BornOK'
  <2>1. boot' = boot /\ curve' = curve /\ pc' = pc
    BY <1>3 DEF Settlement, Pay, Cancel, start
  <2>2. \A j \in Hashes : invoices'[j] # None => invoices[j] # None
    BY <1>3 DEF Settlement, Pay, Cancel
  <2> QED
    BY <2>1, <2>2, InvoiceStep, StakeKept DEF InvoicesKept, BornOK, CurrentStake
<1>4. CASE AnonCleanup \/ UNCHANGED vars
  BY <1>4 DEF AnonCleanup, vars, lnd, start, BornOK, CurrentStake
<1> QED
  BY <1>1, <1>2, <1>3, <1>4 DEF Next, Environment

LEMMA EnrollingStep ==
    ASSUME TInv, EnrollingOK, [Next]_vars
    PROVE  EnrollingOK'
<1> USE DEF TInv, Typed, TypeOK
<1>1. \A h \in Hashes : Sent(h) => Sent(h)'
  BY InvoiceStep DEF InvoicesKept, Sent
<1> DEFINE OK(k) == /\ pc[k] # "idle" /\ req[k].hash # None => Sent(req[k].hash)
                    /\ pc[k] = "mint" => IsUsed(req[k].hash)
                    /\ enrolling[k] => pc[k] \in {"lookupInvoice", "isUsed", "markUsed", "mint", "createPrincipal"}
<1>2. ASSUME NEW g \in Handlers, HandlerStep(g), NEW k \in Handlers PROVE OK(k)'
  <2>1. used \subseteq used'
    BY <1>2, UsedStep, BootKept DEF Next
  <2>2. \A r \in Request : r.hash # None => r.hash \in Hashes
    BY DEF Request
  <2>3. CASE k # g
    <3>1. pc'[k] = pc[k] /\ req'[k] = req[k] /\ enrolling'[k] = enrolling[k]
      BY <1>2, <2>3, Frame
    <3>2. pc'[k] # "idle" /\ req'[k].hash # None => Sent(req[k].hash)'
      <4>1. SUFFICES ASSUME pc[k] # "idle", req[k].hash # None PROVE Sent(req[k].hash)'
        BY <3>1 DEF Sent
      <4>2. PICK h \in Hashes : h = req[k].hash /\ Sent(h)
        BY <2>2, <4>1 DEF LocalsOK, EnrollingOK
      <4> QED
        BY <1>1, <3>1, <4>2 DEF Sent
    <3> QED
      BY <2>1, <3>1, <3>2 DEF EnrollingOK, IsUsed, Sent
  <2>4. CASE k = g
    <3> USE DEF Goto, Step, WithPrice, Answer, locals
    <3>1. CASE Answer(g)
      BY <2>4, <3>1
    <3>2. ASSUME NEW ip, NEW cred, NEW hash \in Hashes \cup {None}, Arrive(g, ip, cred, hash),
                 hash # None => Sent(hash), enrolling' = enrolling, UNCHANGED invoices,
                 pc'[g] # "mint"
          PROVE  OK(g)'
      <4>1. req'[g].hash = hash /\ ~enrolling'[g]
        BY <3>2 DEF Arrive, EnrollingOK
      <4> QED
        BY <3>2, <4>1 DEF Sent
    <3>3. CASE ArriveWithCredential(g)
      <4>1. PICK ip \in IPs, p \in held, hash \in {h \in Hashes : Sent(h)} \cup {None} : Arrive(g, ip, p, hash)
        BY <3>3 DEF ArriveWithCredential
      <4> QED
        BY <2>4, <3>2, <3>3, <4>1 DEF ArriveWithCredential, lnd
    <3>4. CASE ArriveWithToken(g)
      <4>1. PICK ip \in IPs, h \in Hashes : Sent(h) /\ Arrive(g, ip, None, h)
        BY <3>4 DEF ArriveWithToken
      <4> QED
        BY <2>4, <3>2, <3>4, <4>1 DEF ArriveWithToken, lnd
    <3>5. CASE ArriveBare(g)
      <4>1. PICK ip \in IPs : Arrive(g, ip, None, None)
        BY <3>5 DEF ArriveBare
      <4> QED
        BY <2>4, <3>2, <3>5, <4>1 DEF ArriveBare, lnd
    <3>6. CASE ~Answer(g) /\ ~(ArriveWithCredential(g) \/ ArriveWithToken(g) \/ ArriveBare(g))
      <4>1. pc[g] # "idle" /\ req' = req /\ req[g] \in Request
        BY <1>2, <3>6
           DEF HandlerStep, LookupPrincipal, CheckEnrollment, CheckAnonCount, LookupInvoice,
               MintFails, CheckUsed, RecordUsed, Mint, Enroll, CountRequest, CountAnonymous, Forward,
               IssueChallenge, IssueEnrollmentChallenge, TrackEnrollment, LocalsOK
      <4>2. pc'[g] # "idle" /\ req'[g].hash # None => Sent(req[g].hash)'
        <5>1. SUFFICES ASSUME req[g].hash # None PROVE Sent(req[g].hash)'
          BY <4>1 DEF Sent
        <5>2. PICK h \in Hashes : h = req[g].hash /\ Sent(h)
          BY <2>2, <4>1, <5>1 DEF EnrollingOK
        <5> QED
          BY <1>1, <4>1, <5>2 DEF Sent
      <4>3. pc'[g] = "mint" => IsUsed(req[g].hash)'
        BY <1>2, <3>6
           DEF HandlerStep, LookupPrincipal, CheckEnrollment, CheckAnonCount, LookupInvoice,
               MintFails, CheckUsed, RecordUsed, MarkUsed, IsUsed, Mint, Enroll, CountRequest,
               CountAnonymous, Forward, IssueChallenge, IssueEnrollmentChallenge, TrackEnrollment
      <4>4. enrolling'[g] => pc'[g] \in {"lookupInvoice", "isUsed", "markUsed", "mint", "createPrincipal"}
        BY <1>2, <3>6
           DEF HandlerStep, LookupPrincipal, CheckEnrollment, CheckAnonCount, LookupInvoice,
               MintFails, CheckUsed, RecordUsed, Mint, Enroll, CountRequest, CountAnonymous, Forward,
               IssueChallenge, IssueEnrollmentChallenge, TrackEnrollment, EnrollingOK, Accepted
      <4> QED
        BY <2>4, <4>1, <4>2, <4>3, <4>4 DEF Sent, IsUsed
    <3> QED
      BY <1>2, <3>1, <3>3, <3>4, <3>5, <3>6
  <2> QED
    BY <2>3, <2>4
<1>3. ASSUME UNCHANGED <<pc, req, enrolling, used>>, NEW k \in Handlers PROVE OK(k)'
  <2>1. pc[k] # "idle" /\ req[k].hash # None => Sent(req[k].hash)'
    <3>1. SUFFICES ASSUME pc[k] # "idle", req[k].hash # None PROVE Sent(req[k].hash)'
      OBVIOUS
    <3>2. PICK h \in Hashes : h = req[k].hash /\ Sent(h)
      BY <3>1 DEF LocalsOK, EnrollingOK, Request
    <3> QED
      BY <1>1, <1>3, <3>2 DEF Sent
  <2> QED
    BY <1>3, <2>1 DEF EnrollingOK, IsUsed, Sent
<1>4. ASSUME Restart, NEW k \in Handlers PROVE OK(k)'
  BY <1>4 DEF Restart
<1>5. Restart \/ (\E g \in Handlers : HandlerStep(g)) \/ UNCHANGED <<pc, req, enrolling, used>>
  BY DEF Next, Environment, AnonCleanup, Settlement, Pay, Cancel, vars, process, locals
<1> QED
  BY <1>2, <1>3, <1>4, <1>5 DEF EnrollingOK

LEMMA TrackedStep ==
    ASSUME TInv, StakeInv, [Next]_vars
    PROVE  StakeTracked'
<1> USE DEF TInv, Typed, TypeOK, SpentTypeOK
<1> SUFFICES ASSUME NEW h \in Hashes, Sent(h)', CurrentStake(h)', ~IsUsed(h)'
             PROVE  h \in pendingEnrollments'
  BY DEF StakeTracked, CurrentStake, Sent, IsUsed
<1>1. ASSUME Sent(h), CurrentStake(h), ~IsUsed(h) PROVE h \in pendingEnrollments
  BY <1>1 DEF StakeInv, StakeTracked, CurrentStake
<1>2. ASSUME NEW g \in Handlers, HandlerStep(g) PROVE h \in pendingEnrollments'
  <2>1. boot' = boot /\ used \subseteq used'
    BY <1>2, UsedStep, BootKept DEF Next
  <2>2. CASE invoices'[h] = invoices[h]
    <3>1. h \in pendingEnrollments /\ ~IsUsed(h)
      BY <1>1, <2>1, <2>2 DEF Sent, CurrentStake, IsUsed
    <3>2. Mint(g) => h # req[g].hash
      BY <3>1 DEF Mint, StakeInv, EnrollingOK
    <3> QED
      BY <1>2, <3>1, <3>2, StakeFrame
  <2>3. CASE invoices'[h] # invoices[h]
    BY <1>2, <2>3, StakeFrame DEF CurrentStake
  <2> QED
    BY <2>2, <2>3
<1>3. CASE Restart
  <2>1. invoices[h].bornIn <= boot /\ invoices[h].bornIn = boot + 1
    BY <1>3 DEF Restart, lnd, StakeInv, BornOK, CurrentStake
  <2>2. boot \in Nat
    BY ConfigAssumption
  <2> QED
    BY <2>1, <2>2
<1>4. ASSUME NEW j \in Hashes, Settlement(j) \/ Pay(j) \/ Cancel(j) PROVE h \in pendingEnrollments'
  <2>1. UNCHANGED <<boot, used, pendingEnrollments>>
    BY <1>4 DEF Settlement, Pay, Cancel, start, process
  <2>2. Sent(h)
    BY <1>4 DEF Settlement, Pay, Cancel, Sent
  <2>3. CurrentStake(h)
    BY <2>1, <2>2, StakeKept, <1>4 DEF Sent, Next, Environment
  <2> QED
    BY <1>1, <2>1, <2>2, <2>3 DEF IsUsed
<1>5. CASE AnonCleanup \/ UNCHANGED vars
  BY <1>1, <1>5 DEF AnonCleanup, vars, start, process, lnd, Sent, CurrentStake, IsUsed
<1> QED
  BY <1>2, <1>3, <1>4, <1>5 DEF Next, Environment

LEMMA AsideStep ==
    ASSUME TInv, StakeInv, [Next]_vars
    PROVE  AsideOK'
<1> USE DEF TInv, Typed, TypeOK, SpentTypeOK
<1> DEFINE At == {"lookupInvoice", "isUsed", "markUsed", "anonIncrement", "forward"}
<1> DEFINE OK(k) == pc[k] \in {"lookupInvoice", "isUsed"} /\ IsUsed(req[k].hash)
<1>1. ASSUME boot' = boot, NEW k \in Handlers, pc[k] \in At,
             CurrentStake(req[k].hash)', req'[k] = req[k]
      PROVE  CurrentStake(req[k].hash)
  <2>1. PICK h \in Hashes : h = req[k].hash /\ invoices[h] # None
    BY <1>1, NoneAssumption DEF LocalsOK, Redeeming, Passed, StakeInv, EnrollingOK, Sent
  <2> QED
    BY <1>1, <2>1, StakeKept DEF CurrentStake
<1>2. ASSUME NEW g \in Handlers, HandlerStep(g), NEW k \in Handlers, pc'[k] \in At,
             req'[k].cred = None, ~enrolling'[k], CurrentStake(req[k].hash)'
      PROVE  OK(k)'
  <2>1. boot' = boot /\ curve' = curve /\ used \subseteq used'
    BY <1>2, UsedStep, BootKept DEF Next
  <2>2. CASE k # g
    <3>1. pc'[k] = pc[k] /\ req'[k] = req[k] /\ enrolling'[k] = enrolling[k]
      BY <1>2, <2>2, Frame
    <3>2. CurrentStake(req[k].hash)
      BY <1>1, <1>2, <2>1, <3>1
    <3>3. OK(k)
      BY <1>2, <3>1, <3>2 DEF StakeInv, AsideOK
    <3> QED
      BY <2>1, <3>1, <3>3 DEF IsUsed
  <2>3. CASE k = g
    <3> USE DEF Goto, Step, WithPrice, locals
    <3>1. ~Answer(g)
      BY <1>2, <2>3 DEF Answer
    <3>2. CASE ArriveWithToken(g)
      <4>1. PICK h \in Hashes : Sent(h) /\ req'[g].hash = h
        BY <3>2 DEF ArriveWithToken, Arrive
      <4>2. ~curve /\ invoices' = invoices
        BY <1>2, <2>3, <3>2 DEF ArriveWithToken, lnd
      <4>3. CurrentStake(h)
        BY <1>2, <2>1, <2>3, <4>1, <4>2 DEF CurrentStake
      <4> QED
        BY <4>2, <4>3 DEF StakeInv, BornOK
    <3>3. CASE ArriveWithCredential(g) \/ ArriveBare(g)
      BY <1>2, <2>3, <3>3 DEF ArriveWithCredential, ArriveBare
    <3>4. CASE LookupPrincipal(g)
      <4>1. req[g].cred \in Principals
        BY <3>4 DEF LookupPrincipal, LocalsOK
      <4> QED
        BY <1>2, <2>3, <3>1, <3>4, <4>1, NoneAssumption DEF LookupPrincipal
    <3>5. CASE CheckEnrollment(g)
      <4>1. req' = req /\ invoices' = invoices /\ used' = used /\ pc'[g] = "lookupInvoice"
        BY <3>5 DEF CheckEnrollment, lnd, process
      <4>2. PICK h \in Hashes : h = req[g].hash /\ Sent(h)
        BY <3>5, NoneAssumption DEF CheckEnrollment, LocalsOK, Redeeming, StakeInv, EnrollingOK
      <4>3. CurrentStake(h)
        BY <1>2, <2>1, <2>3, <4>1, <4>2 DEF CurrentStake
      <4>4. h \notin pendingEnrollments
        BY <1>2, <2>3, <3>5, <4>2 DEF CheckEnrollment, IsPendingEnrollment
      <4>5. IsUsed(h)
        BY <4>2, <4>3, <4>4 DEF StakeInv, StakeTracked, CurrentStake
      <4> QED
        BY <2>3, <4>1, <4>2, <4>5 DEF IsUsed
    <3>6. CASE LookupInvoice(g) \/ MintFails(g) \/ CheckUsed(g) \/ RecordUsed(g) \/ CountAnonymous(g)
      <4>1. pc[g] \in At /\ req' = req /\ enrolling' = enrolling
        BY <3>1, <3>6 DEF LookupInvoice, MintFails, CheckUsed, RecordUsed, CountAnonymous
      <4>2. CurrentStake(req[g].hash)
        BY <1>1, <1>2, <2>1, <2>3, <4>1
      <4>3. OK(g)
        BY <1>2, <2>3, <4>1, <4>2 DEF StakeInv, AsideOK
      <4>4. LookupInvoice(g)
        BY <3>1, <3>6, <4>3 DEF MintFails, CheckUsed, RecordUsed, CountAnonymous
      <4> QED
        BY <2>1, <2>3, <3>1, <4>1, <4>3, <4>4 DEF LookupInvoice, IsUsed
    <3>7. CASE CountRequest(g)
      <4>1. req[g].cred \in Principals /\ req' = req
        BY <3>7 DEF CountRequest, LocalsOK
      <4> QED
        BY <1>2, <2>3, <4>1, NoneAssumption
    <3>8. CASE CheckAnonCount(g) \/ Mint(g) \/ Enroll(g) \/ Forward(g)
      BY <1>2, <2>3, <3>1, <3>8 DEF CheckAnonCount, Mint, Enroll, Forward
    <3>9. CASE IssueChallenge(g) \/ IssueEnrollmentChallenge(g) \/ TrackEnrollment(g)
      BY <1>2, <2>3, <3>1, <3>9 DEF IssueChallenge, IssueEnrollmentChallenge, TrackEnrollment
    <3> QED
      BY <1>2, <3>2, <3>3, <3>4, <3>5, <3>6, <3>7, <3>8, <3>9 DEF HandlerStep
  <2> QED
    BY <2>2, <2>3
<1>3. ASSUME UNCHANGED <<boot, pc, req, enrolling, used>>, NEW k \in Handlers, pc[k] \in At,
             req[k].cred = None, ~enrolling[k], CurrentStake(req[k].hash)'
      PROVE  OK(k)'
  <2>1. CurrentStake(req[k].hash)
    BY <1>1, <1>3
  <2>2. OK(k)
    BY <1>3, <2>1 DEF StakeInv, AsideOK
  <2> QED
    BY <1>3, <2>2 DEF IsUsed
<1>4. CASE Restart
  BY <1>4 DEF Restart, AsideOK
<1>5. Restart \/ (\E g \in Handlers : HandlerStep(g)) \/ UNCHANGED <<boot, pc, req, enrolling, used>>
  BY DEF Next, Environment, AnonCleanup, Settlement, Pay, Cancel, vars, start, process, locals
<1>6. ASSUME \E g \in Handlers : HandlerStep(g) PROVE AsideOK'
  BY <1>2, <1>6 DEF AsideOK
<1>7. ASSUME UNCHANGED <<boot, pc, req, enrolling, used>> PROVE AsideOK'
  BY <1>3, <1>7 DEF AsideOK
<1> QED
  BY <1>4, <1>5, <1>6, <1>7

LEMMA StakeInvHolds == Spec => []StakeInv
<1>1. Init => StakeInv
  BY DEF Init, StakeInv, BornOK, EnrollingOK, StakeTracked, AsideOK, CurrentStake, Sent
<1>2. TInv /\ StakeInv /\ [Next]_vars => StakeInv'
  BY BornStep, EnrollingStep, TrackedStep, AsideStep DEF StakeInv
<1> QED
  BY <1>1, <1>2, TypeInit, TInvStep, PTL DEF Spec

\* A stake that a client of this boot holds and nobody has redeemed is known to
\* isPendingEnrollment, however enrollments overlap.
THEOREM StakeTrackedHolds == Spec => []StakeTracked
<1>1. StakeInv => StakeTracked
  BY DEF StakeInv
<1> QED
  BY <1>1, StakeInvHolds, PTL

\* Within a boot, a stake paid without a credential never opens the gate as a toll.
THEOREM StakeBuysCredentialHolds == Spec => []StakeBuysCredential
<1>1. TInv /\ StakeInv => StakeBuysCredential
  <2> SUFFICES ASSUME TInv, StakeInv, NEW g \in Handlers, StakeAsToll(g),
                      invoices[req[g].hash].bornIn = boot
               PROVE  FALSE
    BY DEF StakeBuysCredential
  <2>1. req[g].hash \in Hashes /\ pc[g] # "idle" /\ ~enrolling[g]
    BY DEF StakeAsToll, TInv, Typed, LocalsOK, Redeeming, Passed, StakeInv, EnrollingOK
  <2>2. CurrentStake(req[g].hash)
    BY <2>1, NoneAssumption DEF StakeAsToll, CurrentStake, StakeInv, EnrollingOK, Sent
  <2> QED
    BY <2>1, <2>2 DEF StakeAsToll, StakeInv, AsideOK
<1> QED
  BY <1>1, StakeInvHolds, TypeInit, TInvStep, PTL DEF Spec

-----------------------------------------------------------------------------
(* Metering *)

\* The requests about to be forwarded for a principal.
Leaving(p) == {g \in Handlers : pc[g] = "forward" /\ req[g].cred = p}

\* What a handler knows of principals: a request has the credential its client
\* holds, and an identifier being enrolled is nobody else's.
ClientsOK ==
    \A g \in Handlers :
        /\ pc[g] # "idle" /\ req[g].cred # None => req[g].cred \in held
        /\ pc[g] = "anonIncrement" => req[g].cred = None
        /\ pc[g] = "createPrincipal" =>
            /\ fresh[g] \notin held
            /\ \A k \in Handlers : pc[k] = "createPrincipal" /\ fresh[k] = fresh[g] => k = g

\* MeteringExact, and what makes it inductive: the record that an enrollment
\* creates starts at 0, as does the count of what was forwarded under it.
MeterInv ==
    /\ ClientsOK
    /\ \A p \in Principals \ held : metered[p] = 0
    /\ MeteringExact

\* The request of a handler is the one that arrived.
LEMMA RequestStep ==
    ASSUME TInv, NEW g \in Handlers, HandlerStep(g)
    PROVE  \/ pc'[g] = "idle"
           \/ pc[g] # "idle" /\ req'[g] = req[g]
           \/ /\ pc[g] = "idle" /\ pc'[g] \notin {"anonIncrement", "forward"}
              /\ req'[g].cred \in held \cup {None}
<1> USE DEF TInv, Typed, TypeOK, Goto, Step, WithPrice, Answer, locals
<1>1. CASE ArriveWithCredential(g)
  BY <1>1 DEF ArriveWithCredential, Arrive
<1>2. CASE ArriveWithToken(g) \/ ArriveBare(g)
  BY <1>2 DEF ArriveWithToken, ArriveBare, Arrive
<1>3. CASE ~(ArriveWithCredential(g) \/ ArriveWithToken(g) \/ ArriveBare(g))
  BY <1>3
     DEF HandlerStep, LookupPrincipal, CheckEnrollment, CheckAnonCount, LookupInvoice,
         MintFails, CheckUsed, RecordUsed, Mint, Enroll, CountRequest, CountAnonymous, Forward,
         IssueChallenge, IssueEnrollmentChallenge, TrackEnrollment
<1> QED
  BY <1>1, <1>2, <1>3

\* Only CountRequest and Forward move a credentialed request to and from the
\* upstream, and with Enroll they alone touch the counts.
LEMMA MeterFrame ==
    ASSUME TInv, ClientsOK, NEW g \in Handlers, HandlerStep(g)
    PROVE  /\ Forward(g) \/ (pc[g] # "forward" /\ metered' = metered)
           /\ CountRequest(g) \/ Enroll(g) \/ principals' = principals
           /\ CountRequest(g) \/ (pc'[g] = "forward" => req'[g].cred = None)
           /\ pc'[g] = "anonIncrement" => req'[g].cred = None
<1> USE DEF TInv, Typed, TypeOK, Goto, Step, WithPrice, Answer, history, locals, process
<1>1. CASE ArriveWithCredential(g) \/ ArriveWithToken(g) \/ ArriveBare(g)
  BY <1>1 DEF ArriveWithCredential, ArriveWithToken, ArriveBare, Arrive
<1>2. CASE LookupPrincipal(g) \/ CheckEnrollment(g) \/ CheckAnonCount(g)
  BY <1>2 DEF LookupPrincipal, CheckEnrollment, CheckAnonCount
<1>3. CASE LookupInvoice(g) \/ MintFails(g) \/ CheckUsed(g) \/ RecordUsed(g)
  BY <1>3 DEF LookupInvoice, MintFails, CheckUsed, RecordUsed, Accepted
<1>4. CASE Mint(g) \/ Enroll(g) \/ CountRequest(g) \/ CountAnonymous(g) \/ Forward(g)
  BY <1>4 DEF Mint, Enroll, CountRequest, CountAnonymous, Forward, ClientsOK
<1>5. CASE IssueChallenge(g) \/ IssueEnrollmentChallenge(g) \/ TrackEnrollment(g)
  BY <1>5 DEF IssueChallenge, IssueEnrollmentChallenge, TrackEnrollment
<1> QED
  BY <1>1, <1>2, <1>3, <1>4, <1>5 DEF HandlerStep

\* What one handler more, or less, about to forward does to their number.
LEMMA LeavingCount ==
    ASSUME NEW p
    PROVE  /\ IsFiniteSet(Leaving(p)) /\ Cardinality(Leaving(p)) \in Nat
           /\ \A g : g \notin Leaving(p) => Cardinality(Leaving(p) \cup {g}) = Cardinality(Leaving(p)) + 1
           /\ \A g : g \in Leaving(p) => Cardinality(Leaving(p) \ {g}) = Cardinality(Leaving(p)) - 1
<1>1. IsFiniteSet(Leaving(p))
  BY HandlersAssumption, FS_Subset DEF Leaving
<1> QED
  BY <1>1, FS_CardinalityType, FS_AddElement, FS_RemoveElement

LEMMA ClientsStep ==
    ASSUME TInv, CredentialInv, ClientsOK, [Next]_vars
    PROVE  ClientsOK'
<1> USE DEF TInv, Typed, TypeOK
<1>1. ASSUME NEW g \in Handlers, HandlerStep(g) PROVE ClientsOK'
  <2>1. held \subseteq held'
    BY <1>1, CredentialFrame DEF Enroll
  <2>2. ASSUME NEW k \in Handlers PROVE pc'[k] # "idle" /\ req'[k].cred # None => req'[k].cred \in held'
    <3>1. CASE k = g
      BY <1>1, <2>1, <3>1, RequestStep DEF ClientsOK
    <3>2. CASE k # g
      BY <1>1, <2>1, <3>2, Frame DEF ClientsOK
    <3> QED
      BY <3>1, <3>2
  <2>3. ASSUME NEW k \in Handlers, pc'[k] = "anonIncrement" PROVE req'[k].cred = None
    <3>1. CASE k = g
      BY <1>1, <2>3, <3>1, MeterFrame
    <3>2. CASE k # g
      BY <1>1, <2>3, <3>2, Frame DEF ClientsOK
    <3> QED
      BY <3>1, <3>2
  <2>4. ASSUME NEW k \in Handlers, pc'[k] = "createPrincipal"
        PROVE  /\ fresh'[k] \notin held'
               /\ \A j \in Handlers : pc'[j] = "createPrincipal" /\ fresh'[j] = fresh'[k] => j = k
    <3>1. CASE Mint(g)
      <4>1. PICK p \in Principals : signedIn[p] = None /\ fresh' = [fresh EXCEPT ![g] = p]
        BY <3>1 DEF Mint, MintCredential
      <4>2. p \notin held /\ held' = held /\ fresh'[g] = p
        BY <3>1, <4>1 DEF Mint, CredentialInv
      <4>3. \A j \in Handlers \ {g} : pc'[j] = "createPrincipal" =>
                pc[j] = "createPrincipal" /\ fresh'[j] = fresh[j] /\ fresh[j] # p
        BY <1>1, <4>1, Frame DEF CredentialInv
      <4> QED
        BY <2>4, <4>2, <4>3 DEF ClientsOK
    <3>2. CASE ~Mint(g)
      <4>1. \A j \in Handlers : pc'[j] = "createPrincipal" =>
                j # g /\ pc[j] = "createPrincipal" /\ fresh'[j] = fresh[j]
        BY <1>1, <3>2, CredentialFrame, Frame
      <4>2. fresh[k] \notin held'
        <5>1. CASE Enroll(g)
          <6>1. pc[g] = "createPrincipal" /\ fresh[g] # fresh[k]
            BY <2>4, <4>1, <5>1 DEF Enroll, ClientsOK
          <6> QED
            BY <2>4, <4>1, <5>1, <6>1 DEF Enroll, ClientsOK
        <5>2. CASE ~Enroll(g)
          BY <1>1, <2>4, <4>1, <5>2, CredentialFrame DEF ClientsOK
        <5> QED
          BY <5>1, <5>2
      <4> QED
        BY <2>4, <4>1, <4>2 DEF ClientsOK
    <3> QED
      BY <3>1, <3>2
  <2> QED
    BY <2>2, <2>3, <2>4 DEF ClientsOK
<1>2. CASE Restart
  BY <1>2 DEF Restart, ClientsOK
<1>3. CASE AnonCleanup \/ (\E h \in Hashes : Settlement(h) \/ Pay(h) \/ Cancel(h)) \/ UNCHANGED vars
  BY <1>3 DEF AnonCleanup, Settlement, Pay, Cancel, vars, credentials, locals, ClientsOK
<1> QED
  BY <1>1, <1>2, <1>3 DEF Next, Environment

LEMMA MeterStep ==
    ASSUME TInv, CredentialInv, MeterInv, [Next]_vars
    PROVE  MeterInv'
<1> USE DEF TInv, Typed, TypeOK, PrincipalTypeOK
<1>1. ClientsOK'
  BY ClientsStep DEF MeterInv
<1> DEFINE Exact(p) == HasPrincipal(p) => principals[p] = metered[p] + Cardinality(Leaving(p))
<1> DEFINE Unmetered(p) == p \notin held => metered[p] = 0
<1> SUFFICES ASSUME NEW p \in Principals PROVE Exact(p)' /\ Unmetered(p)'
  BY <1>1 DEF MeterInv, MeteringExact, Leaving, HasPrincipal
<1>2. Exact(p) /\ Unmetered(p) /\ Cardinality(Leaving(p)) \in Nat
  BY LeavingCount DEF MeterInv, MeteringExact, Leaving
<1>3. ASSUME NEW g \in Handlers, HandlerStep(g) PROVE Exact(p)' /\ Unmetered(p)'
  <2>1. \A k \in Handlers \ {g} : pc'[k] = pc[k] /\ req'[k] = req[k]
    BY <1>3, Frame
  <2>2. held \subseteq held'
    BY <1>3, CredentialFrame DEF Enroll
  <2>3. CASE CountRequest(g)
    <3>1. /\ pc[g] = "increment" /\ pc'[g] = "forward" /\ req' = req /\ metered' = metered
          /\ req[g].cred \in Principals
      BY <2>3 DEF CountRequest, Step, Goto, locals, history, LocalsOK
    <3>2. CASE p = req[g].cred
      <4>1. Leaving(p)' = Leaving(p) \cup {g} /\ g \notin Leaving(p)
        BY <2>1, <3>1, <3>2 DEF Leaving
      <4>2. Cardinality(Leaving(p)') = Cardinality(Leaving(p)) + 1
        BY <4>1, LeavingCount
      <4>3. principals'[p] = IF HasPrincipal(p) THEN principals[p] + 1 ELSE None
        BY <2>3, <3>2 DEF CountRequest, IncrementRequestCount
      <4>4. metered[p] \in Nat
        OBVIOUS
      <4>5. HasPrincipal(p)' => HasPrincipal(p) /\ principals'[p] = principals[p] + 1
        BY <4>3 DEF HasPrincipal
      <4> QED
        BY <1>2, <2>2, <3>1, <4>2, <4>4, <4>5
    <3>3. CASE p # req[g].cred
      <4>1. Leaving(p)' = Leaving(p)
        BY <2>1, <3>1, <3>3 DEF Leaving
      <4>2. principals'[p] = principals[p]
        BY <2>3, <3>3 DEF CountRequest, IncrementRequestCount
      <4> QED
        BY <1>2, <2>2, <3>1, <4>1, <4>2 DEF HasPrincipal
    <3> QED
      BY <3>2, <3>3
  <2>4. CASE Forward(g)
    <3>1. /\ pc[g] = "forward" /\ pc'[g] = "idle" /\ principals' = principals /\ held' = held
          /\ metered' = IF req[g].cred = None THEN metered
                        ELSE [metered EXCEPT ![req[g].cred] = @ + 1]
      BY <2>4 DEF Forward, Answer, Goto, process, credentials
    <3>2. CASE p = req[g].cred
      <4>1. Leaving(p)' = Leaving(p) \ {g} /\ g \in Leaving(p)
        BY <2>1, <3>1, <3>2 DEF Leaving
      <4>2. Cardinality(Leaving(p)') = Cardinality(Leaving(p)) - 1
        BY <4>1, LeavingCount
      <4>3. p # None /\ metered'[p] = metered[p] + 1 /\ metered[p] \in Nat
        BY <3>1, <3>2, NoneAssumption
      <4>4. p \in held
        BY <3>1, <3>2, <4>3 DEF MeterInv, ClientsOK
      <4> QED
        BY <1>2, <3>1, <4>2, <4>3, <4>4 DEF HasPrincipal
    <3>3. CASE p # req[g].cred
      <4>1. Leaving(p)' = Leaving(p)
        BY <2>1, <3>1, <3>3 DEF Leaving
      <4>2. metered'[p] = metered[p]
        BY <3>1, <3>3
      <4> QED
        BY <1>2, <3>1, <4>1, <4>2 DEF HasPrincipal
    <3> QED
      BY <3>2, <3>3
  <2>5. CASE ~CountRequest(g) /\ ~Forward(g)
    <3>1. /\ pc[g] # "forward" /\ metered' = metered
          /\ Enroll(g) \/ principals' = principals
          /\ pc'[g] = "forward" => req'[g].cred = None
      BY <1>3, <2>5, MeterFrame DEF MeterInv
    <3>2. Leaving(p)' = Leaving(p)
      BY <2>1, <3>1, NoneAssumption DEF Leaving
    <3>3. CASE Enroll(g) /\ p = fresh[g]
      <4>1. pc[g] = "createPrincipal" /\ principals'[p] = 0
        BY <3>3 DEF Enroll, CreatePrincipal
      <4>2. p \notin held
        BY <3>3, <4>1 DEF MeterInv, ClientsOK
      <4>3. Leaving(p) = {}
        BY <4>2, NoneAssumption DEF Leaving, MeterInv, ClientsOK
      <4> QED
        BY <1>2, <3>1, <3>2, <4>1, <4>2, <4>3, FS_EmptySet
    <3>4. CASE ~(Enroll(g) /\ p = fresh[g])
      <4>1. principals'[p] = principals[p]
        BY <3>1, <3>4 DEF Enroll, CreatePrincipal
      <4> QED
        BY <1>2, <2>2, <3>1, <3>2, <4>1 DEF HasPrincipal
    <3> QED
      BY <3>3, <3>4
  <2> QED
    BY <2>3, <2>4, <2>5
<1>4. CASE Restart
  BY <1>2, <1>4 DEF Restart, HasPrincipal, credentials, history
<1>5. CASE AnonCleanup \/ (\E h \in Hashes : Settlement(h) \/ Pay(h) \/ Cancel(h)) \/ UNCHANGED vars
  <2>1. UNCHANGED <<pc, req, principals, held, metered>>
    BY <1>5 DEF AnonCleanup, Settlement, Pay, Cancel, vars, process, credentials, locals, history
  <2> QED
    BY <1>2, <2>1 DEF Leaving, HasPrincipal
<1> QED
  BY <1>3, <1>4, <1>5 DEF Next, Environment

\* The count that prices a principal's next request is exactly what has been, or
\* is about to be, forwarded under its credential.
THEOREM MeteringExactHolds == Spec => []MeteringExact
<1>1. Init => CredentialInv /\ MeterInv
  BY DEF Init, CredentialInv, CredentialHasPrincipal, MeterInv, ClientsOK, MeteringExact,
         PrincipalInit, HasPrincipal
<1>2. TInv /\ CredentialInv /\ MeterInv /\ [Next]_vars => CredentialInv' /\ MeterInv'
  BY CredentialStep, MeterStep
<1>3. MeterInv => MeteringExact
  BY DEF MeterInv
<1> QED
  BY <1>1, <1>2, <1>3, TypeInit, TInvStep, PTL DEF Spec

-----------------------------------------------------------------------------
(* What a race can get out of a payment *)

Served(h) == grants[h] + mints[h]

\* The requests that IsUsed let through with a hash and that it has yet to serve.
Racers(h) ==
    {g \in Handlers :
        /\ pc[g] \in {"markUsed"} \cup (Passed \ {"createPrincipal"})
        /\ req[g].hash = h}

\* What the lives of the spent set up to now allow a hash, and those before this one.
InFlight == Cardinality(Handlers)
Allowed == InFlight * (IF Persistent THEN 1 ELSE boot + 1)
Before == InFlight * (IF Persistent THEN 0 ELSE boot)

\* Once a hash is marked nobody joins its race, and until it is marked nobody has
\* served it in this life.
RaceInv ==
    /\ \A g \in Handlers : pc[g] \in Passed \ {"createPrincipal"} => IsUsed(req[g].hash)
    /\ \A h \in Hashes :
        IF IsUsed(h) THEN Served(h) + Cardinality(Racers(h)) <= Allowed
        ELSE Served(h) <= Before

\* A race has finitely many runners, and no more than there are requests in flight.
LEMMA RacersCount ==
    ASSUME NEW h
    PROVE  /\ IsFiniteSet(Racers(h)) /\ Cardinality(Racers(h)) \in Nat
           /\ InFlight \in Nat /\ Cardinality(Racers(h)) <= InFlight
           /\ \A S \in SUBSET Racers(h) :
                Cardinality(S) \in Nat /\ Cardinality(S) <= Cardinality(Racers(h))
           /\ \A g \in Racers(h) :
                Cardinality(Racers(h) \ {g}) = Cardinality(Racers(h)) - 1
<1>1. Racers(h) \subseteq Handlers
  BY DEF Racers
<1>2. IsFiniteSet(Racers(h)) /\ Cardinality(Racers(h)) <= InFlight
  BY <1>1, HandlersAssumption, FS_Subset DEF InFlight
<1>3. \A S \in SUBSET Racers(h) : IsFiniteSet(S) /\ Cardinality(S) <= Cardinality(Racers(h))
  BY <1>2, FS_Subset
<1> QED
  BY <1>2, <1>3, HandlersAssumption, FS_CardinalityType, FS_RemoveElement DEF InFlight

LEMMA AllowedType ==
    ASSUME TypeOK
    PROVE  /\ Allowed \in Nat /\ Before \in Nat /\ InFlight \in Nat
           /\ Allowed = Before + InFlight
<1>1. InFlight \in Nat /\ boot \in Nat
  BY HandlersAssumption, FS_CardinalityType, ConfigAssumption DEF InFlight, TypeOK
<1> HIDE DEF InFlight
<1>2. InFlight * (boot + 1) = InFlight * boot + InFlight /\ InFlight * boot \in Nat
  BY <1>1
<1> QED
  BY <1>1, <1>2 DEF Allowed, Before

\* Only MarkUsed touches the spent set, only a mint or a forwarded request the
\* counts, and nobody but CheckUsed lets a request into a race.
LEMMA RaceFrame ==
    ASSUME TInv, NEW g \in Handlers, HandlerStep(g), ~RecordUsed(g), ~Mint(g), ~Forward(g)
    PROVE  /\ UNCHANGED <<boot, used, grants, mints>>
           /\ pc'[g] = "markUsed" => ~IsUsed(req[g].hash) /\ req'[g] = req[g]
           /\ pc'[g] \in Passed \ {"createPrincipal"} =>
                pc[g] \in Passed \ {"createPrincipal"} /\ req'[g] = req[g]
<1> USE DEF TInv, Typed, TypeOK, Goto, Step, WithPrice, Answer, process, history, locals, start
<1>1. UNCHANGED <<boot, used, grants, mints>>
  BY DEF HandlerStep, ArriveWithCredential, ArriveWithToken, ArriveBare, LookupPrincipal,
         CheckEnrollment, CheckAnonCount, LookupInvoice, MintFails, CheckUsed, Enroll, CountRequest,
         CountAnonymous, IssueChallenge, IssueEnrollmentChallenge, TrackEnrollment
<1>2. /\ pc'[g] = "markUsed" => ~IsUsed(req[g].hash) /\ req' = req
      /\ pc'[g] \in Passed \ {"createPrincipal"} =>
            pc[g] \in Passed \ {"createPrincipal"} /\ req' = req
  BY DEF HandlerStep, ArriveWithCredential, ArriveWithToken, ArriveBare, LookupPrincipal,
         CheckEnrollment, CheckAnonCount, LookupInvoice, MintFails, CheckUsed, Enroll, CountRequest,
         CountAnonymous, IssueChallenge, IssueEnrollmentChallenge, TrackEnrollment, Passed
<1> QED
  BY <1>1, <1>2
LEMMA RaceStep ==
    ASSUME TInv, RaceInv, [Next]_vars
    PROVE  RaceInv'
<1> USE DEF TInv, Typed, TypeOK
<1> DEFINE Bound(h) == IF IsUsed(h) THEN Served(h) + Cardinality(Racers(h)) <= Allowed
                       ELSE Served(h) <= Before
           Marked(g) == pc[g] \in Passed \ {"createPrincipal"} => IsUsed(req[g].hash)
<1>a. \A h \in Hashes : Bound(h) /\ Served(h) \in Nat
  BY DEF RaceInv, Served
<1>b. \A g \in Handlers : Marked(g)
  BY DEF RaceInv
<1>c. Allowed \in Nat /\ Before \in Nat /\ InFlight \in Nat /\ Allowed = Before + InFlight
  BY AllowedType
<1>1. ASSUME NEW g \in Handlers, HandlerStep(g) PROVE RaceInv'
  <2> USE DEF Goto, Step, Answer, process, history, locals, start
  <2>1. \A k \in Handlers \ {g} : pc'[k] = pc[k] /\ req'[k] = req[k]
    BY <1>1, Frame
  <2>2. CASE RecordUsed(g)
    <3>1. PICK h \in Hashes : h = req[g].hash /\ pc[g] = "markUsed"
      BY <2>2 DEF RecordUsed, LocalsOK, Redeeming
    <3>2. UNCHANGED <<grants, mints, Allowed, Before>>
      BY <2>2 DEF RecordUsed, Allowed, Before
    <3>3. CASE UNCHANGED <<used, spent>> /\ Answer(g)
      <4>1. \A j \in Hashes : Racers(j)' \subseteq Racers(j)
        BY <2>1, <3>3 DEF Racers, Passed
      <4>2. ASSUME NEW j \in Hashes PROVE Bound(j)'
        <5>1. Cardinality(Racers(j)') <= Cardinality(Racers(j)) /\ Cardinality(Racers(j)') \in Nat
          BY <4>1, RacersCount
        <5>2. Served(j)' = Served(j) /\ IsUsed(j)' = IsUsed(j) /\ Cardinality(Racers(j)) \in Nat
          BY <3>2, <3>3, RacersCount DEF Served, IsUsed
        <5> QED
          BY <1>a, <1>c, <3>2, <5>1, <5>2
      <4>3. \A k \in Handlers : Marked(k)'
        BY <1>b, <2>1, <3>3 DEF IsUsed, Passed
      <4> QED
        BY <4>2, <4>3 DEF RaceInv
    <3>4. CASE MarkUsed(h) /\ Step(g, Accepted(g))
      <4>1. pc'[g] \in Passed \ {"createPrincipal"} /\ req' = req
        BY <3>4 DEF Accepted, Passed
      <4>2. \A j \in Hashes : Racers(j)' = Racers(j)
        BY <2>1, <3>1, <4>1 DEF Racers
      <4>3. used' = used \cup {h}
        BY <3>4 DEF MarkUsed
      <4>4. ASSUME NEW j \in Hashes PROVE Bound(j)'
        <5>1. Served(j)' = Served(j) /\ Cardinality(Racers(j)') = Cardinality(Racers(j))
          BY <3>2, <4>2 DEF Served
        <5>2. Cardinality(Racers(j)) \in Nat /\ Cardinality(Racers(j)) <= InFlight
          BY RacersCount
        <5>3. CASE j = h
          BY <1>a, <1>c, <3>2, <4>3, <5>1, <5>2, <5>3 DEF IsUsed
        <5>4. CASE j # h
          BY <1>a, <3>2, <4>3, <5>1, <5>4 DEF IsUsed
        <5> QED
          BY <5>3, <5>4
      <4>5. \A k \in Handlers : Marked(k)'
        BY <1>b, <2>1, <3>1, <4>1, <4>3 DEF IsUsed
      <4> QED
        BY <4>4, <4>5 DEF RaceInv
    <3> QED
      BY <2>2, <3>1, <3>3, <3>4 DEF RecordUsed
  <2>3. CASE Mint(g) \/ Forward(g)
    <3>1. PICK h \in Hashes :
            h = req[g].hash /\ IsUsed(h) /\ pc[g] \in Passed \ {"createPrincipal"}
      BY <1>b, <2>3 DEF Mint, Forward, LocalsOK, Redeeming, Passed
    <3>2. /\ used' = used /\ pc'[g] \in {"createPrincipal", "idle"}
          /\ UNCHANGED <<Allowed, Before>>
      BY <2>3 DEF Mint, Forward, Allowed, Before
    <3>3. Served(h)' = Served(h) + 1 /\ \A j \in Hashes \ {h} : Served(j)' = Served(j)
      <4>1. CASE Mint(g)
        BY <3>1, <4>1 DEF Mint, Served
      <4>2. CASE Forward(g)
        BY <3>1, <4>2 DEF Forward, Served
      <4> QED
        BY <2>3, <4>1, <4>2
    <3>4. g \in Racers(h) /\ Racers(h)' = Racers(h) \ {g}
      BY <2>1, <3>1, <3>2 DEF Racers, Passed
    <3>5. \A j \in Hashes \ {h} : Racers(j)' = Racers(j)
      BY <2>1, <3>1, <3>2 DEF Racers, Passed
    <3>6. ASSUME NEW j \in Hashes PROVE Bound(j)'
      <4>1. Cardinality(Racers(j)) \in Nat
        BY RacersCount
      <4>2. CASE j = h
        <5>1. Cardinality(Racers(h)') = Cardinality(Racers(h)) - 1
          BY <3>4, RacersCount
        <5> QED
          BY <1>a, <1>c, <3>1, <3>2, <3>3, <4>1, <4>2, <5>1 DEF IsUsed
      <4>3. CASE j # h
        BY <1>a, <3>2, <3>3, <3>5, <4>3 DEF IsUsed
      <4> QED
        BY <4>2, <4>3
    <3>7. \A k \in Handlers : Marked(k)'
      BY <1>b, <2>1, <3>2 DEF IsUsed, Passed
    <3> QED
      BY <3>6, <3>7 DEF RaceInv
  <2>4. CASE ~RecordUsed(g) /\ ~Mint(g) /\ ~Forward(g)
    <3>1. /\ UNCHANGED <<boot, used, grants, mints>>
          /\ pc'[g] = "markUsed" => ~IsUsed(req[g].hash) /\ req'[g] = req[g]
          /\ pc'[g] \in Passed \ {"createPrincipal"} =>
                pc[g] \in Passed \ {"createPrincipal"} /\ req'[g] = req[g]
      BY <1>1, <2>4, RaceFrame
    <3>2. UNCHANGED <<Allowed, Before>> /\ \A j \in Hashes : Served(j)' = Served(j)
      BY <3>1 DEF Allowed, Before, Served
    <3>3. ASSUME NEW j \in Hashes, IsUsed(j) PROVE Racers(j)' \subseteq Racers(j)
      BY <2>1, <3>1, <3>3 DEF Racers
    <3>4. ASSUME NEW j \in Hashes PROVE Bound(j)'
      <4>1. CASE IsUsed(j)
        <5>1. /\ Cardinality(Racers(j)') <= Cardinality(Racers(j))
              /\ Cardinality(Racers(j)') \in Nat /\ Cardinality(Racers(j)) \in Nat
          BY <3>3, <4>1, RacersCount
        <5> QED
          BY <1>a, <1>c, <3>1, <3>2, <4>1, <5>1 DEF IsUsed
      <4>2. CASE ~IsUsed(j)
        BY <1>a, <3>1, <3>2, <4>2 DEF IsUsed
      <4> QED
        BY <4>1, <4>2
    <3>5. \A k \in Handlers : Marked(k)'
      BY <1>b, <2>1, <3>1 DEF IsUsed
    <3> QED
      BY <3>4, <3>5 DEF RaceInv
  <2> QED
    BY <2>2, <2>3, <2>4
<1>2. CASE Restart
  <2>1. /\ boot \in Nat /\ boot' = boot + 1 /\ UNCHANGED <<grants, mints>>
        /\ used' = IF Persistent THEN used ELSE {}
        /\ \A g \in Handlers : pc'[g] = "idle"
    BY <1>2, ConfigAssumption DEF Restart, SpentReopen, history
  <2>2. ASSUME NEW h \in Hashes PROVE Bound(h)'
    <3>1. Racers(h)' = {}
      BY <2>1 DEF Racers, Passed
    <3>2. Cardinality(Racers(h)') = 0 /\ Cardinality(Racers(h)) \in Nat
      BY <3>1, FS_EmptySet, RacersCount
    <3>3. Served(h)' = Served(h) /\ Served(h) <= Allowed
      BY <1>a, <1>c, <2>1, <3>2 DEF Served
    <3>4. CASE Persistent
      <4>1. used' = used /\ Allowed' = Allowed /\ Before' = Before
        BY <2>1, <3>4 DEF Allowed, Before
      <4> QED
        BY <1>a, <1>c, <3>2, <3>3, <4>1 DEF IsUsed
    <3>5. CASE ~Persistent
      BY <2>1, <3>3, <3>5 DEF IsUsed, Allowed, Before
    <3> QED
      BY <3>4, <3>5
  <2> QED
    BY <2>1, <2>2 DEF RaceInv, Passed
<1>3. CASE AnonCleanup \/ (\E h \in Hashes : Settlement(h) \/ Pay(h) \/ Cancel(h)) \/ UNCHANGED vars
  <2>1. UNCHANGED <<boot, used, pc, req, grants, mints>>
    BY <1>3 DEF AnonCleanup, Settlement, Pay, Cancel, vars, start, process, locals, history
  <2> QED
    BY <2>1 DEF RaceInv, Racers, Served, Allowed, Before, IsUsed
<1> QED
  BY <1>1, <1>2, <1>3 DEF Next, Environment

LEMMA RaceInvHolds == Spec => []RaceInv
<1>1. Init => RaceInv
  <2> SUFFICES ASSUME Init PROVE RaceInv
    OBVIOUS
  <2>1. TypeOK /\ Before \in Nat
    BY TypeInit, AllowedType DEF TInv, Typed
  <2> QED
    BY <2>1 DEF Init, RaceInv, SpentInit, IsUsed, Served, Passed
<1>2. TInv /\ RaceInv /\ [Next]_vars => RaceInv'
  BY RaceStep
<1> QED
  BY <1>1, <1>2, TypeInit, TInvStep, PTL DEF Spec

\* In each life of the spent set a payment opens the gate or mints at most once for
\* each request in flight, whatever overlaps, whatever fails and whatever restarts.
THEOREM RaceBoundedHolds == Spec => []RaceBounded
<1>1. TInv /\ RaceInv => RaceBounded
  <2> SUFFICES ASSUME TInv, RaceInv, NEW h \in Hashes PROVE Served(h) <= Allowed
    BY DEF RaceBounded, Served, Allowed, InFlight
  <2>1. Served(h) \in Nat /\ Cardinality(Racers(h)) \in Nat
    BY RacersCount DEF Served, TInv, Typed, TypeOK
  <2> QED
    BY <2>1, AllowedType DEF RaceInv, TInv, Typed
<1> QED
  BY <1>1, RaceInvHolds, TypeInit, TInvStep, PTL DEF Spec

-----------------------------------------------------------------------------
(* Refinement of the toll *)

\* No invoice is free.
PricedOK ==
    /\ \A g \in Handlers : pc[g] \in {"addInvoice", "addStake"} => price[g] > 0
    /\ \A h \in Hashes : invoices[h] # None => invoices[h].sats > 0

\* What IssueChallenge and IssueEnrollmentChallenge add to lnd.
LEMMA NewInvoiceStep ==
    ASSUME TInv, PricedOK, NEW g \in Handlers, IssueChallenge(g) \/ IssueEnrollmentChallenge(g)
    PROVE  \/ UNCHANGED invoices
           \/ \E h \in Hashes :
                /\ invoices[h] = None /\ invoices'[h] # None
                /\ invoices'[h].sats \in Nat \ {0}
                /\ ~Settled(h)'
                /\ \A j \in Hashes \ {h} : invoices'[j] = invoices[j]
<1> USE DEF TInv, Typed, TypeOK
<1> SUFFICES ASSUME ~UNCHANGED invoices
             PROVE  \E h \in Hashes :
                        /\ invoices[h] = None /\ invoices'[h] # None
                        /\ invoices'[h].sats \in Nat \ {0}
                        /\ ~Settled(h)'
                        /\ \A j \in Hashes \ {h} : invoices'[j] = invoices[j]
  OBVIOUS
<1>1. PICK h \in Hashes, memo \in {"toll", "stake"}, state \in {"open", "made"} :
        invoices[h] = None /\ NewInvoice(h, price[g], memo, state)
  BY DEF IssueChallenge, IssueEnrollmentChallenge
<1>2. price[g] \in Nat \ {0}
  BY DEF IssueChallenge, IssueEnrollmentChallenge, PricedOK
<1> DEFINE new == [sats |-> price[g], memo |-> memo, bornIn |-> boot, state |-> state]
<1>3. new \in Invoice /\ new # None
  <2>1. boot \in Nat
    BY ConfigAssumption
  <2>2. new \in Invoice
    BY <1>2, <2>1 DEF Invoice
  <2> QED
    BY <2>2, NoneAssumption
<1>4. invoices'[h] = new /\ \A j \in Hashes \ {h} : invoices'[j] = invoices[j]
  BY <1>1 DEF NewInvoice
<1>5. invoices'[h].sats = price[g] /\ invoices'[h].state # "settled"
  BY <1>4
<1> QED
  BY <1>1, <1>2, <1>3, <1>4, <1>5 DEF Settled

LEMMA PricedStep ==
    ASSUME TInv, PricedOK, [Next]_vars
    PROVE  PricedOK'
<1> USE DEF TInv, Typed, TypeOK
<1>1. ASSUME NEW g \in Handlers, HandlerStep(g) PROVE PricedOK'
  <2>1. ASSUME NEW h \in Hashes, invoices'[h] # None PROVE invoices'[h].sats > 0
    <3>1. CASE invoices[h] # None
      BY <1>1, <3>1, InvoiceStep DEF InvoicesKept, PricedOK, Next
    <3>2. CASE invoices[h] = None
      <4>1. CASE IssueChallenge(g) \/ IssueEnrollmentChallenge(g)
        BY <2>1, <3>2, <4>1, NewInvoiceStep
      <4>2. CASE TrackEnrollment(g)
        BY <2>1, <3>2, <4>2 DEF TrackEnrollment, MadeOK
      <4>3. CASE ~(IssueChallenge(g) \/ IssueEnrollmentChallenge(g) \/ TrackEnrollment(g))
        BY <1>1, <2>1, <3>2, <4>3
           DEF HandlerStep, ArriveWithCredential, ArriveWithToken, ArriveBare, LookupPrincipal,
               CheckEnrollment, CheckAnonCount, LookupInvoice, MintFails, CheckUsed, RecordUsed, Mint,
               Enroll, CountRequest, CountAnonymous, Forward, lnd
      <4> QED
        BY <4>1, <4>2, <4>3
    <3> QED
      BY <3>1, <3>2
  <2>2. ASSUME NEW k \in Handlers, pc'[k] \in {"addInvoice", "addStake"} PROVE price'[k] > 0
    <3>1. CASE k # g
      BY <1>1, <2>2, <3>1, Frame DEF PricedOK
    <3>2. CASE k = g
      <4> USE DEF Goto, Step, WithPrice, Answer, locals
      <4>1. CASE LookupPrincipal(g)
        <5>1. ~Answer(g)
          BY <2>2, <3>2
        <5>2. PICK p \in Principals : p = req[g].cred /\ principals[p] \in Nat
          BY <4>1, <5>1 DEF LookupPrincipal, LocalsOK, HasPrincipal, PrincipalTypeOK
        <5>3. CurvePrice(principals[p] + 1, FloorToll, Slope) \in Nat \ {0}
          BY <5>2, CurvePriceType
        <5> QED
          BY <3>2, <4>1, <5>1, <5>2, <5>3 DEF LookupPrincipal
      <4>2. CASE ArriveBare(g)
        BY <2>2, <3>2, <4>2, RoutePricesType DEF ArriveBare
      <4>3. CASE CheckAnonCount(g)
        BY <2>2, <3>2, <4>3, ConfigAssumption DEF CheckAnonCount
      <4>4. CASE ArriveWithCredential(g) \/ ArriveWithToken(g) \/ CheckEnrollment(g)
        BY <2>2, <3>2, <4>4 DEF ArriveWithCredential, ArriveWithToken, CheckEnrollment
      <4>5. CASE LookupInvoice(g) \/ MintFails(g) \/ CheckUsed(g) \/ RecordUsed(g)
        BY <2>2, <3>2, <4>5 DEF LookupInvoice, MintFails, CheckUsed, RecordUsed, Accepted
      <4>6. CASE Mint(g) \/ Enroll(g) \/ CountRequest(g) \/ CountAnonymous(g) \/ Forward(g)
        BY <2>2, <3>2, <4>6 DEF Mint, Enroll, CountRequest, CountAnonymous, Forward
      <4>7. CASE IssueChallenge(g) \/ IssueEnrollmentChallenge(g) \/ TrackEnrollment(g)
        BY <2>2, <3>2, <4>7 DEF IssueChallenge, IssueEnrollmentChallenge, TrackEnrollment
      <4> QED
        BY <1>1, <4>1, <4>2, <4>3, <4>4, <4>5, <4>6, <4>7 DEF HandlerStep
    <3> QED
      BY <3>1, <3>2
  <2> QED
    BY <2>1, <2>2 DEF PricedOK
<1>2. CASE Restart
  BY <1>2 DEF Restart, lnd, PricedOK
<1>3. ASSUME NEW h \in Hashes, Settlement(h) \/ Pay(h) \/ Cancel(h) PROVE PricedOK'
  <2>1. \A j \in Hashes : invoices'[j] # None => invoices[j] # None
    BY <1>3 DEF Settlement, Pay, Cancel
  <2>2. pc' = pc /\ price' = price
    BY <1>3 DEF Settlement, Pay, Cancel, locals
  <2> QED
    BY <2>1, <2>2, InvoiceStep DEF InvoicesKept, PricedOK
<1>4. CASE AnonCleanup \/ UNCHANGED vars
  BY <1>4 DEF AnonCleanup, vars, lnd, locals, PricedOK
<1> QED
  BY <1>1, <1>2, <1>3, <1>4 DEF Next, Environment

LEMMA TollInit == Init => RacedToll!Init
  BY DEF Init, RacedToll!Init, Quoted, Paid, Opened, Settled

\* A paid reference opens the gate, within what its race allows.
Opens(h) ==
    /\ Quoted[h] > 0 /\ Paid[h] >= Quoted[h]
    /\ Opened[h] < Allowed
    /\ Opened' = [Opened EXCEPT ![h] = @ + 1]
    /\ UNCHANGED <<Quoted, Paid>>

\* What a step of the system is to a toll, whatever its number of copies.
TollMove ==
    \/ UNCHANGED <<Quoted, Paid, Opened>>
    \/ \E h \in Hashes : RacedToll!Quote(h) \/ RacedToll!Receive(h) \/ Opens(h)

\* A new invoice, a payment and a grant are moves of the toll; every other step
\* of the system leaves it alone.
LEMMA TollMoves ==
    ASSUME TInv, ProofInv, RaceInv, PricedOK, [Next]_vars
    PROVE  TollMove
<1> USE DEF TInv, Typed, TypeOK
<1>1. ASSUME NEW g \in Handlers, IssueChallenge(g) \/ IssueEnrollmentChallenge(g)
      PROVE  TollMove
  <2>1. UNCHANGED Opened
    BY <1>1 DEF IssueChallenge, IssueEnrollmentChallenge, history, Opened
  <2>2. CASE UNCHANGED invoices
    BY <2>1, <2>2 DEF TollMove, Quoted, Paid, Settled
  <2>3. CASE ~UNCHANGED invoices
    <3>1. PICK h \in Hashes :
            /\ invoices[h] = None /\ invoices'[h] # None
            /\ invoices'[h].sats \in Nat \ {0}
            /\ ~Settled(h)'
            /\ \A j \in Hashes \ {h} : invoices'[j] = invoices[j]
      BY <1>1, <2>3, NewInvoiceStep
    <3>2. UNCHANGED Paid
      BY <3>1 DEF Paid, Settled
    <3>3. Quoted[h] = 0 /\ Quoted'[h] \in Nat \ {0}
      BY <3>1 DEF Quoted
    <3>4. Quoted' = [Quoted EXCEPT ![h] = Quoted'[h]]
      BY <3>1 DEF Quoted
    <3>5. RacedToll!Quote(h)
      BY <2>1, <3>2, <3>3, <3>4 DEF RacedToll!Quote, Quoted, Paid, Opened
    <3> QED
      BY <3>5 DEF TollMove
  <2> QED
    BY <2>2, <2>3
<1>2. ASSUME NEW h \in Hashes, Pay(h) PROVE TollMove
  <2>1. invoices[h] \in Invoice /\ invoices[h].state = "open" /\ invoices[h].sats \in Nat \ {0}
    BY <1>2 DEF Pay, PricedOK, Invoice
  <2>2. invoices' = [invoices EXCEPT ![h] = [invoices[h] EXCEPT !.state = "settled"]]
    BY <1>2 DEF Pay
  <2>3. [invoices[h] EXCEPT !.state = "settled"] \in Invoice
    BY <2>1 DEF Invoice
  <2>4. /\ invoices'[h] # None /\ invoices'[h].state = "settled" /\ invoices'[h].sats = invoices[h].sats
        /\ \A j \in Hashes \ {h} : invoices'[j] = invoices[j]
    BY <2>1, <2>2, <2>3, NoneAssumption DEF Invoice
  <2>5. UNCHANGED Quoted
    BY <1>2, <2>4 DEF Quoted, Pay
  <2>6. UNCHANGED Opened
    BY <1>2 DEF Pay, history, Opened
  <2>7. Paid[h] = 0 /\ Paid'[h] = invoices[h].sats
    BY <2>1, <2>4 DEF Paid, Settled
  <2>8. Paid' = [Paid EXCEPT ![h] = Paid'[h]]
    BY <2>4 DEF Paid, Settled
  <2>9. RacedToll!Receive(h)
    BY <2>1, <2>5, <2>6, <2>7, <2>8 DEF RacedToll!Receive, Quoted, Paid, Opened
  <2> QED
    BY <2>9 DEF TollMove
<1>3. ASSUME NEW g \in Handlers, Forward(g) \/ Mint(g) PROVE TollMove
  <2>1. PICK h \in Hashes :
          h = req[g].hash /\ Settled(h) /\ pc[g] \in Passed \ {"createPrincipal"}
    BY <1>3 DEF Forward, Mint, LocalsOK, Redeeming, Passed, ProofInv
  <2>2. UNCHANGED invoices
    BY <1>3 DEF Forward, Mint, lnd
  <2>3. UNCHANGED <<Quoted, Paid>>
    BY <2>2 DEF Quoted, Paid, Settled
  <2>4. Quoted[h] > 0 /\ Paid[h] >= Quoted[h]
    BY <2>1 DEF Quoted, Paid, Settled, PricedOK, Invoice
  <2>5. Opened[h] < Allowed
    <3>1. IsUsed(h) /\ g \in Racers(h)
      BY <2>1 DEF RaceInv, Racers
    <3>2. Served(h) + Cardinality(Racers(h)) <= Allowed
      BY <3>1 DEF RaceInv
    <3>3. Cardinality(Racers(h)) - 1 \in Nat
      <4>1. Cardinality(Racers(h) \ {g}) = Cardinality(Racers(h)) - 1
        BY <3>1, RacersCount
      <4>2. Cardinality(Racers(h) \ {g}) \in Nat
        BY RacersCount
      <4> QED
        BY <4>1, <4>2
    <3>4. Opened[h] = Served(h) /\ Served(h) \in Nat
      BY DEF Opened, Served
    <3> QED
      BY <3>2, <3>3, <3>4, RacersCount, AllowedType
  <2>6. Opened' = [Opened EXCEPT ![h] = @ + 1]
    <3>1. CASE Forward(g)
      BY <2>1, <3>1 DEF Forward, Opened
    <3>2. CASE Mint(g)
      BY <2>1, <3>2 DEF Mint, Opened
    <3> QED
      BY <1>3, <3>1, <3>2
  <2> QED
    BY <2>3, <2>4, <2>5, <2>6 DEF Opens, TollMove
<1>4. ASSUME NEW g \in Handlers, TrackEnrollment(g) PROVE UNCHANGED <<Quoted, Paid, Opened>>
  <2>1. PICK h \in Hashes : h = fresh[g] /\ invoices[h] \in Invoice /\ invoices[h].state = "made"
    BY <1>4 DEF TrackEnrollment, LocalsOK, MadeOK
  <2>2. invoices' = [invoices EXCEPT ![h] = [invoices[h] EXCEPT !.state = "open"]]
    BY <1>4, <2>1 DEF TrackEnrollment
  <2>3. [invoices[h] EXCEPT !.state = "open"] \in Invoice
    BY <2>1 DEF Invoice
  <2>4. /\ invoices'[h] # None /\ invoices'[h].state = "open" /\ invoices'[h].sats = invoices[h].sats
        /\ invoices[h] # None /\ \A j \in Hashes \ {h} : invoices'[j] = invoices[j]
    BY <2>1, <2>2, <2>3, NoneAssumption DEF Invoice
  <2> QED
    BY <1>4, <2>1, <2>4 DEF TrackEnrollment, history, Quoted, Paid, Opened, Settled
<1>5. ASSUME NEW h \in Hashes, Cancel(h) PROVE UNCHANGED <<Quoted, Paid, Opened>>
  <2>1. invoices[h] \in Invoice /\ invoices[h].state = "open"
    BY <1>5 DEF Cancel
  <2>2. invoices' = [invoices EXCEPT ![h] = [invoices[h] EXCEPT !.state = "canceled"]]
    BY <1>5 DEF Cancel
  <2>3. [invoices[h] EXCEPT !.state = "canceled"] \in Invoice
    BY <2>1 DEF Invoice
  <2>4. /\ invoices'[h] # None /\ invoices'[h].state = "canceled" /\ invoices'[h].sats = invoices[h].sats
        /\ invoices[h] # None /\ \A j \in Hashes \ {h} : invoices'[j] = invoices[j]
    BY <2>1, <2>2, <2>3, NoneAssumption DEF Invoice
  <2> QED
    BY <1>5, <2>1, <2>4 DEF Cancel, history, Quoted, Paid, Opened, Settled
<1>6. ASSUME UNCHANGED <<invoices, grants, mints>> PROVE UNCHANGED <<Quoted, Paid, Opened>>
  BY <1>6 DEF Quoted, Paid, Opened, Settled
<1>7. \/ UNCHANGED <<invoices, grants, mints>>
      \/ \E g \in Handlers : IssueChallenge(g) \/ IssueEnrollmentChallenge(g) \/ TrackEnrollment(g)
                             \/ Forward(g) \/ Mint(g)
      \/ \E h \in Hashes : Pay(h) \/ Cancel(h)
  BY DEF Next, HandlerStep, Environment, vars, lnd, history, ArriveWithCredential,
      ArriveWithToken, ArriveBare, LookupPrincipal, CheckEnrollment, CheckAnonCount,
      LookupInvoice, MintFails, CheckUsed, RecordUsed, Enroll, CountRequest, CountAnonymous, AnonCleanup,
      Restart, Settlement
<1> QED
  BY <1>1, <1>2, <1>3, <1>4, <1>5, <1>6, <1>7 DEF TollMove

\* With any number of requests in flight and either store, the proxy over lnd is a
\* toll whose gate opens once for each of them, again in each life of a MemStore:
\* overlap and restarts repeat what was paid for and break nothing else.
THEOREM RacedTollImplemented == Spec => ImplementsRacedToll
<1> DEFINE Copies == InFlight * (IF Persistent THEN 1 ELSE MaxBoots + 1)
<1>1. TInv => Allowed <= Copies
  <2> SUFFICES ASSUME TInv PROVE Allowed <= Copies
    OBVIOUS
  <2>1. /\ InFlight \in Nat /\ boot \in Nat /\ MaxBoots \in Nat
        /\ MaxBoots - boot \in Nat
    BY AllowedType, ConfigAssumption DEF TInv, Typed, TypeOK
  <2> HIDE DEF InFlight
  <2>2. /\ InFlight * (MaxBoots + 1) = InFlight * (boot + 1) + InFlight * (MaxBoots - boot)
        /\ InFlight * (MaxBoots - boot) \in Nat /\ InFlight * (boot + 1) \in Nat
    BY <2>1
  <2> QED
    BY <2>1, <2>2 DEF Allowed
<1>2. TInv /\ TollMove => [RacedToll!Next]_(RacedToll!vars)
  <2> SUFFICES ASSUME TInv, TollMove PROVE [RacedToll!Next]_(RacedToll!vars)
    OBVIOUS
  <2>1. ASSUME NEW h \in Hashes, Opens(h) PROVE RacedToll!Serve(h)
    <3>1. Opened[h] \in Nat /\ Copies \in Nat /\ Allowed \in Nat
      BY AllowedType, ConfigAssumption DEF Opened, TInv, Typed, TypeOK
    <3>2. Opened[h] < Copies
      BY <1>1, <2>1, <3>1 DEF Opens
    <3> QED
      BY <2>1, <3>2 DEF Opens, RacedToll!Serve, InFlight
  <2> QED
    BY <2>1 DEF TollMove, RacedToll!Next, RacedToll!vars
<1>3. Init => RacedToll!Init /\ PricedOK
  BY TollInit DEF Init, PricedOK
<1>4. TInv /\ PricedOK /\ [Next]_vars => PricedOK'
  BY PricedStep
<1>5. TInv /\ ProofInv /\ RaceInv /\ PricedOK /\ [Next]_vars => TollMove
  BY TollMoves
<1> QED
  BY <1>2, <1>3, <1>4, <1>5, TypeInit, TInvStep, ProofInvHolds, RaceInvHolds, PTL
  DEF Spec, ImplementsRacedToll, RacedToll!Spec

-----------------------------------------------------------------------------
(* What is left of the curve's prices *)

Charge(memo) == IF memo = "stake" THEN Stake ELSE FloorToll

\* A handler about to ask for a payment under the curve asks for no less than the
\* charge of its challenge, and no invoice of this boot was for less.
ChargedOK ==
    /\ \A g \in Handlers :
        /\ curve /\ pc[g] = "addInvoice" => price[g] >= FloorToll
        /\ pc[g] = "addStake" => price[g] >= Stake
    /\ \A h \in Hashes :
        curve /\ invoices[h] # None /\ invoices[h].bornIn = boot
        => invoices[h].sats >= Charge(invoices[h].memo)

\* Only a stake of this boot is tracked as an enrollment, and enrols.
EnrolsStakesOK ==
    /\ \A h \in pendingEnrollments : CurrentStake(h)
    /\ \A g \in Handlers :
        /\ pc[g] = "track" => CurrentStake(fresh[g])
        /\ pc[g] \in {"mint", "createPrincipal"} => enrolling[g]
        /\ enrolling[g] => CurrentStake(req[g].hash)

\* The curve never goes below its floor.
LEMMA CurvePriceFloor ==
    ASSUME NEW n \in Nat
    PROVE  CurvePrice(n + 1, FloorToll, Slope) >= FloorToll
<1>1. Slope * ((n + 1) - 1) \in Nat
  BY ConfigAssumption
<1> QED
  BY <1>1, ConfigAssumption DEF CurvePrice

\* Every invoice is the answer to one handler's call, and asks for its price.
LEMMA ChallengeInvoice ==
    ASSUME TInv, NEW g \in Handlers, HandlerStep(g), NEW h \in Hashes,
           invoices[h] = None, invoices'[h] # None
    PROVE  /\ invoices'[h].sats = price[g] /\ invoices'[h].bornIn = boot
           /\ \/ pc[g] = "addInvoice" /\ invoices'[h].memo = "toll"
              \/ pc[g] = "addStake" /\ invoices'[h].memo = "stake"
<1> USE DEF TInv, Typed, TypeOK, NewInvoice
<1>1. CASE IssueChallenge(g)
  BY <1>1 DEF IssueChallenge
<1>2. CASE IssueEnrollmentChallenge(g)
  BY <1>2 DEF IssueEnrollmentChallenge
<1>3. CASE TrackEnrollment(g)
  BY <1>3 DEF TrackEnrollment, MadeOK, LocalsOK
<1>4. CASE ~(IssueChallenge(g) \/ IssueEnrollmentChallenge(g) \/ TrackEnrollment(g))
  BY <1>4
     DEF HandlerStep, ArriveWithCredential, ArriveWithToken, ArriveBare, LookupPrincipal,
         CheckEnrollment, CheckAnonCount, LookupInvoice, MintFails, CheckUsed, RecordUsed, Mint,
         Enroll, CountRequest, CountAnonymous, Forward, lnd
<1> QED
  BY <1>1, <1>2, <1>3, <1>4

LEMMA ChargedStep ==
    ASSUME TInv, BornOK, ChargedOK, [Next]_vars
    PROVE  ChargedOK'
<1> USE DEF TInv, Typed, TypeOK
<1>1. ASSUME NEW g \in Handlers, HandlerStep(g) PROVE ChargedOK'
  <2>1. boot' = boot /\ curve' = curve
    BY <1>1, BootKept
  <2>2. ASSUME NEW h \in Hashes, curve, invoices'[h] # None, invoices'[h].bornIn = boot
        PROVE  invoices'[h].sats >= Charge(invoices'[h].memo)
    <3>1. CASE invoices[h] # None
      BY <1>1, <2>2, <3>1, InvoiceStep DEF InvoicesKept, ChargedOK, Next
    <3>2. CASE invoices[h] = None
      BY <1>1, <2>2, <3>2, ChallengeInvoice DEF ChargedOK, Charge
    <3> QED
      BY <3>1, <3>2
  <2>3. ASSUME NEW k \in Handlers
        PROVE  /\ curve /\ pc'[k] = "addInvoice" => price'[k] >= FloorToll
               /\ pc'[k] = "addStake" => price'[k] >= Stake
    <3>1. CASE k # g
      BY <1>1, <3>1, Frame DEF ChargedOK
    <3>2. CASE k = g
      <4> USE DEF Goto, Step, WithPrice, Answer, locals
      <4>1. CASE LookupPrincipal(g)
        <5>1. CASE Answer(g)
          BY <3>2, <5>1
        <5>2. CASE ~Answer(g)
          <6>1. PICK p \in Principals : p = req[g].cred /\ principals[p] \in Nat
            BY <4>1, <5>2 DEF LookupPrincipal, LocalsOK, HasPrincipal, PrincipalTypeOK
          <6>2. CurvePrice(principals[p] + 1, FloorToll, Slope) >= FloorToll
            BY <6>1, CurvePriceFloor
          <6> QED
            BY <3>2, <4>1, <5>2, <6>1, <6>2 DEF LookupPrincipal
        <5> QED
          BY <5>1, <5>2
      <4>2. CASE ArriveBare(g)
        BY <3>2, <4>2 DEF ArriveBare
      <4>3. CASE CheckAnonCount(g)
        BY <3>2, <4>3, ConfigAssumption DEF CheckAnonCount
      <4>4. CASE ArriveWithCredential(g) \/ ArriveWithToken(g) \/ CheckEnrollment(g)
        BY <3>2, <4>4 DEF ArriveWithCredential, ArriveWithToken, CheckEnrollment
      <4>5. CASE LookupInvoice(g) \/ MintFails(g) \/ CheckUsed(g) \/ RecordUsed(g)
        BY <3>2, <4>5 DEF LookupInvoice, MintFails, CheckUsed, RecordUsed, Accepted
      <4>6. CASE Mint(g) \/ Enroll(g) \/ CountRequest(g) \/ CountAnonymous(g) \/ Forward(g)
        BY <3>2, <4>6 DEF Mint, Enroll, CountRequest, CountAnonymous, Forward
      <4>7. CASE IssueChallenge(g) \/ IssueEnrollmentChallenge(g) \/ TrackEnrollment(g)
        BY <3>2, <4>7 DEF IssueChallenge, IssueEnrollmentChallenge, TrackEnrollment
      <4> QED
        BY <1>1, <4>1, <4>2, <4>3, <4>4, <4>5, <4>6, <4>7 DEF HandlerStep
    <3> QED
      BY <3>1, <3>2
  <2> QED
    BY <2>1, <2>2, <2>3 DEF ChargedOK
<1>2. CASE Restart
  <2>1. boot \in Nat /\ boot' = boot + 1 /\ invoices' = invoices /\ \A k \in Handlers : pc'[k] = "idle"
    BY <1>2, ConfigAssumption DEF Restart, lnd
  <2>2. \A h \in Hashes : invoices[h] # None => invoices[h].bornIn \in Nat /\ invoices[h].bornIn <= boot
    BY DEF BornOK, Invoice
  <2> QED
    BY <2>1, <2>2 DEF ChargedOK
<1>3. ASSUME NEW h \in Hashes, Settlement(h) \/ Pay(h) \/ Cancel(h) PROVE ChargedOK'
  <2>1. \A j \in Hashes : invoices'[j] # None => invoices[j] # None
    BY <1>3 DEF Settlement, Pay, Cancel
  <2>2. pc' = pc /\ price' = price /\ boot' = boot /\ curve' = curve
    BY <1>3 DEF Settlement, Pay, Cancel, locals, start
  <2> QED
    BY <2>1, <2>2, InvoiceStep DEF InvoicesKept, ChargedOK
<1>4. CASE AnonCleanup \/ UNCHANGED vars
  BY <1>4 DEF AnonCleanup, vars, lnd, locals, start, ChargedOK
<1> QED
  BY <1>1, <1>2, <1>3, <1>4 DEF Next, Environment

LEMMA EnrolsStakesStep ==
    ASSUME TInv, StakeInv, EnrolsStakesOK, [Next]_vars
    PROVE  EnrolsStakesOK'
<1> USE DEF TInv, Typed, TypeOK
<1> DEFINE OK(k) == /\ pc[k] = "track" => CurrentStake(fresh[k])
                    /\ pc[k] \in {"mint", "createPrincipal"} => enrolling[k]
                    /\ enrolling[k] => CurrentStake(req[k].hash)
<1>1. ASSUME boot' = boot, NEW h \in Hashes, CurrentStake(h) PROVE CurrentStake(h)'
  BY <1>1, StakeKept DEF CurrentStake
<1>2. ASSUME NEW k \in Handlers, enrolling[k] PROVE req[k].hash \in Hashes
  BY <1>2 DEF StakeInv, EnrollingOK, LocalsOK, Redeeming, Passed
<1>3. ASSUME NEW g \in Handlers, HandlerStep(g), NEW k \in Handlers PROVE OK(k)'
  <2>1. boot' = boot
    BY <1>3, BootKept
  <2>2. CASE k # g
    <3>1. /\ pc'[k] = pc[k] /\ req'[k] = req[k]
          /\ enrolling'[k] = enrolling[k] /\ fresh'[k] = fresh[k]
      BY <1>3, <2>2, Frame
    <3>2. pc[k] = "track" => CurrentStake(fresh[k])'
      <4> SUFFICES ASSUME pc[k] = "track" PROVE CurrentStake(fresh[k])'
        OBVIOUS
      <4>1. PICK h \in Hashes : h = fresh[k] /\ CurrentStake(h)
        BY DEF LocalsOK, EnrolsStakesOK
      <4> QED
        BY <1>1, <2>1, <3>1, <4>1 DEF CurrentStake
    <3>3. enrolling[k] => CurrentStake(req[k].hash)'
      <4> SUFFICES ASSUME enrolling[k] PROVE CurrentStake(req[k].hash)'
        OBVIOUS
      <4>1. PICK h \in Hashes : h = req[k].hash /\ CurrentStake(h)
        BY <1>2 DEF EnrolsStakesOK
      <4> QED
        BY <1>1, <2>1, <3>1, <4>1 DEF CurrentStake
    <3> QED
      BY <3>1, <3>2, <3>3 DEF EnrolsStakesOK, CurrentStake
  <2>3. CASE k = g
    <3> USE DEF Goto, Step, WithPrice, Answer, Arrive, locals
    <3>1. CASE IssueEnrollmentChallenge(g)
      <4>1. CASE Answer(g)
        BY <2>3, <4>1
      <4>2. CASE ~Answer(g)
        <5>1. PICK h \in Hashes : /\ invoices[h] = None /\ NewInvoice(h, price[g], "stake", "made")
                                  /\ fresh' = [fresh EXCEPT ![g] = h] /\ Goto(g, "track")
                                  /\ UNCHANGED <<req, price, enrolling>>
          BY <3>1, <4>2 DEF IssueEnrollmentChallenge
        <5>2. [sats |-> price[g], memo |-> "stake", bornIn |-> boot, state |-> "made"] \in Invoice
          <6>1. boot \in Nat /\ price[g] \in Nat
            BY ConfigAssumption
          <6> QED
            BY <6>1 DEF Invoice
        <5>3. CurrentStake(h)'
          BY <2>1, <5>1, <5>2, NoneAssumption DEF NewInvoice, CurrentStake
        <5>4. pc'[g] = "track" /\ fresh'[g] = h
          BY <5>1
        <5>5. ~enrolling[g]
          BY <3>1 DEF IssueEnrollmentChallenge, StakeInv, EnrollingOK
        <5> QED
          BY <2>3, <5>1, <5>3, <5>4, <5>5 DEF CurrentStake
      <4> QED
        BY <4>1, <4>2
    <3>2. CASE ~IssueEnrollmentChallenge(g)
      <4>1. pc'[g] # "track"
        BY <1>3, <3>2, NotTracking
      <4>2. CASE Answer(g)
        BY <2>3, <4>2
      <4>3. CASE ArriveWithCredential(g) \/ ArriveWithToken(g) \/ ArriveBare(g)
        <5>1. enrolling' = enrolling /\ ~enrolling[g] /\ pc'[g] \notin {"mint", "createPrincipal"}
          BY <4>3 DEF ArriveWithCredential, ArriveWithToken, ArriveBare, StakeInv, EnrollingOK
        <5> QED
          BY <2>3, <4>1, <5>1
      <4>4. CASE CheckEnrollment(g)
        <5>1. /\ enrolling'[g] <=> req[g].hash \in pendingEnrollments
              /\ pc'[g] = "lookupInvoice" /\ req' = req /\ UNCHANGED invoices
          BY <4>4 DEF CheckEnrollment, IsPendingEnrollment, lnd
        <5> QED
          BY <2>1, <2>3, <5>1 DEF EnrolsStakesOK, CurrentStake
      <4>5. CASE ~Answer(g) /\ ~(ArriveWithCredential(g) \/ ArriveWithToken(g) \/ ArriveBare(g)
                                 \/ CheckEnrollment(g))
        <5>1. req' = req /\ enrolling' = enrolling /\ UNCHANGED invoices
          BY <1>3, <3>2, <4>5
             DEF HandlerStep, LookupPrincipal, CheckAnonCount, LookupInvoice, MintFails, CheckUsed,
                 RecordUsed, Mint, Enroll, CountRequest, CountAnonymous, Forward,
                 IssueChallenge, TrackEnrollment, lnd
        <5>2. pc'[g] \in {"mint", "createPrincipal"} => enrolling[g]
          BY <1>3, <3>2, <4>5
             DEF HandlerStep, LookupPrincipal, CheckAnonCount, LookupInvoice, MintFails, CheckUsed,
                 RecordUsed, Mint, Enroll, CountRequest, CountAnonymous, Forward,
                 IssueChallenge, TrackEnrollment, Accepted, EnrolsStakesOK
        <5> QED
          BY <2>1, <2>3, <4>1, <5>1, <5>2 DEF EnrolsStakesOK, CurrentStake
      <4> QED
        BY <4>2, <4>3, <4>4, <4>5
    <3> QED
      BY <3>1, <3>2
  <2> QED
    BY <2>2, <2>3
<1>4. ASSUME NEW g \in Handlers, HandlerStep(g), NEW h \in pendingEnrollments' PROVE CurrentStake(h)'
  <2>1. boot' = boot
    BY <1>4, BootKept
  <2>2. h \in pendingEnrollments \/ (TrackEnrollment(g) /\ h = fresh[g])
    BY <1>4
       DEF HandlerStep, process, RemovePendingEnrollment, ArriveWithCredential, ArriveWithToken,
           ArriveBare, LookupPrincipal, CheckEnrollment, CheckAnonCount, LookupInvoice,
           MintFails, CheckUsed, RecordUsed, Mint, Enroll, CountRequest, CountAnonymous, Forward,
           IssueChallenge, IssueEnrollmentChallenge, TrackEnrollment
  <2>3. h \in Hashes /\ CurrentStake(h)
    BY <2>2 DEF TrackEnrollment, LocalsOK, EnrolsStakesOK
  <2> QED
    BY <1>1, <2>1, <2>3
<1>5. CASE Restart
  BY <1>5 DEF Restart, EnrolsStakesOK
<1>6. ASSUME boot' = boot, UNCHANGED <<pc, locals, pendingEnrollments>> PROVE EnrolsStakesOK'
  <2>1. ASSUME NEW h \in pendingEnrollments PROVE CurrentStake(h)'
    BY <1>1, <1>6, <2>1 DEF EnrolsStakesOK
  <2>2. ASSUME NEW k \in Handlers, pc[k] = "track" PROVE CurrentStake(fresh[k])'
    <3>1. PICK h \in Hashes : h = fresh[k] /\ CurrentStake(h)
      BY <2>2 DEF LocalsOK, EnrolsStakesOK
    <3> QED
      BY <1>1, <1>6, <3>1 DEF CurrentStake, locals
  <2>3. ASSUME NEW k \in Handlers, enrolling[k] PROVE CurrentStake(req[k].hash)'
    <3>1. PICK h \in Hashes : h = req[k].hash /\ CurrentStake(h)
      BY <1>2, <2>3 DEF EnrolsStakesOK
    <3> QED
      BY <1>1, <1>6, <3>1 DEF CurrentStake, locals
  <2> QED
    BY <1>6, <2>1, <2>2, <2>3 DEF EnrolsStakesOK, CurrentStake, locals
<1>7. \/ Restart \/ \E g \in Handlers : HandlerStep(g)
      \/ boot' = boot /\ UNCHANGED <<pc, locals, pendingEnrollments>>
  BY DEF Next, Environment, AnonCleanup, Settlement, Pay, Cancel, vars, process, start
<1> QED
  BY <1>3, <1>4, <1>5, <1>6, <1>7 DEF EnrolsStakesOK

\* A credential is minted for a stake of this boot only, and an invoice of this
\* boot opens the gate only if it asked for the stake, or for the floor toll.
THEOREM FloorPaidHolds == Spec => []FloorPaid
<1>1. Init => ChargedOK /\ EnrolsStakesOK
  BY DEF Init, ChargedOK, EnrolsStakesOK
<1>2. TInv /\ StakeInv /\ ChargedOK /\ EnrolsStakesOK /\ [Next]_vars
      => ChargedOK' /\ EnrolsStakesOK'
  BY ChargedStep, EnrolsStakesStep DEF StakeInv
<1>3. TInv /\ StakeInv /\ ChargedOK /\ EnrolsStakesOK => FloorPaid
  <2> SUFFICES ASSUME TInv, StakeInv, ChargedOK, EnrolsStakesOK,
                      NEW g \in Handlers, curve, pc[g] \in Passed, NEW i, i = invoices[req[g].hash]
               PROVE  /\ pc[g] \in {"mint", "createPrincipal"} => i.memo = "stake" /\ i.bornIn = boot
                      /\ i.bornIn = boot => i.sats >= IF i.memo = "stake" THEN Stake ELSE FloorToll
    BY DEF FloorPaid
  <2>1. req[g].hash \in Hashes /\ i # None
    BY NoneAssumption DEF TInv, Typed, LocalsOK, Redeeming, Passed, StakeInv, EnrollingOK, Sent
  <2>2. pc[g] \in {"mint", "createPrincipal"} => CurrentStake(req[g].hash)
    BY DEF EnrolsStakesOK
  <2> QED
    BY <2>1, <2>2 DEF CurrentStake, ChargedOK, Charge
<1> QED
  BY <1>1, <1>2, <1>3, StakeInvHolds, TypeInit, TInvStep, PTL DEF Spec
=============================================================================
