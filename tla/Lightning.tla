------------------------------ MODULE Lightning ------------------------------
(***************************************************************************)
(* The proxy with the Lightning backend: serveMetered (the cost curve) or  *)
(* serveFlat (internal/proxy), the L402 verifier and credential issuer     *)
(* (internal/payment/lightning), its spent store, the principal store, lnd *)
(* and its invoices, and restarts of the process.                          *)
(*                                                                         *)
(* Every in-flight HTTP request is a handler.  A step of a handler is one  *)
(* call on shared state (a store, a locked map of the proxy, lnd); the     *)
(* verifier has no mutex, so handlers interleave between any two of them.  *)
(* An L402 token is a payment hash and a preimage: no code checks the      *)
(* macaroon's signature, only its identifier, which is the hash.           *)
(***************************************************************************)
EXTENDS Naturals, FiniteSets, Pricing, Config

CONSTANTS
    Handlers,       \* requests in flight
    IPs,            \* client addresses
    Hashes,         \* the payment hashes of the invoices lnd can create
    Principals,     \* principal identifiers
    Modes,          \* configurations: TRUE, with a curve; FALSE, flat toll
    Persistent,     \* TRUE: SQLiteStore for spent tokens; FALSE: MemStore
    Routes,         \* configured routes
    Price,          \* price_sats of each route, used without a curve
    FloorToll,      \* floor_toll_sats
    Slope,          \* escalation_slope
    Stake,          \* enrollment_stake_sats
    AnonymousCap,   \* anonymous_cap
    MaxBoots,       \* bound: restarts of the process
    None            \* no credential, no token, no invoice, no record

VARIABLES
    boot,                \* restarts so far; the keys of NewVerifier are of this boot
    curve,               \* Handler.curve is set: serveMetered, not serveFlat
    used,                \* Store
    principals,          \* PrincipalStore
    pendingEnrollments,  \* Handler.pendingEnrollments
    anonCounts,          \* Handler.anonCounts
    invoices,            \* lnd: the invoices it has created
    known,               \* payment hashes whose preimage is out of lnd
    signedIn,            \* credentials minted: the boot whose key signed each, or None
    held,                \* credentials that reached their client
    pc,                  \* where each handler is
    req,                 \* handler local: the request
    price,               \* handler local: the price of the route, or the curve's
    enrolling,           \* handler local: inside CompleteEnrollment
    fresh,               \* handler local: the new payment hash or principal
    spent,               \* history: hashes MarkUsed was ever called with
    grants,              \* history: requests forwarded for each hash
    mints,               \* history: credentials minted for each hash
    metered              \* history: requests forwarded for each principal

process == <<used, principals, pendingEnrollments, anonCounts>>
lnd == <<invoices, known>>
credentials == <<signedIn, held>>
locals == <<req, price, enrolling, fresh>>
history == <<spent, grants, mints, metered>>
start == <<boot, curve>>
vars == <<start, process, lnd, credentials, pc, locals, history>>

INSTANCE SpentStore WITH Keys <- Hashes
INSTANCE PrincipalStore

ASSUME ConfigAssumption ==
    /\ ValidCurve(FloorToll, AnonymousCap, Slope, Stake)
    /\ ValidRoutes(Routes, Price)
    /\ \A mode \in Modes : ValidBackend(TRUE, FALSE, mode)
    /\ Modes \subseteq BOOLEAN
    /\ Persistent \in BOOLEAN
    /\ MaxBoots \in Nat

\* However many requests are in flight, they are finitely many.
ASSUME HandlersAssumption == IsFiniteSet(Handlers)

\* What a request carries: its source, a credential that validates, a token with
\* the right preimage or not, and (history) whether the token was spent already.
Request ==
    [ip : IPs, cred : Principals \cup {None}, hash : Hashes \cup {None},
     proof : BOOLEAN, late : BOOLEAN]

\* An lnd invoice, with the boot that asked for it (history).  One that is made
\* is in lnd but the 402 that carries it has not left the proxy.
Invoice ==
    [sats : Nat, memo : {"toll", "stake"}, bornIn : Nat,
     state : {"made", "open", "settled", "canceled"}]

ASSUME NoneAssumption ==
    None \notin Handlers \cup IPs \cup Hashes \cup Principals \cup Request \cup Invoice \cup Nat

Labels ==
    {"idle", "getPrincipal", "checkEnrollment", "lookupInvoice", "isUsed", "markUsed",
     "mint", "createPrincipal", "increment", "anonIncrement", "forward",
     "anonCount", "addInvoice", "addStake", "track"}

TypeOK ==
    /\ boot \in 0..MaxBoots
    /\ curve \in BOOLEAN
    /\ SpentTypeOK
    /\ PrincipalTypeOK
    /\ pendingEnrollments \subseteq Hashes
    /\ anonCounts \in [IPs -> Nat]
    /\ invoices \in [Hashes -> Invoice \cup {None}]
    /\ known \subseteq Hashes
    /\ signedIn \in [Principals -> Nat \cup {None}]
    /\ held \subseteq Principals
    /\ pc \in [Handlers -> Labels]
    /\ req \in [Handlers -> Request \cup {None}]
    /\ price \in [Handlers -> Nat]
    /\ enrolling \in [Handlers -> BOOLEAN]
    /\ fresh \in [Handlers -> Hashes \cup Principals \cup {None}]
    /\ spent \subseteq Hashes
    /\ grants \in [Hashes -> Nat]
    /\ mints \in [Hashes -> Nat]
    /\ metered \in [Principals -> Nat]

Init ==
    /\ boot = 0
    /\ curve \in Modes
    /\ SpentInit
    /\ PrincipalInit
    /\ pendingEnrollments = {}
    /\ anonCounts = [ip \in IPs |-> 0]
    /\ invoices = [h \in Hashes |-> None]
    /\ known = {}
    /\ signedIn = [p \in Principals |-> None]
    /\ held = {}
    /\ pc = [g \in Handlers |-> "idle"]
    /\ req = [g \in Handlers |-> None]
    /\ price = [g \in Handlers |-> 0]
    /\ enrolling = [g \in Handlers |-> FALSE]
    /\ fresh = [g \in Handlers |-> None]
    /\ spent = {}
    /\ grants = [h \in Hashes |-> 0]
    /\ mints = [h \in Hashes |-> 0]
    /\ metered = [p \in Principals |-> 0]

-----------------------------------------------------------------------------
(* Helpers of the steps *)

Goto(g, label) == pc' = [pc EXCEPT ![g] = label]

\* The handler goes on with what it knows.
Step(g, label) == Goto(g, label) /\ UNCHANGED locals

\* The handler writes its response and is gone.
Answer(g) ==
    /\ Goto(g, "idle")
    /\ req' = [req EXCEPT ![g] = None]
    /\ price' = [price EXCEPT ![g] = 0]
    /\ enrolling' = [enrolling EXCEPT ![g] = FALSE]
    /\ fresh' = [fresh EXCEPT ![g] = None]

\* The price at hand, for payment.WithPrice if a challenge is issued.
WithPrice(g, sats, label) ==
    /\ Goto(g, label)
    /\ price' = [price EXCEPT ![g] = sats]
    /\ UNCHANGED <<enrolling, fresh>>

Sent(h) == invoices[h] # None /\ invoices[h].state # "made"
Settled(h) == invoices[h] # None /\ invoices[h].state = "settled"

\* ValidateCredential: the signature of this boot's credentialKey.
Valid(p) == signedIn[p] = boot

IsPendingEnrollment(h) == h \in pendingEnrollments

\* The preimage that lnd gives for a hash, if any.
LookupSettlement(h) == IF Settled(h) THEN {h} ELSE {}

\* A new request; its client uses the best preimage it can find.
Arrive(g, ip, cred, hash) ==
    /\ pc[g] = "idle"
    /\ req' = [req EXCEPT ![g] =
            [ip |-> ip, cred |-> cred, hash |-> hash,
             proof |-> hash \in known, late |-> hash \in spent]]

-----------------------------------------------------------------------------
(* serveMetered and serveFlat *)

\* Tier 3.  (A credential that does not validate gets a 401 and no more.)
ArriveWithCredential(g) ==
    /\ curve
    /\ \E ip \in IPs, p \in held, hash \in {h \in Hashes : Sent(h)} \cup {None} :
        Valid(p) /\ Arrive(g, ip, p, hash)
    /\ Goto(g, "getPrincipal")
    /\ UNCHANGED <<start, process, lnd, credentials, price, enrolling, fresh, history>>

\* The price of a matched route.  With a curve none is read.
RoutePrices == IF curve THEN {0} ELSE {Price[r] : r \in Routes}

\* A token and no credential, on any route: nothing that follows compares its
\* price with what was paid.  (A hash lnd never saw fails as an unpaid one does.)
ArriveWithToken(g) ==
    /\ \E ip \in IPs, h \in Hashes : Sent(h) /\ Arrive(g, ip, None, h)
    /\ \E sats \in RoutePrices :
        WithPrice(g, sats, IF curve THEN "checkEnrollment" ELSE "lookupInvoice")
    /\ UNCHANGED <<start, process, lnd, credentials, history>>

\* Neither, and the rate limiter lets it through.
ArriveBare(g) ==
    /\ \E ip \in IPs : Arrive(g, ip, None, None)
    /\ \E sats \in RoutePrices :
        WithPrice(g, sats, IF curve THEN "anonCount" ELSE "addInvoice")
    /\ UNCHANGED <<start, process, lnd, credentials, history>>

\* Wrong: the request is charged for before its proof is verified.
LookupPrincipalCharges(g) ==
    /\ pc[g] = "getPrincipal"
    /\ HasPrincipal(req[g].cred)
    /\ IncrementRequestCount(req[g].cred)
    /\ WithPrice(g, CurvePrice(principals[req[g].cred] + 1, FloorToll, Slope),
                 IF req[g].hash = None THEN "addInvoice" ELSE "lookupInvoice")
    /\ UNCHANGED <<start, used, pendingEnrollments, anonCounts, lnd, credentials, req, history>>

\* The count read here prices the challenge; nothing holds it until redemption.
LookupPrincipal(g) ==
    /\ pc[g] = "getPrincipal"
    /\ LET p == req[g].cred IN
        \/ ~HasPrincipal(p) /\ Answer(g)
        \/ /\ HasPrincipal(p)
           /\ WithPrice(g, CurvePrice(principals[p] + 1, FloorToll, Slope),
                        IF req[g].hash = None THEN "addInvoice" ELSE "lookupInvoice")
           /\ UNCHANGED req
    /\ UNCHANGED <<start, process, lnd, credentials, history>>

\* Wrong: the enrollment is forgotten before its payment is verified.
CheckEnrollmentRemoves(g) ==
    /\ pc[g] = "checkEnrollment"
    /\ Goto(g, "lookupInvoice")
    /\ enrolling' = [enrolling EXCEPT ![g] = req[g].hash \in pendingEnrollments]
    /\ pendingEnrollments' = pendingEnrollments \ {req[g].hash}
    /\ UNCHANGED <<start, used, principals, anonCounts, lnd, credentials, req, price, fresh,
                   history>>

\* isPendingEnrollment decides between CompleteEnrollment and VerifyProof.
CheckEnrollment(g) ==
    /\ pc[g] = "checkEnrollment"
    /\ Goto(g, "lookupInvoice")
    /\ enrolling' = [enrolling EXCEPT ![g] = IsPendingEnrollment(req[g].hash)]
    /\ UNCHANGED <<start, process, lnd, credentials, req, price, fresh, history>>

\* Wrong: the enrollment challenge asks for the floor toll.
CheckAnonCountCheapens(g) ==
    /\ pc[g] = "anonCount"
    /\ WithPrice(g, FloorToll,
                 IF anonCounts[req[g].ip] >= AnonymousCap THEN "addStake" ELSE "addInvoice")
    /\ UNCHANGED <<start, process, lnd, credentials, req, history>>

\* Floor challenge or enrollment challenge?
CheckAnonCount(g) ==
    /\ pc[g] = "anonCount"
    /\ IF anonCounts[req[g].ip] >= AnonymousCap
         THEN WithPrice(g, Stake, "addStake")
         ELSE WithPrice(g, FloorToll, "addInvoice")
    /\ UNCHANGED <<start, process, lnd, credentials, req, history>>

\* IncrementRequestCount, after the proof was accepted.
CountRequest(g) ==
    /\ pc[g] = "increment"
    /\ IncrementRequestCount(req[g].cred)
    /\ Step(g, "forward")
    /\ UNCHANGED <<start, used, pendingEnrollments, anonCounts, lnd, credentials, history>>

CountAnonymous(g) ==
    /\ pc[g] = "anonIncrement"
    /\ anonCounts' = [anonCounts EXCEPT ![req[g].ip] = @ + 1]
    /\ Step(g, "forward")
    /\ UNCHANGED <<start, used, principals, pendingEnrollments, lnd, credentials, history>>

Forward(g) ==
    /\ pc[g] = "forward"
    /\ grants' = [grants EXCEPT ![req[g].hash] = @ + 1]
    /\ metered' = IF req[g].cred = None THEN metered
                  ELSE [metered EXCEPT ![req[g].cred] = @ + 1]
    /\ Answer(g)
    /\ UNCHANGED <<start, process, lnd, credentials, spent, mints>>

-----------------------------------------------------------------------------
(* IssueChallenge and IssueEnrollmentChallenge *)

NewInvoice(h, sats, memo, state) ==
    invoices' = [invoices EXCEPT ![h] =
        [sats |-> sats, memo |-> memo, bornIn |-> boot, state |-> state]]

\* AddInvoice and the 402, or an error of lnd.
IssueChallenge(g) ==
    /\ pc[g] = "addInvoice"
    /\ \/ \E h \in Hashes :
            invoices[h] = None /\ NewInvoice(h, price[g], "toll", "open")
       \/ UNCHANGED invoices
    /\ Answer(g)
    /\ UNCHANGED <<start, process, known, credentials, history>>

\* Wrong: the 402 leaves before trackPendingEnrollment.
IssueEnrollmentChallengeEarly(g) ==
    /\ pc[g] = "addStake"
    /\ \E h \in Hashes :
        /\ invoices[h] = None
        /\ NewInvoice(h, price[g], "stake", "open")
        /\ fresh' = [fresh EXCEPT ![g] = h]
    /\ Goto(g, "track")
    /\ UNCHANGED <<start, process, known, credentials, req, price, enrolling, history>>

\* The 402 of a stake is flushed when the handler returns, after TrackEnrollment.
IssueEnrollmentChallenge(g) ==
    /\ pc[g] = "addStake"
    /\ \/ \E h \in Hashes :
            /\ invoices[h] = None
            /\ NewInvoice(h, price[g], "stake", "made")
            /\ fresh' = [fresh EXCEPT ![g] = h]
            /\ Goto(g, "track")
            /\ UNCHANGED <<req, price, enrolling>>
       \/ Answer(g) /\ UNCHANGED invoices
    /\ UNCHANGED <<start, process, known, credentials, history>>

\* Wrong: the request's token is tracked instead of the new invoice.
TrackEnrollmentOfRequest(g) ==
    /\ pc[g] = "track"
    /\ pendingEnrollments' = pendingEnrollments \cup {req[g].hash}
    /\ invoices' = [invoices EXCEPT ![fresh[g]].state = "open"]
    /\ Answer(g)
    /\ UNCHANGED <<start, used, principals, anonCounts, known, credentials, history>>

TrackEnrollment(g) ==
    /\ pc[g] = "track"
    /\ pendingEnrollments' = pendingEnrollments \cup {fresh[g]}
    /\ invoices' = [invoices EXCEPT ![fresh[g]].state = "open"]
    /\ Answer(g)
    /\ UNCHANGED <<start, used, principals, anonCounts, known, credentials, history>>

-----------------------------------------------------------------------------
(* VerifyProof, and CompleteEnrollment, which makes the same three checks *)

\* Wrong: neither the preimage nor the invoice is looked at.
LookupInvoiceTrusts(g) ==
    /\ pc[g] = "lookupInvoice"
    /\ Step(g, "isUsed")
    /\ UNCHANGED <<start, process, lnd, credentials, history>>

\* The preimage, then lnd's answer (or its error).
LookupInvoice(g) ==
    /\ pc[g] = "lookupInvoice"
    /\ \/ req[g].proof /\ Settled(req[g].hash) /\ Step(g, "isUsed")
       \/ Answer(g)
    /\ UNCHANGED <<start, process, lnd, credentials, history>>

\* Wrong: an error of the store is taken for "not used".
CheckUsedFailsOpen(g) ==
    /\ pc[g] = "isUsed"
    /\ \/ (~IsUsed(req[g].hash) \/ Persistent) /\ Step(g, "markUsed")
       \/ IsUsed(req[g].hash) /\ Answer(g)
    /\ UNCHANGED <<start, process, lnd, credentials, history>>

CheckUsed(g) ==
    /\ pc[g] = "isUsed"
    /\ \/ ~IsUsed(req[g].hash) /\ Step(g, "markUsed")
       \/ (IsUsed(req[g].hash) \/ Persistent) /\ Answer(g)
    /\ UNCHANGED <<start, process, lnd, credentials, history>>

\* What follows an accepted proof.
Accepted(g) ==
    IF enrolling[g] THEN "mint"
    ELSE IF req[g].cred # None THEN "increment"
    ELSE IF curve THEN "anonIncrement" ELSE "forward"

\* Wrong: an error of MarkUsed is ignored.
RecordUsedOrNot(g) ==
    /\ pc[g] = "markUsed"
    /\ \/ MarkUsed(req[g].hash)
       \/ Persistent /\ UNCHANGED used
    /\ spent' = spent \cup {req[g].hash}
    /\ Step(g, Accepted(g))
    /\ UNCHANGED <<start, principals, pendingEnrollments, anonCounts, lnd, credentials,
                   grants, mints, metered>>

\* MarkUsed is idempotent: that the key was marked in between goes unnoticed.
RecordUsed(g) ==
    /\ pc[g] = "markUsed"
    /\ \/ /\ MarkUsed(req[g].hash)
          /\ spent' = spent \cup {req[g].hash}
          /\ Step(g, Accepted(g))
       \/ Persistent /\ Answer(g) /\ UNCHANGED <<used, spent>>
    /\ UNCHANGED <<start, principals, pendingEnrollments, anonCounts, lnd, credentials,
                   grants, mints, metered>>

\* A fresh identifier, and a credential for it signed with this boot's key.
MintCredential(p) ==
    /\ signedIn[p] = None
    /\ signedIn' = [signedIn EXCEPT ![p] = boot]

RemovePendingEnrollment(h) == pendingEnrollments' = pendingEnrollments \ {h}

Mint(g) ==
    /\ pc[g] = "mint"
    /\ \E p \in Principals :
        /\ MintCredential(p)
        /\ fresh' = [fresh EXCEPT ![g] = p]
    /\ RemovePendingEnrollment(req[g].hash)
    /\ mints' = [mints EXCEPT ![req[g].hash] = @ + 1]
    /\ Goto(g, "createPrincipal")
    /\ UNCHANGED <<start, used, principals, anonCounts, lnd, held, req, price, enrolling,
                   spent, grants, metered>>

\* An error of newPrincipalID or mintCredential: the stake is spent, for nothing.
MintFails(g) ==
    /\ pc[g] = "mint"
    /\ Answer(g)
    /\ UNCHANGED <<start, process, lnd, credentials, history>>

\* Wrong: the credential is sent although the record was not created.
EnrollUnrecorded(g) ==
    /\ pc[g] = "createPrincipal"
    /\ held' = held \cup {fresh[g]}
    /\ Answer(g)
    /\ UNCHANGED <<start, process, lnd, signedIn, history>>

\* CreatePrincipal, then the 200 with the credential, if the client is still there.
Enroll(g) ==
    /\ pc[g] = "createPrincipal"
    /\ CreatePrincipal(fresh[g])
    /\ held' \in {held, held \cup {fresh[g]}}
    /\ Answer(g)
    /\ UNCHANGED <<start, used, pendingEnrollments, anonCounts, lnd, signedIn, history>>

-----------------------------------------------------------------------------
(* The rest of the process, lnd and the clients *)

\* startAnonCleanup: one tick of its ticker.
AnonCleanup ==
    /\ curve
    /\ anonCounts' = [ip \in IPs |-> 0]
    /\ UNCHANGED <<start, used, principals, pendingEnrollments, lnd, credentials, pc, locals,
                   history>>

\* The settlement endpoint answers anyone who has a payment hash.  (That it says
\* again what is known already changes nothing.)
Settlement(h) ==
    /\ curve
    /\ Sent(h)
    /\ h \notin known
    /\ known' = known \cup LookupSettlement(h)
    /\ UNCHANGED <<start, process, invoices, credentials, pc, locals, history>>

\* A client pays; its wallet may hand it the preimage, or not (manual payment).
Pay(h) ==
    /\ invoices[h] # None
    /\ invoices[h].state = "open"
    /\ invoices' = [invoices EXCEPT ![h].state = "settled"]
    /\ known' \in {known, known \cup {h}}
    /\ UNCHANGED <<start, process, credentials, pc, locals, history>>

\* lnd's own expiry of an invoice.
Cancel(h) ==
    /\ invoices[h] # None
    /\ invoices[h].state = "open"
    /\ invoices' = [invoices EXCEPT ![h].state = "canceled"]
    /\ UNCHANGED <<start, process, known, credentials, pc, locals, history>>

\* The process dies and starts again with new keys, empty maps
\* and perhaps another configuration.
Restart ==
    /\ boot < MaxBoots
    /\ boot' = boot + 1
    /\ curve' \in Modes
    /\ SpentReopen
    /\ principals' = [p \in Principals |-> None]
    /\ pendingEnrollments' = {}
    /\ anonCounts' = [ip \in IPs |-> 0]
    /\ pc' = [g \in Handlers |-> "idle"]
    /\ req' = [g \in Handlers |-> None]
    /\ price' = [g \in Handlers |-> 0]
    /\ enrolling' = [g \in Handlers |-> FALSE]
    /\ fresh' = [g \in Handlers |-> None]
    /\ UNCHANGED <<lnd, credentials, history>>

HandlerStep(g) ==
    \/ ArriveWithCredential(g) \/ ArriveWithToken(g) \/ ArriveBare(g)
    \/ LookupPrincipal(g) \/ CheckEnrollment(g) \/ CheckAnonCount(g)
    \/ LookupInvoice(g) \/ CheckUsed(g) \/ RecordUsed(g) \/ Mint(g) \/ MintFails(g)
    \/ Enroll(g) \/ CountRequest(g) \/ CountAnonymous(g) \/ Forward(g)
    \/ IssueChallenge(g) \/ IssueEnrollmentChallenge(g) \/ TrackEnrollment(g)

Environment ==
    \/ AnonCleanup \/ Restart
    \/ \E h \in Hashes : Settlement(h) \/ Pay(h) \/ Cancel(h)

Next == (\E g \in Handlers : HandlerStep(g)) \/ Environment

Spec == Init /\ [][Next]_vars

-----------------------------------------------------------------------------
(* Properties *)

\* Nothing is forwarded and no credential is minted for an unsettled invoice.
ProofRequired == \A h \in Hashes : grants[h] + mints[h] > 0 => Settled(h)

\* Labels of a handler whose proof was accepted.
Passed == {"mint", "createPrincipal", "increment", "anonIncrement", "forward"}

\* With SQLite a token whose hash was marked used before the request arrived is
\* refused on every path, across restarts too: only overlapping requests race.
ReplayRejected ==
    Persistent => \A g \in Handlers : req[g] # None /\ req[g].late => pc[g] \notin Passed

\* A stake invoice of this boot that a client holds and nobody has redeemed is
\* known to isPendingEnrollment.
StakeTracked ==
    \A h \in Hashes :
        /\ Sent(h)
        /\ invoices[h].memo = "stake"
        /\ invoices[h].bornIn = boot
        /\ ~IsUsed(h)
        => h \in pendingEnrollments

\* A request goes upstream as an anonymous one on the strength of a stake.
StakeAsToll(g) ==
    /\ pc[g] \in {"anonIncrement", "forward"}
    /\ req[g].cred = None
    /\ invoices[req[g].hash].memo = "stake"

\* Within one boot a stake paid without a credential is never taken for a toll:
\* MarkUsed comes before removePendingEnrollment, so no request slips between.
StakeBuysCredential ==
    \A g \in Handlers : StakeAsToll(g) => invoices[req[g].hash].bornIn # boot

\* A client that holds a credential of this boot is known to the principal store,
\* whatever crash or disconnection met its enrollment: "unknown principal" is
\* never the answer to a credential that validates.
CredentialHasPrincipal == \A p \in held : Valid(p) => HasPrincipal(p)

\* The count that sets the price is the number of requests forwarded for the
\* principal, those about to be forwarded included: no concurrent increment is
\* lost and no refused request is charged for.
MeteringExact ==
    \A p \in Principals : HasPrincipal(p) =>
        principals[p] =
            metered[p] + Cardinality({g \in Handlers : pc[g] = "forward" /\ req[g].cred = p})

\* The end-to-end walkthrough: one payment grants access exactly once.
GrantedOnce == \A h \in Hashes : grants[h] <= 1

\* The Nth request under a credential costs at least CurvePrice(N).
CurvePaid ==
    [][\A g \in Handlers : pc[g] = "increment" /\ pc'[g] = "forward" =>
          invoices[req[g].hash].sats >=
              CurvePrice(principals'[req[g].cred], FloorToll, Slope)]_vars

\* No token from before a restart opens the gate.
RestartInvalidates ==
    \A g \in Handlers : pc[g] = "forward" => invoices[req[g].hash].bornIn = boot

\* In each life of the spent set a payment hash opens the gate, or mints, at most
\* once for each request in flight: those past IsUsed when the first of them
\* reaches MarkUsed.  A MemStore lives as long as its process, SQLite for ever.
RaceBounded ==
    \A h \in Hashes :
        grants[h] + mints[h] <= Cardinality(Handlers) * (IF Persistent THEN 1 ELSE boot + 1)

\* What is left of the curve's prices when any settled token passes (CurvePaid): a
\* credential is minted for a stake of this boot only, and no invoice of this boot
\* that opens the gate was for less than the stake or the floor toll.
FloorPaid ==
    \A g \in Handlers : curve /\ pc[g] \in Passed =>
        LET i == invoices[req[g].hash] IN
            /\ pc[g] \in {"mint", "createPrincipal"} => i.memo = "stake" /\ i.bornIn = boot
            /\ i.bornIn = boot => i.sats >= IF i.memo = "stake" THEN Stake ELSE FloorToll

\* Each payment hash is a reference of the abstract toll; a settled invoice is what
\* it has received, and it buys a forwarded request or a credential.
Quoted == [h \in Hashes |-> IF invoices[h] = None THEN 0 ELSE invoices[h].sats]
Paid == [h \in Hashes |-> IF Settled(h) THEN invoices[h].sats ELSE 0]
Opened == [h \in Hashes |-> grants[h] + mints[h]]

RacedToll == INSTANCE Toll WITH
    Refs <- Hashes,
    Copies <- Cardinality(Handlers) * (IF Persistent THEN 1 ELSE MaxBoots + 1),
    price <- Quoted, received <- Paid, served <- Opened

\* With any number of requests in flight and either store it implements the toll
\* whose gate opens once for each of them, and again in each life of a MemStore.
ImplementsRacedToll == RacedToll!Spec
=============================================================================
