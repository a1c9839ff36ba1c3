------------------------------- MODULE Onchain -------------------------------
(***************************************************************************)
(* The proxy with the on-chain backend: serveFlat (internal/proxy), the    *)
(* on-chain verifier (internal/payment/onchain), its store, the sweep      *)
(* goroutine, bitcoind and the blockchain, and crashes of the process.     *)
(*                                                                         *)
(* Every in-flight HTTP request is a handler with a program counter.  A    *)
(* step of a handler is one call it makes on shared state (a store call,   *)
(* the mutex, an RPC); what lies between two calls is local to it.  A      *)
(* handler that is idle stands for the next request the server accepts.    *)
(***************************************************************************)
EXTENDS Naturals, Config

CONSTANTS
    Handlers,     \* requests in flight
    Addr,         \* the addresses bitcoind can derive
    Routes,       \* configured routes
    Price,        \* price_sats of each route
    Persistent,   \* TRUE: SQLiteStore; FALSE: MemStore
    MinConf,      \* min_conf: 0 accepts mempool transactions
    PendingTTL,   \* pendingTTL, in ticks
    TicksPerSec,  \* ticks of the clock in a second
    MaxTime,      \* bound: the last tick of the model
    MaxPay,       \* bound: most satoshis sent to one address
    None          \* no address, no route, no row, no quote

VARIABLES
    now,        \* time.Now()
    pending,    \* PendingStore
    used,       \* Store
    mu,         \* Verifier.mu: the handler that holds it, or None
    pc,         \* where each handler is
    route,      \* handler local: the matched route
    addr,       \* handler local: the token's address, or the new one
    entry,      \* handler local: the row to be written, or the one GetPending returned
    derived,    \* bitcoind's wallet: addresses it has handed out
    mempool,    \* unconfirmed satoshis sent to each address
    confirmed,  \* confirmed satoshis sent to each address
    quote,      \* history: what the client was told, price and deadline
    grants,     \* history: requests forwarded upstream for each address
    lost        \* history: quotes that a crash or a failed MarkUsed took away

store == <<pending, used>>
locals == <<route, addr, entry>>
chain == <<mempool, confirmed>>
history == <<quote, grants, lost>>
vars == <<now, store, mu, pc, locals, derived, chain, history>>

INSTANCE SpentStore WITH Keys <- Addr
INSTANCE PendingStore

ASSUME BoundsAssumption ==
    /\ ValidRoutes(Routes, Price)
    /\ ValidBitcoind(MinConf)
    /\ Persistent \in BOOLEAN
    /\ TicksPerSec \in Positive
    /\ {PendingTTL, MaxTime, MaxPay} \subseteq Nat

\* What a 402 tells the client (its address aside).
Quote == [sats : Nat, deadline : Nat]

ASSUME NoneAssumption == None \notin Handlers \cup Addr \cup Routes \cup Entry \cup Quote

\* Labels of VerifyProof that hold mu, in order, and all the labels.
Critical == {"getPending", "checkExpiry", "dropExpired", "received", "delete", "mark"}
Labels == {"idle", "isUsed", "lock", "forward", "newAddress", "addPending"} \cup Critical

\* Labels of a handler that has read a row and not yet deleted it.
Reads == {"checkExpiry", "dropExpired", "received", "delete"}

\* Labels where a handler waits for an answer of bitcoind.
AwaitsRpc == {"received", "newAddress"}

\* A local variable has a value from the step that sets it to the answer.
LocalsOK ==
    \A g \in Handlers :
        /\ pc[g] # "idle" => route[g] \in Routes
        /\ pc[g] \notin {"idle", "newAddress"} => addr[g] \in Addr
        /\ pc[g] \in Reads \cup {"addPending"} => entry[g] \in Entry

TypeOK ==
    /\ now \in 0..MaxTime
    /\ PendingTypeOK
    /\ SpentTypeOK
    /\ mu \in Handlers \cup {None}
    /\ pc \in [Handlers -> Labels]
    /\ route \in [Handlers -> Routes \cup {None}]
    /\ addr \in [Handlers -> Addr \cup {None}]
    /\ entry \in [Handlers -> Entry \cup {None}]
    /\ derived \subseteq Addr
    /\ mempool \in [Addr -> Nat]
    /\ confirmed \in [Addr -> Nat]
    /\ quote \in [Addr -> Quote \cup {None}]
    /\ grants \in [Addr -> Nat]
    /\ lost \subseteq Addr
    /\ LocalsOK

Init ==
    /\ now = 0
    /\ PendingInit
    /\ SpentInit
    /\ mu = None
    /\ pc = [g \in Handlers |-> "idle"]
    /\ route = [g \in Handlers |-> None]
    /\ addr = [g \in Handlers |-> None]
    /\ entry = [g \in Handlers |-> None]
    /\ derived = {}
    /\ mempool = [a \in Addr |-> 0]
    /\ confirmed = [a \in Addr |-> 0]
    /\ quote = [a \in Addr |-> None]
    /\ grants = [a \in Addr |-> 0]
    /\ lost = {}

-----------------------------------------------------------------------------
(* Helpers of the steps *)

\* Wrong: minConf is not passed on.
ReceivedUnconfirmed(a) == confirmed[a] + mempool[a]

\* getreceivedbyaddress with the verifier's minConf.
Received(a) == confirmed[a] + (IF MinConf = 0 THEN mempool[a] ELSE 0)

Goto(g, label) == pc' = [pc EXCEPT ![g] = label]

\* The handler stays inside VerifyProof or IssueChallenge with what it knows.
Step(g, label) == Goto(g, label) /\ UNCHANGED <<mu, locals>>

\* Wrong: a return without the deferred Unlock.
UnlockForgotten(g) == mu' = mu

\* The deferred Unlock of a call that returns.
Unlock(g) == mu' = IF mu = g THEN None ELSE mu

\* The handler writes its response and is gone.
Answer(g) ==
    /\ Goto(g, "idle")
    /\ Unlock(g)
    /\ route' = [route EXCEPT ![g] = None]
    /\ addr' = [addr EXCEPT ![g] = None]
    /\ entry' = [entry EXCEPT ![g] = None]

\* The call of bitcoind fails, or answers with an error or what is not JSON.
RpcError(g) == Answer(g)

\* A database statement can return an error; the maps of MemStore cannot.
StoreError(g) == Persistent /\ Answer(g)

-----------------------------------------------------------------------------
(* serveFlat *)

\* A request with a token: any address, quoted or not, by any client.
Present(g) ==
    /\ pc[g] = "idle"
    /\ \E r \in Routes, a \in Addr :
        /\ route' = [route EXCEPT ![g] = r]
        /\ addr' = [addr EXCEPT ![g] = a]
    /\ Goto(g, "isUsed")
    /\ UNCHANGED <<now, store, mu, entry, derived, chain, history>>

\* Wrong: the challenge is built without the price of a matched route.
RequestQuoteUnmatched(g) ==
    /\ pc[g] = "idle"
    /\ Goto(g, "newAddress")
    /\ UNCHANGED <<now, store, mu, locals, derived, chain, history>>

\* A request with no token that the rate limiter lets through.
RequestQuote(g) ==
    /\ pc[g] = "idle"
    /\ \E r \in Routes : route' = [route EXCEPT ![g] = r]
    /\ Goto(g, "newAddress")
    /\ UNCHANGED <<now, store, mu, addr, entry, derived, chain, history>>

\* VerifyProof said yes: the request goes upstream.
Forward(g) ==
    /\ pc[g] = "forward"
    /\ grants' = [grants EXCEPT ![addr[g]] = @ + 1]
    /\ Answer(g)
    /\ UNCHANGED <<now, store, derived, chain, quote, lost>>

-----------------------------------------------------------------------------
(* IssueChallenge *)

\* bitcoind derives an address it never returned before, or the call fails; the
\* expiry is computed as soon as it answers.
GetNewAddress(g) ==
    /\ pc[g] = "newAddress"
    /\ \/ \E a \in Addr \ derived :
            /\ derived' = derived \cup {a}
            /\ addr' = [addr EXCEPT ![g] = a]
            /\ entry' = [entry EXCEPT ![g] =
                    [sats |-> Price[route[g]], expiresAt |-> now + PendingTTL]]
            /\ Goto(g, "addPending")
            /\ UNCHANGED <<mu, route>>
       \/ RpcError(g) /\ UNCHANGED derived
    /\ UNCHANGED <<now, store, chain, history>>

\* The row is written, then the 402 with address, price and expires_in, a window
\* that counts from the time the expiry was computed with.
StoreQuote(g) ==
    /\ pc[g] = "addPending"
    /\ \/ /\ AddPending(addr[g], entry[g].sats, entry[g].expiresAt)
          /\ quote' = [quote EXCEPT ![addr[g]] =
                  [sats |-> entry[g].sats, deadline |-> entry[g].expiresAt]]
          /\ Answer(g)
       \/ StoreError(g) /\ UNCHANGED <<pending, quote>>
    /\ UNCHANGED <<now, used, derived, chain, grants, lost>>

-----------------------------------------------------------------------------
(* VerifyProof *)

\* The first look at the spent set is taken before the mutex.
CheckUsed(g) ==
    /\ pc[g] = "isUsed"
    /\ \/ IsUsed(addr[g]) /\ Answer(g)
       \/ ~IsUsed(addr[g]) /\ Step(g, "lock")
       \/ StoreError(g)
    /\ UNCHANGED <<now, store, derived, chain, history>>

\* Wrong: no mutex.
AcquireLockAlways(g) ==
    /\ pc[g] = "lock"
    /\ Step(g, "getPending")
    /\ UNCHANGED <<now, store, derived, chain, history>>

AcquireLock(g) ==
    /\ pc[g] = "lock"
    /\ mu = None
    /\ mu' = g
    /\ Goto(g, "getPending")
    /\ UNCHANGED <<now, store, locals, derived, chain, history>>

ReadPending(g) ==
    /\ pc[g] = "getPending"
    /\ \/ /\ IsPending(addr[g])
          /\ entry' = [entry EXCEPT ![g] = pending[addr[g]]]
          /\ Goto(g, "checkExpiry")
          /\ UNCHANGED <<mu, route, addr>>
       \/ ~IsPending(addr[g]) /\ Answer(g)
       \/ StoreError(g)
    /\ UNCHANGED <<now, store, derived, chain, history>>

CheckExpiry(g) ==
    /\ pc[g] = "checkExpiry"
    /\ Step(g, IF now > entry[g].expiresAt THEN "dropExpired" ELSE "received")
    /\ UNCHANGED <<now, store, derived, chain, history>>

\* The error of this DeletePending is ignored: either way the answer is no.
DropExpired(g) ==
    /\ pc[g] = "dropExpired"
    /\ \/ DeletePending(addr[g])
       \/ Persistent /\ UNCHANGED pending
    /\ Answer(g)
    /\ UNCHANGED <<now, used, derived, chain, history>>

\* Wrong: any payment will do.
CheckReceivedAny(g) ==
    /\ pc[g] = "received"
    /\ \/ Received(addr[g]) > 0 /\ Step(g, "delete")
       \/ Answer(g)
    /\ UNCHANGED <<now, store, derived, chain, history>>

\* Wrong: the row goes before the amount is looked at.
CheckReceivedDrops(g) ==
    /\ pc[g] = "received"
    /\ DeletePending(addr[g])
    /\ \/ Received(addr[g]) >= entry[g].sats /\ Step(g, "delete")
       \/ Answer(g)
    /\ UNCHANGED <<now, used, derived, chain, history>>

\* bitcoind's answer, or its error; mu is held while it is awaited.
CheckReceived(g) ==
    /\ pc[g] = "received"
    /\ \/ Received(addr[g]) >= entry[g].sats /\ Step(g, "delete")
       \/ Received(addr[g]) < entry[g].sats /\ Answer(g)
       \/ RpcError(g)
    /\ UNCHANGED <<now, store, derived, chain, history>>

\* Wrong: the row stays.
TakePendingKeeps(g) ==
    /\ pc[g] = "delete"
    /\ Step(g, "mark")
    /\ UNCHANGED <<now, store, derived, chain, history>>

\* Wrong: the mutex is released before MarkUsed.
TakePendingUnlocks(g) ==
    /\ pc[g] = "delete"
    /\ DeletePending(addr[g])
    /\ Goto(g, "mark")
    /\ mu' = None
    /\ UNCHANGED <<now, used, locals, derived, chain, history>>

TakePending(g) ==
    /\ pc[g] = "delete"
    /\ \/ DeletePending(addr[g]) /\ Step(g, "mark")
       \/ StoreError(g) /\ UNCHANGED pending
    /\ UNCHANGED <<now, used, derived, chain, history>>

\* An error here leaves an address that is neither pending nor used.
RecordUsed(g) ==
    /\ pc[g] = "mark"
    /\ \/ /\ MarkUsed(addr[g])
          /\ Goto(g, "forward")
          /\ Unlock(g)
          /\ UNCHANGED <<locals, lost>>
       \/ /\ StoreError(g)
          /\ lost' = lost \cup {addr[g]}
          /\ UNCHANGED used
    /\ UNCHANGED <<now, pending, derived, chain, quote, grants>>

-----------------------------------------------------------------------------
(* The rest of the process, and what surrounds it *)

\* Wrong: the window is counted from the expiry instead of from the quote.
PruneLate ==
    /\ PruneExpiredPending(now - PendingTTL)
    /\ UNCHANGED <<now, used, mu, pc, locals, derived, chain, history>>

\* cleanupLoop: one tick of its ticker (an error of the sweep changes nothing).
Prune ==
    /\ PruneExpiredPending(now)
    /\ UNCHANGED <<now, used, mu, pc, locals, derived, chain, history>>

Tick ==
    /\ now < MaxTime
    /\ now' = now + 1
    /\ UNCHANGED <<store, mu, pc, locals, derived, chain, history>>

\* Anyone sends satoshis to an address of the wallet.
Pay(a) ==
    /\ a \in derived
    /\ \E sats \in 1..MaxPay :
        /\ mempool[a] + confirmed[a] + sats <= MaxPay
        /\ mempool' = [mempool EXCEPT ![a] = @ + sats]
    /\ UNCHANGED <<now, store, mu, pc, locals, derived, confirmed, history>>

\* A block takes what waits in the mempool for the address.
Confirm(a) ==
    /\ mempool[a] > 0
    /\ confirmed' = [confirmed EXCEPT ![a] = @ + mempool[a]]
    /\ mempool' = [mempool EXCEPT ![a] = 0]
    /\ UNCHANGED <<now, store, mu, pc, locals, derived, history>>

\* A double spend or an eviction from the mempool.
Unsend(a) ==
    /\ mempool[a] > 0
    /\ mempool' = [mempool EXCEPT ![a] = 0]
    /\ UNCHANGED <<now, store, mu, pc, locals, derived, confirmed, history>>

\* The process dies and starts again.  The wallet and the chain do not; the
\* store does if it is SQLite.  A quote goes with its row, and with a handler
\* that had taken the row but not yet forwarded.
Restart ==
    /\ PendingReopen
    /\ SpentReopen
    /\ mu' = None
    /\ pc' = [g \in Handlers |-> "idle"]
    /\ route' = [g \in Handlers |-> None]
    /\ addr' = [g \in Handlers |-> None]
    /\ entry' = [g \in Handlers |-> None]
    /\ lost' = lost
            \cup {addr[g] : g \in {h \in Handlers : pc[h] \in {"mark", "forward"}}}
            \cup {a \in Addr : IsPending(a) /\ ~Persistent}
    /\ UNCHANGED <<now, derived, chain, quote, grants>>

\* The steps that wait for nothing but the scheduler, the lock and the disk.
LocalStep(g) ==
    \/ StoreQuote(g) \/ CheckUsed(g) \/ ReadPending(g) \/ CheckExpiry(g)
    \/ DropExpired(g) \/ TakePending(g) \/ RecordUsed(g) \/ Forward(g)

HandlerStep(g) ==
    \/ Present(g) \/ RequestQuote(g) \/ GetNewAddress(g)
    \/ AcquireLock(g) \/ CheckReceived(g) \/ LocalStep(g)

Environment ==
    \/ Prune \/ Tick \/ Restart
    \/ \E a \in Addr : Pay(a) \/ Confirm(a) \/ Unsend(a)

Next == (\E g \in Handlers : HandlerStep(g)) \/ Environment

\* The scheduler runs every goroutine that can run; sync.Mutex hands over to
\* a waiter that starves; the ticker of the sweep keeps firing.  Nothing is
\* assumed of bitcoind, of clients or of the clock.
Fairness ==
    /\ \A g \in Handlers : WF_vars(LocalStep(g)) /\ SF_vars(AcquireLock(g))
    /\ WF_vars(Prune)

Spec == Init /\ [][Next]_vars /\ Fairness

-----------------------------------------------------------------------------
(* Properties *)

\* A quoted address opens the gate at most once, however many requests carry
\* it, at whatever point of VerifyProof they meet, and across restarts: the
\* early IsUsed is stale by the time mu is held, so the row is the real guard.
SingleUse == \A a \in Addr : grants[a] <= 1

\* The two tables never disagree: an address is not both open for payment and
\* spent, so a prune or a restart cannot bring a spent address back.
PendingSpentDisjoint == \A a \in Addr : ~(IsPending(a) /\ IsUsed(a))

\* With min_conf above 0, confirmed satoshis cover the quoted price of every
\* address that opened the gate.  (With 0 they may be unsent afterwards.)
FundsBehindGrant ==
    MinConf > 0 =>
        \A a \in Addr : grants[a] > 0 => quote[a] # None /\ confirmed[a] >= quote[a].sats

\* The quote has not run out.
InTime(a) == quote[a] # None /\ now <= Stored(quote[a].deadline)

\* What may have become of a quote, apart from running out: it can be redeemed, it
\* has been, it is being, or a failure between DeletePending and the forwarded
\* request (or the loss of an in-memory store) took it.
Stands(a) ==
    \/ IsPending(a)
    \/ grants[a] = 1
    \/ \E g \in Handlers : addr[g] = a /\ pc[g] \in {"mark", "forward"}
    \/ a \in lost

\* Until its deadline a quote stands: no refused or erroneous presentation, no
\* sweep, no other request and no restart takes the row of an address away.
QuoteStands == \A a \in Addr : InTime(a) => Stands(a)

\* README.md of examples/onchain-btc: issued but unpaid addresses survive restarts
\* when there is a database; nor does anything else take them before their time.
UnpaidSurvives ==
    Persistent /\ MinConf > 0 =>
        \A a \in Addr : InTime(a) /\ confirmed[a] < quote[a].sats => IsPending(a)

PriceReceived(a) == quote[a] # None /\ Received(a) >= quote[a].sats

\* verifier.go: what expires is an address on which no payment was received.  One
\* that received its price in time stands for as long as it keeps it.
PaidNeverExpires ==
    \A a \in Addr :
        [](InTime(a) /\ PriceReceived(a) => [](PriceReceived(a) => Stands(a)))

\* proxy.go: the price of a route is required for access to it.
RoutePricePaid ==
    \A g \in Handlers : pc[g] = "forward" => quote[addr[g]].sats >= Price[route[g]]

\* Why an address is used once.  A handler owns the address it is writing a
\* row for, or has read a row of, until it answers; it is the only owner, and
\* while the row is there its owner has not got past DeletePending.
Owns(g) == pc[g] \in Reads \cup {"addPending", "mark", "forward"}

LockIsHeld == \A g \in Handlers : (mu = g) <=> (pc[g] \in Critical)

OwnerIsClean ==
    \A g \in Handlers : Owns(g) =>
        /\ addr[g] \in derived
        /\ grants[addr[g]] = 0
        /\ pc[g] # "forward" => ~IsUsed(addr[g])
        /\ IsPending(addr[g]) => pc[g] \in Reads

OneOwner ==
    \A g, h \in Handlers : Owns(g) /\ Owns(h) /\ g # h => addr[g] # addr[h]

RowIsClean ==
    \A a \in Addr : IsPending(a) => a \in derived /\ ~IsUsed(a) /\ grants[a] = 0

UnderivedIsClean == \A a \in Addr \ derived : ~IsUsed(a) /\ grants[a] = 0

Ownership == LockIsHeld /\ OwnerIsClean /\ OneOwner /\ RowIsClean /\ UnderivedIsClean

\* Why a grant is paid for.  The price a handler compares with is the price
\* that was quoted, and what it found confirmed stays confirmed.
PricesAgree ==
    /\ \A a \in Addr : quote[a] # None => a \in derived /\ quote[a].sats > 0
    /\ \A a \in Addr : IsPending(a) => quote[a] # None /\ pending[a].sats = quote[a].sats
    /\ \A g \in Handlers :
        /\ pc[g] = "addPending" => quote[addr[g]] = None /\ entry[g].sats > 0
        /\ pc[g] \in Reads \cup {"mark", "forward"} => quote[addr[g]] # None
        /\ pc[g] \in Reads => entry[g].sats = quote[addr[g]].sats

PaidFor ==
    MinConf > 0 =>
        \A g \in Handlers : pc[g] \in {"delete", "mark", "forward"} =>
            confirmed[addr[g]] >= quote[addr[g]].sats

Funding == PricesAgree /\ PaidFor /\ FundsBehindGrant

\* The part of the window that a store of whole seconds cuts off.
Rounding == IF Persistent THEN TicksPerSec - 1 ELSE 0

\* A row is removed only to be redeemed, by losing an in-memory store, or when
\* it is past the expiry VerifyProof compares with and past the advertised
\* expires_in, less the second that SQLite rounds away: sweep and verifier agree.
WindowHonoured ==
    [][\A a \in Addr : IsPending(a) /\ ~IsPending(a)' =>
          \/ \E g \in Handlers : addr[g] = a /\ pc'[g] = "mark"
          \/ now > pending[a].expiresAt /\ now + Rounding > quote[a].deadline
          \/ Restart]_vars

\* Every request is answered if bitcoind answers every call: no early return
\* of VerifyProof leaves mu held and no two handlers wait on each other.
Answered ==
    (\A h \in Handlers : []<>(pc[h] \notin AwaitsRpc)) =>
        \A g \in Handlers : (pc[g] # "idle") ~> (pc[g] = "idle")

\* The sweep bounds the pending rows: one that is past its expiry goes away
\* whether or not its token is ever presented.
ExpiredEvicted ==
    \A a \in Addr : (IsPending(a) /\ now > pending[a].expiresAt) ~> ~IsPending(a)

\* Each address is a reference of the abstract toll; confirmed satoshis are
\* what it has received and a forwarded request is what it buys.
AbstractToll == INSTANCE Toll WITH
    Refs <- Addr,
    Copies <- 1,
    price <- [a \in Addr |-> IF quote[a] = None THEN 0 ELSE quote[a].sats],
    received <- confirmed,
    served <- grants

\* With min_conf above 0, serveFlat over the on-chain verifier implements the
\* toll: crashes, prunes and races are stutters of it.
ImplementsToll == AbstractToll!Spec
=============================================================================
