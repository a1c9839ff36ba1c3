---------------------------- MODULE OnchainProofs ----------------------------
(***************************************************************************)
(* Proofs about Onchain, for any number of handlers, addresses and routes, *)
(* any prices and min_conf, with either store.                             *)
(***************************************************************************)
EXTENDS Onchain, TLAPS

USE DEF ValidRoutes, ValidBitcoind, Positive

-----------------------------------------------------------------------------
(* Type correctness *)

\* A stored expiry is a time, rounded or not.
LEMMA StoredIsNat ==
    ASSUME NEW t \in Nat
    PROVE  Stored(t) \in Nat
<1>1. t \div TicksPerSec \in Nat
  BY BoundsAssumption
<1>2. (t \div TicksPerSec) * TicksPerSec \in Nat
  BY <1>1, BoundsAssumption
<1> QED
  BY <1>2 DEF Stored, Unix

\* The answer of a handler leaves every local variable in its type.
LEMMA AnswerType ==
    ASSUME TypeOK, NEW g \in Handlers, Answer(g)
    PROVE  /\ pc' \in [Handlers -> Labels]
           /\ mu' \in Handlers \cup {None}
           /\ route' \in [Handlers -> Routes \cup {None}]
           /\ addr' \in [Handlers -> Addr \cup {None}]
           /\ entry' \in [Handlers -> Entry \cup {None}]
           /\ LocalsOK'
  BY DEF TypeOK, LocalsOK, Answer, Goto, Unlock, Labels, Reads

LEMMA TypeInit == Init => TypeOK
  BY BoundsAssumption DEF Init, TypeOK, LocalsOK, Reads, PendingInit, PendingTypeOK, SpentInit, SpentTypeOK, Labels

LEMMA TypeStep ==
    ASSUME TypeOK, [Next]_vars
    PROVE  TypeOK'
<1> USE DEF TypeOK, PendingTypeOK, SpentTypeOK, vars, store, locals, chain, history,
            Goto, Step, Labels, Critical, LocalsOK, Reads
<1>1. ASSUME NEW g \in Handlers, Present(g) PROVE TypeOK'
  BY <1>1 DEF Present
<1>2. ASSUME NEW g \in Handlers, RequestQuote(g) PROVE TypeOK'
  BY <1>2 DEF RequestQuote
<1>3. ASSUME NEW g \in Handlers, Forward(g) PROVE TypeOK'
  BY <1>3, AnswerType DEF Forward
<1>4. ASSUME NEW g \in Handlers, GetNewAddress(g) PROVE TypeOK'
  <2>1. CASE RpcError(g) /\ UNCHANGED derived
    BY <1>4, <2>1, AnswerType DEF GetNewAddress, RpcError
  <2>2. ASSUME NEW a \in Addr \ derived, derived' = derived \cup {a},
               addr' = [addr EXCEPT ![g] = a],
               entry' = [entry EXCEPT ![g] =
                   [sats |-> Price[route[g]], expiresAt |-> now + PendingTTL]],
               Goto(g, "addPending"), UNCHANGED <<mu, route>>
        PROVE  TypeOK'
    <3>1. [sats |-> Price[route[g]], expiresAt |-> now + PendingTTL] \in Entry
      BY <1>4, BoundsAssumption DEF GetNewAddress, Entry
    <3> QED
      BY <1>4, <2>2, <3>1 DEF GetNewAddress
  <2> QED
    BY <1>4, <2>1, <2>2 DEF GetNewAddress
<1>5. ASSUME NEW g \in Handlers, StoreQuote(g) PROVE TypeOK'
  <2>1. entry[g].sats \in Nat /\ entry[g].expiresAt \in Nat /\ Stored(entry[g].expiresAt) \in Nat
    BY <1>5, StoredIsNat DEF StoreQuote, Entry
  <2>2. pending' \in [Addr -> Entry \cup {None}] /\ quote' \in [Addr -> Quote \cup {None}]
    BY <1>5, <2>1 DEF StoreQuote, StoreError, AddPending, Entry, Quote
  <2>3. Answer(g) /\ UNCHANGED <<now, used, derived, chain, grants, lost>>
    BY <1>5 DEF StoreQuote, StoreError
  <2> QED
    BY <2>2, <2>3, AnswerType
<1>6. ASSUME NEW g \in Handlers, CheckUsed(g) PROVE TypeOK'
  BY <1>6, AnswerType DEF CheckUsed, StoreError
<1>7. ASSUME NEW g \in Handlers, AcquireLock(g) PROVE TypeOK'
  BY <1>7 DEF AcquireLock
<1>8. ASSUME NEW g \in Handlers, ReadPending(g) PROVE TypeOK'
  BY <1>8, AnswerType DEF ReadPending, StoreError, IsPending
<1>9. ASSUME NEW g \in Handlers, CheckExpiry(g) PROVE TypeOK'
  BY <1>9 DEF CheckExpiry
<1>10. ASSUME NEW g \in Handlers, DropExpired(g) PROVE TypeOK'
  BY <1>10, AnswerType DEF DropExpired, DeletePending
<1>11. ASSUME NEW g \in Handlers, CheckReceived(g) PROVE TypeOK'
  BY <1>11, AnswerType DEF CheckReceived, RpcError
<1>12. ASSUME NEW g \in Handlers, TakePending(g) PROVE TypeOK'
  BY <1>12, AnswerType DEF TakePending, StoreError, DeletePending
<1>13. ASSUME NEW g \in Handlers, RecordUsed(g) PROVE TypeOK'
  BY <1>13, AnswerType DEF RecordUsed, StoreError, MarkUsed, Unlock
<1>14. CASE Prune
  BY <1>14 DEF Prune, PruneExpiredPending
<1>15. CASE Tick
  BY <1>15, BoundsAssumption DEF Tick
<1>16. ASSUME NEW a \in Addr, Pay(a) PROVE TypeOK'
  BY <1>16, BoundsAssumption DEF Pay
<1>17. ASSUME NEW a \in Addr, Confirm(a) PROVE TypeOK'
  BY <1>17 DEF Confirm
<1>18. ASSUME NEW a \in Addr, Unsend(a) PROVE TypeOK'
  BY <1>18 DEF Unsend
<1>19. CASE Restart
  BY <1>19 DEF Restart, PendingReopen, SpentReopen
<1>20. CASE UNCHANGED vars
  BY <1>20
<1> QED
  BY <1>1, <1>2, <1>3, <1>4, <1>5, <1>6, <1>7, <1>8, <1>9, <1>10, <1>11, <1>12, <1>13,
     <1>14, <1>15, <1>16, <1>17, <1>18, <1>19, <1>20
  DEF Next, HandlerStep, LocalStep, Environment

\* Every variable keeps its type in every reachable state, for every instance.
THEOREM TypeCorrect == Spec => []TypeOK
<1>1. Init => TypeOK
  BY TypeInit
<1>2. TypeOK /\ [Next]_vars => TypeOK'
  BY TypeStep
<1> QED
  BY <1>1, <1>2, PTL DEF Spec

-----------------------------------------------------------------------------
(* Single use *)

\* Answering never makes an owner, frees mu if the handler held it, and leaves
\* the other handlers as they were.
LEMMA AnswerEffect ==
    ASSUME TypeOK, LockIsHeld, NEW g \in Handlers, Answer(g)
    PROVE  /\ ~Owns(g)'
           /\ LockIsHeld'
           /\ \A h \in Handlers \ {g} :
                /\ Owns(h)' = Owns(h)
                /\ pc'[h] = pc[h] /\ addr'[h] = addr[h]
<1> USE DEF TypeOK, LocalsOK, Answer, Goto, Unlock, Owns, Reads, LockIsHeld, Critical, Labels
<1>1. pc'[g] = "idle" /\ \A h \in Handlers \ {g} : pc'[h] = pc[h] /\ addr'[h] = addr[h]
  OBVIOUS
<1>2. LockIsHeld'
  BY <1>1, NoneAssumption
<1> QED
  BY <1>1, <1>2

LEMMA OwnershipInit == Init => Ownership
  BY NoneAssumption
  DEF Init, PendingInit, SpentInit, Ownership, LockIsHeld, OwnerIsClean, OneOwner, RowIsClean,
      UnderivedIsClean, Owns, Reads, Critical, IsPending, IsUsed

LEMMA OwnershipStep ==
    ASSUME TypeOK, Ownership, [Next]_vars
    PROVE  Ownership'
<1> USE DEF Ownership, LockIsHeld, OwnerIsClean, OneOwner, RowIsClean, UnderivedIsClean,
            Owns, Reads, Critical, IsPending, IsUsed, vars, store, locals, chain, history,
            TypeOK, LocalsOK, PendingTypeOK, SpentTypeOK, Goto, Step
<1>1. ASSUME NEW g \in Handlers, Present(g) PROVE Ownership'
  BY <1>1 DEF Present
<1>2. ASSUME NEW g \in Handlers, RequestQuote(g) PROVE Ownership'
  BY <1>2 DEF RequestQuote
<1>3. ASSUME NEW g \in Handlers, Forward(g) PROVE Ownership'
  BY <1>3, AnswerEffect DEF Forward
<1>4. ASSUME NEW g \in Handlers, GetNewAddress(g) PROVE Ownership'
  BY <1>4, AnswerEffect DEF GetNewAddress, RpcError
<1>5. ASSUME NEW g \in Handlers, StoreQuote(g) PROVE Ownership'
  BY <1>5, AnswerEffect DEF StoreQuote, StoreError, AddPending
<1>6. ASSUME NEW g \in Handlers, CheckUsed(g) PROVE Ownership'
  BY <1>6, AnswerEffect DEF CheckUsed, StoreError
<1>7. ASSUME NEW g \in Handlers, AcquireLock(g) PROVE Ownership'
  BY <1>7, NoneAssumption DEF AcquireLock
<1>8. ASSUME NEW g \in Handlers, ReadPending(g) PROVE Ownership'
  BY <1>8, AnswerEffect DEF ReadPending, StoreError
<1>9. ASSUME NEW g \in Handlers, CheckExpiry(g) PROVE Ownership'
  BY <1>9 DEF CheckExpiry
<1>10. ASSUME NEW g \in Handlers, DropExpired(g) PROVE Ownership'
  BY <1>10, AnswerEffect DEF DropExpired, DeletePending
<1>11. ASSUME NEW g \in Handlers, CheckReceived(g) PROVE Ownership'
  BY <1>11, AnswerEffect DEF CheckReceived, RpcError
<1>12. ASSUME NEW g \in Handlers, TakePending(g) PROVE Ownership'
  BY <1>12, AnswerEffect DEF TakePending, StoreError, DeletePending
<1>13. ASSUME NEW g \in Handlers, RecordUsed(g) PROVE Ownership'
  BY <1>13, AnswerEffect, NoneAssumption DEF RecordUsed, StoreError, MarkUsed, Unlock
<1>14. CASE Prune
  BY <1>14 DEF Prune, PruneExpiredPending
<1>15. CASE Tick
  BY <1>15 DEF Tick
<1>16. ASSUME NEW a \in Addr, Pay(a) PROVE Ownership'
  BY <1>16 DEF Pay
<1>17. ASSUME NEW a \in Addr, Confirm(a) PROVE Ownership'
  BY <1>17 DEF Confirm
<1>18. ASSUME NEW a \in Addr, Unsend(a) PROVE Ownership'
  BY <1>18 DEF Unsend
<1>19. CASE Restart
  BY <1>19, NoneAssumption DEF Restart, PendingReopen, SpentReopen
<1>20. CASE UNCHANGED vars
  BY <1>20
<1> QED
  BY <1>1, <1>2, <1>3, <1>4, <1>5, <1>6, <1>7, <1>8, <1>9, <1>10, <1>11, <1>12, <1>13,
     <1>14, <1>15, <1>16, <1>17, <1>18, <1>19, <1>20
  DEF Next, HandlerStep, LocalStep, Environment

\* In every reachable state each address has at most one handler past its row,
\* and a row, a spent mark and a grant exclude each other as VerifyProof needs.
THEOREM OwnershipHolds == Spec => []Ownership
<1>1. Init => TypeOK /\ Ownership
  BY TypeInit, OwnershipInit
<1>2. TypeOK /\ Ownership /\ [Next]_vars => (TypeOK /\ Ownership)'
  BY TypeStep, OwnershipStep
<1> QED
  BY <1>1, <1>2, PTL DEF Spec

LEMMA SingleUseStep ==
    ASSUME TypeOK, Ownership, SingleUse, [Next]_vars
    PROVE  SingleUse'
<1>1. ASSUME NEW g \in Handlers, Forward(g) PROVE SingleUse'
  BY <1>1 DEF Forward, SingleUse, Ownership, OwnerIsClean, Owns, TypeOK
<1>2. ASSUME UNCHANGED grants PROVE SingleUse'
  BY <1>2 DEF SingleUse
<1> QED
  BY <1>1, <1>2
  DEF Next, HandlerStep, LocalStep, Environment, vars, history, Present, RequestQuote,
      GetNewAddress, StoreQuote, CheckUsed, AcquireLock, ReadPending, CheckExpiry, DropExpired,
      CheckReceived, TakePending, RecordUsed, Prune, Tick, Pay, Confirm, Unsend, Restart

\* An on-chain payment opens the gate at most once: VerifyProof's mutex and the
\* deleted row suffice, with any number of concurrent requests and restarts.
THEOREM SingleUseHolds == Spec => []SingleUse
<1>1. Init => SingleUse
  BY DEF Init, SingleUse
<1>2. TypeOK /\ Ownership /\ SingleUse /\ [Next]_vars => SingleUse'
  BY SingleUseStep
<1> QED
  BY <1>1, <1>2, TypeCorrect, OwnershipHolds, PTL DEF Spec

\* No address is both in pending_addresses and in used_tokens.
THEOREM PendingSpentDisjointHolds == Spec => []PendingSpentDisjoint
<1>1. Ownership => PendingSpentDisjoint
  BY DEF Ownership, RowIsClean, PendingSpentDisjoint
<1> QED
  BY <1>1, OwnershipHolds, PTL

-----------------------------------------------------------------------------
(* Funds *)

LEMMA FundingInit == Init => Funding
  BY DEF Init, PendingInit, Funding, PricesAgree, PaidFor, FundsBehindGrant, IsPending, Reads

LEMMA FundingStep ==
    ASSUME TypeOK, Ownership, Funding, [Next]_vars
    PROVE  Funding'
<1> USE DEF Funding, PricesAgree, PaidFor, FundsBehindGrant, Reads, IsPending, vars, store,
            locals, chain, history, TypeOK, LocalsOK, PendingTypeOK, Goto, Step, Entry
<1>a. MinConf \in Nat
  BY BoundsAssumption
<1>1. ASSUME NEW g \in Handlers, Present(g) PROVE Funding'
  BY <1>1 DEF Present
<1>2. ASSUME NEW g \in Handlers, RequestQuote(g) PROVE Funding'
  BY <1>2 DEF RequestQuote
<1>3. ASSUME NEW g \in Handlers, Forward(g) PROVE Funding'
  BY <1>3, <1>a DEF Forward, Answer
<1>4. ASSUME NEW g \in Handlers, GetNewAddress(g) PROVE Funding'
  <2>1. CASE RpcError(g) /\ UNCHANGED derived
    BY <1>4, <2>1 DEF GetNewAddress, RpcError, Answer
  <2>2. ASSUME NEW a \in Addr \ derived, derived' = derived \cup {a},
               addr' = [addr EXCEPT ![g] = a], Goto(g, "addPending"),
               entry' = [entry EXCEPT ![g] =
                   [sats |-> Price[route[g]], expiresAt |-> now + PendingTTL]]
        PROVE  Funding'
    <3>1. Price[route[g]] > 0
      BY <1>4, BoundsAssumption DEF GetNewAddress
    <3> QED
      BY <1>4, <2>2, <3>1 DEF GetNewAddress
  <2> QED
    BY <1>4, <2>1, <2>2 DEF GetNewAddress
<1>5. ASSUME NEW g \in Handlers, StoreQuote(g) PROVE Funding'
<2> DEFINE sats == entry[g].sats
           deadline == entry[g].expiresAt
<2>1. pc[g] = "addPending" /\ addr[g] \in Addr /\ sats \in Nat /\ sats > 0
  BY <1>5 DEF StoreQuote
<2>2. deadline \in Nat /\ Stored(deadline) \in Nat
  BY <1>5, StoredIsNat DEF StoreQuote
<2>3. CASE UNCHANGED <<pending, quote>>
  BY <1>5, <2>3 DEF StoreQuote, StoreError, Answer
<2>4. CASE /\ AddPending(addr[g], sats, deadline)
           /\ quote' = [quote EXCEPT ![addr[g]] = [sats |-> sats, deadline |-> deadline]]
           /\ Answer(g)
  <3>1. /\ quote'[addr[g]] # None
        /\ quote'[addr[g]].sats = sats
        /\ pending'[addr[g]].sats = sats
    BY <2>1, <2>2, <2>4, NoneAssumption DEF AddPending, Quote
  <3>2. \A a \in Addr \ {addr[g]} : quote'[a] = quote[a] /\ pending'[a] = pending[a]
    BY <2>4 DEF AddPending
  <3>3. \A h \in Handlers \ {g} : Owns(h) => addr[h] # addr[g]
    BY <2>1 DEF Ownership, OneOwner, Owns
  <3>4. addr[g] \in derived /\ grants[addr[g]] = 0
    BY <2>1 DEF Ownership, OwnerIsClean, Owns
  <3> QED
    BY <1>5, <2>1, <2>4, <3>1, <3>2, <3>3, <3>4 DEF StoreQuote, Answer, Owns, Labels
<2> QED
  BY <1>5, <2>3, <2>4 DEF StoreQuote, StoreError
<1>6. ASSUME NEW g \in Handlers, CheckUsed(g) PROVE Funding'
  BY <1>6 DEF CheckUsed, StoreError, Answer
<1>7. ASSUME NEW g \in Handlers, AcquireLock(g) PROVE Funding'
  BY <1>7 DEF AcquireLock
<1>8. ASSUME NEW g \in Handlers, ReadPending(g) PROVE Funding'
  BY <1>8 DEF ReadPending, StoreError, Answer
<1>9. ASSUME NEW g \in Handlers, CheckExpiry(g) PROVE Funding'
  BY <1>9 DEF CheckExpiry
<1>10. ASSUME NEW g \in Handlers, DropExpired(g) PROVE Funding'
  BY <1>10 DEF DropExpired, DeletePending, Answer
<1>11. ASSUME NEW g \in Handlers, CheckReceived(g) PROVE Funding'
  BY <1>11, <1>a DEF CheckReceived, RpcError, Answer, Received
<1>12. ASSUME NEW g \in Handlers, TakePending(g) PROVE Funding'
  BY <1>12 DEF TakePending, StoreError, DeletePending, Answer
<1>13. ASSUME NEW g \in Handlers, RecordUsed(g) PROVE Funding'
  BY <1>13 DEF RecordUsed, StoreError, Answer
<1>14. CASE Prune
  BY <1>14 DEF Prune, PruneExpiredPending
<1>15. CASE Tick
  BY <1>15 DEF Tick
<1>16. ASSUME NEW a \in Addr, Pay(a) PROVE Funding'
  BY <1>16 DEF Pay
<1>17. ASSUME NEW a \in Addr, Confirm(a) PROVE Funding'
  <2>1. \A b \in Addr : confirmed[b] \in Nat /\ confirmed'[b] \in Nat /\ confirmed'[b] >= confirmed[b]
    BY <1>17 DEF Confirm
  <2>2. PricesAgree'
    BY <1>17 DEF Confirm
  <2>3. \A b \in Addr : quote[b] # None => quote[b].sats \in Nat
    BY DEF Quote
  <2>4. PaidFor'
    BY <1>17, <2>1, <2>3 DEF Confirm
  <2>5. FundsBehindGrant'
    BY <1>17, <2>1, <2>3 DEF Confirm
  <2> QED
    BY <2>2, <2>4, <2>5
<1>18. ASSUME NEW a \in Addr, Unsend(a) PROVE Funding'
  BY <1>18 DEF Unsend
<1>19. CASE Restart
  BY <1>19 DEF Restart, PendingReopen
<1>20. CASE UNCHANGED vars
  BY <1>20
<1> QED
  BY <1>1, <1>2, <1>3, <1>4, <1>5, <1>6, <1>7, <1>8, <1>9, <1>10, <1>11, <1>12, <1>13,
     <1>14, <1>15, <1>16, <1>17, <1>18, <1>19, <1>20
  DEF Next, HandlerStep, LocalStep, Environment

\* The funding invariant holds in every reachable state.
THEOREM FundingHolds == Spec => []Funding
<1>1. Init => Funding
  BY FundingInit
<1>2. TypeOK /\ Ownership /\ Funding /\ [Next]_vars => Funding'
  BY FundingStep
<1> QED
  BY <1>1, <1>2, TypeCorrect, OwnershipHolds, PTL DEF Spec

\* With min_conf above 0 a forwarded request is covered by confirmed satoshis.
THEOREM FundsBehindGrantHolds == Spec => []FundsBehindGrant
<1>1. Funding => FundsBehindGrant
  BY DEF Funding
<1> QED
  BY <1>1, FundingHolds, PTL

-----------------------------------------------------------------------------
(* Refinement of the toll *)

LEMMA TollInit == Init => AbstractToll!Init
  BY DEF Init, AbstractToll!Init

\* A quote written, a payment confirmed and a request forwarded are steps of
\* the toll; every other step of the system leaves it alone.
LEMMA TollStep ==
    ASSUME MinConf > 0, TypeOK, TypeOK', Ownership, Funding, Funding', [Next]_vars
    PROVE  [AbstractToll!Next]_(AbstractToll!vars)
<1> USE DEF AbstractToll!vars
<1>1. ASSUME UNCHANGED <<quote, confirmed, grants>> PROVE UNCHANGED AbstractToll!vars
  BY <1>1
<1>2. ASSUME NEW g \in Handlers, StoreQuote(g) PROVE [AbstractToll!Next]_(AbstractToll!vars)
  <2>1. CASE UNCHANGED quote
    BY <1>1, <1>2, <2>1 DEF StoreQuote, chain
  <2>2. CASE quote' = [quote EXCEPT ![addr[g]] =
                [sats |-> entry[g].sats, deadline |-> entry[g].expiresAt]]
    <3> DEFINE sats == entry[g].sats
               deadline == entry[g].expiresAt
               shown == [b \in Addr |-> IF quote[b] = None THEN 0 ELSE quote[b].sats]
    <3>1. PICK a \in Addr : a = addr[g] /\ quote[a] = None
      BY <1>2 DEF StoreQuote, TypeOK, LocalsOK, Funding, PricesAgree
    <3>2. sats \in Nat \ {0} /\ deadline \in Nat
      BY <1>2 DEF StoreQuote, TypeOK, LocalsOK, Entry, Funding, PricesAgree
    <3>3. quote' = [quote EXCEPT ![a] = [sats |-> sats, deadline |-> deadline]]
      BY <2>2, <3>1
    <3>4. [sats |-> sats, deadline |-> deadline] # None
      BY <3>2, NoneAssumption DEF Quote
    <3>5. quote'[a] # None /\ quote'[a].sats = sats
      BY <3>3, <3>4 DEF TypeOK
    <3>6. \A b \in Addr \ {a} : quote'[b] = quote[b]
      BY <3>3 DEF TypeOK
    <3>7. shown[a] = 0 /\ shown'[a] = sats
      BY <3>1, <3>5
    <3>8. shown' = [shown EXCEPT ![a] = shown'[a]]
      BY <3>6
    <3>9. UNCHANGED <<confirmed, grants>>
      BY <1>2 DEF StoreQuote, chain
    <3>10. AbstractToll!Quote(a)
      BY <3>2, <3>7, <3>8, <3>9 DEF AbstractToll!Quote
    <3> QED
      BY <3>10 DEF AbstractToll!Next
  <2> QED
    BY <1>2, <2>1, <2>2 DEF StoreQuote
<1>3. ASSUME NEW a \in Addr, Confirm(a) PROVE [AbstractToll!Next]_(AbstractToll!vars)
  <2>1. confirmed'[a] \in Nat /\ confirmed'[a] > confirmed[a]
    BY <1>3 DEF Confirm, TypeOK
  <2>2. AbstractToll!Receive(a)
    <3>1. confirmed' = [confirmed EXCEPT ![a] = confirmed'[a]]
      BY <1>3, <2>1 DEF Confirm, TypeOK
    <3>2. UNCHANGED <<quote, grants>>
      BY <1>3 DEF Confirm, history
    <3> QED
      BY <2>1, <3>1, <3>2 DEF AbstractToll!Receive
  <2> QED
    BY <2>2 DEF AbstractToll!Next
<1>4. ASSUME NEW g \in Handlers, Forward(g) PROVE [AbstractToll!Next]_(AbstractToll!vars)
  <2>1. /\ addr[g] \in Addr /\ grants[addr[g]] = 0
        /\ quote[addr[g]] # None /\ quote[addr[g]].sats > 0
        /\ confirmed[addr[g]] >= quote[addr[g]].sats
    BY <1>4 DEF Forward, TypeOK, LocalsOK, Ownership, OwnerIsClean, Owns, Funding, PricesAgree,
       PaidFor
  <2>2. grants' = [grants EXCEPT ![addr[g]] = 1]
    BY <1>4, <2>1 DEF Forward
  <2>3. AbstractToll!Serve(addr[g])
    BY <1>4, <2>1, <2>2 DEF AbstractToll!Serve, Forward, chain
  <2> QED
    BY <2>1, <2>3 DEF AbstractToll!Next
<1>5. \/ UNCHANGED <<quote, confirmed, grants>>
      \/ \E g \in Handlers : StoreQuote(g) \/ Forward(g)
      \/ \E a \in Addr : Confirm(a)
  BY DEF Next, HandlerStep, LocalStep, Environment, vars, history, chain, Present, RequestQuote,
      GetNewAddress, CheckUsed, AcquireLock, ReadPending, CheckExpiry, DropExpired,
      CheckReceived, TakePending, RecordUsed, Prune, Tick, Pay, Unsend, Restart
<1> QED
  BY <1>1, <1>2, <1>3, <1>4, <1>5

\* With min_conf above 0 the proxy over the on-chain verifier implements the
\* toll: one quote per address, one request per quote, and only once paid.
THEOREM TollImplemented == MinConf > 0 => (Spec => ImplementsToll)
<1> SUFFICES ASSUME MinConf > 0 PROVE Spec => ImplementsToll
  OBVIOUS
<1>1. Init => AbstractToll!Init
  BY TollInit
<1>2. /\ TypeOK /\ Ownership /\ Funding /\ (TypeOK /\ Ownership /\ Funding)' /\ [Next]_vars
      => [AbstractToll!Next]_(AbstractToll!vars)
  BY TollStep
<1> QED
  BY <1>1, <1>2, TypeCorrect, OwnershipHolds, FundingHolds, PTL
  DEF Spec, ImplementsToll, AbstractToll!Spec

-----------------------------------------------------------------------------
(* Quotes *)

\* A row and the copy of it that a handler works on expire when the quote was
\* stored to, and a handler about to drop a row has seen it expire.
DeadlinesAgree ==
    /\ \A a \in Addr : IsPending(a) => pending[a].expiresAt = Stored(quote[a].deadline)
    /\ \A g \in Handlers : pc[g] \in Reads => entry[g].expiresAt = Stored(quote[addr[g]].deadline)
    /\ \A g \in Handlers : pc[g] = "dropExpired" => now > entry[g].expiresAt

\* Rounding to whole seconds cuts off less than a second.
LEMMA StoredBound ==
    ASSUME NEW t \in Nat
    PROVE  t <= Stored(t) + Rounding
<1>1. CASE Persistent
  <2> DEFINE s == t \div TicksPerSec
  <2>1. s \in Nat /\ t < (s + 1) * TicksPerSec
    BY BoundsAssumption
  <2>2. (s + 1) * TicksPerSec = s * TicksPerSec + TicksPerSec /\ s * TicksPerSec \in Nat
    BY <2>1, BoundsAssumption
  <2>3. t < s * TicksPerSec + TicksPerSec
    BY <2>1, <2>2
  <2>4. t <= s * TicksPerSec + (TicksPerSec - 1)
    BY <2>2, <2>3, BoundsAssumption
  <2> QED
    BY <1>1, <2>4 DEF Stored, Unix, Rounding
<1>2. CASE ~Persistent
  BY <1>2 DEF Stored, Rounding
<1> QED
  BY <1>1, <1>2

\* The second that holds one time starts after that of another only if it is later.
LEMMA UnixOrder ==
    ASSUME NEW s \in Nat, NEW t \in Nat, Unix(s) < Unix(t)
    PROVE  s < t
<1> DEFINE m == s \div TicksPerSec
           n == t \div TicksPerSec
<1>1. m \in Nat /\ n \in Nat /\ m + 1 <= n /\ s < (m + 1) * TicksPerSec /\ n * TicksPerSec <= t
  BY BoundsAssumption DEF Unix
<1>2. PICK d \in Nat : n = (m + 1) + d
  <2>1. n - (m + 1) \in Nat /\ n = (m + 1) + (n - (m + 1))
    BY <1>1
  <2> QED
    BY <2>1
<1>3. n * TicksPerSec = (m + 1) * TicksPerSec + d * TicksPerSec
  BY <1>1, <1>2, BoundsAssumption
<1>4. d * TicksPerSec \in Nat /\ (m + 1) * TicksPerSec \in Nat /\ n * TicksPerSec \in Nat
  BY <1>1, <1>2, BoundsAssumption
<1> QED
  BY <1>1, <1>3, <1>4

\* What the sweep takes has expired.
LEMMA PrunedLate ==
    ASSUME TypeOK, NEW a \in Addr, IsPending(a), Prunable(pending[a], now)
    PROVE  now > pending[a].expiresAt
<1>1. pending[a].expiresAt \in Nat /\ now \in Nat
  BY BoundsAssumption DEF TypeOK, PendingTypeOK, IsPending, Entry
<1>2. CASE Persistent
  BY <1>1, <1>2, UnixOrder DEF Prunable
<1>3. CASE ~Persistent
  BY <1>1, <1>3 DEF Prunable
<1> QED
  BY <1>2, <1>3

LEMMA DeadlinesStep ==
    ASSUME TypeOK, Ownership, Funding, DeadlinesAgree, [Next]_vars
    PROVE  DeadlinesAgree'
<1> USE DEF DeadlinesAgree, Reads, IsPending, vars, store, locals, chain, history, TypeOK,
            LocalsOK, PendingTypeOK, Goto, Step
<1>1. ASSUME NEW g \in Handlers, StoreQuote(g) PROVE DeadlinesAgree'
  <2> DEFINE sats == entry[g].sats
             deadline == entry[g].expiresAt
  <2>1. pc[g] = "addPending" /\ addr[g] \in Addr /\ sats \in Nat
    BY <1>1 DEF StoreQuote, Entry
  <2>2. deadline \in Nat /\ Stored(deadline) \in Nat
    BY <1>1, StoredIsNat DEF StoreQuote, Entry
  <2>3. CASE UNCHANGED <<pending, quote>>
    BY <1>1, <2>3 DEF StoreQuote, StoreError, Answer
  <2>4. CASE /\ AddPending(addr[g], sats, deadline)
             /\ quote' = [quote EXCEPT ![addr[g]] = [sats |-> sats, deadline |-> deadline]]
             /\ Answer(g)
    <3>1. quote'[addr[g]].deadline = deadline /\ pending'[addr[g]].expiresAt = Stored(deadline)
      BY <2>1, <2>2, <2>4 DEF AddPending
    <3>2. \A a \in Addr \ {addr[g]} : quote'[a] = quote[a] /\ pending'[a] = pending[a]
      BY <2>4 DEF AddPending
    <3>3. \A h \in Handlers \ {g} : pc[h] \in Reads => addr[h] # addr[g]
      BY <2>1 DEF Ownership, OneOwner, Owns
    <3> QED
      BY <1>1, <2>1, <2>4, <3>1, <3>2, <3>3 DEF StoreQuote, Answer, Stored
  <2> QED
    BY <1>1, <2>3, <2>4 DEF StoreQuote, StoreError
<1>2. ASSUME NEW g \in Handlers, Present(g) \/ RequestQuote(g) \/ AcquireLock(g) PROVE DeadlinesAgree'
  BY <1>2 DEF Present, RequestQuote, AcquireLock
<1>3. ASSUME NEW g \in Handlers, Forward(g) \/ GetNewAddress(g) \/ CheckUsed(g) PROVE DeadlinesAgree'
  BY <1>3 DEF Forward, GetNewAddress, CheckUsed, RpcError, StoreError, Answer
<1>4. ASSUME NEW g \in Handlers, ReadPending(g) PROVE DeadlinesAgree'
  BY <1>4 DEF ReadPending, StoreError, Answer
<1>5. ASSUME NEW g \in Handlers, CheckExpiry(g) PROVE DeadlinesAgree'
  BY <1>5 DEF CheckExpiry
<1>6. ASSUME NEW g \in Handlers, DropExpired(g) \/ TakePending(g) PROVE DeadlinesAgree'
  BY <1>6 DEF DropExpired, TakePending, DeletePending, StoreError, Answer
<1>7. ASSUME NEW g \in Handlers, CheckReceived(g) \/ RecordUsed(g) PROVE DeadlinesAgree'
  BY <1>7 DEF CheckReceived, RecordUsed, RpcError, StoreError, Answer
<1>8. CASE Prune
  BY <1>8 DEF Prune, PruneExpiredPending
<1>9. CASE Tick
  <2>1. now \in Nat /\ now' = now + 1
    BY <1>9, BoundsAssumption DEF Tick
  <2>2. \A g \in Handlers : pc[g] \in Reads => entry[g].expiresAt \in Nat
    BY DEF Entry
  <2> QED
    BY <1>9, <2>1, <2>2 DEF Tick
<1>10. CASE Restart
  BY <1>10 DEF Restart, PendingReopen
<1>11. CASE (\E a \in Addr : Pay(a) \/ Confirm(a) \/ Unsend(a)) \/ UNCHANGED vars
  BY <1>11 DEF Pay, Confirm, Unsend
<1> QED
  BY <1>1, <1>2, <1>3, <1>4, <1>5, <1>6, <1>7, <1>8, <1>9, <1>10, <1>11
  DEF Next, HandlerStep, LocalStep, Environment

LEMMA DeadlinesHold == Spec => []DeadlinesAgree
<1>1. Init => DeadlinesAgree
  BY DEF Init, PendingInit, DeadlinesAgree, IsPending, Reads
<1>2. TypeOK /\ Ownership /\ Funding /\ DeadlinesAgree /\ [Next]_vars => DeadlinesAgree'
  BY DeadlinesStep
<1> QED
  BY <1>1, <1>2, TypeCorrect, OwnershipHolds, FundingHolds, PTL DEF Spec

\* How a row can go.
LEMMA RowStep ==
    ASSUME TypeOK, DeadlinesAgree, [Next]_vars, NEW a \in Addr, IsPending(a), ~IsPending(a)'
    PROVE  \/ \E g \in Handlers : TakePending(g) /\ addr[g] = a /\ pc'[g] = "mark"
           \/ now > pending[a].expiresAt /\ UNCHANGED now /\ UNCHANGED quote
           \/ Restart /\ ~Persistent
<1> USE DEF TypeOK, PendingTypeOK, IsPending
<1>1. ASSUME NEW g \in Handlers, TakePending(g) PROVE addr[g] = a /\ pc'[g] = "mark"
  BY <1>1 DEF TakePending, DeletePending, StoreError, Step, Goto, store
<1>2. ASSUME NEW g \in Handlers, DropExpired(g)
      PROVE  now > pending[a].expiresAt /\ UNCHANGED now /\ UNCHANGED quote
  BY <1>2 DEF DropExpired, DeletePending, DeadlinesAgree, Reads, history
<1>3. ASSUME Prune PROVE now > pending[a].expiresAt /\ UNCHANGED now /\ UNCHANGED quote
  BY <1>3, PrunedLate DEF Prune, PruneExpiredPending, history
<1>4. ASSUME NEW g \in Handlers, StoreQuote(g) PROVE FALSE
  <2>1. CASE UNCHANGED pending
    BY <2>1
  <2>2. CASE AddPending(addr[g], entry[g].sats, entry[g].expiresAt)
    <3>1. entry[g].sats \in Nat /\ Stored(entry[g].expiresAt) \in Nat
      BY <1>4, StoredIsNat DEF StoreQuote, LocalsOK, Entry
    <3> QED
      BY <2>2, <3>1, NoneAssumption DEF AddPending, Entry
  <2> QED
    BY <1>4, <2>1, <2>2 DEF StoreQuote
<1>5. ASSUME UNCHANGED pending PROVE FALSE
  BY <1>5
<1>6. \/ UNCHANGED pending \/ Prune \/ Restart
      \/ \E g \in Handlers : TakePending(g) \/ DropExpired(g) \/ StoreQuote(g)
  BY DEF Next, HandlerStep, LocalStep, Environment, vars, store, Present, RequestQuote,
      GetNewAddress, CheckUsed, AcquireLock, ReadPending, CheckExpiry, CheckReceived,
      RecordUsed, Forward, Tick, Pay, Confirm, Unsend
<1>7. Restart => ~Persistent
  BY DEF Restart, PendingReopen
<1> QED
  BY <1>1, <1>2, <1>3, <1>4, <1>5, <1>6, <1>7

\* A payer has the whole window it was told, less the second SQLite rounds away:
\* the sweep and VerifyProof drop a row only after it.
THEOREM WindowHonouredHolds == Spec => WindowHonoured
<1>1. TypeOK /\ Funding /\ DeadlinesAgree /\ [Next]_vars =>
        [\A a \in Addr : IsPending(a) /\ ~IsPending(a)' =>
            \/ \E g \in Handlers : addr[g] = a /\ pc'[g] = "mark"
            \/ now > pending[a].expiresAt /\ now + Rounding > quote[a].deadline
            \/ Restart]_vars
  <2> SUFFICES ASSUME TypeOK, Funding, DeadlinesAgree, [Next]_vars,
                      NEW a \in Addr, IsPending(a), ~IsPending(a)',
                      now > pending[a].expiresAt
               PROVE  now + Rounding > quote[a].deadline
    BY RowStep
  <2>1. quote[a] # None /\ quote[a].deadline \in Nat /\ Stored(quote[a].deadline) \in Nat
    BY StoredIsNat DEF Funding, PricesAgree, TypeOK, Quote
  <2>2. pending[a].expiresAt = Stored(quote[a].deadline)
    BY DEF DeadlinesAgree
  <2>3. quote[a].deadline <= Stored(quote[a].deadline) + Rounding
    BY <2>1, StoredBound
  <2>4. now \in Nat /\ Rounding \in Nat
    BY BoundsAssumption DEF TypeOK, Rounding
  <2> QED
    BY <2>1, <2>2, <2>3, <2>4
<1> QED
  BY <1>1, TypeCorrect, FundingHolds, DeadlinesHold, PTL DEF Spec, WindowHonoured

\* A quote that does not stand has run out.
Accounted(a) == Stands(a) \/ now > Stored(quote[a].deadline)

LEMMA AccountedStep ==
    ASSUME TypeOK, Ownership, Funding, DeadlinesAgree, [Next]_vars,
           NEW a \in Addr, quote'[a] # None, quote[a] # None => Accounted(a)
    PROVE  Accounted(a)'
<1> USE DEF TypeOK, PendingTypeOK, LocalsOK, Stands
<1>1. ASSUME NEW g \in Handlers, StoreQuote(g) PROVE Accounted(a)'
  <2> DEFINE sats == entry[g].sats
             deadline == entry[g].expiresAt
  <2>1. CASE UNCHANGED <<pending, quote>>
    BY <1>1, <2>1 DEF StoreQuote, StoreError, Answer, Goto, Accounted, IsPending
  <2>2. CASE /\ AddPending(addr[g], sats, deadline)
             /\ quote' = [quote EXCEPT ![addr[g]] = [sats |-> sats, deadline |-> deadline]]
             /\ Answer(g)
    <3>1. CASE a = addr[g]
      <4>1. sats \in Nat /\ Stored(deadline) \in Nat
        BY <1>1, StoredIsNat DEF StoreQuote, Entry
      <4> QED
        BY <2>2, <3>1, <4>1, NoneAssumption DEF AddPending, IsPending, Entry, Accounted
    <3>2. CASE a # addr[g]
      <4>1. pending'[a] = pending[a] /\ quote'[a] = quote[a]
        BY <2>2, <3>2 DEF AddPending
      <4> QED
        BY <1>1, <2>2, <4>1 DEF StoreQuote, Answer, Goto, Accounted, IsPending, Stored
    <3> QED
      BY <3>1, <3>2
  <2> QED
    BY <1>1, <2>1, <2>2 DEF StoreQuote, StoreError
<1>2. ASSUME NEW g \in Handlers, Forward(g) PROVE Accounted(a)'
  <2>1. CASE a = addr[g]
    <3>1. grants[a] = 0
      BY <1>2, <2>1 DEF Forward, Ownership, OwnerIsClean, Owns
    <3> QED
      BY <1>2, <2>1, <3>1 DEF Forward, Accounted
  <2>2. CASE a # addr[g]
    BY <1>2, <2>2 DEF Forward, Answer, Goto, Accounted, IsPending, store
  <2> QED
    BY <2>1, <2>2
<1>3. ASSUME NEW g \in Handlers, RecordUsed(g) PROVE Accounted(a)'
  BY <1>3 DEF RecordUsed, StoreError, Answer, Goto, Accounted, IsPending, locals
<1>4. ASSUME NEW g \in Handlers, TakePending(g) PROVE Accounted(a)'
  BY <1>4 DEF TakePending, DeletePending, StoreError, Answer, Goto, Step, Accounted, IsPending,
           history, locals
<1>5. ASSUME NEW g \in Handlers, DropExpired(g) PROVE Accounted(a)'
  <2>1. CASE a = addr[g]
    BY <1>5, <2>1 DEF DropExpired, DeadlinesAgree, Reads, Accounted, history, Stored
  <2>2. CASE a # addr[g]
    BY <1>5, <2>2 DEF DropExpired, DeletePending, Answer, Goto, Accounted, IsPending, history
  <2> QED
    BY <2>1, <2>2
<1>6. CASE Prune
  <2>1. CASE IsPending(a) /\ Prunable(pending[a], now)
    BY <1>6, <2>1, PrunedLate DEF Prune, DeadlinesAgree, Accounted, history
  <2>2. CASE ~(IsPending(a) /\ Prunable(pending[a], now))
    BY <1>6, <2>2 DEF Prune, PruneExpiredPending, Accounted, IsPending, history, locals
  <2> QED
    BY <2>1, <2>2
<1>7. CASE Tick
  <2>1. quote[a] # None /\ Stored(quote[a].deadline) \in Nat /\ now \in Nat /\ now' = now + 1
    BY <1>7, StoredIsNat, BoundsAssumption DEF Tick, history, Quote
  <2> QED
    BY <1>7, <2>1 DEF Tick, Accounted, IsPending, store, locals, history
<1>8. CASE Restart
  BY <1>8 DEF Restart, PendingReopen, Accounted, IsPending, history
<1>9. ASSUME UNCHANGED <<pending, grants, lost, quote, now>>, NEW g \in Handlers,
             pc[g] \notin {"mark", "forward"},
             \A h \in Handlers \ {g} : pc'[h] = pc[h] /\ addr'[h] = addr[h]
      PROVE  Accounted(a)'
  BY <1>9 DEF Accounted, IsPending
<1>10. ASSUME NEW g \in Handlers,
              Present(g) \/ RequestQuote(g) \/ GetNewAddress(g) \/ CheckUsed(g) \/ AcquireLock(g)
                 \/ ReadPending(g) \/ CheckExpiry(g) \/ CheckReceived(g)
       PROVE  Accounted(a)'
  <2>1. /\ UNCHANGED <<pending, grants, lost, quote, now>> /\ pc[g] \notin {"mark", "forward"}
        /\ \A h \in Handlers \ {g} : pc'[h] = pc[h] /\ addr'[h] = addr[h]
    BY <1>10 DEF Present, RequestQuote, GetNewAddress, CheckUsed, AcquireLock, ReadPending,
         CheckExpiry, CheckReceived, RpcError, StoreError, Answer, Goto, Step, store, locals,
         history
  <2> QED
    BY <1>9, <2>1
<1>11. CASE (\E b \in Addr : Pay(b) \/ Confirm(b) \/ Unsend(b)) \/ UNCHANGED vars
  BY <1>11 DEF Pay, Confirm, Unsend, vars, store, locals, history, Accounted, IsPending
<1> QED
  BY <1>1, <1>2, <1>3, <1>4, <1>5, <1>6, <1>7, <1>8, <1>10, <1>11
  DEF Next, HandlerStep, LocalStep, Environment

LEMMA AllAccountedHolds == Spec => [](\A a \in Addr : quote[a] # None => Accounted(a))
<1> DEFINE AllAccounted == \A a \in Addr : quote[a] # None => Accounted(a)
<1>1. Init => AllAccounted
  BY DEF Init
<1>2. TypeOK /\ Ownership /\ Funding /\ DeadlinesAgree /\ AllAccounted /\ [Next]_vars
      => AllAccounted'
  BY AccountedStep
<1> QED
  BY <1>1, <1>2, TypeCorrect, OwnershipHolds, FundingHolds, DeadlinesHold, PTL DEF Spec

\* Until its deadline a quote stands, through refused presentations, failed
\* deletes, sweeps and concurrent redemptions, unless a failure is what took it.
THEOREM QuoteStandsHolds == Spec => []QuoteStands
<1>1. TypeOK /\ (\A a \in Addr : quote[a] # None => Accounted(a)) => QuoteStands
  <2> SUFFICES ASSUME TypeOK, NEW a \in Addr, quote[a] # None, Accounted(a), InTime(a)
               PROVE  Stands(a)
    BY DEF QuoteStands, InTime
  <2>1. now \in Nat /\ Stored(quote[a].deadline) \in Nat
    BY StoredIsNat, BoundsAssumption DEF TypeOK, Quote
  <2> QED
    BY <2>1 DEF Accounted, InTime
<1> QED
  BY <1>1, TypeCorrect, AllAccountedHolds, PTL

\* With a database and min_conf above 0, a quote that a failure took was paid.
LostPaid ==
    Persistent /\ MinConf > 0 =>
        \A a \in lost : quote[a] # None /\ confirmed[a] >= quote[a].sats

LEMMA LostPaidStep ==
    ASSUME TypeOK, TypeOK', Ownership, Funding, LostPaid, [Next]_vars
    PROVE  LostPaid'
<1> SUFFICES ASSUME Persistent, MinConf > 0, NEW a \in lost'
             PROVE  quote'[a] # None /\ confirmed'[a] >= quote'[a].sats
  BY DEF LostPaid
<1>1. a \in Addr
  BY DEF TypeOK
<1>2. quote[a] # None /\ confirmed[a] >= quote[a].sats
  <2>1. CASE a \in lost
    BY <2>1 DEF LostPaid
  <2>2. CASE a \notin lost
    <3>1. \/ \E g \in Handlers : RecordUsed(g) /\ a = addr[g]
          \/ Restart
      BY <2>2 DEF Next, HandlerStep, LocalStep, Environment, vars, history, Present,
         RequestQuote, GetNewAddress, StoreQuote, CheckUsed, AcquireLock, ReadPending,
         CheckExpiry, DropExpired, CheckReceived, TakePending, RecordUsed, Forward, Prune,
         Tick, Pay, Confirm, Unsend
    <3>2. \E g \in Handlers : a = addr[g] /\ pc[g] \in {"mark", "forward"}
      BY <2>2, <3>1 DEF RecordUsed, Restart
    <3> QED
      BY <3>2 DEF Funding, PricesAgree, PaidFor
  <2> QED
    BY <2>1, <2>2
<1>3. quote'[a] = quote[a]
  <2>1. ASSUME NEW g \in Handlers, StoreQuote(g) PROVE quote'[a] = quote[a]
    BY <1>2, <2>1 DEF StoreQuote, Funding, PricesAgree, TypeOK
  <2> QED
    BY <2>1 DEF Next, HandlerStep, LocalStep, Environment, vars, history, Present,
       RequestQuote, GetNewAddress, CheckUsed, AcquireLock, ReadPending, CheckExpiry,
       DropExpired, CheckReceived, TakePending, RecordUsed, Forward, Prune, Tick, Pay,
       Confirm, Unsend, Restart
<1>4. confirmed'[a] >= confirmed[a]
  <2>1. ASSUME NEW b \in Addr, Confirm(b) PROVE confirmed'[a] >= confirmed[a]
    BY <1>1, <2>1 DEF Confirm, TypeOK
  <2>2. ASSUME UNCHANGED confirmed PROVE confirmed'[a] >= confirmed[a]
    BY <1>1, <2>2 DEF TypeOK
  <2> QED
    BY <2>1, <2>2 DEF Next, HandlerStep, LocalStep, Environment, vars, chain, Present,
       RequestQuote, GetNewAddress, StoreQuote, CheckUsed, AcquireLock, ReadPending,
       CheckExpiry, DropExpired, CheckReceived, TakePending, RecordUsed, Forward, Prune,
       Tick, Pay, Unsend, Restart
<1>5. /\ quote[a].sats \in Nat /\ confirmed[a] \in Nat /\ confirmed'[a] \in Nat
  BY <1>1, <1>2 DEF TypeOK, Quote
<1> QED
  BY <1>2, <1>3, <1>4, <1>5

LEMMA LostPaidHolds == Spec => []LostPaid
<1>1. Init => LostPaid
  BY DEF Init, LostPaid
<1>2. TypeOK /\ TypeOK' /\ Ownership /\ Funding /\ LostPaid /\ [Next]_vars => LostPaid'
  BY LostPaidStep
<1> QED
  BY <1>1, <1>2, TypeCorrect, OwnershipHolds, FundingHolds, PTL DEF Spec

\* With a database and min_conf above 0 an address that is not paid keeps its row
\* to its deadline, whatever happens to the process.
THEOREM UnpaidSurvivesHolds == Spec => []UnpaidSurvives
<1>1. TypeOK /\ Funding /\ LostPaid /\ QuoteStands => UnpaidSurvives
  <2> SUFFICES ASSUME TypeOK, Funding, LostPaid, QuoteStands, Persistent, MinConf > 0,
                      NEW a \in Addr, InTime(a), confirmed[a] < quote[a].sats
               PROVE  IsPending(a)
    BY DEF UnpaidSurvives
  <2>1. quote[a].sats \in Nat /\ confirmed[a] \in Nat /\ Stands(a)
    BY DEF TypeOK, Quote, InTime, QuoteStands
  <2>2. ~(confirmed[a] >= quote[a].sats)
    BY <2>1
  <2> QED
    BY <2>1, <2>2 DEF Stands, LostPaid, Funding, PaidFor, FundsBehindGrant
<1> QED
  BY <1>1, TypeCorrect, FundingHolds, LostPaidHolds, QuoteStandsHolds, PTL
=============================================================================
