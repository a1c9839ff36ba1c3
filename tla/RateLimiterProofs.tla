-------------------------- MODULE RateLimiterProofs --------------------------
(***************************************************************************)
(* Proofs about RateLimiter, for any number of handlers and IPs, any rate  *)
(* and burst, and any stall shorter than the idle time (ShortStall); that  *)
(* the idle time fills a bucket (FullWhenIdle) is asked only where said.   *)
(***************************************************************************)
EXTENDS RateLimiter, TLAPS

USE DEF ValidRateLimit, Positive

LEMMA ConstantsType ==
    /\ Refill \in Nat /\ Cost \in Nat /\ Idle \in Nat /\ MaxStall \in Nat /\ MaxTime \in Nat
    /\ Refill > 0 /\ Cost > 0
    /\ Capacity \in Nat /\ Capacity > 0
<1>1. Burst \in Nat /\ Burst > 0 /\ Cost \in Nat /\ Cost > 0
  BY RateAssumption
<1>2. Burst * Cost \in Nat /\ Burst * Cost > 0
  BY <1>1
<1> QED
  BY <1>1, <1>2, RateAssumption DEF Capacity

-----------------------------------------------------------------------------
(* Type correctness *)

\* Time only fills a bucket, never past its capacity.
LEMMA TokensType ==
    ASSUME TypeOK, NEW i \in Limiters, bucket[i].last <= now
    PROVE  Tokens(i) \in 0..Capacity
<1>1. bucket[i].tokens \in 0..Capacity /\ now - bucket[i].last \in Nat
  BY ConstantsType DEF TypeOK, Bucket, Time
<1>2. Refill * (now - bucket[i].last) \in Nat
  BY <1>1, ConstantsType
<1> QED
  BY <1>1, <1>2, ConstantsType DEF Tokens

\* No limiter was last used in the future.
LastIsPast == \A i \in Limiters : bucket[i].last <= now

LEMMA TypeInit == Init => TypeOK /\ LastIsPast
  BY ConstantsType DEF Init, TypeOK, LastIsPast, NewLimiter, Bucket, Time

LEMMA TypeStep ==
    ASSUME TypeOK, LastIsPast, [Next]_vars
    PROVE  TypeOK' /\ LastIsPast'
<1>1. ASSUME NEW g \in Handlers, Allow(g) PROVE TypeOK' /\ LastIsPast'
  <2>1. call[g] \in Call
    BY <1>1 DEF Allow, TypeOK
  <2> DEFINE i == call[g].limiter
  <2>2. i \in Limiters /\ Tokens(i) \in 0..Capacity /\ call[g].ip \in IPs
    BY <2>1, TokensType DEF Call, LastIsPast
  <2>3. CASE Tokens(i) >= Cost
    <3>1. bucket' = [bucket EXCEPT ![i] = [tokens |-> Tokens(i) - Cost, last |-> now]]
      BY <1>1, <2>2, <2>3, ConstantsType DEF Allow
    <3>2. [tokens |-> Tokens(i) - Cost, last |-> now] \in Bucket
      BY <2>2, <2>3, ConstantsType DEF Bucket, TypeOK
    <3>3. bucket' \in [Limiters -> Bucket]
      BY <2>2, <3>1, <3>2 DEF TypeOK
    <3>4. LastIsPast'
      BY <1>1, <2>2, <3>1 DEF Allow, LastIsPast, TypeOK, Time
    <3> QED
      BY <1>1, <2>2, <2>3, <3>3, <3>4, ConstantsType DEF Allow, TypeOK
  <2>4. CASE ~(Tokens(i) >= Cost)
    BY <1>1, <2>2, <2>4 DEF Allow, TypeOK, LastIsPast
  <2> QED
    BY <2>3, <2>4
<1>2. ASSUME NEW g \in Handlers, NEW ip \in IPs, GetLimiter(g, ip) PROVE TypeOK' /\ LastIsPast'
  <2>1. PICK i \in Limiters :
            /\ \/ limiters[ip] # None /\ i = limiters[ip].limiter /\ UNCHANGED bucket
               \/ bucket' = [bucket EXCEPT ![i] = NewLimiter]
            /\ limiters' = [limiters EXCEPT ![ip] = [limiter |-> i, lastSeen |-> now]]
            /\ call' = [call EXCEPT ![g] = [ip |-> ip, limiter |-> i, since |-> now]]
    BY <1>2 DEF GetLimiter
  <2>2. NewLimiter \in Bucket
    BY ConstantsType DEF NewLimiter, Bucket, TypeOK
  <2>3. bucket' \in [Limiters -> Bucket]
    BY <2>1, <2>2 DEF TypeOK
  <2>4. limiters' \in [IPs -> Entry \cup {None}] /\ call' \in [Handlers -> Call \cup {None}]
    BY <2>1 DEF TypeOK, Entry, Call
  <2>5. LastIsPast'
    <3> SUFFICES ASSUME NEW j \in Limiters PROVE bucket'[j].last <= now
      BY <1>2 DEF GetLimiter, LastIsPast
    <3>1. now \in Nat /\ NewLimiter.last = now
      BY DEF TypeOK, Time, NewLimiter
    <3>2. bucket'[j] = bucket[j] \/ bucket'[j] = NewLimiter
      BY <2>1 DEF TypeOK
    <3> QED
      BY <3>1, <3>2 DEF LastIsPast
  <2> QED
    BY <1>2, <2>3, <2>4, <2>5 DEF GetLimiter, TypeOK
<1>3. CASE Cleanup
  BY <1>3 DEF Cleanup, TypeOK, LastIsPast
<1>4. CASE Tick
  <2>1. now' \in Time /\ now' = now + 1
    BY <1>4, ConstantsType DEF Tick, TypeOK, Time
  <2>2. LastIsPast'
    BY <1>4, <2>1 DEF Tick, TypeOK, LastIsPast, Bucket, Time
  <2> QED
    BY <1>4, <2>1, <2>2 DEF Tick, TypeOK
<1>5. CASE UNCHANGED vars
  BY <1>5 DEF vars, TypeOK, LastIsPast
<1> QED
  BY <1>1, <1>2, <1>3, <1>4, <1>5 DEF Next

\* Every variable keeps its type; a bucket is never below empty or above its burst.
THEOREM TypeCorrect == Spec => []TypeOK
<1>1. Init => TypeOK /\ LastIsPast
  BY TypeInit
<1>2. TypeOK /\ LastIsPast /\ [Next]_vars => (TypeOK /\ LastIsPast)'
  BY TypeStep
<1> QED
  BY <1>1, <1>2, PTL DEF Spec

-----------------------------------------------------------------------------
(* No entry is evicted under a handler *)

\* A limiter serves one IP, and was last used within a stall of lastSeen.
EntriesOK ==
    /\ \A ip \in IPs : limiters[ip] # None =>
        bucket[limiters[ip].limiter].last <= limiters[ip].lastSeen + MaxStall
    /\ \A ip1, ip2 \in IPs :
        limiters[ip1] # None /\ limiters[ip2] # None
            /\ limiters[ip1].limiter = limiters[ip2].limiter => ip1 = ip2

\* The map has the limiter that a handler holds, and has seen its request.
CallsOK ==
    \A g \in Handlers : call[g] # None =>
        /\ limiters[call[g].ip] # None
        /\ limiters[call[g].ip].limiter = call[g].limiter
        /\ call[g].since <= limiters[call[g].ip].lastSeen
        /\ call[g].since <= now
        /\ now - call[g].since <= MaxStall

Held == TypeOK /\ LastIsPast /\ EntriesOK /\ CallsOK

\* Between its last use and its eviction a limiter rests for a pause.
LEMMA PauseType ==
    ASSUME ShortStall
    PROVE  /\ Pause \in Nat /\ Pause > 0 /\ Refill * Pause \in Nat
           /\ Forgiven \in Nat /\ Refill * Pause + Forgiven >= Capacity
<1>1. Pause \in Nat /\ Pause > 0
  BY ConstantsType DEF ShortStall, Pause
<1>2. Refill * Pause \in Nat
  BY <1>1, ConstantsType
<1> QED
  BY <1>1, <1>2, ConstantsType DEF Forgiven

\* What the clean-up evicts has rested, and no handler holds it.
LEMMA EvictedIsFree ==
    ASSUME ShortStall, Held, NEW ip \in IPs, limiters[ip] # None, IsIdle(limiters[ip])
    PROVE  /\ now - bucket[limiters[ip].limiter].last >= Pause
           /\ \A g \in Handlers : call[g] # None => call[g].ip # ip
<1> DEFINE e == limiters[ip]
           b == bucket[e.limiter]
<1>1. e \in Entry /\ e.limiter \in Limiters /\ e.lastSeen \in Nat /\ now \in Nat
  BY DEF Held, TypeOK, Entry, Time
<1>2. b.last \in Nat
  BY <1>1 DEF Held, TypeOK, Bucket, Time
<1>3. b.last <= e.lastSeen + MaxStall /\ e.lastSeen < now - Idle
  BY DEF Held, EntriesOK, IsIdle
<1>4. now - b.last >= Pause
  BY <1>1, <1>2, <1>3, ConstantsType DEF Pause
<1>5. ASSUME NEW g \in Handlers, call[g] # None, call[g].ip = ip PROVE FALSE
  <2>1. call[g].since \in Nat
    BY <1>5 DEF Held, TypeOK, Call, Time
  <2>2. call[g].since <= e.lastSeen /\ now - call[g].since <= MaxStall
    BY <1>5 DEF Held, CallsOK
  <2> QED
    BY <1>1, <1>3, <2>1, <2>2, ConstantsType DEF ShortStall
<1> QED
  BY <1>4, <1>5

LEMMA HeldInit == Init => Held
  BY TypeInit, ConstantsType DEF Init, Held, EntriesOK, CallsOK

\* The step of a request into the map: an entry of its IP, or a limiter of no one's.
LEMMA HeldGetLimiter ==
    ASSUME Held, NEW g \in Handlers, NEW ip \in IPs, GetLimiter(g, ip)
    PROVE  EntriesOK' /\ CallsOK'
<1>1. PICK i \in Limiters :
        /\ \/ limiters[ip] # None /\ i = limiters[ip].limiter /\ UNCHANGED bucket
           \/ /\ limiters[ip] = None /\ Unreferenced(i)
              /\ bucket' = [bucket EXCEPT ![i] = NewLimiter]
        /\ limiters' = [limiters EXCEPT ![ip] = [limiter |-> i, lastSeen |-> now]]
        /\ call' = [call EXCEPT ![g] = [ip |-> ip, limiter |-> i, since |-> now]]
        /\ now' = now
  BY DEF GetLimiter
<1> DEFINE e == [limiter |-> i, lastSeen |-> now]
<1>2. e # None /\ [ip |-> ip, limiter |-> i, since |-> now] # None
  BY NoneAssumption DEF Held, TypeOK, Entry, Call
<1>3. limiters'[ip] = e /\ \A p \in IPs \ {ip} : limiters'[p] = limiters[p]
  BY <1>1 DEF Held, TypeOK
<1>4. \A p \in IPs \ {ip} : limiters[p] # None => limiters[p].limiter # i
  BY <1>1 DEF Held, EntriesOK, Unreferenced
<1>5. now \in Nat /\ bucket'[i].last <= now
  <2>1. now \in Nat /\ NewLimiter.last = now
    BY DEF Held, TypeOK, Time, NewLimiter
  <2> QED
    BY <1>1, <2>1 DEF Held, TypeOK, LastIsPast
<1>6. EntriesOK'
  <2>1. ASSUME NEW p \in IPs, limiters'[p] # None
        PROVE  bucket'[limiters'[p].limiter].last <= limiters'[p].lastSeen + MaxStall
    <3>1. CASE p = ip
      <4>1. bucket'[i].last \in Nat
        BY <1>1 DEF Held, TypeOK, Bucket, Time, NewLimiter
      <4> QED
        BY <1>3, <1>5, <3>1, <4>1, ConstantsType
    <3>2. CASE p # ip
      <4>1. limiters'[p] = limiters[p] /\ limiters[p] # None
        BY <1>3, <2>1, <3>2
      <4>2. limiters[p].limiter \in Limiters /\ limiters[p].limiter # i
        BY <1>4, <3>2, <4>1 DEF Held, TypeOK, Entry
      <4>3. bucket'[limiters[p].limiter] = bucket[limiters[p].limiter]
        BY <1>1, <4>2 DEF Held, TypeOK
      <4> QED
        BY <4>1, <4>3 DEF Held, EntriesOK
    <3> QED
      BY <3>1, <3>2
  <2>2. ASSUME NEW p \in IPs, NEW q \in IPs, limiters'[p] # None, limiters'[q] # None,
               limiters'[p].limiter = limiters'[q].limiter
        PROVE  p = q
    BY <1>3, <1>4, <2>2 DEF Held, EntriesOK
  <2> QED
    BY <2>1, <2>2 DEF EntriesOK
<1>7. CallsOK'
  <2> SUFFICES ASSUME NEW h \in Handlers, call'[h] # None
               PROVE  /\ limiters'[call'[h].ip] # None
                      /\ limiters'[call'[h].ip].limiter = call'[h].limiter
                      /\ call'[h].since <= limiters'[call'[h].ip].lastSeen
                      /\ call'[h].since <= now
                      /\ now - call'[h].since <= MaxStall
    BY <1>1 DEF CallsOK
  <2>1. CASE h = g
    BY <1>1, <1>2, <1>3, <1>5, <2>1, ConstantsType DEF Held, TypeOK
  <2>2. CASE h # g
    <3>1. call'[h] = call[h] /\ call[h] # None /\ call[h].ip \in IPs
      BY <1>1, <2>2 DEF Held, TypeOK, Call
    <3>2. CASE call[h].ip = ip
      BY <1>1, <1>2, <1>3, <3>1, <3>2 DEF Held, CallsOK
    <3>3. CASE call[h].ip # ip
      BY <1>3, <3>1, <3>3 DEF Held, CallsOK
    <3> QED
      BY <3>2, <3>3
  <2> QED
    BY <2>1, <2>2
<1> QED
  BY <1>6, <1>7

LEMMA HeldAllow ==
    ASSUME Held, NEW g \in Handlers, Allow(g)
    PROVE  EntriesOK' /\ CallsOK'
<1>1. /\ call[g] # None /\ call[g].limiter \in Limiters /\ call[g].ip \in IPs
      /\ call' = [call EXCEPT ![g] = None]
      /\ now' = now /\ limiters' = limiters
  BY DEF Allow, Held, TypeOK, Call
<1>2. CallsOK'
  BY <1>1 DEF Held, TypeOK, CallsOK
<1>3. \A i \in Limiters \ {call[g].limiter} : bucket'[i] = bucket[i]
  BY <1>1 DEF Allow, Held, TypeOK
<1>4. \/ bucket'[call[g].limiter].last = bucket[call[g].limiter].last
      \/ bucket'[call[g].limiter].last = now
  BY <1>1 DEF Allow, Held, TypeOK
<1>5. now <= limiters[call[g].ip].lastSeen + MaxStall
  <2>1. /\ now \in Nat /\ call[g].since \in Nat
        /\ limiters[call[g].ip].lastSeen \in Nat
    BY <1>1 DEF Held, TypeOK, CallsOK, Call, Entry, Time
  <2> QED
    BY <1>1, <2>1, ConstantsType DEF Held, CallsOK
<1>6. ASSUME NEW ip \in IPs, limiters[ip] # None
      PROVE  bucket'[limiters[ip].limiter].last <= limiters[ip].lastSeen + MaxStall
  <2>1. CASE limiters[ip].limiter = call[g].limiter
    <3>1. ip = call[g].ip
      BY <1>1, <1>6, <2>1 DEF Held, EntriesOK, CallsOK
    <3> QED
      BY <1>4, <1>5, <1>6, <2>1, <3>1 DEF Held, EntriesOK
  <2>2. CASE limiters[ip].limiter # call[g].limiter
    BY <1>3, <1>6, <2>2 DEF Held, TypeOK, EntriesOK, Entry
  <2> QED
    BY <2>1, <2>2
<1> QED
  BY <1>1, <1>2, <1>6 DEF Held, EntriesOK

LEMMA HeldStep ==
    ASSUME ShortStall, Held, [Next]_vars
    PROVE  Held'
<1>1. TypeOK' /\ LastIsPast'
  BY TypeStep DEF Held
<1>2. CASE Cleanup
  <2>1. \A ip \in IPs : limiters'[ip] # None => limiters'[ip] = limiters[ip]
    BY <1>2 DEF Cleanup, Held, TypeOK
  <2>2. EntriesOK'
    BY <1>2, <2>1 DEF Cleanup, Held, EntriesOK
  <2>3. ASSUME NEW g \in Handlers, call[g] # None
        PROVE  limiters'[call[g].ip] = limiters[call[g].ip]
    <3>1. call[g].ip \in IPs /\ limiters[call[g].ip] # None
      BY <2>3 DEF Held, TypeOK, CallsOK, Call
    <3>2. ~IsIdle(limiters[call[g].ip])
      BY <2>3, <3>1, EvictedIsFree
    <3> QED
      BY <1>2, <3>1, <3>2 DEF Cleanup
  <2>4. CallsOK'
    BY <1>2, <2>3 DEF Cleanup, Held, CallsOK
  <2> QED
    BY <1>1, <2>2, <2>4 DEF Held
<1>3. CASE Tick
  <2>1. /\ now \in Nat /\ now' = now + 1
        /\ limiters' = limiters /\ bucket' = bucket /\ call' = call
    BY <1>3 DEF Tick, Held, TypeOK, Time
  <2>2. EntriesOK'
    BY <2>1 DEF Held, EntriesOK
  <2>3. ASSUME NEW g \in Handlers, call[g] # None
        PROVE  call[g].since <= now' /\ now' - call[g].since <= MaxStall
    <3>1. call[g].since \in Nat /\ now - call[g].since < MaxStall /\ call[g].since <= now
      BY <1>3, <2>3 DEF Tick, Held, TypeOK, CallsOK, Call, Time
    <3> QED
      BY <2>1, <3>1, ConstantsType
  <2>4. CallsOK'
    BY <2>1, <2>3 DEF Held, CallsOK
  <2> QED
    BY <1>1, <2>2, <2>4 DEF Held
<1>4. CASE UNCHANGED vars
  BY <1>1, <1>4 DEF vars, Held, EntriesOK, CallsOK
<1> QED
  BY <1>1, <1>2, <1>3, <1>4, HeldGetLimiter, HeldAllow DEF Next, Held

-----------------------------------------------------------------------------
(* What each step does to the bucket of an IP *)

LEMMA LevelType ==
    ASSUME Held
    PROVE  Level \in [IPs -> 0..Capacity]
<1> SUFFICES ASSUME NEW ip \in IPs, limiters[ip] # None
             PROVE  Tokens(limiters[ip].limiter) \in 0..Capacity
  BY ConstantsType DEF Level
<1>1. limiters[ip].limiter \in Limiters
  BY DEF Held, TypeOK, Entry
<1> QED
  BY <1>1, TokensType DEF Held, LastIsPast

LEMMA InitLevel == Init => Level = [ip \in IPs |-> Capacity]
  BY DEF Init, Level

\* A tick fills a lazy limiter by what it yields, as if it were filled at once.
LEMMA TickFills ==
    ASSUME Held, Tick
    PROVE  Level' = [ip \in IPs |-> AbstractBucket!Filled(Level[ip], 1)]
<1>1. limiters' = limiters /\ bucket' = bucket /\ now \in Nat /\ now' = now + 1
  BY DEF Tick, Held, TypeOK, Time
<1>2. AbstractBucket!Filled(Capacity, 1) = Capacity
  BY ConstantsType DEF AbstractBucket!Filled
<1> DEFINE Later(i) ==
             LET filled == bucket[i].tokens + Refill * ((now + 1) - bucket[i].last)
             IN IF filled > Capacity THEN Capacity ELSE filled
<1>3. ASSUME NEW i \in Limiters
      PROVE  Later(i) = AbstractBucket!Filled(Tokens(i), 1)
  <2> DEFINE b == bucket[i]
             d == now - b.last
             x == Refill * d
  <2>1. b.tokens \in Nat /\ b.last \in Nat /\ d \in Int
    BY <1>1 DEF Held, TypeOK, Bucket, Time
  <2>2. (now + 1) - b.last = d + 1
    BY <1>1, <2>1
  <2>3. x \in Int /\ Refill * (d + 1) = x + Refill
    <3> HIDE DEF d
    <3> QED
      BY <2>1, ConstantsType
  <2>4. Later(i) = IF b.tokens + (x + Refill) > Capacity THEN Capacity ELSE b.tokens + (x + Refill)
    BY <2>2, <2>3
  <2>5. Tokens(i) = IF b.tokens + x > Capacity THEN Capacity ELSE b.tokens + x
    BY DEF Tokens
  <2> HIDE DEF x, Later
  <2> QED
    BY <2>1, <2>3, <2>4, <2>5, ConstantsType DEF AbstractBucket!Filled
<1>4. ASSUME NEW ip \in IPs PROVE Level'[ip] = AbstractBucket!Filled(Level[ip], 1)
  <2>1. CASE limiters[ip] = None
    BY <1>1, <1>2, <2>1 DEF Level
  <2>2. CASE limiters[ip] # None
    <3>1. limiters[ip].limiter \in Limiters
      BY <2>2 DEF Held, TypeOK, Entry
    <3>2. Level[ip] = Tokens(limiters[ip].limiter)
      BY <2>2 DEF Level
    <3>3. Level'[ip] = Later(limiters[ip].limiter)
      BY <1>1, <2>2 DEF Level, Tokens
    <3> QED
      BY <1>3, <3>1, <3>2, <3>3
  <2> QED
    BY <2>1, <2>2
<1> QED
  BY <1>4 DEF Level

\* A new limiter is as full as no limiter, and one that is found is left alone.
LEMMA GetLimiterKeepsLevel ==
    ASSUME Held, NEW g \in Handlers, NEW ip \in IPs, GetLimiter(g, ip)
    PROVE  Level' = Level
<1>1. PICK i \in Limiters :
        /\ \/ limiters[ip] # None /\ i = limiters[ip].limiter /\ UNCHANGED bucket
           \/ /\ limiters[ip] = None /\ Unreferenced(i)
              /\ bucket' = [bucket EXCEPT ![i] = NewLimiter]
        /\ limiters' = [limiters EXCEPT ![ip] = [limiter |-> i, lastSeen |-> now]]
        /\ now' = now
  BY DEF GetLimiter
<1>2. [limiter |-> i, lastSeen |-> now] # None
  BY NoneAssumption DEF Held, TypeOK, Entry
<1>3. ASSUME NEW p \in IPs PROVE Level'[p] = Level[p]
  <2>1. CASE p # ip
    <3>1. limiters'[p] = limiters[p]
      BY <1>1, <2>1 DEF Held, TypeOK
    <3>2. limiters[p] # None => bucket'[limiters[p].limiter] = bucket[limiters[p].limiter]
      <4> SUFFICES ASSUME limiters[p] # None
                   PROVE  bucket'[limiters[p].limiter] = bucket[limiters[p].limiter]
        OBVIOUS
      <4>1. limiters[p].limiter \in Limiters
        BY DEF Held, TypeOK, Entry
      <4> QED
        BY <1>1, <4>1 DEF Held, TypeOK, Unreferenced
    <3> QED
      BY <1>1, <3>1, <3>2 DEF Level, Tokens
  <2>2. CASE p = ip
    <3>1. limiters'[ip] # None /\ limiters'[ip].limiter = i
      BY <1>1, <1>2 DEF Held, TypeOK
    <3>2. CASE limiters[ip] # None
      BY <1>1, <2>2, <3>1, <3>2 DEF Level, Tokens
    <3>3. CASE limiters[ip] = None
      <4>1. bucket'[i] = NewLimiter
        BY <1>1, <3>3 DEF Held, TypeOK
      <4>2. now \in Nat
        BY DEF Held, TypeOK, Time
      <4>3. Tokens(i)' = Capacity
        BY <1>1, <4>1, <4>2, ConstantsType DEF Tokens, NewLimiter
      <4> QED
        BY <2>2, <3>1, <3>3, <4>3 DEF Level
    <3> QED
      BY <3>2, <3>3
  <2> QED
    BY <2>1, <2>2
<1> QED
  BY <1>3 DEF Level

\* Eviction only fills a bucket.
LEMMA CleanupFills ==
    ASSUME Held, Cleanup, NEW ip \in IPs
    PROVE  Level'[ip] = Level[ip] \/ Level'[ip] = Capacity
<1>1. now' = now /\ bucket' = bucket
  BY DEF Cleanup
<1>2. limiters'[ip] = limiters[ip] \/ limiters'[ip] = None
  BY DEF Cleanup
<1> QED
  BY <1>1, <1>2 DEF Level, Tokens

\* Allow takes a request out of the bucket of its IP or, with less in it, nothing.
LEMMA AllowTakesOne ==
    ASSUME Held, NEW g \in Handlers, Allow(g)
    PROVE  /\ call[g].ip \in IPs
           /\ \/ /\ Level[call[g].ip] >= Cost
                 /\ Level' = [Level EXCEPT ![call[g].ip] = @ - Cost]
                 /\ served' = [served EXCEPT ![call[g].ip] = @ + 1]
                 /\ used' = [used EXCEPT ![call[g].ip] = now]
              \/ /\ Level[call[g].ip] < Cost
                 /\ Level' = Level
                 /\ served' = served /\ used' = used
<1>1. PICK i \in Limiters, ip \in IPs :
        /\ i = call[g].limiter /\ ip = call[g].ip
        /\ limiters[ip] # None /\ limiters[ip].limiter = i
        /\ limiters' = limiters /\ now' = now /\ now \in Nat
  BY DEF Allow, Held, TypeOK, CallsOK, Call, Time
<1>2. Level[ip] = Tokens(i)
  BY <1>1 DEF Level
<1>3. Tokens(i) \in 0..Capacity
  BY <1>1, TokensType DEF Held, LastIsPast
<1>4. CASE Tokens(i) >= Cost
  <2>1. /\ bucket' = [bucket EXCEPT ![i] = [tokens |-> Tokens(i) - Cost, last |-> now]]
        /\ served' = [served EXCEPT ![ip] = @ + 1] /\ used' = [used EXCEPT ![ip] = now]
    BY <1>1, <1>3, <1>4, ConstantsType DEF Allow
  <2>2. Tokens(i)' = Tokens(i) - Cost
    <3>1. bucket'[i].tokens = Tokens(i) - Cost /\ bucket'[i].last = now
      BY <1>1, <2>1 DEF Held, TypeOK
    <3>2. Refill * (now - now) = 0
      BY <1>1, ConstantsType
    <3> QED
      BY <1>1, <1>3, <3>1, <3>2, ConstantsType DEF Tokens
  <2>3. ASSUME NEW p \in IPs, p # ip PROVE Level'[p] = Level[p]
    <3>1. limiters[p] # None => limiters[p].limiter \in Limiters /\ limiters[p].limiter # i
      BY <1>1, <2>3 DEF Held, TypeOK, EntriesOK, Entry
    <3>2. limiters[p] # None => bucket'[limiters[p].limiter] = bucket[limiters[p].limiter]
      BY <2>1, <3>1 DEF Held, TypeOK
    <3> QED
      BY <1>1, <3>2 DEF Level, Tokens
  <2>4. Level'[ip] = Level[ip] - Cost
    BY <1>1, <1>2, <2>2 DEF Level
  <2>5. Level' = [Level EXCEPT ![ip] = @ - Cost]
    BY <1>1, <2>3, <2>4 DEF Level
  <2> QED
    BY <1>1, <1>2, <1>4, <2>1, <2>5
<1>5. CASE ~(Tokens(i) >= Cost)
  <2>1. bucket' = bucket /\ served' = served /\ used' = used
    BY <1>1, <1>5 DEF Allow
  <2>2. Level' = Level
    BY <1>1, <2>1 DEF Level, Tokens
  <2>3. Level[ip] < Cost
    BY <1>2, <1>3, <1>5, ConstantsType
  <2> QED
    BY <1>1, <2>1, <2>2, <2>3
<1> QED
  BY <1>4, <1>5

-----------------------------------------------------------------------------
(* The accounts of an IP *)

\* What burst and rate have left an IP since tick t.
Room(ip, t) == Capacity + Refill * (now - t) - Cost * Admitted(ip, t)

\* Since some tick, a full bucket's say, an IP has had all that it does not have.
Drained == \A ip \in IPs : \E t \in 0..now : Level[ip] >= Room(ip, t)

LEMMA RoomType ==
    ASSUME TypeOK, NEW ip \in IPs, NEW t \in 0..now
    PROVE  /\ Admitted(ip, t) \in Int
           /\ Refill * (now - t) \in Int /\ Cost * Admitted(ip, t) \in Int
           /\ Room(ip, t) \in Int
<1>1. t \in Time /\ now \in Nat /\ now - t \in Int
  BY ConstantsType DEF TypeOK, Time
<1>2. Admitted(ip, t) \in Int
  BY <1>1 DEF Admitted, TypeOK
<1>3. Refill * (now - t) \in Int /\ Cost * Admitted(ip, t) \in Int
  BY <1>1, <1>2, ConstantsType
<1> QED
  BY <1>2, <1>3, ConstantsType DEF Room

LEMMA DrainedInit == Init => Drained
<1> SUFFICES ASSUME Init, NEW ip \in IPs PROVE \E t \in 0..now : Level[ip] >= Room(ip, t)
  BY DEF Drained
<1>1. now = 0 /\ Level[ip] = Capacity /\ Admitted(ip, 0) = 0
  BY InitLevel, ConstantsType DEF Init, Admitted, Time
<1>2. Refill * 0 = 0 /\ Cost * 0 = 0
  BY ConstantsType
<1>3. Room(ip, 0) = Capacity
  BY <1>1, <1>2, ConstantsType DEF Room
<1> QED
  BY <1>1, <1>3, ConstantsType

\* A tick makes as much room as it fills, and room for a full bucket from itself on.
LEMMA DrainedTick ==
    ASSUME Held, Drained, Tick
    PROVE  Drained'
<1>1. now \in Nat /\ now' = now + 1 /\ now' \in Time /\ served' = served
  BY ConstantsType DEF Tick, Held, TypeOK, Time
<1> SUFFICES ASSUME NEW ip \in IPs PROVE \E t \in 0..now' : Level'[ip] >= Room(ip, t)'
  BY DEF Drained
<1>2. Level[ip] \in 0..Capacity /\ Level'[ip] = AbstractBucket!Filled(Level[ip], 1)
  BY LevelType, TickFills
<1>3. Level'[ip] = Capacity \/ Level'[ip] = Level[ip] + Refill
  BY <1>2, ConstantsType DEF AbstractBucket!Filled
<1>4. ASSUME NEW t \in 0..now', t = now' PROVE Room(ip, t)' = Capacity
  <2>1. before'[ip][t] = served'[ip] /\ served'[ip] \in Int
    BY <1>1, <1>4 DEF Tick, Held, TypeOK
  <2>2. Admitted(ip, t)' = 0
    BY <2>1 DEF Admitted
  <2>3. Refill * (now' - t) = 0 /\ Cost * 0 = 0
    BY <1>1, <1>4, ConstantsType
  <2> QED
    BY <2>2, <2>3, ConstantsType DEF Room
<1>5. ASSUME NEW t \in 0..now PROVE Room(ip, t)' = Room(ip, t) + Refill
  <2>1. t \in Time /\ t # now' /\ t \in Nat
    BY <1>1, ConstantsType DEF Held, TypeOK, Time
  <2>2. Admitted(ip, t)' = Admitted(ip, t)
    BY <1>1, <2>1 DEF Tick, Held, TypeOK, Admitted
  <2> DEFINE d == now - t
  <2>3. now' - t = d + 1 /\ d \in Int
    BY <1>1, <2>1
  <2>4. Refill * (d + 1) = Refill * d + Refill
    <3> HIDE DEF d
    <3> QED
      BY <2>3, ConstantsType
  <2>5. Room(ip, t)' = Capacity + (Refill * d + Refill) - Cost * Admitted(ip, t)
    BY <2>2, <2>3, <2>4 DEF Room
  <2> QED
    BY <2>5, RoomType, ConstantsType DEF Room, Held
<1>6. CASE Level'[ip] = Capacity
  <2>1. PICK t \in 0..now' : t = now'
    BY <1>1
  <2> QED
    BY <1>4, <1>6, <2>1, ConstantsType
<1>7. CASE Level'[ip] = Level[ip] + Refill
  <2>1. PICK t \in 0..now : Level[ip] >= Room(ip, t)
    BY DEF Drained
  <2>2. t \in 0..now' /\ Room(ip, t) \in Int
    BY <1>1, RoomType DEF Held
  <2> QED
    BY <1>2, <1>5, <1>7, <2>1, <2>2, ConstantsType
<1> QED
  BY <1>3, <1>6, <1>7

\* A request that is let through takes one from the bucket and one from every room.
LEMMA DrainedAllow ==
    ASSUME Held, Drained, NEW g \in Handlers, Allow(g)
    PROVE  Drained'
<1>1. PICK p \in IPs :
        \/ /\ Level' = [Level EXCEPT ![p] = @ - Cost]
           /\ served' = [served EXCEPT ![p] = @ + 1]
        \/ Level' = Level /\ served' = served
  BY AllowTakesOne
<1>2. now' = now /\ before' = before
  BY DEF Allow
<1>3. CASE Level' = Level /\ served' = served
  BY <1>2, <1>3 DEF Drained, Room, Admitted
<1>4. CASE /\ Level' = [Level EXCEPT ![p] = @ - Cost]
           /\ served' = [served EXCEPT ![p] = @ + 1]
  <2> SUFFICES ASSUME NEW ip \in IPs PROVE \E t \in 0..now : Level'[ip] >= Room(ip, t)'
    BY <1>2 DEF Drained
  <2>1. PICK t \in 0..now : Level[ip] >= Room(ip, t)
    BY DEF Drained
  <2>2. CASE ip # p
    <3>1. Level'[ip] = Level[ip] /\ served'[ip] = served[ip]
      BY <1>4, <2>2, LevelType DEF Held, TypeOK
    <3>2. Room(ip, t)' = Room(ip, t)
      BY <1>2, <3>1 DEF Room, Admitted
    <3> QED
      BY <2>1, <3>1, <3>2
  <2>3. CASE ip = p
    <3>1. /\ Level'[ip] = Level[ip] - Cost /\ Level[ip] \in Int
          /\ served'[ip] = served[ip] + 1 /\ served[ip] \in Int
      BY <1>4, <2>3, LevelType DEF Held, TypeOK
    <3> DEFINE n == Admitted(ip, t)
               x == Refill * (now - t)
    <3>2. n \in Int /\ x \in Int /\ Cost * n \in Int /\ Room(ip, t) \in Int
      BY RoomType DEF Held
    <3>3. Admitted(ip, t)' = n + 1
      <4>1. before[ip][t] \in Int
        BY ConstantsType DEF Held, TypeOK, Time
      <4> QED
        BY <1>2, <3>1, <4>1 DEF Admitted
    <3>4. Room(ip, t)' = Capacity + x - Cost * (n + 1)
      BY <1>2, <3>3 DEF Room
    <3>5. Room(ip, t) = Capacity + x - Cost * n
      BY DEF Room
    <3>6. Room(ip, t)' = Room(ip, t) - Cost
      <4> HIDE DEF n, x
      <4>1. Cost * (n + 1) = Cost * n + Cost
        BY <3>2, ConstantsType
      <4> QED
        BY <3>2, <3>4, <3>5, <4>1, ConstantsType
    <3> QED
      BY <2>1, <3>1, <3>2, <3>6, ConstantsType
  <2> QED
    BY <2>2, <2>3
<1> QED
  BY <1>1, <1>3, <1>4

DInv == Held /\ Drained

LEMMA DInvInit == Init => DInv
  BY HeldInit, DrainedInit DEF DInv

LEMMA DInvStep ==
    ASSUME ShortStall, DInv, [Next]_vars
    PROVE  DInv'
<1>1. Held'
  BY HeldStep DEF DInv
<1>2. ASSUME Level' = Level, served' = served, before' = before, now' = now PROVE Drained'
  BY <1>2 DEF DInv, Drained, Room, Admitted
<1>3. ASSUME NEW g \in Handlers, NEW ip \in IPs, GetLimiter(g, ip) PROVE Drained'
  BY <1>2, <1>3, GetLimiterKeepsLevel DEF DInv, GetLimiter
<1>4. CASE Cleanup
  <2>1. now' = now /\ served' = served /\ before' = before
    BY <1>4 DEF Cleanup
  <2> SUFFICES ASSUME NEW ip \in IPs PROVE \E t \in 0..now : Level'[ip] >= Room(ip, t)'
    BY <1>1, <2>1 DEF DInv, Drained
  <2>2. PICK t \in 0..now : Level[ip] >= Room(ip, t)
    BY DEF DInv, Drained
  <2>3. Room(ip, t)' = Room(ip, t) /\ Room(ip, t) \in Int
    BY <2>1, RoomType DEF DInv, Held, Room, Admitted
  <2>4. Level'[ip] >= Level[ip] /\ Level[ip] \in Int /\ Level'[ip] \in Int
    BY <1>4, CleanupFills, LevelType, ConstantsType DEF DInv
  <2> QED
    BY <2>2, <2>3, <2>4
<1>5. CASE UNCHANGED vars
  BY <1>1, <1>2, <1>5 DEF DInv, vars, Level, Tokens
<1> QED
  BY <1>1, <1>3, <1>4, <1>5, DrainedTick, DrainedAllow DEF DInv, Next

\* A refused IP has had, since some tick, all that burst and rate yield but less
\* than a request.
THEOREM RefusalEarnedHolds == ShortStall => (Spec => RefusalEarned)
<1> SUFFICES ASSUME ShortStall PROVE Spec => RefusalEarned
  OBVIOUS
<1> DEFINE Earned == \A g \in Handlers : Refused(g) =>
        \E t \in 0..now : Cost * (Admitted(call[g].ip, t) + 1) > Capacity + Refill * (now - t)
<1>1. Init => DInv
  BY DInvInit
<1>2. DInv /\ [Next]_vars => DInv'
  BY DInvStep
<1>3. DInv /\ [Next]_vars => [Earned]_vars
  <2> SUFFICES ASSUME DInv, Next, NEW g \in Handlers, Refused(g)
               PROVE  \E t \in 0..now :
                          Cost * (Admitted(call[g].ip, t) + 1) > Capacity + Refill * (now - t)
    OBVIOUS
  <2>1. Allow(g)
    <3>1. ASSUME NEW h \in Handlers, h # g, Allow(h) PROVE FALSE
      BY <3>1 DEF Allow, Refused, DInv, Held, TypeOK
    <3>2. ASSUME NEW h \in Handlers, NEW ip \in IPs, GetLimiter(h, ip) PROVE FALSE
      <4>1. h # g
        BY <3>2 DEF GetLimiter, Refused
      <4> QED
        BY <3>2, <4>1 DEF GetLimiter, Refused, DInv, Held, TypeOK
    <3> QED
      BY <3>1, <3>2 DEF Next, Cleanup, Tick, Refused
  <2> DEFINE ip == call[g].ip
  <2>2. ip \in IPs /\ Level[ip] < Cost
    <3>1. served[ip] + 1 # served[ip] /\ ip \in IPs
      BY <2>1, AllowTakesOne DEF DInv, Held, TypeOK
    <3> QED
      BY <2>1, <3>1, AllowTakesOne DEF DInv, Held, TypeOK, Refused
  <2>3. PICK t \in 0..now : Level[ip] >= Room(ip, t)
    BY <2>2 DEF DInv, Drained
  <2> DEFINE n == Admitted(ip, t)
             x == Refill * (now - t)
  <2>4. n \in Int /\ x \in Int /\ Cost * n \in Int
    BY <2>2, RoomType DEF DInv, Held
  <2>5. Capacity + x - Cost * n < Cost
    <3>1. Level[ip] \in Int
      BY <2>2, LevelType DEF DInv
    <3>2. Room(ip, t) = Capacity + x - Cost * n
      BY DEF Room
    <3> HIDE DEF n, x
    <3> QED
      BY <2>2, <2>3, <2>4, <3>1, <3>2, ConstantsType
  <2> HIDE DEF n, x
  <2>6. Cost * (n + 1) = Cost * n + Cost
    BY <2>4, ConstantsType
  <2>7. Cost * (n + 1) > Capacity + x
    BY <2>4, <2>5, <2>6, ConstantsType
  <2> QED
    BY <2>7 DEF n, x
<1> QED
  BY <1>1, <1>2, <1>3, PTL DEF Spec, RefusalEarned

-----------------------------------------------------------------------------
(* The most an IP gets *)

\* What burst and rate yield in d ticks, and what evictions forgive in them.
Most(d) == Capacity + Refill * d + Forgiven * (d \div Pause)

\* What an IP has had since tick t and what its limiter holds, as of its last use,
\* are within the most of that time; so is a full bucket where there is no entry.
Within ==
    \A ip \in IPs, t \in 0..now :
        IF limiters[ip] = None
          THEN Cost * Admitted(ip, t) + Capacity <= Most(now - t)
          ELSE LET b == bucket[limiters[ip].limiter] IN
                \/ b.last < t /\ Admitted(ip, t) = 0
                \/ b.last >= t /\ Cost * Admitted(ip, t) + b.tokens <= Most(b.last - t)

\* More time yields what the rate does in it, and a pause yields a full bucket.
LEMMA MostGrows ==
    ASSUME ShortStall, NEW d \in Nat, NEW e \in Nat, e >= d
    PROVE  /\ Most(d) \in Nat /\ Most(e) \in Nat /\ Refill * (e - d) \in Nat
           /\ Most(d) + Refill * (e - d) <= Most(e)
           /\ Most(d) >= Capacity /\ Most(d) <= Most(e)
           /\ e >= d + Pause => Most(d) + Capacity <= Most(e)
<1> DEFINE m == d \div Pause
           n == e \div Pause
<1>1. /\ m \in Nat /\ n \in Nat /\ n >= m
      /\ e >= d + Pause => n >= m + 1
  BY PauseType
<1>2. /\ Refill * d \in Nat /\ Refill * e \in Nat /\ Refill * (e - d) \in Nat
      /\ Refill * d + Refill * (e - d) = Refill * e
  BY ConstantsType
<1> HIDE DEF m, n
<1>3. /\ Forgiven * m \in Nat /\ Forgiven * n \in Nat /\ Forgiven * (n - m) \in Nat
      /\ Forgiven * m + Forgiven * (n - m) = Forgiven * n
  BY <1>1, PauseType
<1>4. Most(d) = Capacity + Refill * d + Forgiven * m /\ Most(e) = Capacity + Refill * e + Forgiven * n
  BY DEF Most, m, n
<1>5. ASSUME e >= d + Pause PROVE Most(d) + Capacity <= Most(e)
  <2>1. Forgiven * (n - m) >= Forgiven
    <3>1. (n - m) - 1 \in Nat /\ Forgiven \in Nat
      BY <1>1, <1>5, PauseType
    <3>2. Forgiven * ((n - m) - 1) \in Nat /\ Forgiven * (n - m) = Forgiven + Forgiven * ((n - m) - 1)
      BY <1>1, <3>1
    <3> QED
      BY <1>3, <3>1, <3>2
  <2>2. Refill * (e - d) >= Refill * Pause
    <3>1. (e - d) - Pause \in Nat /\ Pause \in Nat
      BY <1>5, PauseType
    <3>2. /\ Refill * ((e - d) - Pause) \in Nat
          /\ Refill * (e - d) = Refill * Pause + Refill * ((e - d) - Pause)
      BY <3>1, ConstantsType
    <3> QED
      BY <1>2, <3>2, PauseType
  <2> QED
    BY <1>2, <1>3, <1>4, <2>1, <2>2, PauseType, ConstantsType
<1> QED
  BY <1>2, <1>3, <1>4, <1>5, ConstantsType

\* What a limiter is made of, and what an IP has had since a tick.
LEMMA EntryType ==
    ASSUME Held, NEW ip \in IPs, limiters[ip] # None
    PROVE  /\ limiters[ip].limiter \in Limiters
           /\ bucket[limiters[ip].limiter].tokens \in 0..Capacity
           /\ bucket[limiters[ip].limiter].last \in Nat
           /\ bucket[limiters[ip].limiter].last <= now
           /\ now \in Nat
  BY DEF Held, TypeOK, LastIsPast, Entry, Bucket, Time

\* The clock starts with full buckets, and the tick that comes has had nothing yet.
LEMMA WithinInit == ShortStall /\ Init => Within
<1> SUFFICES ASSUME ShortStall, Init, NEW ip \in IPs, NEW t \in 0..now
             PROVE  limiters[ip] = None /\ Cost * Admitted(ip, t) + Capacity <= Most(now - t)
  BY DEF Within
<1>1. now = 0 /\ t = 0 /\ limiters[ip] = None /\ Admitted(ip, t) = 0
  BY ConstantsType DEF Init, Admitted, Time
<1>2. Cost * 0 = 0 /\ Most(0) >= Capacity
  BY MostGrows, ConstantsType
<1> QED
  BY <1>1, <1>2, ConstantsType

LEMMA WithinTick ==
    ASSUME ShortStall, Held, Within, Tick
    PROVE  Within'
<1>1. /\ now \in Nat /\ now' = now + 1 /\ now' \in Time
      /\ limiters' = limiters /\ bucket' = bucket /\ served' = served
  BY ConstantsType DEF Tick, Held, TypeOK, Time
<1> SUFFICES ASSUME NEW ip \in IPs, NEW t \in 0..now'
             PROVE  IF limiters[ip] = None
                      THEN Cost * Admitted(ip, t)' + Capacity <= Most(now' - t)
                      ELSE LET b == bucket[limiters[ip].limiter] IN
                            \/ b.last < t /\ Admitted(ip, t)' = 0
                            \/ b.last >= t /\ Cost * Admitted(ip, t)' + b.tokens <= Most(b.last - t)
  BY <1>1 DEF Within, Most
<1>2. CASE t = now'
  <2>1. before'[ip][t] = served'[ip] /\ served'[ip] \in Int
    BY <1>1, <1>2 DEF Tick, Held, TypeOK
  <2>2. Admitted(ip, t)' = 0
    BY <2>1 DEF Admitted
  <2>3. Cost * 0 + Capacity <= Most(now' - t)
    BY <1>1, <1>2, MostGrows, ConstantsType
  <2>4. limiters[ip] # None => bucket[limiters[ip].limiter].last < t
    BY <1>1, <1>2, EntryType
  <2> QED
    BY <2>2, <2>3, <2>4
<1>3. CASE t # now'
  <2>1. t \in 0..now /\ t \in Time
    BY <1>1, <1>3, ConstantsType DEF Held, TypeOK, Time
  <2>2. Admitted(ip, t)' = Admitted(ip, t)
    BY <1>1, <1>3, <2>1 DEF Tick, Held, TypeOK, Admitted
  <2>3. Cost * Admitted(ip, t) \in Int
    BY <2>1, RoomType DEF Held
  <2>4. Most(now - t) <= Most(now' - t) /\ Most(now - t) \in Nat /\ Most(now' - t) \in Nat
    <3>1. now - t \in Nat /\ now' - t \in Nat /\ now' - t >= now - t
      BY <1>1, <2>1
    <3> QED
      BY <3>1, MostGrows
  <2> QED
    BY <2>1, <2>2, <2>3, <2>4, ConstantsType DEF Within
<1> QED
  BY <1>2, <1>3

\* A request that is let through takes from its bucket what it adds to the account.
LEMMA WithinAllow ==
    ASSUME ShortStall, Held, Within, NEW g \in Handlers, Allow(g)
    PROVE  Within'
<1>1. PICK i \in Limiters, p \in IPs :
        /\ i = call[g].limiter /\ p = call[g].ip
        /\ limiters[p] # None /\ limiters[p].limiter = i
        /\ limiters' = limiters /\ now' = now /\ before' = before
  BY DEF Allow, Held, TypeOK, CallsOK, Call
<1>2. CASE bucket' = bucket /\ served' = served
  BY <1>1, <1>2 DEF Within, Most, Admitted
<1>3. CASE ~(bucket' = bucket /\ served' = served)
  <2> DEFINE b == bucket[i]
             x == Refill * (now - b.last)
  <2>1. /\ bucket' = [bucket EXCEPT ![i] = [tokens |-> Tokens(i) - Cost, last |-> now]]
        /\ served' = [served EXCEPT ![p] = @ + 1]
    BY <1>1, <1>3 DEF Allow
  <2>2. /\ Tokens(i) \in 0..Capacity /\ Tokens(i) <= b.tokens + x /\ x \in Nat
        /\ b.tokens \in 0..Capacity /\ b.last \in Nat /\ b.last <= now /\ now \in Nat
    <3>1. b.tokens \in 0..Capacity /\ b.last \in Nat /\ b.last <= now /\ now \in Nat
      BY <1>1, EntryType
    <3>2. now - b.last \in Nat
      BY <3>1
    <3>3. x \in Nat
      BY <3>2, ConstantsType
    <3>4. Tokens(i) \in 0..Capacity
      BY <1>1, TokensType DEF Held, LastIsPast
    <3>5. Tokens(i) = IF b.tokens + x > Capacity THEN Capacity ELSE b.tokens + x
      BY DEF Tokens
    <3> HIDE DEF x
    <3> QED
      BY <3>1, <3>3, <3>4, <3>5, ConstantsType
  <2>3. bucket'[i].tokens = Tokens(i) - Cost /\ bucket'[i].last = now
    BY <1>1, <2>1 DEF Held, TypeOK
  <2> SUFFICES ASSUME NEW ip \in IPs, NEW t \in 0..now
               PROVE  IF limiters[ip] = None
                        THEN Cost * Admitted(ip, t)' + Capacity <= Most(now - t)
                        ELSE LET c == bucket'[limiters[ip].limiter] IN
                              \/ c.last < t /\ Admitted(ip, t)' = 0
                              \/ c.last >= t /\ Cost * Admitted(ip, t)' + c.tokens <= Most(c.last - t)
    BY <1>1 DEF Within, Most
  <2>4. CASE ip # p
    <3>1. Admitted(ip, t)' = Admitted(ip, t)
      BY <1>1, <2>1, <2>4 DEF Admitted, Held, TypeOK
    <3>2. limiters[ip] # None => limiters[ip].limiter \in Limiters /\ limiters[ip].limiter # i
      BY <1>1, <2>4, EntryType DEF Held, EntriesOK
    <3>3. limiters[ip] # None => bucket'[limiters[ip].limiter] = bucket[limiters[ip].limiter]
      BY <2>1, <3>2 DEF Held, TypeOK
    <3> QED
      BY <3>1, <3>3 DEF Within
  <2>5. CASE ip = p
    <3> DEFINE n == Admitted(ip, t)
    <3>1. n \in Int /\ Cost * n \in Int
      BY RoomType DEF Held
    <3>2. Admitted(ip, t)' = n + 1
      <4>1. before[ip][t] \in Int /\ served[ip] \in Int /\ served'[ip] = served[ip] + 1
        BY <2>1, <2>5, ConstantsType DEF Held, TypeOK, Time
      <4> QED
        BY <1>1, <4>1 DEF Admitted
    <3>3. Cost * (n + 1) + (Tokens(i) - Cost) <= Most(now - t)
      <4>1. now - t \in Nat /\ Most(now - t) \in Nat /\ Most(now - t) >= Capacity
        <5>1. now - t \in Nat
          BY <2>2
        <5> QED
          BY <5>1, MostGrows
      <4>2. CASE b.last < t /\ n = 0
        <5>1. Cost * (n + 1) = Cost
          BY <4>2, ConstantsType
        <5> QED
          BY <2>2, <4>1, <5>1, ConstantsType
      <4>3. CASE b.last >= t /\ Cost * n + b.tokens <= Most(b.last - t)
        <5>1. b.last - t \in Nat /\ now - t >= b.last - t /\ (now - t) - (b.last - t) = now - b.last
          BY <2>2, <4>3
        <5>2. Most(b.last - t) + x <= Most(now - t) /\ Most(b.last - t) \in Nat
          BY <4>1, <5>1, MostGrows
        <5> HIDE DEF n, x, b
        <5>3. Cost * (n + 1) = Cost * n + Cost
          BY <3>1, ConstantsType
        <5> QED
          BY <2>2, <3>1, <4>1, <4>3, <5>2, <5>3, ConstantsType
      <4> QED
        BY <1>1, <2>5, <4>2, <4>3 DEF Within
    <3>4. now >= t
      BY <2>2
    <3> QED
      BY <1>1, <2>3, <2>5, <3>2, <3>3, <3>4
  <2> QED
    BY <2>4, <2>5
<1> QED
  BY <1>2, <1>3

\* A new limiter is no fuller than none.
LEMMA WithinGetLimiter ==
    ASSUME ShortStall, Held, Within, NEW g \in Handlers, NEW p \in IPs, GetLimiter(g, p)
    PROVE  Within'
<1>1. PICK i \in Limiters :
        /\ \/ limiters[p] # None /\ i = limiters[p].limiter /\ UNCHANGED bucket
           \/ /\ limiters[p] = None /\ Unreferenced(i)
              /\ bucket' = [bucket EXCEPT ![i] = NewLimiter]
        /\ limiters' = [limiters EXCEPT ![p] = [limiter |-> i, lastSeen |-> now]]
        /\ now' = now /\ served' = served /\ before' = before
  BY DEF GetLimiter
<1>2. [limiter |-> i, lastSeen |-> now] # None
  BY NoneAssumption DEF Held, TypeOK, Entry
<1> SUFFICES ASSUME NEW ip \in IPs, NEW t \in 0..now
             PROVE  IF limiters'[ip] = None
                      THEN Cost * Admitted(ip, t) + Capacity <= Most(now - t)
                      ELSE LET c == bucket'[limiters'[ip].limiter] IN
                            \/ c.last < t /\ Admitted(ip, t) = 0
                            \/ c.last >= t /\ Cost * Admitted(ip, t) + c.tokens <= Most(c.last - t)
  BY <1>1 DEF Within, Most, Admitted
<1>3. CASE ip # p
  <2>1. limiters'[ip] = limiters[ip]
    BY <1>1, <1>3 DEF Held, TypeOK
  <2>2. limiters[ip] # None => bucket'[limiters[ip].limiter] = bucket[limiters[ip].limiter]
    BY <1>1, EntryType DEF Held, TypeOK, Unreferenced
  <2> QED
    BY <2>1, <2>2 DEF Within
<1>4. CASE ip = p
  <2>1. limiters'[ip] # None /\ limiters'[ip].limiter = i
    BY <1>1, <1>2, <1>4 DEF Held, TypeOK
  <2>2. CASE limiters[ip] # None
    BY <1>1, <1>4, <2>1, <2>2 DEF Within
  <2>3. CASE limiters[ip] = None
    <3>1. bucket'[i].tokens = Capacity /\ bucket'[i].last = now /\ now >= t
      BY <1>1, <1>4, <2>3 DEF Held, TypeOK, NewLimiter, Time
    <3>2. Cost * Admitted(ip, t) + Capacity <= Most(now - t)
      BY <2>3 DEF Within
    <3> QED
      BY <2>1, <3>1, <3>2
  <2> QED
    BY <2>2, <2>3
<1> QED
  BY <1>3, <1>4

\* What is evicted has rested, so what it had left is forgiven.
LEMMA WithinCleanup ==
    ASSUME ShortStall, Held, Within, Cleanup
    PROVE  Within'
<1>1. now' = now /\ bucket' = bucket /\ served' = served /\ before' = before
  BY DEF Cleanup
<1> SUFFICES ASSUME NEW ip \in IPs, NEW t \in 0..now
             PROVE  IF limiters'[ip] = None
                      THEN Cost * Admitted(ip, t) + Capacity <= Most(now - t)
                      ELSE LET c == bucket[limiters'[ip].limiter] IN
                            \/ c.last < t /\ Admitted(ip, t) = 0
                            \/ c.last >= t /\ Cost * Admitted(ip, t) + c.tokens <= Most(c.last - t)
  BY <1>1 DEF Within, Most, Admitted
<1>2. CASE limiters'[ip] = limiters[ip]
  BY <1>2 DEF Within
<1>3. CASE limiters'[ip] # limiters[ip]
  <2> DEFINE b == bucket[limiters[ip].limiter]
             c == Cost * Admitted(ip, t)
  <2>1. limiters'[ip] = None /\ limiters[ip] # None /\ IsIdle(limiters[ip])
    BY <1>3 DEF Cleanup
  <2>2. /\ b.tokens \in Nat /\ b.last \in Nat /\ now \in Nat
        /\ now - b.last >= Pause /\ b.last <= now
    BY <2>1, EntryType, EvictedIsFree, ConstantsType
  <2>3. c \in Int
    BY RoomType DEF Held
  <2>4. c + Capacity <= Most(now - t)
    <3>1. now - t \in Nat
      BY <2>2
    <3>2. CASE b.last < t /\ Admitted(ip, t) = 0
      <4>1. c = 0
        BY <3>2, ConstantsType
      <4>2. Most(now - t) \in Nat /\ Most(now - t) >= Capacity
        BY <3>1, MostGrows
      <4> HIDE DEF c
      <4> QED
        BY <4>1, <4>2, ConstantsType
    <3>3. CASE b.last >= t /\ c + b.tokens <= Most(b.last - t)
      <4>1. b.last - t \in Nat /\ now - t >= b.last - t /\ now - t >= (b.last - t) + Pause
        BY <2>2, <3>3, PauseType
      <4>2. Most(b.last - t) + Capacity <= Most(now - t) /\ Most(b.last - t) \in Nat
            /\ Most(now - t) \in Nat
        BY <3>1, <4>1, MostGrows
      <4> HIDE DEF c, b
      <4> QED
        BY <2>2, <2>3, <3>3, <4>2, ConstantsType
    <3> QED
      BY <2>1, <3>2, <3>3 DEF Within
  <2> QED
    BY <2>1, <2>4
<1> QED
  BY <1>2, <1>3

\* With a rate too slow to fill a bucket in the idle time, an IP gets what burst and
\* rate yield and, once for each pause in which its limiter can be evicted, what the
\* eviction forgives.
THEOREM AllowanceWithEvictionsHolds == ShortStall => (Spec => []AllowanceWithEvictions)
<1> SUFFICES ASSUME ShortStall PROVE Spec => []AllowanceWithEvictions
  OBVIOUS
<1>1. Init => Held /\ Within
  BY HeldInit, WithinInit
<1>2. Held /\ Within /\ [Next]_vars => Held' /\ Within'
  <2> SUFFICES ASSUME Held, Within, [Next]_vars PROVE Within'
    BY HeldStep
  <2>1. CASE UNCHANGED vars
    BY <2>1 DEF vars, Within, Most, Admitted
  <2> QED
    BY <2>1, WithinTick, WithinAllow, WithinGetLimiter, WithinCleanup DEF Next
<1>3. Held /\ Within => AllowanceWithEvictions
  <2> SUFFICES ASSUME Held, Within, NEW ip \in IPs, NEW t \in 0..now
               PROVE  Cost * Admitted(ip, t) <= Most(now - t)
    BY DEF AllowanceWithEvictions, Most
  <2> DEFINE b == bucket[limiters[ip].limiter]
             c == Cost * Admitted(ip, t)
  <2>1. now \in Nat /\ now - t \in Nat /\ c \in Int
    BY RoomType DEF Held, TypeOK, Time
  <2>2. Most(now - t) \in Nat
    <3>1. now - t \in Nat
      BY <2>1
    <3> QED
      BY <3>1, MostGrows
  <2>3. CASE limiters[ip] = None
    <3>1. c + Capacity <= Most(now - t)
      BY <2>3 DEF Within
    <3> HIDE DEF c
    <3> QED
      BY <2>1, <2>2, <3>1, ConstantsType DEF c
  <2>4. CASE limiters[ip] # None
    <3>1. b.tokens \in Nat /\ b.last \in Nat /\ b.last <= now
      BY <2>4, EntryType, ConstantsType
    <3>2. CASE b.last < t /\ Admitted(ip, t) = 0
      <4>1. c = 0
        BY <3>2, ConstantsType
      <4> QED
        BY <2>2, <4>1
    <3>3. CASE b.last >= t /\ c + b.tokens <= Most(b.last - t)
      <4>1. b.last - t \in Nat /\ now - t >= b.last - t
        BY <2>1, <3>1, <3>3
      <4>2. Most(b.last - t) <= Most(now - t) /\ Most(b.last - t) \in Nat
        BY <2>1, <4>1, MostGrows
      <4>3. c <= Most(now - t)
        <5> HIDE DEF c, b
        <5> QED
          BY <2>1, <2>2, <3>1, <3>3, <4>2
      <4> QED
        BY <4>3
    <3> QED
      BY <2>4, <3>2, <3>3 DEF Within
  <2> QED
    BY <2>3, <2>4
<1> QED
  BY <1>1, <1>2, <1>3, PTL DEF Spec

-----------------------------------------------------------------------------
(* Idle times that fill a bucket *)

\* The rate fills a bucket in the idle time less a stall, so it fills it in more.
LEMMA FillsUp ==
    ASSUME FullWhenIdle, NEW d \in Nat, d >= Idle - MaxStall
    PROVE  Refill * d >= Capacity
<1> DEFINE e == Idle - MaxStall
<1>1. Refill \in Nat /\ e \in Int /\ Capacity \in Nat
  BY ConstantsType
<1>2. Refill * e >= Capacity
  BY DEF FullWhenIdle
<1> HIDE DEF e
<1>3. d - e \in Nat
  BY <1>1 DEF e
<1>4. Refill * (d - e) \in Nat /\ Refill * e \in Int
  BY <1>1, <1>3
<1>5. Refill * d = Refill * e + Refill * (d - e)
  BY <1>1
<1> QED
  BY <1>1, <1>2, <1>4, <1>5

\* A stall leaves room for filling, and eviction then forgives nothing.
LEMMA NothingForgiven == FullWhenIdle => ShortStall /\ Forgiven = 0
<1> SUFFICES ASSUME FullWhenIdle PROVE ShortStall /\ Forgiven = 0
  OBVIOUS
<1>1. ShortStall
  <2> SUFFICES ASSUME MaxStall >= Idle PROVE FALSE
    BY ConstantsType DEF ShortStall
  <2>1. Refill * 0 >= Capacity
    BY FillsUp, ConstantsType
  <2> QED
    BY <2>1, ConstantsType
<1>2. Pause \in Nat /\ Pause >= Idle - MaxStall
  BY <1>1, PauseType, ConstantsType DEF Pause
<1>3. Refill * Pause >= Capacity /\ Refill * Pause \in Nat
  BY <1>1, <1>2, FillsUp, PauseType
<1> QED
  BY <1>1, <1>3, ConstantsType DEF Forgiven

\* In any stretch of time an IP gets no more than its burst and what the rate
\* yields, if the idle time fills a bucket.
THEOREM AllowanceHolds == FullWhenIdle => (Spec => []Allowance)
<1> SUFFICES ASSUME FullWhenIdle PROVE Spec => []Allowance
  OBVIOUS
<1>1. TypeOK /\ AllowanceWithEvictions => Allowance
  <2> SUFFICES ASSUME TypeOK, AllowanceWithEvictions, NEW ip \in IPs, NEW t \in 0..now
               PROVE  Cost * Admitted(ip, t) <= Capacity + Refill * (now - t)
    BY DEF Allowance
  <2> DEFINE n == (now - t) \div Pause
  <2>1. n \in Int /\ Refill * (now - t) \in Int
    BY NothingForgiven, PauseType, ConstantsType, RoomType DEF TypeOK, Time
  <2>2. Cost * Admitted(ip, t) <= Capacity + Refill * (now - t) + Forgiven * n
    BY DEF AllowanceWithEvictions
  <2>3. Forgiven * n = 0
    <3> HIDE DEF n
    <3> QED
      BY <2>1, NothingForgiven
  <2> QED
    BY <2>1, <2>2, <2>3, ConstantsType
<1> QED
  BY <1>1, TypeCorrect, AllowanceWithEvictionsHolds, NothingForgiven, PTL

-----------------------------------------------------------------------------
(* The token bucket *)

\* A limiter in the map was filled or drawn from no earlier than its IP was last
\* let through.
UsedOK ==
    \A ip \in IPs :
        /\ used[ip] <= now
        /\ limiters[ip] # None => used[ip] <= bucket[limiters[ip].limiter].last

LEMMA UsedInit == Init => UsedOK
  BY DEF Init, UsedOK

LEMMA UsedStep ==
    ASSUME Held, UsedOK, [Next]_vars
    PROVE  UsedOK'
<1>1. now \in Nat /\ \A ip \in IPs : used[ip] \in Nat
  BY ConstantsType DEF Held, TypeOK, Time
<1>2. ASSUME NEW g \in Handlers, Allow(g) PROVE UsedOK'
  <2> DEFINE i == call[g].limiter
             p == call[g].ip
  <2>1. /\ p \in IPs /\ i \in Limiters /\ now' = now /\ limiters' = limiters
        /\ limiters[p] # None /\ limiters[p].limiter = i
    BY <1>2 DEF Allow, Held, TypeOK, Call, CallsOK
  <2>2. CASE UNCHANGED <<bucket, used>>
    BY <2>1, <2>2 DEF UsedOK
  <2>3. CASE /\ bucket' = [bucket EXCEPT ![i] = [tokens |-> Tokens(i) - Cost, last |-> now]]
             /\ used' = [used EXCEPT ![p] = now]
    <3> SUFFICES ASSUME NEW ip \in IPs
                 PROVE  /\ used'[ip] <= now
                        /\ limiters[ip] # None => used'[ip] <= bucket'[limiters[ip].limiter].last
      BY <2>1 DEF UsedOK
    <3>1. CASE ip = p
      <4>1. used'[p] = now /\ bucket'[i].last = now
        BY <2>1, <2>3 DEF Held, TypeOK
      <4> QED
        BY <1>1, <2>1, <3>1, <4>1
    <3>2. CASE ip # p
      <4>1. used'[ip] = used[ip]
        BY <2>1, <2>3, <3>2 DEF Held, TypeOK
      <4>2. ASSUME limiters[ip] # None PROVE bucket'[limiters[ip].limiter] = bucket[limiters[ip].limiter]
        <5>1. limiters[ip].limiter \in Limiters /\ limiters[ip].limiter # i
          BY <2>1, <3>2, <4>2 DEF Held, TypeOK, Entry, EntriesOK
        <5> QED
          BY <2>3, <5>1 DEF Held, TypeOK
      <4> QED
        BY <4>1, <4>2 DEF UsedOK
    <3> QED
      BY <3>1, <3>2
  <2> QED
    BY <1>2, <2>2, <2>3 DEF Allow
<1>3. ASSUME NEW g \in Handlers, NEW p \in IPs, GetLimiter(g, p) PROVE UsedOK'
  <2>1. PICK i \in Limiters :
        /\ \/ limiters[p] # None /\ i = limiters[p].limiter /\ UNCHANGED bucket
           \/ /\ limiters[p] = None /\ Unreferenced(i)
              /\ bucket' = [bucket EXCEPT ![i] = NewLimiter]
        /\ limiters' = [limiters EXCEPT ![p] = [limiter |-> i, lastSeen |-> now]]
        /\ now' = now /\ used' = used
    BY <1>3 DEF GetLimiter
  <2> SUFFICES ASSUME NEW ip \in IPs, limiters'[ip] # None
               PROVE  used[ip] <= bucket'[limiters'[ip].limiter].last
    BY <2>1 DEF UsedOK
  <2>0. limiters'[ip] # None
    OBVIOUS
  <2>2. CASE ip = p /\ limiters[p] = None
    <3>1. limiters'[p].limiter = i /\ bucket'[i].last = now
      BY <2>1, <2>2 DEF Held, TypeOK, NewLimiter
    <3> QED
      BY <2>2, <3>1 DEF UsedOK
  <2>3. CASE ip = p /\ limiters[p] # None
    <3>1. limiters'[p].limiter = limiters[p].limiter /\ bucket' = bucket
      BY <2>1, <2>3 DEF Held, TypeOK
    <3> QED
      BY <2>3, <3>1 DEF UsedOK
  <2>4. CASE ip # p
    <3>1. limiters'[ip] = limiters[ip]
      BY <2>1, <2>4 DEF Held, TypeOK
    <3>2. bucket'[limiters[ip].limiter] = bucket[limiters[ip].limiter]
      BY <2>1, <2>0, <3>1, EntryType DEF Held, TypeOK, Unreferenced
    <3> QED
      BY <3>1, <3>2, <2>0 DEF UsedOK
  <2> QED
    BY <2>2, <2>3, <2>4
<1>4. CASE Cleanup
  <2>1. \A ip \in IPs : limiters'[ip] # None => limiters'[ip] = limiters[ip]
    BY <1>4 DEF Cleanup, Held, TypeOK
  <2> QED
    BY <1>4, <2>1 DEF Cleanup, UsedOK
<1>5. CASE Tick
  <2>1. now' = now + 1 /\ UNCHANGED <<limiters, bucket, used>>
    BY <1>5 DEF Tick
  <2> QED
    BY <1>1, <2>1 DEF UsedOK
<1>6. CASE UNCHANGED vars
  BY <1>6 DEF vars, UsedOK
<1> QED
  BY <1>2, <1>3, <1>4, <1>5, <1>6 DEF Next

\* An entry is evicted when its IP is at rest, and its bucket is full from then on.
LEMMA CleanupForgets ==
    ASSUME ShortStall, Held, UsedOK, Cleanup
    PROVE  \E rested \in SUBSET IPs :
               /\ \A ip \in rested : now - used[ip] >= Pause
               /\ Level' = [ip \in IPs |-> IF ip \in rested THEN Capacity ELSE Level[ip]]
<1> DEFINE rested == {ip \in IPs : limiters[ip] # None /\ IsIdle(limiters[ip])}
<1>1. now' = now /\ bucket' = bucket
  BY DEF Cleanup
<1>2. ASSUME NEW ip \in rested PROVE now - used[ip] >= Pause
  <2> DEFINE b == bucket[limiters[ip].limiter]
  <2>1. ip \in IPs /\ limiters[ip] # None /\ IsIdle(limiters[ip])
    OBVIOUS
  <2>2. now - b.last >= Pause /\ b.last \in Nat
    BY <2>1, EntryType, EvictedIsFree
  <2>3. used[ip] <= b.last
    BY <2>1 DEF UsedOK
  <2>4. now \in Nat /\ used[ip] \in Nat /\ Pause \in Nat
    BY <2>1, PauseType, ConstantsType DEF Held, TypeOK, Time
  <2> HIDE DEF b
  <2> QED
    BY <2>2, <2>3, <2>4
<1>3. ASSUME NEW ip \in IPs
      PROVE  Level'[ip] = IF ip \in rested THEN Capacity ELSE Level[ip]
  <2>1. CASE ip \in rested
    <3>1. limiters'[ip] = None
      BY <2>1 DEF Cleanup
    <3> QED
      BY <2>1, <3>1, <1>1 DEF Level, Capacity
  <2>2. CASE ip \notin rested
    <3>1. limiters'[ip] = limiters[ip]
      BY <2>2 DEF Cleanup
    <3> QED
      BY <2>2, <3>1, <1>1 DEF Level, Tokens
  <2> QED
    BY <2>1, <2>2
<1>4. Level' = [ip \in IPs |-> IF ip \in rested THEN Capacity ELSE Level[ip]]
  <2> HIDE DEF rested
  <2> QED
    BY <1>3 DEF Level
<1> QED
  BY <1>2, <1>4

\* The map of lazy, evicted and recreated limiters is one token bucket per IP, forgotten
\* at rest, whatever the rate.
THEOREM BucketImplemented == ShortStall => (Spec => ImplementsBucket)
<1> SUFFICES ASSUME ShortStall PROVE Spec => ImplementsBucket
  OBVIOUS
<1>1. Init => Held /\ UsedOK
  BY HeldInit, UsedInit
<1>2. Held /\ UsedOK /\ [Next]_vars => Held' /\ UsedOK'
  BY HeldStep, UsedStep
<1>3. Init => AbstractBucket!Init
  BY InitLevel DEF Init, AbstractBucket!Init
<1>4. Held /\ UsedOK /\ [Next]_vars => [AbstractBucket!Next]_(AbstractBucket!vars)
  <2> SUFFICES ASSUME Held, UsedOK, [Next]_vars
               PROVE  AbstractBucket!Next \/ (now' = now /\ Level' = Level /\ used' = used)
    BY DEF AbstractBucket!vars
  <2>1. ASSUME NEW g \in Handlers, Allow(g)
        PROVE  AbstractBucket!Next \/ (now' = now /\ Level' = Level /\ used' = used)
    <3>1. \/ \E p \in IPs : /\ Level[p] >= Cost /\ Level' = [Level EXCEPT ![p] = @ - Cost]
                           /\ used' = [used EXCEPT ![p] = now]
          \/ Level' = Level /\ used' = used
      BY <2>1, AllowTakesOne
    <3>2. now' = now
      BY <2>1 DEF Allow
    <3> QED
      BY <3>1, <3>2 DEF AbstractBucket!Next, AbstractBucket!Admit
  <2>2. ASSUME NEW g \in Handlers, NEW ip \in IPs, GetLimiter(g, ip)
        PROVE  now' = now /\ Level' = Level /\ used' = used
    BY <2>2, GetLimiterKeepsLevel DEF GetLimiter
  <2>3. CASE Cleanup
    BY <2>3, CleanupForgets DEF Cleanup, AbstractBucket!Next, AbstractBucket!Forget
  <2>4. CASE Tick
    BY <2>4, TickFills DEF Tick, AbstractBucket!Next, AbstractBucket!Pass
  <2>5. CASE UNCHANGED vars
    BY <2>5 DEF vars, Level, Tokens
  <2> QED
    BY <2>1, <2>2, <2>3, <2>4, <2>5 DEF Next
<1> QED
  BY <1>1, <1>2, <1>3, <1>4, PTL DEF Spec, ImplementsBucket, AbstractBucket!Spec
=============================================================================
