----------------------------- MODULE RateLimiter -----------------------------
(***************************************************************************)
(* The per-IP rate limiter of internal/proxy: getLimiter, Allow and the    *)
(* clean-up of idle entries, called by concurrent requests.                *)
(*                                                                         *)
(* A limiter is an object: a handler keeps the one getLimiter returned and *)
(* calls Allow on it after h.mu is released: only time keeps the map from  *)
(* dropping it.  Limiters (golang.org/x/time/rate) fill lazily: tokens are *)
(* as of the last request they let through.                                *)
(***************************************************************************)
EXTENDS Integers, Config

CONSTANTS
    Handlers,   \* requests in flight
    IPs,        \* clientIP
    Limiters,   \* rate.Limiter objects
    Cost,       \* units of a token: a request takes so many
    Refill,     \* units that requests_per_second yields in a tick
    Burst,      \* burst, in requests
    Idle,       \* ticks in the ten minutes after which an entry is evicted
    MaxStall,   \* timing: most ticks between getLimiter and Allow
    MaxTime,    \* bound: the last tick of the model
    None        \* no entry, no call

VARIABLES
    now,        \* time.Now()
    limiters,   \* Handler.limiters
    bucket,     \* the limiters' fields
    call,       \* handler local: between getLimiter and Allow
    served,     \* history: requests let through for each IP
    before,     \* history: requests let through for each IP before each tick
    used        \* history: when the last request of each IP was let through

vars == <<now, limiters, bucket, call, served, before, used>>

ASSUME RateAssumption ==
    /\ ValidRateLimit(Refill, Burst)
    /\ Cost \in Positive
    /\ {Idle, MaxStall, MaxTime} \subseteq Nat

Capacity == Burst * Cost
Time == 0..MaxTime

\* ipLimiter, and the fields of a rate.Limiter.
Entry == [limiter : Limiters, lastSeen : Time]
Bucket == [tokens : 0..Capacity, last : Time]
Call == [ip : IPs, limiter : Limiters, since : Time]

ASSUME NoneAssumption == None \notin Entry \cup Call

TypeOK ==
    /\ now \in Time
    /\ limiters \in [IPs -> Entry \cup {None}]
    /\ bucket \in [Limiters -> Bucket]
    /\ call \in [Handlers -> Call \cup {None}]
    /\ served \in [IPs -> Nat]
    /\ before \in [IPs -> [Time -> Nat]]
    /\ used \in [IPs -> Time]

NewLimiter == [tokens |-> Capacity, last |-> now]

Init ==
    /\ now = 0
    /\ limiters = [ip \in IPs |-> None]
    /\ bucket = [i \in Limiters |-> NewLimiter]
    /\ call = [g \in Handlers |-> None]
    /\ served = [ip \in IPs |-> 0]
    /\ before = [ip \in IPs |-> [t \in Time |-> 0]]
    /\ used = [ip \in IPs |-> 0]

\* Limiter.advance: the tokens of a limiter by now.
Tokens(i) ==
    LET filled == bucket[i].tokens + Refill * (now - bucket[i].last)
    IN IF filled > Capacity THEN Capacity ELSE filled

\* An object the program no longer refers to is one it can allocate.
Unreferenced(i) ==
    /\ \A ip \in IPs : limiters[ip] # None => limiters[ip].limiter # i
    /\ \A g \in Handlers : call[g] # None => call[g].limiter # i

\* Wrong: lastSeen is set when the entry is made and never again.
GetLimiterUnseen(g, ip) ==
    /\ call[g] = None
    /\ \E i \in Limiters :
        /\ \/ limiters[ip] # None /\ i = limiters[ip].limiter /\ UNCHANGED <<bucket, limiters>>
           \/ /\ limiters[ip] = None /\ Unreferenced(i)
              /\ bucket' = [bucket EXCEPT ![i] = NewLimiter]
              /\ limiters' = [limiters EXCEPT ![ip] = [limiter |-> i, lastSeen |-> now]]
        /\ call' = [call EXCEPT ![g] = [ip |-> ip, limiter |-> i, since |-> now]]
    /\ UNCHANGED <<now, served, before, used>>

\* getLimiter, all of it under h.mu.
GetLimiter(g, ip) ==
    /\ call[g] = None
    /\ \E i \in Limiters :
        /\ \/ limiters[ip] # None /\ i = limiters[ip].limiter /\ UNCHANGED bucket
           \/ /\ limiters[ip] = None /\ Unreferenced(i)
              /\ bucket' = [bucket EXCEPT ![i] = NewLimiter]
        /\ limiters' = [limiters EXCEPT ![ip] = [limiter |-> i, lastSeen |-> now]]
        /\ call' = [call EXCEPT ![g] = [ip |-> ip, limiter |-> i, since |-> now]]
    /\ UNCHANGED <<now, served, before, used>>

\* Wrong: a request that is refused takes what is left.
AllowDrains(g) ==
    /\ call[g] # None
    /\ LET i == call[g].limiter
           rest == IF Tokens(i) >= Cost THEN Tokens(i) - Cost ELSE 0
       IN /\ bucket' = [bucket EXCEPT ![i] = [tokens |-> rest, last |-> now]]
          /\ served' = IF Tokens(i) >= Cost
                       THEN [served EXCEPT ![call[g].ip] = @ + 1] ELSE served
          /\ used' = IF Tokens(i) >= Cost
                     THEN [used EXCEPT ![call[g].ip] = now] ELSE used
    /\ call' = [call EXCEPT ![g] = None]
    /\ UNCHANGED <<now, limiters, before>>

\* Wrong: a part of what a request costs is enough.
AllowInPart(g) ==
    /\ call[g] # None
    /\ LET i == call[g].limiter IN
        \/ /\ Tokens(i) > 0
           /\ bucket' = [bucket EXCEPT ![i] = [tokens |-> Tokens(i) - Cost, last |-> now]]
           /\ served' = [served EXCEPT ![call[g].ip] = @ + 1]
           /\ used' = [used EXCEPT ![call[g].ip] = now]
        \/ /\ Tokens(i) = 0
           /\ UNCHANGED <<bucket, served, used>>
    /\ call' = [call EXCEPT ![g] = None]
    /\ UNCHANGED <<now, limiters, before>>

\* Allow: a challenge is issued, or a 429 and the limiter is as it was.
Allow(g) ==
    /\ call[g] # None
    /\ LET i == call[g].limiter IN
        \/ /\ Tokens(i) >= Cost
           /\ bucket' = [bucket EXCEPT ![i] = [tokens |-> Tokens(i) - Cost, last |-> now]]
           /\ served' = [served EXCEPT ![call[g].ip] = @ + 1]
           /\ used' = [used EXCEPT ![call[g].ip] = now]
        \/ /\ Tokens(i) < Cost
           /\ UNCHANGED <<bucket, served, used>>
    /\ call' = [call EXCEPT ![g] = None]
    /\ UNCHANGED <<now, limiters, before>>

\* Wrong: the cutoff is the time of the clean-up itself.
IsIdleEarly(e) == e.lastSeen < now

\* lastSeen is before the cutoff.
IsIdle(e) == e.lastSeen < now - Idle

\* One tick of the clean-up's ticker.
Cleanup ==
    /\ limiters' = [ip \in IPs |->
            IF limiters[ip] # None /\ IsIdle(limiters[ip]) THEN None ELSE limiters[ip]]
    /\ UNCHANGED <<now, bucket, call, served, before, used>>

\* No goroutine stands still for longer between two adjacent calls.
Tick ==
    /\ now < MaxTime
    /\ \A g \in Handlers : call[g] # None => now - call[g].since < MaxStall
    /\ now' = now + 1
    /\ before' = [ip \in IPs |-> [before[ip] EXCEPT ![now'] = served[ip]]]
    /\ UNCHANGED <<limiters, bucket, call, served, used>>

Next ==
    \/ \E g \in Handlers : Allow(g) \/ \E ip \in IPs : GetLimiter(g, ip)
    \/ Cleanup \/ Tick

Spec == Init /\ [][Next]_vars

-----------------------------------------------------------------------------
(* Properties *)

\* No goroutine stands still for the ten minutes after which an entry is idle.
ShortStall == MaxStall <= Idle

\* What the rate and the burst must be for an evicted limiter to be a full one:
\* ten idle minutes fill it.  README's 5 per second and 10 satisfy it; validate()
\* does not ask for it.
FullWhenIdle == Refill * (Idle - MaxStall) >= Capacity

\* The ticks between the last use of a limiter and its eviction, at least, and what
\* an eviction forgives at most: what the rate has not put back in that time.
Pause == Idle + 1 - MaxStall
Forgiven == IF Capacity > Refill * Pause THEN Capacity - Refill * Pause ELSE 0

\* The requests let through for an IP from the start of tick t to now.
Admitted(ip, t) == served[ip] - before[ip][t]

\* In any stretch of time an IP gets no more than its burst and what the rate
\* yields, whichever limiters served it: eviction gives nothing away.
Allowance ==
    \A ip \in IPs, t \in 0..now : Cost * Admitted(ip, t) <= Capacity + Refill * (now - t)

\* Whatever the rate: what eviction gives away is what it forgives, once for each
\* pause that the stretch of time has room for.
AllowanceWithEvictions ==
    \A ip \in IPs, t \in 0..now :
        Cost * Admitted(ip, t) <=
            Capacity + Refill * (now - t) + Forgiven * ((now - t) \div Pause)

Refused(g) == call[g] # None /\ call'[g] = None /\ UNCHANGED served

\* A 429 is earned: some stretch up to now has no room for one more request of
\* that IP.  Requests of others, refused requests and clean-ups cost it nothing.
RefusalEarned ==
    [][\A g \in Handlers : Refused(g) =>
          \E t \in 0..now : Cost * (Admitted(call[g].ip, t) + 1) > Capacity + Refill * (now - t)]_vars

\* The bucket of each IP: a full one where there is no entry.
Level ==
    [ip \in IPs |-> IF limiters[ip] = None THEN Capacity ELSE Tokens(limiters[ip].limiter)]

AbstractBucket == INSTANCE TokenBucket WITH clock <- now, level <- Level

\* The map of lazy limiters implements one token bucket per IP, and an entry is
\* created, shared and evicted unseen but for this: a bucket may be full early
\* after a pause.  Where FullWhenIdle holds it is full by then anyway.
ImplementsBucket == AbstractBucket!Spec
=============================================================================
