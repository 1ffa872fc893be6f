---------------------------- MODULE RateLimiter ----------------------------
(***************************************************************************)
(* The rate limiter of src/grpc/interceptors/rate_limiter.rs: a fixed      *)
(* window counter in Redis (a Lua script, so one atomic step) and, when    *)
(* Redis is absent or fails, a token bucket in memory behind a mutex.      *)
(* AdmissionLayer and RateLimitLayer both call it, with different keys.    *)
(*                                                                         *)
(* Time is counted in ticks and kept as ages, each saturating where the    *)
(* code no longer tells values apart, so no clock has to be bounded.       *)
(***************************************************************************)
EXTENDS Integers

CONSTANTS
    Budget,      \* budget keys: a method, or "admit", and a fingerprint
    Limit,       \* policy.limit
    Window,      \* policy.window_seconds, in ticks
    Setting,     \* whether run may have connected to Redis at start-up
    MaxBurst,    \* bound: calls for one key within one tick
    MaxFailed    \* bound: calls for one key between Redis and the fallback

ASSUME RateLimiterAssumption ==
    /\ Limit \in Nat \ {0}
    /\ Window \in Nat \ {0}
    /\ Setting \subseteq BOOLEAN
    /\ MaxBurst \in Nat
    /\ MaxFailed \in Nat

VARIABLES
    hasRedis,    \* there is a connection to Redis; never changes
    bucket,      \* the token bucket of each key; tokens = -1: not in the map
    counter,     \* the Redis counter of each key; count = 0: no such key
    failed,      \* calls that got an error from Redis and go on in memory
    burst,       \* observation: calls within this tick
    allowed,     \* observation: calls each store allowed, now and in n ticks before
    quiet        \* observation: ticks since a call was last allowed

limiter == <<hasRedis, bucket, counter, failed, burst, allowed, quiet>>

-----------------------------------------------------------------------------
Least(a, b) == IF a < b THEN a ELSE b

\* Where calls are counted, and how far back a window reaches.
Store == {"redis", "memory"}
Back == 0..Window - 1

\* Ages beyond two windows and counts beyond the limit are all alike.
Older(age) == Least(age + 1, 2 * Window)
Counted(n) == Least(n + 1, Limit + 1)

NoBucket == [tokens |-> -1, age |-> 0]
FullBucket == [tokens |-> Limit, age |-> 0]
NoCounter == [count |-> 0, ttl |-> 0]

LimiterInit ==
    /\ hasRedis \in Setting
    /\ bucket = [k \in Budget |-> NoBucket]
    /\ counter = [k \in Budget |-> NoCounter]
    /\ failed = [k \in Budget |-> 0]
    /\ burst = [k \in Budget |-> 0]
    /\ allowed = [k \in Budget |-> [by \in Store |-> [n \in Back |-> 0]]]
    /\ quiet = [k \in Budget |-> 2 * Window]

-----------------------------------------------------------------------------
\* What a call leaves of the observations.
Observe(k, by, allow) ==
    /\ allowed' = IF allow THEN [allowed EXCEPT ![k][by] = [n \in Back |-> @[n] + 1]]
                  ELSE allowed
    /\ quiet' = IF allow THEN [quiet EXCEPT ![k] = 0] ELSE quiet

Call(k) ==
    /\ burst[k] < MaxBurst
    /\ burst' = [burst EXCEPT ![k] = @ + 1]

\* The Lua script: INCR, and EXPIRE when the key is new.
Script(k) ==
    [count |-> Counted(counter[k].count),
     ttl   |-> IF counter[k].count = 0 THEN Window ELSE counter[k].ttl]

CheckRedis(k) ==
    /\ hasRedis
    /\ Call(k)
    /\ counter' = [counter EXCEPT ![k] = Script(k)]
    /\ Observe(k, "redis", Script(k).count <= Limit)
    /\ UNCHANGED <<hasRedis, bucket, failed>>

\* Redis reports an error; the script may have run all the same.
RedisFails(k) ==
    /\ hasRedis
    /\ failed[k] < MaxFailed
    /\ Call(k)
    /\ counter' \in {counter, [counter EXCEPT ![k] = Script(k)]}
    /\ failed' = [failed EXCEPT ![k] = @ + 1]
    /\ UNCHANGED <<hasRedis, bucket, allowed, quiet>>

-----------------------------------------------------------------------------
\* The tokens an age is worth, rounded down.
Earned(age) == (age * Limit) \div Window

\* Mutant of Refill: a call that earns nothing restarts the clock.
Refill_RestartsClock(b) ==
    IF b.tokens = -1 THEN FullBucket
    ELSE IF b.age >= Window THEN FullBucket
    ELSE IF b.tokens < Limit
         THEN [tokens |-> Least(b.tokens + Earned(b.age), Limit), age |-> 0]
         ELSE b

\* Mutant of Refill: the refill does not restart the clock.
Refill_KeepsClock(b) ==
    IF b.tokens = -1 THEN FullBucket
    ELSE IF b.age >= Window THEN FullBucket
    ELSE IF b.tokens < Limit
         THEN [b EXCEPT !.tokens = Least(@ + Earned(b.age), Limit)]
         ELSE b

\* A new bucket is full.  An old one is filled after a whole window, and
\* otherwise earns what its age is worth; less than a token keeps its age.
Refill(b) ==
    IF b.tokens = -1 THEN FullBucket
    ELSE IF b.age >= Window THEN FullBucket
    ELSE IF b.tokens < Limit /\ Earned(b.age) > 0
         THEN [tokens |-> Least(b.tokens + Earned(b.age), Limit), age |-> 0]
         ELSE b

TokenLeft(b) == Refill(b).tokens > 0
SpendToken(b) == IF b.tokens > 0 THEN [b EXCEPT !.tokens = @ - 1] ELSE b

\* InMemoryRateLimiter::check, reached directly or after a failure of Redis.
CheckInMemory(k) ==
    /\ \/ hasRedis /\ failed[k] > 0
          /\ failed' = [failed EXCEPT ![k] = @ - 1] /\ UNCHANGED burst
       \/ ~hasRedis /\ Call(k) /\ UNCHANGED failed
    /\ bucket' = [bucket EXCEPT ![k] = SpendToken(Refill(@))]
    /\ Observe(k, "memory", TokenLeft(bucket[k]))
    /\ UNCHANGED <<hasRedis, counter>>

\* Mutant of Stale: buckets are dropped after half a window.
Stale_TooEarly(b) == b.age >= Window \div 2

\* cleanup drops the buckets nobody refilled for two windows.
Stale(b) == b.age >= 2 * Window

Cleanup ==
    /\ bucket' = [k \in Budget |-> IF Stale(bucket[k]) THEN NoBucket ELSE bucket[k]]
    /\ bucket' # bucket
    /\ UNCHANGED <<hasRedis, counter, failed, burst, allowed, quiet>>

-----------------------------------------------------------------------------
Aged(b) == IF b.tokens = -1 THEN b ELSE [b EXCEPT !.age = Older(@)]
Expired(c) == IF c.ttl <= 1 THEN NoCounter ELSE [c EXCEPT !.ttl = @ - 1]

Tick ==
    /\ bucket' = [k \in Budget |-> Aged(bucket[k])]
    /\ counter' = [k \in Budget |-> Expired(counter[k])]
    /\ burst' = [k \in Budget |-> 0]
    /\ allowed' = [k \in Budget |-> [by \in Store |->
                     [n \in Back |-> IF n = 0 THEN 0 ELSE allowed[k][by][n - 1]]]]
    /\ quiet' = [k \in Budget |-> Older(quiet[k])]
    /\ UNCHANGED <<hasRedis, failed>>

LimiterNext ==
    \/ \E k \in Budget : CheckRedis(k) \/ RedisFails(k) \/ CheckInMemory(k)
    \/ Cleanup
    \/ Tick

LimiterSpec == LimiterInit /\ [][LimiterNext]_limiter

-----------------------------------------------------------------------------
(***************************************************************************)
(* Types: a bucket never holds more tokens than its capacity, and a key in *)
(* Redis never outlives its window.                                        *)
(***************************************************************************)
LimiterTypeOK ==
    /\ hasRedis \in BOOLEAN
    /\ bucket \in [Budget -> [tokens : -1..Limit, age : 0..2 * Window]]
    /\ counter \in [Budget -> [count : 0..Limit + 1, ttl : 0..Window]]
    /\ failed \in [Budget -> 0..MaxFailed]
    /\ burst \in [Budget -> 0..MaxBurst]
    /\ allowed \in [Budget -> [Store -> [Back -> Nat]]]
    /\ quiet \in [Budget -> 0..2 * Window]

(***************************************************************************)
(* What the limiter guarantees: within any span of one window, each of its *)
(* two budgets allows fewer than twice the limit.  Redis allows up to the  *)
(* limit on either side of an expiry; the bucket a burst of the limit, and *)
(* what it earns.  A failing Redis adds the second budget to the first.    *)
(***************************************************************************)
WindowBound ==
    \A k \in Budget, by \in Store : allowed[k][by][Window - 1] < 2 * Limit

\* An empty bucket has earned since a call was last allowed, or longer.
BucketAccount ==
    \A k \in Budget : bucket[k].tokens = 0 => bucket[k].age >= quiet[k]

\* A counter expires before its key could be quiet for two windows: what Redis
\* counts is allowed, or will be decided in memory, where a refusal means that
\* a call was allowed within the last window.
CounterAccount ==
    \A k \in Budget : counter[k].count > 0 =>
        /\ counter[k].ttl >= 1
        /\ failed[k] = 0 => quiet[k] < 2 * Window - counter[k].ttl

\* What a bucket is worth when a token costs Window and a tick earns Limit; a
\* full one, or one that is not in the map, no more than the limit.
Worth(b) ==
    IF b.tokens = -1 THEN Limit * Window
    ELSE Least(b.tokens * Window + b.age * Limit, Limit * Window)

\* Between two calls a bucket is never full; what it has paid for and what it is
\* worth is what a full bucket is worth and what it has earned.
MemoryAccount ==
    \A k \in Budget :
        /\ bucket[k].tokens < Limit
        /\ \A n \in Back : allowed[k]["memory"][n] * Window + Worth(bucket[k])
                                <= Limit * Window + n * Limit

\* The calls that Redis allowed since the present counter began are at most what
\* it counts, and those of its first tick are at least one; all others in the
\* window belong to one counter, whose first call is no longer in it.
RedisAccount ==
    \A k \in Budget :
        LET calls == allowed[k]["redis"]
            most == Least(counter[k].count, Limit)
            begin == Window - counter[k].ttl
        IN  /\ \A n \in Back \ {0} : calls[n - 1] <= calls[n]
            /\ counter[k].count = 0 => calls[0] = 0 /\ calls[Window - 1] < Limit
            /\ counter[k].count > 0 =>
                  /\ calls[begin] <= most
                  /\ begin > 0 => calls[begin - 1] < most
                  /\ calls[Window - 1] - calls[begin] < Limit

(***************************************************************************)
(* The invariant of the limiter, and inductive: no bucket above its limit, *)
(* no budget that stays spent, no window that allows more than it may.     *)
(***************************************************************************)
LimiterInv ==
    /\ LimiterTypeOK
    /\ BucketAccount
    /\ CounterAccount
    /\ MemoryAccount
    /\ RedisAccount
    /\ WindowBound

(***************************************************************************)
(* Nobody is shut out for good: a client that was allowed nothing for two  *)
(* windows (one, without Redis) is allowed its next call by whichever of   *)
(* the two budgets decides it, however often it was refused meanwhile and  *)
(* although calls the fallback decided may have been counted by Redis too. *)
(***************************************************************************)
NoStarvation ==
    \A k \in Budget :
        failed[k] = 0 /\ quiet[k] >= (IF hasRedis THEN 2 ELSE 1) * Window =>
            /\ hasRedis => Script(k).count <= Limit
            /\ TokenLeft(bucket[k])

(***************************************************************************)
(* cleanup is invisible: a bucket it forgets is one the next check would   *)
(* have filled anyway, so forgetting grants no extra call.                 *)
(***************************************************************************)
CleanupGrantsNothing ==
    [][\A k \in Budget :
         bucket'[k] = NoBucket => Refill(bucket[k]) = FullBucket]_limiter
=============================================================================
