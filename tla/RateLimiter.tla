------------------------------ MODULE RateLimiter ------------------------------
(***************************************************************************)
(* The rate limiter, for one bucket and one client.  Each worker process   *)
(* counts the client's requests in Redis; from its first Redis error on    *)
(* it counts them in its own memory, for the rest of its life.  INCR and   *)
(* EXPIRE are two calls, and a worker can die between them.  Time is cut   *)
(* into ticks; a window is Window ticks long.                              *)
(***************************************************************************)
EXTENDS Integers, FiniteSetsExt, Functions

CONSTANTS
    Workers,
    Limit,      \* requests a window admits
    Window      \* ticks in a window

ASSUME RateLimiterConstants == Limit \in Nat \ {0} /\ Window \in Nat \ {0}

VARIABLES
    counter,    \* external: the Redis key
    worker,     \* [Workers -> WorkerRow]
    admitted,   \* requests Redis admitted, by age: history
    leaked      \* a worker died, or lost Redis, before its EXPIRE: history

rateVars == <<counter, worker, admitted, leaked>>

NoExpiry == -1
Ages == 0..(Window - 1)

\* ttl is NoExpiry on a key that was never given one.
NoCounter == [count |-> 0, ttl |-> NoExpiry]

\* hits: what _local_buckets holds, by age.  expiring: between INCR and EXPIRE.
FreshWorker == [degraded |-> FALSE, expiring |-> FALSE, hits |-> [a \in Ages |-> 0]]

Total(f) == SumFunctionOnSet(f, Ages)

OneMore(f) == [f EXCEPT ![0] = @ + 1]

RateInit ==
    /\ counter = NoCounter
    /\ worker = [w \in Workers |-> FreshWorker]
    /\ admitted = [a \in Ages |-> 0]
    /\ leaked = FALSE

-----------------------------------------------------------------------------
\* Mutant: the request that fills the window is let through as well.
AdmitsOneMore(count) == count <= Limit + 1

Admits(count) == count <= Limit

\* _check_redis; the first request of a window still has to set its expiry.
\* The count is capped: what is beyond the limit is refused all the same.
CheckRedis(w) ==
    LET count == counter.count + 1
    IN  /\ ~worker[w].degraded /\ ~worker[w].expiring
        /\ counter' = [counter EXCEPT !.count = Min({count, Limit + 2})]
        /\ worker' = [worker EXCEPT ![w].expiring = count = 1]
        /\ admitted' = IF Admits(count) THEN OneMore(admitted) ELSE admitted
        /\ UNCHANGED leaked

\* Mutant: only a counter at its limit is given an expiry.
ExpiresFullWindows(c) == IF c.count >= Limit THEN [c EXCEPT !.ttl = Window] ELSE c

\* EXPIRE of a key that is gone does nothing.
WithExpiry(c) == IF c.count > 0 THEN [c EXCEPT !.ttl = Window] ELSE c

SetExpiry(w) ==
    /\ worker[w].expiring
    /\ counter' = WithExpiry(counter)
    /\ worker' = [worker EXCEPT ![w].expiring = FALSE]
    /\ UNCHANGED <<admitted, leaked>>

MayPassLocally(w) == Total(worker[w].hits) < Limit

\* _check_local: the request is counted only if it is let through.
LocalHits(w) == IF MayPassLocally(w) THEN OneMore(worker[w].hits) ELSE worker[w].hits

CheckLocal(w) ==
    /\ worker[w].degraded
    /\ worker' = [worker EXCEPT ![w].hits = LocalHits(w)]
    /\ UNCHANGED <<counter, admitted, leaked>>

\* A call to Redis fails, before the INCR or before the EXPIRE: this very
\* request is checked locally.
RedisFails(w) ==
    /\ ~worker[w].degraded
    /\ worker' = [worker EXCEPT ![w] = [degraded |-> TRUE, expiring |-> FALSE,
                                        hits |-> LocalHits(w)]]
    /\ leaked' = (leaked \/ worker[w].expiring)
    /\ UNCHANGED <<counter, admitted>>

\* The process restarts, with an empty memory and a new try at Redis.
WorkerRestarts(w) ==
    /\ worker[w] # FreshWorker
    /\ worker' = [worker EXCEPT ![w] = FreshWorker]
    /\ leaked' = (leaked \/ worker[w].expiring)
    /\ UNCHANGED <<counter, admitted>>

Aged(f) == [a \in Ages |-> IF a = 0 THEN 0 ELSE f[a - 1]]

\* External: time passes, and Redis drops a key that has expired.
RateTick ==
    /\ counter' = IF counter.ttl = 1 THEN NoCounter
                  ELSE IF counter.ttl = NoExpiry THEN counter
                  ELSE [counter EXCEPT !.ttl = @ - 1]
    /\ worker' = [w \in Workers |-> [worker[w] EXCEPT !.hits = Aged(@)]]
    /\ admitted' = Aged(admitted)
    /\ leaked' = (leaked /\ counter' # NoCounter)

RateNext ==
    \/ \E w \in Workers :
          \/ CheckRedis(w) \/ SetExpiry(w) \/ CheckLocal(w)
          \/ RedisFails(w) \/ WorkerRestarts(w)
    \/ RateTick

RateSpec == RateInit /\ [][RateNext]_rateVars

-----------------------------------------------------------------------------
(* However the workers interleave, Redis admits at most twice the limit in *)
(* any stretch of one window (the NOTE in _check_redis), and a worker on   *)
(* its own at most the limit.                                              *)
AdmitsAtMostTwice ==
    /\ Total(admitted) <= 2 * Limit
    /\ \A w \in Workers : Total(worker[w].hits) <= Limit

(* A counter that blocks the client will expire: it has an expiry, or the  *)
(* worker that will set it is on its way.  Only a worker that died or lost *)
(* Redis between the two calls leaves a counter that blocks for ever.      *)
BlocksEnd ==
    counter.count > 0 =>
        \/ counter.ttl # NoExpiry
        \/ \E w \in Workers : worker[w].expiring
        \/ leaked

=============================================================================
