---------------------------- MODULE SlidingWindow ---------------------------
(***************************************************************************)
(* The counting half of rate limiting (RateLimitStore): one sorted set of  *)
(* timestamps per bucket in Redis, changed by two Lua scripts and a DEL,   *)
(* and reached over a connection that can fail. Redis is external: TIME,   *)
(* ZADD, ZREMRANGEBYSCORE, PEXPIRE and DEL are modelled by what the        *)
(* scripts rely on. An outage cuts the connection; the data survives it.   *)
(*                                                                         *)
(* Time is relative: a sorted set is a function from its members to the    *)
(* age of their score, now - score, and an expiry is the time left, so     *)
(* that the state space is finite and time can go on for ever.             *)
(***************************************************************************)
EXTENDS Naturals, FiniteSets, Functions, FiniteSetsExt

CONSTANTS
    Tiers,       \* the kinds of bucket
    LimitOf,     \* [Tiers -> Nat]: events a window of the tier has room for
    WindowOf,    \* [Tiers -> Nat]: its length in milliseconds
    BucketKeys,  \* the keys in use, numbered: a sequence of <<tier, identity>>
    Second       \* 1000 ms in the model's unit of time

ASSUME WindowAssumption ==
    /\ LimitOf \in [Tiers -> Nat \ {0}] /\ WindowOf \in [Tiers -> Nat \ {0}]
    /\ \A i \in DOMAIN BucketKeys : BucketKeys[i][1] \in Tiers
    /\ Second \in Nat \ {0}

VARIABLES
    zset,        \* each bucket: member -> age, up to the window
    ttl,         \* each bucket: time left to its PEXPIRE deadline
    up           \* Redis answers

windowVars == <<zset, ttl, up>>

Buckets  == DOMAIN BucketKeys
TierOf   == [k \in Buckets |-> BucketKeys[k][1]]
Window   == [k \in Buckets |-> WindowOf[TierOf[k]]]
Limit    == [k \in Buckets |-> LimitOf[TierOf[k]]]
NoEvents == <<>>            \* the sorted set that does not exist

WindowInit ==
    /\ zset = [k \in Buckets |-> NoEvents]
    /\ ttl = [k \in Buckets |-> 0]

-----------------------------------------------------------------------------
(***************************** the two scripts *****************************)

\* ZREMRANGEBYSCORE key 0 (now - window): what is left is in the window.
Live(k) == {m \in DOMAIN zset[k] : zset[k][m] < Window[k]}

Trimmed(k) == Restrict(zset[k], Live(k))

\* The wait until the oldest event leaves the window. It has not left yet, so
\* the floor of zero never bites.
RetryAfterMs(k) == Window[k] - Max({zset[k][m] : m \in Live(k)})

\* What consume() and peek() return (RateLimitResult).
Result(allowed, count, retry, degraded) ==
    [allowed |-> allowed, count |-> count, retryAfterMs |-> retry,
     degraded |-> degraded]

\* SLIDING_WINDOW: its answer, the set and the deadline that it leaves.
Full(k) == Cardinality(Live(k)) >= Limit[k]

ConsumeAnswer(k) ==
    IF Full(k) THEN Result(FALSE, Cardinality(Live(k)), RetryAfterMs(k), FALSE)
               ELSE Result(TRUE, Cardinality(Live(k)) + 1, 0, FALSE)

Consumed(k, member) ==
    IF Full(k) THEN Trimmed(k)
    ELSE [m \in Live(k) \cup {member} |-> IF m = member THEN 0 ELSE zset[k][m]]

\* A key is there up to and including its deadline.
Refreshed(k) == IF Full(k) THEN ttl[k] ELSE Window[k] + 1

SlidingWindowScript(k, member) ==
    /\ zset' = [zset EXCEPT ![k] = Consumed(k, member)]
    /\ ttl' = [ttl EXCEPT ![k] = Refreshed(k)]

\* PEEK_WINDOW trims as well, and records nothing.
PeekAnswer(k) ==
    Result(~Full(k), Cardinality(Live(k)),
           IF Live(k) = {} THEN 0 ELSE RetryAfterMs(k), FALSE)

PeekWindowScript(k) ==
    /\ zset' = [zset EXCEPT ![k] = Trimmed(k)]
    /\ UNCHANGED ttl

\* reset(): DEL.
Del(keys) ==
    /\ zset' = [k \in Buckets |-> IF k \in keys THEN NoEvents ELSE zset[k]]
    /\ ttl' = [k \in Buckets |-> IF k \in keys THEN 0 ELSE ttl[k]]

\* The answers without Redis: consume() follows the policy (RATE_LIMIT_FAIL_OPEN,
\* one for a deployment; here each call may go either way, which covers both),
\* peek() reports.
ConsumeDegraded(failOpen) == Result(failOpen, 0, IF failOpen THEN 0 ELSE Second, TRUE)
PeekDegraded == Result(TRUE, 0, 0, TRUE)

-----------------------------------------------------------------------------
(******************************* environment *******************************)

Less(n)       == IF n = 0 THEN 0 ELSE n - 1
Older(n, max) == IF n < max THEN n + 1 ELSE max

\* A unit of time passes; a bucket past its deadline is gone.
Tick ==
    /\ ttl' = [k \in Buckets |-> Less(ttl[k])]
    /\ zset' = [k \in Buckets |->
                 IF ttl'[k] = 0 THEN NoEvents
                 ELSE [m \in DOMAIN zset[k] |-> Older(zset[k][m], Window[k])]]
    /\ UNCHANGED up

\* The connection is lost, or established again.
Connection ==
    /\ up' = ~up
    /\ UNCHANGED <<zset, ttl>>
=============================================================================
