------------------------- MODULE LoginThrottleProofs ------------------------
(***************************************************************************)
(* The limiter and the login throttle for any limits, windows, instances,  *)
(* requests and faults: a window counts what it admitted once and nothing  *)
(* else, a wait is honest, and a failure goes uncounted only if it over-   *)
(* lapped another or an outage.                                            *)
(*                                                                         *)
(* The windows hold members, not requests, and a member is forgotten by    *)
(* all but the sorted set once its command is answered. The invariant says *)
(* that there is, for each bucket, a bijection between the requests it     *)
(* admitted and its live members, of the same ages, under which a command  *)
(* that may be sent again keeps its own member (Counts). A new member is   *)
(* nobody's, since ids and counters only grow (Drawn).                     *)
(***************************************************************************)
EXTENDS LoginThrottle, FiniteSetTheorems, SequenceTheorems, WellFoundedInduction, TLAPS

-----------------------------------------------------------------------------
(* What a request may rely on.                                             *)

\* What is set, and what is not yet, where a request is.
Stage(q) ==
    /\ q.pc \in {"idle", "peekAccount", "peekAddress", "clear", "issue", "done"} => q.left = {}
    /\ q.pc = "client" => q.left = {"client"}
    /\ q.pc = "route" => q.left = {"route"}
    /\ q.pc = "verify" => q.left \subseteq Failures
    /\ q.pc # "done" => q.answer = "none" /\ q.wait = 0
    /\ q.pc \in {"idle", "client"} => q.headers = "none" /\ ~q.unmetered
    /\ q.pc \in {"route", "peekAccount", "peekAddress", "verify", "clear", "issue"} =>
          q.headers # "none"
    /\ q.pc \notin {"peekAddress", "done"} => DOMAIN q.refused = {}
    /\ q.pc = "peekAddress" =>
          /\ DOMAIN q.refused \subseteq {"account"}
          /\ "account" \in DOMAIN q.refused => ~q.account.allowed /\ ~q.account.degraded
    /\ q.headers = "degraded" <=> q.unmetered /\ q.answer # "dead"
    /\ q.answer \notin {"none", "dead"} => q.headers # "none"

\* The tiers that have not counted a request, and may yet.
Ahead(q) ==
    (q.left \ DOMAIN q.lost) \cup
    CASE q.pc = "idle"   -> Tiers
      [] q.pc = "client" -> {"route"} \cup Failures
      [] q.pc \in {"route", "peekAccount", "peekAddress"} -> Failures
      [] OTHER -> {}

NotYet == \A p \in Requests : \A t \in Ahead(req[p]) : admitted[p][t] = Past[p][t]

\* There is room in the bucket, and Redis is there to take it.
Room(k) == up /\ ~Full(k)

\* What a login saw when it looked still holds, or it is excused.
Look(p) ==
    LET q == req[p]
    IN  /\ q.pc = "peekAddress" =>
              \/ q.account.degraded \/ ~q.account.allowed
              \/ "account" \in q.excused \/ Room(Key(p, "account"))
        /\ q.pc = "verify" => \A t \in Failures \ (q.counted \cup q.excused) :
              t \in q.left \ DOMAIN q.lost /\ Room(Key(p, t))
        /\ q.answer = "unauthorized" => Failures \ q.counted \subseteq q.excused

-----------------------------------------------------------------------------
(* What a window holds.                                                    *)

\* An id that some instance has used, with a number it has come to.
Drawn(m) ==
    /\ m \in Nat \X Nat /\ m[1] <= drawn
    /\ \A r \in Replicas : inst[r] = m[1] => m[2] <= counter[r]

Members ==
    /\ \A r, s \in Replicas : inst[r] = inst[s] => r = s
    /\ \A k \in Buckets : \A m \in DOMAIN zset[k] : Drawn(m)
    /\ \A p \in Requests : \A t \in DOMAIN req[p].lost : Drawn(req[p].lost[t])
    /\ \A p, q \in Requests : \A t \in DOMAIN req[p].lost \cap DOMAIN req[q].lost :
          req[p].lost[t] = req[q].lost[t] => p = q

\* A key lives as long as what is live in it.
Lasting == \A k \in Buckets : \A m \in Live(k) : zset[k][m] + ttl[k] > Window[k]

\* The requests that a bucket has admitted in the last window.
Admitted(k) ==
    {p \in Requests : Key(p, TierOf[k]) = k /\ admitted[p][TierOf[k]] < Window[k]}

\* f tells which member stands for which of these.
Represents(f, k) ==
    /\ f \in Bijection(Admitted(k), Live(k))
    /\ \A p \in Admitted(k) : zset[k][f[p]] = admitted[p][TierOf[k]]
    /\ \A p \in Requests : TierOf[k] \in DOMAIN req[p].lost /\ Key(p, TierOf[k]) = k =>
          \A q \in Admitted(k) : f[q] = req[p].lost[TierOf[k]] <=> q = p

Exact(k) ==
    /\ \E f \in Bijection(Admitted(k), Live(k)) : Represents(f, k)
    /\ Cardinality(Live(k)) <= Limit[k]

Counts == \A k \in Buckets : Exact(k)

-----------------------------------------------------------------------------
(* What a wait is worth.                                                   *)

\* Of what was counted s units ago enough is gone, or will be w units from now.
Ends(k, s, w) ==
    \/ Cardinality(Before(k, s)) < Limit[k]
    \/ \E m \in Before(k, s) : Window[k] - zset[k][m] <= w

\* It is all there for longer than w units.
Lasts(k, s, w) ==
    /\ Cardinality(Before(k, s)) >= Limit[k]
    /\ \A m \in Before(k, s) : Window[k] - zset[k][m] > w

Refusals(p) ==
    LET q == req[p]
    IN  \A t \in DOMAIN q.refused :
          /\ q.refused[t] = 0 => Full(Key(p, t))
          /\ q.pc = "peekAddress" => Ends(Key(p, t), q.refused[t], q.account.retryAfterMs)
          /\ q.pc = "done" => Ends(Key(p, t), q.refused[t], q.wait)
          /\ q.pc = "done" /\ q.wait >= Second /\ t \in Guards =>
                Lasts(Key(p, t), q.refused[t], q.wait - Second)

ThrottleInv ==
    /\ TypeOK
    /\ \A p \in Requests : Stage(req[p]) /\ Look(p) /\ Refusals(p)
    /\ NotYet /\ Members /\ Lasting /\ Counts

-----------------------------------------------------------------------------
(* The constants.                                                          *)

LEMMA BucketFacts ==
    ASSUME NEW k \in Buckets
    PROVE  TierOf[k] \in Tiers /\ Window[k] \in Nat \ {0} /\ Limit[k] \in Nat \ {0}
BY WindowAssumption DEF Buckets, TierOf, Window, Limit

LEMMA LimitsAre == LimitOf \in [Tiers -> Nat]
BY WindowAssumption

\* A key is a bucket of its tier, and its text is the request's.
LEMMA KeyFacts ==
    ASSUME NEW p \in Requests, NEW t \in Tiers
    PROVE  /\ Key(p, t) \in Buckets /\ BucketKeys[Key(p, t)] = KeyText(p, t)
           /\ TierOf[Key(p, t)] = t /\ Past[p][t] = Window[Key(p, t)]
<1>1. \E k \in Buckets : BucketKeys[k] = KeyText(p, t)
    BY ThrottleAssumption
<1>2. Key(p, t) \in Buckets /\ BucketKeys[Key(p, t)] = KeyText(p, t)
    BY <1>1 DEF Key, BucketOf
<1>3. KeyText(p, t)[1] = t
    BY DEF KeyText, AccountKey
<1> QED
    BY <1>2, <1>3 DEF TierOf, Past

LEMMA Names ==
    /\ Tiers = {"client", "route", "account", "address"}
    /\ Guards = {"client", "route"} /\ Failures = {"account", "address"}
    /\ IsFiniteSet(Requests)
BY ThrottleAssumption DEF Guards, Failures

LEMMA ReplicaFacts == \A p \in Requests : Replica[p] \in Replicas
BY ThrottleAssumption DEF Replica

-----------------------------------------------------------------------------
(* Numbers.                                                                *)

\* Every set of natural numbers has a least one.
LEMMA LeastNumber ==
    ASSUME NEW T \in SUBSET Nat, T # {}
    PROVE  \E x \in T : \A y \in T : x <= y
<1> DEFINE Below == {ss \in Nat \X Nat : ss[1] < ss[2]}
<1>1. IsWellFoundedOn(Below, Nat)
    BY NatLessThanWellFounded DEF OpToRel
<1>2. PICK x \in T : \A y \in T : ~(<<y, x>> \in Below)
    BY <1>1, WFMin
<1>3. ASSUME NEW y \in T PROVE ~(y < x)
  <2>1. x \in Nat /\ y \in Nat
      OBVIOUS
  <2>2. y < x => <<y, x>> \in Below
      BY <2>1
  <2> QED
      BY <2>2, <1>2
<1> QED
    BY <1>3

\* Rounding up to whole seconds keeps the wait, and adds less than a second.
LEMMA RoundingUp ==
    ASSUME NEW ms \in Nat
    PROVE  /\ RetryAfterSeconds(ms) \in Nat /\ RetryAfterSeconds(ms) >= ms
           /\ ms > 0 => RetryAfterSeconds(ms) < ms + Second
<1> DEFINE n == (ms + Second - 1) \div Second
<1>1. Second \in Nat \ {0}
    BY WindowAssumption
<1>2. n \in Nat /\ Second * n >= ms /\ Second * n <= ms + Second - 1
    BY <1>1
<1>3. ms > 0 => n >= 1
  <2>1. ms > 0 => Second * n > 0
      BY <1>1, <1>2
  <2>2. n = 0 => Second * n = 0
      BY <1>1
  <2> QED
      BY <1>2, <2>1, <2>2
<1> HIDE DEF n
<1>4. Max({1, n}) = IF n >= 1 THEN n ELSE 1
    BY <1>2 DEF Max
<1>5. RetryAfterSeconds(ms) = Second * (IF n >= 1 THEN n ELSE 1)
    BY <1>4 DEF RetryAfterSeconds, n
<1>6. CASE n >= 1
    BY <1>1, <1>2, <1>5, <1>6
<1>7. CASE n = 0
  <2>1. ms = 0 /\ RetryAfterSeconds(ms) = Second
      BY <1>1, <1>2, <1>3, <1>5, <1>7
  <2> QED
      BY <1>1, <2>1
<1> QED
    BY <1>2, <1>6, <1>7

\* The longer of two waits is one of them.
LEMMA LongerWait ==
    ASSUME NEW a \in Nat, NEW b \in Nat
    PROVE  Max({a, b}) \in Nat /\ Max({a, b}) >= a /\ Max({a, b}) >= b
BY DEF Max

-----------------------------------------------------------------------------
(* What the scripts, a DEL and time do to a bucket.                        *)

\* Nothing that counts has changed.
Same(k) == Live(k)' = Live(k) /\ \A m \in Live(k) : zset'[k][m] = zset[k][m]

LEMMA LiveFacts ==
    ASSUME TypeOK, NEW k \in Buckets
    PROVE  /\ Live(k) \subseteq DOMAIN zset[k]
           /\ \A m \in Live(k) : zset[k][m] \in Nat /\ zset[k][m] < Window[k]
BY BucketFacts DEF TypeOK, Live

LEMMA SameBucket ==
    ASSUME NEW k \in Buckets, zset'[k] = zset[k]
    PROVE  Same(k)
BY DEF Same, Live

LEMMA SameMeans ==
    ASSUME NEW k \in Buckets, Same(k)
    PROVE  /\ Full(k)' <=> Full(k)
           /\ \A s \in Nat : Before(k, s)' = Before(k, s)
           /\ \A s, w \in Nat : Ends(k, s, w)' <=> Ends(k, s, w)
           /\ \A s, w \in Nat : Lasts(k, s, w)' <=> Lasts(k, s, w)
<1>1. Full(k)' <=> Full(k)
    BY DEF Same, Full
<1>2. ASSUME NEW s \in Nat PROVE Before(k, s)' = Before(k, s)
    BY DEF Same, Before
<1>3. ASSUME NEW s \in Nat, NEW m \in Before(k, s) PROVE zset'[k][m] = zset[k][m]
    BY <1>3 DEF Same, Before
<1>4. ASSUME NEW s \in Nat, NEW w \in Nat PROVE Ends(k, s, w)' <=> Ends(k, s, w)
    BY <1>2, <1>3 DEF Ends
<1>5. ASSUME NEW s \in Nat, NEW w \in Nat PROVE Lasts(k, s, w)' <=> Lasts(k, s, w)
    BY <1>2, <1>3 DEF Lasts
<1> QED
    BY <1>1, <1>2, <1>4, <1>5

\* SLIDING_WINDOW: a full bucket stays as it is, another takes the member.
LEMMA ScriptEffect ==
    ASSUME TypeOK, NEW k \in Buckets, NEW member, SlidingWindowScript(k, member)
    PROVE  /\ \A j \in Buckets \ {k} : zset'[j] = zset[j] /\ ttl'[j] = ttl[j]
           /\ DOMAIN zset'[k] \subseteq Live(k) \cup {member}
           /\ Full(k) => Same(k) /\ ttl'[k] = ttl[k] /\ DOMAIN zset'[k] = Live(k)
           /\ ~Full(k) =>
                 /\ Live(k)' = Live(k) \cup {member} /\ ttl'[k] = Window[k] + 1
                 /\ \A m \in Live(k)' : zset'[k][m] = IF m = member THEN 0 ELSE zset[k][m]
<1>1. zset' = [zset EXCEPT ![k] = Consumed(k, member)] /\ ttl' = [ttl EXCEPT ![k] = Refreshed(k)]
    BY DEF SlidingWindowScript
<1>2. DOMAIN zset = Buckets /\ DOMAIN ttl = Buckets
    BY DEF TypeOK
<1>3. zset'[k] = Consumed(k, member) /\ ttl'[k] = Refreshed(k)
    BY <1>1, <1>2
<1>4. \A j \in Buckets \ {k} : zset'[j] = zset[j] /\ ttl'[j] = ttl[j]
    BY <1>1, <1>2
<1>5. CASE Full(k)
  <2>1. zset'[k] = [m \in Live(k) |-> zset[k][m]]
      BY <1>3, <1>5 DEF Consumed, Trimmed, Restrict
  <2>2. Live(k)' = Live(k)
      BY <2>1 DEF Live
  <2> QED
      BY <1>3, <1>4, <1>5, <2>1, <2>2 DEF Same, Refreshed
<1>6. CASE ~Full(k)
  <2>1. zset'[k] = [m \in Live(k) \cup {member} |-> IF m = member THEN 0 ELSE zset[k][m]]
      BY <1>3, <1>6 DEF Consumed
  <2>2. Live(k)' = Live(k) \cup {member}
      BY <2>1, BucketFacts DEF Live
  <2> QED
      BY <1>3, <1>4, <1>6, <2>1, <2>2 DEF Refreshed
<1> QED
    BY <1>5, <1>6

\* PEEK_WINDOW changes nothing that counts.
LEMMA PeekEffect ==
    ASSUME TypeOK, NEW k \in Buckets, PeekWindowScript(k)
    PROVE  /\ \A j \in Buckets : Same(j) /\ ttl'[j] = ttl[j] /\ DOMAIN zset'[j] \subseteq DOMAIN zset[j]
           /\ zset' = [zset EXCEPT ![k] = [m \in Live(k) |-> zset[k][m]]]
<1>1. DOMAIN zset = Buckets
    BY DEF TypeOK
<1>2. zset' = [zset EXCEPT ![k] = [m \in Live(k) |-> zset[k][m]]] /\ ttl' = ttl
    BY DEF PeekWindowScript, Trimmed, Restrict
<1>3. Same(k) /\ DOMAIN zset'[k] \subseteq DOMAIN zset[k]
    BY <1>1, <1>2 DEF Same, Live
<1>4. \A j \in Buckets \ {k} : zset'[j] = zset[j]
    BY <1>1, <1>2
<1> QED
    BY <1>2, <1>3, <1>4, SameBucket

\* Time: what is live grows older until it leaves, and the key stays as long.
LEMMA TickEffect ==
    ASSUME TypeOK, Lasting, Tick
    PROVE  \A k \in Buckets :
              /\ Live(k)' = {m \in Live(k) : zset[k][m] + 1 < Window[k]}
              /\ \A m \in Live(k)' : zset'[k][m] = zset[k][m] + 1
              /\ DOMAIN zset'[k] \subseteq DOMAIN zset[k]
              /\ ttl'[k] = Less(ttl[k])
<1> TAKE k \in Buckets
<1> USE BucketFacts
<1>1. ttl'[k] = Less(ttl[k]) /\ ttl[k] \in Nat
    BY DEF Tick, TypeOK
<1>2. \A m \in DOMAIN zset[k] : zset[k][m] \in 0 .. Window[k]
    BY DEF TypeOK
<1>3. CASE ttl'[k] = 0
  <2>1. DOMAIN zset'[k] = {}
      BY <1>3 DEF Tick, NoEvents
  <2>2. ASSUME NEW m \in Live(k) PROVE zset[k][m] + 1 >= Window[k]
      BY <1>1, <1>2, <1>3, <2>2 DEF Lasting, Live, Less
  <2>3. Live(k)' = {}
      BY <2>1 DEF Live
  <2>4. {m \in Live(k) : zset[k][m] + 1 < Window[k]} = {}
      BY <1>2, <2>2 DEF Live
  <2> QED
      BY <1>1, <2>1, <2>3, <2>4
<1>4. CASE ttl'[k] # 0
  <2>1. zset'[k] = [m \in DOMAIN zset[k] |-> Older(zset[k][m], Window[k])]
      BY <1>4 DEF Tick
  <2>2. Live(k)' = {m \in Live(k) : zset[k][m] + 1 < Window[k]}
      BY <1>2, <2>1 DEF Live, Older
  <2> QED
      BY <1>1, <1>2, <2>1, <2>2 DEF Live, Older
<1> QED
    BY <1>3, <1>4

\* DEL empties its buckets and leaves the others.
LEMMA DelEffect ==
    ASSUME TypeOK, NEW keys \in SUBSET Buckets, Del(keys)
    PROVE  /\ \A k \in keys : zset'[k] = NoEvents /\ Live(k)' = {}
           /\ \A k \in Buckets \ keys : zset'[k] = zset[k] /\ ttl'[k] = ttl[k]
BY DEF Del, Live, NoEvents

-----------------------------------------------------------------------------
(* Requests: what a step makes of one.                                     *)

\* What TypeOK says of a request.
RequestOK(q) ==
    /\ q \in Request(DOMAIN q.lost, DOMAIN q.refused)
    /\ DOMAIN q.lost \subseteq q.left /\ DOMAIN q.refused \subseteq Tiers

Answers == {"none", "served", "tooMany", "throttled", "unavailable",
            "unauthorized", "token", "error", "dead"}

Results == [allowed : BOOLEAN, count : Nat, retryAfterMs : Nat, degraded : BOOLEAN]

LEMMA RequestsAreOK ==
    ASSUME TypeOK, NEW p \in Requests
    PROVE  RequestOK(req[p])
BY DEF TypeOK, RequestOK

LEMMA Fields ==
    ASSUME NEW q, RequestOK(q)
    PROVE  /\ q.left \subseteq Tiers /\ q.headers \in {"none", "degraded"} \cup Guards
           /\ q.pc \in {"idle", "client", "route", "peekAccount", "peekAddress", "verify", "clear",
                       "issue", "done"}
           /\ q.account \in Results /\ q.answer \in Answers /\ q.wait \in Nat
           /\ q.unmetered \in BOOLEAN /\ q.counted \subseteq Failures /\ q.excused \subseteq Failures
           /\ \A t \in DOMAIN q.lost : q.lost[t] \in Nat \X Nat
           /\ \A t \in DOMAIN q.refused : q.refused[t] \in Nat
BY DEF RequestOK, Request, Answers, Results

LEMMA AnsweredOK ==
    ASSUME NEW q, RequestOK(q), NEW answer \in Answers
    PROVE  LET a == Answered(q, answer)
           IN  /\ RequestOK(a) /\ a.pc = "done" /\ a.answer = answer /\ a.left = {}
               /\ a.headers = q.headers /\ a.wait = q.wait /\ a.refused = q.refused
               /\ DOMAIN a.lost = {} /\ a.account = PeekDegraded /\ a.unmetered = q.unmetered
               /\ a.counted = q.counted /\ a.excused = q.excused
<1> DEFINE a == Answered(q, answer)
<1>1. DOMAIN <<>> = {} /\ <<>> \in [{} -> Nat \X Nat]
    OBVIOUS
<1>2. /\ a.pc = "done" /\ a.answer = answer /\ a.left = {} /\ a.lost = <<>>
      /\ a.headers = q.headers /\ a.wait = q.wait /\ a.refused = q.refused
      /\ a.account = PeekDegraded /\ a.unmetered = q.unmetered
      /\ a.counted = q.counted /\ a.excused = q.excused
    BY DEF RequestOK, Request, Answered
<1>3. a \in Request({}, DOMAIN q.refused)
    BY <1>1 DEF RequestOK, Request, Answered, PeekDegraded, Result, Answers
<1> QED
    BY <1>1, <1>2, <1>3 DEF RequestOK

LEMMA TooManyOK ==
    ASSUME NEW q, RequestOK(q), NEW answer \in Answers, NEW ms \in Nat
    PROVE  LET a == TooMany(q, answer, ms)
           IN  /\ RequestOK(a) /\ a.pc = "done" /\ a.answer = answer /\ a.left = {}
               /\ a.headers = q.headers /\ a.wait = RetryAfterSeconds(ms) /\ a.refused = q.refused
               /\ DOMAIN a.lost = {} /\ a.unmetered = q.unmetered
               /\ a.counted = q.counted /\ a.excused = q.excused
BY AnsweredOK, RoundingUp DEF RequestOK, Request, TooMany

LEMMA RefusalOK ==
    ASSUME NEW q, RequestOK(q), NEW tier \in Tiers, NEW res \in Results
    PROVE  LET f == Refusal(q.refused, tier, res)
           IN  /\ f \in [DOMAIN f -> Nat]
               /\ DOMAIN f = DOMAIN q.refused \cup (IF res.allowed \/ res.degraded THEN {} ELSE {tier})
               /\ res.allowed \/ res.degraded => f = q.refused
               /\ ~(res.allowed \/ res.degraded) =>
                     f[tier] = 0 /\ \A t \in DOMAIN q.refused \ {tier} : f[t] = q.refused[t]
BY DEF RequestOK, Request, Refusal, Results

\* A request goes on, or has been through a budget.
LEMMA MovedOK ==
    ASSUME NEW q, RequestOK(q), NEW left \in SUBSET Tiers, DOMAIN q.lost \subseteq left,
           NEW pc \in {"route", "peekAccount"}
    PROVE  RequestOK([q EXCEPT !.pc = pc, !.left = left])
BY DEF RequestOK, Request

LEMMA BudgetedOK ==
    ASSUME NEW q, RequestOK(q), NEW headers \in {"none", "degraded"} \cup Guards, NEW u \in BOOLEAN,
           NEW f, f \in [DOMAIN f -> Nat]
    PROVE  [q EXCEPT !.headers = headers, !.unmetered = u, !.lost = <<>>, !.refused = f]
              \in Request({}, DOMAIN f)
<1>1. <<>> \in [{} -> Nat \X Nat]
    OBVIOUS
<1> QED
    BY <1>1 DEF RequestOK, Request

\* A budget that refused is the only one that did, and its wait is the request's.
LEMMA GuardMoves ==
    ASSUME NEW p \in Requests, NEW q, RequestOK(q), Stage(q),
           NEW tier \in Guards, tier \in q.left, NEW res \in Results
    PROVE  LET a == AfterGuard(p, q, tier, res)
           IN  /\ RequestOK(a) /\ Stage(a) /\ Ahead(a) \subseteq Ahead(q) \ {tier}
               /\ DOMAIN a.lost = {} /\ a.pc \notin {"peekAddress", "verify"}
               /\ a.answer # "unauthorized"
               /\ \A t \in DOMAIN a.refused :
                     /\ t = tier /\ a.refused[t] = 0 /\ ~res.allowed /\ ~res.degraded
                     /\ a.pc = "done" /\ a.wait = RetryAfterSeconds(res.retryAfterMs)
<1>t. tier \in Tiers
    BY Names
<1>r. LET f == Refusal(q.refused, tier, res)
      IN  /\ f \in [DOMAIN f -> Nat]
          /\ DOMAIN f = DOMAIN q.refused \cup (IF res.allowed \/ res.degraded THEN {} ELSE {tier})
          /\ res.allowed \/ res.degraded => f = q.refused
          /\ ~(res.allowed \/ res.degraded) =>
                f[tier] = 0 /\ \A t \in DOMAIN q.refused \ {tier} : f[t] = q.refused[t]
    BY <1>t, RefusalOK
<1> USE Names
<1>1. q.pc = tier /\ q.left = {tier} /\ DOMAIN q.refused = {} /\ q.answer = "none" /\ q.wait = 0
    BY Fields DEF Stage
<1> DEFINE h == [q EXCEPT !.headers = SetHeaders(q, tier, res), !.unmetered = @ \/ res.degraded,
                          !.lost = <<>>, !.refused = Refusal(@, tier, res)]
           a == AfterGuard(p, q, tier, res)
<1>2. DOMAIN <<>> = {} /\ <<>> \in [{} -> Nat \X Nat]
    OBVIOUS
<1>3. /\ h.pc = q.pc /\ h.left = q.left /\ h.lost = <<>> /\ h.account = q.account
      /\ h.headers = SetHeaders(q, tier, res) /\ h.answer = q.answer /\ h.wait = q.wait
      /\ h.refused = Refusal(q.refused, tier, res) /\ h.unmetered = (q.unmetered \/ res.degraded)
      /\ h.counted = q.counted /\ h.excused = q.excused
    BY DEF RequestOK, Request
<1>4. h.headers \in {"degraded"} \cup Guards /\ (h.headers = "degraded" <=> h.unmetered)
    BY <1>1, <1>3, Fields DEF Stage, SetHeaders, Results
<1>a. /\ h.refused \in [DOMAIN h.refused -> Nat] /\ DOMAIN h.refused \subseteq {tier}
      /\ DOMAIN h.refused # {} => h.refused[tier] = 0 /\ ~res.allowed /\ ~res.degraded
  <2> DEFINE f == Refusal(q.refused, tier, res)
  <2>1. /\ f \in [DOMAIN f -> Nat]
        /\ DOMAIN f = DOMAIN q.refused \cup (IF res.allowed \/ res.degraded THEN {} ELSE {tier})
        /\ ~(res.allowed \/ res.degraded) => f[tier] = 0
      BY <1>r
  <2> QED
      BY <2>1, <1>1, <1>3
<1>5. h \in Request({}, DOMAIN h.refused)
  <2> DEFINE f == Refusal(q.refused, tier, res)
             u == q.unmetered \/ res.degraded
  <2>1. /\ f \in [DOMAIN f -> Nat] /\ u \in BOOLEAN
        /\ SetHeaders(q, tier, res) \in {"none", "degraded"} \cup Guards
      BY <1>a, <1>3, Fields DEF Results, SetHeaders
  <2>2. q \in Request(DOMAIN q.lost, DOMAIN q.refused)
      BY DEF RequestOK
  <2>3. h = [q EXCEPT !.headers = SetHeaders(q, tier, res), !.unmetered = u,
                      !.lost = <<>>, !.refused = f]
      BY <2>2 DEF Request
  <2> HIDE DEF f, u, h
  <2>4. h \in Request({}, DOMAIN f)
      BY <2>1, <2>3, BudgetedOK
  <2> QED
      BY <1>3, <2>4 DEF f
<1>6. RequestOK(h)
    BY <1>2, <1>3, <1>5, <1>a DEF RequestOK
<1>7. \A t \in DOMAIN h.refused : t = tier /\ h.refused[t] = 0 /\ ~res.allowed /\ ~res.degraded
    BY <1>a
<1> HIDE DEF h
<1>8. CASE ~res.allowed
  <2>1. a = TooMany(h, "tooMany", res.retryAfterMs)
      BY <1>8 DEF AfterGuard, h
  <2>2. res.retryAfterMs \in Nat /\ "tooMany" \in Answers
      BY DEF Results, Answers
  <2> QED
      BY <2>1, <2>2, <1>3, <1>4, <1>6, <1>7, TooManyOK DEF Stage, Ahead
<1>9. CASE res.allowed /\ ~IsLogin[p]
  <2>1. a = Answered(h, "served") /\ "served" \in Answers
      BY <1>9 DEF AfterGuard, h, Answers
  <2> QED
      BY <2>1, <1>9, <1>3, <1>4, <1>6, <1>7, AnsweredOK DEF Stage, Ahead
<1>10. CASE res.allowed /\ IsLogin[p] /\ tier = "client"
  <2>1. a = [h EXCEPT !.pc = "route", !.left = {"route"}]
      BY <1>10 DEF AfterGuard, h
  <2>2. /\ a.pc = "route" /\ a.left = {"route"} /\ a.lost = <<>> /\ a.headers = h.headers
        /\ a.answer = "none" /\ a.wait = 0 /\ a.refused = h.refused /\ a.unmetered = h.unmetered
      BY <1>1, <1>3, <1>5, <2>1 DEF Request
  <2>3. RequestOK(a)
    <3>1. {"route"} \in SUBSET Tiers /\ DOMAIN h.lost \subseteq {"route"}
        BY <1>2, <1>3
    <3> HIDE DEF a
    <3> HIDE Names
    <3>2. RequestOK([h EXCEPT !.pc = "route", !.left = {"route"}])
        BY <1>6, <3>1, MovedOK
    <3> QED
        BY <2>1, <3>2
  <2> QED
      BY <2>2, <2>3, <1>1, <1>2, <1>4, <1>7, <1>10 DEF Stage, Ahead, RequestOK
<1>11. CASE res.allowed /\ IsLogin[p] /\ tier = "route"
  <2>1. a = [h EXCEPT !.pc = "peekAccount", !.left = {}]
      BY <1>11 DEF AfterGuard, h
  <2>2. /\ a.pc = "peekAccount" /\ a.left = {} /\ a.lost = <<>> /\ a.headers = h.headers
        /\ a.answer = "none" /\ a.wait = 0 /\ a.refused = h.refused /\ a.unmetered = h.unmetered
      BY <1>1, <1>3, <1>5, <2>1 DEF Request
  <2>3. RequestOK(a)
    <3>1. {} \in SUBSET Tiers /\ DOMAIN h.lost \subseteq {}
        BY <1>2, <1>3
    <3> HIDE DEF a
    <3> HIDE Names
    <3>2. RequestOK([h EXCEPT !.pc = "peekAccount", !.left = {}])
        BY <1>6, <3>1, MovedOK
    <3> QED
        BY <2>1, <3>2
  <2> QED
      BY <2>2, <2>3, <1>1, <1>2, <1>4, <1>7, <1>11 DEF Stage, Ahead, RequestOK
<1> QED
    BY <1>8, <1>9, <1>10, <1>11 DEF Results

\* A call of recordFailure has been answered.
LEMMA FailureMoves ==
    ASSUME NEW q, RequestOK(q), Stage(q), NEW tier \in Failures, tier \in q.left
    PROVE  LET a == AfterFailure(q, tier)
           IN  /\ q.pc = "verify" /\ RequestOK(a) /\ Stage(a) /\ Ahead(a) \subseteq Ahead(q) \ {tier}
               /\ DOMAIN a.lost \subseteq DOMAIN q.lost \ {tier}
               /\ \A t \in DOMAIN a.lost : a.lost[t] = q.lost[t]
               /\ DOMAIN a.refused = {} /\ a.counted = q.counted /\ a.excused = q.excused
               /\ \/ a.pc = "verify" /\ a.answer = "none" /\ a.left = q.left \ {tier}
                                     /\ DOMAIN a.lost = DOMAIN q.lost \ {tier}
                  \/ a.pc = "done" /\ q.left = {tier}
<1> USE Names
<1>1. q.pc = "verify" /\ q.left \subseteq Failures /\ DOMAIN q.refused = {} /\ q.answer = "none" /\ q.wait = 0
    BY Fields DEF Stage
<1> DEFINE a == AfterFailure(q, tier)
<1>2. CASE q.left = {tier}
  <2>1. a = Answered(q, "unauthorized") /\ "unauthorized" \in Answers
      BY <1>2 DEF AfterFailure, Answers
  <2> QED
      BY <2>1, <1>1, <1>2, AnsweredOK, Fields DEF Stage, Ahead
<1>3. CASE q.left # {tier}
  <2> DEFINE kept == [t \in DOMAIN q.lost \ {tier} |-> q.lost[t]]
  <2>1. a = [q EXCEPT !.left = q.left \ {tier}, !.lost = kept]
      BY <1>3 DEF AfterFailure, Restrict, RequestOK, Request
  <2>2. kept \in [DOMAIN q.lost \ {tier} -> Nat \X Nat]
      BY Fields
  <2>3. /\ a.pc = "verify" /\ a.left = q.left \ {tier} /\ a.lost = kept /\ a.headers = q.headers
        /\ a.answer = "none" /\ a.wait = 0 /\ a.refused = q.refused /\ a.unmetered = q.unmetered
        /\ a.counted = q.counted /\ a.excused = q.excused
      BY <1>1, <2>1 DEF RequestOK, Request
  <2>4. DOMAIN kept = DOMAIN q.lost \ {tier} /\ \A t \in DOMAIN kept : kept[t] = q.lost[t]
      OBVIOUS
  <2> HIDE DEF kept
  <2>5. a \in Request(DOMAIN q.lost \ {tier}, DOMAIN q.refused)
    <3>1. q \in Request(DOMAIN q.lost, DOMAIN q.refused) /\ q.left \ {tier} \in SUBSET Tiers
        BY Fields DEF RequestOK
    <3> HIDE Names
    <3> QED
        BY <2>1, <2>2, <3>1 DEF Request
  <2>6. RequestOK(a)
      BY <2>3, <2>4, <2>5 DEF RequestOK
  <2> QED
      BY <2>3, <2>4, <2>6, <1>1 DEF Stage, Ahead, RequestOK
<1> QED
    BY <1>2, <1>3

\* Only the history of its refusals changes.
LEMMA RefusedOK ==
    ASSUME NEW q, RequestOK(q), NEW f, f \in [DOMAIN f -> Nat], DOMAIN f \subseteq Tiers
    PROVE  LET a == [q EXCEPT !.refused = f]
           IN  /\ RequestOK(a) /\ a.refused = f
               /\ a.pc = q.pc /\ a.left = q.left /\ a.lost = q.lost /\ a.account = q.account
               /\ a.headers = q.headers /\ a.answer = q.answer /\ a.wait = q.wait
               /\ a.unmetered = q.unmetered /\ a.counted = q.counted /\ a.excused = q.excused
BY DEF RequestOK, Request

\* Only the history of its failures changes.
LEMMA ExcusedOK ==
    ASSUME NEW q, RequestOK(q), NEW E \in SUBSET Failures
    PROVE  LET a == [q EXCEPT !.excused = @ \cup E]
           IN  /\ RequestOK(a) /\ a.excused = q.excused \cup E
               /\ a.pc = q.pc /\ a.left = q.left /\ a.lost = q.lost /\ a.account = q.account
               /\ a.headers = q.headers /\ a.answer = q.answer /\ a.wait = q.wait
               /\ a.unmetered = q.unmetered /\ a.counted = q.counted /\ a.refused = q.refused
BY DEF RequestOK, Request

LEMMA CountedOK ==
    ASSUME NEW q, RequestOK(q), NEW E \in SUBSET Failures
    PROVE  LET a == [q EXCEPT !.counted = @ \cup E]
           IN  /\ RequestOK(a) /\ a.counted = q.counted \cup E
               /\ a.pc = q.pc /\ a.left = q.left /\ a.lost = q.lost /\ a.account = q.account
               /\ a.headers = q.headers /\ a.answer = q.answer /\ a.wait = q.wait
               /\ a.unmetered = q.unmetered /\ a.excused = q.excused /\ a.refused = q.refused
BY DEF RequestOK, Request

\* A reply is lost.
LEMMA UnansweredOK ==
    ASSUME NEW q, RequestOK(q), NEW tier \in Tiers, tier \in q.left, NEW m \in Nat \X Nat
    PROVE  LET a == Unanswered(q, tier, m)
           IN  /\ RequestOK(a) /\ DOMAIN a.lost = DOMAIN q.lost \cup {tier} /\ a.lost[tier] = m
               /\ \A t \in DOMAIN q.lost \ {tier} : a.lost[t] = q.lost[t]
               /\ a.pc = q.pc /\ a.left = q.left /\ a.account = q.account
               /\ a.headers = q.headers /\ a.answer = q.answer /\ a.wait = q.wait
               /\ a.unmetered = q.unmetered /\ a.counted = q.counted /\ a.excused = q.excused
               /\ a.refused = q.refused
<1> DEFINE a == Unanswered(q, tier, m)
           f == [t \in DOMAIN q.lost \cup {tier} |-> IF t = tier THEN m ELSE q.lost[t]]
<1>1. q \in Request(DOMAIN q.lost, DOMAIN q.refused)
    BY DEF RequestOK
<1>2. a = [q EXCEPT !.lost = f]
    BY <1>1 DEF Unanswered, Request
<1>3. f \in [DOMAIN q.lost \cup {tier} -> Nat \X Nat]
    BY Fields
<1>4. /\ DOMAIN f = DOMAIN q.lost \cup {tier} /\ f[tier] = m
      /\ \A t \in DOMAIN q.lost \ {tier} : f[t] = q.lost[t]
    OBVIOUS
<1> HIDE DEF f
<1>5. a \in Request(DOMAIN q.lost \cup {tier}, DOMAIN q.refused)
    BY <1>1, <1>2, <1>3 DEF Request
<1>6. /\ a.lost = f /\ a.pc = q.pc /\ a.left = q.left /\ a.account = q.account
      /\ a.headers = q.headers /\ a.answer = q.answer /\ a.wait = q.wait
      /\ a.unmetered = q.unmetered /\ a.counted = q.counted /\ a.excused = q.excused
      /\ a.refused = q.refused
    BY <1>1, <1>2 DEF Request
<1>7. RequestOK(a)
    BY <1>4, <1>5, <1>6 DEF RequestOK
<1> QED
    BY <1>4, <1>6, <1>7

\* The account's counter has been read.
LEMMA PeekAccountMoves ==
    ASSUME NEW q, RequestOK(q), Stage(q), q.pc = "peekAccount", NEW res \in Results
    PROVE  LET a == [[q EXCEPT !.refused = Refusal(@, "account", res)]
                        EXCEPT !.pc = "peekAddress", !.account = res]
           IN  /\ RequestOK(a) /\ Stage(a) /\ Ahead(a) = Ahead(q) /\ DOMAIN a.lost = {}
               /\ a.pc = "peekAddress" /\ a.account = res /\ a.answer = "none"
               /\ \A t \in DOMAIN a.refused :
                     t = "account" /\ a.refused[t] = 0 /\ ~res.allowed /\ ~res.degraded
<1> DEFINE f == Refusal(q.refused, "account", res)
           h == [q EXCEPT !.refused = f]
           a == [h EXCEPT !.pc = "peekAddress", !.account = res]
<1>1. DOMAIN q.refused = {} /\ q.left = {} /\ q.answer = "none" /\ q.wait = 0 /\ DOMAIN q.lost = {}
    BY DEF Stage, RequestOK
<1>2. "account" \in Tiers
    BY Names
<1>3. /\ f \in [DOMAIN f -> Nat] /\ DOMAIN f \subseteq {"account"}
      /\ DOMAIN f # {} => f["account"] = 0 /\ ~res.allowed /\ ~res.degraded
  <2>1. /\ f \in [DOMAIN f -> Nat]
        /\ DOMAIN f = DOMAIN q.refused \cup (IF res.allowed \/ res.degraded THEN {} ELSE {"account"})
        /\ ~(res.allowed \/ res.degraded) => f["account"] = 0
      BY <1>2, RefusalOK
  <2> QED
      BY <1>1, <2>1
<1> HIDE DEF f
<1>4. /\ RequestOK(h) /\ h.refused = f /\ h.left = q.left /\ h.lost = q.lost
      /\ h.headers = q.headers /\ h.answer = q.answer /\ h.wait = q.wait /\ h.unmetered = q.unmetered
    BY <1>2, <1>3, RefusedOK
<1> HIDE DEF h
<1>5. /\ RequestOK(a) /\ a.pc = "peekAddress" /\ a.account = res /\ a.refused = f
      /\ a.left = h.left /\ a.lost = h.lost /\ a.headers = h.headers /\ a.answer = h.answer
      /\ a.wait = h.wait /\ a.unmetered = h.unmetered
    BY <1>4 DEF RequestOK, Request, Results
<1> QED
    BY <1>1, <1>3, <1>4, <1>5 DEF Stage, Ahead, h, f

\* Both counters have been read.
LEMMA PeekAddressMoves ==
    ASSUME NEW q, RequestOK(q), Stage(q), q.pc = "peekAddress", NEW res \in Results
    PROVE  LET a == AssertWithinLimits([q EXCEPT !.refused = Refusal(@, "address", res)], q.account, res)
           IN  /\ RequestOK(a) /\ Stage(a) /\ Ahead(a) \subseteq Ahead(q) /\ DOMAIN a.lost = {}
               /\ a.answer # "unauthorized" /\ a.excused = q.excused
               /\ \/ /\ a.pc = "verify" /\ a.left = Failures /\ DOMAIN a.refused = {}
                     /\ q.account.allowed /\ ~q.account.degraded /\ res.allowed /\ ~res.degraded
                  \/ /\ a.pc = "done"
                     /\ \A t \in DOMAIN a.refused :
                           \/ /\ t = "address" /\ a.refused[t] = 0 /\ ~res.allowed /\ ~res.degraded
                              /\ a.wait >= res.retryAfterMs
                           \/ /\ t = "account" /\ t \in DOMAIN q.refused
                              /\ a.refused[t] = q.refused[t] /\ a.wait >= q.account.retryAfterMs
<1> DEFINE f == Refusal(q.refused, "address", res)
           h == [q EXCEPT !.refused = f]
           a == AssertWithinLimits(h, q.account, res)
<1>1. /\ DOMAIN q.refused \subseteq {"account"} /\ q.left = {} /\ q.answer = "none" /\ q.wait = 0
      /\ "account" \in DOMAIN q.refused => ~q.account.allowed /\ ~q.account.degraded
    BY DEF Stage
<1>2. "address" \in Tiers /\ Failures = {"account", "address"} /\ Failures \subseteq Tiers
    BY Names
<1>3. /\ f \in [DOMAIN f -> Nat] /\ DOMAIN f \subseteq Failures
      /\ "account" \in DOMAIN f => "account" \in DOMAIN q.refused /\ f["account"] = q.refused["account"]
      /\ "address" \in DOMAIN f => f["address"] = 0 /\ ~res.allowed /\ ~res.degraded
  <2>1. /\ f \in [DOMAIN f -> Nat]
        /\ DOMAIN f = DOMAIN q.refused \cup (IF res.allowed \/ res.degraded THEN {} ELSE {"address"})
        /\ res.allowed \/ res.degraded => f = q.refused
        /\ ~(res.allowed \/ res.degraded) =>
              f["address"] = 0 /\ \A t \in DOMAIN q.refused \ {"address"} : f[t] = q.refused[t]
      BY <1>2, RefusalOK
  <2> QED
      BY <1>1, <1>2, <2>1
<1> HIDE DEF f
<1>4. /\ RequestOK(h) /\ h.refused = f /\ h.pc = q.pc /\ h.left = q.left /\ h.lost = q.lost
      /\ h.headers = q.headers /\ h.answer = q.answer /\ h.wait = q.wait /\ h.unmetered = q.unmetered
      /\ h.excused = q.excused
    BY <1>2, <1>3, RefusedOK
<1> HIDE DEF h
<1>5. q.account \in Results
    BY Fields
<1>6. /\ q.headers # "none" /\ (q.headers = "degraded" <=> q.unmetered)
      /\ Ahead(q) = Failures
    BY <1>1 DEF Stage, Ahead
<1>7. CASE q.account.degraded \/ res.degraded
  <2> DEFINE b == TooMany(h, "unavailable", Second)
             none == <<>>
  <2>1. a = [b EXCEPT !.refused = none]
    <3>1. a = Unavailable(h)
        BY <1>5, <1>7 DEF AssertWithinLimits, Results
    <3> QED
        BY <3>1 DEF Unavailable
  <2>2. Second \in Nat /\ "unavailable" \in Answers
      BY WindowAssumption DEF Answers
  <2>3. /\ RequestOK(b) /\ b.pc = "done" /\ b.answer = "unavailable" /\ b.left = {}
        /\ b.headers = h.headers /\ DOMAIN b.lost = {} /\ b.unmetered = h.unmetered
        /\ b.excused = h.excused
      BY <1>4, <2>2, TooManyOK
  <2>4. none \in [DOMAIN none -> Nat] /\ DOMAIN none = {}
      OBVIOUS
  <2> HIDE DEF b, none
  <2>5. /\ RequestOK(a) /\ a.refused = none /\ a.pc = b.pc /\ a.left = b.left /\ a.lost = b.lost
        /\ a.headers = b.headers /\ a.answer = b.answer /\ a.unmetered = b.unmetered
        /\ a.excused = b.excused
    <3> DEFINE c == [b EXCEPT !.refused = none]
    <3>1. /\ RequestOK(c) /\ c.refused = none /\ c.pc = b.pc /\ c.left = b.left /\ c.lost = b.lost
          /\ c.headers = b.headers /\ c.answer = b.answer /\ c.unmetered = b.unmetered
          /\ c.excused = b.excused
      <4>1. RequestOK(b) /\ none \in [DOMAIN none -> Nat] /\ DOMAIN none \subseteq Tiers
          BY <2>3, <2>4
      <4> QED
          BY <4>1, RefusedOK
    <3> QED
        BY <2>1, <3>1
  <2> QED
      BY <1>4, <1>6, <2>3, <2>4, <2>5 DEF Stage, Ahead, h, f
<1>8. CASE ~q.account.degraded /\ ~res.degraded /\ q.account.allowed /\ res.allowed
  <2>1. a = [h EXCEPT !.pc = "verify", !.left = Failures, !.account = PeekDegraded]
      BY <1>8 DEF AssertWithinLimits, Verifying
  <2>2. /\ a.pc = "verify" /\ a.left = Failures /\ a.lost = h.lost /\ a.headers = h.headers
        /\ a.answer = h.answer /\ a.wait = h.wait /\ a.unmetered = h.unmetered /\ a.refused = h.refused
        /\ a.excused = h.excused
      BY <2>1, <1>4 DEF RequestOK, Request
  <2>3. RequestOK(a)
    <3>1. a \in Request(DOMAIN h.lost, DOMAIN h.refused)
      <4>1. PeekDegraded \in Results /\ Failures \in SUBSET Tiers
          BY <1>2 DEF PeekDegraded, Result, Results
      <4>2. h \in Request(DOMAIN h.lost, DOMAIN h.refused)
          BY <1>4 DEF RequestOK
      <4> QED
          BY <2>1, <4>1, <4>2 DEF Request, Results
    <3>2. DOMAIN h.lost = {}
        BY <1>1, <1>4 DEF RequestOK
    <3> QED
        BY <2>2, <3>1, <3>2, <1>4 DEF RequestOK
  <2>4. DOMAIN f = {}
      BY <1>1, <1>2, <1>3, <1>8
  <2>5. DOMAIN a.lost = {}
      BY <1>1, <1>4, <2>2 DEF RequestOK
  <2> QED
      BY <1>1, <1>2, <1>4, <1>6, <1>8, <2>2, <2>3, <2>4, <2>5 DEF Stage, Ahead, h, f
<1>9. CASE ~q.account.degraded /\ ~res.degraded /\ ~(q.account.allowed /\ res.allowed)
  <2> DEFINE x == IF q.account.allowed THEN 0 ELSE q.account.retryAfterMs
             y == IF res.allowed THEN 0 ELSE res.retryAfterMs
             ms == Max({x, y})
  <2>1. Waits(q.account, res) = {x, y}
      BY DEF Waits
  <2>2. a = TooMany(h, "throttled", ms)
      BY <1>9, <2>1 DEF AssertWithinLimits
  <2>3. x \in Nat /\ y \in Nat
      BY <1>5 DEF Results
  <2> HIDE DEF x, y
  <2>4. ms \in Nat /\ ms >= x /\ ms >= y
      BY <2>3, LongerWait
  <2> HIDE DEF ms
  <2>5. "throttled" \in Answers
      BY DEF Answers
  <2>6. /\ RequestOK(a) /\ a.pc = "done" /\ a.answer = "throttled" /\ a.left = {}
        /\ a.headers = h.headers /\ a.wait = RetryAfterSeconds(ms) /\ a.refused = h.refused
        /\ DOMAIN a.lost = {} /\ a.unmetered = h.unmetered /\ a.excused = h.excused
      BY <1>4, <2>2, <2>4, <2>5, TooManyOK
  <2>7. a.wait \in Nat /\ a.wait >= x /\ a.wait >= y
      BY <2>3, <2>4, <2>6, RoundingUp
  <2>8. Stage(a) /\ Ahead(a) = {}
      BY <1>4, <1>6, <2>6 DEF Stage, Ahead
  <2>9. \A t \in DOMAIN a.refused :
           \/ t = "address" /\ a.refused[t] = 0 /\ ~res.allowed /\ ~res.degraded /\ a.wait >= res.retryAfterMs
           \/ /\ t = "account" /\ t \in DOMAIN q.refused
              /\ a.refused[t] = q.refused[t] /\ a.wait >= q.account.retryAfterMs
      BY <1>1, <1>2, <1>3, <1>4, <1>9, <2>6, <2>7 DEF x, y
  <2> QED
      BY <1>4, <2>6, <2>8, <2>9 DEF h, f
<1> QED
    BY <1>5, <1>7, <1>8, <1>9 DEF Results

\* The instance is gone, and the request with it.
LEMMA DeadOK ==
    ASSUME NEW q, RequestOK(q), Stage(q), q.pc \notin {"idle", "done"}
    PROVE  LET a == [Answered(q, "dead") EXCEPT !.headers = "none", !.refused = <<>>]
           IN  /\ RequestOK(a) /\ Stage(a) /\ Ahead(a) = {} /\ a.pc = "done" /\ DOMAIN a.lost = {}
               /\ DOMAIN a.refused = {} /\ a.answer = "dead"
<1> DEFINE b == Answered(q, "dead")
           a == [b EXCEPT !.headers = "none", !.refused = <<>>]
<1>1. /\ RequestOK(b) /\ b.pc = "done" /\ b.answer = "dead" /\ b.left = {} /\ DOMAIN b.lost = {}
    BY AnsweredOK DEF Answers
<1> HIDE DEF b
<1>2. DOMAIN <<>> = {} /\ <<>> \in [{} -> Nat]
    OBVIOUS
<1>3. /\ a.pc = b.pc /\ a.left = b.left /\ a.lost = b.lost /\ a.headers = "none"
      /\ a.answer = b.answer /\ a.refused = <<>>
    BY <1>1 DEF RequestOK, Request
<1>4. a \in Request(DOMAIN b.lost, {})
    BY <1>1, <1>2 DEF RequestOK, Request
<1>5. RequestOK(a)
    BY <1>1, <1>2, <1>3, <1>4 DEF RequestOK
<1> QED
    BY <1>1, <1>2, <1>3, <1>5 DEF Stage, Ahead, b

\* A unit of time for a request.
LEMMA AgedOK ==
    ASSUME NEW p \in Requests, RequestOK(req[p]), Stage(req[p])
    PROVE  LET q == req[p] a == Aged(p)
           IN  /\ RequestOK(a) /\ Stage(a) /\ Ahead(a) = Ahead(q) /\ a.answer \in {"none", q.answer}
               /\ a.pc = q.pc /\ a.lost = q.lost /\ DOMAIN a.refused \subseteq DOMAIN q.refused
               /\ \A t \in DOMAIN a.refused : a.refused[t] = q.refused[t] + 1
               /\ q.pc = "done" /\ DOMAIN a.refused # {} => q.wait > 0 /\ a.wait = q.wait - 1
               /\ q.pc # "done" =>
                     /\ a.left = q.left /\ a.account = q.account /\ a.counted = q.counted
                     /\ a.excused = q.excused /\ a.answer = "none"
               /\ q.pc = "done" => a.answer = "none"
<1> DEFINE q == req[p]
           a == Aged(p)
           f == [t \in DOMAIN q.refused |-> q.refused[t] + 1]
<1>1. f \in [DOMAIN f -> Nat] /\ DOMAIN f = DOMAIN q.refused /\ DOMAIN q.refused \subseteq Tiers
    BY Fields DEF RequestOK
<1>2. \A t \in DOMAIN f : f[t] = q.refused[t] + 1
    OBVIOUS
<1>3. q.wait \in Nat
    BY Fields
<1>4. CASE q.pc # "done"
  <2>1. a = [q EXCEPT !.refused = f]
      BY <1>4 DEF Aged
  <2> HIDE DEF f
  <2>2. /\ RequestOK(a) /\ a.refused = f
        /\ a.pc = q.pc /\ a.left = q.left /\ a.lost = q.lost /\ a.account = q.account
        /\ a.headers = q.headers /\ a.answer = q.answer /\ a.wait = q.wait
        /\ a.unmetered = q.unmetered /\ a.counted = q.counted /\ a.excused = q.excused
      BY <1>1, <2>1, RefusedOK
  <2>3. Stage(a)
      BY <1>1, <1>4, <2>2 DEF Stage
  <2>4. Ahead(a) = Ahead(q)
      BY <2>2 DEF Ahead
  <2> QED
      BY <1>1, <1>2, <1>4, <2>2, <2>3, <2>4 DEF Stage
<1>5. CASE q.pc = "done"
  <2> DEFINE none == <<>>
  <2>1. DOMAIN none = {} /\ none \in [{} -> Nat] /\ none \in [{} -> Nat \X Nat]
      OBVIOUS
  <2>2. q.left = {} /\ DOMAIN q.lost = {}
      BY <1>5 DEF Stage, RequestOK
  <2>3. q.lost = none
      BY <2>2 DEF RequestOK, Request
  <2> HIDE DEF none
  <2>4. /\ Gone.pc = "done" /\ Gone.left = {} /\ Gone.lost = none /\ Gone.headers = "none"
        /\ Gone.answer = "none" /\ Gone.wait = 0 /\ Gone.refused = none /\ ~Gone.unmetered
        /\ Gone \in Request({}, {}) /\ Gone.unmetered = FALSE
      BY <2>1, LimitsAre DEF Gone, Idle, Request, PeekDegraded, Result, none
  <2>5. Ahead(q) = {}
      BY <1>5, <2>2 DEF Ahead
  <2>6. CASE q.wait = 0
    <3>1. a = Gone
        BY <1>5, <2>6 DEF Aged
    <3> QED
        BY <1>5, <2>1, <2>2, <2>3, <2>4, <2>5, <3>1 DEF RequestOK, Stage, Ahead
  <2>7. CASE q.wait # 0
    <3>1. a = [Gone EXCEPT !.wait = q.wait - 1, !.refused = f]
        BY <1>5, <2>7 DEF Aged
    <3> HIDE DEF f
    <3>2. q.wait - 1 \in Nat /\ q.wait > 0
        BY <1>3, <2>7
    <3>3. /\ a.pc = "done" /\ a.left = {} /\ a.lost = none /\ a.headers = "none"
          /\ a.answer = "none" /\ a.wait = q.wait - 1 /\ a.refused = f /\ ~a.unmetered
        BY <2>4, <3>1 DEF Request
    <3>4. a \in Request({}, DOMAIN f)
        BY <1>1, <2>4, <3>1, <3>2 DEF Request
    <3> QED
        BY <1>1, <1>2, <1>5, <2>1, <2>2, <2>3, <2>5, <3>2, <3>3, <3>4 DEF RequestOK, Stage, Ahead
  <2> QED
      BY <2>6, <2>7
<1> QED
    BY <1>4, <1>5

-----------------------------------------------------------------------------
(* Counting.                                                               *)

LEMMA Counting ==
    ASSUME Counts, NEW k \in Buckets
    PROVE  /\ IsFiniteSet(Live(k)) /\ IsFiniteSet(Admitted(k)) /\ Cardinality(Live(k)) \in Nat
           /\ Cardinality(Live(k)) = Cardinality(Admitted(k)) /\ Cardinality(Live(k)) <= Limit[k]
<1>1. IsFiniteSet(Admitted(k))
    BY Names, FS_Subset DEF Admitted
<1>2. ExistsBijection(Admitted(k), Live(k))
    BY DEF Counts, Exact, ExistsBijection
<1>3. IsFiniteSet(Live(k)) /\ Cardinality(Live(k)) = Cardinality(Admitted(k))
    BY <1>1, <1>2, FS_Bijection
<1> QED
    BY <1>1, <1>3, FS_CardinalityType DEF Counts, Exact

LEMMA BeforeFacts ==
    ASSUME TypeOK, Counts, NEW k \in Buckets, NEW s \in Nat
    PROVE  /\ Before(k, s) \subseteq Live(k) /\ IsFiniteSet(Before(k, s))
           /\ Cardinality(Before(k, s)) \in Nat /\ Cardinality(Before(k, s)) <= Cardinality(Live(k))
           /\ Before(k, 0) = Live(k)
<1>1. Before(k, s) \subseteq Live(k) /\ Before(k, 0) = Live(k)
    BY LiveFacts DEF Before
<1> QED
    BY <1>1, Counting, FS_Subset, FS_CardinalityType

\* The wait that a full bucket tells is that of its oldest event.
LEMMA OldestLeaves ==
    ASSUME TypeOK, Counts, NEW k \in Buckets, Live(k) # {}
    PROVE  /\ RetryAfterMs(k) \in Nat \ {0}
           /\ \E m \in Live(k) : Window[k] - zset[k][m] = RetryAfterMs(k)
           /\ \A m \in Live(k) : Window[k] - zset[k][m] >= RetryAfterMs(k)
<1> DEFINE Ages == {zset[k][m] : m \in Live(k)}
           Left == {Window[k] - zset[k][m] : m \in Live(k)}
<1>1. /\ Window[k] \in Nat
      /\ \A m \in Live(k) : zset[k][m] \in Nat /\ zset[k][m] < Window[k]
    BY LiveFacts, BucketFacts
<1>2. Left \in SUBSET Nat /\ Left # {}
    BY <1>1
<1>3. PICK x \in Left : \A y \in Left : x <= y
    BY <1>2, LeastNumber
<1>4. PICK m \in Live(k) : x = Window[k] - zset[k][m]
    BY <1>3
<1>5. zset[k][m] \in Ages /\ \A a \in Ages : zset[k][m] >= a
  <2>1. ASSUME NEW n \in Live(k) PROVE zset[k][m] >= zset[k][n]
      BY <1>1, <1>3, <1>4, <2>1
  <2> QED
      BY <2>1
<1>6. Max(Ages) \in Ages /\ \A a \in Ages : Max(Ages) >= a
    BY <1>5 DEF Max
<1>a. \A a \in Ages : a \in Nat
    BY <1>1
<1> HIDE DEF Ages
<1>7. Max(Ages) = zset[k][m]
    BY <1>a, <1>5, <1>6
<1>8. RetryAfterMs(k) = Window[k] - zset[k][m]
    BY <1>7 DEF RetryAfterMs, Ages
<1> QED
    BY <1>1, <1>3, <1>4, <1>8

LEMMA AnswerFacts ==
    ASSUME TypeOK, Counts, NEW k \in Buckets
    PROVE  /\ ConsumeAnswer(k) \in Results /\ PeekAnswer(k) \in Results
           /\ ConsumeAnswer(k).allowed <=> ~Full(k)
           /\ PeekAnswer(k).allowed <=> ~Full(k)
           /\ ~ConsumeAnswer(k).degraded /\ ~PeekAnswer(k).degraded
           /\ Full(k) => /\ ConsumeAnswer(k).retryAfterMs = RetryAfterMs(k)
                         /\ PeekAnswer(k).retryAfterMs = RetryAfterMs(k)
                         /\ RetryAfterMs(k) \in Nat \ {0} /\ Live(k) # {}
<1>1. Cardinality(Live(k)) \in Nat /\ Limit[k] \in Nat \ {0}
    BY Counting, BucketFacts
<1>2. Full(k) => Live(k) # {}
    BY <1>1, FS_EmptySet DEF Full
<1>3. Full(k) \in BOOLEAN
    BY DEF Full
<1>4. Live(k) # {} => RetryAfterMs(k) \in Nat \ {0}
    BY OldestLeaves
<1>5. ConsumeAnswer(k) = IF Full(k) THEN Result(FALSE, Cardinality(Live(k)), RetryAfterMs(k), FALSE)
                         ELSE Result(TRUE, Cardinality(Live(k)) + 1, 0, FALSE)
    BY DEF ConsumeAnswer
<1>6. PeekAnswer(k) = Result(~Full(k), Cardinality(Live(k)),
                             IF Live(k) = {} THEN 0 ELSE RetryAfterMs(k), FALSE)
    BY DEF PeekAnswer
<1>7. CASE Full(k)
  <2>1. ConsumeAnswer(k) = Result(FALSE, Cardinality(Live(k)), RetryAfterMs(k), FALSE)
      BY <1>5, <1>7
  <2>2. (~Full(k)) = FALSE /\ (IF Live(k) = {} THEN 0 ELSE RetryAfterMs(k)) = RetryAfterMs(k)
      BY <1>2, <1>7
  <2>3. PeekAnswer(k) = Result(FALSE, Cardinality(Live(k)), RetryAfterMs(k), FALSE)
      BY <1>6, <2>2
  <2>4. RetryAfterMs(k) \in Nat
      BY <1>2, <1>4, <1>7
  <2>5. ConsumeAnswer(k) \in Results /\ PeekAnswer(k) \in Results
      BY <1>1, <2>1, <2>3, <2>4 DEF Result, Results
  <2>6. /\ ~ConsumeAnswer(k).allowed /\ ~PeekAnswer(k).allowed
        /\ ~ConsumeAnswer(k).degraded /\ ~PeekAnswer(k).degraded
        /\ ConsumeAnswer(k).retryAfterMs = RetryAfterMs(k)
        /\ PeekAnswer(k).retryAfterMs = RetryAfterMs(k)
      BY <2>1, <2>3 DEF Result
  <2> QED
      BY <1>2, <1>4, <1>7, <2>5, <2>6
<1>8. CASE ~Full(k)
  <2> DEFINE r == IF Live(k) = {} THEN 0 ELSE RetryAfterMs(k)
  <2>1. ConsumeAnswer(k) = Result(TRUE, Cardinality(Live(k)) + 1, 0, FALSE)
      BY <1>5, <1>8
  <2>2. (~Full(k)) = TRUE
      BY <1>8
  <2>3. PeekAnswer(k) = Result(TRUE, Cardinality(Live(k)), r, FALSE)
      BY <1>6, <2>2
  <2>4. r \in Nat
      BY <1>4
  <2> HIDE DEF r
  <2>5. ConsumeAnswer(k) \in Results /\ PeekAnswer(k) \in Results
      BY <1>1, <2>1, <2>3, <2>4 DEF Result, Results
  <2>6. /\ ConsumeAnswer(k).allowed /\ PeekAnswer(k).allowed
        /\ ~ConsumeAnswer(k).degraded /\ ~PeekAnswer(k).degraded
      BY <2>1, <2>3 DEF Result
  <2> QED
      BY <1>8, <2>5, <2>6
<1> QED
    BY <1>3, <1>7, <1>8

\* A refusal now: the wait covers what is counted, and is not a second too long.
LEMMA WaitBegins ==
    ASSUME TypeOK, Counts, NEW k \in Buckets, Full(k), NEW w \in Nat, w >= RetryAfterMs(k)
    PROVE  Ends(k, 0, w)
<1>1. Live(k) # {}
    BY AnswerFacts
<1>2. PICK m \in Live(k) : Window[k] - zset[k][m] = RetryAfterMs(k)
    BY <1>1, OldestLeaves
<1>3. m \in Before(k, 0) /\ Window[k] - zset[k][m] <= w
    BY <1>2, BeforeFacts
<1> QED
    BY <1>3 DEF Ends

LEMMA WaitIsTight ==
    ASSUME TypeOK, Counts, NEW k \in Buckets, Full(k)
    PROVE  Lasts(k, 0, RetryAfterSeconds(RetryAfterMs(k)) - Second)
<1>1. RetryAfterMs(k) \in Nat \ {0} /\ Live(k) # {} /\ Second \in Nat
    BY AnswerFacts, WindowAssumption
<1>2. /\ RetryAfterSeconds(RetryAfterMs(k)) \in Nat
      /\ RetryAfterSeconds(RetryAfterMs(k)) < RetryAfterMs(k) + Second
    BY <1>1, RoundingUp
<1>3. Before(k, 0) = Live(k)
    BY BeforeFacts
<1>4. ASSUME NEW m \in Live(k) PROVE Window[k] - zset[k][m] > RetryAfterSeconds(RetryAfterMs(k)) - Second
  <2>1. Window[k] - zset[k][m] >= RetryAfterMs(k)
      BY <1>1, OldestLeaves
  <2>2. zset[k][m] \in Nat /\ Window[k] \in Nat
      BY LiveFacts, BucketFacts
  <2> QED
      BY <1>1, <1>2, <2>1, <2>2
<1> QED
    BY <1>3, <1>4 DEF Lasts, Full

\* A longer wait is no worse.
LEMMA WaitLonger ==
    ASSUME TypeOK, NEW k \in Buckets, NEW s \in Nat, NEW w \in Nat, NEW v \in Nat, v >= w, Ends(k, s, w)
    PROVE  Ends(k, s, v)
<1>1. \A m \in Before(k, s) : zset[k][m] \in Nat
    BY LiveFacts DEF Before
<1> QED
    BY <1>1, BucketFacts DEF Ends

\* A set that lost something is no longer full.
LEMMA Smaller ==
    ASSUME TypeOK, Counts, NEW k \in Buckets, NEW s \in Nat, NEW B \in SUBSET Before(k, s)
    PROVE  /\ IsFiniteSet(B) /\ Cardinality(B) \in Nat /\ Cardinality(B) <= Cardinality(Before(k, s))
           /\ B # Before(k, s) => Cardinality(B) < Limit[k]
<1>1. /\ IsFiniteSet(Before(k, s)) /\ Cardinality(Before(k, s)) \in Nat
      /\ Cardinality(Before(k, s)) <= Limit[k] /\ Limit[k] \in Nat
    BY BeforeFacts, Counting, BucketFacts
<1>2. /\ IsFiniteSet(B) /\ Cardinality(B) <= Cardinality(Before(k, s))
      /\ Cardinality(Before(k, s)) = Cardinality(B) => Before(k, s) = B
    BY <1>1, FS_Subset
<1>3. Cardinality(B) \in Nat
    BY <1>2, FS_CardinalityType
<1> QED
    BY <1>1, <1>2, <1>3

\* A command that runs does not spoil a promise.
LEMMA ScriptKeepsWaits ==
    ASSUME TypeOK, Counts, NEW k \in Buckets, NEW member, SlidingWindowScript(k, member),
           NEW s \in Nat, s = 0 => Full(k)
    PROVE  /\ \A w \in Nat : Ends(k, s, w) => Ends(k, s, w)'
           /\ \A w \in Nat : Lasts(k, s, w) => Lasts(k, s, w)'
<1>1. CASE Full(k)
    BY <1>1, ScriptEffect, SameMeans
<1>2. CASE ~Full(k)
  <2>1. /\ Live(k)' = Live(k) \cup {member}
        /\ \A m \in Live(k)' : zset'[k][m] = IF m = member THEN 0 ELSE zset[k][m]
        /\ s > 0
      BY <1>2, ScriptEffect
  <2>2. Before(k, s)' = Before(k, s) \ {member}
      BY <2>1 DEF Before
  <2>3. \A m \in Before(k, s)' : zset'[k][m] = zset[k][m]
      BY <2>1, <2>2 DEF Before
  <2>4. ASSUME NEW w \in Nat, Ends(k, s, w) PROVE Ends(k, s, w)'
    <3>1. CASE member \in Before(k, s)
        BY <2>2, <3>1, Smaller DEF Ends
    <3>2. CASE member \notin Before(k, s)
        BY <2>2, <2>3, <2>4, <3>2 DEF Ends
    <3> QED
        BY <3>1, <3>2
  <2>5. \A w \in Nat : ~Lasts(k, s, w)
    <3>1. /\ Cardinality(Before(k, s)) <= Cardinality(Live(k)) /\ Cardinality(Live(k)) \in Nat
          /\ Cardinality(Before(k, s)) \in Nat /\ Limit[k] \in Nat
        BY BeforeFacts, Counting, BucketFacts
    <3> QED
        BY <1>2, <3>1 DEF Lasts, Full
  <2> QED
      BY <2>4, <2>5
<1> QED
    BY <1>1, <1>2

\* Nor does time.
LEMMA TickKeepsWaits ==
    ASSUME TypeOK, Counts, Lasting, Tick, NEW k \in Buckets, NEW s \in Nat, NEW w \in Nat
    PROVE  /\ Ends(k, s, w) => \A v \in Nat : v >= w - 1 => Ends(k, s + 1, v)'
           /\ Lasts(k, s, w) /\ w > 0 => Lasts(k, s + 1, w - 1)'
           /\ ~Full(k) => ~Full(k)'
<1>1. /\ Live(k)' = {m \in Live(k) : zset[k][m] + 1 < Window[k]}
      /\ \A m \in Live(k)' : zset'[k][m] = zset[k][m] + 1
    BY TickEffect
<1>2. /\ Window[k] \in Nat /\ Limit[k] \in Nat
      /\ \A m \in Live(k) : zset[k][m] \in Nat /\ zset[k][m] < Window[k]
    BY LiveFacts, BucketFacts
<1>3. Before(k, s + 1)' = {m \in Before(k, s) : zset[k][m] + 1 < Window[k]}
    BY <1>1, <1>2 DEF Before
<1>4. \A m \in Before(k, s) : m \in Live(k)
    BY DEF Before
<1>5. \A m \in Before(k, s + 1)' : zset'[k][m] = zset[k][m] + 1
    BY <1>1, <1>3, <1>4
<1>6. ASSUME Ends(k, s, w), NEW v \in Nat, v >= w - 1 PROVE Ends(k, s + 1, v)'
  <2>1. CASE Before(k, s + 1)' # Before(k, s)
      BY <1>3, <2>1, Smaller DEF Ends
  <2>2. CASE Before(k, s + 1)' = Before(k, s)
    <3>1. CASE Cardinality(Before(k, s)) < Limit[k]
        BY <2>2, <3>1 DEF Ends
    <3>2. ASSUME NEW m \in Before(k, s), Window[k] - zset[k][m] <= w PROVE Ends(k, s + 1, v)'
      <4>1. zset'[k][m] = zset[k][m] + 1 /\ zset[k][m] \in Nat
          BY <1>2, <1>4, <1>5, <2>2
      <4>2. Window[k] - zset'[k][m] <= v
          BY <1>2, <1>6, <3>2, <4>1
      <4> QED
          BY <2>2, <4>2 DEF Ends
    <3> QED
        BY <1>6, <3>1, <3>2 DEF Ends
  <2> QED
      BY <2>1, <2>2
<1>7. ASSUME Lasts(k, s, w), w > 0 PROVE Lasts(k, s + 1, w - 1)'
  <2>1. ASSUME NEW m \in Before(k, s) PROVE zset[k][m] + 1 < Window[k]
      BY <1>2, <1>4, <1>7, <2>1 DEF Lasts
  <2>2. Before(k, s + 1)' = Before(k, s)
      BY <1>3, <2>1
  <2>3. ASSUME NEW m \in Before(k, s) PROVE Window[k] - zset'[k][m] > w - 1
      BY <1>2, <1>4, <1>5, <1>7, <2>2, <2>3 DEF Lasts
  <2> QED
      BY <1>7, <2>2, <2>3 DEF Lasts
<1>8. ASSUME ~Full(k) PROVE ~Full(k)'
  <2>1. Before(k, 0) = Live(k)
      BY BeforeFacts
  <2>2. Live(k)' \in SUBSET Before(k, 0)
      BY <1>1, <2>1
  <2>3. Cardinality(Live(k)') \in Nat /\ Cardinality(Live(k)') <= Cardinality(Live(k))
      BY <2>1, <2>2, Smaller
  <2> QED
      BY <1>2, <1>8, <2>3, Counting DEF Full
<1> QED
    BY <1>6, <1>7, <1>8

-----------------------------------------------------------------------------
(* A bucket counts exactly what it admitted: how each step keeps it so.    *)

\* What a bijection is, in full.
LEMMA BijectionMeans ==
    ASSUME NEW S, NEW T, NEW f
    PROVE  f \in Bijection(S, T) <=>
              /\ f \in [S -> T]
              /\ \A x, y \in S : f[x] = f[y] => x = y
              /\ \A z \in T : \E x \in S : f[x] = z
BY DEF Bijection, Injection, Surjection, IsInjective

\* Nothing that the bucket, its requests or their commands have has changed.
LEMMA ExactKept ==
    ASSUME NEW k \in Buckets, Exact(k), Same(k),
           \A p \in Requests : Key(p, TierOf[k]) = k => admitted'[p][TierOf[k]] = admitted[p][TierOf[k]],
           \A p \in Requests : Key(p, TierOf[k]) = k /\ TierOf[k] \in DOMAIN req'[p].lost =>
              /\ TierOf[k] \in DOMAIN req[p].lost
              /\ req'[p].lost[TierOf[k]] = req[p].lost[TierOf[k]]
    PROVE  Exact(k)'
<1>1. Admitted(k)' = Admitted(k)
    BY DEF Admitted
<1>2. PICK f \in Bijection(Admitted(k), Live(k)) : Represents(f, k)
    BY DEF Exact
<1>3. \A p \in Admitted(k) : f[p] \in Live(k)
    BY <1>2, BijectionMeans
<1>4. Live(k)' = Live(k) /\ \A m \in Live(k) : zset'[k][m] = zset[k][m]
    BY DEF Same
<1>5. \A p \in Admitted(k) : p \in Requests /\ Key(p, TierOf[k]) = k
    BY DEF Admitted
<1>6. Represents(f, k)'
    BY <1>1, <1>2, <1>3, <1>4, <1>5 DEF Represents
<1> QED
    BY <1>1, <1>2, <1>4, <1>6 DEF Exact

\* A command runs and is admitted. Its member is its own, or nobody's yet.
LEMMA ExactAdds ==
    ASSUME TypeOK, Counts, NEW p \in Requests, NEW tier \in Tiers, NEW member, NEW k \in Buckets,
           k = Key(p, tier), ~Full(k), SlidingWindowScript(k, member),
           \E f \in Bijection(Admitted(k), Live(k)) :
              Represents(f, k) /\ \A q \in Admitted(k) : f[q] = member <=> q = p,
           admitted' = [admitted EXCEPT ![p][tier] = 0],
           tier \in DOMAIN req'[p].lost => req'[p].lost[tier] = member,
           \A q \in Requests \ {p} : req'[q].lost = req[q].lost,
           \A q \in Requests \ {p} : tier \in DOMAIN req[q].lost => req[q].lost[tier] # member
    PROVE  Exact(k)'
<1>1. TierOf[k] = tier /\ Window[k] \in Nat \ {0} /\ Limit[k] \in Nat
    BY KeyFacts, BucketFacts
<1>2. PICK f \in Bijection(Admitted(k), Live(k)) :
          Represents(f, k) /\ \A q \in Admitted(k) : f[q] = member <=> q = p
    OBVIOUS
<1>3. /\ Live(k)' = Live(k) \cup {member}
      /\ \A m \in Live(k)' : zset'[k][m] = IF m = member THEN 0 ELSE zset[k][m]
    BY ScriptEffect
<1>4. admitted'[p][tier] = 0 /\ \A q \in Requests \ {p} : admitted'[q][tier] = admitted[q][tier]
    BY DEF TypeOK
<1>5. Admitted(k)' = Admitted(k) \cup {p}
  <2>1. Admitted(k)' = {q \in Requests : Key(q, tier) = k /\ admitted'[q][tier] < Window[k]}
      BY <1>1 DEF Admitted
  <2>2. Admitted(k) = {q \in Requests : Key(q, tier) = k /\ admitted[q][tier] < Window[k]}
      BY <1>1 DEF Admitted
  <2> QED
      BY <1>1, <1>4, <2>1, <2>2
<1>g. PICK g : g = [q \in Admitted(k) \cup {p} |-> IF q = p THEN member ELSE f[q]]
    OBVIOUS
<1>6. /\ f \in [Admitted(k) -> Live(k)]
      /\ \A x, y \in Admitted(k) : f[x] = f[y] => x = y
      /\ \A z \in Live(k) : \E x \in Admitted(k) : f[x] = z
    BY <1>2, BijectionMeans
<1>7. g[p] = member /\ \A q \in Admitted(k) : g[q] = f[q]
    BY <1>2, <1>g
<1>8. g \in Bijection(Admitted(k) \cup {p}, Live(k) \cup {member})
  <2>1. g \in [Admitted(k) \cup {p} -> Live(k) \cup {member}]
      BY <1>6, <1>g
  <2>2. \A x, y \in Admitted(k) \cup {p} : g[x] = g[y] => x = y
      BY <1>2, <1>6, <1>7
  <2>3. \A z \in Live(k) \cup {member} : \E x \in Admitted(k) \cup {p} : g[x] = z
      BY <1>6, <1>7
  <2> QED
      BY <2>1, <2>2, <2>3, BijectionMeans
<1>9. ASSUME NEW q \in Admitted(k)' PROVE zset'[k][g[q]] = admitted'[q][tier]
  <2>1. CASE q = p
      BY <1>3, <1>4, <1>7, <2>1
  <2>2. CASE q # p
    <3>1. q \in Admitted(k) /\ q \in Requests
        BY <1>5, <1>9, <2>2 DEF Admitted
    <3>2. g[q] = f[q] /\ f[q] # member /\ f[q] \in Live(k)
        BY <1>2, <1>6, <1>7, <2>2, <3>1
    <3>3. zset[k][f[q]] = admitted[q][tier]
        BY <1>1, <1>2, <3>1 DEF Represents
    <3> QED
        BY <1>3, <1>4, <2>2, <3>1, <3>2, <3>3
  <2> QED
      BY <2>1, <2>2
<1>10. ASSUME NEW s \in Requests, tier \in DOMAIN req'[s].lost, Key(s, tier) = k, NEW q \in Admitted(k)'
       PROVE  g[q] = req'[s].lost[tier] <=> q = s
  <2>1. CASE s = p
      BY <1>2, <1>5, <1>7, <1>10, <2>1
  <2>2. CASE s # p
    <3>1. /\ req'[s].lost = req[s].lost /\ tier \in DOMAIN req[s].lost
          /\ req[s].lost[tier] # member
        BY <1>10, <2>2
    <3>2. \A r \in Admitted(k) : f[r] = req[s].lost[tier] <=> r = s
        BY <1>1, <1>2, <1>10, <3>1 DEF Represents
    <3> QED
        BY <1>5, <1>7, <1>10, <2>2, <3>1, <3>2
  <2> QED
      BY <2>1, <2>2
<1>11. Represents(g, k)'
  <2>1. g \in Bijection(Admitted(k)', Live(k)')
      BY <1>3, <1>5, <1>8
  <2> QED
      BY <1>1, <1>9, <1>10, <2>1 DEF Represents
<1>12. Cardinality(Live(k)') <= Limit[k]
  <2>1. /\ Cardinality(Live(k)') =
              IF member \in Live(k) THEN Cardinality(Live(k)) ELSE Cardinality(Live(k)) + 1
        /\ Cardinality(Live(k)) \in Nat
    <3>1. IsFiniteSet(Live(k)) /\ Cardinality(Live(k)) \in Nat
        BY Counting
    <3>2. Cardinality(Live(k) \cup {member}) =
             IF member \in Live(k) THEN Cardinality(Live(k)) ELSE Cardinality(Live(k)) + 1
        BY <3>1, FS_AddElement
    <3> QED
        BY <1>3, <3>1, <3>2
  <2> QED
      BY <1>1, <2>1 DEF Full
<1> QED
    BY <1>3, <1>5, <1>8, <1>11, <1>12 DEF Exact

\* Time takes from a bucket and from its requests alike.
LEMMA ExactTicks ==
    ASSUME TypeOK, Counts, Lasting, Tick, NEW k \in Buckets,
           admitted' = [p \in Requests |-> [t \in Tiers |-> Older(admitted[p][t], Past[p][t])]],
           \A p \in Requests : req'[p].lost = req[p].lost
    PROVE  Exact(k)'
<1> DEFINE tier == TierOf[k]
<1>1. tier \in Tiers /\ Window[k] \in Nat /\ Limit[k] \in Nat
    BY BucketFacts
<1>2. PICK f \in Bijection(Admitted(k), Live(k)) : Represents(f, k)
    BY DEF Counts, Exact
<1>3. /\ f \in [Admitted(k) -> Live(k)]
      /\ \A x, y \in Admitted(k) : f[x] = f[y] => x = y
      /\ \A z \in Live(k) : \E x \in Admitted(k) : f[x] = z
    BY <1>2, BijectionMeans
<1>4. /\ Live(k)' = {m \in Live(k) : zset[k][m] + 1 < Window[k]}
      /\ \A m \in Live(k)' : zset'[k][m] = zset[k][m] + 1
    BY TickEffect
<1>5. ASSUME NEW p \in Requests, Key(p, tier) = k
      PROVE  /\ admitted[p][tier] \in Nat
             /\ admitted'[p][tier] = Older(admitted[p][tier], Window[k])
    BY <1>1, <1>5, KeyFacts DEF TypeOK
<1>6. Admitted(k)' = {p \in Admitted(k) : admitted[p][tier] + 1 < Window[k]}
    BY <1>1, <1>5 DEF Admitted, Older
<1>7. \A p \in Admitted(k)' : admitted'[p][tier] = admitted[p][tier] + 1
    BY <1>1, <1>5, <1>6 DEF Admitted, Older
<1>8. \A p \in Admitted(k) : zset[k][f[p]] = admitted[p][tier]
    BY <1>2 DEF Represents
<1>g. PICK g : g = [p \in Admitted(k)' |-> f[p]]
    OBVIOUS
<1>9. \A p \in Admitted(k)' : g[p] = f[p] /\ f[p] \in Live(k)' /\ p \in Admitted(k)
    BY <1>3, <1>4, <1>6, <1>8, <1>g
<1>10. g \in Bijection(Admitted(k)', Live(k)')
  <2>1. g \in [Admitted(k)' -> Live(k)']
      BY <1>9, <1>g
  <2>2. \A x, y \in Admitted(k)' : g[x] = g[y] => x = y
      BY <1>3, <1>9
  <2>3. ASSUME NEW z \in Live(k)' PROVE \E x \in Admitted(k)' : g[x] = z
    <3>1. z \in Live(k) /\ zset[k][z] + 1 < Window[k]
        BY <1>4, <2>3
    <3>2. PICK x \in Admitted(k) : f[x] = z
        BY <1>3, <3>1
    <3>3. x \in Admitted(k)'
        BY <1>6, <1>8, <3>1, <3>2
    <3> QED
        BY <1>9, <3>2, <3>3
  <2> QED
      BY <2>1, <2>2, <2>3, BijectionMeans
<1>11. ASSUME NEW p \in Admitted(k)' PROVE zset'[k][g[p]] = admitted'[p][tier]
  <2>1. g[p] = f[p] /\ f[p] \in Live(k)' /\ p \in Admitted(k)
      BY <1>9, <1>11
  <2>2. zset'[k][f[p]] = zset[k][f[p]] + 1
      BY <1>4, <2>1
  <2>3. zset[k][f[p]] = admitted[p][tier] /\ admitted'[p][tier] = admitted[p][tier] + 1
      BY <1>7, <1>8, <1>11, <2>1
  <2> QED
      BY <2>1, <2>2, <2>3
<1>12. ASSUME NEW s \in Requests, tier \in DOMAIN req'[s].lost, Key(s, tier) = k, NEW q \in Admitted(k)'
       PROVE  g[q] = req'[s].lost[tier] <=> q = s
    BY <1>2, <1>9, <1>12 DEF Represents
<1>13. Represents(g, k)'
    BY <1>10, <1>11, <1>12 DEF Represents
<1>14. Cardinality(Live(k)') <= Limit[k]
  <2>1. Live(k)' \in SUBSET Live(k)
      BY <1>4
  <2>2. IsFiniteSet(Live(k)') /\ Cardinality(Live(k)') <= Cardinality(Live(k))
      BY <2>1, Counting, FS_Subset
  <2>3. Cardinality(Live(k)') \in Nat
      BY <2>2, FS_CardinalityType
  <2> QED
      BY <1>1, <2>2, <2>3, Counting
<1> QED
    BY <1>10, <1>13, <1>14 DEF Exact

\* A bucket that was deleted has nothing left, and owes nothing.
LEMMA ExactEmptied ==
    ASSUME NEW k \in Buckets, Live(k)' = {},
           \A p \in Requests : Key(p, TierOf[k]) = k => admitted'[p][TierOf[k]] = Window[k]
    PROVE  Exact(k)'
<1> DEFINE g == [p \in {} |-> p]
<1>1. Admitted(k)' = {}
    BY BucketFacts DEF Admitted
<1>2. g \in Bijection({}, {})
    BY BijectionMeans
<1>3. Represents(g, k)'
    BY <1>1, <1>2 DEF Represents
<1>4. Cardinality(Live(k)') <= Limit[k]
    BY FS_EmptySet, BucketFacts
<1> QED
    BY <1>1, <1>2, <1>3, <1>4 DEF Exact

-----------------------------------------------------------------------------
(* Types, in parts.                                                        *)

WindowOK ==
    /\ zset = [k \in Buckets |-> [m \in DOMAIN zset[k] |-> zset[k][m]]]
    /\ \A k \in Buckets : \A m \in DOMAIN zset[k] : zset[k][m] \in 0 .. Window[k]
    /\ ttl \in [Buckets -> Nat]

OthersOK ==
    /\ up \in BOOLEAN /\ drawn \in Nat /\ inst \in [Replicas -> 1 .. drawn]
    /\ counter \in [Replicas -> Nat] /\ faults \in 0 .. MaxFaults
    /\ admitted \in [Requests -> [Tiers -> Nat]]

RequestsOK == req = [p \in Requests |-> req[p]] /\ \A p \in Requests : RequestOK(req[p])

LEMMA TypeParts == TypeOK <=> WindowOK /\ OthersOK /\ RequestsOK
BY DEF TypeOK, WindowOK, OthersOK, RequestsOK, RequestOK

LEMMA ScriptTypes ==
    ASSUME TypeOK, NEW k \in Buckets, NEW member, SlidingWindowScript(k, member)
    PROVE  WindowOK'
<1>1. /\ zset' = [zset EXCEPT ![k] = Consumed(k, member)]
      /\ ttl' = [ttl EXCEPT ![k] = Refreshed(k)]
    BY DEF SlidingWindowScript
<1>2. WindowOK /\ DOMAIN zset = Buckets
    BY TypeParts DEF WindowOK
<1>3. Window[k] \in Nat
    BY BucketFacts
<1>4. Refreshed(k) \in Nat
    BY <1>2, <1>3 DEF Refreshed, WindowOK
<1>5. \A m \in Live(k) : zset[k][m] \in 0 .. Window[k]
    BY <1>2 DEF WindowOK, Live
<1>6. /\ Consumed(k, member) = [m \in DOMAIN Consumed(k, member) |-> Consumed(k, member)[m]]
      /\ \A m \in DOMAIN Consumed(k, member) : Consumed(k, member)[m] \in 0 .. Window[k]
  <2>1. CASE Full(k)
    <3>1. Consumed(k, member) = [m \in Live(k) |-> zset[k][m]]
        BY <2>1 DEF Consumed, Trimmed, Restrict
    <3> QED
        BY <1>5, <3>1
  <2>2. CASE ~Full(k)
    <3>1. Consumed(k, member) = [m \in Live(k) \cup {member} |-> IF m = member THEN 0 ELSE zset[k][m]]
        BY <2>2 DEF Consumed
    <3> QED
        BY <1>3, <1>5, <3>1
  <2> QED
      BY <2>1, <2>2
<1>7. ttl' \in [Buckets -> Nat]
    BY <1>1, <1>2, <1>4 DEF WindowOK
<1>8. /\ DOMAIN zset' = Buckets /\ zset'[k] = Consumed(k, member)
      /\ \A j \in Buckets \ {k} : zset'[j] = zset[j]
    BY <1>1, <1>2
<1>9. \A j \in Buckets : /\ zset'[j] = [m \in DOMAIN zset'[j] |-> zset'[j][m]]
                         /\ \A m \in DOMAIN zset'[j] : zset'[j][m] \in 0 .. Window[j]
  <2>1. \A j \in Buckets : zset[j] = [m \in DOMAIN zset[j] |-> zset[j][m]]
      BY <1>2 DEF WindowOK
  <2> QED
      BY <1>2, <1>6, <1>8, <2>1 DEF WindowOK
<1>10. zset' = [j \in Buckets |-> zset'[j]]
    BY <1>1, <1>2
<1> QED
    BY <1>7, <1>9, <1>10 DEF WindowOK

-----------------------------------------------------------------------------
(* Members.                                                                *)

\* A command's member is its own: it was drawn for it, or nobody has had it yet.
LEMMA OwnMember ==
    ASSUME ThrottleInv, NEW p \in Requests, NEW tier \in Tiers, tier \in req[p].left
    PROVE  LET m == Member(p, tier)  k == Key(p, tier)
           IN  /\ m \in Nat \X Nat
               /\ \E f \in Bijection(Admitted(k), Live(k)) :
                     Represents(f, k) /\ \A q \in Admitted(k) : f[q] = m <=> q = p
               /\ \A q \in Requests \ {p} : tier \in DOMAIN req[q].lost => req[q].lost[tier] # m
               /\ tier \in DOMAIN req[p].lost => m = req[p].lost[tier]
<1> DEFINE m == Member(p, tier)
           k == Key(p, tier)
           r == Replica[p]
<1>1. k \in Buckets /\ TierOf[k] = tier /\ Past[p][tier] = Window[k]
    BY KeyFacts
<1>2. PICK f \in Bijection(Admitted(k), Live(k)) : Represents(f, k)
    BY <1>1 DEF ThrottleInv, Counts, Exact
<1>3. \A q \in Admitted(k) : f[q] \in Live(k)
    BY <1>2, BijectionMeans
<1>4. CASE tier \in DOMAIN req[p].lost
  <2>1. m = req[p].lost[tier]
      BY <1>4 DEF Member
  <2>2. m \in Nat \X Nat
      BY <1>4, <2>1 DEF ThrottleInv, Members, Drawn
  <2>3. \A q \in Admitted(k) : f[q] = m <=> q = p
      BY <1>1, <1>2, <1>4, <2>1 DEF Represents
  <2>4. \A q \in Requests \ {p} : tier \in DOMAIN req[q].lost => req[q].lost[tier] # m
      BY <1>4, <2>1 DEF ThrottleInv, Members
  <2> QED
      BY <1>2, <2>1, <2>2, <2>3, <2>4
<1>5. CASE tier \notin DOMAIN req[p].lost
  <2>1. m = <<inst[r], counter[r] + 1>>
      BY <1>5 DEF Member
  <2>2. r \in Replicas /\ inst[r] \in Nat /\ counter[r] \in Nat
      BY ReplicaFacts DEF ThrottleInv, TypeOK
  <2>3. m \in Nat \X Nat /\ ~Drawn(m)
      BY <2>1, <2>2 DEF Drawn
  <2>4. \A q \in Admitted(k) : f[q] # m
    <3>1. \A x \in Live(k) : Drawn(x)
        BY <1>1, LiveFacts DEF ThrottleInv, Members
    <3> QED
        BY <1>3, <2>3, <3>1
  <2>5. p \notin Admitted(k)
    <3>1. tier \in Ahead(req[p])
        BY <1>5 DEF Ahead
    <3>2. admitted[p][tier] = Window[k]
        BY <1>1, <3>1 DEF ThrottleInv, NotYet
    <3> QED
        BY <1>1, <3>2, BucketFacts DEF Admitted
  <2>6. \A q \in Requests \ {p} : tier \in DOMAIN req[q].lost => req[q].lost[tier] # m
      BY <2>3 DEF ThrottleInv, Members
  <2> QED
      BY <1>2, <1>5, <2>3, <2>4, <2>5, <2>6
<1> QED
    BY <1>4, <1>5

\* Ids and counters only grow, so what was drawn stays drawn; and the member is.
LEMMA DrawingKeeps ==
    ASSUME ThrottleInv, NEW p \in Requests, NEW tier \in Tiers, tier \in req[p].left,
           DrawMember(p, tier), UNCHANGED <<inst, drawn>>
    PROVE  /\ counter' \in [Replicas -> Nat]
           /\ \A m : Drawn(m) => Drawn(m)'
           /\ \A n : n = Member(p, tier) => Drawn(n)'
<1> DEFINE r == Replica[p]
<1>1. r \in Replicas /\ counter \in [Replicas -> Nat] /\ inst \in [Replicas -> 1 .. drawn] /\ drawn \in Nat
    BY ReplicaFacts DEF ThrottleInv, TypeOK
<1>2. counter' \in [Replicas -> Nat] /\ \A s \in Replicas : counter'[s] >= counter[s]
    BY <1>1 DEF DrawMember
<1>3. ASSUME NEW m, Drawn(m) PROVE Drawn(m)'
  <2>1. m \in Nat \X Nat /\ m[1] <= drawn /\ \A s \in Replicas : inst[s] = m[1] => m[2] <= counter[s]
      BY <1>3 DEF Drawn
  <2>2. m[2] \in Nat
      BY <2>1
  <2>3. ASSUME NEW s \in Replicas, inst[s] = m[1] PROVE m[2] <= counter'[s]
      BY <1>1, <1>2, <2>1, <2>2, <2>3
  <2> QED
      BY <2>1, <2>3 DEF Drawn
<1>4. ASSUME NEW n, n = Member(p, tier) PROVE Drawn(n)'
  <2>1. CASE tier \in DOMAIN req[p].lost
      BY <1>3, <1>4, <2>1 DEF Member, ThrottleInv, Members
  <2>2. CASE tier \notin DOMAIN req[p].lost
    <3>1. n = <<inst[r], counter[r] + 1>> /\ counter' = [counter EXCEPT ![r] = @ + 1]
        BY <1>4, <2>2 DEF Member, DrawMember
    <3>2. n \in Nat \X Nat /\ n[1] = inst[r] /\ n[2] = counter[r] + 1 /\ counter'[r] = counter[r] + 1
        BY <1>1, <3>1
    <3>3. \A s \in Replicas : inst[s] = inst[r] => s = r
        BY <1>1 DEF ThrottleInv, Members
    <3>4. inst[r] <= drawn /\ counter[r] + 1 \in Nat
        BY <1>1
    <3> HIDE DEF r
    <3> QED
        BY <3>2, <3>3, <3>4 DEF Drawn
  <2> QED
      BY <2>1, <2>2
<1> QED
    BY <1>2, <1>3, <1>4

-----------------------------------------------------------------------------
(* What a step leaves as it was.                                           *)

LEMMA TypesLater == WindowOK' /\ OthersOK' /\ RequestsOK' => TypeOK'
BY DEF TypeOK, WindowOK, OthersOK, RequestsOK, RequestOK

\* What a login relies on stays, unless the step excuses it.
LEMMA LookKept ==
    ASSUME NEW q \in Requests, Look(q), RequestOK(req[q]),
           req'[q].pc = req[q].pc, req'[q].left = req[q].left, req'[q].lost = req[q].lost,
           req'[q].account = req[q].account, req'[q].answer = req[q].answer,
           req'[q].counted = req[q].counted, req[q].excused \subseteq req'[q].excused,
           \A t \in Seen(req[q]) \ req'[q].excused : Room(Key(q, t)) => Room(Key(q, t))'
    PROVE  Look(q)'
<1>1. /\ req[q].pc = "peekAddress" => Seen(req[q]) = {"account"}
      /\ req[q].pc = "verify" => Seen(req[q]) = req[q].left
    BY DEF Seen
<1> QED
    BY <1>1 DEF Look

\* Promises are kept, or forgotten, where no bucket spoils one.
LEMMA RefusalsKept ==
    ASSUME NEW q \in Requests, RequestOK(req[q]), Refusals(q), req'[q].pc = req[q].pc,
           req'[q].account = req[q].account, req'[q].wait = req[q].wait,
           \A t \in DOMAIN req'[q].refused :
              t \in DOMAIN req[q].refused /\ req'[q].refused[t] = req[q].refused[t],
           \A t \in DOMAIN req'[q].refused : \A s \in Nat : (s = 0 => Full(Key(q, t))) =>
              /\ s = 0 => Full(Key(q, t))'
              /\ \A w \in Nat : Ends(Key(q, t), s, w) => Ends(Key(q, t), s, w)'
              /\ \A w \in Nat : Lasts(Key(q, t), s, w) => Lasts(Key(q, t), s, w)'
    PROVE  Refusals(q)'
<1> DEFINE c == req[q]
<1>1. /\ c.wait \in Nat /\ c.account.retryAfterMs \in Nat /\ Second \in Nat
      /\ \A t \in DOMAIN c.refused : c.refused[t] \in Nat
    BY Fields, WindowAssumption DEF Results
<1>2. SUFFICES ASSUME NEW t \in DOMAIN req'[q].refused, NEW s, s = c.refused[t]
               PROVE  /\ s = 0 => Full(Key(q, t))'
                      /\ c.pc = "peekAddress" => Ends(Key(q, t), s, c.account.retryAfterMs)'
                      /\ c.pc = "done" => Ends(Key(q, t), s, c.wait)'
                      /\ c.pc = "done" /\ c.wait >= Second /\ t \in Guards =>
                            Lasts(Key(q, t), s, c.wait - Second)'
    BY DEF Refusals
<1>3. t \in DOMAIN c.refused /\ s \in Nat
    BY <1>1, <1>2
<1> QED
    BY <1>1, <1>2, <1>3 DEF Refusals

\* A bucket that is the same serves the same.
LEMMA SameServes ==
    ASSUME TypeOK, NEW q \in Requests, RequestOK(req[q]),
           NEW t \in DOMAIN req[q].refused, Same(Key(q, t)), NEW s \in Nat
    PROVE  /\ Full(Key(q, t)) => Full(Key(q, t))'
           /\ \A w \in Nat : Ends(Key(q, t), s, w) => Ends(Key(q, t), s, w)'
           /\ \A w \in Nat : Lasts(Key(q, t), s, w) => Lasts(Key(q, t), s, w)'
<1>1. t \in Tiers
    BY DEF RequestOK
<1>2. Key(q, t) \in Buckets
    BY <1>1, KeyFacts
<1> QED
    BY <1>2, SameMeans

\* A step that leaves what the windows hold as it was.
LEMMA QuietStep ==
    ASSUME ThrottleInv, req' = [q \in Requests |-> req'[q]],
           \A q \in Requests :
              /\ RequestOK(req'[q]) /\ Stage(req'[q]) /\ Look(q)' /\ Refusals(q)'
              /\ Ahead(req'[q]) \subseteq Ahead(req[q])
              /\ \A t \in DOMAIN req'[q].lost : t \in DOMAIN req[q].lost /\ req'[q].lost[t] = req[q].lost[t],
           \A k \in Buckets : Same(k) /\ ttl'[k] = ttl[k] /\ DOMAIN zset'[k] \subseteq DOMAIN zset[k],
           WindowOK', OthersOK', UNCHANGED admitted,
           \A r, s \in Replicas : inst'[r] = inst'[s] => r = s, \A m : Drawn(m) => Drawn(m)'
    PROVE  ThrottleInv'
<1>1. TypeOK /\ Counts /\ Members /\ Lasting /\ NotYet
    BY DEF ThrottleInv
<1>2. RequestsOK'
    BY DEF RequestsOK, RequestOK
<1>3. TypeOK'
    BY <1>2, TypesLater
<1>4. \A q \in Requests : (Stage(req[q]) /\ Look(q) /\ Refusals(q))'
    OBVIOUS
<1>5. NotYet'
    BY <1>1 DEF NotYet
<1>6. Members'
    BY <1>1 DEF Members
<1>7. Lasting'
    BY <1>1 DEF Lasting, Same
<1>8. Counts'
  <2>1. SUFFICES ASSUME NEW k \in Buckets PROVE Exact(k)'
      BY DEF Counts
  <2>2. Exact(k) /\ Same(k)
      BY <1>1 DEF Counts
  <2> QED
      BY <2>2, ExactKept
<1> QED
    BY <1>3, <1>4, <1>5, <1>6, <1>7, <1>8 DEF ThrottleInv

\* A request that neither the step nor its buckets touch.
LEMMA Bystander ==
    ASSUME ThrottleInv, NEW q \in Requests, req'[q] = req[q], up' = up,
           \A k \in Buckets : Same(k)
    PROVE  Look(q)' /\ Refusals(q)'
<1>1. TypeOK /\ RequestOK(req[q]) /\ Look(q) /\ Refusals(q)
    BY RequestsAreOK DEF ThrottleInv
<1>2. \A t \in Seen(req[q]) \cup DOMAIN req[q].refused : Key(q, t) \in Buckets
    BY <1>1, KeyFacts, Names, Fields DEF Seen, RequestOK
<1>3. Look(q)'
    BY <1>1, <1>2, SameMeans, LookKept DEF Room
<1>4. Refusals(q)'
    BY <1>1, <1>2, SameServes, RefusalsKept
<1> QED
    BY <1>3, <1>4

\* One that is a step of one request.
LEMMA LocalStep ==
    ASSUME ThrottleInv, NEW p \in Requests, NEW a, RequestOK(a), Stage(a),
           req' = [req EXCEPT ![p] = a],
           \A k \in Buckets : Same(k) /\ ttl'[k] = ttl[k] /\ DOMAIN zset'[k] \subseteq DOMAIN zset[k],
           WindowOK', OthersOK', UNCHANGED <<up, inst, drawn, admitted>>,
           \A m : Drawn(m) => Drawn(m)',
           Ahead(a) \subseteq Ahead(req[p]),
           \A t \in DOMAIN a.lost : t \in DOMAIN req[p].lost /\ a.lost[t] = req[p].lost[t],
           Look(p)', Refusals(p)'
    PROVE  ThrottleInv'
<1>1. TypeOK
    BY DEF ThrottleInv
<1>2. /\ req' = [q \in Requests |-> req'[q]] /\ req'[p] = a
      /\ \A q \in Requests \ {p} : req'[q] = req[q]
    BY <1>1 DEF TypeOK
<1>3. \A q \in Requests : RequestOK(req[q]) /\ Stage(req[q])
    BY <1>1, RequestsAreOK DEF ThrottleInv
<1>4. \A r, s \in Replicas : inst'[r] = inst'[s] => r = s
    BY DEF ThrottleInv, Members
<1>5. ASSUME NEW q \in Requests
      PROVE  /\ RequestOK(req'[q]) /\ Stage(req'[q]) /\ Look(q)' /\ Refusals(q)'
             /\ Ahead(req'[q]) \subseteq Ahead(req[q])
             /\ \A t \in DOMAIN req'[q].lost : t \in DOMAIN req[q].lost /\ req'[q].lost[t] = req[q].lost[t]
  <2>1. CASE q = p
      BY <1>2, <2>1
  <2>2. CASE q # p
      BY <1>2, <1>3, <2>2, Bystander
  <2> QED
      BY <2>1, <2>2
<1> QED
    BY <1>2, <1>4, <1>5, QuietStep

\* No command runs.
LEMMA Untouched ==
    ASSUME TypeOK, UNCHANGED <<zset, ttl>>
    PROVE  /\ \A k \in Buckets : Same(k) /\ ttl'[k] = ttl[k] /\ DOMAIN zset'[k] \subseteq DOMAIN zset[k]
           /\ WindowOK'
BY SameBucket, TypeParts DEF WindowOK

-----------------------------------------------------------------------------
(* The steps.                                                              *)

LEMMA ArriveKeeps ==
    ASSUME ThrottleInv, NEW p \in Requests, Arrive(p)
    PROVE  ThrottleInv'
<1>1. /\ req[p].pc = "idle" /\ UNCHANGED <<zset, ttl, up, inst, drawn, counter, faults, admitted>>
      /\ req' = [req EXCEPT ![p] = [Idle EXCEPT !.pc = "client", !.left = {"client"}]]
    BY DEF Arrive, windowVars
<1>2. TypeOK /\ OthersOK
    BY TypeParts DEF ThrottleInv
<1> DEFINE a == [Idle EXCEPT !.pc = "client", !.left = {"client"}]
<1>3. DOMAIN <<>> = {} /\ <<>> \in [{} -> Nat] /\ <<>> \in [{} -> Nat \X Nat] /\ "client" \in Tiers
    BY Names
<1>4. /\ a.pc = "client" /\ a.left = {"client"} /\ a.lost = <<>> /\ a.headers = "none"
      /\ a.answer = "none" /\ a.wait = 0 /\ a.refused = <<>> /\ a.unmetered = FALSE
    BY DEF Idle
<1>5. RequestOK(a)
    BY <1>3, <1>4, LimitsAre DEF RequestOK, Request, Idle, PeekDegraded, Result
<1>6. Stage(a)
    BY <1>3, <1>4 DEF Stage
<1>7. Ahead(a) \subseteq Ahead(req[p])
    BY <1>1, <1>3, <1>4, Names DEF Ahead
<1>8. req'[p] = a
    BY <1>1, <1>2 DEF TypeOK
<1> HIDE DEF a
<1>9. Look(p)' /\ Refusals(p)'
    BY <1>3, <1>4, <1>8 DEF Look, Refusals
<1>10. OthersOK' /\ \A m : Drawn(m) => Drawn(m)'
    BY <1>1, <1>2 DEF OthersOK, Drawn
<1>11. req' = [req EXCEPT ![p] = a]
    BY <1>1 DEF a
<1>12. /\ \A k \in Buckets : Same(k) /\ ttl'[k] = ttl[k] /\ DOMAIN zset'[k] \subseteq DOMAIN zset[k]
       /\ WindowOK'
    BY <1>1, <1>2, Untouched
<1>13. \A t \in DOMAIN a.lost : t \in DOMAIN req[p].lost /\ a.lost[t] = req[p].lost[t]
    BY <1>3, <1>4
<1> QED
    BY <1>1, <1>5, <1>6, <1>7, <1>9, <1>10, <1>11, <1>12, <1>13, LocalStep

\* A call that fails leaves no trace in a window; a login that relied on its count
\* had seen room, so that Redis went or another took the place.
LEMMA ConsumeFailsKeeps ==
    ASSUME ThrottleInv, NEW p \in Requests, NEW tier \in Tiers, ConsumeFails(p, tier)
    PROVE  ThrottleInv'
<1> DEFINE q == req[p]
<1>1. /\ tier \in q.left /\ (~up \/ tier \in DOMAIN q.lost) /\ DrawMember(p, tier)
      /\ UNCHANGED <<zset, ttl, up, inst, drawn, faults, admitted>>
    BY DEF ConsumeFails, Calling, windowVars
<1>2. PICK failOpen \in BOOLEAN :
          req' = [req EXCEPT ![p] = AfterConsume(p, @, tier, ConsumeDegraded(failOpen))]
    BY DEF ConsumeFails
<1> DEFINE res == ConsumeDegraded(failOpen)
           a == AfterConsume(p, q, tier, res)
<1>3. TypeOK /\ OthersOK /\ RequestOK(q) /\ Stage(q) /\ Look(p)
    BY TypeParts, RequestsAreOK DEF ThrottleInv
<1>4. res \in Results /\ res.degraded
    BY WindowAssumption DEF ConsumeDegraded, Result, Results
<1> HIDE DEF res
<1>5. req' = [req EXCEPT ![p] = a] /\ req'[p] = a
    BY <1>2, <1>3 DEF TypeOK, res
<1>6. /\ RequestOK(a) /\ Stage(a) /\ Ahead(a) \subseteq Ahead(q) /\ DOMAIN a.refused = {}
      /\ \A t \in DOMAIN a.lost : t \in DOMAIN q.lost /\ a.lost[t] = q.lost[t]
      /\ Look(p)'
  <2>1. CASE tier \in Guards
    <3>1. a = AfterGuard(p, q, tier, res)
        BY <2>1 DEF AfterConsume
    <3>2. /\ RequestOK(a) /\ Stage(a) /\ Ahead(a) \subseteq Ahead(q)
          /\ DOMAIN a.lost = {} /\ a.pc \notin {"peekAddress", "verify"}
          /\ a.answer # "unauthorized" /\ DOMAIN a.refused = {}
        BY <1>1, <1>3, <1>4, <2>1, <3>1, GuardMoves
    <3> HIDE DEF a
    <3> QED
        BY <1>5, <3>2 DEF Look
  <2>2. CASE tier \notin Guards
    <3>1. a = AfterFailure(q, tier) /\ tier \in Failures
        BY <2>2, Names DEF AfterConsume
    <3>2. /\ q.pc = "verify" /\ RequestOK(a) /\ Stage(a) /\ Ahead(a) \subseteq Ahead(q) \ {tier}
          /\ DOMAIN a.lost \subseteq DOMAIN q.lost \ {tier}
          /\ \A t \in DOMAIN a.lost : a.lost[t] = q.lost[t]
          /\ DOMAIN a.refused = {} /\ a.counted = q.counted /\ a.excused = q.excused
          /\ \/ a.pc = "verify" /\ a.answer = "none" /\ a.left = q.left \ {tier}
                                /\ DOMAIN a.lost = DOMAIN q.lost \ {tier}
             \/ a.pc = "done" /\ q.left = {tier}
        BY <1>1, <1>3, <3>1, FailureMoves
    <3> HIDE DEF a
    <3>3. \A t \in Failures \ (q.counted \cup q.excused) : t \in q.left \ DOMAIN q.lost /\ Room(Key(p, t))
        BY <1>3, <3>2 DEF Look
    <3>4. tier \in q.counted \cup q.excused
        BY <1>1, <3>1, <3>3 DEF Room
    <3>5. \A t \in Failures : Room(Key(p, t)) => Room(Key(p, t))'
        BY <1>1 DEF Room, Full, Live
    <3>6. Look(p)'
      <4>1. CASE a.pc = "verify"
          BY <1>5, <3>2, <3>3, <3>4, <3>5, <4>1 DEF Look
      <4>2. CASE a.pc = "done"
          BY <1>5, <3>2, <3>3, <3>4, <4>2 DEF Look
      <4> QED
          BY <3>2, <4>1, <4>2
    <3> QED
        BY <3>2, <3>6
  <2> QED
      BY <2>1, <2>2
<1> HIDE DEF a
<1>7. Refusals(p)'
    BY <1>5, <1>6 DEF Refusals
<1>8. counter' \in [Replicas -> Nat] /\ \A m : Drawn(m) => Drawn(m)'
    BY <1>1, DrawingKeeps
<1>9. OthersOK'
    BY <1>1, <1>3, <1>8 DEF OthersOK
<1>10. /\ \A k \in Buckets : Same(k) /\ ttl'[k] = ttl[k] /\ DOMAIN zset'[k] \subseteq DOMAIN zset[k]
       /\ WindowOK'
    BY <1>1, <1>3, Untouched
<1> QED
    BY <1>1, <1>5, <1>6, <1>7, <1>8, <1>9, <1>10, LocalStep

\* A counter is read: what it says is so, and will be until a command runs.
LEMMA PeekKeeps ==
    ASSUME ThrottleInv, NEW p \in Requests, NEW tier \in Failures, Peek(p, tier)
    PROVE  ThrottleInv'
<1> DEFINE q == req[p]
           k == Key(p, tier)
<1>1. /\ q.pc = IF tier = "account" THEN "peekAccount" ELSE "peekAddress"
      /\ UNCHANGED <<up, inst, drawn, counter, faults, admitted>>
    BY DEF Peek
<1>2. TypeOK /\ Counts /\ OthersOK /\ RequestOK(q) /\ Stage(q) /\ Look(p) /\ Refusals(p)
    BY TypeParts, RequestsAreOK DEF ThrottleInv
<1>3. tier \in Tiers /\ k \in Buckets /\ tier \in {"account", "address"}
    BY Names, KeyFacts
<1>4. /\ \A j \in Buckets : Same(j) /\ ttl'[j] = ttl[j] /\ DOMAIN zset'[j] \subseteq DOMAIN zset[j]
      /\ WindowOK'
  <2>1. CASE PeekWindowScript(k)
    <3>1. /\ \A j \in Buckets : Same(j) /\ ttl'[j] = ttl[j] /\ DOMAIN zset'[j] \subseteq DOMAIN zset[j]
          /\ zset' = [zset EXCEPT ![k] = [m \in Live(k) |-> zset[k][m]]]
        BY <1>2, <1>3, <2>1, PeekEffect
    <3>2. WindowOK /\ ttl' = ttl
        BY <1>2, <2>1, TypeParts DEF PeekWindowScript
    <3>3. \A m \in Live(k) : zset[k][m] \in 0 .. Window[k]
        BY <1>3, <3>2 DEF WindowOK, Live
    <3>4. zset'[k] = [m \in Live(k) |-> zset[k][m]] /\ \A j \in Buckets \ {k} : zset'[j] = zset[j]
        BY <1>3, <3>1, <3>2 DEF WindowOK
    <3>5. zset' = [j \in Buckets |-> zset'[j]]
        BY <3>1, <3>2 DEF WindowOK
    <3>6. \A j \in Buckets : /\ zset'[j] = [m \in DOMAIN zset'[j] |-> zset'[j][m]]
                             /\ \A m \in DOMAIN zset'[j] : zset'[j][m] \in 0 .. Window[j]
      <4>1. \A j \in Buckets : zset[j] = [m \in DOMAIN zset[j] |-> zset[j][m]]
          BY <3>2 DEF WindowOK
      <4>2. TAKE j \in Buckets
      <4>3. CASE j = k
          BY <3>3, <3>4, <4>3
      <4>4. CASE j # k
          BY <3>2, <3>4, <4>1, <4>4 DEF WindowOK
      <4> QED
          BY <4>3, <4>4
    <3>7. WindowOK'
        BY <3>2, <3>5, <3>6 DEF WindowOK
    <3> QED
        BY <3>1, <3>7
  <2>2. CASE UNCHANGED <<zset, ttl>>
      BY <1>2, <2>2, Untouched
  <2> QED
      BY <2>1, <2>2 DEF Peek
<1>5. PICK res : /\ PeekWith(p, tier, res) /\ res \in Results
                 /\ res.allowed /\ ~res.degraded => Room(k)
                 /\ ~res.allowed /\ ~res.degraded => Full(k) /\ res.retryAfterMs = RetryAfterMs(k)
  <2>1. CASE up /\ PeekWith(p, tier, PeekAnswer(k))
      BY <1>2, <1>3, <2>1, AnswerFacts DEF Room
  <2>2. CASE PeekWith(p, tier, PeekDegraded)
    <3>1. PeekDegraded \in Results /\ PeekDegraded.degraded
        BY DEF PeekDegraded, Result, Results
    <3> QED
        BY <2>2, <3>1
  <2> QED
      BY <2>1, <2>2 DEF Peek
<1>6. OthersOK' /\ \A m : Drawn(m) => Drawn(m)'
    BY <1>1, <1>2 DEF OthersOK, Drawn
<1>7. \A t \in Failures : Room(Key(p, t)) => Room(Key(p, t))'
    BY <1>1, <1>4, SameMeans, KeyFacts, Names DEF Room
<1>8. ~res.allowed /\ ~res.degraded =>
         Full(k)' /\ \A w \in Nat : w >= res.retryAfterMs => Ends(k, 0, w)'
  <2>1. ASSUME ~res.allowed, ~res.degraded, NEW w \in Nat, w >= res.retryAfterMs PROVE Ends(k, 0, w)'
    <3>1. Ends(k, 0, w)
        BY <1>2, <1>3, <1>5, <2>1, WaitBegins
    <3> QED
        BY <1>3, <1>4, <3>1, SameMeans
  <2> QED
      BY <1>3, <1>4, <1>5, <2>1, SameMeans
<1>9. CASE tier = "account"
  <2> DEFINE a == [[q EXCEPT !.refused = Refusal(@, "account", res)]
                      EXCEPT !.pc = "peekAddress", !.account = res]
  <2>1. req' = [req EXCEPT ![p] = a]
      BY <1>5, <1>9 DEF PeekWith
  <2>2. /\ RequestOK(a) /\ Stage(a) /\ Ahead(a) = Ahead(q) /\ DOMAIN a.lost = {}
        /\ a.pc = "peekAddress" /\ a.account = res /\ a.answer = "none"
        /\ \A t \in DOMAIN a.refused : t = "account" /\ a.refused[t] = 0 /\ ~res.allowed /\ ~res.degraded
      BY <1>1, <1>2, <1>5, <1>9, PeekAccountMoves
  <2>3. req'[p] = a
      BY <1>2, <2>1 DEF TypeOK
  <2> HIDE DEF a
  <2>4. Look(p)'
      BY <1>5, <1>7, <1>9, <2>2, <2>3 DEF Look
  <2>5. res.retryAfterMs \in Nat
      BY <1>5 DEF Results
  <2>6. Refusals(p)'
      BY <1>8, <1>9, <2>2, <2>3, <2>5 DEF Refusals
  <2> QED
      BY <1>1, <1>4, <1>6, <2>1, <2>2, <2>4, <2>6, LocalStep
<1>10. CASE tier = "address"
  <2> DEFINE a == AssertWithinLimits([q EXCEPT !.refused = Refusal(@, "address", res)], q.account, res)
  <2>1. req' = [req EXCEPT ![p] = a]
    <3>1. [q EXCEPT !.refused = Refusal(@, "address", res)].account = q.account
        BY <1>2 DEF RequestOK, Request
    <3> QED
        BY <1>5, <1>10, <3>1 DEF PeekWith
  <2>2. /\ RequestOK(a) /\ Stage(a) /\ Ahead(a) \subseteq Ahead(q) /\ DOMAIN a.lost = {}
        /\ a.answer # "unauthorized" /\ a.excused = q.excused
        /\ \/ /\ a.pc = "verify" /\ a.left = Failures /\ DOMAIN a.refused = {}
              /\ q.account.allowed /\ ~q.account.degraded /\ res.allowed /\ ~res.degraded
           \/ /\ a.pc = "done"
              /\ \A t \in DOMAIN a.refused :
                    \/ /\ t = "address" /\ a.refused[t] = 0 /\ ~res.allowed /\ ~res.degraded
                       /\ a.wait >= res.retryAfterMs
                    \/ /\ t = "account" /\ t \in DOMAIN q.refused
                       /\ a.refused[t] = q.refused[t] /\ a.wait >= q.account.retryAfterMs
      BY <1>1, <1>2, <1>5, <1>10, PeekAddressMoves
  <2>3. req'[p] = a
      BY <1>2, <2>1 DEF TypeOK
  <2> HIDE DEF a
  <2>4. Look(p)'
    <3>1. CASE a.pc = "verify"
      <4>1. "account" \in q.excused \/ Room(Key(p, "account"))
          BY <1>1, <1>2, <1>10, <2>2, <3>1 DEF Look
      <4>2. Room(Key(p, "address"))
          BY <1>5, <1>10, <2>2, <3>1
      <4>3. \A t \in Failures \ a.excused : Room(Key(p, t))'
          BY <1>7, <2>2, <4>1, <4>2, Names
      <4> QED
          BY <2>2, <2>3, <3>1, <4>3 DEF Look
    <3>2. CASE a.pc = "done"
        BY <2>2, <2>3, <3>2 DEF Look
    <3> QED
        BY <2>2, <3>1, <3>2
  <2>5. Refusals(p)'
    <3>1. SUFFICES ASSUME NEW t \in DOMAIN a.refused
                   PROVE  /\ a.refused[t] = 0 => Full(Key(p, t))'
                          /\ \E s, w : s = a.refused[t] /\ w = a.wait /\ Ends(Key(p, t), s, w)'
                          /\ a.pc # "peekAddress" /\ t \notin Guards
        BY <2>3 DEF Refusals
    <3>2. a.pc = "done" /\ a.wait \in Nat /\ a.refused[t] \in Nat /\ t \notin Guards
        BY <2>2, Fields, Names
    <3>3. CASE t = "address"
        BY <1>8, <1>10, <2>2, <3>2, <3>3
    <3>4. CASE t = "account"
      <4>1. /\ t \in DOMAIN q.refused /\ a.refused[t] = q.refused[t] /\ a.wait >= q.account.retryAfterMs
          BY <2>2, <3>2, <3>4
      <4>2. /\ q.refused[t] = 0 => Full(Key(p, t))
            /\ Ends(Key(p, t), q.refused[t], q.account.retryAfterMs)
          BY <1>1, <1>2, <1>10, <4>1 DEF Refusals
      <4>3. q.account.retryAfterMs \in Nat /\ q.refused[t] \in Nat /\ Key(p, t) \in Buckets
          BY <1>2, <4>1, Fields, KeyFacts DEF Results, RequestOK
      <4>4. Ends(Key(p, t), a.refused[t], a.wait)
          BY <1>2, <3>2, <4>1, <4>2, <4>3, WaitLonger
      <4> QED
          BY <1>4, <3>2, <4>1, <4>2, <4>3, <4>4, SameMeans
    <3> QED
        BY <2>2, <3>2, <3>3, <3>4
  <2> QED
      BY <1>1, <1>4, <1>6, <2>1, <2>2, <2>4, <2>5, LocalStep
<1> QED
    BY <1>3, <1>9, <1>10

\* Requests die with their instance; its new id has never been drawn.
LEMMA RestartKeeps ==
    ASSUME ThrottleInv, NEW r \in Replicas, Restart(r)
    PROVE  ThrottleInv'
<1>1. /\ inst' = [inst EXCEPT ![r] = drawn + 1] /\ drawn' = drawn + 1
      /\ counter' = [counter EXCEPT ![r] = 0] /\ faults < MaxFaults /\ faults' = faults + 1
      /\ UNCHANGED <<zset, ttl, up, admitted>>
    BY DEF Restart, Fault, windowVars
<1>2. req' = [p \in Requests |->
                 IF p \in UnderWay /\ Replica[p] = r
                 THEN [Answered(req[p], "dead") EXCEPT !.headers = "none", !.refused = <<>>]
                 ELSE req[p]]
    BY DEF Restart
<1>3. TypeOK /\ OthersOK /\ Members
    BY TypeParts DEF ThrottleInv
<1>4. /\ \A k \in Buckets : Same(k) /\ ttl'[k] = ttl[k] /\ DOMAIN zset'[k] \subseteq DOMAIN zset[k]
      /\ WindowOK'
    BY <1>1, <1>3, Untouched
<1>5. OthersOK'
  <2>1. drawn + 1 \in Nat /\ faults + 1 \in 0 .. MaxFaults
      BY <1>1, <1>3, ThrottleAssumption DEF OthersOK
  <2>2. inst' \in [Replicas -> 1 .. drawn + 1]
      BY <1>1, <1>3 DEF OthersOK
  <2> QED
      BY <1>1, <1>3, <2>1, <2>2 DEF OthersOK
<1>6. \A s \in Replicas : /\ s = r => inst'[s] = drawn + 1
                          /\ s # r => inst'[s] = inst[s] /\ counter'[s] = counter[s]
                          /\ inst[s] \in Nat /\ inst[s] <= drawn
    BY <1>1, <1>3 DEF OthersOK
<1>7. drawn \in Nat
    BY <1>3 DEF OthersOK
<1>8. \A s, t \in Replicas : inst'[s] = inst'[t] => s = t
    BY <1>3, <1>6, <1>7 DEF Members
<1>9. ASSUME NEW m, Drawn(m) PROVE Drawn(m)'
  <2>1. m \in Nat \X Nat /\ m[1] <= drawn /\ \A s \in Replicas : inst[s] = m[1] => m[2] <= counter[s]
      BY <1>9 DEF Drawn
  <2>2. m[1] \in Nat
      BY <2>1
  <2> QED
      BY <1>1, <1>6, <1>7, <2>1, <2>2 DEF Drawn
<1>10. ASSUME NEW q \in Requests
       PROVE  /\ RequestOK(req'[q]) /\ Stage(req'[q]) /\ Look(q)' /\ Refusals(q)'
              /\ Ahead(req'[q]) \subseteq Ahead(req[q])
              /\ \A t \in DOMAIN req'[q].lost : t \in DOMAIN req[q].lost /\ req'[q].lost[t] = req[q].lost[t]
  <2>1. RequestOK(req[q]) /\ Stage(req[q])
      BY <1>3, RequestsAreOK DEF ThrottleInv
  <2>2. CASE q \in UnderWay /\ Replica[q] = r
    <3> DEFINE a == [Answered(req[q], "dead") EXCEPT !.headers = "none", !.refused = <<>>]
    <3>1. req'[q] = a
        BY <1>2, <2>2
    <3>2. req[q].pc \notin {"idle", "done"}
        BY <2>2 DEF UnderWay
    <3>3. /\ RequestOK(a) /\ Stage(a) /\ Ahead(a) = {} /\ a.pc = "done" /\ DOMAIN a.lost = {}
          /\ DOMAIN a.refused = {} /\ a.answer = "dead"
        BY <2>1, <3>2, DeadOK
    <3> HIDE DEF a
    <3> QED
        BY <3>1, <3>3 DEF Look, Refusals
  <2>3. CASE ~(q \in UnderWay /\ Replica[q] = r)
    <3>1. req'[q] = req[q]
        BY <1>2, <2>3
    <3> QED
        BY <1>1, <1>4, <2>1, <3>1, Bystander
  <2> QED
      BY <2>2, <2>3
<1>11. req' = [q \in Requests |-> req'[q]]
    BY <1>2
<1> QED
    BY <1>1, <1>4, <1>5, <1>8, <1>9, <1>10, <1>11, QuietStep

\* An outage excuses whoever has looked; when it ends nobody relied on Redis.
LEMMA OutageKeeps ==
    ASSUME ThrottleInv, Outage
    PROVE  ThrottleInv'
<1>1. /\ up' = ~up /\ UNCHANGED <<zset, ttl, inst, drawn, counter, admitted>>
      /\ req' = IF up THEN [p \in Requests |-> [req[p] EXCEPT !.excused = @ \cup Seen(req[p])]] ELSE req
    BY DEF Outage, Connection
<1>2. TypeOK /\ OthersOK
    BY TypeParts DEF ThrottleInv
<1>3. /\ \A k \in Buckets : Same(k) /\ ttl'[k] = ttl[k] /\ DOMAIN zset'[k] \subseteq DOMAIN zset[k]
      /\ WindowOK'
    BY <1>1, <1>2, Untouched
<1>4. OthersOK'
  <2>1. faults' \in 0 .. MaxFaults
      BY <1>2, ThrottleAssumption DEF OthersOK, Outage, Fault
  <2> QED
      BY <1>1, <1>2, <2>1 DEF OthersOK
<1>5. \A r, s \in Replicas : inst'[r] = inst'[s] => r = s
    BY <1>1 DEF ThrottleInv, Members
<1>6. \A m : Drawn(m) => Drawn(m)'
    BY <1>1 DEF Drawn
<1>7. ASSUME NEW q \in Requests
      PROVE  /\ RequestOK(req'[q]) /\ Stage(req'[q]) /\ Look(q)' /\ Refusals(q)'
             /\ Ahead(req'[q]) \subseteq Ahead(req[q])
             /\ \A t \in DOMAIN req'[q].lost : t \in DOMAIN req[q].lost /\ req'[q].lost[t] = req[q].lost[t]
  <2> DEFINE c == req[q]
             a == req'[q]
  <2>1. RequestOK(c) /\ Stage(c) /\ Look(q) /\ Refusals(q)
      BY <1>2, RequestsAreOK DEF ThrottleInv
  <2>2. /\ RequestOK(a) /\ a.pc = c.pc /\ a.left = c.left /\ a.lost = c.lost /\ a.account = c.account
        /\ a.headers = c.headers /\ a.answer = c.answer /\ a.wait = c.wait
        /\ a.unmetered = c.unmetered /\ a.counted = c.counted /\ a.refused = c.refused
        /\ c.excused \subseteq a.excused /\ (up => Seen(c) \subseteq a.excused)
    <3>1. CASE up
      <4>1. a = [c EXCEPT !.excused = @ \cup Seen(c)]
          BY <1>1, <3>1
      <4>2. Seen(c) \in SUBSET Failures
          BY <2>1, Names DEF Seen, Stage
      <4> HIDE DEF a
      <4>3. LET b == [c EXCEPT !.excused = @ \cup Seen(c)]
            IN  /\ RequestOK(b) /\ b.excused = c.excused \cup Seen(c)
                /\ b.pc = c.pc /\ b.left = c.left /\ b.lost = c.lost /\ b.account = c.account
                /\ b.headers = c.headers /\ b.answer = c.answer /\ b.wait = c.wait
                /\ b.unmetered = c.unmetered /\ b.counted = c.counted /\ b.refused = c.refused
          BY <2>1, <4>2, ExcusedOK
      <4> QED
          BY <4>1, <4>3
    <3>2. CASE ~up
        BY <1>1, <2>1, <3>2
    <3> QED
        BY <3>1, <3>2
  <2>3. Stage(a) /\ Ahead(a) = Ahead(c)
      BY <2>1, <2>2 DEF Stage, Ahead
  <2>4. Look(q)'
      BY <2>1, <2>2, LookKept DEF Room
  <2>5. Refusals(q)'
    <3>1. \A t \in DOMAIN c.refused : Key(q, t) \in Buckets
        BY <2>1, KeyFacts DEF RequestOK
    <3> QED
        BY <1>2, <1>3, <2>1, <2>2, <3>1, SameServes, RefusalsKept
  <2> QED
      BY <2>2, <2>3, <2>4, <2>5
<1>8. req' = [q \in Requests |-> req'[q]]
    BY <1>1, <1>2 DEF TypeOK
<1> QED
    BY <1>1, <1>3, <1>4, <1>5, <1>6, <1>7, <1>8, QuietStep

\* A success drops a request's refusal by the account's counter, and nothing else.
LEMMA AbsolvedOK ==
    ASSUME NEW p \in Requests, NEW q \in Requests, RequestOK(req[q]), Stage(req[q])
    PROVE  LET c == req[q] a == Absolved(p)[q]
           IN  /\ RequestOK(a) /\ Stage(a) /\ Ahead(a) = Ahead(c)
               /\ a.pc = c.pc /\ a.left = c.left /\ a.lost = c.lost /\ a.account = c.account
               /\ a.answer = c.answer /\ a.wait = c.wait /\ a.counted = c.counted /\ a.excused = c.excused
               /\ \A t \in DOMAIN a.refused : t \in DOMAIN c.refused /\ a.refused[t] = c.refused[t]
               /\ Key(q, "account") = Key(p, "account") => "account" \notin DOMAIN a.refused
<1> DEFINE c == req[q]
           a == Absolved(p)[q]
           f == [t \in DOMAIN c.refused \ {"account"} |-> c.refused[t]]
<1>1. CASE Key(q, "account") # Key(p, "account")
  <2>1. a = c
      BY <1>1 DEF Absolved
  <2> QED
      BY <1>1, <2>1
<1>2. CASE Key(q, "account") = Key(p, "account")
  <2>1. a = [c EXCEPT !.refused = f]
      BY <1>2 DEF Absolved, Restrict, RequestOK, Request
  <2>2. /\ f \in [DOMAIN f -> Nat] /\ DOMAIN f \subseteq Tiers /\ DOMAIN f = DOMAIN c.refused \ {"account"}
        /\ \A t \in DOMAIN f : f[t] = c.refused[t]
      BY Fields DEF RequestOK
  <2> HIDE DEF f
  <2>3. /\ RequestOK(a) /\ a.refused = f
        /\ a.pc = c.pc /\ a.left = c.left /\ a.lost = c.lost /\ a.account = c.account
        /\ a.headers = c.headers /\ a.answer = c.answer /\ a.wait = c.wait
        /\ a.unmetered = c.unmetered /\ a.counted = c.counted /\ a.excused = c.excused
      BY <2>1, <2>2, RefusedOK
  <2>4. Stage(a) /\ Ahead(a) = Ahead(c)
      BY <2>2, <2>3 DEF Stage, Ahead
  <2> QED
      BY <2>2, <2>3, <2>4
<1> QED
    BY <1>1, <1>2

\* The password was right, and the request is on its way to its token.
LEMMA ProvenOK ==
    ASSUME NEW q, RequestOK(q), Stage(q), q.pc \in {"verify", "clear"}, DOMAIN q.lost = {},
           NEW pc \in {"clear", "issue"}
    PROVE  LET a == Proven(q, pc)
           IN  /\ RequestOK(a) /\ Stage(a) /\ Ahead(a) = {} /\ a.pc = pc /\ a.answer = "none"
               /\ DOMAIN a.lost = {} /\ DOMAIN a.refused = {}
<1> DEFINE a == Proven(q, pc)
<1>1. /\ a.pc = pc /\ a.left = {} /\ a.lost = q.lost /\ a.account = q.account
      /\ a.headers = q.headers /\ a.answer = q.answer /\ a.wait = q.wait
      /\ a.refused = q.refused /\ a.unmetered = q.unmetered
    BY DEF RequestOK, Request, Proven
<1>2. RequestOK(a)
    BY DEF RequestOK, Request, Proven
<1> HIDE DEF a
<1> QED
    BY <1>1, <1>2 DEF Stage, Ahead, a

\* The DEL of recordSuccess runs, and its reply arrives or does not.
Clears(p, pc) ==
    /\ Del(Cleared(p))
    /\ admitted' = [q \in Requests |->
          IF Key(q, "account") = Key(p, "account")
          THEN [admitted[q] EXCEPT !["account"] = Past[q]["account"]]
          ELSE admitted[q]]
    /\ req' = [Absolved(p) EXCEPT ![p] = Proven(@, pc)]
    /\ faults' \in 0 .. MaxFaults /\ UNCHANGED <<up, inst, drawn, counter>>

\* A login that succeeds empties the counter of its account, and nobody's but that.
LEMMA SuccessKeeps ==
    ASSUME ThrottleInv, NEW p \in Requests, NEW pc \in {"clear", "issue"},
           req[p].pc \in {"verify", "clear"}, DOMAIN req[p].lost = {}, Clears(p, pc)
    PROVE  ThrottleInv'
<1> DEFINE k == Key(p, "account")
<1>1. /\ faults' \in 0 .. MaxFaults /\ UNCHANGED <<up, inst, drawn, counter>> /\ Del({k})
      /\ admitted' = [q \in Requests |->
            IF Key(q, "account") = k THEN [admitted[q] EXCEPT !["account"] = Past[q]["account"]]
            ELSE admitted[q]]
      /\ req' = [Absolved(p) EXCEPT ![p] = Proven(@, pc)]
    BY DEF Clears, Cleared
<1>2. TypeOK /\ OthersOK /\ WindowOK /\ Counts /\ Members /\ Lasting /\ NotYet
    BY TypeParts DEF ThrottleInv
<1>3. "account" \in Tiers /\ k \in Buckets /\ TierOf[k] = "account"
    BY Names, KeyFacts
<1>4. /\ zset'[k] = NoEvents /\ Live(k)' = {}
      /\ \A j \in Buckets \ {k} : zset'[j] = zset[j] /\ ttl'[j] = ttl[j]
    BY <1>1, <1>2, <1>3, DelEffect
<1>5. DOMAIN zset'[k] = {}
    BY <1>4 DEF NoEvents
<1>6. \A j \in Buckets \ {k} : Same(j)
    BY <1>4, SameBucket
<1>7. ~Full(k)'
  <2>1. Cardinality(Live(k)') = 0
      BY <1>4, FS_EmptySet
  <2>2. Limit[k] \in Nat \ {0}
      BY <1>3, BucketFacts
  <2> QED
      BY <2>1, <2>2 DEF Full
<1> DEFINE b(q) == Absolved(p)[q]
<1>8. \A q \in Requests : RequestOK(req[q]) /\ Stage(req[q]) /\ Look(q) /\ Refusals(q)
    BY <1>2, RequestsAreOK DEF ThrottleInv
<1>9. req' = [q \in Requests |-> IF q = p THEN Proven(b(p), pc) ELSE b(q)]
    BY <1>1 DEF Absolved
<1>10. ASSUME NEW q \in Requests
       PROVE  LET c == req[q] a == b(q)
              IN  /\ RequestOK(a) /\ Stage(a) /\ Ahead(a) = Ahead(c)
                  /\ a.pc = c.pc /\ a.left = c.left /\ a.lost = c.lost /\ a.account = c.account
                  /\ a.answer = c.answer /\ a.wait = c.wait /\ a.counted = c.counted /\ a.excused = c.excused
                  /\ \A t \in DOMAIN a.refused : t \in DOMAIN c.refused /\ a.refused[t] = c.refused[t]
                  /\ Key(q, "account") = k => "account" \notin DOMAIN a.refused
    BY <1>8, AbsolvedOK
<1>11. ASSUME NEW q \in Requests
       PROVE  /\ RequestOK(req'[q]) /\ Stage(req'[q]) /\ Look(q)' /\ Refusals(q)'
              /\ Ahead(req'[q]) \subseteq Ahead(req[q])
              /\ \A t \in DOMAIN req'[q].lost : t \in DOMAIN req[q].lost /\ req'[q].lost[t] = req[q].lost[t]
  <2>1. CASE q = p
    <3> DEFINE a == Proven(b(p), pc)
    <3>1. RequestOK(b(p)) /\ Stage(b(p)) /\ b(p).pc \in {"verify", "clear"} /\ DOMAIN b(p).lost = {}
        BY <1>10
    <3> HIDE DEF b
    <3>2. req'[p] = a
        BY <1>9
    <3>3. /\ RequestOK(a) /\ Stage(a) /\ Ahead(a) = {} /\ a.pc = pc /\ a.answer = "none"
          /\ DOMAIN a.lost = {} /\ DOMAIN a.refused = {}
        BY <3>1, ProvenOK
    <3> HIDE DEF a
    <3> QED
        BY <2>1, <3>2, <3>3 DEF Look, Refusals
  <2>2. CASE q # p
    <3>1. req'[q] = b(q)
        BY <1>9, <2>2
    <3>2. \A t \in Seen(req[q]) : Key(q, t) \in Buckets
        BY <1>8, KeyFacts, Names, Fields DEF Seen
    <3>3. Look(q)'
      <4>1. \A j \in Buckets : Room(j) => Room(j)'
          BY <1>1, <1>6, <1>7, SameMeans DEF Room
      <4> HIDE DEF b
      <4> QED
          BY <1>8, <1>10, <3>1, <3>2, <4>1, LookKept
    <3> HIDE DEF b
    <3>4. ASSUME NEW t \in DOMAIN req'[q].refused
          PROVE  t \in DOMAIN req[q].refused /\ t \in Tiers /\ Same(Key(q, t))
      <4>1. t \in DOMAIN req[q].refused /\ t \in Tiers
          BY <1>8, <1>10, <3>1, <3>4 DEF RequestOK
      <4>2. Key(q, t) \in Buckets /\ TierOf[Key(q, t)] = t
          BY <4>1, KeyFacts
      <4>3. Key(q, t) # k
          BY <1>3, <1>10, <3>1, <3>4, <4>2
      <4> QED
          BY <1>6, <4>1, <4>2, <4>3
    <3>5. Refusals(q)'
        BY <1>2, <1>8, <1>10, <3>1, <3>4, SameServes, RefusalsKept
    <3> QED
        BY <1>10, <3>1, <3>3, <3>5
  <2> QED
      BY <2>1, <2>2
<1> HIDE DEF b
<1>12. TypeOK'
  <2>1. RequestsOK'
      BY <1>9, <1>11 DEF RequestsOK, RequestOK
  <2>2. ttl' \in [Buckets -> Nat]
      BY <1>1, <1>2 DEF Del, WindowOK
  <2>3. zset' = [j \in Buckets |-> zset'[j]] /\ NoEvents = [m \in DOMAIN NoEvents |-> NoEvents[m]]
      BY <1>1 DEF Del, NoEvents
  <2>4. \A j \in Buckets : /\ zset'[j] = [m \in DOMAIN zset'[j] |-> zset'[j][m]]
                           /\ \A m \in DOMAIN zset'[j] : zset'[j][m] \in 0 .. Window[j]
    <3>1. \A j \in Buckets : zset[j] = [m \in DOMAIN zset[j] |-> zset[j][m]]
        BY <1>2 DEF WindowOK
    <3>2. TAKE j \in Buckets
    <3>3. CASE j = k
        BY <1>4, <1>5, <2>3, <3>3
    <3>4. CASE j # k
        BY <1>2, <1>4, <3>1, <3>4 DEF WindowOK
    <3> QED
        BY <3>3, <3>4
  <2>5. WindowOK'
      BY <2>2, <2>3, <2>4 DEF WindowOK
  <2>6. admitted' \in [Requests -> [Tiers -> Nat]]
    <3>1. \A q \in Requests : Past[q]["account"] \in Nat
        BY <1>3, KeyFacts, BucketFacts
    <3> QED
        BY <1>1, <1>2, <3>1 DEF OthersOK
  <2>7. OthersOK'
      BY <1>1, <1>2, <2>6 DEF OthersOK
  <2> QED
      BY <2>1, <2>5, <2>7, TypesLater
<1>13. ASSUME NEW q \in Requests, NEW t \in Tiers
       PROVE  admitted'[q][t] = IF t = "account" /\ Key(q, t) = k THEN Past[q][t] ELSE admitted[q][t]
    BY <1>1, <1>2 DEF OthersOK
<1>14. NotYet'
  <2>1. \A q \in Requests : Ahead(req[q]) \subseteq Tiers
      BY <1>8, Fields, Names DEF Ahead
  <2> QED
      BY <1>2, <1>11, <1>13, <2>1 DEF NotYet
<1>15. Members'
  <2>1. \A m : Drawn(m) => Drawn(m)'
      BY <1>1 DEF Drawn
  <2>2. \A j \in Buckets : DOMAIN zset'[j] \subseteq DOMAIN zset[j]
      BY <1>4, <1>5
  <2> QED
      BY <1>1, <1>2, <1>11, <2>1, <2>2 DEF Members
<1>16. Lasting'
    BY <1>2, <1>4, <1>6 DEF Lasting, Same
<1>17. Counts'
  <2>1. SUFFICES ASSUME NEW j \in Buckets PROVE Exact(j)'
      BY DEF Counts
  <2>2. TierOf[j] \in Tiers
      BY BucketFacts
  <2>3. CASE j = k
    <3>1. \A q \in Requests : Key(q, TierOf[k]) = k => admitted'[q][TierOf[k]] = Window[k]
        BY <1>3, <1>13, KeyFacts
    <3> QED
        BY <1>3, <1>4, <2>3, <3>1, ExactEmptied
  <2>4. CASE j # k
    <3>1. Exact(j) /\ Same(j)
        BY <1>2, <1>6, <2>4 DEF Counts
    <3>2. \A q \in Requests : Key(q, TierOf[j]) = j => admitted'[q][TierOf[j]] = admitted[q][TierOf[j]]
        BY <1>13, <2>2, <2>4
    <3> QED
        BY <1>11, <3>1, <3>2, ExactKept
  <2> QED
      BY <2>3, <2>4
<1> QED
    BY <1>11, <1>12, <1>14, <1>15, <1>16, <1>17 DEF ThrottleInv

\* One request moves, and no window.
LEMMA MovesOn ==
    ASSUME ThrottleInv, NEW p \in Requests, NEW a, RequestOK(a), Stage(a), Ahead(a) = {},
           DOMAIN a.lost = {}, DOMAIN a.refused = {}, a.pc \notin {"peekAddress", "verify"},
           a.answer # "unauthorized", req' = [req EXCEPT ![p] = a],
           UNCHANGED <<zset, ttl, up, inst, drawn, counter, faults, admitted>>
    PROVE  ThrottleInv'
<1>1. TypeOK /\ OthersOK /\ RequestOK(req[p]) /\ Stage(req[p])
    BY TypeParts, RequestsAreOK DEF ThrottleInv
<1>2. req'[p] = a
    BY <1>1 DEF TypeOK
<1>3. Look(p)' /\ Refusals(p)'
    BY <1>2 DEF Look, Refusals
<1>4. OthersOK' /\ \A m : Drawn(m) => Drawn(m)'
    BY <1>1 DEF OthersOK, Drawn
<1>5. /\ \A k \in Buckets : Same(k) /\ ttl'[k] = ttl[k] /\ DOMAIN zset'[k] \subseteq DOMAIN zset[k]
      /\ WindowOK'
    BY <1>1, Untouched
<1> QED
    BY <1>2, <1>3, <1>4, <1>5, LocalStep

LEMMA RecordSuccessKeeps ==
    ASSUME ThrottleInv, NEW p \in Requests, RecordSuccess(p)
    PROVE  ThrottleInv'
<1>1. TypeOK /\ RequestOK(req[p]) /\ Stage(req[p]) /\ faults \in 0 .. MaxFaults
    BY RequestsAreOK DEF ThrottleInv, TypeOK
<1>2. req[p].pc \in {"verify", "clear"} /\ DOMAIN req[p].lost = {}
  <2>1. DOMAIN <<>> = {}
      OBVIOUS
  <2> QED
      BY <1>1, <2>1 DEF RecordSuccess, Stage, RequestOK
<1>3. CASE /\ Del(Cleared(p))
           /\ admitted' = [q \in Requests |->
                 IF Key(q, "account") = Key(p, "account")
                 THEN [admitted[q] EXCEPT !["account"] = Past[q]["account"]]
                 ELSE admitted[q]]
           /\ \/ /\ req' = [Absolved(p) EXCEPT ![p] = Proven(@, "issue")]
                 /\ UNCHANGED faults
              \/ /\ Fault
                 /\ req' = [Absolved(p) EXCEPT ![p] = Proven(@, "clear")]
           /\ UNCHANGED <<up, inst, drawn, counter>>
  <2>1. faults' \in 0 .. MaxFaults
      BY <1>1, <1>3, ThrottleAssumption DEF Fault
  <2>2. PICK pc \in {"clear", "issue"} : req' = [Absolved(p) EXCEPT ![p] = Proven(@, pc)]
      BY <1>3
  <2>3. Clears(p, pc)
      BY <1>3, <2>1, <2>2 DEF Clears
  <2> QED
      BY <1>2, <2>3, SuccessKeeps
<1>4. CASE /\ req' = [req EXCEPT ![p] = Proven(@, "issue")]
           /\ UNCHANGED <<zset, ttl, admitted, faults, up, inst, drawn, counter>>
  <2> DEFINE a == Proven(req[p], "issue")
  <2>1. /\ RequestOK(a) /\ Stage(a) /\ Ahead(a) = {} /\ a.pc = "issue" /\ a.answer = "none"
        /\ DOMAIN a.lost = {} /\ DOMAIN a.refused = {}
      BY <1>1, <1>2, ProvenOK
  <2>2. req' = [req EXCEPT ![p] = a]
      BY <1>4
  <2> HIDE DEF a
  <2> QED
      BY <1>4, <2>1, <2>2, MovesOn
<1> QED
    BY <1>3, <1>4 DEF RecordSuccess

\* The login is answered.
LEMMA IssueKeeps ==
    ASSUME ThrottleInv, NEW p \in Requests, Issue(p)
    PROVE  ThrottleInv'
<1>1. PICK answer \in {"token", "error"} : req' = [req EXCEPT ![p] = Answered(@, answer)]
    BY DEF Issue
<1>2. req[p].pc = "issue" /\ UNCHANGED <<zset, ttl, up, inst, drawn, counter, faults, admitted>>
    BY DEF Issue, windowVars
<1>3. RequestOK(req[p]) /\ Stage(req[p])
    BY RequestsAreOK DEF ThrottleInv
<1> DEFINE a == Answered(req[p], answer)
<1>4. answer \in Answers
    BY DEF Answers
<1>5. /\ RequestOK(a) /\ a.pc = "done" /\ a.answer = answer /\ a.left = {}
      /\ a.headers = req[p].headers /\ a.wait = req[p].wait /\ a.refused = req[p].refused
      /\ DOMAIN a.lost = {} /\ a.unmetered = req[p].unmetered
    BY <1>3, <1>4, AnsweredOK
<1>6. req' = [req EXCEPT ![p] = a]
    BY <1>1
<1> HIDE DEF a
<1>7. Stage(a) /\ Ahead(a) = {} /\ DOMAIN a.refused = {}
    BY <1>2, <1>3, <1>5 DEF Stage, Ahead
<1> QED
    BY <1>2, <1>5, <1>6, <1>7, MovesOn

LEMMA TickTypes ==
    ASSUME TypeOK, Tick
    PROVE  WindowOK'
<1>1. WindowOK
    BY TypeParts
<1>2. ttl' \in [Buckets -> Nat]
    BY <1>1 DEF Tick, WindowOK, Less
<1>3. zset' = [k \in Buckets |-> zset'[k]]
    BY DEF Tick
<1>4. ASSUME NEW k \in Buckets
      PROVE  /\ zset'[k] = [m \in DOMAIN zset'[k] |-> zset'[k][m]]
             /\ \A m \in DOMAIN zset'[k] : zset'[k][m] \in 0 .. Window[k]
  <2>1. CASE ttl'[k] = 0
    <3>1. zset'[k] = NoEvents
        BY <2>1 DEF Tick
    <3>2. DOMAIN NoEvents = {} /\ NoEvents = [m \in DOMAIN NoEvents |-> NoEvents[m]]
        BY DEF NoEvents
    <3> QED
        BY <3>1, <3>2
  <2>2. CASE ttl'[k] # 0
    <3>1. zset'[k] = [m \in DOMAIN zset[k] |-> Older(zset[k][m], Window[k])]
        BY <2>2 DEF Tick
    <3>2. \A m \in DOMAIN zset[k] : Older(zset[k][m], Window[k]) \in 0 .. Window[k]
        BY <1>1, BucketFacts DEF WindowOK, Older
    <3> QED
        BY <3>1, <3>2
  <2> QED
      BY <2>1, <2>2
<1> QED
    BY <1>2, <1>3, <1>4 DEF WindowOK

\* Windows, requests and promises grow older together.
LEMMA ClockKeeps ==
    ASSUME ThrottleInv, Clock
    PROVE  ThrottleInv'
<1>1. /\ Tick /\ UNCHANGED <<up, inst, drawn, counter>>
      /\ admitted' = [p \in Requests |-> [t \in Tiers |-> Older(admitted[p][t], Past[p][t])]]
      /\ req' = [p \in Requests |-> Aged(p)]
    BY DEF Clock, Tick
<1>2. TypeOK /\ OthersOK /\ Counts /\ Members /\ Lasting /\ NotYet
    BY TypeParts DEF ThrottleInv
<1>3. \A k \in Buckets :
         /\ Live(k)' = {m \in Live(k) : zset[k][m] + 1 < Window[k]}
         /\ \A m \in Live(k)' : zset'[k][m] = zset[k][m] + 1
         /\ DOMAIN zset'[k] \subseteq DOMAIN zset[k] /\ ttl'[k] = Less(ttl[k])
    BY <1>1, <1>2, TickEffect
<1>4. ASSUME NEW q \in Requests
      PROVE  LET c == req[q] a == req'[q]
             IN  /\ RequestOK(a) /\ Stage(a) /\ Ahead(a) = Ahead(c) /\ a.answer \in {"none", c.answer}
                 /\ a.pc = c.pc /\ a.lost = c.lost /\ DOMAIN a.refused \subseteq DOMAIN c.refused
                 /\ \A t \in DOMAIN a.refused : a.refused[t] = c.refused[t] + 1
                 /\ c.pc = "done" /\ DOMAIN a.refused # {} => c.wait > 0 /\ a.wait = c.wait - 1
                 /\ c.pc # "done" =>
                       /\ a.left = c.left /\ a.account = c.account /\ a.counted = c.counted
                       /\ a.excused = c.excused /\ a.answer = "none"
                 /\ c.pc = "done" => a.answer = "none"
                 /\ RequestOK(c) /\ Stage(c) /\ Look(q) /\ Refusals(q)
  <2>1. RequestOK(req[q]) /\ Stage(req[q]) /\ Look(q) /\ Refusals(q)
      BY <1>2, RequestsAreOK DEF ThrottleInv
  <2>2. req'[q] = Aged(q)
      BY <1>1
  <2> QED
      BY <2>1, <2>2, AgedOK
<1>5. TypeOK'
  <2>1. RequestsOK'
      BY <1>1, <1>4 DEF RequestsOK, RequestOK
  <2>2. WindowOK'
      BY <1>1, <1>2, TickTypes
  <2>3. admitted' \in [Requests -> [Tiers -> Nat]]
    <3>1. \A p \in Requests : \A t \in Tiers : Older(admitted[p][t], Past[p][t]) \in Nat
        BY <1>2, KeyFacts, BucketFacts DEF OthersOK, Older
    <3> QED
        BY <1>1, <3>1
  <2>4. faults' \in 0 .. MaxFaults
      BY <1>2, ThrottleAssumption DEF OthersOK, Clock, Fault
  <2>5. OthersOK'
      BY <1>1, <1>2, <2>3, <2>4 DEF OthersOK
  <2> QED
      BY <2>1, <2>2, <2>5, TypesLater
<1>6. ASSUME NEW q \in Requests PROVE Look(q)'
  <2>1. CASE req[q].pc = "done"
      BY <1>4, <2>1 DEF Look
  <2>2. CASE req[q].pc # "done"
    <3>1. \A t \in Seen(req[q]) : Key(q, t) \in Buckets
        BY <1>4, KeyFacts, Names, Fields DEF Seen
    <3>2. \A k \in Buckets : Room(k) => Room(k)'
      <4>1. \A k \in Buckets : ~Full(k) => ~Full(k)'
          BY <1>1, <1>2, TickKeepsWaits
      <4> QED
          BY <1>1, <4>1 DEF Room
    <3>3. req'[q].answer = req[q].answer
        BY <1>4, <2>2 DEF Stage
    <3> QED
        BY <1>4, <2>2, <3>1, <3>2, <3>3, LookKept
  <2> QED
      BY <2>1, <2>2
<1>7. ASSUME NEW q \in Requests PROVE Refusals(q)'
  <2> DEFINE c == req[q]
  <2>1. SUFFICES ASSUME NEW t \in DOMAIN req'[q].refused, NEW s, s = c.refused[t]
                 PROVE  /\ s + 1 # 0
                        /\ c.pc = "peekAddress" =>
                              \E w : w = c.account.retryAfterMs /\ Ends(Key(q, t), s + 1, w)'
                        /\ c.pc = "done" => \E w : w = c.wait - 1 /\ Ends(Key(q, t), s + 1, w)'
                        /\ c.pc = "done" /\ c.wait - 1 >= Second /\ t \in Guards =>
                              \E w : w = c.wait - 1 - Second /\ Lasts(Key(q, t), s + 1, w)'
      BY <1>4 DEF Refusals
  <2>2. t \in DOMAIN c.refused /\ s \in Nat /\ Key(q, t) \in Buckets
      BY <1>4, <2>1, Fields, KeyFacts DEF RequestOK
  <2>3. c.wait \in Nat /\ c.account.retryAfterMs \in Nat /\ Second \in Nat \ {0}
      BY <1>4, Fields, WindowAssumption DEF Results
  <2>4. ASSUME NEW v \in Nat, Ends(Key(q, t), s, v)
        PROVE  \A w \in Nat : w >= v - 1 => Ends(Key(q, t), s + 1, w)'
      BY <1>1, <1>2, <2>2, <2>4, TickKeepsWaits
  <2>5. CASE c.pc = "peekAddress"
    <3>1. Ends(Key(q, t), s, c.account.retryAfterMs)
        BY <1>4, <2>1, <2>2, <2>5 DEF Refusals
    <3> QED
        BY <2>2, <2>3, <2>4, <2>5, <3>1
  <2>6. CASE c.pc = "done"
    <3>1. Ends(Key(q, t), s, c.wait) /\ c.wait > 0
        BY <1>4, <2>1, <2>2, <2>6 DEF Refusals
    <3>2. \E w : w = c.wait - 1 /\ Ends(Key(q, t), s + 1, w)'
        BY <2>3, <2>4, <3>1
    <3>3. ASSUME c.wait - 1 >= Second, t \in Guards
          PROVE  \E w : w = c.wait - 1 - Second /\ Lasts(Key(q, t), s + 1, w)'
      <4>1. Lasts(Key(q, t), s, c.wait - Second) /\ c.wait - Second \in Nat /\ c.wait - Second > 0
          BY <1>4, <2>1, <2>2, <2>3, <2>6, <3>3 DEF Refusals
      <4>2. PICK v : v = c.wait - Second
          OBVIOUS
      <4>3. v \in Nat /\ v > 0 /\ Lasts(Key(q, t), s, v)
          BY <4>1, <4>2
      <4>4. Lasts(Key(q, t), s + 1, v - 1)'
          BY <1>1, <1>2, <2>2, <4>3, TickKeepsWaits
      <4>5. v - 1 = c.wait - 1 - Second
          BY <2>3, <4>2
      <4> QED
          BY <4>4, <4>5
    <3> QED
        BY <2>2, <2>6, <3>2, <3>3
  <2> QED
      BY <2>2, <2>5, <2>6
<1>8. NotYet'
  <2>1. \A q \in Requests : Ahead(req[q]) \subseteq Tiers
      BY <1>4, Fields, Names DEF Ahead
  <2>2. ASSUME NEW q \in Requests, NEW t \in Ahead(req'[q]) PROVE admitted'[q][t] = Past[q][t]
    <3>1. t \in Tiers /\ admitted[q][t] = Past[q][t] /\ Past[q][t] \in Nat
        BY <1>2, <1>4, <2>1, <2>2, KeyFacts, BucketFacts DEF NotYet
    <3> QED
        BY <1>1, <3>1 DEF Older
  <2> QED
      BY <2>2 DEF NotYet
<1>9. Members'
  <2>1. \A m : Drawn(m) => Drawn(m)'
      BY <1>1 DEF Drawn
  <2> QED
      BY <1>1, <1>2, <1>3, <1>4, <2>1 DEF Members
<1>10. Lasting'
  <2>1. SUFFICES ASSUME NEW k \in Buckets, NEW m \in Live(k)' PROVE zset'[k][m] + ttl'[k] > Window[k]
      BY DEF Lasting
  <2>2. m \in Live(k) /\ zset[k][m] + 1 < Window[k] /\ zset'[k][m] = zset[k][m] + 1 /\ ttl'[k] = Less(ttl[k])
      BY <1>3, <2>1
  <2>3. zset[k][m] \in Nat /\ Window[k] \in Nat /\ ttl[k] \in Nat /\ zset[k][m] + ttl[k] > Window[k]
      BY <1>2, <2>2, LiveFacts, BucketFacts DEF TypeOK, Lasting
  <2> QED
      BY <2>2, <2>3 DEF Less
<1>11. Counts'
    BY <1>1, <1>2, <1>4, ExactTicks DEF Counts
<1> QED
    BY <1>4, <1>5, <1>6, <1>7, <1>8, <1>9, <1>10, <1>11 DEF ThrottleInv

-----------------------------------------------------------------------------
(* A command of consume() runs.                                            *)

\* A full bucket keeps what it has; the member it refused stands for nobody else.
LEMMA ExactRefused ==
    ASSUME NEW p \in Requests, NEW tier \in Tiers, NEW member, NEW k \in Buckets, k = Key(p, tier),
           Exact(k), Same(k), UNCHANGED admitted,
           \E f \in Bijection(Admitted(k), Live(k)) :
              Represents(f, k) /\ \A q \in Admitted(k) : f[q] = member <=> q = p,
           tier \in DOMAIN req'[p].lost => req'[p].lost[tier] = member,
           \A q \in Requests \ {p} : req'[q].lost = req[q].lost
    PROVE  Exact(k)'
<1>1. TierOf[k] = tier
    BY KeyFacts
<1>2. PICK f \in Bijection(Admitted(k), Live(k)) :
          Represents(f, k) /\ \A q \in Admitted(k) : f[q] = member <=> q = p
    OBVIOUS
<1>3. Admitted(k)' = Admitted(k)
    BY DEF Admitted
<1>4. Live(k)' = Live(k) /\ \A x \in Live(k) : zset'[k][x] = zset[k][x]
    BY DEF Same
<1>5. \A q \in Admitted(k) : f[q] \in Live(k) /\ zset[k][f[q]] = admitted[q][tier]
    BY <1>1, <1>2, BijectionMeans DEF Represents
<1>6. ASSUME NEW s \in Requests, tier \in DOMAIN req'[s].lost, Key(s, tier) = k, NEW q \in Admitted(k)
      PROVE  f[q] = req'[s].lost[tier] <=> q = s
  <2>1. CASE s = p
      BY <1>2, <1>6, <2>1
  <2>2. CASE s # p
      BY <1>1, <1>2, <1>6, <2>2 DEF Represents
  <2> QED
      BY <2>1, <2>2
<1>7. Represents(f, k)'
    BY <1>1, <1>2, <1>3, <1>4, <1>5, <1>6 DEF Represents
<1> QED
    BY <1>2, <1>3, <1>4, <1>7 DEF Exact

\* Whoever relied on the place that was taken is excused.
LEMMA OvertakenOK ==
    ASSUME NEW k \in Buckets, NEW tier \in Tiers, NEW q \in Requests, RequestOK(req[q]), Stage(req[q])
    PROVE  LET c == req[q] a == Overtaken(k, tier)[q]
           IN  /\ RequestOK(a) /\ Stage(a) /\ Ahead(a) = Ahead(c)
               /\ a.pc = c.pc /\ a.left = c.left /\ a.lost = c.lost /\ a.account = c.account
               /\ a.answer = c.answer /\ a.wait = c.wait /\ a.counted = c.counted /\ a.refused = c.refused
               /\ c.excused \subseteq a.excused
               /\ tier \in Seen(c) /\ Key(q, tier) = k => tier \in a.excused
<1> DEFINE c == req[q]
           a == Overtaken(k, tier)[q]
<1>1. CASE ~(tier \in Seen(c) /\ Key(q, tier) = k)
  <2>1. a = c
      BY <1>1 DEF Overtaken
  <2> QED
      BY <1>1, <2>1
<1>2. CASE tier \in Seen(c) /\ Key(q, tier) = k
  <2>1. a = [c EXCEPT !.excused = @ \cup {tier}]
      BY <1>2 DEF Overtaken
  <2>2. {tier} \in SUBSET Failures
      BY <1>2, Names DEF Seen, Stage
  <2>3. /\ RequestOK(a) /\ a.excused = c.excused \cup {tier}
        /\ a.pc = c.pc /\ a.left = c.left /\ a.lost = c.lost /\ a.account = c.account
        /\ a.headers = c.headers /\ a.answer = c.answer /\ a.wait = c.wait
        /\ a.unmetered = c.unmetered /\ a.counted = c.counted /\ a.refused = c.refused
    <3>1. LET b == [c EXCEPT !.excused = @ \cup {tier}]
          IN  /\ RequestOK(b) /\ b.excused = c.excused \cup {tier}
              /\ b.pc = c.pc /\ b.left = c.left /\ b.lost = c.lost /\ b.account = c.account
              /\ b.headers = c.headers /\ b.answer = c.answer /\ b.wait = c.wait
              /\ b.unmetered = c.unmetered /\ b.counted = c.counted /\ b.refused = c.refused
        BY <2>2, ExcusedOK
    <3> HIDE DEF a
    <3> QED
        BY <2>1, <3>1
  <2>4. Stage(a) /\ Ahead(a) = Ahead(c)
    <3> HIDE DEF a
    <3> QED
        BY <2>3 DEF Stage, Ahead
  <2> QED
      BY <2>3, <2>4
<1> QED
    BY <1>1, <1>2

\* c is the request, with the failure counted if its bucket has room.
CountsItself(p, tier, c) ==
    LET q == req[p]
    IN  /\ RequestOK(c) /\ c.pc = q.pc /\ c.left = q.left /\ c.lost = q.lost /\ c.account = q.account
        /\ c.headers = q.headers /\ c.answer = q.answer /\ c.wait = q.wait
        /\ c.unmetered = q.unmetered /\ c.excused = q.excused /\ c.refused = q.refused
        /\ q.counted \subseteq c.counted
        /\ ~Full(Key(p, tier)) /\ tier \in Failures => tier \in c.counted

LEMMA CountedItself ==
    ASSUME NEW p \in Requests, NEW tier \in Tiers, RequestOK(req[p])
    PROVE  CountsItself(p, tier, IF ~Full(Key(p, tier)) /\ tier \in Failures
                                 THEN [req[p] EXCEPT !.counted = @ \cup {tier}] ELSE req[p])
<1> DEFINE q == req[p]
<1>1. CASE ~Full(Key(p, tier)) /\ tier \in Failures
  <2>1. {tier} \in SUBSET Failures
      BY <1>1
  <2>2. LET b == [q EXCEPT !.counted = @ \cup {tier}]
        IN  /\ RequestOK(b) /\ b.counted = q.counted \cup {tier}
            /\ b.pc = q.pc /\ b.left = q.left /\ b.lost = q.lost /\ b.account = q.account
            /\ b.headers = q.headers /\ b.answer = q.answer /\ b.wait = q.wait
            /\ b.unmetered = q.unmetered /\ b.excused = q.excused /\ b.refused = q.refused
      BY <2>1, CountedOK
  <2> QED
      BY <1>1, <2>2 DEF CountsItself
<1>2. CASE ~(~Full(Key(p, tier)) /\ tier \in Failures)
    BY <1>2 DEF CountsItself
<1> QED
    BY <1>1, <1>2

\* The request whose command it is.
LEMMA ConsumeOwn ==
    ASSUME ThrottleInv, NEW p \in Requests, NEW tier \in Tiers, tier \in req[p].left, up, up' = up,
           NEW m \in Nat \X Nat, SlidingWindowScript(Key(p, tier), m), NEW c, NEW a,
           CountsItself(p, tier, c),
           \/ a = AfterConsume(p, c, tier, ConsumeAnswer(Key(p, tier)))
           \/ a = Unanswered(c, tier, m),
           req'[p] = a
    PROVE  /\ RequestOK(a) /\ Stage(a) /\ Ahead(a) \subseteq Ahead(req[p]) \ {tier}
           /\ \A t \in DOMAIN a.lost :
                 \/ t = tier /\ a.lost[t] = m
                 \/ t # tier /\ t \in DOMAIN req[p].lost /\ a.lost[t] = req[p].lost[t]
           /\ Look(p)' /\ Refusals(p)'
<1> DEFINE q == req[p]
           k == Key(p, tier)
           res == ConsumeAnswer(k)
<1>1. TypeOK /\ Counts /\ RequestOK(q) /\ Stage(q) /\ Look(p)
    BY RequestsAreOK DEF ThrottleInv
<1>2. k \in Buckets /\ TierOf[k] = tier
    BY KeyFacts
<1>3. res \in Results /\ (res.allowed <=> ~Full(k)) /\ ~res.degraded
    BY <1>1, <1>2, AnswerFacts
<1>4. /\ RequestOK(c) /\ c.pc = q.pc /\ c.left = q.left /\ c.lost = q.lost /\ c.account = q.account
      /\ c.headers = q.headers /\ c.answer = q.answer /\ c.wait = q.wait
      /\ c.unmetered = q.unmetered /\ c.excused = q.excused /\ c.refused = q.refused
      /\ q.counted \subseteq c.counted /\ (~Full(k) /\ tier \in Failures => tier \in c.counted)
    BY DEF CountsItself
<1>5. Stage(c) /\ Ahead(c) = Ahead(q) /\ tier \in c.left
    BY <1>1, <1>4 DEF Stage, Ahead
<1>6. \A t \in Tiers \ {tier} : Room(Key(p, t)) => Room(Key(p, t))'
  <2>1. TAKE t \in Tiers \ {tier}
  <2>2. Key(p, t) \in Buckets /\ Key(p, t) # k
      BY <1>2, KeyFacts
  <2>3. zset'[Key(p, t)] = zset[Key(p, t)]
      BY <1>1, <1>2, <2>2, ScriptEffect
  <2> QED
      BY <2>2, <2>3, SameBucket, SameMeans DEF Room
<1>7. q.pc = "verify" =>
         /\ tier \in Failures /\ tier \in c.counted \cup c.excused
         /\ \A t \in Failures \ (c.counted \cup c.excused) :
               t # tier /\ t \in q.left \ DOMAIN q.lost /\ Room(Key(p, t))'
  <2>1. SUFFICES ASSUME q.pc = "verify"
                 PROVE  /\ tier \in Failures /\ tier \in c.counted \cup c.excused
                        /\ \A t \in Failures \ (c.counted \cup c.excused) :
                              t # tier /\ t \in q.left \ DOMAIN q.lost /\ Room(Key(p, t))'
      OBVIOUS
  <2>2. tier \in Failures
      BY <1>1, <2>1 DEF Stage
  <2>3. \A t \in Failures \ (q.counted \cup q.excused) : t \in q.left \ DOMAIN q.lost /\ Room(Key(p, t))
      BY <1>1, <2>1 DEF Look
  <2>4. tier \in c.counted \cup c.excused
      BY <1>4, <2>2, <2>3 DEF Room
  <2>5. \A t \in Failures \ (c.counted \cup c.excused) :
           t # tier /\ t \in q.left \ DOMAIN q.lost /\ Room(Key(p, t))
      BY <1>4, <2>3, <2>4
  <2> QED
      BY <1>6, <2>2, <2>4, <2>5, Names
<1>8. CASE a = Unanswered(c, tier, m)
  <2>1. /\ RequestOK(a) /\ DOMAIN a.lost = DOMAIN c.lost \cup {tier} /\ a.lost[tier] = m
        /\ \A t \in DOMAIN c.lost \ {tier} : a.lost[t] = c.lost[t]
        /\ a.pc = c.pc /\ a.left = c.left /\ a.account = c.account
        /\ a.headers = c.headers /\ a.answer = c.answer /\ a.wait = c.wait
        /\ a.unmetered = c.unmetered /\ a.counted = c.counted /\ a.excused = c.excused
        /\ a.refused = c.refused
    <3>1. LET b == Unanswered(c, tier, m)
          IN  /\ RequestOK(b) /\ DOMAIN b.lost = DOMAIN c.lost \cup {tier} /\ b.lost[tier] = m
              /\ \A t \in DOMAIN c.lost \ {tier} : b.lost[t] = c.lost[t]
              /\ b.pc = c.pc /\ b.left = c.left /\ b.account = c.account
              /\ b.headers = c.headers /\ b.answer = c.answer /\ b.wait = c.wait
              /\ b.unmetered = c.unmetered /\ b.counted = c.counted /\ b.excused = c.excused
              /\ b.refused = c.refused
        BY <1>4, <1>5, UnansweredOK
    <3> QED
        BY <1>8, <3>1
  <2>2. Stage(a)
      BY <1>5, <2>1 DEF Stage
  <2>3. Ahead(a) \subseteq Ahead(q) \ {tier}
      BY <1>1, <1>4, <2>1, Names, Fields DEF Stage, Ahead
  <2>4. c.pc \in {"client", "route", "verify"} /\ DOMAIN a.refused = {} /\ a.answer = "none"
      BY <1>4, <1>5, <2>1, Fields DEF Stage
  <2>5. Look(p)'
    <3>1. CASE a.pc = "verify"
        BY <1>4, <1>7, <2>1, <2>4, <3>1 DEF Look
    <3>2. CASE a.pc # "verify"
        BY <2>1, <2>4, <3>2 DEF Look
    <3> QED
        BY <3>1, <3>2
  <2>6. Refusals(p)'
      BY <2>4 DEF Refusals
  <2> QED
      BY <1>4, <2>1, <2>2, <2>3, <2>5, <2>6
<1>9. CASE a = AfterConsume(p, c, tier, res) /\ tier \in Guards
  <2>1. a = AfterGuard(p, c, tier, res)
      BY <1>9 DEF AfterConsume
  <2> HIDE DEF res
  <2>2. /\ RequestOK(a) /\ Stage(a) /\ Ahead(a) \subseteq Ahead(c) \ {tier}
        /\ DOMAIN a.lost = {} /\ a.pc \notin {"peekAddress", "verify"}
        /\ a.answer # "unauthorized"
        /\ \A t \in DOMAIN a.refused :
              /\ t = tier /\ a.refused[t] = 0 /\ ~res.allowed /\ ~res.degraded
              /\ a.pc = "done" /\ a.wait = RetryAfterSeconds(res.retryAfterMs)
    <3>1. LET b == AfterGuard(p, c, tier, res)
          IN  /\ RequestOK(b) /\ Stage(b) /\ Ahead(b) \subseteq Ahead(c) \ {tier}
              /\ DOMAIN b.lost = {} /\ b.pc \notin {"peekAddress", "verify"}
              /\ b.answer # "unauthorized"
              /\ \A t \in DOMAIN b.refused :
                    /\ t = tier /\ b.refused[t] = 0 /\ ~res.allowed /\ ~res.degraded
                    /\ b.pc = "done" /\ b.wait = RetryAfterSeconds(res.retryAfterMs)
        BY <1>3, <1>4, <1>5, <1>9, GuardMoves
    <3> QED
        BY <2>1, <3>1
  <2>3. Look(p)'
      BY <2>2 DEF Look
  <2>4. Refusals(p)'
    <3>1. SUFFICES ASSUME NEW t \in DOMAIN a.refused
                   PROVE  /\ a.pc # "peekAddress" /\ t = tier /\ a.refused[t] = 0 /\ Full(k)'
                          /\ \E w : w = a.wait /\ Ends(k, 0, w)'
                          /\ a.wait >= Second => \E w : w = a.wait - Second /\ Lasts(k, 0, w)'
        BY DEF Refusals
    <3>2. /\ Full(k) /\ res.retryAfterMs = RetryAfterMs(k) /\ RetryAfterMs(k) \in Nat \ {0}
          /\ a.wait = RetryAfterSeconds(RetryAfterMs(k)) /\ t = tier /\ a.refused[t] = 0
        BY <1>1, <1>2, <1>3, <2>2, <3>1, AnswerFacts DEF res
    <3>3. Same(k)
        BY <1>1, <1>2, <3>2, ScriptEffect
    <3>4. a.wait \in Nat /\ a.wait >= RetryAfterMs(k) /\ Second \in Nat
        BY <3>2, RoundingUp, WindowAssumption
    <3>5. Ends(k, 0, a.wait)
        BY <1>1, <1>2, <3>2, <3>4, WaitBegins
    <3>6. Lasts(k, 0, a.wait - Second)
        BY <1>1, <1>2, <3>2, WaitIsTight
    <3>7. Full(k)' /\ Ends(k, 0, a.wait)'
        BY <1>2, <3>2, <3>3, <3>4, <3>5, SameMeans
    <3>8. a.wait >= Second => Lasts(k, 0, a.wait - Second)'
        BY <1>2, <3>3, <3>4, <3>6, SameMeans
    <3> QED
        BY <2>2, <3>2, <3>7, <3>8
  <2> QED
      BY <1>5, <2>2, <2>3, <2>4
<1>10. CASE a = AfterConsume(p, c, tier, res) /\ tier \notin Guards
  <2>1. a = AfterFailure(c, tier) /\ tier \in Failures
      BY <1>10, Names DEF AfterConsume
  <2>2. /\ c.pc = "verify" /\ RequestOK(a) /\ Stage(a) /\ Ahead(a) \subseteq Ahead(c) \ {tier}
        /\ DOMAIN a.lost \subseteq DOMAIN c.lost \ {tier}
        /\ \A t \in DOMAIN a.lost : a.lost[t] = c.lost[t]
        /\ DOMAIN a.refused = {} /\ a.counted = c.counted /\ a.excused = c.excused
        /\ \/ a.pc = "verify" /\ a.answer = "none" /\ a.left = c.left \ {tier}
                              /\ DOMAIN a.lost = DOMAIN c.lost \ {tier}
           \/ a.pc = "done" /\ c.left = {tier}
    <3>1. LET b == AfterFailure(c, tier)
          IN  /\ c.pc = "verify" /\ RequestOK(b) /\ Stage(b) /\ Ahead(b) \subseteq Ahead(c) \ {tier}
              /\ DOMAIN b.lost \subseteq DOMAIN c.lost \ {tier}
              /\ \A t \in DOMAIN b.lost : b.lost[t] = c.lost[t]
              /\ DOMAIN b.refused = {} /\ b.counted = c.counted /\ b.excused = c.excused
              /\ \/ b.pc = "verify" /\ b.answer = "none" /\ b.left = c.left \ {tier}
                                    /\ DOMAIN b.lost = DOMAIN c.lost \ {tier}
                 \/ b.pc = "done" /\ c.left = {tier}
        BY <1>4, <1>5, <2>1, FailureMoves
    <3> QED
        BY <2>1, <3>1
  <2>3. Look(p)'
    <3>1. CASE a.pc = "verify"
        BY <1>4, <1>7, <2>2, <3>1 DEF Look
    <3>2. CASE a.pc = "done"
        BY <1>4, <1>7, <2>2, <3>2 DEF Look
    <3> QED
        BY <2>2, <3>1, <3>2
  <2>4. Refusals(p)'
      BY <2>2 DEF Refusals
  <2> QED
      BY <1>4, <1>5, <2>2, <2>3, <2>4
<1> QED
    BY <1>8, <1>9, <1>10

LEMMA ConsumeKeeps ==
    ASSUME ThrottleInv, NEW p \in Requests, NEW tier \in Tiers, Consume(p, tier)
    PROVE  ThrottleInv'
<1> DEFINE k == Key(p, tier)
           all == IF ConsumeAnswer(k).allowed THEN Overtaken(k, tier) ELSE req
<1>1. TypeOK /\ OthersOK /\ Counts /\ Members /\ Lasting /\ NotYet
    BY TypeParts DEF ThrottleInv
<1>2. \A q \in Requests : RequestOK(req[q]) /\ Stage(req[q]) /\ Look(q) /\ Refusals(q)
    BY <1>1, RequestsAreOK DEF ThrottleInv
<1>3. k \in Buckets /\ TierOf[k] = tier /\ Window[k] \in Nat
    BY KeyFacts, BucketFacts
<1>4. ConsumeAnswer(k).allowed <=> ~Full(k)
    BY <1>1, <1>3, AnswerFacts
<1>5. PICK c : c = IF ConsumeAnswer(k).allowed /\ tier \in Failures
                   THEN [req[p] EXCEPT !.counted = @ \cup {tier}] ELSE req[p]
    OBVIOUS
<1>6. PICK m : m = Member(p, tier)
    OBVIOUS
<1>7. /\ up /\ tier \in req[p].left /\ SlidingWindowScript(k, m) /\ DrawMember(p, tier)
      /\ UNCHANGED <<up, inst, drawn>>
      /\ admitted' = IF ConsumeAnswer(k).allowed THEN [admitted EXCEPT ![p][tier] = 0] ELSE admitted
    BY <1>6 DEF Consume, Calling
<1>8. PICK a : /\ req' = [all EXCEPT ![p] = a]
               /\ \/ a = AfterConsume(p, c, tier, ConsumeAnswer(k))
                  \/ a = Unanswered(c, tier, m)
    BY <1>5, <1>6 DEF Consume
<1>9. faults' \in 0 .. MaxFaults
    BY <1>1, ThrottleAssumption DEF Consume, Fault, OthersOK
<1>10. /\ req' = [q \in Requests |-> req'[q]] /\ req'[p] = a
       /\ \A q \in Requests \ {p} : req'[q] = all[q]
    BY <1>1, <1>8 DEF TypeOK, Overtaken
<1>11. CountsItself(p, tier, c)
    BY <1>2, <1>4, <1>5, CountedItself
<1>12. /\ m \in Nat \X Nat
       /\ \E f \in Bijection(Admitted(k), Live(k)) :
             Represents(f, k) /\ \A q \in Admitted(k) : f[q] = m <=> q = p
       /\ \A q \in Requests \ {p} : tier \in DOMAIN req[q].lost => req[q].lost[tier] # m
    BY <1>6, <1>7, OwnMember
<1>13. /\ RequestOK(a) /\ Stage(a) /\ Ahead(a) \subseteq Ahead(req[p]) \ {tier}
       /\ \A t \in DOMAIN a.lost :
             \/ t = tier /\ a.lost[t] = m
             \/ t # tier /\ t \in DOMAIN req[p].lost /\ a.lost[t] = req[p].lost[t]
       /\ Look(p)' /\ Refusals(p)'
  <2>1. \/ a = AfterConsume(p, c, tier, ConsumeAnswer(k))
        \/ a = Unanswered(c, tier, m)
      BY <1>8
  <2>2. /\ tier \in req[p].left /\ up /\ up' = up /\ m \in Nat \X Nat
        /\ SlidingWindowScript(k, m) /\ req'[p] = a
      BY <1>7, <1>10, <1>12
  <2> QED
      BY <1>11, <2>1, <2>2, ConsumeOwn
<1>14. /\ \A j \in Buckets \ {k} : zset'[j] = zset[j] /\ ttl'[j] = ttl[j]
       /\ DOMAIN zset'[k] \subseteq Live(k) \cup {m}
       /\ Full(k) => Same(k) /\ ttl'[k] = ttl[k]
       /\ ~Full(k) =>
             /\ Live(k)' = Live(k) \cup {m} /\ ttl'[k] = Window[k] + 1
             /\ \A x \in Live(k)' : zset'[k][x] = IF x = m THEN 0 ELSE zset[k][x]
    BY <1>1, <1>3, <1>7, ScriptEffect
<1>15. \A j \in Buckets \ {k} : Same(j)
    BY <1>14, SameBucket
<1>16. ASSUME NEW q \in Requests \ {p}
       PROVE  LET b == req[q] d == req'[q]
              IN  /\ RequestOK(d) /\ Stage(d) /\ Ahead(d) = Ahead(b)
                  /\ d.pc = b.pc /\ d.left = b.left /\ d.lost = b.lost /\ d.account = b.account
                  /\ d.answer = b.answer /\ d.wait = b.wait /\ d.counted = b.counted /\ d.refused = b.refused
                  /\ b.excused \subseteq d.excused
                  /\ ~Full(k) /\ tier \in Seen(b) /\ Key(q, tier) = k => tier \in d.excused
  <2>1. CASE ~Full(k)
    <3>1. req'[q] = Overtaken(k, tier)[q]
        BY <1>4, <1>10, <2>1
    <3>2. RequestOK(req[q]) /\ Stage(req[q])
        BY <1>2
    <3> QED
        BY <1>3, <3>1, <3>2, OvertakenOK
  <2>2. CASE Full(k)
    <3>1. req'[q] = req[q]
        BY <1>4, <1>10, <2>2
    <3> QED
        BY <1>2, <2>2, <3>1
  <2> QED
      BY <2>1, <2>2
<1> HIDE DEF all
<1>17. ASSUME NEW q \in Requests \ {p} PROVE Look(q)'
  <2>1. ASSUME NEW t \in Seen(req[q]) \ req'[q].excused, Room(Key(q, t)) PROVE Room(Key(q, t))'
    <3>1. t \in Tiers
        BY <1>2, <2>1, Names, Fields DEF Seen
    <3>2. Key(q, t) \in Buckets /\ TierOf[Key(q, t)] = t
        BY <3>1, KeyFacts
    <3>3. Same(Key(q, t))
        BY <1>3, <1>14, <1>15, <1>16, <2>1, <3>2
    <3> QED
        BY <1>7, <2>1, <3>2, <3>3, SameMeans DEF Room
  <2> QED
      BY <1>2, <1>16, <2>1, LookKept
<1>18. ASSUME NEW q \in Requests \ {p} PROVE Refusals(q)'
  <2>1. ASSUME NEW t \in DOMAIN req'[q].refused, NEW s \in Nat, s = 0 => Full(Key(q, t))
        PROVE  /\ s = 0 => Full(Key(q, t))'
               /\ \A w \in Nat : Ends(Key(q, t), s, w) => Ends(Key(q, t), s, w)'
               /\ \A w \in Nat : Lasts(Key(q, t), s, w) => Lasts(Key(q, t), s, w)'
    <3>1. t \in DOMAIN req[q].refused /\ Key(q, t) \in Buckets
        BY <1>2, <1>16, <2>1, KeyFacts DEF RequestOK
    <3>2. CASE Same(Key(q, t))
        BY <2>1, <3>1, <3>2, SameMeans
    <3>3. CASE ~Same(Key(q, t))
      <4>1. Key(q, t) = k /\ ~Full(k)
          BY <1>14, <1>15, <3>1, <3>3
      <4> QED
          BY <1>1, <1>3, <1>7, <2>1, <4>1, ScriptKeepsWaits
    <3> QED
        BY <3>2, <3>3
  <2> QED
      BY <1>2, <1>16, <2>1, RefusalsKept
<1>19. \A q \in Requests : (Stage(req[q]) /\ Look(q) /\ Refusals(q))'
    BY <1>10, <1>13, <1>16, <1>17, <1>18
<1>20. counter' \in [Replicas -> Nat] /\ Drawn(m)' /\ \A x : Drawn(x) => Drawn(x)'
  <2>1. /\ counter' \in [Replicas -> Nat] /\ \A x : Drawn(x) => Drawn(x)'
        /\ \A n : n = Member(p, tier) => Drawn(n)'
      BY <1>7, DrawingKeeps
  <2> QED
      BY <1>6, <2>1
<1>21. TypeOK'
  <2>1. RequestsOK'
    <3>1. \A q \in Requests : RequestOK(req'[q])
        BY <1>10, <1>13, <1>16
    <3> QED
        BY <1>10, <3>1 DEF RequestsOK, RequestOK
  <2>2. WindowOK'
      BY <1>1, <1>3, <1>7, ScriptTypes
  <2>3. admitted' \in [Requests -> [Tiers -> Nat]]
      BY <1>1, <1>7 DEF OthersOK
  <2>4. OthersOK'
      BY <1>1, <1>7, <1>9, <1>20, <2>3 DEF OthersOK
  <2> QED
      BY <2>1, <2>2, <2>4, TypesLater
<1>22. ASSUME NEW q \in Requests, NEW t \in Tiers, q # p \/ t # tier PROVE admitted'[q][t] = admitted[q][t]
    BY <1>1, <1>7, <1>22 DEF OthersOK
<1>23. NotYet'
  <2>1. \A q \in Requests : Ahead(req[q]) \subseteq Tiers
      BY <1>2, Fields, Names DEF Ahead
  <2>2. ASSUME NEW q \in Requests, NEW t \in Ahead(req'[q]) PROVE admitted'[q][t] = Past[q][t]
    <3>1. t \in Ahead(req[q]) /\ t \in Tiers /\ (q # p \/ t # tier)
        BY <1>10, <1>13, <1>16, <2>1, <2>2
    <3> QED
        BY <1>1, <1>22, <3>1 DEF NotYet
  <2> QED
      BY <2>2 DEF NotYet
<1>24. ASSUME NEW q \in Requests, NEW t \in DOMAIN req'[q].lost
       PROVE  \/ q = p /\ t = tier /\ req'[q].lost[t] = m
              \/ (q # p \/ t # tier) /\ t \in DOMAIN req[q].lost /\ req'[q].lost[t] = req[q].lost[t]
    BY <1>10, <1>13, <1>16, <1>24
<1>25. Members'
  <2>1. \A r, s \in Replicas : inst'[r] = inst'[s] => r = s
      BY <1>1, <1>7 DEF Members
  <2>2. ASSUME NEW j \in Buckets, NEW x \in DOMAIN zset'[j] PROVE Drawn(x)'
    <3>1. x = m \/ x \in DOMAIN zset[j]
        BY <1>14, <2>2 DEF Live
    <3> QED
        BY <1>1, <1>20, <3>1 DEF Members
  <2>3. ASSUME NEW q \in Requests, NEW t \in DOMAIN req'[q].lost PROVE \A x : x = req'[q].lost[t] => Drawn(x)'
    <3>1. req'[q].lost[t] = m \/ (t \in DOMAIN req[q].lost /\ req'[q].lost[t] = req[q].lost[t])
        BY <1>24, <2>3
    <3> QED
        BY <1>1, <1>20, <3>1 DEF Members
  <2>4. ASSUME NEW q \in Requests, NEW s \in Requests, NEW t \in DOMAIN req'[q].lost \cap DOMAIN req'[s].lost,
               req'[q].lost[t] = req'[s].lost[t]
        PROVE  q = s
      BY <1>1, <1>12, <1>24, <2>4 DEF Members
  <2> QED
      BY <2>1, <2>2, <2>3, <2>4 DEF Members
<1>26. Lasting'
  <2>1. SUFFICES ASSUME NEW j \in Buckets, NEW x \in Live(j)' PROVE zset'[j][x] + ttl'[j] > Window[j]
      BY DEF Lasting
  <2>2. CASE Same(j) /\ ttl'[j] = ttl[j]
      BY <1>1, <2>1, <2>2 DEF Lasting, Same
  <2>3. CASE ~(Same(j) /\ ttl'[j] = ttl[j])
    <3>1. j = k /\ ~Full(k)
        BY <1>14, <1>15, <2>3
    <3>2. x # m => x \in Live(k)
        BY <1>14, <2>1, <3>1
    <3>3. x \in Live(k) => zset[k][x] \in Nat
        BY <1>1, <1>3, LiveFacts
    <3>4. zset'[k][x] \in Nat
        BY <1>14, <2>1, <3>1, <3>2, <3>3
    <3> QED
        BY <1>3, <1>14, <3>1, <3>4
  <2> QED
      BY <2>2, <2>3
<1>27. Counts'
  <2>1. SUFFICES ASSUME NEW j \in Buckets PROVE Exact(j)'
      BY DEF Counts
  <2>2. tier \in DOMAIN req'[p].lost => req'[p].lost[tier] = m
      BY <1>24
  <2>3. \A q \in Requests \ {p} : req'[q].lost = req[q].lost
      BY <1>16
  <2>4. CASE j = k /\ Full(k)
    <3>1. Exact(k) /\ UNCHANGED admitted
        BY <1>1, <1>3, <1>4, <1>7, <2>4 DEF Counts
    <3> QED
        BY <1>3, <1>12, <1>14, <2>2, <2>3, <2>4, <3>1, ExactRefused
  <2>5. CASE j = k /\ ~Full(k)
    <3>1. admitted' = [admitted EXCEPT ![p][tier] = 0]
        BY <1>4, <1>7, <2>5
    <3>2. TypeOK /\ Counts /\ k \in Buckets /\ ~Full(k) /\ SlidingWindowScript(k, m) /\ j = k
        BY <1>1, <1>3, <1>7, <2>5
    <3>3. \E f \in Bijection(Admitted(k), Live(k)) :
             Represents(f, k) /\ \A q \in Admitted(k) : f[q] = m <=> q = p
        BY <1>12
    <3>4. \A q \in Requests \ {p} : tier \in DOMAIN req[q].lost => req[q].lost[tier] # m
        BY <1>12
    <3>5. Exact(k)'
        BY <2>2, <2>3, <3>1, <3>2, <3>3, <3>4, ExactAdds
    <3> QED
        BY <3>2, <3>5
  <2>6. CASE j # k
    <3>1. Exact(j) /\ Same(j) /\ TierOf[j] \in Tiers
        BY <1>1, <1>15, <2>6, BucketFacts DEF Counts
    <3>2. \A q \in Requests : Key(q, TierOf[j]) = j => q # p \/ TierOf[j] # tier
        BY <2>6
    <3>3. \A q \in Requests : Key(q, TierOf[j]) = j => admitted'[q][TierOf[j]] = admitted[q][TierOf[j]]
        BY <1>22, <3>1, <3>2
    <3>4. \A q \in Requests : Key(q, TierOf[j]) = j /\ TierOf[j] \in DOMAIN req'[q].lost =>
             TierOf[j] \in DOMAIN req[q].lost /\ req'[q].lost[TierOf[j]] = req[q].lost[TierOf[j]]
        BY <1>24, <3>2
    <3> QED
        BY <3>1, <3>3, <3>4, ExactKept
  <2> QED
      BY <2>4, <2>5, <2>6
<1> QED
    BY <1>19, <1>21, <1>23, <1>25, <1>26, <1>27 DEF ThrottleInv

-----------------------------------------------------------------------------
(* The invariant.                                                          *)

LEMMA InitEstablishes == Init => ThrottleInv
<1> SUFFICES ASSUME Init PROVE ThrottleInv
    OBVIOUS
<1> DEFINE none == <<>>
<1>1. /\ zset = [k \in Buckets |-> none] /\ ttl = [k \in Buckets |-> 0]
      /\ req = [p \in Requests |-> Idle] /\ inst = [r \in Replicas |-> r] /\ drawn = NumReplicas
      /\ counter = [r \in Replicas |-> 0] /\ up \in BOOLEAN /\ faults = (IF up THEN 0 ELSE 1)
      /\ admitted = [p \in Requests |-> Past[p]]
    BY DEF Init, WindowInit, NoEvents
<1>2. /\ DOMAIN none = {} /\ none \in [{} -> Nat] /\ none \in [{} -> Nat \X Nat]
      /\ none = [m \in DOMAIN none |-> none[m]]
    OBVIOUS
<1> HIDE DEF none
<1>3. /\ Idle.pc = "idle" /\ Idle.left = {} /\ Idle.lost = none /\ Idle.headers = "none"
      /\ Idle.answer = "none" /\ Idle.wait = 0 /\ Idle.refused = none /\ Idle.unmetered = FALSE
    BY DEF Idle, none
<1>4. RequestOK(Idle)
    BY <1>2, <1>3, LimitsAre DEF RequestOK, Request, Idle, PeekDegraded, Result, none
<1>5. Stage(Idle)
    BY <1>2, <1>3 DEF Stage
<1>6. \A p \in Requests : \A t \in Tiers : Past[p][t] = Window[Key(p, t)] /\ Past[p][t] \in Nat
    BY KeyFacts, BucketFacts
<1>7. TypeOK
  <2>1. RequestsOK
      BY <1>1, <1>4 DEF RequestsOK
  <2>2. WindowOK
      BY <1>1, <1>2 DEF WindowOK
  <2>3. admitted \in [Requests -> [Tiers -> Nat]]
    <3>1. \A p \in Requests : Past[p] \in [Tiers -> Nat]
        BY <1>6 DEF Past
    <3> QED
        BY <1>1, <3>1
  <2>4. inst \in [Replicas -> 1 .. drawn] /\ drawn \in Nat
      BY <1>1, ThrottleAssumption DEF Replicas
  <2>5. faults \in 0 .. MaxFaults
      BY <1>1, ThrottleAssumption
  <2>6. OthersOK
      BY <1>1, <2>3, <2>4, <2>5 DEF OthersOK
  <2> QED
      BY <2>1, <2>2, <2>6, TypeParts
<1>8. \A p \in Requests : Stage(req[p]) /\ Look(p) /\ Refusals(p)
    BY <1>1, <1>2, <1>3, <1>5 DEF Look, Refusals
<1>9. NotYet
    BY <1>1 DEF NotYet
<1>10. Members
    BY <1>1, <1>2, <1>3 DEF Members
<1>11. \A k \in Buckets : Live(k) = {}
    BY <1>1, <1>2 DEF Live
<1>12. Lasting
    BY <1>11 DEF Lasting
<1>13. ASSUME NEW k \in Buckets PROVE Exact(k)
  <2> DEFINE g == [p \in {} |-> p]
  <2>1. Admitted(k) = {}
    <3>1. TierOf[k] \in Tiers /\ Window[k] \in Nat
        BY BucketFacts
    <3> QED
        BY <1>1, <1>6, <3>1 DEF Admitted
  <2>2. g \in Bijection({}, {})
      BY BijectionMeans
  <2>3. \A p \in Requests : DOMAIN req[p].lost = {}
      BY <1>1, <1>2, <1>3
  <2>4. Represents(g, k)
      BY <1>11, <2>1, <2>2, <2>3 DEF Represents
  <2>5. Cardinality(Live(k)) <= Limit[k]
      BY <1>11, FS_EmptySet, BucketFacts
  <2> QED
      BY <1>11, <2>1, <2>2, <2>4, <2>5 DEF Exact
<1> QED
    BY <1>7, <1>8, <1>9, <1>10, <1>12, <1>13 DEF ThrottleInv, Counts

LEMMA StutterKeeps ==
    ASSUME ThrottleInv, UNCHANGED vars
    PROVE  ThrottleInv'
<1>1. UNCHANGED <<zset, ttl, up, req, inst, drawn, counter, faults, admitted>>
    BY DEF vars, windowVars
<1>2. TypeOK /\ OthersOK /\ req = [q \in Requests |-> req[q]]
    BY TypeParts DEF ThrottleInv, TypeOK
<1>3. /\ \A k \in Buckets : Same(k) /\ ttl'[k] = ttl[k] /\ DOMAIN zset'[k] \subseteq DOMAIN zset[k]
      /\ WindowOK'
    BY <1>1, <1>2, Untouched
<1>4. ASSUME NEW q \in Requests PROVE RequestOK(req[q]) /\ Stage(req[q]) /\ Look(q)' /\ Refusals(q)'
    BY <1>1, <1>2, <1>3, RequestsAreOK, Bystander DEF ThrottleInv
<1>5. OthersOK'
    BY <1>1, <1>2 DEF OthersOK
<1>6. \A m : Drawn(m) => Drawn(m)'
    BY <1>1 DEF Drawn
<1>7. \A r, s \in Replicas : inst'[r] = inst'[s] => r = s
    BY <1>1 DEF ThrottleInv, Members
<1> QED
    BY <1>1, <1>2, <1>3, <1>4, <1>5, <1>6, <1>7, QuietStep

LEMMA NextKeeps == ThrottleInv /\ [Next]_vars => ThrottleInv'
<1> SUFFICES ASSUME ThrottleInv, [Next]_vars PROVE ThrottleInv'
    OBVIOUS
<1> USE Names
<1>1. ASSUME NEW p \in Requests, Arrive(p) PROVE ThrottleInv'
    BY <1>1, ArriveKeeps
<1>2. ASSUME NEW p \in Requests, NEW tier \in Tiers, Consume(p, tier) PROVE ThrottleInv'
    BY <1>2, ConsumeKeeps
<1>3. ASSUME NEW p \in Requests, NEW tier \in Tiers, ConsumeFails(p, tier) PROVE ThrottleInv'
    BY <1>3, ConsumeFailsKeeps
<1>4. ASSUME NEW p \in Requests, NEW tier \in Failures, Peek(p, tier) PROVE ThrottleInv'
    BY <1>4, PeekKeeps
<1>5. ASSUME NEW p \in Requests, RecordSuccess(p) PROVE ThrottleInv'
    BY <1>5, RecordSuccessKeeps
<1>i. ASSUME NEW p \in Requests, Issue(p) PROVE ThrottleInv'
    BY <1>i, IssueKeeps
<1>6. ASSUME NEW r \in Replicas, Restart(r) PROVE ThrottleInv'
    BY <1>6, RestartKeeps
<1>7. CASE Outage
    BY <1>7, OutageKeeps
<1>8. CASE Clock
    BY <1>8, ClockKeeps
<1>9. CASE UNCHANGED vars
    BY <1>9, StutterKeeps
<1> QED
    BY <1>1, <1>2, <1>3, <1>4, <1>5, <1>i, <1>6, <1>7, <1>8, <1>9 DEF Next, Handle

\* The inductive invariant, for any limits, windows, instances, requests, bounds and
\* interleaving of their calls, faults, restarts and the clock.
THEOREM ThrottleInvariant == Spec => []ThrottleInv
BY InitEstablishes, NextKeeps, PTL DEF Spec

\* Every variable keeps its type, and only calls that are not answered are to be
\* sent again.
THEOREM TypesHold == Spec => []TypeOK
<1>1. ThrottleInv => TypeOK
    BY DEF ThrottleInv
<1> QED
    BY <1>1, ThrottleInvariant, PTL

\* Every response carries budget figures if every budget it went through was
\* consulted, and otherwise the degraded flag and none, whatever the order in which
\* the two budgets failed (setHeaders).
THEOREM HeadersHold == Spec => []HeadersTruthful
<1>1. ASSUME ThrottleInv, NEW p \in Requests, req[p].answer \notin {"none", "dead"}
      PROVE  IF req[p].unmetered THEN req[p].headers = "degraded" ELSE req[p].headers \in Guards
  <2>1. RequestOK(req[p]) /\ Stage(req[p])
      BY <1>1, RequestsAreOK DEF ThrottleInv
  <2>2. req[p].headers \in {"none", "degraded"} \cup Guards
      BY <2>1, Fields
  <2> QED
      BY <1>1, <2>1, <2>2 DEF Stage
<1>2. ThrottleInv => HeadersTruthful
    BY <1>1 DEF HeadersTruthful
<1> QED
    BY <1>2, ThrottleInvariant, PTL

\* A failed login goes uncounted only if another took its place, or Redis went away,
\* after it had looked (assertWithinLimits, recordFailure).
THEOREM UncountedHolds == Spec => []UncountedOverlapped
<1>1. ThrottleInv => UncountedOverlapped
    BY DEF ThrottleInv, Look, UncountedOverlapped
<1> QED
    BY <1>1, ThrottleInvariant, PTL

\* A caller who waits as long as it was told is not kept out by what kept it out, and
\* the guard does not tell it to wait a second more than it must
\* (TooManyRequestsError, assertWithinLimits, SLIDING_WINDOW's retry_after).
THEOREM RetryAfterHolds == Spec => []RetryAfterIsHonest
<1>1. ASSUME ThrottleInv PROVE RetryAfterIsHonest
  <2>1. SUFFICES ASSUME NEW p \in Requests, req[p].pc = "done", NEW t \in DOMAIN req[p].refused
                 PROVE  /\ req[p].wait = 0 =>
                              Cardinality(Before(Key(p, t), req[p].refused[t])) < Limit[Key(p, t)]
                        /\ req[p].wait >= Second /\ t \in Guards => Full(Key(p, t))
      BY DEF RetryAfterIsHonest
  <2> DEFINE k == Key(p, t)
             s == req[p].refused[t]
  <2>2. TypeOK /\ Counts /\ RequestOK(req[p]) /\ Refusals(p)
      BY <1>1, RequestsAreOK DEF ThrottleInv
  <2>3. k \in Buckets /\ s \in Nat /\ Window[k] \in Nat /\ Limit[k] \in Nat
      BY <2>1, <2>2, KeyFacts, BucketFacts, Fields DEF RequestOK
  <2>4. /\ Ends(k, s, req[p].wait)
        /\ req[p].wait >= Second /\ t \in Guards => Lasts(k, s, req[p].wait - Second)
      BY <2>1, <2>2 DEF Refusals
  <2>5. \A m \in Before(k, s) : zset[k][m] \in Nat /\ zset[k][m] < Window[k]
      BY <2>2, <2>3, LiveFacts DEF Before
  <2>6. ASSUME req[p].wait = 0 PROVE Cardinality(Before(k, s)) < Limit[k]
      BY <2>3, <2>4, <2>5, <2>6 DEF Ends
  <2>7. ASSUME req[p].wait >= Second, t \in Guards PROVE Full(k)
    <3>1. /\ Cardinality(Before(k, s)) \in Nat /\ Cardinality(Live(k)) \in Nat
          /\ Cardinality(Before(k, s)) <= Cardinality(Live(k))
        BY <2>2, <2>3, BeforeFacts, Counting
    <3> QED
        BY <2>3, <2>4, <2>7, <3>1 DEF Lasts, Full
  <2> QED
      BY <2>6, <2>7
<1> QED
    BY <1>1, ThrottleInvariant, PTL

-----------------------------------------------------------------------------
(* Whom a bucket counts.                                                   *)

\* The 16-bit groups of an IPv6 address, and the bytes of an IPv4 one.
Groups == {g \in [1 .. 8 -> Nat] : \A i \in 1 .. 8 : g[i] < 65536}
Bytes  == {x \in [1 .. 4 -> Nat] : \A i \in 1 .. 4 : x[i] < 256}

LEMMA FirstFour ==
    ASSUME NEW g \in Groups
    PROVE  SubSeq(g, 1, 4) = [i \in 1 .. 4 |-> g[i]]
<1>1. \A i \in 1 .. 4 : g[i] \in Nat
    BY DEF Groups
<1>2. /\ SubSeq(g, 1, 4) \in Seq(Nat) /\ Len(SubSeq(g, 1, 4)) = IF 1 <= 4 THEN 4 - 1 + 1 ELSE 0
      /\ \A i \in 1 .. 4 - 1 + 1 : SubSeq(g, 1, 4)[i] = g[1 + i - 1]
    BY <1>1, SubSeqProperties
<1> DEFINE f == SubSeq(g, 1, 4)
<1>3. f \in Seq(Nat)
    BY <1>2
<1>4. Len(f) = 4 /\ \A i \in 1 .. 4 : f[i] = g[i]
    BY <1>2
<1> HIDE DEF f
<1>5. f \in [1 .. 4 -> Nat]
    BY <1>3, <1>4, LenProperties
<1>6. f = [i \in 1 .. 4 |-> g[i]]
    BY <1>4, <1>5
<1> QED
    BY <1>6 DEF f

LEMMA GroupIsTwoBytes ==
    ASSUME NEW y \in Nat, NEW n \in Nat, NEW l \in Nat, l < 256
    PROVE  n = y \div 256 /\ l = y % 256 <=> y = n * 256 + l
OBVIOUS

LEMMA QuadIsTwoGroups ==
    ASSUME NEW x \in Bytes, NEW g \in Groups
    PROVE  x = <<g[7] \div 256, g[7] % 256, g[8] \div 256, g[8] % 256>> <=>
              g[7] = x[1] * 256 + x[2] /\ g[8] = x[3] * 256 + x[4]
<1>1. x = <<x[1], x[2], x[3], x[4]>>
    BY DEF Bytes
<1>2. x[1] \in Nat /\ x[2] \in Nat /\ x[3] \in Nat /\ x[4] \in Nat /\ x[2] < 256 /\ x[4] < 256
    BY DEF Bytes
<1>3. g[7] \in Nat /\ g[8] \in Nat
    BY DEF Groups
<1>4. /\ x[1] = g[7] \div 256 /\ x[2] = g[7] % 256 <=> g[7] = x[1] * 256 + x[2]
      /\ x[3] = g[8] \div 256 /\ x[4] = g[8] % 256 <=> g[8] = x[3] * 256 + x[4]
  <2>1. x[1] = g[7] \div 256 /\ x[2] = g[7] % 256 <=> g[7] = x[1] * 256 + x[2]
      BY <1>2, <1>3, GroupIsTwoBytes
  <2>2. x[3] = g[8] \div 256 /\ x[4] = g[8] % 256 <=> g[8] = x[3] * 256 + x[4]
      BY <1>2, <1>3, GroupIsTwoBytes
  <2> QED
      BY <2>1, <2>2
<1>5. x = <<g[7] \div 256, g[7] % 256, g[8] \div 256, g[8] % 256>> <=>
         x[1] = g[7] \div 256 /\ x[2] = g[7] % 256 /\ x[3] = g[8] \div 256 /\ x[4] = g[8] % 256
    BY <1>1
<1> QED
    BY <1>4, <1>5

\* What rateLimitIdentity tells apart. An IPv4 address is its four bytes, in dotted
\* or in IPv4-mapped spelling; IPv6 addresses are one client exactly if they share a
\* /64; and the two families never meet.
THEOREM IdentityTells ==
    ASSUME NEW a, NEW b, a.v = 4, a.quad \in Bytes, b.v = 4, b.quad \in Bytes,
           NEW c, NEW d, c.v = 6, d.v = 6, ExpandIPv6(c) \in Groups, ExpandIPv6(d) \in Groups
    PROVE  /\ RateLimitIdentity(a) = RateLimitIdentity(b) <=> a.quad = b.quad
           /\ Mapped(ExpandIPv6(c)) =>
                 (RateLimitIdentity(a) = RateLimitIdentity(c) <=>
                     /\ ExpandIPv6(c)[7] = a.quad[1] * 256 + a.quad[2]
                     /\ ExpandIPv6(c)[8] = a.quad[3] * 256 + a.quad[4])
           /\ ~Mapped(ExpandIPv6(c)) => RateLimitIdentity(a) # RateLimitIdentity(c)
           /\ ~Mapped(ExpandIPv6(c)) /\ ~Mapped(ExpandIPv6(d)) =>
                 (RateLimitIdentity(c) = RateLimitIdentity(d) <=>
                     \A i \in 1 .. 4 : ExpandIPv6(c)[i] = ExpandIPv6(d)[i])
<1> DEFINE g == ExpandIPv6(c)
           h == ExpandIPv6(d)
           w == <<g[7] \div 256, g[7] % 256, g[8] \div 256, g[8] % 256>>
<1>1. RateLimitIdentity(a) = <<"v4", a.quad>> /\ RateLimitIdentity(b) = <<"v4", b.quad>>
    BY DEF RateLimitIdentity
<1>2. /\ RateLimitIdentity(c) = IF Mapped(g) THEN <<"v4", w>> ELSE <<"v6", SubSeq(g, 1, 4)>>
      /\ ~Mapped(h) => RateLimitIdentity(d) = <<"v6", SubSeq(h, 1, 4)>>
    BY DEF RateLimitIdentity
<1>g. g \in Groups /\ h \in Groups /\ a.quad \in Bytes
    OBVIOUS
<1> HIDE DEF g, h
<1>3. a.quad = w <=> g[7] = a.quad[1] * 256 + a.quad[2] /\ g[8] = a.quad[3] * 256 + a.quad[4]
  <2>1. \A x \in Bytes : x = w <=> g[7] = x[1] * 256 + x[2] /\ g[8] = x[3] * 256 + x[4]
      BY <1>g, QuadIsTwoGroups
  <2> HIDE DEF w
  <2> QED
      BY <1>g, <2>1
<1>4. SubSeq(g, 1, 4) = [i \in 1 .. 4 |-> g[i]] /\ SubSeq(h, 1, 4) = [i \in 1 .. 4 |-> h[i]]
    BY <1>g, FirstFour
<1> HIDE DEF w
<1>5. SubSeq(g, 1, 4) = SubSeq(h, 1, 4) <=> \A i \in 1 .. 4 : g[i] = h[i]
    BY <1>4
<1>6. RateLimitIdentity(a) = RateLimitIdentity(b) <=> a.quad = b.quad
    BY <1>1
<1>7. Mapped(g) => (RateLimitIdentity(a) = RateLimitIdentity(c) <=> a.quad = w)
    BY <1>1, <1>2
<1>8. ~Mapped(g) => RateLimitIdentity(a) # RateLimitIdentity(c)
    BY <1>1, <1>2
<1>9. ~Mapped(g) /\ ~Mapped(h) =>
         (RateLimitIdentity(c) = RateLimitIdentity(d) <=> \A i \in 1 .. 4 : g[i] = h[i])
    BY <1>2, <1>5
<1> QED
    BY <1>3, <1>6, <1>7, <1>8, <1>9 DEF g, h

LEMMA PeersShareABucket ==
    ASSUME Attributable, NEW p \in Requests, NEW q \in Requests, NEW t \in Tiers
    PROVE  SubjectOf[q][t] = SubjectOf[p][t] <=> Key(q, t) = Key(p, t)
<1>1. Key(q, t) = Key(p, t) <=> KeyText(q, t) = KeyText(p, t)
  <2>1. Key(q, t) = Key(p, t) => KeyText(q, t) = KeyText(p, t)
      BY KeyFacts
  <2>2. KeyText(q, t) = KeyText(p, t) => Key(q, t) = Key(p, t)
      BY DEF Key, BucketOf
  <2> QED
      BY <2>1, <2>2
<1>2. CASE t = "account"
    BY <1>1, <1>2 DEF SubjectOf, KeyText, AccountKey
<1>3. CASE t # "account"
    BY <1>1, <1>3 DEF SubjectOf, KeyText, Attributable
<1> QED
    BY <1>2, <1>3

\* A bucket counts exactly the requests of its client or account that were admitted
\* in the last window, and never more than the limit: no command that ran twice, no
\* other instance, restart, spelling, refusal or expiry adds to it or takes from it
\* (consume, SLIDING_WINDOW, newMemberIdFactory).
THEOREM WindowsAreExact == Attributable => (Spec => []WindowExact)
<1>1. ASSUME Attributable, ThrottleInv PROVE WindowExact
  <2>1. SUFFICES ASSUME NEW t \in Tiers, NEW p \in Requests
                 PROVE  LET n == Cardinality(InWindow(p, t))
                        IN  Cardinality(Live(Key(p, t))) = n /\ n <= Limit[Key(p, t)]
      BY DEF WindowExact, Firsts
  <2> DEFINE k == Key(p, t)
  <2>2. Counts /\ k \in Buckets /\ TierOf[k] = t
      BY <1>1, KeyFacts DEF ThrottleInv
  <2>3. InWindow(p, t) = Admitted(k)
    <3>1. ASSUME NEW q \in Requests PROVE q \in InWindow(p, t) <=> q \in Admitted(k)
      <4>1. SubjectOf[q][t] = SubjectOf[p][t] <=> Key(q, t) = k
          BY <1>1, PeersShareABucket
      <4>2. Past[q][t] = Window[Key(q, t)]
          BY KeyFacts
      <4> QED
          BY <2>2, <4>1, <4>2 DEF InWindow, Peers, Admitted
    <3> QED
        BY <3>1 DEF InWindow, Peers, Admitted
  <2> QED
      BY <2>2, <2>3, Counting
<1>2. SUFFICES ASSUME Attributable PROVE Spec => []WindowExact
    OBVIOUS
<1>3. ThrottleInv => WindowExact
    BY <1>1, <1>2
<1> QED
    BY <1>3, ThrottleInvariant, PTL

-----------------------------------------------------------------------------
(* What takes an event out of a window.                                    *)

LEMMA ClearingStep ==
    ASSUME ThrottleInv, Next, zset' # zset, NEW k \in Buckets, NEW m \in Live(k)
    PROVE  \/ m \in Live(k)'
           \/ ttl' # ttl /\ zset[k][m] = Window[k] - 1
           \/ /\ TierOf[k] = "account"
              /\ \E p \in Requests : Key(p, "account") = k /\ req'[p].pc \in {"clear", "issue"}
<1> DEFINE Goal == \/ m \in Live(k)'
                   \/ ttl' # ttl /\ zset[k][m] = Window[k] - 1
                   \/ /\ TierOf[k] = "account"
                      /\ \E p \in Requests : Key(p, "account") = k /\ req'[p].pc \in {"clear", "issue"}
<1>1. TypeOK /\ Lasting /\ Counts
    BY DEF ThrottleInv
<1>2. ASSUME NEW p \in Requests, NEW tier \in Tiers, Consume(p, tier) PROVE Goal
  <2>1. SlidingWindowScript(Key(p, tier), Member(p, tier)) /\ Key(p, tier) \in Buckets
      BY <1>2, KeyFacts DEF Consume
  <2>2. k # Key(p, tier) => Same(k)
      BY <1>1, <2>1, ScriptEffect, SameBucket
  <2>3. k = Key(p, tier) => m \in Live(k)'
      BY <1>1, <2>1, ScriptEffect DEF Same
  <2> QED
      BY <2>2, <2>3 DEF Same
<1>3. ASSUME NEW p \in Requests, NEW tier \in Failures, Peek(p, tier) PROVE Goal
  <2>1. PeekWindowScript(Key(p, tier)) /\ Key(p, tier) \in Buckets
      BY <1>3, KeyFacts, Names DEF Peek
  <2> QED
      BY <1>1, <2>1, PeekEffect DEF Same
<1>4. ASSUME NEW p \in Requests, RecordSuccess(p) PROVE Goal
  <2>1. /\ Del({Key(p, "account")})
        /\ \E pc \in {"clear", "issue"} : req' = [Absolved(p) EXCEPT ![p] = Proven(@, pc)]
      BY <1>4 DEF RecordSuccess, Cleared
  <2>2. Key(p, "account") \in Buckets /\ TierOf[Key(p, "account")] = "account"
      BY KeyFacts, Names
  <2>3. k # Key(p, "account") => Same(k)
      BY <1>1, <2>1, <2>2, DelEffect, SameBucket
  <2>4. req'[p].pc \in {"clear", "issue"}
    <3>1. PICK pc \in {"clear", "issue"} : req' = [Absolved(p) EXCEPT ![p] = Proven(@, pc)]
        BY <2>1
    <3>2. RequestOK(Absolved(p)[p])
      <4>1. RequestOK(req[p]) /\ Stage(req[p])
          BY RequestsAreOK DEF ThrottleInv
      <4> QED
          BY <4>1, AbsolvedOK
    <3>3. req'[p] = Proven(Absolved(p)[p], pc)
        BY <3>1 DEF Absolved
    <3> QED
        BY <3>2, <3>3 DEF Proven, RequestOK, Request
  <2> QED
      BY <2>1, <2>2, <2>3, <2>4 DEF Same
<1>5. ASSUME Clock, m \notin Live(k)' PROVE Goal
  <2>1. Tick
      BY <1>5 DEF Clock
  <2>2. zset[k][m] + 1 >= Window[k] /\ ttl'[k] = Less(ttl[k])
    <3>1. Live(k)' = {x \in Live(k) : zset[k][x] + 1 < Window[k]} /\ ttl'[k] = Less(ttl[k])
        BY <1>1, <2>1, TickEffect
    <3> QED
        BY <1>1, <1>5, <3>1, LiveFacts, BucketFacts
  <2>3. /\ zset[k][m] \in Nat /\ zset[k][m] < Window[k] /\ Window[k] \in Nat
        /\ ttl[k] \in Nat /\ zset[k][m] + ttl[k] > Window[k]
      BY <1>1, LiveFacts, BucketFacts DEF TypeOK, Lasting
  <2>4. zset[k][m] = Window[k] - 1 /\ ttl'[k] # ttl[k]
      BY <2>2, <2>3 DEF Less
  <2> QED
      BY <2>4
<1>6. ~(\E p \in Requests : Arrive(p)) /\ ~(\E r \in Replicas : Restart(r)) /\ ~Outage
    BY DEF Arrive, Restart, Outage, Connection, windowVars
<1>7. ~(\E p \in Requests : Issue(p) \/ \E tier \in Tiers : ConsumeFails(p, tier))
    BY DEF ConsumeFails, Issue, windowVars
<1> QED
    BY <1>2, <1>3, <1>4, <1>5, <1>6, <1>7 DEF Next, Handle

\* An event leaves a window by growing old, or by the success of a login to the very
\* account it was counted against (recordSuccess).
THEOREM ProofAloneClears == Spec => OnlyProofClears
<1>1. ThrottleInv /\ [Next]_vars =>
        [zset' # zset => \A k \in Buckets : \A m \in Live(k) :
          \/ m \in Live(k)'
          \/ ttl' # ttl /\ zset[k][m] = Window[k] - 1
          \/ /\ TierOf[k] = "account"
             /\ \E p \in Requests : Key(p, "account") = k /\ req'[p].pc \in {"clear", "issue"}]_vars
    BY ClearingStep
<1> QED
    BY <1>1, ThrottleInvariant, PTL DEF Spec, OnlyProofClears
=============================================================================
