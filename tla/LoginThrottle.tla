---------------------------- MODULE LoginThrottle ---------------------------
(***************************************************************************)
(* Requests on their way through the limiter: RateLimitGuard counts each   *)
(* against its client and, on a route with a limit of its own, against the *)
(* route; a login then passes LoginThrottleService, which looks at the     *)
(* failures of the account and of the address before the password is       *)
(* verified and counts a failure, or clears the account's, afterwards.     *)
(* Requests run concurrently on several instances that share one Redis.    *)
(*                                                                         *)
(* A call of consume() is a command with its own member id. ioredis sends  *)
(* it again when the connection drops before the reply arrives             *)
(* (maxRetriesPerRequest: 1), so a script can run twice for one call.      *)
(***************************************************************************)
EXTENDS SlidingWindow, ClientAddress

CONSTANTS
    NumReplicas, \* auth service instances
    Profiles,    \* the requests, each made at most once: a sequence of records
                 \*   kind, replica, addr (as ClientAddress spells it),
                 \*   target (the account: <<tenant, name, spelling>>) and
                 \*   source, whose address it really is
    MaxRequests, \* bound on the requests made
    MaxInFlight, \* bound on the requests under way at a time
    MaxFaults    \* bound on lost replies, outages, restarts, and units of time
                 \*   that pass while a request is under way

Requests == DOMAIN Profiles
Replicas == 1 .. NumReplicas
Kinds    == {"login", "plain"}
Guards   == {"client", "route"}
Failures == {"account", "address"}

\* normaliseEmail, and the trim().toLowerCase() of accountKey: the spelling goes.
Normalise(target) == <<target[1], target[2]>>

AccountKey(target) == <<"account", Normalise(target)>>

\* The key that a request is counted under, for each tier; its bucket's number.
KeyText(p, tier) ==
    IF tier = "account" THEN AccountKey(Profiles[p].target)
                        ELSE <<tier, RateLimitIdentity(Profiles[p].addr)>>

BucketOf == [p \in Requests |-> [t \in Tiers |->
                CHOOSE k \in Buckets : BucketKeys[k] = KeyText(p, t)]]

\* Whom the tier is meant to count.
SubjectOf == [p \in Requests |-> [t \in Tiers |->
                IF t = "account" THEN Normalise(Profiles[p].target)
                                 ELSE <<Profiles[p].source>>]]

ASSUME ThrottleAssumption ==
    /\ NumReplicas \in Nat \ {0} /\ {MaxRequests, MaxInFlight} \subseteq Nat /\ MaxFaults \in Nat \ {0}
    /\ Tiers = Guards \cup Failures /\ IsFiniteSet(Requests)
    /\ \A p \in Requests :
          /\ Profiles[p].kind \in Kinds /\ Profiles[p].replica \in Replicas
          /\ \A t \in Tiers : \E k \in Buckets : BucketKeys[k] = KeyText(p, t)

VARIABLES
    req,         \* each request: how far it is, and what it was told
    inst,        \* each instance: its random instanceId
    drawn,       \* how many instance ids have been drawn
    counter,     \* each instance: the counter of its newMemberIdFactory
    faults,      \* how many of these so far
    admitted     \* history: the time since each tier's window took the request

vars == <<windowVars, req, inst, drawn, counter, faults, admitted>>

Idle == [pc |-> "idle",
         left |-> {}, lost |-> <<>>,         \* consume() calls not yet answered
         account |-> PeekDegraded,           \* what the account's peek said
         headers |-> "none",                 \* the budget whose figures they give
         answer |-> "none",
         wait |-> 0,                         \* what is left of its Retry-After
         \* history
         refused |-> <<>>,                   \* time since each counter said no
         unmetered |-> FALSE, counted |-> {}, excused |-> {}]
Gone == [Idle EXCEPT !.pc = "done"]

IsLogin      == [p \in Requests |-> Profiles[p].kind = "login"]
Replica      == [p \in Requests |-> Profiles[p].replica]
Key(p, tier) == BucketOf[p][tier]
Past         == [p \in Requests |-> [t \in Tiers |-> Window[Key(p, t)]]]
UnderWay     == {p \in Requests : req[p].pc \notin {"idle", "done"}}

\* The counters that a request has looked at, and not yet counted itself in.
Seen(q) == CASE q.pc = "peekAddress" -> {"account"}
             [] q.pc = "verify"      -> q.left
             [] OTHER                -> {}

Init ==
    /\ WindowInit
    /\ req = [p \in Requests |-> Idle]
    /\ inst = [r \in Replicas |-> r]    \* 64 random bits: no id is drawn twice
    /\ drawn = NumReplicas
    /\ counter = [r \in Replicas |-> 0]
    /\ up \in BOOLEAN                   \* onModuleInit connects, or boots degraded
    /\ faults = IF up THEN 0 ELSE 1
    /\ admitted = [p \in Requests |-> Past[p]]  \* a window ago: not in it

-----------------------------------------------------------------------------
(************************ what a request is answered ************************)

\* TooManyRequestsError: milliseconds to whole seconds, up, and at least one.
RetryAfterSeconds(ms) == Second * Max({1, (ms + Second - 1) \div Second})

Answered(q, answer) ==
    [q EXCEPT !.pc = "done", !.answer = answer, !.left = {}, !.lost = <<>>,
              !.account = PeekDegraded]

TooMany(q, answer, ms) == [Answered(q, answer) EXCEPT !.wait = RetryAfterSeconds(ms)]

\* History: a counter that was read said no.
Refusal(refused, tier, res) ==
    IF res.allowed \/ res.degraded THEN refused
    ELSE [t \in DOMAIN refused \cup {tier} |-> IF t = tier THEN 0 ELSE refused[t]]

\* Mutation: a check that succeeds clears the flag of one that did not.
HeadersClearing(q, tier, res) == IF res.degraded THEN "degraded" ELSE tier

\* setHeaders: runs once per budget; its limit and what remains of it replace an
\* earlier one's; degradation is sticky, and leaves no figures.
SetHeaders(q, tier, res) ==
    IF res.degraded \/ q.headers = "degraded" THEN "degraded" ELSE tier

\* What the guard does with the answer of a budget: refuse, or go on to the
\* route's budget and then to the handler.
AfterGuard(p, q, tier, res) ==
    LET h == [q EXCEPT !.headers = SetHeaders(q, tier, res), !.unmetered = @ \/ res.degraded,
                       !.lost = <<>>, !.refused = Refusal(@, tier, res)]
    IN  IF ~res.allowed THEN TooMany(h, "tooMany", res.retryAfterMs)
        ELSE IF ~IsLogin[p] THEN Answered(h, "served")
        ELSE IF tier = "client" THEN [h EXCEPT !.pc = "route", !.left = {"route"}]
        ELSE [h EXCEPT !.pc = "peekAccount", !.left = {}]

\* Mutation: a command that was answered stays to be sent again.
AfterFailureResending(q, tier) ==
    IF q.left = {tier} THEN Answered(q, "unauthorized") ELSE [q EXCEPT !.left = @ \ {tier}]

\* recordFailure waits for both of its calls and ignores what they say.
AfterFailure(q, tier) ==
    IF q.left = {tier} THEN Answered(q, "unauthorized")
    ELSE [q EXCEPT !.left = @ \ {tier}, !.lost = Restrict(@, DOMAIN @ \ {tier})]

AfterConsume(p, q, tier, res) ==
    IF tier \in Guards THEN AfterGuard(p, q, tier, res) ELSE AfterFailure(q, tier)

\* The verdict on the password decides what a request does next: the two calls of
\* recordFailure, or the one of recordSuccess.
Verifying(q) == [q EXCEPT !.pc = "verify", !.left = Failures, !.account = PeekDegraded]

Waits(account, address) ==
    {IF r.allowed THEN 0 ELSE r.retryAfterMs : r \in {account, address}}

\* LoginThrottleUnavailableError: a second, whatever a counter said.
Unavailable(q) == [TooMany(q, "unavailable", Second) EXCEPT !.refused = <<>>]

\* Mutation: an unreadable counter admits the attempt.
WithinLimitsFailOpen(q, account, address) ==
    IF account.allowed /\ address.allowed THEN Verifying(q)
    ELSE TooMany(q, "throttled", Max(Waits(account, address)))

\* Mutation: the shorter of the two waits.
WithinLimitsShorter(q, account, address) ==
    IF account.degraded \/ address.degraded THEN Unavailable(q)
    ELSE IF account.allowed /\ address.allowed THEN Verifying(q)
    ELSE TooMany(q, "throttled", Min(Waits(account, address)))

\* assertWithinLimits, once both counters have been read: fail closed if either
\* could not be, refuse for the longer wait if either is full.
AssertWithinLimits(q, account, address) ==
    IF account.degraded \/ address.degraded THEN Unavailable(q)
    ELSE IF account.allowed /\ address.allowed THEN Verifying(q)
    ELSE TooMany(q, "throttled", Max(Waits(account, address)))

-----------------------------------------------------------------------------
(********************************** steps **********************************)

\* canActivate: every request is counted by its client. (One to an exempt route,
\* health or JWKS, passes untouched and is no step here.)
Arrive(p) ==
    /\ req[p].pc = "idle"
    /\ Cardinality(UnderWay) < MaxInFlight
    /\ Cardinality({q \in Requests : req[q].pc # "idle"}) < MaxRequests
    /\ req' = [req EXCEPT ![p] = [Idle EXCEPT !.pc = "client", !.left = {"client"}]]
    /\ UNCHANGED <<windowVars, inst, drawn, counter, faults, admitted>>

\* Mutation: the process id, which is 1 in every container.
MemberByPid(p, tier) ==
    IF tier \in DOMAIN req[p].lost THEN req[p].lost[tier]
    ELSE <<1, counter[Replica[p]] + 1>>

\* newMemberIdFactory: the process's id and its counter. It is drawn before the
\* command is sent; a command that is sent again keeps its member.
Member(p, tier) ==
    IF tier \in DOMAIN req[p].lost THEN req[p].lost[tier]
    ELSE <<inst[Replica[p]], counter[Replica[p]] + 1>>

DrawMember(p, tier) ==
    counter' = IF tier \in DOMAIN req[p].lost THEN counter
               ELSE [counter EXCEPT ![Replica[p]] = @ + 1]

\* The commands of one process leave in the order of its calls.
Calling(p, tier) ==
    /\ tier \in req[p].left
    /\ tier = "address" => "account" \notin req[p].left \ DOMAIN req[p].lost

\* History: a failure may go uncounted when a place in a window that the request
\* has already looked at is taken while it is under way.
Overtaken(k, tier) ==
    [p \in Requests |->
        IF tier \in Seen(req[p]) /\ Key(p, tier) = k
        THEN [req[p] EXCEPT !.excused = @ \cup {tier}] ELSE req[p]]

Fault == faults < MaxFaults /\ faults' = faults + 1

\* The reply is lost; the command may be sent again, with its member.
Unanswered(q, tier, member) ==
    [q EXCEPT !.lost = [t \in DOMAIN @ \cup {tier} |-> IF t = tier THEN member ELSE @[t]]]

\* The script of a consume() runs, and its reply arrives or is lost.
Consume(p, tier) ==
    LET k   == Key(p, tier)
        res == ConsumeAnswer(k)
        q   == IF res.allowed /\ tier \in Failures
               THEN [req[p] EXCEPT !.counted = @ \cup {tier}] ELSE req[p]
        all == IF res.allowed THEN Overtaken(k, tier) ELSE req
    IN  /\ up /\ Calling(p, tier)
        /\ SlidingWindowScript(k, Member(p, tier))
        /\ DrawMember(p, tier)
        /\ admitted' = IF res.allowed THEN [admitted EXCEPT ![p][tier] = 0] ELSE admitted
        /\ \/ /\ req' = [all EXCEPT ![p] = AfterConsume(p, q, tier, res)]
              /\ UNCHANGED faults
           \/ /\ Fault
              /\ req' = [all EXCEPT ![p] = Unanswered(q, tier, Member(p, tier))]
        /\ UNCHANGED <<up, inst, drawn>>

\* Without a connection, or once its retry is spent, the call fails.
ConsumeFails(p, tier) ==
    /\ Calling(p, tier)
    /\ ~up \/ tier \in DOMAIN req[p].lost
    /\ DrawMember(p, tier)
    /\ \E failOpen \in BOOLEAN :
          req' = [req EXCEPT ![p] = AfterConsume(p, @, tier, ConsumeDegraded(failOpen))]
    /\ UNCHANGED <<windowVars, inst, drawn, faults, admitted>>

\* assertWithinLimits: the account's counter, then the address's, on one
\* connection.
PeekWith(p, tier, res) ==
    LET q == [req[p] EXCEPT !.refused = Refusal(@, tier, res)]
    IN  req' = [req EXCEPT ![p] =
                  IF tier = "account" THEN [q EXCEPT !.pc = "peekAddress", !.account = res]
                  ELSE AssertWithinLimits(q, q.account, res)]

Peek(p, tier) ==
    /\ req[p].pc = IF tier = "account" THEN "peekAccount" ELSE "peekAddress"
    /\ \/ /\ up
          /\ PeekWindowScript(Key(p, tier))
          /\ PeekWith(p, tier, PeekAnswer(Key(p, tier)))
       \/ /\ ~up
          /\ PeekWith(p, tier, PeekDegraded)
          /\ UNCHANGED <<zset, ttl>>
    /\ UNCHANGED <<up, inst, drawn, counter, faults, admitted>>

\* Mutation: the address's budget is cleared as well.
ClearedBoth(p) == {Key(p, "account"), Key(p, "address")}

\* recordSuccess clears the account's failures, not the address's.
Cleared(p) == {Key(p, "account")}

\* History: what the account's counter held against a request is gone.
Absolved(p) ==
    [q \in Requests |->
        IF Key(q, "account") = Key(p, "account")
        THEN [req[q] EXCEPT !.refused = Restrict(@, DOMAIN @ \ {"account"})] ELSE req[q]]

Proven(q, pc) == [q EXCEPT !.pc = pc, !.left = {}]

\* The password was right: login clears the counter. No such user, an account that
\* is not active and a wrong password all end in the calls of recordFailure. A DEL
\* whose reply is lost may be sent again. When reset() fails that is logged, and the
\* login goes on.
RecordSuccess(p) ==
    /\ \/ req[p].pc = "verify" /\ req[p].left = Failures /\ req[p].lost = <<>>
       \/ req[p].pc = "clear"
    /\ \/ /\ up
          /\ Del(Cleared(p))
          /\ admitted' = [q \in Requests |->
                IF Key(q, "account") = Key(p, "account")
                THEN [admitted[q] EXCEPT !["account"] = Past[q]["account"]]
                ELSE admitted[q]]
          /\ \/ /\ req' = [Absolved(p) EXCEPT ![p] = Proven(@, "issue")]
                /\ UNCHANGED faults
             \/ /\ Fault
                /\ req' = [Absolved(p) EXCEPT ![p] = Proven(@, "clear")]
       \/ /\ ~up \/ req[p].pc = "clear"
          /\ req' = [req EXCEPT ![p] = Proven(@, "issue")]
          /\ UNCHANGED <<zset, ttl, admitted, faults>>
    /\ UNCHANGED <<up, inst, drawn, counter>>

\* The rest of login, which reads the roles, makes the token and records the event:
\* one of them may fail, and the cleared counter stays cleared.
Issue(p) ==
    /\ req[p].pc = "issue"
    /\ \E answer \in {"token", "error"} : req' = [req EXCEPT ![p] = Answered(@, answer)]
    /\ UNCHANGED <<windowVars, inst, drawn, counter, faults, admitted>>

\* An instance dies with the requests it was serving and comes back with a new
\* instance id.
Restart(r) ==
    /\ Fault
    /\ inst' = [inst EXCEPT ![r] = drawn + 1] /\ drawn' = drawn + 1
    /\ counter' = [counter EXCEPT ![r] = 0]
    /\ req' = [p \in Requests |->
                 IF p \in UnderWay /\ Replica[p] = r
                 THEN [Answered(req[p], "dead") EXCEPT !.headers = "none", !.refused = <<>>]
                 ELSE req[p]]
    /\ UNCHANGED <<windowVars, admitted>>

\* The connection goes or comes; going, it may cost the requests that have
\* looked at their counters the count of their failure.
Outage ==
    /\ Connection
    /\ IF up THEN Fault ELSE UNCHANGED faults
    /\ req' = IF up THEN [p \in Requests |-> [req[p] EXCEPT !.excused = @ \cup Seen(req[p])]]
              ELSE req
    /\ UNCHANGED <<inst, drawn, counter, admitted>>

\* Time passes. Of a request that is over, only what it was told to wait remains.
Aged(p) ==
    LET q     == req[p]
        later == [t \in DOMAIN q.refused |-> q.refused[t] + 1]
    IN  CASE q.pc # "done" -> [q EXCEPT !.refused = later]
          [] q.pc = "done" /\ q.wait = 0 -> Gone
          [] OTHER -> [Gone EXCEPT !.wait = q.wait - 1, !.refused = later]

Clock ==
    /\ Tick
    /\ admitted' = [p \in Requests |->
                      [t \in Tiers |-> Older(admitted[p][t], Past[p][t])]]
    /\ req' = [p \in Requests |-> Aged(p)]
    /\ IF UnderWay = {} THEN UNCHANGED faults ELSE Fault
    /\ UNCHANGED <<inst, drawn, counter>>

Handle(p) ==
    \/ \E tier \in Tiers : Consume(p, tier) \/ ConsumeFails(p, tier)
    \/ \E tier \in Failures : Peek(p, tier)
    \/ RecordSuccess(p) \/ Issue(p)

Next ==
    \/ \E p \in Requests : Arrive(p) \/ Handle(p)
    \/ \E r \in Replicas : Restart(r)
    \/ Outage
    \/ Clock

Spec == Init /\ [][Next]_vars

-----------------------------------------------------------------------------
(******************************** properties *******************************)

\* A request with these commands to send again, refused by these counters.
Request(unanswered, refusing) ==
    [pc : {"idle", "client", "route", "peekAccount", "peekAddress", "verify", "clear",
           "issue", "done"},
     left : SUBSET Tiers, lost : [unanswered -> Nat \X Nat],
     account : [allowed : BOOLEAN, count : Nat, retryAfterMs : Nat, degraded : BOOLEAN],
     headers : {"none", "degraded"} \cup Guards,
     answer : {"none", "served", "tooMany", "throttled", "unavailable",
               "unauthorized", "token", "error", "dead"},
     wait : Nat, refused : [refusing -> Nat], unmetered : BOOLEAN,
     counted : SUBSET Failures, excused : SUBSET Failures]

\* Every variable keeps its type, and only calls that are not answered are to be
\* sent again.
TypeOK ==
    /\ up \in BOOLEAN
    /\ zset = [k \in Buckets |-> [m \in DOMAIN zset[k] |-> zset[k][m]]]
    /\ \A k \in Buckets : \A m \in DOMAIN zset[k] : zset[k][m] \in 0 .. Window[k]
    /\ ttl \in [Buckets -> Nat]
    /\ req = [p \in Requests |-> req[p]]
    /\ \A p \in Requests : /\ req[p] \in Request(DOMAIN req[p].lost, DOMAIN req[p].refused)
                           /\ DOMAIN req[p].lost \subseteq req[p].left
                           /\ DOMAIN req[p].refused \subseteq Tiers
    /\ drawn \in Nat /\ inst \in [Replicas -> 1 .. drawn] /\ counter \in [Replicas -> Nat]
    /\ faults \in 0 .. MaxFaults
    /\ admitted \in [Requests -> [Tiers -> Nat]]

\* The identity of an address tells whose it is, and nothing is told apart that is
\* one client's: the premise under which a bucket can count a client.
Attributable ==
    \A p, q \in Requests : Profiles[p].source = Profiles[q].source <=>
        RateLimitIdentity(Profiles[p].addr) = RateLimitIdentity(Profiles[q].addr)

\* The requests that a tier is to count together, and the first of them.
Peers == [p \in Requests |-> [t \in Tiers |->
            {q \in Requests : SubjectOf[q][t] = SubjectOf[p][t]}]]
Firsts == [t \in Tiers |-> {p \in Requests : p = Min(Peers[p][t])}]

\* Those that it admitted within the last window.
InWindow(p, tier) == {q \in Peers[p][tier] : admitted[q][tier] < Past[q][tier]}

\* A bucket counts exactly what it should: the live members of the sorted set are
\* as many as the requests of that client or account that the tier admitted in
\* the last window, and never more than the limit. A command that ran twice, two
\* instances, a restart, two spellings of an address or of an email, a refused
\* request and the expiry of the key all leave it so (consume and SLIDING_WINDOW).
WindowExact ==
    \A tier \in Tiers : \A p \in Firsts[tier] :
        LET n == Cardinality(InWindow(p, tier))
        IN  Cardinality(Live(Key(p, tier))) = n /\ n <= Limit[Key(p, tier)]

Before(k, age) == {m \in Live(k) : zset[k][m] >= age}

\* A caller who waits as long as Retry-After said is not kept out by anything that
\* was counted when a counter refused it, in any counter that did: it has left the
\* window, or a login has cleared it, even if the address's counter was read later
\* than the account's (assertWithinLimits takes the longer wait,
\* TooManyRequestsError rounds up); and the guard does not tell it to wait a second
\* more than it must.
RetryAfterIsHonest ==
    \A p \in Requests : req[p].pc = "done" =>
        /\ req[p].wait = 0 => \A tier \in DOMAIN req[p].refused :
              Cardinality(Before(Key(p, tier), req[p].refused[tier])) < Limit[Key(p, tier)]
        /\ req[p].wait >= Second => \A tier \in DOMAIN req[p].refused \cap Guards :
              Full(Key(p, tier))

\* A failed login goes uncounted only if its fate overlapped another's: some other
\* failure took the place after it had looked, or Redis went away after it had
\* looked. One that could not look is never judged
\* (assertWithinLimits, recordFailure).
UncountedOverlapped ==
    \A p \in Requests : req[p].answer = "unauthorized" =>
        Failures \ req[p].counted \subseteq req[p].excused

\* Every response of the guarded routes, whatever it is, carries budget figures if
\* every budget it went through was consulted, and the degraded flag and no figures
\* if one was not (setHeaders, which runs twice; problems.md: the headers are "on
\* every response", and the flag "appears instead"). Which budget's figures is not
\* said: the route's replace the client's, whichever is the tighter.
HeadersTruthful ==
    \A p \in Requests : req[p].answer \notin {"none", "dead"} =>
        IF req[p].unmetered THEN req[p].headers = "degraded" ELSE req[p].headers \in Guards

\* An event leaves a window by growing old, or by a login with the right password to
\* the very account it was counted against, be its DEL the first or sent again;
\* nothing clears a client's, a route's or an address's budget (recordSuccess).
OnlyProofClears ==
    [][zset' # zset => \A k \in Buckets : \A m \in Live(k) :
          \/ m \in Live(k)'
          \/ ttl' # ttl /\ zset[k][m] = Window[k] - 1
          \/ /\ TierOf[k] = "account"
             /\ \E p \in Requests : Key(p, "account") = k /\ req'[p].pc \in {"clear", "issue"}]_vars

\* What the store's comment says of the throttle: an attempt that it cannot count
\* is refused. A login that is answered as wrong has been counted
\* (assertWithinLimits, recordFailure).
FailureIsCounted ==
    \A p \in Requests : req[p].answer = "unauthorized" => Failures \subseteq req[p].counted
=============================================================================
