----------------------- MODULE RequestPipelineProofs ------------------------
(***************************************************************************)
(* Requests in any number, interleaved in any way with each other, with    *)
(* seeds, faults and operators: what was answered is true and recorded,    *)
(* who was served was entitled, and accounts keep their passwords.         *)
(*                                                                         *)
(* None of it is inductive, because a request carries what it read across  *)
(* its awaits. The invariant says of each request what it may rely on at   *)
(* the await it is at (Sound): its route, what has been true since it came *)
(* in, the verdict it is about to record, and what its answer stands for.  *)
(* That stays so while others move, because the world only grows: rows of  *)
(* users are never deleted and keep their creator and password, a tenant   *)
(* once provisioned stays registered, and the chains lose nothing (Grows). *)
(***************************************************************************)
EXTENDS RequestPipeline, TLAPS

-----------------------------------------------------------------------------
(* Types.                                                                  *)

Ids == {Id[p] : p \in Requests} \cup DOMAIN Legacy
Passwords == {Password[p] : p \in Requests} \cup {Legacy[id].hash.of : id \in DOMAIN Legacy}

Account == [status : {"active", "disabled"},
            hash : [of : Passwords, current : BOOLEAN],
            roles : SUBSET {"tenant-admin"},
            by : Requests \cup {0}]

Claims == [sub : Ids \cup {<<>>}, tid : Tenants \cup {"none"}, permissions : SUBSET {"users:read"}]

Labels == {"idle", "tenant", "create", "throttle", "find", "upgrade", "authz", "token", "read",
           "provision", "lookup", "tx", "audit", "done"}

Request == [pc : Labels, existing : BOOLEAN, claims : Claims,
            chain : Tenants \cup {"none", "master"}, event : Actions \cup {"none"}, then : Answers,
            answer : Answers, read : SUBSET Ids]

Registered == {"active", "suspended"}

\* The state that requests share. A token is for an account of its tenant.
World ==
    /\ users \in [DOMAIN users -> Account] /\ DOMAIN users \subseteq Ids
    /\ tenants \in [Tenants -> Statuses] /\ cache \subseteq Tenants
    /\ \A token \in tokens : /\ token \in Claims /\ token.tid \in Tenants
                             /\ token.sub \in DOMAIN users /\ token.sub[1] = token.tid
    /\ \A l \in logged : l[1] \in Actions
    /\ faults \in 0 .. MaxFaults /\ changes \in 0 .. MaxChanges

-----------------------------------------------------------------------------
(* What a request may rely on.                                             *)

\* A request is on its route, and has no answer before it is done.
Routed(p) ==
    LET pc == req[p].pc
    IN  /\ pc # "done" => req[p].answer = "none"
        /\ pc = "tenant" => Kind[p] # "provision"
        /\ pc = "create" => Kind[p] = "register"
        /\ pc \in {"throttle", "find", "upgrade", "authz"} => Kind[p] = "login"
        /\ pc \in {"token", "read"} => Kind[p] = "list"
        /\ pc = "provision" => Kind[p] = "provision"
        /\ pc \in {"lookup", "tx"} => Kind[p] = "seed"

\* Past a check, what was checked has been true since the request came in. The hash
\* that a login goes on to replace answers to the password that it has.
Checked(p) ==
    LET pc == req[p].pc
    IN  /\ pc \notin {"idle", "tenant", "done"} /\ Kind[p] # "provision" => "routable" \in saw[p]
        /\ pc \in {"upgrade", "authz"} =>
              Exists(Id[p]) /\ users[Id[p]].hash.of = Password[p] /\ "right" \in saw[p]
        /\ pc = "read" => /\ req[p].claims.sub \in DOMAIN users
                          /\ req[p].claims.sub[1] = Tenant[p]
                          /\ "users:read" \in req[p].claims.permissions

\* The account is this request's.
Created(p) == Exists(Id[p]) /\ users[Id[p]].by = p /\ users[Id[p]].hash.of = Password[p]

Entitled(p) == "right" \in saw[p] /\ (req[p].claims.permissions # {} => "admin" \in saw[p])

\* Which event each kind of request records, and the answer that follows.
Verdicts ==
    {<<"register", "user.registered", "201">>, <<"login", "auth.login.throttled", "429">>,
     <<"login", "auth.login.failed", "401">>, <<"login", "auth.login.succeeded", "201">>,
     <<"list", "authz.denied", "403">>, <<"provision", "tenant.provisioned", "201">>}

ChainOf(p) == IF Kind[p] = "provision" THEN "master" ELSE Tenant[p]

\* What a request is about to record is so.
Judged(p) ==
    req[p].pc = "audit" =>
        /\ <<Kind[p], req[p].event, req[p].then>> \in Verdicts
        /\ req[p].chain = ChainOf(p)
        /\ Kind[p] = "register" => Created(p)
        /\ req[p].event = "auth.login.succeeded" =>
              /\ Entitled(p)
              /\ Exists(Id[p]) /\ req[p].claims.sub = Id[p] /\ req[p].claims.tid = Tenant[p]
        /\ Kind[p] = "provision" => tenants[Tenant[p]] \in Registered

Recorded(event, p) == <<ChainOf(p), event, p>> \in rows \/ <<event, p>> \in logged

\* What an answer stands for.
Answered(p) ==
    req[p].pc = "done" =>
        /\ Kind[p] = "register" /\ req[p].answer = "201" => Created(p)
        /\ Kind[p] = "seed" /\ req[p].answer = "created" => Created(p)
        /\ req[p].answer = "200" => /\ \A id \in req[p].read : id[1] = Tenant[p]
                                   /\ req[p].claims.sub \in req[p].read
                                   /\ "users:read" \in req[p].claims.permissions
        /\ Kind[p] = "login" /\ req[p].answer = "201" => Entitled(p)
        /\ Kind[p] # "provision" => \/ req[p].answer \in {"404", "429", "500", "failed", "dead"}
                                   \/ "routable" \in saw[p]
        /\ \A v \in Verdicts : v[1] = Kind[p] /\ v[3] = req[p].answer
                                  /\ v[2] # "auth.login.throttled" => Recorded(v[2], p)

Sound(p) == Routed(p) /\ Checked(p) /\ Judged(p) /\ Answered(p)

\* A row was written by a request that is done, and says what happened.
RowIsTrue(r) ==
    /\ r[1] \in Tenants \cup {"master"} /\ r[2] \in Actions
    /\ r[3] \in Requests /\ req[r[3]].pc = "done" /\ Happened(r[2], r[3])

PipeInv ==
    /\ World
    /\ req \in [Requests -> Request]
    /\ saw \in [Requests -> SUBSET {"routable", "right", "admin"}]
    /\ \A p \in Requests : Sound(p)
    /\ \A r \in rows : RowIsTrue(r)

-----------------------------------------------------------------------------
(* The model's operators.                                                  *)

USE PipelineAssumption, LegacyAssumption

\* What the profiles say, and that emails are stored as normaliseEmail leaves them.
LEMMA ProfileTypes ==
    /\ \A p \in Requests : /\ Kind[p] \in Kinds /\ Tenant[p] \in Tenants
                           /\ Password[p] \in Passwords
                           /\ Id[p] \in Ids /\ Id[p][1] = Tenant[p]
    /\ \A id \in Ids : id = <<id[1], <<id[2][1], "lower">>>>
<1>1. \A p \in Requests : /\ Kind[p] \in Kinds /\ Tenant[p] \in Tenants
                         /\ Password[p] \in Passwords /\ Id[p] \in Ids
    BY DEF Requests, Kind, Tenant, Passwords, Ids
<1>2. \A p \in Requests : /\ Id[p] = <<Tenant[p], <<Profiles[p].email[1], "lower">>>>
                         /\ Id[p][1] = Tenant[p]
    BY DEF Requests, Id, Tenant, RowOf, normaliseEmail
<1>3. \A id \in Ids : id = <<id[1], <<id[2][1], "lower">>>>
    BY <1>2 DEF Ids, RowOf, normaliseEmail
<1> QED
    BY <1>1, <1>2, <1>3

\* user.create and the seed's insert: one row more.
LEMMA Inserted ==
    ASSUME World, NEW id \in Ids, ~Exists(id), NEW row \in Account,
           Insert(id, row)
    PROVE  /\ DOMAIN users' = DOMAIN users \cup {id}
           /\ users' \in [DOMAIN users' -> Account] /\ DOMAIN users' \subseteq Ids
           /\ users'[id] = row
           /\ \A j \in DOMAIN users : users'[j] = users[j]
    BY DEF World, Exists, Insert

\* A new account.
LEMMA NewAccount ==
    ASSUME NEW p \in Requests, NEW roles \in SUBSET {"tenant-admin"}
    PROVE  LET row == User(Hash(Password[p]), roles, p)
           IN  row \in Account /\ row.hash.of = Password[p] /\ row.by = p /\ row.roles = roles
    BY ProfileTypes DEF User, Hash, Account

\* The bookkeeping of a request: it moves on, ...
LEMMA GotoIs ==
    ASSUME NEW q \in Request, NEW l \in Labels
    PROVE  /\ Goto(q, l) \in Request /\ Goto(q, l).pc = l
           /\ Goto(q, l).answer = q.answer /\ Goto(q, l).claims = q.claims
    BY DEF Request, Goto

\* ... is answered, ...
LEMMA FinishIs ==
    ASSUME NEW q \in Request, NEW a \in Answers
    PROVE  /\ Finish(q, a) \in Request /\ Finish(q, a).pc = "done"
           /\ Finish(q, a).answer = a /\ Finish(q, a).claims = q.claims
           /\ Finish(q, a).read = q.read
<1>1. "done" \in Labels /\ "none" \in Answers
    BY DEF Labels, Answers
<1> QED
    BY <1>1 DEF Request, Finish

\* ... or goes to record an event, and is answered then.
LEMMA AuditIs ==
    ASSUME NEW q \in Request, NEW c \in Tenants \cup {"master"}, NEW e \in Actions, NEW a \in Answers
    PROVE  /\ ThenAudit(q, c, e, a) \in Request /\ ThenAudit(q, c, e, a).pc = "audit"
           /\ ThenAudit(q, c, e, a).answer = q.answer /\ ThenAudit(q, c, e, a).claims = q.claims
           /\ ThenAudit(q, c, e, a).chain = c /\ ThenAudit(q, c, e, a).event = e
           /\ ThenAudit(q, c, e, a).then = a
<1>1. "audit" \in Labels
    BY DEF Labels
<1> QED
    BY <1>1 DEF Request, ThenAudit

\* A request that was not made yet.
LEMMA IdleType == Idle \in Request /\ Idle.pc = "idle" /\ Idle.answer = "none"
    BY DEF Idle, NoClaims, Request, Claims, Labels, Answers, Actions

-----------------------------------------------------------------------------
(* What stays so while others move.                                        *)

\* Nothing a request relies on is ever taken back.
Grows ==
    /\ DOMAIN users \subseteq DOMAIN users'
    /\ \A id \in DOMAIN users : /\ users'[id].by = users[id].by
                               /\ users'[id].hash.of = users[id].hash.of
    /\ \A t \in Tenants : tenants[t] \in Registered => tenants'[t] \in Registered
    /\ rows \subseteq rows' /\ logged \subseteq logged'

\* What a request has seen is kept, and what holds after its step is added.
LEMMA Observed ==
    ASSUME PipeInv, Observe
    PROVE  /\ saw' \in [Requests -> SUBSET {"routable", "right", "admin"}]
           /\ \A p \in Requests :
                 /\ saw[p] \subseteq saw'[p]
                 /\ req[p].pc # "done" /\ req'[p].pc # "idle" => Facts(p)' \subseteq saw'[p]
<1>1. \A p \in Requests : Facts(p)' \subseteq {"routable", "right", "admin"}
    BY DEF Facts
<1> QED
    BY <1>1 DEF PipeInv, Observe

\* A request that did not move is as sound as before.
LEMMA StillSound ==
    ASSUME PipeInv, Grows, Observe, NEW p \in Requests, req'[p] = req[p]
    PROVE  Sound(p)'
<1>1. saw[p] \subseteq saw'[p] /\ Tenant[p] \in Tenants
    BY Observed, ProfileTypes
<1>2. Created(p) => Created(p)'
    BY DEF Grows, Created, Exists
<1>3. Entitled(p) => Entitled(p)'
    BY <1>1 DEF Entitled
<1>4. \A e : Recorded(e, p) => Recorded(e, p)'
    BY DEF Recorded, Grows, ChainOf
<1>5. Sound(p)
    BY DEF PipeInv
<1>6. Routed(p)'
    BY <1>5 DEF Sound, Routed
<1>7. Checked(p)'
    BY <1>1, <1>5 DEF Sound, Checked, Grows, Exists
<1>8. Judged(p)'
    BY <1>1, <1>2, <1>3, <1>5 DEF Sound, Judged, Grows, Exists, ChainOf
<1>9. Answered(p)'
    BY <1>1, <1>2, <1>3, <1>4, <1>5 DEF Sound, Answered
<1> QED
    BY <1>6, <1>7, <1>8, <1>9 DEF Sound

\* A row about a request that is done stays true.
LEMMA StillTrue ==
    ASSUME PipeInv, Grows, Observe, NEW r \in rows, req'[r[3]] = req[r[3]]
    PROVE  RowIsTrue(r)'
<1>1. RowIsTrue(r)
    BY DEF PipeInv
<1>2. saw[r[3]] \subseteq saw'[r[3]] /\ Tenant[r[3]] \in Tenants
    BY <1>1, Observed, ProfileTypes DEF RowIsTrue
<1>3. Happened(r[2], r[3])'
    BY <1>1, <1>2 DEF RowIsTrue, Happened, Grows, Exists, Registered
<1> QED
    BY <1>1, <1>3 DEF RowIsTrue

\* A step is judged by the requests that moved, which were not done, and the rows
\* that it wrote.
LEMMA StepKeeps ==
    ASSUME PipeInv, World', Grows, Observe, req' \in [Requests -> Request],
           \A p \in Requests : req'[p] = req[p] \/ (req[p].pc # "done" /\ Sound(p)'),
           \A r \in rows' \ rows : RowIsTrue(r)'
    PROVE  PipeInv'
<1>1. \A p \in Requests : Sound(p)'
    BY StillSound
<1>2. ASSUME NEW r \in rows PROVE RowIsTrue(r)'
  <2>1. r[3] \in Requests /\ req[r[3]].pc = "done"
      BY DEF PipeInv, RowIsTrue
  <2> QED
      BY <2>1, StillTrue
<1>3. \A r \in rows' : RowIsTrue(r)'
    BY <1>2
<1> QED
    BY <1>1, <1>3, Observed DEF PipeInv

\* One request moves.
LEMMA OneMoves ==
    ASSUME PipeInv, World', Grows, Observe, NEW p \in Requests, NEW q \in Request,
           Step(p, q), req[p].pc # "done", Sound(p)',
           \A r \in rows' \ rows : RowIsTrue(r)'
    PROVE  PipeInv'
<1>1. req' \in [Requests -> Request] /\ \A o \in Requests \ {p} : req'[o] = req[o]
    BY DEF Step, PipeInv
<1> QED
    BY <1>1, StepKeeps

\* The statuses of the errors that are thrown.
LEMMA Problems ==
    /\ ToProblem("TooManyRequests") = "429" /\ ToProblem("ControlPlaneUnauthorized") = "401"
    /\ ToProblem("TenantNotFound") = "404" /\ ToProblem("InvalidAccessToken") = "401"
    /\ ToProblem("CrossTenantToken") = "401" /\ ToProblem("ValidationFailed") = "422"
    /\ ToProblem("EmailAlreadyRegistered") = "409" /\ ToProblem("InvalidCredentials") = "401"
    /\ ToProblem("TenantAlreadyExists") = "409" /\ ToProblem("TenantProvisioningInProgress") = "409"
    /\ ToProblem("Forbidden") = "403" /\ ToProblem("Unexpected") = "500"
    BY DEF ToProblem

\* The answers that promise nothing.
Refusals == {"401", "404", "409", "422", "429", "500", "failed", "dead"}

\* Which of them a request may get, as far as its tenant guard and the trail go.
MayRefuse(p, a) ==
    /\ a \in Refusals
    /\ Kind[p] = "login" => a # "401"
    /\ Kind[p] # "provision" => a \in {"404", "429", "500", "failed", "dead"} \/ "routable" \in saw[p]

\* A request that is refused is sound.
LEMMA RefusedSound ==
    ASSUME PipeInv, Observe, NEW p \in Requests, NEW a, MayRefuse(p, a),
           req'[p].pc = "done", req'[p].answer = a
    PROVE  Sound(p)'
<1>1. saw[p] \subseteq saw'[p]
    BY Observed
<1>2. Routed(p)' /\ Checked(p)' /\ Judged(p)'
    BY DEF Routed, Checked, Judged
<1>3. Answered(p)'
  <2>1. \A v \in Verdicts : v[1] = Kind[p] /\ v[3] = a => v[2] = "auth.login.throttled"
      BY DEF MayRefuse, Refusals, Verdicts
  <2>2. a \notin {"200", "201", "created"}
      BY DEF MayRefuse, Refusals
  <2> QED
      BY <1>1, <2>1, <2>2 DEF Answered, MayRefuse
<1> QED
    BY <1>2, <1>3 DEF Sound

\* A step that leaves the world alone, or changes nothing of it but the counts.
LEMMA SameWorld ==
    ASSUME PipeInv, UNCHANGED <<users, tenants, cache, tokens, rows, logged>>,
           faults' \in 0 .. MaxFaults, changes' \in 0 .. MaxChanges
    PROVE  World' /\ Grows
    BY DEF PipeInv, World, Grows

\* The counts keep their bounds.
LEMMA Counted ==
    ASSUME PipeInv, UNCHANGED counts \/ Fault \/ Change
    PROVE  faults' \in 0 .. MaxFaults /\ changes' \in 0 .. MaxChanges
    BY DEF PipeInv, World, counts, Fault, Change

\* A request is refused, and nothing else happens.
LEMMA RefusedKeeps ==
    ASSUME PipeInv, Observe, NEW p \in Requests, NEW q \in Request, NEW a, MayRefuse(p, a),
           req[p].pc # "done", Step(p, Finish(q, a)),
           UNCHANGED <<users, tenants, cache, tokens, rows, logged>>,
           UNCHANGED counts \/ Fault
    PROVE  PipeInv'
<1>1. a \in Answers
    BY DEF MayRefuse, Refusals, Answers
<1>2. Finish(q, a) \in Request /\ Finish(q, a).pc = "done" /\ Finish(q, a).answer = a
    BY <1>1, FinishIs
<1>3. req'[p] = Finish(q, a)
    BY DEF Step, PipeInv
<1>4. Sound(p)'
    BY <1>2, <1>3, RefusedSound
<1> QED
    BY <1>2, <1>4, OneMoves, SameWorld, Counted

\* A request moves on, or goes to record a verdict, and nothing else happens.
LEMMA MovesOn ==
    ASSUME PipeInv, Observe, NEW p \in Requests, NEW q \in Request, Step(p, q),
           req[p].pc # "done", Sound(p)',
           UNCHANGED <<users, tenants, cache, tokens, rows, logged, counts>>
    PROVE  PipeInv'
    BY OneMoves, SameWorld, Counted DEF counts

-----------------------------------------------------------------------------
(* The steps of a request, one after the other.                            *)

\* The guards that decide at once, and the start of a seed.
LEMMA StartKeeps ==
    ASSUME PipeInv, Observe, NEW p \in Requests, Arrive(p) \/ RunSeed(p)
    PROVE  PipeInv'
<1> USE DEF Arrive, RunSeed, MayStart
<1>1. req[p].pc = "idle" /\ UNCHANGED <<users, tenants, cache, tokens, rows, logged, counts>>
    OBVIOUS
<1>2. ASSUME NEW a, Step(p, Finish(Idle, a)), MayRefuse(p, a) PROVE PipeInv'
    BY <1>1, <1>2, IdleType, RefusedKeeps
<1>3. ASSUME NEW l \in {"tenant", "provision"}, Step(p, Goto(Idle, l)),
             l = "provision" <=> Kind[p] = "provision"
      PROVE  PipeInv'
  <2>0. l \in Labels
      BY DEF Labels
  <2>1. /\ Goto(Idle, l) \in Request /\ Goto(Idle, l).pc = l /\ Goto(Idle, l).answer = "none"
      BY <2>0, IdleType, GotoIs
  <2>2. req'[p] = Goto(Idle, l)
      BY <1>3 DEF Step, PipeInv
  <2>3. Sound(p)'
      BY <1>3, <2>1, <2>2 DEF Sound, Routed, Checked, Judged, Answered
  <2> QED
      BY <1>1, <1>3, <2>1, <2>3, MovesOn
<1>4. CASE Arrive(p)
  <2>1. PICK q \in Entry(p) : Step(p, q)
      BY <1>4
  <2>2. CASE q = Throw(p, Idle, "TooManyRequests")
      BY <1>2, <1>4, <2>1, <2>2, Problems DEF Throw, MayRefuse, Refusals
  <2>3. CASE Kind[p] = "provision" /\ q = Throw(p, Idle, "ControlPlaneUnauthorized")
      BY <1>2, <1>4, <2>1, <2>3, Problems DEF Throw, MayRefuse, Refusals
  <2>4. CASE Kind[p] = "provision" /\ q = Goto(Idle, "provision")
      BY <1>3, <2>1, <2>4
  <2>5. CASE Kind[p] # "provision" /\ q = Goto(Idle, "tenant")
      BY <1>3, <2>1, <2>5
  <2>6. CASE Kind[p] # "provision" /\ q = Throw(p, Idle, "TenantNotFound")
      BY <1>2, <1>4, <2>1, <2>6, Problems DEF Throw, MayRefuse, Refusals
  <2> QED
      BY <2>1, <2>2, <2>3, <2>4, <2>5, <2>6 DEF Entry, ControlPlaneGuard, TenantHeader
<1>5. CASE RunSeed(p)
    BY <1>2, <1>3, <1>5 DEF MayRefuse, Refusals
<1> QED
    BY <1>4, <1>5

\* Past the tenant guard, the request has seen its tenant active.
LEMMA TenantGuardKeeps ==
    ASSUME PipeInv, Observe, NEW p \in Requests, TenantGuard(p)
    PROVE  PipeInv'
<1> USE DEF TenantGuard
<1>1. req[p].pc = "tenant" /\ req[p] \in Request /\ req[p].answer = "none" /\ Kind[p] # "provision"
    BY DEF PipeInv, Sound, Routed
<1>2. CASE Resolves(Tenant[p])
  <2>1. tenants[Tenant[p]] = "active" /\ Tenant[p] \in Tenants /\ Kind[p] \in Kinds
      BY <1>2, ProfileTypes DEF Resolves
  <2>2. /\ AfterTenant(p) \in Labels
        /\ AfterTenant(p) = "create" <=> Kind[p] = "register"
        /\ AfterTenant(p) = "throttle" <=> Kind[p] = "login"
        /\ AfterTenant(p) = "token" <=> Kind[p] = "list"
        /\ AfterTenant(p) = "lookup" <=> Kind[p] = "seed"
        /\ AfterTenant(p) \in {"create", "throttle", "token", "lookup"}
      BY <1>1, <2>1 DEF AfterTenant, Kinds, Labels
  <2> DEFINE q == Goto(req[p], AfterTenant(p))
  <2>3. q \in Request /\ q.pc = AfterTenant(p) /\ q.answer = "none"
      BY <1>1, <2>2, GotoIs
  <2>4. Step(p, q) /\ OpenPool(p)
      BY <1>2
  <2>5. req'[p] = q
      BY <2>4 DEF Step, PipeInv
  <2>6. "routable" \in saw'[p]
    <3>1. "routable" \in Facts(p)'
        BY <2>1 DEF Facts
    <3> QED
        BY <1>1, <2>2, <2>3, <2>5, <3>1, Observed
  <2>7. Sound(p)'
      BY <2>2, <2>3, <2>5, <2>6 DEF Sound, Routed, Checked, Judged, Answered
  <2>8. World' /\ Grows
      BY <2>1, <2>4 DEF PipeInv, World, Grows, OpenPool, counts
  <2> QED
      BY <1>1, <2>3, <2>4, <2>7, <2>8, OneMoves
<1>3. CASE ~Resolves(Tenant[p])
  <2>1. PICK a \in {"404", "failed"} : Step(p, Finish(req[p], a))
      BY <1>3, Problems DEF Throw
  <2>2. MayRefuse(p, a)
      BY DEF MayRefuse, Refusals
  <2> QED
      BY <1>1, <1>3, <2>1, <2>2, RefusedKeeps
<1> QED
    BY <1>2, <1>3

\* A listing goes on with a token of its own tenant that carries the permission; a
\* denial is recorded.
LEMMA AccessTokenKeeps ==
    ASSUME PipeInv, Observe, NEW p \in Requests, AccessTokenGuard(p)
    PROVE  PipeInv'
<1> USE DEF AccessTokenGuard
<1>1. /\ req[p].pc = "token" /\ req[p] \in Request /\ req[p].answer = "none"
      /\ Kind[p] = "list" /\ "routable" \in saw[p] /\ Tenant[p] \in Tenants
    BY ProfileTypes DEF PipeInv, Sound, Routed, Checked
<1>2. PICK token \in Presented :
          Step(p, IF token = NoClaims THEN Throw(p, req[p], "InvalidAccessToken")
                  ELSE IF token.tid # Tenant[p] THEN Throw(p, req[p], "CrossTenantToken")
                  ELSE PermissionsGuard(p, token))
    OBVIOUS
<1>3. CASE Step(p, Finish(req[p], "401"))
  <2>1. MayRefuse(p, "401")
      BY <1>1 DEF MayRefuse, Refusals
  <2> QED
      BY <1>1, <1>3, <2>1, RefusedKeeps
<1>4. CASE token # NoClaims /\ token.tid = Tenant[p] /\ Step(p, PermissionsGuard(p, token))
  <2> DEFINE q == [req[p] EXCEPT !.claims = token]
  <2>1. token \in Claims /\ token.sub \in DOMAIN users /\ token.sub[1] = Tenant[p]
      BY <1>4 DEF PipeInv, World, Presented
  <2>2. q \in Request /\ q.answer = "none" /\ q.claims = token
      BY <1>1, <2>1 DEF Request
  <2> HIDE DEF q
  <2>3. saw[p] \subseteq saw'[p]
      BY Observed
  <2>4. CASE "users:read" \in token.permissions
    <3>1. Step(p, Goto(q, "read"))
        BY <1>4, <2>4 DEF PermissionsGuard, q
    <3>2. "read" \in Labels
        BY DEF Labels
    <3>3. /\ Goto(q, "read") \in Request /\ Goto(q, "read").pc = "read"
          /\ Goto(q, "read").answer = "none" /\ Goto(q, "read").claims = token
        BY <2>2, <3>2, GotoIs
    <3>4. req'[p] = Goto(q, "read")
        BY <3>1 DEF Step, PipeInv
    <3>5. Sound(p)'
        BY <1>1, <2>1, <2>3, <2>4, <3>3, <3>4 DEF Sound, Routed, Checked, Judged, Answered
    <3> QED
        BY <1>1, <3>1, <3>3, <3>5, MovesOn
  <2>5. CASE "users:read" \notin token.permissions
    <3> DEFINE r == ThenAudit(q, Tenant[p], "authz.denied", "403")
    <3>1. Step(p, r)
        BY <1>4, <2>5, Problems DEF PermissionsGuard, q
    <3>2. "authz.denied" \in Actions /\ "403" \in Answers
        BY DEF Actions, Answers
    <3>3. /\ r \in Request /\ r.pc = "audit" /\ r.answer = "none"
          /\ r.chain = Tenant[p] /\ r.event = "authz.denied" /\ r.then = "403"
        BY <1>1, <2>2, <3>2, AuditIs
    <3>4. req'[p] = r
        BY <3>1 DEF Step, PipeInv
    <3> HIDE DEF r
    <3>5. Sound(p)'
        BY <1>1, <2>3, <3>3, <3>4 DEF Sound, Routed, Checked, Judged, Answered, Verdicts, ChainOf
    <3> QED
        BY <1>1, <3>1, <3>3, <3>5, MovesOn
  <2> QED
      BY <2>4, <2>5
<1> QED
    BY <1>1, <1>2, <1>3, <1>4, Problems DEF Throw

\* What a request past its guards starts its step from.
LEMMA Past ==
    ASSUME PipeInv, NEW p \in Requests, req[p].pc \notin {"idle", "tenant", "done"}
    PROVE  /\ req[p] \in Request /\ req[p].answer = "none" /\ Sound(p)
           /\ Tenant[p] \in Tenants /\ Kind[p] \in Kinds
           /\ Kind[p] # "provision" => "routable" \in saw[p]
    BY ProfileTypes DEF PipeInv, Sound, Routed, Checked

\* A request goes to record its verdict.
LEMMA VerdictSound ==
    ASSUME PipeInv, Observe, NEW p \in Requests, req[p].pc \notin {"idle", "tenant", "done"},
           NEW event, NEW answer, <<Kind[p], event, answer>> \in Verdicts,
           Step(p, ThenAudit(req[p], ChainOf(p), event, answer)),
           Kind[p] = "register" => Created(p)',
           event # "auth.login.succeeded",
           Kind[p] = "provision" => tenants'[Tenant[p]] \in Registered
    PROVE  ThenAudit(req[p], ChainOf(p), event, answer) \in Request /\ Sound(p)'
<1> DEFINE q == ThenAudit(req[p], ChainOf(p), event, answer)
<1>1. event \in Actions /\ answer \in Answers /\ ChainOf(p) \in Tenants \cup {"master"}
    BY ProfileTypes DEF Verdicts, Actions, Answers, ChainOf
<1>2. /\ q \in Request /\ q.pc = "audit" /\ q.answer = "none"
      /\ q.chain = ChainOf(p) /\ q.event = event /\ q.then = answer
    BY <1>1, Past, AuditIs
<1>3. req'[p] = q
    BY DEF Step, PipeInv
<1>4. Kind[p] # "provision" => "routable" \in saw'[p]
    BY Past, Observed
<1> HIDE DEF q
<1>5. ChainOf(p)' = ChainOf(p)
    BY DEF ChainOf
<1>6. Sound(p)'
    BY <1>2, <1>3, <1>4, <1>5 DEF Sound, Routed, Checked, Judged, Answered
<1> QED
    BY <1>2, <1>6 DEF q

\* The validation pipe refuses.
LEMMA ValidationKeeps ==
    ASSUME PipeInv, Observe, NEW p \in Requests, ValidationFails(p)
    PROVE  PipeInv'
<1> USE DEF ValidationFails
<1>1. /\ req[p] \in Request /\ Kind[p] # "seed"
      /\ Kind[p] # "provision" => "routable" \in saw[p]
    BY Past DEF Sound, Routed
<1>2. Step(p, Finish(req[p], "422"))
    BY <1>1, Problems DEF Throw
<1>3. MayRefuse(p, "422")
    BY <1>1 DEF MayRefuse, Refusals
<1> QED
    BY <1>1, <1>2, <1>3, RefusedKeeps

\* An account is created: every other one stays as it is.
LEMMA CreatedGrows ==
    ASSUME PipeInv, NEW p \in Requests, NEW roles \in SUBSET {"tenant-admin"}, ~Exists(Id[p]),
           Insert(Id[p], User(Hash(Password[p]), roles, p)),
           UNCHANGED <<tenants, cache, tokens, rows, logged>>,
           UNCHANGED counts \/ Fault
    PROVE  World' /\ Grows /\ Created(p)'
<1> DEFINE row == User(Hash(Password[p]), roles, p)
<1>1. row \in Account /\ row.hash.of = Password[p] /\ row.by = p
    BY NewAccount
<1> HIDE DEF row
<1>2. /\ DOMAIN users' = DOMAIN users \cup {Id[p]}
      /\ users' \in [DOMAIN users' -> Account] /\ DOMAIN users' \subseteq Ids
      /\ users'[Id[p]] = row
      /\ \A j \in DOMAIN users : users'[j] = users[j]
  <2>1. World /\ Id[p] \in Ids /\ Insert(Id[p], row)
      BY ProfileTypes DEF PipeInv, row
  <2> QED
      BY <1>1, <2>1, Inserted
<1>3. World'
    BY <1>2, Counted DEF PipeInv, World
<1>4. Grows
    BY <1>2 DEF Grows
<1>5. Created(p)'
    BY <1>1, <1>2 DEF Created, Exists
<1> QED
    BY <1>3, <1>4, <1>5

\* register: the account is this request's, or it was there already.
LEMMA RegisterKeeps ==
    ASSUME PipeInv, Observe, NEW p \in Requests, Register(p)
    PROVE  PipeInv'
<1> USE DEF Register
<1>1. /\ req[p].pc = "create" /\ req[p] \in Request /\ Kind[p] = "register"
      /\ "routable" \in saw[p]
    BY Past DEF Sound, Routed
<1>2. MayRefuse(p, "409") /\ MayRefuse(p, "500")
    BY <1>1 DEF MayRefuse, Refusals
<1>3. CASE CreateUser(Id[p], Hash(Password[p]), p)
  <2>1. UNCHANGED counts \/ Fault
      BY <1>3 DEF CreateUser
  <2>2. World' /\ Grows /\ Created(p)'
    <3>1. ~Exists(Id[p]) /\ Insert(Id[p], User(Hash(Password[p]), {}, p))
        BY <1>3 DEF CreateUser
    <3>2. {} \in SUBSET {"tenant-admin"} /\ UNCHANGED <<tenants, cache, tokens, rows, logged>>
        OBVIOUS
    <3> HIDE DEF Register
    <3> QED
        BY <2>1, <3>1, <3>2, CreatedGrows
  <2>3. CASE Step(p, ThenAudit(req[p], Tenant[p], "user.registered", "201"))
    <3>1. ChainOf(p) = Tenant[p] /\ <<Kind[p], "user.registered", "201">> \in Verdicts
        BY <1>1 DEF ChainOf, Verdicts
    <3>2. ThenAudit(req[p], ChainOf(p), "user.registered", "201") \in Request /\ Sound(p)'
        BY <1>1, <2>2, <2>3, <3>1, VerdictSound
    <3> QED
        BY <1>1, <2>2, <2>3, <3>1, <3>2, OneMoves
  <2>4. CASE Step(p, Throw(p, req[p], "Unexpected"))
    <3>1. Step(p, Finish(req[p], "500")) /\ "500" \in Answers
        BY <1>1, <2>4, Problems DEF Throw, Answers
    <3>2. /\ Finish(req[p], "500") \in Request /\ Finish(req[p], "500").pc = "done"
          /\ Finish(req[p], "500").answer = "500"
        BY <1>1, <3>1, FinishIs
    <3>3. req'[p] = Finish(req[p], "500")
        BY <3>1 DEF Step, PipeInv
    <3>4. Sound(p)'
        BY <1>2, <3>2, <3>3, RefusedSound
    <3> QED
        BY <1>1, <2>2, <3>1, <3>2, <3>4, OneMoves
  <2> QED
      BY <1>3, <2>3, <2>4 DEF CreateUser
<1>4. CASE Step(p, Throw(p, req[p], "EmailAlreadyRegistered")) /\ UNCHANGED <<users, counts>>
  <2>1. Step(p, Finish(req[p], "409"))
      BY <1>1, <1>4, Problems DEF Throw
  <2> QED
      BY <1>1, <1>2, <1>4, <2>1, RefusedKeeps
<1> QED
    BY <1>3, <1>4

\* The throttle lets a login go on, or its refusal is recorded.
LEMMA ThrottleKeeps ==
    ASSUME PipeInv, Observe, NEW p \in Requests, Throttle(p)
    PROVE  PipeInv'
<1> USE DEF Throttle
<1>1. /\ req[p].pc = "throttle" /\ req[p] \in Request /\ Kind[p] = "login"
      /\ req[p].answer = "none" /\ "routable" \in saw'[p]
    BY Past, Observed DEF Sound, Routed
<1>2. CASE Step(p, Goto(req[p], "find"))
  <2>1. "find" \in Labels
      BY DEF Labels
  <2>2. /\ Goto(req[p], "find") \in Request /\ Goto(req[p], "find").pc = "find"
        /\ Goto(req[p], "find").answer = "none"
      BY <1>1, <2>1, GotoIs
  <2>3. req'[p] = Goto(req[p], "find")
      BY <1>2 DEF Step, PipeInv
  <2>4. Sound(p)'
      BY <1>1, <2>2, <2>3 DEF Sound, Routed, Checked, Judged, Answered
  <2> QED
      BY <1>1, <1>2, <2>2, <2>4, MovesOn
<1>3. CASE Step(p, ThenAudit(req[p], Tenant[p], "auth.login.throttled", ToProblem("TooManyRequests")))
  <2>1. ChainOf(p) = Tenant[p] /\ <<Kind[p], "auth.login.throttled", "429">> \in Verdicts
      BY <1>1 DEF ChainOf, Verdicts
  <2>2. ThenAudit(req[p], ChainOf(p), "auth.login.throttled", "429") \in Request /\ Sound(p)'
      BY <1>1, <1>3, <2>1, VerdictSound, Problems
  <2> QED
      BY <1>1, <1>3, <2>1, <2>2, Problems, MovesOn
<1> QED
    BY <1>2, <1>3

\* login's one read of the row: it goes on with the right password of an account
\* that is active at this moment.
LEMMA FindUserKeeps ==
    ASSUME PipeInv, Observe, NEW p \in Requests, FindUser(p)
    PROVE  PipeInv'
<1> USE DEF FindUser
<1>1. /\ req[p].pc = "find" /\ req[p] \in Request /\ Kind[p] = "login"
      /\ req[p].answer = "none" /\ "routable" \in saw'[p]
    BY Past, Observed DEF Sound, Routed
<1> DEFINE right == /\ Exists(Id[p])
                    /\ users[Id[p]].status = "active"
                    /\ Verify(users[Id[p]].hash, Password[p])
<1>2. CASE right
  <2>1. PICK l \in {"upgrade", "authz"} : Step(p, Goto(req[p], l))
      BY <1>2
  <2>2. l \in Labels
      BY DEF Labels
  <2>3. /\ Goto(req[p], l) \in Request /\ Goto(req[p], l).pc = l /\ Goto(req[p], l).answer = "none"
      BY <1>1, <2>2, GotoIs
  <2>4. req'[p] = Goto(req[p], l)
      BY <2>1 DEF Step, PipeInv
  <2>5. "right" \in saw'[p]
    <3>1. "right" \in Facts(p)'
        BY <1>2 DEF Facts, Exists, Verify
    <3> QED
        BY <1>1, <2>3, <2>4, <3>1, Observed
  <2>6. Exists(Id[p])' /\ users'[Id[p]].hash.of = Password[p]
      BY <1>2 DEF Exists, Verify
  <2>7. Sound(p)'
      BY <1>1, <2>3, <2>4, <2>5, <2>6 DEF Sound, Routed, Checked, Judged, Answered
  <2> QED
      BY <1>1, <2>1, <2>3, <2>7, MovesOn
<1>3. CASE ~right
  <2>1. Step(p, ThenAudit(req[p], Tenant[p], "auth.login.failed", "401"))
      BY <1>3, Problems
  <2>2. ChainOf(p) = Tenant[p] /\ <<Kind[p], "auth.login.failed", "401">> \in Verdicts
      BY <1>1 DEF ChainOf, Verdicts
  <2>3. ThenAudit(req[p], ChainOf(p), "auth.login.failed", "401") \in Request /\ Sound(p)'
      BY <1>1, <2>1, <2>2, VerdictSound
  <2> QED
      BY <1>1, <2>1, <2>2, <2>3, MovesOn
<1> QED
    BY <1>2, <1>3

\* The hash is replaced by one of the password that it answers to.
LEMMA UpgradeKeeps ==
    ASSUME PipeInv, Observe, NEW p \in Requests, UpgradeHash(p)
    PROVE  PipeInv'
<1> USE DEF UpgradeHash
<1>1. /\ req[p].pc = "upgrade" /\ req[p] \in Request /\ Kind[p] = "login"
      /\ req[p].answer = "none" /\ "routable" \in saw'[p] /\ "right" \in saw'[p]
      /\ Exists(Id[p]) /\ users[Id[p]].hash.of = Password[p]
    BY Past, Observed DEF Sound, Routed, Checked
<1>2. World' /\ Grows
  <2>1. CASE UNCHANGED users /\ Fault
      BY <2>1, SameWorld, Counted
  <2>2. CASE UpdateHash(Id[p], Hash(Password[p])) /\ UNCHANGED counts
    <3> DEFINE new == [users[Id[p]] EXCEPT !.hash = Hash(Password[p])]
    <3>1. users[Id[p]] \in Account /\ Id[p] \in DOMAIN users /\ Password[p] \in Passwords
        BY <1>1, ProfileTypes DEF PipeInv, World, Exists
    <3>2. new \in Account /\ new.hash.of = Password[p] /\ new.by = users[Id[p]].by
        BY <3>1 DEF Account, Hash
    <3>3. users' = [users EXCEPT ![Id[p]] = new]
        BY <2>2 DEF UpdateHash
    <3> HIDE DEF new
    <3>4. /\ users' \in [DOMAIN users -> Account] /\ DOMAIN users' = DOMAIN users
          /\ users'[Id[p]] = new /\ \A j \in DOMAIN users \ {Id[p]} : users'[j] = users[j]
        BY <3>1, <3>2, <3>3 DEF PipeInv, World
    <3>5. World'
        BY <2>2, <3>4 DEF PipeInv, World, counts
    <3>6. Grows
        BY <1>1, <3>2, <3>4 DEF Grows
    <3> QED
        BY <3>5, <3>6
  <2> QED
      BY <2>1, <2>2
<1>3. "authz" \in Labels
    BY DEF Labels
<1>4. /\ Goto(req[p], "authz") \in Request /\ Goto(req[p], "authz").pc = "authz"
      /\ Goto(req[p], "authz").answer = "none"
    BY <1>1, <1>3, GotoIs
<1>5. req'[p] = Goto(req[p], "authz")
    BY DEF Step, PipeInv
<1>6. Exists(Id[p])' /\ users'[Id[p]].hash.of = Password[p]
    BY <1>1, <1>2 DEF Grows, Exists
<1>7. Sound(p)'
    BY <1>1, <1>4, <1>5, <1>6 DEF Sound, Routed, Checked, Judged, Answered
<1> QED
    BY <1>1, <1>2, <1>4, <1>7, OneMoves

\* The token's permissions are those of the roles at this moment.
LEMMA LoadAuthzKeeps ==
    ASSUME PipeInv, Observe, NEW p \in Requests, LoadAuthz(p)
    PROVE  PipeInv'
<1> USE DEF LoadAuthz
<1>1. /\ req[p].pc = "authz" /\ req[p] \in Request /\ Kind[p] = "login"
      /\ req[p].answer = "none" /\ "routable" \in saw'[p] /\ "right" \in saw'[p]
      /\ Exists(Id[p]) /\ Tenant[p] \in Tenants /\ Id[p] \in Ids
    BY Past, Observed, ProfileTypes DEF Sound, Routed, Checked
<1> DEFINE a == ThenAudit(req[p], Tenant[p], "auth.login.succeeded", "201")
           c == [sub |-> Id[p], tid |-> Tenant[p],
                 permissions |-> PermissionsOf(users[Id[p]].roles)]
           q == [a EXCEPT !.claims = c]
<1>2. "auth.login.succeeded" \in Actions /\ "201" \in Answers
    BY DEF Actions, Answers
<1>3. /\ a \in Request /\ a.pc = "audit" /\ a.answer = "none" /\ a.chain = Tenant[p]
      /\ a.event = "auth.login.succeeded" /\ a.then = "201"
    BY <1>1, <1>2, AuditIs
<1>4. /\ c \in Claims /\ c.sub = Id[p] /\ c.tid = Tenant[p]
      /\ c.permissions = PermissionsOf(users[Id[p]].roles)
    BY <1>1 DEF Claims, PermissionsOf
<1>5. Step(p, q)
    OBVIOUS
<1> HIDE DEF a, c
<1>6. /\ q \in Request /\ q.pc = "audit" /\ q.answer = "none" /\ q.chain = Tenant[p]
      /\ q.event = "auth.login.succeeded" /\ q.then = "201" /\ q.claims = c
    BY <1>3, <1>4 DEF Request
<1> HIDE DEF q
<1>7. req'[p] = q
    BY <1>5 DEF Step, PipeInv
<1>8. q.claims.permissions # {} => "admin" \in saw'[p]
  <2>1. c.permissions # {} => "admin" \in Facts(p)'
      BY <1>1, <1>4 DEF Facts, Exists
  <2> QED
      BY <1>1, <1>6, <1>7, <2>1, Observed
<1>9. Sound(p)'
  <2>1. Routed(p)' /\ Checked(p)' /\ Answered(p)'
      BY <1>1, <1>6, <1>7 DEF Routed, Checked, Answered
  <2>2. Judged(p)'
      BY <1>1, <1>4, <1>6, <1>7, <1>8 DEF Judged, Verdicts, ChainOf, Entitled, Exists, Registered
  <2> QED
      BY <2>1, <2>2 DEF Sound
<1> QED
    BY <1>1, <1>5, <1>6, <1>9, MovesOn

\* The listing is of the tenant's table, which has the caller in it.
LEMMA ListKeeps ==
    ASSUME PipeInv, Observe, NEW p \in Requests, List(p)
    PROVE  PipeInv'
<1> USE DEF List
<1>1. /\ req[p].pc = "read" /\ req[p] \in Request /\ Kind[p] = "list" /\ "routable" \in saw'[p]
      /\ req[p].claims.sub \in DOMAIN users /\ req[p].claims.sub[1] = Tenant[p]
      /\ "users:read" \in req[p].claims.permissions
    BY Past, Observed DEF Sound, Routed, Checked
<1> DEFINE f == Finish(req[p], "200")
           q == [f EXCEPT !.read = FindMany(Tenant[p])]
<1>2. FindMany(Tenant[p]) \in SUBSET Ids /\ "200" \in Answers
    BY DEF FindMany, PipeInv, World, Answers
<1>3. f \in Request /\ f.pc = "done" /\ f.answer = "200" /\ f.claims = req[p].claims
    BY <1>1, <1>2, FinishIs
<1>4. Step(p, q)
    OBVIOUS
<1> HIDE DEF f
<1>5. /\ q \in Request /\ q.pc = "done" /\ q.answer = "200" /\ q.claims = req[p].claims
      /\ q.read = FindMany(Tenant[p])
    BY <1>2, <1>3 DEF Request
<1> HIDE DEF q
<1>6. req'[p] = q
    BY <1>4 DEF Step, PipeInv
<1>7. Sound(p)'
  <2>1. Routed(p)' /\ Checked(p)' /\ Judged(p)'
      BY <1>5, <1>6 DEF Routed, Checked, Judged
  <2>2. Answered(p)'
      BY <1>1, <1>5, <1>6 DEF Answered, FindMany, Verdicts
  <2> QED
      BY <2>1, <2>2 DEF Sound
<1> QED
    BY <1>1, <1>4, <1>5, <1>7, MovesOn

\* A request ends with one of the answers that promise nothing, after a step that
\* changed the world.
LEMMA RefusedAfter ==
    ASSUME PipeInv, Observe, World', Grows, NEW p \in Requests, NEW a, MayRefuse(p, a),
           req[p].pc # "done", Step(p, Finish(req[p], a)), UNCHANGED rows
    PROVE  PipeInv'
<1>1. a \in Answers /\ req[p] \in Request
    BY DEF MayRefuse, Refusals, Answers, PipeInv
<1>2. Finish(req[p], a) \in Request /\ Finish(req[p], a).pc = "done" /\ Finish(req[p], a).answer = a
    BY <1>1, FinishIs
<1>3. req'[p] = Finish(req[p], a)
    BY DEF Step, PipeInv
<1>4. Sound(p)'
    BY <1>2, <1>3, RefusedSound
<1> QED
    BY <1>2, <1>4, OneMoves

\* A provisioning leaves no tenant behind its registration.
LEMMA ProvisionKeeps ==
    ASSUME PipeInv, Observe, NEW p \in Requests, Provision(p)
    PROVE  PipeInv'
<1> USE DEF Provision
<1>1. /\ req[p].pc = "provision" /\ req[p] \in Request /\ Kind[p] = "provision"
      /\ Tenant[p] \in Tenants
    BY Past DEF Sound, Routed
<1>2. MayRefuse(p, "409") /\ MayRefuse(p, "500")
    BY <1>1 DEF MayRefuse, Refusals
<1>3. ASSUME NEW s \in {"active", "provisioning"},
             tenants[Tenant[p]] \in {"absent", "provisioning"},
             tenants' = [tenants EXCEPT ![Tenant[p]] = s],
             UNCHANGED counts \/ Fault
      PROVE  World' /\ Grows /\ tenants'[Tenant[p]] = s
  <2>1. tenants \in [Tenants -> Statuses]
      BY DEF PipeInv, World
  <2>2. tenants' \in [Tenants -> Statuses] /\ tenants'[Tenant[p]] = s
      BY <1>1, <1>3, <2>1 DEF Statuses
  <2>3. World'
      BY <1>3, <2>2, Counted DEF PipeInv, World
  <2>4. Grows
      BY <1>3, <2>1 DEF Grows, Registered
  <2> QED
      BY <2>2, <2>3, <2>4
<1>4. CASE /\ tenants[Tenant[p]] \in {"absent", "provisioning"}
           /\ tenants' = [tenants EXCEPT ![Tenant[p]] = "active"]
           /\ Step(p, ThenAudit(req[p], "master", "tenant.provisioned", "201"))
           /\ UNCHANGED counts
  <2>1. World' /\ Grows /\ tenants'[Tenant[p]] \in Registered
      BY <1>3, <1>4 DEF Registered
  <2>2. ChainOf(p) = "master" /\ <<Kind[p], "tenant.provisioned", "201">> \in Verdicts
      BY <1>1 DEF ChainOf, Verdicts
  <2>3. ThenAudit(req[p], ChainOf(p), "tenant.provisioned", "201") \in Request /\ Sound(p)'
      BY <1>1, <1>4, <2>1, <2>2, VerdictSound
  <2> QED
      BY <1>1, <1>4, <2>1, <2>2, <2>3, OneMoves
<1>5. CASE /\ tenants[Tenant[p]] \in {"absent", "provisioning"}
           /\ \E s \in {"provisioning", "active"} : tenants' = [tenants EXCEPT ![Tenant[p]] = s]
           /\ Fault /\ Step(p, Throw(p, req[p], "Unexpected"))
  <2>1. World' /\ Grows
      BY <1>3, <1>5
  <2>2. Step(p, Finish(req[p], "500"))
      BY <1>1, <1>5, Problems DEF Throw
  <2> QED
      BY <1>1, <1>2, <2>1, <2>2, RefusedAfter
<1>6. CASE /\ \/ Step(p, Throw(p, req[p], "TenantProvisioningInProgress"))
              \/ Step(p, Throw(p, req[p], "TenantAlreadyExists"))
           /\ UNCHANGED <<tenants, counts>>
  <2>1. Step(p, Finish(req[p], "409"))
      BY <1>1, <1>6, Problems DEF Throw
  <2> QED
      BY <1>1, <1>2, <1>6, <2>1, RefusedKeeps
<1> QED
    BY <1>4, <1>5, <1>6

\* The seed's lookup.
LEMMA SeedLookupKeeps ==
    ASSUME PipeInv, Observe, NEW p \in Requests, SeedLookup(p)
    PROVE  PipeInv'
<1> USE DEF SeedLookup
<1>1. /\ req[p].pc = "lookup" /\ req[p] \in Request /\ Kind[p] = "seed"
      /\ req[p].answer = "none" /\ "routable" \in saw'[p]
    BY Past, Observed DEF Sound, Routed
<1> DEFINE g == Goto(req[p], "tx")
           q == [g EXCEPT !.existing = Exists(Id[p])]
<1>2. "tx" \in Labels /\ Exists(Id[p]) \in BOOLEAN
    BY DEF Labels, Exists
<1>3. g \in Request /\ g.pc = "tx" /\ g.answer = "none"
    BY <1>1, <1>2, GotoIs
<1>4. Step(p, q)
    OBVIOUS
<1> HIDE DEF g
<1>5. q \in Request /\ q.pc = "tx" /\ q.answer = "none"
    BY <1>2, <1>3 DEF Request
<1> HIDE DEF q
<1>6. req'[p] = q
    BY <1>4 DEF Step, PipeInv
<1>7. Sound(p)'
    BY <1>1, <1>5, <1>6 DEF Sound, Routed, Checked, Judged, Answered
<1> QED
    BY <1>1, <1>4, <1>5, <1>7, MovesOn

\* An update that keeps every row's creator and password, and the rest its type.
LEMMA UpdatedGrows ==
    ASSUME PipeInv, users' \in [DOMAIN users -> Account],
           \A id \in DOMAIN users : /\ users'[id].by = users[id].by
                                  /\ users'[id].hash = users[id].hash,
           UNCHANGED <<tenants, cache, tokens, rows, logged>>,
           UNCHANGED counts \/ Fault \/ Change
    PROVE  World' /\ Grows
<1>1. DOMAIN users' = DOMAIN users
    OBVIOUS
<1>2. World'
    BY <1>1, Counted DEF PipeInv, World
<1>3. Grows
    BY <1>1 DEF Grows
<1> QED
    BY <1>2, <1>3

\* What the seed grants, to the row that it found.
LEMMA GrantIs ==
    ASSUME PipeInv, NEW id \in Ids, GrantAdmin(id)
    PROVE  /\ users' \in [DOMAIN users -> Account]
           /\ id \in DOMAIN users => users'[id].roles = users[id].roles \cup {"tenant-admin"}
           /\ \A j \in DOMAIN users : users'[j].by = users[j].by /\ users'[j].hash = users[j].hash
           /\ \A j \in DOMAIN users : j # id => users'[j] = users[j]
<1>1. users \in [DOMAIN users -> Account]
    BY DEF PipeInv, World
<1>2. CASE id \in DOMAIN users
  <2> DEFINE new == [users[id] EXCEPT !.roles = @ \cup {"tenant-admin"}]
  <2>1. users[id] \in Account
      BY <1>1, <1>2
  <2>2. /\ new \in Account /\ new.by = users[id].by /\ new.hash = users[id].hash
        /\ new.roles = users[id].roles \cup {"tenant-admin"}
      BY <2>1 DEF Account
  <2>3. users' = [users EXCEPT ![id] = new]
      BY DEF GrantAdmin
  <2> HIDE DEF new
  <2>4. users' \in [DOMAIN users -> Account]
      BY <1>1, <1>2, <2>2, <2>3
  <2>5. users'[id] = new /\ \A j \in DOMAIN users \ {id} : users'[j] = users[j]
      BY <1>1, <1>2, <2>3
  <2> QED
      BY <2>2, <2>4, <2>5
<1>3. CASE id \notin DOMAIN users
  <2>1. users = [j \in DOMAIN users |-> users[j]]
      BY <1>1
  <2>2. \A j \in DOMAIN users : j # id
      BY <1>3
  <2>a. DOMAIN users' = DOMAIN users
      BY DEF GrantAdmin
  <2>b. ASSUME NEW j \in DOMAIN users PROVE users'[j] = users[j]
      BY <2>1, <2>2 DEF GrantAdmin
  <2>3. DOMAIN users' = DOMAIN users /\ \A j \in DOMAIN users : users'[j] = users[j]
      BY <2>a, <2>b
  <2>4. users' = [j \in DOMAIN users |-> users'[j]]
      BY <2>3 DEF GrantAdmin
  <2> QED
      BY <1>1, <1>3, <2>3, <2>4
<1> QED
    BY <1>2, <1>3

\* The seed's transaction: a user that is new and its own, or that was there.
LEMMA SeedKeeps ==
    ASSUME PipeInv, Observe, NEW p \in Requests, Seed(p)
    PROVE  PipeInv'
<1> USE DEF Seed
<1>1. /\ req[p].pc = "tx" /\ req[p] \in Request /\ Kind[p] = "seed" /\ "routable" \in saw'[p]
      /\ req[p].existing \in BOOLEAN
    BY Past, Observed DEF Sound, Routed, Request
<1>2. MayRefuse(p, "failed")
    BY <1>1 DEF MayRefuse, Refusals
<1>3. CASE SeedTx(Id[p], req[p].existing, Hash(Password[p]), p)
  <2>1. UNCHANGED counts \/ Fault
      BY <1>3
  <2>2. World' /\ Grows /\ (~req[p].existing => Created(p)')
    <3>1. CASE req[p].existing
      <4>1. GrantAdmin(Id[p])
          BY <1>3, <3>1 DEF SeedTx
      <4>2. /\ users' \in [DOMAIN users -> Account]
            /\ \A j \in DOMAIN users : users'[j].by = users[j].by /\ users'[j].hash = users[j].hash
        <5> HIDE DEF Seed
        <5>1. Id[p] \in Ids
            BY ProfileTypes
        <5> QED
            BY <4>1, <5>1, GrantIs, Zenon
      <4>3. UNCHANGED <<tenants, cache, tokens, rows, logged>>
          OBVIOUS
      <4> HIDE DEF Seed
      <4> QED
          BY <2>1, <3>1, <4>2, <4>3, UpdatedGrows
    <3>2. CASE ~req[p].existing
      <4>1. ~Exists(Id[p]) /\ Insert(Id[p], User(Hash(Password[p]), {"tenant-admin"}, p))
          BY <1>3, <3>2 DEF SeedTx
      <4>2. {"tenant-admin"} \in SUBSET {"tenant-admin"} /\ UNCHANGED <<tenants, cache, tokens, rows, logged>>
          OBVIOUS
      <4> HIDE DEF Seed
      <4> QED
          BY <2>1, <4>1, <4>2, CreatedGrows
    <3> QED
        BY <1>1, <3>1, <3>2
  <2>3. ASSUME NEW a \in {"existing", "created"}, a = "created" => ~req[p].existing,
               Step(p, Finish(req[p], a))
        PROVE  PipeInv'
    <3>1. a \in Answers
        BY DEF Answers
    <3>2. /\ Finish(req[p], a) \in Request /\ Finish(req[p], a).pc = "done"
          /\ Finish(req[p], a).answer = a
        BY <1>1, <3>1, FinishIs
    <3>3. req'[p] = Finish(req[p], a)
        BY <2>3 DEF Step, PipeInv
    <3>4. Sound(p)'
      <4>1. Routed(p)' /\ Checked(p)' /\ Judged(p)'
          BY <3>2, <3>3 DEF Routed, Checked, Judged
      <4>2. Answered(p)'
          BY <1>1, <2>2, <2>3, <3>2, <3>3 DEF Answered, Verdicts
      <4> QED
          BY <4>1, <4>2 DEF Sound
    <3> QED
        BY <1>1, <2>2, <2>3, <3>2, <3>4, OneMoves
  <2>4. CASE Step(p, Finish(req[p], IF req[p].existing THEN "existing" ELSE "created"))
      BY <1>1, <2>3, <2>4
  <2>5. CASE Step(p, Throw(p, req[p], "Unexpected"))
    <3>1. Step(p, Finish(req[p], "failed"))
        BY <1>1, <2>5 DEF Throw
    <3> QED
        BY <1>1, <1>2, <2>2, <3>1, RefusedAfter
  <2> QED
      BY <1>3, <2>4, <2>5 DEF SeedTx
<1>4. CASE Step(p, Throw(p, req[p], "Unexpected")) /\ UNCHANGED <<users, counts>>
  <2>1. Step(p, Finish(req[p], "failed"))
      BY <1>1, <1>4 DEF Throw
  <2> QED
      BY <1>1, <1>2, <1>4, <2>1, RefusedKeeps
<1> QED
    BY <1>3, <1>4

\* The verdict is recorded, or a line says that it is not; then comes the answer.
LEMMA AuditKeeps ==
    ASSUME PipeInv, Observe, NEW p \in Requests, Audit(p)
    PROVE  PipeInv'
<1>0. PICK q : q = req[p]
    OBVIOUS
<1> DEFINE v == <<Kind[p], q.event, q.then>>
<1>1. /\ q.pc = "audit" /\ q \in Request /\ v \in Verdicts /\ q.chain = ChainOf(p)
      /\ Tenant[p] \in Tenants /\ Kind[p] \in Kinds
      /\ Kind[p] # "provision" => "routable" \in saw'[p]
      /\ Kind[p] = "register" => Created(p)
      /\ q.event = "auth.login.succeeded" =>
            Entitled(p) /\ Exists(Id[p]) /\ q.claims.sub = Id[p] /\ q.claims.tid = Tenant[p]
      /\ Kind[p] = "provision" => tenants[Tenant[p]] \in Registered
  <2>1. q.pc = "audit"
      BY <1>0 DEF Audit
  <2> QED
      BY <1>0, <2>1, Past, Observed DEF Sound, Judged
<1>2. q.event \in Actions /\ q.then \in Answers /\ q.claims \in Claims
    BY <1>1 DEF Verdicts, Actions, Answers, Request
<1>3. /\ Finish(q, q.then) \in Request /\ Finish(q, q.then).pc = "done"
      /\ Finish(q, q.then).answer = q.then /\ Finish(q, q.then).claims = q.claims
    BY <1>1, <1>2, FinishIs
<1>4. Step(p, Finish(q, q.then)) /\ req'[p] = Finish(q, q.then)
    BY <1>0 DEF Audit, Step, PipeInv
<1>5. /\ UNCHANGED <<users, tenants, cache>>
      /\ rows' = rows \/ rows' = rows \cup {<<q.chain, q.event, p>>}
      /\ logged' = logged \/ logged' = logged \cup {<<q.event, p>>}
      /\ rows' # rows \cup {<<q.chain, q.event, p>>} => logged' = logged \cup {<<q.event, p>>}
      /\ UNCHANGED counts \/ Fault
      /\ tokens' = IF q.event = "auth.login.succeeded" THEN tokens \cup {q.claims} ELSE tokens
    BY <1>0 DEF Audit
<1>6. World'
  <2>1. ASSUME NEW token \in tokens'
        PROVE  /\ token \in Claims /\ token.tid \in Tenants
               /\ token.sub \in DOMAIN users /\ token.sub[1] = token.tid
    <3>1. CASE token \in tokens
        BY <3>1 DEF PipeInv, World
    <3>2. CASE token \notin tokens
      <4>1. token = q.claims /\ q.event = "auth.login.succeeded"
          BY <1>5, <3>2
      <4> QED
          BY <1>1, <1>2, <4>1, ProfileTypes DEF Exists
    <3> QED
        BY <3>1, <3>2
  <2>2. \A l \in logged' : l[1] \in Actions
      BY <1>2, <1>5 DEF PipeInv, World
  <2> QED
      BY <1>5, <2>1, <2>2, Counted DEF PipeInv, World
<1>7. Grows
    BY <1>5 DEF Grows
<1>8. Recorded(q.event, p)'
    BY <1>1, <1>5 DEF Recorded, ChainOf
<1>9. (Created(p) => Created(p)') /\ (Entitled(p) => Entitled(p)')
    BY <1>0, <1>3, <1>4, <1>5, Observed DEF Created, Exists, Entitled
<1>10. Sound(p)'
  <2>1. Routed(p)' /\ Checked(p)' /\ Judged(p)'
      BY <1>3, <1>4 DEF Routed, Checked, Judged
  <2>2. \A w \in Verdicts : w[1] = Kind[p] /\ w[3] = q.then => w[2] = q.event
      BY <1>1 DEF Verdicts
  <2>3. q.then \notin {"200", "created"} /\ Kind[p] # "seed"
      BY <1>1 DEF Verdicts
  <2>4. Kind[p] = "login" /\ q.then = "201" => q.event = "auth.login.succeeded"
      BY <1>1 DEF Verdicts
  <2>5. Answered(p)'
      BY <1>1, <1>3, <1>4, <1>8, <1>9, <2>2, <2>3, <2>4 DEF Answered
  <2> QED
      BY <2>1, <2>5 DEF Sound
<1>11. ASSUME NEW r \in rows' \ rows PROVE RowIsTrue(r)'
  <2>1. r = <<q.chain, q.event, p>> /\ r[1] = q.chain /\ r[2] = q.event /\ r[3] = p
      BY <1>5
  <2>2. q.chain \in Tenants \cup {"master"}
      BY <1>1 DEF ChainOf
  <2>3. Happened(q.event, p)'
    <3>1. CASE q.event = "user.registered"
      <4>1. Kind[p] = "register"
          BY <1>1, <3>1 DEF Verdicts
      <4> QED
          BY <1>1, <1>9, <3>1, <4>1 DEF Happened, Created
    <3>2. CASE q.event = "auth.login.succeeded"
        BY <1>1, <1>9, <3>2 DEF Happened, Entitled
    <3>3. CASE q.event = "tenant.provisioned"
      <4>1. Kind[p] = "provision"
          BY <1>1, <3>3 DEF Verdicts
      <4> QED
          BY <1>1, <1>5, <3>3, <4>1 DEF Happened, Registered
    <3>4. CASE q.event \notin {"user.registered", "auth.login.succeeded", "tenant.provisioned"}
      <4>1. q.then \in {"401", "403", "429"}
          BY <1>1, <3>4 DEF Verdicts
      <4> QED
          BY <1>3, <1>4, <3>4, <4>1 DEF Happened
    <3> QED
        BY <3>1, <3>2, <3>3, <3>4
  <2> QED
      BY <1>2, <1>3, <1>4, <2>1, <2>2, <2>3 DEF RowIsTrue
<1> QED
    BY <1>0, <1>1, <1>3, <1>4, <1>6, <1>7, <1>10, <1>11, OneMoves

\* A query fails, and the request with it.
LEMMA QueryFailsKeeps ==
    ASSUME PipeInv, Observe, NEW p \in Requests, QueryFails(p)
    PROVE  PipeInv'
<1> USE DEF QueryFails
<1> DEFINE a == IF Kind[p] = "seed" THEN "failed" ELSE "500"
<1>1. Step(p, Finish(req[p], a))
    BY Problems DEF Throw
<1>2. MayRefuse(p, a)
    BY DEF MayRefuse, Refusals
<1>3. req[p] \in Request /\ req[p].pc # "done"
    BY DEF PipeInv
<1>4. UNCHANGED <<users, tenants, cache, tokens, rows, logged>> /\ Fault
    OBVIOUS
<1> HIDE DEF a, QueryFails
<1> QED
    BY <1>1, <1>2, <1>3, <1>4, RefusedKeeps

\* What was under way dies, and is never answered.
LEMMA CrashKeeps ==
    ASSUME PipeInv, Observe, NEW seed \in BOOLEAN, Crash(seed)
    PROVE  PipeInv'
<1>1. ASSUME NEW p \in Requests
      PROVE  /\ req'[p] \in Request
             /\ req'[p] = req[p] \/ (req[p].pc # "done" /\ Sound(p)')
  <2>1. CASE p \in UnderWay /\ (Kind[p] = "seed") = seed
    <3>1. req'[p] = Finish(req[p], "dead") /\ req[p].pc # "done"
        BY <2>1 DEF Crash, UnderWay
    <3>2. req[p] \in Request /\ "dead" \in Answers /\ MayRefuse(p, "dead")
        BY DEF PipeInv, Answers, MayRefuse, Refusals
    <3>3. req'[p] \in Request /\ req'[p].pc = "done" /\ req'[p].answer = "dead"
        BY <3>1, <3>2, FinishIs
    <3> QED
        BY <3>1, <3>2, <3>3, RefusedSound
  <2>2. CASE ~(p \in UnderWay /\ (Kind[p] = "seed") = seed)
      BY <2>2 DEF Crash, PipeInv
  <2> QED
      BY <2>1, <2>2
<1>2. req' \in [Requests -> Request]
    BY <1>1 DEF Crash
<1>3. /\ UNCHANGED <<users, tenants, tokens, rows, logged>> /\ Fault
      /\ cache' \subseteq cache
    BY DEF Crash
<1>4. World' /\ Grows
    BY <1>3, Counted DEF PipeInv, World, Grows
<1> QED
    BY <1>1, <1>2, <1>3, <1>4, StepKeeps

\* What no request of ours does: a shutdown, the operators, and the end of a token.
LEMMA OthersKeep ==
    ASSUME PipeInv, Observe, UNCHANGED <<req, rows>>, World', Grows
    PROVE  PipeInv'
    BY StepKeeps DEF PipeInv

LEMMA CloseKeeps ==
    ASSUME PipeInv, Observe, Close
    PROVE  PipeInv'
<1>1. World' /\ Grows
    BY Counted DEF PipeInv, World, Grows, Close
<1> QED
    BY <1>1, OthersKeep DEF Close

LEMMA SuspendKeeps ==
    ASSUME PipeInv, Observe, NEW t \in Tenants, Suspend(t)
    PROVE  PipeInv'
<1>1. /\ tenants \in [Tenants -> Statuses]
      /\ tenants' = [tenants EXCEPT ![t] = IF @ = "suspended" THEN "active" ELSE "suspended"]
    BY DEF Suspend, PipeInv, World
<1>2. tenants' \in [Tenants -> Statuses] /\ \A o \in Tenants : tenants[o] \in Registered => tenants'[o] \in Registered
    BY <1>1 DEF Statuses, Registered
<1>3. World' /\ Grows
    BY <1>2, Counted DEF PipeInv, World, Grows, Suspend
<1> QED
    BY <1>3, OthersKeep DEF Suspend

LEMMA TokenEndsKeeps ==
    ASSUME PipeInv, Observe, NEW token \in tokens, TokenEnds(token)
    PROVE  PipeInv'
<1>1. World' /\ Grows
    BY Counted DEF PipeInv, World, Grows, TokenEnds
<1> QED
    BY <1>1, OthersKeep DEF TokenEnds

\* An operator changes a row's status or its roles.
LEMMA ToggleIs ==
    ASSUME PipeInv, NEW id \in DOMAIN users, ToggleStatus(id) \/ ToggleRole(id)
    PROVE  /\ users' \in [DOMAIN users -> Account]
           /\ \A j \in DOMAIN users : users'[j].by = users[j].by /\ users'[j].hash = users[j].hash
<1>1. users \in [DOMAIN users -> Account] /\ users[id] \in Account
    BY DEF PipeInv, World
<1>2. ASSUME NEW new \in Account, new.by = users[id].by, new.hash = users[id].hash,
             users' = [users EXCEPT ![id] = new]
      PROVE  /\ users' \in [DOMAIN users -> Account]
             /\ \A j \in DOMAIN users : users'[j].by = users[j].by /\ users'[j].hash = users[j].hash
    BY <1>1, <1>2
<1>3. CASE ToggleStatus(id)
  <2> DEFINE new == [users[id] EXCEPT !.status = IF @ = "active" THEN "disabled" ELSE "active"]
  <2>1. new \in Account /\ new.by = users[id].by /\ new.hash = users[id].hash
      BY <1>1 DEF Account
  <2>2. users' = [users EXCEPT ![id] = new]
      BY <1>3 DEF ToggleStatus
  <2> HIDE DEF new
  <2> QED
      BY <1>2, <2>1, <2>2
<1>4. CASE ToggleRole(id)
  <2> DEFINE new == [users[id] EXCEPT !.roles = IF @ = {} THEN {"tenant-admin"} ELSE {}]
  <2>1. new \in Account /\ new.by = users[id].by /\ new.hash = users[id].hash
      BY <1>1 DEF Account
  <2>2. users' = [users EXCEPT ![id] = new]
      BY <1>4 DEF ToggleRole
  <2> HIDE DEF new
  <2> QED
      BY <1>2, <2>1, <2>2
<1> QED
    BY <1>3, <1>4

LEMMA ChangeUserKeeps ==
    ASSUME PipeInv, Observe, NEW id \in DOMAIN users, ChangeUser(id)
    PROVE  PipeInv'
<1>1. /\ ToggleStatus(id) \/ ToggleRole(id)
      /\ UNCHANGED <<tenants, cache, tokens, req, rows, logged>> /\ Change
    BY DEF ChangeUser
<1>2. /\ users' \in [DOMAIN users -> Account]
      /\ \A j \in DOMAIN users : users'[j].by = users[j].by /\ users'[j].hash = users[j].hash
    BY <1>1, ToggleIs, Zenon
<1>3. World' /\ Grows
    BY <1>1, <1>2, UpdatedGrows
<1> QED
    BY <1>1, <1>3, OthersKeep


-----------------------------------------------------------------------------
(* The invariant.                                                          *)

LEMMA PipeInit == Init => PipeInv
<1> SUFFICES ASSUME Init PROVE PipeInv
    OBVIOUS
<1> USE DEF Init
<1>1. users \in [DOMAIN users -> Account] /\ DOMAIN users \subseteq Ids
  <2>1. ASSUME NEW id \in DOMAIN Legacy PROVE Legacy[id] \in Account
    <3>1. Legacy[id].hash.of \in Passwords
        BY DEF Passwords
    <3>2. Legacy[id] \in [status : {"active", "disabled"},
                         hash : [of : {Legacy[id].hash.of}, current : BOOLEAN],
                         roles : SUBSET {"tenant-admin"}, by : {0}]
        OBVIOUS
    <3> QED
        BY <3>1, <3>2 DEF Account
  <2>2. Legacy \in [DOMAIN Legacy -> Account]
      BY <2>1
  <2> QED
      BY <2>2 DEF Ids
<1>2. World
    BY <1>1 DEF World
<1>3. req \in [Requests -> Request] /\ \A p \in Requests : req[p].pc = "idle" /\ req[p].answer = "none"
    BY IdleType
<1>4. \A p \in Requests : Sound(p)
    BY <1>3 DEF Sound, Routed, Checked, Judged, Answered
<1> QED
    BY <1>2, <1>3, <1>4 DEF PipeInv

LEMMA PipeNext ==
    ASSUME PipeInv, [Next]_vars
    PROVE  PipeInv'
<1>1. ASSUME Next PROVE PipeInv'
  <2>1. Observe
      BY <1>1 DEF Next
  <2>2. ASSUME NEW p \in Requests, Arrive(p) \/ RunSeed(p) \/ Handle(p) PROVE PipeInv'
    <3>1. CASE Arrive(p) \/ RunSeed(p)
        BY <2>1, <3>1, StartKeeps
    <3>2. CASE TenantGuard(p)
        BY <2>1, <3>2, TenantGuardKeeps
    <3>3. CASE AccessTokenGuard(p)
        BY <2>1, <3>3, AccessTokenKeeps
    <3>4. CASE ValidationFails(p)
        BY <2>1, <3>4, ValidationKeeps
    <3>5. CASE Register(p)
        BY <2>1, <3>5, RegisterKeeps
    <3>6. CASE Throttle(p)
        BY <2>1, <3>6, ThrottleKeeps
    <3>7. CASE FindUser(p)
        BY <2>1, <3>7, FindUserKeeps
    <3>8. CASE UpgradeHash(p)
        BY <2>1, <3>8, UpgradeKeeps
    <3>9. CASE LoadAuthz(p)
        BY <2>1, <3>9, LoadAuthzKeeps
    <3>10. CASE List(p)
        BY <2>1, <3>10, ListKeeps
    <3>11. CASE Provision(p)
        BY <2>1, <3>11, ProvisionKeeps
    <3>12. CASE SeedLookup(p)
        BY <2>1, <3>12, SeedLookupKeeps
    <3>13. CASE Seed(p)
        BY <2>1, <3>13, SeedKeeps
    <3>14. CASE Audit(p)
        BY <2>1, <3>14, AuditKeeps
    <3>15. CASE QueryFails(p)
        BY <2>1, <3>15, QueryFailsKeeps
    <3> QED
        BY <2>2, <3>1, <3>2, <3>3, <3>4, <3>5, <3>6, <3>7, <3>8, <3>9, <3>10, <3>11, <3>12, <3>13,
           <3>14, <3>15 DEF Handle
  <2>3. ASSUME NEW seed \in BOOLEAN, Crash(seed) PROVE PipeInv'
      BY <2>1, <2>3, CrashKeeps
  <2>4. ASSUME NEW t \in Tenants, Suspend(t) PROVE PipeInv'
      BY <2>1, <2>4, SuspendKeeps
  <2>5. ASSUME NEW id \in DOMAIN users, ChangeUser(id) PROVE PipeInv'
      BY <2>1, <2>5, ChangeUserKeeps
  <2>6. ASSUME NEW token \in tokens, TokenEnds(token) PROVE PipeInv'
      BY <2>1, <2>6, TokenEndsKeeps
  <2> QED
      BY <1>1, <2>1, <2>2, <2>3, <2>4, <2>5, <2>6, CloseKeeps DEF Next
<1>2. ASSUME UNCHANGED vars PROVE PipeInv'
  <2> USE <1>2 DEF vars
  <2>1. World'
      BY DEF PipeInv, World
  <2>2. ASSUME NEW p \in Requests PROVE Sound(p)'
    <3>1. Sound(p)
        BY DEF PipeInv
    <3>2. Routed(p)' /\ Checked(p)'
        BY <3>1 DEF Sound, Routed, Checked, Exists
    <3>3. (Created(p) => Created(p)') /\ (Entitled(p) => Entitled(p)')
        BY DEF Created, Entitled, Exists
    <3>4. Judged(p)'
        BY <3>1, <3>3 DEF Sound, Judged, Exists
    <3>5. \A e : Recorded(e, p) => Recorded(e, p)'
        BY DEF Recorded
    <3>6. Answered(p)'
        BY <3>1, <3>3, <3>5 DEF Sound, Answered
    <3> QED
        BY <3>2, <3>4, <3>6 DEF Sound
  <2>3. ASSUME NEW r \in rows' PROVE RowIsTrue(r)'
    <3>1. RowIsTrue(r)
        BY DEF PipeInv
    <3> QED
        BY <3>1 DEF RowIsTrue, Happened, Exists
  <2> QED
      BY <2>1, <2>2, <2>3 DEF PipeInv
<1> QED
    BY <1>1, <1>2

\* Every request can rely on what it read, at every await, whatever the others do.
THEOREM PipelineInvariant == Spec => []PipeInv
    BY PipeInit, PipeNext, PTL DEF Spec

\* Types, and that every answer is one that the API documents.
THEOREM PipelineTypes == Spec => []TypeOK
<1>1. PipeInv => TypeOK
    BY DEF PipeInv, World, TypeOK, Account, Request, RowIsTrue
<1> QED
    BY <1>1, PipelineInvariant, PTL

\* One account for a person in a tenant, and it is its creator's.
THEOREM AccountsAreUnique == Spec => []OneAccountEach
<1>1. ASSUME PipeInv PROVE OneAccountEach
  <2>1. ASSUME NEW a \in DOMAIN users, NEW b \in DOMAIN users, a[1] = b[1], a[2][1] = b[2][1]
        PROVE  a = b
    <3>0. a \in Ids /\ b \in Ids
        BY <1>1 DEF PipeInv, World
    <3>1. a = <<a[1], <<a[2][1], "lower">>>> /\ b = <<b[1], <<b[2][1], "lower">>>>
        BY <3>0, ProfileTypes, Zenon
    <3> QED
        BY <2>1, <3>1, Zenon
  <2>2. ASSUME NEW p \in Requests,
               <<Kind[p], req[p].answer>> \in {<<"register", "201">>, <<"seed", "created">>}
        PROVE  users[Id[p]].by = p /\ users[Id[p]].hash.of = Password[p]
    <3>1. Routed(p) /\ Answered(p)
        BY <1>1 DEF PipeInv, Sound
    <3>2. Created(p)
        BY <2>2, <3>1 DEF Routed, Answered
    <3> QED
        BY <3>2 DEF Created
  <2> QED
      BY <2>1, <2>2 DEF OneAccountEach
<1> QED
    BY <1>1, PipelineInvariant, PTL

\* Nobody passes the tenant guard of a tenant that was not active meanwhile.
THEOREM SuspensionStops == Spec => []SuspensionBites
<1>1. PipeInv => SuspensionBites
    BY DEF PipeInv, SuspensionBites, Sound, Checked, Answered
<1> QED
    BY <1>1, PipelineInvariant, PTL

\* Who is served is entitled to it.
THEOREM OnlyEntitledAreServed == Spec => []ServedIsEntitled
<1>1. PipeInv => ServedIsEntitled
    BY DEF PipeInv, ServedIsEntitled, Sound, Routed, Answered, Entitled
<1> QED
    BY <1>1, PipelineInvariant, PTL

\* Every verdict leaves its trace, and every row is true.
THEOREM VerdictsLeaveTraces == Spec => []VerdictsRecorded
<1>1. ASSUME PipeInv PROVE VerdictsRecorded
  <2>1. ASSUME NEW p \in Requests, NEW event \in EventOf(p) PROVE Recorded(event, p)
    <3>1. <<Kind[p], event, req[p].answer>> \in Verdicts /\ event # "auth.login.throttled"
        BY <2>1 DEF EventOf, Verdicts
    <3>2. req[p].answer # "none"
        BY <3>1 DEF Verdicts
    <3>a. Routed(p) /\ Answered(p)
        BY <1>1 DEF PipeInv, Sound
    <3>3. req[p].pc = "done"
        BY <3>2, <3>a DEF Routed
    <3> DEFINE v == <<Kind[p], event, req[p].answer>>
    <3>4. v \in Verdicts /\ v[1] = Kind[p] /\ v[2] = event /\ v[3] = req[p].answer
        BY <3>1
    <3> HIDE DEF v
    <3> QED
        BY <3>1, <3>3, <3>4, <3>a DEF Answered
  <2>2. ASSUME NEW r \in rows PROVE Happened(r[2], r[3])
    <3>1. RowIsTrue(r)
        BY <1>1 DEF PipeInv
    <3> QED
        BY <3>1 DEF RowIsTrue
  <2> QED
      BY <2>1, <2>2 DEF VerdictsRecorded, Recorded, ChainOf
<1> QED
    BY <1>1, PipelineInvariant, PTL


-----------------------------------------------------------------------------
(* What a step may never do to an account.                                 *)

HashesKept ==
    \A id \in DOMAIN users : /\ users'[id].hash.of = users[id].hash.of
                             /\ users[id].hash.current => users'[id].hash.current

RolesOf(id) == IF Exists(id) THEN users[id].roles ELSE {}
Seeds(id)   == {p \in Requests : Kind[p] = "seed" /\ Id[p] = id /\ req[p].pc = "tx"}

RolesMeant(id) ==
    /\ users'[id].roles # RolesOf(id) => req' = req \/ \E p \in Seeds(id) : req'[p].pc = "done"
    /\ \A p \in Seeds(id) : req'[p].answer \in {"created", "existing"} =>
          "tenant-admin" \in users'[id].roles
    /\ ~Exists(id) => (users'[id].roles # {}) = (Kind[users'[id].by] = "seed")

\* No seed reports success in this step.
NoneSeeded == \A p \in Requests : req[p].pc = "tx" => req'[p].answer \notin {"created", "existing"}

Meant == HashesKept /\ \A id \in DOMAIN users' : RolesMeant(id)

LEMMA NoWrite ==
    ASSUME PipeInv, UNCHANGED users, NoneSeeded
    PROVE  Meant
<1>1. HashesKept
    BY DEF HashesKept
<1>2. ASSUME NEW id \in DOMAIN users' PROVE RolesMeant(id)
    BY DEF RolesMeant, RolesOf, Seeds, NoneSeeded, Exists
<1> QED
    BY <1>1, <1>2 DEF Meant

\* A seed whose step it is not has no answer after it.
LEMMA OtherSteps ==
    ASSUME PipeInv, NEW p \in Requests, req[p].pc # "tx", NEW q, Step(p, q)
    PROVE  NoneSeeded
<1>1. ASSUME NEW o \in Requests, req[o].pc = "tx" PROVE req'[o].answer = "none"
  <2>1. req'[o] = req[o]
      BY <1>1 DEF Step, PipeInv
  <2>2. Routed(o)
      BY DEF PipeInv, Sound
  <2> QED
      BY <1>1, <2>1, <2>2 DEF Routed
<1> QED
    BY <1>1 DEF NoneSeeded

LEMMA SameRequests ==
    ASSUME PipeInv, UNCHANGED req
    PROVE  NoneSeeded
<1>1. \A o \in Requests : Routed(o)
    BY DEF PipeInv, Sound
<1> QED
    BY <1>1 DEF NoneSeeded, Routed

\* The steps that do not touch the users.
LEMMA ReadersMean ==
    ASSUME PipeInv, NEW p \in Requests,
           \/ Arrive(p) \/ RunSeed(p) \/ TenantGuard(p) \/ AccessTokenGuard(p) \/ ValidationFails(p)
           \/ Throttle(p) \/ FindUser(p) \/ LoadAuthz(p) \/ List(p) \/ Provision(p) \/ SeedLookup(p)
           \/ Audit(p)
    PROVE  Meant
<1>1. UNCHANGED users
    BY DEF Arrive, RunSeed, TenantGuard, AccessTokenGuard, ValidationFails, Throttle, FindUser,
           LoadAuthz, List, Provision, SeedLookup, Audit
<1>2. req[p].pc # "tx"
    BY DEF Arrive, RunSeed, MayStart, TenantGuard, AccessTokenGuard, ValidationFails, Throttle,
           FindUser, LoadAuthz, List, Provision, SeedLookup, Audit
<1>3. \E q : Step(p, q)
    BY DEF Arrive, RunSeed, TenantGuard, AccessTokenGuard, ValidationFails, Throttle,
           FindUser, LoadAuthz, List, Provision, SeedLookup, Audit
<1> QED
    BY <1>1, <1>2, <1>3, NoWrite, OtherSteps

\* A query that fails, and a crash: no seed succeeds.
LEMMA FailuresMean ==
    ASSUME PipeInv, \/ \E p \in Requests : QueryFails(p)
                    \/ \E seed \in BOOLEAN : Crash(seed)
    PROVE  Meant
<1>1. UNCHANGED users
    BY DEF QueryFails, Crash
<1>2. ASSUME NEW o \in Requests, req[o].pc = "tx" PROVE req'[o].answer \notin {"created", "existing"}
  <2>1. Routed(o) /\ req[o] \in Request
      BY DEF PipeInv, Sound
  <2>2. req[o].answer = "none"
      BY <1>2, <2>1 DEF Routed
  <2>3. \/ req'[o] = req[o]
        \/ \E a \in {"500", "failed", "dead"} : req'[o] = Finish(req[o], a)
      BY Problems DEF QueryFails, Crash, Step, Throw, PipeInv
  <2>4. \A a \in {"500", "failed", "dead"} : a \in Answers
      BY DEF Answers
  <2> QED
      BY <2>1, <2>2, <2>3, <2>4, FinishIs
<1> QED
    BY <1>1, <1>2, NoWrite DEF NoneSeeded


\* A new row, and the others as they were.
LEMMA InsertIs ==
    ASSUME PipeInv, NEW p \in Requests, NEW roles \in SUBSET {"tenant-admin"}, ~Exists(Id[p]),
           Insert(Id[p], User(Hash(Password[p]), roles, p))
    PROVE  /\ DOMAIN users' = DOMAIN users \cup {Id[p]}
           /\ users'[Id[p]].roles = roles /\ users'[Id[p]].by = p
           /\ \A j \in DOMAIN users : users'[j] = users[j]
<1> DEFINE row == User(Hash(Password[p]), roles, p)
<1> HIDE PipelineAssumption
<1>1. row \in Account /\ row.roles = roles /\ row.by = p
    BY NewAccount
<1> HIDE DEF row
<1>2. World /\ Id[p] \in Ids /\ Insert(Id[p], row)
    BY ProfileTypes DEF PipeInv, row
<1> QED
    BY <1>1, <1>2, Inserted

\* register: a new row without roles, or none.
LEMMA RegisterMeans ==
    ASSUME PipeInv, NEW p \in Requests, Register(p)
    PROVE  Meant
<1> USE DEF Register
<1>1. req[p].pc = "create" /\ Kind[p] = "register"
    BY Past DEF Sound, Routed
<1>2. NoneSeeded
  <2>1. \E q : Step(p, q)
      OBVIOUS
  <2> QED
      BY <1>1, <2>1, OtherSteps
<1>3. CASE UNCHANGED users
    BY <1>2, <1>3, NoWrite
<1>4. CASE CreateUser(Id[p], Hash(Password[p]), p)
  <2>0. {} \in SUBSET {"tenant-admin"}
      OBVIOUS
  <2>1. ~Exists(Id[p]) /\ Insert(Id[p], User(Hash(Password[p]), {}, p))
      BY <1>4 DEF CreateUser
  <2> HIDE DEF Register
  <2>2. /\ DOMAIN users' = DOMAIN users \cup {Id[p]}
        /\ users'[Id[p]].roles = {} /\ users'[Id[p]].by = p
        /\ \A j \in DOMAIN users : users'[j] = users[j]
      BY <2>0, <2>1, InsertIs
  <2>3. HashesKept
      BY <2>2 DEF HashesKept
  <2>4. ASSUME NEW id \in DOMAIN users' PROVE RolesMeant(id)
    <3>1. CASE id \in DOMAIN users
        BY <1>2, <2>2, <3>1 DEF RolesMeant, RolesOf, Seeds, NoneSeeded, Exists
    <3>2. CASE id \notin DOMAIN users
      <4>1. id = Id[p]
          BY <2>2, <3>2
      <4> QED
          BY <1>1, <1>2, <2>2, <3>2, <4>1 DEF RolesMeant, RolesOf, Seeds, NoneSeeded, Exists
    <3> QED
        BY <3>1, <3>2
  <2> QED
      BY <2>3, <2>4 DEF Meant
<1> QED
    BY <1>3, <1>4

\* upgradeHashIfStale: a current hash of the same password, and the same roles.
LEMMA UpgradeMeans ==
    ASSUME PipeInv, NEW p \in Requests, UpgradeHash(p)
    PROVE  Meant
<1> USE DEF UpgradeHash
<1>1. /\ req[p].pc = "upgrade" /\ Exists(Id[p]) /\ users[Id[p]].hash.of = Password[p]
    BY Past DEF Sound, Checked
<1>2. NoneSeeded
    BY <1>1, OtherSteps
<1>3. CASE UNCHANGED users
    BY <1>2, <1>3, NoWrite
<1>4. CASE UpdateHash(Id[p], Hash(Password[p]))
  <2> DEFINE new == [users[Id[p]] EXCEPT !.hash = Hash(Password[p])]
  <2>1. users \in [DOMAIN users -> Account] /\ users[Id[p]] \in Account /\ Id[p] \in DOMAIN users
      BY <1>1 DEF PipeInv, World, Exists
  <2>2. /\ new.hash.of = users[Id[p]].hash.of /\ new.hash.current = TRUE
        /\ new.roles = users[Id[p]].roles
      BY <1>1, <2>1 DEF Account, Hash
  <2>3. users' = [users EXCEPT ![Id[p]] = new]
      BY <1>4 DEF UpdateHash
  <2> HIDE DEF new
  <2>4. /\ DOMAIN users' = DOMAIN users
        /\ users'[Id[p]] = new /\ \A j \in DOMAIN users \ {Id[p]} : users'[j] = users[j]
      BY <2>1, <2>3
  <2>5. HashesKept
      BY <2>2, <2>4 DEF HashesKept
  <2>6. ASSUME NEW id \in DOMAIN users' PROVE RolesMeant(id)
      BY <1>2, <2>2, <2>4 DEF RolesMeant, RolesOf, Seeds, NoneSeeded, Exists
  <2> QED
      BY <2>5, <2>6 DEF Meant
<1> QED
    BY <1>3, <1>4

\* The operator: nobody's hash, and no request moves.
LEMMA ChangeUserMeans ==
    ASSUME PipeInv, NEW id \in DOMAIN users, ChangeUser(id)
    PROVE  Meant
<1>1. (ToggleStatus(id) \/ ToggleRole(id)) /\ UNCHANGED req
    BY DEF ChangeUser
<1>2. /\ users' \in [DOMAIN users -> Account]
      /\ \A j \in DOMAIN users : users'[j].by = users[j].by /\ users'[j].hash = users[j].hash
    BY <1>1, ToggleIs, Zenon
<1>3. HashesKept
    BY <1>2 DEF HashesKept
<1>4. NoneSeeded
    BY <1>1, SameRequests
<1>5. ASSUME NEW j \in DOMAIN users' PROVE RolesMeant(j)
    BY <1>1, <1>2, <1>4 DEF RolesMeant, Seeds, NoneSeeded, Exists
<1> QED
    BY <1>3, <1>5 DEF Meant


\* seedTenantAdmin: its user, with the role, when it reports success.
LEMMA SeedMeans ==
    ASSUME PipeInv, NEW p \in Requests, Seed(p)
    PROVE  Meant
<1>1. /\ req[p].pc = "tx" /\ Kind[p] = "seed" /\ req[p] \in Request /\ Id[p] \in Ids
  <2>1. req[p].pc = "tx"
      BY DEF Seed
  <2> QED
      BY <2>1, Past, ProfileTypes DEF Sound, Routed
<1>2. PICK a \in {"existing", "created", "failed"} : Step(p, Finish(req[p], a))
    BY <1>1 DEF Seed, Throw
<1>3. req'[p] = Finish(req[p], a) /\ a \in Answers
    BY <1>2 DEF Step, PipeInv, Answers
<1>4. req'[p].pc = "done" /\ req'[p].answer = a
    BY <1>1, <1>3, FinishIs
<1>5. ASSUME NEW o \in Requests \ {p}, req[o].pc = "tx" PROVE req'[o].answer = "none"
  <2>1. req'[o] = req[o]
      BY <1>2 DEF Step, PipeInv
  <2>2. Routed(o)
      BY DEF PipeInv, Sound
  <2> QED
      BY <1>5, <2>1, <2>2 DEF Routed
<1>6. ASSUME NEW id \in DOMAIN users', id # Id[p], id \in DOMAIN users, users'[id] = users[id]
      PROVE  RolesMeant(id)
    BY <1>5, <1>6 DEF RolesMeant, RolesOf, Seeds, Exists
<1>7. ASSUME Id[p] \in DOMAIN users', "tenant-admin" \in users'[Id[p]].roles,
             ~Exists(Id[p]) => users'[Id[p]].by = p
      PROVE  RolesMeant(Id[p])
  <2>1. p \in Seeds(Id[p])
      BY <1>1 DEF Seeds
  <2>2. ~Exists(Id[p]) => (users'[Id[p]].roles # {}) = (Kind[users'[Id[p]].by] = "seed")
      BY <1>1, <1>7
  <2> QED
      BY <1>4, <1>7, <2>1, <2>2 DEF RolesMeant
<1>8. CASE req[p].existing /\ GrantAdmin(Id[p])
  <2>1. /\ users' \in [DOMAIN users -> Account]
        /\ Id[p] \in DOMAIN users => users'[Id[p]].roles = users[Id[p]].roles \cup {"tenant-admin"}
        /\ \A j \in DOMAIN users : users'[j].by = users[j].by /\ users'[j].hash = users[j].hash
        /\ \A j \in DOMAIN users : j # Id[p] => users'[j] = users[j]
      BY <1>1, <1>8, GrantIs, Zenon
  <2>2. HashesKept
      BY <2>1 DEF HashesKept
  <2>3. DOMAIN users' = DOMAIN users
      BY <2>1
  <2>4. ASSUME NEW id \in DOMAIN users' PROVE RolesMeant(id)
    <3>1. CASE id = Id[p]
      <4>1. "tenant-admin" \in users'[Id[p]].roles
          BY <2>1, <2>3, <3>1
      <4>2. Exists(Id[p]) /\ Id[p] \in DOMAIN users'
          BY <2>3, <3>1 DEF Exists
      <4> QED
          BY <1>7, <3>1, <4>1, <4>2
    <3>2. CASE id # Id[p]
        BY <1>6, <2>1, <2>3, <3>2
    <3> QED
        BY <3>1, <3>2
  <2> QED
      BY <2>2, <2>4 DEF Meant
<1>9. CASE ~Exists(Id[p]) /\ Insert(Id[p], User(Hash(Password[p]), {"tenant-admin"}, p))
  <2>0. {"tenant-admin"} \in SUBSET {"tenant-admin"}
      OBVIOUS
  <2>1. /\ DOMAIN users' = DOMAIN users \cup {Id[p]}
        /\ users'[Id[p]].roles = {"tenant-admin"} /\ users'[Id[p]].by = p
        /\ \A j \in DOMAIN users : users'[j] = users[j]
      BY <1>9, <2>0, InsertIs
  <2>2. HashesKept
      BY <2>1 DEF HashesKept
  <2>3. ASSUME NEW id \in DOMAIN users' PROVE RolesMeant(id)
    <3>1. CASE id = Id[p]
        BY <1>7, <2>1, <3>1
    <3>2. CASE id # Id[p]
        BY <1>6, <2>1, <3>2
    <3> QED
        BY <3>1, <3>2
  <2> QED
      BY <2>2, <2>3 DEF Meant
<1>10. CASE UNCHANGED users /\ Step(p, Throw(p, req[p], "Unexpected"))
  <2>1. req'[p] = Finish(req[p], "failed") /\ "failed" \in Answers
      BY <1>1, <1>10 DEF Throw, Step, PipeInv, Answers
  <2>2. req'[p].answer = "failed"
      BY <1>1, <2>1, FinishIs
  <2>3. NoneSeeded
      BY <1>5, <2>2 DEF NoneSeeded
  <2> QED
      BY <1>10, <2>3, NoWrite
<1> QED
    BY <1>8, <1>9, <1>10 DEF Seed, SeedTx

LEMMA StepsMean ==
    ASSUME PipeInv, [Next]_vars
    PROVE  Meant
<1>1. ASSUME NEW p \in Requests, Arrive(p) \/ RunSeed(p) \/ Handle(p) PROVE Meant
  <2>1. CASE \/ Arrive(p) \/ RunSeed(p) \/ TenantGuard(p) \/ AccessTokenGuard(p) \/ ValidationFails(p)
             \/ Throttle(p) \/ FindUser(p) \/ LoadAuthz(p) \/ List(p) \/ Provision(p) \/ SeedLookup(p)
             \/ Audit(p)
      BY <2>1, ReadersMean
  <2>2. CASE Register(p)
      BY <2>2, RegisterMeans
  <2>3. CASE UpgradeHash(p)
      BY <2>3, UpgradeMeans
  <2>4. CASE Seed(p)
      BY <2>4, SeedMeans
  <2>5. CASE QueryFails(p)
      BY <2>5, FailuresMean
  <2> QED
      BY <1>1, <2>1, <2>2, <2>3, <2>4, <2>5 DEF Handle
<1>2. ASSUME NEW seed \in BOOLEAN, Crash(seed) PROVE Meant
    BY <1>2, FailuresMean
<1>3. ASSUME NEW id \in DOMAIN users, ChangeUser(id) PROVE Meant
    BY <1>3, ChangeUserMeans
<1>4. ASSUME UNCHANGED <<users, req>> PROVE Meant
    BY <1>4, SameRequests, NoWrite
<1>5. ASSUME Close \/ (\E t \in Tenants : Suspend(t)) \/ (\E token \in tokens : TokenEnds(token))
             \/ UNCHANGED vars
      PROVE  Meant
    BY <1>4, <1>5 DEF Close, Suspend, TokenEnds, vars
<1> QED
    BY <1>1, <1>2, <1>3, <1>5 DEF Next

\* The password of an account never changes, and a current hash stays one.
THEOREM PasswordsAreKept == Spec => PasswordsKept
<1>1. ASSUME PipeInv, [Next]_vars
      PROVE  \A id \in DOMAIN users : /\ users'[id].hash.of = users[id].hash.of
                                      /\ users[id].hash.current => users'[id].hash.current
    BY <1>1, StepsMean DEF Meant, HashesKept
<1> QED
    BY <1>1, PipelineInvariant, PTL DEF Spec, PasswordsKept

\* Roles appear and change only as they were meant to.
THEOREM RolesChangeAsMeant == Spec => RolesAreMeant
<1>1. ASSUME PipeInv, [Next]_vars
      PROVE  \A id \in DOMAIN users' :
          LET before == IF Exists(id) THEN users[id].roles ELSE {}
              seeds  == {p \in Requests : Kind[p] = "seed" /\ Id[p] = id /\ req[p].pc = "tx"}
          IN  /\ users'[id].roles # before =>
                    req' = req \/ \E p \in seeds : req'[p].pc = "done"
              /\ \A p \in seeds : req'[p].answer \in {"created", "existing"} =>
                    "tenant-admin" \in users'[id].roles
              /\ ~Exists(id) => (users'[id].roles # {}) = (Kind[users'[id].by] = "seed")
  <2>1. \A id \in DOMAIN users' : RolesMeant(id)
      BY <1>1, StepsMean DEF Meant
  <2> QED
      BY <2>1 DEF RolesMeant, RolesOf, Seeds
<1> QED
    BY <1>1, PipelineInvariant, PTL DEF Spec, RolesAreMeant

=============================================================================
