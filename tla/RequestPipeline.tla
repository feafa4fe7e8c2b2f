--------------------------- MODULE RequestPipeline --------------------------
(***************************************************************************)
(* Requests on their way through the auth service, from the guards to the  *)
(* answer: registration, login, the listing of a tenant's users and the    *)
(* provisioning of a tenant, with the admin seed (a program of its own)    *)
(* beside them. A request holds what it read at one await and uses it at   *)
(* the next, while other requests and the operators change the registry    *)
(* and the users.                                                          *)
(*                                                                         *)
(* Parts with modules of their own appear by their outcomes: a budget may  *)
(* refuse (LoginThrottle), a token may have expired or lost its key        *)
(* (TokenKeys), an append is recorded, or fails, or only its answer is     *)
(* lost (AuditChain), and a provisioning finishes or stops (Provisioning). *)
(***************************************************************************)
EXTENDS Accounts

CONSTANTS
    Profiles,    \* the requests, each made at most once: a sequence of records
                 \*   kind, tenant (x-tenant-id, or the slug to provision),
                 \*   header (whether it has one x-tenant-id), email and password
    InitStatus,  \* [Tenants -> status]: the registry at the start
    MaxRequests, \* bound on the requests made
    MaxInFlight, \* bound on the requests under way at a time
    MaxFaults,   \* bound on failures, lost answers, crashes and shutdowns
    MaxChanges   \* bound on operators' actions and on tokens that end

Kinds    == {"register", "login", "list", "provision", "seed"}
Statuses == {"absent", "provisioning", "active", "suspended"}

ASSUME PipelineAssumption ==
    /\ InitStatus \in [Tenants -> Statuses]
    /\ \A p \in DOMAIN Profiles : /\ Profiles[p].kind \in Kinds /\ Profiles[p].tenant \in Tenants
                                  /\ Profiles[p].header \in BOOLEAN
    /\ {MaxRequests, MaxInFlight, MaxFaults, MaxChanges} \subseteq Nat

Requests == DOMAIN Profiles
Header   == [p \in Requests |-> Profiles[p].header]
Kind     == [p \in Requests |-> Profiles[p].kind]
Tenant   == [p \in Requests |-> Profiles[p].tenant]
Password == [p \in Requests |-> Profiles[p].password]
Id       == [p \in Requests |-> RowOf(Profiles[p].tenant, Profiles[p].email)]

VARIABLES
    tenants,     \* the registry: the status of each row
    cache,       \* tenantCache: the tenants whose pool the service has open
    tokens,      \* the access tokens that callers hold
    req,         \* each request: how far it is, and what it has read
    rows,        \* the audit chains: <<chain, action, request>>
    logged,      \* the lines that say UNRECORDED: <<action, request>>
    faults,      \* how many of these so far
    changes,
    saw          \* history: what has been true at some moment of each request

vars == <<users, tenants, cache, tokens, req, rows, logged, faults, changes, saw>>

NoClaims == [sub |-> <<>>, tid |-> "none", permissions |-> {}]
Idle == [pc |-> "idle",
         existing |-> FALSE,                  \* what the seed's lookup found
         claims |-> NoClaims,                 \* req.user, or the token to issue
         chain |-> "none", event |-> "none",  \* the event to record,
         then |-> "none",                     \*   and the answer to give after it
         answer |-> "none", read |-> {}]

UnderWay == {p \in Requests : req[p].pc \notin {"idle", "done"}}

\* What holds now and a request may rely on.
Facts(p) ==
    (IF tenants[Tenant[p]] = "active" THEN {"routable"} ELSE {})
    \cup (IF Exists(Id[p]) /\ users[Id[p]].status = "active"
             /\ Verify(users[Id[p]].hash, Password[p]) THEN {"right"} ELSE {})
    \cup (IF Exists(Id[p]) /\ PermissionsOf(users[Id[p]].roles) # {} THEN {"admin"} ELSE {})

Init ==
    /\ users = Legacy
    /\ tenants = InitStatus
    /\ cache = {} /\ tokens = {} /\ rows = {} /\ logged = {}
    /\ req = [p \in Requests |-> Idle]
    /\ faults = 0 /\ changes = 0
    /\ saw = [p \in Requests |-> {}]

Fault  == faults < MaxFaults /\ faults' = faults + 1 /\ UNCHANGED changes
Change == changes < MaxChanges /\ changes' = changes + 1 /\ UNCHANGED faults
counts == <<faults, changes>>

-----------------------------------------------------------------------------
(******************************** answers **********************************)

\* The error classes of the domain. A Forbidden is the framework's own, and
\* Unexpected is whatever else was thrown.
DomainErrors ==
    {"TenantNotFound", "TenantContextMissing", "TenantAlreadyExists",
     "TenantProvisioningInProgress", "EmailAlreadyRegistered", "InvalidCredentials",
     "InvalidAccessToken", "CrossTenantToken", "ValidationFailed",
     "ControlPlaneUnauthorized", "TooManyRequests"}

\* Mutation: the classes are not in the list.
ProblemUnlisted(error) ==
    CASE error \in DomainErrors -> "400"
      [] error = "Forbidden"    -> "403"
      [] OTHER                  -> "500"

\* ProblemDetailsFilter: the status that is listed for a domain error, or else 400;
\* the status of a framework exception; 500 for the rest.
ToProblem(error) ==
    CASE error \in {"InvalidCredentials", "InvalidAccessToken", "CrossTenantToken",
                    "ControlPlaneUnauthorized"} -> "401"
      [] error = "TenantNotFound"   -> "404"
      [] error \in {"TenantAlreadyExists", "TenantProvisioningInProgress",
                    "EmailAlreadyRegistered"} -> "409"
      [] error = "ValidationFailed" -> "422"
      [] error = "TooManyRequests"  -> "429"
      [] error = "TenantContextMissing" -> "400"
      [] error = "Forbidden"        -> "403"
      [] OTHER                      -> "500"

Goto(q, pc) == [q EXCEPT !.pc = pc]

Finish(q, answer) == [q EXCEPT !.pc = "done", !.answer = answer, !.existing = FALSE,
                               !.chain = "none", !.event = "none", !.then = "none"]

\* An error leaves the service as a problem document; the seed prints it and exits.
Throw(p, q, error) == Finish(q, IF Kind[p] = "seed" THEN "failed" ELSE ToProblem(error))

\* tenantEvent (on the chain of the request's tenant) or controlPlaneEvent (on the
\* master's), awaited before the answer.
ThenAudit(q, chain, event, answer) ==
    [q EXCEPT !.pc = "audit", !.chain = chain, !.event = event, !.then = answer]

Step(p, q) == req' = [req EXCEPT ![p] = q]

-----------------------------------------------------------------------------
(********************************* guards **********************************)

\* ControlPlaneGuard, which is synchronous: the credential, presented once, or not.
ControlPlaneGuard(p) ==
    {Goto(Idle, "provision"), Throw(p, Idle, "ControlPlaneUnauthorized")}

\* tenantHeader: without exactly one header TenantGuard asks nobody, and answers as
\* for an unknown tenant (the documents say 400).
TenantHeader(p) ==
    IF Header[p] THEN Goto(Idle, "tenant") ELSE Throw(p, Idle, "TenantNotFound")

\* Which guard a route has first, after RateLimitGuard: that one is global.
Entry(p) ==
    {Throw(p, Idle, "TooManyRequests")}
    \cup (IF Kind[p] = "provision" THEN ControlPlaneGuard(p) ELSE {TenantHeader(p)})

MayStart(p) ==
    /\ req[p].pc = "idle"
    /\ Cardinality(UnderWay) < MaxInFlight
    /\ Cardinality({q \in Requests : req[q].pc # "idle"}) < MaxRequests

\* A request comes in, and meets the guards that decide at once.
Arrive(p) ==
    /\ MayStart(p) /\ Kind[p] # "seed"
    /\ \E q \in Entry(p) : Step(p, q)
    /\ UNCHANGED <<users, tenants, cache, tokens, rows, logged, counts>>

\* The seed is a command, which exits at once if an argument is missing or the
\* password too short.
RunSeed(p) ==
    /\ MayStart(p) /\ Kind[p] = "seed"
    /\ Step(p, Goto(Idle, "tenant")) \/ Step(p, Finish(Idle, "failed"))
    /\ UNCHANGED <<users, tenants, cache, tokens, rows, logged, counts>>

\* Mutation: a tenant whose pool is open is known, and not looked up.
ResolvesCached(t) == t \in cache \/ tenants[t] = "active"

\* resolveTenant reads the registry every time. A slug without a row and one with a
\* row that is not active are the same error.
Resolves(t) == tenants[t] = "active"

AfterTenant(p) ==
    CASE Kind[p] = "register" -> "create"
      [] Kind[p] = "login"    -> "throttle"
      [] Kind[p] = "list"     -> "token"
      [] Kind[p] = "seed"     -> "lookup"

\* getTenantDb opens a pool for the tenant, once. The seed has a ConnectionManager,
\* and so a cache, of its own.
OpenPool(p) == cache' = IF Kind[p] = "seed" THEN cache ELSE cache \cup {Tenant[p]}

\* TenantGuard, and the first lines of the seed: resolveTenant and getTenantDb.
TenantGuard(p) ==
    /\ req[p].pc = "tenant"
    /\ IF Resolves(Tenant[p])
       THEN Step(p, Goto(req[p], AfterTenant(p))) /\ OpenPool(p)
       ELSE Step(p, Throw(p, req[p], "TenantNotFound")) /\ UNCHANGED cache
    /\ UNCHANGED <<users, tenants, tokens, rows, logged, counts>>

\* PermissionsGuard, which is synchronous unless it denies.
PermissionsGuard(p, claims) ==
    LET q == [req[p] EXCEPT !.claims = claims]
    IN  IF "users:read" \in claims.permissions THEN Goto(q, "read")
        ELSE ThenAudit(q, Tenant[p], "authz.denied", ToProblem("Forbidden"))

\* singleAuthorizationHeader and bearerToken: a token that somebody holds, or nothing
\* to go on: no header, two of them, or one that is not a bearer's or does not verify.
Presented == tokens \cup {NoClaims}

\* AccessTokenGuard: a token that verifies, issued in the tenant that the request names.
AccessTokenGuard(p) ==
    /\ req[p].pc = "token"
    /\ \E token \in Presented :
          Step(p, IF token = NoClaims THEN Throw(p, req[p], "InvalidAccessToken")
                  ELSE IF token.tid # Tenant[p] THEN Throw(p, req[p], "CrossTenantToken")
                  ELSE PermissionsGuard(p, token))
    /\ UNCHANGED <<users, tenants, cache, tokens, rows, logged, counts>>

-----------------------------------------------------------------------------
(******************************** handlers *********************************)

\* The validation pipe is between the guards and the handler.
ValidationFails(p) ==
    /\ req[p].pc \in {"create", "throttle", "provision"}
    /\ Step(p, Throw(p, req[p], "ValidationFailed"))
    /\ UNCHANGED <<users, tenants, cache, tokens, rows, logged, counts>>

\* Mutation: an upsert, so that the last registration wins.
RegisterUpsert(p) ==
    /\ req[p].pc = "create"
    /\ Insert(Id[p], User(Hash(Password[p]), {}, p))
    /\ Step(p, ThenAudit(req[p], Tenant[p], "user.registered", "201"))
    /\ UNCHANGED <<tenants, cache, tokens, rows, logged, counts>>

\* register: there is no look before the insert; the unique index decides. When
\* only the answer to the insert is lost, the account is there all the same.
Register(p) ==
    /\ req[p].pc = "create"
    /\ \/ /\ CreateUser(Id[p], Hash(Password[p]), p)
          /\ \/ /\ Step(p, ThenAudit(req[p], Tenant[p], "user.registered", "201"))
                /\ UNCHANGED counts
             \/ Fault /\ Step(p, Throw(p, req[p], "Unexpected"))
       \/ /\ Exists(Id[p])
          /\ Step(p, Throw(p, req[p], "EmailAlreadyRegistered"))
          /\ UNCHANGED <<users, counts>>
    /\ UNCHANGED <<tenants, cache, tokens, rows, logged>>

\* login: assertWithinLimits lets it through, or it is refused and recorded.
Throttle(p) ==
    /\ req[p].pc = "throttle"
    /\ \/ Step(p, Goto(req[p], "find"))
       \/ Step(p, ThenAudit(req[p], Tenant[p], "auth.login.throttled", ToProblem("TooManyRequests")))
    /\ UNCHANGED <<users, tenants, cache, tokens, rows, logged, counts>>

\* Mutation: nothing is recorded about an account that is not there.
FindUserSilent(p) ==
    /\ req[p].pc = "find"
    /\ Step(p, IF ~Exists(Id[p]) THEN Throw(p, req[p], "InvalidCredentials")
               ELSE IF users[Id[p]].status # "active" \/ ~Verify(users[Id[p]].hash, Password[p])
               THEN ThenAudit(req[p], Tenant[p], "auth.login.failed", ToProblem("InvalidCredentials"))
               ELSE Goto(req[p], "authz"))
    /\ UNCHANGED <<users, tenants, cache, tokens, rows, logged, counts>>

\* Mutation: only the password is looked at.
FindUserAnyStatus(p) ==
    /\ req[p].pc = "find"
    /\ Step(p, IF ~Exists(Id[p]) \/ ~Verify(users[Id[p]].hash, Password[p])
               THEN ThenAudit(req[p], Tenant[p], "auth.login.failed", ToProblem("InvalidCredentials"))
               ELSE Goto(req[p], "authz"))
    /\ UNCHANGED <<users, tenants, cache, tokens, rows, logged, counts>>

\* login reads the row once: no such user, an account that is not active (both
\* after the decoy's verification) and a wrong password end alike; the right
\* password goes on, past a stale hash if this is one.
FindUser(p) ==
    /\ req[p].pc = "find"
    /\ Step(p, IF \/ ~Exists(Id[p])
                  \/ users[Id[p]].status # "active"
                  \/ ~Verify(users[Id[p]].hash, Password[p])
               THEN ThenAudit(req[p], Tenant[p], "auth.login.failed", ToProblem("InvalidCredentials"))
               ELSE Goto(req[p], IF NeedsRehash(users[Id[p]].hash) THEN "upgrade" ELSE "authz"))
    /\ UNCHANGED <<users, tenants, cache, tokens, rows, logged, counts>>

\* upgradeHashIfStale: writes, or warns and goes on.
UpgradeHash(p) ==
    /\ req[p].pc = "upgrade"
    /\ \/ UpdateHash(Id[p], Hash(Password[p])) /\ UNCHANGED counts
       \/ Fault /\ UNCHANGED users
    /\ Step(p, Goto(req[p], "authz"))
    /\ UNCHANGED <<tenants, cache, tokens, rows, logged>>

\* loadAuthz, and the token that is issued on it; the caller has it with the answer.
LoadAuthz(p) ==
    /\ req[p].pc = "authz"
    /\ Step(p, [ThenAudit(req[p], Tenant[p], "auth.login.succeeded", "201") EXCEPT !.claims =
                   [sub |-> Id[p], tid |-> Tenant[p],
                    permissions |-> PermissionsOf(users[Id[p]].roles)]])
    /\ UNCHANGED <<users, tenants, cache, tokens, rows, logged, counts>>

\* UsersService.list, in the database that the guard attached.
List(p) ==
    /\ req[p].pc = "read"
    /\ Step(p, [Finish(req[p], "200") EXCEPT !.read = FindMany(Tenant[p])])
    /\ UNCHANGED <<users, tenants, cache, tokens, rows, logged, counts>>

\* TenantsService.provision: a new slug, or one whose provisioning stopped, ends
\* active, or stops on the way, or only the answer to the UPDATE that makes it
\* active is lost; any other is taken.
Provision(p) ==
    LET t == Tenant[p]
    IN  /\ req[p].pc = "provision"
        /\ \/ /\ tenants[t] \in {"absent", "provisioning"}
              /\ \/ /\ tenants' = [tenants EXCEPT ![t] = "active"]
                    /\ Step(p, ThenAudit(req[p], "master", "tenant.provisioned", "201"))
                    /\ UNCHANGED counts
                 \/ /\ \E status \in {"provisioning", "active"} :
                          tenants' = [tenants EXCEPT ![t] = status]
                    /\ Fault /\ Step(p, Throw(p, req[p], "Unexpected"))
           \/ /\ Step(p, Throw(p, req[p], "TenantProvisioningInProgress"))
              /\ \E other \in UnderWay \ {p} : req[other].pc = "provision" /\ Tenant[other] = t
              /\ UNCHANGED <<tenants, counts>>
           \/ /\ tenants[t] \in {"active", "suspended"}
              /\ Step(p, Throw(p, req[p], "TenantAlreadyExists"))
              /\ UNCHANGED <<tenants, counts>>
        /\ UNCHANGED <<users, cache, tokens, rows, logged>>

\* seedTenantAdmin: the role (every provisioned tenant has it) and the user are
\* looked up before the transaction.
SeedLookup(p) ==
    /\ req[p].pc = "lookup"
    /\ Step(p, [Goto(req[p], "tx") EXCEPT !.existing = Exists(Id[p])])
    /\ UNCHANGED <<users, tenants, cache, tokens, rows, logged, counts>>

\* Mutation: the role is granted after the transaction.
SeedUserOnly(p) ==
    /\ req[p].pc = "tx"
    /\ IF req[p].existing THEN UNCHANGED users ELSE CreateUser(Id[p], Hash(Password[p]), p)
    /\ Step(p, Finish(req[p], IF req[p].existing THEN "existing" ELSE "created"))
    /\ UNCHANGED <<tenants, cache, tokens, rows, logged, counts>>

\* The transaction, of which the answer may be lost.
Seed(p) ==
    /\ req[p].pc = "tx"
    /\ \/ /\ SeedTx(Id[p], req[p].existing, Hash(Password[p]), p)
          /\ \/ /\ Step(p, Finish(req[p], IF req[p].existing THEN "existing" ELSE "created"))
                /\ UNCHANGED counts
             \/ Fault /\ Step(p, Throw(p, req[p], "Unexpected"))
       \/ /\ ~req[p].existing /\ Exists(Id[p])
          /\ Step(p, Throw(p, req[p], "Unexpected"))
          /\ UNCHANGED <<users, counts>>
    /\ UNCHANGED <<tenants, cache, tokens, rows, logged>>

-----------------------------------------------------------------------------
(***************************** end of a request *****************************)

\* AuditService.append never throws: the row is there, or a line says that it is
\* not, or both when only the answer was lost. Then the request is answered.
Audit(p) ==
    LET q == req[p]
    IN  /\ q.pc = "audit"
        /\ \/ /\ rows' = rows \cup {<<q.chain, q.event, p>>}
              /\ \/ UNCHANGED <<logged, counts>>
                 \/ Fault /\ logged' = logged \cup {<<q.event, p>>}
           \/ /\ Fault /\ logged' = logged \cup {<<q.event, p>>}
              /\ UNCHANGED rows
        /\ Step(p, Finish(q, q.then))
        /\ tokens' = IF q.event = "auth.login.succeeded" THEN tokens \cup {q.claims} ELSE tokens
        /\ UNCHANGED <<users, tenants, cache>>

\* A query fails, and so does the request.
QueryFails(p) ==
    /\ req[p].pc \in {"tenant", "create", "find", "authz", "read", "provision", "lookup", "tx"}
    /\ Fault
    /\ Step(p, Throw(p, req[p], "Unexpected"))
    /\ UNCHANGED <<users, tenants, cache, tokens, rows, logged>>

\* The service, or a seed, dies with what it had under way.
Crash(seed) ==
    /\ Fault
    /\ \E p \in UnderWay : (Kind[p] = "seed") = seed
    /\ req' = [p \in Requests |-> IF p \in UnderWay /\ (Kind[p] = "seed") = seed
                                  THEN Finish(req[p], "dead") ELSE req[p]]
    /\ cache' = IF seed THEN cache ELSE {}
    /\ UNCHANGED <<users, tenants, tokens, rows, logged>>

\* The service is shut down: it lets its requests end, and closes the pools.
Close ==
    /\ Fault
    /\ \A p \in UnderWay : Kind[p] = "seed"
    /\ cache' = {}
    /\ UNCHANGED <<users, tenants, tokens, req, rows, logged>>

\* Operators suspend a tenant or bring it back, and change an account.
Suspend(t) ==
    /\ Change
    /\ tenants[t] # "absent"
    /\ tenants' = [tenants EXCEPT ![t] = IF @ = "suspended" THEN "active" ELSE "suspended"]
    /\ UNCHANGED <<users, cache, tokens, req, rows, logged>>

ChangeUser(id) ==
    /\ Change
    /\ ToggleStatus(id) \/ ToggleRole(id)
    /\ UNCHANGED <<tenants, cache, tokens, req, rows, logged>>

\* A token expires, or its key is revoked.
TokenEnds(token) ==
    /\ Change
    /\ tokens' = tokens \ {token}
    /\ UNCHANGED <<users, tenants, cache, req, rows, logged>>

\* History: what has been true since a request came in, up to its answer.
Observe ==
    saw' = [p \in Requests |->
              IF req[p].pc = "done" \/ req'[p].pc = "idle" THEN saw[p]
              ELSE saw[p] \cup Facts(p)']

Handle(p) ==
    \/ TenantGuard(p) \/ AccessTokenGuard(p) \/ ValidationFails(p)
    \/ Register(p)
    \/ Throttle(p) \/ FindUser(p) \/ UpgradeHash(p) \/ LoadAuthz(p)
    \/ List(p)
    \/ Provision(p)
    \/ SeedLookup(p) \/ Seed(p)
    \/ Audit(p) \/ QueryFails(p)

Next ==
    /\ \/ \E p \in Requests : Arrive(p) \/ RunSeed(p) \/ Handle(p)
       \/ \E seed \in BOOLEAN : Crash(seed)
       \/ Close
       \/ \E t \in Tenants : Suspend(t)
       \/ \E id \in DOMAIN users : ChangeUser(id)
       \/ \E token \in tokens : TokenEnds(token)
    /\ Observe

Spec == Init /\ [][Next]_vars

-----------------------------------------------------------------------------
(******************************** properties *******************************)

Answers == {"none", "200", "201", "401", "403", "404", "409", "422", "429", "500",
            "created", "existing", "failed", "dead"}
Actions == {"user.registered", "auth.login.throttled", "auth.login.failed",
            "auth.login.succeeded", "authz.denied", "tenant.provisioned"}

\* Every variable keeps its type, and every error that these handlers throw has a
\* status of its own in ProblemDetailsFilter's list: none falls to its default, 400.
TypeOK ==
    /\ tenants \in [Tenants -> Statuses] /\ cache \subseteq Tenants
    /\ \A id \in DOMAIN users : /\ users[id].status \in {"active", "disabled"}
                                /\ users[id].by \in Requests \cup {0}
    /\ \A token \in tokens : token.tid \in Tenants /\ token.sub \in DOMAIN users
    /\ \A p \in Requests : req[p].answer \in Answers
    /\ \A r \in rows : r[1] \in Tenants \cup {"master"} /\ r[2] \in Actions
    /\ \A l \in logged : l[1] \in Actions
    /\ faults \in 0 .. MaxFaults /\ changes \in 0 .. MaxChanges

\* A person has one account in a tenant, however the email is spelled and however
\* many registrations and seeds race; and whoever was told that the account is
\* theirs, created, is its creator and knows its password (register, its unique
\* index and normaliseEmail, seedTenantAdmin).
OneAccountEach ==
    /\ \A a, b \in DOMAIN users : a[1] = b[1] /\ a[2][1] = b[2][1] => a = b
    /\ \A p \in Requests :
          <<Kind[p], req[p].answer>> \in {<<"register", "201">>, <<"seed", "created">>} =>
             users[Id[p]].by = p /\ users[Id[p]].hash.of = Password[p]

\* The password that an account answers to never changes and a hash with the current
\* parameters is never replaced by one without, whatever logins, registrations and seeds write at the
\* same time (upgradeHashIfStale writes what it hashed from a row read earlier).
PasswordsKept ==
    [][\A id \in DOMAIN users :
          /\ users'[id].hash.of = users[id].hash.of
          /\ users[id].hash.current => users'[id].hash.current]_vars

\* A request gets past the tenant guard only if its tenant was active at some moment
\* since it came in: a suspension stops every request that comes after it, and a
\* tenant that is still being provisioned is not reachable, although the pools of
\* the service stay open (resolveTenant, getTenantDb).
SuspensionBites ==
    \A p \in Requests : Kind[p] # "provision" =>
        \/ req[p].pc \in {"idle", "tenant"}
        \/ req[p].answer \in {"404", "429", "500", "failed", "dead"}
        \/ "routable" \in saw[p]

\* A listing shows one tenant, to an account of that tenant whose token carries the
\* permission. And a token is issued only to who, at some moment of the login, was
\* an active account with that password, with permissions that it had at some
\* moment of the login: the row and the roles are two reads, and what changed
\* before the login came in is respected (AccessTokenGuard, PermissionsGuard, login).
ServedIsEntitled ==
    \A p \in Requests :
        /\ req[p].answer = "200" =>
              /\ \A id \in req[p].read : id[1] = Tenant[p]
              /\ req[p].claims.sub \in req[p].read
              /\ "users:read" \in req[p].claims.permissions
        /\ Kind[p] = "login" /\ req[p].answer = "201" =>
              /\ "right" \in saw[p]
              /\ req[p].claims.permissions # {} => "admin" \in saw[p]

\* The event that an answer of the service stands for.
EventOf(p) ==
    CASE Kind[p] = "register"  /\ req[p].answer = "201" -> {"user.registered"}
      [] Kind[p] = "login"     /\ req[p].answer = "201" -> {"auth.login.succeeded"}
      [] Kind[p] = "login"     /\ req[p].answer = "401" -> {"auth.login.failed"}
      [] Kind[p] = "list"      /\ req[p].answer = "403" -> {"authz.denied"}
      [] Kind[p] = "provision" /\ req[p].answer = "201" -> {"tenant.provisioned"}
      [] OTHER -> {}

\* What an event says, if it is on a chain.
Happened(event, p) ==
    CASE event = "user.registered"      -> Exists(Id[p]) /\ users[Id[p]].by = p
      [] event = "auth.login.succeeded" -> "right" \in saw[p]
      [] event = "tenant.provisioned"   -> tenants[Tenant[p]] \in {"active", "suspended"}
      [] OTHER -> req[p].answer \in {"401", "403", "429", "dead"}

\* Nobody is told the outcome of a login, a registration, a denial or a provisioning
\* of which there is no trace: its event is on the right chain, or a line says that
\* it is missing. And the chains hold nothing that did not happen (AuditService,
\* which the handlers await before they answer, and which never throws).
VerdictsRecorded ==
    /\ \A p \in Requests : \A event \in EventOf(p) :
          \/ <<IF Kind[p] = "provision" THEN "master" ELSE Tenant[p], event, p>> \in rows
          \/ <<event, p>> \in logged
    /\ \A r \in rows : Happened(r[2], r[3])

\* A row appears with the roles that its creator meant, none when it registered and
\* tenant-admin when it was seeded, never a new user who holds no role in between;
\* and afterwards only a seed of that user, or an operator, changes them. A seed
\* that reports success left its user an administrator (register, seedTenantAdmin).
RolesAreMeant ==
    [][\A id \in DOMAIN users' :
          LET before == IF Exists(id) THEN users[id].roles ELSE {}
              seeds  == {p \in Requests : Kind[p] = "seed" /\ Id[p] = id /\ req[p].pc = "tx"}
          IN  /\ users'[id].roles # before =>
                    req' = req \/ \E p \in seeds : req'[p].pc = "done"
              /\ \A p \in seeds : req'[p].answer \in {"created", "existing"} =>
                    "tenant-admin" \in users'[id].roles
              /\ ~Exists(id) => (users'[id].roles # {}) = (Kind[users'[id].by] = "seed")]_vars
=============================================================================
