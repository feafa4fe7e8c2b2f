# A TLA+ verification of compliance-ready-backend-kit

This directory holds TLA+ models of the parts of the kit whose correctness
depends on the order in which things happen, the TLC configurations that check
them on small instances, and TLAPS proofs for any number of actors. Every
definition is a translation of code; `PROJECT.json` maps each one to its lines.

## 1. The system

The kit is an authentication service (NestJS) over PostgreSQL, with one master
database and one database per tenant. Redis is used for rate limits. Several
instances of the service and several operator commands run at the same time, and
no process coordinates with another except through those databases.

| Part | State it keeps | Operations | Talks to |
|---|---|---|---|
| Audit chain (`packages/db/src/audit/audit-writer.ts`, `packages/crypto/src/audit-hash.ts`) | `audit_events` of the master and of each tenant; an advisory lock; a sequence | `appendAuditEvent`, in one transaction | called by `AuditService` |
| `AuditService` | none | `tenantEvent`, `controlPlaneEvent`; fails open | audit chain, log |
| Chain verifier (`verify-chain.ts`) | a cursor | paged walk of one chain | reads beside live appends |
| Audit probes (`contention-probe.ts`, `immutability-probe.ts`) | what they read before | fire appends and walk them; try what must be refused | the audit tables, beside live appends |
| Immutability layers (`audit-immutability.sql`) | triggers, privileges | refuse UPDATE, DELETE, TRUNCATE | the audit tables |
| Tenant provisioning (`connection-manager.ts`) | `tenants` of the master, tenant databases and their markers, a session lock | `provisionTenant` and the five steps it is made of | master, tenant cluster |
| Key commands (`keys/manage-keys.ts`) | `config_keys` | `init`, `rotate`, `revoke`, `list` | master |
| Key snapshot (`key-registry.service.ts`) | keys in memory, `lastRefreshAt`, the reload in flight, a timer | reload by timer, reload on a miss, resolvers, active material, JWKS | master, token service |
| Token service and codec (`token.service.ts`, `tokens.ts`) | none | `issue`, two-attempt `verify` | key snapshot |
| Rate limiter (`ratelimit/`), login throttle | Redis sorted sets, a member-id counter per process | `consume`, `peek`, `reset` | Redis |
| Authentication flows (`auth.service.ts`) | `users` of a tenant | register, login, rehash | throttle, tokens, audit |
| Admin seed (`seed-tenant-admin.ts`) | none | find or create a user, grant a role | `users` of a tenant |
| Guards and connection cache | the tenant context of a request, open pools | resolve tenant, verify token, check permissions | all of the above |

What is hard about it, part by part, and what makes the part correct:

* **Audit chain.** Appends from many processes interleave between any two
  statements. Correct means: one chain and never two, whatever fails; every
  append comes to an end; nobody is told "recorded" about an event that is not
  there, and a call is never recorded twice.
* **Verifier and probes.** They read in several queries while rows commit.
  Correct means: no false alarm, no row skipped, and a report that claims no more
  than was seen.
* **Provisioning.** Five steps that each commit on their own, in two databases,
  and any of them may be the last. Correct means: a tenant is served only from a
  database built for it, the build marker never lies, and repeating a request
  always ends.
* **Key commands.** Two operators in one maintenance window. Correct means: one
  active key, no gap, a revoked key stays revoked, and no command hangs.
* **Snapshots and tokens.** Each instance sees a rotation at its own moment, and
  reloads overlap and fail. Correct means: rotations and revocations take effect
  within an interval and rotation logs nobody out.
* **Rate limits and throttle.** Check-then-act on counters that several
  instances share over a connection that fails. Correct means: a window counts
  every admitted event once and no other, an attempt nobody can count is not
  judged, and what a caller is told (wait, budget) is true.
* **Logins, registrations, guards.** A request holds what it read at one await
  and uses it at the next. Correct means: one account per person, passwords and
  roles that change only as meant, no service without entitlement, suspension
  that bites, and no verdict without a trace.

`PROJECT.json` lists the hazards of the code line by line under `hazards`, each
with the properties that would catch it.

## 2. Modules

| Module | Models | Kind |
|---|---|---|
| `AuditLog` | what the audit log promises: append-only, one entry per call at most, truthful answers | abstract specification |
| `AuditChain` | `appendAuditEvent` statement by statement, the table's indexes, `AuditService` | component; refines `AuditLog` |
| `AuditImmutability` | the layers of `audit-immutability.sql`, getting around them, the immutability probe | extends `AuditChain` |
| `AuditVerifier` | `verify-chain` and the contention probe beside live appends and the above | composition |
| `Provisioning` | `provisionTenant` query by query, operators, faults | component |
| `KeyLifecycle` | the commands of `manage-keys.ts` query by query, row locks, partial index, CHECKs | component |
| `TokenKeys` | `KeyRegistryService`, `TokenService` and committed key commands, against time | composition of snapshot, codec and the effect of `KeyLifecycle` |
| `SlidingWindow` | the Lua scripts of `RateLimitStore` over Redis sorted sets, key expiry, reset, outages | component |
| `ClientAddress` | `rateLimitIdentity`: an address, however spelled, to the key it is counted under | pure functions |
| `LoginThrottle` | `RateLimitGuard` and `LoginThrottleService` on several instances | composition of the two above |
| `Accounts` | the statements that register, login and the admin seed run on `users` | component |
| `RequestPipeline` | guards, handlers, connection cache, error statuses and audit events of every route, and the admin seed | composition; the limiter, tokens, chain and provisioning appear by their outcomes |
| `*Proofs` | theorems about the module they are named after: section 6 | TLAPS |
| `MC*` | instances of the components and compositions for TLC | |

### AuditChain

A *call* is one invocation of `AuditService.append`. `pc[c]` says which
statement of its transaction comes next; `Begin`, `Lock`, `ReadHead`, `DrawSeq`,
`Insert`/`UniqueViolation` and `Commit` are the statements of
`appendAuditEvent`. The details that matter are kept:

* `now()` is fixed in `Begin`, before the lock is waited for;
* `ReadHead` sees what is committed when it runs (READ COMMITTED);
* the INSERT is two actions, because the sequence value is drawn before the
  unique indexes are looked at and is not given back by a rollback;
* a clashing row of an open transaction makes the INSERT wait, a committed one
  makes it fail;
* `Abort`, `LoseAnswer` (COMMIT took effect, its answer did not arrive) and
  `Crash` may happen at every point where they can, and release the lock.

`Bypassers` are calls on a code path that forgets the lock. There is none in the
code; they are there because the unique index is documented as the defence that
remains in that case. A hash is modelled as the history it commits to (a
sequence of entries), so "SHA-256 over an injective canonical form does not
collide" is an assumption built into `computeAuditHash`.

### AuditImmutability and AuditVerifier

`layers` is what `audit-immutability.sql` puts in place: against each of UPDATE,
DELETE and TRUNCATE a trigger and a privilege that PUBLIC does not have.
`DropLayer` takes one away, `RestoreLayers` is the file applied again, both at any
moment of a probe, and `Edit` is a row changed or removed by somebody past the
triggers. The immutability probe is one action per query or attempt: `ReadState`,
the three `Attempt`s, `AttemptFork`, `Compare`, `CheckGrants`, and an append of its
own that is a call of `AuditChain` (`ProbeCall`). An attempt has the four outcomes
of the code: refused by the privileges (`Denied`, SQLSTATE 42501, under a role that
does not own the table: a pass that says nothing of the trigger), refused by the
trigger (`Fires`), not refused, or failed for another reason (`Errs`: a FAIL that
says nothing of the layers). It leaves nothing behind, except the sequence value of
the fork; a TRUNCATE that is not denied waits for the transactions that have the
table locked. `had` and `excused` are history: the layers that were there at some
moment of a run without a failure, and whether a layer was missing at some moment or
an attempt failed for another reason.

`readPage`, `verifyAuditChain` and the loop of `main` are the verifier: one
action per page, because each page is its own query. The contention probe is
`StartContention` (MAX(seq), then all appends at once), calls of `AuditChain`
(`Contenders`) and `FinishContention`; it reads the rows and the head in two
queries at the end, but the head is a row that nothing but an edit changes, so
one action is enough. `seen` is a history variable with the entries a walk has
accepted. An operator runs one of the three tools at a time.

### Provisioning

One action per query of `provisionTenant`: lock, look up the row, create it,
look up the database, create it, read the marker, apply the schema, commit the
build, activate. `Retry` is the client repeating the request after an error or an
"in progress" answer. `LegacyRows` and `LegacyDbs` let the initial state hold an unfinished row
from an older naming scheme and databases left by earlier tenants. `owner` (in a
database), `lost` and `suspended` are history variables: the code cannot see
them, and the properties are about them. `LoseAnswer` is the last UPDATE taking
effect with its answer lost: the tenant is active and the caller is told 500.
`SuspendTenant` (of an active row, or of one that is still provisioning),
`DeleteTenant` and `DropOrphan` are operator actions that the registry's columns
provide for and no code in the repository performs; `suspended` remembers what the
row was when it was suspended.

### KeyLifecycle

One purpose; a command is one pass of `init` or `rotate`, or a `revoke`. The
transaction of `activate` keeps its writes in `writes[c]` until COMMIT; they hold
row locks (`Locked`) and make others wait on the partial unique index
(`IndexBusy`). The two purposes of one `rotate` are two passes that share
nothing, so one purpose is enough.

### TokenKeys

Time is relative: a row, a token and a timer each keep the time that is *left*,
which makes the state space finite without bounding the clock. A reload is three
actions (start, read rows, replace the snapshot), and the timer's reload runs
beside one started by a miss, because the code lets it. `Wake` is the promise
shared by the callers of `refreshIfStale`. Decryption and the signature check are
separate actions, since the snapshot may be replaced between the two. An
unloadable row (`Unloadable`) costs that key only. `activate` fixes `not_after`
before its transaction begins, and the transaction may wait for a connection and
for locks; until its COMMIT the old key is the active one. `Rotate` is that COMMIT:
of the overlap what is left is `Overlap` less the time waited, up to `Wait`, which
Prisma's limits on a transaction bound (2 s to begin, 5 s to end).

### SlidingWindow, ClientAddress and LoginThrottle

Time is relative here too: a sorted set maps each member to its age, and a key
keeps the time left to its expiry. `SlidingWindowScript` and `PeekWindowScript`
are the two Lua scripts, atomic as Redis runs them. `ClientAddress` works on
groups and dotted quads, not on text: what is kept is the expansion of `::`, the
embedded quad, the recognition of a mapped IPv4 address by value, and the cut to
a /64.

In `LoginThrottle` a request is counted by `Consume` under its client and its
route, looks at two counters (`Peek`), has its password judged, and then counts a
failure in both, or clears one (`RecordSuccess`) and makes the token (`Issue`), which
may fail after the counter is cleared. A command whose reply is lost, the DEL
included, may be sent again, a script with the same member, as ioredis does, or
fail; each instance draws members from its own random id and counter, and a
`Restart` draws a new id. `headers` is the budget whose figures the response carries.
`admitted`, `counted`, `excused`, `unmetered` and `refused` are history: what the
windows should hold, which failures were counted, which may have gone uncounted
because another request or an outage came between look and count, whether a budget
was not consulted, and how long ago each counter said no.

### Accounts and RequestPipeline

`req[p].pc` says which await of a request comes next: `TenantGuard`,
`AccessTokenGuard` (with the synchronous `PermissionsGuard`), then the handler's
queries (`Register`; `Throttle`, `FindUser`, `UpgradeHash`, `LoadAuthz`; `List`;
`Provision`; for the seed `SeedLookup` and `Seed`), then `Audit`, then the answer.
The validation pipe runs between guards and handler, as in Nest.

A request without exactly one tenant header ends in the guard (`TenantHeader`).
One that fails in a query ends as the status that `ToProblem` gives its
error; an answer to a committed statement can be lost, that of the activating UPDATE
of `Provision` included; `Crash` ends what the
service (or a seed) had under way, and `Close` the pools. `Suspend`, `ChangeUser`
and `TokenEnds` are operators and time. Other modules' subjects appear by their
outcomes: a budget refuses or not, a token is one that somebody holds or does not
verify, an append is recorded, logged as lost, or both. `saw` is history: which
facts about the tenant and the account held at some moment of a request. An email
is a person and a spelling; a hash is the password it answers to and whether its
parameters are current.

## 3. Runs

Sizes are distinct states.

| Run | Size | Shows |
|---|---|---|
| `audit_chain` | 292 k | `ChainLinear`, `LockSuffices`, `EveryAppendSettles`, `ImplementsAuditLog` with three appends, one of them past the lock |
| `audit_verifier` | 4.7 M | `NoFalseAlarm`, `NothingOvertaken`, `ReportsAreTrue` for the verifier and both probes |
| `provisioning` | 502 k | `Isolation`, `MarkerIsTrue`, `LockGuardsSuspension`, `NothingAdopted`, `ConflictOnlyWhenTaken`, `RetrySettles` |
| `key_lifecycle` | 342 k | `OneActive`, `NoRotationGap`, `RevokedIsFinal`, `OverlapIsFixed`, `CommandsEnd` |
| `token_keys` | 914 k | `TrustIsRecent`, `OverlapCoversFresh`, `RetrySuffices`, `SnapshotsConverge` |
| `login_throttle` | 1.6 M | `WindowExact`, `RetryAfterIsHonest`, `UncountedOverlapped`, `HeadersTruthful`, `OnlyProofClears` |
| `request_pipeline` | 1.1 M | `OneAccountEach`, `PasswordsKept`, `SuspensionBites`, `ServedIsEntitled`, `VerdictsRecorded`, `RolesAreMeant` |
| `audit_order`, `provisioning_suspension`, `key_revoke_race`, `token_overlap`, `login_throttle_race` | | a counterexample each: section 4 |

Each property is stated in words above its definition. Each is also tested
against a mutation of the model: an operator marked `Mutation:` in the module
changes one definition the way a plausible bug would, and TLC then finds the
property violated (`mutants` in `PROJECT.json`). The mutations are used by
nothing else.

Bounds, and why they are enough to be interesting:

* *Audit*: three calls give a holder of the lock, a waiter and a bypasser at
  once; two of them carry equal events, so equality of rows cannot stand in for
  identity of calls. One clock tick separates "began before" from "began after".
  The proofs of section 6 remove these bounds.
* *Verifier and probes*: pages of two rows over up to three rows put a boundary
  inside the log, and leave a last page that is not full. Two contenders meet each
  other and a third, unrelated append. `MaxDamage` bounds edits, layers
  missing at a time and what went wrong in a probe's run together: one is enough for
  each kind of damage, since each check of a tool looks for one. The proofs put no
  bound on it.
* *Provisioning*: two clients of one slug, with equal or different names, and
  three events: a lost lock, a suspension and a stop or a deletion in one history.
* *Keys*: three commands of any kinds are two rotations and a revoke of what
  they touch; four keys never run out, since each command creates one at most
  and the deployment may start with one.
* *Tokens*: two instances, because one that has reloaded and one that has not
  is what rotation is about; one rotation of either purpose, with one of the new
  keys unloadable; lifetime 2, tolerance 1, interval 1, cooldown 1 and a wait of 1
  keep the order `Cooldown <= Interval < Overlap - Wait` of the defaults (30 s, 60 s,
  905 s less 7 s). `token_overlap` has interval 2 and no wait.
* *Throttle*: limits of one and two, so that the second of two concurrent requests
  is the one too many; windows of different lengths (1 and 3 units, a second being
  2), so that waits differ and rounding matters; three requests, two at a time,
  out of four that share an address under two spellings, an account under two
  spellings, and a tenant. One fault: a lost reply, an outage, a restart, or time
  that passes while a request is under way. Time between requests is free.
* *Requests*: three out of ten, two at a time, with one fault and one change by an
  operator: the races of the code are between two requests, and the third sets the
  stage (registers, logs in, or uses the token). Two tenants, one of them still to
  be provisioned; an administrator whose hash has old parameters is there already.
  One of the ten has no tenant header.

Deadlock checking is off where the actors do a finite amount of work and then
stop (appends, requests, commands); it is on for
`TokenKeys` and `LoginThrottle`, whose clocks never stop.

### Fairness

* `AuditChain`: weak fairness of the steps of each call. A statement that can run
  is run by the server and awaited by the code; a queued advisory lock is granted
  in arrival order, and with finitely many calls weak fairness is enough. Faults
  and the clock are not fair.
* `Provisioning`: weak fairness of each client's steps, `Retry` included (the
  client is assumed to repeat what failed). Faults and operators are not fair.
* `KeyLifecycle`: weak fairness of each command; nothing of `Stop`.
* `TokenKeys`: time passes, and reloads end. Strong fairness of the timer's
  query says that the database does not fail every reload for ever. Nothing is
  assumed of operators and requests.

## 4. Findings

Five places where the code does not do what a comment or a document says. Each
has a run with the counterexample.

* **Timestamps can contradict chain order** (`audit_order`). `now()` is the start
  of the transaction, which is before the wait for the lock. An append that began
  earlier and got the lock later is chained after a row with a later time. The
  comment in `audit-writer.ts` and `docs/audit-log.md` choose the database clock
  to avoid just that. `clock_timestamp()` after the lock would do it.
* **A provisioning run undoes a suspension** (`provisioning_suspension`). The last
  UPDATE of `provisionTenant` does not ask for `status = provisioning`. An operator
  suspends the row while a run is at work on it; the run, which holds its lock all
  the time, sets it to active. The comment in `registerOrResume` says that a suspended
  tenant is final. `LockGuardsSuspension` shows what does hold: a tenant suspended
  when it was active stays so while no run loses its lock. (With a lost lock a second
  run may activate the row first, and the first run then undoes a later suspension
  too; the comment that says that carrying on without the lock is safe does not see
  this.)
* **`revoke` can revoke the active key** (`key_revoke_race`). It checks a state
  read in an earlier query; a key that was pending then may be active by the time
  of the UPDATE, which names the kid only. No active key is left.
* **The overlap is too short by the reload interval** (`token_overlap`). An
  instance that has not reloaded signs with the retired key for up to a minute,
  and such a token outlives the key. `OverlapCoversFresh` shows that tokens made
  with the key that was active in the registry at that time are covered, but for as
  long before their end as the rotating transaction waited.
* **A failed login may be counted nowhere** (`login_throttle_race`). `recordFailure`
  ignores what `consume` answers. An attempt that passed the peek, and then found
  its window filled by another or Redis gone, gets the same 401 as one that was
  counted. The comment in `rate-limit.store.ts` says that an attempt that cannot
  be counted is refused. `UncountedOverlapped` shows that this is the only way:
  what goes uncounted overlapped another attempt or an outage, so the number of
  such attempts is bounded by those under way at one moment.

## 5. Observations that are not findings

* A request that loses the race to build a database gets a plain error (a unique
  violation of the catalogue is not among the codes of `isDuplicateObject`), which
  a repeat repairs: `RetrySettles` covers it.
* A verification that *joins* a reload already under way may retry on rows read
  before the rotation it needs; `RetrySuffices` therefore speaks of a reload the
  verification started itself.
* A comment in `rate-limit.guard.ts` says that the headers describe the tighter of
  the two budgets. The guard writes the client's figures and then the route's over
  them, without comparing, so a client that has spent its own budget on other routes
  is shown the route's. `HeadersTruthful` says of the figures only that they are those
  of a budget that was consulted, and that they are there on every answer unless a
  budget was not.
* A request without `x-tenant-id` is answered 404 `TENANT_NOT_FOUND` by `TenantGuard`
  (`TenantHeader`); `docs/request-lifecycle.md`, `docs/api-reference.md`,
  `docs/operations.md` and `problems.md` say 400 `TENANT_CONTEXT_MISSING`, an error
  that is thrown only where code runs without `TenantGuard` before it. `TypeOK` says
  that no error falls to the filter's default status, not that the documents list it.
* A registration whose INSERT committed and whose answer was lost ends in a 500:
  the account is there, with no event and no UNRECORDED line. `VerdictsRecorded`
  speaks of answers that tell an outcome.
* `headStillPresent` in `immutability-probe.ts` compares the stored hash. Its
  comment says that a match means an unmodified row; a change of another column
  leaves the stored hash as it was. The verifier recomputes hashes and finds it.
* `verifyAgainstDecoy` caches the promise of its hash. If that hash fails once,
  every later login to an unknown address fails with it until a restart.

## 6. Proofs

Each component has a module of theorems that extends it. They hold for every
value of the constants that satisfies the named assumptions: any number of calls,
clients, commands, instances, requests and faults, where TLC has two or three.
Every inductive invariant was first checked by TLC on the instance of the
component's run. In each module the first theorem below is the inductive
invariant, the second the type invariant.

| Module | Theorem | Property |
|---|---|---|
| `AuditChainProofs` | `ChainInvariant`, `TypeCorrect` | `ChainInv`, `TypeOK` |
| | `ChainCannotFork` | `ChainLinear` |
| | `LockIsEnough` | `LockSuffices` |
| | `ChainImplementsLog` | `ImplementsAuditLog`, the refinement of `AuditLog` |
| `AuditVerifierProofs` | `VerifierInvariant`, `VerifierTypes` | `VInv`, `VTypeOK` |
| | `AlarmsAreReal` | `NoFalseAlarm` |
| | `NoRowIsOvertaken` | `NothingOvertaken` |
| | `ReportsClaimWhatWasSeen` | `ReportsAreTrue` |
| `ProvisioningProofs` | `ProvisioningInvariant`, `ProvisioningTypes` | `ProvInv`, `TypeOK` |
| | `TenantsAreIsolated` | `Isolation` |
| | `MarkersAreTrue` | `MarkerIsTrue` |
| | `SuspensionNeedsOnlyTheLock` | `LockGuardsSuspension` |
| | `TablesAreKept` | `NothingAdopted` (action property) |
| | `ConflictsAreReal` | `ConflictOnlyWhenTaken` (action property) |
| `KeyLifecycleProofs` | `KeyInvariant`, `KeyTypes` | `KeyInv`, `TypeOK` |
| | `OneActiveKey` | `OneActive` |
| | `RotationLeavesNoGap` | `NoRotationGap` (action property) |
| | `RevocationIsFinal` | `RevokedIsFinal` (action property) |
| | `OverlapsAreFixed` | `OverlapIsFixed` (action property) |
| `TokenKeysProofs` | `TokenInvariant`, `TokenTypes` | `TokenInv`, `TypeOK` |
| | `TrustEndsInTime` | `TrustIsRecent` |
| | `RotationLogsNobodyOut` | `OverlapCoversFresh` |
| | `OneRetryIsEnough` | `RetrySuffices` |
| `RequestPipelineProofs` | `PipelineInvariant`, `PipelineTypes` | `PipeInv`, `TypeOK` |
| | `AccountsAreUnique` | `OneAccountEach` |
| | `SuspensionStops` | `SuspensionBites` |
| | `OnlyEntitledAreServed` | `ServedIsEntitled` |
| | `VerdictsLeaveTraces` | `VerdictsRecorded` |
| | `PasswordsAreKept` | `PasswordsKept` (action property) |
| | `RolesChangeAsMeant` | `RolesAreMeant` (action property) |
| `LoginThrottleProofs` | `ThrottleInvariant`, `TypesHold` | `ThrottleInv`, `TypeOK` |
| | `WindowsAreExact` | `WindowExact` |
| | `RetryAfterHolds` | `RetryAfterIsHonest` |
| | `UncountedHolds` | `UncountedOverlapped` |
| | `HeadersHold` | `HeadersTruthful` |
| | `ProofAloneClears` | `OnlyProofClears` (action property) |
| | `IdentityTells` | what `RateLimitIdentity` tells apart |

### Why the invariants are what they are

No property above is inductive as it stands: each is about a moment at which the
code acts on something that it read earlier.

**Audit chain.** `ChainLinear` says nothing about the row that is about to be
committed. `ChainInv` adds the following.

* `SeqsDrawnOnce`, `RowsAreOurs`: sequence values are distinct and below
  `nextSeq`, and each committed row is the row of one call that has committed.
* `PrevHashUnique`: no two rows share a `prev_hash`.
* `ReadsAreReal`: what a call read was genesis or the hash of a committed row
  with a smaller `seq`.
* `OnlyHeadIsFree`: every row but the last has a successor, and genesis is taken
  once there is a row. So the only hash that nothing follows is the head's.
* `PendingExtendsHead`: a row that got past the indexes points at the head. No
  other row can commit meanwhile, as it would have to point at a hash that is
  free, which is the head's, which the pending row already holds in the index.

Hence a commit always extends the head, with a larger `seq` than the head's
(the head's `seq` was drawn before the read that returned its hash), and the
chain stays linear. The lock is not mentioned: the index alone is enough.
`LockIsEnough` adds `LockInv`: whoever is between lock and commit holds the lock
(`LockHeld`), and the head it read is still the head unless a bypasser has
committed on it (`HeadIsFresh`, `ViolationEnds`). `ChainImplementsLog` maps the
log to the head's hash, which *is* the history, adds that answers are true
(`AnswersAreTrue`) and shows that each action is a `Record`, an `Acknowledge`, a
`GiveUp` or a stutter of `AuditLog`.

**Verifier and probes.** There are two levels of trust. What an edit leaves
intact is stated of every state (`Table`: a finite table, in which `seq` is a
key), and is all that a truthful report needs: a walk that meets no break ends in
a hash that is the sequence of what it read (`WalkCommits`). What appends
guarantee is stated of states without an edit (`Trusted`: `ChainInv`); there a
page is a segment of one chain that begins at the cursor (`SegmentUnbroken`), and
the chain grows only beyond it. `WalkIsSeen`, `WalkIsOnChain`,
`ContentionIsAhead`, `ProbeIsRight` and `VerdictsAreRight` say this of each tool
between its queries. For the immutability probe that is what its verdict so far is
worth: a FAIL has its reason (an empty chain, a layer that was missing, an attempt or
an append that failed by itself), and a PASS up to a check has met, at some moment,
the layer that the check is about.

**Provisioning.** `activate` looks at no database. `Isolation` therefore rests on
`BuiltIsOurs`: the database that a run has built or accepted is still its row's,
if that row is still there, suspended or not. To build, a run must find no tables and keep every
other builder waiting (`BuildersAreAlone`), and a database is dropped only when its
row is gone, whose id does not come back. `ConflictsAreReal` is stated for names
that no two slugs share (`OwnNames`), as the pattern in `provision-tenant.dto.ts`
makes them, and for runs that do not lose their lock.

**Key commands.** COMMIT applies writes that were computed two statements ago.
The rows a transaction has written are locked and stay as it read them
(`WritesAreLocked`), between the index check and COMMIT nobody else is past that
check (`OneActivation`), and so no key becomes active meanwhile
(`ActivationIsSafe`).

**Snapshots and tokens.** The invariant states how far a snapshot and the registry
may be apart (`Fresh`): a snapshot whose timer reloads did not fail was read at
most `Lag` units ago, so a key it still trusts is usable or was revoked at most
that long ago. For the retry another relation is needed (`Has`): a reload that a
verification started itself began when no other was under way, so whatever ends
from then on has read rows that know the token's keys.

**Requests.** A request carries what it read across its awaits. `Sound` says of
each request what it may rely on where it is; it stays so because the world only
grows (`Grows`): rows of users are not deleted and keep creator and password, a
provisioned tenant stays registered, and the chains lose nothing.

**Limiter and throttle.** A sorted set knows members, and `WindowExact` counts
requests. `ThrottleInv` relates the two.

* `Counts`: for each bucket there is a bijection between the requests it admitted
  in the last window and its live members, of equal ages, and a command that may be
  sent again keeps its own member under it. So a script that runs a second time
  moves its member and adds none.
* `Members`: every member carries an instance id that was drawn and a number its
  counter has come to, hence a new member is nobody's.
* `Lasting`: a key lives at least as long as what is live in it, so its expiry
  takes nothing away that counts.
* `Look`: what a login saw when it looked at a counter still holds (there is room,
  and Redis is there), or it is excused.
* `Refusals`: of what was counted when a counter said no, enough has gone or goes
  within the wait (`Ends`); for the guards all of it stays until a second before the
  end of the wait (`Lasts`).

The proof attempt changed one property. `RetryAfterIsHonest` used to measure time
from the moment of the answer, and that is false in general: a login reads the
account's counter before the address's, and an event counted between the two may
outlast the wait. It now measures from the moment each counter said no, which is
what the code can promise. `WindowsAreExact` has a hypothesis,
`Attributable`: two requests come from one source exactly if `RateLimitIdentity`
gives their addresses one identity. TLC evaluates it on the instance of the run.
`IdentityTells` says when it does: the same
four bytes of IPv4 in either spelling, or the same /64 of IPv6. Two
hosts in one /64 are one client to the code, by intention.

### Assumptions

Each is named in the module that declares its constants, and evaluated by TLC on
every run. Those that are more than types:

* `CallsAssumption`, `ContendersAssumption`, `ImmutabilityAssumption`: bypassers,
  contenders and the probe's own append are calls; contenders and the probe take
  the lock, and there is a contender (`contention-probe.ts` refuses a number of
  appends below one).
* `ProvisioningAssumption`: ids of new tenants are new (`FirstId`), and a marker
  found in a database at the start was written by the code, whole and for its
  owner. Nothing is assumed of databases without a marker.
* `TokenAssumption`: `Cooldown <= Interval < Overlap - Wait`, the order of the
  defaults, with a positive cooldown. That a rotation commits within `Wait` of its
  `not_after` is Prisma's limit on a transaction, not the repository's.
* `LegacyAssumption`: accounts that are there at the start are rows of the table.
* `WindowAssumption`, `ThrottleAssumption`: limits, windows and a second are
  positive, requests are finitely many, and every key that a request is counted
  under has a bucket.
* Hashes are injective by construction (`HashInjective`): a hash is the history it
  commits to.

### Induction over data

The provers cannot use an induction theorem that takes a predicate as its
parameter. `AuditVerifierProofs` and `LoginThrottleProofs` therefore use
`LeastNumber` (a nonempty set of numbers has a least element), which follows from
two library facts without such a parameter, the well-foundedness of `<` and the
existence of minimal elements, and argue by the least counterexample. `Entries`, the page in `seq` order, and the loop of
`verifyAuditChain` are reasoned about that way.

### Only model-checked

All liveness: `EveryAppendSettles`, `RetrySettles`, `CommandsEnd`,
`SnapshotsConverge`. Fairness is outside what the prover does. Every invariant and
every action property of a passing run is proved.

## 7. Not modelled

* Cryptography: wrapping, signing, encryption, password hashing. Library calls
  without state. Header, algorithm and claim checks of a malformed token all end
  in the same rejection as an unknown key.
* Response formatting, validation messages, OpenAPI, health, JWKS, configuration
  parsing and start-up: pure functions, reads or wiring. The status of every
  error and the rate-limit headers are modelled.
* The CHECK constraints on the text of audit columns: they restate formats.
* `provisioning-probe.ts`: a test program that stages, one by one, states and races
  that `Provisioning` reaches by itself; what it asserts are properties there.
  `verify-claims.mjs` and the other scripts check documents and builds.
* The time that a login takes: the purpose of the decoy hash is that it is the
  same for known and unknown addresses.
* What happens if guards are composed in another order than the routes do.
* Clock differences between machines. `TokenKeys` has one time for all and folds
  the tolerance into a token's life; provisioning and key commands do not compare
  clocks.

## 8. Plan

Done, in this order: `AuditLog` and `AuditChain` with their proofs, `AuditVerifier`,
`Provisioning`, `KeyLifecycle`, `TokenKeys`, `SlidingWindow` and `LoginThrottle`,
`Accounts` and `RequestPipeline`, `AuditImmutability` and the probes; then the
proofs about provisioning, key commands, tokens, requests, the verifier and the
probes, the limiter and the throttle. Left: nothing of the safety properties. Worth
adding are abstract specifications for other components than the chain (an exact
counter for the limiter, a tenant's life for provisioning) with their refinement.

## 9. Running it

    tlc -config AuditChain.cfg MCAuditChain
    tlc -config AuditVerifier.cfg MCAuditVerifier
    tlc -config Provisioning.cfg MCProvisioning
    tlc -config KeyLifecycle.cfg MCKeyLifecycle
    tlc -config TokenKeys.cfg MCTokenKeys
    tlc -config LoginThrottle.cfg MCLoginThrottle
    tlc -config RequestPipeline.cfg MCRequestPipeline

    for m in AuditChain AuditVerifier Provisioning KeyLifecycle TokenKeys RequestPipeline \
             LoginThrottle
    do tlapm ${m}Proofs.tla; done

The configurations `AuditOrder`, `ProvisioningSuspension`, `KeyRevokeRace`,
`TokenOverlap` and `LoginThrottleRace` (with the same modules) end in the
counterexamples of section 4.
