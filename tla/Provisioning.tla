---------------------------- MODULE Provisioning ----------------------------
(***************************************************************************)
(* ConnectionManager.provisionTenant: a sequence of autocommit steps over  *)
(* two databases (the registry in the master, the tenant's own database),  *)
(* run by several processes, any of which may stop after any step, repeat  *)
(* the request, or lose the session lock while it works on.                *)
(*                                                                         *)
(* A database keeps, beside its marker, the id of the registry row its     *)
(* tables were built for: a history variable, which the code cannot see,   *)
(* and which isolation is about.                                           *)
(***************************************************************************)
EXTENDS Naturals, FiniteSets

CONSTANTS
    Requests,     \* clients that ask for a tenant and repeat a request that failed
    Slugs, Names, \* what they ask for
    DbNames,
    DbOf,         \* tenantDatabaseName
    LegacyRows,   \* registry rows this code did not write, which may be there
    LegacyDbs,    \* what a database of the cluster may be before any request
    FirstId,      \* the first fresh registry id
    None,
    MaxEvents     \* bound on faults and operator actions

VARIABLES
    input,        \* what each request asks for; fixed
    registry,     \* the tenants table of the master database
    nextId,       \* fresh registry ids
    dbs,          \* the databases of the tenant cluster
    lock,         \* per database name, the run whose session holds the lock
    pc,           \* where each run is, or how it ended
    rowId,        \* each run: the registry row it works for
    lost,         \* history: runs that lost their lock and went on
    suspended,    \* history: tenants an operator suspended, and the status they had
    events        \* faults and operator actions so far

vars == <<input, registry, nextId, dbs, lock, pc, rowId, lost, suspended, events>>
history == <<lost, suspended, events>>

Ids     == Nat
Status  == {"provisioning", "active", "suspended"}
Tenant  == [id : Ids, slug : Slugs, name : Names, db : DbNames, status : Status]
Database == [tables : {"absent", "empty", "tenant"},
             marker : Ids \cup {None},
             owner  : Ids \cup {None}]

Absent == [tables |-> "absent", marker |-> None, owner |-> None]
Empty  == [tables |-> "empty", marker |-> None, owner |-> None]

\* Whatever was there before has older ids, and markers that tell the truth.
ASSUME ProvisioningAssumption ==
    /\ DbOf \in [Slugs -> DbNames]
    /\ None \notin Nat \cup Requests
    /\ MaxEvents \in Nat
    /\ FirstId \in Nat
    /\ LegacyRows \subseteq Tenant /\ \A t \in LegacyRows : t.id < FirstId
    /\ LegacyDbs \subseteq Database
    /\ \A d \in LegacyDbs : d.marker # None => d.tables = "tenant" /\ d.owner = d.marker

Definitive == {"ok", "exists", "conflict"}
Retryable  == {"failed", "inProgress"}
Running    == {"locked", "unregistered", "registered", "noDb", "hasDb", "unmarked",
               "waiting", "building", "built"}
PC         == {"idle"} \cup Running \cup Definitive \cup Retryable

slug(r) == input[r].slug
db(r)   == DbOf[slug(r)]

\* Mutation: the lock is taken on a pooled connection and never given back.
NeverRelease(r) == UNCHANGED lock

\* The lock lives on the run's own connection and goes with it.
Release(r) == lock' = [lock EXCEPT ![db(r)] = IF @ = r THEN None ELSE @]

\* The run ends: the finally block closes the lock's connection.
End(r, outcome) ==
    /\ pc' = [pc EXCEPT ![r] = outcome]
    /\ Release(r)

Goto(r, label) ==
    /\ pc' = [pc EXCEPT ![r] = label]
    /\ UNCHANGED lock

TypeOK ==
    /\ input \in [Requests -> [slug : Slugs, name : Names]]
    /\ registry \subseteq Tenant
    /\ nextId \in Ids
    /\ dbs \in [DbNames -> Database]
    /\ lock \in [DbNames -> Requests \cup {None}]
    /\ pc \in [Requests -> PC]
    /\ rowId \in [Requests -> Ids]
    /\ lost \subseteq Requests
    /\ suspended \subseteq Ids \X {"provisioning", "active"}
    /\ events \in 0 .. MaxEvents

Init ==
    /\ input \in [Requests -> [slug : Slugs, name : Names]]
    /\ registry \in SUBSET LegacyRows
    /\ \A t, u \in registry : t.id = u.id \/ t.slug = u.slug \/ t.db = u.db => t = u
    /\ nextId = FirstId
    /\ dbs \in [DbNames -> LegacyDbs]
    /\ \A t \in registry : t.status # "provisioning" => /\ dbs[t.db].tables = "tenant"
                                                        /\ dbs[t.db].owner = t.id
    /\ lock = [d \in DbNames |-> None]
    /\ pc = [r \in Requests |-> "idle"]
    /\ rowId = [r \in Requests |-> 0]
    /\ lost = {}
    /\ suspended = {<<t.id, "active">> : t \in {u \in registry : u.status = "suspended"}}
    /\ events = 0

-----------------------------------------------------------------------------
(* provisionTenant, one action per query.                                  *)

\* Mutation: the answer of pg_try_advisory_lock is not looked at.
LockUnread(r) ==
    /\ pc[r] = "idle"
    /\ lock' = [lock EXCEPT ![db(r)] = IF @ = None THEN r ELSE @]
    /\ pc' = [pc EXCEPT ![r] = "locked"]
    /\ UNCHANGED <<input, registry, nextId, dbs, rowId, history>>

\* pg_try_advisory_lock on a connection of its own: refused at once if held.
lockProvisioning(r) ==
    /\ pc[r] = "idle"
    /\ \/ /\ lock[db(r)] = None
          /\ lock' = [lock EXCEPT ![db(r)] = r]
          /\ pc' = [pc EXCEPT ![r] = "locked"]
       \/ /\ lock[db(r)] # None
          /\ Goto(r, "inProgress")
    /\ UNCHANGED <<input, registry, nextId, dbs, rowId, history>>

\* Mutation: an unfinished row counts as a tenant.
NeverResume(r) ==
    /\ pc[r] = "locked"
    /\ IF \E t \in registry : t.slug = slug(r) THEN End(r, "exists")
                                               ELSE Goto(r, "unregistered")
    /\ UNCHANGED <<input, registry, nextId, dbs, rowId, history>>

\* registerOrResume reads the slug: only an unfinished run of the same request is
\* resumed, and only if the row names the database this slug derives.
findTenant(r) ==
    /\ pc[r] = "locked"
    /\ LET found == {t \in registry : t.slug = slug(r)}
       IN  \/ /\ found = {}
              /\ Goto(r, "unregistered")
              /\ UNCHANGED rowId
           \/ \E t \in found :
                \/ /\ t.status # "provisioning" \/ t.name # input[r].name
                   /\ End(r, "exists")
                   /\ UNCHANGED rowId
                \/ /\ t.status = "provisioning" /\ t.name = input[r].name
                   /\ t.db # db(r)
                   /\ End(r, "conflict")
                   /\ UNCHANGED rowId
                \/ /\ t.status = "provisioning" /\ t.name = input[r].name
                   /\ t.db = db(r)
                   /\ rowId' = [rowId EXCEPT ![r] = t.id]
                   /\ Goto(r, "registered")
    /\ UNCHANGED <<input, registry, nextId, dbs, history>>

\* Mutation: the row is written with a status the enum does not have.
CreateUnknownStatus(r) ==
    /\ pc[r] = "unregistered"
    /\ registry' = registry \cup
          {[id |-> nextId, slug |-> slug(r), name |-> input[r].name,
            db |-> db(r), status |-> "pending"]}
    /\ nextId' = nextId + 1
    /\ rowId' = [rowId EXCEPT ![r] = nextId]
    /\ Goto(r, "registered")
    /\ UNCHANGED <<input, dbs, history>>

\* ... and creates the row otherwise. slug and database_name are unique columns.
createTenant(r) ==
    /\ pc[r] = "unregistered"
    /\ \/ /\ \E t \in registry : t.slug = slug(r) \/ t.db = db(r)
          /\ End(r, "exists")
          /\ UNCHANGED <<registry, nextId, rowId>>
       \/ /\ \A t \in registry : t.slug # slug(r) /\ t.db # db(r)
          /\ registry' = registry \cup
                {[id |-> nextId, slug |-> slug(r), name |-> input[r].name,
                  db |-> db(r), status |-> "provisioning"]}
          /\ nextId' = nextId + 1
          /\ rowId' = [rowId EXCEPT ![r] = nextId]
          /\ Goto(r, "registered")
    /\ UNCHANGED <<input, dbs, history>>

\* createDatabase looks for the database first ...
findDatabase(r) ==
    /\ pc[r] = "registered"
    /\ Goto(r, IF dbs[db(r)] = Absent THEN "noDb" ELSE "hasDb")
    /\ UNCHANGED <<input, registry, nextId, dbs, rowId, history>>

\* Mutation: the marker is written as soon as the database exists.
MarkAtCreate(r) ==
    /\ pc[r] = "noDb"
    /\ dbs[db(r)] = Absent
    /\ dbs' = [dbs EXCEPT ![db(r)] = [Empty EXCEPT !.marker = rowId[r]]]
    /\ Goto(r, "hasDb")
    /\ UNCHANGED <<input, registry, nextId, rowId, history>>

\* ... and creates it if it was not there; PostgreSQL refuses a second create.
createDatabase(r) ==
    /\ pc[r] = "noDb"
    /\ \/ /\ dbs[db(r)] = Absent
          /\ dbs' = [dbs EXCEPT ![db(r)] = Empty]
          /\ Goto(r, "hasDb")
       \/ /\ dbs[db(r)] # Absent
          /\ End(r, "failed")
          /\ UNCHANGED dbs
    /\ UNCHANGED <<input, registry, nextId, rowId, history>>

\* Mutation: any marker will do.
AnyMarker(r) ==
    /\ pc[r] = "hasDb"
    /\ dbs[db(r)] # Absent
    /\ Goto(r, IF dbs[db(r)].marker = None THEN "unmarked" ELSE "built")
    /\ UNCHANGED <<input, registry, nextId, dbs, rowId, history>>

\* initializeTenantDatabase connects, opens its transaction and reads the marker.
readMarker(r) ==
    /\ pc[r] = "hasDb"
    /\ LET d == dbs[db(r)]
       IN  \/ /\ d = Absent
              /\ End(r, "failed")
           \/ /\ d # Absent /\ d.marker = rowId[r]
              /\ Goto(r, "built")
           \/ /\ d # Absent /\ d.marker = None
              /\ Goto(r, "unmarked")
           \/ /\ d # Absent /\ d.marker \notin {rowId[r], None}
              /\ End(r, "conflict")
    /\ UNCHANGED <<input, registry, nextId, dbs, rowId, history>>

Building(d) == \E q \in Requests : pc[q] = "building" /\ db(q) = d

\* Mutation: CREATE TABLE IF NOT EXISTS, which builds over what is there.
CreateIfNotExists(r) ==
    /\ pc[r] = "unmarked"
    /\ Goto(r, IF Building(db(r)) THEN "waiting" ELSE "building")
    /\ UNCHANGED <<input, registry, nextId, dbs, rowId, history>>

\* The schema statements. On objects that are there they fail, a conflict; behind
\* an open transaction that is creating the same objects they wait.
applySchema(r) ==
    /\ pc[r] = "unmarked"
    /\ \/ /\ dbs[db(r)].tables = "tenant"
          /\ End(r, "conflict")
       \/ /\ dbs[db(r)].tables = "empty"
          /\ Goto(r, IF Building(db(r)) THEN "waiting" ELSE "building")
    /\ UNCHANGED <<input, registry, nextId, dbs, rowId, history>>

\* The wait ends: with a unique violation of the catalogue (a SQLSTATE that is not
\* in DUPLICATE_OBJECT, so a plain error) if the other transaction committed.
endWait(r) ==
    /\ pc[r] = "waiting"
    /\ ~Building(db(r))
    /\ \/ /\ dbs[db(r)].tables = "tenant"
          /\ End(r, "failed")
       \/ /\ dbs[db(r)].tables = "empty"
          /\ Goto(r, "building")
    /\ UNCHANGED <<input, registry, nextId, dbs, rowId, history>>

\* Triggers, RBAC catalogue and, last, the marker: one COMMIT makes all of it so.
commitBuild(r) ==
    /\ pc[r] = "building"
    /\ dbs' = [dbs EXCEPT ![db(r)] = [tables |-> "tenant", marker |-> rowId[r], owner |-> rowId[r]]]
    /\ Goto(r, "built")
    /\ UNCHANGED <<input, registry, nextId, rowId, history>>

\* The completion marker is one UPDATE by id: status becomes active, whatever it was.
setActive(t) == registry' = (registry \ {t}) \cup {[t EXCEPT !.status = "active"]}

\* The run ends with it; a row that is gone is an error.
activate(r) ==
    /\ pc[r] = "built"
    /\ \/ \E t \in registry :
             /\ t.id = rowId[r]
             /\ setActive(t)
             /\ End(r, "ok")
       \/ /\ \A t \in registry : t.id # rowId[r]
          /\ End(r, "failed")
          /\ UNCHANGED registry
    /\ UNCHANGED <<input, nextId, dbs, rowId, history>>

\* The client repeats a request that failed or met a run in progress.
Retry(r) ==
    /\ pc[r] \in Retryable
    /\ Goto(r, "idle")
    /\ UNCHANGED <<input, registry, nextId, dbs, rowId, history>>

Step(r) ==
    \/ lockProvisioning(r) \/ findTenant(r) \/ createTenant(r) \/ findDatabase(r)
    \/ createDatabase(r) \/ readMarker(r) \/ applySchema(r) \/ endWait(r)
    \/ commitBuild(r) \/ activate(r) \/ Retry(r)

-----------------------------------------------------------------------------
(* Faults, and what operators do around a run.                             *)

Event == events < MaxEvents /\ events' = events + 1

\* A step fails or the process dies: an open transaction is rolled back and the
\* lock's connection ends.
Stop(r) ==
    /\ Event
    /\ pc[r] \in Running
    /\ End(r, "failed")
    /\ UNCHANGED <<input, registry, nextId, dbs, rowId, lost, suspended>>

\* The last UPDATE takes effect and its answer is lost: the caller is told it failed.
LoseAnswer(r) ==
    /\ Event
    /\ pc[r] = "built"
    /\ \E t \in registry : t.id = rowId[r] /\ setActive(t)
    /\ End(r, "failed")
    /\ UNCHANGED <<input, nextId, dbs, rowId, lost, suspended>>

\* The idle connection that holds the lock drops; the run carries on without it.
LoseLock(r) ==
    /\ Event
    /\ pc[r] \in Running
    /\ lock[db(r)] = r
    /\ Release(r)
    /\ lost' = lost \cup {r}
    /\ UNCHANGED <<input, registry, nextId, dbs, pc, rowId, suspended>>

\* An operator suspends a tenant, one that is still being provisioned too.
SuspendTenant(t) ==
    /\ Event
    /\ t.status # "suspended"
    /\ registry' = (registry \ {t}) \cup {[t EXCEPT !.status = "suspended"]}
    /\ suspended' = suspended \cup {<<t.id, t.status>>}
    /\ UNCHANGED <<input, nextId, dbs, lock, pc, rowId, lost>>

\* A registry row is deleted; its database is kept.
DeleteTenant(t) ==
    /\ Event
    /\ registry' = registry \ {t}
    /\ UNCHANGED <<input, nextId, dbs, lock, pc, rowId, lost, suspended>>

\* A database built for no registered tenant is dropped, which needs that nobody
\* is connected to it.
DropOrphan(d) ==
    /\ Event
    /\ dbs[d].tables = "tenant"
    /\ \A t \in registry : t.id # dbs[d].owner
    /\ \A r \in Requests : db(r) = d => pc[r] \notin {"unmarked", "waiting", "building"}
    /\ dbs' = [dbs EXCEPT ![d] = Absent]
    /\ UNCHANGED <<input, registry, nextId, lock, pc, rowId, lost, suspended>>

Environment ==
    \/ \E r \in Requests : Stop(r) \/ LoseAnswer(r) \/ LoseLock(r)
    \/ \E t \in registry : SuspendTenant(t) \/ DeleteTenant(t)
    \/ \E d \in DbNames : DropOrphan(d)

Next == (\E r \in Requests : Step(r)) \/ Environment

Spec == Init /\ [][Next]_vars

\* Queries get answers and clients repeat what failed; faults and operators are
\* free to do nothing.
FairSpec == Spec /\ \A r \in Requests : WF_vars(Step(r))

-----------------------------------------------------------------------------
(* Properties.                                                             *)

\* A tenant that is served, or was, has a database holding tables that were built
\* for it and for nobody else: through retries, duplicate runs, lost locks, rows
\* deleted under a run and databases left behind by earlier tenants.
Isolation ==
    \A t \in registry :
        t.status = "active" \/ <<t.id, "active">> \in suspended =>
            dbs[t.db].tables = "tenant" /\ dbs[t.db].owner = t.id

\* The marker tells the truth: a database marked for a row was built, completely,
\* for that row.
MarkerIsTrue ==
    \A d \in DbNames : dbs[d].marker # None => /\ dbs[d].tables = "tenant"
                                               /\ dbs[d].owner = dbs[d].marker

\* No run takes over or rebuilds what another tenant's tables are in: a database
\* with tables changes only by being dropped.
NothingAdopted ==
    [][\A d \in DbNames : dbs[d].tables = "tenant" => dbs'[d] \in {dbs[d], Absent}]_vars

\* A 409 is only for a slug that is really taken, by a finished tenant or by a
\* request with another name: as long as no run loses its lock, repeating an
\* unfinished request never meets the row it left behind.
ConflictOnlyWhenTaken ==
    [][\A r \in Requests :
          pc[r] # "exists" /\ pc'[r] = "exists" /\ lost = {} =>
              \E t \in registry : /\ t.slug = slug(r)
                                  /\ t.status # "provisioning" \/ t.name # input[r].name]_vars

\* As long as no run loses its lock, a tenant that was suspended when it was active
\* stays suspended. The last UPDATE of provisionTenant has no condition on the status:
\* that no other run is on its way to it when a tenant becomes active is the lock's
\* doing alone.
LockGuardsSuspension ==
    lost = {} => \A t \in registry : <<t.id, "active">> \in suspended => t.status = "suspended"

\* What registerOrResume says of a suspended tenant, that it is final: a suspension
\* holds against provisioning runs, be the row active or still provisioning.
SuspensionHolds ==
    \A t \in registry :
        (\E s \in Status : <<t.id, s>> \in suspended) => t.status = "suspended"

\* Resumability: whatever step a run stopped after, repeating the request ends in
\* a definitive answer, never in an endless round of 409s or errors.
RetrySettles == \A r \in Requests : pc[r] = "locked" ~> pc[r] \in Definitive

=============================================================================
