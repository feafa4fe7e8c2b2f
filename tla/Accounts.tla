------------------------------ MODULE Accounts ------------------------------
(***************************************************************************)
(* The users of the tenants' databases: the statements that registration,  *)
(* login and the admin seed run against them, each atomic (READ COMMITTED, *)
(* one statement or one transaction), and what an operator does to a row.  *)
(* Every tenant has its own table, with a unique index on the email.       *)
(*                                                                         *)
(* A password hash is the password it verifies against and whether its     *)
(* Argon2 parameters are the current ones. Rows are never deleted, so the  *)
(* email a row was created with stands for its id.                         *)
(***************************************************************************)
EXTENDS Naturals, FiniteSets

CONSTANTS
    Tenants,     \* the registry rows: their slugs
    Legacy       \* the rows there are at the start: <<tenant, email>> -> row

VARIABLE users   \* <<tenant, email>> -> row

\* Mutation: the email is stored as it was typed.
NormaliseAsTyped(email) == email

\* normaliseEmail: an email is <<person, spelling>>, and the spelling goes.
normaliseEmail(email) == <<email[1], "lower">>

RowOf(tenant, email) == <<tenant, normaliseEmail(email)>>

\* hashPassword: with ARGON2_OPTIONS.
Hash(password) == [of |-> password, current |-> TRUE]

\* verifyPassword, and needsRehash, which looks at the parameters only.
Verify(hash, password) == hash.of = password
NeedsRehash(hash)      == ~hash.current

\* A row of users, with its role assignments; `by` is history: who created it.
User(hash, roles, by) == [status |-> "active", hash |-> hash, roles |-> roles, by |-> by]

\* The rows at the start: one for each email, as normaliseEmail leaves it.
ASSUME LegacyAssumption ==
    /\ Legacy = [id \in DOMAIN Legacy |-> Legacy[id]]
    /\ \A id \in DOMAIN Legacy :
          /\ id[1] \in Tenants /\ id = RowOf(id[1], id[2])
          /\ Legacy[id] \in [status : {"active", "disabled"},
                            hash : [of : {Legacy[id].hash.of}, current : BOOLEAN],
                            roles : SUBSET {"tenant-admin"},
                            by : {0}]

Exists(id) == id \in DOMAIN users

Insert(id, row) == users' = [i \in DOMAIN users \cup {id} |-> IF i = id THEN row ELSE users[i]]

\* user.create: the unique index refuses a second row. It assigns no role.
CreateUser(id, hash, by) ==
    /\ ~Exists(id)
    /\ Insert(id, User(hash, {}, by))

\* user.update in upgradeHashIfStale, by id, whatever the row says by now.
UpdateHash(id, hash) == users' = [users EXCEPT ![id].hash = hash]

\* loadAuthz: the roles now, and the permissions that they carry.
PermissionsOf(roles) == IF "tenant-admin" \in roles THEN {"users:read"} ELSE {}

\* userRole.upsert: the role, whether the user has it already or not.
GrantAdmin(id) == users' = [users EXCEPT ![id].roles = @ \cup {"tenant-admin"}]

\* The transaction of seedTenantAdmin: the user that was found, or else a new one,
\* and the role. A new one that meets the unique index takes it all back.
SeedTx(id, existing, hash, by) ==
    \/ existing /\ GrantAdmin(id)
    \/ /\ ~existing /\ ~Exists(id)
       /\ Insert(id, User(hash, {"tenant-admin"}, by))

\* user.findMany: the whole table of one tenant.
FindMany(tenant) == {id \in DOMAIN users : id[1] = tenant}

\* An operator disables an account or enables it again, and grants a role or takes
\* it away: there is no route for it, only the database.
ToggleStatus(id) ==
    users' = [users EXCEPT ![id].status = IF @ = "active" THEN "disabled" ELSE "active"]

ToggleRole(id) ==
    users' = [users EXCEPT ![id].roles = IF @ = {} THEN {"tenant-admin"} ELSE {}]
=============================================================================
