------------------------- MODULE ProvisioningProofs -------------------------
(***************************************************************************)
(* Tenants are isolated for any number of runs, retries, stops, lost locks *)
(* and operator actions, over whatever databases and rows were there; and  *)
(* what the session lock adds as long as no run loses it.                  *)
(*                                                                         *)
(* Isolation is not inductive: activate looks at no database. It rests on  *)
(* BuiltIsOurs, that the database a run has built or accepted is still its *)
(* row's, if that row is still there. No other run can change that: to     *)
(* build one must find no tables and keep every other builder waiting      *)
(* (BuildersAreAlone), and a database is dropped only when its row is      *)
(* gone; ids are never used again, so the row does not come back.          *)
(***************************************************************************)
EXTENDS Provisioning, TLAPS

\* A run that has its registry row.
Working == {"registered", "noDb", "hasDb", "unmarked", "waiting", "building", "built"}

\* The registry's keys hold, and its ids are spent.
RowsAreDistinct ==
    /\ \A t, u \in registry : t.id = u.id \/ t.slug = u.slug \/ t.db = u.db => t = u
    /\ \A t \in registry : t.id < nextId
    /\ \A s \in suspended : s[1] < nextId

\* The row a run works for names the run's database, as long as it is there.
RunsKnowTheirRow ==
    \A r \in Requests : pc[r] \in Working =>
        /\ rowId[r] < nextId
        /\ \A t \in registry : t.id = rowId[r] => t.db = db(r)

\* A run in its build transaction found no tables, and is alone in that database.
BuildersAreAlone ==
    \A r \in Requests : pc[r] = "building" =>
        /\ dbs[db(r)].tables = "empty"
        /\ \A q \in Requests : pc[q] = "building" /\ db(q) = db(r) => q = r

\* What a run has built or accepted is its row's, as long as the row is there.
BuiltIsOurs ==
    \A r \in Requests : pc[r] = "built" =>
        \A t \in registry : t.id = rowId[r] =>
            dbs[db(r)].tables = "tenant" /\ dbs[db(r)].owner = rowId[r]

\* While no lock was lost, every run holds its own ...
LocksAreHeld == lost = {} => \A r \in Requests : pc[r] \in Running => lock[db(r)] = r

\* ... so nobody finishes the row that it works for, although an operator may suspend
\* it unfinished ...
RowsWaitForUs ==
    lost = {} => \A r \in Requests, t \in registry :
        pc[r] \in Working /\ t.id = rowId[r] =>
            t.status # "active" /\ <<t.id, "active">> \notin suspended

\* ... and nobody takes the slug that it found free.
SlugStaysFree ==
    lost = {} => \A r \in Requests, t \in registry : pc[r] = "unregistered" => t.slug # slug(r)

ProvInv ==
    /\ TypeOK
    /\ MarkerIsTrue
    /\ Isolation
    /\ RowsAreDistinct
    /\ RunsKnowTheirRow
    /\ BuildersAreAlone
    /\ BuiltIsOurs
    /\ LocksAreHeld
    /\ RowsWaitForUs
    /\ SlugStaysFree
    /\ LockGuardsSuspension

-----------------------------------------------------------------------------

USE ProvisioningAssumption

\* A request's database is one of the cluster's.
LEMMA DbType == ASSUME TypeOK, NEW r \in Requests PROVE slug(r) \in Slugs /\ db(r) \in DbNames
    BY DEF TypeOK, slug, db

\* Nothing has happened: what was there before is consistent.
LEMMA ProvInit == Init => ProvInv
<1> SUFFICES ASSUME Init PROVE ProvInv
    OBVIOUS
<1> USE DEF Init
<1>1. TypeOK
  <2>1. \A t \in registry : t.id \in Ids
      BY DEF Tenant
  <2>2. suspended \subseteq Ids \X {"provisioning", "active"}
      BY <2>1
  <2> QED
      BY <2>2 DEF TypeOK, PC, Ids
<1>2. MarkerIsTrue /\ Isolation
    BY DEF MarkerIsTrue, Isolation
<1>3. RowsAreDistinct
    BY DEF RowsAreDistinct
<1>4. /\ RunsKnowTheirRow /\ BuildersAreAlone /\ BuiltIsOurs
      /\ LocksAreHeld /\ RowsWaitForUs /\ SlugStaysFree
    BY DEF RunsKnowTheirRow, BuildersAreAlone, BuiltIsOurs, LocksAreHeld, RowsWaitForUs,
           SlugStaysFree, Working, Running
<1>5. LockGuardsSuspension
    BY DEF LockGuardsSuspension
<1> QED
    BY <1>1, <1>2, <1>3, <1>4, <1>5 DEF ProvInv

-----------------------------------------------------------------------------
(* Steps that only move a run.                                             *)

\* What must be so for a run to get to a label.
MayEnter(r, label) ==
    /\ label \in PC
    /\ label \in Running => pc[r] \in Running
    /\ label \in Working => pc[r] \in Working
    /\ label = "building" => dbs[db(r)].tables = "empty" /\ ~Building(db(r))
    /\ label = "built" => dbs[db(r)].tables = "tenant" /\ dbs[db(r)].owner = rowId[r]
    /\ label = "unregistered" => \A t \in registry : t.slug # slug(r)

\* A run that stops or ends lets its lock go, and nobody else's.
LEMMA ReleaseEffect ==
    ASSUME TypeOK, NEW r \in Requests, Release(r)
    PROVE  /\ lock' \in [DbNames -> Requests \cup {None}]
           /\ \A d \in DbNames, q \in Requests \ {r} : lock[d] = q => lock'[d] = q
    BY DbType DEF Release, TypeOK

\* A step that moves one run to a label it may enter, and changes neither database.
LEMMA MoveKeeps ==
    ASSUME ProvInv, NEW r \in Requests, NEW label,
           MayEnter(r, label),
           pc' = [pc EXCEPT ![r] = label],
           lock' = lock \/ (label \notin Running /\ Release(r)),
           UNCHANGED <<input, registry, nextId, dbs, rowId, lost, suspended>>,
           events' \in 0 .. MaxEvents
    PROVE  ProvInv'
<1> USE DEF ProvInv
<1>1. /\ lock' \in [DbNames -> Requests \cup {None}]
      /\ \A d \in DbNames, q \in Requests : lock[d] = q /\ (q # r \/ label \in Running) => lock'[d] = q
    BY ReleaseEffect DEF TypeOK
<1>2. /\ pc'[r] = label
      /\ \A q \in Requests \ {r} : pc'[q] = pc[q]
    BY DEF TypeOK
<1>3. \A q \in Requests : slug(q)' = slug(q) /\ db(q)' = db(q) /\ db(q) \in DbNames
    BY DbType DEF slug, db
<1>4. TypeOK'
    BY <1>1 DEF TypeOK, MayEnter
<1>5. MarkerIsTrue' /\ Isolation' /\ RowsAreDistinct' /\ LockGuardsSuspension'
    BY DEF MarkerIsTrue, Isolation, RowsAreDistinct, LockGuardsSuspension
<1>6. RunsKnowTheirRow'
    BY <1>2, <1>3 DEF RunsKnowTheirRow, MayEnter
<1>7. BuildersAreAlone'
    BY <1>2, <1>3 DEF BuildersAreAlone, MayEnter, Building
<1>8. BuiltIsOurs'
    BY <1>2, <1>3 DEF BuiltIsOurs, MayEnter
<1>9. LocksAreHeld'
    BY <1>1, <1>2, <1>3 DEF LocksAreHeld, MayEnter
<1>10. RowsWaitForUs'
    BY <1>2, <1>3 DEF RowsWaitForUs, MayEnter
<1>11. SlugStaysFree'
    BY <1>2, <1>3 DEF SlugStaysFree, MayEnter
<1> QED
    BY <1>4, <1>5, <1>6, <1>7, <1>8, <1>9, <1>10, <1>11

\* Every way to end is open from everywhere.
LEMMA EndKeeps ==
    ASSUME ProvInv, NEW r \in Requests, NEW outcome \in {"idle"} \cup Definitive \cup Retryable,
           pc' = [pc EXCEPT ![r] = outcome],
           lock' = lock \/ Release(r),
           UNCHANGED <<input, registry, nextId, dbs, rowId, lost, suspended>>,
           events' \in 0 .. MaxEvents
    PROVE  ProvInv'
<1>1. MayEnter(r, outcome) /\ outcome \notin Running
    BY DEF MayEnter, PC, Running, Working, Definitive, Retryable
<1> QED
    BY <1>1, MoveKeeps

\* The steps that read, wait, end or are repeated.
LEMMA QuietKeeps ==
    ASSUME ProvInv, NEW r \in Requests,
           findDatabase(r) \/ readMarker(r) \/ applySchema(r) \/ endWait(r) \/ Retry(r) \/ Stop(r)
    PROVE  ProvInv'
<1> USE DEF history, ProvInv
<1>0. events \in 0 .. MaxEvents
    BY DEF TypeOK
<1>1. CASE findDatabase(r)
  <2>1. PICK label \in {"noDb", "hasDb"} : Goto(r, label)
      BY <1>1 DEF findDatabase
  <2>2. MayEnter(r, label)
      BY <1>1 DEF findDatabase, MayEnter, PC, Running, Working
  <2> QED
      BY <1>0, <1>1, <2>1, <2>2, MoveKeeps DEF findDatabase, Goto
<1>2. CASE readMarker(r)
  <2>1. CASE End(r, "failed") \/ End(r, "conflict")
      BY <1>0, <1>2, <2>1, EndKeeps DEF readMarker, End, Definitive, Retryable
  <2>2. CASE dbs[db(r)].marker = rowId[r] /\ Goto(r, "built")
    <3>1. MayEnter(r, "built")
        BY <1>2, <2>2, DbType DEF readMarker, MayEnter, PC, Running, Working, MarkerIsTrue, TypeOK, Ids
    <3> QED
        BY <1>0, <1>2, <2>2, <3>1, MoveKeeps DEF readMarker, Goto
  <2>3. CASE Goto(r, "unmarked")
    <3>1. MayEnter(r, "unmarked")
        BY <1>2 DEF readMarker, MayEnter, PC, Running, Working
    <3> QED
        BY <1>0, <1>2, <2>3, <3>1, MoveKeeps DEF readMarker, Goto
  <2> QED
      BY <1>2, <2>1, <2>2, <2>3 DEF readMarker
<1>3. CASE applySchema(r)
  <2>1. CASE End(r, "conflict")
      BY <1>0, <1>3, <2>1, EndKeeps DEF applySchema, End, Definitive
  <2>2. CASE dbs[db(r)].tables = "empty" /\ Goto(r, IF Building(db(r)) THEN "waiting" ELSE "building")
    <3>1. PICK label \in {"waiting", "building"} :
              Goto(r, label) /\ (label = "building" => ~Building(db(r)))
        BY <2>2
    <3>2. MayEnter(r, label)
        BY <1>3, <2>2, <3>1 DEF applySchema, MayEnter, PC, Running, Working
    <3> QED
        BY <1>0, <1>3, <3>1, <3>2, MoveKeeps DEF applySchema, Goto
  <2> QED
      BY <1>3, <2>1, <2>2 DEF applySchema
<1>4. CASE endWait(r)
  <2>1. CASE End(r, "failed")
      BY <1>0, <1>4, <2>1, EndKeeps DEF endWait, End, Retryable
  <2>2. CASE dbs[db(r)].tables = "empty" /\ Goto(r, "building")
    <3>1. MayEnter(r, "building")
        BY <1>4, <2>2 DEF endWait, MayEnter, PC, Running, Working
    <3> QED
        BY <1>0, <1>4, <2>2, <3>1, MoveKeeps DEF endWait, Goto
  <2> QED
      BY <1>4, <2>1, <2>2 DEF endWait
<1>5. CASE Retry(r)
    BY <1>0, <1>5, EndKeeps DEF Retry, Goto
<1>6. CASE Stop(r)
  <2>1. events' \in 0 .. MaxEvents
      BY <1>0, <1>6 DEF Stop, Event
  <2> QED
      BY <1>6, <2>1, EndKeeps DEF Stop, End, Retryable
<1> QED
    BY <1>1, <1>2, <1>3, <1>4, <1>5, <1>6

-----------------------------------------------------------------------------
(* Steps that change the lock, a row or a database.                        *)

\* A lock is taken only from nobody.
LEMMA LockKeeps == ASSUME ProvInv, NEW r \in Requests, lockProvisioning(r) PROVE ProvInv'
<1> USE DEF ProvInv, lockProvisioning, history
<1>1. CASE Goto(r, "inProgress")
    BY <1>1, EndKeeps DEF Goto, Retryable, TypeOK
<1>2. CASE /\ lock[db(r)] = None
           /\ lock' = [lock EXCEPT ![db(r)] = r]
           /\ pc' = [pc EXCEPT ![r] = "locked"]
  <2>1. /\ pc'[r] = "locked" /\ \A q \in Requests \ {r} : pc'[q] = pc[q]
      BY <1>2 DEF TypeOK
  <2>2. \A q \in Requests : slug(q)' = slug(q) /\ db(q)' = db(q) /\ db(q) \in DbNames
      BY DbType DEF slug, db
  <2>3. lock'[db(r)] = r /\ \A d \in DbNames : lock[d] # None => lock'[d] = lock[d]
      BY <1>2, <2>2 DEF TypeOK
  <2>4. TypeOK'
      BY <1>2, <2>2 DEF TypeOK, PC, Running
  <2>5. MarkerIsTrue' /\ Isolation' /\ RowsAreDistinct' /\ LockGuardsSuspension'
      BY DEF MarkerIsTrue, Isolation, RowsAreDistinct, LockGuardsSuspension
  <2>6. RunsKnowTheirRow' /\ BuildersAreAlone' /\ BuiltIsOurs'
      BY <2>1, <2>2 DEF RunsKnowTheirRow, BuildersAreAlone, BuiltIsOurs, Working
  <2>7. RowsWaitForUs' /\ SlugStaysFree'
      BY <2>1, <2>2 DEF RowsWaitForUs, SlugStaysFree, Working
  <2>8. LocksAreHeld'
      BY <2>1, <2>2, <2>3 DEF LocksAreHeld
  <2> QED
      BY <2>4, <2>5, <2>6, <2>7, <2>8
<1> QED
    BY <1>1, <1>2

\* A row is resumed only if it is unfinished and names the run's database.
LEMMA FindTenantKeeps == ASSUME ProvInv, NEW r \in Requests, findTenant(r) PROVE ProvInv'
<1> USE DEF ProvInv, findTenant, history
<1>1. CASE Goto(r, "unregistered") /\ (\A t \in registry : t.slug # slug(r)) /\ UNCHANGED rowId
  <2>1. MayEnter(r, "unregistered")
      BY <1>1 DEF MayEnter, PC, Running, Working
  <2> QED
      BY <1>1, <2>1, MoveKeeps DEF Goto, TypeOK
<1>2. CASE (End(r, "exists") \/ End(r, "conflict")) /\ UNCHANGED rowId
    BY <1>2, EndKeeps DEF End, Definitive, TypeOK
<1>3. ASSUME NEW t \in registry,
             t.status = "provisioning", t.db = db(r),
             rowId' = [rowId EXCEPT ![r] = t.id],
             Goto(r, "registered")
      PROVE  ProvInv'
  <2>1. /\ pc'[r] = "registered" /\ \A q \in Requests \ {r} : pc'[q] = pc[q]
        /\ rowId'[r] = t.id /\ \A q \in Requests \ {r} : rowId'[q] = rowId[q]
        /\ t.id \in Ids
      BY <1>3 DEF TypeOK, Goto, Tenant
  <2>2. \A q \in Requests : slug(q)' = slug(q) /\ db(q)' = db(q) /\ db(q) \in DbNames
      BY DbType DEF slug, db
  <2>3. TypeOK'
      BY <1>3, <2>1 DEF TypeOK, PC, Running, Goto
  <2>4. MarkerIsTrue' /\ Isolation' /\ RowsAreDistinct' /\ LockGuardsSuspension'
      BY DEF MarkerIsTrue, Isolation, RowsAreDistinct, LockGuardsSuspension
  <2>5. \A u \in registry : u.id = t.id => u = t
      BY DEF RowsAreDistinct
  <2>6. RunsKnowTheirRow'
      BY <1>3, <2>1, <2>2, <2>5 DEF RunsKnowTheirRow, RowsAreDistinct
  <2>7. BuildersAreAlone' /\ BuiltIsOurs'
      BY <2>1, <2>2 DEF BuildersAreAlone, BuiltIsOurs
  <2>8. LocksAreHeld' /\ SlugStaysFree'
      BY <1>3, <2>1, <2>2 DEF LocksAreHeld, SlugStaysFree, Goto, Running
  <2>9. RowsWaitForUs'
      BY <1>3, <2>1, <2>5 DEF RowsWaitForUs, LockGuardsSuspension
  <2> QED
      BY <2>3, <2>4, <2>6, <2>7, <2>8, <2>9
<1> QED
    BY <1>1, <1>2, <1>3

\* A new row has a new id, and under the locks nobody else waits for its slug.
LEMMA CreateTenantKeeps == ASSUME ProvInv, NEW r \in Requests, createTenant(r) PROVE ProvInv'
<1> USE DEF ProvInv, createTenant, history
<1> DEFINE row == [id |-> nextId, slug |-> slug(r), name |-> input[r].name,
                   db |-> db(r), status |-> "provisioning"]
<1>1. CASE End(r, "exists") /\ UNCHANGED <<registry, nextId, rowId>>
    BY <1>1, EndKeeps DEF End, Definitive, TypeOK
<1>2. CASE /\ \A t \in registry : t.slug # slug(r) /\ t.db # db(r)
           /\ registry' = registry \cup {row}
           /\ nextId' = nextId + 1
           /\ rowId' = [rowId EXCEPT ![r] = nextId]
           /\ Goto(r, "registered")
  <2>1. /\ pc'[r] = "registered" /\ \A q \in Requests \ {r} : pc'[q] = pc[q]
        /\ rowId'[r] = nextId /\ \A q \in Requests \ {r} : rowId'[q] = rowId[q]
      BY <1>2 DEF TypeOK, Goto
  <2>2. \A q \in Requests : slug(q)' = slug(q) /\ db(q)' = db(q) /\ db(q) \in DbNames
      BY DbType DEF slug, db
  <2>3. row \in Tenant /\ nextId \in Nat
      BY DbType DEF TypeOK, Tenant, Status, Ids
  <2>4. /\ row.id = nextId /\ row.slug = slug(r) /\ row.db = db(r) /\ row.status = "provisioning"
      OBVIOUS
  <2> HIDE DEF row
  <2>5. TypeOK'
      BY <1>2, <2>3 DEF TypeOK, PC, Running, Goto, Ids
  <2>0. <<nextId, "active">> \notin suspended
      BY <2>3 DEF RowsAreDistinct, TypeOK, Ids
  <2>6. MarkerIsTrue' /\ Isolation'
      BY <1>2, <2>0, <2>4 DEF MarkerIsTrue, Isolation
  <2>7. \A t \in registry : t.id \in Nat /\ t.id < nextId
      BY DEF RowsAreDistinct, TypeOK, Tenant, Ids
  <2>8. RowsAreDistinct'
    <3>1. \A s \in suspended : s[1] \in Nat /\ s[1] < nextId
        BY DEF RowsAreDistinct, TypeOK, Ids
    <3> QED
        BY <1>2, <2>3, <2>4, <2>7, <3>1 DEF RowsAreDistinct
  <2>9. \A q \in Requests \ {r} : pc[q] \in Working => rowId[q] < nextId /\ rowId[q] \in Nat
      BY DEF RunsKnowTheirRow, TypeOK, Ids
  <2>10. RunsKnowTheirRow'
    <3> SUFFICES ASSUME NEW q \in Requests, pc'[q] \in Working
                 PROVE  rowId'[q] < nextId' /\ \A t \in registry' : t.id = rowId'[q] => t.db = db(q)
        BY <2>2 DEF RunsKnowTheirRow
    <3>1. CASE q = r
        BY <1>2, <2>1, <2>3, <2>4, <2>7, <3>1
    <3>2. CASE q # r
        BY <1>2, <2>1, <2>3, <2>4, <2>9, <3>2 DEF RunsKnowTheirRow
    <3> QED
        BY <3>1, <3>2
  <2>11. BuildersAreAlone' /\ BuiltIsOurs'
    <3>1. BuildersAreAlone'
        BY <2>1, <2>2 DEF BuildersAreAlone
    <3>2. BuiltIsOurs'
        BY <1>2, <2>1, <2>2, <2>3, <2>4, <2>9 DEF BuiltIsOurs, Working
    <3> QED
        BY <3>1, <3>2
  <2>12. LocksAreHeld'
      BY <1>2, <2>1, <2>2 DEF LocksAreHeld, Goto, Running
  <2>13. RowsWaitForUs'
    <3> SUFFICES ASSUME lost = {}, NEW q \in Requests, NEW t \in registry',
                        pc'[q] \in Working, t.id = rowId'[q]
                 PROVE  t.status # "active" /\ <<t.id, "active">> \notin suspended
        BY DEF RowsWaitForUs
    <3>1. CASE q = r
        BY <1>2, <2>1, <2>3, <2>4, <2>0, <2>7, <3>1
    <3>2. CASE q # r
        BY <1>2, <2>1, <2>3, <2>4, <2>9, <3>2 DEF RowsWaitForUs
    <3> QED
        BY <3>1, <3>2
  <2>14. SlugStaysFree'
    <3>1. lost = {} => \A q \in Requests \ {r} : pc[q] = "unregistered" => slug(q) # slug(r)
        BY DEF LocksAreHeld, Running, db
    <3> QED
        BY <1>2, <2>1, <2>2, <2>4, <3>1 DEF SlugStaysFree
  <2>15. LockGuardsSuspension'
      BY <1>2, <2>3, <2>4 DEF LockGuardsSuspension, RowsAreDistinct, TypeOK, Ids
  <2> QED
      BY <2>5, <2>6, <2>8, <2>10, <2>11, <2>12, <2>13, <2>14, <2>15
<1> QED
    BY <1>1, <1>2

\* CREATE DATABASE: nobody's tables were there.
LEMMA CreateDatabaseKeeps == ASSUME ProvInv, NEW r \in Requests, createDatabase(r) PROVE ProvInv'
<1> USE DEF ProvInv, createDatabase, history
<1>1. CASE End(r, "failed") /\ UNCHANGED dbs
    BY <1>1, EndKeeps DEF End, Retryable, TypeOK
<1>2. CASE /\ dbs[db(r)] = Absent
           /\ dbs' = [dbs EXCEPT ![db(r)] = Empty]
           /\ Goto(r, "hasDb")
  <2>1. /\ pc'[r] = "hasDb" /\ \A q \in Requests \ {r} : pc'[q] = pc[q]
      BY <1>2 DEF TypeOK, Goto
  <2>2. \A q \in Requests : slug(q)' = slug(q) /\ db(q)' = db(q) /\ db(q) \in DbNames
      BY DbType DEF slug, db
  <2>3. Empty \in Database /\ Empty.marker = None /\ Absent.tables = "absent"
      BY DEF Empty, Absent, Database
  <2>4. dbs'[db(r)] = Empty /\ \A d \in DbNames : dbs[d].tables # "absent" => dbs'[d] = dbs[d]
      BY <1>2, <2>2, <2>3 DEF TypeOK
  <2>5. TypeOK'
      BY <1>2, <2>3 DEF TypeOK, PC, Running, Goto
  <2>6. MarkerIsTrue'
      BY <1>2, <2>2, <2>3 DEF MarkerIsTrue, TypeOK
  <2>7. Isolation'
      BY <2>4 DEF Isolation, TypeOK, Tenant
  <2>8. RowsAreDistinct' /\ LockGuardsSuspension'
      BY DEF RowsAreDistinct, LockGuardsSuspension
  <2>9. RunsKnowTheirRow' /\ RowsWaitForUs' /\ SlugStaysFree'
      BY <2>1, <2>2 DEF RunsKnowTheirRow, RowsWaitForUs, SlugStaysFree, Working
  <2>10. BuildersAreAlone' /\ BuiltIsOurs'
      BY <2>1, <2>2, <2>4 DEF BuildersAreAlone, BuiltIsOurs
  <2>11. LocksAreHeld'
      BY <1>2, <2>1, <2>2 DEF LocksAreHeld, Running, Goto
  <2> QED
      BY <2>5, <2>6, <2>7, <2>8, <2>9, <2>10, <2>11
<1> QED
    BY <1>1, <1>2

\* The build commits: into a database that had no tables.
LEMMA CommitBuildKeeps == ASSUME ProvInv, NEW r \in Requests, commitBuild(r) PROVE ProvInv'
<1> USE DEF ProvInv, commitBuild, history
<1> DEFINE new == [tables |-> "tenant", marker |-> rowId[r], owner |-> rowId[r]]
<1>1. /\ pc'[r] = "built" /\ \A q \in Requests \ {r} : pc'[q] = pc[q]
    BY DEF TypeOK, Goto
<1>2. \A q \in Requests : slug(q)' = slug(q) /\ db(q)' = db(q) /\ db(q) \in DbNames
    BY DbType DEF slug, db
<1>3. /\ new \in Database /\ new.tables = "tenant" /\ new.owner = new.marker
      /\ new.owner = rowId[r]
    BY DEF Database, TypeOK
<1> HIDE DEF new
<1>4. dbs' = [dbs EXCEPT ![db(r)] = new] /\ dbs'[db(r)] = new
    BY <1>2 DEF TypeOK, new
<1>5. dbs[db(r)].tables = "empty"
    BY DEF BuildersAreAlone
<1>6. \A d \in DbNames : dbs[d].tables # "empty" => dbs'[d] = dbs[d]
    BY <1>4, <1>5 DEF TypeOK
<1>7. \A d \in DbNames \ {db(r)} : dbs'[d] = dbs[d]
    BY <1>4 DEF TypeOK
<1>8. TypeOK'
    BY <1>3, <1>4 DEF TypeOK, PC, Running, Goto
<1>9. MarkerIsTrue'
    BY <1>2, <1>3, <1>4, <1>7 DEF MarkerIsTrue
<1>10. Isolation'
    BY <1>6 DEF Isolation, TypeOK, Tenant
<1>11. RowsAreDistinct' /\ LockGuardsSuspension'
    BY DEF RowsAreDistinct, LockGuardsSuspension
<1>12. RunsKnowTheirRow' /\ RowsWaitForUs' /\ SlugStaysFree'
    BY <1>1, <1>2 DEF RunsKnowTheirRow, RowsWaitForUs, SlugStaysFree, Working
<1>13. BuildersAreAlone'
    BY <1>1, <1>2, <1>7 DEF BuildersAreAlone
<1>14. BuiltIsOurs'
    BY <1>1, <1>2, <1>3, <1>4, <1>6 DEF BuiltIsOurs
<1>15. LocksAreHeld'
    BY <1>1, <1>2 DEF LocksAreHeld, Running, Goto
<1> QED
    BY <1>8, <1>9, <1>10, <1>11, <1>12, <1>13, <1>14, <1>15

\* A database is dropped: its row is gone, and nobody is building in it.
LEMMA DropOrphanKeeps == ASSUME ProvInv, NEW d \in DbNames, DropOrphan(d) PROVE ProvInv'
<1> USE DEF ProvInv, DropOrphan, Event
<1>1. \A q \in Requests : slug(q)' = slug(q) /\ db(q)' = db(q) /\ db(q) \in DbNames
    BY DbType DEF slug, db
<1>2. Absent \in Database /\ Absent.marker = None
    BY DEF Absent, Database
<1>3. dbs'[d] = Absent /\ \A e \in DbNames \ {d} : dbs'[e] = dbs[e]
    BY DEF TypeOK
<1>4. TypeOK'
    BY <1>2 DEF TypeOK
<1>5. MarkerIsTrue'
    BY <1>2, <1>3 DEF MarkerIsTrue
<1>6. Isolation'
    BY <1>3 DEF Isolation, TypeOK, Tenant
<1>7. RowsAreDistinct' /\ LockGuardsSuspension'
    BY DEF RowsAreDistinct, LockGuardsSuspension
<1>8. RunsKnowTheirRow' /\ RowsWaitForUs' /\ SlugStaysFree' /\ LocksAreHeld'
    BY <1>1 DEF RunsKnowTheirRow, RowsWaitForUs, SlugStaysFree, LocksAreHeld
<1>9. BuildersAreAlone' /\ BuiltIsOurs'
    BY <1>1, <1>3 DEF BuildersAreAlone, BuiltIsOurs
<1> QED
    BY <1>4, <1>5, <1>6, <1>7, <1>8, <1>9

\* The registry after one row got another status.
LEMMA StatusChange ==
    ASSUME TypeOK, RowsAreDistinct, NEW t \in registry, NEW s \in Status,
           registry' = (registry \ {t}) \cup {[t EXCEPT !.status = s]}
    PROVE  /\ registry' \subseteq Tenant
           /\ \A u \in registry' : \E v \in registry :
                 /\ u.id = v.id /\ u.slug = v.slug /\ u.db = v.db
                 /\ v.id # t.id => u = v
                 /\ v.id = t.id => u.status = s
           /\ \A u, v \in registry' : u.id = v.id \/ u.slug = v.slug \/ u.db = v.db => u = v
<1> DEFINE n == [t EXCEPT !.status = s]
<1>1. /\ n \in Tenant /\ n.id = t.id /\ n.slug = t.slug /\ n.db = t.db /\ n.status = s
    BY DEF TypeOK, Tenant
<1> HIDE DEF n
<1>2. registry' = (registry \ {t}) \cup {n}
    BY DEF n
<1>3. \A u \in registry \ {t} : u.id # t.id /\ u.slug # t.slug /\ u.db # t.db
    BY DEF RowsAreDistinct
<1>4. registry' \subseteq Tenant
    BY <1>1, <1>2 DEF TypeOK
<1>5. ASSUME NEW u \in registry'
      PROVE  \E v \in registry :
                 /\ u.id = v.id /\ u.slug = v.slug /\ u.db = v.db
                 /\ v.id # t.id => u = v
                 /\ v.id = t.id => u.status = s
    BY <1>1, <1>2, <1>3
<1>6. \A u, v \in registry' : u.id = v.id \/ u.slug = v.slug \/ u.db = v.db => u = v
    BY <1>1, <1>2, <1>3 DEF RowsAreDistinct
<1> QED
    BY <1>4, <1>5, <1>6

\* activate: what the run built is its row's; nobody else works for that row.
LEMMA ActivateKeeps ==
    ASSUME ProvInv, NEW r \in Requests, activate(r) \/ LoseAnswer(r) PROVE ProvInv'
<1> USE DEF ProvInv, history
<1>0. /\ pc[r] = "built"
      /\ UNCHANGED <<input, nextId, dbs, rowId, lost, suspended>>
      /\ events' \in 0 .. MaxEvents
    BY DEF activate, LoseAnswer, Event, TypeOK
<1>1. CASE End(r, "failed") /\ UNCHANGED registry
    BY <1>0, <1>1, EndKeeps DEF End, Retryable
<1>2. ASSUME NEW t \in registry, t.id = rowId[r], setActive(t),
             NEW outcome \in {"ok", "failed"}, End(r, outcome)
      PROVE  ProvInv'
  <2> USE <1>0 DEF setActive
  <2>1. /\ pc'[r] = outcome /\ \A q \in Requests \ {r} : pc'[q] = pc[q]
      BY <1>2 DEF TypeOK, End
  <2>2. \A q \in Requests : slug(q)' = slug(q) /\ db(q)' = db(q) /\ db(q) \in DbNames
      BY DbType DEF slug, db
  <2>3. /\ registry' \subseteq Tenant
        /\ \A u, v \in registry' : u.id = v.id \/ u.slug = v.slug \/ u.db = v.db => u = v
        /\ \A u \in registry' : \E v \in registry :
              /\ u.id = v.id /\ u.slug = v.slug /\ u.db = v.db
              /\ v.id # t.id => u = v
              /\ v.id = t.id => u.status = "active"
      BY <1>2, StatusChange DEF Status
  <2>4. pc[r] = "built" /\ t.db = db(r) /\ dbs[t.db].tables = "tenant" /\ dbs[t.db].owner = t.id
      BY <1>2 DEF RunsKnowTheirRow, BuiltIsOurs, Working
  <2>5. /\ lock' \in [DbNames -> Requests \cup {None}]
        /\ \A d \in DbNames, q \in Requests \ {r} : lock[d] = q => lock'[d] = q
      BY <1>2, ReleaseEffect DEF End
  <2>6. TypeOK'
      BY <1>2, <2>3, <2>5 DEF TypeOK, PC, Definitive, Retryable, End
  <2>7. Isolation'
    <3>1. \A u \in registry : u.id = t.id => u = t
        BY DEF RowsAreDistinct
    <3> QED
        BY <2>3, <2>4, <3>1 DEF Isolation
  <2>8. MarkerIsTrue'
      BY DEF MarkerIsTrue
  <2>9. RowsAreDistinct'
      BY <2>3 DEF RowsAreDistinct
  <2>10. RunsKnowTheirRow' /\ SlugStaysFree'
      BY <2>1, <2>2, <2>3 DEF RunsKnowTheirRow, SlugStaysFree, Working
  <2>11. BuildersAreAlone' /\ BuiltIsOurs'
      BY <2>1, <2>2, <2>3 DEF BuildersAreAlone, BuiltIsOurs
  <2>12. LocksAreHeld'
      BY <2>1, <2>2, <2>5 DEF LocksAreHeld, Running
  <2>13. RowsWaitForUs'
    <3> SUFFICES ASSUME lost = {}, NEW q \in Requests, NEW u \in registry',
                        pc'[q] \in Working, u.id = rowId[q]
                 PROVE  u.status # "active" /\ <<u.id, "active">> \notin suspended
        BY DEF RowsWaitForUs
    <3>1. q # r /\ pc[q] \in Working
        BY <2>1 DEF Working
    <3>2. rowId[q] # t.id
        BY <1>2, <2>4, <3>1 DEF RunsKnowTheirRow, LocksAreHeld, Working, Running
    <3> QED
        BY <2>3, <3>1, <3>2 DEF RowsWaitForUs
  <2>14. LockGuardsSuspension'
    <3>1. lost = {} => <<t.id, "active">> \notin suspended
        BY <1>2, <2>4 DEF RowsWaitForUs, Working
    <3> QED
        BY <2>3, <3>1 DEF LockGuardsSuspension
  <2> QED
      BY <2>6, <2>7, <2>8, <2>9, <2>10, <2>11, <2>12, <2>13, <2>14
<1> QED
    BY <1>1, <1>2 DEF activate, LoseAnswer

\* A lock is lost: from here on nothing is claimed of the locks.
LEMMA LoseLockKeeps == ASSUME ProvInv, NEW r \in Requests, LoseLock(r) PROVE ProvInv'
<1> USE DEF ProvInv, LoseLock, Event
<1>1. \A q \in Requests : slug(q)' = slug(q) /\ db(q)' = db(q)
    BY DEF slug, db
<1>2. lost' # {} /\ lost' \subseteq Requests
    BY DEF TypeOK
<1>3. TypeOK'
    BY <1>2, ReleaseEffect DEF TypeOK
<1>4. MarkerIsTrue' /\ Isolation' /\ RowsAreDistinct'
    BY DEF MarkerIsTrue, Isolation, RowsAreDistinct
<1>5. RunsKnowTheirRow' /\ BuildersAreAlone' /\ BuiltIsOurs'
    BY <1>1 DEF RunsKnowTheirRow, BuildersAreAlone, BuiltIsOurs
<1>6. LocksAreHeld' /\ RowsWaitForUs' /\ SlugStaysFree' /\ LockGuardsSuspension'
    BY <1>2 DEF LocksAreHeld, RowsWaitForUs, SlugStaysFree, LockGuardsSuspension
<1> QED
    BY <1>3, <1>4, <1>5, <1>6

\* An operator suspends a tenant: under the locks no run works for one that was active.
LEMMA SuspendKeeps == ASSUME ProvInv, NEW t \in registry, SuspendTenant(t) PROVE ProvInv'
<1> USE DEF ProvInv, SuspendTenant, Event
<1>1. \A q \in Requests : slug(q)' = slug(q) /\ db(q)' = db(q)
    BY DEF slug, db
<1>2. /\ registry' \subseteq Tenant
      /\ \A u, v \in registry' : u.id = v.id \/ u.slug = v.slug \/ u.db = v.db => u = v
      /\ \A u \in registry' : \E v \in registry :
            /\ u.id = v.id /\ u.slug = v.slug /\ u.db = v.db
            /\ v.id # t.id => u = v
            /\ v.id = t.id => u.status = "suspended"
    BY StatusChange DEF Status
<1>3. t.id \in Nat /\ t.id < nextId /\ \A u \in registry : u.id = t.id => u = t
    BY DEF RowsAreDistinct, TypeOK, Tenant, Ids
<1>4. TypeOK'
  <2>1. t.status \in {"provisioning", "active"}
      BY DEF TypeOK, Tenant, Status
  <2> QED
      BY <1>2, <1>3, <2>1 DEF TypeOK, Ids
<1>5. MarkerIsTrue' /\ Isolation'
    BY <1>2, <1>3 DEF MarkerIsTrue, Isolation
<1>6. RowsAreDistinct'
    BY <1>2, <1>3 DEF RowsAreDistinct
<1>7. RunsKnowTheirRow' /\ BuildersAreAlone' /\ BuiltIsOurs'
    BY <1>1, <1>2 DEF RunsKnowTheirRow, BuildersAreAlone, BuiltIsOurs
<1>8. LocksAreHeld' /\ SlugStaysFree'
    BY <1>1, <1>2 DEF LocksAreHeld, SlugStaysFree
<1>9. RowsWaitForUs'
    BY <1>2, <1>3 DEF RowsWaitForUs
<1>10. LockGuardsSuspension'
    BY <1>2 DEF LockGuardsSuspension
<1> QED
    BY <1>4, <1>5, <1>6, <1>7, <1>8, <1>9, <1>10

\* A row is deleted under whoever works for it.
LEMMA DeleteKeeps == ASSUME ProvInv, NEW t \in registry, DeleteTenant(t) PROVE ProvInv'
<1> USE DEF ProvInv, DeleteTenant, Event
<1>1. \A q \in Requests : slug(q)' = slug(q) /\ db(q)' = db(q)
    BY DEF slug, db
<1>2. registry' \subseteq registry
    OBVIOUS
<1>3. TypeOK'
    BY <1>2 DEF TypeOK
<1>4. MarkerIsTrue' /\ Isolation' /\ RowsAreDistinct' /\ LockGuardsSuspension'
    BY <1>2 DEF MarkerIsTrue, Isolation, RowsAreDistinct, LockGuardsSuspension
<1>5. RunsKnowTheirRow' /\ BuildersAreAlone' /\ BuiltIsOurs'
    BY <1>1, <1>2 DEF RunsKnowTheirRow, BuildersAreAlone, BuiltIsOurs
<1>6. LocksAreHeld' /\ SlugStaysFree' /\ RowsWaitForUs'
    BY <1>1, <1>2 DEF LocksAreHeld, SlugStaysFree, RowsWaitForUs
<1> QED
    BY <1>3, <1>4, <1>5, <1>6

\* The inductive step, one case per action.
LEMMA ProvNext == ProvInv /\ [Next]_vars => ProvInv'
<1> SUFFICES ASSUME ProvInv, [Next]_vars PROVE ProvInv'
    OBVIOUS
<1>1. ASSUME NEW r \in Requests, Step(r) PROVE ProvInv'
    BY <1>1, QuietKeeps, LockKeeps, FindTenantKeeps, CreateTenantKeeps, CreateDatabaseKeeps,
       CommitBuildKeeps, ActivateKeeps DEF Step
<1>2. CASE Environment
    BY <1>2, QuietKeeps, ActivateKeeps, LoseLockKeeps, SuspendKeeps, DeleteKeeps, DropOrphanKeeps DEF Environment
<1>3. CASE UNCHANGED vars
  <2>1. TypeOK' /\ MarkerIsTrue' /\ Isolation' /\ RowsAreDistinct' /\ LockGuardsSuspension'
      BY <1>3 DEF ProvInv, vars, TypeOK, MarkerIsTrue, Isolation, RowsAreDistinct,
                  LockGuardsSuspension
  <2>2. RunsKnowTheirRow' /\ BuildersAreAlone' /\ BuiltIsOurs'
      BY <1>3 DEF ProvInv, vars, RunsKnowTheirRow, BuildersAreAlone, BuiltIsOurs, db, slug
  <2>3. LocksAreHeld' /\ RowsWaitForUs' /\ SlugStaysFree'
      BY <1>3 DEF ProvInv, vars, LocksAreHeld, RowsWaitForUs, SlugStaysFree, db, slug
  <2> QED
      BY <2>1, <2>2, <2>3 DEF ProvInv
<1> QED
    BY <1>1, <1>2, <1>3 DEF Next

-----------------------------------------------------------------------------
(* The theorems.                                                           *)

\* Every reachable state satisfies the inductive invariant.
THEOREM ProvisioningInvariant == Spec => []ProvInv
    BY ProvInit, ProvNext, PTL DEF Spec

\* Every variable keeps its type.
THEOREM ProvisioningTypes == Spec => []TypeOK
<1>1. ProvInv => TypeOK
    BY DEF ProvInv
<1> QED
    BY <1>1, ProvisioningInvariant, PTL

\* No tenant is ever served from a database that was built for another row: not by
\* runs without their lock, over rows deleted under them, or in a database that
\* was left behind.
THEOREM TenantsAreIsolated == Spec => []Isolation
<1>1. ProvInv => Isolation
    BY DEF ProvInv
<1> QED
    BY <1>1, ProvisioningInvariant, PTL

\* A marker is written only together with everything it stands for.
THEOREM MarkersAreTrue == Spec => []MarkerIsTrue
<1>1. ProvInv => MarkerIsTrue
    BY DEF ProvInv
<1> QED
    BY <1>1, ProvisioningInvariant, PTL

\* The session lock is what keeps a run from activating a tenant again that was
\* suspended after it had been active. It does not keep a run from activating the
\* tenant it works for: SuspensionHolds is refuted.
THEOREM SuspensionNeedsOnlyTheLock == Spec => []LockGuardsSuspension
<1>1. ProvInv => LockGuardsSuspension
    BY DEF ProvInv
<1> QED
    BY <1>1, ProvisioningInvariant, PTL

\* Tables are never built over tables: a database that has them keeps them, marker
\* and all, until it is dropped.
THEOREM TablesAreKept == Spec => NothingAdopted
<1>1. ASSUME ProvInv, [Next]_vars, NEW d \in DbNames, dbs[d].tables = "tenant"
      PROVE  dbs'[d] \in {dbs[d], Absent}
  <2>1. ASSUME NEW r \in Requests, createDatabase(r) PROVE dbs'[d] = dbs[d]
      BY <1>1, <2>1 DEF createDatabase, ProvInv, TypeOK, Absent
  <2>2. ASSUME NEW r \in Requests, commitBuild(r) PROVE dbs'[d] = dbs[d]
      BY <1>1, <2>2 DEF commitBuild, ProvInv, TypeOK, BuildersAreAlone
  <2>3. ASSUME NEW e \in DbNames, DropOrphan(e) PROVE dbs'[d] \in {dbs[d], Absent}
      BY <1>1, <2>3 DEF DropOrphan, ProvInv, TypeOK
  <2>4. CASE UNCHANGED dbs
      BY <2>4
  <2> QED
      BY <1>1, <2>1, <2>2, <2>3, <2>4
      DEF Next, Step, Environment, vars, lockProvisioning, findTenant, createTenant,
          findDatabase, readMarker, applySchema, endWait, activate, Retry, Stop, LoseAnswer,
          LoseLock, SuspendTenant, DeleteTenant
<1>2. ASSUME ProvInv, [Next]_vars
      PROVE  \A d \in DbNames : dbs[d].tables = "tenant" => dbs'[d] \in {dbs[d], Absent}
    BY <1>1, <1>2
<1> QED
    BY <1>2, ProvisioningInvariant, PTL DEF Spec, NothingAdopted

\* No two slugs share a database name, which holds of tenantDatabaseName over the
\* slugs that ProvisionTenantDto lets through (letters, digits and hyphens), and no
\* row from before has another slug's.
OwnNames ==
    /\ \A s, u \in Slugs : DbOf[s] = DbOf[u] => s = u
    /\ \A t \in LegacyRows, s \in Slugs : t.db = DbOf[s] => t.slug = s

\* Then a row that has a slug's database has the slug.
DbsAreOwn == \A t \in registry, s \in Slugs : t.db = DbOf[s] => t.slug = s

\* As long as no run loses its lock, only a finished tenant or another name makes a
\* request end as taken: no retry runs into the row its own first try left behind.
THEOREM ConflictsAreReal == ASSUME OwnNames PROVE Spec => ConflictOnlyWhenTaken
<1>1. Init => DbsAreOwn
    BY DEF Init, DbsAreOwn, OwnNames
<1>2. ASSUME ProvInv, DbsAreOwn, [Next]_vars PROVE DbsAreOwn'
  <2>1. ASSUME NEW r \in Requests, createTenant(r) PROVE DbsAreOwn'
      BY <1>2, <2>1, DbType DEF createTenant, DbsAreOwn, OwnNames, db, ProvInv
  <2>2. ASSUME NEW t \in registry, NEW s \in Status,
               registry' = (registry \ {t}) \cup {[t EXCEPT !.status = s]}
        PROVE  DbsAreOwn'
    <3>1. \A u \in registry' : \E v \in registry : u.slug = v.slug /\ u.db = v.db
        BY <1>2, <2>2, StatusChange DEF ProvInv
    <3> QED
        BY <1>2, <3>1 DEF DbsAreOwn
  <2>3. ASSUME NEW r \in Requests, activate(r) \/ LoseAnswer(r) PROVE DbsAreOwn'
      BY <1>2, <2>2, <2>3 DEF activate, LoseAnswer, setActive, Status, DbsAreOwn
  <2>4. ASSUME NEW t \in registry, SuspendTenant(t) PROVE DbsAreOwn'
      BY <2>2, <2>4 DEF SuspendTenant, Status
  <2>5. CASE registry' \subseteq registry
      BY <1>2, <2>5 DEF DbsAreOwn
  <2>6. ASSUME NEW t \in registry, DeleteTenant(t) PROVE registry' \subseteq registry
      BY <2>6 DEF DeleteTenant
  <2> QED
      BY <1>2, <2>1, <2>3, <2>4, <2>5, <2>6
      DEF Next, Step, Environment, vars, lockProvisioning, findTenant, findDatabase,
          createDatabase, readMarker, applySchema, endWait, commitBuild, Retry, Stop, LoseLock,
          DropOrphan
<1>3. ASSUME ProvInv, DbsAreOwn, [Next]_vars, NEW r \in Requests,
             pc[r] # "exists", pc'[r] = "exists", lost = {}
      PROVE  \E t \in registry : t.slug = slug(r) /\ (t.status # "provisioning" \/ t.name # input[r].name)
  <2>1. \A q \in Requests : \A label : pc' = [pc EXCEPT ![q] = label] => q = r /\ label = "exists"
      BY <1>3 DEF ProvInv, TypeOK
  <2>2. CASE findTenant(r)
      BY <2>1, <2>2 DEF findTenant, End, Goto
  <2>3. CASE createTenant(r)
    <3>1. pc[r] = "unregistered" /\ \E t \in registry : t.slug = slug(r) \/ t.db = db(r)
        BY <2>1, <2>3 DEF createTenant, End, Goto
    <3>2. \E t \in registry : t.slug = slug(r)
        BY <1>3, <3>1, DbType DEF DbsAreOwn, db, ProvInv
    <3> QED
        BY <1>3, <3>1, <3>2 DEF ProvInv, SlugStaysFree
  <2>4. ASSUME NEW q \in Requests, Step(q) \/ Stop(q) \/ LoseAnswer(q) PROVE findTenant(r) \/ createTenant(r)
      BY <2>1, <2>4 DEF Step, lockProvisioning, findTenant, createTenant, findDatabase,
                        createDatabase, readMarker, applySchema, endWait, commitBuild, activate,
                        Retry, Stop, LoseAnswer, End, Goto
  <2>5. CASE UNCHANGED pc
      BY <1>3, <2>5
  <2> QED
      BY <1>3, <2>2, <2>3, <2>4, <2>5
      DEF Next, Environment, vars, LoseLock, SuspendTenant, DeleteTenant, DropOrphan
<1>4. ASSUME ProvInv, DbsAreOwn, [Next]_vars
      PROVE  \A r \in Requests :
                pc[r] # "exists" /\ pc'[r] = "exists" /\ lost = {} =>
                    \E t \in registry : /\ t.slug = slug(r)
                                        /\ t.status # "provisioning" \/ t.name # input[r].name
    BY <1>3, <1>4
<1> QED
    BY <1>1, <1>2, <1>4, ProvisioningInvariant, PTL DEF Spec, ConflictOnlyWhenTaken
=============================================================================
