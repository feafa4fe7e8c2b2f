---------------------------- MODULE KeyLifecycle ----------------------------
(***************************************************************************)
(* The config_keys registry of one purpose and the operator commands that  *)
(* change it (manage-keys.ts), run by several operators at once.           *)
(*                                                                         *)
(* A command is one pass of init or rotate over a purpose, or one revoke.  *)
(* Every query is an action. activate is one READ COMMITTED transaction:   *)
(* its writes are kept apart until COMMIT, hold their rows' locks, and are *)
(* checked against the partial unique index and the CHECK constraints of   *)
(* the config_keys migration statement by statement.                       *)
(***************************************************************************)
EXTENDS Naturals, FiniteSets

CONSTANTS
    Commands,     \* invocations of the CLI
    MaxKeys,      \* bound on the keys ever created
    None,
    Overlap,      \* overlapSeconds(): access-token TTL plus clock tolerance
    MaxClock      \* bound on the clock

VARIABLES
    keys,         \* committed rows of config_keys, by kid
    writes,       \* each command: rows its open transaction has written, or None
    clock,
    kind,         \* which command it is; fixed
    pc,
    kid,          \* each command: the key it created, or was asked to revoke
    current,      \* each command: the active key that activate found
    notAfter      \* each command: the end of the overlap, computed up front

vars == <<keys, writes, clock, kind, pc, kid, current, notAfter>>
local == <<kind, kid, current, notAfter>>

\* Kids are random; they are numbered here in the order of their creation.
Kids   == 1 .. MaxKeys
States == {"absent", "pending", "active", "retiring", "revoked"}
Key    == [state : States, material : BOOLEAN, notAfter : Nat \cup {None}]
NoKey  == [state |-> "absent", material |-> FALSE, notAfter |-> None]

ASSUME KeyAssumption ==
    /\ MaxKeys \in Nat \ {0}
    /\ None \notin Nat \cup Key
    /\ Overlap \in Nat \ {0}
    /\ MaxClock \in Nat

Ended  == {"done", "leftAlone", "refused", "failed"}
InTxn  == {"looking", "found", "retired", "activated"}
PC     == {"idle", "create", "created", "revoking"} \cup InTxn \cup Ended

TypeOK ==
    /\ keys \in [Kids -> Key]
    /\ writes \in [Commands -> [Kids -> Key \cup {None}]]
    /\ clock \in 0 .. MaxClock
    /\ kind \in [Commands -> {"init", "rotate", "revoke"}]
    /\ pc \in [Commands -> PC]
    /\ kid \in [Commands -> Kids \cup {None}]
    /\ current \in [Commands -> Kids \cup {None}]
    /\ notAfter \in [Commands -> Nat]

\* The key of a deployment on which init has been run.
FirstKey == [state |-> "active", material |-> TRUE, notAfter |-> None]

Nothing == [k \in Kids |-> None]

Init ==
    /\ \/ keys = [k \in Kids |-> NoKey]
       \/ keys = [k \in Kids |-> IF k = 1 THEN FirstKey ELSE NoKey]
    /\ writes = [c \in Commands |-> Nothing]
    /\ clock = 0
    /\ kind \in [Commands -> {"init", "rotate", "revoke"}]
    /\ pc = [c \in Commands |-> "idle"]
    /\ kid = [c \in Commands |-> None]
    /\ current = [c \in Commands |-> None]
    /\ notAfter = [c \in Commands |-> 0]

-----------------------------------------------------------------------------
(* The table and its constraints.                                          *)

Active == {k \in Kids : keys[k].state = "active"}

\* Mutation: no CHECK pairs a key's state with its material.
WithoutMaterialCheck(row) == row.state = "retiring" => row.notAfter # None

\* config_keys_material_ck and config_keys_retiring_not_after_ck.
Allowed(row) ==
    /\ row.material <=> row.state # "revoked"
    /\ row.state = "retiring" => row.notAfter # None

\* A row written by another open transaction is locked.
Locked(c, k) == \E d \in Commands \ {c} : writes[d][k] # None

\* Another open transaction has put a row into, or taken one out of, the partial
\* index: whoever activates a key waits for its outcome.
IndexBusy(c) ==
    \E d \in Commands \ {c}, k \in Kids :
        /\ writes[d][k] # None
        /\ "active" \in {writes[d][k].state, keys[k].state}
        /\ writes[d][k].state # keys[k].state

\* config_keys_one_active_per_purpose, as c sees it: another row is active.
IndexTaken(c) == \E k \in Active \ {kid[c]} : writes[c][k] = None

Goto(c, label) == pc' = [pc EXCEPT ![c] = label]
Write(c, k, row) == writes' = [writes EXCEPT ![c][k] = row]

\* Mutation: a failed transaction is left open, with its locks.
LeftOpen(c) == UNCHANGED writes

\* The transaction ends, whichever way: its row locks go.
Rollback(c) == writes' = [writes EXCEPT ![c] = Nothing]

Fail(c) == Goto(c, "failed") /\ Rollback(c)

-----------------------------------------------------------------------------
(* init and rotate.                                                        *)

\* init leaves a purpose alone that has an active key; rotate never looks.
Begin(c) ==
    /\ pc[c] = "idle"
    /\ kind[c] # "revoke"
    /\ Goto(c, IF kind[c] = "init" /\ Active # {} THEN "leftAlone" ELSE "create")
    /\ UNCHANGED <<keys, writes, clock, local>>

\* A new key, wrapped and inserted in its own statement.
createPending(c) ==
    /\ pc[c] = "create"
    /\ \E k \in Kids :
          /\ keys[k] = NoKey /\ \A j \in 1 .. k - 1 : keys[j] # NoKey
          /\ keys' = [keys EXCEPT ![k] = [state |-> "pending", material |-> TRUE, notAfter |-> None]]
          /\ kid' = [kid EXCEPT ![c] = k]
    /\ Goto(c, "created")
    /\ UNCHANGED <<writes, clock, kind, current, notAfter>>

\* Mutation: an unparsable lifetime gives no date at all.
OverlapNotANumber(c) ==
    /\ pc[c] = "created"
    /\ notAfter' = [notAfter EXCEPT ![c] = None]
    /\ Goto(c, "looking")
    /\ UNCHANGED <<keys, writes, clock, kind, kid, current>>

\* activate computes the end of the overlap before it opens its transaction.
BeginActivate(c) ==
    /\ pc[c] = "created"
    /\ notAfter' = [notAfter EXCEPT ![c] = clock + Overlap]
    /\ Goto(c, "looking")
    /\ UNCHANGED <<keys, writes, clock, kind, kid, current>>

\* findFirst active: a plain read, so what it finds may be retired by the time
\* the next statement runs.
FindActive(c) ==
    /\ pc[c] = "looking"
    /\ \/ \E k \in Active : current' = [current EXCEPT ![c] = k]
       \/ Active = {} /\ UNCHANGED current
    /\ Goto(c, "found")
    /\ UNCHANGED <<keys, writes, clock, kind, kid, notAfter>>

Retired(c) == [keys[current[c]] EXCEPT !.state = "retiring", !.notAfter = notAfter[c]]

\* Mutation: the old key is retired outside the transaction.
RetireAtOnce(c) ==
    /\ pc[c] = "found"
    /\ current[c] # None
    /\ ~Locked(c, current[c])
    /\ keys' = [keys EXCEPT ![current[c]] = Retired(c)]
    /\ Goto(c, "retired")
    /\ UNCHANGED <<writes, clock, local>>

\* UPDATE current by kid: it waits for the row, then writes over whatever state
\* the row has got by then.
RetireCurrent(c) ==
    /\ pc[c] = "found"
    /\ current[c] # None
    /\ ~Locked(c, current[c])
    /\ \/ /\ Allowed(Retired(c))
          /\ Write(c, current[c], Retired(c))
          /\ Goto(c, "retired")
       \/ /\ ~Allowed(Retired(c))
          /\ Fail(c)
    /\ UNCHANGED <<keys, clock, local>>

Activated(c) == [keys[kid[c]] EXCEPT !.state = "active"]

\* Mutation: no partial unique index.
ActivateUnindexed(c) ==
    /\ pc[c] = "retired" \/ (pc[c] = "found" /\ current[c] = None)
    /\ ~Locked(c, kid[c])
    /\ \/ /\ Allowed(Activated(c))
          /\ Write(c, kid[c], Activated(c))
          /\ Goto(c, "activated")
       \/ /\ ~Allowed(Activated(c))
          /\ Fail(c)
    /\ UNCHANGED <<keys, clock, local>>

\* UPDATE the new key by kid: the index decides, and the CHECKs.
ActivateNew(c) ==
    /\ pc[c] = "retired" \/ (pc[c] = "found" /\ current[c] = None)
    /\ ~Locked(c, kid[c])
    /\ ~IndexBusy(c)
    /\ \/ /\ Allowed(Activated(c)) /\ ~IndexTaken(c)
          /\ Write(c, kid[c], Activated(c))
          /\ Goto(c, "activated")
       \/ /\ ~Allowed(Activated(c)) \/ IndexTaken(c)
          /\ Fail(c)
    /\ UNCHANGED <<keys, clock, local>>

\* COMMIT: retired and activated together.
CommitActivate(c) ==
    /\ pc[c] = "activated"
    /\ keys' = [k \in Kids |-> IF writes[c][k] # None THEN writes[c][k] ELSE keys[k]]
    /\ Rollback(c)
    /\ Goto(c, "done")
    /\ UNCHANGED <<clock, local>>

-----------------------------------------------------------------------------
(* revoke, and faults.                                                     *)

\* findUnique, and the decision taken on the state it returns.
ReadForRevoke(c) ==
    /\ pc[c] = "idle"
    /\ kind[c] = "revoke"
    /\ \E k \in Kids :
          /\ keys[k] # NoKey
          /\ kid' = [kid EXCEPT ![c] = k]
          /\ Goto(c, CASE keys[k].state = "revoked" -> "leftAlone"
                       [] keys[k].state = "active" -> "refused"
                       [] OTHER -> "revoking")
    /\ UNCHANGED <<keys, writes, clock, kind, current, notAfter>>

\* UPDATE by kid: state and material, whatever the state is by now.
revoke(c) ==
    /\ pc[c] = "revoking"
    /\ ~Locked(c, kid[c])
    /\ keys' = [keys EXCEPT ![kid[c]].state = "revoked", ![kid[c]].material = FALSE]
    /\ Goto(c, "done")
    /\ UNCHANGED <<writes, clock, local>>

\* A query fails or the process dies: an open transaction is rolled back.
Stop(c) ==
    /\ pc[c] \notin Ended
    /\ Fail(c)
    /\ UNCHANGED <<keys, clock, local>>

Tick ==
    /\ clock < MaxClock
    /\ clock' = clock + 1
    /\ UNCHANGED <<keys, writes, local, pc>>

Step(c) ==
    \/ Begin(c) \/ createPending(c) \/ BeginActivate(c) \/ FindActive(c)
    \/ RetireCurrent(c) \/ ActivateNew(c) \/ CommitActivate(c)
    \/ ReadForRevoke(c) \/ revoke(c)

Next == (\E c \in Commands : Step(c) \/ Stop(c)) \/ Tick

Spec == Init /\ [][Next]_vars

\* A query that can be answered is answered; a lock wait ends with its holder.
FairSpec == Spec /\ \A c \in Commands : WF_vars(Step(c))

-----------------------------------------------------------------------------
(* Properties.                                                             *)

\* The partial unique index holds between any two operators in one maintenance
\* window, and every row satisfies its CHECKs.
OneActive ==
    /\ \A j, k \in Active : j = k
    /\ \A k \in Kids : keys[k] # NoKey => Allowed(keys[k])

\* Whatever is retired has a successor: no rotation that fails, crashes or loses
\* to another one leaves the deployment without an active key.
NoRotationGap ==
    [][Active # {} /\ Active' = {} => \E c \in Commands : pc[c] = "revoking" /\ pc'[c] = "done"]_vars

\* A revoked key never comes back: not even when a rotation that found it active
\* writes it again, after another operator retired and revoked it.
RevokedIsFinal ==
    [][\A k \in Kids : keys[k].state = "revoked" => keys'[k] = keys[k]]_vars

\* While there is an active key, the end of an overlap is never moved: a rotation
\* that lost the race to retire a key does not retire it a second time.
OverlapIsFixed ==
    [][Active # {} => \A k \in Kids :
          keys[k].state = "retiring" => \/ keys'[k] = keys[k]
                                        \/ keys'[k].state = "revoked"]_vars

\* No command waits for ever: locks and index waits end, whoever fails.
CommandsEnd == \A c \in Commands : pc[c] = "looking" ~> pc[c] \in Ended

\* The service can issue tokens: whenever a key is being retired, its successor is
\* active. docs/key-management.md has it that revoking the active key is refused.
SuccessorIsActive ==
    (\E k \in Kids : keys[k].state = "retiring") => Active # {}

=============================================================================
