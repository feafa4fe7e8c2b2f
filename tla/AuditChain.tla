----------------------------- MODULE AuditChain -----------------------------
(***************************************************************************)
(* The hash-chained audit log of one database (the master database or one  *)
(* tenant's): appendAuditEvent run by any number of processes at once, the *)
(* audit_events table with its constraints, and the fail-open AuditService *)
(* on top. AuditVerifier adds the chain verifier that reads beside them.   *)
(*                                                                         *)
(* A call is one invocation of AuditService.append. Each statement of its  *)
(* transaction is one action, because PostgreSQL (READ COMMITTED) runs     *)
(* other transactions between any two of them. A hash is modelled as the   *)
(* history it commits to: SHA-256 is taken to be collision free, so a hash *)
(* determines its event, its timestamp and the hash before it.             *)
(***************************************************************************)
EXTENDS Naturals, Sequences, FiniteSets

CONSTANTS
    Calls,        \* invocations of AuditService.append, in any process
    Bypassers,    \* calls on a code path that does not take the advisory lock
    Events,       \* audit events, timestamp apart
    EventOf,      \* the event each call carries; two calls may carry equal ones
    None,         \* "no holder" of the advisory lock
    MaxClock      \* bound on the database clock

ASSUME CallsAssumption  == /\ Bypassers \subseteq Calls
                           /\ EventOf \in [Calls -> Events]
                           /\ None \notin Calls
ASSUME ClockAssumption  == MaxClock \in Nat

VARIABLES
    rows,         \* committed rows of audit_events
    nextSeq,      \* next value of the BIGSERIAL behind seq; never rolled back
    lock,         \* holder of pg_advisory_xact_lock(AUDIT_CHAIN_LOCK_KEY)
    clock,        \* the database clock, in the milliseconds toISOString keeps
    pc,           \* where each call is
    now_at,       \* each call: now(), the start time of its transaction
    prevHash,     \* each call: the head it read
    seq,          \* each call: the sequence value its INSERT drew
    error         \* each call: why appendAuditEvent rejected

db == <<rows, nextSeq, lock, clock>>
txn == <<now_at, prevHash, seq>>
vars == <<rows, nextSeq, lock, clock, pc, now_at, prevHash, seq, error>>

-----------------------------------------------------------------------------
(* Hashes and rows.                                                        *)

Times == 0 .. MaxClock
Entry == [event : Events, at : Times]
Hash  == Seq(Entry)

GENESIS_HASH == <<>>

\* Mutation: the timestamp is left out of the canonical form.
HashWithoutTime(event, at, prev) == Append(prev, [event |-> event])

\* The hash of an event on top of prev: injective in every argument.
computeAuditHash(event, at, prev) == Append(prev, [event |-> event, at |-> at])

Row == [seq : Nat, event : Events, at : Times, prevHash : Hash, hash : Hash]

\* The row a call inserts.
RowOf(c) == [seq      |-> seq[c],
             event    |-> EventOf[c],
             at       |-> now_at[c],
             prevHash |-> prevHash[c],
             hash     |-> computeAuditHash(EventOf[c], now_at[c], prevHash[c])]

\* ORDER BY seq DESC LIMIT 1.
IsHead(r) == r \in rows /\ \A q \in rows : q.seq <= r.seq

\* The hash the next event has to point at: genesis when the table is empty.
HeadHash == IF rows = {} THEN GENESIS_HASH ELSE (CHOOSE r \in rows : IsHead(r)).hash

-----------------------------------------------------------------------------
(* The states of a call.                                                   *)

Open    == {"begun", "locked", "read", "inserting", "inserted"}
Settled == {"recorded", "logged", "crashed"}
PC      == {"idle", "committed", "rejected"} \cup Open \cup Settled
Errors  == {"none", "noContext", "aborted", "unique", "noAnswer"}

\* Rows inserted by transactions still open: invisible to readers, but the
\* unique indexes already see them.
Pending == {RowOf(c) : c \in {d \in Calls : pc[d] = "inserted"}}

Clashes(r, q) == r.prevHash = q.prevHash \/ r.hash = q.hash

\* Mutation: a session lock, which outlives the transaction.
KeepLock(c) == UNCHANGED lock

\* An _xact_ lock goes when its transaction ends, however it ends.
ReleaseLock(c) == lock' = IF lock = c THEN None ELSE lock

TypeOK ==
    /\ rows \subseteq Row
    /\ nextSeq \in Nat \ {0}
    /\ lock \in Calls \cup {None}
    /\ clock \in Times
    /\ pc \in [Calls -> PC]
    /\ now_at \in [Calls -> Times]
    /\ prevHash \in [Calls -> Hash]
    /\ seq \in [Calls -> Nat]
    /\ error \in [Calls -> Errors]

Init ==
    /\ rows = {}
    /\ nextSeq = 1
    /\ lock = None
    /\ clock = 0
    /\ pc = [c \in Calls |-> "idle"]
    /\ now_at = [c \in Calls |-> 0]
    /\ prevHash = [c \in Calls |-> GENESIS_HASH]
    /\ seq = [c \in Calls |-> 0]
    /\ error = [c \in Calls |-> "none"]

-----------------------------------------------------------------------------
(* appendAuditEvent, one action per statement of its transaction.          *)

\* $transaction opens; now() is fixed here, before the lock is asked for.
Begin(c) ==
    /\ pc[c] = "idle"
    /\ pc' = [pc EXCEPT ![c] = "begun"]
    /\ now_at' = [now_at EXCEPT ![c] = clock]
    /\ UNCHANGED <<db, prevHash, seq, error>>

\* Mutation: the lock is keyed by call, so that nobody waits for anybody.
LockMisKeyed(c) ==
    /\ pc[c] = "begun"
    /\ c \notin Bypassers
    /\ lock' = c
    /\ pc' = [pc EXCEPT ![c] = "locked"]
    /\ UNCHANGED <<rows, nextSeq, clock, txn, error>>

\* SELECT pg_advisory_xact_lock: waits until no other transaction holds it.
Lock(c) ==
    /\ pc[c] = "begun"
    /\ c \notin Bypassers
    /\ lock = None
    /\ lock' = c
    /\ pc' = [pc EXCEPT ![c] = "locked"]
    /\ UNCHANGED <<rows, nextSeq, clock, txn, error>>

\* SELECT now(), head: READ COMMITTED, so this statement sees what is committed
\* when it runs, not when the transaction began.
ReadHead(c) ==
    /\ pc[c] = (IF c \in Bypassers THEN "begun" ELSE "locked")
    /\ prevHash' = [prevHash EXCEPT ![c] = HeadHash]
    /\ pc' = [pc EXCEPT ![c] = "read"]
    /\ UNCHANGED <<db, now_at, seq, error>>

\* INSERT begins: the seq default draws from the sequence before any index is
\* looked at, and the value stays drawn even if the transaction rolls back.
DrawSeq(c) ==
    /\ pc[c] = "read"
    /\ seq' = [seq EXCEPT ![c] = nextSeq]
    /\ nextSeq' = nextSeq + 1
    /\ pc' = [pc EXCEPT ![c] = "inserting"]
    /\ UNCHANGED <<rows, lock, clock, now_at, prevHash, error>>

\* Mutation: no unique indexes.
InsertUnchecked(c) ==
    /\ pc[c] = "inserting"
    /\ pc' = [pc EXCEPT ![c] = "inserted"]
    /\ UNCHANGED <<db, txn, error>>

\* INSERT gets past UNIQUE(prev_hash) and UNIQUE(hash). It waits while an open
\* transaction holds a clashing row.
Insert(c) ==
    /\ pc[c] = "inserting"
    /\ \A r \in rows \cup Pending : ~Clashes(r, RowOf(c))
    /\ pc' = [pc EXCEPT ![c] = "inserted"]
    /\ UNCHANGED <<db, txn, error>>

\* INSERT meets a committed row with the same prev_hash: the statement fails
\* and takes the transaction, and with it the lock, down.
UniqueViolation(c) ==
    /\ pc[c] = "inserting"
    /\ \E r \in rows : Clashes(r, RowOf(c))
    /\ pc' = [pc EXCEPT ![c] = "rejected"]
    /\ error' = [error EXCEPT ![c] = "unique"]
    /\ ReleaseLock(c)
    /\ UNCHANGED <<rows, nextSeq, clock, txn>>

\* COMMIT: the row becomes visible and the lock is released, in one step.
Commit(c) ==
    /\ pc[c] = "inserted"
    /\ rows' = rows \cup {RowOf(c)}
    /\ pc' = [pc EXCEPT ![c] = "committed"]
    /\ ReleaseLock(c)
    /\ UNCHANGED <<nextSeq, clock, txn, error>>

\* Anything else that ends the transaction: no connection to open it on, the
\* interactive-transaction timeout, a lost connection, a failed statement.
Abort(c) ==
    /\ pc[c] \in Open \cup {"idle"}
    /\ pc' = [pc EXCEPT ![c] = "rejected"]
    /\ error' = [error EXCEPT ![c] = "aborted"]
    /\ ReleaseLock(c)
    /\ UNCHANGED <<rows, nextSeq, clock, txn>>

\* The answer to COMMIT reaches the caller: appendAuditEvent resolves.
Answer(c) ==
    /\ pc[c] = "committed"
    /\ pc' = [pc EXCEPT ![c] = "recorded"]
    /\ UNCHANGED <<db, txn, error>>

\* Mutation: an append whose answer was lost is tried again.
RetryLostAnswer(c) ==
    /\ pc[c] = "committed"
    /\ pc' = [pc EXCEPT ![c] = "idle"]
    /\ UNCHANGED <<db, txn, error>>

\* The connection dies after COMMIT took effect and before its answer came back.
LoseAnswer(c) ==
    /\ pc[c] = "committed"
    /\ pc' = [pc EXCEPT ![c] = "rejected"]
    /\ error' = [error EXCEPT ![c] = "noAnswer"]
    /\ UNCHANGED <<db, txn>>

-----------------------------------------------------------------------------
(* AuditService on top of it, and what happens around it.                  *)

\* tenantEvent outside a tenant context: logged and swallowed, nothing opened.
NoTenantContext(c) ==
    /\ pc[c] = "idle"
    /\ pc' = [pc EXCEPT ![c] = "logged"]
    /\ error' = [error EXCEPT ![c] = "noContext"]
    /\ UNCHANGED <<db, txn>>

\* append's catch: one error-level line that the action proceeded UNRECORDED.
LogUnrecorded(c) ==
    /\ pc[c] = "rejected"
    /\ pc' = [pc EXCEPT ![c] = "logged"]
    /\ UNCHANGED <<db, txn, error>>

\* The process of the call dies; the server rolls its transaction back.
Crash(c) ==
    /\ pc[c] \in Open \cup {"committed", "rejected"}
    /\ pc' = [pc EXCEPT ![c] = "crashed"]
    /\ ReleaseLock(c)
    /\ UNCHANGED <<rows, nextSeq, clock, txn, error>>

Tick ==
    /\ clock < MaxClock
    /\ clock' = clock + 1
    /\ UNCHANGED <<rows, nextSeq, lock, pc, txn, error>>

-----------------------------------------------------------------------------
AppendStep(c) ==
    \/ Begin(c) \/ Lock(c) \/ ReadHead(c) \/ DrawSeq(c) \/ Insert(c)
    \/ UniqueViolation(c) \/ Commit(c) \/ Answer(c) \/ LogUnrecorded(c)

Fault(c) == Abort(c) \/ LoseAnswer(c) \/ NoTenantContext(c) \/ Crash(c)

Next ==
    \/ \E c \in Calls : AppendStep(c) \/ Fault(c)
    \/ Tick

Spec == Init /\ [][Next]_vars

\* Statements of an open transaction are executed, answers are delivered and
\* catch blocks run. Nothing is assumed of faults or of the clock.
FairSpec == Spec /\ \A c \in Calls : WF_vars(AppendStep(c))

-----------------------------------------------------------------------------
(* Properties.                                                             *)

\* q is the row just before r in seq order.
Precedes(q, r) ==
    /\ q.seq < r.seq
    /\ \A p \in rows : p.seq <= q.seq \/ r.seq <= p.seq

\* One history, never two: whatever interleaving of appends, rollbacks, lost
\* connections and appenders that bypass the lock, every committed row links to
\* the row just before it in seq order, the first one to genesis, and its stored
\* hash is the hash of its contents (audit-writer.ts: "concurrent appends cannot
\* fork it"; UNIQUE(prev_hash) is the defence that remains without the lock).
ChainLinear ==
    \A r \in rows :
        /\ r.hash = computeAuditHash(r.event, r.at, r.prevHash)
        /\ \/ /\ r.prevHash = GENESIS_HASH
              /\ \A q \in rows : r.seq <= q.seq
           \/ \E q \in rows : Precedes(q, r) /\ r.prevHash = q.hash

\* The lock alone keeps appends off the unique index: one that took the lock fails
\* on it only because an append without the lock committed on the same head behind
\* its back. With no such code path this is the pass condition of contention-probe
\* ("UNIQUE(prev_hash) never fires"), over every interleaving instead of a sample.
LockSuffices ==
    \A c \in Calls \ Bypassers :
        error[c] = "unique" =>
            \E b \in Bypassers : RowOf(b) \in rows /\ prevHash[b] = prevHash[c]

\* An append that has started comes to an end: recorded, or logged as lost, or
\* gone with its process. No rollback, timeout or crash of one transaction leaves
\* the chain locked for the others (audit-writer.ts: "a failed append cannot leave
\* the chain locked").
EveryAppendSettles == \A c \in Calls : pc[c] = "begun" ~> pc[c] \in Settled

\* Reading the log in seq order gives times in order too: what audit-writer.ts and
\* docs/audit-log.md give as the reason to take the timestamp from the database.
RecordedOrderIsChainOrder == \A q, r \in rows : q.seq < r.seq => q.at <= r.at

\* The head hash is the whole history, so it is the abstract log.
Abstract == INSTANCE AuditLog WITH
    log      <- HeadHash,
    recorded <- {c \in Calls : RowOf(c) \in rows},
    outcome  <- [c \in Calls |->
                    CASE pc[c] = "recorded" -> "recorded"
                      [] pc[c] \in {"rejected", "logged", "crashed"} -> "givenUp"
                      [] OTHER -> "pending"]

\* The transaction, the constraints and the fail-open service together implement
\* an append-only log with at most one entry per call: no commit rewrites or drops
\* history, a call is acknowledged only when its entry is there, and a call given
\* up (timeout, unique violation, lost answer, crash) never records afterwards.
ImplementsAuditLog == Abstract!Spec

=============================================================================
