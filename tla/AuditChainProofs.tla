-------------------------- MODULE AuditChainProofs --------------------------
(***************************************************************************)
(* The audit chain cannot fork, for any number of concurrent appends and   *)
(* any of them bypassing the lock (ChainLinear), and the lock alone keeps  *)
(* the appends that take it off the unique index (LockSuffices).           *)
(*                                                                         *)
(* Neither is inductive. ChainLinear needs to know that a row about to be  *)
(* committed still points at the head: its transaction may have read the   *)
(* head long ago. The argument: only the head has no successor             *)
(* (OnlyHeadIsFree), so a prev_hash that clashes with no row is the head's *)
(* at the moment of the INSERT; from then until COMMIT the unique index    *)
(* keeps every other INSERT off that head (PendingExtendsHead), so the     *)
(* head cannot move.                                                       *)
(***************************************************************************)
EXTENDS AuditChain, SequenceTheorems, TLAPS

\* The calls whose transaction is over.
Ended == {"committed", "rejected"} \cup Settled

\* Sequence values are drawn once each, and only by calls that reached DrawSeq.
SeqsDrawnOnce ==
    \A c \in Calls :
        /\ seq[c] < nextSeq
        /\ pc[c] \in {"idle", "begun", "locked", "read"} => seq[c] = 0
        /\ pc[c] \in {"inserting", "inserted"} => seq[c] # 0
        /\ \A d \in Calls : c # d /\ seq[c] # 0 => seq[c] # seq[d]

\* Every row was written by a call whose transaction is over.
RowsAreOurs ==
    \A r \in rows : r.seq # 0 /\ \E c \in Calls : pc[c] \in Ended /\ r = RowOf(c)

\* No two rows have the same prev_hash.
PrevHashUnique == \A q, r \in rows : q.prevHash = r.prevHash => q = r

\* There is a head, and every other place a row could attach to is taken.
OnlyHeadIsFree ==
    rows # {} =>
        /\ \E h \in rows : IsHead(h)
        /\ \E r \in rows : r.prevHash = GENESIS_HASH
        /\ \A q \in rows : IsHead(q) \/ \E r \in rows : r.prevHash = q.hash

\* The head a call read was, and so still is, genesis or the hash of a row; the
\* sequence value drawn after the read is past that row's.
ReadsAreReal ==
    \A c \in Calls : pc[c] \in {"read", "inserting"} =>
        /\ prevHash[c] = GENESIS_HASH \/ \E q \in rows : q.hash = prevHash[c]
        /\ pc[c] = "inserting" => \A q \in rows : q.hash = prevHash[c] => q.seq < seq[c]

\* At most one transaction has an uncommitted row, and it extends the head.
PendingExtendsHead ==
    \A c \in Calls : pc[c] = "inserted" =>
        /\ prevHash[c] = HeadHash
        /\ \A r \in rows : r.seq < seq[c] /\ ~Clashes(r, RowOf(c))
        /\ \A d \in Calls : pc[d] = "inserted" => c = d

ChainInv ==
    /\ TypeOK
    /\ SeqsDrawnOnce
    /\ RowsAreOurs
    /\ PrevHashUnique
    /\ OnlyHeadIsFree
    /\ ReadsAreReal
    /\ PendingExtendsHead
    /\ ChainLinear

\* A call past Lock that does not bypass it holds the lock.
LockHeld ==
    \A c \in Calls \ Bypassers :
        pc[c] \in {"locked", "read", "inserting", "inserted"} => lock = c

\* An append without the lock committed on the head that c read.
Overtaken(c) == \E b \in Bypassers : RowOf(b) \in rows /\ prevHash[b] = prevHash[c]

\* While a call holds the lock, the head it read is the head, unless overtaken.
HeadIsFresh ==
    \A c \in Calls \ Bypassers :
        pc[c] \in {"read", "inserting"} => prevHash[c] = HeadHash \/ Overtaken(c)

\* A call that met the unique index is over.
ViolationEnds == \A c \in Calls : error[c] = "unique" => pc[c] \in Ended

LockInv == LockHeld /\ HeadIsFresh /\ ViolationEnds /\ LockSuffices

-----------------------------------------------------------------------------
(* Facts about hashes, rows and the head.                                  *)

\* A hash determines what it was computed from, and is never the genesis hash
\* (computeAuditHash).
LEMMA HashInjective ==
    ASSUME NEW e \in Events, NEW t \in Times, NEW p \in Hash,
           NEW f \in Events, NEW u \in Times, NEW q \in Hash
    PROVE  /\ computeAuditHash(e, t, p) \in Hash
           /\ computeAuditHash(e, t, p) # GENESIS_HASH
           /\ computeAuditHash(e, t, p) = computeAuditHash(f, u, q) => p = q
  <1>1. [event |-> e, at |-> t] \in Entry /\ [event |-> f, at |-> u] \in Entry
    BY DEF Entry
  <1>2. Append(p, [event |-> e, at |-> t]) \in Seq(Entry)
        /\ Append(p, [event |-> e, at |-> t]) # << >>
    BY <1>1, AppendProperties DEF Hash
  <1>3. Append(p, [event |-> e, at |-> t]) = Append(q, [event |-> f, at |-> u]) => p = q
    BY <1>1, AppendInjective DEF Hash
  <1> QED
    BY <1>2, <1>3 DEF computeAuditHash, GENESIS_HASH, Hash

\* What a call inserts is a row, and its hash is in order.
LEMMA RowOfType ==
    ASSUME TypeOK, NEW c \in Calls
    PROVE  /\ RowOf(c) \in Row
           /\ RowOf(c).seq = seq[c]
           /\ RowOf(c).event = EventOf[c]
           /\ RowOf(c).at = now_at[c]
           /\ RowOf(c).prevHash = prevHash[c]
           /\ RowOf(c).hash = computeAuditHash(EventOf[c], now_at[c], prevHash[c])
           /\ RowOf(c).hash \in Hash
           /\ RowOf(c).hash # GENESIS_HASH
  <1>1. EventOf[c] \in Events /\ now_at[c] \in Times /\ prevHash[c] \in Hash /\ seq[c] \in Nat
    BY CallsAssumption DEF TypeOK
  <1>2. /\ computeAuditHash(EventOf[c], now_at[c], prevHash[c]) \in Hash
        /\ computeAuditHash(EventOf[c], now_at[c], prevHash[c]) # GENESIS_HASH
    BY <1>1, HashInjective
  <1> QED
    BY <1>1, <1>2 DEF RowOf, Row

\* seq is a key of the table (its primary key).
LEMMA SeqIsKey ==
    ASSUME TypeOK, SeqsDrawnOnce, RowsAreOurs, NEW q \in rows, NEW r \in rows, q.seq = r.seq
    PROVE  q = r
  <1>1. PICK c \in Calls : q = RowOf(c)
    BY DEF RowsAreOurs
  <1>2. PICK d \in Calls : r = RowOf(d)
    BY DEF RowsAreOurs
  <1>3. seq[c] = seq[d] /\ seq[c] # 0
    BY <1>1, <1>2, RowOfType DEF RowsAreOurs
  <1> QED
    BY <1>1, <1>2, <1>3 DEF SeqsDrawnOnce

\* ORDER BY seq DESC LIMIT 1 returns the head.
LEMMA HeadHashIs ==
    ASSUME TypeOK, SeqsDrawnOnce, RowsAreOurs, NEW h, IsHead(h)
    PROVE  HeadHash = h.hash
  <1> DEFINE g == CHOOSE r \in rows : IsHead(r)
  <1>1. h \in rows /\ rows # {}
    BY DEF IsHead
  <1>2. g \in rows /\ IsHead(g)
    BY <1>1
  <1>3. g.seq = h.seq
    BY <1>1, <1>2 DEF IsHead, TypeOK, Row
  <1>4. g = h
    BY <1>1, <1>2, <1>3, SeqIsKey
  <1> QED
    BY <1>1, <1>4 DEF HeadHash

\* With no row committed yet, an append points at genesis.
LEMMA EmptyHeadHash == rows = {} => HeadHash = GENESIS_HASH
  BY DEF HeadHash

\* Rows with equal hashes are equal: UNIQUE(hash) follows from UNIQUE(prev_hash).
LEMMA HashIsKey ==
    ASSUME TypeOK, PrevHashUnique, ChainLinear, NEW q \in rows, NEW r \in rows, q.hash = r.hash
    PROVE  q = r
  <1>1. q \in Row /\ r \in Row
    BY DEF TypeOK
  <1>2. q.prevHash = r.prevHash
    BY <1>1, HashInjective DEF ChainLinear, Row
  <1> QED
    BY <1>2 DEF PrevHashUnique

\* No row points at the head.
LEMMA HeadHasNoSuccessor ==
    ASSUME ChainInv, NEW r \in rows
    PROVE  r.prevHash # HeadHash
  <1> USE DEF ChainInv
  <1>1. PICK h \in rows : IsHead(h)
    BY DEF OnlyHeadIsFree
  <1>2. HeadHash = h.hash
    BY <1>1, HeadHashIs
  <1>3. h \in Row /\ r \in Row
    BY DEF TypeOK
  <1>4. h.hash # GENESIS_HASH
    BY <1>3, HashInjective DEF ChainLinear, Row
  <1>5. ASSUME r.prevHash = h.hash PROVE FALSE
    <2>1. PICK q \in rows : Precedes(q, r) /\ r.prevHash = q.hash
      BY <1>4, <1>5 DEF ChainLinear
    <2>2. q = h
      BY <1>5, <2>1, HashIsKey
    <2> QED
      BY <1>1, <1>3, <2>1, <2>2 DEF Precedes, IsHead, Row
  <1> QED
    BY <1>2, <1>5

\* The head hash is a hash.
LEMMA HeadHashType ==
    ASSUME TypeOK, SeqsDrawnOnce, RowsAreOurs, OnlyHeadIsFree
    PROVE  HeadHash \in Hash
  <1>1. CASE rows = {}
    BY <1>1 DEF HeadHash, GENESIS_HASH, Hash
  <1>2. CASE rows # {}
    <2>1. PICK h \in rows : IsHead(h)
      BY <1>2 DEF OnlyHeadIsFree
    <2> QED
      BY <2>1, HeadHashIs DEF TypeOK, Row
  <1> QED
    BY <1>1, <1>2

\* A prev_hash that clashes with no row is the hash of the head.
LEMMA FreeMeansHead ==
    ASSUME ChainInv, NEW c \in Calls, pc[c] = "inserting",
           \A r \in rows : ~Clashes(r, RowOf(c))
    PROVE  /\ prevHash[c] = HeadHash
           /\ \A r \in rows : r.seq < seq[c]
  <1> USE DEF ChainInv
  <1>1. \A r \in rows : r.prevHash # prevHash[c]
    BY RowOfType DEF Clashes
  <1>2. CASE rows = {}
    BY <1>2, EmptyHeadHash DEF ReadsAreReal
  <1>3. CASE rows # {}
    <2>1. prevHash[c] # GENESIS_HASH
      BY <1>1, <1>3 DEF OnlyHeadIsFree
    <2>2. PICK q \in rows : q.hash = prevHash[c]
      BY <2>1 DEF ReadsAreReal
    <2>3. IsHead(q)
      BY <1>1, <1>3, <2>2 DEF OnlyHeadIsFree
    <2>4. q.seq < seq[c]
      BY <2>2 DEF ReadsAreReal
    <2>5. seq[c] \in Nat /\ \A r \in rows : r.seq \in Nat
      BY DEF TypeOK, Row
    <2> QED
      BY <2>2, <2>3, <2>4, <2>5, HeadHashIs DEF IsHead
  <1> QED
    BY <1>2, <1>3

-----------------------------------------------------------------------------
(* The chain invariant is inductive.                                       *)

\* The empty chain is in order.
LEMMA ChainInvInit == Init => ChainInv
  <1> SUFFICES ASSUME Init PROVE ChainInv
    OBVIOUS
  <1> USE DEF Init
  <1>1. TypeOK
    BY CallsAssumption, ClockAssumption
    DEF TypeOK, Times, Hash, GENESIS_HASH, PC, Errors
  <1>2. SeqsDrawnOnce /\ ReadsAreReal /\ PendingExtendsHead
    BY DEF SeqsDrawnOnce, ReadsAreReal, PendingExtendsHead
  <1>3. RowsAreOurs /\ PrevHashUnique /\ OnlyHeadIsFree /\ ChainLinear
    BY DEF RowsAreOurs, PrevHashUnique, OnlyHeadIsFree, ChainLinear
  <1> QED
    BY <1>1, <1>2, <1>3 DEF ChainInv

\* A step that leaves the table, the sequence and what was read alone, and moves
\* calls only towards the lock or to the end of their transaction: everything but
\* ReadHead, DrawSeq, Insert and Commit.
LEMMA QuietStep ==
    ASSUME ChainInv, TypeOK',
           rows' = rows, nextSeq' = nextSeq, prevHash' = prevHash, seq' = seq,
           \A c \in Calls :
              \/ pc'[c] = pc[c] /\ now_at'[c] = now_at[c]
              \/ pc'[c] \in Ended /\ now_at'[c] = now_at[c]
              \/ pc'[c] \in {"begun", "locked"} /\ pc[c] \in {"idle", "begun"}
    PROVE  ChainInv'
  <1> USE DEF ChainInv
  <1>1. \A c \in Calls : pc[c] \in Ended => pc'[c] \in Ended /\ now_at'[c] = now_at[c]
    BY DEF Ended, Settled
  <1>2. \A c \in Calls : now_at'[c] = now_at[c] => RowOf(c)' = RowOf(c)
    BY DEF RowOf, computeAuditHash
  <1>3. HeadHash' = HeadHash
    BY DEF HeadHash, IsHead
  <1>4. SeqsDrawnOnce'
    BY DEF SeqsDrawnOnce, Ended, Settled
  <1>5. RowsAreOurs'
    BY <1>1, <1>2 DEF RowsAreOurs
  <1>6. PrevHashUnique' /\ OnlyHeadIsFree' /\ ChainLinear'
    BY DEF PrevHashUnique, OnlyHeadIsFree, ChainLinear, IsHead, Precedes, computeAuditHash
  <1>7. ReadsAreReal'
    BY DEF ReadsAreReal, Ended, Settled
  <1>8. \A c \in Calls : pc'[c] = "inserted" => pc[c] = "inserted" /\ RowOf(c)' = RowOf(c)
    BY <1>2 DEF Ended, Settled
  <1>9. PendingExtendsHead'
    BY <1>3, <1>8 DEF PendingExtendsHead, Clashes
  <1> QED
    BY <1>4, <1>5, <1>6, <1>7, <1>9

\* Every step keeps the types (the head read by ReadHead exists, so it has one).
LEMMA TypeStep == TypeOK /\ HeadHash \in Hash /\ [Next]_vars => TypeOK'
  <1> SUFFICES ASSUME TypeOK, HeadHash \in Hash, [Next]_vars PROVE TypeOK'
    OBVIOUS
  <1> USE CallsAssumption, ClockAssumption DEF TypeOK, PC, Open, Settled, Errors, db, txn, ReleaseLock
  <1>1. ASSUME NEW c \in Calls, AppendStep(c) PROVE TypeOK'
    <2>1. CASE Begin(c)
      BY <2>1 DEF Begin
    <2>2. CASE Lock(c)
      BY <2>2 DEF Lock
    <2>3. CASE ReadHead(c)
      BY <2>3 DEF ReadHead
    <2>4. CASE DrawSeq(c)
      BY <2>4 DEF DrawSeq
    <2>5. CASE Insert(c)
      BY <2>5 DEF Insert
    <2>6. CASE UniqueViolation(c)
      BY <2>6 DEF UniqueViolation
    <2>7. CASE Commit(c)
      BY <2>7, RowOfType DEF Commit
    <2>8. CASE Answer(c)
      BY <2>8 DEF Answer
    <2>9. CASE LogUnrecorded(c)
      BY <2>9 DEF LogUnrecorded
    <2> QED
      BY <1>1, <2>1, <2>2, <2>3, <2>4, <2>5, <2>6, <2>7, <2>8, <2>9 DEF AppendStep
  <1>2. ASSUME NEW c \in Calls, Fault(c) PROVE TypeOK'
    <2>1. CASE Abort(c)
      BY <2>1 DEF Abort
    <2>2. CASE LoseAnswer(c)
      BY <2>2 DEF LoseAnswer
    <2>3. CASE NoTenantContext(c)
      BY <2>3 DEF NoTenantContext
    <2>4. CASE Crash(c)
      BY <2>4 DEF Crash
    <2> QED
      BY <1>2, <2>1, <2>2, <2>3, <2>4 DEF Fault
  <1>3. CASE Tick
    BY <1>3 DEF Tick, Times
  <1>4. CASE UNCHANGED vars
    BY <1>4 DEF vars
  <1> QED
    BY <1>1, <1>2, <1>3, <1>4 DEF Next

\* ReadHead: what it reads is genesis or the hash of a row.
LEMMA ReadHeadStep ==
    ASSUME ChainInv, TypeOK', NEW c \in Calls, ReadHead(c)
    PROVE  ChainInv'
  <1> USE DEF ChainInv, ReadHead, db
  <1>1. pc[c] \in {"begun", "locked"} /\ pc' = [pc EXCEPT ![c] = "read"]
    OBVIOUS
  <1>2. /\ pc'[c] = "read"
        /\ \A d \in Calls : d # c => pc'[d] = pc[d] /\ prevHash'[d] = prevHash[d]
        /\ prevHash'[c] = HeadHash
        /\ rows' = rows /\ nextSeq' = nextSeq /\ seq' = seq /\ now_at' = now_at
    BY DEF TypeOK
  <1>3. \A d \in Calls : d # c => RowOf(d)' = RowOf(d)
    BY <1>2 DEF RowOf, computeAuditHash
  <1>4. SeqsDrawnOnce'
    BY <1>1, <1>2 DEF SeqsDrawnOnce
  <1>5. RowsAreOurs'
    BY <1>1, <1>2, <1>3 DEF RowsAreOurs, Ended, Settled
  <1>6. PrevHashUnique' /\ OnlyHeadIsFree' /\ ChainLinear'
    BY <1>2 DEF PrevHashUnique, OnlyHeadIsFree, ChainLinear, IsHead, Precedes, computeAuditHash
  <1>7. HeadHash = GENESIS_HASH \/ \E q \in rows : q.hash = HeadHash
    BY HeadHashIs, EmptyHeadHash DEF OnlyHeadIsFree
  <1>8. ReadsAreReal'
    BY <1>1, <1>2, <1>7 DEF ReadsAreReal
  <1>9. HeadHash' = HeadHash
    BY <1>2 DEF HeadHash, IsHead
  <1>10. PendingExtendsHead'
    BY <1>1, <1>2, <1>3, <1>9 DEF PendingExtendsHead, Clashes
  <1> QED
    BY <1>4, <1>5, <1>6, <1>8, <1>10

\* DrawSeq: the value drawn is new, and past every row.
LEMMA DrawSeqStep ==
    ASSUME ChainInv, TypeOK', NEW c \in Calls, DrawSeq(c)
    PROVE  ChainInv'
  <1> USE DEF ChainInv, DrawSeq
  <1>1. /\ pc[c] = "read" /\ pc'[c] = "inserting"
        /\ seq[c] = 0 /\ seq'[c] = nextSeq /\ nextSeq' = nextSeq + 1 /\ nextSeq \in Nat \ {0}
        /\ \A d \in Calls : d # c => pc'[d] = pc[d] /\ seq'[d] = seq[d]
        /\ rows' = rows /\ prevHash' = prevHash /\ now_at' = now_at
    BY DEF TypeOK, SeqsDrawnOnce
  <1>2. \A d \in Calls : seq[d] \in Nat /\ seq[d] < nextSeq
    BY DEF TypeOK, SeqsDrawnOnce
  <1>3. \A d \in Calls : d # c => RowOf(d)' = RowOf(d)
    BY <1>1 DEF RowOf, computeAuditHash
  <1>4. SeqsDrawnOnce'
    BY <1>1, <1>2 DEF SeqsDrawnOnce
  <1>5. RowsAreOurs'
    BY <1>1, <1>3 DEF RowsAreOurs, Ended, Settled
  <1>6. PrevHashUnique' /\ OnlyHeadIsFree' /\ ChainLinear'
    BY <1>1 DEF PrevHashUnique, OnlyHeadIsFree, ChainLinear, IsHead, Precedes, computeAuditHash
  <1>7. \A q \in rows : q.seq < nextSeq
    <2> TAKE q \in rows
    <2>1. PICK d \in Calls : q = RowOf(d)
      BY DEF RowsAreOurs
    <2> QED
      BY <1>2, <2>1, RowOfType
  <1>8. ReadsAreReal'
    BY <1>1, <1>7 DEF ReadsAreReal
  <1>9. HeadHash' = HeadHash
    BY <1>1 DEF HeadHash, IsHead
  <1>10. PendingExtendsHead'
    BY <1>1, <1>3, <1>9 DEF PendingExtendsHead, Clashes
  <1> QED
    BY <1>4, <1>5, <1>6, <1>8, <1>10

\* Insert: the row that passes the unique indexes extends the head, and it is the
\* only uncommitted one.
LEMMA InsertStep ==
    ASSUME ChainInv, TypeOK', NEW c \in Calls, Insert(c)
    PROVE  ChainInv'
  <1> USE DEF ChainInv, Insert, db, txn
  <1>1. /\ pc[c] = "inserting" /\ pc'[c] = "inserted"
        /\ \A d \in Calls : d # c => pc'[d] = pc[d]
        /\ rows' = rows /\ nextSeq' = nextSeq
        /\ prevHash' = prevHash /\ now_at' = now_at /\ seq' = seq
    BY DEF TypeOK
  <1>2. \A d \in Calls : RowOf(d)' = RowOf(d)
    BY <1>1 DEF RowOf, computeAuditHash
  <1>3. SeqsDrawnOnce'
    BY <1>1 DEF SeqsDrawnOnce
  <1>4. RowsAreOurs'
    BY <1>1, <1>2 DEF RowsAreOurs, Ended, Settled
  <1>5. PrevHashUnique' /\ OnlyHeadIsFree' /\ ChainLinear'
    BY <1>1 DEF PrevHashUnique, OnlyHeadIsFree, ChainLinear, IsHead, Precedes, computeAuditHash
  <1>6. ReadsAreReal'
    BY <1>1 DEF ReadsAreReal
  <1>7. HeadHash' = HeadHash
    BY <1>1 DEF HeadHash, IsHead
  <1>8. /\ prevHash[c] = HeadHash
        /\ \A r \in rows : r.seq < seq[c] /\ ~Clashes(r, RowOf(c))
    BY <1>1, FreeMeansHead
  <1>9. \A d \in Calls : pc[d] # "inserted"
    <2> SUFFICES ASSUME NEW d \in Calls, pc[d] = "inserted" PROVE FALSE
      OBVIOUS
    <2>1. RowOf(d) \in Pending
      BY DEF Pending
    <2>2. prevHash[d] = HeadHash
      BY DEF PendingExtendsHead
    <2>3. Clashes(RowOf(d), RowOf(c))
      BY <1>8, <2>2, RowOfType DEF Clashes
    <2> QED
      BY <2>1, <2>3
  <1>10. PendingExtendsHead'
    BY <1>1, <1>2, <1>7, <1>8, <1>9 DEF PendingExtendsHead, Clashes
  <1> QED
    BY <1>3, <1>4, <1>5, <1>6, <1>10

\* Commit: the new row is the new head, and every link stays where it was.
LEMMA CommitStep ==
    ASSUME ChainInv, TypeOK', NEW c \in Calls, Commit(c)
    PROVE  ChainInv' /\ HeadHash' = RowOf(c).hash
  <1> DEFINE n == RowOf(c)
  <1> USE DEF ChainInv, Commit, txn
  <1>1. /\ pc[c] = "inserted" /\ pc'[c] = "committed"
        /\ \A d \in Calls : d # c => pc'[d] = pc[d]
        /\ rows' = rows \cup {n} /\ nextSeq' = nextSeq
        /\ prevHash' = prevHash /\ now_at' = now_at /\ seq' = seq
    BY DEF TypeOK
  <1>2. \A d \in Calls : RowOf(d)' = RowOf(d)
    BY <1>1 DEF RowOf, computeAuditHash
  <1>3. /\ n.prevHash = HeadHash /\ n.seq = seq[c] /\ n.seq # 0
        /\ \A r \in rows : r.seq < n.seq /\ r.prevHash # n.prevHash /\ r.hash # n.hash
        /\ \A d \in Calls : d # c => pc[d] # "inserted"
    BY <1>1, RowOfType DEF PendingExtendsHead, SeqsDrawnOnce, Clashes
  <1>4. n \in Row /\ n.hash = computeAuditHash(n.event, n.at, n.prevHash) /\ n.hash # GENESIS_HASH
    BY RowOfType
  <1>5. n.seq \in Nat /\ \A r \in rows : r.seq \in Nat
    BY <1>4 DEF TypeOK, Row
  <1>6. n \in rows' /\ \A q \in rows' : q.seq <= n.seq /\ (n.seq <= q.seq => q = n)
    BY <1>1, <1>3, <1>5
  <1>7. SeqsDrawnOnce'
    BY <1>1 DEF SeqsDrawnOnce
  <1>8. RowsAreOurs'
    BY <1>1, <1>2, <1>3 DEF RowsAreOurs, Ended, Settled
  <1>9. HeadHash' = n.hash
    <2>1. HeadHash' = (CHOOSE r \in rows' : r \in rows' /\ \A q \in rows' : q.seq <= r.seq).hash
      BY <1>6 DEF HeadHash, IsHead
    <2>2. n = CHOOSE r \in rows' : r \in rows' /\ \A q \in rows' : q.seq <= r.seq
      BY <1>6
    <2> QED
      BY <2>1, <2>2
  <1>10. PrevHashUnique'
    BY <1>1, <1>3 DEF PrevHashUnique
  <1>11. OnlyHeadIsFree'
    <2>1. \E r \in rows' : r.prevHash = GENESIS_HASH
      BY <1>1, <1>3, EmptyHeadHash DEF OnlyHeadIsFree
    <2>2. ASSUME NEW q \in rows PROVE \E r \in rows' : r.prevHash = q.hash
      <3>1. CASE IsHead(q)
        BY <1>1, <1>3, <3>1, HeadHashIs
      <3>2. CASE ~IsHead(q)
        BY <1>1, <2>2, <3>2 DEF OnlyHeadIsFree
      <3> QED
        BY <3>1, <3>2
    <2> QED
      BY <1>1, <1>6, <2>1, <2>2 DEF OnlyHeadIsFree, IsHead
  <1>12. ReadsAreReal'
    BY <1>1, <1>3, <1>4 DEF ReadsAreReal
  <1>13. PendingExtendsHead'
    BY <1>1, <1>3 DEF PendingExtendsHead
  <1>14. ChainLinear'
    <2>1. ASSUME NEW r \in rows
          PROVE  \/ r.prevHash = GENESIS_HASH /\ \A q \in rows' : r.seq <= q.seq
                 \/ \E q \in rows' : Precedes(q, r)' /\ r.prevHash = q.hash
      <3>1. CASE r.prevHash = GENESIS_HASH /\ \A q \in rows : r.seq <= q.seq
        BY <1>1, <1>3, <1>5, <3>1
      <3>2. CASE \E q \in rows : Precedes(q, r) /\ r.prevHash = q.hash
        BY <1>1, <1>3, <1>5, <3>2 DEF Precedes
      <3> QED
        BY <3>1, <3>2 DEF ChainLinear
    <2>2. \/ n.prevHash = GENESIS_HASH /\ \A q \in rows' : n.seq <= q.seq
          \/ \E q \in rows' : Precedes(q, n)' /\ n.prevHash = q.hash
      <3>1. CASE rows = {}
        BY <1>1, <1>3, <1>5, <3>1, EmptyHeadHash
      <3>2. CASE rows # {}
        <4>1. PICK h \in rows : IsHead(h)
          BY <3>2 DEF OnlyHeadIsFree
        <4>2. n.prevHash = h.hash
          BY <1>3, <4>1, HeadHashIs
        <4>3. Precedes(h, n)'
          BY <1>1, <1>2, <1>3, <1>5, <4>1 DEF Precedes, IsHead
        <4> QED
          BY <1>1, <4>2, <4>3
      <3> QED
        BY <3>1, <3>2
    <2>3. \A r \in rows' : r.hash = computeAuditHash(r.event, r.at, r.prevHash)
      BY <1>1, <1>4 DEF ChainLinear
    <2> QED
      BY <1>1, <1>2, <2>1, <2>2, <2>3 DEF ChainLinear, computeAuditHash
  <1> QED
    BY <1>7, <1>8, <1>9, <1>10, <1>11, <1>12, <1>13, <1>14

\* Every step keeps the chain invariant.
LEMMA ChainInvStep == ChainInv /\ [Next]_vars => ChainInv'
  <1> SUFFICES ASSUME ChainInv, [Next]_vars PROVE ChainInv'
    OBVIOUS
  <1>1. TypeOK'
    BY TypeStep, HeadHashType DEF ChainInv
  <1>2. ASSUME NEW c \in Calls, AppendStep(c) PROVE ChainInv'
    <2> USE DEF ChainInv, TypeOK, db, txn, Ended, Settled
    <2>1. CASE Begin(c)
      BY <1>1, <2>1, QuietStep DEF Begin
    <2>2. CASE Lock(c)
      BY <1>1, <2>2, QuietStep DEF Lock
    <2>3. CASE UniqueViolation(c)
      BY <1>1, <2>3, QuietStep DEF UniqueViolation
    <2>4. CASE Answer(c)
      BY <1>1, <2>4, QuietStep DEF Answer
    <2>5. CASE LogUnrecorded(c)
      BY <1>1, <2>5, QuietStep DEF LogUnrecorded
    <2> QED
      BY <1>1, <1>2, <2>1, <2>2, <2>3, <2>4, <2>5, ReadHeadStep, DrawSeqStep, InsertStep, CommitStep
      DEF AppendStep
  <1>3. ASSUME NEW c \in Calls, Fault(c) PROVE ChainInv'
    <2> USE DEF ChainInv, TypeOK, db, txn, Ended, Settled
    <2>1. CASE Abort(c)
      BY <1>1, <2>1, QuietStep DEF Abort
    <2>2. CASE LoseAnswer(c)
      BY <1>1, <2>2, QuietStep DEF LoseAnswer
    <2>3. CASE NoTenantContext(c)
      BY <1>1, <2>3, QuietStep DEF NoTenantContext
    <2>4. CASE Crash(c)
      BY <1>1, <2>4, QuietStep DEF Crash
    <2> QED
      BY <1>3, <2>1, <2>2, <2>3, <2>4 DEF Fault
  <1>4. CASE Tick
    BY <1>1, <1>4, QuietStep DEF Tick, txn
  <1>5. CASE UNCHANGED vars
    BY <1>1, <1>5, QuietStep DEF vars
  <1> QED
    BY <1>2, <1>3, <1>4, <1>5 DEF Next

\* The chain invariant holds throughout.
THEOREM ChainInvariant == Spec => []ChainInv
  BY ChainInvInit, ChainInvStep, PTL DEF Spec

\* Every variable keeps its type, for any number of calls and any clock bound.
THEOREM TypeCorrect == Spec => []TypeOK
  <1>1. ChainInv => TypeOK
    BY DEF ChainInv
  <1> QED
    BY <1>1, ChainInvariant, PTL

\* The chain cannot fork: whatever appends run concurrently, and whichever of them
\* bypass the lock, each row links to the row before it in seq order.
THEOREM ChainCannotFork == Spec => []ChainLinear
  <1>1. ChainInv => ChainLinear
    BY DEF ChainInv
  <1> QED
    BY <1>1, ChainInvariant, PTL

-----------------------------------------------------------------------------
(* The lock, and the log that the chain implements.                        *)

\* A call whose row is stored is one whose transaction is over.
LEMMA StoredIsEnded ==
    ASSUME ChainInv, NEW c \in Calls, RowOf(c) \in rows
    PROVE  pc[c] \in Ended
  <1> USE DEF ChainInv
  <1>1. PICK d \in Calls : pc[d] \in Ended /\ RowOf(c) = RowOf(d)
    BY DEF RowsAreOurs
  <1>2. seq[c] = seq[d] /\ seq[c] # 0
    BY <1>1, RowOfType DEF RowsAreOurs
  <1> QED
    BY <1>1, <1>2 DEF SeqsDrawnOnce

\* No step removes a row or touches the locals of a transaction that is over, and
\* only Begin, ReadHead and DrawSeq touch locals at all.
LEMMA StepFrame ==
    ASSUME ChainInv, [Next]_vars
    PROVE  /\ rows \subseteq rows'
           /\ \A c \in Calls : RowOf(c)' = RowOf(c) \/ (pc[c] \notin Ended /\ pc'[c] \notin Ended)
           /\ \A c \in Calls : pc[c] \in Ended => prevHash'[c] = prevHash[c] /\ pc'[c] \in Ended
  <1> USE DEF ChainInv, TypeOK, Ended, Settled, Open, db, txn, RowOf, computeAuditHash
  <1>1. ASSUME NEW d \in Calls, Begin(d) \/ ReadHead(d) \/ DrawSeq(d)
        PROVE  /\ rows' = rows
               /\ pc[d] \notin Ended /\ pc'[d] \notin Ended
               /\ \A c \in Calls : c # d =>
                     /\ pc'[c] = pc[c] /\ prevHash'[c] = prevHash[c]
                     /\ seq'[c] = seq[c] /\ now_at'[c] = now_at[c]
    BY <1>1 DEF Begin, ReadHead, DrawSeq
  <1>2. ASSUME NEW d \in Calls,
               \/ Lock(d) \/ Insert(d) \/ UniqueViolation(d) \/ Commit(d) \/ Answer(d)
               \/ LogUnrecorded(d) \/ Fault(d)
        PROVE  /\ rows \subseteq rows' /\ UNCHANGED txn
               /\ pc[d] \in Ended => pc'[d] \in Ended
               /\ \A c \in Calls : c # d => pc'[c] = pc[c]
    BY <1>2 DEF Lock, Insert, UniqueViolation, Commit, Answer, LogUnrecorded, Fault, Abort,
                LoseAnswer, NoTenantContext, Crash
  <1>3. Tick \/ UNCHANGED vars => UNCHANGED <<rows, txn, pc>>
    BY DEF Tick, vars
  <1> QED
    BY <1>1, <1>2, <1>3 DEF Next, AppendStep

\* Being overtaken is for good.
LEMMA OvertakenStays ==
    ASSUME ChainInv, [Next]_vars, NEW c \in Calls, prevHash'[c] = prevHash[c], Overtaken(c)
    PROVE  Overtaken(c)'
  <1>1. PICK b \in Bypassers : RowOf(b) \in rows /\ prevHash[b] = prevHash[c]
    BY DEF Overtaken
  <1>2. b \in Calls
    BY CallsAssumption
  <1>3. pc[b] \in Ended
    BY <1>1, <1>2, StoredIsEnded
  <1> QED
    BY <1>1, <1>2, <1>3, StepFrame DEF Overtaken

\* A step other than Commit leaves the head alone.
LEMMA HeadMoves == rows' = rows => HeadHash' = HeadHash
  BY DEF HeadHash, IsHead

\* The lock is held from Lock to the end of the transaction.
LEMMA LockHeldStep == ChainInv /\ LockHeld /\ [Next]_vars => LockHeld'
  <1> SUFFICES ASSUME ChainInv, LockHeld, [Next]_vars PROVE LockHeld'
    OBVIOUS
  <1> USE CallsAssumption DEF ChainInv, TypeOK, LockHeld, ReleaseLock, db, Settled
  <1>1. ASSUME NEW c \in Calls, AppendStep(c) PROVE LockHeld'
    <2>1. CASE Lock(c)
      BY <2>1 DEF Lock
    <2>2. CASE Begin(c) \/ ReadHead(c) \/ DrawSeq(c) \/ Insert(c) \/ Answer(c) \/ LogUnrecorded(c)
      BY <2>2 DEF Begin, ReadHead, DrawSeq, Insert, Answer, LogUnrecorded
    <2>3. CASE UniqueViolation(c) \/ Commit(c)
      BY <2>3 DEF UniqueViolation, Commit
    <2> QED
      BY <1>1, <2>1, <2>2, <2>3 DEF AppendStep
  <1>2. ASSUME NEW c \in Calls, Fault(c) PROVE LockHeld'
    BY <1>2 DEF Fault, Abort, LoseAnswer, NoTenantContext, Crash
  <1>3. CASE Tick \/ UNCHANGED vars
    BY <1>3 DEF Tick, vars
  <1> QED
    BY <1>1, <1>2, <1>3 DEF Next

\* What a lock holder read is the head, unless an append without the lock got in.
LEMMA HeadIsFreshStep == ChainInv /\ LockInv /\ [Next]_vars => HeadIsFresh'
  <1> SUFFICES ASSUME ChainInv, LockInv, [Next]_vars,
                      NEW d \in Calls \ Bypassers, pc'[d] \in {"read", "inserting"}
               PROVE  (prevHash[d] = HeadHash \/ Overtaken(d))'
    BY DEF HeadIsFresh
  <1> USE DEF ChainInv, TypeOK
  <1>1. ASSUME rows' = rows, pc[d] \in {"read", "inserting"}, prevHash'[d] = prevHash[d]
        PROVE  (prevHash[d] = HeadHash \/ Overtaken(d))'
    BY <1>1, HeadMoves, OvertakenStays DEF LockInv, HeadIsFresh
  <1>2. ASSUME NEW c \in Calls, AppendStep(c) PROVE (prevHash[d] = HeadHash \/ Overtaken(d))'
    <2>1. CASE ReadHead(c)
      BY <1>1, <2>1, HeadMoves DEF ReadHead, db
    <2>2. CASE Commit(c)
      <3>1. c # d /\ pc[d] \in {"read", "inserting"} /\ pc[c] = "inserted"
        BY <2>2 DEF Commit
      <3>2. c \in Bypassers
        BY <3>1 DEF LockInv, LockHeld
      <3>3. prevHash[c] = HeadHash
        BY <3>1 DEF PendingExtendsHead
      <3>4. prevHash' = prevHash /\ rows' = rows \cup {RowOf(c)} /\ RowOf(c)' = RowOf(c)
        BY <2>2 DEF Commit, txn, RowOf, computeAuditHash
      <3>5. CASE prevHash[d] = HeadHash
        BY <3>2, <3>3, <3>4, <3>5 DEF Overtaken
      <3>6. CASE Overtaken(d)
        BY <3>4, <3>6, OvertakenStays
      <3> QED
        BY <3>1, <3>5, <3>6 DEF LockInv, HeadIsFresh
    <2>3. CASE \/ Begin(c) \/ Lock(c) \/ DrawSeq(c) \/ Insert(c) \/ UniqueViolation(c)
               \/ Answer(c) \/ LogUnrecorded(c)
      BY <1>1, <2>3 DEF Begin, Lock, DrawSeq, Insert, UniqueViolation, Answer, LogUnrecorded, db, txn
    <2> QED
      BY <1>2, <2>1, <2>2, <2>3 DEF AppendStep
  <1>3. ASSUME NEW c \in Calls, Fault(c) PROVE (prevHash[d] = HeadHash \/ Overtaken(d))'
    BY <1>1, <1>3 DEF Fault, Abort, LoseAnswer, NoTenantContext, Crash, db, txn
  <1>4. CASE Tick \/ UNCHANGED vars
    BY <1>1, <1>4 DEF Tick, vars, txn
  <1> QED
    BY <1>2, <1>3, <1>4 DEF Next

\* A lock holder meets a clashing row only if it was overtaken.
LEMMA LockSufficesStep == ChainInv /\ LockInv /\ [Next]_vars => LockSuffices'
  <1> SUFFICES ASSUME ChainInv, LockInv, [Next]_vars,
                      NEW d \in Calls \ Bypassers, error'[d] = "unique"
               PROVE  Overtaken(d)'
    BY DEF LockSuffices, Overtaken
  <1> USE DEF ChainInv, TypeOK
  <1>1. ASSUME NEW c \in Calls, UniqueViolation(c), c = d PROVE Overtaken(d)'
    <2>1. PICK r \in rows : Clashes(r, RowOf(d))
      BY <1>1 DEF UniqueViolation
    <2>2. r \in Row /\ EventOf[d] \in Events /\ now_at[d] \in Times /\ prevHash[d] \in Hash
      BY CallsAssumption
    <2>3. r.prevHash = prevHash[d]
      BY <2>1, <2>2, RowOfType, HashInjective DEF Clashes, ChainLinear, Row
    <2>4. prevHash[d] # HeadHash
      BY <2>3, HeadHasNoSuccessor
    <2>5. prevHash' = prevHash
      BY <1>1 DEF UniqueViolation, txn
    <2> QED
      BY <1>1, <2>4, <2>5, OvertakenStays DEF LockInv, HeadIsFresh, UniqueViolation
  <1>2. ASSUME error[d] = "unique" PROVE Overtaken(d)'
    <2>1. prevHash'[d] = prevHash[d]
      BY <1>2, StepFrame DEF LockInv, ViolationEnds
    <2> QED
      BY <1>2, <2>1, OvertakenStays DEF LockInv, LockSuffices, Overtaken
  <1>3. error[d] = "unique" \/ UniqueViolation(d)
    <2>1. ASSUME NEW c \in Calls, AppendStep(c) PROVE error[d] = "unique" \/ UniqueViolation(d)
      BY <2>1 DEF AppendStep, Begin, Lock, ReadHead, DrawSeq, Insert, UniqueViolation, Commit,
                  Answer, LogUnrecorded
    <2>2. ASSUME NEW c \in Calls, Fault(c) PROVE error[d] = "unique"
      BY <2>2 DEF Fault, Abort, LoseAnswer, NoTenantContext, Crash
    <2>3. Tick \/ UNCHANGED vars => error' = error
      BY DEF Tick, vars
    <2> QED
      BY <2>1, <2>2, <2>3 DEF Next
  <1> QED
    BY <1>1, <1>2, <1>3

\* A unique violation ends the transaction, and it stays ended.
LEMMA ViolationEndsStep == ChainInv /\ LockInv /\ [Next]_vars => ViolationEnds'
  <1> SUFFICES ASSUME ChainInv, LockInv, [Next]_vars, NEW d \in Calls, error'[d] = "unique"
               PROVE  pc'[d] \in Ended
    BY DEF ViolationEnds
  <1> USE DEF ChainInv, TypeOK
  <1>1. CASE error[d] = "unique"
    BY <1>1, StepFrame DEF LockInv, ViolationEnds
  <1>2. ASSUME NEW c \in Calls, AppendStep(c), error[d] # "unique" PROVE pc'[d] \in Ended
    BY <1>2 DEF AppendStep, Begin, Lock, ReadHead, DrawSeq, Insert, UniqueViolation, Commit,
                Answer, LogUnrecorded, Ended
  <1>3. ASSUME NEW c \in Calls, Fault(c), error[d] # "unique" PROVE FALSE
    BY <1>3 DEF Fault, Abort, LoseAnswer, NoTenantContext, Crash
  <1>4. Tick \/ UNCHANGED vars => error' = error
    BY DEF Tick, vars
  <1> QED
    BY <1>1, <1>2, <1>3, <1>4 DEF Next

\* The advisory lock alone serialises the appends that take it: none of them fails
\* on UNIQUE(prev_hash) unless an append without the lock committed on its head.
THEOREM LockIsEnough == Spec => []LockSuffices
  <1>1. Init => LockInv
    BY DEF Init, LockInv, LockHeld, HeadIsFresh, ViolationEnds, LockSuffices
  <1>2. ChainInv /\ LockInv /\ [Next]_vars => LockInv'
    BY LockHeldStep, HeadIsFreshStep, ViolationEndsStep, LockSufficesStep DEF LockInv
  <1>3. LockInv => LockSuffices
    BY DEF LockInv
  <1> QED
    BY <1>1, <1>2, <1>3, ChainInvariant, PTL DEF Spec

\* A call that knows its event is recorded is right about it.
AnswersAreTrue == \A c \in Calls : pc[c] \in {"committed", "recorded"} => RowOf(c) \in rows

\* Only Commit makes a call committed, and rows stay.
LEMMA AnswersStep == ChainInv /\ AnswersAreTrue /\ [Next]_vars => AnswersAreTrue'
  <1> SUFFICES ASSUME ChainInv, AnswersAreTrue, [Next]_vars,
                      NEW d \in Calls, pc'[d] \in {"committed", "recorded"}
               PROVE  RowOf(d)' \in rows'
    BY DEF AnswersAreTrue
  <1> USE DEF ChainInv, TypeOK
  <1>1. RowOf(d)' = RowOf(d)
    BY StepFrame DEF Ended, Settled
  <1>2. pc[d] \in {"committed", "recorded"} \/ Commit(d)
    <2>1. ASSUME NEW c \in Calls, AppendStep(c) PROVE pc[d] \in {"committed", "recorded"} \/ Commit(d)
      BY <2>1 DEF AppendStep, Begin, Lock, ReadHead, DrawSeq, Insert, UniqueViolation, Commit,
                  Answer, LogUnrecorded
    <2>2. ASSUME NEW c \in Calls, Fault(c) PROVE pc[d] \in {"committed", "recorded"}
      BY <2>2 DEF Fault, Abort, LoseAnswer, NoTenantContext, Crash
    <2>3. Tick \/ UNCHANGED vars => pc' = pc
      BY DEF Tick, vars
    <2> QED
      BY <2>1, <2>2, <2>3 DEF Next
  <1>3. CASE pc[d] \in {"committed", "recorded"}
    BY <1>1, <1>3, StepFrame DEF AnswersAreTrue
  <1>4. CASE Commit(d)
    BY <1>1, <1>4 DEF Commit
  <1> QED
    BY <1>2, <1>3, <1>4

-----------------------------------------------------------------------------
(* Refinement of AuditLog.                                                 *)

\* The state of the abstract log.
Stored == {c \in Calls : RowOf(c) \in rows}
Known  == [c \in Calls |-> CASE pc[c] = "recorded" -> "recorded"
                              [] pc[c] \in {"rejected", "logged", "crashed"} -> "givenUp"
                              [] OTHER -> "pending"]

\* A step that stores no row stores no call's row.
LEMMA StoredMoves ==
    ASSUME ChainInv, ChainInv', [Next]_vars, rows' = rows
    PROVE  Stored' = Stored
  <1> SUFFICES ASSUME NEW c \in Calls PROVE RowOf(c)' \in rows' <=> RowOf(c) \in rows
    BY DEF Stored
  <1>1. CASE RowOf(c)' = RowOf(c)
    BY <1>1
  <1>2. CASE pc[c] \notin Ended /\ pc'[c] \notin Ended
    <2>1. RowOf(c) \notin rows
      BY <1>2, StoredIsEnded
    <2>2. RowOf(c)' \notin rows'
      <3>1. (RowOf(c) \in rows => pc[c] \in Ended)'
        BY StoredIsEnded, PTL
      <3> QED
        BY <1>2, <3>1
    <2> QED
      BY <2>1, <2>2
  <1> QED
    BY <1>1, <1>2, StepFrame

\* A call stops waiting without its row being stored: a step of the abstract
\* GiveUp.
LEMMA GiveUpStep ==
    ASSUME ChainInv, ChainInv', [Next]_vars, rows' = rows, NEW c \in Calls,
           pc[c] \notin {"recorded", "rejected", "logged", "crashed"},
           pc'[c] \in {"rejected", "logged", "crashed"},
           pc' = [pc EXCEPT ![c] = pc'[c]]
    PROVE  Abstract!GiveUp(c)
  <1>1. HeadHash' = HeadHash /\ Stored' = Stored
    BY HeadMoves, StoredMoves
  <1>2. Known[c] = "pending" /\ Known' = [Known EXCEPT ![c] = "givenUp"]
    BY DEF Known, ChainInv, TypeOK
  <1> QED
    BY <1>1, <1>2 DEF Abstract!GiveUp, Stored, Known

\* A step the abstract log does not see.
LEMMA HiddenStep ==
    ASSUME ChainInv, ChainInv', [Next]_vars, rows' = rows,
           \A c \in Calls :
              \/ pc'[c] = pc[c]
              \/ {pc[c], pc'[c]} \subseteq {"rejected", "logged", "crashed"}
              \/ {pc[c], pc'[c]} \cap {"recorded", "rejected", "logged", "crashed"} = {}
    PROVE  UNCHANGED <<HeadHash, Stored, Known>>
  <1>1. HeadHash' = HeadHash /\ Stored' = Stored
    BY HeadMoves, StoredMoves
  <1>2. \A c \in Calls : Known'[c] = Known[c]
    BY DEF Known
  <1>3. Known' = Known
    BY <1>2 DEF Known
  <1> QED
    BY <1>1, <1>3

\* Commit is the abstract Record.
LEMMA RecordStep ==
    ASSUME ChainInv, ChainInv', NEW c \in Calls, Commit(c)
    PROVE  Abstract!Record(c)
  <1> USE DEF ChainInv, TypeOK
  <1>1. /\ pc[c] = "inserted" /\ pc' = [pc EXCEPT ![c] = "committed"]
        /\ rows' = rows \cup {RowOf(c)} /\ \A d \in Calls : RowOf(d)' = RowOf(d)
    BY DEF Commit, txn, RowOf, computeAuditHash
  <1>2. RowOf(c) \notin rows
    BY <1>1, StoredIsEnded DEF Ended, Settled
  <1>3. now_at[c] \in Times /\ HeadHash' = Append(HeadHash, [event |-> EventOf[c], at |-> now_at[c]])
    BY <1>1, CommitStep, RowOfType DEF PendingExtendsHead, computeAuditHash
  <1>4. ASSUME NEW d \in Calls, RowOf(d) = RowOf(c) PROVE d = c
    <2>1. seq[d] = seq[c] /\ seq[c] # 0
      BY <1>1, <1>4, RowOfType DEF SeqsDrawnOnce
    <2> QED
      BY <2>1 DEF SeqsDrawnOnce
  <1>5. Stored' = Stored \cup {c} /\ c \notin Stored
    BY <1>1, <1>2, <1>4 DEF Stored
  <1>6. Known[c] = "pending" /\ \A d \in Calls : Known'[d] = Known[d]
    BY <1>1 DEF Known
  <1>7. Known' = Known
    BY <1>6 DEF Known
  <1> QED
    BY <1>3, <1>5, <1>6, <1>7 DEF Abstract!Record, Stored, Known

\* The answer to COMMIT is the abstract Acknowledge.
LEMMA AcknowledgeStep ==
    ASSUME ChainInv, ChainInv', [Next]_vars, AnswersAreTrue, NEW c \in Calls, Answer(c)
    PROVE  Abstract!Acknowledge(c)
  <1>1. rows' = rows /\ pc[c] = "committed" /\ pc' = [pc EXCEPT ![c] = "recorded"]
    BY DEF Answer, db
  <1>2. HeadHash' = HeadHash /\ Stored' = Stored
    BY <1>1, HeadMoves, StoredMoves
  <1>3. c \in Stored
    BY <1>1 DEF AnswersAreTrue, Stored
  <1>4. Known[c] = "pending" /\ Known' = [Known EXCEPT ![c] = "recorded"]
    BY <1>1 DEF Known, ChainInv, TypeOK
  <1> QED
    BY <1>2, <1>3, <1>4 DEF Abstract!Acknowledge, Stored, Known

\* Every step of the chain is a step of the abstract log or invisible to it.
LEMMA Simulation ==
    ChainInv /\ ChainInv' /\ AnswersAreTrue /\ [Next]_vars
        => [Abstract!Next]_(Abstract!logVars)
  <1> SUFFICES ASSUME ChainInv, ChainInv', AnswersAreTrue, [Next]_vars
               PROVE  Abstract!Next \/ UNCHANGED <<HeadHash, Stored, Known>>
    BY DEF Abstract!logVars, Stored, Known
  <1> USE DEF ChainInv, TypeOK, db, txn
  <1>1. ASSUME NEW c \in Calls, AppendStep(c)
        PROVE  Abstract!Next \/ UNCHANGED <<HeadHash, Stored, Known>>
    <2>1. CASE Begin(c) \/ Lock(c) \/ ReadHead(c) \/ DrawSeq(c) \/ Insert(c)
      <3>1. /\ rows' = rows
            /\ \A d \in Calls :
                  \/ pc'[d] = pc[d]
                  \/ /\ pc[d] \in {"idle", "begun", "locked", "read", "inserting"}
                     /\ pc'[d] \in {"begun", "locked", "read", "inserting", "inserted"}
        BY <2>1 DEF Begin, Lock, ReadHead, DrawSeq, Insert
      <3> QED
        BY <3>1, HiddenStep
    <2>2. CASE UniqueViolation(c)
      BY <2>2, GiveUpStep DEF UniqueViolation, Abstract!Next
    <2>3. CASE Commit(c)
      BY <2>3, RecordStep DEF Abstract!Next
    <2>4. CASE Answer(c)
      BY <2>4, AcknowledgeStep DEF Abstract!Next
    <2>5. CASE LogUnrecorded(c)
      BY <2>5, HiddenStep DEF LogUnrecorded
    <2> QED
      BY <1>1, <2>1, <2>2, <2>3, <2>4, <2>5 DEF AppendStep
  <1>2. ASSUME NEW c \in Calls, Fault(c)
        PROVE  Abstract!Next \/ UNCHANGED <<HeadHash, Stored, Known>>
    <2>1. CASE Abort(c)
      BY <2>1, GiveUpStep DEF Abort, Open, Abstract!Next
    <2>2. CASE LoseAnswer(c)
      BY <2>2, GiveUpStep DEF LoseAnswer, Abstract!Next
    <2>3. CASE NoTenantContext(c)
      BY <2>3, GiveUpStep DEF NoTenantContext, Abstract!Next
    <2>4. CASE Crash(c) /\ pc[c] = "rejected"
      BY <2>4, HiddenStep DEF Crash
    <2>5. CASE Crash(c) /\ pc[c] # "rejected"
      BY <2>5, GiveUpStep DEF Crash, Open, Abstract!Next
    <2> QED
      BY <1>2, <2>1, <2>2, <2>3, <2>4, <2>5 DEF Fault
  <1>3. CASE Tick \/ UNCHANGED vars
    BY <1>3, HiddenStep DEF Tick, vars
  <1> QED
    BY <1>1, <1>2, <1>3 DEF Next

\* The chain implements the append-only log, for any number of calls: history is
\* only ever extended, each call adds at most one entry, an acknowledged call has
\* its entry, and a call that was given up never records later.
THEOREM ChainImplementsLog == Spec => ImplementsAuditLog
  <1>1. Init => Abstract!Init
    <2> SUFFICES ASSUME Init PROVE HeadHash = <<>> /\ Stored = {} /\ Known = [c \in Calls |-> "pending"]
      BY DEF Abstract!Init, Stored, Known
    <2> QED
      BY DEF Init, HeadHash, GENESIS_HASH, Stored, Known
  <1>2. Init => AnswersAreTrue
    BY DEF Init, AnswersAreTrue
  <1> QED
    BY <1>1, <1>2, ChainInvariant, AnswersStep, Simulation, PTL DEF Spec, ImplementsAuditLog, Abstract!Spec

=============================================================================
