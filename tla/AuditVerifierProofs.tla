------------------------ MODULE AuditVerifierProofs -------------------------
(***************************************************************************)
(* The verifier and the two probes beside live appends, edits and missing  *)
(* layers, for any number of calls, any page size and any contenders: no   *)
(* false alarm, no row overtaken, and reports that claim no more than was  *)
(* seen.                                                                   *)
(*                                                                         *)
(* Two levels of trust. What an edit leaves intact is stated of every      *)
(* state (Table: seq is a key of a finite table), and is all that a truth- *)
(* ful report needs: a walk that meets no break ends in a hash that is     *)
(* the sequence of what it read (WalkCommits). What the appends guarantee  *)
(* is stated of states without an edit (Trusted: ChainInv), and there      *)
(* every page is a segment of one chain that begins where the cursor is    *)
(* (SegmentUnbroken) and that only grows beyond it.                        *)
(***************************************************************************)
EXTENDS AuditVerifier, AuditChainProofs, FiniteSetTheorems, WellFoundedInduction

-----------------------------------------------------------------------------
(* The inductive invariant.                                                *)

\* The table, whatever was edited: finite, seq its key, drawn from the sequence by a
\* transaction that is over.
Table ==
    /\ TypeOK
    /\ IsFiniteSet(rows)
    /\ SeqsDrawnOnce
    /\ \A r \in rows : r.seq # 0 /\ \E c \in Calls : pc[c] \in Ended /\ r.seq = seq[c]
    /\ \A q, r \in rows : q.seq = r.seq => q = r

\* Without an edit, all that the append transaction guarantees.
Trusted == edits = 0 => ChainInv /\ AnswersAreTrue

\* A call that was rejected knows why.
RejectionsHaveCauses == \A c \in Calls : pc[c] = "rejected" => error[c] # "none"

\* The statements that a probe has tried when it gets to a label.
Tried(label) ==
    CASE label \in {"idle", "UPDATE"} -> {}
      [] label = "DELETE"             -> {"UPDATE"}
      [] label = "TRUNCATE"           -> {"UPDATE", "DELETE"}
      [] OTHER                        -> Statements

\* What a run without a failure has shown so far.
HasShown(p) ==
    /\ \A op \in Tried(p.pc) : p.restricted \/ <<"trigger", op>> \in p.had
    /\ p.pc \in {"append", "done"} => Privileges \subseteq p.had

\* What the probe found at the start is there, and what it saw refused was refused by
\* a layer that was there.
ProbeIsRight ==
    /\ ~Resting => /\ probe.count > 0
                   /\ ~probe.failed => layers \subseteq probe.had
                   /\ layers # Layers => probe.excused
    /\ ~probe.failed => HasShown(probe)
    /\ ~probe.failed /\ probe.pc = "done" => probe.count > 0
    /\ edits = 0 /\ probe.count > 0 =>
          /\ Cardinality(rows) >= probe.count
          /\ \E r \in rows : r.hash = probe.head
    /\ edits = 0 /\ probe.failed /\ ~probe.excused =>
          probe.count = 0 \/ error[ProbeCall] # "none"

WalkTypes ==
    /\ cursor \in [after : Nat, prev : Hash, total : Nat]
    /\ verdict \in Verdicts
    /\ seen \in Hash

\* What a walk has accepted is what its hash and its count say.
WalkIsSeen ==
    /\ verdict \in {"reading", "ok", "broken", "proved"} => cursor.prev = seen
    /\ verdict \in {"reading", "ok", "broken"} => cursor.total = Len(seen)

\* The cursor of a walk is on the chain, and what is behind it was counted.
OnChain(after, prev) ==
    \/ after = 0 /\ prev = GENESIS_HASH
    \/ \E r \in rows : r.seq = after /\ r.hash = prev

WalkIsOnChain ==
    edits = 0 /\ verdict \in {"reading", "ok", "empty"} =>
        /\ OnChain(cursor.after, cursor.prev)
        /\ cursor.total = Cardinality({r \in rows : r.seq <= cursor.after})

\* The contenders' rows come after the head that the probe read.
ContentionIsAhead ==
    verdict = "firing" =>
        /\ cursor.after < nextSeq
        /\ \A c \in Contenders : seq[c] # 0 => seq[c] > cursor.after
        /\ edits = 0 => cursor.after = 0 \/ Heads # {}

VerdictsAreRight ==
    edits = 0 =>
        /\ verdict # "broken"
        /\ verdict = "failed" => \E c \in Contenders : error[c] # "none"
        /\ verdict = "proved" => \A c \in Contenders : RowOf(c) \in rows

VInv ==
    /\ Table /\ Trusted /\ RejectionsHaveCauses
    /\ GTypeOK /\ ProbeIsRight
    /\ WalkTypes /\ WalkIsSeen /\ WalkIsOnChain /\ ContentionIsAhead /\ VerdictsAreRight

-----------------------------------------------------------------------------
(* First and last rows.                                                    *)

\* Every set of natural numbers has a least one.
LEMMA LeastNumber ==
    ASSUME NEW T \in SUBSET Nat, T # {}
    PROVE  \E x \in T : \A y \in T : x <= y
<1> DEFINE Less == {ss \in Nat \X Nat : ss[1] < ss[2]}
<1>1. IsWellFoundedOn(Less, Nat)
    BY NatLessThanWellFounded DEF OpToRel
<1>2. PICK x \in T : \A y \in T : ~(<<y, x>> \in Less)
    BY <1>1, WFMin
<1>3. ASSUME NEW y \in T PROVE ~(y < x)
  <2>1. x \in Nat /\ y \in Nat
      OBVIOUS
  <2>2. y < x => <<y, x>> \in Less
      BY <2>1
  <2> QED
      BY <2>2, <1>2
<1> QED
    BY <1>3

\* The rows' seqs are numbers below the next value of the sequence.
LEMMA RowsBounded ==
    ASSUME Table, NEW r \in rows
    PROVE  r \in Row /\ r.seq \in Nat \ {0} /\ r.seq < nextSeq /\ nextSeq \in Nat
    BY DEF Table, TypeOK, Row, SeqsDrawnOnce

\* Some rows, if any, have a first one (a page, or the breaks in it).
LEMMA FirstExists ==
    ASSUME Table, NEW S \in SUBSET rows, S # {}
    PROVE  \E r \in S : \A q \in S : r.seq <= q.seq
<1> DEFINE T == {r.seq : r \in S}
<1>1. T \in SUBSET Nat /\ T # {}
    BY RowsBounded
<1>2. PICK x \in T : \A y \in T : x <= y
    BY <1>1, LeastNumber
<1> QED
    BY <1>2

\* ... and a last one, which LastOf is.
LEMMA LastExists ==
    ASSUME Table, NEW S \in SUBSET rows, S # {}
    PROVE  LastOf(S) \in S /\ \A q \in S : q.seq <= LastOf(S).seq
<1> DEFINE T == {m \in Nat : \A r \in S : r.seq <= m}
<1>0. \A r \in S : r.seq \in Nat
    BY RowsBounded
<1>1. nextSeq \in T
    BY RowsBounded DEF Table, TypeOK
<1>2. PICK m \in T : \A y \in T : m <= y
    BY <1>1, LeastNumber
<1>3. \E r \in S : r.seq = m
  <2> SUFFICES ASSUME \A r \in S : r.seq # m PROVE FALSE
      OBVIOUS
  <2>1. m # 0
      BY <1>0, <1>2
  <2>2. m - 1 \in T
      BY <1>0, <1>2, <2>1
  <2> QED
      BY <1>2, <2>2
<1>4. \E r \in S : \A q \in S : q.seq <= r.seq
    BY <1>2, <1>3
<1> QED
    BY <1>4 DEF LastOf

\* The head has a hash to read, edited or not (HeadHash).
LEMMA HeadHasType ==
    ASSUME Table
    PROVE  HeadHash \in Hash
<1>1. CASE rows = {}
    BY <1>1, EmptySeq DEF HeadHash, GENESIS_HASH, Hash
<1>2. CASE rows # {}
  <2>1. \E r \in rows : IsHead(r)
      BY <1>2, LastExists DEF IsHead
  <2>2. (CHOOSE r \in rows : IsHead(r)) \in rows
      BY <2>1
  <2> QED
      BY <1>2, <2>2, RowsBounded DEF HeadHash, Row
<1> QED
    BY <1>1, <1>2

-----------------------------------------------------------------------------
(* What a walk commits to.                                                 *)

\* No first break means no break at all (verifyAuditChain).
LEMMA NoBreaks ==
    ASSUME Table, NEW S \in SUBSET rows, NEW prev, verifyAuditChain(S, prev) = {}
    PROVE  \A r \in S : ~Breaks(S, r, prev)
<1> DEFINE B == {r \in S : Breaks(S, r, prev)}
<1> SUFFICES ASSUME B # {} PROVE FALSE
    OBVIOUS
<1>1. PICK r \in B : \A q \in B : r.seq <= q.seq
    BY FirstExists
<1>2. \A q \in Before(S, r) : ~Breaks(S, q, prev)
  <2> SUFFICES ASSUME NEW q \in S, q.seq < r.seq, Breaks(S, q, prev) PROVE FALSE
      BY DEF Before
  <2> QED
      BY <1>1, RowsBounded
<1> QED
    BY <1>1, <1>2 DEF verifyAuditChain

\* The rows of S up to r.
UpTo(S, r) == {q \in S : q.seq <= r.seq}

\* What is before r ends in LastOf, and is all that is up to it.
LEMMA BeforeIsUpTo ==
    ASSUME Table, NEW S \in SUBSET rows, NEW r \in S, Before(S, r) # {}
    PROVE  LET q == LastOf(Before(S, r))
           IN  q \in S /\ q.seq < r.seq /\ UpTo(S, q) = Before(S, r)
<1> DEFINE q == LastOf(Before(S, r))
<1>1. Before(S, r) \in SUBSET rows
    BY DEF Before
<1>2. q \in Before(S, r) /\ \A p \in Before(S, r) : p.seq <= q.seq
    BY <1>1, LastExists, Zenon
<1>3. q \in S /\ q.seq < r.seq
    BY <1>2 DEF Before
<1>4. ASSUME NEW p \in S PROVE p.seq <= q.seq <=> p.seq < r.seq
    BY <1>2, <1>3, RowsBounded DEF Before
<1>5. q \in S /\ q.seq < r.seq /\ UpTo(S, q) = Before(S, r)
  <2> HIDE DEF q
  <2> QED
      BY <1>3, <1>4 DEF UpTo, Before
<1> QED
    BY <1>5

\* A row after all others is the last entry (Entries).
LEMMA EntriesAppend ==
    ASSUME NEW S, IsFiniteSet(S), NEW r, r \notin S, r.seq \in Nat,
           \A q \in S : q.seq \in Nat /\ q.seq < r.seq
    PROVE  Entries(S \cup {r}) = Append(Entries(S), EntryOf(r))
<1> DEFINE T == S \cup {r}
           n == Cardinality(S)
           At(X, i) == {q \in X : Cardinality(Before(X, q)) + 1 = i}
<1>1. n \in Nat /\ IsFiniteSet(T) /\ Cardinality(T) = n + 1
    BY FS_CardinalityType, FS_AddElement
<1>2. Before(T, r) = S /\ \A q \in S : Before(T, q) = Before(S, q)
    BY DEF Before
<1>3. ASSUME NEW q \in S PROVE Cardinality(Before(S, q)) \in 0 .. n - 1
  <2>1. Before(S, q) \in SUBSET (S \ {q})
      BY DEF Before
  <2>2. IsFiniteSet(S \ {q}) /\ Cardinality(S \ {q}) = n - 1
      BY FS_RemoveElement
  <2>3. IsFiniteSet(Before(S, q)) /\ Cardinality(Before(S, q)) <= n - 1
      BY <2>1, <2>2, FS_Subset
  <2> QED
      BY <1>1, <2>2, <2>3, FS_CardinalityType
<1>3a. \A q \in S : /\ Cardinality(Before(S, q)) \in 0 .. n - 1
                   /\ Cardinality(Before(T, q)) = Cardinality(Before(S, q))
    BY <1>2, <1>3
<1>3b. Cardinality(Before(T, r)) = n
    BY <1>2
<1> HIDE DEF n
<1>4. At(T, n + 1) = {r}
  <2>1. \A q \in S : Cardinality(Before(T, q)) + 1 # n + 1
      BY <1>1, <1>3a
  <2> QED
      BY <1>1, <2>1, <1>3b
<1>5. ASSUME NEW i \in 1 .. n PROVE At(T, i) = At(S, i)
  <2>1. Cardinality(Before(T, r)) + 1 # i
      BY <1>1, <1>3b
  <2> QED
      BY <2>1, <1>3a
<1>6. Nth(T, n + 1) = r
    BY <1>4 DEF Nth
<1>7. ASSUME NEW i \in 1 .. n PROVE Nth(T, i) = Nth(S, i)
    BY <1>5 DEF Nth
<1> DEFINE V == {EntryOf(Nth(T, i)) : i \in 1 .. n + 1}
<1>8. Entries(T) = [i \in 1 .. n + 1 |-> EntryOf(Nth(T, i))]
    BY <1>1 DEF Entries
<1>9. Entries(S) = [i \in 1 .. n |-> EntryOf(Nth(T, i))]
    BY <1>7 DEF Entries, n
<1>10. EntryOf(r) = EntryOf(Nth(T, n + 1)) /\ EntryOf(r) \in V
  <2>1. n + 1 \in 1 .. n + 1
      BY <1>1
  <2> QED
      BY <2>1, <1>6
<1> HIDE DEF T
<1>11. Entries(S) \in Seq(V) /\ Len(Entries(S)) = n
    BY <1>1, <1>9
<1>12. Entries(T) \in Seq(V) /\ Len(Entries(T)) = n + 1
    BY <1>1, <1>8
<1>13. /\ Append(Entries(S), EntryOf(r)) \in Seq(V)
       /\ Len(Append(Entries(S), EntryOf(r))) = n + 1
       /\ \A i \in 1 .. n : Append(Entries(S), EntryOf(r))[i] = Entries(S)[i]
       /\ Append(Entries(S), EntryOf(r))[n + 1] = EntryOf(r)
    BY <1>10, <1>11, AppendProperties
<1>14. ASSUME NEW i \in 1 .. n + 1 PROVE Entries(T)[i] = Append(Entries(S), EntryOf(r))[i]
  <2>1. CASE i = n + 1
      BY <1>8, <1>10, <1>13, <2>1
  <2>2. CASE i \in 1 .. n
      BY <1>8, <1>9, <1>13, <2>2
  <2>3. n \in Nat /\ i \in 1 .. n + 1
      BY <1>1
  <2>4. i = n + 1 \/ i \in 1 .. n
      BY <2>3
  <2> QED
      BY <2>1, <2>2, <2>4
<1> HIDE DEF V
<1>15. Entries(T) = Append(Entries(S), EntryOf(r))
    BY <1>12, <1>13, <1>14, SeqEqual
<1> QED
    BY <1>15 DEF T

\* No rows, no entries.
LEMMA EntriesEmpty == Entries({}) = << >>
<1>1. Cardinality({}) = 0
    BY FS_EmptySet
<1>2. Entries({}) = [i \in 1 .. 0 |-> EntryOf(Nth({}, i))]
    BY <1>1 DEF Entries
<1> QED
    BY <1>2

\* What is read from rows are entries, as many as there are rows.
LEMMA EntriesType ==
    ASSUME Table, NEW S \in SUBSET rows
    PROVE  /\ IsFiniteSet(S) /\ Cardinality(S) \in Nat
           /\ Entries(S) \in Hash /\ Len(Entries(S)) = Cardinality(S)
<1>0. \A X \in SUBSET rows : IsFiniteSet(X) /\ Cardinality(X) \in Nat
    BY FS_Subset, FS_CardinalityType DEF Table
<1> DEFINE Bad == {X \in SUBSET rows : Entries(X) \notin Hash}
           Sizes == {Cardinality(X) : X \in Bad}
<1>1. Bad = {}
  <2> SUFFICES ASSUME Bad # {} PROVE FALSE
      OBVIOUS
  <2>1. Sizes \in SUBSET Nat /\ Sizes # {}
      BY <1>0
  <2>2. PICK k \in Sizes : \A m \in Sizes : k <= m
      BY <2>1, LeastNumber
  <2>3. PICK X \in Bad : Cardinality(X) = k
      OBVIOUS
  <2>4. X # {}
      BY EntriesEmpty, EmptySeq DEF Hash
  <2> DEFINE r == LastOf(X)
             Y == X \ {r}
  <2>5. r \in X /\ \A q \in X : q.seq <= r.seq
      BY <2>4, LastExists
  <2>6. \A q \in Y : q \in rows /\ q.seq < r.seq
      BY <2>5, RowsBounded DEF Table
  <2>7. Cardinality(Y) = Cardinality(X) - 1 /\ Y \in SUBSET rows
      BY <1>0, <2>5, FS_RemoveElement
  <2>8. Entries(Y) \in Hash
      BY <1>0, <2>2, <2>3, <2>7
  <2> HIDE DEF r
  <2>9. r \in rows /\ X = Y \cup {r} /\ r \notin Y
      BY <2>5
  <2> HIDE DEF Y
  <2>10. Entries(X) = Append(Entries(Y), EntryOf(r))
      BY <1>0, <2>6, <2>7, <2>9, RowsBounded, EntriesAppend
  <2>11. EntryOf(r) \in Entry
      BY <2>9, RowsBounded DEF Row, Entry, EntryOf
  <2>12. Entries(X) \in Hash
      BY <2>8, <2>10, <2>11, AppendProperties DEF Hash
  <2> QED
      BY <2>12
<1>2. Entries(S) \in Hash
    BY <1>1
<1>3. Len(Entries(S)) = Cardinality(S)
    BY <1>0 DEF Entries
<1> QED
    BY <1>0, <1>2, <1>3

\* A walk that meets no break ends in a hash that is what it began with and what it
\* read: up to every row of it, and so at its end.
LEMMA WalkCommits ==
    ASSUME Table, NEW S \in SUBSET rows, NEW prev \in Hash,
           \A r \in S : ~Breaks(S, r, prev)
    PROVE  \A r \in S : /\ r.hash = prev \o Entries(UpTo(S, r))
                        /\ ExpectedPrev(S, r, prev) = prev \o Entries(Before(S, r))
<1> DEFINE Bad == {r \in S : r.hash # prev \o Entries(UpTo(S, r))}
<1>1. ASSUME NEW r \in S, \A q \in S : q.seq < r.seq => q \notin Bad
      PROVE  ExpectedPrev(S, r, prev) = prev \o Entries(Before(S, r))
  <2>1. CASE Before(S, r) = {}
      BY <2>1, EntriesEmpty, ConcatEmptySeq DEF ExpectedPrev, Hash
  <2>2. CASE Before(S, r) # {}
      BY <1>1, <2>2, BeforeIsUpTo DEF ExpectedPrev
  <2> QED
      BY <2>1, <2>2
<1>2. ASSUME NEW r \in S, ExpectedPrev(S, r, prev) = prev \o Entries(Before(S, r))
      PROVE  r.hash = prev \o Entries(UpTo(S, r))
  <2> DEFINE B == Before(S, r)
  <2>1. B \in SUBSET rows /\ r \in rows
      BY DEF Before
  <2>2. r \notin B /\ UpTo(S, r) = B \cup {r} /\ \A q \in B : q.seq < r.seq
      BY RowsBounded DEF Before, UpTo, Table
  <2>3. r.hash = Append(prev \o Entries(B), EntryOf(r))
      BY <1>2 DEF Breaks, computeAuditHash, EntryOf
  <2> HIDE DEF B
  <2>4. Entries(UpTo(S, r)) = Append(Entries(B), EntryOf(r))
      BY <2>1, <2>2, EntriesAppend, EntriesType, RowsBounded
  <2>5. EntryOf(r) \in Entry /\ Entries(B) \in Seq(Entry) /\ prev \in Seq(Entry)
      BY <2>1, RowsBounded, EntriesType DEF EntryOf, Row, Entry, Hash
  <2>6. <<EntryOf(r)>> \in Seq(Entry) /\ prev \o Entries(B) \in Seq(Entry)
      BY <2>5, ConcatProperties
  <2>7. Append(prev \o Entries(B), EntryOf(r)) = (prev \o Entries(B)) \o <<EntryOf(r)>>
      BY <2>5, <2>6, AppendIsConcat
  <2>8. Append(Entries(B), EntryOf(r)) = Entries(B) \o <<EntryOf(r)>>
      BY <2>5, AppendIsConcat
  <2>9. (prev \o Entries(B)) \o <<EntryOf(r)>> = prev \o (Entries(B) \o <<EntryOf(r)>>)
      BY <2>5, <2>6, ConcatAssociative
  <2> QED
      BY <2>3, <2>4, <2>7, <2>8, <2>9
<1>3. Bad = {}
  <2> SUFFICES ASSUME Bad # {} PROVE FALSE
      OBVIOUS
  <2>1. PICK r \in Bad : \A q \in Bad : r.seq <= q.seq
      BY FirstExists
  <2>2. \A q \in S : q.seq < r.seq => q \notin Bad
      BY <2>1, RowsBounded
  <2> QED
      BY <1>1, <1>2, <2>1, <2>2
<1> QED
    BY <1>1, <1>2, <1>3

\* ... a whole page, in particular.
LEMMA PageCommits ==
    ASSUME Table, NEW S \in SUBSET rows, S # {}, NEW prev \in Hash,
           verifyAuditChain(S, prev) = {}
    PROVE  LastOf(S).hash = prev \o Entries(S)
<1>1. \A r \in S : ~Breaks(S, r, prev)
    BY NoBreaks
<1>2. LastOf(S) \in S /\ UpTo(S, LastOf(S)) = S
    BY LastExists DEF UpTo
<1> QED
    BY <1>1, <1>2, WalkCommits

\* ... and the part of a page before its first break.
LEMMA PrefixCommits ==
    ASSUME Table, NEW S \in SUBSET rows, NEW prev \in Hash, NEW r \in verifyAuditChain(S, prev)
    PROVE  ExpectedPrev(S, r, prev) = prev \o Entries(Before(S, r))
<1> DEFINE B == Before(S, r)
<1>1. B \in SUBSET rows /\ r \in S /\ \A q \in B : ~Breaks(S, q, prev)
    BY DEF Before, verifyAuditChain
<1>2. \A q \in B : Before(B, q) = Before(S, q)
    BY <1>1, RowsBounded DEF Before
<1>3. \A q \in B : ~Breaks(B, q, prev)
    BY <1>1, <1>2 DEF Breaks, ExpectedPrev
<1>4. CASE B = {}
    BY <1>4, EntriesEmpty, ConcatEmptySeq DEF ExpectedPrev, Hash
<1>5. CASE B # {}
  <2>1. LastOf(B) \in B /\ UpTo(B, LastOf(B)) = B
      BY <1>1, <1>5, LastExists DEF UpTo
  <2>2. LastOf(B).hash = prev \o Entries(B)
      BY <1>1, <1>3, <2>1, WalkCommits
  <2> QED
      BY <1>5, <2>2 DEF ExpectedPrev
<1> QED
    BY <1>4, <1>5

\* Hash and length of a walk that goes on.
LEMMA WalkGoesOn ==
    ASSUME Table, NEW S \in SUBSET rows, NEW prev \in Hash
    PROVE  prev \o Entries(S) \in Hash /\ Len(prev \o Entries(S)) = Len(prev) + Cardinality(S)
    BY EntriesType, ConcatProperties DEF Hash

-----------------------------------------------------------------------------
(* Pages of a chain that nobody edited.                                    *)

\* Rows that follow one another from the cursor on.
Segment(S, after) ==
    /\ S \subseteq rows
    /\ \A r \in S : r.seq > after
    /\ \A r \in S, q \in rows : after < q.seq /\ q.seq < r.seq => q \in S

\* Such rows have no break (ChainLinear, verifyAuditChain).
LEMMA SegmentUnbroken ==
    ASSUME Table, ChainLinear, NEW after \in Nat, NEW prev, OnChain(after, prev),
           NEW S, Segment(S, after)
    PROVE  verifyAuditChain(S, prev) = {}
<1> SUFFICES ASSUME NEW r \in S PROVE ~Breaks(S, r, prev)
    BY DEF verifyAuditChain
<1>1. r \in rows /\ r.seq > after /\ S \in SUBSET rows
    BY DEF Segment
<1>2. r.hash = computeAuditHash(r.event, r.at, r.prevHash)
    BY <1>1 DEF ChainLinear
<1>3. r.prevHash = ExpectedPrev(S, r, prev)
  <2>1. CASE r.prevHash = GENESIS_HASH /\ \A q \in rows : r.seq <= q.seq
    <3>1. Before(S, r) = {}
        BY <1>1, <2>1, RowsBounded DEF Before
    <3>2. prev = GENESIS_HASH
        BY <1>1, <2>1, RowsBounded DEF OnChain
    <3> QED
        BY <2>1, <3>1, <3>2 DEF ExpectedPrev
  <2>2. ASSUME NEW q \in rows, Precedes(q, r), r.prevHash = q.hash
        PROVE  r.prevHash = ExpectedPrev(S, r, prev)
    <3>0. q.seq < r.seq /\ \A p \in rows : p.seq <= q.seq \/ r.seq <= p.seq
        BY <2>2 DEF Precedes
    <3>1. CASE q \in S
      <4>1. q \in Before(S, r) /\ Before(S, r) \in SUBSET rows
          BY <1>1, <3>0, <3>1 DEF Before
      <4>2. /\ LastOf(Before(S, r)) \in Before(S, r)
            /\ q.seq <= LastOf(Before(S, r)).seq
          BY <4>1, LastExists
      <4>3. /\ LastOf(Before(S, r)) \in rows
            /\ LastOf(Before(S, r)).seq < r.seq
          BY <1>1, <4>2 DEF Before
      <4>4. LastOf(Before(S, r)).seq = q.seq
          BY <1>1, <3>0, <4>2, <4>3, RowsBounded
      <4>5. LastOf(Before(S, r)) = q
          BY <4>3, <4>4 DEF Table
      <4> QED
          BY <2>2, <4>1, <4>5 DEF ExpectedPrev
    <3>2. CASE q \notin S
      <4>1. q.seq <= after
          BY <1>1, <3>0, <3>2, RowsBounded DEF Segment
      <4>2. PICK p \in rows : p.seq = after /\ p.hash = prev
          BY <4>1, RowsBounded DEF OnChain
      <4>3. p = q
        <5>1. p.seq = q.seq
            BY <1>1, <3>0, <4>1, <4>2, RowsBounded
        <5> QED
            BY <5>1 DEF Table
      <4>4. Before(S, r) = {}
          BY <1>1, <3>0, <4>1, RowsBounded DEF Before, Segment
      <4> QED
          BY <2>2, <4>2, <4>3, <4>4 DEF ExpectedPrev
    <3> QED
        BY <3>1, <3>2
  <2> QED
      BY <1>1, <2>1, <2>2 DEF ChainLinear
<1> QED
    BY <1>2, <1>3 DEF Breaks

\* A page is such rows, whatever its size (readPage).
LEMMA PageIsSegment ==
    ASSUME Table, NEW after \in Nat
    PROVE  Segment(readPage(after), after)
<1> DEFINE Between(r) == {q \in rows : after < q.seq /\ q.seq < r.seq}
<1> SUFFICES ASSUME NEW r \in readPage(after), NEW q \in rows, after < q.seq, q.seq < r.seq
             PROVE  q \in readPage(after)
    BY DEF Segment, readPage
<1>1. r \in rows /\ Cardinality(Between(r)) < PageSize
    BY DEF readPage
<1>2. Between(q) \in SUBSET Between(r)
    BY <1>1, RowsBounded
<1>3. Between(r) \in SUBSET rows /\ Between(q) \in SUBSET rows
    OBVIOUS
<1>4. IsFiniteSet(Between(r)) /\ Cardinality(Between(r)) \in Nat /\ Cardinality(Between(q)) \in Nat
    BY <1>3, EntriesType
<1>5. Cardinality(Between(q)) <= Cardinality(Between(r))
    BY <1>2, <1>4, FS_Subset
<1>6. Cardinality(Between(q)) < PageSize
    BY <1>1, <1>4, <1>5, PageAssumption
<1> QED
    BY <1>6 DEF readPage

\* The rows behind a cursor.
Behind(after) == {r \in rows : r.seq <= after}

\* A page adds its rows to those behind the cursor, and leaves none out.
LEMMA PageAdvances ==
    ASSUME Table, NEW after \in Nat, NEW S, S # {}, Segment(S, after)
    PROVE  Cardinality(Behind(LastOf(S).seq)) = Cardinality(Behind(after)) + Cardinality(S)
<1>1. S \in SUBSET rows /\ LastOf(S) \in S /\ \A q \in S : q.seq <= LastOf(S).seq
    BY LastExists DEF Segment
<1> DEFINE m == LastOf(S).seq
<1>2. Behind(m) = Behind(after) \cup S
  <2>1. ASSUME NEW r \in rows PROVE r.seq <= m <=> r.seq <= after \/ r \in S
    <3>0. LastOf(S) \in rows
        BY <1>1
    <3>1. r.seq \in Nat /\ m \in Nat /\ m > after
        BY <1>1, <3>0, RowsBounded DEF Segment
    <3>2. r.seq = m => r = LastOf(S)
        BY <3>0 DEF Table
    <3> QED
        BY <1>1, <3>1, <3>2 DEF Segment
  <2> QED
      BY <1>1, <2>1 DEF Behind
<1>3. Behind(after) \cap S = {}
    BY <1>1, RowsBounded DEF Behind, Segment
<1>4. /\ IsFiniteSet(S) /\ IsFiniteSet(Behind(after))
      /\ Cardinality(S) \in Nat /\ Cardinality(Behind(after)) \in Nat
  <2>1. Behind(after) \in SUBSET rows
      BY DEF Behind
  <2> QED
      BY <1>1, <2>1, EntriesType
<1>5. Cardinality(Behind(after) \cup S) = Cardinality(Behind(after)) + Cardinality(S) - Cardinality({})
    BY <1>3, <1>4, FS_Union
<1> QED
    BY <1>2, <1>4, <1>5, FS_EmptySet

-----------------------------------------------------------------------------
(* Steps of the appends.                                                   *)

Early == {"idle", "begun", "locked", "read"}

\* What a step of any call does to the sequence, the table and the errors.
LEMMA CallFrame ==
    ASSUME TypeOK, [Next]_vars
    PROVE  /\ rows' = rows \/ \E c \in Calls : Commit(c)
           /\ \/ seq' = seq /\ nextSeq' = nextSeq
              \/ \E c \in Calls : DrawSeq(c)
           /\ \A c \in Calls :
                 /\ pc'[c] \in Early => pc[c] \in Early
                 /\ pc'[c] \in {"inserting", "inserted"} =>
                       pc[c] \in {"inserting", "inserted"} \/ DrawSeq(c)
                 /\ pc[c] \in Ended => pc'[c] \in Ended /\ seq'[c] = seq[c]
                 /\ error[c] # "none" => error'[c] # "none"
                 /\ pc'[c] = "rejected" => pc[c] = "rejected" \/ error'[c] # "none"
<1> USE DEF TypeOK, Ended, Settled, Open, Early, db, txn
<1>1. ASSUME NEW d \in Calls, DrawSeq(d)
      PROVE  /\ rows' = rows /\ error' = error
             /\ \A c \in Calls : c # d => pc'[c] = pc[c] /\ seq'[c] = seq[c]
             /\ pc[d] = "read" /\ pc'[d] = "inserting"
    BY <1>1 DEF DrawSeq
<1>2. ASSUME NEW d \in Calls,
             \/ Begin(d) \/ Lock(d) \/ ReadHead(d) \/ Insert(d) \/ UniqueViolation(d) \/ Answer(d)
             \/ LogUnrecorded(d) \/ Fault(d)
      PROVE  /\ rows' = rows /\ seq' = seq /\ nextSeq' = nextSeq
             /\ \A c \in Calls : c # d => pc'[c] = pc[c] /\ error'[c] = error[c]
             /\ error'[d] = error[d] \/ error'[d] # "none"
             /\ pc'[d] \in Early => pc[d] \in Early
             /\ pc'[d] \in {"inserting", "inserted"} => pc[d] = "inserting"
             /\ pc[d] \in Ended => pc'[d] \in Ended
             /\ pc'[d] = "rejected" => error'[d] # "none"
    BY <1>2 DEF Begin, Lock, ReadHead, Insert, UniqueViolation, Answer, LogUnrecorded, Fault,
                Abort, LoseAnswer, NoTenantContext, Crash
<1>3. ASSUME NEW d \in Calls, Commit(d)
      PROVE  /\ seq' = seq /\ nextSeq' = nextSeq /\ error' = error
             /\ \A c \in Calls : c # d => pc'[c] = pc[c]
             /\ pc[d] = "inserted" /\ pc'[d] = "committed"
    BY <1>3 DEF Commit
<1>4. Tick \/ UNCHANGED vars => UNCHANGED <<rows, nextSeq, seq, pc, error>>
    BY DEF Tick, vars
<1>5. CASE \E d \in Calls : DrawSeq(d)
    BY <1>1, <1>5
<1>6. CASE \E d \in Calls : \/ Begin(d) \/ Lock(d) \/ ReadHead(d) \/ Insert(d) \/ UniqueViolation(d)
                            \/ Answer(d) \/ LogUnrecorded(d) \/ Fault(d)
    BY <1>2, <1>6
<1>7. CASE \E d \in Calls : Commit(d)
    BY <1>3, <1>7
<1>8. CASE Tick \/ UNCHANGED vars
    BY <1>4, <1>8
<1> QED
    BY <1>5, <1>6, <1>7, <1>8 DEF Next, AppendStep

\* A step of the appends keeps the table in order, edited or not.
LEMMA TableNext ==
    ASSUME Table, [Next]_vars
    PROVE  Table'
<1>1. TypeOK'
    BY HeadHasType, TypeStep DEF Table
<1>2. SeqsDrawnOnce'
  <2>1. CASE seq' = seq /\ nextSeq' = nextSeq
    <3>1. ASSUME NEW c \in Calls
          PROVE  /\ pc'[c] \in Early => seq[c] = 0
                 /\ pc'[c] \in {"inserting", "inserted"} => seq[c] # 0
      <4>1. ~DrawSeq(c)
          BY <2>1 DEF DrawSeq, Table, TypeOK
      <4> QED
          BY <4>1, CallFrame DEF Table, SeqsDrawnOnce, Early
    <3> QED
        BY <2>1, <3>1 DEF Table, SeqsDrawnOnce, Early
  <2>2. ASSUME NEW c \in Calls, DrawSeq(c) PROVE SeqsDrawnOnce'
      BY <2>2 DEF DrawSeq, Table, TypeOK, SeqsDrawnOnce
  <2> QED
      BY <2>1, <2>2, CallFrame DEF Table
<1>3. \A c \in Calls : pc[c] \in Ended => pc'[c] \in Ended /\ seq'[c] = seq[c]
    BY CallFrame DEF Table
<1>4. CASE rows' = rows
    BY <1>1, <1>2, <1>3, <1>4 DEF Table
<1>5. ASSUME NEW c \in Calls, Commit(c) PROVE Table'
  <2>0. /\ rows' = rows \cup {RowOf(c)} /\ pc[c] = "inserted" /\ pc'[c] = "committed" /\ seq' = seq
      BY <1>5 DEF Commit, txn, Table, TypeOK
  <2>1. RowOf(c).seq = seq[c] /\ seq[c] # 0 /\ pc[c] \notin Ended
      BY <2>0, RowOfType DEF Table, SeqsDrawnOnce, Ended, Settled
  <2>2. \A r \in rows : r.seq # seq[c]
      BY <2>1 DEF Table, SeqsDrawnOnce
  <2>3. IsFiniteSet(rows')
      BY <2>0, FS_AddElement DEF Table
  <2>4. pc'[c] \in Ended
      BY <2>0 DEF Ended
  <2>5. \A r \in rows' : r.seq # 0 /\ \E d \in Calls : pc'[d] \in Ended /\ r.seq = seq'[d]
      BY <1>3, <2>0, <2>1, <2>4 DEF Table
  <2>6. \A q, r \in rows' : q.seq = r.seq => q = r
      BY <2>0, <2>1, <2>2 DEF Table
  <2> QED
      BY <1>1, <1>2, <2>3, <2>5, <2>6 DEF Table
<1> QED
    BY <1>4, <1>5, CallFrame DEF Table

\* ... and what is guaranteed without an edit, the rows that were there included; a
\* new one comes after them all.
LEMMA TrustedNext ==
    ASSUME Table, ChainInv, AnswersAreTrue, [Next]_vars
    PROVE  /\ ChainInv' /\ AnswersAreTrue'
           /\ rows \subseteq rows'
           /\ \A r \in rows' \ rows, q \in rows : q.seq < r.seq
<1>1. ASSUME NEW c \in Calls, Commit(c) PROVE \A r \in rows' \ rows, q \in rows : q.seq < r.seq
    BY <1>1, RowOfType DEF Commit, ChainInv, PendingExtendsHead
<1> QED
    BY <1>1, ChainInvStep, AnswersStep, StepFrame, CallFrame DEF Table

\* The parts of the invariant that a step of the appends can disturb.
LEMMA ProbeSurvivesAppends ==
    ASSUME VInv, AppendOrFault
    PROVE  GTypeOK' /\ ProbeIsRight'
<1>0. [Next]_vars /\ UNCHANGED guards
    BY DEF AppendOrFault
<1>1. UNCHANGED <<layers, edits, probe>>
    BY <1>0 DEF guards
<1>2. GTypeOK'
    BY <1>1 DEF VInv, GTypeOK
<1>3. ASSUME edits = 0, probe.count > 0
      PROVE  Cardinality(rows') >= probe.count /\ \E r \in rows' : r.hash = probe.head
  <2>1. rows \subseteq rows'
      BY <1>0, <1>3, TrustedNext DEF VInv, Trusted
  <2>2. IsFiniteSet(rows) /\ IsFiniteSet(rows')
      BY <1>0, TableNext DEF VInv, Table
  <2>3. Cardinality(rows) <= Cardinality(rows')
      BY <2>1, <2>2, FS_Subset
  <2>4. Cardinality(rows) \in Nat /\ Cardinality(rows') \in Nat /\ probe.count \in Nat
      BY <2>2, FS_CardinalityType DEF VInv, GTypeOK, ProbeRun
  <2>5. Cardinality(rows) >= probe.count /\ \E r \in rows : r.hash = probe.head
      BY <1>3 DEF VInv, ProbeIsRight
  <2> QED
      BY <2>1, <2>3, <2>4, <2>5
<1>4. error[ProbeCall] # "none" => error'[ProbeCall] # "none"
    BY <1>0, CallFrame, ImmutabilityAssumption DEF VInv, Table
<1>5. ProbeIsRight'
    BY <1>1, <1>3, <1>4 DEF VInv, ProbeIsRight, Resting
<1> QED
    BY <1>2, <1>5

\* A row that commits is ahead of every cursor, and what was recorded stays.
LEMMA WalkSurvivesAppends ==
    ASSUME VInv, AppendOrFault
    PROVE  WalkTypes' /\ WalkIsSeen' /\ WalkIsOnChain' /\ ContentionIsAhead' /\ VerdictsAreRight'
<1>0. [Next]_vars /\ UNCHANGED <<edits, cursor, verdict, seen>>
    BY DEF AppendOrFault, guards, verifier
<1>1. WalkTypes' /\ WalkIsSeen'
    BY <1>0 DEF VInv, WalkTypes, WalkIsSeen
<1>2. edits = 0 => /\ rows \subseteq rows'
                   /\ \A r \in rows' \ rows, q \in rows : q.seq < r.seq
    BY <1>0, TrustedNext DEF VInv, Trusted
<1>3. WalkIsOnChain'
  <2> SUFFICES ASSUME edits = 0, verdict \in {"reading", "ok", "empty"}
               PROVE  /\ OnChain(cursor.after, cursor.prev)'
                      /\ cursor.total = Cardinality({r \in rows' : r.seq <= cursor.after})
      BY <1>0 DEF WalkIsOnChain
  <2>1. /\ OnChain(cursor.after, cursor.prev)
        /\ cursor.total = Cardinality({r \in rows : r.seq <= cursor.after})
      BY DEF VInv, WalkIsOnChain
  <2>2. OnChain(cursor.after, cursor.prev)'
      BY <1>0, <1>2, <2>1 DEF OnChain
  <2>3. ASSUME NEW r \in rows' \ rows PROVE ~(r.seq <= cursor.after)
    <3>1. r.seq \in Nat \ {0}
        BY <1>0, TableNext DEF VInv, Table, TypeOK, Row
    <3>2. CASE cursor.after = 0
        BY <3>1, <3>2
    <3>3. ASSUME NEW q \in rows, q.seq = cursor.after PROVE ~(r.seq <= cursor.after)
        BY <1>2, <2>3, <3>1, <3>3, RowsBounded DEF VInv
    <3> QED
        BY <2>1, <3>2, <3>3 DEF OnChain
  <2>4. {r \in rows' : r.seq <= cursor.after} = {r \in rows : r.seq <= cursor.after}
      BY <1>2, <2>3
  <2> QED
      BY <2>1, <2>2, <2>4
<1>4. ContentionIsAhead'
  <2> SUFFICES ASSUME verdict = "firing"
               PROVE  /\ cursor.after < nextSeq'
                      /\ \A c \in Contenders : seq'[c] # 0 => seq'[c] > cursor.after
                      /\ edits = 0 => cursor.after = 0 \/ Heads' # {}
      BY <1>0 DEF ContentionIsAhead
  <2>0. /\ cursor.after \in Nat /\ nextSeq \in Nat
        /\ cursor.after < nextSeq
        /\ \A c \in Contenders : seq[c] # 0 => seq[c] > cursor.after
        /\ edits = 0 => cursor.after = 0 \/ Heads # {}
      BY DEF VInv, ContentionIsAhead, WalkTypes, Table, TypeOK
  <2>1. /\ cursor.after < nextSeq'
        /\ \A c \in Contenders : seq'[c] # 0 => seq'[c] > cursor.after
    <3>1. CASE seq' = seq /\ nextSeq' = nextSeq
        BY <2>0, <3>1
    <3>2. ASSUME NEW d \in Calls, DrawSeq(d)
          PROVE  /\ cursor.after < nextSeq'
                 /\ \A c \in Contenders : seq'[c] # 0 => seq'[c] > cursor.after
        BY <2>0, <3>2, ContendersAssumption DEF DrawSeq, VInv, Table, TypeOK
    <3> QED
        BY <1>0, <3>1, <3>2, CallFrame DEF VInv, Table
  <2>2. edits = 0 => Heads \subseteq Heads'
      BY <1>0, <1>2 DEF Heads
  <2> QED
      BY <2>0, <2>1, <2>2
<1>5. VerdictsAreRight'
  <2> SUFFICES ASSUME edits = 0
               PROVE  /\ verdict # "broken"
                      /\ verdict = "failed" => \E c \in Contenders : error'[c] # "none"
                      /\ verdict = "proved" => \A c \in Contenders : RowOf(c)' \in rows'
      BY <1>0 DEF VerdictsAreRight
  <2>0. /\ verdict # "broken"
        /\ verdict = "failed" => \E c \in Contenders : error[c] # "none"
        /\ verdict = "proved" => \A c \in Contenders : RowOf(c) \in rows
      BY DEF VInv, VerdictsAreRight
  <2>1. ASSUME NEW c \in Contenders PROVE error[c] # "none" => error'[c] # "none"
      BY <1>0, CallFrame, ContendersAssumption DEF VInv, Table
  <2>2. ASSUME NEW c \in Contenders, RowOf(c) \in rows PROVE RowOf(c)' \in rows'
    <3>1. c \in Calls /\ ChainInv
        BY ContendersAssumption DEF VInv, Trusted
    <3>2. pc[c] \in Ended
        BY <2>2, <3>1, StoredIsEnded
    <3>3. RowOf(c)' = RowOf(c)
        BY <1>0, <3>1, <3>2, StepFrame
    <3> QED
        BY <1>2, <2>2, <3>3
  <2> QED
      BY <2>0, <2>1, <2>2
<1> QED
    BY <1>1, <1>3, <1>4, <1>5

\* An append or a fault keeps the invariant (AppendOrFault).
LEMMA AppendsKeepInv ==
    ASSUME VInv, AppendOrFault
    PROVE  VInv'
<1>1. [Next]_vars /\ UNCHANGED edits
    BY DEF AppendOrFault, guards
<1>2. Table' /\ Trusted'
    BY <1>1, TableNext, TrustedNext DEF VInv, Trusted
<1>3. RejectionsHaveCauses'
    BY <1>1, CallFrame DEF VInv, Table, RejectionsHaveCauses
<1> QED
    BY <1>2, <1>3, ProbeSurvivesAppends, WalkSurvivesAppends DEF VInv

-----------------------------------------------------------------------------
(* Edits, layers and the immutability probe.                               *)

\* A sequence value that nobody uses disturbs neither table nor chain (AttemptFork).
LEMMA GapsAreHarmless ==
    ASSUME Table, Trusted, RejectionsHaveCauses, nextSeq' \in {nextSeq, nextSeq + 1},
           UNCHANGED <<rows, lock, clock, pc, txn, error, edits>>
    PROVE  Table' /\ Trusted' /\ RejectionsHaveCauses'
<1>1. UNCHANGED <<now_at, prevHash, seq>>
    BY DEF txn
<1>2. TypeOK' /\ SeqsDrawnOnce'
    BY <1>1 DEF Table, TypeOK, SeqsDrawnOnce
<1>3. Table'
    BY <1>1, <1>2 DEF Table
<1>4. \A c \in Calls : RowOf(c)' = RowOf(c)
    BY <1>1 DEF RowOf
<1>5. HeadHash' = HeadHash
    BY HeadMoves
<1>6. ASSUME ChainInv, AnswersAreTrue PROVE ChainInv' /\ AnswersAreTrue'
  <2>1. RowsAreOurs' /\ PrevHashUnique' /\ OnlyHeadIsFree' /\ ReadsAreReal' /\ ChainLinear'
      BY <1>1, <1>4, <1>6 DEF ChainInv, RowsAreOurs, PrevHashUnique, OnlyHeadIsFree, ReadsAreReal,
                              ChainLinear, IsHead, Precedes
  <2>2. PendingExtendsHead'
      BY <1>1, <1>4, <1>5, <1>6 DEF ChainInv, PendingExtendsHead, Clashes
  <2>3. AnswersAreTrue'
      BY <1>1, <1>4, <1>6 DEF AnswersAreTrue
  <2> QED
      BY <1>2, <2>1, <2>2, <2>3 DEF ChainInv
<1> QED
    BY <1>3, <1>6 DEF Trusted, RejectionsHaveCauses

\* There are six layers, so those missing can be counted (audit-immutability.sql).
LEMMA LayersFinite == IsFiniteSet(Layers)
<1> DEFINE T == {<<"trigger", "UPDATE">>} \cup {<<"trigger", "DELETE">>} \cup {<<"trigger", "TRUNCATE">>}
           P == {<<"privilege", "UPDATE">>} \cup {<<"privilege", "DELETE">>} \cup {<<"privilege", "TRUNCATE">>}
<1>1. IsFiniteSet(T) /\ IsFiniteSet(P)
  <2>1. ASSUME NEW a, NEW b, NEW c PROVE IsFiniteSet({a} \cup {b} \cup {c})
    <3>1. IsFiniteSet({a} \cup {b})
        BY FS_Singleton, FS_AddElement
    <3> QED
        BY <3>1, FS_AddElement
  <2> QED
      BY <2>1
<1>2. Triggers = T /\ Privileges = P
    BY DEF Triggers, Privileges, Statements
<1> HIDE DEF T, P
<1> QED
    BY <1>1, <1>2, FS_Union DEF Layers

\* A row changed or removed leaves seq a key, and that is all that is left (Edit).
LEMMA EditsKeepInv ==
    ASSUME VInv, Edit, UNCHANGED verifier
    PROVE  VInv'
<1>0. /\ UNCHANGED <<nextSeq, lock, clock, pc, now_at, prevHash, seq, error, layers, probe>>
      /\ UNCHANGED <<cursor, verdict, seen>> /\ edits' = edits + 1
    BY DEF Edit, verifier, txn
<1>1. edits' \in 0 .. MaxDamage /\ edits' # 0
  <2>1. edits \in Nat /\ MaxDamage \in Nat /\ Damage < MaxDamage
      BY ImmutabilityAssumption DEF Edit, VInv, GTypeOK
  <2>2. Cardinality(Layers \ layers) \in Nat
      BY LayersFinite, FS_Subset, FS_CardinalityType
  <2> QED
      BY <1>0, <2>1, <2>2 DEF Damage
<1>2. PICK r \in rows : \/ rows' = rows \ {r}
                        \/ \E e \in Events \ {r.event} : rows' = (rows \ {r}) \cup {[r EXCEPT !.event = e]}
    BY DEF Edit
<1> DEFINE StillKeyed ==
               /\ rows' \subseteq Row /\ IsFiniteSet(rows')
               /\ \A q \in rows' : \E p \in rows : q.seq = p.seq
               /\ \A p, q \in rows' : p.seq = q.seq => p = q
<1>3. StillKeyed
  <2>0. /\ rows \subseteq Row /\ IsFiniteSet(rows)
        /\ \A p, q \in rows : p.seq = q.seq => p = q
      BY DEF VInv, Table, TypeOK
  <2>1. CASE rows' = rows \ {r}
    <3>1. IsFiniteSet(rows \ {r})
        BY <2>0, FS_RemoveElement
    <3> QED
        BY <2>0, <2>1, <3>1
  <2>2. ASSUME NEW e \in Events, rows' = (rows \ {r}) \cup {[r EXCEPT !.event = e]}
        PROVE  StillKeyed
    <3> DEFINE s == [r EXCEPT !.event = e]
    <3>1. s \in Row /\ s.seq = r.seq
        BY <2>0 DEF Row
    <3> HIDE DEF s
    <3>2. rows' = (rows \ {r}) \cup {s}
        BY <2>2 DEF s
    <3>3. IsFiniteSet(rows')
        BY <2>0, <3>2, FS_RemoveElement, FS_AddElement
    <3>4. \A p \in rows \ {r} : p.seq # s.seq
        BY <2>0, <3>1
    <3> QED
        BY <2>0, <3>1, <3>2, <3>3, <3>4
  <2> HIDE DEF StillKeyed
  <2> QED
      BY <1>2, <2>1, <2>2
<1>4. Table'
    BY <1>0, <1>3 DEF VInv, Table, TypeOK, SeqsDrawnOnce
<1>5. Trusted' /\ RejectionsHaveCauses'
    BY <1>0, <1>1 DEF VInv, Trusted, RejectionsHaveCauses
<1>6. GTypeOK' /\ ProbeIsRight'
    BY <1>0, <1>1 DEF VInv, GTypeOK, ProbeIsRight, Resting
<1>7. WalkTypes' /\ WalkIsSeen' /\ WalkIsOnChain' /\ ContentionIsAhead' /\ VerdictsAreRight'
    BY <1>0, <1>1 DEF VInv, WalkTypes, WalkIsSeen, WalkIsOnChain, ContentionIsAhead, VerdictsAreRight
<1> QED
    BY <1>4, <1>5, <1>6, <1>7 DEF VInv

\* The parts about tools and their verdicts do not depend on layers and probe.
LEMMA WalkIgnoresProbe ==
    ASSUME VInv, UNCHANGED <<vars, edits, verifier>>
    PROVE  /\ Table' /\ Trusted' /\ RejectionsHaveCauses'
           /\ WalkTypes' /\ WalkIsSeen' /\ WalkIsOnChain' /\ ContentionIsAhead' /\ VerdictsAreRight'
<1>1. UNCHANGED <<rows, nextSeq, lock, clock, pc, now_at, prevHash, seq, error, edits, cursor, verdict, seen>>
    BY DEF vars, verifier
<1>2. Table' /\ Trusted' /\ RejectionsHaveCauses'
    BY <1>1, GapsAreHarmless DEF VInv, txn
<1>3. \A c \in Calls : RowOf(c)' = RowOf(c)
    BY <1>1 DEF RowOf
<1>4. WalkTypes' /\ WalkIsSeen' /\ WalkIsOnChain'
    BY <1>1 DEF VInv, WalkTypes, WalkIsSeen, WalkIsOnChain, OnChain
<1>5. ContentionIsAhead' /\ VerdictsAreRight'
    BY <1>1, <1>3, ContendersAssumption DEF VInv, ContentionIsAhead, Heads, VerdictsAreRight
<1> QED
    BY <1>2, <1>4, <1>5

\* A probe that is forgotten is right.
LEMMA NoProbeIsRight ==
    ASSUME Table', probe' = NoProbe, layers' \subseteq Layers, edits' \in 0 .. MaxDamage
    PROVE  GTypeOK' /\ ProbeIsRight'
<1>1. GENESIS_HASH \in Hash
    BY EmptySeq DEF GENESIS_HASH, Hash
<1> QED
    BY <1>1 DEF GTypeOK, ProbeRun, ProbeIsRight, HasShown, NoProbe, Tried, Resting

\* Neither taking a layer away makes a probe wrong, which remembers that one was
\* missing, nor restoring them, which it remembers too (DropLayer, RestoreLayers).
LEMMA LayersKeepInv ==
    ASSUME VInv, DropLayer \/ RestoreLayers, UNCHANGED verifier
    PROVE  VInv'
<1>1. UNCHANGED <<vars, edits, verifier>>
    BY DEF DropLayer, RestoreLayers
<1>2. UNCHANGED <<rows, error, edits>>
    BY <1>1 DEF vars
<1>3. GTypeOK /\ ProbeIsRight
    BY DEF VInv
<1>4. layers' \subseteq Layers
    BY <1>3 DEF DropLayer, RestoreLayers, GTypeOK
<1>5. CASE Resting
  <2>1. probe' = probe
      BY <1>5 DEF DropLayer, RestoreLayers
  <2>2. GTypeOK' /\ ProbeIsRight'
      BY <1>2, <1>3, <1>4, <1>5, <2>1 DEF GTypeOK, ProbeIsRight, Resting
  <2> QED
      BY <1>1, <2>2, WalkIgnoresProbe DEF VInv
<1>6. CASE ~Resting /\ DropLayer
  <2>1. layers' \subseteq layers /\ probe' = [probe EXCEPT !.excused = TRUE]
      BY <1>6 DEF DropLayer
  <2>2. /\ probe' \in ProbeRun /\ probe'.excused
        /\ probe'.pc = probe.pc /\ probe'.count = probe.count /\ probe'.head = probe.head
        /\ probe'.restricted = probe.restricted /\ probe'.failed = probe.failed
        /\ probe'.had = probe.had
      BY <1>3, <2>1, Zenon DEF GTypeOK, ProbeRun
  <2>3. GTypeOK'
      BY <1>2, <1>3, <1>4, <2>2 DEF GTypeOK
  <2>4. HasShown(probe)' <=> HasShown(probe)
      BY <2>2 DEF HasShown
  <2>5. ProbeIsRight'
      BY <1>2, <1>3, <1>6, <2>1, <2>2, <2>4 DEF ProbeIsRight, Resting
  <2> QED
      BY <1>1, <2>3, <2>5, WalkIgnoresProbe DEF VInv
<1>6a. CASE ~Resting /\ probe.failed /\ RestoreLayers
  <2>1. layers' = Layers /\ probe' = probe
      BY <1>6a DEF RestoreLayers
  <2>2. GTypeOK' /\ ProbeIsRight'
      BY <1>2, <1>3, <1>4, <1>6a, <2>1 DEF GTypeOK, ProbeIsRight, Resting
  <2> QED
      BY <1>1, <2>2, WalkIgnoresProbe DEF VInv
<1>7. CASE ~Resting /\ ~probe.failed /\ RestoreLayers
  <2>1. layers' = Layers /\ probe' = [probe EXCEPT !.had = Layers]
      BY <1>7 DEF RestoreLayers
  <2>2. /\ probe' \in ProbeRun /\ probe'.had = Layers /\ probe'.excused = probe.excused
        /\ probe'.pc = probe.pc /\ probe'.count = probe.count /\ probe'.head = probe.head
        /\ probe'.restricted = probe.restricted /\ probe'.failed = probe.failed
      BY <1>3, <2>1, Zenon DEF GTypeOK, ProbeRun
  <2>3. GTypeOK'
      BY <1>2, <1>3, <1>4, <2>2 DEF GTypeOK
  <2>4. HasShown(probe) => HasShown(probe)'
      BY <1>3, <2>2 DEF HasShown, GTypeOK, ProbeRun, Layers
  <2>5. ProbeIsRight'
      BY <1>2, <1>3, <1>7, <2>1, <2>2, <2>4 DEF ProbeIsRight, Resting
  <2> QED
      BY <1>1, <2>3, <2>5, WalkIgnoresProbe DEF VInv
<1> QED
    BY <1>5, <1>6, <1>6a, <1>7

\* What To and Errs make of the probe's record.
LEMMA ToIs ==
    ASSUME GTypeOK, NEW label, NEW ok \in BOOLEAN, To(label, ok) \/ (Errs(label) /\ ~ok)
    PROVE  /\ probe'.pc = label /\ probe'.failed = (probe.failed \/ ~ok)
           /\ probe'.count = probe.count /\ probe'.head = probe.head
           /\ probe'.restricted = probe.restricted
           /\ (ok => probe'.had = probe.had) /\ (probe.excused => probe'.excused)
           /\ Errs(label) => probe'.excused
           /\ label \in {"fork", "after", "grants", "append", "done"} \cup Statements => probe' \in ProbeRun
<1>1. CASE Errs(label) /\ ~ok
  <2>1. /\ probe' = [probe EXCEPT !.pc = label, !.failed = TRUE, !.excused = TRUE, !.had = {}]
        /\ probe \in ProbeRun /\ {} \in SUBSET Layers
      BY <1>1, Zenon DEF Errs, GTypeOK
  <2> QED
      BY <1>1, <2>1, Zenon DEF ProbeRun
<1>2. CASE ~(Errs(label) /\ ~ok) /\ To(label, ok)
  <2>1. /\ probe' = [probe EXCEPT !.pc = label, !.failed = @ \/ ~ok, !.had = IF ok THEN @ ELSE {}]
        /\ probe \in ProbeRun /\ (probe.failed \/ ~ok) \in BOOLEAN
      BY <1>2, Zenon DEF To, GTypeOK
  <2>1a. (IF ok THEN probe.had ELSE {}) \in SUBSET Layers
      BY <2>1 DEF ProbeRun
  <2>2. Errs(label) => probe'.excused
      BY <2>1 DEF Errs, ProbeRun
  <2> QED
      BY <1>2, <2>1, <2>1a, <2>2, Zenon DEF ProbeRun
<1> QED
    BY <1>1, <1>2

\* A step of the probe keeps it right, if what it found in order was a layer in place,
\* and a failure needs a missing layer, an error or a failed append.
LEMMA ProbeAdvances ==
    ASSUME VInv, NEW label \in {"fork", "after", "grants", "append", "done"} \cup Statements,
           NEW ok \in BOOLEAN, To(label, ok) \/ (Errs(label) /\ ~ok),
           UNCHANGED <<rows, error, layers, edits>>, ~Resting,
           ok /\ ~probe.failed => HasShown([probe EXCEPT !.pc = label]),
           ~Errs(label) /\ edits = 0 /\ layers = Layers /\ ~ok => error[ProbeCall] # "none"
    PROVE  GTypeOK' /\ ProbeIsRight'
<1>1. GTypeOK /\ ProbeIsRight
    BY DEF VInv
<1>2. /\ probe'.pc = label /\ probe'.failed = (probe.failed \/ ~ok)
      /\ probe'.count = probe.count /\ probe'.head = probe.head
      /\ probe'.restricted = probe.restricted
      /\ (ok => probe'.had = probe.had) /\ (probe.excused => probe'.excused)
      /\ Errs(label) => probe'.excused
      /\ probe' \in ProbeRun
    BY <1>1, ToIs
<1>3. GTypeOK'
    BY <1>1, <1>2 DEF GTypeOK
<1>4. /\ probe.count > 0 /\ (~probe.failed => layers \subseteq probe.had)
      /\ layers # Layers => probe.excused
    BY <1>1 DEF ProbeIsRight
<1>5. /\ ~Resting' => /\ probe'.count > 0
                      /\ ~probe'.failed => layers' \subseteq probe'.had
                      /\ layers' # Layers => probe'.excused
      /\ ~probe'.failed /\ probe'.pc = "done" => probe'.count > 0
    BY <1>2, <1>4
<1>6. ~probe'.failed => HasShown(probe')
  <2> DEFINE p == [probe EXCEPT !.pc = label]
  <2>1. p.pc = label /\ p.restricted = probe.restricted /\ p.had = probe.had
      BY <1>1 DEF GTypeOK, ProbeRun
  <2>2. ~probe'.failed => HasShown(p)
      BY <1>2
  <2> HIDE DEF p
  <2> QED
      BY <1>2, <2>1, <2>2 DEF HasShown
<1>7. edits' = 0 /\ probe'.count > 0 => /\ Cardinality(rows') >= probe'.count
                                        /\ \E r \in rows' : r.hash = probe'.head
    BY <1>1, <1>2 DEF ProbeIsRight
<1>8. edits' = 0 /\ probe'.failed /\ ~probe'.excused =>
          probe'.count = 0 \/ error'[ProbeCall] # "none"
    BY <1>1, <1>2, <1>4 DEF ProbeIsRight
<1>9. ProbeIsRight'
    BY <1>5, <1>6, <1>7, <1>8 DEF ProbeIsRight
<1> QED
    BY <1>3, <1>9

\* The probe's queries and attempts (ReadState to FinishProbe).
LEMMA ProbeKeepsInv ==
    ASSUME VInv, Probe
    PROVE  VInv'
<1>0. /\ ProbeStep /\ cursor' = Start /\ verdict' = "idle" /\ seen' = << >>
      /\ Table /\ Trusted /\ RejectionsHaveCauses /\ GTypeOK /\ ProbeIsRight
    BY DEF Probe, VInv
<1>1. /\ nextSeq' \in {nextSeq, nextSeq + 1}
      /\ UNCHANGED <<rows, lock, clock, pc, txn, error, edits, layers>>
    BY <1>0 DEF ProbeStep, ReadState, Attempt, AttemptFork, Compare, CheckGrants, FinishProbe, vars, txn
<1>2. Table' /\ Trusted' /\ RejectionsHaveCauses'
    BY <1>0, <1>1, GapsAreHarmless
<1>3. WalkTypes' /\ WalkIsSeen' /\ WalkIsOnChain' /\ ContentionIsAhead' /\ VerdictsAreRight'
  <2>1. GENESIS_HASH \in Hash /\ << >> \in Hash
      BY EmptySeq DEF GENESIS_HASH, Hash
  <2> QED
      BY <1>0, <2>1 DEF WalkTypes, WalkIsSeen, WalkIsOnChain, ContentionIsAhead, VerdictsAreRight,
                        Start, Verdicts
\* With no edit there are the rows that the probe found, and a head among them.
<1>4. ASSUME edits = 0, ~Resting
      PROVE  /\ Cardinality(rows) >= probe.count /\ \E r \in rows : r.hash = probe.head
             /\ rows # {}
    BY <1>0, <1>4 DEF ProbeIsRight
<1>5. ASSUME ReadState PROVE GTypeOK' /\ ProbeIsRight'
  <2>1. IsFiniteSet(rows) /\ Cardinality(rows) \in Nat /\ (Cardinality(rows) = 0 <=> rows = {})
      BY <1>0, FS_CardinalityType, FS_EmptySet DEF Table
  <2>2. HeadHash \in Hash
      BY <1>0, HeadHasType
  <2>3. rows # {} => \E r \in rows : r.hash = HeadHash
    <3>1. rows # {} => \E r \in rows : IsHead(r)
        BY <1>0, LastExists DEF IsHead
    <3> QED
        BY <3>1 DEF HeadHash
  <2>4. PICK restricted \in BOOLEAN :
            probe' = [pc |-> IF rows = {} THEN "done" ELSE "UPDATE", count |-> Cardinality(rows),
                      head |-> HeadHash, restricted |-> restricted, failed |-> rows = {},
                      excused |-> layers # Layers, had |-> layers]
      BY <1>5 DEF ReadState
  <2>5. /\ probe'.pc = (IF rows = {} THEN "done" ELSE "UPDATE") /\ probe'.count = Cardinality(rows)
        /\ probe'.head = HeadHash /\ probe'.failed = (rows = {}) /\ probe'.had = layers
        /\ probe'.excused = (layers # Layers)
      BY <2>4
  <2>6. GTypeOK'
      BY <1>0, <1>1, <2>1, <2>2, <2>4 DEF GTypeOK, ProbeRun, Statements
  <2>7. CASE rows = {}
    <3>1. probe'.pc = "done" /\ probe'.failed /\ probe'.count = 0
        BY <2>1, <2>5, <2>7
    <3> QED
        BY <2>6, <3>1 DEF ProbeIsRight, Resting
  <2>8. CASE rows # {}
    <3>0. ~probe'.failed /\ (layers # Layers => probe'.excused)
        BY <2>5, <2>8, Zenon
    <3>1. /\ probe'.pc = "UPDATE" /\ probe'.count > 0
          /\ probe'.had = layers /\ probe'.head = HeadHash /\ probe'.count = Cardinality(rows)
        BY <2>1, <2>5, <2>8
    <3>1a. HasShown(probe')
        BY <3>1 DEF HasShown, Tried
    <3>2. rows' = rows /\ layers' = layers
        BY <1>1
    <3>2a. Cardinality(rows) >= Cardinality(rows)
        BY <2>1
    <3>3. Cardinality(rows') >= probe'.count /\ \E r \in rows' : r.hash = probe'.head
        BY <2>3, <2>8, <3>1, <3>2, <3>2a
    <3>4. ProbeIsRight'
        BY <3>0, <3>1, <3>1a, <3>2, <3>3 DEF ProbeIsRight
    <3> QED
        BY <2>6, <3>4
  <2> QED
      BY <2>6, <2>7, <2>8
\* A step shows what was shown before and what it adds.
<1>5a. ASSUME NEW label
       PROVE  LET p == [probe EXCEPT !.pc = label]
              IN  p.pc = label /\ p.restricted = probe.restricted /\ p.had = probe.had
    BY <1>0 DEF GTypeOK, ProbeRun
<1>6. ASSUME NEW op \in Statements, Attempt(op) PROVE GTypeOK' /\ ProbeIsRight'
  <2>1. probe.pc = op /\ ~Resting
      BY <1>6 DEF Attempt, Resting, Statements
  <2>2. NextOf(op) \in {"fork"} \cup Statements /\ Tried(NextOf(op)) = Tried(op) \cup {op}
      BY DEF NextOf, Statements, Tried
  <2>3. PICK ok \in BOOLEAN :
            \/ To(NextOf(op), ok) /\ (ok <=> Denied(op) \/ Fires(op))
            \/ Errs(NextOf(op)) /\ ~ok
    <3>1. CASE Denied(op) /\ To(NextOf(op), TRUE)
        BY <3>1
    <3>2. CASE ~Denied(op) /\ To(NextOf(op), Fires(op))
        BY <3>2 DEF Fires
    <3>3. CASE Errs(NextOf(op))
        BY <3>3
    <3> QED
        BY <1>6, <3>1, <3>2, <3>3 DEF Attempt
  <2>4. ok /\ ~probe.failed => HasShown([probe EXCEPT !.pc = NextOf(op)])
    <3> SUFFICES ASSUME ok, ~probe.failed PROVE HasShown([probe EXCEPT !.pc = NextOf(op)])
        OBVIOUS
    <3>1. probe.restricted \/ <<"trigger", op>> \in probe.had
        BY <1>0, <2>1, <2>3 DEF Denied, Fires, ProbeIsRight
    <3>2. \A o \in Tried(op) : probe.restricted \/ <<"trigger", o>> \in probe.had
        BY <1>0, <2>1 DEF ProbeIsRight, HasShown
    <3>3. NextOf(op) \notin {"append", "done"}
        BY <2>2 DEF Statements
    <3> QED
        BY <1>5a, <2>2, <3>1, <3>2, <3>3 DEF HasShown
  <2>5. edits = 0 /\ layers = Layers => Fires(op)
      BY <1>4, <2>1 DEF Fires, Layers, Triggers
  <2> QED
      BY <1>1, <2>1, <2>2, <2>3, <2>4, <2>5, ProbeAdvances
<1>7. ASSUME AttemptFork PROVE GTypeOK' /\ ProbeIsRight'
  <2> DEFINE Dup == \E head \in rows : IsHead(head) /\ \E r \in rows : r.prevHash = head.prevHash
  <2>1. probe.pc = "fork" /\ ~Resting
      BY <1>7 DEF AttemptFork, Resting
  <2>2. edits = 0 => Dup /\ rows # {}
      BY <1>0, <1>4, <2>1, LastExists DEF IsHead
  <2>3. PICK ok \in BOOLEAN :
            \/ To("after", ok) /\ (edits = 0 => ok)
            \/ Errs("after") /\ ~ok
    <3> HIDE DEF Dup
    <3>1. CASE rows = {} /\ To("after", FALSE)
        BY <2>2, <3>1
    <3>2. CASE To("after", Dup)
      <4>1. Dup \in BOOLEAN
          BY DEF Dup
      <4> QED
          BY <2>2, <3>2, <4>1
    <3>3. CASE Errs("after")
        BY <3>3
    <3> QED
        BY <1>7, <3>1, <3>2, <3>3 DEF AttemptFork, Dup
  <2>4. ~probe.failed => HasShown([probe EXCEPT !.pc = "after"])
      BY <1>0, <1>5a, <2>1 DEF ProbeIsRight, HasShown, Tried
  <2> QED
      BY <1>1, <2>1, <2>3, <2>4, ProbeAdvances
<1>8. ASSUME Compare PROVE GTypeOK' /\ ProbeIsRight'
  <2> DEFINE ok == Cardinality(rows) >= probe.count /\ \E r \in rows : r.hash = probe.head
  <2>1. probe.pc = "after" /\ To("grants", ok) /\ ok \in BOOLEAN /\ ~Resting
      BY <1>8 DEF Compare, Resting
  <2>2. ~probe.failed => HasShown([probe EXCEPT !.pc = "grants"])
      BY <1>0, <1>5a, <2>1 DEF ProbeIsRight, HasShown, Tried
  <2>3. edits = 0 => ok
      BY <1>4, <2>1
  <2> HIDE DEF ok
  <2> QED
      BY <1>1, <2>1, <2>2, <2>3, ProbeAdvances
<1>9. ASSUME CheckGrants PROVE GTypeOK' /\ ProbeIsRight'
  <2> DEFINE ok == Privileges \subseteq layers
  <2>1. probe.pc = "grants" /\ To("append", ok) /\ ok \in BOOLEAN /\ ~Resting
      BY <1>9 DEF CheckGrants, Resting
  <2>2. ok /\ ~probe.failed => HasShown([probe EXCEPT !.pc = "append"])
      BY <1>0, <1>5a, <2>1 DEF ProbeIsRight, HasShown, Tried
  <2>3. layers = Layers => ok
      BY DEF Layers
  <2> HIDE DEF ok
  <2> QED
      BY <1>1, <2>1, <2>2, <2>3, ProbeAdvances
<1>10. ASSUME FinishProbe PROVE GTypeOK' /\ ProbeIsRight'
  <2> DEFINE ok == pc[ProbeCall] = "recorded"
  <2>1. probe.pc = "append" /\ To("done", ok) /\ ok \in BOOLEAN /\ ~Resting
      BY <1>10 DEF FinishProbe, Resting
  <2>2. ~probe.failed => HasShown([probe EXCEPT !.pc = "done"])
      BY <1>0, <1>5a, <2>1 DEF ProbeIsRight, HasShown, Tried
  <2>3. ~ok => error[ProbeCall] # "none"
      BY <1>0, <1>10, ImmutabilityAssumption DEF FinishProbe, RejectionsHaveCauses
  <2> HIDE DEF ok
  <2> QED
      BY <1>1, <2>1, <2>2, <2>3, ProbeAdvances
<1>11. GTypeOK' /\ ProbeIsRight'
    BY <1>0, <1>5, <1>6, <1>7, <1>8, <1>9, <1>10 DEF ProbeStep
<1> QED
    BY <1>2, <1>3, <1>11 DEF VInv

-----------------------------------------------------------------------------
(* The verifier and the contention probe.                                  *)

\* They read, and at most forget a probe.
LEMMA ToolFrame ==
    ASSUME VInv, UNCHANGED <<vars, layers, edits>>, probe' \in {probe, NoProbe}
    PROVE  Table' /\ Trusted' /\ RejectionsHaveCauses' /\ GTypeOK' /\ ProbeIsRight'
<1>1. UNCHANGED <<rows, nextSeq, lock, clock, pc, now_at, prevHash, seq, error>>
    BY DEF vars
<1>2. Table' /\ Trusted' /\ RejectionsHaveCauses'
    BY <1>1, GapsAreHarmless DEF VInv, txn
<1>3. CASE probe' = probe
    BY <1>1, <1>2, <1>3 DEF VInv, GTypeOK, ProbeIsRight, Resting
<1>4. CASE probe' = NoProbe
    BY <1>2, <1>4, NoProbeIsRight DEF VInv, GTypeOK
<1> QED
    BY <1>2, <1>3, <1>4

\* The genesis hash is the empty history.
LEMMA GenesisType == GENESIS_HASH \in Hash /\ GENESIS_HASH = << >> /\ Len(GENESIS_HASH) = 0
    BY EmptySeq DEF GENESIS_HASH, Hash

\* A walk begins before the first row (StartVerify).
LEMMA StartVerifyKeepsInv ==
    ASSUME VInv, StartVerify
    PROVE  VInv'
<1>1. /\ UNCHANGED <<vars, layers, edits>> /\ probe' = NoProbe
      /\ verdict' = "reading" /\ cursor' = [after |-> 0, prev |-> GENESIS_HASH, total |-> 0]
      /\ seen' = GENESIS_HASH
    BY GenesisType DEF StartVerify, StartTool, Forget, Start
<1>2. WalkTypes' /\ WalkIsSeen'
    BY <1>1, GenesisType DEF WalkTypes, WalkIsSeen, Verdicts, Busy
<1>3. {r \in rows' : r.seq <= 0} = {}
    BY <1>1, RowsBounded DEF vars, VInv
<1>4. WalkIsOnChain'
    BY <1>1, <1>3, FS_EmptySet DEF WalkIsOnChain, OnChain
<1>5. ContentionIsAhead' /\ VerdictsAreRight'
    BY <1>1 DEF ContentionIsAhead, VerdictsAreRight
<1> QED
    BY <1>1, <1>2, <1>4, <1>5, ToolFrame DEF VInv

\* A page without a break moves the cursor along the chain, past all of its rows
\* (VerifyPage).
LEMMA VerifyPageKeepsInv ==
    ASSUME VInv, VerifyPage
    PROVE  VInv'
<1> DEFINE page == readPage(cursor.after)
           last == LastOf(page)
<1>0. /\ verdict = "reading" /\ page # {} /\ verifyAuditChain(page, cursor.prev) = {}
      /\ cursor' = [after |-> last.seq, prev |-> last.hash, total |-> cursor.total + Cardinality(page)]
      /\ seen' = seen \o Entries(page)
      /\ UNCHANGED <<vars, verdict, guards>>
    BY DEF VerifyPage
<1>1. UNCHANGED <<vars, layers, edits, probe, rows, verdict>>
    BY <1>0 DEF guards, vars
<1>2. /\ cursor.after \in Nat /\ cursor.prev \in Hash /\ cursor.total \in Nat /\ Table
      /\ cursor.prev = seen /\ cursor.total = Len(seen)
    BY <1>0 DEF VInv, WalkTypes, WalkIsSeen
<1>3. Segment(page, cursor.after) /\ page \in SUBSET rows
    BY <1>2, PageIsSegment DEF Segment
<1>4. last \in rows /\ last.seq \in Nat
    BY <1>0, <1>2, <1>3, LastExists, RowsBounded
<1>5. last.hash = cursor.prev \o Entries(page)
    BY <1>0, <1>2, <1>3, PageCommits
<1>6. /\ cursor.prev \o Entries(page) \in Hash
      /\ Len(cursor.prev \o Entries(page)) = Len(cursor.prev) + Cardinality(page)
    BY <1>2, <1>3, WalkGoesOn
<1>7. Cardinality(page) \in Nat
    BY <1>2, <1>3, EntriesType
<1>8. edits = 0 => cursor.total + Cardinality(page) = Cardinality(Behind(last.seq))
    BY <1>0, <1>2, <1>3, PageAdvances DEF VInv, WalkIsOnChain, Behind
<1> HIDE DEF page, last
<1>9. cursor'.after = last.seq /\ cursor'.prev = last.hash /\ cursor'.total = cursor.total + Cardinality(page)
    BY <1>0
<1>10. WalkTypes' /\ WalkIsSeen'
    BY <1>0, <1>1, <1>2, <1>4, <1>5, <1>6, <1>7, <1>9 DEF WalkTypes, WalkIsSeen, Verdicts, Busy
<1>11. WalkIsOnChain'
    BY <1>1, <1>4, <1>8, <1>9 DEF WalkIsOnChain, OnChain, Behind
<1>12. ContentionIsAhead' /\ VerdictsAreRight'
    BY <1>0 DEF ContentionIsAhead, VerdictsAreRight
<1> QED
    BY <1>1, <1>10, <1>11, <1>12, ToolFrame DEF VInv

\* A break means an edit, and what was accepted before it is reported (ReportBreak).
LEMMA ReportBreakKeepsInv ==
    ASSUME VInv, ReportBreak
    PROVE  VInv'
<1> DEFINE page == readPage(cursor.after)
<1>0. verdict = "reading" /\ verdict' = "broken" /\ UNCHANGED <<vars, layers, edits, probe>>
    BY DEF ReportBreak, guards
<1>1. PICK r \in verifyAuditChain(page, cursor.prev) :
          /\ cursor' = [cursor EXCEPT !.total = @ + Cardinality(Before(page, r)),
                                      !.prev = ExpectedPrev(page, r, cursor.prev)]
          /\ seen' = seen \o Entries(Before(page, r))
    BY DEF ReportBreak
<1>2. /\ cursor \in [after : Nat, prev : Hash, total : Nat] /\ Table
      /\ cursor.after \in Nat /\ cursor.prev \in Hash /\ cursor.total \in Nat
      /\ cursor.prev = seen /\ cursor.total = Len(seen)
    BY <1>0 DEF VInv, WalkTypes, WalkIsSeen
<1>3. Segment(page, cursor.after) /\ page \in SUBSET rows /\ Before(page, r) \in SUBSET rows
    BY <1>2, PageIsSegment DEF Segment, Before
<1>4. edits # 0
    BY <1>0, <1>1, <1>2, <1>3, SegmentUnbroken DEF VInv, WalkIsOnChain, Trusted, ChainInv
<1>5. ExpectedPrev(page, r, cursor.prev) = cursor.prev \o Entries(Before(page, r))
    BY <1>1, <1>2, <1>3, PrefixCommits
<1>6. /\ cursor.prev \o Entries(Before(page, r)) \in Hash
      /\ Len(cursor.prev \o Entries(Before(page, r))) = Len(cursor.prev) + Cardinality(Before(page, r))
    BY <1>2, <1>3, WalkGoesOn
<1>7. Cardinality(Before(page, r)) \in Nat
    BY <1>2, <1>3, EntriesType
<1>8. /\ cursor'.after = cursor.after /\ cursor'.total = cursor.total + Cardinality(Before(page, r))
      /\ cursor'.prev = ExpectedPrev(page, r, cursor.prev)
      /\ cursor' \in [after : Nat, prev : Hash, total : Nat]
  <2> DEFINE n == Cardinality(Before(page, r))
             p == ExpectedPrev(page, r, cursor.prev)
  <2>1. cursor' = [cursor EXCEPT !.total = @ + n, !.prev = p] /\ n \in Nat /\ p \in Hash
      BY <1>1, <1>5, <1>6, <1>7
  <2> HIDE DEF n, p
  <2>2. cursor'.after = cursor.after /\ cursor'.total = cursor.total + n /\ cursor'.prev = p
      BY <1>2, <2>1, Zenon
  <2>3. cursor.total + n \in Nat
      BY <1>2, <2>1
  <2>4. cursor' \in [after : Nat, prev : Hash, total : Nat]
      BY <1>2, <2>1, <2>3, Zenon
  <2> QED
      BY <2>2, <2>4 DEF n, p
<1> HIDE DEF page
<1>9. WalkTypes' /\ WalkIsSeen'
    BY <1>0, <1>1, <1>2, <1>5, <1>6, <1>8 DEF WalkTypes, WalkIsSeen, Verdicts
<1>10. WalkIsOnChain' /\ ContentionIsAhead' /\ VerdictsAreRight'
    BY <1>0, <1>4 DEF WalkIsOnChain, ContentionIsAhead, VerdictsAreRight
<1> QED
    BY <1>0, <1>9, <1>10, ToolFrame DEF VInv

\* An empty page ends the walk where it is (FinishVerify).
LEMMA FinishVerifyKeepsInv ==
    ASSUME VInv, FinishVerify
    PROVE  VInv'
<1>1. /\ verdict = "reading" /\ verdict' \in {"ok", "empty"}
      /\ UNCHANGED <<vars, layers, edits, probe, rows, cursor, seen>>
    BY DEF FinishVerify, guards, vars
<1>2. WalkTypes' /\ WalkIsSeen' /\ WalkIsOnChain' /\ ContentionIsAhead' /\ VerdictsAreRight'
    BY <1>1 DEF VInv, WalkTypes, WalkIsSeen, WalkIsOnChain, OnChain, ContentionIsAhead,
                VerdictsAreRight, Verdicts
<1> QED
    BY <1>1, <1>2, ToolFrame DEF VInv

\* The contenders have drawn nothing when the head is read (StartContention).
LEMMA StartContentionKeepsInv ==
    ASSUME VInv, StartContention
    PROVE  VInv'
<1> DEFINE top == IF rows = {} THEN 0 ELSE LastOf(rows).seq
<1>1. /\ UNCHANGED <<vars, layers, edits>> /\ probe' = NoProbe /\ verdict' = "firing"
      /\ cursor' = [after |-> top, prev |-> GENESIS_HASH, total |-> 0] /\ seen' = GENESIS_HASH
      /\ \A c \in Contenders : pc[c] = "idle"
    BY GenesisType DEF StartContention, StartTool, Forget, Start
<1>2. UNCHANGED <<rows, nextSeq, pc, seq>>
    BY <1>1 DEF vars
<1>3. /\ top \in Nat /\ top < nextSeq /\ nextSeq \in Nat
      /\ top = 0 \/ \E r \in rows : r.seq = top
  <2>1. CASE rows = {}
      BY <2>1 DEF VInv, Table, TypeOK
  <2>2. CASE rows # {}
      BY <2>2, LastExists, RowsBounded DEF VInv
  <2> QED
      BY <2>1, <2>2
<1> HIDE DEF top
<1>4. cursor'.after = top
    BY <1>1
<1>5. WalkTypes' /\ WalkIsSeen' /\ WalkIsOnChain' /\ VerdictsAreRight'
    BY <1>1, <1>3, GenesisType DEF WalkTypes, WalkIsSeen, WalkIsOnChain, VerdictsAreRight, Verdicts, Busy
<1>6. \A c \in Contenders : seq[c] = 0
    BY <1>1, ContendersAssumption DEF VInv, Table, SeqsDrawnOnce
<1>7. ContentionIsAhead'
    BY <1>2, <1>3, <1>4, <1>6 DEF ContentionIsAhead, Heads
<1> QED
    BY <1>1, <1>5, <1>7, ToolFrame DEF VInv

\* With no edit, contenders that were all recorded prove it (Proved).
LEMMA ContentionProves ==
    ASSUME VInv, verdict = "firing", edits = 0, \A c \in Contenders : pc[c] = "recorded"
    PROVE  Proved
<1>1. /\ Table /\ ChainInv /\ AnswersAreTrue /\ Contenders \subseteq Calls
      /\ cursor.after \in Nat
      /\ \A c \in Contenders : seq[c] # 0 => seq[c] > cursor.after
      /\ cursor.after = 0 \/ Heads # {}
    BY ContendersAssumption DEF VInv, Trusted, ContentionIsAhead, WalkTypes
<1>2. ASSUME NEW c \in Contenders PROVE RowOf(c) \in Landed /\ RowOf(c).seq = seq[c] /\ seq[c] # 0
  <2>1. c \in Calls /\ RowOf(c) \in rows
      BY <1>1 DEF AnswersAreTrue
  <2>2. RowOf(c).seq = seq[c] /\ RowOf(c).seq # 0
      BY <1>1, <2>1, RowOfType DEF Table
  <2> QED
      BY <1>1, <2>1, <2>2 DEF Landed
<1>3. Landed # {}
    BY <1>2, ContendersAssumption
<1>4. Landed \in SUBSET rows /\ IsFiniteSet(Landed)
    BY <1>1, EntriesType DEF Landed
<1>5. Cardinality(Landed) >= Cardinality(Contenders)
  <2> DEFINE f == [c \in Contenders |-> RowOf(c)]
  <2>1. f \in Injection(Contenders, Landed)
    <3>1. f \in [Contenders -> Landed]
        BY <1>2
    <3>2. ASSUME NEW c \in Contenders, NEW d \in Contenders, f[c] = f[d] PROVE c = d
        BY <1>1, <1>2, <3>2 DEF Table, SeqsDrawnOnce
    <3> QED
        BY <3>1, <3>2 DEF Injection, IsInjective
  <2>2. IsFiniteSet(Contenders) /\ Cardinality(Contenders) <= Cardinality(Landed)
      BY <1>4, <2>1, FS_Injection
  <2> QED
      BY <1>4, <2>2, FS_CardinalityType
<1>6. OnChain(cursor.after, From)
    BY <1>1 DEF OnChain, From, Heads
<1>7. Segment(Landed, cursor.after)
    BY <1>1 DEF Segment, Landed
<1>8. verifyAuditChain(Landed, From) = {}
    BY <1>1, <1>6, <1>7, SegmentUnbroken DEF ChainInv
<1> QED
    BY <1>1, <1>3, <1>5, <1>8 DEF Proved

\* The contention probe's verdict (FinishContention).
LEMMA FinishContentionKeepsInv ==
    ASSUME VInv, FinishContention
    PROVE  VInv'
<1>1. /\ verdict = "firing" /\ \A c \in Contenders : pc[c] \in {"recorded", "rejected"}
      /\ UNCHANGED <<vars, layers, edits, probe, rows, error>>
    BY DEF FinishContention, guards, vars
<1>2. cursor \in [after : Nat, prev : Hash, total : Nat] /\ cursor.after \in Nat /\ Table
    BY DEF VInv, WalkTypes
<1>3. \A c \in Calls : RowOf(c)' = RowOf(c)
    BY <1>1 DEF vars, RowOf
<1>4. ASSUME Proved, verdict' = "proved", seen' = From \o Entries(Landed),
             cursor' = [cursor EXCEPT !.prev = LastOf(Landed).hash, !.total = Cardinality(Landed)]
      PROVE  VInv'
  <2>1. Landed \in SUBSET rows /\ Landed # {} /\ verifyAuditChain(Landed, From) = {}
      BY <1>4 DEF Proved, Landed
  <2>2. From \in Hash
    <3>1. CASE cursor.after = 0
        BY <3>1, GenesisType DEF From
    <3>2. CASE cursor.after # 0
      <4>1. Heads # {} /\ Heads \subseteq rows
          BY <1>4, <3>2 DEF Proved, Heads
      <4>2. (CHOOSE r \in Heads : TRUE) \in rows
          BY <4>1
      <4> QED
          BY <1>2, <3>2, <4>2, RowsBounded DEF From, Row
    <3> QED
        BY <3>1, <3>2
  <2>3. LastOf(Landed).hash = From \o Entries(Landed)
      BY <1>2, <2>1, <2>2, PageCommits
  <2>4. From \o Entries(Landed) \in Hash /\ Cardinality(Landed) \in Nat
      BY <1>2, <2>1, <2>2, WalkGoesOn, EntriesType
  <2>5. /\ cursor'.prev = LastOf(Landed).hash
        /\ cursor' \in [after : Nat, prev : Hash, total : Nat]
      BY <1>2, <1>4, <2>3, <2>4
  <2>6. WalkTypes' /\ WalkIsSeen'
      BY <1>4, <2>3, <2>4, <2>5 DEF WalkTypes, WalkIsSeen, Verdicts
  <2>7. edits = 0 => \A c \in Contenders : RowOf(c)' \in rows'
      BY <1>1, <1>3, <1>4, ContendersAssumption DEF Proved, VInv, Trusted, AnswersAreTrue
  <2>8. WalkIsOnChain' /\ ContentionIsAhead' /\ VerdictsAreRight'
      BY <1>1, <1>4, <2>7 DEF WalkIsOnChain, ContentionIsAhead, VerdictsAreRight
  <2> QED
      BY <1>1, <2>6, <2>8, ToolFrame DEF VInv
<1>5. ASSUME ~Proved, verdict' = "failed", UNCHANGED <<cursor, seen>>
      PROVE  VInv'
  <2>1. edits = 0 => \E c \in Contenders : error[c] # "none"
      BY <1>1, <1>5, ContentionProves, ContendersAssumption DEF VInv, RejectionsHaveCauses
  <2>2. WalkTypes' /\ WalkIsSeen' /\ WalkIsOnChain' /\ ContentionIsAhead' /\ VerdictsAreRight'
      BY <1>1, <1>5, <2>1 DEF VInv, WalkTypes, WalkIsSeen, WalkIsOnChain, ContentionIsAhead,
                              VerdictsAreRight, Verdicts
  <2> QED
      BY <1>1, <2>2, ToolFrame DEF VInv
<1> QED
    BY <1>4, <1>5 DEF FinishContention

-----------------------------------------------------------------------------
(* Theorems.                                                               *)

\* The invariant holds at the start.
LEMMA VInvInit == VInit => VInv
<1> SUFFICES ASSUME VInit PROVE VInv
    OBVIOUS
<1>0. /\ Init /\ GInit /\ cursor = [after |-> 0, prev |-> GENESIS_HASH, total |-> 0]
      /\ verdict = "idle" /\ seen = GENESIS_HASH
    BY GenesisType DEF VInit, Start
<1>1. ChainInv
    BY <1>0, ChainInvInit
<1>2. rows = {} /\ \A c \in Calls : pc[c] = "idle"
    BY <1>0 DEF Init
<1>3. Table /\ Trusted /\ RejectionsHaveCauses
    BY <1>1, <1>2, FS_EmptySet DEF Table, Trusted, RejectionsHaveCauses, ChainInv, AnswersAreTrue
<1>4. GTypeOK /\ ProbeIsRight
    BY <1>0, GenesisType, ImmutabilityAssumption
    DEF GInit, GTypeOK, ProbeRun, ProbeIsRight, HasShown, NoProbe, Tried, Resting
<1>5. WalkTypes /\ WalkIsSeen /\ WalkIsOnChain /\ ContentionIsAhead /\ VerdictsAreRight
    BY <1>0, GenesisType DEF WalkTypes, WalkIsSeen, WalkIsOnChain, ContentionIsAhead, VerdictsAreRight,
                             Verdicts
<1> QED
    BY <1>3, <1>4, <1>5 DEF VInv

\* Every step keeps the invariant.
LEMMA VInvStep == VInv /\ [VNext]_allVars => VInv'
<1> SUFFICES ASSUME VInv, [VNext]_allVars PROVE VInv'
    OBVIOUS
<1>1. CASE Tamper
    BY <1>1, EditsKeepInv, LayersKeepInv DEF Tamper
<1>2. CASE UNCHANGED allVars
  <2>1. UNCHANGED <<vars, edits, verifier, layers>> /\ probe' = probe
      BY <1>2 DEF allVars, guards
  <2> QED
      BY <2>1, WalkIgnoresProbe, ToolFrame DEF VInv
<1> QED
    BY <1>1, <1>2, AppendsKeepInv, ProbeKeepsInv, StartVerifyKeepsInv, VerifyPageKeepsInv,
       ReportBreakKeepsInv, FinishVerifyKeepsInv, StartContentionKeepsInv, FinishContentionKeepsInv
    DEF VNext

\* The inductive invariant of appends, edits and tools together.
THEOREM VerifierInvariant == VSpec => []VInv
    BY VInvInit, VInvStep, PTL DEF VSpec

\* Every variable of the chain, the layers, the probe and the walk keeps its type.
THEOREM VerifierTypes == VSpec => []VTypeOK
<1>1. VInv => VTypeOK
    BY DEF VInv, VTypeOK, GTypeOK, Table, WalkTypes
<1> QED
    BY <1>1, VerifierInvariant, PTL

\* Verifier and probes raise no false alarm beside any appends, for any page size:
\* with no row edited, they fail only on what really failed.
THEOREM AlarmsAreReal == VSpec => []NoFalseAlarm
<1>1. VInv => NoFalseAlarm
    BY DEF VInv, NoFalseAlarm, VerdictsAreRight, ProbeIsRight
<1> QED
    BY <1>1, VerifierInvariant, PTL

\* No row commits behind the verifier's cursor, so its count is the number of rows.
THEOREM NoRowIsOvertaken == VSpec => []NothingOvertaken
<1>1. VInv => NothingOvertaken
    BY DEF VInv, NothingOvertaken, WalkIsOnChain
<1> QED
    BY <1>1, VerifierInvariant, PTL

\* A report claims what its tool saw and no more, on an edited chain too: the hash a
\* walk ends in is the hash of exactly the entries that it read.
THEOREM ReportsClaimWhatWasSeen == VSpec => []ReportsAreTrue
<1>1. VInv => ReportsAreTrue
  <2> SUFFICES ASSUME VInv PROVE ReportsAreTrue
      OBVIOUS
  <2>1. probe.pc = "done" /\ ~probe.failed =>
            /\ probe.count > 0
            /\ Privileges \subseteq probe.had
            /\ probe.restricted \/ Triggers \subseteq probe.had
    <3>1. Tried("done") = Statements
        BY DEF Tried, Statements
    <3> QED
        BY <3>1 DEF VInv, ProbeIsRight, HasShown, Triggers
  <2> QED
      BY <2>1 DEF VInv, ReportsAreTrue, WalkIsSeen, VerdictsAreRight
<1> QED
    BY <1>1, VerifierInvariant, PTL

=============================================================================
