--------------------------- MODULE TokenKeysProofs --------------------------
(***************************************************************************)
(* The snapshots of any number of instances against the registry, for any  *)
(* lifetimes, interval and cooldown: a key is not trusted for long after   *)
(* it was revoked, a rotation logs nobody out, and one retry is enough.    *)
(*                                                                         *)
(* What a snapshot says of a key is not what the registry says, and the    *)
(* invariant states how far the two may be apart (Fresh): a snapshot whose *)
(* timer reloads did not fail was read at most Lag units of time ago, so   *)
(* what has happened to the key since then has at most that much of its    *)
(* deadline behind it. Reloads under way have read their rows within the   *)
(* present unit. For the retry it takes another relation (Has): a reload   *)
(* that a verification started itself began when no other was under way,   *)
(* so whatever ends from then on has read rows that know the token's keys. *)
(***************************************************************************)
EXTENDS TokenKeys, TLAPS

-----------------------------------------------------------------------------
(* How far a row that was read may be from the registry's.                 *)

\* What may have become of the registry's row since, within `lag` units of time.
Fresh(row, now, lag) ==
    /\ row.state = "active" =>
          \/ now.state = "active"
          \/ now.state = "retiring" /\ now.left + lag >= Overlap - Wait
          \/ now.state = "revoked" /\ now.left + lag >= Interval + 1
    /\ row.state = "retiring" =>
          \/ now.state = "retiring" /\ now.left = row.left
          \/ now.state = "revoked" /\ now.left + lag >= Interval + 1

\* A row that was read when the key was there already, unless the key cannot be loaded.
Has(row, now, key) ==
    now.state \in {"active", "retiring"} /\ key \notin Unloadable =>
        /\ row.state \in {"active", "retiring"}
        /\ row.state = "retiring" => now.state = "retiring" /\ row.left = now.left

\* A key that was read is, or was, in the registry.
Known(row, now) == row.state # "none" => now.state # "none"

-----------------------------------------------------------------------------
(* The invariant.                                                          *)

\* How old the snapshot may be: since the timer last fired, or, while its reload
\* is under way, since the time before that.
Lag(i) == IF flight[i]["timer"].pc = "idle" THEN Interval - due[i] ELSE Interval

SnapshotOK(i) ==
    /\ \A p \in Purposes, k \in Kids : Known(snapshot[i][p][k], table[p][k])
    /\ ~missed[i] => \A p \in Purposes, k \in Kids : Fresh(snapshot[i][p][k], table[p][k], Lag(i))

\* A reload under way set lastRefreshAt in this unit of time, and so was its read.
FlightOK(i, s) ==
    /\ flight[i][s].pc # "idle" => since[i] = 0
    /\ flight[i][s].pc = "loading" =>
          \A p \in Purposes, k \in Kids : /\ Known(flight[i][s].rows[p][k], table[p][k])
                                          /\ Fresh(flight[i][s].rows[p][k], table[p][k], 0)

\* The keys of a token are in the registry; those of a fresh one outlive it, but
\* for the wait of a rotation.
TokenOK(t) ==
    \A p \in Purposes :
        LET now == table[p][tokens[t].kid[p]]
        IN  /\ now.state # "none"
            /\ tokens[t].fresh /\ now.state = "retiring" => now.left + Wait >= tokens[t].left

\* A verification that started a reload of its own waits for it, and from then on
\* every reload of the instance knows the keys of its token.
RequestOK(v) ==
    request[v].own =>
        /\ request[v].pc # "idle"
        /\ ~request[v].retry => request[v].pc = "reload"
        /\ \A p \in Purposes :
              LET i == request[v].at
                  k == tokens[request[v].token].kid[p]
              IN  /\ \A s \in Starter : flight[i][s].pc = "loading" =>
                        Has(flight[i][s].rows[p][k], table[p][k], <<p, k>>)
                  /\ request[v].retry => Has(snapshot[i][p][k], table[p][k], <<p, k>>)

TokenInv ==
    /\ TypeOK
    /\ \A i \in Instances : SnapshotOK(i) /\ \A s \in Starter : FlightOK(i, s)
    /\ \A t \in Tokens : TokenOK(t)
    /\ \A v \in Verifications : RequestOK(v)

-----------------------------------------------------------------------------
(* Constants and types.                                                    *)

LEMMA Times ==
    /\ Overlap \in Nat /\ Interval \in Nat /\ Cooldown \in Nat
    /\ Wait \in Nat /\ Overlap - Wait \in Nat /\ Overlap - Wait <= Overlap
    /\ 0 < Cooldown /\ Cooldown <= Interval /\ Interval < Overlap - Wait /\ Interval < Overlap
    BY TokenAssumption DEF Overlap

LEMMA FirstKid == 1 \in Kids
    BY TokenAssumption DEF Kids

\* A row of the registry, or of what was read from it.
LEMMA RowAt ==
    ASSUME NEW rows \in Rows, NEW p \in Purposes, NEW k \in Kids
    PROVE  /\ rows[p][k] \in Row /\ rows[p][k].left \in Nat /\ rows[p][k].left <= Overlap + 1
           /\ rows[p][k].state \in {"none", "active", "retiring", "revoked"}
    BY Times DEF Rows, Row

LEMMA NoRowType == NoRow \in Row /\ NoRow.state = "none"
    BY Times DEF NoRow, Row

LEMMA NothingRead == EMPTY \in Rows /\ \A p \in Purposes, k \in Kids : EMPTY[p][k] = NoRow
    BY NoRowType DEF EMPTY, Rows

\* What is loaded of the rows: those that are active or retiring, if they can be.
LEMMA LoadedIs ==
    ASSUME NEW rows \in Rows
    PROVE  /\ Loaded(rows) \in Rows
           /\ \A p \in Purposes, k \in Kids :
                 Loaded(rows)[p][k] =
                    IF rows[p][k].state \in {"active", "retiring"} /\ <<p, k>> \notin Unloadable
                    THEN rows[p][k] ELSE NoRow
    BY NoRowType DEF Loaded, Rows

LEMMA IdleIs == Idle \in Flight /\ Idle.pc = "idle"
    BY NothingRead DEF Idle, Flight

\* A request at rest.
LEMMA RestingIs == Resting \in Request /\ Resting.pc = "idle" /\ ~Resting.retry /\ ~Resting.own
<1>1. PICK i \in Instances, t \in Tokens : TRUE
    BY TokenAssumption
<1> DEFINE r == [pc |-> "idle", retry |-> FALSE, own |-> FALSE, at |-> i, token |-> t]
<1>2. r \in Request /\ r.pc = "idle" /\ ~r.retry /\ ~r.own
    BY DEF Request
<1> HIDE DEF r
<1>3. \E q \in Request : q.pc = "idle" /\ ~q.retry /\ ~q.own
    BY <1>2
<1> QED
    BY <1>3 DEF Resting

\* One reload of one instance changes.
LEMMA FlightSet ==
    ASSUME TypeOK, NEW i \in Instances, NEW s \in Starter, NEW f \in Flight,
           flight' = [flight EXCEPT ![i][s] = f]
    PROVE  /\ flight' \in [Instances -> [Starter -> Flight]] /\ flight'[i][s] = f
           /\ \A j \in Instances, r \in Starter : j # i \/ r # s => flight'[j][r] = flight[j][r]
<1>1. flight \in [Instances -> [Starter -> Flight]]
    BY DEF TypeOK
<1>2. [flight[i] EXCEPT ![s] = f] \in [Starter -> Flight]
    BY <1>1
<1>3. flight' = [flight EXCEPT ![i] = [flight[i] EXCEPT ![s] = f]]
    OBVIOUS
<1> QED
    BY <1>1, <1>2, <1>3

\* refresh, as far as its first await.
LEMMA Started ==
    ASSUME TypeOK, NEW i \in Instances, NEW s \in Starter, StartRefresh(i, s)
    PROVE  /\ flight' \in [Instances -> [Starter -> Flight]] /\ flight'[i][s].pc = "reading"
           /\ \A j \in Instances, r \in Starter : j # i \/ r # s => flight'[j][r] = flight[j][r]
           /\ since' \in [Instances -> 0 .. Cooldown] /\ since'[i] = 0
           /\ \A j \in Instances \ {i} : since'[j] = since[j]
<1> DEFINE f == [flight[i][s] EXCEPT !.pc = "reading"]
<1>1. flight[i][s] \in Flight
    BY DEF TypeOK
<1>2. f \in Flight /\ f.pc = "reading"
    BY <1>1 DEF Flight
<1>3. flight' = [flight EXCEPT ![i][s] = f]
    BY DEF StartRefresh
<1> HIDE DEF f
<1>4. since' \in [Instances -> 0 .. Cooldown] /\ since'[i] = 0 /\ \A j \in Instances \ {i} : since'[j] = since[j]
    BY Times DEF StartRefresh, TypeOK
<1>5. /\ flight' \in [Instances -> [Starter -> Flight]] /\ flight'[i][s] = f
      /\ \A j \in Instances, r \in Starter : j # i \/ r # s => flight'[j][r] = flight[j][r]
    BY <1>2, <1>3, FlightSet, Zenon
<1> QED
    BY <1>2, <1>4, <1>5

-----------------------------------------------------------------------------
(* The relations between what was read and what is there.                  *)

\* The steps of a row: it is created, retired for the overlap less the wait, and revoked.
Moves(now, next) ==
    \/ next = now
    \/ now.state = "none" /\ next.state = "active"
    \/ now.state = "active" /\ next.state = "retiring" /\ next.left \in Overlap - Wait .. Overlap
    \/ now.state = "retiring" /\ next.state = "revoked" /\ next.left = Interval + 1

LEMMA FreshMoves ==
    ASSUME NEW row, NEW now, NEW next, NEW lag \in Nat, Fresh(row, now, lag), Moves(now, next)
    PROVE  Fresh(row, next, lag)
    BY Times DEF Fresh, Moves

LEMMA FreshLater ==
    ASSUME NEW row \in Row, NEW now \in Row, NEW lag \in Nat, NEW more \in Nat, lag <= more,
           Fresh(row, now, lag)
    PROVE  Fresh(row, now, more)
<1>1. now.left \in Nat
    BY Times DEF Row
<1> QED
    BY <1>1, Times DEF Fresh

\* What is loaded now is fresh, and has every key there is.
LEMMA LoadedFresh ==
    ASSUME table \in Rows, NEW p \in Purposes, NEW k \in Kids
    PROVE  /\ Fresh(Loaded(table)[p][k], table[p][k], 0)
           /\ Known(Loaded(table)[p][k], table[p][k])
           /\ Has(Loaded(table)[p][k], table[p][k], <<p, k>>)
<1>1. Loaded(table)[p][k] =
         IF table[p][k].state \in {"active", "retiring"} /\ <<p, k>> \notin Unloadable
         THEN table[p][k] ELSE NoRow
    BY LoadedIs
<1> QED
    BY <1>1, NoRowType DEF Fresh, Has, Known

LEMMA LagType ==
    ASSUME TypeOK, NEW i \in Instances
    PROVE  Lag(i) \in Nat /\ Lag(i) <= Interval
    BY Times DEF TypeOK, Lag

\* The same of what was known, and of a key that was there already.
LEMMA KnownMoves ==
    ASSUME NEW row, NEW now, NEW next, Moves(now, next)
    PROVE  /\ Known(row, now) => Known(row, next)
           /\ now.state # "none" => next.state # "none"
    BY DEF Known, Moves

LEMMA HasMoves ==
    ASSUME NEW row, NEW now, NEW next, NEW key, Moves(now, next), now.state # "none", Has(row, now, key)
    PROVE  Has(row, next, key)
    BY DEF Moves, Has

-----------------------------------------------------------------------------
(* The operators.                                                          *)

LEMMA TableMoves ==
    ASSUME TokenInv, table' \in Rows, UNCHANGED <<registry, tokens, request>>,
           \A p \in Purposes, k \in Kids : Moves(table[p][k], table'[p][k])
    PROVE  TokenInv'
<1> USE DEF registry
<1>1. TypeOK'
    BY DEF TokenInv, TypeOK
<1>2. ASSUME NEW i \in Instances PROVE SnapshotOK(i)'
  <2>1. SnapshotOK(i) /\ Lag(i) \in Nat /\ Lag(i)' = Lag(i)
      BY LagType DEF TokenInv, Lag
  <2>2. ASSUME NEW p \in Purposes, NEW k \in Kids
        PROVE  /\ Known(snapshot[i][p][k], table'[p][k])
               /\ ~missed[i] => Fresh(snapshot[i][p][k], table'[p][k], Lag(i))
      BY <2>1, KnownMoves, FreshMoves DEF SnapshotOK
  <2> QED
      BY <2>1, <2>2 DEF SnapshotOK
<1>3. ASSUME NEW i \in Instances, NEW s \in Starter PROVE FlightOK(i, s)'
  <2>1. FlightOK(i, s)
      BY DEF TokenInv
  <2>2. ASSUME NEW p \in Purposes, NEW k \in Kids, flight[i][s].pc = "loading"
        PROVE  /\ Known(flight[i][s].rows[p][k], table'[p][k])
               /\ Fresh(flight[i][s].rows[p][k], table'[p][k], 0)
    <3>1. 0 \in Nat
        OBVIOUS
    <3> QED
        BY <2>1, <2>2, <3>1, KnownMoves, FreshMoves DEF FlightOK
  <2> QED
      BY <2>1, <2>2 DEF FlightOK
<1>4. ASSUME NEW t \in Tokens PROVE TokenOK(t)'
  <2>1. ASSUME NEW p \in Purposes
        PROVE  LET now == table'[p][tokens[t].kid[p]]
               IN  /\ now.state # "none"
                   /\ tokens[t].fresh /\ now.state = "retiring" => now.left + Wait >= tokens[t].left
    <3>1. PICK k \in Kids : k = tokens[t].kid[p]
        BY DEF TokenInv, TypeOK, Token
    <3>2. tokens[t].left \in Nat /\ tokens[t].left <= Overlap
        BY Times DEF TokenInv, TypeOK, Token
    <3>3. /\ table[p][k].state # "none"
          /\ tokens[t].fresh /\ table[p][k].state = "retiring" => table[p][k].left + Wait >= tokens[t].left
        BY <3>1 DEF TokenInv, TokenOK
    <3>4. Moves(table[p][k], table'[p][k])
        OBVIOUS
    <3> QED
        BY <3>1, <3>2, <3>3, <3>4, Times DEF Moves
  <2> QED
      BY <2>1 DEF TokenOK
<1>5. ASSUME NEW v \in Verifications PROVE RequestOK(v)'
  <2>1. SUFFICES ASSUME request[v].own PROVE RequestOK(v)'
      BY Zenon DEF RequestOK
  <2>2. RequestOK(v) /\ request[v].token \in Tokens
      BY DEF TokenInv, TypeOK, Request
  <2>3. ASSUME NEW p \in Purposes
        PROVE  LET i == request[v].at
                   k == tokens[request[v].token].kid[p]
               IN  /\ \A s \in Starter : flight[i][s].pc = "loading" =>
                         Has(flight[i][s].rows[p][k], table'[p][k], <<p, k>>)
                   /\ request[v].retry => Has(snapshot[i][p][k], table'[p][k], <<p, k>>)
    <3>1. PICK k \in Kids : k = tokens[request[v].token].kid[p]
        BY <2>2 DEF TokenInv, TypeOK, Token
    <3>2. table[p][k].state # "none"
        BY <2>2, <3>1 DEF TokenInv, TokenOK
    <3>3. Moves(table[p][k], table'[p][k])
        OBVIOUS
    <3>4. /\ \A s \in Starter : flight[request[v].at][s].pc = "loading" =>
                Has(flight[request[v].at][s].rows[p][k], table[p][k], <<p, k>>)
          /\ request[v].retry => Has(snapshot[request[v].at][p][k], table[p][k], <<p, k>>)
        BY <2>1, <2>2, <3>1, Zenon DEF RequestOK
    <3>5. \A row : Has(row, table[p][k], <<p, k>>) => Has(row, table'[p][k], <<p, k>>)
        BY <3>2, <3>3, HasMoves
    <3> QED
        BY <3>1, <3>4, <3>5, Zenon
  <2> QED
      BY <2>1, <2>2, <2>3, Zenon DEF RequestOK
<1> QED
    BY <1>1, <1>2, <1>3, <1>4, <1>5 DEF TokenInv

\* activate: a new key, and the active ones retire for the overlap.
LEMMA RotateKeeps ==
    ASSUME TokenInv, NEW p \in Purposes, Rotate(p)
    PROVE  TokenInv'
<1>1. table \in Rows
    BY DEF TokenInv, TypeOK
<1>2. PICK k \in Kids, waited \in 0 .. Wait :
         /\ table[p][k] = NoRow
         /\ table' = [table EXCEPT ![p] = [j \in Kids |->
               CASE j = k -> [state |-> "active", left |-> 0]
                 [] j \in ActiveKids(table, p) -> [state |-> "retiring", left |-> Overlap - waited]
                 [] OTHER -> table[p][j]]]
    BY DEF Rotate
<1> DEFINE new(j) == IF j = k THEN [state |-> "active", left |-> 0]
                     ELSE IF j \in ActiveKids(table, p) THEN [state |-> "retiring", left |-> Overlap - waited]
                     ELSE table[p][j]
<1>3. table' = [table EXCEPT ![p] = [j \in Kids |-> new(j)]]
  <2>1. \A j \in Kids : (CASE j = k -> [state |-> "active", left |-> 0]
                          [] j \in ActiveKids(table, p) -> [state |-> "retiring", left |-> Overlap - waited]
                          [] OTHER -> table[p][j]) = new(j)
    <3>1. k \notin ActiveKids(table, p)
        BY <1>2, NoRowType DEF ActiveKids
    <3> QED
        BY <3>1
  <2> QED
      BY <1>2, <2>1
<1>4. ASSUME NEW j \in Kids PROVE new(j) \in Row /\ Moves(table[p][j], new(j))
  <2>1. table[p][j] \in Row
      BY <1>1, RowAt
  <2>2. CASE j = k
      BY <1>2, <2>2, NoRowType, Times DEF Row, Moves
  <2>3. CASE j # k /\ j \in ActiveKids(table, p)
      BY <2>3, Times DEF Row, Moves, ActiveKids
  <2>4. CASE j # k /\ j \notin ActiveKids(table, p)
      BY <2>1, <2>4 DEF Moves
  <2> QED
      BY <2>2, <2>3, <2>4
<1> HIDE DEF new
<1>5. table' \in Rows
    BY <1>1, <1>3, <1>4 DEF Rows
<1>6. ASSUME NEW q \in Purposes, NEW j \in Kids PROVE Moves(table[q][j], table'[q][j])
  <2>1. CASE q = p
    <3>1. table'[p][j] = new(j)
        BY <1>1, <1>3 DEF Rows
    <3> QED
        BY <1>4, <2>1, <3>1
  <2>2. CASE q # p
    <3>1. table'[q] = table[q]
        BY <1>1, <1>3, <2>2 DEF Rows
    <3> QED
        BY <3>1 DEF Moves
  <2> QED
      BY <2>1, <2>2
<1>7. UNCHANGED <<registry, tokens, request>>
    BY DEF Rotate
<1> QED
    BY <1>5, <1>6, <1>7, TableMoves

\* revoke, of a key that is retiring.
LEMMA RevokeKeeps ==
    ASSUME TokenInv, NEW p \in Purposes, NEW k \in Kids, Revoke(p, k)
    PROVE  TokenInv'
<1> DEFINE r == [state |-> "revoked", left |-> Interval + 1]
<1>1. table \in Rows /\ table[p][k].state = "retiring" /\ table' = [table EXCEPT ![p][k] = r]
    BY DEF TokenInv, TypeOK, Revoke
<1>2. r \in Row /\ Moves(table[p][k], r)
    BY <1>1, Times DEF Row, Moves
<1> HIDE DEF r
<1>3. table' = [table EXCEPT ![p] = [table[p] EXCEPT ![k] = r]]
    BY <1>1
<1>4. /\ table' \in Rows /\ table'[p][k] = r
      /\ \A q \in Purposes, j \in Kids : q # p \/ j # k => table'[q][j] = table[q][j]
    BY <1>1, <1>2, <1>3 DEF Rows
<1>5. ASSUME NEW q \in Purposes, NEW j \in Kids PROVE Moves(table[q][j], table'[q][j])
    BY <1>2, <1>4 DEF Moves
<1>6. UNCHANGED <<registry, tokens, request>>
    BY DEF Revoke
<1> QED
    BY <1>4, <1>5, <1>6, TableMoves

-----------------------------------------------------------------------------
(* The reloads of an instance.                                             *)

\* A request that does not move goes by reloads that have read by now, or had.
LEMMA RequestKept ==
    ASSUME TokenInv, NEW v \in Verifications, request'[v] = request[v], UNCHANGED <<table, tokens>>,
           \A s \in Starter : flight'[request[v].at][s].pc = "loading" =>
              \/ flight'[request[v].at][s] = flight[request[v].at][s]
              \/ flight'[request[v].at][s].rows = Loaded(table),
           \/ snapshot'[request[v].at] = snapshot[request[v].at]
           \/ \E s \in Starter : /\ flight[request[v].at][s].pc = "loading"
                                 /\ snapshot'[request[v].at] = flight[request[v].at][s].rows
    PROVE  RequestOK(v)'
<1>1. SUFFICES ASSUME request[v].own PROVE RequestOK(v)'
    BY Zenon DEF RequestOK
<1>2. RequestOK(v) /\ request[v].token \in Tokens /\ table \in Rows
    BY DEF TokenInv, TypeOK, Request
<1>3. ASSUME NEW p \in Purposes
      PROVE  LET i == request[v].at
                 k == tokens[request[v].token].kid[p]
             IN  /\ \A s \in Starter : flight'[i][s].pc = "loading" =>
                       Has(flight'[i][s].rows[p][k], table[p][k], <<p, k>>)
                 /\ request[v].retry => Has(snapshot'[i][p][k], table[p][k], <<p, k>>)
  <2>1. PICK k \in Kids : k = tokens[request[v].token].kid[p]
      BY <1>2 DEF TokenInv, TypeOK, Token
  <2>2. Has(Loaded(table)[p][k], table[p][k], <<p, k>>)
      BY <1>2, LoadedFresh
  <2>3. /\ \A s \in Starter : flight[request[v].at][s].pc = "loading" =>
              Has(flight[request[v].at][s].rows[p][k], table[p][k], <<p, k>>)
        /\ request[v].retry => Has(snapshot[request[v].at][p][k], table[p][k], <<p, k>>)
      BY <1>1, <1>2, <2>1, Zenon DEF RequestOK
  <2> QED
      BY <2>1, <2>2, <2>3, Zenon
<1> QED
    BY <1>1, <1>2, <1>3, Zenon DEF RequestOK

LEMMA TimerKeeps ==
    ASSUME TokenInv, NEW i \in Instances, TimerFires(i)
    PROVE  TokenInv'
<1> USE DEF TimerFires
<1>0. TypeOK /\ "timer" \in Starter
    BY DEF TokenInv, Starter
<1>1. /\ flight' \in [Instances -> [Starter -> Flight]] /\ flight'[i]["timer"].pc = "reading"
      /\ \A j \in Instances, r \in Starter : j # i \/ r # "timer" => flight'[j][r] = flight[j][r]
      /\ since' \in [Instances -> 0 .. Cooldown] /\ since'[i] = 0
      /\ \A j \in Instances \ {i} : since'[j] = since[j]
    BY <1>0, Started, Zenon
<1>2. due' \in [Instances -> 0 .. Interval] /\ \A j \in Instances \ {i} : due'[j] = due[j]
    BY <1>0, Times DEF TypeOK
<1>3. TypeOK'
    BY <1>0, <1>1, <1>2 DEF TypeOK
<1>4. ASSUME NEW j \in Instances PROVE SnapshotOK(j)'
  <2>1. SnapshotOK(j) /\ Lag(j) \in Nat /\ Lag(j) <= Interval
      BY <1>0, LagType DEF TokenInv
  <2>2. Lag(j)' \in Nat /\ Lag(j) <= Lag(j)'
      BY <1>0, <1>1, <1>2, <2>1, Times DEF Lag
  <2>3. ASSUME NEW p \in Purposes, NEW k \in Kids, ~missed[j]
        PROVE  Fresh(snapshot[j][p][k], table[p][k], Lag(j)')
    <3>1. snapshot[j][p][k] \in Row /\ table[p][k] \in Row
        BY <1>0, RowAt DEF TypeOK
    <3> QED
        BY <2>1, <2>2, <2>3, <3>1, FreshLater DEF SnapshotOK
  <2> QED
      BY <2>1, <2>3 DEF SnapshotOK
<1>5. ASSUME NEW j \in Instances, NEW r \in Starter PROVE FlightOK(j, r)'
    BY <1>1 DEF TokenInv, FlightOK
<1>6. ASSUME NEW t \in Tokens PROVE TokenOK(t)'
    BY DEF TokenInv, TokenOK
<1>7. ASSUME NEW v \in Verifications PROVE RequestOK(v)'
  <2>1. request[v].at \in Instances
      BY <1>0 DEF TypeOK, Request
  <2>2. ASSUME NEW r \in Starter, flight'[request[v].at][r].pc = "loading"
        PROVE  flight'[request[v].at][r] = flight[request[v].at][r]
      BY <1>1, <2>1, <2>2
  <2> QED
      BY <2>2, RequestKept
<1> QED
    BY <1>3, <1>4, <1>5, <1>6, <1>7 DEF TokenInv

\* The query: what it read is what there is.
LEMMA ReadKeeps ==
    ASSUME TokenInv, NEW i \in Instances, NEW s \in Starter, ReadRows(i, s)
    PROVE  TokenInv'
<1> DEFINE f == [pc |-> "loading", rows |-> Loaded(table)]
<1>0. /\ TypeOK /\ table \in Rows /\ flight[i][s].pc = "reading" /\ since[i] = 0
      /\ UNCHANGED <<table, snapshot, due, since, missed, tokens, request>>
      /\ flight' = [flight EXCEPT ![i][s] = f]
    BY DEF TokenInv, TypeOK, ReadRows, FlightOK
<1>1. f \in Flight /\ f.pc = "loading" /\ f.rows = Loaded(table)
    BY <1>0, LoadedIs DEF Flight
<1> HIDE DEF f
<1>2. /\ flight' \in [Instances -> [Starter -> Flight]] /\ flight'[i][s] = f
      /\ \A j \in Instances, r \in Starter : j # i \/ r # s => flight'[j][r] = flight[j][r]
    BY <1>0, <1>1, FlightSet, Zenon
<1>3. TypeOK'
    BY <1>0, <1>2 DEF TypeOK
<1>4. ASSUME NEW j \in Instances PROVE SnapshotOK(j)'
  <2>0. "timer" \in Starter
      BY DEF Starter
  <2>1. SnapshotOK(j) /\ Lag(j)' = Lag(j)
      BY <1>0, <1>1, <1>2, <2>0 DEF TokenInv, Lag
  <2> QED
      BY <1>0, <2>1 DEF SnapshotOK
<1>5. ASSUME NEW j \in Instances, NEW r \in Starter PROVE FlightOK(j, r)'
  <2>1. CASE j = i /\ r = s
      BY <1>0, <1>1, <1>2, <2>1, LoadedFresh DEF FlightOK
  <2>2. CASE j # i \/ r # s
      BY <1>0, <1>2, <2>2 DEF TokenInv, FlightOK
  <2> QED
      BY <2>1, <2>2
<1>6. ASSUME NEW t \in Tokens PROVE TokenOK(t)'
    BY <1>0 DEF TokenInv, TokenOK
<1>7. ASSUME NEW v \in Verifications PROVE RequestOK(v)'
  <2>1. request[v].at \in Instances
      BY <1>0 DEF TypeOK, Request
  <2>2. ASSUME NEW r \in Starter
        PROVE  \/ flight'[request[v].at][r] = flight[request[v].at][r]
               \/ flight'[request[v].at][r].rows = Loaded(table)
      BY <1>1, <1>2, <2>1
  <2> QED
      BY <1>0, <2>2, RequestKept
<1> QED
    BY <1>3, <1>4, <1>5, <1>6, <1>7 DEF TokenInv

\* Who waited for the reload of a miss goes on; nobody else moves.
LEMMA Woken ==
    ASSUME TypeOK, NEW i \in Instances, NEW s \in Starter, NEW reloaded \in BOOLEAN, Wake(i, s, reloaded)
    PROVE  /\ request' \in [Verifications -> Request]
           /\ \A v \in Verifications :
                 IF s = "miss" /\ request[v].pc = "reload" /\ request[v].at = i
                 THEN /\ request'[v].pc = "decrypt" /\ request'[v].retry
                      /\ request'[v].own = (request[v].own /\ reloaded)
                      /\ request'[v].at = i /\ request'[v].token = request[v].token
                 ELSE request'[v] = request[v]
<1>1. ASSUME NEW v \in Verifications
      PROVE  /\ request'[v] \in Request
             /\ IF s = "miss" /\ request[v].pc = "reload" /\ request[v].at = i
                THEN /\ request'[v].pc = "decrypt" /\ request'[v].retry
                     /\ request'[v].own = (request[v].own /\ reloaded)
                     /\ request'[v].at = i /\ request'[v].token = request[v].token
                ELSE request'[v] = request[v]
  <2>1. request[v] \in Request
      BY DEF TypeOK
  <2>2. CASE s = "miss" /\ request[v].pc = "reload" /\ request[v].at = i
    <3>1. request'[v] = [request[v] EXCEPT !.pc = "decrypt", !.retry = TRUE, !.own = @ /\ reloaded]
        BY <2>2, Zenon DEF Wake
    <3> QED
        BY <2>1, <2>2, <3>1 DEF Request
  <2>3. CASE ~(s = "miss" /\ request[v].pc = "reload" /\ request[v].at = i)
    <3>1. request'[v] = request[v]
        BY <2>3, Zenon DEF Wake
    <3> QED
        BY <2>1, <2>3, <3>1
  <2> QED
      BY <2>2, <2>3
<1>2. request' = [v \in Verifications |-> request'[v]]
    BY Zenon DEF Wake
<1> QED
    BY <1>1, <1>2

\* A reload that fails leaves the snapshot; of the timer's, that is remembered.
LEMMA FailKeeps ==
    ASSUME TokenInv, NEW i \in Instances, NEW s \in Starter, RefreshFails(i, s)
    PROVE  TokenInv'
<1>0. /\ TypeOK /\ UNCHANGED <<table, snapshot, due, since, tokens>>
      /\ flight' = [flight EXCEPT ![i][s] = Idle]
      /\ missed' = [missed EXCEPT ![i] = @ \/ s = "timer"]
      /\ Wake(i, s, FALSE) /\ FALSE \in BOOLEAN
    BY DEF TokenInv, RefreshFails
<1>2. /\ flight' \in [Instances -> [Starter -> Flight]] /\ flight'[i][s] = Idle
      /\ \A j \in Instances, r \in Starter : j # i \/ r # s => flight'[j][r] = flight[j][r]
    BY <1>0, IdleIs, FlightSet, Zenon
<1>3. /\ request' \in [Verifications -> Request]
      /\ \A v \in Verifications : ~request'[v].own \/ request'[v] = request[v]
    BY <1>0, Woken
<1>4. /\ missed' \in [Instances -> BOOLEAN]
      /\ \A j \in Instances : missed[j] => missed'[j]
      /\ s = "timer" => missed'[i]
    BY <1>0 DEF TypeOK
<1>5. TypeOK'
    BY <1>0, <1>2, <1>3, <1>4 DEF TypeOK
<1>6. ASSUME NEW j \in Instances PROVE SnapshotOK(j)'
  <2>0. "timer" \in Starter
      BY DEF Starter
  <2>1. SnapshotOK(j)
      BY DEF TokenInv
  <2>2. CASE j = i /\ s = "timer"
      BY <1>0, <1>4, <2>1, <2>2 DEF SnapshotOK
  <2>3. CASE j # i \/ s # "timer"
    <3>1. Lag(j)' = Lag(j)
        BY <1>0, <1>2, <2>0, <2>3 DEF Lag
    <3> QED
        BY <1>0, <1>4, <2>1, <3>1 DEF SnapshotOK
  <2> QED
      BY <2>2, <2>3
<1>7. ASSUME NEW j \in Instances, NEW r \in Starter PROVE FlightOK(j, r)'
    BY <1>0, <1>2, IdleIs DEF TokenInv, FlightOK
<1>8. ASSUME NEW t \in Tokens PROVE TokenOK(t)'
    BY <1>0 DEF TokenInv, TokenOK
<1>9. ASSUME NEW v \in Verifications PROVE RequestOK(v)'
  <2>1. CASE ~request'[v].own
      BY <2>1, Zenon DEF RequestOK
  <2>2. CASE request'[v] = request[v]
    <3>1. request[v].at \in Instances
        BY <1>0 DEF TypeOK, Request
    <3>2. ASSUME NEW r \in Starter, flight'[request[v].at][r].pc = "loading"
          PROVE  flight'[request[v].at][r] = flight[request[v].at][r]
        BY <1>2, <3>1, <3>2, IdleIs
    <3> QED
        BY <1>0, <2>2, <3>2, RequestKept
  <2> QED
      BY <1>3, <2>1, <2>2
<1> QED
    BY <1>5, <1>6, <1>7, <1>8, <1>9 DEF TokenInv

\* A reload that ends well: the snapshot is as fresh as its rows.
LEMMA ReplaceKeeps ==
    ASSUME TokenInv, NEW i \in Instances, NEW s \in Starter, ReplaceSnapshot(i, s)
    PROVE  TokenInv'
<1>0. /\ TypeOK /\ UNCHANGED <<table, due, since, tokens>>
      /\ flight[i][s].pc = "loading" /\ flight[i][s].rows \in Rows
      /\ snapshot' = [snapshot EXCEPT ![i] = flight[i][s].rows]
      /\ flight' = [flight EXCEPT ![i][s] = Idle]
      /\ missed' = [missed EXCEPT ![i] = FALSE]
      /\ Wake(i, s, TRUE) /\ TRUE \in BOOLEAN
    BY DEF TokenInv, TypeOK, Flight, ReplaceSnapshot
<1>1. TypeOK /\ Idle \in Flight /\ flight' = [flight EXCEPT ![i][s] = Idle]
    BY <1>0, IdleIs
<1>2. /\ flight' \in [Instances -> [Starter -> Flight]] /\ flight'[i][s] = Idle
      /\ \A j \in Instances, r \in Starter : j # i \/ r # s => flight'[j][r] = flight[j][r]
    BY <1>1, FlightSet, Zenon
<1>3. /\ request' \in [Verifications -> Request]
      /\ \A v \in Verifications :
            IF s = "miss" /\ request[v].pc = "reload" /\ request[v].at = i
            THEN /\ request'[v].pc = "decrypt" /\ request'[v].retry
                 /\ request'[v].own = (request[v].own /\ TRUE)
                 /\ request'[v].at = i /\ request'[v].token = request[v].token
            ELSE request'[v] = request[v]
    BY <1>0, Woken, Zenon
<1>4. missed' \in [Instances -> BOOLEAN] /\ \A j \in Instances \ {i} : missed'[j] = missed[j]
    BY <1>0 DEF TypeOK
<1>5. /\ snapshot' \in [Instances -> Rows] /\ snapshot'[i] = flight[i][s].rows
      /\ \A j \in Instances \ {i} : snapshot'[j] = snapshot[j]
    BY <1>0 DEF TypeOK
<1>6. TypeOK'
    BY <1>0, <1>2, <1>3, <1>4, <1>5 DEF TypeOK
<1>7. ASSUME NEW j \in Instances PROVE SnapshotOK(j)'
  <2>0. "timer" \in Starter
      BY DEF Starter
  <2>1. CASE j = i
    <3>1. Lag(i)' \in Nat /\ 0 <= Lag(i)'
        BY <1>6, Times DEF TypeOK, Lag
    <3>2. ASSUME NEW p \in Purposes, NEW k \in Kids
          PROVE  /\ Known(snapshot'[i][p][k], table[p][k])
                 /\ Fresh(snapshot'[i][p][k], table[p][k], Lag(i)')
      <4>1. /\ Known(flight[i][s].rows[p][k], table[p][k])
            /\ Fresh(flight[i][s].rows[p][k], table[p][k], 0)
          BY <1>0 DEF TokenInv, FlightOK
      <4>2. flight[i][s].rows[p][k] \in Row /\ table[p][k] \in Row /\ 0 \in Nat
          BY <1>0, RowAt DEF TypeOK
      <4> QED
          BY <1>5, <3>1, <4>1, <4>2, FreshLater
    <3> QED
        BY <1>0, <2>1, <3>2 DEF SnapshotOK
  <2>2. CASE j # i
    <3>1. SnapshotOK(j) /\ Lag(j)' = Lag(j)
        BY <1>0, <1>2, <2>0, <2>2 DEF TokenInv, Lag
    <3> QED
        BY <1>0, <1>4, <1>5, <2>2, <3>1 DEF SnapshotOK
  <2> QED
      BY <2>1, <2>2
<1>8. ASSUME NEW j \in Instances, NEW r \in Starter PROVE FlightOK(j, r)'
    BY <1>0, <1>2, IdleIs DEF TokenInv, FlightOK
<1>9. ASSUME NEW t \in Tokens PROVE TokenOK(t)'
    BY <1>0 DEF TokenInv, TokenOK
<1>10. ASSUME NEW v \in Verifications PROVE RequestOK(v)'
  <2>1. request[v].at \in Instances
      BY <1>0 DEF TypeOK, Request
  <2>2. ASSUME NEW r \in Starter, flight'[request[v].at][r].pc = "loading"
        PROVE  flight'[request[v].at][r] = flight[request[v].at][r]
      BY <1>2, <2>1, <2>2, IdleIs
  <2>3. CASE request'[v] = request[v]
      BY <1>0, <1>5, <2>1, <2>2, <2>3, RequestKept
  <2>4. CASE s = "miss" /\ request[v].pc = "reload" /\ request[v].at = i
    <3>1. SUFFICES ASSUME request'[v].own PROVE RequestOK(v)'
        BY Zenon DEF RequestOK
    <3>2. /\ request[v].own /\ request'[v].retry /\ request'[v].pc = "decrypt"
          /\ request'[v].at = i /\ request'[v].token = request[v].token
        BY <1>3, <2>4, <3>1
    <3>3. RequestOK(v)
        BY DEF TokenInv
    <3>4. ASSUME NEW p \in Purposes
          PROVE  LET k == tokens[request[v].token].kid[p]
                 IN  /\ Has(flight[i][s].rows[p][k], table[p][k], <<p, k>>)
                     /\ \A r \in Starter : flight'[i][r].pc = "loading" =>
                           Has(flight'[i][r].rows[p][k], table[p][k], <<p, k>>)
        BY <1>0, <2>2, <2>4, <3>2, <3>3, Zenon DEF RequestOK
    <3> QED
        BY <1>0, <1>5, <3>2, <3>4, Zenon DEF RequestOK
  <2> QED
      BY <1>3, <2>3, <2>4
<1> QED
    BY <1>6, <1>7, <1>8, <1>9, <1>10 DEF TokenInv

-----------------------------------------------------------------------------
(* Tokens and their verification.                                          *)

\* issue: with keys that the snapshot has as active, and that the registry knows.
LEMMA IssueKeeps ==
    ASSUME TokenInv, NEW i \in Instances, NEW t \in Tokens, issue(i, t)
    PROVE  TokenInv'
<1>0. /\ TypeOK /\ UNCHANGED <<table, snapshot, flight, due, since, missed, request>>
      /\ \A v \in Verifications : request[v].token = t => request[v].pc = "idle"
    BY DEF TokenInv, issue, registry
<1>1. PICK kid \in [Purposes -> Kids] :
         /\ \A p \in Purposes : kid[p] \in ActiveKids(snapshot[i], p)
         /\ tokens' = [tokens EXCEPT ![t] =
               [kid |-> kid, left |-> Overlap,
                fresh |-> \A p \in Purposes : kid[p] \in ActiveKids(table, p)]]
    BY DEF issue
<1> DEFINE fresh == \A p \in Purposes : kid[p] \in ActiveKids(table, p)
           new == [kid |-> kid, left |-> Overlap, fresh |-> fresh]
<1>2. new \in Token /\ new.kid = kid /\ new.fresh = fresh
  <2>1. fresh \in BOOLEAN
      OBVIOUS
  <2> HIDE DEF fresh
  <2> QED
      BY <2>1, Times DEF Token
<1>3. tokens' \in [Tokens -> Token] /\ tokens'[t] = new /\ \A o \in Tokens \ {t} : tokens'[o] = tokens[o]
  <2> HIDE DEF fresh
  <2>1. tokens' = [tokens EXCEPT ![t] = new]
      BY <1>1 DEF fresh
  <2> HIDE DEF new
  <2> QED
      BY <1>0, <1>2, <2>1 DEF TypeOK
<1> HIDE DEF new
<1>4. TypeOK'
    BY <1>0, <1>3 DEF TypeOK
<1>5. ASSUME NEW j \in Instances PROVE SnapshotOK(j)' /\ \A s \in Starter : FlightOK(j, s)'
  <2>1. Lag(j)' = Lag(j)
      BY <1>0 DEF Lag
  <2> QED
      BY <1>0, <2>1 DEF TokenInv, SnapshotOK, FlightOK
<1>6. ASSUME NEW o \in Tokens PROVE TokenOK(o)'
  <2>1. CASE o = t
    <3>1. ASSUME NEW p \in Purposes
          PROVE  /\ table[p][kid[p]].state # "none"
                 /\ fresh => table[p][kid[p]].state = "active"
      <4>1. kid[p] \in Kids /\ snapshot[i][p][kid[p]].state = "active"
          BY <1>1 DEF ActiveKids
      <4>2. Known(snapshot[i][p][kid[p]], table[p][kid[p]])
          BY <4>1 DEF TokenInv, SnapshotOK
      <4> QED
          BY <4>1, <4>2 DEF Known, ActiveKids
    <3> HIDE DEF fresh
    <3> QED
        BY <1>0, <1>2, <1>3, <2>1, <3>1 DEF TokenOK
  <2>2. CASE o # t
    <3>1. TokenOK(o) /\ tokens'[o] = tokens[o]
        BY <1>3, <2>2 DEF TokenInv
    <3> QED
        BY <1>0, <3>1 DEF TokenOK
  <2> QED
      BY <2>1, <2>2
<1>7. ASSUME NEW v \in Verifications PROVE RequestOK(v)'
  <2>1. RequestOK(v) /\ request[v].token \in Tokens
      BY <1>0 DEF TokenInv, TypeOK, Request
  <2>2. request[v].own => tokens'[request[v].token] = tokens[request[v].token]
      BY <1>0, <1>3, <2>1, Zenon DEF RequestOK
  <2> QED
      BY <1>0, <2>1, <2>2, Zenon DEF RequestOK
<1> QED
    BY <1>4, <1>5, <1>6, <1>7 DEF TokenInv

\* A verification moves and nothing else does: it keeps what it has, or has nothing.
LEMMA RequestMoves ==
    ASSUME TokenInv, NEW v \in Verifications, NEW q \in Request, request' = [request EXCEPT ![v] = q],
           UNCHANGED <<table, registry, tokens>>,
           q.own => /\ request[v].own /\ request[v].retry /\ q.retry /\ q.pc # "idle"
                    /\ q.at = request[v].at /\ q.token = request[v].token
    PROVE  TokenInv'
<1> USE DEF registry
<1>1. TypeOK /\ TypeOK' /\ request'[v] = q /\ \A o \in Verifications \ {v} : request'[o] = request[o]
    BY DEF TokenInv, TypeOK
<1>2. ASSUME NEW j \in Instances PROVE SnapshotOK(j)' /\ \A s \in Starter : FlightOK(j, s)'
  <2>1. Lag(j)' = Lag(j)
      BY DEF Lag
  <2> QED
      BY <2>1 DEF TokenInv, SnapshotOK, FlightOK
<1>3. ASSUME NEW t \in Tokens PROVE TokenOK(t)'
    BY DEF TokenInv, TokenOK
<1>4. RequestOK(v)'
  <2>1. CASE ~q.own
      BY <1>1, <2>1, Zenon DEF RequestOK
  <2>2. CASE q.own
    <3>1. /\ request'[v].retry /\ request'[v].pc # "idle" /\ request[v].own /\ request[v].retry
          /\ request'[v].at = request[v].at /\ request'[v].token = request[v].token
        BY <1>1, <2>2
    <3>2. RequestOK(v)
        BY DEF TokenInv
    <3> QED
        BY <3>1, <3>2, Zenon DEF RequestOK
  <2> QED
      BY <2>1, <2>2
<1>5. ASSUME NEW o \in Verifications \ {v} PROVE RequestOK(o)'
  <2>1. RequestOK(o) /\ request'[o] = request[o]
      BY <1>1 DEF TokenInv
  <2> QED
      BY <2>1, Zenon DEF RequestOK
<1> QED
    BY <1>1, <1>2, <1>3, <1>4, <1>5 DEF TokenInv

LEMMA StartVerifyKeeps ==
    ASSUME TokenInv, NEW v \in Verifications, NEW i \in Instances, NEW t \in Tokens, StartVerify(v, i, t)
    PROVE  TokenInv'
<1> DEFINE q == [pc |-> "decrypt", retry |-> FALSE, own |-> FALSE, at |-> i, token |-> t]
<1>1. q \in Request /\ ~q.own
    BY DEF Request
<1>2. request' = [request EXCEPT ![v] = q] /\ UNCHANGED <<table, registry, tokens>>
    BY DEF StartVerify
<1> HIDE DEF q
<1> QED
    BY <1>1, <1>2, RequestMoves

\* The request is answered.
LEMMA EndKeeps ==
    ASSUME TokenInv, NEW v \in Verifications, End(v), UNCHANGED <<table, registry, tokens>>
    PROVE  TokenInv'
    BY RestingIs, RequestMoves DEF End

\* A miss that starts a reload of its own: no other is under way at that instance.
LEMMA OwnReloadKeeps ==
    ASSUME TokenInv, NEW v \in Verifications, NEW i \in Instances, i = request[v].at, ~request[v].retry,
           since[i] = Cooldown,
           request' = [request EXCEPT ![v].pc = "reload", ![v].own = TRUE],
           StartRefresh(i, "miss"),
           UNCHANGED <<table, snapshot, due, missed, tokens>>
    PROVE  TokenInv'
<1> DEFINE q == [request[v] EXCEPT !.pc = "reload", !.own = TRUE]
<1>0. TypeOK /\ "miss" \in Starter /\ "timer" \in Starter /\ request[v] \in Request
    BY DEF TokenInv, TypeOK, Starter
<1>1. /\ q \in Request /\ q.pc = "reload" /\ q.own /\ ~q.retry /\ q.at = i
    BY <1>0 DEF Request
<1>2. request' = [request EXCEPT ![v] = q]
    BY <1>0 DEF TypeOK
<1> HIDE DEF q
<1>3. /\ flight' \in [Instances -> [Starter -> Flight]] /\ flight'[i]["miss"].pc = "reading"
      /\ \A j \in Instances, r \in Starter : j # i \/ r # "miss" => flight'[j][r] = flight[j][r]
      /\ since' \in [Instances -> 0 .. Cooldown] /\ since'[i] = 0
      /\ \A j \in Instances \ {i} : since'[j] = since[j]
    BY <1>0, Started, Zenon
<1>4. \A s \in Starter : flight[i][s].pc = "idle"
    BY Times DEF TokenInv, FlightOK
<1>5. request' \in [Verifications -> Request] /\ request'[v] = q /\ \A o \in Verifications \ {v} : request'[o] = request[o]
    BY <1>0, <1>1, <1>2 DEF TypeOK
<1>6. TypeOK'
    BY <1>0, <1>3, <1>5 DEF TypeOK
<1>7. ASSUME NEW j \in Instances PROVE SnapshotOK(j)'
  <2>1. Lag(j)' = Lag(j)
    <3>1. "timer" # "miss"
        OBVIOUS
    <3> QED
        BY <1>0, <1>3, <3>1 DEF Lag
  <2> QED
      BY <2>1 DEF TokenInv, SnapshotOK
<1>8. ASSUME NEW j \in Instances, NEW r \in Starter PROVE FlightOK(j, r)'
    BY <1>3 DEF TokenInv, FlightOK
<1>9. ASSUME NEW t \in Tokens PROVE TokenOK(t)'
    BY DEF TokenInv, TokenOK
<1>10. RequestOK(v)'
  <2>1. ASSUME NEW s \in Starter PROVE flight'[i][s].pc # "loading"
      BY <1>3, <1>4
  <2> QED
      BY <1>1, <1>5, <2>1, Zenon DEF RequestOK
<1>11. ASSUME NEW o \in Verifications \ {v} PROVE RequestOK(o)'
  <2>1. request[o].at \in Instances /\ request'[o] = request[o]
      BY <1>0, <1>5 DEF TypeOK, Request
  <2>2. ASSUME NEW r \in Starter, flight'[request[o].at][r].pc = "loading"
        PROVE  flight'[request[o].at][r] = flight[request[o].at][r]
      BY <1>3, <2>1, <2>2
  <2> QED
      BY <2>1, <2>2, RequestKept
<1> QED
    BY <1>6, <1>7, <1>8, <1>9, <1>10, <1>11 DEF TokenInv

\* verifyOnce failed, for the first time or the second.
LEMMA VerifyFailsKeeps ==
    ASSUME TokenInv, NEW v \in Verifications, VerifyFails(v),
           request[v].pc \in {"decrypt", "verify"}, UNCHANGED <<table, snapshot, due, missed, tokens>>
    PROVE  TokenInv'
<1>0. request[v] \in Request /\ request[v].at \in Instances /\ request \in [Verifications -> Request]
    BY DEF TokenInv, TypeOK, Request
<1>1. ~request[v].retry => ~request[v].own
    BY Zenon DEF TokenInv, RequestOK
<1>2. ASSUME UNCHANGED <<flight, since>> PROVE UNCHANGED <<table, registry, tokens>>
    BY <1>2 DEF registry
<1>3. CASE End(v) /\ UNCHANGED <<flight, since>>
    BY <1>2, <1>3, EndKeeps
<1>4. CASE ~request[v].retry /\ request' = [request EXCEPT ![v].pc = "reload"] /\ UNCHANGED <<flight, since>>
  <2> DEFINE q == [request[v] EXCEPT !.pc = "reload"]
  <2>1. q \in Request /\ ~q.own
      BY <1>0, <1>1, <1>4 DEF Request
  <2>2. request' = [request EXCEPT ![v] = q]
      BY <1>0, <1>4
  <2> HIDE DEF q
  <2> QED
      BY <1>2, <1>4, <2>1, <2>2, RequestMoves
<1>5. CASE /\ ~request[v].retry /\ request' = [request EXCEPT ![v].pc = "decrypt", ![v].retry = TRUE]
           /\ UNCHANGED <<flight, since>>
  <2> DEFINE q == [request[v] EXCEPT !.pc = "decrypt", !.retry = TRUE]
  <2>1. q \in Request /\ ~q.own
      BY <1>0, <1>1, <1>5 DEF Request
  <2>2. request' = [request EXCEPT ![v] = q]
      BY <1>0, <1>5
  <2> HIDE DEF q
  <2> QED
      BY <1>2, <1>5, <2>1, <2>2, RequestMoves
<1>6. CASE /\ ~request[v].retry /\ since[request[v].at] = Cooldown
           /\ request' = [request EXCEPT ![v].pc = "reload", ![v].own = TRUE]
           /\ StartRefresh(request[v].at, "miss")
  <2>1. PICK i \in Instances : i = request[v].at
      BY <1>0
  <2>2. since[i] = Cooldown /\ StartRefresh(i, "miss")
      BY <1>6, <2>1
  <2> QED
      BY <1>6, <2>1, <2>2, OwnReloadKeeps
<1> QED
    BY <1>3, <1>4, <1>5, <1>6 DEF VerifyFails

\* One attempt: it decrypts, then it checks the signature, or it fails.
LEMMA VerifyKeeps ==
    ASSUME TokenInv, NEW v \in Verifications, Decrypt(v) \/ CheckSignature(v)
    PROVE  TokenInv'
<1>0. /\ request[v] \in Request /\ request \in [Verifications -> Request]
      /\ request[v].pc \in {"decrypt", "verify"} /\ UNCHANGED <<table, snapshot, due, missed, tokens>>
    BY DEF TokenInv, TypeOK, Decrypt, CheckSignature
<1>1. ASSUME UNCHANGED <<flight, since>> PROVE UNCHANGED <<table, registry, tokens>>
    BY <1>0, <1>1 DEF registry
<1>2. CASE VerifyFails(v)
    BY <1>0, <1>2, VerifyFailsKeeps
<1>3. CASE End(v) /\ UNCHANGED <<flight, since>>
    BY <1>1, <1>3, EndKeeps
<1>4. CASE request' = [request EXCEPT ![v].pc = "verify"] /\ UNCHANGED <<flight, since>>
  <2> DEFINE q == [request[v] EXCEPT !.pc = "verify"]
  <2>1. request[v].own => request[v].retry
      BY <1>0, Zenon DEF TokenInv, RequestOK
  <2>2. /\ q \in Request /\ q.own = request[v].own /\ q.retry = request[v].retry /\ q.pc # "idle"
        /\ q.at = request[v].at /\ q.token = request[v].token
      BY <1>0 DEF Request
  <2>3. request' = [request EXCEPT ![v] = q]
      BY <1>0, <1>4
  <2> HIDE DEF q
  <2> QED
      BY <1>1, <1>4, <2>1, <2>2, <2>3, RequestMoves, Zenon
<1> QED
    BY <1>2, <1>3, <1>4 DEF Decrypt, CheckSignature

-----------------------------------------------------------------------------
(* Time.                                                                   *)

LEMMA LessIs ==
    ASSUME NEW n \in Nat
    PROVE  /\ Less(n) \in Nat /\ Less(n) <= n /\ n <= Less(n) + 1
           /\ \A m \in Nat : m <= n => Less(m) <= Less(n)
    BY DEF Less

LEMMA AgeIs ==
    ASSUME NEW rows \in Rows
    PROVE  /\ Age(rows) \in Rows
           /\ \A p \in Purposes, k \in Kids : /\ Age(rows)[p][k].state = rows[p][k].state
                                             /\ Age(rows)[p][k].left = Less(rows[p][k].left)
<1>1. ASSUME NEW p \in Purposes, NEW k \in Kids
      PROVE  /\ [rows[p][k] EXCEPT !.left = Less(@)] \in Row
             /\ [rows[p][k] EXCEPT !.left = Less(@)].state = rows[p][k].state
             /\ [rows[p][k] EXCEPT !.left = Less(@)].left = Less(rows[p][k].left)
  <2>1. rows[p][k] \in Row /\ rows[p][k].left \in Nat /\ rows[p][k].left <= Overlap + 1
      BY RowAt
  <2>2. Less(rows[p][k].left) \in 0 .. Overlap + 1
      BY <2>1, LessIs, Times
  <2> QED
      BY <2>1, <2>2 DEF Row
<1> QED
    BY <1>1 DEF Age, Rows

\* Deadlines come nearer together, and the lag grows by as much.
LEMMA FreshAges ==
    ASSUME NEW row \in Row, NEW now \in Row, NEW row1, NEW now1, NEW lag \in Nat, Fresh(row, now, lag),
           row1.state = row.state, row1.left = Less(row.left),
           now1.state = now.state, now1.left = Less(now.left)
    PROVE  Fresh(row1, now1, lag + 1)
<1>1. now.left \in Nat /\ Less(now.left) \in Nat /\ now.left <= Less(now.left) + 1
    BY LessIs, Times DEF Row
<1> QED
    BY <1>1, Times DEF Fresh

LEMMA TickKeeps ==
    ASSUME TokenInv, Tick
    PROVE  TokenInv'
<1>0. /\ TypeOK /\ table \in Rows /\ snapshot \in [Instances -> Rows]
      /\ \A i \in Instances : due[i] > 0 /\ \A s \in Starter : flight[i][s] = Idle
      /\ UNCHANGED <<flight, missed, request>>
    BY DEF TokenInv, TypeOK, Tick
<1>1. /\ table' \in Rows
      /\ \A p \in Purposes, k \in Kids : /\ table'[p][k].state = table[p][k].state
                                        /\ table'[p][k].left = Less(table[p][k].left)
    BY <1>0, AgeIs DEF Tick
<1>2. /\ snapshot' \in [Instances -> Rows]
      /\ \A i \in Instances, p \in Purposes, k \in Kids :
            /\ snapshot'[i][p][k].state = snapshot[i][p][k].state
            /\ snapshot'[i][p][k].left = Less(snapshot[i][p][k].left)
  <2>1. ASSUME NEW i \in Instances
        PROVE  /\ snapshot'[i] \in Rows
               /\ \A p \in Purposes, k \in Kids :
                     /\ snapshot'[i][p][k].state = snapshot[i][p][k].state
                     /\ snapshot'[i][p][k].left = Less(snapshot[i][p][k].left)
    <3>1. snapshot'[i] = Age(snapshot[i]) /\ snapshot[i] \in Rows
        BY <1>0 DEF Tick
    <3> QED
        BY <3>1, AgeIs
  <2>2. snapshot' = [i \in Instances |-> snapshot'[i]]
      BY DEF Tick
  <2> QED
      BY <2>1, <2>2
<1>3. due' \in [Instances -> 0 .. Interval] /\ \A i \in Instances : due'[i] = due[i] - 1
    BY <1>0, Times DEF Tick, TypeOK
<1>4. since' \in [Instances -> 0 .. Cooldown]
    BY <1>0, Times DEF Tick, TypeOK
<1>5. /\ tokens' \in [Tokens -> Token]
      /\ \A t \in Tokens : /\ tokens'[t].kid = tokens[t].kid /\ tokens'[t].fresh = tokens[t].fresh
                           /\ tokens'[t].left = Less(tokens[t].left)
  <2>1. ASSUME NEW t \in Tokens
        PROVE  /\ tokens'[t] \in Token
               /\ tokens'[t].kid = tokens[t].kid /\ tokens'[t].fresh = tokens[t].fresh
               /\ tokens'[t].left = Less(tokens[t].left)
    <3>1. tokens[t] \in Token /\ tokens'[t] = [tokens[t] EXCEPT !.left = Less(@)]
        BY <1>0 DEF Tick, TypeOK
    <3>2. Less(tokens[t].left) \in 0 .. Overlap
      <4>1. tokens[t].left \in Nat /\ tokens[t].left <= Overlap
          BY <3>1, Times DEF Token
      <4> QED
          BY <4>1, LessIs, Times
    <3> QED
        BY <3>1, <3>2 DEF Token
  <2>2. tokens' = [t \in Tokens |-> tokens'[t]]
      BY DEF Tick
  <2> QED
      BY <2>1, <2>2
<1>6. TypeOK'
    BY <1>0, <1>1, <1>2, <1>3, <1>4, <1>5 DEF TypeOK
<1>7. ASSUME NEW i \in Instances PROVE SnapshotOK(i)'
  <2>0. "timer" \in Starter
      BY DEF Starter
  <2>1. SnapshotOK(i) /\ Lag(i) \in Nat
      BY <1>0, LagType DEF TokenInv
  <2>2. Lag(i)' = Lag(i) + 1
    <3>1. due[i] \in Nat /\ flight[i]["timer"].pc = "idle"
        BY <1>0, <2>0, IdleIs, Times DEF TypeOK
    <3> QED
        BY <1>0, <1>3, <3>1, Times DEF Lag
  <2>3. ASSUME NEW p \in Purposes, NEW k \in Kids
        PROVE  /\ Known(snapshot'[i][p][k], table'[p][k])
               /\ ~missed[i] => Fresh(snapshot'[i][p][k], table'[p][k], Lag(i) + 1)
    <3>1. snapshot[i][p][k] \in Row /\ table[p][k] \in Row
        BY <1>0, RowAt
    <3>2. Known(snapshot'[i][p][k], table'[p][k])
        BY <1>1, <1>2, <2>1 DEF SnapshotOK, Known
    <3>3. ~missed[i] => Fresh(snapshot[i][p][k], table[p][k], Lag(i))
        BY <2>1 DEF SnapshotOK
    <3>4. /\ snapshot'[i][p][k].state = snapshot[i][p][k].state
          /\ snapshot'[i][p][k].left = Less(snapshot[i][p][k].left)
          /\ table'[p][k].state = table[p][k].state
          /\ table'[p][k].left = Less(table[p][k].left)
        BY <1>1, <1>2
    <3> QED
        BY <2>1, <3>1, <3>2, <3>3, <3>4, FreshAges
  <2> QED
      BY <1>0, <2>2, <2>3 DEF SnapshotOK
<1>8. ASSUME NEW i \in Instances, NEW s \in Starter PROVE FlightOK(i, s)'
    BY <1>0, IdleIs DEF FlightOK
<1>9. ASSUME NEW t \in Tokens PROVE TokenOK(t)'
  <2>1. ASSUME NEW p \in Purposes
        PROVE  LET now == table'[p][tokens[t].kid[p]]
               IN  /\ now.state # "none"
                   /\ tokens[t].fresh /\ now.state = "retiring" => now.left + Wait >= tokens'[t].left
    <3>1. PICK k \in Kids : k = tokens[t].kid[p]
        BY <1>0 DEF TypeOK, Token
    <3>2. table[p][k].left \in Nat /\ tokens[t].left \in Nat
        BY <1>0, RowAt, Times DEF TypeOK, Token
    <3>3. /\ table[p][k].state # "none"
          /\ tokens[t].fresh /\ table[p][k].state = "retiring" => tokens[t].left <= table[p][k].left + Wait
        BY <3>1, <3>2, Times DEF TokenInv, TokenOK
    <3>4. tokens[t].left <= table[p][k].left + Wait => Less(tokens[t].left) <= Less(table[p][k].left) + Wait
        BY <3>2, Times DEF Less
    <3>5. Less(tokens[t].left) \in Nat /\ Less(table[p][k].left) \in Nat
        BY <3>2, LessIs
    <3> QED
        BY <1>1, <1>5, <3>1, <3>3, <3>4, <3>5, Times
  <2> QED
      BY <1>5, <2>1 DEF TokenOK
<1>10. ASSUME NEW v \in Verifications PROVE RequestOK(v)'
  <2>1. SUFFICES ASSUME request[v].own PROVE RequestOK(v)'
      BY <1>0, Zenon DEF RequestOK
  <2>2. RequestOK(v) /\ request[v].token \in Tokens /\ request[v].at \in Instances
      BY <1>0 DEF TokenInv, TypeOK, Request
  <2>3. \A s \in Starter : flight[request[v].at][s].pc = "idle"
      BY <1>0, <2>2, IdleIs
  <2>4. ASSUME NEW p \in Purposes, request[v].retry
        PROVE  LET k == tokens[request[v].token].kid[p]
               IN  Has(snapshot'[request[v].at][p][k], table'[p][k], <<p, k>>)
    <3>1. PICK k \in Kids : k = tokens[request[v].token].kid[p]
        BY <1>0, <2>2 DEF TypeOK, Token
    <3>2. Has(snapshot[request[v].at][p][k], table[p][k], <<p, k>>)
        BY <2>1, <2>2, <2>4, <3>1, Zenon DEF RequestOK
    <3>3. PICK i \in Instances : i = request[v].at
        BY <2>2
    <3>4. /\ snapshot'[i][p][k].state = snapshot[i][p][k].state
          /\ snapshot'[i][p][k].left = Less(snapshot[i][p][k].left)
          /\ table'[p][k].state = table[p][k].state
          /\ table'[p][k].left = Less(table[p][k].left)
        BY <1>1, <1>2
    <3>5. Has(snapshot'[i][p][k], table'[p][k], <<p, k>>)
        BY <3>2, <3>3, <3>4 DEF Has
    <3> QED
        BY <3>1, <3>3, <3>5, Zenon
  <2> QED
      BY <1>0, <1>5, <2>1, <2>2, <2>3, <2>4, Zenon DEF RequestOK
<1> QED
    BY <1>6, <1>7, <1>8, <1>9, <1>10 DEF TokenInv

-----------------------------------------------------------------------------
(* The theorems.                                                           *)

LEMMA TokenInit == Init => TokenInv
<1> SUFFICES ASSUME Init PROVE TokenInv
    OBVIOUS
<1> USE DEF Init
<1>1. FirstKeys \in Rows /\ \A p \in Purposes, k \in Kids :
         FirstKeys[p][k] = IF k = 1 THEN [state |-> "active", left |-> 0] ELSE NoRow
  <2>1. [state |-> "active", left |-> 0] \in Row
      BY Times DEF Row
  <2> QED
      BY <2>1, NoRowType DEF FirstKeys, Rows
<1>2. ASSUME NEW i \in Instances
      PROVE  /\ snapshot[i] \in Rows
             /\ \A p \in Purposes, k \in Kids : /\ Known(snapshot[i][p][k], table[p][k])
                                               /\ Fresh(snapshot[i][p][k], table[p][k], 0)
  <2>1. CASE snapshot[i] = Loaded(FirstKeys)
      BY <1>1, <2>1, LoadedIs, LoadedFresh
  <2>2. CASE snapshot[i] = EMPTY
      BY <2>2, NothingRead, NoRowType DEF Known, Fresh
  <2> QED
      BY <2>1, <2>2
<1>3. NoToken \in Token /\ NoToken.kid = [p \in Purposes |-> 1] /\ ~NoToken.fresh
    BY FirstKid, Times DEF NoToken, Token
<1>4. TypeOK
  <2>1. snapshot \in [Instances -> Rows]
      BY <1>2
  <2>2. due \in [Instances -> 0 .. Interval] /\ since \in [Instances -> 0 .. Cooldown]
      BY Times
  <2>3. missed \in [Instances -> BOOLEAN]
      OBVIOUS
  <2> QED
      BY <1>1, <1>3, <2>1, <2>2, <2>3, IdleIs, RestingIs DEF TypeOK
<1>5. ASSUME NEW i \in Instances PROVE SnapshotOK(i)
  <2>1. Lag(i) \in Nat /\ 0 <= Lag(i)
      BY <1>4, LagType
  <2>2. ASSUME NEW p \in Purposes, NEW k \in Kids PROVE Fresh(snapshot[i][p][k], table[p][k], Lag(i))
    <3>1. snapshot[i][p][k] \in Row /\ table[p][k] \in Row /\ 0 \in Nat
        BY <1>4, RowAt DEF TypeOK
    <3> QED
        BY <1>2, <2>1, <3>1, FreshLater
  <2> QED
      BY <1>2, <2>2 DEF SnapshotOK
<1>6. ASSUME NEW i \in Instances, NEW s \in Starter PROVE FlightOK(i, s)
    BY IdleIs DEF FlightOK
<1>7. ASSUME NEW t \in Tokens PROVE TokenOK(t)
    BY <1>1, <1>3, FirstKid DEF TokenOK
<1>8. ASSUME NEW v \in Verifications PROVE RequestOK(v)
    BY RestingIs DEF RequestOK
<1> QED
    BY <1>4, <1>5, <1>6, <1>7, <1>8 DEF TokenInv

LEMMA TokenNext ==
    ASSUME TokenInv, [Next]_vars
    PROVE  TokenInv'
<1>1. ASSUME NEW p \in Purposes, Rotate(p) PROVE TokenInv'
    BY <1>1, RotateKeeps
<1>2. ASSUME NEW p \in Purposes, NEW k \in Kids, Revoke(p, k) PROVE TokenInv'
    BY <1>2, RevokeKeeps
<1>3. ASSUME NEW i \in Instances, Reload(i) PROVE TokenInv'
    BY <1>3, TimerKeeps, ReadKeeps, FailKeeps, ReplaceKeeps DEF Reload
<1>4. ASSUME NEW i \in Instances, NEW t \in Tokens, issue(i, t) PROVE TokenInv'
    BY <1>4, IssueKeeps
<1>5. ASSUME NEW v \in Verifications, Verify(v) PROVE TokenInv'
    BY <1>5, StartVerifyKeeps, VerifyKeeps DEF Verify
<1>6. CASE UNCHANGED vars
  <2>1. UNCHANGED <<registry, tokens, request>> /\ table' = table
      BY <1>6 DEF vars, registry
  <2>2. table' \in Rows /\ \A p \in Purposes, k \in Kids : Moves(table[p][k], table'[p][k])
      BY <2>1 DEF TokenInv, TypeOK, Moves
  <2> QED
      BY <2>1, <2>2, TableMoves
<1> QED
    BY <1>1, <1>2, <1>3, <1>4, <1>5, <1>6, TickKeeps DEF Next

\* How far snapshots, reloads and tokens may be from the registry, at any time.
THEOREM TokenInvariant == Spec => []TokenInv
    BY TokenInit, TokenNext, PTL DEF Spec

\* Types of the snapshots, reloads, tokens and verifications.
THEOREM TokenTypes == Spec => []TypeOK
<1>1. TokenInv => TypeOK
    BY DEF TokenInv
<1> QED
    BY <1>1, TokenInvariant, PTL

\* No instance whose timer reloads go well trusts a key for longer than an interval
\* after its revocation, or after its overlap.
THEOREM TrustEndsInTime == Spec => []TrustIsRecent
<1>1. ASSUME TokenInv PROVE TrustIsRecent
  <2>1. ASSUME NEW i \in Instances, NEW p \in Purposes, NEW k \in Kids,
               ~missed[i], isKeyUsable(snapshot[i][p][k])
        PROVE  \/ isKeyUsable(table[p][k])
               \/ table[p][k].state = "revoked" /\ table[p][k].left > 0
    <3>1. Fresh(snapshot[i][p][k], table[p][k], Lag(i))
        BY <1>1, <2>1 DEF TokenInv, SnapshotOK
    <3>2. Lag(i) \in Nat /\ Lag(i) <= Interval
        BY <1>1, LagType DEF TokenInv
    <3>3. table[p][k].left \in Nat /\ snapshot[i][p][k].left \in Nat
        BY <1>1, RowAt DEF TokenInv, TypeOK
    <3> QED
        BY <2>1, <3>1, <3>2, <3>3, Times DEF Fresh, isKeyUsable
  <2> QED
      BY <2>1 DEF TrustIsRecent
<1> QED
    BY <1>1, TokenInvariant, PTL

\* A rotation logs nobody out who has a token of the keys that were active, but for
\* the time that its transaction may take.
THEOREM RotationLogsNobodyOut == Spec => []OverlapCoversFresh
<1>1. ASSUME TokenInv PROVE OverlapCoversFresh
  <2>1. ASSUME NEW t \in Tokens, tokens[t].left > Wait, tokens[t].fresh, NEW p \in Purposes
        PROVE  LET row == table[p][tokens[t].kid[p]] IN row.state = "revoked" \/ isKeyUsable(row)
    <3>1. PICK k \in Kids : k = tokens[t].kid[p]
        BY <1>1 DEF TokenInv, TypeOK, Token
    <3>2. /\ table[p][k].state # "none"
          /\ table[p][k].state = "retiring" => table[p][k].left + Wait >= tokens[t].left
        BY <1>1, <2>1, <3>1 DEF TokenInv, TokenOK
    <3>3. /\ table[p][k].left \in Nat /\ tokens[t].left \in Nat
          /\ table[p][k].state \in {"none", "active", "retiring", "revoked"}
        BY <1>1, RowAt, Times DEF TokenInv, TypeOK, Token
    <3> QED
        BY <2>1, <3>1, <3>2, <3>3, Times DEF isKeyUsable
  <2> QED
      BY <2>1 DEF OverlapCoversFresh, Covered
<1> QED
    BY <1>1, TokenInvariant, PTL

\* After a reload of its own, a verification finds the keys of every good token.
THEOREM OneRetryIsEnough == Spec => []RetrySuffices
<1>1. ASSUME TokenInv PROVE RetrySuffices
  <2>1. ASSUME NEW v \in Verifications, request[v].retry, request[v].own, Good(request[v].token),
               NEW p \in Purposes
        PROVE  Resolves(v, p)
    <3>0. request[v].token \in Tokens /\ table \in Rows
        BY <1>1 DEF TokenInv, TypeOK, Request
    <3>1. PICK k \in Kids : k = tokens[request[v].token].kid[p]
        BY <1>1, <3>0 DEF TokenInv, TypeOK, Token
    <3>2. Has(snapshot[request[v].at][p][k], table[p][k], <<p, k>>)
        BY <1>1, <2>1, <3>1, Zenon DEF TokenInv, RequestOK
    <3>3. isKeyUsable(Loaded(table)[p][k])
        BY <2>1, <3>1 DEF Good
    <3>4. isKeyUsable(table[p][k]) /\ <<p, k>> \notin Unloadable
        BY <3>0, <3>3, LoadedIs, NoRowType DEF isKeyUsable
    <3>5. isKeyUsable(snapshot[request[v].at][p][k])
        BY <3>2, <3>4 DEF Has, isKeyUsable
    <3> QED
        BY <3>1, <3>5 DEF Resolves
  <2> QED
      BY <2>1 DEF RetrySuffices
<1> QED
    BY <1>1, TokenInvariant, PTL

=============================================================================
