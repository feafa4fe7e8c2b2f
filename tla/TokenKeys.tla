----------------------------- MODULE TokenKeys ------------------------------
(***************************************************************************)
(* The service's side of the key registry: each instance signs, encrypts   *)
(* and verifies from a snapshot of config_keys (KeyRegistryService), which *)
(* a timer and failed verifications reload, while operators rotate and     *)
(* revoke keys and tokens travel between instances (TokenService).         *)
(*                                                                         *)
(* Time is relative: every deadline is the time left until it, so that the *)
(* state space is finite and time can go on for ever. A reload is assumed  *)
(* to take less than one unit of time; within a unit everything            *)
(* interleaves.                                                            *)
(***************************************************************************)
EXTENDS Naturals, FiniteSets

CONSTANTS
    Instances,    \* auth service instances
    Tokens,       \* slots for access tokens; an expired one may be reused
    Verifications,\* requests that carry a token
    MaxKeys,      \* bound on the keys of a purpose
    MaxRotations, \* bound on the rotations of both purposes together
    Unloadable,   \* <<purpose, kid>> rows that loadStoredKey refuses
    TTL, Tolerance, \* access-token lifetime and clock tolerance
    Interval,     \* REFRESH_INTERVAL_MS
    Cooldown,     \* REFRESH_COOLDOWN_MS
    Wait          \* external: the longest activate may take from fixing not_after to
                  \* its COMMIT (the transaction's own limits on waiting and running)

Purposes == {"token_signing", "token_encryption"}
Kids     == 1 .. MaxKeys
Overlap  == TTL + Tolerance

ASSUME TokenAssumption ==
    /\ Instances # {} /\ Tokens # {}
    /\ MaxKeys \in Nat \ {0} /\ MaxRotations \in Nat
    /\ Unloadable \subseteq Purposes \X Kids
    /\ TTL \in Nat \ {0} /\ Tolerance \in Nat
    /\ Cooldown \in Nat \ {0} /\ Wait \in Nat
    /\ Interval \in Cooldown .. Overlap - Wait - 1

VARIABLES
    table,        \* config_keys: state, and the time left to not_after
    snapshot,     \* each instance: the keys it has loaded
    flight,       \* each instance: its reloads under way, by who started them
    due,          \* each instance: time to the next tick of its timer
    since,        \* each instance: time since lastRefreshAt, up to Cooldown
    missed,       \* history: the last timer reload of the instance failed
    tokens,       \* tokens in circulation
    request       \* verifications under way

vars == <<table, snapshot, flight, due, since, missed, tokens, request>>
registry == <<snapshot, flight, due, since, missed>>

\* A revoked row keeps the time for which it may still be in some snapshot.
Row   == [state : {"none", "active", "retiring", "revoked"}, left : 0 .. Overlap + 1]
NoRow == [state |-> "none", left |-> 0]
Rows  == [Purposes -> [Kids -> Row]]
EMPTY == [p \in Purposes |-> [k \in Kids |-> NoRow]]

Token   == [kid : [Purposes -> Kids], left : 0 .. Overlap, fresh : BOOLEAN]
NoToken == [kid |-> [p \in Purposes |-> 1], left |-> 0, fresh |-> FALSE]

Starter == {"timer", "miss"}
Flight  == [pc : {"idle", "reading", "loading"}, rows : Rows]
Idle    == [pc |-> "idle", rows |-> EMPTY]

Request == [pc : {"idle", "decrypt", "verify", "reload"},
            retry : BOOLEAN,     \* this is the second attempt
            own : BOOLEAN,       \* history: after a reload that it started itself
            at : Instances, token : Tokens]
Resting == CHOOSE r \in Request : r.pc = "idle" /\ ~r.retry /\ ~r.own

TypeOK ==
    /\ table \in Rows
    /\ snapshot \in [Instances -> Rows]
    /\ flight \in [Instances -> [Starter -> Flight]]
    /\ due \in [Instances -> 0 .. Interval]
    /\ since \in [Instances -> 0 .. Cooldown]
    /\ missed \in [Instances -> BOOLEAN]
    /\ tokens \in [Tokens -> Token]
    /\ request \in [Verifications -> Request]

-----------------------------------------------------------------------------
(* Keys.                                                                   *)

isKeyUsable(row) == row.state = "active" \/ (row.state = "retiring" /\ row.left > 0)

\* findMany active or retiring, then loadStoredKey row by row: a row that cannot
\* be loaded costs that key only.
Loaded(rows) == [p \in Purposes |-> [k \in Kids |->
    IF rows[p][k].state \in {"active", "retiring"} /\ <<p, k>> \notin Unloadable
    THEN rows[p][k] ELSE NoRow]]

ActiveKids(rows, p) == {k \in Kids : rows[p][k].state = "active"}

FirstKeys == [p \in Purposes |-> [k \in Kids |->
    IF k = 1 THEN [state |-> "active", left |-> 0] ELSE NoRow]]

Init ==
    /\ table = FirstKeys
    /\ snapshot \in [Instances -> {Loaded(FirstKeys), EMPTY}]
    /\ flight = [i \in Instances |-> [s \in Starter |-> Idle]]
    /\ due = [i \in Instances |-> Interval]
    /\ since = [i \in Instances |-> 0]
    /\ missed = [i \in Instances |-> snapshot[i] = EMPTY]
    /\ tokens = [t \in Tokens |-> NoToken]
    /\ request = [v \in Verifications |-> Resting]

-----------------------------------------------------------------------------
(* Operators: KeyLifecycle's transactions, as the service sees them.       *)

\* Mutation: the overlap forgets the clock tolerance.
RotateShort(p) ==
    /\ \E k \in Kids, waited \in 0 .. Wait :
          /\ table[p][k] = NoRow /\ \A j \in 1 .. k - 1 : table[p][j] # NoRow
          /\ table' = [table EXCEPT ![p] = [j \in Kids |->
                CASE j = k -> [state |-> "active", left |-> 0]
                  [] j \in ActiveKids(table, p) -> [state |-> "retiring", left |-> TTL - waited]
                  [] OTHER -> table[p][j]]]
    /\ UNCHANGED <<registry, tokens, request>>

\* Mutation: the new key is never taken out of pending, and is loaded all the same.
RotateToPending(p) ==
    /\ \E k \in Kids :
          /\ table[p][k] = NoRow
          /\ table' = [table EXCEPT ![p][k] = [state |-> "pending", left |-> 0]]
    /\ UNCHANGED <<registry, tokens, request>>

\* A committed activate: what is active retires until the overlap is over, counted
\* from the moment before the transaction, which may have waited since.
Rotate(p) ==
    /\ Cardinality({q \in Purposes \X Kids : table[q[1]][q[2]] # NoRow})
           < Cardinality(Purposes) + MaxRotations
    /\ \E k \in Kids, waited \in 0 .. Wait :
          /\ table[p][k] = NoRow /\ \A j \in 1 .. k - 1 : table[p][j] # NoRow
          /\ table' = [table EXCEPT ![p] = [j \in Kids |->
                CASE j = k -> [state |-> "active", left |-> 0]
                  [] j \in ActiveKids(table, p) -> [state |-> "retiring", left |-> Overlap - waited]
                  [] OTHER -> table[p][j]]]
    /\ UNCHANGED <<registry, tokens, request>>

\* A committed revoke of a retiring key.
Revoke(p, k) ==
    /\ table[p][k].state = "retiring"
    /\ table' = [table EXCEPT ![p][k] = [state |-> "revoked", left |-> Interval + 1]]
    /\ UNCHANGED <<registry, tokens, request>>

-----------------------------------------------------------------------------
(* KeyRegistryService.                                                     *)

\* refresh: lastRefreshAt is set before the query.
StartRefresh(i, s) ==
    /\ flight' = [flight EXCEPT ![i][s].pc = "reading"]
    /\ since' = [since EXCEPT ![i] = 0]

\* Mutation: keys are reloaded on a miss only.
TimerIdle(i) ==
    /\ due[i] = 0
    /\ due' = [due EXCEPT ![i] = Interval]
    /\ UNCHANGED <<table, snapshot, flight, since, missed, tokens, request>>

\* The interval: it reloads whatever else is under way, and whatever the cooldown.
TimerFires(i) ==
    /\ due[i] = 0
    /\ due' = [due EXCEPT ![i] = Interval]
    /\ StartRefresh(i, "timer")
    /\ UNCHANGED <<table, snapshot, missed, tokens, request>>

ReadRows(i, s) ==
    /\ flight[i][s].pc = "reading"
    /\ flight' = [flight EXCEPT ![i][s] = [pc |-> "loading", rows |-> Loaded(table)]]
    /\ UNCHANGED <<table, snapshot, due, since, missed, tokens, request>>

\* Callers that share this reload go on to their second attempt.
Wake(i, s, reloaded) ==
    request' = [v \in Verifications |->
        IF s = "miss" /\ request[v].pc = "reload" /\ request[v].at = i
        THEN [request[v] EXCEPT !.pc = "decrypt", !.retry = TRUE, !.own = @ /\ reloaded]
        ELSE request[v]]

\* The query failed: the previous snapshot stays.
RefreshFails(i, s) ==
    /\ flight[i][s].pc = "reading"
    /\ flight' = [flight EXCEPT ![i][s] = Idle]
    /\ missed' = [missed EXCEPT ![i] = @ \/ s = "timer"]
    /\ Wake(i, s, FALSE)
    /\ UNCHANGED <<table, snapshot, due, since, tokens>>

\* The rows are unwrapped and replace the snapshot, in the order reloads finish.
ReplaceSnapshot(i, s) ==
    /\ flight[i][s].pc = "loading"
    /\ snapshot' = [snapshot EXCEPT ![i] = flight[i][s].rows]
    /\ flight' = [flight EXCEPT ![i][s] = Idle]
    /\ missed' = [missed EXCEPT ![i] = FALSE]
    /\ Wake(i, s, TRUE)
    /\ UNCHANGED <<table, due, since, tokens>>

-----------------------------------------------------------------------------
(* TokenService.                                                           *)

\* issue: sign and encrypt with the active keys of the snapshot, if it has both.
issue(i, t) ==
    /\ tokens[t].left = 0
    /\ \A v \in Verifications :
          request[v].token = t => request[v].pc = "idle"
    /\ \E kid \in [Purposes -> Kids] :
          /\ \A p \in Purposes : kid[p] \in ActiveKids(snapshot[i], p)
          /\ tokens' = [tokens EXCEPT ![t] =
                [kid |-> kid, left |-> Overlap,
                 fresh |-> \A p \in Purposes : kid[p] \in ActiveKids(table, p)]]
    /\ UNCHANGED <<table, registry, request>>

StartVerify(v, i, t) ==
    /\ request[v].pc = "idle"
    /\ tokens[t].left > 0
    /\ request' = [request EXCEPT ![v] = [pc |-> "decrypt", retry |-> FALSE, own |-> FALSE,
                                            at |-> i, token |-> t]]
    /\ UNCHANGED <<table, registry, tokens>>

\* The request is answered: with the token's claims, or with a 401.
End(v) == request' = [request EXCEPT ![v] = Resting]

\* Mutation: the reload is started but not awaited.
NotAwaited(v) ==
    /\ IF request[v].retry THEN End(v)
       ELSE request' = [request EXCEPT ![v].pc = "decrypt", ![v].retry = TRUE, ![v].own = TRUE]
    /\ IF ~request[v].retry /\ flight[request[v].at]["miss"] = Idle
       THEN StartRefresh(request[v].at, "miss")
       ELSE UNCHANGED <<flight, since>>

\* verifyOnce failed. The first time round refreshIfStale joins the reload that
\* is under way, or starts one unless the cooldown forbids it; then verify tries
\* again, once.
VerifyFails(v) ==
    LET i == request[v].at
    IN  \/ /\ request[v].retry
           /\ End(v)
           /\ UNCHANGED <<flight, since>>
        \/ /\ ~request[v].retry /\ flight[i]["miss"].pc # "idle"
           /\ request' = [request EXCEPT ![v].pc = "reload"]
           /\ UNCHANGED <<flight, since>>
        \/ /\ ~request[v].retry /\ flight[i]["miss"].pc = "idle" /\ since[i] < Cooldown
           /\ request' = [request EXCEPT ![v].pc = "decrypt", ![v].retry = TRUE]
           /\ UNCHANGED <<flight, since>>
        \/ /\ ~request[v].retry /\ flight[i]["miss"].pc = "idle" /\ since[i] = Cooldown
           /\ request' = [request EXCEPT ![v].pc = "reload", ![v].own = TRUE]
           /\ StartRefresh(i, "miss")

Resolves(v, p) ==
    isKeyUsable(snapshot[request[v].at][p][tokens[request[v].token].kid[p]])

\* compactDecrypt, with the encryption key the snapshot has at that moment.
Decrypt(v) ==
    /\ request[v].pc = "decrypt"
    /\ \/ /\ Resolves(v, "token_encryption")
          /\ request' = [request EXCEPT ![v].pc = "verify"]
          /\ UNCHANGED <<flight, since>>
       \/ /\ ~Resolves(v, "token_encryption")
          /\ VerifyFails(v)
    /\ UNCHANGED <<table, snapshot, due, missed, tokens>>

\* jwtVerify, with the signing key the snapshot has by now, and the expiry.
CheckSignature(v) ==
    /\ request[v].pc = "verify"
    /\ LET good == Resolves(v, "token_signing") /\ tokens[request[v].token].left > 0
       IN  \/ /\ good
              /\ End(v)
              /\ UNCHANGED <<flight, since>>
           \/ /\ ~good
              /\ VerifyFails(v)
    /\ UNCHANGED <<table, snapshot, due, missed, tokens>>

-----------------------------------------------------------------------------
Less(n) == IF n = 0 THEN 0 ELSE n - 1
Age(rows) == [p \in Purposes |-> [k \in Kids |-> [rows[p][k] EXCEPT !.left = Less(@)]]]

\* Time passes; timers fire on time, and a reload ends before the unit does.
Tick ==
    /\ \A i \in Instances : due[i] > 0 /\ \A s \in Starter : flight[i][s] = Idle
    /\ table' = Age(table)
    /\ snapshot' = [i \in Instances |-> Age(snapshot[i])]
    /\ due' = [i \in Instances |-> due[i] - 1]
    /\ since' = [i \in Instances |-> IF since[i] < Cooldown THEN since[i] + 1 ELSE Cooldown]
    /\ tokens' = [t \in Tokens |-> [tokens[t] EXCEPT !.left = Less(@)]]
    /\ UNCHANGED <<flight, missed, request>>

Reload(i) ==
    \/ TimerFires(i)
    \/ \E s \in Starter : ReadRows(i, s) \/ RefreshFails(i, s) \/ ReplaceSnapshot(i, s)

Verify(v) ==
    \/ \E i \in Instances, t \in Tokens : StartVerify(v, i, t)
    \/ Decrypt(v) \/ CheckSignature(v)

Next ==
    \/ \E p \in Purposes : Rotate(p) \/ \E k \in Kids : Revoke(p, k)
    \/ \E i \in Instances : Reload(i) \/ \E t \in Tokens : issue(i, t)
    \/ \E v \in Verifications : Verify(v)
    \/ Tick

Spec == Init /\ [][Next]_vars

\* Time passes, timers fire and reloads end; the database may fail any reload, but
\* not every one for ever. Nothing is assumed of operators and requests.
FairSpec ==
    /\ Spec
    /\ WF_vars(Tick)
    /\ \A i \in Instances : WF_vars(Reload(i))
    /\ \A i \in Instances : SF_vars(ReadRows(i, "timer"))

-----------------------------------------------------------------------------
(* Properties.                                                             *)

\* An instance stops trusting a key in time: unless its timer reload failed, a key
\* that its snapshot would still verify with is usable in the registry, or was
\* revoked no longer than one interval ago (key-registry.service.ts: the periodic
\* reload "bounds that staleness to one interval on every instance").
TrustIsRecent ==
    \A i \in Instances, p \in Purposes, k \in Kids :
        ~missed[i] /\ isKeyUsable(snapshot[i][p][k]) =>
            \/ isKeyUsable(table[p][k])
            \/ table[p][k].state = "revoked" /\ table[p][k].left > 0

Covered(t) ==
    \A p \in Purposes : LET row == table[p][tokens[t].kid[p]]
                        IN  row.state = "revoked" \/ isKeyUsable(row)

\* A rotation logs nobody out, but for the time its transaction takes: a token that
\* was made with the keys then active is accepted until Wait before its end, whatever
\* rotates. The last Wait units are lost to a token that was issued with the old key
\* while activate, its not_after fixed already, waited; where Wait is within the
\* clock tolerance no token loses any of its lifetime.
OverlapCoversFresh == \A t \in Tokens : tokens[t].left > Wait /\ tokens[t].fresh => Covered(t)

\* ... and the same of every token that has not expired, with no reload failing:
\* manage-keys.ts derives the overlap from the token lifetime alone, and
\* docs/key-management.md calls it exactly right.
OverlapCovers ==
    (\A i \in Instances : ~missed[i]) =>
        \A t \in Tokens : tokens[t].left > Tolerance => Covered(t)

Good(t) ==
    /\ tokens[t].left > 0
    /\ \A p \in Purposes : isKeyUsable(Loaded(table)[p][tokens[t].kid[p]])

\* One retry is enough: after a reload that the verification started itself, the
\* second attempt finds the keys of every token that deserves it, whichever other
\* reloads finish in between. (It may miss them when the cooldown or a failed query
\* kept it from reloading, or when the reload it joined had read its rows before.)
RetrySuffices ==
    \A v \in Verifications :
        request[v].retry /\ request[v].own /\ Good(request[v].token) =>
            \A p \in Purposes : Resolves(v, p)

\* In the end every instance has the keys of the registry, whatever reloads failed
\* or overtook one another on the way: a rotation takes effect without a restart
\* and without a failed verification to trigger it.
SnapshotsConverge == <>[](\A i \in Instances : snapshot[i] = Loaded(table))

=============================================================================
