--------------------------- MODULE AuditVerifier ----------------------------
(***************************************************************************)
(* verify-chain beside a live chain: it reads the log page by page, one    *)
(* autocommit query per page, while appends commit between its pages. What *)
(* it is there to find is a row changed or removed by someone who got      *)
(* around the layers of AuditImmutability.                                 *)
(*                                                                         *)
(* contention-probe fires appends of its own and walks what came after the *)
(* head that it found, its own rows and everybody else's.                  *)
(*                                                                         *)
(* An operator runs one tool at a time, of these two and the immutability  *)
(* probe; when one begins, the report of the last is forgotten. The layers *)
(* change only between the runs of these two, which do not look at them.   *)
(***************************************************************************)
EXTENDS AuditImmutability

CONSTANTS
    PageSize,     \* --page-size
    Contenders    \* the appends of a contention probe

ASSUME PageAssumption == PageSize \in Nat \ {0}
ASSUME ContendersAssumption == Contenders \subseteq Calls \ Bypassers /\ Contenders # {}

VARIABLES
    cursor,       \* afterSeq, expectedPrev (and headHash) and total
    verdict,      \* what the tool last reported, or what it is doing
    seen          \* history variable: the entries its walk has accepted

verifier == <<cursor, verdict, seen>>
allVars == <<vars, guards, verifier>>

Busy     == {"reading", "firing"}
Verdicts == {"idle", "empty", "ok", "broken", "proved", "failed"} \cup Busy

VTypeOK ==
    /\ TypeOK /\ GTypeOK
    /\ cursor \in [after : Nat, prev : Hash, total : Nat]
    /\ verdict \in Verdicts
    /\ seen \in Hash

Start == [after |-> 0, prev |-> GENESIS_HASH, total |-> 0]

VInit ==
    /\ Init /\ GInit
    /\ cursor = Start
    /\ verdict = "idle"
    /\ seen = <<>>

-----------------------------------------------------------------------------
\* One page: rows past the cursor, in seq order, at most PageSize of them.
readPage(after) ==
    {r \in rows : /\ r.seq > after
                  /\ Cardinality({q \in rows : after < q.seq /\ q.seq < r.seq}) < PageSize}

Before(page, r) == {q \in page : q.seq < r.seq}

\* The last row of a page, or of part of one.
LastOf(page) == CHOOSE r \in page : \A q \in page : q.seq <= r.seq

\* The hash that r has to point at: that of the row before it, in this page or
\* at the end of what was read before.
ExpectedPrev(page, r, prev) ==
    IF Before(page, r) = {} THEN prev ELSE LastOf(Before(page, r)).hash

\* Mutation: stored hashes are compared with each other but never recomputed.
LinksOnly(page, r, prev) == r.prevHash # ExpectedPrev(page, r, prev)

\* verifyAuditChain: the link is checked first, then the row's own hash.
Breaks(page, r, prev) ==
    \/ r.prevHash # ExpectedPrev(page, r, prev)
    \/ r.hash # computeAuditHash(r.event, r.at, r.prevHash)

\* The breaks verifyAuditChain may report: the first one, if there is any.
verifyAuditChain(page, prev) ==
    {r \in page : Breaks(page, r, prev) /\ \A q \in Before(page, r) : ~Breaks(page, q, prev)}

\* The row of a page that has i - 1 rows before it.
Nth(page, i) == CHOOSE r \in {q \in page : Cardinality(Before(page, q)) + 1 = i} : TRUE

EntryOf(r) == [event |-> r.event, at |-> r.at]

\* The entries of some rows of a page, oldest first.
Entries(page) == [i \in 1 .. Cardinality(page) |-> EntryOf(Nth(page, i))]

-----------------------------------------------------------------------------
StartTool == verdict \notin Busy /\ layers = Layers /\ Resting /\ Forget

\* A new run of the verifier: from genesis, whatever an earlier run found.
StartVerify ==
    /\ StartTool
    /\ verdict' = "reading"
    /\ cursor' = Start
    /\ seen' = <<>>
    /\ UNCHANGED <<vars, layers, edits>>

\* A page with no break in it: the cursor moves to its last row.
VerifyPage ==
    LET page == readPage(cursor.after)
    IN  /\ verdict = "reading"
        /\ page # {}
        /\ verifyAuditChain(page, cursor.prev) = {}
        /\ cursor' = [after |-> LastOf(page).seq,
                      prev  |-> LastOf(page).hash,
                      total |-> cursor.total + Cardinality(page)]
        /\ seen' = seen \o Entries(page)
        /\ UNCHANGED <<vars, verdict, guards>>

\* BROKEN: the report counts the rows verified inside this page as well, so the
\* cursor is left at the hash the verified rows end in.
ReportBreak ==
    LET page == readPage(cursor.after)
    IN  /\ verdict = "reading"
        /\ \E r \in verifyAuditChain(page, cursor.prev) :
              /\ cursor' = [cursor EXCEPT !.total = @ + Cardinality(Before(page, r)),
                                          !.prev = ExpectedPrev(page, r, cursor.prev)]
              /\ seen' = seen \o Entries(Before(page, r))
        /\ verdict' = "broken"
        /\ UNCHANGED <<vars, guards>>

\* An empty page ends the walk: OK, or EMPTY when nothing was there at all.
FinishVerify ==
    /\ verdict = "reading"
    /\ readPage(cursor.after) = {}
    /\ verdict' = (IF cursor.total = 0 THEN "empty" ELSE "ok")
    /\ UNCHANGED <<vars, cursor, seen, guards>>

-----------------------------------------------------------------------------
\* contention-probe: MAX(seq), and then all of its appends at once.
StartContention ==
    /\ StartTool
    /\ \A c \in Contenders : pc[c] = "idle"
    /\ verdict' = "firing"
    /\ cursor' = [Start EXCEPT !.after = IF rows = {} THEN 0 ELSE LastOf(rows).seq]
    /\ seen' = <<>>
    /\ UNCHANGED <<vars, layers, edits>>

\* They are calls like any other, but of appendAuditEvent and not of AuditService.
Fired ==
    verdict = "firing" => \A c \in Contenders : pc'[c] # pc[c] => pc'[c] # "logged"

\* Rows after the head, and the hash that the first of them has to point at.
Landed  == {r \in rows : r.seq > cursor.after}
Heads   == {r \in rows : r.seq = cursor.after}
From    == IF cursor.after = 0 THEN GENESIS_HASH ELSE (CHOOSE r \in Heads : TRUE).hash

\* No append was refused, by the unique indexes or otherwise; at least as many rows
\* as appends are there; they are linked to the head that was read and to each
\* other, and every hash is recomputed. (Without the head the program throws.)
Proved ==
    /\ \A c \in Contenders : pc[c] = "recorded"
    /\ cursor.after = 0 \/ Heads # {}
    /\ Landed # {} /\ Cardinality(Landed) >= Cardinality(Contenders)
    /\ verifyAuditChain(Landed, From) = {}

FinishContention ==
    /\ verdict = "firing"
    /\ \A c \in Contenders : pc[c] \in {"recorded", "rejected"}
    /\ \/ /\ Proved
          /\ verdict' = "proved"
          /\ cursor' = [cursor EXCEPT !.prev = LastOf(Landed).hash, !.total = Cardinality(Landed)]
          /\ seen' = From \o Entries(Landed)
       \/ /\ ~Proved
          /\ verdict' = "failed"
          /\ UNCHANGED <<cursor, seen>>
    /\ UNCHANGED <<vars, guards>>

-----------------------------------------------------------------------------
AppendOrFault == Next /\ ProbeAppend /\ Fired /\ UNCHANGED <<guards, verifier>>

Tamper ==
    \/ Edit /\ UNCHANGED verifier
    \/ (DropLayer \/ RestoreLayers) /\ verdict = "idle" /\ UNCHANGED verifier

Probe ==
    /\ verdict \notin Busy
    /\ ProbeStep
    /\ cursor' = Start /\ verdict' = "idle" /\ seen' = <<>>

VNext ==
    \/ AppendOrFault \/ Tamper \/ Probe
    \/ StartVerify \/ VerifyPage \/ ReportBreak \/ FinishVerify
    \/ StartContention \/ FinishContention

VSpec == VInit /\ [][VNext]_allVars

-----------------------------------------------------------------------------
(* Properties.                                                             *)

\* No false alarm, however the chain grew while a tool was at work. With no row
\* edited the verifier never reports a break, wherever its page boundaries fall
\* between commits; the contention probe fails only if an append of its own did;
\* and the immutability probe, with every layer in place from its first statement to
\* its last, fails only if there was nothing to probe, an attempt of its own failed
\* for another reason, or its append failed. Nor does a probe leave anything behind
\* that the verifier stumbles over.
NoFalseAlarm ==
    edits = 0 =>
        /\ verdict # "broken"
        /\ verdict = "failed" => \E c \in Contenders : error[c] # "none"
        /\ probe.failed /\ ~probe.excused => probe.count = 0 \/ error[ProbeCall] # "none"

\* No row is overtaken: a row that commits while the verifier's walk is under way is
\* never behind the cursor, so the count reported is the number of rows there are.
NothingOvertaken ==
    edits = 0 /\ verdict \in {"reading", "ok", "empty"} =>
        cursor.total = Cardinality({r \in rows : r.seq <= cursor.after})

\* A report says no more than its tool saw. What a walk commits to is exactly what it
\* read: the hash at which an OK, a BROKEN or a contention probe that passes ends is
\* the hash of the entries accepted up to there, and the verifier's count is their
\* number; a removed or altered row cannot slip in. A contention probe that passes
\* has all of its appends on the chain. And an immutability probe that passes ran on
\* a chain with rows in it, on which PUBLIC had no privilege, and which against each
\* statement had its trigger, or the probe was no owner of the table: a PASS under a
\* restricted role says nothing of the triggers, and no PASS says that the layers
\* were in place all at one moment.
ReportsAreTrue ==
    /\ verdict \in {"ok", "broken", "proved"} => cursor.prev = seen
    /\ verdict \in {"ok", "broken"} => cursor.total = Len(seen)
    /\ verdict = "proved" /\ edits = 0 => \A c \in Contenders : RowOf(c) \in rows
    /\ probe.pc = "done" /\ ~probe.failed =>
          /\ probe.count > 0
          /\ Privileges \subseteq probe.had
          /\ probe.restricted \/ Triggers \subseteq probe.had
=============================================================================
