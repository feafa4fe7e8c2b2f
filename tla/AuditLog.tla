------------------------------ MODULE AuditLog ------------------------------
(***************************************************************************)
(* What the audit trail promises its readers, with no database in sight:   *)
(* one append-only log; each call of appendAuditEvent adds at most one     *)
(* entry to it; a caller told that its event is recorded is right; and a   *)
(* call that is given up is given up once and for good.                    *)
(*                                                                         *)
(* AuditChain, which models the transaction the code runs, is checked and  *)
(* proved to implement this specification.                                 *)
(***************************************************************************)
EXTENDS Naturals, Sequences

CONSTANTS
    Calls,      \* invocations of AuditService.append, in any process
    Events,     \* what a caller may ask to have recorded
    EventOf,    \* the event each call carries
    Times       \* timestamps the database may give

VARIABLES
    log,        \* the entries recorded, oldest first
    recorded,   \* calls whose entry is in the log
    outcome     \* what the caller of each call knows

logVars == <<log, recorded, outcome>>

Outcome == {"pending", "recorded", "givenUp"}

Init ==
    /\ log = <<>>
    /\ recorded = {}
    /\ outcome = [c \in Calls |-> "pending"]

\* The event of a pending call becomes the newest entry.
Record(c) ==
    /\ outcome[c] = "pending"
    /\ c \notin recorded
    /\ \E t \in Times : log' = Append(log, [event |-> EventOf[c], at |-> t])
    /\ recorded' = recorded \cup {c}
    /\ UNCHANGED outcome

\* The caller learns that its event is in the log.
Acknowledge(c) ==
    /\ outcome[c] = "pending"
    /\ c \in recorded
    /\ outcome' = [outcome EXCEPT ![c] = "recorded"]
    /\ UNCHANGED <<log, recorded>>

\* The caller stops waiting. Its event may or may not be in the log, and if it
\* is not there yet it never will be: Record needs a pending call.
GiveUp(c) ==
    /\ outcome[c] = "pending"
    /\ outcome' = [outcome EXCEPT ![c] = "givenUp"]
    /\ UNCHANGED <<log, recorded>>

Next == \E c \in Calls : Record(c) \/ Acknowledge(c) \/ GiveUp(c)

Spec == Init /\ [][Next]_logVars

=============================================================================
