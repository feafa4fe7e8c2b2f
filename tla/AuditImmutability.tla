------------------------- MODULE AuditImmutability --------------------------
(***************************************************************************)
(* What keeps audit_events append-only (audit-immutability.sql): against   *)
(* each of UPDATE, DELETE and TRUNCATE a trigger, which stops every role,  *)
(* and a privilege that PUBLIC does not have, which stops a role that does *)
(* not own the table. No statement of the service meets them; someone who  *)
(* got around them is a bounded number of Edits and DropLayers.            *)
(*                                                                         *)
(* The immutability probe tries, beside live appends, what the layers are  *)
(* there to refuse, each in a transaction that it rolls back, and reports  *)
(* whether it was refused: by the trigger, by the privileges, not at all,  *)
(* or not as a refusal (a timeout, a deadlock). It may stop anywhere: the  *)
(* server then rolls the attempt back as well.                             *)
(***************************************************************************)
EXTENDS AuditChain

CONSTANTS
    ProbeCall,    \* the append with which the probe ends
    MaxDamage     \* bound on the rows edited, the layers missing at a time, and what
                  \*   went wrong in the run of the probe

ASSUME ImmutabilityAssumption ==
    /\ ProbeCall \in Calls \ Bypassers
    /\ MaxDamage \in Nat

Statements == {"UPDATE", "DELETE", "TRUNCATE"}
Triggers   == {<<"trigger", op>> : op \in Statements}
Privileges == {<<"privilege", op>> : op \in Statements}
Layers     == Triggers \cup Privileges

VARIABLES
    layers,       \* the layers in place
    edits,        \* edits made so far
    probe         \* the run of the probe

guards == <<layers, edits, probe>>

NoProbe == [pc |-> "idle", count |-> 0, head |-> GENESIS_HASH,  \* before
            restricted |-> FALSE,       \* it connects as a role that is not the owner
            failed |-> FALSE,
            \* history: a layer was missing at some moment, or an attempt failed for
            \* another reason; and, without a failure, the layers in place at one
            excused |-> FALSE, had |-> {}]

ProbeRun == [pc : {"idle", "fork", "after", "grants", "append", "done"} \cup Statements,
             count : Nat, head : Hash, restricted : BOOLEAN, failed : BOOLEAN,
             excused : BOOLEAN, had : SUBSET Layers]

GTypeOK ==
    /\ layers \subseteq Layers
    /\ edits \in 0 .. MaxDamage
    /\ probe \in ProbeRun

GInit ==
    /\ layers = Layers
    /\ edits = 0
    /\ probe = NoProbe

-----------------------------------------------------------------------------
(* Getting around the layers.                                              *)

Damage == edits + Cardinality(Layers \ layers) + (IF probe.excused THEN 1 ELSE 0)

\* session_replication_role = replica: a row is removed, or its event changed.
Edit ==
    /\ Damage < MaxDamage
    /\ edits' = edits + 1
    /\ \E r \in rows :
          \/ rows' = rows \ {r}
          \/ \E e \in Events \ {r.event} : rows' = (rows \ {r}) \cup {[r EXCEPT !.event = e]}
    /\ UNCHANGED <<nextSeq, lock, clock, pc, txn, error, layers, probe>>

Resting == probe.pc \in {"idle", "done"}

\* A trigger is dropped or disabled, or a privilege granted to PUBLIC: before the
\* probe has looked at the last of them, or it would not matter.
DropLayer ==
    /\ Damage < MaxDamage
    /\ probe.pc \notin {"append", "done"} /\ pc[ProbeCall] = "idle"
    /\ \E l \in layers : layers' = layers \ {l}
    /\ probe' = IF Resting THEN probe ELSE [probe EXCEPT !.excused = TRUE]
    /\ UNCHANGED <<vars, edits>>

\* The transactions that have read or written the table hold a lock on it to
\* their end; TRUNCATE and whatever changes a trigger wait for theirs.
TableFree == \A c \in Calls : pc[c] \notin {"read", "inserting", "inserted"}

\* audit-immutability.sql is applied again, in the middle of a probe perhaps: it
\* replaces what it finds.
RestoreLayers ==
    /\ layers # Layers /\ TableFree
    /\ layers' = Layers
    /\ probe' = IF Resting \/ probe.failed THEN probe ELSE [probe EXCEPT !.had = Layers]
    /\ UNCHANGED <<vars, edits>>

-----------------------------------------------------------------------------
(* The probe.                                                              *)

\* SQLSTATE 42501: the privileges of a restricted role are looked at first, before
\* the table's lock is waited for and whether or not there is a row.
Denied(op) == probe.restricted /\ <<"privilege", op>> \in layers

\* audit_events_reject_mutation. UPDATE and DELETE fire for each row, and so for
\* none when there is none; TRUNCATE fires for the statement.
Fires(op) == <<"trigger", op>> \in layers /\ (op = "TRUNCATE" \/ rows # {})

\* The report of a probe that is over is forgotten.
Forget == probe' = NoProbe

To(label, ok) ==
    probe' = [probe EXCEPT !.pc = label, !.failed = @ \/ ~ok, !.had = IF ok THEN @ ELSE {}]

\* An attempt failed, but not as a refusal: that is a FAIL as well.
Errs(label) == probe' = [probe EXCEPT !.pc = label, !.failed = TRUE, !.excused = TRUE, !.had = {}]

\* readState, and the precondition: on an empty chain nothing could be shown.
ReadState ==
    /\ Resting /\ pc[ProbeCall] = "idle"
    /\ \E restricted \in BOOLEAN :
          probe' = [pc |-> IF rows = {} THEN "done" ELSE "UPDATE",
                    count |-> Cardinality(rows), head |-> HeadHash, restricted |-> restricted,
                    failed |-> rows = {}, excused |-> layers # Layers, had |-> layers]
    /\ UNCHANGED <<vars, layers, edits>>

NextOf(op) == CASE op = "UPDATE" -> "DELETE" [] op = "DELETE" -> "TRUNCATE" [] OTHER -> "fork"

\* BEGIN, the statement, ROLLBACK: whatever comes of it, nothing remains.
Attempt(op) ==
    /\ probe.pc = op
    /\ \/ /\ Denied(op)
          /\ To(NextOf(op), TRUE)
       \/ /\ ~Denied(op)
          /\ op = "TRUNCATE" => TableFree
          /\ To(NextOf(op), Fires(op))
       \/ Errs(NextOf(op))
    /\ UNCHANGED <<vars, layers, edits>>

\* An INSERT on top of the head's prev_hash: the unique index refuses it. The
\* sequence value that it drew is gone. With no row there is nothing to try.
AttemptFork ==
    /\ probe.pc = "fork"
    /\ \/ /\ rows = {}
          /\ To("after", FALSE)
          /\ UNCHANGED nextSeq
       \/ /\ rows # {}
          /\ To("after", \E head \in rows : IsHead(head) /\ \E r \in rows : r.prevHash = head.prevHash)
          /\ nextSeq' = nextSeq + 1
       \/ /\ Errs("after")
          /\ nextSeq' \in {nextSeq} \cup (IF rows = {} THEN {} ELSE {nextSeq + 1})
    /\ UNCHANGED <<rows, lock, clock, pc, txn, error, layers, edits>>

\* Mutation: the state has to be the same as before.
CompareExactly ==
    /\ probe.pc = "after"
    /\ To("grants", Cardinality(rows) = probe.count /\ HeadHash = probe.head)
    /\ UNCHANGED <<vars, layers, edits>>

\* readState and headStillPresent: the chain has not shrunk, and the row that was
\* its head is there as it was. It may have grown.
Compare ==
    /\ probe.pc = "after"
    /\ To("grants", Cardinality(rows) >= probe.count /\ \E r \in rows : r.hash = probe.head)
    /\ UNCHANGED <<vars, layers, edits>>

CheckGrants ==
    /\ probe.pc = "grants"
    /\ To("append", Privileges \subseteq layers)
    /\ UNCHANGED <<vars, layers, edits>>

\* The probe's own append, which has to work: a call like any other, but of
\* appendAuditEvent and not of AuditService.
ProbeAppend ==
    pc'[ProbeCall] # pc[ProbeCall] =>
        \/ Resting
        \/ probe.pc = "append" /\ pc'[ProbeCall] # "logged"

FinishProbe ==
    /\ probe.pc = "append"
    /\ pc[ProbeCall] \in {"recorded", "rejected"}
    /\ To("done", pc[ProbeCall] = "recorded")
    /\ UNCHANGED <<vars, layers, edits>>

ProbeStep ==
    \/ ReadState
    \/ \E op \in Statements : Attempt(op)
    \/ AttemptFork \/ Compare \/ CheckGrants \/ FinishProbe
=============================================================================
