---------------------------- MODULE MCAuditChain ----------------------------
(* AuditChain with three appends, two of which carry the same event.       *)
EXTENDS AuditChain

CONSTANTS c1, c2, c3, login, denied

MCCalls == {c1, c2, c3}
MCEvents == {login, denied}
MCEventOf == [c \in MCCalls |-> IF c = c3 THEN denied ELSE login]

=============================================================================
