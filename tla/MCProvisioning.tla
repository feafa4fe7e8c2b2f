--------------------------- MODULE MCProvisioning ---------------------------
(* Provisioning with one slug, asked for under two names, over a cluster   *)
(* that may hold a database of that name from an earlier life.             *)
EXTENDS Provisioning

CONSTANTS r1, r2, acme, tenant_acme, tenant_old, Acme, Acme2

MCDbOf == [s \in {acme} |-> tenant_acme]
MCLegacyRows ==
    {[id |-> 0, slug |-> acme, name |-> Acme, db |-> tenant_old, status |-> "provisioning"]}
MCLegacyDbs ==
    {Absent, Empty,
     [tables |-> "tenant", marker |-> None, owner |-> 0],
     [tables |-> "tenant", marker |-> 0, owner |-> 0]}

=============================================================================
