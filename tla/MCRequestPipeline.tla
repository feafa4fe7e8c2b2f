-------------------------- MODULE MCRequestPipeline -------------------------
EXTENDS RequestPipeline, TLC

Ann == <<"ann", "lower">>
ANN == <<"ann", "UPPER">>
Bob == <<"bob", "lower">>

\* bob came with the tenant: an administrator, whose hash has old parameters.
MCLegacy ==
    <<"t1", Bob>> :> User([of |-> "p1", current |-> FALSE], {"tenant-admin"}, 0)

MCInitStatus == [t \in Tenants |-> IF t = "t1" THEN "active" ELSE "absent"]

Profile(kind, tenant, email, password) ==
    [kind |-> kind, tenant |-> tenant, header |-> TRUE, email |-> email, password |-> password]
MCProfiles ==
    <<Profile("register", "t1", Ann, "p1"),
      Profile("register", "t1", ANN, "p2"),
      Profile("seed", "t1", ANN, "p2"),
      Profile("login", "t1", ANN, "p1"),
      Profile("login", "t1", Bob, "p1"),
      Profile("list", "t1", Ann, "none"),
      Profile("list", "t2", Ann, "none"),
      Profile("provision", "t2", Ann, "none"),
      Profile("provision", "t2", Bob, "none"),
      [Profile("login", "t1", Bob, "p1") EXCEPT !.header = FALSE]>>
=============================================================================
