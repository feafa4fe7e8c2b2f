\* Two clients; one event, a suspension while a run provisions the tenant.
CONSTANTS
    r1 = r1
    r2 = r2
    acme = acme
    tenant_acme = tenant_acme
    tenant_old = tenant_old
    Acme = Acme
    Acme2 = Acme2
    None = None
    Requests = {r1, r2}
    Slugs = {acme}
    Names = {Acme, Acme2}
    DbNames = {tenant_acme, tenant_old}
    DbOf <- MCDbOf
    LegacyRows <- MCLegacyRows
    LegacyDbs <- MCLegacyDbs
    FirstId = 1
    MaxEvents = 1
SPECIFICATION Spec
INVARIANT SuspensionHolds
CHECK_DEADLOCK FALSE
