\* Three appends; c1 comes by a code path that does not take the lock.
CONSTANTS
    c1 = c1
    c2 = c2
    c3 = c3
    login = login
    denied = denied
    None = None
    Calls <- MCCalls
    Bypassers = {c1}
    Events <- MCEvents
    EventOf <- MCEventOf
    MaxClock = 1
SPECIFICATION FairSpec
INVARIANTS TypeOK ChainLinear LockSuffices
PROPERTIES EveryAppendSettles ImplementsAuditLog
\* Every call is made once, so the system stops when all have settled.
CHECK_DEADLOCK FALSE
