\* Pages of two rows over up to three, one edit or one layer missing at a time,
\* one run of the immutability probe.
CONSTANTS
    c1 = c1
    c2 = c2
    c3 = c3
    login = login
    denied = denied
    None = None
    Calls <- MCCalls
    Bypassers = {c1}
    Events <- MCEvents
    EventOf <- MCEventOf
    MaxClock = 0
    PageSize = 2
    MaxDamage = 1
    ProbeCall = c2
    Contenders = {c2, c3}
SPECIFICATION VSpec
INVARIANTS VTypeOK NoFalseAlarm NothingOvertaken ReportsAreTrue
CHECK_DEADLOCK FALSE
