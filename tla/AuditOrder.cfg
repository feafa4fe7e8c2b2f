\* Three appends, all with the lock, and a clock that ticks.
CONSTANTS
    c1 = c1
    c2 = c2
    c3 = c3
    login = login
    denied = denied
    None = None
    Calls <- MCCalls
    Bypassers = {}
    Events <- MCEvents
    EventOf <- MCEventOf
    MaxClock = 1
SPECIFICATION Spec
INVARIANT RecordedOrderIsChainOrder
CHECK_DEADLOCK FALSE
