\* Three commands of any kind, on a new deployment or on one with a key.
CONSTANTS
    o1 = o1
    o2 = o2
    o3 = o3
    None = None
    Commands = {o1, o2, o3}
    MaxKeys = 4
    Overlap = 1
    MaxClock = 1
SPECIFICATION FairSpec
INVARIANTS TypeOK OneActive
PROPERTIES NoRotationGap RevokedIsFinal OverlapIsFixed CommandsEnd
\* Commands are run once.
CHECK_DEADLOCK FALSE
