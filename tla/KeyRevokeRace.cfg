\* The same commands, and what the operators rely on.
CONSTANTS
    o1 = o1
    o2 = o2
    o3 = o3
    None = None
    Commands = {o1, o2, o3}
    MaxKeys = 4
    Overlap = 1
    MaxClock = 1
SPECIFICATION Spec
INVARIANT SuccessorIsActive
\* Commands are run once.
CHECK_DEADLOCK FALSE
