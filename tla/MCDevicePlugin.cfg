CONSTANTS
    t1 = t1
    t2 = t2
    s1 = s1
    Tokens = {t1, t2}
    Streams = {s1}
    Faults = TRUE
    MaxAllocations = 2
    MaxChanges = 1
SPECIFICATION FairSpec
INVARIANTS
    TypeOK
    FreedAfterFreshLook
    StaleViewSignalled
PROPERTIES
    ViewCatchesUp
    UnusedFreed
CHECK_DEADLOCK FALSE
