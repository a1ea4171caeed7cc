CONSTANTS
    r1 = r1
    r2 = r2
    n1 = n1
    A = A
    B = B
    NoObject = NoObject
    Replicas = {r1, r2}
    Names = {n1}
    Homes <- Anywhere
    Times = {0, 1}
    ApiFaults = TRUE
    MaxVersion = 2
    MaxTime = 2
    MaxJobs = 1
    MaxRestarts = 1
SPECIFICATION Spec
INVARIANTS
    JobsNameExpired
    TimerOwnsVersion
    ConflictHasCause
PROPERTY ImplementsAtomicRegistry
CHECK_DEADLOCK FALSE
