CONSTANTS
    r1 = r1
    r2 = r2
    n1 = n1
    n2 = n2
    Servers = {r1}
    Names = {n1}
    UniqueNames = FALSE
    Faulty = {}
    MaxPods = 2
    MaxStarts = 1
SPECIFICATION Spec
INVARIANT DeletesOnlySpawnedCompleted
CHECK_DEADLOCK FALSE
