CONSTANTS
    r1 = r1
    r2 = r2
    n1 = n1
    n2 = n2
    Servers = {r1, r2}
    Names = {n1, n2}
    UniqueNames = TRUE
    Faulty = {r2}
    MaxPods = 2
    MaxStarts = 3
SPECIFICATION Spec
SYMMETRY Alike
INVARIANTS
    DeletesOnlySpawnedCompleted
    CompletedIsKnown
CHECK_DEADLOCK FALSE
