CONSTANTS
    c1 = c1
    c2 = c2
    c3 = c3
    n1 = n1
    remoteName = remoteName
    A = A
    B = B
    f1 = f1
    NoObject = NoObject
    Clients = {c1, c2, c3}
    Everyone = {c1, c2, c3}
    Interdomain = {remoteName}
    Homes <- Placements
    Requests <- RequestsOf
    Options <- OptionList
    Callers = {f1}
    ApiFaults = TRUE
    MaxSleep = 2
    MaxBreaks = 1
    MaxVersion = 2
SPECIFICATION FairSpec
INVARIANTS
    ConflictHasCause
    KnowsUnlessMissed
    OnlyAdmittedLocal
PROPERTY StoredBecomesKnown
CHECK_DEADLOCK FALSE
