CONSTANTS
    s1 = s1
    s2 = s2
    a = a
    b = b
    Subs = {s1, s2}
    Events = {a, b}
    BufferSize = 1
    MaxEvents = 3
    Responsive = {s1, s2}
    Interest <- MCInterest
SPECIFICATION FairSpec
INVARIANTS
    NoSendOnClosed
    NothingDropped
PROPERTIES
    ImplementsFeed
    WedgedForGood
    OnlyReturnedWatchersWedge
    EveryoneCatchesUp
CHECK_DEADLOCK FALSE
