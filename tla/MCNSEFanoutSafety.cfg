CONSTANTS
    s1 = s1
    s2 = s2
    a = a
    b = b
    Subs = {s1, s2}
    Events = {a, b}
    BufferSize = 1
    MaxEvents = 3
    Responsive = {}
    Interest <- MCInterest
SPECIFICATION Spec
INVARIANTS
    TypeOK
    NoSendOnClosed
    ExactDelivery
    UntoldMissesNewest
    NobodyForgotten
PROPERTY ImplementsFeed
CHECK_DEADLOCK FALSE
