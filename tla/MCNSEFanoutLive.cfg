CONSTANTS
    s1 = s1
    s2 = s2
    a = a
    b = b
    Subs = {s1, s2}
    Events = {a}
    BufferSize = 1
    MaxEvents = 3
    Responsive = {s1}
    Interest <- MCInterest
SPECIFICATION FairSpec
PROPERTIES
    SubscribeCompletes
    GoneIsRemoved
    CaughtUpOrEnded
CHECK_DEADLOCK FALSE
