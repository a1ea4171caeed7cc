CONSTANTS
    Servers = {s1, s2}
    Faults = TRUE
    MaxRestarts = 2
SPECIFICATION FairSpec
INVARIANTS
    RegisteredIsServed
    RestartOnItsWay
PROPERTIES
    RestartAnswered
    OnlyFullChannelHoldsMonitor
CHECK_DEADLOCK FALSE
