SPECIFICATION Spec
CONSTANTS
    NoObject = NoObject
    Nobody = Nobody
    c1 = c1
    c2 = c2
    Clients = {c1, c2}
    Waiters = {c2}
    Keys <- MCKeys
    Uses <- MCUses
    Changing <- MCChanging
    MaxChanges = 1
INVARIANTS TypeOK SyncedIsComplete DrainedShowsStore
PROPERTIES ListersCatchUp WaitReturns
