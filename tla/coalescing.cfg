\* Three callers of one key on a relay that a reload may add or remove.
CONSTANTS
    Callers = {c1, c2, c3}
    Keys = {k1}
    RelayKeys = {k1}
    Calls = {i1, i2, i3}
    NoCall = NoCall
    MaxWorld = 1
    MaxReloads = 1
    MaxAsks = 3
SPECIFICATION FairSpec
INVARIANT CountsPartition
PROPERTIES ImplementsSingleFlight EveryCallerReturns
CHECK_DEADLOCK FALSE
