\* Two handlers and five requests from one source; the policy and the chain are replaced once.
CONSTANTS
    Requests = {r1, r2}
    Sources = {s1}
    k1 = k1
    k2 = k2
    Keys = {k1}
    Policies <- BothPolicies
    Calls = {i1, i2}
    NoCall = NoCall
    Window = 1
    Deadline = 1
    MaxReloads = 1
    MaxArrivals = 5
    MaxAsks = 2
    MaxTime = 2
SPECIFICATION Spec
INVARIANTS LessThanTwiceTheLimit WithinDeadline CountsPartition
PROPERTIES RefusedOnlyOverLimit ImplementsSingleFlight
CHECK_DEADLOCK FALSE
