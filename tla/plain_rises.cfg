\* One query after the other: two that demote DoT, and the one that is ranked after them.
SPECIFICATION Spec
CONSTANTS
    d1 = d1
    d2 = d2
    tls = tls
    p = p
    Endpoints = {d1, d2, tls, p}
    Queries = {q1}
    TransportOf <- MCTransportOf
    ServersOf <- MCServersOf
    Chain <- WholeChain
    Adaptive = TRUE
    SharedBudget = FALSE
    Budget = 1
    AttemptTimeout = 1
    DegradeThreshold = 1
    UnhealthyThreshold = 2
    RecoverThreshold = 2
    Cooldown = 1
    Latencies = {10}
    MaxTime = 2
    MaxQueries = 3
INVARIANT PlainOnlyIfAllUnhealthy
CHECK_DEADLOCK FALSE
