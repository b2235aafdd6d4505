\* Two queries over two DoH servers, DoT and plain DNS; one attempt may use a whole budget.
SPECIFICATION Spec
CONSTANTS
    d1 = d1
    d2 = d2
    tls = tls
    p = p
    Endpoints = {d1, d2, tls, p}
    Queries = {q1, q2}
    TransportOf <- MCTransportOf
    ServersOf <- MCServersOf
    Chain <- WholeChain
    Adaptive = TRUE
    SharedBudget = FALSE
    Budget = 1
    AttemptTimeout = 1
    DegradeThreshold = 1
    UnhealthyThreshold = 2
    RecoverThreshold = 2
    Cooldown = 1
    Latencies = {4000}
    MaxTime = 2
    MaxQueries = 3
SYMMETRY CallerSymmetry
INVARIANTS
    CountersExplainState
    EveryServerTried
    EveryTransportContacted
    EncryptedFirst
CHECK_DEADLOCK FALSE
