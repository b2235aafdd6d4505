\* Two questions with room for one answer, a caller and two background refreshes, flushes in between.
CONSTANTS
    Names = {n1}
    KnownTypes = {A}
    UnknownTypes = {X}
    Clients = {c1}
    Jobs = {j1, j2}
    AnswerTTLs <- OneTTL
    InitialOptions <- BothFeatures
    Reloads <- NoReloads
    Capacities = {1}
    Cooldown = 1
    LongestLife = 1
    LongestStale = 1
    HitsCap = 1
    MaxTime = 3
    NoEntry = NoEntry
SPECIFICATION FairSpec
INVARIANTS OneRefreshUnlessFlushed FlagHasOwner StoreConsistent ServedAgeBounded
PROPERTY RefreshSlotFreed
