\* Two keys, restarts with room for one or two, a reload at any step of a lookup or a store.
CONSTANTS
    Names = {n1}
    KnownTypes = {A}
    UnknownTypes = {X}
    Clients = {c1}
    Jobs = {}
    AnswerTTLs <- OneTTL
    InitialOptions <- NoStale
    Reloads <- OneReload
    Capacities = {1, 2}
    Cooldown = 1
    LongestLife = 1
    LongestStale = 0
    HitsCap = 0
    MaxTime = 2
    NoEntry = NoEntry
    NoFile = NoFile
SPECIFICATION PersistSpec
INVARIANTS PersistTypeOK ServedAgeBounded ListMatchesMap RecencyOrder AnswersItsQuestion
PROPERTY NeverGrowsOverfull
