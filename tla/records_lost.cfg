\* Two changes overlap, both succeed.
CONSTANTS
    Clients = {c1, c2}
    Names = {n1}
    Values = {v1, v2}
    TTLs = {0}
    DefaultTTL = 300
SPECIFICATION Spec
INVARIANT AnsweredChangesAreOnFile
CHECK_DEADLOCK FALSE
