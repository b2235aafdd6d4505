\* Three requests at a time for one name with two values; saves fail and the process dies.
CONSTANTS
    Clients = {c1, c2, c3}
    Names = {n1}
    Values = {v1, v2}
    TTLs = {0}
    DefaultTTL = 300
SPECIFICATION Spec
INVARIANTS LoneSaveIsCurrent LoneSavesKeepFile TornFileIsNoticed
CHECK_DEADLOCK FALSE
