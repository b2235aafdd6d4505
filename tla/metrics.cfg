\* Two writers, two labels of queries, one of evictions, one of a path, and scrapes.
CONSTANTS
    Writers = {w1, w2}
    Queries = {doh, plain}
    Evictions = {lru}
    Paths = {relay}
    Scraper = Scraper
    Nobody = Nobody
    MaxCounts = 4
SPECIFICATION FairSpec
INVARIANT NothingIsLost
PROPERTIES NeverFalls NobodyStuck
CHECK_DEADLOCK FALSE
