------------------------------- MODULE Metrics -------------------------------
(***************************************************************************)
(* The registry of internal/metrics/metrics.go: counters and histograms    *)
(* that come into being with the first use of their label, in maps under   *)
(* one mutex, while scrapes walk the maps section by section.  The cache   *)
(* counts evictions with its own lock held, and a scrape asks the cache    *)
(* for its size.  Two sections read their maps after they released the     *)
(* mutex: the Go runtime may stop the process when such a read meets an    *)
(* insertion.                                                              *)
(*                                                                         *)
(* Counters without a label are single atomic words, and not modelled.     *)
(***************************************************************************)
EXTENDS Integers, FiniteSets

CONSTANTS
    Writers,            \* goroutines that count
    Queries,            \* labels of queriesTotal; cacheMissesTotal is like it
    Evictions,          \* labels of cacheEvictions
    Paths,              \* labels of the maps that are copied under the mutex
    Scraper,            \* the handler of /metrics
    Nobody,
    MaxCounts           \* bound on how often something is counted

Labels == Queries \cup Evictions \cup Paths

ASSUME MetricsAssumption ==
    /\ Queries \cap Evictions = {} /\ Queries \cap Paths = {} /\ Evictions \cap Paths = {}
    /\ Scraper \notin Writers /\ Nobody \notin Writers \cup {Scraper}
    /\ Labels # {} /\ IsFiniteSet(Writers)
    /\ MaxCounts \in Nat

\* Counters by the order they are made in.
Counters == 1..MaxCounts
None == 0

VARIABLES
    mutex,              \* who holds r.mu
    cacheMutex,         \* who holds c.mu of the cache
    table,              \* the counter each label leads to
    value,              \* what each counter has
    made,               \* how many counters there are
    writer,             \* the local state of each writer
    scrape,             \* the section a scrape is in, and the labels it has left
    page,               \* the last value of each label that was scraped
    begun,              \* how often a writer began to count
    added,              \* history: what was counted
    dead                \* the runtime has stopped the process

maps == <<table, value, made>>
vars == <<mutex, cacheMutex, maps, writer, scrape, page, begun, added, dead>>

IdleWriter == [pc |-> "idle", label |-> CHOOSE l \in Labels : TRUE, counter |-> None]
NoScrape == [pc |-> "idle", left |-> {}]

Init ==
    /\ mutex = Nobody /\ cacheMutex = Nobody
    /\ table = [l \in Labels |-> None]
    /\ value = [n \in Counters |-> 0]
    /\ made = 0
    /\ writer = [w \in Writers |-> IdleWriter]
    /\ scrape = NoScrape
    /\ page = [l \in Labels |-> 0]
    /\ begun = 0
    /\ added = [l \in Labels |-> 0]
    /\ dead = FALSE

Known == {l \in Labels : table[l] # None}

-----------------------------------------------------------------------------
\* A query or an attempt counts, or a store that evicts, which holds the cache's
\* lock until it is done.
Begin(w) ==
    /\ ~dead
    /\ writer[w].pc = "idle"
    /\ begun < MaxCounts
    /\ begun' = begun + 1
    /\ \E l \in Labels :
         /\ l \in Evictions => cacheMutex = Nobody
         /\ cacheMutex' = IF l \in Evictions THEN w ELSE cacheMutex
         /\ writer' = [writer EXCEPT ![w] = [pc |-> "locking", label |-> l, counter |-> None]]
    /\ UNCHANGED <<mutex, maps, scrape, page, added, dead>>

\* Mutant: nobody waits for the mutex.
AlwaysFree == TRUE

Free == mutex = Nobody

Lock(w) ==
    /\ ~dead
    /\ writer[w].pc = "locking"
    /\ Free
    /\ mutex' = w
    /\ writer' = [writer EXCEPT ![w].pc = "looking"]
    /\ UNCHANGED <<cacheMutex, maps, scrape, page, begun, added, dead>>

\* counter: the label has one already.
Find(w) ==
    /\ ~dead
    /\ writer[w].pc = "looking"
    /\ writer[w].label \in Known
    /\ mutex' = Nobody
    /\ writer' = [writer EXCEPT ![w].pc = "adding", ![w].counter = table[writer[w].label]]
    /\ UNCHANGED <<cacheMutex, maps, scrape, page, begun, added, dead>>

\* It has none: the map is about to be written.
Miss(w) ==
    /\ ~dead
    /\ writer[w].pc = "looking"
    /\ writer[w].label \notin Known
    /\ writer' = [writer EXCEPT ![w].pc = "inserting"]
    /\ UNCHANGED <<mutex, cacheMutex, maps, scrape, page, begun, added, dead>>

NewCounter(n) == n + 1

Insert(w) ==
    /\ ~dead
    /\ writer[w].pc = "inserting"
    /\ made' = NewCounter(made)
    /\ table' = [table EXCEPT ![writer[w].label] = made']
    /\ value' = value
    /\ mutex' = Nobody
    /\ writer' = [writer EXCEPT ![w].pc = "adding", ![w].counter = made']
    /\ UNCHANGED <<cacheMutex, scrape, page, begun, added, dead>>

\* atomic.AddInt64, or observe under the histogram's own lock.
Add(w) ==
    /\ ~dead
    /\ writer[w].pc = "adding"
    /\ value' = [value EXCEPT ![writer[w].counter] = @ + 1]
    /\ added' = [added EXCEPT ![writer[w].label] = @ + 1]
    /\ cacheMutex' = IF cacheMutex = w THEN Nobody ELSE cacheMutex
    /\ writer' = [writer EXCEPT ![w] = IdleWriter]
    /\ UNCHANGED <<mutex, table, made, scrape, page, begun, dead>>

-----------------------------------------------------------------------------
\* WriteProm, one scrape at a time: the labels of a map, under the mutex.
ScrapeQueries ==
    /\ ~dead
    /\ scrape.pc = "idle"
    /\ Free
    /\ scrape' = [pc |-> "queries", left |-> Queries \cap Known]
    /\ UNCHANGED <<mutex, cacheMutex, maps, writer, page, begun, added, dead>>

\* Mutant: the mutex is kept until the end of the section.
KeptBy(who) == who

\* The mutex is given back before the callback is called.
ReleasedBy(who) == Nobody

ScrapeEvictions ==
    /\ ~dead
    /\ scrape.pc = "queries"
    /\ scrape.left = {}
    /\ Free
    /\ mutex' = ReleasedBy(Scraper)
    /\ scrape' = [pc |-> "evictions", left |-> Evictions \cap Known]
    /\ UNCHANGED <<cacheMutex, maps, writer, page, begun, added, dead>>

\* A map read with the mutex released.
Meets(l) == \E w \in Writers : /\ writer[w].pc = "inserting"
                               /\ {l, writer[w].label} \subseteq Queries
                                  \/ {l, writer[w].label} \subseteq Evictions

Read(l) ==
    /\ ~dead
    /\ l \in scrape.left
    /\ page' = [page EXCEPT ![l] = value[table[l]]]
    /\ scrape' = [scrape EXCEPT !.left = @ \ {l}]
    /\ dead' \in {FALSE, Meets(l)}
    /\ UNCHANGED <<mutex, cacheMutex, maps, writer, begun, added>>

\* cacheSizeFunc calls Len and Cap, which take the cache's lock.
Size ==
    /\ ~dead
    /\ scrape.pc = "evictions"
    /\ scrape.left = {}
    /\ cacheMutex = Nobody
    /\ mutex' = IF mutex = Scraper THEN Nobody ELSE mutex
    /\ scrape' = [scrape EXCEPT !.pc = "paths"]
    /\ UNCHANGED <<cacheMutex, maps, writer, page, begun, added, dead>>

\* The other sections copy what they write under the mutex.
ScrapePaths ==
    /\ ~dead
    /\ scrape.pc = "paths"
    /\ Free
    /\ page' = [l \in Labels |-> IF l \in Paths \cap Known THEN value[table[l]] ELSE page[l]]
    /\ scrape' = NoScrape
    /\ UNCHANGED <<mutex, cacheMutex, maps, writer, begun, added, dead>>

Write(w) == Lock(w) \/ Find(w) \/ Miss(w) \/ Insert(w) \/ Add(w)
Scraping == ScrapeEvictions \/ Size \/ ScrapePaths \/ \E l \in Labels : Read(l)

Next ==
    \/ \E w \in Writers : Begin(w) \/ Write(w)
    \/ ScrapeQueries
    \/ Scraping

Spec == Init /\ [][Next]_vars

\* Goroutines are scheduled, and a mutex of sync starves nobody.
FairSpec == /\ Spec
            /\ \A w \in Writers : SF_vars(Write(w))
            /\ SF_vars(Scraping)

-----------------------------------------------------------------------------
TypeOK ==
    /\ mutex \in Writers \cup {Scraper, Nobody} /\ cacheMutex \in Writers \cup {Nobody}
    /\ table \in [Labels -> Counters \cup {None}]
    /\ value \in [Counters -> Nat] /\ made \in 0..MaxCounts
    /\ writer \in [Writers -> [pc : {"idle", "locking", "looking", "inserting", "adding"},
                               label : Labels, counter : Counters \cup {None}]]
    /\ \A w \in Writers : writer[w].pc = "adding" => writer[w].counter \in 1..made
    /\ scrape \in [pc : {"idle", "queries", "evictions", "paths"}, left : SUBSET Labels]
    /\ page \in [Labels -> Nat] /\ begun \in 0..MaxCounts /\ added \in [Labels -> Nat]
    /\ dead \in BOOLEAN

\* Nothing counted is lost: first uses of a label at the same time agree on one
\* counter, and the label leads to it.
NothingIsLost ==
    \A l \in Labels : added[l] = IF l \in Known THEN value[table[l]] ELSE 0

\* What a scrape shows never falls below what an earlier one showed.
NeverFalls == [][\A l \in Labels : page'[l] >= page[l]]_page

\* Neither scrapes nor writers wait for each other for ever, although a scrape
\* asks the cache for its size while a store of the cache waits for the registry.
NobodyStuck ==
    /\ scrape.pc # "idle" ~> scrape.pc = "idle" \/ dead
    /\ \A w \in Writers : writer[w].pc # "idle" ~> writer[w].pc = "idle" \/ dead
=============================================================================
