---------------------------- MODULE MetricsProofs ----------------------------
(***************************************************************************)
(* Theorems about Metrics, for any number of writers and labels.  A label  *)
(* that has a counter keeps it, no two labels share one, and a writer that *)
(* found or made one adds to the counter of its label: so what was counted *)
(* can be read off the registry, and grows.                                *)
(***************************************************************************)
EXTENDS Metrics, FiniteSetTheorems, TLAPS

\* Writers that may still make a counter.
Making == {w \in Writers : writer[w].pc \in {"locking", "looking", "inserting"}}

\* Who is about to look at the map, or to write it, has the mutex.
MutexSound ==
    \A w \in Writers : writer[w].pc \in {"looking", "inserting"} => mutex = w

\* The label of a writer, and what it knows of its counter.
WriterSound ==
    \A w \in Writers :
        /\ writer[w].pc = "inserting" => table[writer[w].label] = None
        /\ writer[w].pc = "adding" => /\ writer[w].counter = table[writer[w].label]
                                      /\ writer[w].counter # None

\* Counters are made in order, each for one label.
TableSound ==
    /\ \A l \in Labels : table[l] <= made
    /\ \A l, k \in Labels : table[l] # None /\ table[l] = table[k] => l = k
    /\ \A n \in Counters : n > made => value[n] = 0

\* Whoever may still make a counter has been counted by the bound.
RoomLeft == made + Cardinality(Making) <= begun

\* A scrape reads labels that have counters, and shows no more than was counted.
ScrapeSound ==
    /\ scrape.left \subseteq Known
    /\ \A l \in Labels : page[l] <= added[l]

IInv ==
    /\ TypeOK
    /\ MutexSound
    /\ WriterSound
    /\ TableSound
    /\ RoomLeft
    /\ NothingIsLost
    /\ ScrapeSound

\* How many writers may still make a counter is a number.
LEMMA MakingIsFinite == IsFiniteSet(Making) /\ Cardinality(Making) \in Nat
BY MetricsAssumption, FS_Subset, FS_CardinalityType DEF MetricsAssumption, Making

\* One of them less is one less to count.
LEMMA OneLessMaking ==
    ASSUME NEW w \in Making
    PROVE  Cardinality(Making \ {w}) = Cardinality(Making) - 1 /\ Cardinality(Making) - 1 \in Nat
<1>1. IsFiniteSet(Making \ {w})
    BY MakingIsFinite, FS_Subset
<1> QED BY <1>1, MakingIsFinite, FS_RemoveElement, FS_CardinalityType

\* What a writer is at first, and between two things it counts.
LEMMA IdleType ==
    \E l \in Labels : IdleWriter = [pc |-> "idle", label |-> l, counter |-> None]
BY MetricsAssumption DEF IdleWriter, MetricsAssumption

\* Nothing has been counted at first.
LEMMA InitSound == Init => IInv
<1> SUFFICES ASSUME Init PROVE IInv
    OBVIOUS
<1>1. IdleWriter.label \in Labels /\ IdleWriter.pc = "idle" /\ IdleWriter.counter = None
    BY IdleType
<1>2. Making = {} /\ Known = {}
    BY <1>1 DEF Init, Making, Known
<1>3. TypeOK
    <2>1. PICK l \in Labels : IdleWriter = [pc |-> "idle", label |-> l, counter |-> None]
        BY IdleType
    <2>2. \A w \in Writers : writer[w] = [pc |-> "idle", label |-> l, counter |-> None]
        BY <2>1 DEF Init
    <2>3. writer = [w \in Writers |-> writer[w]]
        BY DEF Init
    <2>4. writer \in [Writers -> [pc : {"idle", "locking", "looking", "inserting", "adding"},
                                 label : Labels, counter : Counters \cup {None}]]
        BY <2>2, <2>3
    <2>5. \A w \in Writers : writer[w].pc # "adding"
        BY <2>2
    <2>6. value \in [Counters -> Nat] /\ made \in 0..MaxCounts /\ begun \in 0..MaxCounts
        BY MetricsAssumption DEF Init, MetricsAssumption
    <2>7. table \in [Labels -> Counters \cup {None}]
        BY DEF Init
    <2> QED BY <2>4, <2>5, <2>6, <2>7 DEF Init, TypeOK, NoScrape
<1>4. RoomLeft
    BY <1>2, FS_EmptySet DEF Init, RoomLeft
<1> QED
    BY <1>1, <1>2, <1>3, <1>4
       DEF Init, IInv, MutexSound, WriterSound, TableSound, NothingIsLost, ScrapeSound, None, NoScrape,
           Counters

\* A writer begins, and may have to make a counter.
LEMMA BeginSound ==
    ASSUME IInv, NEW w \in Writers, Begin(w)
    PROVE  IInv'
<1>1. PICK l \in Labels :
          writer' = [writer EXCEPT ![w] = [pc |-> "locking", label |-> l, counter |-> None]]
    BY DEF Begin
<1>2. Making' = Making \cup {w} /\ w \notin Making
    BY <1>1 DEF IInv, TypeOK, Begin, Making
<1>3. RoomLeft'
    <2>1. Cardinality(Making') = Cardinality(Making) + 1
        BY <1>2, MakingIsFinite, FS_AddElement
    <2> QED BY <2>1, MakingIsFinite DEF IInv, TypeOK, Begin, RoomLeft, maps, Counters
<1>4. TypeOK'
    <2>1. writer' \in [Writers -> [pc : {"idle", "locking", "looking", "inserting", "adding"},
                                  label : Labels, counter : Counters \cup {None}]]
        BY <1>1 DEF IInv, TypeOK
    <2>2. \A v \in Writers : writer'[v].pc = "adding" => writer'[v].counter \in 1..made'
        BY <1>1 DEF IInv, TypeOK, Begin, maps
    <2>3. begun' \in 0..MaxCounts /\ cacheMutex' \in Writers \cup {Nobody}
        BY MetricsAssumption DEF IInv, TypeOK, Begin, MetricsAssumption
    <2> QED BY <2>1, <2>2, <2>3 DEF IInv, TypeOK, Begin, maps
<1> QED
    BY <1>1, <1>3, <1>4
       DEF IInv, TypeOK, Begin, maps, MutexSound, WriterSound, TableSound, NothingIsLost, ScrapeSound,
           Known, Counters

\* A writer gets the mutex.
LEMMA LockSound ==
    ASSUME IInv, NEW w \in Writers, Lock(w)
    PROVE  IInv'
<1>1. Making' = Making
    BY DEF IInv, TypeOK, Lock, Making
<1>2. \A v \in Writers : writer[v].pc \notin {"looking", "inserting"}
    BY MetricsAssumption DEF IInv, Lock, Free, MutexSound, MetricsAssumption
<1>3. TypeOK'
    BY DEF IInv, TypeOK, Lock, maps
<1>4. MutexSound'
    BY <1>2 DEF IInv, TypeOK, Lock, MutexSound
<1> QED
    BY <1>1, <1>3, <1>4
       DEF IInv, TypeOK, Lock, maps, WriterSound, TableSound, RoomLeft, NothingIsLost, ScrapeSound,
           Known, Counters

\* It finds a counter.
LEMMA FindSound ==
    ASSUME IInv, NEW w \in Writers, Find(w)
    PROVE  IInv'
<1>1. Making' = Making \ {w} /\ w \in Making
    BY DEF IInv, TypeOK, Find, Making
<1>2. RoomLeft'
    <2>1. Cardinality(Making') <= Cardinality(Making) /\ Cardinality(Making') \in Nat
        BY <1>1, OneLessMaking, MakingIsFinite
    <2> QED BY <2>1, MakingIsFinite DEF IInv, TypeOK, Find, RoomLeft, maps
<1>3. table[writer[w].label] \in 1..made /\ writer[w].label \in Labels
    BY DEF IInv, TypeOK, Find, Known, TableSound, Counters, None
<1>4. TypeOK'
    BY <1>3 DEF IInv, TypeOK, Find, maps, Counters
<1>5. MutexSound'
    BY DEF IInv, TypeOK, Find, MutexSound
<1>6. WriterSound'
    BY <1>3 DEF IInv, TypeOK, Find, maps, WriterSound, None
<1> QED
    BY <1>2, <1>4, <1>5, <1>6
       DEF IInv, TypeOK, Find, maps, TableSound, NothingIsLost, ScrapeSound, Known, Counters

\* It finds none.
LEMMA MissSound ==
    ASSUME IInv, NEW w \in Writers, Miss(w)
    PROVE  IInv'
<1>1. Making' = Making
    BY DEF IInv, TypeOK, Miss, Making
<1>2. TypeOK' /\ MutexSound' /\ WriterSound'
    BY DEF IInv, TypeOK, Miss, maps, MutexSound, WriterSound, Known
<1> QED
    BY <1>1, <1>2
       DEF IInv, TypeOK, Miss, maps, TableSound, RoomLeft, NothingIsLost, ScrapeSound, Known, Counters

\* It makes one, and no other writer is doing the same.
LEMMA InsertSound ==
    ASSUME IInv, NEW w \in Writers, Insert(w)
    PROVE  IInv'
<1> DEFINE l == writer[w].label
<1>1. /\ made' = made + 1
      /\ table' = [table EXCEPT ![l] = made + 1]
      /\ writer' = [writer EXCEPT ![w].pc = "adding", ![w].counter = made + 1]
      /\ mutex' = Nobody /\ value' = value
      /\ UNCHANGED <<cacheMutex, scrape, page, begun, added, dead>>
    BY DEF Insert, NewCounter
<1>2. l \in Labels /\ table[l] = None
    BY DEF IInv, TypeOK, Insert, WriterSound
<1>3. Making' = Making \ {w} /\ w \in Making
    BY <1>1 DEF IInv, TypeOK, Insert, Making
<1>4. Cardinality(Making') = Cardinality(Making) - 1 /\ Cardinality(Making) - 1 \in Nat
    BY <1>3, OneLessMaking
<1>5. RoomLeft' /\ made + 1 \in Counters
    <2>1. made + 1 <= begun /\ begun <= MaxCounts /\ made \in Nat /\ begun \in Nat
        BY <1>4, MakingIsFinite, MetricsAssumption DEF IInv, TypeOK, RoomLeft, MetricsAssumption
    <2>2. RoomLeft'
        BY <1>1, <1>4, <2>1, MakingIsFinite DEF IInv, TypeOK, RoomLeft
    <2> QED BY <2>1, <2>2, MetricsAssumption DEF Counters, MetricsAssumption
<1>6. TypeOK'
    <2>1. made' \in 0..MaxCounts
        BY <1>1, <1>5, MetricsAssumption DEF Counters, MetricsAssumption
    <2>2. table' \in [Labels -> Counters \cup {None}]
        BY <1>1, <1>5 DEF IInv, TypeOK
    <2>3. writer' \in [Writers -> [pc : {"idle", "locking", "looking", "inserting", "adding"},
                                   label : Labels, counter : Counters \cup {None}]]
        BY <1>1, <1>5 DEF IInv, TypeOK
    <2>4. \A v \in Writers : writer'[v].pc = "adding" => writer'[v].counter \in 1..made'
        BY <1>1, <1>5, MetricsAssumption DEF IInv, TypeOK, Counters, MetricsAssumption
    <2> QED BY <1>1, <2>1, <2>2, <2>3, <2>4 DEF IInv, TypeOK
<1>7. MutexSound'
    BY <1>1 DEF IInv, TypeOK, Insert, MutexSound
<1>8. \A v \in Writers \ {w} : writer[v].pc \notin {"looking", "inserting"}
    BY DEF IInv, Insert, MutexSound
<1>9. WriterSound'
    BY <1>1, <1>2, <1>8 DEF IInv, TypeOK, WriterSound, None
<1>10. TableSound'
    <2>1. \A k \in Labels : table'[k] = IF k = l THEN made + 1 ELSE table[k]
        BY <1>1, <1>2 DEF IInv, TypeOK
    <2>2. \A k \in Labels : table[k] \in Nat /\ table[k] <= made /\ table[k] # made + 1
        BY DEF IInv, TypeOK, TableSound, Counters, None
    <2>3. made \in Nat /\ made' = made + 1 /\ value' = value
        BY <1>1 DEF IInv, TypeOK
    <2> HIDE DEF l
    <2>4. \A k \in Labels : table'[k] <= made'
        BY <2>1, <2>2, <2>3
    <2>5. \A j, k \in Labels : table'[j] # None /\ table'[j] = table'[k] => j = k
        BY <2>1, <2>2, <2>3 DEF IInv, TableSound
    <2>6. \A n \in Counters : n > made' => value'[n] = 0
        BY <2>3 DEF IInv, TableSound, Counters
    <2> QED BY <2>4, <2>5, <2>6 DEF TableSound
<1>11. NothingIsLost'
    <2>1. added[l] = 0 /\ value[made + 1] = 0
        BY <1>2, <1>5 DEF IInv, TypeOK, NothingIsLost, Known, TableSound, Counters
    <2>2. \A k \in Labels \ {l} : table'[k] = table[k] /\ (k \in Known' <=> k \in Known)
        BY <1>1, <1>2 DEF IInv, TypeOK, Known
    <2>3. l \in Known' /\ table'[l] = made + 1
        BY <1>1, <1>2 DEF IInv, TypeOK, Known, None
    <2> QED BY <1>1, <2>1, <2>2, <2>3 DEF IInv, NothingIsLost
<1>12. ScrapeSound'
    BY <1>1, <1>2 DEF IInv, TypeOK, ScrapeSound, Known, None
<1> QED BY <1>5, <1>6, <1>7, <1>9, <1>10, <1>11, <1>12 DEF IInv

\* It counts.
LEMMA AddSound ==
    ASSUME IInv, NEW w \in Writers, Add(w)
    PROVE  IInv'
<1> DEFINE l == writer[w].label
           n == writer[w].counter
<1>1. l \in Labels /\ n = table[l] /\ n # None /\ n \in 1..made /\ n \in Counters
    BY DEF IInv, TypeOK, Add, WriterSound, None
<1>2. /\ value' = [value EXCEPT ![n] = @ + 1]
      /\ added' = [added EXCEPT ![l] = @ + 1]
      /\ writer' = [writer EXCEPT ![w] = IdleWriter]
      /\ UNCHANGED <<mutex, table, made, scrape, page, begun, dead>>
    BY DEF Add
<1>3. IdleWriter = [pc |-> "idle", label |-> IdleWriter.label, counter |-> None]
      /\ IdleWriter.label \in Labels
    BY MetricsAssumption DEF IdleWriter, MetricsAssumption
<1>4. Making' = Making
    BY <1>2, <1>3 DEF IInv, TypeOK, Add, Making
<1>5. TypeOK'
    BY <1>1, <1>2, <1>3 DEF IInv, TypeOK, Add, Counters, None
<1>6. MutexSound' /\ WriterSound'
    BY <1>2, <1>3 DEF IInv, TypeOK, MutexSound, WriterSound
<1>7. TableSound'
    BY <1>1, <1>2 DEF IInv, TypeOK, TableSound, Counters
<1>8. NothingIsLost'
    <2>1. ASSUME NEW k \in Labels, k # l
          PROVE  added'[k] = IF k \in Known' THEN value'[table'[k]] ELSE 0
        BY <1>1, <1>2, <2>1 DEF IInv, TypeOK, NothingIsLost, Known, TableSound, Counters, None
    <2>2. added'[l] = IF l \in Known' THEN value'[table'[l]] ELSE 0
        BY <1>1, <1>2 DEF IInv, TypeOK, NothingIsLost, Known
    <2> QED BY <2>1, <2>2 DEF NothingIsLost
<1>9. ScrapeSound'
    BY <1>1, <1>2 DEF IInv, TypeOK, ScrapeSound, Known
<1> QED BY <1>2, <1>4, <1>5, <1>6, <1>7, <1>8, <1>9 DEF IInv, RoomLeft

\* Every step of a scrape, but a read, only changes where the scrape is.
LEMMA ScrapeStepSound ==
    ASSUME IInv, ScrapeQueries \/ ScrapeEvictions \/ Size
    PROVE  IInv'
<1>1. /\ UNCHANGED <<cacheMutex, maps, writer, page, begun, added, dead>>
      /\ scrape' \in [pc : {"idle", "queries", "evictions", "paths"}, left : SUBSET Labels]
      /\ scrape'.left \subseteq Known
    BY DEF IInv, TypeOK, ScrapeQueries, ScrapeEvictions, Size, Known, ScrapeSound
<1>2. /\ mutex' \in Writers \cup {Scraper, Nobody}
      /\ mutex \in Writers => mutex' = mutex
    BY MetricsAssumption
       DEF IInv, TypeOK, ScrapeQueries, ScrapeEvictions, Size, ReleasedBy, Free, MetricsAssumption
<1>3. Making' = Making
    BY <1>1 DEF Making
<1>4. TypeOK'
    BY <1>1, <1>2 DEF IInv, TypeOK, maps
<1> QED
    BY <1>1, <1>2, <1>3, <1>4
       DEF IInv, maps, MutexSound, WriterSound, TableSound, RoomLeft, NothingIsLost, ScrapeSound, Known

\* What was counted is what is read, and no less than what was read before.
LEMMA Shown ==
    ASSUME IInv, NEW l \in Known
    PROVE  value[table[l]] = added[l] /\ page[l] <= value[table[l]] /\ value[table[l]] \in Nat
BY DEF IInv, TypeOK, NothingIsLost, ScrapeSound, Known

\* A label is shown.
LEMMA ReadSound ==
    ASSUME IInv, NEW l \in Labels, Read(l)
    PROVE  IInv'
<1>1. /\ UNCHANGED <<mutex, cacheMutex, maps, writer, begun, added>>
      /\ l \in Known
      /\ page' = [page EXCEPT ![l] = value[table[l]]]
      /\ scrape' = [scrape EXCEPT !.left = @ \ {l}]
    BY DEF IInv, Read, ScrapeSound
<1>2. Making' = Making
    BY <1>1 DEF Making
<1>3. TypeOK'
    <2>1. dead' \in BOOLEAN
        <3>1. Meets(l) \in BOOLEAN
            BY DEF Meets
        <3>2. dead' \in {FALSE, Meets(l)}
            BY DEF Read
        <3> QED BY <3>1, <3>2, Zenon
    <2>2. page' \in [Labels -> Nat]
        BY <1>1, Shown DEF IInv, TypeOK
    <2> QED BY <1>1, <2>1, <2>2 DEF IInv, TypeOK, maps
<1>4. ScrapeSound'
    BY <1>1, Shown DEF IInv, TypeOK, ScrapeSound, maps, Known
<1> QED
    BY <1>1, <1>2, <1>3, <1>4
       DEF IInv, maps, MutexSound, WriterSound, TableSound, RoomLeft, NothingIsLost, Known

\* The labels of the last sections are shown.
LEMMA PathsSound ==
    ASSUME IInv, ScrapePaths
    PROVE  IInv'
<1>1. /\ UNCHANGED <<mutex, cacheMutex, maps, writer, begun, added, dead>>
      /\ page' = [l \in Labels |-> IF l \in Paths \cap Known THEN value[table[l]] ELSE page[l]]
      /\ scrape' = NoScrape
    BY DEF ScrapePaths
<1>2. Making' = Making
    BY <1>1 DEF Making
<1>3. TypeOK'
    BY <1>1, Shown DEF IInv, TypeOK, maps, NoScrape
<1>4. ScrapeSound'
    BY <1>1, Shown DEF IInv, TypeOK, ScrapeSound, maps, NoScrape
<1> QED
    BY <1>1, <1>2, <1>3, <1>4
       DEF IInv, maps, MutexSound, WriterSound, TableSound, RoomLeft, NothingIsLost, Known

\* The invariant is inductive.
LEMMA StepSound == IInv /\ [Next]_vars => IInv'
<1> SUFFICES ASSUME IInv, [Next]_vars PROVE IInv'
    OBVIOUS
<1>1. ASSUME NEW w \in Writers, Begin(w) \/ Write(w) PROVE IInv'
    BY <1>1, BeginSound, LockSound, FindSound, MissSound, InsertSound, AddSound DEF Write
<1>2. CASE ScrapeQueries \/ Scraping
    BY <1>2, ScrapeStepSound, ReadSound, PathsSound DEF Scraping
<1>3. CASE UNCHANGED vars
    BY <1>3 DEF vars, maps, IInv, TypeOK, MutexSound, WriterSound, TableSound, RoomLeft,
                NothingIsLost, ScrapeSound, Known, Making
<1> QED BY <1>1, <1>2, <1>3 DEF Next

\* It holds in every reachable state.
LEMMA Invariance == Spec => []IInv
BY InitSound, StepSound, PTL DEF Spec

\* A step shows no label with less than it was shown with before.
LEMMA ShowsNoLess ==
    IInv /\ [Next]_vars => [\A l \in Labels : page'[l] >= page[l]]_page
<1> SUFFICES ASSUME IInv, [Next]_vars, page' # page
             PROVE  \A l \in Labels : page'[l] >= page[l]
    OBVIOUS
<1>1. ASSUME NEW k \in Labels, Read(k) PROVE \A l \in Labels : page'[l] >= page[l]
    BY <1>1, Shown DEF Read, IInv, TypeOK, ScrapeSound
<1>2. CASE ScrapePaths
    BY <1>2, Shown DEF ScrapePaths, IInv, TypeOK
<1>3. \/ ScrapePaths
      \/ \E k \in Labels : Read(k)
    BY DEF Next, vars, Begin, Write, Lock, Find, Miss, Insert, Add, Scraping, ScrapeQueries,
           ScrapeEvictions, Size
<1> QED BY <1>1, <1>2, <1>3

\* Every variable of the registry keeps its type: among others, no writer adds to
\* a counter that was not made.
THEOREM TypeCorrect == Spec => []TypeOK
<1>1. IInv => TypeOK
    BY DEF IInv
<1> QED BY <1>1, Invariance, PTL

\* Nothing counted is lost, however many writers use a label for the first time at
\* the same time.
THEOREM AllCounted == Spec => []NothingIsLost
<1>1. IInv => NothingIsLost
    BY DEF IInv
<1> QED BY <1>1, Invariance, PTL

\* No scrape shows less than an earlier one, in any section, whether it reads under
\* the mutex or not.
THEOREM ScrapesGrow == Spec => NeverFalls
BY Invariance, ShowsNoLess, PTL DEF Spec, NeverFalls
=============================================================================
