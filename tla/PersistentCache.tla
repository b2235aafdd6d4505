-------------------------- MODULE PersistentCache --------------------------
(***************************************************************************)
(* The answer cache across process lifetimes: SaveToFile, loadFromFile and *)
(* StartPersistLoop of internal/cache/cache.go composed with AnswerCache.  *)
(* The persist loop snapshots the cache under its lock, writes a temporary *)
(* file without it and renames it into place, periodically and once more   *)
(* when it is told to stop; the process may die at any step.  The clock    *)
(* goes on while the process is down, and it may start again with another  *)
(* MaxEntries, which a reload cannot change.                               *)
(***************************************************************************)
EXTENDS AnswerCache

CONSTANT NoFile     \* PersistPath does not exist

Persisted == [key : Keys, expireAt : Nat, hits : 0..HitsCap, for : Questions,
              readable : BOOLEAN, storedAt : Time, usedAt : Time]

VARIABLES
    up,             \* the process runs
    stopping,       \* the stop channel of StartPersistLoop is closed
    saver,          \* where the persist loop is
    snapshot,       \* SaveToFile's local snapshot
    file            \* what PersistPath holds

persist_vars == <<up, stopping, saver, snapshot, file>>
all_vars == <<vars, persist_vars>>

PersistInit ==
    /\ Init
    /\ up = TRUE
    /\ stopping = FALSE
    /\ saver = "waiting"
    /\ snapshot = <<>>
    /\ file = NoFile

\* Mutant: the lifetime starts again with every save.
ToDiskRenewed(k) ==
    LET e == items[k]
    IN  [key |-> k, expireAt |-> now + LongestLife, hits |-> e.hits, for |-> e.for,
         readable |-> e.readable, storedAt |-> e.storedAt, usedAt |-> e.usedAt]

\* fromPrefetch is not part of the format.
ToDisk(k) == LET e == items[k]
             IN  [key |-> k, expireAt |-> e.expireAt, hits |-> e.hits, for |-> e.for,
                  readable |-> e.readable, storedAt |-> e.storedAt, usedAt |-> e.usedAt]

\* SaveToFile under the lock: entries in their stale window are left out.
TakeSnapshot ==
    /\ up
    /\ saver = "waiting"
    /\ \E t \in Thinned({k \in Cached : ~Stale(items[k])}) :
         snapshot' = [i \in DOMAIN t |-> ToDisk(t[i])]
    /\ saver' = IF stopping THEN "last write" ELSE "writing"
    /\ UNCHANGED vars
    /\ UNCHANGED <<up, stopping, file>>

\* After the last save the loop returns and the process exits.
SaveEnds ==
    /\ saver' = IF saver = "writing" THEN "waiting" ELSE "returned"
    /\ snapshot' = <<>>

\* Creating, encoding or closing the temporary file, or the rename, fails.
SaveFails ==
    /\ up
    /\ saver \in {"writing", "last write"}
    /\ SaveEnds
    /\ UNCHANGED vars
    /\ UNCHANGED <<up, stopping, file>>

Rename ==
    /\ up
    /\ saver \in {"writing", "last write"}
    /\ file' = snapshot
    /\ SaveEnds
    /\ UNCHANGED vars
    /\ UNCHANGED <<up, stopping>>

Stop ==
    /\ up
    /\ ~stopping
    /\ stopping' = TRUE
    /\ UNCHANGED vars
    /\ UNCHANGED <<up, saver, snapshot, file>>

\* The process is gone with everything it held in memory.
Down ==
    /\ up' = FALSE
    /\ stopping' = FALSE
    /\ saver' = "waiting"
    /\ snapshot' = <<>>
    /\ items' = [k \in Keys |-> NoEntry]
    /\ order' = <<>>
    /\ inFlight' = {}
    /\ lastTry' = [k \in Keys |-> Never]
    /\ client' = [c \in Clients |-> IdleClient]
    /\ job' = [j \in Jobs |-> NoJob]
    /\ orphaned' = {}
    /\ UNCHANGED <<now, opts, capacity, file>>

Crash == up /\ Down

Exit == up /\ saver = "returned" /\ Down

\* Expired entries of the file are skipped.
Live(entries) == {i \in DOMAIN entries : ~(now > entries[i].expireAt)}

\* Mutant: skipped entries are on the list all the same.
ListAll(entries) == order' = [i \in DOMAIN entries |-> entries[i].key]

\* The n-th of a set of places.
Nth(places, n) == CHOOSE i \in places : Cardinality({m \in places : m <= i}) = n

\* Mutant: every entry is pushed to the front.
ListReversed(entries) ==
    LET live == Live(entries)
        size == Cardinality(live)
    IN  order' = [n \in 1..size |-> entries[Nth(live, size + 1 - n)].key]

\* PushBack in file order, which is the order of last use.
ListLive(entries) ==
    LET live == Live(entries)
    IN  order' = [n \in 1..Cardinality(live) |-> entries[Nth(live, n)].key]

\* loadFromFile: the payloads may be in a wire format this build cannot
\* unpack, which shows when they are read.
Load(entries, readable) ==
    LET live == Live(entries)
        FromDisk(p) == [for |-> p.for, expireAt |-> p.expireAt, hits |-> p.hits,
                        fromPrefetch |-> FALSE, readable |-> p.readable /\ readable,
                        storedAt |-> p.storedAt, usedAt |-> p.usedAt]
    IN  /\ items' = [k \in Keys |->
              IF \E i \in live : entries[i].key = k
              THEN FromDisk(entries[CHOOSE i \in live : entries[i].key = k])
              ELSE NoEntry]
        /\ ListLive(entries)

\* New with the options of the configuration file; a file that is missing
\* or does not decode means a cold start.
Start ==
    /\ ~up
    /\ up' = TRUE
    /\ opts' = InitialOptions
    /\ capacity' \in Capacities
    /\ \/ UNCHANGED store_vars
       \/ file # NoFile /\ \E readable \in BOOLEAN : Load(file, readable)
    /\ UNCHANGED <<now, client, stopping, saver, snapshot, file>>
    /\ UNCHANGED refresh_vars

\* What Get does with a loaded entry it cannot unpack.
DropLoaded(c) == up /\ DropUnreadable(c) /\ UNCHANGED persist_vars

PersistNext ==
    \/ up /\ Next /\ UNCHANGED persist_vars
    \/ \E c \in Clients : DropLoaded(c)
    \/ ~up /\ Tick /\ UNCHANGED persist_vars
    \/ TakeSnapshot \/ SaveFails \/ Rename
    \/ Stop \/ Exit \/ Crash \/ Start

PersistSpec == PersistInit /\ [][PersistNext]_all_vars

-----------------------------------------------------------------------------
\* Types of the persistence state, with those of the cache.
PersistTypeOK ==
    /\ TypeOK
    /\ up \in BOOLEAN
    /\ stopping \in BOOLEAN
    /\ saver \in {"waiting", "writing", "last write", "returned"}
    /\ snapshot \in Seq(Persisted)
    /\ file = NoFile \/ file \in Seq(Persisted)

\* loadFromFile does not enforce MaxEntries, so a process that starts with a
\* smaller capacity than the last one holds too many entries.  From there a
\* step of the running process never adds to an overfull cache: the first
\* new entry trims it.
NeverGrowsOverfull ==
    [][up /\ up' => Len(order') <= capacity \/ Len(order') < Len(order)
                    \/ Range(order') = Range(order)]_all_vars
=============================================================================
