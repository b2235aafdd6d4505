---------------------------- MODULE AnswerCache ----------------------------
(***************************************************************************)
(* The answer cache of internal/cache/cache.go, with the goroutines that   *)
(* call it: the resolver's query handlers and the admin refresh handler    *)
(* (Clients) and the background refreshes the cache starts itself (Jobs).  *)
(* Every section the code runs under c.mu or c.refreshMu is one step; what *)
(* a goroutine does between two such sections is another, so lookups,      *)
(* stores, flushes and refreshes of one key interleave as they do in Go.   *)
(*                                                                         *)
(* An answer is abstracted to the question it was obtained for and the TTL *)
(* its records carry.  storedAt, usedAt and orphaned are history: no guard *)
(* reads them.                                                             *)
(***************************************************************************)
EXTENDS Integers, Sequences, FiniteSets, Functions

CONSTANTS
    Names,          \* query names, after dns.Fqdn
    KnownTypes,     \* query types that dns.TypeToString has a mnemonic for
    UnknownTypes,   \* query types it has none for
    Clients,        \* goroutines that serve a query or an admin refresh
    Jobs,           \* slots for background refresh goroutines
    AnswerTTLs,     \* smallest TTLs of upstream answers; NoRecords: no answer
    InitialOptions, \* the runtime options the process starts with
    Reloads,        \* the runtime options a reload may hand to UpdateRuntime
    Capacities,     \* opts.MaxEntries, fixed while a process runs
    Cooldown,       \* refreshCooldown
    LongestLife,    \* a ceiling on every configured MaxTTL and NegativeTTL
    LongestStale,   \* a ceiling on every configured StaleMaxAge
    HitsCap,        \* bound: hits are counted up to here
    MaxTime,        \* bound: the clock stops here
    NoEntry         \* what items holds for a key that is not in the map

NoRecords == -1     \* minAnswerTTL found no record
Never     == -1     \* no refreshLastTry for the key
NoType    == ""     \* dns.TypeToString of a type without a mnemonic

Questions == Names \X (KnownTypes \cup UnknownTypes)
Keys      == Names \X (KnownTypes \cup {NoType})
Time      == 0..MaxTime

\* Mutant: the type is not part of the key.
KeyByName(q) == <<q[1], NoType>>

\* The key keeps a type's mnemonic, so all unknown types share one.
KeyOf(q) == <<q[1], IF q[2] \in KnownTypes THEN q[2] ELSE NoType>>

Options == [minTTL : Nat, maxTTL : Nat, negativeTTL : Nat, staleMaxAge : Nat,
            prefetch : BOOLEAN, threshold : Nat, minHits : Nat]

Entry == [for : Questions, expireAt : Nat, hits : 0..HitsCap,
          fromPrefetch : BOOLEAN, readable : BOOLEAN,
          storedAt : Time, usedAt : Time]

Client == [pc : {"idle", "fresh", "stale", "unreadable", "fetching", "answered"},
           q : Questions, got : Questions, age : Nat, ttl : AnswerTTLs,
           remaining : Nat, hits : 0..HitsCap, seen : Options]

Job == [pc : {"none", "calling", "answered", "leaving"}, q : Questions,
        reason : {"prefetch", "stale"}, ttl : AnswerTTLs, seen : Options]

Capped(o) == /\ o.maxTTL <= LongestLife
             /\ o.negativeTTL <= LongestLife
             /\ o.staleMaxAge <= LongestStale

ASSUME CacheAssumption ==
    /\ Names # {} /\ KnownTypes # {}
    /\ KnownTypes \cap UnknownTypes = {} /\ NoType \notin KnownTypes
    /\ NoRecords \in AnswerTTLs /\ AnswerTTLs \subseteq Nat \cup {NoRecords}
    /\ InitialOptions \in Options /\ InitialOptions.maxTTL > 0
    /\ Reloads \subseteq Options
    /\ \A o \in Reloads \cup {InitialOptions} : Capped(o)
    /\ Capacities \subseteq Nat \ {0}
    /\ Cooldown \in Nat /\ LongestLife \in Nat /\ LongestStale \in Nat
    /\ HitsCap \in Nat /\ MaxTime \in Nat
    /\ NoEntry \notin Entry

VARIABLES
    now,            \* the wall clock
    opts,           \* c.opts, the part UpdateRuntime can change
    capacity,       \* c.opts.MaxEntries
    items,          \* c.items, with the entry its list element holds
    order,          \* c.order: the keys on the list, most recently used first
    inFlight,       \* c.refreshInFlight
    lastTry,        \* c.refreshLastTry
    client,         \* the state of each calling goroutine
    job,            \* the state of each background refresh goroutine
    orphaned        \* history: keys with a refresh that a Flush overtook

store_vars   == <<items, order>>
refresh_vars == <<inFlight, lastTry, job, orphaned>>
vars == <<now, opts, capacity, items, order, inFlight, lastTry, client, job,
          orphaned>>

Cached == {k \in Keys : items[k] # NoEntry}
Running(k) == {j \in Jobs : job[j].pc # "none" /\ KeyOf(job[j].q) = k}

SomeQuestion == CHOOSE q \in Questions : q[2] \in KnownTypes

IdleClient == [pc |-> "idle", q |-> SomeQuestion, got |-> SomeQuestion, age |-> 0,
               ttl |-> NoRecords, remaining |-> 0, hits |-> 0,
               seen |-> InitialOptions]
NoJob == [pc |-> "none", q |-> SomeQuestion, reason |-> "stale",
          ttl |-> NoRecords, seen |-> InitialOptions]

Init ==
    /\ now = 0
    /\ opts = InitialOptions
    /\ capacity \in Capacities
    /\ items = [k \in Keys |-> NoEntry]
    /\ order = <<>>
    /\ inFlight = {}
    /\ lastTry = [k \in Keys |-> Never]
    /\ client = [c \in Clients |-> IdleClient]
    /\ job = [j \in Jobs |-> NoJob]
    /\ orphaned = {}

-----------------------------------------------------------------------------
(* The recency list.                                                       *)

\* The lists that hold the keys of S in the order they have now (there is
\* exactly one when every key of S is listed once).
Thinned(S) ==
    {t \in [1..Cardinality(S) -> S] :
        /\ S \subseteq Range(t)
        /\ \A i, j \in DOMAIN t : i < j =>
             \E a, b \in DOMAIN order : a < b /\ order[a] = t[i] /\ order[b] = t[j]}

MoveToFront(k) == \E t \in Thinned(Range(order) \ {k}) : order' = <<k>> \o t

\* Mutant: the list element stays.
RemoveFromMapOnly(S) ==
    /\ items' = [k \in Keys |-> IF k \in S THEN NoEntry ELSE items[k]]
    /\ order' = order

\* removeLocked, for every key of S at once
Remove(S) ==
    /\ items' = [k \in Keys |-> IF k \in S THEN NoEntry ELSE items[k]]
    /\ order' \in Thinned(Range(order) \ S)

-----------------------------------------------------------------------------
(* Get: the locked section, then what the caller does with the answer.     *)

\* Mutant: one unit too late.
StaleLate(e) == now > e.expireAt + 1

Stale(e) == now > e.expireAt

\* Mutant: however long ago the TTL expired.
AlwaysUsable(e) == opts.staleMaxAge > 0

StaleUsable(e) == /\ opts.staleMaxAge > 0
                  /\ now - e.expireAt <= opts.staleMaxAge

OneMore(n) == IF n < HitsCap THEN n + 1 ELSE n

\* GetFresh and GetStale share the bookkeeping of a hit.
Hit(c, q, pc) ==
    LET k == KeyOf(q)
        e == items[k]
    IN  /\ items' = [items EXCEPT ![k] = [e EXCEPT !.hits = OneMore(@), !.usedAt = now]]
        /\ MoveToFront(k)
        /\ client' = [client EXCEPT ![c] =
              [IdleClient EXCEPT !.pc = IF e.readable THEN pc ELSE "unreadable",
                                 !.q = q, !.got = e.for, !.age = now - e.storedAt,
                                 !.remaining = IF pc = "fresh" THEN e.expireAt - now ELSE 0,
                                 !.hits = OneMore(e.hits), !.seen = opts]]
        /\ UNCHANGED <<now, opts, capacity>>
        /\ UNCHANGED refresh_vars

GetFresh(c, q) ==
    /\ client[c].pc = "idle"
    /\ KeyOf(q) \in Cached
    /\ ~Stale(items[KeyOf(q)])
    /\ Hit(c, q, "fresh")

GetStale(c, q) ==
    /\ client[c].pc = "idle"
    /\ KeyOf(q) \in Cached
    /\ Stale(items[KeyOf(q)])
    /\ StaleUsable(items[KeyOf(q)])
    /\ Hit(c, q, "stale")

GoUpstream(c, q) ==
    client' = [client EXCEPT ![c] = [IdleClient EXCEPT !.pc = "fetching", !.q = q]]

GetExpired(c, q) ==
    /\ client[c].pc = "idle"
    /\ KeyOf(q) \in Cached
    /\ Stale(items[KeyOf(q)])
    /\ ~StaleUsable(items[KeyOf(q)])
    /\ Remove({KeyOf(q)})
    /\ GoUpstream(c, q)
    /\ UNCHANGED <<now, opts, capacity>>
    /\ UNCHANGED refresh_vars

GetMiss(c, q) ==
    /\ client[c].pc = "idle"
    /\ KeyOf(q) \notin Cached
    /\ GoUpstream(c, q)
    /\ UNCHANGED <<now, opts, capacity>>
    /\ UNCHANGED store_vars
    /\ UNCHANGED refresh_vars

\* restampFromPacked failed after the lock was released: Delete takes it
\* again and drops whatever the key holds by then.  Answers this process
\* packed can be unpacked: PersistentCache, whose entries may come from the
\* file of another build, takes this step.
DropUnreadable(c) ==
    /\ client[c].pc = "unreadable"
    /\ Remove({KeyOf(client[c].q)})
    /\ GoUpstream(c, client[c].q)
    /\ UNCHANGED <<now, opts, capacity>>
    /\ UNCHANGED refresh_vars

-----------------------------------------------------------------------------
(* triggerRefresh: at most one refresh per key, with a cooldown.           *)

CoolingDown(k) == lastTry[k] # Never /\ now - lastTry[k] < Cooldown

\* Mutant: only the cooldown is looked at.
CooldownOnly(k) == ~CoolingDown(k)

MayRefresh(k) == k \notin inFlight /\ ~CoolingDown(k)

StartRefresh(q, reason) ==
    LET k == KeyOf(q)
    IN  /\ MayRefresh(k)
        /\ inFlight' = inFlight \cup {k}
        /\ lastTry' = [lastTry EXCEPT ![k] = now]
        /\ \E j \in Jobs :
             /\ job[j].pc = "none"
             /\ job' = [job EXCEPT ![j] =
                          [NoJob EXCEPT !.pc = "calling", !.q = q, !.reason = reason]]
        /\ UNCHANGED orphaned

TriggerRefresh(q, reason) ==
    \/ StartRefresh(q, reason)
    \/ ~MayRefresh(KeyOf(q)) /\ UNCHANGED refresh_vars

Done(c) == client' = [client EXCEPT ![c] = IdleClient]

\* A stale answer is on its way to the caller: revalidate it.
Revalidate(c) ==
    /\ client[c].pc = "stale"
    /\ TriggerRefresh(client[c].q, "stale")
    /\ Done(c)
    /\ UNCHANGED <<now, opts, capacity>>
    /\ UNCHANGED store_vars

\* maybePrefetch copies opts.Prefetch without the lock: each field may come
\* from before or after a reload that overlaps the hit.
WantsPrefetch(h, enabled, threshold, minHits) ==
    enabled /\ h.remaining <= threshold /\ h.hits >= minHits

MaybePrefetch(c) ==
    /\ client[c].pc = "fresh"
    /\ \E enabled \in {client[c].seen.prefetch, opts.prefetch},
          threshold \in {client[c].seen.threshold, opts.threshold},
          minHits \in {client[c].seen.minHits, opts.minHits} :
         IF WantsPrefetch(client[c], enabled, threshold, minHits)
         THEN TriggerRefresh(client[c].q, "prefetch")
         ELSE UNCHANGED refresh_vars
    /\ Done(c)
    /\ UNCHANGED <<now, opts, capacity>>
    /\ UNCHANGED store_vars

-----------------------------------------------------------------------------
(* store: the lifetime is chosen before the lock is taken.                 *)

Clamp(ttl, min, max) ==
    LET raised == IF ttl < min THEN min ELSE ttl
    IN  IF max > 0 /\ raised > max THEN max ELSE raised

Lifetime(ttl, min, max, negative) ==
    IF ttl = NoRecords THEN negative ELSE Clamp(ttl, min, max)

Update(k, q, life, prefetched) ==
    /\ k \in Cached
    /\ items' = [items EXCEPT ![k] =
                   [@ EXCEPT !.for = q, !.expireAt = now + life,
                             !.fromPrefetch = prefetched, !.readable = TRUE,
                             !.storedAt = now, !.usedAt = now]]
    /\ MoveToFront(k)

\* Mutant: evicts only beyond one entry too many.
OneTooMany(n) == IF n <= capacity + 1 THEN n ELSE capacity + 1

\* How much of a list of n keys stays: the rest is evicted from the back.
Fitting(n) == IF n <= capacity THEN n ELSE capacity

Insert(k, q, life, prefetched) ==
    LET longer == <<k>> \o order
        fits == Fitting(Len(longer))
        evicted == {longer[i] : i \in (fits + 1)..Len(longer)}
        new == [for |-> q, expireAt |-> now + life, hits |-> 0,
                fromPrefetch |-> prefetched, readable |-> TRUE,
                storedAt |-> now, usedAt |-> now]
    IN  /\ k \notin Cached
        /\ items' = [x \in Keys |-> IF x \in evicted THEN NoEntry
                                    ELSE IF x = k THEN new ELSE items[x]]
        /\ order' = SubSeq(longer, 1, fits)

\* seen: the options when the answer arrived.  The unlocked reads of MinTTL,
\* MaxTTL and NegativeTTL may each precede or follow a concurrent reload.
Store(q, ttl, seen, prefetched) ==
    \E min \in {seen.minTTL, opts.minTTL}, max \in {seen.maxTTL, opts.maxTTL},
       negative \in {seen.negativeTTL, opts.negativeTTL} :
      LET life == Lifetime(ttl, min, max, negative)
      IN  \/ life <= 0 /\ UNCHANGED store_vars
          \/ life > 0 /\ Update(KeyOf(q), q, life, prefetched)
          \/ life > 0 /\ Insert(KeyOf(q), q, life, prefetched)

-----------------------------------------------------------------------------
(* A caller that missed, or an admin refresh, asks upstream and stores.    *)

AdminRefresh(c, q) ==
    /\ client[c].pc = "idle"
    /\ q[2] \in KnownTypes
    /\ GoUpstream(c, q)
    /\ UNCHANGED <<now, opts, capacity>>
    /\ UNCHANGED store_vars
    /\ UNCHANGED refresh_vars

UpstreamAnswers(c, ttl) ==
    /\ client[c].pc = "fetching"
    /\ client' = [client EXCEPT ![c] = [@ EXCEPT !.pc = "answered", !.ttl = ttl,
                                                 !.seen = opts]]
    /\ UNCHANGED <<now, opts, capacity>>
    /\ UNCHANGED store_vars
    /\ UNCHANGED refresh_vars

UpstreamFails(c) ==
    /\ client[c].pc = "fetching"
    /\ Done(c)
    /\ UNCHANGED <<now, opts, capacity>>
    /\ UNCHANGED store_vars
    /\ UNCHANGED refresh_vars

Set(c) ==
    /\ client[c].pc = "answered"
    /\ Store(client[c].q, client[c].ttl, client[c].seen, FALSE)
    /\ Done(c)
    /\ UNCHANGED <<now, opts, capacity>>
    /\ UNCHANGED refresh_vars

-----------------------------------------------------------------------------
(* The goroutine triggerRefresh starts.                                    *)

RefreshAnswers(j, ttl) ==
    /\ job[j].pc = "calling"
    /\ job' = [job EXCEPT ![j] = [@ EXCEPT !.pc = "answered", !.ttl = ttl,
                                           !.seen = opts]]
    /\ UNCHANGED <<now, opts, capacity, client, inFlight, lastTry, orphaned>>
    /\ UNCHANGED store_vars

RefreshFails(j) ==
    /\ job[j].pc = "calling"
    /\ job' = [job EXCEPT ![j].pc = "leaving"]
    /\ UNCHANGED <<now, opts, capacity, client, inFlight, lastTry, orphaned>>
    /\ UNCHANGED store_vars

StoreRefresh(j) ==
    /\ job[j].pc = "answered"
    /\ Store(job[j].q, job[j].ttl, job[j].seen, job[j].reason = "prefetch")
    /\ job' = [job EXCEPT ![j].pc = "leaving"]
    /\ UNCHANGED <<now, opts, capacity, client, inFlight, lastTry, orphaned>>

\* Mutant: the deferred delete is missing.
LeaveFlag(k) == inFlight' = inFlight

\* The deferred delete clears the key's flag, whoever set it.
LowerFlag(k) == inFlight' = inFlight \ {k}

EndRefresh(j) ==
    LET k == KeyOf(job[j].q)
    IN  /\ job[j].pc = "leaving"
        /\ LowerFlag(k)
        /\ job' = [job EXCEPT ![j] = NoJob]
        /\ orphaned' = IF Running(k) = {j} THEN orphaned \ {k} ELSE orphaned
        /\ UNCHANGED <<now, opts, capacity, client, lastTry>>
        /\ UNCHANGED store_vars

-----------------------------------------------------------------------------
(* Administration, reload and the clock.                                   *)

Flush ==
    /\ items' = [k \in Keys |-> NoEntry]
    /\ order' = <<>>
    /\ inFlight' = {}
    /\ lastTry' = [k \in Keys |-> Never]
    /\ orphaned' = {k \in Keys : Running(k) # {}}
    /\ UNCHANGED <<now, opts, capacity, client, job>>

FlushName(n) ==
    /\ Remove({k \in Cached : k[1] = n})
    /\ UNCHANGED <<now, opts, capacity, client>>
    /\ UNCHANGED refresh_vars

Delete(q) ==
    /\ q[2] \in KnownTypes
    /\ Remove({KeyOf(q)})
    /\ UNCHANGED <<now, opts, capacity, client>>
    /\ UNCHANGED refresh_vars

IfPositive(new, old) == IF new > 0 THEN new ELSE old

UpdateRuntime(ro) ==
    /\ opts' = [ro EXCEPT !.minTTL = IfPositive(@, opts.minTTL),
                          !.maxTTL = IfPositive(@, opts.maxTTL),
                          !.negativeTTL = IfPositive(@, opts.negativeTTL)]
    /\ UNCHANGED <<now, capacity, client>>
    /\ UNCHANGED store_vars
    /\ UNCHANGED refresh_vars

Tick ==
    /\ now < MaxTime
    /\ now' = now + 1
    /\ UNCHANGED <<opts, capacity, client>>
    /\ UNCHANGED store_vars
    /\ UNCHANGED refresh_vars

-----------------------------------------------------------------------------
Lookup(c) ==
    \E q \in Questions : \/ GetFresh(c, q) \/ GetStale(c, q)
                         \/ GetExpired(c, q) \/ GetMiss(c, q)

AfterHit(c) == Revalidate(c) \/ MaybePrefetch(c)

UpstreamReturns(c) == UpstreamFails(c) \/ \E ttl \in AnswerTTLs : UpstreamAnswers(c, ttl)

RefreshReturns(j) == RefreshFails(j) \/ \E ttl \in AnswerTTLs : RefreshAnswers(j, ttl)

Administration ==
    \/ \E c \in Clients, q \in Questions : AdminRefresh(c, q)
    \/ Flush
    \/ \E n \in Names : FlushName(n)
    \/ \E q \in Questions : Delete(q)
    \/ \E ro \in Reloads : UpdateRuntime(ro)

Next ==
    \/ \E c \in Clients : Lookup(c) \/ AfterHit(c) \/ UpstreamReturns(c) \/ Set(c)
    \/ \E j \in Jobs : RefreshReturns(j) \/ StoreRefresh(j) \/ EndRefresh(j)
    \/ Administration
    \/ Tick

\* Goroutines are scheduled, and every upstream call ends: its context has a
\* deadline.  Nobody has to look anything up, flush or reload.
Fairness ==
    /\ \A c \in Clients : /\ WF_vars(AfterHit(c))
                          /\ WF_vars(UpstreamReturns(c))
                          /\ WF_vars(Set(c))
    /\ \A j \in Jobs : /\ WF_vars(RefreshReturns(j))
                       /\ WF_vars(StoreRefresh(j))
                       /\ WF_vars(EndRefresh(j))

Spec == Init /\ [][Next]_vars

FairSpec == Spec /\ Fairness

-----------------------------------------------------------------------------
(* Correctness.                                                            *)

\* Every variable has its type; in particular ages, lifetimes and hit counts
\* never leave their ranges.
TypeOK ==
    /\ now \in Time
    /\ opts \in Options
    /\ capacity \in Capacities
    /\ items \in [Keys -> Entry \cup {NoEntry}]
    /\ order \in Seq(Keys)
    /\ inFlight \subseteq Keys
    /\ lastTry \in [Keys -> Nat \cup {Never}]
    /\ client \in [Clients -> Client]
    /\ job \in [Jobs -> Job]
    /\ orphaned \subseteq Keys

\* The map and the recency list of cache.go always hold the same keys, each
\* listed once, and never more than MaxEntries of them: eviction, flush by
\* name and the two Delete paths take a key out of both.
ListMatchesMap == Range(order) = Cached /\ IsInjective(order)
WithinCapacity == Len(order) <= capacity
StoreConsistent == ListMatchesMap /\ WithinCapacity

\* The list is in order of last use, whoever used the key (a fresh hit, a
\* stale hit, a client's Set or a refresh), so that what eviction takes from
\* the back is the entry that was not used for the longest time.
RecencyOrder ==
    \A i, j \in DOMAIN order : i < j => items[order[i]].usedAt >= items[order[j]].usedAt

\* An answer handed to a caller that asks for a type the dns package knows
\* was obtained for exactly the question asked, whatever was stored,
\* evicted, flushed or refreshed in between.
Served == {c \in Clients : client[c].pc \in {"fresh", "stale"}}
AnswersItsQuestion ==
    \A c \in Served : client[c].q[2] \in KnownTypes => client[c].got = client[c].q

\* No caller is handed an answer that was stored longer ago than the longest
\* TTL and the longest stale window ever configured allow, even when options
\* are reloaded while a store or a lookup is under way.
ServedAgeBounded == \A c \in Served : client[c].age <= LongestLife + LongestStale

\* Two refreshes of a key never run at once unless a Flush overtook one.
OneRefreshUnlessFlushed ==
    \A i, j \in Jobs : /\ job[i].pc # "none" /\ job[j].pc # "none"
                       /\ KeyOf(job[i].q) = KeyOf(job[j].q)
                       /\ KeyOf(job[i].q) \notin orphaned
                       => i = j

\* A key's in-flight flag is only up while a refresh of it runs: no key is
\* ever shut out of refreshing by a flag that nobody will clear, also when
\* refreshes that a Flush overtook clear each other's flags.
FlagHasOwner == \A k \in inFlight : Running(k) # {}

\* Every refresh that starts ends and lowers the flag of its key.
RefreshSlotFreed == \A k \in Keys : k \in inFlight ~> k \notin inFlight
=============================================================================
