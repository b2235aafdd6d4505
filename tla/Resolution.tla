----------------------------- MODULE Resolution -----------------------------
(***************************************************************************)
(* Resolve and ResolveUpstreamOnly of internal/resolver/resolver.go: the   *)
(* walk over the strategies of resolution.order, with the local records,   *)
(* the cache, the ban list and a reload that replaces the ban list and     *)
(* then everything else.  Listeners run Resolve, and the cache and the     *)
(* admin API refresh through ResolveUpstreamOnly, all at once.             *)
(*                                                                         *)
(* One question stands for all: walks for different questions share        *)
(* nothing but the configuration.  An answer is what ban lists tell apart; *)
(* how attempts run is in Coalescing and Upstream, how long the cache      *)
(* keeps an answer in AnswerCache.                                         *)
(***************************************************************************)
EXTENDS Integers, Sequences, FiniteSets, Functions

CONSTANTS
    Queries,        \* calls of Resolve at a time
    Jobs,           \* refreshes at a time
    Answers,        \* what upstreams may answer
    Local,          \* the answer made of the local records
    NoAnswer,       \* a miss, or SERVFAIL
    Configs         \* records of order, relay, adaptive and ban

Strategies == {"records", "cache", "relay", "doh", "dot", "plain"}

ASSUME ResolutionAssumption ==
    /\ Local \notin Answers /\ NoAnswer \notin Answers \cup {Local}
    /\ \A c \in Configs : c.order \in Seq(Strategies) /\ c.relay \in BOOLEAN

VARIABLES
    config,         \* r.Order, r.RelayClient # nil, r.Adaptive
    loaded,         \* the configuration a reload is applying
    ban,            \* r.Ban
    records,        \* the records of the name: none, usable, or one does not parse
    cached,         \* the cache's answer
    query, job,     \* the local state of each walk
    seen            \* history: what was in force during each query

settings == <<config, loaded, ban>>
vars == <<settings, records, cached, query, job, seen>>

RecordStates == {"none", "usable", "broken"}

NoQuery == [pc |-> "idle", order |-> <<>>, relay |-> FALSE, at |-> 0, got |-> NoAnswer]

NothingSeen == [bans |-> {}, records |-> {}, tried |-> {}]

Init ==
    /\ config \in Configs
    /\ loaded = config
    /\ ban = config.ban
    /\ records = "none"
    /\ cached = NoAnswer
    /\ query = [q \in Queries |-> NoQuery]
    /\ job = [j \in Jobs |-> NoQuery]
    /\ seen = [q \in Queries |-> NothingSeen]

Running == {q \in Queries : query[q].pc # "idle"}

\* History: each query that runs sees the new list, or the new records.
SawBan(b) == seen' = [q \in Queries |->
    IF q \in Running THEN [seen[q] EXCEPT !.bans = @ \cup {b}] ELSE seen[q]]
SawRecords(s) == seen' = [q \in Queries |->
    IF q \in Running THEN [seen[q] EXCEPT !.records = @ \cup {s}] ELSE seen[q]]

-----------------------------------------------------------------------------
IsUpstream(strategy) == strategy \in {"relay", "doh", "dot", "plain"}

\* The orders health.OrderTransports may rank a list in.
Rankings(s) == {[i \in DOMAIN s |-> s[p[i]]] : p \in Bijection(DOMAIN s, DOMAIN s)}

\* The n-th of a set of places, and the upstreams of an order.
Nth(places, n) == CHOOSE i \in places : Cardinality({j \in places : j <= i}) = n

UpstreamPlaces(order) == {i \in DOMAIN order : IsUpstream(order[i])}

Upstreams(order) ==
    [n \in 1..Cardinality(UpstreamPlaces(order)) |-> order[Nth(UpstreamPlaces(order), n)]]

\* Mutant: the first upstream fills two slots.
SlotBefore(order, i) ==
    LET n == Cardinality({j \in 1..(i - 1) : IsUpstream(order[j])})
    IN  IF n = 0 THEN 1 ELSE n

\* Which of the upstream slots of an order place i is.
Slot(order, i) == Cardinality({j \in 1..i : IsUpstream(order[j])})

\* Mutant: local strategies are ranked with the upstreams.
RankAll(order, adaptive) == IF adaptive THEN Rankings(order) ELSE {order}

\* Upstreams are ranked among their slots, records and cache keep theirs.
Adapted(order, adaptive) ==
    IF ~adaptive \/ Len(Upstreams(order)) <= 1 THEN {order}
    ELSE {[i \in DOMAIN order |-> IF IsUpstream(order[i]) THEN ranked[Slot(order, i)]
                                  ELSE order[i]] : ranked \in Rankings(Upstreams(order))}

\* The snapshot under the lock.
Begin(q) ==
    /\ query[q].pc = "idle"
    /\ query' = [query EXCEPT ![q] = [NoQuery EXCEPT !.pc = "ranking", !.at = 1,
                                        !.order = config.order, !.relay = config.relay]]
    /\ seen' = [seen EXCEPT ![q] = [bans |-> {ban}, records |-> {records}, tried |-> {}]]
    /\ UNCHANGED <<settings, records, cached, job>>

\* adaptOrder reads Adaptive after the lock was released.
Rank(q) ==
    /\ query[q].pc = "ranking"
    /\ \E order \in Adapted(query[q].order, config.adaptive) :
         query' = [query EXCEPT ![q].pc = "walking", ![q].order = order]
    /\ UNCHANGED <<settings, records, cached, job, seen>>

Strategy(walk) == walk.order[walk.at]

AtStrategy(q, pc) == query[q].pc = pc /\ query[q].at <= Len(query[q].order)

Tried(q) == seen' = [seen EXCEPT ![q].tried = @ \cup {Strategy(query[q])}]

\* Mutant: the strategy is tried again.
GoBack(q) == query' = [query EXCEPT ![q].pc = "walking", ![q].got = NoAnswer]

\* The strategy declined or failed.
GoOn(q) == query' = [query EXCEPT ![q].pc = "walking", ![q].at = @ + 1, ![q].got = NoAnswer]

Got(q, answer) == query' = [query EXCEPT ![q].pc = "checking", ![q].got = answer]

\* fromRecords: one record that does not parse fails them all.
FromRecords(q) ==
    /\ AtStrategy(q, "walking")
    /\ Strategy(query[q]) = "records"
    /\ IF records = "usable" THEN Got(q, Local) ELSE GoOn(q)
    /\ Tried(q)
    /\ UNCHANGED <<settings, records, cached, job>>

FromCache(q) ==
    /\ AtStrategy(q, "walking")
    /\ Strategy(query[q]) = "cache"
    /\ IF cached # NoAnswer THEN Got(q, cached) ELSE GoOn(q)
    /\ Tried(q)
    /\ UNCHANGED <<settings, records, cached, job>>

\* An upstream is asked, or skipped as the relay is without a client.
Attempt(q) ==
    /\ AtStrategy(q, "walking")
    /\ IsUpstream(Strategy(query[q]))
    /\ IF Strategy(query[q]) = "relay" /\ ~query[q].relay THEN GoOn(q)
       ELSE query' = [query EXCEPT ![q].pc = "asking"]
    /\ Tried(q)
    /\ UNCHANGED <<settings, records, cached, job>>

\* The answer may be that of a call another query leads, with the clients of an
\* earlier configuration.
AttemptEnds(q) ==
    /\ query[q].pc = "asking"
    /\ \E answer \in Answers \cup {NoAnswer} :
         IF answer = NoAnswer THEN GoOn(q) ELSE Got(q, answer)
    /\ UNCHANGED <<settings, records, cached, job, seen>>

\* Mutant: only answers of upstreams are checked.
CheckUpstreams(walk) == IsUpstream(Strategy(walk)) /\ walk.got \in ban

Banned(walk) == walk.got \in ban

\* Mutant: whatever was found is stored.
StoreAll(walk) == TRUE

\* What comes from the records or the cache is not stored.
Stores(walk) == IsUpstream(Strategy(walk))

Check(q) ==
    /\ query[q].pc = "checking"
    /\ IF Banned(query[q]) THEN GoOn(q)
       ELSE query' = [query EXCEPT ![q].pc = IF Stores(query[q]) THEN "storing" ELSE "done"]
    /\ UNCHANGED <<settings, records, cached, job, seen>>

Store(q) ==
    /\ query[q].pc = "storing"
    /\ cached' = query[q].got
    /\ query' = [query EXCEPT ![q].pc = "done"]
    /\ UNCHANGED <<settings, records, job, seen>>

\* SERVFAIL.
GiveUp(q) ==
    /\ query[q].pc = "walking"
    /\ query[q].at > Len(query[q].order)
    /\ query' = [query EXCEPT ![q].pc = "done"]
    /\ UNCHANGED <<settings, records, cached, job, seen>>

\* The reply is written.
Reply(q) ==
    /\ query[q].pc = "done"
    /\ query' = [query EXCEPT ![q] = NoQuery]
    /\ seen' = [seen EXCEPT ![q] = NothingSeen]
    /\ UNCHANGED <<settings, records, cached, job>>

-----------------------------------------------------------------------------
\* ResolveUpstreamOnly: the configured order without records, cache and health.
StartJob(j) ==
    /\ job[j].pc = "idle"
    /\ job' = [job EXCEPT ![j] =
          [NoQuery EXCEPT !.pc = "walking", !.relay = config.relay, !.at = 1,
             !.order = Upstreams(config.order)]]
    /\ UNCHANGED <<settings, records, cached, query, seen>>

JobAttempt(j) ==
    /\ job[j].pc = "walking"
    /\ job[j].at <= Len(job[j].order)
    /\ job' = [job EXCEPT ![j] =
          IF Strategy(job[j]) = "relay" /\ ~job[j].relay THEN [job[j] EXCEPT !.at = @ + 1]
          ELSE [job[j] EXCEPT !.pc = "asking"]]
    /\ UNCHANGED <<settings, records, cached, query, seen>>

JobAttemptEnds(j) ==
    /\ job[j].pc = "asking"
    /\ \E answer \in Answers \cup {NoAnswer} :
         job' = [job EXCEPT ![j] =
            IF answer = NoAnswer THEN [job[j] EXCEPT !.pc = "walking", !.at = @ + 1]
            ELSE [job[j] EXCEPT !.pc = "storing", !.got = answer]]
    /\ UNCHANGED <<settings, records, cached, query, seen>>

\* The refresh of the cache, and handleCacheRefresh, store what they are given.
JobStores(j) ==
    /\ job[j].pc = "storing"
    /\ cached' = job[j].got
    /\ job' = [job EXCEPT ![j] = NoQuery]
    /\ UNCHANGED <<settings, records, query, seen>>

JobFails(j) ==
    /\ job[j].pc = "walking"
    /\ job[j].at > Len(job[j].order)
    /\ job' = [job EXCEPT ![j] = NoQuery]
    /\ UNCHANGED <<settings, records, cached, query, seen>>

-----------------------------------------------------------------------------
\* reload sets the ban list first and the rest under the lock afterwards.
ReloadBan ==
    /\ loaded = config
    /\ \E c \in Configs \ {config} :
         /\ loaded' = c
         /\ ban' = c.ban
         /\ SawBan(c.ban)
    /\ UNCHANGED <<config, records, cached, query, job>>

ApplyRuntime ==
    /\ loaded # config
    /\ config' = loaded
    /\ UNCHANGED <<loaded, ban, records, cached, query, job, seen>>

\* The admin API adds and deletes records.
ChangeRecords ==
    /\ records' \in RecordStates \ {records}
    /\ SawRecords(records')
    /\ UNCHANGED <<settings, cached, query, job>>

\* The entry expires, is evicted or flushed.
Expire ==
    /\ cached # NoAnswer
    /\ cached' = NoAnswer
    /\ UNCHANGED <<settings, records, query, job, seen>>

Walk(q) ==
    \/ Rank(q) \/ FromRecords(q) \/ FromCache(q) \/ Attempt(q) \/ AttemptEnds(q) \/ Check(q)
    \/ Store(q) \/ GiveUp(q) \/ Reply(q)

Next ==
    \/ \E q \in Queries : Begin(q) \/ Walk(q)
    \/ \E j \in Jobs :
         StartJob(j) \/ JobAttempt(j) \/ JobAttemptEnds(j) \/ JobStores(j) \/ JobFails(j)
    \/ ReloadBan \/ ApplyRuntime \/ ChangeRecords \/ Expire

Spec == Init /\ [][Next]_vars

\* Goroutines are scheduled and attempts end: callUpstream gives each a deadline.
FairSpec == Spec /\ \A q \in Queries : WF_vars(Walk(q))

-----------------------------------------------------------------------------
Orders == {<<>>} \cup {Upstreams(c.order) : c \in Configs}
          \cup (UNION {Rankings(c.order) : c \in Configs})

Walks == [pc : {"idle", "ranking", "walking", "asking", "checking", "storing", "done"},
          order : Orders,
          relay : BOOLEAN, at : Nat, got : Answers \cup {Local, NoAnswer}]

TypeOK ==
    /\ config \in Configs /\ loaded \in Configs
    /\ ban \in {c.ban : c \in Configs}
    /\ records \in RecordStates
    /\ cached \in Answers \cup {NoAnswer}
    /\ query \in [Queries -> Walks] /\ job \in [Jobs -> Walks]

\* No client is handed an answer that was banned for as long as its query ran,
\* wherever it came from: refreshes cache answers nobody has checked, a reload may
\* ban what is cached already, and local records are subject to the list, too.
NoBannedAnswerServed ==
    \A q \in Queries : query[q].pc = "done" /\ query[q].got # NoAnswer =>
        \E b \in seen[q].bans : query[q].got \notin b

\* The local answer is only given while the records are there: it never lives on in
\* the cache after they were deleted.
LocalAnswerHasRecords ==
    \A q \in Queries : query[q].pc = "done" /\ query[q].got = Local =>
        "usable" \in seen[q].records

\* SERVFAIL comes only after every strategy of one configured order had its turn,
\* however health has ranked them: none is dropped, and none of another order asked.
FailsOnlyAfterAll ==
    \A q \in Queries : query[q].pc = "done" /\ query[q].got = NoAnswer =>
        \E c \in Configs : {c.order[i] : i \in DOMAIN c.order} = seen[q].tried

\* A name with usable local records that no list bans is never asked upstream, if
\* the order puts the records before the upstreams.
LocalNamesStayLocal ==
    \A q \in Queries :
        /\ query[q].pc = "asking"
        /\ seen[q].records = {"usable"}
        /\ \A b \in seen[q].bans : Local \notin b
        => \E c \in Configs : \E i \in DOMAIN c.order :
              /\ IsUpstream(c.order[i])
              /\ "records" \notin {c.order[k] : k \in 1..(i - 1)}

\* Every query is answered.
EveryQueryAnswered == \A q \in Queries : query[q].pc # "idle" ~> query[q].pc = "idle"
=============================================================================
