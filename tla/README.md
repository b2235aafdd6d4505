# Power-DNS in TLA+

Power-DNS is a caching DNS forwarder written in Go. A query is answered from
local records, from a cache, or by an upstream: a relay (another Power-DNS), DNS
over HTTPS, DNS over TLS or plain DNS, tried in order until one answers. This
directory holds TLA+ models of its concurrent core, TLC configurations that check
them on small instances, and TLAPS proofs of what holds for every instance. The
reference is the source; every definition of a model names the lines it
translates in `PROJECT.json` ("map").

## The system

All components live in one process. Each query, each relay request, each
background refresh and each admin request is a goroutine; they meet in the
cache, in the coalescing maps, in the health tracker and in the clients a reload
replaces. None of them holds a lock while it waits for the network.

| Component | Source (`src/...`) | State | Operations | Modelled in |
|---|---|---|---|---|
| Answer cache | `internal/cache/cache.go` | map, recency list, options, in-flight flags, cooldowns | Get, Set, Delete, Flush, FlushName, UpdateRuntime, triggerRefresh | `AnswerCache` |
| Cache persistence | `internal/cache/cache.go` | the file, the loop's snapshot | SaveToFile, loadFromFile, StartPersistLoop | `PersistentCache` |
| Resolver strategy chain | `internal/resolver/resolver.go` | order, clients, ban list | Resolve, ResolveUpstreamOnly, adaptOrder, fromRecords | `Resolution` |
| Upstream coalescing | `internal/resolver/resolver.go` | `inflight`, the `inflightCall`s, metrics | attemptUpstream, callUpstream, ApplyRuntime | `Coalescing`, `SingleFlight` |
| Endpoint health | `internal/upstream/health/health.go` | per endpoint: state, counters, EWMA, time of demotion | RecordSuccess, RecordFailure, Order, OrderTransports, PathState, PathEWMA | `EndpointHealth` |
| Upstream clients and chain | `internal/upstream/upstream.go` | configured servers | Resolve of DoH, DoT, plain and Chain | `Upstream` |
| Answer ban list | `internal/filter/ban.go` | networks | ContainsAnswer | a set of answers in `Resolution`, a choice in `Upstream` |
| Relay server | `internal/relay/server.go` | inflight map, rate limiter, security settings, chain | ServeHTTP, resolve, resolveCoalesced, Allow, ApplySecurity, ApplyUpstream | `RelayServer` |
| Relay client, DoT listener | `internal/relay/client.go`, `dotserver.go` | none of their own | Resolve; handle, Run | handle in `RelayServer`, Run in `Process`; the client is an attempt of `Coalescing` |
| Local records | `internal/records/store.go` | list, index, file, temporary file | Add, Delete, persist, Open, Lookup | `RecordStore`, Lookup in `Resolution` |
| Configuration and reload | `internal/config/config.go`, `cmd/power-dns/main.go` | the file, `a.cfg`, what each part was set from | PlanReload, watchConfig, SIGHUP, reload | `Process`; the effects of a reload in `AnswerCache`, `Coalescing`, `Resolution`, `RelayServer` |
| Process lifecycle | `cmd/power-dns/main.go` | services, error channel, context | run, shutdown, restart | `Process`, the cache's file in `PersistentCache` |
| DNS listeners | `internal/dnsserver` | none of their own | Run, handle | a service of `Process`, a query of `Resolution` |
| Metrics | `internal/metrics/metrics.go` | maps of counters and histograms | Inc..., Observe..., WriteProm | `Metrics`, coalescing counters in `Coalescing` and `RelayServer` |
| Admin API | `internal/api/server.go` | none of its own | flush, refresh, records, status | in `AnswerCache`, `RecordStore`, `Process` |
| Health incidents | `internal/upstream/health/incidents.go` | open incidents and their start | Evaluate | not modelled |
| Wire format, dashboard, monitoring | `internal/wire`, `dashboard`, `monitoring` | none | encoding, display | not modelled |

How they interact:

- Resolve calls `Cache.Get`. A fresh or stale hit is returned; otherwise the
  upstream strategies run and the answer goes to `Cache.Set`.
- A stale hit, or a popular one about to expire, makes the cache start a refresh
  goroutine, which calls back into the resolver (ResolveUpstreamOnly) and stores
  what it gets.
- Each upstream strategy goes through attemptUpstream: the first caller of a
  (name, type, strategy) leads, the others wait for its outcome.
- The leader calls a client, which walks its servers in the order the health
  tracker prefers and records each result there. The order of transports depends
  on the same tracker when `resolution.adaptive` is on.
- The admin API flushes and refreshes cache entries. A reload replaces the
  cache's options and the resolver's clients under their own locks, while queries
  run.
- A persist loop snapshots the cache to a file, which the next process loads.

What is hard to get right, and what makes each part correct:

| Component | Hard because | Correct when |
|---|---|---|
| Answer cache | lookups release the lock before they delete, refresh or read options; flushes reset the bookkeeping of running refreshes | map and list agree, the list is in recency order, answers match questions and are not too old, one refresh per key, no key shut out of refreshing |
| Persistence | crash between snapshot, write and rename; time passes while down; capacity may change | no answer outlives its TTL, order and structure survive |
| Strategy chain | records, cache, ban list and configuration change during a walk; refreshes store what nobody has checked | nothing banned is served, local answers need their records, SERVFAIL only after every strategy |
| Coalescing | joining races with the leader's clean-up; clients change under a running query | one attempt per key, joiners get its outcome, everyone returns, counters add up |
| Endpoint health | results of concurrent queries arrive in any order, between cooldown checks | counters explain the state, a probe waits for the cooldown |
| Failover | scores change during a walk, deadlines end it | every server is tried, every transport reached, plain DNS not ahead of an encrypted path without reason |
| Relay server | a second coalescing whose waiters have no timer, windows of the limiter, settings replaced while read | as coalescing; less than twice the limit per window, nobody kept out for good |
| Records | saves overlap in one temporary file, a save may fail, the process may die | lone saves reach the file and never spoil it; a torn file is noticed |
| Reload | two reloaders, parts applied one after the other, some settings only at restart | what is reported is in effect, no older file wins, an edit is noticed |
| Process | a service fails while others run; errors go through a bounded channel | it exits once it is told to or has lost a service |
| Metrics | counters made at first use, callbacks into a cache whose lock another goroutine holds | nothing is lost, counters grow, nobody is stuck |
| Incidents | snapshots are older than the lock | an incident keeps its start until it ends |

The code lines where each hazard bites are in `PROJECT.json` ("hazards").

## The modules

### AnswerCache

One step per section the code runs under `c.mu` or `c.refreshMu`; what a goroutine
does between two such sections is another step. So a `Get` that hits is
`GetFresh` or `GetStale` and then, with the lock released, `Revalidate`,
`MaybePrefetch` or `DropUnreadable`. `client` holds the local state of each caller,
`job` that of each refresh goroutine (`StartRefresh`, `RefreshReturns`,
`StoreRefresh`, `EndRefresh`). Options are read where the code reads them: `Get`'s
stale window under the lock, `store`'s TTL bounds and `maybePrefetch`'s settings
without it, with `UpdateRuntime` possible in between.

Abstracted: an answer is the question it was obtained for and its smallest TTL; a
key is a name and the mnemonic of the type, which is the same empty string for all
types without one, as in the code. `storedAt`, `usedAt` and `orphaned` are history.

### PersistentCache

Extends AnswerCache by the persist loop, the file and process lifetimes. Every
action of AnswerCache is enabled only while the process is up; `Crash` may come
after any step and loses all memory; the clock runs on; `Start` loads the file with
any configured capacity. A file may be unreadable, in whole or entry by entry.

### Coalescing and SingleFlight

Coalescing is attemptUpstream step by step: the lookup in `inflight` (`Join` or
`Lead`), the second snapshot of the clients (`TakeClient`, `FindNoClient`), the
upstream's return, the deletion from the map, and the release of the waiters,
with `ApplyRuntime` and changes of the upstream's truth (`world`) in between.
SingleFlight says what this is for: whoever asks while an attempt for a key is
under way is a member of it, an attempt lands once, every member gets the one
outcome, which is no older than the attempt. `ImplementsSingleFlight` is the
refinement: the flight of a key is the call the map names with everyone who holds
it, and a caller has an outcome once the map no longer names its call.

### EndpointHealth

The tracker alone: one record per endpoint with its own lock, so recording a result
and reading an endpoint are single steps. Reading also moves an Unhealthy
endpoint whose cooldown is over to Probing (`Refreshed`), as every reader of the
code does. `HealthSpec` lets results, lookups and clock ticks come in any order.
Counters saturate at the threshold they are compared with. The EWMA is a level
among `Latencies`; blending gives some level between the old one and the observed.
An entry exists from the first use (`seen`); PathState and PathEWMA only look at
endpoints that have one.

### Upstream

Extends EndpointHealth by queries that walk the transports: `RankPath` reads one
path after the other for OrderTransports, `CallTransport` enters a transport,
`OrderServer` reads one server after the other for Order, then attempts are made
(`Contact`, `Succeed`, `Fail`) until one succeeds, or `LeaveTransport` goes on. A
context that is over makes DoH and DoT fail at once for each remaining server, with
the failure recorded (`FailUnsent`); the plain client stops instead. What a ranking
read is kept beside the walk (`unhealthy`; `slow`, of paths whose average latency is
above what the score gives an encrypted path over plain DNS), for properties to refer
to. The same walk is run by the relay (`SharedBudget`: one deadline for the chain) and by the
resolver (a deadline per strategy, and `Reject`: an answer with a banned address
counts as a success of its server, and then the resolver goes on to the next
strategy). Only waiting takes time: the clock moves when every query is idle or
waits, and not past the limit of an attempt.

Not in this model: the resolver's relay strategy (which has no health record), a
relay client that hangs up, reloads of the server lists, and background refreshes
when `Adaptive` is on (they walk the configured order).

### Resolution

Resolve as a walk: the snapshot of order and clients under the lock (`Begin`),
adaptOrder without it (`Rank`: any ranking of the upstreams among their slots), then
one strategy after the other, each with its answer, the ban check and the store.
ResolveUpstreamOnly is the walk of a refresh (`job`), which has neither check nor
records and stores whatever it gets. A reload sets the ban list (`ReloadBan`) and then
the rest (`ApplyRuntime`); records and the cache's entry change at any time. One
question stands for all, because walks for different questions share nothing but the
configuration. An answer is what ban lists tell apart. `seen` is history: the lists
and records in force during a query, and the strategies it tried.

### RelayServer

A request over DoH or DoT passes the token, the limiter, the allow-list and the
coalescing, with the settings of the generation in force at each of these steps:
`ApplySecurity` and `ApplyUpstream` are the two steps of a reload. The DoT listener
looks at the limiter twice, the second time without the lock (`LimiterOf`). A bucket
counts from the start of its window; `passed` is history. Time passes only while every
request waits for the chain or for another's call. `ImplementsSingleFlight` is the
refinement of the same abstract specification as in Coalescing, with the generation
of the chain for the world.

### RecordStore

`Change` is the locked part of Add and Delete; the save that follows is one step per
system call (`Copy`, `Open`, `Write`, `Rename`), each of which may fail. Files are
followed as the operating system does: a save that has the temporary file open keeps
writing to it after another save has renamed it into place (`fd`, `Moved`), and a text
written over another covers it or leaves a torn file. `Crash` may come at any step,
`Start` reads the file or refuses it.

### Process

The file with a stamp per write, the watcher (`FirstStat`, `Poll`) and the SIGHUP
goroutine, a reload as `Load` (under `a.mu`: read, validate, plan), one `Apply` for
each part in the order of the code, and `Finish`, which replaces `a.cfg`. Which parts
are set depends on the mode in `a.cfg` for the resolver and on what the process was
wired with for the relay, as in the code. The services, the saver of the cache, `errCh`
and the two ways out of run's select are the rest; `Restart` starts a new process on the
file as it is then. A configuration is its mode, whether there is a DoT listener, the
settings a reload sets as they are (`hot`, one value), those that need a restart (`cold`,
one value), and the times of which a reload does not take a zero: `ttl`, one of the
cache's minimum, maximum, negative TTL and refresh timeout, and `timeout` and `fallback`,
those of `[relay]` and `[upstream]`. `inForce` is what each part runs with. A start takes
a zero literally; `Cache.UpdateRuntime` and `Resolver.ApplyRuntime` keep the old value,
and the resolver is first offered that of `[upstream]` (`TimeAfter`).

### Metrics

`counter` in its critical section and the addition after it; evictions count with the
cache's lock held. A scrape reads two sections label by label after it has released
the mutex, calls the cache for its size, and copies the rest under the mutex. The Go
runtime stops a process whose unlocked map read meets an insertion; the model has that
outcome (`dead`) and claims nothing after it.

## What is checked

Each run is a `.cfg` with its module. Deadlock is checked in the two runs of the
cache; elsewhere the bounds on queries, edits or time make the system stop, or a store
that refuses its file does, so it is not.

| Run | Shows | Bounds, and why they are enough |
|---|---|---|
| `refresh_races` | StoreConsistent, ServedAgeBounded, OneRefreshUnlessFlushed, FlagHasOwner, RefreshSlotFreed (liveness) | two questions with a key each, room for one answer, a caller and two refreshes: three goroutines store for one place, or for one key; a hit may lose its entry to another's store before it deletes; a flush can overtake one refresh and a second one start beside it; time for two cooldowns and beyond the longest life and stale window |
| `restart_capacity` | PersistTypeOK, ServedAgeBounded, ListMatchesMap, RecencyOrder, AnswersItsQuestion, NeverGrowsOverfull | a type with and one without mnemonic, capacities 1 and 2: a restart may find more entries than it has room for; TTLs at the clamps, and a reload to a minimum above the maximum at any step of a lookup or store; time for entries to expire while down. One caller, no refreshes and no stale window, which `refresh_races` has |
| `coalescing` | CountsPartition, ImplementsSingleFlight, EveryCallerReturns (liveness) | three callers of one relay key: a leader, a joiner and a newcomer; one reload that may remove the relay midway |
| `failover` | CountersExplainState, EveryServerTried, EveryTransportContacted, EncryptedFirst | two concurrent queries, three in all, over two DoH servers, DoT and plain: enough to demote both DoH servers, probe and restore one, and rank after that; thresholds 1, 2 and 2 keep the order of the real 2, 5 and 3; an attempt may use its strategy's whole budget; with a latency of 4000 ms a Degraded encrypted path is slow and a Healthy one is not, and a path without an answer yet has an average of 0 |
| `resolution` | TypeOK, NoBannedAnswerServed, LocalAnswerHasRecords, FailsOnlyAfterAll, LocalNamesStayLocal, EveryQueryAnswered (liveness) | a query beside a refresh; two configurations that differ in order, relay, adaptive and ban list, applied in two steps; records come, break and go |
| `relay` | LessThanTwiceTheLimit, RefusedOnlyOverLimit, WithinDeadline, CountsPartition, ImplementsSingleFlight | two handlers, five requests of one source against a limit of two: enough for the three grants of a window that the limiter can give and for the fourth that it must not; a reload to a policy with a token, an allow-list and no limit, or back; time for two windows |
| `records` | LoneSaveIsCurrent, LoneSavesKeepFile, TornFileIsNoticed | three requests at a time on one name with two values: two saves in one temporary file and a third that renames it under them; failures at every step and crashes |
| `reload` | ReportedUnlessRemoded, NeverBackwards, EditsTakeEffect, StopsForGood (both liveness) | two edits of a process with both roles, among two valid texts and a refused one, while the watcher and SIGHUP reload, services fail and the process restarts; the texts differ in every kind of setting, and each has a zero where the other has not (a TTL of the cache, the resolver's timeout) |
| `metrics` | NothingIsLost, NeverFalls, NobodyStuck (liveness) | two writers, four counts, labels in each of the three kinds of section, one with the cache's lock |
| `records_lost` (violation) | two overlapping changes are both answered without an error, and the file holds one | two requests |
| `reload_mode` (violation) | after an edit of the mode, a later hot edit is reported but skips the resolver | two edits, no time is zero |
| `plain_rises` (violation) | with DoT Unhealthy and DoH Healthy, plain DNS is ranked before DoT | one query after the other, a latency of 10 ms |

Every property has a mutant: a changed definition, kept beside the original and
marked "Mutant", with which TLC finds the property violated under the same
configuration.

The type invariants that no run lists were checked while the models were written and
are proved now (below), for every value of the constants.

### What the violations say

Each is a place where the code and its own words disagree (`PROJECT.json`,
"findings"). The records store calls itself safe for concurrent use and says that a
change is persisted when it returns: overlapping saves may leave an older list on the
file (`records_lost`), which the next successful save repairs. The status reports "the
runtime settings currently in force": a reload that changes the mode stores the mode
in `a.cfg` although it takes a restart, and later reloads go by it (`reload_mode`).
`OrderTransports` says that "plain only rises when every encrypted path in the list is
Unhealthy": it gives the bonus of an encrypted path to each path by its own state, so
one that is Unhealthy falls behind plain DNS although another is Healthy
(`plain_rises`). The code keeps the weaker EncryptedFirst: a path may only be behind
plain DNS if it was itself found Unhealthy, or with an average latency that takes up
its bonus (5 s, or 3 s if it is Degraded). The second exception goes beyond the words of
the code, too, which claim that encrypted paths "never rank below plain solely because
plain is faster"; `upstream.timeout_seconds` has no upper bound, so it can happen, and
`failover` has a latency with which it does.

One more has no run of its own but an exception in a property. A reload plans a change of
a TTL or of the refresh timeout to 0, lists it as applied and reports 0 from then on, but
`Cache.UpdateRuntime` keeps the old value until the next start, which takes the 0
literally. Likewise `relay.timeout_seconds = 0` is replaced by the timeout of `[upstream]`
on a reload (`main.go:541-544`) and taken literally at a start (`main.go:259`), where it
leaves every strategy no time. ReportedUnlessRemoded and EditsTakeEffect claim agreement
for every setting that is not zero (`RunsWith`); without that they fail in `reload`.

Other behaviour seen while modelling, which no run is spent on:

- All types without a mnemonic share one cache entry and one coalescing key;
  AnswersItsQuestion claims the rest.
- `loadFromFile` does not look at MaxEntries, so a restart with less capacity starts
  overfull; NeverGrowsOverfull says it does not get worse.
- The relay has one deadline for the whole chain: two DoH servers that hang use it up
  and DoT and plain DNS are never asked (`SharedBudget` in Upstream, not run).
- A query looks at the clients twice, so it may continue with those of a reload in
  between.
- A background refresh stores an answer without the ban check of Resolve. Nothing banned
  is served for it, because every answer from the cache is checked (NoBannedAnswerServed).
- One refresh per key does not hold across a flush (OneRefreshUnlessFlushed is what
  does), and an answer under way during a flush is stored after it.
- An edit between the load of the configuration and the watcher's first look is only
  noticed with the next one or a SIGHUP (`missed` in Process).

### Fairness

Every liveness property assumes no more than this: a goroutine that can run is run (Go's
scheduler), a mutex is not withheld from one goroutine for ever (`sync.Mutex` hands
over to a starving waiter; critical sections are bounded), and an attempt upstream
ends, because `callUpstream` and the clients give it a deadline.

- `refresh_races`: weak fairness of the steps of a goroutine that has started. No
  lookup, flush, reload or tick has to happen.
- `coalescing`: weak fairness of each caller past `Begin`; a waiter returns because
  `wg.Done` is deferred on every path of the leader.
- `resolution`: weak fairness of each walk.
- `reload`: weak fairness of the watcher, of a reload that has the lock, of services
  that end once told, and of run; strong fairness of taking `a.mu`, which two
  reloaders compete for. No edit, signal, failure or restart has to happen.
- `metrics`: strong fairness of writers and of the scrape under way, which compete for
  the registry's mutex.

The other runs check safety, without fairness.

## What is proved

The proof modules extend the modules above, so the constants are arbitrary within
the named assumptions (`CacheAssumption`, `CoalescingAssumption`, `HealthAssumption`,
`UpstreamAssumption`, `ResolutionAssumption`, `RecordsAssumption`, `RelayAssumption`,
`ProcessAssumption`, `MetricsAssumption`), which TLC evaluates for every instance it checks.

**AnswerCacheProofs**: TypeCorrect, StoreAlwaysConsistent, ListInRecencyOrder,
ServedAgeAlwaysBounded, KnownTypesAnswered, OneRefresh, FlagsOwned. The inductive
invariant `CacheInv` adds to the properties what they rest on: each entry's key is
that of the question its answer is for, each entry's lifetime is bounded by the
longest TTL from when it was stored, list positions are in order of last use with
no use in the future, the options in force and those a goroutine has read are
capped, and what a goroutine carries from an earlier section obeys the same. The
list is thinned and extended at the front only, which the lemmas on `Thinned` make
precise. `RefreshInv` adds that the flag of a key that no flush overtook stays up as
long as its refresh runs: without it a second refresh could start.

The same module proves of PersistentCache: PersistTypeCorrect, RestartsMatch,
RestartsKeepRecency, RestartsBoundAge, RestartsKeepQuestions (PersistTypeOK,
ListMatchesMap, RecencyOrder, ServedAgeBounded and AnswersItsQuestion across restarts) and OverfullShrinks (NeverGrowsOverfull). `CacheInv`
leaves the capacity out, because a start may break it; what every step keeps instead is
`Trimmed`: the list fits, is shorter, or holds what it held. WithinCapacity of a process
that started empty and NeverGrowsOverfull of one that did not both follow from it.
`PersistInv` adds that the snapshot and the file are good to load (`GoodFile`): each key
once, in order of last use, with the bounds on lifetimes, relative to a clock that also
goes on while the process is down. LoadKeeps is the step from such a file to the store's
invariant: the entries that still live are numbered (PlacesNumbered), and PushBack in
that order is again the order of last use.

**CoalescingProofs**: TypeCorrect, OneAttempt, RunningRegistered,
CountsPartitionHolds and Coalesces (`Spec => ImplementsSingleFlight`). The inductive
invariant says that the leader of a call is the one the map names, that holders of a
call asked for the same key, that a call taken off the map has its outcome, and that
waiters are released only from such a call; the counters are related to the callers
by a cardinality argument. The refinement is proved action by action: Join and Lead
are Ask, taking the call off the map is Land, Leave and Wake are Return, the rest
stutter.

**ResolutionProofs**: TypeCorrect, BannedNeverServed, LocalAnswersAreCurrent,
EveryStrategyTried, LocalNamesAnsweredLocally, so every safety property of
`resolution`. First it is proved that ranking only permutes the upstreams of an order
among their places, also when an order names one twice (AdaptedIsRanked), so that
nothing is lost and records stay in front (RankedKeeps, SameStrategies). The invariant relates each query to
what was in force while it ran: its order is a ranking of a configured one; the
strategies before its place were tried; an answer past the check was let through by a
list that was in force; the local answer comes from records that were there; and
records it has passed over were missing, broken or banned at some time of the query.
Reloads and changes of the records only add to what a running query has seen, and what
they add is in force then.

**UpstreamProofs**, of EndpointHealth: TypeCorrect and CountersAlwaysExplain, for any
number of endpoints, any thresholds in order and any cooldown. The two are inductive
together; the lemmas RefreshedSound, SuccessSound and FailureSound are about one
endpoint's record, and the step lemma applies them to the one that changes. That
the failure count of a Healthy endpoint is below the first threshold is what keeps a
demotion from skipping Degraded.

Of Upstream: UpstreamImplementsHealth (`Spec => HealthSpec`, which carries the
tracker's theorems over: CountersExplainInUse), FallbackGuarantee (EveryServerTried,
for either kind of deadline) and DeadlinePerStrategyReachesAll
(EveryTransportContacted, when each strategy has a deadline of its own; with the
relay's single one it is false). First it is proved that sorting loses and invents
nothing: the place of an item, the number of items before it, is different for each
item, so every place is taken (RankedPermutes). The invariant then says of each query
that a transport of the chain is still to be walked, or has had its servers tried, or
was cut short; that a server of the transport at work is still to be tried or was;
and, for deadlines per strategy, that a transport at work was sent the question or
still has a server and time to send it, which holds because time only passes in
attempts. PlainStaysBehind (EncryptedFirst) needs no
more than the constants' assumptions: any chain, wherever plain DNS stands in it, any
latencies. It rests on the path scores (ScoresApart: an encrypted path that is neither
Unhealthy nor slow scores above 3000, plain DNS never does) and on where sorting puts an
item (RankedIsSorted: nothing stands after an item that scores less), for which the
invariant keeps what a ranking has read next to the scores it came from.

**RecordStoreProofs**: TypeCorrect, LoneSaves, FileKept, TornNoticed. A save that met
no other request is the only one until it ends, and its temporary file is its own
(`LoneSaveSound`), which gives the first two. TornNoticed is about saves that overlap:
either some request has failed, or at most one save has the temporary file open and
the file in place is a list (`Orderly`), or more saves have it open than can rename it
(`Contended`). The last is stable until one of them fails, since a rename needs the
temporary name and removes it; so once nothing is under way and nothing has failed, the
file is readable.

**MetricsProofs**: TypeCorrect, AllCounted, ScrapesGrow. Who looks at a map or writes
it has the mutex; each counter belongs to one label, and a writer adds to that of its
label; so the registry shows exactly what was counted, and a page no more than that.
`RoomLeft`, by cardinality, bounds the counters by what was begun.

**ProcessProofs**: TypeCorrect, ReportsHold, ReloadsInOrder. One reload has `a.mu`, the
text it has read is at least as new as anything in force (`OrderSound`), and while the
mode is still that of the start, the parts it has passed are exactly those the process
has, and each runs with the text's settings, zeros aside (`ReportSound`). `reload_mode` shows that the condition on the mode is needed.

**RelayServerProofs**: TypeCorrect, DeadlinesKept, RelayCountsPartition. A waiter has
no timer; it keeps its deadline because whoever waits for a call that is not over waits
for somebody who leads it and whose deadline is no later (`Covered`): the leader asked
first, and time does not pass between a request's deadline being set and its wait.

BurstBounded and RefusalsJustified (LessThanTwiceTheLimit, RefusedOnlyOverLimit), for any
limit, are about `passed`, all the times a limiter let a source through, of which a
bucket only knows the start of its window and a count. `Paced` says what that is enough
for: the last of those times are those of the window under way, the first of them
opened it, and whoever is a whole limit before that came more than a window earlier; so
of twice the limit in a row the first came more than a window before the last. RelayCoalesces (ImplementsSingleFlight) is
proved as for Coalescing, with an invariant of its own (`FlightInv`): a lone leader per
key is the one the map names, holders of a call agree on the key, a call off the map has
an outcome, waiters are only released from such calls, and an outcome is of a chain no
older than the call. Join and Lead are Ask, EndCall is Land, Leave and Wake are Return,
ApplyUpstream changes the world, everything else stutters (OthersUnseen).

Only model-checked: the liveness properties (RefreshSlotFreed, EveryCallerReturns,
EveryQueryAnswered, EditsTakeEffect, StopsForGood, NobodyStuck), which are outside the
prover's reach. Every safety property that a passing run checks is a theorem. The
statements of the three violations are false of the code, so there is nothing to prove.

## Plan

What is left, by how much it would add:

1. `Incidents`: Evaluate with its snapshot from before the lock, over EndpointHealth.
   Property: an incident's start only changes when it ended.
2. Theorems: the refresh gate under PersistSpec; that what the scrape shows and what was counted
   agree at the end of a scrape.
3. The relay's walk (`SharedBudget`) as a passing run with the weaker property it has.
4. The histogram's buckets and the matching of networks by the ban list as pure
   functions against a reference.

## Not modelled, and why

Wire encoding, HTTP and TLS are library code and only matter by whether they fail,
which the models choose freely. Logging, status pages, the dashboard and the
monitoring stack report state and change none. The incident detector classifies a
snapshot of the tracker for the admin API; nothing else depends on it. The relay client
is one call with a fallback from DoH to DoT, which is an attempt here. A server that a
reload removes keeps its health record in the code; the servers of a transport are
constants here. Packing a question cannot fail for one that was itself unpacked from
the wire. EWMA arithmetic is kept to levels: only its order matters to scores, and the
weights to no property here. Histogram buckets and the counters without a label are
single atomic words, and the format of a scrape is text.
