------------------------------ MODULE Upstream ------------------------------
(***************************************************************************)
(* Failover over the upstream transports: concurrent queries walk a chain  *)
(* of transports, and the servers of each, until one answers.  The walk is *)
(* that of Chain.Resolve (the relay, one deadline for the whole chain:     *)
(* SharedBudget) and that of the resolver over doh, dot and plain (each    *)
(* strategy has a deadline of its own).  Every attempt is recorded with    *)
(* the tracker, whose scores decide the order of later walks.              *)
(*                                                                         *)
(* Only waiting for a server takes time.  Reading the health of one path   *)
(* is one step, so is reading one server's: other queries' results come in *)
(* between.  An answer that is truncated is a failure, and so is one with  *)
(* a banned address for the plain client; from an encrypted server it is a *)
(* success that the resolver, not the relay, then turns down.  Packing the *)
(* question does not fail, and no caller gives up before its deadline.     *)
(***************************************************************************)
EXTENDS EndpointHealth, Sequences, FiniteSets

CONSTANTS
    Queries,                \* goroutines that resolve
    Chain,                  \* the transports in configured order
    ServersOf,              \* the configured servers of each transport
    Adaptive,
    SharedBudget,
    Budget,                 \* time a context allows
    AttemptTimeout,         \* time a client allows one server
    MaxQueries              \* bound: queries asked

Transports == {"doh", "dot", "plain"}
Encrypted == {"doh", "dot"}

ASSUME UpstreamAssumption ==
    /\ Chain \in Seq(Transports)
    /\ ServersOf \in [Transports -> Seq(Endpoints)]
    /\ \A t \in Transports : \A i \in DOMAIN ServersOf[t] : TransportOf[ServersOf[t][i]] = t
    /\ Adaptive \in BOOLEAN /\ SharedBudget \in BOOLEAN
    /\ Budget \in Nat \ {0} /\ AttemptTimeout \in Nat \ {0}

VARIABLES
    asked,                  \* queries so far
    query

vars == <<health_vars, asked, query>>

NoQuery == [pc |-> "idle",
            scores |-> <<>>,        \* of the paths, or of the servers, read so far
            unhealthy |-> {},       \* encrypted paths that were read Unhealthy
            slow |-> {},            \* encrypted paths that were read Slow
            paths |-> <<>>,         \* transports to walk, the current one first
            servers |-> <<>>,       \* its servers to try, the current one first
            started |-> 0, deadline |-> 0,
            \* for checking: servers, and transports left before their last server
            tried |-> {}, contacted |-> {}, cut |-> {}]

Init ==
    /\ HealthInit
    /\ asked = 0
    /\ query = [q \in Queries |-> NoQuery]

-----------------------------------------------------------------------------
\* A stable sort, best score first.
Ranked(items, scores) ==
    LET Before(i) == {j \in DOMAIN scores : \/ scores[j] > scores[i]
                                            \/ scores[j] = scores[i] /\ j < i}
    IN  [n \in DOMAIN items |-> items[CHOOSE i \in DOMAIN items : Cardinality(Before(i)) = n - 1]]

\* Mutant: servers that score nothing are left out.
InOrderIfUsable(servers, scores) ==
    LET Usable(e) == \E i \in DOMAIN servers : servers[i] = e /\ scores[i] > 0
    IN  SelectSeq(Ranked(servers, scores), Usable)

InOrder(servers, scores) == Ranked(servers, scores)

Set(q, record) == query' = [query EXCEPT ![q] = record]

Expired(q) == now >= query[q].deadline

\* Resolve begins; the relay starts its clock.
Ask(q) ==
    /\ query[q].pc \in {"idle", "failed"}
    /\ asked < MaxQueries
    /\ asked' = asked + 1
    /\ Set(q, [NoQuery EXCEPT !.pc = IF Adaptive /\ Len(Chain) > 1 THEN "ranking" ELSE "walking",
                              !.paths = Chain,
                              !.deadline = now + Budget])
    /\ UNCHANGED health_vars

\* Mutant: only an encrypted path in good health stays ahead of plain.
HealthyBonus(t, state) == IF t \in Encrypted /\ state = "healthy" THEN 5000 ELSE 0

Bonus(t, state) == IF t \in Encrypted /\ state # "unhealthy" THEN 5000 ELSE 0

\* The average latency has used up what the score gives an encrypted path over a
\* Healthy plain one: 8000 to 3000, or 6000 to 3000 when it is Degraded.
Slow(t) ==
    /\ t \in Encrypted /\ PathState(t) # "unhealthy"
    /\ PathEWMA(t) >= IF PathState(t) = "degraded" THEN 3000 ELSE 5000

Bad(t) == t \in Encrypted /\ PathState(t) = "unhealthy"

\* OrderTransports reads one path after the other, then sorts.
RankPath(q) ==
    LET t == Chain[Len(query[q].scores) + 1]
        scores == Append(query[q].scores,
                         Base(PathState(t)) + Bonus(t, PathState(t)) - PathEWMA(t))
        read == [query[q] EXCEPT
                   !.scores = scores,
                   !.unhealthy = IF Bad(t) THEN @ \cup {t} ELSE @,
                   !.slow = IF Slow(t) THEN @ \cup {t} ELSE @]
    IN  /\ query[q].pc = "ranking"
        /\ LookAt(t)
        /\ Set(q, IF Len(scores) < Len(Chain) THEN read
                  ELSE [read EXCEPT !.pc = "walking", !.paths = Ranked(Chain, scores),
                                    !.scores = <<>>])
        /\ UNCHANGED asked

\* Mutant: the resolver makes its context once for all strategies.
OneDeadline(deadline) == deadline

\* The deadline of the next transport: the relay's, or a new one.
DeadlineAfter(deadline) == IF SharedBudget THEN deadline ELSE now + Budget

\* The next transport's client is called.
\* A transport without servers fails at once, one server needs no order.
CallTransport(q) ==
    /\ query[q].pc = "walking"
    /\ query[q].paths # <<>>
    /\ LET servers == ServersOf[Head(query[q].paths)] IN
       Set(q, [query[q] EXCEPT
                 !.pc = IF Len(servers) > 1 THEN "ordering" ELSE "trying",
                 !.servers = servers,
                 !.deadline = DeadlineAfter(@)])
    /\ UNCHANGED <<health_vars, asked>>

\* Order reads one server after the other, then sorts.
OrderServer(q) ==
    LET servers == query[q].servers
        e == servers[Len(query[q].scores) + 1]
        scores == Append(query[q].scores, Score(e))
    IN  /\ query[q].pc = "ordering"
        /\ Look(e)
        /\ Set(q, IF Len(scores) < Len(servers)
                  THEN [query[q] EXCEPT !.scores = scores]
                  ELSE [query[q] EXCEPT !.pc = "trying", !.servers = InOrder(servers, scores),
                                        !.scores = <<>>])
        /\ UNCHANGED asked

\* The plain client looks at the context before each server, the others do not.
StopsWhenExpired(q) == Head(query[q].paths) = "plain" /\ Expired(q)

Contact(q) ==
    /\ query[q].pc = "trying"
    /\ query[q].servers # <<>>
    /\ ~Expired(q)
    /\ LET e == Head(query[q].servers) IN
       Set(q, [query[q] EXCEPT !.pc = "waiting", !.started = now,
                               !.tried = @ \cup {e}, !.contacted = @ \cup {e}])
    /\ UNCHANGED <<health_vars, asked>>

\* A context that is over fails the attempt before anything is sent, and the
\* failure is recorded with the server.
FailUnsent(q) ==
    /\ query[q].pc = "trying"
    /\ query[q].servers # <<>>
    /\ Expired(q) /\ ~StopsWhenExpired(q)
    /\ RecordFailure(Head(query[q].servers))
    /\ Set(q, [query[q] EXCEPT !.tried = @ \cup {Head(query[q].servers)},
                               !.servers = Tail(@)])
    /\ UNCHANGED asked

\* The server answers, or it refuses, times out, or answers what is rejected.
Succeed(q) ==
    /\ query[q].pc = "waiting"
    /\ RecordSuccess(Head(query[q].servers))
    /\ Set(q, NoQuery)
    /\ UNCHANGED asked

\* Resolve checks the answer against the ban list: on to the next strategy.
Reject(q) ==
    /\ ~SharedBudget
    /\ query[q].pc = "waiting"
    /\ Head(query[q].paths) \in Encrypted
    /\ RecordSuccess(Head(query[q].servers))
    /\ Set(q, [query[q] EXCEPT !.pc = "walking", !.servers = <<>>, !.paths = Tail(@),
                               !.cut = @ \cup {Head(query[q].paths)}])
    /\ UNCHANGED asked

Fail(q) ==
    /\ query[q].pc = "waiting"
    /\ RecordFailure(Head(query[q].servers))
    /\ Set(q, [query[q] EXCEPT !.pc = "trying", !.servers = Tail(@)])
    /\ UNCHANGED asked

\* The transport has failed: on to the next.
LeaveTransport(q) ==
    /\ query[q].pc = "trying"
    /\ query[q].servers = <<>> \/ StopsWhenExpired(q)
    /\ Set(q, [query[q] EXCEPT
                 !.pc = "walking", !.servers = <<>>, !.paths = Tail(@),
                 !.cut = IF query[q].servers = <<>> THEN @ ELSE @ \cup {Head(query[q].paths)}])
    /\ UNCHANGED <<health_vars, asked>>

GiveUp(q) ==
    /\ query[q].pc = "walking"
    /\ query[q].paths = <<>>
    /\ Set(q, [query[q] EXCEPT !.pc = "failed"])
    /\ UNCHANGED <<health_vars, asked>>

-----------------------------------------------------------------------------
\* An attempt is over by the deadline of its context and of its client.
MayWait(q) ==
    query[q].pc = "waiting" => now < query[q].deadline /\ now - query[q].started < AttemptTimeout

TimePasses ==
    /\ \A q \in Queries : /\ query[q].pc \in {"idle", "failed", "waiting"}
                          /\ MayWait(q)
    /\ Tick
    /\ UNCHANGED <<asked, query>>

Step(q) ==
    \/ RankPath(q) \/ CallTransport(q) \/ OrderServer(q)
    \/ Contact(q) \/ FailUnsent(q) \/ Succeed(q) \/ Reject(q) \/ Fail(q)
    \/ LeaveTransport(q) \/ GiveUp(q)

Next == TimePasses \/ \E q \in Queries : Ask(q) \/ Step(q)

Spec == Init /\ [][Next]_vars

-----------------------------------------------------------------------------
Failed == {q \in Queries : query[q].pc = "failed"}

\* Whatever the scores, and however other queries' results move them during the
\* walk, a query fails only after it tried every configured server: the order
\* changes, the fallback guarantee does not.  Only two things cut a transport
\* short: the plain client stops once its context is over, and a banned answer
\* ends its strategy.
EveryServerTried ==
    \A q \in Failed : \A i \in DOMAIN Chain : \A j \in DOMAIN ServersOf[Chain[i]] :
        \/ ServersOf[Chain[i]][j] \in query[q].tried
        \/ Chain[i] \in query[q].cut

\* A blocked transport does not take the chain down with it: a query that fails
\* has sent its question to a server of every transport that has one.
EveryTransportContacted ==
    \A q \in Failed : \A i \in DOMAIN Chain :
        ServersOf[Chain[i]] # <<>> =>
            \E e \in query[q].contacted : TransportOf[e] = Chain[i]

\* Queries that have their order of paths, from the scores.
Ordered == {q \in Queries : Adaptive /\ query[q].pc # "ranking"}

\* Plain DNS is left to walk, and an encrypted path of S after it.
PlainAhead(q, S) ==
    LET paths == query[q].paths
    IN  \E i, j \in DOMAIN paths : i < j /\ paths[i] = "plain" /\ paths[j] \in Encrypted \cap S

\* With the adaptive order, plain DNS comes before an encrypted path only if this
\* query's own ranking found that path Unhealthy, or slower by seconds than plain
\* DNS could make up for: never because it is Degraded or on probation, whatever
\* other queries' results do meanwhile and wherever plain DNS is configured.
EncryptedFirst ==
    \A q \in Ordered : ~PlainAhead(q, Transports \ (query[q].unhealthy \cup query[q].slow))

\* What health.go says of OrderTransports: "plain only rises when every encrypted
\* path in the list is Unhealthy".
PlainOnlyIfAllUnhealthy ==
    \A q \in Ordered : PlainAhead(q, Encrypted) =>
        \A i \in DOMAIN Chain : Chain[i] \in Encrypted => Chain[i] \in query[q].unhealthy
=============================================================================
