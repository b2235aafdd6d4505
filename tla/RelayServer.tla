----------------------------- MODULE RelayServer -----------------------------
(***************************************************************************)
(* The relay of internal/relay/server.go and dotserver.go: queries arrive  *)
(* over DoH and DoT, pass the token, the rate limiter and the allow-list,  *)
(* and those for one (qname, qtype) share one resolution by the upstream   *)
(* chain, under the leader's deadline.  A reload replaces the policy and   *)
(* the chain, in two steps, while queries run.                             *)
(*                                                                         *)
(* An answer is the generation of the chain that gave it.  Steps between   *)
(* waits take no time at the scale of the clock.                           *)
(***************************************************************************)
EXTENDS Integers, Sequences, FiniteSets

CONSTANTS
    Requests,       \* handlers that run at a time
    Sources,        \* addresses clients come from
    Keys,           \* (qname, qtype)
    Policies,       \* what the configuration may say: a policy is a record of
                    \* token, allow and limit
    Calls,          \* room for inflightCall objects
    NoCall,
    Window, Deadline,
    MaxReloads, MaxArrivals, MaxAsks, MaxTime       \* bounds

ASSUME RelayAssumption ==
    /\ IsFiniteSet(Requests)
    /\ NoCall \notin Calls
    /\ Sources # {} /\ Keys # {}
    /\ \A p \in Policies : p.token \in BOOLEAN /\ p.limit \in Nat
    /\ Window \in Nat /\ Deadline \in Nat
    /\ MaxReloads \in Nat /\ MaxArrivals \in Nat /\ MaxAsks \in Nat /\ MaxTime \in Nat

Failed  == -1       \* call.err # nil
Pending == -2

VARIABLES
    now,
    policy,         \* by generation: AuthToken, AllowedSuffixes, the limit
    security,       \* the generation in force
    buckets,        \* of each generation's limiter
    chain,          \* generation of Upstream
    inflight, call, \* s.inflight and the inflightCall objects
    request,
    arrivals,       \* how many requests there have been
    asked, calls, coalesced,    \* resolutions asked for, and the two counters
    passed          \* history: when a limiter let a source through

limits   == <<policy, security, buckets, passed>>
flights  == <<chain, inflight, call>>
counters == <<arrivals, asked, calls, coalesced>>
vars == <<now, limits, flights, request, counters>>

Generations == 0..MaxReloads

Request == [pc : {"idle", "arrived", "admitted", "asking", "waiting", "leading", "calling",
                  "landed", "leaving"},
            via : {"doh", "dot"}, source : Sources, key : Keys, limiter : Generations,
            chain : Generations, call : Calls \cup {NoCall}, deadline : 0..(MaxTime + Deadline)]

NoRequest == [pc |-> "idle", via |-> "doh", source |-> CHOOSE s \in Sources : TRUE,
              key |-> CHOOSE k \in Keys : TRUE, limiter |-> 0, chain |-> 0,
              call |-> NoCall, deadline |-> 0]

Call == [since : Generations, result : Generations \cup {Failed, Pending}, over : BOOLEAN]

NewCall(since) == [since |-> since, result |-> Pending, over |-> FALSE]

NoBucket == [count |-> 0, from |-> -1]

Leads(r) == request[r].pc \in {"leading", "calling", "landed"}
Holds(r) == Leads(r) \/ request[r].pc \in {"leaving", "waiting"}
Holders(i) == {r \in Requests : Holds(r) /\ request[r].call = i}

Init ==
    /\ now = 0
    /\ policy \in [Generations -> Policies]
    /\ security = 0
    /\ buckets = [g \in Generations |-> [s \in Sources |-> NoBucket]]
    /\ chain = 0
    /\ inflight = [k \in Keys |-> NoCall]
    /\ call = [i \in Calls |-> NewCall(0)]
    /\ request = [r \in Requests |-> NoRequest]
    /\ arrivals = 0 /\ asked = 0 /\ calls = 0 /\ coalesced = 0
    /\ passed = [g \in Generations |-> [s \in Sources |-> <<>>]]

To(r, step) == request' = [request EXCEPT ![r].pc = step]

\* Past the limiter only the question counts.
Admit(r) == request' = [request EXCEPT ![r] =
                [NoRequest EXCEPT !.pc = "admitted", !.key = request[r].key]]

Reply(r) == request' = [request EXCEPT ![r] = NoRequest]

-----------------------------------------------------------------------------
\* ServeHTTP, and handle of the DoT listener, which asks for no token.  Both
\* take the limiter that is in force now.
Arrive(r, via, s, k, authorized) ==
    /\ request[r].pc = "idle"
    /\ arrivals < MaxArrivals
    /\ arrivals' = arrivals + 1
    /\ \/ /\ via = "doh" /\ policy[security].token /\ ~authorized     \* 401
          /\ UNCHANGED request
       \/ /\ via = "dot" \/ ~policy[security].token \/ authorized
          /\ request' = [request EXCEPT ![r] =
                [NoRequest EXCEPT !.pc = "arrived", !.via = via, !.source = s, !.key = k,
                                  !.limiter = security]]
    /\ UNCHANGED <<now, limits, flights, asked, calls, coalesced>>

\* The limiter Allow is called on: the DoT listener looks a second time, without
\* the lock.
LimiterOf(r) == IF request[r].via = "dot" THEN {request[r].limiter, security}
                ELSE {request[r].limiter}

\* Mutant: the window starts again with every request.
SlidingBucket(b) == IF b.from < 0 \/ now - b.from > Window
                    THEN [count |-> 1, from |-> now]
                    ELSE [count |-> b.count + 1, from |-> now]

\* Mutant: the window is compared the other way round.
SwappedBucket(b) == IF b.from < 0 \/ now - b.from < Window THEN [count |-> 1, from |-> now]
                    ELSE [count |-> b.count + 1, from |-> b.from]

\* rateLimiter.Allow counts the request in the window under way or opens one.
Counted(b) == IF b.from < 0 \/ now - b.from > Window THEN [count |-> 1, from |-> now]
              ELSE [count |-> b.count + 1, from |-> b.from]

Within(b, limit) == b.count <= limit

\* No limiter at all if the limit is 0.
Unlimited(r) ==
    /\ request[r].pc = "arrived"
    /\ \E g \in LimiterOf(r) : policy[g].limit = 0
    /\ Admit(r)
    /\ UNCHANGED <<now, limits, flights, counters>>

Limited(r) ==
    /\ request[r].pc = "arrived"
    /\ \E g \in LimiterOf(r) :
         LET s == request[r].source
             b == Counted(buckets[g][s])
         IN  /\ policy[g].limit > 0
             /\ buckets' = [buckets EXCEPT ![g][s] = b]
             /\ \/ /\ Within(b, policy[g].limit)
                   /\ passed' = [passed EXCEPT ![g][s] = Append(@, now)]
                   /\ Admit(r)
                \/ /\ ~Within(b, policy[g].limit)      \* 429, REFUSED
                   /\ Reply(r)
                   /\ UNCHANGED passed
    /\ UNCHANGED <<now, policy, security, flights, counters>>

\* A body that is no query, or a query without a question.
Malformed(r) ==
    /\ request[r].pc = "admitted"
    /\ Reply(r)
    /\ UNCHANGED <<now, limits, flights, counters>>

\* resolve: the allow-list of now, which may be of another generation than the
\* token, and a deadline of its own.
Judge(r) ==
    /\ request[r].pc = "admitted"
    /\ asked < MaxAsks
    /\ LET allow == policy[security].allow
       IN  \/ /\ allow = {} \/ request[r].key \in allow
              /\ request' = [request EXCEPT ![r].pc = "asking",
                                            ![r].deadline = now + Deadline]
           \/ /\ allow # {} /\ request[r].key \notin allow
              /\ Reply(r)                               \* 403, REFUSED
    /\ UNCHANGED <<now, limits, flights, counters>>

-----------------------------------------------------------------------------
UnderWay(k) == inflight[k] # NoCall

\* resolveCoalesced.
Join(r) ==
    /\ request[r].pc = "asking"
    /\ UnderWay(request[r].key)
    /\ request' = [request EXCEPT ![r].pc = "waiting", ![r].call = inflight[request[r].key]]
    /\ asked' = asked + 1
    /\ UNCHANGED <<now, limits, flights, arrivals, calls, coalesced>>

Lead(r) ==
    /\ request[r].pc = "asking"
    /\ ~UnderWay(request[r].key)
    /\ \E i \in Calls :
         /\ Holders(i) = {}
         /\ call' = [call EXCEPT ![i] = NewCall(chain)]
         /\ inflight' = [inflight EXCEPT ![request[r].key] = i]
         /\ request' = [request EXCEPT ![r].pc = "leading", ![r].call = i]
    /\ asked' = asked + 1
    /\ UNCHANGED <<now, limits, chain, arrivals, calls, coalesced>>

\* The leader asks the chain of now.
TakeChain(r) ==
    /\ request[r].pc = "leading"
    /\ request' = [request EXCEPT ![r].pc = "calling", ![r].chain = chain]
    /\ UNCHANGED <<now, limits, flights, counters>>

\* Mutant: the deadline never passes.
NoTimeout(r) == FALSE

TimedOut(r) == request[r].pc = "calling" /\ now >= request[r].deadline

\* The chain answers or fails, the deadline passes, or the leader's client hangs up.
ChainReturns(r) ==
    /\ request[r].pc = "calling"
    /\ \E result \in {Failed, request[r].chain} :
         call' = [call EXCEPT ![request[r].call].result = result]
    /\ To(r, "landed")
    /\ calls' = calls + 1
    /\ UNCHANGED <<now, limits, chain, inflight, arrivals, asked, coalesced>>

\* Mutant: the call stays in the map.
LeaveRegistered(k) == inflight' = inflight

Deregister(k) == inflight' = [inflight EXCEPT ![k] = NoCall]

EndCall(r) ==
    /\ request[r].pc = "landed"
    /\ Deregister(request[r].key)
    /\ To(r, "leaving")
    /\ UNCHANGED <<now, limits, chain, call, counters>>

\* A call nobody else holds is left to the garbage collector.
Drop(r, i, kept) == call' = [call EXCEPT ![i] = IF Holders(i) = {r} THEN NewCall(0) ELSE kept]

\* wg.Done, and the leader's reply.
Leave(r) ==
    /\ request[r].pc = "leaving"
    /\ Drop(r, request[r].call, [call[request[r].call] EXCEPT !.over = TRUE])
    /\ Reply(r)
    /\ UNCHANGED <<now, limits, chain, inflight, counters>>

\* Mutant: waiters are counted as calls, too.
CountedTwice == coalesced' = coalesced + 1 /\ calls' = calls + 1

CountedAsWaiter == coalesced' = coalesced + 1 /\ calls' = calls

\* A waiter looks at neither its own deadline nor its client.
Wake(r) ==
    /\ request[r].pc = "waiting"
    /\ call[request[r].call].over
    /\ Drop(r, request[r].call, call[request[r].call])
    /\ Reply(r)
    /\ CountedAsWaiter
    /\ UNCHANGED <<now, limits, chain, inflight, arrivals, asked>>

-----------------------------------------------------------------------------
\* A new limiter comes with every reload.
ApplySecurity ==
    /\ security < MaxReloads
    /\ security' = security + 1
    /\ UNCHANGED <<now, policy, buckets, passed, flights, request, counters>>

\* The second step of the same reload.
ApplyUpstream ==
    /\ chain < security
    /\ chain' = chain + 1
    /\ UNCHANGED <<now, limits, inflight, call, request, counters>>

\* Time passes while requests wait for the network or for each other.
Waits(r) ==
    \/ request[r].pc = "idle"
    \/ request[r].pc = "calling" /\ ~TimedOut(r)
    \/ request[r].pc = "waiting" /\ ~call[request[r].call].over

Tick ==
    /\ now < MaxTime
    /\ \A r \in Requests : Waits(r)
    /\ now' = now + 1
    /\ UNCHANGED <<limits, flights, request, counters>>

Proceed(r) ==
    \/ Unlimited(r) \/ Limited(r) \/ Malformed(r) \/ Judge(r) \/ Join(r) \/ Lead(r)
    \/ TakeChain(r) \/ ChainReturns(r) \/ EndCall(r) \/ Leave(r) \/ Wake(r)

Next ==
    \/ \E r \in Requests :
         \/ \E via \in {"doh", "dot"}, s \in Sources, k \in Keys, authorized \in BOOLEAN :
              Arrive(r, via, s, k, authorized)
         \/ Proceed(r)
    \/ ApplySecurity
    \/ ApplyUpstream
    \/ Tick

Spec == Init /\ [][Next]_vars

-----------------------------------------------------------------------------
TypeOK ==
    /\ now \in 0..MaxTime
    /\ policy \in [Generations -> Policies]
    /\ security \in Generations /\ chain \in Generations
    /\ buckets \in [Generations -> [Sources -> [count : Nat, from : -1..MaxTime]]]
    /\ inflight \in [Keys -> Calls \cup {NoCall}]
    /\ call \in [Calls -> Call]
    /\ request \in [Requests -> Request]
    /\ \A r \in Requests : Holds(r) => request[r].call \in Calls
    /\ arrivals \in Nat /\ asked \in Nat /\ calls \in Nat /\ coalesced \in Nat
    /\ passed \in [Generations -> [Sources -> Seq(0..MaxTime)]]

\* However requests fall around the edges of its windows, one limiter lets a source
\* through less than twice as often as its limit says in any time as long as a
\* window, both ends included: the request that opened a window is a whole window
\* earlier than the next one's.
LessThanTwiceTheLimit ==
    \A g \in Generations, s \in Sources :
        LET p == passed[g][s]
            L == policy[g].limit
        IN  L > 0 => \A i \in 1..(Len(p) - 2*L + 1) : p[i + 2*L - 1] - p[i] > Window

\* Who is turned away has been let through as often as the limit says within the
\* last window: requests that were refused never keep a source out any longer.
RefusedOnlyOverLimit ==
    [][\A r \in Requests : request[r].pc = "arrived" /\ request'[r].pc = "idle" =>
         \E g \in LimiterOf(r) :
            LET p == passed[g][request[r].source]
                L == policy[g].limit
            IN  L > 0 /\ Len(p) >= L /\ p[Len(p) - L + 1] >= now - Window]_vars

\* Nobody who waits for another's resolution waits beyond a deadline of its own.
WithinDeadline ==
    \A r \in Requests : request[r].pc \in {"waiting", "calling"} => now <= request[r].deadline

\* The two counters partition the resolutions asked for: each is counted once when
\* it is over, as a call or as coalesced, over whichever transport it came.
CountsPartition ==
    asked = calls + coalesced
            + Cardinality({r \in Requests : request[r].pc \in {"leading", "calling", "waiting"}})

\* The relay's coalescing implements SingleFlight, with the chain for the world.
FlightOf(k) ==
    IF inflight[k] = NoCall THEN [members |-> {}, since |-> 0]
    ELSE [members |-> Holders(inflight[k]), since |-> call[inflight[k]].since]

OutcomeOf(r) ==
    IF Holds(r) /\ inflight[request[r].key] # request[r].call THEN call[request[r].call].result
    ELSE Pending

SF == INSTANCE SingleFlight WITH Callers <- Requests, world <- chain,
                                 flight <- [k \in Keys |-> FlightOf(k)],
                                 got <- [r \in Requests |-> OutcomeOf(r)]

ImplementsSingleFlight == SF!Spec
=============================================================================
