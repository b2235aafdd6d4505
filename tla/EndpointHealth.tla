--------------------------- MODULE EndpointHealth ---------------------------
(***************************************************************************)
(* The health tracker of internal/upstream/health/health.go: a state       *)
(* machine per upstream endpoint, driven by the results of real queries,   *)
(* and the scores endpoints and transports are ranked by.  Each endpoint   *)
(* has its own lock, so recording one result or reading one endpoint is    *)
(* one step, and results arrive in whatever order queries end.             *)
(*                                                                         *)
(* Counters are only ever compared with thresholds: they saturate there.   *)
(* The EWMA is kept to the levels of Latencies: blending an observation    *)
(* with the average gives some level between the two.                      *)
(***************************************************************************)
EXTENDS Integers

CONSTANTS
    Endpoints,              \* (transport, server) pairs ever configured
    TransportOf,            \* the transport of each
    DegradeThreshold, UnhealthyThreshold, RecoverThreshold,
    Cooldown,
    Latencies,              \* levels of the EWMA, in milliseconds
    MaxTime                 \* bound: how far the clock runs

ASSUME HealthAssumption ==
    /\ DegradeThreshold \in Nat \ {0}
    /\ UnhealthyThreshold \in Nat /\ UnhealthyThreshold > DegradeThreshold
    /\ RecoverThreshold \in Nat \ {0}
    /\ Cooldown \in Nat
    /\ Latencies \subseteq Nat
    /\ MaxTime \in Nat

NoEWMA == 0                 \* hasEWMA is FALSE: the penalty of a score is 0

VARIABLES
    now,
    seen,                   \* the endpoints t.stats has an entry for
    stats                   \* endpointStats

health_vars == <<now, seen, stats>>

States == {"healthy", "degraded", "unhealthy", "probing"}

Stats == [state : States,
          consecutiveFailures : 0..UnhealthyThreshold,
          consecutiveSuccesses : 0..RecoverThreshold,
          unhealthySince : 0..MaxTime,
          ewma : Latencies \cup {NoEWMA}]

NewStats == [state |-> "healthy", consecutiveFailures |-> 0, consecutiveSuccesses |-> 0,
             unhealthySince |-> 0, ewma |-> NoEWMA]

OneMore(count, limit) == IF count < limit THEN count + 1 ELSE limit

HealthInit ==
    /\ now = 0
    /\ seen = {}
    /\ stats = [e \in Endpoints |-> NewStats]

-----------------------------------------------------------------------------
\* refreshState: a cooldown that is over is noticed when the endpoint is used.
Refreshed(s) ==
    IF s.state = "unhealthy" /\ now - s.unhealthySince >= Cooldown
    THEN [s EXCEPT !.state = "probing"] ELSE s

\* Mutant: the run of failures is not broken.
CountSuccessOnly(s) ==
    [s EXCEPT !.consecutiveSuccesses = OneMore(@, RecoverThreshold)]

CountSuccess(s) ==
    [s EXCEPT !.consecutiveFailures = 0,
              !.consecutiveSuccesses = OneMore(@, RecoverThreshold)]

CountFailure(s) ==
    [s EXCEPT !.consecutiveSuccesses = 0,
              !.consecutiveFailures = OneMore(@, UnhealthyThreshold)]

\* onSuccess: a probe that succeeds is enough, otherwise it takes a run.
OnSuccess(s) ==
    IF \/ s.state = "probing"
       \/ s.state \in {"degraded", "unhealthy"} /\ s.consecutiveSuccesses >= RecoverThreshold
    THEN [s EXCEPT !.state = "healthy", !.consecutiveSuccesses = 0] ELSE s

\* onFailure.  A failure restarts the cooldown.
Demoted(s) ==
    CASE s.state = "healthy" /\ s.consecutiveFailures >= DegradeThreshold -> "degraded"
      [] s.state = "degraded" /\ s.consecutiveFailures >= UnhealthyThreshold -> "unhealthy"
      [] s.state = "probing" -> "unhealthy"
      [] OTHER -> s.state

OnFailure(s) ==
    [s EXCEPT !.state = Demoted(s),
              !.unhealthySince = IF Demoted(s) = "unhealthy" THEN now ELSE @]

Blends(ewma, observed) ==
    IF ewma = NoEWMA THEN {observed}
    ELSE {l \in Latencies : \/ ewma <= l /\ l <= observed
                            \/ observed <= l /\ l <= ewma}

RecordSuccess(e) ==
    /\ \E observed \in Latencies : \E ewma \in Blends(stats[e].ewma, observed) :
         stats' = [stats EXCEPT ![e] =
                     OnSuccess([CountSuccess(Refreshed(@)) EXCEPT !.ewma = ewma])]
    /\ seen' = seen \cup {e}
    /\ UNCHANGED now

RecordFailure(e) ==
    /\ stats' = [stats EXCEPT ![e] = OnFailure(CountFailure(Refreshed(@)))]
    /\ seen' = seen \cup {e}
    /\ UNCHANGED now

-----------------------------------------------------------------------------
\* Whoever looks at an endpoint refreshes it.
Refresh(es) ==
    /\ stats' = [e \in Endpoints |-> IF e \in es THEN Refreshed(stats[e]) ELSE stats[e]]
    /\ UNCHANGED now

Base(state) ==
    CASE state \in {"healthy", "probing"} -> 3000
      [] state = "degraded" -> 1000
      [] state = "unhealthy" -> 0

Score(e) == Base(Refreshed(stats[e]).state) - stats[e].ewma

\* Order and State: an endpoint that is looked at has an entry from then on.
Look(e) ==
    /\ Refresh({e})
    /\ seen' = seen \cup {e}

\* PathState and PathEWMA look at what has an entry for the transport.
Observed(t) == {e \in seen : TransportOf[e] = t}

LookAt(t) ==
    /\ Refresh(Observed(t))
    /\ UNCHANGED seen

\* The states from best to worst.
Best(states) ==
    CASE states = {} \/ "healthy" \in states -> "healthy"
      [] "probing" \in states -> "probing"
      [] "degraded" \in states -> "degraded"
      [] OTHER -> "unhealthy"

PathState(t) == Best({Refreshed(stats[e]).state : e \in Observed(t)})

PathEWMA(t) ==
    LET known == {stats[e].ewma : e \in Observed(t)} \ {NoEWMA}
    IN  IF known = {} THEN NoEWMA ELSE CHOOSE l \in known : \A k \in known : l <= k

-----------------------------------------------------------------------------
\* The clock moves.
Tick ==
    /\ now < MaxTime
    /\ now' = now + 1
    /\ UNCHANGED <<seen, stats>>

\* Whatever the clients do, this is how the tracker behaves.
HealthNext ==
    \/ \E e \in Endpoints : RecordSuccess(e) \/ RecordFailure(e) \/ Look(e)
    \/ \E e \in Endpoints : LookAt(TransportOf[e])
    \/ Tick

HealthSpec == HealthInit /\ [][HealthNext]_health_vars

-----------------------------------------------------------------------------
HealthTypeOK ==
    /\ now \in 0..MaxTime
    /\ seen \subseteq Endpoints
    /\ stats \in [Endpoints -> Stats]

\* The counters explain the state, whichever results come in which order: no
\* endpoint has both a run of failures and one of successes, one failure short
\* of a threshold does not demote, a run of successes is not left unrewarded,
\* and a probe comes no sooner than a cooldown after the last failure.
CountersExplainState ==
    \A e \in Endpoints : LET s == stats[e] IN
        /\ s.consecutiveFailures = 0 \/ s.consecutiveSuccesses = 0
        /\ s.state = "healthy" => s.consecutiveFailures < DegradeThreshold
        /\ s.state = "degraded" => s.consecutiveFailures < UnhealthyThreshold
        /\ s.state # "healthy" => s.consecutiveSuccesses < RecoverThreshold
        /\ s.state = "probing" => now - s.unhealthySince >= Cooldown
=============================================================================
