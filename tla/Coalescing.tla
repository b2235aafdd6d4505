----------------------------- MODULE Coalescing -----------------------------
(***************************************************************************)
(* attemptUpstream of internal/resolver/resolver.go: concurrent callers    *)
(* for one (qname, qtype, strategy) share one upstream attempt through     *)
(* r.inflight and a WaitGroup.  Callers are the goroutines that serve      *)
(* queries and refresh the cache, in background or for an administrator;   *)
(* a reload may swap the upstream clients at any step.  The first lookup   *)
(* of the clients (Resolve) and the second (callUpstream) are two steps,   *)
(* and so are the deletion from the map and the release of the waiters.    *)
(*                                                                         *)
(* An answer is the version of the world the upstream gave it from, which  *)
(* may have changed by the time the answer arrives.                        *)
(***************************************************************************)
EXTENDS Integers, FiniteSets

CONSTANTS
    Callers,        \* goroutines inside Resolve or ResolveUpstreamOnly
    Keys,           \* the (qname, qtype, strategy) asked for
    RelayKeys,      \* those of them whose strategy is "relay"
    Calls,          \* room for inflightCall objects
    NoCall,         \* what inflight holds for a key without an attempt
    MaxWorld,       \* bound: how often the world changes
    MaxReloads,     \* bound: how often the configuration is reloaded
    MaxAsks         \* bound: how often a caller asks

ASSUME CoalescingAssumption ==
    /\ IsFiniteSet(Callers)
    /\ Keys # {}
    /\ RelayKeys \subseteq Keys
    /\ NoCall \notin Calls
    /\ MaxWorld \in Nat /\ MaxReloads \in Nat /\ MaxAsks \in Nat

Failed  == -1       \* call.err # nil
Pending == -2       \* neither call.resp nor call.err is set

VARIABLES
    world,          \* the version upstreams answer from
    clients,        \* generation of r.RelayClient, r.DoH, r.DoT, r.Plain
    hasRelay,       \* r.RelayClient # nil
    inflight,       \* r.inflight
    call,           \* the inflightCall objects
    caller,         \* the local state of each caller
    asks,           \* history: calls of attemptUpstream past the lock
    calls,          \* powerdns_upstream_calls_total
    coalesced,      \* powerdns_upstream_coalesced_total
    unsent          \* history: attempts that found no client to use

config_vars == <<clients, hasRelay>>
counters    == <<asks, calls, coalesced, unsent>>
vars == <<world, config_vars, inflight, call, caller, counters>>

Caller == [pc : {"idle", "asking", "waiting", "leading", "calling", "landed", "leaving"},
           key : Keys, call : Calls \cup {NoCall}]

IdleCaller == [pc |-> "idle", key |-> CHOOSE k \in Keys : TRUE, call |-> NoCall]

Call == [since : 0..MaxWorld, result : (0..MaxWorld) \cup {Failed, Pending},
         over : BOOLEAN]

NewCall(since) == [since |-> since, result |-> Pending, over |-> FALSE]

\* The leader until it has taken its call off the map, and after.
Leads(c) == caller[c].pc \in {"leading", "calling", "landed"}
Holds(c) == Leads(c) \/ caller[c].pc \in {"leaving", "waiting"}
Holders(i) == {c \in Callers : Holds(c) /\ caller[c].call = i}

Usable(k) == k \in RelayKeys => hasRelay

Init ==
    /\ world = 0
    /\ clients = 0
    /\ hasRelay \in BOOLEAN
    /\ inflight = [k \in Keys |-> NoCall]
    /\ call = [i \in Calls |-> NewCall(0)]
    /\ caller = [c \in Callers |-> IdleCaller]
    /\ asks = 0 /\ calls = 0 /\ coalesced = 0 /\ unsent = 0

-----------------------------------------------------------------------------
\* Resolve and ResolveUpstreamOnly: a strategy without a client is skipped.
Begin(c, k) ==
    /\ caller[c].pc = "idle"
    /\ Usable(k)
    /\ asks < MaxAsks
    /\ caller' = [caller EXCEPT ![c] =
          [IdleCaller EXCEPT !.pc = "asking", !.key = k]]
    /\ UNCHANGED <<world, config_vars, inflight, call, counters>>

UnderWay(k) == inflight[k] # NoCall

\* Under inflightMu: somebody else resolves this key already.
Join(c) ==
    /\ caller[c].pc = "asking"
    /\ UnderWay(caller[c].key)
    /\ caller' = [caller EXCEPT ![c].pc = "waiting", ![c].call = inflight[caller[c].key]]
    /\ asks' = asks + 1
    /\ UNCHANGED <<world, config_vars, inflight, call, calls, coalesced, unsent>>

\* Under inflightMu: register a new call.
Lead(c) ==
    /\ caller[c].pc = "asking"
    /\ ~UnderWay(caller[c].key)
    /\ \E i \in Calls :
         /\ Holders(i) = {}
         /\ call' = [call EXCEPT ![i] = NewCall(world)]
         /\ inflight' = [inflight EXCEPT ![caller[c].key] = i]
         /\ caller' = [caller EXCEPT ![c].pc = "leading", ![c].call = i]
    /\ asks' = asks + 1
    /\ UNCHANGED <<world, config_vars, calls, coalesced, unsent>>

\* callUpstream takes the clients of now.
TakeClient(c) ==
    /\ caller[c].pc = "leading"
    /\ Usable(caller[c].key)
    /\ caller' = [caller EXCEPT ![c].pc = "calling"]
    /\ UNCHANGED <<world, config_vars, inflight, call, counters>>

\* Mutant: every attempt counts.
CountAlways(sent) == calls + 1

\* The early returns of callUpstream bypass the call counter.
CallsAfter(sent) == IF sent THEN calls + 1 ELSE calls

FindNoClient(c) ==
    /\ caller[c].pc = "leading"
    /\ ~Usable(caller[c].key)
    /\ call' = [call EXCEPT ![caller[c].call].result = Failed]
    /\ caller' = [caller EXCEPT ![c].pc = "landed"]
    /\ calls' = CallsAfter(FALSE)
    /\ unsent' = unsent + 1
    /\ UNCHANGED <<world, config_vars, inflight, asks, coalesced>>

\* The upstream answers, or fails, or the leader's context ends first.
UpstreamReturns(c) ==
    /\ caller[c].pc = "calling"
    /\ \E result \in {Failed} \cup (call[caller[c].call].since..world) :
         call' = [call EXCEPT ![caller[c].call].result = result]
    /\ caller' = [caller EXCEPT ![c].pc = "landed"]
    /\ calls' = CallsAfter(TRUE)
    /\ UNCHANGED <<world, config_vars, inflight, asks, coalesced, unsent>>

Deregister(k) == inflight' = [inflight EXCEPT ![k] = NoCall]

\* The deferred function, under inflightMu.
EndCall(c) ==
    /\ caller[c].pc = "landed"
    /\ Deregister(caller[c].key)
    /\ caller' = [caller EXCEPT ![c].pc = "leaving"]
    /\ UNCHANGED <<world, config_vars, call, counters>>

\* A call nobody else holds is left to the garbage collector.
Drop(c, i, kept) ==
    call' = [call EXCEPT ![i] = IF Holders(i) = {c} THEN NewCall(0) ELSE kept]

\* Mutant: wg.Done is missing.
ReleaseNobody(c, i) == Drop(c, i, call[i])

ReleaseWaiters(c, i) == Drop(c, i, [call[i] EXCEPT !.over = TRUE])

\* wg.Done, and the leader returns its own copy of the outcome.
Leave(c) ==
    /\ caller[c].pc = "leaving"
    /\ ReleaseWaiters(c, caller[c].call)
    /\ caller' = [caller EXCEPT ![c] = IdleCaller]
    /\ UNCHANGED <<world, config_vars, inflight, counters>>

\* Mutant: the waiter does not wait.
DoNotWait(i) == TRUE

WaitIsOver(i) == call[i].over

\* wg.Wait returns, the waiter is counted and returns its copy.
Wake(c) ==
    /\ caller[c].pc = "waiting"
    /\ WaitIsOver(caller[c].call)
    /\ Drop(c, caller[c].call, call[caller[c].call])
    /\ caller' = [caller EXCEPT ![c] = IdleCaller]
    /\ coalesced' = coalesced + 1
    /\ UNCHANGED <<world, config_vars, inflight, asks, calls, unsent>>

-----------------------------------------------------------------------------
\* A reload swaps the clients and may configure or remove the relay.
ApplyRuntime ==
    /\ clients < MaxReloads
    /\ clients' = clients + 1
    /\ hasRelay' \in BOOLEAN
    /\ UNCHANGED <<world, inflight, call, caller, counters>>

WorldChanges ==
    /\ world < MaxWorld
    /\ world' = world + 1
    /\ UNCHANGED <<config_vars, inflight, call, caller, counters>>

Proceed(c) ==
    \/ Join(c) \/ Lead(c) \/ TakeClient(c) \/ FindNoClient(c)
    \/ UpstreamReturns(c) \/ EndCall(c) \/ Leave(c) \/ Wake(c)

Next ==
    \/ \E c \in Callers : Proceed(c) \/ \E k \in Keys : Begin(c, k)
    \/ ApplyRuntime
    \/ WorldChanges

Spec == Init /\ [][Next]_vars

\* Goroutines are scheduled, mutexes are fair enough for each to get them, and
\* every upstream call ends: callUpstream gives it a deadline.
FairSpec == Spec /\ \A c \in Callers : WF_vars(Proceed(c))

-----------------------------------------------------------------------------
WellTyped ==
    /\ world \in 0..MaxWorld
    /\ clients \in 0..MaxReloads
    /\ hasRelay \in BOOLEAN
    /\ inflight \in [Keys -> Calls \cup {NoCall}]
    /\ call \in [Calls -> Call]
    /\ caller \in [Callers -> Caller]
    /\ asks \in Nat /\ calls \in Nat /\ coalesced \in Nat /\ unsent \in Nat

\* Who leads or waits has a call to do it on.
HeldCallsExist == \A c \in Callers : Holds(c) => caller[c].call \in Calls

\* Every variable has its type, and nobody uses a nil call.
TypeOK == WellTyped /\ HeldCallsExist

\* At most one upstream attempt runs for a key, however callers interleave.
OneAttemptPerKey ==
    \A c, d \in Callers :
        Leads(c) /\ Leads(d) /\ caller[c].key = caller[d].key => c = d

\* The map only names calls whose leader still runs: nobody can join an
\* attempt that is over and be handed its old answer.
OnlyRunningCallsRegistered ==
    \A k \in Keys : inflight[k] # NoCall =>
        \E c \in Holders(inflight[k]) : Leads(c) /\ caller[c].key = k

\* The metrics partition the calls of attemptUpstream: each is counted once,
\* as a call or as coalesced, unless it found no client to send with.
CountsPartition ==
    asks = calls + coalesced + unsent
           + Cardinality({c \in Callers : caller[c].pc \in {"leading", "calling", "waiting"}})

\* Every caller of attemptUpstream returns.
EveryCallerReturns == \A c \in Callers : caller[c].pc # "idle" ~> caller[c].pc = "idle"

\* Coalescing implements SingleFlight: an attempt is under way while the map
\* names its call, and the outcome is everyone's once it no longer does.
FlightOf(k) ==
    IF inflight[k] = NoCall THEN [members |-> {}, since |-> 0]
    ELSE [members |-> Holders(inflight[k]), since |-> call[inflight[k]].since]

OutcomeOf(c) ==
    IF Holds(c) /\ inflight[caller[c].key] # caller[c].call THEN call[caller[c].call].result
    ELSE Pending

SF == INSTANCE SingleFlight WITH flight <- [k \in Keys |-> FlightOf(k)],
                                 got <- [c \in Callers |-> OutcomeOf(c)]

ImplementsSingleFlight == SF!Spec
=============================================================================
