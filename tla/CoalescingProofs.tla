-------------------------- MODULE CoalescingProofs --------------------------
(***************************************************************************)
(* What Coalescing keeps for any number of callers, keys and calls: one    *)
(* attempt per key, a map that only names running calls, counters that     *)
(* partition the calls of attemptUpstream, and the refinement of           *)
(* SingleFlight.                                                           *)
(***************************************************************************)
EXTENDS Coalescing, FiniteSetTheorems, TLAPS

\* The leader of a call is the one the map names; who holds a call asked for
\* the key it was made for; a call that is off the map has an outcome; and
\* waiters are only released from calls that are off the map.
LeaderRegistered == \A c \in Callers : Leads(c) => inflight[caller[c].key] = caller[c].call
HoldersAgree ==
    \A c, d \in Callers : Holds(c) /\ Holds(d) /\ caller[c].call = caller[d].call
                          => caller[c].key = caller[d].key
OffTheMap(c) == inflight[caller[c].key] # caller[c].call
OutcomeKnown ==
    \A c \in Callers :
        Holds(c) /\ (OffTheMap(c) \/ caller[c].pc = "landed")
        => call[caller[c].call].result # Pending
ReleasedIsOff ==
    \A c \in Callers :
        Holds(c) /\ (caller[c].pc = "leaving" \/ call[caller[c].call].over) => OffTheMap(c)
OutcomeInRange ==
    \A i \in Calls : /\ call[i].since <= world
                     /\ call[i].result \in {Failed, Pending} \cup (call[i].since..world)

Inv == /\ WellTyped
       /\ LeaderRegistered
       /\ OnlyRunningCallsRegistered
       /\ OneAttemptPerKey
       /\ HoldersAgree
       /\ HeldCallsExist
       /\ OutcomeKnown
       /\ ReleasedIsOff
       /\ OutcomeInRange

-----------------------------------------------------------------------------
\* Nothing is registered or held at first.
LEMMA InvInit == Init => Inv
<1> SUFFICES ASSUME Init PROVE Inv
  OBVIOUS
<1>1. IdleCaller \in Caller
  BY CoalescingAssumption DEF IdleCaller, Caller, CoalescingAssumption
<1>2. NewCall(0) \in Call
  BY CoalescingAssumption DEF NewCall, Call, CoalescingAssumption
<1>3. WellTyped
  BY <1>1, <1>2, CoalescingAssumption DEF WellTyped, Init, CoalescingAssumption
<1>4. \A c \in Callers : ~Holds(c) /\ ~Leads(c)
  BY DEF Init, Holds, Leads, IdleCaller
<1>5. OnlyRunningCallsRegistered
  BY DEF Init, OnlyRunningCallsRegistered
<1>6. OutcomeInRange
  BY DEF Init, OutcomeInRange, NewCall
<1> QED
  BY <1>3, <1>4, <1>5, <1>6
     DEF Inv, LeaderRegistered, OneAttemptPerKey, HoldersAgree, HeldCallsExist,
         OutcomeKnown, ReleasedIsOff

\* What one caller's step leaves of the others: everything.
LEMMA OthersStay ==
    ASSUME WellTyped, NEW c \in Callers, NEW r \in Caller,
           caller' = [caller EXCEPT ![c] = r]
    PROVE  /\ caller' \in [Callers -> Caller]
           /\ caller'[c] = r
           /\ \A d \in Callers \ {c} : caller'[d] = caller[d]
BY DEF WellTyped

\* The caller everyone starts as.
LEMMA IdleType == IdleCaller \in Caller
BY CoalescingAssumption DEF IdleCaller, Caller, CoalescingAssumption

\* A step that changes neither the map nor who holds, leads or asks what
\* keeps the part of the invariant that is about these.
Shape == /\ LeaderRegistered /\ OnlyRunningCallsRegistered /\ OneAttemptPerKey
         /\ HoldersAgree /\ HeldCallsExist

SameHolding(d) == /\ Holds(d)' <=> Holds(d)
                  /\ Leads(d)' <=> Leads(d)
                  /\ Holds(d) => /\ caller'[d].key = caller[d].key
                                 /\ caller'[d].call = caller[d].call

\* What leaves the map and the holdings alone keeps the shape.
LEMMA ShapeStays ==
    ASSUME Shape, inflight' = inflight, \A d \in Callers : SameHolding(d)
    PROVE  Shape'
<1> \A d \in Callers : Leads(d) => Holds(d)
  BY DEF Holds
<1>1. LeaderRegistered' /\ OneAttemptPerKey' /\ HoldersAgree' /\ HeldCallsExist'
  BY DEF Shape, SameHolding, LeaderRegistered, OneAttemptPerKey, HoldersAgree, HeldCallsExist
<1>2. OnlyRunningCallsRegistered'
  BY DEF Shape, SameHolding, OnlyRunningCallsRegistered, Holders
<1> QED
  BY <1>1, <1>2 DEF Shape

\* The rest of the invariant, when no call changes either.
LEMMA OutcomesStay ==
    ASSUME OutcomeKnown, ReleasedIsOff, inflight' = inflight, call' = call,
           \A d \in Callers : /\ SameHolding(d)
                              /\ Holds(d) => \/ caller'[d].pc = caller[d].pc
                                             \/ caller'[d].pc = "calling"
    PROVE  OutcomeKnown' /\ ReleasedIsOff'
BY DEF OutcomeKnown, ReleasedIsOff, OffTheMap, SameHolding

\* A caller that has not reached the lock holds nothing.
LEMMA BeginKeeps ==
    ASSUME Inv, NEW c \in Callers, NEW k \in Keys, Begin(c, k)
    PROVE  Inv'
<1> DEFINE r == [IdleCaller EXCEPT !.pc = "asking", !.key = k]
<1>1. r \in Caller /\ r.pc = "asking"
  BY IdleType DEF Caller, Inv, WellTyped
<1>2. caller' = [caller EXCEPT ![c] = r] /\ caller[c].pc = "idle"
  BY DEF Begin
<1> HIDE DEF r
<1>3. /\ caller' \in [Callers -> Caller]
      /\ caller'[c] = r
      /\ \A d \in Callers \ {c} : caller'[d] = caller[d]
  BY <1>1, <1>2, OthersStay DEF Inv
<1>4. UNCHANGED <<world, clients, hasRelay, inflight, call, asks, calls, coalesced, unsent>>
  BY DEF Begin, config_vars, counters
<1>5. WellTyped' /\ OutcomeInRange'
  BY <1>3, <1>4 DEF WellTyped, Inv, OutcomeInRange
<1>6. \A d \in Callers : /\ SameHolding(d)
                         /\ Holds(d) => caller'[d].pc = caller[d].pc
  BY <1>1, <1>2, <1>3 DEF SameHolding, Holds, Leads
<1> QED
  BY <1>4, <1>5, <1>6, ShapeStays, OutcomesStay DEF Inv, Shape

\* The leader takes its client.
LEMMA TakeClientKeeps ==
    ASSUME Inv, NEW c \in Callers, TakeClient(c)
    PROVE  Inv'
<1> DEFINE r == [caller[c] EXCEPT !.pc = "calling"]
<1>1. r \in Caller /\ r.pc = "calling" /\ r.key = caller[c].key /\ r.call = caller[c].call
  BY DEF Caller, Inv, WellTyped
<1>2. caller' = [caller EXCEPT ![c] = r] /\ caller[c].pc = "leading"
  BY DEF TakeClient
<1> HIDE DEF r
<1>3. /\ caller' \in [Callers -> Caller]
      /\ caller'[c] = r
      /\ \A d \in Callers \ {c} : caller'[d] = caller[d]
  BY <1>1, <1>2, OthersStay DEF Inv
<1>4. UNCHANGED <<world, clients, hasRelay, inflight, call, asks, calls, coalesced, unsent>>
  BY DEF TakeClient, config_vars, counters
<1>5. WellTyped' /\ OutcomeInRange'
  BY <1>3, <1>4 DEF WellTyped, Inv, OutcomeInRange
<1>6. \A d \in Callers : /\ SameHolding(d)
                         /\ caller'[d].pc = caller[d].pc \/ caller'[d].pc = "calling"
  BY <1>1, <1>2, <1>3 DEF SameHolding, Holds, Leads
<1> QED
  BY <1>4, <1>5, <1>6, ShapeStays, OutcomesStay DEF Inv, Shape

\* The outcome of a call is set by its leader, while the map names it.
Lands(c, result) ==
    /\ caller[c].pc \in {"leading", "calling"}
    /\ caller' = [caller EXCEPT ![c].pc = "landed"]
    /\ result \in {Failed} \cup (call[caller[c].call].since..world)
    /\ call' = [call EXCEPT ![caller[c].call].result = result]
    /\ calls' \in Nat /\ unsent' \in Nat
    /\ UNCHANGED <<world, config_vars, inflight, asks, coalesced>>

\* A result that lands at its call keeps the invariant.
LEMMA LandsKeeps ==
    ASSUME Inv, NEW c \in Callers, NEW result, Lands(c, result)
    PROVE  Inv'
<1> DEFINE r == [caller[c] EXCEPT !.pc = "landed"]
           i == caller[c].call
           v == [call[i] EXCEPT !.result = result]
<1>1. r \in Caller /\ r.pc = "landed" /\ r.key = caller[c].key /\ r.call = i
  BY DEF Caller, Inv, WellTyped
<1>2. caller' = [caller EXCEPT ![c] = r] /\ caller[c].pc \in {"leading", "calling"}
  BY DEF Lands
<1>3. Holds(c) /\ Leads(c) /\ i \in Calls /\ inflight[caller[c].key] = i
  BY <1>2 DEF Holds, Leads, Inv, HeldCallsExist, LeaderRegistered
<1>4. /\ v \in Call /\ v.since = call[i].since /\ v.over = call[i].over
      /\ v.result = result /\ result # Pending
      /\ result \in {Failed, Pending} \cup (v.since..world)
  <2>1. call[i] \in Call /\ world \in 0..MaxWorld
    BY <1>3 DEF Inv, WellTyped
  <2>2. result \in {Failed} \cup (call[i].since..world)
    BY DEF Lands
  <2>3. result # Pending /\ result \in (0..MaxWorld) \cup {Failed}
    BY <2>1, <2>2, CoalescingAssumption DEF Call, Failed, Pending, CoalescingAssumption
  <2> QED
    BY <2>1, <2>2, <2>3 DEF Call
<1>5. call' = [call EXCEPT ![i] = v]
  BY DEF Lands
<1> HIDE DEF r, v
<1>6. /\ caller' \in [Callers -> Caller]
      /\ caller'[c] = r
      /\ \A d \in Callers \ {c} : caller'[d] = caller[d]
  BY <1>1, <1>2, OthersStay DEF Inv
<1>7. /\ call' \in [Calls -> Call] /\ call'[i] = v
      /\ \A j \in Calls \ {i} : call'[j] = call[j]
  BY <1>3, <1>4, <1>5 DEF Inv, WellTyped
<1>8. UNCHANGED <<world, clients, hasRelay, inflight, asks, coalesced>> /\ calls' \in Nat /\ unsent' \in Nat
  BY DEF Lands, config_vars
<1>9. WellTyped' /\ OutcomeInRange'
  BY <1>4, <1>6, <1>7, <1>8 DEF WellTyped, Inv, OutcomeInRange
<1>10. \A d \in Callers : SameHolding(d)
  BY <1>1, <1>2, <1>6 DEF SameHolding, Holds, Leads
<1>11. OutcomeKnown' /\ ReleasedIsOff'
  BY <1>1, <1>3, <1>4, <1>6, <1>7, <1>8, <1>10
     DEF OutcomeKnown, ReleasedIsOff, OffTheMap, SameHolding, Inv, HeldCallsExist
<1> QED
  BY <1>8, <1>9, <1>10, <1>11, ShapeStays DEF Inv, Shape

\* A waiter joins a call whose leader still runs.
LEMMA JoinKeeps ==
    ASSUME Inv, NEW c \in Callers, Join(c)
    PROVE  Inv'
<1> DEFINE i == inflight[caller[c].key]
           r == [caller[c] EXCEPT !.pc = "waiting", !.call = i]
<1>1. caller[c] \in Caller /\ i \in Calls
  BY DEF Caller, Inv, WellTyped, Join, UnderWay
<1>2. r \in Caller /\ r.pc = "waiting" /\ r.key = caller[c].key /\ r.call = i
  BY <1>1 DEF Caller
<1>3. caller' = [caller EXCEPT ![c] = r] /\ caller[c].pc = "asking"
  BY DEF Join
<1>4. PICK d \in Callers : /\ Holds(d) /\ Leads(d)
                          /\ caller[d].call = i /\ caller[d].key = caller[c].key
  BY <1>1, CoalescingAssumption
     DEF Inv, WellTyped, Caller, OnlyRunningCallsRegistered, Holders, Join, UnderWay
<1>5. ~call[i].over
  BY <1>4 DEF Inv, ReleasedIsOff, OffTheMap
<1> HIDE DEF r
<1>6. /\ caller' \in [Callers -> Caller]
      /\ caller'[c] = r
      /\ \A e \in Callers \ {c} : caller'[e] = caller[e]
  BY <1>2, <1>3, OthersStay DEF Inv
<1>7. /\ UNCHANGED <<world, clients, hasRelay, inflight, call, calls, coalesced, unsent>>
      /\ asks' \in Nat
  BY DEF Join, config_vars, Inv, WellTyped
<1>8. WellTyped' /\ OutcomeInRange'
  BY <1>6, <1>7 DEF WellTyped, Inv, OutcomeInRange
<1>9. Holds(c)' /\ ~Leads(c)' /\ ~Holds(c) /\ ~Leads(c)
  BY <1>2, <1>3, <1>6 DEF Holds, Leads
<1>10. \A e \in Callers \ {c} : (Holds(e)' <=> Holds(e)) /\ (Leads(e)' <=> Leads(e))
  BY <1>6 DEF Holds, Leads
<1>11. LeaderRegistered' /\ OneAttemptPerKey'
  BY <1>6, <1>7, <1>9, <1>10 DEF LeaderRegistered, OneAttemptPerKey, Inv
<1>12. OnlyRunningCallsRegistered'
  BY <1>6, <1>7, <1>9, <1>10 DEF OnlyRunningCallsRegistered, Holders, Inv
<1>13. HoldersAgree' /\ HeldCallsExist'
  BY <1>1, <1>2, <1>4, <1>6, <1>7, <1>9, <1>10 DEF HoldersAgree, HeldCallsExist, Inv
<1>14. OutcomeKnown' /\ ReleasedIsOff'
  BY <1>2, <1>5, <1>6, <1>7, <1>10 DEF OutcomeKnown, ReleasedIsOff, OffTheMap, Inv
<1> QED
  BY <1>8, <1>11, <1>12, <1>13, <1>14 DEF Inv

\* A leader registers a call nobody holds.
LEMMA LeadKeeps ==
    ASSUME Inv, NEW c \in Callers, Lead(c)
    PROVE  Inv'
<1> DEFINE k == caller[c].key
<1>1. PICK i \in Calls : /\ Holders(i) = {}
                         /\ call' = [call EXCEPT ![i] = NewCall(world)]
                         /\ inflight' = [inflight EXCEPT ![k] = i]
                         /\ caller' = [caller EXCEPT ![c].pc = "leading", ![c].call = i]
  BY DEF Lead
<1> DEFINE r == [caller[c] EXCEPT !.pc = "leading", !.call = i]
<1>2. /\ r \in Caller /\ r.pc = "leading" /\ r.key = k /\ r.call = i
      /\ k \in Keys /\ world \in 0..MaxWorld
  BY DEF Caller, Inv, WellTyped
<1>3. /\ caller' = [caller EXCEPT ![c] = r] /\ caller[c].pc = "asking"
      /\ inflight[k] = NoCall
  BY <1>1 DEF Lead, UnderWay
<1>4. /\ NewCall(world) \in Call /\ NewCall(world).since = world
      /\ NewCall(world).result = Pending /\ ~NewCall(world).over
  BY <1>2 DEF NewCall, Call
<1> HIDE DEF r, k
<1>5. /\ caller' \in [Callers -> Caller]
      /\ caller'[c] = r
      /\ \A e \in Callers \ {c} : caller'[e] = caller[e]
  BY <1>2, <1>3, OthersStay DEF Inv
<1>6. /\ call' \in [Calls -> Call] /\ call'[i] = NewCall(world)
      /\ \A j \in Calls \ {i} : call'[j] = call[j]
  BY <1>1, <1>4 DEF Inv, WellTyped
<1>7. /\ inflight' \in [Keys -> Calls \cup {NoCall}] /\ inflight'[k] = i
      /\ \A l \in Keys \ {k} : inflight'[l] = inflight[l]
  BY <1>1, <1>2 DEF Inv, WellTyped
<1>8. /\ UNCHANGED <<world, clients, hasRelay, calls, coalesced, unsent>>
      /\ asks' \in Nat
  BY DEF Lead, config_vars, Inv, WellTyped
<1>9. WellTyped' /\ OutcomeInRange'
  <2>1. WellTyped'
    BY <1>5, <1>6, <1>7, <1>8 DEF WellTyped, Inv
  <2>2. OutcomeInRange'
    BY <1>4, <1>6, <1>8, <1>2 DEF Inv, OutcomeInRange
  <2> QED
    BY <2>1, <2>2
<1>10. Holds(c)' /\ Leads(c)' /\ ~Holds(c) /\ ~Leads(c)
  BY <1>2, <1>3, <1>5 DEF Holds, Leads
<1>11. \A e \in Callers \ {c} : (Holds(e)' <=> Holds(e)) /\ (Leads(e)' <=> Leads(e))
  BY <1>5 DEF Holds, Leads
<1>12. \A e \in Callers : /\ Leads(e) => Holds(e) /\ caller[e].key # k
                          /\ Holds(e) => caller[e].call \in Calls \ {i}
                          /\ caller[e].key \in Keys
  <2>1. \A e \in Callers : Holds(e) => caller[e].call \in Calls \ {i}
    BY <1>1 DEF Holders, Inv, HeldCallsExist
  <2>2. \A e \in Callers : Leads(e) => Holds(e) /\ caller[e].key # k
    BY <2>1, <1>3, CoalescingAssumption
       DEF Inv, LeaderRegistered, Holds, CoalescingAssumption
  <2> QED
    BY <2>1, <2>2 DEF Inv, WellTyped, Caller
<1>13. LeaderRegistered' /\ OneAttemptPerKey'
  BY <1>2, <1>5, <1>7, <1>10, <1>11, <1>12 DEF LeaderRegistered, OneAttemptPerKey, Inv
<1>14. OnlyRunningCallsRegistered'
  <2> SUFFICES ASSUME NEW l \in Keys, inflight'[l] # NoCall
               PROVE  (\E e \in Holders(inflight[l]) : Leads(e) /\ caller[e].key = l)'
    BY DEF OnlyRunningCallsRegistered
  <2>1. CASE l = k
    BY <2>1, <1>2, <1>5, <1>7, <1>10 DEF Holders
  <2>2. CASE l # k
    BY <2>2, <1>5, <1>7, <1>10, <1>11 DEF Holders, Inv, OnlyRunningCallsRegistered
  <2> QED
    BY <2>1, <2>2
<1>15. HoldersAgree' /\ HeldCallsExist'
  BY <1>2, <1>5, <1>10, <1>11, <1>12 DEF HoldersAgree, HeldCallsExist, Inv
<1>16. \A e \in Callers \ {c} : Holds(e) => /\ OffTheMap(e)' <=> OffTheMap(e)
                                            /\ call'[caller[e].call] = call[caller[e].call]
  BY <1>3, <1>5, <1>6, <1>7, <1>12, CoalescingAssumption DEF OffTheMap, CoalescingAssumption
<1>17. OutcomeKnown' /\ ReleasedIsOff'
  <2>1. /\ ~OffTheMap(c)' /\ caller'[c].pc = "leading" /\ caller'[c].call = i
        /\ ~call'[i].over
    BY <1>2, <1>4, <1>5, <1>6, <1>7 DEF OffTheMap
  <2> QED
    BY <2>1, <1>5, <1>11, <1>16 DEF OutcomeKnown, ReleasedIsOff, Inv
<1> QED
  BY <1>9, <1>13, <1>14, <1>15, <1>17 DEF Inv

\* The leader takes its call off the map, outcome in hand.
LEMMA EndCallKeeps ==
    ASSUME Inv, NEW c \in Callers, EndCall(c)
    PROVE  Inv'
<1> DEFINE k == caller[c].key
           i == caller[c].call
           r == [caller[c] EXCEPT !.pc = "leaving"]
<1>1. r \in Caller /\ r.pc = "leaving" /\ r.key = k /\ r.call = i /\ k \in Keys
  BY DEF Caller, Inv, WellTyped
<1>2. caller' = [caller EXCEPT ![c] = r] /\ caller[c].pc = "landed"
  BY DEF EndCall
<1>3. /\ Holds(c) /\ Leads(c) /\ i \in Calls /\ inflight[k] = i /\ i # NoCall
      /\ call[i].result # Pending
  BY <1>2, CoalescingAssumption
     DEF Holds, Leads, Inv, HeldCallsExist, LeaderRegistered, OutcomeKnown, CoalescingAssumption
<1> HIDE DEF r
<1>4. /\ caller' \in [Callers -> Caller]
      /\ caller'[c] = r
      /\ \A e \in Callers \ {c} : caller'[e] = caller[e]
  BY <1>1, <1>2, OthersStay DEF Inv
<1>5. /\ inflight' \in [Keys -> Calls \cup {NoCall}] /\ inflight'[k] = NoCall
      /\ \A l \in Keys \ {k} : inflight'[l] = inflight[l]
  BY <1>1 DEF Inv, WellTyped, EndCall, Deregister
<1>6. UNCHANGED <<world, clients, hasRelay, call, asks, calls, coalesced, unsent>>
  BY DEF EndCall, config_vars, counters
<1>7. WellTyped' /\ OutcomeInRange'
  BY <1>4, <1>5, <1>6 DEF WellTyped, Inv, OutcomeInRange
<1>8. Holds(c)' /\ ~Leads(c)'
  BY <1>1, <1>4 DEF Holds, Leads
<1>9. \A e \in Callers \ {c} : (Holds(e)' <=> Holds(e)) /\ (Leads(e)' <=> Leads(e))
  BY <1>4 DEF Holds, Leads
<1>10. \A e \in Callers \ {c} : Leads(e) => caller[e].key \in Keys \ {k}
  BY <1>3 DEF OneAttemptPerKey, Inv, WellTyped, Caller
<1>11. LeaderRegistered' /\ OneAttemptPerKey'
  BY <1>4, <1>5, <1>8, <1>9, <1>10 DEF LeaderRegistered, OneAttemptPerKey, Inv
<1>12. OnlyRunningCallsRegistered'
  <2> SUFFICES ASSUME NEW l \in Keys, inflight'[l] # NoCall
               PROVE  (\E e \in Holders(inflight[l]) : Leads(e) /\ caller[e].key = l)'
    BY DEF OnlyRunningCallsRegistered
  <2>1. l \in Keys \ {k} /\ inflight'[l] = inflight[l]
    BY <1>5
  <2>2. PICK e \in Holders(inflight[l]) : Leads(e) /\ caller[e].key = l
    BY <2>1 DEF Inv, OnlyRunningCallsRegistered
  <2>3. e # c
    BY <2>1, <2>2
  <2> QED
    BY <2>1, <2>2, <2>3, <1>4, <1>9 DEF Holders
<1>13. HoldersAgree' /\ HeldCallsExist'
  BY <1>1, <1>3, <1>4, <1>8, <1>9 DEF HoldersAgree, HeldCallsExist, Inv
<1>14. \A e \in Callers : caller[e].key \in Keys
  BY DEF Inv, WellTyped, Caller
<1>15. OutcomeKnown'
  <2> SUFFICES ASSUME NEW e \in Callers, Holds(e)', OffTheMap(e)' \/ caller'[e].pc = "landed"
               PROVE  call[caller'[e].call].result # Pending
    BY <1>6 DEF OutcomeKnown
  <2>1. CASE caller'[e].call = i
    BY <2>1, <1>3
  <2>2. CASE caller'[e].call # i
    <3>1. e # c
      BY <2>2, <1>1, <1>4
    <3>2. OffTheMap(e) \/ caller[e].pc = "landed"
      BY <2>2, <3>1, <1>3, <1>4, <1>5, <1>14 DEF OffTheMap
    <3> QED
      BY <3>1, <3>2, <1>4, <1>9 DEF Inv, OutcomeKnown
  <2> QED
    BY <2>1, <2>2
<1>16. ReleasedIsOff'
  <2> SUFFICES ASSUME NEW e \in Callers, Holds(e)',
                      caller'[e].pc = "leaving" \/ call'[caller'[e].call].over
               PROVE  OffTheMap(e)'
    BY DEF ReleasedIsOff
  <2>1. CASE e = c
    BY <2>1, <1>1, <1>3, <1>4, <1>5 DEF OffTheMap
  <2>2. CASE e # c
    <3>1. OffTheMap(e) /\ caller[e].call # NoCall
      BY <2>2, <1>4, <1>6, <1>9, CoalescingAssumption
         DEF Inv, ReleasedIsOff, HeldCallsExist, CoalescingAssumption
    <3> QED
      BY <2>2, <3>1, <1>4, <1>5, <1>14 DEF OffTheMap
  <2> QED
    BY <2>1, <2>2
<1> QED
  BY <1>7, <1>11, <1>12, <1>13, <1>15, <1>16 DEF Inv

\* Who has nothing left to lead returns, and nobody misses it: the call is
\* off the map, and it stays as it is for whoever holds it too.
Exits(c, kept) ==
    /\ Holds(c) /\ ~Leads(c) /\ OffTheMap(c)
    /\ kept \in Call
    /\ kept.result = call[caller[c].call].result /\ kept.since = call[caller[c].call].since
    /\ Drop(c, caller[c].call, kept)
    /\ caller' = [caller EXCEPT ![c] = IdleCaller]
    /\ coalesced' \in Nat
    /\ UNCHANGED <<world, config_vars, inflight, asks, calls, unsent>>

\* A caller that takes the outcome and leaves keeps the invariant.
LEMMA ExitsKeeps ==
    ASSUME Inv, NEW c \in Callers, NEW kept, Exits(c, kept)
    PROVE  Inv'
<1> DEFINE i == caller[c].call
           v == IF Holders(i) = {c} THEN NewCall(0) ELSE kept
<1>1. i \in Calls /\ Holds(c) /\ ~Leads(c) /\ OffTheMap(c)
  BY DEF Exits, Inv, HeldCallsExist
<1>2. /\ NewCall(0) \in Call /\ NewCall(0).since = 0 /\ NewCall(0).result = Pending
      /\ world \in 0..MaxWorld /\ kept \in Call
  BY CoalescingAssumption DEF Inv, WellTyped, NewCall, Call, CoalescingAssumption, Exits
<1>3. v \in Call /\ call' = [call EXCEPT ![i] = v]
  BY <1>2 DEF Exits, Drop
<1>4. /\ v.since <= world
      /\ v.result \in {Failed, Pending} \cup (v.since..world)
  BY <1>1, <1>2 DEF Exits, Inv, OutcomeInRange
<1>5. (\E e \in Callers \ {c} : Holds(e) /\ caller[e].call = i) => v = kept
  BY DEF Holders
<1> HIDE DEF v
<1>6. /\ caller' \in [Callers -> Caller]
      /\ caller'[c] = IdleCaller
      /\ \A e \in Callers \ {c} : caller'[e] = caller[e]
  BY IdleType, OthersStay DEF Inv, Exits
<1>7. /\ call' \in [Calls -> Call] /\ call'[i] = v
      /\ \A j \in Calls \ {i} : call'[j] = call[j]
  BY <1>1, <1>3 DEF Inv, WellTyped
<1>8. /\ UNCHANGED <<world, clients, hasRelay, inflight, asks, calls, unsent>>
      /\ coalesced' \in Nat
  BY DEF Exits, config_vars
<1>9. WellTyped' /\ OutcomeInRange'
  BY <1>4, <1>6, <1>7, <1>8 DEF WellTyped, Inv, OutcomeInRange
<1>10. ~Holds(c)' /\ ~Leads(c)'
  BY <1>6 DEF Holds, Leads, IdleCaller
<1>11. \A e \in Callers \ {c} : (Holds(e)' <=> Holds(e)) /\ (Leads(e)' <=> Leads(e))
  BY <1>6 DEF Holds, Leads
<1>12. LeaderRegistered' /\ OneAttemptPerKey' /\ HoldersAgree' /\ HeldCallsExist'
  BY <1>6, <1>8, <1>10, <1>11
     DEF LeaderRegistered, OneAttemptPerKey, HoldersAgree, HeldCallsExist, Inv
<1>13. OnlyRunningCallsRegistered'
  <2> SUFFICES ASSUME NEW l \in Keys, inflight'[l] # NoCall
               PROVE  (\E e \in Holders(inflight[l]) : Leads(e) /\ caller[e].key = l)'
    BY DEF OnlyRunningCallsRegistered
  <2>1. PICK e \in Holders(inflight[l]) : Leads(e) /\ caller[e].key = l
    BY <1>8 DEF Inv, OnlyRunningCallsRegistered
  <2> QED
    BY <2>1, <1>1, <1>6, <1>8, <1>11 DEF Holders
<1>14. \A e \in Callers \ {c} :
          Holds(e) => /\ call'[caller[e].call].result = call[caller[e].call].result
                      /\ OffTheMap(e)' <=> OffTheMap(e)
                      /\ caller[e].call = i => OffTheMap(e)
  <2> SUFFICES ASSUME NEW e \in Callers \ {c}, Holds(e)
               PROVE  /\ call'[caller[e].call].result = call[caller[e].call].result
                      /\ OffTheMap(e)' <=> OffTheMap(e)
                      /\ caller[e].call = i => OffTheMap(e)
    OBVIOUS
  <2>1. caller[e].call \in Calls
    BY DEF Inv, HeldCallsExist
  <2>2. call'[caller[e].call].result = call[caller[e].call].result
    BY <2>1, <1>5, <1>7 DEF Exits
  <2>3. OffTheMap(e)' <=> OffTheMap(e)
    BY <1>6, <1>8 DEF OffTheMap
  <2>4. caller[e].call = i => OffTheMap(e)
    BY <1>1 DEF OffTheMap, Inv, HoldersAgree
  <2> QED
    BY <2>2, <2>3, <2>4
<1>15. OutcomeKnown'
  BY <1>6, <1>10, <1>11, <1>14 DEF OutcomeKnown, Inv
<1>16. ReleasedIsOff'
  BY <1>6, <1>7, <1>10, <1>11, <1>14 DEF ReleasedIsOff, Inv, HeldCallsExist
<1> QED
  BY <1>9, <1>12, <1>13, <1>15, <1>16 DEF Inv

\* The steps that are left touch neither callers nor calls.
LEMMA SurroundingsKeep ==
    ASSUME Inv, ApplyRuntime \/ WorldChanges
    PROVE  Inv'
<1>1. UNCHANGED <<inflight, call, caller, asks, calls, coalesced, unsent>>
  BY DEF ApplyRuntime, WorldChanges, counters
<1>2. \A d \in Callers : SameHolding(d) /\ (Holds(d) => caller'[d].pc = caller[d].pc)
  BY <1>1 DEF SameHolding, Holds, Leads
<1>3. WellTyped'
  BY <1>1, CoalescingAssumption
     DEF ApplyRuntime, WorldChanges, config_vars, Inv, WellTyped, CoalescingAssumption
<1>4. OutcomeInRange'
  <2>1. world \in Nat /\ world' \in Nat /\ world <= world'
    BY CoalescingAssumption
       DEF ApplyRuntime, WorldChanges, Inv, WellTyped, CoalescingAssumption
  <2>2. \A j \in Calls : call[j].since \in Nat
    BY DEF Inv, WellTyped, Call
  <2> QED
    BY <1>1, <2>1, <2>2 DEF Inv, OutcomeInRange
<1> QED
  BY <1>1, <1>2, <1>3, <1>4, ShapeStays, OutcomesStay DEF Inv, Shape

\* What each step does, in the terms of the lemmas above.
LEMMA FindNoClientLands ==
    ASSUME Inv, NEW c \in Callers, FindNoClient(c)
    PROVE  Lands(c, Failed)
BY DEF FindNoClient, Lands, CallsAfter, Inv, WellTyped

\* An upstream that returns lands its result.
LEMMA UpstreamReturnsLands ==
    ASSUME Inv, NEW c \in Callers, UpstreamReturns(c)
    PROVE  \E result : Lands(c, result)
<1>1. PICK result \in {Failed} \cup (call[caller[c].call].since..world) :
              call' = [call EXCEPT ![caller[c].call].result = result]
  BY DEF UpstreamReturns
<1>2. /\ calls' \in Nat /\ unsent' \in Nat
      /\ UNCHANGED <<world, config_vars, inflight, asks, coalesced>>
  BY DEF UpstreamReturns, CallsAfter, Inv, WellTyped
<1>3. Lands(c, result)
  BY <1>1, <1>2 DEF UpstreamReturns, Lands
<1> QED
  BY <1>3

\* A leader that leaves takes the outcome of its call.
LEMMA LeaveExits ==
    ASSUME Inv, NEW c \in Callers, Leave(c)
    PROVE  Exits(c, [call[caller[c].call] EXCEPT !.over = TRUE])
<1>1. Holds(c) /\ ~Leads(c) /\ caller[c].call \in Calls
  BY DEF Leave, Holds, Leads, Inv, HeldCallsExist
<1>2. OffTheMap(c)
  BY <1>1 DEF Leave, Inv, ReleasedIsOff
<1>3. call[caller[c].call] \in Call
  BY <1>1 DEF Inv, WellTyped
<1> QED
  BY <1>1, <1>2, <1>3
     DEF Leave, Exits, ReleaseWaiters, Inv, WellTyped, Call, config_vars, counters

\* A waiter that wakes takes the outcome of its call.
LEMMA WakeExits ==
    ASSUME Inv, NEW c \in Callers, Wake(c)
    PROVE  Exits(c, call[caller[c].call])
<1>1. Holds(c) /\ ~Leads(c) /\ caller[c].call \in Calls
  BY DEF Wake, Holds, Leads, Inv, HeldCallsExist
<1>2. OffTheMap(c)
  BY <1>1 DEF Wake, WaitIsOver, Inv, ReleasedIsOff
<1>3. call[caller[c].call] \in Call
  BY <1>1 DEF Inv, WellTyped
<1> QED
  BY <1>1, <1>2, <1>3 DEF Wake, Exits, Inv, WellTyped, config_vars

\* Every step keeps the invariant.
LEMMA InvStep == Inv /\ [Next]_vars => Inv'
<1> SUFFICES ASSUME Inv, [Next]_vars PROVE Inv'
  OBVIOUS
<1>1. ASSUME NEW c \in Callers, NEW k \in Keys, Begin(c, k) PROVE Inv'
  BY <1>1, BeginKeeps
<1>2. ASSUME NEW c \in Callers, Join(c) PROVE Inv'
  BY <1>2, JoinKeeps
<1>3. ASSUME NEW c \in Callers, Lead(c) PROVE Inv'
  BY <1>3, LeadKeeps
<1>4. ASSUME NEW c \in Callers, TakeClient(c) PROVE Inv'
  BY <1>4, TakeClientKeeps
<1>5. ASSUME NEW c \in Callers, FindNoClient(c) PROVE Inv'
  BY <1>5, FindNoClientLands, LandsKeeps
<1>6. ASSUME NEW c \in Callers, UpstreamReturns(c) PROVE Inv'
  BY <1>6, UpstreamReturnsLands, LandsKeeps
<1>7. ASSUME NEW c \in Callers, EndCall(c) PROVE Inv'
  BY <1>7, EndCallKeeps
<1>8. ASSUME NEW c \in Callers, Leave(c) PROVE Inv'
  BY <1>8, LeaveExits, ExitsKeeps
<1>9. ASSUME NEW c \in Callers, Wake(c) PROVE Inv'
  BY <1>9, WakeExits, ExitsKeeps
<1>10. ASSUME ApplyRuntime \/ WorldChanges PROVE Inv'
  BY <1>10, SurroundingsKeep
<1>11. CASE UNCHANGED vars
  <2>1. UNCHANGED <<world, clients, hasRelay, inflight, call, caller,
                    asks, calls, coalesced, unsent>>
    BY <1>11 DEF vars, config_vars, counters
  <2>2. \A d \in Callers : SameHolding(d) /\ (Holds(d) => caller'[d].pc = caller[d].pc)
    BY <2>1 DEF SameHolding, Holds, Leads
  <2> QED
    BY <2>1, <2>2, ShapeStays, OutcomesStay DEF Inv, Shape, WellTyped, OutcomeInRange
<1> QED
  BY <1>1, <1>2, <1>3, <1>4, <1>5, <1>6, <1>7, <1>8, <1>9, <1>10, <1>11 DEF Next, Proceed

\* Inv is an invariant of attemptUpstream.
THEOREM InvHolds == Spec => []Inv
<1>1. Inv /\ [Next]_vars => Inv'
  BY InvStep
<1> QED
  BY InvInit, <1>1, PTL DEF Spec

\* Every variable keeps its type: attemptUpstream never uses a call object or
\* a key it does not have, and never a nil call.
THEOREM TypeCorrect == Spec => []TypeOK
<1>1. Inv => TypeOK
  BY DEF Inv, TypeOK
<1> QED
  BY <1>1, InvHolds, PTL

\* attemptUpstream runs at most one upstream attempt per key at a time.
THEOREM OneAttempt == Spec => []OneAttemptPerKey
<1>1. Inv => OneAttemptPerKey
  BY DEF Inv
<1> QED
  BY <1>1, InvHolds, PTL

\* r.inflight never names a call whose leader has gone: nobody joins an
\* attempt that is over.
THEOREM RunningRegistered == Spec => []OnlyRunningCallsRegistered
<1>1. Inv => OnlyRunningCallsRegistered
  BY DEF Inv
<1> QED
  BY <1>1, InvHolds, PTL

-----------------------------------------------------------------------------
\* The state of SingleFlight that a state of Coalescing stands for.
FlightBar == [k \in Keys |-> FlightOf(k)]
GotBar == [c \in Callers |-> OutcomeOf(c)]

\* A registered call has a leader, is the only one its holders know, and its
\* holders all asked for the key it is registered for.
LEMMA Registered ==
    ASSUME Inv, NEW k \in Keys, inflight[k] # NoCall
    PROVE  /\ inflight[k] \in Calls
           /\ Holders(inflight[k]) # {}
           /\ \A d \in Holders(inflight[k]) : caller[d].key = k /\ ~OffTheMap(d)
BY DEF Inv, WellTyped, OnlyRunningCallsRegistered, Holders, HoldersAgree, OffTheMap, Leads, Holds

\* What neither registers, lands nor returns is invisible to the callers.
LEMMA Invisible ==
    ASSUME Inv, UNCHANGED inflight, \A d \in Callers : SameHolding(d),
           \A j \in Calls : call'[j].since = call[j].since,
           \A d \in Callers : Holds(d) /\ OffTheMap(d) =>
               call'[caller[d].call].result = call[caller[d].call].result
    PROVE  FlightBar' = FlightBar /\ GotBar' = GotBar
<1>1. ASSUME NEW k \in Keys PROVE FlightOf(k)' = FlightOf(k)
  <2>1. ASSUME NEW j PROVE Holders(j)' = Holders(j)
    BY DEF Holders, SameHolding
  <2>2. inflight[k] # NoCall => inflight[k] \in Calls
    BY DEF Inv, WellTyped
  <2> QED
    BY <2>1, <2>2 DEF FlightOf
<1>2. ASSUME NEW d \in Callers PROVE OutcomeOf(d)' = OutcomeOf(d)
  BY DEF OutcomeOf, OffTheMap, SameHolding
<1> QED
  BY <1>1, <1>2 DEF FlightBar, GotBar

\* The outcome a caller has changes with nobody else's joining or returning.
LEMMA OutcomeStays ==
    ASSUME Inv, NEW d \in Callers, UNCHANGED <<inflight, caller[d]>>,
           Holds(d) /\ OffTheMap(d) =>
               call'[caller[d].call].result = call[caller[d].call].result
    PROVE  OutcomeOf(d)' = OutcomeOf(d)
BY DEF OutcomeOf, OffTheMap, Holds, Leads

\* What asking looks like, key by key and caller by caller.
LEMMA AskSeen ==
    ASSUME NEW c \in Callers, NEW k \in Keys, world' = world,
           OutcomeOf(c) = Pending, OutcomeOf(c)' = Pending,
           \A d \in Callers \ {c} : OutcomeOf(d)' = OutcomeOf(d),
           \A l \in Keys : c \notin FlightOf(l).members,
           \A l \in Keys \ {k} : FlightOf(l)' = FlightOf(l),
           FlightOf(k)' = [members |-> FlightOf(k).members \cup {c},
                           since |-> IF FlightOf(k) = SF!NoFlight THEN world
                                     ELSE FlightOf(k).since]
    PROVE  SF!Ask(c, k)
<1>1. FlightBar' = [FlightBar EXCEPT ![k] =
          [members |-> @.members \cup {c},
           since |-> IF @ = SF!NoFlight THEN world ELSE @.since]]
  <2> DEFINE asked == [members |-> FlightOf(k).members \cup {c},
                       since |-> IF FlightOf(k) = SF!NoFlight THEN world
                                 ELSE FlightOf(k).since]
  <2>1. FlightBar[k] = FlightOf(k)
    BY DEF FlightBar
  <2> HIDE DEF asked
  <2>2. FlightBar' = [FlightBar EXCEPT ![k] = asked]
    BY DEF FlightBar, asked
  <2> QED
    BY <2>1, <2>2 DEF asked
<1>2. GotBar' = GotBar
  BY DEF GotBar
<1>3. SF!Idle(c)
  BY DEF SF!Idle, SF!Nothing, Pending
<1> QED
  BY <1>1, <1>2, <1>3 DEF SF!Ask, FlightBar, GotBar

\* Joining or leading an attempt is asking.
LEMMA JoinAsks ==
    ASSUME Inv, NEW c \in Callers, Join(c)
    PROVE  \E k \in Keys : SF!Ask(c, k)
<1>0. PICK k \in Keys, i \in Calls : k = caller[c].key /\ i = inflight[k]
  BY DEF Inv, WellTyped, Caller, Join, UnderWay
<1>1. i = inflight[k] /\ i # NoCall /\ caller[c].pc = "asking" /\ ~Holds(c)
  BY <1>0, CoalescingAssumption DEF Join, Holds, Leads, CoalescingAssumption
<1>2. UNCHANGED <<world, inflight, call>>
  BY DEF Join
<1>3. /\ caller'[c].pc = "waiting" /\ caller'[c].key = k /\ caller'[c].call = i
      /\ \A d \in Callers \ {c} : caller'[d] = caller[d]
  BY <1>0 DEF Join, Inv, WellTyped, Caller
<1>4. \A d \in Callers \ {c} : OutcomeOf(d)' = OutcomeOf(d)
  BY <1>2, <1>3, OutcomeStays
<1>5. OutcomeOf(c) = Pending /\ OutcomeOf(c)' = Pending
  BY <1>1, <1>2, <1>3 DEF OutcomeOf
<1>6. Holders(i)' = Holders(i) \cup {c}
  BY <1>3 DEF Holders, Holds, Leads
<1>7. \A j : j # i => Holders(j)' = Holders(j)
  BY <1>1, <1>3 DEF Holders, Holds, Leads
<1>8. \A l \in Keys \ {k} : inflight[l] # NoCall => inflight[l] # i
  BY <1>1, Registered
<1>9. \A l \in Keys \ {k} : FlightOf(l)' = FlightOf(l)
  BY <1>2, <1>7, <1>8 DEF FlightOf
<1>10. /\ FlightOf(k) = [members |-> Holders(i), since |-> call[i].since]
       /\ FlightOf(k)' = [members |-> Holders(i) \cup {c}, since |-> call[i].since]
       /\ Holders(i) # {}
  BY <1>1, <1>2, <1>6, Registered DEF FlightOf
<1>11. \A l \in Keys : c \notin FlightOf(l).members
  BY <1>1 DEF FlightOf, Holders
<1>12. FlightOf(k) # [members |-> {}, since |-> 0]
  BY <1>10
<1>13. FlightOf(k)' = [members |-> FlightOf(k).members \cup {c},
                       since |-> IF FlightOf(k) = SF!NoFlight THEN world
                                 ELSE FlightOf(k).since]
  BY <1>10, <1>12 DEF SF!NoFlight
<1>14. SF!Ask(c, k)
  BY <1>2, <1>4, <1>5, <1>9, <1>11, <1>13, AskSeen
<1> QED
  BY <1>14

\* To lead is to ask with no attempt under way.
LEMMA LeadAsks ==
    ASSUME Inv, NEW c \in Callers, Lead(c)
    PROVE  \E k \in Keys : SF!Ask(c, k)
<1>0. PICK k \in Keys : k = caller[c].key
  BY DEF Inv, WellTyped, Caller
<1>1. PICK i \in Calls : /\ Holders(i) = {}
                         /\ call' = [call EXCEPT ![i] = NewCall(world)]
                         /\ inflight' = [inflight EXCEPT ![k] = i]
                         /\ caller' = [caller EXCEPT ![c].pc = "leading", ![c].call = i]
  BY <1>0 DEF Lead
<1>2. /\ inflight[k] = NoCall /\ i # NoCall
      /\ caller[c].pc = "asking" /\ ~Holds(c) /\ world' = world
  BY <1>0, CoalescingAssumption
     DEF Inv, WellTyped, Caller, Lead, UnderWay, Holds, Leads, CoalescingAssumption
<1>3. /\ caller'[c].pc = "leading" /\ caller'[c].key = k /\ caller'[c].call = i
      /\ \A d \in Callers \ {c} : caller'[d] = caller[d]
  BY <1>0, <1>1 DEF Inv, WellTyped, Caller
<1>4. /\ inflight'[k] = i
      /\ \A l \in Keys \ {k} : inflight'[l] = inflight[l]
      /\ call'[i].since = world
      /\ \A j \in Calls \ {i} : call'[j] = call[j]
  BY <1>1, <1>2 DEF Inv, WellTyped, NewCall
<1>5. \A d \in Callers \ {c} : Holds(d) => /\ caller[d].call \in Calls \ {i}
                                           /\ OffTheMap(d)' <=> OffTheMap(d)
  <2> SUFFICES ASSUME NEW d \in Callers \ {c}, Holds(d)
               PROVE  caller[d].call \in Calls \ {i} /\ (OffTheMap(d)' <=> OffTheMap(d))
    OBVIOUS
  <2>1. caller[d].call \in Calls \ {i} /\ caller[d].key \in Keys
    BY <1>1 DEF Holders, Inv, HeldCallsExist, WellTyped, Caller
  <2> QED
    BY <2>1, <1>2, <1>3, <1>4, CoalescingAssumption DEF OffTheMap, CoalescingAssumption
<1>6. ASSUME NEW d \in Callers \ {c} PROVE OutcomeOf(d)' = OutcomeOf(d)
  <2>1. caller'[d] = caller[d] /\ (Holds(d)' <=> Holds(d))
    BY <1>3 DEF Holds, Leads
  <2>2. Holds(d) => call'[caller[d].call] = call[caller[d].call]
    BY <1>4, <1>5
  <2> QED
    BY <2>1, <2>2, <1>5 DEF OutcomeOf, OffTheMap
<1>7. OutcomeOf(c) = Pending /\ OutcomeOf(c)' = Pending
  BY <1>2, <1>3, <1>4 DEF OutcomeOf
<1>8. Holders(i)' = {c}
  BY <1>1, <1>3 DEF Holders, Holds, Leads
<1>9. \A j : j # i => Holders(j)' = Holders(j)
  BY <1>2, <1>3 DEF Holders, Holds, Leads
<1>10. \A l \in Keys \ {k} : inflight[l] # NoCall => inflight[l] \in Calls \ {i}
  BY <1>1, Registered
<1>11. \A l \in Keys \ {k} : FlightOf(l)' = FlightOf(l)
  BY <1>4, <1>9, <1>10 DEF FlightOf
<1>12. /\ FlightOf(k) = [members |-> {}, since |-> 0]
       /\ FlightOf(k)' = [members |-> {c}, since |-> world]
  BY <1>2, <1>4, <1>8 DEF FlightOf
<1>13. \A l \in Keys : c \notin FlightOf(l).members
  BY <1>2 DEF FlightOf, Holders
<1>14. FlightOf(k)' = [members |-> FlightOf(k).members \cup {c},
                       since |-> IF FlightOf(k) = SF!NoFlight THEN world
                                 ELSE FlightOf(k).since]
  BY <1>12 DEF SF!NoFlight
<1>15. SF!Ask(c, k)
  BY <1>2, <1>6, <1>7, <1>11, <1>13, <1>14, AskSeen
<1> QED
  BY <1>15

\* Taking the call off the map gives everyone who holds it its outcome.
LEMMA EndCallLands ==
    ASSUME Inv, NEW c \in Callers, EndCall(c)
    PROVE  \E k \in Keys, outcome \in {Failed} \cup (0..world) : SF!Land(k, outcome)
<1>. PICK k \in Keys, i \in Calls : k = caller[c].key /\ i = caller[c].call
  BY DEF EndCall, Inv, WellTyped, Caller, HeldCallsExist, Holds, Leads
<1>. PICK outcome : outcome = call[i].result
  OBVIOUS
<1>0. k = caller[c].key /\ i = caller[c].call /\ outcome = call[i].result
  OBVIOUS
<1>1. /\ i # NoCall /\ inflight[k] = i
      /\ caller[c].pc = "landed" /\ Holds(c)
  BY <1>0, CoalescingAssumption
     DEF EndCall, Holds, Leads, Inv, LeaderRegistered, CoalescingAssumption
<1>2. UNCHANGED <<world, call>>
  BY DEF EndCall
<1>3. /\ caller'[c].pc = "leaving" /\ caller'[c].key = k /\ caller'[c].call = i
      /\ \A d \in Callers \ {c} : caller'[d] = caller[d]
  BY <1>0 DEF EndCall, Inv, WellTyped, Caller
<1>4. inflight'[k] = NoCall /\ \A l \in Keys \ {k} : inflight'[l] = inflight[l]
  BY <1>0 DEF EndCall, Deregister, Inv, WellTyped
<1>5. /\ outcome \in {Failed} \cup (call[i].since..world)
      /\ call[i].since \in Nat
  <2>1. outcome # Pending
    BY <1>0, <1>1 DEF Inv, OutcomeKnown
  <2> QED
    BY <2>1, <1>0 DEF Inv, OutcomeInRange, WellTyped, Call
<1>6. \A d \in Callers : Holds(d)' <=> Holds(d)
  BY <1>1, <1>3 DEF Holds, Leads
<1>7. \A d \in Callers : /\ caller'[d].key = caller[d].key
                         /\ caller'[d].call = caller[d].call
                         /\ caller[d].key \in Keys
  BY <1>0, <1>3 DEF Inv, WellTyped, Caller
<1>8. \A j : Holders(j)' = Holders(j)
  BY <1>6, <1>7 DEF Holders
<1>9. \A l \in Keys \ {k} : FlightOf(l)' = FlightOf(l)
  BY <1>2, <1>4, <1>8 DEF FlightOf
<1>10. /\ FlightOf(k) = [members |-> Holders(i), since |-> call[i].since]
       /\ FlightOf(k)' = [members |-> {}, since |-> 0]
       /\ c \in Holders(i)
  BY <1>0, <1>1, <1>4 DEF FlightOf, Holders
<1>11. ASSUME NEW d \in Holders(i) PROVE OutcomeOf(d)' = outcome
  <2>1. caller[d].key = k
    BY <1>0, <1>1 DEF Inv, HoldersAgree, Holders
  <2> QED
    BY <2>1, <1>0, <1>1, <1>2, <1>4, <1>6, <1>7 DEF OutcomeOf, Holders
<1>12. ASSUME NEW d \in Callers \ Holders(i) PROVE OutcomeOf(d)' = OutcomeOf(d)
  <2>1. Holds(d) => caller[d].call # i /\ caller[d].call # NoCall
    BY CoalescingAssumption DEF Holders, Inv, HeldCallsExist, CoalescingAssumption
  <2> QED
    BY <2>1, <1>1, <1>2, <1>4, <1>6, <1>7 DEF OutcomeOf
<1>13. FlightOf(k) # [members |-> {}, since |-> 0]
  BY <1>10
<1>14. SF!Land(k, outcome)
  <2>1. FlightBar' = [FlightBar EXCEPT ![k] = SF!NoFlight]
    BY <1>9, <1>10 DEF FlightBar, SF!NoFlight
  <2>2. GotBar' = [d \in Callers |-> IF d \in FlightBar[k].members THEN outcome ELSE GotBar[d]]
    BY <1>10, <1>11, <1>12 DEF GotBar, FlightBar
  <2>3. /\ FlightBar[k] # SF!NoFlight
        /\ outcome = SF!Failed \/ outcome \in FlightBar[k].since..world
    BY <1>5, <1>10, <1>13 DEF FlightBar, SF!NoFlight, SF!Failed, Failed
  <2> QED
    BY <2>1, <2>2, <2>3, <1>2 DEF SF!Land, FlightBar, GotBar
<1>15. outcome \in {Failed} \cup (0..world)
  BY <1>5
<1> QED
  BY <1>14, <1>15

\* Leaving and waking return the outcome.
LEMMA ExitsReturns ==
    ASSUME Inv, NEW c \in Callers, NEW kept, Exits(c, kept)
    PROVE  SF!Return(c)
<1> DEFINE i == caller[c].call
           v == IF Holders(i) = {c} THEN NewCall(0) ELSE kept
<1>1. i \in Calls /\ Holds(c) /\ OffTheMap(c)
  BY DEF Exits, Inv, HeldCallsExist
<1>2. UNCHANGED <<world, inflight>>
  BY DEF Exits
<1>3. /\ caller'[c] = IdleCaller /\ ~Holds(c)'
      /\ \A d \in Callers \ {c} : caller'[d] = caller[d]
  BY IdleType, OthersStay DEF Inv, Exits, IdleCaller, Holds, Leads
<1>4. call'[i] = v /\ \A j \in Calls \ {i} : call'[j] = call[j]
  BY <1>1 DEF Exits, Drop, Inv, WellTyped
<1>5. OutcomeOf(c) # Pending /\ OutcomeOf(c)' = Pending
  BY <1>1, <1>3 DEF OutcomeOf, OffTheMap, Inv, OutcomeKnown
<1>6. ASSUME NEW d \in Callers \ {c} PROVE OutcomeOf(d)' = OutcomeOf(d)
  <2>1. Holds(d) => caller[d].call \in Calls
    BY DEF Inv, HeldCallsExist
  <2>2. Holds(d) /\ caller[d].call = i => v.result = call[i].result
    BY DEF Holders, Exits
  <2> QED
    BY <2>1, <2>2, <1>2, <1>3, <1>4, OutcomeStays
<1>7. ASSUME NEW l \in Keys PROVE FlightOf(l)' = FlightOf(l)
  <2>1. CASE inflight[l] = NoCall
    BY <2>1, <1>2 DEF FlightOf
  <2>2. CASE inflight[l] # NoCall
    <3>1. inflight[l] \in Calls \ {i}
      BY <2>2, <1>1, Registered DEF Holders
    <3>2. Holders(inflight[l])' = Holders(inflight[l])
      BY <3>1, <1>2, <1>3 DEF Holders, Holds, Leads
    <3> QED
      BY <2>2, <3>1, <3>2, <1>2, <1>4 DEF FlightOf
  <2> QED
    BY <2>1, <2>2
<1> QED
  BY <1>2, <1>5, <1>6, <1>7 DEF SF!Return, SF!Nothing, Pending

\* Landing the outcome in the call object is invisible: it is still on the
\* map, and nobody reads it before it is off.
LEMMA LandsInvisible ==
    ASSUME Inv, NEW c \in Callers, NEW result, Lands(c, result)
    PROVE  FlightBar' = FlightBar /\ GotBar' = GotBar
<1>1. PICK i \in Calls : i = caller[c].call
  BY DEF Lands, Inv, HeldCallsExist, Holds, Leads
<1>2. Holds(c) /\ ~OffTheMap(c)
  BY DEF Lands, Holds, Leads, Inv, LeaderRegistered, OffTheMap
<1>3. /\ call'[i].since = call[i].since
      /\ \A j \in Calls \ {i} : call'[j] = call[j]
  <2>1. call[i] \in Call
    BY DEF Inv, WellTyped
  <2> QED
    BY <2>1, <1>1 DEF Lands, Inv, WellTyped, Call
<1>4. \A d \in Callers : SameHolding(d)
  BY DEF Lands, Inv, WellTyped, Caller, SameHolding, Holds, Leads
<1>5. \A d \in Callers : Holds(d) /\ OffTheMap(d) => caller[d].call \in Calls \ {i}
  BY <1>1, <1>2 DEF Inv, HoldersAgree, HeldCallsExist, OffTheMap
<1>6. UNCHANGED inflight
  BY DEF Lands
<1> QED
  BY <1>3, <1>4, <1>5, <1>6, Invisible

\* Every step of attemptUpstream is a step of SingleFlight or a stutter.
LEMMA StepImplements == Inv /\ [Next]_vars => [SF!Next]_(SF!vars)
<1> SUFFICES ASSUME Inv, [Next]_vars PROVE [SF!Next]_(SF!vars)
  OBVIOUS
<1>a. ASSUME world' = world, FlightBar' = FlightBar, GotBar' = GotBar
      PROVE  UNCHANGED SF!vars
  BY <1>a DEF SF!vars, FlightBar, GotBar
<1>b. ASSUME UNCHANGED <<inflight, call>>, \A d \in Callers : SameHolding(d)
      PROVE  FlightBar' = FlightBar /\ GotBar' = GotBar
  BY <1>b, Invisible
<1>1. ASSUME NEW c \in Callers, NEW k \in Keys, Begin(c, k) PROVE UNCHANGED SF!vars
  <2>1. \A d \in Callers : SameHolding(d)
    BY <1>1 DEF Begin, Inv, WellTyped, Caller, SameHolding, Holds, Leads, IdleCaller
  <2> QED
    BY <1>1, <2>1, <1>a, <1>b DEF Begin
<1>2. ASSUME NEW c \in Callers, Join(c) PROVE SF!Next
  BY <1>2, JoinAsks DEF SF!Next
<1>3. ASSUME NEW c \in Callers, Lead(c) PROVE SF!Next
  BY <1>3, LeadAsks DEF SF!Next
<1>4. ASSUME NEW c \in Callers, TakeClient(c) PROVE UNCHANGED SF!vars
  <2>1. \A d \in Callers : SameHolding(d)
    BY <1>4 DEF TakeClient, Inv, WellTyped, Caller, SameHolding, Holds, Leads
  <2> QED
    BY <1>4, <2>1, <1>a, <1>b DEF TakeClient
<1>5. ASSUME NEW c \in Callers, NEW result, Lands(c, result) PROVE UNCHANGED SF!vars
  BY <1>5, <1>a, LandsInvisible DEF Lands
<1>6. ASSUME NEW c \in Callers, FindNoClient(c) PROVE UNCHANGED SF!vars
  BY <1>6, <1>5, FindNoClientLands
<1>7. ASSUME NEW c \in Callers, UpstreamReturns(c) PROVE UNCHANGED SF!vars
  BY <1>7, <1>5, UpstreamReturnsLands
<1>8. ASSUME NEW c \in Callers, EndCall(c) PROVE SF!Next
  BY <1>8, EndCallLands DEF SF!Next, SF!Failed, Failed
<1>9. ASSUME NEW c \in Callers, Leave(c) PROVE SF!Next
  BY <1>9, LeaveExits, ExitsReturns DEF SF!Next
<1>10. ASSUME NEW c \in Callers, Wake(c) PROVE SF!Next
  BY <1>10, WakeExits, ExitsReturns DEF SF!Next
<1>11. ASSUME UNCHANGED <<inflight, call, caller>>
       PROVE  FlightBar' = FlightBar /\ GotBar' = GotBar
  BY <1>11, <1>b DEF SameHolding, Holds, Leads
<1>12. CASE ApplyRuntime
  BY <1>12, <1>11, <1>a DEF ApplyRuntime
<1>13. CASE WorldChanges
  <2>1. FlightBar' = FlightBar /\ GotBar' = GotBar
    BY <1>13, <1>11 DEF WorldChanges
  <2>2. SF!WorldChanges
    BY <2>1, <1>13 DEF WorldChanges, SF!WorldChanges, FlightBar, GotBar
  <2> QED
    BY <2>2 DEF SF!Next
<1>14. CASE UNCHANGED vars
  BY <1>14, <1>11, <1>a DEF vars
<1> QED
  BY <1>1, <1>2, <1>3, <1>4, <1>6, <1>7, <1>8, <1>9, <1>10, <1>12, <1>13, <1>14
     DEF Next, Proceed

\* attemptUpstream implements SingleFlight: whoever asks while an attempt for
\* the key runs gets the outcome of that attempt, and nothing else.
THEOREM Coalesces == Spec => ImplementsSingleFlight
<1>1. Init => SF!Init
  BY DEF Init, SF!Init, SF!NoFlight, SF!Nothing, FlightOf, OutcomeOf, Holds, Leads,
         IdleCaller, Pending
<1>2. Inv /\ [Next]_vars => [SF!Next]_(SF!vars)
  BY StepImplements
<1> QED
  BY <1>1, <1>2, InvHolds, PTL DEF Spec, ImplementsSingleFlight, SF!Spec

-----------------------------------------------------------------------------
\* The callers that were counted as asking and not yet as anything else.
Uncounted == {c \in Callers : caller[c].pc \in {"leading", "calling", "waiting"}}

\* One caller more or less is one more or less uncounted.
LEMMA CountOne ==
    ASSUME NEW S \in SUBSET Callers, NEW c \in Callers
    PROVE  /\ Cardinality(S) \in Nat
           /\ c \notin S => Cardinality(S \cup {c}) = Cardinality(S) + 1
           /\ c \in S => Cardinality(S \ {c}) = Cardinality(S) - 1
<1>1. IsFiniteSet(S)
  BY FS_Subset, CoalescingAssumption DEF CoalescingAssumption
<1> QED
  BY <1>1, FS_CardinalityType, FS_AddElement, FS_RemoveElement

\* The counters keep step with the callers.
LEMMA CountsStep == Inv /\ CountsPartition /\ [Next]_vars => CountsPartition'
<1> SUFFICES ASSUME Inv, asks = calls + coalesced + unsent + Cardinality(Uncounted), [Next]_vars
             PROVE  asks' = calls' + coalesced' + unsent' + Cardinality(Uncounted')
  BY DEF CountsPartition, Uncounted
<1>1. /\ asks \in Nat /\ calls \in Nat /\ coalesced \in Nat /\ unsent \in Nat
      /\ Uncounted \in SUBSET Callers /\ caller \in [Callers -> Caller]
  BY DEF Inv, WellTyped, Uncounted
<1>2. ASSUME NEW c \in Callers, c \notin Uncounted, Uncounted' = Uncounted \cup {c},
             asks' = asks + 1, UNCHANGED <<calls, coalesced, unsent>>
      PROVE  asks' = calls' + coalesced' + unsent' + Cardinality(Uncounted')
  BY <1>1, <1>2, CountOne
<1>3. ASSUME NEW c \in Callers, c \in Uncounted, Uncounted' = Uncounted \ {c},
             asks' = asks,
             calls' + coalesced' + unsent' = calls + coalesced + unsent + 1
      PROVE  asks' = calls' + coalesced' + unsent' + Cardinality(Uncounted')
  BY <1>1, <1>3, CountOne
<1>4. ASSUME Uncounted' = Uncounted, UNCHANGED counters
      PROVE  asks' = calls' + coalesced' + unsent' + Cardinality(Uncounted')
  BY <1>4 DEF counters
<1>5. ASSUME NEW c \in Callers, NEW k \in Keys, Begin(c, k)
      PROVE  Uncounted' = Uncounted /\ UNCHANGED counters
  BY <1>1, <1>5 DEF Begin, Uncounted, IdleCaller
<1>6. ASSUME NEW c \in Callers, Join(c) \/ Lead(c)
      PROVE  /\ c \notin Uncounted /\ Uncounted' = Uncounted \cup {c}
             /\ asks' = asks + 1 /\ UNCHANGED <<calls, coalesced, unsent>>
  BY <1>1, <1>6 DEF Join, Lead, Uncounted, Caller
<1>7. ASSUME NEW c \in Callers, TakeClient(c) \/ EndCall(c) \/ Leave(c)
      PROVE  Uncounted' = Uncounted /\ UNCHANGED counters
  BY <1>1, <1>7 DEF TakeClient, EndCall, Leave, Uncounted, Caller, IdleCaller
<1>8. ASSUME NEW c \in Callers, FindNoClient(c) \/ UpstreamReturns(c) \/ Wake(c)
      PROVE  /\ c \in Uncounted /\ Uncounted' = Uncounted \ {c} /\ asks' = asks
             /\ calls' + coalesced' + unsent' = calls + coalesced + unsent + 1
  <2>1. c \in Uncounted /\ Uncounted' = Uncounted \ {c}
    <3>1. CASE FindNoClient(c) \/ UpstreamReturns(c)
      BY <1>1, <3>1 DEF FindNoClient, UpstreamReturns, Uncounted, Caller
    <3>2. CASE Wake(c)
      BY <1>1, <3>2 DEF Wake, Uncounted, IdleCaller
    <3> QED
      BY <1>8, <3>1, <3>2
  <2>2. asks' = asks /\ calls' + coalesced' + unsent' = calls + coalesced + unsent + 1
    BY <1>1, <1>8 DEF FindNoClient, UpstreamReturns, Wake, CallsAfter
  <2> QED
    BY <2>1, <2>2
<1>9. CASE ApplyRuntime \/ WorldChanges \/ UNCHANGED vars
  <2>1. Uncounted' = Uncounted /\ UNCHANGED counters
    BY <1>9 DEF ApplyRuntime, WorldChanges, vars, Uncounted
  <2> QED
    BY <2>1, <1>4
<1> QED
  BY <1>2, <1>3, <1>4, <1>5, <1>6, <1>7, <1>8, <1>9 DEF Next, Proceed

\* Every call of attemptUpstream ends up in exactly one of
\* powerdns_upstream_calls_total, powerdns_upstream_coalesced_total and the
\* early returns of callUpstream.
THEOREM CountsPartitionHolds == Spec => []CountsPartition
<1>1. Init => CountsPartition
  <2> SUFFICES ASSUME Init PROVE CountsPartition
    OBVIOUS
  <2>1. Uncounted = {}
    BY DEF Init, IdleCaller, Uncounted
  <2>2. Cardinality(Uncounted) = 0
    BY <2>1, FS_EmptySet
  <2>3. asks = calls + coalesced + unsent + Cardinality(Uncounted)
    BY <2>2 DEF Init
  <2> QED
    BY <2>3 DEF CountsPartition, Uncounted
<1>2. Inv /\ CountsPartition /\ [Next]_vars => CountsPartition'
  BY CountsStep
<1> QED
  BY <1>1, <1>2, InvHolds, PTL DEF Spec
=============================================================================
