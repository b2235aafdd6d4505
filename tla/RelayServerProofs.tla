-------------------------- MODULE RelayServerProofs --------------------------
(***************************************************************************)
(* Theorems about RelayServer, for any number of handlers, sources, keys   *)
(* and reloads.  A waiter has no timer: it keeps its deadline because      *)
(* somebody with an earlier one still leads the call it waits for, and     *)
(* time stops for nobody but those who wait.                               *)
(* A limiter lets less than twice its limit through in a window's time, and*)
(* the coalescing implements SingleFlight.                                 *)
(***************************************************************************)
EXTENDS RelayServer, FiniteSetTheorems, SequenceTheorems, TLAPS

\* The map only names calls that somebody leads, for the key they are under.
Registered ==
    \A k \in Keys : inflight[k] # NoCall =>
        \E d \in Requests : /\ Leads(d)
                            /\ request[d].key = k
                            /\ request[d].call = inflight[k]

\* A deadline is set when the request may ask, and no time passes until it waits.
DeadlineSound ==
    \A r \in Requests :
        /\ request[r].pc \in {"asking", "leading"} => request[r].deadline = now + Deadline
        /\ Leads(r) => request[r].deadline <= now + Deadline
        /\ request[r].pc \in {"waiting", "calling"} => now <= request[r].deadline

\* Who waits for a call that is not over waits for somebody with no later deadline.
Covers(d, r) ==
    /\ Leads(d) \/ request[d].pc = "leaving"
    /\ request[d].call = request[r].call
    /\ request[d].deadline <= request[r].deadline

Covered ==
    \A r \in Requests :
        request[r].pc = "waiting" /\ ~call[request[r].call].over
        => \E d \in Requests : Covers(d, r)

\* Resolutions asked for that are not counted yet.
Uncounted == {r \in Requests : request[r].pc \in {"leading", "calling", "waiting"}}

Counting == asked = calls + coalesced + Cardinality(Uncounted)

IInv ==
    /\ TypeOK
    /\ Registered
    /\ DeadlineSound
    /\ Covered
    /\ Counting

\* How many there are is a number, and one more or one less is one more or one less.
LEMMA UncountedIsFinite ==
    /\ IsFiniteSet(Uncounted) /\ Cardinality(Uncounted) \in Nat
    /\ \A r \in Requests \ Uncounted :
         Cardinality(Uncounted \cup {r}) = Cardinality(Uncounted) + 1
    /\ \A r \in Uncounted :
         /\ Cardinality(Uncounted \ {r}) = Cardinality(Uncounted) - 1
         /\ Cardinality(Uncounted) - 1 \in Nat
<1>1. IsFiniteSet(Uncounted)
    BY RelayAssumption, FS_Subset DEF RelayAssumption, Uncounted
<1>2. \A r : IsFiniteSet(Uncounted \ {r}) /\ Cardinality(Uncounted \ {r}) \in Nat
    BY <1>1, FS_Subset, FS_CardinalityType
<1> QED BY <1>1, <1>2, FS_AddElement, FS_RemoveElement, FS_CardinalityType

\* What a handler is between two requests.
LEMMA NoRequestType == NoRequest \in Request /\ NoRequest.pc = "idle"
BY RelayAssumption DEF NoRequest, Request, Generations, RelayAssumption

\* The start.
LEMMA InitSound == Init => IInv
<1> SUFFICES ASSUME Init PROVE IInv
    OBVIOUS
<1>1. \A r \in Requests : request[r] \in Request /\ request[r].pc = "idle"
    BY NoRequestType DEF Init
<1>2. NewCall(0) \in Call
    BY RelayAssumption DEF NewCall, Call, Generations, RelayAssumption
<1>3. TypeOK
    <2>1. request \in [Requests -> Request] /\ call \in [Calls -> Call]
        BY <1>2, NoRequestType DEF Init
    <2>2. buckets \in [Generations -> [Sources -> [count : Nat, from : -1..MaxTime]]]
        BY RelayAssumption DEF Init, NoBucket, RelayAssumption
    <2>3. passed \in [Generations -> [Sources -> Seq(0..MaxTime)]]
        BY DEF Init
    <2>4. now \in 0..MaxTime /\ security \in Generations /\ chain \in Generations
        BY RelayAssumption DEF Init, Generations, RelayAssumption
    <2> QED BY <1>1, <2>1, <2>2, <2>3, <2>4 DEF Init, TypeOK, Holds, Leads
<1>4. Uncounted = {}
    BY <1>1 DEF Uncounted
<1>5. Counting
    BY <1>4, FS_EmptySet DEF Init, Counting
<1> QED BY <1>1, <1>3, <1>5 DEF Init, IInv, Registered, DeadlineSound, Covered, Leads

\* A step of one handler that neither holds nor counts a resolution, before or after.
LEMMA BeforeAsking ==
    ASSUME IInv, NEW r \in Requests, NEW q \in Request,
           request[r].pc \in {"idle", "arrived", "admitted"},
           q.pc \in {"idle", "arrived", "admitted", "asking"},
           q.pc = "asking" => q.deadline = now + Deadline,
           request' = [request EXCEPT ![r] = q],
           UNCHANGED <<now, policy, security, flights, asked, calls, coalesced>>,
           arrivals' \in Nat,
           buckets' \in [Generations -> [Sources -> [count : Nat, from : -1..MaxTime]]],
           passed' \in [Generations -> [Sources -> Seq(0..MaxTime)]]
    PROVE  IInv'
<1>1. /\ request' \in [Requests -> Request]
      /\ request'[r] = q
      /\ \A d \in Requests \ {r} : request'[d] = request[d]
    BY DEF IInv, TypeOK
<1>2. /\ ~Leads(r) /\ ~Leads(r)' /\ ~Holds(r) /\ ~Holds(r)'
      /\ \A d \in Requests \ {r} : (Leads(d)' <=> Leads(d)) /\ (Holds(d)' <=> Holds(d))
    BY <1>1 DEF Leads, Holds
<1>3. TypeOK'
    BY <1>1, <1>2 DEF IInv, TypeOK, flights
<1>4. Registered'
    BY <1>1, <1>2 DEF IInv, Registered, flights
<1>5. DeadlineSound'
    BY <1>1, <1>2 DEF IInv, DeadlineSound
<1>6. Covered'
    BY <1>1, <1>2 DEF IInv, Covered, Covers, flights, Leads
<1>7. Uncounted' = Uncounted
    BY <1>1 DEF Uncounted
<1>8. Counting'
    BY <1>7 DEF IInv, Counting
<1> QED BY <1>3, <1>4, <1>5, <1>6, <1>8 DEF IInv

\* A request arrives.
LEMMA ArriveSound ==
    ASSUME IInv, NEW r \in Requests, NEW via \in {"doh", "dot"}, NEW s \in Sources, NEW k \in Keys,
           NEW authorized \in BOOLEAN, Arrive(r, via, s, k, authorized)
    PROVE  IInv'
<1> DEFINE q == [NoRequest EXCEPT !.pc = "arrived", !.via = via, !.source = s, !.key = k,
                                  !.limiter = security]
<1>1. request[r] \in Request /\ request = [request EXCEPT ![r] = request[r]]
    BY DEF IInv, TypeOK
<1>2. q \in Request /\ q.pc = "arrived"
    BY NoRequestType DEF Request, IInv, TypeOK
<1>3. request' = [request EXCEPT ![r] = q] \/ request' = [request EXCEPT ![r] = request[r]]
    BY <1>1 DEF Arrive
<1>4. /\ UNCHANGED <<now, limits, flights, asked, calls, coalesced>>
      /\ arrivals' \in Nat /\ request[r].pc = "idle"
    BY DEF Arrive, IInv, TypeOK
<1> HIDE DEF q
<1> QED BY <1>1, <1>2, <1>3, <1>4, BeforeAsking DEF limits, IInv, TypeOK

\* A request is limited, admitted, judged or turned away.
LEMMA AdmissionSound ==
    ASSUME IInv, NEW r \in Requests, Unlimited(r) \/ Limited(r) \/ Malformed(r) \/ Judge(r)
    PROVE  IInv'
<1> DEFINE a == [NoRequest EXCEPT !.pc = "admitted", !.key = request[r].key]
           j == [request[r] EXCEPT !.pc = "asking", !.deadline = now + Deadline]
<1>1. request[r] \in Request /\ request[r].key \in Keys
    BY DEF IInv, TypeOK, Request
<1>2. a \in Request /\ a.pc = "admitted"
    BY <1>1, NoRequestType DEF Request
<1>3. now + Deadline \in 0..(MaxTime + Deadline)
    BY RelayAssumption DEF IInv, TypeOK, RelayAssumption
<1>4. j \in Request /\ j.pc = "asking" /\ j.deadline = now + Deadline
    BY <1>1, <1>3 DEF Request
<1>5. \/ request' = [request EXCEPT ![r] = a]
      \/ request' = [request EXCEPT ![r] = NoRequest]
      \/ request' = [request EXCEPT ![r] = j]
    BY DEF Unlimited, Limited, Malformed, Judge, Admit, Reply
<1>6. /\ request[r].pc \in {"arrived", "admitted"}
      /\ UNCHANGED <<now, policy, security, flights, arrivals, asked, calls, coalesced>>
    BY DEF Unlimited, Limited, Malformed, Judge, limits, counters
<1>7. /\ buckets' \in [Generations -> [Sources -> [count : Nat, from : -1..MaxTime]]]
      /\ passed' \in [Generations -> [Sources -> Seq(0..MaxTime)]]
    <2>1. CASE Unlimited(r) \/ Malformed(r) \/ Judge(r)
        BY <2>1 DEF Unlimited, Malformed, Judge, limits, IInv, TypeOK
    <2>2. CASE Limited(r)
        <3> DEFINE s == request[r].source
        <3>1. PICK g \in LimiterOf(r) :
                 /\ buckets' = [buckets EXCEPT ![g][s] = Counted(buckets[g][s])]
                 /\ passed' = [passed EXCEPT ![g][s] = Append(@, now)] \/ passed' = passed
            BY <2>2 DEF Limited
        <3>2. g \in Generations /\ s \in Sources
            BY <1>1 DEF LimiterOf, Request, IInv, TypeOK
        <3>3. now \in 0..MaxTime /\ now \in -1..MaxTime
            BY RelayAssumption DEF IInv, TypeOK, RelayAssumption
        <3>4. Counted(buckets[g][s]) \in [count : Nat, from : -1..MaxTime]
            <4>1. buckets[g][s] \in [count : Nat, from : -1..MaxTime]
                BY <3>2 DEF IInv, TypeOK
            <4> QED BY <3>3, <4>1 DEF Counted
        <3>5. buckets' \in [Generations -> [Sources -> [count : Nat, from : -1..MaxTime]]]
            BY <3>1, <3>2, <3>4 DEF IInv, TypeOK
        <3>6. Append(passed[g][s], now) \in Seq(0..MaxTime)
            BY <3>2, <3>3 DEF IInv, TypeOK
        <3>7. passed' \in [Generations -> [Sources -> Seq(0..MaxTime)]]
            <4> DEFINE p == Append(passed[g][s], now)
            <4>1. passed' = [passed EXCEPT ![g][s] = p] \/ passed' = passed
                BY <3>1
            <4> HIDE DEF p, s
            <4>2. p \in Seq(0..MaxTime)
                BY <3>6 DEF p
            <4>3. passed \in [Generations -> [Sources -> Seq(0..MaxTime)]]
                BY DEF IInv, TypeOK
            <4> DEFINE row == [passed[g] EXCEPT ![s] = p]
            <4>4. row \in [Sources -> Seq(0..MaxTime)]
                BY <3>2, <4>2, <4>3
            <4>5. passed' = [passed EXCEPT ![g] = row] \/ passed' = passed
                BY <4>1
            <4> HIDE DEF row
            <4> QED BY <3>2, <4>3, <4>4, <4>5
        <3> QED BY <3>5, <3>7
    <2> QED BY <2>1, <2>2
<1>8. arrivals' \in Nat
    BY <1>6 DEF IInv, TypeOK
<1> HIDE DEF a, j
<1> QED BY <1>2, <1>4, <1>5, <1>6, <1>7, <1>8, NoRequestType, BeforeAsking

\* A waiter joins a call that somebody leads, who asked no later.
LEMMA JoinSound ==
    ASSUME IInv, NEW r \in Requests, Join(r)
    PROVE  IInv'
<1> DEFINE i == inflight[request[r].key]
           q == [request[r] EXCEPT !.pc = "waiting", !.call = i]
<1>1. /\ request[r] \in Request /\ request[r].pc = "asking" /\ request[r].key \in Keys
      /\ i \in Calls
    BY DEF IInv, TypeOK, Join, UnderWay, Request
<1>2. q \in Request /\ q.pc = "waiting" /\ q.call = i /\ q.deadline = request[r].deadline
    BY <1>1 DEF Request
<1>3. /\ request' = [request EXCEPT ![r] = q]
      /\ UNCHANGED <<now, limits, flights, arrivals, calls, coalesced>>
      /\ asked' = asked + 1
    BY DEF Join
<1>4. PICK d \in Requests : Leads(d) /\ request[d].call = i
    BY <1>1, RelayAssumption DEF IInv, Registered, Join, UnderWay
<1> HIDE DEF q, i
<1>5. /\ request' \in [Requests -> Request]
      /\ request'[r] = q
      /\ \A e \in Requests \ {r} : request'[e] = request[e]
    BY <1>2, <1>3 DEF IInv, TypeOK
<1>6. /\ ~Leads(r) /\ ~Leads(r)' /\ ~Holds(r)
      /\ \A e \in Requests \ {r} : (Leads(e)' <=> Leads(e)) /\ (Holds(e)' <=> Holds(e))
    BY <1>1, <1>2, <1>5 DEF Leads, Holds
<1>7. TypeOK'
    BY <1>1, <1>2, <1>3, <1>5, <1>6 DEF IInv, TypeOK, limits, flights
<1>8. Registered'
    BY <1>3, <1>5, <1>6 DEF IInv, Registered, flights
<1>9. request[r].deadline = now + Deadline /\ now <= now + Deadline
    BY <1>1, RelayAssumption DEF IInv, TypeOK, DeadlineSound, RelayAssumption
<1>10. DeadlineSound'
    BY <1>2, <1>3, <1>5, <1>6, <1>9 DEF IInv, DeadlineSound
<1>11. Covered'
    <2>1. d # r /\ request[d].deadline <= request[r].deadline
        BY <1>4, <1>6, <1>9 DEF IInv, DeadlineSound
    <2>2. Covers(d, r)'
        BY <1>2, <1>4, <1>5, <1>6, <2>1 DEF Covers
    <2>3. \A e \in Requests \ {r}, f \in Requests \ {r} : Covers(f, e)' <=> Covers(f, e)
        BY <1>5, <1>6 DEF Covers
    <2>4. \A e \in Requests : ~Covers(r, e)
        BY <1>1, <1>6 DEF Covers
    <2> QED BY <1>3, <1>5, <2>2, <2>3, <2>4 DEF IInv, Covered, flights
<1>12. Uncounted' = Uncounted \cup {r} /\ r \notin Uncounted
    BY <1>1, <1>2, <1>5 DEF Uncounted
<1>13. Counting'
    <2>1. Cardinality(Uncounted') = Cardinality(Uncounted) + 1
        BY <1>12, UncountedIsFinite
    <2> QED BY <1>3, <2>1, UncountedIsFinite DEF IInv, TypeOK, Counting
<1> QED BY <1>7, <1>8, <1>10, <1>11, <1>13 DEF IInv

\* A leader registers a call that nobody holds.
LEMMA LeadSound ==
    ASSUME IInv, NEW r \in Requests, Lead(r)
    PROVE  IInv'
<1> DEFINE k == request[r].key
<1>1. PICK i \in Calls :
          /\ Holders(i) = {}
          /\ call' = [call EXCEPT ![i] = NewCall(chain)]
          /\ inflight' = [inflight EXCEPT ![k] = i]
          /\ request' = [request EXCEPT ![r].pc = "leading", ![r].call = i]
    BY DEF Lead
<1> DEFINE q == [request[r] EXCEPT !.pc = "leading", !.call = i]
<1>2. /\ request[r] \in Request /\ request[r].pc = "asking" /\ k \in Keys
      /\ inflight[k] = NoCall
      /\ UNCHANGED <<now, limits, chain, arrivals, calls, coalesced>>
      /\ asked' = asked + 1
    BY DEF IInv, TypeOK, Lead, UnderWay, Request
<1>3. /\ q \in Request /\ q.pc = "leading" /\ q.call = i /\ q.key = k
      /\ q.deadline = request[r].deadline
      /\ request' = [request EXCEPT ![r] = q]
    BY <1>1, <1>2 DEF Request
<1>4. NewCall(chain) \in Call
    BY DEF IInv, TypeOK, NewCall, Call
<1> HIDE DEF q, k
<1>5. /\ request' \in [Requests -> Request]
      /\ request'[r] = q
      /\ \A e \in Requests \ {r} : request'[e] = request[e]
    BY <1>3 DEF IInv, TypeOK
<1>6. /\ ~Leads(r) /\ Leads(r)' /\ ~Holds(r)
      /\ \A e \in Requests \ {r} : (Leads(e)' <=> Leads(e)) /\ (Holds(e)' <=> Holds(e))
    BY <1>2, <1>3, <1>5 DEF Leads, Holds
<1>7. /\ call' \in [Calls -> Call] /\ inflight' \in [Keys -> Calls \cup {NoCall}]
      /\ inflight'[k] = i
      /\ \A l \in Keys \ {k} : inflight'[l] = inflight[l]
      /\ \A e \in Requests : Holds(e) => /\ request[e].call # i
                                         /\ call'[request[e].call] = call[request[e].call]
    BY <1>1, <1>2, <1>4 DEF IInv, TypeOK, Holders
<1>8. TypeOK'
    BY <1>2, <1>3, <1>5, <1>6, <1>7 DEF IInv, TypeOK, limits
<1>9. Registered'
    <2> SUFFICES ASSUME NEW l \in Keys, inflight'[l] # NoCall
                 PROVE  \E d \in Requests : /\ Leads(d)'
                                            /\ request'[d].key = l
                                            /\ request'[d].call = inflight'[l]
        BY DEF Registered
    <2>1. CASE l = k
        BY <1>3, <1>5, <1>6, <1>7, <2>1
    <2>2. CASE l # k
        BY <1>5, <1>6, <1>7, <2>2 DEF IInv, Registered
    <2> QED BY <2>1, <2>2
<1>10. DeadlineSound'
    <2>1. request[r].deadline = now + Deadline /\ now + Deadline \in Nat
        BY <1>2, RelayAssumption DEF IInv, TypeOK, DeadlineSound, RelayAssumption
    <2> QED BY <1>2, <1>3, <1>5, <1>6, <2>1 DEF IInv, DeadlineSound
<1>11. Covered'
    <2>1. \A e \in Requests \ {r} : request'[e].pc = "waiting" => Holds(e)
        BY <1>5 DEF Holds
    <2>2. \A e \in Requests \ {r}, f \in Requests \ {r} : Covers(f, e)' <=> Covers(f, e)
        BY <1>5, <1>6 DEF Covers
    <2>3. \A e \in Requests : ~Covers(r, e)
        BY <1>2, <1>6 DEF Covers
    <2> QED BY <1>3, <1>5, <1>7, <2>1, <2>2, <2>3 DEF IInv, Covered
<1>12. Uncounted' = Uncounted \cup {r} /\ r \notin Uncounted
    BY <1>2, <1>3, <1>5 DEF Uncounted
<1>13. Counting'
    <2>1. Cardinality(Uncounted') = Cardinality(Uncounted) + 1
        BY <1>12, UncountedIsFinite
    <2> QED BY <1>2, <2>1, UncountedIsFinite DEF IInv, TypeOK, Counting
<1> QED BY <1>8, <1>9, <1>10, <1>11, <1>13 DEF IInv

\* The steps of a leader, up to where it is off the map.
LEMMA LeadingSound ==
    ASSUME IInv, NEW r \in Requests, TakeChain(r) \/ ChainReturns(r) \/ EndCall(r)
    PROVE  IInv'
<1>1. PICK q \in Request :
          /\ request' = [request EXCEPT ![r] = q]
          /\ q.key = request[r].key /\ q.call = request[r].call /\ q.deadline = request[r].deadline
          /\ TakeChain(r) => q.pc = "calling"
          /\ ChainReturns(r) => q.pc = "landed"
          /\ EndCall(r) => q.pc = "leaving"
    <2>1. request[r] \in Request /\ chain \in Generations
        BY DEF IInv, TypeOK
    <2>2. CASE TakeChain(r)
        <3> DEFINE q == [request[r] EXCEPT !.pc = "calling", !.chain = chain]
        <3>1. q \in Request
            BY <2>1 DEF Request
        <3> QED BY <2>1, <2>2, <3>1 DEF TakeChain, ChainReturns, EndCall, Request
    <2>3. CASE ChainReturns(r)
        <3> DEFINE q == [request[r] EXCEPT !.pc = "landed"]
        <3>1. q \in Request
            BY <2>1 DEF Request
        <3> QED BY <2>1, <2>3, <3>1 DEF TakeChain, ChainReturns, EndCall, To, Request
    <2>4. CASE EndCall(r)
        <3> DEFINE q == [request[r] EXCEPT !.pc = "leaving"]
        <3>1. q \in Request
            BY <2>1 DEF Request
        <3> QED BY <2>1, <2>4, <3>1 DEF TakeChain, ChainReturns, EndCall, To, Request
    <2> QED BY <2>2, <2>3, <2>4
<1>2. /\ Leads(r) /\ Holds(r) /\ request[r].call \in Calls
      /\ request[r] \in Request /\ request[r].key \in Keys
    BY DEF Leads, Holds, TakeChain, ChainReturns, EndCall, IInv, TypeOK, Request
<1>3. /\ request' \in [Requests -> Request]
      /\ request'[r] = q
      /\ \A e \in Requests \ {r} : request'[e] = request[e]
    BY <1>1 DEF IInv, TypeOK
<1>4. /\ q.pc \in {"calling", "landed", "leaving"}
      /\ TakeChain(r) => request[r].pc = "leading"
      /\ ChainReturns(r) => request[r].pc = "calling"
      /\ EndCall(r) => request[r].pc = "landed"
    BY <1>1 DEF TakeChain, ChainReturns, EndCall
<1>5. /\ Holds(r)' /\ Leads(r)' <=> q.pc # "leaving"
      /\ \A e \in Requests \ {r} : (Leads(e)' <=> Leads(e)) /\ (Holds(e)' <=> Holds(e))
    BY <1>3, <1>4 DEF Leads, Holds
<1>6. /\ UNCHANGED <<now, limits, chain, arrivals, asked, coalesced>>
      /\ calls' = IF ChainReturns(r) THEN calls + 1 ELSE calls
      /\ inflight' = IF EndCall(r) THEN [inflight EXCEPT ![request[r].key] = NoCall] ELSE inflight
    BY <1>4 DEF TakeChain, ChainReturns, EndCall, Deregister, flights, counters
<1>7. call' \in [Calls -> Call] /\ \A i \in Calls : call'[i].over = call[i].over
    <2>1. ASSUME NEW result \in {Failed, request[r].chain},
                 call' = [call EXCEPT ![request[r].call].result = result]
          PROVE  call' \in [Calls -> Call] /\ \A i \in Calls : call'[i].over = call[i].over
        <3> DEFINE i == request[r].call
                   v == [call[i] EXCEPT !.result = result]
        <3>1. call[i] \in Call /\ result \in Generations \cup {Failed, Pending}
            BY <1>2 DEF IInv, TypeOK, Request
        <3>2. v \in Call /\ v.over = call[i].over
            BY <3>1 DEF Call
        <3>3. call' = [call EXCEPT ![i] = v]
            BY <2>1
        <3> HIDE DEF v, i
        <3> QED BY <3>2, <3>3 DEF IInv, TypeOK
    <2> QED BY <2>1 DEF TakeChain, ChainReturns, EndCall, flights, IInv, TypeOK
<1>8. TypeOK'
    <2>1. inflight' \in [Keys -> Calls \cup {NoCall}]
        BY <1>2, <1>6 DEF IInv, TypeOK
    <2>3. calls' \in Nat
        BY <1>6 DEF IInv, TypeOK
    <2>2. \A e \in Requests : Holds(e)' => request'[e].call \in Calls
        BY <1>1, <1>2, <1>3, <1>5 DEF IInv, TypeOK
    <2> QED BY <1>3, <1>6, <1>7, <2>1, <2>2, <2>3 DEF IInv, TypeOK, limits
<1>9. Registered'
    <2> SUFFICES ASSUME NEW l \in Keys, inflight'[l] # NoCall
                 PROVE  \E d \in Requests : /\ Leads(d)'
                                            /\ request'[d].key = l
                                            /\ request'[d].call = inflight'[l]
        BY DEF Registered
    <2>1. inflight'[l] = inflight[l] /\ (EndCall(r) => l # request[r].key)
        BY <1>2, <1>6 DEF IInv, TypeOK
    <2>2. PICK d \in Requests : Leads(d) /\ request[d].key = l /\ request[d].call = inflight[l]
        BY <2>1 DEF IInv, Registered
    <2>3. Leads(d)' /\ request'[d].key = l /\ request'[d].call = inflight'[l]
        BY <1>1, <1>3, <1>4, <1>5, <2>1, <2>2 DEF TakeChain, ChainReturns, EndCall
    <2> QED BY <2>3
<1>10. DeadlineSound'
    <2>1. now <= now + Deadline
        BY RelayAssumption DEF IInv, TypeOK, RelayAssumption
    <2> QED BY <1>1, <1>2, <1>3, <1>4, <1>5, <1>6, <2>1 DEF IInv, DeadlineSound, TakeChain
<1>11. Covered'
    <2>1. \A e \in Requests \ {r}, f \in Requests : Covers(f, e) => Covers(f, e)'
        BY <1>1, <1>3, <1>4, <1>5 DEF Covers
    <2>2. \A e \in Requests \ {r} :
             request[e].pc = "waiting" => call'[request[e].call].over = call[request[e].call].over
        BY <1>7 DEF IInv, TypeOK, Holds
    <2> QED BY <1>3, <1>4, <2>1, <2>2 DEF IInv, Covered
<1>12. Counting'
    <2>1. CASE ChainReturns(r)
        <3>1. Uncounted' = Uncounted \ {r} /\ r \in Uncounted
            BY <1>1, <1>3, <1>4, <2>1 DEF Uncounted
        <3>2. Cardinality(Uncounted') = Cardinality(Uncounted) - 1
            BY <3>1, UncountedIsFinite
        <3> QED BY <1>6, <2>1, <3>2, UncountedIsFinite DEF IInv, TypeOK, Counting
    <2>2. CASE ~ChainReturns(r)
        <3>1. Uncounted' = Uncounted
            BY <1>1, <1>3, <1>4, <2>2 DEF Uncounted
        <3> QED BY <1>6, <2>2, <3>1 DEF IInv, Counting
    <2> QED BY <2>1, <2>2
<1> QED BY <1>8, <1>9, <1>10, <1>11, <1>12 DEF IInv

\* A request is answered: by the leader, who ends the call for whoever waits, or by a
\* waiter, who leaves it as it is.
LEMMA ReplySound ==
    ASSUME IInv, NEW r \in Requests, Leave(r) \/ Wake(r)
    PROVE  IInv'
<1> DEFINE i == request[r].call
           kept == IF Leave(r) THEN [call[i] EXCEPT !.over = TRUE] ELSE call[i]
           v == IF Holders(i) = {r} THEN NewCall(0) ELSE kept
<1>1. /\ request' = [request EXCEPT ![r] = NoRequest]
      /\ call' = [call EXCEPT ![i] = v]
      /\ UNCHANGED <<now, limits, chain, inflight, arrivals, asked>>
      /\ Leave(r) => request[r].pc = "leaving" /\ UNCHANGED <<calls, coalesced>>
      /\ ~Leave(r) => request[r].pc = "waiting" /\ calls' = calls /\ coalesced' = coalesced + 1
    BY DEF Leave, Wake, Reply, Drop, CountedAsWaiter, counters
<1>2. Holds(r) /\ ~Leads(r) /\ i \in Calls
    BY <1>1 DEF Holds, Leads, IInv, TypeOK
<1>3. v \in Call
    <2>1. NewCall(0) \in Call
        BY RelayAssumption DEF NewCall, Call, Generations, RelayAssumption
    <2>2. call[i] \in Call /\ [call[i] EXCEPT !.over = TRUE] \in Call
        BY <1>2 DEF IInv, TypeOK, Call
    <2> QED BY <2>1, <2>2
<1>4. /\ request' \in [Requests -> Request]
      /\ request'[r] = NoRequest
      /\ \A e \in Requests \ {r} : request'[e] = request[e]
    BY <1>1, NoRequestType DEF IInv, TypeOK
<1>5. /\ ~Leads(r)' /\ ~Holds(r)'
      /\ \A e \in Requests \ {r} : (Leads(e)' <=> Leads(e)) /\ (Holds(e)' <=> Holds(e))
    BY <1>4, NoRequestType DEF Leads, Holds
<1>6. \A e \in Requests \ {r} : Holds(e) /\ request[e].call = i => v = kept
    BY DEF Holders
<1>7. call' \in [Calls -> Call] /\ call'[i] = v /\ \A j \in Calls \ {i} : call'[j] = call[j]
    BY <1>1, <1>2, <1>3 DEF IInv, TypeOK
<1>8. TypeOK'
    BY <1>1, <1>4, <1>5, <1>7 DEF IInv, TypeOK, limits
<1>9. Registered'
    BY <1>1, <1>2, <1>4, <1>5 DEF IInv, Registered
<1>10. DeadlineSound'
    BY <1>1, <1>4, <1>5, NoRequestType DEF IInv, DeadlineSound
<1>11. Covered'
    <2> SUFFICES ASSUME NEW e \in Requests, request'[e].pc = "waiting", ~call'[request'[e].call].over
                 PROVE  \E d \in Requests : Covers(d, e)'
        BY DEF Covered
    <2>1. e # r /\ request'[e] = request[e] /\ Holds(e) /\ request[e].call \in Calls
        BY <1>4, NoRequestType DEF Holds, IInv, TypeOK
    <2>2. CASE request[e].call = i /\ Leave(r)
        <3>1. call'[i] = [call[i] EXCEPT !.over = TRUE] /\ call[i] \in Call
            BY <1>2, <1>6, <1>7, <2>1, <2>2 DEF IInv, TypeOK
        <3> QED BY <2>1, <2>2, <3>1 DEF Call
    <2>3. CASE request[e].call # i \/ ~Leave(r)
        <3>1. ~call[request[e].call].over
            BY <1>6, <1>7, <2>1, <2>3
        <3>2. PICK d \in Requests : Covers(d, e)
            BY <2>1, <3>1 DEF IInv, Covered
        <3>3. d # r
            BY <1>1, <1>2, <2>3, <3>2 DEF Covers
        <3> QED BY <1>4, <1>5, <2>1, <3>2, <3>3 DEF Covers
    <2> QED BY <2>2, <2>3
<1>12. Counting'
    <2>1. CASE Leave(r)
        <3>1. Uncounted' = Uncounted
            BY <1>1, <1>4, <2>1, NoRequestType DEF Uncounted
        <3> QED BY <1>1, <2>1, <3>1 DEF IInv, Counting
    <2>2. CASE ~Leave(r)
        <3>1. Uncounted' = Uncounted \ {r} /\ r \in Uncounted
            BY <1>1, <1>4, <2>2, NoRequestType DEF Uncounted
        <3>2. Cardinality(Uncounted') = Cardinality(Uncounted) - 1
            BY <3>1, UncountedIsFinite
        <3> QED BY <1>1, <2>2, <3>2, UncountedIsFinite DEF IInv, TypeOK, Counting
    <2> QED BY <2>1, <2>2
<1> QED BY <1>8, <1>9, <1>10, <1>11, <1>12 DEF IInv

\* Time passes only for those who wait, and for no waiter beyond its deadline.
LEMMA TickSound ==
    ASSUME IInv, Tick
    PROVE  IInv'
<1>1. now' = now + 1 /\ now \in Nat /\ UNCHANGED <<limits, flights, request, counters>>
    BY RelayAssumption DEF Tick, IInv, TypeOK, RelayAssumption
<1>2. TypeOK'
    BY <1>1, RelayAssumption DEF Tick, IInv, TypeOK, limits, flights, counters, Holds, Leads, RelayAssumption
<1>3. Registered' /\ Covered' /\ Counting'
    BY <1>1 DEF IInv, Registered, Covered, Covers, Counting, Uncounted, Leads, flights, counters
<1>4. DeadlineSound'
    <2> SUFFICES ASSUME NEW r \in Requests
                 PROVE  /\ request[r].pc \notin {"asking", "leading"}
                        /\ Leads(r) => request[r].deadline <= now + 1 + Deadline
                        /\ request[r].pc \in {"waiting", "calling"} => now + 1 <= request[r].deadline
        BY <1>1 DEF DeadlineSound, Leads
    <2>1. \A d \in Requests : request[d].deadline \in Nat
        BY RelayAssumption DEF IInv, TypeOK, Request, RelayAssumption
    <2>2. \A d \in Requests : /\ request[d].pc \in {"idle", "calling", "waiting"}
                              /\ request[d].pc = "calling" => now < request[d].deadline
        BY <1>1, <2>1 DEF Tick, Waits, TimedOut
    <2>3. ASSUME request[r].pc = "waiting"
          PROVE  now + 1 <= request[r].deadline
        <3>1. ~call[request[r].call].over
            BY <2>3 DEF Tick, Waits
        <3>2. PICK d \in Requests : Covers(d, r)
            BY <2>3, <3>1 DEF IInv, Covered
        <3>3. now < request[d].deadline /\ request[d].deadline <= request[r].deadline
            BY <2>2, <3>2 DEF Covers, Leads
        <3> QED BY <1>1, <2>1, <3>3
    <2>4. Leads(r) => request[r].deadline <= now + 1 + Deadline
        BY <1>1, <2>1, RelayAssumption DEF IInv, DeadlineSound, RelayAssumption
    <2> QED BY <1>1, <2>1, <2>2, <2>3, <2>4
<1> QED BY <1>2, <1>3, <1>4 DEF IInv

\* A reload touches no request.
LEMMA ReloadSound ==
    ASSUME IInv, ApplySecurity \/ ApplyUpstream
    PROVE  IInv'
<1>1. /\ UNCHANGED <<now, policy, buckets, passed, inflight, call, request, counters>>
      /\ security' \in Generations /\ chain' \in Generations
    BY RelayAssumption
       DEF ApplySecurity, ApplyUpstream, IInv, TypeOK, Generations, limits, flights, RelayAssumption
<1> QED BY <1>1 DEF IInv, TypeOK, Registered, DeadlineSound, Covered, Covers, Counting,
                    Uncounted, Leads, Holds, counters

\* The invariant is inductive.
LEMMA StepSound == IInv /\ [Next]_vars => IInv'
<1> SUFFICES ASSUME IInv, [Next]_vars PROVE IInv'
    OBVIOUS
<1>1. ASSUME NEW r \in Requests, NEW via \in {"doh", "dot"}, NEW s \in Sources, NEW k \in Keys,
             NEW authorized \in BOOLEAN, Arrive(r, via, s, k, authorized)
      PROVE  IInv'
    BY <1>1, ArriveSound
<1>2. ASSUME NEW r \in Requests, Proceed(r) PROVE IInv'
    BY <1>2, AdmissionSound, JoinSound, LeadSound, LeadingSound, ReplySound DEF Proceed
<1>3. CASE UNCHANGED vars
    BY <1>3 DEF vars, limits, flights, counters, IInv, TypeOK, Registered, DeadlineSound, Covered,
                Covers, Counting, Uncounted, Leads, Holds
<1> QED BY <1>1, <1>2, <1>3, ReloadSound, TickSound DEF Next

\* It holds in every reachable state.
LEMMA Invariance == Spec => []IInv
BY InitSound, StepSound, PTL DEF Spec

\* Every variable of the relay keeps its type: among others, nobody waits for or lands
\* at a call it does not have.
THEOREM TypeCorrect == Spec => []TypeOK
<1>1. IInv => TypeOK
    BY DEF IInv
<1> QED BY <1>1, Invariance, PTL

\* No waiter waits beyond a deadline of its own, although it has no timer.
THEOREM DeadlinesKept == Spec => []WithinDeadline
<1>1. IInv => WithinDeadline
    BY DEF IInv, DeadlineSound, WithinDeadline
<1> QED BY <1>1, Invariance, PTL

\* The relay's two counters partition the resolutions asked for.
THEOREM RelayCountsPartition == Spec => []CountsPartition
<1>1. IInv => CountsPartition
    BY DEF IInv, Counting, Uncounted, CountsPartition
<1> QED BY <1>1, Invariance, PTL
-----------------------------------------------------------------------------
(* The rate limiter.  What a limiter remembers of a source, the start of   *)
(* its window and how many it counted in it, stands for all the times it   *)
(* let the source through.                                                 *)

\* How many of those counted in the window were let through.
Granted(b, L) == IF b.count < L THEN b.count ELSE L

\* One limiter's bucket b for one source, and when it let the source through: those
\* of the window under way come last, the first of them opened it, and whoever came
\* a whole limit before that one came more than a window earlier.
Paced(b, p, L, t) ==
    /\ b.from < 0 <=> b.count = 0
    /\ b.count = 0 \/ L = 0 => Len(p) = 0
    /\ b.from <= t
    /\ \A i \in 1..Len(p) : p[i] <= t
    /\ \A i \in 1..Len(p) : \A j \in 1..Len(p) : i <= j => p[i] <= p[j]
    /\ Granted(b, L) <= Len(p)
    /\ Granted(b, L) > 0 => p[Len(p) - Granted(b, L) + 1] = b.from
    /\ L > 0 => \A i \in 1..(Len(p) - Granted(b, L) - L + 1) : b.from - p[i] > Window
    /\ L > 0 => \A i \in 1..(Len(p) - 2*L + 1) : p[i + 2*L - 1] - p[i] > Window

LimitersPaced ==
    \A g \in Generations : \A s \in Sources :
        Paced(buckets[g][s], passed[g][s], policy[g].limit, now)

Buckets == [count : Nat, from : -1..MaxTime]

\* The types of what a limiter works on.
LEMMA LimiterTypes ==
    ASSUME TypeOK, NEW g \in Generations, NEW s \in Sources
    PROVE  /\ buckets[g][s] \in Buckets /\ passed[g][s] \in Seq(Int)
           /\ policy[g].limit \in Nat
           /\ now \in Nat /\ Window \in Nat
<1>1. policy[g] \in Policies /\ passed[g][s] \in Seq(0..MaxTime)
    BY DEF TypeOK
<1>2. passed[g][s] \in Seq(Int)
    <2>1. 0..MaxTime \subseteq Int
        BY RelayAssumption DEF RelayAssumption
    <2> QED BY <1>1, <2>1, SeqMonotonic
<1> QED BY <1>1, <1>2, RelayAssumption DEF TypeOK, RelayAssumption, Buckets

\* Letting one more through keeps the pace.
LEMMA GrantPaced ==
    ASSUME NEW b \in Buckets, NEW p \in Seq(Int), NEW L \in Nat, L > 0, now \in Nat,
           Window \in Nat, Paced(b, p, L, now), Within(Counted(b), L)
    PROVE  Paced(Counted(b), Append(p, now), L, now)
<1> DEFINE n == Len(p)
           q == Append(p, now)
           m == Granted(b, L)
<1>1. n \in Nat /\ \A i \in 1..n : p[i] \in Int
    BY ElementOfSeq, LenProperties
<1>2. /\ Len(q) = n + 1 /\ q[n + 1] = now
      /\ \A i \in 1..n : q[i] = p[i]
    BY AppendProperties
<1>3. b.count \in Nat /\ b.from \in Int /\ m \in Nat
    BY RelayAssumption DEF Buckets, Granted, RelayAssumption
<1>4. /\ b.from < 0 <=> b.count = 0
      /\ b.count = 0 => n = 0
      /\ b.from <= now
      /\ \A i \in 1..n : p[i] <= now
      /\ \A i \in 1..n : \A j \in 1..n : i <= j => p[i] <= p[j]
      /\ m <= n
      /\ m > 0 => p[n - m + 1] = b.from
      /\ \A i \in 1..(n - m - L + 1) : b.from - p[i] > Window
      /\ \A i \in 1..(n - 2*L + 1) : p[i + 2*L - 1] - p[i] > Window
    BY DEF Paced
<1>5. m = IF b.count < L THEN b.count ELSE L
    BY DEF Granted
<1> HIDE DEF n, q, m
<1>6. /\ \A i \in 1..(n + 1) : q[i] <= now
      /\ \A i \in 1..(n + 1) : \A j \in 1..(n + 1) : i <= j => q[i] <= q[j]
    BY <1>1, <1>2, <1>4
<1>7. CASE b.from < 0 \/ now - b.from > Window
    <2>1. Counted(b) = [count |-> 1, from |-> now]
        BY <1>7 DEF Counted
    <2>2. Granted(Counted(b), L) = 1
        BY <2>1 DEF Granted
    <2>3. ASSUME NEW i \in 1..(n - L + 1)
          PROVE  now - p[i] > Window
        <3>1. m > 0 /\ m <= L /\ ~(b.from < 0)
            BY <1>1, <1>3, <1>4, <1>5
        <3>2. i \in 1..n /\ n - m + 1 \in 1..n /\ i <= n - m + 1
            BY <1>1, <1>3, <1>4, <3>1
        <3>3. p[i] <= b.from /\ p[i] \in Int
            BY <1>1, <1>4, <3>1, <3>2
        <3> QED BY <1>3, <1>7, <3>1, <3>3
    <2>4. \A i \in 1..(n + 2 - 2*L) : q[i + 2*L - 1] - q[i] > Window
        <3> SUFFICES ASSUME NEW i \in 1..(n + 2 - 2*L)
                     PROVE  q[i + 2*L - 1] - q[i] > Window
            OBVIOUS
        <3>1. i \in 1..n /\ q[i] = p[i]
            BY <1>1, <1>2
        <3>2. CASE i = n + 2 - 2*L
            BY <1>1, <1>2, <2>3, <3>1, <3>2
        <3>3. CASE i # n + 2 - 2*L
            BY <1>1, <1>2, <1>4, <3>1, <3>3
        <3> QED BY <3>2, <3>3
    <2>5. \A i \in 1..(n + 1 - 1 - L + 1) : now - q[i] > Window
        BY <1>1, <1>2, <2>3
    <2>6. Paced(Counted(b), q, L, now)
        BY <1>1, <1>2, <1>6, <2>1, <2>2, <2>4, <2>5 DEF Paced
    <2> QED BY <2>6 DEF q
<1>8. CASE ~(b.from < 0 \/ now - b.from > Window)
    <2>1. Counted(b) = [count |-> b.count + 1, from |-> b.from]
        BY <1>8 DEF Counted
    <2>2. /\ b.count + 1 <= L /\ b.count > 0
          /\ m = b.count /\ Granted(Counted(b), L) = m + 1
        BY <1>3, <1>4, <1>5, <1>8, <2>1 DEF Granted, Within
    <2>3. q[n + 1 - (m + 1) + 1] = b.from
        BY <1>1, <1>2, <1>3, <1>4, <2>2
    <2>4. ASSUME NEW i \in 1..(n + 1 - (m + 1) - L + 1)
          PROVE  b.from - q[i] > Window
        <3>1. i \in 1..(n - m - L + 1) /\ i \in 1..n
            BY <1>1, <1>3
        <3> QED BY <1>2, <1>4, <3>1
    <2>5. \A i \in 1..(n + 2 - 2*L) : q[i + 2*L - 1] - q[i] > Window
        <3> SUFFICES ASSUME NEW i \in 1..(n + 2 - 2*L)
                     PROVE  q[i + 2*L - 1] - q[i] > Window
            OBVIOUS
        <3>1. i \in 1..n /\ q[i] = p[i] /\ p[i] \in Int
            BY <1>1, <1>2
        <3>2. CASE i = n + 2 - 2*L
            <4>1. i \in 1..(n - m - L + 1)
                BY <1>1, <1>3, <2>2, <3>2
            <4>2. b.from - p[i] > Window /\ b.from <= now
                BY <1>4, <4>1
            <4>3. q[i + 2*L - 1] = now
                BY <1>1, <1>2, <3>2
            <4> QED BY <1>3, <3>1, <4>2, <4>3
        <3>3. CASE i # n + 2 - 2*L
            BY <1>1, <1>2, <1>4, <3>1, <3>3
        <3> QED BY <3>2, <3>3
    <2>6. Paced(Counted(b), q, L, now)
        <3>1. /\ Counted(b).from = b.from /\ Counted(b).count = b.count + 1
              /\ ~(b.from < 0) /\ b.count + 1 > 0
            BY <1>3, <1>4, <1>8, <2>1
        <3>2. Granted(Counted(b), L) = m + 1 /\ Len(q) = n + 1
            BY <1>2, <2>2
        <3> DEFINE c == Counted(b)
        <3> HIDE DEF c
        <3>3. /\ Granted(c, L) <= Len(q)
              /\ q[Len(q) - Granted(c, L) + 1] = c.from
            <4>1. /\ Granted(c, L) = m + 1 /\ c.from = b.from
                  /\ n + 1 - (m + 1) + 1 = Len(q) - Granted(c, L) + 1
                BY <1>1, <1>3, <3>1, <3>2 DEF c
            <4>2. Granted(c, L) <= Len(q)
                BY <1>1, <1>3, <1>4, <3>2, <4>1
            <4>3. q[Len(q) - Granted(c, L) + 1] = q[n + 1 - (m + 1) + 1]
                BY <4>1, Zenon
            <4> QED BY <2>3, <4>1, <4>2, <4>3
        <3>4. \A i \in 1..(Len(q) - Granted(c, L) - L + 1) : c.from - q[i] > Window
            BY <1>1, <1>3, <2>4, <3>1, <3>2 DEF c
        <3>5. \A i \in 1..(Len(q) - 2*L + 1) : q[i + 2*L - 1] - q[i] > Window
            BY <1>1, <2>5, <3>2
        <3>6. /\ c.count > 0 /\ ~(c.from < 0) /\ c.from <= now /\ c.count # 0
            BY <1>3, <1>4, <3>1 DEF c
        <3>7. Paced(c, q, L, now)
            BY <1>6, <3>2, <3>3, <3>4, <3>5, <3>6 DEF Paced
        <3> QED BY <3>7 DEF c
    <2> QED BY <2>6 DEF q
<1> QED BY <1>7, <1>8

\* So does turning one away, which happens only if the window under way has let
\* through as many as the limit says.
LEMMA RefusalPaced ==
    ASSUME NEW b \in Buckets, NEW p \in Seq(Int), NEW L \in Nat, L > 0, now \in Nat,
           Window \in Nat, Paced(b, p, L, now), ~Within(Counted(b), L)
    PROVE  /\ Paced(Counted(b), p, L, now)
           /\ Len(p) >= L /\ p[Len(p) - L + 1] >= now - Window
<1>1. b.count \in Nat /\ b.from \in Int
    BY RelayAssumption DEF Buckets, RelayAssumption
<1>2. /\ ~(b.from < 0 \/ now - b.from > Window)
      /\ Counted(b) = [count |-> b.count + 1, from |-> b.from]
      /\ b.count + 1 > L
    <2>1. Counted(b).count > L
        BY <1>1 DEF Counted, Within
    <2>2. ~(b.from < 0 \/ now - b.from > Window)
        BY <2>1 DEF Counted
    <2>3. Counted(b) = [count |-> b.count + 1, from |-> b.from]
        BY <2>2 DEF Counted
    <2> QED BY <2>1, <2>2, <2>3
<1>3. Granted(b, L) = L /\ Granted(Counted(b), L) = L
    BY <1>1, <1>2 DEF Granted
<1>4. Len(p) >= L /\ p[Len(p) - L + 1] = b.from
    BY <1>3, LenProperties DEF Paced
<1>5. Paced(Counted(b), p, L, now)
    BY <1>1, <1>2, <1>3 DEF Paced
<1> QED BY <1>1, <1>2, <1>4, <1>5

\* Every limiter keeps its pace.
LEMMA LimitersKeepPace ==
    TypeOK /\ LimitersPaced /\ [Next]_vars => LimitersPaced'
<1> SUFFICES ASSUME TypeOK, LimitersPaced, [Next]_vars
             PROVE  LimitersPaced'
    OBVIOUS
<1>1. CASE UNCHANGED <<now, policy, buckets, passed>>
    BY <1>1 DEF LimitersPaced
<1>2. CASE Tick
    <2>1. now' = now + 1 /\ UNCHANGED limits
        BY <1>2 DEF Tick
    <2> SUFFICES ASSUME NEW g \in Generations, NEW s \in Sources
                 PROVE  Paced(buckets[g][s], passed[g][s], policy[g].limit, now + 1)
        BY <2>1 DEF LimitersPaced, limits
    <2> DEFINE b == buckets[g][s]
               p == passed[g][s]
               L == policy[g].limit
    <2>2. /\ b \in Buckets /\ p \in Seq(Int) /\ L \in Nat /\ now \in Nat
          /\ Paced(b, p, L, now)
        BY LimiterTypes DEF LimitersPaced
    <2> HIDE DEF b, p, L
    <2>3. b.from \in Int /\ \A i \in 1..Len(p) : p[i] \in Int
        BY <2>2, ElementOfSeq, RelayAssumption DEF Buckets, RelayAssumption
    <2>4. Paced(b, p, L, now + 1)
        BY <2>2, <2>3 DEF Paced
    <2> QED BY <2>4 DEF b, p, L
<1>3. ASSUME NEW r \in Requests, Limited(r)
      PROVE  LimitersPaced'
    <2> DEFINE s == request[r].source
    <2>1. PICK g \in LimiterOf(r) :
             /\ policy[g].limit > 0
             /\ buckets' = [buckets EXCEPT ![g][s] = Counted(buckets[g][s])]
             /\ \/ /\ Within(Counted(buckets[g][s]), policy[g].limit)
                   /\ passed' = [passed EXCEPT ![g][s] = Append(@, now)]
                \/ /\ ~Within(Counted(buckets[g][s]), policy[g].limit)
                   /\ passed' = passed
        BY <1>3 DEF Limited
    <2>2. g \in Generations /\ s \in Sources
        BY DEF LimiterOf, Request, TypeOK
    <2> DEFINE b == buckets[g][s]
               p == passed[g][s]
               L == policy[g].limit
    <2>3. /\ b \in Buckets /\ p \in Seq(Int) /\ L \in Nat /\ now \in Nat /\ Window \in Nat
          /\ Paced(b, p, L, now)
        BY <2>2, LimiterTypes DEF LimitersPaced
    <2>4. Paced(buckets'[g][s], passed'[g][s], L, now)
        <3>1. buckets'[g][s] = Counted(b)
            BY <2>1, <2>2 DEF TypeOK
        <3>2. \/ Within(Counted(b), L) /\ passed'[g][s] = Append(p, now)
              \/ ~Within(Counted(b), L) /\ passed'[g][s] = p
            BY <2>1, <2>2 DEF TypeOK
        <3>3. L > 0
            BY <2>1
        <3> HIDE DEF b, p, L
        <3> QED BY <2>3, <3>1, <3>2, <3>3, GrantPaced, RefusalPaced
    <2>5. \A h \in Generations : \A t \in Sources :
             h # g \/ t # s => buckets'[h][t] = buckets[h][t] /\ passed'[h][t] = passed[h][t]
        <3> DEFINE c == Counted(buckets[g][s])
                   q == Append(passed[g][s], now)
        <3>1. /\ buckets' = [buckets EXCEPT ![g][s] = c]
              /\ passed' = [passed EXCEPT ![g][s] = q] \/ passed' = passed
            BY <2>1
        <3> HIDE DEF b, p, L, c, q, s
        <3>2. \A h \in Generations \ {g} : buckets'[h] = buckets[h] /\ passed'[h] = passed[h]
            BY <3>1 DEF TypeOK
        <3>3. \A t \in Sources \ {s} : buckets'[g][t] = buckets[g][t]
            BY <2>2, <3>1 DEF TypeOK
        <3>4. \A t \in Sources \ {s} : passed'[g][t] = passed[g][t]
            <4> DEFINE row == [passed[g] EXCEPT ![s] = q]
            <4>1. passed' = [passed EXCEPT ![g] = row] \/ passed' = passed
                BY <3>1
            <4>2. \A t \in Sources \ {s} : row[t] = passed[g][t]
                BY <2>2 DEF TypeOK
            <4> HIDE DEF row
            <4> QED BY <2>2, <4>1, <4>2 DEF TypeOK
        <3> QED BY <3>2, <3>3, <3>4
    <2>6. UNCHANGED <<now, policy>>
        BY <1>3 DEF Limited
    <2> QED BY <2>4, <2>5, <2>6 DEF LimitersPaced
<1> QED BY <1>1, <1>2, <1>3
    DEF Next, Proceed, Arrive, Unlimited, Malformed, Judge, Join, Lead, TakeChain, ChainReturns,
        EndCall, Leave, Wake, ApplySecurity, ApplyUpstream, limits, vars

\* No limiter has let anyone through at the start.
LEMMA LimitersStartPaced ==
    Init => LimitersPaced
<1> SUFFICES ASSUME Init, NEW g \in Generations, NEW s \in Sources
             PROVE  Paced(buckets[g][s], passed[g][s], policy[g].limit, now)
    BY DEF LimitersPaced
<1>1. policy[g].limit \in Nat
    BY RelayAssumption DEF Init, RelayAssumption
<1>2. passed[g][s] = <<>> /\ buckets[g][s] = [count |-> 0, from |-> -1] /\ now = 0
    BY DEF Init, NoBucket
<1>3. Len(passed[g][s]) = 0
    BY <1>2, EmptySeq
<1> HIDE DEF Init
<1> QED BY <1>1, <1>2, <1>3 DEF Paced, Granted

\* It holds in every reachable state.
LEMMA LimitersAlwaysPaced == Spec => []LimitersPaced
BY TypeCorrect, LimitersStartPaced, LimitersKeepPace, PTL DEF Spec

\* However a source spreads its requests over the edges of the fixed windows, whatever
\* the limit and the length of the window, one limiter lets less than twice the limit
\* through in any stretch of time as long as a window.
THEOREM BurstBounded == Spec => []LessThanTwiceTheLimit
<1>1. LimitersPaced => LessThanTwiceTheLimit
    BY DEF LimitersPaced, Paced, LessThanTwiceTheLimit
<1> QED BY <1>1, LimitersAlwaysPaced, PTL

\* Only the limiter takes a request that has just arrived back to nothing.
LEMMA OnlyLimitersRefuse ==
    ASSUME TypeOK, [Next]_vars, NEW r \in Requests,
           request[r].pc = "arrived", request'[r].pc = "idle"
    PROVE  Limited(r) /\ ~Admit(r)
<1>1. \A d \in Requests : \A q :
          request' = [request EXCEPT ![d] = q] => d = r /\ q.pc = "idle"
    BY DEF TypeOK
<1>2. ASSUME NEW d \in Requests, Proceed(d) PROVE d = r
    BY <1>2
    DEF TypeOK, Proceed, Unlimited, Limited, Malformed, Judge, Join, Lead, TakeChain, ChainReturns,
        EndCall, Leave, Wake, Admit, Reply, To
<1>3. ASSUME NEW via, NEW s, NEW k, NEW authorized, NEW d \in Requests,
             Arrive(d, via, s, k, authorized)
      PROVE  FALSE
    BY <1>1, <1>3 DEF Arrive
<1>4. request' # request
    OBVIOUS
<1>5. Proceed(r)
    BY <1>2, <1>3, <1>4 DEF Next, ApplySecurity, ApplyUpstream, Tick, vars
<1>6. Unlimited(r) \/ Limited(r)
    BY <1>5 DEF Proceed, Malformed, Judge, Join, Lead, TakeChain, ChainReturns, EndCall, Leave, Wake
<1>7. [NoRequest EXCEPT !.pc = "admitted", !.key = request[r].key].pc = "admitted"
    BY DEF NoRequest
<1>8. ~Admit(r)
    BY <1>1, <1>7 DEF Admit
<1> QED BY <1>6, <1>8 DEF Unlimited

\* Whoever is turned away was let through as often as the limit says within the last
\* window: refusals do not count against a source once its window is over.
THEOREM RefusalsJustified == Spec => RefusedOnlyOverLimit
<1>1. TypeOK /\ LimitersPaced /\ [Next]_vars =>
        [\A r \in Requests : request[r].pc = "arrived" /\ request'[r].pc = "idle" =>
           \E g \in LimiterOf(r) :
              LET p == passed[g][request[r].source]
                  L == policy[g].limit
              IN  L > 0 /\ Len(p) >= L /\ p[Len(p) - L + 1] >= now - Window]_vars
    <2> SUFFICES ASSUME TypeOK, LimitersPaced, [Next]_vars, NEW r \in Requests,
                        request[r].pc = "arrived", request'[r].pc = "idle"
                 PROVE  \E g \in LimiterOf(r) :
                           LET p == passed[g][request[r].source]
                               L == policy[g].limit
                           IN  L > 0 /\ Len(p) >= L /\ p[Len(p) - L + 1] >= now - Window
        OBVIOUS
    <2> DEFINE s == request[r].source
    <2>1. Limited(r) /\ ~Admit(r)
        BY OnlyLimitersRefuse
    <2>2. PICK g \in LimiterOf(r) :
             policy[g].limit > 0 /\ ~Within(Counted(buckets[g][s]), policy[g].limit)
        BY <2>1 DEF Limited
    <2>3. g \in Generations /\ s \in Sources
        BY DEF LimiterOf, Request, TypeOK
    <2> DEFINE b == buckets[g][s]
               p == passed[g][s]
               L == policy[g].limit
    <2>4. /\ b \in Buckets /\ p \in Seq(Int) /\ L \in Nat /\ now \in Nat /\ Window \in Nat
          /\ Paced(b, p, L, now)
        BY <2>3, LimiterTypes DEF LimitersPaced
    <2>5. L > 0 /\ ~Within(Counted(b), L)
        BY <2>2
    <2> HIDE DEF b, p, L
    <2>6. Len(p) >= L /\ p[Len(p) - L + 1] >= now - Window
        BY <2>4, <2>5, RefusalPaced
    <2> QED BY <2>5, <2>6 DEF b, p, L
<1> QED BY <1>1, TypeCorrect, LimitersAlwaysPaced, PTL DEF Spec, RefusedOnlyOverLimit

-----------------------------------------------------------------------------
(* Coalescing.  Who leads is the one the map names, and alone for its key; *)
(* who holds a call asked for the key it was made for; a call that is off  *)
(* the map has an outcome, and waiters are only released from such calls;  *)
(* an outcome is of a chain no older than the call.                        *)
LeaderOnMap == \A c \in Requests : Leads(c) => inflight[request[c].key] = request[c].call

OneLeader ==
    \A c \in Requests : \A d \in Requests :
        Leads(c) /\ Leads(d) /\ request[c].key = request[d].key => c = d

HoldersAgree ==
    \A c \in Requests : \A d \in Requests :
        Holds(c) /\ Holds(d) /\ request[c].call = request[d].call
        => request[c].key = request[d].key

OffTheMap(c) == inflight[request[c].key] # request[c].call

OutcomeKnown ==
    \A c \in Requests :
        Holds(c) /\ (OffTheMap(c) \/ request[c].pc = "landed")
        => call[request[c].call].result # Pending

ReleasedIsOff ==
    \A c \in Requests :
        Holds(c) /\ (request[c].pc = "leaving" \/ call[request[c].call].over) => OffTheMap(c)

OutcomeInRange ==
    \A i \in Calls : /\ call[i].since <= chain
                     /\ call[i].result \in {Failed, Pending} \cup (call[i].since..chain)

ChainTaken ==
    \A c \in Requests :
        request[c].pc = "calling" => request[c].chain \in call[request[c].call].since..chain

FlightInv ==
    /\ LeaderOnMap /\ OneLeader /\ HoldersAgree
    /\ OutcomeKnown /\ ReleasedIsOff
    /\ OutcomeInRange /\ ChainTaken

Inv == IInv /\ FlightInv

\* The state of SingleFlight that a state of the relay stands for.
FlightBar == [k \in Keys |-> FlightOf(k)]
GotBar    == [r \in Requests |-> OutcomeOf(r)]

SameHolding(d) == /\ Holds(d)' <=> Holds(d)
                  /\ Leads(d)' <=> Leads(d)
                  /\ Holds(d) => /\ request'[d].key = request[d].key
                                 /\ request'[d].call = request[d].call

\* The types behind every step.
LEMMA Typed ==
    ASSUME Inv
    PROVE  /\ request \in [Requests -> Request]
           /\ call \in [Calls -> Call]
           /\ inflight \in [Keys -> Calls \cup {NoCall}]
           /\ NoCall \notin Calls
           /\ chain \in Nat
           /\ \A c \in Requests : /\ request[c].key \in Keys
                                  /\ Leads(c) => Holds(c)
                                  /\ Holds(c) => request[c].call \in Calls
           /\ \A i \in Calls : call[i].since \in Nat
<1>1. /\ request \in [Requests -> Request] /\ call \in [Calls -> Call]
      /\ inflight \in [Keys -> Calls \cup {NoCall}] /\ chain \in Generations
    BY DEF Inv, IInv, TypeOK
<1>2. Generations \subseteq Nat /\ NoCall \notin Calls
    BY RelayAssumption DEF Generations
<1>3. ASSUME NEW c \in Requests
      PROVE  /\ request[c].key \in Keys
             /\ Leads(c) => Holds(c)
             /\ Holds(c) => request[c].call \in Calls
    <2>1. request[c].key \in Keys
        BY <1>1 DEF Request
    <2>2. Leads(c) => Holds(c)
        BY DEF Holds
    <2>3. Holds(c) => request[c].call \in Calls
        BY DEF Inv, IInv, TypeOK
    <2> QED BY <2>1, <2>2, <2>3
<1>4. ASSUME NEW i \in Calls PROVE call[i].since \in Nat
    BY <1>1, <1>2 DEF Call
<1> QED BY <1>1, <1>2, <1>3, <1>4

\* A registered call has a leader, is the only one its holders know, and its holders
\* all asked for the key it is registered for.
LEMMA RegisteredHeld ==
    ASSUME Inv, NEW k \in Keys, inflight[k] # NoCall
    PROVE  /\ inflight[k] \in Calls
           /\ Holders(inflight[k]) # {}
           /\ \A d \in Holders(inflight[k]) : request[d].key = k /\ ~OffTheMap(d)
<1>1. PICK d \in Requests : Leads(d) /\ request[d].key = k /\ request[d].call = inflight[k]
    BY DEF Inv, IInv, Registered
<1> QED BY <1>1, Typed DEF Inv, FlightInv, Holders, HoldersAgree, OffTheMap, Holds

\* What neither registers, lands nor returns is invisible to those who ask.
LEMMA Invisible ==
    ASSUME Inv, UNCHANGED inflight, \A d \in Requests : SameHolding(d),
           \A j \in Calls : call'[j].since = call[j].since,
           \A d \in Requests : Holds(d) /\ OffTheMap(d) =>
               call'[request[d].call].result = call[request[d].call].result
    PROVE  FlightBar' = FlightBar /\ GotBar' = GotBar
<1>1. ASSUME NEW k \in Keys PROVE FlightOf(k)' = FlightOf(k)
    <2>1. ASSUME NEW j PROVE Holders(j)' = Holders(j)
        BY DEF Holders, SameHolding
    <2>2. inflight[k] # NoCall => inflight[k] \in Calls
        BY Typed
    <2> QED BY <2>1, <2>2 DEF FlightOf
<1>2. ASSUME NEW d \in Requests PROVE OutcomeOf(d)' = OutcomeOf(d)
    BY DEF OutcomeOf, OffTheMap, SameHolding
<1> QED BY <1>1, <1>2 DEF FlightBar, GotBar

\* So are the steps of a request outside the coalescing, and those of a leader that
\* takes its chain, of a reload and of time.
LEMMA HoldingStays ==
    ASSUME Inv, UNCHANGED <<inflight, call>>,
           chain' \in Nat, chain <= chain',
           \A d \in Requests :
              /\ SameHolding(d)
              /\ request'[d].pc = "calling" => Holds(d)
              /\ Holds(d) => \/ /\ request'[d].pc = request[d].pc
                                /\ request'[d].chain = request[d].chain
                             \/ request'[d].pc = "calling" /\ request'[d].chain = chain
    PROVE  FlightInv' /\ FlightBar' = FlightBar /\ GotBar' = GotBar
<1>1. FlightBar' = FlightBar /\ GotBar' = GotBar
    BY Invisible
<1>2. LeaderOnMap' /\ OneLeader' /\ HoldersAgree'
    BY Typed DEF Inv, FlightInv, LeaderOnMap, OneLeader, HoldersAgree, SameHolding
<1>3. OutcomeKnown' /\ ReleasedIsOff'
    BY DEF Inv, FlightInv, OutcomeKnown, ReleasedIsOff, OffTheMap, SameHolding
<1>4. OutcomeInRange'
    BY Typed DEF Inv, FlightInv, OutcomeInRange
<1>5. ChainTaken'
    <2> SUFFICES ASSUME NEW d \in Requests, request'[d].pc = "calling"
                 PROVE  request'[d].chain \in call'[request'[d].call].since..chain'
        BY DEF ChainTaken
    <2>1. Holds(d) /\ request'[d].call = request[d].call /\ request[d].call \in Calls
        BY Typed DEF SameHolding
    <2>2. call[request[d].call].since \in Nat /\ call[request[d].call].since <= chain
        BY <2>1, Typed DEF Inv, FlightInv, OutcomeInRange
    <2>3. request'[d].chain \in call[request[d].call].since..chain
        BY <2>1, <2>2, Typed DEF Inv, FlightInv, ChainTaken
    <2> QED BY <2>1, <2>2, <2>3, Typed
<1> QED BY <1>1, <1>2, <1>3, <1>4, <1>5 DEF FlightInv

\* The chain's result is put into a call that is still on the map: nobody reads it.
LEMMA ChainReturnsUnseen ==
    ASSUME Inv, NEW r \in Requests, ChainReturns(r)
    PROVE  FlightInv' /\ FlightBar' = FlightBar /\ GotBar' = GotBar
<1>1. PICK i \in Calls : i = request[r].call
    BY Typed DEF ChainReturns, Leads
<1>2. PICK result \in {Failed, request[r].chain} : call' = [call EXCEPT ![i].result = result]
    BY <1>1 DEF ChainReturns
<1>3. /\ request[r].pc = "calling" /\ Leads(r) /\ Holds(r) /\ ~OffTheMap(r)
      /\ UNCHANGED <<chain, inflight>>
    BY DEF ChainReturns, Leads, Holds, OffTheMap, Inv, FlightInv, LeaderOnMap
<1>4. /\ request'[r].pc = "landed" /\ request'[r].key = request[r].key
      /\ request'[r].call = request[r].call
      /\ \A d \in Requests \ {r} : request'[d] = request[d]
    BY Typed DEF ChainReturns, To, Request
<1>5. \A d \in Requests : SameHolding(d)
    BY <1>3, <1>4 DEF SameHolding, Holds, Leads
<1>6. /\ call'[i].since = call[i].since /\ call'[i].over = call[i].over
      /\ call'[i].result = result
      /\ \A j \in Calls \ {i} : call'[j] = call[j]
    BY <1>2, Typed DEF Call
<1>7. \A d \in Requests : Holds(d) /\ OffTheMap(d) => request[d].call \in Calls \ {i}
    BY <1>1, <1>3, Typed DEF Inv, FlightInv, HoldersAgree, OffTheMap
<1>8. result \in {Failed} \cup (call[i].since..chain) /\ result # Pending
    BY <1>1, <1>2, <1>3, Typed DEF Inv, FlightInv, ChainTaken, Pending, Failed
<1>9. FlightBar' = FlightBar /\ GotBar' = GotBar
    BY <1>3, <1>5, <1>6, <1>7, Invisible
<1>10. LeaderOnMap' /\ OneLeader' /\ HoldersAgree'
    BY <1>3, <1>4, <1>5 DEF Inv, FlightInv, LeaderOnMap, OneLeader, HoldersAgree, SameHolding, Holds
<1>11. \A d \in Requests : OffTheMap(d)' <=> OffTheMap(d)
    BY <1>3, <1>4 DEF OffTheMap
<1>12. \A d \in Requests : Holds(d) => /\ call'[request[d].call].over = call[request[d].call].over
                                       /\ call'[request[d].call].since = call[request[d].call].since
    BY <1>6, Typed
<1>13. OutcomeKnown'
    BY <1>1, <1>4, <1>5, <1>6, <1>7, <1>8, <1>11, Typed
    DEF Inv, FlightInv, OutcomeKnown, SameHolding
<1>14. ReleasedIsOff'
    BY <1>3, <1>4, <1>5, <1>11, <1>12 DEF Inv, FlightInv, ReleasedIsOff, SameHolding
<1>15. OutcomeInRange'
    BY <1>3, <1>6, <1>8 DEF Inv, FlightInv, OutcomeInRange
<1>16. ChainTaken'
    BY <1>3, <1>4, <1>12 DEF Inv, FlightInv, ChainTaken, Holds, Leads
<1> QED BY <1>9, <1>10, <1>13, <1>14, <1>15, <1>16 DEF FlightInv

\* Whoever's call, key and outcome stay, has the same outcome.
LEMMA OutcomeStays ==
    ASSUME NEW d \in Requests, request'[d] = request[d],
           Holds(d) => /\ OffTheMap(d)' <=> OffTheMap(d)
                       /\ OffTheMap(d) => call'[request[d].call].result
                                            = call[request[d].call].result
    PROVE  OutcomeOf(d)' = OutcomeOf(d)
BY DEF OutcomeOf, OffTheMap, Holds, Leads

\* What asking looks like, key by key and request by request.
LEMMA AskSeen ==
    ASSUME NEW c \in Requests, NEW k \in Keys, chain' = chain,
           OutcomeOf(c) = Pending, OutcomeOf(c)' = Pending,
           \A d \in Requests \ {c} : OutcomeOf(d)' = OutcomeOf(d),
           \A l \in Keys : c \notin FlightOf(l).members,
           \A l \in Keys \ {k} : FlightOf(l)' = FlightOf(l),
           FlightOf(k)' = [members |-> FlightOf(k).members \cup {c},
                           since |-> IF FlightOf(k) = SF!NoFlight THEN chain
                                     ELSE FlightOf(k).since]
    PROVE  SF!Ask(c, k)
<1>1. FlightBar' = [FlightBar EXCEPT ![k] =
          [members |-> @.members \cup {c},
           since |-> IF @ = SF!NoFlight THEN chain ELSE @.since]]
    <2> DEFINE joined == [members |-> FlightOf(k).members \cup {c},
                          since |-> IF FlightOf(k) = SF!NoFlight THEN chain
                                    ELSE FlightOf(k).since]
    <2>1. FlightBar[k] = FlightOf(k)
        BY DEF FlightBar
    <2> HIDE DEF joined
    <2>2. FlightBar' = [FlightBar EXCEPT ![k] = joined]
        BY DEF FlightBar, joined
    <2> QED BY <2>1, <2>2 DEF joined
<1>2. GotBar' = GotBar
    BY DEF GotBar
<1>3. SF!Idle(c)
    BY DEF SF!Idle, SF!Nothing, Pending
<1> QED BY <1>1, <1>2, <1>3 DEF SF!Ask, FlightBar, GotBar

\* To join a call is to ask while an attempt is under way.
LEMMA JoinAsks ==
    ASSUME Inv, NEW c \in Requests, Join(c)
    PROVE  FlightInv' /\ \E k \in Keys : SF!Ask(c, k)
<1>0. PICK k \in Keys, i \in Calls : k = request[c].key /\ i = inflight[k]
    BY Typed DEF Join, UnderWay
<1>1. i = inflight[k] /\ i # NoCall /\ request[c].pc = "asking" /\ ~Holds(c) /\ ~Leads(c)
    BY <1>0, Typed DEF Join, Holds, Leads
<1>2. UNCHANGED <<chain, inflight, call>>
    BY DEF Join, flights
<1>3. /\ request'[c].pc = "waiting" /\ request'[c].key = k /\ request'[c].call = i
      /\ \A d \in Requests \ {c} : request'[d] = request[d]
    BY <1>0, Typed DEF Join, Request
<1>4. \A d \in Requests \ {c} : OutcomeOf(d)' = OutcomeOf(d)
    BY <1>2, <1>3, OutcomeStays DEF OffTheMap
<1>5. OutcomeOf(c) = Pending /\ OutcomeOf(c)' = Pending
    BY <1>1, <1>2, <1>3 DEF OutcomeOf
<1>6. Holders(i)' = Holders(i) \cup {c}
    BY <1>3 DEF Holders, Holds, Leads
<1>7. \A j : j # i => Holders(j)' = Holders(j)
    BY <1>1, <1>3 DEF Holders, Holds, Leads
<1>8. /\ Holders(i) # {}
      /\ \A d \in Holders(i) : request[d].key = k
      /\ \A l \in Keys \ {k} : inflight[l] # i
    BY <1>1, RegisteredHeld
<1>9. \A l \in Keys \ {k} : FlightOf(l)' = FlightOf(l)
    BY <1>2, <1>7, <1>8 DEF FlightOf
<1>10. /\ FlightOf(k) = [members |-> Holders(i), since |-> call[i].since]
       /\ FlightOf(k)' = [members |-> Holders(i) \cup {c}, since |-> call[i].since]
    BY <1>1, <1>2, <1>6 DEF FlightOf
<1>11. \A l \in Keys : c \notin FlightOf(l).members
    BY <1>1 DEF FlightOf, Holders
<1>12. FlightOf(k) # [members |-> {}, since |-> 0]
    BY <1>8, <1>10
<1>13. FlightOf(k)' = [members |-> FlightOf(k).members \cup {c},
                       since |-> IF FlightOf(k) = SF!NoFlight THEN chain
                                 ELSE FlightOf(k).since]
    BY <1>10, <1>12 DEF SF!NoFlight
<1>14. SF!Ask(c, k)
    BY <1>2, <1>4, <1>5, <1>9, <1>11, <1>13, AskSeen
<1>15. /\ Holds(c)' /\ ~Leads(c)' /\ ~OffTheMap(c)'
       /\ \A d \in Requests \ {c} : /\ Holds(d)' <=> Holds(d)
                                    /\ Leads(d)' <=> Leads(d)
                                    /\ OffTheMap(d)' <=> OffTheMap(d)
    BY <1>1, <1>2, <1>3 DEF Holds, Leads, OffTheMap
<1>16. ~call[i].over
    <2>1. PICK d \in Holders(i) : TRUE
        BY <1>8
    <2>2. Holds(d) /\ request[d].call = i /\ ~OffTheMap(d)
        BY <1>1, <2>1, RegisteredHeld DEF Holders
    <2> QED BY <2>1, <2>2 DEF Inv, FlightInv, ReleasedIsOff, Holders
<1>17. LeaderOnMap' /\ OneLeader'
    BY <1>2, <1>3, <1>15 DEF Inv, FlightInv, LeaderOnMap, OneLeader
<1>18. HoldersAgree'
    BY <1>3, <1>8, <1>15 DEF Inv, FlightInv, HoldersAgree, Holders
<1>19. OutcomeKnown' /\ ReleasedIsOff'
    BY <1>2, <1>3, <1>15, <1>16 DEF Inv, FlightInv, OutcomeKnown, ReleasedIsOff
<1>20. OutcomeInRange' /\ ChainTaken'
    BY <1>2, <1>3 DEF Inv, FlightInv, OutcomeInRange, ChainTaken
<1> QED BY <1>14, <1>17, <1>18, <1>19, <1>20 DEF FlightInv

\* To lead is to ask with no attempt under way.
LEMMA LeadAsks ==
    ASSUME Inv, NEW c \in Requests, Lead(c)
    PROVE  FlightInv' /\ \E k \in Keys : SF!Ask(c, k)
<1>0. PICK k \in Keys : k = request[c].key
    BY Typed
<1>1. PICK i \in Calls : /\ Holders(i) = {}
                         /\ call' = [call EXCEPT ![i] = NewCall(chain)]
                         /\ inflight' = [inflight EXCEPT ![k] = i]
                         /\ request' = [request EXCEPT ![c].pc = "leading", ![c].call = i]
    BY <1>0 DEF Lead
<1>2. /\ inflight[k] = NoCall /\ i # NoCall
      /\ request[c].pc = "asking" /\ ~Holds(c) /\ chain' = chain
    BY <1>0, Typed DEF Lead, UnderWay, Holds, Leads
<1>3. /\ request'[c].pc = "leading" /\ request'[c].key = k /\ request'[c].call = i
      /\ \A d \in Requests \ {c} : request'[d] = request[d]
    BY <1>0, <1>1, Typed DEF Request
<1>4. /\ inflight'[k] = i
      /\ \A l \in Keys \ {k} : inflight'[l] = inflight[l]
      /\ call'[i] = [since |-> chain, result |-> Pending, over |-> FALSE]
      /\ \A j \in Calls \ {i} : call'[j] = call[j]
    BY <1>1, Typed DEF NewCall
<1>5. \A d \in Requests \ {c} : Holds(d) => /\ request[d].call \in Calls \ {i}
                                            /\ OffTheMap(d)' <=> OffTheMap(d)
    <2> SUFFICES ASSUME NEW d \in Requests \ {c}, Holds(d)
                 PROVE  request[d].call \in Calls \ {i} /\ (OffTheMap(d)' <=> OffTheMap(d))
        OBVIOUS
    <2>1. request[d].call \in Calls \ {i} /\ request[d].key \in Keys
        BY <1>1, Typed DEF Holders
    <2> QED BY <2>1, <1>2, <1>3, <1>4, Typed DEF OffTheMap
<1>6. \A d \in Requests \ {c} : OutcomeOf(d)' = OutcomeOf(d)
    BY <1>3, <1>4, <1>5, OutcomeStays
<1>7. OutcomeOf(c) = Pending /\ OutcomeOf(c)' = Pending
    BY <1>2, <1>3, <1>4 DEF OutcomeOf
<1>8. Holders(i)' = {c}
    BY <1>1, <1>3 DEF Holders, Holds, Leads
<1>9. \A j : j # i => Holders(j)' = Holders(j)
    BY <1>2, <1>3 DEF Holders, Holds, Leads
<1>10. \A l \in Keys \ {k} : inflight[l] # NoCall => inflight[l] \in Calls \ {i}
    BY <1>1, RegisteredHeld
<1>11. \A l \in Keys \ {k} : FlightOf(l)' = FlightOf(l)
    BY <1>4, <1>9, <1>10 DEF FlightOf
<1>12. /\ FlightOf(k) = [members |-> {}, since |-> 0]
       /\ FlightOf(k)' = [members |-> {c}, since |-> chain]
    BY <1>2, <1>4, <1>8 DEF FlightOf
<1>13. \A l \in Keys : c \notin FlightOf(l).members
    BY <1>2 DEF FlightOf, Holders
<1>14. FlightOf(k)' = [members |-> FlightOf(k).members \cup {c},
                       since |-> IF FlightOf(k) = SF!NoFlight THEN chain
                                 ELSE FlightOf(k).since]
    BY <1>12 DEF SF!NoFlight
<1>15. SF!Ask(c, k)
    BY <1>2, <1>6, <1>7, <1>11, <1>13, <1>14, AskSeen
<1>16. /\ Holds(c)' /\ Leads(c)' /\ ~OffTheMap(c)'
       /\ \A d \in Requests \ {c} : (Holds(d)' <=> Holds(d)) /\ (Leads(d)' <=> Leads(d))
    BY <1>3, <1>4 DEF Holds, Leads, OffTheMap
<1>17. \A d \in Requests \ {c} : Leads(d) => request[d].key # k /\ ~OffTheMap(d)
    BY <1>2, Typed DEF Inv, FlightInv, LeaderOnMap, OffTheMap
<1>18. LeaderOnMap'
    BY <1>5, <1>16, <1>17, Typed DEF LeaderOnMap, OffTheMap
<1>19. OneLeader'
    BY <1>3, <1>16, <1>17 DEF Inv, FlightInv, OneLeader
<1>20. HoldersAgree'
    BY <1>3, <1>5, <1>16 DEF Inv, FlightInv, HoldersAgree
<1>21. OutcomeKnown' /\ ReleasedIsOff'
    BY <1>3, <1>4, <1>5, <1>16 DEF Inv, FlightInv, OutcomeKnown, ReleasedIsOff
<1>22. OutcomeInRange'
    <2>1. chain \in chain..chain /\ chain <= chain
        BY Typed
    <2> QED BY <1>2, <1>4, <2>1 DEF Inv, FlightInv, OutcomeInRange
<1>23. ChainTaken'
    BY <1>2, <1>3, <1>4, <1>5 DEF Inv, FlightInv, ChainTaken, Holds, Leads
<1> QED BY <1>15, <1>18, <1>19, <1>20, <1>21, <1>22, <1>23 DEF FlightInv

\* Taking the call off the map gives everyone who holds it its outcome.
LEMMA EndCallLands ==
    ASSUME Inv, NEW c \in Requests, EndCall(c)
    PROVE  FlightInv' /\ \E k \in Keys, outcome \in {Failed} \cup (0..chain) : SF!Land(k, outcome)
<1>0. PICK k \in Keys, i \in Calls : k = request[c].key /\ i = request[c].call
    BY Typed DEF EndCall, Leads
<1>1. /\ i # NoCall /\ inflight[k] = i
      /\ request[c].pc = "landed" /\ Holds(c) /\ Leads(c)
    BY <1>0, Typed DEF EndCall, Holds, Leads, Inv, FlightInv, LeaderOnMap
<1>2. UNCHANGED <<chain, call>>
    BY DEF EndCall
<1>3. /\ request'[c].pc = "leaving" /\ request'[c].key = k /\ request'[c].call = i
      /\ \A d \in Requests \ {c} : request'[d] = request[d]
    BY <1>0, Typed DEF EndCall, To, Request
<1>4. inflight'[k] = NoCall /\ \A l \in Keys \ {k} : inflight'[l] = inflight[l]
    BY <1>0, Typed DEF EndCall, Deregister
<1> DEFINE outcome == call[i].result
<1>5. outcome \in {Failed} \cup (call[i].since..chain) /\ call[i].since \in Nat
      /\ outcome # Pending
    BY <1>0, <1>1, Typed DEF Inv, FlightInv, OutcomeKnown, OutcomeInRange
<1>6. \A d \in Requests : /\ Holds(d)' <=> Holds(d)
                          /\ request'[d].key = request[d].key
                          /\ request'[d].call = request[d].call
    BY <1>0, <1>1, <1>3 DEF Holds, Leads
<1>7. \A j : Holders(j)' = Holders(j)
    BY <1>6 DEF Holders
<1>8. \A l \in Keys \ {k} : FlightOf(l)' = FlightOf(l)
    BY <1>2, <1>4, <1>7 DEF FlightOf
<1>9. /\ FlightOf(k) = [members |-> Holders(i), since |-> call[i].since]
      /\ FlightOf(k)' = [members |-> {}, since |-> 0]
      /\ c \in Holders(i)
    BY <1>0, <1>1, <1>4 DEF FlightOf, Holders
<1>10. ASSUME NEW d \in Requests, Holds(d)
       PROVE  OffTheMap(d)' <=> OffTheMap(d) \/ request[d].call = i
    <2>1. request[d].call \in Calls /\ request[d].key \in Keys
        BY <1>10, Typed
    <2>2. request[d].call = i => request[d].key = k
        BY <1>0, <1>1, <1>10 DEF Inv, FlightInv, HoldersAgree
    <2> QED BY <1>1, <1>4, <1>6, <2>1, <2>2, Typed DEF OffTheMap
<1>11. ASSUME NEW d \in Holders(i) PROVE OutcomeOf(d)' = outcome
    BY <1>2, <1>6, <1>10 DEF OutcomeOf, Holders, OffTheMap
<1>12. ASSUME NEW d \in Requests \ Holders(i) PROVE OutcomeOf(d)' = OutcomeOf(d)
    BY <1>2, <1>6, <1>10 DEF OutcomeOf, Holders, OffTheMap
<1>13. FlightOf(k) # [members |-> {}, since |-> 0]
    BY <1>9
<1>14. SF!Land(k, outcome)
    <2>1. FlightBar' = [FlightBar EXCEPT ![k] = SF!NoFlight]
        BY <1>8, <1>9 DEF FlightBar, SF!NoFlight
    <2>2. GotBar' = [d \in Requests |-> IF d \in FlightBar[k].members THEN outcome
                                        ELSE GotBar[d]]
        BY <1>9, <1>11, <1>12 DEF GotBar, FlightBar
    <2>3. /\ FlightBar[k] # SF!NoFlight
          /\ outcome = SF!Failed \/ outcome \in FlightBar[k].since..chain
        BY <1>5, <1>9, <1>13 DEF FlightBar, SF!NoFlight, SF!Failed, Failed
    <2> QED BY <2>1, <2>2, <2>3, <1>2 DEF SF!Land, FlightBar, GotBar
<1>15. outcome \in {Failed} \cup (0..chain)
    BY <1>5, Typed
<1> HIDE DEF outcome
<1>16. ~Leads(c)' /\ \A d \in Requests \ {c} : Leads(d)' <=> Leads(d)
    BY <1>3 DEF Leads
<1>17. \A d \in Requests \ {c} : Leads(d) => request[d].key # k /\ request[d].key \in Keys
    BY <1>0, <1>1, Typed DEF Inv, FlightInv, OneLeader
<1>18. LeaderOnMap' /\ OneLeader'
    BY <1>4, <1>6, <1>16, <1>17 DEF Inv, FlightInv, LeaderOnMap, OneLeader
<1>19. HoldersAgree'
    BY <1>6 DEF Inv, FlightInv, HoldersAgree
<1>20. OutcomeKnown'
    BY <1>2, <1>3, <1>5, <1>6, <1>10 DEF Inv, FlightInv, OutcomeKnown, outcome
<1>21. ReleasedIsOff'
    BY <1>0, <1>2, <1>3, <1>6, <1>10 DEF Inv, FlightInv, ReleasedIsOff
<1>22. OutcomeInRange' /\ ChainTaken'
    BY <1>2, <1>3 DEF Inv, FlightInv, OutcomeInRange, ChainTaken
<1> QED BY <1>14, <1>15, <1>18, <1>19, <1>20, <1>21, <1>22 DEF FlightInv

\* The leader and the waiters return the outcome.
LEMMA ReplyReturns ==
    ASSUME Inv, NEW c \in Requests, Leave(c) \/ Wake(c)
    PROVE  FlightInv' /\ SF!Return(c)
<1> DEFINE i == request[c].call
           kept == IF Leave(c) THEN [call[i] EXCEPT !.over = TRUE] ELSE call[i]
           v == IF Holders(i) = {c} THEN NewCall(0) ELSE kept
<1>1. /\ request' = [request EXCEPT ![c] = NoRequest]
      /\ call' = [call EXCEPT ![i] = v]
      /\ UNCHANGED <<chain, inflight>>
      /\ request[c].pc = "leaving" \/ (request[c].pc = "waiting" /\ call[i].over)
    BY DEF Leave, Wake, Reply, Drop
<1>2. Holds(c) /\ ~Leads(c) /\ i \in Calls
    BY <1>1, Typed DEF Holds, Leads
<1>3. OffTheMap(c)
    BY <1>1, <1>2 DEF Inv, FlightInv, ReleasedIsOff
<1>4. /\ request'[c] = NoRequest
      /\ \A d \in Requests \ {c} : request'[d] = request[d]
    BY <1>1, Typed
<1>5. /\ ~Leads(c)' /\ ~Holds(c)'
      /\ \A d \in Requests \ {c} : /\ Leads(d)' <=> Leads(d)
                                   /\ Holds(d)' <=> Holds(d)
                                   /\ OffTheMap(d)' <=> OffTheMap(d)
    BY <1>1, <1>4, NoRequestType DEF Leads, Holds, OffTheMap
<1>6. call'[i] = v /\ \A j \in Calls \ {i} : call'[j] = call[j]
    BY <1>1, <1>2, Typed
<1>7. kept.result = call[i].result /\ kept.since = call[i].since
    BY <1>2, Typed DEF Call
<1>8. \A d \in Requests \ {c} : Holds(d) /\ request[d].call = i => v = kept /\ OffTheMap(d)
    <2> SUFFICES ASSUME NEW d \in Requests \ {c}, Holds(d), request[d].call = i
                 PROVE  v = kept /\ OffTheMap(d)
        OBVIOUS
    <2>1. v = kept
        BY DEF Holders
    <2>2. OffTheMap(d)
        BY <1>2, <1>3 DEF Inv, FlightInv, HoldersAgree, OffTheMap
    <2> QED BY <2>1, <2>2
<1> HIDE DEF v, kept
<1>9. \A d \in Requests \ {c} : Holds(d) =>
          /\ request[d].call \in Calls
          /\ call'[request[d].call].result = call[request[d].call].result
          /\ call'[request[d].call].since = call[request[d].call].since
          /\ call'[request[d].call].over => call[request[d].call].over \/ OffTheMap(d)
    BY <1>6, <1>7, <1>8, Typed
<1>10. OutcomeOf(c) # Pending /\ OutcomeOf(c)' = Pending
    BY <1>2, <1>3, <1>5 DEF OutcomeOf, OffTheMap, Inv, FlightInv, OutcomeKnown
<1>11. ASSUME NEW d \in Requests \ {c} PROVE OutcomeOf(d)' = OutcomeOf(d)
    BY <1>4, <1>5, <1>9, OutcomeStays
<1>12. ASSUME NEW l \in Keys PROVE FlightOf(l)' = FlightOf(l)
    <2>1. CASE inflight[l] = NoCall
        BY <1>1, <2>1 DEF FlightOf
    <2>2. CASE inflight[l] # NoCall
        <3>1. inflight[l] \in Calls /\ c \notin Holders(inflight[l])
            BY <1>3, <2>2, RegisteredHeld
        <3>2. inflight[l] \in Calls \ {i}
            BY <1>2, <3>1 DEF Holders
        <3>3. Holders(inflight[l])' = Holders(inflight[l])
            BY <1>1, <1>4, <1>5, <3>1 DEF Holders
        <3> QED BY <1>1, <1>6, <2>2, <3>2, <3>3 DEF FlightOf
    <2> QED BY <2>1, <2>2
<1>13. SF!Return(c)
    <2>1. FlightBar' = FlightBar
        BY <1>12 DEF FlightBar
    <2>2. GotBar' = [GotBar EXCEPT ![c] = Pending]
        <3>1. GotBar' = [d \in Requests |-> IF d = c THEN Pending ELSE GotBar[d]]
            BY <1>10, <1>11 DEF GotBar
        <3>2. GotBar = [d \in Requests |-> GotBar[d]]
            BY DEF GotBar
        <3> QED BY <3>1, <3>2
    <2>3. GotBar[c] # Pending
        BY <1>10 DEF GotBar
    <2> QED BY <1>1, <2>1, <2>2, <2>3 DEF SF!Return, SF!Nothing, Pending, FlightBar, GotBar
<1>14. LeaderOnMap' /\ OneLeader' /\ HoldersAgree'
    BY <1>1, <1>4, <1>5 DEF Inv, FlightInv, LeaderOnMap, OneLeader, HoldersAgree
<1>15. OutcomeKnown' /\ ReleasedIsOff'
    BY <1>4, <1>5, <1>9 DEF Inv, FlightInv, OutcomeKnown, ReleasedIsOff
<1>16. OutcomeInRange'
    <2>1. v.since \in {0, call[i].since} /\ v.result \in {Pending, call[i].result}
          /\ (v.since = 0 => v.result = Pending \/ call[i].since = 0)
          /\ (v.result # Pending => v.since = call[i].since)
        BY <1>7 DEF v, NewCall
    <2>2. 0 <= chain
        BY Typed
    <2> QED BY <1>1, <1>2, <1>6, <2>1, <2>2 DEF Inv, FlightInv, OutcomeInRange
<1>17. ChainTaken'
    BY <1>1, <1>4, <1>9, NoRequestType DEF Inv, FlightInv, ChainTaken, Holds, Leads
<1> QED BY <1>13, <1>14, <1>15, <1>16, <1>17 DEF FlightInv

\* The other steps of a request, of a reload and of time touch no flight.
LEMMA OthersUnseen ==
    ASSUME Inv, [Next]_vars,
           \A r \in Requests : ~(Join(r) \/ Lead(r) \/ ChainReturns(r) \/ EndCall(r)
                                 \/ Leave(r) \/ Wake(r))
    PROVE  /\ UNCHANGED <<inflight, call>>
           /\ chain' = chain \/ ApplyUpstream
           /\ \A d \in Requests :
                /\ SameHolding(d)
                /\ request'[d].pc = "calling" => Holds(d)
                /\ Holds(d) => \/ /\ request'[d].pc = request[d].pc
                                  /\ request'[d].chain = request[d].chain
                               \/ request'[d].pc = "calling" /\ request'[d].chain = chain
<1> DEFINE Free(pc) == pc \in {"idle", "arrived", "admitted", "asking"}
<1>1. ASSUME UNCHANGED request
      PROVE  \A d \in Requests :
                /\ SameHolding(d)
                /\ request'[d].pc = "calling" => Holds(d)
                /\ request'[d].pc = request[d].pc /\ request'[d].chain = request[d].chain
    BY <1>1 DEF SameHolding, Holds, Leads
<1>2. ASSUME NEW r \in Requests, NEW q, request' = [request EXCEPT ![r] = q],
             Free(request[r].pc), Free(q.pc)
      PROVE  \A d \in Requests :
                /\ SameHolding(d)
                /\ request'[d].pc = "calling" => Holds(d)
                /\ Holds(d) => request'[d].pc = request[d].pc /\ request'[d].chain = request[d].chain
    <2>1. request'[r] = q /\ \A d \in Requests \ {r} : request'[d] = request[d]
        BY <1>2, Typed
    <2> QED BY <1>2, <2>1 DEF SameHolding, Holds, Leads
<1>3. ASSUME NEW r \in Requests, NEW via, NEW s, NEW k, NEW authorized,
             Arrive(r, via, s, k, authorized)
      PROVE  UNCHANGED request \/ \E q : request' = [request EXCEPT ![r] = q]
                                         /\ Free(request[r].pc) /\ Free(q.pc)
    <2> DEFINE q == [NoRequest EXCEPT !.pc = "arrived", !.via = via, !.source = s, !.key = k,
                                      !.limiter = security]
    <2>1. Free(q.pc)
        BY DEF NoRequest
    <2> QED BY <1>3, <2>1 DEF Arrive
<1>4. ASSUME NEW r \in Requests, Unlimited(r) \/ Limited(r) \/ Malformed(r) \/ Judge(r)
      PROVE  \E q : request' = [request EXCEPT ![r] = q] /\ Free(request[r].pc) /\ Free(q.pc)
    <2> DEFINE a == [NoRequest EXCEPT !.pc = "admitted", !.key = request[r].key]
               j == [request[r] EXCEPT !.pc = "asking", !.deadline = now + Deadline]
    <2>1. Free(a.pc) /\ Free(NoRequest.pc) /\ Free(j.pc)
        BY Typed DEF NoRequest, Request
    <2>2. \/ request' = [request EXCEPT ![r] = a]
          \/ request' = [request EXCEPT ![r] = NoRequest]
          \/ request' = [request EXCEPT ![r] = j]
        BY <1>4 DEF Unlimited, Limited, Malformed, Judge, Admit, Reply
    <2>3. Free(request[r].pc)
        BY <1>4 DEF Unlimited, Limited, Malformed, Judge
    <2> HIDE DEF a, j
    <2> QED BY <2>1, <2>2, <2>3
<1>5. ASSUME NEW r \in Requests, TakeChain(r)
      PROVE  \A d \in Requests :
                /\ SameHolding(d)
                /\ request'[d].pc = "calling" => Holds(d)
                /\ Holds(d) => \/ /\ request'[d].pc = request[d].pc
                                  /\ request'[d].chain = request[d].chain
                               \/ request'[d].pc = "calling" /\ request'[d].chain = chain
    <2>1. /\ request[r].pc = "leading"
          /\ request'[r].pc = "calling" /\ request'[r].chain = chain
          /\ request'[r].key = request[r].key /\ request'[r].call = request[r].call
          /\ \A d \in Requests \ {r} : request'[d] = request[d]
        BY <1>5, Typed DEF TakeChain, Request
    <2> QED BY <2>1 DEF SameHolding, Holds, Leads
<1>6. UNCHANGED <<inflight, call>> /\ (chain' = chain \/ ApplyUpstream)
    BY DEF Next, Proceed, Arrive, Unlimited, Limited, Malformed, Judge, TakeChain, ApplySecurity,
           ApplyUpstream, Tick, flights, vars
<1>7. \/ UNCHANGED request
      \/ \E r \in Requests : \E q : request' = [request EXCEPT ![r] = q]
                                    /\ Free(request[r].pc) /\ Free(q.pc)
      \/ \E r \in Requests : TakeChain(r)
    BY <1>3, <1>4 DEF Next, Proceed, ApplySecurity, ApplyUpstream, Tick, vars
<1> HIDE DEF Free
<1> QED BY <1>1, <1>2, <1>5, <1>6, <1>7

\* Every step of the relay is a step of SingleFlight or a stutter.
LEMMA StepImplements ==
    Inv /\ [Next]_vars => FlightInv' /\ [SF!Next]_(SF!vars)
<1> SUFFICES ASSUME Inv, [Next]_vars PROVE FlightInv' /\ [SF!Next]_(SF!vars)
    OBVIOUS
<1>1. ASSUME chain' = chain, FlightBar' = FlightBar, GotBar' = GotBar
      PROVE  UNCHANGED SF!vars
    BY <1>1 DEF SF!vars, FlightBar, GotBar
<1>2. ASSUME NEW r \in Requests, Join(r) \/ Lead(r)
      PROVE  FlightInv' /\ SF!Next
    BY <1>2, JoinAsks, LeadAsks DEF SF!Next
<1>3. ASSUME NEW r \in Requests, ChainReturns(r)
      PROVE  FlightInv' /\ UNCHANGED SF!vars
    BY <1>1, <1>3, ChainReturnsUnseen DEF ChainReturns
<1>4. ASSUME NEW r \in Requests, EndCall(r)
      PROVE  FlightInv' /\ SF!Next
    BY <1>4, EndCallLands DEF SF!Next, SF!Failed, Failed
<1>5. ASSUME NEW r \in Requests, Leave(r) \/ Wake(r)
      PROVE  FlightInv' /\ SF!Next
    BY <1>5, ReplyReturns DEF SF!Next
<1>6. ASSUME \A r \in Requests : ~(Join(r) \/ Lead(r) \/ ChainReturns(r) \/ EndCall(r)
                                   \/ Leave(r) \/ Wake(r))
      PROVE  FlightInv' /\ [SF!Next]_(SF!vars)
    <2>1. (chain' = chain \/ chain' = chain + 1) /\ (chain' # chain => ApplyUpstream)
        BY <1>6, OthersUnseen DEF ApplyUpstream
    <2>2. FlightInv' /\ FlightBar' = FlightBar /\ GotBar' = GotBar
        <3>1. chain' \in Nat /\ chain <= chain'
            BY <2>1, Typed
        <3> QED BY <1>6, <3>1, OthersUnseen, HoldingStays
    <2>3. CASE chain' = chain
        BY <1>1, <2>2, <2>3
    <2>4. CASE chain' = chain + 1
        <3>1. SF!WorldChanges
            BY <2>2, <2>4 DEF SF!WorldChanges, FlightBar, GotBar
        <3> QED BY <2>2, <3>1 DEF SF!Next
    <2> QED BY <2>1, <2>3, <2>4
<1> QED BY <1>2, <1>3, <1>4, <1>5, <1>6

\* The relay's coalescing keeps the same promise as the resolver's: whoever asks while
\* an attempt for the key runs gets the outcome of that attempt, from a chain that
\* was in force when the attempt began or since, although reloads replace the chain
\* under way and DoH and DoT share the calls.
THEOREM RelayCoalesces == Spec => ImplementsSingleFlight
<1>1. Init => FlightInv /\ SF!Init
    <2> SUFFICES ASSUME Init PROVE FlightInv /\ SF!Init
        OBVIOUS
    <2>1. \A c \in Requests : ~Holds(c) /\ ~Leads(c) /\ request[c].pc = "idle"
        BY DEF Init, Holds, Leads, NoRequest
    <2>2. OutcomeInRange
        BY DEF Init, OutcomeInRange, NewCall
    <2>3. FlightInv
        BY <2>1, <2>2 DEF FlightInv, LeaderOnMap, OneLeader, HoldersAgree, OutcomeKnown,
                          ReleasedIsOff, ChainTaken
    <2>4. SF!Init
        BY <2>1 DEF Init, SF!Init, SF!NoFlight, SF!Nothing, FlightOf, OutcomeOf, Pending
    <2> QED BY <2>3, <2>4
<1>2. IInv /\ FlightInv /\ [Next]_vars => FlightInv' /\ [SF!Next]_(SF!vars)
    BY StepImplements DEF Inv
<1> QED BY <1>1, <1>2, Invariance, PTL DEF Spec, ImplementsSingleFlight, SF!Spec
=============================================================================
