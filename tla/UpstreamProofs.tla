--------------------------- MODULE UpstreamProofs ---------------------------
(***************************************************************************)
(* Theorems about EndpointHealth and about Upstream, which drives it.      *)
(* Of the tracker: whichever results, lookups and clock ticks come in      *)
(* which order, types hold and the counters explain the state.  Of the     *)
(* queries: they drive the tracker only in the ways HealthSpec allows; a   *)
(* query that fails has tried every server, and with a deadline per        *)
(* strategy has contacted a server of every transport; and plain DNS never *)
(* gets ahead of an encrypted transport in usable health.                  *)
(***************************************************************************)
EXTENDS Upstream, TLAPS, FiniteSetTheorems, SequenceTheorems, WellFoundedInduction

-----------------------------------------------------------------------------
(* The tracker.  Both facts are inductive together, endpoint by endpoint,  *)
(* so the lemmas are about one endpoint's statistics.                      *)


\* CountersExplainState, of one endpoint.
Explained(s) ==
    /\ s.consecutiveFailures = 0 \/ s.consecutiveSuccesses = 0
    /\ s.state = "healthy" => s.consecutiveFailures < DegradeThreshold
    /\ s.state = "degraded" => s.consecutiveFailures < UnhealthyThreshold
    /\ s.state # "healthy" => s.consecutiveSuccesses < RecoverThreshold
    /\ s.state = "probing" => now - s.unhealthySince >= Cooldown

\* What is shown of one endpoint by every lemma below.
Sound(s) == s \in Stats /\ Explained(s)

\* Counting saturates.
LEMMA OneMoreCounts ==
    ASSUME NEW limit \in Nat \ {0}, NEW count \in 0..limit
    PROVE  /\ OneMore(count, limit) \in 1..limit
           /\ OneMore(count, limit) < limit => count < limit
BY DEF OneMore

\* Zero is in the range of either counter.
LEMMA ZeroInRange ==
    0 \in 0..UnhealthyThreshold /\ 0 \in 0..RecoverThreshold
BY HealthAssumption

\* Noticing that a cooldown is over keeps an endpoint sound.
LEMMA RefreshedSound ==
    ASSUME HealthTypeOK, NEW s, Sound(s)
    PROVE  Sound(Refreshed(s))
<1>1. CASE s.state = "unhealthy" /\ now - s.unhealthySince >= Cooldown
    <2>1. Refreshed(s) = [s EXCEPT !.state = "probing"]
        BY <1>1 DEF Refreshed
    <2>2. Refreshed(s) \in Stats
        BY <2>1 DEF Sound, Stats, States
    <2>3. Explained(Refreshed(s))
        BY <1>1, <2>1 DEF Sound, Stats, Explained
    <2> QED BY <2>2, <2>3 DEF Sound
<1>2. CASE ~(s.state = "unhealthy" /\ now - s.unhealthySince >= Cooldown)
    BY <1>2 DEF Refreshed
<1> QED BY <1>1, <1>2

\* A success keeps an endpoint sound.
LEMMA SuccessSound ==
    ASSUME HealthTypeOK, NEW s, Sound(s), NEW ewma \in Latencies
    PROVE  Sound(OnSuccess([CountSuccess(s) EXCEPT !.ewma = ewma]))
<1> DEFINE counted == [CountSuccess(s) EXCEPT !.ewma = ewma]
<1>1. /\ counted \in Stats
      /\ counted.state = s.state
      /\ counted.consecutiveFailures = 0
      /\ counted.unhealthySince = s.unhealthySince
    <2>1. OneMore(s.consecutiveSuccesses, RecoverThreshold) \in 0..RecoverThreshold
        BY HealthAssumption, OneMoreCounts DEF Sound, Stats
    <2>2. /\ CountSuccess(s) \in Stats
          /\ CountSuccess(s).state = s.state
          /\ CountSuccess(s).consecutiveFailures = 0
          /\ CountSuccess(s).unhealthySince = s.unhealthySince
        <3> DEFINE n == OneMore(s.consecutiveSuccesses, RecoverThreshold)
        <3>1. CountSuccess(s) = [s EXCEPT !.consecutiveFailures = 0, !.consecutiveSuccesses = n]
            BY DEF CountSuccess
        <3>2. n \in 0..RecoverThreshold
            BY <2>1
        <3> HIDE DEF n
        <3> QED BY <3>1, <3>2, ZeroInRange DEF Sound, Stats
    <2> QED BY <2>2 DEF Stats
<1> HIDE DEF counted
<1> SUFFICES Sound(OnSuccess(counted))
    BY DEF counted
<1>2. CASE \/ counted.state = "probing"
           \/ /\ counted.state \in {"degraded", "unhealthy"}
              /\ counted.consecutiveSuccesses >= RecoverThreshold
    <2>1. OnSuccess(counted) = [counted EXCEPT !.state = "healthy", !.consecutiveSuccesses = 0]
        BY <1>2 DEF OnSuccess
    <2>2. OnSuccess(counted) \in Stats
        BY <1>1, <2>1, ZeroInRange DEF Stats, States
    <2>3. Explained(OnSuccess(counted))
        BY <1>1, <2>1, HealthAssumption DEF Stats, Explained
    <2> QED BY <2>2, <2>3 DEF Sound
<1>3. CASE ~(\/ counted.state = "probing"
             \/ /\ counted.state \in {"degraded", "unhealthy"}
                /\ counted.consecutiveSuccesses >= RecoverThreshold)
    <2>1. OnSuccess(counted) = counted
        BY <1>3 DEF OnSuccess
    <2>2. counted.state # "healthy" => counted.consecutiveSuccesses < RecoverThreshold
        BY <1>1, <1>3, HealthAssumption DEF Stats, States
    <2>3. counted.state # "probing"
        BY <1>3
    <2> QED BY <1>1, <2>1, <2>2, <2>3, HealthAssumption DEF Sound, Explained
<1> QED BY <1>2, <1>3

\* A failure keeps an endpoint sound.
LEMMA FailureSound ==
    ASSUME HealthTypeOK, NEW s, Sound(s)
    PROVE  Sound(OnFailure(CountFailure(s)))
<1> DEFINE counted == CountFailure(s)
<1>1. /\ counted \in Stats
      /\ counted.state = s.state
      /\ counted.consecutiveSuccesses = 0
      /\ counted.consecutiveFailures = OneMore(s.consecutiveFailures, UnhealthyThreshold)
      /\ counted.unhealthySince = s.unhealthySince
    <2>1. OneMore(s.consecutiveFailures, UnhealthyThreshold) \in 0..UnhealthyThreshold
        BY HealthAssumption, OneMoreCounts DEF Sound, Stats
    <2> DEFINE n == OneMore(s.consecutiveFailures, UnhealthyThreshold)
    <2>2. counted = [s EXCEPT !.consecutiveSuccesses = 0, !.consecutiveFailures = n]
        BY DEF CountFailure
    <2>3. n \in 0..UnhealthyThreshold
        BY <2>1
    <2> HIDE DEF n, counted
    <2>4. /\ counted \in Stats
          /\ counted.state = s.state
          /\ counted.consecutiveSuccesses = 0
          /\ counted.consecutiveFailures = n
          /\ counted.unhealthySince = s.unhealthySince
        BY <2>2, <2>3, ZeroInRange DEF Sound, Stats
    <2> QED BY <2>4 DEF n
<1>2. s.state = "healthy" => counted.consecutiveFailures <= DegradeThreshold
    BY <1>1, HealthAssumption DEF Sound, Stats, Explained, OneMore
<1> HIDE DEF counted
<1>3. Demoted(counted) \in States
    BY <1>1 DEF Demoted, Stats, States
<1>4. OnFailure(counted) \in Stats
    BY <1>1, <1>3 DEF OnFailure, Stats, HealthTypeOK
<1>5. /\ OnFailure(counted).state = Demoted(counted)
      /\ OnFailure(counted).consecutiveFailures = counted.consecutiveFailures
      /\ OnFailure(counted).consecutiveSuccesses = 0
      /\ Demoted(counted) # "unhealthy" => OnFailure(counted).unhealthySince = counted.unhealthySince
    BY <1>1 DEF OnFailure, Stats
<1>6. /\ Demoted(counted) # "probing"
      /\ Demoted(counted) = "healthy" => counted.consecutiveFailures < DegradeThreshold
      /\ Demoted(counted) = "degraded" => counted.consecutiveFailures < UnhealthyThreshold
    BY <1>1, <1>2, HealthAssumption DEF Demoted, Stats, States
<1>7. Explained(OnFailure(counted))
    BY <1>5, <1>6, HealthAssumption DEF Explained
<1> QED BY <1>4, <1>7 DEF Sound, counted

-----------------------------------------------------------------------------
HealthInv == HealthTypeOK /\ CountersExplainState

\* The invariant, endpoint by endpoint.
LEMMA InvIsSound ==
    HealthInv <=> /\ now \in 0..MaxTime
                  /\ seen \subseteq Endpoints
                  /\ stats = [e \in Endpoints |-> stats[e]]
                  /\ \A e \in Endpoints : Sound(stats[e])
<1>1. ASSUME HealthInv
      PROVE  /\ stats = [e \in Endpoints |-> stats[e]]
             /\ \A e \in Endpoints : Sound(stats[e])
    BY <1>1 DEF HealthInv, HealthTypeOK, CountersExplainState, Sound, Explained
<1>2. ASSUME /\ stats = [e \in Endpoints |-> stats[e]]
             /\ \A e \in Endpoints : Sound(stats[e])
      PROVE  stats \in [Endpoints -> Stats] /\ CountersExplainState
    BY <1>2 DEF CountersExplainState, Sound, Explained
<1> QED BY <1>1, <1>2 DEF HealthInv, HealthTypeOK

\* It holds of a tracker that saw nothing.
LEMMA InitInv ==
    HealthInit => HealthInv
BY HealthAssumption DEF HealthInit, HealthInv, HealthTypeOK, CountersExplainState,
                        NewStats, Stats, States

\* Results, lookups and ticks keep every endpoint sound.
LEMMA StepInv ==
    HealthInv /\ [HealthNext]_health_vars => HealthInv'
<1> SUFFICES ASSUME HealthInv, [HealthNext]_health_vars
             PROVE  HealthInv'
    OBVIOUS
<1> USE HealthAssumption
<1>1. HealthTypeOK /\ \A e \in Endpoints : Sound(stats[e])
    BY InvIsSound DEF HealthInv
<1> DEFINE Kept == /\ now' = now
                   /\ seen' \subseteq Endpoints
                   /\ stats' = [e \in Endpoints |-> stats'[e]]
                   /\ \A e \in Endpoints : Sound(stats'[e])
<1>2. Kept => HealthInv'
    <2> SUFFICES ASSUME Kept PROVE HealthInv'
        OBVIOUS
    <2>1. \A e \in Endpoints : stats'[e] \in Stats
        BY DEF Sound
    <2>2. HealthTypeOK'
        BY <1>1, <2>1 DEF HealthTypeOK, Stats
    <2>3. CountersExplainState'
        BY DEF CountersExplainState, Sound, Explained
    <2> QED BY <2>2, <2>3 DEF HealthInv
<1>3. ASSUME NEW es \in SUBSET Endpoints, Refresh(es), seen' \subseteq Endpoints
      PROVE  Kept
    <2>1. \A e \in Endpoints : Sound(Refreshed(stats[e]))
        BY <1>1, RefreshedSound
    <2> QED BY <1>1, <1>3, <2>1 DEF Refresh
<1>4. ASSUME NEW e \in Endpoints, RecordSuccess(e)
      PROVE  Kept
    <2>1. PICK ewma \in Latencies :
            stats' = [stats EXCEPT ![e] =
                        OnSuccess([CountSuccess(Refreshed(stats[e])) EXCEPT !.ewma = ewma])]
        <3>1. \A observed \in Latencies : Blends(stats[e].ewma, observed) \subseteq Latencies
            BY DEF Blends
        <3> QED BY <1>4, <3>1 DEF RecordSuccess
    <2>3. Sound(OnSuccess([CountSuccess(Refreshed(stats[e])) EXCEPT !.ewma = ewma]))
        BY <1>1, RefreshedSound, SuccessSound
    <2> QED BY <1>1, <1>4, <2>1, <2>3 DEF RecordSuccess, HealthTypeOK
<1>5. ASSUME NEW e \in Endpoints, RecordFailure(e)
      PROVE  Kept
    <2>1. Sound(OnFailure(CountFailure(Refreshed(stats[e]))))
        BY <1>1, RefreshedSound, FailureSound
    <2> QED BY <1>1, <1>5, <2>1 DEF RecordFailure, HealthTypeOK
<1>6. ASSUME NEW e \in Endpoints, Look(e)
      PROVE  Kept
    BY <1>1, <1>3, <1>6 DEF Look, HealthTypeOK
<1>7. ASSUME NEW e \in Endpoints, LookAt(TransportOf[e])
      PROVE  Kept
    BY <1>1, <1>3, <1>7 DEF LookAt, Observed, HealthTypeOK
<1>8. CASE Tick
    <2>1. HealthTypeOK'
        BY <1>1, <1>8 DEF Tick, HealthTypeOK
    <2>2. CountersExplainState'
        BY <1>1, <1>8 DEF Tick, CountersExplainState, Sound, Explained, HealthTypeOK, Stats
    <2> QED BY <2>1, <2>2 DEF HealthInv
<1>9. CASE UNCHANGED health_vars
    BY <1>9 DEF health_vars, HealthInv, HealthTypeOK, CountersExplainState, Stats
<1> QED BY <1>2, <1>4, <1>5, <1>6, <1>7, <1>8, <1>9 DEF HealthNext

-----------------------------------------------------------------------------
\* The counters explain the state of every endpoint, for any thresholds, any
\* cooldown, any number of endpoints and any order of results and lookups.
THEOREM CountersAlwaysExplain ==
    HealthSpec => []CountersExplainState
<1>1. HealthSpec => []HealthInv
    BY InitInv, StepInv, PTL DEF HealthSpec
<1>2. HealthInv => CountersExplainState
    BY DEF HealthInv
<1> QED BY <1>1, <1>2, PTL

\* The variables of the tracker keep their types: no counter leaves its range,
\* no time of demotion lies after the end of the clock.
THEOREM TypeCorrect ==
    HealthSpec => []HealthTypeOK
<1>1. HealthSpec => []HealthInv
    BY InitInv, StepInv, PTL DEF HealthSpec
<1>2. HealthInv => HealthTypeOK
    BY DEF HealthInv
<1> QED BY <1>1, <1>2, PTL

-----------------------------------------------------------------------------
(* Sorting.                                                                *)

\* How many items come before the i-th.
Before(scores, i) ==
    {j \in DOMAIN scores : \/ scores[j] > scores[i]
                           \/ scores[j] = scores[i] /\ j < i}

Place(scores, i) == Cardinality(Before(scores, i))

Among(x, items) == \E n \in 1..Len(items) : items[n] = x

\* The first n positive numbers are n.
LEMMA IntervalSize ==
    ASSUME NEW n \in Nat
    PROVE  IsFiniteSet(1..n) /\ Cardinality(1..n) = n
BY FS_Interval

\* Every item has a place among the others.
LEMMA PlaceInRange ==
    ASSUME NEW scores \in Seq(Int), NEW i \in DOMAIN scores
    PROVE  /\ IsFiniteSet(Before(scores, i))
           /\ Place(scores, i) \in Nat
           /\ Place(scores, i) < Len(scores)
<1>1. PICK n \in Nat : n = Len(scores) /\ DOMAIN scores = 1..n
    BY LenProperties
<1>2. IsFiniteSet(1..n) /\ Cardinality(1..n) = n
    BY IntervalSize
<1>3. Before(scores, i) \subseteq 1..n /\ i \in 1..n /\ i \notin Before(scores, i)
    BY <1>1, ElementOfSeq DEF Before
<1>4. /\ IsFiniteSet(Before(scores, i))
      /\ Place(scores, i) \in Nat
      /\ Place(scores, i) <= n
      /\ Place(scores, i) = n => Before(scores, i) = 1..n
    BY <1>2, <1>3, FS_Subset, FS_CardinalityType DEF Place
<1> QED BY <1>1, <1>3, <1>4

\* Who comes before another has fewer before itself.
LEMMA PlacesDiffer ==
    ASSUME NEW scores \in Seq(Int), NEW i \in DOMAIN scores, NEW j \in Before(scores, i)
    PROVE  Place(scores, j) < Place(scores, i)
<1>1. \A k \in DOMAIN scores : scores[k] \in Int /\ k \in Int
    BY LenProperties, ElementOfSeq
<1>2. j \in DOMAIN scores
    BY DEF Before
<1>3. Before(scores, j) \subseteq Before(scores, i) /\ j \notin Before(scores, j)
    BY <1>1, <1>2 DEF Before
<1>4. /\ Place(scores, j) <= Place(scores, i)
      /\ Place(scores, j) = Place(scores, i) => Before(scores, j) = Before(scores, i)
    BY <1>3, PlaceInRange, FS_Subset DEF Place
<1>5. Place(scores, i) \in Nat /\ Place(scores, j) \in Nat
    BY <1>2, PlaceInRange
<1> QED BY <1>3, <1>4, <1>5

\* No two items share a place.
LEMMA PlacesUnique ==
    ASSUME NEW scores \in Seq(Int), NEW i \in DOMAIN scores, NEW j \in DOMAIN scores,
           Place(scores, i) = Place(scores, j)
    PROVE  i = j
<1>1. scores[i] \in Int /\ scores[j] \in Int /\ i \in Int /\ j \in Int
    BY LenProperties, ElementOfSeq
<1>2. i # j => i \in Before(scores, j) \/ j \in Before(scores, i)
    BY <1>1 DEF Before
<1>3. Place(scores, i) \in Nat /\ Place(scores, j) \in Nat
    BY PlaceInRange
<1> QED BY <1>2, <1>3, PlacesDiffer

\* Every place is taken: there are as many places as items.
LEMMA PlacesTaken ==
    ASSUME NEW scores \in Seq(Int), NEW n \in DOMAIN scores
    PROVE  \E i \in DOMAIN scores : Place(scores, i) = n - 1
<1>1. PICK size \in Nat : size = Len(scores) /\ DOMAIN scores = 1..size
    BY LenProperties
<1> DEFINE f == [i \in 1..size |-> Place(scores, i) + 1]
<1>2. \A i \in 1..size : Place(scores, i) \in Nat /\ Place(scores, i) < size
    BY <1>1, PlaceInRange
<1>3. f \in [1..size -> 1..size]
    BY <1>2
<1>4. f \in Injection(1..size, 1..size)
    <2>1. ASSUME NEW i \in 1..size, NEW j \in 1..size, f[i] = f[j]
          PROVE  i = j
        <3>1. Place(scores, i) = Place(scores, j)
            BY <1>2, <2>1
        <3> QED BY <1>1, <3>1, PlacesUnique
    <2> QED BY <1>3, <2>1 DEF Injection, IsInjective
<1>5. f \in Surjection(1..size, 1..size)
    BY <1>4, IntervalSize, FS_Injection
<1>6. PICK i \in 1..size : f[i] = n
    BY <1>1, <1>5 DEF Surjection
<1> QED BY <1>1, <1>2, <1>6

\* Sorting permutes: the result has the same length and the same items.
LEMMA RankedPermutes ==
    ASSUME NEW S, NEW items \in Seq(S), NEW scores \in Seq(Int), Len(scores) = Len(items)
    PROVE  /\ Ranked(items, scores) \in Seq(S)
           /\ Len(Ranked(items, scores)) = Len(items)
           /\ \A x : Among(x, items) <=> Among(x, Ranked(items, scores))
<1>1. PICK size \in Nat : /\ size = Len(items)
                          /\ DOMAIN items = 1..size /\ DOMAIN scores = 1..size
    BY LenProperties
<1> DEFINE At(n) == CHOOSE i \in DOMAIN items : Place(scores, i) = n - 1
<1>2. Ranked(items, scores) = [n \in 1..size |-> items[At(n)]]
    BY <1>1 DEF Ranked, Place, Before
<1>3. \A n \in 1..size : At(n) \in 1..size /\ Place(scores, At(n)) = n - 1
    BY <1>1, PlacesTaken
<1>4. \A i \in 1..size : items[i] \in S
    BY <1>1, ElementOfSeq
<1>5. Ranked(items, scores) \in Seq(S)
    <2>1. \A n \in 1..size : items[At(n)] \in S
        BY <1>3, <1>4
    <2> HIDE DEF At
    <2> QED BY <1>2, <2>1, IsASeq
<1>6. ASSUME NEW i \in 1..size
      PROVE  \E n \in 1..size : Ranked(items, scores)[n] = items[i]
    <2> DEFINE n == Place(scores, i) + 1
    <2>1. n \in 1..size /\ Place(scores, i) \in Nat
        BY <1>1, PlaceInRange
    <2>2. Place(scores, At(n)) = Place(scores, i) /\ At(n) \in 1..size
        BY <1>3, <2>1
    <2>3. At(n) = i
        BY <1>1, <2>2, PlacesUnique
    <2> QED BY <1>2, <2>1, <2>3
<1>7. Len(Ranked(items, scores)) = size
    BY <1>2, <1>5, LenProperties
<1>8. ASSUME NEW x, Among(x, items)
      PROVE  Among(x, Ranked(items, scores))
    BY <1>1, <1>6, <1>7, <1>8 DEF Among
<1>9. ASSUME NEW x, Among(x, Ranked(items, scores))
      PROVE  Among(x, items)
    <2>1. PICK n \in 1..size : Ranked(items, scores)[n] = x
        BY <1>7, <1>9 DEF Among
    <2>2. items[At(n)] = x /\ At(n) \in 1..size
        BY <1>2, <1>3, <2>1
    <2> QED BY <1>1, <2>2 DEF Among
<1> QED BY <1>1, <1>5, <1>7, <1>8, <1>9

\* Taking the first item leaves the others.
LEMMA AmongTail ==
    ASSUME NEW S, NEW items \in Seq(S), items # <<>>
    PROVE  /\ Head(items) \in S /\ Tail(items) \in Seq(S)
           /\ Among(Head(items), items)
           /\ \A x : Among(x, items) <=> x = Head(items) \/ Among(x, Tail(items))
<1>1. PICK n \in Nat : n = Len(items) /\ n > 0
    BY LenProperties, EmptySeq
<1>2. /\ Head(items) \in S /\ Tail(items) \in Seq(S)
      /\ Len(Tail(items)) = n - 1
      /\ \A i \in 1..(n - 1) : Tail(items)[i] = items[i + 1]
    BY <1>1, HeadTailProperties
<1>3. Head(items) = items[1]
    OBVIOUS
<1>4. ASSUME NEW x, Among(x, items), x # Head(items)
      PROVE  Among(x, Tail(items))
    <2>1. PICK i \in 1..n : items[i] = x
        BY <1>1, <1>4 DEF Among
    <2>2. i - 1 \in 1..(n - 1)
        BY <1>3, <1>4, <2>1
    <2>3. Tail(items)[i - 1] = x
        BY <1>2, <2>1, <2>2
    <2> QED BY <1>2, <2>2, <2>3 DEF Among
<1>5. ASSUME NEW x, Among(x, Tail(items))
      PROVE  Among(x, items)
    <2>1. PICK i \in 1..(n - 1) : Tail(items)[i] = x
        BY <1>2, <1>5 DEF Among
    <2>2. items[i + 1] = x /\ i + 1 \in 1..n
        BY <1>1, <1>2, <2>1
    <2> QED BY <1>1, <2>2 DEF Among
<1>6. Among(Head(items), items)
    BY <1>1, <1>3 DEF Among
<1> QED BY <1>2, <1>4, <1>5, <1>6

\* Nothing is among no items, and what is among items has their type.
LEMMA AmongTypes ==
    ASSUME NEW S, NEW items \in Seq(S), NEW x, Among(x, items)
    PROVE  x \in S /\ items # <<>>
BY ElementOfSeq, EmptySeq DEF Among

-----------------------------------------------------------------------------
(* Scores are integers.                                                    *)

\* A set of naturals has a least element.
LEMMA LeastExists ==
    ASSUME NEW S \in SUBSET Nat, S # {}
    PROVE  \E l \in S : \A k \in S : l <= k
<1>1. PICK l \in S : \A k \in S : ~(<<k, l>> \in OpToRel(<, Nat))
    BY NatLessThanWellFounded, WFMin
<1>2. \A k \in S : ~(k < l)
    BY <1>1 DEF OpToRel
<1> QED BY <1>2

\* What is known of latencies.
LEMMA KnownLatencies ==
    ASSUME HealthTypeOK
    PROVE  /\ Latencies \cup {NoEWMA} \subseteq Nat
           /\ \A e \in Endpoints : stats[e] \in Stats /\ stats[e].ewma \in Latencies \cup {NoEWMA}
<1>1. Latencies \cup {NoEWMA} \subseteq Nat
    BY HealthAssumption DEF NoEWMA
<1>2. \A s \in Stats : s.ewma \in Latencies \cup {NoEWMA}
    BY DEF Stats
<1> QED BY <1>1, <1>2 DEF HealthTypeOK

\* A path's latency is one of its endpoints', or none is known.
LEMMA PathLatency ==
    ASSUME HealthTypeOK, NEW t
    PROVE  PathEWMA(t) \in Latencies \cup {NoEWMA} /\ PathEWMA(t) \in Nat
<1> DEFINE known == {stats[e].ewma : e \in Observed(t)} \ {NoEWMA}
<1>1. known \in SUBSET Nat /\ known \subseteq Latencies
    BY KnownLatencies DEF Observed, HealthTypeOK
<1>2. PathEWMA(t) = IF known = {} THEN NoEWMA
                    ELSE CHOOSE l \in known : \A k \in known : l <= k
    BY DEF PathEWMA
<1> HIDE DEF known
<1>3. CASE known = {}
    BY <1>2, <1>3 DEF NoEWMA
<1>4. CASE known # {}
    <2> DEFINE least == CHOOSE l \in known : \A k \in known : l <= k
    <2>1. \E l \in known : \A k \in known : l <= k
        BY <1>1, <1>4, LeastExists
    <2>2. least \in known
        BY <2>1
    <2>3. PathEWMA(t) = least
        BY <1>2, <1>4
    <2> QED BY <1>1, <2>2, <2>3
<1> QED BY <1>3, <1>4

\* Every score is an integer.
LEMMA ScoresAreIntegers ==
    ASSUME HealthTypeOK
    PROVE  /\ \A e \in Endpoints : Score(e) \in Int
           /\ \A t \in Transports :
                Base(PathState(t)) + Bonus(t, PathState(t)) - PathEWMA(t) \in Int
<1>1. \A e \in Endpoints : stats[e] \in Stats /\ stats[e].ewma \in Nat
    BY KnownLatencies
<1>2. ASSUME NEW e \in Endpoints
      PROVE  Score(e) \in Int
    <2>1. Refreshed(stats[e]).state \in States
        BY <1>1 DEF Refreshed, Stats, States
    <2>2. Base(Refreshed(stats[e]).state) \in Int
        BY <2>1 DEF Base, States
    <2> QED BY <1>1, <2>2 DEF Score
<1>3. ASSUME NEW t \in Transports
      PROVE  Base(PathState(t)) + Bonus(t, PathState(t)) - PathEWMA(t) \in Int
    <2>1. PathState(t) \in States
        BY DEF PathState, Best, States
    <2>2. Base(PathState(t)) \in Int /\ Bonus(t, PathState(t)) \in Int
        BY <2>1 DEF Base, Bonus, States
    <2> QED BY <2>2, PathLatency
<1> QED BY <1>2, <1>3

-----------------------------------------------------------------------------
(* The inductive invariant, of one query at a time.                        *)

QueryRecords ==
    [pc : {"idle", "ranking", "walking", "ordering", "trying", "waiting", "failed"},
     scores : Seq(Int), unhealthy : SUBSET Transports, slow : SUBSET Transports,
     paths : Seq(Transports), servers : Seq(Endpoints),
     started : Int, deadline : Int,
     tried : SUBSET Endpoints, contacted : SUBSET Endpoints, cut : SUBSET Transports]

AtTransport(r) == r.pc \in {"ordering", "trying", "waiting"}

\* Scores are read in order, and only of what is being sorted.
Reading(r) ==
    /\ r.pc = "ranking" => r.paths = Chain /\ Len(r.scores) < Len(Chain)
    /\ r.pc = "ordering" => Len(r.scores) < Len(r.servers)
    /\ r.pc \notin {"ranking", "ordering"} => r.scores = <<>>

\* The client at work is that of the first path, with servers of that path.
Placed(r) ==
    /\ AtTransport(r) =>
         /\ r.paths # <<>>
         /\ \A e \in Endpoints : Among(e, r.servers) => TransportOf[e] = Head(r.paths)
    /\ r.pc = "waiting" => r.servers # <<>> /\ Head(r.servers) \in r.tried
    /\ r.pc = "failed" => r.paths = <<>>

Tried(r, t) == \A e \in Endpoints : Among(e, ServersOf[t]) => e \in r.tried

\* No transport is forgotten, and no server of the one at work.
Covered(r) ==
    /\ r.pc # "idle" =>
         \A t \in Transports : Among(t, Chain) => \/ Among(t, r.paths)
                                                 \/ Tried(r, t) \/ t \in r.cut
    /\ AtTransport(r) =>
         \A e \in Endpoints :
            Among(e, ServersOf[Head(r.paths)]) => Among(e, r.servers) \/ e \in r.tried

Sent(r, t) == ServersOf[t] # <<>> => \E e \in r.contacted : TransportOf[e] = t

\* A transport is not left before the question was sent: until then there is a
\* server to send it to and time to do so.
Reached(r) ==
    /\ r.pc # "idle" =>
         \A t \in Transports : Among(t, Chain) => Among(t, r.paths) \/ Sent(r, t)
    /\ r.pc \in {"ordering", "trying"} =>
         \/ Sent(r, Head(r.paths))
         \/ r.servers # <<>> /\ now < r.deadline
    /\ r.pc = "waiting" => Sent(r, Head(r.paths))

QueryOK(r) ==
    /\ r \in QueryRecords
    /\ Reading(r) /\ Placed(r) /\ Covered(r)
    /\ ~SharedBudget => Reached(r)

QueriesOK ==
    /\ query = [q \in Queries |-> query[q]]
    /\ \A q \in Queries : QueryOK(query[q])

UpstreamInv == HealthInv /\ QueriesOK

\* One query moved on, soundly.
Moved(q) ==
    /\ now' = now
    /\ query' = [query EXCEPT ![q] = query'[q]]
    /\ QueryOK(query'[q])

\* The types behind every step.
LEMMA Typed ==
    ASSUME UpstreamInv
    PROVE  /\ now \in Int /\ HealthTypeOK
           /\ \A q \in Queries : QueryOK(query[q]) /\ query[q] \in QueryRecords
           /\ DOMAIN query = Queries
           /\ Chain \in Seq(Transports)
           /\ \A t \in Transports : ServersOf[t] \in Seq(Endpoints)
           /\ Budget \in Int /\ Budget > 0
BY UpstreamAssumption DEF UpstreamInv, HealthInv, HealthTypeOK, QueriesOK, QueryOK

\* A query that has not begun.
LEMMA NoQueryTyped ==
    NoQuery \in QueryRecords /\ NoQuery.scores = <<>> /\ NoQuery.pc = "idle"
<1>1. <<>> \in Seq(Int) /\ <<>> \in Seq(Endpoints) /\ <<>> \in Seq(Transports)
    BY EmptySeq
<1> QED BY <1>1 DEF NoQuery, QueryRecords

\* A query begins with every transport before it.
LEMMA AskMoves ==
    ASSUME UpstreamInv, NEW q \in Queries, Ask(q)
    PROVE  Moved(q)
<1> DEFINE pc == IF Adaptive /\ Len(Chain) > 1 THEN "ranking" ELSE "walking"
           d == now + Budget
           r == [NoQuery EXCEPT !.pc = pc, !.paths = Chain, !.deadline = d]
<1>1. query' = [query EXCEPT ![q] = r] /\ now' = now /\ query'[q] = r
    BY Typed DEF Ask, Set, health_vars
<1>2. d \in Int /\ pc \in {"ranking", "walking"} /\ (pc = "ranking" => Len(Chain) > 1)
    BY Typed
<1> HIDE DEF pc, d
<1>3. /\ r.pc = pc /\ r.paths = Chain /\ r.scores = <<>>
      /\ r \in QueryRecords
    BY <1>2, Typed, NoQueryTyped DEF QueryRecords
<1> HIDE DEF r
<1>4. QueryOK(r)
    BY <1>2, <1>3, EmptySeq DEF QueryOK, Reading, Placed, Covered, Reached, AtTransport
<1> QED BY <1>1, <1>4 DEF Moved

\* Ranking the paths keeps them all.
LEMMA RankPathMoves ==
    ASSUME UpstreamInv, NEW q \in Queries, RankPath(q)
    PROVE  Moved(q)
<1> DEFINE r == query[q]
           t == Chain[Len(r.scores) + 1]
           scores == Append(r.scores, Base(PathState(t)) + Bonus(t, PathState(t)) - PathEWMA(t))
           bad == IF Bad(t) THEN r.unhealthy \cup {t} ELSE r.unhealthy
           sl == IF Slow(t) THEN r.slow \cup {t} ELSE r.slow
           read == [r EXCEPT !.scores = scores, !.unhealthy = bad, !.slow = sl]
           ranked == Ranked(Chain, scores)
           done == [read EXCEPT !.pc = "walking", !.paths = ranked, !.scores = <<>>]
<1>1. /\ r.pc = "ranking" /\ now' = now
      /\ query' = [query EXCEPT ![q] = IF Len(scores) < Len(Chain) THEN read ELSE done]
    BY DEF RankPath, Set, LookAt, Refresh
<1>2. /\ r \in QueryRecords /\ QueryOK(r)
      /\ r.paths = Chain /\ r.scores \in Seq(Int) /\ Len(r.scores) < Len(Chain)
    BY <1>1, Typed DEF QueryOK, Reading, QueryRecords
<1>3. t \in Transports
    <2>1. Len(r.scores) + 1 \in 1..Len(Chain)
        BY <1>2, Typed, LenProperties
    <2> QED BY <2>1, Typed, ElementOfSeq
<1>4. scores \in Seq(Int) /\ Len(scores) = Len(r.scores) + 1
    BY <1>2, <1>3, Typed, ScoresAreIntegers, AppendProperties
<1>5. bad \in SUBSET Transports /\ sl \in SUBSET Transports
    BY <1>2, <1>3 DEF QueryRecords
<1> HIDE DEF scores, bad, sl, t
<1>6. CASE Len(scores) < Len(Chain)
    <2>1. /\ read \in QueryRecords /\ read.pc = "ranking" /\ read.paths = Chain
          /\ read.scores = scores
        BY <1>1, <1>2, <1>4, <1>5 DEF QueryRecords
    <2> HIDE DEF read
    <2>2. QueryOK(read)
        BY <1>6, <2>1 DEF QueryOK, Reading, Placed, Covered, Reached, AtTransport
    <2> QED BY <1>1, <1>6, <2>2, Typed DEF Moved
<1>7. CASE ~(Len(scores) < Len(Chain))
    <2>1. Len(scores) = Len(Chain)
        BY <1>2, <1>4, <1>7, Typed, LenProperties
    <2>2. ranked \in Seq(Transports) /\ \A x : Among(x, Chain) <=> Among(x, ranked)
        BY <1>4, <2>1, Typed, RankedPermutes
    <2> HIDE DEF ranked
    <2>3. /\ done \in QueryRecords /\ done.pc = "walking" /\ done.paths = ranked
          /\ done.scores = <<>>
        BY <1>2, <1>4, <1>5, <2>2, EmptySeq DEF QueryRecords
    <2> HIDE DEF done, read
    <2>4. QueryOK(done)
        BY <2>2, <2>3 DEF QueryOK, Reading, Placed, Covered, Reached, AtTransport
    <2> QED BY <1>1, <1>7, <2>4, Typed DEF Moved
<1> QED BY <1>6, <1>7

\* The next client is given a time of its own, or what is left of the relay's.
LEMMA CallTransportMoves ==
    ASSUME UpstreamInv, NEW q \in Queries, CallTransport(q)
    PROVE  Moved(q)
<1> DEFINE r == query[q]
           t == Head(r.paths)
           servers == ServersOf[t]
           pc == IF Len(servers) > 1 THEN "ordering" ELSE "trying"
           d == DeadlineAfter(r.deadline)
           r2 == [r EXCEPT !.pc = pc, !.servers = servers, !.deadline = d]
<1>1. /\ r.pc = "walking" /\ r.paths # <<>> /\ now' = now
      /\ query' = [query EXCEPT ![q] = r2]
    BY DEF CallTransport, Set, health_vars
<1>2. /\ r \in QueryRecords /\ QueryOK(r)
      /\ r.paths \in Seq(Transports) /\ r.deadline \in Int /\ r.scores = <<>>
    BY <1>1, Typed DEF QueryOK, Reading, QueryRecords
<1>3. t \in Transports /\ servers \in Seq(Endpoints)
    BY <1>1, <1>2, Typed, HeadTailProperties
<1>4. d \in Int /\ (~SharedBudget => now < d)
    BY <1>2, Typed DEF DeadlineAfter
<1>5. ASSUME NEW e \in Endpoints, Among(e, servers)
      PROVE  TransportOf[e] = t
    BY <1>3, <1>5, UpstreamAssumption, LenProperties DEF Among
<1>6. /\ pc \in {"ordering", "trying"}
      /\ pc = "ordering" => Len(servers) > 1
    OBVIOUS
<1> HIDE DEF pc, d, servers, t
<1>7. /\ r2 \in QueryRecords /\ r2.pc = pc /\ r2.paths = r.paths /\ r2.scores = <<>>
      /\ r2.servers = servers /\ r2.deadline = d
      /\ r2.tried = r.tried /\ r2.contacted = r.contacted /\ r2.cut = r.cut
    BY <1>2, <1>3, <1>4, <1>6 DEF QueryRecords
<1> HIDE DEF r2
<1>8. t = Head(r2.paths) /\ servers = ServersOf[Head(r2.paths)]
    BY <1>7 DEF t, servers
<1>9. Reading(r2) /\ Placed(r2)
    BY <1>1, <1>5, <1>6, <1>7, <1>8, EmptySeq DEF Reading, Placed, AtTransport
<1>10. Covered(r2)
    BY <1>1, <1>2, <1>6, <1>7, <1>8 DEF QueryOK, Covered, AtTransport, Tried
<1>11. ~SharedBudget => Reached(r2)
    BY <1>1, <1>2, <1>4, <1>6, <1>7, <1>8 DEF QueryOK, Reached, Sent
<1>12. QueryOK(r2)
    BY <1>7, <1>9, <1>10, <1>11 DEF QueryOK
<1> QED BY <1>1, <1>12, Typed DEF Moved

\* Ordering the servers keeps them all.
LEMMA OrderServerMoves ==
    ASSUME UpstreamInv, NEW q \in Queries, OrderServer(q)
    PROVE  Moved(q)
<1> DEFINE r == query[q]
           e == r.servers[Len(r.scores) + 1]
           scores == Append(r.scores, Score(e))
           read == [r EXCEPT !.scores = scores]
           ranked == InOrder(r.servers, scores)
           done == [r EXCEPT !.pc = "trying", !.servers = ranked, !.scores = <<>>]
<1>1. /\ r.pc = "ordering" /\ now' = now
      /\ query' = [query EXCEPT ![q] = IF Len(scores) < Len(r.servers) THEN read ELSE done]
    BY DEF OrderServer, Set, Look, Refresh
<1>2. /\ r \in QueryRecords /\ QueryOK(r) /\ r.servers \in Seq(Endpoints)
      /\ r.scores \in Seq(Int) /\ Len(r.scores) < Len(r.servers)
    BY <1>1, Typed DEF QueryOK, Reading, QueryRecords
<1>3. e \in Endpoints
    <2>1. Len(r.scores) + 1 \in 1..Len(r.servers)
        BY <1>2, LenProperties
    <2> QED BY <1>2, <2>1, ElementOfSeq
<1>4. scores \in Seq(Int) /\ Len(scores) = Len(r.scores) + 1
    BY <1>2, <1>3, Typed, ScoresAreIntegers, AppendProperties
<1> HIDE DEF scores, e
<1>5. CASE Len(scores) < Len(r.servers)
    <2>1. /\ read \in QueryRecords /\ read.pc = "ordering" /\ read.paths = r.paths
          /\ read.servers = r.servers /\ read.scores = scores /\ read.deadline = r.deadline
          /\ read.tried = r.tried /\ read.contacted = r.contacted /\ read.cut = r.cut
        BY <1>1, <1>2, <1>4 DEF QueryRecords
    <2> HIDE DEF read
    <2>2. QueryOK(read)
        BY <1>1, <1>2, <1>5, <2>1
        DEF QueryOK, Reading, Placed, Covered, Reached, AtTransport, Tried, Sent
    <2> QED BY <1>1, <1>5, <2>2, Typed DEF Moved
<1>6. CASE ~(Len(scores) < Len(r.servers))
    <2>1. Len(scores) = Len(r.servers)
        BY <1>2, <1>4, <1>6, LenProperties
    <2>2. ranked \in Seq(Endpoints) /\ \A x : Among(x, r.servers) <=> Among(x, ranked)
        BY <1>2, <1>4, <2>1, RankedPermutes DEF InOrder
    <2>3. ranked # <<>>
        <3>1. r.servers # <<>>
            BY <1>2, EmptySeq, LenProperties
        <3>2. Among(Head(r.servers), ranked)
            BY <1>2, <2>2, <3>1, AmongTail
        <3> QED BY <3>2, <2>2, AmongTypes
    <2> HIDE DEF ranked
    <2>4. /\ done \in QueryRecords /\ done.pc = "trying" /\ done.paths = r.paths
          /\ done.servers = ranked /\ done.scores = <<>> /\ done.deadline = r.deadline
          /\ done.tried = r.tried /\ done.contacted = r.contacted /\ done.cut = r.cut
        BY <1>2, <2>2, EmptySeq DEF QueryRecords
    <2> HIDE DEF done
    <2>5. Reading(done) /\ Placed(done)
        BY <1>1, <1>2, <2>2, <2>4 DEF QueryOK, Reading, Placed, AtTransport
    <2>6. Covered(done)
        BY <1>1, <1>2, <2>2, <2>4 DEF QueryOK, Covered, AtTransport, Tried
    <2>7. ~SharedBudget => Reached(done)
        BY <1>1, <1>2, <2>3, <2>4 DEF QueryOK, Reached, Sent
    <2>8. QueryOK(done)
        BY <2>4, <2>5, <2>6, <2>7 DEF QueryOK
    <2> QED BY <1>1, <1>6, <2>8, Typed DEF Moved
<1> QED BY <1>5, <1>6

\* The first server of a client at work is one of its transport.
LEMMA FirstServer ==
    ASSUME UpstreamInv, NEW q \in Queries, AtTransport(query[q]), query[q].servers # <<>>
    PROVE  /\ Head(query[q].servers) \in Endpoints
           /\ Tail(query[q].servers) \in Seq(Endpoints)
           /\ Among(Head(query[q].servers), query[q].servers)
           /\ TransportOf[Head(query[q].servers)] = Head(query[q].paths)
           /\ \A x : Among(x, query[q].servers) <=>
                       \/ x = Head(query[q].servers)
                       \/ Among(x, Tail(query[q].servers))
<1>1. QueryOK(query[q]) /\ query[q].servers \in Seq(Endpoints)
    BY Typed DEF QueryRecords
<1>2. /\ Head(query[q].servers) \in Endpoints
      /\ Tail(query[q].servers) \in Seq(Endpoints)
      /\ Among(Head(query[q].servers), query[q].servers)
      /\ \A x : Among(x, query[q].servers) <=>
                  \/ x = Head(query[q].servers)
                  \/ Among(x, Tail(query[q].servers))
    BY <1>1, AmongTail
<1> QED BY <1>1, <1>2 DEF QueryOK, Placed

\* Leaving a transport whose servers are tried, or that is cut short.
LEMMA NextTransport ==
    ASSUME UpstreamInv, NEW q \in Queries, AtTransport(query[q]), NEW r2 \in QueryRecords,
           r2.pc = "walking", r2.paths = Tail(query[q].paths),
           r2.scores = <<>>,
           r2.tried = query[q].tried, r2.contacted = query[q].contacted,
           query[q].cut \subseteq r2.cut,
           Tried(query[q], Head(query[q].paths)) \/ Head(query[q].paths) \in r2.cut,
           ~SharedBudget => Sent(query[q], Head(query[q].paths))
    PROVE  QueryOK(r2)
<1> DEFINE r == query[q]
<1>1. QueryOK(r) /\ r.paths \in Seq(Transports) /\ r.paths # <<>>
    BY Typed DEF QueryOK, Placed, QueryRecords
<1>2. \A t : Among(t, r.paths) <=> t = Head(r.paths) \/ Among(t, Tail(r.paths))
    BY <1>1, AmongTail
<1>3. Covered(r2)
    BY <1>1, <1>2 DEF QueryOK, Covered, AtTransport, Tried
<1>4. ~SharedBudget => Reached(r2)
    BY <1>1, <1>2 DEF QueryOK, Reached, AtTransport, Sent
<1> QED BY <1>3, <1>4 DEF QueryOK, Reading, Placed, AtTransport

\* A question that is sent reaches a server of the transport at work.
LEMMA ContactMoves ==
    ASSUME UpstreamInv, NEW q \in Queries, Contact(q)
    PROVE  Moved(q)
<1> DEFINE r == query[q]
           e == Head(r.servers)
           tried == r.tried \cup {e}
           contacted == r.contacted \cup {e}
           r2 == [r EXCEPT !.pc = "waiting", !.started = now,
                           !.tried = tried, !.contacted = contacted]
<1>1. /\ r.pc = "trying" /\ r.servers # <<>> /\ now' = now
      /\ query' = [query EXCEPT ![q] = r2]
    BY DEF Contact, Set, health_vars
<1>2. r \in QueryRecords /\ QueryOK(r) /\ now \in Int
    BY Typed
<1>3. e \in Endpoints /\ TransportOf[e] = Head(r.paths)
    BY <1>1, FirstServer DEF AtTransport
<1>4. tried \in SUBSET Endpoints /\ contacted \in SUBSET Endpoints
    BY <1>2, <1>3 DEF QueryRecords
<1>5. /\ r.tried \subseteq tried /\ r.contacted \subseteq contacted
      /\ e \in contacted /\ Head(r.servers) \in tried
    OBVIOUS
<1> HIDE DEF tried, contacted, e
<1>6. /\ r2 \in QueryRecords /\ r2.pc = "waiting" /\ r2.paths = r.paths
      /\ r2.servers = r.servers /\ r2.scores = r.scores
      /\ r2.tried = tried /\ r2.contacted = contacted /\ r2.cut = r.cut
    BY <1>2, <1>4 DEF QueryRecords
<1> HIDE DEF r2
<1>7. Reading(r2) /\ Placed(r2)
    BY <1>1, <1>2, <1>5, <1>6 DEF QueryOK, Reading, Placed, AtTransport
<1>8. Covered(r2)
    BY <1>1, <1>2, <1>5, <1>6 DEF QueryOK, Covered, AtTransport, Tried
<1>9. ~SharedBudget => Reached(r2)
    BY <1>1, <1>2, <1>3, <1>5, <1>6 DEF QueryOK, Reached, Sent
<1>10. QueryOK(r2)
    BY <1>6, <1>7, <1>8, <1>9 DEF QueryOK
<1> QED BY <1>1, <1>10, Typed DEF Moved

\* A failure that sent nothing: with a deadline per strategy, one before it did.
LEMMA FailUnsentMoves ==
    ASSUME UpstreamInv, NEW q \in Queries, FailUnsent(q)
    PROVE  Moved(q)
<1> DEFINE r == query[q]
           e == Head(r.servers)
           tried == r.tried \cup {e}
           rest == Tail(r.servers)
           r2 == [r EXCEPT !.tried = tried, !.servers = rest]
<1>1. /\ r.pc = "trying" /\ r.servers # <<>> /\ now' = now /\ now >= r.deadline
      /\ query' = [query EXCEPT ![q] = r2]
    BY DEF FailUnsent, Set, RecordFailure, Expired
<1>2. r \in QueryRecords /\ QueryOK(r) /\ now \in Int /\ r.deadline \in Int
    BY Typed DEF QueryRecords
<1>3. /\ e \in Endpoints /\ rest \in Seq(Endpoints)
      /\ \A x : Among(x, r.servers) <=> x = e \/ Among(x, rest)
    BY <1>1, FirstServer DEF AtTransport
<1>4. tried \in SUBSET Endpoints /\ r.tried \subseteq tried /\ e \in tried
    BY <1>2, <1>3 DEF QueryRecords
<1> HIDE DEF tried, e, rest
<1>5. /\ r2 \in QueryRecords /\ r2.pc = "trying" /\ r2.paths = r.paths
      /\ r2.servers = rest /\ r2.scores = r.scores
      /\ r2.tried = tried /\ r2.contacted = r.contacted /\ r2.cut = r.cut
    BY <1>1, <1>2, <1>3, <1>4 DEF QueryRecords
<1> HIDE DEF r2
<1>6. Reading(r2) /\ Placed(r2)
    BY <1>1, <1>2, <1>3, <1>5 DEF QueryOK, Reading, Placed, AtTransport
<1>7. Covered(r2)
    BY <1>1, <1>2, <1>3, <1>4, <1>5 DEF QueryOK, Covered, AtTransport, Tried
<1>8. ~SharedBudget => Reached(r2)
    BY <1>1, <1>2, <1>5 DEF QueryOK, Reached, Sent
<1>9. QueryOK(r2)
    BY <1>5, <1>6, <1>7, <1>8 DEF QueryOK
<1> QED BY <1>1, <1>9, Typed DEF Moved

\* An attempt that fails: its server was tried and contacted when it began.
LEMMA FailMoves ==
    ASSUME UpstreamInv, NEW q \in Queries, Fail(q)
    PROVE  Moved(q)
<1> DEFINE r == query[q]
           e == Head(r.servers)
           rest == Tail(r.servers)
           r2 == [r EXCEPT !.pc = "trying", !.servers = rest]
<1>1. /\ r.pc = "waiting" /\ now' = now
      /\ query' = [query EXCEPT ![q] = r2]
    BY DEF Fail, Set, RecordFailure
<1>2. r \in QueryRecords /\ QueryOK(r) /\ r.servers # <<>> /\ e \in r.tried
    BY <1>1, Typed DEF QueryOK, Placed
<1>3. /\ e \in Endpoints /\ rest \in Seq(Endpoints)
      /\ \A x : Among(x, r.servers) <=> x = e \/ Among(x, rest)
    BY <1>1, <1>2, FirstServer DEF AtTransport
<1> HIDE DEF e, rest
<1>4. /\ r2 \in QueryRecords /\ r2.pc = "trying" /\ r2.paths = r.paths
      /\ r2.servers = rest /\ r2.scores = r.scores
      /\ r2.tried = r.tried /\ r2.contacted = r.contacted /\ r2.cut = r.cut
    BY <1>2, <1>3 DEF QueryRecords
<1> HIDE DEF r2
<1>5. Reading(r2) /\ Placed(r2)
    BY <1>1, <1>2, <1>3, <1>4 DEF QueryOK, Reading, Placed, AtTransport
<1>6. Covered(r2)
    BY <1>1, <1>2, <1>3, <1>4 DEF QueryOK, Covered, AtTransport, Tried
<1>7. ~SharedBudget => Reached(r2)
    BY <1>1, <1>2, <1>4 DEF QueryOK, Reached, Sent
<1>8. QueryOK(r2)
    BY <1>4, <1>5, <1>6, <1>7 DEF QueryOK
<1> QED BY <1>1, <1>8, Typed DEF Moved

\* A query that is answered leaves nothing behind.
LEMMA SucceedMoves ==
    ASSUME UpstreamInv, NEW q \in Queries, Succeed(q)
    PROVE  Moved(q)
<1>1. query' = [query EXCEPT ![q] = NoQuery] /\ now' = now
    BY DEF Succeed, Set, RecordSuccess
<1>2. QueryOK(NoQuery)
    BY NoQueryTyped DEF QueryOK, Reading, Placed, Covered, Reached, AtTransport
<1> QED BY <1>1, <1>2, Typed DEF Moved

\* An answer turned down cuts its strategy short.
LEMMA RejectMoves ==
    ASSUME UpstreamInv, NEW q \in Queries, Reject(q)
    PROVE  Moved(q)
<1> DEFINE r == query[q]
           paths == Tail(r.paths)
           cut == r.cut \cup {Head(r.paths)}
           r2 == [r EXCEPT !.pc = "walking", !.servers = <<>>, !.paths = paths, !.cut = cut]
<1>1. /\ r.pc = "waiting" /\ now' = now
      /\ query' = [query EXCEPT ![q] = r2]
    BY DEF Reject, Set, RecordSuccess
<1>2. /\ r \in QueryRecords /\ QueryOK(r)
      /\ r.paths # <<>> /\ r.paths \in Seq(Transports) /\ r.scores = <<>>
    BY <1>1, Typed DEF QueryOK, Reading, Placed, AtTransport, QueryRecords
<1>3. paths \in Seq(Transports) /\ cut \in SUBSET Transports /\ <<>> \in Seq(Endpoints)
    BY <1>2, HeadTailProperties, EmptySeq DEF QueryRecords
<1>4. r.cut \subseteq cut /\ Head(r.paths) \in cut
    OBVIOUS
<1>5. ~SharedBudget => Sent(r, Head(r.paths))
    BY <1>1, <1>2 DEF QueryOK, Reached
<1> HIDE DEF paths, cut
<1>6. /\ r2 \in QueryRecords /\ r2.pc = "walking" /\ r2.paths = paths
      /\ r2.scores = <<>>
      /\ r2.tried = r.tried /\ r2.contacted = r.contacted /\ r2.cut = cut
    BY <1>2, <1>3 DEF QueryRecords
<1> HIDE DEF r2
<1>7. QueryOK(r2)
    BY <1>1, <1>4, <1>5, <1>6, NextTransport DEF AtTransport, paths
<1> QED BY <1>1, <1>7, Typed DEF Moved

\* A transport that is left has had its servers tried, or it is plain DNS after
\* the end of its context.
LEMMA LeaveTransportMoves ==
    ASSUME UpstreamInv, NEW q \in Queries, LeaveTransport(q)
    PROVE  Moved(q)
<1> DEFINE r == query[q]
           paths == Tail(r.paths)
           cut == IF r.servers = <<>> THEN r.cut ELSE r.cut \cup {Head(r.paths)}
           r2 == [r EXCEPT !.pc = "walking", !.servers = <<>>, !.paths = paths, !.cut = cut]
<1>1. /\ r.pc = "trying" /\ now' = now
      /\ r.servers = <<>> \/ now >= r.deadline
      /\ query' = [query EXCEPT ![q] = r2]
    BY DEF LeaveTransport, StopsWhenExpired, Expired, Set, health_vars
<1>2. /\ r \in QueryRecords /\ QueryOK(r) /\ now \in Int /\ r.deadline \in Int
      /\ r.paths # <<>> /\ r.paths \in Seq(Transports) /\ r.scores = <<>>
    BY <1>1, Typed DEF QueryOK, Reading, Placed, AtTransport, QueryRecords
<1>3. paths \in Seq(Transports) /\ cut \in SUBSET Transports /\ <<>> \in Seq(Endpoints)
    BY <1>2, HeadTailProperties, EmptySeq DEF QueryRecords
<1>4. r.cut \subseteq cut /\ (r.servers = <<>> \/ Head(r.paths) \in cut)
    OBVIOUS
<1>5. r.servers = <<>> => Tried(r, Head(r.paths))
    <2>1. r.servers \in Seq(Endpoints)
        BY <1>2 DEF QueryRecords
    <2>2. \A e \in Endpoints : Among(e, r.servers) => r.servers # <<>>
        BY <2>1, AmongTypes
    <2> QED BY <1>1, <1>2, <2>2 DEF QueryOK, Covered, AtTransport, Tried
<1>6. ~SharedBudget => Sent(r, Head(r.paths))
    BY <1>1, <1>2 DEF QueryOK, Reached
<1> HIDE DEF paths, cut
<1>7. /\ r2 \in QueryRecords /\ r2.pc = "walking" /\ r2.paths = paths
      /\ r2.scores = <<>>
      /\ r2.tried = r.tried /\ r2.contacted = r.contacted /\ r2.cut = cut
    BY <1>2, <1>3 DEF QueryRecords
<1> HIDE DEF r2
<1>8. QueryOK(r2)
    BY <1>1, <1>4, <1>5, <1>6, <1>7, NextTransport DEF AtTransport, paths
<1> QED BY <1>1, <1>8, Typed DEF Moved

\* A query fails with no transport left.
LEMMA GiveUpMoves ==
    ASSUME UpstreamInv, NEW q \in Queries, GiveUp(q)
    PROVE  Moved(q)
<1> DEFINE r == query[q]
           r2 == [r EXCEPT !.pc = "failed"]
<1>1. /\ r.pc = "walking" /\ r.paths = <<>> /\ now' = now
      /\ query' = [query EXCEPT ![q] = r2]
    BY DEF GiveUp, Set, health_vars
<1>2. r \in QueryRecords /\ QueryOK(r)
    BY Typed
<1>3. /\ r2 \in QueryRecords /\ r2.pc = "failed" /\ r2.paths = <<>>
      /\ r2.scores = r.scores
      /\ r2.tried = r.tried /\ r2.contacted = r.contacted /\ r2.cut = r.cut
    BY <1>1, <1>2 DEF QueryRecords
<1> HIDE DEF r2
<1>4. QueryOK(r2)
    BY <1>1, <1>2, <1>3 DEF QueryOK, Reading, Placed, Covered, Reached, AtTransport, Tried, Sent
<1> QED BY <1>1, <1>4, Typed DEF Moved

-----------------------------------------------------------------------------
(* What a query does to the tracker, the tracker allows.                   *)

\* Looking at a transport is a lookup of one of its endpoints' transports, or,
\* without any entry, nothing.
LEMMA LookAtAllowed ==
    ASSUME HealthTypeOK, NEW t, LookAt(t)
    PROVE  [HealthNext]_health_vars
<1>1. CASE Observed(t) = {}
    <2>1. stats' = stats
        BY <1>1 DEF LookAt, Refresh, HealthTypeOK
    <2> QED BY <2>1 DEF LookAt, Refresh, health_vars
<1>2. CASE Observed(t) # {}
    <2>1. PICK e \in Endpoints : TransportOf[e] = t
        BY <1>2 DEF Observed, HealthTypeOK
    <2> QED BY <2>1 DEF HealthNext
<1> QED BY <1>1, <1>2

\* Every step of Upstream is one of the tracker, or leaves it alone.
LEMMA StepAllowed ==
    ASSUME UpstreamInv, [Next]_vars
    PROVE  [HealthNext]_health_vars
<1>1. CASE UNCHANGED vars
    BY <1>1 DEF vars, health_vars
<1>2. CASE TimePasses
    BY <1>2 DEF TimePasses, HealthNext
<1>3. ASSUME NEW q \in Queries, Ask(q) \/ Step(q)
      PROVE  [HealthNext]_health_vars
    <2>1. CASE Ask(q) \/ CallTransport(q) \/ Contact(q) \/ LeaveTransport(q) \/ GiveUp(q)
        BY <2>1 DEF Ask, CallTransport, Contact, LeaveTransport, GiveUp
    <2>2. CASE RankPath(q)
        BY <2>2, Typed, LookAtAllowed DEF RankPath
    <2>3. CASE OrderServer(q)
        <3>1. /\ query[q].servers \in Seq(Endpoints) /\ query[q].scores \in Seq(Int)
              /\ Len(query[q].scores) < Len(query[q].servers)
            BY <2>3, Typed DEF OrderServer, QueryOK, Reading, QueryRecords
        <3>2. Len(query[q].scores) + 1 \in 1..Len(query[q].servers)
            BY <3>1, LenProperties
        <3>3. query[q].servers[Len(query[q].scores) + 1] \in Endpoints
            BY <3>1, <3>2, ElementOfSeq
        <3> QED BY <2>3, <3>3 DEF OrderServer, HealthNext
    <2>4. CASE FailUnsent(q) \/ Succeed(q) \/ Reject(q) \/ Fail(q)
        <3>1. query[q].servers # <<>> /\ AtTransport(query[q])
            BY <2>4, Typed
            DEF FailUnsent, Succeed, Reject, Fail, QueryOK, Placed, AtTransport
        <3>2. Head(query[q].servers) \in Endpoints
            BY <3>1, FirstServer
        <3> QED BY <2>4, <3>2 DEF FailUnsent, Succeed, Reject, Fail, HealthNext
    <2> QED BY <1>3, <2>1, <2>2, <2>3, <2>4 DEF Step
<1> QED BY <1>1, <1>2, <1>3 DEF Next

-----------------------------------------------------------------------------
(* The theorems.                                                           *)

\* The invariant holds before the first query.
LEMMA UpstreamInit ==
    Init => UpstreamInv
<1> SUFFICES ASSUME Init PROVE UpstreamInv
    OBVIOUS
<1>1. HealthInv
    BY InitInv DEF Init
<1>2. QueryOK(NoQuery)
    BY NoQueryTyped DEF QueryOK, Reading, Placed, Covered, Reached, AtTransport
<1> QED BY <1>1, <1>2 DEF Init, UpstreamInv, QueriesOK

\* A step moves one query, or only the clock, and time passes only while no
\* query is in a hurry.
LEMMA UpstreamStep ==
    UpstreamInv /\ [Next]_vars => UpstreamInv'
<1> SUFFICES ASSUME UpstreamInv, [Next]_vars
             PROVE  UpstreamInv'
    OBVIOUS
<1>1. HealthInv'
    BY StepAllowed, StepInv DEF UpstreamInv
<1>2. ASSUME NEW q \in Queries, Ask(q) \/ Step(q)
      PROVE  Moved(q)
    BY <1>2, AskMoves, RankPathMoves, CallTransportMoves, OrderServerMoves, ContactMoves,
       FailUnsentMoves, SucceedMoves, RejectMoves, FailMoves, LeaveTransportMoves, GiveUpMoves
    DEF Step
<1>3. ASSUME NEW q \in Queries, Moved(q)
      PROVE  QueriesOK'
    <2>1. /\ query' = [p \in Queries |-> query'[p]]
          /\ \A p \in Queries : QueryOK(query'[p])
        BY <1>3 DEF Moved, UpstreamInv, QueriesOK
    <2>2. now' = now
        BY <1>3 DEF Moved
    <2> QED BY <2>1, <2>2 DEF QueriesOK, QueryOK, Reached
<1>4. ASSUME TimePasses
      PROVE  QueriesOK'
    <2>1. /\ query' = query
          /\ \A q \in Queries : query[q].pc \in {"idle", "failed", "waiting"}
        BY <1>4 DEF TimePasses
    <2> QED BY <2>1 DEF UpstreamInv, QueriesOK, QueryOK, Reached
<1>5. ASSUME UNCHANGED vars
      PROVE  QueriesOK'
    BY <1>5 DEF vars, health_vars, UpstreamInv, QueriesOK, QueryOK, Reached
<1>6. QueriesOK'
    BY <1>2, <1>3, <1>4, <1>5 DEF Next
<1> QED BY <1>1, <1>6 DEF UpstreamInv

\* What is true of every reachable state.
LEMMA UpstreamAlways ==
    Spec => []UpstreamInv
BY UpstreamInit, UpstreamStep, PTL DEF Spec

\* However queries interleave, and whatever order they walk the servers in, they
\* drive the health tracker as HealthSpec says: what is shown of the tracker
\* alone holds of it in use.
THEOREM UpstreamImplementsHealth ==
    Spec => HealthSpec
<1>1. Init => HealthInit
    BY DEF Init
<1>2. UpstreamInv /\ [Next]_vars => [HealthNext]_health_vars
    BY StepAllowed
<1> QED BY <1>1, <1>2, UpstreamAlways, PTL DEF Spec, HealthSpec

\* Under concurrent queries, the counters of every server explain its state.
THEOREM CountersExplainInUse ==
    Spec => []CountersExplainState
BY UpstreamImplementsHealth, CountersAlwaysExplain, PTL

\* The fallback guarantee, for any chain, any servers and any scores, with the
\* relay's deadline or the resolver's: a query fails only after it tried every
\* server, except where plain DNS stopped at its deadline or an answer was
\* turned down.
THEOREM FallbackGuarantee ==
    Spec => []EveryServerTried
<1>1. UpstreamInv => EveryServerTried
    <2> SUFFICES ASSUME UpstreamInv, NEW q \in Failed, NEW i \in DOMAIN Chain,
                        NEW j \in DOMAIN ServersOf[Chain[i]]
                 PROVE  \/ ServersOf[Chain[i]][j] \in query[q].tried
                        \/ Chain[i] \in query[q].cut
        BY DEF EveryServerTried
    <2> DEFINE t == Chain[i]
    <2>1. QueryOK(query[q]) /\ query[q].pc = "failed" /\ query[q].paths = <<>>
        BY Typed DEF Failed, QueryOK, Placed
    <2>2. Among(t, Chain) /\ t \in Transports
        BY Typed, LenProperties, AmongTypes DEF Among
    <2>3. ~Among(t, query[q].paths)
        BY <2>1, EmptySeq DEF Among
    <2>4. Tried(query[q], t) \/ t \in query[q].cut
        BY <2>1, <2>2, <2>3 DEF QueryOK, Covered
    <2>5. Among(ServersOf[t][j], ServersOf[t]) /\ ServersOf[t][j] \in Endpoints
        BY <2>2, Typed, LenProperties, AmongTypes DEF Among
    <2> QED BY <2>4, <2>5 DEF Tried
<1> QED BY <1>1, UpstreamAlways, PTL

\* The resolver, which gives every strategy a deadline of its own, sends the
\* question to a server of every transport before it fails.  This is what the
\* relay's single deadline loses.
THEOREM DeadlinePerStrategyReachesAll ==
    ASSUME ~SharedBudget
    PROVE  Spec => []EveryTransportContacted
<1>1. UpstreamInv => EveryTransportContacted
    <2> SUFFICES ASSUME UpstreamInv, NEW q \in Failed, NEW i \in DOMAIN Chain,
                        ServersOf[Chain[i]] # <<>>
                 PROVE  \E e \in query[q].contacted : TransportOf[e] = Chain[i]
        BY DEF EveryTransportContacted
    <2>1. QueryOK(query[q]) /\ query[q].pc = "failed" /\ query[q].paths = <<>>
        BY Typed DEF Failed, QueryOK, Placed
    <2>2. Among(Chain[i], Chain) /\ Chain[i] \in Transports
        BY Typed, LenProperties, AmongTypes DEF Among
    <2>3. ~Among(Chain[i], query[q].paths)
        BY <2>1, EmptySeq DEF Among
    <2> QED BY <2>1, <2>2, <2>3 DEF QueryOK, Reached, Sent
<1> QED BY <1>1, UpstreamAlways, PTL

-----------------------------------------------------------------------------
(* Encrypted transports come first.                                        *)

\* What a query's own ranking found unusable: Unhealthy paths, and slow ones.
Behind(r) == r.unhealthy \cup r.slow

PlainBehind(paths, behind) ==
    \A i \in 1..Len(paths) : \A j \in 1..Len(paths) :
        i < j /\ paths[i] = "plain" /\ paths[j] \in Encrypted => paths[j] \in behind

\* A path's score tells whether it is plain or encrypted and usable.
Apart(t, score, behind) ==
    /\ t = "plain" => score <= 3000
    /\ t \in Encrypted /\ t \notin behind => score > 3000

Preferred(r) ==
    /\ r.pc = "ranking" => \A k \in 1..Len(r.scores) : Apart(Chain[k], r.scores[k], Behind(r))
    /\ Adaptive /\ r.pc # "ranking" => PlainBehind(r.paths, Behind(r))

PreferenceInv == UpstreamInv /\ \A q \in Queries : Preferred(query[q])

\* The item that sorting puts in the n-th place.
At(scores, n) == CHOOSE i \in DOMAIN scores : Place(scores, i) = n - 1

\* Sorting puts the better item first, and of equals the one that was first.
LEMMA RankedIsSorted ==
    ASSUME NEW S, NEW items \in Seq(S), NEW scores \in Seq(Int), Len(scores) = Len(items)
    PROVE  /\ \A n \in 1..Len(items) : /\ At(scores, n) \in 1..Len(items)
                                       /\ Ranked(items, scores)[n] = items[At(scores, n)]
           /\ \A m \in 1..Len(items) : \A n \in 1..Len(items) :
                m < n => At(scores, m) \in Before(scores, At(scores, n))
<1>1. PICK size \in Nat : /\ size = Len(items)
                          /\ DOMAIN items = 1..size /\ DOMAIN scores = 1..size
    BY LenProperties
<1>2. Ranked(items, scores) = [n \in 1..size |-> items[At(scores, n)]]
    BY <1>1 DEF Ranked, Place, Before, At
<1>3. ASSUME NEW n \in 1..size
      PROVE  At(scores, n) \in 1..size /\ Place(scores, At(scores, n)) = n - 1
    BY <1>1, PlacesTaken DEF At
<1>4. ASSUME NEW m \in 1..size, NEW n \in 1..size, m < n
      PROVE  At(scores, m) \in Before(scores, At(scores, n))
    <2> DEFINE i == At(scores, m)
               j == At(scores, n)
    <2>1. /\ i \in 1..size /\ Place(scores, i) = m - 1
          /\ j \in 1..size /\ Place(scores, j) = n - 1
        BY <1>3
    <2> HIDE DEF i, j
    <2>2. i # j /\ j \notin Before(scores, i)
        BY <1>1, <1>4, <2>1, PlacesDiffer
    <2>3. scores[i] \in Int /\ scores[j] \in Int
        BY <1>1, <2>1, ElementOfSeq
    <2>4. i \in Before(scores, j)
        BY <1>1, <2>1, <2>2, <2>3 DEF Before
    <2> QED BY <2>4 DEF i, j
<1> QED BY <1>1, <1>2, <1>3, <1>4

\* The path scores of OrderTransports keep plain DNS and encrypted usable
\* transports apart.
LEMMA ScoresApart ==
    ASSUME HealthTypeOK, NEW t \in Transports, NEW behind,
           Bad(t) \/ Slow(t) => t \in behind
    PROVE  Apart(t, Base(PathState(t)) + Bonus(t, PathState(t)) - PathEWMA(t), behind)
<1>1. PathState(t) \in States
    BY DEF PathState, Best, States
<1>2. PathEWMA(t) \in Int /\ 0 <= PathEWMA(t)
    BY PathLatency DEF NoEWMA
<1> QED BY <1>1, <1>2 DEF Apart, Base, Bonus, Bad, Slow, States, Encrypted

\* Ranking leaves plain DNS behind.
LEMMA RankedBehind ==
    ASSUME NEW scores \in Seq(Int), Len(scores) = Len(Chain), NEW behind,
           \A k \in 1..Len(scores) : Apart(Chain[k], scores[k], behind)
    PROVE  PlainBehind(Ranked(Chain, scores), behind)
<1> DEFINE ranked == Ranked(Chain, scores)
<1>1. Chain \in Seq(Transports)
    BY UpstreamAssumption
<1>2. ranked \in Seq(Transports) /\ Len(ranked) = Len(Chain)
    BY <1>1, RankedPermutes
<1> SUFFICES ASSUME NEW m \in 1..Len(Chain), NEW n \in 1..Len(Chain), m < n,
                    ranked[m] = "plain", ranked[n] \in Encrypted, ranked[n] \notin behind
             PROVE  FALSE
    BY <1>2 DEF PlainBehind
<1> DEFINE i == At(scores, m)
           j == At(scores, n)
<1>3. \A k \in 1..Len(Chain) : At(scores, k) \in 1..Len(Chain)
                               /\ ranked[k] = Chain[At(scores, k)]
    BY <1>1, RankedIsSorted
<1>4. At(scores, m) \in Before(scores, At(scores, n))
    BY <1>1, RankedIsSorted
<1>5. /\ i \in 1..Len(scores) /\ Chain[i] = "plain"
      /\ j \in 1..Len(scores) /\ Chain[j] \in Encrypted /\ Chain[j] \notin behind
      /\ i \in Before(scores, j)
    BY <1>3, <1>4
<1> HIDE DEF i, j, ranked
<1>6. scores[i] \in Int /\ scores[j] \in Int
    BY <1>5, ElementOfSeq
<1>7. scores[i] <= 3000 /\ scores[j] > 3000
    BY <1>5 DEF Apart
<1> QED BY <1>5, <1>6, <1>7 DEF Before

\* Leaving a transport leaves plain DNS behind.
LEMMA TailBehind ==
    ASSUME NEW paths \in Seq(Transports), paths # <<>>, NEW behind,
           PlainBehind(paths, behind)
    PROVE  PlainBehind(Tail(paths), behind)
<1>1. PICK n \in Nat : n = Len(paths) /\ n > 0
    BY LenProperties, EmptySeq
<1>2. /\ Len(Tail(paths)) = n - 1
      /\ \A i \in 1..(n - 1) : Tail(paths)[i] = paths[i + 1]
    BY <1>1, HeadTailProperties
<1> QED BY <1>1, <1>2 DEF PlainBehind

\* A query that goes on with the same paths, or without the first, keeps them in
\* order.
LEMMA StaysPreferred ==
    ASSUME UpstreamInv, NEW q \in Queries, Preferred(query[q]), NEW r,
           query[q].pc # "ranking", r.pc # "ranking",
           r.unhealthy = query[q].unhealthy, r.slow = query[q].slow,
           \/ r.paths = query[q].paths
           \/ query[q].paths # <<>> /\ r.paths = Tail(query[q].paths)
    PROVE  Preferred(r)
<1>1. query[q].paths \in Seq(Transports)
    BY Typed DEF QueryRecords
<1> QED BY <1>1, TailBehind DEF Preferred, Behind

\* Every step of a query keeps plain DNS behind.
LEMMA StepPrefers ==
    ASSUME PreferenceInv, NEW q \in Queries, Ask(q) \/ Step(q)
    PROVE  query' = [query EXCEPT ![q] = query'[q]] /\ Preferred(query'[q])
<1> DEFINE r == query[q]
<1>1. /\ UpstreamInv /\ r \in QueryRecords /\ QueryOK(r) /\ Preferred(r)
      /\ DOMAIN query = Queries
    BY Typed DEF PreferenceInv
<1>2. CASE Ask(q)
    <2> DEFINE pc == IF Adaptive /\ Len(Chain) > 1 THEN "ranking" ELSE "walking"
               d == now + Budget
               r2 == [NoQuery EXCEPT !.pc = pc, !.paths = Chain, !.deadline = d]
    <2>1. query' = [query EXCEPT ![q] = r2]
        BY <1>2 DEF Ask, Set
    <2>2. r2.paths = Chain /\ r2.scores = <<>> /\ r2.pc = pc
        BY DEF NoQuery
    <2> HIDE DEF r2
    <2>3. Adaptive /\ pc # "ranking" => Len(Chain) <= 1
        BY Typed, LenProperties
    <2> HIDE DEF pc
    <2>4. ASSUME Adaptive, pc # "ranking"
          PROVE  PlainBehind(r2.paths, Behind(r2))
        BY <2>2, <2>3, <2>4, Typed, LenProperties DEF PlainBehind
    <2>5. Preferred(r2)
        BY <2>2, <2>4, EmptySeq DEF Preferred
    <2> QED BY <1>1, <2>1, <2>5
<1>3. CASE RankPath(q)
    <2> DEFINE t == Chain[Len(r.scores) + 1]
               score == Base(PathState(t)) + Bonus(t, PathState(t)) - PathEWMA(t)
               scores == Append(r.scores, score)
               bad == IF Bad(t) THEN r.unhealthy \cup {t} ELSE r.unhealthy
               sl == IF Slow(t) THEN r.slow \cup {t} ELSE r.slow
               read == [r EXCEPT !.scores = scores, !.unhealthy = bad, !.slow = sl]
               behind == bad \cup sl
               ranked == Ranked(Chain, scores)
               done == [read EXCEPT !.pc = "walking", !.paths = ranked, !.scores = <<>>]
    <2>1. /\ r.pc = "ranking"
          /\ query' = [query EXCEPT ![q] = IF Len(scores) < Len(Chain) THEN read ELSE done]
        BY <1>3 DEF RankPath, Set
    <2>2. r.paths = Chain /\ r.scores \in Seq(Int) /\ Len(r.scores) < Len(Chain)
        BY <1>1, <2>1 DEF QueryOK, Reading, QueryRecords
    <2>3. t \in Transports
        <3>1. Len(r.scores) + 1 \in 1..Len(Chain)
            BY <2>2, Typed, LenProperties
        <3> QED BY <1>1, <3>1, Typed, ElementOfSeq
    <2>4. score \in Int /\ Apart(t, score, behind)
        <3>1. Bad(t) \/ Slow(t) => t \in behind
            OBVIOUS
        <3> QED BY <1>1, <2>3, <3>1, Typed, ScoresAreIntegers, ScoresApart
    <2>5. Behind(r) \subseteq behind
        BY DEF Behind
    <2>21. read.pc = r.pc /\ read.paths = r.paths
           /\ read.scores = scores /\ read.unhealthy = bad /\ read.slow = sl
        BY <1>1 DEF QueryRecords
    <2>22. done.pc = "walking" /\ done.paths = ranked
           /\ done.unhealthy = bad /\ done.slow = sl
        BY <1>1 DEF QueryRecords
    <2>23. Behind(read) = behind /\ Behind(done) = behind
        BY <2>21, <2>22 DEF Behind
    <2> HIDE DEF score, bad, sl, behind
    <2>6. /\ scores \in Seq(Int) /\ Len(scores) = Len(r.scores) + 1
          /\ \A k \in 1..Len(r.scores) : scores[k] = r.scores[k]
          /\ scores[Len(r.scores) + 1] = score
        BY <2>2, <2>4, AppendProperties
    <2>7. Len(r.scores) \in Nat
        BY <2>2, LenProperties
    <2> HIDE DEF scores
    <2>8. \A k \in 1..Len(scores) : Apart(Chain[k], scores[k], behind)
        <3> SUFFICES ASSUME NEW k \in 1..Len(scores)
                     PROVE  Apart(Chain[k], scores[k], behind)
            OBVIOUS
        <3>1. CASE k = Len(r.scores) + 1
            BY <2>4, <2>6, <3>1
        <3>2. CASE k # Len(r.scores) + 1
            <4>1. k \in 1..Len(r.scores)
                BY <2>6, <2>7, <3>2
            <4>2. Apart(Chain[k], r.scores[k], Behind(r))
                BY <1>1, <2>1, <4>1 DEF Preferred
            <4>3. Apart(Chain[k], r.scores[k], behind)
                BY <2>5, <4>2 DEF Apart
            <4> QED BY <2>6, <4>1, <4>3
        <3> QED BY <3>1, <3>2
    <2>9. CASE Len(scores) < Len(Chain)
        <3> HIDE DEF read, ranked, done
        <3>1. Preferred(read)
            BY <2>1, <2>8, <2>21, <2>23 DEF Preferred
        <3> QED BY <1>1, <2>1, <2>9, <3>1
    <2>10. CASE ~(Len(scores) < Len(Chain))
        <3>1. Len(scores) = Len(Chain)
            BY <2>2, <2>6, <2>7, <2>10, Typed, <1>1, LenProperties
        <3>2. PlainBehind(ranked, behind)
            BY <2>6, <2>8, <3>1, RankedBehind
        <3> HIDE DEF ranked, done, read
        <3>3. Preferred(done)
            BY <2>22, <2>23, <3>2 DEF Preferred
        <3> QED BY <1>1, <2>1, <2>10, <3>3
    <2> QED BY <2>9, <2>10
<1>4. CASE Succeed(q)
    <2>1. query' = [query EXCEPT ![q] = NoQuery]
        BY <1>4 DEF Succeed, Set
    <2>2. Preferred(NoQuery)
        BY EmptySeq DEF Preferred, PlainBehind, NoQuery
    <2> QED BY <1>1, <2>1, <2>2
<1>5. ASSUME NEW r2, query' = [query EXCEPT ![q] = r2],
             r.pc # "ranking", r2.pc # "ranking",
             r2.unhealthy = r.unhealthy, r2.slow = r.slow,
             r2.paths = r.paths \/ (r.paths # <<>> /\ r2.paths = Tail(r.paths))
      PROVE  query' = [query EXCEPT ![q] = query'[q]] /\ Preferred(query'[q])
    BY <1>1, <1>5, StaysPreferred
<1>6. CASE CallTransport(q)
    <2> DEFINE pc == IF Len(ServersOf[Head(r.paths)]) > 1 THEN "ordering" ELSE "trying"
               r2 == [r EXCEPT !.pc = pc, !.servers = ServersOf[Head(r.paths)],
                               !.deadline = DeadlineAfter(@)]
    <2>1. query' = [query EXCEPT ![q] = r2] /\ r.pc = "walking"
        BY <1>6 DEF CallTransport, Set
    <2>2. r2.pc # "ranking" /\ r2.unhealthy = r.unhealthy /\ r2.slow = r.slow
          /\ r2.paths = r.paths
        BY <1>1 DEF QueryRecords
    <2> HIDE DEF r2
    <2> QED BY <1>5, <2>1, <2>2
<1>7. CASE OrderServer(q)
    <2>1. /\ r.pc = "ordering"
          /\ \/ \E scores : query' = [query EXCEPT ![q] = [r EXCEPT !.scores = scores]]
             \/ \E servers : query' = [query EXCEPT ![q] =
                                [r EXCEPT !.pc = "trying", !.servers = servers, !.scores = <<>>]]
        BY <1>7 DEF OrderServer, Set
    <2>2. ASSUME NEW scores, query' = [query EXCEPT ![q] = [r EXCEPT !.scores = scores]]
          PROVE  query' = [query EXCEPT ![q] = query'[q]] /\ Preferred(query'[q])
        <3> DEFINE r2 == [r EXCEPT !.scores = scores]
        <3>1. r2.pc = "ordering" /\ r2.unhealthy = r.unhealthy /\ r2.slow = r.slow
              /\ r2.paths = r.paths
            BY <1>1, <2>1 DEF QueryRecords
        <3> HIDE DEF r2
        <3> QED BY <1>5, <2>1, <2>2, <3>1 DEF r2
    <2>3. ASSUME NEW servers,
                 query' = [query EXCEPT ![q] =
                             [r EXCEPT !.pc = "trying", !.servers = servers, !.scores = <<>>]]
          PROVE  query' = [query EXCEPT ![q] = query'[q]] /\ Preferred(query'[q])
        <3> DEFINE r2 == [r EXCEPT !.pc = "trying", !.servers = servers, !.scores = <<>>]
        <3>1. r2.pc = "trying" /\ r2.unhealthy = r.unhealthy /\ r2.slow = r.slow
              /\ r2.paths = r.paths
            BY <1>1 DEF QueryRecords
        <3> HIDE DEF r2
        <3> QED BY <1>5, <2>1, <2>3, <3>1 DEF r2
    <2> QED BY <2>1, <2>2, <2>3
<1>8. CASE Contact(q)
    <2> DEFINE e == Head(r.servers)
               r2 == [r EXCEPT !.pc = "waiting", !.started = now,
                               !.tried = @ \cup {e}, !.contacted = @ \cup {e}]
    <2>1. query' = [query EXCEPT ![q] = r2] /\ r.pc = "trying"
        BY <1>8 DEF Contact, Set
    <2>2. r2.pc = "waiting" /\ r2.unhealthy = r.unhealthy /\ r2.slow = r.slow
          /\ r2.paths = r.paths
        BY <1>1 DEF QueryRecords
    <2> HIDE DEF r2
    <2> QED BY <1>5, <2>1, <2>2
<1>9. CASE FailUnsent(q)
    <2> DEFINE r2 == [r EXCEPT !.tried = @ \cup {Head(r.servers)}, !.servers = Tail(@)]
    <2>1. query' = [query EXCEPT ![q] = r2] /\ r.pc = "trying"
        BY <1>9 DEF FailUnsent, Set
    <2>2. r2.pc = "trying" /\ r2.unhealthy = r.unhealthy /\ r2.slow = r.slow
          /\ r2.paths = r.paths
        BY <1>1, <2>1 DEF QueryRecords
    <2> HIDE DEF r2
    <2> QED BY <1>5, <2>1, <2>2
<1>10. CASE Reject(q) \/ LeaveTransport(q)
    <2>1. \E cut : query' = [query EXCEPT ![q] =
                [r EXCEPT !.pc = "walking", !.servers = <<>>, !.paths = Tail(@), !.cut = cut]]
        BY <1>10 DEF Reject, LeaveTransport, Set
    <2>2. PICK cut : query' = [query EXCEPT ![q] =
                [r EXCEPT !.pc = "walking", !.servers = <<>>, !.paths = Tail(@), !.cut = cut]]
        BY <2>1
    <2> DEFINE r2 == [r EXCEPT !.pc = "walking", !.servers = <<>>, !.paths = Tail(@), !.cut = cut]
    <2>3. r.paths # <<>> /\ r.pc # "ranking"
        BY <1>1, <1>10 DEF Reject, LeaveTransport, QueryOK, Placed, AtTransport
    <2>4. r2.pc = "walking" /\ r2.unhealthy = r.unhealthy /\ r2.slow = r.slow
          /\ r2.paths = Tail(r.paths)
        BY <1>1 DEF QueryRecords
    <2> HIDE DEF r2
    <2> QED BY <1>5, <2>2, <2>3, <2>4 DEF r2
<1>11. CASE Fail(q)
    <2> DEFINE r2 == [r EXCEPT !.pc = "trying", !.servers = Tail(@)]
    <2>1. query' = [query EXCEPT ![q] = r2] /\ r.pc = "waiting"
        BY <1>11 DEF Fail, Set
    <2>2. r2.pc = "trying" /\ r2.unhealthy = r.unhealthy /\ r2.slow = r.slow
          /\ r2.paths = r.paths
        BY <1>1 DEF QueryRecords
    <2> HIDE DEF r2
    <2> QED BY <1>5, <2>1, <2>2
<1>12. CASE GiveUp(q)
    <2> DEFINE r2 == [r EXCEPT !.pc = "failed"]
    <2>1. query' = [query EXCEPT ![q] = r2] /\ r.pc = "walking"
        BY <1>12 DEF GiveUp, Set
    <2>2. r2.pc = "failed" /\ r2.unhealthy = r.unhealthy /\ r2.slow = r.slow
          /\ r2.paths = r.paths
        BY <1>1 DEF QueryRecords
    <2> HIDE DEF r2
    <2> QED BY <1>5, <2>1, <2>2
<1> QED BY <1>2, <1>3, <1>4, <1>6, <1>7, <1>8, <1>9, <1>10, <1>11, <1>12 DEF Step

\* With the adaptive order no query walks plain DNS before an encrypted transport
\* that its own ranking found in usable health and not seconds slower: for every
\* chain, wherever plain DNS stands in it, every timeout and every interleaving
\* with the results of other queries.
THEOREM PlainStaysBehind == Spec => []EncryptedFirst
<1>1. Init => PreferenceInv
    <2> SUFFICES ASSUME Init PROVE PreferenceInv
        OBVIOUS
    <2>1. UpstreamInv
        BY UpstreamInit
    <2>2. Preferred(NoQuery)
        BY EmptySeq DEF Preferred, PlainBehind, NoQuery
    <2> QED BY <2>1, <2>2 DEF PreferenceInv, Init
<1>2. PreferenceInv /\ [Next]_vars => PreferenceInv'
    <2> SUFFICES ASSUME PreferenceInv, [Next]_vars
                 PROVE  PreferenceInv'
        OBVIOUS
    <2>1. UpstreamInv'
        BY UpstreamStep DEF PreferenceInv
    <2>2. CASE UNCHANGED query
        BY <2>1, <2>2 DEF PreferenceInv, Preferred
    <2>3. ASSUME NEW q \in Queries, Ask(q) \/ Step(q)
          PROVE  PreferenceInv'
        <3>1. query' = [query EXCEPT ![q] = query'[q]] /\ Preferred(query'[q])
            BY <2>3, StepPrefers
        <3>2. \A p \in Queries \ {q} : query'[p] = query[p]
            BY <3>1, Typed DEF PreferenceInv
        <3> HIDE DEF Preferred
        <3>3. \A p \in Queries : Preferred(query'[p])
            BY <3>1, <3>2 DEF PreferenceInv
        <3> QED BY <2>1, <3>3 DEF PreferenceInv, Preferred
    <2> QED BY <2>2, <2>3 DEF Next, TimePasses, vars
<1>3. PreferenceInv => EncryptedFirst
    <2> SUFFICES ASSUME PreferenceInv, NEW q \in Queries, Adaptive, query[q].pc # "ranking",
                        NEW i \in DOMAIN query[q].paths, NEW j \in DOMAIN query[q].paths, i < j,
                        query[q].paths[i] = "plain", query[q].paths[j] \in Encrypted
                 PROVE  query[q].paths[j] \in query[q].unhealthy \cup query[q].slow
        BY DEF EncryptedFirst, Ordered, PlainAhead, Encrypted, Transports
    <2>1. query[q].paths \in Seq(Transports) /\ Preferred(query[q])
        BY Typed DEF PreferenceInv, QueryRecords
    <2>2. DOMAIN query[q].paths = 1..Len(query[q].paths) /\ Len(query[q].paths) \in Nat
        BY <2>1, LenProperties
    <2> QED BY <2>1, <2>2 DEF Preferred, PlainBehind, Behind
<1> QED BY <1>1, <1>2, <1>3, PTL DEF Spec
=============================================================================
