--------------------------- MODULE ResolutionProofs ---------------------------
(***************************************************************************)
(* Theorems about Resolution, for any number of queries and refreshes, any *)
(* configurations and ban lists: what a client is handed, and when it is   *)
(* handed nothing.  First, ranking only permutes the upstreams of an order *)
(* among their places; then each walk is related to what was in force      *)
(* while it ran.                                                           *)
(***************************************************************************)
EXTENDS Resolution, FiniteSetTheorems, FunctionTheorems, SequenceTheorems, TLAPS

-----------------------------------------------------------------------------
(* Places.                                                                 *)

\* How many of some places come up to i.
Upto(places, i) == Cardinality({j \in places : j <= i})

\* Places are numbered: each has a number of its own and each number a place.
LEMMA PlacesAreNumbered ==
    ASSUME NEW m \in Nat, NEW places \in SUBSET (1..m)
    PROVE  /\ IsFiniteSet(places) /\ Cardinality(places) \in Nat
           /\ \A n \in 1..Cardinality(places) :
                 Nth(places, n) \in places /\ Upto(places, Nth(places, n)) = n
           /\ \A i \in places : Upto(places, i) \in 1..Cardinality(places)
           /\ \A i \in places, k \in places : Upto(places, i) = Upto(places, k) => i = k
<1>1. IsFiniteSet(1..m)
    BY FS_Interval
<1>2. IsFiniteSet(places) /\ Cardinality(places) \in Nat
    BY <1>1, FS_Subset, FS_CardinalityType
<1> DEFINE size == Cardinality(places)
<1>3. ASSUME NEW i \in places
      PROVE  Upto(places, i) \in 1..size
    <2> DEFINE up == {j \in places : j <= i}
    <2>1. up \in SUBSET places /\ i \in up
        OBVIOUS
    <2>2. IsFiniteSet(up) /\ Cardinality(up) \in Nat /\ Cardinality(up) <= size
        BY <1>2, <2>1, FS_Subset, FS_CardinalityType
    <2>3. Cardinality(up) # 0
        BY <2>1, <2>2, FS_EmptySet
    <2> QED BY <1>2, <2>2, <2>3 DEF Upto
<1>4. ASSUME NEW i \in places, NEW k \in places, i < k
      PROVE  Upto(places, i) # Upto(places, k)
    <2> DEFINE low == {j \in places : j <= i}
               high == {j \in places : j <= k}
    <2>1. i \in Int /\ k \in Int /\ ~(k <= i) /\ k <= k /\ \A j \in places : j <= i => j <= k
        BY <1>4
    <2>2. low \in SUBSET high /\ high \in SUBSET places /\ k \in high /\ k \notin low
        BY <2>1, Zenon
    <2>3. IsFiniteSet(high)
        BY <1>2, <2>2, FS_Subset
    <2>4. Cardinality(high) = Cardinality(low) => high = low
        BY <2>2, <2>3, FS_Subset
    <2> QED BY <2>2, <2>4 DEF Upto
<1>5. \A i \in places, k \in places : Upto(places, i) = Upto(places, k) => i = k
    <2>1. \A i \in places, k \in places : i = k \/ i < k \/ k < i
        OBVIOUS
    <2> QED BY <1>4, <2>1
<1>6. ASSUME NEW n \in 1..size
      PROVE  Nth(places, n) \in places /\ Upto(places, Nth(places, n)) = n
    <2> DEFINE f == [i \in places |-> Upto(places, i)]
    <2>1. f \in [places -> 1..size]
        BY <1>3
    <2>2. \A i, k \in places : f[i] = f[k] => i = k
        BY <1>5
    <2>3. f \in Injection(places, 1..size)
        BY <2>1, <2>2, Fun_IsInj
    <2>4. IsFiniteSet(1..size) /\ Cardinality(1..size) = size
        BY <1>2, FS_Interval
    <2>5. f \in Surjection(places, 1..size)
        BY <2>3, <2>4, FS_Injection
    <2>6. PICK i \in places : f[i] = n
        BY <2>5 DEF Surjection
    <2>7. \E j \in places : Cardinality({k \in places : k <= j}) = n
        BY <2>6 DEF Upto
    <2> QED BY <2>7 DEF Nth, Upto
<1> QED BY <1>2, <1>3, <1>5, <1>6

\* An order of strategies is indexed from 1, and so is what is left of it.
LEMMA OrderIndices ==
    ASSUME NEW order \in Seq(Strategies)
    PROVE  /\ Len(order) \in Nat /\ DOMAIN order = 1..Len(order)
           /\ \A i \in DOMAIN order : order[i] \in Strategies
           /\ UpstreamPlaces(order) \in SUBSET (1..Len(order))
           /\ \A i \in DOMAIN order : Slot(order, i) = Upto(UpstreamPlaces(order), i)
<1>1. /\ Len(order) \in Nat /\ DOMAIN order = 1..Len(order)
      /\ \A i \in DOMAIN order : order[i] \in Strategies
    BY LenProperties, ElementOfSeq
<1>2. UpstreamPlaces(order) \in SUBSET (1..Len(order))
    BY <1>1 DEF UpstreamPlaces
<1>3. ASSUME NEW i \in DOMAIN order
      PROVE  Slot(order, i) = Upto(UpstreamPlaces(order), i)
    <2>1. {j \in 1..i : IsUpstream(order[j])} = {j \in UpstreamPlaces(order) : j <= i}
        BY <1>1 DEF UpstreamPlaces
    <2> QED BY <2>1 DEF Slot, Upto
<1> QED BY <1>1, <1>2, <1>3

\* What makes one order a ranking of another that leaves the local strategies alone.
RanksBy(ranked, order, p) ==
    /\ p \in Bijection(DOMAIN order, DOMAIN order)
    /\ \A i \in DOMAIN order : /\ IsUpstream(order[p[i]]) <=> IsUpstream(order[i])
                               /\ ~IsUpstream(order[i]) => p[i] = i
    /\ ranked = [i \in DOMAIN order |-> order[p[i]]]

Ranked(ranked, order) == \E p \in Bijection(DOMAIN order, DOMAIN order) : RanksBy(ranked, order, p)

\* Not ranking is the identity.
LEMMA UnrankedIsRanked ==
    ASSUME NEW order \in Seq(Strategies)
    PROVE  Ranked(order, order)
<1> DEFINE id == [i \in DOMAIN order |-> i]
<1>1. id \in Bijection(DOMAIN order, DOMAIN order)
    <2>1. id \in [DOMAIN order -> DOMAIN order]
        OBVIOUS
    <2> QED BY <2>1, Fun_IsBij
<1>2. order = [i \in DOMAIN order |-> order[id[i]]]
    BY LenProperties
<1> QED BY <1>1, <1>2 DEF Ranked, RanksBy

\* The list of upstreams holds each upstream of the order in its slot.
LEMMA UpstreamsInSlots ==
    ASSUME NEW order \in Seq(Strategies)
    PROVE  /\ Cardinality(UpstreamPlaces(order)) \in Nat
           /\ Upstreams(order) \in Seq(Strategies)
           /\ DOMAIN Upstreams(order) = 1..Cardinality(UpstreamPlaces(order))
           /\ \A n \in DOMAIN Upstreams(order) : IsUpstream(Upstreams(order)[n])
           /\ \A n \in DOMAIN Upstreams(order) :
                 \E i \in DOMAIN order : Upstreams(order)[n] = order[i]
<1> DEFINE places == UpstreamPlaces(order)
           size == Cardinality(places)
<1>1. /\ places \in SUBSET (1..Len(order)) /\ Len(order) \in Nat
      /\ \A i \in places : i \in DOMAIN order /\ order[i] \in Strategies /\ IsUpstream(order[i])
    BY OrderIndices DEF UpstreamPlaces
<1>2. size \in Nat /\ \A n \in 1..size : Nth(places, n) \in places
    BY <1>1, PlacesAreNumbered
<1>3. Upstreams(order) = [n \in 1..size |-> order[Nth(places, n)]]
    BY DEF Upstreams
<1>4. \A n \in 1..size : order[Nth(places, n)] \in Strategies
    BY <1>1, <1>2
<1> HIDE DEF places, size
<1>5. Upstreams(order) \in Seq(Strategies)
    BY <1>2, <1>3, <1>4, IsASeq
<1>6. /\ DOMAIN Upstreams(order) = 1..size
      /\ \A n \in 1..size : Upstreams(order)[n] = order[Nth(places, n)]
    BY <1>3
<1>7. \A n \in 1..size : /\ IsUpstream(Upstreams(order)[n])
                         /\ \E i \in DOMAIN order : Upstreams(order)[n] = order[i]
    BY <1>1, <1>2, <1>6
<1> QED BY <1>2, <1>5, <1>6, <1>7 DEF places, size

\* Health ranks upstreams among their slots and moves nothing else.
LEMMA AdaptedIsRanked ==
    ASSUME NEW order \in Seq(Strategies), NEW adaptive, NEW ranked \in Adapted(order, adaptive)
    PROVE  Ranked(ranked, order)
<1>1. CASE ranked = order
    BY <1>1, UnrankedIsRanked
<1>2. CASE ranked # order
    <2> DEFINE places == UpstreamPlaces(order)
               size == Cardinality(places)
               ups == Upstreams(order)
    <2>1. PICK q \in Bijection(1..size, 1..size) :
              ranked = [i \in DOMAIN order |->
                          IF IsUpstream(order[i]) THEN [n \in 1..size |-> ups[q[n]]][Slot(order, i)]
                          ELSE order[i]]
        <3>1. PICK r \in Rankings(ups) :
                 ranked = [i \in DOMAIN order |-> IF IsUpstream(order[i]) THEN r[Slot(order, i)]
                                                  ELSE order[i]]
            BY <1>2 DEF Adapted
        <3>2. DOMAIN ups = 1..size
            BY UpstreamsInSlots
        <3>3. PICK q \in Bijection(1..size, 1..size) : r = [n \in 1..size |-> ups[q[n]]]
            BY <3>2 DEF Rankings
        <3> QED BY <3>1, <3>3
    <2>2. /\ size \in Nat /\ q \in [1..size -> 1..size]
          /\ \A a, b \in 1..size : q[a] = q[b] => a = b
          /\ \A b \in 1..size : \E a \in 1..size : q[a] = b
        BY UpstreamsInSlots DEF Bijection, Injection, Surjection, IsInjective
    <2>3. /\ places \in SUBSET (1..Len(order)) /\ Len(order) \in Nat
          /\ DOMAIN order = 1..Len(order)
          /\ \A i \in DOMAIN order : Slot(order, i) = Upto(places, i)
          /\ \A i \in DOMAIN order : i \in places <=> IsUpstream(order[i])
        BY OrderIndices DEF UpstreamPlaces
    <2>4. /\ \A n \in 1..size : Nth(places, n) \in places /\ Upto(places, Nth(places, n)) = n
          /\ \A i \in places : Upto(places, i) \in 1..size
          /\ \A i \in places, k \in places : Upto(places, i) = Upto(places, k) => i = k
        BY <2>3, PlacesAreNumbered
    <2>5. \A n \in 1..size : ups[n] = order[Nth(places, n)]
        BY DEF Upstreams
    <2> DEFINE p == [i \in DOMAIN order |-> IF i \in places THEN Nth(places, q[Upto(places, i)])
                                            ELSE i]
    <2> HIDE DEF places, size, ups
    <2>6. /\ p \in [DOMAIN order -> DOMAIN order]
          /\ \A i \in DOMAIN order : IF i \in places THEN p[i] \in places ELSE p[i] = i
        BY <2>2, <2>3, <2>4
    <2>7. \A w \in DOMAIN order : \E v \in DOMAIN order : p[v] = w
        <3> SUFFICES ASSUME NEW w \in places PROVE \E v \in DOMAIN order : p[v] = w
            BY <2>3
        <3>1. PICK a \in 1..size : q[a] = Upto(places, w)
            BY <2>2, <2>4
        <3>2. Nth(places, a) \in places /\ Upto(places, Nth(places, a)) = a
            BY <2>4, <3>1
        <3>3. Nth(places, Upto(places, w)) = w
            BY <2>4
        <3>4. p[Nth(places, a)] = w
            BY <2>3, <3>1, <3>2, <3>3
        <3> QED BY <2>3, <3>2, <3>4
    <2>8. \A v, w \in DOMAIN order : p[v] = p[w] => v = w
        <3> SUFFICES ASSUME NEW v \in DOMAIN order, NEW w \in DOMAIN order, p[v] = p[w]
                     PROVE  v = w
            OBVIOUS
        <3>1. v \in places <=> w \in places
            BY <2>6
        <3>2. CASE v \in places
            <4>1. /\ Upto(places, v) \in 1..size /\ Upto(places, w) \in 1..size
                  /\ Nth(places, q[Upto(places, v)]) = Nth(places, q[Upto(places, w)])
                BY <2>4, <3>1, <3>2
            <4>2. q[Upto(places, v)] = q[Upto(places, w)]
                BY <2>2, <2>4, <4>1
            <4> QED BY <2>2, <2>4, <3>1, <3>2, <4>1, <4>2
        <3> QED BY <2>6, <3>1, <3>2
    <2>9. p \in Bijection(DOMAIN order, DOMAIN order)
        BY <2>6, <2>7, <2>8, Fun_IsBij
    <2>10. ranked = [i \in DOMAIN order |-> order[p[i]]]
        <3>1. ASSUME NEW i \in DOMAIN order
              PROVE  ranked[i] = order[p[i]]
            <4>1. CASE i \in places
                <5>1. Upto(places, i) \in 1..size /\ q[Upto(places, i)] \in 1..size
                    BY <2>2, <2>4, <4>1
                <5>2. ranked[i] = ups[q[Upto(places, i)]]
                    BY <2>1, <2>3, <4>1, <5>1
                <5> QED BY <2>5, <4>1, <5>1, <5>2
            <4>2. CASE i \notin places
                BY <2>1, <2>3, <4>2
            <4> QED BY <4>1, <4>2
        <3> QED BY <2>1, <3>1
    <2>11. \A i \in DOMAIN order : /\ IsUpstream(order[p[i]]) <=> IsUpstream(order[i])
                                   /\ ~IsUpstream(order[i]) => p[i] = i
        BY <2>3, <2>6
    <2> HIDE DEF p
    <2> QED BY <2>9, <2>10, <2>11 DEF Ranked, RanksBy
<1> QED BY <1>1, <1>2

-----------------------------------------------------------------------------
(* Walks.                                                                  *)

\* Rankings keep the indices and the strategies of an order.
LEMMA RankedKeeps ==
    ASSUME NEW order \in Seq(Strategies), NEW ranked, Ranked(ranked, order)
    PROVE  /\ ranked \in Seq(Strategies) /\ ranked \in Rankings(order)
           /\ DOMAIN ranked = DOMAIN order /\ Len(ranked) = Len(order)
           /\ DOMAIN ranked = 1..Len(ranked) /\ Len(ranked) \in Nat
           /\ \A i \in DOMAIN order : \E k \in DOMAIN ranked : ranked[k] = order[i]
           /\ \A k \in DOMAIN ranked : \E i \in DOMAIN order : ranked[k] = order[i]
           /\ \A i \in DOMAIN order : /\ IsUpstream(ranked[i]) <=> IsUpstream(order[i])
                                      /\ ~IsUpstream(order[i]) => ranked[i] = order[i]
<1>1. PICK p \in Bijection(DOMAIN order, DOMAIN order) : RanksBy(ranked, order, p)
    BY DEF Ranked
<1>2. /\ p \in [DOMAIN order -> DOMAIN order]
      /\ \A i \in DOMAIN order : \E k \in DOMAIN order : p[k] = i
    BY DEF Bijection, Surjection
<1>3. /\ DOMAIN order = 1..Len(order) /\ Len(order) \in Nat
      /\ \A i \in 1..Len(order) : order[p[i]] \in Strategies
    BY <1>2, OrderIndices
<1>4. ranked = [i \in 1..Len(order) |-> order[p[i]]]
    BY <1>1, <1>3 DEF RanksBy
<1>5. ranked \in Seq(Strategies)
    BY <1>3, <1>4, IsASeq
<1>6. DOMAIN ranked = DOMAIN order /\ \A i \in DOMAIN order : ranked[i] = order[p[i]]
    BY <1>3, <1>4
<1>7. Len(ranked) = Len(order)
    BY <1>3, <1>5, <1>6, LenProperties
<1>8. ranked \in Rankings(order)
    BY <1>1 DEF RanksBy, Rankings
<1> QED BY <1>1, <1>2, <1>3, <1>5, <1>6, <1>7, <1>8 DEF RanksBy

\* Rankings have the strategies of the order.
LEMMA SameStrategies ==
    ASSUME NEW order \in Seq(Strategies), NEW ranked, Ranked(ranked, order)
    PROVE  {order[i] : i \in DOMAIN order} = {ranked[i] : i \in DOMAIN ranked}
<1>1. /\ \A i \in DOMAIN order : \E k \in DOMAIN ranked : ranked[k] = order[i]
      /\ \A k \in DOMAIN ranked : \E i \in DOMAIN order : ranked[k] = order[i]
    BY RankedKeeps
<1> QED BY <1>1

\* The seen record of a query.
Seen == [bans : SUBSET {c.ban : c \in Configs}, records : SUBSET RecordStates,
         tried : SUBSET Strategies]

\* What is in force now has been in force during the walk.
InForce(s) == ban \in s.bans /\ records \in s.records

\* The walk is over an order that was configured, ranked or to be ranked.
OrderSound(w) ==
    IF w.pc = "ranking" THEN w.at = 1 /\ \E c \in Configs : w.order = c.order
    ELSE \E c \in Configs : Ranked(w.order, c.order)

\* Who asks, checks or stores is at a strategy, and only upstreams are asked.
PlaceSound(w) ==
    /\ w.at >= 1
    /\ w.pc \in {"asking", "checking", "storing"} => w.at <= Len(w.order)
    /\ w.pc = "asking" => IsUpstream(Strategy(w))

\* Strategies before the walk's place were tried.
TriedSound(w, s) ==
    /\ w.pc = "ranking" => s.tried = {}
    /\ w.pc \in {"walking", "asking", "checking"} =>
          /\ \A k \in 1..(w.at - 1) : w.order[k] \in s.tried
          /\ \A x \in s.tried : \E i \in DOMAIN w.order : w.order[i] = x
    /\ w.pc \in {"asking", "checking"} => Strategy(w) \in s.tried
    /\ w.pc = "done" /\ w.got = NoAnswer =>
          s.tried = {w.order[i] : i \in DOMAIN w.order}

\* Where an answer came from, and which list has let it pass.
AnswerSound(w, s) ==
    /\ w.pc \in {"ranking", "walking", "asking"} => w.got = NoAnswer
    /\ w.pc \in {"checking", "storing"} => w.got # NoAnswer
    /\ w.pc = "checking" /\ IsUpstream(Strategy(w)) => w.got \in Answers
    /\ w.pc = "storing" => w.got \in Answers
    /\ w.got = Local => "usable" \in s.records
    /\ w.pc \in {"storing", "done"} /\ w.got # NoAnswer => \E b \in s.bans : w.got \notin b

\* Usable records were passed over only because they were not, or were banned.
Unusable(s) == s.records # {"usable"} \/ \E b \in s.bans : Local \in b

PassedSound(w, s) ==
    /\ w.pc \in {"walking", "asking", "checking"} =>
         \A k \in 1..(w.at - 1) : w.order[k] = "records" => Unusable(s)
    /\ w.pc = "checking" /\ Strategy(w) = "records" => w.got = Local

WalkSound(w, s) ==
    /\ InForce(s)
    /\ OrderSound(w)
    /\ PlaceSound(w)
    /\ TriedSound(w, s)
    /\ AnswerSound(w, s)
    /\ PassedSound(w, s)

\* A refresh stores what an upstream answered.
JobSound(w) == w.pc = "storing" => w.got \in Answers

IInv ==
    /\ TypeOK
    /\ seen \in [Queries -> Seen]
    /\ \A q \in Running : WalkSound(query[q], seen[q])
    /\ \A j \in Jobs : JobSound(job[j])

\* An order of one of the configurations, ranked or not.
LEMMA ConfiguredOrders ==
    ASSUME NEW c \in Configs
    PROVE  /\ c.order \in Seq(Strategies) /\ c.relay \in BOOLEAN
           /\ Ranked(c.order, c.order)
           /\ \A o : Ranked(o, c.order) => o \in Orders
<1>1. c.order \in Seq(Strategies) /\ c.relay \in BOOLEAN
    BY ResolutionAssumption DEF ResolutionAssumption
<1> QED BY <1>1, UnrankedIsRanked, RankedKeeps DEF Orders

\* Facts about a walk under way.
LEMMA WalkFacts ==
    ASSUME IInv, NEW q \in Queries, query[q].pc # "idle"
    PROVE  /\ query[q] \in Walks /\ seen[q] \in Seen /\ WalkSound(query[q], seen[q])
           /\ query[q].order \in Seq(Strategies) /\ Len(query[q].order) \in Nat
           /\ DOMAIN query[q].order = 1..Len(query[q].order)
           /\ \A i \in 1..Len(query[q].order) : query[q].order[i] \in Strategies
           /\ query[q].at \in Nat /\ query[q].at >= 1
<1>1. query[q] \in Walks /\ seen[q] \in Seen /\ WalkSound(query[q], seen[q])
    BY DEF IInv, TypeOK, Running
<1>2. query[q].at \in Nat /\ query[q].at >= 1
    BY <1>1 DEF Walks, WalkSound, PlaceSound
<1>3. query[q].order \in Seq(Strategies)
    BY <1>1, ConfiguredOrders, RankedKeeps DEF WalkSound, OrderSound
<1> QED BY <1>1, <1>2, <1>3, OrderIndices

\* A step of one query.
LEMMA QueryStep ==
    ASSUME IInv, NEW q \in Queries, NEW w \in Walks, NEW s \in Seen,
           query' = [query EXCEPT ![q] = w], seen' = [seen EXCEPT ![q] = s],
           w.pc # "idle" => WalkSound(w, s),
           cached' \in Answers \cup {NoAnswer}, UNCHANGED <<settings, records, job>>
    PROVE  IInv'
<1>1. /\ query' \in [Queries -> Walks] /\ seen' \in [Queries -> Seen]
      /\ query'[q] = w /\ seen'[q] = s
      /\ \A r \in Queries \ {q} : query'[r] = query[r] /\ seen'[r] = seen[r]
    BY DEF IInv, TypeOK
<1>2. TypeOK'
    BY <1>1 DEF IInv, TypeOK, settings
<1>3. \A v, t : WalkSound(v, t)' <=> WalkSound(v, t)
    BY DEF WalkSound, InForce, OrderSound, PlaceSound, TriedSound, AnswerSound, PassedSound,
           Strategy, Unusable, settings
<1>4. \A r \in Running' : WalkSound(query'[r], seen'[r])
    BY <1>1 DEF IInv, Running
<1>5. \A r \in Running' : WalkSound(query[r], seen[r])'
    BY <1>3, <1>4 DEF WalkSound, InForce, OrderSound, PlaceSound, TriedSound, AnswerSound,
                      PassedSound, Strategy, Unusable, settings
<1>6. \A j \in Jobs : JobSound(job[j])'
    BY DEF IInv, JobSound
<1> QED BY <1>1, <1>2, <1>5, <1>6 DEF IInv

\* The start.
LEMMA InitSound == Init => IInv
<1> SUFFICES ASSUME Init PROVE IInv
    OBVIOUS
<1>1. NoQuery \in Walks /\ NothingSeen \in Seen
    BY DEF NoQuery, Walks, Orders, NothingSeen, Seen
<1>2. TypeOK
    BY <1>1 DEF Init, TypeOK, RecordStates
<1>3. seen \in [Queries -> Seen]
    BY <1>1 DEF Init
<1>4. Running = {} /\ \A j \in Jobs : JobSound(job[j])
    BY DEF Init, Running, NoQuery, JobSound
<1> QED BY <1>2, <1>3, <1>4 DEF IInv

\* A query takes the snapshot, and ranks it.
LEMMA BeginSound ==
    ASSUME IInv, NEW q \in Queries, Begin(q)
    PROVE  IInv'
<1> DEFINE w == [NoQuery EXCEPT !.pc = "ranking", !.at = 1, !.order = config.order,
                                !.relay = config.relay]
           s == [bans |-> {ban}, records |-> {records}, tried |-> {}]
<1>1. config \in Configs /\ ban \in {c.ban : c \in Configs} /\ records \in RecordStates
    BY DEF IInv, TypeOK
<1>2. /\ w \in Walks /\ w.pc = "ranking" /\ w.at = 1 /\ w.order = config.order
      /\ w.got = NoAnswer
    <2>1. config.order \in Orders /\ config.relay \in BOOLEAN
        BY <1>1, ConfiguredOrders
    <2> QED BY <2>1 DEF NoQuery, Walks
<1>3. s \in Seen
    BY <1>1 DEF Seen
<1>4. WalkSound(w, s)
    BY <1>1, <1>2, ResolutionAssumption
       DEF WalkSound, InForce, OrderSound, PlaceSound, TriedSound, AnswerSound, PassedSound
<1>5. /\ query' = [query EXCEPT ![q] = w] /\ seen' = [seen EXCEPT ![q] = s]
      /\ UNCHANGED <<settings, records, cached, job>>
    BY DEF Begin
<1> HIDE DEF w, s
<1> QED BY <1>2, <1>3, <1>4, <1>5, QueryStep DEF IInv, TypeOK

LEMMA RankSound ==
    ASSUME IInv, NEW q \in Queries, Rank(q)
    PROVE  IInv'
<1>1. PICK order \in Adapted(query[q].order, config.adaptive) :
          query' = [query EXCEPT ![q].pc = "walking", ![q].order = order]
    BY DEF Rank
<1> DEFINE w == [query[q] EXCEPT !.pc = "walking", !.order = order]
           s == seen[q]
<1>2. query[q].pc = "ranking" /\ UNCHANGED <<settings, records, cached, job, seen>>
    BY DEF Rank
<1>3. /\ query[q] \in Walks /\ s \in Seen /\ WalkSound(query[q], s)
      /\ query[q].order \in Seq(Strategies)
    BY <1>2, WalkFacts
<1>4. PICK c \in Configs : query[q].order = c.order
    BY <1>2, <1>3 DEF WalkSound, OrderSound
<1>5. Ranked(order, c.order)
    BY <1>1, <1>3, <1>4, AdaptedIsRanked
<1>6. /\ w \in Walks /\ w.pc = "walking" /\ w.at = 1 /\ w.got = query[q].got /\ w.order = order
      /\ query' = [query EXCEPT ![q] = w]
    <2>1. order \in Orders
        BY <1>5, ConfiguredOrders
    <2>2. query[q].at = 1
        BY <1>2, <1>3 DEF WalkSound, OrderSound
    <2> QED BY <1>1, <1>3, <2>1, <2>2 DEF Walks
<1>7. \A x \in s.tried : \E i \in DOMAIN w.order : w.order[i] = x
    <2>1. s.tried = {}
        BY <1>2, <1>3 DEF WalkSound, TriedSound
    <2> QED BY <2>1
<1>8. WalkSound(w, s)
    BY <1>2, <1>3, <1>5, <1>6, <1>7, ResolutionAssumption
       DEF WalkSound, InForce, OrderSound, PlaceSound, TriedSound, AnswerSound, PassedSound
<1>9. seen' = [seen EXCEPT ![q] = s]
    BY <1>2 DEF IInv
<1> HIDE DEF w, s
<1> QED BY <1>2, <1>3, <1>6, <1>8, <1>9, QueryStep DEF s, IInv, TypeOK

\* The next place is a place.
LEMMA MovesOn ==
    ASSUME NEW v \in Walks
    PROVE  LET w == [v EXCEPT !.pc = "walking", !.at = @ + 1, !.got = NoAnswer]
           IN  /\ w \in Walks /\ w.pc = "walking" /\ w.at = v.at + 1 /\ w.got = NoAnswer
               /\ w.order = v.order
<1>1. v.at + 1 \in Nat
    BY DEF Walks
<1> QED BY <1>1 DEF Walks

\* A query that goes on leaves a strategy behind that was tried.
LEMMA GoOnSound ==
    ASSUME IInv, NEW q \in Queries, query[q].pc \in {"walking", "asking", "checking"},
           query[q].at <= Len(query[q].order),
           NEW s \in Seen, s.bans = seen[q].bans, s.records = seen[q].records,
           s.tried = seen[q].tried \cup {Strategy(query[q])},
           Strategy(query[q]) = "records" => Unusable(s),
           GoOn(q), seen' = [seen EXCEPT ![q] = s],
           UNCHANGED <<settings, records, cached, job>>
    PROVE  IInv'
<1> DEFINE w == [query[q] EXCEPT !.pc = "walking", !.at = @ + 1, !.got = NoAnswer]
           at == query[q].at
<1>1. /\ query[q] \in Walks /\ WalkSound(query[q], seen[q])
      /\ at \in Nat /\ at >= 1 /\ at \in DOMAIN query[q].order
      /\ DOMAIN query[q].order = 1..Len(query[q].order)
    BY WalkFacts
<1>2. /\ w \in Walks /\ w.pc = "walking" /\ w.at = at + 1 /\ w.got = NoAnswer
      /\ w.order = query[q].order
    BY <1>1, MovesOn
<1>3. query' = [query EXCEPT ![q] = w]
    BY DEF GoOn
<1>4. /\ Strategy(query[q]) = query[q].order[at]
      /\ w.at - 1 = at /\ \A k \in 1..at : k \in 1..(at - 1) \/ k = at
    <2>1. Strategy(query[q]) = query[q].order[at]
        BY DEF Strategy
    <2> HIDE DEF w, at
    <2> QED BY <1>1, <1>2, <2>1
<1> HIDE DEF w
<1>5. TriedSound(w, s)
    <2>1. \A k \in 1..at : query[q].order[k] \in s.tried
        BY <1>1, <1>4 DEF WalkSound, TriedSound
    <2>2. \A x \in s.tried : \E i \in DOMAIN query[q].order : query[q].order[i] = x
        BY <1>1, <1>4 DEF WalkSound, TriedSound
    <2> QED BY <1>2, <1>4, <2>1, <2>2 DEF TriedSound
<1>6. PassedSound(w, s)
    <2>1. \A k \in 1..at : query[q].order[k] = "records" => Unusable(s)
        <3>1. Unusable(seen[q]) => Unusable(s)
            BY DEF Unusable
        <3> QED BY <1>1, <1>4, <3>1 DEF WalkSound, PassedSound
    <2> QED BY <1>2, <1>4, <2>1 DEF PassedSound
<1>7. OrderSound(w) /\ InForce(s) /\ PlaceSound(w)
    BY <1>1, <1>2 DEF WalkSound, OrderSound, InForce, PlaceSound
<1>8. AnswerSound(w, s)
    BY <1>2, ResolutionAssumption DEF AnswerSound, ResolutionAssumption
<1>9. WalkSound(w, s)
    BY <1>5, <1>6, <1>7, <1>8 DEF WalkSound
<1> QED BY <1>2, <1>3, <1>9, QueryStep DEF IInv, TypeOK

\* A query that got an answer has it checked.
LEMMA GotSound ==
    ASSUME IInv, NEW q \in Queries, query[q].pc \in {"walking", "asking"},
           query[q].at <= Len(query[q].order),
           NEW s \in Seen, s.bans = seen[q].bans, s.records = seen[q].records,
           s.tried = seen[q].tried \cup {Strategy(query[q])},
           NEW answer \in Answers \cup {Local},
           answer = Local => "usable" \in s.records,
           answer = Local <=> Strategy(query[q]) = "records",
           Got(q, answer), seen' = [seen EXCEPT ![q] = s],
           UNCHANGED <<settings, records, cached, job>>
    PROVE  IInv'
<1> DEFINE w == [query[q] EXCEPT !.pc = "checking", !.got = answer]
           at == query[q].at
<1>1. /\ query[q] \in Walks /\ WalkSound(query[q], seen[q])
      /\ at \in Nat /\ at >= 1 /\ at \in DOMAIN query[q].order
      /\ DOMAIN query[q].order = 1..Len(query[q].order)
    BY WalkFacts
<1>2. /\ w \in Walks /\ w.pc = "checking" /\ w.at = at /\ w.got = answer
      /\ w.order = query[q].order
    BY <1>1 DEF Walks
<1>3. query' = [query EXCEPT ![q] = w]
    BY DEF Got
<1>4. Strategy(query[q]) = query[q].order[at] /\ Strategy(w) = Strategy(query[q])
    BY <1>2 DEF Strategy
<1>5. TriedSound(w, s)
    <2>1. \A k \in 1..(at - 1) : query[q].order[k] \in s.tried
        BY <1>1 DEF WalkSound, TriedSound
    <2>2. \A x \in s.tried : \E i \in DOMAIN query[q].order : query[q].order[i] = x
        BY <1>1, <1>4 DEF WalkSound, TriedSound
    <2> QED BY <1>2, <1>4, <2>1, <2>2 DEF TriedSound
<1>6. PassedSound(w, s)
    <2>1. Unusable(seen[q]) => Unusable(s)
        BY DEF Unusable
    <2> QED BY <1>1, <1>2, <1>4, <2>1 DEF WalkSound, PassedSound
<1>7. OrderSound(w) /\ InForce(s) /\ PlaceSound(w)
    BY <1>1, <1>2 DEF WalkSound, OrderSound, InForce, PlaceSound
<1>8. AnswerSound(w, s)
    <2>1. IsUpstream(Strategy(w)) => Strategy(w) # "records"
        BY DEF IsUpstream
    <2> QED BY <1>2, <1>4, <2>1, ResolutionAssumption DEF AnswerSound, ResolutionAssumption
<1>9. WalkSound(w, s)
    BY <1>5, <1>6, <1>7, <1>8 DEF WalkSound
<1> HIDE DEF w
<1> QED BY <1>2, <1>3, <1>9, QueryStep DEF IInv, TypeOK

\* The seen record of a query that tries its strategy.
LEMMA TriedRecord ==
    ASSUME IInv, NEW q \in Queries, query[q].pc # "idle", query[q].at <= Len(query[q].order)
    PROVE  LET s == [seen[q] EXCEPT !.tried = @ \cup {Strategy(query[q])}]
           IN  /\ s \in Seen
               /\ s.bans = seen[q].bans /\ s.records = seen[q].records
               /\ s.tried = seen[q].tried \cup {Strategy(query[q])}
               /\ ban \in s.bans /\ records \in s.records
               /\ Tried(q) => seen' = [seen EXCEPT ![q] = s]
<1>1. /\ seen[q] \in Seen /\ WalkSound(query[q], seen[q])
      /\ Strategy(query[q]) \in Strategies
    BY WalkFacts DEF Strategy
<1> QED BY <1>1 DEF Seen, Tried, WalkSound, InForce

\* The local strategies.
LEMMA LocalSound ==
    ASSUME IInv, NEW q \in Queries, FromRecords(q) \/ FromCache(q)
    PROVE  IInv'
<1> DEFINE s == [seen[q] EXCEPT !.tried = @ \cup {Strategy(query[q])}]
<1>1. /\ query[q].pc = "walking" /\ query[q].at <= Len(query[q].order) /\ Tried(q)
      /\ UNCHANGED <<settings, records, cached, job>>
    BY DEF FromRecords, FromCache, AtStrategy
<1>2. /\ s \in Seen /\ s.bans = seen[q].bans /\ s.records = seen[q].records
      /\ s.tried = seen[q].tried \cup {Strategy(query[q])}
      /\ records \in s.records /\ seen' = [seen EXCEPT ![q] = s]
    BY <1>1, TriedRecord
<1> HIDE DEF s
<1>3. CASE FromRecords(q)
    <2>1. Strategy(query[q]) = "records"
        BY <1>3 DEF FromRecords
    <2>2. CASE records = "usable"
        BY <1>1, <1>2, <1>3, <2>1, <2>2, GotSound DEF FromRecords
    <2>3. CASE records # "usable"
        <3>1. Unusable(s) /\ GoOn(q)
            BY <1>2, <1>3, <2>3 DEF Unusable, FromRecords
        <3> QED BY <1>1, <1>2, <3>1, GoOnSound
    <2> QED BY <2>2, <2>3
<1>4. CASE FromCache(q)
    <2>1. Strategy(query[q]) = "cache" /\ cached \in Answers \cup {NoAnswer}
        BY <1>4 DEF FromCache, IInv, TypeOK
    <2>2. CASE cached # NoAnswer
        <3>1. cached \in Answers /\ cached # Local /\ Got(q, cached)
            BY <1>4, <2>1, <2>2, ResolutionAssumption DEF FromCache, ResolutionAssumption
        <3> QED BY <1>1, <1>2, <2>1, <3>1, GotSound
    <2>3. CASE cached = NoAnswer
        BY <1>1, <1>2, <1>4, <2>1, <2>3, GoOnSound DEF FromCache
    <2> QED BY <2>2, <2>3
<1> QED BY <1>3, <1>4

\* An upstream is asked or skipped, and answers or fails.
LEMMA AttemptSound ==
    ASSUME IInv, NEW q \in Queries, Attempt(q)
    PROVE  IInv'
<1> DEFINE s == [seen[q] EXCEPT !.tried = @ \cup {Strategy(query[q])}]
           w == [query[q] EXCEPT !.pc = "asking"]
           at == query[q].at
<1>1. /\ query[q].pc = "walking" /\ at <= Len(query[q].order) /\ Tried(q)
      /\ IsUpstream(Strategy(query[q])) /\ UNCHANGED <<settings, records, cached, job>>
    BY DEF Attempt, AtStrategy
<1>2. /\ s \in Seen /\ s.bans = seen[q].bans /\ s.records = seen[q].records
      /\ s.tried = seen[q].tried \cup {Strategy(query[q])}
      /\ seen' = [seen EXCEPT ![q] = s]
    BY <1>1, TriedRecord
<1>3. Strategy(query[q]) # "records"
    BY <1>1 DEF IsUpstream
<1> HIDE DEF s
<1>4. CASE GoOn(q)
    BY <1>1, <1>2, <1>3, <1>4, GoOnSound
<1>5. CASE query' = [query EXCEPT ![q].pc = "asking"]
    <2>1. /\ query[q] \in Walks /\ WalkSound(query[q], seen[q])
          /\ at \in Nat /\ at >= 1 /\ at \in DOMAIN query[q].order
        BY <1>1, WalkFacts
    <2>2. /\ w \in Walks /\ w.pc = "asking" /\ w.at = at /\ w.got = query[q].got
          /\ w.order = query[q].order
        BY <2>1 DEF Walks
    <2>3. query' = [query EXCEPT ![q] = w]
        BY <1>5
    <2>4. Strategy(query[q]) = query[q].order[at] /\ Strategy(w) = Strategy(query[q])
        BY <2>2 DEF Strategy
    <2>5. TriedSound(w, s) /\ InForce(s) /\ OrderSound(w) /\ PlaceSound(w)
        BY <1>1, <1>2, <2>1, <2>2, <2>4
           DEF WalkSound, TriedSound, InForce, OrderSound, PlaceSound
    <2>6. PassedSound(w, s)
        BY <1>1, <1>2, <2>1, <2>2 DEF WalkSound, PassedSound, Unusable
    <2>7. AnswerSound(w, s)
        BY <1>1, <2>1, <2>2, ResolutionAssumption DEF WalkSound, AnswerSound, ResolutionAssumption
    <2>8. WalkSound(w, s)
        BY <2>5, <2>6, <2>7 DEF WalkSound
    <2> HIDE DEF w
    <2> QED BY <1>1, <1>2, <2>2, <2>3, <2>8, QueryStep DEF IInv, TypeOK
<1> QED BY <1>4, <1>5 DEF Attempt

LEMMA AttemptEndsSound ==
    ASSUME IInv, NEW q \in Queries, AttemptEnds(q)
    PROVE  IInv'
<1>1. query[q].pc = "asking" /\ UNCHANGED <<settings, records, cached, job, seen>>
    BY DEF AttemptEnds
<1>2. PICK answer \in Answers \cup {NoAnswer} :
          IF answer = NoAnswer THEN GoOn(q) ELSE Got(q, answer)
    BY DEF AttemptEnds
<1>3. /\ seen[q] \in Seen /\ WalkSound(query[q], seen[q])
    BY <1>1, WalkFacts
<1>4. /\ query[q].at <= Len(query[q].order) /\ Strategy(query[q]) # "records"
      /\ seen[q].tried = seen[q].tried \cup {Strategy(query[q])}
    BY <1>1, <1>3 DEF WalkSound, PlaceSound, TriedSound, IsUpstream
<1>5. seen' = [seen EXCEPT ![q] = seen[q]]
    BY <1>1 DEF IInv
<1>6. CASE answer = NoAnswer
    BY <1>1, <1>2, <1>3, <1>4, <1>5, <1>6, GoOnSound
<1>7. CASE answer # NoAnswer
    <2>1. answer \in Answers /\ answer # Local
        BY <1>7, ResolutionAssumption DEF ResolutionAssumption
    <2> QED BY <1>1, <1>2, <1>3, <1>4, <1>5, <1>7, <2>1, GotSound
<1> QED BY <1>6, <1>7

\* An answer is let through or turned down by the list in force.
LEMMA CheckSound ==
    ASSUME IInv, NEW q \in Queries, Check(q)
    PROVE  IInv'
<1> DEFINE s == seen[q]
           v == query[q]
           w == [v EXCEPT !.pc = IF Stores(v) THEN "storing" ELSE "done"]
<1>1. v.pc = "checking" /\ UNCHANGED <<settings, records, cached, job, seen>>
    BY DEF Check
<1>2. /\ v \in Walks /\ s \in Seen /\ WalkSound(v, s)
    BY <1>1, WalkFacts
<1>3. seen' = [seen EXCEPT ![q] = s]
    BY <1>1 DEF IInv
<1>4. CASE Banned(v)
    <2>1. Strategy(v) = "records" => Unusable(s)
        BY <1>1, <1>2, <1>4 DEF Banned, WalkSound, PassedSound, InForce, Unusable
    <2>2. v.at <= Len(v.order) /\ s.tried = s.tried \cup {Strategy(v)}
        BY <1>1, <1>2 DEF WalkSound, PlaceSound, TriedSound
    <2>3. GoOn(q)
        BY <1>4 DEF Check
    <2> QED BY <1>1, <1>2, <1>3, <2>1, <2>2, <2>3, GoOnSound
<1>5. CASE ~Banned(v)
    <2>1. /\ w \in Walks /\ w.pc = IF Stores(v) THEN "storing" ELSE "done"
          /\ w.at = v.at /\ w.got = v.got /\ w.order = v.order
        BY <1>2 DEF Walks
    <2>2. query' = [query EXCEPT ![q] = w]
        BY <1>5 DEF Check
    <2>3. OrderSound(w) /\ PlaceSound(w) /\ InForce(s)
        BY <1>1, <1>2, <2>1 DEF WalkSound, OrderSound, PlaceSound, InForce
    <2>4. TriedSound(w, s) /\ PassedSound(w, s)
        BY <1>1, <1>2, <2>1 DEF WalkSound, AnswerSound, TriedSound, PassedSound
    <2>5. AnswerSound(w, s)
        BY <1>1, <1>2, <1>5, <2>1 DEF WalkSound, AnswerSound, Banned, Stores, InForce
    <2>6. WalkSound(w, s)
        BY <2>3, <2>4, <2>5 DEF WalkSound
    <2> HIDE DEF w
    <2> QED BY <1>1, <1>2, <1>3, <2>1, <2>2, <2>6, QueryStep DEF IInv, TypeOK
<1> QED BY <1>4, <1>5

\* What a query stores is an upstream's answer.
LEMMA StoreSound ==
    ASSUME IInv, NEW q \in Queries, Store(q)
    PROVE  IInv'
<1> DEFINE s == seen[q]
           v == query[q]
           w == [v EXCEPT !.pc = "done"]
<1>1. /\ v.pc = "storing" /\ UNCHANGED <<settings, records, job, seen>>
      /\ cached' = v.got /\ query' = [query EXCEPT ![q] = w]
    BY DEF Store
<1>2. v \in Walks /\ s \in Seen /\ WalkSound(v, s)
    BY <1>1, WalkFacts
<1>3. /\ w \in Walks /\ w.pc = "done"
      /\ w.at = v.at /\ w.got = v.got /\ w.order = v.order
    BY <1>2 DEF Walks
<1>4. v.got \in Answers /\ v.got # NoAnswer
    BY <1>1, <1>2 DEF WalkSound, AnswerSound
<1>5. OrderSound(w) /\ PlaceSound(w) /\ InForce(s) /\ TriedSound(w, s) /\ PassedSound(w, s)
    BY <1>1, <1>2, <1>3, <1>4
       DEF WalkSound, OrderSound, PlaceSound, InForce, TriedSound, PassedSound
<1>6. AnswerSound(w, s)
    BY <1>1, <1>2, <1>3, <1>4 DEF WalkSound, AnswerSound
<1>7. WalkSound(w, s)
    BY <1>5, <1>6 DEF WalkSound
<1>8. seen' = [seen EXCEPT ![q] = s]
    BY <1>1 DEF IInv
<1> HIDE DEF w
<1> QED BY <1>1, <1>2, <1>3, <1>4, <1>7, <1>8, QueryStep DEF IInv, TypeOK

\* A query gives up after it has tried every strategy of its order.
LEMMA GiveUpSound ==
    ASSUME IInv, NEW q \in Queries, GiveUp(q)
    PROVE  IInv'
<1> DEFINE s == seen[q]
           v == query[q]
           w == [v EXCEPT !.pc = "done"]
<1>1. /\ v.pc = "walking" /\ v.at > Len(v.order)
      /\ UNCHANGED <<settings, records, cached, job, seen>>
      /\ query' = [query EXCEPT ![q] = w]
    BY DEF GiveUp
<1>2. /\ v \in Walks /\ s \in Seen /\ WalkSound(v, s)
      /\ v.at \in Nat /\ Len(v.order) \in Nat /\ DOMAIN v.order = 1..Len(v.order)
    BY <1>1, WalkFacts
<1>3. /\ w \in Walks /\ w.pc = "done"
      /\ w.at = v.at /\ w.got = v.got /\ w.order = v.order
    BY <1>2 DEF Walks
<1>4. s.tried = {v.order[i] : i \in DOMAIN v.order}
    <2>1. \A i \in DOMAIN v.order : i \in 1..(v.at - 1)
        BY <1>1, <1>2
    <2>2. \A i \in DOMAIN v.order : v.order[i] \in s.tried
        BY <1>1, <1>2, <2>1 DEF WalkSound, TriedSound
    <2>3. \A x \in s.tried : \E i \in DOMAIN v.order : v.order[i] = x
        BY <1>1, <1>2 DEF WalkSound, TriedSound
    <2> QED BY <2>2, <2>3
<1>5. OrderSound(w) /\ PlaceSound(w) /\ InForce(s) /\ TriedSound(w, s) /\ PassedSound(w, s)
    BY <1>1, <1>2, <1>3, <1>4
       DEF WalkSound, OrderSound, PlaceSound, InForce, TriedSound, PassedSound
<1>6. AnswerSound(w, s)
    BY <1>1, <1>2, <1>3 DEF WalkSound, AnswerSound
<1>7. WalkSound(w, s)
    BY <1>5, <1>6 DEF WalkSound
<1>8. seen' = [seen EXCEPT ![q] = s]
    BY <1>1 DEF IInv
<1> HIDE DEF w
<1> QED BY <1>1, <1>2, <1>3, <1>7, <1>8, QueryStep DEF IInv, TypeOK

LEMMA ReplySound ==
    ASSUME IInv, NEW q \in Queries, Reply(q)
    PROVE  IInv'
<1>1. NoQuery \in Walks /\ NothingSeen \in Seen /\ NoQuery.pc = "idle"
    BY DEF NoQuery, Walks, Orders, NothingSeen, Seen
<1>2. /\ query' = [query EXCEPT ![q] = NoQuery] /\ seen' = [seen EXCEPT ![q] = NothingSeen]
      /\ UNCHANGED <<settings, records, cached, job>>
    BY DEF Reply
<1> QED BY <1>1, <1>2, QueryStep DEF IInv, TypeOK

\* A refresh only ever stores what an upstream answered.
LEMMA RefreshSound ==
    ASSUME IInv, NEW j \in Jobs,
           StartJob(j) \/ JobAttempt(j) \/ JobAttemptEnds(j) \/ JobStores(j) \/ JobFails(j)
    PROVE  IInv'
<1> DEFINE v == job[j]
           start == [NoQuery EXCEPT !.pc = "walking", !.relay = config.relay, !.at = 1,
                                    !.order = Upstreams(config.order)]
<1>1. v \in Walks /\ JobSound(v) /\ cached \in Answers \cup {NoAnswer} /\ config \in Configs
    BY DEF IInv, TypeOK
<1>2. PICK w \in Walks : /\ job' = [job EXCEPT ![j] = w] /\ JobSound(w)
                         /\ cached' \in Answers \cup {NoAnswer}
    <2>1. v.at + 1 \in Nat
        BY <1>1 DEF Walks
    <2>2. CASE StartJob(j)
        <3>1. start \in Walks /\ start.pc = "walking"
            <4>1. config.relay \in BOOLEAN /\ Upstreams(config.order) \in Orders
                BY <1>1, ConfiguredOrders DEF Orders
            <4> QED BY <4>1 DEF NoQuery, Walks
        <3> QED BY <1>1, <2>2, <3>1 DEF StartJob, JobSound
    <2>3. CASE JobAttempt(j)
        <3>1. /\ [v EXCEPT !.at = @ + 1] \in Walks /\ [v EXCEPT !.pc = "asking"] \in Walks
              /\ [v EXCEPT !.at = @ + 1].pc = v.pc /\ [v EXCEPT !.pc = "asking"].pc = "asking"
            BY <1>1, <2>1 DEF Walks
        <3> QED BY <1>1, <2>3, <3>1 DEF JobAttempt, JobSound
    <2>4. CASE JobAttemptEnds(j)
        <3>1. PICK answer \in Answers \cup {NoAnswer} :
                 job' = [job EXCEPT ![j] =
                    IF answer = NoAnswer THEN [v EXCEPT !.pc = "walking", !.at = @ + 1]
                    ELSE [v EXCEPT !.pc = "storing", !.got = answer]]
            BY <2>4 DEF JobAttemptEnds
        <3>2. /\ [v EXCEPT !.pc = "walking", !.at = @ + 1] \in Walks
              /\ [v EXCEPT !.pc = "walking", !.at = @ + 1].pc = "walking"
              /\ [v EXCEPT !.pc = "storing", !.got = answer] \in Walks
              /\ [v EXCEPT !.pc = "storing", !.got = answer].got = answer
            BY <1>1, <2>1 DEF Walks
        <3> QED BY <1>1, <2>4, <3>1, <3>2 DEF JobAttemptEnds, JobSound
    <2>5. CASE JobStores(j) \/ JobFails(j)
        <3>1. NoQuery \in Walks /\ NoQuery.pc = "idle"
            BY DEF NoQuery, Walks, Orders
        <3> QED BY <1>1, <2>5, <3>1 DEF JobStores, JobFails, JobSound
    <2> QED BY <2>2, <2>3, <2>4, <2>5
<1>3. UNCHANGED <<settings, records, query, seen>>
    BY DEF StartJob, JobAttempt, JobAttemptEnds, JobStores, JobFails
<1>4. job' \in [Jobs -> Walks] /\ \A k \in Jobs : JobSound(job[k])'
    BY <1>2 DEF IInv, TypeOK, JobSound
<1>5. TypeOK'
    BY <1>2, <1>3, <1>4 DEF IInv, TypeOK, settings
<1>6. \A q \in Running' : WalkSound(query[q], seen[q])'
    BY <1>3 DEF IInv, Running, WalkSound, InForce, OrderSound, PlaceSound, TriedSound, AnswerSound,
                PassedSound, Strategy, Unusable, settings
<1> QED BY <1>3, <1>4, <1>5, <1>6 DEF IInv

\* A walk stays sound when more was in force during it.
LEMMA SeenGrows ==
    ASSUME NEW w, NEW s \in Seen, NEW t \in Seen, WalkSound(w, s),
           s.bans \subseteq t.bans, s.records \subseteq t.records, t.tried = s.tried
    PROVE  /\ OrderSound(w) /\ PlaceSound(w)
           /\ TriedSound(w, t) /\ AnswerSound(w, t) /\ PassedSound(w, t)
<1>1. Unusable(s) => Unusable(t)
    BY DEF Unusable, WalkSound, InForce
<1> QED BY <1>1 DEF WalkSound, TriedSound, AnswerSound, PassedSound

\* A reload, a change of the records, an entry that expires.
LEMMA ChangeSound ==
    ASSUME IInv, ReloadBan \/ ApplyRuntime \/ ChangeRecords \/ Expire
    PROVE  IInv'
<1>1. UNCHANGED <<query, job>> /\ cached' \in Answers \cup {NoAnswer}
    BY DEF ReloadBan, ApplyRuntime, ChangeRecords, Expire, IInv, TypeOK
<1>2. /\ config' \in Configs /\ loaded' \in Configs /\ ban' \in {c.ban : c \in Configs}
      /\ records' \in RecordStates
    BY DEF ReloadBan, ApplyRuntime, ChangeRecords, Expire, IInv, TypeOK, settings
<1>3. TypeOK'
    BY <1>1, <1>2 DEF IInv, TypeOK
<1>4. /\ seen' \in [Queries -> Seen]
      /\ \A q \in Running : /\ seen[q].bans \subseteq seen'[q].bans
                            /\ seen[q].records \subseteq seen'[q].records
                            /\ seen'[q].tried = seen[q].tried
                            /\ ban' \in seen'[q].bans /\ records' \in seen'[q].records
    <2>1. \A q \in Queries : /\ seen[q] \in Seen
                             /\ q \in Running => /\ ban \in seen[q].bans
                                                 /\ records \in seen[q].records
        BY DEF IInv, WalkSound, InForce
    <2>2. CASE ReloadBan
        <3>1. SawBan(ban') /\ UNCHANGED records
            BY <2>2 DEF ReloadBan
        <3>2. \A q \in Queries : [seen[q] EXCEPT !.bans = @ \cup {ban'}] \in Seen
            BY <1>2, <2>1 DEF Seen
        <3> QED BY <2>1, <3>1, <3>2 DEF SawBan, Seen, Running
    <2>3. CASE ChangeRecords
        <3>1. SawRecords(records') /\ UNCHANGED ban
            BY <2>3 DEF ChangeRecords, settings
        <3>2. \A q \in Queries : [seen[q] EXCEPT !.records = @ \cup {records'}] \in Seen
            BY <1>2, <2>1 DEF Seen
        <3> QED BY <2>1, <3>1, <3>2 DEF SawRecords, Seen, Running
    <2>4. CASE ApplyRuntime \/ Expire
        <3>1. UNCHANGED <<seen, ban, records>>
            BY <2>4 DEF ApplyRuntime, Expire, settings
        <3>2. \A q \in Running : q \in Queries
            BY DEF Running
        <3> QED BY <2>1, <3>1, <3>2 DEF IInv
    <2> QED BY <2>2, <2>3, <2>4
<1>5. ASSUME NEW q \in Running'
      PROVE  WalkSound(query[q], seen[q])'
    <2>1. /\ q \in Running /\ q \in Queries /\ query'[q] = query[q]
          /\ seen[q] \in Seen /\ seen'[q] \in Seen /\ WalkSound(query[q], seen[q])
        BY <1>1, <1>4 DEF IInv, Running
    <2>2. /\ OrderSound(query[q]) /\ PlaceSound(query[q])
          /\ TriedSound(query[q], seen'[q]) /\ AnswerSound(query[q], seen'[q])
          /\ PassedSound(query[q], seen'[q])
        BY <1>4, <2>1, SeenGrows
    <2>3. InForce(seen[q])'
        BY <1>4, <2>1 DEF InForce
    <2> QED BY <2>1, <2>2, <2>3
            DEF WalkSound, OrderSound, PlaceSound, TriedSound, AnswerSound, PassedSound, Strategy,
                Unusable
<1>6. \A j \in Jobs : JobSound(job[j])'
    BY <1>1 DEF IInv, JobSound
<1> QED BY <1>3, <1>4, <1>5, <1>6 DEF IInv

\* The invariant is inductive.
LEMMA StepSound == IInv /\ [Next]_vars => IInv'
<1> SUFFICES ASSUME IInv, [Next]_vars PROVE IInv'
    OBVIOUS
<1>1. ASSUME NEW q \in Queries, Begin(q) \/ Walk(q) PROVE IInv'
    BY <1>1, BeginSound, RankSound, LocalSound, AttemptSound, AttemptEndsSound, CheckSound,
       StoreSound, GiveUpSound, ReplySound DEF Walk
<1>2. ASSUME NEW j \in Jobs,
             StartJob(j) \/ JobAttempt(j) \/ JobAttemptEnds(j) \/ JobStores(j) \/ JobFails(j)
      PROVE  IInv'
    BY <1>2, RefreshSound
<1>3. CASE UNCHANGED vars
    BY <1>3 DEF vars, settings, IInv, TypeOK, Running, WalkSound, InForce, OrderSound, PlaceSound,
                TriedSound, AnswerSound, PassedSound, Strategy, Unusable, JobSound
<1> QED BY <1>1, <1>2, <1>3, ChangeSound DEF Next

\* It holds in every reachable state.
LEMMA Invariance == Spec => []IInv
BY InitSound, StepSound, PTL DEF Spec

-----------------------------------------------------------------------------
\* Every walk is over a permutation of a configured order, and the cache holds
\* nothing but what upstreams answered.
THEOREM TypeCorrect == Spec => []TypeOK
<1>1. IInv => TypeOK
    BY DEF IInv
<1> QED BY <1>1, Invariance, PTL

\* No client is handed an answer that was banned for as long as its query ran.
THEOREM BannedNeverServed == Spec => []NoBannedAnswerServed
<1>1. IInv => NoBannedAnswerServed
    BY DEF IInv, Running, WalkSound, AnswerSound, NoBannedAnswerServed
<1> QED BY <1>1, Invariance, PTL

\* The local answer is given only while there were records to make it of.
THEOREM LocalAnswersAreCurrent == Spec => []LocalAnswerHasRecords
<1>1. IInv => LocalAnswerHasRecords
    BY DEF IInv, Running, WalkSound, AnswerSound, LocalAnswerHasRecords
<1> QED BY <1>1, Invariance, PTL

\* SERVFAIL comes after every strategy of a configured order was tried.
THEOREM EveryStrategyTried == Spec => []FailsOnlyAfterAll
<1>1. IInv => FailsOnlyAfterAll
    <2> SUFFICES ASSUME IInv, NEW q \in Queries, query[q].pc = "done", query[q].got = NoAnswer
                 PROVE  \E c \in Configs : {c.order[i] : i \in DOMAIN c.order} = seen[q].tried
        BY DEF FailsOnlyAfterAll
    <2>1. WalkSound(query[q], seen[q])
        BY WalkFacts
    <2>2. PICK c \in Configs : Ranked(query[q].order, c.order)
        BY <2>1 DEF WalkSound, OrderSound
    <2>3. {c.order[i] : i \in DOMAIN c.order} = {query[q].order[i] : i \in DOMAIN query[q].order}
        <3>1. c.order \in Seq(Strategies)
            BY ConfiguredOrders
        <3> QED BY <2>2, <3>1, SameStrategies
    <2> QED BY <2>1, <2>3 DEF WalkSound, TriedSound
<1> QED BY <1>1, Invariance, PTL

\* A name with usable records is not asked upstream, if the configured order has the
\* records before the upstreams: ranking moves no upstream ahead of them.
THEOREM LocalNamesAnsweredLocally == Spec => []LocalNamesStayLocal
<1>1. IInv => LocalNamesStayLocal
    <2> SUFFICES ASSUME IInv, NEW q \in Queries, query[q].pc = "asking",
                        seen[q].records = {"usable"}, \A b \in seen[q].bans : Local \notin b
                 PROVE  \E c \in Configs : \E i \in DOMAIN c.order :
                          /\ IsUpstream(c.order[i])
                          /\ "records" \notin {c.order[k] : k \in 1..(i - 1)}
        BY DEF LocalNamesStayLocal
    <2> DEFINE order == query[q].order
               i == query[q].at
    <2>1. /\ WalkSound(query[q], seen[q])
          /\ DOMAIN order = 1..Len(order) /\ Len(order) \in Nat /\ i \in Nat /\ i >= 1
        BY WalkFacts
    <2>2. PICK c \in Configs : Ranked(order, c.order)
        BY <2>1 DEF WalkSound, OrderSound
    <2>3. /\ DOMAIN c.order = DOMAIN order
          /\ \A k \in DOMAIN c.order : /\ IsUpstream(order[k]) <=> IsUpstream(c.order[k])
                                       /\ ~IsUpstream(c.order[k]) => order[k] = c.order[k]
        BY <2>2, ConfiguredOrders, RankedKeeps
    <2>4. i \in DOMAIN c.order /\ IsUpstream(c.order[i])
        BY <2>1, <2>3 DEF WalkSound, PlaceSound, Strategy
    <2>5. ~Unusable(seen[q])
        BY DEF Unusable
    <2>6. \A k \in 1..(i - 1) : k \in DOMAIN c.order /\ order[k] # "records"
        BY <2>1, <2>3, <2>4, <2>5 DEF WalkSound, PassedSound
    <2>7. ~IsUpstream("records")
        BY DEF IsUpstream
    <2>8. \A k \in 1..(i - 1) : c.order[k] # "records"
        BY <2>3, <2>6, <2>7
    <2> QED BY <2>4, <2>8
<1> QED BY <1>1, Invariance, PTL
=============================================================================
