------------------------- MODULE AnswerCacheProofs -------------------------
(***************************************************************************)
(* Proofs about AnswerCache and PersistentCache, for every set of names,   *)
(* types, callers and refresh goroutines, every configuration that         *)
(* CacheAssumption allows, and any number of restarts.                     *)
(***************************************************************************)
EXTENDS PersistentCache, FiniteSetTheorems, FunctionTheorems, SequenceTheorems, TLAPS

-----------------------------------------------------------------------------
(* The recency list.                                                       *)

\* The keys on the list are finitely many, and no more than its length.
LEMMA ListFinite ==
    ASSUME NEW S, order \in Seq(S)
    PROVE  /\ IsFiniteSet(Range(order))
           /\ Cardinality(Range(order)) <= Len(order)
<1> DEFINE D == 1..Len(order)
<1>1. Len(order) \in Nat /\ DOMAIN order = D
  BY LenProperties
<1>2. IsFiniteSet(D) /\ Cardinality(D) = Len(order)
  BY <1>1, FS_Interval
<1>3. order \in Surjection(D, Range(order))
  BY <1>1, order \in [D -> Range(order)] DEF Surjection, Range
<1> QED
  BY <1>2, <1>3, FS_Surjection

\* A list that names each key once is as long as it has keys.
LEMMA ListSize ==
    ASSUME NEW S, NEW s \in Seq(S), IsInjective(s)
    PROVE  Len(s) = Cardinality(Range(s))
<1> DEFINE D == 1..Len(s)
<1>1. Len(s) \in Nat /\ DOMAIN s = D /\ s \in [D -> S]
  BY LenProperties
<1>2. IsFiniteSet(D) /\ Cardinality(D) = Len(s)
  BY <1>1, FS_Interval
<1>3. s \in Surjection(D, Range(s)) /\ s \in Injection(D, Range(s))
  BY <1>1 DEF Injection, Surjection, Range, IsInjective
<1> QED
  BY <1>2, <1>3, FS_Surjection

\* What thinning the list leaves: the keys of S, each once.
LEMMA ThinnedList ==
    ASSUME order \in Seq(Keys), IsInjective(order),
           NEW S \in SUBSET Range(order), NEW t \in Thinned(S)
    PROVE  /\ t \in Seq(S)
           /\ Len(t) = Cardinality(S)
           /\ Range(t) = S
           /\ IsInjective(t)
           /\ \A i, j \in DOMAIN t : i < j =>
                \E a, b \in DOMAIN order : a < b /\ order[a] = t[i] /\ order[b] = t[j]
<1>1. IsFiniteSet(S)
  BY ListFinite, FS_Subset
<1>2. Cardinality(S) \in Nat
  BY <1>1, FS_CardinalityType
<1>3. t \in Seq(S) /\ Len(t) = Cardinality(S) /\ DOMAIN t = 1..Cardinality(S)
  BY <1>2, SeqDef, LenProperties DEF Thinned
<1>4. Range(t) = S
  BY <1>3, t \in [1..Cardinality(S) -> S] DEF Thinned, Range
<1>5. \A i, j \in DOMAIN t : i < j =>
         \E a, b \in DOMAIN order : a < b /\ order[a] = t[i] /\ order[b] = t[j]
  BY DEF Thinned
<1>6. IsInjective(t)
  <2> SUFFICES ASSUME NEW i \in DOMAIN t, NEW j \in DOMAIN t, t[i] = t[j], i < j
               PROVE  FALSE
    BY <1>2, <1>3 DEF IsInjective
  <2>1. PICK a \in DOMAIN order, b \in DOMAIN order :
            a < b /\ order[a] = t[i] /\ order[b] = t[j]
    BY <1>5
  <2>2. a = b
    BY <2>1 DEF IsInjective
  <2>3. a \in Int
    BY LenProperties
  <2> QED
    BY <2>1, <2>2, <2>3
<1> QED
  BY <1>3, <1>4, <1>5, <1>6

\* The state of the map and the list that every step preserves.
MapOK == /\ now \in Time /\ capacity \in Nat
         /\ items \in [Keys -> Entry \cup {NoEntry}]
         /\ order \in Seq(Keys)

EntryOK(k) == /\ KeyOf(items[k].for) = k
              /\ items[k].storedAt <= now
              /\ items[k].usedAt <= now
              /\ items[k].expireAt <= items[k].storedAt + LongestLife

StoreInv == /\ MapOK
            /\ ListMatchesMap
            /\ RecencyOrder
            /\ \A k \in Cached : EntryOK(k)

\* A step lets no list grow beyond the capacity, and an overfull one not at all:
\* it fits afterwards, or is shorter, or holds what it held.
Trimmed == \/ Len(order') <= capacity
           \/ Len(order') < Len(order)
           \/ Range(order') = Range(order)

StoreStep == StoreInv' /\ Trimmed

\* A change of items that keeps Cached is described by Cached'.
LEMMA CachedNext == Cached' = {k \in Keys : items'[k] # NoEntry}
BY DEF Cached

\* A cached key holds an entry, and is a key.
LEMMA EntryFacts ==
    ASSUME MapOK, NEW k \in Cached
    PROVE  k \in Keys /\ items[k] \in Entry
BY DEF MapOK, Cached

\* removeLocked takes keys out of the map and of the list alike.
LEMMA RemoveKeeps ==
    ASSUME StoreInv, NEW S, Remove(S), UNCHANGED <<now, capacity>>
    PROVE  StoreStep
<1> DEFINE Left == Range(order) \ S
<1>1. /\ order \in Seq(Keys) /\ IsInjective(order) /\ Range(order) = Cached
      /\ Left \in SUBSET Range(order) /\ order' \in Thinned(Left)
  BY DEF StoreInv, MapOK, ListMatchesMap, Remove
<1>2. /\ order' \in Seq(Left)
      /\ Len(order') = Cardinality(Left)
      /\ Range(order') = Left
      /\ IsInjective(order')
      /\ \A i, j \in DOMAIN order' : i < j =>
           \E a, b \in DOMAIN order : a < b /\ order[a] = order'[i] /\ order[b] = order'[j]
  BY <1>1, ThinnedList
<1>3. Left \subseteq Keys
  BY <1>1 DEF Cached
<1>4. MapOK'
  BY <1>2, <1>3, SeqMonotonic DEF StoreInv, MapOK, Remove
<1>5. \A k \in Keys \ S : items'[k] = items[k]
  BY DEF Remove
<1>6. Cached' = Left
  BY <1>1, <1>3 DEF Cached, Remove
<1>7. Trimmed
  <2>1. IsFiniteSet(Range(order)) /\ Cardinality(Range(order)) <= Len(order)
    BY <1>1, ListFinite
  <2>2. /\ Cardinality(Left) <= Cardinality(Range(order))
        /\ Cardinality(Left) = Cardinality(Range(order)) => Left = Range(order)
    BY <2>1, FS_Subset
  <2>3. Cardinality(Left) \in Nat /\ Cardinality(Range(order)) \in Nat /\ Len(order) \in Nat
    BY <1>1, <2>1, FS_Subset, FS_CardinalityType, LenProperties
  <2> QED
    BY <1>2, <2>1, <2>2, <2>3 DEF Trimmed
<1>9. RecencyOrder'
  BY <1>2, <1>5, <1>3, RangeEquality DEF StoreInv, RecencyOrder, Range
<1>10. \A k \in Cached' : EntryOK(k)'
  BY <1>1, <1>3, <1>5, <1>6 DEF StoreInv, EntryOK
<1> QED
  BY <1>2, <1>4, <1>6, <1>7, <1>9, <1>10 DEF StoreStep, StoreInv, ListMatchesMap

\* MoveToFront permutes the list: k comes first, the others keep their order.
LEMMA MovedToFront ==
    ASSUME order \in Seq(Keys), IsInjective(order), NEW k \in Range(order), MoveToFront(k)
    PROVE  /\ order' \in Seq(Keys)
           /\ Len(order') <= Len(order)
           /\ Range(order') = Range(order)
           /\ IsInjective(order')
           /\ \A i, j \in DOMAIN order' : i < j =>
                \/ order'[i] = k
                \/ /\ order'[i] # k /\ order'[j] # k
                   /\ \E a, b \in DOMAIN order :
                        a < b /\ order[a] = order'[i] /\ order[b] = order'[j]
<1> DEFINE Rest == Range(order) \ {k}
<1>1. PICK t \in Thinned(Rest) : order' = <<k>> \o t
  BY DEF MoveToFront
<1>2. /\ t \in Seq(Rest)
      /\ Len(t) = Cardinality(Rest)
      /\ Range(t) = Rest
      /\ IsInjective(t)
      /\ \A i, j \in DOMAIN t : i < j =>
           \E a, b \in DOMAIN order : a < b /\ order[a] = t[i] /\ order[b] = t[j]
  BY ThinnedList, Rest \in SUBSET Range(order)
<1>3. Range(order) \subseteq Keys
  BY RangeOfSeq
<1>4. t \in Seq(Keys) /\ k \in Keys
  BY <1>2, <1>3, SeqMonotonic
<1>5. /\ order' \in Seq(Keys)
      /\ Len(t) \in Nat
      /\ Len(order') = 1 + Len(t)
      /\ order'[1] = k
      /\ \A i \in 1..Len(t) : order'[i + 1] = t[i]
  BY <1>1, <1>4
<1>6. DOMAIN order' = 1..(1 + Len(t)) /\ DOMAIN t = 1..Len(t)
  BY <1>4, <1>5, LenProperties
<1>7. \A i \in DOMAIN order' : i = 1 \/ (i - 1 \in DOMAIN t /\ order'[i] = t[i - 1])
  BY <1>5, <1>6
<1>8. \A i \in DOMAIN t : t[i] \in Rest
  BY <1>2 DEF Range
<1>9. Range(order') = Range(order)
  <2>1. Range(<<k>>) = {k}
    BY DEF Range
  <2>2. <<k>> \in Seq(Keys)
    BY <1>4
  <2>3. Range(<<k>> \o t) = Range(<<k>>) \cup Range(t)
    BY <1>4, <2>2, RangeConcatenation
  <2> QED
    BY <1>1, <1>2, <2>1, <2>3
<1>10. IsInjective(order')
  <2> SUFFICES ASSUME NEW i \in DOMAIN order', NEW j \in DOMAIN order',
                      order'[i] = order'[j]
               PROVE  i = j
    BY DEF IsInjective
  <2>1. CASE i = 1 \/ j = 1
    BY <2>1, <1>5, <1>7, <1>8
  <2>2. CASE i # 1 /\ j # 1
    <3>1. i - 1 \in DOMAIN t /\ j - 1 \in DOMAIN t /\ t[i - 1] = t[j - 1]
      BY <2>2, <1>7
    <3>2. i - 1 = j - 1
      BY <3>1, <1>2 DEF IsInjective
    <3> QED
      BY <3>2, <1>5, <1>6
  <2> QED
    BY <2>1, <2>2
<1>11. Len(order') <= Len(order)
  <2>1. IsFiniteSet(Range(order)) /\ Cardinality(Range(order)) <= Len(order)
    BY ListFinite
  <2>2. Cardinality(Rest) = Cardinality(Range(order)) - 1
    BY <2>1, FS_RemoveElement
  <2>3. Cardinality(Range(order)) \in Nat /\ Len(order) \in Nat
    BY <2>1, FS_CardinalityType, LenProperties
  <2> QED
    BY <1>2, <1>5, <2>1, <2>2, <2>3
<1>12. ASSUME NEW i \in DOMAIN order', NEW j \in DOMAIN order', i < j
       PROVE  \/ order'[i] = k
              \/ /\ order'[i] # k /\ order'[j] # k
                 /\ \E a, b \in DOMAIN order :
                      a < b /\ order[a] = order'[i] /\ order[b] = order'[j]
  <2>1. CASE i = 1
    BY <2>1, <1>5
  <2>2. CASE i # 1
    <3>1. /\ i - 1 \in DOMAIN t /\ order'[i] = t[i - 1]
          /\ j - 1 \in DOMAIN t /\ order'[j] = t[j - 1]
          /\ i - 1 < j - 1
      BY <2>2, <1>12, <1>6, <1>7
    <3>2. order'[i] # k /\ order'[j] # k
      BY <3>1, <1>8
    <3>3. \E a, b \in DOMAIN order : a < b /\ order[a] = t[i - 1] /\ order[b] = t[j - 1]
      BY <3>1, <1>2
    <3> QED
      BY <3>1, <3>2, <3>3
  <2> QED
    BY <2>1, <2>2
<1> QED
  BY <1>5, <1>9, <1>10, <1>11, <1>12

\* A hit, or a store under a key that is cached: the entry is used now and
\* moves to the front, all others stay as they are.
LEMMA TouchKeeps ==
    ASSUME StoreInv, UNCHANGED <<now, capacity>>, NEW k \in Cached,
           NEW e \in Entry, items' = [items EXCEPT ![k] = e], MoveToFront(k),
           KeyOf(e.for) = k, e.usedAt = now, e.storedAt <= now,
           e.expireAt <= e.storedAt + LongestLife
    PROVE  StoreStep
<1>1. /\ order \in Seq(Keys) /\ IsInjective(order) /\ Range(order) = Cached
      /\ k \in Range(order) /\ k \in Keys
  BY DEF StoreInv, MapOK, ListMatchesMap, Cached
<1>2. /\ order' \in Seq(Keys)
      /\ Len(order') <= Len(order)
      /\ Range(order') = Range(order)
      /\ IsInjective(order')
  BY <1>1, MovedToFront
<1>3. /\ items' \in [Keys -> Entry \cup {NoEntry}]
      /\ items'[k] = e
      /\ \A x \in Keys \ {k} : items'[x] = items[x]
  BY <1>1 DEF StoreInv, MapOK
<1>4. Cached' = Cached
  BY <1>1, <1>3, CacheAssumption DEF Cached, CacheAssumption
<1>5. Trimmed
  BY <1>2 DEF Trimmed
<1>6. RecencyOrder'
  <2> SUFFICES ASSUME NEW i \in DOMAIN order', NEW j \in DOMAIN order', i < j
               PROVE  items'[order'[i]].usedAt >= items'[order'[j]].usedAt
    BY DEF RecencyOrder
  <2>1. order'[i] \in Cached /\ order'[j] \in Cached
    BY <1>1, <1>2 DEF Range
  <2>2. items'[order'[j]].usedAt <= now /\ items'[order'[j]].usedAt \in Nat /\ now \in Nat
    <3>1. items[order'[j]].usedAt <= now /\ items[order'[j]] \in Entry
      BY <2>1, EntryFacts DEF StoreInv, EntryOK
    <3> QED
      BY <1>3, <2>1, <3>1, EntryFacts DEF StoreInv, MapOK, Entry, Time
  <2>3. CASE order'[i] = k
    BY <2>2, <2>3, <1>3
  <2>4. CASE order'[i] # k
    BY <2>1, <2>4, <1>1, <1>3, MovedToFront, EntryFacts DEF StoreInv, RecencyOrder
  <2> QED
    BY <2>3, <2>4
<1>7. ASSUME NEW x \in Cached PROVE EntryOK(x)'
  BY <1>1, <1>3, EntryFacts DEF StoreInv, MapOK, EntryOK, Time
<1> QED
  BY <1>1, <1>2, <1>3, <1>4, <1>5, <1>6, <1>7
     DEF StoreStep, StoreInv, MapOK, ListMatchesMap

\* A new key goes to the front and pushes whatever exceeds the capacity off
\* the back, also when the cache was overfull.
LEMMA InsertKeeps ==
    ASSUME StoreInv, UNCHANGED <<now, capacity>>, capacity > 0, NEW k \in Keys,
           NEW q \in Questions, KeyOf(q) = k, NEW life \in Nat, life <= LongestLife,
           NEW prefetched \in BOOLEAN, Insert(k, q, life, prefetched)
    PROVE  StoreStep
<1> DEFINE longer == <<k>> \o order
           fits == Fitting(Len(longer))
           evicted == {longer[i] : i \in (fits + 1)..Len(longer)}
           new == [for |-> q, expireAt |-> now + life, hits |-> 0,
                   fromPrefetch |-> prefetched, readable |-> TRUE,
                   storedAt |-> now, usedAt |-> now]
<1>1. /\ order \in Seq(Keys) /\ IsInjective(order) /\ Range(order) = Cached
      /\ k \notin Cached /\ now \in Nat /\ now \in Time /\ capacity \in Nat
  BY CacheAssumption
     DEF StoreInv, MapOK, ListMatchesMap, Insert, Time, CacheAssumption
<1>2. /\ items' = [x \in Keys |-> IF x \in evicted THEN NoEntry
                                  ELSE IF x = k THEN new ELSE items[x]]
      /\ order' = SubSeq(longer, 1, fits)
  BY DEF Insert
<1>3. /\ longer \in Seq(Keys)
      /\ Len(order) \in Nat
      /\ Len(longer) = 1 + Len(order)
      /\ longer[1] = k
      /\ \A i \in 1..Len(order) : longer[i + 1] = order[i]
      /\ DOMAIN order = 1..Len(order)
  BY <1>1, LenProperties
<1>4. fits \in Nat /\ fits >= 1 /\ fits <= Len(longer) /\ fits <= capacity
  BY <1>1, <1>3 DEF Fitting
<1> HIDE DEF fits
<1>5. \A i \in 1..Len(longer) : longer[i] \in Keys /\ (i = 1 \/ (i - 1 \in DOMAIN order /\ longer[i] = order[i - 1]))
  BY <1>1, <1>3, ElementOfSeq
<1>6. \A i \in 1..Len(longer) : i # 1 => longer[i] \in Cached /\ longer[i] # k
  BY <1>1, <1>5 DEF Range
<1>7. \A i, j \in 1..Len(longer) : longer[i] = longer[j] => i = j
  <2> SUFFICES ASSUME NEW i \in 1..Len(longer), NEW j \in 1..Len(longer),
                      longer[i] = longer[j]
               PROVE  i = j
    OBVIOUS
  <2>1. CASE i = 1 \/ j = 1
    BY <2>1, <1>3, <1>6
  <2>2. CASE i # 1 /\ j # 1
    <3>1. i - 1 \in DOMAIN order /\ j - 1 \in DOMAIN order /\ order[i - 1] = order[j - 1]
      BY <2>2, <1>5
    <3>2. i - 1 = j - 1
      BY <3>1, <1>1 DEF IsInjective
    <3> QED
      BY <3>2
  <2> QED
    BY <2>1, <2>2
<1> HIDE DEF longer
<1>8. /\ order' \in Seq(Keys)
      /\ Len(order') = fits
      /\ DOMAIN order' = 1..fits
      /\ \A i \in 1..fits : order'[i] = longer[i]
  <2>1. \A i \in 1..fits : longer[i] \in Keys
    BY <1>3, <1>4, <1>5
  <2>2. /\ SubSeq(longer, 1, fits) \in Seq(Keys)
        /\ Len(SubSeq(longer, 1, fits)) = fits
        /\ \A i \in 1..fits : SubSeq(longer, 1, fits)[i] = longer[i]
    BY <1>4, <2>1, SubSeqProperties
  <2> QED
    BY <1>2, <2>2, LenProperties
<1>9. new \in Entry /\ new # NoEntry /\ KeyOf(new.for) = k
  <2>1. now + life \in Nat /\ 0 \in 0..HitsCap
    BY <1>1, CacheAssumption DEF CacheAssumption
  <2>2. new \in Entry
    BY <1>1, <2>1 DEF Entry
  <2>3. NoEntry \notin Entry
    BY CacheAssumption DEF CacheAssumption
  <2> QED
    BY <2>2, <2>3
<1>10. items' \in [Keys -> Entry \cup {NoEntry}]
  BY <1>2, <1>9 DEF StoreInv, MapOK
<1>11. /\ k \notin evicted
       /\ \A i \in 1..fits : longer[i] \notin evicted
  BY <1>3, <1>4, <1>7
<1>12. items'[k] = new /\ \A x \in Keys \ {k} : x \notin evicted => items'[x] = items[x]
  BY <1>2, <1>11
<1>13. Range(order') = Cached'
  <2>1. ASSUME NEW x \in Range(order') PROVE x \in Cached'
    <3>1. PICK i \in 1..fits : x = longer[i]
      BY <1>8 DEF Range
    <3>2. x \in Keys /\ x \notin evicted /\ (x = k \/ x \in Cached)
      BY <3>1, <1>3, <1>4, <1>5, <1>6, <1>11
    <3> QED
      BY <3>2, <1>9, <1>12 DEF Cached
  <2>2. ASSUME NEW x \in Cached' PROVE x \in Range(order')
    <3>1. x \in Keys /\ x \notin evicted /\ (x = k \/ x \in Cached)
      BY <1>2 DEF Cached
    <3>2. \E i \in 1..Len(longer) : x = longer[i]
      <4>1. CASE x = k
        BY <4>1, <1>3
      <4>2. CASE x \in Cached
        <5>1. PICK i \in DOMAIN order : x = order[i]
          BY <4>2, <1>1 DEF Range
        <5> QED
          BY <5>1, <1>3
      <4> QED
        BY <3>1, <4>1, <4>2
    <3>3. PICK i \in 1..Len(longer) : x = longer[i]
      BY <3>2
    <3>4. i \in 1..fits
      BY <3>1, <3>3, <1>3, <1>4
    <3> QED
      BY <3>3, <3>4, <1>8 DEF Range
  <2> QED
    BY <2>1, <2>2
<1>14. IsInjective(order')
  BY <1>3, <1>4, <1>7, <1>8 DEF IsInjective
<1>15. Trimmed
  BY <1>4, <1>8 DEF Trimmed
<1>16. RecencyOrder'
  <2> SUFFICES ASSUME NEW i \in DOMAIN order', NEW j \in DOMAIN order', i < j
               PROVE  items'[order'[i]].usedAt >= items'[order'[j]].usedAt
    BY DEF RecencyOrder
  <2>1. /\ i \in 1..Len(longer) /\ j \in 1..Len(longer) /\ j # 1
        /\ order'[i] = longer[i] /\ order'[j] = longer[j]
        /\ longer[i] \notin evicted /\ longer[j] \notin evicted
    BY <1>3, <1>4, <1>8, <1>11
  <2>2. /\ longer[j] \in Cached /\ longer[j] # k /\ longer[j] \in Keys
        /\ items'[longer[j]] = items[longer[j]]
    BY <2>1, <1>5, <1>6, <1>12
  <2>3. /\ items[longer[j]].usedAt <= now
        /\ items[longer[j]].usedAt \in Nat
    BY <2>2, EntryFacts, CacheAssumption
       DEF StoreInv, EntryOK, Entry, Time, CacheAssumption
  <2>4. CASE i = 1
    BY <2>1, <2>2, <2>3, <2>4, <1>1, <1>3, <1>12
  <2>5. CASE i # 1
    <3>1. /\ i - 1 \in DOMAIN order /\ longer[i] = order[i - 1]
          /\ j - 1 \in DOMAIN order /\ longer[j] = order[j - 1]
          /\ i - 1 < j - 1
      BY <2>1, <2>5, <1>5
    <3>2. items[order[i - 1]].usedAt >= items[order[j - 1]].usedAt
      BY <3>1 DEF StoreInv, RecencyOrder
    <3>3. items'[longer[i]] = items[longer[i]]
      BY <2>1, <2>5, <1>5, <1>6, <1>12
    <3> QED
      BY <2>1, <2>2, <3>1, <3>2, <3>3
  <2> QED
    BY <2>4, <2>5
<1>17. ASSUME NEW x \in Cached' PROVE EntryOK(x)'
  <2>1. x \in Keys /\ x \notin evicted /\ (x = k \/ x \in Cached)
    BY <1>2 DEF Cached
  <2>2. CASE x = k
    BY <2>2, <1>1, <1>9, <1>12, CacheAssumption DEF EntryOK, CacheAssumption
  <2>3. CASE x # k
    BY <2>1, <2>3, <1>12 DEF StoreInv, EntryOK
  <2> QED
    BY <2>2, <2>3
<1> QED
  BY <1>1, <1>8, <1>10, <1>13, <1>14, <1>15, <1>16, <1>17
     DEF StoreStep, StoreInv, MapOK, ListMatchesMap

-----------------------------------------------------------------------------
(* The inductive invariant of the cache: what the map and the list hold,   *)
(* which options can be in force, and what callers and refreshes carry.    *)

GoodOptions(o) == o \in Options /\ o.maxTTL > 0 /\ Capped(o)

GoodClient(r) == /\ r \in Client
                 /\ GoodOptions(r.seen)
                 /\ r.pc \in {"fresh", "stale"} => /\ KeyOf(r.got) = KeyOf(r.q)
                                                  /\ r.age <= LongestLife + LongestStale

GoodJob(r) == r \in Job /\ GoodOptions(r.seen)

CacheInv == /\ TypeOK
            /\ StoreInv
            /\ GoodOptions(opts)
            /\ \A c \in Clients : GoodClient(client[c])
            /\ \A j \in Jobs : GoodJob(job[j])

\* Every question has a key.
LEMMA KeyOfType == \A q \in Questions : KeyOf(q) \in Keys
BY DEF Questions, Keys, KeyOf

\* The question idle goroutines hold exists: there is a name and a known type.
LEMMA SomeQuestionType == SomeQuestion \in Questions
<1>1. \E q \in Questions : q[2] \in KnownTypes
  <2>1. PICK n \in Names, t \in KnownTypes : TRUE
    BY CacheAssumption DEF CacheAssumption
  <2>2. <<n, t>> \in Questions /\ <<n, t>>[2] \in KnownTypes
    BY <2>1 DEF Questions
  <2> QED
    BY <2>2
<1> QED
  BY <1>1 DEF SomeQuestion

\* The options a process starts with respect the ceilings.
LEMMA InitialGood == GoodOptions(InitialOptions)
BY CacheAssumption DEF CacheAssumption, GoodOptions

\* A caller that has nothing under way claims nothing.
LEMMA IdleGood == GoodClient(IdleClient)
<1>1. /\ 0 \in Nat /\ 0 \in 0..HitsCap /\ NoRecords \in AnswerTTLs
      /\ InitialOptions \in Options
  BY CacheAssumption DEF CacheAssumption
<1>2. IdleClient \in Client
  BY <1>1, SomeQuestionType DEF IdleClient, Client
<1> QED
  BY <1>2, InitialGood DEF GoodClient, IdleClient

\* Nor does a free slot of the background refreshes.
LEMMA NoJobGood == GoodJob(NoJob)
<1>1. NoRecords \in AnswerTTLs /\ InitialOptions \in Options
  BY CacheAssumption DEF CacheAssumption
<1>2. NoJob \in Job
  BY <1>1, SomeQuestionType DEF NoJob, Job
<1> QED
  BY <1>2, InitialGood DEF GoodJob, NoJob

\* One goroutine at a time changes its own state.
LEMMA OneClientMoves ==
    ASSUME client \in [Clients -> Client], \A x \in Clients : GoodClient(client[x]),
           NEW c \in Clients, NEW r, GoodClient(r), client' = [client EXCEPT ![c] = r]
    PROVE  /\ client' \in [Clients -> Client]
           /\ \A x \in Clients : GoodClient(client'[x])
BY DEF GoodClient

\* The same of a background refresh.
LEMMA OneJobMoves ==
    ASSUME job \in [Jobs -> Job], \A x \in Jobs : GoodJob(job[x]),
           NEW j \in Jobs, NEW r, GoodJob(r), job' = [job EXCEPT ![j] = r]
    PROVE  /\ job' \in [Jobs -> Job]
           /\ \A x \in Jobs : GoodJob(job'[x])
BY DEF GoodJob

\* Whether triggerRefresh starts a refresh or not.
LEMMA TriggerGood ==
    ASSUME TypeOK, \A j \in Jobs : GoodJob(job[j]), NEW q \in Questions,
           NEW reason \in {"prefetch", "stale"}, TriggerRefresh(q, reason)
    PROVE  /\ inFlight' \subseteq Keys
           /\ lastTry' \in [Keys -> Nat \cup {Never}]
           /\ job' \in [Jobs -> Job]
           /\ orphaned' \subseteq Keys
           /\ \A j \in Jobs : GoodJob(job'[j])
<1>1. CASE StartRefresh(q, reason)
  <2>1. KeyOf(q) \in Keys /\ now \in Nat
    BY KeyOfType, CacheAssumption DEF TypeOK, Time, CacheAssumption
  <2>2. PICK j \in Jobs :
          job' = [job EXCEPT ![j] = [NoJob EXCEPT !.pc = "calling", !.q = q, !.reason = reason]]
    BY <1>1 DEF StartRefresh
  <2>3. GoodJob([NoJob EXCEPT !.pc = "calling", !.q = q, !.reason = reason])
    BY NoJobGood DEF GoodJob, Job, NoJob
  <2>4. job' \in [Jobs -> Job] /\ \A x \in Jobs : GoodJob(job'[x])
    BY <2>2, <2>3, OneJobMoves DEF TypeOK
  <2>5. inFlight' \subseteq Keys /\ orphaned' \subseteq Keys
    BY <1>1, <2>1 DEF StartRefresh, TypeOK
  <2>6. lastTry' \in [Keys -> Nat \cup {Never}]
    BY <1>1, <2>1 DEF StartRefresh, TypeOK
  <2> QED
    BY <2>4, <2>5, <2>6
<1>2. CASE UNCHANGED refresh_vars
  BY <1>2 DEF refresh_vars, TypeOK
<1> QED
  BY <1>1, <1>2 DEF TriggerRefresh

\* Any mix of good options yields a lifetime within the ceiling.
LEMMA LifetimeBounded ==
    ASSUME NEW ttl \in AnswerTTLs, NEW o1, NEW o2, NEW o3,
           GoodOptions(o1), GoodOptions(o2), GoodOptions(o3)
    PROVE  LET life == Lifetime(ttl, o1.minTTL, o2.maxTTL, o3.negativeTTL)
           IN  life \in Nat /\ life <= LongestLife
<1>1. /\ o1.minTTL \in Nat /\ o2.maxTTL \in Nat /\ o3.negativeTTL \in Nat
      /\ o2.maxTTL > 0 /\ o2.maxTTL <= LongestLife /\ o3.negativeTTL <= LongestLife
  BY DEF GoodOptions, Options, Capped
<1>2. ttl = NoRecords \/ ttl \in Nat
  BY CacheAssumption DEF CacheAssumption
<1>3. LongestLife \in Nat
  BY CacheAssumption DEF CacheAssumption
<1> QED
  BY <1>1, <1>2, <1>3 DEF Lifetime, Clamp

\* store, whichever of its three outcomes it has, keeps the store consistent.
LEMMA StoreKeeps ==
    ASSUME StoreInv, capacity > 0, UNCHANGED <<now, capacity>>, GoodOptions(opts),
           NEW q \in Questions, NEW ttl \in AnswerTTLs, NEW seen, GoodOptions(seen),
           NEW prefetched \in BOOLEAN, Store(q, ttl, seen, prefetched)
    PROVE  StoreStep
<1>1. PICK o1 \in {seen, opts}, o2 \in {seen, opts}, o3 \in {seen, opts} :
        LET life == Lifetime(ttl, o1.minTTL, o2.maxTTL, o3.negativeTTL)
        IN  \/ life <= 0 /\ UNCHANGED store_vars
            \/ life > 0 /\ Update(KeyOf(q), q, life, prefetched)
            \/ life > 0 /\ Insert(KeyOf(q), q, life, prefetched)
  BY DEF Store
<1> DEFINE life == Lifetime(ttl, o1.minTTL, o2.maxTTL, o3.negativeTTL)
           k == KeyOf(q)
<1>2. life \in Nat /\ life <= LongestLife
  BY LifetimeBounded
<1>3. k \in Keys
  BY KeyOfType
<1>4. \/ life <= 0 /\ UNCHANGED store_vars
      \/ Update(k, q, life, prefetched)
      \/ Insert(k, q, life, prefetched)
  BY <1>1
<1> HIDE DEF life
<1>5. CASE UNCHANGED store_vars
  BY <1>5 DEF store_vars, StoreStep, Trimmed, StoreInv, MapOK, ListMatchesMap,
              RecencyOrder, Cached, EntryOK
<1>6. CASE Update(k, q, life, prefetched)
  <2> DEFINE e == [items[k] EXCEPT !.for = q, !.expireAt = now + life,
                                   !.fromPrefetch = prefetched, !.readable = TRUE,
                                   !.storedAt = now, !.usedAt = now]
  <2>1. k \in Cached /\ items' = [items EXCEPT ![k] = e] /\ MoveToFront(k)
    BY <1>6 DEF Update
  <2>2. items[k] \in Entry
    BY <2>1, EntryFacts DEF StoreInv
  <2>3. now \in Time /\ now \in Nat /\ now + life \in Nat
    BY <1>2, CacheAssumption DEF StoreInv, MapOK, Time, CacheAssumption
  <2>4. /\ e \in Entry /\ KeyOf(e.for) = k
        /\ e.usedAt = now /\ e.storedAt = now /\ e.expireAt = now + life
    BY <2>2, <2>3 DEF Entry
  <2> HIDE DEF e
  <2>5. now + life <= now + LongestLife
    BY <1>2, <2>3, CacheAssumption DEF CacheAssumption
  <2>6. e.storedAt <= now /\ e.expireAt <= e.storedAt + LongestLife
    BY <2>3, <2>4, <2>5
  <2> QED
    BY <2>1, <2>4, <2>6, TouchKeeps
<1>7. CASE Insert(k, q, life, prefetched)
  BY <1>2, <1>3, <1>7, InsertKeeps
<1> QED
  BY <1>4, <1>5, <1>6, <1>7

\* Time passes, the process starts again with another capacity, and nothing touches
\* the store.
LEMMA StoreStays ==
    ASSUME StoreInv, now' \in Time, now' >= now, capacity' \in Nat, UNCHANGED store_vars
    PROVE  StoreStep
<1>1. items' = items /\ order' = order
  BY DEF store_vars
<1>2. Cached' = Cached
  BY <1>1 DEF Cached
<1>3. MapOK'
  BY <1>1 DEF StoreInv, MapOK
<1>4. ListMatchesMap' /\ RecencyOrder' /\ Trimmed
  BY <1>1, <1>2 DEF StoreInv, ListMatchesMap, RecencyOrder, Trimmed
<1>5. ASSUME NEW k \in Cached PROVE EntryOK(k)'
  <2>1. items[k] \in Entry /\ EntryOK(k)
    BY EntryFacts DEF StoreInv
  <2>2. now \in Nat /\ now' \in Nat
    BY CacheAssumption DEF StoreInv, MapOK, Time, CacheAssumption
  <2>3. items[k].storedAt \in Nat /\ items[k].usedAt \in Nat
    BY <2>1, CacheAssumption DEF Entry, Time, CacheAssumption
  <2> QED
    BY <1>1, <2>1, <2>2, <2>3 DEF EntryOK
<1> QED
  BY <1>2, <1>3, <1>4, <1>5 DEF StoreInv, StoreStep

\* The empty cache satisfies the invariant.
LEMMA CacheInvInit == Init => CacheInv
<1> SUFFICES ASSUME Init PROVE CacheInv
  OBVIOUS
<1>1. TypeOK
  <2>1. IdleClient \in Client /\ NoJob \in Job
    BY IdleGood, NoJobGood DEF GoodClient, GoodJob
  <2>2. InitialOptions \in Options /\ 0 \in Time
    BY CacheAssumption DEF CacheAssumption, Time
  <2> QED
    BY <2>1, <2>2 DEF Init, TypeOK
<1>2. Cached = {}
  BY DEF Init, Cached
<1>3. order = <<>> /\ Len(order) = 0 /\ DOMAIN order = {}
  BY DEF Init
<1>4. now \in Time /\ capacity \in Nat
  BY <1>1, CacheAssumption DEF TypeOK, CacheAssumption
<1>5. StoreInv
  <2>1. ListMatchesMap
    BY <1>2, <1>3 DEF ListMatchesMap, Range, IsInjective
  <2>2. RecencyOrder
    BY <1>3 DEF RecencyOrder
  <2> QED
    BY <1>1, <1>2, <1>4, <2>1, <2>2 DEF StoreInv, MapOK, TypeOK
<1>6. GoodOptions(opts)
  BY InitialGood DEF Init
<1>7. \A c \in Clients : GoodClient(client[c])
  BY IdleGood DEF Init
<1>8. \A j \in Jobs : GoodJob(job[j])
  BY NoJobGood DEF Init
<1> QED
  BY <1>1, <1>5, <1>6, <1>7, <1>8 DEF CacheInv

\* What a hit puts into the caller's hands.
LEMMA HitKeeps ==
    ASSUME CacheInv, NEW c \in Clients, NEW q \in Questions,
           GetFresh(c, q) \/ GetStale(c, q)
    PROVE  StoreStep /\ client' \in [Clients -> Client] /\ \A x \in Clients : GoodClient(client'[x])
<1> DEFINE k == KeyOf(q)
           e == items[k]
           used == [e EXCEPT !.hits = OneMore(@), !.usedAt = now]
<1>1. k \in Cached /\ k \in Keys
  BY DEF GetFresh, GetStale, Cached
<1>2. e \in Entry /\ EntryOK(k)
  BY <1>1, EntryFacts DEF CacheInv, StoreInv
<1>3. now \in Time /\ now \in Nat
  BY CacheAssumption DEF CacheInv, StoreInv, MapOK, Time, CacheAssumption
<1>4. /\ items' = [items EXCEPT ![k] = used] /\ MoveToFront(k)
      /\ UNCHANGED <<now, capacity>>
  BY DEF GetFresh, GetStale, Hit
<1>5. OneMore(e.hits) \in 0..HitsCap
  BY <1>2, CacheAssumption DEF Entry, OneMore, CacheAssumption
<1>6. /\ used \in Entry /\ used.for = e.for /\ used.usedAt = now
      /\ used.storedAt = e.storedAt /\ used.expireAt = e.expireAt
  BY <1>2, <1>3, <1>5 DEF Entry
<1>7. StoreStep
  <2> HIDE DEF used
  <2>1. /\ KeyOf(used.for) = k /\ used.storedAt <= now
        /\ used.expireAt <= used.storedAt + LongestLife
    BY <1>2, <1>6 DEF EntryOK
  <2> QED
    BY <1>1, <1>4, <1>6, <2>1, TouchKeeps DEF CacheInv
<1>8. /\ e.storedAt \in Nat /\ e.storedAt <= now /\ e.expireAt \in Nat
      /\ e.expireAt <= e.storedAt + LongestLife
      /\ e.for \in Questions /\ KeyOf(e.for) = k
  BY <1>2, CacheAssumption DEF Entry, EntryOK, Time, CacheAssumption
<1>9. now - e.storedAt <= LongestLife + LongestStale
  <2>1. now <= e.expireAt + LongestStale
    <3>1. opts.staleMaxAge \in Nat /\ opts.staleMaxAge <= LongestStale /\ LongestStale \in Nat
      BY CacheAssumption DEF CacheInv, GoodOptions, Options, Capped, CacheAssumption
    <3>2. ~Stale(e) \/ StaleUsable(e)
      BY DEF GetFresh, GetStale
    <3> QED
      BY <1>3, <1>8, <3>1, <3>2 DEF Stale, StaleUsable
  <2> QED
    BY <1>3, <1>8, <2>1, CacheAssumption DEF CacheAssumption
<1>10. PICK pc \in {"fresh", "stale"} :
         /\ client' = [client EXCEPT ![c] =
               [IdleClient EXCEPT !.pc = IF e.readable THEN pc ELSE "unreadable",
                                  !.q = q, !.got = e.for, !.age = now - e.storedAt,
                                  !.remaining = IF pc = "fresh" THEN e.expireAt - now ELSE 0,
                                  !.hits = OneMore(e.hits), !.seen = opts]]
         /\ pc = "fresh" => ~Stale(e)
  BY DEF GetFresh, GetStale, Hit
<1> DEFINE left == IF pc = "fresh" THEN e.expireAt - now ELSE 0
           next == IF e.readable THEN pc ELSE "unreadable"
           r == [IdleClient EXCEPT !.pc = next, !.q = q, !.got = e.for,
                                   !.age = now - e.storedAt, !.remaining = left,
                                   !.hits = OneMore(e.hits), !.seen = opts]
<1>11. left \in Nat
  BY <1>3, <1>8, <1>10 DEF Stale
<1>12. now - e.storedAt \in Nat
  BY <1>3, <1>8
<1>13. next \in {"fresh", "stale", "unreadable"}
  OBVIOUS
<1>14. opts \in Options /\ GoodOptions(opts) /\ IdleClient \in Client
  BY IdleGood DEF CacheInv, GoodOptions, GoodClient
<1>15. client' = [client EXCEPT ![c] = r]
  BY <1>10
<1> HIDE DEF next, left, used, e
<1>16. /\ r \in Client /\ r.seen = opts /\ r.got = e.for /\ r.q = q
       /\ r.age = now - e.storedAt
  BY <1>5, <1>8, <1>11, <1>12, <1>13, <1>14 DEF Client
<1>17. GoodClient(r)
  BY <1>8, <1>9, <1>14, <1>16 DEF GoodClient
<1> HIDE DEF r
<1> QED
  BY <1>7, <1>15, <1>17, OneClientMoves DEF CacheInv, TypeOK

\* The parts of CacheInv apart from the store.
ClientsOK == client \in [Clients -> Client] /\ \A c \in Clients : GoodClient(client[c])
JobsOK    == job \in [Jobs -> Job] /\ \A j \in Jobs : GoodJob(job[j])
RefreshOK == /\ inFlight \subseteq Keys
             /\ lastTry \in [Keys -> Nat \cup {Never}]
             /\ orphaned \subseteq Keys
OptionsOK == GoodOptions(opts) /\ capacity \in Capacities

\* The invariant by the parts of the state it is about.
LEMMA CacheInvParts == CacheInv <=> StoreInv /\ ClientsOK /\ JobsOK /\ RefreshOK /\ OptionsOK
BY CacheAssumption
   DEF CacheInv, TypeOK, StoreInv, MapOK, ClientsOK, JobsOK, RefreshOK, OptionsOK,
       GoodOptions, CacheAssumption

\* The same after a step.
LEMMA CacheInvPartsNext ==
    CacheInv' <=> StoreInv' /\ ClientsOK' /\ JobsOK' /\ RefreshOK' /\ OptionsOK'
BY CacheInvParts, PTL

\* Every step keeps the invariant, action by action, and lets the list grow only
\* as far as it has room.
LEMMA CacheInvStep ==
    CacheInv /\ ([Next]_vars \/ \E c \in Clients : DropUnreadable(c)) => CacheInv' /\ Trimmed
<1> SUFFICES ASSUME CacheInv, [Next]_vars \/ \E c \in Clients : DropUnreadable(c)
             PROVE  CacheInv' /\ Trimmed
  OBVIOUS
<1>a. StoreInv /\ ClientsOK /\ JobsOK /\ RefreshOK /\ OptionsOK
  BY CacheInvParts
<1>b. TypeOK
  BY DEF CacheInv
<1>c. capacity \in Nat /\ capacity > 0 /\ now \in Time /\ now \in Nat
  BY <1>b, CacheAssumption DEF TypeOK, Time, CacheAssumption
<1> SUFFICES StoreStep /\ ClientsOK' /\ JobsOK' /\ RefreshOK' /\ OptionsOK'
  BY CacheInvPartsNext DEF StoreStep
<1> DEFINE StoreSame == UNCHANGED <<now, capacity>> /\ UNCHANGED store_vars
           RefreshSame == UNCHANGED refresh_vars
           OptionsSame == UNCHANGED <<opts, capacity>>
<1>d. StoreSame => StoreStep
  BY <1>a, <1>c, StoreStays DEF MapOK, StoreInv
<1>e. RefreshSame => JobsOK' /\ RefreshOK'
  BY <1>a DEF refresh_vars, JobsOK, RefreshOK
<1>f. OptionsSame => OptionsOK'
  BY <1>a DEF OptionsOK
<1>g. client' = client => ClientsOK'
  BY <1>a DEF ClientsOK
<1>h. ASSUME NEW c \in Clients, NEW r, GoodClient(r), client' = [client EXCEPT ![c] = r]
      PROVE  ClientsOK'
  BY <1>a, <1>h, OneClientMoves DEF ClientsOK
<1>i. ASSUME NEW j \in Jobs, NEW r, GoodJob(r), job' = [job EXCEPT ![j] = r]
      PROVE  JobsOK'
  BY <1>a, <1>i, OneJobMoves DEF JobsOK
<1>j. ASSUME NEW c \in Clients, Done(c) PROVE ClientsOK'
  BY <1>h, <1>j, IdleGood DEF Done
<1>k. ASSUME NEW c \in Clients, NEW q \in Questions, GoUpstream(c, q) PROVE ClientsOK'
  <2> DEFINE r == [IdleClient EXCEPT !.pc = "fetching", !.q = q]
  <2>1. GoodClient(r)
    BY IdleGood DEF GoodClient, Client
  <2>2. client' = [client EXCEPT ![c] = r]
    BY <1>k DEF GoUpstream
  <2> HIDE DEF r
  <2> QED
    BY <1>h, <2>1, <2>2
<1>l. ASSUME NEW q \in Questions, NEW reason \in {"prefetch", "stale"},
             TriggerRefresh(q, reason)
      PROVE  JobsOK' /\ RefreshOK'
  BY <1>a, <1>b, <1>l, TriggerGood DEF JobsOK, RefreshOK
<1>m. ASSUME NEW c \in Clients PROVE client[c] \in Client /\ GoodClient(client[c])
  BY <1>a DEF ClientsOK
<1>n. ASSUME NEW j \in Jobs PROVE job[j] \in Job /\ GoodJob(job[j])
  BY <1>a DEF JobsOK
<1> HIDE DEF StoreSame, RefreshSame, OptionsSame
<1>p. \A q \in Questions : KeyOf(q) \in Keys
  BY KeyOfType
<1> DEFINE Goal == StoreStep /\ ClientsOK' /\ JobsOK' /\ RefreshOK' /\ OptionsOK'
<1>1. ASSUME NEW c \in Clients, NEW q \in Questions, GetFresh(c, q) \/ GetStale(c, q)
      PROVE  Goal
  <2>1. StoreStep /\ ClientsOK'
    BY <1>1, HitKeeps DEF ClientsOK
  <2>2. RefreshSame /\ OptionsSame
    BY <1>1 DEF GetFresh, GetStale, Hit, RefreshSame, OptionsSame
  <2> QED
    BY <2>1, <2>2, <1>e, <1>f
<1>2. ASSUME NEW c \in Clients, NEW q \in Questions, GetExpired(c, q)
      PROVE  Goal
  <2>1. /\ Remove({KeyOf(q)}) /\ GoUpstream(c, q) /\ RefreshSame /\ OptionsSame
        /\ UNCHANGED <<now, capacity>>
    BY <1>2 DEF GetExpired, RefreshSame, OptionsSame
  <2> QED
    BY <2>1, <1>a, <1>e, <1>f, <1>k, RemoveKeeps
<1>3. ASSUME NEW c \in Clients, NEW q \in Questions, GetMiss(c, q) \/ AdminRefresh(c, q)
      PROVE  Goal
  <2>1. GoUpstream(c, q) /\ StoreSame /\ RefreshSame /\ OptionsSame
    BY <1>3 DEF GetMiss, AdminRefresh, StoreSame, RefreshSame, OptionsSame
  <2> QED
    BY <2>1, <1>d, <1>e, <1>f, <1>k
<1>4. ASSUME NEW c \in Clients, DropUnreadable(c)
      PROVE  Goal
  <2>1. /\ Remove({KeyOf(client[c].q)}) /\ GoUpstream(c, client[c].q)
        /\ RefreshSame /\ OptionsSame /\ UNCHANGED <<now, capacity>>
    BY <1>4 DEF DropUnreadable, RefreshSame, OptionsSame
  <2>2. client[c].q \in Questions
    BY <1>m DEF Client
  <2> QED
    BY <2>1, <2>2, <1>a, <1>e, <1>f, <1>k, RemoveKeeps
<1>5. ASSUME NEW c \in Clients, Revalidate(c)
      PROVE  Goal
  <2>1. TriggerRefresh(client[c].q, "stale") /\ Done(c) /\ StoreSame /\ OptionsSame
    BY <1>5 DEF Revalidate, StoreSame, OptionsSame
  <2>2. client[c].q \in Questions
    BY <1>m DEF Client
  <2> QED
    BY <2>1, <2>2, <1>d, <1>f, <1>j, <1>l
<1>6. ASSUME NEW c \in Clients, MaybePrefetch(c)
      PROVE  Goal
  <2>1. /\ TriggerRefresh(client[c].q, "prefetch") \/ RefreshSame
        /\ Done(c) /\ StoreSame /\ OptionsSame
    BY <1>6 DEF MaybePrefetch, RefreshSame, StoreSame, OptionsSame
  <2>2. client[c].q \in Questions
    BY <1>m DEF Client
  <2> QED
    BY <2>1, <2>2, <1>d, <1>e, <1>f, <1>j, <1>l
<1>7. ASSUME NEW c \in Clients, NEW ttl \in AnswerTTLs, UpstreamAnswers(c, ttl)
      PROVE  Goal
  <2> DEFINE r == [client[c] EXCEPT !.pc = "answered", !.ttl = ttl, !.seen = opts]
  <2>1. client' = [client EXCEPT ![c] = r] /\ StoreSame /\ RefreshSame /\ OptionsSame
    BY <1>7 DEF UpstreamAnswers, StoreSame, RefreshSame, OptionsSame
  <2>2. GoodClient(r)
    <3>1. opts \in Options /\ GoodOptions(opts)
      BY <1>a DEF OptionsOK, GoodOptions
    <3>2. r \in Client /\ r.seen = opts /\ r.pc = "answered"
      BY <1>m, <3>1 DEF Client
    <3> HIDE DEF r
    <3> QED
      BY <3>1, <3>2 DEF GoodClient
  <2> HIDE DEF r
  <2> QED
    BY <2>1, <2>2, <1>d, <1>e, <1>f, <1>h
<1>8. ASSUME NEW c \in Clients, UpstreamFails(c)
      PROVE  Goal
  <2>1. Done(c) /\ StoreSame /\ RefreshSame /\ OptionsSame
    BY <1>8 DEF UpstreamFails, StoreSame, RefreshSame, OptionsSame
  <2> QED
    BY <2>1, <1>d, <1>e, <1>f, <1>j
<1>9. ASSUME NEW c \in Clients, Set(c)
      PROVE  Goal
  <2>1. /\ Store(client[c].q, client[c].ttl, client[c].seen, FALSE)
        /\ Done(c) /\ RefreshSame /\ OptionsSame /\ UNCHANGED <<now, capacity>>
    BY <1>9 DEF Set, RefreshSame, OptionsSame
  <2>2. /\ client[c].q \in Questions /\ client[c].ttl \in AnswerTTLs
        /\ GoodOptions(client[c].seen) /\ GoodOptions(opts)
    BY <1>a, <1>m DEF Client, GoodClient, OptionsOK
  <2>3. StoreStep
    BY <2>1, <2>2, <1>a, <1>c, StoreKeeps
  <2> QED
    BY <2>1, <2>3, <1>e, <1>f, <1>j

<1>10. ASSUME NEW j \in Jobs, NEW ttl \in AnswerTTLs, RefreshAnswers(j, ttl)
       PROVE  Goal
  <2> DEFINE r == [job[j] EXCEPT !.pc = "answered", !.ttl = ttl, !.seen = opts]
  <2>1. /\ job' = [job EXCEPT ![j] = r] /\ client' = client /\ StoreSame /\ OptionsSame
        /\ UNCHANGED <<inFlight, lastTry, orphaned>>
    BY <1>10 DEF RefreshAnswers, StoreSame, OptionsSame
  <2>2. GoodJob(r)
    <3>1. opts \in Options /\ GoodOptions(opts)
      BY <1>a DEF OptionsOK, GoodOptions
    <3>2. r \in Job /\ r.seen = opts
      BY <1>n, <3>1 DEF Job
    <3> HIDE DEF r
    <3> QED
      BY <3>1, <3>2 DEF GoodJob
  <2>3. RefreshOK'
    BY <1>a, <2>1 DEF RefreshOK
  <2> HIDE DEF r
  <2> QED
    BY <2>1, <2>2, <2>3, <1>d, <1>f, <1>g, <1>i
<1>11. ASSUME NEW j \in Jobs, job' = [job EXCEPT ![j].pc = "leaving"]
       PROVE  JobsOK'
  <2> DEFINE r == [job[j] EXCEPT !.pc = "leaving"]
  <2>1. GoodJob(r)
    BY <1>n DEF GoodJob, Job
  <2>2. job' = [job EXCEPT ![j] = r]
    BY <1>11
  <2> HIDE DEF r
  <2> QED
    BY <2>1, <2>2, <1>i
<1>12. ASSUME NEW j \in Jobs, RefreshFails(j)
       PROVE  Goal
  <2>1. /\ job' = [job EXCEPT ![j].pc = "leaving"] /\ client' = client
        /\ StoreSame /\ OptionsSame /\ UNCHANGED <<inFlight, lastTry, orphaned>>
    BY <1>12 DEF RefreshFails, StoreSame, OptionsSame
  <2>2. RefreshOK'
    BY <1>a, <2>1 DEF RefreshOK
  <2> QED
    BY <2>1, <2>2, <1>d, <1>f, <1>g, <1>11
<1>13. ASSUME NEW j \in Jobs, StoreRefresh(j)
       PROVE  Goal
  <2>1. /\ Store(job[j].q, job[j].ttl, job[j].seen, job[j].reason = "prefetch")
        /\ job' = [job EXCEPT ![j].pc = "leaving"] /\ client' = client
        /\ OptionsSame /\ UNCHANGED <<now, capacity>> /\ UNCHANGED <<inFlight, lastTry, orphaned>>
    BY <1>13 DEF StoreRefresh, OptionsSame
  <2>2. /\ job[j].q \in Questions /\ job[j].ttl \in AnswerTTLs
        /\ GoodOptions(job[j].seen) /\ GoodOptions(opts)
    BY <1>a, <1>n DEF Job, GoodJob, OptionsOK
  <2>3. (job[j].reason = "prefetch") \in BOOLEAN
    OBVIOUS
  <2>4. StoreStep
    BY <2>1, <2>2, <2>3, <1>a, <1>c, StoreKeeps
  <2>5. RefreshOK'
    BY <1>a, <2>1 DEF RefreshOK
  <2> QED
    BY <2>1, <2>4, <2>5, <1>f, <1>g, <1>11
<1>14. ASSUME NEW j \in Jobs, EndRefresh(j)
       PROVE  Goal
  <2>1. /\ job' = [job EXCEPT ![j] = NoJob] /\ client' = client /\ StoreSame /\ OptionsSame
        /\ inFlight' \subseteq inFlight /\ orphaned' \subseteq orphaned /\ lastTry' = lastTry
    BY <1>14 DEF EndRefresh, LowerFlag, StoreSame, OptionsSame
  <2>2. RefreshOK'
    BY <1>a, <2>1 DEF RefreshOK
  <2> QED
    BY <2>1, <2>2, <1>d, <1>f, <1>g, <1>i, NoJobGood
<1>15. ASSUME Flush
       PROVE  Goal
  <2>1. /\ items' = [k \in Keys |-> NoEntry] /\ order' = <<>> /\ OptionsSame
        /\ UNCHANGED <<now, capacity, client, job>>
    BY <1>15 DEF Flush, OptionsSame
  <2>2. Cached' = {}
    BY <2>1 DEF Cached
  <2>3. order' \in Seq(Keys) /\ Len(order') = 0 /\ DOMAIN order' = {}
    BY <2>1
  <2>4. MapOK'
    BY <2>1, <2>3, <1>c DEF MapOK
  <2>5. ListMatchesMap' /\ RecencyOrder' /\ Trimmed
    BY <2>2, <2>3, <1>c DEF ListMatchesMap, RecencyOrder, Range, IsInjective, Trimmed
  <2>6. StoreStep
    BY <2>2, <2>4, <2>5 DEF StoreInv, StoreStep
  <2>7. RefreshOK' /\ JobsOK'
    BY <1>15, <1>a DEF Flush, RefreshOK, JobsOK
  <2> QED
    BY <2>1, <2>6, <2>7, <1>f, <1>g
<1>16. ASSUME NEW S, Remove(S), UNCHANGED <<now, opts, capacity, client>>, UNCHANGED refresh_vars
       PROVE  Goal
  <2>1. StoreStep
    BY <1>16, <1>a, RemoveKeeps
  <2>2. RefreshSame /\ OptionsSame
    BY <1>16 DEF RefreshSame, OptionsSame
  <2> QED
    BY <1>16, <2>1, <2>2, <1>e, <1>f, <1>g
<1>17. ASSUME NEW ro \in Reloads, UpdateRuntime(ro)
       PROVE  Goal
  <2>1. /\ StoreSame /\ RefreshSame /\ client' = client /\ capacity' = capacity
    BY <1>17 DEF UpdateRuntime, StoreSame, RefreshSame
  <2>2. GoodOptions(opts')
    <3>1. ro \in Options /\ Capped(ro) /\ GoodOptions(opts)
      BY <1>a, CacheAssumption DEF CacheAssumption, OptionsOK
    <3> QED
      BY <1>17, <3>1 DEF UpdateRuntime, GoodOptions, Options, Capped, IfPositive
  <2>3. OptionsOK'
    BY <2>1, <2>2, <1>a DEF OptionsOK
  <2> QED
    BY <2>1, <2>3, <1>d, <1>e, <1>g
<1>18. ASSUME Tick
       PROVE  Goal
  <2>1. /\ now' = now + 1 /\ now < MaxTime /\ RefreshSame /\ OptionsSame /\ client' = client
        /\ capacity' = capacity /\ UNCHANGED store_vars
    BY <1>18 DEF Tick, RefreshSame, OptionsSame
  <2>2. now' \in Time /\ now' >= now
    BY <2>1, <1>c, CacheAssumption DEF Time, CacheAssumption
  <2>3. StoreStep
    BY <2>1, <2>2, <1>a, <1>c, StoreStays
  <2> QED
    BY <2>1, <2>3, <1>e, <1>f, <1>g
<1>19. ASSUME UNCHANGED vars PROVE Goal
  <2>1. StoreSame /\ RefreshSame /\ OptionsSame /\ client' = client
    BY <1>19 DEF vars, store_vars, refresh_vars, StoreSame, RefreshSame, OptionsSame
  <2> QED
    BY <2>1, <1>d, <1>e, <1>f, <1>g
<1> HIDE DEF Goal
<1>20. ASSUME NEW c \in Clients, Lookup(c) \/ AfterHit(c) \/ UpstreamReturns(c) \/ Set(c)
       PROVE  Goal
  BY <1>20, <1>1, <1>2, <1>3, <1>5, <1>6, <1>7, <1>8, <1>9
     DEF Lookup, AfterHit, UpstreamReturns
<1>21. ASSUME NEW j \in Jobs, RefreshReturns(j) \/ StoreRefresh(j) \/ EndRefresh(j)
       PROVE  Goal
  BY <1>21, <1>10, <1>12, <1>13, <1>14 DEF RefreshReturns
<1>22. ASSUME Administration PROVE Goal
  <2>1. ASSUME NEW n \in Names, FlushName(n) PROVE Goal
    BY <2>1, <1>16 DEF FlushName
  <2>2. ASSUME NEW q \in Questions, Delete(q) PROVE Goal
    BY <2>2, <1>16 DEF Delete
  <2> QED
    BY <1>22, <2>1, <2>2, <1>3, <1>15, <1>17 DEF Administration
<1>23. Goal
  BY <1>4, <1>18, <1>19, <1>20, <1>21, <1>22 DEF Next
<1> QED
  BY <1>23 DEF Goal

\* MaxEntries is fixed while the process runs.
LEMMA CapacityFixed == [Next]_vars => capacity' = capacity
BY DEF Next, vars, Lookup, GetFresh, GetStale, Hit, GetExpired, GetMiss, AfterHit, Revalidate,
       MaybePrefetch, UpstreamReturns, UpstreamFails, UpstreamAnswers, Set, RefreshReturns,
       RefreshFails, RefreshAnswers, StoreRefresh, EndRefresh, Administration, AdminRefresh,
       Flush, FlushName, Delete, UpdateRuntime, Tick

\* The clock stands still or goes on by one.
LEMMA Clocked ==
    [Next]_vars \/ (\E c \in Clients : DropUnreadable(c)) => now' = now \/ now' = now + 1
BY DEF Next, vars, Lookup, GetFresh, GetStale, Hit, GetExpired, GetMiss, AfterHit, Revalidate,
       MaybePrefetch, UpstreamReturns, UpstreamFails, UpstreamAnswers, Set, RefreshReturns,
       RefreshFails, RefreshAnswers, StoreRefresh, EndRefresh, Administration, AdminRefresh,
       Flush, FlushName, Delete, UpdateRuntime, Tick, DropUnreadable

-----------------------------------------------------------------------------
(* The theorems about the store and about what callers are handed.         *)

\* The inductive invariant of the store holds in every reachable state: the
\* map, the list and every answer on its way to a caller or into the cache.
THEOREM CacheInvAlways == Spec => []CacheInv
<1>1. Init => CacheInv
  BY CacheInvInit
<1>2. CacheInv /\ [Next]_vars => CacheInv'
  BY CacheInvStep
<1> QED
  BY <1>1, <1>2, PTL DEF Spec

\* Every variable keeps its type in every reachable state.
THEOREM TypeCorrect == Spec => []TypeOK
BY CacheInvAlways, PTL DEF CacheInv

\* The map and the recency list of cache.go hold the same keys, each once,
\* and never more than MaxEntries, whatever lookups, stores, refreshes,
\* evictions and flushes do in whatever order.
THEOREM StoreAlwaysConsistent == Spec => []StoreConsistent
<1>1. Init => WithinCapacity
  BY CacheInvInit DEF Init, WithinCapacity, CacheInv, StoreInv, MapOK
<1>2. CacheInv /\ CacheInv' /\ WithinCapacity /\ [Next]_vars => WithinCapacity'
  <2> SUFFICES ASSUME CacheInv, CacheInv', WithinCapacity, [Next]_vars
               PROVE  WithinCapacity'
    OBVIOUS
  <2>1. Trimmed /\ capacity' = capacity
    BY CacheInvStep, CapacityFixed
  <2>2. /\ order \in Seq(Keys) /\ order' \in Seq(Keys)
        /\ IsInjective(order) /\ IsInjective(order') /\ capacity \in Nat
    BY DEF CacheInv, StoreInv, MapOK, ListMatchesMap
  <2>3. /\ Len(order) = Cardinality(Range(order)) /\ Len(order') = Cardinality(Range(order'))
        /\ Len(order) \in Nat /\ Len(order') \in Nat
    BY <2>2, ListSize, LenProperties
  <2> QED
    BY <2>1, <2>2, <2>3 DEF Trimmed, WithinCapacity
<1> QED
  BY <1>1, <1>2, CacheInvAlways, PTL DEF Spec, CacheInv, StoreInv, StoreConsistent

\* The list is always in order of last use, so eviction takes the entry
\* that was not used for the longest time.
THEOREM ListInRecencyOrder == Spec => []RecencyOrder
BY CacheInvAlways, PTL DEF CacheInv, StoreInv

\* No caller is handed an answer that was stored longer ago than the longest
\* TTL and stale window allow, also when a reload overlaps.
THEOREM ServedAgeAlwaysBounded == Spec => []ServedAgeBounded
<1>1. CacheInv => ServedAgeBounded
  BY DEF CacheInv, ServedAgeBounded, Served, GoodClient
<1> QED
  BY <1>1, CacheInvAlways, PTL

\* The key of a question with a mnemonic is that of no other question.
LEMMA KeysTell == CacheInv => AnswersItsQuestion
<1>1. ASSUME CacheInv, NEW c \in Served, client[c].q[2] \in KnownTypes
      PROVE  client[c].got = client[c].q
  <2> DEFINE q == client[c].q
             got == client[c].got
  <2>1. /\ q \in Questions /\ got \in Questions /\ KeyOf(got) = KeyOf(q)
    BY <1>1 DEF CacheInv, TypeOK, GoodClient, Client, Served
  <2>2. q[1] = got[1] /\ q[2] = got[2]
    BY <1>1, <2>1, CacheAssumption DEF KeyOf, CacheAssumption
  <2>3. q = <<q[1], q[2]>> /\ got = <<got[1], got[2]>>
    BY <2>1 DEF Questions
  <2> QED
    BY <2>2, <2>3
<1> QED
  BY <1>1 DEF AnswersItsQuestion

\* A caller that asks for a type the dns package has a mnemonic for is
\* handed an answer to exactly its question.
THEOREM KnownTypesAnswered == Spec => []AnswersItsQuestion
BY KeysTell, CacheInvAlways, PTL

-----------------------------------------------------------------------------
(* Background refreshes.  The flag of a key alone does not say that only   *)
(* one refresh runs; what does is that a refresh that no Flush overtook    *)
(* still has its flag up.                                                  *)

Active(j)  == job[j].pc # "none"
JobKey(j)  == KeyOf(job[j].q)

FlagStaysUp == \A j \in Jobs : Active(j) /\ JobKey(j) \notin orphaned => JobKey(j) \in inFlight

RefreshInv == FlagHasOwner /\ OneRefreshUnlessFlushed /\ FlagStaysUp

\* Nothing is refreshed when the process starts.
LEMMA RefreshInvInit == Init => RefreshInv
BY DEF Init, RefreshInv, FlagHasOwner, OneRefreshUnlessFlushed, FlagStaysUp, Active, NoJob

\* RefreshInv depends on which refreshes are active, for which keys.
LEMMA RefreshInvSame ==
    ASSUME RefreshInv, inFlight' = inFlight, orphaned' = orphaned,
           \A j \in Jobs : /\ job'[j].pc # "none" <=> job[j].pc # "none"
                          /\ job'[j].q = job[j].q
    PROVE  RefreshInv'
BY DEF RefreshInv, FlagHasOwner, OneRefreshUnlessFlushed, FlagStaysUp, Active, JobKey, Running

\* A refresh starts only under a key whose flag is down, and raises it.
LEMMA StartKeeps ==
    ASSUME RefreshInv, TypeOK, NEW q \in Questions, NEW reason \in {"prefetch", "stale"},
           StartRefresh(q, reason)
    PROVE  RefreshInv'
<1> DEFINE k == KeyOf(q)
<1>1. /\ k \notin inFlight /\ inFlight' = inFlight \cup {k} /\ orphaned' = orphaned
  BY DEF StartRefresh, MayRefresh
<1>2. PICK j \in Jobs :
        /\ job[j].pc = "none"
        /\ job' = [job EXCEPT ![j] =
                     [NoJob EXCEPT !.pc = "calling", !.q = q, !.reason = reason]]
  BY DEF StartRefresh
<1>3. /\ job'[j].pc = "calling" /\ job'[j].q = q
      /\ \A x \in Jobs \ {j} : job'[x] = job[x]
  BY <1>2 DEF TypeOK, NoJob
<1>4. \A x \in Jobs \ {j} : Active(x) /\ JobKey(x) = k => k \in orphaned
  BY <1>1 DEF RefreshInv, FlagStaysUp
<1>5. FlagHasOwner'
  BY <1>1, <1>2, <1>3 DEF RefreshInv, FlagHasOwner, Running
<1>6. OneRefreshUnlessFlushed'
  BY <1>1, <1>2, <1>3, <1>4 DEF RefreshInv, OneRefreshUnlessFlushed, Active, JobKey
<1>7. FlagStaysUp'
  BY <1>1, <1>2, <1>3 DEF RefreshInv, FlagStaysUp, Active, JobKey
<1> QED
  BY <1>5, <1>6, <1>7 DEF RefreshInv

\* The refresh that ends takes down the flag of its key.  Any other refresh
\* of that key was overtaken by a Flush, and its key stays marked.
LEMMA EndKeeps ==
    ASSUME RefreshInv, TypeOK, NEW j \in Jobs, EndRefresh(j)
    PROVE  RefreshInv'
<1> DEFINE k == JobKey(j)
<1>1. /\ Active(j) /\ inFlight' = inFlight \ {k} /\ job' = [job EXCEPT ![j] = NoJob]
      /\ orphaned' = IF Running(k) = {j} THEN orphaned \ {k} ELSE orphaned
  BY DEF EndRefresh, LowerFlag, Active, JobKey
<1>2. /\ job'[j].pc = "none"
      /\ \A x \in Jobs \ {j} : job'[x] = job[x]
  BY <1>1 DEF TypeOK, NoJob
<1>3. ASSUME NEW x \in Jobs, job'[x].pc # "none"
      PROVE  /\ x # j /\ Active(x) /\ job'[x] = job[x]
             /\ JobKey(x) = k => k \in orphaned'
  <2>1. x # j /\ Active(x) /\ job'[x] = job[x]
    BY <1>2, <1>3 DEF Active
  <2>2. ASSUME JobKey(x) = k PROVE k \in orphaned'
    <3>1. x \in Running(k) /\ Running(k) # {j}
      BY <2>1, <2>2 DEF Running, Active, JobKey
    <3>2. k \in orphaned
      BY <1>1, <2>1, <2>2 DEF RefreshInv, OneRefreshUnlessFlushed, Active, JobKey
    <3> QED
      BY <1>1, <3>1, <3>2
  <2> QED
    BY <2>1, <2>2
<1>4. FlagHasOwner'
  <2> SUFFICES ASSUME NEW f \in inFlight' PROVE \E x \in Jobs : x \in Running(f)'
    BY DEF FlagHasOwner, Running
  <2>1. f \in inFlight /\ f # k
    BY <1>1
  <2>2. PICK x \in Jobs : job[x].pc # "none" /\ KeyOf(job[x].q) = f
    BY <2>1 DEF RefreshInv, FlagHasOwner, Running
  <2>3. x # j
    BY <2>1, <2>2 DEF JobKey
  <2> QED
    BY <1>2, <2>2, <2>3 DEF Running
<1>5. OneRefreshUnlessFlushed'
  <2> SUFFICES ASSUME NEW x \in Jobs, NEW y \in Jobs,
                      job'[x].pc # "none", job'[y].pc # "none",
                      KeyOf(job'[x].q) = KeyOf(job'[y].q),
                      KeyOf(job'[x].q) \notin orphaned'
               PROVE  x = y
    BY DEF OneRefreshUnlessFlushed
  <2>1. /\ Active(x) /\ Active(y) /\ job'[x] = job[x] /\ job'[y] = job[y]
        /\ JobKey(x) # k
    BY <1>3 DEF JobKey
  <2>2. KeyOf(job[x].q) \notin orphaned
    BY <1>1, <2>1 DEF JobKey
  <2> QED
    BY <2>1, <2>2 DEF RefreshInv, OneRefreshUnlessFlushed, Active
<1>6. FlagStaysUp'
  <2> SUFFICES ASSUME NEW x \in Jobs, job'[x].pc # "none", KeyOf(job'[x].q) \notin orphaned'
               PROVE  KeyOf(job'[x].q) \in inFlight'
    BY DEF FlagStaysUp, Active, JobKey
  <2>1. Active(x) /\ job'[x] = job[x] /\ JobKey(x) # k
    BY <1>3 DEF JobKey
  <2>2. JobKey(x) \notin orphaned
    BY <1>1, <2>1 DEF JobKey
  <2>3. JobKey(x) \in inFlight
    BY <2>1, <2>2 DEF RefreshInv, FlagStaysUp
  <2> QED
    BY <1>1, <2>1, <2>3 DEF JobKey
<1> QED
  BY <1>4, <1>5, <1>6 DEF RefreshInv

\* Flush lowers all flags and marks the keys whose refresh still runs.
LEMMA FlushKeeps ==
    ASSUME RefreshInv, TypeOK, Flush
    PROVE  RefreshInv'
<1>1. /\ inFlight' = {} /\ job' = job
      /\ orphaned' = {k \in Keys : Running(k) # {}}
  BY DEF Flush
<1>2. \A j \in Jobs : Active(j) => JobKey(j) \in orphaned'
  BY <1>1, KeyOfType DEF Active, JobKey, Running, TypeOK, Job
<1> QED
  BY <1>1, <1>2
     DEF RefreshInv, FlagHasOwner, OneRefreshUnlessFlushed, FlagStaysUp, Active, JobKey

\* Every step keeps the invariant of the refreshes, action by action.
LEMMA RefreshInvStep == TypeOK /\ RefreshInv /\ [Next]_vars => RefreshInv'
<1> SUFFICES ASSUME TypeOK, RefreshInv, [Next]_vars PROVE RefreshInv'
  OBVIOUS
<1>1. ASSUME UNCHANGED refresh_vars PROVE RefreshInv'
  BY <1>1, RefreshInvSame DEF refresh_vars
<1>2. ASSUME NEW q \in Questions, NEW reason \in {"prefetch", "stale"},
             TriggerRefresh(q, reason)
      PROVE  RefreshInv'
  BY <1>1, <1>2, StartKeeps DEF TriggerRefresh
<1>3. ASSUME NEW c \in Clients, AfterHit(c) PROVE RefreshInv'
  <2>1. client[c].q \in Questions
    BY DEF TypeOK, Client
  <2>2. \/ UNCHANGED refresh_vars
        \/ TriggerRefresh(client[c].q, "stale")
        \/ TriggerRefresh(client[c].q, "prefetch")
    BY <1>3 DEF AfterHit, Revalidate, MaybePrefetch
  <2> QED
    BY <2>1, <2>2, <1>1, <1>2
<1>4. ASSUME NEW c \in Clients, Lookup(c) \/ UpstreamReturns(c) \/ Set(c)
      PROVE  RefreshInv'
  <2>1. UNCHANGED refresh_vars
    BY <1>4 DEF Lookup, GetFresh, GetStale, Hit, GetExpired, GetMiss,
                UpstreamReturns, UpstreamFails, UpstreamAnswers, Set
  <2> QED
    BY <2>1, <1>1
<1>5. ASSUME NEW j \in Jobs, RefreshReturns(j) \/ StoreRefresh(j)
      PROVE  RefreshInv'
  <2>1. /\ inFlight' = inFlight /\ orphaned' = orphaned /\ job[j].pc # "none"
        /\ \/ job' = [job EXCEPT ![j].pc = "leaving"]
           \/ \E ttl : job' = [job EXCEPT ![j] = [@ EXCEPT !.pc = "answered", !.ttl = ttl,
                                                          !.seen = opts]]
    BY <1>5 DEF RefreshReturns, RefreshFails, RefreshAnswers, StoreRefresh
  <2>2. job[j] \in Job /\ job \in [Jobs -> Job]
    BY DEF TypeOK
  <2>3. job'[j].pc # "none" /\ job'[j].q = job[j].q
    <3>1. CASE job' = [job EXCEPT ![j].pc = "leaving"]
      BY <2>2, <3>1 DEF Job
    <3>2. ASSUME NEW ttl, job' = [job EXCEPT ![j] = [@ EXCEPT !.pc = "answered", !.ttl = ttl,
                                                            !.seen = opts]]
          PROVE  job'[j].pc # "none" /\ job'[j].q = job[j].q
      BY <2>2, <3>2 DEF Job
    <3> QED
      BY <2>1, <3>1, <3>2
  <2>4. \A x \in Jobs \ {j} : job'[x] = job[x]
    BY <2>1, <2>2
  <2>5. \A x \in Jobs : /\ job'[x].pc # "none" <=> job[x].pc # "none"
                        /\ job'[x].q = job[x].q
    BY <2>1, <2>3, <2>4
  <2> QED
    BY <2>1, <2>5, RefreshInvSame
<1>6. ASSUME NEW j \in Jobs, EndRefresh(j) PROVE RefreshInv'
  BY <1>6, EndKeeps
<1>7. ASSUME Administration PROVE RefreshInv'
  <2>1. ASSUME Flush PROVE RefreshInv'
    BY <2>1, FlushKeeps
  <2>2. Flush \/ UNCHANGED refresh_vars
    BY <1>7 DEF Administration, AdminRefresh, FlushName, Delete, UpdateRuntime
  <2> QED
    BY <2>1, <2>2, <1>1
<1>8. ASSUME Tick \/ UNCHANGED vars PROVE RefreshInv'
  <2>1. UNCHANGED refresh_vars
    BY <1>8 DEF Tick, vars, refresh_vars
  <2> QED
    BY <2>1, <1>1
<1> QED
  BY <1>3, <1>4, <1>5, <1>6, <1>7, <1>8 DEF Next

\* The inductive invariant of the refresh gate of triggerRefresh: flags have
\* owners, and a refresh that no Flush overtook owns the flag of its key.
THEOREM RefreshInvAlways == Spec => []RefreshInv
<1>1. Init => RefreshInv
  BY RefreshInvInit
<1>2. TypeOK /\ RefreshInv /\ [Next]_vars => RefreshInv'
  BY RefreshInvStep
<1> QED
  BY <1>1, <1>2, TypeCorrect, PTL DEF Spec

\* One refresh per key at a time, as the comment on refreshMu has it, as
\* long as no Flush overtakes a running refresh.
THEOREM OneRefresh == Spec => []OneRefreshUnlessFlushed
BY RefreshInvAlways, PTL DEF RefreshInv

\* An in-flight flag is never left behind: with or without flushes, a flag
\* that is up belongs to a refresh that still runs and will clear it.
THEOREM FlagsOwned == Spec => []FlagHasOwner
BY RefreshInvAlways, PTL DEF RefreshInv

-----------------------------------------------------------------------------
(* Persistence.  What is saved, and what is in the file, lists each key    *)
(* once, in order of last use, with lifetimes that have a ceiling, whoever *)
(* saved it and however long ago: a cache that is loaded from it satisfies *)
(* the invariant of the store, but for the capacity.                       *)

GoodFile(f) ==
    /\ f \in Seq(Persisted)
    /\ \A i \in DOMAIN f : /\ KeyOf(f[i].for) = f[i].key
                           /\ f[i].storedAt <= now /\ f[i].usedAt <= now
                           /\ f[i].expireAt <= f[i].storedAt + LongestLife
    /\ \A i, j \in DOMAIN f : i < j => f[i].key # f[j].key /\ f[i].usedAt >= f[j].usedAt

SaverOK == /\ up \in BOOLEAN /\ stopping \in BOOLEAN
           /\ saver \in {"waiting", "writing", "last write", "returned"}

FilesOK == GoodFile(snapshot) /\ (file = NoFile \/ GoodFile(file))

PersistInv == CacheInv /\ SaverOK /\ FilesOK

\* How many of some places come up to i.
Upto(places, i) == Cardinality({m \in places : m <= i})

\* Each place has a number of its own, numbers rise with the places, and Nth finds
\* the place of every number.
LEMMA PlacesNumbered ==
    ASSUME NEW m \in Nat, NEW places \in SUBSET (1..m)
    PROVE  /\ Cardinality(places) \in Nat
           /\ \A n \in 1..Cardinality(places) : Nth(places, n) \in places
           /\ \A n1, n2 \in 1..Cardinality(places) :
                 n1 < n2 => Nth(places, n1) < Nth(places, n2)
           /\ \A i \in places : \E n \in 1..Cardinality(places) : Nth(places, n) = i
<1> DEFINE size == Cardinality(places)
<1>0. IsFiniteSet(1..m)
  BY FS_Interval
<1>1. IsFiniteSet(places) /\ size \in Nat
  BY <1>0, FS_Subset, FS_CardinalityType
<1>2. ASSUME NEW i \in places PROVE Upto(places, i) \in 1..size
  <2> DEFINE low == {j \in places : j <= i}
  <2>1. low \in SUBSET places /\ i \in low
    OBVIOUS
  <2>2. IsFiniteSet(low) /\ Cardinality(low) \in Nat /\ Cardinality(low) <= size
    BY <1>1, <2>1, FS_Subset, FS_CardinalityType
  <2>3. Cardinality(low) # 0
    BY <2>1, <2>2, FS_EmptySet
  <2> QED
    BY <1>1, <2>2, <2>3 DEF Upto
<1>3. ASSUME NEW i \in places, NEW k \in places, i < k
      PROVE  Upto(places, i) < Upto(places, k)
  <2> DEFINE low  == {j \in places : j <= i}
             high == {j \in places : j <= k}
  <2>1. ~(k <= i) /\ k <= k /\ \A j \in places : j <= i => j <= k
    BY <1>3
  <2>2. low \in SUBSET high /\ high \in SUBSET places /\ k \in high /\ k \notin low
    BY <2>1, Zenon
  <2>3. IsFiniteSet(high) /\ IsFiniteSet(low)
    BY <1>1, <2>2, FS_Subset
  <2>4. Cardinality(low) <= Cardinality(high) /\ Cardinality(low) # Cardinality(high)
    BY <2>2, <2>3, FS_Subset
  <2>5. Cardinality(low) \in Nat /\ Cardinality(high) \in Nat
    BY <2>3, FS_CardinalityType
  <2> QED
    BY <2>4, <2>5 DEF Upto
<1>4. \A i, k \in places : i = k \/ i < k \/ k < i
  OBVIOUS
<1>5. \A i, k \in places : Upto(places, i) = Upto(places, k) => i = k
  BY <1>2, <1>3, <1>4
<1>6. \A n \in 1..size : \E i \in places : Upto(places, i) = n
  <2> DEFINE f == [i \in places |-> Upto(places, i)]
  <2>1. f \in [places -> 1..size] /\ \A i, k \in places : f[i] = f[k] => i = k
    BY <1>2, <1>5
  <2>2. f \in Injection(places, 1..size)
    BY <2>1, Fun_IsInj
  <2>3. IsFiniteSet(1..size) /\ Cardinality(1..size) = size
    BY <1>1, FS_Interval
  <2>4. f \in Surjection(places, 1..size)
    BY <2>2, <2>3, FS_Injection
  <2> QED
    BY <2>4 DEF Surjection
<1>7. ASSUME NEW n \in 1..size PROVE Nth(places, n) \in places /\ Upto(places, Nth(places, n)) = n
  <2>1. \E i \in places : Cardinality({j \in places : j <= i}) = n
    BY <1>6 DEF Upto
  <2> QED
    BY <2>1 DEF Nth, Upto
<1>8. ASSUME NEW n1 \in 1..size, NEW n2 \in 1..size, n1 < n2
      PROVE  Nth(places, n1) < Nth(places, n2)
  <2> DEFINE a == Nth(places, n1)
             b == Nth(places, n2)
  <2>1. a \in places /\ b \in places /\ Upto(places, a) = n1 /\ Upto(places, b) = n2
    BY <1>7
  <2> HIDE DEF a, b
  <2>2. a # b /\ ~(b < a)
    BY <1>3, <1>8, <2>1
  <2>3. a < b
    BY <1>4, <2>1, <2>2
  <2> QED
    BY <2>3 DEF a, b
<1>9. ASSUME NEW i \in places PROVE \E n \in 1..size : Nth(places, n) = i
  BY <1>2, <1>5, <1>7
<1> QED
  BY <1>1, <1>7, <1>8, <1>9

\* Time passes: what was good to load stays good.
LEMMA FileAges ==
    ASSUME NEW f, GoodFile(f), now \in Nat, now' \in Nat, now <= now'
    PROVE  /\ f \in Seq(Persisted)
           /\ \A i \in DOMAIN f : /\ KeyOf(f[i].for) = f[i].key
                                  /\ f[i].storedAt <= now' /\ f[i].usedAt <= now'
                                  /\ f[i].expireAt <= f[i].storedAt + LongestLife
           /\ \A i, j \in DOMAIN f : i < j => f[i].key # f[j].key /\ f[i].usedAt >= f[j].usedAt
<1>1. ASSUME NEW i \in DOMAIN f PROVE f[i].storedAt <= now' /\ f[i].usedAt <= now'
  <2>1. f[i] \in Persisted
    BY ElementOfSeq, LenProperties DEF GoodFile
  <2>2. f[i].storedAt \in Nat /\ f[i].usedAt \in Nat
    BY <2>1, CacheAssumption DEF Persisted, Time, CacheAssumption
  <2> QED
    BY <2>2 DEF GoodFile
<1> QED
  BY <1>1 DEF GoodFile

\* SaveToFile's snapshot is good to load.
LEMMA SnapshotGood ==
    ASSUME StoreInv, now' = now, TakeSnapshot
    PROVE  GoodFile(snapshot)'
<1> DEFINE S == {k \in Cached : ~Stale(items[k])}
<1>1. PICK t \in Thinned(S) : snapshot' = [i \in DOMAIN t |-> ToDisk(t[i])]
  BY DEF TakeSnapshot
<1>2. /\ order \in Seq(Keys) /\ IsInjective(order) /\ S \in SUBSET Range(order)
  BY DEF StoreInv, MapOK, ListMatchesMap
<1>3. /\ t \in Seq(S) /\ Len(t) \in Nat /\ DOMAIN t = 1..Len(t)
      /\ IsInjective(t)
      /\ \A i, j \in DOMAIN t : i < j =>
           \E a, b \in DOMAIN order : a < b /\ order[a] = t[i] /\ order[b] = t[j]
  BY <1>1, <1>2, ThinnedList, LenProperties
<1>4. ASSUME NEW i \in DOMAIN t
      PROVE  /\ ToDisk(t[i]) \in Persisted
             /\ ToDisk(t[i]).key = t[i]
             /\ KeyOf(ToDisk(t[i]).for) = t[i]
             /\ ToDisk(t[i]).storedAt <= now /\ ToDisk(t[i]).usedAt <= now
             /\ ToDisk(t[i]).expireAt <= ToDisk(t[i]).storedAt + LongestLife
             /\ ToDisk(t[i]).usedAt = items[t[i]].usedAt
  <2>1. t[i] \in Cached
    BY <1>3, ElementOfSeq
  <2>2. t[i] \in Keys /\ items[t[i]] \in Entry /\ EntryOK(t[i])
    BY <2>1, EntryFacts DEF StoreInv
  <2> QED
    BY <2>2 DEF ToDisk, Persisted, Entry, EntryOK
<1>5. DOMAIN snapshot' = DOMAIN t /\ \A i \in DOMAIN t : snapshot'[i] = ToDisk(t[i])
  BY <1>1
<1>6. snapshot' \in Seq(Persisted)
  <2>1. snapshot' \in [1..Len(t) -> Persisted]
    BY <1>1, <1>3, <1>4
  <2> QED
    BY <1>3, <2>1, SeqDef
<1>7. ASSUME NEW i \in DOMAIN t, NEW j \in DOMAIN t, i < j
      PROVE  t[i] # t[j] /\ items[t[i]].usedAt >= items[t[j]].usedAt
  <2>1. PICK a \in DOMAIN order, b \in DOMAIN order : a < b /\ order[a] = t[i] /\ order[b] = t[j]
    BY <1>3, <1>7
  <2>2. t[i] # t[j]
    BY <1>3, <1>7 DEF IsInjective
  <2> QED
    BY <2>1, <2>2 DEF StoreInv, RecencyOrder
<1> QED
  BY <1>4, <1>5, <1>6, <1>7 DEF GoodFile

\* A good file loads into a store that satisfies the invariant, whatever its age, and
\* whether or not this build can unpack what is in it.
LEMMA LoadKeeps ==
    ASSUME StoreInv, GoodFile(file), NEW readable \in BOOLEAN, Load(file, readable),
           now' = now, capacity' \in Nat
    PROVE  StoreInv'
<1> DEFINE live == Live(file)
           size == Cardinality(live)
           Fresh(p) == [for |-> p.for, expireAt |-> p.expireAt, hits |-> p.hits,
                        fromPrefetch |-> FALSE, readable |-> p.readable /\ readable,
                        storedAt |-> p.storedAt, usedAt |-> p.usedAt]
<1>1. /\ file \in Seq(Persisted) /\ Len(file) \in Nat /\ DOMAIN file = 1..Len(file)
      /\ live \in SUBSET (1..Len(file))
  BY LenProperties DEF GoodFile, Live
<1>2. /\ size \in Nat
      /\ \A n \in 1..size : Nth(live, n) \in live
      /\ \A n1, n2 \in 1..size : n1 < n2 => Nth(live, n1) < Nth(live, n2)
      /\ \A i \in live : \E n \in 1..size : Nth(live, n) = i
  BY <1>1, PlacesNumbered
<1>3. \A i, j \in live : file[i].key = file[j].key => i = j
  <2>1. \A i, j \in live : i = j \/ i < j \/ j < i
    BY <1>1
  <2> QED
    BY <1>1, <2>1 DEF GoodFile
<1>4. ASSUME NEW i \in live PROVE file[i] \in Persisted /\ file[i].key \in Keys
  <2>1. i \in 1..Len(file)
    BY <1>1
  <2>2. file[i] \in Persisted
    BY <1>1, <2>1, ElementOfSeq
  <2> QED
    BY <2>2 DEF Persisted
<1>5. ASSUME NEW i \in live
      PROVE  /\ Fresh(file[i]) \in Entry
             /\ Fresh(file[i]).usedAt = file[i].usedAt
             /\ Fresh(file[i]).for = file[i].for /\ Fresh(file[i]).storedAt = file[i].storedAt
             /\ Fresh(file[i]).expireAt = file[i].expireAt
  BY <1>4 DEF Entry, Persisted
<1>6. items' = [k \in Keys |-> IF \E i \in live : file[i].key = k
                               THEN Fresh(file[CHOOSE i \in live : file[i].key = k])
                               ELSE NoEntry]
  BY DEF Load
<1>7. order' = [n \in 1..size |-> file[Nth(live, n)].key]
  BY DEF Load, ListLive
<1> HIDE DEF Fresh, live, size
<1>8. ASSUME NEW i \in live PROVE items'[file[i].key] = Fresh(file[i])
  <2>1. (CHOOSE j \in live : file[j].key = file[i].key) = i
    BY <1>3
  <2> QED
    BY <1>4, <1>6, <2>1
<1>9. items' \in [Keys -> Entry \cup {NoEntry}]
  <2> SUFFICES ASSUME NEW k \in Keys PROVE items'[k] \in Entry \cup {NoEntry}
    BY <1>6
  <2>1. CASE \E i \in live : file[i].key = k
    BY <2>1, <1>5, <1>8
  <2>2. CASE ~\E i \in live : file[i].key = k
    BY <2>2, <1>6
  <2> QED
    BY <2>1, <2>2
<1>10. Cached' = {file[i].key : i \in live}
  <2>1. NoEntry \notin Entry
    BY CacheAssumption DEF CacheAssumption
  <2>2. ASSUME NEW i \in live PROVE file[i].key \in Cached'
    BY <1>4, <1>5, <1>8, <2>1 DEF Cached
  <2>3. ASSUME NEW k \in Cached' PROVE k \in {file[i].key : i \in live}
    BY <1>6 DEF Cached
  <2> QED
    BY <2>2, <2>3
<1>11. /\ order' \in Seq(Keys) /\ DOMAIN order' = 1..size
       /\ \A n \in 1..size : order'[n] = file[Nth(live, n)].key
  <2>1. order' \in [1..size -> Keys]
    BY <1>2, <1>4, <1>7
  <2> QED
    BY <1>2, <1>7, <2>1, SeqDef
<1>12. Range(order') = Cached'
  BY <1>2, <1>10, <1>11 DEF Range
<1>13. IsInjective(order')
  <2> SUFFICES ASSUME NEW n1 \in 1..size, NEW n2 \in 1..size, order'[n1] = order'[n2]
               PROVE  n1 = n2
    BY <1>11 DEF IsInjective
  <2>1. Nth(live, n1) = Nth(live, n2) /\ Nth(live, n1) \in live
    BY <1>2, <1>3, <1>11
  <2>2. Nth(live, n1) \in Nat /\ ~(Nth(live, n1) < Nth(live, n2)) /\ ~(Nth(live, n2) < Nth(live, n1))
    BY <1>1, <2>1 DEF live
  <2>3. n1 = n2 \/ n1 < n2 \/ n2 < n1
    BY <1>2
  <2> QED
    BY <1>2, <2>2, <2>3
<1>14. RecencyOrder'
  <2> SUFFICES ASSUME NEW n1 \in 1..size, NEW n2 \in 1..size, n1 < n2
               PROVE  items'[order'[n1]].usedAt >= items'[order'[n2]].usedAt
    BY <1>11 DEF RecencyOrder
  <2>1. Nth(live, n1) \in live /\ Nth(live, n2) \in live /\ Nth(live, n1) < Nth(live, n2)
    BY <1>2
  <2>2. file[Nth(live, n1)].usedAt >= file[Nth(live, n2)].usedAt
    BY <1>1, <2>1 DEF GoodFile, live
  <2> QED
    BY <1>5, <1>8, <1>11, <2>1, <2>2
<1>15. ASSUME NEW k \in Cached' PROVE EntryOK(k)'
  <2>1. PICK i \in live : k = file[i].key
    BY <1>10
  <2>2. /\ KeyOf(file[i].for) = k /\ file[i].storedAt <= now /\ file[i].usedAt <= now
        /\ file[i].expireAt <= file[i].storedAt + LongestLife
    BY <1>1, <2>1 DEF GoodFile, live
  <2> QED
    BY <1>5, <1>8, <2>1, <2>2 DEF EntryOK
<1> QED
  BY <1>9, <1>11, <1>12, <1>13, <1>14, <1>15 DEF StoreInv, MapOK, ListMatchesMap

\* With the process everything it held in memory is gone.
LEMMA DownKeeps ==
    ASSUME CacheInv, Down
    PROVE  CacheInv'
<1>1. StoreInv /\ OptionsOK
  BY CacheInvParts
<1>2. /\ items' = [k \in Keys |-> NoEntry] /\ order' = <<>>
      /\ UNCHANGED <<now, opts, capacity>>
  BY DEF Down
<1>3. Cached' = {} /\ order' \in Seq(Keys) /\ DOMAIN order' = {}
  BY <1>2 DEF Cached
<1>4. MapOK' /\ ListMatchesMap' /\ RecencyOrder'
  BY <1>1, <1>2, <1>3 DEF StoreInv, MapOK, ListMatchesMap, RecencyOrder, Range, IsInjective
<1>5. StoreInv'
  BY <1>3, <1>4 DEF StoreInv
<1>6. ClientsOK' /\ JobsOK'
  BY IdleGood, NoJobGood DEF Down, ClientsOK, JobsOK, GoodClient, GoodJob
<1>7. RefreshOK' /\ OptionsOK'
  BY <1>1 DEF Down, RefreshOK, OptionsOK
<1> QED
  BY <1>5, <1>6, <1>7, CacheInvPartsNext

\* The process starts with the options of its configuration, cold or from the file.
LEMMA RestartKeeps ==
    ASSUME CacheInv, FilesOK, Start
    PROVE  CacheInv'
<1>1. StoreInv /\ ClientsOK /\ JobsOK /\ RefreshOK
  BY CacheInvParts
<1>2. /\ now' = now /\ client' = client /\ UNCHANGED refresh_vars
      /\ opts' = InitialOptions /\ capacity' \in Capacities
  BY DEF Start
<1>3. capacity' \in Nat /\ now \in Time /\ now \in Nat
  BY <1>1, <1>2, CacheAssumption DEF StoreInv, MapOK, Time, CacheAssumption
<1>4. StoreInv'
  <2>1. CASE UNCHANGED store_vars
    BY <1>1, <1>2, <1>3, <2>1, StoreStays DEF StoreStep
  <2>2. ASSUME NEW readable \in BOOLEAN, file # NoFile, Load(file, readable)
        PROVE  StoreInv'
    BY <1>1, <1>2, <1>3, <2>2, LoadKeeps DEF FilesOK
  <2> QED
    BY <2>1, <2>2 DEF Start
<1>5. ClientsOK' /\ JobsOK' /\ RefreshOK'
  BY <1>1, <1>2 DEF ClientsOK, JobsOK, RefreshOK, refresh_vars
<1>6. OptionsOK'
  BY <1>2, InitialGood DEF OptionsOK
<1> QED
  BY <1>4, <1>5, <1>6, CacheInvPartsNext

\* The empty file of a first snapshot is good to load.
LEMMA EmptyGood == GoodFile(<<>>)
BY DEF GoodFile

\* Every step keeps the invariant and, unless the process starts or goes down, lets
\* the list grow only as far as it has room.
LEMMA PersistInvStep ==
    PersistInv /\ [PersistNext]_all_vars => PersistInv' /\ (up /\ up' => Trimmed)
<1> SUFFICES ASSUME PersistInv, [PersistNext]_all_vars
             PROVE  PersistInv' /\ (up /\ up' => Trimmed)
  OBVIOUS
<1>1. CacheInv /\ SaverOK /\ FilesOK /\ StoreInv
  BY DEF PersistInv, CacheInv
<1>2. now \in Nat /\ now \in Time
  BY <1>1, CacheAssumption DEF StoreInv, MapOK, Time, CacheAssumption
<1>3. ASSUME [Next]_vars \/ \E c \in Clients : DropUnreadable(c), UNCHANGED persist_vars
      PROVE  PersistInv' /\ Trimmed
  <2>1. CacheInv' /\ Trimmed
    BY <1>1, <1>3, CacheInvStep
  <2>2. SaverOK'
    BY <1>1, <1>3 DEF SaverOK, persist_vars
  <2>3. now' \in Nat /\ now <= now'
    <3>1. now' = now \/ now' = now + 1
      BY <1>3, Clocked
    <3> QED
      BY <1>2, <3>1
  <2>4. snapshot' = snapshot /\ file' = file
    BY <1>3 DEF persist_vars
  <2>5. FilesOK'
    BY <1>1, <1>2, <2>3, <2>4, FileAges DEF FilesOK, GoodFile
  <2> QED
    BY <2>1, <2>2, <2>5 DEF PersistInv
<1>4. ASSUME UNCHANGED vars PROVE CacheInv' /\ Trimmed
  BY <1>1, <1>4, CacheInvStep
<1>5. ASSUME now' = now, GoodFile(snapshot), snapshot' = snapshot \/ snapshot' = <<>>,
             file' = file \/ file' = snapshot
      PROVE  FilesOK'
  <2>1. GoodFile(snapshot) /\ GoodFile(<<>>) /\ (file = NoFile \/ GoodFile(file))
    BY <1>1, EmptyGood DEF FilesOK
  <2>2. GoodFile(snapshot)'
    <3>1. CASE snapshot' = snapshot
      BY <1>5, <2>1, <3>1 DEF GoodFile
    <3>2. CASE snapshot' = <<>>
      BY <3>2 DEF GoodFile
    <3> QED
      BY <1>5, <3>1, <3>2
  <2>3. (file = NoFile \/ GoodFile(file))'
    <3>1. CASE file' = file
      BY <1>5, <2>1, <3>1 DEF GoodFile
    <3>2. CASE file' = snapshot
      BY <1>5, <2>1, <3>2 DEF GoodFile
    <3> QED
      BY <1>5, <3>1, <3>2
  <2> QED
    BY <2>2, <2>3 DEF FilesOK
<1>6. ASSUME TakeSnapshot PROVE PersistInv' /\ Trimmed
  <2>1. UNCHANGED vars /\ now' = now /\ file' = file
    BY <1>6 DEF TakeSnapshot, vars
  <2>2. FilesOK'
    BY <1>1, <1>6, <2>1, SnapshotGood DEF FilesOK, GoodFile
  <2>3. SaverOK'
    BY <1>1, <1>6 DEF SaverOK, TakeSnapshot
  <2> QED
    BY <1>4, <2>1, <2>2, <2>3 DEF PersistInv
<1>7. ASSUME SaveFails \/ Rename \/ Stop PROVE PersistInv' /\ Trimmed
  <2>1. /\ UNCHANGED vars /\ now' = now
        /\ snapshot' = snapshot \/ snapshot' = <<>>
        /\ file' = file \/ file' = snapshot
    BY <1>7 DEF SaveFails, Rename, Stop, SaveEnds, vars
  <2>2. SaverOK'
    BY <1>1, <1>7 DEF SaverOK, SaveFails, Rename, Stop, SaveEnds
  <2> QED
    BY <1>1, <1>4, <1>5, <2>1, <2>2 DEF PersistInv, FilesOK
<1>8. ASSUME Exit \/ Crash PROVE PersistInv' /\ ~up'
  <2>1. Down
    BY <1>8 DEF Exit, Crash
  <2>2. SaverOK' /\ ~up' /\ now' = now /\ snapshot' = <<>> /\ file' = file
    BY <2>1 DEF Down, SaverOK
  <2> QED
    BY <1>1, <1>5, <2>1, <2>2, DownKeeps DEF PersistInv, FilesOK
<1>9. ASSUME Start PROVE PersistInv' /\ ~up
  <2>1. now' = now /\ snapshot' = snapshot /\ file' = file /\ SaverOK' /\ ~up
    BY <1>1, <1>9 DEF Start, SaverOK
  <2> QED
    BY <1>1, <1>5, <1>9, <2>1, RestartKeeps DEF PersistInv, FilesOK
<1>10. ASSUME UNCHANGED all_vars PROVE PersistInv' /\ Trimmed
  BY <1>3, <1>10 DEF all_vars
<1>11. ASSUME Tick, UNCHANGED persist_vars PROVE PersistInv' /\ Trimmed
  BY <1>3, <1>11 DEF Next
<1>12. ASSUME NEW c \in Clients, DropLoaded(c) PROVE PersistInv' /\ Trimmed
  BY <1>3, <1>12 DEF DropLoaded
<1> QED
  BY <1>3, <1>6, <1>7, <1>8, <1>9, <1>10, <1>11, <1>12 DEF PersistNext

\* The invariant of the cache holds across process lifetimes, all but for the bound
\* on the number of entries.
THEOREM PersistInvAlways == PersistSpec => []PersistInv
<1>1. PersistInit => PersistInv
  BY CacheInvInit, EmptyGood DEF PersistInit, PersistInv, SaverOK, FilesOK
<1> QED
  BY <1>1, PersistInvStep, PTL DEF PersistSpec

\* The types of the cache, the persist loop and the file hold across restarts: no
\* crash, failed save or clock that went on leaves anything else in the file.
THEOREM PersistTypeCorrect == PersistSpec => []PersistTypeOK
<1>1. PersistInv => PersistTypeOK
  BY DEF PersistInv, CacheInv, SaverOK, FilesOK, GoodFile, PersistTypeOK
<1> QED
  BY <1>1, PersistInvAlways, PTL

\* Across restarts, also those that load a file, the map and the recency list hold
\* the same keys, each once.
THEOREM RestartsMatch == PersistSpec => []ListMatchesMap
BY PersistInvAlways, PTL DEF PersistInv, CacheInv, StoreInv

\* Across restarts the list is in order of last use, the uses of earlier processes
\* included.
THEOREM RestartsKeepRecency == PersistSpec => []RecencyOrder
BY PersistInvAlways, PTL DEF PersistInv, CacheInv, StoreInv

\* No caller is handed an answer that was stored too long ago, by whichever process
\* it was stored, although the file may be loaded at any later time.
THEOREM RestartsBoundAge == PersistSpec => []ServedAgeBounded
<1>1. PersistInv => ServedAgeBounded
  BY DEF PersistInv, CacheInv, ServedAgeBounded, Served, GoodClient
<1> QED
  BY <1>1, PersistInvAlways, PTL

\* A caller that asks for a type with a mnemonic is handed an answer to exactly its
\* question, also when an earlier process stored it.
THEOREM RestartsKeepQuestions == PersistSpec => []AnswersItsQuestion
<1>1. PersistInv => AnswersItsQuestion
  BY KeysTell DEF PersistInv
<1> QED
  BY <1>1, PersistInvAlways, PTL

\* A cache that a restart left with more entries than the new MaxEntries allows
\* never gets another one before it fits.
THEOREM OverfullShrinks == PersistSpec => NeverGrowsOverfull
<1>1. PersistInv /\ [PersistNext]_all_vars =>
        [up /\ up' => Len(order') <= capacity \/ Len(order') < Len(order)
                     \/ Range(order') = Range(order)]_all_vars
  BY PersistInvStep DEF Trimmed
<1> QED
  BY <1>1, PersistInvAlways, PTL DEF PersistSpec, NeverGrowsOverfull
=============================================================================
