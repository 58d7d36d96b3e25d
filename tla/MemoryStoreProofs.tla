------------------------- MODULE MemoryStoreProofs -------------------------
(***************************************************************************)
(* Proofs about MemoryStore: its types, the order of its stamps, what its   *)
(* eviction spares, and its bound where nothing scans the store.            *)
(***************************************************************************)
EXTENDS SemanticSearch, FiniteSetTheorems, NaturalsInduction, TLAPS

(* What Set(k, v, ttl) leaves, key by key, when it lets the keys of gone go. *)
SetLeaves(k, v, ttl, gone) ==
    /\ data' = [i \in Keys |-> IF i = k THEN v
                               ELSE IF i \in gone THEN NoValue ELSE data[i]]
    /\ expires' = [i \in Keys |-> IF i = k THEN (IF ttl > 0 THEN ttl ELSE Never)
                                  ELSE IF i \in gone THEN Never ELSE expires[i]]
    /\ lru' = [i \in Keys |-> IF i = k THEN clock + 1
                              ELSE IF i \in gone THEN 0 ELSE lru[i]]
    /\ clock' = clock + 1
    /\ UNCHANGED got

(* A new key in a full dict.                                                *)
Crowded(k) == data[k] = NoValue /\ Cardinality(Held) >= MaxEntries

LEMMA SetKeyByKey ==
    ASSUME TypeOK, NEW k \in Keys, NEW v \in Values, NEW ttl \in TTLs, Set(k, v, ttl)
    PROVE  \/ Crowded(k) /\ \E j \in Victims : SetLeaves(k, v, ttl, {j})
           \/ ~Crowded(k) /\ SetLeaves(k, v, ttl, {})
<1>1. CASE Crowded(k)
  <2>1. PICK j \in Victims :
          /\ data' = [Without(data, {j}, NoValue) EXCEPT ![k] = v]
          /\ expires' = [Without(expires, {j}, Never)
                           EXCEPT ![k] = IF ttl > 0 THEN ttl ELSE Never]
          /\ lru' = [Without(lru, {j}, 0) EXCEPT ![k] = clock + 1]
    BY <1>1 DEF Set, Crowded
  <2>2. clock' = clock + 1 /\ UNCHANGED got
    BY DEF Set
  <2>3. SetLeaves(k, v, ttl, {j})
    BY <2>1, <2>2 DEF Without, SetLeaves
  <2> QED
    BY <1>1, <2>3
<1>2. CASE ~Crowded(k)
  <2>1. /\ data' = [Without(data, {}, NoValue) EXCEPT ![k] = v]
        /\ expires' = [Without(expires, {}, Never)
                         EXCEPT ![k] = IF ttl > 0 THEN ttl ELSE Never]
        /\ lru' = [Without(lru, {}, 0) EXCEPT ![k] = clock + 1]
    BY <1>2 DEF Set, Crowded
  <2>2. clock' = clock + 1 /\ UNCHANGED got
    BY DEF Set
  <2>3. SetLeaves(k, v, ttl, {})
    BY <2>1, <2>2 DEF Without, SetLeaves
  <2> QED
    BY <1>2, <2>3
<1> QED
  BY <1>1, <1>2

(* The same with the choice left open.                                      *)
LEMMA SetLeavesSome ==
    ASSUME TypeOK, NEW k \in Keys, NEW v \in Values, NEW ttl \in TTLs, Set(k, v, ttl)
    PROVE  \E gone \in SUBSET Keys : SetLeaves(k, v, ttl, gone)
<1>1. Victims \subseteq Keys
  BY DEF Victims, Stamped, Held
<1> QED
  BY <1>1, SetKeyByKey

LEMMA TypeStep == TypeOK /\ [Next]_vars => TypeOK'
<1> SUFFICES ASSUME TypeOK, [Next]_vars
             PROVE  TypeOK'
  OBVIOUS
<1> USE StoreAssumption DEF TypeOK
<1>1. ASSUME NEW k \in Keys, Get(k)
      PROVE  TypeOK'
  BY <1>1 DEF Get, Drop, Without
<1>2. ASSUME NEW k \in Keys, Delete(k)
      PROVE  TypeOK'
  BY <1>2 DEF Delete, Drop, Without
<1>3. ASSUME NEW k \in Keys, NEW v \in Values, NEW ttl \in TTLs, Set(k, v, ttl)
      PROVE  TypeOK'
  BY <1>3, SetLeavesSome DEF SetLeaves
<1>4. CASE Scan
  BY <1>4 DEF Scan, Prune, Without
<1>5. CASE Clear
  BY <1>5 DEF Clear, Drop, Without
<1>6. CASE Tick
  BY <1>6 DEF Tick
<1>7. CASE UNCHANGED vars
  BY <1>7 DEF vars
<1> QED
  BY <1>1, <1>2, <1>3, <1>4, <1>5, <1>6, <1>7 DEF Next

(* The three dicts keep their types under every operation of the store.     *)
THEOREM TypeCorrect == Spec => []TypeOK
<1>1. Init => TypeOK
  BY StoreAssumption DEF Init, TypeOK
<1> QED
  BY <1>1, TypeStep, PTL DEF Spec

LEMMA StampsStep == TypeOK /\ StampsOrder /\ [Next]_vars => StampsOrder'
<1> SUFFICES ASSUME TypeOK, StampsOrder, [Next]_vars
             PROVE  StampsOrder'
  OBVIOUS
<1> USE StoreAssumption DEF TypeOK, StampsOrder, Held, Timed, Stamped
<1>1. ASSUME NEW S \in SUBSET Keys, Drop(S), UNCHANGED clock
      PROVE  StampsOrder'
  BY <1>1 DEF Drop, Without
<1>2. ASSUME NEW k \in Keys, Get(k)
      PROVE  StampsOrder'
  <2>1. CASE Drop({k}) /\ UNCHANGED clock
    BY <1>1, <2>1
  <2>2. CASE /\ data[k] # NoValue
             /\ clock' = clock + 1
             /\ lru' = [lru EXCEPT ![k] = clock + 1]
             /\ UNCHANGED <<data, expires>>
    BY <2>2
  <2>3. CASE UNCHANGED <<data, expires, lru, clock>>
    BY <2>3
  <2> QED
    BY <1>2, <2>1, <2>2, <2>3 DEF Get
<1>3. ASSUME NEW k \in Keys, Delete(k)
      PROVE  StampsOrder'
  BY <1>1, <1>3 DEF Delete
<1>4. ASSUME NEW k \in Keys, NEW v \in Values, NEW ttl \in TTLs, Set(k, v, ttl)
      PROVE  StampsOrder'
  <2>1. PICK gone \in SUBSET Keys : SetLeaves(k, v, ttl, gone)
    BY <1>4, SetLeavesSome
  <2> QED
    BY <2>1 DEF SetLeaves
<1>5. CASE Scan
  BY <1>5 DEF Scan, Prune, Without
<1>6. CASE Clear
  BY <1>1, <1>6 DEF Clear
<1>7. CASE Tick
  BY <1>7 DEF Tick
<1>8. CASE UNCHANGED vars
  BY <1>8 DEF vars
<1> QED
  BY <1>2, <1>3, <1>4, <1>5, <1>6, <1>7, <1>8 DEF Next

(* Stamps are unique and lie in the past, and every key that is held or     *)
(* timed has one: the order that eviction relies on.                        *)
THEOREM StampsOrdered == Spec => []StampsOrder
<1>1. Init => StampsOrder
  BY StoreAssumption DEF Init, StampsOrder, Held, Timed, Stamped
<1> QED
  BY <1>1, TypeCorrect, StampsStep, PTL DEF Spec

(* The least stamp is never that of the key used last.                      *)
LEMMA LastUsedStep ==
    TypeOK /\ StampsOrder =>
        [\A j, k \in Keys, v \in Values, ttl \in TTLs :
           /\ MaxEntries > 1 /\ j # k
           /\ data[k] # NoValue /\ lru[k] = clock
           /\ Set(j, v, ttl)
           => data'[k] = data[k]]_vars
<1>1. ASSUME TypeOK, StampsOrder,
             NEW j \in Keys, NEW k \in Keys, NEW v \in Values, NEW ttl \in TTLs,
             MaxEntries > 1, j # k, data[k] # NoValue, lru[k] = clock,
             Set(j, v, ttl)
      PROVE  data'[k] = data[k]
  <2>1. k \in Stamped
    BY <1>1 DEF StampsOrder, Held
  <2>2. ASSUME Crowded(j), k \in Victims PROVE FALSE
    <3>1. \A i \in Stamped : lru[i] = clock
      BY <1>1, <2>1, <2>2 DEF Victims, StampsOrder, Stamped, TypeOK
    <3>2. Held = {k}
      BY <1>1, <2>1, <3>1 DEF StampsOrder, Held
    <3> QED
      BY <1>1, <2>2, <3>2, FS_Singleton, StoreAssumption DEF Crowded
  <2>3. CASE Crowded(j)
    <3>1. PICK i \in Victims : SetLeaves(j, v, ttl, {i})
      BY <1>1, <2>3, SetKeyByKey
    <3> QED
      BY <1>1, <2>2, <2>3, <3>1 DEF SetLeaves
  <2>4. CASE ~Crowded(j)
    BY <1>1, <2>4, SetKeyByKey DEF SetLeaves
  <2> QED
    BY <2>3, <2>4
<1> QED
  BY <1>1

(* The eviction of a set spares the key used last, by get or by set, in a   *)
(* store that has room for two.                                             *)
THEOREM LastUsedKept == Spec => LastUsedSurvives
BY LastUsedStep, TypeCorrect, StampsOrdered, PTL DEF LastUsedSurvives

-----------------------------------------------------------------------------
(* Without a scan no stamp outlives its key, so every eviction frees a place. *)
NoGhosts == Stamped \subseteq Held

LEMMA NoGhostsStep ==
    ~Scanned /\ TypeOK /\ NoGhosts /\ [Next]_vars => NoGhosts'
<1> SUFFICES ASSUME ~Scanned, TypeOK, NoGhosts, [Next]_vars
             PROVE  NoGhosts'
  OBVIOUS
<1> USE StoreAssumption DEF TypeOK, NoGhosts, Held, Stamped
<1>1. ASSUME NEW k \in Keys, Get(k)
      PROVE  NoGhosts'
  BY <1>1 DEF Get, Drop, Without
<1>2. ASSUME NEW k \in Keys, Delete(k)
      PROVE  NoGhosts'
  BY <1>2 DEF Delete, Drop, Without
<1>3. ASSUME NEW k \in Keys, NEW v \in Values, NEW ttl \in TTLs, Set(k, v, ttl)
      PROVE  NoGhosts'
  BY <1>3, SetLeavesSome DEF SetLeaves
<1>4. CASE Clear
  BY <1>4 DEF Clear, Drop, Without
<1>5. CASE Tick
  BY <1>5 DEF Tick
<1>6. CASE UNCHANGED vars
  BY <1>6 DEF vars
<1> QED
  BY <1>1, <1>2, <1>3, <1>4, <1>5, <1>6 DEF Next, Scan

LEMMA BoundedStep ==
    TypeOK /\ StampsOrder /\ NoGhosts /\ Bounded /\ [Next]_vars => Bounded'
<1> SUFFICES ASSUME TypeOK, StampsOrder, NoGhosts, Bounded, [Next]_vars
             PROVE  Bounded'
  OBVIOUS
<1> USE StoreAssumption
<1>1. IsFiniteSet(Held) /\ Cardinality(Held) \in Nat
  BY FS_Subset, FS_CardinalityType DEF Held
<1>2. ASSUME Held' \subseteq Held
      PROVE  Bounded'
  <2>1. Cardinality(Held') <= Cardinality(Held) /\ Cardinality(Held') \in Nat
    BY <1>1, <1>2, FS_Subset, FS_CardinalityType
  <2> QED
    BY <1>1, <2>1 DEF Bounded
<1>3. ASSUME NEW k \in Keys, NEW v \in Values, NEW ttl \in TTLs, Set(k, v, ttl)
      PROVE  Bounded'
  <2>1. CASE data[k] # NoValue
    <3>1. SetLeaves(k, v, ttl, {})
      BY <1>3, <2>1, SetKeyByKey DEF Crowded
    <3>2. Held' \subseteq Held
      BY <2>1, <3>1 DEF SetLeaves, Held
    <3> QED
      BY <1>2, <3>2
  <2>2. CASE data[k] = NoValue /\ ~Crowded(k)
    <3>1. Held' = Held \union {k} /\ k \notin Held
      BY <1>3, <2>2, SetKeyByKey DEF SetLeaves, Held
    <3>2. Cardinality(Held') = Cardinality(Held) + 1
      BY <1>1, <3>1, FS_AddElement
    <3> QED
      BY <1>1, <2>2, <3>2 DEF Bounded, Crowded
  <2>3. CASE Crowded(k)
    <3>1. PICK j \in Victims : SetLeaves(k, v, ttl, {j})
      BY <1>3, <2>3, SetKeyByKey
    <3>2. j \in Held
      BY DEF Victims, NoGhosts
    <3>3. Held' = (Held \ {j}) \union {k} /\ k \notin Held \ {j}
      BY <2>3, <3>1, <3>2 DEF SetLeaves, Crowded, Held
    <3>4. IsFiniteSet(Held \ {j}) /\ Cardinality(Held \ {j}) = Cardinality(Held) - 1
      BY <1>1, <3>2, FS_RemoveElement
    <3>5. Cardinality(Held') = Cardinality(Held \ {j}) + 1
      BY <3>3, <3>4, FS_AddElement
    <3> QED
      BY <1>1, <3>4, <3>5 DEF Bounded
  <2> QED
    BY <2>1, <2>2, <2>3 DEF Crowded
<1>4. ASSUME NEW k \in Keys, Get(k) \/ Delete(k)
      PROVE  Held' \subseteq Held
  BY <1>4 DEF Get, Delete, Drop, Without, Held
<1>5. CASE Scan \/ Clear \/ Tick \/ UNCHANGED vars
  <2>1. Held' \subseteq Held
    BY <1>5 DEF Scan, Prune, Clear, Drop, Without, Tick, vars, Held
  <2> QED
    BY <1>2, <2>1
<1> QED
  BY <1>2, <1>3, <1>4, <1>5 DEF Next

(* The dict of a store that nothing scans, the L1 store, never outgrows     *)
(* max_entries (base.py:98); a scanned one does, see MemoryOverflow.cfg.    *)
THEOREM UnscannedBounded == ~Scanned /\ Spec => []Bounded
<1> SUFFICES ASSUME ~Scanned
             PROVE  Spec => []Bounded
  OBVIOUS
<1>1. Init => NoGhosts /\ Bounded
  <2>1. ASSUME Init PROVE Held = {} /\ Stamped = {}
    BY <2>1 DEF Init, Held, Stamped
  <2> QED
    BY <2>1, FS_EmptySet, StoreAssumption DEF NoGhosts, Bounded
<1>2. TypeOK /\ StampsOrder /\ NoGhosts /\ Bounded /\ [Next]_vars => (NoGhosts /\ Bounded)'
  BY NoGhostsStep, BoundedStep
<1> QED
  BY <1>1, <1>2, TypeCorrect, StampsOrdered, PTL DEF Spec

-----------------------------------------------------------------------------
(* What a get of each key would return: the variable live of EvictingMap.   *)
Live == [k \in Keys |-> IF Expired(k) THEN NoValue ELSE data[k]]

LEMMA ForgetIsMapStep ==
    ASSUME NEW S \in SUBSET Keys, UNCHANGED got,
           Live' = [k \in Keys |-> IF k \in S THEN NoValue ELSE Live[k]]
    PROVE  Map!Next
BY DEF Map!Next, Map!Forget, Live

LEMMA SetIsMapStep ==
    ASSUME TypeOK, NEW k \in Keys, NEW v \in Values, NEW ttl \in TTLs, Set(k, v, ttl)
    PROVE  Map!Next
<1> USE StoreAssumption DEF TypeOK
<1>1. ASSUME NEW gone \in SUBSET Keys, SetLeaves(k, v, ttl, gone),
             NEW S \in {{}} \union {{j} : j \in Keys \ {k}},
             \A i \in Keys : i \in S <=> i \in gone /\ i # k
      PROVE  Map!Next
  <2>1. ~Expired(k)' /\ \A i \in gone \ {k} : ~Expired(i)'
    BY <1>1 DEF SetLeaves, Expired
  <2>2. \A i \in Keys \ (gone \union {k}) : Expired(i)' = Expired(i)
    BY <1>1 DEF SetLeaves, Expired
  <2>3. Live' = [i \in Keys |-> IF i = k THEN v
                               ELSE IF i \in S THEN NoValue ELSE Live[i]]
    BY <1>1, <2>1, <2>2 DEF SetLeaves, Live
  <2>4. Map!Put(k, v)
    BY <1>1, <2>3 DEF Map!Put, Live, SetLeaves
  <2> QED
    BY <2>4 DEF Map!Next
<1>2. CASE Crowded(k)
  <2>1. PICK j \in Victims : SetLeaves(k, v, ttl, {j})
    BY <1>2, SetKeyByKey
  <2>2. j \in Keys
    BY DEF Victims, Stamped, Held
  <2>3. {j} \in SUBSET Keys
    BY <2>2
  <2>4. CASE j = k
    <3>1. PICK S \in {{}} \union {{i} : i \in Keys \ {k}} : S = {}
      OBVIOUS
    <3>2. \A i \in Keys : i \in S <=> i \in {j} /\ i # k
      BY <2>4, <3>1
    <3> QED
      BY <1>1, <2>1, <2>3, <3>2
  <2>5. CASE j # k
    <3>1. {j} \in {{}} \union {{i} : i \in Keys \ {k}}
      BY <2>2, <2>5
    <3>2. \A i \in Keys : i \in {j} <=> i \in {j} /\ i # k
      BY <2>5
    <3> QED
      BY <1>1, <2>1, <2>3, <3>1, <3>2
  <2> QED
    BY <2>4, <2>5
<1>3. CASE ~Crowded(k)
  <2>1. SetLeaves(k, v, ttl, {})
    BY <1>3, SetKeyByKey
  <2> QED
    BY <1>1, <2>1
<1> QED
  BY <1>2, <1>3

LEMMA MapStep == TypeOK /\ [Next]_vars => [Map!Next]_<<Live, got>>
<1> SUFFICES ASSUME TypeOK, [Next]_vars
             PROVE  Map!Next \/ UNCHANGED <<Live, got>>
  OBVIOUS
<1> USE StoreAssumption DEF TypeOK
<1>1. ASSUME NEW k \in Keys, Get(k)
      PROVE  Map!Next
  <2>1. Live' = Live /\ got' = Live[k]
    <3>1. CASE Expired(k) /\ Drop({k}) /\ got' = NoValue
      BY <3>1 DEF Live, Drop, Without, Expired
    <3>2. CASE ~Expired(k) /\ got' = data[k] /\ UNCHANGED <<data, expires>>
      BY <3>2 DEF Live, Expired
    <3> QED
      BY <1>1, <3>1, <3>2 DEF Get
  <2>2. Map!Get(k)
    BY <2>1 DEF Map!Get, Live
  <2> QED
    BY <2>2 DEF Map!Next
<1>2. ASSUME NEW S \in SUBSET Keys, Drop(S), UNCHANGED got
      PROVE  Map!Next
  <2>1. Live' = [k \in Keys |-> IF k \in S THEN NoValue ELSE Live[k]]
    BY <1>2 DEF Live, Drop, Without, Expired
  <2> QED
    BY <1>2, <2>1, ForgetIsMapStep
<1>3. ASSUME NEW k \in Keys, NEW v \in Values, NEW ttl \in TTLs, Set(k, v, ttl)
      PROVE  Map!Next
  BY <1>3, SetIsMapStep
<1>4. CASE Scan
  <2>1. Live' = Live
    BY <1>4 DEF Scan, Prune, Without, Live, Expired
  <2> QED
    BY <1>4, <2>1 DEF Scan
<1>5. CASE Tick
  <2> DEFINE over == {i \in Keys : expires'[i] # Never /\ expires'[i] < 0}
  <2>1. Live' = [k \in Keys |-> IF k \in over THEN NoValue ELSE Live[k]]
    BY <1>5 DEF Tick, Live, Expired
  <2>2. over \in SUBSET Keys
    OBVIOUS
  <2>3. UNCHANGED got
    BY <1>5 DEF Tick
  <2> HIDE DEF over
  <2> QED
    BY <2>1, <2>2, <2>3, ForgetIsMapStep
<1>6. CASE UNCHANGED vars
  BY <1>6 DEF vars, Live, Expired
<1> QED
  BY <1>1, <1>2, <1>3, <1>4, <1>5, <1>6 DEF Next, Delete, Clear

(* The store is an evicting map for every number of keys, bound and TTL:    *)
(* lazily removed or pruned, an expired value is never returned, and a set  *)
(* costs at most one other key.                                             *)
THEOREM ImplementsMap == Spec => IsEvictingMap
<1>1. Init => Map!Init
  BY StoreAssumption DEF Init, Map!Init, Expired
<1>2. TypeOK /\ [Next]_vars => [Map!Next]_<<Live, got>>
  BY MapStep
<1> QED
  BY <1>1, <1>2, TypeCorrect, PTL DEF Spec, IsEvictingMap, Map!Spec, Live

-----------------------------------------------------------------------------
(* The order of the dict: a place for every key that is held, no two alike. *)
Apart(S) == \A j, k \in S : place[j] = place[k] => j = k

Places ==
    /\ place \in [Keys -> Nat]
    /\ \A k \in Keys : place[k] = 0 <=> data[k] = NoValue
    /\ Apart(Held)

(* Ranks keep the order of places, and number the keys from 1.              *)
LEMMA RankOrders ==
    ASSUME place \in [Keys -> Nat], NEW S \in SUBSET Keys
    PROVE  /\ \A k \in S : Rank(S, k) \in 1..Cardinality(S)
           /\ \A j, k \in S : place[j] < place[k] <=> Rank(S, j) < Rank(S, k)
<1> DEFINE Upto(k) == {i \in S : place[i] <= place[k]}
<1>1. IsFiniteSet(S) /\ Cardinality(S) \in Nat
  BY FS_Subset, FS_CardinalityType, StoreAssumption
<1>2. ASSUME NEW k \in S
      PROVE  /\ IsFiniteSet(Upto(k))
             /\ Cardinality(Upto(k)) \in 1..Cardinality(S)
  <2>1. Upto(k) \in SUBSET S /\ k \in Upto(k)
    OBVIOUS
  <2> HIDE DEF Upto
  <2>2. /\ IsFiniteSet(Upto(k)) /\ Cardinality(Upto(k)) \in Nat
        /\ Cardinality(Upto(k)) <= Cardinality(S)
    BY <1>1, <2>1, FS_Subset, FS_CardinalityType
  <2>3. Cardinality(Upto(k)) # 0
    BY <2>1, <2>2, FS_EmptySet
  <2> QED BY <1>1, <2>2, <2>3
<1>3. ASSUME NEW j \in S, NEW k \in S, place[j] < place[k]
      PROVE  Cardinality(Upto(j)) < Cardinality(Upto(k))
  <2>1. Upto(j) \in SUBSET Upto(k) /\ k \in Upto(k) /\ k \notin Upto(j)
    BY <1>3
  <2> HIDE DEF Upto
  <2>2. /\ Cardinality(Upto(j)) <= Cardinality(Upto(k))
        /\ Cardinality(Upto(k)) # Cardinality(Upto(j))
    BY <1>2, <2>1, FS_Subset
  <2> QED BY <1>1, <1>2, <2>2
<1>4. ASSUME NEW j \in S, NEW k \in S, ~(place[j] < place[k])
      PROVE  ~(Cardinality(Upto(j)) < Cardinality(Upto(k)))
  <2>1. place[j] = place[k] => Upto(j) = Upto(k)
    OBVIOUS
  <2>2. place[j] = place[k] \/ place[k] < place[j]
    BY <1>4
  <2> HIDE DEF Upto
  <2> QED BY <1>1, <1>2, <1>3, <2>1, <2>2
<1>5. \A k : Rank(S, k) = Cardinality(Upto(k))
  BY DEF Rank
<1> HIDE DEF Upto
<1> QED BY <1>2, <1>3, <1>4, <1>5

(* Every number is the rank of one key.                                     *)
LEMMA RankNumbers ==
    ASSUME place \in [Keys -> Nat], NEW S \in SUBSET Keys, Apart(S)
    PROVE  /\ \A n \in 1..Cardinality(S) : \E k \in S : Rank(S, k) = n
           /\ \A j, k \in S : Rank(S, j) = Rank(S, k) => j = k
<1> DEFINE N == Cardinality(S)
           f == [k \in S |-> Rank(S, k)]
<1>1. IsFiniteSet(S) /\ N \in Nat
  BY FS_Subset, FS_CardinalityType, StoreAssumption
<1>2. ASSUME NEW j \in S, NEW k \in S, Rank(S, j) = Rank(S, k)
      PROVE  j = k
  <2>1. Rank(S, j) \in Nat /\ Rank(S, k) \in Nat
    BY <1>1, RankOrders
  <2>2. ~(place[j] < place[k]) /\ ~(place[k] < place[j])
    BY <1>2, <2>1, RankOrders
  <2> QED BY <2>2 DEF Apart
<1>3. f \in Injection(S, 1..N)
  <2>1. f \in [S -> 1..N]
    BY RankOrders
  <2> QED BY <1>2, <2>1 DEF Injection, IsInjective
<1>4. IsFiniteSet(1..N) /\ Cardinality(1..N) = N
  BY <1>1, FS_Interval
<1> HIDE DEF f
<1>5. f \in Surjection(S, 1..N)
  BY <1>1, <1>3, <1>4, FS_Injection
<1>6. \A n \in 1..N : \E k \in S : f[k] = n
  BY <1>5 DEF Surjection
<1> QED BY <1>2, <1>6 DEF f

(* A step of the store brings one new key at most.                          *)
LEMMA OneNewKey ==
    ASSUME TypeOK, Next,
           NEW j \in Keys, data[j] = NoValue, data'[j] # NoValue,
           NEW k \in Keys, data[k] = NoValue, data'[k] # NoValue
    PROVE  j = k
<1> USE StoreAssumption DEF TypeOK
<1>1. ASSUME NEW i \in Keys, Get(i) \/ Delete(i)
      PROVE  FALSE
  BY <1>1 DEF Get, Delete, Drop, Without
<1>2. ASSUME NEW i \in Keys, NEW v \in Values, NEW ttl \in TTLs, Set(i, v, ttl)
      PROVE  j = k
  BY <1>2, SetLeavesSome DEF SetLeaves
<1>3. CASE Scan \/ Clear \/ Tick
  BY <1>3 DEF Scan, Prune, Clear, Drop, Without, Tick
<1> QED BY <1>1, <1>2, <1>3 DEF Next

LEMMA ReorderKeeps ==
    ASSUME TypeOK, TypeOK', Places, Reorder,
           \A j, k \in Keys : /\ data[j] = NoValue /\ data'[j] # NoValue
                             /\ data[k] = NoValue /\ data'[k] # NoValue => j = k
    PROVE  Places'
<1> DEFINE kept == {k \in Held : data'[k] # NoValue}
<1>1. kept \in SUBSET Keys /\ Apart(kept)
  BY DEF Held, Places, Apart
<1>2. IsFiniteSet(kept) /\ Cardinality(kept) \in Nat
  BY <1>1, FS_Subset, FS_CardinalityType, StoreAssumption
<1>3. place' = [k \in Keys |-> IF data'[k] = NoValue THEN 0
                               ELSE IF k \in kept THEN Rank(kept, k) ELSE Cardinality(kept) + 1]
  BY DEF Reorder
<1>4. \A k \in Keys : k \in kept <=> data[k] # NoValue /\ data'[k] # NoValue
  BY DEF Held
<1> HIDE DEF kept
<1>5. /\ \A k \in kept : Rank(kept, k) \in 1..Cardinality(kept)
      /\ \A j, k \in kept : Rank(kept, j) = Rank(kept, k) => j = k
  BY <1>1, RankOrders, RankNumbers DEF Places
<1>6. \A k \in Keys : /\ data'[k] = NoValue => place'[k] = 0
                      /\ k \in kept => place'[k] = Rank(kept, k)
                      /\ k \notin kept /\ data'[k] # NoValue => place'[k] = Cardinality(kept) + 1
  BY <1>3, <1>4
<1>7. \A k \in Keys : place'[k] \in Nat /\ (place'[k] = 0 <=> data'[k] = NoValue)
  BY <1>2, <1>4, <1>5, <1>6
<1>8. ASSUME NEW j \in Keys, NEW k \in Keys, data'[j] # NoValue, data'[k] # NoValue,
             place'[j] = place'[k]
      PROVE  j = k
  <2>1. CASE j \in kept /\ k \in kept
    BY <1>5, <1>6, <1>8, <2>1
  <2>2. CASE j \notin kept /\ k \notin kept
    BY <1>4, <1>8, <2>2
  <2>3. CASE j \in kept <=> k \notin kept
    BY <1>2, <1>5, <1>6, <1>8, <2>3
  <2> QED BY <2>1, <2>2, <2>3
<1>9. place' \in [Keys -> Nat]
  BY <1>3, <1>7
<1> QED BY <1>7, <1>8, <1>9 DEF Places, Apart, Held

(* A search leaves the live rows, stamped in the order of the dict.         *)
LEMMA SearchLeaves ==
    ASSUME TypeOK, Places, NEW q \in Queries, Search(q)
    PROVE  /\ TypeOK'
           /\ Held' = LiveKeys
           /\ StampsOrder => StampsOrder'
           /\ UNCHANGED got
           /\ Live' = Live
<1> USE StoreAssumption DEF TypeOK
<1>1. LiveKeys \in SUBSET Keys /\ Apart(LiveKeys)
  BY DEF LiveKeys, Held, Places, Apart
<1>2. IsFiniteSet(LiveKeys) /\ Cardinality(LiveKeys) \in Nat
  BY <1>1, FS_Subset, FS_CardinalityType
<1>3. /\ data' = [k \in Keys |-> IF Expired(k) THEN NoValue ELSE data[k]]
      /\ expires' = [k \in Keys |-> IF Expired(k) THEN Never ELSE expires[k]]
      /\ UNCHANGED got
  BY DEF Search, Prune, Without
<1>4. /\ clock' = clock + Cardinality(LiveKeys)
      /\ lru' = [k \in Keys |-> IF k \in LiveKeys THEN clock + Rank(LiveKeys, k) ELSE lru[k]]
  BY DEF Search, Touch
<1>5. /\ \A k \in LiveKeys : Rank(LiveKeys, k) \in 1..Cardinality(LiveKeys)
      /\ \A j, k \in LiveKeys : Rank(LiveKeys, j) = Rank(LiveKeys, k) => j = k
  BY <1>1, RankOrders, RankNumbers DEF Places
<1>6. Held' = LiveKeys
  BY <1>3 DEF Held, LiveKeys
<1>7. TypeOK'
  BY <1>2, <1>3, <1>4, <1>5
<1>8. ASSUME StampsOrder
      PROVE  StampsOrder'
  <2>1. Timed' \subseteq Held'
    BY <1>3, <1>8 DEF StampsOrder, Timed, Held
  <2>2. \A k \in Keys :
          /\ k \in LiveKeys => lru'[k] = clock + Rank(LiveKeys, k)
          /\ k \notin LiveKeys => lru'[k] = lru[k]
    BY <1>4
  <2>3. \A k \in Keys : /\ k \in LiveKeys => lru'[k] > clock /\ lru'[k] <= clock'
                        /\ k \notin LiveKeys => lru'[k] <= clock /\ lru'[k] <= clock'
    BY <1>2, <1>4, <1>5, <1>8, <2>2 DEF StampsOrder
  <2>4. Held' \subseteq Stamped'
    BY <1>1, <1>6, <2>3 DEF Stamped
  <2>5. ASSUME NEW j \in Stamped', NEW k \in Stamped', lru'[j] = lru'[k]
        PROVE  j = k
    <3>1. j \in Keys /\ k \in Keys
      BY DEF Stamped
    <3>2. CASE j \in LiveKeys /\ k \in LiveKeys
      BY <1>5, <2>2, <2>5, <3>1, <3>2
    <3>3. CASE j \notin LiveKeys /\ k \notin LiveKeys
      BY <1>8, <2>2, <2>5, <3>1, <3>3 DEF StampsOrder, Stamped
    <3>4. CASE j \in LiveKeys <=> k \notin LiveKeys
      BY <1>7, <2>3, <2>5, <3>1, <3>4
    <3> QED BY <3>2, <3>3, <3>4
  <2>6. \A k \in Keys : lru'[k] <= clock'
    BY <2>3
  <2> QED BY <2>1, <2>4, <2>5, <2>6 DEF StampsOrder
<1>9. Live' = Live
  <2>1. \A k \in Keys : (IF Expired(k)' THEN NoValue ELSE data'[k])
                        = IF Expired(k) THEN NoValue ELSE data[k]
    BY <1>3 DEF Expired
  <2> QED BY <2>1 DEF Live
<1> QED BY <1>3, <1>6, <1>7, <1>8, <1>9

SearchInv == TypeOK /\ StampsOrder /\ Places

LEMMA SearchStep == SearchInv /\ [SearchNext]_searchVars => SearchInv'
<1> SUFFICES ASSUME SearchInv, [SearchNext]_searchVars
             PROVE  SearchInv'
  OBVIOUS
<1>1. TypeOK /\ StampsOrder /\ Places
  BY DEF SearchInv
<1>2. CASE Next /\ Reorder
  <2>1. TypeOK' /\ StampsOrder'
    BY <1>1, <1>2, TypeStep, StampsStep
  <2>2. Places'
    BY <1>1, <1>2, <2>1, OneNewKey, ReorderKeeps
  <2> QED BY <2>1, <2>2 DEF SearchInv
<1>3. ASSUME NEW q \in Queries, Search(q), Reorder
      PROVE  SearchInv'
  <2>1. TypeOK' /\ StampsOrder' /\ Held' = LiveKeys
    BY <1>1, <1>3, SearchLeaves
  <2>2. \A k \in Keys : data[k] = NoValue => data'[k] = NoValue
    BY <2>1 DEF Held, LiveKeys
  <2>3. Places'
    BY <1>1, <1>3, <2>1, <2>2, ReorderKeeps
  <2> QED BY <2>1, <2>3 DEF SearchInv
<1>4. CASE UNCHANGED searchVars
  BY <1>1, <1>4 DEF SearchInv, searchVars, vars, TypeOK, StampsOrder, Places, Apart, Held, Timed, Stamped
<1> QED BY <1>2, <1>3, <1>4 DEF SearchNext

(* With the semantic search reading and stamping its rows, the store keeps  *)
(* its types and the order of its stamps, and the dict an order of its keys. *)
THEOREM SearchCorrect == SearchSpec => [](TypeOK /\ StampsOrder /\ Places)
<1>1. SearchInit => SearchInv
  BY StoreAssumption DEF SearchInit, Init, SearchInv, TypeOK, StampsOrder, Places, Apart, Held, Timed, Stamped
<1>2. SearchInv => TypeOK /\ StampsOrder /\ Places
  BY DEF SearchInv
<1> QED BY <1>1, <1>2, SearchStep, PTL DEF SearchSpec

(* However many searches stamp the rows in between, the key used last, by   *)
(* get, by set or as the last row of a search, survives the next set.       *)
THEOREM SearchSparesLastUsed == SearchSpec => LastUsedSurvives
BY LastUsedStep, SearchCorrect, PTL DEF LastUsedSurvives

(* The scanned and searched store is an evicting map too: what a search     *)
(* prunes was gone to every reader already.                                 *)
THEOREM SearchImplementsMap == SearchSpec => IsEvictingMap
<1>1. SearchInit => Map!Init
  BY StoreAssumption DEF SearchInit, Init, Map!Init, Expired
<1>2. TypeOK /\ Places /\ [SearchNext]_searchVars => [Map!Next]_<<Live, got>>
  <2> SUFFICES ASSUME TypeOK, Places, [SearchNext]_searchVars
               PROVE  [Map!Next]_<<Live, got>>
    OBVIOUS
  <2>1. CASE [Next]_vars
    BY <2>1, MapStep
  <2>2. ASSUME NEW q \in Queries, Search(q)
        PROVE  UNCHANGED <<Live, got>>
    BY <2>2, SearchLeaves
  <2> QED BY <2>1, <2>2 DEF SearchNext, searchVars
<1> QED
  BY <1>1, <1>2, SearchCorrect, PTL DEF SearchSpec, IsEvictingMap, Map!Spec, Live

-----------------------------------------------------------------------------
LEMMA LeastNatural ==
    ASSUME NEW S \in SUBSET Nat, S # {}
    PROVE  \E m \in S : \A i \in S : m <= i
<1> DEFINE less == {ij \in Nat \X Nat : ij[1] < ij[2]}
<1>1. IsWellFoundedOn(less, Nat)
  BY NatLessThanWellFounded DEF OpToRel
<1> HIDE DEF less
<1>2. PICK m \in S : \A i \in S : <<i, m>> \notin less
  BY Zenon, <1>1, WFMin
<1>3. ASSUME NEW i \in S
      PROVE  m <= i
  <2>1. i \in Nat /\ m \in Nat /\ <<i, m>> \notin less
    BY <1>2
  <2> QED BY <2>1 DEF less
<1> QED BY <1>3

(* The live rows are those that the loop goes through.                      *)
LEMMA RowsAreLive ==
    ASSUME TypeOK, Places
    PROVE  /\ Cardinality(LiveKeys) \in Nat
           /\ \A n \in 1..Cardinality(LiveKeys) :
                 Row(n) \in Values /\ \E k \in LiveKeys : Row(n) = data[k]
           /\ \A k \in LiveKeys : \E n \in 1..Cardinality(LiveKeys) : Row(n) = data[k]
<1> DEFINE N == Cardinality(LiveKeys)
<1>1. LiveKeys \in SUBSET Keys /\ Apart(LiveKeys)
  BY DEF LiveKeys, Held, Places, Apart
<1>2. IsFiniteSet(LiveKeys) /\ N \in Nat
  BY <1>1, FS_Subset, FS_CardinalityType, StoreAssumption
<1>3. /\ \A n \in 1..N : \E k \in LiveKeys : Rank(LiveKeys, k) = n
      /\ \A j, k \in LiveKeys : Rank(LiveKeys, j) = Rank(LiveKeys, k) => j = k
      /\ \A k \in LiveKeys : Rank(LiveKeys, k) \in 1..N
  BY <1>1, RankOrders, RankNumbers DEF Places
<1>4. \A k \in LiveKeys : data[k] \in Values
  BY DEF LiveKeys, Held, TypeOK
<1>5. ASSUME NEW k \in LiveKeys, NEW n, Rank(LiveKeys, k) = n
      PROVE  Row(n) = data[k]
  <2>1. (CHOOSE i \in LiveKeys : Rank(LiveKeys, i) = n) = k
    BY <1>3, <1>5
  <2> QED BY <2>1 DEF Row
<1>6. ASSUME NEW n \in 1..N
      PROVE  Row(n) \in Values /\ \E k \in LiveKeys : Row(n) = data[k]
  <2>1. PICK k \in LiveKeys : Rank(LiveKeys, k) = n
    BY <1>3
  <2> QED BY <1>4, <1>5, <2>1
<1>7. ASSUME NEW k \in LiveKeys
      PROVE  \E n \in 1..N : Row(n) = data[k]
  BY <1>3, <1>5
<1> QED BY <1>2, <1>6, <1>7

(* The loop is what its equation says.                                      *)
Turns(q, m, f) ==
    [n \in 0..m |-> IF n = 0 THEN [row |-> NoValue, score |-> 0] ELSE Better(q, f[n - 1], Row(n))]

LEMMA LoopTurns ==
    ASSUME NEW q, Cardinality(LiveKeys) \in Nat
    PROVE  Loop(q) = Turns(q, Cardinality(LiveKeys), Loop(q))
<1> DEFINE N == Cardinality(LiveKeys)
           S == {m \in 0..N : ~\E f : f = Turns(q, m, f)}
<1>1. S = {}
  <2> SUFFICES ASSUME S # {}
               PROVE  FALSE
    OBVIOUS
  <2>1. S \in SUBSET Nat
    OBVIOUS
  <2>2. PICK m \in S : \A i \in S : m <= i
    <3> HIDE DEF S
    <3> QED BY <2>1, LeastNatural
  <2>3. m \in 0..N /\ ~\E f : f = Turns(q, m, f)
    OBVIOUS
  <2>4. CASE m = 0
    <3> DEFINE g == [n \in 0..0 |-> [row |-> NoValue, score |-> 0]]
    <3>1. \A n \in 0..0 : n = 0
      OBVIOUS
    <3>2. g = Turns(q, 0, g)
      BY <3>1 DEF Turns
    <3> QED BY <2>3, <2>4, <3>2
  <2>5. CASE m # 0
    <3>1. m - 1 \in 0..N /\ m - 1 \notin S
      BY <2>2, <2>3, <2>5
    <3>2. PICK f : f = Turns(q, m - 1, f)
      BY <3>1
    <3> DEFINE g == [n \in 0..m |-> IF n = m THEN Better(q, f[m - 1], Row(m)) ELSE f[n]]
    <3>3. ASSUME NEW n \in 0..m
          PROVE  g[n] = IF n = 0 THEN [row |-> NoValue, score |-> 0]
                        ELSE Better(q, g[n - 1], Row(n))
      <4>1. CASE n = m
        <5>1. g[n] = Better(q, f[m - 1], Row(m)) /\ g[m - 1] = f[m - 1]
          BY <2>3, <2>5, <4>1
        <5> QED BY <2>5, <4>1, <5>1
      <4>2. CASE n # m
        <5>1. n \in 0..(m - 1)
          BY <2>3, <4>2
        <5>2. f[n] = IF n = 0 THEN [row |-> NoValue, score |-> 0] ELSE Better(q, f[n - 1], Row(n))
          BY <3>2, <5>1 DEF Turns
        <5>3. g[n] = f[n] /\ (n # 0 => g[n - 1] = f[n - 1])
          BY <2>3, <4>2, <5>1
        <5> QED BY <5>2, <5>3
      <4> QED BY <4>1, <4>2
    <3>4. g = Turns(q, m, g)
      <4>1. g = [n \in 0..m |-> g[n]]
        OBVIOUS
      <4> HIDE DEF g
      <4> QED BY <3>3, <4>1 DEF Turns
    <3> QED BY <2>3, <3>4
  <2> QED BY <2>4, <2>5
<1>2. \E f : f = Turns(q, N, f)
  BY <1>1
<1>3. Loop(q) = CHOOSE f : f = Turns(q, N, f)
  BY DEF Loop, Turns
<1> QED BY <1>2, <1>3

(* After n turns: best is one of the rows passed, accepted by the guard and *)
(* not of score 0, or it is nothing; and no row passed that the guard       *)
(* accepts has a higher score.                                              *)
BestOf(q, n, best) ==
    /\ best.score \in Nat
    /\ \/ best.row = NoValue /\ best.score = 0
       \/ \E i \in 1..n : /\ best.row = Row(i) /\ Row(i) \in Guard[q]
                         /\ best.score = Score[q][Row(i)] /\ best.score > 0
    /\ \A i \in 1..n : Row(i) \in Guard[q] => Score[q][Row(i)] <= best.score

LEMMA LoopFinds ==
    ASSUME TypeOK, Places, NEW q \in Queries
    PROVE  \A n \in 0..Cardinality(LiveKeys) : BestOf(q, n, Loop(q)[n])
<1> DEFINE N == Cardinality(LiveKeys)
           best == Loop(q)
           S == {n \in 0..N : ~BestOf(q, n, best[n])}
<1>1. N \in Nat /\ \A i \in 1..N : Row(i) \in Values
  BY RowsAreLive
<1>2. \A n \in 0..N : best[n] = IF n = 0 THEN [row |-> NoValue, score |-> 0]
                                ELSE Better(q, best[n - 1], Row(n))
  <2>1. best = Turns(q, N, best)
    BY <1>1, LoopTurns
  <2> HIDE DEF best
  <2> QED BY <2>1 DEF Turns
<1> HIDE DEF best
<1>3. BestOf(q, 0, best[0])
  BY <1>1, <1>2 DEF BestOf
<1>4. ASSUME NEW n \in 1..N, BestOf(q, n - 1, best[n - 1])
      PROVE  BestOf(q, n, best[n])
  <2> DEFINE old == best[n - 1]
             row == Row(n)
  <2>1. /\ n - 1 \in 0..N
        /\ \A i : i \in 1..n <=> i \in 1..(n - 1) \/ i = n
    BY <1>1
  <2>2. best[n] = Better(q, old, row)
    BY <1>1, <1>2
  <2>3. Score[q][row] \in Nat
    BY <1>1, SearchAssumption
  <2>4. BestOf(q, n - 1, old)
    BY <1>4
  <2>5. \A i \in 1..(n - 1) : Score[q][Row(i)] \in Nat
    BY <1>1, <2>1, SearchAssumption
  <2> HIDE DEF old
  <2>6. CASE Score[q][row] <= old.score \/ row \notin Guard[q]
    <3>1. best[n] = old
      BY <2>2, <2>6 DEF Better
    <3>2. old.score \in Nat /\ \A i \in 1..n : Row(i) \in Guard[q] => Score[q][Row(i)] <= old.score
      BY <2>1, <2>4, <2>6 DEF BestOf
    <3>3. \/ old.row = NoValue /\ old.score = 0
          \/ \E i \in 1..n : /\ old.row = Row(i) /\ Row(i) \in Guard[q]
                            /\ old.score = Score[q][Row(i)] /\ old.score > 0
      BY <2>1, <2>4 DEF BestOf
    <3> QED BY <3>1, <3>2, <3>3 DEF BestOf
  <2>7. CASE ~(Score[q][row] <= old.score) /\ row \in Guard[q]
    <3>1. best[n].row = row /\ best[n].score = Score[q][row]
      BY <2>2, <2>7 DEF Better
    <3>2. old.score \in Nat /\ Score[q][row] > old.score
      BY <2>3, <2>4, <2>7 DEF BestOf
    <3>3. \A i \in 1..n : Row(i) \in Guard[q] => Score[q][Row(i)] <= Score[q][row]
      BY <2>1, <2>3, <2>4, <2>5, <3>2 DEF BestOf
    <3>4. n \in 1..n
      OBVIOUS
    <3> QED BY <2>3, <2>7, <3>1, <3>2, <3>3, <3>4 DEF BestOf
  <2> QED BY <2>6, <2>7
<1>5. S = {}
  <2> SUFFICES ASSUME S # {}
               PROVE  FALSE
    OBVIOUS
  <2>1. S \in SUBSET Nat
    OBVIOUS
  <2>2. PICK m \in S : \A i \in S : m <= i
    <3> HIDE DEF S
    <3> QED BY <2>1, LeastNatural
  <2>3. m \in 0..N /\ ~BestOf(q, m, best[m])
    OBVIOUS
  <2>4. m \in 1..N /\ m - 1 \in 0..N
    BY <1>1, <1>3, <2>3
  <2>5. m - 1 \notin S
    BY <2>2, <2>4
  <2> QED BY <1>4, <2>3, <2>4, <2>5
<1> QED BY <1>5 DEF best

(* One pass of best_match over the live rows, in whatever order the dict    *)
(* has them, finds a best one of those the guard and the threshold admit,   *)
(* and nothing only where there is none (matcher.py:56-68).                 *)
THEOREM SearchFinds == SearchSpec => SearchFindsBest
<1>1. ASSUME TypeOK, Places, NEW q \in Queries, Search(q)
      PROVE  IF Fitting(q) = {} THEN found' = NoValue
             ELSE /\ found' \in Fitting(q)
                  /\ \A v \in Fitting(q) : Score[q][v] <= Score[q][found']
  <2> DEFINE N == Cardinality(LiveKeys)
             best == Loop(q)[N]
  <2>1. N \in Nat /\ BestOf(q, N, best)
    BY <1>1, RowsAreLive, LoopFinds
  <2>2. found' = IF best.score < Similar THEN NoValue ELSE best.row
    BY <1>1 DEF Search, BestMatch
  <2> HIDE DEF best
  <2>3. ASSUME NEW v \in Fitting(q)
        PROVE  /\ Score[q][v] <= best.score
               /\ Score[q][v] \in Nat /\ Score[q][v] >= Similar /\ Score[q][v] > 0
    <3>1. /\ v \in Guard[q] /\ v \in Values
          /\ Score[q][v] >= Similar /\ Score[q][v] > 0
      BY SearchAssumption DEF Fitting
    <3>2. PICK k \in LiveKeys : data[k] = v
      BY DEF Fitting
    <3>3. PICK i \in 1..N : Row(i) = data[k]
      BY <1>1, RowsAreLive
    <3>4. Score[q][v] <= best.score
      BY <2>1, <3>1, <3>2, <3>3 DEF BestOf
    <3>5. Score[q][v] \in Nat
      BY <3>1, SearchAssumption
    <3> QED BY <3>1, <3>4, <3>5
  <2>4. ASSUME best.score >= Similar, best.score > 0
        PROVE  best.row \in Fitting(q) /\ best.score = Score[q][best.row]
    <3>1. PICK i \in 1..N : /\ best.row = Row(i) /\ Row(i) \in Guard[q]
                            /\ best.score = Score[q][Row(i)]
      BY <2>1, <2>4 DEF BestOf
    <3>2. \E k \in LiveKeys : data[k] = Row(i)
      BY <1>1, RowsAreLive
    <3> QED BY <2>4, <3>1, <3>2 DEF Fitting
  <2>5. best.score \in Nat /\ Similar \in Nat
    BY <2>1, SearchAssumption DEF BestOf
  <2>6. CASE Fitting(q) = {}
    <3>1. ~(best.score >= Similar /\ best.score > 0)
      BY <2>4, <2>6
    <3>2. best.score > 0 \/ best.row = NoValue
      BY <2>1, <2>5 DEF BestOf
    <3> QED BY <2>2, <2>5, <2>6, <3>1, <3>2
  <2>7. CASE Fitting(q) # {}
    <3>1. PICK v \in Fitting(q) : TRUE
      BY <2>7
    <3>2. best.score >= Similar /\ best.score > 0
      BY <2>3, <2>5, <3>1
    <3>3. found' = best.row
      BY <2>2, <2>5, <3>2
    <3> QED BY <2>3, <2>4, <2>7, <3>2, <3>3
  <2> QED BY <2>6, <2>7
<1>2. TypeOK /\ Places =>
        [\A q \in Queries : Search(q) =>
           IF Fitting(q) = {} THEN found' = NoValue
           ELSE /\ found' \in Fitting(q)
                /\ \A v \in Fitting(q) : Score[q][v] <= Score[q][found']]_searchVars
  BY <1>1
<1> QED BY <1>2, SearchCorrect, PTL DEF SearchFindsBest
=============================================================================
