--------------------------- MODULE MemtableProofs ---------------------------
(* Theorems about Memtable for every set of keys, values and vectors, every   *)
(* dimension and every bound, and the lemmas they rest on about the ranking   *)
(* of knn and the counting of bytes.                                          *)
EXTENDS Memtable, FiniteSetTheorems, TLAPS

(* The comparator of knn is a strict total order on the candidates once no    *)
(* distance is NaN: ties are broken by the doc id.                            *)
LEMMA BeforeIsOrder ==
  ASSUME NEW dist, DOMAIN dist \subseteq Nat, \A i \in DOMAIN dist : dist[i] \in Int
  PROVE  /\ \A i \in DOMAIN dist : ~Before(dist, i, i)
         /\ \A i, j \in DOMAIN dist : i # j => Before(dist, i, j) \/ Before(dist, j, i)
         /\ \A i, j, l \in DOMAIN dist :
              Before(dist, i, j) /\ Before(dist, j, l) => Before(dist, i, l)
BY DEF Before

(* Counting predecessors numbers the candidates 0, 1, .., n - 1 in that       *)
(* order, each number once.                                                   *)
LEMMA PositionIsRank ==
  ASSUME NEW dist, DOMAIN dist \subseteq Nat, \A i \in DOMAIN dist : dist[i] \in Int,
         IsFiniteSet(DOMAIN dist)
  PROVE  LET n == Cardinality(DOMAIN dist) IN
         /\ n \in Nat
         /\ \A i \in DOMAIN dist : Position(dist, i) \in 0 .. n - 1
         /\ \A i, j \in DOMAIN dist :
              Before(dist, i, j) <=> Position(dist, i) < Position(dist, j)
         /\ \A m \in 0 .. n - 1 : \E i \in DOMAIN dist : Position(dist, i) = m
<1> DEFINE D == DOMAIN dist
           n == Cardinality(D)
           f == [i \in D |-> Position(dist, i)]
<1>1. n \in Nat
  BY FS_CardinalityType
<1>2. ASSUME NEW i \in D PROVE /\ IsFiniteSet(Predecessors(dist, i))
                               /\ Position(dist, i) \in 0 .. n - 1
  <2>1. Predecessors(dist, i) \in SUBSET D /\ i \notin Predecessors(dist, i)
    BY BeforeIsOrder DEF Predecessors
  <2>2. /\ IsFiniteSet(Predecessors(dist, i))
        /\ Position(dist, i) <= n
        /\ n # Position(dist, i)
    BY <2>1, FS_Subset DEF Position
  <2>3. Position(dist, i) \in Nat
    BY <2>2, FS_CardinalityType DEF Position
  <2> QED
    BY <1>1, <2>2, <2>3
<1>3. ASSUME NEW i \in D, NEW j \in D, Before(dist, i, j)
      PROVE  Position(dist, i) < Position(dist, j)
  <2>1. /\ Predecessors(dist, i) \in SUBSET Predecessors(dist, j)
        /\ i \in Predecessors(dist, j) /\ i \notin Predecessors(dist, i)
    BY <1>3, BeforeIsOrder DEF Predecessors
  <2>2. /\ Position(dist, i) <= Position(dist, j)
        /\ Position(dist, j) # Position(dist, i)
    BY <1>2, <2>1, FS_Subset DEF Position
  <2> QED
    BY <1>1, <1>2, <2>2
<1>4. \A i, j \in D : Before(dist, i, j) <=> Position(dist, i) < Position(dist, j)
  <2> SUFFICES ASSUME NEW i \in D, NEW j \in D
               PROVE  Before(dist, i, j) <=> Position(dist, i) < Position(dist, j)
    OBVIOUS
  <2>1. i = j \/ Before(dist, i, j) \/ Before(dist, j, i)
    BY BeforeIsOrder
  <2>2. ~Before(dist, i, i)
    BY BeforeIsOrder
  <2> QED
    BY <1>1, <1>2, <1>3, <2>1, <2>2
<1>5. \A m \in 0 .. n - 1 : \E i \in D : Position(dist, i) = m
  <2>1. \A i, j \in D : i # j => f[i] # f[j]
    BY <1>1, <1>2, <1>3, BeforeIsOrder
  <2>2. f \in Injection(D, 0 .. n - 1)
    BY <1>2, <2>1 DEF Injection, IsInjective
  <2>3. IsFiniteSet(0 .. n - 1) /\ Cardinality(0 .. n - 1) = n
    BY <1>1, FS_Interval
  <2>4. f \in Surjection(D, 0 .. n - 1)
    BY <2>2, <2>3, FS_Injection
  <2> QED
    BY <2>4 DEF Surjection
<1> QED
  BY <1>1, <1>2, <1>4, <1>5

(* In ascending order a finite set of numbers is listed whole, each once.     *)
LEMMA AscendingIsOrder ==
  ASSUME NEW S, S \subseteq Nat, IsFiniteSet(S)
  PROVE  /\ Cardinality(S) \in Nat
         /\ DOMAIN Ascending(S) = 1 .. Cardinality(S)
         /\ \A i \in 1 .. Cardinality(S) : Ascending(S)[i] \in S
         /\ \A i, j \in 1 .. Cardinality(S) : i < j => Ascending(S)[i] < Ascending(S)[j]
         /\ \A x \in S : \E i \in 1 .. Cardinality(S) : Ascending(S)[i] = x
<1> DEFINE dist == [x \in S |-> 0]
           n    == Cardinality(S)
           rank(x) == Cardinality({y \in S : y < x})
           list == Ascending(S)
<1>1. \A x \in S : Position(dist, x) = rank(x)
  BY DEF Position, Predecessors, Before
<1>2. \A x, y \in S : Before(dist, x, y) <=> x < y
  BY DEF Before
<1>3. DOMAIN dist = S /\ \A x \in S : dist[x] \in Int
  OBVIOUS
<1>4. DOMAIN list = 1 .. n /\ \A i \in 1 .. n : list[i] = CHOOSE x \in S : rank(x) = i - 1
  BY DEF Ascending
<1> HIDE DEF dist, rank, list
<1>5. /\ n \in Nat
      /\ \A x \in S : rank(x) \in 0 .. n - 1
      /\ \A x, y \in S : x < y <=> rank(x) < rank(y)
      /\ \A m \in 0 .. n - 1 : \E x \in S : rank(x) = m
  <2>1. /\ n \in Nat
        /\ \A x \in S : Position(dist, x) \in 0 .. n - 1
        /\ \A x, y \in S : Before(dist, x, y) <=> Position(dist, x) < Position(dist, y)
        /\ \A m \in 0 .. n - 1 : \E x \in S : Position(dist, x) = m
    BY <1>3, PositionIsRank
  <2> QED
    BY <1>1, <1>2, <2>1
<1> HIDE DEF n
<1>6. \A i \in 1 .. n : list[i] \in S /\ rank(list[i]) = i - 1
  <2> SUFFICES ASSUME NEW i \in 1 .. n PROVE list[i] \in S /\ rank(list[i]) = i - 1
    OBVIOUS
  <2>1. \E x \in S : rank(x) = i - 1
    BY <1>5
  <2> QED
    BY <1>4, <2>1
<1>7. \A x \in S : \E i \in 1 .. n : list[i] = x
  <2> SUFFICES ASSUME NEW x \in S PROVE \E i \in 1 .. n : list[i] = x
    OBVIOUS
  <2>1. rank(x) + 1 \in 1 .. n
    BY <1>5
  <2>2. list[rank(x) + 1] \in S /\ rank(list[rank(x) + 1]) = rank(x)
    BY <1>5, <1>6, <2>1
  <2> DEFINE y == list[rank(x) + 1]
  <2> HIDE DEF y
  <2>3. y \in S /\ rank(y) = rank(x) /\ rank(x) \in Nat
    BY <1>5, <2>2 DEF y
  <2>4. ~(y < x) /\ ~(x < y)
    BY <1>5, <2>3
  <2>5. x \in Nat /\ y \in Nat
    BY <2>3
  <2>6. y = x
    BY <2>4, <2>5
  <2> QED
    BY <2>1, <2>6 DEF y
<1>8. \A i, j \in 1 .. n : i < j => list[i] < list[j]
  <2> SUFFICES ASSUME NEW i \in 1 .. n, NEW j \in 1 .. n, i < j PROVE list[i] < list[j]
    OBVIOUS
  <2>1. list[i] \in S /\ list[j] \in S /\ rank(list[i]) = i - 1 /\ rank(list[j]) = j - 1
    BY <1>6
  <2>2. rank(list[i]) < rank(list[j])
    BY <1>5, <2>1
  <2> QED
    BY <1>5, <2>1, <2>2
<1> QED
  BY <1>4, <1>5, <1>6, <1>7, <1>8 DEF n, list

(* So sort_by and truncate return distinct candidates, nearest first, and     *)
(* leave out none that is nearer.                                             *)
LEMMA RankedIsNearest ==
  ASSUME NEW dist, DOMAIN dist \subseteq Nat, \A i \in DOMAIN dist : dist[i] \in Int,
         IsFiniteSet(DOMAIN dist), NEW k \in Nat
  PROVE  /\ Ranked(dist, k) \in AnyCandidates(dist, k)
         /\ NearestFirst(Ranked(dist, k), dist, k)
<1> DEFINE D   == DOMAIN dist
           n   == Cardinality(D)
           len == Lesser(k, n)
           ids == Ranked(dist, k)
<1>1. /\ n \in Nat
      /\ \A i \in D : Position(dist, i) \in 0 .. n - 1
      /\ \A i, j \in D : Before(dist, i, j) <=> Position(dist, i) < Position(dist, j)
      /\ \A m \in 0 .. n - 1 : \E i \in D : Position(dist, i) = m
  BY PositionIsRank
<1>2. len \in Nat /\ len <= n
  BY <1>1 DEF Lesser
<1>3. DOMAIN ids = 1 .. len
  BY DEF Ranked
<1>4. \A m \in 1 .. len : ids[m] \in D /\ Position(dist, ids[m]) = m - 1
  <2> SUFFICES ASSUME NEW m \in 1 .. len
               PROVE  ids[m] \in D /\ Position(dist, ids[m]) = m - 1
    OBVIOUS
  <2>1. m - 1 \in 0 .. n - 1
    BY <1>1, <1>2
  <2>2. \E i \in D : Position(dist, i) = m - 1
    BY <1>1, <2>1
  <2>3. ids[m] = CHOOSE i \in D : Position(dist, i) = m - 1
    BY DEF Ranked
  <2> HIDE DEF ids
  <2> QED
    BY <2>2, <2>3
<1>5. \A l, m \in 1 .. len : l < m => ids[l] # ids[m] /\ Before(dist, ids[l], ids[m])
  <2> HIDE DEF ids, len, n
  <2> QED
    BY <1>1, <1>2, <1>4
<1>6. \A i, j \in D : Before(dist, i, j) => dist[i] <= dist[j]
  BY DEF Before
<1>7. ids \in AnyCandidates(dist, k)
  <2>1. ids \in [1 .. len -> D]
    BY <1>4 DEF Ranked
  <2>2. \A l, m \in DOMAIN ids : l # m => ids[l] # ids[m]
    <3> HIDE DEF ids, len
    <3> QED
      BY <1>2, <1>3, <1>5
  <2> QED
    BY <2>1, <2>2 DEF AnyCandidates
<1>8. \A m \in 1 .. len, i \in D : (\A l \in 1 .. len : ids[l] # i) => dist[ids[m]] <= dist[i]
  <2> SUFFICES ASSUME NEW m \in 1 .. len, NEW i \in D, \A l \in 1 .. len : ids[l] # i
               PROVE  dist[ids[m]] <= dist[i]
    OBVIOUS
  <2> HIDE DEF ids
  <2>1. Position(dist, i) >= len
    <3> SUFFICES ASSUME Position(dist, i) < len PROVE FALSE
      BY <1>1, <1>2
    <3> DEFINE l == Position(dist, i) + 1
    <3>1. l \in 1 .. len /\ ids[l] \in D /\ Position(dist, ids[l]) = Position(dist, i)
      BY <1>1, <1>2, <1>4
    <3>2. ids[l] = i \/ Before(dist, ids[l], i) \/ Before(dist, i, ids[l])
      BY <3>1, BeforeIsOrder
    <3> QED
      BY <1>1, <3>1, <3>2
  <2>2. Before(dist, ids[m], i)
    BY <1>1, <1>2, <1>4, <2>1
  <2> QED
    BY <1>4, <1>6, <2>2
<1>9. NearestFirst(ids, dist, k)
  <2> HIDE DEF ids
  <2> QED
    BY <1>3, <1>4, <1>5, <1>6, <1>8 DEF NearestFirst
<1> QED
  BY <1>7, <1>9

-----------------------------------------------------------------------------
(* Giving one owner n bytes, whatever it had before, adds at most n bytes.    *)
LEMMA BytesGrow ==
  ASSUME NEW f, NEW g, NEW x, NEW n \in Nat, IsFiniteSet(Bytes(f)),
         DOMAIN g \subseteq DOMAIN f \cup {x},
         \A y \in DOMAIN g : g[y] = IF y = x THEN n ELSE f[y]
  PROVE  /\ IsFiniteSet(Bytes(g))
         /\ Cardinality(Bytes(g)) <= Cardinality(Bytes(f)) + n
<1> DEFINE new == {x} \X (1 .. n)
<1>1. IsFiniteSet(new) /\ Cardinality(new) = n
  <2>1. IsFiniteSet({x}) /\ Cardinality({x}) = 1
    BY FS_Singleton
  <2>2. IsFiniteSet(1 .. n) /\ Cardinality(1 .. n) = n
    BY FS_Interval
  <2>3. IsFiniteSet(new) /\ Cardinality(new) = Cardinality({x}) * Cardinality(1 .. n)
    BY <2>1, <2>2, FS_Product
  <2>4. Cardinality(new) = 1 * n
    BY <2>1, <2>2, <2>3
  <2> QED
    BY <2>3, <2>4
<1>2. Bytes(g) \in SUBSET (Bytes(f) \cup new)
  BY DEF Bytes
<1> HIDE DEF new
<1>3. /\ IsFiniteSet(Bytes(f) \cup new) /\ IsFiniteSet(Bytes(f) \cap new)
      /\ Cardinality(Bytes(f) \cup new)
           = Cardinality(Bytes(f)) + n - Cardinality(Bytes(f) \cap new)
  BY <1>1, FS_Union, FS_Intersection
<1>4. /\ IsFiniteSet(Bytes(g))
      /\ Cardinality(Bytes(g)) <= Cardinality(Bytes(f) \cup new)
  BY <1>2, <1>3, FS_Subset
<1>5. /\ Cardinality(Bytes(f)) \in Nat /\ Cardinality(Bytes(f) \cap new) \in Nat
      /\ Cardinality(Bytes(g)) \in Nat
  BY <1>3, <1>4, FS_CardinalityType
<1> QED
  BY <1>3, <1>4, <1>5

(* Dropping owners adds no byte.                                              *)
LEMMA BytesShrink ==
  ASSUME NEW f, NEW g, IsFiniteSet(Bytes(f)), DOMAIN g \subseteq DOMAIN f,
         \A y \in DOMAIN g : g[y] = f[y]
  PROVE  /\ IsFiniteSet(Bytes(g))
         /\ Cardinality(Bytes(g)) <= Cardinality(Bytes(f))
<1>1. Bytes(g) \in SUBSET Bytes(f)
  BY DEF Bytes
<1> QED
  BY <1>1, FS_Subset

-----------------------------------------------------------------------------
(* The inductive invariant: the side-table holds exactly the doc ids of the   *)
(* live vectored slots, no two slots share an id, and the counter is ahead.   *)
IInv == TypeOK /\ FlushNeverPanics /\ OnlyLiveVectors /\ OneRowPerDocId

(* A memtable that was just opened satisfies the inductive invariant.         *)
LEMMA InitIInv == Init => IInv
<1> SUFFICES ASSUME Init PROVE IInv
  OBVIOUS
<1>1. DOMAIN map = {} /\ DOMAIN vectors = {}
  BY DEF Init, EmptyMap
<1>2. TypeOK
  BY <1>1, FirstDocIdAssumption DEF Init, TypeOK, EmptyMap
<1>3. Vectored(map) = {}
  BY <1>1 DEF Vectored, Live
<1> QED
  BY <1>1, <1>2, <1>3 DEF IInv, FlushNeverPanics, OnlyLiveVectors, OneRowPerDocId

(* After map.insert(key, slot) the vectored keys are those of before, less    *)
(* the key, plus the key when its new slot has a doc id.                      *)
LEMMA VectoredAfterInsert ==
  ASSUME NEW m, NEW key, NEW slot
  PROVE  /\ DOMAIN MapInsert(m, key, slot) = DOMAIN m \cup {key}
         /\ MapInsert(m, key, slot)[key] = slot
         /\ \A k \in DOMAIN m : k # key => MapInsert(m, key, slot)[k] = m[k]
         /\ \A k : k # key => (k \in Vectored(MapInsert(m, key, slot)) <=> k \in Vectored(m))
         /\ key \in Vectored(MapInsert(m, key, slot))
              <=> slot.kind = "put" /\ slot.doc_id # NoDocId
BY DEF MapInsert, Vectored, Live

(* put gives the new version the next id, which no row has, and retires the   *)
(* vector of the version it displaces.                                        *)
LEMMA PutIInv ==
  ASSUME IInv, NEW key \in Keys, NEW value \in Values,
         NEW vector \in Vectors \cup {NoVector}, Put(key, value, vector)
  PROVE  IInv'
<1> DEFINE id   == IF vector = NoVector THEN NoDocId ELSE next_doc_id
           slot == PutSlot(value, id)
           side == IF vector = NoVector THEN vectors ELSE MapInsert(vectors, id, vector)
<1>1. /\ map' = MapInsert(map, key, slot)
      /\ vectors' = DropDisplaced(side, key)
      /\ next_doc_id' = IF vector = NoVector THEN next_doc_id ELSE next_doc_id + 1
      /\ vector \in Accepted
  BY DEF Put, NextId
<1>2. slot \in Slot /\ slot.kind = "put" /\ slot.doc_id = id /\ id \in DocIds
  BY DEF PutSlot, Slot, DocIds, IInv, TypeOK
<1>3. /\ DOMAIN map' = DOMAIN map \cup {key}
      /\ map'[key] = slot
      /\ \A k \in DOMAIN map : k # key => map'[k] = map[k]
      /\ \A k : k # key => (k \in Vectored(map') <=> k \in Vectored(map))
      /\ key \in Vectored(map') <=> id # NoDocId
  <2> HIDE DEF id, slot, side
  <2>1. /\ DOMAIN MapInsert(map, key, slot) = DOMAIN map \cup {key}
        /\ MapInsert(map, key, slot)[key] = slot
        /\ \A k \in DOMAIN map : k # key => MapInsert(map, key, slot)[k] = map[k]
        /\ \A k : k # key => (k \in Vectored(MapInsert(map, key, slot)) <=> k \in Vectored(map))
        /\ key \in Vectored(MapInsert(map, key, slot))
             <=> slot.kind = "put" /\ slot.doc_id # NoDocId
    BY VectoredAfterInsert
  <2> QED
    BY <1>1, <1>2, <2>1
<1>4. /\ DOMAIN side = IF vector = NoVector THEN DOMAIN vectors
                                             ELSE DOMAIN vectors \cup {id}
      /\ DOMAIN vectors' = DOMAIN side \ Displaced(key)
      /\ \A i \in DOMAIN vectors' : vectors'[i] = side[i]
      /\ \A i \in DOMAIN side : side[i] = IF i = id /\ vector # NoVector THEN vector ELSE vectors[i]
  BY <1>1, <1>2 DEF DropDisplaced, MapInsert
<1>5. \A i \in Displaced(key) : i < next_doc_id /\ key \in Vectored(map) /\ i = map[key].doc_id
  BY DEF IInv, OneRowPerDocId, Displaced
<1>6. \A i \in DOMAIN vectors : i < next_doc_id
  BY DEF IInv, OneRowPerDocId, OnlyLiveVectors
<1>7. TypeOK'
  <2>1. DOMAIN map' \subseteq Keys /\ map' \in [DOMAIN map' -> Slot]
    BY <1>1, <1>2, <1>3 DEF IInv, TypeOK, MapInsert
  <2>2. DOMAIN vectors' \subseteq Nat
    BY <1>4, <1>2 DEF IInv, TypeOK, DocIds
  <2>3. \A i \in DOMAIN side : side[i] \in {v \in Vectors : DimOK(v)}
    BY <1>1, <1>4, VectorsAssumption DEF IInv, TypeOK, Accepted
  <2>4. vectors' \in [DOMAIN vectors' -> {v \in Vectors : DimOK(v)}]
    BY <1>1, <1>4, <2>3 DEF DropDisplaced
  <2>5. next_doc_id' \in Nat
    BY <1>1 DEF IInv, TypeOK
  <2>6. approx_bytes' \in Nat
    <3>1. vector # NoVector => VecDim[vector] \in Nat
      BY DimAssumption
    <3>2. PutCharge(key, value, vector) \in Nat
      BY <3>1, BytesAssumption DEF PutCharge, ENTRY_OVERHEAD, F32_BYTES
    <3> QED
      BY <3>2 DEF Put, Charge, IInv, TypeOK
  <2> QED
    BY <2>1, <2>2, <2>4, <2>5, <2>6 DEF TypeOK, DimOK
<1>8. FlushNeverPanics'
  <2> SUFFICES ASSUME NEW k \in Vectored(map') PROVE map'[k].doc_id \in DOMAIN vectors'
    BY DEF FlushNeverPanics
  <2>1. CASE k = key
    BY <2>1, <1>2, <1>3, <1>4, <1>5 DEF IInv, TypeOK, NoDocId
  <2>2. CASE k # key
    <3>1. k \in Vectored(map) /\ map'[k] = map[k]
      BY <2>2, <1>3 DEF Vectored, Live
    <3>2. map[k].doc_id \in DOMAIN vectors
      BY <3>1 DEF IInv, FlushNeverPanics
    <3>3. map[k].doc_id \notin Displaced(key)
      BY <2>2, <3>1, <1>5 DEF IInv, OneRowPerDocId
    <3> QED
      BY <3>1, <3>2, <3>3, <1>4
  <2> QED
    BY <2>1, <2>2
<1>9. OnlyLiveVectors'
  <2> SUFFICES ASSUME NEW i \in DOMAIN vectors'
               PROVE  \E k \in Vectored(map') : map'[k].doc_id = i
    BY DEF OnlyLiveVectors
  <2>1. CASE vector # NoVector /\ i = id
    BY <2>1, <1>2, <1>3 DEF IInv, TypeOK, NoDocId
  <2>2. CASE i \in DOMAIN vectors
    <3>1. PICK k \in Vectored(map) : map[k].doc_id = i
      BY <2>2 DEF IInv, OnlyLiveVectors
    <3>2. k # key
      BY <3>1, <1>4 DEF Displaced
    <3> QED
      BY <3>1, <3>2, <1>3 DEF Vectored, Live
  <2> QED
    BY <2>1, <2>2, <1>4
<1>10. OneRowPerDocId'
  <2>1. \A k \in Vectored(map') :
          \/ k = key /\ vector # NoVector /\ map'[k].doc_id = next_doc_id
          \/ k # key /\ k \in Vectored(map) /\ map'[k].doc_id = map[k].doc_id
    BY <1>2, <1>3 DEF Vectored, Live
  <2>2. next_doc_id \in Nat /\ next_doc_id' \in Nat /\ next_doc_id' >= next_doc_id
        /\ (vector # NoVector => next_doc_id' = next_doc_id + 1)
    BY <1>1 DEF IInv, TypeOK
  <2>3. \A k \in Vectored(map) : map[k].doc_id \in Nat /\ map[k].doc_id < next_doc_id
    BY <1>6 DEF IInv, OneRowPerDocId, FlushNeverPanics, TypeOK
  <2>4. \A k \in Vectored(map') : map'[k].doc_id < next_doc_id'
    <3> SUFFICES ASSUME NEW k \in Vectored(map') PROVE map'[k].doc_id < next_doc_id'
      OBVIOUS
    <3>1. CASE vector # NoVector /\ map'[k].doc_id = next_doc_id
      BY <3>1, <2>2
    <3>2. CASE k \in Vectored(map) /\ map'[k].doc_id = map[k].doc_id
      BY <3>2, <2>2, <2>3
    <3> QED
      BY <3>1, <3>2, <2>1
  <2>5. \A j, k \in Vectored(map') : map'[j].doc_id = map'[k].doc_id => j = k
    BY <2>1, <2>2, <2>3 DEF IInv, OneRowPerDocId
  <2> QED
    BY <2>4, <2>5 DEF OneRowPerDocId
<1> QED
  BY <1>7, <1>8, <1>9, <1>10 DEF IInv

(* delete retires the vector of the version it displaces.                     *)
LEMMA DeleteIInv ==
  ASSUME IInv, NEW key \in Keys, Delete(key)
  PROVE  IInv'
<1>1. /\ map' = MapInsert(map, key, Tombstone)
      /\ vectors' = DropDisplaced(vectors, key)
      /\ next_doc_id' = next_doc_id
  BY DEF Delete
<1>2. Tombstone \in Slot /\ Tombstone.kind # "put"
  BY DEF Tombstone, Slot
<1>3. /\ DOMAIN map' = DOMAIN map \cup {key}
      /\ \A k : k \in Vectored(map') <=> k # key /\ k \in Vectored(map)
      /\ \A k \in DOMAIN map : k # key => map'[k] = map[k]
  <2> DEFINE slot == Tombstone
  <2>1. slot.kind # "put" /\ map' = MapInsert(map, key, slot)
    BY <1>1, <1>2
  <2> HIDE DEF slot
  <2>2. /\ DOMAIN MapInsert(map, key, slot) = DOMAIN map \cup {key}
        /\ MapInsert(map, key, slot)[key] = slot
        /\ \A k \in DOMAIN map : k # key => MapInsert(map, key, slot)[k] = map[k]
        /\ \A k : k # key => (k \in Vectored(MapInsert(map, key, slot)) <=> k \in Vectored(map))
        /\ key \in Vectored(MapInsert(map, key, slot))
             <=> slot.kind = "put" /\ slot.doc_id # NoDocId
    BY VectoredAfterInsert
  <2> QED
    BY <2>1, <2>2
<1>4. /\ DOMAIN vectors' = DOMAIN vectors \ Displaced(key)
      /\ \A i \in DOMAIN vectors' : vectors'[i] = vectors[i]
  BY <1>1 DEF DropDisplaced
<1>5. \A i \in Displaced(key) : key \in Vectored(map) /\ i = map[key].doc_id
  BY DEF Displaced
<1>6. TypeOK'
  <2>1. DOMAIN map' \subseteq Keys /\ map' \in [DOMAIN map' -> Slot]
    BY <1>1, <1>2 DEF IInv, TypeOK, MapInsert
  <2>2. DOMAIN vectors' \subseteq Nat /\ vectors' \in [DOMAIN vectors' -> {v \in Vectors : DimOK(v)}]
    BY <1>1 DEF IInv, TypeOK, DropDisplaced
  <2>3. DeleteCharge(key) \in Nat
    BY BytesAssumption DEF DeleteCharge, ENTRY_OVERHEAD
  <2>4. approx_bytes' \in Nat
    BY <2>3 DEF Delete, Charge, IInv, TypeOK
  <2> QED
    BY <1>1, <2>1, <2>2, <2>4 DEF IInv, TypeOK, DimOK
<1>7. FlushNeverPanics'
  BY <1>3, <1>4, <1>5 DEF IInv, FlushNeverPanics, OneRowPerDocId, Vectored, Live
<1>8. OnlyLiveVectors'
  BY <1>3, <1>4 DEF IInv, OnlyLiveVectors, Displaced, Vectored, Live
<1>9. OneRowPerDocId'
  BY <1>1, <1>3 DEF IInv, OneRowPerDocId, Vectored, Live
<1> QED
  BY <1>6, <1>7, <1>8, <1>9 DEF IInv

(* Calls that only answer keep the inductive invariant.                       *)
LEMMA UnchangedIInv ==
  ASSUME IInv, UNCHANGED memvars
  PROVE  IInv'
BY DEF IInv, TypeOK, FlushNeverPanics, OnlyLiveVectors, OneRowPerDocId,
       memvars, Vectored, Live, DimOK

(* Every call keeps the inductive invariant.                                  *)
LEMMA NextIInv ==
  ASSUME IInv, [Next]_vars
  PROVE  IInv'
<1>1. ASSUME NEW key \in Keys, NEW value \in Values,
             NEW vector \in Vectors \cup {NoVector}, Put(key, value, vector)
      PROVE  IInv'
  BY <1>1, PutIInv
<1>2. ASSUME NEW key \in Keys, Delete(key) PROVE IInv'
  BY <1>2, DeleteIInv
<1>3. CASE UNCHANGED memvars
  BY <1>3, UnchangedIInv
<1>4. CASE UNCHANGED vars
  BY <1>3, <1>4 DEF vars
<1> QED
  BY <1>1, <1>2, <1>3, <1>4 DEF Next, DimMismatch, Get, Scan, Knn

(* The side-table invariant: in every reachable state the side-table holds    *)
(* exactly the vectors of the live rows, under ids no two rows share.         *)
THEOREM SideTableInvariant == Spec => []IInv
<1>1. Init => IInv
  BY InitIInv
<1>2. IInv /\ [Next]_vars => IInv'
  BY NextIInv
<1> QED
  BY <1>1, <1>2, PTL DEF Spec

(* Type correctness of the memtable.                                          *)
THEOREM TypeCorrect == Spec => []TypeOK
<1>1. IInv => TypeOK
  BY DEF IInv
<1> QED
  BY <1>1, SideTableInvariant, PTL

(* iter_for_flush never panics, for every instance.                           *)
THEOREM FlushSafe == Spec => []FlushNeverPanics
<1>1. IInv => FlushNeverPanics
  BY DEF IInv
<1> QED
  BY <1>1, SideTableInvariant, PTL

(* knn only ever ranks vectors of live rows, for every instance.              *)
THEOREM KnnSeesLiveOnly == Spec => []OnlyLiveVectors
<1>1. IInv => OnlyLiveVectors
  BY DEF IInv
<1> QED
  BY <1>1, SideTableInvariant, PTL

(* The map is well typed, no two live rows share a doc id, and the counter is *)
(* ahead of all of them.                                                      *)
THEOREM DocIdsDistinct == Spec => []WellFormed
<1>1. IInv => WellFormed
  BY DEF IInv, WellFormed
<1> QED
  BY <1>1, SideTableInvariant, PTL

(* A doc id that is no longer live never becomes live again: only the id the  *)
(* counter gives out in this very call may appear in the side-table.          *)
THEOREM NoDocIdReuse == Spec => DocIdsNeverReused
<1>1. TypeOK /\ [Next]_vars => [NeverReused]_vars
  <2> SUFFICES ASSUME TypeOK, [Next]_vars PROVE NeverReused \/ UNCHANGED vars
    OBVIOUS
  <2>1. ASSUME NEW key \in Keys, NEW value \in Values,
               NEW vector \in Vectors \cup {NoVector}, Put(key, value, vector)
        PROVE  NeverReused
    <3>1. CASE vector = NoVector
      BY <2>1, <3>1 DEF Put, NextId, NeverReused, DropDisplaced, TypeOK
    <3>2. CASE vector # NoVector
      <4>1. /\ next_doc_id' = next_doc_id + 1
            /\ vectors' = DropDisplaced(MapInsert(vectors, next_doc_id, vector), key)
        BY <2>1, <3>2 DEF Put, NextId
      <4>2. DOMAIN vectors' \subseteq DOMAIN vectors \cup {next_doc_id}
        BY <4>1 DEF DropDisplaced, MapInsert
      <4> QED
        BY <4>1, <4>2 DEF NeverReused, TypeOK
    <3> QED
      BY <3>1, <3>2
  <2>2. ASSUME NEW key \in Keys, Delete(key) PROVE NeverReused
    BY <2>2 DEF Delete, NeverReused, DropDisplaced, TypeOK
  <2>3. CASE UNCHANGED memvars
    BY <2>3 DEF memvars, NeverReused, TypeOK
  <2> QED
    BY <2>1, <2>2, <2>3 DEF Next, DimMismatch, Get, Scan, Knn
<1> QED
  BY <1>1, TypeCorrect, PTL DEF Spec, DocIdsNeverReused

-----------------------------------------------------------------------------
(* The side-table is finite besides: knn counts its candidates.               *)
FiniteIInv == IInv /\ IsFiniteSet(DOMAIN vectors)

(* The side-table is finite, so that its candidates can be ranked: at first   *)
(* ...                                                                        *)
LEMMA InitFinite == Init => IsFiniteSet(DOMAIN vectors)
BY FS_EmptySet DEF Init, EmptyMap

(* ... and after every call.                                                  *)
LEMMA NextFinite ==
  ASSUME IsFiniteSet(DOMAIN vectors), [Next]_vars
  PROVE  IsFiniteSet(DOMAIN vectors')
<1>1. ASSUME NEW key \in Keys, NEW value \in Values,
             NEW vector \in Vectors \cup {NoVector}, Put(key, value, vector)
      PROVE  DOMAIN vectors' \subseteq DOMAIN vectors \cup {next_doc_id}
  BY <1>1 DEF Put, DropDisplaced, MapInsert
<1>2. ASSUME NEW key \in Keys, Delete(key)
      PROVE  DOMAIN vectors' \subseteq DOMAIN vectors \cup {next_doc_id}
  BY <1>2 DEF Delete, DropDisplaced
<1>3. DOMAIN vectors' \subseteq DOMAIN vectors \cup {next_doc_id}
  BY <1>1, <1>2 DEF Next, DimMismatch, Get, Scan, Knn, vars, memvars
<1>4. IsFiniteSet(DOMAIN vectors \cup {next_doc_id})
  BY FS_AddElement
<1> QED
  BY <1>3, <1>4, FS_Subset

(* A live row of the contract is a live slot with its vector.                 *)
RowOf(k) ==
  [value |-> map[k].value, doc_id |-> map[k].doc_id,
   vector |-> IF map[k].doc_id # NoDocId THEN vectors[map[k].doc_id] ELSE NoVector]

(* The rows the contract is about, one by one.                                *)
LEMMA LiveRowsAreRows == LiveRows = [k \in Live(map) |-> RowOf(k)]
BY DEF LiveRows, RowOf, FlushEntry, Vectored

(* A put replaces the live row of its key and touches no other row: the       *)
(* vector it retires belongs to the displaced version alone.                  *)
LEMMA PutRefines ==
  ASSUME IInv, NEW key \in Keys, NEW value \in Values,
         NEW vector \in Vectors \cup {NoVector}, Put(key, value, vector)
  PROVE  Contract!Put(key, value, vector)
<1> DEFINE id   == IF vector = NoVector THEN NoDocId ELSE next_doc_id
           slot == PutSlot(value, id)
           side == IF vector = NoVector THEN vectors ELSE MapInsert(vectors, id, vector)
           row  == [value |-> value, doc_id |-> id, vector |-> vector]
<1>1. /\ map' = MapInsert(map, key, slot)
      /\ vectors' = DropDisplaced(side, key)
      /\ next_doc_id' = IF vector = NoVector THEN next_doc_id ELSE next_doc_id + 1
      /\ vector \in Accepted
      /\ reply' = [op |-> "put", doc_id |-> id]
  BY DEF Put, NextId
<1>2. id \in DocIds /\ next_doc_id \in Nat /\ (id # NoDocId <=> vector # NoVector)
  BY DEF IInv, TypeOK, DocIds, NoDocId
<1>3. Live(map') = Live(map) \cup {key}
  BY <1>1 DEF MapInsert, Live, PutSlot
<1>4. \A i \in Displaced(key) : i # next_doc_id /\ key \in Vectored(map) /\ i = map[key].doc_id
  BY <1>2 DEF IInv, OneRowPerDocId, Displaced, TypeOK, FlushNeverPanics
<1>5. \A k \in Vectored(map) : map[k].doc_id \in DOMAIN vectors /\ map[k].doc_id # next_doc_id
  BY <1>2 DEF IInv, OneRowPerDocId, TypeOK, FlushNeverPanics
<1>6. RowOf(key)' = row
  <2>1. map'[key] = slot
    BY <1>1 DEF MapInsert
  <2>2. vector # NoVector => vectors'[id] = vector
    BY <1>1, <1>2, <1>4 DEF MapInsert, DropDisplaced
  <2> QED
    BY <1>2, <2>1, <2>2 DEF RowOf, PutSlot
<1>7. ASSUME NEW k \in Live(map), k # key PROVE RowOf(k)' = RowOf(k)
  <2>1. map'[k] = map[k]
    BY <1>1, <1>7 DEF MapInsert, Live
  <2>2. ASSUME map[k].doc_id # NoDocId
        PROVE  vectors'[map[k].doc_id] = vectors[map[k].doc_id]
    <3>1. k \in Vectored(map)
      BY <2>2 DEF Vectored
    <3>2. map[k].doc_id \notin Displaced(key)
      BY <1>4, <1>7, <3>1 DEF IInv, OneRowPerDocId
    <3> QED
      BY <1>1, <1>5, <3>1, <3>2 DEF MapInsert, DropDisplaced
  <2> QED
    BY <2>1, <2>2 DEF RowOf
<1>8. LiveRows' = MapInsert(LiveRows, key, row)
  <2>1. LiveRows' = [k \in Live(map') |-> RowOf(k)']
    BY DEF LiveRows, RowOf, FlushEntry, Vectored
  <2>2. MapInsert(LiveRows, key, row)
          = [k \in Live(map) \cup {key} |-> IF k = key THEN row ELSE RowOf(k)]
    BY LiveRowsAreRows DEF MapInsert
  <2> QED
    BY <1>3, <1>6, <1>7, <2>1, <2>2
<1> QED
  BY <1>1, <1>8 DEF Contract!Put, Contract!MapInsert, MapInsert, Contract!Accepted, Accepted,
                    Contract!DimOK, DimOK, Contract!NoDocId, NoDocId

(* A delete removes the live row of its key and touches no other row.         *)
LEMMA DeleteRefines ==
  ASSUME IInv, NEW key \in Keys, Delete(key)
  PROVE  Contract!Delete(key)
<1>1. /\ map' = MapInsert(map, key, Tombstone)
      /\ vectors' = DropDisplaced(vectors, key)
      /\ next_doc_id' = next_doc_id
      /\ reply' = [op |-> "delete"]
  BY DEF Delete
<1>2. Live(map') = Live(map) \ {key}
  BY <1>1 DEF MapInsert, Live, Tombstone
<1>3. ASSUME NEW k \in Live(map), k # key PROVE RowOf(k)' = RowOf(k)
  <2>1. map'[k] = map[k]
    BY <1>1, <1>3 DEF MapInsert, Live
  <2>2. ASSUME map[k].doc_id # NoDocId
        PROVE  vectors'[map[k].doc_id] = vectors[map[k].doc_id]
    <3>1. k \in Vectored(map)
      BY <2>2 DEF Vectored
    <3>2. map[k].doc_id \notin Displaced(key)
      BY <1>3, <3>1 DEF IInv, OneRowPerDocId, Displaced
    <3>3. map[k].doc_id \in DOMAIN vectors
      BY <3>1 DEF IInv, FlushNeverPanics
    <3> QED
      BY <1>1, <3>2, <3>3 DEF DropDisplaced
  <2> QED
    BY <2>1, <2>2 DEF RowOf
<1>4. LiveRows' = MapRemove(LiveRows, key)
  <2>1. LiveRows' = [k \in Live(map') |-> RowOf(k)']
    BY DEF LiveRows, RowOf, FlushEntry, Vectored
  <2>2. MapRemove(LiveRows, key) = [k \in Live(map) \ {key} |-> RowOf(k)]
    BY LiveRowsAreRows DEF MapRemove
  <2> QED
    BY <1>2, <1>3, <2>1, <2>2
<1> QED
  BY <1>1, <1>4 DEF Contract!Delete, Contract!MapRemove, MapRemove

(* The vectors knn walks are the vectors of the live rows, under their ids.   *)
LEMMA SideTableIsLiveVectors ==
  ASSUME IInv
  PROVE  Contract!LiveVectors = vectors
<1> DEFINE ids  == {LiveRows[k].doc_id : k \in DOMAIN LiveRows} \ {NoDocId}
           rows == {LiveRows[k] : k \in DOMAIN LiveRows}
<1>1. LiveRows = [k \in Live(map) |-> RowOf(k)]
  BY LiveRowsAreRows
<1>2. ids = DOMAIN vectors
  <2>1. ids = {map[k].doc_id : k \in Vectored(map)}
    BY <1>1 DEF RowOf, Vectored
  <2> QED
    BY <2>1 DEF IInv, FlushNeverPanics, OnlyLiveVectors
<1>3. ASSUME NEW id \in DOMAIN vectors
      PROVE  (CHOOSE row \in rows : row.doc_id = id).vector = vectors[id]
  <2>1. PICK k \in Vectored(map) : map[k].doc_id = id
    BY DEF IInv, OnlyLiveVectors
  <2>2. RowOf(k) \in rows /\ RowOf(k).doc_id = id /\ RowOf(k).vector = vectors[id]
    BY <1>1, <2>1 DEF RowOf, Vectored
  <2>3. ASSUME NEW row \in rows, row.doc_id = id PROVE row.vector = vectors[id]
    <3>1. PICK j \in Live(map) : row = RowOf(j)
      BY <1>1
    <3> QED
      BY <2>1, <2>3, <3>1 DEF RowOf, Vectored
  <2> HIDE DEF rows
  <2> QED
    BY <2>2, <2>3
<1>4. Contract!LiveVectors = [id \in ids |-> (CHOOSE row \in rows : row.doc_id = id).vector]
  BY DEF Contract!LiveVectors, Contract!NoDocId, NoDocId
<1>5. vectors = [id \in DOMAIN vectors |-> vectors[id]]
  BY DEF IInv, TypeOK
<1> HIDE DEF ids, rows
<1> QED
  BY <1>2, <1>3, <1>4, <1>5

(* What knn answers is an answer the contract allows.                         *)
LEMMA KnnRefines ==
  ASSUME FiniteIInv, NEW query \in Vectors, NEW k \in Ks, Knn(query, k)
  PROVE  Contract!Knn(query, k)
<1> DEFINE dist == DistancesTo(query, vectors)
<1>1. Contract!DistancesTo(query, Contract!LiveVectors) = dist
  BY SideTableIsLiveVectors DEF FiniteIInv, Contract!DistancesTo, DistancesTo
<1>2. DOMAIN dist = DOMAIN vectors /\ DOMAIN dist \subseteq Nat /\ IsFiniteSet(DOMAIN dist)
  BY DEF DistancesTo, FiniteIInv, IInv, TypeOK
<1>3. \A i \in DOMAIN dist : dist[i] \in Int \cup {NaN}
  BY DistanceAssumption DEF DistancesTo, FiniteIInv, IInv, TypeOK
<1>4. Comparable(dist) => /\ Ranked(dist, k) \in AnyCandidates(dist, k)
                          /\ NearestFirst(Ranked(dist, k), dist, k)
  <2> HIDE DEF dist
  <2> QED
    BY <1>2, <1>3, RankedIsNearest, QueriesAssumption DEF Comparable
<1>5. /\ DimOK(query)
      /\ \/ \E ids \in IF Comparable(dist) THEN {Ranked(dist, k)} ELSE AnyCandidates(dist, k) :
              reply' = [op |-> "knn", query |-> query, k |-> k, ids |-> ids]
         \/ ~Comparable(dist) /\ reply' = [op |-> "panic"]
      /\ UNCHANGED memvars
  BY DEF Knn
<1>6. UNCHANGED <<LiveRows, next_doc_id>>
  BY <1>5 DEF memvars, LiveRows, FlushEntry, Vectored, Live
<1>7. \/ \E ids \in AnyCandidates(dist, k) :
           /\ Comparable(dist) => NearestFirst(ids, dist, k)
           /\ reply' = [op |-> "knn", query |-> query, k |-> k, ids |-> ids]
      \/ ~Comparable(dist) /\ reply' = [op |-> "panic"]
  <2> HIDE DEF dist
  <2> QED
    BY <1>4, <1>5
<1>8. /\ Contract!DimOK(query) <=> DimOK(query)
      /\ Contract!AnyCandidates(dist, k) = AnyCandidates(dist, k)
      /\ Contract!Comparable(dist) <=> Comparable(dist)
      /\ \A ids : Contract!NearestFirst(ids, dist, k) <=> NearestFirst(ids, dist, k)
  <2>1. Contract!Cardinality(DOMAIN dist) = Cardinality(DOMAIN dist)
    BY DEF Contract!Cardinality, Cardinality, Contract!IsFiniteSet, IsFiniteSet
  <2> HIDE DEF dist
  <2> QED
    BY <2>1 DEF Contract!DimOK, DimOK, Contract!AnyCandidates, AnyCandidates, Contract!Lesser, Lesser,
           Contract!Comparable, Comparable, Contract!NearestFirst, NearestFirst
<1> HIDE DEF dist
<1> QED
  BY <1>1, <1>5, <1>6, <1>7, <1>8 DEF Contract!Knn

(* range.start <= range.end, which BTreeMap::range insists on.                *)
OrderedScans == \A range \in Ranges : range[1] <= range[2]

(* Reads and refused calls answer what the live rows say.                     *)
LEMMA QueryRefines ==
  ASSUME IInv, UNCHANGED memvars
  PROVE  /\ \A key : Get(key) => Contract!Get(key)
         /\ \A vector : DimMismatch(vector) => Contract!Reject(vector)
         /\ \A range \in Ranges : OrderedScans /\ Scan(range) => Contract!Scan(range)
<1>1. UNCHANGED <<LiveRows, next_doc_id>>
  BY DEF memvars, LiveRows, FlushEntry, Vectored, Live
<1>2. DOMAIN LiveRows = Live(map) /\ \A k \in Live(map) : LiveRows[k].value = map[k].value
  BY DEF LiveRows
<1>3. ASSUME NEW key, Get(key) PROVE Contract!Get(key)
  <2>1. {map[k].value : k \in {key} \cap Live(map)}
          = {LiveRows[k].value : k \in {key} \cap DOMAIN LiveRows}
    BY <1>2
  <2> QED
    BY <1>1, <1>3, <2>1 DEF Get, Contract!Get
<1>4. ASSUME NEW vector, DimMismatch(vector) PROVE Contract!Reject(vector)
  BY <1>1, <1>4 DEF DimMismatch, Contract!Reject, DimOK, Contract!DimOK
<1>5. ASSUME NEW range \in Ranges, OrderedScans, Scan(range) PROVE Contract!Scan(range)
  <2> DEFINE keys == {x \in Live(map) : range[1] <= x /\ x < range[2]}
  <2>1. ~(range[1] > range[2])
    BY <1>5, QueriesAssumption DEF OrderedScans
  <2>2. reply' = [op |-> "scan", range |-> range, rows |-> [k \in keys |-> map[k].value]]
    BY <1>5, <2>1 DEF Scan
  <2>3. Contract!LiveValues(range) = [k \in keys |-> map[k].value]
    BY <1>2 DEF Contract!LiveValues
  <2> HIDE DEF keys
  <2> QED
    BY <1>1, <2>2, <2>3 DEF Contract!Scan
<1> QED
  BY <1>3, <1>4, <1>5

(* The memtable keeps the promises of the Engine trait call by call: every    *)
(* step maps to the same call of the contract, for every instance whose scans *)
(* start no later than they end (the others panic in BTreeMap::range).        *)
THEOREM MemtableImplementsEngine ==
  ASSUME OrderedScans
  PROVE  Spec => ImplementsEngine
<1>1. Init => Contract!Init
  <2>1. ASSUME Init PROVE LiveRows = EmptyMap
    BY <2>1 DEF Init, LiveRows, Live, EmptyMap
  <2> QED
    BY <2>1 DEF Init, Contract!Init, EmptyMap, Contract!EmptyMap
<1>2. FiniteIInv /\ [Next]_vars => [Contract!Next]_Contract!vars
  <2> SUFFICES ASSUME FiniteIInv, [Next]_vars
               PROVE  Contract!Next \/ UNCHANGED Contract!vars
    OBVIOUS
  <2> USE DEF FiniteIInv
  <2>1. ASSUME NEW key \in Keys, NEW value \in Values,
               NEW vector \in Vectors \cup {NoVector}, Put(key, value, vector)
        PROVE  Contract!Next
    BY <2>1, PutRefines DEF Contract!Next
  <2>2. ASSUME NEW vector \in Vectors, DimMismatch(vector) PROVE Contract!Next
    BY <2>2, QueryRefines DEF Contract!Next, DimMismatch
  <2>3. ASSUME NEW key \in Keys, Delete(key) PROVE Contract!Next
    BY <2>3, DeleteRefines DEF Contract!Next
  <2>4. ASSUME NEW key \in Keys, Get(key) PROVE Contract!Next
    BY <2>4, QueryRefines DEF Contract!Next, Get
  <2>5. ASSUME NEW range \in Ranges, Scan(range) PROVE Contract!Next
    BY <2>5, QueryRefines DEF Contract!Next, Scan
  <2>6. ASSUME NEW query \in Vectors, NEW k \in Ks, Knn(query, k) PROVE Contract!Next
    BY <2>6, KnnRefines DEF Contract!Next
  <2>7. CASE UNCHANGED vars
    BY <2>7 DEF vars, memvars, Contract!vars, LiveRows, FlushEntry, Vectored, Live
  <2> QED
    BY <2>1, <2>2, <2>3, <2>4, <2>5, <2>6, <2>7 DEF Next
<1>3. Init => FiniteIInv
  BY InitIInv, InitFinite DEF FiniteIInv
<1>4. FiniteIInv /\ [Next]_vars => FiniteIInv'
  BY NextIInv, NextFinite DEF FiniteIInv
<1> QED
  BY <1>1, <1>2, <1>3, <1>4, PTL DEF Spec, ImplementsEngine, Contract!Spec

-----------------------------------------------------------------------------
(* The estimate with the finiteness that counting bytes needs.                *)
EstimateInv ==
  /\ IsFiniteSet(Bytes(SlotSizes)) /\ IsFiniteSet(Bytes(VectorSizes))
  /\ EstimateCoversHeldBytes

(* The estimate covers an empty memtable, ...                                 *)
LEMMA InitEstimate == Init => EstimateInv
<1> SUFFICES ASSUME Init PROVE EstimateInv
  OBVIOUS
<1>1. Bytes(SlotSizes) = {} /\ Bytes(VectorSizes) = {} /\ approx_bytes = 0
  BY DEF Init, EmptyMap, Bytes, SlotSizes, VectorSizes
<1> QED
  BY <1>1, FS_EmptySet DEF EstimateInv, EstimateCoversHeldBytes

(* ... and every call charges for at least the bytes it adds.                 *)
LEMMA NextEstimate ==
  ASSUME IInv, EstimateInv, [Next]_vars
  PROVE  EstimateInv'
<1>1. /\ Cardinality(Bytes(SlotSizes)) \in Nat /\ Cardinality(Bytes(VectorSizes)) \in Nat
      /\ approx_bytes \in Nat
  BY FS_CardinalityType DEF EstimateInv, IInv, TypeOK
<1>2. ASSUME NEW key \in Keys, NEW value \in Values,
             NEW vector \in Vectors \cup {NoVector}, Put(key, value, vector)
      PROVE  EstimateInv'
  <2> DEFINE slotSize   == KeyLen[key] + ENTRY_OVERHEAD + ValueLen[value]
             vectorSize == IF vector = NoVector THEN 0 ELSE VecDim[vector] * F32_BYTES
             id         == IF vector = NoVector THEN NoDocId ELSE next_doc_id
  <2>1. slotSize \in Nat /\ vectorSize \in Nat
    BY BytesAssumption, DimAssumption DEF ENTRY_OVERHEAD, F32_BYTES
  <2>2. /\ map' = MapInsert(map, key, PutSlot(value, id))
        /\ vectors' = DropDisplaced(IF vector = NoVector THEN vectors
                                                         ELSE MapInsert(vectors, id, vector), key)
        /\ approx_bytes' = approx_bytes + slotSize + vectorSize
    BY <1>1, <1>2, <2>1, BytesAssumption DEF Put, Charge, PutCharge, ENTRY_OVERHEAD, F32_BYTES
  <2>3. /\ DOMAIN SlotSizes' \subseteq DOMAIN SlotSizes \cup {key}
        /\ \A k \in DOMAIN SlotSizes' :
             SlotSizes'[k] = IF k = key THEN slotSize ELSE SlotSizes[k]
    BY <2>2 DEF SlotSizes, MapInsert, Live, PutSlot
  <2>4. /\ IsFiniteSet(Bytes(SlotSizes'))
        /\ Cardinality(Bytes(SlotSizes')) <= Cardinality(Bytes(SlotSizes)) + slotSize
    <3> HIDE DEF slotSize
    <3> QED
      BY <2>1, <2>3, BytesGrow DEF EstimateInv
  <2>5. /\ DOMAIN VectorSizes' \subseteq DOMAIN VectorSizes \cup {id}
        /\ \A i \in DOMAIN VectorSizes' :
             VectorSizes'[i] = IF i = id THEN vectorSize ELSE VectorSizes[i]
    <3>1. NoDocId \notin DOMAIN vectors
      BY DEF IInv, TypeOK, NoDocId
    <3> QED
      BY <2>2, <3>1 DEF VectorSizes, MapInsert, DropDisplaced
  <2>6. /\ IsFiniteSet(Bytes(VectorSizes'))
        /\ Cardinality(Bytes(VectorSizes')) <= Cardinality(Bytes(VectorSizes)) + vectorSize
    <3> HIDE DEF vectorSize, id
    <3> QED
      BY <2>1, <2>5, BytesGrow DEF EstimateInv
  <2>7. Cardinality(Bytes(SlotSizes')) \in Nat /\ Cardinality(Bytes(VectorSizes')) \in Nat
    BY <2>4, <2>6, FS_CardinalityType
  <2> HIDE DEF slotSize, vectorSize
  <2> QED
    BY <1>1, <2>1, <2>2, <2>4, <2>6, <2>7 DEF EstimateInv, EstimateCoversHeldBytes
<1>3. ASSUME NEW key \in Keys, Delete(key) PROVE EstimateInv'
  <2> DEFINE slotSize == KeyLen[key] + ENTRY_OVERHEAD
  <2>1. slotSize \in Nat
    BY BytesAssumption DEF ENTRY_OVERHEAD
  <2>2. /\ map' = MapInsert(map, key, Tombstone)
        /\ vectors' = DropDisplaced(vectors, key)
        /\ approx_bytes' = approx_bytes + slotSize
    BY <1>3 DEF Delete, Charge, DeleteCharge
  <2>3. /\ DOMAIN SlotSizes' \subseteq DOMAIN SlotSizes \cup {key}
        /\ \A k \in DOMAIN SlotSizes' :
             SlotSizes'[k] = IF k = key THEN slotSize ELSE SlotSizes[k]
    BY <2>1, <2>2 DEF SlotSizes, MapInsert, Live, Tombstone
  <2>4. /\ IsFiniteSet(Bytes(SlotSizes'))
        /\ Cardinality(Bytes(SlotSizes')) <= Cardinality(Bytes(SlotSizes)) + slotSize
    <3> HIDE DEF slotSize
    <3> QED
      BY <2>1, <2>3, BytesGrow DEF EstimateInv
  <2>5. /\ IsFiniteSet(Bytes(VectorSizes'))
        /\ Cardinality(Bytes(VectorSizes')) <= Cardinality(Bytes(VectorSizes))
    <3>1. /\ DOMAIN VectorSizes' \subseteq DOMAIN VectorSizes
          /\ \A i \in DOMAIN VectorSizes' : VectorSizes'[i] = VectorSizes[i]
      BY <2>2 DEF VectorSizes, DropDisplaced
    <3> QED
      BY <3>1, BytesShrink DEF EstimateInv
  <2>6. Cardinality(Bytes(SlotSizes')) \in Nat /\ Cardinality(Bytes(VectorSizes')) \in Nat
    BY <2>4, <2>5, FS_CardinalityType
  <2> HIDE DEF slotSize
  <2> QED
    BY <1>1, <2>1, <2>2, <2>4, <2>5, <2>6 DEF EstimateInv, EstimateCoversHeldBytes
<1>4. CASE UNCHANGED memvars
  BY <1>4 DEF memvars, EstimateInv, EstimateCoversHeldBytes, SlotSizes, VectorSizes, Live
<1> QED
  BY <1>2, <1>3, <1>4 DEF Next, DimMismatch, Get, Scan, Knn, vars

(* approx_bytes never under-counts what the memtable holds, for every         *)
(* instance: a put or a delete charges at least what it adds.                 *)
THEOREM EstimateSound == Spec => []EstimateCoversHeldBytes
<1>1. Init => EstimateInv
  BY InitEstimate
<1>2. IInv /\ EstimateInv /\ [Next]_vars => EstimateInv'
  BY NextEstimate
<1>3. EstimateInv => EstimateCoversHeldBytes
  BY DEF EstimateInv
<1> QED
  BY <1>1, <1>2, <1>3, SideTableInvariant, PTL DEF Spec
=============================================================================
