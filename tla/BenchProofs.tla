---------------------------- MODULE BenchProofs -----------------------------
(* Theorems about the smoke bench, for every key space, trace length and set  *)
(* of templates: generator and memtable number and retire the same versions.  *)
(* They walk the same trace, the memtable after the generator has ended, so   *)
(* each is compared with what the trace says of its own position.             *)
EXTENDS Bench, FiniteSetTheorems, TLAPS

MP == INSTANCE MemtableProofs WITH FirstDocId <- 0, Ranges <- {}, Ks <- {}

(* The upserts among the first n operations of a trace, and those of them     *)
(* whose version is live after the n-th: their key is not written again.      *)
Ups(t, n)    == {j \in 1 .. n : t[j].op = "upsert"}
Latest(t, n) == {j \in Ups(t, n) : \A l \in Ups(t, n) : l > j => t[l].key # t[j].key}

KeysOf(t, n) == {t[j].key : j \in Latest(t, n)}
IdsOf(t, n)  == {t[j].doc_id : j \in Latest(t, n)}

(* Distances from a query to the versions live after the n-th operation.      *)
AreDistances(dist, t, query, n) ==
  /\ dist = [id \in IdsOf(t, n) |-> dist[id]]
  /\ \A j \in Latest(t, n) : dist[t[j].doc_id] = Distance[query][t[j].vector]

(* What a trace consists of.                                                  *)
UpsertOps == [op : {"upsert"}, key : G!Slots, value : Values,
              vector : {v \in Vectors : DimOK(v)}, doc_id : Nat]
KnnOps    == [op : {"knn"}, query : Templates, k : {K}, truth : Seq(Nat)]
ScanOps   == [op : {"scan"}, start : G!Slots, end : Nat]

(* Versions are numbered in the order of the trace, no scan is inverted, and  *)
(* the truth of a query is the ranking of what is live before it.             *)
OpsInv ==
  /\ ops \in Seq(UpsertOps \cup KnnOps \cup ScanOps)
  /\ \A i \in Ups(ops, Len(ops)) : ops[i].doc_id = Cardinality(Ups(ops, i - 1))
  /\ \A i \in 1 .. Len(ops) : ops[i].op = "scan" => ops[i].start <= ops[i].end
  /\ \A i \in 1 .. Len(ops) : ops[i].op = "knn" =>
       \A dist : AreDistances(dist, ops, ops[i].query, i - 1) => ops[i].truth = Ranked(dist, K)

(* The generator's table and counter are those of the whole trace.            *)
LiveInv ==
  /\ G!TypeOK
  /\ trace_next_doc_id = Cardinality(Ups(ops, Len(ops)))
  /\ DOMAIN live = KeysOf(ops, Len(ops))
  /\ \A j \in Latest(ops, Len(ops)) :
       live[ops[j].key] = [doc_id |-> ops[j].doc_id, vector |-> ops[j].vector]
  /\ WARMUP > 0 /\ Len(ops) > 0 => DOMAIN live # {}

(* The memtable's are those of the operations replayed.                       *)
MapInv ==
  /\ next_doc_id = Cardinality(Ups(ops, replayed))
  /\ DOMAIN map = KeysOf(ops, replayed)
  /\ \A j \in Latest(ops, replayed) :
       /\ map[ops[j].key] = M!PutSlot(ops[j].value, ops[j].doc_id)
       /\ vectors[ops[j].doc_id] = ops[j].vector

ReplayInv ==
  /\ replayed \in 0 .. Len(ops)
  /\ replayed > 0 => G!Generated
  /\ status \in {"running", "no_knn", "reported"}
  /\ status # "running" => G!Generated /\ replayed = Len(ops)
  /\ status = "no_knn" => recalls = <<>>
  /\ recalls = <<>> => \A i \in 1 .. replayed : ops[i].op # "knn"
  /\ recalls \in Seq(Nat \X Nat)
  /\ \A i \in DOMAIN recalls : recalls[i][1] = recalls[i][2]

GenInv == OpsInv /\ G!TruthsMeasurable /\ LiveInv
IInv   == GenInv /\ MP!IInv /\ MapInv /\ ReplayInv
-----------------------------------------------------------------------------
(* Latest is about the trace up to n and nothing after it.                    *)
LEMMA SamePrefix ==
  ASSUME NEW s, NEW t, NEW n \in Nat, \A j \in 1 .. n : s[j] = t[j]
  PROVE  Ups(s, n) = Ups(t, n) /\ Latest(s, n) = Latest(t, n)
<1>1. Ups(s, n) = Ups(t, n)
  BY DEF Ups
<1>2. \A j \in Ups(s, n) : s[j] = t[j]
  BY DEF Ups
<1> QED
  BY <1>1, <1>2 DEF Latest

(* ... and so are keys, ids and distances.                                    *)
LEMMA SameVersions ==
  ASSUME NEW s, NEW t, NEW n \in Nat, \A j \in 1 .. n : s[j] = t[j]
  PROVE  /\ KeysOf(s, n) = KeysOf(t, n) /\ IdsOf(s, n) = IdsOf(t, n)
         /\ \A j \in Latest(s, n) : s[j] = t[j]
         /\ \A dist, query : AreDistances(dist, s, query, n) <=> AreDistances(dist, t, query, n)
<1>1. Latest(s, n) = Latest(t, n) /\ \A j \in Latest(s, n) : s[j] = t[j]
  BY SamePrefix DEF Latest, Ups
<1>2. KeysOf(s, n) = KeysOf(t, n)
  BY <1>1 DEF KeysOf
<1>3. IdsOf(s, n) = IdsOf(t, n)
  BY <1>1 DEF IdsOf
<1>4. ASSUME NEW dist, NEW query
      PROVE  AreDistances(dist, s, query, n) <=> AreDistances(dist, t, query, n)
  BY <1>1, <1>3 DEF AreDistances
<1> QED
  BY <1>1, <1>2, <1>3, <1>4

(* Finitely many versions are written, and so are live.                       *)
LEMMA UpsFinite ==
  ASSUME NEW t, NEW n \in Nat
  PROVE  /\ IsFiniteSet(Ups(t, n)) /\ Cardinality(Ups(t, n)) \in Nat
         /\ Latest(t, n) \subseteq Ups(t, n) /\ Ups(t, n) \subseteq 1 .. n
         /\ IsFiniteSet(Latest(t, n))
<1>1. Latest(t, n) \in SUBSET Ups(t, n) /\ Ups(t, n) \in SUBSET (1 .. n)
  BY DEF Latest, Ups
<1>2. 1 \in Int /\ n \in Int
  OBVIOUS
<1>3. IsFiniteSet(1 .. n)
  BY <1>2, FS_Interval
<1>4. IsFiniteSet(Ups(t, n))
  BY <1>1, <1>3, FS_Subset
<1>5. IsFiniteSet(Latest(t, n))
  BY <1>1, <1>4, FS_Subset
<1> QED
  BY <1>1, <1>4, <1>5, FS_CardinalityType

(* An upsert adds a version and retires that of its key.                      *)
LEMMA UpsertAdvances ==
  ASSUME NEW t, NEW n \in Nat, t[n + 1].op = "upsert"
  PROVE  /\ Cardinality(Ups(t, n + 1)) = Cardinality(Ups(t, n)) + 1
         /\ Latest(t, n + 1) = {n + 1} \cup {j \in Latest(t, n) : t[j].key # t[n + 1].key}
<1>1. Ups(t, n + 1) = Ups(t, n) \cup {n + 1} /\ n + 1 \notin Ups(t, n)
  BY DEF Ups
<1>2. Cardinality(Ups(t, n + 1)) = Cardinality(Ups(t, n)) + 1
  BY <1>1, UpsFinite, FS_AddElement
<1>3. \A j \in Ups(t, n) : j \in 1 .. n
  BY DEF Ups
<1>4. ASSUME NEW j
      PROVE  j \in Latest(t, n + 1)
               <=> j = n + 1 \/ (j \in Latest(t, n) /\ t[j].key # t[n + 1].key)
  BY <1>1, <1>3 DEF Latest
<1> QED
  BY <1>2, <1>4

(* The other operations leave versions as they are.                           *)
LEMMA OthersStay ==
  ASSUME NEW t, NEW n \in Nat, t[n + 1].op # "upsert"
  PROVE  Ups(t, n + 1) = Ups(t, n) /\ Latest(t, n + 1) = Latest(t, n)
<1>1. Ups(t, n + 1) = Ups(t, n)
  BY DEF Ups
<1> QED
  BY <1>1 DEF Latest

(* A table of the live versions by key stays one when a version is put in.    *)
LEMMA TableAdvances ==
  ASSUME NEW t, NEW n \in Nat, t[n + 1].op = "upsert", NEW f, NEW row,
         DOMAIN f = KeysOf(t, n), \A j \in Latest(t, n) : f[t[j].key] = row[j],
         NEW g, g = [k \in DOMAIN f \cup {t[n + 1].key} |->
                       IF k = t[n + 1].key THEN row[n + 1] ELSE f[k]]
  PROVE  /\ DOMAIN g = KeysOf(t, n + 1)
         /\ \A j \in Latest(t, n + 1) : g[t[j].key] = row[j]
<1>1. Latest(t, n + 1) = {n + 1} \cup {j \in Latest(t, n) : t[j].key # t[n + 1].key}
  BY UpsertAdvances
<1>2. \A j \in Latest(t, n + 1) : g[t[j].key] = row[j]
  <2>1. g[t[n + 1].key] = row[n + 1]
    OBVIOUS
  <2>2. ASSUME NEW j \in Latest(t, n), t[j].key # t[n + 1].key
        PROVE  g[t[j].key] = row[j]
    <3>1. t[j].key \in DOMAIN f
      BY DEF KeysOf
    <3> QED
      BY <2>2, <3>1
  <2> QED
    BY <1>1, <2>1, <2>2
<1>3. DOMAIN g = KeysOf(t, n + 1)
  <2>1. DOMAIN g = {t[j].key : j \in Latest(t, n)} \cup {t[n + 1].key}
    BY DEF KeysOf
  <2> QED
    BY <1>1, <2>1 DEF KeysOf
<1> QED
  BY <1>2, <1>3

(* A version that is live at n was written at n or before.                    *)
LEMMA LatestInRange ==
  ASSUME NEW t, NEW n \in Nat
  PROVE  /\ Latest(t, 0) = {} /\ Ups(t, 0) = {}
         /\ \A j \in Latest(t, n) :
              /\ j \in 1 .. n /\ t[j].op = "upsert"
              /\ \A l \in j + 1 .. n : t[l].op = "upsert" => t[l].key # t[j].key
BY DEF Latest, Ups
-----------------------------------------------------------------------------
(* The parameters satisfy what the lemmas about the memtable assume.           *)
LEMMA Parameters ==
  /\ Keys \subseteq Nat /\ NoVector \notin Vectors
  /\ Dim \in Nat /\ VecDim \in [Vectors -> Nat]
  /\ NaN \notin Int /\ Distance \in [Vectors -> [Vectors -> Int \cup {NaN}]]
  /\ KeyLen \in [Keys -> Nat] /\ ValueLen \in [Values -> Nat] /\ MaxBytes \in Nat
  /\ 0 \in Nat /\ {} \subseteq Nat \X Nat /\ {} \subseteq Nat
BY KeysAssumption, VectorsAssumption, DimAssumption, DistanceAssumption, LengthsAssumption

(* The ranking is one operator in the three modules that use it, and what it  *)
(* lists are k distinct candidates, or all of them.                           *)
LEMMA SameRanking ==
  ASSUME NEW dist, NEW k
  PROVE  /\ G!Ranked(dist, k) = Ranked(dist, k)
         /\ M!Ranked(dist, k) = Ranked(dist, k)
         /\ MP!Ranked(dist, k) = Ranked(dist, k)
<1>1. /\ \A i : G!Position(dist, i) = Position(dist, i)
      /\ \A i : M!Position(dist, i) = Position(dist, i)
      /\ \A i : MP!Position(dist, i) = Position(dist, i)
  BY DEF G!Position, M!Position, MP!Position, Position,
         G!Predecessors, M!Predecessors, MP!Predecessors, Predecessors,
         G!Before, M!Before, MP!Before, Before,
         G!Cardinality, M!Cardinality, MP!Cardinality, Cardinality
<1>2. /\ G!Lesser(k, G!Cardinality(DOMAIN dist)) = Lesser(k, Cardinality(DOMAIN dist))
      /\ M!Lesser(k, M!Cardinality(DOMAIN dist)) = Lesser(k, Cardinality(DOMAIN dist))
      /\ MP!Lesser(k, MP!Cardinality(DOMAIN dist)) = Lesser(k, Cardinality(DOMAIN dist))
  BY DEF G!Lesser, M!Lesser, MP!Lesser, Lesser,
         G!Cardinality, M!Cardinality, MP!Cardinality, Cardinality
<1>3. G!Ranked(dist, k) = Ranked(dist, k)
  BY <1>1, <1>2 DEF G!Ranked, Ranked
<1>4. M!Ranked(dist, k) = Ranked(dist, k)
  BY <1>1, <1>2 DEF M!Ranked, Ranked
<1>5. MP!Ranked(dist, k) = Ranked(dist, k)
  BY <1>1, <1>2 DEF MP!Ranked, Ranked
<1> QED
  BY <1>3, <1>4, <1>5

(* A ranking is at most k distinct ids, and not empty if there is one to rank. *)
LEMMA RankedFacts ==
  ASSUME NEW dist, DOMAIN dist \subseteq Nat, \A i \in DOMAIN dist : dist[i] \in Int,
         IsFiniteSet(DOMAIN dist), NEW k \in Nat
  PROVE  LET ids == Ranked(dist, k) IN
         /\ ids \in Seq(Nat) /\ Len(ids) <= k
         /\ \A n \in DOMAIN ids : ids[n] \in DOMAIN dist
         /\ \A m, n \in DOMAIN ids : m # n => ids[m] # ids[n]
         /\ k > 0 /\ DOMAIN dist # {} => ids # << >>
<1> DEFINE size == Lesser(k, Cardinality(DOMAIN dist))
           ids  == Ranked(dist, k)
<1>1. MP!IsFiniteSet(DOMAIN dist)
  BY DEF MP!IsFiniteSet, IsFiniteSet
<1>2. MP!Ranked(dist, k) \in MP!AnyCandidates(dist, k)
  BY <1>1, Parameters, MP!RankedIsNearest
<1>3. MP!Lesser(k, MP!Cardinality(DOMAIN dist)) = size
  BY DEF MP!Lesser, Lesser, MP!Cardinality, Cardinality
<1>4. /\ ids \in [1 .. size -> DOMAIN dist]
      /\ \A m, n \in DOMAIN ids : m # n => ids[m] # ids[n]
  BY <1>2, <1>3, SameRanking DEF MP!AnyCandidates
<1>5. Cardinality(DOMAIN dist) \in Nat
  BY FS_CardinalityType
<1>6. size \in Nat /\ size <= k
  BY <1>5 DEF Lesser
<1>7. k > 0 /\ DOMAIN dist # {} => size > 0
  <2>1. DOMAIN dist # {} => Cardinality(DOMAIN dist) # 0
    BY FS_EmptySet
  <2> QED
    BY <1>5, <2>1 DEF Lesser
<1> HIDE DEF size, ids
<1>8. ids \in Seq(Nat) /\ Len(ids) = size
  BY <1>4, <1>6
<1>9. size > 0 => ids # << >>
  BY <1>8
<1> QED
  BY <1>4, <1>6, <1>7, <1>8, <1>9 DEF ids

(* Queries and vectors of the workload have distances.                        *)
LEMMA DistancesAreNumbers ==
  ASSUME NEW query \in Templates, NEW vector \in Vectors, DimOK(vector)
  PROVE  Distance[query][vector] \in Int
<1>1. query \in Vectors /\ Distance[query][vector] # NaN
  BY ConfigAssumption
<1> QED
  BY <1>1, Parameters
-----------------------------------------------------------------------------
(* The recall oracle ranks what is live at that point of the trace.           *)
LEMMA TruthRanks ==
  ASSUME OpsInv, LiveInv, NEW query \in Templates
  PROVE  LET truth == G!BruteForceKnn(query, K) IN
         /\ \A dist : AreDistances(dist, ops, query, Len(ops)) => truth = Ranked(dist, K)
         /\ truth \in Seq(Nat) /\ Len(truth) <= K
         /\ \A n \in DOMAIN truth : truth[n] \in IdsOf(ops, Len(ops))
         /\ \A m, n \in DOMAIN truth : m # n => truth[m] # truth[n]
         /\ K > 0 /\ DOMAIN live # {} => truth # << >>
<1> DEFINE N       == Len(ops)
           slot(id) == CHOOSE s \in DOMAIN live : live[s].doc_id = id
           ids     == {live[s].doc_id : s \in DOMAIN live}
           d       == [id \in ids |-> Distance[query][live[slot(id)].vector]]
<1>1. N \in Nat /\ \A i \in 1 .. N : ops[i] \in UpsertOps \cup KnnOps \cup ScanOps
  BY DEF OpsInv
<1>2. \A j \in Latest(ops, N) : ops[j] \in UpsertOps
  BY <1>1, LatestInRange DEF KnnOps, ScanOps
<1>3. DOMAIN live = {ops[j].key : j \in Latest(ops, N)}
  BY DEF LiveInv, KeysOf
<1>4. \A j \in Latest(ops, N) :
        live[ops[j].key].doc_id = ops[j].doc_id /\ live[ops[j].key].vector = ops[j].vector
  <2> SUFFICES ASSUME NEW j \in Latest(ops, N)
               PROVE  /\ live[ops[j].key].doc_id = ops[j].doc_id
                      /\ live[ops[j].key].vector = ops[j].vector
    OBVIOUS
  <2>1. live[ops[j].key] = [doc_id |-> ops[j].doc_id, vector |-> ops[j].vector]
    BY DEF LiveInv
  <2> QED
    BY <2>1
<1> HIDE DEF N
<1>5. ids = IdsOf(ops, N)
  <2>1. \A s \in DOMAIN live : \E j \in Latest(ops, N) : live[s].doc_id = ops[j].doc_id
    BY <1>3, <1>4
  <2>2. \A j \in Latest(ops, N) : \E s \in DOMAIN live : live[s].doc_id = ops[j].doc_id
    BY <1>3, <1>4
  <2> QED
    BY <2>1, <2>2 DEF IdsOf
<1>6. \A id \in ids : \E j \in Latest(ops, N) :
        id = ops[j].doc_id /\ live[slot(id)].vector = ops[j].vector
  <2> SUFFICES ASSUME NEW id \in ids
               PROVE  \E j \in Latest(ops, N) :
                        id = ops[j].doc_id /\ live[slot(id)].vector = ops[j].vector
    OBVIOUS
  <2>1. slot(id) \in DOMAIN live /\ live[slot(id)].doc_id = id
    <3>1. \E s \in DOMAIN live : live[s].doc_id = id
      OBVIOUS
    <3> QED
      BY <3>1
  <2> HIDE DEF slot
  <2>2. PICK j \in Latest(ops, N) : slot(id) = ops[j].key
    BY <1>3, <2>1
  <2> QED
    BY <1>4, <2>1, <2>2
<1> HIDE DEF slot
<1>7. G!BruteForceKnn(query, K) = Ranked(d, K)
  <2>1. G!BruteForceKnn(query, K) = G!Ranked(d, K)
    BY DEF G!BruteForceKnn, d, ids, slot
  <2> QED
    BY <2>1, SameRanking
<1>8. ASSUME NEW dist, AreDistances(dist, ops, query, N) PROVE dist = d
  <2>1. DOMAIN dist = ids /\ dist = [id \in ids |-> dist[id]]
    BY <1>5, <1>8 DEF AreDistances
  <2>2. \A id \in ids : dist[id] = Distance[query][live[slot(id)].vector]
    BY <1>6, <1>8 DEF AreDistances
  <2> QED
    BY <2>1, <2>2
<1>9. DOMAIN d = IdsOf(ops, N) /\ DOMAIN d \subseteq Nat
  BY <1>2, <1>5 DEF IdsOf, UpsertOps
<1>10. \A id \in DOMAIN d : d[id] \in Int
  <2> SUFFICES ASSUME NEW id \in ids PROVE d[id] \in Int
    OBVIOUS
  <2>1. PICK j \in Latest(ops, N) : live[slot(id)].vector = ops[j].vector
    BY <1>6
  <2>2. ops[j].vector \in Vectors /\ DimOK(ops[j].vector)
    BY <1>2 DEF UpsertOps
  <2> QED
    BY <2>1, <2>2, DistancesAreNumbers
<1>11. IsFiniteSet(DOMAIN d)
  <2>1. IsFiniteSet(Latest(ops, N))
    BY <1>1, UpsFinite
  <2> DEFINE f == [j \in Latest(ops, N) |-> ops[j].doc_id]
  <2>2. f \in Surjection(Latest(ops, N), IdsOf(ops, N))
    BY DEF IdsOf, Surjection
  <2> QED
    BY <1>9, <2>1, <2>2, FS_Surjection
<1>12. DOMAIN live # {} => DOMAIN d # {}
  OBVIOUS
<1>13. K \in Nat
  BY ConfigAssumption
<1> HIDE DEF d, ids
<1>14. LET truth == Ranked(d, K) IN
       /\ truth \in Seq(Nat) /\ Len(truth) <= K
       /\ \A n \in DOMAIN truth : truth[n] \in DOMAIN d
       /\ \A m, n \in DOMAIN truth : m # n => truth[m] # truth[n]
       /\ K > 0 /\ DOMAIN d # {} => truth # << >>
  BY <1>9, <1>10, <1>11, <1>13, RankedFacts
<1> QED
  BY <1>7, <1>8, <1>9, <1>12, <1>14 DEF N

(* What an operation must be for the trace to stay as OpsInv says.            *)
Fits(o) ==
  \/ o \in UpsertOps /\ o.doc_id = Cardinality(Ups(ops, Len(ops)))
  \/ o \in ScanOps /\ o.start <= o.end
  \/ /\ o \in KnnOps
     /\ \A dist : AreDistances(dist, ops, o.query, Len(ops)) => o.truth = Ranked(dist, K)

(* Appending to the trace changes nothing that is in it.                      *)
LEMMA Appended ==
  ASSUME OpsInv, NEW o \in UpsertOps \cup KnnOps \cup ScanOps, ops' = Append(ops, o)
  PROVE  /\ Len(ops) \in Nat /\ Len(ops') = Len(ops) + 1
         /\ ops' \in Seq(UpsertOps \cup KnnOps \cup ScanOps)
         /\ ops'[Len(ops) + 1] = o
         /\ \A i \in 1 .. Len(ops) : ops'[i] = ops[i]
BY DEF OpsInv

(* An operation that fits leaves the trace as OpsInv says: what is said of    *)
(* the operations before it is about the trace up to them.                    *)
LEMMA OpsGrow ==
  ASSUME OpsInv, NEW o, Fits(o), ops' = Append(ops, o)
  PROVE  OpsInv'
<1> DEFINE N == Len(ops)
<1>1. o \in UpsertOps \cup KnnOps \cup ScanOps
  BY DEF Fits
<1>2. /\ N \in Nat /\ Len(ops') = N + 1 /\ ops'[N + 1] = o
      /\ ops' \in Seq(UpsertOps \cup KnnOps \cup ScanOps)
      /\ \A i \in 1 .. N : ops'[i] = ops[i]
  BY <1>1, Appended
<1> HIDE DEF N
<1>3. \A i \in 1 .. N + 1 : i \in 1 .. N \/ i = N + 1
  BY <1>2
<1>4. ASSUME NEW i \in 1 .. N + 1
      PROVE  /\ i - 1 \in Nat
             /\ Ups(ops', i - 1) = Ups(ops, i - 1)
             /\ \A dist, query :
                  AreDistances(dist, ops', query, i - 1) => AreDistances(dist, ops, query, i - 1)
  <2>1. i - 1 \in Nat /\ \A j \in 1 .. i - 1 : ops'[j] = ops[j]
    BY <1>2
  <2> QED
    BY <2>1, SamePrefix, SameVersions
<1>5. ASSUME NEW i \in 1 .. N + 1, ops'[i].op = "upsert"
      PROVE  ops'[i].doc_id = Cardinality(Ups(ops', i - 1))
  <2>1. CASE i \in 1 .. N
    <3>1. i \in Ups(ops, Len(ops)) /\ ops'[i] = ops[i]
      BY <1>2, <1>5, <2>1 DEF Ups, N
    <3> QED
      BY <1>4, <3>1 DEF OpsInv
  <2>2. CASE i = N + 1
    <3>1. o.doc_id = Cardinality(Ups(ops, N))
      BY <1>2, <1>5, <2>2 DEF Fits, KnnOps, ScanOps, N
    <3>2. i - 1 = N
      BY <1>2, <2>2
    <3> QED
      BY <1>2, <1>4, <2>2, <3>1, <3>2
  <2> QED
    BY <1>3, <2>1, <2>2
<1>6. ASSUME NEW i \in 1 .. N + 1, ops'[i].op = "scan"
      PROVE  ops'[i].start <= ops'[i].end
  BY <1>2, <1>3, <1>6 DEF Fits, OpsInv, UpsertOps, KnnOps, N
<1>7. ASSUME NEW i \in 1 .. N + 1, ops'[i].op = "knn",
             NEW dist, AreDistances(dist, ops', ops'[i].query, i - 1)
      PROVE  ops'[i].truth = Ranked(dist, K)
  <2>1. AreDistances(dist, ops, ops'[i].query, i - 1)
    BY <1>4, <1>7
  <2>2. CASE i \in 1 .. N
    <3>1. ops'[i] = ops[i] /\ i \in 1 .. Len(ops)
      BY <1>2, <2>2 DEF N
    <3> QED
      BY <1>7, <2>1, <3>1 DEF OpsInv
  <2>3. CASE i = N + 1
    <3>1. i - 1 = N /\ ops'[i] = o
      BY <1>2, <2>3
    <3> QED
      BY <1>7, <2>1, <3>1 DEF Fits, UpsertOps, ScanOps, N
  <2> QED
    BY <1>3, <2>2, <2>3
<1>8. \A i \in Ups(ops', N + 1) : i \in 1 .. N + 1 /\ ops'[i].op = "upsert"
  BY DEF Ups
<1> QED
  BY <1>2, <1>5, <1>6, <1>7, <1>8 DEF OpsInv

(* The conditions on a truth are about the trace before its query.            *)
LEMMA TruthsGrow ==
  ASSUME OpsInv, G!TruthsMeasurable,
         NEW o \in UpsertOps \cup KnnOps \cup ScanOps, ops' = Append(ops, o),
         o.op = "knn" =>
           /\ WARMUP > 0 /\ K > 0 => o.truth # << >>
           /\ Len(o.truth) <= K
           /\ \A m, n \in DOMAIN o.truth : m # n => o.truth[m] # o.truth[n]
           /\ \A n \in DOMAIN o.truth : o.truth[n] \in IdsOf(ops, Len(ops))
  PROVE  G!TruthsMeasurable'
<1> DEFINE N == Len(ops)
           Live(s, i, id) ==
             \E j \in 1 .. i - 1 : s[j].op = "upsert" /\ s[j].doc_id = id
               /\ \A l \in j + 1 .. i - 1 : s[l].op = "upsert" => s[l].key # s[j].key
           Measurable(s, i) ==
             LET truth == s[i].truth IN
             /\ WARMUP > 0 /\ K > 0 => truth # << >>
             /\ Len(truth) <= s[i].k
             /\ \A m, n \in DOMAIN truth : m # n => truth[m] # truth[n]
             /\ \A n \in DOMAIN truth : Live(s, i, truth[n])
<1>1. /\ N \in Nat /\ Len(ops') = N + 1 /\ ops'[N + 1] = o
      /\ ops' \in Seq(UpsertOps \cup KnnOps \cup ScanOps)
      /\ \A i \in 1 .. N : ops'[i] = ops[i]
  BY Appended
<1>2. DOMAIN ops = 1 .. N /\ DOMAIN ops' = 1 .. N + 1
  BY <1>1 DEF OpsInv
<1>3. \A i \in 1 .. N : ops[i].op = "knn" => Measurable(ops, i)
  BY <1>2 DEF G!TruthsMeasurable
<1> HIDE DEF N
<1>4. ASSUME NEW i \in 1 .. N, NEW id, Live(ops, i, id)
      PROVE  Live(ops', i, id)
  <2>1. PICK j \in 1 .. i - 1 : ops[j].op = "upsert" /\ ops[j].doc_id = id
               /\ \A l \in j + 1 .. i - 1 : ops[l].op = "upsert" => ops[l].key # ops[j].key
    BY <1>4
  <2>2. ops'[j] = ops[j] /\ \A l \in j + 1 .. i - 1 : ops'[l] = ops[l]
    BY <1>1
  <2> QED
    BY <2>1, <2>2
<1>5. ASSUME NEW i \in 1 .. N, ops'[i].op = "knn"
      PROVE  Measurable(ops', i)
  <2>1. ops'[i] = ops[i]
    BY <1>1
  <2>2. Measurable(ops, i)
    BY <1>3, <1>5, <2>1
  <2> HIDE DEF Live
  <2> QED
    BY <1>4, <2>1, <2>2
<1>6. ASSUME o.op = "knn" PROVE Measurable(ops', N + 1)
  <2>1. o.k = K
    BY <1>6 DEF UpsertOps, KnnOps, ScanOps
  <2>2. ASSUME NEW n \in DOMAIN o.truth PROVE Live(ops', N + 1, o.truth[n])
    <3>1. PICK j \in Latest(ops, N) : o.truth[n] = ops[j].doc_id
      BY <1>6, <2>2 DEF IdsOf, N
    <3>2. /\ j \in 1 .. N /\ ops[j].op = "upsert"
          /\ \A l \in j + 1 .. N : ops[l].op = "upsert" => ops[l].key # ops[j].key
      BY <1>1, <3>1, LatestInRange
    <3>3. ops'[j] = ops[j] /\ \A l \in j + 1 .. N : ops'[l] = ops[l]
      BY <1>1, <3>2
    <3>4. N + 1 - 1 = N
      BY <1>1
    <3>5. /\ j \in 1 .. N + 1 - 1 /\ ops'[j].op = "upsert" /\ ops'[j].doc_id = o.truth[n]
          /\ \A l \in j + 1 .. N + 1 - 1 : ops'[l].op = "upsert" => ops'[l].key # ops'[j].key
      BY <3>1, <3>2, <3>3, <3>4
    <3> QED
      BY <1>1, <3>5
  <2> HIDE DEF Live
  <2> QED
    BY <1>1, <1>6, <2>1, <2>2
<1>7. \A i \in DOMAIN ops' : ops'[i].op = "knn" => Measurable(ops', i)
  <2>1. \A i \in 1 .. N + 1 : i \in 1 .. N \/ i = N + 1
    BY <1>1
  <2> HIDE DEF Measurable
  <2> QED
    BY <1>1, <1>2, <1>5, <1>6, <2>1
<1> QED
  BY <1>7 DEF G!TruthsMeasurable

(* make_upsert numbers, records and emits one and the same version.           *)
LEMMA MakeUpsertKeeps ==
  ASSUME GenInv, Len(ops) < G!WarmupUpserts + NUM_OPS, NEW slot \in G!Slots,
         NEW value \in Values, NEW vector \in Vectors, DimOK(vector),
         G!MakeUpsert(slot, value, vector)
  PROVE  GenInv'
<1> DEFINE N == Len(ops)
           o == [op |-> "upsert", key |-> slot, value |-> value, vector |-> vector,
                 doc_id |-> trace_next_doc_id]
<1>1. ops' = Append(ops, o)
  BY DEF G!MakeUpsert, G!KeyFor
<1>2. /\ trace_next_doc_id' = trace_next_doc_id + 1
      /\ live' = [k \in DOMAIN live \cup {slot} |->
                    IF k = slot THEN [doc_id |-> trace_next_doc_id, vector |-> vector]
                    ELSE live[k]]
  BY DEF G!MakeUpsert, G!MapInsert
<1>3. trace_next_doc_id = Cardinality(Ups(ops, N))
  BY DEF GenInv, LiveInv
<1>4. N \in Nat
  BY DEF GenInv, OpsInv
<1>5. trace_next_doc_id \in Nat
  BY <1>3, <1>4, UpsFinite
<1>6. o \in UpsertOps
  BY <1>5 DEF UpsertOps
<1>7. OpsInv'
  <2>1. Fits(o)
    BY <1>3, <1>6 DEF Fits
  <2> QED
    BY <1>1, <2>1, OpsGrow DEF GenInv
<1>8. G!TruthsMeasurable'
  <2>1. o.op # "knn"
    OBVIOUS
  <2> HIDE DEF o
  <2> QED
    BY <1>1, <1>6, <2>1, TruthsGrow DEF GenInv
<1>9. /\ Len(ops') = N + 1 /\ ops'[N + 1] = o
      /\ \A i \in 1 .. N : ops'[i] = ops[i]
  BY <1>1, <1>6, Appended DEF GenInv
<1>10. /\ Ups(ops', N) = Ups(ops, N) /\ Latest(ops', N) = Latest(ops, N)
       /\ KeysOf(ops', N) = KeysOf(ops, N)
       /\ \A j \in Latest(ops', N) : ops'[j] = ops[j]
  BY <1>4, <1>9, SamePrefix, SameVersions
<1>11. trace_next_doc_id' = Cardinality(Ups(ops', N + 1))
  BY <1>2, <1>3, <1>4, <1>9, <1>10, UpsertAdvances
<1>12. /\ DOMAIN live' = KeysOf(ops', N + 1)
       /\ \A j \in Latest(ops', N + 1) :
            live'[ops'[j].key] = [doc_id |-> ops'[j].doc_id, vector |-> ops'[j].vector]
  <2> DEFINE row == [j \in 1 .. N + 1 |-> [doc_id |-> ops'[j].doc_id, vector |-> ops'[j].vector]]
  <2>1. DOMAIN live = KeysOf(ops', N)
    BY <1>10 DEF GenInv, LiveInv
  <2>2. \A j \in Latest(ops', N) : live[ops'[j].key] = row[j]
    <3> SUFFICES ASSUME NEW j \in Latest(ops', N) PROVE live[ops'[j].key] = row[j]
      OBVIOUS
    <3>1. j \in Latest(ops, N) /\ ops'[j] = ops[j]
      BY <1>10
    <3>2. live[ops[j].key] = [doc_id |-> ops[j].doc_id, vector |-> ops[j].vector]
      BY <3>1 DEF GenInv, LiveInv
    <3>3. j \in 1 .. N + 1
      BY <1>4, <3>1, LatestInRange
    <3> QED
      BY <3>1, <3>2, <3>3
  <2>3. live' = [k \in DOMAIN live \cup {ops'[N + 1].key} |->
                   IF k = ops'[N + 1].key THEN row[N + 1] ELSE live[k]]
    BY <1>2, <1>4, <1>9
  <2>4. \A j \in Latest(ops', N + 1) :
          row[j] = [doc_id |-> ops'[j].doc_id, vector |-> ops'[j].vector]
    BY <1>4, LatestInRange
  <2> HIDE DEF row
  <2>5. /\ DOMAIN live' = KeysOf(ops', N + 1)
        /\ \A j \in Latest(ops', N + 1) : live'[ops'[j].key] = row[j]
    <3> DEFINE t == ops'
               g == live'
    <3>1. /\ N \in Nat /\ t[N + 1].op = "upsert"
          /\ DOMAIN live = KeysOf(t, N) /\ \A j \in Latest(t, N) : live[t[j].key] = row[j]
          /\ g = [k \in DOMAIN live \cup {t[N + 1].key} |->
                    IF k = t[N + 1].key THEN row[N + 1] ELSE live[k]]
      BY <1>4, <1>9, <2>1, <2>2, <2>3
    <3> HIDE DEF t, g, N, o
    <3>2. DOMAIN g = KeysOf(t, N + 1) /\ \A j \in Latest(t, N + 1) : g[t[j].key] = row[j]
      BY <3>1, TableAdvances, SMTT(30)
    <3> QED
      BY <3>2 DEF t, g
  <2> QED
    BY <2>4, <2>5
<1>13. LiveInv'
  <2>1. DOMAIN live' # {}
    BY <1>2
  <2>2. Len(ops') <= G!WarmupUpserts + NUM_OPS
    <3>1. G!WarmupUpserts \in Nat /\ NUM_OPS \in Nat
      BY ConfigAssumption DEF G!WarmupUpserts, G!Lesser
    <3> QED
      BY <1>4, <1>9, <3>1
  <2>3. (G!TypeOK)'
    <3>1. /\ live \in [DOMAIN live -> [doc_id : Nat, vector : Vectors]]
          /\ DOMAIN live \subseteq G!Slots
      BY DEF GenInv, LiveInv, G!TypeOK
    <3>2. live' \in [DOMAIN live \cup {slot} -> [doc_id : Nat, vector : Vectors]]
      BY <1>2, <1>5, <3>1
    <3>3. DOMAIN live' = DOMAIN live \cup {slot} /\ trace_next_doc_id' \in Nat
      BY <1>2, <1>5
    <3> QED
      BY <2>2, <3>1, <3>2, <3>3 DEF G!TypeOK, G!Slots, G!WarmupUpserts, G!Lesser
  <2> QED
    BY <1>9, <1>11, <1>12, <2>1, <2>3 DEF LiveInv
<1> QED
  BY <1>7, <1>8, <1>13 DEF GenInv

(* Operations that write nothing leave the table that of the whole trace.     *)
LEMMA LiveInvStays ==
  ASSUME LiveInv, Len(ops) \in Nat, Len(ops') = Len(ops) + 1,
         \A i \in 1 .. Len(ops) : ops'[i] = ops[i], ops'[Len(ops) + 1].op # "upsert",
         Len(ops) < G!WarmupUpserts + NUM_OPS, WARMUP > 0 => Len(ops) > 0,
         UNCHANGED <<live, trace_next_doc_id>>
  PROVE  LiveInv'
<1> DEFINE N == Len(ops)
<1>1. /\ Ups(ops', N) = Ups(ops, N) /\ Latest(ops', N) = Latest(ops, N)
      /\ \A j \in Latest(ops', N) : ops'[j] = ops[j]
  BY SamePrefix, SameVersions
<1>2. Ups(ops', N + 1) = Ups(ops, N) /\ Latest(ops', N + 1) = Latest(ops, N)
  BY <1>1, OthersStay
<1>3. KeysOf(ops', N + 1) = KeysOf(ops, N)
  BY <1>1, <1>2 DEF KeysOf
<1>4. (G!TypeOK)'
  <2>1. G!WarmupUpserts \in Nat /\ NUM_OPS \in Nat
    BY ConfigAssumption DEF G!WarmupUpserts, G!Lesser
  <2>2. Len(ops') <= G!WarmupUpserts + NUM_OPS
    BY <2>1
  <2> QED
    BY <2>2 DEF LiveInv, G!TypeOK, G!Slots, G!WarmupUpserts, G!Lesser
<1>5. live' = live /\ trace_next_doc_id' = trace_next_doc_id
  OBVIOUS
<1> QED
  BY <1>1, <1>2, <1>3, <1>4, <1>5 DEF LiveInv

(* A query gets the ranking of what is live, of which there is something      *)
(* after a warm-up.                                                           *)
LEMMA KnnKeeps ==
  ASSUME GenInv, NEW query \in Templates, Len(ops) < G!WarmupUpserts + NUM_OPS,
         WARMUP > 0 => Len(ops) > 0,
         ops' = Append(ops, [op |-> "knn", query |-> query, k |-> K,
                             truth |-> G!BruteForceKnn(query, K)]),
         UNCHANGED <<live, trace_next_doc_id>>
  PROVE  GenInv'
<1> DEFINE N == Len(ops)
           truth == G!BruteForceKnn(query, K)
           o == [op |-> "knn", query |-> query, k |-> K, truth |-> truth]
<1>1. /\ \A dist : AreDistances(dist, ops, query, N) => truth = Ranked(dist, K)
      /\ truth \in Seq(Nat) /\ Len(truth) <= K
      /\ \A n \in DOMAIN truth : truth[n] \in IdsOf(ops, N)
      /\ \A m, n \in DOMAIN truth : m # n => truth[m] # truth[n]
      /\ K > 0 /\ DOMAIN live # {} => truth # << >>
  BY TruthRanks DEF GenInv
<1>2. WARMUP > 0 => DOMAIN live # {}
  BY DEF GenInv, LiveInv
<1> HIDE DEF truth
<1>3. o \in KnnOps
  BY <1>1 DEF KnnOps
<1>4. ops' = Append(ops, o)
  BY DEF truth
<1>5. OpsInv'
  <2>1. Fits(o)
    BY <1>1, <1>3 DEF Fits
  <2> QED
    BY <1>4, <2>1, OpsGrow DEF GenInv
<1>6. G!TruthsMeasurable'
  <2>1. o.truth = truth
    OBVIOUS
  <2> HIDE DEF o
  <2> QED
    BY <1>1, <1>2, <1>3, <1>4, <2>1, TruthsGrow DEF GenInv
<1>7. /\ N \in Nat /\ Len(ops') = N + 1 /\ ops'[N + 1].op # "upsert"
      /\ \A i \in 1 .. N : ops'[i] = ops[i]
  BY <1>3, <1>4, Appended DEF GenInv
<1> QED
  BY <1>5, <1>6, <1>7, LiveInvStays DEF GenInv

(* A scan starts at a slot and ends at a later one or past the last.          *)
LEMMA ScanKeeps ==
  ASSUME GenInv, NEW start \in G!Slots, Len(ops) < G!WarmupUpserts + NUM_OPS,
         WARMUP > 0 => Len(ops) > 0,
         ops' = Append(ops, [op |-> "scan", start |-> start, end |-> G!ScanEnd(start)]),
         UNCHANGED <<live, trace_next_doc_id>>
  PROVE  GenInv'
<1> DEFINE N == Len(ops)
           o == [op |-> "scan", start |-> start, end |-> G!ScanEnd(start)]
<1>1. G!ScanEnd(start) \in Nat /\ start <= G!ScanEnd(start)
  BY ConfigAssumption DEF G!ScanEnd, G!Lesser, G!Slots
<1>2. o \in ScanOps /\ o.start <= o.end /\ o.op = "scan"
  BY <1>1 DEF ScanOps
<1>3. ops' = Append(ops, o)
  OBVIOUS
<1> HIDE DEF o
<1>4. OpsInv'
  BY <1>2, <1>3, OpsGrow DEF GenInv, Fits
<1>5. G!TruthsMeasurable'
  BY <1>2, <1>3, TruthsGrow DEF GenInv
<1>6. /\ N \in Nat /\ Len(ops') = N + 1 /\ ops'[N + 1].op # "upsert"
      /\ \A i \in 1 .. N : ops'[i] = ops[i]
  BY <1>2, <1>3, Appended DEF GenInv
<1> QED
  BY <1>4, <1>5, <1>6, LiveInvStays DEF GenInv

(* Every step of the generator, while its trace is not whole.                 *)
LEMMA GenerateKeeps ==
  ASSUME GenInv, G!Generate
  PROVE  /\ GenInv' /\ ~G!Generated
         /\ Len(ops) \in Nat /\ Len(ops') = Len(ops) + 1
<1>1. /\ KEYSPACE \in Nat \ {0} /\ WARMUP \in Nat /\ NUM_OPS \in Nat
      /\ G!WarmupUpserts \in Nat /\ G!WarmupUpserts <= KEYSPACE
      /\ WARMUP > 0 => G!WarmupUpserts > 0
  BY ConfigAssumption DEF G!WarmupUpserts, G!Lesser
<1>2. Len(ops) \in Nat /\ Len(ops) <= G!WarmupUpserts + NUM_OPS
  BY DEF GenInv, OpsInv, LiveInv, G!TypeOK
<1>3. ops \in Seq(UpsertOps \cup KnnOps \cup ScanOps)
  BY DEF GenInv, OpsInv
<1> DEFINE Good == GenInv' /\ ~G!Generated /\ Len(ops') = Len(ops) + 1
<1>4. ASSUME G!Mixing
      PROVE  /\ Len(ops) < G!WarmupUpserts + NUM_OPS /\ ~G!Generated
             /\ WARMUP > 0 => Len(ops) > 0
  BY <1>1, <1>2, <1>4 DEF G!Mixing, G!Generated
<1>5. ASSUME NEW o, ops' = Append(ops, o) PROVE Len(ops') = Len(ops) + 1
  BY <1>3, <1>5
<1>6. ASSUME NEW slot, NEW value, NEW vector, G!MakeUpsert(slot, value, vector)
      PROVE  Len(ops') = Len(ops) + 1
  BY <1>5, <1>6 DEF G!MakeUpsert
<1>7. ASSUME G!Warmup PROVE Good
  <2>1. PICK value \in Values, vector \in Vectors :
          G!DimOK(vector) /\ G!MakeUpsert(Len(ops), value, vector)
    BY <1>7 DEF G!Warmup
  <2>2. /\ Len(ops) < G!WarmupUpserts + NUM_OPS /\ Len(ops) \in G!Slots /\ ~G!Generated
    BY <1>1, <1>2, <1>7 DEF G!Warmup, G!Slots, G!Generated
  <2>3. DimOK(vector)
    BY <2>1 DEF DimOK, G!DimOK
  <2> QED
    BY <1>6, <2>1, <2>2, <2>3, MakeUpsertKeeps
<1>8. ASSUME G!GenerateUpsert PROVE Good
  <2>1. PICK slot \in G!Slots, value \in Values, vector \in Vectors :
          G!DimOK(vector) /\ G!MakeUpsert(slot, value, vector)
    BY <1>8 DEF G!GenerateUpsert
  <2>2. DimOK(vector)
    BY <2>1 DEF DimOK, G!DimOK
  <2> QED
    BY <1>4, <1>6, <1>8, <2>1, <2>2, MakeUpsertKeeps DEF G!GenerateUpsert
<1>9. ASSUME G!GenerateKnn PROVE Good
  <2>1. PICK query \in Templates :
          ops' = Append(ops, [op |-> "knn", query |-> query, k |-> K,
                              truth |-> G!BruteForceKnn(query, K)])
    BY <1>9 DEF G!GenerateKnn
  <2>2. G!Mixing /\ UNCHANGED <<live, trace_next_doc_id>>
    BY <1>9 DEF G!GenerateKnn
  <2> QED
    BY <1>4, <1>5, <2>1, <2>2, KnnKeeps
<1>10. ASSUME G!GenerateScan PROVE Good
  <2>1. PICK start \in G!Slots :
          ops' = Append(ops, [op |-> "scan", start |-> start, end |-> G!ScanEnd(start)])
    BY <1>10 DEF G!GenerateScan, G!KeyFor
  <2>2. G!Mixing /\ UNCHANGED <<live, trace_next_doc_id>>
    BY <1>10 DEF G!GenerateScan
  <2> QED
    BY <1>4, <1>5, <2>1, <2>2, ScanKeeps
<1> QED
  BY <1>2, <1>7, <1>8, <1>9, <1>10 DEF G!Generate
-----------------------------------------------------------------------------
(* The replay only reads the trace.                                           *)
LEMMA GenStays ==
  ASSUME GenInv, UNCHANGED genvars
  PROVE  GenInv'
<1>1. live' = live /\ trace_next_doc_id' = trace_next_doc_id /\ ops' = ops
  BY DEF genvars
<1>2. OpsInv'
  BY <1>1 DEF GenInv, OpsInv
<1>3. (G!TruthsMeasurable)'
  BY <1>1 DEF GenInv, G!TruthsMeasurable
<1>4. (G!TypeOK)'
  BY <1>1 DEF GenInv, LiveInv, G!TypeOK, G!WarmupUpserts, G!Lesser
<1>5. LiveInv'
  BY <1>1, <1>4 DEF GenInv, LiveInv
<1> QED
  BY <1>2, <1>3, <1>5 DEF GenInv

(* The calls and the rows are those that the theorems about the memtable name.*)
LEMMA SamePut ==
  ASSUME NEW key, NEW value, NEW vector, M!Put(key, value, vector)
  PROVE  MP!Put(key, value, vector)
BY DEF M!Put, MP!Put, M!Charge, MP!Charge, M!PutCharge, MP!PutCharge, M!NextId, MP!NextId,
       M!MapInsert, MP!MapInsert, M!PutSlot, MP!PutSlot, M!DropDisplaced, MP!DropDisplaced,
       M!Displaced, MP!Displaced, M!Vectored, MP!Vectored, M!Live, MP!Live,
       M!NoDocId, MP!NoDocId, M!Accepted, MP!Accepted, M!DimOK, MP!DimOK,
       M!ENTRY_OVERHEAD, MP!ENTRY_OVERHEAD, M!F32_BYTES, MP!F32_BYTES

(* Both instances of the memtable read the same rows off the map.             *)
LEMMA SameVectored ==
  /\ M!Vectored(map) = MP!Vectored(map)
  /\ M!Vectored(map) = {k \in DOMAIN map : map[k].kind = "put" /\ map[k].doc_id # NoDocId}
  /\ M!Live(map) = {k \in DOMAIN map : map[k].kind = "put"}
BY DEF M!Vectored, MP!Vectored, M!Live, MP!Live, M!NoDocId, MP!NoDocId, NoDocId

(* Every row of the memtable has a vector, and the side-table holds the       *)
(* versions that are live at this point of the trace and no other.            *)
LEMMA MemtableFacts ==
  ASSUME OpsInv, MP!IInv, MapInv, replayed \in 0 .. Len(ops)
  PROVE  /\ next_doc_id \in Nat /\ DOMAIN vectors \subseteq Nat
         /\ \A id \in DOMAIN vectors : vectors[id] \in Vectors /\ DimOK(vectors[id])
         /\ M!Vectored(map) = DOMAIN map /\ M!Live(map) = DOMAIN map
         /\ \A j \in Latest(ops, replayed) :
              /\ ops[j] \in UpsertOps /\ ops[j].key \in DOMAIN map
              /\ map[ops[j].key].doc_id = ops[j].doc_id
              /\ ops[j].doc_id \in DOMAIN vectors /\ ops[j].doc_id < next_doc_id
         /\ \A k, l \in DOMAIN map : map[k].doc_id = map[l].doc_id => k = l
         /\ DOMAIN vectors = IdsOf(ops, replayed)
<1>1. MP!TypeOK /\ MP!FlushNeverPanics /\ MP!OnlyLiveVectors /\ MP!OneRowPerDocId
  BY DEF MP!IInv
<1>2. /\ next_doc_id \in Nat /\ DOMAIN vectors \subseteq Nat
      /\ \A id \in DOMAIN vectors : vectors[id] \in Vectors /\ DimOK(vectors[id])
  BY <1>1 DEF MP!TypeOK, MP!DimOK, DimOK
<1>3. \A j \in Latest(ops, replayed) : ops[j] \in UpsertOps
  BY LatestInRange DEF OpsInv, KnnOps, ScanOps
<1>4. ASSUME NEW j \in Latest(ops, replayed)
      PROVE  /\ ops[j].key \in DOMAIN map /\ map[ops[j].key].kind = "put"
             /\ map[ops[j].key].doc_id = ops[j].doc_id
             /\ map[ops[j].key].doc_id # NoDocId
  <2>1. map[ops[j].key] = M!PutSlot(ops[j].value, ops[j].doc_id) /\ ops[j].key \in DOMAIN map
    BY DEF MapInv, KeysOf
  <2>2. map[ops[j].key].kind = "put" /\ map[ops[j].key].doc_id = ops[j].doc_id
    BY <2>1 DEF M!PutSlot
  <2>3. ops[j].doc_id # NoDocId
    BY <1>3 DEF UpsertOps, NoDocId
  <2> QED
    BY <2>1, <2>2, <2>3
<1>5. \A k \in DOMAIN map : \E j \in Latest(ops, replayed) : k = ops[j].key
  BY DEF MapInv, KeysOf
<1>6. \A k \in DOMAIN map : map[k].kind = "put" /\ map[k].doc_id # NoDocId
  BY <1>4, <1>5
<1>7. M!Vectored(map) = DOMAIN map /\ M!Live(map) = DOMAIN map /\ MP!Vectored(map) = DOMAIN map
  BY <1>6, SameVectored
<1>8. \A k \in DOMAIN map : map[k].doc_id \in DOMAIN vectors /\ map[k].doc_id < next_doc_id
  BY <1>1, <1>7 DEF MP!FlushNeverPanics, MP!OneRowPerDocId
<1>9. \A k, l \in DOMAIN map : map[k].doc_id = map[l].doc_id => k = l
  BY <1>1, <1>7 DEF MP!OneRowPerDocId
<1>10. \A id \in DOMAIN vectors : \E k \in DOMAIN map : map[k].doc_id = id
  BY <1>1, <1>7 DEF MP!OnlyLiveVectors
<1>11. DOMAIN vectors = IdsOf(ops, replayed)
  <2>1. \A id \in DOMAIN vectors : \E j \in Latest(ops, replayed) : id = ops[j].doc_id
    BY <1>4, <1>5, <1>10
  <2>2. \A j \in Latest(ops, replayed) : ops[j].doc_id \in DOMAIN vectors
    BY <1>4, <1>8
  <2> QED
    BY <2>1, <2>2 DEF IdsOf
<1> QED
  BY <1>2, <1>3, <1>4, <1>7, <1>8, <1>9, <1>11

(* A put of the trace gets the id the trace promised, and retires the version *)
(* the generator retired.                                                     *)
LEMMA UpsertReplays ==
  ASSUME IInv, ReplayUpsert
  PROVE  IInv'
<1> DEFINE n == replayed
<1>1. /\ op.op = "upsert" /\ M!Put(op.key, op.value, op.vector)
      /\ status' = IF reply'.doc_id = op.doc_id THEN status ELSE "panicked"
      /\ replayed' = n + 1 /\ recalls' = recalls /\ UNCHANGED genvars
      /\ G!Generated /\ n < Len(ops) /\ status = "running"
  BY DEF ReplayUpsert, Replaying
<1>2. ops' = ops
  BY <1>1 DEF genvars
<1>3. n \in 0 .. Len(ops) /\ Len(ops) \in Nat
  BY DEF IInv, GenInv, OpsInv, ReplayInv
<1>4. n \in Nat /\ n + 1 \in 1 .. Len(ops)
  BY <1>1, <1>3
<1>5. op = ops[n + 1]
  BY DEF op
<1>6. ops[n + 1] \in UpsertOps
  BY <1>1, <1>4, <1>5 DEF IInv, GenInv, OpsInv, KnnOps, ScanOps
<1>7. ops[n + 1].doc_id = next_doc_id
  <2> DEFINE i == n + 1
  <2>1. i \in Ups(ops, Len(ops)) /\ i - 1 = n
    BY <1>1, <1>4, <1>5 DEF Ups
  <2>2. next_doc_id = Cardinality(Ups(ops, n))
    BY DEF IInv, MapInv
  <2> HIDE DEF i, n
  <2>3. ops[i].doc_id = Cardinality(Ups(ops, i - 1))
    BY <2>1 DEF IInv, GenInv, OpsInv
  <2> QED
    BY <2>1, <2>2, <2>3 DEF i
<1> DEFINE key    == ops[n + 1].key
           value  == ops[n + 1].value
           vector == ops[n + 1].vector
           id     == next_doc_id
<1>8. key \in G!Slots /\ value \in Values /\ vector \in Vectors
  BY <1>6 DEF UpsertOps
<1>9. key \in Keys /\ vector # NoVector
  BY <1>8, Parameters, ConfigAssumption DEF G!Slots
<1>10. /\ next_doc_id' = id + 1
       /\ map' = [k \in DOMAIN map \cup {key} |-> IF k = key THEN M!PutSlot(value, id) ELSE map[k]]
       /\ vectors' = [x \in (DOMAIN vectors \cup {id}) \ M!Displaced(key) |->
                        IF x = id THEN vector ELSE vectors[x]]
       /\ reply'.doc_id = id
  <2>1. M!Put(key, value, vector)
    BY <1>1, <1>5
  <2> HIDE DEF key, value, vector
  <2> QED
    BY <1>9, <2>1 DEF M!Put, M!NextId, M!MapInsert, M!DropDisplaced
<1>11. MP!IInv'
  BY <1>1, <1>5, <1>8, <1>9, SamePut, Parameters, MP!PutIInv DEF IInv
<1>12. status' = "running"
  BY <1>1, <1>5, <1>7, <1>10
<1>13. next_doc_id' = Cardinality(Ups(ops, n + 1))
  BY <1>1, <1>4, <1>5, <1>10, UpsertAdvances DEF IInv, MapInv
<1>14. /\ DOMAIN map' = KeysOf(ops, n + 1)
       /\ \A j \in Latest(ops, n + 1) :
            map'[ops[j].key] = M!PutSlot(ops[j].value, ops[j].doc_id)
  <2> DEFINE row == [j \in 1 .. n + 1 |-> M!PutSlot(ops[j].value, ops[j].doc_id)]
  <2>1. DOMAIN map = KeysOf(ops, n)
    BY DEF IInv, MapInv
  <2>2. \A j \in Latest(ops, n) : map[ops[j].key] = row[j]
    <3> SUFFICES ASSUME NEW j \in Latest(ops, n) PROVE map[ops[j].key] = row[j]
      OBVIOUS
    <3>1. j \in 1 .. n + 1
      BY <1>4, LatestInRange
    <3> QED
      BY <3>1 DEF IInv, MapInv
  <2>3. map' = [k \in DOMAIN map \cup {ops[n + 1].key} |->
                  IF k = ops[n + 1].key THEN row[n + 1] ELSE map[k]]
    BY <1>4, <1>7, <1>10
  <2>4. \A j \in Latest(ops, n + 1) : row[j] = M!PutSlot(ops[j].value, ops[j].doc_id)
    BY <1>4, LatestInRange
  <2> HIDE DEF row
  <2>5. ops[n + 1].op = "upsert"
    BY <1>1, <1>5
  <2>6. DOMAIN map' = KeysOf(ops, n + 1) /\ \A j \in Latest(ops, n + 1) : map'[ops[j].key] = row[j]
    <3> DEFINE g == map'
    <3>1. n \in Nat /\ g = [k \in DOMAIN map \cup {ops[n + 1].key} |->
                            IF k = ops[n + 1].key THEN row[n + 1] ELSE map[k]]
      BY <1>4, <2>3
    <3> HIDE DEF g, n
    <3>2. DOMAIN g = KeysOf(ops, n + 1) /\ \A j \in Latest(ops, n + 1) : g[ops[j].key] = row[j]
      BY <2>1, <2>2, <2>5, <3>1, TableAdvances
    <3> QED
      BY <3>2 DEF g
  <2> QED
    BY <2>4, <2>6
<1>15. \A j \in Latest(ops, n + 1) : vectors'[ops[j].doc_id] = ops[j].vector
  <2>1. Latest(ops, n + 1) = {n + 1} \cup {j \in Latest(ops, n) : ops[j].key # key}
    BY <1>1, <1>4, <1>5, UpsertAdvances
  <2>2. /\ \A k \in DOMAIN map : map[k].doc_id < id
        /\ M!Displaced(key) = {map[k].doc_id : k \in {key} \cap DOMAIN map}
        /\ \A k, l \in DOMAIN map : map[k].doc_id = map[l].doc_id => k = l
        /\ id \in Nat
    <3>1. \A k \in DOMAIN map : \E j \in Latest(ops, n) : k = ops[j].key
      BY DEF IInv, MapInv, KeysOf
    <3> QED
      BY <1>3, <3>1, MemtableFacts DEF IInv, GenInv, M!Displaced
  <2>3. vectors'[id] = vector
    <3>1. id \notin M!Displaced(key)
      BY <2>2
    <3> QED
      BY <1>10, <3>1
  <2>4. ASSUME NEW j \in Latest(ops, n), ops[j].key # key
        PROVE  vectors'[ops[j].doc_id] = ops[j].vector
    <3>1. /\ ops[j].key \in DOMAIN map /\ map[ops[j].key].doc_id = ops[j].doc_id
          /\ ops[j].doc_id \in DOMAIN vectors /\ ops[j].doc_id < id
          /\ vectors[ops[j].doc_id] = ops[j].vector
      BY <1>3, MemtableFacts DEF IInv, GenInv, MapInv
    <3>2. ops[j].doc_id \notin M!Displaced(key)
      BY <2>2, <2>4, <3>1
    <3>3. ops[j].doc_id # id
      BY <2>2, <3>1
    <3> QED
      BY <1>10, <3>1, <3>2, <3>3
  <2> QED
    BY <1>7, <2>1, <2>3, <2>4
<1>16. MapInv'
  BY <1>1, <1>2, <1>13, <1>14, <1>15 DEF MapInv
<1>17. ReplayInv'
  <2>1. \A i \in 1 .. n + 1 : i \in 1 .. n \/ i = n + 1
    BY <1>4
  <2>2. recalls' = <<>> => \A i \in 1 .. n + 1 : ops[i].op # "knn"
    BY <1>1, <1>5, <2>1 DEF IInv, ReplayInv
  <2> QED
    BY <1>1, <1>2, <1>4, <1>12, <2>2 DEF IInv, ReplayInv, G!Generated, G!WarmupUpserts, G!Lesser
<1> QED
  BY <1>1, <1>11, <1>16, <1>17, GenStays DEF IInv

(* Queries and scans leave the memtable alone, and the walk goes on.          *)
LEMMA QueryKeeps ==
  ASSUME IInv, Replaying, UNCHANGED genvars, UNCHANGED memvars, replayed' = replayed + 1,
         op.op # "upsert", status' = "running", recalls' \in Seq(Nat \X Nat),
         recalls' = <<>> => recalls = <<>> /\ op.op # "knn",
         \A i \in DOMAIN recalls' : recalls'[i][1] = recalls'[i][2]
  PROVE  IInv'
<1> DEFINE n == replayed
<1>1. n \in Nat /\ n + 1 \in 1 .. Len(ops) /\ G!Generated
  BY DEF IInv, GenInv, OpsInv, ReplayInv, Replaying
<1>2. /\ ops' = ops /\ map' = map /\ vectors' = vectors /\ next_doc_id' = next_doc_id
      /\ approx_bytes' = approx_bytes
  BY DEF genvars, memvars
<1>3. ops[n + 1].op # "upsert"
  BY DEF op
<1>4. Ups(ops, n + 1) = Ups(ops, n) /\ Latest(ops, n + 1) = Latest(ops, n)
  BY <1>1, <1>3, OthersStay
<1>5. KeysOf(ops, n + 1) = KeysOf(ops, n)
  BY <1>4 DEF KeysOf
<1>6. MapInv'
  BY <1>2, <1>4, <1>5 DEF IInv, MapInv
<1>7. ReplayInv'
  <2>1. \A i \in 1 .. n + 1 : i \in 1 .. n \/ i = n + 1
    BY <1>1
  <2>2. recalls' = <<>> => \A i \in 1 .. n + 1 : ops[i].op # "knn"
    BY <2>1 DEF IInv, ReplayInv, op
  <2> QED
    BY <1>1, <1>2, <2>2 DEF IInv, ReplayInv, G!Generated, G!WarmupUpserts, G!Lesser
<1>8. MP!IInv'
  BY <1>2, Parameters, MP!UnchangedIInv DEF IInv, MP!memvars
<1> QED
  BY <1>6, <1>7, <1>8, GenStays DEF IInv

(* An answer that is the truth is all hits.                                   *)
LEMMA TruthHitsAll ==
  ASSUME NEW truth \in Seq(Nat)
  PROVE  /\ G!Recall(truth, truth) \in Nat \X Nat
         /\ G!Recall(truth, truth)[1] = G!Recall(truth, truth)[2]
<1>1. {i \in DOMAIN truth : \E j \in DOMAIN truth : truth[j] = truth[i]} = 1 .. Len(truth)
  OBVIOUS
<1>2. Len(truth) \in Nat /\ 1 \in Int /\ Len(truth) \in Int
  OBVIOUS
<1>3. Cardinality(1 .. Len(truth)) = Len(truth)
  <2> DEFINE n == Len(truth)
  <2>1. n \in Nat /\ 1 \in Int /\ n \in Int
    BY <1>2
  <2> HIDE DEF n
  <2>2. Cardinality(1 .. n) = IF 1 > n THEN 0 ELSE n - 1 + 1
    BY <2>1, FS_Interval
  <2>3. Cardinality(1 .. n) = n
    BY <2>1, <2>2
  <2> QED
    BY <2>3 DEF n
<1>4. \A S : G!Cardinality(S) = Cardinality(S)
  BY DEF G!Cardinality, Cardinality
<1>5. G!Recall(truth, truth) = IF truth = << >> THEN <<1, 1>> ELSE <<Len(truth), Len(truth)>>
  <2>1. G!Cardinality({i \in DOMAIN truth : \E j \in DOMAIN truth : truth[j] = truth[i]}) = Len(truth)
    BY <1>1, <1>3, <1>4
  <2> QED
    BY <2>1 DEF G!Recall
<1> QED
  BY <1>2, <1>5

(* knn over the side-table finds what the generator found in its own table.   *)
LEMMA KnnFindsTruth ==
  ASSUME IInv, Replaying, op.op = "knn", M!Knn(op.query, op.k)
  PROVE  op.truth \in Seq(Nat) /\ reply'.ids = op.truth
<1> DEFINE n    == replayed
           i    == n + 1
           dist == M!DistancesTo(op.query, vectors)
<1>1. n \in 0 .. Len(ops) /\ n \in Nat /\ i \in 1 .. Len(ops) /\ i - 1 = n
  BY DEF IInv, GenInv, OpsInv, ReplayInv, Replaying
<1>2. op = ops[i]
  BY DEF op
<1> HIDE DEF i, n
<1>3. op \in KnnOps
  BY <1>1, <1>2 DEF IInv, GenInv, OpsInv, UpsertOps, ScanOps
<1>4. op.query \in Templates /\ op.k = K /\ op.truth \in Seq(Nat)
  BY <1>3 DEF KnnOps
<1>5. /\ DOMAIN vectors = IdsOf(ops, n)
      /\ \A id \in DOMAIN vectors : vectors[id] \in Vectors /\ DimOK(vectors[id])
      /\ \A j \in Latest(ops, n) : ops[j].doc_id \in DOMAIN vectors
      /\ \A j \in Latest(ops, n) : vectors[ops[j].doc_id] = ops[j].vector
  BY <1>1, MemtableFacts DEF IInv, GenInv, MapInv, n
<1>6. dist = [id \in DOMAIN vectors |-> Distance[op.query][vectors[id]]]
  BY DEF M!DistancesTo
<1> HIDE DEF dist
<1>7. AreDistances(dist, ops, op.query, n)
  BY <1>5, <1>6 DEF AreDistances
<1>8. op.truth = Ranked(dist, K)
  BY <1>1, <1>2, <1>7 DEF IInv, GenInv, OpsInv
<1>9. M!Comparable(dist)
  <2>1. \A id \in DOMAIN dist : dist[id] \in Int
    BY <1>4, <1>5, <1>6, DistancesAreNumbers
  <2> QED
    BY <2>1, Parameters DEF M!Comparable
<1>10. reply'.ids = M!Ranked(dist, op.k)
  BY <1>9 DEF M!Knn, dist
<1> QED
  BY <1>4, <1>8, <1>10, SameRanking

(* The three kinds of operation, replayed.                                    *)
LEMMA KnnReplays ==
  ASSUME IInv, ReplayKnn
  PROVE  IInv'
<1>1. /\ Replaying /\ op.op = "knn" /\ M!Knn(op.query, op.k)
      /\ recalls' = Append(recalls, G!Recall(op.truth, reply'.ids))
      /\ replayed' = replayed + 1 /\ status' = status /\ UNCHANGED genvars
  BY DEF ReplayKnn
<1>2. UNCHANGED memvars
  BY <1>1 DEF M!Knn, M!memvars, memvars
<1> DEFINE r == G!Recall(op.truth, op.truth)
<1>3. recalls' = Append(recalls, r) /\ r \in Nat \X Nat /\ r[1] = r[2]
  BY <1>1, KnnFindsTruth, TruthHitsAll
<1> HIDE DEF r
<1>4. /\ recalls \in Seq(Nat \X Nat) /\ status = "running"
      /\ \A i \in DOMAIN recalls : recalls[i][1] = recalls[i][2]
  BY <1>1 DEF IInv, ReplayInv, Replaying
<1>5. /\ recalls' \in Seq(Nat \X Nat) /\ recalls' # <<>>
      /\ \A i \in DOMAIN recalls' : recalls'[i][1] = recalls'[i][2]
  BY <1>3, <1>4
<1> QED
  BY <1>1, <1>2, <1>4, <1>5, QueryKeeps

(* A scan of the trace is never inverted, so it does not panic.               *)
LEMMA ScanReplays ==
  ASSUME IInv, ReplayScan
  PROVE  IInv'
<1>1. /\ Replaying /\ op.op = "scan" /\ M!Scan(<<op.start, op.end>>)
      /\ status' = IF reply'.op = "panic" THEN "panicked" ELSE status
      /\ replayed' = replayed + 1 /\ recalls' = recalls /\ UNCHANGED genvars
  BY DEF ReplayScan
<1>2. UNCHANGED memvars
  BY <1>1 DEF M!Scan, M!memvars, memvars
<1>3. replayed + 1 \in 1 .. Len(ops)
  BY <1>1 DEF IInv, GenInv, OpsInv, ReplayInv, Replaying
<1>4. op.start \in Nat /\ op.end \in Nat /\ op.start <= op.end
  <2>1. ops[replayed + 1] \in ScanOps
    BY <1>1, <1>3 DEF op, IInv, GenInv, OpsInv, UpsertOps, KnnOps
  <2>2. ops[replayed + 1].start <= ops[replayed + 1].end
    BY <1>1, <1>3 DEF op, IInv, GenInv, OpsInv
  <2> QED
    BY <2>1, <2>2, ConfigAssumption DEF op, ScanOps, G!Slots
<1>5. reply'.op = "scan"
  <2>1. ~(op.start > op.end)
    BY <1>4
  <2> QED
    BY <1>1, <2>1 DEF M!Scan
<1>6. /\ recalls \in Seq(Nat \X Nat) /\ status = "running"
      /\ \A i \in DOMAIN recalls : recalls[i][1] = recalls[i][2]
  BY <1>1 DEF IInv, ReplayInv, Replaying
<1>7. /\ status' = "running" /\ recalls' \in Seq(Nat \X Nat)
      /\ \A i \in DOMAIN recalls' : recalls'[i][1] = recalls'[i][2]
  BY <1>1, <1>5, <1>6
<1> QED
  BY <1>1, <1>2, <1>7, QueryKeeps

(* While the trace is still generated nothing has been replayed.              *)
LEMMA GenerateStep ==
  ASSUME IInv, Generate
  PROVE  IInv'
<1>1. GenInv' /\ ~G!Generated /\ Len(ops) \in Nat /\ Len(ops') = Len(ops) + 1
  BY GenerateKeeps DEF IInv, Generate
<1>2. /\ map' = map /\ vectors' = vectors /\ next_doc_id' = next_doc_id
      /\ approx_bytes' = approx_bytes
      /\ replayed' = replayed /\ recalls' = recalls /\ status' = status
  BY DEF Generate, memvars, benchvars
<1>3. replayed = 0
  BY <1>1 DEF IInv, ReplayInv
<1>4. Ups(ops', 0) = Ups(ops, 0) /\ Latest(ops', 0) = {} /\ Latest(ops, 0) = {}
  BY LatestInRange
<1>5. MapInv'
  BY <1>2, <1>3, <1>4 DEF IInv, MapInv, KeysOf
<1>6. ReplayInv'
  BY <1>1, <1>2, <1>3 DEF IInv, ReplayInv
<1>7. MP!IInv'
  BY <1>2, Parameters, MP!UnchangedIInv DEF IInv, MP!memvars
<1> QED
  BY <1>1, <1>5, <1>6, <1>7 DEF IInv

(* The report reads what the replay left.                                     *)
LEMMA ReportStep ==
  ASSUME IInv, Report
  PROVE  IInv'
<1>1. /\ ops' = ops /\ map' = map /\ vectors' = vectors /\ next_doc_id' = next_doc_id
      /\ approx_bytes' = approx_bytes /\ UNCHANGED genvars
      /\ replayed' = replayed /\ recalls' = recalls
  BY DEF Report, genvars, memvars
<1>2. /\ G!Generated /\ replayed = Len(ops)
      /\ status' \in {"no_knn", "reported"}
      /\ status' = "no_knn" => recalls = <<>>
  BY DEF Report
<1>3. MapInv'
  BY <1>1 DEF IInv, MapInv
<1>4. (G!Generated)'
  BY <1>1, <1>2 DEF G!Generated, G!WarmupUpserts, G!Lesser
<1>5. ReplayInv'
  <2>1. ReplayInv
    BY DEF IInv
  <2>2. /\ replayed' \in 0 .. Len(ops') /\ recalls' \in Seq(Nat \X Nat)
        /\ \A i \in DOMAIN recalls' : recalls'[i][1] = recalls'[i][2]
        /\ recalls' = <<>> => \A i \in 1 .. replayed' : ops'[i].op # "knn"
    BY <1>1, <2>1 DEF ReplayInv
  <2>3. /\ status' \in {"running", "no_knn", "reported"}
        /\ status' = "no_knn" => recalls' = <<>>
        /\ replayed' = Len(ops')
    BY <1>1, <1>2
  <2> QED
    BY <1>4, <2>2, <2>3 DEF ReplayInv
<1>6. MP!IInv'
  BY <1>1, Parameters, MP!UnchangedIInv DEF IInv, MP!memvars
<1> QED
  BY <1>1, <1>3, <1>5, <1>6, GenStays DEF IInv

(* An empty trace and a fresh memtable agree.                                 *)
LEMMA InitInv == ASSUME Init PROVE IInv
<1>1. /\ live = << >> /\ trace_next_doc_id = 0 /\ ops = << >>
      /\ map = << >> /\ vectors = << >> /\ next_doc_id = 0 /\ approx_bytes = 0
      /\ replayed = 0 /\ recalls = << >> /\ status = "running"
  BY DEF Init, G!Init, M!Init, G!EmptyMap, M!EmptyMap
<1>2. Ups(ops, 0) = {} /\ Latest(ops, 0) = {} /\ Len(ops) = 0
  BY <1>1, LatestInRange
<1>3. Cardinality(Ups(ops, 0)) = 0
  BY <1>2, FS_EmptySet
<1>4. OpsInv /\ G!TruthsMeasurable
  BY <1>1, <1>2 DEF OpsInv, G!TruthsMeasurable
<1>5. LiveInv
  <2>1. G!WarmupUpserts \in Nat /\ NUM_OPS \in Nat
    BY ConfigAssumption DEF G!WarmupUpserts, G!Lesser
  <2>2. G!TypeOK
    BY <1>1, <1>2, <2>1 DEF G!TypeOK
  <2> QED
    BY <1>1, <1>2, <1>3, <2>2 DEF LiveInv, KeysOf
<1>6. MP!IInv
  BY <1>1, Parameters, MP!InitIInv DEF Init, M!Init, MP!Init, M!EmptyMap, MP!EmptyMap
<1>7. MapInv /\ ReplayInv
  BY <1>1, <1>2, <1>3 DEF MapInv, ReplayInv, KeysOf
<1> QED
  BY <1>4, <1>5, <1>6, <1>7 DEF IInv, GenInv

(* Every step of generator and replay.                                        *)
LEMMA StepInv == ASSUME IInv, [Next]_vars PROVE IInv'
<1>1. CASE Generate
  BY <1>1, GenerateStep
<1>2. CASE ReplayUpsert
  BY <1>2, UpsertReplays
<1>3. CASE ReplayKnn
  BY <1>3, KnnReplays
<1>4. CASE ReplayScan
  BY <1>4, ScanReplays
<1>5. CASE Report
  BY <1>5, ReportStep
<1>6. CASE UNCHANGED vars
  <2>1. /\ ops' = ops /\ map' = map /\ vectors' = vectors /\ next_doc_id' = next_doc_id
        /\ approx_bytes' = approx_bytes
        /\ replayed' = replayed /\ recalls' = recalls /\ status' = status
    BY <1>6 DEF vars, genvars, memvars, benchvars
  <2>2. GenInv'
    BY <1>6, GenStays DEF vars, IInv
  <2>3. MapInv' /\ ReplayInv'
    BY <2>1 DEF IInv, MapInv, ReplayInv, G!Generated, G!WarmupUpserts, G!Lesser
  <2>4. MP!IInv'
    BY <2>1, Parameters, MP!UnchangedIInv DEF IInv, MP!memvars
  <2> QED
    BY <2>2, <2>3, <2>4 DEF IInv
<1> QED
  BY <1>1, <1>2, <1>3, <1>4, <1>5, <1>6 DEF Next
-----------------------------------------------------------------------------
(* What the invariant is for.                                                 *)
LEMMA SoundReplay == ASSUME IInv PROVE ReplaySound
<1>1. G!TypeOK
  BY DEF IInv, GenInv, LiveInv
<1>2. M!TypeOK
  <2>1. MP!TypeOK
    BY DEF IInv, MP!IInv
  <2> QED
    BY <2>1 DEF M!TypeOK, MP!TypeOK, M!Slot, MP!Slot, M!Tombstone, MP!Tombstone,
                M!DocIds, MP!DocIds, M!NoDocId, MP!NoDocId, M!DimOK, MP!DimOK
<1>3. NeverPanics
  <2>1. ops \in Seq(UpsertOps \cup KnnOps \cup ScanOps)
    BY DEF IInv, GenInv, OpsInv
  <2> QED
    BY <2>1 DEF NeverPanics, IInv, ReplayInv
<1> QED
  BY <1>1, <1>2, <1>3 DEF ReplaySound, TypeOK, IInv, ReplayInv

(* At the end of the trace the two tables are of the same versions.           *)
LEMMA SameTables == ASSUME IInv PROVE ReplayAgrees
<1> SUFFICES ASSUME replayed = Len(ops)
             PROVE  /\ DOMAIN M!LiveRows = {G!KeyFor(slot) : slot \in DOMAIN live}
                    /\ \A slot \in DOMAIN live :
                         /\ M!LiveRows[G!KeyFor(slot)].doc_id = live[slot].doc_id
                         /\ M!LiveRows[G!KeyFor(slot)].vector = live[slot].vector
                    /\ next_doc_id = trace_next_doc_id
  BY DEF ReplayAgrees
<1> DEFINE N == Len(ops)
<1>1. /\ M!Vectored(map) = DOMAIN map /\ M!Live(map) = DOMAIN map
      /\ \A j \in Latest(ops, N) : /\ ops[j].key \in DOMAIN map
                                   /\ map[ops[j].key].doc_id = ops[j].doc_id
      /\ \A j \in Latest(ops, N) : vectors[ops[j].doc_id] = ops[j].vector
  BY MemtableFacts DEF IInv, GenInv, MapInv, ReplayInv
<1>2. DOMAIN map = KeysOf(ops, N) /\ DOMAIN live = KeysOf(ops, N)
  BY DEF IInv, GenInv, MapInv, LiveInv
<1>3. DOMAIN M!LiveRows = DOMAIN map
  BY <1>1 DEF M!LiveRows
<1>4. ASSUME NEW slot \in DOMAIN live
      PROVE  /\ M!LiveRows[slot].doc_id = live[slot].doc_id
             /\ M!LiveRows[slot].vector = live[slot].vector
  <2>1. PICK j \in Latest(ops, N) : slot = ops[j].key
    BY <1>2 DEF KeysOf
  <2>2. live[slot] = [doc_id |-> ops[j].doc_id, vector |-> ops[j].vector]
    BY <2>1 DEF IInv, GenInv, LiveInv
  <2>3. slot \in DOMAIN map
    BY <1>2
  <2>4. M!LiveRows[slot] = [value |-> map[slot].value, doc_id |-> map[slot].doc_id,
                            vector |-> vectors[map[slot].doc_id]]
    BY <1>1, <2>3 DEF M!LiveRows, M!FlushEntry
  <2> QED
    BY <1>1, <2>1, <2>2, <2>4
<1>5. next_doc_id = trace_next_doc_id
  BY DEF IInv, GenInv, MapInv, LiveInv
<1> QED
  BY <1>2, <1>3, <1>4, <1>5 DEF G!KeyFor

(* The invariant holds throughout.                                            *)
LEMMA AlwaysIInv == Spec => []IInv
<1>1. Init => IInv
  BY InitInv
<1>2. IInv /\ [Next]_vars => IInv'
  BY StepInv
<1> QED
  BY <1>1, <1>2, PTL DEF Spec

(* No assert, `expect` or panic of the replay ends a run, whatever the trace: *)
(* the memtable hands out the very ids the trace promised.  The report that   *)
(* follows fails for a trace without a query only.                            *)
THEOREM BenchNeverPanics == Spec => []ReplaySound
<1>1. IInv => ReplaySound
  BY SoundReplay
<1> QED
  BY <1>1, AlwaysIInv, PTL

(* "recall should print 1.0000", for every configuration, and every truth is  *)
(* one that recall can be measured against.                                   *)
THEOREM RecallIsAlwaysOne == Spec => []RecallIsOne
<1>1. IInv => RecallIsOne
  BY DEF IInv, GenInv, ReplayInv, RecallIsOne
<1> QED
  BY <1>1, AlwaysIInv, PTL

(* The memtable ends up with the generator's live table.                      *)
THEOREM ReplayAlwaysAgrees == Spec => []ReplayAgrees
<1>1. IInv => ReplayAgrees
  BY SameTables
<1> QED
  BY <1>1, AlwaysIInv, PTL
=============================================================================
