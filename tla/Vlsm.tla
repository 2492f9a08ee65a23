-------------------------------- MODULE Vlsm --------------------------------
(* Types and helpers shared by every module of the lab 1 storage engine       *)
(* (lab1/src/lib.rs).  A key is a natural number, whose order stands for the  *)
(* lexicographic order of byte strings.  A value or a vector is one of a set; *)
(* what the engine can tell apart about it is its length and, for vectors,    *)
(* the distance to another vector.                                            *)
EXTENDS Integers, FiniteSets, Sequences

CONSTANTS
  Keys,      \* keys clients use, ordered as numbers
  Values,    \* values clients write
  Vectors,   \* vectors clients write or query with, of any dimension
  NoVector,  \* the None of Option<Vector>
  VecDim,    \* dimension of each vector
  Distance,  \* Distance[q][v]: cosine distance of q and v, scaled to integers
  NaN,       \* the distance to a vector with a NaN among its components
  Dim        \* the dimension this engine was opened with

ASSUME KeysAssumption    == Keys \subseteq Nat
ASSUME VectorsAssumption == NoVector \notin Vectors
ASSUME DimAssumption     == Dim \in Nat /\ VecDim \in [Vectors -> Nat]
ASSUME DistanceAssumption ==
  NaN \notin Int /\ Distance \in [Vectors -> [Vectors -> Int \cup {NaN}]]

(* The None of Option<DocId>; a DocId is a natural number.                    *)
NoDocId == -1
DocIds  == Nat \cup {NoDocId}

(* Memtable::check_dim, and the same test on entry to SstWriter::add.         *)
DimOK(v) == VecDim[v] = Dim

(* The Option<Vector> arguments a put does not refuse.                        *)
Accepted == {v \in Vectors : DimOK(v)} \cup {NoVector}

(* BTreeMap::insert and BTreeMap::remove on a function with a finite domain.  *)
MapInsert(f, x, y) == [z \in DOMAIN f \cup {x} |-> IF z = x THEN y ELSE f[z]]
MapRemove(f, x)    == [z \in DOMAIN f \ {x} |-> f[z]]
EmptyMap        == [x \in {} |-> 0]

(* A finite set of numbers from the least to the greatest: the n-th is the    *)
(* one that n - 1 others are below.                                           *)
Ascending(S) ==
  [n \in 1..Cardinality(S) |-> CHOOSE x \in S : Cardinality({y \in S : y < x}) = n - 1]

(* The bytes of things of known size, each byte named by its owner.           *)
Bytes(size) == UNION {{x} \X (1 .. size[x]) : x \in DOMAIN size}

(* The distances from a query to a side-table of vectors.                     *)
DistancesTo(q, vectors) == [id \in DOMAIN vectors |-> Distance[q][vectors[id]]]

(* Bug: the comparison is the wrong way round.                                *)
FartherBefore(dist, i, j) == dist[j] < dist[i] \/ (dist[i] = dist[j] /\ i < j)

(* Candidate i sorts before candidate j: nearer, ties broken by doc id.       *)
Before(dist, i, j) == dist[i] < dist[j] \/ (dist[i] = dist[j] /\ i < j)

Predecessors(dist, i) == {j \in DOMAIN dist : Before(dist, j, i)}
Position(dist, i)     == Cardinality(Predecessors(dist, i))

Lesser(m, n) == IF m < n THEN m ELSE n

(* sort_by followed by truncate(k): the n-th answer is the candidate that     *)
(* exactly n - 1 others sort before.                                          *)
Ranked(dist, k) ==
  [n \in 1..Lesser(k, Cardinality(DOMAIN dist)) |->
     CHOOSE i \in DOMAIN dist : Position(dist, i) = n - 1]

(* partial_cmp has an answer for any two of them.                             *)
Comparable(dist) == \A i \in DOMAIN dist : dist[i] # NaN

(* What is left of knn when a NaN is mapped to Equal, which is no order then: *)
(* the standard library keeps the candidates, but in any order, or panics.    *)
AnyCandidates(dist, k) ==
  {ids \in [1..Lesser(k, Cardinality(DOMAIN dist)) -> DOMAIN dist] :
     \A m, n \in DOMAIN ids : m # n => ids[m] # ids[n]}

(* What a caller is promised of a ranking, whatever breaks the ties: k   *)
(* distinct candidates (all of them when there are fewer), nearest first, and *)
(* no candidate left out is nearer than one that is returned.                 *)
NearestFirst(ids, dist, k) ==
  /\ DOMAIN ids = 1..Lesser(k, Cardinality(DOMAIN dist))
  /\ \A m \in DOMAIN ids : ids[m] \in DOMAIN dist
  /\ \A m, n \in DOMAIN ids : m < n => ids[m] # ids[n] /\ dist[ids[m]] <= dist[ids[n]]
  /\ \A m \in DOMAIN ids, i \in DOMAIN dist :
       (\A n \in DOMAIN ids : ids[n] # i) => dist[ids[m]] <= dist[i]
=============================================================================
