------------------------------- MODULE Engine -------------------------------
(* What `trait Engine` (lab1/src/lib.rs) promises of every storage layer:     *)
(* the live rows, the doc-id sequence, and the answer to each call.  It says  *)
(* nothing of side-tables, tombstones, files or how an answer is computed.    *)
EXTENDS Vlsm

CONSTANTS
  FirstDocId,  \* where this engine's doc-id sequence starts
  Ranges,      \* the <<start, end>> pairs clients scan
  Ks           \* the k clients ask knn for

VARIABLES
  rows,         \* live rows: key -> [value, doc_id, vector]
  next_doc_id,  \* the next doc id to assign
  reply         \* what the last call returned

vars == <<rows, next_doc_id, reply>>

Row == [value : Values, doc_id : DocIds, vector : Vectors \cup {NoVector}]

Init ==
  /\ rows = EmptyMap
  /\ next_doc_id = FirstDocId
  /\ reply = [op |-> "none"]

LiveVectors ==
  [id \in {rows[k].doc_id : k \in DOMAIN rows} \ {NoDocId} |->
     (CHOOSE row \in {rows[k] : k \in DOMAIN rows} : row.doc_id = id).vector]

LiveValues(range) ==
  [k \in {x \in DOMAIN rows : range[1] <= x /\ x < range[2]} |-> rows[k].value]

(* "the engine assigns and returns a fresh DocId for this version", in strict *)
(* put order; the old version of the key becomes dead.                        *)
Put(key, value, vector) ==
  LET id == IF vector = NoVector THEN NoDocId ELSE next_doc_id IN
  /\ vector \in Accepted
  /\ rows' = MapInsert(rows, key, [value |-> value, doc_id |-> id, vector |-> vector])
  /\ next_doc_id' = IF vector = NoVector THEN next_doc_id ELSE next_doc_id + 1
  /\ reply' = [op |-> "put", doc_id |-> id]

(* Kept off the trait, but every layer must honour it.                        *)
Delete(key) ==
  /\ rows' = MapRemove(rows, key)
  /\ reply' = [op |-> "delete"]
  /\ UNCHANGED next_doc_id

(* A put or a query of the wrong dimension fails and changes nothing.         *)
Reject(vector) ==
  /\ ~DimOK(vector)
  /\ reply' = [op |-> "dim_mismatch"]
  /\ UNCHANGED <<rows, next_doc_id>>

Get(key) ==
  /\ reply' = [op |-> "get", key |-> key,
               found |-> {rows[k].value : k \in {key} \cap DOMAIN rows}]
  /\ UNCHANGED <<rows, next_doc_id>>

Scan(range) ==
  /\ reply' = [op |-> "scan", range |-> range, rows |-> LiveValues(range)]
  /\ UNCHANGED <<rows, next_doc_id>>

(* Nothing is promised while the vector of a live row has no distance to the  *)
(* query, and all of it again when that row is gone.                          *)
Knn(query, k) ==
  LET dist == DistancesTo(query, LiveVectors) IN
  /\ DimOK(query)
  /\ \/ \E ids \in AnyCandidates(dist, k) :
          /\ Comparable(dist) => NearestFirst(ids, dist, k)
          /\ reply' = [op |-> "knn", query |-> query, k |-> k, ids |-> ids]
     \/ ~Comparable(dist) /\ reply' = [op |-> "panic"]
  /\ UNCHANGED <<rows, next_doc_id>>

Next ==
  \/ \E key \in Keys, value \in Values, vector \in Vectors \cup {NoVector} :
       Put(key, value, vector)
  \/ \E key \in Keys : Delete(key) \/ Get(key)
  \/ \E vector \in Vectors : Reject(vector)
  \/ \E range \in Ranges : Scan(range)
  \/ \E query \in Vectors, k \in Ks : Knn(query, k)

Spec == Init /\ [][Next]_vars
=============================================================================
