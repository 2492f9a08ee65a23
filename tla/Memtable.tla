------------------------------ MODULE Memtable ------------------------------
(* The in-memory write buffer of lab 1 (lab1/src/memtable.rs): a sorted map   *)
(* of slots, a side-table of vectors keyed by doc id, the doc-id counter and  *)
(* the byte estimate that decides when to flush.  `&mut self` makes a call    *)
(* atomic, so one action is one call; `reply` is what the call returned.      *)
EXTENDS Vlsm

CONSTANTS
  FirstDocId, Ranges, Ks,  \* as in Engine
  KeyLen, ValueLen,        \* bytes of each key and each value
  MaxBytes                 \* bound of the model on approx_bytes

ASSUME FirstDocIdAssumption == FirstDocId \in Nat
ASSUME BytesAssumption ==
  /\ KeyLen \in [Keys -> Nat]
  /\ ValueLen \in [Values -> Nat]
  /\ MaxBytes \in Nat
ASSUME QueriesAssumption == Ranges \subseteq Nat \X Nat /\ Ks \subseteq Nat

VARIABLES map, vectors, next_doc_id, approx_bytes, reply

memvars == <<map, vectors, next_doc_id, approx_bytes>>
vars    == <<memvars, reply>>

ENTRY_OVERHEAD == 48
F32_BYTES      == 4

PutSlot(value, id) == [kind |-> "put", value |-> value, doc_id |-> id]
Tombstone          == [kind |-> "tombstone"]
Slot == {Tombstone} \cup [kind : {"put"}, value : Values, doc_id : DocIds]

Live(m)     == {k \in DOMAIN m : m[k].kind = "put"}
Vectored(m) == {k \in Live(m) : m[k].doc_id # NoDocId}

TypeOK ==
  /\ DOMAIN map \subseteq Keys /\ map \in [DOMAIN map -> Slot]
  /\ DOMAIN vectors \subseteq Nat
  /\ vectors \in [DOMAIN vectors -> {v \in Vectors : DimOK(v)}]
  /\ next_doc_id \in Nat
  /\ approx_bytes \in Nat

Init ==  \* with_first_doc_id(dim, FirstDocId)
  /\ map = EmptyMap
  /\ vectors = EmptyMap
  /\ next_doc_id = FirstDocId
  /\ approx_bytes = 0
  /\ reply = [op |-> "none"]

IsFull(max_bytes) == approx_bytes >= max_bytes

(* approx_bytes += n, within the bound of the model.                          *)
Charge(n) == approx_bytes + n <= MaxBytes /\ approx_bytes' = approx_bytes + n

(* Bug: vectors are not charged for.                                          *)
PutChargeNoVector(key, value, vector) == KeyLen[key] + ValueLen[value] + ENTRY_OVERHEAD

PutCharge(key, value, vector) ==
  KeyLen[key] + ValueLen[value] + ENTRY_OVERHEAD
    + (IF vector = NoVector THEN 0 ELSE VecDim[vector] * F32_BYTES)

DeleteCharge(key) == KeyLen[key] + ENTRY_OVERHEAD

(* Bug: the old version is not retired.                                       *)
DisplacedNone(key) == {}

(* Bug: versions of other keys are retired with it.                           *)
DisplacedAny(key) == {map[k].doc_id : k \in Vectored(map)}

(* The doc ids of the slot that map.insert(key, ..) is about to displace.     *)
Displaced(key) == {map[k].doc_id : k \in {key} \cap Vectored(map)}

(* Drop the displaced version's vector from a side-table.                     *)
DropDisplaced(side, key) == [id \in DOMAIN side \ Displaced(key) |-> side[id]]

(* Bug: the counter does not advance.                                         *)
NextIdStuck(vector) == next_doc_id

NextId(vector) == IF vector = NoVector THEN next_doc_id ELSE next_doc_id + 1

Put(key, value, vector) ==
  LET id == IF vector = NoVector THEN NoDocId ELSE next_doc_id IN
  /\ vector \in Accepted
  /\ Charge(PutCharge(key, value, vector))
  /\ next_doc_id' = NextId(vector)
  /\ map' = MapInsert(map, key, PutSlot(value, id))
  /\ vectors' = DropDisplaced(IF vector = NoVector THEN vectors
                                                   ELSE MapInsert(vectors, id, vector), key)
  /\ reply' = [op |-> "put", doc_id |-> id]

(* check_dim()? at the top of put and of knn.                                 *)
DimMismatch(vector) ==
  /\ ~DimOK(vector)
  /\ reply' = [op |-> "dim_mismatch"]
  /\ UNCHANGED memvars

(* Bug: a key the memtable does not hold gets no tombstone.                   *)
DeleteLiveOnly(key) ==
  /\ Charge(DeleteCharge(key))
  /\ map' = IF key \in DOMAIN map THEN MapInsert(map, key, Tombstone) ELSE map
  /\ vectors' = DropDisplaced(vectors, key)
  /\ reply' = [op |-> "delete"]
  /\ UNCHANGED next_doc_id

(* A tombstone goes in whether or not the key is present: an older table on   *)
(* disk may hold it.                                                          *)
Delete(key) ==
  /\ Charge(DeleteCharge(key))
  /\ map' = MapInsert(map, key, Tombstone)
  /\ vectors' = DropDisplaced(vectors, key)
  /\ reply' = [op |-> "delete"]
  /\ UNCHANGED next_doc_id

Get(key) ==
  /\ reply' = [op |-> "get", key |-> key,
               found |-> {map[k].value : k \in {key} \cap Live(map)}]
  /\ UNCHANGED memvars

(* BTreeMap::range panics when the range starts after its end.                *)
Scan(range) ==
  /\ reply' = IF range[1] > range[2] THEN [op |-> "panic"]
              ELSE [op |-> "scan", range |-> range,
                    rows |-> [k \in {x \in Live(map) : range[1] <= x /\ x < range[2]} |->
                                map[k].value]]
  /\ UNCHANGED memvars

Knn(query, k) ==
  LET dist == DistancesTo(query, vectors) IN
  /\ DimOK(query)
  /\ \/ \E ids \in IF Comparable(dist) THEN {Ranked(dist, k)} ELSE AnyCandidates(dist, k) :
          reply' = [op |-> "knn", query |-> query, k |-> k, ids |-> ids]
     \/ ~Comparable(dist) /\ reply' = [op |-> "panic"]
  /\ UNCHANGED memvars

Next ==
  \/ \E key \in Keys, value \in Values, vector \in Vectors \cup {NoVector} :
       Put(key, value, vector)
  \/ \E vector \in Vectors : DimMismatch(vector)
  \/ \E key \in Keys : Delete(key)
  \/ \E key \in Keys : Get(key)
  \/ \E range \in Ranges : Scan(range)
  \/ \E query \in Vectors, k \in Ks : Knn(query, k)

Spec == Init /\ [][Next]_vars

-----------------------------------------------------------------------------
(* iter_for_flush: one entry per slot, tombstones included.  A vectored slot  *)
(* whose id the side-table lacks is the `expect` that panics.                 *)
FlushEntry(k) ==
  [key |-> k, slot |-> map[k],
   vector |-> IF k \in Vectored(map) THEN vectors[map[k].doc_id] ELSE NoVector]

(* Bug: the successor is opened with new(dim), so its ids start over.         *)
SuccessorFromZero ==
  /\ map' = EmptyMap
  /\ vectors' = EmptyMap
  /\ approx_bytes' = 0
  /\ next_doc_id' = 0

(* Hand-over at flush time: with_first_doc_id(dim, old.next_doc_id()).        *)
Successor ==
  /\ map' = EmptyMap
  /\ vectors' = EmptyMap
  /\ approx_bytes' = 0
  /\ UNCHANGED next_doc_id

-----------------------------------------------------------------------------
(* iter_for_flush never reaches its "side-table invariant broken" panic:      *)
(* every live version that was given a doc id still has its vector.           *)
FlushNeverPanics == \A k \in Vectored(map) : map[k].doc_id \in DOMAIN vectors

(* knn walks the side-table only, so the side-table must hold live versions   *)
(* only: overwriting, un-vectoring or deleting a row retires its vector.      *)
OnlyLiveVectors ==
  \A id \in DOMAIN vectors : \E k \in Vectored(map) : map[k].doc_id = id

(* A doc id names one version of one row, and the counter is ahead of all.    *)
OneRowPerDocId ==
  /\ \A j, k \in Vectored(map) : map[j].doc_id = map[k].doc_id => j = k
  /\ \A k \in Vectored(map) : map[k].doc_id < next_doc_id

(* The map is well typed - no vector of a wrong dimension gets in - and keyed *)
(* by versions: put, overwrite and delete in any order never give two rows one *)
(* doc id.                                                                    *)
WellFormed == TypeOK /\ OneRowPerDocId

(* What the memtable really holds, by the accounting of the flush estimate.   *)
SlotSizes ==
  [k \in DOMAIN map |->
     KeyLen[k] + ENTRY_OVERHEAD + (IF k \in Live(map) THEN ValueLen[map[k].value] ELSE 0)]
VectorSizes == [id \in DOMAIN vectors |-> VecDim[vectors[id]] * F32_BYTES]

(* approx_bytes never under-counts, so is_full is never late: the memtable    *)
(* does not outgrow memtable_max_bytes unnoticed, whatever is overwritten.    *)
EstimateCoversHeldBytes ==
  approx_bytes >= Cardinality(Bytes(SlotSizes)) + Cardinality(Bytes(VectorSizes))

(* A doc id that stops being live never comes back: a version that appears in *)
(* the side-table was numbered by this very call, past every earlier one.     *)
NeverReused ==
  /\ next_doc_id' >= next_doc_id
  /\ DOMAIN vectors' \ DOMAIN vectors \subseteq next_doc_id .. next_doc_id' - 1
DocIdsNeverReused == [][NeverReused]_vars

(* The memtable keeps the promises of the Engine trait, call by call.  A live *)
(* row's vector is the one the side-table holds under the slot's doc id.      *)
LiveRows ==
  [k \in Live(map) |->
     [value |-> map[k].value, doc_id |-> map[k].doc_id, vector |-> FlushEntry(k).vector]]

Contract == INSTANCE Engine WITH rows <- LiveRows
ImplementsEngine == Contract!Spec
=============================================================================
