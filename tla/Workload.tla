------------------------------ MODULE Workload ------------------------------
(* The synthetic agent workload (lab1/src/workload.rs): warm-up upserts, then *)
(* a mix of knn, upsert and scan operations, generated ahead of any replay    *)
(* together with the ground truth each knn will be measured against.  Random  *)
(* draws are choices.                                                         *)
EXTENDS Vlsm

CONSTANTS KEYSPACE, WARMUP, NUM_OPS, SCAN_SPAN, K,  \* WorkloadConfig
          Templates                                 \* query templates

VARIABLES
  live,              \* generator's table of live versions: slot -> doc id and vector
  trace_next_doc_id, \* next doc id the trace promises
  ops                \* the trace so far

genvars == <<live, trace_next_doc_id, ops>>

Slots        == 0 .. KEYSPACE - 1

(* Bug: the last digit of the slot is cut off.                                *)
KeyForTruncated(slot) == slot \div 2

(* "doc:" and eight hex digits: below 16^8 slots (KeySpaceAssumption of Bench) *)
(* the bytes of keys are ordered as their slots are, so a key is its slot.    *)
KeyFor(slot) == slot

WarmupUpserts == Lesser(WARMUP, KEYSPACE)
Generated     == Len(ops) = WarmupUpserts + NUM_OPS

TypeOK ==
  /\ DOMAIN live \subseteq Slots
  /\ live \in [DOMAIN live -> [doc_id : Nat, vector : Vectors]]
  /\ trace_next_doc_id \in Nat
  /\ Len(ops) <= WarmupUpserts + NUM_OPS

Init ==
  /\ live = EmptyMap
  /\ trace_next_doc_id = 0
  /\ ops = <<>>

(* make_upsert: number the version, record it as live, emit the operation.    *)
MakeUpsert(slot, value, vector) ==
  /\ live' = MapInsert(live, slot, [doc_id |-> trace_next_doc_id, vector |-> vector])
  /\ trace_next_doc_id' = trace_next_doc_id + 1
  /\ ops' = Append(ops, [op |-> "upsert", key |-> KeyFor(slot), value |-> value,
                         vector |-> vector, doc_id |-> trace_next_doc_id])

(* The recall oracle over the live table.                                     *)
BruteForceKnn(query, k) ==
  LET Version(id) == CHOOSE slot \in DOMAIN live : live[slot].doc_id = id
      dist == [id \in {live[slot].doc_id : slot \in DOMAIN live} |->
                 Distance[query][live[Version(id)].vector]]
  IN  Ranked(dist, k)

Warmup ==
  /\ Len(ops) < WarmupUpserts
  /\ \E value \in Values, vector \in Vectors :
       DimOK(vector) /\ MakeUpsert(Len(ops), value, vector)

Mixing == WarmupUpserts <= Len(ops) /\ ~Generated

GenerateKnn ==
  /\ Mixing
  /\ \E query \in Templates :
       ops' = Append(ops, [op |-> "knn", query |-> query, k |-> K,
                           truth |-> BruteForceKnn(query, K)])
  /\ UNCHANGED <<live, trace_next_doc_id>>

GenerateUpsert ==
  /\ Mixing
  /\ \E slot \in Slots, value \in Values, vector \in Vectors :
       DimOK(vector) /\ MakeUpsert(slot, value, vector)

(* Bug: the end wraps around the key space.                                   *)
ScanEndWrapped(start) == (start + SCAN_SPAN) % KEYSPACE

ScanEnd(start) == Lesser(start + SCAN_SPAN, KEYSPACE)

GenerateScan ==
  /\ Mixing
  /\ \E start \in Slots :
       ops' = Append(ops, [op |-> "scan", start |-> KeyFor(start),
                           end |-> KeyFor(ScanEnd(start))])
  /\ UNCHANGED <<live, trace_next_doc_id>>

Generate == Warmup \/ GenerateKnn \/ GenerateUpsert \/ GenerateScan

(* recall as a fraction <<hits, total>>; 1/1 when the truth is empty.         *)
Recall(truth, result) ==
  IF truth = <<>> THEN <<1, 1>>
  ELSE <<Cardinality({i \in DOMAIN result : \E j \in DOMAIN truth : truth[j] = result[i]}),
         Len(truth)>>

(* The truth of a query is a list of at most k distinct doc ids whose rows    *)
(* were live at that point of the trace, and with at least one warm-up upsert *)
(* it is not empty.                                                           *)
TruthsMeasurable ==
  \A i \in DOMAIN ops : ops[i].op = "knn" =>
    LET truth == ops[i].truth IN
    /\ WARMUP > 0 /\ K > 0 => truth # <<>>
    /\ Len(truth) <= ops[i].k
    /\ \A m, n \in DOMAIN truth : m # n => truth[m] # truth[n]
    /\ \A n \in DOMAIN truth :
         \E j \in 1 .. i - 1 : ops[j].op = "upsert" /\ ops[j].doc_id = truth[n]
           /\ \A l \in j + 1 .. i - 1 : ops[l].op = "upsert" => ops[l].key # ops[j].key
=============================================================================
