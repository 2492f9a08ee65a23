-------------------------------- MODULE Bench --------------------------------
(* The smoke bench (lab1/src/bin/bench.rs): the whole trace is generated      *)
(* first, then replayed, once and in order, against a fresh memtable.  A      *)
(* failed assert, an `expect` on an error and a panic end the run.            *)
EXTENDS Vlsm

CONSTANTS
  KEYSPACE, WARMUP, NUM_OPS, SCAN_SPAN, K, Templates,       \* of Workload
  KeyLen, ValueLen, MaxBytes                                \* of Memtable

(* Keys are slots.  Vectors are drawn at random and normalized: any two have  *)
(* a distance.                                                                *)
ASSUME ConfigAssumption ==
  /\ KEYSPACE \in Nat \ {0} /\ WARMUP \in Nat /\ NUM_OPS \in Nat
  /\ SCAN_SPAN \in Nat /\ K \in Nat
  /\ 0 .. KEYSPACE - 1 \subseteq Keys
  /\ Templates \subseteq {v \in Vectors : DimOK(v)}
  /\ \A q \in Templates, v \in Vectors : DimOK(v) => Distance[q][v] # NaN

(* Slots, and KEYSPACE as the end of a scan, have eight hex digits: the key    *)
(* space stays below 16^8.                                                    *)
ASSUME KeySpaceAssumption == KEYSPACE \div 65536 < 65536

ASSUME LengthsAssumption ==
  KeyLen \in [Keys -> Nat] /\ ValueLen \in [Values -> Nat] /\ MaxBytes \in Nat

VARIABLES
  live, trace_next_doc_id, ops,                             \* Workload
  map, vectors, next_doc_id, approx_bytes, reply,           \* Memtable
  replayed,   \* operations of the trace replayed so far
  recalls,    \* recall of each knn replayed
  status      \* "running", "panicked" in the replay, "no_knn" after it, or "reported"

G == INSTANCE Workload
M == INSTANCE Memtable WITH FirstDocId <- 0, Ranges <- {}, Ks <- {}  \* Memtable::new

genvars   == <<live, trace_next_doc_id, ops>>
memvars   == <<map, vectors, next_doc_id, approx_bytes>>
benchvars == <<replayed, recalls, status>>
vars      == <<genvars, memvars, reply, benchvars>>

TypeOK ==
  /\ G!TypeOK /\ M!TypeOK
  /\ replayed \in 0 .. Len(ops)
  /\ recalls \in Seq(Nat \X Nat)
  /\ status \in {"running", "panicked", "no_knn", "reported"}

Init ==
  /\ G!Init /\ M!Init
  /\ replayed = 0
  /\ recalls = <<>>
  /\ status = "running"

Generate == G!Generate /\ UNCHANGED <<memvars, reply, benchvars>>

Replaying == G!Generated /\ status = "running" /\ replayed < Len(ops)
op        == ops[replayed + 1]

ReplayUpsert ==
  /\ Replaying /\ op.op = "upsert"
  /\ M!Put(op.key, op.value, op.vector)
  /\ status' = IF reply'.doc_id = op.doc_id THEN status ELSE "panicked"
  /\ replayed' = replayed + 1
  /\ UNCHANGED <<genvars, recalls>>

ReplayKnn ==
  /\ Replaying /\ op.op = "knn"
  /\ M!Knn(op.query, op.k)
  /\ recalls' = Append(recalls, G!Recall(op.truth, reply'.ids))
  /\ replayed' = replayed + 1
  /\ UNCHANGED <<genvars, status>>

ReplayScan ==
  /\ Replaying /\ op.op = "scan"
  /\ M!Scan(<<op.start, op.end>>)
  /\ status' = IF reply'.op = "panic" THEN "panicked" ELSE status
  /\ replayed' = replayed + 1
  /\ UNCHANGED <<genvars, recalls>>

(* The assert after the loop, and the percentiles and means it guards.        *)
Report ==
  /\ G!Generated /\ status = "running" /\ replayed = Len(ops)
  /\ status' = IF recalls = <<>> THEN "no_knn" ELSE "reported"
  /\ UNCHANGED <<genvars, memvars, reply, replayed, recalls>>

Next == Generate \/ ReplayUpsert \/ ReplayKnn \/ ReplayScan \/ Report

Spec == Init /\ [][Next]_vars

-----------------------------------------------------------------------------
(* "doc-id drift": the memtable numbers every version as the trace promised,  *)
(* and no scan of the trace is one that the memtable panics on.  The assert   *)
(* after the loop fails for traces without a query only: no recall is lost.   *)
NeverPanics ==
  /\ status # "panicked"
  /\ status = "no_knn" => \A i \in DOMAIN ops : ops[i].op # "knn"

(* Generator, memtable and replay are well typed, and no operation of a trace *)
(* ends the run, nor does its report if the trace has a query.                *)
ReplaySound == TypeOK /\ NeverPanics

(* "recall should print 1.0000": brute force over the memtable's side-table   *)
(* finds what brute force over the generator's table did, and what that found *)
(* is a truth recall can be measured against: never empty, live versions only. *)
RecallIsOne ==
  /\ G!TruthsMeasurable
  /\ \A i \in DOMAIN recalls : recalls[i][1] = recalls[i][2]

(* Once replayed, the memtable holds exactly the generator's live table.      *)
ReplayAgrees ==
  G!Generated /\ replayed = Len(ops) =>
    /\ DOMAIN M!LiveRows = {G!KeyFor(slot) : slot \in DOMAIN live}
    /\ \A slot \in DOMAIN live :
         /\ M!LiveRows[G!KeyFor(slot)].doc_id = live[slot].doc_id
         /\ M!LiveRows[G!KeyFor(slot)].vector = live[slot].vector
    /\ next_doc_id = trace_next_doc_id
=============================================================================
