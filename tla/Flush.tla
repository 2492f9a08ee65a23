-------------------------------- MODULE Flush --------------------------------
(* Memtable and SstWriter composed into the write path of lab 1: rows are     *)
(* written to the memtable; when it is full, its entries are fed in order to  *)
(* a writer and the table is written; only then does a successor memtable     *)
(* take over, continuing the doc-id sequence (memtable.rs, lines 45-55,       *)
(* 69-77, 99-113).  The loop itself is the engine students write, and is      *)
(* modelled from those lines: `phase`, and the order of the calls.            *)
EXTENDS Vlsm, SequencesExt

CONSTANTS
  FirstDocId, Ranges, Ks, KeyLen, ValueLen, MaxBytes,  \* of Memtable
  NoBytes, U32, FlushedIds, MaxRows,                   \* of SstWriter
  MemtableMaxBytes,                                    \* EngineConfig
  MaxTables                                            \* bound of the model

ASSUME FirstDocIdAssumption == FirstDocId \in Nat
ASSUME LengthsAssumption == KeyLen \in [Keys -> Nat] /\ ValueLen \in [Values -> Nat]
ASSUME QueriesAssumption == Ranges \subseteq Nat \X Nat /\ Ks \subseteq Nat
ASSUME WidthAssumption == U32 \in Nat \ {0, 1} /\ FlushedIds \subseteq Nat
ASSUME BoundsAssumption ==
  MaxBytes \in Nat /\ MaxRows \in Nat /\ MemtableMaxBytes \in Nat /\ MaxTables \in Nat

VARIABLES
  map, vectors, next_doc_id, approx_bytes, reply,               \* Memtable
  entries, codes, row_ids, stage, file, sst_reply, accepted,    \* SstWriter
  phase,   \* "serving" calls, or "flushing" the memtable
  tables   \* images of the tables written so far, oldest first

memvars == <<map, vectors, next_doc_id, approx_bytes>>
sstvars == <<entries, codes, row_ids, stage, file, sst_reply, accepted>>
vars    == <<memvars, reply, sstvars, phase, tables>>

M == INSTANCE Memtable
W == INSTANCE SstWriter WITH reply <- sst_reply

TypeOK ==
  /\ M!TypeOK
  /\ W!TypeOK
  /\ phase \in {"serving", "flushing"}
  /\ Len(tables) <= MaxTables

Init ==
  /\ M!Init
  /\ W!Init
  /\ phase = "serving"
  /\ tables = <<>>

(* Calls reach the memtable while it is not full and no flush borrows it.     *)
Serving == phase = "serving" /\ ~M!IsFull(MemtableMaxBytes)

Put(key, value, vector) ==
  Serving /\ M!Put(key, value, vector) /\ UNCHANGED <<sstvars, phase, tables>>

Delete(key) ==
  Serving /\ M!Delete(key) /\ UNCHANGED <<sstvars, phase, tables>>

(* SstWriter::new keeps the path and does not touch the file.                 *)
OpenWriter ==
  /\ entries' = <<>> /\ codes' = <<>> /\ row_ids' = <<>> /\ accepted' = <<>>
  /\ stage' = "open"
  /\ sst_reply' = [op |-> "none"]

StartFlush ==
  /\ phase = "serving" /\ M!IsFull(MemtableMaxBytes)
  /\ Len(tables) < MaxTables
  /\ phase' = "flushing"
  /\ OpenWriter
  /\ UNCHANGED <<memvars, reply, file, tables>>

(* Bug: entries are fed from the last key to the first.                       *)
FlushOrderReversed == Reverse(Ascending(DOMAIN map))

(* The keys of iter_for_flush in the order the map yields them.               *)
FlushOrder == Ascending(DOMAIN map)

Unfed     == phase = "flushing" /\ stage = "open" /\ Len(accepted) < Cardinality(DOMAIN map)
NextEntry == M!FlushEntry(FlushOrder[Len(accepted) + 1])

(* add or add_tombstone for the next entry.  FlushNeverRefused shows that the *)
(* two ways for them to fail are never met here.                              *)
Feed ==
  LET slot == NextEntry.slot
  IN  /\ Unfed
      /\ \/ slot.kind = "tombstone" /\ W!AddTombstone(NextEntry.key)
         \/ slot.kind = "put" /\ slot.doc_id = NoDocId /\ W!AddPlain(NextEntry.key, slot.value)
         \/ slot.kind = "put" /\ slot.doc_id # NoDocId
              /\ W!AddVectored(NextEntry.key, slot.value, slot.doc_id, NextEntry.vector)
      /\ UNCHANGED <<memvars, reply, phase, tables>>

AllFed == phase = "flushing" /\ Len(accepted) = Cardinality(DOMAIN map)

CreateFails == AllFed /\ W!CreateFails /\ UNCHANGED <<memvars, reply, phase, tables>>
Finish      == AllFed /\ W!Finish      /\ UNCHANGED <<memvars, reply, phase, tables>>
WriteDone   == W!WriteDone  /\ UNCHANGED <<memvars, reply, phase, tables>>
WriteFails  == W!WriteFails /\ UNCHANGED <<memvars, reply, phase, tables>>

(* finish answered Ok: the table joins the tree, the successor takes over, and *)
(* the table after it gets a path of its own.                                 *)
Commit ==
  /\ phase = "flushing" /\ sst_reply.op = "meta"
  /\ tables' = Append(tables, file.image)
  /\ phase' = "serving"
  /\ M!Successor
  /\ OpenWriter
  /\ file' = [state |-> "absent"]
  /\ UNCHANGED reply

(* finish answered Err: the memtable is still whole, so start over with the   *)
(* same path, where a torn file may lie until the next write.                 *)
Retry ==
  /\ phase = "flushing" /\ sst_reply.op = "io_error"
  /\ OpenWriter
  /\ UNCHANGED <<memvars, reply, file, phase, tables>>

Next ==
  \/ \E key \in Keys, value \in Values, vector \in Vectors \cup {NoVector} :
       Put(key, value, vector)
  \/ \E key \in Keys : Delete(key)
  \/ StartFlush
  \/ Feed
  \/ CreateFails
  \/ Finish
  \/ WriteDone
  \/ WriteFails
  \/ Commit
  \/ Retry

Spec == Init /\ [][Next]_vars

-----------------------------------------------------------------------------
(* What the files hold of a key, newest table first; the memtable shadows all.*)
Holding(key) ==
  {t \in DOMAIN tables : \E i \in DOMAIN tables[t].key_block : tables[t].key_block[i].key = key}
Newest(key) ==
  LET image == tables[CHOOSE t \in Holding(key) : \A u \in Holding(key) : u <= t]
      i     == CHOOSE i \in DOMAIN image.key_block : image.key_block[i].key = key
  IN  W!ReadRecord(image.key_block[i], image)

OnDisk == {k \in Keys : Holding(k) # {} /\ ~Newest(k).tombstone}
View ==
  [k \in M!Live(map) \cup (OnDisk \ DOMAIN map) |->
     IF k \in DOMAIN map THEN M!LiveRows[k]
     ELSE [value |-> Newest(k).value, doc_id |-> Newest(k).doc_id, vector |-> Newest(k).vector]]

(* Flushing is invisible: through memtable and files together every row, its  *)
(* doc id and its vector are what the Engine contract says at every step of   *)
(* every flush, failed writes included, and deleted rows stay deleted.        *)
Contract == INSTANCE Engine WITH rows <- View
ImplementsEngine == Contract!Init /\ [][Contract!Next]_(Contract!vars)

(* The writer never refuses an entry that iter_for_flush yields: neither its  *)
(* key order nor the dimension of its vector can make a flush fail.           *)
FlushNeverRefused ==
  Unfed => /\ W!InOrder(NextEntry.key)
           /\ NextEntry.vector \in Accepted

(* Memtable, writer and tables are well typed at every step of a flush, and no *)
(* entry is refused.                                                          *)
FlushSound == TypeOK /\ FlushNeverRefused

(* Doc ids are unique across all tables and the memtable, for the lifetime of *)
(* the engine, and the counter never falls back.                              *)
IdsOnDisk(t) == ToSet(tables[t].row_ids)
GloballyUniqueIds ==
  /\ \A t \in DOMAIN tables : IsInjective(tables[t].row_ids)
  /\ \A t, u \in DOMAIN tables : t # u => IdsOnDisk(t) \cap IdsOnDisk(u) = {}
  /\ \A t \in DOMAIN tables : IdsOnDisk(t) \cap DOMAIN vectors = {}
  /\ \A t \in DOMAIN tables : \A id \in IdsOnDisk(t) : id < next_doc_id
=============================================================================
