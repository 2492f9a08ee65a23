----------------------------- MODULE FlushProofs -----------------------------
(* Theorems about the write path: the results about the memtable and about    *)
(* the writer, put together along the hand-over between them.                 *)
EXTENDS Flush, FiniteSetTheorems, TLAPS

MP == INSTANCE MemtableProofs
WP == INSTANCE SstWriterProofs WITH reply <- sst_reply

(* A table's rows can be counted in 32 bits.                                  *)
RowsFit == MaxRows < U32

(* The row a slot of the memtable becomes in a table.                         *)
RowFor(k) ==
  LET slot == map[k] IN
  [key       |-> k,
   value     |-> IF slot.kind = "put" THEN slot.value ELSE NoBytes,
   tombstone |-> slot.kind # "put",
   doc_id    |-> IF k \in M!Vectored(map) THEN slot.doc_id ELSE NoDocId,
   vector    |-> M!FlushEntry(k).vector]

(* A writer exists during a flush only, and what it has accepted is an        *)
(* initial part of the memtable in ascending order; it is finished when that  *)
(* part is all of it.                                                         *)
FeedInv ==
  /\ phase \in {"serving", "flushing"}
  /\ IsFiniteSet(DOMAIN map)
  /\ stage # "open" => phase = "flushing" /\ Len(accepted) = Cardinality(DOMAIN map)
  /\ phase = "flushing" =>
       /\ Len(accepted) <= Cardinality(DOMAIN map)
       /\ \A i \in DOMAIN accepted : accepted[i] = RowFor(FlushOrder[i])
  /\ phase = "flushing" => Len(tables) < MaxTables

(* Ids on disk are apart from each other and from those in memory, and of the *)
(* tables that hold a key one is the newest.                                  *)
DiskInv ==
  /\ tables \in Seq({tables[t] : t \in DOMAIN tables}) /\ Len(tables) <= MaxTables
  /\ \A t \in DOMAIN tables : tables[t].row_ids \in Seq(Nat)
  /\ GloballyUniqueIds
  /\ \A k \in Keys : Holding(k) # {} => \E t \in Holding(k) : \A u \in Holding(k) : u <= t

IInv == MP!IInv /\ WP!IInv /\ FeedInv /\ DiskInv

-----------------------------------------------------------------------------
(* The parameters satisfy what the lemmas about the two parts assume.         *)
LEMMA Parameters ==
  /\ Keys \subseteq Nat /\ NoVector \notin Vectors
  /\ Dim \in Nat /\ VecDim \in [Vectors -> Nat]
  /\ NaN \notin Int /\ Distance \in [Vectors -> [Vectors -> Int \cup {NaN}]]
  /\ FirstDocId \in Nat /\ KeyLen \in [Keys -> Nat] /\ ValueLen \in [Values -> Nat]
  /\ Ranges \subseteq Nat \X Nat /\ Ks \subseteq Nat
  /\ U32 \in Nat \ {0, 1} /\ FlushedIds \subseteq Nat
  /\ MaxBytes \in Nat /\ MaxRows \in Nat /\ MaxTables \in Nat
BY KeysAssumption, VectorsAssumption, DimAssumption, DistanceAssumption, FirstDocIdAssumption,
   LengthsAssumption, QueriesAssumption, WidthAssumption, BoundsAssumption

(* iter_for_flush yields every slot once, in ascending order of the keys.     *)
LEMMA FlushOrderIsOrder ==
  ASSUME DOMAIN map \subseteq Keys, IsFiniteSet(DOMAIN map)
  PROVE  LET n == Cardinality(DOMAIN map) IN
         /\ n \in Nat /\ DOMAIN FlushOrder = 1 .. n
         /\ \A i \in 1 .. n : FlushOrder[i] \in DOMAIN map
         /\ \A i, j \in 1 .. n : i < j => FlushOrder[i] < FlushOrder[j]
         /\ \A k \in DOMAIN map : \E i \in 1 .. n : FlushOrder[i] = k
<1> DEFINE S == DOMAIN map
<1>1. S \subseteq Nat /\ IsFiniteSet(S)
  BY Parameters
<1> HIDE DEF S
<1>2. MP!Cardinality(S) = Cardinality(S)
  BY DEF MP!Cardinality, Cardinality
<1>3. MP!IsFiniteSet(S)
  BY <1>1 DEF MP!IsFiniteSet, IsFiniteSet
<1>4. MP!Ascending(S) = Ascending(S)
  BY DEF MP!Ascending, Ascending, MP!Cardinality, Cardinality
<1>5. /\ MP!Cardinality(S) \in Nat
      /\ DOMAIN MP!Ascending(S) = 1 .. MP!Cardinality(S)
      /\ \A i \in 1 .. MP!Cardinality(S) : MP!Ascending(S)[i] \in S
      /\ \A i, j \in 1 .. MP!Cardinality(S) :
           i < j => MP!Ascending(S)[i] < MP!Ascending(S)[j]
      /\ \A x \in S : \E i \in 1 .. MP!Cardinality(S) : MP!Ascending(S)[i] = x
  BY <1>1, <1>3, Parameters, MP!AscendingIsOrder
<1> QED
  BY <1>2, <1>4, <1>5 DEF S, FlushOrder

(* The calls of the memtable are the ones its theorems are about.             *)
LEMMA SameCalls ==
  ASSUME NEW key, NEW value, NEW vector
  PROVE  /\ M!Put(key, value, vector) <=> MP!Put(key, value, vector)
         /\ M!Delete(key) <=> MP!Delete(key)
<1>1. M!Put(key, value, vector) <=> MP!Put(key, value, vector)
  BY DEF M!Put, MP!Put, M!Charge, MP!Charge, M!PutCharge, MP!PutCharge, M!NextId, MP!NextId,
         M!MapInsert, MP!MapInsert, M!PutSlot, MP!PutSlot, M!DropDisplaced, MP!DropDisplaced,
         M!Displaced, MP!Displaced, M!Vectored, MP!Vectored, M!Live, MP!Live,
         M!NoDocId, MP!NoDocId, M!Accepted, MP!Accepted, M!DimOK, MP!DimOK,
         M!ENTRY_OVERHEAD, MP!ENTRY_OVERHEAD, M!F32_BYTES, MP!F32_BYTES
<1>2. M!Delete(key) <=> MP!Delete(key)
  BY DEF M!Delete, MP!Delete, M!Charge, MP!Charge, M!DeleteCharge, MP!DeleteCharge,
         M!MapInsert, MP!MapInsert, M!Tombstone, MP!Tombstone, M!DropDisplaced, MP!DropDisplaced,
         M!Displaced, MP!Displaced, M!Vectored, MP!Vectored, M!Live, MP!Live,
         M!NoDocId, MP!NoDocId, M!ENTRY_OVERHEAD, MP!ENTRY_OVERHEAD
<1> QED
  BY <1>1, <1>2

(* What the memtable's invariant says, slot by slot.                          *)
LEMMA SlotFacts ==
  ASSUME MP!IInv
  PROVE  /\ DOMAIN map \subseteq Keys
         /\ next_doc_id \in Nat
         /\ \A k \in DOMAIN map :
              \/ map[k].kind = "tombstone" /\ k \notin M!Vectored(map)
              \/ /\ map[k].kind = "put" /\ map[k].value \in Values
                 /\ map[k].doc_id = NoDocId /\ k \notin M!Vectored(map)
              \/ /\ map[k].kind = "put" /\ map[k].value \in Values
                 /\ map[k].doc_id \in Nat /\ map[k].doc_id # NoDocId /\ k \in M!Vectored(map)
                 /\ map[k].doc_id \in DOMAIN vectors /\ map[k].doc_id < next_doc_id
                 /\ vectors[map[k].doc_id] \in Vectors /\ DimOK(vectors[map[k].doc_id])
         /\ \A j, k \in M!Vectored(map) : map[j].doc_id = map[k].doc_id => j = k
         /\ M!Vectored(map) \subseteq DOMAIN map
<1>1. MP!TypeOK /\ MP!FlushNeverPanics /\ MP!OneRowPerDocId
  BY DEF MP!IInv
<1>2. M!Vectored(map) = MP!Vectored(map)
  BY DEF M!Vectored, MP!Vectored, M!Live, MP!Live, M!NoDocId, MP!NoDocId
<1>3. MP!Vectored(map) = {k \in DOMAIN map : map[k].kind = "put" /\ map[k].doc_id # NoDocId}
  BY DEF MP!Vectored, MP!Live, MP!NoDocId, NoDocId
<1>4. DOMAIN map \subseteq Keys /\ next_doc_id \in Nat
  BY <1>1 DEF MP!TypeOK
<1>5. \A k \in DOMAIN map :
        map[k] \in {[kind |-> "tombstone"]}
                     \cup [kind : {"put"}, value : Values, doc_id : Nat \cup {-1}]
  BY <1>1 DEF MP!TypeOK, MP!Slot, MP!Tombstone, MP!DocIds, MP!NoDocId
<1>6. \A id \in DOMAIN vectors : vectors[id] \in Vectors /\ DimOK(vectors[id])
  BY <1>1 DEF MP!TypeOK, MP!DimOK, DimOK
<1>7. \A k \in MP!Vectored(map) : map[k].doc_id \in DOMAIN vectors /\ map[k].doc_id < next_doc_id
  BY <1>1 DEF MP!FlushNeverPanics, MP!OneRowPerDocId
<1>8. \A j, k \in MP!Vectored(map) : map[j].doc_id = map[k].doc_id => j = k
  BY <1>1 DEF MP!OneRowPerDocId
<1> QED
  BY <1>2, <1>3, <1>4, <1>5, <1>6, <1>7, <1>8 DEF NoDocId

(* What a call does to the map, the side-table and the counter.               *)
LEMMA CallFacts ==
  ASSUME MP!IInv, NEW key \in Keys
  PROVE  /\ \A value \in Values, vector \in Vectors \cup {NoVector} :
              M!Put(key, value, vector) =>
                /\ MP!IInv'
                /\ DOMAIN map' = DOMAIN map \cup {key} /\ next_doc_id <= next_doc_id'
                /\ DOMAIN vectors' \subseteq DOMAIN vectors \cup {next_doc_id}
         /\ M!Delete(key) =>
                /\ MP!IInv'
                /\ DOMAIN map' = DOMAIN map \cup {key} /\ next_doc_id' = next_doc_id
                /\ DOMAIN vectors' \subseteq DOMAIN vectors
<1>1. ASSUME NEW value \in Values, NEW vector \in Vectors \cup {NoVector},
             M!Put(key, value, vector)
      PROVE  /\ MP!IInv'
             /\ DOMAIN map' = DOMAIN map \cup {key} /\ next_doc_id <= next_doc_id'
             /\ DOMAIN vectors' \subseteq DOMAIN vectors \cup {next_doc_id}
  <2>1. MP!IInv'
    BY <1>1, SameCalls, Parameters, MP!PutIInv
  <2>2. next_doc_id \in Nat
    BY SlotFacts
  <2> QED
    BY <1>1, <2>1, <2>2 DEF M!Put, M!MapInsert, M!DropDisplaced, M!NextId
<1>2. ASSUME M!Delete(key)
      PROVE  /\ MP!IInv'
             /\ DOMAIN map' = DOMAIN map \cup {key} /\ next_doc_id' = next_doc_id
             /\ DOMAIN vectors' \subseteq DOMAIN vectors
  <2>1. MP!IInv'
    BY <1>2, SameCalls, Parameters, MP!DeleteIInv
  <2> QED
    BY <1>2, <2>1 DEF M!Delete, M!MapInsert, M!DropDisplaced
<1> QED
  BY <1>1, <1>2

(* A writer that has just been opened satisfies the writer's invariant, also  *)
(* when a torn file lies under its path.                                      *)
LEMMA OpenWriterIInv == OpenWriter /\ file'.state \in {"absent", "torn"} => WP!IInv'
<1> DEFINE opened == W!Open /\ file.state \in {"absent", "torn"}
<1>1. opened => WP!IInv
  BY WP!OpenIInv, Parameters DEF W!Open, WP!Open
<1>2. opened' => WP!IInv'
  BY <1>1, PTL
<1>3. OpenWriter /\ file'.state \in {"absent", "torn"} => opened'
  BY DEF OpenWriter, W!Open
<1> QED
  BY <1>2, <1>3

(* Inside the writer: what it says of its buffers and of its file.            *)
LEMMA WriterFacts ==
  ASSUME WP!IInv
  PROVE  /\ entries \in Seq(W!Entry) /\ codes \in Seq(Vectors) /\ row_ids \in Seq(Nat)
         /\ accepted \in Seq(W!Row)
         /\ Len(accepted) = Len(entries) /\ Len(entries) <= MaxRows
         /\ \A i \in DOMAIN entries : WP!Describes(entries[i], accepted[i])
         /\ sst_reply.op = "meta" => stage = "closed" /\ file.state = "whole"
         /\ file.state = "whole" =>
              stage = "closed" /\ sst_reply.op = "meta" /\ file.image = W!Image
         /\ file.state \in {"absent", "torn", "whole"}
<1>1. WP!TypeOK /\ WP!BufInv /\ WP!FileInv
  BY DEF WP!IInv
<1>2. entries \in Seq(WP!Entry) /\ accepted \in Seq(WP!Row) /\ row_ids \in Seq(Nat)
      /\ codes \in Seq({v \in Vectors : WP!DimOK(v)})
  BY <1>1 DEF WP!TypeOK
<1>3. WP!Entry = W!Entry /\ WP!Row = W!Row
  BY DEF WP!Entry, W!Entry, WP!Row, W!Row, WP!NO_VECTOR, W!NO_VECTOR, WP!DocIds, W!DocIds,
         WP!NoDocId, W!NoDocId
<1>4. codes \in Seq(Vectors)
  BY <1>2
<1>5. WP!Image = W!Image
  BY DEF WP!Image, W!Image, WP!Layout, W!Layout, WP!Pad64, W!Pad64, WP!KeyBlockBytes,
         W!KeyBlockBytes, WP!RecordSizes, W!RecordSizes, WP!RecordBytes, W!RecordBytes,
         WP!Bytes, W!Bytes, WP!Cardinality, W!Cardinality, WP!HEADER_LEN, W!HEADER_LEN,
         WP!RECORD_PREFIX, W!RECORD_PREFIX, WP!F32_BYTES, W!F32_BYTES,
         WP!DOC_ID_BYTES, W!DOC_ID_BYTES, WP!TWO_COUNTS, W!TWO_COUNTS
<1>6. /\ sst_reply.op = "meta" => stage = "closed" /\ file.state = "whole"
      /\ file.state = "whole" => stage = "closed" /\ sst_reply.op = "meta" /\ file.image = W!Image
      /\ file.state \in {"absent", "torn", "whole"}
  BY <1>1, <1>5 DEF WP!FileInv, WP!Meta, WP!TypeOK
<1> QED
  BY <1>1, <1>2, <1>3, <1>4, <1>6 DEF WP!BufInv

(* The writer's own steps keep the writer's invariant.                        *)
LEMMA WriterSteps ==
  ASSUME WP!IInv, RowsFit
  PROVE  /\ W!CreateFails \/ W!Finish \/ W!WriteDone \/ W!WriteFails => WP!IInv'
         /\ UNCHANGED sstvars => WP!IInv'
<1>1. W!CreateFails \/ W!Finish \/ W!WriteDone \/ W!WriteFails
        => WP!CreateFails \/ WP!Finish \/ WP!WriteDone \/ WP!WriteFails
  <2>1. W!CreateFails => WP!CreateFails
    BY DEF W!CreateFails, WP!CreateFails, W!buffers, WP!buffers
  <2>2. W!Finish => WP!Finish
    BY DEF W!Finish, WP!Finish, W!buffers, WP!buffers
  <2>3. W!WriteFails => WP!WriteFails
    BY DEF W!WriteFails, WP!WriteFails, W!buffers, WP!buffers
  <2>4. W!WriteDone => WP!WriteDone
    BY DEF W!WriteDone, WP!WriteDone, W!buffers, WP!buffers,
         WP!Meta, W!Meta, WP!SmallestKey, W!SmallestKey, WP!LargestKey, W!LargestKey,
         WP!FooterOffset, W!FooterOffset, WP!FOOTER_LEN, W!FOOTER_LEN,
         WP!Image, W!Image, WP!Layout, W!Layout, WP!Pad64, W!Pad64, WP!KeyBlockBytes,
         W!KeyBlockBytes, WP!RecordSizes, W!RecordSizes, WP!RecordBytes, W!RecordBytes,
         WP!Bytes, W!Bytes, WP!Cardinality, W!Cardinality, WP!HEADER_LEN, W!HEADER_LEN,
         WP!RECORD_PREFIX, W!RECORD_PREFIX, WP!F32_BYTES, W!F32_BYTES,
         WP!DOC_ID_BYTES, W!DOC_ID_BYTES, WP!TWO_COUNTS, W!TWO_COUNTS
  <2> QED
    BY <2>1, <2>2, <2>3, <2>4
<1>2. UNCHANGED sstvars => UNCHANGED WP!vars
  BY DEF sstvars, WP!vars, WP!buffers
<1>3. ASSUME [WP!Next]_WP!vars PROVE WP!IInv'
  BY <1>3, Parameters, WP!NextIInv DEF RowsFit, WP!RowsFit
<1> QED
  BY <1>1, <1>2, <1>3 DEF WP!Next

(* The entry that is fed next is the row of the next slot, and the writer     *)
(* takes it in.                                                               *)
LEMMA FeedSteps ==
  ASSUME MP!IInv, WP!IInv, FeedInv, RowsFit, Feed
  PROVE  LET k == FlushOrder[Len(accepted) + 1] IN
         /\ WP!IInv'
         /\ k \in DOMAIN map /\ accepted' = Append(accepted, RowFor(k))
         /\ sst_reply' = [op |-> "ok"] /\ UNCHANGED <<stage, file>>
<1> DEFINE k == FlushOrder[Len(accepted) + 1]
           slot == map[k]
<1>1. Unfed /\ phase = "flushing" /\ stage = "open" /\ Len(accepted) < Cardinality(DOMAIN map)
  BY DEF Feed, Unfed
<1>2. k \in DOMAIN map /\ k \in Keys
  <2>1. DOMAIN map \subseteq Keys /\ IsFiniteSet(DOMAIN map)
    BY SlotFacts DEF FeedInv
  <2>2. Len(accepted) \in Nat
    BY WriterFacts
  <2>3. Len(accepted) + 1 \in 1 .. Cardinality(DOMAIN map)
    BY <1>1, <2>1, <2>2, FlushOrderIsOrder
  <2> QED
    BY <2>1, <2>3, FlushOrderIsOrder
<1>3. NextEntry.key = k /\ NextEntry.slot = slot /\ NextEntry.vector = M!FlushEntry(k).vector
  BY DEF NextEntry, M!FlushEntry
<1>4. M!FlushEntry(k).vector = IF k \in M!Vectored(map) THEN vectors[slot.doc_id] ELSE NoVector
  BY DEF M!FlushEntry
<1> SUFFICES /\ WP!IInv' /\ accepted' = Append(accepted, RowFor(k))
             /\ sst_reply' = [op |-> "ok"] /\ UNCHANGED <<stage, file>>
  BY <1>2
<1> HIDE DEF k
<1>5. ASSUME NEW value \in Values \cup {NoBytes}, NEW tombstone \in BOOLEAN,
             tombstone \/ value \in Values, NEW ordinal, NEW id, NEW vector,
             W!InOrder(k), W!Push(k, value, tombstone, ordinal, id, vector),
             \/ /\ ordinal = W!NO_VECTOR /\ id = NoDocId /\ vector = NoVector
                /\ UNCHANGED <<codes, row_ids>>
             \/ /\ ordinal = W!Ordinal /\ id \in Nat /\ vector \in Vectors /\ DimOK(vector)
                /\ row_ids' = Append(row_ids, id) /\ codes' = Append(codes, vector),
             RowFor(k) = [key |-> k, value |-> value, tombstone |-> tombstone,
                          doc_id |-> id, vector |-> vector]
      PROVE  /\ WP!IInv' /\ accepted' = Append(accepted, RowFor(k))
             /\ sst_reply' = [op |-> "ok"] /\ UNCHANGED <<stage, file>>
  <2>1. WP!InOrder(k)
    BY <1>5 DEF W!InOrder, WP!InOrder, W!Last, WP!Last
  <2>2. WP!Push(k, value, tombstone, ordinal, id, vector)
    BY <1>5 DEF W!Push, WP!Push
  <2>3. WP!RowsFit
    BY DEF RowsFit, WP!RowsFit
  <2>4. \/ /\ ordinal = WP!NO_VECTOR /\ id = WP!NoDocId /\ vector = NoVector
           /\ UNCHANGED <<codes, row_ids>>
        \/ /\ ordinal = WP!Ordinal /\ id \in Nat /\ vector \in Vectors /\ WP!DimOK(vector)
           /\ row_ids' = Append(row_ids, id) /\ codes' = Append(codes, vector)
    BY <1>5 DEF W!NO_VECTOR, WP!NO_VECTOR, NoDocId, WP!NoDocId, W!Ordinal, WP!Ordinal,
                DimOK, WP!DimOK
  <2>5. WP!IInv'
    BY <1>1, <1>2, <1>5, <2>1, <2>2, <2>3, <2>4, Parameters, WP!PushIInv
  <2> QED
    BY <1>5, <2>5 DEF W!Push
<1>6. CASE slot.kind = "tombstone" /\ W!AddTombstone(k)
  <2>1. /\ W!InOrder(k) /\ W!Push(k, NoBytes, TRUE, W!NO_VECTOR, W!NoDocId, NoVector)
        /\ UNCHANGED <<codes, row_ids>>
    BY <1>6 DEF W!AddTombstone
  <2>2. RowFor(k) = [key |-> k, value |-> NoBytes, tombstone |-> TRUE,
                     doc_id |-> NoDocId, vector |-> NoVector]
    BY <1>2, <1>4, <1>6, SlotFacts DEF RowFor
  <2>3. W!NoDocId = NoDocId
    BY DEF W!NoDocId, NoDocId
  <2> QED
    BY <1>2, <1>5, <2>1, <2>2, <2>3
<1>7. CASE slot.kind = "put" /\ slot.doc_id = NoDocId /\ W!AddPlain(k, slot.value)
  <2>1. /\ W!InOrder(k) /\ W!Push(k, slot.value, FALSE, W!NO_VECTOR, W!NoDocId, NoVector)
        /\ UNCHANGED <<codes, row_ids>>
    BY <1>7 DEF W!AddPlain
  <2>2. slot.value \in Values /\ k \notin M!Vectored(map)
    BY <1>2, <1>7, SlotFacts
  <2>3. RowFor(k) = [key |-> k, value |-> slot.value, tombstone |-> FALSE,
                     doc_id |-> NoDocId, vector |-> NoVector]
    BY <1>4, <1>7, <2>2 DEF RowFor
  <2>4. W!NoDocId = NoDocId
    BY DEF W!NoDocId, NoDocId
  <2> QED
    BY <1>2, <1>5, <2>1, <2>2, <2>3, <2>4
<1>8. CASE /\ slot.kind = "put" /\ slot.doc_id # NoDocId
           /\ W!AddVectored(k, slot.value, slot.doc_id, NextEntry.vector)
  <2>1. /\ slot.value \in Values /\ k \in M!Vectored(map) /\ slot.doc_id \in Nat
        /\ vectors[slot.doc_id] \in Vectors /\ DimOK(vectors[slot.doc_id])
    BY <1>2, <1>8, SlotFacts
  <2> DEFINE vector == vectors[slot.doc_id]
  <2>2. NextEntry.vector = vector
    BY <1>3, <1>4, <2>1
  <2>3. /\ W!InOrder(k) /\ W!Push(k, slot.value, FALSE, W!Ordinal, slot.doc_id, vector)
        /\ row_ids' = Append(row_ids, slot.doc_id) /\ codes' = Append(codes, vector)
    BY <1>8, <2>2 DEF W!AddVectored
  <2>4. RowFor(k) = [key |-> k, value |-> slot.value, tombstone |-> FALSE,
                     doc_id |-> slot.doc_id, vector |-> vector]
    BY <1>4, <1>8, <2>1 DEF RowFor
  <2> QED
    BY <1>2, <1>5, <2>1, <2>3, <2>4
<1> QED
  BY <1>3, <1>6, <1>7, <1>8 DEF Feed

(* The fields of a row.                                                       *)
LEMMA RowFields ==
  ASSUME NEW k
  PROVE  /\ RowFor(k) = [key |-> RowFor(k).key, value |-> RowFor(k).value,
                         tombstone |-> RowFor(k).tombstone, doc_id |-> RowFor(k).doc_id,
                         vector |-> RowFor(k).vector]
         /\ RowFor(k).key = k
         /\ RowFor(k).doc_id = IF k \in M!Vectored(map) THEN map[k].doc_id ELSE NoDocId
BY DEF RowFor

(* A table that was written whole holds the memtable: every slot, under its   *)
(* key, and of vectors those the side-table holds, each once.                 *)
LEMMA ImageFacts ==
  ASSUME MP!IInv, WP!IInv, FeedInv, sst_reply.op = "meta", RowsFit
  PROVE  LET image == file.image IN
         /\ image.key_block = entries /\ image.row_ids = row_ids
         /\ \A i \in DOMAIN entries :
              /\ entries[i].key \in DOMAIN map
              /\ W!ReadRecord(entries[i], image) = RowFor(entries[i].key)
         /\ \A k \in DOMAIN map : \E i \in DOMAIN entries : entries[i].key = k
         /\ \A n \in DOMAIN row_ids : row_ids[n] \in DOMAIN vectors /\ row_ids[n] < next_doc_id
         /\ IsInjective(row_ids)
<1> DEFINE image == file.image
           size  == Cardinality(DOMAIN map)
<1>1. /\ image = W!Image /\ stage = "closed" /\ phase = "flushing"
      /\ Len(accepted) = size /\ Len(entries) = size
      /\ \A i \in DOMAIN accepted : accepted[i] = RowFor(FlushOrder[i])
  BY WriterFacts DEF FeedInv
<1>2. image.key_block = entries /\ image.row_ids = row_ids /\ image.codes = codes
  BY <1>1 DEF W!Image
<1>3. /\ size \in Nat /\ DOMAIN entries = 1 .. size /\ DOMAIN accepted = 1 .. size
      /\ \A i \in 1 .. size : FlushOrder[i] \in DOMAIN map
      /\ \A i, j \in 1 .. size : i < j => FlushOrder[i] < FlushOrder[j]
      /\ \A k \in DOMAIN map : \E i \in 1 .. size : FlushOrder[i] = k
  BY <1>1, SlotFacts, WriterFacts, FlushOrderIsOrder DEF FeedInv
<1>4. \A i \in 1 .. size : /\ WP!Describes(entries[i], accepted[i])
                           /\ accepted[i] = RowFor(FlushOrder[i])
  BY <1>1, <1>3, WriterFacts
<1> HIDE DEF image, size
<1>5. \A i \in 1 .. size : entries[i].key = FlushOrder[i]
  BY <1>4, RowFields DEF WP!Describes
<1>6. \A i \in 1 .. size : W!ReadRecord(entries[i], image) = RowFor(FlushOrder[i])
  <2> SUFFICES ASSUME NEW i \in 1 .. size
               PROVE  W!ReadRecord(entries[i], image) = accepted[i]
    BY <1>4
  <2>1. accepted[i] = [key |-> accepted[i].key, value |-> accepted[i].value,
                       tombstone |-> accepted[i].tombstone, doc_id |-> accepted[i].doc_id,
                       vector |-> accepted[i].vector]
    BY <1>4, RowFields
  <2> QED
    BY <1>2, <1>4, <2>1 DEF W!ReadRecord, WP!Describes, WP!NO_VECTOR, W!NO_VECTOR,
                            WP!NoDocId, W!NoDocId
<1>7. \A n \in DOMAIN row_ids :
        \E i \in 1 .. size : /\ entries[i].vec_ordinal = n - 1
                             /\ FlushOrder[i] \in M!Vectored(map)
                             /\ map[FlushOrder[i]].doc_id = row_ids[n]
  <2> SUFFICES ASSUME NEW n \in DOMAIN row_ids
               PROVE  \E i \in 1 .. size : /\ entries[i].vec_ordinal = n - 1
                                           /\ FlushOrder[i] \in M!Vectored(map)
                                           /\ map[FlushOrder[i]].doc_id = row_ids[n]
    OBVIOUS
  <2>1. PICK i \in 1 .. size : entries[i].vec_ordinal = n - 1
    BY <1>3 DEF WP!IInv, WP!BufInv
  <2>2. n \in Nat /\ n <= MaxRows
    BY WriterFacts, Parameters DEF WP!IInv, WP!BufInv
  <2>3. entries[i].vec_ordinal # WP!NO_VECTOR
    BY <2>1, <2>2, Parameters DEF WP!NO_VECTOR, RowsFit
  <2>4. RowFor(FlushOrder[i]).doc_id = row_ids[n] /\ row_ids[n] \in Nat
    <3>1. WP!Describes(entries[i], accepted[i]) /\ accepted[i] = RowFor(FlushOrder[i])
      BY <1>4
    <3>2. accepted[i].doc_id = row_ids[entries[i].vec_ordinal + 1]
      BY <2>3, <3>1 DEF WP!Describes
    <3>3. entries[i].vec_ordinal + 1 = n /\ row_ids[n] \in Nat
      BY <2>1, <2>2, WriterFacts
    <3> QED
      BY <3>1, <3>2, <3>3
  <2>5. row_ids[n] # NoDocId
    BY <2>4 DEF NoDocId
  <2> QED
    BY <2>1, <2>4, <2>5, RowFields
<1>8. \A n \in DOMAIN row_ids : row_ids[n] \in DOMAIN vectors /\ row_ids[n] < next_doc_id
  BY <1>3, <1>7, SlotFacts
<1>9. IsInjective(row_ids)
  <2> SUFFICES ASSUME NEW m \in DOMAIN row_ids, NEW n \in DOMAIN row_ids, row_ids[m] = row_ids[n]
               PROVE  m = n
    BY DEF IsInjective
  <2>1. PICK i \in 1 .. size : /\ entries[i].vec_ordinal = m - 1
                              /\ FlushOrder[i] \in M!Vectored(map)
                              /\ map[FlushOrder[i]].doc_id = row_ids[m]
    BY <1>7
  <2>2. PICK j \in 1 .. size : /\ entries[j].vec_ordinal = n - 1
                              /\ FlushOrder[j] \in M!Vectored(map)
                              /\ map[FlushOrder[j]].doc_id = row_ids[n]
    BY <1>7
  <2>3. FlushOrder[i] = FlushOrder[j]
    BY <2>1, <2>2, SlotFacts
  <2>4. ~(i < j) /\ ~(j < i)
    <3>1. FlushOrder[i] \in Nat
      BY <1>3, SlotFacts, Parameters
    <3> QED
      BY <1>3, <2>3, <3>1
  <2>5. i = j
    BY <1>3, <2>4
  <2>6. m \in Nat /\ n \in Nat
    BY WriterFacts
  <2> QED
    BY <2>1, <2>2, <2>5, <2>6
<1>10. \A i \in DOMAIN entries : /\ entries[i].key \in DOMAIN map
                                 /\ W!ReadRecord(entries[i], image) = RowFor(entries[i].key)
  BY <1>3, <1>5, <1>6
<1>11. \A k \in DOMAIN map : \E i \in DOMAIN entries : entries[i].key = k
  BY <1>3, <1>5
<1> QED
  BY <1>2, <1>8, <1>9, <1>10, <1>11 DEF image

-----------------------------------------------------------------------------
(* The rows of the memtable, and the order they are fed in, are those of the  *)
(* map and the side-table.                                                    *)
LEMMA RowsUnchanged ==
  ASSUME UNCHANGED <<map, vectors>>
  PROVE  UNCHANGED FlushOrder /\ \A k : RowFor(k)' = RowFor(k)
BY DEF FlushOrder, RowFor, M!FlushEntry, M!Vectored, M!Live

(* A writer that was just opened has accepted nothing yet.                    *)
LEMMA OpenWriterFeedInv ==
  ASSUME FeedInv, OpenWriter, phase' \in {"serving", "flushing"}, IsFiniteSet(DOMAIN map'),
         phase' = "flushing" => Len(tables') < MaxTables
  PROVE  FeedInv'
<1>1. Cardinality(DOMAIN map') \in Nat
  BY FS_CardinalityType
<1>2. accepted' = <<>> /\ stage' = "open" /\ sst_reply' = [op |-> "none"]
  BY DEF OpenWriter
<1> QED
  BY <1>1, <1>2 DEF FeedInv

(* Calls of the memtable, and flushes until they are committed, leave the     *)
(* tables as they are.                                                        *)
LEMMA TablesKept ==
  ASSUME DiskInv, UNCHANGED tables, next_doc_id \in Nat, next_doc_id' \in Nat,
         next_doc_id <= next_doc_id',
         DOMAIN vectors' \subseteq DOMAIN vectors \cup {next_doc_id}
  PROVE  DiskInv'
<1>1. \A t \in DOMAIN tables : IdsOnDisk(t) \subseteq Nat
  BY DEF DiskInv, IdsOnDisk, ToSet
<1>2. \A t \in DOMAIN tables :
        /\ IsInjective(tables[t].row_ids)
        /\ \A u \in DOMAIN tables : t # u => IdsOnDisk(t) \cap IdsOnDisk(u) = {}
        /\ IdsOnDisk(t) \cap DOMAIN vectors = {}
        /\ \A id \in IdsOnDisk(t) : id < next_doc_id
  BY DEF DiskInv, GloballyUniqueIds
<1>3. \A t : IdsOnDisk(t)' = IdsOnDisk(t)
  BY DEF IdsOnDisk
<1>4. \A t \in DOMAIN tables : /\ IdsOnDisk(t) \cap DOMAIN vectors' = {}
                               /\ \A id \in IdsOnDisk(t) : id < next_doc_id'
  BY <1>1, <1>2
<1>5. GloballyUniqueIds'
  BY <1>2, <1>3, <1>4 DEF GloballyUniqueIds
<1>6. \A k : UNCHANGED Holding(k)
  BY DEF Holding
<1> QED
  BY <1>5, <1>6 DEF DiskInv

(* The successor memtable is empty and goes on with the ids.                  *)
LEMMA SuccessorIInv ==
  ASSUME MP!IInv, M!Successor
  PROVE  /\ MP!IInv' /\ DOMAIN map' = {} /\ DOMAIN vectors' = {} /\ next_doc_id' = next_doc_id
<1>1. /\ DOMAIN map' = {} /\ DOMAIN vectors' = {} /\ next_doc_id' = next_doc_id
      /\ approx_bytes' = 0
  BY DEF M!Successor, M!EmptyMap
<1>2. MP!TypeOK'
  <2>1. map' = [x \in {} |-> 0] /\ vectors' = [x \in {} |-> 0]
    BY DEF M!Successor, M!EmptyMap
  <2> QED
    BY <1>1, <2>1 DEF MP!TypeOK, MP!IInv
<1>3. MP!Vectored(map') = {}
  BY <1>1 DEF MP!Vectored, MP!Live
<1> QED
  BY <1>1, <1>2, <1>3
     DEF MP!IInv, MP!FlushNeverPanics, MP!OnlyLiveVectors, MP!OneRowPerDocId

(* An engine that was just opened satisfies all of it.                        *)
LEMMA InitIInv == Init => IInv
<1> SUFFICES ASSUME Init PROVE IInv
  OBVIOUS
<1>1. MP!IInv
  BY Parameters, MP!InitIInv DEF Init, M!Init, MP!Init, M!EmptyMap, MP!EmptyMap
<1>2. WP!IInv
  BY Parameters, WP!InitIInv DEF Init, W!Init, WP!Init, W!Open, WP!Open
<1>3. FeedInv
  <2>1. DOMAIN map = {} /\ phase = "serving" /\ stage = "open" /\ sst_reply = [op |-> "none"]
    BY DEF Init, M!Init, M!EmptyMap, W!Init, W!Open
  <2> QED
    BY <2>1, FS_EmptySet DEF FeedInv
<1>4. DiskInv
  BY Parameters DEF Init, DiskInv, GloballyUniqueIds, Holding
<1> QED
  BY <1>1, <1>2, <1>3, <1>4 DEF IInv

(* A call finds no flush under way, and gives its version an id past all      *)
(* those on disk.                                                             *)
LEMMA CallIInv ==
  ASSUME IInv, RowsFit, NEW key \in Keys,
         \/ \E value \in Values, vector \in Vectors \cup {NoVector} : Put(key, value, vector)
         \/ Delete(key)
  PROVE  IInv'
<1>1. /\ MP!IInv' /\ DOMAIN map' = DOMAIN map \cup {key} /\ next_doc_id <= next_doc_id'
      /\ DOMAIN vectors' \subseteq DOMAIN vectors \cup {next_doc_id}
  <2>1. next_doc_id \in Nat
    BY SlotFacts DEF IInv
  <2> QED
    BY <2>1, CallFacts DEF IInv, Put, Delete
<1>2. phase = "serving" /\ UNCHANGED <<sstvars, phase, tables>>
  BY DEF Put, Delete, Serving
<1>3. WP!IInv'
  BY <1>2, WriterSteps DEF IInv
<1>4. FeedInv'
  <2>1. IsFiniteSet(DOMAIN map \cup {key})
    BY FS_AddElement DEF IInv, FeedInv
  <2> QED
    BY <1>1, <1>2, <2>1 DEF IInv, FeedInv, sstvars
<1>5. DiskInv'
  <2>1. next_doc_id \in Nat /\ next_doc_id' \in Nat
    BY <1>1 DEF IInv, MP!IInv, MP!TypeOK
  <2> QED
    BY <1>1, <1>2, <2>1, TablesKept DEF IInv
<1> QED
  BY <1>1, <1>3, <1>4, <1>5 DEF IInv

(* The steps of a flush that is under way touch the writer only.              *)
LEMMA FlushStepIInv ==
  ASSUME IInv, RowsFit,
         StartFlush \/ Feed \/ CreateFails \/ Finish \/ WriteDone \/ WriteFails \/ Retry
  PROVE  IInv'
<1>1. UNCHANGED <<memvars, tables>>
  BY DEF StartFlush, Feed, CreateFails, Finish, WriteDone, WriteFails, Retry
<1>2. MP!IInv'
  BY <1>1, Parameters, MP!UnchangedIInv DEF IInv, memvars, MP!memvars
<1>3. DiskInv'
  <2>1. next_doc_id \in Nat
    BY SlotFacts DEF IInv
  <2> QED
    BY <1>1, <2>1, TablesKept DEF IInv, memvars
<1>4. UNCHANGED <<map, vectors>> /\ IsFiniteSet(DOMAIN map')
  BY <1>1 DEF memvars, IInv, FeedInv
<1>5. CASE StartFlush \/ Retry
  <2>1. OpenWriter /\ phase' = "flushing" /\ Len(tables') < MaxTables /\ file' = file
    BY <1>1, <1>5 DEF StartFlush, Retry, IInv, FeedInv
  <2>2. file.state # "whole"
    <3>1. file.state = "whole" => stage = "closed" /\ sst_reply.op = "meta"
      BY WriterFacts DEF IInv
    <3> QED
      BY <1>5, <3>1 DEF StartFlush, Retry, IInv, FeedInv
  <2>3. file'.state \in {"absent", "torn"}
    BY <2>1, <2>2, WriterFacts DEF IInv
  <2> QED
    BY <1>2, <1>3, <1>4, <2>1, <2>3, OpenWriterIInv, OpenWriterFeedInv DEF IInv
<1>6. CASE Feed
  <2> DEFINE n == Len(accepted)
  <2>1. /\ WP!IInv' /\ accepted' = Append(accepted, RowFor(FlushOrder[n + 1]))
        /\ sst_reply' = [op |-> "ok"] /\ UNCHANGED <<stage, file>>
    BY <1>6, FeedSteps DEF IInv
  <2>2. phase = "flushing" /\ stage = "open" /\ n < Cardinality(DOMAIN map) /\ phase' = phase
    BY <1>6 DEF Feed, Unfed
  <2>3. n \in Nat /\ Cardinality(DOMAIN map) \in Nat /\ DOMAIN accepted = 1 .. n
        /\ accepted \in Seq(W!Row)
    BY WriterFacts, FS_CardinalityType DEF IInv, FeedInv
  <2>4. \A i \in 1 .. n : accepted[i] = RowFor(FlushOrder[i])
    BY <2>2, <2>3 DEF IInv, FeedInv
  <2> DEFINE row == RowFor(FlushOrder[n + 1])
  <2> HIDE DEF row, n
  <2>5. /\ DOMAIN accepted' = 1 .. n + 1 /\ Len(accepted') = n + 1 /\ accepted'[n + 1] = row
        /\ \A i \in 1 .. n : accepted'[i] = accepted[i]
        /\ \A i \in 1 .. n + 1 : i \in 1 .. n \/ i = n + 1
    BY <2>1, <2>3 DEF n, row
  <2>6. \A i \in 1 .. n + 1 : accepted'[i] = RowFor(FlushOrder[i])
    BY <2>4, <2>5 DEF row
  <2>7. \A i \in DOMAIN accepted' : accepted'[i] = RowFor(FlushOrder[i])'
    <3>1. \A i : RowFor(FlushOrder[i])' = RowFor(FlushOrder[i])
      BY <1>4 DEF FlushOrder, RowFor, M!FlushEntry, M!Vectored, M!Live
    <3> QED
      BY <2>5, <2>6, <3>1
  <2>8. FeedInv'
    BY <1>1, <1>4, <2>1, <2>2, <2>3, <2>5, <2>7 DEF IInv, FeedInv
  <2> QED
    BY <1>2, <1>3, <2>1, <2>8 DEF IInv
<1>7. CASE CreateFails \/ Finish \/ WriteDone \/ WriteFails
  <2>1. W!CreateFails \/ W!Finish \/ W!WriteDone \/ W!WriteFails
    BY <1>7 DEF CreateFails, Finish, WriteDone, WriteFails
  <2>2. WP!IInv'
    BY <2>1, WriterSteps DEF IInv
  <2>3. /\ phase' = phase /\ accepted' = accepted
        /\ phase = "flushing" /\ Len(accepted) = Cardinality(DOMAIN map)
    <3>1. phase' = phase /\ accepted' = accepted
      BY <1>7, <2>1 DEF CreateFails, Finish, WriteDone, WriteFails, W!CreateFails, W!Finish,
                        W!WriteDone, W!WriteFails, W!buffers
    <3>2. AllFed \/ stage = "finish"
      BY <1>7 DEF CreateFails, Finish, WriteDone, WriteFails, W!WriteDone, W!WriteFails
    <3> QED
      BY <3>1, <3>2 DEF AllFed, IInv, FeedInv
  <2>4. FeedInv'
    BY <1>1, <1>4, <2>3, RowsUnchanged DEF IInv, FeedInv
  <2> QED
    BY <1>2, <1>3, <2>2, <2>4 DEF IInv
<1> QED
  BY <1>5, <1>6, <1>7

(* When a table joins the others: its ids were in memory until now, and for   *)
(* the keys it holds it is the newest.                                        *)
LEMMA CommitIInv ==
  ASSUME IInv, RowsFit, Commit
  PROVE  IInv'
<1> DEFINE image == file.image
           n     == Len(tables)
<1>1. /\ sst_reply.op = "meta" /\ tables' = Append(tables, image) /\ phase' = "serving"
      /\ M!Successor /\ OpenWriter /\ file' = [state |-> "absent"]
  BY DEF Commit
<1>2. /\ MP!IInv' /\ DOMAIN map' = {} /\ DOMAIN vectors' = {} /\ next_doc_id' = next_doc_id
  BY <1>1, SuccessorIInv DEF IInv
<1>3. WP!IInv'
  BY <1>1, OpenWriterIInv
<1>4. FeedInv'
  BY <1>1, <1>2, OpenWriterFeedInv, FS_EmptySet DEF IInv
<1>5. /\ image.key_block = entries /\ image.row_ids = row_ids /\ row_ids \in Seq(Nat)
      /\ \A i \in DOMAIN row_ids : row_ids[i] \in DOMAIN vectors /\ row_ids[i] < next_doc_id
      /\ IsInjective(row_ids)
  BY <1>1, ImageFacts, WriterFacts DEF IInv
<1> HIDE DEF image
<1>6. /\ n \in Nat /\ DOMAIN tables = 1 .. n /\ Len(tables') = n + 1
      /\ \A t \in 1 .. n : tables'[t] = tables[t]
      /\ tables'[n + 1] = image /\ DOMAIN tables' = 1 .. n + 1
      /\ \A t \in 1 .. n + 1 : t \in 1 .. n \/ t = n + 1
  BY <1>1 DEF IInv, DiskInv
<1>7. Len(tables') <= MaxTables
  <2>1. n < MaxTables
    BY DEF Commit, IInv, FeedInv
  <2> QED
    BY <1>6, <2>1, Parameters
<1>8. tables' \in Seq({tables'[t] : t \in DOMAIN tables'})
  <2> DEFINE all == {tables'[t] : t \in DOMAIN tables'}
  <2>1. image \in all /\ \A t \in 1 .. n : tables[t] \in all
    BY <1>6
  <2>2. tables \in Seq({tables[t] : t \in DOMAIN tables})
    BY DEF IInv, DiskInv
  <2> HIDE DEF all
  <2>3. tables \in Seq(all)
    BY <1>6, <2>1, <2>2
  <2>4. tables' \in Seq(all)
    BY <1>1, <2>1, <2>3 DEF image
  <2> QED
    BY <2>4 DEF all
<1>9. \A t \in DOMAIN tables' : tables'[t].row_ids \in Seq(Nat)
  BY <1>5, <1>6 DEF IInv, DiskInv
<1>10. /\ \A t \in 1 .. n : IdsOnDisk(t)' = IdsOnDisk(t) /\ IdsOnDisk(t) \cap DOMAIN vectors = {}
       /\ ToSet(row_ids) \subseteq DOMAIN vectors
  <2>1. \A t \in 1 .. n : IdsOnDisk(t)' = IdsOnDisk(t)
    BY <1>6 DEF IdsOnDisk
  <2> QED
    BY <1>5, <1>6, <2>1 DEF IInv, DiskInv, GloballyUniqueIds, ToSet
<1>11. GloballyUniqueIds'
  <2> DEFINE ids(t) == ToSet(tables'[t].row_ids)
  <2>1. \A t \in 1 .. n : /\ ids(t) = IdsOnDisk(t) /\ ids(t) \cap DOMAIN vectors = {}
                          /\ \A id \in ids(t) : id < next_doc_id
                          /\ IsInjective(tables'[t].row_ids)
    BY <1>6, <1>10 DEF IInv, DiskInv, GloballyUniqueIds, IdsOnDisk
  <2>2. /\ ids(n + 1) \subseteq DOMAIN vectors /\ IsInjective(tables'[n + 1].row_ids)
        /\ \A id \in ids(n + 1) : id < next_doc_id
    BY <1>5, <1>6 DEF ToSet
  <2>3. \A t, u \in 1 .. n : t # u => IdsOnDisk(t) \cap IdsOnDisk(u) = {}
    BY <1>6 DEF IInv, DiskInv, GloballyUniqueIds
  <2> HIDE DEF ids
  <2>4. \A t, u \in 1 .. n + 1 : t # u => ids(t) \cap ids(u) = {}
    BY <1>6, <2>1, <2>2, <2>3
  <2>5. \A t \in 1 .. n + 1 : /\ IsInjective(tables'[t].row_ids)
                              /\ ids(t) \cap DOMAIN vectors' = {}
                              /\ \A id \in ids(t) : id < next_doc_id'
    BY <1>2, <1>6, <2>1, <2>2
  <2> QED
    BY <1>6, <2>4, <2>5 DEF GloballyUniqueIds, IdsOnDisk, ids
<1>12. ASSUME NEW k \in Keys, Holding(k)' # {}
       PROVE  \E t \in Holding(k)' : \A u \in Holding(k)' : u <= t
  <2>1. \A t \in 1 .. n : t \in Holding(k)' <=> t \in Holding(k)
    BY <1>6 DEF Holding
  <2>2. Holding(k)' \subseteq 1 .. n + 1 /\ Holding(k) \subseteq 1 .. n
    BY <1>6 DEF Holding
  <2>3. CASE n + 1 \in Holding(k)'
    BY <1>6, <2>2, <2>3
  <2>4. CASE n + 1 \notin Holding(k)'
    <3>1. Holding(k)' = Holding(k)
      BY <1>6, <2>1, <2>2, <2>4
    <3> QED
      BY <1>12, <3>1 DEF IInv, DiskInv
  <2> QED
    BY <2>3, <2>4
<1>13. DiskInv'
  BY <1>7, <1>8, <1>9, <1>11, <1>12 DEF DiskInv
<1> QED
  BY <1>2, <1>3, <1>4, <1>13 DEF IInv

(* Every step keeps the inductive invariant.                                  *)
LEMMA NextIInv ==
  ASSUME IInv, RowsFit, [Next]_vars
  PROVE  IInv'
<1>1. ASSUME NEW key \in Keys, NEW value \in Values,
             NEW vector \in Vectors \cup {NoVector}, Put(key, value, vector)
      PROVE  IInv'
  BY <1>1, CallIInv
<1>2. ASSUME NEW key \in Keys, Delete(key) PROVE IInv'
  BY <1>2, CallIInv
<1>3. CASE StartFlush \/ Feed \/ CreateFails \/ Finish \/ WriteDone \/ WriteFails \/ Retry
  BY <1>3, FlushStepIInv
<1>4. CASE Commit
  BY <1>4, CommitIInv
<1>5. CASE UNCHANGED vars
  <2>1. UNCHANGED memvars /\ UNCHANGED sstvars /\ UNCHANGED <<phase, tables>>
    BY <1>5 DEF vars
  <2>2. MP!IInv'
    BY <2>1, Parameters, MP!UnchangedIInv DEF IInv, memvars, MP!memvars
  <2>3. WP!IInv'
    BY <2>1, WriterSteps DEF IInv
  <2>4. FeedInv'
    BY <2>1, RowsUnchanged DEF IInv, FeedInv, memvars, sstvars
  <2>5. DiskInv'
    <3>1. next_doc_id \in Nat
      BY SlotFacts DEF IInv
    <3> QED
      BY <2>1, <3>1, TablesKept DEF IInv, memvars
  <2> QED
    BY <2>2, <2>3, <2>4, <2>5 DEF IInv
<1> QED
  BY <1>1, <1>2, <1>3, <1>4, <1>5 DEF Next

(* The inductive invariant holds at every step of every flush.                *)
LEMMA FlushInvariant ==
  ASSUME RowsFit
  PROVE  Spec => []IInv
<1>1. Init => IInv
  BY InitIInv
<1>2. IInv /\ [Next]_vars => IInv'
  BY NextIInv
<1> QED
  BY <1>1, <1>2, PTL DEF Spec

(* Memtable, writer and tables stay well typed, and the writer takes every    *)
(* entry iter_for_flush yields, for any rows, vectors and failures.           *)
THEOREM FlushAlwaysSound ==
  ASSUME RowsFit
  PROVE  Spec => []FlushSound
<1>1. ASSUME IInv PROVE TypeOK
  <2>1. M!TypeOK
    BY <1>1 DEF IInv, MP!IInv, MP!TypeOK, M!TypeOK, MP!Slot, M!Slot, MP!Tombstone, M!Tombstone,
                MP!DocIds, M!DocIds, MP!NoDocId, M!NoDocId, MP!DimOK, M!DimOK
  <2>2. W!TypeOK
    BY <1>1 DEF IInv, WP!IInv, WP!TypeOK, W!TypeOK, WP!Entry, W!Entry, WP!Row, W!Row,
                WP!NO_VECTOR, W!NO_VECTOR, WP!DocIds, W!DocIds, WP!NoDocId, W!NoDocId,
                WP!DimOK, W!DimOK
  <2> QED
    BY <1>1, <2>1, <2>2 DEF TypeOK, IInv, FeedInv, DiskInv
<1>2. ASSUME IInv PROVE FlushNeverRefused
  <2> SUFFICES ASSUME Unfed
               PROVE  W!InOrder(NextEntry.key) /\ NextEntry.vector \in Accepted
    BY DEF FlushNeverRefused
  <2> DEFINE n == Len(accepted)
             k == FlushOrder[n + 1]
             size == Cardinality(DOMAIN map)
  <2>1. phase = "flushing" /\ n < size
    BY DEF Unfed
  <2>2. /\ size \in Nat /\ n \in Nat /\ n + 1 \in 1 .. size
        /\ \A i \in 1 .. size : FlushOrder[i] \in DOMAIN map
        /\ \A i, j \in 1 .. size : i < j => FlushOrder[i] < FlushOrder[j]
    BY <1>2, <2>1, SlotFacts, WriterFacts, FlushOrderIsOrder DEF IInv, FeedInv
  <2>3. NextEntry.key = k /\ k \in DOMAIN map
        /\ NextEntry.vector = IF k \in M!Vectored(map) THEN vectors[map[k].doc_id] ELSE NoVector
    BY <2>2 DEF NextEntry, M!FlushEntry
  <2>4. NextEntry.vector \in Accepted
    BY <1>2, <2>3, SlotFacts DEF IInv, Accepted
  <2>5. ASSUME entries # <<>> PROVE W!Last(entries).key < k
    <3>1. Len(entries) = n /\ n \in 1 .. n /\ DOMAIN entries = 1 .. n /\ DOMAIN accepted = 1 .. n
      BY <1>2, <2>5, WriterFacts DEF IInv
    <3>2. entries[n].key = FlushOrder[n]
      <4>1. WP!Describes(entries[n], accepted[n]) /\ accepted[n] = RowFor(FlushOrder[n])
        BY <1>2, <2>1, <3>1, WriterFacts DEF IInv, FeedInv
      <4> QED
        BY <4>1, RowFields DEF WP!Describes
    <3>3. FlushOrder[n] < k
      BY <2>2, <3>1
    <3> QED
      BY <3>1, <3>2, <3>3 DEF W!Last
  <2> QED
    BY <2>3, <2>4, <2>5 DEF W!InOrder
<1> QED
  BY <1>1, <1>2, FlushInvariant, PTL DEF FlushSound

(* No doc id is ever given to two versions, on disk or in memory, over any    *)
(* number of flushes.                                                         *)
THEOREM IdsNeverCollide ==
  ASSUME RowsFit
  PROVE  Spec => []GloballyUniqueIds
<1>1. IInv => GloballyUniqueIds
  BY DEF IInv, DiskInv
<1> QED
  BY <1>1, FlushInvariant, PTL

-----------------------------------------------------------------------------
(* What the newest table says of a key that is not in memory.                 *)
DiskRow(k) ==
  [value |-> Newest(k).value, doc_id |-> Newest(k).doc_id, vector |-> Newest(k).vector]

(* Reading looks in the memtable first, and then in the tables.               *)
LEMMA ViewFacts ==
  /\ DOMAIN View = M!Live(map) \cup (OnDisk \ DOMAIN map)
  /\ \A k \in DOMAIN View :
       View[k] = IF k \in DOMAIN map THEN M!LiveRows[k] ELSE DiskRow(k)
  /\ View = [k \in DOMAIN View |-> View[k]]
  /\ M!Live(map) \subseteq DOMAIN map /\ DOMAIN M!LiveRows = M!Live(map)
BY DEF View, DiskRow, M!Live, M!LiveRows

(* Reading the tables depends on the tables alone.                            *)
LEMMA DiskUnchanged ==
  ASSUME UNCHANGED tables
  PROVE  OnDisk' = OnDisk /\ \A k : DiskRow(k)' = DiskRow(k)
<1>1. \A k : Holding(k)' = Holding(k)
  BY DEF Holding
<1>2. ASSUME NEW k PROVE Newest(k)' = Newest(k)
  BY DEF Newest, Holding, W!ReadRecord, W!NO_VECTOR, W!NoDocId
<1> QED
  BY <1>1, <1>2 DEF OnDisk, DiskRow

(* The live rows of the memtable after a call, from its own refinement.       *)
LEMMA LiveRowsAfterCall ==
  ASSUME MP!IInv, NEW key \in Keys
  PROVE  /\ \A value \in Values, vector \in Vectors \cup {NoVector} :
              M!Put(key, value, vector) =>
                M!LiveRows' = Contract!MapInsert(M!LiveRows, key,
                  [value |-> value, vector |-> vector,
                   doc_id |-> IF vector = NoVector THEN NoDocId ELSE next_doc_id])
         /\ M!Delete(key) => M!LiveRows' = Contract!MapRemove(M!LiveRows, key)
<1>1. M!LiveRows = MP!LiveRows /\ M!LiveRows' = MP!LiveRows'
  BY DEF M!LiveRows, MP!LiveRows, M!Live, MP!Live, M!FlushEntry, MP!FlushEntry,
         M!Vectored, MP!Vectored, M!NoDocId, MP!NoDocId
<1>2. ASSUME NEW value \in Values, NEW vector \in Vectors \cup {NoVector},
             M!Put(key, value, vector)
      PROVE  M!LiveRows' = Contract!MapInsert(M!LiveRows, key,
               [value |-> value, vector |-> vector,
                doc_id |-> IF vector = NoVector THEN NoDocId ELSE next_doc_id])
  <2>1. MP!Contract!Put(key, value, vector)
    BY <1>2, SameCalls, Parameters, MP!PutRefines
  <2> QED
    BY <1>1, <2>1 DEF MP!Contract!Put, MP!Contract!MapInsert, Contract!MapInsert,
                      MP!Contract!NoDocId, NoDocId
<1>3. ASSUME M!Delete(key) PROVE M!LiveRows' = Contract!MapRemove(M!LiveRows, key)
  <2>1. MP!Contract!Delete(key)
    BY <1>3, SameCalls, Parameters, MP!DeleteRefines
  <2> QED
    BY <1>1, <2>1 DEF MP!Contract!Delete, MP!Contract!MapRemove, Contract!MapRemove
<1> QED
  BY <1>2, <1>3

(* A call of the memtable is the same call of the engine: it shadows whatever *)
(* the tables hold of its key, and nothing else.                              *)
LEMMA PutRefines ==
  ASSUME IInv, NEW key \in Keys, NEW value \in Values, NEW vector \in Vectors \cup {NoVector},
         Put(key, value, vector)
  PROVE  Contract!Put(key, value, vector)
<1> DEFINE id  == IF vector = NoVector THEN NoDocId ELSE next_doc_id
           row == [value |-> value, doc_id |-> id, vector |-> vector]
<1>1. M!Put(key, value, vector) /\ UNCHANGED tables
  BY DEF Put
<1>2. M!LiveRows' = Contract!MapInsert(M!LiveRows, key, row)
  BY <1>1, LiveRowsAfterCall DEF IInv
<1>3. DOMAIN map' = DOMAIN map \cup {key}
  BY <1>1, CallFacts DEF IInv
<1> HIDE DEF row
<1>4. /\ DOMAIN M!LiveRows' = DOMAIN M!LiveRows \cup {key}
      /\ \A k \in DOMAIN M!LiveRows' : M!LiveRows'[k] = IF k = key THEN row ELSE M!LiveRows[k]
  BY <1>2 DEF Contract!MapInsert
<1>5. OnDisk' = OnDisk /\ \A k : DiskRow(k)' = DiskRow(k)
  BY <1>1, DiskUnchanged
<1>6. /\ DOMAIN View' = M!Live(map)' \cup (OnDisk' \ DOMAIN map')
      /\ \A k \in DOMAIN View' :
           View'[k] = IF k \in DOMAIN map' THEN M!LiveRows'[k] ELSE DiskRow(k)'
      /\ View' = [k \in DOMAIN View' |-> View'[k]]
      /\ M!Live(map)' \subseteq DOMAIN map' /\ DOMAIN M!LiveRows' = M!Live(map)'
  BY DEF View, DiskRow, M!Live, M!LiveRows
<1>7. DOMAIN View' = DOMAIN View \cup {key}
  BY <1>3, <1>4, <1>5, <1>6, ViewFacts
<1>8. \A k \in DOMAIN View' : View'[k] = IF k = key THEN row ELSE View[k]
  BY <1>3, <1>4, <1>5, <1>6, <1>7, ViewFacts
<1>9. View' = Contract!MapInsert(View, key, row)
  BY <1>6, <1>7, <1>8 DEF Contract!MapInsert
<1> QED
  BY <1>1, <1>9 DEF M!Put, Contract!Put, row, M!NextId, M!Accepted, Contract!Accepted,
                    M!DimOK, Contract!DimOK, M!NoDocId, Contract!NoDocId, NoDocId

(* The tombstone hides whatever the tables hold of the key.                   *)
LEMMA DeleteRefines ==
  ASSUME IInv, NEW key \in Keys, Delete(key)
  PROVE  Contract!Delete(key)
<1>1. M!Delete(key) /\ UNCHANGED tables
  BY DEF Delete
<1>2. M!LiveRows' = Contract!MapRemove(M!LiveRows, key)
  BY <1>1, LiveRowsAfterCall DEF IInv
<1>3. DOMAIN map' = DOMAIN map \cup {key}
  BY <1>1, CallFacts DEF IInv
<1>4. /\ DOMAIN M!LiveRows' = DOMAIN M!LiveRows \ {key}
      /\ \A k \in DOMAIN M!LiveRows' : M!LiveRows'[k] = M!LiveRows[k]
  BY <1>2 DEF Contract!MapRemove
<1>5. OnDisk' = OnDisk /\ \A k : DiskRow(k)' = DiskRow(k)
  BY <1>1, DiskUnchanged
<1>6. /\ DOMAIN View' = M!Live(map)' \cup (OnDisk' \ DOMAIN map')
      /\ \A k \in DOMAIN View' :
           View'[k] = IF k \in DOMAIN map' THEN M!LiveRows'[k] ELSE DiskRow(k)'
      /\ View' = [k \in DOMAIN View' |-> View'[k]]
      /\ M!Live(map)' \subseteq DOMAIN map' /\ DOMAIN M!LiveRows' = M!Live(map)'
  BY DEF View, DiskRow, M!Live, M!LiveRows
<1>7. DOMAIN View' = DOMAIN View \ {key}
  BY <1>3, <1>4, <1>5, <1>6, ViewFacts
<1>8. \A k \in DOMAIN View' : View'[k] = View[k]
  BY <1>3, <1>4, <1>5, <1>6, <1>7, ViewFacts
<1>9. View' = Contract!MapRemove(View, key)
  BY <1>6, <1>7, <1>8 DEF Contract!MapRemove
<1> QED
  BY <1>1, <1>9 DEF M!Delete, Contract!Delete

(* Handing the memtable over to a table changes nothing a client can see:     *)
(* the new table is the newest for exactly the keys it takes over, and says   *)
(* of them what the memtable said.                                            *)
LEMMA CommitKeepsView ==
  ASSUME IInv, RowsFit, Commit
  PROVE  View' = View
<1> DEFINE image == file.image
           n     == Len(tables)
           holds(k) == \E i \in DOMAIN entries : entries[i].key = k
<1>1. /\ sst_reply.op = "meta" /\ tables' = Append(tables, image) /\ M!Successor
  BY DEF Commit
<1>2. DOMAIN map' = {}
  BY <1>1, SuccessorIInv DEF IInv
<1>3. /\ image.key_block = entries
      /\ \A i \in DOMAIN entries : /\ entries[i].key \in DOMAIN map
                                  /\ W!ReadRecord(entries[i], image) = RowFor(entries[i].key)
      /\ \A k \in DOMAIN map : holds(k)
  BY <1>1, ImageFacts DEF IInv
<1>4. /\ n \in Nat /\ DOMAIN tables = 1 .. n
      /\ \A t \in 1 .. n : tables'[t] = tables[t]
      /\ tables'[n + 1] = image /\ DOMAIN tables' = 1 .. n + 1
      /\ \A t \in 1 .. n + 1 : t \in 1 .. n \/ t = n + 1
  BY <1>1 DEF IInv, DiskInv
<1> HIDE DEF image, n
<1>5. ASSUME NEW k \in Keys, k \in DOMAIN map
      PROVE  Holding(k)' # {} /\ Newest(k)' = RowFor(k)
  <2> DEFINE newest == CHOOSE t \in Holding(k)' : \A u \in Holding(k)' : u <= t
             i == CHOOSE i \in DOMAIN entries : entries[i].key = k
  <2>1. n + 1 \in Holding(k)' /\ Holding(k)' \subseteq 1 .. n + 1
    BY <1>3, <1>4, <1>5 DEF Holding
  <2>2. \A u \in Holding(k)' : u <= n + 1
    BY <1>4, <2>1
  <2>3. \A t \in Holding(k)' : (\A u \in Holding(k)' : u <= t) => t = n + 1
    BY <1>4, <2>1, <2>2
  <2>4. newest = n + 1
    BY <2>1, <2>2, <2>3
  <2>5. i \in DOMAIN entries /\ entries[i].key = k
    BY <1>3, <1>5
  <2>6. Newest(k)' = W!ReadRecord(entries[i], image)
    <3>1. Newest(k)' = W!ReadRecord(tables'[newest].key_block[
                         CHOOSE j \in DOMAIN tables'[newest].key_block :
                           tables'[newest].key_block[j].key = k], tables'[newest])
      BY DEF Newest
    <3> QED
      BY <1>3, <1>4, <2>4, <3>1
  <2> QED
    BY <1>3, <2>1, <2>5, <2>6
<1>6. ASSUME NEW k \in Keys, k \notin DOMAIN map
      PROVE  Holding(k)' = Holding(k) /\ (Holding(k) # {} => Newest(k)' = Newest(k))
  <2>1. n + 1 \notin Holding(k)'
    BY <1>3, <1>4, <1>6 DEF Holding
  <2>2. Holding(k)' = Holding(k)
    BY <1>4, <2>1 DEF Holding
  <2>3. ASSUME Holding(k) # {} PROVE Newest(k)' = Newest(k)
    <3> DEFINE newest == CHOOSE t \in Holding(k) : \A u \in Holding(k) : u <= t
    <3>1. newest \in Holding(k)
      BY <2>3 DEF IInv, DiskInv
    <3>2. tables'[newest] = tables[newest]
      BY <1>4, <3>1 DEF Holding
    <3>3. Newest(k) = W!ReadRecord(tables[newest].key_block[
                        CHOOSE j \in DOMAIN tables[newest].key_block :
                          tables[newest].key_block[j].key = k], tables[newest])
      BY DEF Newest
    <3>4. Newest(k)' = W!ReadRecord(tables'[newest].key_block[
                         CHOOSE j \in DOMAIN tables'[newest].key_block :
                           tables'[newest].key_block[j].key = k], tables'[newest])
      BY <2>2 DEF Newest
    <3> QED
      BY <3>2, <3>3, <3>4
  <2> QED
    BY <2>2, <2>3
<1>7. ASSUME NEW k \in DOMAIN map
      PROVE  /\ RowFor(k).tombstone <=> k \notin M!Live(map)
             /\ k \in Keys
             /\ k \in M!Live(map) =>
                  M!LiveRows[k] = [value |-> RowFor(k).value, doc_id |-> RowFor(k).doc_id,
                                   vector |-> RowFor(k).vector]
  <2>1. k \in Keys /\ (k \in M!Live(map) <=> map[k].kind = "put")
    BY SlotFacts DEF IInv, M!Live
  <2>2. RowFor(k).tombstone <=> map[k].kind # "put"
    BY DEF RowFor
  <2>3. ASSUME map[k].kind = "put"
        PROVE  /\ RowFor(k).value = map[k].value /\ RowFor(k).doc_id = map[k].doc_id
               /\ RowFor(k).vector = M!FlushEntry(k).vector
    BY <2>3, SlotFacts DEF IInv, RowFor
  <2>4. k \in M!Live(map) =>
          M!LiveRows[k] = [value |-> map[k].value, doc_id |-> map[k].doc_id,
                           vector |-> M!FlushEntry(k).vector]
    BY DEF M!LiveRows
  <2> QED
    BY <2>1, <2>2, <2>3, <2>4
<1>8. /\ DOMAIN View' = OnDisk'
      /\ \A k \in OnDisk' : View'[k] = DiskRow(k)'
      /\ View' = [k \in DOMAIN View' |-> View'[k]]
  BY <1>2 DEF View, DiskRow, M!Live
<1>9. \A k : k \in OnDisk' <=> k \in M!Live(map) \cup (OnDisk \ DOMAIN map)
  BY <1>5, <1>6, <1>7, ViewFacts DEF OnDisk
<1>10. ASSUME NEW k \in OnDisk' PROVE View'[k] = View[k]
  <2>1. CASE k \in DOMAIN map
    BY <1>5, <1>7, <1>8, <1>9, <2>1, ViewFacts DEF DiskRow, OnDisk
  <2>2. CASE k \notin DOMAIN map
    <3>1. k \in Keys /\ Newest(k)' = Newest(k)
      BY <1>6, <1>9, <2>2, ViewFacts DEF OnDisk
    <3> QED
      BY <1>8, <1>9, <2>2, <3>1, ViewFacts DEF DiskRow
  <2> QED
    BY <2>1, <2>2
<1> QED
  BY <1>8, <1>9, <1>10, ViewFacts

(* Memtable, writer and tables together are an engine: flushing is invisible  *)
(* at every one of its steps, whatever writes fail, and deleted rows stay     *)
(* deleted when older tables hold them.                                       *)
THEOREM FlushImplementsEngine ==
  ASSUME RowsFit
  PROVE  Spec => ImplementsEngine
<1>1. Init => Contract!Init
  <2> SUFFICES ASSUME Init PROVE Contract!Init
    OBVIOUS
  <2>1. DOMAIN map = {} /\ DOMAIN tables = {}
    BY DEF Init, M!Init, M!EmptyMap
  <2>2. OnDisk = {} /\ M!Live(map) = {}
    BY <2>1 DEF OnDisk, Holding, M!Live
  <2>3. View = [k \in {} |-> 0]
    BY <2>2 DEF View
  <2> QED
    BY <2>3 DEF Init, M!Init, Contract!Init, Contract!EmptyMap
<1>2. IInv /\ [Next]_vars => [Contract!Next]_(Contract!vars)
  <2> SUFFICES ASSUME IInv, [Next]_vars
               PROVE  Contract!Next \/ UNCHANGED Contract!vars
    OBVIOUS
  <2>1. ASSUME NEW key \in Keys, NEW value \in Values,
               NEW vector \in Vectors \cup {NoVector}, Put(key, value, vector)
        PROVE  Contract!Next
    BY <2>1, PutRefines DEF Contract!Next
  <2>2. ASSUME NEW key \in Keys, Delete(key) PROVE Contract!Next
    BY <2>2, DeleteRefines DEF Contract!Next
  <2>3. ASSUME UNCHANGED <<memvars, reply, tables>> PROVE UNCHANGED Contract!vars
    <3>1. OnDisk' = OnDisk /\ \A k : DiskRow(k)' = DiskRow(k)
      BY <2>3, DiskUnchanged
    <3>2. M!Live(map)' = M!Live(map) /\ M!LiveRows' = M!LiveRows /\ map' = map
      BY <2>3 DEF memvars, M!Live, M!LiveRows, M!FlushEntry, M!Vectored
    <3>3. View' = View
      BY <3>1, <3>2 DEF View, DiskRow
    <3> QED
      BY <2>3, <3>3 DEF memvars, Contract!vars
  <2>4. CASE StartFlush \/ Feed \/ CreateFails \/ Finish \/ WriteDone \/ WriteFails \/ Retry
    BY <2>3, <2>4 DEF StartFlush, Feed, CreateFails, Finish, WriteDone, WriteFails, Retry
  <2>5. CASE Commit
    <3>1. View' = View
      BY <2>5, CommitKeepsView
    <3> QED
      BY <2>5, <3>1 DEF Commit, M!Successor, Contract!vars
  <2>6. CASE UNCHANGED vars
    BY <2>3, <2>6 DEF vars
  <2> QED
    BY <2>1, <2>2, <2>4, <2>5, <2>6 DEF Next
<1> QED
  BY <1>1, <1>2, FlushInvariant, PTL DEF Spec, ImplementsEngine
=============================================================================
