------------------------------ MODULE SstWriter ------------------------------
(* The writer of an on-disk table (lab1/src/sstable.rs): rows are buffered in *)
(* key order, vectors get ordinals, and `finish` lays the six sections out in *)
(* one buffer and writes it in one call, which may fail half way.             *)
EXTENDS Vlsm, SequencesExt

CONSTANTS
  KeyLen, ValueLen,  \* bytes of each key and value
  NoBytes,           \* the empty value a tombstone is written with
  U32,               \* 2^32 in the code; small here, so that it can be reached
  FlushedIds,        \* doc ids the rows carry, in any order
  MaxRows            \* bound of the model on the rows of one table

ASSUME LengthsAssumption == KeyLen \in [Keys -> Nat] /\ ValueLen \in [Values -> Nat]
ASSUME WidthAssumption == U32 \in Nat \ {0, 1} /\ MaxRows \in Nat
ASSUME FlushedIdsAssumption == FlushedIds \subseteq Nat

NO_VECTOR      == U32 - 1  \* u32::MAX
HEADER_LEN     == 32
RECORD_PREFIX  == 16
FOOTER_LEN     == 64
F32_BYTES      == 4
DOC_ID_BYTES   == 8
TWO_COUNTS     == 8        \* codebook and adjacency: two u32 zeroes each

VARIABLES
  entries,   \* PendingEntry sequence
  codes,     \* vectors, one row per ordinal
  row_ids,   \* doc id of each ordinal
  stage,     \* "open", inside "finish", or "closed" (the writer is consumed)
  file,      \* what the path holds: nothing, a torn prefix, or a whole image
  reply,     \* what the last call returned
  accepted   \* history: the rows whose add returned Ok, as the caller gave them

buffers == <<entries, codes, row_ids, accepted>>
vars    == <<buffers, stage, file, reply>>

Row == [key : Keys, value : Values \cup {NoBytes}, tombstone : BOOLEAN,
        doc_id : DocIds, vector : Vectors \cup {NoVector}]
Entry == [key : Keys, value : Values \cup {NoBytes}, tombstone : BOOLEAN,
          vec_ordinal : 0 .. NO_VECTOR]

TypeOK ==
  /\ entries \in Seq(Entry)
  /\ codes \in Seq({v \in Vectors : DimOK(v)})
  /\ row_ids \in Seq(Nat)
  /\ accepted \in Seq(Row)
  /\ stage \in {"open", "finish", "closed"}
  /\ file.state \in {"absent", "torn", "whole"}

Open ==  \* SstWriter::new
  /\ entries = <<>>
  /\ codes = <<>>
  /\ row_ids = <<>>
  /\ accepted = <<>>
  /\ stage = "open"
  /\ reply = [op |-> "none"]

Init == Open /\ file = [state |-> "absent"]

(* Bug: equal keys pass.                                                      *)
InOrderOrEqual(key) == entries # <<>> => Last(entries).key <= key

(* check_order: strictly after the last key.                                  *)
InOrder(key) == entries # <<>> => Last(entries).key < key

Push(key, value, tombstone, ordinal, id, vector) ==
  /\ Len(entries) < MaxRows
  /\ entries' = Append(entries, [key |-> key, value |-> value,
                                 tombstone |-> tombstone, vec_ordinal |-> ordinal])
  /\ accepted' = Append(accepted, [key |-> key, value |-> value, tombstone |-> tombstone,
                                   doc_id |-> id, vector |-> vector])
  /\ reply' = [op |-> "ok"]
  /\ UNCHANGED <<stage, file>>

AddPlain(key, value) ==
  /\ stage = "open" /\ InOrder(key)
  /\ Push(key, value, FALSE, NO_VECTOR, NoDocId, NoVector)
  /\ UNCHANGED <<codes, row_ids>>

(* Bug: the ordinal is never advanced.                                        *)
OrdinalZero == 0

Ordinal == Len(row_ids) % U32

AddVectored(key, value, id, vector) ==
  /\ stage = "open" /\ InOrder(key) /\ DimOK(vector)
  /\ row_ids' = Append(row_ids, id)
  /\ codes' = Append(codes, vector)
  /\ Push(key, value, FALSE, Ordinal, id, vector)

AddTombstone(key) ==
  /\ stage = "open" /\ InOrder(key)
  /\ Push(key, NoBytes, TRUE, NO_VECTOR, NoDocId, NoVector)
  /\ UNCHANGED <<codes, row_ids>>

UnsortedKey(key) ==
  /\ stage = "open" /\ ~InOrder(key)
  /\ reply' = [op |-> "unsorted_key"]
  /\ UNCHANGED <<buffers, stage, file>>

(* Bug: the row-id map is extended before the dimension is checked.           *)
DimMismatchAfterPush(key, vector) ==
  /\ stage = "open" /\ InOrder(key) /\ ~DimOK(vector)
  /\ row_ids' = Append(row_ids, 0)
  /\ codes' = Append(codes, vector)
  /\ reply' = [op |-> "dim_mismatch"]
  /\ UNCHANGED <<entries, accepted, stage, file>>

DimMismatch(key, vector) ==
  /\ stage = "open" /\ InOrder(key) /\ ~DimOK(vector)
  /\ reply' = [op |-> "dim_mismatch"]
  /\ UNCHANGED <<buffers, stage, file>>

-----------------------------------------------------------------------------
(* Bug: rounds down.                                                          *)
PadDown64(n) == (n \div 64) * 64

(* pad64: the first multiple of 64 at or after n.                             *)
Pad64(n) == ((n + 63) \div 64) * 64

(* The offsets of sections 0 to 5 and of the footer, in file order, in a      *)
(* table with a key block of keyBytes bytes and n vectors of d codes.         *)
Layout(keyBytes, n, d) ==
  LET o1 == Pad64(HEADER_LEN)
      o2 == Pad64(o1 + keyBytes)
      o3 == Pad64(o2 + n * (d * F32_BYTES))
      o4 == Pad64(o3 + TWO_COUNTS)
      o5 == Pad64(o4 + n * DOC_ID_BYTES)
      o6 == Pad64(o5 + TWO_COUNTS)
  IN  <<0, o1, o2, o3, o4, o5, o6>>
Start(layout, section) == layout[section + 1]
FooterOffset(layout)   == layout[7]

RecordBytes(e) == RECORD_PREFIX + KeyLen[e.key] + (IF e.tombstone THEN 0 ELSE ValueLen[e.value])
RecordSizes(es)   == [i \in DOMAIN es |-> RecordBytes(es[i])]
KeyBlockBytes(es) == Cardinality(Bytes(RecordSizes(es)))

Image ==
  [dim |-> Dim, entry_count |-> Len(entries) % U32, vector_count |-> Len(row_ids) % U32,
   key_block |-> entries, codes |-> codes, row_ids |-> row_ids,
   layout |-> Layout(KeyBlockBytes(entries), Len(row_ids), Dim)]

SmallestKey == {entries[i].key : i \in {1} \cap DOMAIN entries}
LargestKey  == {entries[i].key : i \in {Len(entries)} \cap DOMAIN entries}

Meta ==
  [op |-> "meta",
   entry_count |-> Len(entries) % U32, vector_count |-> Len(row_ids) % U32,
   file_bytes |-> FooterOffset(Image.layout) + FOOTER_LEN,
   smallest_key |-> SmallestKey, largest_key |-> LargestKey]

(* std::fs::write cannot create the file: Err(Io), and `self` is consumed.    *)
CreateFails ==
  /\ stage = "open"
  /\ stage' = "closed"
  /\ reply' = [op |-> "io_error"]
  /\ UNCHANGED <<buffers, file>>

(* finish up to the truncation that std::fs::write starts with.               *)
Finish ==
  /\ stage = "open"
  /\ stage' = "finish"
  /\ file' = [state |-> "torn"]
  /\ UNCHANGED <<buffers, reply>>

WriteDone ==
  /\ stage = "finish"
  /\ stage' = "closed"
  /\ file' = [state |-> "whole", image |-> Image]
  /\ reply' = Meta
  /\ UNCHANGED buffers

WriteFails ==  \* Err(Io) half way: the torn file stays
  /\ stage = "finish"
  /\ stage' = "closed"
  /\ reply' = [op |-> "io_error"]
  /\ UNCHANGED <<buffers, file>>

Next ==
  \/ \E key \in Keys, value \in Values : AddPlain(key, value)
  \/ \E key \in Keys, value \in Values, vector \in Vectors, id \in FlushedIds \ ToSet(row_ids) :
       AddVectored(key, value, id, vector)
  \/ \E key \in Keys : AddTombstone(key)
  \/ \E key \in Keys : UnsortedKey(key)
  \/ \E key \in Keys, vector \in Vectors : DimMismatch(key, vector)
  \/ CreateFails
  \/ Finish
  \/ WriteDone
  \/ WriteFails

Spec == Init /\ [][Next]_vars

-----------------------------------------------------------------------------
(* One key-block record read back by the normative format: the ordinal        *)
(* indexes the vector codes and the row-id map.                               *)
ReadRecord(e, image) ==
  LET plain == e.vec_ordinal = NO_VECTOR
  IN  [key |-> e.key, value |-> e.value, tombstone |-> e.tombstone,
       doc_id |-> IF plain THEN NoDocId  ELSE image.row_ids[e.vec_ordinal + 1],
       vector |-> IF plain THEN NoVector ELSE image.codes[e.vec_ordinal + 1]]

(* finish answers Ok exactly when the file is whole, so that a torn one is    *)
(* never taken for a table; and a whole file gives back exactly the rows that *)
(* were added, each with its own doc id and vector, tombstones included, and  *)
(* nothing of an add that was refused in between.                             *)
RoundTrip ==
  /\ reply.op = "meta" <=> file.state = "whole"
  /\ file.state = "whole" =>
       /\ file.image.entry_count = Len(accepted)
       /\ \A i \in DOMAIN accepted :
            ReadRecord(file.image.key_block[i], file.image) = accepted[i]

(* Every row of the vector segment belongs to exactly one record: a refused   *)
(* or repeated add leaves no orphan vector for a search to return.            *)
EveryVectorReferenced ==
  file.state = "whole" =>
    /\ file.image.vector_count = Len(file.image.codes)
    /\ \A n \in DOMAIN file.image.row_ids :
         Cardinality({i \in DOMAIN file.image.key_block :
                        file.image.key_block[i].vec_ordinal = n - 1}) = 1

(* Point lookups search the key block by order.                               *)
KeysStrictlyIncreasing ==
  file.state = "whole" =>
    \A i, j \in DOMAIN file.image.key_block :
      i < j => file.image.key_block[i].key < file.image.key_block[j].key

(* What a conforming reader validates before it trusts a section: offsets     *)
(* 64-aligned, in order, before the footer, and no section runs into the next.*)
SectionBytes(keyBytes, n, d, section) ==
  CASE section = 0 -> HEADER_LEN
    [] section = 1 -> keyBytes
    [] section = 2 -> n * (d * F32_BYTES)
    [] section = 4 -> n * DOC_ID_BYTES
    [] section \in {3, 5} -> TWO_COUNTS
WellLaidOut(layout, keyBytes, n, d) ==
  \A section \in 0..5 :
    /\ Start(layout, section) % 64 = 0
    /\ Start(layout, section) < FooterOffset(layout)
    /\ Start(layout, section) + SectionBytes(keyBytes, n, d, section) <= Start(layout, section + 1)
LayoutSound ==
  file.state = "whole" =>
    /\ WellLaidOut(file.image.layout, KeyBlockBytes(file.image.key_block),
                   Len(file.image.codes), file.image.dim)
    /\ FooterOffset(file.image.layout) + FOOTER_LEN = reply.file_bytes

(* The key range finish reports covers every row of the file, and tightly: a  *)
(* merge that skips tables by key range loses nothing.                        *)
MetaCoversKeys ==
  reply.op = "meta" =>
    /\ \A i \in DOMAIN accepted, low \in reply.smallest_key, high \in reply.largest_key :
         low <= accepted[i].key /\ accepted[i].key <= high
    /\ reply.smallest_key \cup reply.largest_key \subseteq {accepted[i].key : i \in DOMAIN accepted}
    /\ accepted # <<>> => reply.smallest_key # {} /\ reply.largest_key # {}

(* Order survives refused adds: buffers are well typed, the keys of a file    *)
(* rise strictly and the range reported for them is tight.                    *)
KeysInOrder == TypeOK /\ KeysStrictlyIncreasing /\ MetaCoversKeys
=============================================================================
