-------------------------- MODULE SstWriterProofs --------------------------
(* Theorems about the writer: the layout for every table size and dimension,  *)
(* and what a whole file gives back for every sequence of calls.              *)
EXTENDS SstWriter, FiniteSetTheorems, TLAPS

(* pad64 returns the first 64-byte boundary at or after the buffer's length.  *)
LEMMA Pad64Correct ==
  ASSUME NEW n \in Nat
  PROVE  /\ Pad64(n) \in Nat
         /\ Pad64(n) % 64 = 0
         /\ n <= Pad64(n)
         /\ Pad64(n) < n + 64
BY SMT DEF Pad64

(* Whatever the size of the key block, the number of vectors and their        *)
(* dimension: every section starts 64-aligned and before the footer, and ends *)
(* before the next one starts.                                                *)
THEOREM LayoutWellLaidOut ==
  ASSUME NEW keyBytes \in Nat, NEW n \in Nat, NEW d \in Nat
  PROVE  WellLaidOut(Layout(keyBytes, n, d), keyBytes, n, d)
<1> DEFINE codeBytes == n * (d * F32_BYTES)
           o1 == Pad64(HEADER_LEN)
           o2 == Pad64(o1 + keyBytes)
           o3 == Pad64(o2 + codeBytes)
           o4 == Pad64(o3 + TWO_COUNTS)
           o5 == Pad64(o4 + n * DOC_ID_BYTES)
           o6 == Pad64(o5 + TWO_COUNTS)
<1>1. Layout(keyBytes, n, d) = <<0, o1, o2, o3, o4, o5, o6>>
  BY DEF Layout
<1>2. codeBytes \in Nat /\ n * DOC_ID_BYTES \in Nat
  BY DEF F32_BYTES, DOC_ID_BYTES
<1> HIDE DEF codeBytes
<1>3. o1 \in Nat /\ o1 % 64 = 0 /\ HEADER_LEN <= o1
  BY Pad64Correct DEF HEADER_LEN
<1>4. o2 \in Nat /\ o2 % 64 = 0 /\ o1 + keyBytes <= o2
  <2>1. o1 + keyBytes \in Nat
    BY <1>3
  <2> QED
    BY <2>1, Pad64Correct
<1>5. o3 \in Nat /\ o3 % 64 = 0 /\ o2 + codeBytes <= o3
  <2>1. o2 + codeBytes \in Nat
    BY <1>2, <1>4
  <2> QED
    BY <2>1, Pad64Correct
<1>6. o4 \in Nat /\ o4 % 64 = 0 /\ o3 + TWO_COUNTS <= o4
  <2>1. o3 + TWO_COUNTS \in Nat
    BY <1>5 DEF TWO_COUNTS
  <2> QED
    BY <2>1, Pad64Correct
<1>7. o5 \in Nat /\ o5 % 64 = 0 /\ o4 + n * DOC_ID_BYTES <= o5
  <2>1. o4 + n * DOC_ID_BYTES \in Nat
    BY <1>2, <1>6
  <2> QED
    BY <2>1, Pad64Correct
<1>8. o6 \in Nat /\ o6 % 64 = 0 /\ o5 + TWO_COUNTS <= o6
  <2>1. o5 + TWO_COUNTS \in Nat
    BY <1>7 DEF TWO_COUNTS
  <2> QED
    BY <2>1, Pad64Correct
<1> HIDE DEF o1, o2, o3, o4, o5, o6
<1>9. o1 <= o2 /\ o2 <= o3 /\ o3 <= o4 /\ o4 <= o5 /\ o5 < o6
  BY <1>2, <1>3, <1>4, <1>5, <1>6, <1>7, <1>8 DEF TWO_COUNTS
<1> SUFFICES ASSUME NEW s \in 0..5
             PROVE  LET layout == <<0, o1, o2, o3, o4, o5, o6>> IN
                    /\ Start(layout, s) % 64 = 0
                    /\ Start(layout, s) < FooterOffset(layout)
                    /\ Start(layout, s) + SectionBytes(keyBytes, n, d, s) <= Start(layout, s + 1)
  BY <1>1 DEF WellLaidOut
<1>10. CASE s = 0
  BY <1>10, <1>3, <1>4, <1>5, <1>6, <1>7, <1>8, <1>9 DEF Start, FooterOffset, SectionBytes, HEADER_LEN
<1>11. CASE s = 1
  BY <1>11, <1>3, <1>4, <1>5, <1>6, <1>7, <1>8, <1>9 DEF Start, FooterOffset, SectionBytes
<1>12. CASE s = 2
  BY <1>12, <1>3, <1>4, <1>5, <1>6, <1>7, <1>8, <1>9 DEF Start, FooterOffset, SectionBytes, codeBytes
<1>13. CASE s = 3
  BY <1>13, <1>3, <1>4, <1>5, <1>6, <1>7, <1>8, <1>9 DEF Start, FooterOffset, SectionBytes
<1>14. CASE s = 4
  BY <1>14, <1>3, <1>4, <1>5, <1>6, <1>7, <1>8, <1>9 DEF Start, FooterOffset, SectionBytes
<1>15. CASE s = 5
  BY <1>15, <1>3, <1>4, <1>5, <1>6, <1>7, <1>8, <1>9 DEF Start, FooterOffset, SectionBytes
<1> QED
  BY <1>10, <1>11, <1>12, <1>13, <1>14, <1>15

-----------------------------------------------------------------------------
(* The bound of the model on rows keeps ordinals below NO_VECTOR.             *)
RowsFit == MaxRows < U32

(* The vector segment and the key block describe the same rows: each entry is *)
(* an accepted row, and ordinals number the vectored ones.                    *)
Describes(e, row) ==
  /\ e.key = row.key /\ e.value = row.value /\ e.tombstone = row.tombstone
  /\ IF e.vec_ordinal = NO_VECTOR
     THEN row.doc_id = NoDocId /\ row.vector = NoVector
     ELSE /\ e.vec_ordinal + 1 \in DOMAIN row_ids
          /\ row.doc_id = row_ids[e.vec_ordinal + 1]
          /\ row.vector = codes[e.vec_ordinal + 1]

BufInv ==
  /\ Len(accepted) = Len(entries) /\ Len(entries) <= MaxRows
  /\ Len(codes) = Len(row_ids) /\ Len(row_ids) <= Len(entries)
  /\ \A i \in DOMAIN entries : Describes(entries[i], accepted[i])
  /\ \A i, j \in DOMAIN entries : i < j => entries[i].key < entries[j].key
  /\ \A n \in DOMAIN row_ids : \E i \in DOMAIN entries : entries[i].vec_ordinal = n - 1
  /\ \A i, j \in DOMAIN entries :
       entries[i].vec_ordinal = entries[j].vec_ordinal /\ entries[i].vec_ordinal # NO_VECTOR => i = j
  /\ IsFiniteSet(Bytes(RecordSizes(entries)))

(* finish consumes the writer: what is on disk is what the buffers still hold.*)
FileInv ==
  /\ file.state = "whole" => stage = "closed" /\ file.image = Image /\ reply = Meta
  /\ reply.op = "meta" => stage = "closed" /\ reply = Meta /\ file.state = "whole"

IInv == TypeOK /\ BufInv /\ FileInv

(* The reserved ordinal is above every row of a table.                        *)
LEMMA ConstFacts ==
  ASSUME RowsFit
  PROVE  NO_VECTOR \in Nat /\ MaxRows <= NO_VECTOR
BY WidthAssumption DEF RowsFit, NO_VECTOR

(* What the type invariant says of the buffers, index by index.               *)
LEMMA BufferTypes ==
  ASSUME TypeOK
  PROVE  /\ Len(entries) \in Nat /\ DOMAIN entries = 1 .. Len(entries)
         /\ Len(row_ids) \in Nat /\ DOMAIN row_ids = 1 .. Len(row_ids)
         /\ Len(codes) \in Nat /\ DOMAIN codes = 1 .. Len(codes)
         /\ Len(accepted) \in Nat /\ DOMAIN accepted = 1 .. Len(accepted)
         /\ \A i \in 1 .. Len(entries) : entries[i] \in Entry
         /\ \A i \in 1 .. Len(accepted) : accepted[i] \in Row
BY DEF TypeOK

(* What a record of the key block holds.                                      *)
LEMMA EntryTypes ==
  ASSUME NEW e \in Entry
  PROVE  e.key \in Nat /\ e.vec_ordinal \in 0 .. NO_VECTOR
BY KeysAssumption DEF Entry

(* A count below 2^32 is unchanged by the cast to u32.                        *)
LEMMA SmallMod ==
  ASSUME NEW n \in Nat, NEW m \in Nat, n < m
  PROVE  n % m = n
OBVIOUS

(* One more record adds finitely many bytes to the key block.                 *)
LEMMA RecordsGrow ==
  ASSUME NEW es \in Seq(Entry), NEW e \in Entry, e.tombstone \/ e.value \in Values,
         IsFiniteSet(Bytes(RecordSizes(es)))
  PROVE  IsFiniteSet(Bytes(RecordSizes(Append(es, e))))
<1> DEFINE more == Append(es, e)
           len  == Len(es)
<1>1. RecordBytes(e) \in Nat
  BY LengthsAssumption DEF RecordBytes, RECORD_PREFIX, Entry
<1>2. /\ len \in Nat /\ DOMAIN es = 1 .. len /\ DOMAIN more = 1 .. len + 1
      /\ more[len + 1] = e /\ \A i \in 1 .. len : more[i] = es[i]
  OBVIOUS
<1> HIDE DEF more, len
<1>3. \A i \in 1 .. len + 1 : i \in 1 .. len \/ i = len + 1
  BY <1>2
<1>4. /\ DOMAIN RecordSizes(more) \subseteq DOMAIN RecordSizes(es) \cup {len + 1}
      /\ \A i \in DOMAIN RecordSizes(more) :
           RecordSizes(more)[i] = IF i = len + 1 THEN RecordBytes(e) ELSE RecordSizes(es)[i]
  <2>1. \A i \in 1 .. len : i # len + 1
    BY <1>2
  <2> QED
    BY <1>2, <1>3, <2>1 DEF RecordSizes
<1> DEFINE added == {len + 1} \X (1 .. RecordBytes(e))
<1>5. IsFiniteSet(added)
  <2>1. IsFiniteSet({len + 1})
    BY FS_Singleton
  <2>2. IsFiniteSet(1 .. RecordBytes(e))
    BY <1>1, FS_Interval
  <2> QED
    BY <2>1, <2>2, FS_Product
<1>6. Bytes(RecordSizes(more)) \in SUBSET (Bytes(RecordSizes(es)) \cup added)
  BY <1>4 DEF Bytes
<1> HIDE DEF added
<1>7. IsFiniteSet(Bytes(RecordSizes(es)) \cup added)
  BY <1>5, FS_Union
<1>8. IsFiniteSet(Bytes(RecordSizes(more)))
  BY <1>6, <1>7, FS_Subset
<1> QED
  BY <1>8 DEF more

(* A new writer has empty buffers, whatever its path holds but a whole table. *)
LEMMA OpenIInv ==
  ASSUME Open, file.state \in {"absent", "torn"}
  PROVE  IInv
<1>1. /\ entries = <<>> /\ codes = <<>> /\ row_ids = <<>> /\ accepted = <<>>
      /\ stage = "open" /\ reply = [op |-> "none"] /\ file.state \in {"absent", "torn"}
  BY DEF Open
<1>2. Bytes(RecordSizes(entries)) = {}
  BY <1>1 DEF Bytes, RecordSizes
<1>3. BufInv
  <2>1. /\ Len(entries) = 0 /\ Len(accepted) = 0 /\ Len(row_ids) = 0 /\ Len(codes) = 0
        /\ DOMAIN entries = {} /\ DOMAIN row_ids = {}
    BY <1>1
  <2>2. IsFiniteSet(Bytes(RecordSizes(entries)))
    BY <1>2, FS_EmptySet
  <2>3. 0 <= MaxRows
    BY WidthAssumption
  <2> QED
    BY <2>1, <2>2, <2>3 DEF BufInv
<1> QED
  BY <1>1, <1>3 DEF IInv, TypeOK, FileInv

(* The first writer has no file.                                              *)
LEMMA InitIInv == Init => IInv
BY OpenIInv DEF Init

(* An add that appends one entry, and one vector at the next ordinal when the *)
(* row has one.                                                               *)
LEMMA PushIInv ==
  ASSUME IInv, RowsFit, stage = "open",
         NEW key \in Keys, NEW value \in Values \cup {NoBytes}, NEW tombstone \in BOOLEAN,
         tombstone \/ value \in Values,
         NEW ordinal, NEW id, NEW vector,
         InOrder(key), Push(key, value, tombstone, ordinal, id, vector),
         \/ /\ ordinal = NO_VECTOR /\ id = NoDocId /\ vector = NoVector
            /\ UNCHANGED <<codes, row_ids>>
         \/ /\ ordinal = Ordinal /\ id \in Nat /\ vector \in Vectors /\ DimOK(vector)
            /\ row_ids' = Append(row_ids, id) /\ codes' = Append(codes, vector)
  PROVE  IInv'
<1> USE DEF IInv
<1> DEFINE e   == [key |-> key, value |-> value, tombstone |-> tombstone, vec_ordinal |-> ordinal]
           row == [key |-> key, value |-> value, tombstone |-> tombstone,
                   doc_id |-> id, vector |-> vector]
           len == Len(entries)
           n   == Len(row_ids)
<1>1. /\ entries' = Append(entries, e) /\ accepted' = Append(accepted, row)
      /\ reply' = [op |-> "ok"] /\ UNCHANGED <<stage, file>> /\ len < MaxRows
  BY DEF Push
<1>2. NO_VECTOR \in Nat /\ len < NO_VECTOR /\ n \in Nat /\ len \in Nat /\ n <= len
  BY <1>1, ConstFacts, WidthAssumption DEF TypeOK, BufInv
<1>3. Ordinal = n
  <2>1. n < U32 /\ U32 \in Nat
    BY <1>2, WidthAssumption DEF NO_VECTOR
  <2> QED
    BY <1>2, <2>1 DEF Ordinal
<1>4. e \in Entry /\ row \in Row
  BY <1>2, <1>3 DEF Entry, Row, DocIds
<1> HIDE DEF e, row
<1>5. TypeOK'
  <2>1. entries' \in Seq(Entry) /\ accepted' \in Seq(Row)
    BY <1>1, <1>4 DEF TypeOK
  <2>2. row_ids' \in Seq(Nat) /\ codes' \in Seq({v \in Vectors : DimOK(v)})
    <3>1. row_ids \in Seq(Nat) /\ codes \in Seq({v \in Vectors : DimOK(v)})
      BY DEF TypeOK
    <3>2. CASE UNCHANGED <<codes, row_ids>>
      BY <3>1, <3>2
    <3>3. CASE /\ id \in Nat /\ vector \in {v \in Vectors : DimOK(v)}
               /\ row_ids' = Append(row_ids, id) /\ codes' = Append(codes, vector)
      BY <3>1, <3>3
    <3> QED
      BY <3>2, <3>3
  <2> QED
    BY <1>1, <2>1, <2>2 DEF TypeOK, DimOK
<1>6. /\ Len(entries') = len + 1 /\ Len(accepted') = len + 1
      /\ \A i \in 1 .. len : entries'[i] = entries[i] /\ accepted'[i] = accepted[i]
      /\ entries'[len + 1] = e /\ accepted'[len + 1] = row
      /\ \A i \in DOMAIN row_ids : i \in DOMAIN row_ids' /\ row_ids'[i] = row_ids[i]
                                   /\ codes'[i] = codes[i]
      /\ \A i \in DOMAIN row_ids' : i \in DOMAIN row_ids \/ (i = n + 1 /\ ordinal = n)
  BY <1>1, <1>3 DEF TypeOK, BufInv
<1>7. DOMAIN entries = 1 .. len /\ DOMAIN entries' = 1 .. len + 1
  BY <1>5, <1>6 DEF TypeOK
<1>8. Describes(e, row)'
  BY <1>2, <1>3 DEF Describes, e, row, TypeOK, BufInv
<1>9. \A i \in DOMAIN entries' : Describes(entries[i], accepted[i])'
  <2> SUFFICES ASSUME NEW i \in 1 .. len + 1 PROVE Describes(entries[i], accepted[i])'
    BY <1>7
  <2>1. CASE i = len + 1
    BY <1>6, <1>8, <2>1 DEF Describes
  <2>2. CASE i \in 1 .. len
    <3>1. Describes(entries[i], accepted[i])
      BY <1>7, <2>2 DEF BufInv
    <3>2. Describes(entries[i], accepted[i])'
            <=> /\ entries[i].key = accepted[i].key /\ entries[i].value = accepted[i].value
                /\ entries[i].tombstone = accepted[i].tombstone
                /\ IF entries[i].vec_ordinal = NO_VECTOR
                   THEN accepted[i].doc_id = NoDocId /\ accepted[i].vector = NoVector
                   ELSE /\ entries[i].vec_ordinal + 1 \in DOMAIN row_ids'
                        /\ accepted[i].doc_id = row_ids'[entries[i].vec_ordinal + 1]
                        /\ accepted[i].vector = codes'[entries[i].vec_ordinal + 1]
      BY <1>6, <2>2 DEF Describes
    <3> QED
      BY <1>6, <3>1, <3>2 DEF Describes
  <2> QED
    BY <1>2, <2>1, <2>2
<1>10. \A i \in 1 .. len : entries[i].key < key
  <2>1. ASSUME NEW i \in 1 .. len PROVE entries[i].key < key
    <3>1. len \in 1 .. len /\ entries # <<>>
      BY <1>2, <2>1
    <3>2. entries[len].key < key
      BY <3>1 DEF InOrder, Last
    <3>3. i = len \/ entries[i].key < entries[len].key
      <4>1. i = len \/ i < len
        BY <1>2, <2>1
      <4> QED
        BY <1>7, <2>1, <3>1, <4>1 DEF BufInv
    <3>4. entries[i].key \in Nat /\ entries[len].key \in Nat /\ key \in Nat
      BY <2>1, <3>1, KeysAssumption, BufferTypes, EntryTypes
    <3> QED
      BY <3>2, <3>3, <3>4
  <2> QED
    BY <2>1
<1>11. \A i, j \in DOMAIN entries' : i < j => entries'[i].key < entries'[j].key
  BY <1>2, <1>6, <1>7, <1>10 DEF BufInv, e
<1>12. \A m \in DOMAIN row_ids' : \E i \in DOMAIN entries' : entries'[i].vec_ordinal = m - 1
  <2> SUFFICES ASSUME NEW m \in DOMAIN row_ids'
               PROVE  \E i \in DOMAIN entries' : entries'[i].vec_ordinal = m - 1
    OBVIOUS
  <2>1. CASE m = n + 1 /\ ordinal = n
    BY <1>2, <1>6, <1>7, <2>1 DEF e
  <2>2. CASE m \in DOMAIN row_ids
    BY <1>2, <1>6, <1>7, <2>2 DEF BufInv
  <2> QED
    BY <1>6, <2>1, <2>2
<1>13. \A i \in DOMAIN entries : entries[i].vec_ordinal = NO_VECTOR \/ entries[i].vec_ordinal < n
  <2> SUFFICES ASSUME NEW i \in DOMAIN entries, entries[i].vec_ordinal # NO_VECTOR
               PROVE  entries[i].vec_ordinal < n
    OBVIOUS
  <2>1. entries[i].vec_ordinal + 1 \in 1 .. n
    BY BufferTypes DEF BufInv, Describes
  <2>2. entries[i].vec_ordinal \in Nat
    BY BufferTypes, EntryTypes
  <2> QED
    BY <1>2, <2>1, <2>2
<1>14. \A i, j \in DOMAIN entries' :
         entries'[i].vec_ordinal = entries'[j].vec_ordinal /\ entries'[i].vec_ordinal # NO_VECTOR
           => i = j
  <2>1. e.vec_ordinal = NO_VECTOR \/ e.vec_ordinal = n
    BY <1>3 DEF e
  <2>2. \A i \in 1 .. len : entries[i].vec_ordinal = NO_VECTOR \/ entries[i].vec_ordinal # n
    BY <1>2, <1>7, <1>13
  <2>3. \A i \in 1 .. len + 1 : i \in 1 .. len \/ i = len + 1
    BY <1>2
  <2> QED
    BY <1>6, <1>7, <2>1, <2>2, <2>3 DEF BufInv
<1>15. IsFiniteSet(Bytes(RecordSizes(entries')))
  <2>1. e.tombstone \/ e.value \in Values
    BY DEF e
  <2>2. entries \in Seq(Entry) /\ IsFiniteSet(Bytes(RecordSizes(entries)))
    BY DEF TypeOK, BufInv
  <2>3. IsFiniteSet(Bytes(RecordSizes(Append(entries, e))))
    BY <1>4, <2>1, <2>2, RecordsGrow
  <2> QED
    BY <1>1, <2>3 DEF e
<1>16. Len(codes') = Len(row_ids') /\ Len(row_ids') <= len + 1
  BY <1>2 DEF BufInv, TypeOK
<1>17. BufInv'
  BY <1>1, <1>2, <1>6, <1>9, <1>11, <1>12, <1>14, <1>15, <1>16, WidthAssumption DEF BufInv
<1>18. FileInv'
  BY <1>1 DEF FileInv
<1> QED
  BY <1>5, <1>17, <1>18

(* A call that leaves the buffers alone would write the same image.           *)
LEMMA BuffersKept ==
  ASSUME UNCHANGED buffers
  PROVE  /\ BufInv => BufInv'
         /\ Image' = Image
         /\ Meta' = Meta
BY DEF BufInv, buffers, Describes, Image, Meta, SmallestKey, LargestKey

(* Every call keeps the invariant: an accepted add by PushIInv, a refused     *)
(* one leaves the buffers alone, and finish writes them out.                  *)
LEMMA NextIInv ==
  ASSUME RowsFit, IInv, [Next]_vars
  PROVE  IInv'
<1> USE DEF IInv
<1>1. ASSUME NEW key \in Keys, NEW value \in Values, AddPlain(key, value) PROVE IInv'
  BY <1>1, PushIInv DEF AddPlain
<1>2. ASSUME NEW key \in Keys, NEW value \in Values, NEW vector \in Vectors,
             NEW id \in FlushedIds, AddVectored(key, value, id, vector)
      PROVE  IInv'
  BY <1>2, FlushedIdsAssumption, PushIInv DEF AddVectored
<1>3. ASSUME NEW key \in Keys, AddTombstone(key) PROVE IInv'
  BY <1>3, PushIInv DEF AddTombstone
<1>4. ASSUME UNCHANGED buffers, UNCHANGED <<stage, file>>, stage = "open", reply'.op # "meta"
      PROVE  IInv'
  BY <1>4, BuffersKept DEF TypeOK, FileInv, buffers, DimOK
<1>5. ASSUME CreateFails \/ Finish \/ WriteFails PROVE IInv'
  <2>1. BufInv' /\ UNCHANGED buffers
    BY <1>5, BuffersKept DEF CreateFails, Finish, WriteFails
  <2>2. TypeOK'
    BY <1>5, <2>1 DEF CreateFails, Finish, WriteFails, TypeOK, buffers, DimOK
  <2>3. FileInv'
    BY <1>5 DEF CreateFails, Finish, WriteFails, FileInv
  <2> QED
    BY <2>1, <2>2, <2>3
<1>6. ASSUME WriteDone PROVE IInv'
  <2>1. BufInv' /\ UNCHANGED buffers /\ Image' = Image
    BY <1>6, BuffersKept DEF WriteDone
  <2>2. Meta' = Meta
    BY <2>1 DEF buffers, Image, Meta, SmallestKey, LargestKey
  <2>3. TypeOK'
    BY <1>6, <2>1 DEF WriteDone, TypeOK, buffers, DimOK
  <2>4. FileInv'
    BY <1>6, <2>1, <2>2 DEF WriteDone, FileInv
  <2> QED
    BY <2>1, <2>3, <2>4
<1>7. ASSUME UNCHANGED vars PROVE IInv'
  <2>1. Meta' = Meta
    BY <1>7 DEF vars, buffers, Image, Meta, SmallestKey, LargestKey
  <2> QED
    BY <1>7, <2>1, BuffersKept DEF vars, buffers, TypeOK, FileInv, DimOK
<1> QED
  BY <1>1, <1>2, <1>3, <1>4, <1>5, <1>6, <1>7 DEF Next, UnsortedKey, DimMismatch

(* The inductive invariant holds for every sequence of calls.                 *)
LEMMA WriterInvariant ==
  ASSUME RowsFit
  PROVE  Spec => []IInv
<1>1. Init => IInv
  BY InitIInv
<1>2. IInv /\ [Next]_vars => IInv'
  BY NextIInv
<1> QED
  BY <1>1, <1>2, PTL DEF Spec

(* finish answers Ok for whole files only, and such a file gives back exactly *)
(* the accepted rows, for any keys, values, vectors and number of rows the    *)
(* count field can hold.                                                      *)
THEOREM FileRoundTrips ==
  ASSUME RowsFit
  PROVE  Spec => []RoundTrip
<1>1. ASSUME IInv PROVE RoundTrip
  <2>0. reply.op = "meta" <=> file.state = "whole"
    BY <1>1 DEF IInv, FileInv, Meta
  <2> SUFFICES ASSUME file.state = "whole"
               PROVE  /\ file.image.entry_count = Len(accepted)
                      /\ \A i \in DOMAIN accepted :
                           ReadRecord(file.image.key_block[i], file.image) = accepted[i]
    BY <2>0 DEF RoundTrip
  <2>1. /\ file.image.entry_count = Len(entries) % U32 /\ file.image.key_block = entries
        /\ file.image.row_ids = row_ids /\ file.image.codes = codes
    BY <1>1 DEF IInv, FileInv, Image
  <2>2. Len(entries) % U32 = Len(entries)
    <3>1. Len(entries) \in Nat /\ Len(entries) < U32 /\ U32 \in Nat
      BY <1>1, WidthAssumption DEF IInv, BufInv, TypeOK, RowsFit
    <3> QED
      BY <3>1
  <2>3. ASSUME NEW i \in DOMAIN accepted
        PROVE  ReadRecord(file.image.key_block[i], file.image) = accepted[i]
    <3>1. i \in DOMAIN entries /\ accepted[i] \in Row /\ Describes(entries[i], accepted[i])
      BY <1>1 DEF IInv, BufInv, TypeOK
    <3> QED
      BY <2>1, <3>1 DEF ReadRecord, Describes, Row
  <2> QED
    BY <1>1, <2>1, <2>2, <2>3 DEF IInv, BufInv
<1> QED
  BY <1>1, WriterInvariant, PTL

(* Every row of the vector segment belongs to exactly one record: refused     *)
(* adds leave no orphan, repeated ones no duplicate.                          *)
THEOREM VectorsReferencedOnce ==
  ASSUME RowsFit
  PROVE  Spec => []EveryVectorReferenced
<1>1. ASSUME IInv PROVE EveryVectorReferenced
  <2> SUFFICES ASSUME file.state = "whole"
               PROVE  /\ file.image.vector_count = Len(file.image.codes)
                      /\ \A n \in DOMAIN file.image.row_ids :
                           Cardinality({i \in DOMAIN file.image.key_block :
                                          file.image.key_block[i].vec_ordinal = n - 1}) = 1
    BY DEF EveryVectorReferenced
  <2>1. /\ file.image.vector_count = Len(row_ids) % U32 /\ file.image.key_block = entries
        /\ file.image.row_ids = row_ids /\ file.image.codes = codes
    BY <1>1 DEF IInv, FileInv, Image
  <2>2. Len(row_ids) \in Nat /\ Len(row_ids) <= MaxRows /\ U32 \in Nat /\ MaxRows \in Nat
    BY <1>1, WidthAssumption DEF IInv, BufInv, TypeOK, RowsFit
  <2>3. Len(row_ids) % U32 = Len(codes)
    <3>1. Len(row_ids) < U32 /\ Len(codes) = Len(row_ids)
      BY <1>1, <2>2 DEF RowsFit, IInv, BufInv
    <3>2. Len(row_ids) % U32 = Len(row_ids)
      BY <2>2, <3>1, SmallMod
    <3> QED
      BY <3>1, <3>2
  <2>4. ASSUME NEW n \in DOMAIN row_ids
        PROVE  Cardinality({i \in DOMAIN entries : entries[i].vec_ordinal = n - 1}) = 1
    <3>1. n - 1 # NO_VECTOR
      BY <1>1, <2>2 DEF RowsFit, NO_VECTOR, IInv, TypeOK
    <3>2. PICK i \in DOMAIN entries : entries[i].vec_ordinal = n - 1
      BY <1>1 DEF IInv, BufInv
    <3>3. {j \in DOMAIN entries : entries[j].vec_ordinal = n - 1} = {i}
      BY <1>1, <3>1, <3>2 DEF IInv, BufInv
    <3> QED
      BY <3>3, FS_Singleton
  <2> QED
    BY <2>1, <2>3, <2>4
<1> QED
  BY <1>1, WriterInvariant, PTL

(* The key block is strictly sorted and the reported key range is tight,      *)
(* whatever adds were refused in between.                                     *)
THEOREM KeysAlwaysInOrder ==
  ASSUME RowsFit
  PROVE  Spec => []KeysInOrder
<1>1. ASSUME IInv PROVE KeysInOrder
  <2>1. KeysStrictlyIncreasing
    <3>1. file.state = "whole" => file.image.key_block = entries
      BY <1>1 DEF IInv, FileInv, Image
    <3> QED
      BY <1>1, <3>1 DEF KeysStrictlyIncreasing, IInv, BufInv
  <2>2. MetaCoversKeys
    <3> SUFFICES ASSUME reply.op = "meta"
                 PROVE  /\ \A i \in DOMAIN accepted, low \in reply.smallest_key,
                              high \in reply.largest_key :
                             low <= accepted[i].key /\ accepted[i].key <= high
                        /\ reply.smallest_key \cup reply.largest_key
                             \subseteq {accepted[i].key : i \in DOMAIN accepted}
                        /\ accepted # <<>> => reply.smallest_key # {} /\ reply.largest_key # {}
      BY DEF MetaCoversKeys
    <3> DEFINE len == Len(entries)
    <3>1. reply.smallest_key = SmallestKey /\ reply.largest_key = LargestKey
      BY <1>1 DEF IInv, FileInv, Meta
    <3>2. /\ len \in Nat /\ DOMAIN entries = 1 .. len /\ DOMAIN accepted = 1 .. len
          /\ accepted # <<>> => len # 0
      BY <1>1 DEF IInv, TypeOK, BufInv
    <3>3. \A i \in 1 .. len : entries[i].key = accepted[i].key /\ entries[i].key \in Nat
      BY <1>1, <3>2, BufferTypes, EntryTypes DEF IInv, BufInv, Describes
    <3>4. \A i, j \in 1 .. len : i < j => entries[i].key < entries[j].key
      BY <1>1, <3>2 DEF IInv, BufInv
    <3>5. SmallestKey = {entries[i].key : i \in {1} \cap 1 .. len}
          /\ LargestKey = {entries[i].key : i \in {len} \cap 1 .. len}
      BY <3>2 DEF SmallestKey, LargestKey
    <3> QED
      BY <3>1, <3>2, <3>3, <3>4, <3>5
  <2> QED
    BY <1>1, <2>1, <2>2 DEF KeysInOrder, IInv
<1> QED
  BY <1>1, WriterInvariant, PTL

(* Every file finish writes has its sections aligned, in order and disjoint.  *)
THEOREM FileWellLaidOut ==
  ASSUME RowsFit
  PROVE  Spec => []LayoutSound
<1>1. ASSUME IInv PROVE LayoutSound
  <2> SUFFICES ASSUME file.state = "whole"
               PROVE  /\ WellLaidOut(file.image.layout, KeyBlockBytes(file.image.key_block),
                                     Len(file.image.codes), file.image.dim)
                      /\ FooterOffset(file.image.layout) + FOOTER_LEN = reply.file_bytes
    BY DEF LayoutSound
  <2>1. file.image = Image /\ reply = Meta
    BY <1>1 DEF IInv, FileInv
  <2>2. KeyBlockBytes(entries) \in Nat
    BY <1>1, FS_CardinalityType DEF IInv, BufInv, KeyBlockBytes
  <2>3. Len(row_ids) \in Nat /\ Len(codes) = Len(row_ids) /\ Dim \in Nat
    BY <1>1, DimAssumption DEF IInv, TypeOK, BufInv
  <2>4. WellLaidOut(Layout(KeyBlockBytes(entries), Len(row_ids), Dim),
                    KeyBlockBytes(entries), Len(row_ids), Dim)
    BY <2>2, <2>3, LayoutWellLaidOut
  <2>5. /\ file.image.layout = Layout(KeyBlockBytes(entries), Len(row_ids), Dim)
        /\ file.image.key_block = entries /\ file.image.codes = codes /\ file.image.dim = Dim
        /\ FooterOffset(Image.layout) + FOOTER_LEN = reply.file_bytes
    BY <2>1 DEF Image, Meta
  <2> QED
    BY <2>1, <2>3, <2>4, <2>5
<1> QED
  BY <1>1, WriterInvariant, PTL
=============================================================================
