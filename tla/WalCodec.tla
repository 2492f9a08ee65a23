------------------------------ MODULE WalCodec ------------------------------
(* The WAL wire format of lab 2 (types.go): records encoded into a stream,    *)
(* the stream torn or corrupted where it is stored, and decoded again.  A     *)
(* field is one cell; a cell is a tuple of numbers, <<n>> for the number n.   *)
(* The checksum of some cells is a cell that no other cells have: collisions  *)
(* of crc32c are left out.                                                    *)
EXTENDS Integers, FiniteSets, SequencesExt

CONSTANTS PageSize,     \* bytes of a page
          MaxU16,       \* largest uint16
          Pages,        \* page numbers
          Images,       \* payloads of FULL_PAGE records
          SpanLists,    \* span lists DELTA records are packed from: [off, data]
          MaxRecords,   \* records of the stream, at most
          MaxFaults     \* cells corrupted in storage, at most

VARIABLES
  phase,    \* "writing", "stored", or "stopped" with the first decode error
  written,  \* records encoded
  packed,   \* history: the span list each of them was made from, if a delta
  file,     \* cells in storage
  faults,   \* tears and corruptions so far
  pos,      \* cells consumed by the reader
  decoded   \* records the reader got

vars == <<phase, written, packed, file, faults, pos, decoded>>

KindFullPage == 1
KindDelta    == 2
Err          == [ok |-> FALSE]

U16(n) == n % (MaxU16 + 1)
----------------------------------------------------------------------------
(* DELTA payloads: off, len and the bytes of each span.                       *)

EncodeDelta(spans) ==
  FlattenSeq([i \in DOMAIN spans |->
                <<spans[i].off, U16(Len(spans[i].data))>> \o spans[i].data])

(* Bug: the sum of offset and length is taken in uint16.                      *)
InPageWrapped(off, n) == U16(off + n) <= PageSize

InPage(off, n) == off + n <= PageSize

(* The spans from cell i + 1 on, or Err.                                      *)
DecodeDelta(payload) ==
  LET n == Len(payload)
      from[i \in 0 .. n] ==
        IF i = n THEN [ok |-> TRUE, spans |-> << >>]
        ELSE IF n - i < 2 THEN Err
        ELSE LET off == payload[i + 1]
                 len == payload[i + 2]
             IN  IF n - (i + 2) < len \/ ~InPage(off, len) THEN Err
                 ELSE LET rest == from[i + 2 + len]
                          span == [off |-> off, data |-> SubSeq(payload, i + 3, i + 2 + len)]
                      IN  IF rest.ok THEN [ok |-> TRUE, spans |-> <<span>> \o rest.spans]
                          ELSE Err
  IN  from[0]
----------------------------------------------------------------------------
(* Records.                                                                   *)

HeaderCells == 4   \* lsn, page_no, kind, plen

Cells(numbers) == [i \in DOMAIN numbers |-> <<numbers[i]>>]

Checksum(cells) == FlattenSeq([i \in DOMAIN cells |-> <<Len(cells[i])>> \o cells[i]])

Fits(payload) == Len(payload) <= MaxU16

Encode(rec) ==
  LET body == Cells(<<rec.lsn, rec.page, rec.kind, U16(Len(rec.payload))>> \o rec.payload)
  IN  Append(body, Checksum(body))

(* Bug: the checksum is read and not compared.                                *)
ChecksumIgnored(cell, body) == TRUE

ChecksumMatches(cell, body) == cell = Checksum(body)

(* Bug: the checksum is not counted as consumed.                              *)
ConsumedNoChecksum(plen) == HeaderCells + plen

Consumed(plen) == HeaderCells + plen + 1

Number(cell) == cell[1]

(* The record at the front of the cells, with the number of cells consumed.   *)
Decode(cells) ==
  IF Len(cells) < HeaderCells THEN Err
  ELSE LET plen == Number(cells[4])
           body == SubSeq(cells, 1, HeaderCells + plen)
       IN  IF Len(cells) < HeaderCells + plen + 1 THEN Err
           ELSE IF Number(cells[3]) \notin {KindFullPage, KindDelta} THEN Err
           ELSE IF ~ChecksumMatches(cells[HeaderCells + plen + 1], body) THEN Err
           ELSE [ok |-> TRUE, consumed |-> Consumed(plen),
                 rec |-> [lsn |-> Number(cells[1]), page |-> Number(cells[2]),
                          kind |-> Number(cells[3]),
                          payload |-> [i \in 1 .. plen |-> Number(body[HeaderCells + i])]]]
----------------------------------------------------------------------------
Init ==
  /\ phase = "writing"
  /\ written = << >> /\ packed = << >> /\ file = << >> /\ decoded = << >>
  /\ faults = 0 /\ pos = 0

(* A record too large for its length field panics: nothing is written.        *)
Emit(page, kind, payload, spans) ==
  LET rec == [lsn |-> Len(written) + 1, page |-> page, kind |-> kind, payload |-> payload]
  IN  /\ phase = "writing" /\ Len(written) < MaxRecords
      /\ IF Fits(payload)
         THEN /\ written' = Append(written, rec)
              /\ packed' = Append(packed, spans)
              /\ file' = file \o Encode(rec)
              /\ UNCHANGED phase
         ELSE /\ phase' = "stored"
              /\ UNCHANGED <<written, packed, file>>
      /\ UNCHANGED <<faults, pos, decoded>>

EmitFullPage(page, image) == Emit(page, KindFullPage, image, << >>)
EmitDelta(page, spans)    == Emit(page, KindDelta, EncodeDelta(spans), spans)

Close ==
  /\ phase = "writing"
  /\ phase' = "stored"
  /\ UNCHANGED <<written, packed, file, faults, pos, decoded>>

InStorage == phase = "stored" /\ pos = 0 /\ faults < MaxFaults

(* The end of the stream never reached the disk.                              *)
Tear(length) ==
  /\ InStorage
  /\ file' = SubSeq(file, 1, length)
  /\ faults' = faults + 1
  /\ UNCHANGED <<phase, written, packed, pos, decoded>>

(* One field reads back as another number.                                    *)
Corrupt(i, n) ==
  /\ InStorage
  /\ file[i] # <<n>>
  /\ file' = [file EXCEPT ![i] = <<n>>]
  /\ faults' = faults + 1
  /\ UNCHANGED <<phase, written, packed, pos, decoded>>

(* The reader decodes from the front and stops at the first error, the end    *)
(* of the stream included.                                                    *)
ReadNext ==
  /\ phase = "stored"
  /\ LET result == Decode(SubSeq(file, pos + 1, Len(file)))
     IN  IF result.ok
         THEN /\ decoded' = Append(decoded, result.rec)
              /\ pos' = pos + result.consumed
              /\ UNCHANGED phase
         ELSE phase' = "stopped" /\ UNCHANGED <<decoded, pos>>
  /\ UNCHANGED <<written, packed, file, faults>>

Next ==
  \/ \E page \in Pages :
       \/ \E image \in Images : EmitFullPage(page, image)
       \/ \E spans \in SpanLists : EmitDelta(page, spans)
  \/ Close
  \/ \E length \in 0 .. Len(file) - 1 : Tear(length)
  \/ \E i \in DOMAIN file, n \in 0 .. MaxU16 : Corrupt(i, n)
  \/ ReadNext

Spec == Init /\ [][Next]_vars
----------------------------------------------------------------------------
TypeOK ==
  /\ phase \in {"writing", "stored", "stopped"}
  /\ \A i \in DOMAIN written : Len(written[i].payload) <= MaxU16
  /\ faults \in 0 .. MaxFaults
  /\ pos \in 0 .. Len(file)

(* Whatever was torn off or corrupted in storage, the records a reader gets   *)
(* are the first ones that were written, unchanged: a damaged length field    *)
(* does not make it read a record out of the bytes of another.                *)
DecodedIsPrefix == IsPrefix(decoded, written)

(* An undamaged stream is read to its last cell, and every record comes back. *)
CleanStreamReadsWhole ==
  phase = "stopped" /\ faults = 0 => decoded = written /\ pos = Len(file)

(* No span of a delta that decodes reaches past the end of its page.          *)
SpansInPage ==
  \A i \in DOMAIN decoded :
    LET delta == DecodeDelta(decoded[i].payload)
    IN  decoded[i].kind = KindDelta /\ delta.ok =>
          \A j \in DOMAIN delta.spans : delta.spans[j].off + Len(delta.spans[j].data) <= PageSize

(* Whatever happened to the stream, reader and writer are well typed, what is *)
(* read is a prefix of what was written, and no delta reaches past its page.  *)
ReaderSafe == TypeOK /\ DecodedIsPrefix /\ SpansInPage

(* A delta that a reader gets out of a stream unpacks to the spans it was     *)
(* packed from when each of them lies in the page, and is refused otherwise:  *)
(* a length that was cut to 16 bits never gets past the record's own limit.   *)
DeltaRoundTrip ==
  \A i \in DOMAIN decoded : decoded[i].kind = KindDelta =>
    LET spans  == packed[i]
        inPage == \A j \in DOMAIN spans : spans[j].off + Len(spans[j].data) <= PageSize
    IN  DecodeDelta(decoded[i].payload) = IF inPage THEN [ok |-> TRUE, spans |-> spans] ELSE Err
=============================================================================
