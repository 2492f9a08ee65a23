---------------------------- MODULE MCSstWriter ----------------------------
(* Four keys and a width of U32 = 4, tables of up to three rows: the largest  *)
(* one uses every ordinal short of NO_VECTOR.  Key and value lengths put the   *)
(* end of the key block before, on and after a 64-byte boundary.              *)
EXTENDS SstWriter

CONSTANTS short, long, east, bad

MCKeys     == 1..4
MCValues   == {short, long}
MCVectors  == {east, bad}
MCKeyLen   == [k \in MCKeys |-> 2 * k]
MCValueLen == [v \in MCValues |-> IF v = short THEN 1 ELSE 46]
MCDim      == 6
MCVecDim   == [v \in MCVectors |-> IF v = bad THEN 3 ELSE MCDim]
MCDistance == [q \in MCVectors |-> [v \in MCVectors |-> 0]]
MCFlushedIds == {4, 7, 9}
=============================================================================
