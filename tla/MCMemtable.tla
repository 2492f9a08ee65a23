----------------------------- MODULE MCMemtable -----------------------------
(* Two keys, two values of different length, two vectors of the right         *)
(* dimension, one with a NaN and one of the wrong dimension: enough for an    *)
(* upsert to displace a version with or without a vector, and for knn to meet *)
(* a tie, or a NaN in a row that is overwritten later.                        *)
EXTENDS Memtable

CONSTANTS short, long, east, north, odd, bad

MCKeys     == {1, 2}
MCValues   == {short, long}
MCVectors  == {east, north, odd, bad}
MCKeyLen   == [k \in MCKeys |-> k]
MCValueLen == [v \in MCValues |-> IF v = short THEN 1 ELSE 9]
MCDim      == 2
MCVecDim   == [v \in MCVectors |-> IF v = bad THEN 3 ELSE MCDim]
MCDistance == [q \in MCVectors |-> [v \in MCVectors |->
                IF odd \in {q, v} THEN NaN ELSE IF q = v THEN 0 ELSE 1]]
MCKs       == {1, 3}

(* Every range clients may scan, ends past the last key included.             *)
OrderedRanges == {r \in (1..3) \X (1..3) : r[1] <= r[2]}
=============================================================================
