------------------------------- MODULE MCBench -------------------------------
(* Two slots, one warm-up upsert and three mixed operations: an upsert may    *)
(* displace a version between two queries, and scans end at the last key.     *)
EXTENDS Bench

CONSTANTS val, east, north

MCKeys      == {0, 1}
MCValues    == {val}
MCVectors   == {east, north}
MCKeyLen    == [k \in MCKeys |-> 12]
MCValueLen  == [v \in MCValues |-> 64]
MCDim       == 2
MCVecDim    == [v \in MCVectors |-> MCDim]
MCDistance  == [q \in MCVectors |-> [v \in MCVectors |-> IF q = v THEN 0 ELSE 1]]
=============================================================================
