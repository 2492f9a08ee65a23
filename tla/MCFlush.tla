------------------------------ MODULE MCFlush ------------------------------
(* Two keys, one value, one vector; a memtable is full after two calls, and   *)
(* up to two tables are flushed, so that the second shadows the first.        *)
EXTENDS Flush

CONSTANTS val, east

MCKeys     == {1, 2}
MCValues   == {val}
MCVectors  == {east}
MCKeyLen   == [k \in MCKeys |-> 2]
MCValueLen == [v \in MCValues |-> 2]
MCDim      == 8
MCVecDim   == [v \in MCVectors |-> MCDim]
MCDistance == [q \in MCVectors |-> [v \in MCVectors |-> 0]]
=============================================================================
