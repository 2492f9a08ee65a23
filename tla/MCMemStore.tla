----------------------------- MODULE MCMemStore -----------------------------
(* Two goroutines over two keys; ranges inside an object, at its end, past    *)
(* it, with a negative length and with an end that overflows.                 *)
EXTENDS MemStore

CONSTANTS p1, p2, k1, k2

MCProcs    == {p1, p2}
MCObjKeys  == {k1, k2}
MCByte     == {1, 2, 9}
MCGarbage  == <<9, 9>>
MCBufs     == 1..7

PutReqs == {[op |-> "put", key |-> k1, data |-> <<1, 2>>], [op |-> "put", key |-> k1, data |-> <<2>>],
            [op |-> "put", key |-> k2, data |-> <<2>>]}
ReadReqs == {[op |-> "get", key |-> k1], [op |-> "list", prefix |-> MCObjKeys],
             [op |-> "range", key |-> k1, off |-> 0, length |-> 1]}
EdgeReqs == {[op |-> "range", key |-> k1, off |-> 1, length |-> 2],
             [op |-> "range", key |-> k1, off |-> 3, length |-> 1],
             [op |-> "range", key |-> k1, off |-> 1, length |-> -1],
             [op |-> "range", key |-> k1, off |-> 1, length |-> 7]}
MCRequests == PutReqs \cup ReadReqs \cup EdgeReqs \cup {[op |-> "delete", key |-> k1]}
=============================================================================
