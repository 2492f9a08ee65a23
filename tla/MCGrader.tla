------------------------------ MODULE MCGrader ------------------------------
(* Tables of one column.  For two questions: of one row, of a row and its     *)
(* duplicate, of two rows in both orders, with 2.0 and with 2.0000004, which  *)
(* rounds to it.  For one of two: also empty, zeros of every type (-0.0000003 *)
(* rounds to -0.0), a tenth, which no double holds, and nan.                  *)
EXTENDS Grader

Null     == [kind |-> "null", n |-> 0, form |-> 0]
Float(n) == [kind |-> "float", n |-> n, form |-> IF n < 0 THEN 1 ELSE 0]

Column(cells) == [cols |-> 1, rows |-> [i \in DOMAIN cells |-> <<cells[i]>>]]

Rest(kind, n, form) == [kind |-> kind, n |-> n, form |-> form]

MCTables == {Column(<<Null>>), Column(<<Null, Null>>),
             Column(<<Float(20000000), Null>>), Column(<<Null, Float(20000004)>>)}
MCZeros  == {Column(<<c>>) : c \in {Float(0), Rest("float", 0, 1), Float(-3)}}
MCCells  == MCTables \union MCZeros \union {Column(<< >>)} \union
            {Column(<<c>>) : c \in {Float(1000000), Float(1000005), Rest("int", 0, 0),
                                     Rest("bool", 0, 0), Rest("decimal", 0, 1),
                                     Rest("decimal", 1000000, 1), Rest("nan", 0, 0),
                                     Rest("text", 0, 0)}}
MCFloats == {Column(<<Float(20000000)>>), Column(<<Float(20000010)>>)}

(* Strings in some order: by kind, number and form of their only cell.        *)
MCRepr ==
  LET rows == {NormRow(r) : r \in UNION {Range(table.rows) : table \in MCCells \union MCFloats}}
      kind == [null |-> 0, int |-> 1, bool |-> 2, float |-> 3, decimal |-> 4, nan |-> 5, text |-> 6]
  IN  [r \in rows |-> kind[r[1].kind] * 100000000 + 2 * r[1].n + r[1].form]

(* The double nearest to 0.1000005 is above it.                              *)
MCAbove == {1000005}

(* Two questions about the tables, or only the first one, about cells of      *)
(* every kind.                                                                *)
Empty  == Column(<< >>)
Tables == \A q \in 1 .. Questions : gold[q].result \in MCTables
Cells  == gold[2] = [shape |-> [scalar |-> TRUE, ordered |-> FALSE], result |-> Empty]
MCInit == Init /\ (Tables \/ Cells)
Tried  == IF Cells THEN Results ELSE MCTables

MCNext ==
  \E q \in IF Cells THEN {1} ELSE 1 .. Questions :
    /\ Grading(q)
    /\ \/ Missing(q) \/ Stale(q) \/ NoStatement(q)
       \/ \E stmt \in [refs : Refs, effect : Effects, result : Tried] :
            Fails(q, stmt) \/ Answered(q, stmt) \/ GoldFails(q, stmt)
    /\ measured'[q] \in Tried \union {NoResult}

MCSpec == MCInit /\ [][MCNext]_vars

OrderedOrNot == [scalar : {FALSE}, ordered : BOOLEAN]
MCShapes     == OrderedOrNot \union [scalar : {TRUE}, ordered : {FALSE}]
=============================================================================
