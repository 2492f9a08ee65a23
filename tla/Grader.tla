------------------------------- MODULE Grader -------------------------------
(* The text-to-SQL grader (lab3/grader/grade.py): every question in order,    *)
(* the student's statement and then the gold query on one shared connection.  *)
(* The connection is either the pinned snapshot, read-only, or the schema in  *)
(* memory.  A statement is what the database does with it.                    *)
EXTENDS Integers, FiniteSets, SequencesExt

CONSTANTS Questions,  \* number of questions
          Results,    \* result sets: [cols, rows], a row a tuple of cells
          Shapes,     \* shapes of gold queries: [scalar, ordered]
          Refs,       \* what a statement refers to
          Effects,    \* what a statement does besides answering
          Above,      \* ten-millionths, half way between two millionths, whose
                      \* nearest double lies above them
          Repr        \* row as it is compared -> place of its repr among strings

(* A cell as the driver returns it: its number in ten-millionths (a float is  *)
(* the double nearest to it, a text any number of its own), and what else its *)
(* repr shows: the sign of a float, the scale of a decimal.                   *)
Cell == [kind : STRING, n : Int, form : Nat]
Numbers == {"int", "bool", "float", "decimal"}

ASSUME QuestionsAssumption == Questions \in Nat
ASSUME ResultsAssumption   == Results \subseteq [cols : Nat, rows : Seq(Seq(Cell))]
ASSUME ShapesAssumption    == Shapes \subseteq [scalar : BOOLEAN, ordered : BOOLEAN]

VARIABLES
  pinned,    \* --data was given
  gold,      \* question -> the gold query's shape and its result on the snapshot
  db,        \* what the connection holds: "snapshot", "changed" or "dropped"
  views,     \* some answer has created a temporary view in the session
  altered,   \* some answer has set an option, created a macro or attached a
             \* database in the session
  txn,       \* the session's explicit transaction: "none", "open" or "aborted"
  before,    \* what its rollback goes back to
  verdict,   \* question -> grade class, or "none" while it is to be graded
  given,     \* history, on the snapshot: question -> the student's result set,
  measured,  \* and question -> the result set of the gold query when it was run
  raised     \* what raised the exception that ended the run: "answer",
             \* "gold", or "none" yet

session == <<db, views, altered, txn, before>>
vars    == <<pinned, gold, session, verdict, given, measured, raised>>

AllRefs    == {"constants", "tables", "view", "unknown"}
AllEffects == {"none", "write", "drop", "view", "settings", "begin", "commit", "rollback"}
Classes    == {"PASS", "WRONG_RESULT", "BINDER_ERROR", "STALE_TABLE",
               "EXEC_ERROR", "MISSING"}
NoResult   == [cols |-> 0, rows |-> <<>>]

Statements == [refs : Refs, effect : Effects, result : Results]

Contents == {"snapshot", "changed", "dropped"}

SessionOK ==
  /\ db \in Contents /\ views \in BOOLEAN /\ altered \in BOOLEAN
  /\ txn \in {"none", "open", "aborted"}
  /\ before \in [db : Contents, views : BOOLEAN]

TypeOK ==
  /\ gold \in [1 .. Questions -> [shape : Shapes, result : Results]]
  /\ SessionOK
  /\ verdict \in [1 .. Questions -> Classes \union {"none"}]
  /\ given \in [1 .. Questions -> Results \union {NoResult}]
  /\ measured \in [1 .. Questions -> Results \union {NoResult}]
  /\ pinned \in BOOLEAN /\ raised \in {"none", "answer", "gold"}
----------------------------------------------------------------------------
(* Comparison of result sets.                                                 *)

Gap(m, n)    == IF m < n THEN n - m ELSE m - n
Magnitude(n) == Gap(n, 0)

(* Ten-millionths that a double holds exactly: multiples of 1/128.            *)
Exact(n) == n % 78125 = 0

(* The nearest millionth, of the double: a half that a double holds exactly   *)
(* goes to the even one, any other half to the side the double is on.         *)
Rounded(n) ==
  LET up == \/ n % 10 > 5
            \/ n % 10 = 5 /\ IF Exact(n) THEN (n \div 10) % 2 = 1 ELSE n \in Above
  IN  10 * (n \div 10 + IF up THEN 1 ELSE 0)

(* round(v, 6) of a float, which keeps the sign also of a zero; other values  *)
(* are left alone.                                                            *)
Norm(v) == IF v.kind = "float" THEN [v EXCEPT !.n = Rounded(v.n)] ELSE v

(* Python's == of two cells: numbers are compared by value whatever their     *)
(* types, with a decimal compared to the double a float really is; nan is     *)
(* equal to nothing.                                                          *)
CellEqual(v, w) ==
  /\ v.n = w.n
  /\ IF v.kind \in Numbers /\ w.kind \in Numbers
     THEN {v.kind, w.kind} = {"float", "decimal"} => Exact(v.n)
     ELSE v.kind = w.kind /\ v.kind # "nan"

RowEqual(r, s) == Len(r) = Len(s) /\ \A j \in DOMAIN r : CellEqual(r[j], s[j])

NormRow(r)   == [j \in DOMAIN r |-> Norm(r[j])]
Normed(rows) == [i \in DOMAIN rows |-> NormRow(rows[i])]

InOrder(a, b) == Len(a) = Len(b) /\ \A i \in DOMAIN a : RowEqual(a[i], b[i])

(* Rows that are different, in a value, a type, a sign or a scale, have       *)
(* different reprs.                                                           *)
ReprRows == {NormRow(r) : r \in UNION {Range(table.rows) : table \in Results}}
ASSUME ReprAssumption ==
  /\ \A r \in ReprRows : r \in DOMAIN Repr /\ Repr[r] \in Int
  /\ \A r, s \in ReprRows : Repr[r] = Repr[s] => r = s

Reprs(rows) == [i \in DOMAIN rows |-> Repr[rows[i]]]

(* sorted: the k-th is the one with fewer than k below it, and k not above.   *)
Lower(s, x) == {i \in DOMAIN s : s[i] < x}
Upto(s, x)  == {i \in DOMAIN s : s[i] <= x}
Kth(s, k) ==
  CHOOSE x \in Range(s) : Cardinality(Lower(s, x)) < k /\ k <= Cardinality(Upto(s, x))
Sorted(s) == [k \in DOMAIN s |-> Kth(s, k)]

(* Bug: sets in place of sorted lists, so duplicate rows do not count.        *)
AnyOrderOfSets(a, b) == Range(Reprs(a)) = Range(Reprs(b))

AnyOrder(a, b) == Sorted(Reprs(a)) = Sorted(Reprs(b))

(* Bug: the order of gold does not count.                                     *)
RowsEqualInAnyOrder(a, b, ordered) == AnyOrder(Normed(a), Normed(b))

RowsEqual(a, b, ordered) ==
  IF ordered THEN InOrder(Normed(a), Normed(b)) ELSE AnyOrder(Normed(a), Normed(b))

(* math.isclose at 1e-6 of the larger, and at 1e-9 when gold is zero; == for  *)
(* what is no number (texts that spell one are left out).                     *)
ScalarClose(a, b) ==
  IF a.kind \notin Numbers \/ b.kind \notin Numbers THEN CellEqual(a, b)
  ELSE IF b.n = 0 THEN a.n = 0
  ELSE Gap(a.n, b.n) <= Max({Magnitude(a.n), Magnitude(b.n)}) \div 1000000

OneCell(t) == Len(t.rows) = 1

(* The end of grade_one: classify an answer that was executed.                *)
Compare(q, answer, truth) ==
  LET ok == IF ~pinned THEN answer.cols = truth.cols
            ELSE IF gold[q].shape.scalar
            THEN /\ OneCell(answer) /\ OneCell(truth)
                 /\ ScalarClose(answer.rows[1][1], truth.rows[1][1])
            ELSE RowsEqual(answer.rows, truth.rows, gold[q].shape.ordered)
  IN  IF ok THEN "PASS" ELSE "WRONG_RESULT"
----------------------------------------------------------------------------
(* The session.                                                               *)

(* Bug: the snapshot is opened without read_only=True.                        *)
ReadOnlyNever == FALSE

(* load_db: the snapshot is opened read-only, the in-memory schema is not.    *)
ReadOnly == pinned

Init ==
  /\ pinned \in BOOLEAN
  /\ gold \in [1 .. Questions -> [shape : Shapes, result : Results]]
  /\ db = "snapshot" /\ views = FALSE /\ altered = FALSE
  /\ txn = "none" /\ before = [db |-> "snapshot", views |-> FALSE]
  /\ verdict = [q \in 1 .. Questions |-> "none"]
  /\ given = [q \in 1 .. Questions |-> NoResult]
  /\ measured = given
  /\ raised = "none"

(* q is the next question of the sorted list.                                 *)
Grading(q) ==
  /\ raised = "none"
  /\ verdict[q] = "none"
  /\ \A p \in 1 .. q - 1 : verdict[p] # "none"

Grade(q, class) == verdict' = [verdict EXCEPT ![q] = class]

Missing(q) ==
  /\ Grading(q)
  /\ Grade(q, "MISSING")
  /\ UNCHANGED <<pinned, gold, session, given, measured, raised>>

(* The text matches \w+_(old|v1|bak): it is not run.                          *)
Stale(q) ==
  /\ Grading(q)
  /\ Grade(q, "STALE_TABLE")
  /\ UNCHANGED <<pinned, gold, session, given, measured, raised>>

(* An answer that is null has no text to search (line 88), and one with no    *)
(* statement in it, empty or a comment, has no result set to describe (line   *)
(* 60): neither is an error of duckdb's, and nothing catches it.              *)
NoStatement(q) ==
  /\ Grading(q)
  /\ raised' = "answer"
  /\ UNCHANGED <<pinned, gold, session, verdict, given, measured>>

(* What the session refuses: a read-only database to be written, and anything *)
(* but a rollback once an error has aborted the transaction.                  *)
Possible(effect) ==
  /\ ReadOnly => effect \notin {"write", "drop"}
  /\ txn = "aborted" => effect = "rollback"
  /\ effect = "begin" => txn = "none"
  /\ effect \in {"commit", "rollback"} => txn # "none"

(* What the statement leaves on the connection; a rollback keeps settings.    *)
Leaves(effect) ==
  /\ db' = CASE effect = "write" /\ db = "snapshot" -> "changed"
             [] effect = "drop"                     -> "dropped"
             [] effect = "rollback"                 -> before.db
             [] OTHER                               -> db
  /\ views' = CASE effect = "view"     -> TRUE
                [] effect = "rollback" -> before.views
                [] OTHER               -> views
  /\ altered' = (altered \/ effect = "settings")
  /\ before' = IF effect = "begin" THEN [db |-> db, views |-> views] ELSE before
TxnAfter(effect) ==
  CASE effect = "begin"                  -> "open"
    [] effect \in {"commit", "rollback"} -> "none"
    [] OTHER                             -> txn

Binds(stmt) ==
  /\ stmt.refs # "unknown"
  /\ stmt.refs = "view" => views
  /\ stmt.refs = "tables" => db # "dropped"

(* Any statement may fail, a script also after a part of it took effect.  An  *)
(* error other than the binder's aborts an open transaction.                  *)
Fails(q, stmt) ==
  /\ Grading(q)
  /\ Grade(q, IF txn = "aborted" \/ Binds(stmt) THEN "EXEC_ERROR" ELSE "BINDER_ERROR")
  /\ \E part \in {"none", stmt.effect} :
       /\ part = "none" \/ Possible(part)
       /\ Leaves(part)
       /\ \/ txn' = TxnAfter(part)
          \/ TxnAfter(part) = "open" /\ Binds(stmt) /\ txn' = "aborted"
  /\ UNCHANGED <<pinned, gold, given, measured, raised>>

Runs(q, stmt) ==
  /\ Grading(q)
  /\ Binds(stmt) /\ Possible(stmt.effect)
  /\ Leaves(stmt.effect)
  /\ txn' = TxnAfter(stmt.effect)

(* The gold query runs after the answer, on whatever the answer left behind:  *)
(* on other data, or under other settings, it may return anything.  Its       *)
(* tables are named with their schema, so that no view hides them.            *)
Moved == db' # "snapshot" \/ altered'

Answered(q, stmt) ==
  /\ Runs(q, stmt)
  /\ db' # "dropped"
  /\ \E truth \in IF Moved THEN Results ELSE {gold[q].result} :
       /\ Grade(q, Compare(q, stmt.result, truth))
       /\ IF pinned THEN /\ given' = [given EXCEPT ![q] = stmt.result]
                         /\ measured' = [measured EXCEPT ![q] = truth]
          ELSE UNCHANGED <<given, measured>>
  /\ UNCHANGED <<pinned, gold, raised>>

(* The gold query itself fails, outside of every try.                         *)
GoldFails(q, stmt) ==
  /\ Runs(q, stmt)
  /\ Moved
  /\ raised' = "gold"
  /\ UNCHANGED <<pinned, gold, verdict, given, measured>>

Next ==
  \E q \in 1 .. Questions :
    \/ Missing(q) \/ Stale(q) \/ NoStatement(q)
    \/ \E stmt \in Statements : Fails(q, stmt) \/ Answered(q, stmt) \/ GoldFails(q, stmt)

Spec == Init /\ [][Next]_vars
----------------------------------------------------------------------------
(* Some pairing of the rows, the identity when the order counts, matches.     *)
Paired(a, b, ordered, Matches(_, _)) ==
  /\ Len(a) = Len(b)
  /\ \E f \in [DOMAIN a -> DOMAIN a] :
       /\ IsInjective(f)
       /\ ordered => \A i \in DOMAIN a : f[i] = i
       /\ \A i \in DOMAIN a : Matches(a[i], b[f[i]])

Table(q) == pinned /\ ~gold[q].shape.scalar /\ verdict[q] \in {"PASS", "WRONG_RESULT"}

(* A table passes exactly when its rows can be paired off with gold's, with   *)
(* their duplicates: in gold's order, each equal to its row cell by cell,     *)
(* when gold has an order, and else in any order, each the same as its row    *)
(* also in types, signs and scales.  Comparing sorted lists of reprs is a     *)
(* multiset comparison, also for floats that round alike.                     *)
PassIffRowsPair ==
  \A q \in 1 .. Questions : Table(q) =>
    LET Equal(r, s) == RowEqual(NormRow(r), NormRow(s))
        Same(r, s)  == NormRow(r) = NormRow(s)
    IN  verdict[q] = "PASS" <=>
          IF gold[q].shape.ordered THEN Paired(given[q].rows, measured[q].rows, TRUE, Equal)
          ELSE Paired(given[q].rows, measured[q].rows, FALSE, Same)

(* Every verdict is one of the documented classes, and the verdict of a table *)
(* is the one its rows and those gold returned call for.                      *)
VerdictsSound == TypeOK /\ PassIffRowsPair

(* "Creating temp views inside your session is allowed; persisting anything   *)
(* is not" (lab3/README.md:67): on the pinned snapshot gold answers, with the *)
(* snapshot's rows, whatever the answers so far wrote, dropped, defined, left *)
(* half done or rolled back, until one of them has set an option, created a   *)
(* macro or attached a database: nothing protects gold from these.            *)
GoldOnSnapshot ==
  pinned /\ ~altered =>
    /\ raised # "gold"
    /\ \A q \in 1 .. Questions : measured[q] \in {NoResult, gold[q].result}

(* Floats of a table are compared at 1e-6 relative or 1e-9 absolute: a table  *)
(* passes when its rows pair off with gold's within that tolerance.           *)
FloatsWithinTolerance ==
  \A q \in 1 .. Questions : Table(q) =>
    LET Close(v, w) == v.kind = w.kind /\ ScalarClose(v, w)
        CloseRows(r, s) == Len(r) = Len(s) /\ \A j \in DOMAIN r : Close(r[j], s[j])
    IN  Paired(given[q].rows, measured[q].rows, gold[q].shape.ordered, CloseRows)
          => verdict[q] = "PASS"
=============================================================================
