--------------------------- MODULE SimulatorProofs ---------------------------
(* Theorems about lab 4: the corpus the generator leaves, the gold of joins,  *)
(* the answers of the simulator and the quality of a filter.                  *)
EXTENDS Simulator, TLAPS, FiniteSetTheorems

(* The corpus. What is on disk are rows of the tables, which the draws fix    *)
(* once and for all: this is why files of different runs, also of runs that   *)
(* failed, agree with each other.                                             *)

(* A remainder by n, counted from 1, is one of 1 .. n: how product ids and the*)
(* stars of a review are drawn.                                               *)
LEMMA RemainderInRange ==
  ASSUME NEW x \in Nat, NEW n \in Nat \ {0}
  PROVE  1 + (x % n) \in 1 .. n
  OBVIOUS

(* The files a run writes.                                                    *)
LEMMA FileNames == Range(Files) = {"reviews", "products", "calibration_reviews", "calibration_products"}
  BY DEF Range, Files

(* A text carries the signal of an aspect exactly when the hidden rule holds. *)
LEMMA FragmentsAgree ==
  ASSUME NEW kind, NEW id, NEW a \in Signals[kind]
  PROVE  <<kind, a, "signal">> \in Fragments(kind, id) <=> GroundTruth(kind, id, a)
  BY DEF Fragments, Complaints

(* Every signal a text carries is about an aspect its row complains about.    *)
LEMMA SignalsAreComplaints ==
  ASSUME NEW kind, NEW id, NEW f \in Fragments(kind, id)
  PROVE  f[3] = "signal" => f[2] \in Complaints(kind, id)
<1>1. \/ \E a \in Complaints(kind, id) : f = <<kind, a, "signal">>
      \/ \E a : f = <<kind, a, "distractor">>
  BY DEF Fragments
<1>2. CASE \E a \in Complaints(kind, id) : f = <<kind, a, "signal">>
  BY <1>2
<1>3. CASE \E a : f = <<kind, a, "distractor">>
  BY <1>3
<1> QED
  BY <1>1, <1>2, <1>3

(* Finitely many ids are picked for calibration.                              *)
LEMMA PickedFinite ==
  ASSUME NEW kind \in {"review", "product"}
  PROVE  Cardinality(Picked(kind)) \in Nat
<1>1. PICK n \in Nat : Ids[kind] = 1 .. n
  BY CorpusAssumption DEF Ids, Reviews, Products
<1>2. IsFiniteSet(Ids[kind])
  BY <1>1, FS_Interval, 1 \in Int, n \in Int
<1>3. IsFiniteSet(Picked(kind))
  BY <1>2, FS_Subset DEF Picked
<1> QED
  BY <1>3, FS_CardinalityType

(* A function of 1 .. len is a sequence of its values.                        *)
LEMMA SequenceOfFunction ==
  ASSUME NEW g, NEW len \in Nat, g = [k \in 1 .. len |-> g[k]]
  PROVE  g \in Seq(Range(g))
<1>1. \A k \in 1 .. len : g[k] \in Range(g)
  BY DEF Range
<1> QED
  BY <1>1

(* The labels of a kind are a sequence: write_csv writes them in order.       *)
LEMMA LabelsAreSequences ==
  ASSUME NEW kind \in {"review", "product"}, NEW n \in Nat
  PROVE  Labels(kind, n) \in Seq(Range(Labels(kind, n)))
<1>1. PICK len \in Nat : DOMAIN CalibrationIds(kind, n) = 1 .. len
  BY PickedFinite DEF CalibrationIds
<1>2. Labels(kind, n) = [k \in 1 .. len |-> Labels(kind, n)[k]]
  BY <1>1 DEF Labels
<1> QED
  BY <1>2, SequenceOfFunction

(* Every table is a sequence of its rows.                                     *)
LEMMA TablesAreSequences ==
  ASSUME NEW f \in Range(Files)
  PROVE  Tables[f] \in Seq(Range(Tables[f]))
<1>1. CASE f = "reviews"
  BY <1>1, CorpusAssumption DEF Tables, Reviews, Range
<1>2. CASE f = "products"
  BY <1>2, CorpusAssumption DEF Tables, Products, Range
<1>3. CASE f = "calibration_reviews"
  BY <1>3, CorpusAssumption, LabelsAreSequences DEF Tables
<1>4. CASE f = "calibration_products"
  BY <1>4, CorpusAssumption, LabelsAreSequences DEF Tables
<1> QED
  BY <1>1, <1>2, <1>3, <1>4, FileNames

(* A file that a failed run leaves holds rows of the table only.              *)
LEMMA TornRows ==
  ASSUME NEW S, NEW rows \in Seq(S), NEW torn \in Torn(rows)
  PROVE  Range(torn.rows) \subseteq S
<1>1. PICK n \in 0 .. Len(rows) - 1 : torn.rows = SubSeq(rows, 1, n)
  BY DEF Torn
<1>2. Len(rows) \in Nat
  OBVIOUS
<1>3. SubSeq(rows, 1, n) \in Seq(S)
  BY <1>2
<1> QED
  BY <1>1, <1>3 DEF Range
-----------------------------------------------------------------------------
(* The tables are functions of the draws: every run of the generator builds the*)
(* same rows.                                                                 *)
LEMMA SameTables ==
  ASSUME gold' = gold, hash' = hash
  PROVE  Tables' = Tables
<1>1. ASSUME NEW kind, NEW id, NEW a
      PROVE  GroundTruth(kind, id, a)' <=> GroundTruth(kind, id, a)
  BY DEF GroundTruth
<1>2. ASSUME NEW kind, NEW id
      PROVE  Complaints(kind, id)' = Complaints(kind, id)
  BY <1>1 DEF Complaints
<1>3. ASSUME NEW kind, NEW id
      PROVE  Fragments(kind, id)' = Fragments(kind, id)
  BY <1>2 DEF Fragments
<1>4. ASSUME NEW r
      PROVE  BuildReview(r)' = BuildReview(r)
  BY <1>2, <1>3 DEF BuildReview, Stars, ProductOf
<1>5. ASSUME NEW p
      PROVE  BuildProduct(p)' = BuildProduct(p)
  BY <1>3 DEF BuildProduct
<1>6. ASSUME NEW kind, NEW n
      PROVE  CalibrationIds(kind, n)' = CalibrationIds(kind, n)
  <2>1. Picked(kind)' = Picked(kind)
    BY DEF Picked
  <2> QED
    BY <2>1 DEF CalibrationIds
<1>7. ASSUME NEW kind, NEW n
      PROVE  Labels(kind, n)' = Labels(kind, n)
  BY <1>1, <1>6 DEF Labels
<1> QED
  BY <1>4, <1>5, <1>7 DEF Tables

(* What the rest of the lab does leaves the corpus alone.                     *)
LEMMA StepsOfCorpus ==
  ASSUME [Next]_vars
  PROVE  \/ StartRun \/ WriteCsv \/ WriteFails \/ SanityReport
         \/ UNCHANGED corpusVars
  BY DEF Next, vars, Generate, GenNext, Pipeline, AskFilter, AskPair, ScoreProxy, OracleFilter,
         OraclePair, OracleScore, Oracle, Reset, BetweenFilters, StartFilter, SmokeTest,
         FilterRow, FilterDone

(* No step draws again.                                                       *)
LEMMA DrawsStay ==
  ASSUME [Next]_vars
  PROVE  gold' = gold /\ hash' = hash
  BY StepsOfCorpus DEF StartRun, WriteCsv, WriteFails, SanityReport, corpusVars
-----------------------------------------------------------------------------
(* Rows on disk are rows of their table, and the files before the one a run   *)
(* writes next are whole.                                                     *)
CorpusInv ==
  /\ hash \in Draws
  /\ gen \in 0 .. 5
  /\ DOMAIN disk = Range(Files)
  /\ \A f \in Range(Files) : OnDisk(f) \subseteq Range(Tables[f])
  /\ \A i \in 1 .. gen - 1 : disk[Files[i]] = Whole(Tables[Files[i]])

(* The order of the files, and that no file is written twice.                 *)
LEMMA FileOf ==
  /\ Len(Files) = 4 /\ DOMAIN Files = 1 .. 4
  /\ \A i \in 1 .. 4 : Files[i] \in Range(Files)
  /\ \A i, j \in 1 .. 4 : Files[i] = Files[j] => i = j
  BY DEF Files, Range

(* It holds of an empty directory, and of one with an older corpus.           *)
LEMMA InitCorpusInv == ASSUME Init PROVE CorpusInv
<1> USE DEF Init, CorpusInit
<1>1. gen = 0 /\ hash \in Draws /\ DOMAIN disk = Range(Files)
  OBVIOUS
<1>2. ASSUME NEW f \in Range(Files)
      PROVE  OnDisk(f) \subseteq Range(Tables[f])
  BY DEF OnDisk, Absent, Whole, Range
<1> QED
  BY <1>1, <1>2 DEF CorpusInv

(* Every step keeps it: a file that is written or torn gets rows of its table.*)
LEMMA StepCorpusInv ==
  ASSUME CorpusInv, [Next]_vars
  PROVE  CorpusInv'
<1>1. gold' = gold /\ hash' = hash /\ Tables' = Tables
  BY DrawsStay, SameTables
<1>2. CASE StartRun
  BY <1>1, <1>2 DEF CorpusInv, StartRun, OnDisk
<1>3. CASE WriteCsv
  <2> DEFINE file == Files[gen]
  <2>1. gen \in 1 .. 4 /\ file \in Range(Files)
    BY <1>3, FileOf DEF WriteCsv
  <2>2. disk' = [disk EXCEPT ![file] = Whole(Tables[file])]
    BY <1>3 DEF WriteCsv, Written
  <2>3. ASSUME NEW f \in Range(Files)
        PROVE  OnDisk(f)' \subseteq Range(Tables[f])
    <3>1. CASE f = file
      BY <2>1, <2>2, <3>1 DEF CorpusInv, OnDisk, Whole
    <3>2. CASE f # file
      BY <2>1, <2>2, <3>2 DEF CorpusInv, OnDisk
    <3> QED
      BY <3>1, <3>2
  <2>4. ASSUME NEW i \in 1 .. gen' - 1
        PROVE  disk'[Files[i]] = Whole(Tables[Files[i]])
    BY <1>3, <2>1, <2>2, FileOf DEF CorpusInv, WriteCsv
  <2> QED
    BY <1>1, <1>3, <2>1, <2>2, <2>3, <2>4 DEF CorpusInv, WriteCsv, Whole
<1>4. CASE WriteFails
  <2>1. gen \in 1 .. 4 /\ Files[gen] \in Range(Files) /\ gen' = 0
    BY <1>4, FileOf DEF WriteFails
  <2>2. ASSUME NEW f \in Range(Files)
        PROVE  OnDisk(f)' \subseteq Range(Tables[f])
    <3>1. CASE UNCHANGED disk
      BY <3>1 DEF CorpusInv, OnDisk
    <3>2. ASSUME NEW torn \in Torn(Tables[Files[gen]]),
                 disk' = [disk EXCEPT ![Files[gen]] = torn]
          PROVE  OnDisk(f)' \subseteq Range(Tables[f])
      <4>1. Range(torn.rows) \subseteq Range(Tables[Files[gen]])
        BY <2>1, TablesAreSequences, TornRows
      <4> QED
        BY <2>1, <3>2, <4>1 DEF CorpusInv, OnDisk
    <3> QED
      BY <1>4, <3>1, <3>2 DEF WriteFails, Written
  <2>3. DOMAIN disk' = DOMAIN disk
    BY <1>4 DEF WriteFails
  <2> QED
    BY <1>1, <2>1, <2>2, <2>3 DEF CorpusInv
<1>5. CASE SanityReport
  BY <1>1, <1>5 DEF CorpusInv, SanityReport, OnDisk
<1>6. CASE UNCHANGED corpusVars
  BY <1>1, <1>6 DEF CorpusInv, corpusVars, OnDisk
<1> QED
  BY <1>2, <1>3, <1>4, <1>5, <1>6, StepsOfCorpus
-----------------------------------------------------------------------------
(* A run that reports has been through all four files.                        *)
LEMMA ReportsComplete == ASSUME CorpusInv PROVE ReportedIsComplete
<1> SUFFICES ASSUME gen = Len(Files) + 1, NEW f \in Range(Files)
             PROVE  disk[f] = Whole(Tables[f])
  BY DEF ReportedIsComplete, Complete
<1>1. PICK i \in 1 .. 4 : f = Files[i]
  BY FileOf DEF Range
<1> QED
  BY <1>1, FileOf DEF CorpusInv

(* A row of reviews.csv, whichever run wrote it, is the review of its id.     *)
LEMMA ReviewRows ==
  ASSUME CorpusInv, NEW row \in OnDisk("reviews")
  PROVE  \E r \in Reviews : row = BuildReview(r)
<1>1. row \in Range(Tables["reviews"])
  BY FileNames DEF CorpusInv
<1>2. Tables["reviews"] = [r \in Reviews |-> BuildReview(r)]
  BY DEF Tables
<1> QED
  BY <1>1, <1>2 DEF Range

(* A row of products.csv is the product of its id.                            *)
LEMMA ProductRows ==
  ASSUME CorpusInv, NEW row \in OnDisk("products")
  PROVE  \E p \in Products : row = BuildProduct(p)
<1>1. row \in Range(Tables["products"])
  BY FileNames DEF CorpusInv
<1>2. Tables["products"] = [p \in Products |-> BuildProduct(p)]
  BY DEF Tables
<1> QED
  BY <1>1, <1>2 DEF Range

(* A calibration label is the hidden rule of the id it names.                 *)
LEMMA LabelRows ==
  ASSUME CorpusInv
  PROVE  /\ \A label \in OnDisk("calibration_reviews") :
              label.gold <=> GroundTruth("review", label.id, "battery")
         /\ \A label \in OnDisk("calibration_products") :
              label.gold <=> GroundTruth("product", label.id, "battery")
<1>1. ASSUME NEW kind, NEW n, NEW label \in Range(Labels(kind, n))
      PROVE  label.gold <=> GroundTruth(kind, label.id, "battery")
  BY DEF Labels, Range
<1>2. /\ OnDisk("calibration_reviews") \subseteq Range(Labels("review", NCalibReviews))
      /\ OnDisk("calibration_products") \subseteq Range(Labels("product", NCalibProducts))
  <2>1. /\ OnDisk("calibration_reviews") \subseteq Range(Tables["calibration_reviews"])
        /\ OnDisk("calibration_products") \subseteq Range(Tables["calibration_products"])
    BY FileNames DEF CorpusInv
  <2>2. /\ Tables["calibration_reviews"] = Labels("review", NCalibReviews)
        /\ Tables["calibration_products"] = Labels("product", NCalibProducts)
    BY DEF Tables
  <2> QED
    BY <2>1, <2>2
<1> QED
  BY <1>1, <1>2

(* A review links to a product that exists.                                   *)
LEMMA LinksExist ==
  ASSUME CorpusInv, NEW r \in Reviews
  PROVE  ProductOf(r) \in Products
<1>1. hash.link[r] \in Nat
  BY CorpusAssumption DEF CorpusInv, Draws
<1> QED
  BY <1>1, CorpusAssumption, RemainderInRange DEF ProductOf, Products

(* Rows of different files, also of different runs, tell one story.           *)
LEMMA FilesAlwaysAgree == ASSUME CorpusInv PROVE FilesAgree
<1>1. ASSUME NEW label \in OnDisk("calibration_reviews"), NEW row \in OnDisk("reviews"),
             label.id = row.id
      PROVE  label.gold <=> (<<"review", "battery", "signal">> \in row.text)
  <2>1. PICK r \in Reviews : row = BuildReview(r)
    BY ReviewRows
  <2>2. label.gold <=> GroundTruth("review", r, "battery")
    BY <1>1, <2>1, LabelRows DEF BuildReview
  <2>3. (<<"review", "battery", "signal">> \in row.text) <=> GroundTruth("review", r, "battery")
    BY <2>1, FragmentsAgree DEF BuildReview, Signals
  <2> QED
    BY <2>2, <2>3
<1>2. ASSUME NEW label \in OnDisk("calibration_products"), NEW row \in OnDisk("products"),
             label.id = row.id
      PROVE  label.gold <=> (<<"product", "battery", "signal">> \in row.text)
  <2>1. PICK p \in Products : row = BuildProduct(p)
    BY ProductRows
  <2>2. label.gold <=> GroundTruth("product", p, "battery")
    BY <1>2, <2>1, LabelRows DEF BuildProduct
  <2>3. (<<"product", "battery", "signal">> \in row.text) <=> GroundTruth("product", p, "battery")
    BY <2>1, FragmentsAgree DEF BuildProduct, Signals
  <2> QED
    BY <2>2, <2>3
<1>3. ASSUME Complete, NEW row \in OnDisk("reviews")
      PROVE  \E p \in OnDisk("products") : p.id = row.product_id
  <2>1. PICK r \in Reviews : row = BuildReview(r)
    BY ReviewRows
  <2>2. BuildProduct(ProductOf(r)) \in Range(Tables["products"])
    BY LinksExist DEF Tables, Range
  <2>3. OnDisk("products") = Range(Tables["products"])
    BY <1>3, FileNames DEF Complete, OnDisk, Whole
  <2>4. BuildProduct(ProductOf(r)).id = row.product_id
    BY <2>1 DEF BuildProduct, BuildReview
  <2> QED
    BY <2>2, <2>3, <2>4
<1>4. (\A label \in OnDisk("calibration_reviews") : label.gold \in BOOLEAN)
      /\ (\A label \in OnDisk("calibration_products") : label.gold \in BOOLEAN)
  <2>1. ASSUME NEW kind, NEW n, NEW label \in Range(Labels(kind, n))
        PROVE  label.gold \in BOOLEAN
    <3>1. PICK id : label = [id |-> id, gold |-> GroundTruth(kind, id, "battery")]
      BY DEF Labels, Range
    <3>2. label.gold = GroundTruth(kind, id, "battery")
      BY <3>1
    <3> QED
      BY <3>2 DEF GroundTruth
  <2>2. /\ OnDisk("calibration_reviews") \subseteq Range(Tables["calibration_reviews"])
        /\ OnDisk("calibration_products") \subseteq Range(Tables["calibration_products"])
    BY FileNames DEF CorpusInv
  <2>3. /\ Tables["calibration_reviews"] = Labels("review", NCalibReviews)
        /\ Tables["calibration_products"] = Labels("product", NCalibProducts)
    BY DEF Tables
  <2> QED
    BY <2>1, <2>2, <2>3
<1> QED
  BY <1>1, <1>2, <1>3, <1>4 DEF FilesAgree

(* Three stars say nothing, fewer are a complaint, more are none.             *)
LEMMA StarsAlwaysConfounded == ASSUME CorpusInv PROVE StarsConfounded
<1> SUFFICES ASSUME NEW row \in OnDisk("reviews")
             PROVE  LET signals == {f \in row.text : f[3] = "signal"}
                    IN  /\ signals # {} => row.stars <= 3
                        /\ signals = {} => row.stars >= 3
  BY DEF StarsConfounded
<1>1. PICK r \in Reviews : row = BuildReview(r)
  BY ReviewRows
<1>2. row.text = Fragments("review", r) /\ row.stars = Stars(r)
  BY <1>1 DEF BuildReview
<1>3. {f \in row.text : f[3] = "signal"} # {} <=> Complaints("review", r) # {}
  <2>1. ASSUME NEW f \in row.text, f[3] = "signal"
        PROVE  Complaints("review", r) # {}
    BY <1>2, <2>1, SignalsAreComplaints
  <2>2. ASSUME NEW a \in Complaints("review", r)
        PROVE  <<"review", a, "signal">> \in row.text
    BY <1>2 DEF Fragments
  <2>3. ASSUME NEW a \in Complaints("review", r)
        PROVE  <<"review", a, "signal">> \in {f \in row.text : f[3] = "signal"}
    BY <2>2
  <2>4. CASE Complaints("review", r) = {}
    BY <2>1, <2>4
  <2>5. CASE Complaints("review", r) # {}
    BY <2>3, <2>5
  <2> QED
    BY <2>4, <2>5
<1>4. hash.stars[r] \in Nat
  BY CorpusAssumption DEF CorpusInv, Draws
<1> DEFINE k == 1 + (hash.stars[r] % 5)
<1>5. k \in 1 .. 5
  BY <1>4, RemainderInRange
<1> HIDE DEF k
<1>6. CASE Complaints("review", r) # {}
  <2>1. Stars(r) = <<1, 1, 2, 2, 3>>[k]
    BY <1>6 DEF Stars, k
  <2>2. Stars(r) <= 3
    BY <1>5, <2>1
  <2> QED
    BY <1>2, <1>3, <1>6, <2>2
<1>7. CASE Complaints("review", r) = {}
  <2>1. Stars(r) = <<3, 4, 4, 5, 5>>[k]
    BY <1>7 DEF Stars, k
  <2>2. Stars(r) >= 3
    BY <1>5, <2>1
  <2> QED
    BY <1>2, <1>3, <1>7, <2>2
<1> QED
  BY <1>6, <1>7

(* Raw text is judged as the row it came from, for the aspects with signals.  *)
LEMMA TextAlwaysAgrees == TextAgrees
<1> SUFFICES ASSUME NEW d \in Docs, NEW p \in Predicates,
                    CanonicalAspect(p) \in Signals[d.kind]
             PROVE  TruthFilter(Raw(d), p) = TruthFilter(d, p)
  BY DEF TextAgrees
<1> DEFINE a == CanonicalAspect(p)
<1>1. PICK kind, id : d = Doc(kind, id)
  BY DEF Docs, ReviewDocs, ProductDocs
<1>2. d.form = "row" /\ d.kind = kind /\ d.id = id
  BY <1>1 DEF Doc
<1>3. Raw(d).form = "text" /\ Raw(d).kind = kind /\ Raw(d).id = id
  BY <1>1 DEF Doc, Raw
<1> DEFINE says == \E f \in Fragments(kind, id) : f[2] = a /\ f[3] = "signal"
<1>4. TruthFilter(d, p) = GroundTruth(kind, id, a)
  BY <1>2 DEF TruthFilter
<1>5. TruthFilter(Raw(d), p) = says
  BY <1>3 DEF TruthFilter
<1>6. ASSUME GroundTruth(kind, id, a)
      PROVE  says
  <2>1. <<kind, a, "signal">> \in Fragments(kind, id)
    BY <1>2, <1>6, FragmentsAgree
  <2> QED
    BY <2>1
<1>7. ASSUME NEW f \in Fragments(kind, id), f[2] = a, f[3] = "signal"
      PROVE  GroundTruth(kind, id, a)
  BY <1>7, SignalsAreComplaints DEF Complaints
<1>8. GroundTruth(kind, id, a) = says
  <2>1. GroundTruth(kind, id, a) <=> says
    BY <1>6, <1>7
  <2>2. GroundTruth(kind, id, a) \in BOOLEAN /\ says \in BOOLEAN
    BY DEF GroundTruth
  <2> QED
    BY <2>1, <2>2
<1> QED
  BY <1>4, <1>5, <1>8

(* For every size of the corpus and any hashes: a run of make_data.py that    *)
(* reports has left the same four files, and the rows on disk agree with each *)
(* other and with the hidden rule whatever runs failed before (main, write_csv).*)
THEOREM CorpusAlwaysSound == Spec => []CorpusSound
<1>1. Init => CorpusInv
  BY InitCorpusInv
<1>2. CorpusInv /\ [Next]_vars => CorpusInv'
  BY StepCorpusInv
<1>3. CorpusInv => CorpusSound
  BY ReportsComplete, FilesAlwaysAgree, StarsAlwaysConfounded, TextAlwaysAgrees DEF CorpusSound
<1> QED
  BY <1>1, <1>2, <1>3, PTL DEF Spec
-----------------------------------------------------------------------------
(* truth_pair does not depend on which side comes first.                      *)
LEMMA PairsAreSymmetric ==
  ASSUME NEW d \in Docs, NEW e \in Docs, NEW a
  PROVE  TruthPair(d, e, a) = TruthPair(e, d, a)
<1>1. d.kind \in {"review", "product"} /\ e.kind \in {"review", "product"}
  BY DEF Docs, ReviewDocs, ProductDocs, Doc
<1>2. CASE d.kind = e.kind
  <2>1. {Key(d), Key(e)} = {Key(e), Key(d)}
    OBVIOUS
  <2> QED
    BY <1>2, <2>1 DEF TruthPair
<1>3. ASSUME NEW rev \in Docs, NEW prod \in Docs, rev.kind = "review", prod.kind = "product"
      PROVE  TruthPair(rev, prod, a) = TruthPair(prod, rev, a)
  BY <1>3 DEF TruthPair
<1> QED
  BY <1>1, <1>2, <1>3

(* For every corpus: the gold set grade_pairs enumerates through the links is *)
(* the set of all pairs that match, for any sides of a join.                  *)
LEMMA GoldJoinsExact == GoldPairsExact
<1>1. ASSUME NEW a \in Aspects, NEW left \in SUBSET ReviewDocs, NEW right \in SUBSET ProductDocs
      PROVE  GoldPairs(left, right, a) = AllGoldPairs(left, right, a)
  <2>1. ASSUME NEW l \in left, NEW r \in right, TruthPair(l, r, a)
        PROVE  r.id = ProductId(l)
    BY <2>1 DEF TruthPair, ReviewDocs, ProductDocs, Doc
  <2>2. ASSUME NEW l \in left, NEW r \in right, TruthPair(l, r, a)
        PROVE  <<l.id, r.id>> \in GoldPairs(left, right, a)
    BY <2>1, <2>2 DEF GoldPairs
  <2>3. ASSUME NEW l \in left, NEW r \in right, r.id = ProductId(l), TruthPair(l, r, a)
        PROVE  <<l.id, ProductId(l)>> \in AllGoldPairs(left, right, a)
    <3>1. <<l, r>> \in {lr \in left \X right : TruthPair(lr[1], lr[2], a)}
      BY <2>3
    <3> QED
      BY <2>3, <3>1 DEF AllGoldPairs
  <2>4. GoldPairs(left, right, a) \subseteq AllGoldPairs(left, right, a)
    BY <2>3 DEF GoldPairs
  <2>5. AllGoldPairs(left, right, a) \subseteq GoldPairs(left, right, a)
    <3> SUFFICES ASSUME NEW pair \in {lr \in left \X right : TruthPair(lr[1], lr[2], a)}
                 PROVE  <<pair[1].id, pair[2].id>> \in GoldPairs(left, right, a)
      BY DEF AllGoldPairs
    <3> QED
      BY <2>2
  <2> QED
    BY <2>4, <2>5
<1> QED
  BY <1>1, PairsAreSymmetric DEF GoldPairsExact

-----------------------------------------------------------------------------
(* The simulator is deterministic. Its answers are explained: each is the     *)
(* gold of its question, flipped or not by a hash that is still there to be   *)
(* looked up. Hashes are never drawn again and gold never moves, so           *)
(* explanations last.                                                         *)

(* Calls that are answered by gold and a coin.                                *)
Judgements == {"judge_filter", "score_proxy", "judge_pair"}

(* The kind of coin a call flips.                                             *)
Kind(call) ==
  IF call.op = "judge_filter" THEN "filter"
  ELSE IF call.op = "score_proxy" THEN "score"
  ELSE IF IsComparison(call.predicate) THEN "compare" ELSE "pair"

(* The key of its coin.                                                       *)
CoinOf(call) == CoinKey(call.tier, Kind(call), call.docs, call.predicate)

(* Gold of a yes-or-no question.                                              *)
Truth(call) ==
  IF call.op \in {"judge_pair", "oracle_pair"}
  THEN PairTruth(call.docs[1], call.docs[2], call.predicate)
  ELSE TruthFilter(call.docs[1], call.predicate)

(* Gold of a score.                                                           *)
Score(call) == TruthScore(call.docs[1], CanonicalAspect(call.predicate))

(* A call has the documents its operation asks about.                         *)
WellFormed(call) ==
  /\ call = Call(call.op, call.docs, call.predicate, call.tier)
  /\ call.op \in Judgements \union OracleOps \union {"reset"}
  /\ call.op # "reset" => 1 \in DOMAIN call.docs
  /\ call.op \in {"judge_pair", "oracle_pair"} => 2 \in DOMAIN call.docs

(* All its documents have an id.                                              *)
Identified(call) == \A i \in DOMAIN call.docs : HasId(call.docs[i])

(* What a judge says when the hash is this.                                   *)
Says(call, unit, truth) ==
  IF Flipped(unit, truth, TierOf(call.tier), Kind(call)) = truth THEN No ELSE Yes

(* The answer is gold, or its opposite if the hash says so.                   *)
Judged(call, answer) ==
  IF Refused(call) THEN answer = Error
  ELSE CoinOf(call) \in DOMAIN coins /\ answer = Says(call, coins[CoinOf(call)], Truth(call))

(* The answer is gold.                                                        *)
OracleSays(call, answer) ==
  IF ~Identified(call) THEN answer = Error
  ELSE IF call.op = "oracle_score" THEN answer = Score(call)
  ELSE answer = IF Truth(call) THEN Yes ELSE No

(* Why a call got its answer.                                                 *)
Explained(call, answer) ==
  /\ WellFormed(call)
  /\ call.op \in Judgements => Judged(call, answer)
  /\ call.op \in OracleOps => OracleSays(call, answer)
  /\ call.op = "reset" => answer = No

(* Every answer in the history is explained, by the coins and the gold of now.*)
AnswersInv ==
  /\ calls \in Seq(Range(calls))
  /\ \A i \in DOMAIN calls : Explained(calls[i].call, calls[i].answer)
-----------------------------------------------------------------------------
(* _doc_key tells rows from texts, and rows of different ids apart.           *)
LEMMA KeyDetermines ==
  ASSUME NEW x, NEW y, Key(x) = Key(y)
  PROVE  x.kind = y.kind /\ x.id = y.id /\ (x.form = "text" <=> y.form = "text")
<1>1. \A a, b, c, d, e : <<a, b, c>> # <<d, e>>
  <2> SUFFICES ASSUME NEW a, NEW b, NEW c, NEW d, NEW e, <<a, b, c>> = <<d, e>>
               PROVE  FALSE
    OBVIOUS
  <2>1. Len(<<a, b, c>>) = 3 /\ Len(<<d, e>>) = 2
    OBVIOUS
  <2> QED
    BY <2>1
<1> QED
  BY <1>1 DEF Key

(* Gold of a filter is a function of the key.                                 *)
LEMMA SameTruthFilter ==
  ASSUME NEW x, NEW y, NEW p, Key(x) = Key(y)
  PROVE  TruthFilter(x, p) = TruthFilter(y, p)
<1>1. x.kind = y.kind /\ x.id = y.id /\ (x.form = "text" <=> y.form = "text")
  BY KeyDetermines
<1> DEFINE says(kind, id) ==
      \E f \in Fragments(kind, id) : f[2] = CanonicalAspect(p) /\ f[3] = "signal"
<1>2. CASE x.form = "text"
  <2>1. TruthFilter(x, p) = says(x.kind, x.id) /\ TruthFilter(y, p) = says(y.kind, y.id)
    BY <1>1, <1>2 DEF TruthFilter
  <2>2. says(x.kind, x.id) = says(y.kind, y.id)
    BY <1>1
  <2> QED
    BY <2>1, <2>2
<1>3. CASE x.form # "text"
  BY <1>1, <1>3 DEF TruthFilter
<1> QED
  BY <1>2, <1>3

(* A latent score is a function of the key and the stars.                     *)
LEMMA SameTruthScore ==
  ASSUME NEW x, NEW y, NEW a, Key(x) = Key(y), StarsOf(x) = StarsOf(y)
  PROVE  TruthScore(x, a) = TruthScore(y, a)
<1>1. x.kind = y.kind /\ x.id = y.id
  BY KeyDetermines
<1> QED
  BY <1>1 DEF TruthScore

(* Gold of a join is a function of the keys and the product_ids.              *)
LEMMA SameTruthPair ==
  ASSUME NEW x, NEW y, NEW l, NEW r, NEW a,
         Key(x) = Key(l), Key(y) = Key(r),
         ProductId(x) = ProductId(l), ProductId(y) = ProductId(r)
  PROVE  TruthPair(x, y, a) = TruthPair(l, r, a)
<1>1. x.kind = l.kind /\ x.id = l.id /\ y.kind = r.kind /\ y.id = r.id
  BY KeyDetermines
<1>2. CASE x.kind = y.kind
  BY <1>1, <1>2 DEF TruthPair
<1>3. CASE x.kind # y.kind /\ x.kind = "review"
  BY <1>1, <1>3 DEF TruthPair
<1>4. CASE x.kind # y.kind /\ x.kind # "review"
  BY <1>1, <1>4 DEF TruthPair
<1> QED
  BY <1>2, <1>3, <1>4

(* A gold comparison is a function of the keys and the stars.                 *)
LEMMA SameBeats ==
  ASSUME NEW x, NEW y, NEW l, NEW r, NEW a,
         Key(x) = Key(l), Key(y) = Key(r), StarsOf(x) = StarsOf(l), StarsOf(y) = StarsOf(r)
  PROVE  Beats(x, y, a) = Beats(l, r, a)
<1>1. TruthScore(x, a) = TruthScore(l, a) /\ TruthScore(y, a) = TruthScore(r, a)
  BY SameTruthScore
<1>2. KeyAbove(y, x) <=> KeyAbove(r, l)
  BY KeyDetermines DEF KeyAbove
<1> QED
  BY <1>1, <1>2 DEF Beats

(* Two explained answers to the same question are equal.                      *)
LEMMA SameAnswer ==
  ASSUME NEW c, NEW d, NEW v, NEW w, Explained(c, v), Explained(d, w), SameQuestion(c, d)
  PROVE  v = w
<1> DEFINE keys(e) == [i \in DOMAIN e.docs |-> Key(e.docs[i])]
<1>1. c.op = d.op /\ c.predicate = d.predicate /\ c.tier = d.tier /\ keys(c) = keys(d)
  <2>1. /\ c = [op |-> c.op, docs |-> c.docs, predicate |-> c.predicate, tier |-> c.tier]
        /\ d = [op |-> d.op, docs |-> d.docs, predicate |-> d.predicate, tier |-> d.tier]
    BY DEF Explained, WellFormed, Call
  <2>2. [c EXCEPT !.docs = keys(c)] = [d EXCEPT !.docs = keys(d)]
    BY DEF SameQuestion
  <2>3. /\ [c EXCEPT !.docs = keys(c)].op = c.op
        /\ [c EXCEPT !.docs = keys(c)].docs = keys(c)
        /\ [c EXCEPT !.docs = keys(c)].predicate = c.predicate
        /\ [c EXCEPT !.docs = keys(c)].tier = c.tier
    BY <2>1
  <2>4. /\ [d EXCEPT !.docs = keys(d)].op = d.op
        /\ [d EXCEPT !.docs = keys(d)].docs = keys(d)
        /\ [d EXCEPT !.docs = keys(d)].predicate = d.predicate
        /\ [d EXCEPT !.docs = keys(d)].tier = d.tier
    BY <2>1
  <2> QED
    BY <2>2, <2>3, <2>4
<1>2. DOMAIN c.docs = DOMAIN d.docs /\ \A i \in DOMAIN c.docs : Key(c.docs[i]) = Key(d.docs[i])
  <2>1. DOMAIN keys(c) = DOMAIN keys(d) /\ \A i \in DOMAIN c.docs : keys(c)[i] = keys(d)[i]
    BY <1>1
  <2> QED
    BY <2>1
<1>3. (Identified(c) <=> Identified(d)) /\ (Refused(c) <=> Refused(d))
  <2>1. \A i \in DOMAIN c.docs : HasId(c.docs[i]) <=> HasId(d.docs[i])
    BY <1>2, KeyDetermines DEF HasId
  <2> QED
    BY <1>1, <1>2, <2>1 DEF Identified, Refused
<1>4. CoinOf(c) = CoinOf(d) /\ \A unit, truth : Says(c, unit, truth) = Says(d, unit, truth)
  <2>1. Kind(c) = Kind(d) /\ CoinOf(c) = CoinOf(d)
    BY <1>1 DEF CoinOf, CoinKey, Kind
  <2> QED
    BY <1>1, <2>1 DEF Says
<1>5. Reads(c) = Reads(d)
  BY DEF SameQuestion
<1>6. CASE c.op \in {"judge_pair", "oracle_pair"} /\ IsComparison(c.predicate)
  <2>1. \A i \in DOMAIN c.docs : StarsOf(c.docs[i]) = StarsOf(d.docs[i])
    <3>1. /\ Reads(c) = [i \in DOMAIN c.docs |-> StarsOf(c.docs[i])]
          /\ Reads(d) = [i \in DOMAIN d.docs |-> StarsOf(d.docs[i])]
      BY <1>1, <1>6 DEF Reads
    <3> QED
      BY <1>2, <1>5, <3>1
  <2>2. 1 \in DOMAIN c.docs /\ 2 \in DOMAIN c.docs
    BY <1>6 DEF Explained, WellFormed
  <2>3. Truth(c) = Truth(d)
    <3>1. Beats(c.docs[1], c.docs[2], CanonicalAspect(c.predicate))
            = Beats(d.docs[1], d.docs[2], CanonicalAspect(c.predicate))
      BY <1>2, <2>1, <2>2, SameBeats
    <3> QED
      BY <1>1, <1>6, <3>1 DEF Truth, PairTruth
  <2> QED
    BY <1>1, <1>3, <1>4, <1>6, <2>3 DEF Explained, Judged, OracleSays, Judgements, OracleOps
<1>7. CASE c.op \in {"judge_pair", "oracle_pair"} /\ ~IsComparison(c.predicate)
  <2>1. \A i \in DOMAIN c.docs : ProductId(c.docs[i]) = ProductId(d.docs[i])
    <3>1. /\ Reads(c) = [i \in DOMAIN c.docs |-> ProductId(c.docs[i])]
          /\ Reads(d) = [i \in DOMAIN d.docs |-> ProductId(d.docs[i])]
      BY <1>1, <1>7 DEF Reads
    <3> QED
      BY <1>2, <1>5, <3>1
  <2>2. 1 \in DOMAIN c.docs /\ 2 \in DOMAIN c.docs
    BY <1>7 DEF Explained, WellFormed
  <2>3. Truth(c) = Truth(d)
    <3>1. TruthPair(c.docs[1], c.docs[2], CanonicalAspect(c.predicate))
            = TruthPair(d.docs[1], d.docs[2], CanonicalAspect(c.predicate))
      BY <1>2, <2>1, <2>2, SameTruthPair
    <3> QED
      BY <1>1, <1>7, <3>1 DEF Truth, PairTruth
  <2> QED
    BY <1>1, <1>3, <1>4, <1>7, <2>3 DEF Explained, Judged, OracleSays, Judgements, OracleOps
<1>8. CASE c.op \in {"judge_filter", "score_proxy", "oracle_filter"}
  <2>1. 1 \in DOMAIN c.docs
    BY <1>8 DEF Explained, WellFormed
  <2>2. Truth(c) = Truth(d)
    BY <1>1, <1>2, <1>8, <2>1, SameTruthFilter DEF Truth
  <2> QED
    BY <1>1, <1>3, <1>4, <1>8, <2>2 DEF Explained, Judged, OracleSays, Judgements, OracleOps
<1>9. CASE c.op = "oracle_score"
  <2>1. \A i \in DOMAIN c.docs : StarsOf(c.docs[i]) = StarsOf(d.docs[i])
    <3>1. /\ Reads(c) = [i \in DOMAIN c.docs |-> StarsOf(c.docs[i])]
          /\ Reads(d) = [i \in DOMAIN d.docs |-> StarsOf(d.docs[i])]
      BY <1>1, <1>9 DEF Reads
    <3> QED
      BY <1>2, <1>5, <3>1
  <2>2. 1 \in DOMAIN c.docs
    BY <1>9 DEF Explained, WellFormed
  <2>3. Score(c) = Score(d)
    BY <1>1, <1>2, <2>1, <2>2, SameTruthScore DEF Score
  <2> QED
    BY <1>1, <1>3, <1>9, <2>3 DEF Explained, OracleSays, OracleOps
<1>10. CASE c.op = "reset"
  BY <1>1, <1>10 DEF Explained
<1> QED
  BY <1>6, <1>7, <1>8, <1>9, <1>10 DEF Explained, WellFormed, Judgements, OracleOps
-----------------------------------------------------------------------------
(* No coin is lost or turned.                                                 *)
Grown == \A key \in DOMAIN coins : key \in DOMAIN coins' /\ coins'[key] = coins[key]

(* The step appends a call with an explained answer.                          *)
Asked(call, answer) ==
  /\ calls' = Append(calls, [call |-> call, answer |-> answer])
  /\ Explained(call, answer)'

(* A coin that has been drawn is not drawn again, and the one that was asked  *)
(* for is there.                                                              *)
LEMMA TossGrows ==
  ASSUME NEW key, NEW unit, Toss(key, unit)
  PROVE  Grown /\ key \in DOMAIN coins' /\ coins'[key] = unit
<1>1. coins' = [k \in {key} \union DOMAIN coins |-> IF k = key THEN unit ELSE coins[k]]
  BY DEF Toss
<1>2. key \in DOMAIN coins => unit = coins[key]
  BY DEF Toss
<1> QED
  BY <1>1, <1>2 DEF Grown

(* Gold is a function of the draws.                                           *)
LEMMA SameTruths ==
  ASSUME UNCHANGED <<gold, hash, base, twins>>
  PROVE  /\ \A c : Truth(c)' = Truth(c)
         /\ \A c : Score(c)' = Score(c)
<1>1. ASSUME NEW kind, NEW id, NEW a
      PROVE  GroundTruth(kind, id, a)' = GroundTruth(kind, id, a)
  BY DEF GroundTruth
<1>2. ASSUME NEW kind, NEW id
      PROVE  Fragments(kind, id)' = Fragments(kind, id) /\ Complaints(kind, id)' = Complaints(kind, id)
  <2>1. Complaints(kind, id)' = Complaints(kind, id)
    BY <1>1 DEF Complaints
  <2> QED
    BY <2>1 DEF Fragments
<1>3. ASSUME NEW d
      PROVE  StarsOf(d)' = StarsOf(d) /\ ProductId(d)' = ProductId(d)
  BY <1>2 DEF StarsOf, Stars, ProductId, ProductOf
<1>4. ASSUME NEW d, NEW p
      PROVE  TruthFilter(d, p)' = TruthFilter(d, p)
  <2>1. CASE d.form = "text"
    BY <1>2, <2>1 DEF TruthFilter
  <2>2. CASE d.form # "text"
    BY <1>1, <2>2 DEF TruthFilter
  <2> QED
    BY <2>1, <2>2
<1>5. ASSUME NEW d, NEW a
      PROVE  TruthScore(d, a)' = TruthScore(d, a)
  BY <1>1, <1>3 DEF TruthScore
<1>6. ASSUME NEW l, NEW r, NEW p
      PROVE  PairTruth(l, r, p)' = PairTruth(l, r, p)
  <2>1. Beats(l, r, CanonicalAspect(p))' = Beats(l, r, CanonicalAspect(p))
    BY <1>5 DEF Beats
  <2>2. TruthPair(l, r, CanonicalAspect(p))' = TruthPair(l, r, CanonicalAspect(p))
    <3>1. CASE l.kind = r.kind
      BY <3>1 DEF TruthPair, Key
    <3>2. CASE l.kind # r.kind
      <4>1. CASE l.kind = "review"
        BY <1>1, <1>3, <3>2, <4>1 DEF TruthPair
      <4>2. CASE l.kind # "review"
        BY <1>1, <1>3, <3>2, <4>2 DEF TruthPair
      <4> QED
        BY <4>1, <4>2
    <3> QED
      BY <3>1, <3>2
  <2> QED
    BY <2>1, <2>2 DEF PairTruth
<1> QED
  BY <1>4, <1>5, <1>6 DEF Truth, Score

(* What explains an answer stays true while coins are only added.             *)
LEMMA StillExplained ==
  ASSUME UNCHANGED <<gold, hash, base, twins>>, Grown,
         NEW call, NEW answer, Explained(call, answer)
  PROVE  Explained(call, answer)'
<1>1. Truth(call)' = Truth(call) /\ Score(call)' = Score(call)
  BY SameTruths
<1>2. WellFormed(call)'
  BY DEF Explained, WellFormed
<1>3. call.op \in Judgements => Judged(call, answer)'
  BY <1>1 DEF Explained, Judged, Grown, CoinOf, Says
<1>4. call.op \in OracleOps => OracleSays(call, answer)'
  BY <1>1 DEF Explained, OracleSays
<1> QED
  BY <1>2, <1>3, <1>4 DEF Explained

(* A judge, or the proxy, answers by gold and the coin it has just used.      *)
LEMMA JudgeIsExplained ==
  ASSUME UNCHANGED <<gold, hash, base, twins>>,
         NEW call, WellFormed(call), call.op \in Judgements, ~Refused(call),
         NEW answer, Judges(call, Kind(call), Truth(call), answer)
  PROVE  Grown /\ Asked(call, answer)
<1>1. PICK unit \in Units :
        /\ Toss(CoinOf(call), unit)
        /\ answer = Says(call, unit, Truth(call))
        /\ Record(call, answer)
  BY DEF Judges, CoinOf, Says
<1>2. Grown /\ CoinOf(call) \in DOMAIN coins' /\ coins'[CoinOf(call)] = unit
  BY <1>1, TossGrows
<1>3. Truth(call)' = Truth(call)
  BY SameTruths
<1>4. Judged(call, answer)'
  BY <1>1, <1>2, <1>3 DEF Judged, CoinOf, Says
<1>5. Explained(call, answer)'
  BY <1>4 DEF Explained, Judgements, OracleOps, WellFormed
<1> QED
  BY <1>1, <1>2, <1>5 DEF Asked, Record

(* A refused call is answered with the error, before any coin.                *)
LEMMA RefusalIsExplained ==
  ASSUME NEW call, WellFormed(call), call.op \in Judgements, Refused(call), Raises(call)
  PROVE  Grown /\ Asked(call, Error)
<1>1. Grown /\ calls' = Append(calls, [call |-> call, answer |-> Error])
  BY DEF Raises, Record, Grown
<1>2. Explained(call, Error)'
  BY DEF Explained, Judged, Judgements, OracleOps, WellFormed
<1> QED
  BY <1>1, <1>2 DEF Asked

(* judge_filter, also when a sem_filter calls it for a row.                   *)
LEMMA FilterIsExplained ==
  ASSUME UNCHANGED <<gold, hash, base, twins>>,
         NEW input, NEW predicate, NEW tier, NEW answer,
         JudgeFilter(input, predicate, tier, answer)
  PROVE  Grown /\ \E c, v : Asked(c, v)
<1> DEFINE call == Call("judge_filter", <<input>>, predicate, tier)
<1>1. /\ WellFormed(call) /\ call.op \in Judgements
      /\ Kind(call) = "filter" /\ Truth(call) = TruthFilter(input, predicate)
  BY DEF Call, WellFormed, Judgements, Kind, Truth
<1>2. CASE Refused(call)
  BY <1>1, <1>2, RefusalIsExplained DEF JudgeFilter
<1>3. CASE ~Refused(call)
  <2>1. Judges(call, Kind(call), Truth(call), answer)
    BY <1>1, <1>3 DEF JudgeFilter
  <2> HIDE DEF call
  <2> QED
    BY <1>1, <1>3, <2>1, JudgeIsExplained
<1> QED
  BY <1>2, <1>3

(* judge_pair, for joins and for comparisons.                                 *)
LEMMA PairIsExplained ==
  ASSUME UNCHANGED <<gold, hash, base, twins>>,
         NEW left, NEW right, NEW predicate, NEW tier,
         AskPair(left, right, predicate, tier)
  PROVE  Grown /\ \E c, v : Asked(c, v)
<1> DEFINE call == Call("judge_pair", <<left, right>>, predicate, tier)
<1>1. /\ WellFormed(call) /\ call.op \in Judgements
      /\ Kind(call) = IF IsComparison(predicate) THEN "compare" ELSE "pair"
      /\ Truth(call) = PairTruth(left, right, predicate)
  BY DEF Call, WellFormed, Judgements, Kind, Truth
<1>2. CASE Refused(call)
  BY <1>1, <1>2, RefusalIsExplained DEF AskPair
<1>3. CASE ~Refused(call)
  <2>1. PICK answer \in YesNo : Judges(call, Kind(call), Truth(call), answer)
    BY <1>1, <1>3 DEF AskPair
  <2> HIDE DEF call
  <2> QED
    BY <1>1, <1>3, <2>1, JudgeIsExplained
<1> QED
  BY <1>2, <1>3

(* The proxy.                                                                 *)
LEMMA ScoreIsExplained ==
  ASSUME UNCHANGED <<gold, hash, base, twins>>,
         NEW input, NEW predicate, ScoreProxy(input, predicate)
  PROVE  Grown /\ \E c, v : Asked(c, v)
<1> DEFINE call == Call("score_proxy", <<input>>, predicate, "proxy")
<1>1. /\ WellFormed(call) /\ call.op \in Judgements
      /\ Kind(call) = "score" /\ Truth(call) = TruthFilter(input, predicate)
  BY DEF Call, WellFormed, Judgements, Kind, Truth
<1>2. CASE Refused(call)
  BY <1>1, <1>2, RefusalIsExplained DEF ScoreProxy
<1>3. CASE ~Refused(call)
  <2>1. PICK answer \in YesNo : Judges(call, Kind(call), Truth(call), answer)
    BY <1>1, <1>3 DEF ScoreProxy
  <2> HIDE DEF call
  <2> QED
    BY <1>1, <1>3, <2>1, JudgeIsExplained
<1> QED
  BY <1>2, <1>3

(* The oracle answers by gold alone, or with the error.                       *)
LEMMA OracleIsExplained ==
  ASSUME UNCHANGED <<gold, hash, base, twins>>,
         NEW op \in OracleOps, NEW docs, NEW predicate, NEW answer,
         Oracle(op, docs, predicate, answer),
         WellFormed(Call(op, docs, predicate, "gold")),
         answer = IF op = "oracle_score" THEN Score(Call(op, docs, predicate, "gold"))
                  ELSE IF Truth(Call(op, docs, predicate, "gold")) THEN Yes ELSE No
  PROVE  Grown /\ \E c, v : Asked(c, v)
<1> DEFINE call == Call(op, docs, predicate, "gold")
           v    == IF Identified(call) THEN answer ELSE Error
<1>1. call.op = op /\ call.docs = docs
  BY DEF Call
<1>2. calls' = Append(calls, [call |-> call, answer |-> v]) /\ UNCHANGED coins
  BY <1>1 DEF Oracle, Record, Identified
<1>3. Truth(call)' = Truth(call) /\ Score(call)' = Score(call)
  BY SameTruths
<1>4. OracleSays(call, v)'
  <2> HIDE DEF call
  <2> QED
    BY <1>1, <1>3 DEF OracleSays, call
<1>5. Explained(call, v)'
  <2> HIDE DEF v
  <2> QED
    BY <1>1, <1>4 DEF Explained, WellFormed, Judgements, OracleOps
<1> QED
  BY <1>2, <1>5 DEF Asked, Grown
-----------------------------------------------------------------------------
(* No step moves what gold is a function of.                                  *)
LEMMA GoldStays ==
  ASSUME [Next]_vars
  PROVE  UNCHANGED <<gold, hash, base, twins>>
<1> USE DEF CanCall, BetweenFilters, corpusVars
<1>1. CASE Generate
  BY <1>1 DEF Generate, GenNext, StartRun, WriteCsv, WriteFails, SanityReport
<1>2. CASE Pipeline
  BY <1>2 DEF Pipeline, AskFilter, AskPair, ScoreProxy, OracleFilter, OraclePair, OracleScore,
              Oracle, Reset, StartFilter
<1>3. CASE \E predicate : SmokeTest(predicate)
  BY <1>3 DEF SmokeTest, StartFilter
<1>4. CASE FilterRow
  BY <1>4 DEF FilterRow
<1>5. CASE FilterDone
  BY <1>5 DEF FilterDone
<1>6. CASE UNCHANGED vars
  BY <1>6 DEF vars
<1> QED
  BY <1>1, <1>2, <1>3, <1>4, <1>5, <1>6 DEF Next

(* Ledger.reset asks nothing.                                                 *)
LEMMA ResetIsExplained ==
  ASSUME Reset
  PROVE  Grown /\ \E c, v : Asked(c, v)
<1> DEFINE call == Call("reset", << >>, [words |-> {}, ranks |-> FALSE], "none")
<1>1. Explained(call, No)'
  BY DEF Explained, WellFormed, Call, Judgements, OracleOps
<1> QED
  BY <1>1 DEF Reset, Record, Asked, Grown

(* The calls of the pipelines, one by one.                                    *)
LEMMA PipelineIsExplained ==
  ASSUME UNCHANGED <<gold, hash, base, twins>>, Pipeline
  PROVE  Grown /\ (UNCHANGED calls \/ \E c, v : Asked(c, v))
<1>1. ASSUME NEW input, NEW predicate, NEW tier, AskFilter(input, predicate, tier)
      PROVE  Grown /\ \E c, v : Asked(c, v)
  BY <1>1, FilterIsExplained DEF AskFilter
<1>2. ASSUME NEW input, NEW predicate, ScoreProxy(input, predicate)
      PROVE  Grown /\ \E c, v : Asked(c, v)
  BY <1>2, ScoreIsExplained
<1>3. ASSUME NEW left, NEW right, NEW predicate, NEW tier, AskPair(left, right, predicate, tier)
      PROVE  Grown /\ \E c, v : Asked(c, v)
  BY <1>3, PairIsExplained
<1>4. ASSUME NEW input, NEW predicate, OracleFilter(input, predicate)
      PROVE  Grown /\ \E c, v : Asked(c, v)
  <2> DEFINE call == Call("oracle_filter", <<input>>, predicate, "gold")
  <2>1. WellFormed(call) /\ Truth(call) = TruthFilter(input, predicate)
    BY DEF WellFormed, Call, Truth, OracleOps, Judgements
  <2> QED
    BY <1>4, <2>1, OracleIsExplained DEF OracleFilter, OracleOps
<1>5. ASSUME NEW left, NEW right, NEW predicate, OraclePair(left, right, predicate)
      PROVE  Grown /\ \E c, v : Asked(c, v)
  <2> DEFINE call == Call("oracle_pair", <<left, right>>, predicate, "gold")
  <2>1. WellFormed(call) /\ Truth(call) = PairTruth(left, right, predicate)
    BY DEF WellFormed, Call, Truth, OracleOps, Judgements
  <2> QED
    BY <1>5, <2>1, OracleIsExplained DEF OraclePair, OracleOps
<1>6. ASSUME NEW row, NEW criterion, OracleScore(row, criterion)
      PROVE  Grown /\ \E c, v : Asked(c, v)
  <2> DEFINE call == Call("oracle_score", <<row>>, criterion, "gold")
  <2>1. WellFormed(call) /\ Score(call) = TruthScore(row, CanonicalAspect(criterion))
    BY DEF WellFormed, Call, Score, OracleOps, Judgements
  <2> QED
    BY <1>6, <2>1, OracleIsExplained DEF OracleScore, OracleOps
<1>7. ASSUME NEW rows, NEW predicate, NEW tier, StartFilter(rows, predicate, tier)
      PROVE  Grown /\ UNCHANGED calls
  BY <1>7 DEF StartFilter, Grown
<1> QED
  BY <1>1, <1>2, <1>3, <1>4, <1>5, <1>6, <1>7, ResetIsExplained DEF Pipeline

(* A step appends one explained call to the history, or none.                 *)
LEMMA StepIsExplained ==
  ASSUME [Next]_vars
  PROVE  Grown /\ (UNCHANGED calls \/ \E c, v : Asked(c, v))
<1>1. UNCHANGED <<gold, hash, base, twins>>
  BY GoldStays
<1>2. CASE Generate
  BY <1>2 DEF Generate, Grown
<1>3. CASE Pipeline
  BY <1>1, <1>3, PipelineIsExplained
<1>4. CASE \E predicate : SmokeTest(predicate)
  BY <1>4 DEF SmokeTest, StartFilter, Grown
<1>5. CASE FilterRow
  BY <1>1, <1>5, FilterIsExplained DEF FilterRow
<1>6. CASE FilterDone
  BY <1>6 DEF FilterDone, Grown
<1>7. CASE UNCHANGED vars
  BY <1>7 DEF vars, Grown
<1> QED
  BY <1>2, <1>3, <1>4, <1>5, <1>6, <1>7 DEF Next

(* A history that grows by one entry keeps the others.                        *)
LEMMA AppendGrows ==
  ASSUME NEW s, s \in Seq(Range(s)), NEW e
  PROVE  /\ Append(s, e) \in Seq(Range(Append(s, e)))
         /\ \A i \in DOMAIN Append(s, e) :
              (i \in DOMAIN s /\ Append(s, e)[i] = s[i]) \/ Append(s, e)[i] = e
<1> DEFINE t == Append(s, e)
           S == Range(s) \union {e}
<1>1. s \in Seq(S) /\ Len(s) \in Nat /\ DOMAIN s = 1 .. Len(s)
  OBVIOUS
<1>2. /\ t \in Seq(S) /\ DOMAIN t = 1 .. Len(s) + 1
      /\ \A i \in 1 .. Len(s) : t[i] = s[i]
      /\ t[Len(s) + 1] = e
  BY <1>1
<1>3. t \in Seq(Range(t))
  <2> HIDE DEF t, S
  <2>1. Len(t) \in Nat /\ t = [i \in 1 .. Len(t) |-> t[i]] /\ DOMAIN t = 1 .. Len(t)
    BY <1>2
  <2>2. \A i \in 1 .. Len(t) : t[i] \in Range(t)
    BY <2>1 DEF Range
  <2> QED
    BY <2>1, <2>2
<1> QED
  BY <1>1, <1>2, <1>3

(* Every step keeps the invariant.                                            *)
LEMMA StepAnswersInv ==
  ASSUME AnswersInv, [Next]_vars
  PROVE  AnswersInv'
<1>1. UNCHANGED <<gold, hash, base, twins>> /\ Grown
  BY GoldStays, StepIsExplained
<1>2. ASSUME NEW i \in DOMAIN calls, NEW call, NEW answer,
             call = calls[i].call, answer = calls[i].answer
      PROVE  Explained(call, answer)'
  BY <1>1, <1>2, StillExplained DEF AnswersInv
<1>3. CASE UNCHANGED calls
  <2>1. ASSUME NEW i \in DOMAIN calls', NEW call, NEW answer,
               call = calls'[i].call, answer = calls'[i].answer
        PROVE  Explained(call, answer)'
    BY <1>2, <1>3, <2>1
  <2> QED
    BY <1>3, <2>1 DEF AnswersInv
<1>4. ASSUME NEW c, NEW v, Asked(c, v)
      PROVE  AnswersInv'
  <2>1. calls' = Append(calls, [call |-> c, answer |-> v])
    BY <1>4 DEF Asked
  <2>2. calls' \in Seq(Range(calls'))
    BY <2>1, AppendGrows DEF AnswersInv
  <2>3. ASSUME NEW i \in DOMAIN calls', NEW call, NEW answer,
               call = calls'[i].call, answer = calls'[i].answer
        PROVE  Explained(call, answer)'
    <3>1. (i \in DOMAIN calls /\ calls'[i] = calls[i]) \/ calls'[i] = [call |-> c, answer |-> v]
      BY <2>1, AppendGrows DEF AnswersInv
    <3>2. CASE i \in DOMAIN calls /\ calls'[i] = calls[i]
      BY <1>2, <2>3, <3>2
    <3>3. CASE calls'[i] = [call |-> c, answer |-> v]
      BY <1>4, <2>3, <3>3 DEF Asked
    <3> QED
      BY <3>1, <3>2, <3>3
  <2> QED
    BY <2>2, <2>3 DEF AnswersInv, Range
<1> QED
  BY <1>3, <1>4, StepIsExplained

(* For every corpus, every predicate and any number of calls: a question that is*)
(* asked again gets the answer it got before, whoever asked what in between   *)
(* (judge_filter, judge_pair, score_proxy, Oracle).                           *)
THEOREM AnswersAlwaysRepeat == Spec => []AnswersRepeat
<1>1. Init => AnswersInv
  BY DEF Init, AnswersInv
<1>2. AnswersInv /\ [Next]_vars => AnswersInv'
  BY StepAnswersInv
<1>3. AnswersInv => AnswersRepeat
  BY SameAnswer DEF AnswersInv, AnswersRepeat
<1> QED
  BY <1>1, <1>2, <1>3, PTL DEF Spec
-----------------------------------------------------------------------------
(* The quality of a filter. A row was kept when gold is not what it errs, so  *)
(* that what grade_filter counts as errors are the rows that err: hashes stay *)
(* what they were when the row was judged.                                    *)

(* Whether a row with this hash is wrongly answered.                          *)
Errs(f, unit, truth) == Flipped(unit, truth, TierOf(f.tier), "filter")

(* The key of row i, gold of it, and whether the filter keeps it.             *)
RowCoin(f, i)  == CoinKey(f.tier, "filter", <<f.rows[i]>>, f.predicate)
RowTruth(f, i) == TruthFilter(f.rows[i], f.predicate)
RowErrs(f, i)  == Errs(f, coins[RowCoin(f, i)], RowTruth(f, i))
Keeps(f, i)    == RowErrs(f, i) # RowTruth(f, i)
KeptIds(f)     == {f.kept[j].id : j \in DOMAIN f.kept}

(* An answer is wrong or it is not.                                           *)
LEMMA ErrsBoolean ==
  ASSUME NEW unit, NEW truth, NEW tier, NEW kind
  PROVE  Flipped(unit, truth, tier, kind) \in BOOLEAN
<1> DEFINE a == unit < tier.error
           b == unit >= 1000 - tier.error
           c == 20 * unit < Share(truth, tier.name, kind) * tier.error
<1>1. a \in BOOLEAN /\ b \in BOOLEAN /\ c \in BOOLEAN
  OBVIOUS
<1>2. Flipped(unit, truth, tier, kind) = IF kind = "score" THEN IF truth THEN a ELSE b ELSE c
  BY DEF Flipped
<1> HIDE DEF a, b, c
<1> QED
  BY <1>1, <1>2

(* A list of rows of one table.                                               *)
OneTable(rows) ==
  /\ Len(rows) \in Nat /\ DOMAIN rows = 1 .. Len(rows)
  /\ \A i, j \in DOMAIN rows : rows[i].id = rows[j].id => Key(rows[i]) = Key(rows[j])

Judging(f) ==
  [running |-> TRUE, rows |-> f.rows, predicate |-> f.predicate, tier |-> f.tier,
   at |-> f.at, kept |-> f.kept, mark |-> f.mark]

(* Hashes of the rows before n are there.                                     *)
CoinsThere(f, n) == \A i \in 1 .. n : RowCoin(f, i) \in DOMAIN coins

(* What was kept of the rows judged so far.                                   *)
WellJudged(f) ==
  /\ f = Judging(f)
  /\ OneTable(f.rows)
  /\ f.at \in 1 .. Len(f.rows) + 1
  /\ f.kept \in Seq(Range(f.rows))
  /\ CoinsThere(f, f.at - 1)
  /\ KeptIds(f) = {f.rows[i].id : i \in {k \in 1 .. f.at - 1 : Keeps(f, k)}}

FilterInv == filter.running => WellJudged(filter)

ReportInv ==
  report.ready =>
    /\ OneTable(report.rows) /\ CoinsThere(report, Len(report.rows))
    /\ QualityCountsErrors

(* Lines of reviews.csv can be numbered.                                      *)
LinesInv ==
  LET lines == disk["reviews"].rows IN Len(lines) \in Nat /\ DOMAIN lines = 1 .. Len(lines)

QualityInv == CorpusInv /\ LinesInv /\ FilterInv /\ ReportInv

(* The key decides the coin and gold.                                         *)
LEMMA SameRow ==
  ASSUME NEW f, NEW i, NEW k, Key(f.rows[i]) = Key(f.rows[k])
  PROVE  RowCoin(f, i) = RowCoin(f, k) /\ RowTruth(f, i) = RowTruth(f, k)
<1>1. \A r, s : Key(r) = Key(s) =>
        [j \in DOMAIN <<r>> |-> Key(<<r>>[j])] = [j \in DOMAIN <<s>> |-> Key(<<s>>[j])]
  OBVIOUS
<1> QED
  BY <1>1, SameTruthFilter DEF RowCoin, RowTruth, CoinKey

(* Gold is TRUE or FALSE,                                                     *)
LEMMA TruthBoolean == ASSUME NEW d, NEW p PROVE TruthFilter(d, p) \in BOOLEAN
<1> DEFINE says == \E f \in Fragments(d.kind, d.id) : f[2] = CanonicalAspect(p) /\ f[3] = "signal"
<1>1. TruthFilter(d, p) = IF d.form = "text" THEN says ELSE GroundTruth(d.kind, d.id, CanonicalAspect(p))
  BY DEF TruthFilter
<1>2. says \in BOOLEAN /\ GroundTruth(d.kind, d.id, CanonicalAspect(p)) \in BOOLEAN
  BY DEF GroundTruth
<1> HIDE DEF says
<1> QED
  BY <1>1, <1>2

(* and stays what it is.                                                      *)
LEMMA TruthStays ==
  ASSUME UNCHANGED <<gold, hash, base, twins>>, NEW d, NEW p
  PROVE  TruthFilter(d, p)' = TruthFilter(d, p)
<1> DEFINE c == Call("judge_filter", <<d>>, p, "none")
<1>1. Truth(c) = TruthFilter(d, p) /\ Truth(c)' = TruthFilter(d, p)'
  BY DEF Truth, Call
<1> QED
  BY <1>1, SameTruths

(* While coins are only added, rows that were judged stay judged alike.       *)
LEMMA JudgedStay ==
  ASSUME UNCHANGED <<gold, hash, base, twins>>, Grown, NEW f, NEW n \in Nat, CoinsThere(f, n)
  PROVE  /\ CoinsThere(f, n)'
         /\ \A i \in 1 .. n : RowErrs(f, i)' = RowErrs(f, i) /\ Keeps(f, i)' = Keeps(f, i)
         /\ \A i : RowTruth(f, i)' = RowTruth(f, i)
<1>1. \A i \in 1 .. n : /\ RowCoin(f, i) \in DOMAIN coins'
                       /\ coins'[RowCoin(f, i)] = coins[RowCoin(f, i)]
  BY DEF CoinsThere, Grown
<1>2. \A i : RowTruth(f, i)' = RowTruth(f, i)
  BY TruthStays DEF RowTruth
<1>3. \A i : RowCoin(f, i)' = RowCoin(f, i)
  BY DEF RowCoin, CoinKey, TierOf
<1>4. ASSUME NEW i \in 1 .. n PROVE RowErrs(f, i)' = RowErrs(f, i)
  BY <1>1, <1>2, <1>3 DEF RowErrs, Errs
<1> QED
  BY <1>1, <1>2, <1>3, <1>4 DEF CoinsThere, Keeps
-----------------------------------------------------------------------------
(* A filter starts on rows of one table, with no row judged.                  *)
LEMMA StartJudges ==
  ASSUME NEW rows, OneTable(rows), NEW predicate, NEW tier, StartFilter(rows, predicate, tier)
  PROVE  FilterInv' /\ ReportInv'
<1>1. /\ filter' = [running |-> TRUE, rows |-> rows, predicate |-> predicate, tier |-> tier,
                    at |-> 1, kept |-> << >>, mark |-> Len(ledger)]
      /\ report' = NoReport
  BY DEF StartFilter
<1>2. ReportInv'
  BY <1>1 DEF ReportInv, NoReport
<1>3. ASSUME NEW f, f = filter' PROVE WellJudged(f)'
  <2>1. f.rows = rows /\ f.at = 1 /\ f.kept = << >> /\ f = Judging(f)
    BY <1>1, <1>3 DEF Judging
  <2>2. << >> \in Seq(Range(rows)) /\ 1 \in 1 .. Len(rows) + 1
    BY DEF OneTable
  <2>3. /\ KeptIds(f) = {}
        /\ {f.rows[i].id : i \in {k \in 1 .. f.at - 1 : Keeps(f, k)'}} = {}
    BY <2>1 DEF KeptIds
  <2>4. CoinsThere(f, f.at - 1)'
    BY <2>1 DEF CoinsThere
  <2>5. OneTable(f.rows)
    BY <2>1
  <2> QED
    BY <2>1, <2>2, <2>3, <2>4, <2>5 DEF WellJudged, KeptIds
<1> QED
  BY <1>2, <1>3 DEF FilterInv

(* Rows that callers choose are of one table,                                 *)
LEMMA ChosenRows ==
  ASSUME NEW rows \in SeqOf(FilterRows, MaxRows) \ {<< >>}
  PROVE  OneTable(rows) /\ Len(rows) > 0
<1>1. PICK m \in 0 .. MaxRows : rows \in [1 .. m -> FilterRows]
  BY DEF SeqOf
<1>2. m \in Nat /\ rows \in Seq(FilterRows)
  BY <1>1, FilterAssumption
<1>3. \A i, j \in DOMAIN rows : rows[i].id = rows[j].id => Key(rows[i]) = Key(rows[j])
  BY <1>1, FilterAssumption
<1>4. Len(rows) > 0
  BY <1>1, <1>2
<1> QED
  BY <1>2, <1>3, <1>4 DEF OneTable

(* and so are those of a file, torn or not.                                   *)
LEMMA LoadedRows ==
  ASSUME LinesInv, NEW m \in Nat
  PROVE  LET rows == LoadCsv("reviews", "review")
         IN  Len(rows) \in Nat /\ (m <= Len(rows) => OneTable(SubSeq(rows, 1, m)))
<1> DEFINE lines == disk["reviews"].rows
           whole == [i \in DOMAIN lines |-> Doc("review", lines[i].id)]
           last  == Cut(Doc("review", Len(lines) + 1))
           cut   == IF disk["reviews"].cut THEN <<last>> ELSE << >>
           rows  == LoadCsv("reviews", "review")
           D     == Range(whole) \union {last}
<1>1. rows = whole \o cut
  BY DEF LoadCsv
<1>2. ASSUME NEW d \in D
      PROVE  d.kind = "review" /\ d.form # "text"
  <2>1. d = last \/ \E i \in DOMAIN lines : d = Doc("review", lines[i].id)
    BY DEF Range
  <2>2. ASSUME NEW id PROVE /\ Doc("review", id).kind = "review" /\ Doc("review", id).form # "text"
                            /\ Cut(Doc("review", id)).kind = "review"
                            /\ Cut(Doc("review", id)).form # "text"
    BY DEF Doc, Cut
  <2> QED
    BY <2>1, <2>2
<1>3. whole \in Seq(D)
  BY DEF LinesInv, Range
<1>4. cut \in Seq(D)
  <2>1. last \in D
    OBVIOUS
  <2> HIDE DEF last, D
  <2>2. <<last>> \in Seq(D) /\ << >> \in Seq(D)
    BY <2>1
  <2> QED
    BY <2>2
<1> HIDE DEF D, whole, cut, rows
<1>5. rows \in Seq(D)
  BY <1>1, <1>3, <1>4
<1>6. ASSUME m <= Len(rows) PROVE OneTable(SubSeq(rows, 1, m))
  <2> DEFINE part == SubSeq(rows, 1, m)
  <2>1. part \in Seq(D) /\ Len(part) \in Nat /\ DOMAIN part = 1 .. Len(part)
    BY <1>5, <1>6
  <2> HIDE DEF part
  <2>2. ASSUME NEW i \in DOMAIN part, NEW j \in DOMAIN part, part[i].id = part[j].id
        PROVE  Key(part[i]) = Key(part[j])
    <3>1. part[i] \in D /\ part[j] \in D
      BY <2>1
    <3> QED
      BY <1>2, <2>2, <3>1 DEF Key
  <2> QED
    BY <2>1, <2>2 DEF OneTable, part
<1> QED
  BY <1>5, <1>6 DEF rows

(* The smoke test takes the first of them.                                    *)
LEMMA SmokeStarts ==
  ASSUME LinesInv, NEW predicate, SmokeTest(predicate)
  PROVE  \E rows : OneTable(rows) /\ StartFilter(rows, predicate, "frontier")
<1> DEFINE rows == LoadCsv("reviews", "review")
           m    == Min({SmokeRows, Len(rows)})
<1>1. StartFilter(SubSeq(rows, 1, m), predicate, "frontier")
  BY DEF SmokeTest
<1>2. Len(rows) \in Nat
  BY LoadedRows
<1>3. m \in Nat /\ m <= Len(rows)
  <2> HIDE DEF rows
  <2>1. \E x \in {SmokeRows, Len(rows)} : \A y \in {SmokeRows, Len(rows)} : x <= y
    BY <1>2, FilterAssumption
  <2> QED
    BY <1>2, <2>1, FilterAssumption DEF Min
<1>4. OneTable(SubSeq(rows, 1, m))
  BY <1>3, LoadedRows
<1> HIDE DEF rows, m
<1> QED
  BY <1>1, <1>4

-----------------------------------------------------------------------------
(* A row is judged: its hash is there afterwards, and it is kept unless gold  *)
(* is what the hash says is wrong.                                            *)
LEMMA RowIsJudged ==
  ASSUME UNCHANGED <<gold, hash, base, twins>>, NEW row, NEW predicate, NEW tier, NEW answer,
         JudgeFilter(row, predicate, tier, answer), answer # Error
  PROVE  LET coin == CoinKey(tier, "filter", <<row>>, predicate)
             truth == TruthFilter(row, predicate)
         IN  /\ Grown /\ coin \in DOMAIN coins'
             /\ (answer = Yes) <=> (Flipped(coins'[coin], truth, TierOf(tier), "filter") # truth)
<1> DEFINE call  == Call("judge_filter", <<row>>, predicate, tier)
           coin  == CoinKey(tier, "filter", <<row>>, predicate)
           truth == TruthFilter(row, predicate)
<1>1. call.tier = tier /\ call.docs = <<row>> /\ call.predicate = predicate
  BY DEF Call
<1>2. Judges(call, "filter", truth, answer)
  BY DEF JudgeFilter
<1>3. PICK unit \in Units :
        /\ Toss(coin, unit)
        /\ answer = (IF Flipped(unit, truth, TierOf(tier), "filter") = truth THEN No ELSE Yes)
  BY <1>1, <1>2 DEF Judges
<1>4. Grown /\ coin \in DOMAIN coins' /\ coins'[coin] = unit
  BY <1>3, TossGrows
<1>5. (answer = Yes) <=> (Flipped(unit, truth, TierOf(tier), "filter") # truth)
  BY <1>3 DEF Yes, No
<1> QED
  BY <1>4, <1>5

(* A row more is an id more.                                                  *)
LEMMA AppendIds ==
  ASSUME NEW S, NEW s \in Seq(S), NEW e \in S
  PROVE  /\ Append(s, e) \in Seq(S)
         /\ {Append(s, e)[j].id : j \in DOMAIN Append(s, e)} = {s[j].id : j \in DOMAIN s} \union {e.id}
<1> DEFINE t == Append(s, e)
           n == Len(s)
<1>1. /\ t \in Seq(S) /\ n \in Nat /\ DOMAIN s = 1 .. n /\ DOMAIN t = 1 .. n + 1
      /\ \A j \in 1 .. n : t[j] = s[j]
      /\ t[n + 1] = e
  OBVIOUS
<1> HIDE DEF t
<1>2. {t[j].id : j \in DOMAIN t} = {t[j].id : j \in 1 .. n} \union {t[n + 1].id}
  <2>1. 1 .. n + 1 = (1 .. n) \union {n + 1}
    BY <1>1
  <2> QED
    BY <1>1, <2>1
<1>3. {t[j].id : j \in 1 .. n} = {s[j].id : j \in 1 .. n}
  BY <1>1
<1> QED
  BY <1>1, <1>2, <1>3 DEF t

(* The filter that goes on to the next row.                                   *)
GoesOn(f, at, kept) == [f EXCEPT !.at = at, !.kept = kept]

(* What does not change with the row.                                         *)
GoesTo(f, g, at, kept) ==
  /\ g.rows = f.rows /\ g.predicate = f.predicate /\ g.tier = f.tier
  /\ g.at = at /\ g.kept = kept /\ g = Judging(g)

(* It differs in its place and in what it has kept.                           *)
LEMMA NextRow ==
  ASSUME NEW f, f = Judging(f), NEW at, NEW kept
  PROVE  GoesTo(f, GoesOn(f, at, kept), at, kept)
<1> DEFINE g == GoesOn(f, at, kept)
           r == [running |-> TRUE, rows |-> f.rows, predicate |-> f.predicate, tier |-> f.tier,
                 at |-> f.at, kept |-> f.kept, mark |-> f.mark]
<1>1. f = r
  BY DEF Judging
<1>2. g = [r EXCEPT !.at = at, !.kept = kept]
  BY <1>1 DEF GoesOn
<1>3. g = [running |-> TRUE, rows |-> f.rows, predicate |-> f.predicate, tier |-> f.tier,
           at |-> at, kept |-> kept, mark |-> f.mark]
  BY <1>2
<1> QED
  BY <1>3 DEF Judging, GoesTo

(* One row of a filter.                                                       *)
LEMMA RowIsWellJudged ==
  ASSUME UNCHANGED <<gold, hash, base, twins>>, NEW f, WellJudged(f), f.at <= Len(f.rows),
         NEW row, row = f.rows[f.at],
         NEW answer, JudgeFilter(row, f.predicate, f.tier, answer), answer # Error,
         NEW g, g = [f EXCEPT !.at = @ + 1,
                              !.kept = IF answer = Yes THEN Append(@, row) ELSE @]
  PROVE  WellJudged(g)'
<1> DEFINE kept == IF answer = Yes THEN Append(f.kept, row) ELSE f.kept
           new  == IF answer = Yes THEN {row.id} ELSE {}
<1>1. PICK n : n = f.at
  OBVIOUS
<1>2. /\ f = Judging(f) /\ OneTable(f.rows) /\ f.kept \in Seq(Range(f.rows))
      /\ CoinsThere(f, n - 1)
      /\ KeptIds(f) = {f.rows[i].id : i \in {k \in 1 .. n - 1 : Keeps(f, k)}}
  BY <1>1 DEF WellJudged
<1>3. /\ n \in Nat \ {0} /\ n - 1 \in Nat /\ n \in DOMAIN f.rows
      /\ Len(f.rows) \in Nat /\ DOMAIN f.rows = 1 .. Len(f.rows)
      /\ n + 1 \in 1 .. Len(f.rows) + 1 /\ (n + 1) - 1 = n
      /\ \A i \in 1 .. n : i = n \/ i \in 1 .. n - 1
      /\ \A i \in 1 .. n - 1 : i \in 1 .. n /\ i # n
  BY <1>1 DEF WellJudged, OneTable
<1>4. /\ g.rows = f.rows /\ g.predicate = f.predicate /\ g.tier = f.tier
      /\ g.at = n + 1 /\ g.kept = kept /\ g = Judging(g)
  <2>1. g = GoesOn(f, f.at + 1, kept)
    BY DEF GoesOn
  <2> HIDE DEF kept
  <2>2. GoesTo(f, GoesOn(f, f.at + 1, kept), f.at + 1, kept)
    BY <1>2, NextRow
  <2> QED
    BY <1>1, <2>1, <2>2 DEF GoesTo
<1>5. /\ Grown /\ RowCoin(f, n) \in DOMAIN coins'
      /\ (answer = Yes) <=> (Errs(f, coins'[RowCoin(f, n)], RowTruth(f, n)) # RowTruth(f, n))
  BY <1>1, RowIsJudged DEF RowCoin, RowTruth, Errs
<1>6. /\ CoinsThere(f, n - 1)'
      /\ \A i \in 1 .. n - 1 : Keeps(f, i)' = Keeps(f, i)
      /\ \A i : RowTruth(f, i)' = RowTruth(f, i)
  BY <1>2, <1>3, <1>5, JudgedStay
<1>7. \A i : /\ RowCoin(g, i)' = RowCoin(f, i) /\ RowCoin(f, i)' = RowCoin(f, i)
            /\ RowTruth(g, i)' = RowTruth(f, i)' /\ RowErrs(g, i)' = RowErrs(f, i)'
            /\ Keeps(g, i)' = Keeps(f, i)'
  <2>1. \A i : RowCoin(g, i)' = RowCoin(f, i) /\ RowCoin(f, i)' = RowCoin(f, i)
    BY <1>4 DEF RowCoin, CoinKey, TierOf
  <2>2. \A i : RowTruth(g, i)' = RowTruth(f, i)'
    BY <1>4 DEF RowTruth
  <2>3. \A i : RowErrs(g, i)' = RowErrs(f, i)'
    BY <1>4, <2>1, <2>2 DEF RowErrs, Errs
  <2> QED
    BY <2>1, <2>2, <2>3 DEF Keeps
<1>8. \A k \in 1 .. n - 1 : Keeps(g, k)' <=> Keeps(f, k)
  BY <1>6, <1>7
<1>9. Keeps(g, n)' <=> answer = Yes
  <2>1. RowErrs(f, n)' = Errs(f, coins'[RowCoin(f, n)], RowTruth(f, n))
    BY <1>6, <1>7 DEF RowErrs, Errs
  <2> QED
    BY <1>5, <1>6, <1>7, <2>1 DEF Keeps
<1>10. CoinsThere(g, n)'
  <2>1. \A i \in 1 .. n : RowCoin(g, i)' \in DOMAIN coins'
    BY <1>3, <1>5, <1>6, <1>7 DEF CoinsThere
  <2> QED
    BY <2>1 DEF CoinsThere
<1>11. kept \in Seq(Range(f.rows)) /\ {kept[j].id : j \in DOMAIN kept} = KeptIds(f) \union new
  <2>1. row \in Range(f.rows)
    BY <1>1, <1>3 DEF Range
  <2>2. CASE answer = Yes
    <3>1. kept = Append(f.kept, row) /\ new = {row.id}
      BY <2>2
    <3> HIDE DEF kept, new
    <3> QED
      BY <1>2, <2>1, <3>1, AppendIds DEF KeptIds
  <2>3. CASE answer # Yes
    BY <1>2, <2>3 DEF KeptIds
  <2> QED
    BY <2>2, <2>3
<1>12. {f.rows[i].id : i \in {k \in 1 .. n : Keeps(g, k)'}} = KeptIds(f) \union new
  <2>1. CASE answer = Yes
    <3>1. {k \in 1 .. n : Keeps(g, k)'} = {k \in 1 .. n - 1 : Keeps(f, k)} \union {n}
      BY <1>3, <1>8, <1>9, <2>1
    <3> QED
      BY <1>1, <1>2, <2>1, <3>1
  <2>2. CASE answer # Yes
    <3>1. {k \in 1 .. n : Keeps(g, k)'} = {k \in 1 .. n - 1 : Keeps(f, k)}
      BY <1>3, <1>8, <1>9, <2>2
    <3> QED
      BY <1>2, <2>2, <3>1
  <2> QED
    BY <2>1, <2>2
<1> HIDE DEF kept, new
<1>13. KeptIds(g) = {g.rows[i].id : i \in {k \in 1 .. g.at - 1 : Keeps(g, k)'}}
  <2>1. KeptIds(g) = {kept[j].id : j \in DOMAIN kept}
    BY <1>4 DEF KeptIds
  <2>2. g.rows = f.rows /\ g.at - 1 = n
    BY <1>3, <1>4
  <2>3. {g.rows[i].id : i \in {k \in 1 .. g.at - 1 : Keeps(g, k)'}}
          = {f.rows[i].id : i \in {k \in 1 .. n : Keeps(g, k)'}}
    BY <2>2
  <2> QED
    BY <1>11, <1>12, <2>1, <2>3
<1>14. CoinsThere(g, g.at - 1)'
  BY <1>3, <1>4, <1>10
<1> QED
  BY <1>2, <1>3, <1>4, <1>11, <1>13, <1>14 DEF WellJudged, KeptIds

(* A row that is judged or refused leaves what is known of the filter true.   *)
LEMMA RowKeepsFilter ==
  ASSUME FilterInv, FilterRow, UNCHANGED <<gold, hash, base, twins>>
  PROVE  FilterInv'
<1>1. PICK answer \in YesNo \union {Error} :
        /\ JudgeFilter(filter.rows[filter.at], filter.predicate, filter.tier, answer)
        /\ filter' = IF answer = Error THEN Idle
                     ELSE [filter EXCEPT !.at = @ + 1,
                                         !.kept = IF answer = Yes
                                                  THEN Append(@, filter.rows[filter.at]) ELSE @]
  BY DEF FilterRow
<1>2. CASE answer = Error
  BY <1>1, <1>2 DEF FilterInv, Idle
<1>3. CASE answer # Error
  <2>1. WellJudged(filter) /\ filter.at <= Len(filter.rows)
    BY DEF FilterInv, FilterRow
  <2>2. ASSUME NEW g, g = filter' PROVE WellJudged(g)'
    BY <1>1, <1>3, <2>1, <2>2, RowIsWellJudged
  <2> QED
    BY <2>2 DEF FilterInv
<1> QED
  BY <1>2, <1>3

-----------------------------------------------------------------------------
(* Rows with the id of a row that was kept were kept themselves.              *)
LEMMA KeptById ==
  ASSUME NEW f, WellJudged(f), f.at > Len(f.rows), NEW i \in DOMAIN f.rows
  PROVE  f.rows[i].id \in KeptIds(f) <=> Keeps(f, i)
<1>1. /\ Len(f.rows) \in Nat /\ DOMAIN f.rows = 1 .. Len(f.rows) /\ f.at - 1 = Len(f.rows)
      /\ OneTable(f.rows)
      /\ KeptIds(f) = {f.rows[j].id : j \in {k \in DOMAIN f.rows : Keeps(f, k)}}
  BY DEF WellJudged, OneTable
<1>2. ASSUME NEW k \in DOMAIN f.rows, Keeps(f, k), f.rows[i].id = f.rows[k].id
      PROVE  Keeps(f, i)
  <2>1. Key(f.rows[i]) = Key(f.rows[k])
    BY <1>1, <1>2 DEF OneTable
  <2> QED
    BY <1>2, <2>1, SameRow DEF Keeps, RowErrs
<1> QED
  BY <1>1, <1>2

(* What grade_filter counts as errors are the rows that err.                  *)
LEMMA ErrorsAreFlips ==
  ASSUME NEW f, WellJudged(f), f.at > Len(f.rows)
  PROVE  LET q == GradeFilter(f.rows, f.predicate, KeptIds(f))
         IN  q.fp + q.fn = Cardinality({i \in DOMAIN f.rows : RowErrs(f, i)})
<1> DEFINE q      == GradeFilter(f.rows, f.predicate, KeptIds(f))
           wrong  == {i \in DOMAIN f.rows : f.rows[i].id \in KeptIds(f) /\ ~RowTruth(f, i)}
           missed == {i \in DOMAIN f.rows : f.rows[i].id \notin KeptIds(f) /\ RowTruth(f, i)}
           flips  == {i \in DOMAIN f.rows : RowErrs(f, i)}
<1>1. q.fp = Cardinality(wrong) /\ q.fn = Cardinality(missed)
  BY DEF GradeFilter, RowTruth
<1>2. Len(f.rows) \in Nat /\ DOMAIN f.rows = 1 .. Len(f.rows)
  BY DEF WellJudged, OneTable
<1>3. \A i \in DOMAIN f.rows : RowErrs(f, i) \in BOOLEAN /\ RowTruth(f, i) \in BOOLEAN
  BY ErrsBoolean, TruthBoolean DEF RowErrs, Errs, RowTruth
<1>4. \A i \in DOMAIN f.rows : f.rows[i].id \in KeptIds(f) <=> RowErrs(f, i) # RowTruth(f, i)
  BY KeptById DEF Keeps
<1>5. wrong \union missed = flips /\ wrong \intersect missed = {}
  BY <1>3, <1>4
<1>6. IsFiniteSet(wrong) /\ IsFiniteSet(missed)
  <2>1. IsFiniteSet(DOMAIN f.rows)
    <3>1. IsFiniteSet(1 .. Len(f.rows))
      BY <1>2, 1 \in Int, Len(f.rows) \in Int, FS_Interval
    <3> QED
      BY <1>2, <3>1
  <2> QED
    BY <2>1, FS_Subset
<1> HIDE DEF q, wrong, missed, flips
<1>7. /\ Cardinality(wrong) \in Nat /\ Cardinality(missed) \in Nat
      /\ Cardinality(wrong \intersect missed) = 0
      /\ Cardinality(flips) = Cardinality(wrong) + Cardinality(missed)
                              - Cardinality(wrong \intersect missed)
  BY <1>5, <1>6, FS_Union, FS_EmptySet, FS_CardinalityType
<1> QED
  BY <1>1, <1>7 DEF q, flips

(* The report of a filter that is done.                                       *)
LEMMA DoneReports ==
  ASSUME FilterInv, FilterDone
  PROVE  FilterInv' /\ ReportInv'
<1>1. WellJudged(filter) /\ filter.at > Len(filter.rows)
  BY DEF FilterInv, FilterDone
<1>2. filter' = Idle /\ coins' = coins
  BY DEF FilterDone
<1>3. /\ report'.rows = filter.rows /\ report'.predicate = filter.predicate
      /\ report'.tier = filter.tier
      /\ report'.quality = GradeFilter(filter.rows, filter.predicate, KeptIds(filter))
  BY DEF FilterDone, KeptIds
<1>4. /\ OneTable(filter.rows) /\ filter.at - 1 = Len(filter.rows)
      /\ CoinsThere(filter, Len(filter.rows))
  BY <1>1 DEF WellJudged, OneTable
<1>5. \A i : RowTruth(report, i)' = RowTruth(filter, i)
  BY <1>2, <1>3, TruthStays DEF RowTruth, FilterDone, corpusVars
<1>6. OneTable(report.rows)' /\ CoinsThere(report, Len(report.rows))'
  BY <1>2, <1>3, <1>4 DEF OneTable, CoinsThere, RowCoin, CoinKey, TierOf
<1>7. QualityCountsErrors'
  <2>1. report'.quality.fp + report'.quality.fn
          = Cardinality({i \in DOMAIN filter.rows : RowErrs(filter, i)})
    BY <1>1, <1>3, ErrorsAreFlips
  <2>2. \A i : RowErrs(report, i)' = RowErrs(filter, i)
    BY <1>2, <1>3, <1>5 DEF RowErrs, Errs, RowCoin, CoinKey, TierOf
  <2>3. {i \in DOMAIN report'.rows : RowErrs(report, i)'}
          = {i \in DOMAIN filter.rows : RowErrs(filter, i)}
    BY <1>3, <2>2
  <2> QED
    BY <2>1, <2>3 DEF QualityCountsErrors, RowErrs, Errs, RowCoin, RowTruth
<1> QED
  BY <1>2, <1>6, <1>7 DEF FilterInv, ReportInv, Idle

(* A report that a step leaves alone stays true.                              *)
LEMMA ReportStays ==
  ASSUME Grown, ReportInv, UNCHANGED <<gold, hash, base, twins, report>>
  PROVE  ReportInv'
<1> SUFFICES ASSUME report.ready PROVE ReportInv'
  BY DEF ReportInv
<1>1. ASSUME NEW f, f = report
      PROVE  /\ OneTable(f.rows)' /\ CoinsThere(f, Len(f.rows))'
             /\ \A i \in DOMAIN f.rows : RowErrs(f, i)' = RowErrs(f, i)
  <2>1. OneTable(f.rows) /\ CoinsThere(f, Len(f.rows))
    BY <1>1 DEF ReportInv
  <2>2. Len(f.rows) \in Nat /\ DOMAIN f.rows = 1 .. Len(f.rows)
    BY <2>1 DEF OneTable
  <2> QED
    BY <2>1, <2>2, JudgedStay DEF OneTable
<1>2. OneTable(report.rows)' /\ CoinsThere(report, Len(report.rows))'
  BY <1>1 DEF CoinsThere, RowCoin, CoinKey, TierOf
<1>3. \A i \in DOMAIN report.rows : RowErrs(report, i)' = RowErrs(report, i)
  BY <1>1 DEF RowErrs, Errs, RowCoin, RowTruth, CoinKey, TierOf
<1>4. QualityCountsErrors'
  <2>1. {i \in DOMAIN report.rows : RowErrs(report, i)'}
          = {i \in DOMAIN report.rows : RowErrs(report, i)}
    BY <1>3
  <2>2. report.quality.fp + report.quality.fn
          = Cardinality({i \in DOMAIN report.rows : RowErrs(report, i)})
    BY DEF ReportInv, QualityCountsErrors, RowErrs, Errs, RowCoin, RowTruth
  <2> QED
    BY <2>1, <2>2 DEF QualityCountsErrors, RowErrs, Errs, RowCoin, RowTruth
<1> QED
  BY <1>2, <1>4 DEF ReportInv

(* So does what a running filter has kept.                                    *)
LEMMA FilterStays ==
  ASSUME Grown, FilterInv, UNCHANGED <<gold, hash, base, twins, filter>>
  PROVE  FilterInv'
<1>1. ASSUME NEW f, WellJudged(f)
      PROVE  WellJudged(f)'
  <2>1. /\ f.at - 1 \in Nat /\ CoinsThere(f, f.at - 1)
    BY <1>1 DEF WellJudged, OneTable
  <2>2. /\ CoinsThere(f, f.at - 1)'
        /\ \A k \in 1 .. f.at - 1 : Keeps(f, k)' = Keeps(f, k)
    BY <2>1, JudgedStay
  <2>3. {k \in 1 .. f.at - 1 : Keeps(f, k)'} = {k \in 1 .. f.at - 1 : Keeps(f, k)}
    BY <2>2
  <2> QED
    BY <1>1, <2>2, <2>3 DEF WellJudged, KeptIds
<1>2. ASSUME NEW f, f = filter, filter.running PROVE WellJudged(f)'
  BY <1>1, <1>2 DEF FilterInv
<1> QED
  BY <1>2 DEF FilterInv

-----------------------------------------------------------------------------
(* A file that a run wrote or tore holds a list of lines.                     *)
LEMMA LinesStay ==
  ASSUME CorpusInv, LinesInv, [Next]_vars
  PROVE  LinesInv'
<1>1. ASSUME NEW S, NEW s \in Seq(S) PROVE Len(s) \in Nat /\ DOMAIN s = 1 .. Len(s)
  BY <1>1
<1>2. "reviews" \in Range(Files) /\ "reviews" \in DOMAIN disk
  BY FileNames DEF CorpusInv
<1>3. CASE WriteCsv
  <2>1. Files[gen] \in Range(Files)
    BY <1>3 DEF WriteCsv, Range
  <2>2. \/ disk'["reviews"] = disk["reviews"]
        \/ disk'["reviews"] = Whole(Tables["reviews"])
    BY <1>2, <1>3, <2>1 DEF WriteCsv, Written
  <2>3. Tables["reviews"] \in Seq(Range(Tables["reviews"]))
    BY <1>2, TablesAreSequences
  <2>4. Len(Tables["reviews"]) \in Nat /\ DOMAIN Tables["reviews"] = 1 .. Len(Tables["reviews"])
    BY <1>1, <2>3
  <2>5. Whole(Tables["reviews"]).rows = Tables["reviews"]
    BY DEF Whole
  <2> QED
    BY <2>2, <2>4, <2>5 DEF LinesInv
<1>4. CASE WriteFails
  <2>1. Files[gen] \in Range(Files)
    BY <1>4 DEF WriteFails, Range
  <2>2. \/ disk'["reviews"] = disk["reviews"]
        \/ \E torn \in Torn(Tables["reviews"]) : disk'["reviews"] = torn
    BY <1>2, <1>4, <2>1 DEF WriteFails, Written
  <2>3. ASSUME NEW torn \in Torn(Tables["reviews"])
        PROVE  Len(torn.rows) \in Nat /\ DOMAIN torn.rows = 1 .. Len(torn.rows)
    <3>1. Tables["reviews"] \in Seq(Range(Tables["reviews"]))
      BY <1>2, TablesAreSequences
    <3>2. PICK n \in 0 .. Len(Tables["reviews"]) - 1 :
            torn.rows = SubSeq(Tables["reviews"], 1, n)
      BY DEF Torn
    <3>3. SubSeq(Tables["reviews"], 1, n) \in Seq(Range(Tables["reviews"]))
      BY <3>1
    <3> QED
      BY <1>1, <3>2, <3>3
  <2> QED
    BY <2>2, <2>3 DEF LinesInv
<1>5. CASE StartRun \/ SanityReport \/ UNCHANGED corpusVars
  BY <1>5 DEF StartRun, SanityReport, corpusVars, LinesInv
<1> QED
  BY <1>3, <1>4, <1>5, StepsOfCorpus

(* No filter runs at the start, and a file, if there, is a list of lines.     *)
LEMMA InitQuality == ASSUME Init PROVE QualityInv
<1>1. CorpusInv
  BY InitCorpusInv
<1>2. LinesInv
  <2>1. "reviews" \in Range(Files)
    BY FileNames
  <2>2. disk["reviews"].rows \in {<< >>, Tables["reviews"]}
    BY <2>1 DEF Init, CorpusInit, Absent, Whole
  <2>3. Tables["reviews"] \in Seq(Range(Tables["reviews"]))
    BY <2>1, TablesAreSequences
  <2>4. ASSUME NEW S, NEW s \in Seq(S) PROVE Len(s) \in Nat /\ DOMAIN s = 1 .. Len(s)
    BY <2>4
  <2>5. << >> \in Seq({})
    OBVIOUS
  <2> QED
    BY <2>2, <2>3, <2>4, <2>5 DEF LinesInv
<1> QED
  BY <1>1, <1>2 DEF Init, QualityInv, FilterInv, ReportInv, Idle, NoReport

(* Calls of the pipelines leave filter and report alone, or start a filter.   *)
LEMMA PipelineStarts ==
  ASSUME Pipeline
  PROVE  \/ UNCHANGED <<filter, report>>
         \/ \E rows, predicate, tier :
              OneTable(rows) /\ Len(rows) > 0 /\ StartFilter(rows, predicate, tier)
<1>1. ASSUME NEW rows \in SeqOf(FilterRows, MaxRows) \ {<< >>}, NEW predicate, NEW tier,
             StartFilter(rows, predicate, tier)
      PROVE  \E r, p, t : OneTable(r) /\ Len(r) > 0 /\ StartFilter(r, p, t)
  BY <1>1, ChosenRows
<1>2. ASSUME NEW x, NEW p, NEW t, AskFilter(x, p, t) PROVE UNCHANGED <<filter, report>>
  BY <1>2 DEF AskFilter, BetweenFilters
<1>3. ASSUME NEW x, NEW p, ScoreProxy(x, p) PROVE UNCHANGED <<filter, report>>
  BY <1>3 DEF ScoreProxy, BetweenFilters
<1>4. ASSUME NEW x, NEW p, OracleFilter(x, p) \/ OracleScore(x, p)
      PROVE  UNCHANGED <<filter, report>>
  BY <1>4 DEF OracleFilter, OracleScore, Oracle, BetweenFilters
<1>5. ASSUME NEW x, NEW y, NEW p, OraclePair(x, y, p) PROVE UNCHANGED <<filter, report>>
  BY <1>5 DEF OraclePair, Oracle, BetweenFilters
<1>6. ASSUME NEW x, NEW y, NEW p, NEW t, AskPair(x, y, p, t) PROVE UNCHANGED <<filter, report>>
  BY <1>6 DEF AskPair, BetweenFilters
<1>7. CASE Reset
  BY <1>7 DEF Reset, BetweenFilters
<1> QED
  BY <1>1, <1>2, <1>3, <1>4, <1>5, <1>6, <1>7 DEF Pipeline

(* Every step keeps what is known of the running filter and of the report.    *)
LEMMA StepQuality ==
  ASSUME QualityInv, [Next]_vars
  PROVE  QualityInv'
<1>1. UNCHANGED <<gold, hash, base, twins>> /\ Grown
  BY GoldStays, StepIsExplained
<1>2. CorpusInv' /\ LinesInv'
  BY StepCorpusInv, LinesStay DEF QualityInv
<1>3. UNCHANGED <<filter, report>> => FilterInv' /\ ReportInv'
  BY <1>1, FilterStays, ReportStays DEF QualityInv
<1>4. CASE Generate \/ UNCHANGED vars
  <2>1. UNCHANGED <<filter, report>>
    BY <1>4 DEF Generate, vars
  <2> QED
    BY <1>2, <1>3, <2>1 DEF QualityInv
<1>5. CASE Pipeline
  BY <1>2, <1>3, <1>5, PipelineStarts, StartJudges DEF QualityInv
<1>6. CASE \E predicate : SmokeTest(predicate)
  BY <1>2, <1>6, SmokeStarts, StartJudges DEF QualityInv
<1>7. CASE FilterRow
  <2>1. FilterInv'
    BY <1>1, <1>7, RowKeepsFilter DEF QualityInv
  <2>2. ReportInv'
    BY <1>1, <1>7, ReportStays DEF FilterRow, QualityInv
  <2> QED
    BY <1>2, <2>1, <2>2 DEF QualityInv
<1>8. CASE FilterDone
  BY <1>2, <1>8, DoneReports DEF QualityInv
<1> QED
  BY <1>4, <1>5, <1>6, <1>7, <1>8 DEF Next

(* For rows of one table, however many, also rows that repeat, the smoke test *)
(* on a torn file, and whatever was asked before: the false positives and     *)
(* negatives of a report are the rows whose hash is below the rate of errors  *)
(* of their truth (sem_filter, grade_filter, _flip).                          *)
THEOREM QualityAlwaysCountsErrors == Spec => []QualityCountsErrors
<1>1. Init => QualityInv
  BY InitQuality
<1>2. QualityInv /\ [Next]_vars => QualityInv'
  BY StepQuality
<1>3. QualityInv => QualityCountsErrors
  BY DEF QualityInv, ReportInv, QualityCountsErrors
<1> QED
  BY <1>1, <1>2, <1>3, PTL DEF Spec
-----------------------------------------------------------------------------
(* Gold orders the rows.                                                      *)

(* Scores of rows of the corpus, also of rows that lost their columns: gold   *)
(* counts 100, what else there is at most 60.                                 *)
ScoresInv == CorpusInv /\ base \in Bases

LEMMA StarsInRange ==
  ASSUME CorpusInv, NEW r \in Reviews
  PROVE  Stars(r) \in 1 .. 5
<1>1. hash.stars[r] \in Nat
  BY CorpusAssumption DEF CorpusInv, Draws
<1> DEFINE k == 1 + (hash.stars[r] % 5)
<1>2. k \in 1 .. 5
  BY <1>1, RemainderInRange
<1>3. Stars(r) = (IF Complaints("review", r) # {} THEN <<1, 1, 2, 2, 3>> ELSE <<3, 4, 4, 5, 5>>)[k]
  BY DEF Stars
<1> HIDE DEF k
<1>4. CASE Complaints("review", r) # {}
  <2>1. Stars(r) = <<1, 1, 2, 2, 3>>[k]
    BY <1>3, <1>4
  <2> QED
    BY <1>2, <2>1
<1>5. CASE Complaints("review", r) = {}
  <2>1. Stars(r) = <<3, 4, 4, 5, 5>>[k]
    BY <1>3, <1>5
  <2> QED
    BY <1>2, <2>1
<1> QED
  BY <1>4, <1>5

LEMMA ScoreOfGold ==
  ASSUME ScoresInv, NEW d \in Docs \union {Cut(e) : e \in Docs}, NEW a
  PROVE  /\ TruthScore(d, a) \in Nat
         /\ GroundTruth(d.kind, d.id, a) => TruthScore(d, a) >= 100
         /\ ~GroundTruth(d.kind, d.id, a) => TruthScore(d, a) <= 60
<1>1. base[Key(d)] \in 0 .. 44 /\ StarsOf(d) \in 1 .. 5
  <2>1. PICK e \in Docs : d = e \/ d = Cut(e)
    OBVIOUS
  <2>2. \/ \E r \in Reviews : e = Doc("review", r)
        \/ \E p \in Products : e = Doc("product", p)
    BY <2>1 DEF Docs, ReviewDocs, ProductDocs
  <2>3. Key(d) = Key(e)
    BY <2>1, <2>2 DEF Key, Doc, Cut
  <2>4. base[Key(d)] \in 0 .. 44
    BY <2>3, ScoresAssumption DEF ScoresInv
  <2>5. StarsOf(d) \in 1 .. 5
    BY <2>1, <2>2, StarsInRange DEF StarsOf, Doc, Cut, ScoresInv
  <2> QED
    BY <2>4, <2>5
<1> QED
  BY <1>1 DEF TruthScore

(* Keys of rows of the corpus are in a strict total order.                    *)
LEMMA KeysInOrder ==
  ASSUME NEW d \in Docs, NEW e \in Docs
  PROVE  /\ ~KeyAbove(d, d)
         /\ d # e => (KeyAbove(d, e) <=> ~KeyAbove(e, d))
         /\ \A f \in Docs : KeyAbove(d, e) /\ KeyAbove(e, f) => KeyAbove(d, f)
<1>1. ASSUME NEW x \in Docs
      PROVE  /\ x = Doc(x.kind, x.id) /\ x.kind \in {"review", "product"}
             /\ x.id \in Reviews \union Products /\ IdRank[x.id] \in Nat
  <2>1. \/ \E r \in Reviews : x = Doc("review", r)
        \/ \E p \in Products : x = Doc("product", p)
    BY DEF Docs, ReviewDocs, ProductDocs
  <2>2. /\ x = Doc(x.kind, x.id) /\ x.kind \in {"review", "product"}
        /\ x.id \in Reviews \union Products
    BY <2>1 DEF Doc
  <2> QED
    BY <2>2, IdRankAssumption
<1>2. ~KeyAbove(d, d)
  BY <1>1 DEF KeyAbove
<1>3. ASSUME d # e PROVE KeyAbove(d, e) <=> ~KeyAbove(e, d)
  <2>1. d.kind = e.kind => IdRank[d.id] # IdRank[e.id]
    <3>1. d.kind = e.kind => d.id # e.id
      BY <1>1, <1>3
    <3> QED
      BY <1>1, <3>1, IdRankAssumption
  <2> QED
    BY <1>1, <2>1 DEF KeyAbove
<1>4. ASSUME NEW f \in Docs, KeyAbove(d, e), KeyAbove(e, f) PROVE KeyAbove(d, f)
  BY <1>1, <1>4 DEF KeyAbove
<1> QED
  BY <1>2, <1>3, <1>4

(* A row that was re-wrapped has the id it had.                               *)
LEMMA FormsAgree ==
  ASSUME NEW d \in Docs, NEW l \in Forms(d)
  PROVE  /\ l \in Docs \union {Cut(x) : x \in Docs}
         /\ l.kind = d.kind /\ l.id = d.id /\ Key(l) = Key(d)
<1>1. \/ \E r \in Reviews : d = Doc("review", r)
      \/ \E p \in Products : d = Doc("product", p)
  BY DEF Docs, ReviewDocs, ProductDocs
<1>2. l = d \/ l = Cut(d)
  BY DEF Forms
<1> QED
  BY <1>1, <1>2 DEF Key, Doc, Cut

(* A link that was lost is the id of no product.                              *)
LEMMA LostLinks == RewrapAddsNoPairs
<1> SUFFICES ASSUME NEW a \in Aspects, NEW d \in Docs, NEW e \in Docs,
                    NEW l \in Forms(d), NEW r \in Forms(e), TruthPair(l, r, a)
             PROVE  TruthPair(d, e, a)
  BY DEF RewrapAddsNoPairs
<1>1. /\ l.kind = d.kind /\ l.id = d.id /\ Key(l) = Key(d)
      /\ r.kind = e.kind /\ r.id = e.id /\ Key(r) = Key(e)
  BY FormsAgree
<1>2. ASSUME NEW rev \in Docs, NEW x \in Forms(rev), rev.kind = "review",
             NEW p \in Products, ProductId(x) = p
      PROVE  ProductId(rev) = p
  <2>1. x # Cut(rev)
    <3>1. p # 0
      BY CorpusAssumption DEF Products
    <3>2. rev.form = "row" /\ Cut(rev).kind = "review" /\ Cut(rev).form = "cut"
      BY <1>2 DEF Docs, ReviewDocs, ProductDocs, Doc, Cut
    <3> QED
      BY <1>2, <3>1, <3>2 DEF ProductId
  <2> QED
    BY <1>2, <2>1 DEF Forms
<1>3. ASSUME NEW x \in Docs
      PROVE  /\ x.kind \in {"review", "product"}
             /\ x.kind = "product" => x.id \in Products
  BY DEF Docs, ReviewDocs, ProductDocs, Doc
<1>4. CASE d.kind = e.kind
  BY <1>1, <1>4 DEF TruthPair
<1>5. CASE d.kind = "review" /\ e.kind # "review"
  <2>1. ProductId(l) = e.id /\ e.id \in Products
    BY <1>1, <1>3, <1>5 DEF TruthPair
  <2>2. ProductId(d) = e.id
    BY <1>2, <1>5, <2>1
  <2> QED
    BY <1>1, <1>5, <2>2 DEF TruthPair
<1>6. CASE d.kind # "review" /\ e.kind = "review"
  <2>1. ProductId(r) = d.id /\ d.id \in Products
    BY <1>1, <1>3, <1>6 DEF TruthPair
  <2>2. ProductId(e) = d.id
    BY <1>2, <1>6, <2>1
  <2> QED
    BY <1>1, <1>6, <2>2 DEF TruthPair
<1> QED
  BY <1>3, <1>4, <1>5, <1>6

LEMMA GoldOrder == ASSUME ScoresInv PROVE ComparisonsTotal /\ GoldDominates
<1>1. ASSUME NEW a, NEW d \in Docs PROVE TruthScore(d, a) \in Nat
  BY ScoreOfGold
<1>2. ASSUME NEW a \in Aspects, NEW d \in Docs, NEW e \in Docs
      PROVE  /\ ~Beats(d, d, a)
             /\ d # e => Beats(d, e, a) # Beats(e, d, a)
  <2>1. TruthScore(d, a) \in Nat /\ TruthScore(e, a) \in Nat
    BY <1>1
  <2>2. ~Beats(d, d, a)
    BY <2>1, KeysInOrder DEF Beats
  <2>3. d # e => (Beats(d, e, a) <=> ~Beats(e, d, a))
    BY <2>1, KeysInOrder DEF Beats
  <2>4. Beats(d, e, a) \in BOOLEAN /\ Beats(e, d, a) \in BOOLEAN
    BY DEF Beats
  <2> QED
    BY <2>2, <2>3, <2>4
<1>3. ASSUME NEW a \in Aspects, NEW d \in Docs, NEW e \in Docs, NEW f \in Docs,
             Beats(d, e, a), Beats(e, f, a)
      PROVE  Beats(d, f, a)
  <2>1. /\ TruthScore(d, a) \in Nat /\ TruthScore(e, a) \in Nat /\ TruthScore(f, a) \in Nat
        /\ KeyAbove(f, e) /\ KeyAbove(e, d) => KeyAbove(f, d)
    BY <1>1, KeysInOrder
  <2> QED
    BY <1>3, <2>1 DEF Beats
<1>4. ASSUME NEW a \in Aspects, NEW d \in Docs, NEW e \in Docs,
             GroundTruth(d.kind, d.id, a), ~GroundTruth(e.kind, e.id, a),
             NEW l \in Forms(d), NEW r \in Forms(e)
      PROVE  Beats(l, r, a)
  <2>1. /\ l.kind = d.kind /\ l.id = d.id /\ r.kind = e.kind /\ r.id = e.id
        /\ l \in Docs \union {Cut(x) : x \in Docs} /\ r \in Docs \union {Cut(x) : x \in Docs}
    BY FormsAgree
  <2>2. /\ TruthScore(l, a) \in Nat /\ TruthScore(l, a) >= 100
        /\ TruthScore(r, a) \in Nat /\ TruthScore(r, a) <= 60
    BY <1>4, <2>1, ScoreOfGold
  <2> QED
    BY <2>2 DEF Beats
<1> QED
  BY <1>2, <1>3, <1>4 DEF ComparisonsTotal, GoldDominates

(* For every corpus and all scores the hashes can give: gold comparisons are a *)
(* strict total order with the gold rows first (_truth_score, judge_pair), also *)
(* of rows that were re-wrapped; the gold set of a join is that of its pairs   *)
(* one by one (grade_pairs), and rows that lost their link add none to it.     *)
THEOREM GoldAlwaysSound == Spec => []GoldSound
<1>1. Init => ScoresInv
  BY InitCorpusInv DEF Init, ScoresInv
<1>2. ScoresInv /\ [Next]_vars => ScoresInv'
  BY StepCorpusInv, GoldStays DEF ScoresInv
<1>3. ScoresInv => GoldSound
  BY GoldOrder, GoldJoinsExact, LostLinks DEF GoldSound
<1> QED
  BY <1>1, <1>2, <1>3, PTL DEF Spec
-----------------------------------------------------------------------------
(* The ledger.  Every step adds a call and its entry, a call that was refused *)
(* and no entry, a reset, or nothing at all.                                  *)

(* Entries there can be: the gold tier is the oracle's.                       *)
Entries ==
  {e \in [op : Judgements \union OracleOps, tier : TierNames, usd : Nat] :
     e.tier = "gold" <=> e.op \in OracleOps}

EntryOf(call) == Entry(call.op, call.tier)

(* A tier that is accepted is one, and not the oracle's.                      *)
LEMMA KnownTier ==
  ASSUME NEW tier \in KnownTiers
  PROVE  /\ TierOf(tier).name \in TierNames /\ TierOf(tier).name # "gold"
         /\ TierOf(tier).usd \in Nat
<1>1. TierOf(tier).name \in TierNames
  BY DEF TierNames
<1>2. CASE tier \in DOMAIN TIERS
  <2>1. tier = "proxy" \/ tier = "cheap" \/ tier = "frontier"
    BY <1>2 DEF TIERS
  <2>2. TierOf(tier) = TIERS[tier]
    BY <1>2 DEF TierOf
  <2>3. TIERS[tier].name # "gold" /\ TIERS[tier].usd \in Nat
    BY <2>1 DEF TIERS
  <2> QED
    BY <1>1, <2>2, <2>3
<1>3. CASE tier \notin DOMAIN TIERS
  <2>1. tier \in DOMAIN Instances
    BY <1>3 DEF KnownTiers
  <2>2. TierOf(tier) = Instances[tier]
    BY <1>3, <2>1, TiersAssumption DEF TierOf
  <2>3. Instances[tier].name # "gold" /\ Instances[tier].usd \in Nat
    BY <2>1, TiersAssumption
  <2> QED
    BY <1>1, <2>2, <2>3
<1> QED
  BY <1>2, <1>3

(* What a call with this answer does to the ledger.                           *)
Accounts(call, answer) ==
  /\ calls' = Append(calls, [call |-> call, answer |-> answer])
  /\ answer \in Nat \union {Error}
  /\ \/ /\ ledger' = Append(ledger, EntryOf(call)) /\ EntryOf(call) \in Entries
        /\ answer # Error \/ call.op \in OracleOps
        /\ call.op # "reset"
     \/ ledger' = ledger /\ answer = Error /\ call.op \in Judgements
     \/ ledger' = << >> /\ call.op = "reset"

CoinsTyped == coins \in [DOMAIN coins -> Units]

LEMMA JudgeAccounts ==
  ASSUME CoinsTyped, NEW call, call.op \in Judgements, ~Refused(call),
         NEW kind, NEW truth, NEW answer, Judges(call, kind, truth, answer)
  PROVE  Accounts(call, answer) /\ CoinsTyped' /\ call.tier \in KnownTiers
         /\ ledger' = Append(ledger, EntryOf(call))
<1>1. PICK unit \in Units :
        /\ Toss(CoinKey(call.tier, kind, call.docs, call.predicate), unit)
        /\ Bill(call.op, call.tier)
        /\ answer = (IF Flipped(unit, truth, TierOf(call.tier), kind) = truth THEN No ELSE Yes)
        /\ Record(call, answer)
  BY DEF Judges
<1>2. CoinsTyped'
  <2> DEFINE key == CoinKey(call.tier, kind, call.docs, call.predicate)
  <2>1. coins' = [k \in {key} \union DOMAIN coins |-> IF k = key THEN unit ELSE coins[k]]
    BY <1>1 DEF Toss
  <2> HIDE DEF key
  <2> QED
    BY <2>1 DEF CoinsTyped
<1>3. call.tier \in KnownTiers
  BY DEF Refused
<1>4. EntryOf(call) \in Entries
  <2>1. call.op \notin OracleOps
    BY DEF Judgements, OracleOps
  <2> QED
    BY <1>3, <2>1, KnownTier DEF Entries, EntryOf, Entry
<1>5. answer \in Nat /\ answer # Error
  BY <1>1 DEF Yes, No, Error
<1> QED
  BY <1>1, <1>2, <1>3, <1>4, <1>5 DEF Accounts, Bill, Record, EntryOf, Judgements

LEMMA RefusalAccounts ==
  ASSUME CoinsTyped, NEW call, call.op \in Judgements, Raises(call)
  PROVE  Accounts(call, Error) /\ CoinsTyped'
  BY DEF Raises, Record, Accounts, CoinsTyped

(* judge_filter, also when a sem_filter calls it for a row.                   *)
LEMMA FilterAccounts ==
  ASSUME CoinsTyped, NEW input, NEW predicate, NEW tier, NEW answer,
         JudgeFilter(input, predicate, tier, answer)
  PROVE  /\ Accounts(Call("judge_filter", <<input>>, predicate, tier), answer) /\ CoinsTyped'
         /\ answer # Error =>
              /\ tier \in KnownTiers
              /\ ledger' = Append(ledger, Entry("judge_filter", tier))
<1> DEFINE call == Call("judge_filter", <<input>>, predicate, tier)
<1>1. /\ call.op \in Judgements /\ call.tier = tier
      /\ EntryOf(call) = Entry("judge_filter", tier)
  BY DEF Call, Judgements, EntryOf
<1>2. ASSUME Refused(call)
      PROVE  answer = Error /\ Accounts(call, answer) /\ CoinsTyped'
  <2>1. answer = Error /\ Raises(call)
    BY <1>2 DEF JudgeFilter
  <2> HIDE DEF call
  <2> QED
    BY <1>1, <2>1, RefusalAccounts
<1>3. ASSUME ~Refused(call)
      PROVE  /\ Accounts(call, answer) /\ CoinsTyped'
             /\ tier \in KnownTiers /\ ledger' = Append(ledger, EntryOf(call))
  <2>1. Judges(call, "filter", TruthFilter(input, predicate), answer)
    BY <1>3 DEF JudgeFilter
  <2> HIDE DEF call
  <2> QED
    BY <1>1, <1>3, <2>1, JudgeAccounts
<1> HIDE DEF call
<1>4. /\ Accounts(call, answer) /\ CoinsTyped'
      /\ answer # Error =>
           /\ tier \in KnownTiers
           /\ ledger' = Append(ledger, Entry("judge_filter", tier))
  BY <1>1, <1>2, <1>3
<1> QED
  BY <1>4 DEF call

LEMMA PairAccounts ==
  ASSUME CoinsTyped, NEW left, NEW right, NEW predicate, NEW tier,
         AskPair(left, right, predicate, tier)
  PROVE  CoinsTyped' /\ \E c, v : Accounts(c, v)
<1> DEFINE call == Call("judge_pair", <<left, right>>, predicate, tier)
<1>1. call.op \in Judgements
  BY DEF Call, Judgements
<1>2. CASE Refused(call)
  BY <1>1, <1>2, RefusalAccounts DEF AskPair
<1>3. CASE ~Refused(call)
  <2>1. PICK answer, kind, truth : Judges(call, kind, truth, answer)
    BY <1>3 DEF AskPair
  <2> HIDE DEF call
  <2> QED
    BY <1>1, <1>3, <2>1, JudgeAccounts
<1> QED
  BY <1>2, <1>3

LEMMA ProxyAccounts ==
  ASSUME CoinsTyped, NEW input, NEW predicate, ScoreProxy(input, predicate)
  PROVE  CoinsTyped' /\ \E c, v : Accounts(c, v)
<1> DEFINE call == Call("score_proxy", <<input>>, predicate, "proxy")
<1>1. call.op \in Judgements
  BY DEF Call, Judgements
<1>2. CASE Refused(call)
  BY <1>1, <1>2, RefusalAccounts DEF ScoreProxy
<1>3. CASE ~Refused(call)
  <2>1. PICK answer, kind, truth : Judges(call, kind, truth, answer)
    BY <1>3 DEF ScoreProxy
  <2> HIDE DEF call
  <2> QED
    BY <1>1, <1>3, <2>1, JudgeAccounts
<1> QED
  BY <1>2, <1>3

(* The oracle is billed whether or not it then raises.                        *)
LEMMA OracleAccounts ==
  ASSUME CoinsTyped, NEW op \in OracleOps, NEW docs, NEW predicate, NEW answer,
         (\A i \in DOMAIN docs : HasId(docs[i])) => answer \in Nat,
         Oracle(op, docs, predicate, answer)
  PROVE  CoinsTyped' /\ \E c, v : Accounts(c, v)
<1> DEFINE call == Call(op, docs, predicate, "gold")
           v    == IF \A i \in DOMAIN docs : HasId(docs[i]) THEN answer ELSE Error
<1>1. /\ calls' = Append(calls, [call |-> call, answer |-> v]) /\ UNCHANGED coins
      /\ ledger' = Append(ledger, Entry(op, "gold"))
  BY DEF Oracle, Record, Bill
<1>2. call.op = op /\ call.tier = "gold"
  BY DEF Call
<1>3. EntryOf(call) = Entry(op, "gold") /\ EntryOf(call) \in Entries
  <2>1. TierOf("gold") = GoldTier /\ GoldTier.name \in TierNames
    BY DEF TierOf, TIERS, TierNames
  <2>2. GoldTier.name = "gold" /\ GoldTier.usd \in Nat
    BY DEF GoldTier
  <2>3. EntryOf(call) = Entry(op, "gold")
    BY <1>2 DEF EntryOf
  <2> QED
    BY <2>1, <2>2, <2>3 DEF Entry, Entries
<1>4. v \in Nat \union {Error}
  OBVIOUS
<1>5. op # "reset"
  BY DEF OracleOps
<1> HIDE DEF call, v
<1>6. Accounts(call, v)
  BY <1>1, <1>2, <1>3, <1>4, <1>5 DEF Accounts
<1> QED
  BY <1>1, <1>6 DEF CoinsTyped

(* The calls of the pipelines, one by one.                                    *)
LEMMA PipelineAccounts ==
  ASSUME ScoresInv, CoinsTyped, Pipeline, CanCall
  PROVE  \/ /\ CoinsTyped' /\ UNCHANGED <<filter, report, runs>>
            /\ \E c, v : Accounts(c, v)
         \/ \E rows, predicate, tier :
              OneTable(rows) /\ Len(rows) > 0 /\ StartFilter(rows, predicate, tier)
<1> DEFINE Good == CoinsTyped' /\ UNCHANGED <<filter, report, runs>> /\ \E c, v : Accounts(c, v)
           Starts == \E r, p, t : OneTable(r) /\ Len(r) > 0 /\ StartFilter(r, p, t)
<1>1. ASSUME NEW input, NEW predicate, NEW tier, AskFilter(input, predicate, tier)
      PROVE  Good
  BY <1>1, FilterAccounts DEF AskFilter, BetweenFilters, corpusVars
<1>2. ASSUME NEW input, NEW predicate, ScoreProxy(input, predicate)
      PROVE  Good
  BY <1>2, ProxyAccounts DEF ScoreProxy, BetweenFilters, corpusVars
<1>3. ASSUME NEW left, NEW right, NEW predicate, NEW tier, AskPair(left, right, predicate, tier)
      PROVE  Good
  BY <1>3, PairAccounts DEF AskPair, BetweenFilters, corpusVars
<1>4. ASSUME NEW input, NEW predicate, OracleFilter(input, predicate)
      PROVE  Good
  <2>1. CoinsTyped' /\ \E c, v : Accounts(c, v)
    <3> DEFINE answer == IF TruthFilter(input, predicate) THEN Yes ELSE No
    <3>1. Oracle("oracle_filter", <<input>>, predicate, answer)
      BY <1>4 DEF OracleFilter
    <3>2. answer \in Nat
      BY DEF Yes, No
    <3> HIDE DEF answer
    <3> QED
      BY <3>1, <3>2, OracleAccounts DEF OracleOps
  <2> QED
    BY <1>4, <2>1 DEF OracleFilter, Oracle, BetweenFilters, corpusVars
<1>5. ASSUME NEW left, NEW right, NEW predicate, OraclePair(left, right, predicate)
      PROVE  Good
  <2>1. CoinsTyped' /\ \E c, v : Accounts(c, v)
    <3> DEFINE answer == IF PairTruth(left, right, predicate) THEN Yes ELSE No
    <3>1. Oracle("oracle_pair", <<left, right>>, predicate, answer)
      BY <1>5 DEF OraclePair
    <3>2. answer \in Nat
      BY DEF Yes, No
    <3> HIDE DEF answer
    <3> QED
      BY <3>1, <3>2, OracleAccounts DEF OracleOps
  <2> QED
    BY <1>5, <2>1 DEF OraclePair, Oracle, BetweenFilters, corpusVars
<1>6. ASSUME NEW row \in FilterRows, NEW criterion, OracleScore(row, criterion)
      PROVE  Good
  <2>1. CoinsTyped' /\ \E c, v : Accounts(c, v)
    <3> DEFINE answer == TruthScore(row, CanonicalAspect(criterion))
    <3>1. Oracle("oracle_score", <<row>>, criterion, answer)
      BY <1>6 DEF OracleScore
    <3>2. ASSUME \A i \in DOMAIN <<row>> : HasId(<<row>>[i])
          PROVE  answer \in Nat
      <4>1. HasId(row)
        BY <3>2
      <4>2. row \in Docs \union {Cut(e) : e \in Docs}
        BY <4>1, ScoresAssumption DEF HasId, NoIdRow
      <4> QED
        BY <4>2, ScoreOfGold
    <3> HIDE DEF answer
    <3> QED
      BY <3>1, <3>2, OracleAccounts DEF OracleOps
  <2> QED
    BY <1>6, <2>1 DEF OracleScore, Oracle, BetweenFilters, corpusVars
<1>7. ASSUME Reset PROVE Good
  <2> DEFINE call == Call("reset", << >>, [words |-> {}, ranks |-> FALSE], "none")
  <2>1. call.op = "reset" /\ No \in Nat
    BY DEF Call, No
  <2>2. calls' = Append(calls, [call |-> call, answer |-> No]) /\ ledger' = << >>
    BY <1>7 DEF Reset, Record
  <2> HIDE DEF call
  <2>3. Accounts(call, No)
    BY <2>1, <2>2 DEF Accounts
  <2> QED
    BY <1>7, <2>3 DEF Reset, CoinsTyped, BetweenFilters, corpusVars
<1>8. ASSUME NEW rows \in SeqOf(FilterRows, MaxRows) \ {<< >>}, NEW predicate, NEW tier,
             StartFilter(rows, predicate, tier)
      PROVE  Starts
  BY <1>8, ChosenRows
<1> HIDE DEF Good, Starts
<1>9. Good \/ Starts
  BY <1>1, <1>2, <1>3, <1>4, <1>5, <1>6, <1>7, <1>8 DEF Pipeline
<1> QED
  BY <1>9 DEF Good, Starts
-----------------------------------------------------------------------------
(* A longer history: what is appended, and that nothing else moves.           *)
LEMMA HistoryGrows ==
  ASSUME NEW s, s \in Seq(Range(s)), NEW e
  PROVE  /\ Len(s) \in Nat /\ DOMAIN s = 1 .. Len(s)
         /\ Append(s, e) \in Seq(Range(Append(s, e)))
         /\ Len(Append(s, e)) = Len(s) + 1 /\ DOMAIN Append(s, e) = 1 .. Len(s) + 1
         /\ \A i \in 1 .. Len(s) : Append(s, e)[i] = s[i]
         /\ Append(s, e)[Len(s) + 1] = e
<1> DEFINE S == Range(s) \union {e}
<1>1. s \in Seq(S) /\ Len(s) \in Nat /\ DOMAIN s = 1 .. Len(s) /\ e \in S
  OBVIOUS
<1> HIDE DEF S
<1>2. /\ Len(Append(s, e)) = Len(s) + 1 /\ DOMAIN Append(s, e) = 1 .. Len(s) + 1
      /\ \A i \in 1 .. Len(s) : Append(s, e)[i] = s[i]
      /\ Append(s, e)[Len(s) + 1] = e
  BY <1>1
<1>3. Append(s, e) \in Seq(Range(Append(s, e)))
  BY AppendGrows
<1> QED
  BY <1>1, <1>2, <1>3

(* Calls that are billed are finitely many, and the place of one among them   *)
(* is an entry of the ledger.                                                 *)
LEMMA BilledFacts ==
  ASSUME calls \in Seq(Range(calls))
  PROVE  /\ IsFiniteSet(Billed) /\ Billed \subseteq 1 .. Len(calls) /\ Cardinality(Billed) \in Nat
         /\ \A i \in Billed :
              Cardinality({j \in Billed : j <= i}) \in 1 .. Cardinality(Billed)
<1>1. Len(calls) \in Nat /\ Billed \subseteq 1 .. Len(calls)
  BY HistoryGrows DEF Billed
<1>2. IsFiniteSet(Billed) /\ Cardinality(Billed) \in Nat
  <2>1. IsFiniteSet(1 .. Len(calls))
    BY <1>1, FS_Interval
  <2> QED
    BY <1>1, <2>1, FS_Subset, FS_CardinalityType
<1>3. ASSUME NEW i \in Billed
      PROVE  Cardinality({j \in Billed : j <= i}) \in 1 .. Cardinality(Billed)
  <2> DEFINE upto == {j \in Billed : j <= i}
  <2>1. IsFiniteSet(upto) /\ Cardinality(upto) <= Cardinality(Billed)
    BY <1>2, FS_Subset
  <2>2. i \in upto
    BY <1>1
  <2>3. Cardinality(upto) \in Nat /\ Cardinality(upto) # 0
    BY <2>1, <2>2, FS_CardinalityType, FS_EmptySet
  <2> QED
    BY <1>2, <2>1, <2>3
<1> QED
  BY <1>1, <1>2, <1>3

(* The history and the ledger after a step that adds a call.                  *)
LEMMA LedgerStaysComplete ==
  ASSUME calls \in Seq(Range(calls)), ledger \in Seq(Entries), LedgerIsComplete,
         NEW c, NEW v, Accounts(c, v)
  PROVE  ledger' \in Seq(Entries) /\ LedgerIsComplete'
<1> DEFINE n == Len(calls)
<1>1. /\ n \in Nat /\ DOMAIN calls = 1 .. n /\ Len(calls') = n + 1 /\ DOMAIN calls' = 1 .. n + 1
      /\ \A i \in 1 .. n : calls'[i] = calls[i]
      /\ calls'[n + 1].call = c /\ calls'[n + 1].answer = v
  BY HistoryGrows DEF Accounts
<1>2. /\ IsFiniteSet(Billed) /\ Billed \subseteq 1 .. n /\ Cardinality(Billed) = Len(ledger)
      /\ Len(ledger) \in Nat
      /\ \A i \in Billed : Cardinality({j \in Billed : j <= i}) \in 1 .. Len(ledger)
      /\ \A i \in Billed : ledger[Cardinality({j \in Billed : j <= i})] = EntryOf(calls[i].call)
  BY BilledFacts DEF LedgerIsComplete, EntryOf
<1>3. Billed' = {i \in 1 .. n + 1 : /\ calls'[i].answer # Error \/ calls'[i].call.op \in OracleOps
                                    /\ \A j \in i .. n + 1 : calls'[j].call.op # "reset"}
  BY <1>1 DEF Billed
<1>4. Billed = {i \in 1 .. n : /\ calls[i].answer # Error \/ calls[i].call.op \in OracleOps
                               /\ \A j \in i .. n : calls[j].call.op # "reset"}
  BY <1>1 DEF Billed
<1>5. c.op # "reset" =>
        Billed' = Billed \union (IF v # Error \/ c.op \in OracleOps THEN {n + 1} ELSE {})
  <2> SUFFICES ASSUME c.op # "reset"
               PROVE  Billed' = Billed \union
                                  (IF v # Error \/ c.op \in OracleOps THEN {n + 1} ELSE {})
    OBVIOUS
  <2>1. ASSUME NEW i \in 1 .. n
        PROVE  i \in Billed' <=> i \in Billed
    <3>1. (\A j \in i .. n + 1 : calls'[j].call.op # "reset")
            <=> (\A j \in i .. n : calls[j].call.op # "reset")
      BY <1>1
    <3> QED
      BY <1>1, <1>3, <1>4, <3>1
  <2>2. n + 1 \in Billed' <=> v # Error \/ c.op \in OracleOps
    BY <1>1, <1>3
  <2>3. Billed' \subseteq 1 .. n + 1 /\ Billed \subseteq 1 .. n
    BY <1>2, <1>3
  <2>4. \A i : i \in 1 .. n + 1 <=> i \in 1 .. n \/ i = n + 1
    BY <1>1
  <2> HIDE DEF n
  <2>5. CASE v # Error \/ c.op \in OracleOps
    BY <2>1, <2>2, <2>3, <2>4, <2>5
  <2>6. CASE ~(v # Error \/ c.op \in OracleOps)
    BY <2>1, <2>2, <2>3, <2>4, <2>6
  <2> QED
    BY <2>5, <2>6
<1>6. CASE /\ ledger' = Append(ledger, EntryOf(c)) /\ EntryOf(c) \in Entries
           /\ v # Error \/ c.op \in OracleOps
           /\ c.op # "reset"
  <2> DEFINE B == Billed \union {n + 1}
  <2>1. Billed' = B
    BY <1>5, <1>6
  <2>2. /\ ledger' \in Seq(Entries) /\ Len(ledger') = Len(ledger) + 1
        /\ \A k \in 1 .. Len(ledger) : ledger'[k] = ledger[k]
        /\ ledger'[Len(ledger) + 1] = EntryOf(c)
    BY <1>6
  <2>3. Cardinality(B) = Len(ledger) + 1
    <3>1. n + 1 \notin Billed
      BY <1>1, <1>2
    <3> QED
      BY <1>2, <3>1, FS_AddElement
  <2>4. ASSUME NEW i \in Billed
        PROVE  ledger'[Cardinality({j \in B : j <= i})] = EntryOf(calls'[i].call)
    <3>1. {j \in B : j <= i} = {j \in Billed : j <= i} /\ calls'[i] = calls[i]
      BY <1>1, <1>2
    <3> HIDE DEF B
    <3> QED
      BY <1>2, <2>2, <3>1
  <2>5. ledger'[Cardinality({j \in B : j <= n + 1})] = EntryOf(calls'[n + 1].call)
    <3>1. \A j \in B : j <= n + 1
      BY <1>1, <1>2
    <3> HIDE DEF B
    <3>2. {j \in B : j <= n + 1} = B
      BY <3>1
    <3> QED
      BY <1>1, <2>2, <2>3, <3>2
  <2>6. ASSUME NEW b, b = Billed'
        PROVE  /\ Len(ledger') = Cardinality(b)
               /\ \A i \in b : ledger'[Cardinality({j \in b : j <= i})] = EntryOf(calls'[i].call)
    <3>1. b = B
      BY <2>1, <2>6
    <3> QED
      BY <2>2, <2>3, <2>4, <2>5, <3>1
  <2> QED
    BY <2>2, <2>6 DEF LedgerIsComplete, EntryOf
<1>7. CASE ledger' = ledger /\ v = Error /\ c.op \in Judgements
  <2>1. Billed' = Billed
    BY <1>5, <1>7 DEF Judgements, OracleOps
  <2>2. \A i \in Billed : calls'[i] = calls[i]
    BY <1>1, <1>2
  <2>3. ASSUME NEW b, b = Billed'
        PROVE  /\ Len(ledger') = Cardinality(b)
               /\ \A i \in b : ledger'[Cardinality({j \in b : j <= i})] = EntryOf(calls'[i].call)
    BY <1>2, <1>7, <2>1, <2>2, <2>3
  <2> QED
    BY <1>7, <2>3 DEF LedgerIsComplete, EntryOf
<1>8. CASE ledger' = << >> /\ c.op = "reset"
  <2>1. Billed' = {}
    BY <1>1, <1>3, <1>8
  <2>2. Cardinality(Billed') = 0
    BY <2>1, FS_EmptySet
  <2>3. ledger' \in Seq(Entries) /\ Len(ledger') = 0
    BY <1>8
  <2> QED
    BY <2>1, <2>2, <2>3 DEF LedgerIsComplete
<1> QED
  BY <1>6, <1>7, <1>8 DEF Accounts
-----------------------------------------------------------------------------
(* What the ledger adds up to.                                                *)

(* There are k numbers from 1 to k.                                           *)
LEMMA FirstNumbers ==
  ASSUME NEW k \in Nat
  PROVE  IsFiniteSet(1 .. k) /\ Cardinality(1 .. k) = k
<1>1. k \in Int /\ 1 \in Int
  OBVIOUS
<1>2. IsFiniteSet(1 .. k) /\ Cardinality(1 .. k) = IF 1 > k THEN 0 ELSE k - 1 + 1
  BY <1>1, FS_Interval
<1> QED
  BY <1>2

(* A finite set is as large as its parts together: parts have a tag, and each *)
(* is as large as f says.                                                     *)
LEMMA TotalOfParts ==
  ASSUME NEW S, IsFiniteSet(S), NEW f, NEW tag, \A x \in S : tag[x] \in DOMAIN f,
         \A t \in DOMAIN f : f[t] = Cardinality({x \in S : tag[x] = t})
  PROVE  Cardinality(S) = Total(f)
<1> DEFINE Part(t) == {x \in S : tag[x] = t}
           g(t)    == CHOOSE h \in Bijection(Part(t), 1 .. f[t]) : TRUE
           all     == UNION {{t} \X (1 .. f[t]) : t \in DOMAIN f}
           m       == [x \in S |-> <<tag[x], g(tag[x])[x]>>]
<1>1. ASSUME NEW t \in DOMAIN f PROVE g(t) \in Bijection(Part(t), 1 .. f[t])
  <2>1. IsFiniteSet(Part(t))
    BY FS_Subset
  <2>2. f[t] = Cardinality(Part(t)) /\ f[t] \in Nat
    BY <2>1, FS_CardinalityType
  <2>3. IsFiniteSet(1 .. f[t]) /\ Cardinality(1 .. f[t]) = f[t]
    BY <2>2, FirstNumbers
  <2> HIDE DEF Part
  <2> QED
    BY <2>1, <2>2, <2>3, FS_SameCardinalityBij DEF ExistsBijection
<1> HIDE DEF g
<1>2. ASSUME NEW x \in S
      PROVE  /\ tag[x] \in DOMAIN f /\ x \in Part(tag[x])
             /\ g(tag[x])[x] \in 1 .. f[tag[x]]
             /\ m[x] = <<tag[x], g(tag[x])[x]>>
  BY <1>1 DEF Bijection, Injection
<1>3. \A c : c \in all <=> \E t \in DOMAIN f : \E k \in 1 .. f[t] : c = <<t, k>>
  OBVIOUS
<1> HIDE DEF all
<1>4. m \in [S -> all]
  BY <1>2, <1>3
<1> HIDE DEF m
<1>5. ASSUME NEW x \in S, NEW y \in S, m[x] = m[y] PROVE x = y
  <2>1. tag[x] = tag[y] /\ g(tag[x])[x] = g(tag[x])[y]
    BY <1>2, <1>5
  <2>2. /\ x \in Part(tag[x]) /\ y \in Part(tag[x])
        /\ g(tag[x]) \in Bijection(Part(tag[x]), 1 .. f[tag[x]])
    BY <1>1, <1>2, <2>1
  <2> HIDE DEF Part
  <2> QED
    BY <2>1, <2>2 DEF Bijection, Injection, IsInjective
<1>6. ASSUME NEW c \in all PROVE \E x \in S : m[x] = c
  <2>1. PICK t \in DOMAIN f : \E k \in 1 .. f[t] : c = <<t, k>>
    BY <1>3
  <2>2. PICK k \in 1 .. f[t] : c = <<t, k>>
    BY <2>1
  <2>3. PICK x \in Part(t) : g(t)[x] = k
    <3>1. g(t) \in Bijection(Part(t), 1 .. f[t])
      BY <1>1
    <3> HIDE DEF Part
    <3> QED
      BY <3>1 DEF Bijection, Surjection
  <2>4. x \in S /\ tag[x] = t
    BY <2>3
  <2> QED
    BY <1>2, <2>2, <2>3, <2>4
<1>7. m \in Bijection(S, all)
  BY <1>4, <1>5, <1>6 DEF Bijection, Injection, Surjection, IsInjective
<1>8. Cardinality(all) = Cardinality(S)
  BY <1>7, FS_Bijection DEF ExistsBijection
<1> QED
  BY <1>8 DEF Total, all

(* The entries of a tier and their cents are those of the ledger.             *)
LEMMA TierIsPart ==
  ASSUME NEW l \in Seq(Entries), NEW tier
  PROVE  /\ DOMAIN OfTier(l, tier) = {i \in DOMAIN l : l[i].tier = tier}
         /\ Cents(OfTier(l, tier)) = {c \in Cents(l) : l[c[1]].tier = tier}
<1> DEFINE D == {i \in DOMAIN l : l[i].tier = tier}
<1>1. OfTier(l, tier) = [i \in D |-> l[i]]
  BY DEF OfTier, Restrict
<1>2. Cents(OfTier(l, tier)) = UNION {{i} \X (1 .. l[i].usd) : i \in D}
  BY <1>1 DEF Cents
<1>3. ASSUME NEW c
      PROVE  c \in Cents(OfTier(l, tier)) <=> c \in Cents(l) /\ l[c[1]].tier = tier
  <2>1. c \in Cents(OfTier(l, tier)) <=> \E i \in D : c \in {i} \X (1 .. l[i].usd)
    BY <1>2
  <2>2. c \in Cents(l) <=> \E i \in DOMAIN l : c \in {i} \X (1 .. l[i].usd)
    BY DEF Cents
  <2>3. \A i : c \in {i} \X (1 .. l[i].usd) => c[1] = i
    OBVIOUS
  <2> QED
    BY <2>1, <2>2, <2>3
<1> QED
  BY <1>1, <1>3

(* A bill is finite.                                                          *)
LEMMA CentsFinite ==
  ASSUME NEW l \in Seq(Entries)
  PROVE  IsFiniteSet(DOMAIN l) /\ IsFiniteSet(Cents(l))
<1>1. Len(l) \in Nat /\ DOMAIN l = 1 .. Len(l) /\ \A i \in DOMAIN l : l[i] \in Entries
  OBVIOUS
<1>2. IsFiniteSet(DOMAIN l)
  <2>1. 1 \in Int /\ Len(l) \in Int
    BY <1>1
  <2>2. IsFiniteSet(1 .. Len(l))
    BY <2>1, FS_Interval
  <2> QED
    BY <1>1, <2>2
<1> DEFINE h     == [i \in DOMAIN l |-> {i} \X (1 .. l[i].usd)]
           bills == {{i} \X (1 .. l[i].usd) : i \in DOMAIN l}
<1>3. IsFiniteSet(bills)
  <2>1. h \in Surjection(DOMAIN l, bills)
    BY DEF Surjection
  <2> HIDE DEF h, bills
  <2> QED
    BY <1>2, <2>1, FS_Surjection
<1>4. ASSUME NEW i \in DOMAIN l PROVE IsFiniteSet({i} \X (1 .. l[i].usd))
  <2>1. l[i].usd \in Nat
    BY <1>1 DEF Entries
  <2>2. IsFiniteSet(1 .. l[i].usd)
    BY <2>1, FirstNumbers
  <2>3. IsFiniteSet({i})
    BY FS_Singleton
  <2> QED
    BY <2>2, <2>3, FS_Product
<1>5. IsFiniteSet(UNION bills)
  <2>1. \A b \in bills : IsFiniteSet(b)
    BY <1>4
  <2> HIDE DEF bills
  <2> QED
    BY <1>3, <2>1, FS_UNION
<1> QED
  BY <1>2, <1>5 DEF Cents

(* Tiers split the ledger.                                                    *)
LEMMA TiersAlwaysAddUp == ASSUME ledger \in Seq(Entries) PROVE TiersAddUp
<1> DEFINE Part(tier) == {c \in Cents(ledger) : ledger[c[1]].tier = tier}
           Own(tier)  == {i \in DOMAIN ledger : ledger[i].tier = tier}
           by         == ByTier(ledger)
           usd        == [tier \in DOMAIN by |-> by[tier].usd]
           n          == [tier \in DOMAIN by |-> by[tier].calls]
<1>1. IsFiniteSet(DOMAIN ledger) /\ IsFiniteSet(Cents(ledger))
  BY CentsFinite
<1>2. /\ Len(ledger) \in Nat /\ DOMAIN ledger = 1 .. Len(ledger)
      /\ \A i \in DOMAIN ledger : ledger[i] \in Entries
  OBVIOUS
<1>3. \A c \in Cents(ledger) : c[1] \in DOMAIN ledger
  BY DEF Cents
<1>4. DOMAIN by = {ledger[i].tier : i \in DOMAIN ledger}
  BY DEF ByTier
<1>5. ASSUME NEW tier \in DOMAIN by
      PROVE  usd[tier] = Cardinality(Part(tier)) /\ n[tier] = Cardinality(Own(tier))
  <2>1. /\ DOMAIN OfTier(ledger, tier) = Own(tier)
        /\ Cents(OfTier(ledger, tier)) = Part(tier)
    BY TierIsPart
  <2>2. by[tier] = [calls |-> Cardinality(DOMAIN OfTier(ledger, tier)),
                    usd |-> Spent(OfTier(ledger, tier))]
    BY DEF ByTier
  <2> HIDE DEF by
  <2> QED
    BY <2>1, <2>2 DEF Spent
<1> HIDE DEF by
<1>6. Spent(ledger) = Total(usd)
  <2> DEFINE S   == Cents(ledger)
             tag == [c \in S |-> ledger[c[1]].tier]
  <2>1. \A c \in S : tag[c] \in DOMAIN usd
    BY <1>3, <1>4
  <2>2. \A t \in DOMAIN usd : {c \in S : tag[c] = t} = Part(t)
    OBVIOUS
  <2>3. \A t \in DOMAIN usd : usd[t] = Cardinality({c \in S : tag[c] = t})
    <3>1. \A t \in DOMAIN usd : usd[t] = Cardinality(Part(t))
      BY <1>5
    <3> HIDE DEF Part, usd, S, tag
    <3> QED
      BY <2>2, <3>1
  <2>4. IsFiniteSet(S)
    BY <1>1
  <2> HIDE DEF usd, S, tag
  <2>5. Cardinality(S) = Total(usd)
    BY <2>1, <2>3, <2>4, TotalOfParts
  <2> QED
    BY <2>5 DEF Spent, S
<1>7. Len(ledger) = Total(n)
  <2> DEFINE S   == DOMAIN ledger
             tag == [i \in S |-> ledger[i].tier]
  <2>1. \A i \in S : tag[i] \in DOMAIN n
    BY <1>4
  <2>2. \A t \in DOMAIN n : {i \in S : tag[i] = t} = Own(t)
    OBVIOUS
  <2>3. \A t \in DOMAIN n : n[t] = Cardinality({i \in S : tag[i] = t})
    <3>1. \A t \in DOMAIN n : n[t] = Cardinality(Own(t))
      BY <1>5
    <3> HIDE DEF Own, n, S, tag
    <3> QED
      BY <2>2, <3>1
  <2>4. IsFiniteSet(S)
    BY <1>1
  <2>5. Cardinality(S) = Len(ledger)
    BY <1>2, FS_Interval
  <2> HIDE DEF n, S, tag
  <2>6. Cardinality(S) = Total(n)
    BY <2>1, <2>3, <2>4, TotalOfParts
  <2> QED
    BY <2>5, <2>6
<1>8. OracleTouches(ledger) = IF "gold" \in DOMAIN by THEN by["gold"].calls ELSE 0
  <2>1. {i \in DOMAIN ledger : ledger[i].op \in OracleOps} = Own("gold")
    BY <1>2 DEF Entries
  <2>2. OracleTouches(ledger) = Cardinality(Own("gold"))
    BY <2>1 DEF OracleTouches
  <2>3. CASE "gold" \in DOMAIN by
    <3>1. n["gold"] = Cardinality(Own("gold")) /\ n["gold"] = by["gold"].calls
      BY <1>5, <2>3
    <3> QED
      BY <2>2, <2>3, <3>1
  <2>4. CASE "gold" \notin DOMAIN by
    <3>1. Own("gold") = {}
      BY <1>4, <2>4
    <3> QED
      BY <2>2, <2>4, <3>1, FS_EmptySet
  <2> QED
    BY <2>3, <2>4
<1> QED
  BY <1>6, <1>7, <1>8 DEF TiersAddUp, by
-----------------------------------------------------------------------------
(* What a window of one tier costs (Cost.measure).                            *)
LEMMA WindowOfOneTier ==
  ASSUME NEW n \in Nat, NEW p, p.usd \in Nat, NEW w,
         DOMAIN w = 1 .. n, \A i \in 1 .. n : w[i].tier = p.name /\ w[i].usd = p.usd
  PROVE  /\ Spent(w) = n * p.usd
         /\ ByTier(w) = [t \in {p.name : i \in 1 .. n} |-> [calls |-> n, usd |-> n * p.usd]]
<1>1. IsFiniteSet(1 .. n) /\ Cardinality(1 .. n) = n
  BY FirstNumbers
<1>2. IsFiniteSet(1 .. p.usd) /\ Cardinality(1 .. p.usd) = p.usd
  BY FirstNumbers
<1>3. Cardinality((1 .. n) \X (1 .. p.usd)) = n * p.usd
  <2>1. Cardinality((1 .. n) \X (1 .. p.usd)) = Cardinality(1 .. n) * Cardinality(1 .. p.usd)
    BY <1>1, <1>2, FS_Product
  <2> QED
    BY <1>1, <1>2, <2>1
<1>4. Cents(w) = (1 .. n) \X (1 .. p.usd)
  <2>1. Cents(w) = UNION {{i} \X (1 .. p.usd) : i \in 1 .. n}
    BY DEF Cents
  <2>2. ASSUME NEW c
        PROVE  c \in UNION {{i} \X (1 .. p.usd) : i \in 1 .. n} <=> c \in (1 .. n) \X (1 .. p.usd)
    OBVIOUS
  <2> QED
    BY <2>1, <2>2
<1>5. Spent(w) = n * p.usd
  BY <1>3, <1>4 DEF Spent
<1>6. {w[i].tier : i \in DOMAIN w} = {p.name : i \in 1 .. n}
  OBVIOUS
<1>7. ASSUME NEW t \in {p.name : i \in 1 .. n}
      PROVE  Cardinality(DOMAIN OfTier(w, t)) = n /\ Spent(OfTier(w, t)) = n * p.usd
  <2>1. {i \in DOMAIN w : w[i].tier = t} = 1 .. n
    OBVIOUS
  <2>2. OfTier(w, t) = [i \in 1 .. n |-> w[i]]
    BY <2>1 DEF OfTier, Restrict
  <2>3. Cents(OfTier(w, t)) = Cents(w)
    BY <2>2 DEF Cents
  <2> QED
    BY <1>1, <1>5, <2>2, <2>3 DEF Spent
<1>8. ByTier(w) = [t \in {p.name : i \in 1 .. n} |-> [calls |-> n, usd |-> n * p.usd]]
  BY <1>6, <1>7 DEF ByTier
<1> QED
  BY <1>5, <1>8
-----------------------------------------------------------------------------
(* The books: a history of answers, entries that can be, and one entry for    *)
(* every call that is billed.                                                 *)
BooksInv ==
  /\ calls \in Seq(Range(calls))
  /\ \A i \in DOMAIN calls : calls[i].answer \in Nat \union {Error}
  /\ ledger \in Seq(Entries)
  /\ CoinsTyped
  /\ LedgerIsComplete

(* Since it started, the filter that runs has added one entry of its tier for *)
(* every row behind it: a tier that is unknown does not get past the first.   *)
WindowInv ==
  filter.running =>
    /\ filter.mark \in Nat /\ Len(ledger) = filter.mark + filter.at - 1
    /\ \A i \in filter.mark + 1 .. Len(ledger) : ledger[i] = Entry("judge_filter", filter.tier)
    /\ filter.tier \in KnownTiers \/ (filter.at = 1 /\ Len(filter.rows) > 0)

(* Rows the filter has before it.                                             *)
RowsLeft == IF filter.running THEN Len(filter.rows) - (filter.at - 1) ELSE 0

StepsInv == runs \in Nat /\ runs + Len(calls) + RowsLeft <= MaxSteps

LedgerInv ==
  /\ QualityInv /\ base \in Bases /\ gold \subseteq Rules
  /\ BooksInv /\ WindowInv /\ StepsInv /\ CostIsOwn

LEMMA InitLedger == ASSUME Init PROVE LedgerInv
<1>1. QualityInv /\ base \in Bases /\ gold \subseteq Rules
  BY InitQuality DEF Init, CorpusInit
<1>2. calls = << >> /\ ledger = << >> /\ coins = << >> /\ runs = 0
      /\ filter = Idle /\ report = NoReport
  BY DEF Init, CorpusInit
<1>3. Billed = {}
  BY <1>2 DEF Billed
<1>4. LedgerIsComplete
  BY <1>2, <1>3, FS_EmptySet DEF LedgerIsComplete
<1>5. CoinsTyped
  BY <1>2 DEF CoinsTyped
<1>6. BooksInv
  BY <1>2, <1>4, <1>5 DEF BooksInv
<1>7. WindowInv /\ CostIsOwn
  BY <1>2 DEF WindowInv, CostIsOwn, Idle, NoReport
<1>8. StepsInv
  BY <1>2, StepsAssumption DEF StepsInv, RowsLeft, Idle
<1> QED
  BY <1>1, <1>6, <1>7, <1>8 DEF LedgerInv

(* A call keeps the books.                                                    *)
LEMMA CallKeepsBooks ==
  ASSUME BooksInv, NEW c, NEW v, Accounts(c, v), CoinsTyped'
  PROVE  BooksInv' /\ Len(calls) \in Nat /\ Len(calls') = Len(calls) + 1
<1>1. ledger' \in Seq(Entries) /\ LedgerIsComplete'
  BY LedgerStaysComplete DEF BooksInv
<1>2. /\ Len(calls) \in Nat /\ DOMAIN calls = 1 .. Len(calls)
      /\ calls' \in Seq(Range(calls'))
      /\ Len(calls') = Len(calls) + 1 /\ DOMAIN calls' = 1 .. Len(calls) + 1
      /\ \A i \in 1 .. Len(calls) : calls'[i] = calls[i]
      /\ calls'[Len(calls) + 1] = [call |-> c, answer |-> v]
  BY HistoryGrows DEF BooksInv, Accounts
<1>3. ASSUME NEW i \in DOMAIN calls'
      PROVE  calls'[i].answer \in Nat \union {Error}
  <2>1. CASE i \in 1 .. Len(calls)
    BY <1>2, <2>1 DEF BooksInv
  <2>2. CASE i = Len(calls) + 1
    <3>1. calls'[i].answer = v
      BY <1>2, <2>2
    <3> QED
      BY <3>1 DEF Accounts
  <2> QED
    BY <1>2, <2>1, <2>2
<1> QED
  BY <1>1, <1>2, <1>3 DEF BooksInv

(* So does a step without one.                                                *)
LEMMA BooksStay ==
  ASSUME BooksInv, UNCHANGED <<calls, ledger, coins>>
  PROVE  BooksInv' /\ Len(calls) \in Nat
<1>1. Billed' = Billed
  BY DEF Billed
<1>2. LedgerIsComplete'
  BY <1>1 DEF BooksInv, LedgerIsComplete
<1>3. Len(calls) \in Nat
  BY HistoryGrows DEF BooksInv
<1> QED
  BY <1>2, <1>3 DEF BooksInv, CoinsTyped

(* The window opens at the end of the ledger.                                 *)
LEMMA StartOpensWindow ==
  ASSUME LedgerInv, NEW rows, OneTable(rows), NEW predicate,
         NEW tier, tier \in KnownTiers \/ Len(rows) > 0, StartFilter(rows, predicate, tier)
  PROVE  BooksInv' /\ WindowInv' /\ StepsInv' /\ CostIsOwn'
<1>1. /\ filter' = [running |-> TRUE, rows |-> rows, predicate |-> predicate, tier |-> tier,
                    at |-> 1, kept |-> << >>, mark |-> Len(ledger)]
      /\ report' = NoReport /\ UNCHANGED <<calls, ledger, coins, runs>>
      /\ runs + Len(calls) + Len(rows) <= MaxSteps
  BY DEF StartFilter, corpusVars
<1>2. BooksInv'
  BY <1>1, BooksStay DEF LedgerInv
<1>3. CostIsOwn'
  BY <1>1 DEF CostIsOwn, NoReport
<1>4. /\ filter'.running /\ filter'.rows = rows /\ filter'.tier = tier
      /\ filter'.at = 1 /\ filter'.mark = Len(ledger)
  BY <1>1
<1>5. Len(ledger) \in Nat /\ ledger' = ledger
  BY <1>1 DEF LedgerInv, BooksInv
<1>6. WindowInv'
  BY <1>4, <1>5 DEF WindowInv
<1>7. Len(rows) \in Nat /\ Len(calls) \in Nat /\ runs \in Nat
  BY <1>1, BooksStay DEF OneTable, LedgerInv, StepsInv
<1>8. StepsInv'
  BY <1>1, <1>4, <1>7 DEF StepsInv, RowsLeft
<1> QED
  BY <1>2, <1>3, <1>6, <1>8

(* A row that is judged adds its entry to the window; one that is refused     *)
(* closes it.                                                                 *)
LEMMA RowFillsWindow ==
  ASSUME LedgerInv, FilterRow
  PROVE  BooksInv' /\ WindowInv' /\ StepsInv' /\ CostIsOwn'
<1> DEFINE row == filter.rows[filter.at]
<1>1. PICK answer \in YesNo \union {Error} :
        /\ JudgeFilter(row, filter.predicate, filter.tier, answer)
        /\ filter' = IF answer = Error THEN Idle
                     ELSE [filter EXCEPT !.at = @ + 1,
                                         !.kept = IF answer = Yes THEN Append(@, row) ELSE @]
  BY DEF FilterRow
<1>2. /\ Accounts(Call("judge_filter", <<row>>, filter.predicate, filter.tier), answer)
      /\ CoinsTyped'
      /\ answer # Error =>
           /\ filter.tier \in KnownTiers
           /\ ledger' = Append(ledger, Entry("judge_filter", filter.tier))
  <2>1. CoinsTyped
    BY DEF LedgerInv, BooksInv
  <2> HIDE DEF row
  <2> QED
    BY <1>1, <2>1, FilterAccounts
<1>3. BooksInv' /\ Len(calls) \in Nat /\ Len(calls') = Len(calls) + 1
  BY <1>2, CallKeepsBooks DEF LedgerInv
<1>4. UNCHANGED <<report, runs>> /\ filter.running /\ filter.at <= Len(filter.rows)
  BY DEF FilterRow, corpusVars
<1>5. CostIsOwn'
  BY <1>4 DEF CostIsOwn, LedgerInv
<1>6. /\ filter = Judging(filter) /\ Len(filter.rows) \in Nat
      /\ filter.at \in 1 .. Len(filter.rows) + 1
  BY <1>4 DEF LedgerInv, QualityInv, FilterInv, WellJudged, OneTable
<1>7. /\ runs \in Nat /\ runs + Len(calls) + (Len(filter.rows) - (filter.at - 1)) <= MaxSteps
  BY <1>4 DEF LedgerInv, StepsInv, RowsLeft
<1>8. CASE answer = Error
  <2>1. filter' = Idle
    BY <1>1, <1>8
  <2>2. ~filter'.running
    BY <2>1 DEF Idle
  <2>3. WindowInv'
    BY <2>2 DEF WindowInv
  <2>4. StepsInv'
    BY <1>3, <1>4, <1>6, <1>7, <2>2, StepsAssumption DEF StepsInv, RowsLeft
  <2> QED
    BY <1>3, <1>5, <2>3, <2>4
<1>9. CASE answer # Error
  <2> DEFINE kept == IF answer = Yes THEN Append(filter.kept, row) ELSE filter.kept
  <2>1. filter' = [filter EXCEPT !.at = @ + 1, !.kept = kept]
    BY <1>1, <1>9
  <2> HIDE DEF kept
  <2>2. /\ filter'.running = filter.running /\ filter'.rows = filter.rows
        /\ filter'.tier = filter.tier /\ filter'.mark = filter.mark
        /\ filter'.at = filter.at + 1
    BY <1>6, <2>1 DEF Judging
  <2>3. /\ filter.mark \in Nat /\ Len(ledger) = filter.mark + filter.at - 1
        /\ \A i \in filter.mark + 1 .. Len(ledger) :
             ledger[i] = Entry("judge_filter", filter.tier)
    BY <1>4 DEF LedgerInv, WindowInv
  <2>4. /\ Len(ledger') = Len(ledger) + 1 /\ Len(ledger) \in Nat
        /\ \A i \in 1 .. Len(ledger) : ledger'[i] = ledger[i]
        /\ ledger'[Len(ledger) + 1] = Entry("judge_filter", filter.tier)
    BY <1>2, <1>9 DEF LedgerInv, BooksInv
  <2>5. ASSUME NEW i \in filter.mark + 1 .. Len(ledger')
        PROVE  ledger'[i] = Entry("judge_filter", filter.tier)
    <3>1. CASE i \in filter.mark + 1 .. Len(ledger)
      BY <2>3, <2>4, <3>1
    <3>2. CASE i = Len(ledger) + 1
      BY <2>4, <3>2
    <3> QED
      BY <2>3, <2>4, <3>1, <3>2
  <2>6. Len(ledger') = filter.mark + (filter.at + 1) - 1
    BY <1>6, <2>3, <2>4
  <2>7. WindowInv'
    BY <1>2, <1>9, <2>2, <2>3, <2>5, <2>6 DEF WindowInv, Entry, TierOf
  <2>8. StepsInv'
    BY <1>3, <1>4, <1>6, <1>7, <2>2 DEF StepsInv, RowsLeft
  <2> QED
    BY <1>3, <1>5, <2>7, <2>8
<1> QED
  BY <1>8, <1>9

(* The cost of a filter that is done is that of its window.                   *)
LEMMA DoneCostsOwn ==
  ASSUME LedgerInv, FilterDone
  PROVE  BooksInv' /\ WindowInv' /\ StepsInv' /\ CostIsOwn'
<1> DEFINE n == Len(filter.rows)
           m == filter.mark
           w == SubSeq(ledger, m + 1, Len(ledger))
           p == TierOf(filter.tier)
<1>1. /\ filter.running /\ filter.at > n /\ filter' = Idle
      /\ report'.rows = filter.rows /\ report'.tier = filter.tier
      /\ report'.cost = [calls |-> Len(w), usd |-> Spent(w), by_tier |-> ByTier(w)]
      /\ UNCHANGED <<calls, ledger, coins, runs>>
  BY DEF FilterDone, Measure, corpusVars
<1>2. n \in Nat /\ filter.at = n + 1
  BY <1>1 DEF LedgerInv, QualityInv, FilterInv, WellJudged, OneTable
<1>3. /\ m \in Nat /\ Len(ledger) = m + n
      /\ \A i \in m + 1 .. m + n : ledger[i] = Entry("judge_filter", filter.tier)
      /\ filter.tier \in KnownTiers
  BY <1>1, <1>2 DEF LedgerInv, WindowInv
<1>4. BooksInv' /\ Len(calls) \in Nat
  BY <1>1, BooksStay DEF LedgerInv
<1>5. WindowInv'
  BY <1>1 DEF WindowInv, Idle
<1>6. StepsInv'
  BY <1>1, <1>2, <1>4 DEF LedgerInv, StepsInv, RowsLeft, Idle
<1>7. Len(w) = n /\ DOMAIN w = 1 .. n /\ \A i \in 1 .. n : w[i] = ledger[m + i]
  <2>1. ledger \in Seq(Entries)
    BY DEF LedgerInv, BooksInv
  <2> HIDE DEF n, m
  <2>2. w = SubSeq(ledger, m + 1, m + n) /\ m + 1 \in Nat /\ m + n \in Nat
    BY <1>2, <1>3
  <2>3. /\ Len(SubSeq(ledger, m + 1, m + n)) = n
        /\ \A i \in 1 .. n : SubSeq(ledger, m + 1, m + n)[i] = ledger[m + i]
        /\ DOMAIN SubSeq(ledger, m + 1, m + n) = 1 .. n
    BY <1>2, <1>3, <2>1
  <2> QED
    BY <2>2, <2>3
<1>8. \A i \in 1 .. n : w[i].tier = p.name /\ w[i].usd = p.usd
  <2>1. \A i \in 1 .. n : m + i \in m + 1 .. m + n
    BY <1>2, <1>3
  <2>2. Entry("judge_filter", filter.tier).tier = p.name
        /\ Entry("judge_filter", filter.tier).usd = p.usd
    BY DEF Entry
  <2> HIDE DEF n, m, w, p
  <2> QED
    BY <1>3, <1>7, <2>1, <2>2
<1> HIDE DEF w
<1>9. /\ Spent(w) = n * p.usd
      /\ ByTier(w) = [t \in {p.name : i \in 1 .. n} |-> [calls |-> n, usd |-> n * p.usd]]
  <2>1. p.usd \in Nat
    BY <1>3, KnownTier
  <2> HIDE DEF n, p
  <2> QED
    BY <1>2, <1>7, <1>8, <2>1, WindowOfOneTier
<1>10. CostIsOwn'
  <2>1. Len(report'.rows) = n /\ report'.tier = filter.tier
    BY <1>1
  <2>2. report'.cost = [calls |-> n, usd |-> n * p.usd,
                        by_tier |-> [t \in {p.name : i \in 1 .. n} |->
                                       [calls |-> n, usd |-> n * p.usd]]]
    BY <1>1, <1>7, <1>9
  <2>3. TierOf(report.tier)' = p
    BY <2>1 DEF TierOf
  <2> HIDE DEF n, p
  <2> QED
    BY <2>1, <2>2, <2>3 DEF CostIsOwn
<1> QED
  BY <1>4, <1>5, <1>6, <1>10

(* Every step keeps the books, the window and the bound.                      *)
LEMMA StepLedger == ASSUME LedgerInv, [Next]_vars PROVE LedgerInv'
<1>1. QualityInv' /\ (base \in Bases)' /\ (gold \subseteq Rules)'
  <2>1. gold' = gold /\ base' = base
    BY GoldStays DEF LedgerInv, QualityInv
  <2>2. Rules' = Rules
    BY DEF Rules
  <2> QED
    BY <2>1, <2>2, StepQuality DEF LedgerInv
<1> SUFFICES BooksInv' /\ WindowInv' /\ StepsInv' /\ CostIsOwn'
  BY <1>1 DEF LedgerInv
<1>2. CASE Generate \/ UNCHANGED vars
  <2>1. UNCHANGED <<calls, ledger, coins, filter, report>>
    BY <1>2 DEF Generate, vars
  <2>2. BooksInv' /\ Len(calls) \in Nat
    BY <2>1, BooksStay DEF LedgerInv
  <2>3. WindowInv' /\ CostIsOwn'
    BY <2>1 DEF LedgerInv, WindowInv, CostIsOwn
  <2>4. \/ runs' = runs
        \/ runs' = runs + 1 /\ runs + Len(calls) < MaxSteps /\ ~filter.running
    BY <1>2 DEF Generate, GenNext, StartRun, WriteCsv, WriteFails, SanityReport, vars, corpusVars
  <2>5. RowsLeft' = RowsLeft /\ (~filter.running => RowsLeft = 0)
    BY <2>1 DEF RowsLeft
  <2>6. StepsInv'
    BY <2>1, <2>2, <2>4, <2>5, StepsAssumption DEF LedgerInv, StepsInv
  <2> QED
    BY <2>2, <2>3, <2>6
<1>3. ASSUME CanCall, Pipeline
      PROVE  BooksInv' /\ WindowInv' /\ StepsInv' /\ CostIsOwn'
  <2>1. ASSUME NEW rows, NEW predicate, NEW tier, OneTable(rows), Len(rows) > 0,
               StartFilter(rows, predicate, tier)
        PROVE  BooksInv' /\ WindowInv' /\ StepsInv' /\ CostIsOwn'
    BY <2>1, StartOpensWindow
  <2>2. ASSUME CoinsTyped', UNCHANGED <<filter, report, runs>>, NEW c, NEW v, Accounts(c, v)
        PROVE  BooksInv' /\ WindowInv' /\ StepsInv' /\ CostIsOwn'
    <3>1. BooksInv' /\ Len(calls) \in Nat /\ Len(calls') = Len(calls) + 1
      BY <2>2, CallKeepsBooks DEF LedgerInv
    <3>2. ~filter.running /\ runs + Len(calls) < MaxSteps
      BY <1>3 DEF CanCall
    <3>3. WindowInv' /\ CostIsOwn'
      BY <2>2, <3>2 DEF LedgerInv, WindowInv, CostIsOwn
    <3>4. StepsInv'
      BY <2>2, <3>1, <3>2, StepsAssumption DEF LedgerInv, StepsInv, RowsLeft
    <3> QED
      BY <3>1, <3>3, <3>4
  <2>3. ScoresInv /\ CoinsTyped
    BY DEF LedgerInv, QualityInv, BooksInv, ScoresInv
  <2> QED
    BY <1>3, <2>1, <2>2, <2>3, PipelineAccounts
<1>4. ASSUME NEW predicate, SmokeTest(predicate)
      PROVE  BooksInv' /\ WindowInv' /\ StepsInv' /\ CostIsOwn'
  <2>1. PICK rows : OneTable(rows) /\ StartFilter(rows, predicate, "frontier")
    BY <1>4, SmokeStarts DEF LedgerInv, QualityInv
  <2>2. "frontier" \in KnownTiers
    BY DEF KnownTiers, TIERS
  <2> QED
    BY <2>1, <2>2, StartOpensWindow
<1>5. CASE FilterRow
  BY <1>5, RowFillsWindow
<1>6. CASE FilterDone
  BY <1>6, DoneCostsOwn
<1> QED
  BY <1>2, <1>3, <1>4, <1>5, <1>6 DEF Next

LEMMA LedgerIsSound == ASSUME LedgerInv PROVE LedgerSound
<1>1. TypeOK
  <2>1. CorpusTypeOK
    BY FileOf DEF LedgerInv, QualityInv, CorpusInv, CorpusTypeOK
  <2>2. ASSUME NEW i \in DOMAIN ledger PROVE ledger[i].tier \in TierNames /\ ledger[i].usd \in Nat
    BY DEF LedgerInv, BooksInv, Entries
  <2>3. Len(calls) \in Nat /\ Len(ledger) \in Nat
    BY HistoryGrows DEF LedgerInv, BooksInv
  <2>4. filter.running => /\ filter.at \in 1 .. Len(filter.rows) + 1
                          /\ Len(filter.rows) \in Nat
    BY DEF LedgerInv, QualityInv, FilterInv, WellJudged, OneTable
  <2>5. runs + Len(calls) <= MaxSteps
    BY <2>3, <2>4, StepsAssumption DEF LedgerInv, StepsInv, RowsLeft
  <2>6. filter.running => filter.mark \in 0 .. Len(ledger)
    BY <2>3, <2>4 DEF LedgerInv, WindowInv
  <2> QED
    BY <2>1, <2>2, <2>5, <2>6 DEF TypeOK, LedgerInv, BooksInv, CoinsTyped
<1>2. TiersAddUp
  BY TiersAlwaysAddUp DEF LedgerInv, BooksInv
<1> QED
  BY <1>1, <1>2 DEF LedgerSound, LedgerInv, BooksInv

(* For every history of calls, refusals, filters that an exception ends,      *)
(* resets and generator runs: the ledger holds one entry per call that was    *)
(* answered or that touched the oracle, in call order, and its totals by tier *)
(* sum to the totals (Ledger, _record, KeyError before it).                   *)
THEOREM LedgerAlwaysSound == Spec => []LedgerSound
<1>1. Init => LedgerInv
  BY InitLedger
<1>2. LedgerInv /\ [Next]_vars => LedgerInv'
  BY StepLedger
<1>3. LedgerInv => LedgerSound
  BY LedgerIsSound
<1> QED
  BY <1>1, <1>2, <1>3, PTL DEF Spec

(* The cost of a sem_filter on any number of rows, whatever was called before *)
(* it: one call per row at the price of its own tier (Cost.measure).          *)
THEOREM CostIsAlwaysOwn == Spec => []CostIsOwn
<1>1. Init => LedgerInv
  BY InitLedger
<1>2. LedgerInv /\ [Next]_vars => LedgerInv'
  BY StepLedger
<1>3. LedgerInv => CostIsOwn
  BY DEF LedgerInv
<1> QED
  BY <1>1, <1>2, <1>3, PTL DEF Spec
=============================================================================
