------------------------------- MODULE Corpus -------------------------------
(* The corpus generator of lab 4 (make_data.py): reviews, products and the    *)
(* calibration labels, built from hashes of ids and written file by file into *)
(* a directory that may hold what earlier runs left.  A hash is a choice made *)
(* once: every run meets the same one.  A text is the fragments it carries.   *)
EXTENDS Integers, FiniteSets, SequencesExt

CONSTANTS NReviews, NProducts,            \* N_REVIEWS, N_PRODUCTS
          NCalibReviews, NCalibProducts,  \* N_CALIB_REVIEWS, N_CALIB_PRODUCTS
          Aspects,                        \* aspects callers may ask about
          Hashes                          \* values of a hash

ASSUME CorpusAssumption ==
  /\ <<NReviews, NProducts>> \in (Nat \ {0}) \X (Nat \ {0})
  /\ <<NCalibReviews, NCalibProducts>> \in Nat \X Nat
  /\ Hashes \subseteq Nat

VARIABLES
  gold,    \* <<kind, id, aspect>> the hidden rule holds for
  hash,    \* the other draws: stars, link, distract, pick
  disk,    \* file -> its rows
  gen,     \* the run of make_data.py: the file it writes next, 0 if none runs
  runs     \* runs started

corpusVars == <<gold, hash, disk, gen, runs>>

Reviews  == 1 .. NReviews
Products == 1 .. NProducts
Ids      == [review |-> Reviews, product |-> Products]

\* Aspects with a hidden rate, and a bank of signal fragments, by kind.
Signals == [review  |-> {"battery", "screen", "shipping", "audio"},
            product |-> {"battery", "waterproof", "lightweight"}]

\* Aspects with a bank of neutral mentions: in reviews only.
Distractors == [review |-> {"battery", "screen", "shipping", "audio"}, product |-> {}]

GroundTruth(kind, id, aspect) == <<kind, id, aspect>> \in gold

Rules == UNION {{kind} \X Ids[kind] \X Aspects : kind \in DOMAIN Ids}

Draws ==
  [stars : [Reviews -> Hashes], link : [Reviews -> Hashes],
   distract : SUBSET (Reviews \X Distractors.review),
   pick : SUBSET UNION {{kind} \X Ids[kind] : kind \in DOMAIN Ids}]
----------------------------------------------------------------------------
(* Rows: functions of the id.                                                 *)

\* complaints of a review, claims of a product
Complaints(kind, id) == {a \in Signals[kind] : GroundTruth(kind, id, a)}

Stars(r) ==
  LET bank == IF Complaints("review", r) # {} THEN <<1, 1, 2, 2, 3>> ELSE <<3, 4, 4, 5, 5>>
  IN  bank[1 + (hash.stars[r] % 5)]

(* A signal for every complaint or claim; neutral mentions of some of the     *)
(* other aspects.  Openers, fillers and closers carry no aspect.              *)
Fragments(kind, id) ==
  {<<kind, a, "signal">> : a \in Complaints(kind, id)}
    \union {<<kind, a, "distractor">> :
              a \in {b \in Distractors[kind] \ Complaints(kind, id) : <<id, b>> \in hash.distract}}

ProductOf(r) == 1 + (hash.link[r] % NProducts)

BuildReview(r) ==
  [id |-> r, product_id |-> ProductOf(r), stars |-> Stars(r), text |-> Fragments("review", r)]

BuildProduct(p) == [id |-> p, text |-> Fragments("product", p)]

Picked(kind) == {i \in Ids[kind] : <<kind, i>> \in hash.pick}

(* The n smallest of the ids that are picked, in order.                       *)
CalibrationIds(kind, n) ==
  LET Rank(i) == Cardinality({j \in Picked(kind) : j <= i})
      len     == IF n < Cardinality(Picked(kind)) THEN n ELSE Cardinality(Picked(kind))
  IN  [k \in 1 .. len |-> CHOOSE i \in Picked(kind) : Rank(i) = k]

Labels(kind, n) ==
  LET ids == CalibrationIds(kind, n)
  IN  [k \in DOMAIN ids |-> [id |-> ids[k], gold |-> GroundTruth(kind, ids[k], "battery")]]

Files == <<"reviews", "products", "calibration_reviews", "calibration_products">>

(* What main hands to write_csv, by file.                                     *)
Tables ==
  [reviews              |-> [r \in Reviews |-> BuildReview(r)],
   products             |-> [p \in Products |-> BuildProduct(p)],
   calibration_reviews  |-> Labels("review", NCalibReviews),
   calibration_products |-> Labels("product", NCalibProducts)]
----------------------------------------------------------------------------
(* Runs.                                                                      *)

\* A file: there or not, the rows in it, and whether one more was cut short.
Absent       == [there |-> FALSE, rows |-> << >>, cut |-> FALSE]
Whole(rows)  == [there |-> TRUE, rows |-> rows, cut |-> FALSE]
Torn(rows)   == {[there |-> TRUE, rows |-> SubSeq(rows, 1, n), cut |-> c] :
                   n \in 0 .. Len(rows) - 1, c \in BOOLEAN}

Complete == \A f \in Range(Files) : disk[f] = Whole(Tables[f])

StartRun ==
  /\ gen = 0
  /\ gen' = 1
  /\ runs' = runs + 1
  /\ UNCHANGED <<gold, hash, disk>>

(* Bug: opened for appending, so a run goes on after what the last one left.  *)
WrittenAfter(file) == disk[file].rows \o Tables[file]

(* open(path, "w") truncates the file, whatever it held.                      *)
Written(file) == Tables[file]

WriteCsv ==
  /\ gen \in DOMAIN Files
  /\ disk' = [disk EXCEPT ![Files[gen]] = Whole(Written(Files[gen]))]
  /\ gen' = gen + 1
  /\ UNCHANGED <<gold, hash, runs>>

(* The run ends in write_csv: before the file is opened, or with some of its  *)
(* rows written, the last of them perhaps in part.                            *)
WriteFails ==
  /\ gen \in DOMAIN Files
  /\ \/ UNCHANGED disk
     \/ \E torn \in Torn(Written(Files[gen])) : disk' = [disk EXCEPT ![Files[gen]] = torn]
  /\ gen' = 0
  /\ UNCHANGED <<gold, hash, runs>>

(* The sanity report is printed and the program ends.                         *)
SanityReport ==
  /\ gen = Len(Files) + 1
  /\ gen' = 0
  /\ UNCHANGED <<gold, hash, disk, runs>>

GenNext == StartRun \/ WriteCsv \/ WriteFails \/ SanityReport

(* An empty directory, or one with the corpus an earlier run has left.        *)
CorpusInit ==
  /\ gold \in SUBSET Rules
  /\ hash \in Draws
  /\ disk \in {[f \in Range(Files) |-> Absent], [f \in Range(Files) |-> Whole(Tables[f])]}
  /\ gen = 0
  /\ runs = 0
----------------------------------------------------------------------------
CorpusTypeOK ==
  /\ gold \subseteq Rules
  /\ hash \in Draws
  /\ DOMAIN disk = Range(Files)
  /\ gen \in 0 .. Len(Files) + 1

(* Rows that are whole.                                                       *)
OnDisk(file) == Range(disk[file].rows)

(* Whatever runs failed before it, in whichever file, a run that reports has  *)
(* left the same four files.                                                  *)
ReportedIsComplete == gen = Len(Files) + 1 => Complete

(* Rows of different files, also of files that different runs wrote and tore, *)
(* tell one story: a label is gold exactly when the text of the row it names  *)
(* carries the signal, and a review is about a product that exists.           *)
FilesAgree ==
  /\ \A label \in OnDisk("calibration_reviews"), row \in OnDisk("reviews") :
       label.id = row.id => label.gold = (<<"review", "battery", "signal">> \in row.text)
  /\ \A label \in OnDisk("calibration_products"), row \in OnDisk("products") :
       label.id = row.id => label.gold = (<<"product", "battery", "signal">> \in row.text)
  /\ Complete => \A row \in OnDisk("reviews") : \E p \in OnDisk("products") : p.id = row.product_id

(* Stars are a weak proxy of complaints on purpose: three stars say nothing,  *)
(* fewer are a complaint, more are none.                                      *)
StarsConfounded ==
  \A row \in OnDisk("reviews") :
    LET signals == {f \in row.text : f[3] = "signal"}
    IN  /\ signals # {} => row.stars <= 3
        /\ signals = {} => row.stars >= 3
=============================================================================
