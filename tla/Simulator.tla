----------------------------- MODULE Simulator -----------------------------
(* The deterministic mock LLM of lab 4 (simulator.py) over the corpus of      *)
(* make_data.py, the naive sem_filter and its cost window (operators_stub.py).*)
(* A hash is a choice: gold is drawn once, the one behind an error when its   *)
(* key is first used.  Rows are numbered from 1 in each kind; every call has  *)
(* the same number of tokens, so a price is one per tier.                     *)
EXTENDS Corpus

CONSTANTS Predicates,        \* predicate texts: [words, ranks]
          Tiers, PairTiers,  \* tiers of judge_filter and judge_pair callers
          Plans,             \* tiers sem_filter plans name
          Instances,         \* ModelTiers callers make and pass for a tier's name
          Units,             \* values of the hash behind an error, in thousandths
          IdRank,            \* id -> its place in the order of ids as strings
          Inputs,            \* what callers pass: docs, raw texts, rows without id
          Pairs,             \* pairs of rows they pass
          FilterRows,        \* rows they filter, and ask the score of
          MaxRows,           \* rows a sem_filter is given, at most
          SmokeRows,         \* rows the smoke test takes, 500 in the code
          Bases,             \* latent scores by doc, in hundredths, without gold and stars
          Twins,             \* pairs of docs of one kind that may join, by aspect
          MaxRuns,           \* generator runs started
          MaxSteps           \* calls made and generator runs started, in all

VARIABLES
  base,    \* doc -> 0.45 of the hash behind its latent score
  twins,   \* <<{doc, doc}, aspect>> of one kind that join
  coins,   \* key of an error -> its hash
  ledger,  \* entries [op, tier, usd]
  calls,   \* history: every call with its answer
  filter,  \* the sem_filter being evaluated, or Idle
  report   \* what the last sem_filter returned, its cost and its quality

vars == <<corpusVars, base, twins, coins, ledger, calls, filter, report>>

(* A row of the corpus, one whose columns but the id are missing (projected   *)
(* away, or cut off with the file), its text as a string, a row of no kind.   *)
Doc(kind, id) == [form |-> "row", kind |-> kind, id |-> id]
Cut(doc)      == [doc EXCEPT !.form = "cut"]
Raw(doc)      == [doc EXCEPT !.form = "text"]
NoIdRow       == [form |-> "row", kind |-> "none", id |-> 0]

ReviewDocs  == {Doc("review", r) : r \in Reviews}
ProductDocs == {Doc("product", p) : p \in Products}
Docs        == ReviewDocs \union ProductDocs

HasId(input) == input.kind # "none"

\* _doc_key; a raw text stands for itself.
Key(input) ==
  IF input.form = "text" THEN <<"text", input.kind, input.id>> ELSE <<input.kind, input.id>>

(* A filter is given rows of one table: an id names a row (load_csv).         *)
ASSUME FilterAssumption ==
  /\ MaxRows \in Nat /\ SmokeRows \in Nat
  /\ \A d, e \in FilterRows : d.id = e.id => Key(d) = Key(e)

(* 0.45 times a number below 1, for every row; rows that scores are asked of  *)
(* are rows of the corpus, or have no id.                                     *)
ASSUME ScoresAssumption ==
  /\ Bases \subseteq [{Key(d) : d \in Docs} -> 0 .. 44]
  /\ FilterRows \subseteq Docs \union {Cut(d) : d \in Docs} \union {NoIdRow}

ASSUME StepsAssumption == MaxSteps \in Nat

ASSUME IdRankAssumption ==
  /\ IdRank \in [Reviews \union Products -> Nat]
  /\ \A i, j \in Reviews \union Products : IdRank[i] = IdRank[j] => i = j

(* Prices of 1000 calls in cents, for one token number, and rates of errors   *)
(* in thousandths.                                                            *)
TIERS == [proxy    |-> [name |-> "proxy",    usd |-> 0,  error |-> 250],
          cheap    |-> [name |-> "cheap",    usd |-> 1,  error |-> 80],
          frontier |-> [name |-> "frontier", usd |-> 30, error |-> 20]]

GoldTier == [name |-> "gold", usd |-> 0, error |-> 0]

(* A tier that callers make has a name as they like, but not the oracle's.    *)
ASSUME TiersAssumption ==
  /\ Units \subseteq 0 .. 999
  /\ \A tier \in DOMAIN Instances :
       /\ tier \notin DOMAIN TIERS \union {"gold"}
       /\ Instances[tier].name # "gold" /\ Instances[tier].usd \in Nat

KnownTiers == DOMAIN TIERS \union DOMAIN Instances

(* _tier: what a known name stands for, or the instance itself.               *)
TierOf(tier) ==
  IF tier \in DOMAIN TIERS THEN TIERS[tier]
  ELSE IF tier = "gold" THEN GoldTier ELSE Instances[tier]

TierNames == {TierOf(tier).name : tier \in KnownTiers \union {"gold"}}

\* Answers: booleans, KeyError, or a latent score.
Yes   == 1
No    == 0
Error == -1

Idle     == [running |-> FALSE]
NoReport == [ready |-> FALSE]
----------------------------------------------------------------------------
(* Predicates.                                                                *)

AspectKeywords == <<"battery", "screen", "shipping", "audio", "sound",
                    "waterproof", "water", "lightweight", "weight">>

AspectAliases(word) ==
  CASE word = "sound" -> "audio" [] word = "water" -> "waterproof"
    [] word = "weight" -> "lightweight" [] OTHER -> word

(* The first keyword of the list that the predicate contains.                 *)
CanonicalAspect(predicate) ==
  LET found == SelectSeq(AspectKeywords, LAMBDA word : word \in predicate.words)
  IN  IF found = << >> THEN "pseudo" ELSE AspectAliases(found[1])

IsComparison(predicate) == predicate.ranks
----------------------------------------------------------------------------
(* Gold.                                                                      *)

(* A row: by its id.  Raw text: a fragment of the aspect, of either bank.     *)
TruthFilter(input, predicate) ==
  LET a == CanonicalAspect(predicate)
  IN  IF input.form = "text"
      THEN \E f \in Fragments(input.kind, input.id) : f[2] = a /\ f[3] = "signal"
      ELSE GroundTruth(input.kind, input.id, a)

(* The product_id field: a review's link, a product's own id.                 *)
ProductId(doc) ==
  IF doc.kind = "product" THEN doc.id
  ELSE IF doc.form = "cut" THEN 0 ELSE ProductOf(doc.id)

(* Join truth of a review and a product, in either order; two docs of one     *)
(* kind join by a rule of their own.                                          *)
TruthPair(left, right, aspect) ==
  LET rev  == IF left.kind = "review" THEN left ELSE right
      prod == IF left.kind = "review" THEN right ELSE left
  IN  IF left.kind = right.kind THEN <<{Key(left), Key(right)}, aspect>> \in twins
      ELSE /\ ProductId(rev) = prod.id
           /\ GroundTruth("review", rev.id, aspect)
           /\ GroundTruth("product", prod.id, aspect)

(* doc.get("stars", 3), also when the column is empty.                        *)
StarsOf(doc) == IF doc.kind = "review" /\ doc.form = "row" THEN Stars(doc.id) ELSE 3

TruthScore(doc, aspect) ==
  base[Key(doc)] + (IF GroundTruth(doc.kind, doc.id, aspect) THEN 100 ELSE 0)
    + 4 * (5 - StarsOf(doc))

(* Order of the keys kind:id as strings: products first, then ids as strings, *)
(* where "10" is before "9".                                                  *)
KeyAbove(d, e) ==
  IF d.kind = e.kind THEN IdRank[d.id] > IdRank[e.id] ELSE d.kind = "review"

(* Bug: no tie-break.                                                         *)
BeatsOnScore(left, right, aspect) == TruthScore(left, aspect) > TruthScore(right, aspect)

(* (ls, rkey) > (rs, lkey)                                                    *)
Beats(left, right, aspect) ==
  \/ TruthScore(left, aspect) > TruthScore(right, aspect)
  \/ /\ TruthScore(left, aspect) = TruthScore(right, aspect)
     /\ KeyAbove(right, left)

(* Ranking criteria ask who wins, join predicates whether the two match.      *)
PairTruth(left, right, predicate) ==
  IF IsComparison(predicate) THEN Beats(left, right, CanonicalAspect(predicate))
  ELSE TruthPair(left, right, CanonicalAspect(predicate))
----------------------------------------------------------------------------
(* Quality against frozen gold.                                               *)

(* Bug: a row that was not kept counts as missed, whatever gold says.         *)
GradeFilterAllMissed(rows, predicate, pred) ==
  LET Count(P(_)) == Cardinality({i \in DOMAIN rows : P(rows[i])})
  IN  [tp |-> Count(LAMBDA d : d.id \in pred /\ TruthFilter(d, predicate)),
       fp |-> Count(LAMBDA d : d.id \in pred /\ ~TruthFilter(d, predicate)),
       fn |-> Count(LAMBDA d : d.id \notin pred)]

GradeFilter(rows, predicate, pred) ==
  LET Count(P(_)) == Cardinality({i \in DOMAIN rows : P(rows[i])})
  IN  [tp |-> Count(LAMBDA d : d.id \in pred /\ TruthFilter(d, predicate)),
       fp |-> Count(LAMBDA d : d.id \in pred /\ ~TruthFilter(d, predicate)),
       fn |-> Count(LAMBDA d : d.id \notin pred /\ TruthFilter(d, predicate))]

(* Bug: the linked product need not be among the right docs.                  *)
GoldPairsUnchecked(left, right, aspect) ==
  {<<l.id, ProductId(l)>> : l \in {d \in left : GroundTruth(d.kind, d.id, aspect)}}

(* grade_pairs: one candidate per left doc, the right doc its product_id names. *)
GoldPairs(left, right, aspect) ==
  {<<l.id, ProductId(l)>> :
     l \in {d \in left : \E r \in right : r.id = ProductId(d) /\ TruthPair(d, r, aspect)}}

(* ndcg_at_k: sums of scores over positions, discounted by 1 / log2(i + 2).   *)
Discounts == <<1000, 631, 500, 431>>

Dcg(gains, k) ==
  FoldLeft(LAMBDA sum, i : sum + gains[i] * Discounts[i], 0,
           [i \in 1 .. Min({k, Len(gains)}) |-> i])

(* A doc that is not in the universe gains nothing.                           *)
Gains(ranked, universe, aspect) ==
  [i \in DOMAIN ranked |-> IF ranked[i] \in universe THEN TruthScore(ranked[i], aspect) ELSE 0]

(* Bug: reverse=True is forgotten.                                            *)
IdealGainsAscending(universe, aspect) ==
  LET scored == SetToSortSeq(universe, LAMBDA d, e : TruthScore(d, aspect) < TruthScore(e, aspect))
  IN  Gains(scored, universe, aspect)

(* What the denominator sums: the scores themselves, largest first.           *)
IdealGains(universe, aspect) ==
  LET scored == SetToSortSeq(universe, LAMBDA d, e : TruthScore(d, aspect) > TruthScore(e, aspect))
  IN  Gains(scored, universe, aspect)
----------------------------------------------------------------------------
(* The ledger.                                                                *)

Entry(op, tier) == [op |-> op, tier |-> TierOf(tier).name, usd |-> TierOf(tier).usd]

Bill(op, tier) == ledger' = Append(ledger, Entry(op, tier))

(* Every cent on the bill, named by the entry it is paid for.                 *)
Cents(entries) == UNION {{i} \X (1 .. entries[i].usd) : i \in DOMAIN entries}

(* total_usd, of the whole ledger, a window of it or the entries of a tier.   *)
Spent(entries) == Cardinality(Cents(entries))

OfTier(entries, tier) == Restrict(entries, {i \in DOMAIN entries : entries[i].tier = tier})

ByTier(entries) ==
  [tier \in {entries[i].tier : i \in DOMAIN entries} |->
     [calls |-> Cardinality(DOMAIN OfTier(entries, tier)), usd |-> Spent(OfTier(entries, tier))]]

OracleOps == {"oracle_filter", "oracle_pair", "oracle_score"}

OracleTouches(entries) == Cardinality({i \in DOMAIN entries : entries[i].op \in OracleOps})

(* Bug: start_index is forgotten.                                             *)
MeasureAll(mark) ==
  [calls |-> Len(ledger), usd |-> Spent(ledger), by_tier |-> ByTier(ledger)]

Measure(mark) ==
  LET window == SubSeq(ledger, mark + 1, Len(ledger))
  IN  [calls |-> Len(window), usd |-> Spent(window), by_tier |-> ByTier(window)]
----------------------------------------------------------------------------
(* Answers.                                                                   *)

(* Bug: the hash also depends on how many calls came before.                  *)
CoinKeyCounted(tier, kind, docs, predicate) ==
  <<TierOf(tier).name, kind, [i \in DOMAIN docs |-> Key(docs[i])], predicate, Len(ledger)>>

(* Keys only: what else a row carries does not move the hash.                 *)
CoinKey(tier, kind, docs, predicate) ==
  <<TierOf(tier).name, kind, [i \in DOMAIN docs |-> Key(docs[i])], predicate>>

(* The hash of a key, drawn when it is first needed.                          *)
Toss(key, unit) ==
  /\ unit \in IF key \in DOMAIN coins THEN {coins[key]} ELSE Units
  /\ coins' = [k \in {key} \union DOMAIN coins |-> IF k = key THEN unit ELSE coins[k]]

(* Rates of errors by truth, in twentieths of the tier's: the cheap tier says *)
(* yes too often, pairs are missed rather than made up.                       *)
Share(truth, name, kind) ==
  CASE kind = "compare" -> 20
    [] kind = "pair"    -> IF truth THEN 20 ELSE IF name = "cheap" THEN 5 ELSE 0
    [] kind = "filter"  -> IF name = "cheap" THEN IF truth THEN 5 ELSE 30
                           ELSE IF truth THEN 20 ELSE 2

(* _flip; the proxy's score is on the wrong side of 0.5 in one tail of its    *)
(* noise, by truth the lower or the upper one.                                *)
Flipped(unit, truth, tier, kind) ==
  IF kind = "score" THEN IF truth THEN unit < tier.error ELSE unit >= 1000 - tier.error
  ELSE 20 * unit < Share(truth, tier.name, kind) * tier.error

Call(op, docs, predicate, tier) ==
  [op |-> op, docs |-> docs, predicate |-> predicate, tier |-> tier]

Record(call, answer) == calls' = Append(calls, [call |-> call, answer |-> answer])

(* Bug: the call is billed before it raises.                                  *)
RaisesBilled(call) ==
  /\ ledger' = Append(ledger, [op |-> call.op, tier |-> call.tier, usd |-> 0])
  /\ Record(call, Error)
  /\ UNCHANGED coins

(* An unknown tier or a row without id raises KeyError before the bill.       *)
Raises(call) ==
  /\ Record(call, Error)
  /\ UNCHANGED <<coins, ledger>>

(* A judge or the proxy: the hash, the bill, the answer.                      *)
Judges(call, kind, truth, answer) ==
  \E unit \in Units :
    /\ Toss(CoinKey(call.tier, kind, call.docs, call.predicate), unit)
    /\ Bill(call.op, call.tier)
    /\ answer = (IF Flipped(unit, truth, TierOf(call.tier), kind) = truth THEN No ELSE Yes)
    /\ Record(call, answer)

Refused(call) == call.tier \notin KnownTiers \/ \E i \in DOMAIN call.docs : ~HasId(call.docs[i])

JudgeFilter(input, predicate, tier, answer) ==
  LET call == Call("judge_filter", <<input>>, predicate, tier)
  IN  IF Refused(call) THEN answer = Error /\ Raises(call)
      ELSE Judges(call, "filter", TruthFilter(input, predicate), answer)

(* One script at a time.                                                      *)
CanCall == gen = 0 /\ ~filter.running /\ runs + Len(calls) < MaxSteps

BetweenFilters == CanCall /\ UNCHANGED <<corpusVars, base, twins, filter, report>>

YesNo == {Yes, No}

AskFilter(input, predicate, tier) ==
  BetweenFilters /\ \E answer \in YesNo \union {Error} : JudgeFilter(input, predicate, tier, answer)

AskPair(left, right, predicate, tier) ==
  /\ BetweenFilters
  /\ LET call == Call("judge_pair", <<left, right>>, predicate, tier)
     IN  IF Refused(call) THEN Raises(call)
         ELSE \E answer \in YesNo :
                Judges(call, IF IsComparison(predicate) THEN "compare" ELSE "pair",
                       PairTruth(left, right, predicate), answer)

(* The proxy's score, as the side of 0.5 it falls on.                         *)
ScoreProxy(input, predicate) ==
  /\ BetweenFilters
  /\ LET call == Call("score_proxy", <<input>>, predicate, "proxy")
     IN  IF Refused(call) THEN Raises(call)
         ELSE \E answer \in YesNo : Judges(call, "score", TruthFilter(input, predicate), answer)

(* The oracle is ledgered before it looks, also when it then raises.          *)
Oracle(op, docs, predicate, answer) ==
  LET call == Call(op, docs, predicate, "gold")
  IN  /\ BetweenFilters
      /\ Bill(op, "gold")
      /\ Record(call, IF \A i \in DOMAIN docs : HasId(docs[i]) THEN answer ELSE Error)
      /\ UNCHANGED coins

OracleFilter(input, predicate) ==
  Oracle("oracle_filter", <<input>>, predicate, IF TruthFilter(input, predicate) THEN Yes ELSE No)

OraclePair(left, right, predicate) ==
  Oracle("oracle_pair", <<left, right>>, predicate,
         IF PairTruth(left, right, predicate) THEN Yes ELSE No)

OracleScore(row, criterion) ==
  Oracle("oracle_score", <<row>>, criterion, TruthScore(row, CanonicalAspect(criterion)))

(* Ledger.reset, between two pipelines.                                       *)
Reset ==
  /\ BetweenFilters
  /\ ledger' = << >>
  /\ Record(Call("reset", << >>, [words |-> {}, ranks |-> FALSE], "none"), No)
  /\ UNCHANGED coins
----------------------------------------------------------------------------
(* The naive sem_filter and its report.                                       *)

(* A plan that holds a cascade raises at once; one that does not names the    *)
(* tier, which is frontier without a plan.                                    *)
StartFilter(rows, predicate, tier) ==
  /\ CanCall /\ runs + Len(calls) + Len(rows) <= MaxSteps
  /\ filter' = [running |-> TRUE, rows |-> rows, predicate |-> predicate, tier |-> tier,
                at |-> 1, kept |-> << >>, mark |-> Len(ledger)]
  /\ report' = NoReport
  /\ UNCHANGED <<corpusVars, base, twins, coins, ledger, calls>>

(* load_csv: the rows of a file, torn or not; a row that was cut short is     *)
(* read with columns missing.                                                 *)
LoadCsv(file, kind) ==
  [i \in DOMAIN disk[file].rows |-> Doc(kind, disk[file].rows[i].id)]
    \o (IF disk[file].cut THEN <<Cut(Doc(kind, Len(disk[file].rows) + 1))>> ELSE << >>)

(* The smoke test filters the first reviews of whatever the file holds.       *)
SmokeTest(predicate) ==
  /\ disk.reviews.there
  /\ LET rows == LoadCsv("reviews", "review")
     IN  StartFilter(SubSeq(rows, 1, Min({SmokeRows, Len(rows)})), predicate, "frontier")

(* One row of the comprehension; a row without id ends it with an exception.  *)
FilterRow ==
  /\ filter.running /\ filter.at <= Len(filter.rows)
  /\ LET row == filter.rows[filter.at]
     IN  \E answer \in YesNo \union {Error} :
           /\ JudgeFilter(row, filter.predicate, filter.tier, answer)
           /\ filter' =
                IF answer = Error THEN Idle
                ELSE [filter EXCEPT !.at = @ + 1,
                                    !.kept = IF answer = Yes THEN Append(@, row) ELSE @]
  /\ UNCHANGED <<corpusVars, base, twins, report>>

FilterDone ==
  /\ filter.running /\ filter.at > Len(filter.rows)
  /\ report' = [ready |-> TRUE, rows |-> filter.rows, predicate |-> filter.predicate,
                tier |-> filter.tier, kept |-> filter.kept, cost |-> Measure(filter.mark),
                quality |-> GradeFilter(filter.rows, filter.predicate,
                                        {filter.kept[i].id : i \in DOMAIN filter.kept})]
  /\ filter' = Idle
  /\ UNCHANGED <<corpusVars, base, twins, coins, ledger, calls>>

(* Generator runs, before the pipelines.                                      *)
Generate ==
  /\ ~filter.running /\ calls = << >>
  /\ gen = 0 => runs < MaxRuns /\ runs + Len(calls) < MaxSteps
  /\ GenNext
  /\ UNCHANGED <<base, twins, coins, ledger, calls, filter, report>>

Init ==
  /\ CorpusInit
  /\ base \in Bases
  /\ twins \in SUBSET Twins
  /\ coins = << >>
  /\ ledger = << >>
  /\ calls = << >>
  /\ filter = Idle
  /\ report = NoReport

(* Calls callers make, on rows of a corpus that is complete.                  *)
Pipeline ==
  \/ \E predicate \in {p \in Predicates : ~IsComparison(p)} :
       \/ \E input \in Inputs :
            \/ \E tier \in Tiers : AskFilter(input, predicate, tier)
            \/ ScoreProxy(input, predicate)
            \/ OracleFilter(input, predicate)
       \/ \E rows \in SeqOf(FilterRows, MaxRows) \ {<< >>}, tier \in Plans :
            StartFilter(rows, predicate, tier)
  \/ \E predicate \in {p \in Predicates : IsComparison(p)}, row \in FilterRows :
       OracleScore(row, predicate)
  \/ \E predicate \in Predicates, pair \in Pairs :
       \/ OraclePair(pair[1], pair[2], predicate)
       \/ \E tier \in PairTiers : AskPair(pair[1], pair[2], predicate, tier)
  \/ Reset

Next ==
  \/ Generate
  \/ CanCall /\ Complete /\ Pipeline
  \/ \E predicate \in {p \in Predicates : ~IsComparison(p)} : SmokeTest(predicate)
  \/ FilterRow
  \/ FilterDone

Spec == Init /\ [][Next]_vars
----------------------------------------------------------------------------
TypeOK ==
  /\ CorpusTypeOK
  /\ coins \in [DOMAIN coins -> Units]
  /\ \A i \in DOMAIN ledger : ledger[i].tier \in TierNames /\ ledger[i].usd \in Nat
  /\ \A i \in DOMAIN calls : calls[i].answer \in Nat \union {Error}
  /\ runs + Len(calls) <= MaxSteps
  /\ filter.running => filter.mark \in 0 .. Len(ledger)

(* What gold reads of a row besides its id: stars to rank, the link to join.  *)
Reads(call) ==
  IF call.op \in {"judge_filter", "oracle_filter", "score_proxy", "reset"} THEN << >>
  ELSE IF call.op = "oracle_score" \/ IsComparison(call.predicate)
       THEN [i \in DOMAIN call.docs |-> StarsOf(call.docs[i])]
  ELSE [i \in DOMAIN call.docs |-> ProductId(call.docs[i])]

SameQuestion(c, d) ==
  /\ [c EXCEPT !.docs = [i \in DOMAIN @ |-> Key(@[i])]]
       = [d EXCEPT !.docs = [i \in DOMAIN @ |-> Key(@[i])]]
  /\ Reads(c) = Reads(d)

(* The simulator is deterministic: a question that is asked again, whatever   *)
(* was asked in between and by whom, gets the answer it got before.  Filters  *)
(* and scores are asked of ids, so that rows that were re-wrapped and lost    *)
(* columns are the same question; rankings also read the stars, and joins the *)
(* product_id, of the very row that is passed.                                *)
AnswersRepeat ==
  \A i, j \in DOMAIN calls :
    SameQuestion(calls[i].call, calls[j].call) => calls[i].answer = calls[j].answer

(* Calls since the last reset that were answered, or that touched the oracle. *)
Billed ==
  {i \in DOMAIN calls :
     /\ calls[i].answer # Error \/ calls[i].call.op \in OracleOps
     /\ \A j \in i .. Len(calls) : calls[j].call.op # "reset"}

(* One accounting choke point: since the last reset the ledger holds one      *)
(* entry for every call that was answered and every oracle touch, in call     *)
(* order, and nothing for calls that raised.                                  *)
LedgerIsComplete ==
  /\ Len(ledger) = Cardinality(Billed)
  /\ \A i \in Billed :
       ledger[Cardinality({j \in Billed : j <= i})]
         = Entry(calls[i].call.op, calls[i].call.tier)

(* The sum of a function's values.                                            *)
Total(f) == Cardinality(UNION {{t} \X (1 .. f[t]) : t \in DOMAIN f})

(* Tiers split the ledger, whatever names they have: what they sum to is what *)
(* was spent in all, and the gold tier is the oracle's.                       *)
TiersAddUp ==
  LET by == ByTier(ledger)
  IN  /\ Spent(ledger) = Total([tier \in DOMAIN by |-> by[tier].usd])
      /\ Len(ledger) = Total([tier \in DOMAIN by |-> by[tier].calls])
      /\ OracleTouches(ledger) = IF "gold" \in DOMAIN by THEN by["gold"].calls ELSE 0

(* The state is well typed, the ledger complete, and its views agree.         *)
LedgerSound == TypeOK /\ LedgerIsComplete /\ TiersAddUp

(* The cost a sem_filter reports is its own: one call per row, of its own     *)
(* tier, and nothing of the calls made before it.                             *)
CostIsOwn ==
  report.ready =>
    LET n    == Len(report.rows)
        tier == TierOf(report.tier)
        own  == [calls |-> n, usd |-> n * tier.usd]
    IN  report.cost = [calls |-> own.calls, usd |-> own.usd,
                       by_tier |-> [name \in {tier.name : i \in 1 .. n} |-> own]]

(* The quality a sem_filter is graded with counts exactly the model's errors: *)
(* wrong rows kept and right rows dropped are the rows whose hash is below    *)
(* the rate of their truth.                                                   *)
QualityCountsErrors ==
  report.ready =>
    LET Errs(row) ==
          Flipped(coins[CoinKey(report.tier, "filter", <<row>>, report.predicate)],
                  TruthFilter(row, report.predicate), TierOf(report.tier), "filter")
    IN  report.quality.fp + report.quality.fn =
          Cardinality({i \in DOMAIN report.rows : Errs(report.rows[i])})
----------------------------------------------------------------------------
(* Gold.  It depends on the draws alone: it is judged once for each of them,  *)
(* in the initial states.                                                     *)
Untouched == calls = << >> /\ runs = 0 /\ ~filter.running

(* Gold comparisons are a strict total order, ties of the score included:     *)
(* the ranking sem_topk is graded against is one ranking.                     *)
ComparisonsTotal ==
  \A a \in Aspects, d, e \in Docs :
    /\ ~Beats(d, d, a)
    /\ d # e => Beats(d, e, a) # Beats(e, d, a)
    /\ \A f \in Docs : Beats(d, e, a) /\ Beats(e, f, a) => Beats(d, f, a)

(* A row, as a caller passes it on: whole, or re-wrapped with columns lost.   *)
Forms(doc) == {doc, Cut(doc)}

(* True positives dominate: no stars and no base make up for gold, so that    *)
(* re-wrapping moves a row only among the rows of its own truth.              *)
GoldDominates ==
  \A a \in Aspects, d, e \in Docs :
    GroundTruth(d.kind, d.id, a) /\ ~GroundTruth(e.kind, e.id, a)
      => \A l \in Forms(d), r \in Forms(e) : Beats(l, r, a)

(* Sorting by gold comparisons, which break ties by key, reaches the ideal    *)
(* that ndcg_at_k computes from scores alone, at every k; no ranking without  *)
(* repetitions exceeds it.                                                    *)
RankingIsIdeal ==
  \A universe \in SUBSET Docs, a \in Aspects, k \in 1 .. 4 :
    LET best  == SetToSortSeq(universe, LAMBDA d, e : Beats(d, e, a))
        ideal == Dcg(IdealGains(universe, a), k)
    IN  /\ Dcg(Gains(best, universe, a), k) = ideal
        /\ \A ranked \in SetToSeqs(universe) : Dcg(Gains(ranked, universe, a), k) <= ideal

(* nDCG measures the distance from the ranking by gold comparisons.           *)
RankingSound == Untouched => RankingIsIdeal

(* All pairs, one by one.                                                     *)
AllGoldPairs(left, right, aspect) ==
  {<<pair[1].id, pair[2].id>> : pair \in {lr \in left \X right : TruthPair(lr[1], lr[2], aspect)}}

(* The gold set of a join of reviews with products, enumerated through the    *)
(* links, is the set of all pairs that match, and either side may come first  *)
(* when a pair is asked about.                                                *)
GoldPairsExact ==
  \A a \in Aspects :
    /\ \A left \in SUBSET ReviewDocs, right \in SUBSET ProductDocs :
         GoldPairs(left, right, a) = AllGoldPairs(left, right, a)
    /\ \A d, e \in Docs : TruthPair(d, e, a) = TruthPair(e, d, a)

(* Re-wrapped rows that lost the link join with nothing they did not join     *)
(* with before: gold has no pair that the corpus does not have.               *)
RewrapAddsNoPairs ==
  \A a \in Aspects, d, e \in Docs : \A l \in Forms(d), r \in Forms(e) :
    TruthPair(l, r, a) => TruthPair(d, e, a)

(* Gold tells one story, in whatever form it is asked for: there is one       *)
(* ranking a top-k is graded against, gold rows first, the enumerated gold of *)
(* a join is what the oracle says of its pairs one by one, and callers that   *)
(* re-wrap rows, against the word of simulator.py:25, move gold no further.   *)
GoldSound ==
  Untouched => ComparisonsTotal /\ GoldDominates /\ GoldPairsExact /\ RewrapAddsNoPairs

(* A row and its raw text are judged alike for every aspect that make_data    *)
(* plants fragments of in rows of its kind.                                   *)
TextAgrees ==
  \A d \in Docs, p \in Predicates :
    CanonicalAspect(p) \in Signals[d.kind] => TruthFilter(Raw(d), p) = TruthFilter(d, p)

(* Files, texts and gold tell one story, whatever runs failed.                *)
CorpusSound == ReportedIsComplete /\ FilesAgree /\ StarsConfounded /\ TextAgrees
=============================================================================
