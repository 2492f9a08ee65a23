---------------------------- MODULE WalgenProofs ----------------------------
(* The workload generator for any numbers of pages, records and branches, and *)
(* record sizes: the streams it emits, the files it leaves and its plan.      *)
EXTENDS Walgen, TLAPS

(* The end offset of a stream that starts at an LSN.                          *)
EndsAt(stream, start, end) ==
  end = IF stream = <<>> THEN start ELSE stream[Len(stream)].lsn

(* Pages the stream holds a full image of.                                    *)
Imaged(stream) ==
  {stream[i].page : i \in {j \in DOMAIN stream : stream[j].kind = "FULL_PAGE"}}

(* A stream that starts at an LSN, above pages that already have a base: LSNs *)
(* are end offsets and rise, and a record is a full image exactly when its    *)
(* page has no base yet.                                                      *)
Rising(stream, start) ==
  /\ \A i \in DOMAIN stream : start < stream[i].lsn
  /\ \A i, j \in DOMAIN stream : i < j => stream[i].lsn < stream[j].lsn
BasesHold(stream, bases) ==
  \A i \in DOMAIN stream :
    IF stream[i].kind = "DELTA"
    THEN \/ stream[i].page \in bases
         \/ \E j \in 1 .. i - 1 : Image(stream[j], stream[i].page)
    ELSE /\ stream[i].page \notin bases
         /\ \A j \in 1 .. i - 1 : ~Image(stream[j], stream[i].page)
Stream(stream, start, bases) ==
  /\ stream \in Seq(Record)
  /\ EndOffsets(stream, start)
  /\ Rising(stream, start)
  /\ BasesHold(stream, bases)

(* LSNs a branch may fork at.                                                 *)
ForkPoints == {mainRecs[i + 1].lsn : i \in Lo .. Hi - 1}

(* What holds of main: it is a stream from LSN 0 without any base, and        *)
(* firstTouch knows its images; once written, its file holds it.              *)
MainInv ==
  /\ Stream(mainRecs, 0, {})
  /\ EndsAt(mainRecs, 0, lsn)
  /\ DOMAIN firstTouch = Imaged(mainRecs)
  /\ \A i \in DOMAIN mainRecs :
       mainRecs[i].kind = "FULL_PAGE" => firstTouch[mainRecs[i].page] = mainRecs[i].lsn
  /\ Len(mainRecs) <= RECORDS
  /\ stage \in {"fork", "branch", "plan", "done"} =>
       Len(mainRecs) = RECORDS /\ 1 \in DOMAIN files /\ files[1] = mainRecs

(* What holds of the branch that is being generated: it is a stream from its  *)
(* fork over the base map of the fork.                                        *)
BranchInv ==
  stage = "branch" =>
    /\ fork \in ForkPoints
    /\ Stream(recs, fork, BasedAt(fork))
    /\ EndsAt(recs, fork, cur)
    /\ based = BasedAt(fork) \cup Imaged(recs)
    /\ Len(recs) <= BRANCH_RECORDS

(* An entry of the plan.                                                      *)
PlanBranch == [fork_lsn : Nat, wal_file : Nat, records : Nat, head_lsn : Nat]

(* What the plan will say of a branch that is written.                        *)
WrittenBranch(b, n) ==
  /\ b.wal_file = n + 1 /\ b.records = BRANCH_RECORDS
  /\ n + 1 \in DOMAIN files
  /\ Len(mainRecs) = RECORDS /\ b.fork_lsn \in ForkPoints
  /\ Stream(files[n + 1], b.fork_lsn, BasedAt(b.fork_lsn))
  /\ EndsAt(files[n + 1], b.fork_lsn, b.head_lsn)
  /\ Len(files[n + 1]) = BRANCH_RECORDS

(* What holds of the branches that are written, also after a later write has  *)
(* failed.                                                                    *)
WrittenInv ==
  /\ branches \in Seq(PlanBranch)
  /\ \A n \in DOMAIN branches : WrittenBranch(branches[n], n)
  /\ stage = "main" => branches = <<>>
  /\ stage \in {"fork", "branch"} => Len(branches) < BRANCHES
  /\ stage \in {"plan", "done"} => Len(branches) = BRANCHES

(* What the directory holds besides: the plan is the one found until the plan *)
(* of this run is written, and streams that are not reached are as found.     *)
PlanInv ==
  /\ found \in OldWorkloads
  /\ \/ plan = found.plan /\ stage # "done"
     \/ plan = NoPlan /\ failed /\ stage = "plan"
     \/ plan = PlanOf(branches) /\ stage = "done"
  /\ OthersAsFound

(* The inductive invariant.                                                   *)
IInv == TypeOK /\ MainInv /\ BranchInv /\ WrittenInv /\ PlanInv
-----------------------------------------------------------------------------
(* Membership of the pages with an image.                                     *)
LEMMA ImagedIff ==
  ASSUME NEW s, NEW page
  PROVE  page \in Imaged(s) <=> \E i \in DOMAIN s : Image(s[i], page)
BY DEF Imaged, Image

(* Emitting one more record keeps a stream one.                               *)
LEMMA StreamGrows ==
  ASSUME NEW s, NEW start \in Nat, NEW bases, NEW end,
         Stream(s, start, bases), EndsAt(s, start, end),
         NEW page \in Nat, NEW size \in Nat \ {0},
         NEW hasBase \in BOOLEAN, hasBase <=> page \in bases \cup Imaged(s)
  PROVE  LET rec == Emit(page, hasBase, end, size) IN
         /\ rec \in Record /\ rec.lsn > end
         /\ Stream(Append(s, rec), start, bases)
         /\ EndsAt(Append(s, rec), start, rec.lsn)
         /\ Imaged(Append(s, rec)) = IF hasBase THEN Imaged(s) ELSE Imaged(s) \cup {page}
<1> DEFINE rec == Emit(page, hasBase, end, size)
           t   == Append(s, rec)
           len == Len(s)
<1>1. /\ s \in Seq(Record) /\ len \in Nat /\ DOMAIN s = 1 .. len
      /\ \A i \in 1 .. len : s[i] \in Record
  BY DEF Stream
<1> HIDE DEF len
<1>2. end \in Nat /\ start <= end /\ \A i \in 1 .. len : s[i].lsn <= end
  <2>1. CASE len = 0
    BY <1>1, <2>1 DEF EndsAt, len
  <2>2. CASE len > 0
    <3>1. end = s[len].lsn /\ len \in 1 .. len
      BY <1>1, <2>2 DEF EndsAt, len
    <3>2. \A i \in 1 .. len : i = len \/ i < len
      BY <1>1
    <3>3. /\ start < s[len].lsn /\ s[len].lsn \in Nat
          /\ \A i \in 1 .. len : s[i].lsn \in Nat
      BY <1>1, <3>1 DEF Stream, Rising, Record
    <3>4. \A i \in 1 .. len : i < len => s[i].lsn < s[len].lsn
      BY <1>1, <3>1 DEF Stream, Rising
    <3>5. start <= end /\ \A i \in 1 .. len : s[i].lsn <= end
      BY <3>1, <3>2, <3>3, <3>4
    <3> QED
      BY <3>1, <3>3, <3>5
  <2> QED
    BY <1>1, <2>1, <2>2
<1>3. /\ rec = [lsn |-> end + size, page |-> page, size |-> size,
                kind |-> IF hasBase THEN "DELTA" ELSE "FULL_PAGE"]
      /\ rec \in Record /\ rec.lsn > end
  BY <1>2 DEF Emit, Record
<1> HIDE DEF rec
<1>4. /\ t \in Seq(Record) /\ Len(t) = len + 1 /\ DOMAIN t = 1 .. len + 1
      /\ t[len + 1] = rec /\ \A i \in 1 .. len : t[i] = s[i]
  BY <1>1, <1>3
<1> HIDE DEF t
<1>5. \A i \in 1 .. len + 1 : i \in 1 .. len \/ i = len + 1
  BY <1>1 DEF len
<1>6. EndOffsets(t, start)
  <2> SUFFICES ASSUME NEW i \in 1 .. len + 1
               PROVE  t[i].lsn - t[i].size = IF i = 1 THEN start ELSE t[i - 1].lsn
    BY <1>4 DEF EndOffsets
  <2>1. CASE i \in 1 .. len
    <3>1. s[i].lsn - s[i].size = IF i = 1 THEN start ELSE s[i - 1].lsn
      BY <1>1, <2>1 DEF Stream, EndOffsets
    <3>2. i = 1 \/ i - 1 \in 1 .. len
      BY <1>1, <2>1
    <3> QED
      BY <1>4, <2>1, <3>1, <3>2
  <2>2. CASE i = len + 1
    <3>1. rec.lsn - rec.size = end
      BY <1>2, <1>3
    <3>2. end = IF i = 1 THEN start ELSE t[i - 1].lsn
      <4>1. CASE len = 0
        BY <1>1, <2>2, <4>1 DEF EndsAt, len
      <4>2. CASE len > 0
        BY <1>1, <1>4, <2>2, <4>2 DEF EndsAt, len
      <4> QED
        BY <1>1, <4>1, <4>2
    <3> QED
      BY <1>4, <2>2, <3>1, <3>2
  <2> QED
    BY <1>5, <2>1, <2>2
<1>7. Rising(t, start)
  <2>1. \A i \in 1 .. len + 1 : start < t[i].lsn
    <3>1. \A i \in 1 .. len : start < s[i].lsn
      BY <1>1 DEF Stream, Rising
    <3>2. start < rec.lsn
      BY <1>2, <1>3 DEF Record
    <3> QED
      BY <1>4, <1>5, <3>1, <3>2
  <2>2. ASSUME NEW i \in 1 .. len + 1, NEW j \in 1 .. len + 1, i < j
        PROVE  t[i].lsn < t[j].lsn
    <3>1. i \in 1 .. len
      BY <1>1, <2>2
    <3>2. CASE j \in 1 .. len
      BY <1>1, <1>4, <2>2, <3>1, <3>2 DEF Stream, Rising
    <3>3. CASE j = len + 1
      BY <1>1, <1>2, <1>3, <1>4, <3>1, <3>3 DEF Record
    <3> QED
      BY <1>5, <3>2, <3>3
  <2> QED
    BY <1>4, <2>1, <2>2 DEF Rising
<1>8. BasesHold(t, bases)
  <2> SUFFICES ASSUME NEW i \in 1 .. len + 1
               PROVE  IF t[i].kind = "DELTA"
                      THEN \/ t[i].page \in bases
                           \/ \E j \in 1 .. i - 1 : Image(t[j], t[i].page)
                      ELSE /\ t[i].page \notin bases
                           /\ \A j \in 1 .. i - 1 : ~Image(t[j], t[i].page)
    BY <1>4 DEF BasesHold
  <2>1. \A j \in 1 .. i - 1 : j \in 1 .. len /\ t[j] = s[j]
    BY <1>1, <1>4
  <2>2. CASE i \in 1 .. len
    BY <1>1, <1>4, <2>1, <2>2 DEF Stream, BasesHold
  <2>3. CASE i = len + 1
    <3>1. 1 .. i - 1 = 1 .. len
      BY <1>1, <2>3
    <3>2. t[i].page = page /\ (t[i].kind = "DELTA" <=> hasBase)
      BY <1>3, <1>4, <2>3
    <3> QED
      BY <1>1, <2>1, <3>1, <3>2, ImagedIff
  <2> QED
    BY <1>5, <2>2, <2>3
<1>9. EndsAt(t, start, rec.lsn)
  <2>1. t # <<>>
    BY <1>1, <1>4
  <2> QED
    BY <1>4, <2>1 DEF EndsAt
<1>10. Imaged(t) = IF hasBase THEN Imaged(s) ELSE Imaged(s) \cup {page}
  <2>1. rec.page = page /\ (rec.kind = "FULL_PAGE" <=> ~hasBase)
    BY <1>3
  <2> QED
    BY <1>1, <1>4, <1>5, <2>1 DEF Imaged
<1> QED
  BY <1>3, <1>4, <1>6, <1>7, <1>8, <1>9, <1>10 DEF Stream, rec, t

(* The empty stream.                                                          *)
LEMMA EmptyStream ==
  ASSUME NEW start, NEW bases
  PROVE  Stream(<<>>, start, bases) /\ EndsAt(<<>>, start, start) /\ Imaged(<<>>) = {}
BY DEF Stream, EndOffsets, Rising, BasesHold, EndsAt, Imaged
-----------------------------------------------------------------------------
(* A run starts with empty streams in whatever directory.                     *)
LEMMA InitIInv == Init => IInv
<1> SUFFICES ASSUME Init PROVE IInv
  OBVIOUS
<1>1. /\ mainRecs = <<>> /\ recs = <<>> /\ branches = <<>> /\ stage = "main" /\ lsn = 0
      /\ firstTouch = [p \in {} |-> 0] /\ fork = 0 /\ based = {} /\ cur = 0
      /\ found \in OldWorkloads /\ files = found.files /\ plan = found.plan /\ failed = FALSE
  BY DEF Init
<1>2. TypeOK
  <2>1. DOMAIN files \subseteq Nat /\ files \in [DOMAIN files -> Seq(Record)]
    BY <1>1, OldWorkloadsAssumption
  <2>2. DOMAIN firstTouch = {} /\ firstTouch \in [DOMAIN firstTouch -> Nat]
    BY <1>1
  <2>3. Len(branches) <= BRANCHES
    BY <1>1, SizesAssumption
  <2>4. failed \in BOOLEAN
    BY <1>1
  <2>5. /\ stage \in {"main", "fork", "branch", "plan", "done"}
        /\ mainRecs \in Seq(Record) /\ recs \in Seq(Record)
        /\ lsn \in Nat /\ cur \in Nat /\ fork \in Nat /\ based \subseteq Pages
    BY <1>1
  <2>6. DOMAIN firstTouch \subseteq Pages
    BY <2>2
  <2> QED
    BY <2>1, <2>2, <2>3, <2>4, <2>5, <2>6 DEF TypeOK
<1>3. MainInv
  <2>1. DOMAIN firstTouch = {} /\ DOMAIN mainRecs = {} /\ Len(mainRecs) = 0
    BY <1>1
  <2> QED
    BY <1>1, <2>1, EmptyStream, SizesAssumption DEF MainInv
<1>4. BranchInv /\ WrittenInv /\ PlanInv
  BY <1>1 DEF BranchInv, WrittenInv, PlanInv, OthersAsFound
<1> QED
  BY <1>2, <1>3, <1>4 DEF IInv

(* Once main is written, forks are drawn from records it has.                 *)
LEMMA ForkIsOnMain ==
  ASSUME IInv, stage \in {"fork", "branch", "plan", "done"}, NEW i \in Lo .. Hi - 1
  PROVE  i \in Nat /\ i + 1 \in DOMAIN mainRecs /\ mainRecs[i + 1].lsn \in Nat
<1>1. RECORDS \div 10 \in Nat
  BY SizesAssumption
<1>2. Len(mainRecs) = RECORDS /\ mainRecs \in Seq(Record)
  BY DEF IInv, MainInv, Stream
<1>3. i \in Nat /\ i + 1 \in 1 .. RECORDS
  BY <1>1, SizesAssumption DEF Lo, Hi
<1>4. i + 1 \in DOMAIN mainRecs /\ mainRecs[i + 1] \in Record
  BY <1>2, <1>3
<1> QED
  BY <1>3, <1>4 DEF Record

(* A step that leaves main alone keeps what is said of it and of forks.       *)
LEMMA MainKept ==
  ASSUME MainInv, UNCHANGED mainvars,
         stage' \in {"fork", "branch", "plan", "done"} =>
           Len(mainRecs) = RECORDS /\ 1 \in DOMAIN files' /\ files'[1] = mainRecs
  PROVE  /\ MainInv'
         /\ ForkPoints' = ForkPoints
         /\ \A f : BasedAt(f)' = BasedAt(f)
BY DEF MainInv, mainvars, ForkPoints, BasedAt

(* Branches that are written stay as they are while no file of theirs is      *)
(* written again.                                                             *)
LEMMA BranchesKept ==
  ASSUME UNCHANGED mainvars, NEW n, NEW b, WrittenBranch(b, n),
         n + 1 \in DOMAIN files', files'[n + 1] = files[n + 1]
  PROVE  WrittenBranch(b, n)'
<1>1. ForkPoints' = ForkPoints /\ BasedAt(b.fork_lsn)' = BasedAt(b.fork_lsn)
  BY DEF mainvars, ForkPoints, BasedAt
<1> QED
  BY <1>1 DEF WrittenBranch, mainvars

(* Files, those found included, have numbers.                                 *)
LEMMA FilesAreNumbers ==
  ASSUME TypeOK, PlanInv
  PROVE  DOMAIN files \subseteq Nat /\ DOMAIN found.files \subseteq Nat
BY OldWorkloadsAssumption DEF TypeOK, PlanInv

(* A step that writes no stream leaves those that are not reached.            *)
LEMMA OthersKeptAsFound ==
  ASSUME OthersAsFound, UNCHANGED <<files, found, failed>>,
         (stage' = stage /\ branches' = branches) \/ StreamsWritten' = StreamsWritten
  PROVE  OthersAsFound'
BY DEF OthersAsFound, StreamsWritten

(* Nor does writing the next one.                                             *)
LEMMA OneMoreWritten ==
  ASSUME TypeOK, PlanInv, ~failed, UNCHANGED <<failed, found>>, StreamsWritten \in Nat,
         StreamsWritten' = StreamsWritten + 1,
         NEW stream, files' = Written(StreamsWritten + 1, stream)
  PROVE  OthersAsFound'
<1> SUFFICES ASSUME NEW f \in DOMAIN files' \cup DOMAIN found.files,
                    f > StreamsWritten + 1 + 0
             PROVE  /\ f \in DOMAIN files' /\ f \in DOMAIN found.files
                    /\ files'[f] = found.files[f]
  BY DEF OthersAsFound
<1>1. DOMAIN files' = DOMAIN files \cup {StreamsWritten + 1}
  BY DEF Written
<1>2. f # StreamsWritten + 1 /\ f > StreamsWritten + 0 /\ f \in DOMAIN files \cup DOMAIN found.files
  BY <1>1, FilesAreNumbers
<1>3. f \in DOMAIN files /\ f \in DOMAIN found.files /\ files[f] = found.files[f]
  BY <1>2 DEF PlanInv, OthersAsFound
<1> QED
  BY <1>2, <1>3 DEF Written

(* Writing one file leaves the others.                                        *)
LEMMA OthersKept ==
  ASSUME TypeOK, NEW n \in Nat, NEW stream \in Seq(Record), files' = Written(n, stream)
  PROVE  /\ DOMAIN files' \subseteq Nat /\ files' \in [DOMAIN files' -> Seq(Record)]
         /\ n \in DOMAIN files' /\ files'[n] = stream
         /\ \A f \in DOMAIN files : f # n => f \in DOMAIN files' /\ files'[f] = files[f]
BY DEF TypeOK, Written
-----------------------------------------------------------------------------
(* A record of main.                                                          *)
LEMMA MainRecordIInv ==
  ASSUME IInv, NEW page \in Pages, NEW size \in {FullSize} \cup DeltaSizes,
         MainRecord(page, size)
  PROVE  IInv'
<1> DEFINE seen == page \in DOMAIN firstTouch
           rec  == Emit(page, seen, lsn, size)
<1>1. /\ stage = "main" /\ Len(mainRecs) < RECORDS
      /\ lsn' = rec.lsn /\ mainRecs' = Append(mainRecs, rec)
      /\ firstTouch' = IF seen THEN firstTouch
                       ELSE [p \in DOMAIN firstTouch \cup {page} |->
                               IF p = page THEN rec.lsn ELSE firstTouch[p]]
      /\ UNCHANGED <<stage, failed, branchvars, files, branches, plan, found>>
  BY DEF MainRecord
<1>2. page \in Nat /\ size \in Nat \ {0} /\ seen \in BOOLEAN
  BY SizesAssumption
<1>3. /\ Stream(mainRecs, 0, {}) /\ EndsAt(mainRecs, 0, lsn)
      /\ DOMAIN firstTouch = Imaged(mainRecs) /\ (seen <=> page \in {} \cup Imaged(mainRecs))
  BY DEF IInv, MainInv
<1> HIDE DEF seen
<1>4. /\ rec \in Record /\ rec.lsn > lsn
      /\ Stream(mainRecs', 0, {}) /\ EndsAt(mainRecs', 0, lsn')
      /\ Imaged(mainRecs') = IF seen THEN Imaged(mainRecs) ELSE Imaged(mainRecs) \cup {page}
  <2> DEFINE start == 0
             none  == {}
  <2>1. /\ Stream(mainRecs, start, none) /\ EndsAt(mainRecs, start, lsn)
        /\ seen <=> page \in none \cup Imaged(mainRecs)
        /\ start \in Nat
    BY <1>3
  <2> HIDE DEF start, none
  <2>2. /\ rec \in Record /\ rec.lsn > lsn
        /\ Stream(Append(mainRecs, rec), start, none)
        /\ EndsAt(Append(mainRecs, rec), start, rec.lsn)
        /\ Imaged(Append(mainRecs, rec))
             = IF seen THEN Imaged(mainRecs) ELSE Imaged(mainRecs) \cup {page}
    BY <1>2, <2>1, StreamGrows
  <2> QED
    BY <1>1, <2>2 DEF start, none
<1>5. rec.page = page /\ (rec.kind = "FULL_PAGE" <=> ~seen)
  BY DEF Emit
<1> HIDE DEF rec
<1>6. /\ mainRecs \in Seq(Record) /\ Len(mainRecs') = Len(mainRecs) + 1
      /\ mainRecs' \in Seq(Record) /\ rec.lsn \in Nat
      /\ \A i \in DOMAIN mainRecs' :
           (i \in DOMAIN mainRecs /\ mainRecs'[i] = mainRecs[i]) \/ mainRecs'[i] = rec
  BY <1>1, <1>3, <1>4 DEF Stream, Record
<1>7. DOMAIN firstTouch' = Imaged(mainRecs')
  BY <1>1, <1>3, <1>4 DEF seen
<1>8. ASSUME NEW i \in DOMAIN mainRecs', mainRecs'[i].kind = "FULL_PAGE"
      PROVE  firstTouch'[mainRecs'[i].page] = mainRecs'[i].lsn
  <2>1. CASE i \in DOMAIN mainRecs /\ mainRecs'[i] = mainRecs[i]
    <3>1. mainRecs[i].page \in DOMAIN firstTouch /\ firstTouch[mainRecs[i].page] = mainRecs[i].lsn
      BY <1>3, <1>8, <2>1 DEF IInv, MainInv, Imaged
    <3> QED
      BY <1>1, <2>1, <3>1 DEF seen
  <2>2. CASE mainRecs'[i] = rec
    BY <1>1, <1>5, <1>8, <2>2
  <2> QED
    BY <1>6, <2>1, <2>2
<1>9. MainInv'
  <2>1. Len(mainRecs') <= RECORDS
    BY <1>1, <1>6, SizesAssumption
  <2>2. stage' = "main"
    BY <1>1
  <2> QED
    BY <1>4, <1>7, <1>8, <2>1, <2>2 DEF MainInv
<1>10. TypeOK'
  <2>1. DOMAIN firstTouch' \subseteq Pages /\ firstTouch' \in [DOMAIN firstTouch' -> Nat]
    BY <1>1, <1>6 DEF IInv, TypeOK
  <2> QED
    BY <1>1, <1>6, <2>1 DEF IInv, TypeOK, branchvars
<1>11. BranchInv' /\ WrittenInv' /\ PlanInv'
  <2>1. branches = <<>> /\ branches' = <<>> /\ stage' = "main"
    BY <1>1 DEF IInv, WrittenInv
  <2> QED
    BY <1>1, <2>1, OthersKeptAsFound DEF IInv, BranchInv, WrittenInv, PlanInv
<1> QED
  BY <1>9, <1>10, <1>11 DEF IInv

(* A record of a branch.                                                      *)
LEMMA BranchRecordIInv ==
  ASSUME IInv, NEW page \in Pages, NEW size \in {FullSize} \cup DeltaSizes,
         BranchRecord(page, size)
  PROVE  IInv'
<1> DEFINE seen == page \in based
           rec  == Emit(page, seen, cur, size)
<1>1. /\ stage = "branch" /\ Len(recs) < BRANCH_RECORDS
      /\ cur' = rec.lsn /\ recs' = Append(recs, rec) /\ based' = based \cup {page}
      /\ UNCHANGED <<mainvars, stage, failed, fork, files, branches, plan, found>>
  BY DEF BranchRecord
<1>2. page \in Nat /\ size \in Nat \ {0} /\ seen \in BOOLEAN
  BY SizesAssumption
<1>3. /\ Stream(recs, fork, BasedAt(fork)) /\ EndsAt(recs, fork, cur) /\ fork \in Nat
      /\ based = BasedAt(fork) \cup Imaged(recs)
      /\ seen <=> page \in BasedAt(fork) \cup Imaged(recs)
  BY <1>1 DEF IInv, BranchInv, TypeOK
<1>4. MainInv' /\ ForkPoints' = ForkPoints /\ BasedAt(fork)' = BasedAt(fork)
  <2>1. \A f : BasedAt(f)' = BasedAt(f)
    BY <1>1, MainKept DEF IInv, MainInv
  <2> QED
    BY <1>1, <2>1, MainKept DEF IInv, MainInv, BasedAt, mainvars
<1> HIDE DEF seen
<1>5. /\ rec \in Record
      /\ Stream(recs', fork, BasedAt(fork)) /\ EndsAt(recs', fork, cur')
      /\ Imaged(recs') = IF seen THEN Imaged(recs) ELSE Imaged(recs) \cup {page}
  BY <1>1, <1>2, <1>3, StreamGrows
<1> HIDE DEF rec
<1>6. recs' \in Seq(Record) /\ Len(recs') = Len(recs) + 1 /\ cur' \in Nat
  BY <1>1, <1>3, <1>5 DEF Stream, Record
<1>7. based' = BasedAt(fork) \cup Imaged(recs')
  BY <1>1, <1>3, <1>5 DEF seen
<1>8. BranchInv'
  BY <1>1, <1>3, <1>4, <1>5, <1>6, <1>7, SizesAssumption DEF IInv, BranchInv
<1>9. TypeOK'
  BY <1>1, <1>6 DEF IInv, TypeOK, mainvars
<1>10. WrittenInv'
  <2>1. \A n \in DOMAIN branches : WrittenBranch(branches[n], n)'
    BY <1>1, BranchesKept DEF IInv, WrittenInv, WrittenBranch
  <2>2. \A n \in DOMAIN branches' : WrittenBranch(branches[n], n)'
    BY <1>1, <2>1
  <2> QED
    BY <1>1, <2>2 DEF IInv, WrittenInv
<1>11. PlanInv'
  BY <1>1, OthersKeptAsFound DEF IInv, PlanInv
<1> QED
  BY <1>4, <1>8, <1>9, <1>10, <1>11 DEF IInv

(* The file of main is written.                                               *)
LEMMA WriteMainIInv ==
  ASSUME IInv, WriteMain
  PROVE  IInv'
<1>1. /\ stage = "main" /\ Len(mainRecs) = RECORDS
      /\ files' = Written(1, mainRecs) /\ stage' = AfterBranch(0)
      /\ ~failed /\ UNCHANGED <<mainvars, failed, branchvars, branches, plan, found>>
  BY DEF WriteMain
<1>2. branches = <<>> /\ mainRecs \in Seq(Record)
  BY <1>1 DEF IInv, WrittenInv, TypeOK
<1>3. /\ DOMAIN files' \subseteq Nat /\ files' \in [DOMAIN files' -> Seq(Record)]
      /\ 1 \in DOMAIN files' /\ files'[1] = mainRecs
  BY <1>1, <1>2, OthersKept DEF IInv
<1>4. stage' \in {"fork", "plan"} /\ (stage' = "fork" <=> 0 < BRANCHES)
  BY <1>1 DEF AfterBranch
<1>5. MainInv'
  BY <1>1, <1>3, MainKept DEF IInv
<1>6. TypeOK'
  BY <1>1, <1>3, <1>4 DEF IInv, TypeOK, mainvars, branchvars
<1>7. BranchInv' /\ PlanInv'
  <2>1. StreamsWritten = 0 /\ StreamsWritten' = 1
    BY <1>1, <1>2, <1>4 DEF StreamsWritten
  <2>2. OthersAsFound'
    BY <1>1, <1>2, <2>1, OneMoreWritten DEF IInv
  <2> QED
    BY <1>1, <1>4, <2>2 DEF IInv, BranchInv, PlanInv
<1>8. WrittenInv'
  <2>1. Len(branches') = 0 /\ DOMAIN branches' = {} /\ branches' = <<>>
    BY <1>1, <1>2
  <2> QED
    BY <1>4, <2>1, SizesAssumption DEF WrittenInv
<1> QED
  BY <1>5, <1>6, <1>7, <1>8 DEF IInv

(* A branch is started at a record of main.                                   *)
LEMMA ForkIInv ==
  ASSUME IInv, NEW i \in 0 .. RECORDS - 1, Fork(i)
  PROVE  IInv'
<1> DEFINE f == mainRecs[i + 1].lsn
<1>1. /\ stage = "fork" /\ i \in Lo .. Hi - 1 /\ stage' = "branch"
      /\ fork' = f /\ based' = BasedAt(f) /\ cur' = f /\ recs' = <<>>
      /\ UNCHANGED <<mainvars, failed, files, branches, plan, found>>
  BY DEF Fork
<1>2. f \in Nat /\ f \in ForkPoints
  BY <1>1, ForkIsOnMain DEF ForkPoints
<1>3. MainInv' /\ ForkPoints' = ForkPoints
  BY <1>1, MainKept DEF IInv, MainInv
<1>4. BasedAt(f)' = BasedAt(f)
  BY <1>1 DEF BasedAt, mainvars
<1>5. BasedAt(f) \subseteq Pages
  BY DEF BasedAt, IInv, TypeOK
<1> HIDE DEF f
<1>6. BranchInv'
  <2>1. /\ Stream(recs', fork', BasedAt(fork)') /\ EndsAt(recs', fork', cur')
        /\ Imaged(recs') = {} /\ Len(recs') = 0
    BY <1>1, EmptyStream
  <2>2. BasedAt(fork)' = BasedAt(f)
    BY <1>1, <1>4 DEF BasedAt, mainvars
  <2> QED
    BY <1>1, <1>2, <1>3, <2>1, <2>2, SizesAssumption DEF BranchInv
<1>7. TypeOK'
  BY <1>1, <1>2, <1>5 DEF IInv, TypeOK, mainvars
<1>8. WrittenInv'
  <2>1. \A n \in DOMAIN branches : WrittenBranch(branches[n], n)'
    BY <1>1, BranchesKept DEF IInv, WrittenInv, WrittenBranch
  <2>2. \A n \in DOMAIN branches' : WrittenBranch(branches[n], n)'
    BY <1>1, <2>1
  <2> QED
    BY <1>1, <2>2 DEF IInv, WrittenInv
<1>9. PlanInv'
  <2>1. StreamsWritten' = StreamsWritten
    BY <1>1 DEF StreamsWritten
  <2> QED
    BY <1>1, <2>1, OthersKeptAsFound DEF IInv, PlanInv
<1> QED
  BY <1>3, <1>6, <1>7, <1>8, <1>9 DEF IInv

(* Writing the file of the branch at hand, whole or torn, leaves the branches *)
(* that are written.                                                          *)
LEMMA EarlierBranchesKept ==
  ASSUME IInv, UNCHANGED mainvars, NEW stream \in Seq(Record),
         files' = Written(BranchFile, stream)
  PROVE  /\ \A b : \A n \in DOMAIN branches : b = branches[n] => WrittenBranch(b, n)'
         /\ 1 \in DOMAIN files => 1 \in DOMAIN files' /\ files'[1] = files[1]
         /\ DOMAIN files' \subseteq Nat /\ files' \in [DOMAIN files' -> Seq(Record)]
         /\ BranchFile \in DOMAIN files' /\ files'[BranchFile] = stream
<1>1. Len(branches) \in Nat /\ DOMAIN branches = 1 .. Len(branches)
  BY DEF IInv, WrittenInv
<1>2. BranchFile \in Nat /\ BranchFile # 1 /\ \A n \in DOMAIN branches : n + 1 # BranchFile
  BY <1>1 DEF BranchFile
<1>3. /\ DOMAIN files' \subseteq Nat /\ files' \in [DOMAIN files' -> Seq(Record)]
      /\ BranchFile \in DOMAIN files' /\ files'[BranchFile] = stream
      /\ \A f \in DOMAIN files : f # BranchFile => f \in DOMAIN files' /\ files'[f] = files[f]
  BY <1>2, OthersKept DEF IInv
<1>4. ASSUME NEW n \in DOMAIN branches, NEW b, b = branches[n]
      PROVE  WrittenBranch(b, n)'
  <2>1. WrittenBranch(b, n)
    BY <1>4 DEF IInv, WrittenInv
  <2>2. n + 1 \in DOMAIN files' /\ files'[n + 1] = files[n + 1]
    BY <1>2, <1>3, <2>1 DEF WrittenBranch
  <2> QED
    BY <2>1, <2>2, BranchesKept
<1> QED
  BY <1>2, <1>3, <1>4

(* The file of a branch is written and the branch joins the plan.             *)
LEMMA WriteBranchIInv ==
  ASSUME IInv, WriteBranch
  PROVE  IInv'
<1> DEFINE len == Len(branches)
           e   == BranchEntry
<1>1. /\ stage = "branch" /\ Len(recs) = BRANCH_RECORDS
      /\ files' = Written(BranchFile, recs) /\ branches' = Append(branches, e)
      /\ stage' = AfterBranch(len + 1)
      /\ ~failed /\ UNCHANGED <<mainvars, failed, branchvars, plan, found>>
  BY DEF WriteBranch
<1>2. /\ branches \in Seq(PlanBranch) /\ len \in Nat /\ len < BRANCHES
      /\ recs \in Seq(Record) /\ fork \in Nat /\ cur \in Nat
  BY <1>1 DEF IInv, WrittenInv, TypeOK
<1>3. /\ \A b : \A n \in DOMAIN branches : b = branches[n] => WrittenBranch(b, n)'
      /\ 1 \in DOMAIN files => 1 \in DOMAIN files' /\ files'[1] = files[1]
      /\ DOMAIN files' \subseteq Nat /\ files' \in [DOMAIN files' -> Seq(Record)]
      /\ BranchFile \in DOMAIN files' /\ files'[BranchFile] = recs
  BY <1>1, <1>2, EarlierBranchesKept
<1>4. /\ stage' \in {"fork", "plan"}
      /\ stage' = "fork" => len + 1 < BRANCHES
      /\ stage' = "plan" => len + 1 = BRANCHES
  BY <1>1, <1>2, SizesAssumption DEF AfterBranch
<1>5. BranchFile = len + 2
  BY <1>2 DEF BranchFile
<1>6. /\ e.fork_lsn = fork /\ e.wal_file = len + 2 /\ e.records = BRANCH_RECORDS
      /\ e.head_lsn = cur /\ e \in PlanBranch
  BY <1>2, <1>5, SizesAssumption DEF BranchEntry, PlanBranch
<1> HIDE DEF e, len
<1>7. /\ branches' \in Seq(PlanBranch) /\ Len(branches') = len + 1
      /\ DOMAIN branches' = 1 .. len + 1 /\ DOMAIN branches = 1 .. len
      /\ branches'[len + 1] = e
      /\ \A n \in 1 .. len : branches'[n] = branches[n]
      /\ \A n \in 1 .. len + 1 : n \in 1 .. len \/ n = len + 1
  BY <1>1, <1>2, <1>6 DEF len
<1>8. MainInv' /\ ForkPoints' = ForkPoints
  <2>1. Len(mainRecs) = RECORDS /\ 1 \in DOMAIN files' /\ files'[1] = mainRecs
    BY <1>1, <1>3 DEF IInv, MainInv
  <2> QED
    BY <1>1, <2>1, MainKept DEF IInv
<1>9. TypeOK'
  BY <1>1, <1>2, <1>3, <1>4, <1>7, SizesAssumption DEF IInv, TypeOK, mainvars, branchvars
<1>10. ASSUME NEW b, b = e, NEW n, n = len + 1
       PROVE  WrittenBranch(b, n)'
  <2>1. /\ BasedAt(fork)' = BasedAt(fork) /\ ForkPoints' = ForkPoints
        /\ BasedAt(b.fork_lsn)' = BasedAt(fork)
    BY <1>1, <1>6, <1>10 DEF mainvars, branchvars, BasedAt, ForkPoints
  <2>2. /\ fork \in ForkPoints /\ Stream(recs, fork, BasedAt(fork)) /\ EndsAt(recs, fork, cur)
    BY <1>1 DEF IInv, BranchInv
  <2>3. n + 1 \in DOMAIN files' /\ files'[n + 1] = recs
    BY <1>2, <1>3, <1>5, <1>10 DEF len
  <2>4. /\ b.wal_file = n + 1 /\ b.records = BRANCH_RECORDS
        /\ b.fork_lsn = fork /\ b.head_lsn = cur
    BY <1>2, <1>6, <1>10 DEF len
  <2>5. /\ b.fork_lsn \in ForkPoints' /\ Len(files'[n + 1]) = BRANCH_RECORDS
        /\ Len(mainRecs') = RECORDS
    BY <1>1, <2>1, <2>2, <2>3, <2>4 DEF IInv, MainInv, mainvars
  <2>6. Stream(files'[n + 1], b.fork_lsn, BasedAt(b.fork_lsn)')
    BY <2>1, <2>2, <2>3, <2>4
  <2>7. EndsAt(files'[n + 1], b.fork_lsn, b.head_lsn)
    BY <2>2, <2>3, <2>4
  <2> QED
    BY <2>3, <2>4, <2>5, <2>6, <2>7 DEF WrittenBranch
<1>11. WrittenInv'
  <2>1. ASSUME NEW n \in 1 .. len + 1, NEW b, b = branches'[n]
        PROVE  WrittenBranch(b, n)'
    <3>1. CASE n \in 1 .. len
      <4>1. n \in DOMAIN branches /\ b = branches[n]
        BY <1>7, <2>1, <3>1
      <4> QED
        BY <1>3, <4>1
    <3>2. CASE n = len + 1
      BY <1>7, <1>10, <2>1, <3>2
    <3> QED
      BY <1>7, <3>1, <3>2
  <2>2. \A n \in DOMAIN branches' : WrittenBranch(branches[n], n)'
    BY <1>7, <2>1
  <2> QED
    BY <1>4, <1>7, <2>2 DEF WrittenInv
<1>12. BranchInv' /\ PlanInv'
  <2>1. StreamsWritten = 1 + len /\ StreamsWritten' = 2 + len
    BY <1>1, <1>2, <1>4, <1>7 DEF StreamsWritten, len
  <2>2. OthersAsFound'
    BY <1>1, <1>2, <1>5, <2>1, OneMoreWritten DEF IInv
  <2> QED
    BY <1>1, <1>4, <2>2 DEF IInv, BranchInv, PlanInv
<1> QED
  BY <1>8, <1>9, <1>11, <1>12 DEF IInv

(* The plan is written.                                                       *)
LEMMA WritePlanIInv ==
  ASSUME IInv, WritePlan
  PROVE  IInv'
<1>1. /\ stage = "plan" /\ stage' = "done"
      /\ ~failed /\ plan' = PlanOf(branches)
      /\ UNCHANGED <<mainvars, failed, branchvars, files, branches, found>>
  BY DEF WritePlan
<1>2. MainInv'
  BY <1>1, MainKept DEF IInv, MainInv
<1>3. TypeOK'
  BY <1>1 DEF IInv, TypeOK, mainvars, branchvars
<1>4. WrittenInv'
  <2>1. \A n \in DOMAIN branches : WrittenBranch(branches[n], n)'
    BY <1>1, BranchesKept DEF IInv, WrittenInv, WrittenBranch
  <2>2. \A n \in DOMAIN branches' : WrittenBranch(branches[n], n)'
    BY <1>1, <2>1
  <2> QED
    BY <1>1, <2>2 DEF IInv, WrittenInv
<1>5. BranchInv' /\ PlanInv'
  <2>1. StreamsWritten' = StreamsWritten
    BY <1>1 DEF StreamsWritten
  <2> QED
    BY <1>1, <2>1, OthersKeptAsFound DEF IInv, BranchInv, PlanInv, PlanOf, mainvars
<1> QED
  BY <1>2, <1>3, <1>4, <1>5 DEF IInv

(* A torn stream is a stream of records, only not all of them.                *)
LEMMA TornIsStream ==
  ASSUME NEW s \in Seq(Record), NEW t \in Torn(s)
  PROVE  t \in Seq(Record)
BY DEF Torn

(* A failed write leaves what it was writing torn, and nothing else.          *)
LEMMA WriteFailsIInv ==
  ASSUME IInv, WriteFails
  PROVE  IInv'
<1>1. /\ ~failed /\ failed' = TRUE
      /\ UNCHANGED <<mainvars, stage, branchvars, branches, found>>
  BY DEF WriteFails
<1>2. /\ DOMAIN files' \subseteq Nat /\ files' \in [DOMAIN files' -> Seq(Record)]
      /\ \A b : \A n \in DOMAIN branches : b = branches[n] => WrittenBranch(b, n)'
  <2>1. CASE files' = files
    <3>1. \A b : \A n \in DOMAIN branches : b = branches[n] => WrittenBranch(b, n)'
      BY <1>1, <2>1, BranchesKept DEF IInv, WrittenInv, WrittenBranch
    <3> QED
      BY <2>1, <3>1 DEF IInv, TypeOK
  <2>2. ASSUME stage = "main", NEW s \in Torn(mainRecs), files' = Written(1, s)
        PROVE  <1>2!:
    <3>1. branches = <<>> /\ s \in Seq(Record)
      BY <2>2, TornIsStream DEF IInv, WrittenInv, TypeOK
    <3>2. DOMAIN branches = {}
      BY <3>1
    <3> QED
      BY <2>2, <3>1, <3>2, OthersKept DEF IInv
  <2>3. ASSUME NEW s \in Torn(recs), files' = Written(BranchFile, s)
        PROVE  <1>2!:
    <3>1. s \in Seq(Record)
      BY TornIsStream DEF IInv, TypeOK
    <3> QED
      BY <1>1, <2>3, <3>1, EarlierBranchesKept
  <2> QED
    BY <2>1, <2>2, <2>3 DEF WriteFails
<1>3. MainInv'
  <2>1. stage # "main" => 1 \in DOMAIN files' /\ files'[1] = files[1]
    <3>1. CASE files' = files
      BY <3>1 DEF IInv, MainInv, TypeOK
    <3>2. CASE \E s \in Torn(recs) : files' = Written(BranchFile, s)
      BY <1>1, <3>2, EarlierBranchesKept, TornIsStream DEF IInv, MainInv, TypeOK
    <3> QED
      BY <3>1, <3>2 DEF WriteFails
  <2> QED
    BY <1>1, <2>1, MainKept DEF IInv, MainInv
<1>4. TypeOK'
  BY <1>1, <1>2 DEF IInv, TypeOK, mainvars, branchvars
<1>5. WrittenInv'
  <2>1. \A n \in DOMAIN branches' : WrittenBranch(branches[n], n)'
    BY <1>1, <1>2
  <2> QED
    BY <1>1, <2>1 DEF IInv, WrittenInv
<1>6. BranchInv'
  <2>1. BasedAt(fork)' = BasedAt(fork) /\ ForkPoints' = ForkPoints
    BY <1>1 DEF BasedAt, ForkPoints, mainvars, branchvars
  <2> QED
    BY <1>1, <2>1 DEF IInv, BranchInv, branchvars
<1>7. PlanInv'
  <2>1. StreamsWritten' = StreamsWritten /\ StreamsWritten \in Nat
    BY <1>1 DEF IInv, WrittenInv, StreamsWritten
  <2>2. OthersAsFound'
    <3>1. /\ (IF failed' THEN 1 ELSE 0) = 1 /\ found' = found
          /\ \A f : f > StreamsWritten' + 1 <=> f > StreamsWritten + 1
      BY <1>1, <2>1
    <3> SUFFICES ASSUME NEW f \in DOMAIN files' \cup DOMAIN found.files,
                        f > StreamsWritten + 1
                 PROVE  /\ f \in DOMAIN files' /\ f \in DOMAIN found.files
                        /\ files'[f] = found.files[f]
      BY <3>1 DEF OthersAsFound
    <3>2. f \in DOMAIN files \cup DOMAIN found.files =>
            f \in DOMAIN files /\ f \in DOMAIN found.files /\ files[f] = found.files[f]
      <4>1. f \in DOMAIN files \cup DOMAIN found.files => f > StreamsWritten + 0
        BY <2>1, FilesAreNumbers DEF IInv
      <4> QED
        BY <1>1, <4>1 DEF IInv, PlanInv, OthersAsFound
    <3>3. CASE files' = files
      BY <3>2, <3>3
    <3>4. ASSUME NEW s, \/ stage = "main" /\ s \in Torn(mainRecs) /\ files' = Written(1, s)
                        \/ stage = "branch" /\ s \in Torn(recs) /\ files' = Written(BranchFile, s)
          PROVE  /\ f \in DOMAIN files' /\ f \in DOMAIN found.files
                 /\ files'[f] = found.files[f]
      <4>1. files' = Written(StreamsWritten + 1, s)
        BY <2>1, <3>4 DEF IInv, WrittenInv, StreamsWritten, BranchFile
      <4>2. DOMAIN files' = DOMAIN files \cup {StreamsWritten + 1}
        BY <4>1 DEF Written
      <4>3. f # StreamsWritten + 1
        BY <2>1
      <4>4. f \in DOMAIN files /\ f \in DOMAIN found.files /\ files[f] = found.files[f]
        BY <3>2, <4>2, <4>3
      <4> QED
        BY <4>1, <4>3, <4>4 DEF Written
    <3> QED
      BY <3>3, <3>4 DEF WriteFails
  <2>3. plan' = plan \/ (plan' = NoPlan /\ stage = "plan")
    BY DEF WriteFails
  <2> QED
    BY <1>1, <2>2, <2>3 DEF IInv, PlanInv, PlanOf, mainvars
<1> QED
  BY <1>3, <1>4, <1>5, <1>6, <1>7 DEF IInv

(* Every step keeps the invariant.                                            *)
LEMMA NextIInv == IInv /\ [Next]_vars => IInv'
<1> SUFFICES ASSUME IInv, [Next]_vars PROVE IInv'
  OBVIOUS
<1>1. CASE UNCHANGED vars
  <2>1. \A n \in DOMAIN branches : WrittenBranch(branches[n], n)'
    BY <1>1, BranchesKept DEF IInv, WrittenInv, WrittenBranch, vars
  <2>2. \A n \in DOMAIN branches' : WrittenBranch(branches[n], n)'
    BY <1>1, <2>1 DEF vars
  <2>3. WrittenInv'
    BY <1>1, <2>2 DEF IInv, WrittenInv, vars
  <2>4. MainInv' /\ TypeOK'
    BY <1>1 DEF IInv, MainInv, TypeOK, vars, mainvars, branchvars
  <2>6. PlanInv'
    <3>1. StreamsWritten' = StreamsWritten
      BY <1>1 DEF StreamsWritten, vars
    <3> QED
      BY <1>1, <3>1, OthersKeptAsFound DEF IInv, PlanInv, PlanOf, vars, mainvars
  <2>5. BranchInv'
    <3>1. BasedAt(fork)' = BasedAt(fork) /\ ForkPoints' = ForkPoints
      BY <1>1 DEF BasedAt, ForkPoints, vars, mainvars, branchvars
    <3> QED
      BY <1>1, <3>1 DEF IInv, BranchInv, vars, branchvars
  <2> QED
    BY <2>3, <2>4, <2>5, <2>6 DEF IInv
<1> QED
  BY <1>1, MainRecordIInv, BranchRecordIInv, WriteMainIInv, ForkIInv, WriteBranchIInv,
     WritePlanIInv, WriteFailsIInv DEF Next

(* So it holds in every state of every run.                                   *)
LEMMA GeneratorInvariant == Spec => []IInv
BY InitIInv, NextIInv, PTL DEF Spec
-----------------------------------------------------------------------------
(* Where the records a branch sees come from.                                 *)
LEMMA HistoryParts ==
  ASSUME IInv, NEW n \in DOMAIN branches, NEW p \in History(branches[n])
  PROVE  \/ \E i \in DOMAIN mainRecs :
              /\ p = <<"main", i>> /\ At(branches[n], p) = mainRecs[i]
              /\ mainRecs[i].lsn <= branches[n].fork_lsn
         \/ \E i \in DOMAIN files[n + 1] :
              p = <<"own", i>> /\ At(branches[n], p) = files[n + 1][i]
<1>1. branches[n].wal_file = n + 1
  BY DEF IInv, WrittenInv, WrittenBranch
<1>2. CASE p \in {"main"} \X {i \in DOMAIN mainRecs : mainRecs[i].lsn <= branches[n].fork_lsn}
  BY <1>2 DEF At
<1>3. CASE p \in {"own"} \X DOMAIN files[n + 1]
  BY <1>1, <1>3 DEF At
<1> QED
  BY <1>1, <1>2, <1>3 DEF History

(* LSNs rise along the history of a branch: on main up to the fork, and from  *)
(* there on the branch.                                                       *)
LEMMA HistoryRises ==
  ASSUME IInv, NEW n \in DOMAIN branches,
         NEW p \in History(branches[n]), NEW q \in History(branches[n]), Below(p, q)
  PROVE  At(branches[n], p).lsn < At(branches[n], q).lsn
<1> DEFINE b == branches[n]
           own == files[n + 1]
<1>1. Stream(own, b.fork_lsn, BasedAt(b.fork_lsn)) /\ Stream(mainRecs, 0, {})
  BY DEF IInv, MainInv, WrittenInv, WrittenBranch
<1>2. /\ mainRecs \in Seq(Record) /\ own \in Seq(Record) /\ b \in PlanBranch
  BY <1>1 DEF Stream, IInv, WrittenInv
<1>3. /\ \A i \in DOMAIN mainRecs : mainRecs[i].lsn \in Nat
      /\ \A i \in DOMAIN own : own[i].lsn \in Nat
      /\ b.fork_lsn \in Nat
  <2>1. /\ \A i \in DOMAIN mainRecs : mainRecs[i] \in Record
        /\ \A i \in DOMAIN own : own[i] \in Record
    BY <1>2
  <2> QED
    BY <1>2, <2>1 DEF Record, PlanBranch
<1>4. /\ \A i, j \in DOMAIN mainRecs : i < j => mainRecs[i].lsn < mainRecs[j].lsn
      /\ \A i, j \in DOMAIN own : i < j => own[i].lsn < own[j].lsn
      /\ \A i \in DOMAIN own : b.fork_lsn < own[i].lsn
  BY <1>1 DEF Stream, Rising
<1>5. \A r \in History(b) :
        \/ \E i \in DOMAIN mainRecs : /\ r = <<"main", i>> /\ At(b, r) = mainRecs[i]
                                      /\ mainRecs[i].lsn <= b.fork_lsn
        \/ \E i \in DOMAIN own : r = <<"own", i>> /\ At(b, r) = own[i]
  BY HistoryParts
<1> HIDE DEF b, own
<1>6. CASE \E i, j \in DOMAIN mainRecs :
             p = <<"main", i>> /\ q = <<"main", j>> /\ At(b, p) = mainRecs[i] /\ At(b, q) = mainRecs[j]
  BY <1>4, <1>6 DEF Below, b
<1>7. CASE \E i, j \in DOMAIN own :
             p = <<"own", i>> /\ q = <<"own", j>> /\ At(b, p) = own[i] /\ At(b, q) = own[j]
  BY <1>4, <1>7 DEF Below, b
<1>8. CASE \E i \in DOMAIN mainRecs, j \in DOMAIN own :
             /\ p = <<"main", i>> /\ q = <<"own", j>> /\ At(b, p) = mainRecs[i] /\ At(b, q) = own[j]
             /\ mainRecs[i].lsn <= b.fork_lsn
  BY <1>3, <1>4, <1>8 DEF b
<1>9. CASE \E i \in DOMAIN own, j \in DOMAIN mainRecs : p = <<"own", i>> /\ q = <<"main", j>>
  BY <1>9 DEF Below
<1> QED
  BY <1>5, <1>6, <1>7, <1>8, <1>9 DEF b

(* For any number of pages and records, any record sizes and any forks: LSNs  *)
(* are the end offsets of their records, and rise strictly on main and along  *)
(* the history of every branch (run, lines 83-136).                           *)
THEOREM StreamsAlwaysSound == Spec => []StreamsSound
<1>1. IInv => StreamsSound
  <2> SUFFICES ASSUME IInv PROVE StreamsSound
    OBVIOUS
  <2>1. EndOffsets(mainRecs, 0)
    BY DEF IInv, MainInv, Stream
  <2>2. \A n \in DOMAIN branches :
          EndOffsets(files[branches[n].wal_file], branches[n].fork_lsn)
    BY DEF IInv, WrittenInv, WrittenBranch, Stream
  <2>3. \A i, j \in DOMAIN mainRecs : i < j => mainRecs[i].lsn < mainRecs[j].lsn
    BY DEF IInv, MainInv, Stream, Rising
  <2>4. LsnsRise
    BY <2>3, HistoryRises DEF LsnsRise
  <2> QED
    BY <2>1, <2>2, <2>4 DEF StreamsSound, LsnsAreEndOffsets, IInv
<1> QED
  BY <1>1, GeneratorInvariant, PTL

(* A stream that is written, main or a branch, is there, whole and of this    *)
(* run, and is what its entry of the plan says.                               *)
LEMMA WrittenAreWhole ==
  ASSUME IInv
  PROVE  /\ WrittenWhole
         /\ stage # "main" => \A n \in DOMAIN branches :
              \E i \in DOMAIN files[1] : files[1][i].lsn = branches[n].fork_lsn
<1>1. stage # "main" =>
        1 \in DOMAIN files /\ files[1] = mainRecs /\ Len(mainRecs) = RECORDS
  BY DEF IInv, MainInv, TypeOK
<1>2. ASSUME NEW n \in DOMAIN branches
      PROVE  /\ branches[n].wal_file = n + 1 /\ Describes(files, branches[n])
             /\ stage # "main" =>
                  \E i \in DOMAIN files[1] : files[1][i].lsn = branches[n].fork_lsn
  <2> DEFINE b == branches[n]
             s == files[n + 1]
  <2>1. WrittenBranch(b, n)
    BY DEF IInv, WrittenInv
  <2>2. /\ b.wal_file = n + 1 /\ b.records = BRANCH_RECORDS /\ n + 1 \in DOMAIN files
        /\ Len(s) = BRANCH_RECORDS /\ EndsAt(s, b.fork_lsn, b.head_lsn) /\ s \in Seq(Record)
    BY <2>1 DEF WrittenBranch, Stream
  <2>3. PICK i \in Lo .. Hi - 1 : b.fork_lsn = mainRecs[i + 1].lsn
    BY <2>1 DEF WrittenBranch, ForkPoints
  <2>4. stage # "main" => i + 1 \in DOMAIN files[1]
    BY <1>1, <2>3, ForkIsOnMain DEF IInv, TypeOK
  <2> HIDE DEF b, s
  <2>5. BRANCH_RECORDS = 0 <=> s = <<>>
    BY <2>2
  <2>6. Describes(files, b)
    BY <2>2, <2>5 DEF Describes, EndsAt, Last, s
  <2> QED
    BY <1>1, <2>2, <2>3, <2>4, <2>6 DEF b
<1> QED
  BY <1>1, <1>2 DEF WrittenWhole

(* In every state of a run, whichever write fails and whatever workload it    *)
(* found: streams are replaced in order, each whole before the next is        *)
(* touched, and plan.json is the one found, torn, or a complete one that is   *)
(* true of every stream next to it, the last once the run is done (run, lines *)
(* 97-152).                                                                   *)
THEOREM DirectoryAlwaysSound == Spec => []DirectorySound
<1>1. IInv => DirectorySound
  <2> SUFFICES ASSUME IInv PROVE DirectorySound
    OBVIOUS
  <2>1. WrittenWhole /\ OthersAsFound
    BY WrittenAreWhole DEF IInv, PlanInv
  <2>2. ASSUME stage = "done", plan = PlanOf(branches)
        PROVE  PlanOfThisRun
    <3>1. /\ plan.main = [fork_lsn |-> 0, wal_file |-> 1, records |-> RECORDS, head_lsn |-> lsn]
          /\ plan.present /\ plan.branches = branches /\ Len(branches) = BRANCHES
      BY <2>2 DEF IInv, WrittenInv, PlanOf
    <3>2. /\ Len(mainRecs) = RECORDS /\ mainRecs \in Seq(Record)
          /\ 1 \in DOMAIN files /\ files[1] = mainRecs /\ EndsAt(mainRecs, 0, lsn)
      BY <2>2 DEF IInv, MainInv, Stream
    <3>3. Describes(files, plan.main)
      <4>1. mainRecs # <<>>
        BY <3>2, SizesAssumption
      <4>2. lsn = Last(files[1]).lsn
        BY <3>2, <4>1 DEF EndsAt, Last
      <4> QED
        BY <3>1, <3>2, <4>2, SizesAssumption DEF Describes
    <3> QED
      BY <2>1, <2>2, <3>1, <3>3, WrittenAreWhole DEF PlanOfThisRun, PlanHolds, WrittenWhole
  <2> QED
    BY <2>1, <2>2 DEF DirectorySound, IInv, PlanInv
<1> QED
  BY <1>1, GeneratorInvariant, PTL

-----------------------------------------------------------------------------
(* A full image of main is below a fork exactly when its page is in the base  *)
(* map of the fork, and there is only one of each page.                       *)
LEMMA BaseMapAgrees ==
  ASSUME IInv, NEW f, NEW page
  PROVE  /\ page \in BasedAt(f) =>
              \E i \in DOMAIN mainRecs : Image(mainRecs[i], page) /\ mainRecs[i].lsn <= f
         /\ \A i \in DOMAIN mainRecs :
              Image(mainRecs[i], page) /\ mainRecs[i].lsn <= f => page \in BasedAt(f)
BY ImagedIff DEF IInv, MainInv, BasedAt, Image

(* A stream never repeats the image of a page.                                *)
LEMMA ImagesAreUnique ==
  ASSUME NEW s, NEW start, NEW bases, Stream(s, start, bases),
         NEW i \in DOMAIN s, NEW j \in DOMAIN s, NEW page, Image(s[i], page), Image(s[j], page)
  PROVE  i = j
<1>1. s \in Seq(Record) /\ Len(s) \in Nat /\ DOMAIN s = 1 .. Len(s)
  BY DEF Stream
<1>2. i \in 1 .. j - 1 \/ i = j \/ j \in 1 .. i - 1
  BY <1>1
<1>3. s[i].kind # "DELTA" /\ s[j].kind # "DELTA" /\ s[i].page = page /\ s[j].page = page
  BY DEF Image
<1> QED
  BY <1>2, <1>3 DEF Stream, BasesHold

(* A delta of main finds its image on main, one of a branch in the base map   *)
(* or in the branch.                                                          *)
LEMMA DeltasHaveBases ==
  ASSUME IInv, NEW n \in DOMAIN branches, NEW p \in History(branches[n]),
         At(branches[n], p).kind = "DELTA"
  PROVE  \E q \in History(branches[n]) :
           Below(q, p) /\ Image(At(branches[n], q), At(branches[n], p).page)
<1> DEFINE b == branches[n]
           own == files[n + 1]
<1>1. /\ b.wal_file = n + 1 /\ Stream(own, b.fork_lsn, BasedAt(b.fork_lsn))
      /\ Stream(mainRecs, 0, {})
  BY DEF IInv, MainInv, WrittenInv, WrittenBranch
<1>2. ASSUME NEW j \in DOMAIN mainRecs, mainRecs[j].lsn <= b.fork_lsn
      PROVE  <<"main", j>> \in History(b) /\ At(b, <<"main", j>>) = mainRecs[j]
  BY <1>2 DEF History, At
<1>3. ASSUME NEW j \in DOMAIN own
      PROVE  <<"own", j>> \in History(b) /\ At(b, <<"own", j>>) = own[j]
  BY <1>1, <1>3 DEF History, At
<1>4. ASSUME NEW i \in DOMAIN mainRecs, p = <<"main", i>>, At(b, p) = mainRecs[i],
             mainRecs[i].lsn <= b.fork_lsn
      PROVE  \E q \in History(b) : Below(q, p) /\ Image(At(b, q), At(b, p).page)
  <2>1. PICK j \in 1 .. i - 1 : Image(mainRecs[j], mainRecs[i].page)
    BY <1>1, <1>4 DEF Stream, BasesHold
  <2>2. /\ mainRecs \in Seq(Record) /\ j \in DOMAIN mainRecs /\ j < i
        /\ mainRecs[i].lsn \in Nat /\ mainRecs[j].lsn \in Nat /\ b.fork_lsn \in Nat
    <3>1. mainRecs \in Seq(Record) /\ branches \in Seq(PlanBranch)
      BY <1>1 DEF Stream, IInv, WrittenInv
    <3>2. j \in DOMAIN mainRecs /\ j < i
      BY <3>1, <2>1
    <3>3. mainRecs[i] \in Record /\ mainRecs[j] \in Record /\ branches[n] \in PlanBranch
      BY <3>1, <3>2
    <3> QED
      BY <3>1, <3>2, <3>3 DEF Record, PlanBranch
  <2>3. mainRecs[j].lsn < mainRecs[i].lsn
    BY <1>1, <2>2 DEF Stream, Rising
  <2>4. mainRecs[j].lsn <= b.fork_lsn
    BY <1>4, <2>2, <2>3
  <2>5. Below(<<"main", j>>, p)
    BY <1>4, <2>2 DEF Below
  <2> HIDE DEF b
  <2> QED
    BY <1>2, <1>4, <2>1, <2>2, <2>4, <2>5
<1>5. ASSUME NEW i \in DOMAIN own, p = <<"own", i>>, At(b, p) = own[i]
      PROVE  \E q \in History(b) : Below(q, p) /\ Image(At(b, q), At(b, p).page)
  <2>1. CASE own[i].page \in BasedAt(b.fork_lsn)
    <3>1. PICK j \in DOMAIN mainRecs : Image(mainRecs[j], own[i].page)
                                        /\ mainRecs[j].lsn <= b.fork_lsn
      BY <2>1, BaseMapAgrees
    <3>2. Below(<<"main", j>>, p)
      BY <1>5 DEF Below
    <3> HIDE DEF b, own
    <3> QED
      BY <1>2, <1>5, <3>1, <3>2
  <2>2. CASE \E j \in 1 .. i - 1 : Image(own[j], own[i].page)
    <3>1. PICK j \in 1 .. i - 1 : Image(own[j], own[i].page)
      BY <2>2
    <3>2. j \in DOMAIN own /\ j < i
      BY <1>1, <3>1 DEF Stream
    <3>3. Below(<<"own", j>>, p)
      BY <1>5, <3>2 DEF Below
    <3> HIDE DEF b, own
    <3> QED
      BY <1>3, <1>5, <3>1, <3>2, <3>3
  <2> QED
    BY <1>1, <1>5, <2>1, <2>2 DEF Stream, BasesHold
<1> QED
  BY <1>4, <1>5, HistoryParts

(* An image is sent once: on main, or on the branch when main has none below  *)
(* the fork.                                                                  *)
LEMMA ImagesNotRepeated ==
  ASSUME IInv, NEW n \in DOMAIN branches,
         NEW p \in History(branches[n]), NEW q \in History(branches[n]), NEW page,
         Image(At(branches[n], p), page), Image(At(branches[n], q), page)
  PROVE  p = q
<1> DEFINE b == branches[n]
           own == files[n + 1]
<1>1. /\ Stream(own, b.fork_lsn, BasedAt(b.fork_lsn)) /\ Stream(mainRecs, 0, {})
  BY DEF IInv, MainInv, WrittenInv, WrittenBranch
<1>2. ASSUME NEW i \in DOMAIN mainRecs, mainRecs[i].lsn <= b.fork_lsn, Image(mainRecs[i], page),
             NEW j \in DOMAIN own, Image(own[j], page)
      PROVE  FALSE
  <2>1. page \in BasedAt(b.fork_lsn)
    BY <1>2, BaseMapAgrees
  <2>2. page \notin BasedAt(b.fork_lsn)
    BY <1>1, <1>2 DEF Stream, BasesHold, Image
  <2> QED
    BY <2>1, <2>2
<1>3. \A i, j \in DOMAIN mainRecs :
        Image(mainRecs[i], page) /\ Image(mainRecs[j], page) => i = j
  BY <1>1, ImagesAreUnique
<1>4. \A i, j \in DOMAIN own : Image(own[i], page) /\ Image(own[j], page) => i = j
  BY <1>1, ImagesAreUnique
<1>5. \A r \in History(b) :
        \/ \E i \in DOMAIN mainRecs : /\ r = <<"main", i>> /\ At(b, r) = mainRecs[i]
                                      /\ mainRecs[i].lsn <= b.fork_lsn
        \/ \E i \in DOMAIN own : r = <<"own", i>> /\ At(b, r) = own[i]
  BY HistoryParts
<1> HIDE DEF b, own
<1> QED
  BY <1>2, <1>3, <1>4, <1>5 DEF b

(* On every branch, whatever page numbers the stream of draws gives and       *)
(* wherever it forks, a delta has a full image of its page below it, and no   *)
(* page is imaged twice: the base map computed from firstTouch (line 118)     *)
(* agrees with the records that are inherited.                                *)
THEOREM HistoriesAlwaysMaterialize == Spec => []HistoriesMaterialize
<1>1. IInv => HistoriesMaterialize
  <2> SUFFICES ASSUME IInv PROVE HistoriesMaterialize
    OBVIOUS
  <2>1. \A i \in DOMAIN mainRecs : mainRecs[i].kind = "DELTA" =>
          \E j \in 1 .. i - 1 : Image(mainRecs[j], mainRecs[i].page)
    BY DEF IInv, MainInv, Stream, BasesHold
  <2>2. EveryDeltaHasBase
    BY <2>1, DeltasHaveBases DEF EveryDeltaHasBase
  <2>3. OneFullImagePerHistory
    BY ImagesNotRepeated DEF OneFullImagePerHistory
  <2> QED
    BY <2>2, <2>3 DEF HistoriesMaterialize
<1> QED
  BY <1>1, GeneratorInvariant, PTL
=============================================================================
