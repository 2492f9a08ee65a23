------------------------------- MODULE Walgen -------------------------------
(* The deterministic WAL generator of lab 2 (lab2/cmd/walgen/main.go): the    *)
(* stream of timeline main, then one stream per child branch forking from it, *)
(* each written to a file, and the plan that describes them written last, in  *)
(* a directory that may hold the workload of an older run.                    *)
(* Draws of the random stream are choices; a record is its LSN, page, kind    *)
(* and encoded size, and a file is the sequence of records it holds.          *)
EXTENDS Integers, Sequences, FiniteSets, SequencesExt

CONSTANTS
  Pages,            \* page numbers 0 .. pages-1
  RECORDS,          \* -records, on main
  BRANCHES,         \* -branches
  BRANCH_RECORDS,   \* -branch-records
  FullSize,         \* EncodedSize of a FULL_PAGE record
  DeltaSizes,       \* the EncodedSizes of DELTA records
  OldWorkloads      \* [files, plan] that older runs may have left

ASSUME SizesAssumption ==
  /\ RECORDS \in Nat \ {0} /\ BRANCHES \in Nat /\ BRANCH_RECORDS \in Nat
  /\ FullSize \in Nat \ {0}
  /\ DeltaSizes \subseteq Nat \ {0} /\ Pages \subseteq Nat

VARIABLES
  firstTouch,  \* page -> LSN of its first record on main
  lsn,         \* end offset of the stream of main
  mainRecs,    \* records of main
  stage,       \* what is generated next: "main", "fork", "branch", "plan", "done"
  failed,      \* a write was answered with an error, and the run has ended
  fork, based, cur, recs,  \* the branch being generated: fork LSN, pages with a
                           \* base, end offset and records
  files,       \* stream files: 1 is main.wal, 1 + n the n-th branch's
  branches,    \* pl.Branches
  plan,        \* plan.json: absent or unreadable, or the topology it describes
  found        \* history: the workload the run found in the directory

mainvars   == <<firstTouch, lsn, mainRecs>>
branchvars == <<fork, based, cur, recs>>
vars       == <<mainvars, stage, failed, branchvars, files, branches, plan, found>>

Record == [lsn : Nat, page : Nat, kind : {"FULL_PAGE", "DELTA"}, size : Nat]

ASSUME OldWorkloadsAssumption ==
  \A old \in OldWorkloads :
    DOMAIN old.files \subseteq Nat /\ old.files \in [DOMAIN old.files -> Seq(Record)]
NoPlan == [present |-> FALSE]

TypeOK ==
  /\ DOMAIN firstTouch \subseteq Pages /\ firstTouch \in [DOMAIN firstTouch -> Nat]
  /\ lsn \in Nat /\ cur \in Nat /\ fork \in Nat /\ based \subseteq Pages
  /\ mainRecs \in Seq(Record) /\ recs \in Seq(Record)
  /\ stage \in {"main", "fork", "branch", "plan", "done"} /\ failed \in BOOLEAN
  /\ DOMAIN files \subseteq Nat /\ files \in [DOMAIN files -> Seq(Record)]
  /\ Len(branches) <= BRANCHES

Init ==
  /\ firstTouch = [p \in {} |-> 0]
  /\ lsn = 0
  /\ mainRecs = <<>>
  /\ stage = "main" /\ failed = FALSE
  /\ fork = 0 /\ based = {} /\ cur = 0 /\ recs = <<>>
  /\ branches = <<>>
  /\ found \in OldWorkloads /\ files = found.files /\ plan = found.plan

(* Bug: the LSN is the start offset of the record.                            *)
EmitAtStart(page, hasBase, end, size) ==
  [lsn |-> end, page |-> page, size |-> size,
   kind |-> IF hasBase THEN "DELTA" ELSE "FULL_PAGE"]

(* A full image when the page has no base yet, else a delta on top of it; the *)
(* LSN is the end offset of the record.                                       *)
Emit(page, hasBase, end, size) ==
  [lsn |-> end + size, page |-> page, size |-> size,
   kind |-> IF hasBase THEN "DELTA" ELSE "FULL_PAGE"]
SizesOf(hasBase) == IF hasBase THEN DeltaSizes ELSE {FullSize}

MainRecord(page, size) ==
  LET seen == page \in DOMAIN firstTouch
      rec  == Emit(page, seen, lsn, size)
  IN  /\ stage = "main" /\ ~failed /\ Len(mainRecs) < RECORDS
      /\ size \in SizesOf(seen)
      /\ lsn' = rec.lsn
      /\ firstTouch' = IF seen THEN firstTouch
                       ELSE [p \in DOMAIN firstTouch \cup {page} |->
                               IF p = page THEN rec.lsn ELSE firstTouch[p]]
      /\ mainRecs' = Append(mainRecs, rec)
      /\ UNCHANGED <<stage, failed, branchvars, files, branches, plan, found>>

(* os.WriteFile: whatever the file held before is gone.                       *)
Written(n, stream) ==
  [f \in DOMAIN files \cup {n} |-> IF f = n THEN stream ELSE files[f]]

AfterBranch(n) == IF n < BRANCHES THEN "fork" ELSE "plan"

WriteMain ==
  /\ stage = "main" /\ ~failed /\ Len(mainRecs) = RECORDS
  /\ files' = Written(1, mainRecs)
  /\ stage' = AfterBranch(0)
  /\ UNCHANGED <<mainvars, failed, branchvars, branches, plan, found>>

(* mainLSNs[lo + rng.intn(hi - lo)], zero-based; the base map is computed     *)
(* from firstTouch, against that fork.                                        *)
Lo == RECORDS \div 10
Hi == RECORDS - RECORDS \div 10

(* Bug: a base above the fork counts.                                         *)
BasedAnywhere(f) == DOMAIN firstTouch

BasedAt(f) == {p \in DOMAIN firstTouch : firstTouch[p] <= f}

Fork(i) ==
  /\ stage = "fork" /\ ~failed /\ i \in Lo .. Hi - 1
  /\ fork' = mainRecs[i + 1].lsn
  /\ based' = BasedAt(mainRecs[i + 1].lsn)
  /\ cur' = mainRecs[i + 1].lsn
  /\ recs' = <<>>
  /\ stage' = "branch"
  /\ UNCHANGED <<mainvars, failed, files, branches, plan, found>>

BranchRecord(page, size) ==
  LET rec == Emit(page, page \in based, cur, size)
  IN  /\ stage = "branch" /\ ~failed /\ Len(recs) < BRANCH_RECORDS
      /\ size \in SizesOf(page \in based)
      /\ cur' = rec.lsn
      /\ based' = based \cup {page}
      /\ recs' = Append(recs, rec)
      /\ UNCHANGED <<mainvars, stage, failed, fork, files, branches, plan, found>>

(* agent-%03d.wal                                                             *)
BranchFile == 2 + Len(branches)

(* Bug: the head of main is recorded as the head of the branch.               *)
BranchEntryMainHead ==
  [fork_lsn |-> fork, wal_file |-> BranchFile, records |-> BRANCH_RECORDS, head_lsn |-> lsn]

BranchEntry ==
  [fork_lsn |-> fork, wal_file |-> BranchFile, records |-> BRANCH_RECORDS, head_lsn |-> cur]

PlanOf(bs) ==
  [present |-> TRUE,
   main |-> [fork_lsn |-> 0, wal_file |-> 1, records |-> RECORDS, head_lsn |-> lsn],
   branches |-> bs]

(* Bug: the plan is saved along with every branch.                            *)
WriteBranchAndPlan ==
  /\ stage = "branch" /\ ~failed /\ Len(recs) = BRANCH_RECORDS
  /\ files' = Written(BranchFile, recs)
  /\ branches' = Append(branches, BranchEntry)
  /\ plan' = PlanOf(branches')
  /\ stage' = AfterBranch(Len(branches) + 1)
  /\ UNCHANGED <<mainvars, failed, branchvars, found>>

WriteBranch ==
  /\ stage = "branch" /\ ~failed /\ Len(recs) = BRANCH_RECORDS
  /\ files' = Written(BranchFile, recs)
  /\ branches' = Append(branches, BranchEntry)
  /\ stage' = AfterBranch(Len(branches) + 1)
  /\ UNCHANGED <<mainvars, failed, branchvars, plan, found>>

WritePlan ==
  /\ stage = "plan" /\ ~failed
  /\ plan' = PlanOf(branches)
  /\ stage' = "done"
  /\ UNCHANGED <<mainvars, failed, branchvars, files, branches, found>>

(* os.WriteFile answers an error and run returns it at once: the file is as   *)
(* it was, or holds a prefix of what was being written.                       *)
Torn(stream) == {SubSeq(stream, 1, n) : n \in 0 .. Len(stream) - 1}

WriteFails ==
  /\ ~failed
  /\ \/ /\ stage = "main" /\ Len(mainRecs) = RECORDS
        /\ files' \in {files} \union {Written(1, s) : s \in Torn(mainRecs)}
        /\ UNCHANGED plan
     \/ /\ stage = "branch" /\ Len(recs) = BRANCH_RECORDS
        /\ files' \in {files} \union {Written(BranchFile, s) : s \in Torn(recs)}
        /\ UNCHANGED plan
     \/ stage = "plan" /\ plan' \in {plan, NoPlan} /\ UNCHANGED files
  /\ failed' = TRUE
  /\ UNCHANGED <<mainvars, stage, branchvars, branches, found>>

Next ==
  \/ \E page \in Pages, size \in {FullSize} \cup DeltaSizes :
       MainRecord(page, size) \/ BranchRecord(page, size)
  \/ WriteMain
  \/ \E i \in 0 .. RECORDS - 1 : Fork(i)
  \/ WriteBranch
  \/ WritePlan
  \/ WriteFails

Spec == Init /\ [][Next]_vars

-----------------------------------------------------------------------------
(* What a reader of the branch sees: the records of main up to the fork, both *)
(* ends included, and then the branch's own.                                  *)
History(b) ==
  ({"main"} \X {i \in DOMAIN mainRecs : mainRecs[i].lsn <= b.fork_lsn})
    \cup ({"own"} \X DOMAIN files[b.wal_file])
At(b, p) == IF p[1] = "main" THEN mainRecs[p[2]] ELSE files[b.wal_file][p[2]]
Below(p, q) == IF p[1] = q[1] THEN p[2] < q[2] ELSE p[1] = "main"
Image(record, page) == record.kind = "FULL_PAGE" /\ record.page = page

(* Every delta, on main and on every branch, has a full image of its page     *)
(* below it in the history the branch sees: the base map of a fork agrees     *)
(* with the stream at the boundary itself.                                    *)
EveryDeltaHasBase ==
  /\ \A i \in DOMAIN mainRecs : mainRecs[i].kind = "DELTA" =>
       \E j \in 1 .. i - 1 : Image(mainRecs[j], mainRecs[i].page)
  /\ \A n \in DOMAIN branches :
       LET b == branches[n]
       IN  \A p \in History(b) : At(b, p).kind = "DELTA" =>
             \E q \in History(b) : Below(q, p) /\ Image(At(b, q), At(b, p).page)

(* A page that already has a base is never sent again as a full image.        *)
OneFullImagePerHistory ==
  \A n \in DOMAIN branches :
    LET b == branches[n]
    IN  \A p, q \in History(b) :
          Image(At(b, p), At(b, p).page) /\ Image(At(b, q), At(b, p).page) => p = q

(* A fork's base map agrees with the stream on both sides of the boundary:    *)
(* every history holds exactly the full images its deltas need.               *)
HistoriesMaterialize == EveryDeltaHasBase /\ OneFullImagePerHistory

(* Each LSN is the end offset of its record above the start of the timeline.  *)
EndOffsets(stream, start) ==
  \A i \in DOMAIN stream :
    stream[i].lsn - stream[i].size = IF i = 1 THEN start ELSE stream[i - 1].lsn
LsnsAreEndOffsets ==
  /\ EndOffsets(mainRecs, 0)
  /\ \A n \in DOMAIN branches : EndOffsets(files[branches[n].wal_file], branches[n].fork_lsn)

(* LSNs rise strictly on main and along the history of every branch, across   *)
(* its fork too.                                                              *)
LsnsRise ==
  /\ \A i, j \in DOMAIN mainRecs : i < j => mainRecs[i].lsn < mainRecs[j].lsn
  /\ \A n \in DOMAIN branches :
       LET b == branches[n]
       IN  \A p, q \in History(b) : Below(p, q) => At(b, p).lsn < At(b, q).lsn

(* Streams are well typed; their LSNs are end offsets, and rise along every   *)
(* history.                                                                   *)
StreamsSound == TypeOK /\ LsnsAreEndOffsets /\ LsnsRise

(* A plan is true of the files next to it: all are there and whole, of the    *)
(* lengths and heads it says, and every branch forks at a record of main.     *)
Describes(fs, b) ==
  /\ b.wal_file \in DOMAIN fs
  /\ Len(fs[b.wal_file]) = b.records
  /\ b.head_lsn = IF b.records = 0 THEN b.fork_lsn ELSE Last(fs[b.wal_file]).lsn
PlanHolds(fs, p) ==
  /\ Describes(fs, p.main)
  /\ \A n \in DOMAIN p.branches :
       /\ Describes(fs, p.branches[n])
       /\ \E i \in DOMAIN fs[1] : fs[1][i].lsn = p.branches[n].fork_lsn
PlanOfThisRun ==
  /\ plan.present /\ PlanHolds(files, plan)
  /\ plan.main.records = RECORDS /\ Len(plan.branches) = BRANCHES

(* Files are written in order: the streams before the one at hand are whole   *)
(* and of this run, a failed run may have torn the one at hand, and those     *)
(* after it are as they were found.                                           *)
StreamsWritten == IF stage = "main" THEN 0 ELSE 1 + Len(branches)
WrittenWhole ==
  /\ stage # "main" => 1 \in DOMAIN files /\ files[1] = mainRecs /\ Len(mainRecs) = RECORDS
  /\ \A n \in DOMAIN branches : branches[n].wal_file = n + 1 /\ Describes(files, branches[n])
OthersAsFound ==
  LET torn == IF failed THEN 1 ELSE 0
  IN  \A f \in DOMAIN files \cup DOMAIN found.files :
        f > StreamsWritten + torn =>
          f \in DOMAIN files /\ f \in DOMAIN found.files /\ files[f] = found.files[f]

(* What the directory holds in every state, after any failed write too: the   *)
(* plan is the one found, or torn by the write that failed, or a complete one *)
(* of this run that is true of every stream, all whole by then; it is the     *)
(* last once the run is done.  Streams are replaced one after the other.      *)
DirectorySound ==
  /\ \/ plan = found.plan /\ stage # "done"
     \/ plan = NoPlan /\ failed /\ stage = "plan"
     \/ PlanOfThisRun /\ stage = "done"
  /\ WrittenWhole
  /\ OthersAsFound

(* "so every branch has both ancestry below it and parent WAL above it"       *)
(* (main.go:108).                                                             *)
ForkInsideMain ==
  \A n \in DOMAIN branches :
    /\ \E i \in DOMAIN mainRecs : mainRecs[i].lsn <= branches[n].fork_lsn
    /\ \E i \in DOMAIN mainRecs : mainRecs[i].lsn > branches[n].fork_lsn
=============================================================================
