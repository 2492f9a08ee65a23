# A verification project for the labs of *Databases in the AI era*

The repository holds a course site and the code of four labs.  This directory
holds TLA+ modules that model that code, TLC configurations that check them on
small instances, and theorems about them that TLAPS proves for every instance.
Paths below are relative to `src/course/materials/` unless they start with
`src/`.

## 1. Inventory

| component | where | state | operations |
|---|---|---|---|
| Engine contract | `lab1/src/lib.rs` | (a trait) | put, get, scan, knn; delete is kept off the trait |
| Memtable | `lab1/src/memtable.rs` | sorted map of slots, side-table of vectors by doc id, doc-id counter, byte estimate | put, delete, get, scan, knn, is_full, iter_for_flush, with_first_doc_id |
| SSTable writer | `lab1/src/sstable.rs` | pending entries, vector codes, row ids; then a file | add, add_tombstone, finish |
| SSTable reader, HNSW, quantizer, Db | `lab1/src/sstable.rs`, docs | none: `todo!()` | written by students |
| Workload generator | `lab1/src/workload.rs` | live table, next doc id, trace | generate, brute_force_knn, recall |
| Smoke bench | `lab1/src/bin/bench.rs` | position in the trace, recalls | replay with asserts |
| Object store | `lab2/storage.go` | objects | Put, Get, GetRange, List, Delete |
| MemStore | `lab2/storage.go` | map of byte slices, RWMutex, atomic counters | the same, from many goroutines |
| MinIOStore | `lab2/storage.go` | a remote bucket | wrappers around a client library |
| WAL wire format, layer keys | `lab2/types.go` | none | encode and decode |
| WAL generator | `lab2/cmd/walgen/main.go` | stream of main, branch streams, files, plan | run |
| Pageserver, branches, GC | `lab2/pageserver.go`, `lab2/branch.go` | none: stubs | `errNotImplemented` |
| Text-to-SQL grader | `lab3/grader/grade.py` | database connection, tally | load_db, grade_one, main |
| Warehouse schema, questions | `lab3/*.sql`, `*.jsonl`, `*.yaml` | data | none |
| LLM simulator, ledger, quality checks | `lab4/simulator.py` | ledger entries | judge_filter, judge_pair, score_proxy, oracle_*, Ledger.reset, by_tier, grade_filter, grade_pairs, ndcg_at_k |
| Semantic operators | `lab4/operators_stub.py` | (through the ledger) | naive sem_filter, Cost.measure, load_csv, smoke test; the rest are stubs |
| Corpus generator | `lab4/make_data.py` | four files | build_review, build_product, calibration_ids, write_csv, main |
| Slide deck | `src/course/deck.js` | current slide, URL hash | show, key, click and hash handlers |

How they interact.  The bench generates a whole trace and replays it against a
memtable; the memtable hands its rows, at flush time, to an SSTable writer and
its doc-id counter to a successor.  Goroutines share one MemStore.  The WAL
generator writes the streams and the plan that a pageserver loads.  Labs 3 and
4 are single-threaded scripts around a database connection and a ledger; those
of lab 4 also share the hidden gold rule and, through a directory, the files
the corpus generator writes and the operators load.

What is hard, and where correctness lies:

- **Memtable**: three structures that every call must keep in step (map,
  side-table, counter).  knn trusts the side-table alone, the flush iterator
  panics when the side-table lacks a vector, and doc ids must be assigned in
  strict put order, for ever, because ground truth is expressed in them.
  Nothing refuses a NaN, which leaves knn without an order.
- **Flush**: deletes of rows that only older tables hold, doc ids across
  tables, writes that fail half way and leave a torn file.
- **SSTable writer**: refused adds between accepted ones, ordinals and counts
  truncated to 32 bits with a sentinel, padded section offsets.
- **Bench**: two programs that must number and retire versions identically.
- **MemStore**: overlapping calls, a map that must never see a write overlap
  anything, slices shared with callers, locks on early-return and panic paths.
- **WAL format**: a length field that is used before its checksum is verified,
  16-bit lengths and sums, streams torn or damaged in storage.
- **WAL generator**: the boundary at a fork (`<=`), LSNs that are end offsets,
  integer margins that vanish, files written one by one with no transaction
  over those of an older run.
- **Corpus generator**: four files truncated in place one after the other,
  which must tell one story with each other, with gold and with their texts,
  whichever run wrote which.
- **Grader**: one connection for student and gold statements, whose options,
  macros and transactions outlive a statement, exceptions that no handler is
  for, two notions of equal rows.
- **Simulator**: answers that must not depend on call order, a ledger that must
  stay exact across calls that raise and resets, gold that is reached by id,
  by text and through links, ties that only a second key breaks.
- **Deck**: address edits whose events are handled later than the keys pressed
  in between.

The hazards are listed one by one, with their lines and the properties that
watch them, in `PROJECT.json`.

## 2. Modules

| module | models | role |
|---|---|---|
| `Vlsm` | `lib.rs` types, `check_dim`, the knn order | shared constants and operators of lab 1 |
| `Engine` | `trait Engine` | abstract specification |
| `Memtable` | `memtable.rs` | component; implements `Engine` |
| `MemtableProofs` | | theorems about `Memtable`, its refinement of `Engine`, and lemmas on ranking and on counting bytes |
| `SstWriter` | `sstable.rs` (writer) | component |
| `SstWriterProofs` | | theorems about `SstWriter`: key order, ordinals, layout, round trip |
| `Flush` | memtable + writer + driver | composition; implements `Engine` through memtable and files |
| `FlushProofs` | | theorems about `Flush`, and its refinement of `Engine`, from those about its two parts |
| `Workload` | `workload.rs` | component |
| `Bench` | `bench.rs` | composition of `Workload` and `Memtable` |
| `BenchProofs` | | theorems about `Bench`: generator and memtable number and retire the same versions |
| `ObjectStore` | `ObjectStore` interface | abstract specification |
| `MemStore` | `MemStore` | component; implements `ObjectStore` |
| `MemStoreProofs` | | theorems about `MemStore`, and its refinement of `ObjectStore` |
| `WalCodec` | records and delta payloads of `types.go` | component, with the storage between writer and reader |
| `Walgen` | `cmd/walgen/main.go` | component |
| `WalgenProofs` | | theorems about `Walgen` |
| `Grader` | `grader/grade.py` | component, with the database session it runs on |
| `Corpus` | `make_data.py`, the fragment banks and the gold rule of `simulator.py` | component, with the directory it writes to |
| `Simulator` | `simulator.py`, `sem_filter`, `Cost`, `load_csv`, the smoke test | composition of lab 4, on top of `Corpus` |
| `SimulatorProofs` | | theorems about the corpus, gold, the simulator's answers, its ledger, and a filter's quality and cost |
| `Deck` | `src/course/deck.js` | component, with the browser's event queue |
| `CourseProofs` | | theorems about `Grader` and `Deck` |
| `MC*` | | instances for TLC |

Every module that models code also holds, next to a definition, the variants
of it that a plausible bug would produce; their comments start with `Bug:` and
nothing uses them.  They show that each property can fail.  The property a run
checks is often the conjunction of a module's type invariant and one or two
named parts (`WellFormed`, `KeysInOrder`, `StoreSound`, ...); the parts keep
their own definitions and comments.

### How state and actions correspond to the code

- **`Memtable`**.  `map`, `vectors`, `next_doc_id` and `approx_bytes` are the
  fields of the struct.  `&mut self` makes a call atomic, so one call is one
  action; `reply` is what it returned.  A key is a number whose order stands
  for byte order, and its length is a constant.  `put` inserts the new vector
  and then removes the displaced one: `DropDisplaced` is applied to the table
  that already holds the new vector, in that order.  A `debug_assert` or a
  panic that no input reaches is a property, not an action; `scan` of an
  inverted range, which does panic, answers `panic`.  So may `knn` while some
  vector is at distance `NaN` from the query: the comparison is no order then,
  and what is left is the contract of the standard library's sort (`Vlsm`,
  `AnyCandidates`).
- **`Engine`** keeps live rows only.  Its `Knn` allows every answer that has
  the right length, is sorted by distance and leaves nothing nearer out; the
  memtable's tie-break by doc id is one of them.  It promises no order while
  the vector of a *live* row has no distance to the query, so a NaN must stop
  mattering as soon as its row is overwritten or deleted.
- **`SstWriter`**.  One action per outcome of a call: `AddPlain`,
  `AddVectored`, `AddTombstone`, `UnsortedKey`, `DimMismatch`.  `finish` is
  `CreateFails`, or `Finish` (the file has been truncated) followed by
  `WriteDone` or `WriteFails`, because `std::fs::write` is not atomic.
  `U32` stands for 2^32.  The CRC and the encoding of integers are left out;
  lengths, counts, offsets and ordinals are kept.  `accepted` is a history
  variable.  `RoundTrip` also says when `finish` may answer Ok.
- **`Flush`** instantiates both on shared variables.  The loop that calls them
  is not in the repository: it is taken from the comments that tell students
  how to call the two (memtable.rs, lines 45-55, 69-77 and 99-101) and marked
  external in the map.  A retry reuses the path, and a torn file lies under it
  until the next write.  Nothing in the repository says that a flush is tried
  again, or that a disk recovers, so no liveness is claimed.  `View` is the
  refinement mapping: memtable over files, newest first, tombstones hiding.
- **`Workload` / `Bench`**.  Each random draw is a choice, so a run covers all
  seeds.  The trace is generated whole before the replay starts, as in the
  code.  `key_for` prints a slot with eight hex digits; `KeySpaceAssumption`
  keeps key spaces below 16^8 slots, where the order of keys is that of slots
  and a key is modelled by its slot.  `Report` is the end of `main` with its
  assert: a trace without a query ends in `no_knn`.
- **`MemStore`**.  A call is several actions: count, lock, body, copy, unlock.
  A slice is a reference into `heap`, so that storing or returning a shared
  slice would be visible; callers `Scribble` over theirs between calls.  The
  RWMutex follows Go's: a waiting writer bars new readers, and hands over to
  the readers that came meanwhile when it unlocks.
- **`Walgen`**.  One action per record, per file write and per failed write.
  A record is its LSN, page, kind and size.  The directory is empty or holds
  an older workload (`OldWorkloads`); a write that fails leaves the file as it
  was or with a prefix of the new stream, and ends the run (`failed`).  The
  margins of the forks are the code's, ten per cent by integer division.
  `found` is a history variable.
- **`WalCodec`**.  The stream is a sequence of cells, one per field, and
  `Encode`/`Decode` are operators with the code's widths (`U16`, `MaxU16`).
  The actions are what happens to a stream: `Emit*` (refused when the payload
  does not fit, where the code panics), `Close`, `Tear`, `Corrupt` and
  `ReadNext`.  A checksum is a cell only the same cells can have: collisions
  of CRC-32C are outside the model.
- **`Grader`**.  One action per outcome of a question: `Missing`, `Stale`,
  `NoStatement` (an answer with nothing to execute, or null, raises what no
  handler catches and ends the run), `Fails` (binder or execution error,
  possibly after a part of a script took effect), `Answered` and `GoldFails`
  (the gold query raises outside of every `try`).  A statement is what it
  refers to, what it does and what it returns.  The session holds a database,
  temporary views, whether options, macros or attached databases have `altered`
  it, and an explicit transaction with what its rollback goes back to; a
  read-only database refuses writes only.  Gold queries name tables with their
  schema, so that no view hides them.  `raised` says what ended the run, an
  answer or gold.  Gold returns the snapshot's rows while the session is as it was
  opened, and may return anything once it is `Moved`.  `Init` chooses `--data`
  (read-only snapshot) or the in-memory schema.
  A cell has a kind, a number in ten-millionths and a `form` for whatever else
  its repr shows (the sign of a float, the scale of a decimal).  `Rounded` is
  `round(v, 6)` of the double nearest to the number: a half goes to the even
  millionth when a double holds it, else to the side the double is on, which
  the constant `Above` lists.  `CellEqual` is Python's `==`, across types and
  with a decimal compared to the double a float is; `Repr` is the place of a
  row's repr among all strings.  Left out: texts that spell numbers, which a
  scalar comparison converts, and doubles between two ten-millionths.
- **`Corpus`**.  Hashes are choices made once, in `CorpusInit`: `gold` is the
  hidden rule, `hash` the other draws a row is built from.  A text is the set
  of fragments it carries, a file is its rows and whether a last one was cut
  short.  One action per file write; `WriteFails` leaves the file as it was or
  torn, and ends the run.  The next run starts over, and finds what is there.
- **`Simulator`** extends `Corpus`, whose draws are its gold.  Scores and
  same-kind joins are chosen in `Init`, the hash behind an error when its key
  is first used (`Toss`), so one run covers all seeds; whether it flips an
  answer depends on the truth as well (`Share`, `Flipped`): one hash may flip
  one row and not another that has the same key.  A tier is a name or a
  `ModelTier` of the caller's own (`Instances`), which may bear the name of
  another one and then shares its hashes.  `IdRank` orders ids as strings.  One action
  per public method, raising calls included; `sem_filter` is `StartFilter`, one
  `FilterRow` per row and `FilterDone`, with its cost window taken from the shared ledger.  The caller
  passes rows, rows that lost columns (`Cut`), texts (`Raw`) and a row without
  id.  Prices keep their ratio, tokens are constant; `calls` and `report` are
  history variables.  `Dcg` discounts by integers that stand for
  1 / log2(i + 2); the quotient of `ndcg_at_k` is left out, numerator and
  denominator are not.
- **`Deck`**.  `show()` is `Show`, one action per group of keys; `EditHash`
  queues an event and `HashChange` handles one, reading the address as it is
  by then.  `slide` is the script's `i`, `shown` the slide that carries the
  class.

## 3. Runs

| run | question | bounds, and why they are enough |
|---|---|---|
| `memtable` | does any sequence of calls break the side-table, the ids, the estimate or the contract? | two keys, two value sizes, two good vectors and one of the wrong dimension: every kind of displacement, ties and NaN in knn; four puts or five deletes (MaxBytes = 250) |
| `sst_writer` | does a table read back as what was accepted? | four keys, three rows, U32 = 4: the last usable ordinal is reached; key-block ends before, at and after a boundary |
| `flush` | is flushing invisible? | two keys, two tables and a third memtable: a tombstone in the newest shadows a row in the oldest |
| `bench` | does the replay agree with the generator? | two slots, one warm-up upsert, four operations: overwrite between two queries |
| `memstore` | linearizable, race-free, live? | two goroutines, three calls: a writer waits for a reader while a reader waits for it |
| `walgen` | are all histories materializable, LSNs rising, and what does a directory hold after any write? | two pages, three records, two branches of two records, over an empty directory or one with an older plan of three branches: forks at the first record, at the last and between them, above, at and below the first image of a page; any write may fail |
| `walgen_short` | is there parent WAL above every fork? (violated) | two records, one branch: the margin of fewer than ten records is zero |
| `wal_codec` | do damaged streams yield a prefix, and delta spans round-trip? | two records, two faults: a damaged length together with a damaged kind or checksum; pages of two bytes, lengths up to six, span lists of up to two spans with ends in, at and past the page and past 16 bits |
| `grader` | can an answer move gold on the snapshot, and is every verdict the one its rows call for? | two questions, so that what the first leaves behind meets the second, over tables of up to two rows with duplicates, NULL and floats that round alike, in both orders; or one question over every type of cell: zeros of every type and sign, a tenth as float and decimal, a half that rounds up, nan, text, the empty table |
| `grader_floats` | are floats of a table compared with a tolerance? (violated) | one question, two one-row tables |
| `simulator` | one story on disk, repeatable answers, exact bills and costs, consistent gold? | two reviews, two products, one aspect, every gold rule; two generator runs, so that one file may be of a run that failed after the other; three calls, filters of up to two rows. Draws differ where they can matter (a tie or not, a link or not, stars on both sides), and directories that hold a corpus already meet fewer of them; three hashes, below both rates of the cheap tier, between them and above both, and a tier of the caller's own by the name of the cheap one. Ids have one digit, so that strings and numbers are in the same order; the theorems take any order |
| `deck` | do slide and address agree? | four slides, addresses from -1 to 6, three edits |

Bounds named in the modules: `MaxBytes` (sum of charges, `Memtable`),
`MaxRows` (`SstWriter`), `MaxTables` (`Flush`), `NUM_OPS` (`Workload`, a real
parameter), `MaxCalls` and `Bufs` (`MemStore`; seven buffers are enough for what
two keys and two callers can refer to at once, so an allocation never waits), `RECORDS` and the like
(`Walgen`, real parameters), `MaxRecords` and `MaxFaults`
(`WalCodec`), `MaxRows`, `MaxRuns` and `MaxSteps`
(`Simulator`; `SmokeRows` is the code's 500), `MaxEdits` (`Deck`).

Deadlock is checked for the memtable, which can always be read, and for the
deck, which always takes a key.  The other runs say `CHECK_DEADLOCK FALSE`
where the program ends (generators, bench, writer, reader, grader) or where the
bound stops it.

### Fairness

- `MemStore`: every goroutine that can run is run (weak fairness), and taking
  the writer mutex is strongly fair, since `sync.Mutex` hands itself to a
  waiter that starves.  Nobody is obliged to call.
- `Deck`: weak fairness of `HashChange`: the browser dispatches queued events.
  The reader is not obliged to do anything.

### Disagreements between code and text

Two are shown by runs:

1. `grade.py` rounds the floats of a table to six decimals and then wants
   equality; the lab promises a tolerance (`grader_floats`).
2. `walgen` says every branch has parent WAL above its fork; with fewer than ten
   records the margins are zero and a branch may fork at the head
   (`walgen_short`).

Others were met while modelling.  The models do what the code does there, and
have no run of their own:

- `MemStore.GetRange` returns fewer than `length` bytes, without an error, at
  the end of an object; the interface says it returns `length` bytes
  (storage.go, line 39).  `ObjectStore` promises the shorter answer, and
  `Linearizable` that it is the right one.
- The lab says that gold was materialized once and frozen; `grade.py` runs the
  gold query after each answer, on its connection.  An option, a macro or an
  attached database that an answer leaves there is what gold runs under, on the
  read-only snapshot too; `GoldOnSnapshot` says that nothing else is.
- `EXEC_ERROR` is said to stand for any other failure; an answer that is empty,
  a comment or null raises what no handler catches and ends the run without a
  class (`NoStatement`).  The verdicts before it stand, later questions get none.
- The comparison without an order is called a multiset comparison; it is one
  of repr strings, by which -0.0, also from rounding, differs from 0.0, and the
  integer 2 from the float 2.0.
- "re-wrapping rows cannot move gold" (simulator.py, lines 26-27): a ranking
  reads the stars and a join the product_id of the row that is passed, so a row
  that was projected ranks by three stars and joins with nothing.  `GoldSound`
  says how far that goes: such a row stays among the rows of its own truth, and
  gains no pair.  `AnswersRepeat` says which questions are the same.
- `Memtable::scan` panics for `start > end` (`Scan` answers `panic`); the trait
  promises the rows of `[start, end)`.
- Tables whose gold has an order are compared with `==`, the others through
  `repr`; `VerdictsSound` states both rules.
- `lab-3.html` (line 149) has predictions projected to gold's arity before the
  comparison, and does not count an empty result that matches an empty gold as
  correct by itself; `grade.py` projects nothing and lets an empty table pass
  against an empty one.  `VerdictsSound` is about what `grade.py` does.
- `grade.py` reports a stale table before it runs the statement; `lab-3.html`
  gives binder errors precedence.
- `grade_pairs` finds gold pairs through the left side's `product_id`: with
  products on the left every candidate is a pair of a product with the same
  id on the right.  `GoldSound` states it for reviews on the left.
- A raw string and the row it belongs to are judged differently for an aspect
  that has no planted fragment in texts of that kind; `TextAgrees` is stated
  for the others.
- `judge_pair` draws an error per ordered pair, so a judge may say that each of
  two docs beats the other; `GoldSound` and `RankingSound` are about gold.
- "ties broken by ascending doc id": they are broken by the string `kind:id`,
  which puts `review:10` before `review:2`, and products before reviews.
- `grade_pairs` never counts a pair of two docs of one kind, although
  `judge_pair` and `oracle_pair` have a rule for them.
- `ndcg_at_k` does not look for repetitions: a ranking that names its best doc
  twice may exceed 1.  `RankingIsIdeal` is about rankings without repetitions.
- "the ledger records every oracle touch": `Ledger.reset` erases them;
  `LedgerIsComplete` is about what came after the last reset.
- A `walgen` run that fails leaves the plan of an older run next to the streams
  it has already overwritten (`DirectorySound` says what is there).
- `load_csv` takes a torn file for a whole one, and the smoke test grades the
  rows it finds.

## 4. Proofs

Everything in this section holds for all values of the constants that satisfy
the `ASSUME`s of the modules, which TLC evaluates on every run.  A few theorems
have a hypothesis besides, which is named and explained where it occurs.  In
each module `IInv` is what is inductive: the properties of the runs seldom are.

### `MemtableProofs`

- `SideTableInvariant`: `Spec => []IInv`, where `IInv` is `TypeOK` together
  with `FlushNeverPanics`, `OnlyLiveVectors` and `OneRowPerDocId`.  None of the
  three is inductive alone: that a put keeps the ids of live rows distinct
  needs the counter to be past them; that dropping the displaced id leaves
  every other live row its vector needs the ids to be distinct; and that the
  vector just inserted survives the drop needs its id to differ from the
  displaced one, hence the counter again.
- `TypeCorrect`, `FlushSafe`, `KnnSeesLiveOnly`, `DocIdsDistinct`: the parts.
- `NoDocIdReuse`: the action property, from the same invariant.
- `MemtableImplementsEngine`: `Spec => ImplementsEngine`, call by call.
  `PutRefines` and `DeleteRefines` follow from the invariant (the vector that
  is dropped belongs to the displaced row alone).  `KnnRefines` rests on
  `SideTableIsLiveVectors` (the side-table is the function from ids to vectors
  that the contract reads off the live rows) and on `RankedIsNearest`: the
  ranking by distance, then id, has the right length, has no repetitions, is
  sorted and leaves nothing nearer out.  That in turn comes from
  `PositionIsRank`: under a strict total order, "how many are below" is a
  bijection from a finite set to `0 .. n - 1`, because it is an injection between
  sets of equal size.
  Hypothesis `OrderedScans`: nobody scans from a later key to an earlier one.
  It is needed, `Memtable::scan` panics there (section 3), and clients that keep
  to the trait's `[start, end)` satisfy it.
- `EstimateSound`: `Spec => []EstimateCoversHeldBytes`.  `BytesGrow` and
  `BytesShrink` count the bytes of a function from owners to sizes after one
  owner is added, replaced or removed; what an overwrite releases is never
  subtracted from the estimate, so it may only be too large.

### `SstWriterProofs`

Hypothesis `RowsFit` of all but the first two: `MaxRows < U32`, a table has
fewer rows than 32 bits can count.  The code casts the number of rows to `u32`
unchecked and reserves the last ordinal for rows without a vector; a table of
four thousand million rows does not fit in the buffer it is built in.  The run
`sst_writer` has the largest `MaxRows` the hypothesis admits.

- `Pad64Correct`: what `pad64` returns, for every length.
- `LayoutWellLaidOut`: for every key-block size, number of vectors and
  dimension, sections are aligned, in order, disjoint and before the footer.
- `FileWellLaidOut`, `FileRoundTrips`, `VectorsReferencedOnce`,
  `KeysAlwaysInOrder`: the four invariants of the run.  `IInv` is `TypeOK`,
  `BufInv` (each buffered entry describes the accepted row of the same index,
  keys rise, each ordinal below the number of vectors is referenced, by one
  entry) and `FileInv` (a whole file is the image of the buffers, which
  `finish` does not touch; an answer of Ok goes with a whole file, and a whole
  file with that answer, so a torn one is never taken for a table).
  `OpenIInv` starts a writer over a path that is free or holds a torn file.  Round trip and references are about a file that
  may not exist yet, so they say nothing of the buffers it will be made from:
  `BufInv` is what carries them through the adds, refused ones included.

### `FlushProofs`

The results about the two parts, put together with `INSTANCE`: lemmas of
`MemtableProofs` and `SstWriterProofs` are cited on the shared variables, the
module proves what happens between the parts.  Hypothesis `RowsFit`, as above.

`IInv` is the invariant of the memtable, that of the writer, and

- `FeedInv`: what the writer has accepted is an initial part of the memtable
  in ascending key order, row by row, and it is finished only when that part is
  everything.  `FlushOrderIsOrder` says that `iter_for_flush` yields each slot
  once and ascending (from `AscendingIsOrder`), which is why the writer cannot
  refuse a key;
- `DiskInv`: ids of tables are apart from each other and from the memtable's,
  and among the tables that hold a key one is the newest.

The theorems:

- `FlushAlwaysSound`: types, and no entry is ever refused.
- `IdsNeverCollide`: `GloballyUniqueIds`.  When a table joins the others its
  ids leave the memtable in the same step, and the successor goes on with the
  counter, past all of them (`ImageFacts`, `SuccessorIInv`).
- `FlushImplementsEngine`: `Spec => ImplementsEngine`.  A call maps to the same
  call (`PutRefines`, `DeleteRefines`: the slot it leaves shadows whatever the
  tables hold of its key).  Every step of a flush is a stutter; that `Commit` is
  one (`CommitKeepsView`) needs the table to say of each key, tombstones
  included, what the memtable said, and to be the newest for exactly these keys.

### `MemStoreProofs`

For any number of goroutines, keys, buffers and requests, and any bound on
calls.  `BufsAssumption` says there is always a buffer nobody refers to: in the
program memory is allocated, and the model must not run out of names for it.
`RequestsAssumption` gives requests the types of the Go signatures.

- `BuffersAreOwned`: `Spec => []NoAliasing`.
- `StoreAlwaysSound`: `Spec => []StoreSound`: mutual exclusion, no map access
  overlaps a write, counters are exact.
- `StoreIsLinearizable`: `Spec => Linearizable`, the refinement of
  `ObjectStore`: `Invoke` maps to the invocation, the body under the lock (the
  lookup, for reads) to the step that takes effect, `Unlock` to the return, and
  everything else to a stutter.

`IInv` is `Typing`, `LockInv` (the sets of readers, waiting and active writers
are where the program counters say), `CallInv` (what a call knows in the middle:
a Put's bytes are unchanged until they are stored; a reader that has looked a
buffer up still has the one the key refers to) and `NoAliasing`.  `CallInv` is
what the refinement needs at `Copy`, and it holds only because of `LockInv`,
which keeps a Put or Delete from replacing the buffer, and of `NoAliasing`, which
keeps a caller's `Scribble` out of it.  `CountInv` is a second layer: a counter
is the number of calls of its kind that returned or are past their first step.

### `WalgenProofs`

For any numbers of pages, records, branches and any record sizes.

- `StreamsAlwaysSound`, `HistoriesAlwaysMaterialize`: `Stream` is what one
  stream owes its start and its base map (LSNs are end offsets and rise; a record is
  a full image exactly when its page had none below), `StreamGrows` that a record
  keeps it.  `IInv` says it of main, of the branch under way (`BranchInv`)
  and of those written (`WrittenInv`), with the counters that go with them:
  `firstTouch` is the set of pages main has an image of, `based` those of the
  fork's map and of the branch.  `HistoryRises` joins a branch to the main
  below its fork: the LSNs it inherits are at most the fork's, its own are past
  it.  A history joins two streams; `BaseMapAgrees`
  says that the map built at the fork and the records inherited through it cut
  main at the same LSN, the boundary included.
- `DirectoryAlwaysSound`: `Spec => []DirectorySound`, over whatever older
  runs have left and after whichever write failed.  The property says that a
  plan of this run is true of its streams; `PlanInv` says what is inductive,
  namely which of three plans is on disk by stage and failure (the one found,
  a torn one, `PlanOf` the branches) and that files past those written are as
  they were found (`OthersKeptAsFound`, `OneMoreWritten`), while `WrittenInv`
  has the streams before them, whole.  `WrittenAreWhole` puts the two together
  at the end of a run: by then every stream the plan names is written.

### `BenchProofs`

For any key space, numbers of operations, span, `k`, templates and draws, under
`ConfigAssumption` (a template is a vector of the right dimension, and any two
normalized vectors have a distance), `KeySpaceAssumption` (slots fit the eight
hex digits of a key, so that a key stands for its slot) and `LengthsAssumption`
(the types of key and value lengths).

- `BenchNeverPanics`: `Spec => []ReplaySound`, the report included
  (`ReportStep`: every query of a trace that was replayed left a recall).
- `RecallIsAlwaysOne`: `Spec => []RecallIsOne`.
- `ReplayAlwaysAgrees`: `Spec => []ReplayAgrees`.

The difficulty is that generator and memtable are never at the same place: the
replay begins when the trace is complete, so neither table says anything about
the other on the way.  `IInv` compares each with the trace at its own position.
`Latest(t, n)` is the set of upserts among the first n operations whose key is
not written again among them.  `LiveInv` says that the generator's table is
`Latest` of the whole trace, `MapInv` that the memtable's map and side-table are
`Latest` of the part that was replayed; `TableAdvances` carries both, because
both are a map to which the version of one key is added.  `OpsInv` is about the
trace alone: the n-th version has number n, no scan is inverted, and the truth
of a query is the ranking of any table of distances that agrees with `Latest`
before the query (`TruthRanks`: brute force over the generator's table was one
when the query was generated; later operations change nothing before it,
`SamePrefix`).  When the memtable meets the query, `MemtableFacts` shows that
its side-table is another such table, so its answer is the truth
(`KnnFindsTruth`), and an upsert is given the number of versions before it,
which is what the trace promised (`UpsertReplays`).  That the side-table holds
live vectors only is the invariant of `MemtableProofs`, taken over whole.

### `CourseProofs`

The scripts of the course that stand alone.  The grader, for any number of
questions, statements and result sets (`ResultsAssumption`, `ShapesAssumption`
say what a result set and the shape of a gold query are; `ReprAssumption` that
rows which differ in a value, a type, a sign or a scale print differently):

- `VerdictsAlwaysSound`: `Spec => []VerdictsSound`, duplicate rows and floats
  that round alike included.  What the code does is sort two lists of strings
  and compare them; what is claimed is that the rows can be paired off.  Between
  the two are bags.  Sorting puts a value at the places left to it by the
  smaller ones (`Slots`, `SlotsOfValue`), which no other value has
  (`SlotsApart`), so a sorted list holds what the list does (`SortedAtSlot`,
  `SortedIsBag`), and lists that hold the same are sorted alike
  (`BagsSortAlike`).  Bags in turn are pairings: one direction picks for every
  value a bijection between its places in the two lists, and glues them
  (`BagsMap`); the other restricts the pairing, which is onto because the lists
  are as long as each other, to the places of one value (`BagsPair`).
  `NormedRows` and `ReprsOfRows` carry this to rows that were rounded and
  printed; `AnyOrderPairs` and `InOrderPairs` are the two comparisons.  What is
  inductive is `VerdictInv`: a class on record is what `grade_one` makes of the
  two result sets on record, which later answers may not disturb.

- `GoldStaysOnSnapshot`: `Spec => []GoldOnSnapshot`.  That gold returned the
  snapshot's rows says nothing of the session the next gold query finds, so the
  invariant is about that session (`GoldInv`): as long as nobody altered it, the
  database, and what a rollback would go back to, are the snapshot
  (`Untouched`, carried by `SnapshotStays`), and gold was never what raised.
  Read-only mode is what keeps the database.

The deck, for any number of slides and any set of addresses:

- `DeckAlwaysSound`: `Spec => []DeckSound`, from `DeckTypeCorrect` and
  `AddressAgrees` on top of it.  `ShowAgrees` (whatever number `show()` is given,
  slide, class and address agree afterwards) carries every step but `EditHash`,
  for which the pending event is what makes the claim vacuous.

### `SimulatorProofs`

For every number of reviews, products and labels, any hashes, predicates, tiers
(those callers make themselves, under any name but the oracle's, included:
`TiersAssumption`) and number of calls, under `CorpusAssumption` (there is a review and a product,
hashes are naturals), for the last theorem also under `FilterAssumption` (the
rows of a filter come from one table, so that an id names a row, as
`grade_filter`, which compares ids alone, takes for granted):

- `CorpusAlwaysSound`: `Spec => []CorpusSound`.  What is inductive is
  `CorpusInv`: rows on disk are rows of their table, and the files before the
  one a run writes next are whole.  `FilesAgree` is not inductive: nothing in
  it says which rows a file may hold, so the step that replaces one of two
  files would have nothing to compare the new rows with.  Tables are the same in
  every state because the draws never move (`SameTables`, `DrawsStay`); this is
  the step that would fail if a hash depended on anything but its arguments.
  The pieces are `TornRows` (a failed write leaves rows of the table),
  `FragmentsAgree` (text against rule), `LinksExist` (product ids) and
  `StarsAlwaysConfounded`.
- `GoldAlwaysSound`: `Spec => []GoldSound`.  `ScoresInv` adds to `CorpusInv` that
  the scores the hashes give stay what `Init` drew.  `ScoreOfGold` brackets a
  score: a gold row is at 100 at least, another at 60 at most, for stars and
  base cannot add up to a gold rule; with `KeysInOrder` (keys of rows are strings in
  a strict order, whichever of "9" and "10" comes first) comparisons are a strict total order, gold rows first.  The bracket
  does not look at stars, so it also holds of rows that lost them (`FormsAgree`).
  The part about joins, for sides of any size, holds in every state without an
  induction (`GoldJoinsExact`, `PairsAreSymmetric`, and `LostLinks` for rows
  without their link, which is the id of no product).
- `AnswersAlwaysRepeat`: `Spec => []AnswersRepeat`.  Two answers are compared
  that may lie any number of steps apart, so the invariant says why each was
  given: `AnswersInv` holds of a history in which every answer is
  `Explained`, gold for the oracle, gold or its opposite by the hash of its key
  and the rate of its truth for the judges and the proxy, the error for calls that were refused.  Steps
  keep explanations because hashes are only added (`TossGrows`) and gold does not
  move (`SameTruths`); two explained answers to one question are equal because
  gold, hash and rate are functions of what the question fixes (`SameAnswer`).
- `QualityAlwaysCountsErrors`: `Spec => []QualityCountsErrors`.  The report is
  made after the last row, and calls go on after it, while the property speaks
  of the hashes of now: `WellJudged` carries, row by row, that the hashes of the
  rows judged are there and that the ids kept are those of the rows where gold
  and error differ (`RowIsWellJudged`).  At the end `KeptById` goes from ids back
  to rows, which is where a row that repeats needs its error to be a function of
  its key and truth, and `ErrorsAreFlips` splits the errors into rows wrongly
  kept and rows missed.  `LinesInv` is there for the smoke test, whose rows are a prefix of
  whatever a failed run has left in the file.

- `LedgerAlwaysSound`: `Spec => []LedgerSound`, and `CostIsAlwaysOwn`:
  `Spec => []CostIsOwn`.  Neither is inductive.  `LedgerInv` adds to the quality
  invariant `BooksInv` (every entry is that of a judgement of a known tier or of an
  oracle call, `KnownTier`, and the ledger is what was billed since the last reset, entry by entry),
  `WindowInv` (the filter that runs has added one entry, its tier's, for every
  row behind it, and nobody else has added any) and `StepsInv` (the calls to
  come fit under `MaxSteps`).  `WindowInv` is why the window a filter measures on
  the shared ledger is its own cost: no call comes between its rows.
  `TiersAlwaysAddUp` splits the entries of a ledger by the names tiers
  have, as `by_tier` does; the parts are disjoint and cover it, so their counts
  and cents add up (`TotalOfParts`, `CentsFinite`), two tiers of one name
  included.
  `LedgerStaysComplete` carries the books through the five things a step can do
  to them (`Accounts`): a call billed, a call refused, a reset, a row, nothing.

### What the proofs changed in the model

Definitions that could not be reasoned about took another form; no step of the
program changed with them.  The order in which `iter_for_flush` yields its entries was
sorted by an operator the provers do not see through, and is now `Ascending`
(each element at the place that the elements below it leave, the form of
`Ranked`); so is the sorting of reprs in `Grader` (`Kth`).  Sums of sizes (`EstimateCoversHeldBytes`, the key block of a table)
were folds and are now cardinalities of sets of bytes (`Bytes`), since a fold
needs an induction over data.  The byte strings of `MemStore` were a given set
and are now all sequences over `Byte` whose length an `int` can hold.  Types of
constants that the code fixes by its signatures became named assumptions
(`QueriesAssumption`, `BytesAssumption`, `RequestsAssumption`,
`OldWorkloadsAssumption`, `ResultsAssumption`, `FilterAssumption`,
`ScoresAssumption`, `StepsAssumption` and the like).  `LedgerSound` and
`CostIsOwn` summed prices with folds; they are now cents counted tier by tier
(`Cents`, `OfTier`).  `Bench` opens its memtable with `new`, so the first id is
zero and no longer a constant, and its assumptions on keys, lengths and
distances are named.  `TruthsMeasurable` was stated after a warm-up only; it
holds of every trace, but for the part that a truth is not empty, which needs
the warm-up and `K > 0`.

### Only model-checked

- Liveness, which is out of the prover's reach: `EveryCallReturns`,
  `AddressSettles`.
- `ReaderSafe`, `CleanStreamReadsWhole` and `DeltaRoundTrip`: the decoder of
  `WalCodec` is recursive, and what it computes for every stream needs an
  induction over data.
- `RankingSound` of the simulator: the discounted gain of a ranking is a fold over
  a sorted sequence, and that the sorted one is the greatest needs an induction
  over its length.  The order it sorts by is proved (`GoldAlwaysSound`).

## 5. Not modelled, and why

- Stubs (`SstReader`, HNSW, Db, pageserver, branches, GC, sem_join, sem_topk,
  calibration): no behaviour yet.
- MinIOStore, the site, the CI workflow: I/O and static text.
- Layer object keys and branch records of `types.go`.
- What DuckDB does with a statement: names, effects and results are choices.
- In lab 4: wording of the corpus, the value of a proxy score beyond the side
  of 0.5 it falls on, token counts, the checks of `Simulator.__init__`, plans
  with a cascade (they raise).
- Queries of the workload generator are finite, normalized vectors: `Bench`
  has no NaN.
- Collisions of CRC-32C and of the hashes behind the simulator's errors.
- Key spaces of 16^8 slots and more, where keys are no longer of one length.

## 6. Plan

1. The layer object keys of `types.go`, with their parser.
2. `RankingSound` and the decoder of `WalCodec` by proof, once a prover takes an
   induction over the length of a ranking or of a stream.
