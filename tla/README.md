# TLA+ models of the stock import service

The service (`app/`) imports CSV snapshots of warehouse stocks. An HTTP API
stores an uploaded file in S3 storage and registers a `pending` report in
PostgreSQL. Worker processes poll the reports table; the one that holds a
PostgreSQL advisory lock takes the oldest report, validates its file in one
polling cycle and applies it to the stock tables in the next one, in a single
transaction. The modules here model what these processes do to the shared state,
and what may happen to them in between.

## 1. Inventory

| Component | Source | State it keeps | Operations |
|---|---|---|---|
| Import queue, worker cycle | `app/services/report_processing.py`, `app/worker.py`, `app/db.py` | rows of `reports`; `report_staging_rows`; `report_errors`; the session advisory lock; in a worker: claimed report, two batches, the lock connection, the connection pool, the stop event | poll, take the lock, claim or recover, validate, finalize, mark validated, mark failed, release, stop |
| Streaming validation | `app/services/csv_validation.py` | chunk buffer, quote and CR state of the splitter, logical line number | read chunks, split records, parse, check header and rows, bound the data of errors |
| Apply | `app/services/apply_report.py` | `warehouses`, `products`, `stock_balances`, counters of the report | lock the report, five SQL statements, complete |
| Registration | `app/services/reports.py` | one object per report, one row of `reports` | upload, insert, compensating delete |
| Lists of reports and errors | `app/services/reports.py`, `app/api/reports.py` | none | pages of reports and of the errors of a report, get, download |
| Object storage | `app/services/storage.py` | objects, open multipart uploads | upload in parts, complete, abort, download, delete |
| Read API | `app/services/read_api.py`, `app/api/inventory.py` | none | pages of warehouses, products, stocks |
| Schema | `app/models.py`, `alembic/` | tables, keys, checks | - |
| HTTP layer, configuration, logging | `app/api/`, `app/main.py`, `app/schemas.py`, `app/config.py`, `app/logging.py` | none | - |

How they interact: API and workers share nothing but the database and the
storage. A report enters with the commit of `register_original`; a worker reads
its object, writes staging rows and errors in batches, each batch in a
transaction and on a connection of its own, while a further connection holds the
advisory lock. Validation and apply meet only in the database: a validated
report is one in `processing` whose counts agree
(`report_processing.py:445-457`), which is also what recovery after a crash
looks at. Before each write the worker asserts that its lock connection is alive
(`report_processing.py:590-596`) and gives up the cycle when it is not.

What is hard here: a worker that lost its lock connection keeps running until its
next assertion, beside the worker that took over; a commit may succeed although
the worker sees an exception; a crash may come between any two transactions; the
handler of a failure may fail itself; a report becomes visible later than its
`created_at`; a reading may stop before the end of its file; a record, a quote or a
CR LF may be cut anywhere by the pieces a file is read in; what validation accepts and
what the database stores are not the same; a session lock outlives the transaction and
the cycle it was taken in; a response is made of two statements, and a list of many
responses, while reports are applied. `PROJECT.json` lists
each of these at its line, with the properties that speak of it.

What makes each component correct:

* *Queue and worker*: reports are worked on in the order of their registration;
  a terminal report never changes; every registered report becomes terminal;
  a failed report has errors and says how many; recovery leaves nothing of the
  interrupted attempt.
* *Validation*: a report is valid only if all of its file was read and each
  record is valid; each record is answered for once; the records are those of the text
  whatever the pieces; memory and the stored data are bounded.
* *Apply*: whole files, once, or nothing; balances of represented warehouses are
  the snapshot; counters say what changed.
* *Registration and storage*: each registered report has its object, objects
  without a report are removed where that is possible.
* *Worker process*: no cycle without the lock of its own session; a cycle releases what
  it locked unless a statement of its lock connection is cancelled; a signal stops the
  process after the current cycle.
* *Read API, lists*: a client that turns pages misses nothing that was there when it
  began, and a page fits its total.

## 2. Modules

| Module | Content |
|---|---|
| `ImportPipeline` | the queue, the workers and their faults; properties; mutants used to test them |
| `ImportService` | what the import promises, without workers: the abstract specification |
| `MCImportPipeline` | constants of the runs: files, fault budgets, symmetry |
| `ImportSafetyProofs` | lemmas on the operators; type correctness; the inductive invariant; applied whole, once, in order; terminal reports stay; `ImportPipeline` implements `ImportService` |
| `ImportAloneProofs` | what a worker with the lock to itself leaves: no staging, no duplicates applied, failures explained, problems reported once |
| `StockLedger` | what applying a report means for the stock tables, as one step: the abstract specification of an apply |
| `SnapshotApply` | the apply transaction, statement by statement; properties and mutants |
| `MCSnapshotApply` | the reports of its run |
| `SnapshotApplyProofs` | `SnapshotApply` implements `StockLedger`; balances, names and counters |
| `ReportRegistration` | an upload and the registration of its report, call by call; properties and mutants |
| `MCReportRegistration` | sizes of the files of its runs |
| `ReportRegistrationProofs` | its inductive invariant and the theorems about it |
| `WorkerSessions` | the polling loop, shutdown, the advisory lock of a session and the connection pool |
| `WorkerSessionsProofs` | work is done under the lock; only cancelled statements leave it behind |
| `ChunkStream` | the chunks of an object as a stream of bytes |
| `CsvRecords` | splitting that stream into logical records and parsing each; the reference they are compared with; extends `ChunkStream` |
| `CsvRecordsProofs` | the records are those of the text, wherever it is cut; parsed one by one they give the rows of one reader over the text; one chunk after a lost lock |
| `BoundedRawData` | operators: the data kept with an error |
| `CsvValidation` | the checks of header and rows, the batches, the verdict, and what the database stores; extends `BoundedRawData` |
| `CsvValidationProofs` | each record is answered for once; the verdict; the data kept with errors |
| `ListPages` | the lists of the API, beside applies, registration and processing; extends `StockLedger` |
| `ListPagesProofs` | a walk misses nothing, pages fit their totals, errors are repeated only as often as late ones are added |
| `MC...` | the inputs of the runs of the module of that name |

### ImportPipeline

State: the columns `status`, `row_count`, `error_count`, `failure_kind` of
`reports`; `staging` (line numbers) and `errors` (line, code, writer) per report;
`applied`, the snapshots that reached the stock tables; `lock`, the worker whose
session holds the advisory lock; for each worker its program counter and the
Python frames that steer it (claimed report, next record, the two batches, how the
reading ended, the error count it read). `stamp` is the order of `(created_at,
id)`, `older` remembers which reports were registered when a report was inserted.

Files are sequences of records, and a record is what validation tells apart: a
valid one is its `(warehouse_code, sku)` pair, `Bad` has an issue, `Malformed`
makes `csv.reader` fail and ends the reading. Names and quantities are left out.

One action is one assertion of the lock, one record, or one transaction at its
commit:

| Code | Actions |
|---|---|
| `register_original` (the database part) | `BeginRegister`, `CommitRegister` |
| `process_next_report` | `AcquireLock`, `Unlock` |
| `ensure_lock_connection_alive` | `AssertLock`, `NoticeLossWhileReading` |
| `_claim_or_recover_next_report` | `ClaimNothing`, `ClaimForApply`, `ClaimForValidation` |
| `validate`, `validate_csv_stream`, `ValidationBatchWriter` | `OpenOriginal`, `ReadRow`, `EndOfFile`, `WriteStaging`, `StagingKeyViolation`, `WriteErrors` |
| `_insert_duplicate_errors`, `_error_count` | `InsertDuplicateErrors`, `CountErrors` |
| `_finalize_validation_failure`, the update of `validate` | `FinalizeValidationFailure`, `MarkValidated` |
| `apply` | `LockReport`, `ApplyStatements`, `DuplicateUpsertFails`, `CommitApply` |
| `_mark_processing_failed`, `_mark_apply_failed` | `MarkProcessingFailed`, `MarkApplyFailed` |
| environment | `RollBack`, `CommitThen` (lost acknowledgement), `StorageFault`, `LoseLock`, `Crash`, `Restart` |

`AfterCheck` and `OnError` hold the control flow: which work follows an
assertion, and where an exception leads (the `try` statements of `process`). The
row lock of `SELECT ... FOR UPDATE` is `Locked`: others wait for it, and an
insert into a child table waits because of its foreign key.

Simplifications, all on the side of data or timing:

* a transaction takes effect at its commit; transactions that touch one report are
  serialised by the lock of its row. The snapshot an `INSERT ... SELECT` reads is
  that of its commit.
* a crash aborts the open transaction of the worker; if the server still commits
  it, that is the lost acknowledgement followed by a crash.
* a registration that is rolled back is one whose insert never commits.
* a bad record has one issue; a file without data, or with a bad header, has one
  issue of line 0. Chunk borders are not modelled: the loss of the lock may be
  noticed before any record. (`CsvValidation` and `ChunkStream` have these details.)
* `Unlock` always releases. Where it fails in the code, the session in the pool keeps
  the lock (`WorkerSessions`); its worker may take it again and to the others it is as
  if that worker were still in its cycle, so that no step becomes possible that is not
  possible here.
* an upsert with two rows of one pair fails, or succeeds if the pair has a balance
  (which may equal the quantity of the first row and is then left alone);
  quantities being left out, both may happen then.

### ImportService

The promise to the outside: a report is accepted, waits for the reports registered
before it, is processed, and fails without a trace or is completed with all of its
file in one step. `ImplementsService` maps `status`, `file` and `older` to
themselves and `stock` to the records of the applied snapshots.

### StockLedger and SnapshotApply

`ImportPipeline` knows only that an apply happens and which rows it takes. These two
modules know what it does. State: `tables`, the committed `warehouses`, `products`
(code to name) and `balances` (pair to quantity); `history`, the applied reports with
their counters; and in `SnapshotApply` the transaction: `step`, its `rows` of the
staging table, the `view` of the tables with its own writes, and the `counters`.

| Code | Actions |
|---|---|
| `apply`: the start of the transaction, its end, an exception | `Begin`, `CompleteReport`, `RollBackApply` |
| `_upsert_warehouses`, `_upsert_products` | `UpsertWarehouses`, `UpsertProducts` |
| `_calculate_counters` | `CalculateCounters` |
| `_apply_explicit_stocks` | `ApplyExplicitStocks` |
| `_zero_missing_stocks` | `ZeroMissingStocks` |

The joins are those of the SQL, through the warehouses and products the transaction
sees (`WarehouseJoin`, `StockJoin`), so that a statement moved before the one it
depends on would compute something else. `INSERT ... SELECT` has no `ORDER BY`: with
two rows of one pair (see the finding on duplicates) any order is possible, a row that
was written cannot be written again by the same statement, and when no order works the
transaction rolls back. `Apply` of `StockLedger` says the same in terms of all stocks,
with the counters of `classify_stock_change`, which the SQL never calls;
`ImplementsLedger` is the claim that the two agree and that readers see one step.

Only one transaction is modelled at a time. Applies of two reports do not overlap: the
queue gives out the oldest report that is not terminal (`NoOvertaking`), and the apply
of a report holds its row until it commits.

### ReportRegistration

One request is one `register_original`: `Start` (first part read), `PutEmpty` or
`CreateUpload`, `UploadPart`..., `CompleteUpload`, `InsertReport`; `RefusePart` is the
limit, `AbortUpload` and `CompensatingDelete` are the cleaning calls. Each call may
succeed, fail without effect, or take effect and fail; `CreateUpload` may also be
repeated by the client after a lost answer (`storage.py:59`), which leaves an upload
nobody knows. `Crash` ends the process between any two calls. `hit` remembers the
faults of a request that its properties have to excuse: `lost` (an effect without an
answer), `cleanup` (a cleaning call failed), `crash`. Contents are abstracted to sizes:
parts are appended in order, so a whole object is one of the size of its file. Requests
share nothing (each has a fresh key). The lists are in `ListPages`; downloads are left
out.

### WorkerSessions

State, for each worker process: its program counter, `received` signals and the
`stop` event, the `pool` of idle connections as a queue, `conn` (the lock connection of
the cycle), whether its transaction is `aborted`, which connections are `broken` or
`stale`; and `owner` and `depth`, the advisory lock as PostgreSQL keeps it, with the
session and the number of times it was taken.

| Code | Actions |
|---|---|
| `request_shutdown` | `HandleSignal`, between any two steps |
| `run_worker_loop` | `TestStop`, `Wait`; the exception it catches is `TryLockFails` |
| `process_next_report` | `Connect`, `TryLock`, `UseSession` (its transactions), `Unlock`, `Return` |
| `ensure_lock_connection_alive` | `CheckLock` |
| `main`: `engine.dispose` | `Dispose` |
| pool of `create_engine` (external) | `Handed`, `HandOut`, `NoticeBreak` |
| environment | `CancelTryLock`, `CancelCheck`, `CancelUnlock`, `BreakConnection` |

A cycle takes one transaction and one check of the lock here; what it does in them is
`ImportPipeline`. The pool is first in, first out, tests a connection before it hands it
out (`pool_pre_ping`), and after a broken one replaces the others as they come up.

### ChunkStream and CsvRecords, CsvValidation and BoundedRawData

A file goes through two machines, each with the layer below it.

* `ChunkStream`: `readinto` in steps: `BeforeNextChunk` (the assertion of the lock),
  `TakeChunk`, `CopyAvailable`, `Return`. Of the `io.BufferedReader` above it only the
  sizes of its buffers matter.
* `CsvRecords` is the reader of that stream: `AskStream` begins a call when `read` has
  fewer characters than it was asked for, `ReadPiece` takes what it got, and then the
  loop of `_iter_logical_records` has an action for each special character
  (`HandleSpecial`, `SkipLineFeed`), for the rest of a piece (`EndPiece`) and for the end
  of the file. So a chunk, a buffer and a piece may end anywhere, and the lock be lost in
  between. Characters are quote, comma, CR, LF and `other`, of one byte each. What the
  machine must agree with is written down twice, independently of the loop: `RecordsOf`,
  the records of a whole text by position, and `Reader`, `csv.reader` of the standard
  library as a function of a whole text. The limit of a field (`csv.field_size_limit`) is
  left out.
* `CsvValidation`: the checks of `validate_csv_stream`, `_validate_header` and
  `_validate_row` in their order, and the two batches with their flushes. A record is
  known by what the checks look at (over the limit, what the parser says, bytes that are
  not UTF-8, U+0000, the lengths of its fields, blank columns, quantity), and an issue
  also by its `raw_data` and whether that can be stored. The issues of the columns of one
  record are added in any order; the required columns come first. A quantity has a value
  and a number of `digits`, zeros in front included: `int()` refuses by the digits
  (`IntDigits` stands for 4300), the range is that of the value (`BigIntMax` for
  2^63 - 1). Duplicates, the lock and all faults are left to `ImportPipeline`.
* `BoundedRawData`: `_bounded_raw_data` and `_bounded_raw_text` as operators on the
  lengths of texts, the loop as a recursive function.

### ListPages

A client turns the pages of one list from the first to the last: until a page is not
full, or until it has `total` items (`byTotal`). A request is two steps, as the two
statements of its READ COMMITTED transaction see two states: `FirstStatement` and
`SecondStatement`, in the order of `Statements` (`list_reports` selects and then counts,
all other lists count first). `Selected` is the set of rows the query selects, `Precedes`
its `ORDER BY`, and `Selection` the sequence that has each row at its `Place` in that
order. The database compares codes and skus as text; here `CodeRank` and `SkuRank` give
their places in that order, whatever it is.

Between any two steps others commit: `ApplyReport` is the `Apply` of `StockLedger` (which
`SnapshotApply` implements); `CommitReport`, `Claim`, `InsertErrors`, `RecordFailure` and
`EndReport` are registration and the workers, with the effects they have on reports and
errors: a claim deletes the errors of the report, and `created_at` is the start of the
registering transaction, so that a report may appear behind reports already listed. No
`INSERT` of errors looks at the status of the report, only the `UPDATE` does: a batch, the
duplicates and a processing or apply error are also inserted into a report that has ended,
by a worker that lost its lock or took a lost acknowledgement for a failure. As a bound
only the tables a request reads change while it runs.

## 3. Runs

| Run | Instance | Question |
|---|---|---|
| `import_faults` | 2 reports, 2 workers, 6 files of up to 5 records, batches of 2, one fault each of roll-back, lost acknowledgement, storage failure, crash | is the atomic service implemented, are failures explained, leftovers removed, problems reported once? |
| `import_overlap` | 2 reports, 3 workers, 3 files of up to 2 records, two lost locks | are reports applied whole, once and in order by workers that go on without the lock? |
| `import_liveness` | 2 reports, 2 workers, 2 files, one lost lock and one crash, `FairSpec`, no symmetry | does every registered report end? |
| `import_duplicates` | 2 reports, 3 workers, two lost locks | violated: `docs/architecture.md:51` |
| `snapshot_apply` | up to 3 of 12 reports on 2 warehouses and 2 products, 3 quantities, roll-back anywhere | do balances, names and counters follow the reports, in one step for readers? |
| `registration_faults` | 2 requests of 0..6 bytes, parts of 2, limit 4, any number of faults, `FairSpec`, no symmetry | is what is accepted whole, the limit exact, what failed cleaned up, and does every request end? |
| `registration_deleted` | 1 request | violated: `docs/architecture.md:101` |
| `csv_records` | all texts of up to 5 characters of 5 kinds, in one chunk or in four with an empty one; buffers of 2 or 4, pieces of 1 or 3, records of 3, previews of 2; the lock lost at any time | are the records those of the text, memory bounded, parsing by record the same as parsing the whole, and does a lost lock end the reading? |
| `csv_validation` | files of up to 3 of 25 records, 12 other headers, batches of 2; 1375 files of one long record or header | is each record answered for once, is the verdict right, are the kept data bounded and honest about it? |
| `csv_long_quantity` | files of up to 2 quantities, in and out of range, with few and many digits | violated: `docs/architecture.md:50, 54` |
| `pages` | 13 list requests, pages of 1 or 2; up to 3 of 8 reports applied, or 3 reports with 2 values of `created_at` processed, or up to 4 errors of a report with or without a line inserted and deleted meanwhile, also after its end | does a walk miss rows, do total and page fit, how often are the errors of an ended report repeated while late ones are added, and are they shown once and in order when none is? |
| `worker_sessions` | 2 workers, 1 signal each, 2 cancelled statements, 1 broken connection | is work always under the lock, does anything but a cancelled statement leave the lock behind, does a signal stop a worker, does some worker go on? |

Deadlock is checked in all runs except those of `SnapshotApply` and
`ReportRegistration`, where the system stops when there are no more reports to apply
(`MaxApplied`) or requests to answer; modules whose work ends have a step `Finished` that
is possible only at the intended end.

Three reports are enough for a stock that is created, left out and brought back, and
for two reports of one warehouse with one of another in between; the twelve reports
have partial and full warehouses, changing names, a quantity of zero and pairs named
twice. Files of 0 to 6 bytes are empty, shorter than a part, at the border of a part, at
the limit, and above it by one byte or more.

Texts of five characters hold a quoted field with a doubled quote and a character behind
it, two records separated by CR LF with a border inside, and records of one or two
characters over the limit of three; pieces of one character put a border between any
two, pieces of three also inside a run of other characters, and chunks of 2, 0, 1 and the
rest begin and end inside a buffer of two or four and at its end. Three records with
batches of two give a full batch, a rest, and both at once; each problem occurs alone and
beside every other, and two of one record in the order the code checks them. The limits
of 4 and 9 on kept data (with a marker of 2) are used up inside a text, exactly at its
end, and before the last text of a row or header, with the marker fitting and not
fitting; `config.py` keeps the total limit at four values or more, which needs longer
rows for the same cases and is not assumed by the code that shortens.

Two codes and two skus give lists of up to four rows, three pages of two or four of one;
three applies are enough to create, rename, zero and restore a row within a walk. The
searched text is contained in one code and one of two names, so that a rename moves a row
in and out of the list. Two cancelled statements and a broken connection are enough for
locks left in both connections of a pool and for a fault while an earlier one is still
visible in the pool; a pool holds at most two connections because a cycle uses one
beside the lock.

`MaxFaults` bounds how often each kind of
fault happens; `Reports` bounds how many reports are registered. Two reports are
enough for order (a report and an older one), three workers for two of them that go on
without the lock beside their successor. A batch size of
two makes the longer files need more than one batch of each kind, so that a fault
can fall between two of them; each kind of file occurs: valid, duplicate pair, bad
record, malformed record, no data. Some invariants are guarded by `NoFault`: they
are claims about crashes, roll-backs or lost acknowledgements; the next section says
what a lost lock does to them.

Fairness: `WF_vars(Work(w))`, a worker that is running keeps running its loop
(`worker.py:28-41` catches every exception of a cycle and polls again). Nothing is
assumed of faults, registrations or restarts; a worker that is down may stay down
(`compose.yaml` decides that, not the code), but the fault budget leaves one.

`FairSpec` of `ReportRegistration`: `WF_vars(Register(r))`, the thread of a request goes
on until it has answered; storage calls end by the timeouts of the client
(`storage.py:57-58`), for the database an answer or a broken connection is assumed.

`WorkerSessions`: `WF_vars(Step(w))`, statements return
or raise and waiting ends with the polling interval (`worker.py:41`); signals and faults
may come or not. `WorkGoesOn` would fail with a pool that hands out its youngest
connection first: a worker that left a lock in the pool could then never get back to it
while it keeps all others out.

Each property of a passing run has a mutant, a changed definition of the model
(`OldestPending`, `ClaimKeepingStaging`, `ForgetUnlock`, ...) under which the run
finds it violated.

## 4. Findings

The violated statements are listed with their quotations in `PROJECT.json`: with two lost
locks a file with a duplicate pair can be applied; a lost acknowledgement of a
registration lets the compensating delete remove the original of a registered report; and
a quantity of more than 4300 digits, also one that is in range with zeros in front, ends in
a processing error of the whole report where the documentation promises an error of its
row. The queue goes on in each case.

The properties that hold are worded around further places where the code does less than a
reader of `docs/architecture.md` may expect:

* A transaction that follows a passed assertion still commits after the lock is lost
  (`report_processing.py:116-118`), so staging rows can be written after their report is
  terminal. `TerminalStagingEmpty` therefore speaks of runs without a lost lock.
* A lost acknowledgement makes a failure be recorded twice, and `error_count` differ from
  the number of stored errors; `FailureIsExplained` says at most.
* The errors of a report that has ended may still grow, by such a second recording or by
  a worker that lost its lock. The total of `list_errors` then changes from page to page,
  and an error without a line, which sorts first, makes the next page repeat a row.
  `ErrorsOfEndedReport` says at most one repeated row for each late error, and no row
  is missed (`WalkSeesAll`).
* U+0000 in a value, bytes that are not UTF-8 in the preview of a record or field over
  its limit, and a quantity of too many digits are refused by the database or by `int()`
  and not by validation. `VerdictIsRight` says that nothing else ends in a processing
  error; it excuses these three. The last one is the finding above. The second is against
  `README.md:80-81` of the service ("Превышение сохраняется как validation error") and
  `docs/architecture.md:251`, which promise a validation error: the file is decoded with
  `surrogateescape`, and a record over its limit is reported with its text before its
  bytes are looked at (`csv_validation.py:135, 206, 234`), so that its `raw_data` holds
  lone surrogates, which JSONB refuses, and the whole batch of errors with it. It
  is the case `surrogate` with `over` or `parse = "field"` of `HasUnstorable`.
* A cancelled statement on the lock connection makes the release fail, and the advisory
  lock stays with a session in the pool after the cycle. `OnlyCancelsLeaveLock` bounds
  what is left by the number of cancelled statements. No work is done without the lock
  then, and some worker goes on (`WorksUnderLock`, `WorkGoesOn`).
* The total and the items of one response may come from two states; `PageFitsTotal` is
  what stays true of them.

## 5. Proofs

The theorems hold for all sets of reports, workers, files and characters, every size of
batch, part, chunk, buffer and piece, and any number of faults, from the named `ASSUME`s
of the modules and nothing else:

| Module | Assumed of its constants |
|---|---|
| `ImportPipeline` | `None` is no report and no worker, `Bad` and `Malformed` are no pairs, files are sequences of records, `BatchSize` is positive, `MaxFaults` gives numbers |
| `ReportRegistration` | sizes and the limit are numbers, a part is not empty, `None` is no number |
| `WorkerSessions` | nobody is not a worker; the bounds on signals and faults are numbers |
| `StockLedger`, `SnapshotApply` | reports are sequences of rows and not empty, quantities are numbers, `None` is no name and no number |
| `ChunkStream`, `CsvRecords` | sizes of buffers, pieces, records and previews are positive, chunks are sequences of the characters |
| `ListPages` | codes, skus and reports are finitely many; no two codes and no two skus have one rank; ids, lines and times of creation are numbers, 0 among the lines (for NULL); a page has at least one row |
| `BoundedRawData`, `CsvValidation` | limits and batches are positive, the columns of text are finitely many and not `quantity`, `IntDigits` is a number, a file without header has no rows, a header with every required column has as many fields, headers and rows are of the shape the module reads |

* `ImportSafetyProofs.TypeCorrect`: `TypeOK` alone is not inductive: the counters are
  cardinalities, so the counted sets must be finite (`Finite`), and a step writes the row
  of `cur[w]`, so a worker inside a cycle must have a report (`HasReport`). `TypeInv`
  is the conjunction.
* `CompletedOnce`, `AppliedWhole`, `InOrder`: from `SafeInv`. Why a partial
  snapshot cannot be applied although overlapping workers delete and rewrite
  staging rows under each other: staging rows are always valid lines of the file
  (`LinesOK`), a positive `row_count` of a report in `processing` is always the
  length of the whole file, because only a worker that has read to the end writes
  it (`ReadOK`, `RowsOK`), so when the two counts agree under the row lock the
  staging rows are all lines (`AllLines`, a cardinality argument), and under the
  lock nobody changes them (`RowLocked`). The order follows from `QueueOK`: reports
  registered earlier have smaller stamps, and the claim takes the smallest.
* `TerminalsStay`, `ImportSafetyProofs.Refinement`: from a classification of the
  steps by what they do to the columns of reports (`StepEffect`), each class being a
  step of `ImportService` or none.
* `TerminalWithoutStaging`, `NoDuplicateApplied`, `CrashesFailNoValidReport`,
  `FailedIsExplained`, `ProblemsReportedOnce`: claims about runs without certain faults,
  so their invariants are implications from `NoFault`. Without a lost lock only its owner
  is inside a cycle. Then each label of the worker determines what the tables hold of its
  report: which lines of the file are staged or reported, which are still in the two
  batches, and that nothing is there of an earlier attempt, because a claim deletes it
  first; and a report nobody works on is in one of the states a crash may leave.
* `Accepted`, `Registered`, `Limit`, `Cleaned`: from one inductive invariant of a single
  request. `AtCall` says what is in the storage and the database before each call
  (that what was stored is what was counted while an upload is open is what makes the
  accepted object whole), `Throughout` what holds at all times; a lemma shows that a
  step of one request leaves the variables of the others alone.
* `UnderLock`: the lock is held by a session that is open on the server, such a session is
  the connection of the cycle or one of the pool, and a worker at work is on the session
  that owns the lock. `LeftByCancels` adds what each step does to the levels of the lock
  (`StepLevels`): taking it adds one that the cycle answers for, releasing or losing the
  session takes it back, and a connection whose transaction was aborted, which can not
  release, has its cancelled statement counted (`StepAborted`, `Levels`).
  `LockIsReachable` is the part of the progress argument that is not temporal: a held
  lock is always in the hands of a worker that has not stopped.
* `SnapshotApplyProofs.Refinement`: before each statement the `view` of the transaction is
  given in terms of the committed tables and the rows of the report (warehouses written,
  products written, explicit stocks written), the counters are those of
  `classify_stock_change` over all stocks, and so the commit is one `Apply` of
  `StockLedger`. `BalancesAreOfLastReport`, `NamesAreOfLastLine` and `CreatedAreAll` follow
  from an invariant of the ledger about the last report that concerns a pair, a code or a
  sku; the last of them is a sum over the history, by induction on its length.
* `AnsweredOnce`, `RightVerdict`: batches and tables together answer for exactly the
  records read so far (`Answered`), each record by a staging row or by its issues and
  never by both; the verdict adds that an unstorable record is still in a batch or ended
  the run.
* `RawDataIsBounded`: the accumulator of the loop is honest about the first `i` texts
  (`HonestAbout`: what it kept and what remains are together the total limit, and
  something is missing only if nothing remains or a text met its own limit); then every
  check hands over such data, and the batches move issues without changing them. The
  proof needs that a header with each required column has at least as many fields, which
  is an assumption on the files.
* `SplitsCorrectly`, `OneChunk`: two invariants, one above the other. `StreamInv`: what
  was delivered, what is in the buffer and what is left of the chunk are together the text
  of the chunks taken, whatever the sizes; after the loss at most the current chunk is
  used up. `SplitInv`: at each position of the piece the state of the loop (inside quotes,
  a CR pending, the counters of the record) is the one `Mode` gives for that position of
  the whole text, a line break taken by the loop is one of `Breaks`, and the records
  yielded are those of `RecordsOf` that begin before the one being read.
* `ReadsAsCsv` (`AgreesWithReader`): a theorem about all texts, `ReaderRows`, joined with
  `SplitsCorrectly`. Rows that a reader has already given change nothing in what it does
  with the next character (`OverRead`). So from the first character of a record on, a
  reader of the whole text stands where a reader of this record alone stands, up to the
  rows before (`ReadsRecord`): the one thing the two see differently is where a line ends,
  and before the last character of a record a line can only end inside quotes, where the
  reader ignores it (`WithinSteps`; the modes of the reader and `Mode` agree). At the last
  character both give the same row or the same error, or the quotes are open and the text
  is at its end; a CR LF leaves the reader of the text one character behind, which is the
  LF that belongs to no record (`NextRecord`). The records then follow by induction on
  their number (`NextRows`).
* `WalkMissesNothing`, `PageFits`, `ErrorsShownOnce`: first the order: `Precedes` is a
  strict total order on what each kind of request selects (`PrecedesIsStrict`: this is
  where the second sort key, sku or id, is needed), so the places of the rows are exactly
  1 to their number and the selection is sorted (`PlacesAre`, `SortedIs`). Then what
  others commit: the rows of a lasting request stay selected and keep their order, so
  that a place only grows (`LastingGrows`, `PlaceGrows`). The invariant says of a row that
  was there at the beginning and was not seen: before the page is read its place is behind
  `offset`; afterwards it is behind `offset + limit`, the page is full, and the total of
  the reports, which is counted later, is above `offset + limit`: so the client goes on.
  The errors of an ended report are only added to, so they are lasting rows as well, and
  their pages lie one behind the other (`PagesFollow`). What sorts among as many first
  rows as the client has was therefore seen or was added since (`FirstAreSeen`), and
  counting these rows bounds the repeated ones; while none is added the client has the
  first `offset` of them in their order (`FirstErrorsShown`).
* `TypeCorrect` of the other modules: the type invariant with the finiteness and shape it
  needs.

`CreatedAddsUp`, `Mode`, `FlattenSeq`, `Reader` and `Keeping` are recursive functions. They
are within reach because their induction is over a set of numbers closed under successor (the lemma
`UpTo`), not over an operator.

Only model-checked, not proved: liveness under fairness, which is out of the prover's reach
(`EveryReportEnds`, `EveryRequestEnds`, `SignalStops`, `WorkGoesOn`).

## 6. Plan

1. `ImportPipeline`, `ImportService`, proofs of safety, refinement and, for runs
   without lost locks, recovery and reporting - done.
2. `SnapshotApply`, `StockLedger` with the proof of `ImplementsLedger` - done.
3. `ReportRegistration` with its proofs - done.
4. `ChunkStream`, `CsvRecords`, `CsvValidation`, `BoundedRawData` with the proofs of the
   records, their parsing, the accounting, the verdict and the kept data - done.
5. `ListPages` with its proofs - done.
6. `WorkerSessions` with its proofs - done.

Not modelled: the download of an original (a stream without state of its own), the HTTP
schemas, error bodies and health probes, configuration (its limits are constants here;
`config.py` bounds them so that the total limit of `raw_data` is at least four times the
limit of a value), logging, migrations and scripts. The decoding of UTF-8 and of a BOM,
`strip` and the pattern of integers appear as kinds of records. Timestamps other than
`created_at` are not modelled; no code reads them back.
