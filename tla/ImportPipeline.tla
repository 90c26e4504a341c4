---------------------------- MODULE ImportPipeline ----------------------------
(***************************************************************************)
(* The import queue: reports registered by the API, worker processes that  *)
(* take one PostgreSQL advisory lock, claim the oldest report, validate it *)
(* in a first cycle and apply its snapshot in a second one                 *)
(* (app/services/report_processing.py, app/services/apply_report.py).      *)
(*                                                                         *)
(* One step is one assertion of the lock, one record read from the file,   *)
(* or one database transaction, taken at its commit.  The shared state is  *)
(* the database; what a worker holds in its Python frames is the worker's  *)
(* own and is lost when it crashes.                                        *)
(***************************************************************************)
EXTENDS Integers, Sequences, FiniteSets

CONSTANTS
    Reports,    \* the reports that may be registered
    Workers,    \* the worker processes
    None,       \* "no worker", "no report"
    Pairs,      \* what a valid record names: a (warehouse_code, sku) pair
    Bad,        \* a record with a validation issue; reading goes on after it
    Malformed,  \* a record csv.reader cannot build; reading stops at it
    Files,      \* the uploaded files, sequences of data records
    BatchSize,  \* validation_batch_size
    MaxFaults   \* how many faults of each kind a behaviour may contain

Records == Pairs \cup {Bad, Malformed}

FaultKinds == {"rolledback", "acklost", "storage", "lockloss", "crash"}

ASSUME NoneAssumption    == None \notin Reports /\ None \notin Workers
ASSUME RecordsAssumption == Bad \notin Pairs /\ Malformed \notin Pairs /\ Bad # Malformed
ASSUME FilesAssumption   == Files \subseteq Seq(Records)
ASSUME BatchAssumption   == BatchSize \in Nat \ {0}
ASSUME FaultsAssumption  == MaxFaults \in [FaultKinds -> Nat]

VARIABLES
    \* table reports
    status,        \* status[r]; "absent" and "inserting" are not visible to others
    rowCount,      \* row_count
    errorCount,    \* error_count
    failureKind,   \* failure_kind
    stamp,         \* position of (created_at, id); 0 before the INSERT
    file,          \* the stored original of the report
    \* the other tables
    staging,       \* staging[r]: line numbers in report_staging_rows
    errors,        \* errors[r]: rows <<line, code, writer>> of report_errors
    applied,       \* the snapshots that reached the stock tables, in order
    lock,          \* the worker whose session holds the advisory lock
    \* frames of the workers
    pc,            \* what the worker does next
    cur,           \* the report it claimed
    nextRow,       \* the next data record of the file
    stagingBatch,  \* _staging_batch
    errorBatch,    \* _error_batch
    reading,       \* "reading", "eof", or "stopped" before the end of the file
    seenErrors,    \* error_count read by validate
    \* history and bounds
    older,         \* older[r]: reports visible when the INSERT of r began
    clock,         \* the last stamp given
    faults         \* how many faults of each kind have happened

queue   == <<stamp, file, older, clock>>
columns == <<status, rowCount, errorCount, failureKind>>
frames  == <<cur, nextRow, stagingBatch, errorBatch, reading, seenErrors>>

vars == <<queue, columns, staging, errors, applied, lock, pc, frames, faults>>

Claimable == {"pending", "processing"}
Terminal  == {"completed", "failed"}
Visible   == Claimable \cup Terminal

\* Labels of pc.  Between a "chk_" label and its successor lies a call of
\* assert_lock_alive; the other labels are the work that follows.
AfterCheck ==
    [ chk_open         |-> "open",
      chk_staging      |-> "write_staging",
      chk_errors       |-> "write_errors",
      chk_duplicates   |-> "insert_duplicates",
      chk_count        |-> "count_errors",
      chk_finalize     |-> "finalize",
      chk_validated    |-> "mark_validated",
      chk_failed       |-> "mark_processing_failed",
      chk_apply        |-> "lock_report",
      chk_commit       |-> "commit_apply",
      chk_apply_failed |-> "mark_apply_failed" ]

\* Where an exception takes a worker: out of the cycle from the claim and from
\* a failed attempt to record a failure, otherwise to the handler of process().
OnError ==
    [ claim                  |-> "unlock",
      open                   |-> "chk_failed",
      read                   |-> "chk_failed",
      write_staging          |-> "chk_failed",
      write_errors           |-> "chk_failed",
      insert_duplicates      |-> "chk_failed",
      count_errors           |-> "chk_failed",
      finalize               |-> "chk_failed",
      mark_validated         |-> "chk_failed",
      mark_processing_failed |-> "unlock",
      lock_report            |-> "chk_apply_failed",
      apply_statements       |-> "chk_apply_failed",
      commit_apply           |-> "chk_apply_failed",
      mark_apply_failed      |-> "unlock" ]

Labels == DOMAIN AfterCheck \cup DOMAIN OnError \cup {"idle", "unlock", "down"}

\* Mutant: the report is read without FOR UPDATE.
HoldsNothing == {}

\* The labels at which the worker holds SELECT ... FOR UPDATE on its report.
HoldsRow == {"apply_statements", "chk_commit", "commit_apply"}

\* A transaction that touches the row of r (or inserts a row with a foreign
\* key to it) waits while the apply transaction of a worker has it locked.
Locked(r) == \E v \in Workers : pc[v] \in HoldsRow /\ cur[v] = r

Codes == {"row", "file", "duplicate", "processing_error", "apply_error"}

-----------------------------------------------------------------------------
\* The lines of a file that hold a valid record, and among lines L those whose
\* pair occurs on an earlier line of L (duplicate_rank > 1).
ValidLines(f) == {i \in DOMAIN f : f[i] \in Pairs}
DuplicateLines(f, L) == {i \in L : \E j \in L : j < i /\ f[j] = f[i]}

-----------------------------------------------------------------------------
Init ==
    /\ status = [r \in Reports |-> "absent"]
    /\ rowCount = [r \in Reports |-> 0]
    /\ errorCount = [r \in Reports |-> 0]
    /\ failureKind = [r \in Reports |-> "none"]
    /\ stamp = [r \in Reports |-> 0]
    /\ file = [r \in Reports |-> <<>>]
    /\ staging = [r \in Reports |-> {}]
    /\ errors = [r \in Reports |-> {}]
    /\ applied = <<>>
    /\ lock = None
    /\ pc = [w \in Workers |-> "idle"]
    /\ cur = [w \in Workers |-> None]
    /\ nextRow = [w \in Workers |-> 1]
    /\ stagingBatch = [w \in Workers |-> {}]
    /\ errorBatch = [w \in Workers |-> {}]
    /\ reading = [w \in Workers |-> "reading"]
    /\ seenErrors = [w \in Workers |-> 0]
    /\ older = [r \in Reports |-> {}]
    /\ clock = 0
    /\ faults = [k \in FaultKinds |-> 0]

Goto(w, label) == pc' = [pc EXCEPT ![w] = label]

Fault(kind) ==
    /\ faults[kind] < MaxFaults[kind]
    /\ faults' = [faults EXCEPT ![kind] = @ + 1]

\* The transaction of w commits.  Its COMMIT is acknowledged, or the
\* connection breaks after the server has committed and w sees an exception.
CommitThen(w, next) ==
    \/ Goto(w, next) /\ UNCHANGED faults
    \/ Goto(w, OnError[pc[w]]) /\ Fault("acklost")

\* Any transaction may instead be rolled back by the server or the network
\* (deadlock victim, lost connection): nothing is stored, w sees an exception.
RollBack(w) ==
    /\ pc[w] \in DOMAIN OnError \ {"open", "read"}
    /\ Goto(w, OnError[pc[w]])
    /\ Fault("rolledback")
    /\ UNCHANGED <<queue, columns, staging, errors, applied, lock, frames>>

-----------------------------------------------------------------------------
\* Registration.  created_at and id are fixed when the INSERT runs; the report
\* becomes visible when its transaction commits, perhaps much later or never.
BeginRegister(r) ==
    /\ status[r] = "absent"
    /\ status' = [status EXCEPT ![r] = "inserting"]
    /\ clock' = clock + 1
    /\ stamp' = [stamp EXCEPT ![r] = clock + 1]
    /\ older' = [older EXCEPT ![r] = {q \in Reports : status[q] \in Visible}]
    /\ \E f \in Files : file' = [file EXCEPT ![r] = f]
    /\ UNCHANGED <<rowCount, errorCount, failureKind, staging, errors, applied,
                   lock, pc, frames, faults>>

CommitRegister(r) ==
    /\ status[r] = "inserting"
    /\ status' = [status EXCEPT ![r] = "pending"]
    /\ UNCHANGED <<queue, rowCount, errorCount, failureKind, staging, errors,
                   applied, lock, pc, frames, faults>>

-----------------------------------------------------------------------------
\* The cycle of a worker.  A cycle that does not get the lock changes nothing.
AcquireLock(w) ==
    /\ pc[w] = "idle"
    /\ lock = None
    /\ lock' = w
    /\ Goto(w, "claim")
    /\ UNCHANGED <<queue, columns, staging, errors, applied, frames, faults>>

\* assert_lock_alive: SELECT 1 on the connection that holds the lock.
AssertLock(w) ==
    /\ pc[w] \in DOMAIN AfterCheck
    /\ Goto(w, IF lock = w THEN AfterCheck[pc[w]] ELSE "unlock")
    /\ UNCHANGED <<queue, columns, staging, errors, applied, lock, frames, faults>>

\* The frames a new cycle starts with, and leaves behind.
ResetFrame(w, r) ==
    /\ cur' = [cur EXCEPT ![w] = r]
    /\ nextRow' = [nextRow EXCEPT ![w] = 1]
    /\ stagingBatch' = [stagingBatch EXCEPT ![w] = {}]
    /\ errorBatch' = [errorBatch EXCEPT ![w] = {}]
    /\ reading' = [reading EXCEPT ![w] = "reading"]
    /\ seenErrors' = [seenErrors EXCEPT ![w] = 0]

ValidationIsComplete(r) ==
    /\ rowCount[r] > 0
    /\ errorCount[r] = 0
    /\ Cardinality(staging[r]) = rowCount[r]
    /\ errors[r] = {}

\* Mutant: the queue query forgets reports already in processing.
OldestPending ==
    {r \in Reports :
       /\ status[r] = "pending"
       /\ \A q \in Reports : status[q] = "pending" => stamp[r] <= stamp[q]}

\* SELECT ... WHERE status IN (...) ORDER BY created_at, id LIMIT 1.
Oldest == {r \in Reports :
             /\ status[r] \in Claimable
             /\ \A q \in Reports : status[q] \in Claimable => stamp[r] <= stamp[q]}

ClaimNothing(w) ==
    /\ pc[w] = "claim"
    /\ Oldest = {}
    /\ Goto(w, "unlock")
    /\ UNCHANGED <<queue, columns, staging, errors, applied, lock, frames, faults>>

ClaimForApply(w) ==
    /\ pc[w] = "claim"
    /\ \E r \in Oldest :
         /\ ~Locked(r)
         /\ status[r] = "processing" /\ ValidationIsComplete(r)
         /\ ResetFrame(w, r)
    /\ CommitThen(w, "chk_apply")
    /\ UNCHANGED <<queue, columns, staging, errors, applied, lock>>

\* Mutant: recovery keeps the staging rows of the interrupted attempt.
ClaimKeepingStaging(w) ==
    /\ pc[w] = "claim"
    /\ \E r \in Oldest :
         /\ ~Locked(r)
         /\ ~(status[r] = "processing" /\ ValidationIsComplete(r))
         /\ errors' = [errors EXCEPT ![r] = {}]
         /\ status' = [status EXCEPT ![r] = "processing"]
         /\ rowCount' = [rowCount EXCEPT ![r] = 0]
         /\ errorCount' = [errorCount EXCEPT ![r] = 0]
         /\ failureKind' = [failureKind EXCEPT ![r] = "none"]
         /\ ResetFrame(w, r)
    /\ CommitThen(w, "chk_open")
    /\ UNCHANGED <<queue, staging, applied, lock>>

\* Mutant: recovery keeps the errors of the interrupted attempt.
ClaimKeepingErrors(w) ==
    /\ pc[w] = "claim"
    /\ \E r \in Oldest :
         /\ ~Locked(r)
         /\ ~(status[r] = "processing" /\ ValidationIsComplete(r))
         /\ staging' = [staging EXCEPT ![r] = {}]
         /\ status' = [status EXCEPT ![r] = "processing"]
         /\ rowCount' = [rowCount EXCEPT ![r] = 0]
         /\ errorCount' = [errorCount EXCEPT ![r] = 0]
         /\ failureKind' = [failureKind EXCEPT ![r] = "none"]
         /\ ResetFrame(w, r)
    /\ CommitThen(w, "chk_open")
    /\ UNCHANGED <<queue, errors, applied, lock>>

\* Any other oldest report starts over: the rows of an earlier attempt go.
ClaimForValidation(w) ==
    /\ pc[w] = "claim"
    /\ \E r \in Oldest :
         /\ ~Locked(r)
         /\ ~(status[r] = "processing" /\ ValidationIsComplete(r))
         /\ staging' = [staging EXCEPT ![r] = {}]
         /\ errors' = [errors EXCEPT ![r] = {}]
         /\ status' = [status EXCEPT ![r] = "processing"]
         /\ rowCount' = [rowCount EXCEPT ![r] = 0]
         /\ errorCount' = [errorCount EXCEPT ![r] = 0]
         /\ failureKind' = [failureKind EXCEPT ![r] = "none"]
         /\ ResetFrame(w, r)
    /\ CommitThen(w, "chk_open")
    /\ UNCHANGED <<queue, applied, lock>>

\* Mutant: the pooled connection goes back without pg_advisory_unlock.
ForgetUnlock(w) ==
    /\ pc[w] = "unlock"
    /\ Goto(w, "idle")
    /\ ResetFrame(w, None)
    /\ UNCHANGED <<queue, columns, staging, errors, applied, lock, faults>>

\* pg_advisory_unlock in the finally of process_next_report; it does nothing in
\* a session that no longer holds the lock.
Unlock(w) ==
    /\ pc[w] = "unlock"
    /\ lock' = IF lock = w THEN None ELSE lock
    /\ Goto(w, "idle")
    /\ ResetFrame(w, None)
    /\ UNCHANGED <<queue, columns, staging, errors, applied, faults>>

-----------------------------------------------------------------------------
\* Cycle 1: the file is streamed through validate_csv_stream into two batches.
OpenOriginal(w) ==
    /\ pc[w] = "open"
    /\ Goto(w, "read")
    /\ UNCHANGED <<queue, columns, staging, errors, applied, lock, frames, faults>>

\* The object is missing, or the storage fails at the start or between chunks.
StorageFault(w) ==
    /\ pc[w] \in {"open", "read"}
    /\ Goto(w, OnError[pc[w]])
    /\ Fault("storage")
    /\ UNCHANGED <<queue, columns, staging, errors, applied, lock, frames>>

\* before_next_chunk asserts the lock each time a chunk is fetched, between
\* records that the code does not choose.
NoticeLossWhileReading(w) ==
    /\ pc[w] = "read"
    /\ lock # w
    /\ Goto(w, "unlock")
    /\ UNCHANGED <<queue, columns, staging, errors, applied, lock, frames, faults>>

\* Where the worker goes with batches sb and eb: a full batch is written at
\* once, what is left when reading ends by flush_all, staging before errors.
NextFlush(sb, eb, rd) ==
    IF Cardinality(sb) >= BatchSize THEN "chk_staging"
    ELSE IF Cardinality(eb) >= BatchSize THEN "chk_errors"
    ELSE IF rd = "reading" THEN "read"
    ELSE IF sb # {} THEN "chk_staging"
    ELSE IF eb # {} THEN "chk_errors"
    ELSE "chk_duplicates"

\* Mutant: csv.Error is taken for the end of the file, without an issue.
ReadRowSwallowingError(w) ==
    LET i == nextRow[w]
        f == file[cur[w]]
    IN  /\ pc[w] = "read"
        /\ i <= Len(f)
        /\ nextRow' = [nextRow EXCEPT ![w] = IF f[i] = Malformed THEN i ELSE i + 1]
        /\ stagingBatch' = [stagingBatch EXCEPT ![w] = IF f[i] \in Pairs THEN @ \cup {i} ELSE @]
        /\ errorBatch' = [errorBatch EXCEPT ![w] = IF f[i] = Bad THEN @ \cup {<<i, "row">>} ELSE @]
        /\ reading' = [reading EXCEPT ![w] = IF f[i] = Malformed THEN "eof" ELSE @]
        /\ Goto(w, NextFlush(stagingBatch'[w], errorBatch'[w], reading'[w]))
        /\ UNCHANGED <<queue, columns, staging, errors, applied, lock, cur, seenErrors, faults>>

\* One data record: a valid one joins the staging batch, another one yields an
\* issue, and a record that cannot be built ends the reading before the end.
ReadRow(w) ==
    LET i == nextRow[w]
        f == file[cur[w]]
    IN  /\ pc[w] = "read"
        /\ i <= Len(f)
        /\ nextRow' = [nextRow EXCEPT ![w] = i + 1]
        /\ stagingBatch' = [stagingBatch EXCEPT ![w] = IF f[i] \in Pairs THEN @ \cup {i} ELSE @]
        /\ errorBatch' = [errorBatch EXCEPT ![w] = IF f[i] \in Pairs THEN @ ELSE @ \cup {<<i, "row">>}]
        /\ reading' = [reading EXCEPT ![w] = IF f[i] = Malformed THEN "stopped" ELSE @]
        /\ Goto(w, NextFlush(stagingBatch'[w], errorBatch'[w], reading'[w]))
        /\ UNCHANGED <<queue, columns, staging, errors, applied, lock, cur, seenErrors, faults>>

\* The end of the file; a file without data records has one issue of its own
\* (missing_header, a header issue or no_data_rows).
EndOfFile(w) ==
    /\ pc[w] = "read"
    /\ nextRow[w] > Len(file[cur[w]])
    /\ errorBatch' = [errorBatch EXCEPT ![w] =
                        IF file[cur[w]] = <<>> THEN {<<0, "file">>} ELSE @]
    /\ reading' = [reading EXCEPT ![w] = "eof"]
    /\ Goto(w, NextFlush(stagingBatch[w], errorBatch'[w], "eof"))
    /\ UNCHANGED <<queue, columns, staging, errors, applied, lock, cur, nextRow,
                   stagingBatch, seenErrors, faults>>

\* _write_batch for report_staging_rows, whose key is (report_id, line_number).
WriteStaging(w) ==
    LET r == cur[w]
    IN  /\ pc[w] = "write_staging"
        /\ ~Locked(r)
        /\ staging[r] \cap stagingBatch[w] = {}
        /\ staging' = [staging EXCEPT ![r] = @ \cup stagingBatch[w]]
        /\ stagingBatch' = [stagingBatch EXCEPT ![w] = {}]
        /\ CommitThen(w, NextFlush({}, errorBatch[w], reading[w]))
        /\ UNCHANGED <<queue, columns, errors, applied, lock, cur, nextRow,
                       errorBatch, reading, seenErrors>>

\* A line is already there: the key is violated and the batch is not stored.
StagingKeyViolation(w) ==
    /\ pc[w] = "write_staging"
    /\ staging[cur[w]] \cap stagingBatch[w] # {}
    /\ Goto(w, OnError[pc[w]])
    /\ UNCHANGED <<queue, columns, staging, errors, applied, lock, frames, faults>>

\* Rows of errors carry their writer: the table has no key that could make two
\* insertions of the same issue collide, so both are kept.
Signed(w, issues) == {<<e[1], e[2], w>> : e \in issues}

WriteErrors(w) ==
    LET r == cur[w]
    IN  /\ pc[w] = "write_errors"
        /\ ~Locked(r)
        /\ errors' = [errors EXCEPT ![r] = @ \cup Signed(w, errorBatch[w])]
        /\ errorBatch' = [errorBatch EXCEPT ![w] = {}]
        /\ CommitThen(w, NextFlush(stagingBatch[w], {}, reading[w]))
        /\ UNCHANGED <<queue, columns, staging, applied, lock, cur, nextRow,
                       stagingBatch, reading, seenErrors>>

\* Mutant: a duplicate is looked for on the preceding line only.
InsertAdjacentDuplicateErrors(w) ==
    LET r == cur[w]
        duplicates == {i \in staging[r] : i - 1 \in staging[r] /\ file[r][i] = file[r][i - 1]}
    IN  /\ pc[w] = "insert_duplicates"
        /\ duplicates # {} => ~Locked(r)
        /\ errors' = [errors EXCEPT ![r] = @ \cup Signed(w, duplicates \X {"duplicate"})]
        /\ CommitThen(w, "chk_count")
        /\ UNCHANGED <<queue, columns, staging, applied, lock, frames>>

\* INSERT ... SELECT of the lines with duplicate_rank > 1 among staging rows.
InsertDuplicateErrors(w) ==
    LET r == cur[w]
        duplicates == DuplicateLines(file[r], staging[r])
    IN  /\ pc[w] = "insert_duplicates"
        /\ duplicates # {} => ~Locked(r)
        /\ errors' = [errors EXCEPT ![r] = @ \cup Signed(w, duplicates \X {"duplicate"})]
        /\ CommitThen(w, "chk_count")
        /\ UNCHANGED <<queue, columns, staging, applied, lock, frames>>

\* Mutant: the first data record is taken for the header in the count.
RowsReadOffByOne(w) == nextRow[w] - 2

\* The number of records read, row_count of the summary.
RowsRead(w) == nextRow[w] - 1

\* _error_count and the three ways on: stored errors fail the report; without
\* any, an incomplete reading is a RuntimeError; otherwise the file is valid.
CountErrors(w) ==
    LET n == Cardinality(errors[cur[w]])
    IN  /\ pc[w] = "count_errors"
        /\ seenErrors' = [seenErrors EXCEPT ![w] = n]
        /\ \/ n > 0 /\ Goto(w, "chk_finalize")
           \/ n = 0 /\ (reading[w] # "eof" \/ RowsRead(w) = 0) /\ Goto(w, OnError[pc[w]])
           \/ n = 0 /\ reading[w] = "eof" /\ RowsRead(w) > 0 /\ Goto(w, "chk_validated")
        /\ UNCHANGED <<queue, columns, staging, errors, applied, lock, cur, nextRow,
                       stagingBatch, errorBatch, reading, faults>>

\* Mutant: the update does not look at the status.
UpdateAnyStatus(r, newStatus, rows, count, kind) ==
    /\ status' = [status EXCEPT ![r] = newStatus]
    /\ rowCount' = [rowCount EXCEPT ![r] = rows]
    /\ errorCount' = [errorCount EXCEPT ![r] = count]
    /\ failureKind' = [failureKind EXCEPT ![r] = kind]

\* UPDATE reports ... WHERE status = 'processing', in the four transactions
\* that end a cycle: another status makes the update match no row.
UpdateProcessing(r, newStatus, rows, count, kind) ==
    IF status[r] = "processing"
    THEN /\ status' = [status EXCEPT ![r] = newStatus]
         /\ rowCount' = [rowCount EXCEPT ![r] = rows]
         /\ errorCount' = [errorCount EXCEPT ![r] = count]
         /\ failureKind' = [failureKind EXCEPT ![r] = kind]
    ELSE UNCHANGED columns

FinalizeValidationFailure(w) ==
    LET r == cur[w]
    IN  /\ pc[w] = "finalize"
        /\ ~Locked(r)
        /\ staging' = [staging EXCEPT ![r] = {}]
        /\ UpdateProcessing(r, "failed", RowsRead(w), seenErrors[w], "validation")
        /\ CommitThen(w, "unlock")
        /\ UNCHANGED <<queue, errors, applied, lock, frames>>

\* A file read to its end without stored errors: row_count makes it applicable.
MarkValidated(w) ==
    LET r == cur[w]
    IN  /\ pc[w] = "mark_validated"
        /\ ~Locked(r)
        /\ UpdateProcessing(r, "processing", RowsRead(w), 0, failureKind[r])
        /\ CommitThen(w, "unlock")
        /\ UNCHANGED <<queue, staging, errors, applied, lock, frames>>

\* Mutant: the staging rows of the failed attempt stay.
MarkFailedKeepingStaging(w, code) ==
    LET r == cur[w]
    IN  /\ ~Locked(r)
        /\ errors' = [errors EXCEPT ![r] = @ \cup {<<0, code, w>>}]
        /\ UpdateProcessing(r, "failed", rowCount[r], Cardinality(errors'[r]), "processing")
        /\ CommitThen(w, "unlock")
        /\ UNCHANGED <<queue, staging, applied, lock, frames>>

\* Mutant: the errors are counted before the new one is inserted.
MarkFailedCountingFirst(w, code) ==
    LET r == cur[w]
    IN  /\ ~Locked(r)
        /\ staging' = [staging EXCEPT ![r] = {}]
        /\ errors' = [errors EXCEPT ![r] = @ \cup {<<0, code, w>>}]
        /\ UpdateProcessing(r, "failed", rowCount[r], Cardinality(errors[r]), "processing")
        /\ CommitThen(w, "unlock")
        /\ UNCHANGED <<queue, applied, lock, frames>>

\* Recording a failed attempt: the staging rows go, one error row of the whole
\* report is added, and error_count is what the table then holds.
MarkFailed(w, code) ==
    LET r == cur[w]
    IN  /\ ~Locked(r)
        /\ staging' = [staging EXCEPT ![r] = {}]
        /\ errors' = [errors EXCEPT ![r] = @ \cup {<<0, code, w>>}]
        /\ UpdateProcessing(r, "failed", rowCount[r], Cardinality(errors'[r]), "processing")
        /\ CommitThen(w, "unlock")
        /\ UNCHANGED <<queue, applied, lock, frames>>

MarkProcessingFailed(w) ==
    pc[w] = "mark_processing_failed" /\ MarkFailed(w, "processing_error")

-----------------------------------------------------------------------------
\* Cycle 2: one transaction.  It locks the report and checks it again; the SQL
\* that follows sees the staging rows of the report and nothing is visible to
\* others before the commit.  The lock is asserted between the statements and
\* last before the commit; a loss noticed earlier rolls back just the same.
ReadyForApply(r) ==
    /\ status[r] = "processing"
    /\ errorCount[r] = 0
    /\ rowCount[r] > 0
    /\ Cardinality(staging[r]) = rowCount[r]

LockReport(w) ==
    /\ pc[w] = "lock_report"
    /\ ~Locked(cur[w])
    /\ Goto(w, IF ReadyForApply(cur[w]) THEN "apply_statements" ELSE OnError[pc[w]])
    /\ UNCHANGED <<queue, columns, staging, errors, applied, lock, frames, faults>>

\* Two staging rows of one pair make INSERT ... ON CONFLICT DO UPDATE fail
\* ("cannot affect row a second time") unless the pair already has a balance,
\* which may equal the quantity of the first row and is then left alone.
DuplicatePairs(r) == {file[r][l] : l \in DuplicateLines(file[r], staging[r])}
BalancedPairs == UNION {{file[a.report][l] : l \in a.lines} : a \in {applied[i] : i \in DOMAIN applied}}

ApplyStatements(w) ==
    /\ pc[w] = "apply_statements"
    /\ DuplicatePairs(cur[w]) \subseteq BalancedPairs
    /\ Goto(w, "chk_commit")
    /\ UNCHANGED <<queue, columns, staging, errors, applied, lock, frames, faults>>

DuplicateUpsertFails(w) ==
    /\ pc[w] = "apply_statements"
    /\ DuplicatePairs(cur[w]) # {}
    /\ Goto(w, OnError[pc[w]])
    /\ UNCHANGED <<queue, columns, staging, errors, applied, lock, frames, faults>>

\* The last statements, and the commit that makes all of them visible.
CommitApply(w) ==
    LET r == cur[w]
    IN  /\ pc[w] = "commit_apply"
        /\ applied' = Append(applied, [report |-> r, lines |-> staging[r]])
        /\ status' = [status EXCEPT ![r] = "completed"]
        /\ failureKind' = [failureKind EXCEPT ![r] = "none"]
        /\ staging' = [staging EXCEPT ![r] = {}]
        /\ CommitThen(w, "unlock")
        /\ UNCHANGED <<queue, rowCount, errorCount, errors, lock, frames>>

MarkApplyFailed(w) ==
    pc[w] = "mark_apply_failed" /\ MarkFailed(w, "apply_error")

-----------------------------------------------------------------------------
\* The connection that holds the lock breaks: PostgreSQL ends the session and
\* frees the lock, and the worker does not know before its next assertion.
LoseLock(w) ==
    /\ lock = w
    /\ lock' = None
    /\ Fault("lockloss")
    /\ UNCHANGED <<queue, columns, staging, errors, applied, pc, frames>>

\* The process dies: its session ends, its open transaction is rolled back.
Crash(w) ==
    /\ pc[w] # "down"
    /\ Goto(w, "down")
    /\ lock' = IF lock = w THEN None ELSE lock
    /\ ResetFrame(w, None)
    /\ Fault("crash")
    /\ UNCHANGED <<queue, columns, staging, errors, applied>>

Restart(w) ==
    /\ pc[w] = "down"
    /\ Goto(w, "idle")
    /\ UNCHANGED <<queue, columns, staging, errors, applied, lock, frames, faults>>

-----------------------------------------------------------------------------
Work(w) ==
    \/ AcquireLock(w) \/ AssertLock(w) \/ Unlock(w)
    \/ ClaimNothing(w) \/ ClaimForApply(w) \/ ClaimForValidation(w)
    \/ OpenOriginal(w) \/ ReadRow(w) \/ EndOfFile(w)
    \/ WriteStaging(w) \/ StagingKeyViolation(w) \/ WriteErrors(w)
    \/ InsertDuplicateErrors(w) \/ CountErrors(w)
    \/ FinalizeValidationFailure(w) \/ MarkValidated(w) \/ MarkProcessingFailed(w)
    \/ LockReport(w) \/ ApplyStatements(w) \/ DuplicateUpsertFails(w)
    \/ CommitApply(w) \/ MarkApplyFailed(w)

Disturb(w) ==
    \/ NoticeLossWhileReading(w) \/ StorageFault(w) \/ RollBack(w)
    \/ LoseLock(w) \/ Crash(w) \/ Restart(w)

Next ==
    \/ \E r \in Reports : BeginRegister(r) \/ CommitRegister(r)
    \/ \E w \in Workers : Work(w) \/ Disturb(w)

Spec == Init /\ [][Next]_vars

\* A running worker keeps running its loop; registrations, faults and restarts
\* are up to the environment.
FairSpec == Spec /\ \A w \in Workers : WF_vars(Work(w))

-----------------------------------------------------------------------------
\* Values every variable keeps; the one type invariant of this module.
TypeOK ==
    /\ status \in [Reports -> {"absent", "inserting"} \cup Visible]
    /\ rowCount \in [Reports -> Nat]
    /\ errorCount \in [Reports -> Nat]
    /\ failureKind \in [Reports -> {"none", "validation", "processing"}]
    /\ stamp \in [Reports -> Nat]
    /\ file \in [Reports -> Seq(Records)]
    /\ staging \in [Reports -> SUBSET Nat]
    /\ errors \in [Reports -> SUBSET (Nat \X Codes \X Workers)]
    /\ applied \in Seq([report : Reports, lines : SUBSET Nat])
    /\ lock \in Workers \cup {None}
    /\ pc \in [Workers -> Labels]
    /\ cur \in [Workers -> Reports \cup {None}]
    /\ nextRow \in [Workers -> Nat \ {0}]
    /\ stagingBatch \in [Workers -> SUBSET Nat]
    /\ errorBatch \in [Workers -> SUBSET (Nat \X Codes)]
    /\ reading \in [Workers -> {"reading", "eof", "stopped"}]
    /\ seenErrors \in [Workers -> Nat]
    /\ older \in [Reports -> SUBSET Reports]
    /\ clock \in Nat
    /\ faults \in [FaultKinds -> Nat]

\* A report is completed exactly when its snapshot reached the stock tables,
\* and that happened once, whatever crashes, retries, lost acknowledgements
\* and overlapping workers occurred (apply_report.py:83-142).
CompletedExactlyOnce ==
    /\ \A i, j \in DOMAIN applied : applied[i].report = applied[j].report => i = j
    /\ \A r \in Reports : status[r] = "completed" <=> \E i \in DOMAIN applied : applied[i].report = r

\* What was applied is the whole file: every record of it, all of them valid.
\* Overlapping workers may delete and rewrite staging rows under the feet of
\* each other; the counts compared at the claim and under the row lock must
\* still rule out a partial snapshot (report_processing.py:445, apply_report.py:91).
AppliedComplete ==
    \A i \in DOMAIN applied :
        LET f == file[applied[i].report]
        IN  applied[i].lines = DOMAIN f /\ ValidLines(f) = DOMAIN f

\* Strict order: work on a report starts only after every report that was
\* already registered when its own INSERT ran is terminal
\* (report_processing.py:411-414).
NoOvertaking ==
    \A r \in Reports : status[r] \in {"processing"} \cup Terminal =>
        \A q \in older[r] : status[q] \in Terminal

\* A terminal report keeps its columns: a late claim, a recovery or the
\* handler of a failure may not reopen, re-fail or overwrite it
\* (report_processing.py:412, 482, 515).
TerminalStable ==
    [][\A r \in Reports : status[r] \in Terminal =>
          /\ status'[r] = status[r]
          /\ rowCount'[r] = rowCount[r]
          /\ errorCount'[r] = errorCount[r]
          /\ failureKind'[r] = failureKind[r]]_vars

NoFault(kinds) == \A k \in kinds : faults[k] = 0

\* While no worker loses its lock connection, a terminal report has no staging
\* rows, although crashes, roll-backs and lost acknowledgements interrupt every
\* transaction that should delete them (report_processing.py:311, 461, 494).
TerminalStagingEmpty ==
    NoFault({"lockloss"}) =>
        \A r \in Reports : status[r] \in Terminal => staging[r] = {}

\* While no worker loses its lock connection, no two applied rows of a snapshot
\* name the same pair: a file with duplicates is refused by the SQL check of
\* cycle 1 also when a crash made it run again (report_processing.py:229-293).
AppliedWithoutDuplicates ==
    NoFault({"lockloss"}) =>
        \A i \in DOMAIN applied :
            DuplicateLines(file[applied[i].report], applied[i].lines) = {}

IsValidFile(f) ==
    /\ f # <<>>
    /\ ValidLines(f) = DOMAIN f
    /\ DuplicateLines(f, DOMAIN f) = {}

\* Crashes and restarts alone never fail a valid file: whoever recovers the
\* report removes what the dead worker had written, so that its own inserts
\* meet neither old staging rows nor old errors (report_processing.py:423-432).
CrashNeverFailsValidReport ==
    NoFault(FaultKinds \ {"crash"}) =>
        \A r \in Reports : status[r] = "failed" => ~IsValidFile(file[r])

\* The lines validation reads: all, or those up to the first malformed record.
LinesRead(f) == {i \in DOMAIN f : \A j \in 1 .. i - 1 : f[j] # Malformed}

\* The problems of a file, as <<line, code>>.
Problems(f) ==
    IF f = <<>> THEN {<<0, "file">>}
    ELSE    {<<i, "row">> : i \in LinesRead(f) \ ValidLines(f)}
       \cup {<<i, "duplicate">> : i \in DuplicateLines(f, LinesRead(f) \cap ValidLines(f))}

\* A report failed by validation stores each problem of its file exactly once,
\* in whatever batches and after however many interrupted attempts, and
\* error_count says how many (report_processing.py:186-194, 304-323).
EveryProblemReportedOnce ==
    NoFault({"lockloss", "acklost"}) =>
        \A r \in Reports : failureKind[r] = "validation" =>
            /\ {<<e[1], e[2]>> : e \in errors[r]} = Problems(file[r])
            /\ errorCount[r] = Cardinality(Problems(file[r]))
            /\ errorCount[r] = Cardinality(errors[r])

\* A registered report gets an outcome, whatever the bounded faults: no worker
\* keeps the lock or waits for another for ever, and each failure is recorded
\* or retried (report_processing.py:351-406, 529-587; worker.py:28-41).
EveryReportEnds ==
    \A r \in Reports : status[r] = "pending" ~> status[r] \in Terminal

\* While no worker loses its lock connection, a failed report says why: there
\* are stored errors, and at least as many as error_count, even when lost
\* acknowledgements made a failure be recorded twice
\* (report_processing.py:304-323, 459-526).
FailureIsExplained ==
    NoFault({"lockloss"}) =>
        \A r \in Reports : status[r] = "failed" =>
            errorCount[r] \in 1 .. Cardinality(errors[r])

-----------------------------------------------------------------------------
\* The promise of ImportService: the stock tables have absorbed, for every
\* applied snapshot, the records its staging rows came from.
Stock ==
    [i \in DOMAIN applied |->
        LET r == applied[i].report
        IN  [report |-> r, records |-> [l \in applied[i].lines |-> file[r][l]]]]

Service == INSTANCE ImportService WITH
    Importable <- {f \in Files : ValidLines(f) = DOMAIN f},
    stock <- Stock

\* The workers implement the service, with any number of crashes, lost locks,
\* retries and lost acknowledgements: files are applied whole or not at all, in
\* registration order, once (report_processing.py:351-457, apply_report.py:83-142).
ImplementsService == Service!Spec

-----------------------------------------------------------------------------
(* What the documentation says and the code does not do.                   *)

\* docs/architecture.md:51: a (warehouse_code, sku) pair may not occur twice in
\* one report.
DuplicatesNeverApplied ==
    \A i \in DOMAIN applied :
        DuplicateLines(file[applied[i].report], applied[i].lines) = {}
=============================================================================
