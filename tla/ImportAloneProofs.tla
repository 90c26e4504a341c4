-------------------------- MODULE ImportAloneProofs --------------------------
(***************************************************************************)
(* What holds of the import while no worker loses the connection that      *)
(* holds the lock: whatever crashes, roll-backs, storage faults and lost   *)
(* acknowledgements occur, one worker at a time is in a cycle, and what it *)
(* has stored for a report is what validation says of the file.            *)
(***************************************************************************)
EXTENDS ImportSafetyProofs

\* The labels of a cycle: while the file is read, once its duplicates are
\* looked for, while the snapshot is applied, and while a failure is recorded.
Loading ==
    {"chk_open", "open", "read", "chk_staging", "write_staging", "chk_errors", "write_errors",
     "chk_duplicates", "insert_duplicates"}
Checked ==
    {"chk_count", "count_errors", "chk_finalize", "finalize", "chk_validated", "mark_validated"}
Claimed  == {"chk_apply", "lock_report"}
Failing  == {"chk_failed", "mark_processing_failed", "chk_apply_failed", "mark_apply_failed"}

\* Only the worker that holds the lock is in a cycle.
Exclusive == \A w \in Workers : lock = w <=> pc[w] \notin {"idle", "down"}

\* The issues of the records read so far.
IssuesRead(f, n, rd) ==
    {<<i, "row">> : i \in {j \in DOMAIN f : j < n /\ f[j] \notin Pairs}}
       \cup (IF f = <<>> /\ rd = "eof" THEN {<<0, "file">>} ELSE {})

\* While the file is read: each record so far is in the tables or in a batch.
LoadingOK(w) ==
    LET r == cur[w]
        f == file[r]
        n == nextRow[w]
    IN  /\ staging[r] \cup stagingBatch[w] = {i \in ValidLines(f) : i < n}
        /\ staging[r] \cap stagingBatch[w] = {}
        /\ errors[r] \cup Signed(w, errorBatch[w]) = Signed(w, IssuesRead(f, n, reading[w]))
        /\ \A i \in 1 .. n - 1 : f[i] = Malformed => i = n - 1 /\ reading[w] = "stopped"
        /\ reading[w] = "stopped" => n > 1 /\ f[n - 1] = Malformed
        /\ pc[w] \in {"chk_duplicates", "insert_duplicates"} =>
             stagingBatch[w] = {} /\ errorBatch[w] = {} /\ reading[w] # "reading"

\* Afterwards: the errors are the problems of the file.
CheckedOK(w) ==
    LET r == cur[w]
    IN  /\ errors[r] = Signed(w, Problems(file[r]))
        /\ reading[w] = "eof" => LinesRead(file[r]) = DOMAIN file[r]
        /\ reading[w] # "eof" => ~IsValidFile(file[r])
        /\ pc[w] \in {"chk_finalize", "finalize"} =>
             errors[r] # {} /\ seenErrors[w] = Cardinality(errors[r])
        /\ pc[w] \in {"chk_validated", "mark_validated"} => errors[r] = {}

WorkerOK(w) ==
    /\ pc[w] \in Loading => LoadingOK(w)
    /\ pc[w] \in Checked => CheckedOK(w)
    /\ pc[w] \in Loading \cup Checked => status[cur[w]] = "processing"
    /\ pc[w] \in Claimed => ReadyForApply(cur[w])
    /\ pc[w] \in HoldsRow => IsValidFile(file[cur[w]])
    /\ pc[w] \in Failing =>
         /\ NoFault({"acklost"}) => status[cur[w]] = "processing"
         /\ NoFault(FaultKinds \ {"crash"}) => ~IsValidFile(file[cur[w]])

ReportOK(r) ==
    /\ status[r] \in Terminal => staging[r] = {}
    /\ status[r] # "failed" => failureKind[r] = "none"
    /\ status[r] = "processing" /\ rowCount[r] > 0 => IsValidFile(file[r])
    /\ status[r] = "failed" => errorCount[r] \in 1 .. Cardinality(errors[r])
    /\ NoFault({"acklost"}) /\ failureKind[r] = "validation" =>
         /\ \E w \in Workers : errors[r] = Signed(w, Problems(file[r]))
         /\ errorCount[r] = Cardinality(errors[r])
    /\ NoFault(FaultKinds \ {"crash"}) /\ status[r] = "failed" => ~IsValidFile(file[r])

NothingTwice ==
    \A i \in DOMAIN applied : DuplicateLines(file[applied[i].report], applied[i].lines) = {}

Alone ==
    /\ Exclusive
    /\ \A w \in Workers : WorkerOK(w)
    /\ \A r \in Reports : ReportOK(r)
    /\ NothingTwice

AloneInv == NoFault({"lockloss"}) => Alone

-----------------------------------------------------------------------------
(* The problems of a file.                                                 *)

\* An issue is a row of its writer, and rows of one writer are its issues.
LEMMA SignedIs ==
    ASSUME NEW w, NEW A, NEW B, A \subseteq Nat \X Codes, B \subseteq Nat \X Codes
    PROVE  /\ Signed(w, A \cup B) = Signed(w, A) \cup Signed(w, B)
           /\ Signed(w, A) = {} <=> A = {}
           /\ {<<e[1], e[2]>> : e \in Signed(w, A)} = A
<1>1. Signed(w, A \cup B) = Signed(w, A) \cup Signed(w, B)
  BY DEF Signed
<1>2. Signed(w, A) = {} <=> A = {}
  BY DEF Signed
<1>3. \A e \in A : e = <<e[1], e[2]>>
  OBVIOUS
<1>4. ASSUME NEW e \in Signed(w, A) PROVE <<e[1], e[2]>> \in A
  <2>1. PICK a \in A : e = <<a[1], a[2], w>>
    BY DEF Signed
  <2>2. e[1] = a[1] /\ e[2] = a[2]
    BY <2>1
  <2> QED
    BY <1>3, <2>2
<1>5. ASSUME NEW a \in A PROVE \E e \in Signed(w, A) : a = <<e[1], e[2]>>
  <2>1. <<a[1], a[2], w>> \in Signed(w, A)
    BY DEF Signed
  <2> DEFINE e == <<a[1], a[2], w>>
  <2>2. e[1] = a[1] /\ e[2] = a[2]
    OBVIOUS
  <2> QED
    BY <1>3, <2>1, <2>2
<1>6. {<<e[1], e[2]>> : e \in Signed(w, A)} = A
  BY <1>4, <1>5
<1> QED
  BY <1>1, <1>2, <1>6

LEMMA FileOf ==
    ASSUME NEW f \in Seq(Records)
    PROVE  /\ Len(f) \in Nat /\ DOMAIN f = 1 .. Len(f) /\ DOMAIN f \subseteq Nat
           /\ f = <<>> <=> Len(f) = 0
           /\ \A i \in DOMAIN f : f[i] \in Pairs \/ f[i] = Bad \/ f[i] = Malformed
           /\ Problems(f) \subseteq Nat \X Codes
<1>1. /\ Len(f) \in Nat /\ DOMAIN f = 1 .. Len(f) /\ DOMAIN f \subseteq Nat
      /\ f = <<>> <=> Len(f) = 0
      /\ \A i \in DOMAIN f : f[i] \in Records
  OBVIOUS
<1>2. LinesRead(f) \subseteq DOMAIN f
  BY DEF LinesRead
<1>3. Problems(f) \subseteq Nat \X Codes
  BY <1>1, <1>2 DEF Problems, DuplicateLines, Codes
<1> QED
  BY <1>1, <1>3 DEF Records

\* A file is valid if it was read to its end and has no problem.
LEMMA ValidHasNoProblem ==
    ASSUME NEW f \in Seq(Records)
    PROVE  /\ IsValidFile(f) => Problems(f) = {}
           /\ LinesRead(f) = DOMAIN f /\ Problems(f) = {} => IsValidFile(f)
<1>1. ASSUME IsValidFile(f) PROVE Problems(f) = {}
  <2>1. f # <<>> /\ ValidLines(f) = DOMAIN f /\ DuplicateLines(f, DOMAIN f) = {}
    BY <1>1 DEF IsValidFile
  <2>2. LinesRead(f) \subseteq DOMAIN f
    BY DEF LinesRead
  <2>3. DuplicateLines(f, LinesRead(f) \cap ValidLines(f)) = {}
    BY <2>1, <2>2 DEF DuplicateLines
  <2> QED
    BY <2>1, <2>2, <2>3 DEF Problems
<1>2. ASSUME LinesRead(f) = DOMAIN f, Problems(f) = {} PROVE IsValidFile(f)
  <2>1. f # <<>>
    BY <1>2 DEF Problems
  <2>2. /\ \A i \in DOMAIN f \ ValidLines(f) : <<i, "row">> \in Problems(f)
        /\ \A i \in DuplicateLines(f, DOMAIN f \cap ValidLines(f)) : <<i, "duplicate">> \in Problems(f)
    BY <1>2, <2>1 DEF Problems
  <2>3. ValidLines(f) = DOMAIN f
    BY <1>2, <2>2 DEF ValidLines
  <2> QED
    BY <1>2, <2>1, <2>2, <2>3 DEF IsValidFile
<1> QED
  BY <1>1, <1>2

\* What was read when reading has ended.
LEMMA ReadingEnds ==
    ASSUME NEW f \in Seq(Records), NEW n \in Nat \ {0}, n <= Len(f) + 1,
           NEW rd \in {"eof", "stopped"},
           rd = "eof" => n = Len(f) + 1,
           rd = "stopped" => n > 1 /\ f[n - 1] = Malformed,
           \A i \in 1 .. n - 1 : f[i] = Malformed => i = n - 1 /\ rd = "stopped"
    PROVE  /\ LinesRead(f) = {i \in DOMAIN f : i < n}
           /\ rd = "eof" => LinesRead(f) = DOMAIN f
           /\ rd = "stopped" => ~IsValidFile(f)
<1>1. Len(f) \in Nat /\ DOMAIN f = 1 .. Len(f)
  BY FileOf
<1>2. ASSUME NEW i \in DOMAIN f, i < n PROVE i \in LinesRead(f)
  BY <1>1, <1>2 DEF LinesRead
<1>3. ASSUME NEW i \in LinesRead(f) PROVE i \in DOMAIN f /\ i < n
  <2>1. i \in DOMAIN f /\ \A j \in 1 .. i - 1 : f[j] # Malformed
    BY DEF LinesRead
  <2>2. CASE rd = "eof"
    BY <1>1, <2>1, <2>2
  <2>3. CASE rd = "stopped"
    BY <1>1, <2>1, <2>3
  <2> QED
    BY <2>2, <2>3
<1>4. LinesRead(f) = {i \in DOMAIN f : i < n}
  BY <1>2, <1>3
<1>5. ASSUME rd = "stopped" PROVE ~IsValidFile(f)
  <2>1. n - 1 \in DOMAIN f /\ f[n - 1] \notin Pairs
    BY <1>1, <1>5, RecordsAssumption
  <2> QED
    BY <2>1 DEF IsValidFile, ValidLines
<1> QED
  BY <1>1, <1>4, <1>5

\* The issues of the records and the duplicates among the valid lines are the
\* problems of the file.
LEMMA ProblemsFound ==
    ASSUME NEW f \in Seq(Records), NEW n \in Nat \ {0}, n <= Len(f) + 1,
           NEW rd \in {"eof", "stopped"},
           rd = "eof" => n = Len(f) + 1,
           rd = "stopped" => n > 1 /\ f[n - 1] = Malformed,
           LinesRead(f) = {i \in DOMAIN f : i < n}
    PROVE  Problems(f) = IssuesRead(f, n, rd) \cup
                         (DuplicateLines(f, {i \in ValidLines(f) : i < n}) \X {"duplicate"})
<1>1. Len(f) \in Nat /\ DOMAIN f = 1 .. Len(f) /\ (f = <<>> <=> Len(f) = 0)
  BY FileOf
<1>2. LinesRead(f) \cap ValidLines(f) = {i \in ValidLines(f) : i < n}
  BY DEF ValidLines
<1>3. LinesRead(f) \ ValidLines(f) = {j \in DOMAIN f : j < n /\ f[j] \notin Pairs}
  BY DEF ValidLines
<1> DEFINE D == DuplicateLines(f, {i \in ValidLines(f) : i < n})
<1>4. {<<i, "duplicate">> : i \in D} = D \X {"duplicate"}
  <2> HIDE DEF D
  <2> QED
    OBVIOUS
<1>5. CASE f = <<>>
  <2>1. rd = "eof"
    BY <1>1, <1>5
  <2>2. D = {} /\ {j \in DOMAIN f : j < n /\ f[j] \notin Pairs} = {}
    BY <1>1, <1>5 DEF ValidLines, DuplicateLines
  <2> QED
    BY <1>5, <2>1, <2>2 DEF Problems, IssuesRead
<1>6. CASE f # <<>>
  <2>1. Problems(f) = {<<i, "row">> : i \in LinesRead(f) \ ValidLines(f)}
                        \cup {<<i, "duplicate">> : i \in DuplicateLines(f, LinesRead(f) \cap ValidLines(f))}
    BY <1>6, Zenon DEF Problems
  <2>2. IssuesRead(f, n, rd) = {<<i, "row">> : i \in {j \in DOMAIN f : j < n /\ f[j] \notin Pairs}}
    BY <1>6 DEF IssuesRead
  <2> QED
    BY <1>2, <1>3, <1>4, <2>1, <2>2, Zenon
<1> QED
  BY <1>5, <1>6

-----------------------------------------------------------------------------
(* Faults, and what a step of one worker leaves alone.                     *)

\* What did not happen by now had not happened before.
LEMMA FaultsGrow ==
    ASSUME TypeInv, Next
    PROVE  \A K \in SUBSET FaultKinds : NoFault(K)' => NoFault(K)
<1>1. \/ UNCHANGED faults
      \/ \E kind \in FaultKinds : faults' = [faults EXCEPT ![kind] = @ + 1]
  <2>1. ASSUME NEW r \in Reports, BeginRegister(r) \/ CommitRegister(r) PROVE UNCHANGED faults
    BY <2>1 DEF BeginRegister, CommitRegister
  <2>2. ASSUME NEW w \in Workers, NEW l, CommitThen(w, l)
        PROVE  \/ UNCHANGED faults
               \/ \E kind \in FaultKinds : faults' = [faults EXCEPT ![kind] = @ + 1]
    BY <2>2 DEF CommitThen, Fault, FaultKinds
  <2>3. ASSUME NEW w \in Workers, Work(w)
        PROVE  UNCHANGED faults \/ \E l : CommitThen(w, l)
    <3>1. CASE \/ ClaimForApply(w) \/ ClaimForValidation(w) \/ WriteStaging(w) \/ WriteErrors(w)
               \/ InsertDuplicateErrors(w) \/ FinalizeValidationFailure(w) \/ MarkValidated(w)
               \/ MarkProcessingFailed(w) \/ CommitApply(w) \/ MarkApplyFailed(w)
      BY <3>1 DEF ClaimForApply, ClaimForValidation, WriteStaging, WriteErrors,
                  InsertDuplicateErrors, FinalizeValidationFailure, MarkValidated,
                  MarkProcessingFailed, CommitApply, MarkApplyFailed, MarkFailed
    <3>2. CASE \/ AcquireLock(w) \/ AssertLock(w) \/ Unlock(w) \/ ClaimNothing(w)
               \/ OpenOriginal(w) \/ ReadRow(w) \/ EndOfFile(w) \/ StagingKeyViolation(w)
               \/ CountErrors(w) \/ LockReport(w) \/ ApplyStatements(w) \/ DuplicateUpsertFails(w)
      BY <3>2 DEF AcquireLock, AssertLock, Unlock, ClaimNothing, OpenOriginal, ReadRow, EndOfFile,
                  StagingKeyViolation, CountErrors, LockReport, ApplyStatements,
                  DuplicateUpsertFails
    <3> QED
      BY <2>3, <3>1, <3>2 DEF Work
  <2>4. ASSUME NEW w \in Workers, Disturb(w)
        PROVE  \/ UNCHANGED faults
               \/ \E kind \in FaultKinds : faults' = [faults EXCEPT ![kind] = @ + 1]
    BY <2>4 DEF Disturb, NoticeLossWhileReading, StorageFault, RollBack, LoseLock, Crash, Restart,
                Fault, FaultKinds
  <2> QED
    BY <2>1, <2>2, <2>3, <2>4 DEF Next
<1>2. faults \in [FaultKinds -> Nat]
  BY DEF TypeInv, TypeOK
<1> QED
  BY <1>1, <1>2 DEF NoFault

\* A commit is acknowledged, or the worker is told of an error.
LEMMA CommitEnds ==
    ASSUME TypeInv, NEW w \in Workers, pc[w] \in DOMAIN OnError, NEW next, CommitThen(w, next)
    PROVE  /\ \A v \in Workers \ {w} : pc'[v] = pc[v]
           /\ \/ pc'[w] = next
              \/ pc'[w] \in Failing \cup {"unlock"} /\ faults'["acklost"] # 0
<1>1. /\ pc \in [Workers -> Labels] /\ faults \in [FaultKinds -> Nat]
      /\ "acklost" \in FaultKinds
  BY DEF TypeInv, TypeOK, FaultKinds
<1>2. OnError[pc[w]] \in Failing \cup {"unlock"}
  BY ErrorTargets DEF Failing
<1> QED
  BY <1>1, <1>2 DEF CommitThen, Goto, Fault

\* Out of a cycle nothing is claimed of a worker, and a lost answer excuses it.
LEMMA OutOfCycle ==
    ASSUME NEW w \in Workers, pc'[w] \in {"idle", "claim", "unlock", "down"}
    PROVE  WorkerOK(w)'
BY DEF WorkerOK, Loading, Checked, Claimed, HoldsRow, Failing

LEMMA FailingExcused ==
    ASSUME NEW w \in Workers, pc'[w] \in Failing \cup {"unlock"}, faults'["acklost"] # 0
    PROVE  WorkerOK(w)'
<1>1. ~NoFault({"acklost"})' /\ ~NoFault(FaultKinds \ {"crash"})'
  BY DEF NoFault, FaultKinds
<1> QED
  BY <1>1 DEF WorkerOK, Loading, Checked, Claimed, HoldsRow, Failing

\* The steps of the one worker: only its report changes, and the others wait.
LEMMA AloneFrame ==
    ASSUME TypeInv, Alone, Next, NEW w \in Workers, NEW r,
           lock \in {w, None}, lock' \in {w, None}, lock' = w <=> pc'[w] \notin {"idle", "down"},
           \A v \in Workers \ {w} : pc'[v] = pc[v],
           \A q \in Reports \ {r} :
              /\ status'[q] = status[q] /\ rowCount'[q] = rowCount[q]
              /\ errorCount'[q] = errorCount[q] /\ failureKind'[q] = failureKind[q]
              /\ file'[q] = file[q] /\ staging'[q] = staging[q] /\ errors'[q] = errors[q],
           WorkerOK(w)', r \in Reports => ReportOK(r)', NothingTwice'
    PROVE  Alone'
<1>1. \A v \in Workers \ {w} : pc'[v] \in {"idle", "down"}
  BY NoneAssumption DEF Alone, Exclusive
<1>2. Exclusive'
  BY <1>1, NoneAssumption DEF Exclusive
<1>3. \A v \in Workers : WorkerOK(v)'
  BY <1>1 DEF WorkerOK, Loading, Checked, Claimed, HoldsRow, Failing
<1>4. /\ NoFault({"acklost"})' => NoFault({"acklost"})
      /\ NoFault(FaultKinds \ {"crash"})' => NoFault(FaultKinds \ {"crash"})
  BY FaultsGrow DEF FaultKinds
<1>5. ASSUME NEW q \in Reports \ {r} PROVE ReportOK(q)'
  <2>1. ReportOK(q)
    BY DEF Alone
  <2>2. /\ status'[q] = status[q] /\ rowCount'[q] = rowCount[q]
        /\ errorCount'[q] = errorCount[q] /\ failureKind'[q] = failureKind[q]
        /\ file'[q] = file[q] /\ staging'[q] = staging[q] /\ errors'[q] = errors[q]
    OBVIOUS
  <2> QED
    BY <1>4, <2>1, <2>2 DEF ReportOK
<1> QED
  BY <1>2, <1>3, <1>5 DEF Alone

\* The same for a step that changes no table.
LEMMA AloneQuiet ==
    ASSUME TypeInv, Alone, Next, NEW w \in Workers,
           lock \in {w, None}, lock' \in {w, None}, lock' = w <=> pc'[w] \notin {"idle", "down"},
           \A v \in Workers \ {w} : pc'[v] = pc[v],
           UNCHANGED <<queue, columns, staging, errors, applied>>, WorkerOK(w)'
    PROVE  Alone'
<1>1. UNCHANGED <<status, rowCount, errorCount, failureKind, file, staging, errors, applied>>
  BY DEF queue, columns
<1>2. NothingTwice'
  BY <1>1 DEF Alone, NothingTwice
<1>3. None \notin Reports
  BY NoneAssumption
<1> QED
  BY <1>1, <1>2, <1>3, AloneFrame

-----------------------------------------------------------------------------
(* The lock, exceptions, and other steps that change no table.             *)

LEMMA Holding ==
    ASSUME Alone, NEW w \in Workers, pc[w] \notin {"idle", "down"}
    PROVE  lock = w
BY DEF Alone, Exclusive

\* A check of the lock leads on within the phase of the cycle.
LEMMA CheckKeepsPhase ==
    ASSUME NEW l \in DOMAIN AfterCheck
    PROVE  LET m == AfterCheck[l]
           IN  /\ m \in Loading => l \in Loading
               /\ m \in Checked => l \in Checked
               /\ m \in Claimed => l \in Claimed
               /\ m \in HoldsRow => l \in HoldsRow
               /\ m \in Failing => l \in Failing
               /\ m \in {"chk_duplicates", "insert_duplicates"} => l = "chk_duplicates"
               /\ m \in {"chk_finalize", "finalize"} => l = "chk_finalize"
               /\ m \in {"chk_validated", "mark_validated"} => l = "chk_validated"
               /\ m \notin {"idle", "down"} /\ l \notin {"idle", "down"}
BY DEF AfterCheck, Loading, Checked, Claimed, HoldsRow, Failing

LEMMA AloneAssert ==
    ASSUME TypeInv, Alone, Next, NEW w \in Workers, AssertLock(w)
    PROVE  Alone'
<1>1. /\ pc[w] \in DOMAIN AfterCheck
      /\ UNCHANGED <<queue, columns, staging, errors, applied, lock, frames, faults>>
  BY DEF AssertLock
<1> DEFINE m == AfterCheck[pc[w]]
<1>2. /\ m \in Loading => pc[w] \in Loading
      /\ m \in Checked => pc[w] \in Checked
      /\ m \in Claimed => pc[w] \in Claimed
      /\ m \in HoldsRow => pc[w] \in HoldsRow
      /\ m \in Failing => pc[w] \in Failing
      /\ m \in {"chk_duplicates", "insert_duplicates"} => pc[w] = "chk_duplicates"
      /\ m \in {"chk_finalize", "finalize"} => pc[w] = "chk_finalize"
      /\ m \in {"chk_validated", "mark_validated"} => pc[w] = "chk_validated"
      /\ m \notin {"idle", "down"} /\ pc[w] \notin {"idle", "down"}
  BY <1>1, CheckKeepsPhase
<1>3. lock = w
  BY <1>2, Holding
<1>4. pc'[w] = m /\ \A v \in Workers \ {w} : pc'[v] = pc[v]
  BY <1>3 DEF AssertLock, Goto, TypeInv, TypeOK
<1> HIDE DEF m
<1>5. UNCHANGED <<status, rowCount, errorCount, file, staging, errors, cur, nextRow, stagingBatch,
                  errorBatch, reading, seenErrors, faults>>
  BY <1>1 DEF queue, columns, frames
<1>6. WorkerOK(w)
  BY DEF Alone
<1>7. m \in Loading => LoadingOK(w)'
  BY <1>2, <1>4, <1>5, <1>6 DEF WorkerOK, LoadingOK
<1>8. m \in Checked => CheckedOK(w)'
  BY <1>2, <1>4, <1>5, <1>6 DEF WorkerOK, CheckedOK
<1>9. WorkerOK(w)'
  BY <1>2, <1>4, <1>5, <1>6, <1>7, <1>8 DEF WorkerOK, ReadyForApply, NoFault
<1> QED
  BY <1>1, <1>2, <1>3, <1>4, <1>9, AloneQuiet

\* Exceptions.  Those that the code itself raises cannot occur; the others are
\* faults, and the worker goes on to record a failure.
LEMMA PhaseHasReport ==
    ASSUME TypeInv, SafeInv, NEW w \in Workers,
           pc[w] \in Loading \cup Checked \cup Claimed \cup HoldsRow \cup Failing
    PROVE  /\ cur[w] \in Reports /\ file[cur[w]] \in Seq(Records)
           /\ pc[w] \in ClaimedPCs /\ pc[w] \notin {"idle", "down"}
           /\ nextRow[w] \in Nat \ {0} /\ nextRow[w] <= Len(file[cur[w]]) + 1
           /\ reading[w] \in {"reading", "eof", "stopped"}
           /\ reading[w] = "eof" => nextRow[w] = Len(file[cur[w]]) + 1
<1>1. pc[w] \in ClaimedPCs /\ pc[w] \notin {"idle", "down"}
  BY DEF ClaimedPCs, Labels, AfterCheck, OnError, Loading, Checked, Claimed, HoldsRow, Failing
<1>2. cur[w] \in Reports
  BY <1>1 DEF TypeInv, HasReport
<1> QED
  BY <1>1, <1>2 DEF TypeInv, TypeOK, SafeInv, ReadOK

LEMMA AtWorkIsProcessing ==
    ASSUME SafeInv, Alone, NEW w \in Workers,
           \/ pc[w] \in Loading \cup Checked \cup Claimed \cup HoldsRow
           \/ pc[w] \in Failing /\ NoFault({"acklost"})
    PROVE  status[cur[w]] = "processing"
BY DEF SafeInv, RowLocked, Alone, WorkerOK, ReadyForApply

LEMMA ErrorPhases ==
    ASSUME NEW l \in DOMAIN OnError
    PROVE  /\ l \in Loading \cup Checked \cup Claimed \cup HoldsRow
                \/ (l \in {"claim", "mark_processing_failed", "mark_apply_failed"} /\ OnError[l] = "unlock")
           /\ OnError[l] \in Failing \cup {"unlock"}
           /\ l \notin {"idle", "down"}
<1>1. OnError[l] \in Failing \cup {"unlock"}
  BY ErrorTargets DEF Failing
<1> QED
  BY <1>1 DEF OnError, Loading, Checked, Claimed, HoldsRow

LEMMA AloneFault ==
    ASSUME TypeInv, SafeInv, Alone, Next, NEW w \in Workers, StorageFault(w) \/ RollBack(w)
    PROVE  Alone'
<1>1. /\ pc[w] \in DOMAIN OnError
      /\ pc' = [pc EXCEPT ![w] = OnError[pc[w]]]
      /\ \E kind \in {"storage", "rolledback"} : Fault(kind)
      /\ UNCHANGED <<queue, columns, staging, errors, applied, lock, frames>>
  BY DEF StorageFault, RollBack, Goto, OnError
<1>2. /\ pc'[w] = OnError[pc[w]] /\ \A v \in Workers \ {w} : pc'[v] = pc[v]
      /\ ~NoFault(FaultKinds \ {"crash"})'
      /\ UNCHANGED <<status, cur>>
  BY <1>1 DEF TypeInv, TypeOK, Fault, NoFault, FaultKinds, columns, frames
<1>3. /\ OnError[pc[w]] \in Failing \cup {"unlock"} /\ pc[w] \notin {"idle", "down"}
      /\ OnError[pc[w]] \notin {"idle", "down"}
  BY <1>1, ErrorPhases DEF Failing
<1>4. pc'[w] \in Failing => status[cur[w]] = "processing"
  BY <1>1, <1>2, ErrorPhases, AtWorkIsProcessing DEF Failing
<1>5. WorkerOK(w)'
  BY <1>2, <1>3, <1>4 DEF WorkerOK, Loading, Checked, Claimed, HoldsRow, Failing
<1> QED
  BY <1>1, <1>2, <1>3, <1>5, Holding, AloneQuiet

LEMMA NoExceptions ==
    ASSUME TypeInv, SafeInv, Alone, NEW w \in Workers
    PROVE  ~StagingKeyViolation(w) /\ ~DuplicateUpsertFails(w) /\ ~NoticeLossWhileReading(w)
<1>1. ASSUME StagingKeyViolation(w) PROVE FALSE
  <2>1. pc[w] \in Loading /\ staging[cur[w]] \cap stagingBatch[w] # {}
    BY <1>1 DEF StagingKeyViolation, Loading
  <2> QED
    BY <2>1 DEF Alone, WorkerOK, LoadingOK
<1>2. ASSUME DuplicateUpsertFails(w) PROVE FALSE
  <2>1. pc[w] \in HoldsRow /\ DuplicatePairs(cur[w]) # {}
    BY <1>2 DEF DuplicateUpsertFails, HoldsRow
  <2>2. IsValidFile(file[cur[w]]) /\ staging[cur[w]] = DOMAIN file[cur[w]]
    BY <2>1 DEF Alone, WorkerOK, SafeInv, RowLocked
  <2> QED
    BY <2>1, <2>2 DEF DuplicatePairs, IsValidFile
<1>3. ASSUME NoticeLossWhileReading(w) PROVE FALSE
  BY <1>3, Holding DEF NoticeLossWhileReading
<1> QED
  BY <1>1, <1>2, <1>3

\* The steps into and out of a cycle.
LEMMA AloneBetween ==
    ASSUME TypeInv, Alone, Next, NEW w \in Workers,
           AcquireLock(w) \/ ClaimNothing(w) \/ Unlock(w)
    PROVE  Alone'
<1>1. /\ pc[w] \in {"idle", "claim", "unlock"}
      /\ UNCHANGED <<queue, columns, staging, errors, applied>>
      /\ lock \in {w, None}
  BY Holding DEF AcquireLock, ClaimNothing, Unlock
<1>2. /\ \A v \in Workers \ {w} : pc'[v] = pc[v]
      /\ pc'[w] \in {"claim", "unlock", "idle"}
      /\ lock' \in {w, None} /\ (lock' = w <=> pc'[w] # "idle")
  BY Holding, NoneAssumption DEF AcquireLock, ClaimNothing, Unlock, Goto, TypeInv, TypeOK
<1>3. WorkerOK(w)'
  BY <1>2, OutOfCycle
<1> QED
  BY <1>1, <1>2, <1>3, AloneQuiet

LEMMA AloneCrash ==
    ASSUME TypeInv, Alone, Next, NEW w \in Workers, Crash(w) \/ Restart(w)
    PROVE  Alone'
<1>1. /\ UNCHANGED <<queue, columns, staging, errors, applied>>
      /\ pc'[w] \in {"idle", "down"}
      /\ \A v \in Workers \ {w} : /\ pc'[v] = pc[v] /\ cur'[v] = cur[v] /\ nextRow'[v] = nextRow[v]
                                  /\ stagingBatch'[v] = stagingBatch[v]
                                  /\ errorBatch'[v] = errorBatch[v] /\ reading'[v] = reading[v]
                                  /\ seenErrors'[v] = seenErrors[v]
  BY DEF Crash, Restart, Goto, ResetFrame, frames, TypeInv, TypeOK
<1>2. WorkerOK(w)'
  BY <1>1, OutOfCycle
<1>3. lock' = IF lock = w THEN None ELSE lock
  BY Holding DEF Crash, Restart, Alone, Exclusive
<1>4. CASE lock \in {w, None}
  BY <1>1, <1>2, <1>3, <1>4, NoneAssumption, AloneQuiet
<1>5. CASE lock \notin {w, None}
  <2>1. UNCHANGED lock
    BY <1>3, <1>5
  <2>2. Exclusive'
    BY <1>1, <1>5, <2>1 DEF Alone, Exclusive
  <2>3. UNCHANGED <<status, rowCount, errorCount, failureKind, file, staging, errors, applied>>
    BY <1>1 DEF queue, columns
  <2>4. /\ NoFault({"acklost"})' => NoFault({"acklost"})
        /\ NoFault(FaultKinds \ {"crash"})' => NoFault(FaultKinds \ {"crash"})
    BY FaultsGrow DEF FaultKinds
  <2>5. ASSUME NEW v \in Workers \ {w} PROVE WorkerOK(v)'
    <3>1. WorkerOK(v)
      BY DEF Alone
    <3>2. LoadingOK(v) => LoadingOK(v)'
      BY <1>1, <2>3 DEF LoadingOK
    <3>3. CheckedOK(v) => CheckedOK(v)'
      BY <1>1, <2>3 DEF CheckedOK
    <3>4. ReadyForApply(cur[v]) => ReadyForApply(cur[v])'
      BY <1>1, <2>3 DEF ReadyForApply
    <3> QED
      BY <1>1, <2>3, <2>4, <3>1, <3>2, <3>3, <3>4 DEF WorkerOK
  <2>6. \A q \in Reports : ReportOK(q)'
    BY <2>3, <2>4 DEF Alone, ReportOK
  <2>7. NothingTwice'
    BY <2>3 DEF Alone, NothingTwice
  <2> QED
    BY <1>2, <2>2, <2>5, <2>6, <2>7 DEF Alone
<1> QED
  BY <1>4, <1>5

-----------------------------------------------------------------------------
(* Registration and claims.                                                *)

LEMMA AloneRegister ==
    ASSUME TypeInv, SafeInv, Alone, Next, NEW r \in Reports, BeginRegister(r) \/ CommitRegister(r)
    PROVE  Alone'
<1>1. /\ status[r] \in {"absent", "inserting"}
      /\ UNCHANGED <<rowCount, errorCount, failureKind, staging, errors, applied, lock, pc, cur,
                     nextRow, stagingBatch, errorBatch, reading, seenErrors, faults>>
  BY DEF BeginRegister, CommitRegister, frames
<1>2. /\ status'[r] \in {"inserting", "pending"}
      /\ \A q \in Reports \ {r} : status'[q] = status[q] /\ file'[q] = file[q]
  BY DEF BeginRegister, CommitRegister, queue, TypeInv, TypeOK
<1>3. Exclusive'
  BY <1>1 DEF Alone, Exclusive
<1>4. ASSUME NEW v \in Workers PROVE WorkerOK(v)'
  <2>1. WorkerOK(v)
    BY DEF Alone
  <2>2. CASE pc[v] \in Loading \cup Checked \cup Claimed \cup HoldsRow \cup Failing
    <3>1. cur[v] \in Reports \ {r}
      BY <1>1, <2>2, PhaseHasReport DEF SafeInv, ReadOK, Terminal
    <3>2. UNCHANGED <<status[cur[v]], file[cur[v]]>>
      BY <1>1, <1>2, <3>1
    <3>3. LoadingOK(v) => LoadingOK(v)'
      BY <1>1, <3>2 DEF LoadingOK
    <3>4. CheckedOK(v) => CheckedOK(v)'
      BY <1>1, <3>2 DEF CheckedOK
    <3>5. ReadyForApply(cur[v]) => ReadyForApply(cur[v])'
      BY <1>1, <3>2 DEF ReadyForApply
    <3> QED
      BY <1>1, <2>1, <3>2, <3>3, <3>4, <3>5 DEF WorkerOK, NoFault
  <2>3. CASE pc[v] \notin Loading \cup Checked \cup Claimed \cup HoldsRow \cup Failing
    BY <1>1, <2>3 DEF WorkerOK
  <2> QED
    BY <2>2, <2>3
<1>5. ASSUME NEW q \in Reports PROVE ReportOK(q)'
  <2>1. ReportOK(q)
    BY DEF Alone
  <2>2. CASE q = r
    BY <1>1, <1>2, <2>1, <2>2 DEF ReportOK, Terminal
  <2>3. CASE q # r
    BY <1>1, <1>2, <2>1, <2>3 DEF ReportOK, NoFault
  <2> QED
    BY <2>2, <2>3
<1>6. NothingTwice'
  <2>1. ASSUME NEW i \in DOMAIN applied PROVE applied[i].report \in Reports \ {r}
    BY <1>1, AppliedTyped DEF SafeInv, CompletedExactlyOnce
  <2> QED
    BY <1>1, <1>2, <2>1 DEF Alone, NothingTwice
<1> QED
  BY <1>3, <1>4, <1>5, <1>6 DEF Alone

\* The claim of a report for its apply finds it as its validation left it.
LEMMA AloneClaimForApply ==
    ASSUME TypeInv, SafeInv, Alone, Next, NEW w \in Workers, ClaimForApply(w)
    PROVE  Alone'
<1>1. PICK r \in Reports : /\ status[r] = "processing" /\ ValidationIsComplete(r)
                           /\ ResetFrame(w, r)
  BY DEF ClaimForApply, Oldest
<1>2. /\ pc[w] = "claim" /\ pc[w] \in DOMAIN OnError /\ CommitThen(w, "chk_apply")
      /\ UNCHANGED <<queue, columns, staging, errors, applied, lock>>
  BY DEF ClaimForApply, OnError
<1>3. /\ \A v \in Workers \ {w} : pc'[v] = pc[v]
      /\ \/ pc'[w] = "chk_apply"
         \/ pc'[w] \in Failing \cup {"unlock"} /\ faults'["acklost"] # 0
  BY <1>2, CommitEnds
<1>4. lock = w /\ pc'[w] \notin {"idle", "down"}
  BY <1>2, <1>3, Holding DEF Failing
<1>5. WorkerOK(w)'
  <2>1. CASE pc'[w] = "chk_apply"
    <3>1. cur'[w] = r
      BY <1>1 DEF ResetFrame, TypeInv, TypeOK
    <3>2. ReadyForApply(r)'
      BY <1>1, <1>2 DEF ValidationIsComplete, ReadyForApply, columns
    <3>3. ReadyForApply(cur[w])'
      BY <3>1, <3>2 DEF ReadyForApply
    <3> QED
      BY <2>1, <3>3 DEF WorkerOK, Loading, Checked, Claimed, HoldsRow, Failing
  <2>2. CASE pc'[w] \in Failing \cup {"unlock"} /\ faults'["acklost"] # 0
    BY <2>2, FailingExcused
  <2> QED
    BY <1>3, <2>1, <2>2
<1> QED
  BY <1>2, <1>3, <1>4, <1>5, AloneQuiet

\* Any other claim removes what earlier attempts have left.
LEMMA AloneClaimForValidation ==
    ASSUME TypeInv, SafeInv, Alone, Next, NEW w \in Workers, ClaimForValidation(w)
    PROVE  Alone'
<1>1. PICK r \in Reports :
        /\ staging' = [staging EXCEPT ![r] = {}] /\ errors' = [errors EXCEPT ![r] = {}]
        /\ status' = [status EXCEPT ![r] = "processing"]
        /\ rowCount' = [rowCount EXCEPT ![r] = 0]
        /\ errorCount' = [errorCount EXCEPT ![r] = 0]
        /\ failureKind' = [failureKind EXCEPT ![r] = "none"]
        /\ ResetFrame(w, r) /\ status[r] \in Claimable
  BY DEF ClaimForValidation, Oldest
<1>2. /\ pc[w] = "claim" /\ pc[w] \in DOMAIN OnError /\ CommitThen(w, "chk_open")
      /\ UNCHANGED <<queue, applied, lock>>
  BY DEF ClaimForValidation, OnError
<1>3. /\ \A v \in Workers \ {w} : pc'[v] = pc[v]
      /\ \/ pc'[w] = "chk_open"
         \/ pc'[w] \in Failing \cup {"unlock"} /\ faults'["acklost"] # 0
  BY <1>2, CommitEnds
<1>4. lock = w /\ pc'[w] \notin {"idle", "down"}
  BY <1>2, <1>3, Holding DEF Failing
<1>5. UNCHANGED file
  BY <1>2 DEF queue
<1>6. /\ staging'[r] = {} /\ errors'[r] = {} /\ status'[r] = "processing" /\ rowCount'[r] = 0
      /\ failureKind'[r] = "none"
      /\ \A q \in Reports \ {r} :
           /\ status'[q] = status[q] /\ rowCount'[q] = rowCount[q]
           /\ errorCount'[q] = errorCount[q] /\ failureKind'[q] = failureKind[q]
           /\ file'[q] = file[q] /\ staging'[q] = staging[q] /\ errors'[q] = errors[q]
  BY <1>1, <1>5 DEF TypeInv, TypeOK
<1>7. /\ cur'[w] = r /\ nextRow'[w] = 1 /\ stagingBatch'[w] = {} /\ errorBatch'[w] = {}
      /\ reading'[w] = "reading"
  BY <1>1 DEF ResetFrame, TypeInv, TypeOK
<1>8. WorkerOK(w)'
  <2>1. CASE pc'[w] = "chk_open"
    <3>1. file[r] \in Seq(Records) /\ DOMAIN file[r] \subseteq Nat \ {0}
      BY DEF TypeInv, TypeOK
    <3>2. {i \in ValidLines(file[r]) : i < 1} = {} /\ IssuesRead(file[r], 1, "reading") = {}
      BY <3>1 DEF ValidLines, IssuesRead
    <3>3. Signed(w, {}) = {}
      BY DEF Signed
    <3>4. /\ staging'[r] \cup stagingBatch'[w] = {i \in ValidLines(file[r]) : i < 1}
          /\ staging'[r] \cap stagingBatch'[w] = {}
          /\ errors'[r] \cup Signed(w, errorBatch'[w]) = Signed(w, IssuesRead(file[r], 1, "reading"))
      <4>1. Signed(w, errorBatch'[w]) = {} /\ Signed(w, IssuesRead(file[r], 1, "reading")) = {}
        BY <1>7, <3>2, <3>3, Zenon
      <4> QED
        BY <1>6, <1>7, <3>2, <4>1
    <3>5. \A i \in 1 .. 1 - 1 : FALSE
      OBVIOUS
    <3>6. LoadingOK(w)'
      BY <1>5, <1>7, <2>1, <3>4, <3>5 DEF LoadingOK
    <3> QED
      BY <1>6, <1>7, <2>1, <3>6 DEF WorkerOK, Loading, Checked, Claimed, HoldsRow, Failing
  <2>2. CASE pc'[w] \in Failing \cup {"unlock"} /\ faults'["acklost"] # 0
    BY <2>2, FailingExcused
  <2> QED
    BY <1>3, <2>1, <2>2
<1>9. ReportOK(r)'
  BY <1>6 DEF ReportOK, Terminal
<1>10. NothingTwice'
  BY <1>2, <1>5 DEF Alone, NothingTwice
<1> QED
  BY <1>2, <1>3, <1>4, <1>6, <1>8, <1>9, <1>10, AloneFrame

-----------------------------------------------------------------------------
(* Cycle 1: reading and storing.                                           *)

\* After a flush, duplicates are looked for once nothing is left to write.
LEMMA FlushAtEnd ==
    ASSUME NEW sb, NEW eb, NEW rd
    PROVE  LET l == NextFlush(sb, eb, rd)
           IN  /\ l \in Loading \ {"insert_duplicates"}
               /\ l = "chk_duplicates" => sb = {} /\ eb = {} /\ rd # "reading"
BY DEF NextFlush, Loading

\* All of what is said of a worker that loads, at a label of this phase.
LEMMA LoadingIs ==
    ASSUME NEW w \in Workers, pc'[w] \in Loading, status'[cur'[w]] = "processing", LoadingOK(w)'
    PROVE  WorkerOK(w)'
BY DEF WorkerOK, Loading, Checked, Claimed, HoldsRow, Failing

LEMMA AloneOpen ==
    ASSUME TypeInv, SafeInv, Alone, Next, NEW w \in Workers, OpenOriginal(w)
    PROVE  Alone'
<1>1. /\ pc[w] = "open" /\ pc[w] \in Loading
      /\ UNCHANGED <<queue, columns, staging, errors, applied, lock, frames>>
  BY DEF OpenOriginal, Loading
<1>2. /\ pc'[w] = "read" /\ "read" \in Loading /\ \A v \in Workers \ {w} : pc'[v] = pc[v]
      /\ "read" \notin {"idle", "down", "chk_duplicates", "insert_duplicates"}
  BY DEF OpenOriginal, Goto, TypeInv, TypeOK, Loading
<1>3. UNCHANGED <<status, file, cur, nextRow, stagingBatch, errorBatch, reading>>
  BY <1>1 DEF queue, columns, frames
<1>4. LoadingOK(w) /\ status[cur[w]] = "processing"
  BY <1>1 DEF Alone, WorkerOK
<1>5. LoadingOK(w)'
  BY <1>1, <1>2, <1>3, <1>4 DEF LoadingOK
<1>6. WorkerOK(w)'
  BY <1>2, <1>3, <1>4, <1>5, LoadingIs
<1>7. lock = w
  BY <1>1, Holding
<1> QED
  BY <1>1, <1>2, <1>6, <1>7, AloneQuiet

\* One record more.
LEMMA IssuesOfNext ==
    ASSUME NEW f \in Seq(Records), NEW i \in DOMAIN f, NEW rd
    PROVE  /\ IssuesRead(f, i + 1, rd) =
                IssuesRead(f, i, "reading") \cup (IF f[i] \in Pairs THEN {} ELSE {<<i, "row">>})
           /\ {j \in ValidLines(f) : j < i + 1} =
                {j \in ValidLines(f) : j < i} \cup (IF f[i] \in Pairs THEN {i} ELSE {})
           /\ IssuesRead(f, i, "reading") \subseteq Nat \X Codes
<1>1. DOMAIN f \subseteq Nat /\ f # <<>>
  BY FileOf
<1>2. {j \in DOMAIN f : j < i + 1 /\ f[j] \notin Pairs} =
      {j \in DOMAIN f : j < i /\ f[j] \notin Pairs} \cup (IF f[i] \in Pairs THEN {} ELSE {i})
  BY <1>1
<1>3. \A n, r : IssuesRead(f, n, r) = {<<k, "row">> : k \in {j \in DOMAIN f : j < n /\ f[j] \notin Pairs}}
  BY <1>1 DEF IssuesRead
<1>4. {j \in ValidLines(f) : j < i + 1} =
        {j \in ValidLines(f) : j < i} \cup (IF f[i] \in Pairs THEN {i} ELSE {})
  BY <1>1 DEF ValidLines
<1> QED
  BY <1>1, <1>2, <1>3, <1>4 DEF Codes

LEMMA AloneReadRow ==
    ASSUME TypeInv, SafeInv, Alone, Next, NEW w \in Workers, ReadRow(w)
    PROVE  Alone'
<1>1. /\ pc[w] = "read" /\ pc[w] \in Loading
      /\ UNCHANGED <<queue, columns, staging, errors, applied, lock, cur>>
  BY DEF ReadRow, Loading
<1> DEFINE r == cur[w]
           f == file[r]
           i == nextRow[w]
           sb == stagingBatch'[w]
           eb == errorBatch'[w]
           rd == reading'[w]
<1>2. /\ r \in Reports /\ f \in Seq(Records) /\ reading[w] = "reading"
      /\ i \in Nat \ {0} /\ i <= Len(f)
      /\ errorBatch[w] \subseteq Nat \X Codes
  BY <1>1, PhaseHasReport DEF ReadRow, SafeInv, ReadOK, TypeInv, TypeOK
<1>3. /\ nextRow'[w] = i + 1
      /\ sb = stagingBatch[w] \cup (IF f[i] \in Pairs THEN {i} ELSE {})
      /\ eb = errorBatch[w] \cup (IF f[i] \in Pairs THEN {} ELSE {<<i, "row">>})
      /\ rd = IF f[i] = Malformed THEN "stopped" ELSE "reading"
      /\ pc'[w] = NextFlush(sb, eb, rd)
      /\ \A v \in Workers \ {w} : pc'[v] = pc[v]
      /\ UNCHANGED <<status, file>>
  BY <1>1, <1>2 DEF ReadRow, Goto, TypeInv, TypeOK, queue, columns
<1>4. LoadingOK(w) /\ status[r] = "processing" /\ lock = w
  BY <1>1, Holding DEF Alone, WorkerOK, Loading
<1>5. i \in DOMAIN f /\ f[i] \in Pairs \cup {Bad, Malformed}
  BY <1>2, FileOf
<1>6. pc'[w] \in Loading \ {"insert_duplicates"}
      /\ (pc'[w] = "chk_duplicates" => sb = {} /\ eb = {} /\ rd # "reading")
  BY <1>3, FlushAtEnd
<1> HIDE DEF f, i, r, sb, eb, rd
<1>7. staging[r] \cup sb = {j \in ValidLines(f) : j < i + 1} /\ staging[r] \cap sb = {}
  <2>1. staging[r] \cup stagingBatch[w] = {j \in ValidLines(f) : j < i}
        /\ staging[r] \cap stagingBatch[w] = {}
    BY <1>4 DEF LoadingOK, r, f, i
  <2>2. i \notin staging[r]
    BY <1>2, <2>1
  <2> QED
    BY <1>3, <1>5, <2>1, <2>2, IssuesOfNext, <1>2
<1>8. errors[r] \cup Signed(w, eb) = Signed(w, IssuesRead(f, i + 1, rd))
  <2> DEFINE new == IF f[i] \in Pairs THEN {} ELSE {<<i, "row">>}
  <2>1. errors[r] \cup Signed(w, errorBatch[w]) = Signed(w, IssuesRead(f, i, "reading"))
    BY <1>2, <1>4 DEF LoadingOK, r, f, i
  <2>2. new \subseteq Nat \X Codes
    BY <1>2 DEF Codes
  <2>3. Signed(w, eb) = Signed(w, errorBatch[w]) \cup Signed(w, new)
    BY <1>2, <1>3, <2>2, SignedIs
  <2>4. Signed(w, IssuesRead(f, i + 1, rd)) = Signed(w, IssuesRead(f, i, "reading")) \cup Signed(w, new)
    <3>1. IssuesRead(f, i + 1, rd) = IssuesRead(f, i, "reading") \cup new
          /\ IssuesRead(f, i, "reading") \subseteq Nat \X Codes
      BY <1>2, <1>5, IssuesOfNext
    <3> HIDE DEF new
    <3> QED
      BY <2>2, <3>1, SignedIs
  <2> QED
    BY <2>1, <2>3, <2>4
<1>9. /\ \A j \in 1 .. i : f[j] = Malformed => j = i /\ rd = "stopped"
      /\ rd = "stopped" => i + 1 > 1 /\ f[i] = Malformed
  <2>1. \A j \in 1 .. i - 1 : f[j] # Malformed
    BY <1>2, <1>4 DEF LoadingOK, r, f, i
  <2> QED
    BY <1>2, <1>3, <2>1
<1>10. nextRow'[w] - 1 = i
  BY <1>2, <1>3
<1>11. LoadingOK(w)'
  <2>1. /\ cur'[w] = r /\ file'[cur'[w]] = f /\ staging'[cur'[w]] = staging[r]
        /\ errors'[cur'[w]] = errors[r] /\ nextRow'[w] = i + 1
    BY <1>1, <1>3 DEF r, f
  <2> QED
    BY <1>6, <1>7, <1>8, <1>9, <1>10, <2>1 DEF LoadingOK, sb, eb, rd
<1>12. WorkerOK(w)'
  BY <1>1, <1>3, <1>4, <1>6, <1>11, LoadingIs DEF r
<1>13. pc'[w] \notin {"idle", "down"}
  BY <1>6 DEF Loading
<1> QED
  BY <1>1, <1>3, <1>4, <1>12, <1>13, AloneQuiet

LEMMA AloneEndOfFile ==
    ASSUME TypeInv, SafeInv, Alone, Next, NEW w \in Workers, EndOfFile(w)
    PROVE  Alone'
<1>1. /\ pc[w] = "read" /\ pc[w] \in Loading
      /\ UNCHANGED <<queue, columns, staging, errors, applied, lock, cur, nextRow, stagingBatch>>
  BY DEF EndOfFile, Loading
<1> DEFINE r == cur[w]
           f == file[r]
           n == nextRow[w]
           eb == errorBatch'[w]
<1>2. /\ r \in Reports /\ f \in Seq(Records) /\ reading[w] = "reading" /\ n \in Nat \ {0}
      /\ f = <<>> => n = 1
  <2>1. /\ r \in Reports /\ f \in Seq(Records) /\ reading[w] = "reading" /\ n \in Nat \ {0}
        /\ n <= Len(f) + 1
    BY <1>1, PhaseHasReport DEF SafeInv, ReadOK
  <2> QED
    BY <2>1, FileOf
<1>3. /\ eb = (IF f = <<>> THEN {<<0, "file">>} ELSE errorBatch[w])
      /\ reading'[w] = "eof"
      /\ pc'[w] = NextFlush(stagingBatch[w], eb, "eof")
      /\ \A v \in Workers \ {w} : pc'[v] = pc[v]
      /\ UNCHANGED <<status, file>>
  BY <1>1, <1>2 DEF EndOfFile, Goto, TypeInv, TypeOK, queue, columns
<1>4. LoadingOK(w) /\ status[r] = "processing" /\ lock = w
  BY <1>1, Holding DEF Alone, WorkerOK, Loading
<1>5. pc'[w] \in Loading \ {"insert_duplicates"}
      /\ (pc'[w] = "chk_duplicates" => stagingBatch[w] = {} /\ eb = {})
  BY <1>3, FlushAtEnd
<1> HIDE DEF f, n, r, eb
<1>6. errors[r] \cup Signed(w, eb) = Signed(w, IssuesRead(f, n, "eof"))
  <2>1. errors[r] \cup Signed(w, errorBatch[w]) = Signed(w, IssuesRead(f, n, "reading"))
    BY <1>2, <1>4 DEF LoadingOK, r, f, n
  <2>2. CASE f = <<>>
    <3>1. {j \in DOMAIN f : j < n /\ f[j] \notin Pairs} = {}
      BY <2>2
    <3>2. IssuesRead(f, n, "reading") = {} /\ IssuesRead(f, n, "eof") = {<<0, "file">>}
      BY <2>2, <3>1 DEF IssuesRead
    <3>3. Signed(w, IssuesRead(f, n, "reading")) = {}
      BY <3>2 DEF Signed
    <3>4. errors[r] = {}
      BY <2>1, <3>3
    <3> QED
      BY <1>3, <2>2, <3>2, <3>4
  <2>3. CASE f # <<>>
    <3>1. IssuesRead(f, n, "reading") = IssuesRead(f, n, "eof")
      BY <2>3 DEF IssuesRead
    <3> QED
      BY <1>3, <2>1, <2>3, <3>1
  <2> QED
    BY <2>2, <2>3
<1>7. LoadingOK(w)'
  <2>1. /\ cur'[w] = r /\ file'[cur'[w]] = f /\ staging'[cur'[w]] = staging[r]
        /\ errors'[cur'[w]] = errors[r] /\ nextRow'[w] = n /\ stagingBatch'[w] = stagingBatch[w]
    BY <1>1, <1>3 DEF r, f, n
  <2>2. /\ staging[r] \cup stagingBatch[w] = {j \in ValidLines(f) : j < n}
        /\ staging[r] \cap stagingBatch[w] = {}
        /\ \A j \in 1 .. n - 1 : f[j] # Malformed
    BY <1>2, <1>4 DEF LoadingOK, r, f, n
  <2> QED
    BY <1>3, <1>5, <1>6, <2>1, <2>2 DEF LoadingOK, eb
<1>8. WorkerOK(w)'
  BY <1>1, <1>3, <1>4, <1>5, <1>7, LoadingIs DEF r
<1>9. pc'[w] \notin {"idle", "down"}
  BY <1>5 DEF Loading
<1> QED
  BY <1>1, <1>3, <1>4, <1>8, <1>9, AloneQuiet

\* A report in processing: the other parts of ReportOK are about terminal ones.
LEMMA ProcessingIs ==
    ASSUME NEW r \in Reports, status'[r] = "processing", failureKind'[r] = "none",
           rowCount'[r] > 0 => IsValidFile(file'[r])
    PROVE  ReportOK(r)'
BY DEF ReportOK, Terminal

\* The steps that write while the file is read share this.
LEMMA WritingFrame ==
    ASSUME TypeInv, SafeInv, Alone, Next, NEW w \in Workers,
           pc[w] \in Loading \cup Checked, lock' = w, pc'[w] \notin {"idle", "down"},
           \A v \in Workers \ {w} : pc'[v] = pc[v],
           UNCHANGED <<queue, columns, applied>>,
           \A q \in Reports \ {cur[w]} : staging'[q] = staging[q] /\ errors'[q] = errors[q],
           WorkerOK(w)'
    PROVE  Alone'
<1>0. cur[w] \in Reports /\ status[cur[w]] = "processing" /\ pc[w] \notin {"idle", "down"}
  BY PhaseHasReport, AtWorkIsProcessing
<1>1. PICK r \in Reports : r = cur[w] /\ status[r] = "processing"
  BY <1>0
<1>2. UNCHANGED <<status, rowCount, errorCount, failureKind, file, applied>>
  BY DEF queue, columns
<1>3. ReportOK(r)
  BY <1>1 DEF Alone
<1>4. ReportOK(r)'
  BY <1>1, <1>2, <1>3, ProcessingIs DEF ReportOK
<1>5. NothingTwice'
  BY <1>2 DEF Alone, NothingTwice
<1>6. lock = w
  BY <1>0, Holding
<1> QED
  BY <1>1, <1>2, <1>4, <1>5, <1>6, AloneFrame

LEMMA AloneWriteStaging ==
    ASSUME TypeInv, SafeInv, Alone, Next, NEW w \in Workers, WriteStaging(w)
    PROVE  Alone'
<1> DEFINE r == cur[w]
           next == NextFlush({}, errorBatch[w], reading[w])
<1>1. /\ pc[w] = "write_staging" /\ pc[w] \in Loading /\ pc[w] \in DOMAIN OnError
      /\ staging' = [staging EXCEPT ![r] = @ \cup stagingBatch[w]]
      /\ stagingBatch' = [stagingBatch EXCEPT ![w] = {}]
      /\ CommitThen(w, next)
      /\ UNCHANGED <<queue, columns, errors, applied, lock, cur, nextRow, errorBatch, reading>>
  BY DEF WriteStaging, Loading, OnError
<1>2. /\ next \in Loading \ {"insert_duplicates"}
      /\ next = "chk_duplicates" => errorBatch[w] = {} /\ reading[w] # "reading"
  BY FlushAtEnd
<1> HIDE DEF next
<1>3. /\ r \in Reports /\ LoadingOK(w) /\ status[r] = "processing" /\ lock = w
  BY <1>1, PhaseHasReport, Holding DEF Alone, WorkerOK
<1>4. /\ staging'[r] = staging[r] \cup stagingBatch[w] /\ stagingBatch'[w] = {}
      /\ \A q \in Reports \ {r} : staging'[q] = staging[q]
      /\ UNCHANGED <<status, file>>
  BY <1>1, <1>3 DEF TypeInv, TypeOK, queue, columns
<1>5. /\ \A v \in Workers \ {w} : pc'[v] = pc[v]
      /\ pc'[w] = next \/ (pc'[w] \in Failing \cup {"unlock"} /\ faults'["acklost"] # 0)
  BY <1>1, CommitEnds
<1>6. ASSUME pc'[w] = next PROVE WorkerOK(w)'
  <2>1. LoadingOK(w)'
    BY <1>1, <1>2, <1>3, <1>4, <1>6 DEF LoadingOK
  <2> QED
    BY <1>1, <1>2, <1>3, <1>4, <1>6, <2>1, LoadingIs
<1>7. WorkerOK(w)'
  BY <1>5, <1>6, FailingExcused
<1>8. pc'[w] \notin {"idle", "down"}
  BY <1>2, <1>5 DEF Loading, Failing
<1> QED
  BY <1>1, <1>3, <1>4, <1>5, <1>7, <1>8, WritingFrame

LEMMA AloneWriteErrors ==
    ASSUME TypeInv, SafeInv, Alone, Next, NEW w \in Workers, WriteErrors(w)
    PROVE  Alone'
<1> DEFINE r == cur[w]
           next == NextFlush(stagingBatch[w], {}, reading[w])
<1>1. /\ pc[w] = "write_errors" /\ pc[w] \in Loading /\ pc[w] \in DOMAIN OnError
      /\ errors' = [errors EXCEPT ![r] = @ \cup Signed(w, errorBatch[w])]
      /\ errorBatch' = [errorBatch EXCEPT ![w] = {}]
      /\ CommitThen(w, next)
      /\ UNCHANGED <<queue, columns, staging, applied, lock, cur, nextRow, stagingBatch, reading>>
  BY DEF WriteErrors, Loading, OnError
<1>2. /\ next \in Loading \ {"insert_duplicates"}
      /\ next = "chk_duplicates" => stagingBatch[w] = {} /\ reading[w] # "reading"
  BY FlushAtEnd
<1> HIDE DEF next
<1>3. /\ r \in Reports /\ LoadingOK(w) /\ status[r] = "processing" /\ lock = w
  BY <1>1, PhaseHasReport, Holding DEF Alone, WorkerOK
<1>4. /\ errors'[r] = errors[r] \cup Signed(w, errorBatch[w]) /\ errorBatch'[w] = {}
      /\ \A q \in Reports \ {r} : errors'[q] = errors[q]
      /\ UNCHANGED <<status, file>>
  BY <1>1, <1>3 DEF TypeInv, TypeOK, queue, columns
<1>5. /\ \A v \in Workers \ {w} : pc'[v] = pc[v]
      /\ pc'[w] = next \/ (pc'[w] \in Failing \cup {"unlock"} /\ faults'["acklost"] # 0)
  BY <1>1, CommitEnds
<1>6. ASSUME pc'[w] = next PROVE WorkerOK(w)'
  <2>1. errors'[r] \cup Signed(w, errorBatch'[w]) =
        Signed(w, IssuesRead(file[r], nextRow[w], reading[w]))
    <3>1. Signed(w, errorBatch'[w]) = {}
      BY <1>4 DEF Signed
    <3> QED
      BY <1>3, <1>4, <3>1 DEF LoadingOK
  <2>2. LoadingOK(w)'
    BY <1>1, <1>2, <1>3, <1>4, <1>6, <2>1 DEF LoadingOK
  <2> QED
    BY <1>1, <1>2, <1>3, <1>4, <1>6, <2>2, LoadingIs
<1>7. WorkerOK(w)'
  BY <1>5, <1>6, FailingExcused
<1>8. pc'[w] \notin {"idle", "down"}
  BY <1>2, <1>5 DEF Loading, Failing
<1> QED
  BY <1>1, <1>3, <1>4, <1>5, <1>7, <1>8, WritingFrame

\* With the duplicates the errors are complete.
LEMMA AloneInsertDuplicates ==
    ASSUME TypeInv, SafeInv, Alone, Next, NEW w \in Workers, InsertDuplicateErrors(w)
    PROVE  Alone'
<1> DEFINE r == cur[w]
           f == file[r]
           n == nextRow[w]
           rd == reading[w]
           D == DuplicateLines(f, staging[r])
<1>1. /\ pc[w] = "insert_duplicates" /\ pc[w] \in Loading /\ pc[w] \in DOMAIN OnError
      /\ errors' = [errors EXCEPT ![r] = @ \cup Signed(w, D \X {"duplicate"})]
      /\ CommitThen(w, "chk_count")
      /\ UNCHANGED <<queue, columns, staging, applied, lock, frames>>
  BY DEF InsertDuplicateErrors, Loading, OnError
<1>2. /\ r \in Reports /\ LoadingOK(w) /\ status[r] = "processing" /\ lock = w
      /\ f \in Seq(Records) /\ n \in Nat \ {0} /\ n <= Len(f) + 1
      /\ rd \in {"reading", "eof", "stopped"} /\ (rd = "eof" => n = Len(f) + 1)
  BY <1>1, PhaseHasReport, Holding DEF Alone, WorkerOK
<1>3. /\ errors'[r] = errors[r] \cup Signed(w, D \X {"duplicate"})
      /\ \A q \in Reports \ {r} : errors'[q] = errors[q]
      /\ UNCHANGED <<status, file, cur, nextRow, reading>>
  BY <1>1, <1>2 DEF TypeInv, TypeOK, queue, columns, frames
<1>4. /\ \A v \in Workers \ {w} : pc'[v] = pc[v]
      /\ pc'[w] = "chk_count" \/ (pc'[w] \in Failing \cup {"unlock"} /\ faults'["acklost"] # 0)
  BY <1>1, CommitEnds
<1>5. /\ staging[r] = {i \in ValidLines(f) : i < n}
      /\ errors[r] = Signed(w, IssuesRead(f, n, rd))
      /\ \A i \in 1 .. n - 1 : f[i] = Malformed => i = n - 1 /\ rd = "stopped"
      /\ rd = "stopped" => n > 1 /\ f[n - 1] = Malformed
      /\ rd \in {"eof", "stopped"}
  <2>1. stagingBatch[w] = {} /\ errorBatch[w] = {} /\ rd # "reading"
    BY <1>1, <1>2 DEF LoadingOK
  <2>2. Signed(w, errorBatch[w]) = {}
    BY <2>1 DEF Signed
  <2> QED
    BY <1>2, <2>1, <2>2 DEF LoadingOK
<1> HIDE DEF f, n, rd, D, r
<1>6. /\ LinesRead(f) = {i \in DOMAIN f : i < n}
      /\ rd = "eof" => LinesRead(f) = DOMAIN f
      /\ rd = "stopped" => ~IsValidFile(f)
  BY <1>2, <1>5, ReadingEnds
<1>7. Problems(f) = IssuesRead(f, n, rd) \cup (D \X {"duplicate"})
  BY <1>2, <1>5, <1>6, ProblemsFound DEF D
<1>8. errors'[r] = Signed(w, Problems(f))
  <2>1. Problems(f) \subseteq Nat \X Codes
    BY <1>2, FileOf
  <2>2. IssuesRead(f, n, rd) \subseteq Nat \X Codes /\ (D \X {"duplicate"}) \subseteq Nat \X Codes
    BY <1>7, <2>1
  <2>3. Signed(w, Problems(f)) = Signed(w, IssuesRead(f, n, rd)) \cup Signed(w, D \X {"duplicate"})
    <3> DEFINE A == IssuesRead(f, n, rd)
               B == D \X {"duplicate"}
    <3>1. A \subseteq Nat \X Codes /\ B \subseteq Nat \X Codes /\ Problems(f) = A \cup B
      BY <1>7, <2>2
    <3> HIDE DEF A, B
    <3>2. Signed(w, Problems(f)) = Signed(w, A) \cup Signed(w, B)
      BY <3>1, SignedIs
    <3> QED
      BY <3>2 DEF A, B
  <2> QED
    BY <1>3, <1>5, <2>3, Zenon
<1>9. ASSUME pc'[w] = "chk_count" PROVE WorkerOK(w)'
  <2>1. cur'[w] = r /\ file'[cur'[w]] = f /\ reading'[w] = rd
    BY <1>3 DEF r, f, rd
  <2>2. CheckedOK(w)'
    BY <1>5, <1>6, <1>8, <1>9, <2>1 DEF CheckedOK
  <2> QED
    BY <1>2, <1>3, <1>9, <2>1, <2>2 DEF WorkerOK, Loading, Checked, Claimed, HoldsRow, Failing
<1>10. WorkerOK(w)'
  BY <1>4, <1>9, FailingExcused
<1>11. pc'[w] \notin {"idle", "down"}
  BY <1>4 DEF Failing
<1> QED
  BY <1>1, <1>2, <1>3, <1>4, <1>10, <1>11, WritingFrame DEF r

\* The count decides, and it decides rightly.
LEMMA AloneCount ==
    ASSUME TypeInv, SafeInv, Alone, Next, NEW w \in Workers, CountErrors(w)
    PROVE  Alone'
<1> DEFINE r == cur[w]
           f == file[r]
           n == Cardinality(errors[r])
<1>1. /\ pc[w] = "count_errors" /\ pc[w] \in Checked
      /\ UNCHANGED <<queue, columns, staging, errors, applied, lock, cur, nextRow, reading>>
      /\ seenErrors' = [seenErrors EXCEPT ![w] = n]
      /\ \/ n > 0 /\ Goto(w, "chk_finalize")
         \/ n = 0 /\ (reading[w] # "eof" \/ RowsRead(w) = 0) /\ Goto(w, "chk_failed")
         \/ n = 0 /\ reading[w] = "eof" /\ RowsRead(w) > 0 /\ Goto(w, "chk_validated")
  BY DEF CountErrors, Checked, OnError
<1>2. /\ r \in Reports /\ CheckedOK(w) /\ status[r] = "processing" /\ lock = w
      /\ f \in Seq(Records) /\ (reading[w] = "eof" => nextRow[w] = Len(f) + 1)
  BY <1>1, PhaseHasReport, Holding DEF Alone, WorkerOK
<1>3. n \in Nat /\ (n = 0 <=> errors[r] = {})
  BY <1>2, FS_CardinalityType, FS_EmptySet DEF TypeInv, Finite
<1>4. /\ \A v \in Workers \ {w} : pc'[v] = pc[v]
      /\ seenErrors'[w] = n
      /\ \/ n > 0 /\ pc'[w] = "chk_finalize"
         \/ n = 0 /\ (reading[w] # "eof" \/ RowsRead(w) = 0) /\ pc'[w] = "chk_failed"
         \/ n = 0 /\ pc'[w] = "chk_validated"
      /\ UNCHANGED <<status, file, cur, errors, reading>>
  BY <1>1 DEF Goto, TypeInv, TypeOK, queue, columns
<1>5. /\ errors[r] = Signed(w, Problems(f))
      /\ reading[w] = "eof" => LinesRead(f) = DOMAIN f
      /\ reading[w] # "eof" => ~IsValidFile(f)
  BY <1>2 DEF CheckedOK
<1> HIDE DEF n, f, r
<1>6. reading[w] # "eof" \/ RowsRead(w) = 0 => ~IsValidFile(f)
  <2>1. ASSUME reading[w] = "eof", RowsRead(w) = 0 PROVE f = <<>>
    BY <1>2, <2>1, FileOf DEF RowsRead
  <2> QED
    BY <1>5, <2>1 DEF IsValidFile
<1>7. CASE pc'[w] = "chk_failed"
  <2>1. WorkerOK(w)'
    BY <1>2, <1>3, <1>4, <1>6, <1>7 DEF WorkerOK, Loading, Checked, Claimed, HoldsRow, Failing, r, f
  <2> QED
    BY <1>1, <1>2, <1>4, <1>7, <2>1, AloneQuiet
<1>8. CASE pc'[w] # "chk_failed"
  <2>1. CheckedOK(w)'
    <3>1. cur'[w] = r /\ file'[cur'[w]] = f /\ errors'[cur'[w]] = errors[r]
      BY <1>4 DEF r, f
    <3> QED
      BY <1>3, <1>4, <1>5, <1>8, <3>1 DEF CheckedOK, n
  <2>2. WorkerOK(w)'
    BY <1>2, <1>4, <1>8, <2>1 DEF WorkerOK, Loading, Checked, Claimed, HoldsRow, Failing, r
  <2> QED
    BY <1>1, <1>2, <1>4, <1>8, <2>2, AloneQuiet
<1> QED
  BY <1>7, <1>8

-----------------------------------------------------------------------------
(* The transactions that end a cycle, and the apply.                       *)

\* The worker goes to unlock; one report has changed.
LEMMA AloneEnd ==
    ASSUME TypeInv, Alone, Next, NEW w \in Workers, NEW r \in Reports,
           pc[w] \in DOMAIN OnError, CommitThen(w, "unlock"), UNCHANGED <<queue, lock>>,
           \A q \in Reports \ {r} :
              /\ status'[q] = status[q] /\ rowCount'[q] = rowCount[q]
              /\ errorCount'[q] = errorCount[q] /\ failureKind'[q] = failureKind[q]
              /\ staging'[q] = staging[q] /\ errors'[q] = errors[q],
           ReportOK(r)', NothingTwice'
    PROVE  Alone'
<1>1. /\ \A v \in Workers \ {w} : pc'[v] = pc[v]
      /\ pc'[w] = "unlock" \/ (pc'[w] \in Failing \cup {"unlock"} /\ faults'["acklost"] # 0)
  BY CommitEnds
<1>2. lock = w /\ lock' = w /\ pc'[w] \notin {"idle", "down"}
  BY <1>1, ErrorPhases, Holding DEF Failing
<1>3. WorkerOK(w)'
  BY <1>1, OutOfCycle, FailingExcused
<1>4. \A q \in Reports \ {r} : file'[q] = file[q]
  BY DEF queue
<1> QED
  BY <1>1, <1>2, <1>3, <1>4, AloneFrame

LEMMA AloneFinalize ==
    ASSUME TypeInv, SafeInv, Alone, Next, NEW w \in Workers, FinalizeValidationFailure(w)
    PROVE  Alone'
<1>1. /\ pc[w] = "finalize" /\ pc[w] \in Checked /\ pc[w] \in DOMAIN OnError
      /\ staging' = [staging EXCEPT ![cur[w]] = {}]
      /\ UpdateProcessing(cur[w], "failed", RowsRead(w), seenErrors[w], "validation")
      /\ CommitThen(w, "unlock")
      /\ UNCHANGED <<queue, errors, applied, lock>>
  BY DEF FinalizeValidationFailure, Checked, OnError
<1>2. /\ cur[w] \in Reports /\ file[cur[w]] \in Seq(Records)
      /\ CheckedOK(w) /\ status[cur[w]] = "processing"
  BY <1>1, PhaseHasReport DEF Alone, WorkerOK
<1>3. PICK r \in Reports : r = cur[w]
  BY <1>2
<1>4. UNCHANGED <<file, errors, applied>>
  BY <1>1 DEF queue
<1>5. /\ status'[r] = "failed" /\ errorCount'[r] = seenErrors[w] /\ failureKind'[r] = "validation"
      /\ staging'[r] = {}
      /\ \A q \in Reports \ {r} :
           /\ status'[q] = status[q] /\ rowCount'[q] = rowCount[q]
           /\ errorCount'[q] = errorCount[q] /\ failureKind'[q] = failureKind[q]
           /\ staging'[q] = staging[q] /\ errors'[q] = errors[q]
  BY <1>1, <1>2, <1>3, <1>4 DEF UpdateProcessing, TypeInv, TypeOK
<1>6. /\ errors[r] = Signed(w, Problems(file[r])) /\ errors[r] # {}
      /\ seenErrors[w] = Cardinality(errors[r])
  BY <1>1, <1>2, <1>3 DEF CheckedOK
<1>7. Cardinality(errors[r]) \in Nat \ {0}
  BY <1>6, FS_CardinalityType, FS_EmptySet DEF TypeInv, Finite
<1>8. ~IsValidFile(file[r])
  <2>1. Problems(file[r]) # {}
    BY <1>6 DEF Signed
  <2> QED
    BY <1>2, <1>3, <2>1, ValidHasNoProblem
<1>9. ReportOK(r)'
  BY <1>4, <1>5, <1>6, <1>7, <1>8 DEF ReportOK, Terminal
<1>10. NothingTwice'
  BY <1>4 DEF Alone, NothingTwice
<1> QED
  BY <1>1, <1>5, <1>9, <1>10, AloneEnd

\* A file read to its end without a problem is valid.
LEMMA AloneMarkValidated ==
    ASSUME TypeInv, SafeInv, Alone, Next, NEW w \in Workers, MarkValidated(w)
    PROVE  Alone'
<1>1. /\ pc[w] = "mark_validated" /\ pc[w] \in Checked /\ pc[w] \in DOMAIN OnError
      /\ UpdateProcessing(cur[w], "processing", RowsRead(w), 0, failureKind[cur[w]])
      /\ CommitThen(w, "unlock")
      /\ UNCHANGED <<queue, staging, errors, applied, lock>>
  BY DEF MarkValidated, Checked, OnError
<1>2. /\ cur[w] \in Reports /\ file[cur[w]] \in Seq(Records)
      /\ CheckedOK(w) /\ status[cur[w]] = "processing" /\ reading[w] = "eof"
  BY <1>1, PhaseHasReport DEF Alone, WorkerOK, SafeInv, ReadOK
<1>3. PICK r \in Reports : r = cur[w]
  BY <1>2
<1>4. UNCHANGED <<file, staging, errors, applied>>
  BY <1>1 DEF queue
<1>5. /\ status'[r] = "processing" /\ failureKind'[r] = failureKind[r]
      /\ \A q \in Reports \ {r} :
           /\ status'[q] = status[q] /\ rowCount'[q] = rowCount[q]
           /\ errorCount'[q] = errorCount[q] /\ failureKind'[q] = failureKind[q]
           /\ staging'[q] = staging[q] /\ errors'[q] = errors[q]
  BY <1>1, <1>2, <1>3, <1>4 DEF UpdateProcessing, TypeInv, TypeOK
<1>6. IsValidFile(file[r])
  <2>1. LinesRead(file[r]) = DOMAIN file[r] /\ Signed(w, Problems(file[r])) = {}
    BY <1>1, <1>2, <1>3 DEF CheckedOK
  <2>2. Problems(file[r]) = {}
    BY <2>1 DEF Signed
  <2> QED
    BY <1>2, <1>3, <2>1, <2>2, ValidHasNoProblem
<1>7. failureKind[r] = "none"
  BY <1>2, <1>3 DEF Alone, ReportOK
<1>8. ReportOK(r)'
  BY <1>4, <1>5, <1>6, <1>7, ProcessingIs
<1>9. NothingTwice'
  BY <1>4 DEF Alone, NothingTwice
<1> QED
  BY <1>1, <1>5, <1>8, <1>9, AloneEnd

\* Recording a failure.  After a lost answer the report may have ended already:
\* then its columns stay and only the number of stored errors grows.
LEMMA AloneMarkFailed ==
    ASSUME TypeInv, SafeInv, Alone, Next, NEW w \in Workers,
           MarkProcessingFailed(w) \/ MarkApplyFailed(w)
    PROVE  Alone'
<1>1. /\ pc[w] \in {"mark_processing_failed", "mark_apply_failed"}
      /\ \E code : MarkFailed(w, code)
  BY DEF MarkProcessingFailed, MarkApplyFailed
<1>2. pc[w] \in Failing /\ pc[w] \in DOMAIN OnError
  BY <1>1 DEF Failing, OnError
<1>3. PICK r \in Reports : r = cur[w]
  BY <1>2, PhaseHasReport
<1>4. PICK code :
        /\ staging' = [staging EXCEPT ![r] = {}]
        /\ errors' = [errors EXCEPT ![r] = @ \cup {<<0, code, w>>}]
        /\ UpdateProcessing(r, "failed", rowCount[r], Cardinality(errors'[r]), "processing")
        /\ CommitThen(w, "unlock")
        /\ UNCHANGED <<queue, applied, lock>>
  BY <1>1, <1>3 DEF MarkFailed
<1>5. UNCHANGED <<file, applied>>
  BY <1>4 DEF queue
<1>6. /\ staging'[r] = {} /\ errors'[r] = errors[r] \cup {<<0, code, w>>}
      /\ \A q \in Reports \ {r} : staging'[q] = staging[q] /\ errors'[q] = errors[q]
  BY <1>4 DEF TypeInv, TypeOK
<1>7. /\ Cardinality(errors'[r]) \in Nat \ {0}
      /\ Cardinality(errors[r]) \in Nat /\ Cardinality(errors[r]) <= Cardinality(errors'[r])
  <2>1. IsFiniteSet(errors[r])
    BY DEF TypeInv, Finite
  <2>2. IsFiniteSet(errors'[r])
    BY <1>6, <2>1, FS_AddElement
  <2>3. errors'[r] # {} /\ errors[r] \subseteq errors'[r]
    BY <1>6
  <2> QED
    BY <2>1, <2>2, <2>3, FS_CardinalityType, FS_EmptySet, FS_Subset
<1>8. /\ NoFault({"acklost"})' => status[r] = "processing"
      /\ NoFault(FaultKinds \ {"crash"})' => ~IsValidFile(file[r])
      /\ NoFault(FaultKinds \ {"crash"})' => NoFault(FaultKinds \ {"crash"})
  BY <1>2, <1>3, FaultsGrow DEF Alone, WorkerOK, FaultKinds
<1>9. NothingTwice'
  BY <1>5 DEF Alone, NothingTwice
<1>10. CASE status[r] = "processing"
  <2>1. /\ status'[r] = "failed" /\ errorCount'[r] = Cardinality(errors'[r])
        /\ failureKind'[r] = "processing"
        /\ \A q \in Reports \ {r} :
             /\ status'[q] = status[q] /\ rowCount'[q] = rowCount[q]
             /\ errorCount'[q] = errorCount[q] /\ failureKind'[q] = failureKind[q]
    BY <1>4, <1>10 DEF UpdateProcessing, TypeInv, TypeOK
  <2>2. ReportOK(r)'
    BY <1>5, <1>6, <1>7, <1>8, <2>1 DEF ReportOK, Terminal
  <2> QED
    BY <1>2, <1>4, <1>6, <1>9, <2>1, <2>2, AloneEnd
<1>11. CASE status[r] # "processing"
  <2>1. UNCHANGED <<status, rowCount, errorCount, failureKind>>
    BY <1>4, <1>11 DEF UpdateProcessing, columns
  <2>2. ReportOK(r) /\ errorCount[r] \in Nat
    BY DEF Alone, TypeInv, TypeOK
  <2>3. ReportOK(r)'
    BY <1>5, <1>6, <1>7, <1>8, <1>11, <2>1, <2>2 DEF ReportOK
  <2> QED
    BY <1>2, <1>4, <1>6, <1>9, <2>1, <2>3, AloneEnd
<1> QED
  BY <1>10, <1>11

\* Nobody has touched the report between its claim and the row lock.
LEMMA AloneLockReport ==
    ASSUME TypeInv, SafeInv, Alone, Next, NEW w \in Workers,
           LockReport(w) \/ ApplyStatements(w)
    PROVE  Alone'
<1>1. /\ pc[w] \in {"lock_report", "apply_statements"} /\ pc[w] \in Claimed \cup HoldsRow
      /\ UNCHANGED <<queue, columns, staging, errors, applied, lock, frames, faults>>
  BY DEF LockReport, ApplyStatements, Claimed, HoldsRow
<1>2. /\ cur[w] \in Reports /\ lock = w /\ WorkerOK(w)
  BY <1>1, PhaseHasReport, Holding DEF Alone
<1>3. /\ pc'[w] \in {"apply_statements", "chk_commit"} /\ \A v \in Workers \ {w} : pc'[v] = pc[v]
  BY <1>2 DEF LockReport, ApplyStatements, Goto, TypeInv, TypeOK, WorkerOK, Claimed
<1>4. IsValidFile(file[cur[w]])
  BY <1>1, <1>2 DEF WorkerOK, Claimed, HoldsRow, ReadyForApply, Alone, ReportOK
<1>5. UNCHANGED <<file, cur>>
  BY <1>1 DEF queue, frames
<1>6. WorkerOK(w)'
  BY <1>3, <1>4, <1>5 DEF WorkerOK, Loading, Checked, Claimed, Failing
<1> QED
  BY <1>1, <1>2, <1>3, <1>6, AloneQuiet

\* The snapshot of a valid file becomes the stock.
LEMMA AloneCommitApply ==
    ASSUME TypeInv, SafeInv, Alone, Next, NEW w \in Workers, CommitApply(w)
    PROVE  Alone'
<1>1. /\ pc[w] \in HoldsRow /\ pc[w] \in DOMAIN OnError /\ CommitThen(w, "unlock")
      /\ failureKind' = [failureKind EXCEPT ![cur[w]] = "none"]
      /\ UNCHANGED <<queue, rowCount, errorCount, errors, lock>>
  BY DEF CommitApply, HoldsRow, OnError
<1>2. /\ cur[w] \in Reports
      /\ status' = [status EXCEPT ![cur[w]] = "completed"]
      /\ staging' = [staging EXCEPT ![cur[w]] = {}]
      /\ applied' = Append(applied, [report |-> cur[w], lines |-> DOMAIN file[cur[w]]])
  BY CommitApplyEffect
<1>3. PICK r \in Reports : r = cur[w]
  BY <1>2
<1>4. UNCHANGED <<file, rowCount, errorCount, errors>>
  BY <1>1 DEF queue
<1>5. /\ status'[r] = "completed" /\ failureKind'[r] = "none" /\ staging'[r] = {}
      /\ \A q \in Reports \ {r} :
           /\ status'[q] = status[q] /\ rowCount'[q] = rowCount[q]
           /\ errorCount'[q] = errorCount[q] /\ failureKind'[q] = failureKind[q]
           /\ staging'[q] = staging[q] /\ errors'[q] = errors[q]
  BY <1>1, <1>2, <1>3, <1>4 DEF TypeInv, TypeOK
<1>6. IsValidFile(file[r])
  BY <1>1, <1>3 DEF Alone, WorkerOK
<1>7. ReportOK(r)'
  BY <1>5 DEF ReportOK, Terminal
<1>8. NothingTwice'
  <2> DEFINE new == [report |-> r, lines |-> DOMAIN file[r]]
  <2>1. /\ DOMAIN applied' = 1 .. Len(applied) + 1 /\ DOMAIN applied = 1 .. Len(applied)
        /\ applied'[Len(applied) + 1] = new
        /\ \A i \in DOMAIN applied : applied'[i] = applied[i]
        /\ Len(applied) \in Nat
    <3>1. applied \in Seq([report : Reports, lines : SUBSET Nat]) /\ applied' = Append(applied, new)
      BY <1>2, <1>3 DEF TypeInv, TypeOK
    <3> HIDE DEF new
    <3> QED
      BY <3>1
  <2>2. ASSUME NEW i \in DOMAIN applied'
        PROVE  DuplicateLines(file[applied'[i].report], applied'[i].lines) = {}
    <3>1. CASE i = Len(applied) + 1
      BY <1>6, <2>1, <3>1 DEF IsValidFile
    <3>2. CASE i \in DOMAIN applied
      BY <2>1, <3>2 DEF Alone, NothingTwice
    <3> QED
      BY <2>1, <3>1, <3>2
  <2> QED
    BY <1>4, <2>2 DEF NothingTwice
<1> QED
  BY <1>1, <1>5, <1>7, <1>8, AloneEnd

-----------------------------------------------------------------------------
(* The invariant.                                                          *)

LEMMA AloneInit == Init => AloneInv
<1> SUFFICES ASSUME Init PROVE Alone
  BY DEF AloneInv
<1>1. Exclusive
  BY NoneAssumption DEF Init, Exclusive
<1>2. \A w \in Workers : WorkerOK(w)
  BY DEF Init, WorkerOK, Loading, Checked, Claimed, HoldsRow, Failing
<1>3. \A r \in Reports : ReportOK(r)
  BY DEF Init, ReportOK, Terminal
<1>4. NothingTwice
  BY DEF Init, NothingTwice
<1> QED
  BY <1>1, <1>2, <1>3, <1>4 DEF Alone

LEMMA AloneStep == TypeInv /\ SafeInv /\ AloneInv /\ [Next]_vars => AloneInv'
<1>1. CASE UNCHANGED vars
  <2> SUFFICES ASSUME Alone, UNCHANGED vars PROVE Alone'
    BY <1>1 DEF AloneInv, NoFault, vars
  <2>1. UNCHANGED <<status, rowCount, errorCount, failureKind, stamp, file, staging, errors, applied,
                    lock, pc, cur, nextRow, stagingBatch, errorBatch, reading, seenErrors, faults>>
    BY DEF vars, queue, columns, frames
  <2>2. Exclusive' /\ NothingTwice'
    BY <2>1 DEF Alone, Exclusive, NothingTwice
  <2>3. ASSUME NEW w \in Workers PROVE WorkerOK(w)'
    <3>1. /\ LoadingOK(w) => LoadingOK(w)'
          /\ CheckedOK(w) => CheckedOK(w)'
          /\ ReadyForApply(cur[w]) => ReadyForApply(cur[w])'
      BY <2>1 DEF LoadingOK, CheckedOK, ReadyForApply
    <3> QED
      BY <2>1, <3>1 DEF Alone, WorkerOK, NoFault
  <2>4. \A r \in Reports : ReportOK(r)'
    BY <2>1 DEF Alone, ReportOK, NoFault
  <2> QED
    BY <2>2, <2>3, <2>4 DEF Alone
<1>2. CASE Next
  <2> SUFFICES ASSUME TypeInv, SafeInv, AloneInv, Next, NoFault({"lockloss"})' PROVE Alone'
    BY <1>2 DEF AloneInv
  <2>1. Alone
    BY FaultsGrow DEF AloneInv, FaultKinds
  <2>2. ASSUME NEW r \in Reports, BeginRegister(r) \/ CommitRegister(r) PROVE Alone'
    BY <2>1, <2>2, AloneRegister
  <2>3. ASSUME NEW w \in Workers, Work(w) PROVE Alone'
    <3>1. CASE \/ AcquireLock(w) \/ ClaimNothing(w) \/ Unlock(w) \/ AssertLock(w)
               \/ ClaimForApply(w) \/ ClaimForValidation(w)
      BY <2>1, <3>1, AloneBetween, AloneAssert, AloneClaimForApply, AloneClaimForValidation
    <3>2. CASE \/ OpenOriginal(w) \/ ReadRow(w) \/ EndOfFile(w) \/ WriteStaging(w) \/ WriteErrors(w)
               \/ InsertDuplicateErrors(w) \/ CountErrors(w)
      BY <2>1, <3>2, AloneOpen, AloneReadRow, AloneEndOfFile, AloneWriteStaging, AloneWriteErrors,
         AloneInsertDuplicates, AloneCount
    <3>3. CASE \/ FinalizeValidationFailure(w) \/ MarkValidated(w) \/ MarkProcessingFailed(w)
               \/ MarkApplyFailed(w) \/ LockReport(w) \/ ApplyStatements(w) \/ CommitApply(w)
      BY <2>1, <3>3, AloneFinalize, AloneMarkValidated, AloneMarkFailed, AloneLockReport,
         AloneCommitApply
    <3>4. CASE StagingKeyViolation(w) \/ DuplicateUpsertFails(w)
      BY <2>1, <3>4, NoExceptions
    <3> QED
      BY <2>3, <3>1, <3>2, <3>3, <3>4 DEF Work
  <2>4. ASSUME NEW w \in Workers, Disturb(w) PROVE Alone'
    <3>1. ~LoseLock(w)
      BY DEF LoseLock, Fault, NoFault, TypeInv, TypeOK, FaultKinds
    <3> QED
      BY <2>1, <2>4, <3>1, NoExceptions, AloneFault, AloneCrash DEF Disturb
  <2> QED
    BY <2>2, <2>3, <2>4 DEF Next
<1> QED
  BY <1>1, <1>2

THEOREM AloneInvariant == Spec => [](TypeInv /\ SafeInv /\ AloneInv)
BY TypeInit, TypeStep, SafeInit, SafeStep, AloneInit, AloneStep, PTL DEF Spec

-----------------------------------------------------------------------------
(* What it gives.                                                          *)

\* No transaction that ends a report leaves its staging rows behind, whatever
\* crashes, roll-backs and lost acknowledgements interrupt it
\* (report_processing.py:311, 461, 494; apply_report.py:137-142).
THEOREM TerminalWithoutStaging == Spec => []TerminalStagingEmpty
<1>1. AloneInv => TerminalStagingEmpty
  BY DEF AloneInv, Alone, ReportOK, TerminalStagingEmpty
<1> QED
  BY AloneInvariant, <1>1, PTL

\* A pair never reaches the stock tables from two rows of one file, also when
\* the duplicate check ran again after a crash (report_processing.py:229-293).
THEOREM NoDuplicateApplied == Spec => []AppliedWithoutDuplicates
<1>1. AloneInv => AppliedWithoutDuplicates
  BY DEF AloneInv, Alone, NothingTwice, AppliedWithoutDuplicates
<1> QED
  BY AloneInvariant, <1>1, PTL

\* A valid file survives any number of crashes of any worker: what the dead one
\* had written never makes the next attempt fail (report_processing.py:423-432).
THEOREM CrashesFailNoValidReport == Spec => []CrashNeverFailsValidReport
<1>1. AloneInv => CrashNeverFailsValidReport
  <2> SUFFICES ASSUME AloneInv, NoFault(FaultKinds \ {"crash"}),
                      NEW r \in Reports, status[r] = "failed"
               PROVE  ~IsValidFile(file[r])
    BY DEF CrashNeverFailsValidReport
  <2>1. Alone
    BY DEF AloneInv, NoFault, FaultKinds
  <2> QED
    BY <2>1 DEF Alone, ReportOK
<1> QED
  BY AloneInvariant, <1>1, PTL

\* A failed report says why, and error_count never claims more errors than are
\* stored (report_processing.py:304-323, 459-526).
THEOREM FailedIsExplained == Spec => []FailureIsExplained
<1>1. AloneInv => FailureIsExplained
  BY DEF AloneInv, Alone, ReportOK, FailureIsExplained
<1> QED
  BY AloneInvariant, <1>1, PTL

\* As many rows as issues are signed.
LEMMA SignedCount ==
    ASSUME NEW w, NEW A, A \subseteq Nat \X Codes, IsFiniteSet(Signed(w, A))
    PROVE  Cardinality(Signed(w, A)) = Cardinality(A)
<1> DEFINE S == Signed(w, A)
           unsign == [e \in S |-> <<e[1], e[2]>>]
<1>1. ASSUME NEW e \in S PROVE \E a \in A : a = <<e[1], e[2]>> /\ e = <<a[1], a[2], w>>
  <2>1. PICK a \in A : e = <<a[1], a[2], w>>
    BY DEF Signed
  <2>2. e[1] = a[1] /\ e[2] = a[2] /\ a = <<a[1], a[2]>>
    BY <2>1
  <2> QED
    BY <2>1, <2>2
<1>2. ASSUME NEW a \in A PROVE \E e \in S : unsign[e] = a
  BY SignedIs
<1>3. \A e \in S : unsign[e] \in A
  BY <1>1
<1>4. \A d, e \in S : unsign[d] = unsign[e] => d = e
  BY <1>1
<1> HIDE DEF S
<1>5. unsign \in Bijection(S, A)
  <2>1. unsign \in [S -> A] /\ DOMAIN unsign = S
    BY <1>3
  <2> HIDE DEF unsign
  <2> QED
    BY <1>2, <1>4, <2>1 DEF Bijection, Injection, IsInjective, Surjection
<1>6. ExistsBijection(S, A)
  BY <1>5 DEF ExistsBijection
<1> QED
  BY <1>6, FS_Bijection DEF S

\* Each problem of the file is stored once, in whatever batches it was written
\* and after however many crashes and roll-backs, and error_count is their
\* number (report_processing.py:186-194, 304-323).
THEOREM ProblemsReportedOnce == Spec => []EveryProblemReportedOnce
<1>1. TypeInv /\ AloneInv => EveryProblemReportedOnce
  <2> SUFFICES ASSUME TypeInv, AloneInv, NoFault({"lockloss", "acklost"}),
                      NEW r \in Reports, failureKind[r] = "validation"
               PROVE  /\ {<<e[1], e[2]>> : e \in errors[r]} = Problems(file[r])
                      /\ errorCount[r] = Cardinality(Problems(file[r]))
                      /\ errorCount[r] = Cardinality(errors[r])
    BY DEF EveryProblemReportedOnce
  <2>1. ReportOK(r) /\ NoFault({"acklost"})
    BY DEF AloneInv, Alone, NoFault
  <2>2. /\ errorCount[r] = Cardinality(errors[r])
        /\ \E w \in Workers : errors[r] = Signed(w, Problems(file[r]))
    BY <2>1 DEF ReportOK
  <2>3. PICK w \in Workers : errors[r] = Signed(w, Problems(file[r]))
    BY <2>2
  <2>4. Problems(file[r]) \subseteq Nat \X Codes /\ IsFiniteSet(errors[r])
    BY FileOf DEF TypeInv, TypeOK, Finite
  <2> HIDE DEF Problems
  <2> DEFINE A == Problems(file[r])
  <2>5. {<<e[1], e[2]>> : e \in Signed(w, A)} = A
    BY <2>4, SignedIs
  <2>6. Cardinality(Signed(w, A)) = Cardinality(A)
    BY <2>3, <2>4, SignedCount
  <2> QED
    BY <2>2, <2>3, <2>5, <2>6
<1> QED
  BY AloneInvariant, <1>1, PTL

==============================================================================
