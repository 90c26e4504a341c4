-------------------------- MODULE ImportSafetyProofs --------------------------
(***************************************************************************)
(* The types and the safety of the import, for every set of reports,       *)
(* workers and files, every batch size and any number of crashes, lost     *)
(* locks, roll-backs and lost acknowledgements: reports are applied whole, *)
(* once, in order, and terminal reports stay as they are.  One inductive   *)
(* invariant carries the types, another one on top of it the safety.       *)
(***************************************************************************)
EXTENDS ImportPipeline, FiniteSetTheorems, TLAPS

-----------------------------------------------------------------------------
(* Lemmas about the operators of the model. *)

\* Where a check, an exception or a flush can lead.
LEMMA CheckTargets ==
    ASSUME NEW l \in DOMAIN AfterCheck
    PROVE  /\ AfterCheck[l] \in Labels \ {"idle", "claim", "unlock", "down"}
           /\ l \in Labels \ {"idle", "claim", "unlock", "down"}
BY DEF AfterCheck, Labels, OnError

LEMMA ErrorTargets ==
    ASSUME NEW l \in DOMAIN OnError
    PROVE  /\ l \in Labels
           /\ OnError[l] \in {"chk_failed", "chk_apply_failed", "unlock"}
           /\ l = "claim" => OnError[l] = "unlock"
BY DEF AfterCheck, Labels, OnError

LEMMA FlushTargets ==
    ASSUME NEW sb, NEW eb, NEW rd
    PROVE  /\ NextFlush(sb, eb, rd) \in {"chk_staging", "chk_errors", "chk_duplicates", "read"}
           /\ NextFlush(sb, eb, rd) = "read" => rd = "reading"
BY DEF NextFlush

\* Signing a finite set of issues gives a finite set of rows.
LEMMA SignedFinite ==
    ASSUME NEW w, NEW issues, IsFiniteSet(issues)
    PROVE  IsFiniteSet(Signed(w, issues))
<1> DEFINE sign == [e \in issues |-> <<e[1], e[2], w>>]
<1>1. sign \in Surjection(issues, Signed(w, issues))
  BY DEF Surjection, Signed
<1> QED BY <1>1, FS_Surjection

\* A set of lines as large as its file is all of its lines.
LEMMA AllLines ==
    ASSUME NEW f \in Seq(Records), NEW L, L \subseteq ValidLines(f),
           Cardinality(L) = Len(f)
    PROVE  L = DOMAIN f /\ ValidLines(f) = DOMAIN f
<1>1. DOMAIN f = 1 .. Len(f) /\ Len(f) \in Nat
  OBVIOUS
<1>2. IsFiniteSet(DOMAIN f) /\ Cardinality(DOMAIN f) = Len(f)
  <2>1. /\ IsFiniteSet(1 .. Len(f))
        /\ Cardinality(1 .. Len(f)) = IF 1 > Len(f) THEN 0 ELSE Len(f) - 1 + 1
    <3>1. 1 \in Int /\ Len(f) \in Int
      BY <1>1
    <3> QED BY <3>1, FS_Interval, Zenon
  <2> QED BY <1>1, <2>1
<1>3. ValidLines(f) \subseteq DOMAIN f
  BY DEF ValidLines
<1>4. L = DOMAIN f
  BY <1>2, <1>3, FS_Subset
<1> QED BY <1>3, <1>4

-----------------------------------------------------------------------------
(* Types.  The counters are cardinalities, so they are numbers only because *)
(* the sets they count are finite, and only once a report has been claimed. *)

ClaimedPCs == Labels \ {"idle", "claim", "unlock", "down"}

Finite ==
    /\ \A r \in Reports : IsFiniteSet(staging[r]) /\ IsFiniteSet(errors[r])
    /\ \A w \in Workers : IsFiniteSet(stagingBatch[w]) /\ IsFiniteSet(errorBatch[w])

HasReport == \A w \in Workers : pc[w] \in ClaimedPCs => cur[w] \in Reports

TypeInv == TypeOK /\ Finite /\ HasReport

LEMMA TypeInit == Init => TypeInv
BY FS_EmptySet DEF Init, TypeInv, TypeOK, Finite, HasReport, ClaimedPCs, Labels, Visible,
   Claimable, Terminal, FaultKinds

LEMMA TypeRegister ==
    ASSUME TypeInv, NEW r \in Reports, BeginRegister(r) \/ CommitRegister(r)
    PROVE  TypeInv'
<1>1. ASSUME BeginRegister(r) PROVE TypeOK'
  <2>1. PICK f \in Files : file' = [file EXCEPT ![r] = f]
    BY <1>1 DEF BeginRegister
  <2>2. f \in Seq(Records)
    BY FilesAssumption
  <2> QED BY <1>1, <2>1, <2>2, SMTT(30) DEF BeginRegister, TypeInv, TypeOK, frames
<1>2. ASSUME CommitRegister(r) PROVE TypeOK'
  BY <1>2 DEF CommitRegister, TypeInv, TypeOK, frames, queue, Visible, Claimable
<1>3. Finite' /\ HasReport'
  BY DEF TypeInv, Finite, HasReport, BeginRegister, CommitRegister, frames
<1> QED BY <1>1, <1>2, <1>3 DEF TypeInv

LEMMA TypeFrame ==
    ASSUME TypeInv, NEW w \in Workers, NEW r \in Reports \cup {None}, ResetFrame(w, r)
    PROVE  /\ cur' \in [Workers -> Reports \cup {None}]
           /\ nextRow' \in [Workers -> Nat \ {0}]
           /\ stagingBatch' \in [Workers -> SUBSET Nat]
           /\ errorBatch' \in [Workers -> SUBSET (Nat \X Codes)]
           /\ reading' \in [Workers -> {"reading", "eof", "stopped"}]
           /\ seenErrors' \in [Workers -> Nat]
           /\ \A v \in Workers : IsFiniteSet(stagingBatch'[v]) /\ IsFiniteSet(errorBatch'[v])
BY FS_EmptySet DEF TypeInv, TypeOK, Finite, ResetFrame

\* The two ways a transaction ends for the worker.
LEMMA TypeCommit ==
    ASSUME TypeInv, NEW w \in Workers, pc[w] \in DOMAIN OnError,
           NEW next \in ClaimedPCs \cup {"unlock"},
           CommitThen(w, next)
    PROVE  /\ pc' \in [Workers -> Labels]
           /\ faults' \in [FaultKinds -> Nat]
           /\ \A v \in Workers \ {w} : pc'[v] = pc[v]
           /\ pc'[w] \in {next, OnError[pc[w]]}
<1>1. next \in Labels /\ OnError[pc[w]] \in Labels
  BY ErrorTargets DEF ClaimedPCs, Labels, AfterCheck
<1>2. \/ pc' = [pc EXCEPT ![w] = next] /\ faults' = faults
      \/ /\ pc' = [pc EXCEPT ![w] = OnError[pc[w]]]
         /\ faults' = [faults EXCEPT !["acklost"] = @ + 1]
  BY DEF CommitThen, Goto, Fault
<1>3. pc \in [Workers -> Labels] /\ faults \in [FaultKinds -> Nat]
  BY DEF TypeInv, TypeOK
<1>4. faults' \in [FaultKinds -> Nat]
  BY <1>2, <1>3 DEF FaultKinds
<1> QED BY <1>1, <1>2, <1>3, <1>4

LEMMA FaultType ==
    ASSUME TypeInv, NEW kind \in FaultKinds, Fault(kind)
    PROVE  faults' \in [FaultKinds -> Nat]
BY DEF TypeInv, TypeOK, Fault

\* A step that only moves a worker to another label.
LEMMA TypeJump ==
    ASSUME TypeInv, NEW w \in Workers, NEW l \in Labels,
           pc' = [pc EXCEPT ![w] = l],
           l \in ClaimedPCs => cur[w] \in Reports,
           faults' \in [FaultKinds -> Nat],
           UNCHANGED <<queue, columns, staging, errors, applied, lock, frames>>
    PROVE  TypeInv'
<1>1. TypeOK'
  BY DEF TypeInv, TypeOK, queue, columns, frames
<1>2. Finite' /\ HasReport'
  BY DEF TypeInv, TypeOK, Finite, HasReport, frames
<1> QED BY <1>1, <1>2 DEF TypeInv

LEMMA TypeCycle ==
    ASSUME TypeInv, NEW w \in Workers,
           AcquireLock(w) \/ AssertLock(w) \/ Unlock(w) \/ ClaimNothing(w)
    PROVE  TypeInv'
<1>1. ASSUME AcquireLock(w) PROVE TypeInv'
  <2>1. "claim" \in Labels \ ClaimedPCs
    BY DEF Labels, ClaimedPCs, OnError
  <2> QED BY <1>1, <2>1 DEF TypeInv, TypeOK, Finite, HasReport, AcquireLock, Goto, frames, queue, columns
<1>2. ASSUME AssertLock(w) PROVE TypeInv'
  <2> DEFINE l == IF lock = w THEN AfterCheck[pc[w]] ELSE "unlock"
  <2>1. pc[w] \in ClaimedPCs /\ l \in Labels
    BY <1>2, CheckTargets DEF AssertLock, ClaimedPCs, Labels
  <2>2. cur[w] \in Reports /\ faults' \in [FaultKinds -> Nat]
    BY <1>2, <2>1 DEF TypeInv, TypeOK, HasReport, AssertLock
  <2>3. /\ pc' = [pc EXCEPT ![w] = l]
        /\ UNCHANGED <<queue, columns, staging, errors, applied, lock, frames>>
    BY <1>2 DEF AssertLock, Goto
  <2> HIDE DEF l
  <2> QED BY <2>1, <2>2, <2>3, TypeJump
<1>3. ASSUME ClaimNothing(w) PROVE TypeInv'
  <2>1. "unlock" \in Labels \ ClaimedPCs
    BY DEF Labels, ClaimedPCs
  <2>2. /\ pc' = [pc EXCEPT ![w] = "unlock"]
        /\ UNCHANGED <<queue, columns, staging, errors, applied, lock, frames>>
        /\ faults' \in [FaultKinds -> Nat]
    BY <1>3 DEF ClaimNothing, Goto, TypeInv, TypeOK
  <2> QED BY <2>1, <2>2, TypeJump
<1>4. ASSUME Unlock(w) PROVE TypeInv'
  <2>1. "idle" \in Labels \ ClaimedPCs
    BY DEF Labels, ClaimedPCs
  <2>2. ResetFrame(w, None)
    BY <1>4 DEF Unlock
  <2>3. TypeOK'
    BY <1>4, <2>1, <2>2, TypeFrame DEF TypeInv, TypeOK, Unlock, Goto, queue, columns
  <2>4. HasReport'
    BY <1>4, <2>1, <2>2 DEF TypeInv, TypeOK, HasReport, Unlock, ResetFrame, Goto
  <2>5. Finite'
    BY <1>4, <2>2, TypeFrame DEF TypeInv, Finite, Unlock
  <2> QED BY <2>3, <2>4, <2>5 DEF TypeInv
<1> QED BY <1>1, <1>2, <1>3, <1>4

LEMMA TypeClaim ==
    ASSUME TypeInv, NEW w \in Workers, ClaimForApply(w) \/ ClaimForValidation(w)
    PROVE  TypeInv'
<1>1. pc[w] \in DOMAIN OnError /\ OnError[pc[w]] = "unlock"
  BY ErrorTargets DEF ClaimForApply, ClaimForValidation, OnError
<1>2. PICK r \in Reports : ResetFrame(w, r)
  BY DEF ClaimForApply, ClaimForValidation, Oldest
<1>3. PICK next \in {"chk_apply", "chk_open"} : CommitThen(w, next)
  BY DEF ClaimForApply, ClaimForValidation
<1>4. next \in ClaimedPCs
  BY DEF ClaimedPCs, Labels, AfterCheck
<1>5. /\ pc' \in [Workers -> Labels]
      /\ faults' \in [FaultKinds -> Nat]
      /\ \A v \in Workers \ {w} : pc'[v] = pc[v]
  BY <1>1, <1>3, <1>4, TypeCommit
<1>6. /\ cur' \in [Workers -> Reports \cup {None}]
      /\ cur'[w] = r
      /\ \A v \in Workers \ {w} : cur'[v] = cur[v]
  BY <1>2 DEF TypeInv, TypeOK, ResetFrame
<1>7. HasReport'
  BY <1>5, <1>6 DEF TypeInv, TypeOK, HasReport
<1>8. TypeOK' /\ Finite'
  <2>1. CASE ClaimForApply(w)
    BY <1>2, <1>5, <2>1, TypeFrame DEF TypeInv, TypeOK, Finite, ClaimForApply, queue, columns
  <2>2. CASE ClaimForValidation(w)
    <3>1. PICK q \in Reports :
            /\ staging' = [staging EXCEPT ![q] = {}]
            /\ errors' = [errors EXCEPT ![q] = {}]
            /\ status' = [status EXCEPT ![q] = "processing"]
            /\ rowCount' = [rowCount EXCEPT ![q] = 0]
            /\ errorCount' = [errorCount EXCEPT ![q] = 0]
            /\ failureKind' = [failureKind EXCEPT ![q] = "none"]
      BY <2>2 DEF ClaimForValidation, Oldest
    <3>2. TypeOK'
      BY <1>2, <1>5, <2>2, <3>1, TypeFrame DEF TypeInv, TypeOK, ClaimForValidation, queue, Visible, Claimable
    <3>3. Finite'
      BY <1>2, <3>1, FS_EmptySet, TypeFrame DEF TypeInv, TypeOK, Finite
    <3> QED BY <3>2, <3>3
  <2> QED BY <2>1, <2>2
<1> QED BY <1>7, <1>8 DEF TypeInv

\* Steps that only move the worker: reading fails, a check of the apply
\* transaction fails, a transaction is rolled back, ...
LEMMA TypeMove ==
    ASSUME TypeInv, NEW w \in Workers,
           \/ OpenOriginal(w) \/ StorageFault(w) \/ NoticeLossWhileReading(w)
           \/ RollBack(w) \/ StagingKeyViolation(w) \/ LockReport(w)
           \/ ApplyStatements(w) \/ DuplicateUpsertFails(w) \/ Restart(w)
    PROVE  TypeInv'
<1>1. UNCHANGED <<queue, columns, staging, errors, applied, lock, frames>>
  BY DEF OpenOriginal, StorageFault, NoticeLossWhileReading, RollBack, StagingKeyViolation,
         LockReport, ApplyStatements, DuplicateUpsertFails, Restart
<1>2. faults' \in [FaultKinds -> Nat]
  <2>1. {"storage", "rolledback"} \subseteq FaultKinds
    BY DEF FaultKinds
  <2>2. CASE StorageFault(w)
    BY <2>1, <2>2, FaultType DEF StorageFault
  <2>3. CASE RollBack(w)
    BY <2>1, <2>3, FaultType DEF RollBack
  <2> QED BY <2>2, <2>3 DEF TypeInv, TypeOK, OpenOriginal, NoticeLossWhileReading,
             StagingKeyViolation, LockReport, ApplyStatements, DuplicateUpsertFails, Restart
<1>3. PICK l \in Labels : /\ pc' = [pc EXCEPT ![w] = l]
                          /\ l \in ClaimedPCs => pc[w] \in ClaimedPCs
  <2>1. {"read", "chk_commit", "apply_statements"} \subseteq ClaimedPCs
    BY DEF ClaimedPCs, Labels, AfterCheck, OnError
  <2>2. {"unlock", "idle"} \subseteq Labels \ ClaimedPCs
    BY DEF ClaimedPCs, Labels
  <2>3. \A k \in DOMAIN OnError : OnError[k] \in Labels /\ (OnError[k] \in ClaimedPCs => k \in ClaimedPCs)
    BY DEF ClaimedPCs, Labels, AfterCheck, OnError
  <2>4. {"open", "read", "write_staging", "lock_report", "apply_statements"} \subseteq ClaimedPCs \cap DOMAIN OnError
    BY DEF ClaimedPCs, Labels, OnError
  <2>5. CASE StorageFault(w) \/ RollBack(w) \/ StagingKeyViolation(w) \/ DuplicateUpsertFails(w)
    BY <2>3, <2>4, <2>5 DEF StorageFault, RollBack, StagingKeyViolation, DuplicateUpsertFails, Goto
  <2>6. CASE OpenOriginal(w) \/ NoticeLossWhileReading(w) \/ ApplyStatements(w) \/ Restart(w)
    BY <2>1, <2>2, <2>4, <2>6 DEF OpenOriginal, NoticeLossWhileReading, ApplyStatements, Restart, Goto, ClaimedPCs
  <2>7. CASE LockReport(w)
    BY <2>1, <2>3, <2>4, <2>7 DEF LockReport, Goto, ClaimedPCs
  <2> QED BY <2>5, <2>6, <2>7
<1>4. l \in ClaimedPCs => cur[w] \in Reports
  BY <1>3 DEF TypeInv, HasReport
<1> QED BY <1>1, <1>2, <1>3, <1>4, TypeJump

\* Reading a record, or the end of the file.
LEMMA TypeRead ==
    ASSUME TypeInv, NEW w \in Workers, ReadRow(w) \/ EndOfFile(w)
    PROVE  TypeInv'
<1>1. pc[w] \in ClaimedPCs
  BY DEF ReadRow, EndOfFile, ClaimedPCs, Labels, OnError
<1>2. PICK r \in Reports : cur[w] = r
  BY <1>1 DEF TypeInv, HasReport
<1>3. file[r] \in Seq(Records) /\ nextRow[w] \in Nat \ {0}
  BY DEF TypeInv, TypeOK
<1>4. PICK l \in ClaimedPCs : pc' = [pc EXCEPT ![w] = l]
  <2>1. {"chk_staging", "chk_errors", "chk_duplicates", "read"} \subseteq ClaimedPCs
    BY DEF ClaimedPCs, Labels, AfterCheck, OnError
  <2>2. PICK sb, eb, rd : pc' = [pc EXCEPT ![w] = NextFlush(sb, eb, rd)]
    BY DEF ReadRow, EndOfFile, Goto
  <2>3. NextFlush(sb, eb, rd) \in {"chk_staging", "chk_errors", "chk_duplicates", "read"}
    BY FlushTargets
  <2> QED BY <2>1, <2>2, <2>3
<1>5. pc' \in [Workers -> Labels]
  BY <1>4 DEF TypeInv, TypeOK, ClaimedPCs
<1>6. HasReport'
  BY <1>2, <1>4 DEF TypeInv, TypeOK, HasReport, ReadRow, EndOfFile
<1>7. UNCHANGED <<queue, columns, staging, errors, applied, lock, cur, seenErrors, faults>>
  BY DEF ReadRow, EndOfFile
<1>8. nextRow' \in [Workers -> Nat \ {0}] /\ reading' \in [Workers -> {"reading", "eof", "stopped"}]
  <2>1. nextRow' = nextRow \/ nextRow' = [nextRow EXCEPT ![w] = nextRow[w] + 1]
    BY DEF ReadRow, EndOfFile
  <2>2. PICK x \in {"reading", "eof", "stopped"} : reading' = [reading EXCEPT ![w] = x]
    BY DEF ReadRow, EndOfFile, TypeInv, TypeOK
  <2> QED BY <1>3, <2>1, <2>2 DEF TypeInv, TypeOK
<1>9. /\ stagingBatch' \in [Workers -> SUBSET Nat]
      /\ \A v \in Workers : IsFiniteSet(stagingBatch'[v])
  <2>1. \A S, x : IsFiniteSet(S) => IsFiniteSet(S \cup {x})
    BY FS_AddElement
  <2>2. \/ stagingBatch' = stagingBatch
        \/ stagingBatch' = [stagingBatch EXCEPT ![w] = @ \cup {nextRow[w]}]
    BY DEF ReadRow, EndOfFile, TypeInv, TypeOK
  <2>3. CASE stagingBatch' = stagingBatch
    BY <2>3 DEF TypeInv, TypeOK, Finite
  <2>4. CASE stagingBatch' = [stagingBatch EXCEPT ![w] = @ \cup {nextRow[w]}]
    BY <1>3, <2>1, <2>4 DEF TypeInv, TypeOK, Finite
  <2> QED BY <2>2, <2>3, <2>4
<1>10. /\ errorBatch' \in [Workers -> SUBSET (Nat \X Codes)]
       /\ \A v \in Workers : IsFiniteSet(errorBatch'[v])
  <2>1. \A S, x : IsFiniteSet(S) => IsFiniteSet(S \cup {x})
    BY FS_AddElement
  <2>2. IsFiniteSet({<<0, "file">>})
    BY FS_Singleton
  <2>3. <<nextRow[w], "row">> \in Nat \X Codes /\ <<0, "file">> \in Nat \X Codes
    BY <1>3 DEF Codes
  <2>4. \/ errorBatch' = errorBatch
        \/ errorBatch' = [errorBatch EXCEPT ![w] = @ \cup {<<nextRow[w], "row">>}]
        \/ errorBatch' = [errorBatch EXCEPT ![w] = {<<0, "file">>}]
    BY DEF ReadRow, EndOfFile, TypeInv, TypeOK
  <2>5. CASE errorBatch' = [errorBatch EXCEPT ![w] = {<<0, "file">>}]
    BY <2>2, <2>3, <2>5 DEF TypeInv, TypeOK, Finite
  <2>6. CASE errorBatch' = [errorBatch EXCEPT ![w] = @ \cup {<<nextRow[w], "row">>}]
    BY <2>1, <2>3, <2>6 DEF TypeInv, TypeOK, Finite
  <2> QED BY <2>4, <2>5, <2>6 DEF TypeInv, TypeOK, Finite
<1>11. TypeOK' /\ Finite'
  BY <1>5, <1>7, <1>8, <1>9, <1>10 DEF TypeInv, TypeOK, Finite, queue, columns
<1> QED BY <1>6, <1>11 DEF TypeInv

\* The commit of a transaction of a claimed report keeps a claimed report.
LEMMA TypeTransaction ==
    ASSUME TypeInv, NEW w \in Workers, pc[w] \in DOMAIN OnError \cap ClaimedPCs,
           NEW next \in ClaimedPCs \cup {"unlock"}, CommitThen(w, next), cur' = cur
    PROVE  /\ cur[w] \in Reports
           /\ pc' \in [Workers -> Labels]
           /\ faults' \in [FaultKinds -> Nat]
           /\ HasReport'
<1>1. cur[w] \in Reports
  BY DEF TypeInv, HasReport
<1>2. /\ pc' \in [Workers -> Labels]
      /\ faults' \in [FaultKinds -> Nat]
      /\ \A v \in Workers \ {w} : pc'[v] = pc[v]
  BY TypeCommit
<1> QED BY <1>1, <1>2 DEF TypeInv, HasReport

LEMMA TypeWriteStaging ==
    ASSUME TypeInv, NEW w \in Workers, WriteStaging(w)
    PROVE  TypeInv'
<1>1. pc[w] \in DOMAIN OnError \cap ClaimedPCs /\ cur' = cur
  BY DEF WriteStaging, OnError, ClaimedPCs, Labels
<1>2. PICK next \in ClaimedPCs : CommitThen(w, next)
  <2>1. {"chk_staging", "chk_errors", "chk_duplicates", "read"} \subseteq ClaimedPCs
    BY DEF ClaimedPCs, Labels, AfterCheck, OnError
  <2>2. PICK eb, rd : CommitThen(w, NextFlush({}, eb, rd))
    BY DEF WriteStaging
  <2>3. NextFlush({}, eb, rd) \in {"chk_staging", "chk_errors", "chk_duplicates", "read"}
    BY FlushTargets
  <2> QED BY <2>1, <2>2, <2>3
<1>3. /\ cur[w] \in Reports
      /\ pc' \in [Workers -> Labels]
      /\ faults' \in [FaultKinds -> Nat]
      /\ HasReport'
  BY <1>1, <1>2, TypeTransaction
<1>4. PICK r \in Reports :
        /\ staging' = [staging EXCEPT ![r] = @ \cup stagingBatch[w]]
        /\ stagingBatch' = [stagingBatch EXCEPT ![w] = {}]
        /\ UNCHANGED <<queue, columns, errors, applied, lock, cur, nextRow,
                       errorBatch, reading, seenErrors>>
  BY <1>3 DEF WriteStaging
<1>5. TypeOK'
  BY <1>3, <1>4 DEF TypeInv, TypeOK, queue, columns
<1>6. Finite'
  BY <1>4, FS_Union, FS_EmptySet DEF TypeInv, TypeOK, Finite
<1> QED BY <1>3, <1>5, <1>6 DEF TypeInv

\* Rows added to the errors of the report of w by a transaction of w.
LEMMA TypeAddErrors ==
    ASSUME TypeInv, NEW w \in Workers, NEW r \in Reports,
           NEW issues \in SUBSET (Nat \X Codes), IsFiniteSet(issues),
           errors' = [errors EXCEPT ![r] = @ \cup Signed(w, issues)]
    PROVE  /\ errors' \in [Reports -> SUBSET (Nat \X Codes \X Workers)]
           /\ \A q \in Reports : IsFiniteSet(errors'[q])
<1>1. IsFiniteSet(Signed(w, issues))
  BY SignedFinite
<1>2. Signed(w, issues) \subseteq Nat \X Codes \X Workers
  BY DEF Signed
<1>3. IsFiniteSet(errors[r] \cup Signed(w, issues))
  BY <1>1, FS_Union DEF TypeInv, Finite
<1>4. errors \in [Reports -> SUBSET (Nat \X Codes \X Workers)]
  BY DEF TypeInv, TypeOK
<1>5. \A q \in Reports : IsFiniteSet(errors[q])
  BY DEF TypeInv, Finite
<1> QED BY <1>2, <1>3, <1>4, <1>5

LEMMA TypeWriteErrors ==
    ASSUME TypeInv, NEW w \in Workers, WriteErrors(w) \/ InsertDuplicateErrors(w)
    PROVE  TypeInv'
<1>1. pc[w] \in DOMAIN OnError \cap ClaimedPCs /\ cur' = cur
  BY DEF WriteErrors, InsertDuplicateErrors, OnError, ClaimedPCs, Labels, frames
<1>2. PICK next \in ClaimedPCs : CommitThen(w, next)
  <2>1. {"chk_staging", "chk_errors", "chk_duplicates", "read", "chk_count"} \subseteq ClaimedPCs
    BY DEF ClaimedPCs, Labels, AfterCheck, OnError
  <2>2. CASE WriteErrors(w)
    <3>1. PICK sb, rd : CommitThen(w, NextFlush(sb, {}, rd))
      BY <2>2 DEF WriteErrors
    <3>2. NextFlush(sb, {}, rd) \in {"chk_staging", "chk_errors", "chk_duplicates", "read"}
      BY FlushTargets
    <3> QED BY <2>1, <3>1, <3>2
  <2>3. CASE InsertDuplicateErrors(w)
    BY <2>1, <2>3 DEF InsertDuplicateErrors
  <2> QED BY <2>2, <2>3
<1>3. /\ cur[w] \in Reports
      /\ pc' \in [Workers -> Labels]
      /\ faults' \in [FaultKinds -> Nat]
      /\ HasReport'
  BY <1>1, <1>2, TypeTransaction
<1>4. PICK r \in Reports : r = cur[w]
  BY <1>3
<1>5. PICK issues \in SUBSET (Nat \X Codes) :
        /\ IsFiniteSet(issues)
        /\ errors' = [errors EXCEPT ![r] = @ \cup Signed(w, issues)]
  <2>1. CASE WriteErrors(w)
    BY <1>4, <2>1 DEF WriteErrors, TypeInv, TypeOK, Finite
  <2>2. CASE InsertDuplicateErrors(w)
    <3> DEFINE D == DuplicateLines(file[r], staging[r])
    <3>1. D \subseteq staging[r] /\ staging[r] \subseteq Nat /\ IsFiniteSet(staging[r])
      BY DEF DuplicateLines, TypeInv, TypeOK, Finite
    <3>2. IsFiniteSet(D)
      BY <3>1, FS_Subset
    <3>3. D \X {"duplicate"} \subseteq Nat \X Codes
      BY <3>1 DEF Codes
    <3>4. IsFiniteSet(D \X {"duplicate"})
      BY <3>2, FS_Product, FS_Singleton
    <3>5. errors' = [errors EXCEPT ![r] = @ \cup Signed(w, D \X {"duplicate"})]
      BY <1>4, <2>2 DEF InsertDuplicateErrors
    <3> QED BY <3>3, <3>4, <3>5
  <2> QED BY <2>1, <2>2
<1>6. /\ errors' \in [Reports -> SUBSET (Nat \X Codes \X Workers)]
      /\ \A q \in Reports : IsFiniteSet(errors'[q])
  BY <1>5, TypeAddErrors
<1>7. /\ UNCHANGED <<queue, columns, staging, applied, lock, cur, nextRow, stagingBatch, reading, seenErrors>>
      /\ errorBatch' = errorBatch \/ errorBatch' = [errorBatch EXCEPT ![w] = {}]
  BY DEF WriteErrors, InsertDuplicateErrors, frames
<1>8. TypeOK'
  BY <1>3, <1>6, <1>7 DEF TypeInv, TypeOK, queue, columns
<1>9. Finite'
  BY <1>6, <1>7, FS_EmptySet DEF TypeInv, TypeOK, Finite
<1> QED BY <1>3, <1>8, <1>9 DEF TypeInv

LEMMA TypeCountErrors ==
    ASSUME TypeInv, NEW w \in Workers, CountErrors(w)
    PROVE  TypeInv'
<1>1. pc[w] \in ClaimedPCs
  BY DEF CountErrors, ClaimedPCs, Labels, OnError
<1>2. cur[w] \in Reports
  BY <1>1 DEF TypeInv, HasReport
<1>3. Cardinality(errors[cur[w]]) \in Nat
  BY <1>2, FS_CardinalityType DEF TypeInv, Finite
<1>4. PICK l \in ClaimedPCs : pc' = [pc EXCEPT ![w] = l]
  BY DEF CountErrors, Goto, ClaimedPCs, Labels, AfterCheck, OnError
<1>5. /\ seenErrors' = [seenErrors EXCEPT ![w] = Cardinality(errors[cur[w]])]
      /\ UNCHANGED <<queue, columns, staging, errors, applied, lock, cur, nextRow,
                     stagingBatch, errorBatch, reading, faults>>
  BY DEF CountErrors
<1>6. TypeOK'
  BY <1>3, <1>4, <1>5 DEF TypeInv, TypeOK, queue, columns, ClaimedPCs
<1>7. Finite' /\ HasReport'
  BY <1>2, <1>4, <1>5 DEF TypeInv, TypeOK, Finite, HasReport
<1> QED BY <1>6, <1>7 DEF TypeInv

\* The update that ends a cycle keeps the types of the columns.
LEMMA TypeUpdate ==
    ASSUME TypeInv, NEW r \in Reports, NEW st \in {"processing", "failed"},
           NEW rows \in Nat, NEW count \in Nat,
           NEW kind \in {"none", "validation", "processing"},
           UpdateProcessing(r, st, rows, count, kind)
    PROVE  /\ status' \in [Reports -> {"absent", "inserting"} \cup Visible]
           /\ rowCount' \in [Reports -> Nat]
           /\ errorCount' \in [Reports -> Nat]
           /\ failureKind' \in [Reports -> {"none", "validation", "processing"}]
BY ZenonT(30) DEF TypeInv, TypeOK, UpdateProcessing, columns, Visible, Claimable, Terminal

LEMMA TypeEndOfCycle ==
    ASSUME TypeInv, NEW w \in Workers,
           \/ FinalizeValidationFailure(w) \/ MarkValidated(w)
           \/ MarkProcessingFailed(w) \/ MarkApplyFailed(w)
    PROVE  TypeInv'
<1>1. pc[w] \in DOMAIN OnError \cap ClaimedPCs /\ CommitThen(w, "unlock")
  BY DEF FinalizeValidationFailure, MarkValidated, MarkProcessingFailed, MarkApplyFailed,
         MarkFailed, OnError, ClaimedPCs, Labels
<1>2. UNCHANGED <<queue, applied, lock, frames>>
  BY DEF FinalizeValidationFailure, MarkValidated, MarkProcessingFailed, MarkApplyFailed, MarkFailed
<1>3. /\ cur[w] \in Reports
      /\ pc' \in [Workers -> Labels]
      /\ faults' \in [FaultKinds -> Nat]
      /\ HasReport'
  BY <1>1, <1>2, TypeTransaction DEF frames
<1>4. PICK r \in Reports : r = cur[w]
  BY <1>3
<1>5. /\ errors' \in [Reports -> SUBSET (Nat \X Codes \X Workers)]
      /\ \A q \in Reports : IsFiniteSet(errors'[q])
  <2>1. CASE FinalizeValidationFailure(w) \/ MarkValidated(w)
    BY <2>1 DEF FinalizeValidationFailure, MarkValidated, TypeInv, TypeOK, Finite
  <2>2. CASE MarkProcessingFailed(w) \/ MarkApplyFailed(w)
    <3>1. PICK code \in Codes : errors' = [errors EXCEPT ![r] = @ \cup {<<0, code, w>>}]
      BY <1>4, <2>2 DEF MarkProcessingFailed, MarkApplyFailed, MarkFailed, Codes
    <3>2. Signed(w, {<<0, code>>}) = {<<0, code, w>>}
      BY DEF Signed
    <3>3. {<<0, code>>} \subseteq Nat \X Codes
      OBVIOUS
    <3>4. IsFiniteSet({<<0, code>>})
      BY FS_Singleton, Zenon
    <3> QED BY <3>1, <3>2, <3>3, <3>4, TypeAddErrors
  <2> QED BY <2>1, <2>2
<1>6. PICK st \in {"processing", "failed"}, rows \in Nat, count \in Nat,
           kind \in {"none", "validation", "processing"} :
         UpdateProcessing(r, st, rows, count, kind)
  <2>1. RowsRead(w) \in Nat /\ seenErrors[w] \in Nat /\ rowCount[r] \in Nat
    BY DEF RowsRead, TypeInv, TypeOK
  <2>2. Cardinality(errors'[r]) \in Nat
    BY <1>5, FS_CardinalityType
  <2>3. failureKind[r] \in {"none", "validation", "processing"}
    BY DEF TypeInv, TypeOK
  <2> QED BY <1>4, <2>1, <2>2, <2>3
      DEF FinalizeValidationFailure, MarkValidated, MarkProcessingFailed, MarkApplyFailed, MarkFailed
<1>7. staging' = staging \/ staging' = [staging EXCEPT ![r] = {}]
  BY <1>4 DEF FinalizeValidationFailure, MarkValidated, MarkProcessingFailed, MarkApplyFailed, MarkFailed
<1>8. /\ staging' \in [Reports -> SUBSET Nat]
      /\ \A q \in Reports : IsFiniteSet(staging'[q])
  BY <1>7, FS_EmptySet DEF TypeInv, TypeOK, Finite
<1>9. TypeOK'
  <2>1. /\ status' \in [Reports -> {"absent", "inserting"} \cup Visible]
        /\ rowCount' \in [Reports -> Nat]
        /\ errorCount' \in [Reports -> Nat]
        /\ failureKind' \in [Reports -> {"none", "validation", "processing"}]
    BY <1>6, TypeUpdate
  <2> QED BY <1>2, <1>3, <1>5, <1>8, <2>1 DEF TypeInv, TypeOK, queue, frames
<1>10. Finite'
  BY <1>2, <1>5, <1>8 DEF TypeInv, Finite, frames
<1> QED BY <1>3, <1>9, <1>10 DEF TypeInv

LEMMA TypeCommitApply ==
    ASSUME TypeInv, NEW w \in Workers, CommitApply(w)
    PROVE  TypeInv'
<1>1. pc[w] \in DOMAIN OnError \cap ClaimedPCs /\ CommitThen(w, "unlock") /\ cur' = cur
  BY DEF CommitApply, OnError, ClaimedPCs, Labels, frames
<1>2. /\ cur[w] \in Reports
      /\ pc' \in [Workers -> Labels]
      /\ faults' \in [FaultKinds -> Nat]
      /\ HasReport'
  BY <1>1, TypeTransaction
<1>3. PICK r \in Reports : r = cur[w]
  BY <1>2
<1>4. applied' \in Seq([report : Reports, lines : SUBSET Nat])
  BY <1>3 DEF CommitApply, TypeInv, TypeOK
<1>5. /\ status' = [status EXCEPT ![r] = "completed"]
      /\ failureKind' = [failureKind EXCEPT ![r] = "none"]
      /\ staging' = [staging EXCEPT ![r] = {}]
      /\ UNCHANGED <<queue, rowCount, errorCount, errors, lock, frames>>
  BY <1>3 DEF CommitApply
<1>6. TypeOK'
  BY <1>2, <1>4, <1>5 DEF TypeInv, TypeOK, queue, frames, Visible, Terminal
<1>7. Finite'
  BY <1>5, FS_EmptySet DEF TypeInv, TypeOK, Finite, frames
<1> QED BY <1>2, <1>6, <1>7 DEF TypeInv

LEMMA TypeLoss ==
    ASSUME TypeInv, NEW w \in Workers, LoseLock(w) \/ Crash(w)
    PROVE  TypeInv'
<1>1. {"lockloss", "crash"} \subseteq FaultKinds
  BY DEF FaultKinds
<1>2. faults' \in [FaultKinds -> Nat]
  BY <1>1, FaultType DEF LoseLock, Crash
<1>3. CASE LoseLock(w)
  BY <1>2, <1>3 DEF LoseLock, TypeInv, TypeOK, Finite, HasReport, queue, columns, frames
<1>4. CASE Crash(w)
  <2>1. "down" \in Labels \ ClaimedPCs
    BY DEF Labels, ClaimedPCs
  <2>2. ResetFrame(w, None)
    BY <1>4 DEF Crash
  <2>3. TypeOK'
    BY <1>2, <1>4, <2>1, <2>2, TypeFrame DEF TypeInv, TypeOK, Crash, Goto, queue, columns
  <2>4. HasReport'
    BY <1>4, <2>1, <2>2 DEF TypeInv, TypeOK, HasReport, Crash, ResetFrame, Goto
  <2>5. Finite'
    BY <1>4, <2>2, TypeFrame DEF TypeInv, Finite, Crash
  <2> QED BY <2>3, <2>4, <2>5 DEF TypeInv
<1> QED BY <1>3, <1>4

LEMMA TypeStep == TypeInv /\ [Next]_vars => TypeInv'
<1> SUFFICES ASSUME TypeInv, [Next]_vars PROVE TypeInv'
  OBVIOUS
<1>1. CASE UNCHANGED vars
  BY <1>1 DEF TypeInv, TypeOK, Finite, HasReport, vars, queue, columns, frames
<1>2. ASSUME NEW r \in Reports, BeginRegister(r) \/ CommitRegister(r) PROVE TypeInv'
  BY <1>2, TypeRegister
<1>3. ASSUME NEW w \in Workers, Work(w) PROVE TypeInv'
  BY <1>3, TypeCycle, TypeClaim, TypeMove, TypeRead, TypeWriteStaging, TypeWriteErrors,
     TypeCountErrors, TypeEndOfCycle, TypeCommitApply DEF Work
<1>4. ASSUME NEW w \in Workers, Disturb(w) PROVE TypeInv'
  BY <1>4, TypeMove, TypeLoss DEF Disturb
<1> QED BY <1>1, <1>2, <1>3, <1>4 DEF Next

\* Every reachable state is well typed; in particular the counters stored with
\* a report are natural numbers, as the CHECK constraints of reports demand
\* (models.py:46-50).
THEOREM TypeCorrect == Spec => []TypeOK
<1>1. TypeInv => TypeOK
  BY DEF TypeInv
<1> QED BY TypeInit, TypeStep, <1>1, PTL DEF Spec

-----------------------------------------------------------------------------
(* Safety: what is stored for a report, and how far its worker is. *)

\* Staging rows, and rows waiting in a batch, are valid lines of their file;
\* reports that were never claimed have none.
LinesOK ==
    /\ \A r \in Reports : staging[r] \subseteq ValidLines(file[r])
    /\ \A r \in Reports : status[r] \in {"absent", "inserting", "pending"} => staging[r] = {}
    /\ \A w \in Workers : cur[w] \in Reports => stagingBatch[w] \subseteq ValidLines(file[cur[w]])

\* How far a worker has read its file.
ReadOK ==
    \A w \in Workers : cur[w] \in Reports =>
        /\ status[cur[w]] \in {"processing"} \cup Terminal
        /\ nextRow[w] <= Len(file[cur[w]]) + 1
        /\ reading[w] = "eof" => nextRow[w] = Len(file[cur[w]]) + 1
        /\ pc[w] \in {"chk_open", "open", "read"} => reading[w] = "reading"
        /\ pc[w] \in {"chk_validated", "mark_validated"} => reading[w] = "eof"

\* A row_count that can let a report be applied is that of the whole file.
RowsOK ==
    \A r \in Reports :
        /\ status[r] \in {"absent", "inserting", "pending"} => rowCount[r] = 0
        /\ status[r] \in {"processing", "completed"} => rowCount[r] \in {0, Len(file[r])}

\* Older reports come first in the queue.
QueueOK ==
    \A r \in Reports :
        /\ stamp[r] <= clock
        /\ \A q \in older[r] : status[q] \in Visible /\ stamp[q] < stamp[r]

\* What the worker that holds the row lock has checked stays true under it.
RowLocked ==
    \A w \in Workers : pc[w] \in HoldsRow =>
        /\ status[cur[w]] = "processing"
        /\ staging[cur[w]] = DOMAIN file[cur[w]]
        /\ ValidLines(file[cur[w]]) = DOMAIN file[cur[w]]
        /\ \A v \in Workers \ {w} : pc[v] \in HoldsRow => cur[v] # cur[w]

SafeInv ==
    /\ LinesOK /\ ReadOK /\ RowsOK /\ QueueOK /\ RowLocked
    /\ CompletedExactlyOnce /\ AppliedComplete /\ NoOvertaking

LEMMA SafeInit == Init => SafeInv
<1> SUFFICES ASSUME Init PROVE SafeInv
  OBVIOUS
<1>1. LinesOK /\ RowsOK /\ QueueOK
  BY DEF Init, LinesOK, RowsOK, QueueOK
<1>2. ReadOK /\ RowLocked
  BY NoneAssumption DEF Init, ReadOK, RowLocked, HoldsRow
<1>3. CompletedExactlyOnce /\ AppliedComplete /\ NoOvertaking
  BY DEF Init, CompletedExactlyOnce, AppliedComplete, NoOvertaking, Terminal
<1> QED BY <1>1, <1>2, <1>3 DEF SafeInv

\* A worker at a label of the apply transaction has a report.
LEMMA HoldersHaveReports ==
    ASSUME TypeInv, NEW w \in Workers, pc[w] \in HoldsRow
    PROVE  cur[w] \in Reports
BY DEF TypeInv, HasReport, HoldsRow, ClaimedPCs, Labels, AfterCheck, OnError

LEMMA AppliedTyped ==
    ASSUME TypeInv, NEW i \in DOMAIN applied
    PROVE  applied[i].report \in Reports /\ file[applied[i].report] \in Seq(Records)
<1> DEFINE Snapshots == [report : Reports, lines : SUBSET Nat]
<1>1. applied \in Seq(Snapshots)
  BY DEF TypeInv, TypeOK
<1>2. \A x \in Snapshots : x.report \in Reports
  OBVIOUS
<1>3. applied[i] \in Snapshots
  <2> HIDE DEF Snapshots
  <2> QED BY <1>1
<1>4. file \in [Reports -> Seq(Records)]
  BY DEF TypeInv, TypeOK
<1> QED BY <1>2, <1>3, <1>4

-----------------------------------------------------------------------------
(* Steps that leave the tables and the reading alone. *)

\* The labels at which ReadOK says more.
ReadingPCs   == {"chk_open", "open", "read"}
ValidatedPCs == {"chk_validated", "mark_validated"}

LEMMA SafeJump ==
    ASSUME TypeInv, SafeInv, NEW w \in Workers, NEW l,
           pc' = [pc EXCEPT ![w] = l],
           UNCHANGED <<queue, columns, staging, applied, cur, nextRow, stagingBatch, reading>>,
           l \in HoldsRow => pc[w] \in HoldsRow,
           l \in ReadingPCs => reading[w] = "reading",
           l \in ValidatedPCs => reading[w] = "eof"
    PROVE  SafeInv'
<1>1. \A v \in Workers : pc'[v] = IF v = w THEN l ELSE pc[v]
  BY DEF TypeInv, TypeOK
<1>2. LinesOK' /\ RowsOK' /\ QueueOK'
  BY DEF SafeInv, LinesOK, RowsOK, QueueOK, queue, columns
<1>3. ReadOK'
  BY <1>1 DEF SafeInv, ReadOK, queue, columns, ReadingPCs, ValidatedPCs
<1>4. RowLocked'
  BY <1>1 DEF SafeInv, RowLocked, queue, columns
<1>5. CompletedExactlyOnce' /\ AppliedComplete' /\ NoOvertaking'
  BY DEF SafeInv, CompletedExactlyOnce, AppliedComplete, NoOvertaking, queue, columns
<1> QED BY <1>2, <1>3, <1>4, <1>5 DEF SafeInv

\* The end of a cycle, planned or not, forgets the report.
LEMMA SafeForget ==
    ASSUME TypeInv, SafeInv, NEW w \in Workers, Unlock(w) \/ Crash(w)
    PROVE  SafeInv'
<1>1. PICK l \in {"idle", "down"} : pc' = [pc EXCEPT ![w] = l]
  BY DEF Unlock, Crash, Goto
<1>2. /\ ResetFrame(w, None)
      /\ UNCHANGED <<queue, columns, staging, errors, applied>>
  BY DEF Unlock, Crash
<1>3. \A v \in Workers :
        /\ v # w => /\ pc'[v] = pc[v] /\ cur'[v] = cur[v] /\ nextRow'[v] = nextRow[v]
                    /\ stagingBatch'[v] = stagingBatch[v] /\ reading'[v] = reading[v]
        /\ v = w => pc'[v] = l /\ cur'[v] = None
  BY <1>1, <1>2 DEF TypeInv, TypeOK, ResetFrame
<1>4. LinesOK' /\ RowsOK' /\ QueueOK'
  BY <1>2, <1>3, NoneAssumption DEF SafeInv, LinesOK, RowsOK, QueueOK, queue, columns
<1>5. ReadOK'
  BY <1>2, <1>3, NoneAssumption DEF SafeInv, ReadOK, queue, columns
<1>6. RowLocked'
  BY <1>2, <1>3 DEF SafeInv, RowLocked, HoldsRow, queue, columns
<1>7. CompletedExactlyOnce' /\ AppliedComplete' /\ NoOvertaking'
  BY <1>2 DEF SafeInv, CompletedExactlyOnce, AppliedComplete, NoOvertaking, queue, columns
<1> QED BY <1>4, <1>5, <1>6, <1>7 DEF SafeInv

\* A step of the lock, or an exception, takes a worker nowhere new.
LEMMA SafeMove ==
    ASSUME TypeInv, SafeInv, NEW w \in Workers,
           \/ AcquireLock(w) \/ AssertLock(w) \/ ClaimNothing(w) \/ OpenOriginal(w)
           \/ StorageFault(w) \/ NoticeLossWhileReading(w) \/ RollBack(w)
           \/ StagingKeyViolation(w) \/ ApplyStatements(w) \/ DuplicateUpsertFails(w)
           \/ Restart(w)
    PROVE  SafeInv'
<1>1. UNCHANGED <<queue, columns, staging, applied, cur, nextRow, stagingBatch, reading>>
  BY DEF AcquireLock, AssertLock, ClaimNothing, OpenOriginal, StorageFault, NoticeLossWhileReading,
         RollBack, StagingKeyViolation, ApplyStatements, DuplicateUpsertFails, Restart, frames
<1>2. PICK l : /\ pc' = [pc EXCEPT ![w] = l]
               /\ l \in HoldsRow => pc[w] \in HoldsRow
               /\ l \in ReadingPCs => pc[w] \in ReadingPCs
               /\ l \in ValidatedPCs => pc[w] \in ValidatedPCs
  <2>1. CASE AssertLock(w)
    <3> DEFINE l == IF lock = w THEN AfterCheck[pc[w]] ELSE "unlock"
    <3>1. pc' = [pc EXCEPT ![w] = l]
      BY <2>1 DEF AssertLock, Goto
    <3>2. /\ l \in HoldsRow => pc[w] \in HoldsRow
          /\ l \in ReadingPCs => pc[w] \in ReadingPCs
          /\ l \in ValidatedPCs => pc[w] \in ValidatedPCs
      BY <2>1 DEF AssertLock, AfterCheck, HoldsRow, ReadingPCs, ValidatedPCs
    <3> HIDE DEF l
    <3> QED BY <3>1, <3>2
  <2>2. CASE StorageFault(w) \/ RollBack(w) \/ StagingKeyViolation(w) \/ DuplicateUpsertFails(w)
    <3>1. pc[w] \in DOMAIN OnError /\ pc' = [pc EXCEPT ![w] = OnError[pc[w]]]
      BY <2>2 DEF StorageFault, RollBack, StagingKeyViolation, DuplicateUpsertFails, Goto, OnError
    <3>2. OnError[pc[w]] \in {"chk_failed", "chk_apply_failed", "unlock"}
      BY <3>1, ErrorTargets
    <3> QED BY <3>1, <3>2 DEF HoldsRow, ReadingPCs, ValidatedPCs
  <2>3. CASE AcquireLock(w) \/ ClaimNothing(w) \/ NoticeLossWhileReading(w) \/ Restart(w)
    <3>1. PICK l \in {"claim", "unlock", "idle"} : pc' = [pc EXCEPT ![w] = l]
      BY <2>3 DEF AcquireLock, ClaimNothing, NoticeLossWhileReading, Restart, Goto
    <3> QED BY <3>1 DEF HoldsRow, ReadingPCs, ValidatedPCs
  <2>4. CASE OpenOriginal(w)
    <3>1. pc[w] = "open" /\ pc' = [pc EXCEPT ![w] = "read"]
      BY <2>4 DEF OpenOriginal, Goto
    <3>2. "open" \in ReadingPCs /\ "read" \notin HoldsRow /\ "read" \notin ValidatedPCs
      BY DEF HoldsRow, ReadingPCs, ValidatedPCs
    <3> QED BY <3>1, <3>2
  <2>5. CASE ApplyStatements(w)
    <3>1. pc[w] = "apply_statements" /\ pc' = [pc EXCEPT ![w] = "chk_commit"]
      BY <2>5 DEF ApplyStatements, Goto
    <3>2. /\ "apply_statements" \in HoldsRow
          /\ "chk_commit" \notin ReadingPCs /\ "chk_commit" \notin ValidatedPCs
      BY DEF HoldsRow, ReadingPCs, ValidatedPCs
    <3> QED BY <3>1, <3>2
  <2> QED BY <2>1, <2>2, <2>3, <2>4, <2>5
<1>3. /\ pc[w] \in ReadingPCs => reading[w] = "reading"
      /\ pc[w] \in ValidatedPCs => reading[w] = "eof"
  <2>1. pc[w] \in ReadingPCs \cup ValidatedPCs => cur[w] \in Reports
    BY DEF TypeInv, HasReport, ReadingPCs, ValidatedPCs, ClaimedPCs, Labels, AfterCheck, OnError
  <2> QED BY <2>1 DEF SafeInv, ReadOK, ReadingPCs, ValidatedPCs
<1> QED BY <1>1, <1>2, <1>3, SafeJump

LEMMA SafeLoseLock ==
    ASSUME TypeInv, SafeInv, NEW w \in Workers, LoseLock(w)
    PROVE  SafeInv'
BY DEF LoseLock, SafeInv, LinesOK, ReadOK, RowsOK, QueueOK, RowLocked, CompletedExactlyOnce,
       AppliedComplete, NoOvertaking, queue, columns, frames

-----------------------------------------------------------------------------
(* Registration and claims. *)

LEMMA SafeRegister ==
    ASSUME TypeInv, SafeInv, NEW r \in Reports, BeginRegister(r) \/ CommitRegister(r)
    PROVE  SafeInv'
<1>1. /\ status[r] \in {"absent", "inserting"}
      /\ status' \in {[status EXCEPT ![r] = "inserting"], [status EXCEPT ![r] = "pending"]}
  BY DEF BeginRegister, CommitRegister
<1>2. \A q \in Reports : status'[q] = IF q = r THEN status'[r] ELSE status[q]
  BY <1>1 DEF TypeInv, TypeOK
<1>3. status'[r] \in {"inserting", "pending"}
  BY <1>1 DEF TypeInv, TypeOK
<1>4. /\ UNCHANGED <<rowCount, staging, applied, pc, cur, nextRow, stagingBatch, reading>>
      /\ \A q \in Reports \ {r} : file'[q] = file[q] /\ stamp'[q] = stamp[q] /\ older'[q] = older[q]
  BY DEF BeginRegister, CommitRegister, queue, frames, TypeInv, TypeOK
<1>5. \A v \in Workers : cur[v] # r
  BY <1>1 DEF SafeInv, ReadOK, Terminal
<1>6. LinesOK'
  <2>1. staging[r] = {} /\ \A v \in Workers : cur'[v] # r
    BY <1>1, <1>4, <1>5 DEF SafeInv, LinesOK
  <2> QED BY <1>2, <1>4, <2>1 DEF SafeInv, LinesOK
<1>7. ReadOK'
  BY <1>2, <1>4, <1>5 DEF SafeInv, ReadOK
<1>8. RowsOK'
  BY <1>1, <1>2, <1>3, <1>4 DEF SafeInv, RowsOK
<1>9. QueueOK'
  <2>1. \A q \in Reports : r \notin older[q]
    BY <1>1 DEF SafeInv, QueueOK, Visible, Claimable, Terminal
  <2>2. CASE BeginRegister(r)
    <3>1. /\ clock' = clock + 1 /\ stamp'[r] = clock + 1
          /\ older'[r] = {q \in Reports : status[q] \in Visible}
      BY <2>2 DEF BeginRegister, TypeInv, TypeOK
    <3>2. clock \in Nat /\ \A q \in Reports : stamp[q] \in Nat /\ stamp[q] <= clock /\ older[q] \subseteq Reports
      BY DEF TypeInv, TypeOK, SafeInv, QueueOK
    <3>3. r \notin older'[r]
      BY <1>1, <3>1 DEF Visible, Claimable, Terminal
    <3>4. stamp'[r] <= clock' /\ \A q \in older'[r] : status'[q] \in Visible /\ stamp'[q] < stamp'[r]
      BY <1>2, <1>4, <3>1, <3>2, <3>3
    <3>5. ASSUME NEW p \in Reports \ {r}
          PROVE  stamp'[p] <= clock' /\ \A q \in older'[p] : status'[q] \in Visible /\ stamp'[q] < stamp'[p]
      <4>1. stamp'[p] <= clock'
        BY <1>4, <3>1, <3>2
      <4>2. ASSUME NEW q \in older'[p] PROVE status'[q] \in Visible /\ stamp'[q] < stamp'[p]
        <5>1. q \in older[p] /\ q \in Reports \ {r}
          BY <1>4, <2>1, <3>2, <4>2
        <5> QED BY <1>2, <1>4, <5>1 DEF SafeInv, QueueOK
      <4> QED BY <4>1, <4>2
    <3> QED BY <3>4, <3>5 DEF QueueOK
  <2>3. CASE CommitRegister(r)
    <3>1. UNCHANGED <<stamp, older, clock>>
      BY <2>3 DEF CommitRegister, queue
    <3>2. \A q \in Reports : older[q] \subseteq Reports
      BY DEF TypeInv, TypeOK
    <3> QED BY <1>2, <2>1, <3>1, <3>2 DEF SafeInv, QueueOK
  <2> QED BY <2>2, <2>3
<1>10. RowLocked'
  BY <1>2, <1>4, <1>5, HoldersHaveReports DEF SafeInv, RowLocked
<1>11. CompletedExactlyOnce'
  BY <1>1, <1>2, <1>3, <1>4 DEF SafeInv, CompletedExactlyOnce
<1>12. AppliedComplete'
  <2>1. ASSUME NEW i \in DOMAIN applied PROVE applied[i].report \in Reports \ {r}
    <3>2. applied[i].report \in Reports
      BY AppliedTyped
    <3>3. status[applied[i].report] = "completed"
      BY <3>2 DEF SafeInv, CompletedExactlyOnce
    <3> QED BY <1>1, <3>2, <3>3
  <2> QED BY <1>4, <2>1 DEF SafeInv, AppliedComplete
<1>13. NoOvertaking'
  <2>1. \A q \in Reports : r \notin older[q] /\ older[q] \subseteq Reports
    BY <1>1 DEF TypeInv, TypeOK, SafeInv, QueueOK, Visible, Claimable, Terminal
  <2> QED BY <1>2, <1>3, <1>4, <2>1 DEF SafeInv, NoOvertaking, Terminal
<1> QED BY <1>6, <1>7, <1>8, <1>9, <1>10, <1>11, <1>12, <1>13 DEF SafeInv

LEMMA SafeClaim ==
    ASSUME TypeInv, SafeInv, NEW w \in Workers, ClaimForApply(w) \/ ClaimForValidation(w)
    PROVE  SafeInv'
<1>1. PICK r \in Oldest :
        /\ ~Locked(r)
        /\ ResetFrame(w, r)
        /\ \/ UNCHANGED <<status, rowCount, staging>>
           \/ /\ status' = [status EXCEPT ![r] = "processing"]
              /\ rowCount' = [rowCount EXCEPT ![r] = 0]
              /\ staging' = [staging EXCEPT ![r] = {}]
        /\ status'[r] = "processing"
  <2>1. CASE ClaimForApply(w)
    BY <2>1 DEF ClaimForApply, columns
  <2>2. CASE ClaimForValidation(w)
    BY <2>2, ZenonT(30) DEF ClaimForValidation, TypeInv, TypeOK, Oldest
  <2> QED BY <2>1, <2>2
<1>2. /\ r \in Reports /\ status[r] \in Claimable
      /\ \A q \in Reports : status[q] \in Claimable => stamp[r] <= stamp[q]
  BY DEF Oldest
<1>3. UNCHANGED <<queue, applied>>
  BY DEF ClaimForApply, ClaimForValidation
<1>4. /\ \A v \in Workers \ {w} : pc'[v] = pc[v]
      /\ pc'[w] \in {"chk_apply", "chk_open", "unlock"}
  <2>1. PICK next \in {"chk_apply", "chk_open"} : CommitThen(w, next) /\ pc[w] = "claim"
    BY DEF ClaimForApply, ClaimForValidation
  <2>2. "claim" \in DOMAIN OnError /\ next \in ClaimedPCs \cup {"unlock"}
    BY DEF OnError, ClaimedPCs, Labels, AfterCheck
  <2>3. OnError["claim"] = "unlock"
    BY <2>2, ErrorTargets
  <2> QED BY <2>1, <2>2, <2>3, TypeCommit
<1>5. /\ cur'[w] = r /\ nextRow'[w] = 1 /\ stagingBatch'[w] = {} /\ reading'[w] = "reading"
      /\ \A v \in Workers \ {w} : /\ cur'[v] = cur[v] /\ nextRow'[v] = nextRow[v]
                                  /\ stagingBatch'[v] = stagingBatch[v] /\ reading'[v] = reading[v]
  BY <1>1 DEF ResetFrame, TypeInv, TypeOK
<1>6. \A q \in Reports \ {r} : /\ status'[q] = status[q] /\ rowCount'[q] = rowCount[q]
                              /\ staging'[q] = staging[q]
  BY <1>1 DEF TypeInv, TypeOK
<1>7. staging'[r] \subseteq staging[r] /\ rowCount'[r] \in {0, rowCount[r]}
  BY <1>1, <1>2 DEF TypeInv, TypeOK
<1>8. UNCHANGED <<file, stamp, older, clock>>
  BY <1>3 DEF queue
<1>9. LinesOK'
  BY <1>1, <1>2, <1>5, <1>6, <1>7, <1>8 DEF SafeInv, LinesOK
<1>10. ReadOK'
  <2>1. Len(file[r]) \in Nat
    BY <1>2 DEF TypeInv, TypeOK
  <2>2. ASSUME NEW v \in Workers, cur'[v] \in Reports
        PROVE  /\ status'[cur'[v]] \in {"processing"} \cup Terminal
               /\ nextRow'[v] <= Len(file'[cur'[v]]) + 1
               /\ reading'[v] = "eof" => nextRow'[v] = Len(file'[cur'[v]]) + 1
               /\ pc'[v] \in {"chk_open", "open", "read"} => reading'[v] = "reading"
               /\ pc'[v] \in {"chk_validated", "mark_validated"} => reading'[v] = "eof"
    <3>1. CASE v = w
      BY <1>1, <1>4, <1>5, <1>8, <2>1, <3>1
    <3>2. CASE v # w
      BY <1>1, <1>4, <1>5, <1>6, <1>8, <2>2, <3>2 DEF SafeInv, ReadOK
    <3> QED BY <3>1, <3>2
  <2> QED BY <2>2 DEF ReadOK
<1>11. RowsOK'
  BY <1>1, <1>2, <1>6, <1>7, <1>8 DEF SafeInv, RowsOK, Claimable
<1>12. \A q \in Reports : status[q] \in Visible => status'[q] \in Visible
  BY <1>1, <1>6 DEF Visible, Claimable
<1>13. QueueOK'
  BY <1>8, <1>12 DEF SafeInv, QueueOK, TypeInv, TypeOK
<1>14. RowLocked'
  <2>1. ASSUME NEW v \in Workers, pc'[v] \in HoldsRow
        PROVE  v # w /\ pc[v] \in HoldsRow /\ cur'[v] = cur[v] /\ cur[v] \in Reports \ {r}
    <3>1. v # w /\ pc[v] \in HoldsRow
      BY <1>4, <2>1 DEF HoldsRow
    <3> QED BY <1>1, <1>5, <3>1, HoldersHaveReports DEF Locked
  <2> QED BY <1>6, <1>8, <2>1 DEF SafeInv, RowLocked
<1>15. CompletedExactlyOnce'
  BY <1>1, <1>2, <1>3, <1>6 DEF SafeInv, CompletedExactlyOnce, Claimable
<1>16. AppliedComplete'
  BY <1>3, <1>8 DEF SafeInv, AppliedComplete
<1>17. NoOvertaking'
  <2>1. ASSUME NEW q \in older[r] PROVE status[q] \in Terminal
    BY <1>2, <2>1 DEF SafeInv, QueueOK, TypeInv, TypeOK, Visible
  <2>2. \A q \in Reports : status[q] \in Terminal => status'[q] \in Terminal
    BY <1>2, <1>6 DEF Claimable, Terminal
  <2> QED BY <1>6, <1>8, <2>1, <2>2 DEF SafeInv, NoOvertaking, TypeInv, TypeOK
<1> QED BY <1>9, <1>10, <1>11, <1>13, <1>14, <1>15, <1>16, <1>17 DEF SafeInv

-----------------------------------------------------------------------------
(* Cycle 1. *)

LEMMA SafeRead ==
    ASSUME TypeInv, SafeInv, NEW w \in Workers, ReadRow(w) \/ EndOfFile(w)
    PROVE  SafeInv'
<1>1. pc[w] = "read" /\ UNCHANGED <<queue, columns, staging, applied, cur>>
  BY DEF ReadRow, EndOfFile
<1>2. PICK r \in Reports : cur[w] = r
  BY <1>1 DEF TypeInv, HasReport, ClaimedPCs, Labels, OnError
<1>3. /\ file[r] \in Seq(Records) /\ Len(file[r]) \in Nat /\ DOMAIN file[r] = 1 .. Len(file[r])
      /\ nextRow[w] \in Nat \ {0} /\ nextRow[w] <= Len(file[r]) + 1
      /\ reading[w] = "reading"
      /\ stagingBatch[w] \subseteq ValidLines(file[r])
  BY <1>1, <1>2 DEF TypeInv, TypeOK, SafeInv, ReadOK, LinesOK
<1>4. \A v \in Workers \ {w} : /\ nextRow'[v] = nextRow[v] /\ reading'[v] = reading[v]
                             /\ stagingBatch'[v] = stagingBatch[v] /\ pc'[v] = pc[v]
  BY DEF ReadRow, EndOfFile, Goto, TypeInv, TypeOK
<1>5. /\ pc'[w] \in {"chk_staging", "chk_errors", "chk_duplicates", "read"}
      /\ pc'[w] = "read" => reading'[w] = "reading"
  <2>1. PICK sb, eb : pc' = [pc EXCEPT ![w] = NextFlush(sb, eb, reading'[w])]
    BY DEF ReadRow, EndOfFile, Goto, TypeInv, TypeOK
  <2>2. pc'[w] = NextFlush(sb, eb, reading'[w])
    BY <2>1 DEF TypeInv, TypeOK
  <2> QED BY <2>2, FlushTargets
<1>6. nextRow'[w] <= Len(file[r]) + 1 /\ (reading'[w] = "eof" => nextRow'[w] = Len(file[r]) + 1)
  <2>1. CASE ReadRow(w)
    BY <1>2, <1>3, <2>1 DEF ReadRow, TypeInv, TypeOK
  <2>2. CASE EndOfFile(w)
    BY <1>2, <1>3, <2>2 DEF EndOfFile, TypeInv, TypeOK
  <2> QED BY <2>1, <2>2
<1>7. stagingBatch'[w] \subseteq ValidLines(file[r])
  <2>1. CASE ReadRow(w)
    BY <1>2, <1>3, <2>1 DEF ReadRow, TypeInv, TypeOK, ValidLines
  <2>2. CASE EndOfFile(w)
    BY <1>3, <2>2 DEF EndOfFile
  <2> QED BY <2>1, <2>2
<1>8. LinesOK'
  BY <1>1, <1>2, <1>4, <1>7 DEF SafeInv, LinesOK, queue, columns
<1>9. ReadOK'
  BY <1>1, <1>2, <1>4, <1>5, <1>6 DEF SafeInv, ReadOK, queue, columns
<1>10. RowLocked'
  BY <1>1, <1>4, <1>5 DEF SafeInv, RowLocked, HoldsRow, queue, columns
<1>11. /\ RowsOK' /\ QueueOK' /\ CompletedExactlyOnce' /\ AppliedComplete' /\ NoOvertaking'
  BY <1>1 DEF SafeInv, RowsOK, QueueOK, CompletedExactlyOnce, AppliedComplete, NoOvertaking, queue, columns
<1> QED BY <1>8, <1>9, <1>10, <1>11 DEF SafeInv

\* The steps of a claimed report know it.
LEMMA SafeClaimed ==
    ASSUME TypeInv, SafeInv, NEW w \in Workers, pc[w] \in ClaimedPCs
    PROVE  /\ cur[w] \in Reports
           /\ status[cur[w]] \in {"processing"} \cup Terminal
           /\ file[cur[w]] \in Seq(Records)
           /\ stagingBatch[w] \subseteq ValidLines(file[cur[w]])
           /\ reading[w] = "eof" => RowsRead(w) = Len(file[cur[w]])
<1>1. cur[w] \in Reports
  BY DEF TypeInv, HasReport
<1> QED BY <1>1 DEF TypeInv, TypeOK, SafeInv, ReadOK, LinesOK, RowsRead

LEMMA SafeWriteStaging ==
    ASSUME TypeInv, SafeInv, NEW w \in Workers, WriteStaging(w)
    PROVE  SafeInv'
<1>1. pc[w] = "write_staging" /\ pc[w] \in ClaimedPCs /\ pc[w] \in DOMAIN OnError
  BY DEF WriteStaging, ClaimedPCs, Labels, OnError
<1>2. PICK r \in Reports : cur[w] = r
  BY <1>1, SafeClaimed
<1>3. /\ status[r] \in {"processing"} \cup Terminal
      /\ stagingBatch[w] \subseteq ValidLines(file[r])
  BY <1>1, <1>2, SafeClaimed
<1>4. /\ ~Locked(r)
      /\ staging' = [staging EXCEPT ![r] = @ \cup stagingBatch[w]]
      /\ stagingBatch' = [stagingBatch EXCEPT ![w] = {}]
      /\ UNCHANGED <<queue, columns, applied, cur, nextRow, reading>>
  BY <1>2 DEF WriteStaging
<1>5. /\ \A v \in Workers \ {w} : pc'[v] = pc[v]
      /\ pc'[w] \notin HoldsRow \cup ValidatedPCs
      /\ pc'[w] \in ReadingPCs => reading[w] = "reading"
  <2>1. PICK eb : CommitThen(w, NextFlush({}, eb, reading[w]))
    BY DEF WriteStaging
  <2> DEFINE next == NextFlush({}, eb, reading[w])
  <2>2. /\ next \in {"chk_staging", "chk_errors", "chk_duplicates", "read"}
        /\ next = "read" => reading[w] = "reading"
    BY FlushTargets
  <2>3. OnError[pc[w]] \in {"chk_failed", "chk_apply_failed", "unlock"}
    BY <1>1, ErrorTargets
  <2>4. CommitThen(w, next)
    BY <2>1
  <2> HIDE DEF next
  <2>5. next \in ClaimedPCs
    BY <2>2 DEF ClaimedPCs, Labels, AfterCheck, OnError
  <2>6. /\ \A v \in Workers \ {w} : pc'[v] = pc[v]
        /\ pc'[w] \in {next, OnError[pc[w]]}
    BY <1>1, <2>4, <2>5, TypeCommit
  <2> QED BY <2>2, <2>3, <2>6 DEF HoldsRow, ValidatedPCs, ReadingPCs
<1>6. /\ staging'[r] = staging[r] \cup stagingBatch[w]
      /\ \A q \in Reports \ {r} : staging'[q] = staging[q]
      /\ \A v \in Workers : stagingBatch'[v] \subseteq stagingBatch[v]
  BY <1>4 DEF TypeInv, TypeOK
<1>7. LinesOK'
  BY <1>3, <1>4, <1>6 DEF SafeInv, LinesOK, queue, columns, Terminal
<1>8. ReadOK'
  BY <1>4, <1>5 DEF SafeInv, ReadOK, queue, columns, ReadingPCs, ValidatedPCs
<1>9. RowLocked'
  BY <1>4, <1>5, <1>6, HoldersHaveReports DEF SafeInv, RowLocked, Locked, queue, columns
<1>10. /\ RowsOK' /\ QueueOK' /\ CompletedExactlyOnce' /\ AppliedComplete' /\ NoOvertaking'
  BY <1>4 DEF SafeInv, RowsOK, QueueOK, CompletedExactlyOnce, AppliedComplete, NoOvertaking, queue, columns
<1> QED BY <1>7, <1>8, <1>9, <1>10 DEF SafeInv

\* The steps that only touch errors, or look at them.
LEMMA SafeErrors ==
    ASSUME TypeInv, SafeInv, NEW w \in Workers,
           WriteErrors(w) \/ InsertDuplicateErrors(w) \/ CountErrors(w)
    PROVE  SafeInv'
<1>1. UNCHANGED <<queue, columns, staging, applied, cur, nextRow, stagingBatch, reading>>
  BY DEF WriteErrors, InsertDuplicateErrors, CountErrors, frames
<1>2. pc[w] \in DOMAIN OnError
  BY DEF WriteErrors, InsertDuplicateErrors, CountErrors, OnError
<1>3. OnError[pc[w]] \in {"chk_failed", "chk_apply_failed", "unlock"}
  BY <1>2, ErrorTargets
<1>4. PICK l : /\ pc' = [pc EXCEPT ![w] = l]
               /\ l \notin HoldsRow
               /\ l \in ReadingPCs => reading[w] = "reading"
               /\ l \in ValidatedPCs => reading[w] = "eof"
  <2>1. CASE WriteErrors(w)
    <3>1. PICK sb : CommitThen(w, NextFlush(sb, {}, reading[w]))
      BY <2>1 DEF WriteErrors
    <3> DEFINE next == NextFlush(sb, {}, reading[w])
    <3>2. /\ next \in {"chk_staging", "chk_errors", "chk_duplicates", "read"}
          /\ next = "read" => reading[w] = "reading"
      BY FlushTargets
    <3>3. \E l \in {next, OnError[pc[w]]} : pc' = [pc EXCEPT ![w] = l]
      BY <3>1 DEF CommitThen, Goto
    <3> HIDE DEF next
    <3> QED BY <1>3, <3>2, <3>3 DEF HoldsRow, ReadingPCs, ValidatedPCs
  <2>2. CASE InsertDuplicateErrors(w)
    <3>1. \E l \in {"chk_count", OnError[pc[w]]} : pc' = [pc EXCEPT ![w] = l]
      BY <2>2 DEF InsertDuplicateErrors, CommitThen, Goto
    <3> QED BY <1>3, <3>1 DEF HoldsRow, ReadingPCs, ValidatedPCs
  <2>3. CASE CountErrors(w)
    <3>1. PICK l \in {"chk_finalize", OnError[pc[w]], "chk_validated"} :
            pc' = [pc EXCEPT ![w] = l] /\ (l = "chk_validated" => reading[w] = "eof")
      <4>1. \/ pc' = [pc EXCEPT ![w] = "chk_finalize"]
            \/ pc' = [pc EXCEPT ![w] = OnError[pc[w]]]
            \/ pc' = [pc EXCEPT ![w] = "chk_validated"] /\ reading[w] = "eof"
        BY <2>3 DEF CountErrors, Goto
      <4> QED BY <1>3, <4>1
    <3> QED BY <1>3, <3>1 DEF HoldsRow, ReadingPCs, ValidatedPCs
  <2> QED BY <2>1, <2>2, <2>3
<1> QED BY <1>1, <1>4, SafeJump

\* The transactions that end a cycle.
LEMMA SafeEndOfCycle ==
    ASSUME TypeInv, SafeInv, NEW w \in Workers,
           \/ FinalizeValidationFailure(w) \/ MarkValidated(w)
           \/ MarkProcessingFailed(w) \/ MarkApplyFailed(w)
    PROVE  SafeInv'
<1>1. /\ pc[w] \in DOMAIN OnError \cap ClaimedPCs /\ CommitThen(w, "unlock")
      /\ UNCHANGED <<queue, applied, frames>> /\ ~Locked(cur[w])
  BY DEF FinalizeValidationFailure, MarkValidated, MarkProcessingFailed, MarkApplyFailed,
         MarkFailed, OnError, ClaimedPCs, Labels
<1>2. PICK r \in Reports : r = cur[w]
  BY <1>1, SafeClaimed
<1>3. status[r] \in {"processing"} \cup Terminal
  BY <1>1, <1>2, SafeClaimed
<1>4. /\ \A v \in Workers \ {w} : pc'[v] = pc[v]
      /\ pc'[w] \in {"unlock", "chk_failed", "chk_apply_failed"}
  <2>1. pc'[w] \in {"unlock", OnError[pc[w]]} /\ \A v \in Workers \ {w} : pc'[v] = pc[v]
    BY <1>1, TypeCommit
  <2> QED BY <1>1, <2>1, ErrorTargets
<1>5. PICK st, rows, count, kind :
        /\ st \in {"processing", "failed"}
        /\ UpdateProcessing(r, st, rows, count, kind)
        /\ st = "processing" => rows = Len(file[r])
  <2>1. CASE MarkValidated(w)
    <3>1. reading[w] = "eof"
      BY <1>1, <1>2, <2>1 DEF MarkValidated, SafeInv, ReadOK
    <3>2. RowsRead(w) = Len(file[r])
      BY <1>1, <1>2, <3>1, SafeClaimed
    <3> QED BY <1>2, <2>1, <3>2 DEF MarkValidated
  <2>2. CASE FinalizeValidationFailure(w)
    BY <1>2, <2>2 DEF FinalizeValidationFailure
  <2>3. CASE MarkProcessingFailed(w) \/ MarkApplyFailed(w)
    BY <1>2, <2>3 DEF MarkProcessingFailed, MarkApplyFailed, MarkFailed
  <2> QED BY <2>1, <2>2, <2>3
<1>6. /\ status'[r] = status[r] \/ (status[r] = "processing" /\ status'[r] = "failed")
      /\ rowCount'[r] = rowCount[r] \/ rowCount'[r] = Len(file[r]) \/ status'[r] = "failed"
      /\ \A q \in Reports \ {r} : status'[q] = status[q] /\ rowCount'[q] = rowCount[q]
  BY <1>5 DEF UpdateProcessing, columns, TypeInv, TypeOK
<1>7. /\ staging'[r] \subseteq staging[r]
      /\ \A q \in Reports \ {r} : staging'[q] = staging[q]
  <2>1. staging' = staging \/ staging' = [staging EXCEPT ![r] = {}]
    BY <1>2 DEF FinalizeValidationFailure, MarkValidated, MarkProcessingFailed, MarkApplyFailed, MarkFailed
  <2> QED BY <2>1 DEF TypeInv, TypeOK
<1>8. UNCHANGED <<file, stamp, older, clock, cur, nextRow, stagingBatch, reading>>
  BY <1>1 DEF queue, frames
<1>9. LinesOK'
  BY <1>3, <1>6, <1>7, <1>8 DEF SafeInv, LinesOK, Terminal
<1>10. ReadOK'
  BY <1>4, <1>6, <1>8 DEF SafeInv, ReadOK, Terminal
<1>11. RowsOK'
  BY <1>3, <1>6, <1>8 DEF SafeInv, RowsOK, Terminal
<1>12. QueueOK'
  BY <1>6, <1>8 DEF SafeInv, QueueOK, TypeInv, TypeOK, Visible, Claimable, Terminal
<1>13. RowLocked'
  <2>1. ASSUME NEW v \in Workers, pc'[v] \in HoldsRow
        PROVE  pc[v] \in HoldsRow /\ cur'[v] = cur[v] /\ cur[v] \in Reports \ {r}
    <3>1. pc[v] \in HoldsRow
      BY <1>4, <2>1 DEF HoldsRow
    <3> QED BY <1>1, <1>2, <1>8, <3>1, HoldersHaveReports DEF Locked
  <2> QED BY <1>6, <1>7, <1>8, <2>1 DEF SafeInv, RowLocked
<1>14. CompletedExactlyOnce'
  BY <1>1, <1>6 DEF SafeInv, CompletedExactlyOnce
<1>15. AppliedComplete'
  BY <1>1, <1>8 DEF SafeInv, AppliedComplete
<1>16. NoOvertaking'
  BY <1>3, <1>6, <1>8 DEF SafeInv, NoOvertaking, TypeInv, TypeOK, Terminal
<1> QED BY <1>9, <1>10, <1>11, <1>12, <1>13, <1>14, <1>15, <1>16 DEF SafeInv

-----------------------------------------------------------------------------
(* Cycle 2. *)

\* Only a whole file passes the check under the row lock: the counter and the
\* staging rows it compares may come from different workers, but each of them
\* is bounded by the valid lines of the file.
LEMMA SafeLockReport ==
    ASSUME TypeInv, SafeInv, NEW w \in Workers, LockReport(w)
    PROVE  SafeInv'
<1>1. /\ pc[w] = "lock_report" /\ pc[w] \in DOMAIN OnError \cap ClaimedPCs /\ ~Locked(cur[w])
      /\ UNCHANGED <<queue, columns, staging, errors, applied, lock, frames, faults>>
  BY DEF LockReport, OnError, ClaimedPCs, Labels
<1>2. PICK r \in Reports : r = cur[w]
  BY <1>1, SafeClaimed
<1>3. OnError[pc[w]] = "chk_apply_failed"
  BY <1>1 DEF OnError
<1>4. CASE ~ReadyForApply(r)
  <2>1. pc' = [pc EXCEPT ![w] = "chk_apply_failed"]
    BY <1>2, <1>3, <1>4 DEF LockReport, Goto
  <2>2. "chk_apply_failed" \notin HoldsRow \cup ReadingPCs \cup ValidatedPCs
    BY DEF HoldsRow, ReadingPCs, ValidatedPCs
  <2>3. UNCHANGED <<queue, columns, staging, applied, cur, nextRow, stagingBatch, reading>>
    BY <1>1 DEF frames
  <2> QED BY <2>1, <2>2, <2>3, SafeJump
<1>5. CASE ReadyForApply(r)
  <2>1. pc' = [pc EXCEPT ![w] = "apply_statements"]
    BY <1>2, <1>5 DEF LockReport, Goto
  <2>2. \A v \in Workers : pc'[v] = IF v = w THEN "apply_statements" ELSE pc[v]
    BY <2>1 DEF TypeInv, TypeOK
  <2>3. UNCHANGED <<status, rowCount, staging, applied, file, stamp, older, clock,
                    cur, nextRow, stagingBatch, reading>>
    BY <1>1 DEF queue, columns, frames
  <2>4. /\ file[r] \in Seq(Records)
        /\ status[r] = "processing"
        /\ staging[r] \subseteq ValidLines(file[r])
        /\ Cardinality(staging[r]) = Len(file[r])
    BY <1>5 DEF ReadyForApply, TypeInv, TypeOK, SafeInv, RowsOK, LinesOK
  <2>5. staging[r] = DOMAIN file[r] /\ ValidLines(file[r]) = DOMAIN file[r]
    BY <2>4, AllLines
  <2>6. RowLocked'
    <3>1. \A v \in Workers \ {w} : pc[v] \in HoldsRow => cur[v] # r
      BY <1>1, <1>2 DEF Locked
    <3> QED BY <1>2, <2>2, <2>3, <2>4, <2>5, <3>1 DEF SafeInv, RowLocked
  <2>7. ReadOK'
    BY <2>2, <2>3 DEF SafeInv, ReadOK
  <2>8. LinesOK' /\ RowsOK' /\ QueueOK'
    BY <2>3 DEF SafeInv, LinesOK, RowsOK, QueueOK
  <2>9. CompletedExactlyOnce' /\ AppliedComplete' /\ NoOvertaking'
    BY <2>3 DEF SafeInv, CompletedExactlyOnce, AppliedComplete, NoOvertaking
  <2> QED BY <2>6, <2>7, <2>8, <2>9 DEF SafeInv
<1> QED BY <1>4, <1>5

\* The commit of an apply appends the whole file of a report that was not
\* completed before.
LEMMA CommitApplyEffect ==
    ASSUME TypeInv, SafeInv, NEW w \in Workers, CommitApply(w)
    PROVE  /\ cur[w] \in Reports
           /\ status[cur[w]] = "processing"
           /\ status' = [status EXCEPT ![cur[w]] = "completed"]
           /\ staging' = [staging EXCEPT ![cur[w]] = {}]
           /\ applied' = Append(applied, [report |-> cur[w], lines |-> DOMAIN file[cur[w]]])
           /\ ValidLines(file[cur[w]]) = DOMAIN file[cur[w]]
           /\ pc'[w] \in {"unlock", "chk_apply_failed"}
           /\ \A v \in Workers \ {w} : pc'[v] = pc[v] /\ (pc[v] \in HoldsRow => cur[v] # cur[w])
           /\ UNCHANGED <<queue, rowCount, errorCount, errors, frames>>
<1>1. /\ pc[w] \in HoldsRow /\ pc[w] \in DOMAIN OnError /\ CommitThen(w, "unlock")
      /\ OnError[pc[w]] = "chk_apply_failed"
  BY DEF CommitApply, HoldsRow, OnError
<1>2. /\ \A v \in Workers \ {w} : pc'[v] = pc[v]
      /\ pc'[w] \in {"unlock", "chk_apply_failed"}
  BY <1>1, TypeCommit
<1>3. cur[w] \in Reports
  BY <1>1, HoldersHaveReports
<1> QED BY <1>1, <1>2, <1>3 DEF CommitApply, SafeInv, RowLocked

LEMMA SafeCommitApply ==
    ASSUME TypeInv, SafeInv, NEW w \in Workers, CommitApply(w)
    PROVE  SafeInv'
<1>1. PICK r \in Reports : r = cur[w]
  BY CommitApplyEffect
<1> DEFINE new == [report |-> r, lines |-> DOMAIN file[r]]
<1>2. /\ status[r] = "processing"
      /\ applied' = Append(applied, new)
      /\ ValidLines(file[r]) = DOMAIN file[r]
      /\ pc'[w] \in {"unlock", "chk_apply_failed"}
      /\ \A v \in Workers \ {w} : pc'[v] = pc[v] /\ (pc[v] \in HoldsRow => cur[v] # r)
      /\ UNCHANGED <<file, stamp, older, clock, rowCount, cur, nextRow, stagingBatch, reading>>
  BY <1>1, CommitApplyEffect DEF queue, frames
<1>3. /\ status'[r] = "completed" /\ staging'[r] = {}
      /\ \A q \in Reports \ {r} : status'[q] = status[q] /\ staging'[q] = staging[q]
  <2>1. status' = [status EXCEPT ![r] = "completed"] /\ staging' = [staging EXCEPT ![r] = {}]
    BY <1>1, CommitApplyEffect
  <2> QED BY <2>1 DEF TypeInv, TypeOK
<1> HIDE DEF new
<1>4. /\ Len(applied) \in Nat
      /\ DOMAIN applied = 1 .. Len(applied)
      /\ DOMAIN applied' = 1 .. Len(applied) + 1
      /\ applied'[Len(applied) + 1] = new
      /\ \A i \in DOMAIN applied : applied'[i] = applied[i]
  <2>1. applied \in Seq([report : Reports, lines : SUBSET Nat])
    BY DEF TypeInv, TypeOK
  <2> QED BY <1>2, <2>1
<1>5. \A i \in DOMAIN applied : applied[i].report \in Reports \ {r}
  <2>1. ASSUME NEW i \in DOMAIN applied PROVE applied[i].report \in Reports \ {r}
    BY <1>2, AppliedTyped DEF SafeInv, CompletedExactlyOnce
  <2> QED BY <2>1
<1>6. LinesOK' /\ RowsOK'
  BY <1>2, <1>3 DEF SafeInv, LinesOK, RowsOK
<1>7. ReadOK'
  BY <1>2, <1>3 DEF SafeInv, ReadOK, Terminal
<1>8. QueueOK'
  BY <1>2, <1>3 DEF SafeInv, QueueOK, TypeInv, TypeOK, Visible, Terminal
<1>9. RowLocked'
  <2>1. ASSUME NEW v \in Workers, pc'[v] \in HoldsRow
        PROVE  v # w /\ pc[v] \in HoldsRow /\ cur[v] \in Reports \ {r}
    BY <1>2, <2>1, HoldersHaveReports DEF HoldsRow
  <2> QED BY <1>2, <1>3, <2>1 DEF SafeInv, RowLocked
<1>10. new.report = r /\ new.lines = DOMAIN file[r]
  BY DEF new
<1>11. CompletedExactlyOnce'
  <2>1. \A i, j \in DOMAIN applied' : applied'[i].report = applied'[j].report => i = j
    BY <1>4, <1>5, <1>10 DEF SafeInv, CompletedExactlyOnce
  <2>2. ASSUME NEW q \in Reports
        PROVE  status'[q] = "completed" <=> \E i \in DOMAIN applied' : applied'[i].report = q
    <3>1. CASE q = r
      BY <1>3, <1>4, <1>10, <3>1
    <3>2. CASE q # r
      BY <1>3, <1>4, <1>10, <3>2 DEF SafeInv, CompletedExactlyOnce
    <3> QED BY <3>1, <3>2
  <2> QED BY <2>1, <2>2 DEF CompletedExactlyOnce
<1>12. AppliedComplete'
  <2>1. ASSUME NEW i \in DOMAIN applied'
        PROVE  LET f == file'[applied'[i].report]
               IN  applied'[i].lines = DOMAIN f /\ ValidLines(f) = DOMAIN f
    <3>1. CASE i = Len(applied) + 1
      BY <1>2, <1>4, <1>10, <3>1
    <3>2. CASE i \in DOMAIN applied
      BY <1>2, <1>4, <3>2 DEF SafeInv, AppliedComplete
    <3> QED BY <1>4, <3>1, <3>2
  <2> QED BY <2>1 DEF AppliedComplete
<1>13. NoOvertaking'
  BY <1>2, <1>3 DEF SafeInv, NoOvertaking, TypeInv, TypeOK, Terminal
<1> QED BY <1>6, <1>7, <1>8, <1>9, <1>11, <1>12, <1>13 DEF SafeInv

-----------------------------------------------------------------------------
LEMMA SafeStep == TypeInv /\ SafeInv /\ [Next]_vars => SafeInv'
<1> SUFFICES ASSUME TypeInv, SafeInv, [Next]_vars PROVE SafeInv'
  OBVIOUS
<1>1. CASE UNCHANGED vars
  BY <1>1 DEF SafeInv, LinesOK, ReadOK, RowsOK, QueueOK, RowLocked, CompletedExactlyOnce,
              AppliedComplete, NoOvertaking, vars, queue, columns, frames
<1>2. ASSUME NEW r \in Reports, BeginRegister(r) \/ CommitRegister(r) PROVE SafeInv'
  BY <1>2, SafeRegister
<1>3. ASSUME NEW w \in Workers, Work(w) PROVE SafeInv'
  BY <1>3, SafeMove, SafeForget, SafeClaim, SafeRead, SafeWriteStaging, SafeErrors,
     SafeEndOfCycle, SafeLockReport, SafeCommitApply DEF Work
<1>4. ASSUME NEW w \in Workers, Disturb(w) PROVE SafeInv'
  BY <1>4, SafeMove, SafeLoseLock, SafeForget DEF Disturb
<1> QED BY <1>1, <1>2, <1>3, <1>4 DEF Next

THEOREM SafetyInvariant == Spec => [](TypeInv /\ SafeInv)
BY TypeInit, TypeStep, SafeInit, SafeStep, PTL DEF Spec

\* A report is completed exactly when its snapshot reached the stock tables,
\* and that happened once (apply_report.py:83-142).
THEOREM CompletedOnce == Spec => []CompletedExactlyOnce
<1>1. SafeInv => CompletedExactlyOnce
  BY DEF SafeInv
<1> QED BY SafetyInvariant, <1>1, PTL

\* Snapshots are applied whole, and only those of valid files, however many
\* workers overlap after losing the lock (report_processing.py:445-457,
\* apply_report.py:91-102).
THEOREM AppliedWhole == Spec => []AppliedComplete
<1>1. SafeInv => AppliedComplete
  BY DEF SafeInv
<1> QED BY SafetyInvariant, <1>1, PTL

\* Reports are worked on in the order of registration (report_processing.py:411-414).
THEOREM InOrder == Spec => []NoOvertaking
<1>1. SafeInv => NoOvertaking
  BY DEF SafeInv
<1> QED BY SafetyInvariant, <1>1, PTL

-----------------------------------------------------------------------------
(* The workers implement ImportService, and never touch a terminal report  *)
(* again.  Both follow from what a step does to the columns of a report    *)
(* and to the stock tables, given the invariants above.                    *)

\* A registered report has one of the uploaded files.
FilesOK == \A r \in Reports : status[r] # "absent" => file[r] \in Files

LEMMA FilesInit == Init => FilesOK
BY DEF Init, FilesOK

\* The report whose status r has changed from s to t.
Changes(r, s, t) ==
    /\ status[r] = s
    /\ status' = [status EXCEPT ![r] = t]

Unread == <<file, older, applied>>

\* What a step may do to the columns of reports and to the stock tables.
Effect ==
    \/ UNCHANGED <<columns, Unread>>
    \/ \E r \in Reports : BeginRegister(r) \/ CommitRegister(r)
    \/ \E r \in Oldest :
          /\ status' = [status EXCEPT ![r] = "processing"]
          /\ \A q \in Reports \ {r} : /\ rowCount'[q] = rowCount[q] /\ errorCount'[q] = errorCount[q]
                                      /\ failureKind'[q] = failureKind[q]
          /\ UNCHANGED Unread
    \/ \E r \in Reports :
          /\ \E t \in {"processing", "failed"} : Changes(r, "processing", t)
          /\ \A q \in Reports \ {r} : /\ rowCount'[q] = rowCount[q] /\ errorCount'[q] = errorCount[q]
                                      /\ failureKind'[q] = failureKind[q]
          /\ UNCHANGED Unread
    \/ \E w \in Workers : CommitApply(w)

LEMMA QuietEffect ==
    ASSUME NEW w \in Workers,
           \/ AcquireLock(w) \/ AssertLock(w) \/ Unlock(w) \/ ClaimNothing(w) \/ ClaimForApply(w)
           \/ OpenOriginal(w) \/ ReadRow(w) \/ EndOfFile(w) \/ WriteStaging(w)
           \/ StagingKeyViolation(w) \/ WriteErrors(w) \/ InsertDuplicateErrors(w) \/ CountErrors(w)
           \/ LockReport(w) \/ ApplyStatements(w) \/ DuplicateUpsertFails(w) \/ Disturb(w)
    PROVE  UNCHANGED <<columns, Unread>>
<1>1. UNCHANGED <<queue, columns, applied>>
  BY DEF AcquireLock, AssertLock, Unlock, ClaimNothing, ClaimForApply, OpenOriginal, ReadRow,
         EndOfFile, WriteStaging, StagingKeyViolation, WriteErrors, InsertDuplicateErrors,
         CountErrors, LockReport, ApplyStatements, DuplicateUpsertFails, Disturb,
         NoticeLossWhileReading, StorageFault, RollBack, LoseLock, Crash, Restart
<1> QED BY <1>1 DEF queue, Unread

LEMMA ClaimEffect ==
    ASSUME TypeInv, NEW w \in Workers, ClaimForValidation(w)
    PROVE  Effect
<1>1. PICK r \in Oldest :
        /\ status' = [status EXCEPT ![r] = "processing"]
        /\ rowCount' = [rowCount EXCEPT ![r] = 0]
        /\ errorCount' = [errorCount EXCEPT ![r] = 0]
        /\ failureKind' = [failureKind EXCEPT ![r] = "none"]
  BY DEF ClaimForValidation
<1>2. UNCHANGED Unread
  BY DEF ClaimForValidation, queue, Unread
<1>3. \A q \in Reports \ {r} : /\ rowCount'[q] = rowCount[q] /\ errorCount'[q] = errorCount[q]
                              /\ failureKind'[q] = failureKind[q]
  BY <1>1 DEF TypeInv, TypeOK
<1> QED BY <1>1, <1>2, <1>3 DEF Effect

LEMMA EndOfCycleEffect ==
    ASSUME TypeInv, NEW w \in Workers,
           \/ FinalizeValidationFailure(w) \/ MarkValidated(w)
           \/ MarkProcessingFailed(w) \/ MarkApplyFailed(w)
    PROVE  Effect
<1>1. cur[w] \in Reports /\ UNCHANGED Unread
  BY DEF FinalizeValidationFailure, MarkValidated, MarkProcessingFailed, MarkApplyFailed, MarkFailed,
         TypeInv, HasReport, ClaimedPCs, Labels, OnError, queue, Unread
<1>2. PICK r \in Reports : r = cur[w]
  BY <1>1
<1>3. PICK t \in {"processing", "failed"} : \E rows, count, kind : UpdateProcessing(r, t, rows, count, kind)
  BY <1>2 DEF FinalizeValidationFailure, MarkValidated, MarkProcessingFailed, MarkApplyFailed, MarkFailed
<1>4. CASE status[r] = "processing"
  <2>1. Changes(r, "processing", t)
    BY <1>3, <1>4 DEF UpdateProcessing, Changes
  <2>2. \A q \in Reports \ {r} : /\ rowCount'[q] = rowCount[q] /\ errorCount'[q] = errorCount[q]
                                /\ failureKind'[q] = failureKind[q]
    BY <1>3, <1>4 DEF UpdateProcessing, TypeInv, TypeOK
  <2> QED BY <1>1, <2>1, <2>2 DEF Effect
<1>5. CASE status[r] # "processing"
  <2>1. UNCHANGED columns
    BY <1>3, <1>5 DEF UpdateProcessing
  <2> QED BY <1>1, <2>1 DEF Effect
<1> QED BY <1>4, <1>5

LEMMA StepEffect == TypeInv /\ [Next]_vars => Effect
<1> SUFFICES ASSUME TypeInv, [Next]_vars PROVE Effect
  OBVIOUS
<1>1. CASE UNCHANGED vars
  BY <1>1 DEF Effect, Unread, vars, queue
<1>2. ASSUME NEW r \in Reports, BeginRegister(r) \/ CommitRegister(r) PROVE Effect
  BY <1>2 DEF Effect
<1>3. ASSUME NEW w \in Workers, Work(w) \/ Disturb(w) PROVE Effect
  <2>1. CASE ClaimForValidation(w)
    BY <2>1, ClaimEffect
  <2>2. CASE FinalizeValidationFailure(w) \/ MarkValidated(w) \/ MarkProcessingFailed(w) \/ MarkApplyFailed(w)
    BY <2>2, EndOfCycleEffect
  <2>3. CASE CommitApply(w)
    BY <2>3 DEF Effect
  <2>4. UNCHANGED <<columns, Unread>> => Effect
    BY DEF Effect
  <2> QED BY <1>3, <2>1, <2>2, <2>3, <2>4, QuietEffect DEF Work
<1> QED BY <1>1, <1>2, <1>3 DEF Next

-----------------------------------------------------------------------------
LEMMA FilesStep == TypeInv /\ SafeInv /\ FilesOK /\ [Next]_vars => FilesOK'
<1> SUFFICES ASSUME TypeInv, SafeInv, FilesOK, Effect PROVE FilesOK'
  BY StepEffect
<1>1. CASE UNCHANGED <<columns, Unread>>
  BY <1>1 DEF FilesOK, columns, Unread
<1>2. ASSUME NEW r \in Reports, BeginRegister(r) PROVE FilesOK'
  BY <1>2 DEF BeginRegister, FilesOK, TypeInv, TypeOK
<1>3. ASSUME NEW r \in Reports, CommitRegister(r) PROVE FilesOK'
  BY <1>3 DEF CommitRegister, FilesOK, TypeInv, TypeOK, queue
<1>4. ASSUME NEW r \in Reports, status[r] # "absent", NEW t, status' = [status EXCEPT ![r] = t], file' = file
      PROVE  FilesOK'
  BY <1>4 DEF FilesOK, TypeInv, TypeOK
<1>5. ASSUME NEW w \in Workers, CommitApply(w) PROVE FilesOK'
  <2>1. cur[w] \in Reports /\ status[cur[w]] = "processing"
        /\ status' = [status EXCEPT ![cur[w]] = "completed"] /\ file' = file
    BY <1>5, CommitApplyEffect DEF queue
  <2> QED BY <2>1, <1>4
<1>6. ASSUME NEW r \in Oldest, status' = [status EXCEPT ![r] = "processing"], UNCHANGED Unread PROVE FilesOK'
  BY <1>6, <1>4 DEF Oldest, Claimable, Unread
<1>7. ASSUME NEW r \in Reports, NEW t, Changes(r, "processing", t), UNCHANGED Unread PROVE FilesOK'
  BY <1>7, <1>4 DEF Changes, Unread
<1> QED BY <1>1, <1>2, <1>3, <1>5, <1>6, <1>7 DEF Effect

LEMMA Invariants == Spec => [](TypeInv /\ SafeInv /\ FilesOK)
BY TypeInit, TypeStep, SafeInit, SafeStep, FilesInit, FilesStep, PTL DEF Spec

-----------------------------------------------------------------------------
\* The columns of a terminal report stay as they are.
KeepsTerminal ==
    \A r \in Reports : status[r] \in Terminal =>
        /\ status'[r] = status[r]
        /\ rowCount'[r] = rowCount[r]
        /\ errorCount'[r] = errorCount[r]
        /\ failureKind'[r] = failureKind[r]

LEMMA TerminalStep == TypeInv /\ SafeInv /\ [Next]_vars => KeepsTerminal
<1> SUFFICES ASSUME TypeInv, SafeInv, Effect PROVE KeepsTerminal
  BY StepEffect
<1>1. CASE UNCHANGED <<columns, Unread>>
  BY <1>1 DEF KeepsTerminal, columns
<1>2. ASSUME NEW r \in Reports, BeginRegister(r) \/ CommitRegister(r) PROVE KeepsTerminal
  BY <1>2 DEF BeginRegister, CommitRegister, KeepsTerminal, TypeInv, TypeOK, Terminal
<1>3. ASSUME NEW r \in Reports, status[r] \notin Terminal, NEW t, status' = [status EXCEPT ![r] = t],
             \A q \in Reports \ {r} : /\ rowCount'[q] = rowCount[q] /\ errorCount'[q] = errorCount[q]
                                      /\ failureKind'[q] = failureKind[q]
      PROVE  KeepsTerminal
  BY <1>3 DEF KeepsTerminal, TypeInv, TypeOK
<1>4. ASSUME NEW w \in Workers, CommitApply(w) PROVE KeepsTerminal
  <2>1. cur[w] \in Reports /\ status[cur[w]] = "processing"
        /\ status' = [status EXCEPT ![cur[w]] = "completed"] /\ rowCount' = rowCount /\ errorCount' = errorCount
    BY <1>4, CommitApplyEffect
  <2>2. failureKind' = [failureKind EXCEPT ![cur[w]] = "none"]
    BY <1>4 DEF CommitApply
  <2> QED BY <2>1, <2>2 DEF KeepsTerminal, TypeInv, TypeOK, Terminal
<1> QED BY <1>1, <1>2, <1>3, <1>4 DEF Effect, Changes, Oldest, Claimable, Terminal

\* No step changes a terminal report: neither a late claim, nor a recovery, nor
\* the handler of a failure (report_processing.py:412, 482, 515).
THEOREM TerminalsStay == Spec => TerminalStable
<1>1. TypeInv /\ SafeInv /\ FilesOK /\ [Next]_vars =>
        [\A r \in Reports : status[r] \in Terminal =>
            /\ status'[r] = status[r]
            /\ rowCount'[r] = rowCount[r]
            /\ errorCount'[r] = errorCount[r]
            /\ failureKind'[r] = failureKind[r]]_vars
  BY TerminalStep DEF KeepsTerminal
<1> QED BY Invariants, <1>1, PTL DEF Spec, TerminalStable

-----------------------------------------------------------------------------
(* Refinement: each step is a step of the service, or none. *)

\* A snapshot in the stock tables depends only on its entry and its file.
LEMMA StockSame ==
    ASSUME TypeInv, SafeInv, applied' = applied,
           \A r \in Reports : status[r] = "completed" => file'[r] = file[r]
    PROVE  Stock' = Stock
<1>1. ASSUME NEW i \in DOMAIN applied PROVE file'[applied[i].report] = file[applied[i].report]
  BY <1>1, AppliedTyped DEF SafeInv, CompletedExactlyOnce
<1> QED BY <1>1 DEF Stock

LEMMA AppendAsFunction ==
    ASSUME NEW S, NEW s \in Seq(S), NEW e \in S
    PROVE  Append(s, e) = [i \in 1 .. Len(s) + 1 |-> IF i = Len(s) + 1 THEN e ELSE s[i]]
<1>1. /\ Append(s, e) \in Seq(S) /\ Len(Append(s, e)) = Len(s) + 1
      /\ \A i \in 1 .. Len(s) : Append(s, e)[i] = s[i]
      /\ Append(s, e)[Len(s) + 1] = e
  OBVIOUS
<1>2. ASSUME NEW t \in Seq(S) PROVE t = [i \in 1 .. Len(t) |-> t[i]]
  <2>1. t \in [1 .. Len(t) -> S]
    OBVIOUS
  <2> QED BY <2>1
<1>3. Append(s, e) = [i \in 1 .. Len(s) + 1 |-> Append(s, e)[i]]
  BY <1>1, <1>2, Zenon
<1> QED BY <1>1, <1>3

LEMMA ServiceInit == Init => Service!Init
BY DEF Init, Service!Init, Stock

LEMMA ServiceRegister ==
    ASSUME TypeInv, SafeInv, NEW r \in Reports, BeginRegister(r) \/ CommitRegister(r)
    PROVE  Service!Next
<1>1. applied' = applied /\ status[r] \in {"absent", "inserting"}
  BY DEF BeginRegister, CommitRegister
<1>2. \A q \in Reports \ {r} : file'[q] = file[q]
  BY DEF BeginRegister, CommitRegister, queue, TypeInv, TypeOK
<1>3. Stock' = Stock
  BY <1>1, <1>2, StockSame
<1>4. CASE BeginRegister(r)
  <2>1. Service!Upload(r)
    BY <1>3, <1>4 DEF BeginRegister, Service!Upload, Service!Move, Visible, Claimable, Terminal,
                      Service!Shown, Service!Terminal
  <2> QED BY <2>1 DEF Service!Next
<1>5. CASE CommitRegister(r)
  <2>1. Service!Accept(r)
    BY <1>3, <1>5 DEF CommitRegister, Service!Accept, Service!Move, queue
  <2> QED BY <2>1 DEF Service!Next
<1> QED BY <1>4, <1>5

\* The oldest report of the queue has no unfinished predecessor.
LEMMA ServiceClaim ==
    ASSUME TypeInv, SafeInv, NEW r \in Oldest,
           status' = [status EXCEPT ![r] = "processing"], UNCHANGED Unread
    PROVE  Service!Next \/ UNCHANGED <<status, file, older, Stock>>
<1>1. r \in Reports /\ status[r] \in {"pending", "processing"} /\ UNCHANGED <<file, older, applied>>
  BY DEF Oldest, Claimable, Unread
<1>2. Stock' = Stock
  BY <1>1, StockSame
<1>3. CASE status[r] = "processing"
  BY <1>1, <1>2, <1>3 DEF TypeInv, TypeOK
<1>4. CASE status[r] = "pending"
  <2>1. ASSUME NEW q \in older[r] PROVE status[q] \in Service!Terminal
    <3>1. q \in Reports /\ status[q] \in Visible /\ stamp[q] < stamp[r] /\ stamp[q] \in Nat /\ stamp[r] \in Nat
      BY <1>1, <2>1 DEF SafeInv, QueueOK, TypeInv, TypeOK
    <3> QED BY <3>1 DEF Oldest, Visible, Terminal, Service!Terminal
  <2>2. Service!Start(r)
    BY <1>1, <1>2, <1>4, <2>1 DEF Service!Start, Service!Move
  <2> QED BY <1>1, <2>2 DEF Service!Next
<1> QED BY <1>1, <1>3, <1>4

LEMMA ServiceEndOfCycle ==
    ASSUME TypeInv, SafeInv, NEW r \in Reports, NEW t \in {"processing", "failed"},
           Changes(r, "processing", t), UNCHANGED Unread
    PROVE  Service!Next \/ UNCHANGED <<status, file, older, Stock>>
<1>1. UNCHANGED <<file, older, applied>> /\ Stock' = Stock
  BY StockSame DEF Unread
<1>2. CASE t = "processing"
  BY <1>1, <1>2 DEF Changes, TypeInv, TypeOK
<1>3. CASE t = "failed"
  <2>1. Service!Fail(r)
    BY <1>1, <1>3 DEF Changes, Service!Fail, Service!Move
  <2> QED BY <2>1 DEF Service!Next
<1> QED BY <1>2, <1>3

LEMMA ServiceCommitApply ==
    ASSUME TypeInv, SafeInv, FilesOK, NEW w \in Workers, CommitApply(w)
    PROVE  Service!Next
<1>1. PICK r \in Reports : r = cur[w]
  BY CommitApplyEffect
<1> DEFINE new == [report |-> r, lines |-> DOMAIN file[r]]
<1>2. /\ status[r] = "processing"
      /\ status' = [status EXCEPT ![r] = "completed"]
      /\ applied' = Append(applied, new)
      /\ ValidLines(file[r]) = DOMAIN file[r]
      /\ UNCHANGED <<file, older>>
  BY <1>1, CommitApplyEffect DEF queue
<1>3. file[r] \in Files /\ file[r] \in Seq(Records)
  BY <1>2 DEF FilesOK, TypeInv, TypeOK
<1>4. new.report = r /\ new.lines = DOMAIN file[r]
  OBVIOUS
<1> HIDE DEF new
<1>5. /\ Len(applied) \in Nat
      /\ DOMAIN applied = 1 .. Len(applied)
      /\ DOMAIN applied' = 1 .. Len(applied) + 1
      /\ applied'[Len(applied) + 1] = new
      /\ \A i \in DOMAIN applied : applied'[i] = applied[i]
  <2>1. applied \in Seq([report : Reports, lines : SUBSET Nat])
    BY DEF TypeInv, TypeOK
  <2> QED BY <1>2, <2>1
<1> DEFINE entry(a) == [report |-> a.report, records |-> [l \in a.lines |-> file[a.report][l]]]
<1>6. Stock = [i \in 1 .. Len(applied) |-> entry(applied[i])]
  BY <1>5 DEF Stock
<1>7. Stock' = [i \in 1 .. Len(applied) + 1 |-> entry(applied'[i])]
  BY <1>2, <1>5 DEF Stock
<1>8. entry(new) = [report |-> r, records |-> file[r]]
  <2>1. [l \in DOMAIN file[r] |-> file[r][l]] = file[r]
    BY <1>3
  <2> QED BY <1>4, <2>1
<1> HIDE DEF entry
<1>9. Stock' = Append(Stock, entry(new))
  <2> DEFINE S == {entry(applied[i]) : i \in 1 .. Len(applied)} \cup {entry(new)}
  <2>1. Len(Stock) = Len(applied) /\ Stock \in Seq(S) /\ entry(new) \in S
    BY <1>5, <1>6
  <2> HIDE DEF S
  <2>2. Append(Stock, entry(new)) =
          [i \in 1 .. Len(applied) + 1 |-> IF i = Len(applied) + 1 THEN entry(new) ELSE Stock[i]]
    BY <2>1, AppendAsFunction
  <2>3. ASSUME NEW i \in 1 .. Len(applied) + 1
        PROVE  entry(applied'[i]) = IF i = Len(applied) + 1 THEN entry(new) ELSE Stock[i]
    <3>1. CASE i = Len(applied) + 1
      BY <1>5, <3>1
    <3>2. CASE i # Len(applied) + 1
      <4>1. i \in 1 .. Len(applied)
        BY <1>5, <3>2
      <4> QED BY <1>5, <1>6, <3>2, <4>1
    <3> QED BY <3>1, <3>2
  <2> QED BY <1>7, <2>2, <2>3
<1>10. Service!Complete(r)
  BY <1>2, <1>3, <1>8, <1>9 DEF Service!Complete, Service!Move
<1> QED BY <1>10 DEF Service!Next

LEMMA ServiceStep ==
    TypeInv /\ SafeInv /\ FilesOK /\ [Next]_vars => [Service!Next]_Service!vars
<1> SUFFICES ASSUME TypeInv, SafeInv, FilesOK, Effect
             PROVE  Service!Next \/ UNCHANGED <<status, file, older, Stock>>
  BY StepEffect DEF Service!vars
<1>1. CASE UNCHANGED <<columns, Unread>>
  BY <1>1, StockSame DEF columns, Unread
<1>2. ASSUME NEW r \in Reports, BeginRegister(r) \/ CommitRegister(r) PROVE Service!Next
  BY <1>2, ServiceRegister
<1>3. ASSUME NEW r \in Oldest, status' = [status EXCEPT ![r] = "processing"], UNCHANGED Unread
      PROVE  Service!Next \/ UNCHANGED <<status, file, older, Stock>>
  BY <1>3, ServiceClaim
<1>4. ASSUME NEW r \in Reports, NEW t \in {"processing", "failed"}, Changes(r, "processing", t), UNCHANGED Unread
      PROVE  Service!Next \/ UNCHANGED <<status, file, older, Stock>>
  BY <1>4, ServiceEndOfCycle
<1>5. ASSUME NEW w \in Workers, CommitApply(w) PROVE Service!Next
  BY <1>5, ServiceCommitApply
<1> QED BY <1>1, <1>2, <1>3, <1>4, <1>5 DEF Effect

\* With any number of workers, crashes, lost locks, roll-backs and lost
\* acknowledgements, what readers of the database see is a behaviour of
\* ImportService: whole files, once, first come first served
\* (report_processing.py:351-526, apply_report.py:83-142).
THEOREM Refinement == Spec => ImplementsService
BY Invariants, ServiceInit, ServiceStep, PTL DEF Spec, ImplementsService, Service!Spec
==============================================================================
