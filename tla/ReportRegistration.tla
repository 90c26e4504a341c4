--------------------------- MODULE ReportRegistration ---------------------------
(***************************************************************************)
(* ReportService.register_original (app/services/reports.py) with          *)
(* S3ObjectStorage.upload_stream (app/services/storage.py): the file goes  *)
(* to the storage under a fresh key, part by part if it is not empty, then *)
(* the report to the database; whatever fails is cleaned up by one more    *)
(* call.  A call may fail, may take effect although it fails, and the      *)
(* process may die between two calls.                                      *)
(***************************************************************************)
EXTENDS Integers, FiniteSets

CONSTANTS
    Requests,  \* uploads; each has a key (uuid4) of its own
    Sizes,     \* sizes of the files
    MaxBytes,  \* max_upload_bytes
    PartSize,  \* UPLOAD_PART_SIZE
    None       \* no object, no row, no answer

ASSUME SizesAssumption == Sizes \subseteq Nat
ASSUME LimitsAssumption == MaxBytes \in Nat /\ PartSize \in Nat \ {0}
ASSUME NothingAssumption == None \notin Nat

VARIABLES
    size,     \* bytes of the file of a request
    pc,       \* the call the request makes next
    total,    \* total_size: bytes of the parts uploaded
    answer,   \* how the request will be answered, once that is decided
    uploads,  \* storage: its open multipart uploads, by whether upload_id is "known"
    stored,   \* storage: bytes of the parts of the known upload
    objects,  \* storage: size of the object under its key
    rows,     \* database: size_bytes of its report
    hit       \* faults that hit the request (history)

service  == <<pc, total, answer>>
storage  == <<uploads, stored, objects>>
vars     == <<size, pc, total, answer, uploads, stored, objects, rows, hit>>

Calls   == {"put", "create", "part", "complete", "abort", "insert", "delete"}
Ended   == {"answered", "crashed"}
Answers == {"accepted", "too_large", "unavailable", "not_persisted", "error"}
Faults  == {"lost", "cleanup", "crash"}

Init ==
    /\ size \in [Requests -> Sizes]
    /\ pc = [r \in Requests |-> "idle"]
    /\ total = [r \in Requests |-> 0]
    /\ answer = [r \in Requests |-> None]
    /\ uploads = [r \in Requests |-> {}]
    /\ stored = [r \in Requests |-> 0]
    /\ objects = [r \in Requests |-> None]
    /\ rows = [r \in Requests |-> None]
    /\ hit = [r \in Requests |-> {}]

-----------------------------------------------------------------------------
\* Bytes _read_part returns: a whole part unless the file ends.
Part(r) == IF size[r] - total[r] < PartSize THEN size[r] - total[r] ELSE PartSize

Goto(r, call) == pc' = [pc EXCEPT ![r] = call]

\* Go on to a call, or raise: to the call that cleans up, or out of the service.
Continue(r, call) == Goto(r, call) /\ UNCHANGED answer
Raise(r, call, a) == Goto(r, call) /\ answer' = [answer EXCEPT ![r] = a]

\* The call took effect and its answer did not arrive, or it cleaned up nothing.
Hit(r, fault) == hit' = [hit EXCEPT ![r] = @ \cup {fault}]

-----------------------------------------------------------------------------
\* Reading the first part happens outside the try statement.
Start(r) ==
    /\ pc[r] = "idle"
    /\ \/ Continue(r, IF Part(r) = 0 THEN "put" ELSE "create")
       \/ Raise(r, "answered", "error")
    /\ UNCHANGED <<size, total, storage, rows, hit>>

\* put_object of an empty file; nobody removes what a failed call has stored.
PutEmpty(r) ==
    /\ pc[r] = "put"
    /\ \/ /\ objects' = [objects EXCEPT ![r] = 0]
          /\ Continue(r, "insert")
          /\ UNCHANGED hit
       \/ /\ UNCHANGED <<objects, hit>>
          /\ Raise(r, "answered", "unavailable")
       \/ /\ objects' = [objects EXCEPT ![r] = 0]
          /\ Raise(r, "answered", "unavailable")
          /\ Hit(r, "lost")
    /\ UNCHANGED <<size, total, uploads, stored, rows>>

\* The client repeats a call that got no answer (max_attempts = 2), and the first
\* attempt may have created an upload.  Without an upload_id nothing is aborted.
CreateUpload(r) ==
    /\ pc[r] = "create"
    /\ \/ /\ uploads' = [uploads EXCEPT ![r] = {"known"}]
          /\ Continue(r, "part")
          /\ UNCHANGED hit
       \/ /\ uploads' = [uploads EXCEPT ![r] = {"known", "unknown"}]
          /\ Continue(r, "part")
          /\ Hit(r, "lost")
       \/ /\ UNCHANGED <<uploads, hit>>
          /\ Raise(r, "answered", "unavailable")
       \/ /\ uploads' = [uploads EXCEPT ![r] = {"unknown"}]
          /\ Raise(r, "answered", "unavailable")
          /\ Hit(r, "lost")
    /\ UNCHANGED <<size, total, stored, objects, rows>>

\* Mutant: a file that reaches the limit is refused.
RefusePartAtLimit(r) ==
    /\ pc[r] = "part"
    /\ total[r] + Part(r) >= MaxBytes
    /\ Raise(r, "abort", "too_large")
    /\ UNCHANGED <<size, total, storage, rows, hit>>

\* Mutant: raised outside the try statement that aborts the upload.
RefusePartWithoutAbort(r) ==
    /\ pc[r] = "part"
    /\ total[r] + Part(r) > MaxBytes
    /\ Raise(r, "answered", "too_large")
    /\ UNCHANGED <<size, total, storage, rows, hit>>

\* FileTooLargeError, before the part is uploaded.
RefusePart(r) ==
    /\ pc[r] = "part"
    /\ total[r] + Part(r) > MaxBytes
    /\ Raise(r, "abort", "too_large")
    /\ UNCHANGED <<size, total, storage, rows, hit>>

\* Mutant: the size of a part is not what was read.
UploadPartCountingFull(r) ==
    /\ pc[r] = "part"
    /\ total[r] + Part(r) <= MaxBytes
    /\ stored' = [stored EXCEPT ![r] = @ + Part(r)]
    /\ total' = [total EXCEPT ![r] = @ + PartSize]
    /\ Continue(r, IF total'[r] >= size[r] THEN "complete" ELSE "part")
    /\ UNCHANGED <<size, uploads, objects, rows, hit>>

\* upload_part, and the next part is read.
UploadPart(r) ==
    /\ pc[r] = "part"
    /\ total[r] + Part(r) <= MaxBytes
    /\ stored' = [stored EXCEPT ![r] = @ + Part(r)]
    /\ total' = [total EXCEPT ![r] = @ + Part(r)]
    /\ Continue(r, IF total'[r] = size[r] THEN "complete" ELSE "part")
    /\ UNCHANGED <<size, uploads, objects, rows, hit>>

\* Mutant: a part that fails is the last one.
UploadPartFailsSilently(r) ==
    /\ pc[r] = "part"
    /\ total[r] + Part(r) <= MaxBytes
    /\ Continue(r, "complete")
    /\ UNCHANGED <<size, total, storage, rows, hit>>

\* The call fails with or without storing the part, or reading the next part does.
UploadPartFails(r) ==
    /\ pc[r] = "part"
    /\ total[r] + Part(r) <= MaxBytes
    /\ \/ UNCHANGED stored
       \/ stored' = [stored EXCEPT ![r] = @ + Part(r)]
    /\ Raise(r, "abort", "unavailable")
    /\ UNCHANGED <<size, total, uploads, objects, rows, hit>>

\* complete_multipart_upload.
CompleteUpload(r) ==
    /\ pc[r] = "complete"
    /\ \/ /\ objects' = [objects EXCEPT ![r] = stored[r]]
          /\ uploads' = [uploads EXCEPT ![r] = @ \ {"known"}]
          /\ stored' = [stored EXCEPT ![r] = 0]
          /\ Continue(r, "insert")
          /\ UNCHANGED hit
       \/ /\ UNCHANGED <<storage, hit>>
          /\ Raise(r, "abort", "unavailable")
       \/ /\ objects' = [objects EXCEPT ![r] = stored[r]]
          /\ uploads' = [uploads EXCEPT ![r] = @ \ {"known"}]
          /\ stored' = [stored EXCEPT ![r] = 0]
          /\ Raise(r, "abort", "unavailable")
          /\ Hit(r, "lost")
    /\ UNCHANGED <<size, total, rows>>

\* Mutant: an upload that is gone (NoSuchUpload) is aborted again.
AbortUntilGone(r) ==
    /\ pc[r] = "abort"
    /\ "known" \in uploads[r]
    /\ uploads' = [uploads EXCEPT ![r] = @ \ {"known"}]
    /\ stored' = [stored EXCEPT ![r] = 0]
    /\ Continue(r, "answered")
    /\ UNCHANGED <<size, total, objects, rows, hit>>

\* abort_multipart_upload; its failure is logged.
AbortUpload(r) ==
    /\ pc[r] = "abort"
    /\ \/ /\ uploads' = [uploads EXCEPT ![r] = @ \ {"known"}]
          /\ stored' = [stored EXCEPT ![r] = 0]
          /\ UNCHANGED hit
       \/ /\ UNCHANGED <<uploads, stored>>
          /\ Hit(r, "cleanup")
    /\ Continue(r, "answered")
    /\ UNCHANGED <<size, total, objects, rows>>

\* Mutant: the object is removed whether or not the report was registered.
InsertReportFinally(r) ==
    /\ pc[r] = "insert"
    /\ rows' = [rows EXCEPT ![r] = total[r]]
    /\ Raise(r, "delete", "accepted")
    /\ UNCHANGED <<size, total, storage, hit>>

\* The transaction with the INSERT of the pending report.
InsertReport(r) ==
    /\ pc[r] = "insert"
    /\ \/ /\ rows' = [rows EXCEPT ![r] = total[r]]
          /\ Raise(r, "answered", "accepted")
          /\ UNCHANGED hit
       \/ /\ UNCHANGED <<rows, hit>>
          /\ Raise(r, "delete", "not_persisted")
       \/ /\ rows' = [rows EXCEPT ![r] = total[r]]
          /\ Raise(r, "delete", "not_persisted")
          /\ Hit(r, "lost")
    /\ UNCHANGED <<size, total, storage>>

\* _compensating_delete; its failure is logged, too.
CompensatingDelete(r) ==
    /\ pc[r] = "delete"
    /\ \/ objects' = [objects EXCEPT ![r] = None] /\ UNCHANGED hit
       \/ UNCHANGED objects /\ Hit(r, "cleanup")
    /\ Continue(r, "answered")
    /\ UNCHANGED <<size, total, uploads, stored, rows>>

\* The process of the API dies.
Crash(r) ==
    /\ pc[r] \in Calls
    /\ Goto(r, "crashed")
    /\ Hit(r, "crash")
    /\ UNCHANGED <<size, total, answer, storage, rows>>

Register(r) ==
    \/ Start(r) \/ PutEmpty(r)
    \/ CreateUpload(r) \/ RefusePart(r) \/ UploadPart(r) \/ UploadPartFails(r)
    \/ CompleteUpload(r) \/ AbortUpload(r)
    \/ InsertReport(r) \/ CompensatingDelete(r)

Next == \E r \in Requests : Register(r) \/ Crash(r)

Spec == Init /\ [][Next]_vars

\* A thread of the API that handles a request goes on until it has answered: a
\* call to the storage ends by its timeouts (storage.py:57-58), one to the
\* database with an answer or a broken connection.
FairSpec == Spec /\ \A r \in Requests : WF_vars(Register(r))

-----------------------------------------------------------------------------
TypeOK ==
    /\ size \in [Requests -> Sizes]
    /\ pc \in [Requests -> {"idle"} \cup Calls \cup Ended]
    /\ total \in [Requests -> Nat]
    /\ \A r \in Requests : total[r] <= size[r]
    /\ answer \in [Requests -> Answers \cup {None}]
    /\ uploads \in [Requests -> SUBSET {"known", "unknown"}]
    /\ stored \in [Requests -> Nat]
    /\ objects \in [Requests -> Nat \cup {None}]
    /\ rows \in [Requests -> Nat \cup {None}]
    /\ hit \in [Requests -> SUBSET Faults]

Answered(r, a) == pc[r] = "answered" /\ answer[r] = a

\* Whatever fails, a client that got 202 has a report whose object is the whole
\* file with the size the report says (reports.py:76-125, storage.py:86-117).
AcceptedIsComplete ==
    \A r \in Requests : Answered(r, "accepted") => rows[r] = size[r] /\ objects[r] = size[r]

\* A report that the workers see has its original, from the moment of the commit
\* on and with a crash after it too, unless an acknowledgement was lost
\* (reports.py:76-110).
RegisteredHasOriginal ==
    \A r \in Requests :
        rows[r] # None /\ "lost" \notin hit[r] => rows[r] = size[r] /\ objects[r] = size[r]

\* 413 means that the file is too large, a file that is too large never becomes an
\* object or a report, and the storage never holds more of it than the limit
\* (storage.py:94-100); exactly the limit is allowed.
LimitIsExact ==
    \A r \in Requests :
        /\ Answered(r, "too_large") => size[r] > MaxBytes
        /\ size[r] > MaxBytes => objects[r] = None /\ rows[r] = None
        /\ stored[r] <= MaxBytes

\* A request that did not register a report leaves no object and no open upload
\* behind, however it failed, unless the cleaning call failed, an acknowledgement
\* was lost or the process died (storage.py:118-125, reports.py:102-112).
NothingLeftBehind ==
    \A r \in Requests :
        pc[r] \in Ended /\ hit[r] = {} =>
            uploads[r] = {} /\ (objects[r] # None <=> rows[r] # None)

\* Every request ends, with an answer or with its process: the loop over the parts
\* and the cleaning calls come to an end (storage.py:86-125, reports.py:102-112).
EveryRequestEnds == \A r \in Requests : <>(pc[r] \in Ended)

\* docs/architecture.md:101 says that objects of registered reports are not
\* deleted; the compensating delete may (reports.py:102-112).
RegisteredObjectsStay ==
    [][\A r \in Requests : rows[r] # None => objects'[r] = objects[r]]_vars
=============================================================================
