----------------------- MODULE ReportRegistrationProofs -----------------------
(***************************************************************************)
(* Proofs about ReportRegistration.  Requests do not touch each other's    *)
(* object and row, so the invariant is one of a single request: what is in *)
(* the storage and the database at each call it may make next.             *)
(***************************************************************************)
EXTENDS ReportRegistration, TLAPS

Empty(r) ==
    /\ total[r] = 0 /\ stored[r] = 0
    /\ uploads[r] = {} /\ objects[r] = None /\ rows[r] = None /\ hit[r] = {}

\* An upload is open, and nothing has come of it.
Open(r) ==
    /\ stored[r] = total[r] /\ total[r] <= MaxBytes
    /\ objects[r] = None /\ rows[r] = None
    /\ "known" \in uploads[r]
    /\ hit[r] = {} => uploads[r] = {"known"}

Whole(r) == size[r] <= MaxBytes /\ objects[r] = size[r]

\* No upload is left open but for a fault.
Closed(r) == stored[r] = 0 /\ (hit[r] = {} => uploads[r] = {})

\* What holds before each call.
AtCall(r) ==
    /\ pc[r] = "idle" => Empty(r)
    /\ pc[r] = "put" => Empty(r) /\ size[r] = 0
    /\ pc[r] = "create" => Empty(r) /\ size[r] # 0
    /\ pc[r] = "part" => Open(r) /\ total[r] < size[r]
    /\ pc[r] = "complete" => Open(r) /\ total[r] = size[r]
    /\ pc[r] = "abort" =>
         /\ rows[r] = None
         /\ answer[r] = "too_large" => size[r] > MaxBytes
         /\ answer[r] \in {"too_large", "unavailable"}
         /\ hit[r] = {} => uploads[r] = {"known"} /\ objects[r] = None
    /\ pc[r] = "insert" => Whole(r) /\ Closed(r) /\ rows[r] = None /\ total[r] = size[r]
    /\ pc[r] = "delete" => Whole(r) /\ Closed(r) /\ answer[r] = "not_persisted"
    /\ pc[r] = "delete" /\ rows[r] # None => "lost" \in hit[r]
    /\ pc[r] = "crashed" => hit[r] # {}

\* What holds always.
Throughout(r) ==
    /\ stored[r] <= MaxBytes
    /\ rows[r] # None => rows[r] = size[r]
    /\ objects[r] # None => Whole(r)
    /\ rows[r] # None => size[r] <= MaxBytes
    /\ rows[r] # None /\ "lost" \notin hit[r] => Whole(r)
    /\ Answered(r, "accepted") => Whole(r) /\ rows[r] = size[r]
    /\ Answered(r, "too_large") => size[r] > MaxBytes
    /\ pc[r] = "answered" /\ hit[r] = {} =>
         uploads[r] = {} /\ (objects[r] # None <=> rows[r] # None)

RequestInv == \A r \in Requests : AtCall(r) /\ Throughout(r)

Inv == TypeOK /\ RequestInv

\* The variables of a request.
Mine(r) == <<size[r], pc[r], total[r], answer[r], uploads[r], stored[r], objects[r], rows[r], hit[r]>>

\* Changed by UploadPart only.
Kept(r) == <<size[r], total[r]>>

-----------------------------------------------------------------------------
\* A part is not empty before the end of the file and does not go beyond it
\* (storage.py:164-175).
LEMMA PartBounds ==
    ASSUME TypeOK, NEW r \in Requests
    PROVE  /\ Part(r) \in Nat
           /\ total[r] + Part(r) \in Nat
           /\ total[r] + Part(r) <= size[r]
           /\ Part(r) = 0 <=> total[r] = size[r]
<1>1. size[r] \in Nat /\ total[r] \in Nat /\ total[r] <= size[r]
  BY SizesAssumption DEF TypeOK
<1> QED
  BY <1>1, LimitsAssumption DEF Part

LEMMA InitInv == Init => Inv
<1> SUFFICES ASSUME Init PROVE Inv
  OBVIOUS
<1>1. TypeOK
  <2>1. ASSUME NEW r \in Requests PROVE total[r] <= size[r]
    <3>1. size[r] \in Nat /\ total[r] = 0
      BY SizesAssumption DEF Init
    <3> QED
      BY <3>1
  <2> QED
    BY <2>1 DEF Init, TypeOK
<1>2. RequestInv
  BY LimitsAssumption DEF Init, RequestInv, AtCall, Throughout, Empty, Answered, Calls
<1> QED
  BY <1>1, <1>2 DEF Inv

\* Every step keeps the types.
LEMMA StepType ==
    ASSUME TypeOK, NEW r \in Requests, Register(r) \/ Crash(r)
    PROVE  TypeOK'
<1>1. Part(r) \in Nat /\ total[r] + Part(r) \in Nat /\ total[r] + Part(r) <= size[r]
  BY PartBounds
<1>2. CASE Start(r)
  BY <1>2 DEF Start, Continue, Raise, Goto, storage, TypeOK, Calls, Ended, Answers
<1>3. CASE PutEmpty(r)
  BY <1>3 DEF PutEmpty, Continue, Raise, Goto, Hit, TypeOK, Calls, Ended, Answers, Faults
<1>4. CASE CreateUpload(r)
  BY <1>4 DEF CreateUpload, Continue, Raise, Goto, Hit, TypeOK, Calls, Ended, Answers, Faults
<1>5. CASE RefusePart(r)
  BY <1>5 DEF RefusePart, Raise, Goto, storage, TypeOK, Calls, Ended, Answers
<1>6. CASE UploadPart(r)
  BY <1>1, <1>6 DEF UploadPart, Continue, Goto, TypeOK, Calls, Ended
<1>7. CASE UploadPartFails(r)
  BY <1>1, <1>7 DEF UploadPartFails, Raise, Goto, TypeOK, Calls, Ended, Answers
<1>8. CASE CompleteUpload(r)
  BY <1>8 DEF CompleteUpload, Continue, Raise, Goto, Hit, storage, TypeOK, Calls, Ended, Answers, Faults
<1>9. CASE AbortUpload(r)
  BY <1>9 DEF AbortUpload, Continue, Goto, Hit, TypeOK, Calls, Ended, Faults
<1>10. CASE InsertReport(r)
  BY <1>10 DEF InsertReport, Raise, Goto, Hit, storage, TypeOK, Calls, Ended, Answers, Faults
<1>11. CASE CompensatingDelete(r)
  BY <1>11 DEF CompensatingDelete, Continue, Goto, Hit, TypeOK, Calls, Ended, Faults
<1>12. CASE Crash(r)
  BY <1>12 DEF Crash, Goto, Hit, storage, TypeOK, Calls, Ended, Faults
<1> QED
  BY <1>2, <1>3, <1>4, <1>5, <1>6, <1>7, <1>8, <1>9, <1>10, <1>11, <1>12 DEF Register

\* A step of one request leaves the others alone (reports.py:62: a key is used
\* once).
LEMMA StepOthers ==
    ASSUME TypeOK, NEW r \in Requests, Register(r) \/ Crash(r), NEW s \in Requests, s # r
    PROVE  Mine(s)' = Mine(s)
BY DEF Register, Start, PutEmpty, CreateUpload, RefusePart, UploadPart, UploadPartFails,
       CompleteUpload, AbortUpload, InsertReport, CompensatingDelete, Crash,
       Continue, Raise, Goto, Hit, storage, TypeOK, Mine

\* A step of a request keeps its invariant.
LEMMA StepMine ==
    ASSUME TypeOK, NEW r \in Requests, Register(r) \/ Crash(r), AtCall(r), Throughout(r)
    PROVE  AtCall(r)' /\ Throughout(r)'
<1> USE DEF TypeOK, AtCall, Throughout, Answered
<1>1. /\ size[r] \in Nat /\ total[r] \in Nat /\ stored[r] \in Nat
      /\ None \notin Nat /\ MaxBytes \in Nat
      /\ Part(r) \in Nat /\ total[r] + Part(r) <= size[r] /\ (Part(r) = 0 <=> total[r] = size[r])
  BY PartBounds, SizesAssumption, LimitsAssumption, NothingAssumption
<1>2. CASE Start(r)
  BY <1>1, <1>2 DEF Start, Continue, Raise, Goto, storage, Empty, Whole, Closed, Open
<1>3. CASE PutEmpty(r)
  <2>1. /\ size[r] = 0 /\ objects[r] = None /\ rows[r] = None /\ stored[r] = 0 /\ total[r] = 0
        /\ uploads[r] = {} /\ hit[r] = {}
        /\ UNCHANGED Kept(r) /\ uploads'[r] = {} /\ stored'[r] = 0 /\ rows'[r] = None
    BY <1>3 DEF PutEmpty, Empty, Kept
  <2>2. \/ pc'[r] = "insert" /\ objects'[r] = 0 /\ hit'[r] = {}
        \/ pc'[r] = "answered" /\ answer'[r] = "unavailable" /\ objects'[r] = None /\ hit'[r] = {}
        \/ pc'[r] = "answered" /\ answer'[r] = "unavailable" /\ objects'[r] = 0 /\ hit'[r] = {"lost"}
    BY <1>3, <2>1 DEF PutEmpty, Continue, Raise, Goto, Hit
  <2> QED
    BY <1>1, <2>1, <2>2 DEF Kept, Empty, Open, Whole, Closed
<1>4. CASE CreateUpload(r)
  <2>1. /\ size[r] # 0 /\ objects[r] = None /\ rows[r] = None /\ stored[r] = 0 /\ total[r] = 0
        /\ uploads[r] = {} /\ hit[r] = {}
        /\ UNCHANGED Kept(r) /\ objects'[r] = None /\ stored'[r] = 0 /\ rows'[r] = None
    BY <1>4 DEF CreateUpload, Empty, Kept
  <2>2. \/ /\ pc'[r] = "part" /\ "known" \in uploads'[r]
           /\ hit'[r] = {} => uploads'[r] = {"known"}
        \/ /\ pc'[r] = "answered" /\ answer'[r] = "unavailable"
           /\ hit'[r] = {} => uploads'[r] = {}
    <3>1. \/ pc'[r] = "part" /\ uploads'[r] = {"known"} /\ hit'[r] = {}
          \/ pc'[r] = "part" /\ uploads'[r] = {"known", "unknown"} /\ hit'[r] = {"lost"}
          \/ pc'[r] = "answered" /\ answer'[r] = "unavailable" /\ uploads'[r] = {} /\ hit'[r] = {}
          \/ pc'[r] = "answered" /\ answer'[r] = "unavailable" /\ hit'[r] = {"lost"}
      BY <1>4, <2>1 DEF CreateUpload, Continue, Raise, Goto, Hit
    <3> QED
      BY ONLY <3>1, Zenon
  <2>3. total[r] < size[r] /\ total[r] <= MaxBytes /\ total'[r] = total[r] /\ size'[r] = size[r]
    BY <1>1, <2>1, LimitsAssumption DEF Kept
  <2>4. CASE /\ pc'[r] = "part" /\ "known" \in uploads'[r]
             /\ hit'[r] = {} => uploads'[r] = {"known"}
    BY <1>1, <2>1, <2>3, <2>4 DEF Open
  <2>5. CASE /\ pc'[r] = "answered" /\ answer'[r] = "unavailable"
             /\ hit'[r] = {} => uploads'[r] = {}
    BY <1>1, <2>1, <2>3, <2>5
  <2> QED
    BY <2>2, <2>4, <2>5
<1>5. CASE RefusePart(r)
  BY <1>1, <1>5 DEF RefusePart, Raise, Goto, storage, Empty, Whole, Closed, Open
<1>6. CASE UploadPart(r)
  BY <1>1, <1>6 DEF UploadPart, Continue, Goto, Empty, Whole, Closed, Open
<1>7. CASE UploadPartFails(r)
  BY <1>1, <1>7 DEF UploadPartFails, Raise, Goto, Empty, Whole, Closed, Open
<1>8. CASE CompleteUpload(r)
  <2>1. /\ stored[r] = size[r] /\ total[r] = size[r] /\ size[r] <= MaxBytes
        /\ objects[r] = None /\ rows[r] = None /\ (hit[r] = {} => uploads[r] = {"known"})
        /\ UNCHANGED Kept(r) /\ rows'[r] = None
    BY <1>8 DEF CompleteUpload, Open, Kept
  <2>2. \/ /\ pc'[r] = "insert" /\ hit'[r] = hit[r]
           /\ objects'[r] = size[r] /\ stored'[r] = 0 /\ uploads'[r] = uploads[r] \ {"known"}
        \/ /\ pc'[r] = "abort" /\ answer'[r] = "unavailable" /\ hit'[r] = hit[r]
           /\ objects'[r] = None /\ stored'[r] = stored[r] /\ uploads'[r] = uploads[r]
        \/ /\ pc'[r] = "abort" /\ answer'[r] = "unavailable" /\ hit'[r] # {}
           /\ objects'[r] = size[r] /\ stored'[r] = 0
    BY <1>8, <2>1, SMTT(30) DEF CompleteUpload, Continue, Raise, Goto, Hit, storage
  <2> QED
    BY <1>1, <2>1, <2>2 DEF Kept, Empty, Open, Whole, Closed
<1>9. CASE AbortUpload(r)
  <2>1. /\ pc[r] = "abort" /\ pc'[r] = "answered" /\ answer'[r] = answer[r]
        /\ UNCHANGED Kept(r) /\ objects'[r] = objects[r] /\ rows'[r] = None /\ rows[r] = None
    BY <1>9 DEF AbortUpload, Continue, Goto, Kept
  <2>2. \/ stored'[r] = 0 /\ uploads'[r] = uploads[r] \ {"known"} /\ hit'[r] = hit[r]
        \/ stored'[r] = stored[r] /\ hit'[r] # {}
    BY <1>9 DEF AbortUpload, Hit
  <2> QED
    BY <1>1, <2>1, <2>2 DEF Kept, Whole
<1>10. CASE InsertReport(r)
  BY <1>1, <1>10 DEF InsertReport, Raise, Goto, Hit, storage, Empty, Whole, Closed, Open
<1>11. CASE CompensatingDelete(r)
  BY <1>1, <1>11, SMTT(30) DEF CompensatingDelete, Continue, Goto, Hit, Empty, Whole, Closed, Open
<1>12. CASE Crash(r)
  BY <1>1, <1>12 DEF Crash, Calls, Goto, Hit, storage, Empty, Whole, Closed, Open
<1> QED
  BY <1>2, <1>3, <1>4, <1>5, <1>6, <1>7, <1>8, <1>9, <1>10, <1>11, <1>12 DEF Register

LEMMA NextInv == Inv /\ [Next]_vars => Inv'
<1> SUFFICES ASSUME Inv, [Next]_vars PROVE Inv'
  OBVIOUS
<1>1. CASE UNCHANGED vars
  BY <1>1 DEF vars, service, storage, Inv, TypeOK, RequestInv, AtCall, Throughout, Empty, Open, Whole,
              Closed, Answered
<1>2. ASSUME NEW r \in Requests, Register(r) \/ Crash(r) PROVE Inv'
  <2>1. TypeOK'
    BY <1>2, StepType DEF Inv
  <2>2. ASSUME NEW s \in Requests PROVE (AtCall(s) /\ Throughout(s))'
    <3>1. CASE s = r
      BY <1>2, <3>1, StepMine DEF Inv, RequestInv
    <3>2. CASE s # r
      <4>1. Mine(s)' = Mine(s)
        BY <1>2, <3>2, StepOthers DEF Inv
      <4> QED
        BY <4>1 DEF Mine, Inv, RequestInv, AtCall, Throughout, Empty, Open, Whole, Closed, Answered
    <3> QED
      BY <3>1, <3>2
  <2> QED
    BY <2>1, <2>2 DEF Inv, RequestInv
<1> QED
  BY <1>1, <1>2 DEF Next

-----------------------------------------------------------------------------
\* The types, the bound of what was uploaded by the size of the file, and what
\* holds before each call and throughout (reports.py:60-125, storage.py:67-125).
THEOREM RegistrationInvariant == Spec => []Inv
BY InitInv, NextInv, PTL DEF Spec

\* What a request holds, what the storage holds of it and what the table says
\* keep their types; a request never counts more bytes than the upload has
\* (storage.py:86-117).
THEOREM TypeCorrect == Spec => []TypeOK
<1>1. Inv => TypeOK
  BY DEF Inv
<1> QED
  BY <1>1, RegistrationInvariant, PTL

\* 202 means a report with the whole file (reports.py:76-125).
THEOREM Accepted == Spec => []AcceptedIsComplete
<1>1. Inv => AcceptedIsComplete
  BY DEF Inv, RequestInv, Throughout, Whole, AcceptedIsComplete
<1> QED
  BY <1>1, RegistrationInvariant, PTL

\* Only a lost acknowledgement can separate a report from its original
\* (reports.py:90-112).
THEOREM Registered == Spec => []RegisteredHasOriginal
<1>1. Inv => RegisteredHasOriginal
  BY DEF Inv, RequestInv, Throughout, Whole, RegisteredHasOriginal
<1> QED
  BY <1>1, RegistrationInvariant, PTL

\* The limit is the same for the answer, the object, the report and the parts, for
\* every limit and part size (storage.py:94-100).
THEOREM Limit == Spec => []LimitIsExact
<1>1. Inv => LimitIsExact
  <2> SUFFICES ASSUME Inv, NEW r \in Requests
               PROVE  /\ Answered(r, "too_large") => size[r] > MaxBytes
                      /\ size[r] > MaxBytes => objects[r] = None /\ rows[r] = None
                      /\ stored[r] <= MaxBytes
    BY DEF LimitIsExact
  <2>1. size[r] \in Nat /\ MaxBytes \in Nat
    BY SizesAssumption, LimitsAssumption DEF Inv, TypeOK
  <2> QED
    BY <2>1 DEF Inv, RequestInv, Throughout, Whole
<1> QED
  BY <1>1, RegistrationInvariant, PTL

\* A request that ends without a report and without a fault of its cleaning leaves
\* nothing (storage.py:118-125, reports.py:102-112).
THEOREM Cleaned == Spec => []NothingLeftBehind
<1>1. Inv => NothingLeftBehind
  BY DEF Inv, RequestInv, AtCall, Throughout, NothingLeftBehind, Ended
<1> QED
  BY <1>1, RegistrationInvariant, PTL
=============================================================================
