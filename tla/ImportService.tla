----------------------------- MODULE ImportService -----------------------------
(***************************************************************************)
(* What the import promises to someone who uploads reports and reads       *)
(* stocks, without locks, batches, retries or failures: a registered       *)
(* report waits for those registered before it, is then processed, and     *)
(* ends failed without a trace in the stock tables, or completed with its  *)
(* whole file applied in one step.                                         *)
(***************************************************************************)
EXTENDS Naturals, Sequences

CONSTANTS
    Reports,    \* the reports that may be registered
    Files,      \* the files that may be uploaded
    Importable  \* those of Files whose every record is valid

VARIABLES
    status,  \* what GET /reports shows; "absent", "inserting": not yet shown
    file,    \* the original of each report
    older,   \* the reports shown when the registration of r began
    stock    \* the snapshots the stock tables have absorbed, in order

vars == <<status, file, older, stock>>

Terminal == {"completed", "failed"}
Shown    == {"pending", "processing"} \cup Terminal

Init ==
    /\ status = [r \in Reports |-> "absent"]
    /\ file = [r \in Reports |-> <<>>]
    /\ older = [r \in Reports |-> {}]
    /\ stock = <<>>

Move(r, from, to) ==
    /\ status[r] = from
    /\ status' = [status EXCEPT ![r] = to]

Upload(r) ==
    /\ Move(r, "absent", "inserting")
    /\ \E f \in Files : file' = [file EXCEPT ![r] = f]
    /\ older' = [older EXCEPT ![r] = {q \in Reports : status[q] \in Shown}]
    /\ UNCHANGED stock

Accept(r) ==
    /\ Move(r, "inserting", "pending")
    /\ UNCHANGED <<file, older, stock>>

\* First come, first served.
Start(r) ==
    /\ Move(r, "pending", "processing")
    /\ \A q \in older[r] : status[q] \in Terminal
    /\ UNCHANGED <<file, older, stock>>

Fail(r) ==
    /\ Move(r, "processing", "failed")
    /\ UNCHANGED <<file, older, stock>>

\* All of the file or nothing.
Complete(r) ==
    /\ Move(r, "processing", "completed")
    /\ file[r] \in Importable
    /\ stock' = Append(stock, [report |-> r, records |-> file[r]])
    /\ UNCHANGED <<file, older>>

Next == \E r \in Reports : Upload(r) \/ Accept(r) \/ Start(r) \/ Fail(r) \/ Complete(r)

Spec == Init /\ [][Next]_vars
=============================================================================
