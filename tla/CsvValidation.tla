---------------------------- MODULE CsvValidation ----------------------------
(***************************************************************************)
(* Validation of one report (validate_csv_stream of                        *)
(* app/services/csv_validation.py, with the writer and the conclusion of   *)
(* ReportValidator in app/services/report_processing.py): the records of   *)
(* the file become staging rows or errors, stored in batches.  What the    *)
(* database can store is part of the model: a batch with a row it refuses  *)
(* is not stored at all and ends the validation with a processing error.   *)
(*                                                                         *)
(* A record is known by what the checks look at.  Which stock a row names, *)
(* and with it the check for duplicates, is left to ImportPipeline, as are *)
(* the lock and all faults.                                                *)
(***************************************************************************)
EXTENDS BoundedRawData

CONSTANTS
    Files,        \* the files: a header and the data records
    TextColumns,  \* the required columns except quantity
    BatchSize,
    BigIntMax,    \* POSTGRES_BIGINT_MAX
    IntDigits     \* the most digits int() converts, leading zeros included

None == "none"

Required == TextColumns \cup {"quantity"}

\* over       the record exceeds max_record_chars and is cut to a preview
\* parse      what csv.reader makes of it: a "row", "malformed", or "field" for
\*            one with a field over the limit; "absent" in a file without header
\* surrogate  bytes that are not UTF-8, as far as the row or the preview goes
\* nul        the character U+0000: "none", in a "required" text column, or in
\*            another ("extra") place, where raw_data would show it
\* texts      the lengths of its fields, those of the required columns first;
\*            of a record without a row, the length of its text or preview
Headers == [over : BOOLEAN, parse : {"row", "malformed", "field", "absent"}, surrogate : BOOLEAN,
            nul : {"none", "extra"}, occurs : [Required -> 0 .. 2], texts : Seq(Nat)]

\* blank: the text columns that are empty after strip(); integer: quantity is
\* a decimal integer, written with so many digits and of this value.
Rows == [over : BOOLEAN, parse : {"row", "malformed", "field"}, surrogate : BOOLEAN,
         nul : {"none", "required", "extra"}, texts : Seq(Nat),
         blank : SUBSET TextColumns, integer : BOOLEAN, digits : Nat, value : Int]

\* Each required column is one of the fields of the header.
HasColumns(h) == /\ ~h.over /\ h.parse = "row"
                 /\ \A c \in Required : h.occurs[c] = 1

ASSUME CsvValidationAssumption ==
    /\ \A f \in Files : /\ f.header \in Headers
                        /\ f.rows \in Seq(Rows)
                        /\ f.header.parse = "absent" => f.rows = <<>>
                        /\ HasColumns(f.header) => Len(f.header.texts) >= Cardinality(Required)
    /\ {"quantity", None} \cap TextColumns = {} /\ IsFiniteSet(TextColumns)
    /\ BatchSize \in Nat \ {0}
    /\ BigIntMax \in Nat
    /\ IntDigits \in Nat

VARIABLES
    file,
    pc,            \* what the validator does next, or how it ended
    rowCount,      \* row_count; logical_line_number is one more
    reachedEof,
    todo,          \* issues handed to add_issues and not yet added
    stagingBatch,
    errorBatch,
    staging,       \* the stored staging rows of the report
    errors         \* its stored errors

batches == <<todo, stagingBatch, errorBatch>>
stored  == <<staging, errors>>
vars    == <<file, pc, rowCount, reachedEof, batches, stored>>

Ended == {"validated", "validation failed", "processing failed"}

Init ==
    /\ file \in Files
    /\ pc = "header"
    /\ rowCount = 0
    /\ reachedEof = FALSE
    /\ todo = <<>>
    /\ stagingBatch = <<>>
    /\ errorBatch = <<>>
    /\ staging = <<>>
    /\ errors = <<>>

-----------------------------------------------------------------------------
(* The checks                                                              *)

NoLine == 0

\* JSONB takes neither a lone surrogate nor U+0000, TEXT not U+0000.
Jsonb(surrogate, nul) == ~surrogate /\ ~nul

IssueWith(line, field, code, storable, raw) ==
    [line |-> line, field |-> field, code |-> code, storable |-> storable, raw |-> raw]

\* An issue without raw_data can always be stored.
Issue(line, code) == IssueWith(line, None, code, TRUE, NoRawData)

\* What is wrong with a record before its fields are looked at, in the order
\* of the checks; raw_data holds a preview, or nothing.
RecordIssues(r, line) ==
    LET WithPreview(code) ==
            <<IssueWith(line, None, code, Jsonb(r.surrogate, r.nul # "none"), BoundedPreview(r.texts))>>
    IN  CASE r.over -> WithPreview("csv_record_too_large")
          [] ~r.over /\ r.parse = "field" -> WithPreview("csv_field_too_large")
          [] ~r.over /\ r.parse = "malformed" ->
                 <<Issue(IF line = NoLine THEN 1 ELSE line, "malformed_csv")>>
          [] ~r.over /\ r.parse = "row" /\ r.surrogate -> <<Issue(line, "invalid_utf8")>>
          [] OTHER -> <<>>

\* _validate_header
HeaderIssues(h) ==
    LET OfColumn(c, code) ==
            IssueWith(NoLine, c, code, Jsonb(FALSE, h.nul # "none"), BoundedList(h.texts))
    IN  SetToSeq({OfColumn(c, "missing_required_column") : c \in {d \in Required : h.occurs[d] = 0}}
           \cup {OfColumn(c, "duplicate_required_column") : c \in {d \in Required : h.occurs[d] > 1}})

\* The fields of the required columns.
RequiredTexts(r) == SubSeq(r.texts, 1, Cardinality(Required))

\* The columns whose text is refused, with the reason.
FieldProblems(r) ==
    {<<c, "required">> : c \in r.blank} \cup
    CASE ~r.integer -> {<<"quantity", "invalid_quantity">>}
      [] r.integer /\ r.value < 0 -> {<<"quantity", "quantity_negative">>}
      [] r.integer /\ r.value > BigIntMax -> {<<"quantity", "quantity_too_large">>}
      [] OTHER -> {}

FieldIssues(r, line) ==
    SetToSeq({IssueWith(line, p[1], p[2], Jsonb(FALSE, r.nul = "required"),
                        BoundedValues(RequiredTexts(r))) : p \in FieldProblems(r)})

\* Mutant: a row that is longer than the header goes on to the field checks.
RowIssuesOfLongRow(r, h, line) ==
    IF Len(r.texts) < Len(h.texts)
    THEN <<IssueWith(line, None, "invalid_column_count", Jsonb(FALSE, r.nul # "none"),
                     BoundedList(r.texts))>>
    ELSE FieldIssues(r, line)

\* _validate_row, of a row that int() does not refuse.
RowIssues(r, h, line) ==
    IF Len(r.texts) # Len(h.texts)
    THEN <<IssueWith(line, None, "invalid_column_count", Jsonb(FALSE, r.nul # "none"),
                     BoundedList(r.texts))>>
    ELSE FieldIssues(r, line)

\* int() raises ValueError for too many digits, whatever number they write:
\* one in range, with zeros in front, as well as one that is not.
IntRaises(r, h) ==
    /\ ~r.over /\ r.parse = "row" /\ ~r.surrogate
    /\ Len(r.texts) = Len(h.texts)
    /\ r.integer /\ r.digits > IntDigits

Storable(batch) == \A i \in DOMAIN batch : batch[i].storable

-----------------------------------------------------------------------------
(* Reading                                                                 *)

ReadHeader ==
    LET h == file.header
        issues == IF h.parse = "absent" THEN <<Issue(NoLine, "missing_header")>>
                  ELSE IF RecordIssues(h, NoLine) # <<>> THEN RecordIssues(h, NoLine)
                  ELSE HeaderIssues(h)
    IN  /\ pc = "header"
        /\ todo' = issues
        /\ reachedEof' = (h.parse = "absent")
        /\ pc' = IF issues = <<>> THEN "rows" ELSE "flush"
        /\ UNCHANGED <<file, rowCount, stagingBatch, errorBatch, stored>>

RowsLeft == rowCount < Len(file.rows)
NextRow  == file.rows[rowCount + 1]

\* Mutant: a field over the limit ends the file, as malformed CSV does.
StopsFileAtField(r) == ~r.over /\ r.parse \in {"malformed", "field"}

\* Malformed CSV ends the file: what follows cannot be told apart.
StopsFile(r) == ~r.over /\ r.parse = "malformed"

\* A record with a problem: it is not staged.
ReadBadRecord ==
    LET line   == rowCount + 2
        early  == RecordIssues(NextRow, line)
        issues == IF early # <<>> THEN early ELSE RowIssues(NextRow, file.header, line)
    IN  /\ pc = "rows" /\ todo = <<>>
        /\ RowsLeft
        /\ ~IntRaises(NextRow, file.header)
        /\ issues # <<>>
        /\ rowCount' = rowCount + 1
        /\ todo' = issues
        /\ pc' = IF StopsFile(NextRow) THEN "flush" ELSE "rows"
        /\ UNCHANGED <<file, reachedEof, stagingBatch, errorBatch, stored>>

\* A valid row: add_valid_row, with flush_staging when the batch is full.
ReadValidRecord ==
    LET line  == rowCount + 2
        batch == Append(stagingBatch, [line |-> line, storable |-> NextRow.nul # "required"])
    IN  /\ pc = "rows" /\ todo = <<>>
        /\ RowsLeft
        /\ ~IntRaises(NextRow, file.header)
        /\ RecordIssues(NextRow, line) = <<>>
        /\ RowIssues(NextRow, file.header, line) = <<>>
        /\ rowCount' = rowCount + 1
        /\ IF Len(batch) < BatchSize
           THEN stagingBatch' = batch /\ UNCHANGED <<pc, staging>>
           ELSE /\ stagingBatch' = <<>>
                /\ staging' = IF Storable(batch) THEN staging \o batch ELSE staging
                /\ pc' = IF Storable(batch) THEN pc ELSE "processing error"
        /\ UNCHANGED <<file, reachedEof, todo, errorBatch, errors>>

\* The ValueError of int() is nobody's issue: it ends the validation.
ReadEndlessQuantity ==
    /\ pc = "rows" /\ todo = <<>>
    /\ RowsLeft
    /\ IntRaises(NextRow, file.header)
    /\ rowCount' = rowCount + 1
    /\ pc' = "processing error"
    /\ UNCHANGED <<file, reachedEof, batches, stored>>

EndOfRecords ==
    /\ pc = "rows" /\ todo = <<>>
    /\ ~RowsLeft
    /\ todo' = IF rowCount = 0 THEN <<Issue(NoLine, "no_data_rows")>> ELSE <<>>
    /\ reachedEof' = TRUE
    /\ pc' = "flush"
    /\ UNCHANGED <<file, rowCount, stagingBatch, errorBatch, stored>>

-----------------------------------------------------------------------------
(* Storing                                                                 *)

\* Mutant: a full batch is stored but not emptied.
AddIssueKeepBatch ==
    LET batch == Append(errorBatch, Head(todo)) IN
    /\ pc \in {"rows", "flush"}
    /\ todo # <<>>
    /\ todo' = Tail(todo)
    /\ errorBatch' = batch
    /\ errors' = IF Len(batch) >= BatchSize /\ Storable(batch) THEN errors \o batch ELSE errors
    /\ pc' = IF Len(batch) >= BatchSize /\ ~Storable(batch) THEN "processing error" ELSE pc
    /\ UNCHANGED <<file, rowCount, reachedEof, stagingBatch, staging>>

\* add_issues adds them one by one, with flush_errors when the batch is full.
AddIssue ==
    LET batch == Append(errorBatch, Head(todo))
        full  == Len(batch) >= BatchSize
    IN  /\ pc \in {"rows", "flush"}
        /\ todo # <<>>
        /\ todo' = IF full /\ ~Storable(batch) THEN <<>> ELSE Tail(todo)
        /\ errorBatch' = IF full THEN <<>> ELSE batch
        /\ errors' = IF full /\ Storable(batch) THEN errors \o batch ELSE errors
        /\ pc' = IF full /\ ~Storable(batch) THEN "processing error" ELSE pc
        /\ UNCHANGED <<file, rowCount, reachedEof, stagingBatch, staging>>

\* flush_all: the staging batch first.
FlushStaging ==
    /\ pc = "flush" /\ todo = <<>>
    /\ stagingBatch # <<>>
    /\ stagingBatch' = <<>>
    /\ staging' = IF Storable(stagingBatch) THEN staging \o stagingBatch ELSE staging
    /\ pc' = IF Storable(stagingBatch) THEN pc ELSE "processing error"
    /\ UNCHANGED <<file, rowCount, reachedEof, todo, errorBatch, errors>>

FlushErrors ==
    /\ pc = "flush" /\ todo = <<>>
    /\ stagingBatch = <<>>
    /\ errorBatch # <<>>
    /\ errorBatch' = <<>>
    /\ errors' = IF Storable(errorBatch) THEN errors \o errorBatch ELSE errors
    /\ pc' = IF Storable(errorBatch) THEN pc ELSE "processing error"
    /\ UNCHANGED <<file, rowCount, reachedEof, todo, stagingBatch, staging>>

\* The number of stored errors decides; a failed report keeps no staging rows.
Conclude ==
    /\ pc = "flush" /\ todo = <<>>
    /\ stagingBatch = <<>> /\ errorBatch = <<>>
    /\ pc' = IF errors # <<>> THEN "validation failed"
             ELSE IF ~reachedEof \/ rowCount = 0 THEN "processing error"
             ELSE "validated"
    /\ staging' = IF errors # <<>> THEN <<>> ELSE staging
    /\ UNCHANGED <<file, rowCount, reachedEof, batches, errors>>

\* _mark_processing_failed: one error more, without raw data.
MarkProcessingFailed ==
    /\ pc = "processing error"
    /\ errors' = Append(errors, Issue(NoLine, "processing_error"))
    /\ staging' = <<>>
    /\ pc' = "processing failed"
    /\ UNCHANGED <<file, rowCount, reachedEof, batches>>

Finished == pc \in Ended /\ UNCHANGED vars

Next ==
    \/ ReadHeader \/ ReadBadRecord \/ ReadValidRecord \/ ReadEndlessQuantity
    \/ EndOfRecords \/ AddIssue \/ FlushStaging \/ FlushErrors
    \/ Conclude \/ MarkProcessingFailed \/ Finished

Spec == Init /\ [][Next]_vars

-----------------------------------------------------------------------------
(* What a valid file is, whatever the order of the checks                  *)

Clean(r) == ~r.over /\ r.parse = "row" /\ ~r.surrogate

ConformingHeader(h) ==
    /\ Clean(h)
    /\ \A c \in Required : h.occurs[c] = 1

ConformingRow(r, h) ==
    /\ Clean(r)
    /\ Len(r.texts) = Len(h.texts)
    /\ r.blank = {}
    /\ r.integer /\ r.value \in 0 .. BigIntMax

ConformingFile(f) ==
    /\ ConformingHeader(f.header)
    /\ f.rows # <<>>
    /\ \A i \in DOMAIN f.rows : ConformingRow(f.rows[i], f.header)

\* The records validation looks at: up to the first malformed one.
Looked(f) ==
    IF ~ConformingHeader(f.header) THEN {}
    ELSE {i \in DOMAIN f.rows : \A j \in 1 .. i - 1 : f.rows[j].over \/ f.rows[j].parse # "malformed"}

\* Records whose problems, or which themselves, cannot be stored.
HasUnstorable(f) ==
    \/ f.header.nul # "none"
    \/ f.header.surrogate /\ (f.header.over \/ f.header.parse = "field")
    \/ \E i \in Looked(f) : LET r == f.rows[i] IN
           r.nul # "none" \/ (r.surrogate /\ (r.over \/ r.parse = "field"))

HasEndlessQuantity(f) == \E i \in Looked(f) : IntRaises(f.rows[i], f.header)

-----------------------------------------------------------------------------
(* Properties                                                              *)

TypeOK ==
    /\ file.header \in Headers /\ file.rows \in Seq(Rows)
    /\ pc \in Ended \cup {"header", "rows", "flush", "processing error"}
    /\ rowCount \in 0 .. Len(file.rows)
    /\ reachedEof \in BOOLEAN
    /\ Len(stagingBatch) < BatchSize /\ Len(errorBatch) < BatchSize
    /\ Storable(staging) /\ Storable(errors)

AllRows   == staging \o stagingBatch
AllIssues == errors \o errorBatch \o todo

\* Each record read so far is answered for in exactly one way, under its own
\* line number: a valid one by one staging row, another by one or more errors,
\* none of them twice, whichever batches they went through; and the errors are
\* stored in the order of the file (validate_csv_stream, ValidationBatchWriter).
EveryRecordAnsweredOnce ==
    pc \in {"rows", "flush"} =>
        /\ \A i \in 1 .. rowCount :
               LET rows   == {k \in DOMAIN AllRows : AllRows[k].line = i + 1}
                   issues == {k \in DOMAIN AllIssues : AllIssues[k].line = i + 1}
               IN  IF ConformingRow(file.rows[i], file.header)
                   THEN Cardinality(rows) = 1 /\ issues = {}
                   ELSE rows = {} /\ issues # {}
        /\ \A j, k \in DOMAIN AllIssues :
               j < k => /\ AllIssues[j] # AllIssues[k]
                        /\ AllIssues[j].line <= AllIssues[k].line

\* Only a file that conforms is validated and only one that does not is failed
\* for its errors, after every record up to the first malformed one was read.
\* Any other file ends with a processing error, and has a cause for it: a value
\* the database does not store, in a row or in the raw data of an error (so also
\* of a record over its limit that holds bytes that are not UTF-8), or a
\* quantity with more digits than int() takes, also one that is in range.  In
\* particular no invalid row is applied because its error was lost, and a
\* record or field over its limit does not hide the errors that follow it
\* (validate_csv_stream, report_processing.py:186-227).
VerdictIsRight ==
    /\ pc \in {"validated", "validation failed"} => rowCount = Cardinality(Looked(file))
    /\ pc = "validated" => ConformingFile(file) /\ Len(staging) = Len(file.rows)
    /\ pc = "validation failed" => ~ConformingFile(file)
    /\ pc = "processing error" => HasUnstorable(file) \/ HasEndlessQuantity(file)

\* The characters of the first i kept texts.
Chars(kept) ==
    LET sum[i \in 0 .. Len(kept)] == IF i = 0 THEN 0 ELSE sum[i - 1] + kept[i].length
    IN  sum

\* The texts the raw_data of an issue is made from, given the record it is of:
\* the header, all fields of a row of a wrong width, else those of the required
\* columns; without a row, the preview.
TextsOf(e, r) ==
    CASE e.raw = NoRawData -> <<>>
      [] e.raw # NoRawData /\ e.line # NoLine /\ e.field # None -> RequiredTexts(r)
      [] OTHER -> r.texts

RecordAt(f, line) == IF line = NoLine THEN f.header ELSE f.rows[line - 1]

\* raw_data is bounded and honest about texts: no text exceeds its limit and
\* all together not theirs, markers counted; a text is cut, and the end of a
\* list left out, only when a limit is reached; and _truncated is set exactly if
\* something of the data is missing, as it always is of an incomplete record.
Faithful(raw, texts, incomplete) ==
    LET kept   == raw.kept
        total  == Chars(kept)[Len(kept)]
        Cut(k) == kept[k].length < texts[k]
    IN  /\ total <= TotalLimit
        /\ Len(kept) <= Len(texts)
        /\ Len(kept) < Len(texts) => total = TotalLimit
        /\ \A k \in DOMAIN kept :
               /\ kept[k].length <= ValueLimit
               /\ Cut(k) => kept[k].length = ValueLimit \/ total = TotalLimit
               /\ kept[k].marked => Cut(k) /\ kept[k].length > MarkerChars
        /\ raw.truncated <=>
               Len(kept) < Len(texts) \/ (\E k \in DOMAIN kept : Cut(k)) \/ incomplete

TooLarge(e) == e.code \in {"csv_record_too_large", "csv_field_too_large"}

\* The raw_data of every issue is bounded and honest, whichever record it comes
\* from and whichever batches it went through; that of a record or a field over
\* its own limit is marked as truncated (_bounded_raw_data).
RawDataBounded ==
    \A k \in DOMAIN AllIssues :
        LET e == AllIssues[k]
        IN  Faithful(e.raw, TextsOf(e, RecordAt(file, e.line)), TooLarge(e))

-----------------------------------------------------------------------------
(* What the documentation says and the code does not do. *)

Reported(i) == \E k \in DOMAIN errors : errors[k].line = i + 1

\* A quantity out of the BIGINT range is a validation error of its row, also
\* when it has thousands of digits (docs/architecture.md:50, 54).
QuantityErrorStored ==
    pc \in Ended =>
        \A i \in Looked(file) :
            LET r == file.rows[i] IN
            Clean(r) /\ Len(r.texts) = Len(file.header.texts) /\ r.integer /\ r.value > BigIntMax
                => Reported(i)
=============================================================================
