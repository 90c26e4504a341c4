------------------------------ MODULE CsvRecords ------------------------------
(***************************************************************************)
(* How the text of an uploaded file is split into logical CSV records      *)
(* (_iter_logical_records of app/services/csv_validation.py) and how a     *)
(* record is parsed (_parse_record).                                       *)
(*                                                                         *)
(* The text comes in pieces of a fixed number of characters, which the     *)
(* text layer collects from the bytes that ChunkStream delivers; a byte    *)
(* stands for a character here.  Within a                                  *)
(* piece only the special characters (quote, comma, CR, LF) are looked at  *)
(* one by one; the state of the quotes, of a CR that may be followed by    *)
(* its LF, and of a record that outgrew the limit is carried from one      *)
(* piece to the next.  A text is a sequence over the four special          *)
(* characters and "other", which stands for all the rest.                  *)
(***************************************************************************)
EXTENDS ChunkStream

CONSTANTS
    ReadChars,  \* _TEXT_READ_CHARS, the possible sizes of a piece
    MaxRecord,  \* max_record_chars
    Preview     \* preview_chars, what is kept of a record over the limit

Special    == {"quote", "comma", "cr", "lf"}
Newline    == {"cr", "lf"}
Characters == Special \cup {"other"}

ASSUME CsvRecordsAssumption ==
    /\ \A o \in Objects : o \in Seq(Seq(Characters))
    /\ ReadChars \subseteq Nat \ {0}
    /\ MaxRecord \in Nat \ {0}
    /\ Preview \in Nat \ {0}

VARIABLES
    size,      \* how many characters a piece has
    pos,       \* how many characters have been read: where the piece ends
    segment,   \* segment_start: the first character of the piece not stored yet
    counted,   \* counted_start: the first character of the piece not counted yet
    rec,       \* the record that is being collected
    skipLf,    \* skip_lf_after_cr
    records,   \* the records yielded so far
    phase      \* reading the next piece, scanning it, or done

position == <<pos, segment, counted>>
splitter == <<size, position, rec, skipLf, records, phase>>
vars     == <<stream, splitter>>

\* The whole text of the file.
text == FlattenSeq(object)

NoRecord == [parts |-> <<>>, chars |-> 0, truncated |-> FALSE,
             inQuotes |-> FALSE, quotePending |-> FALSE, atFieldStart |-> TRUE]

Init ==
    /\ StreamInit
    /\ size \in ReadChars
    /\ pos = 0
    /\ segment = 1
    /\ counted = 1
    /\ rec = NoRecord
    /\ skipLf = FALSE
    /\ records = <<>>
    /\ phase = "reading"

-----------------------------------------------------------------------------
(* The record                                                              *)

\* append_piece: a record that outgrows the limit is cut down to its preview,
\* and nothing is added to it any more.
AppendPiece(r, piece) ==
    LET whole == r.parts \o piece IN
    IF r.truncated THEN r
    ELSE IF Len(whole) <= MaxRecord
         THEN [r EXCEPT !.parts = whole]
         ELSE [r EXCEPT !.parts = SubSeq(whole, 1, Min({Preview, MaxRecord})),
                        !.truncated = TRUE]

\* n characters that are not special follow: they end quotes that a pending
\* quote closed, and outside quotes the field has begun.
PassOther(r, n) ==
    LET inside == r.inQuotes /\ ~r.quotePending IN
    IF n = 0 THEN r
    ELSE [r EXCEPT !.chars = @ + n, !.inQuotes = inside,
                   !.quotePending = FALSE, !.atFieldStart = @ /\ inside]

\* The quotes stay open unless a pending quote is not doubled by the next one.
StaysInside(r, c) == r.inQuotes /\ (r.quotePending => c = "quote")

IsBoundary(r, c) == c \in Newline /\ ~StaysInside(r, c)

\* Mutant: a quote opens quotes wherever it stands in a field.
PassSpecialAnywhere(r, c) ==
    LET inside == StaysInside(r, c) IN
    [r EXCEPT !.chars = @ + 1,
              !.inQuotes = inside \/ c = "quote",
              !.quotePending = inside /\ c = "quote" /\ ~r.quotePending,
              !.atFieldStart = c = "comma"]

\* Mutant: the second quote of a pair does not clear the pending one.
PassSpecialKeepPending(r, c) ==
    LET inside == StaysInside(r, c) IN
    [r EXCEPT !.chars = @ + 1,
              !.inQuotes = inside \/ (c = "quote" /\ r.atFieldStart),
              !.quotePending = (inside /\ c = "quote") \/ (@ /\ ~inside),
              !.atFieldStart = IF inside THEN @ ELSE c = "comma"]

\* A special character: the loop with reprocess.
PassSpecial(r, c) ==
    LET inside == StaysInside(r, c)
        opens  == ~inside /\ c = "quote" /\ r.atFieldStart
    IN  [r EXCEPT !.chars = @ + 1,
                  !.inQuotes = inside \/ opens,
                  !.quotePending = inside /\ c = "quote" /\ ~r.quotePending,
                  !.atFieldStart = IF inside THEN @ ELSE c = "comma"]

Yielded(r) == [text |-> r.parts, chars |-> r.chars, truncated |-> r.truncated]

-----------------------------------------------------------------------------
(* The loop over pieces and their special characters                       *)

\* read() asks the stream for bytes until it has as many characters as it
\* was asked for; a part that is too short waits for the end of the file.
Enough == Len(delivered) >= pos + size

AskStream ==
    /\ phase = "reading"
    /\ ~Enough
    /\ ReadInto
    /\ UNCHANGED splitter

StreamStep == ReadStep /\ UNCHANGED splitter

LoseLock == phase # "done" /\ LoseConnection /\ UNCHANGED splitter

\* What read() gives back: as much as was asked for, except at the end.
HasPiece ==
    /\ phase = "reading"
    /\ Enough \/ pc = "end of file"
    /\ pos < Len(delivered)

\* Mutant: a CR at the end of a piece is forgotten.
ReadPieceForgetCr ==
    /\ HasPiece
    /\ pos' = Min({pos + size, Len(delivered)})
    /\ segment' = pos + 1
    /\ counted' = pos + 1
    /\ skipLf' = FALSE
    /\ phase' = "scanning"
    /\ pc' = "reader"
    /\ UNCHANGED <<object, chunks, current, wanted, target, delivered, lost, late,
                   size, rec, records>>

\* The next read() asks the stream again, also after the end of the file.
ReadPiece ==
    /\ HasPiece
    /\ pos' = Min({pos + size, Len(delivered)})
    /\ segment' = pos + 1
    /\ counted' = pos + 1
    /\ phase' = "scanning"
    /\ pc' = "reader"
    /\ UNCHANGED <<object, chunks, current, wanted, target, delivered, lost, late,
                   size, rec, skipLf, records>>

SpecialsAhead == {i \in counted .. pos : delivered[i] \in Special}
NextSpecial   == Min(SpecialsAhead)

\* The LF of a CR LF: it belongs to no record.
SkippedLf(i) == skipLf /\ i = segment /\ delivered[i] = "lf"

SkipLineFeed ==
    /\ phase = "scanning"
    /\ SpecialsAhead # {}
    /\ SkippedLf(NextSpecial)
    /\ skipLf' = FALSE
    /\ segment' = NextSpecial + 1
    /\ counted' = NextSpecial + 1
    /\ UNCHANGED <<stream, size, pos, rec, records, phase>>

HandleSpecial ==
    /\ phase = "scanning"
    /\ SpecialsAhead # {}
    /\ ~SkippedLf(NextSpecial)
    /\ LET i == NextSpecial
           r == PassOther(rec, i - counted)
       IN  /\ counted' = i + 1
           /\ IF IsBoundary(r, delivered[i])
              THEN /\ records' = Append(records,
                          Yielded(AppendPiece(PassSpecial(r, delivered[i]),
                                              SubSeq(delivered, segment, i))))
                   /\ rec' = NoRecord
                   /\ skipLf' = (delivered[i] = "cr")
                   /\ segment' = i + 1
              ELSE /\ rec' = PassSpecial(r, delivered[i])
                   /\ skipLf' = FALSE
                   /\ UNCHANGED <<records, segment>>
    /\ UNCHANGED <<stream, size, pos, phase>>

\* What is left of the piece belongs to the record that goes on.
EndPiece ==
    /\ phase = "scanning"
    /\ SpecialsAhead = {}
    /\ LET trailing == pos + 1 - counted IN
       /\ rec' = AppendPiece(PassOther(rec, trailing), SubSeq(delivered, segment, pos))
       /\ skipLf' = (skipLf /\ trailing = 0)
    /\ phase' = "reading"
    /\ UNCHANGED <<stream, size, position, records>>

\* The last record of a file needs no newline.
EndOfText ==
    /\ phase = "reading"
    /\ pc = "end of file"
    /\ pos = Len(delivered)
    /\ records' = IF rec.chars > 0 THEN Append(records, Yielded(rec)) ELSE records
    /\ phase' = "done"
    /\ UNCHANGED <<stream, size, position, rec, skipLf>>

Finished == (phase = "done" \/ pc = "aborted") /\ UNCHANGED vars

Next ==
    \/ AskStream
    \/ StreamStep
    \/ LoseLock
    \/ ReadPiece
    \/ SkipLineFeed
    \/ HandleSpecial
    \/ EndPiece
    \/ EndOfText
    \/ Finished

Spec == Init /\ [][Next]_vars

-----------------------------------------------------------------------------
(* What a CSV record is, character by character                            *)

\* Where the text stands: at the start of a field, in a plain field, in
\* quotes, or after a quote that may close them.
NextMode(mode, c) ==
    CASE mode = "quoted" -> IF c = "quote" THEN "closing" ELSE "quoted"
      [] mode = "closing" /\ c = "quote" -> "quoted"
      [] OTHER -> IF c \in Newline \cup {"comma"} THEN "start"
                  ELSE IF c = "quote" /\ mode = "start" THEN "quoted"
                  ELSE "plain"

\* Where it stands after its first i characters.
Mode(t) ==
    LET mode[i \in 0 .. Len(t)] == IF i = 0 THEN "start" ELSE NextMode(mode[i - 1], t[i])
    IN  mode

\* The newlines that are not in quotes, given the modes of the text; those of
\* them that belong to no record, as they follow their CR; and where records
\* begin and end.
Breaks(t, mode)   == {i \in DOMAIN t : t[i] \in Newline /\ mode[i - 1] # "quoted"}
Swallowed(t, brk) == {i \in brk : t[i] = "lf" /\ i - 1 \in brk /\ t[i - 1] = "cr"}
Begins(t, brk)    == {i \in DOMAIN t \ Swallowed(t, brk) : i = 1 \/ i - 1 \in brk}
EndOf(t, brk, b)  == Min({e \in brk \cup {Len(t)} : e >= b})

\* The k-th number of a set.
Nth(S, k) == CHOOSE n \in S : Cardinality({m \in S : m <= n}) = k

\* The records of a text, and the records as they are kept within the limit.
RecordsOf(t) ==
    LET brk    == Breaks(t, Mode(t))
        begins == Begins(t, brk)
        Record(b) == SubSeq(t, b, EndOf(t, brk, b))
    IN  [k \in 1 .. Cardinality(begins) |-> Record(Nth(begins, k))]

Kept(s) ==
    [text      |-> IF Len(s) <= MaxRecord THEN s ELSE SubSeq(s, 1, Min({Preview, MaxRecord})),
     chars     |-> Len(s),
     truncated |-> Len(s) > MaxRecord]

-----------------------------------------------------------------------------
(* csv.reader with strict=True, over the lines of a text                   *)

LineEnds(t, i) == i = Len(t) \/ t[i] = "lf" \/ (t[i] = "cr" /\ t[i + 1] # "lf")

Failed(o) == \E k \in DOMAIN o : o[k].error

Row(fields) == [error |-> FALSE, row |-> fields]
Error       == [error |-> TRUE, row |-> <<>>]

SaveField(s, mode) == [s EXCEPT !.row = Append(@, s.field), !.field = <<>>, !.mode = mode]
AddChar(s, c, mode) == [s EXCEPT !.field = Append(@, c), !.mode = mode]

\* One character of a line.
ReaderChar(s, c) ==
    CASE s.mode \in {"record", "eat"} /\ c \in Newline -> [s EXCEPT !.mode = "eat"]
      [] s.mode \in {"record", "field"} /\ c = "quote" -> [s EXCEPT !.mode = "quoted"]
      [] s.mode = "quoted" -> IF c = "quote" THEN [s EXCEPT !.mode = "closing"]
                              ELSE AddChar(s, c, "quoted")
      [] s.mode = "closing" /\ c = "quote" -> AddChar(s, c, "quoted")
      [] (s.mode = "eat" /\ c \notin Newline) \/ (s.mode = "closing" /\ c = "other") ->
             [s EXCEPT !.rows = Append(@, Error)]
      [] OTHER -> CASE c \in Newline -> SaveField(s, "eat")
                    [] c = "comma"   -> SaveField(s, "field")
                    [] OTHER         -> AddChar(s, c, "plain")

\* The end of a line: the row is complete unless quotes are open.
ReaderLineEnd(s) ==
    LET e == IF s.mode \in {"record", "eat"} THEN s ELSE SaveField(s, "record") IN
    IF s.mode = "quoted" THEN s
    ELSE [e EXCEPT !.rows = Append(@, Row(e.row)), !.row = <<>>, !.mode = "record"]

\* The rows a reader gives, the last of them an error if it raises csv.Error.
Reader(t) ==
    LET state[i \in 0 .. Len(t)] ==
            IF i = 0 THEN [mode |-> "record", field |-> <<>>, row |-> <<>>, rows |-> <<>>]
            ELSE IF Failed(state[i - 1].rows) THEN state[i - 1]
            ELSE LET s == ReaderChar(state[i - 1], t[i]) IN
                 IF LineEnds(t, i) /\ ~Failed(s.rows) THEN ReaderLineEnd(s) ELSE s
        last == state[Len(t)]
    IN  IF last.mode = "quoted" /\ ~Failed(last.rows) THEN Append(last.rows, Error) ELSE last.rows

\* _parse_record: a record must give exactly one row; an empty one gives [].
ParseRecord(t) ==
    LET rows == Reader(t) IN
    CASE rows = <<>>    -> Row(<<>>)
      [] Len(rows) = 1  -> rows[1]
      [] OTHER          -> Error

-----------------------------------------------------------------------------
(* Properties                                                              *)

\* Memory stays bounded whatever the file holds: what is stored of a record
\* never exceeds the limit, what is kept of one over the limit never exceeds
\* the preview, and a record over the limit has more characters than that
\* (append_piece).  A pending quote is one inside quotes.
TypeOK ==
    /\ StreamTypeOK
    /\ size \in ReadChars
    /\ pos \in 0 .. Len(delivered)
    /\ segment \in 1 .. pos + 1
    /\ counted \in segment .. pos + 1
    /\ rec \in [parts : Seq(Characters), chars : Nat, truncated : BOOLEAN,
                inQuotes : BOOLEAN, quotePending : BOOLEAN, atFieldStart : BOOLEAN]
    /\ rec.quotePending => rec.inQuotes
    /\ Len(rec.parts) <= IF rec.truncated THEN Min({Preview, MaxRecord}) ELSE MaxRecord
    /\ rec.truncated => rec.chars > Len(rec.parts)
    /\ skipLf \in BOOLEAN
    /\ phase \in {"reading", "scanning", "done"}

\* The records depend on the text only, not on where the pieces are cut: a
\* quote, a doubled quote, a CR LF or the limit on the edge of a piece is
\* treated as anywhere else.  They are the records of the text in their
\* order, each with its full number of characters and cut to its preview if it
\* is over the limit, and none is lost at the end of the file
\* (_iter_logical_records).
SplitsAsCsv ==
    LET expected == RecordsOf(text) IN
    /\ Len(records) <= Len(expected)
    /\ \A k \in DOMAIN records : records[k] = Kept(expected[k])
    /\ phase = "done" => Len(records) = Len(expected)

\* Splitting first and parsing each record on its own gives what one reader
\* over the whole text gives, row by row up to the first error, except for
\* the records over the limit.  In particular a record never holds a second
\* row (_iter_logical_records and _parse_record).
AgreesWithReader ==
    phase = "done" =>
        LET rows == Reader(text) IN
        /\ Len(rows) <= Len(records)
        /\ ~Failed(rows) => Len(rows) = Len(records)
        /\ \A k \in DOMAIN rows : ~records[k].truncated => ParseRecord(records[k].text) = rows[k]
=============================================================================
