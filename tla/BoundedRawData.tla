---------------------------- MODULE BoundedRawData ----------------------------
(***************************************************************************)
(* What of the original data is kept with a validation error               *)
(* (_bounded_raw_data and _bounded_raw_text of                             *)
(* app/services/csv_validation.py): each text is shortened to a limit, all *)
(* of them together to another, and the data say if something is missing.  *)
(* A text is known by its length.                                          *)
(***************************************************************************)
EXTENDS Integers, Sequences, SequencesExt, FiniteSets

CONSTANTS
    ValueLimit,  \* error_raw_value_chars
    TotalLimit,  \* error_raw_total_chars
    MarkerChars  \* len(_TRUNCATION_MARKER)

ASSUME LimitsAssumption ==
    /\ ValueLimit \in Nat \ {0}
    /\ TotalLimit \in Nat \ {0}
    /\ MarkerChars \in Nat

\* A text that is kept: how long it is, and whether it ends with the marker.
KeptTexts == [length : Nat, marked : BOOLEAN]

Smaller(a, b) == IF a <= b THEN a ELSE b

\* _bounded_raw_text: the marker counts, and is left out where it does not fit.
BoundedText(n, rest) ==
    LET allowed == Smaller(ValueLimit, rest) IN
    IF n <= allowed THEN [length |-> n, marked |-> FALSE]
    ELSE [length |-> allowed, marked |-> allowed > MarkerChars]

\* The accumulator of the loop over the data.
NothingKept == [kept |-> <<>>, remaining |-> TotalLimit, truncated |-> FALSE]

KeepText(acc, n) ==
    LET b == BoundedText(n, acc.remaining) IN
    [kept      |-> Append(acc.kept, b),
     remaining |-> acc.remaining - b.length,
     truncated |-> acc.truncated \/ b.length < n]

\* Mutant: texts left out at the end of a list are not noticed.
KeepItemUnnoticed(acc, n) ==
    IF acc.remaining = 0 THEN acc ELSE KeepText(acc, n)

\* In a list, nothing more is kept once the total is used up.
KeepItem(acc, n) ==
    IF acc.remaining = 0 THEN [acc EXCEPT !.truncated = TRUE] ELSE KeepText(acc, n)

\* The accumulator after the first i texts.
Keeping(texts, isList) ==
    LET acc[i \in 0 .. Len(texts)] ==
            IF i = 0 THEN NothingKept
            ELSE IF isList THEN KeepItem(acc[i - 1], texts[i]) ELSE KeepText(acc[i - 1], texts[i])
    IN  acc

Raw(acc) == [kept |-> acc.kept, truncated |-> acc.truncated]

\* _bounded_raw_data of values under keys of their own, and of one list.
BoundedValues(texts) == Raw(Keeping(texts, FALSE)[Len(texts)])
BoundedList(texts)   == Raw(Keeping(texts, TRUE)[Len(texts)])

\* The preview of a record: it is marked as truncated in any case.
BoundedPreview(texts) == [BoundedValues(texts) EXCEPT !.truncated = TRUE]

NoRawData == [kept |-> <<>>, truncated |-> FALSE]
=============================================================================
