----------------------------- MODULE MCCsvRecords -----------------------------
(* CsvRecords on every text of at most MaxText characters, as one chunk, and
   cut into smaller chunks, of which one is empty. *)
EXTENDS CsvRecords

CONSTANT MaxText

ShortTexts == BoundedSeq(Characters, MaxText)

Part(t, i, j) == SubSeq(t, i, Min({j, Len(t)}))
Cut(t)        == <<Part(t, 1, 2), <<>>, Part(t, 3, 3), Part(t, 4, MaxText)>>

CutTexts == {<<t>> : t \in ShortTexts} \cup {Cut(t) : t \in ShortTexts}
=============================================================================
