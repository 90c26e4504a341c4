---------------------------- MODULE MCCsvValidation ----------------------------
(* CsvValidation on files that show each check once and pairs of them, and on
   files of one record whose raw data meets the limits in every way. *)
EXTENDS CsvValidation

CONSTANT MaxRows

Columns == {"warehouse_code", "sku"}

Header == [over |-> FALSE, parse |-> "row", surrogate |-> FALSE, nul |-> "none",
           occurs |-> [c \in Required |-> 1], texts |-> <<3, 2, 3>>]

\* Nothing is known of a record without a row but its text.
TextOf(r, n) == [r EXCEPT !.texts = <<n>>]

BadHeaders ==
    {TextOf([Header EXCEPT !.over = TRUE, !.surrogate = s], ValueLimit) : s \in BOOLEAN} \cup
    {TextOf([Header EXCEPT !.parse = "field", !.surrogate = s], 9) : s \in BOOLEAN} \cup
    {[Header EXCEPT !.parse = "malformed"], [Header EXCEPT !.surrogate = TRUE],
     [Header EXCEPT !.occurs["sku"] = 0],
     [Header EXCEPT !.occurs["sku"] = 0, !.nul = "extra"],
     [Header EXCEPT !.occurs["sku"] = 2, !.occurs["quantity"] = 0, !.texts = <<3, 2, 2, 9>>],
     [Header EXCEPT !.occurs = [c \in Required |-> 0], !.texts = <<5, 5, 0, 1>>]}

Good == [over |-> FALSE, parse |-> "row", surrogate |-> FALSE, nul |-> "none",
         texts |-> <<1, 1, 1>>, blank |-> {}, integer |-> TRUE, digits |-> 1, value |-> 1]

\* A row with a quantity of d digits, zeros in front, and the length of its text.
Quantity(v, d) ==
    [Good EXCEPT !.value = v, !.digits = d, !.texts[3] = IF v < 0 THEN d + 1 ELSE d]
Quantities == {Quantity(v, 1) : v \in {-1, 0, BigIntMax, BigIntMax + 1}} \cup
              {Quantity(1, IntDigits)}
Endless    == {Quantity(v, IntDigits + 1) : v \in {-1, 1, BigIntMax + 1}} \cup
              {[Quantity(1, IntDigits + 1) EXCEPT !.blank = {"sku"}]}
OverLimit  == {TextOf([Good EXCEPT !.over = TRUE, !.surrogate = s], ValueLimit) : s \in BOOLEAN} \cup
              {TextOf([Good EXCEPT !.parse = "field", !.surrogate = s], 9) : s \in BOOLEAN}
WithNul    == {[Good EXCEPT !.nul = "required"], [Good EXCEPT !.nul = "extra"],
               [Good EXCEPT !.nul = "extra", !.texts = <<1, 1, 1, 1>>],
               [Good EXCEPT !.nul = "required", !.value = -1, !.texts[3] = 2]}
Wrong      == {[Good EXCEPT !.parse = "malformed"], [Good EXCEPT !.surrogate = TRUE],
               [Good EXCEPT !.texts = <<1, 1>>], [Good EXCEPT !.texts = <<1, 0>>, !.blank = {"sku"}],
               [Good EXCEPT !.blank = {"sku"}],
               [Good EXCEPT !.blank = Columns, !.value = BigIntMax + 1],
               [Good EXCEPT !.integer = FALSE]}

FilesOf(rows) == {[header |-> Header, rows |-> s] : s \in UNION {[1 .. n -> rows] : n \in 0 .. MaxRows}}

\* Fields of every length around the limits, in rows of the right and of a
\* wrong width, and as a header.
FieldLengths == {0, 1, MarkerChars + 1, ValueLimit, ValueLimit + 1}

\* A required text column without text is blank.
Blank(l) == {c \in Columns : l[IF c = "warehouse_code" THEN 1 ELSE 2] = 0}

LongRows ==
    {[Good EXCEPT !.integer = FALSE, !.texts = l, !.blank = Blank(l)] :
         l \in [1 .. 3 -> FieldLengths] \cup [1 .. 4 -> FieldLengths]}

LongFiles ==
    {[header |-> Header, rows |-> <<r>>] : r \in LongRows} \cup
    {[header |-> [Header EXCEPT !.occurs["sku"] = 0, !.texts = l], rows |-> <<>>] :
         l \in [1 .. 4 -> FieldLengths]}

AllFiles ==
    FilesOf({Good} \cup Quantities \cup Endless \cup OverLimit \cup WithNul \cup Wrong) \cup
    {[header |-> h, rows |-> s] : h \in BadHeaders, s \in {<<>>, <<Good>>}} \cup
    {[header |-> [Header EXCEPT !.nul = "extra", !.texts = <<3, 2, 3, 1>>],
      rows |-> <<[Good EXCEPT !.texts = <<1, 1, 1, 1>>]>>],
     [header |-> [Header EXCEPT !.parse = "absent", !.texts = <<>>], rows |-> <<>>]} \cup
    LongFiles

QuantityFiles == FilesOf(Quantities \cup Endless)
=============================================================================
