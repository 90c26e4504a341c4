-------------------------- MODULE CsvValidationProofs --------------------------
(***************************************************************************)
(* Theorems about CsvValidation, for all files, limits and batch sizes:    *)
(* every record is answered for once, the verdict is that of the file, and *)
(* the data kept with an error are bounded and honest.                     *)
(***************************************************************************)
EXTENDS CsvValidation, FiniteSetTheorems, SequenceTheorems, WellFoundedInduction, TLAPS

LinesOf(s) == {s[k].line : k \in DOMAIN s}

\* What the database refuses of a record or of its preview.
Unstorable(r) == r.nul # "none" \/ (r.surrogate /\ (r.over \/ r.parse = "field"))

Codes ==
    {"missing_header", "csv_record_too_large", "csv_field_too_large", "malformed_csv",
     "invalid_utf8", "missing_required_column", "duplicate_required_column",
     "invalid_column_count", "required", "invalid_quantity", "quantity_negative",
     "quantity_too_large", "no_data_rows", "processing_error"}

\* The entries of the batches and tables.
RowEntries == [line : Nat, storable : BOOLEAN]
Raws ==
    {NoRawData} \cup {BoundedPreview(r.texts) : r \in Headers \cup Rows}
                \cup {BoundedList(r.texts) : r \in Headers \cup Rows}
                \cup {BoundedValues(RequiredTexts(r)) : r \in Rows}
Issues == [line : Nat, field : Required \cup {None}, code : Codes, storable : BOOLEAN, raw : Raws]

\* The sequence s holds issues of one record, with its line.
IssuesOf(s, line, r) ==
    /\ s \in Seq(Issues)
    /\ \A k \in DOMAIN s : s[k].line = line /\ (~s[k].storable => Unstorable(r))
    /\ \A j, k \in DOMAIN s : j # k => s[j] # s[k]

\* Rows rs and issues is answer for the first n records of f.
Answered(f, n, rs, is) ==
    /\ \A i \in 1 .. n :
         IF ConformingRow(f.rows[i], f.header)
         THEN i + 1 \in LinesOf(rs) /\ i + 1 \notin LinesOf(is)
         ELSE i + 1 \notin LinesOf(rs) /\ i + 1 \in LinesOf(is)
    /\ LinesOf(rs) \subseteq 2 .. n + 1 /\ LinesOf(is) \subseteq 0 .. n + 1
    /\ \A j, k \in DOMAIN rs : j < k => rs[j].line # rs[k].line
    /\ \A j, k \in DOMAIN is : j < k => is[j] # is[k] /\ is[j].line <= is[k].line
    /\ (\A i \in 1 .. n : ConformingRow(f.rows[i], f.header)) => Len(rs) = n
    /\ ~Storable(rs) \/ ~Storable(is) => HasUnstorable(f)

StateOK ==
    /\ file \in Files
    /\ pc \in Ended \cup {"header", "rows", "flush", "processing error"}
    /\ rowCount \in 0 .. Len(file.rows)
    /\ reachedEof \in BOOLEAN
    /\ staging \in Seq(RowEntries) /\ stagingBatch \in Seq(RowEntries)
    /\ errors \in Seq(Issues) /\ errorBatch \in Seq(Issues) /\ todo \in Seq(Issues)
    /\ Len(stagingBatch) < BatchSize /\ Len(errorBatch) < BatchSize
    /\ Storable(staging) /\ Storable(errors)

Started ==
    pc = "header" =>
        /\ rowCount = 0 /\ ~reachedEof
        /\ staging = <<>> /\ stagingBatch = <<>>
        /\ errors = <<>> /\ errorBatch = <<>> /\ todo = <<>>

\* How far the file was read, and that nothing is lost between the batches.
Progress ==
    pc \in {"rows", "flush"} =>
        /\ Answered(file, rowCount, AllRows, AllIssues)
        /\ pc = "rows" \/ rowCount > 0 =>
             /\ ConformingHeader(file.header)
             /\ \A i \in 1 .. rowCount - 1 : ~StopsFile(file.rows[i])
             /\ LinesOf(AllIssues) \subseteq 2 .. rowCount + 1
        /\ pc = "rows" => ~reachedEof /\ (rowCount > 0 => ~StopsFile(file.rows[rowCount]))
        /\ pc = "flush" /\ rowCount > 0 =>
             StopsFile(file.rows[rowCount]) \/ (reachedEof /\ rowCount = Len(file.rows))
        /\ pc = "flush" /\ rowCount = 0 =>
             AllIssues # <<>> /\ (~ConformingHeader(file.header) \/ file.rows = <<>>)

Inv == StateOK /\ Started /\ Progress /\ VerdictIsRight

-----------------------------------------------------------------------------
(* Sequences.                                                              *)

LEMMA AppendIs ==
    ASSUME NEW A, NEW s \in Seq(A), NEW e \in A
    PROVE  /\ Append(s, e) = s \o <<e>> /\ <<e>> \in Seq(A)
           /\ Append(s, e) \in Seq(A) /\ Len(Append(s, e)) = Len(s) + 1
OBVIOUS

LEMMA StorableConcat ==
    ASSUME NEW A, NEW s \in Seq(A), NEW t \in Seq(A)
    PROVE  Storable(s \o t) <=> Storable(s) /\ Storable(t)
<1> DEFINE u == s \o t
<1>1. /\ Len(s) \in Nat /\ Len(t) \in Nat
      /\ DOMAIN s = 1 .. Len(s) /\ DOMAIN t = 1 .. Len(t) /\ DOMAIN u = 1 .. Len(s) + Len(t)
      /\ \A i \in DOMAIN s : u[i] = s[i]
      /\ \A i \in DOMAIN t : u[Len(s) + i] = t[i]
      /\ \A i \in DOMAIN u : i \in DOMAIN s \/ (i - Len(s) \in DOMAIN t /\ u[i] = t[i - Len(s)])
  OBVIOUS
<1> HIDE DEF u
<1>2. Storable(u) => Storable(s) /\ Storable(t)
  BY <1>1 DEF Storable
<1>3. Storable(s) /\ Storable(t) => Storable(u)
  BY <1>1 DEF Storable
<1> QED
  BY <1>2, <1>3 DEF u

LEMMA LinesConcat ==
    ASSUME NEW A, NEW s \in Seq(A), NEW t \in Seq(A)
    PROVE  LinesOf(s \o t) = LinesOf(s) \cup LinesOf(t)
<1> DEFINE u == s \o t
<1>1. /\ Len(s) \in Nat /\ Len(t) \in Nat
      /\ DOMAIN s = 1 .. Len(s) /\ DOMAIN t = 1 .. Len(t) /\ DOMAIN u = 1 .. Len(s) + Len(t)
      /\ \A i \in DOMAIN s : i \in DOMAIN u /\ u[i] = s[i]
      /\ \A i \in DOMAIN t : Len(s) + i \in DOMAIN u /\ u[Len(s) + i] = t[i]
      /\ \A i \in DOMAIN u : \/ i \in DOMAIN s /\ u[i] = s[i]
                             \/ i - Len(s) \in DOMAIN t /\ u[i] = t[i - Len(s)]
  OBVIOUS
<1> HIDE DEF u
<1>2. LinesOf(s) \subseteq LinesOf(u) /\ LinesOf(t) \subseteq LinesOf(u)
  BY <1>1 DEF LinesOf
<1>3. LinesOf(u) \subseteq LinesOf(s) \cup LinesOf(t)
  BY <1>1 DEF LinesOf
<1> QED
  BY <1>2, <1>3 DEF u

\* An issue that moves from the queue to the batch is where it was.
LEMMA IssueMoves ==
    ASSUME NEW A, NEW e \in Seq(A), NEW b \in Seq(A), NEW t \in Seq(A), t # <<>>
    PROVE  /\ (e \o Append(b, Head(t))) \o Tail(t) = (e \o b) \o t
           /\ Tail(t) \in Seq(A) /\ Append(b, Head(t)) \in Seq(A)
<1>1. Head(t) \in A /\ Tail(t) \in Seq(A) /\ t = <<Head(t)>> \o Tail(t) /\ <<Head(t)>> \in Seq(A)
  OBVIOUS
<1> DEFINE h == <<Head(t)>>
           u == Tail(t)
<1>2. Append(b, Head(t)) = b \o h /\ Append(b, Head(t)) \in Seq(A)
  BY <1>1, AppendIs
<1>3. h \in Seq(A) /\ u \in Seq(A) /\ t = h \o u
  BY <1>1
<1> HIDE DEF h, u
<1>4. (e \o (b \o h)) \o u = (e \o b) \o (h \o u)
  <2>1. e \o b \in Seq(A) /\ b \o h \in Seq(A)
    BY <1>3
  <2>2. e \o (b \o h) = (e \o b) \o h
    BY <1>3, ConcatAssociative, SMTT(30)
  <2>3. ((e \o b) \o h) \o u = (e \o b) \o (h \o u)
    <3> DEFINE eb == e \o b
    <3>1. eb \in Seq(A)
      BY <2>1
    <3> HIDE DEF eb
    <3>2. (eb \o h) \o u = eb \o (h \o u)
      BY <1>3, <3>1, ConcatAssociative, SMTT(30)
    <3> QED
      BY <3>2 DEF eb
  <2> QED
    BY <2>2, <2>3
<1> QED
  BY <1>1, <1>2, <1>3, <1>4 DEF u

\* The sequence of a finite set has each element once.
LEMMA SetToSeqIs ==
    ASSUME NEW S, IsFiniteSet(S)
    PROVE  /\ SetToSeq(S) \in Seq(S)
           /\ \A j, k \in DOMAIN SetToSeq(S) : j # k => SetToSeq(S)[j] # SetToSeq(S)[k]
           /\ SetToSeq(S) = <<>> <=> S = {}
<1> DEFINE n == Cardinality(S)
           s == SetToSeq(S)
<1>1. n \in Nat /\ (n = 0 <=> S = {})
  BY FS_CardinalityType, FS_EmptySet
<1>2. \E f \in [1 .. n -> S] : IsInjective(f)
  <2>1. PICK m \in Nat : ExistsBijection(1 .. m, S)
    BY FS_NatBijection
  <2>2. m = n
    BY <2>1, FS_CountingElements
  <2> QED
    BY <2>1, <2>2 DEF ExistsBijection, Bijection, Injection
<1>3. s \in [1 .. n -> S] /\ IsInjective(s)
  <2> HIDE DEF n
  <2> QED
    BY <1>2 DEF SetToSeq, n
<1> HIDE DEF n, s
<1>4. s \in Seq(S) /\ Len(s) = n
  BY <1>1, <1>3
<1>5. \A j, k \in DOMAIN s : j # k => s[j] # s[k]
  BY <1>3 DEF IsInjective
<1>6. s = <<>> <=> S = {}
  BY <1>1, <1>4
<1> QED
  BY <1>4, <1>5, <1>6 DEF s

-----------------------------------------------------------------------------
(* What the checks find.                                                   *)

LEMMA FileIs ==
    ASSUME NEW f \in Files
    PROVE  /\ f.header \in Headers /\ f.rows \in Seq(Rows)
           /\ Len(f.rows) \in Nat /\ DOMAIN f.rows = 1 .. Len(f.rows)
           /\ f.rows = <<>> <=> Len(f.rows) = 0
           /\ f.header.parse = "absent" => f.rows = <<>>
BY CsvValidationAssumption

LEMMA RequiredFinite == IsFiniteSet(Required) /\ "quantity" \in Required /\ TextColumns \subseteq Required
<1>1. IsFiniteSet(TextColumns)
  BY CsvValidationAssumption
<1> QED
  BY <1>1, FS_AddElement, FS_Singleton, FS_Union DEF Required

\* One issue, or none.
LEMMA OneIssue ==
    ASSUME NEW e \in Issues, NEW r, ~e.storable => Unstorable(r)
    PROVE  IssuesOf(<<e>>, e.line, r) /\ <<e>> # <<>>
BY DEF IssuesOf

LEMMA PlainIssue ==
    ASSUME NEW line \in Nat, NEW code \in Codes
    PROVE  /\ Issue(line, code) \in Issues /\ Issue(line, code).line = line
           /\ Issue(line, code).storable
<1>1. NoRawData \in Raws
  BY DEF Raws
<1> QED
  BY <1>1 DEF Issue, IssueWith, Issues

\* A record is refused for itself unless it is clean.
LEMMA RecordChecked ==
    ASSUME NEW r \in Headers \cup Rows, r.parse # "absent", NEW line \in Nat
    PROVE  /\ RecordIssues(r, line) = <<>> <=> Clean(r)
           /\ \E l \in {line, 1} : /\ line # 0 => l = line
                                   /\ IssuesOf(RecordIssues(r, line), l, r)
<1>1. /\ r.over \in BOOLEAN /\ r.surrogate \in BOOLEAN
      /\ r.parse \in {"row", "malformed", "field"}
  BY DEF Headers, Rows
<1> DEFINE preview(code) ==
             IssueWith(line, None, code, Jsonb(r.surrogate, r.nul # "none"), BoundedPreview(r.texts))
<1>2. ASSUME NEW code \in Codes, r.over \/ r.parse = "field"
      PROVE  IssuesOf(<<preview(code)>>, line, r) /\ <<preview(code)>> # <<>>
  <2>1. BoundedPreview(r.texts) \in Raws
    BY DEF Raws
  <2>2. preview(code) \in Issues /\ preview(code).line = line
    BY <1>1, <2>1 DEF IssueWith, Issues, Jsonb
  <2>3. ~preview(code).storable => Unstorable(r)
    BY <1>2 DEF IssueWith, Jsonb, Unstorable
  <2> HIDE DEF preview
  <2> QED
    BY <2>2, <2>3, OneIssue
<1>3. ASSUME NEW l \in Nat, NEW code \in Codes
      PROVE  IssuesOf(<<Issue(l, code)>>, l, r) /\ <<Issue(l, code)>> # <<>>
  BY PlainIssue, OneIssue
<1>9. ASSUME NEW l \in {line, 1}, line # 0 => l = line, IssuesOf(RecordIssues(r, line), l, r)
      PROVE  \E n \in {line, 1} : /\ line # 0 => n = line
                                  /\ IssuesOf(RecordIssues(r, line), n, r)
  BY <1>9
<1> HIDE DEF preview
<1>4. CASE r.over
  <2>1. RecordIssues(r, line) = <<preview("csv_record_too_large")>>
    BY <1>4 DEF RecordIssues, preview
  <2>2. IssuesOf(RecordIssues(r, line), line, r) /\ RecordIssues(r, line) # <<>>
    <3>1. "csv_record_too_large" \in Codes
      BY DEF Codes
    <3>2. /\ IssuesOf(<<preview("csv_record_too_large")>>, line, r)
          /\ <<preview("csv_record_too_large")>> # <<>>
      BY <1>2, <1>4, <3>1
    <3> QED
      BY <2>1, <3>2
  <2> QED
    BY <1>4, <2>2, <1>9 DEF Clean
<1>5. CASE ~r.over /\ r.parse = "field"
  <2>1. RecordIssues(r, line) = <<preview("csv_field_too_large")>>
    BY <1>5 DEF RecordIssues, preview
  <2>2. IssuesOf(RecordIssues(r, line), line, r) /\ RecordIssues(r, line) # <<>>
    <3>1. "csv_field_too_large" \in Codes
      BY DEF Codes
    <3>2. /\ IssuesOf(<<preview("csv_field_too_large")>>, line, r)
          /\ <<preview("csv_field_too_large")>> # <<>>
      BY <1>2, <1>5, <3>1
    <3> QED
      BY <2>1, <3>2
  <2> QED
    BY <1>5, <2>2, <1>9 DEF Clean
<1>6. CASE ~r.over /\ r.parse = "malformed"
  <2> DEFINE l == IF line = NoLine THEN 1 ELSE line
  <2>1. RecordIssues(r, line) = <<Issue(l, "malformed_csv")>>
    BY <1>6 DEF RecordIssues
  <2>2. l \in Nat /\ l \in {line, 1} /\ (line # 0 => l = line)
    BY DEF NoLine
  <2> HIDE DEF l
  <2>3. IssuesOf(RecordIssues(r, line), l, r) /\ RecordIssues(r, line) # <<>>
    <3>1. "malformed_csv" \in Codes
      BY DEF Codes
    <3>2. IssuesOf(<<Issue(l, "malformed_csv")>>, l, r) /\ <<Issue(l, "malformed_csv")>> # <<>>
      BY <1>3, <2>2, <3>1
    <3> QED
      BY <2>1, <3>2
  <2> QED
    BY <1>6, <2>2, <2>3, <1>9 DEF Clean
<1>7. CASE ~r.over /\ r.parse = "row" /\ r.surrogate
  <2>1. RecordIssues(r, line) = <<Issue(line, "invalid_utf8")>>
    BY <1>7 DEF RecordIssues
  <2>2. IssuesOf(RecordIssues(r, line), line, r) /\ RecordIssues(r, line) # <<>>
    <3>1. "invalid_utf8" \in Codes
      BY DEF Codes
    <3>2. IssuesOf(<<Issue(line, "invalid_utf8")>>, line, r) /\ <<Issue(line, "invalid_utf8")>> # <<>>
      BY <1>3, <3>1
    <3> QED
      BY <2>1, <3>2
  <2> QED
    BY <1>7, <2>2, <1>9 DEF Clean
<1>8. CASE ~r.over /\ r.parse = "row" /\ ~r.surrogate
  <2>1. RecordIssues(r, line) = <<>>
    BY <1>8 DEF RecordIssues
  <2>2. IssuesOf(<<>>, line, r)
    BY DEF IssuesOf
  <2> QED
    BY <1>8, <2>1, <2>2, <1>9 DEF Clean
<1> QED
  BY <1>1, <1>4, <1>5, <1>6, <1>7, <1>8

\* Issues made from a finite set.
LEMMA IssuesOfSet ==
    ASSUME NEW S, IsFiniteSet(S), S \subseteq Issues, NEW line, NEW r,
           \A e \in S : e.line = line /\ (~e.storable => Unstorable(r))
    PROVE  IssuesOf(SetToSeq(S), line, r) /\ (SetToSeq(S) = <<>> <=> S = {})
<1>1. /\ SetToSeq(S) \in Seq(S)
      /\ \A j, k \in DOMAIN SetToSeq(S) : j # k => SetToSeq(S)[j] # SetToSeq(S)[k]
      /\ SetToSeq(S) = <<>> <=> S = {}
  BY SetToSeqIs
<1> DEFINE s == SetToSeq(S)
<1> HIDE DEF s
<1>2. s \in Seq(S)
  BY <1>1 DEF s
<1>3. s \in Seq(Issues) /\ \A k \in DOMAIN s : s[k] \in S
  BY <1>2
<1> QED
  BY <1>1, <1>3 DEF IssuesOf, s

LEMMA HeaderChecked ==
    ASSUME NEW h \in Headers, h.parse # "absent"
    PROVE  LET issues == IF RecordIssues(h, NoLine) # <<>> THEN RecordIssues(h, NoLine)
                         ELSE HeaderIssues(h)
           IN  /\ issues = <<>> <=> ConformingHeader(h)
               /\ \E l \in {0, 1} : IssuesOf(issues, l, h)
<1>1. CASE RecordIssues(h, NoLine) # <<>>
  BY <1>1, RecordChecked DEF ConformingHeader, NoLine
<1>2. CASE RecordIssues(h, NoLine) = <<>>
  <2> DEFINE of(c, code) ==
               IssueWith(NoLine, c, code, Jsonb(FALSE, h.nul # "none"), BoundedList(h.texts))
             M == {d \in Required : h.occurs[d] = 0}
             D == {d \in Required : h.occurs[d] > 1}
             SM == {of(c, "missing_required_column") : c \in M}
             SD == {of(c, "duplicate_required_column") : c \in D}
  <2>1. HeaderIssues(h) = SetToSeq(SM \cup SD)
    BY DEF HeaderIssues
  <2>2. BoundedList(h.texts) \in Raws
    BY DEF Raws
  <2>3. ASSUME NEW c \in Required, NEW code \in Codes
        PROVE  /\ of(c, code) \in Issues /\ of(c, code).line = 0
               /\ ~of(c, code).storable => Unstorable(h)
    BY <2>2 DEF IssueWith, Issues, Jsonb, Unstorable, NoLine
  <2>4. IsFiniteSet(SM) /\ IsFiniteSet(SD)
    <3>1. IsFiniteSet(M) /\ IsFiniteSet(D)
      BY RequiredFinite, FS_Subset
    <3>2. [c \in M |-> of(c, "missing_required_column")] \in Surjection(M, SM)
      BY DEF Surjection
    <3>3. [c \in D |-> of(c, "duplicate_required_column")] \in Surjection(D, SD)
      BY DEF Surjection
    <3> HIDE DEF M, D, SM, SD
    <3> QED
      BY <3>1, <3>2, <3>3, FS_Surjection
  <2>5. IsFiniteSet(SM \cup SD)
    BY <2>4, FS_Union
  <2>6. /\ SM \cup SD \subseteq Issues
        /\ \A e \in SM \cup SD : e.line = 0 /\ (~e.storable => Unstorable(h))
    <3> HIDE DEF of
    <3>1. \A e \in SM \cup SD : \E c \in Required, code \in Codes : e = of(c, code)
      <4>1. ASSUME NEW e \in SM
            PROVE  \E c \in Required, code \in Codes : e = of(c, code)
        <5>1. PICK c \in M : e = of(c, "missing_required_column")
          BY Zenon
        <5>2. c \in Required /\ "missing_required_column" \in Codes
          BY <5>1 DEF Codes
        <5> QED
          BY <5>1, <5>2, Zenon
      <4>2. ASSUME NEW e \in SD
            PROVE  \E c \in Required, code \in Codes : e = of(c, code)
        <5>1. PICK c \in D : e = of(c, "duplicate_required_column")
          BY Zenon
        <5>2. c \in Required /\ "duplicate_required_column" \in Codes
          BY <5>1 DEF Codes
        <5> QED
          BY <5>1, <5>2, Zenon
      <4> HIDE DEF SM, SD
      <4> QED
        BY <4>1, <4>2
    <3> HIDE DEF SM, SD
    <3> QED
      BY <2>3, <3>1
  <2>7. SM \cup SD = {} <=> \A c \in Required : h.occurs[c] = 1
    <3>1. h.occurs \in [Required -> 0 .. 2]
      BY DEF Headers
    <3>2. SM \cup SD = {} <=> M \cup D = {}
      <4> HIDE DEF of, M, D
      <4>1. (SM = {} <=> M = {}) /\ (SD = {} <=> D = {})
        BY Zenon
      <4> HIDE DEF SM, SD
      <4> QED
        BY <4>1
    <3> HIDE DEF SM, SD
    <3>3. M \cup D = {} <=> \A c \in Required : h.occurs[c] = 1
      BY <3>1
    <3> QED
      BY <3>2, <3>3
  <2> HIDE DEF SM, SD
  <2>8. IssuesOf(SetToSeq(SM \cup SD), 0, h) /\ (SetToSeq(SM \cup SD) = <<>> <=> SM \cup SD = {})
    BY <2>5, <2>6, IssuesOfSet
  <2> QED
    BY <1>2, <2>1, <2>7, <2>8, RecordChecked DEF ConformingHeader, NoLine
<1> QED
  BY <1>1, <1>2

\* The problems of the columns of a row.
LEMMA FieldProblemsAre ==
    ASSUME NEW r \in Rows
    PROVE  LET P == FieldProblems(r) IN
           /\ P \subseteq Required \X Codes /\ IsFiniteSet(P)
           /\ P = {} <=> r.blank = {} /\ r.integer /\ r.value \in 0 .. BigIntMax
<1> DEFINE P == FieldProblems(r)
           B == {<<c, "required">> : c \in r.blank}
           Q == CASE ~r.integer -> {<<"quantity", "invalid_quantity">>}
                  [] r.integer /\ r.value < 0 -> {<<"quantity", "quantity_negative">>}
                  [] r.integer /\ r.value > BigIntMax -> {<<"quantity", "quantity_too_large">>}
                  [] OTHER -> {}
<1>1. P = B \cup Q
  BY DEF FieldProblems
<1>2. r.blank \subseteq TextColumns /\ r.integer \in BOOLEAN /\ r.value \in Int
  BY DEF Rows
<1>3. BigIntMax \in Nat
  BY CsvValidationAssumption
<1>4. \/ Q = {} /\ r.integer /\ r.value \in 0 .. BigIntMax
      \/ /\ ~(r.integer /\ r.value \in 0 .. BigIntMax)
         /\ \E code \in Codes : Q = {<<"quantity", code>>}
  <2>0. ASSUME NEW code \in Codes, Q = {<<"quantity", code>>},
               ~(r.integer /\ r.value \in 0 .. BigIntMax)
        PROVE  \/ Q = {} /\ r.integer /\ r.value \in 0 .. BigIntMax
               \/ /\ ~(r.integer /\ r.value \in 0 .. BigIntMax)
                  /\ \E n \in Codes : Q = {<<"quantity", n>>}
    <3> HIDE DEF Q
    <3> QED
      BY <2>0, Zenon
  <2>1. CASE ~r.integer
    <3>1. Q = {<<"quantity", "invalid_quantity">>}
      BY <2>1
    <3> HIDE DEF Q
    <3> QED
      BY <2>0, <2>1, <3>1 DEF Codes
  <2>2. CASE r.integer /\ r.value < 0
    <3>1. Q = {<<"quantity", "quantity_negative">>}
      BY <1>2, <1>3, <2>2
    <3>2. ~(r.value \in 0 .. BigIntMax)
      BY <1>2, <1>3, <2>2
    <3> HIDE DEF Q
    <3> QED
      BY <2>0, <2>2, <3>1, <3>2 DEF Codes
  <2>3. CASE r.integer /\ r.value > BigIntMax
    <3>1. Q = {<<"quantity", "quantity_too_large">>}
      BY <1>2, <1>3, <2>3
    <3>2. ~(r.value \in 0 .. BigIntMax)
      BY <1>2, <1>3, <2>3
    <3> HIDE DEF Q
    <3> QED
      BY <2>0, <2>3, <3>1, <3>2 DEF Codes
  <2>4. CASE r.integer /\ ~(r.value < 0) /\ ~(r.value > BigIntMax)
    <3>1. Q = {}
      BY <2>4
    <3>2. r.value \in 0 .. BigIntMax
      BY <1>2, <1>3, <2>4
    <3> HIDE DEF Q
    <3> QED
      BY <2>4, <3>1, <3>2
  <2> QED
    BY <2>1, <2>2, <2>3, <2>4
<1> HIDE DEF Q
<1>5. B \subseteq Required \X Codes /\ (B = {} <=> r.blank = {})
  <2>1. \A c \in r.blank : c \in Required
    BY <1>2, RequiredFinite
  <2>2. \A c \in r.blank : <<c, "required">> \in Required \X Codes
    BY <2>1 DEF Codes
  <2>3. B = {} <=> r.blank = {}
    BY Zenon
  <2>4. \A b \in B : \E c \in r.blank : b = <<c, "required">>
    BY Zenon
  <2> HIDE DEF B
  <2> QED
    BY <2>2, <2>3, <2>4
<1>6. IsFiniteSet(B)
  <2>1. IsFiniteSet(r.blank)
    BY <1>2, FS_Subset, CsvValidationAssumption
  <2>2. [c \in r.blank |-> <<c, "required">>] \in Surjection(r.blank, B)
    BY DEF Surjection
  <2> HIDE DEF B
  <2> QED
    BY <2>1, <2>2, FS_Surjection
<1> HIDE DEF B
<1>7. Q \subseteq Required \X Codes /\ IsFiniteSet(Q)
  <2>1. IsFiniteSet({}) /\ \A code : IsFiniteSet({<<"quantity", code>>})
    BY FS_Singleton, FS_EmptySet
  <2>2. \A code \in Codes : <<"quantity", code>> \in Required \X Codes
    BY RequiredFinite
  <2>3. Q = {} \/ \E code \in Codes : Q = {<<"quantity", code>>}
    BY <1>4
  <2> QED
    BY <2>1, <2>2, <2>3
<1>8. IsFiniteSet(B \cup Q)
  BY <1>6, <1>7, FS_Union
<1> QED
  BY <1>1, <1>4, <1>5, <1>7, <1>8

LEMMA RowChecked ==
    ASSUME NEW r \in Rows, NEW h, NEW line \in Nat \ {0}
    PROVE  LET early  == RecordIssues(r, line)
               issues == IF early # <<>> THEN early ELSE RowIssues(r, h, line)
           IN  /\ issues = <<>> <=> ConformingRow(r, h)
               /\ IssuesOf(issues, line, r)
<1>0. r.parse # "absent"
  BY DEF Rows
<1>1. CASE RecordIssues(r, line) # <<>>
  BY <1>0, <1>1, RecordChecked DEF ConformingRow
<1>2. ASSUME RecordIssues(r, line) = <<>>
      PROVE  /\ RowIssues(r, h, line) = <<>> <=> ConformingRow(r, h)
             /\ IssuesOf(RowIssues(r, h, line), line, r)
  <2>0. Clean(r)
    BY <1>0, <1>2, RecordChecked
  <2>1. CASE Len(r.texts) # Len(h.texts)
    <3> DEFINE e == IssueWith(line, None, "invalid_column_count", Jsonb(FALSE, r.nul # "none"),
                              BoundedList(r.texts))
    <3>1. BoundedList(r.texts) \in Raws
      BY DEF Raws
    <3>2. e \in Issues /\ e.line = line /\ (~e.storable => Unstorable(r))
      <4>1. e = [line |-> line, field |-> None, code |-> "invalid_column_count",
                 storable |-> Jsonb(FALSE, r.nul # "none"), raw |-> BoundedList(r.texts)]
        BY DEF IssueWith
      <4>2. Jsonb(FALSE, r.nul # "none") \in BOOLEAN
            /\ (~Jsonb(FALSE, r.nul # "none") => Unstorable(r))
        BY DEF Jsonb, Unstorable
      <4>3. None \in Required \cup {None} /\ "invalid_column_count" \in Codes /\ line \in Nat
        BY DEF Codes
      <4> HIDE DEF e
      <4>4. e \in Issues
        BY <3>1, <4>1, <4>2, <4>3 DEF Issues
      <4>5. e.line = line /\ e.storable = Jsonb(FALSE, r.nul # "none")
        BY <4>1
      <4> QED
        BY <4>2, <4>4, <4>5
    <3>3. RowIssues(r, h, line) = <<e>>
      BY <2>1 DEF RowIssues
    <3> HIDE DEF e
    <3> QED
      BY <2>1, <3>2, <3>3, OneIssue DEF ConformingRow
  <2>2. CASE Len(r.texts) = Len(h.texts)
    <3> DEFINE of(p) == IssueWith(line, p[1], p[2], Jsonb(FALSE, r.nul = "required"),
                                  BoundedValues(RequiredTexts(r)))
               P == FieldProblems(r)
               S == {of(p) : p \in P}
    <3>1. RowIssues(r, h, line) = SetToSeq(S)
      BY <2>2 DEF RowIssues, FieldIssues
    <3>2. BoundedValues(RequiredTexts(r)) \in Raws
      BY DEF Raws
    <3>3. /\ P \subseteq Required \X Codes /\ IsFiniteSet(P)
          /\ P = {} <=> r.blank = {} /\ r.integer /\ r.value \in 0 .. BigIntMax
      BY FieldProblemsAre
    <3>4. ASSUME NEW p \in P
          PROVE  of(p) \in Issues /\ of(p).line = line /\ (~of(p).storable => Unstorable(r))
      <4>1. p[1] \in Required /\ p[2] \in Codes
        BY <3>3
      <4> QED
        BY <3>2, <4>1 DEF IssueWith, Issues, Jsonb, Unstorable
    <3> HIDE DEF P
    <3>5. IsFiniteSet(S) /\ (S = {} <=> P = {})
      <4>1. [p \in P |-> of(p)] \in Surjection(P, S)
        BY DEF Surjection
      <4>2. S = {} <=> P = {}
        OBVIOUS
      <4> HIDE DEF S
      <4> QED
        BY <3>3, <4>1, <4>2, FS_Surjection
    <3>6. S \subseteq Issues /\ \A e \in S : e.line = line /\ (~e.storable => Unstorable(r))
      <4> HIDE DEF of
      <4> QED
        BY <3>4
    <3> HIDE DEF S
    <3>7. IssuesOf(SetToSeq(S), line, r) /\ (SetToSeq(S) = <<>> <=> S = {})
      BY <3>5, <3>6, IssuesOfSet
    <3> QED
      BY <2>0, <2>2, <3>1, <3>3, <3>5, <3>7 DEF ConformingRow
  <2> QED
    BY <2>1, <2>2
<1> QED
  BY <1>1, <1>2

-----------------------------------------------------------------------------
(* One record more is answered.                                            *)

LEMMA AnsweredBad ==
    ASSUME NEW f \in Files, NEW n \in Nat, n < Len(f.rows),
           NEW rs \in Seq(RowEntries), NEW is \in Seq(Issues), Answered(f, n, rs, is),
           NEW s, s # <<>>, IssuesOf(s, n + 2, f.rows[n + 1]),
           ~ConformingRow(f.rows[n + 1], f.header), n + 1 \in Looked(f)
    PROVE  /\ Answered(f, n + 1, rs, is \o s)
           /\ LinesOf(is \o s) = LinesOf(is) \cup {n + 2}
<1> DEFINE u == is \o s
<1>1. s \in Seq(Issues) /\ \A k \in DOMAIN s : s[k].line = n + 2
  BY DEF IssuesOf
<1>2. LinesOf(s) = {n + 2}
  <2>1. 1 \in DOMAIN s
    BY <1>1
  <2> QED
    BY <1>1, <2>1 DEF LinesOf
<1>3. LinesOf(u) = LinesOf(is) \cup {n + 2}
  BY <1>1, <1>2, LinesConcat
<1>4. /\ LinesOf(rs) \subseteq 2 .. n + 1 /\ LinesOf(is) \subseteq 0 .. n + 1
      /\ \A j, k \in DOMAIN rs : j < k => rs[j].line # rs[k].line
  BY DEF Answered
<1>5. /\ Len(is) \in Nat /\ Len(s) \in Nat
      /\ DOMAIN is = 1 .. Len(is) /\ DOMAIN s = 1 .. Len(s) /\ DOMAIN u = 1 .. Len(is) + Len(s)
      /\ \A i \in DOMAIN is : u[i] = is[i]
      /\ \A i \in DOMAIN u : i \in DOMAIN is \/ (i - Len(is) \in DOMAIN s /\ u[i] = s[i - Len(is)])
  BY <1>1
<1> HIDE DEF u
<1>6. ASSUME NEW i \in 1 .. n + 1
      PROVE  IF ConformingRow(f.rows[i], f.header)
             THEN i + 1 \in LinesOf(rs) /\ i + 1 \notin LinesOf(u)
             ELSE i + 1 \notin LinesOf(rs) /\ i + 1 \in LinesOf(u)
  <2>1. CASE i = n + 1
    <3>1. i + 1 = n + 2 /\ n + 2 \notin LinesOf(rs)
      BY <1>4, <2>1
    <3> QED
      BY <1>3, <2>1, <3>1
  <2>2. CASE i # n + 1
    <3>1. i \in 1 .. n /\ i + 1 # n + 2
      BY <2>2
    <3>2. IF ConformingRow(f.rows[i], f.header)
          THEN i + 1 \in LinesOf(rs) /\ i + 1 \notin LinesOf(is)
          ELSE i + 1 \notin LinesOf(rs) /\ i + 1 \in LinesOf(is)
      BY <3>1 DEF Answered
    <3> QED
      BY <1>3, <3>1, <3>2
  <2> QED
    BY <2>1, <2>2
<1>7. LinesOf(rs) \subseteq 2 .. (n + 1) + 1 /\ LinesOf(u) \subseteq 0 .. (n + 1) + 1
  <2>1. 2 .. n + 1 \subseteq 2 .. (n + 1) + 1 /\ 0 .. n + 1 \subseteq 0 .. (n + 1) + 1
        /\ n + 2 \in 0 .. (n + 1) + 1
    OBVIOUS
  <2> QED
    BY <1>3, <1>4, <2>1
<1>8. ASSUME NEW j \in DOMAIN u, NEW k \in DOMAIN u, j < k
      PROVE  u[j] # u[k] /\ u[j].line <= u[k].line
  <2>1. CASE k \in DOMAIN is
    <3>1. j \in DOMAIN is /\ u[j] = is[j] /\ u[k] = is[k]
      BY <1>5, <1>8, <2>1
    <3> QED
      BY <1>8, <2>1, <3>1 DEF Answered
  <2>2. CASE k \notin DOMAIN is /\ j \in DOMAIN is
    <3>1. u[j] = is[j] /\ u[k] = s[k - Len(is)] /\ k - Len(is) \in DOMAIN s
      BY <1>5, <2>2
    <3>2. u[k].line = n + 2
      BY <1>1, <3>1
    <3>3. u[j].line \in LinesOf(is)
      BY <2>2, <3>1 DEF LinesOf
    <3>4. u[j].line \in 0 .. n + 1
      BY <1>4, <3>3
    <3>5. u[j].line # n + 2 /\ u[j].line <= n + 2
      BY <3>4
    <3> QED
      BY <3>2, <3>5
  <2>3. CASE k \notin DOMAIN is /\ j \notin DOMAIN is
    <3>1. /\ u[j] = s[j - Len(is)] /\ j - Len(is) \in DOMAIN s
          /\ u[k] = s[k - Len(is)] /\ k - Len(is) \in DOMAIN s
      BY <1>5, <2>3
    <3>2. j - Len(is) # k - Len(is)
      BY <1>5, <1>8
    <3>3. u[j].line = n + 2 /\ u[k].line = n + 2
      BY <1>1, <3>1
    <3>4. u[j] # u[k]
      BY <3>1, <3>2 DEF IssuesOf
    <3> QED
      BY <3>3, <3>4
  <2> QED
    BY <2>1, <2>2, <2>3
<1>9. ~(\A i \in 1 .. n + 1 : ConformingRow(f.rows[i], f.header))
  <2>1. n + 1 \in 1 .. n + 1
    OBVIOUS
  <2> QED
    BY <2>1
<1>10. ~Storable(rs) \/ ~Storable(u) => HasUnstorable(f)
  <2>1. ~Storable(rs) \/ ~Storable(is) => HasUnstorable(f)
    BY DEF Answered
  <2>2. ~Storable(s) => Unstorable(f.rows[n + 1])
    BY DEF IssuesOf, Storable
  <2>3. Unstorable(f.rows[n + 1]) => HasUnstorable(f)
    BY DEF Unstorable, HasUnstorable
  <2>4. Storable(u) <=> Storable(is) /\ Storable(s)
    BY <1>1, StorableConcat DEF u
  <2> QED
    BY <2>1, <2>2, <2>3, <2>4
<1>11. Answered(f, n + 1, rs, u)
  BY <1>4, <1>6, <1>7, <1>8, <1>9, <1>10 DEF Answered
<1> QED
  BY <1>3, <1>11 DEF u

LEMMA AnsweredValid ==
    ASSUME NEW f \in Files, NEW n \in Nat, n < Len(f.rows),
           NEW rs \in Seq(RowEntries), NEW is \in Seq(Issues), Answered(f, n, rs, is),
           NEW e \in RowEntries, e.line = n + 2, ~e.storable => Unstorable(f.rows[n + 1]),
           ConformingRow(f.rows[n + 1], f.header), n + 1 \in Looked(f)
    PROVE  Answered(f, n + 1, Append(rs, e), is)
<1> DEFINE u == Append(rs, e)
<1>1. /\ Len(rs) \in Nat /\ Len(u) = Len(rs) + 1
      /\ DOMAIN rs = 1 .. Len(rs) /\ DOMAIN u = 1 .. Len(rs) + 1
      /\ \A i \in DOMAIN rs : u[i] = rs[i]
      /\ u[Len(rs) + 1] = e
      /\ u = rs \o <<e>> /\ <<e>> \in Seq(RowEntries)
  BY SMTT(30)
<1>2. LinesOf(u) = LinesOf(rs) \cup {n + 2}
  <2> DEFINE t == <<e>>
  <2>1. LinesOf(t) = {n + 2}
    BY DEF LinesOf
  <2>2. u = rs \o t /\ t \in Seq(RowEntries)
    BY <1>1
  <2> HIDE DEF t, u
  <2> QED
    BY <2>1, <2>2, LinesConcat
<1>4. /\ LinesOf(rs) \subseteq 2 .. n + 1 /\ LinesOf(is) \subseteq 0 .. n + 1
      /\ \A j, k \in DOMAIN is : j < k => is[j] # is[k] /\ is[j].line <= is[k].line
  BY DEF Answered
<1>10. ~Storable(u) \/ ~Storable(is) => HasUnstorable(f)
  <2>1. ~Storable(rs) \/ ~Storable(is) => HasUnstorable(f)
    BY DEF Answered
  <2>2. ~Storable(<<e>>) => Unstorable(f.rows[n + 1])
    BY DEF Storable
  <2>3. Unstorable(f.rows[n + 1]) => HasUnstorable(f)
    BY DEF Unstorable, HasUnstorable
  <2>4. Storable(u) <=> Storable(rs) /\ Storable(<<e>>)
    <3> DEFINE t == <<e>>
    <3>1. u = rs \o t /\ t \in Seq(RowEntries)
      BY <1>1
    <3> HIDE DEF t, u
    <3>2. Storable(u) <=> Storable(rs) /\ Storable(t)
      BY <3>1, StorableConcat
    <3> QED
      BY <3>2 DEF t
  <2> QED
    BY <2>1, <2>2, <2>3, <2>4
<1> HIDE DEF u
<1>6. ASSUME NEW i \in 1 .. n + 1
      PROVE  IF ConformingRow(f.rows[i], f.header)
             THEN i + 1 \in LinesOf(u) /\ i + 1 \notin LinesOf(is)
             ELSE i + 1 \notin LinesOf(u) /\ i + 1 \in LinesOf(is)
  <2>1. CASE i = n + 1
    <3>1. i + 1 = n + 2 /\ n + 2 \notin LinesOf(is)
      BY <1>4, <2>1
    <3> QED
      BY <1>2, <2>1, <3>1
  <2>2. CASE i # n + 1
    <3>1. i \in 1 .. n /\ i + 1 # n + 2
      BY <2>2
    <3>2. IF ConformingRow(f.rows[i], f.header)
          THEN i + 1 \in LinesOf(rs) /\ i + 1 \notin LinesOf(is)
          ELSE i + 1 \notin LinesOf(rs) /\ i + 1 \in LinesOf(is)
      BY <3>1 DEF Answered
    <3> QED
      BY <1>2, <3>1, <3>2
  <2> QED
    BY <2>1, <2>2
<1>7. LinesOf(u) \subseteq 2 .. (n + 1) + 1 /\ LinesOf(is) \subseteq 0 .. (n + 1) + 1
  <2>1. 2 .. n + 1 \subseteq 2 .. (n + 1) + 1 /\ 0 .. n + 1 \subseteq 0 .. (n + 1) + 1
        /\ n + 2 \in 2 .. (n + 1) + 1
    OBVIOUS
  <2> QED
    BY <1>2, <1>4, <2>1
<1>8. ASSUME NEW j \in DOMAIN u, NEW k \in DOMAIN u, j < k
      PROVE  u[j].line # u[k].line
  <2>0. j \in DOMAIN rs /\ u[j] = rs[j]
    BY <1>1, <1>8
  <2>1. CASE k \in DOMAIN rs
    <3>1. u[k] = rs[k]
      BY <1>1, <2>1
    <3> QED
      BY <1>8, <2>0, <2>1, <3>1 DEF Answered
  <2>2. CASE k \notin DOMAIN rs
    <3>1. u[k] = e
      BY <1>1, <2>2
    <3>2. u[j].line \in LinesOf(rs)
      BY <2>0 DEF LinesOf
    <3>3. n + 2 \notin LinesOf(rs)
      BY <1>4
    <3> QED
      BY <3>1, <3>2, <3>3
  <2> QED
    BY <2>1, <2>2
<1>9. (\A i \in 1 .. n + 1 : ConformingRow(f.rows[i], f.header)) => Len(u) = n + 1
  <2>1. (\A i \in 1 .. n : ConformingRow(f.rows[i], f.header)) => Len(rs) = n
    BY DEF Answered
  <2>2. \A i \in 1 .. n : i \in 1 .. n + 1
    OBVIOUS
  <2> QED
    BY <1>1, <2>1, <2>2
<1>11. Answered(f, n + 1, u, is)
  BY <1>4, <1>6, <1>7, <1>8, <1>9, <1>10 DEF Answered
<1> QED
  BY <1>11 DEF u

\* The issues of the header, or of a file without records.
LEMMA AnsweredNone ==
    ASSUME NEW f \in Files, NEW l \in {0, 1}, NEW s, IssuesOf(s, l, f.header)
    PROVE  Answered(f, 0, <<>>, s)
<1>1. s \in Seq(Issues) /\ \A k \in DOMAIN s : s[k].line = l
  BY DEF IssuesOf
<1>2. LinesOf(s) \subseteq 0 .. 0 + 1 /\ LinesOf(<<>>) \subseteq 2 .. 0 + 1
  BY <1>1 DEF LinesOf
<1>3. \A j, k \in DOMAIN s : j < k => s[j] # s[k] /\ s[j].line <= s[k].line
  <2>1. DOMAIN s \subseteq Int
    BY <1>1
  <2>2. ASSUME NEW j \in DOMAIN s, NEW k \in DOMAIN s, j < k
        PROVE  s[j] # s[k] /\ s[j].line <= s[k].line
    <3>1. j # k
      BY <2>1, <2>2
    <3>2. s[j].line = l /\ s[k].line = l
      BY <1>1
    <3>3. s[j] # s[k]
      BY <3>1 DEF IssuesOf
    <3> QED
      BY <3>2, <3>3
  <2> QED
    BY <2>2
<1>4. ~Storable(s) => HasUnstorable(f)
  <2>1. ~Storable(s) => Unstorable(f.header)
    BY DEF IssuesOf, Storable
  <2> QED
    BY <2>1 DEF Unstorable, HasUnstorable
<1>5. Storable(<<>>) /\ Len(<<>>) = 0 /\ \A j, k \in DOMAIN <<>> : j < k => <<>>[j].line # <<>>[k].line
  BY DEF Storable
<1>6. 1 .. 0 = {}
  OBVIOUS
<1> QED
  BY <1>2, <1>3, <1>4, <1>5, <1>6 DEF Answered

-----------------------------------------------------------------------------
(* How far the file was read.                                              *)

LEMMA StateFacts ==
    ASSUME StateOK
    PROVE  /\ file \in Files /\ Len(file.rows) \in Nat /\ DOMAIN file.rows = 1 .. Len(file.rows)
           /\ file.header \in Headers /\ file.rows \in Seq(Rows)
           /\ rowCount \in Nat /\ rowCount <= Len(file.rows)
           /\ file.rows = <<>> <=> Len(file.rows) = 0
           /\ BatchSize \in Nat \ {0}
           /\ AllRows \in Seq(RowEntries) /\ AllIssues \in Seq(Issues)
           /\ errors \o errorBatch \in Seq(Issues)
           /\ todo = <<>> => AllIssues = errors \o errorBatch
           /\ errorBatch = <<>> /\ todo = <<>> => AllIssues = errors
           /\ stagingBatch = <<>> => AllRows = staging
<1>1. file \in Files /\ rowCount \in 0 .. Len(file.rows)
  BY DEF StateOK
<1>2. /\ file.header \in Headers /\ file.rows \in Seq(Rows)
      /\ Len(file.rows) \in Nat /\ DOMAIN file.rows = 1 .. Len(file.rows)
      /\ file.rows = <<>> <=> Len(file.rows) = 0
  BY <1>1, FileIs
<1>3. /\ staging \in Seq(RowEntries) /\ stagingBatch \in Seq(RowEntries)
      /\ errors \in Seq(Issues) /\ errorBatch \in Seq(Issues) /\ todo \in Seq(Issues)
  BY DEF StateOK
<1>4. AllRows \in Seq(RowEntries) /\ (stagingBatch = <<>> => AllRows = staging)
  BY <1>3 DEF AllRows
<1>5. errors \o errorBatch \in Seq(Issues) /\ (errorBatch = <<>> => errors \o errorBatch = errors)
  BY <1>3
<1>6. AllIssues \in Seq(Issues) /\ (todo = <<>> => AllIssues = errors \o errorBatch)
  <2> DEFINE eb == errors \o errorBatch
  <2>1. eb \in Seq(Issues) /\ AllIssues = eb \o todo
    BY <1>5 DEF AllIssues
  <2> HIDE DEF eb
  <2>2. AllIssues \in Seq(Issues) /\ (todo = <<>> => AllIssues = eb)
    BY <1>3, <2>1
  <2> QED
    BY <2>2 DEF eb
<1> QED
  BY <1>1, <1>2, <1>4, <1>5, <1>6, CsvValidationAssumption, SMTT(30)

LEMMA NextIsLooked ==
    ASSUME StateOK, Progress, pc = "rows", RowsLeft
    PROVE  /\ rowCount + 1 \in Looked(file) /\ NextRow \in Rows /\ rowCount < Len(file.rows)
           /\ ConformingHeader(file.header)
           /\ \A i \in 1 .. rowCount : ~StopsFile(file.rows[i])
           /\ Answered(file, rowCount, AllRows, AllIssues)
           /\ LinesOf(AllIssues) \subseteq 2 .. rowCount + 1
<1>1. /\ ConformingHeader(file.header)
      /\ \A i \in 1 .. rowCount - 1 : ~StopsFile(file.rows[i])
      /\ rowCount > 0 => ~StopsFile(file.rows[rowCount])
      /\ Answered(file, rowCount, AllRows, AllIssues)
      /\ LinesOf(AllIssues) \subseteq 2 .. rowCount + 1
  BY DEF Progress
<1>2. \A i \in 1 .. rowCount : ~StopsFile(file.rows[i])
  <2>1. \A i \in 1 .. rowCount : i \in 1 .. rowCount - 1 \/ (i = rowCount /\ rowCount > 0)
    BY StateFacts
  <2> QED
    BY <1>1, <2>1
<1>3. rowCount + 1 \in DOMAIN file.rows /\ rowCount < Len(file.rows)
      /\ (rowCount + 1) - 1 = rowCount /\ NextRow \in Rows
  <2>1. rowCount < Len(file.rows)
    BY DEF RowsLeft
  <2>2. rowCount + 1 \in DOMAIN file.rows
    BY <2>1, StateFacts
  <2>3. (rowCount + 1) - 1 = rowCount
    BY StateFacts
  <2>4. NextRow \in Rows
    BY <2>2, StateFacts DEF NextRow
  <2> QED
    BY <2>1, <2>2, <2>3, <2>4
<1>4. rowCount + 1 \in Looked(file)
  BY <1>1, <1>2, <1>3 DEF Looked, StopsFile
<1> QED
  BY <1>1, <1>2, <1>3, <1>4

LEMMA LookedCount ==
    ASSUME StateOK, Progress, pc = "flush"
    PROVE  rowCount = Cardinality(Looked(file))
<1>1. CASE rowCount = 0
  <2>1. ~ConformingHeader(file.header) \/ file.rows = <<>>
    BY <1>1 DEF Progress
  <2>2. Looked(file) = {}
    BY <2>1, StateFacts DEF Looked
  <2> QED
    BY <1>1, <2>2, FS_EmptySet
<1>2. CASE rowCount > 0
  <2>1. /\ ConformingHeader(file.header)
        /\ \A i \in 1 .. rowCount - 1 : ~StopsFile(file.rows[i])
        /\ StopsFile(file.rows[rowCount]) \/ (reachedEof /\ rowCount = Len(file.rows))
    BY <1>2 DEF Progress
  <2>2. Looked(file) = {i \in DOMAIN file.rows : \A j \in 1 .. i - 1 : ~StopsFile(file.rows[j])}
    BY <2>1 DEF Looked, StopsFile
  <2>3. ASSUME NEW i \in 1 .. rowCount
        PROVE  i \in Looked(file)
    <3>1. i \in DOMAIN file.rows
      BY StateFacts
    <3>2. \A j \in 1 .. i - 1 : j \in 1 .. rowCount - 1
      BY StateFacts
    <3> QED
      BY <2>1, <2>2, <3>1, <3>2
  <2>4. ASSUME NEW i \in Looked(file)
        PROVE  i \in 1 .. rowCount
    <3>1. i \in 1 .. Len(file.rows)
      BY <2>2, StateFacts
    <3>2. SUFFICES ASSUME i > rowCount PROVE FALSE
      BY <3>1, StateFacts
    <3>3. rowCount \in 1 .. i - 1 /\ rowCount # Len(file.rows)
      BY <1>2, <3>1, <3>2, StateFacts
    <3>4. ~StopsFile(file.rows[rowCount])
      BY <2>2, <3>3
    <3> QED
      BY <2>1, <3>3, <3>4
  <2>5. Looked(file) = 1 .. rowCount
    BY <2>3, <2>4
  <2>6. Cardinality(1 .. rowCount) = rowCount
    BY FS_Interval, StateFacts
  <2> QED
    BY <2>5, <2>6
<1> QED
  BY <1>1, <1>2, StateFacts

\* What only moves from a batch to a table is still the same answer.
LEMMA SameAnswers ==
    ASSUME Progress, pc' = pc, UNCHANGED <<file, rowCount, reachedEof>>,
           AllRows' = AllRows, AllIssues' = AllIssues
    PROVE  Progress'
BY DEF Progress

\* The state that follows a read of the file.
LEMMA RowsOrFlush ==
    ASSUME StateOK', pc' \in {"rows", "flush", "processing error"}, Progress',
           pc' = "processing error" => HasUnstorable(file') \/ HasEndlessQuantity(file')
    PROVE  Inv'
<1>1. Started'
  BY DEF Started
<1>2. VerdictIsRight'
  BY DEF VerdictIsRight
<1> QED
  BY <1>1, <1>2 DEF Inv

\* A batch the database refuses comes from the file.
LEMMA RefusedBatch ==
    ASSUME StateOK, Progress, pc \in {"rows", "flush"},
           ~Storable(AllRows) \/ ~Storable(AllIssues)
    PROVE  HasUnstorable(file)
BY DEF Progress, Answered

-----------------------------------------------------------------------------
(* The steps.                                                              *)

LEMMA InitInv == Init => Inv
<1> SUFFICES ASSUME Init PROVE Inv
  OBVIOUS
<1>1. file \in Files /\ Len(file.rows) \in Nat
  BY FileIs DEF Init
<1>2. StateOK
  <2>1. /\ staging = <<>> /\ stagingBatch = <<>> /\ errors = <<>> /\ errorBatch = <<>>
        /\ todo = <<>> /\ pc = "header" /\ reachedEof = FALSE
    BY DEF Init
  <2>2. rowCount \in 0 .. Len(file.rows)
    BY <1>1 DEF Init
  <2>3. Storable(<<>>) /\ Len(<<>>) < BatchSize
    BY CsvValidationAssumption DEF Storable
  <2>4. \A S : <<>> \in Seq(S)
    OBVIOUS
  <2> QED
    BY <1>1, <2>1, <2>2, <2>3, <2>4 DEF StateOK
<1>3. Started /\ Progress /\ VerdictIsRight
  BY DEF Init, Started, Progress, VerdictIsRight, Ended
<1> QED
  BY <1>2, <1>3 DEF Inv

LEMMA ReadHeaderInv == ASSUME Inv, ReadHeader PROVE Inv'
<1> DEFINE h == file.header
           issues == IF h.parse = "absent" THEN <<Issue(NoLine, "missing_header")>>
                     ELSE IF RecordIssues(h, NoLine) # <<>> THEN RecordIssues(h, NoLine)
                     ELSE HeaderIssues(h)
<1>0. StateOK /\ Started
  BY DEF Inv
<1>1. /\ pc = "header" /\ todo' = issues /\ reachedEof' = (h.parse = "absent")
      /\ pc' = IF issues = <<>> THEN "rows" ELSE "flush"
      /\ UNCHANGED <<file, rowCount, stagingBatch, errorBatch, staging, errors>>
  BY DEF ReadHeader, stored
<1>2. file \in Files /\ h \in Headers /\ (h.parse = "absent" => file.rows = <<>>)
  BY <1>0, FileIs DEF StateOK
<1>3. /\ issues = <<>> <=> ConformingHeader(h)
      /\ \E l \in {0, 1} : IssuesOf(issues, l, h)
  <2>1. CASE h.parse = "absent"
    <3>1. "missing_header" \in Codes
      BY DEF Codes
    <3>2. IssuesOf(<<Issue(0, "missing_header")>>, 0, h)
      BY <3>1, PlainIssue, OneIssue
    <3>3. ~ConformingHeader(h)
      BY <2>1 DEF ConformingHeader, Clean
    <3> QED
      BY <2>1, <3>2, <3>3 DEF NoLine
  <2>2. CASE h.parse # "absent"
    BY <1>2, <2>2, HeaderChecked
  <2> QED
    BY <2>1, <2>2
<1> HIDE DEF issues
<1>4. PICK l \in {0, 1} : IssuesOf(issues, l, h)
  BY <1>3
<1>5. issues \in Seq(Issues) /\ Answered(file, 0, <<>>, issues)
  BY <1>2, <1>4, AnsweredNone DEF IssuesOf
<1>6. /\ staging = <<>> /\ stagingBatch = <<>> /\ errors = <<>> /\ errorBatch = <<>>
      /\ rowCount = 0 /\ ~reachedEof
  BY <1>0, <1>1 DEF Started
<1>7. StateOK'
  BY <1>0, <1>1, <1>5 DEF StateOK
<1>8. AllRows' = <<>> /\ AllIssues' = issues
  BY <1>1, <1>5, <1>6 DEF AllRows, AllIssues
<1>9. Progress'
  <2>1. Answered(file', rowCount', AllRows', AllIssues')
    BY <1>1, <1>5, <1>6, <1>8
  <2>2. CASE issues = <<>>
    <3>1. pc' = "rows" /\ rowCount' = 0 /\ ConformingHeader(file'.header)
      BY <1>1, <1>3, <1>6, <2>2
    <3>2. h.parse # "absent"
      BY <1>3, <2>2 DEF ConformingHeader, Clean
    <3>3. LinesOf(<<>>) = {} /\ 1 .. 0 - 1 = {}
      BY DEF LinesOf
    <3>4. ~reachedEof' /\ AllIssues' = <<>>
      BY <1>1, <1>8, <2>2, <3>2
    <3> QED
      BY <2>1, <3>1, <3>3, <3>4 DEF Progress
  <2>3. CASE issues # <<>>
    <3>1. pc' = "flush" /\ rowCount' = 0 /\ AllIssues' # <<>> /\ ~ConformingHeader(file'.header)
      BY <1>1, <1>3, <1>6, <1>8, <2>3
    <3> QED
      BY <2>1, <3>1 DEF Progress
  <2> QED
    BY <2>2, <2>3
<1> QED
  BY <1>1, <1>7, <1>9, RowsOrFlush

LEMMA ReadBadRecordInv == ASSUME Inv, ReadBadRecord PROVE Inv'
<1> DEFINE line == rowCount + 2
           early == RecordIssues(NextRow, line)
           issues == IF early # <<>> THEN early ELSE RowIssues(NextRow, file.header, line)
<1>0. StateOK /\ Progress
  BY DEF Inv
<1>1. /\ pc = "rows" /\ todo = <<>> /\ RowsLeft /\ issues # <<>>
      /\ rowCount' = rowCount + 1 /\ todo' = issues
      /\ pc' = IF StopsFile(NextRow) THEN "flush" ELSE "rows"
      /\ UNCHANGED <<file, reachedEof, stagingBatch, errorBatch, staging, errors>>
  BY DEF ReadBadRecord, stored
<1>2. /\ rowCount + 1 \in Looked(file) /\ NextRow \in Rows /\ rowCount < Len(file.rows)
      /\ ConformingHeader(file.header)
      /\ \A i \in 1 .. rowCount : ~StopsFile(file.rows[i])
      /\ Answered(file, rowCount, AllRows, AllIssues)
      /\ LinesOf(AllIssues) \subseteq 2 .. rowCount + 1
  BY <1>0, <1>1, NextIsLooked
<1>3. /\ file \in Files /\ rowCount \in Nat /\ Len(file.rows) \in Nat
      /\ AllRows \in Seq(RowEntries) /\ AllIssues \in Seq(Issues)
      /\ AllIssues = errors \o errorBatch
  BY <1>0, <1>1, StateFacts
<1>4. ~ConformingRow(NextRow, file.header) /\ IssuesOf(issues, line, NextRow)
  <2>1. line \in Nat \ {0}
    BY <1>3
  <2> HIDE DEF line
  <2> QED
    BY <1>1, <1>2, <2>1, RowChecked
<1> HIDE DEF issues
<1>5. issues \in Seq(Issues)
  BY <1>4 DEF IssuesOf
<1>6. StateOK'
  <2>1. rowCount' \in 0 .. Len(file'.rows)
    BY <1>1, <1>2, <1>3
  <2> QED
    BY <1>0, <1>1, <1>5, <2>1 DEF StateOK
<1>7. AllRows' = AllRows /\ AllIssues' = AllIssues \o issues
  BY <1>1, <1>3 DEF AllRows, AllIssues
<1>8. /\ Answered(file, rowCount + 1, AllRows, AllIssues \o issues)
      /\ LinesOf(AllIssues \o issues) = LinesOf(AllIssues) \cup {rowCount + 2}
  <2>1. /\ rowCount < Len(file.rows) /\ Answered(file, rowCount, AllRows, AllIssues)
        /\ issues # <<>> /\ IssuesOf(issues, rowCount + 2, file.rows[rowCount + 1])
        /\ ~ConformingRow(file.rows[rowCount + 1], file.header) /\ rowCount + 1 \in Looked(file)
    BY <1>1, <1>2, <1>3, <1>4 DEF NextRow
  <2>2. /\ file \in Files /\ rowCount \in Nat
        /\ AllRows \in Seq(RowEntries) /\ AllIssues \in Seq(Issues)
    BY <1>3
  <2> QED
    BY ONLY <2>1, <2>2, AnsweredBad, ZenonT(40)
<1>9. LinesOf(AllIssues') \subseteq 2 .. rowCount' + 1
  <2>1. LinesOf(AllIssues') = LinesOf(AllIssues) \cup {rowCount + 2}
    BY <1>7, <1>8
  <2>2. 2 .. rowCount + 1 \subseteq 2 .. rowCount' + 1 /\ rowCount + 2 \in 2 .. rowCount' + 1
    BY <1>1, <1>3
  <2> QED
    BY <1>2, <2>1, <2>2
<1>10. Progress'
  <2>1. Answered(file', rowCount', AllRows', AllIssues')
    BY <1>1, <1>7, <1>8
  <2>2. ConformingHeader(file'.header) /\ \A i \in 1 .. rowCount' - 1 : ~StopsFile(file'.rows[i])
    <3>1. rowCount' - 1 = rowCount
      BY <1>1, <1>3
    <3> QED
      BY <1>1, <1>2, <3>1
  <2>3. file'.rows[rowCount'] = NextRow /\ rowCount' # 0 /\ rowCount' > 0
    BY <1>1, <1>3 DEF NextRow
  <2>4. pc' = "rows" => ~reachedEof' /\ ~StopsFile(NextRow)
    BY <1>0, <1>1 DEF Progress
  <2>5. pc' = "flush" => StopsFile(NextRow)
    BY <1>1
  <2> QED
    BY <1>9, <2>1, <2>2, <2>3, <2>4, <2>5 DEF Progress
<1> QED
  BY <1>1, <1>6, <1>10, RowsOrFlush

LEMMA ReadValidRecordInv == ASSUME Inv, ReadValidRecord PROVE Inv'
<1> DEFINE line == rowCount + 2
           e == [line |-> line, storable |-> NextRow.nul # "required"]
           batch == Append(stagingBatch, e)
<1>0. StateOK /\ Progress
  BY DEF Inv
<1>1. /\ pc = "rows" /\ todo = <<>> /\ RowsLeft
      /\ RecordIssues(NextRow, line) = <<>> /\ RowIssues(NextRow, file.header, line) = <<>>
      /\ rowCount' = rowCount + 1
      /\ UNCHANGED <<file, reachedEof, todo, errorBatch, errors>>
  BY DEF ReadValidRecord
<1>2. \/ /\ Len(batch) < BatchSize /\ stagingBatch' = batch /\ UNCHANGED <<pc, staging>>
      \/ /\ stagingBatch' = <<>>
         /\ Storable(batch) /\ staging' = staging \o batch /\ pc' = pc
      \/ /\ stagingBatch' = <<>>
         /\ ~Storable(batch) /\ staging' = staging /\ pc' = "processing error"
  BY DEF ReadValidRecord
<1>3. /\ rowCount + 1 \in Looked(file) /\ NextRow \in Rows /\ rowCount < Len(file.rows)
      /\ ConformingHeader(file.header)
      /\ \A i \in 1 .. rowCount : ~StopsFile(file.rows[i])
      /\ Answered(file, rowCount, AllRows, AllIssues)
      /\ LinesOf(AllIssues) \subseteq 2 .. rowCount + 1
  BY <1>0, <1>1, NextIsLooked
<1>4. /\ file \in Files /\ rowCount \in Nat /\ Len(file.rows) \in Nat
      /\ AllRows \in Seq(RowEntries) /\ AllIssues \in Seq(Issues)
      /\ BatchSize \in Nat \ {0}
  BY <1>0, StateFacts
<1>5. ConformingRow(NextRow, file.header)
  <2>1. line \in Nat \ {0}
    BY <1>4
  <2> HIDE DEF line
  <2> QED
    BY <1>1, <1>3, <2>1, RowChecked
<1>6. e \in RowEntries /\ e.line = rowCount + 2 /\ (~e.storable => Unstorable(NextRow))
  <2>1. ~e.storable => NextRow.nul = "required"
    OBVIOUS
  <2> QED
    BY <1>4, <2>1 DEF RowEntries, Unstorable
<1> HIDE DEF e
<1>7. staging \in Seq(RowEntries) /\ stagingBatch \in Seq(RowEntries) /\ batch \in Seq(RowEntries)
      /\ Storable(staging)
  <2>1. staging \in Seq(RowEntries) /\ stagingBatch \in Seq(RowEntries) /\ Storable(staging)
    BY <1>0 DEF StateOK
  <2>2. batch \in Seq(RowEntries)
    BY <1>6, <2>1, AppendIs
  <2> QED
    BY <2>1, <2>2
<1>8. staging \o batch = Append(AllRows, e) /\ staging \o batch \in Seq(RowEntries)
  BY <1>6, <1>7 DEF AllRows
<1> HIDE DEF batch
<1>9. Answered(file, rowCount + 1, Append(AllRows, e), AllIssues)
  BY <1>3, <1>4, <1>5, <1>6, AnsweredValid DEF NextRow
<1>10. Storable(staging \o batch) <=> Storable(staging) /\ Storable(batch)
  BY <1>7, StorableConcat
<1>11. StateOK'
  <2>1. rowCount' \in 0 .. Len(file'.rows)
    BY <1>1, <1>3, <1>4
  <2>2. stagingBatch' \in Seq(RowEntries) /\ Len(stagingBatch') < BatchSize
    <3>1. <<>> \in Seq(RowEntries) /\ Len(<<>>) < BatchSize
      BY <1>4
    <3> QED
      BY <1>2, <1>7, <3>1
  <2>3. staging' \in Seq(RowEntries) /\ Storable(staging')
    BY <1>2, <1>7, <1>8, <1>10
  <2>4. pc' \in {"rows", "processing error"}
    BY <1>1, <1>2
  <2> QED
    BY <1>0, <1>1, <2>1, <2>2, <2>3, <2>4 DEF StateOK
<1>12. AllIssues' = AllIssues
  BY <1>1 DEF AllIssues
<1>13. pc' = "rows" => AllRows' = Append(AllRows, e)
  <2>1. CASE stagingBatch' = batch /\ staging' = staging
    BY <1>8, <2>1 DEF AllRows
  <2>2. CASE stagingBatch' = <<>> /\ staging' = staging \o batch
    BY <1>8, <2>2 DEF AllRows
  <2> QED
    BY <1>2, <2>1, <2>2
<1>14. Progress'
  <2>1. pc' \in {"rows", "processing error"}
    BY <1>1, <1>2
  <2>2. SUFFICES ASSUME pc' = "rows" PROVE Progress'
    BY <2>1 DEF Progress
  <2>3. Answered(file', rowCount', AllRows', AllIssues')
    BY <1>1, <1>9, <1>12, <1>13, <2>2
  <2>4. ConformingHeader(file'.header) /\ \A i \in 1 .. rowCount' - 1 : ~StopsFile(file'.rows[i])
    <3>1. rowCount' - 1 = rowCount
      BY <1>1, <1>4
    <3> QED
      BY <1>1, <1>3, <3>1
  <2>5. ~StopsFile(file'.rows[rowCount'])
    BY <1>1, <1>5 DEF NextRow, ConformingRow, Clean, StopsFile
  <2>6. LinesOf(AllIssues') \subseteq 2 .. rowCount' + 1
    <3>1. 2 .. rowCount + 1 \subseteq 2 .. rowCount' + 1
      BY <1>1, <1>4
    <3> QED
      BY <1>3, <1>12, <3>1
  <2>7. ~reachedEof'
    BY <1>0, <1>1 DEF Progress
  <2> QED
    BY <2>2, <2>3, <2>4, <2>5, <2>6, <2>7 DEF Progress
<1>15. pc' = "processing error" => HasUnstorable(file')
  <2>1. SUFFICES ASSUME pc' = "processing error" PROVE HasUnstorable(file)
    BY <1>1
  <2>2. ~Storable(Append(AllRows, e))
    BY <1>1, <1>2, <1>8, <1>10, <2>1
  <2> QED
    BY <1>9, <2>2 DEF Answered
<1> QED
  BY <1>1, <1>2, <1>11, <1>14, <1>15, RowsOrFlush

LEMMA ReadEndlessQuantityInv == ASSUME Inv, ReadEndlessQuantity PROVE Inv'
<1>0. StateOK /\ Progress
  BY DEF Inv
<1>1. /\ pc = "rows" /\ RowsLeft /\ IntRaises(NextRow, file.header)
      /\ rowCount' = rowCount + 1 /\ pc' = "processing error"
      /\ UNCHANGED <<file, reachedEof, todo, stagingBatch, errorBatch, staging, errors>>
  BY DEF ReadEndlessQuantity, batches, stored
<1>2. rowCount + 1 \in Looked(file) /\ rowCount < Len(file.rows)
  BY <1>0, <1>1, NextIsLooked
<1>3. HasEndlessQuantity(file')
  BY <1>1, <1>2 DEF HasEndlessQuantity, NextRow
<1>4. StateOK'
  <2>1. rowCount' \in 0 .. Len(file'.rows)
    <3>1. rowCount \in Nat /\ Len(file.rows) \in Nat
      BY <1>0, StateFacts
    <3>2. rowCount < Len(file.rows) /\ rowCount' = rowCount + 1 /\ file' = file
      BY <1>1, <1>2
    <3> QED
      BY <3>1, <3>2
  <2> QED
    BY <1>0, <1>1, <2>1 DEF StateOK
<1>5. Progress'
  BY <1>1 DEF Progress
<1> QED
  BY <1>1, <1>3, <1>4, <1>5, RowsOrFlush

LEMMA EndOfRecordsInv == ASSUME Inv, EndOfRecords PROVE Inv'
<1>0. StateOK /\ Progress
  BY DEF Inv
<1>1. /\ pc = "rows" /\ todo = <<>> /\ ~RowsLeft
      /\ todo' = IF rowCount = 0 THEN <<Issue(NoLine, "no_data_rows")>> ELSE <<>>
      /\ reachedEof' = TRUE /\ pc' = "flush"
      /\ UNCHANGED <<file, rowCount, stagingBatch, errorBatch, staging, errors>>
  BY DEF EndOfRecords, stored
<1>2. /\ file \in Files /\ rowCount \in Nat /\ Len(file.rows) \in Nat /\ rowCount <= Len(file.rows)
      /\ AllRows \in Seq(RowEntries) /\ AllIssues \in Seq(Issues)
      /\ AllIssues = errors \o errorBatch /\ file.header \in Headers
      /\ file.rows = <<>> <=> Len(file.rows) = 0
  BY <1>0, <1>1, StateFacts
<1>3. rowCount = Len(file.rows)
  BY <1>1, <1>2 DEF RowsLeft
<1>4. IssuesOf(<<Issue(0, "no_data_rows")>>, 0, file.header)
  <2>1. "no_data_rows" \in Codes
    BY DEF Codes
  <2> QED
    BY <2>1, PlainIssue, OneIssue
<1>5. StateOK'
  <2>1. todo' \in Seq(Issues)
    BY <1>1, <1>4 DEF IssuesOf, NoLine
  <2> QED
    BY <1>0, <1>1, <2>1 DEF StateOK
<1>6. AllRows' = AllRows
  BY <1>1 DEF AllRows
<1>7. Progress'
  <2>1. CASE rowCount = 0
    <3>1. Answered(file, 0, AllRows, AllIssues) /\ LinesOf(AllIssues) \subseteq 2 .. 0 + 1
      BY <1>0, <1>1, <2>1 DEF Progress
    <3>2. LinesOf(AllRows) \subseteq 2 .. 0 + 1
      BY <3>1 DEF Answered
    <3>3. AllRows = <<>> /\ AllIssues = <<>>
      <4>1. 2 .. 0 + 1 = {}
        OBVIOUS
      <4>2. DOMAIN AllRows = {} /\ DOMAIN AllIssues = {}
        BY <3>1, <3>2, <4>1 DEF LinesOf
      <4> QED
        BY <1>2, <4>2
    <3>4. AllIssues' = <<Issue(0, "no_data_rows")>>
      <4>1. todo' = <<Issue(0, "no_data_rows")>> /\ todo' \in Seq(Issues)
        BY <1>1, <1>4, <2>1 DEF IssuesOf, NoLine
      <4>2. errors \o errorBatch = <<>>
        BY <1>2, <3>3
      <4>3. AllIssues' = <<>> \o todo'
        BY <1>1, <4>2 DEF AllIssues
      <4> QED
        BY <4>1, <4>3
    <3>5. Answered(file, 0, <<>>, AllIssues')
      BY <1>2, <1>4, <3>4, AnsweredNone
    <3>6. Answered(file', rowCount', AllRows', AllIssues')
      BY <1>1, <1>6, <2>1, <3>3, <3>5
    <3>7. rowCount' = 0 /\ pc' = "flush" /\ file'.rows = <<>> /\ AllIssues' # <<>>
      BY <1>1, <1>2, <1>3, <2>1, <3>4
    <3> QED
      BY <3>6, <3>7 DEF Progress
  <2>2. CASE rowCount # 0
    <3>1. AllIssues' = AllIssues
      BY <1>1, <2>2 DEF AllIssues
    <3>2. rowCount' > 0 /\ rowCount' # 0 /\ reachedEof' /\ rowCount' = Len(file'.rows) /\ pc' = "flush"
      BY <1>1, <1>2, <1>3, <2>2
    <3>3. /\ Answered(file, rowCount, AllRows, AllIssues)
          /\ ConformingHeader(file.header)
          /\ \A i \in 1 .. rowCount - 1 : ~StopsFile(file.rows[i])
          /\ LinesOf(AllIssues) \subseteq 2 .. rowCount + 1
      BY <1>0, <1>1 DEF Progress
    <3>4. /\ Answered(file', rowCount', AllRows', AllIssues')
          /\ ConformingHeader(file'.header)
          /\ \A i \in 1 .. rowCount' - 1 : ~StopsFile(file'.rows[i])
          /\ LinesOf(AllIssues') \subseteq 2 .. rowCount' + 1
      BY <1>1, <1>6, <3>1, <3>3
    <3> QED
      BY <3>2, <3>4 DEF Progress
  <2> QED
    BY <2>1, <2>2
<1> QED
  BY <1>1, <1>5, <1>7, RowsOrFlush

LEMMA AddIssueInv == ASSUME Inv, AddIssue PROVE Inv'
<1> DEFINE batch == Append(errorBatch, Head(todo))
           full  == Len(batch) >= BatchSize
<1>0. StateOK /\ Progress
  BY DEF Inv
<1>1. /\ pc \in {"rows", "flush"} /\ todo # <<>>
      /\ UNCHANGED <<file, rowCount, reachedEof, stagingBatch, staging>>
  BY DEF AddIssue
<1>2. \/ /\ ~full /\ todo' = Tail(todo) /\ errorBatch' = batch /\ errors' = errors /\ pc' = pc
      \/ /\ full /\ Storable(batch)
         /\ todo' = Tail(todo) /\ errorBatch' = <<>> /\ errors' = errors \o batch /\ pc' = pc
      \/ /\ full /\ ~Storable(batch)
         /\ todo' = <<>> /\ errorBatch' = <<>> /\ errors' = errors /\ pc' = "processing error"
  BY DEF AddIssue
<1>3. /\ errors \in Seq(Issues) /\ errorBatch \in Seq(Issues) /\ todo \in Seq(Issues)
      /\ Storable(errors) /\ BatchSize \in Nat \ {0}
  BY <1>0, StateFacts DEF StateOK
<1>4. /\ (errors \o batch) \o Tail(todo) = AllIssues
      /\ Tail(todo) \in Seq(Issues) /\ batch \in Seq(Issues)
  BY <1>1, <1>3, IssueMoves, SMTT(30) DEF AllIssues
<1>5. Len(batch) \in Nat
  BY <1>4
<1> HIDE DEF batch
<1>6. errors \o batch \in Seq(Issues)
  BY <1>3, <1>4
<1>7. Storable(errors \o batch) <=> Storable(errors) /\ Storable(batch)
  BY <1>3, <1>4, StorableConcat
<1>8. StateOK'
  <2>1. todo' \in Seq(Issues) /\ errorBatch' \in Seq(Issues) /\ errors' \in Seq(Issues)
    <3>1. <<>> \in Seq(Issues)
      OBVIOUS
    <3> HIDE DEF full
    <3> QED
      BY <1>2, <1>3, <1>4, <1>6, <3>1
  <2>2. Len(errorBatch') < BatchSize
    <3>1. Len(<<>>) < BatchSize
      BY <1>3
    <3>2. ~full => Len(batch) < BatchSize
      BY <1>3, <1>5
    <3> HIDE DEF full
    <3> QED
      BY <1>2, <3>1, <3>2
  <2>3. Storable(errors')
    BY <1>2, <1>3, <1>7
  <2>4. pc' \in {"rows", "flush", "processing error"}
    BY <1>1, <1>2
  <2> QED
    BY <1>0, <1>1, <2>1, <2>2, <2>3, <2>4 DEF StateOK
<1>9. AllRows' = AllRows
  BY <1>1 DEF AllRows
<1>10. CASE pc' = pc
  <2>1. todo' = Tail(todo) /\ errors' \o errorBatch' = errors \o batch
    <3>1. (errors \o batch) \o <<>> = errors \o batch
      BY <1>6
    <3> HIDE DEF full
    <3>2. pc # "processing error"
      BY <1>1
    <3> QED
      BY <1>2, <1>10, <3>1, <3>2
  <2>2. AllIssues' = AllIssues
    BY <1>4, <2>1 DEF AllIssues
  <2>3. Progress'
    BY <1>0, <1>1, <1>9, <1>10, <2>2, SameAnswers
  <2> QED
    BY <1>1, <1>8, <1>10, <2>3, RowsOrFlush
<1>11. CASE pc' # pc
  <2>1. pc' = "processing error" /\ ~Storable(batch)
    BY <1>2, <1>11
  <2>2. ~Storable(AllIssues)
    BY <1>4, <1>6, <1>7, <2>1, StorableConcat
  <2>3. HasUnstorable(file')
    BY <1>0, <1>1, <2>2, RefusedBatch
  <2>4. Progress'
    BY <2>1 DEF Progress
  <2> QED
    BY <1>8, <2>1, <2>3, <2>4, RowsOrFlush
<1> QED
  BY <1>10, <1>11

LEMMA FlushStagingInv == ASSUME Inv, FlushStaging PROVE Inv'
<1>0. StateOK /\ Progress
  BY DEF Inv
<1>1. /\ pc = "flush" /\ todo = <<>> /\ stagingBatch' = <<>>
      /\ staging' = IF Storable(stagingBatch) THEN staging \o stagingBatch ELSE staging
      /\ pc' = IF Storable(stagingBatch) THEN pc ELSE "processing error"
      /\ UNCHANGED <<file, rowCount, reachedEof, todo, errorBatch, errors>>
  BY DEF FlushStaging
<1>2. /\ staging \in Seq(RowEntries) /\ stagingBatch \in Seq(RowEntries)
      /\ Storable(staging) /\ BatchSize \in Nat \ {0}
  BY <1>0, StateFacts DEF StateOK
<1>3. AllRows \in Seq(RowEntries) /\ AllRows = staging \o stagingBatch
  BY <1>2 DEF AllRows
<1>4. Storable(AllRows) <=> Storable(staging) /\ Storable(stagingBatch)
  BY <1>2, <1>3, StorableConcat
<1>5. StateOK'
  <2>1. <<>> \in Seq(RowEntries) /\ Len(<<>>) < BatchSize
    BY <1>2
  <2>2. staging' \in Seq(RowEntries) /\ Storable(staging')
    BY <1>1, <1>2, <1>3, <1>4
  <2>3. pc' \in {"flush", "processing error"}
    BY <1>1
  <2> QED
    BY <1>0, <1>1, <2>1, <2>2, <2>3 DEF StateOK
<1>6. AllIssues' = AllIssues
  BY <1>1 DEF AllIssues
<1>7. CASE Storable(stagingBatch)
  <2>1. AllRows' = AllRows
    <3>1. AllRows \o <<>> = AllRows
      BY <1>3
    <3>2. staging' = AllRows /\ stagingBatch' = <<>>
      BY <1>1, <1>3, <1>7
    <3>3. AllRows' = staging' \o stagingBatch'
      BY DEF AllRows
    <3> QED
      BY <3>1, <3>2, <3>3
  <2>2. Progress'
    BY <1>0, <1>1, <1>6, <1>7, <2>1, SameAnswers
  <2> QED
    BY <1>1, <1>5, <1>7, <2>2, RowsOrFlush
<1>8. CASE ~Storable(stagingBatch)
  <2>1. HasUnstorable(file')
    BY <1>0, <1>1, <1>4, <1>8, RefusedBatch
  <2>2. Progress'
    BY <1>1, <1>8 DEF Progress
  <2> QED
    BY <1>1, <1>5, <1>8, <2>1, <2>2, RowsOrFlush
<1> QED
  BY <1>7, <1>8

LEMMA FlushErrorsInv == ASSUME Inv, FlushErrors PROVE Inv'
<1>0. StateOK /\ Progress
  BY DEF Inv
<1>1. /\ pc = "flush" /\ todo = <<>> /\ errorBatch' = <<>>
      /\ errors' = IF Storable(errorBatch) THEN errors \o errorBatch ELSE errors
      /\ pc' = IF Storable(errorBatch) THEN pc ELSE "processing error"
      /\ UNCHANGED <<file, rowCount, reachedEof, todo, stagingBatch, staging>>
  BY DEF FlushErrors
<1>2. /\ errors \in Seq(Issues) /\ errorBatch \in Seq(Issues)
      /\ Storable(errors) /\ BatchSize \in Nat \ {0}
  BY <1>0, StateFacts DEF StateOK
<1>3. AllIssues \in Seq(Issues) /\ AllIssues = errors \o errorBatch
  BY <1>0, <1>1, StateFacts
<1>4. Storable(AllIssues) <=> Storable(errors) /\ Storable(errorBatch)
  BY <1>2, <1>3, StorableConcat
<1>5. StateOK'
  <2>1. <<>> \in Seq(Issues) /\ Len(<<>>) < BatchSize
    BY <1>2
  <2>2. errors' \in Seq(Issues) /\ Storable(errors')
    BY <1>1, <1>2, <1>3, <1>4
  <2>3. pc' \in {"flush", "processing error"}
    BY <1>1
  <2> QED
    BY <1>0, <1>1, <2>1, <2>2, <2>3 DEF StateOK
<1>6. AllRows' = AllRows
  BY <1>1 DEF AllRows
<1>7. CASE Storable(errorBatch)
  <2>1. AllIssues' = AllIssues
    <3>1. (AllIssues \o <<>>) \o <<>> = AllIssues
      BY <1>3
    <3>2. errors' = AllIssues /\ errorBatch' = <<>> /\ todo' = <<>>
      BY <1>1, <1>3, <1>7
    <3>3. AllIssues' = (errors' \o errorBatch') \o todo'
      BY DEF AllIssues
    <3> QED
      BY <3>1, <3>2, <3>3
  <2>2. Progress'
    BY <1>0, <1>1, <1>6, <1>7, <2>1, SameAnswers
  <2> QED
    BY <1>1, <1>5, <1>7, <2>2, RowsOrFlush
<1>8. CASE ~Storable(errorBatch)
  <2>1. HasUnstorable(file')
    BY <1>0, <1>1, <1>4, <1>8, RefusedBatch
  <2>2. Progress'
    BY <1>1, <1>8 DEF Progress
  <2> QED
    BY <1>1, <1>5, <1>8, <2>1, <2>2, RowsOrFlush
<1> QED
  BY <1>7, <1>8

\* Errors are of the file, and without them the file was read to its end.
LEMMA ErrorsOfTheFile ==
    ASSUME StateOK, Progress, pc = "flush"
    PROVE  /\ AllIssues # <<>> => ~ConformingFile(file)
           /\ AllIssues = <<>> => /\ ConformingFile(file) /\ reachedEof /\ rowCount # 0
                                  /\ Len(AllRows) = Len(file.rows)
<1>1. /\ rowCount \in Nat /\ Len(file.rows) \in Nat /\ rowCount <= Len(file.rows)
      /\ DOMAIN file.rows = 1 .. Len(file.rows)
      /\ AllIssues \in Seq(Issues)
      /\ file.rows = <<>> <=> Len(file.rows) = 0
  BY StateFacts
<1>2. Answered(file, rowCount, AllRows, AllIssues)
  BY DEF Progress
<1>3. CASE rowCount = 0
  BY <1>3 DEF Progress, ConformingFile
<1>4. CASE rowCount > 0
  <2>1. /\ ConformingHeader(file.header) /\ LinesOf(AllIssues) \subseteq 2 .. rowCount + 1
        /\ StopsFile(file.rows[rowCount]) \/ (reachedEof /\ rowCount = Len(file.rows))
    BY <1>4 DEF Progress
  <2>2. \A i \in 1 .. rowCount :
           IF ConformingRow(file.rows[i], file.header)
           THEN i + 1 \in LinesOf(AllRows) /\ i + 1 \notin LinesOf(AllIssues)
           ELSE i + 1 \notin LinesOf(AllRows) /\ i + 1 \in LinesOf(AllIssues)
    BY <1>2 DEF Answered
  <2>3. ASSUME AllIssues # <<>>
        PROVE  ~ConformingFile(file)
    <3>1. 1 \in DOMAIN AllIssues
      BY <1>1, <2>3
    <3>2. AllIssues[1].line \in LinesOf(AllIssues)
      BY <3>1 DEF LinesOf
    <3>3. PICK l \in 2 .. rowCount + 1 : l \in LinesOf(AllIssues)
      BY <2>1, <3>2
    <3>4. l - 1 \in 1 .. rowCount /\ (l - 1) + 1 = l /\ l - 1 \in DOMAIN file.rows
      BY <1>1, <3>3
    <3>5. ~ConformingRow(file.rows[l - 1], file.header)
      BY <2>2, <3>3, <3>4
    <3> QED
      BY <3>4, <3>5 DEF ConformingFile
  <2>4. ASSUME AllIssues = <<>>
        PROVE  /\ ConformingFile(file) /\ reachedEof /\ rowCount # 0
               /\ Len(AllRows) = Len(file.rows)
    <3>1. LinesOf(AllIssues) = {}
      BY <2>4 DEF LinesOf
    <3>2. \A i \in 1 .. rowCount : ConformingRow(file.rows[i], file.header)
      BY <2>2, <3>1
    <3>3. rowCount \in 1 .. rowCount
      BY <1>1, <1>4
    <3>4. ~StopsFile(file.rows[rowCount])
      BY <3>2, <3>3 DEF ConformingRow, Clean, StopsFile
    <3>5. reachedEof /\ rowCount = Len(file.rows)
      BY <2>1, <3>4
    <3>6. Len(AllRows) = rowCount
      BY <1>2, <3>2 DEF Answered
    <3>7. ConformingFile(file)
      BY <1>1, <1>4, <2>1, <3>2, <3>5 DEF ConformingFile
    <3> QED
      BY <1>4, <3>5, <3>6, <3>7
  <2> QED
    BY <2>3, <2>4
<1> QED
  BY <1>1, <1>3, <1>4

LEMMA ConcludeInv == ASSUME Inv, Conclude PROVE Inv'
<1>0. StateOK /\ Progress
  BY DEF Inv
<1>1. /\ pc = "flush" /\ todo = <<>> /\ stagingBatch = <<>> /\ errorBatch = <<>>
      /\ pc' = IF errors # <<>> THEN "validation failed"
               ELSE IF ~reachedEof \/ rowCount = 0 THEN "processing error"
               ELSE "validated"
      /\ staging' = IF errors # <<>> THEN <<>> ELSE staging
      /\ UNCHANGED <<file, rowCount, reachedEof, todo, stagingBatch, errorBatch, errors>>
  BY DEF Conclude, batches
<1>2. AllIssues = errors /\ AllRows = staging
  BY <1>0, <1>1, StateFacts
<1>3. /\ errors # <<>> => ~ConformingFile(file)
      /\ errors = <<>> => /\ ConformingFile(file) /\ reachedEof /\ rowCount # 0
                          /\ Len(staging) = Len(file.rows)
  BY <1>0, <1>1, <1>2, ErrorsOfTheFile
<1>4. rowCount = Cardinality(Looked(file))
  BY <1>0, <1>1, LookedCount
<1>5. pc' \in {"validated", "validation failed"}
  BY <1>1, <1>3
<1>6. StateOK'
  <2>1. staging' \in Seq(RowEntries) /\ Storable(staging')
    <3>1. <<>> \in Seq(RowEntries) /\ Storable(<<>>)
      BY DEF Storable
    <3> QED
      BY <1>0, <1>1, <3>1 DEF StateOK
  <2> QED
    BY <1>0, <1>1, <1>5, <2>1 DEF StateOK, Ended
<1>7. Started' /\ Progress'
  BY <1>5 DEF Started, Progress
<1>8. VerdictIsRight'
  <2>1. CASE errors # <<>>
    <3>1. pc' = "validation failed" /\ ~ConformingFile(file')
      BY <1>1, <1>3, <2>1
    <3>2. rowCount' = Cardinality(Looked(file'))
      BY <1>1, <1>4
    <3> QED
      BY <3>1, <3>2 DEF VerdictIsRight
  <2>2. CASE errors = <<>>
    <3>1. pc' = "validated" /\ ConformingFile(file') /\ Len(staging') = Len(file'.rows)
      BY <1>1, <1>3, <2>2
    <3>2. rowCount' = Cardinality(Looked(file'))
      BY <1>1, <1>4
    <3> QED
      BY <3>1, <3>2 DEF VerdictIsRight
  <2> QED
    BY <2>1, <2>2
<1> QED
  BY <1>6, <1>7, <1>8 DEF Inv

LEMMA MarkProcessingFailedInv == ASSUME Inv, MarkProcessingFailed PROVE Inv'
<1>0. StateOK
  BY DEF Inv
<1> DEFINE e == Issue(NoLine, "processing_error")
<1>1. /\ errors' = Append(errors, e) /\ staging' = <<>> /\ pc' = "processing failed"
      /\ UNCHANGED <<file, rowCount, reachedEof, todo, stagingBatch, errorBatch>>
  BY DEF MarkProcessingFailed, batches
<1>2. e \in Issues /\ e.storable
  <2>1. "processing_error" \in Codes
    BY DEF Codes
  <2> QED
    BY <2>1, PlainIssue DEF NoLine
<1> HIDE DEF e
<1>3. errors' \in Seq(Issues) /\ Storable(errors')
  <2>1. errors \in Seq(Issues) /\ Storable(errors)
    BY <1>0 DEF StateOK
  <2> DEFINE t == <<e>>
  <2>2. t \in Seq(Issues) /\ errors' = errors \o t /\ errors' \in Seq(Issues)
    BY <1>1, <1>2, <2>1, AppendIs
  <2>3. Storable(t)
    BY <1>2 DEF Storable
  <2> HIDE DEF t
  <2> QED
    BY <2>1, <2>2, <2>3, StorableConcat
<1>4. StateOK'
  <2>1. <<>> \in Seq(RowEntries) /\ Storable(<<>>)
    BY DEF Storable
  <2> QED
    BY <1>0, <1>1, <1>3, <2>1 DEF StateOK, Ended
<1>5. Started' /\ Progress' /\ VerdictIsRight'
  BY <1>1 DEF Started, Progress, VerdictIsRight
<1> QED
  BY <1>4, <1>5 DEF Inv

LEMMA Unchanged == ASSUME Inv, UNCHANGED vars PROVE Inv'
<1>1. UNCHANGED <<file, pc, rowCount, reachedEof, todo, stagingBatch, errorBatch, staging, errors>>
  BY DEF vars, batches, stored
<1>2. AllRows' = AllRows /\ AllIssues' = AllIssues
  BY <1>1 DEF AllRows, AllIssues
<1>3. Progress'
  BY <1>1, <1>2, SameAnswers DEF Inv
<1>4. StateOK' /\ Started' /\ VerdictIsRight'
  BY <1>1 DEF Inv, StateOK, Started, VerdictIsRight
<1> QED
  BY <1>3, <1>4 DEF Inv

LEMMA NextInv == ASSUME Inv, [Next]_vars PROVE Inv'
<1>1. CASE ReadHeader
  BY <1>1, ReadHeaderInv
<1>2. CASE ReadBadRecord
  BY <1>2, ReadBadRecordInv
<1>3. CASE ReadValidRecord
  BY <1>3, ReadValidRecordInv
<1>4. CASE ReadEndlessQuantity
  BY <1>4, ReadEndlessQuantityInv
<1>5. CASE EndOfRecords
  BY <1>5, EndOfRecordsInv
<1>6. CASE AddIssue
  BY <1>6, AddIssueInv
<1>7. CASE FlushStaging
  BY <1>7, FlushStagingInv
<1>8. CASE FlushErrors
  BY <1>8, FlushErrorsInv
<1>9. CASE Conclude
  BY <1>9, ConcludeInv
<1>10. CASE MarkProcessingFailed
  BY <1>10, MarkProcessingFailedInv
<1>11. CASE Finished \/ UNCHANGED vars
  BY <1>11, Unchanged DEF Finished
<1> QED
  BY <1>1, <1>2, <1>3, <1>4, <1>5, <1>6, <1>7, <1>8, <1>9, <1>10, <1>11 DEF Next

-----------------------------------------------------------------------------
(* The loops over the texts of raw_data, by induction on a set of numbers. *)

LEMMA UpTo ==
    ASSUME NEW n \in Nat, NEW S, 0 \in S, \A i \in 0 .. n : i < n /\ i \in S => i + 1 \in S
    PROVE  \A i \in 0 .. n : i \in S
<1> DEFINE out == {i \in 0 .. n : i \notin S}
<1> SUFFICES ASSUME out # {} PROVE FALSE
  OBVIOUS
<1>1. out \subseteq Nat
  OBVIOUS
<1> HIDE DEF out
<1>2. PICK k \in out : \A m \in out : <<m, k>> \notin OpToRel(<, Nat)
  BY <1>1, NatLessThanWellFounded, WFMin, Zenon
<1>3. \A m \in out : ~(m < k)
  BY <1>1, <1>2 DEF OpToRel
<1>4. k \in 0 .. n /\ k \notin S
  BY DEF out
<1>5. k # 0 /\ k - 1 \in 0 .. n /\ k - 1 < n /\ k - 1 < k /\ (k - 1) + 1 = k
  BY <1>4
<1>6. k - 1 \in S
  BY <1>3, <1>5 DEF out
<1> QED
  BY <1>4, <1>5, <1>6

IsChars(f, s, n) == f = [i \in 0 .. n |-> IF i = 0 THEN 0 ELSE f[i - 1] + s[i].length]

\* The characters of kept texts, one by one.
LEMMA CharsAre ==
    ASSUME NEW s \in Seq(KeptTexts)
    PROVE  /\ Chars(s)[0] = 0
           /\ \A i \in 1 .. Len(s) : Chars(s)[i] = Chars(s)[i - 1] + s[i].length
           /\ \A i \in 0 .. Len(s) : Chars(s)[i] \in Nat
<1>0. Len(s) \in Nat /\ \A i \in 1 .. Len(s) : s[i].length \in Nat
  <2>1. Len(s) \in Nat /\ \A i \in 1 .. Len(s) : s[i] \in KeptTexts
    OBVIOUS
  <2>2. \A e \in KeptTexts : e.length \in Nat
    BY DEF KeptTexts
  <2> QED
    BY <2>1, <2>2
<1> DEFINE N == {n \in Nat : \E f : IsChars(f, s, n)}
<1>1. 0 \in N
  <2>1. IsChars([i \in 0 .. 0 |-> 0], s, 0)
    BY DEF IsChars
  <2> QED
    BY <2>1
<1>2. ASSUME NEW n \in Nat, n \in N
      PROVE  n + 1 \in N
  <2>1. PICK f : IsChars(f, s, n)
    BY <1>2
  <2> DEFINE g == [i \in 0 .. n + 1 |-> IF i = n + 1 THEN f[n] + s[n + 1].length ELSE f[i]]
             h == [i \in 0 .. n + 1 |-> IF i = 0 THEN 0 ELSE g[i - 1] + s[i].length]
  <2>2. ASSUME NEW i \in 0 .. n + 1
        PROVE  g[i] = h[i]
    <3>1. CASE i = n + 1
      <4>1. i # 0 /\ i - 1 = n /\ i - 1 \in 0 .. n + 1 /\ i - 1 # n + 1
        BY <3>1
      <4> QED
        BY <3>1, <4>1
    <3>2. CASE i = 0
      BY <2>1, <3>2 DEF IsChars
    <3>3. CASE i # 0 /\ i # n + 1
      <4>1. i \in 0 .. n /\ i - 1 \in 0 .. n + 1 /\ i - 1 # n + 1
        BY <3>3
      <4>2. g[i] = f[i] /\ g[i - 1] = f[i - 1]
        BY <3>3, <4>1
      <4>3. f[i] = f[i - 1] + s[i].length
        BY <2>1, <3>3, <4>1 DEF IsChars
      <4> QED
        BY <3>3, <4>2, <4>3
    <3> QED
      BY <3>1, <3>2, <3>3
  <2>3. g = h
    BY <2>2
  <2>4. IsChars(g, s, n + 1)
    BY <2>3 DEF IsChars
  <2> QED
    BY <2>4
<1>3. \A i \in 0 .. Len(s) : i \in N
  <2> HIDE DEF N
  <2>1. Len(s) \in Nat /\ \A i \in 0 .. Len(s) : i \in Nat
    BY <1>0
  <2> QED
    BY <1>1, <1>2, <2>1, UpTo
<1>4. PICK f : f = Chars(s)
  OBVIOUS
<1>5. IsChars(f, s, Len(s))
  <2>1. f = CHOOSE g : IsChars(g, s, Len(s))
    BY <1>4, Zenon DEF Chars, IsChars
  <2>2. \E g : IsChars(g, s, Len(s))
    BY <1>0, <1>3
  <2> QED
    BY <2>1, <2>2
<1>6. f[0] = 0 /\ \A i \in 1 .. Len(s) : f[i] = f[i - 1] + s[i].length
  BY <1>0, <1>5 DEF IsChars
<1>7. \A i \in 0 .. Len(s) : f[i] \in Nat
  <2> DEFINE S == {i \in 0 .. Len(s) : f[i] \in Nat}
  <2>1. 0 \in S
    BY <1>0, <1>6
  <2>2. ASSUME NEW i \in 0 .. Len(s), i < Len(s), i \in S
        PROVE  i + 1 \in S
    <3>1. i + 1 \in 1 .. Len(s) /\ i + 1 \in 0 .. Len(s) /\ (i + 1) - 1 = i
      BY <1>0, <2>2
    <3>2. f[i + 1] = f[i] + s[i + 1].length
      BY <1>6, <3>1
    <3> QED
      BY <1>0, <2>2, <3>1, <3>2
  <2> HIDE DEF S
  <2>3. \A i \in 0 .. Len(s) : i \in S
    BY <1>0, <2>1, <2>2, UpTo
  <2> QED
    BY <2>3 DEF S
<1> QED
  BY <1>4, <1>6, <1>7

\* One text more.
LEMMA CharsAppend ==
    ASSUME NEW s \in Seq(KeptTexts), NEW e \in KeptTexts
    PROVE  /\ Chars(s)[Len(s)] \in Nat
           /\ Chars(Append(s, e))[Len(s) + 1] = Chars(s)[Len(s)] + e.length
<1> DEFINE t == Append(s, e)
<1>1. /\ Len(s) \in Nat /\ t \in Seq(KeptTexts) /\ Len(t) = Len(s) + 1 /\ t[Len(s) + 1] = e
      /\ \A i \in 1 .. Len(s) : t[i] = s[i]
  OBVIOUS
<1> HIDE DEF t
<1> DEFINE S == {i \in 0 .. Len(s) : Chars(t)[i] = Chars(s)[i]}
<1>2. 0 \in S
  BY <1>1, CharsAre
<1>3. ASSUME NEW i \in 0 .. Len(s), i < Len(s), i \in S
      PROVE  i + 1 \in S
  <2>1. i + 1 \in 1 .. Len(s) /\ i + 1 \in 1 .. Len(t) /\ i + 1 \in 0 .. Len(s) /\ (i + 1) - 1 = i
    BY <1>1, <1>3
  <2>2. /\ Chars(t)[i + 1] = Chars(t)[i] + t[i + 1].length
        /\ Chars(s)[i + 1] = Chars(s)[i] + s[i + 1].length
    BY <1>1, <2>1, CharsAre
  <2> QED
    BY <1>1, <1>3, <2>1, <2>2
<1> HIDE DEF S
<1>4. \A i \in 0 .. Len(s) : i \in S
  BY <1>1, <1>2, <1>3, UpTo
<1>5. Chars(t)[Len(s)] = Chars(s)[Len(s)]
  BY <1>1, <1>4 DEF S
<1>6. Chars(t)[Len(s) + 1] = Chars(t)[Len(s)] + e.length
  <2>1. Len(s) + 1 \in 1 .. Len(t) /\ (Len(s) + 1) - 1 = Len(s)
    BY <1>1
  <2> QED
    BY <1>1, <2>1, CharsAre
<1>7. Chars(s)[Len(s)] \in Nat
  BY <1>1, CharsAre
<1> QED
  BY <1>5, <1>6, <1>7 DEF t

Accumulators == [kept : Seq(KeptTexts), remaining : Nat, truncated : BOOLEAN]

\* The accumulator acc is honest about the first i texts.
HonestAbout(acc, texts, i) ==
    /\ acc \in Accumulators
    /\ Len(acc.kept) <= i
    /\ Chars(acc.kept)[Len(acc.kept)] + acc.remaining = TotalLimit
    /\ Len(acc.kept) < i => acc.remaining = 0
    /\ \A k \in DOMAIN acc.kept :
           /\ acc.kept[k].length <= ValueLimit
           /\ acc.kept[k].length < texts[k] =>
                  acc.kept[k].length = ValueLimit \/ acc.remaining = 0
           /\ acc.kept[k].marked =>
                  acc.kept[k].length < texts[k] /\ acc.kept[k].length > MarkerChars
    /\ acc.truncated <=>
           \/ Len(acc.kept) < i
           \/ \E k \in DOMAIN acc.kept : acc.kept[k].length < texts[k]

\* A text is cut at the smaller of the two limits.
LEMMA BoundedTextIs ==
    ASSUME NEW n \in Nat, NEW rest \in Nat
    PROVE  LET b == BoundedText(n, rest) IN
           /\ b \in KeptTexts
           /\ b.length <= ValueLimit /\ b.length <= rest /\ b.length <= n
           /\ b.length < n => b.length = ValueLimit \/ b.length = rest
           /\ b.marked => b.length < n /\ b.length > MarkerChars
<1>1. ValueLimit \in Nat /\ MarkerChars \in Nat
  BY LimitsAssumption
<1> DEFINE allowed == Smaller(ValueLimit, rest)
<1>2. /\ allowed \in Nat /\ allowed <= ValueLimit /\ allowed <= rest
      /\ allowed = ValueLimit \/ allowed = rest
  BY <1>1 DEF Smaller
<1>3. BoundedText(n, rest) = IF n <= allowed THEN [length |-> n, marked |-> FALSE]
                             ELSE [length |-> allowed, marked |-> allowed > MarkerChars]
  BY DEF BoundedText
<1> HIDE DEF allowed
<1>4. CASE n <= allowed
  <2>1. BoundedText(n, rest) = [length |-> n, marked |-> FALSE]
    BY <1>3, <1>4
  <2>2. n <= ValueLimit /\ n <= rest
    BY <1>1, <1>2, <1>4
  <2> QED
    BY <2>1, <2>2 DEF KeptTexts
<1>5. CASE ~(n <= allowed)
  <2> DEFINE mark == allowed > MarkerChars
             b == BoundedText(n, rest)
  <2>1. b = [length |-> allowed, marked |-> mark]
    BY <1>3, <1>5
  <2>2. allowed < n /\ mark \in BOOLEAN
    BY <1>1, <1>2, <1>5
  <2>3. allowed < n /\ (mark => allowed > MarkerChars)
    BY <2>2, Zenon
  <2> HIDE DEF mark, b
  <2>4. b.length = allowed /\ b.marked = mark
    BY <2>1
  <2>5. b \in KeptTexts
    BY <1>2, <2>1, <2>2 DEF KeptTexts
  <2>6. /\ b.length <= ValueLimit /\ b.length <= rest /\ b.length <= n
        /\ b.length < n => b.length = ValueLimit \/ b.length = rest
        /\ b.length < n
    BY <1>1, <1>2, <2>2, <2>4
  <2>7. b.marked => b.length < n /\ b.length > MarkerChars
    BY <2>3, <2>4, Zenon
  <2> QED
    BY <2>5, <2>6, <2>7 DEF b
<1> QED
  BY <1>4, <1>5

LEMMA KeepTextIs ==
    ASSUME NEW texts \in Seq(Nat), NEW i \in 0 .. Len(texts), i < Len(texts),
           NEW acc, HonestAbout(acc, texts, i), Len(acc.kept) = i
    PROVE  /\ HonestAbout(KeepText(acc, texts[i + 1]), texts, i + 1)
           /\ Len(KeepText(acc, texts[i + 1]).kept) = i + 1
<1> DEFINE n == texts[i + 1]
           b == BoundedText(n, acc.remaining)
           s == Append(acc.kept, b)
           next == KeepText(acc, n)
<1>1. /\ acc \in Accumulators /\ acc.kept \in Seq(KeptTexts) /\ acc.remaining \in Nat
      /\ acc.truncated \in BOOLEAN
  BY DEF HonestAbout, Accumulators
<1>2. n \in Nat /\ i \in Nat
  OBVIOUS
<1>3. next = [kept |-> s, remaining |-> acc.remaining - b.length,
              truncated |-> acc.truncated \/ b.length < n]
  BY DEF KeepText
<1> HIDE DEF n
<1>4. /\ b \in KeptTexts /\ b.length \in Nat
      /\ b.length <= ValueLimit /\ b.length <= acc.remaining /\ b.length <= n
      /\ b.length < n => b.length = ValueLimit \/ b.length = acc.remaining
      /\ b.marked => b.length < n /\ b.length > MarkerChars
  <2>1. /\ b \in KeptTexts
        /\ b.length <= ValueLimit /\ b.length <= acc.remaining /\ b.length <= n
        /\ b.length < n => b.length = ValueLimit \/ b.length = acc.remaining
        /\ b.marked => b.length < n /\ b.length > MarkerChars
    BY <1>1, <1>2, BoundedTextIs
  <2> HIDE DEF b
  <2>2. b.length \in Nat
    BY <2>1 DEF KeptTexts
  <2> QED
    BY <2>1, <2>2
<1> HIDE DEF b
<1>5. /\ s \in Seq(KeptTexts) /\ Len(s) = i + 1 /\ DOMAIN s = 1 .. i + 1 /\ s[i + 1] = b
      /\ \A k \in 1 .. i : s[k] = acc.kept[k]
      /\ DOMAIN acc.kept = 1 .. i
  BY <1>1, <1>2, <1>4
<1>6. Chars(acc.kept)[i] \in Nat /\ Chars(s)[i + 1] = Chars(acc.kept)[i] + b.length
  BY <1>1, <1>4, CharsAppend
<1> HIDE DEF s, next
<1>7. next \in Accumulators /\ acc.remaining - b.length \in Nat
  <2>1. acc.remaining - b.length \in Nat
    BY <1>1, <1>4
  <2> QED
    BY <1>1, <1>3, <1>5, <2>1 DEF Accumulators
<1>8. /\ next.kept = s /\ next.remaining = acc.remaining - b.length
      /\ next.truncated = (acc.truncated \/ b.length < n)
  BY <1>3
<1>9. Chars(s)[i + 1] + next.remaining = TotalLimit
  <2>1. Chars(acc.kept)[i] + acc.remaining = TotalLimit
    BY DEF HonestAbout
  <2> QED
    BY <1>1, <1>4, <1>6, <1>8, <2>1
<1>10. ASSUME NEW k \in 1 .. i + 1
       PROVE  /\ s[k].length <= ValueLimit
              /\ s[k].length < texts[k] => s[k].length = ValueLimit \/ next.remaining = 0
              /\ s[k].marked => s[k].length < texts[k] /\ s[k].length > MarkerChars
  <2>1. CASE k = i + 1
    <3>1. s[k] = b /\ texts[k] = n
      BY <1>5, <2>1 DEF n
    <3>2. b.length = acc.remaining => next.remaining = 0
      BY <1>1, <1>4, <1>8
    <3> QED
      BY <1>4, <3>1, <3>2
  <2>2. CASE k # i + 1
    <3>1. k \in 1 .. i /\ s[k] = acc.kept[k] /\ k \in DOMAIN acc.kept
      BY <1>2, <1>5, <2>2
    <3>2. acc.remaining = 0 => next.remaining = 0
      BY <1>1, <1>4, <1>8
    <3> QED
      BY <3>1, <3>2 DEF HonestAbout
  <2> QED
    BY <2>1, <2>2
<1>11. next.truncated <=> \E k \in 1 .. i + 1 : s[k].length < texts[k]
  <2>1. acc.truncated <=> \E k \in 1 .. i : acc.kept[k].length < texts[k]
    <3>1. Len(acc.kept) = i /\ ~(i < i) /\ DOMAIN acc.kept = 1 .. i
      BY <1>2, <1>5
    <3> QED
      BY <3>1 DEF HonestAbout
  <2>2. \A k \in 1 .. i : k \in 1 .. i + 1
    BY <1>2
  <2>3. \A k \in 1 .. i + 1 : k \in 1 .. i \/ k = i + 1
    BY <1>2
  <2>4. i + 1 \in 1 .. i + 1
    BY <1>2
  <2>5. texts[i + 1] = n
    BY DEF n
  <2> QED
    BY <1>5, <1>8, <2>1, <2>2, <2>3, <2>4, <2>5
<1>12. HonestAbout(next, texts, i + 1)
  <2>1. Len(next.kept) = i + 1 /\ DOMAIN next.kept = 1 .. i + 1 /\ i + 1 <= i + 1 /\ ~(i + 1 < i + 1)
    BY <1>2, <1>5, <1>8
  <2> QED
    BY <1>7, <1>8, <1>9, <1>10, <1>11, <2>1 DEF HonestAbout
<1> QED
  BY <1>5, <1>8, <1>12 DEF next, n

LEMMA KeepItemIs ==
    ASSUME NEW texts \in Seq(Nat), NEW i \in 0 .. Len(texts), i < Len(texts),
           NEW acc, HonestAbout(acc, texts, i)
    PROVE  HonestAbout(KeepItem(acc, texts[i + 1]), texts, i + 1)
<1>1. /\ acc \in Accumulators /\ acc.kept \in Seq(KeptTexts) /\ acc.remaining \in Nat
      /\ Len(acc.kept) \in Nat /\ Len(acc.kept) <= i /\ i \in Nat
  BY DEF HonestAbout, Accumulators
<1>2. CASE acc.remaining = 0
  <2> DEFINE next == [acc EXCEPT !.truncated = TRUE]
  <2>1. KeepItem(acc, texts[i + 1]) = next
    BY <1>2 DEF KeepItem
  <2>2. /\ next.kept = acc.kept /\ next.remaining = acc.remaining /\ next.truncated
        /\ next \in Accumulators
    BY <1>1 DEF Accumulators
  <2> HIDE DEF next
  <2>3. Len(acc.kept) < i + 1 /\ Len(acc.kept) <= i + 1
    BY <1>1
  <2> QED
    BY <1>2, <2>1, <2>2, <2>3 DEF HonestAbout
<1>3. CASE acc.remaining # 0
  <2>1. KeepItem(acc, texts[i + 1]) = KeepText(acc, texts[i + 1])
    BY <1>3 DEF KeepItem
  <2>2. Len(acc.kept) = i
    BY <1>1, <1>3 DEF HonestAbout
  <2> QED
    BY <2>1, <2>2, KeepTextIs
<1> QED
  BY <1>2, <1>3

NextKept(acc, n, isList) == IF isList THEN KeepItem(acc, n) ELSE KeepText(acc, n)

IsKeeping(f, texts, isList, n) ==
    f = [i \in 0 .. n |-> IF i = 0 THEN NothingKept
                          ELSE IF isList THEN KeepItem(f[i - 1], texts[i]) ELSE KeepText(f[i - 1], texts[i])]

LEMMA KeepingIs ==
    ASSUME NEW texts \in Seq(Nat), NEW isList
    PROVE  /\ Keeping(texts, isList)[0] = NothingKept
           /\ \A i \in 1 .. Len(texts) :
                  Keeping(texts, isList)[i] = NextKept(Keeping(texts, isList)[i - 1], texts[i], isList)
<1>0. Len(texts) \in Nat
  OBVIOUS
<1> DEFINE N == {n \in Nat : \E f : IsKeeping(f, texts, isList, n)}
<1>1. 0 \in N
  <2>1. IsKeeping([i \in 0 .. 0 |-> NothingKept], texts, isList, 0)
    <3> DEFINE f == [i \in 0 .. 0 |-> NothingKept]
               g == [i \in 0 .. 0 |-> IF i = 0 THEN NothingKept
                                      ELSE IF isList THEN KeepItem(f[i - 1], texts[i])
                                                     ELSE KeepText(f[i - 1], texts[i])]
    <3>1. \A i \in 0 .. 0 : f[i] = g[i]
      <4>1. \A i \in 0 .. 0 : i = 0
        OBVIOUS
      <4> QED
        BY <4>1
    <3>2. f = g
      BY <3>1
    <3> QED
      BY <3>2 DEF IsKeeping
  <2> QED
    BY <2>1
<1>2. ASSUME NEW n \in Nat, n \in N
      PROVE  n + 1 \in N
  <2>1. PICK f : IsKeeping(f, texts, isList, n)
    BY <1>2
  <2> DEFINE g == [i \in 0 .. n + 1 |-> IF i = n + 1 THEN NextKept(f[n], texts[n + 1], isList) ELSE f[i]]
             h == [i \in 0 .. n + 1 |-> IF i = 0 THEN NothingKept
                                        ELSE IF isList THEN KeepItem(g[i - 1], texts[i])
                                                       ELSE KeepText(g[i - 1], texts[i])]
  <2>2. ASSUME NEW i \in 0 .. n + 1
        PROVE  g[i] = h[i]
    <3>1. CASE i = n + 1
      <4>1. i # 0 /\ i - 1 = n /\ i - 1 \in 0 .. n + 1 /\ i - 1 # n + 1
        BY <3>1
      <4>2. g[i] = NextKept(f[n], texts[n + 1], isList) /\ g[i - 1] = f[n]
        BY <3>1, <4>1
      <4>3. h[i] = NextKept(g[i - 1], texts[i], isList)
        BY <4>1, Zenon DEF NextKept
      <4> QED
        BY <3>1, <4>2, <4>3
    <3>2. CASE i = 0
      <4>1. 0 \in 0 .. n /\ 0 # n + 1
        OBVIOUS
      <4>2. f[0] = NothingKept
        BY <2>1, <4>1, Zenon DEF IsKeeping
      <4> QED
        BY <3>2, <4>1, <4>2
    <3>3. CASE i # 0 /\ i # n + 1
      <4>1. i \in 0 .. n /\ i - 1 \in 0 .. n + 1 /\ i - 1 # n + 1
        BY <3>3
      <4>2. g[i] = f[i] /\ g[i - 1] = f[i - 1]
        BY <3>3, <4>1
      <4>3. f[i] = NextKept(f[i - 1], texts[i], isList)
        BY <2>1, <3>3, <4>1, Zenon DEF IsKeeping, NextKept
      <4>4. h[i] = NextKept(g[i - 1], texts[i], isList)
        BY <3>3, Zenon DEF NextKept
      <4> QED
        BY <4>2, <4>3, <4>4
    <3> QED
      BY <3>1, <3>2, <3>3
  <2>3. g = h
    <3>1. DOMAIN g = 0 .. n + 1 /\ DOMAIN h = 0 .. n + 1
      OBVIOUS
    <3> QED
      BY <2>2, Zenon
  <2>4. IsKeeping(g, texts, isList, n + 1)
    BY <2>3, Zenon DEF IsKeeping
  <2> QED
    BY <2>4
<1>3. \A i \in 0 .. Len(texts) : i \in N
  <2> HIDE DEF N
  <2>1. \A i \in 0 .. Len(texts) : i \in Nat
    BY <1>0
  <2> QED
    BY <1>0, <1>1, <1>2, <2>1, UpTo
<1>4. PICK f : f = Keeping(texts, isList)
  OBVIOUS
<1>5. IsKeeping(f, texts, isList, Len(texts))
  <2>1. f = CHOOSE g : IsKeeping(g, texts, isList, Len(texts))
    BY <1>4, Zenon DEF Keeping, IsKeeping
  <2>2. \E g : IsKeeping(g, texts, isList, Len(texts))
    BY <1>0, <1>3
  <2> QED
    BY <2>1, <2>2
<1>6. f[0] = NothingKept
  <2>1. 0 \in 0 .. Len(texts)
    BY <1>0
  <2> QED
    BY <1>5, <2>1, Zenon DEF IsKeeping
<1>7. ASSUME NEW i \in 1 .. Len(texts)
      PROVE  f[i] = NextKept(f[i - 1], texts[i], isList)
  <2>1. i \in 0 .. Len(texts) /\ i # 0
    BY <1>0
  <2> QED
    BY <1>5, <2>1, Zenon DEF IsKeeping, NextKept
<1> QED
  BY <1>4, <1>6, <1>7

\* What is kept of values, each under its key, and of a list.
LEMMA KeptIs ==
    ASSUME NEW texts \in Seq(Nat), NEW isList \in BOOLEAN, NEW acc,
           acc = Keeping(texts, isList)[Len(texts)]
    PROVE  HonestAbout(acc, texts, Len(texts))
<1>0. Len(texts) \in Nat
  OBVIOUS
<1> DEFINE f == Keeping(texts, isList)
           S == {i \in 0 .. Len(texts) : /\ HonestAbout(f[i], texts, i)
                                         /\ ~isList => Len(f[i].kept) = i}
<1>1. f[0] = NothingKept /\ \A i \in 1 .. Len(texts) : f[i] = NextKept(f[i - 1], texts[i], isList)
  BY KeepingIs
<1> HIDE DEF f
<1>2. 0 \in S
  <2>1. NothingKept \in Accumulators
    BY LimitsAssumption DEF NothingKept, Accumulators
  <2>2. /\ NothingKept.kept = <<>> /\ NothingKept.remaining = TotalLimit
        /\ NothingKept.truncated = FALSE
    BY DEF NothingKept
  <2>3. Len(<<>>) = 0 /\ DOMAIN <<>> = {} /\ <<>> \in Seq(KeptTexts) /\ 0 <= 0 /\ ~(0 < 0)
    OBVIOUS
  <2>4. Chars(<<>>)[0] = 0
    BY <2>3, CharsAre
  <2>5. 0 + TotalLimit = TotalLimit
    BY LimitsAssumption
  <2>6. HonestAbout(NothingKept, texts, 0)
    BY <2>1, <2>2, <2>3, <2>4, <2>5 DEF HonestAbout
  <2> QED
    BY <1>0, <1>1, <2>2, <2>3, <2>6
<1>3. ASSUME NEW i \in 0 .. Len(texts), i < Len(texts), i \in S
      PROVE  i + 1 \in S
  <2>1. i + 1 \in 1 .. Len(texts) /\ i + 1 \in 0 .. Len(texts) /\ (i + 1) - 1 = i
    BY <1>0, <1>3
  <2>2. f[i + 1] = NextKept(f[i], texts[i + 1], isList)
    BY <1>1, <2>1
  <2>3. CASE isList
    <3>1. f[i + 1] = KeepItem(f[i], texts[i + 1])
      BY <2>2, <2>3 DEF NextKept
    <3>2. HonestAbout(f[i + 1], texts, i + 1)
      BY <1>3, <3>1, KeepItemIs
    <3> QED
      BY <2>1, <2>3, <3>2
  <2>4. CASE ~isList
    <3>1. f[i + 1] = KeepText(f[i], texts[i + 1])
      BY <2>2, <2>4 DEF NextKept
    <3>2. HonestAbout(f[i + 1], texts, i + 1) /\ Len(f[i + 1].kept) = i + 1
      BY <1>3, <2>4, <3>1, KeepTextIs
    <3> QED
      BY <2>1, <3>2
  <2> QED
    BY <2>3, <2>4
<1> HIDE DEF S
<1>4. \A i \in 0 .. Len(texts) : i \in S
  BY <1>0, <1>2, <1>3, UpTo
<1>5. Len(texts) \in S
  BY <1>0, <1>4
<1> QED
  BY <1>5 DEF S, f

\* The data of an error are faithful, marked as truncated anyway or not.
LEMMA RawIsFaithful ==
    ASSUME NEW texts \in Seq(Nat)
    PROVE  /\ Faithful(BoundedValues(texts), texts, FALSE)
           /\ Faithful(BoundedList(texts), texts, FALSE)
           /\ Faithful(BoundedPreview(texts), texts, TRUE)
<1>0. Len(texts) \in Nat
  OBVIOUS
<1>1. ASSUME NEW acc, HonestAbout(acc, texts, Len(texts)), NEW raw, NEW incomplete \in BOOLEAN,
             raw.kept = acc.kept, raw.truncated <=> acc.truncated \/ incomplete
      PROVE  Faithful(raw, texts, incomplete)
  <2>1. /\ acc \in Accumulators /\ acc.kept \in Seq(KeptTexts) /\ acc.remaining \in Nat
        /\ Len(acc.kept) \in Nat /\ Chars(acc.kept)[Len(acc.kept)] \in Nat
    <3>1. acc.kept \in Seq(KeptTexts) /\ acc.remaining \in Nat /\ acc \in Accumulators
      BY <1>1 DEF HonestAbout, Accumulators
    <3>2. Len(acc.kept) \in Nat /\ Len(acc.kept) \in 0 .. Len(acc.kept)
      BY <3>1
    <3> QED
      BY <3>1, <3>2, CharsAre
  <2> DEFINE total == Chars(acc.kept)[Len(acc.kept)]
  <2>2. total + acc.remaining = TotalLimit /\ TotalLimit \in Nat
    BY <1>1, LimitsAssumption DEF HonestAbout
  <2>3. total <= TotalLimit /\ (acc.remaining = 0 => total = TotalLimit)
    BY <2>1, <2>2
  <2> HIDE DEF total
  <2>4. /\ total <= TotalLimit
        /\ Len(raw.kept) <= Len(texts)
        /\ Len(raw.kept) < Len(texts) => total = TotalLimit
    BY <1>1, <2>3 DEF HonestAbout
  <2>5. \A k \in DOMAIN raw.kept :
           /\ raw.kept[k].length <= ValueLimit
           /\ raw.kept[k].length < texts[k] => raw.kept[k].length = ValueLimit \/ total = TotalLimit
           /\ raw.kept[k].marked => raw.kept[k].length < texts[k] /\ raw.kept[k].length > MarkerChars
    BY <1>1, <2>3 DEF HonestAbout
  <2>6. raw.truncated <=>
           \/ Len(raw.kept) < Len(texts)
           \/ \E k \in DOMAIN raw.kept : raw.kept[k].length < texts[k]
           \/ incomplete
    BY <1>1, Zenon DEF HonestAbout
  <2>7. total = Chars(raw.kept)[Len(raw.kept)]
    BY <1>1 DEF total
  <2> QED
    BY <2>4, <2>5, <2>6, <2>7, Zenon DEF Faithful
<1>2. ASSUME NEW isList \in BOOLEAN
      PROVE  LET acc == Keeping(texts, isList)[Len(texts)] IN
             /\ HonestAbout(acc, texts, Len(texts))
             /\ Raw(acc).kept = acc.kept /\ (Raw(acc).truncated <=> acc.truncated)
             /\ LET raw == [Raw(acc) EXCEPT !.truncated = TRUE] IN
                raw.kept = acc.kept /\ raw.truncated
  <2> DEFINE acc == Keeping(texts, isList)[Len(texts)]
             raw == [Raw(acc) EXCEPT !.truncated = TRUE]
  <2>1. HonestAbout(acc, texts, Len(texts))
    BY KeptIs
  <2> HIDE DEF acc
  <2>2. Raw(acc).kept = acc.kept /\ (Raw(acc).truncated <=> acc.truncated)
    BY Zenon DEF Raw
  <2>3. raw.kept = acc.kept /\ raw.truncated
    BY DEF Raw
  <2> QED
    BY <2>1, <2>2, <2>3 DEF acc
<1>3. Faithful(BoundedValues(texts), texts, FALSE)
  BY <1>1, <1>2 DEF BoundedValues
<1>4. Faithful(BoundedList(texts), texts, FALSE)
  BY <1>1, <1>2 DEF BoundedList
<1>5. Faithful(BoundedPreview(texts), texts, TRUE)
  BY <1>1, <1>2 DEF BoundedPreview, BoundedValues
<1> QED
  BY <1>3, <1>4, <1>5

LEMMA NoRawIsFaithful == Faithful(NoRawData, <<>>, FALSE)
<1>1. NoRawData.kept = <<>> /\ NoRawData.truncated = FALSE
  BY DEF NoRawData
<1>2. Len(<<>>) = 0 /\ DOMAIN <<>> = {} /\ <<>> \in Seq(KeptTexts)
  OBVIOUS
<1>3. Chars(<<>>)[0] = 0
  BY <1>2, CharsAre
<1> QED
  BY <1>1, <1>2, <1>3, LimitsAssumption DEF Faithful

-----------------------------------------------------------------------------
(* What the checks attach to their issues.                                 *)

FaithfulOf(e, line, r) ==
    /\ e.line = line \/ e.raw = NoRawData
    /\ Faithful(e.raw, TextsOf(e, r), TooLarge(e))

FaithfulTo(s, line, r) == \A k \in DOMAIN s : FaithfulOf(s[k], line, r)

LEMMA OneFaithful ==
    ASSUME NEW e, NEW line, NEW r, FaithfulOf(e, line, r)
    PROVE  FaithfulTo(<<e>>, line, r)
BY DEF FaithfulTo

\* An issue with raw_data made from the texts that its line and column say.
LEMMA WithRawFaithful ==
    ASSUME NEW line, NEW field, NEW code, NEW storable, NEW raw, NEW r, NEW texts,
           texts = IF line # NoLine /\ field # None THEN RequiredTexts(r) ELSE r.texts,
           Faithful(raw, texts, code \in {"csv_record_too_large", "csv_field_too_large"})
    PROVE  FaithfulOf(IssueWith(line, field, code, storable, raw), line, r)
<1> DEFINE e == IssueWith(line, field, code, storable, raw)
           large == code \in {"csv_record_too_large", "csv_field_too_large"}
<1>1. e.line = line /\ e.field = field /\ e.code = code /\ e.raw = raw
  BY DEF IssueWith
<1>2. TooLarge(e) <=> large
  BY <1>1 DEF TooLarge
<1> HIDE DEF e, large
<1>3. CASE raw = NoRawData
  <2>1. ~large
    <3>1. raw.truncated = FALSE
      BY <1>3 DEF NoRawData
    <3>2. Faithful(raw, texts, large)
      BY DEF large
    <3> QED
      BY <3>1, <3>2 DEF Faithful
  <2>2. TextsOf(e, r) = <<>>
    BY <1>1, <1>3 DEF TextsOf
  <2>3. Faithful(e.raw, TextsOf(e, r), TooLarge(e)) <=> Faithful(NoRawData, <<>>, FALSE)
    <3>1. e.raw = NoRawData
      BY <1>1, <1>3
    <3> QED
      BY <1>2, <2>1, <2>2, <3>1 DEF Faithful
  <2> QED
    BY <1>1, <2>3, NoRawIsFaithful DEF FaithfulOf, e
<1>4. CASE raw # NoRawData
  <2>1. TextsOf(e, r) = texts
    BY <1>1, <1>4 DEF TextsOf
  <2>2. Faithful(raw, texts, large)
    BY DEF large
  <2>3. Faithful(e.raw, TextsOf(e, r), TooLarge(e))
    BY <1>1, <1>2, <2>1, <2>2 DEF Faithful
  <2> QED
    BY <1>1, <2>3 DEF FaithfulOf, e
<1> QED
  BY <1>3, <1>4

LEMMA PlainFaithful ==
    ASSUME NEW l, NEW line, NEW r, NEW code,
           code \notin {"csv_record_too_large", "csv_field_too_large"}
    PROVE  FaithfulTo(<<Issue(l, code)>>, line, r)
<1> DEFINE e == Issue(l, code)
<1>1. e.raw = NoRawData /\ e.code = code
  BY DEF Issue, IssueWith
<1>2. TextsOf(e, r) = <<>> /\ ~TooLarge(e)
  BY <1>1 DEF TextsOf, TooLarge
<1> HIDE DEF e
<1>3. Faithful(e.raw, TextsOf(e, r), TooLarge(e)) <=> Faithful(NoRawData, <<>>, FALSE)
  BY <1>1, <1>2 DEF Faithful
<1>4. FaithfulOf(e, line, r)
  BY <1>1, <1>3, NoRawIsFaithful DEF FaithfulOf
<1> QED
  BY <1>4, OneFaithful DEF e

LEMMA RecordFaithful ==
    ASSUME NEW r \in Headers \cup Rows, NEW line \in Nat
    PROVE  FaithfulTo(RecordIssues(r, line), line, r)
<1>0. r.texts \in Seq(Nat)
  BY DEF Headers, Rows
<1> DEFINE preview(code) ==
             IssueWith(line, None, code, Jsonb(r.surrogate, r.nul # "none"), BoundedPreview(r.texts))
<1>1. ASSUME NEW code \in {"csv_record_too_large", "csv_field_too_large"}
      PROVE  FaithfulTo(<<preview(code)>>, line, r)
  <2>1. Faithful(BoundedPreview(r.texts), r.texts, TRUE)
    BY <1>0, RawIsFaithful
  <2>2. Faithful(BoundedPreview(r.texts), r.texts,
                 code \in {"csv_record_too_large", "csv_field_too_large"})
    BY <2>1 DEF Faithful
  <2>3. r.texts = IF line # NoLine /\ None # None THEN RequiredTexts(r) ELSE r.texts
    OBVIOUS
  <2>4. FaithfulOf(preview(code), line, r)
    BY <2>2, <2>3, WithRawFaithful
  <2> HIDE DEF preview
  <2> QED
    BY <2>4, OneFaithful
<1> HIDE DEF preview
<1>2. CASE r.over
  <2>1. RecordIssues(r, line) = <<preview("csv_record_too_large")>>
    BY <1>2 DEF RecordIssues, preview
  <2> QED
    BY <1>1, <2>1
<1>3. CASE ~r.over /\ r.parse = "field"
  <2>1. RecordIssues(r, line) = <<preview("csv_field_too_large")>>
    BY <1>3 DEF RecordIssues, preview
  <2> QED
    BY <1>1, <2>1
<1>4. CASE ~r.over /\ r.parse = "malformed"
  <2>1. \E l : RecordIssues(r, line) = <<Issue(l, "malformed_csv")>>
    BY <1>4 DEF RecordIssues
  <2> QED
    BY <2>1, PlainFaithful
<1>5. CASE ~r.over /\ r.parse = "row" /\ r.surrogate
  <2>1. RecordIssues(r, line) = <<Issue(line, "invalid_utf8")>>
    BY <1>5 DEF RecordIssues
  <2> QED
    BY <2>1, PlainFaithful
<1>6. CASE /\ ~r.over /\ r.parse # "field" /\ r.parse # "malformed"
           /\ ~(r.parse = "row" /\ r.surrogate)
  <2>1. RecordIssues(r, line) = <<>>
    BY <1>6 DEF RecordIssues
  <2>2. FaithfulTo(<<>>, line, r)
    BY DEF FaithfulTo
  <2> QED
    BY <2>1, <2>2
<1> QED
  BY <1>2, <1>3, <1>4, <1>5, <1>6

LEMMA SetFaithful ==
    ASSUME NEW S, IsFiniteSet(S), NEW line, NEW r, \A e \in S : FaithfulOf(e, line, r)
    PROVE  FaithfulTo(SetToSeq(S), line, r)
<1> DEFINE s == SetToSeq(S)
<1>1. s \in Seq(S)
  BY SetToSeqIs
<1> HIDE DEF s
<1>2. \A k \in DOMAIN s : s[k] \in S
  BY <1>1
<1> QED
  BY <1>2 DEF FaithfulTo, s

LEMMA HeaderFaithful ==
    ASSUME NEW h \in Headers
    PROVE  FaithfulTo(HeaderIssues(h), NoLine, h)
<1> DEFINE of(c, code) ==
             IssueWith(NoLine, c, code, Jsonb(FALSE, h.nul # "none"), BoundedList(h.texts))
           M == {d \in Required : h.occurs[d] = 0}
           D == {d \in Required : h.occurs[d] > 1}
           SM == {of(c, "missing_required_column") : c \in M}
           SD == {of(c, "duplicate_required_column") : c \in D}
<1>1. HeaderIssues(h) = SetToSeq(SM \cup SD)
  BY DEF HeaderIssues
<1>2. ASSUME NEW c, NEW code \in {"missing_required_column", "duplicate_required_column"}
      PROVE  FaithfulOf(of(c, code), NoLine, h)
  <2>1. h.texts \in Seq(Nat)
    BY DEF Headers
  <2>2. Faithful(BoundedList(h.texts), h.texts, FALSE)
    BY <2>1, RawIsFaithful
  <2>3. Faithful(BoundedList(h.texts), h.texts,
                 code \in {"csv_record_too_large", "csv_field_too_large"})
    BY <2>2 DEF Faithful
  <2>4. h.texts = IF NoLine # NoLine /\ c # None THEN RequiredTexts(h) ELSE h.texts
    OBVIOUS
  <2> QED
    BY <2>3, <2>4, WithRawFaithful
<1>3. IsFiniteSet(SM) /\ IsFiniteSet(SD)
  <2>1. IsFiniteSet(M) /\ IsFiniteSet(D)
    BY RequiredFinite, FS_Subset
  <2>2. [c \in M |-> of(c, "missing_required_column")] \in Surjection(M, SM)
    BY DEF Surjection
  <2>3. [c \in D |-> of(c, "duplicate_required_column")] \in Surjection(D, SD)
    BY DEF Surjection
  <2> HIDE DEF M, D, SM, SD
  <2> QED
    BY <2>1, <2>2, <2>3, FS_Surjection
<1>4. IsFiniteSet(SM \cup SD)
  BY <1>3, FS_Union
<1>5. \A e \in SM \cup SD : FaithfulOf(e, NoLine, h)
  <2> HIDE DEF of
  <2>1. \A e \in SM : \E c \in M : e = of(c, "missing_required_column")
    BY Zenon
  <2>2. \A e \in SD : \E c \in D : e = of(c, "duplicate_required_column")
    BY Zenon
  <2> HIDE DEF SM, SD
  <2> QED
    BY <1>2, <2>1, <2>2
<1> HIDE DEF SM, SD
<1> QED
  BY <1>1, <1>4, <1>5, SetFaithful

LEMMA RowFaithful ==
    ASSUME NEW r \in Rows, NEW h, Len(h.texts) >= Cardinality(Required), NEW line \in Nat \ {0}
    PROVE  FaithfulTo(RowIssues(r, h, line), line, r)
<1>0. r.texts \in Seq(Nat)
  BY DEF Rows
<1>1. CASE Len(r.texts) # Len(h.texts)
  <2> DEFINE e == IssueWith(line, None, "invalid_column_count", Jsonb(FALSE, r.nul # "none"),
                            BoundedList(r.texts))
  <2>1. RowIssues(r, h, line) = <<e>>
    BY <1>1 DEF RowIssues
  <2>2. Faithful(BoundedList(r.texts), r.texts, FALSE)
    BY <1>0, RawIsFaithful
  <2>3. Faithful(BoundedList(r.texts), r.texts,
                 "invalid_column_count" \in {"csv_record_too_large", "csv_field_too_large"})
    BY <2>2 DEF Faithful
  <2>4. r.texts = IF line # NoLine /\ None # None THEN RequiredTexts(r) ELSE r.texts
    OBVIOUS
  <2>5. FaithfulOf(e, line, r)
    BY <2>3, <2>4, WithRawFaithful
  <2> HIDE DEF e
  <2> QED
    BY <2>1, <2>5, OneFaithful
<1>2. CASE Len(r.texts) = Len(h.texts)
  <2> DEFINE texts == RequiredTexts(r)
             of(p) == IssueWith(line, p[1], p[2], Jsonb(FALSE, r.nul = "required"),
                                BoundedValues(texts))
             P == FieldProblems(r)
             S == {of(p) : p \in P}
  <2>1. RowIssues(r, h, line) = SetToSeq(S)
    BY <1>2 DEF RowIssues, FieldIssues
  <2>2. texts \in Seq(Nat)
    <3>1. Cardinality(Required) \in Nat
      BY RequiredFinite, FS_CardinalityType
    <3>2. Cardinality(Required) <= Len(r.texts) /\ Len(r.texts) \in Nat
      BY <1>0, <1>2
    <3> DEFINE n == Cardinality(Required)
               t == r.texts
    <3>3. n \in Nat /\ n <= Len(t) /\ t \in Seq(Nat) /\ texts = SubSeq(t, 1, n)
      BY <1>0, <3>1, <3>2 DEF RequiredTexts
    <3> HIDE DEF n, t, texts
    <3>4. \A i \in 1 .. n : t[i] \in Nat
      BY <3>3
    <3> QED
      BY <3>3, <3>4
  <2>3. Faithful(BoundedValues(texts), texts, FALSE)
    BY <2>2, RawIsFaithful
  <2>4. ASSUME NEW p \in P
        PROVE  FaithfulOf(of(p), line, r)
    <3>1. p[1] # None /\ line # NoLine
      <4>1. p[1] \in Required
        BY FieldProblemsAre
      <4> QED
        BY <4>1, CsvValidationAssumption DEF Required, None, NoLine
    <3>2. p[2] \notin {"csv_record_too_large", "csv_field_too_large"}
      <4>1. \/ p[2] = "required" \/ p[2] = "invalid_quantity"
            \/ p[2] = "quantity_negative" \/ p[2] = "quantity_too_large"
        BY DEF FieldProblems
      <4> QED
        BY <4>1
    <3>3. Faithful(BoundedValues(texts), texts,
                   p[2] \in {"csv_record_too_large", "csv_field_too_large"})
      BY <2>3, <3>2 DEF Faithful
    <3>4. texts = IF line # NoLine /\ p[1] # None THEN RequiredTexts(r) ELSE r.texts
      BY <3>1
    <3> HIDE DEF texts
    <3> QED
      BY <3>3, <3>4, WithRawFaithful
  <2>5. IsFiniteSet(S)
    <3>1. IsFiniteSet(P)
      BY FieldProblemsAre
    <3>2. [p \in P |-> of(p)] \in Surjection(P, S)
      BY DEF Surjection
    <3> HIDE DEF S, P
    <3> QED
      BY <3>1, <3>2, FS_Surjection
  <2>6. \A e \in S : FaithfulOf(e, line, r)
    <3> HIDE DEF of, P
    <3> QED
      BY <2>4
  <2> HIDE DEF S
  <2> QED
    BY <2>1, <2>5, <2>6, SetFaithful
<1> QED
  BY <1>1, <1>2

-----------------------------------------------------------------------------
(* The issues in the batches and tables.                                   *)

FaithfulIn(f, s) ==
    \A k \in DOMAIN s : Faithful(s[k].raw, TextsOf(s[k], RecordAt(f, s[k].line)), TooLarge(s[k]))

RawInv == FaithfulIn(file, errors) /\ FaithfulIn(file, errorBatch) /\ FaithfulIn(file, todo)

LEMMA FaithfulToRecord ==
    ASSUME NEW f, NEW line, NEW s, FaithfulTo(s, line, RecordAt(f, line))
    PROVE  FaithfulIn(f, s)
<1> SUFFICES ASSUME NEW k \in DOMAIN s
             PROVE  Faithful(s[k].raw, TextsOf(s[k], RecordAt(f, s[k].line)), TooLarge(s[k]))
  BY DEF FaithfulIn
<1> DEFINE e == s[k]
<1>1. /\ e.line = line \/ e.raw = NoRawData
      /\ Faithful(e.raw, TextsOf(e, RecordAt(f, line)), TooLarge(e))
  BY DEF FaithfulTo, FaithfulOf
<1> HIDE DEF e
<1>2. e.raw = NoRawData => TextsOf(e, RecordAt(f, e.line)) = TextsOf(e, RecordAt(f, line))
  BY DEF TextsOf
<1>3. TextsOf(e, RecordAt(f, e.line)) = TextsOf(e, RecordAt(f, line))
  BY <1>1, <1>2
<1>4. Faithful(e.raw, TextsOf(e, RecordAt(f, e.line)), TooLarge(e))
  BY <1>1, <1>3
<1> QED
  BY <1>4 DEF e

LEMMA FaithfulConcat ==
    ASSUME NEW A, NEW s \in Seq(A), NEW t \in Seq(A), NEW f, FaithfulIn(f, s), FaithfulIn(f, t)
    PROVE  FaithfulIn(f, s \o t)
<1> DEFINE u == s \o t
<1>1. \A i \in DOMAIN u : \/ i \in DOMAIN s /\ u[i] = s[i]
                          \/ i - Len(s) \in DOMAIN t /\ u[i] = t[i - Len(s)]
  OBVIOUS
<1> HIDE DEF u
<1>2. FaithfulIn(f, u)
  BY <1>1 DEF FaithfulIn
<1> QED
  BY <1>2 DEF u

LEMMA FaithfulMoves ==
    ASSUME NEW A, NEW b \in Seq(A), NEW t \in Seq(A), t # <<>>, NEW f,
           FaithfulIn(f, b), FaithfulIn(f, t)
    PROVE  FaithfulIn(f, Append(b, Head(t))) /\ FaithfulIn(f, Tail(t))
<1>1. /\ Head(t) \in A /\ Tail(t) \in Seq(A) /\ <<Head(t)>> \in Seq(A)
      /\ 1 \in DOMAIN t /\ Head(t) = t[1]
      /\ \A i \in DOMAIN Tail(t) : i + 1 \in DOMAIN t /\ Tail(t)[i] = t[i + 1]
  OBVIOUS
<1>2. FaithfulIn(f, Tail(t))
  BY <1>1 DEF FaithfulIn
<1> DEFINE h == <<Head(t)>>
<1>3. FaithfulIn(f, h)
  <2>1. h[1] = t[1] /\ DOMAIN h = {1}
    BY <1>1
  <2> HIDE DEF h
  <2> QED
    BY <1>1, <2>1 DEF FaithfulIn
<1>4. Append(b, Head(t)) = b \o h /\ h \in Seq(A)
  BY <1>1, AppendIs
<1> HIDE DEF h
<1>5. FaithfulIn(f, b \o h)
  BY <1>3, <1>4, FaithfulConcat
<1> QED
  BY <1>2, <1>4, <1>5

LEMMA RawInit == Init => RawInv
BY DEF Init, RawInv, FaithfulIn

LEMMA RawStep == ASSUME Inv, RawInv, [Next]_vars PROVE RawInv'
<1>0. /\ errors \in Seq(Issues) /\ errorBatch \in Seq(Issues) /\ todo \in Seq(Issues)
      /\ FaithfulIn(file, errors) /\ FaithfulIn(file, errorBatch) /\ FaithfulIn(file, todo)
      /\ file \in Files /\ rowCount \in Nat /\ StateOK /\ Progress
  <2>1. StateOK /\ Progress
    BY DEF Inv
  <2>2. file \in Files /\ rowCount \in Nat
    BY <2>1, StateFacts
  <2> QED
    BY <2>1, <2>2 DEF StateOK, RawInv
<1>1. FaithfulIn(file, <<>>)
  BY DEF FaithfulIn
<1>2. CASE ReadHeader
  <2> DEFINE h == file.header
             issues == IF h.parse = "absent" THEN <<Issue(NoLine, "missing_header")>>
                       ELSE IF RecordIssues(h, NoLine) # <<>> THEN RecordIssues(h, NoLine)
                       ELSE HeaderIssues(h)
  <2>1. todo' = issues /\ UNCHANGED <<file, errors, errorBatch>>
    BY <1>2 DEF ReadHeader, stored
  <2>2. h \in Headers /\ NoLine \in Nat /\ h = RecordAt(file, NoLine)
    BY <1>0, FileIs DEF NoLine, RecordAt
  <2>3. /\ FaithfulTo(<<Issue(NoLine, "missing_header")>>, NoLine, h)
        /\ FaithfulTo(RecordIssues(h, NoLine), NoLine, h)
        /\ FaithfulTo(HeaderIssues(h), NoLine, h)
    BY <2>2, PlainFaithful, RecordFaithful, HeaderFaithful
  <2>4. FaithfulTo(issues, NoLine, h)
    BY <2>3
  <2> HIDE DEF issues
  <2>5. FaithfulIn(file, issues)
    BY <2>2, <2>4, FaithfulToRecord
  <2> QED
    BY <1>0, <2>1, <2>5 DEF RawInv
<1>3. CASE ReadBadRecord
  <2> DEFINE line   == rowCount + 2
             early  == RecordIssues(NextRow, line)
             issues == IF early # <<>> THEN early ELSE RowIssues(NextRow, file.header, line)
  <2>1. /\ todo' = issues /\ UNCHANGED <<file, errors, errorBatch>>
        /\ pc = "rows" /\ RowsLeft
    BY <1>3 DEF ReadBadRecord, stored
  <2>2. NextRow \in Rows /\ ConformingHeader(file.header)
    BY <1>0, <2>1, NextIsLooked
  <2>3. line \in Nat \ {0} /\ line - 1 = rowCount + 1
    BY <1>0
  <2> HIDE DEF line
  <2>4. NextRow = RecordAt(file, line)
    BY <2>3 DEF NextRow, RecordAt, NoLine
  <2>5. Len(file.header.texts) >= Cardinality(Required)
    BY <1>0, <2>2, CsvValidationAssumption DEF ConformingHeader, Clean, HasColumns
  <2>6. FaithfulTo(early, line, NextRow) /\ FaithfulTo(RowIssues(NextRow, file.header, line), line, NextRow)
    BY <2>2, <2>3, <2>5, RecordFaithful, RowFaithful
  <2>7. FaithfulTo(issues, line, NextRow)
    BY <2>6
  <2> HIDE DEF issues
  <2>8. FaithfulIn(file, issues)
    BY <2>4, <2>7, FaithfulToRecord
  <2> QED
    BY <1>0, <2>1, <2>8 DEF RawInv
<1>4. CASE ReadValidRecord
  BY <1>0, <1>4 DEF ReadValidRecord, RawInv
<1>5. CASE ReadEndlessQuantity
  BY <1>0, <1>5 DEF ReadEndlessQuantity, RawInv, batches, stored
<1>6. CASE EndOfRecords
  <2>1. /\ UNCHANGED <<file, errors, errorBatch>>
        /\ todo' = <<Issue(NoLine, "no_data_rows")>> \/ todo' = <<>>
    BY <1>6 DEF EndOfRecords, stored
  <2>2. FaithfulIn(file, <<Issue(NoLine, "no_data_rows")>>)
    BY PlainFaithful, FaithfulToRecord
  <2> QED
    BY <1>0, <1>1, <2>1, <2>2 DEF RawInv
<1>7. CASE AddIssue
  <2> DEFINE batch == Append(errorBatch, Head(todo))
  <2>1. /\ todo # <<>> /\ file' = file
        /\ todo' = <<>> \/ todo' = Tail(todo)
        /\ errorBatch' = <<>> \/ errorBatch' = batch
        /\ errors' = errors \o batch \/ errors' = errors
    BY <1>7 DEF AddIssue
  <2>2. FaithfulIn(file, batch) /\ FaithfulIn(file, Tail(todo)) /\ batch \in Seq(Issues)
    <3>1. batch \in Seq(Issues)
      BY <1>0, <2>1, AppendIs
    <3> QED
      BY <1>0, <2>1, <3>1, FaithfulMoves
  <2> HIDE DEF batch
  <2>3. FaithfulIn(file, errors \o batch)
    BY <1>0, <2>2, FaithfulConcat
  <2> QED
    BY <1>0, <1>1, <2>1, <2>2, <2>3 DEF RawInv
<1>8. CASE FlushStaging
  BY <1>0, <1>8 DEF FlushStaging, RawInv
<1>9. CASE FlushErrors
  <2>1. /\ UNCHANGED <<file, todo>> /\ errorBatch' = <<>>
        /\ errors' = errors \o errorBatch \/ errors' = errors
    BY <1>9 DEF FlushErrors
  <2>2. FaithfulIn(file, errors \o errorBatch)
    BY <1>0, FaithfulConcat
  <2> QED
    BY <1>0, <1>1, <2>1, <2>2 DEF RawInv
<1>10. CASE Conclude
  BY <1>0, <1>10 DEF Conclude, RawInv, batches
<1>11. CASE MarkProcessingFailed
  <2> DEFINE e == Issue(NoLine, "processing_error")
  <2>1. errors' = Append(errors, e) /\ UNCHANGED <<file, todo, errorBatch>>
    BY <1>11 DEF MarkProcessingFailed, batches
  <2>2. FaithfulIn(file, <<e>>)
    BY PlainFaithful, FaithfulToRecord
  <2>3. e \in Issues
    <3>1. "processing_error" \in Codes /\ NoLine \in Nat
      BY DEF Codes, NoLine
    <3> QED
      BY <3>1, PlainIssue
  <2> DEFINE t == <<e>>
  <2> HIDE DEF e
  <2>4. Append(errors, e) = errors \o t /\ t \in Seq(Issues)
    BY <1>0, <2>3, AppendIs
  <2> HIDE DEF t
  <2>5. FaithfulIn(file, errors \o t)
    BY <1>0, <2>2, <2>4, FaithfulConcat DEF t
  <2> QED
    BY <1>0, <2>1, <2>4, <2>5 DEF RawInv
<1>12. CASE Finished \/ UNCHANGED vars
  BY <1>0, <1>12 DEF Finished, vars, batches, stored, RawInv
<1> QED
  BY <1>2, <1>3, <1>4, <1>5, <1>6, <1>7, <1>8, <1>9, <1>10, <1>11, <1>12 DEF Next

-----------------------------------------------------------------------------
(* The theorems.                                                           *)

\* The invariant the others follow from: the batches and tables together answer
\* for exactly the records read so far (validate_csv_stream,
\* ValidationBatchWriter).
THEOREM ValidationInvariant == Spec => []Inv
<1>1. Inv /\ [Next]_vars => Inv'
  BY NextInv
<1> QED
  BY InitInv, <1>1, PTL DEF Spec

\* The validator's variables keep their types, its batches stay below their
\* size, and nothing that cannot be stored is stored (ValidationBatchWriter).
THEOREM TypeCorrect == Spec => []TypeOK
<1>1. Inv => TypeOK
  <2> SUFFICES ASSUME Inv PROVE TypeOK
    OBVIOUS
  <2>1. StateOK
    BY DEF Inv
  <2> QED
    BY <2>1, StateFacts DEF TypeOK, StateOK
<1> QED
  BY <1>1, ValidationInvariant, PTL

\* Only a conforming file is validated, only another one is failed for its
\* errors, and a processing error has its cause in the file: what the database
\* does not store, or a quantity with more digits than int() takes, in range or
\* not (validate_csv_stream, report_processing.py:186-227).
THEOREM RightVerdict == Spec => []VerdictIsRight
<1>1. Inv => VerdictIsRight
  BY DEF Inv
<1> QED
  BY <1>1, ValidationInvariant, PTL

\* Each record read is answered for exactly once, by a staging row or by its
\* errors, which stay in the order of the file
\* (validate_csv_stream, ValidationBatchWriter).
THEOREM AnsweredOnce == Spec => []EveryRecordAnsweredOnce
<1>1. Inv => EveryRecordAnsweredOnce
  <2> SUFFICES ASSUME Inv, pc \in {"rows", "flush"}
               PROVE  /\ \A i \in 1 .. rowCount :
                           LET rows   == {k \in DOMAIN AllRows : AllRows[k].line = i + 1}
                               issues == {k \in DOMAIN AllIssues : AllIssues[k].line = i + 1}
                           IN  IF ConformingRow(file.rows[i], file.header)
                               THEN Cardinality(rows) = 1 /\ issues = {}
                               ELSE rows = {} /\ issues # {}
                      /\ \A j, k \in DOMAIN AllIssues :
                           j < k => /\ AllIssues[j] # AllIssues[k]
                                    /\ AllIssues[j].line <= AllIssues[k].line
    BY DEF EveryRecordAnsweredOnce
  <2>1. Answered(file, rowCount, AllRows, AllIssues)
    BY DEF Inv, Progress
  <2>2. AllRows \in Seq(RowEntries)
    BY StateFacts DEF Inv
  <2>3. ASSUME NEW i \in 1 .. rowCount
        PROVE  LET rows   == {k \in DOMAIN AllRows : AllRows[k].line = i + 1}
                   issues == {k \in DOMAIN AllIssues : AllIssues[k].line = i + 1}
               IN  IF ConformingRow(file.rows[i], file.header)
                   THEN Cardinality(rows) = 1 /\ issues = {}
                   ELSE rows = {} /\ issues # {}
    <3> DEFINE rows   == {k \in DOMAIN AllRows : AllRows[k].line = i + 1}
               issues == {k \in DOMAIN AllIssues : AllIssues[k].line = i + 1}
    <3>1. IF ConformingRow(file.rows[i], file.header)
          THEN i + 1 \in LinesOf(AllRows) /\ i + 1 \notin LinesOf(AllIssues)
          ELSE i + 1 \notin LinesOf(AllRows) /\ i + 1 \in LinesOf(AllIssues)
      BY <2>1 DEF Answered
    <3>2. (i + 1 \in LinesOf(AllRows) <=> rows # {}) /\ (i + 1 \in LinesOf(AllIssues) <=> issues # {})
      BY DEF LinesOf
    <3>3. ASSUME rows # {}
          PROVE  Cardinality(rows) = 1
      <4>1. PICK k \in DOMAIN AllRows : AllRows[k].line = i + 1
        BY <3>3
      <4>2. ASSUME NEW j \in rows
            PROVE  j = k
        <5>1. j \in DOMAIN AllRows /\ AllRows[j].line = AllRows[k].line
          BY <4>1
        <5>2. ~(j < k) /\ ~(k < j)
          BY <2>1, <4>1, <5>1 DEF Answered
        <5>3. j \in Nat /\ k \in Nat
          BY <2>2, <5>1
        <5> QED
          BY <5>2, <5>3
      <4>3. rows = {k}
        BY <4>1, <4>2
      <4> HIDE DEF rows
      <4> QED
        BY <4>3, FS_Singleton
    <3> HIDE DEF rows, issues
    <3>4. IF ConformingRow(file.rows[i], file.header)
          THEN Cardinality(rows) = 1 /\ issues = {}
          ELSE rows = {} /\ issues # {}
      BY <3>1, <3>2, <3>3
    <3> QED
      BY <3>4 DEF rows, issues
  <2>4. \A j, k \in DOMAIN AllIssues :
           j < k => AllIssues[j] # AllIssues[k] /\ AllIssues[j].line <= AllIssues[k].line
    BY <2>1 DEF Answered
  <2> QED
    BY <2>3, <2>4
<1> QED
  BY <1>1, ValidationInvariant, PTL

\* The raw_data of every issue is bounded and says honestly what is missing, for
\* every limit, every length of the texts and of the marker, and wherever the
\* issue is on its way to the table (_bounded_raw_data, _bounded_raw_text).
THEOREM RawDataIsBounded == Spec => []RawDataBounded
<1>1. Inv /\ RawInv /\ [Next]_vars => RawInv'
  BY RawStep
<1>2. Inv /\ RawInv => RawDataBounded
  <2> SUFFICES ASSUME Inv, RawInv PROVE RawDataBounded
    OBVIOUS
  <2>1. /\ errors \in Seq(Issues) /\ errorBatch \in Seq(Issues) /\ todo \in Seq(Issues)
        /\ errors \o errorBatch \in Seq(Issues)
    BY StateFacts DEF Inv, StateOK
  <2>2. FaithfulIn(file, errors \o errorBatch)
    BY <2>1, FaithfulConcat DEF RawInv
  <2> DEFINE eb == errors \o errorBatch
  <2>3. eb \in Seq(Issues) /\ FaithfulIn(file, eb) /\ AllIssues = eb \o todo
    BY <2>1, <2>2 DEF AllIssues
  <2> HIDE DEF eb
  <2>4. FaithfulIn(file, AllIssues)
    BY <2>1, <2>3, FaithfulConcat DEF RawInv
  <2> QED
    BY <2>4 DEF FaithfulIn, RawDataBounded
<1> QED
  BY <1>1, <1>2, RawInit, ValidationInvariant, PTL DEF Spec
==============================================================================
