--------------------------- MODULE CsvRecordsProofs ---------------------------
(***************************************************************************)
(* Theorems about CsvRecords and the ChunkStream below it, for all files,  *)
(* chunks, buffers, pieces and limits: the stream delivers the file, the   *)
(* records are those of the text wherever the pieces are cut, and parsing  *)
(* them one by one gives what one reader over the whole text gives.        *)
(***************************************************************************)
EXTENDS CsvRecords, FiniteSetTheorems, FunctionTheorems, SequenceTheorems,
        WellFoundedInduction, TLAPS

Modes == {"start", "plain", "quoted", "closing"}

-----------------------------------------------------------------------------
(* Induction on the positions of a text, for a set of them.                *)

LEMMA UpTo ==
    ASSUME NEW n \in Nat, NEW S, 0 \in S, \A i \in 0 .. n : i < n /\ i \in S => i + 1 \in S
    PROVE  \A i \in 0 .. n : i \in S
<1> DEFINE out == {i \in 0 .. n : i \notin S}
<1> SUFFICES ASSUME out # {} PROVE FALSE
  OBVIOUS
<1>1. out \subseteq Nat
  OBVIOUS
<1> HIDE DEF out
<1>2. PICK k \in out : \A m \in out : <<m, k>> \notin OpToRel(<, Nat)
  BY <1>1, NatLessThanWellFounded, WFMin, Zenon
<1>3. \A m \in out : ~(m < k)
  BY <1>1, <1>2 DEF OpToRel
<1>4. k \in 0 .. n /\ k \notin S
  BY DEF out
<1>5. k # 0 /\ k - 1 \in 0 .. n /\ k - 1 < n /\ k - 1 < k /\ (k - 1) + 1 = k
  BY <1>4
<1>6. k - 1 \in S
  BY <1>3, <1>5 DEF out
<1> QED
  BY <1>4, <1>5, <1>6

-----------------------------------------------------------------------------
(* The modes of a text.                                                    *)

IsModes(f, t, n) ==
    f = [i \in 0 .. n |-> IF i = 0 THEN "start" ELSE NextMode(f[i - 1], t[i])]

LEMMA ModeIs ==
    ASSUME NEW t \in Seq(Characters)
    PROVE  /\ Mode(t)[0] = "start"
           /\ \A i \in 1 .. Len(t) : Mode(t)[i] = NextMode(Mode(t)[i - 1], t[i])
           /\ \A i \in 0 .. Len(t) : Mode(t)[i] \in Modes
<1>0. Len(t) \in Nat
  OBVIOUS
<1> DEFINE N == {n \in Nat : \E f : IsModes(f, t, n)}
<1>1. 0 \in N
  <2>1. IsModes([i \in 0 .. 0 |-> "start"], t, 0)
    BY DEF IsModes
  <2> QED
    BY <2>1
<1>2. ASSUME NEW n \in Nat, n \in N
      PROVE  n + 1 \in N
  <2>1. PICK f : IsModes(f, t, n)
    BY <1>2
  <2> DEFINE g == [i \in 0 .. n + 1 |-> IF i = n + 1 THEN NextMode(f[n], t[n + 1]) ELSE f[i]]
             h == [i \in 0 .. n + 1 |-> IF i = 0 THEN "start" ELSE NextMode(g[i - 1], t[i])]
  <2>2. ASSUME NEW i \in 0 .. n + 1
        PROVE  g[i] = h[i]
    <3>1. CASE i = n + 1
      <4>1. i # 0 /\ i - 1 = n /\ i - 1 \in 0 .. n + 1 /\ i - 1 # n + 1
        BY <3>1
      <4> QED
        BY <3>1, <4>1
    <3>2. CASE i = 0
      BY <2>1, <3>2 DEF IsModes
    <3>3. CASE i # 0 /\ i # n + 1
      <4>1. i \in 0 .. n /\ i - 1 \in 0 .. n + 1 /\ i - 1 # n + 1
        BY <3>3
      <4>2. g[i] = f[i] /\ g[i - 1] = f[i - 1]
        BY <3>3, <4>1
      <4>3. f[i] = NextMode(f[i - 1], t[i])
        BY <2>1, <3>3, <4>1 DEF IsModes
      <4> QED
        BY <3>3, <4>2, <4>3
    <3> QED
      BY <3>1, <3>2, <3>3
  <2>3. g = h
    BY <2>2
  <2>4. IsModes(g, t, n + 1)
    BY <2>3 DEF IsModes
  <2> QED
    BY <2>4
<1>3. \A i \in 0 .. Len(t) : i \in N
  <2> HIDE DEF N
  <2> QED
    BY <1>0, <1>1, <1>2, UpTo
<1>4. PICK f : f = Mode(t)
  OBVIOUS
<1>5. IsModes(f, t, Len(t))
  <2>1. f = CHOOSE g : IsModes(g, t, Len(t))
    BY <1>4, Zenon DEF Mode, IsModes
  <2>2. \E g : IsModes(g, t, Len(t))
    BY <1>0, <1>3
  <2> QED
    BY <2>1, <2>2
<1>6. f[0] = "start" /\ \A i \in 1 .. Len(t) : f[i] = NextMode(f[i - 1], t[i])
  BY <1>0, <1>5 DEF IsModes
<1>7. \A i \in 0 .. Len(t) : f[i] \in Modes
  <2>1. f[0] \in Modes
    BY <1>6 DEF Modes
  <2>2. ASSUME NEW i \in 1 .. Len(t)
        PROVE  f[i] \in Modes
    <3>1. f[i] = NextMode(f[i - 1], t[i])
      BY <1>6
    <3>2. \A m, c : NextMode(m, c) \in Modes
      BY DEF NextMode, Modes
    <3> QED
      BY <3>1, <3>2
  <2> QED
    BY <1>0, <2>1, <2>2
<1> QED
  BY <1>4, <1>6, <1>7

-----------------------------------------------------------------------------
(* The text of a sequence of chunks.                                       *)

IsFlat(f, s) == f = [i \in 1 .. Len(s) |-> IF i = 1 THEN s[i] ELSE f[i - 1] \o s[i]]

\* The text of the first n chunks, as a function of n.
LEMMA FlatIs ==
    ASSUME NEW A, NEW s \in Seq(Seq(A))
    PROVE  /\ FlattenSeq(SubSeq(s, 1, 0)) = <<>>
           /\ \A n \in 1 .. Len(s) :
                FlattenSeq(SubSeq(s, 1, n)) = FlattenSeq(SubSeq(s, 1, n - 1)) \o s[n]
           /\ \A n \in 0 .. Len(s) : FlattenSeq(SubSeq(s, 1, n)) \in Seq(A)
<1>0. Len(s) \in Nat /\ \A i \in 1 .. Len(s) : s[i] \in Seq(A)
  OBVIOUS
<1> DEFINE sub(n) == SubSeq(s, 1, n)
<1>1. \A n \in 0 .. Len(s) : Len(sub(n)) = n /\ \A i \in 1 .. n : sub(n)[i] = s[i]
  BY <1>0
<1>2. FlattenSeq(sub(0)) = <<>>
  <2>1. sub(0) = <<>> /\ Len(<<>>) = 0
    OBVIOUS
  <2> QED
    BY <2>1 DEF FlattenSeq
<1> HIDE DEF sub
<1> DEFINE N == {n \in 0 .. Len(s) : \E f : IsFlat(f, sub(n))}
<1>3. 0 \in N
  <2>1. IsFlat([i \in 1 .. Len(sub(0)) |-> <<>>], sub(0))
    <3>1. Len(sub(0)) = 0 /\ 1 .. 0 = {}
      BY <1>0, <1>1
    <3> QED
      BY <3>1 DEF IsFlat
  <2> QED
    BY <1>0, <2>1
\* A text of n chunks gives one of n + 1.
<1>4. ASSUME NEW n \in 0 .. Len(s), n < Len(s), NEW f, IsFlat(f, sub(n))
      PROVE  IsFlat([i \in 1 .. n + 1 |-> IF i = n + 1 THEN IF n = 0 THEN s[1] ELSE f[n] \o s[n + 1]
                                          ELSE f[i]], sub(n + 1))
  <2> DEFINE g == [i \in 1 .. n + 1 |-> IF i = n + 1 THEN IF n = 0 THEN s[1] ELSE f[n] \o s[n + 1]
                                        ELSE f[i]]
             h == [i \in 1 .. n + 1 |-> IF i = 1 THEN sub(n + 1)[i] ELSE g[i - 1] \o sub(n + 1)[i]]
  <2>1. n \in Nat /\ n + 1 \in 0 .. Len(s)
    BY <1>0, <1>4
  <2>2. ASSUME NEW i \in 1 .. n + 1
        PROVE  g[i] = h[i]
    <3>0. sub(n + 1)[i] = s[i]
      BY <1>1, <2>1
    <3>1. CASE i = n + 1 /\ n = 0
      BY <3>0, <3>1
    <3>2. CASE i = n + 1 /\ n # 0
      <4>1. i # 1 /\ i - 1 = n /\ i - 1 \in 1 .. n + 1 /\ i - 1 # n + 1
        BY <2>1, <3>2
      <4> QED
        BY <3>0, <3>2, <4>1
    <3>3. CASE i # n + 1
      <4>1. i \in 1 .. n /\ (i # 1 => i - 1 \in 1 .. n + 1 /\ i - 1 # n + 1)
        BY <2>1, <3>3
      <4>2. sub(n)[i] = s[i]
        BY <1>1, <4>1
      <4>3. f[i] = IF i = 1 THEN s[i] ELSE f[i - 1] \o s[i]
        BY <1>1, <1>4, <4>1, <4>2 DEF IsFlat
      <4> QED
        BY <3>0, <3>3, <4>1, <4>3
    <3> QED
      BY <3>1, <3>2, <3>3
  <2>3. g = h
    BY <2>2
  <2>4. Len(sub(n + 1)) = n + 1
    BY <1>1, <2>1
  <2> QED
    BY <2>3, <2>4 DEF IsFlat
<1>5. ASSUME NEW n \in 0 .. Len(s), n < Len(s), n \in N
      PROVE  n + 1 \in N
  <2>1. PICK f : IsFlat(f, sub(n))
    BY <1>5
  <2>2. n + 1 \in 0 .. Len(s)
    BY <1>0, <1>5
  <2>3. \E g : IsFlat(g, sub(n + 1))
    BY <1>4, <1>5, <2>1
  <2> QED
    BY <2>2, <2>3
<1>6. \A n \in 0 .. Len(s) : \E f : IsFlat(f, sub(n))
  <2>1. \A n \in 0 .. Len(s) : n \in N
    <3> HIDE DEF N
    <3> QED
      BY <1>0, <1>3, <1>5, UpTo
  <2> QED
    BY <2>1
\* Two functions that are texts of chunks agree.
<1>7. ASSUME NEW n \in 1 .. Len(s), NEW m \in 1 .. Len(s), n <= m,
             NEW f, IsFlat(f, sub(n)), NEW g, IsFlat(g, sub(m))
      PROVE  f[n] = g[n]
  <2> DEFINE S == {i \in 0 .. n : i = 0 \/ f[i] = g[i]}
  <2>0. n \in Nat /\ m \in Nat
    BY <1>0
  <2>1. 0 \in S
    BY <2>0
  <2>2. ASSUME NEW i \in 0 .. n, i < n, i \in S
        PROVE  i + 1 \in S
    <3>1. i + 1 \in 1 .. n /\ i + 1 \in 1 .. m /\ (i + 1) - 1 = i
          /\ n \in 0 .. Len(s) /\ m \in 0 .. Len(s)
      BY <1>0, <1>7, <2>0, <2>2
    <3>2. sub(n)[i + 1] = s[i + 1] /\ sub(m)[i + 1] = s[i + 1] /\ Len(sub(n)) = n /\ Len(sub(m)) = m
      BY <1>1, <3>1
    <3>3. /\ f[i + 1] = IF i + 1 = 1 THEN s[i + 1] ELSE f[i] \o s[i + 1]
          /\ g[i + 1] = IF i + 1 = 1 THEN s[i + 1] ELSE g[i] \o s[i + 1]
      BY <1>7, <3>1, <3>2 DEF IsFlat
    <3>4. i = 0 => i + 1 = 1
      OBVIOUS
    <3>5. f[i + 1] = g[i + 1]
      BY <2>2, <3>3, <3>4
    <3> QED
      BY <3>1, <3>5
  <2>3. \A i \in 0 .. n : i \in S
    <3> HIDE DEF S
    <3> QED
      BY <2>0, <2>1, <2>2, UpTo
  <2> QED
    BY <2>0, <2>3
<1>8. ASSUME NEW n \in 1 .. Len(s)
      PROVE  \E f : IsFlat(f, sub(n)) /\ FlattenSeq(sub(n)) = f[n]
  <2>1. PICK f : f = CHOOSE g : IsFlat(g, sub(n))
    OBVIOUS
  <2>2. IsFlat(f, sub(n))
    BY <1>0, <1>6, <2>1
  <2>3. Len(sub(n)) = n /\ n # 0
    BY <1>0, <1>1
  <2>4. FlattenSeq(sub(n)) = f[Len(sub(n))]
    BY <2>1, <2>3, Zenon DEF FlattenSeq, IsFlat
  <2> QED
    BY <2>2, <2>3, <2>4
<1>9. ASSUME NEW n \in 1 .. Len(s)
      PROVE  FlattenSeq(sub(n)) = FlattenSeq(sub(n - 1)) \o s[n]
  <2>1. PICK f : IsFlat(f, sub(n)) /\ FlattenSeq(sub(n)) = f[n]
    BY <1>8
  <2>2. n \in 0 .. Len(s) /\ n \in Nat /\ n \in 1 .. n
    BY <1>0
  <2>3. f[n] = IF n = 1 THEN s[n] ELSE f[n - 1] \o s[n]
    BY <1>1, <2>1, <2>2 DEF IsFlat
  <2>4. CASE n = 1
    <3>1. <<>> \o s[n] = s[n]
      BY <1>0
    <3> QED
      BY <1>2, <2>1, <2>3, <2>4, <3>1
  <2>5. CASE n # 1
    <3>1. n - 1 \in 1 .. Len(s) /\ n - 1 <= n
      BY <1>0, <2>5
    <3>2. PICK g : IsFlat(g, sub(n - 1)) /\ FlattenSeq(sub(n - 1)) = g[n - 1]
      BY <1>8, <3>1
    <3>3. g[n - 1] = f[n - 1]
      <4> DEFINE k == n - 1
      <4>1. k \in 1 .. Len(s) /\ k <= n /\ IsFlat(g, sub(k)) /\ IsFlat(f, sub(n))
        BY <2>1, <3>1, <3>2
      <4> HIDE DEF k
      <4>2. g[k] = f[k]
        BY <1>7, <4>1
      <4> QED
        BY <4>2 DEF k
    <3> QED
      BY <2>1, <2>3, <2>5, <3>2, <3>3
  <2> QED
    BY <2>4, <2>5
<1>10. \A n \in 0 .. Len(s) : FlattenSeq(sub(n)) \in Seq(A)
  <2> DEFINE S == {n \in 0 .. Len(s) : FlattenSeq(sub(n)) \in Seq(A)}
  <2>1. 0 \in S
    <3>1. <<>> \in Seq(A) /\ 0 \in 0 .. Len(s)
      BY <1>0
    <3> QED
      BY <1>2, <3>1
  <2>2. ASSUME NEW n \in 0 .. Len(s), n < Len(s), n \in S
        PROVE  n + 1 \in S
    <3>1. n + 1 \in 1 .. Len(s) /\ n + 1 \in 0 .. Len(s) /\ (n + 1) - 1 = n
      BY <1>0, <2>2
    <3>2. FlattenSeq(sub(n + 1)) = FlattenSeq(sub(n)) \o s[n + 1]
      BY <1>9, <3>1
    <3>3. s[n + 1] \in Seq(A) /\ FlattenSeq(sub(n)) \in Seq(A)
      BY <1>0, <2>2, <3>1
    <3>4. FlattenSeq(sub(n)) \o s[n + 1] \in Seq(A)
      BY <3>3, ConcatProperties
    <3> QED
      BY <3>1, <3>2, <3>4
  <2>3. \A n \in 0 .. Len(s) : n \in S
    <3> HIDE DEF S
    <3> QED
      BY <1>0, <2>1, <2>2, UpTo
  <2> QED
    BY <2>3
<1> QED
  BY <1>2, <1>9, <1>10 DEF sub

FlatPrefix(s, n) == FlattenSeq(SubSeq(s, 1, n))

\* The text of the first chunks begins the whole text.
LEMMA FlatBegins ==
    ASSUME NEW A, NEW s \in Seq(Seq(A)), NEW n \in 0 .. Len(s)
    PROVE  /\ FlatPrefix(s, n) \in Seq(A) /\ FlattenSeq(s) \in Seq(A)
           /\ FlattenSeq(s) = FlatPrefix(s, Len(s))
           /\ Len(FlatPrefix(s, n)) <= Len(FlattenSeq(s))
           /\ \A i \in 1 .. Len(FlatPrefix(s, n)) : FlattenSeq(s)[i] = FlatPrefix(s, n)[i]
<1>0. Len(s) \in Nat /\ n \in Nat /\ n <= Len(s)
  OBVIOUS
<1>1. FlattenSeq(s) = FlatPrefix(s, Len(s))
  BY SubSeqFull DEF FlatPrefix
<1>2. \A k \in 0 .. Len(s) : FlatPrefix(s, k) \in Seq(A)
  BY FlatIs DEF FlatPrefix
<1>3. \A k \in 1 .. Len(s) : FlatPrefix(s, k) = FlatPrefix(s, k - 1) \o s[k]
  BY FlatIs DEF FlatPrefix
<1> DEFINE u == FlatPrefix(s, n)
           begun(k) == LET v == FlatPrefix(s, n + k) IN
                       Len(u) <= Len(v) /\ \A i \in 1 .. Len(u) : v[i] = u[i]
           S == {k \in 0 .. Len(s) - n : begun(k)}
<1>4. 0 \in S
  <2>1. Len(u) <= Len(u)
    BY <1>2
  <2> QED
    BY <1>0, <2>1
<1>5. ASSUME NEW k \in 0 .. Len(s) - n, k < Len(s) - n, k \in S
      PROVE  k + 1 \in S
  <2>1. /\ n + k \in 0 .. Len(s) /\ n + (k + 1) \in 1 .. Len(s) /\ (n + (k + 1)) - 1 = n + k
        /\ k + 1 \in 0 .. Len(s) - n
    BY <1>0, <1>5
  <2> DEFINE v == FlatPrefix(s, n + k)
             w == FlatPrefix(s, n + (k + 1))
             c == s[n + (k + 1)]
  <2>2. w = v \o c /\ v \in Seq(A) /\ c \in Seq(A)
    <3>1. w = FlatPrefix(s, (n + (k + 1)) - 1) \o c
      BY <1>3, <2>1
    <3>2. v \in Seq(A)
      BY <1>2, <2>1
    <3>3. c \in Seq(A)
      BY <2>1
    <3> QED
      BY <2>1, <3>1, <3>2, <3>3
  <2>3. Len(u) <= Len(v) /\ \A i \in 1 .. Len(u) : v[i] = u[i]
    BY <1>5
  <2>4. u \in Seq(A)
    BY <1>2
  <2> HIDE DEF u, v, w, c
  <2>5. Len(u) <= Len(w) /\ \A i \in 1 .. Len(u) : w[i] = u[i]
    BY <2>2, <2>3, <2>4
  <2> QED
    BY <2>1, <2>5 DEF w
<1>6. \A k \in 0 .. Len(s) - n : k \in S
  <2>1. Len(s) - n \in Nat
    BY <1>0
  <2> HIDE DEF S
  <2> QED
    BY <1>4, <1>5, <2>1, UpTo
<1>7. begun(Len(s) - n)
  <2>1. Len(s) - n \in 0 .. Len(s) - n
    BY <1>0
  <2> QED
    BY <1>6, <2>1
<1>8. n + (Len(s) - n) = Len(s) /\ Len(s) \in 0 .. Len(s)
  BY <1>0
<1> QED
  BY <1>1, <1>2, <1>7, <1>8

-----------------------------------------------------------------------------
(* The elements of a finite set of positions in their order.               *)

Rank(S, b) == Cardinality({m \in S : m <= b})

LEMMA RankIs ==
    ASSUME NEW S, S \subseteq Nat, IsFiniteSet(S)
    PROVE  /\ Cardinality(S) \in Nat
           /\ \A b \in S : Rank(S, b) \in 1 .. Cardinality(S)
           /\ \A a, b \in S : a < b => Rank(S, a) < Rank(S, b)
<1> DEFINE upTo(b) == {m \in S : m <= b}
<1>1. \A b : IsFiniteSet(upTo(b)) /\ Cardinality(upTo(b)) <= Cardinality(S)
             /\ Cardinality(upTo(b)) \in Nat
  BY FS_Subset, FS_CardinalityType
<1>2. ASSUME NEW b \in S
      PROVE  Cardinality(upTo(b)) # 0
  <2>1. b \in upTo(b)
    OBVIOUS
  <2> HIDE DEF upTo
  <2> QED
    BY <1>1, <2>1, FS_EmptySet
<1>3. ASSUME NEW a \in S, NEW b \in S, a < b
      PROVE  Cardinality(upTo(a)) < Cardinality(upTo(b))
  <2>1. a \in Nat /\ b \in Nat
    OBVIOUS
  <2>2. upTo(a) \subseteq upTo(b) /\ b \in upTo(b) /\ b \notin upTo(a)
    <3>1. \A m \in S : m <= a => m <= b
      BY <1>3, <2>1
    <3>2. b <= b /\ ~(b <= a)
      BY <1>3, <2>1
    <3> QED
      BY <3>1, <3>2
  <2> HIDE DEF upTo
  <2>3. Cardinality(upTo(a)) <= Cardinality(upTo(b)) /\ Cardinality(upTo(a)) # Cardinality(upTo(b))
    BY <1>1, <2>2, FS_Subset
  <2> QED
    BY <1>1, <2>3
<1>4. Cardinality(S) \in Nat
  BY FS_CardinalityType
<1> HIDE DEF upTo
<1>5. \A b \in S : Cardinality(upTo(b)) \in 1 .. Cardinality(S)
  BY <1>1, <1>2, <1>4
<1> QED
  BY <1>3, <1>4, <1>5 DEF upTo, Rank

LEMMA NthIs ==
    ASSUME NEW S, S \subseteq Nat, IsFiniteSet(S), NEW k \in 1 .. Cardinality(S)
    PROVE  Nth(S, k) \in S /\ Rank(S, Nth(S, k)) = k
<1> DEFINE f == [b \in S |-> Rank(S, b)]
           N == 1 .. Cardinality(S)
<1>1. f \in Injection(S, N)
  <2>1. f \in [S -> N]
    BY RankIs
  <2>2. ASSUME NEW a \in S, NEW b \in S, a # b
        PROVE  f[a] # f[b]
    <3>1. a < b \/ b < a
      BY <2>2
    <3>2. \A c \in S : Rank(S, c) \in Nat
      <4>1. \A m \in 1 .. Cardinality(S) : m \in Nat
        BY FS_CardinalityType
      <4> QED
        BY <4>1, RankIs
    <3>3. Rank(S, a) < Rank(S, b) \/ Rank(S, b) < Rank(S, a)
      BY <3>1, RankIs
    <3> QED
      BY <3>2, <3>3
  <2> HIDE DEF f
  <2> QED
    BY <2>1, <2>2 DEF Injection, IsInjective
<1>2. Cardinality(S) \in Nat /\ IsFiniteSet(N) /\ Cardinality(N) = Cardinality(S)
  <2>1. Cardinality(S) \in Nat
    BY FS_CardinalityType
  <2> QED
    BY <2>1, FS_Interval
<1>3. f \in Surjection(S, N)
  BY <1>1, <1>2, FS_Injection
<1>4. PICK b \in S : f[b] = k
  BY <1>3 DEF Surjection
<1>5. Cardinality({m \in S : m <= b}) = k
  BY <1>4 DEF Rank
<1> QED
  BY <1>5 DEF Nth, Rank

-----------------------------------------------------------------------------
(* The stream                                                              *)

Bytes == Seq(Characters)

LEMMA BytesAssociate ==
    ASSUME NEW a \in Bytes, NEW b \in Bytes, NEW c \in Bytes
    PROVE  (a \o b) \o c = a \o (b \o c)
<1>1. \A A : \A x, y, z \in Seq(A) : (x \o y) \o z = x \o (y \o z)
  BY ConcatAssociative
<1> QED
  BY <1>1 DEF Bytes

\* How many chunks have been taken.
Taken == Len(object) - Len(chunks)

StreamTypes ==
    /\ object \in Objects
    /\ chunks \in Seq(Bytes)
    /\ current \in Bytes /\ target \in Bytes /\ delivered \in Bytes
    /\ wanted \in BufferSizes \cup {0}
    /\ lost \in BOOLEAN
    /\ late \in Nat
    /\ pc \in {"reader", "filling", "taking", "returning", "end of file", "aborted"}
    /\ size \in ReadChars
    /\ pos \in Nat
    /\ phase \in {"reading", "scanning", "done"}

\* The bytes of the chunks taken are with the reader, in its buffer, or left
\* of the last chunk, in this order; the other chunks are still to come.
Flow ==
    /\ Len(chunks) <= Len(object)
    /\ \A i \in 1 .. Len(chunks) : chunks[i] = object[Taken + i]
    /\ (delivered \o target) \o current = FlatPrefix(object, Taken)

Lateness ==
    /\ late <= 1 /\ late <= Taken
    /\ ~lost \/ pc = "taking" => late = 0

Calling ==
    /\ Len(target) <= wanted
    /\ pc \in {"filling", "taking", "returning"} => wanted \in BufferSizes
    /\ pc \in {"reader", "end of file"} => target = <<>>
    /\ pc = "taking" => current = <<>>
    /\ pc \in {"filling", "taking", "returning", "aborted"} => phase = "reading" /\ ~Enough

Ending ==
    /\ pc \in {"returning", "end of file"} => chunks = <<>> /\ current = <<>>
    /\ pc = "end of file" => delivered = text
    /\ phase = "done" => pc = "end of file"

StreamInv == StreamTypes /\ Flow /\ Lateness /\ Calling /\ Ending

LEMMA ObjectIs ==
    ASSUME StreamTypes
    PROVE  /\ object \in Seq(Bytes) /\ Len(object) \in Nat /\ Len(chunks) \in Nat
           /\ wanted \in Nat /\ size \in Nat /\ size # 0
           /\ (wanted \in BufferSizes => wanted # 0)
           /\ Len(target) \in Nat /\ Len(current) \in Nat /\ Len(delivered) \in Nat
<1>1. object \in Seq(Bytes)
  BY CsvRecordsAssumption DEF StreamTypes, Bytes
<1>2. wanted \in Nat /\ (wanted \in BufferSizes => wanted # 0)
  <2>1. wanted \in BufferSizes \cup {0}
    BY DEF StreamTypes
  <2> QED
    BY <2>1, ChunkStreamAssumption
<1>3. size \in Nat /\ size # 0
  BY CsvRecordsAssumption DEF StreamTypes
<1> HIDE DEF Bytes
<1> QED
  BY <1>1, <1>2, <1>3, LenProperties DEF StreamTypes, Bytes

LEMMA StreamStarts ==
    Init => StreamInv
<1> SUFFICES ASSUME Init PROVE StreamInv
  OBVIOUS
<1>1. object \in Objects /\ object \in Seq(Bytes) /\ Len(object) \in Nat
  BY CsvRecordsAssumption DEF Init, StreamInit, Bytes
<1>2. <<>> \in Bytes /\ Len(<<>>) = 0 /\ (<<>> \o <<>>) \o <<>> = <<>>
  BY DEF Bytes
<1>3. StreamTypes
  BY <1>1, <1>2 DEF StreamTypes, Init, StreamInit
<1>4. Taken = 0
  BY <1>1 DEF Taken, Init, StreamInit
<1>5. FlatPrefix(object, 0) = <<>>
  BY <1>1, FlatIs DEF FlatPrefix, Bytes
<1>6. Flow
  <2>1. chunks = object /\ \A i \in 1 .. Len(chunks) : 0 + i = i
    BY DEF Init, StreamInit
  <2> QED
    BY <1>1, <1>2, <1>4, <1>5, <2>1 DEF Flow, Init, StreamInit
<1>7. Lateness
  BY <1>4 DEF Lateness, Init, StreamInit
<1>8. Calling /\ Ending
  BY <1>2 DEF Calling, Ending, Init, StreamInit
<1> QED
  BY <1>3, <1>6, <1>7, <1>8 DEF StreamInv

\* The chunks taken, when all of them are.
LEMMA TakenAll ==
    ASSUME StreamInv, chunks = <<>>
    PROVE  FlatPrefix(object, Taken) = text
<1>1. object \in Seq(Bytes) /\ Len(object) \in Nat
  BY ObjectIs DEF StreamInv
<1>2. Taken = Len(object)
  BY <1>1 DEF Taken
<1> QED
  BY <1>1, <1>2, FlatBegins DEF text, Bytes

-----------------------------------------------------------------------------
(* The steps of the stream                                                 *)

LEMMA CopySteps ==
    ASSUME StreamInv, CopyAvailable, UNCHANGED splitter
    PROVE  StreamInv'
<1>0. /\ Len(target) \in Nat /\ Len(current) \in Nat /\ wanted \in Nat
      /\ target \in Bytes /\ current \in Bytes /\ delivered \in Bytes
      /\ Len(target) <= wanted
  BY ObjectIs DEF StreamInv, StreamTypes, Calling
<1> DEFINE n == Min({Missing, Len(current)})
<1>1. n \in 1 .. Len(current) /\ n <= Missing /\ Missing = wanted - Len(target)
  <2>1. Missing \in Nat /\ Missing > 0
    BY <1>0 DEF CopyAvailable, Missing
  <2>2. Len(current) > 0
    BY <1>0 DEF CopyAvailable, Bytes
  <2>3. n \in {Missing, Len(current)} /\ n <= Missing /\ n <= Len(current)
    <3> DEFINE m == Missing
               l == Len(current)
    <3>1. m \in Nat /\ l \in Nat
      BY <1>0, <2>1
    <3> HIDE DEF m, l
    <3>2. \E x \in {m, l} : \A y \in {m, l} : x <= y
      BY <3>1
    <3>3. Min({m, l}) \in {m, l} /\ \A y \in {m, l} : Min({m, l}) <= y
      BY <3>2, Zenon DEF Min
    <3> QED
      BY <3>3 DEF m, l
  <2> HIDE DEF n
  <2> QED
    BY <1>0, <2>1, <2>2, <2>3 DEF Missing
<1> DEFINE a == SubSeq(current, 1, n)
           b == SubSeq(current, n + 1, Len(current))
<1>2. target' = target \o a /\ current' = b
  BY DEF CopyAvailable
<1> HIDE DEF n
<1>3. a \in Bytes /\ b \in Bytes /\ Len(a) = n /\ a \o b = current
  <2>1. a \in Bytes /\ b \in Bytes /\ Len(a) = n
    BY <1>0, <1>1 DEF Bytes
  <2>2. a \o b = SubSeq(current, 1, Len(current))
    BY <1>0, <1>1, ConcatAdjacentSubSeq DEF Bytes
  <2>3. SubSeq(current, 1, Len(current)) = current
    BY <1>0, SubSeqFull DEF Bytes
  <2> QED
    BY <2>1, <2>2, <2>3
<1> HIDE DEF a, b
<1>4. target \o a \in Bytes /\ Len(target \o a) = Len(target) + n
  BY <1>0, <1>3, ConcatProperties DEF Bytes
<1>5. UNCHANGED <<object, chunks, wanted, delivered, lost, late, pc, size, pos, phase>>
  BY DEF CopyAvailable, splitter, position
<1>6. StreamTypes'
  BY <1>2, <1>3, <1>4, <1>5 DEF StreamInv, StreamTypes
<1>7. Taken' = Taken
  BY <1>5 DEF Taken
<1>8. Flow'
  <2>1. (delivered \o (target \o a)) \o b = (delivered \o target) \o (a \o b)
    <3>1. delivered \o (target \o a) = (delivered \o target) \o a
      BY <1>0, <1>3, BytesAssociate, ZenonT(30)
    <3>2. delivered \o target \in Bytes
      BY <1>0, ConcatProperties DEF Bytes
    <3>3. ((delivered \o target) \o a) \o b = (delivered \o target) \o (a \o b)
      BY <1>3, <3>2, BytesAssociate
    <3> QED
      BY <3>1, <3>3
  <2> QED
    BY <1>2, <1>3, <1>5, <1>7, <2>1 DEF StreamInv, Flow
<1>9. Lateness'
  BY <1>5, <1>7 DEF StreamInv, Lateness
<1>10. Calling'
  <2>1. Len(target') <= wanted
    BY <1>0, <1>1, <1>2, <1>4
  <2>2. pc = "filling"
    BY DEF CopyAvailable
  <2> QED
    BY <1>5, <2>1, <2>2 DEF StreamInv, Calling, Enough
<1>11. Ending'
  BY <1>5 DEF StreamInv, Ending, CopyAvailable, Calling
<1> QED
  BY <1>6, <1>8, <1>9, <1>10, <1>11 DEF StreamInv

LEMMA TakeSteps ==
    ASSUME StreamInv, TakeChunk, UNCHANGED splitter
    PROVE  StreamInv'
<1>0. /\ object \in Seq(Bytes) /\ Len(object) \in Nat /\ Len(chunks) \in Nat /\ late \in Nat
      /\ chunks \in Seq(Bytes) /\ Len(chunks) <= Len(object) /\ chunks # <<>>
      /\ target \in Bytes /\ delivered \in Bytes
  BY ObjectIs DEF StreamInv, StreamTypes, Flow, TakeChunk
<1>1. /\ Len(chunks) > 0 /\ Head(chunks) = chunks[1] /\ chunks[1] \in Bytes
      /\ Tail(chunks) \in Seq(Bytes) /\ Len(Tail(chunks)) = Len(chunks) - 1
      /\ \A i \in 1 .. Len(chunks) - 1 : Tail(chunks)[i] = chunks[i + 1]
  BY <1>0
<1>2. /\ chunks' = Tail(chunks) /\ current' = chunks[1]
      /\ pc = "taking" /\ pc' = "filling" /\ current = <<>> /\ late = 0
      /\ late' = IF lost THEN 1 ELSE 0
      /\ UNCHANGED <<object, wanted, target, delivered, lost, size, pos, phase>>
  BY <1>0, <1>1 DEF TakeChunk, StreamInv, Calling, Lateness, splitter, position
<1>3. Taken \in Nat /\ Taken' = Taken + 1 /\ Taken + 1 \in 1 .. Len(object)
  BY <1>0, <1>1, <1>2 DEF Taken
<1>4. StreamTypes'
  BY <1>1, <1>2 DEF StreamInv, StreamTypes
<1>5. Flow'
  <2>1. Len(chunks') <= Len(object)
    BY <1>0, <1>1, <1>2
  <2>2. ASSUME NEW i \in 1 .. Len(chunks')
        PROVE  chunks'[i] = object[(Taken + 1) + i]
    <3>1. i \in 1 .. Len(chunks) - 1 /\ i + 1 \in 1 .. Len(chunks)
          /\ Taken + (i + 1) = (Taken + 1) + i
      BY <1>0, <1>1, <1>2, <1>3
    <3>2. chunks[i + 1] = object[Taken + (i + 1)]
      BY <3>1 DEF StreamInv, Flow
    <3> QED
      BY <1>1, <1>2, <3>1, <3>2
  <2>3. chunks[1] = object[Taken + 1]
    BY <1>0, <1>1 DEF StreamInv, Flow
  <2>4. FlatPrefix(object, Taken + 1) = FlatPrefix(object, Taken) \o object[Taken + 1]
    <3>1. (Taken + 1) - 1 = Taken
      BY <1>3
    <3> QED
      BY <1>0, <1>3, <3>1, FlatIs DEF FlatPrefix, Bytes
  <2>5. (delivered \o target) \o <<>> = delivered \o target
    BY <1>0 DEF Bytes
  <2>6. delivered \o target = FlatPrefix(object, Taken)
    BY <1>2, <2>5 DEF StreamInv, Flow
  <2> QED
    BY <1>2, <1>3, <2>1, <2>2, <2>3, <2>4, <2>6 DEF Flow
<1>6. Lateness'
  BY <1>2, <1>3 DEF StreamInv, Lateness
<1>7. Calling'
  BY <1>2 DEF StreamInv, Calling, Enough
<1>8. Ending'
  BY <1>2 DEF StreamInv, Ending, Calling
<1> QED
  BY <1>4, <1>5, <1>6, <1>7, <1>8 DEF StreamInv

LEMMA ReturnSteps ==
    ASSUME StreamInv, Return, UNCHANGED splitter
    PROVE  StreamInv'
<1>0. /\ target \in Bytes /\ delivered \in Bytes /\ current \in Bytes
      /\ wanted \in BufferSizes /\ wanted \in Nat /\ wanted # 0 /\ Len(target) <= wanted
      /\ Len(target) \in Nat /\ phase = "reading"
  <2>1. pc \in {"filling", "taking", "returning"}
    BY DEF Return
  <2>2. wanted \in BufferSizes /\ phase = "reading"
    BY <2>1 DEF StreamInv, Calling
  <2> QED
    BY <2>2, ObjectIs DEF StreamInv, StreamTypes, Calling
<1>1. /\ delivered' = delivered \o target /\ target' = <<>>
      /\ pc' = IF target = <<>> THEN "end of file" ELSE "reader"
      /\ UNCHANGED <<object, chunks, current, wanted, lost, late, size, pos, phase>>
  BY DEF Return, splitter, position
<1>2. /\ delivered \o target \in Bytes /\ <<>> \in Bytes /\ Len(<<>>) = 0
      /\ (delivered \o target) \o <<>> = delivered \o target
  BY <1>0 DEF Bytes
<1>3. Taken' = Taken
  BY <1>1 DEF Taken
<1>4. StreamTypes'
  BY <1>1, <1>2 DEF StreamInv, StreamTypes
<1>5. Flow'
  BY <1>1, <1>2, <1>3 DEF StreamInv, Flow
<1> HIDE DEF Bytes
<1>9. pc' \in {"end of file", "reader"}
  BY <1>1
<1>6. Lateness'
  BY <1>1, <1>3, <1>9 DEF StreamInv, Lateness
<1>7. Calling'
  <2>1. Len(target') <= wanted'
    <3>1. target' = <<>> /\ wanted' = wanted
      BY <1>1
    <3>3. 0 <= wanted
      BY <1>0
    <3>2. Len(target') = 0
      BY <1>2, <3>1
    <3> QED
      BY <3>1, <3>2, <3>3
  <2> QED
    BY <1>1, <1>9, <2>1 DEF Calling
<1>8. Ending'
  <2>1. CASE target # <<>>
    BY <1>0, <1>1, <2>1 DEF Ending
  <2>2. CASE target = <<>>
    <3>1. pc = "returning"
      <4>1. Len(target) = 0 /\ wanted - 0 # 0
        BY <1>0, <2>2
      <4> QED
        BY <4>1 DEF Return, Missing
    <3>2. chunks = <<>> /\ current = <<>>
      BY <3>1 DEF StreamInv, Ending
    <3>3. (delivered \o target) \o current = delivered \o target
      BY <1>2, <3>2
    <3>4. delivered \o target = text
      BY <3>2, <3>3, TakenAll DEF StreamInv, Flow
    <3>5. text' = text
      BY <1>1 DEF text
    <3> QED
      BY <1>0, <1>1, <3>2, <3>4, <3>5 DEF Ending
  <2> QED
    BY <2>1, <2>2
<1> QED
  BY <1>4, <1>5, <1>6, <1>7, <1>8 DEF StreamInv

\* The steps that only move the place in the program.
LEMMA OtherStreamSteps ==
    ASSUME StreamInv, UNCHANGED <<object, chunks, current, delivered, late, size, pos, phase>>,
           \/ BeforeNextChunk \/ NoMoreChunks \/ LoseConnection
           \/ (ReadInto /\ phase = "reading" /\ ~Enough)
    PROVE  StreamInv'
<1>1. Taken' = Taken /\ text' = text
  BY DEF Taken, text
<1>2. CASE BeforeNextChunk
  <2>1. late = 0 \/ lost
    BY DEF StreamInv, Lateness
  <2> QED
    BY <1>1, <1>2, <2>1 DEF BeforeNextChunk, StreamInv, StreamTypes, Flow, Lateness, Calling, Ending,
                            Enough
<1>3. CASE NoMoreChunks
  BY <1>1, <1>3 DEF NoMoreChunks, StreamInv, StreamTypes, Flow, Lateness, Calling, Ending, Enough
<1>4. CASE LoseConnection
  BY <1>1, <1>4 DEF LoseConnection, StreamInv, StreamTypes, Flow, Lateness, Calling, Ending, Enough
<1>5. CASE ReadInto /\ phase = "reading" /\ ~Enough
  <2>1. /\ pc = "reader" /\ pc' = "filling" /\ target' = <<>> /\ wanted' \in BufferSizes
        /\ target = <<>> /\ UNCHANGED lost
    BY <1>5 DEF ReadInto, StreamInv, Calling
  <2>2. wanted' \in Nat /\ Len(<<>>) = 0 /\ Len(target') <= wanted'
    BY <2>1, ChunkStreamAssumption
  <2>3. StreamTypes' /\ Flow'
    BY <1>1, <2>1 DEF StreamInv, StreamTypes, Flow
  <2>4. Lateness' /\ Calling' /\ Ending'
    BY <1>1, <1>5, <2>1, <2>2 DEF StreamInv, Lateness, Calling, Ending, Enough
  <2> QED
    BY <2>3, <2>4 DEF StreamInv
<1> QED
  BY <1>2, <1>3, <1>4, <1>5

\* The steps of the reader.
LEMMA ReaderSteps ==
    ASSUME StreamInv, UNCHANGED <<object, chunks, current, wanted, target, delivered, lost, late, size>>,
           pos' \in Nat,
           \/ HasPiece /\ phase' = "scanning" /\ pc' = "reader"
           \/ phase = "scanning" /\ phase' \in {"scanning", "reading"} /\ UNCHANGED pc
           \/ phase' = "done" /\ pc = "end of file" /\ UNCHANGED pc
           \/ UNCHANGED <<pc, phase, pos>>
    PROVE  StreamInv'
<1>1. Taken' = Taken /\ text' = text
  BY DEF Taken, text
<1>2. StreamTypes'
  BY DEF StreamInv, StreamTypes
<1>3. Flow'
  BY <1>1 DEF StreamInv, Flow
<1>4. CASE HasPiece /\ phase' = "scanning" /\ pc' = "reader"
  <2>1. phase = "reading" /\ (Enough \/ pc = "end of file")
    BY <1>4 DEF HasPiece
  <2>2. pc \in {"reader", "end of file"}
    BY <2>1 DEF StreamInv, Calling, StreamTypes
  <2>3. target = <<>>
    BY <2>2 DEF StreamInv, Calling
  <2>4. Lateness' /\ Calling' /\ Ending'
    BY <1>1, <1>4, <2>3 DEF StreamInv, Lateness, Calling, Ending
  <2> QED
    BY <1>2, <1>3, <2>4 DEF StreamInv
<1>5. CASE phase = "scanning" /\ phase' \in {"scanning", "reading"} /\ UNCHANGED pc
  <2>1. Lateness' /\ Calling' /\ Ending'
    BY <1>1, <1>5 DEF StreamInv, Lateness, Calling, Ending
  <2> QED
    BY <1>2, <1>3, <2>1 DEF StreamInv
<1>6. CASE phase' = "done" /\ pc = "end of file" /\ UNCHANGED pc
  <2>1. Lateness' /\ Calling' /\ Ending'
    BY <1>1, <1>6 DEF StreamInv, Lateness, Calling, Ending
  <2> QED
    BY <1>2, <1>3, <2>1 DEF StreamInv
<1>7. CASE UNCHANGED <<pc, phase, pos>>
  <2>1. Lateness' /\ Calling' /\ Ending'
    BY <1>1, <1>7 DEF StreamInv, Lateness, Calling, Ending, Enough
  <2> QED
    BY <1>2, <1>3, <2>1 DEF StreamInv
<1> QED
  BY <1>4, <1>5, <1>6, <1>7

-----------------------------------------------------------------------------
(* The record                                                              *)

LEMMA MinIs ==
    ASSUME NEW S, S \subseteq Nat, S # {}
    PROVE  Min(S) \in S /\ \A m \in S : Min(S) <= m
<1>1. PICK k \in S : \A m \in S : <<m, k>> \notin OpToRel(<, Nat)
  BY NatLessThanWellFounded, WFMin, Zenon
<1>2. \A m \in S : k <= m
  <2>1. k \in Nat /\ \A m \in S : m \in Nat
    OBVIOUS
  <2>2. \A m \in S : ~(m < k)
    BY <1>1, <2>1 DEF OpToRel
  <2> QED
    BY <2>1, <2>2
<1> QED
  BY <1>2, Zenon DEF Min

Rec == [parts : Bytes, chars : Nat, truncated : BOOLEAN,
        inQuotes : BOOLEAN, quotePending : BOOLEAN, atFieldStart : BOOLEAN]

Limit == Min({Preview, MaxRecord})

LEMMA LimitIs ==
    Limit \in Nat \ {0} /\ Limit <= MaxRecord /\ MaxRecord \in Nat \ {0}
<1>1. Preview \in Nat \ {0} /\ MaxRecord \in Nat \ {0}
  BY CsvRecordsAssumption
<1>2. Limit \in {Preview, MaxRecord} /\ \A m \in {Preview, MaxRecord} : Limit <= m
  BY <1>1, MinIs DEF Limit
<1> QED
  BY <1>1, <1>2

\* A record that is not over the limit has stored all its characters but the
\* last n, which are still in the piece.
Counts(r, n) ==
    IF r.truncated THEN Len(r.parts) <= Limit /\ r.chars > MaxRecord
    ELSE Len(r.parts) <= MaxRecord /\ r.chars = Len(r.parts) + n

LEMMA PassOtherIs ==
    ASSUME NEW r \in Rec, NEW n \in Nat, r.quotePending => r.inQuotes
    PROVE  /\ PassOther(r, n) \in Rec
           /\ PassOther(r, n).quotePending => PassOther(r, n).inQuotes
           /\ PassOther(r, n).chars = r.chars + n
           /\ PassOther(r, n).parts = r.parts /\ PassOther(r, n).truncated = r.truncated
<1>1. CASE n = 0
  <2>1. PassOther(r, n) = r /\ r.chars \in Nat
    BY <1>1 DEF PassOther, Rec
  <2> QED
    BY <1>1, <2>1
<1>2. CASE n # 0
  <2> DEFINE inside == r.inQuotes /\ ~r.quotePending
             q == [r EXCEPT !.chars = r.chars + n, !.inQuotes = inside,
                            !.quotePending = FALSE, !.atFieldStart = r.atFieldStart /\ inside]
  <2>1. PassOther(r, n) = q
    BY <1>2 DEF PassOther
  <2>2. inside \in BOOLEAN /\ (r.atFieldStart /\ inside) \in BOOLEAN /\ r.chars + n \in Nat
    BY DEF Rec
  <2> HIDE DEF inside
  <2>3. q \in Rec
    BY <2>2 DEF Rec
  <2>4. q.chars = r.chars + n /\ q.quotePending = FALSE /\ q.parts = r.parts
        /\ q.truncated = r.truncated
    BY DEF Rec
  <2> QED
    BY <2>1, <2>3, <2>4
<1> QED
  BY <1>1, <1>2

LEMMA PassSpecialIs ==
    ASSUME NEW r \in Rec, NEW c, r.quotePending => r.inQuotes
    PROVE  /\ PassSpecial(r, c) \in Rec
           /\ PassSpecial(r, c).quotePending => PassSpecial(r, c).inQuotes
           /\ PassSpecial(r, c).chars = r.chars + 1
           /\ PassSpecial(r, c).parts = r.parts /\ PassSpecial(r, c).truncated = r.truncated
<1> DEFINE inside == StaysInside(r, c)
           opens  == ~inside /\ c = "quote" /\ r.atFieldStart
           in == inside \/ opens
           pending == inside /\ c = "quote" /\ ~r.quotePending
           start == IF inside THEN r.atFieldStart ELSE c = "comma"
           q == [r EXCEPT !.chars = r.chars + 1, !.inQuotes = in,
                          !.quotePending = pending, !.atFieldStart = start]
<1>1. PassSpecial(r, c) = q
  BY DEF PassSpecial
<1>2. /\ in \in BOOLEAN /\ pending \in BOOLEAN /\ start \in BOOLEAN /\ r.chars + 1 \in Nat
      /\ pending => in
  <2>1. in \in BOOLEAN /\ pending \in BOOLEAN /\ (pending => in)
    OBVIOUS
  <2>2. r.atFieldStart \in BOOLEAN /\ r.chars + 1 \in Nat
    BY DEF Rec
  <2>3. start \in BOOLEAN
    BY <2>2
  <2> QED
    BY <2>1, <2>2, <2>3
<1> HIDE DEF in, pending, start
<1>3. q \in Rec
  BY <1>2 DEF Rec
<1>4. q.chars = r.chars + 1 /\ q.quotePending = pending /\ q.inQuotes = in
      /\ q.parts = r.parts /\ q.truncated = r.truncated
  BY DEF Rec
<1> QED
  BY <1>1, <1>2, <1>3, <1>4

LEMMA AppendPieceIs ==
    ASSUME NEW r \in Rec, NEW piece \in Bytes, Counts(r, Len(piece))
    PROVE  LET q == AppendPiece(r, piece) IN
           /\ q \in Rec /\ Counts(q, 0)
           /\ q.chars = r.chars /\ q.inQuotes = r.inQuotes
           /\ q.quotePending = r.quotePending /\ q.atFieldStart = r.atFieldStart
           /\ IF r.truncated THEN q = r
              ELSE IF r.chars <= MaxRecord
                   THEN q.truncated = FALSE /\ q.parts = r.parts \o piece
                   ELSE q.truncated = TRUE /\ q.parts = SubSeq(r.parts \o piece, 1, Limit)
<1> DEFINE whole == r.parts \o piece
           q == AppendPiece(r, piece)
<1>0. MaxRecord \in Nat /\ Limit \in Nat /\ Limit <= MaxRecord /\ r.truncated \in BOOLEAN
  BY LimitIs DEF Rec
<1>1. whole \in Bytes /\ Len(whole) = Len(r.parts) + Len(piece) /\ Len(whole) \in Nat
  BY DEF Rec, Bytes
<1> HIDE DEF whole
<1>2. CASE r.truncated
  <2>1. q = r
    BY <1>2 DEF AppendPiece
  <2>2. Counts(r, 0)
    BY <1>2 DEF Counts
  <2> QED
    BY <1>2, <2>1, <2>2
<1>3. CASE ~r.truncated /\ Len(whole) <= MaxRecord
  <2>1. q = [r EXCEPT !.parts = whole]
    BY <1>3 DEF AppendPiece, whole
  <2>2. r.chars = Len(whole)
    BY <1>1, <1>3 DEF Counts
  <2>3. /\ q \in Rec /\ q.parts = whole /\ q.chars = r.chars /\ q.truncated = FALSE
        /\ q.inQuotes = r.inQuotes /\ q.quotePending = r.quotePending
        /\ q.atFieldStart = r.atFieldStart
    BY <1>0, <1>1, <1>3, <2>1 DEF Rec
  <2> HIDE DEF q
  <2>4. Counts(q, 0)
    BY <1>1, <1>3, <2>2, <2>3 DEF Counts
  <2> QED
    BY <1>3, <2>2, <2>3, <2>4 DEF q, whole
<1>4. CASE ~r.truncated /\ ~(Len(whole) <= MaxRecord)
  <2> DEFINE cut == SubSeq(whole, 1, Limit)
  <2>1. q = [r EXCEPT !.parts = cut, !.truncated = TRUE]
    BY <1>4 DEF AppendPiece, whole, Limit
  <2>2. r.chars = Len(whole) /\ r.chars > MaxRecord /\ ~(r.chars <= MaxRecord)
    BY <1>0, <1>1, <1>4 DEF Counts
  <2>3. cut \in Bytes /\ Len(cut) = Limit
    <3>1. Limit <= Len(whole)
      BY <1>0, <1>1, <1>4
    <3> QED
      BY <1>0, <1>1, <3>1 DEF Bytes
  <2> HIDE DEF cut
  <2>4. /\ q \in Rec /\ q.parts = cut /\ q.chars = r.chars /\ q.truncated = TRUE
        /\ q.inQuotes = r.inQuotes /\ q.quotePending = r.quotePending
        /\ q.atFieldStart = r.atFieldStart
    BY <2>1, <2>3 DEF Rec
  <2> HIDE DEF q
  <2>5. Counts(q, 0)
    BY <1>0, <2>2, <2>3, <2>4 DEF Counts
  <2> QED
    BY <1>4, <2>2, <2>4, <2>5 DEF q, cut, whole
<1> QED
  BY <1>0, <1>2, <1>3, <1>4

-----------------------------------------------------------------------------
(* What is stored of a record is a piece of the text.                      *)

\* The record that begins at start holds the text up to stored, or its
\* preview.
Holds(t, r, start, stored) ==
    r.parts = SubSeq(t, start, IF r.truncated THEN start + Limit - 1 ELSE stored)

\* The preview of a record is the beginning of its text.
LEMMA PreviewIs ==
    ASSUME NEW t \in Bytes, NEW i \in 0 .. Len(t), NEW start \in 1 .. i + 1,
           i + 1 - start > MaxRecord
    PROVE  SubSeq(SubSeq(t, start, i), 1, Limit) = SubSeq(t, start, start + Limit - 1)
<1>0. /\ i \in Nat /\ start \in Nat /\ i <= Len(t) /\ Len(t) \in Nat
      /\ Limit \in Nat \ {0} /\ Limit <= MaxRecord /\ MaxRecord \in Nat
  BY LimitIs DEF Bytes
<1>1. start \in 1 .. Len(t) /\ i \in 1 .. Len(t) /\ 1 \in 1 .. i - start + 1
      /\ Limit \in 1 .. i - start + 1
  BY <1>0
<1>2. SubSeq(SubSeq(t, start, i), 1, Limit) = SubSeq(t, start + 1 - 1, start + Limit - 1)
  BY <1>1, SubSeqOfSubSeq DEF Bytes
<1>3. start + 1 - 1 = start
  BY <1>0
<1> QED
  BY <1>2, <1>3

LEMMA PieceHolds ==
    ASSUME NEW t \in Bytes, NEW r \in Rec, NEW stored \in Nat, NEW i \in 0 .. Len(t), stored <= i,
           NEW start \in 1 .. i + 1, r.chars = i + 1 - start,
           Counts(r, i - stored), Holds(t, r, start, stored)
    PROVE  LET q == AppendPiece(r, SubSeq(t, stored + 1, i)) IN
           /\ q \in Rec /\ Counts(q, 0) /\ Holds(t, q, start, i)
           /\ q.chars = r.chars /\ q.inQuotes = r.inQuotes
           /\ q.quotePending = r.quotePending /\ q.atFieldStart = r.atFieldStart
<1> DEFINE piece == SubSeq(t, stored + 1, i)
           q == AppendPiece(r, piece)
           s == SubSeq(t, start, i)
<1>0. /\ i \in Nat /\ start \in Nat /\ i <= Len(t) /\ Len(t) \in Nat /\ r.chars \in Nat
      /\ Limit \in Nat \ {0} /\ Limit <= MaxRecord /\ MaxRecord \in Nat
  BY LimitIs DEF Bytes, Rec
<1>1. piece \in Bytes /\ Len(piece) = i - stored
  BY <1>0 DEF Bytes
<1>2. s \in Bytes /\ Len(s) = i + 1 - start
  BY <1>0 DEF Bytes
<1>3. /\ q \in Rec /\ Counts(q, 0)
      /\ q.chars = r.chars /\ q.inQuotes = r.inQuotes
      /\ q.quotePending = r.quotePending /\ q.atFieldStart = r.atFieldStart
      /\ IF r.truncated THEN q = r
         ELSE IF r.chars <= MaxRecord
              THEN q.truncated = FALSE /\ q.parts = r.parts \o piece
              ELSE q.truncated = TRUE /\ q.parts = SubSeq(r.parts \o piece, 1, Limit)
  <2> HIDE DEF piece
  <2>1. Counts(r, Len(piece))
    BY <1>1
  <2> QED
    BY <1>1, <2>1, AppendPieceIs
<1>4. r.truncated \/ r.parts \o piece = s
  <2> SUFFICES ASSUME ~r.truncated PROVE r.parts \o piece = s
    OBVIOUS
  <2>1. r.parts = SubSeq(t, start, stored)
    BY DEF Holds
  <2>2. start <= stored + 1
    <3>1. r.chars = Len(r.parts) + (i - stored) /\ Len(r.parts) \in Nat
      BY DEF Counts, Rec, Bytes
    <3> QED
      BY <1>0, <3>1
  <2>3. start \in 1 .. Len(t) + 1 /\ stored \in start - 1 .. Len(t) /\ i \in stored .. Len(t)
    BY <1>0, <2>2
  <2> QED
    BY <2>1, <2>3, ConcatAdjacentSubSeq DEF Bytes
<1>5. r.chars > MaxRecord => SubSeq(s, 1, Limit) = SubSeq(t, start, start + Limit - 1)
  BY PreviewIs
<1>6. /\ q.truncated = (r.chars > MaxRecord)
      /\ q.parts = IF r.chars > MaxRecord THEN SubSeq(s, 1, Limit) ELSE s
  <2>1. CASE r.truncated
    <3>1. r.chars > MaxRecord /\ r.parts = SubSeq(t, start, start + Limit - 1) /\ q = r
      BY <1>3, <2>1 DEF Counts, Holds
    <3> QED
      BY <1>5, <2>1, <3>1 DEF Rec
  <2>2. CASE ~r.truncated /\ r.chars <= MaxRecord
    <3>1. (r.chars > MaxRecord) = FALSE
      BY <1>0, <2>2
    <3>2. q.truncated = FALSE /\ q.parts = s
      BY <1>3, <1>4, <2>2, Zenon
    <3> QED
      BY <3>1, <3>2, Zenon
  <2>3. CASE ~r.truncated /\ ~(r.chars <= MaxRecord)
    <3>1. r.chars > MaxRecord
      BY <1>0, <2>3
    <3>2. q.truncated = TRUE /\ q.parts = SubSeq(s, 1, Limit)
      BY <1>3, <1>4, <2>3, Zenon
    <3> QED
      BY <3>1, <3>2, Zenon
  <2> QED
    BY <2>1, <2>2, <2>3
<1>7. Holds(t, q, start, i)
  BY <1>0, <1>5, <1>6 DEF Holds
<1> QED
  BY <1>3, <1>7

\* A record that is stored completely is kept as it should be.
LEMMA KeptIs ==
    ASSUME NEW t \in Bytes, NEW q \in Rec, NEW i \in 1 .. Len(t), NEW start \in 1 .. i,
           q.chars = i + 1 - start, Counts(q, 0), Holds(t, q, start, i)
    PROVE  Yielded(q) = Kept(SubSeq(t, start, i))
<1> DEFINE s == SubSeq(t, start, i)
<1>0. /\ i \in Nat /\ start \in Nat /\ i <= Len(t) /\ Len(t) \in Nat /\ q.chars \in Nat
      /\ q.truncated \in BOOLEAN /\ Len(q.parts) \in Nat
      /\ Limit \in Nat \ {0} /\ Limit <= MaxRecord /\ MaxRecord \in Nat
  BY LimitIs DEF Bytes, Rec
<1>1. Len(s) = q.chars
  BY <1>0 DEF Bytes
<1>2. q.truncated = (Len(s) > MaxRecord)
  BY <1>0, <1>1 DEF Counts
<1>3. q.parts = IF Len(s) <= MaxRecord THEN s ELSE SubSeq(s, 1, Limit)
  <2>1. CASE q.truncated
    <3>1. q.chars > MaxRecord /\ q.parts = SubSeq(t, start, start + Limit - 1)
      BY <2>1 DEF Counts, Holds
    <3>2. SubSeq(s, 1, Limit) = SubSeq(t, start, start + Limit - 1)
      BY <1>0, <3>1, PreviewIs
    <3>3. ~(Len(s) <= MaxRecord)
      BY <1>0, <1>1, <3>1
    <3> QED
      BY <3>1, <3>2, <3>3
  <2>2. CASE ~q.truncated
    <3>1. Len(s) <= MaxRecord
      BY <1>0, <1>1, <2>2 DEF Counts
    <3> QED
      BY <2>2, <3>1 DEF Holds
  <2> QED
    BY <2>1, <2>2
<1> HIDE DEF s
<1>4. Yielded(q) = Kept(s)
  BY <1>1, <1>2, <1>3 DEF Yielded, Kept, Limit
<1> QED
  BY <1>4 DEF s

-----------------------------------------------------------------------------
(* The quotes of a record follow the modes of the text.                    *)

ModeOf(r) == IF r.inQuotes THEN IF r.quotePending THEN "closing" ELSE "quoted"
             ELSE IF r.atFieldStart THEN "start" ELSE "plain"

LEMMA OtherModes ==
    ASSUME NEW t \in Bytes, NEW r \in Rec, r.quotePending => r.inQuotes,
           NEW a \in Nat, NEW n \in Nat, a + n <= Len(t),
           \A j \in a + 1 .. a + n : t[j] \notin Special,
           ModeOf(r) = Mode(t)[a]
    PROVE  ModeOf(PassOther(r, n)) = Mode(t)[a + n]
<1>0. Len(t) \in Nat
  BY DEF Bytes
<1>1. CASE n = 0
  BY <1>0, <1>1 DEF PassOther
<1>2. CASE n # 0
  <2> DEFINE after == IF r.inQuotes /\ ~r.quotePending THEN "quoted" ELSE "plain"
             S == {k \in 0 .. n : k = 0 \/ Mode(t)[a + k] = after}
  <2>1. ModeOf(PassOther(r, n)) = after
    BY <1>2 DEF PassOther, ModeOf, Rec
  <2>2. 0 \in S
    OBVIOUS
  <2>3. ASSUME NEW k \in 0 .. n, k < n, k \in S
        PROVE  k + 1 \in S
    <3>1. a + (k + 1) \in 1 .. Len(t) /\ a + (k + 1) \in a + 1 .. a + n
          /\ (a + (k + 1)) - 1 = a + k /\ k + 1 \in 0 .. n
      BY <1>0, <2>3
    <3>2. t[a + (k + 1)] = "other"
      BY <3>1 DEF Bytes, Characters
    <3>3. Mode(t)[a + (k + 1)] = NextMode(Mode(t)[(a + (k + 1)) - 1], t[a + (k + 1)])
      BY <3>1, ModeIs DEF Bytes
    <3>4. Mode(t)[a + (k + 1)] = NextMode(Mode(t)[a + k], "other")
      BY <3>1, <3>2, <3>3
    <3>5. Mode(t)[a + k] = ModeOf(r) \/ Mode(t)[a + k] = after
      BY <2>3
    <3>6. NextMode(ModeOf(r), "other") = after /\ NextMode(after, "other") = after
      BY DEF NextMode, ModeOf, Newline
    <3> HIDE DEF after
    <3>7. Mode(t)[a + (k + 1)] = after
      BY <3>4, <3>5, <3>6
    <3> QED
      BY <3>1, <3>7
  <2>4. n \in S
    <3> HIDE DEF S
    <3>1. \A k \in 0 .. n : k \in S
      BY <2>2, <2>3, UpTo
    <3> QED
      BY <3>1
  <2> QED
    BY <1>2, <2>1, <2>4
<1> QED
  BY <1>1, <1>2

LEMMA SpecialModes ==
    ASSUME NEW r \in Rec, r.quotePending => r.inQuotes, NEW c \in Special
    PROVE  /\ IsBoundary(r, c) <=> c \in Newline /\ ModeOf(r) # "quoted"
           /\ IsBoundary(r, c) => NextMode(ModeOf(r), c) = "start"
           /\ ~IsBoundary(r, c) => NextMode(ModeOf(r), c) = ModeOf(PassSpecial(r, c))
<1>1. c \in {"quote", "comma", "cr", "lf"}
  BY DEF Special
<1>2. IsBoundary(r, c) <=> c \in Newline /\ ModeOf(r) # "quoted"
  BY <1>1 DEF IsBoundary, Newline, ModeOf, StaysInside
<1>3. IsBoundary(r, c) => NextMode(ModeOf(r), c) = "start"
  BY <1>1, <1>2 DEF Newline, NextMode
<1> DEFINE inside == StaysInside(r, c)
           opens  == ~inside /\ c = "quote" /\ r.atFieldStart
           q == PassSpecial(r, c)
<1>4. /\ q.inQuotes = (inside \/ opens)
      /\ q.quotePending = (inside /\ c = "quote" /\ ~r.quotePending)
      /\ q.atFieldStart = IF inside THEN r.atFieldStart ELSE c = "comma"
  BY DEF PassSpecial, Rec
<1>5. ~IsBoundary(r, c) => NextMode(ModeOf(r), c) = ModeOf(q)
  <2> HIDE DEF q
  <2> QED
    BY <1>1, <1>4 DEF IsBoundary, Newline, NextMode, ModeOf, StaysInside
<1> QED
  BY <1>2, <1>3, <1>5

-----------------------------------------------------------------------------
(* Where the records of a text begin and end.                              *)

Brk(t) == Breaks(t, Mode(t))
Bs(t)  == Begins(t, Brk(t))

LEMMA BreakIs ==
    ASSUME NEW t \in Bytes
    PROVE  /\ Brk(t) \subseteq 1 .. Len(t) /\ Bs(t) \subseteq 1 .. Len(t)
           /\ \A i \in 1 .. Len(t) : i \in Brk(t) <=> t[i] \in Newline /\ Mode(t)[i - 1] # "quoted"
           /\ \A i \in 1 .. Len(t) : i \in Bs(t) <=>
                 /\ i = 1 \/ i - 1 \in Brk(t)
                 /\ ~(i \in Brk(t) /\ t[i] = "lf" /\ i - 1 \in Brk(t) /\ t[i - 1] = "cr")
<1>1. DOMAIN t = 1 .. Len(t)
  BY DEF Bytes
<1>2. /\ Brk(t) \subseteq 1 .. Len(t)
      /\ \A i \in 1 .. Len(t) : i \in Brk(t) <=> t[i] \in Newline /\ Mode(t)[i - 1] # "quoted"
  BY <1>1, Zenon DEF Brk, Breaks
<1>3. /\ Bs(t) \subseteq 1 .. Len(t)
      /\ \A i \in 1 .. Len(t) : i \in Bs(t) <=>
            i \notin Swallowed(t, Brk(t)) /\ (i = 1 \/ i - 1 \in Brk(t))
  BY <1>1, Zenon DEF Bs, Begins
<1>4. \A i : i \in Swallowed(t, Brk(t)) <=>
             i \in Brk(t) /\ t[i] = "lf" /\ i - 1 \in Brk(t) /\ t[i - 1] = "cr"
  BY Zenon DEF Swallowed
<1> QED
  BY <1>2, <1>3, <1>4

\* After a newline outside quotes the text is at the start of a field.
LEMMA AfterBreak ==
    ASSUME NEW t \in Bytes, NEW i \in Brk(t)
    PROVE  Mode(t)[i] = "start"
<1>1. i \in 1 .. Len(t) /\ t[i] \in Newline /\ Mode(t)[i - 1] # "quoted"
  BY BreakIs
<1>2. Mode(t)[i] = NextMode(Mode(t)[i - 1], t[i])
  BY <1>1, ModeIs DEF Bytes
<1> QED
  BY <1>1, <1>2 DEF NextMode, Newline

\* The record r that begins at start has been read up to done.
OnBreaks(t, r, start, done, skip) ==
    /\ start = 1 \/ start - 1 \in Brk(t)
    /\ \A i \in start .. done : i \notin Brk(t)
    /\ start <= done => start \in Bs(t)
    /\ ModeOf(r) = Mode(t)[done]
    /\ skip <=> done \in Brk(t) /\ t[done] = "cr"

\* Nothing up to i ends the record: it begins where it is said to.
LEMMA NoBreakTo ==
    ASSUME NEW t \in Bytes, NEW r, NEW skip, NEW done \in Nat, NEW start \in 1 .. done + 1,
           OnBreaks(t, r, start, done, skip),
           NEW i \in done .. Len(t), \A j \in done + 1 .. i : j \notin Brk(t)
    PROVE  /\ start = 1 \/ start - 1 \in Brk(t)
           /\ \A j \in start .. i : j \notin Brk(t)
           /\ start <= i => start \in Bs(t)
<1>0. Len(t) \in Nat /\ i \in Nat /\ start \in Nat
  BY DEF Bytes
<1>1. ASSUME NEW j \in start .. i
      PROVE  j \notin Brk(t)
  <2>1. j \in start .. done \/ j \in done + 1 .. i
    BY <1>0
  <2> QED
    BY <2>1 DEF OnBreaks
<1>2. start <= i => start \in Bs(t)
  <2> SUFFICES ASSUME start <= i PROVE start \in Bs(t)
    OBVIOUS
  <2>1. start \in 1 .. Len(t) /\ start \in start .. i
    BY <1>0
  <2>2. start \notin Brk(t) /\ (start = 1 \/ start - 1 \in Brk(t))
    BY <1>1, <2>1 DEF OnBreaks
  <2> QED
    BY <2>1, <2>2, BreakIs
<1> QED
  BY <1>1, <1>2 DEF OnBreaks

\* The records yielded are those that begin before closed.
YieldsTo(t, recs, closed) ==
    /\ Len(recs) = Cardinality({b \in Bs(t) : b < closed})
    /\ \A b \in Bs(t) : b < closed =>
          recs[Rank(Bs(t), b)] = Kept(SubSeq(t, b, EndOf(t, Brk(t), b)))

LEMMA RecordEnds ==
    ASSUME NEW t \in Bytes, NEW start \in 1 .. Len(t), NEW i \in start .. Len(t),
           \A j \in start .. i - 1 : j \notin Brk(t), i \in Brk(t) \/ i = Len(t)
    PROVE  EndOf(t, Brk(t), start) = i
<1> DEFINE S == {e \in Brk(t) \cup {Len(t)} : e >= start}
<1>0. Len(t) \in Nat /\ i \in Nat /\ start \in Nat /\ Brk(t) \subseteq 1 .. Len(t)
  BY BreakIs DEF Bytes
<1>1. i \in S /\ S \subseteq Nat
  BY <1>0
<1>2. ASSUME NEW e \in S
      PROVE  i <= e
  <2>1. e \in Nat /\ start <= e /\ e <= Len(t)
    BY <1>0
  <2>2. e \in Brk(t) \/ e = Len(t)
    OBVIOUS
  <2>3. CASE e \in Brk(t)
    <3>1. e \notin start .. i - 1
      BY <2>3
    <3> QED
      BY <1>0, <2>1, <3>1
  <2>4. CASE e = Len(t)
    BY <1>0, <2>4
  <2> QED
    BY <2>2, <2>3, <2>4
<1>3. Min(S) = i
  <2> HIDE DEF S
  <2>1. S # {}
    BY <1>1
  <2>2. Min(S) \in S /\ \A m \in S : Min(S) <= m
    BY <1>1, <2>1, MinIs
  <2>3. Min(S) <= i /\ i <= Min(S) /\ Min(S) \in Nat
    BY <1>1, <1>2, <2>2
  <2> QED
    BY <1>0, <2>3
<1> QED
  BY <1>3 DEF EndOf

\* One more record, from start to i.
LEMMA YieldOne ==
    ASSUME NEW t \in Bytes, NEW R, NEW recs \in Seq(R), NEW q \in R,
           NEW start \in 1 .. Len(t), NEW i \in start .. Len(t),
           start \in Bs(t), \A j \in start .. i - 1 : j \notin Brk(t),
           i \in Brk(t) \/ i = Len(t),
           YieldsTo(t, recs, start), q = Kept(SubSeq(t, start, i))
    PROVE  YieldsTo(t, Append(recs, q), i + 1)
<1> DEFINE S == Bs(t)
           below(c) == {b \in S : b < c}
<1>0. /\ Len(t) \in Nat /\ i \in Nat /\ start \in Nat /\ Len(recs) \in Nat
      /\ S \subseteq Nat /\ S \subseteq 1 .. Len(t) /\ IsFiniteSet(S)
  <2>1. S \subseteq 1 .. Len(t) /\ Len(t) \in Nat
    BY BreakIs DEF Bytes
  <2>2. IsFiniteSet(1 .. Len(t))
    BY <2>1, FS_Interval
  <2>3. IsFiniteSet(S)
    BY <2>1, <2>2, FS_Subset
  <2> QED
    BY <2>1, <2>3
<1>1. \A b \in S : b <= i => b <= start
  <2> SUFFICES ASSUME NEW b \in S, start < b, b <= i PROVE FALSE
    BY <1>0
  <2>1. b \in 1 .. Len(t) /\ b # 1
    BY <1>0
  <2>2. b - 1 \in Brk(t)
    BY <2>1, BreakIs
  <2>3. b - 1 \in start .. i - 1
    BY <1>0, <2>1
  <2> QED
    BY <2>2, <2>3
<1>2. below(i + 1) = below(start) \cup {start} /\ start \notin below(start)
  <2>1. \A b \in S : b < i + 1 <=> b < start \/ b = start
    BY <1>0, <1>1
  <2>2. ~(start < start)
    BY <1>0
  <2> QED
    BY <2>1, <2>2
<1>3. IsFiniteSet(below(start)) /\ Cardinality(below(start)) = Len(recs)
  <2>1. below(start) \subseteq S
    OBVIOUS
  <2> QED
    BY <1>0, <2>1, FS_Subset DEF YieldsTo
<1>4. Cardinality(below(i + 1)) = Len(recs) + 1
  <2> HIDE DEF below
  <2> QED
    BY <1>2, <1>3, FS_AddElement
<1>5. Rank(S, start) = Len(recs) + 1
  <2>1. \A b \in S : b <= start <=> b < i + 1
    BY <1>0, <1>1
  <2>2. {b \in S : b <= start} = below(i + 1)
    BY <2>1
  <2> QED
    BY <1>4, <2>2 DEF Rank
<1>6. ASSUME NEW b \in S, b < start
      PROVE  Rank(S, b) \in 1 .. Len(recs)
  <2>1. Rank(S, b) < Rank(S, start) /\ Rank(S, b) \in 1 .. Cardinality(S)
    BY <1>0, <1>6, RankIs
  <2>2. Cardinality(S) \in Nat
    BY <1>0, FS_CardinalityType
  <2> QED
    BY <1>0, <1>5, <2>1, <2>2
<1>7. /\ Len(Append(recs, q)) = Len(recs) + 1
      /\ Append(recs, q)[Len(recs) + 1] = q
      /\ \A k \in 1 .. Len(recs) : Append(recs, q)[k] = recs[k]
  OBVIOUS
<1>8. ASSUME NEW b \in S, b < i + 1
      PROVE  Append(recs, q)[Rank(S, b)] = Kept(SubSeq(t, b, EndOf(t, Brk(t), b)))
  <2>1. b < start \/ b = start
    BY <1>0, <1>1, <1>8
  <2>2. CASE b < start
    <3>1. recs[Rank(S, b)] = Kept(SubSeq(t, b, EndOf(t, Brk(t), b)))
      BY <2>2 DEF YieldsTo
    <3> QED
      BY <1>6, <1>7, <2>2, <3>1
  <2>3. CASE b = start
    BY <1>5, <1>7, <2>3, RecordEnds
  <2> QED
    BY <2>1, <2>2, <2>3
<1> QED
  BY <1>4, <1>7, <1>8 DEF YieldsTo

\* The records yielded are the first of the records of the text.
LEMMA YieldsFirst ==
    ASSUME NEW t \in Bytes, NEW R, NEW recs \in Seq(R), NEW closed \in Nat, YieldsTo(t, recs, closed)
    PROVE  /\ Len(recs) <= Len(RecordsOf(t))
           /\ \A k \in 1 .. Len(recs) : recs[k] = Kept(RecordsOf(t)[k])
           /\ closed = Len(t) + 1 => Len(recs) = Len(RecordsOf(t))
<1> DEFINE S == Bs(t)
           below == {b \in S : b < closed}
<1>0. /\ Len(t) \in Nat /\ Len(recs) \in Nat
      /\ S \subseteq Nat /\ S \subseteq 1 .. Len(t) /\ IsFiniteSet(S)
  <2>1. S \subseteq 1 .. Len(t) /\ Len(t) \in Nat
    BY BreakIs DEF Bytes
  <2>2. IsFiniteSet(1 .. Len(t))
    BY <2>1, FS_Interval
  <2>3. IsFiniteSet(S)
    BY <2>1, <2>2, FS_Subset
  <2> QED
    BY <2>1, <2>3
<1>1. Cardinality(S) \in Nat
  BY <1>0, FS_CardinalityType
<1>2. RecordsOf(t) = [k \in 1 .. Cardinality(S) |-> SubSeq(t, Nth(S, k), EndOf(t, Brk(t), Nth(S, k)))]
  BY Zenon DEF RecordsOf, Bs, Brk
<1>3. Len(RecordsOf(t)) = Cardinality(S)
  BY <1>1, <1>2
<1>4. Len(recs) = Cardinality(below) /\ Len(recs) <= Cardinality(S)
  <2>1. below \subseteq S
    OBVIOUS
  <2>2. Cardinality(below) <= Cardinality(S)
    BY <1>0, <2>1, FS_Subset
  <2> QED
    BY <2>2 DEF YieldsTo
<1>5. ASSUME NEW k \in 1 .. Len(recs)
      PROVE  recs[k] = Kept(RecordsOf(t)[k])
  <2>1. k \in 1 .. Cardinality(S)
    BY <1>0, <1>1, <1>4
  <2> DEFINE b == Nth(S, k)
  <2>2. b \in S /\ Rank(S, b) = k
    BY <1>0, <2>1, NthIs
  <2> HIDE DEF b
  <2>3. b < closed
    <3> SUFFICES ASSUME ~(b < closed) PROVE FALSE
      OBVIOUS
    <3> DEFINE upTo == {m \in S : m <= b}
    <3>1. b \in Nat
      BY <1>0, <2>2
    <3>2. \A m \in S : m < closed => m <= b /\ m # b
      BY <1>0, <3>1
    <3>3. below \subseteq upTo \ {b} /\ b \in upTo /\ upTo \subseteq S
      <4>1. b <= b
        BY <3>1
      <4> QED
        BY <2>2, <3>2, <4>1
    <3>4. Cardinality(upTo) = k
      BY <2>2 DEF Rank
    <3> HIDE DEF upTo, below
    <3>5. IsFiniteSet(upTo)
      BY <1>0, <3>3, FS_Subset
    <3>6. IsFiniteSet(upTo \ {b}) /\ Cardinality(upTo \ {b}) = k - 1
      BY <3>3, <3>4, <3>5, FS_RemoveElement
    <3>7. Cardinality(below) <= k - 1
      BY <3>3, <3>6, FS_Subset
    <3> QED
      BY <1>0, <1>4, <3>7
  <2>4. recs[k] = Kept(SubSeq(t, b, EndOf(t, Brk(t), b)))
    BY <2>2, <2>3 DEF YieldsTo
  <2>5. RecordsOf(t)[k] = SubSeq(t, b, EndOf(t, Brk(t), b))
    BY <1>2, <2>1 DEF b
  <2> QED
    BY <2>4, <2>5
<1>6. closed = Len(t) + 1 => Len(recs) = Len(RecordsOf(t))
  <2> SUFFICES ASSUME closed = Len(t) + 1 PROVE Len(recs) = Len(RecordsOf(t))
    OBVIOUS
  <2>1. \A b \in S : b < closed
    BY <1>0
  <2>2. below = S
    BY <2>1
  <2> QED
    BY <1>3, <1>4, <2>2
<1> QED
  BY <1>1, <1>3, <1>4, <1>5, <1>6

-----------------------------------------------------------------------------
(* The pieces and the records                                              *)

Results == [text : Bytes, chars : Nat, truncated : BOOLEAN]

\* How many characters have been looked at, how many are stored, where the
\* record being collected begins, and where the records yielded end.
Done   == IF phase = "scanning" THEN counted - 1 ELSE pos
Stored == IF phase = "scanning" THEN segment - 1 ELSE pos
Start  == Done + 1 - rec.chars
Closed == IF phase = "done" THEN Len(text) + 1 ELSE Start

PlaceInv ==
    /\ pos <= Len(delivered)
    /\ segment \in 1 .. pos + 1 /\ counted \in segment .. pos + 1
    /\ skipLf \in BOOLEAN
    /\ phase = "scanning" /\ skipLf => segment = counted

RecInv ==
    /\ rec \in Rec /\ (rec.quotePending => rec.inQuotes)
    /\ rec.chars <= Done
    /\ Counts(rec, Done - Stored)
    /\ Holds(text, rec, Start, Stored)

ModeInv == phase # "done" => OnBreaks(text, rec, Start, Done, skipLf)

YieldInv == records \in Seq(Results) /\ YieldsTo(text, records, Closed)

SplitInv == PlaceInv /\ RecInv /\ ModeInv /\ YieldInv

LEMMA TextIs ==
    ASSUME StreamInv
    PROVE  /\ text \in Bytes /\ Len(text) \in Nat /\ Len(delivered) \in Nat /\ pos \in Nat
           /\ Len(delivered) <= Len(text)
           /\ \A i \in 1 .. Len(delivered) : delivered[i] = text[i]
           /\ \A a \in Nat \ {0}, b \in 0 .. Len(delivered) :
                 SubSeq(delivered, a, b) = SubSeq(text, a, b)
<1>0. /\ object \in Seq(Bytes) /\ Taken \in 0 .. Len(object) /\ pos \in Nat
      /\ delivered \in Bytes /\ target \in Bytes /\ current \in Bytes
  <2>1. Len(object) \in Nat /\ Len(chunks) \in Nat /\ Len(chunks) <= Len(object)
    BY ObjectIs DEF StreamInv, Flow
  <2>2. Taken \in 0 .. Len(object)
    BY <2>1 DEF Taken
  <2> QED
    BY <2>2, ObjectIs DEF StreamInv, StreamTypes
<1> DEFINE begun == FlatPrefix(object, Taken)
<1>1. /\ text \in Bytes /\ begun \in Bytes /\ Len(begun) <= Len(text)
      /\ \A i \in 1 .. Len(begun) : text[i] = begun[i]
  BY <1>0, FlatBegins DEF text, Bytes
<1>2. begun = (delivered \o target) \o current
  BY DEF StreamInv, Flow
<1> HIDE DEF begun
<1>3. /\ Len(begun) = (Len(delivered) + Len(target)) + Len(current)
      /\ \A i \in 1 .. Len(delivered) : begun[i] = delivered[i]
  <2>1. /\ delivered \o target \in Bytes /\ Len(delivered \o target) = Len(delivered) + Len(target)
        /\ \A i \in 1 .. Len(delivered) : (delivered \o target)[i] = delivered[i]
    BY <1>0 DEF Bytes
  <2> DEFINE u == delivered \o target
  <2> HIDE DEF u
  <2>2. /\ Len(u \o current) = Len(u) + Len(current)
        /\ \A i \in 1 .. Len(u) : (u \o current)[i] = u[i]
    <3>1. u \in Bytes
      BY <2>1 DEF u
    <3> QED
      BY <1>0, <3>1 DEF Bytes
  <2>3. Len(delivered) \in Nat /\ Len(target) \in Nat
    BY <1>0 DEF Bytes
  <2>4. Len(u) = Len(delivered) + Len(target) /\ \A i \in 1 .. Len(delivered) : u[i] = delivered[i]
    BY <2>1 DEF u
  <2>5. \A i \in 1 .. Len(delivered) : i \in 1 .. Len(u)
    BY <2>3, <2>4
  <2> QED
    BY <1>2, <2>2, <2>4, <2>5 DEF u
<1>4. Len(text) \in Nat /\ Len(delivered) \in Nat /\ Len(target) \in Nat /\ Len(current) \in Nat
  BY <1>0, <1>1 DEF Bytes
<1>5. Len(delivered) <= Len(text) /\ \A i \in 1 .. Len(delivered) : delivered[i] = text[i]
  <2>1. Len(delivered) <= Len(begun)
    BY <1>3, <1>4
  <2>2. \A i \in 1 .. Len(delivered) : i \in 1 .. Len(begun)
    BY <1>3, <1>4
  <2>3. Len(begun) \in Nat
    BY <1>3, <1>4
  <2> QED
    BY <1>1, <1>3, <1>4, <2>1, <2>2, <2>3
<1>6. ASSUME NEW a \in Nat \ {0}, NEW b \in 0 .. Len(delivered)
      PROVE  SubSeq(delivered, a, b) = SubSeq(text, a, b)
  <2>1. \A i \in a .. b : delivered[i] = text[i] /\ delivered[i] \in Characters
    BY <1>0, <1>4, <1>5 DEF Bytes
  <2>2. \A i \in 1 .. b - a + 1 : a + i - 1 \in a .. b
    BY <1>4
  <2> DEFINE d == SubSeq(delivered, a, b)
             t == SubSeq(text, a, b)
             n == IF a <= b THEN b - a + 1 ELSE 0
  <2>3. /\ d \in Seq(Characters) /\ Len(d) = n
        /\ \A i \in 1 .. b - a + 1 : d[i] = delivered[a + i - 1]
    BY <1>4, <2>1, SubSeqProperties
  <2>4. /\ t \in Seq(Characters) /\ Len(t) = n
        /\ \A i \in 1 .. b - a + 1 : t[i] = text[a + i - 1]
    BY <1>4, <2>1, SubSeqProperties
  <2> HIDE DEF d, t
  <2>5. \A i \in 1 .. n : d[i] = t[i]
    BY <2>1, <2>2, <2>3, <2>4
  <2> HIDE DEF n
  <2>6. d = t
    BY <2>3, <2>4, <2>5
  <2> QED
    BY <2>6 DEF d, t
<1> QED
  BY <1>0, <1>1, <1>4, <1>5, <1>6

LEMMA SplitStarts ==
    ASSUME Init PROVE SplitInv
<1>0. text \in Bytes /\ Len(text) \in Nat /\ Len(delivered) = 0
  BY StreamStarts, TextIs DEF Init, StreamInit
<1>1. /\ pos = 0 /\ segment = 1 /\ counted = 1 /\ rec = NoRecord /\ skipLf = FALSE
      /\ records = <<>> /\ phase = "reading"
  BY DEF Init
<1>2. PlaceInv
  <2>1. 0 <= 0 /\ 1 \in 1 .. 0 + 1
    OBVIOUS
  <2> QED
    BY <1>0, <1>1, <2>1 DEF PlaceInv
<1>3. /\ NoRecord \in Rec /\ NoRecord.chars = 0 /\ NoRecord.parts = <<>>
      /\ NoRecord.truncated = FALSE /\ NoRecord.quotePending = FALSE /\ ModeOf(NoRecord) = "start"
  BY DEF NoRecord, Rec, Bytes, ModeOf
<1>4. Done = 0 /\ Stored = 0 /\ Start = 1 /\ Closed = 1
  BY <1>1, <1>3 DEF Done, Stored, Start, Closed
<1>5. RecInv
  <2>1. Counts(NoRecord, 0)
    BY <1>3, LimitIs DEF Counts
  <2>2. SubSeq(text, 1, 0) = <<>>
    OBVIOUS
  <2> QED
    BY <1>1, <1>3, <1>4, <2>1, <2>2 DEF RecInv, Holds
<1>6. ModeInv
  <2>1. 0 \notin Brk(text)
    BY <1>0, BreakIs
  <2>2. Mode(text)[0] = "start"
    BY <1>0, ModeIs DEF Bytes
  <2> QED
    BY <1>1, <1>3, <1>4, <2>1, <2>2 DEF ModeInv, OnBreaks
<1>7. YieldInv
  <2>1. \A b \in Bs(text) : ~(b < 1)
    BY <1>0, BreakIs
  <2>2. {b \in Bs(text) : b < 1} = {}
    BY <2>1
  <2>3. Len(<<>>) = 0 /\ <<>> \in Seq(Results)
    OBVIOUS
  <2> QED
    BY <1>1, <1>4, <2>1, <2>2, <2>3, FS_EmptySet DEF YieldInv, YieldsTo
<1> QED
  BY <1>2, <1>5, <1>6, <1>7 DEF SplitInv

-----------------------------------------------------------------------------
(* The steps                                                               *)

\* The records stay as they are while the stream delivers more.
LEMMA SplitKeeps ==
    ASSUME SplitInv, UNCHANGED <<object, splitter>>, Len(delivered) <= Len(delivered'),
           Len(delivered) \in Nat, Len(delivered') \in Nat, pos \in Nat
    PROVE  SplitInv'
<1>1. UNCHANGED <<size, pos, segment, counted, rec, skipLf, records, phase>>
  BY DEF splitter, position
<1>2. UNCHANGED <<text, Done, Stored, Start, Closed>>
  BY <1>1 DEF text, Done, Stored, Start, Closed
<1>3. PlaceInv'
  BY <1>1 DEF SplitInv, PlaceInv
<1>4. RecInv' /\ ModeInv' /\ YieldInv'
  BY <1>1, <1>2 DEF SplitInv, RecInv, ModeInv, YieldInv
<1> QED
  BY <1>3, <1>4 DEF SplitInv

LEMMA ReadPieceSteps ==
    ASSUME StreamInv, SplitInv, ReadPiece
    PROVE  SplitInv' /\ pos' \in Nat
<1>0. Len(delivered) \in Nat /\ pos \in Nat /\ size \in Nat /\ phase = "reading"
      /\ pos < Len(delivered)
  BY TextIs, ObjectIs DEF StreamInv, ReadPiece, HasPiece
<1>1. pos' = Min({pos + size, Len(delivered)})
  BY DEF ReadPiece
<1>2. pos' \in {pos + size, Len(delivered)} /\ pos' <= Len(delivered) /\ pos <= pos'
  <2> DEFINE S == {pos + size, Len(delivered)}
  <2>1. S \subseteq Nat /\ S # {} /\ \A m \in S : pos <= m
    BY <1>0
  <2> HIDE DEF S
  <2>2. pos' \in S /\ \A m \in S : pos' <= m
    BY <1>1, <2>1, MinIs DEF S
  <2> QED
    BY <2>1, <2>2 DEF S
<1>3. pos' \in Nat
  BY <1>0, <1>2
<1>4. /\ segment' = pos + 1 /\ counted' = pos + 1 /\ phase' = "scanning"
      /\ UNCHANGED <<object, delivered, rec, skipLf, records>>
  BY DEF ReadPiece
<1>5. UNCHANGED <<text, Done, Stored, Start, Closed>>
  BY <1>0, <1>4 DEF text, Done, Stored, Start, Closed
<1>6. PlaceInv'
  <2>1. pos' <= Len(delivered') /\ segment' = counted' /\ skipLf' \in BOOLEAN
    BY <1>2, <1>4 DEF SplitInv, PlaceInv
  <2>2. pos + 1 \in 1 .. pos' + 1 /\ pos + 1 \in pos + 1 .. pos' + 1
    <3>1. pos \in Nat /\ pos' \in Nat /\ pos <= pos'
      BY <1>0, <1>2, <1>3
    <3>2. \A a, b \in Nat : a <= b => a + 1 \in 1 .. b + 1 /\ a + 1 \in a + 1 .. b + 1
      OBVIOUS
    <3> QED
      BY <3>1, <3>2
  <2> QED
    BY <1>4, <2>1, <2>2 DEF PlaceInv
<1>7. RecInv' /\ ModeInv' /\ YieldInv'
  BY <1>0, <1>4, <1>5 DEF SplitInv, RecInv, ModeInv, YieldInv
<1> QED
  BY <1>3, <1>6, <1>7 DEF SplitInv

LEMMA NextSpecialIs ==
    ASSUME StreamInv, SplitInv, SpecialsAhead # {}
    PROVE  /\ NextSpecial \in Nat /\ NextSpecial \in counted .. pos /\ NextSpecial \in 1 .. Len(text)
           /\ delivered[NextSpecial] = text[NextSpecial] /\ text[NextSpecial] \in Special
           /\ \A j \in counted .. NextSpecial - 1 : text[j] \notin Special
<1>0. /\ pos \in Nat /\ counted \in Nat \ {0} /\ Len(delivered) \in Nat /\ Len(text) \in Nat
      /\ pos <= Len(delivered) /\ Len(delivered) <= Len(text)
  BY TextIs DEF SplitInv, PlaceInv
<1>1. \A j \in counted .. pos : delivered[j] = text[j]
  <2>1. \A j \in counted .. pos : j \in 1 .. Len(delivered)
    BY <1>0
  <2> QED
    BY <2>1, TextIs
<1>2. NextSpecial \in SpecialsAhead /\ \A m \in SpecialsAhead : NextSpecial <= m
  <2>1. SpecialsAhead \subseteq Nat
    BY <1>0 DEF SpecialsAhead
  <2> QED
    BY <2>1, MinIs DEF NextSpecial
<1>3. /\ NextSpecial \in counted .. pos /\ delivered[NextSpecial] \in Special
  BY <1>2 DEF SpecialsAhead
<1> DEFINE i == NextSpecial
<1> HIDE DEF i
<1>4. i \in counted .. pos
  BY <1>3 DEF i
<1>5. i \in Nat /\ i \in 1 .. Len(text)
  BY <1>0, <1>4
<1>6. ASSUME NEW j \in counted .. i - 1
      PROVE  text[j] \notin Special
  <2>1. j \in counted .. pos /\ ~(i <= j)
    BY <1>0, <1>4, <1>5
  <2>2. j \notin SpecialsAhead
    BY <1>2, <2>1 DEF i
  <2> QED
    BY <1>1, <2>1, <2>2 DEF SpecialsAhead
<1> QED
  BY <1>1, <1>3, <1>5, <1>6 DEF i

LEMMA SkipLineFeedSteps ==
    ASSUME StreamInv, SplitInv, SkipLineFeed
    PROVE  SplitInv'
<1> DEFINE i == NextSpecial
<1>0. /\ i \in Nat /\ i \in counted .. pos /\ i \in 1 .. Len(text) /\ delivered[i] = text[i]
      /\ text \in Bytes /\ pos \in Nat /\ pos <= Len(delivered)
  BY NextSpecialIs, TextIs DEF SkipLineFeed, SplitInv, PlaceInv
<1>1. /\ phase = "scanning" /\ skipLf = TRUE /\ i = segment /\ delivered[i] = "lf"
      /\ segment' = i + 1 /\ counted' = i + 1 /\ skipLf' = FALSE
      /\ UNCHANGED <<object, delivered, size, pos, rec, records, phase>>
  BY DEF SkipLineFeed, SkippedLf, stream, SplitInv, PlaceInv
<1> HIDE DEF i
<1>2. counted = i /\ counted \in Nat
  BY <1>0, <1>1 DEF SplitInv, PlaceInv
<1>3. Done = i - 1 /\ Stored = i - 1 /\ Done' = i /\ Stored' = i /\ text' = text
  BY <1>0, <1>1, <1>2 DEF Done, Stored, text
<1>4. /\ rec \in Rec /\ rec.chars \in Nat /\ (rec.quotePending => rec.inQuotes)
      /\ rec.chars <= i - 1 /\ Counts(rec, 0) /\ Holds(text, rec, Start, i - 1)
  BY <1>0, <1>3 DEF SplitInv, RecInv, Rec
<1>5. /\ \A j \in Start .. i - 1 : j \notin Brk(text)
      /\ ModeOf(rec) = Mode(text)[i - 1]
      /\ i - 1 \in Brk(text) /\ text[i - 1] = "cr"
  BY <1>1, <1>3 DEF SplitInv, ModeInv, OnBreaks
<1>6. rec.chars = 0 /\ Start = i
  <2>1. Start = i - rec.chars
    BY <1>0, <1>3, <1>4 DEF Start
  <2>2. i - 1 \notin Start .. i - 1
    BY <1>5
  <2>3. rec.chars = 0
    BY <1>0, <1>4, <2>1, <2>2
  <2> QED
    BY <1>0, <2>1, <2>3
<1>7. Start' = i + 1 /\ Closed = i /\ Closed' = i + 1
  BY <1>0, <1>1, <1>3, <1>6 DEF Start, Closed
<1>8. i \in Brk(text) /\ i \notin Bs(text) /\ Mode(text)[i] = "start" /\ Mode(text)[i - 1] = "start"
  <2>1. Mode(text)[i - 1] = "start"
    BY <1>0, <1>5, AfterBreak
  <2>2. i \in Brk(text)
    BY <1>0, <1>1, <2>1, BreakIs DEF Newline
  <2> QED
    BY <1>0, <1>1, <1>5, <2>1, <2>2, AfterBreak, BreakIs
<1>9. PlaceInv'
  <2>1. i + 1 \in 1 .. pos + 1 /\ i + 1 \in i + 1 .. pos + 1
    BY <1>0
  <2> QED
    BY <1>0, <1>1, <2>1 DEF PlaceInv
<1>10. RecInv'
  <2>1. rec.truncated = FALSE /\ rec.parts = SubSeq(text, i, i - 1)
    <3>1. ~rec.truncated
      BY <1>4, <1>6, LimitIs DEF Counts
    <3>2. rec.truncated \in BOOLEAN
      BY <1>4 DEF Rec
    <3> QED
      BY <1>4, <1>6, <3>1, <3>2 DEF Holds
  <2>2. SubSeq(text, i, i - 1) = <<>> /\ SubSeq(text, i + 1, i) = <<>>
    BY <1>0, SubSeqEmpty
  <2>3. Holds(text, rec, i + 1, i)
    BY <2>1, <2>2 DEF Holds
  <2>4. i - i = 0 /\ rec.chars <= i
    BY <1>0, <1>6
  <2> QED
    BY <1>1, <1>3, <1>4, <1>7, <2>3, <2>4 DEF RecInv
<1>11. ModeInv'
  <2>1. (i + 1) - 1 = i /\ i + 1 .. i = {} /\ ~(i + 1 <= i)
    BY <1>0
  <2>2. OnBreaks(text, rec, i + 1, i, FALSE)
    BY <1>1, <1>0, <1>5, <1>8, <2>1 DEF OnBreaks
  <2> QED
    BY <1>1, <1>3, <1>7, <2>2 DEF ModeInv
<1>12. YieldInv'
  <2>1. \A b \in Bs(text) : b < i + 1 <=> b < i
    <3>1. \A b \in Bs(text) : b \in Nat /\ b # i
      BY <1>0, <1>8, BreakIs
    <3> QED
      BY <1>0, <3>1
  <2>2. {b \in Bs(text) : b < i + 1} = {b \in Bs(text) : b < i}
    BY <2>1
  <2>3. YieldsTo(text, records, i)
    BY <1>7 DEF SplitInv, YieldInv
  <2>4. YieldsTo(text, records, i + 1)
    BY <2>1, <2>2, <2>3 DEF YieldsTo
  <2> QED
    BY <1>1, <1>3, <1>7, <2>4 DEF SplitInv, YieldInv
<1> QED
  BY <1>9, <1>10, <1>11, <1>12 DEF SplitInv

\* What HandleSpecial knows of the special character it looks at.
LEMMA SpecialPassed ==
    ASSUME StreamInv, SplitInv, HandleSpecial
    PROVE  LET i == NextSpecial
               r == PassOther(rec, i - counted)
               q == PassSpecial(r, text[i])
           IN  /\ i \in Nat /\ i \in counted .. pos /\ i \in 1 .. Len(text)
               /\ text[i] \in Special /\ delivered[i] = text[i]
               /\ r \in Rec /\ (r.quotePending => r.inQuotes)
               /\ q \in Rec /\ (q.quotePending => q.inQuotes)
               /\ q.chars = rec.chars + (i - counted) + 1 /\ q.chars \in Nat
               /\ Done = counted - 1 /\ Stored = segment - 1
               /\ counted \in Nat /\ segment \in Nat /\ segment <= counted /\ segment >= 1
               /\ Start \in 1 .. i /\ Start \in 1 .. Done + 1 /\ q.chars = i + 1 - Start
               /\ Counts(q, i - Stored) /\ Holds(text, q, Start, Stored)
               /\ ModeOf(r) = Mode(text)[i - 1]
               /\ \A j \in Done + 1 .. i - 1 : j \notin Brk(text)
               /\ IsBoundary(r, text[i]) <=> i \in Brk(text)
               /\ ~IsBoundary(r, text[i]) => ModeOf(q) = Mode(text)[i]
<1> DEFINE i == NextSpecial
           n == i - counted
           r == PassOther(rec, n)
           q == PassSpecial(r, text[i])
<1>0. /\ i \in Nat /\ i \in counted .. pos /\ i \in 1 .. Len(text)
      /\ text[i] \in Special /\ delivered[i] = text[i]
      /\ \A j \in counted .. i - 1 : text[j] \notin Special
      /\ text \in Bytes /\ Len(text) \in Nat
  BY NextSpecialIs, TextIs DEF HandleSpecial
<1> HIDE DEF i
<1>1. /\ Done = counted - 1 /\ Stored = segment - 1
      /\ counted \in Nat /\ segment \in Nat /\ segment <= counted /\ segment >= 1
  BY TextIs DEF HandleSpecial, SplitInv, PlaceInv, Done, Stored
<1>2. n \in Nat /\ (counted - 1) + n = i - 1 /\ counted - 1 \in Nat
  BY <1>0, <1>1
<1>3. /\ rec \in Rec /\ (rec.quotePending => rec.inQuotes) /\ rec.chars \in Nat
      /\ rec.chars <= counted - 1 /\ Counts(rec, (counted - 1) - (segment - 1))
      /\ Holds(text, rec, Start, Stored) /\ Start = (counted - 1) + 1 - rec.chars
  BY <1>1 DEF SplitInv, RecInv, Rec, Start
<1>4. /\ r \in Rec /\ (r.quotePending => r.inQuotes) /\ r.chars = rec.chars + n
      /\ r.parts = rec.parts /\ r.truncated = rec.truncated
  <2> HIDE DEF n
  <2> QED
    BY <1>2, <1>3, PassOtherIs
<1>5. ModeOf(rec) = Mode(text)[counted - 1]
  BY <1>1 DEF HandleSpecial, SplitInv, ModeInv, OnBreaks
<1>6. ModeOf(r) = Mode(text)[i - 1]
  <2> DEFINE a == counted - 1
  <2>1. a \in Nat /\ a + n = i - 1 /\ a + n <= Len(text) /\ a + 1 = counted
    BY <1>0, <1>1, <1>2
  <2>2. \A j \in a + 1 .. a + n : text[j] \notin Special
    BY <1>0, <2>1
  <2>3. ModeOf(rec) = Mode(text)[a]
    BY <1>5
  <2> HIDE DEF a, n
  <2>4. ModeOf(PassOther(rec, n)) = Mode(text)[a + n]
    BY <1>0, <1>2, <1>3, <2>1, <2>2, <2>3, OtherModes
  <2> QED
    BY <2>1, <2>4
<1> HIDE DEF r
<1>7. /\ q \in Rec /\ (q.quotePending => q.inQuotes) /\ q.chars = r.chars + 1
      /\ q.parts = rec.parts /\ q.truncated = rec.truncated
  BY <1>4, PassSpecialIs
<1>8. \A j \in Done + 1 .. i - 1 : j \notin Brk(text)
  <2>1. ASSUME NEW j \in Done + 1 .. i - 1
        PROVE  j \notin Brk(text)
    <3>1. j \in counted .. i - 1 /\ j \in 1 .. Len(text)
      BY <1>0, <1>1
    <3> QED
      BY <1>0, <3>1, BreakIs DEF Special, Newline
  <2> QED
    BY <2>1
<1>9. /\ IsBoundary(r, text[i]) <=> i \in Brk(text)
      /\ ~IsBoundary(r, text[i]) => ModeOf(q) = Mode(text)[i]
  <2>1. /\ IsBoundary(r, text[i]) <=> text[i] \in Newline /\ ModeOf(r) # "quoted"
        /\ ~IsBoundary(r, text[i]) => NextMode(ModeOf(r), text[i]) = ModeOf(q)
    BY <1>0, <1>4, SpecialModes
  <2>2. Mode(text)[i] = NextMode(Mode(text)[i - 1], text[i])
    BY <1>0, ModeIs DEF Bytes
  <2>3. i \in Brk(text) <=> text[i] \in Newline /\ Mode(text)[i - 1] # "quoted"
    BY <1>0, BreakIs
  <2> QED
    BY <1>6, <2>1, <2>2, <2>3
<1> HIDE DEF q
<1>10. q.chars = rec.chars + n + 1 /\ q.chars \in Nat
  BY <1>2, <1>3, <1>4, <1>7
<1>11. Start \in 1 .. i /\ Start \in 1 .. Done + 1 /\ q.chars = i + 1 - Start
  <2>1. i \in Nat /\ counted \in Nat /\ counted <= i /\ rec.chars \in Nat /\ rec.chars <= counted - 1
    BY <1>0, <1>1, <1>3
  <2>2. Start = counted - rec.chars /\ Done + 1 = counted
    BY <1>1, <1>3, <2>1
  <2>3. Start \in 1 .. i /\ Start \in 1 .. counted
    BY <2>1, <2>2
  <2>4. q.chars = i + 1 - Start
    BY <1>10, <2>1, <2>2
  <2> QED
    BY <2>2, <2>3, <2>4
<1>12. Counts(q, i - Stored)
  <2>1. MaxRecord \in Nat /\ Len(rec.parts) \in Nat
    BY <1>3, LimitIs DEF Rec, Bytes
  <2>2. CASE rec.truncated
    <3>1. Len(rec.parts) <= Limit /\ rec.chars > MaxRecord
      BY <1>3, <2>2 DEF Counts
    <3>2. q.chars > MaxRecord
      BY <1>2, <1>3, <1>10, <2>1, <3>1
    <3> QED
      BY <1>7, <2>2, <3>1, <3>2 DEF Counts
  <2>3. CASE ~rec.truncated
    <3>1. Len(rec.parts) <= MaxRecord /\ rec.chars = Len(rec.parts) + ((counted - 1) - (segment - 1))
      BY <1>3, <2>3 DEF Counts
    <3>2. q.chars = Len(rec.parts) + (i - Stored)
      <4> DEFINE l == Len(rec.parts)
      <4>1. /\ l \in Nat /\ rec.chars = l + ((counted - 1) - (segment - 1))
            /\ q.chars = rec.chars + (i - counted) + 1
            /\ i \in Nat /\ counted \in Nat /\ segment \in Nat /\ Stored = segment - 1
        BY <1>0, <1>1, <1>10, <2>1, <3>1
      <4> HIDE DEF l
      <4>2. q.chars = l + (i - Stored)
        BY <4>1
      <4> QED
        BY <4>2 DEF l
    <3> QED
      BY <1>7, <2>3, <3>1, <3>2 DEF Counts
  <2> QED
    BY <2>2, <2>3
<1>13. Holds(text, q, Start, Stored)
  BY <1>3, <1>7 DEF Holds
<1> QED
  BY <1>0, <1>1, <1>4, <1>6, <1>7, <1>8, <1>9, <1>10, <1>11, <1>12, <1>13 DEF q, r, i

LEMMA HandleSpecialSteps ==
    ASSUME StreamInv, SplitInv, HandleSpecial
    PROVE  SplitInv'
<1> DEFINE i == NextSpecial
           r == PassOther(rec, i - counted)
           c == text[i]
           q == PassSpecial(r, c)
<1>0. /\ i \in Nat /\ i \in counted .. pos /\ i \in 1 .. Len(text)
      /\ c \in Special /\ delivered[i] = c
      /\ r \in Rec /\ (r.quotePending => r.inQuotes)
      /\ q \in Rec /\ (q.quotePending => q.inQuotes)
      /\ q.chars = rec.chars + (i - counted) + 1 /\ q.chars \in Nat
      /\ Done = counted - 1 /\ Stored = segment - 1
      /\ counted \in Nat /\ segment \in Nat /\ segment <= counted /\ segment >= 1
      /\ Start \in 1 .. i /\ Start \in 1 .. Done + 1 /\ q.chars = i + 1 - Start
      /\ Counts(q, i - Stored) /\ Holds(text, q, Start, Stored)
      /\ \A j \in Done + 1 .. i - 1 : j \notin Brk(text)
      /\ (IsBoundary(r, c) <=> i \in Brk(text))
      /\ (~IsBoundary(r, c) => ModeOf(q) = Mode(text)[i])
  BY SpecialPassed
<1>1. /\ text \in Bytes /\ Len(text) \in Nat /\ pos \in Nat /\ Len(delivered) \in Nat
      /\ pos <= Len(delivered) /\ i <= Len(text)
  BY <1>0, TextIs DEF SplitInv, PlaceInv
<1>2. /\ phase = "scanning" /\ counted' = i + 1
      /\ UNCHANGED <<object, delivered, size, pos, phase>>
      /\ IF IsBoundary(r, c)
         THEN /\ records' = Append(records, Yielded(AppendPiece(q, SubSeq(delivered, segment, i))))
              /\ rec' = NoRecord /\ skipLf' = (c = "cr") /\ segment' = i + 1
         ELSE rec' = q /\ skipLf' = FALSE /\ UNCHANGED <<records, segment>>
      /\ ~(skipLf /\ i = segment /\ c = "lf")
  BY <1>0 DEF HandleSpecial, stream, SkippedLf
<1> HIDE DEF i, r, q, c
<1>3. text' = text /\ Done' = i /\ Closed = Start /\ Done \in Nat
  <2>1. Done' = (i + 1) - 1 /\ (i + 1) - 1 = i
    BY <1>0, <1>2 DEF Done
  <2> QED
    BY <1>0, <1>2, <2>1 DEF text, Closed
<1>4. OnBreaks(text, rec, Start, Done, skipLf) /\ records \in Seq(Results)
      /\ YieldsTo(text, records, Start)
  BY <1>2, <1>3 DEF SplitInv, ModeInv, YieldInv
<1>5. i + 1 \in 1 .. pos + 1 /\ i + 1 \in i + 1 .. pos + 1 /\ i + 1 \in segment .. pos + 1
      /\ segment \in 1 .. pos + 1
  <2>1. i \in Nat /\ segment \in Nat /\ segment >= 1 /\ segment <= i /\ i <= pos /\ pos \in Nat
    BY <1>0, <1>1
  <2> QED
    BY <2>1
<1>6. CASE ~IsBoundary(r, c)
  <2>1. rec' = q /\ skipLf' = FALSE /\ UNCHANGED <<records, segment>> /\ i \notin Brk(text)
    BY <1>0, <1>2, <1>6
  <2>2. Stored' = Stored /\ Start' = Start /\ Closed' = Start
    <3>1. Start' = i + 1 - q.chars /\ i + 1 - q.chars = Start
      BY <1>0, <1>3, <2>1, SMTT(30) DEF Start
    <3> QED
      BY <1>2, <2>1, <3>1 DEF Stored, Closed
  <2>3. PlaceInv'
    BY <1>1, <1>2, <1>5, <2>1 DEF PlaceInv
  <2>4. RecInv'
    <3>1. q.chars <= i
      BY <1>0
    <3> QED
      BY <1>0, <1>3, <2>1, <2>2, <3>1 DEF RecInv
  <2>5. ModeInv'
    <3>1. /\ i \in Done .. Len(text)
          /\ \A j \in Done + 1 .. i : j \notin Brk(text)
      <4>1. \A j \in Done + 1 .. i : j \in Done + 1 .. i - 1 \/ j = i
        BY <1>0, <1>3
      <4> QED
        BY <1>0, <1>1, <1>3, <2>1, <4>1
    <3>2. /\ Start = 1 \/ Start - 1 \in Brk(text)
          /\ \A j \in Start .. i : j \notin Brk(text)
          /\ Start <= i => Start \in Bs(text)
      BY <1>0, <1>1, <1>3, <1>4, <3>1, NoBreakTo
    <3>3. OnBreaks(text, q, Start, i, FALSE)
      BY <1>0, <1>6, <2>1, <3>2 DEF OnBreaks, c
    <3> QED
      BY <1>3, <2>1, <2>2, <3>3 DEF ModeInv
  <2>6. YieldInv'
    BY <1>3, <1>4, <2>1, <2>2 DEF YieldInv
  <2> QED
    BY <2>3, <2>4, <2>5, <2>6 DEF SplitInv
<1>7. CASE IsBoundary(r, c)
  <2> DEFINE whole == AppendPiece(q, SubSeq(text, Stored + 1, i))
  <2>1. /\ rec' = NoRecord /\ skipLf' = (c = "cr") /\ segment' = i + 1 /\ i \in Brk(text)
        /\ records' = Append(records, Yielded(whole))
    <3>1. SubSeq(delivered, segment, i) = SubSeq(text, segment, i)
      <4>1. segment \in Nat \ {0} /\ i \in 0 .. Len(delivered)
        BY <1>0, <1>1
      <4> QED
        BY <4>1, TextIs
    <3>2. Stored + 1 = segment
      BY <1>0
    <3> QED
      BY <1>0, <1>2, <1>7, <3>1, <3>2
  <2>2. /\ whole \in Rec /\ whole.chars = i + 1 - Start /\ Counts(whole, 0)
        /\ Holds(text, whole, Start, i)
    <3>1. Stored \in Nat /\ i \in 0 .. Len(text) /\ Stored <= i /\ Start \in 1 .. i + 1
      BY <1>0, <1>1
    <3> QED
      BY <1>0, <1>1, <3>1, PieceHolds
  <2> HIDE DEF whole
  <2>3. Yielded(whole) = Kept(SubSeq(text, Start, i))
    BY <1>0, <1>1, <2>2, KeptIs
  <2>4. Yielded(whole) \in Results
    BY <2>2 DEF Yielded, Results, Rec
  <2>5. Stored' = i /\ Start' = i + 1 /\ Closed' = i + 1
    <3>1. Stored' = (i + 1) - 1 /\ (i + 1) - 1 = i
      BY <1>0, <1>2, <2>1 DEF Stored
    <3>2. Start' = i + 1 - 0 /\ i + 1 - 0 = i + 1
      BY <1>0, <1>3, <2>1 DEF Start, NoRecord
    <3> QED
      BY <1>2, <3>1, <3>2 DEF Closed
  <2>6. PlaceInv'
    <3>1. skipLf' \in BOOLEAN
      BY <2>1
    <3> QED
      BY <1>1, <1>2, <1>5, <2>1, <3>1 DEF PlaceInv
  <2>7. RecInv'
    <3>1. /\ NoRecord \in Rec /\ NoRecord.chars = 0 /\ NoRecord.parts = <<>>
          /\ NoRecord.truncated = FALSE /\ NoRecord.quotePending = FALSE
      BY DEF NoRecord, Rec, Bytes
    <3>2. Counts(NoRecord, 0)
      BY <3>1, LimitIs DEF Counts
    <3>3. SubSeq(text, i + 1, i) = <<>>
      BY <1>0, SubSeqEmpty
    <3>4. Holds(text, NoRecord, i + 1, i)
      BY <3>1, <3>3 DEF Holds
    <3>5. i - i = 0 /\ 0 <= i
      BY <1>0
    <3> QED
      BY <1>3, <2>1, <2>5, <3>1, <3>2, <3>4, <3>5 DEF RecInv
  <2>8. ModeInv'
    <3>1. (i + 1) - 1 = i /\ i + 1 .. i = {} /\ ~(i + 1 <= i)
      BY <1>0
    <3>2. Mode(text)[i] = "start" /\ ModeOf(NoRecord) = "start"
      BY <1>1, <2>1, AfterBreak DEF NoRecord, ModeOf
    <3>3. OnBreaks(text, NoRecord, i + 1, i, c = "cr")
      BY <2>1, <3>1, <3>2 DEF OnBreaks, c
    <3> QED
      BY <1>3, <2>1, <2>5, <3>3 DEF ModeInv
  <2>9. Start \in Bs(text) /\ \A j \in Start .. i - 1 : j \notin Brk(text)
    <3>1. i - 1 \in Done .. Len(text)
      BY <1>0, <1>1, <1>3
    <3>2. /\ Start = 1 \/ Start - 1 \in Brk(text)
          /\ \A j \in Start .. i - 1 : j \notin Brk(text)
          /\ Start <= i - 1 => Start \in Bs(text)
      BY <1>0, <1>1, <1>3, <1>4, <3>1, NoBreakTo
    <3>3. CASE Start <= i - 1
      BY <3>2, <3>3
    <3>4. CASE ~(Start <= i - 1)
      <4>1. Start = i /\ Done = i - 1 /\ counted = i
        BY <1>0, <1>3, <3>4
      \* The LF of a CR LF is not here: it is skipped.
      <4>2. ~(text[i] = "lf" /\ i - 1 \in Brk(text) /\ text[i - 1] = "cr")
        <5> SUFFICES ASSUME text[i] = "lf", i - 1 \in Brk(text), text[i - 1] = "cr" PROVE FALSE
          OBVIOUS
        <5>1. skipLf
          BY <1>4, <4>1 DEF OnBreaks
        <5>2. segment = counted
          BY <1>2, <5>1 DEF SplitInv, PlaceInv
        <5> QED
          BY <1>2, <4>1, <5>1, <5>2 DEF c
      <4> QED
        BY <1>0, <1>1, <3>2, <4>1, <4>2, BreakIs
    <3> QED
      BY <3>2, <3>3, <3>4
  <2>10. YieldInv'
    <3>1. Start \in 1 .. Len(text) /\ i \in Start .. Len(text)
      BY <1>0, <1>1
    <3>2. YieldsTo(text, Append(records, Yielded(whole)), i + 1)
      BY <1>1, <1>4, <2>1, <2>3, <2>4, <2>9, <3>1, YieldOne
    <3>3. Append(records, Yielded(whole)) \in Seq(Results)
      BY <1>4, <2>4
    <3> QED
      BY <1>3, <2>1, <2>5, <3>2, <3>3 DEF YieldInv
  <2> QED
    BY <2>6, <2>7, <2>8, <2>10 DEF SplitInv
<1> QED
  BY <1>6, <1>7

LEMMA EndPieceSteps ==
    ASSUME StreamInv, SplitInv, EndPiece
    PROVE  SplitInv'
<1> DEFINE n == pos + 1 - counted
           r == PassOther(rec, n)
           whole == AppendPiece(r, SubSeq(text, Stored + 1, pos))
<1>0. /\ pos \in Nat /\ counted \in Nat /\ segment \in Nat /\ 1 <= segment /\ segment <= counted
      /\ counted <= pos + 1 /\ pos <= Len(delivered) /\ Len(delivered) \in Nat
      /\ text \in Bytes /\ Len(text) \in Nat /\ Len(delivered) <= Len(text)
      /\ \A j \in 1 .. Len(delivered) : delivered[j] = text[j]
      /\ skipLf \in BOOLEAN
  BY TextIs DEF SplitInv, PlaceInv
<1>1. /\ phase = "scanning" /\ phase' = "reading" /\ SpecialsAhead = {}
      /\ rec' = AppendPiece(r, SubSeq(delivered, segment, pos))
      /\ skipLf' = (skipLf /\ n = 0)
      /\ UNCHANGED <<object, delivered, size, pos, segment, counted, records>>
  BY DEF EndPiece, stream, position
<1>2. Done = counted - 1 /\ Stored = segment - 1 /\ Done' = pos /\ Stored' = pos /\ text' = text
  BY <1>1 DEF Done, Stored, text
<1>3. rec' = whole
  <2>1. SubSeq(delivered, segment, pos) = SubSeq(text, segment, pos)
    <3>1. segment \in Nat \ {0} /\ pos \in 0 .. Len(delivered)
      BY <1>0
    <3> QED
      BY <3>1, TextIs
  <2>2. Stored + 1 = segment
    BY <1>0, <1>2
  <2> QED
    BY <1>1, <2>1, <2>2
<1>4. n \in Nat /\ (counted - 1) + n = pos /\ counted - 1 \in Nat
  BY <1>0
<1>5. \A j \in counted .. pos : text[j] \notin Special /\ j \notin Brk(text)
  <2>1. ASSUME NEW j \in counted .. pos
        PROVE  text[j] \notin Special /\ j \notin Brk(text)
    <3>1. j \in 1 .. Len(delivered) /\ j \in 1 .. Len(text)
      BY <1>0
    <3>2. text[j] \notin Special
      BY <1>0, <1>1, <3>1 DEF SpecialsAhead
    <3> QED
      BY <1>0, <3>1, <3>2, BreakIs DEF Special, Newline
  <2> QED
    BY <2>1
<1>6. /\ rec \in Rec /\ (rec.quotePending => rec.inQuotes) /\ rec.chars \in Nat
      /\ rec.chars <= counted - 1 /\ Counts(rec, (counted - 1) - (segment - 1))
      /\ Holds(text, rec, Start, Stored) /\ Start = (counted - 1) + 1 - rec.chars
  BY <1>2 DEF SplitInv, RecInv, Rec, Start
<1>7. /\ OnBreaks(text, rec, Start, Done, skipLf)
      /\ records \in Seq(Results) /\ YieldsTo(text, records, Start)
  BY <1>1 DEF SplitInv, ModeInv, YieldInv, Closed
<1>8. ModeOf(r) = Mode(text)[pos]
  <2> DEFINE a == counted - 1
  <2>1. a \in Nat /\ a + n = pos /\ a + n <= Len(text) /\ a + 1 = counted
    BY <1>0, <1>4
  <2>2. \A j \in a + 1 .. a + n : text[j] \notin Special
    BY <1>5, <2>1
  <2>3. ModeOf(rec) = Mode(text)[a]
    BY <1>2, <1>7 DEF OnBreaks
  <2> HIDE DEF a, n
  <2>4. ModeOf(PassOther(rec, n)) = Mode(text)[a + n]
    BY <1>0, <1>4, <1>6, <2>1, <2>2, <2>3, OtherModes
  <2> QED
    BY <2>1, <2>4
<1>9. /\ r \in Rec /\ (r.quotePending => r.inQuotes) /\ r.chars = rec.chars + n
      /\ r.parts = rec.parts /\ r.truncated = rec.truncated
  <2> HIDE DEF n
  <2> QED
    BY <1>4, <1>6, PassOtherIs
<1> HIDE DEF r
<1>10. Start \in 1 .. pos + 1 /\ Start \in 1 .. Done + 1 /\ r.chars = pos + 1 - Start /\ Done \in 0 .. pos
  <2>1. Start = counted - rec.chars /\ Done + 1 = counted
    BY <1>0, <1>2, <1>6
  <2>2. Start \in 1 .. pos + 1 /\ Start \in 1 .. counted
    BY <1>0, <1>6, <2>1
  <2>3. r.chars = pos + 1 - Start
    BY <1>0, <1>6, <1>9, <2>1
  <2> QED
    BY <1>0, <1>2, <2>1, <2>2, <2>3
<1>11. Counts(r, pos - Stored)
  <2>1. MaxRecord \in Nat /\ Len(rec.parts) \in Nat
    BY <1>6, LimitIs DEF Rec, Bytes
  <2>2. CASE rec.truncated
    <3>1. Len(rec.parts) <= Limit /\ rec.chars > MaxRecord
      BY <1>6, <2>2 DEF Counts
    <3>2. r.chars > MaxRecord
      BY <1>4, <1>6, <1>9, <2>1, <3>1
    <3> QED
      BY <1>9, <2>2, <3>1, <3>2 DEF Counts
  <2>3. CASE ~rec.truncated
    <3>1. Len(rec.parts) <= MaxRecord /\ rec.chars = Len(rec.parts) + ((counted - 1) - (segment - 1))
      BY <1>6, <2>3 DEF Counts
    <3>2. r.chars = Len(rec.parts) + (pos - Stored)
      <4> DEFINE l == Len(rec.parts)
      <4>1. /\ l \in Nat /\ rec.chars = l + ((counted - 1) - (segment - 1))
            /\ r.chars = rec.chars + (pos + 1 - counted)
            /\ pos \in Nat /\ counted \in Nat /\ segment \in Nat /\ Stored = segment - 1
        BY <1>0, <1>2, <1>9, <2>1, <3>1
      <4> HIDE DEF l
      <4>2. r.chars = l + (pos - Stored)
        BY <4>1
      <4> QED
        BY <4>2 DEF l
    <3> QED
      BY <1>9, <2>3, <3>1, <3>2 DEF Counts
  <2> QED
    BY <2>2, <2>3
<1>12. Holds(text, r, Start, Stored)
  BY <1>6, <1>9 DEF Holds
<1>13. /\ whole \in Rec /\ Counts(whole, 0) /\ Holds(text, whole, Start, pos)
       /\ whole.chars = r.chars /\ whole.inQuotes = r.inQuotes
       /\ whole.quotePending = r.quotePending /\ whole.atFieldStart = r.atFieldStart
  <2>1. Stored \in Nat /\ pos \in 0 .. Len(text) /\ Stored <= pos
    BY <1>0, <1>2
  <2> QED
    BY <1>0, <1>9, <1>10, <1>11, <1>12, <2>1, PieceHolds
<1> HIDE DEF whole
<1>14. Start' = Start /\ Closed' = Start
  <2>1. Start' = pos + 1 - whole.chars /\ pos + 1 - whole.chars = Start
    BY <1>0, <1>2, <1>3, <1>10, <1>13 DEF Start
  <2> QED
    BY <1>1, <2>1 DEF Closed
<1>15. PlaceInv'
  <2>1. skipLf' \in BOOLEAN
    BY <1>1
  <2> QED
    BY <1>1, <2>1 DEF SplitInv, PlaceInv
<1>16. RecInv'
  <2>1. whole.chars <= pos /\ pos - pos = 0
    BY <1>0, <1>10, <1>13
  <2> QED
    BY <1>2, <1>3, <1>9, <1>13, <1>14, <2>1 DEF RecInv
<1>17. ModeInv'
  <2>1. ModeOf(whole) = ModeOf(r)
    BY <1>13 DEF ModeOf
  <2>2. /\ Start = 1 \/ Start - 1 \in Brk(text)
        /\ \A j \in Start .. pos : j \notin Brk(text)
        /\ Start <= pos => Start \in Bs(text)
    <3>1. pos \in Done .. Len(text) /\ Done \in Nat /\ \A j \in Done + 1 .. pos : j \notin Brk(text)
      BY <1>0, <1>2, <1>5, <1>10
    <3> QED
      BY <1>0, <1>7, <1>10, <3>1, NoBreakTo
  <2>3. skipLf' <=> pos \in Brk(text) /\ text[pos] = "cr"
    <3>1. CASE n = 0
      <4>1. Done = pos
        BY <1>0, <1>2, <1>4, <3>1
      <4> QED
        BY <1>1, <1>7, <3>1, <4>1 DEF OnBreaks
    <3>2. CASE n # 0
      <4>1. pos \in counted .. pos
        BY <1>0, <1>4, <3>2
      <4> QED
        BY <1>1, <1>5, <3>2, <4>1
    <3> QED
      BY <3>1, <3>2
  <2>4. OnBreaks(text, whole, Start, pos, skipLf')
    BY <1>8, <2>1, <2>2, <2>3 DEF OnBreaks
  <2> QED
    BY <1>2, <1>3, <1>14, <2>4 DEF ModeInv
<1>18. YieldInv'
  BY <1>1, <1>2, <1>7, <1>14 DEF YieldInv
<1> QED
  BY <1>15, <1>16, <1>17, <1>18 DEF SplitInv

LEMMA EndOfTextSteps ==
    ASSUME StreamInv, SplitInv, EndOfText
    PROVE  SplitInv'
<1>0. /\ text \in Bytes /\ Len(text) \in Nat /\ delivered = text /\ pos = Len(text)
      /\ phase = "reading" /\ phase' = "done"
      /\ records' = IF rec.chars > 0 THEN Append(records, Yielded(rec)) ELSE records
      /\ UNCHANGED <<object, delivered, size, pos, segment, counted, rec, skipLf>>
  BY TextIs DEF EndOfText, stream, position, StreamInv, Ending
<1>1. Done = pos /\ Stored = pos /\ Closed = Start /\ Closed' = Len(text) + 1
      /\ UNCHANGED <<text, Done, Stored, Start>>
  BY <1>0 DEF text, Done, Stored, Start, Closed
<1>2. /\ rec \in Rec /\ rec.chars \in Nat /\ rec.chars <= pos /\ Counts(rec, 0)
      /\ Holds(text, rec, Start, pos) /\ Start = pos + 1 - rec.chars
  <2>1. pos - pos = 0
    BY <1>0
  <2> QED
    BY <1>1, <2>1 DEF SplitInv, RecInv, Rec, Start
<1>3. /\ OnBreaks(text, rec, Start, pos, skipLf)
      /\ records \in Seq(Results) /\ YieldsTo(text, records, Start)
  BY <1>0, <1>1 DEF SplitInv, ModeInv, YieldInv
<1>4. PlaceInv'
  BY <1>0 DEF SplitInv, PlaceInv
<1>5. RecInv'
  BY <1>0, <1>1 DEF SplitInv, RecInv
<1>6. ModeInv'
  BY <1>0 DEF ModeInv
<1>7. YieldInv'
  <2>1. CASE rec.chars > 0
    <3>1. pos \in 1 .. Len(text) /\ Start \in 1 .. pos /\ rec.chars = pos + 1 - Start
      BY <1>0, <1>2, <2>1
    <3>2. Yielded(rec) = Kept(SubSeq(text, Start, pos))
      BY <1>0, <1>2, <3>1, KeptIs
    <3>3. Yielded(rec) \in Results
      BY <1>2 DEF Yielded, Results, Rec
    <3>4. Start \in Bs(text) /\ \A j \in Start .. pos - 1 : j \notin Brk(text)
      <4>1. \A j \in Start .. pos - 1 : j \in Start .. pos
        BY <1>0, <3>1
      <4>2. Start <= pos
        BY <1>0, <3>1
      <4> QED
        BY <1>3, <4>1, <4>2 DEF OnBreaks
    <3>5. Start \in 1 .. Len(text) /\ pos \in Start .. Len(text)
      BY <1>0, <3>1
    <3>6. YieldsTo(text, Append(records, Yielded(rec)), pos + 1)
      BY <1>0, <1>3, <3>2, <3>3, <3>4, <3>5, YieldOne
    <3>7. Append(records, Yielded(rec)) \in Seq(Results)
      BY <1>3, <3>3
    <3> QED
      BY <1>0, <1>1, <2>1, <3>6, <3>7 DEF YieldInv
  <2>2. CASE ~(rec.chars > 0)
    <3>1. Start = Len(text) + 1
      BY <1>0, <1>2, <2>2
    <3> QED
      BY <1>0, <1>1, <1>3, <2>2, <3>1 DEF YieldInv
  <2> QED
    BY <2>1, <2>2
<1> QED
  BY <1>4, <1>5, <1>6, <1>7 DEF SplitInv

-----------------------------------------------------------------------------
(* The theorems                                                            *)

Inv == StreamInv /\ SplitInv

LEMMA Inductive ==
    ASSUME Inv, [Next]_vars
    PROVE  Inv'
<1> USE DEF Inv
<1>0. Len(delivered) \in Nat /\ pos \in Nat /\ delivered \in Bytes /\ target \in Bytes
  BY TextIs DEF StreamInv, StreamTypes
<1>1. CASE AskStream
  <2>1. ReadInto /\ phase = "reading" /\ ~Enough /\ UNCHANGED splitter
    BY <1>1 DEF AskStream
  <2>2. UNCHANGED <<object, chunks, current, delivered, late, size, pos, phase>>
    BY <2>1 DEF ReadInto, splitter, position
  <2> QED
    BY <1>0, <2>1, <2>2, OtherStreamSteps, SplitKeeps
<1>2. CASE StreamStep
  <2>1. ReadStep /\ UNCHANGED splitter /\ UNCHANGED <<size, pos, phase>>
    BY <1>2 DEF StreamStep, splitter, position
  <2>2. CASE CopyAvailable
    <3>1. UNCHANGED <<object, delivered>>
      BY <2>2 DEF CopyAvailable
    <3> QED
      BY <1>0, <2>1, <2>2, <3>1, CopySteps, SplitKeeps
  <2>3. CASE BeforeNextChunk \/ NoMoreChunks
    <3>1. UNCHANGED <<object, chunks, current, delivered, late>>
      BY <2>3 DEF BeforeNextChunk, NoMoreChunks
    <3> QED
      BY <1>0, <2>1, <2>3, <3>1, OtherStreamSteps, SplitKeeps
  <2>4. CASE TakeChunk
    <3>1. UNCHANGED <<object, delivered>>
      BY <2>4 DEF TakeChunk
    <3> QED
      BY <1>0, <2>1, <2>4, <3>1, TakeSteps, SplitKeeps
  <2>5. CASE Return
    <3>1. UNCHANGED object /\ delivered' = delivered \o target
      BY <2>5 DEF Return
    <3>2. Len(delivered') = Len(delivered) + Len(target) /\ Len(target) \in Nat
      BY <1>0, <3>1 DEF Bytes
    <3>3. Len(delivered) <= Len(delivered') /\ Len(delivered') \in Nat
      BY <1>0, <3>2
    <3> QED
      BY <1>0, <2>1, <2>5, <3>1, <3>3, ReturnSteps, SplitKeeps
  <2> QED
    BY <2>1, <2>2, <2>3, <2>4, <2>5 DEF ReadStep
<1>3. CASE LoseLock
  <2>1. /\ LoseConnection /\ UNCHANGED splitter
        /\ UNCHANGED <<object, chunks, current, delivered, late, size, pos, phase>>
    BY <1>3 DEF LoseLock, LoseConnection, splitter, position
  <2> QED
    BY <1>0, <2>1, OtherStreamSteps, SplitKeeps
<1>4. CASE ReadPiece
  <2>1. SplitInv' /\ pos' \in Nat
    BY <1>4, ReadPieceSteps
  <2>2. /\ HasPiece /\ phase' = "scanning" /\ pc' = "reader"
        /\ UNCHANGED <<object, chunks, current, wanted, target, delivered, lost, late, size>>
    BY <1>4 DEF ReadPiece
  <2> QED
    BY <2>1, <2>2, ReaderSteps
<1>5. CASE SkipLineFeed \/ HandleSpecial \/ EndPiece \/ EndOfText
  <2>1. SplitInv'
    BY <1>5, SkipLineFeedSteps, HandleSpecialSteps, EndPieceSteps, EndOfTextSteps
  <2>2. UNCHANGED <<stream, size, pos>>
    BY <1>5 DEF SkipLineFeed, HandleSpecial, EndPiece, EndOfText, position
  <2>3. \/ phase = "scanning" /\ phase' \in {"scanning", "reading"}
        \/ phase' = "done" /\ pc = "end of file"
    BY <1>5 DEF SkipLineFeed, HandleSpecial, EndPiece, EndOfText
  <2>4. UNCHANGED <<object, chunks, current, wanted, target, delivered, lost, late, pc, size, pos>>
    BY <2>2 DEF stream
  <2> QED
    BY <1>0, <2>1, <2>3, <2>4, ReaderSteps
<1>6. CASE UNCHANGED vars
  <2>1. UNCHANGED <<object, chunks, current, wanted, target, delivered, lost, late, pc, size, pos, phase>>
        /\ UNCHANGED splitter
    BY <1>6 DEF vars, stream, splitter, position
  <2> QED
    BY <1>0, <2>1, ReaderSteps, SplitKeeps
<1> QED
  BY <1>1, <1>2, <1>3, <1>4, <1>5, <1>6 DEF Next, Finished

\* The bytes of the object are on their way to the reader in their order, and
\* the record being collected is where the text stands (readinto and
\* _iter_logical_records).
THEOREM RecordsInvariant == Spec => []Inv
<1>1. Init => Inv
  BY StreamStarts, SplitStarts DEF Inv
<1>2. Inv /\ [Next]_vars => Inv'
  BY Inductive
<1> QED
  BY <1>1, <1>2, PTL DEF Spec

LEMMA SuffixIs ==
    ASSUME Inv
    PROVE  IsSuffix(chunks, object)
<1> DEFINE n == Len(chunks)
           N == Len(object)
           c == Reverse(chunks)
           o == Reverse(object)
<1>0. /\ n \in Nat /\ N \in Nat /\ n <= N /\ Taken = N - n
      /\ \A i \in 1 .. n : chunks[i] = object[(N - n) + i]
  BY ObjectIs DEF Inv, StreamInv, Flow, Taken
<1>1. c = [i \in 1 .. n |-> chunks[(n - i) + 1]] /\ o = [i \in 1 .. N |-> object[(N - i) + 1]]
  BY DEF Reverse
<1>2. ASSUME NEW i \in 1 .. n
      PROVE  c[i] = o[i]
  <2>1. (n - i) + 1 \in 1 .. n /\ i \in 1 .. N /\ (N - n) + ((n - i) + 1) = (N - i) + 1
    BY <1>0
  <2>2. chunks[(n - i) + 1] = object[(N - n) + ((n - i) + 1)]
    BY <1>0, <2>1
  <2> QED
    BY <1>1, <2>1, <2>2
<1>3. Len(c) = n /\ Len(o) = N
  BY <1>0, <1>1
<1> HIDE DEF c, o, n, N
<1>4. SubSeq(c, 1, n) = SubSeq(o, 1, n)
  <2> DEFINE S == {c[i] : i \in 1 .. n}
             u == SubSeq(c, 1, n)
             v == SubSeq(o, 1, n)
             l == IF 1 <= n THEN n - 1 + 1 ELSE 0
  <2>1. \A i \in 1 .. n : c[i] \in S /\ o[i] \in S
    BY <1>2
  <2> HIDE DEF S
  <2>2. /\ u \in Seq(S) /\ Len(u) = l
        /\ \A i \in 1 .. n - 1 + 1 : u[i] = c[1 + i - 1]
    BY <1>0, <2>1, SubSeqProperties
  <2>3. /\ v \in Seq(S) /\ Len(v) = l
        /\ \A i \in 1 .. n - 1 + 1 : v[i] = o[1 + i - 1]
    BY <1>0, <2>1, SubSeqProperties
  <2>4. l = n /\ n - 1 + 1 = n /\ \A i \in 1 .. n : 1 + i - 1 = i
    BY <1>0
  <2> HIDE DEF u, v, l
  <2>5. \A i \in 1 .. n : u[i] = v[i]
    BY <1>2, <2>2, <2>3, <2>4
  <2>6. u = v
    BY <2>2, <2>3, <2>4, <2>5
  <2> QED
    BY <2>6 DEF u, v
<1> QED
  BY <1>0, <1>3, <1>4 DEF IsSuffix, IsPrefix, c, o, n, N

\* A call never writes past the end of its buffer, and what is stored of a
\* record never exceeds the limit, whatever the file holds (append_piece).
THEOREM TypeCorrect == Spec => []TypeOK
<1>1. Inv => TypeOK
  <2> SUFFICES ASSUME Inv PROVE TypeOK
    OBVIOUS
  <2>1. StreamTypeOK
    <3>1. /\ Len(object) \in Nat /\ Len(chunks) \in Nat /\ Len(chunks) <= Len(object)
          /\ Len(target) \in Nat /\ wanted \in Nat /\ Len(target) <= wanted
          /\ late \in Nat /\ late <= Taken
      BY ObjectIs DEF Inv, StreamInv, StreamTypes, Flow, Calling, Lateness
    <3>2. late \in 0 .. Len(object) /\ Len(target) \in 0 .. wanted
      BY <3>1 DEF Taken
    <3> QED
      BY <3>2, SuffixIs DEF Inv, StreamInv, StreamTypes, StreamTypeOK
  <2>2. pos \in 0 .. Len(delivered)
    BY TextIs DEF Inv, SplitInv, PlaceInv
  <2>3. rec \in Rec /\ Counts(rec, Done - Stored)
    BY DEF Inv, SplitInv, RecInv
  <2>4. Len(rec.parts) <= IF rec.truncated THEN Limit ELSE MaxRecord
    BY <2>3 DEF Counts
  <2>5. rec.truncated => rec.chars > Len(rec.parts)
    <3>1. Len(rec.parts) \in Nat /\ rec.chars \in Nat
      BY <2>3 DEF Rec, Bytes
    <3>2. rec.truncated => Len(rec.parts) <= Limit /\ rec.chars > MaxRecord
      BY <2>3 DEF Counts
    <3> QED
      BY <3>1, <3>2, LimitIs
  <2> QED
    BY <2>1, <2>2, <2>3, <2>4, <2>5
    DEF TypeOK, Inv, StreamInv, StreamTypes, SplitInv, PlaceInv, RecInv, Rec, Bytes, Limit
<1> QED
  BY <1>1, RecordsInvariant, PTL

\* After the lock connection is lost at most the chunk that was already asked
\* for is taken (before_next_chunk in readinto).
THEOREM OneChunk == Spec => []OneChunkAfterLoss
<1>1. Inv => OneChunkAfterLoss
  BY DEF Inv, StreamInv, Lateness, OneChunkAfterLoss
<1> QED
  BY <1>1, RecordsInvariant, PTL

\* The records are those of the text, wherever the chunks, the buffers and the
\* pieces are cut (_iter_logical_records).
THEOREM SplitsCorrectly == Spec => []SplitsAsCsv
<1>1. Inv => SplitsAsCsv
  <2> SUFFICES ASSUME Inv PROVE SplitsAsCsv
    OBVIOUS
  <2>1. text \in Bytes /\ Len(text) \in Nat /\ pos \in Nat /\ Len(delivered) <= Len(text)
        /\ Len(delivered) \in Nat /\ pos <= Len(delivered)
    BY TextIs DEF Inv, SplitInv, PlaceInv
  <2>2. Closed \in Nat
    <3>1. CASE phase = "done"
      BY <2>1, <3>1 DEF Closed
    <3>2. CASE phase # "done"
      <4>1. rec.chars \in Nat /\ rec.chars <= Done
        BY DEF Inv, SplitInv, RecInv, Rec
      <4>2. Done \in Int
        <5>1. counted \in Int
          BY <2>1 DEF Inv, SplitInv, PlaceInv
        <5> QED
          BY <2>1, <5>1 DEF Done
      <4> QED
        BY <3>2, <4>1, <4>2 DEF Closed, Start
    <3> QED
      BY <3>1, <3>2
  <2>3. records \in Seq(Results) /\ YieldsTo(text, records, Closed)
    BY DEF Inv, SplitInv, YieldInv
  <2>4. /\ Len(records) <= Len(RecordsOf(text))
        /\ \A k \in 1 .. Len(records) : records[k] = Kept(RecordsOf(text)[k])
        /\ Closed = Len(text) + 1 => Len(records) = Len(RecordsOf(text))
    BY <2>1, <2>2, <2>3, YieldsFirst
  <2>5. DOMAIN records = 1 .. Len(records)
    BY <2>3
  <2>6. phase = "done" => Closed = Len(text) + 1
    BY DEF Closed
  <2> QED
    BY <2>4, <2>5, <2>6, Zenon DEF SplitsAsCsv
<1> QED
  BY <1>1, RecordsInvariant, PTL

-----------------------------------------------------------------------------
(* The reader: its states, and one character of them.                      *)

ReaderModes == {"record", "field", "plain", "quoted", "closing", "eat"}
Outcomes    == [error : BOOLEAN, row : Seq(Bytes)]

State(mode, field, row, rows) == [mode |-> mode, field |-> field, row |-> row, rows |-> rows]

\* Nothing of a field is left where a line has ended or begins.
States ==
    {s \in [mode : ReaderModes, field : Bytes, row : Seq(Bytes), rows : Seq(Outcomes)] :
        /\ s.mode \in {"record", "eat"} => s.field = <<>>
        /\ s.mode = "record" => s.row = <<>>}

\* Between two rows, and a state with other rows before its own.
Fresh(rows)   == State("record", <<>>, <<>>, rows)
Over(rows, s) == State(s.mode, s.field, s.row, rows \o s.rows)

\* What the reader does with a character, and the mode it goes to.
Fails(m, c) == (m = "eat" /\ c \notin Newline) \/ (m = "closing" /\ c = "other")
Adds(m, c)  == \/ m = "quoted" /\ c # "quote"
               \/ m = "closing" /\ c = "quote"
               \/ m = "plain" /\ c \in {"quote", "other"}
               \/ m \in {"record", "field"} /\ c = "other"
Saves(m, c) == \/ m = "record" /\ c = "comma"
               \/ m \in {"field", "plain", "closing"} /\ c \in Newline \cup {"comma"}

ToMode(m, c) ==
    CASE Fails(m, c) -> m
      [] Adds(m, c)  -> IF m \in {"quoted", "closing"} THEN "quoted" ELSE "plain"
      [] OTHER -> CASE c = "comma"    -> "field"
                    [] c \in Newline  -> "eat"
                    [] OTHER          -> IF m = "quoted" THEN "closing" ELSE "quoted"

Passed(s, c) ==
    LET m == s.mode IN
    State(ToMode(m, c),
          IF Adds(m, c) THEN Append(s.field, c) ELSE IF Saves(m, c) THEN <<>> ELSE s.field,
          IF Saves(m, c) THEN Append(s.row, s.field) ELSE s.row,
          IF Fails(m, c) THEN Append(s.rows, Error) ELSE s.rows)

LEMMA StateIs ==
    ASSUME NEW s \in States
    PROVE  /\ s.mode \in ReaderModes /\ s.field \in Bytes /\ s.row \in Seq(Bytes)
           /\ s.rows \in Seq(Outcomes)
           /\ s = State(s.mode, s.field, s.row, s.rows)
           /\ s.mode \in {"record", "eat"} => s.field = <<>>
           /\ s.mode = "record" => s.row = <<>>
BY DEF States, State

LEMMA StatesAre ==
    ASSUME NEW m \in ReaderModes, NEW f \in Bytes, NEW w \in Seq(Bytes), NEW R \in Seq(Outcomes),
           m \in {"record", "eat"} => f = <<>>, m = "record" => w = <<>>
    PROVE  State(m, f, w, R) \in States
BY DEF States, State

LEMMA StateParts ==
    ASSUME NEW m, NEW f, NEW w, NEW R
    PROVE  /\ State(m, f, w, R).mode = m /\ State(m, f, w, R).field = f
           /\ State(m, f, w, R).row = w /\ State(m, f, w, R).rows = R
BY DEF State

\* What EXCEPT makes of a state.
LEMMA EditsAre ==
    ASSUME NEW s \in States, NEW k, NEW c
    PROVE  /\ [s EXCEPT !.mode = k] = State(k, s.field, s.row, s.rows)
           /\ [s EXCEPT !.rows = Append(@, Error)] =
                  State(s.mode, s.field, s.row, Append(s.rows, Error))
           /\ SaveField(s, k) = State(k, <<>>, Append(s.row, s.field), s.rows)
           /\ AddChar(s, c, k) = State(k, Append(s.field, c), s.row, s.rows)
<1> DEFINE m == s.mode  f == s.field  w == s.row  R == s.rows
<1>1. s = State(m, f, w, R)
  BY StateIs
<1>0. s.mode = m /\ s.field = f /\ s.row = w /\ s.rows = R
  OBVIOUS
<1> HIDE DEF m, f, w, R
<1>2. SaveField(s, k) = State(k, <<>>, Append(w, f), R)
  <2>1. SaveField(s, k) =
            [[[s EXCEPT !.row = Append(w, f)] EXCEPT !.field = <<>>] EXCEPT !.mode = k]
    BY <1>0 DEF SaveField
  <2>2. [s EXCEPT !.row = Append(w, f)] = State(m, f, Append(w, f), R)
    BY <1>1 DEF State
  <2>3. [State(m, f, Append(w, f), R) EXCEPT !.field = <<>>] = State(m, <<>>, Append(w, f), R)
    BY DEF State
  <2>4. [State(m, <<>>, Append(w, f), R) EXCEPT !.mode = k] = State(k, <<>>, Append(w, f), R)
    BY DEF State
  <2> QED
    BY ONLY <2>1, <2>2, <2>3, <2>4, Zenon
<1>3. AddChar(s, c, k) = State(k, Append(f, c), w, R)
  <2>1. AddChar(s, c, k) = [[s EXCEPT !.field = Append(f, c)] EXCEPT !.mode = k]
    BY <1>0 DEF AddChar
  <2>2. [s EXCEPT !.field = Append(f, c)] = State(m, Append(f, c), w, R)
    BY <1>1 DEF State
  <2>3. [State(m, Append(f, c), w, R) EXCEPT !.mode = k] = State(k, Append(f, c), w, R)
    BY DEF State
  <2> QED
    BY ONLY <2>1, <2>2, <2>3, Zenon
<1>4. [s EXCEPT !.mode = k] = State(k, f, w, R)
  BY <1>1 DEF State
<1>5. [s EXCEPT !.rows = Append(@, Error)] = State(m, f, w, Append(R, Error))
  <2>1. [s EXCEPT !.rows = Append(@, Error)] = [s EXCEPT !.rows = Append(R, Error)]
    BY <1>0
  <2>2. [s EXCEPT !.rows = Append(R, Error)] = State(m, f, w, Append(R, Error))
    BY <1>1, SMTT(30) DEF State
  <2> QED
    BY ONLY <2>1, <2>2, Zenon
<1> QED
  BY <1>2, <1>3, <1>4, <1>5 DEF m, f, w, R

LEMMA CharIs ==
    ASSUME NEW s \in States, NEW c \in Characters
    PROVE  ReaderChar(s, c) = Passed(s, c)
<1> DEFINE m == s.mode
<1>1. /\ m \in ReaderModes /\ s = State(m, s.field, s.row, s.rows)
      /\ c \in {"quote", "comma", "cr", "lf", "other"}
  BY StateIs DEF Characters, Special
<1>2. CASE m \in {"record", "eat"} /\ c \in Newline
  <2>0. ReaderChar(s, c) = [s EXCEPT !.mode = "eat"]
    BY <1>1, <1>2 DEF ReaderChar, Fails, Newline
  <2>1. ReaderChar(s, c) = State("eat", s.field, s.row, s.rows)
    BY ONLY <2>0, s \in States, EditsAre
  <2> QED
    BY <1>1, <1>2, <2>1 DEF Passed, ToMode, Fails, Adds, Saves, Newline
<1>3. CASE m \in {"record", "field"} /\ c = "quote"
  <2>0. ReaderChar(s, c) = [s EXCEPT !.mode = "quoted"]
    BY <1>1, <1>3 DEF ReaderChar, Fails, Newline
  <2>1. ReaderChar(s, c) = State("quoted", s.field, s.row, s.rows)
    BY ONLY <2>0, s \in States, EditsAre
  <2> QED
    BY <1>1, <1>3, <2>1 DEF Passed, ToMode, Fails, Adds, Saves, Newline
<1>4. CASE m = "quoted" /\ c = "quote"
  <2>0. ReaderChar(s, c) = [s EXCEPT !.mode = "closing"]
    BY <1>1, <1>4 DEF ReaderChar, Fails, Newline
  <2>1. ReaderChar(s, c) = State("closing", s.field, s.row, s.rows)
    BY ONLY <2>0, s \in States, EditsAre
  <2> QED
    BY <1>1, <1>4, <2>1 DEF Passed, ToMode, Fails, Adds, Saves, Newline
<1>5. CASE m = "quoted" /\ c # "quote"
  <2>0. ReaderChar(s, c) = AddChar(s, c, "quoted")
    BY <1>1, <1>5 DEF ReaderChar, Fails, Newline
  <2>1. ReaderChar(s, c) = State("quoted", Append(s.field, c), s.row, s.rows)
    BY ONLY <2>0, s \in States, EditsAre
  <2> QED
    BY <1>1, <1>5, <2>1 DEF Passed, ToMode, Fails, Adds, Saves, Newline
<1>6. CASE m = "closing" /\ c = "quote"
  <2>0. ReaderChar(s, c) = AddChar(s, c, "quoted")
    BY <1>1, <1>6 DEF ReaderChar, Fails, Newline
  <2>1. ReaderChar(s, c) = State("quoted", Append(s.field, c), s.row, s.rows)
    BY ONLY <2>0, s \in States, EditsAre
  <2> QED
    BY <1>1, <1>6, <2>1 DEF Passed, ToMode, Fails, Adds, Saves, Newline
<1>7. CASE Fails(m, c)
  <2>0. ReaderChar(s, c) = [s EXCEPT !.rows = Append(@, Error)]
    BY <1>1, <1>7 DEF ReaderChar, Fails, Newline
  <2>1. ReaderChar(s, c) = State(s.mode, s.field, s.row, Append(s.rows, Error))
    BY ONLY <2>0, s \in States, EditsAre
  <2> QED
    BY <1>1, <1>7, <2>1 DEF Passed, ToMode, Fails, Adds, Saves, Newline
<1>8. CASE m \in {"field", "plain", "closing"} /\ c \in Newline
  <2>0. ReaderChar(s, c) = SaveField(s, "eat")
    BY <1>1, <1>8 DEF ReaderChar, Fails, Newline
  <2>1. ReaderChar(s, c) = State("eat", <<>>, Append(s.row, s.field), s.rows)
    BY ONLY <2>0, s \in States, EditsAre
  <2> QED
    BY <1>1, <1>8, <2>1 DEF Passed, ToMode, Fails, Adds, Saves, Newline
<1>9. CASE m \in {"record", "field", "plain", "closing"} /\ c = "comma"
  <2>0. ReaderChar(s, c) = SaveField(s, "field")
    BY <1>1, <1>9 DEF ReaderChar, Fails, Newline
  <2>1. ReaderChar(s, c) = State("field", <<>>, Append(s.row, s.field), s.rows)
    BY ONLY <2>0, s \in States, EditsAre
  <2> QED
    BY <1>1, <1>9, <2>1 DEF Passed, ToMode, Fails, Adds, Saves, Newline
<1>10. CASE (m = "plain" /\ c = "quote") \/ (m \in {"record", "field", "plain"} /\ c = "other")
  <2>0. ReaderChar(s, c) = AddChar(s, c, "plain")
    BY <1>1, <1>10 DEF ReaderChar, Fails, Newline
  <2>1. ReaderChar(s, c) = State("plain", Append(s.field, c), s.row, s.rows)
    BY ONLY <2>0, s \in States, EditsAre
  <2> QED
    BY <1>1, <1>10, <2>1 DEF Passed, ToMode, Fails, Adds, Saves, Newline
<1> HIDE DEF m
<1> QED
  BY <1>1, <1>2, <1>3, <1>4, <1>5, <1>6, <1>7, <1>8, <1>9, <1>10 DEF ReaderModes, Fails, Newline

LEMMA LineEndIs ==
    ASSUME NEW s \in States
    PROVE  /\ s.mode = "quoted" => ReaderLineEnd(s) = s
           /\ s.mode # "quoted" =>
                 ReaderLineEnd(s) =
                     Fresh(Append(s.rows, Row(IF s.mode \in {"record", "eat"} THEN s.row
                                              ELSE Append(s.row, s.field))))
<1>1. s = State(s.mode, s.field, s.row, s.rows) /\ (s.mode \in {"record", "eat"} => s.field = <<>>)
  BY StateIs
<1>2. CASE s.mode = "quoted"
  BY <1>2 DEF ReaderLineEnd
<1>3. CASE s.mode \in {"record", "eat"}
  BY <1>1, <1>3 DEF ReaderLineEnd, State, Fresh
<1>4. CASE s.mode \notin {"quoted", "record", "eat"}
  <2>1. SaveField(s, "record") = State("record", <<>>, Append(s.row, s.field), s.rows)
    BY EditsAre
  <2> DEFINE e == SaveField(s, "record")
  <2>2. ReaderLineEnd(s) = [e EXCEPT !.rows = Append(@, Row(e.row)), !.row = <<>>, !.mode = "record"]
    BY <1>4 DEF ReaderLineEnd
  <2> HIDE DEF e
  <2>3. e = State("record", <<>>, Append(s.row, s.field), s.rows)
    BY <2>1 DEF e
  <2> QED
    BY <1>4, <2>2, <2>3 DEF State, Fresh
<1> QED
  BY <1>2, <1>3, <1>4, Zenon

\* A character, and the end of the line if it is one.
Read(s, c, ends) ==
    IF Failed(s.rows) THEN s
    ELSE LET u == ReaderChar(s, c) IN
         IF ends /\ ~Failed(u.rows) THEN ReaderLineEnd(u) ELSE u

LEMMA OutcomesAre ==
    /\ Error \in Outcomes /\ Error.error
    /\ \A w \in Seq(Bytes) : Row(w) \in Outcomes /\ ~Row(w).error
BY DEF Error, Row, Outcomes, Bytes

\* The rows of a reader grow at the end.
LEMMA RowsGrow ==
    ASSUME NEW R \in Seq(Outcomes), NEW q \in Seq(Outcomes), NEW x \in Outcomes
    PROVE  /\ R \o q \in Seq(Outcomes) /\ Append(q, x) \in Seq(Outcomes)
           /\ R \o <<>> = R
           /\ R \o Append(q, x) = Append(R \o q, x)
           /\ Failed(R \o q) <=> Failed(R) \/ Failed(q)
           /\ Failed(Append(q, x)) <=> Failed(q) \/ x.error
           /\ ~Failed(<<>>)
<1>1. /\ R \o q \in Seq(Outcomes) /\ Append(q, x) \in Seq(Outcomes) /\ R \o <<>> = R
      /\ Len(R) \in Nat /\ Len(q) \in Nat
      /\ DOMAIN R = 1 .. Len(R) /\ DOMAIN q = 1 .. Len(q)
      /\ DOMAIN (R \o q) = 1 .. Len(R) + Len(q)
      /\ \A i \in 1 .. Len(R) : (R \o q)[i] = R[i]
      /\ \A i \in 1 .. Len(R) + Len(q) : i > Len(R) => (R \o q)[i] = q[i - Len(R)]
      /\ DOMAIN Append(q, x) = 1 .. Len(q) + 1
      /\ \A i \in 1 .. Len(q) : Append(q, x)[i] = q[i]
      /\ Append(q, x)[Len(q) + 1] = x
  OBVIOUS
<1>2. R \o Append(q, x) = Append(R \o q, x)
  OBVIOUS
<1>3. Failed(R) => Failed(R \o q)
  <2> SUFFICES ASSUME NEW i \in DOMAIN R, R[i].error PROVE Failed(R \o q)
    BY DEF Failed
  <2>1. i \in DOMAIN (R \o q) /\ (R \o q)[i].error
    BY <1>1
  <2> QED
    BY <2>1 DEF Failed
<1>4. Failed(q) => Failed(R \o q)
  <2> SUFFICES ASSUME NEW i \in DOMAIN q, q[i].error PROVE Failed(R \o q)
    BY DEF Failed
  <2>1. Len(R) + i \in 1 .. Len(R) + Len(q) /\ Len(R) + i > Len(R) /\ (Len(R) + i) - Len(R) = i
    BY <1>1
  <2>2. (R \o q)[Len(R) + i].error
    BY <1>1, <2>1
  <2> QED
    BY <1>1, <2>1, <2>2 DEF Failed
<1>5. Failed(R \o q) => Failed(R) \/ Failed(q)
  <2> SUFFICES ASSUME NEW i \in DOMAIN (R \o q), (R \o q)[i].error PROVE Failed(R) \/ Failed(q)
    BY DEF Failed
  <2>1. CASE i <= Len(R)
    <3>1. i \in DOMAIN R /\ R[i].error
      BY <1>1, <2>1
    <3> QED
      BY <3>1 DEF Failed
  <2>2. CASE i > Len(R)
    <3>1. i - Len(R) \in DOMAIN q /\ q[i - Len(R)].error
      BY <1>1, <2>2
    <3> QED
      BY <3>1 DEF Failed
  <2> QED
    BY <1>1, <2>1, <2>2
<1>6. Failed(Append(q, x)) <=> Failed(q) \/ x.error
  <2> DEFINE a == Append(q, x)  n == Len(q)
  <2>1. /\ n \in Nat /\ DOMAIN q = 1 .. n /\ DOMAIN a = 1 .. n + 1
        /\ \A i \in 1 .. n : a[i] = q[i]
        /\ a[n + 1] = x
    BY <1>1
  <2> HIDE DEF a, n
  <2>2. \A i \in 1 .. n + 1 : i \in 1 .. n \/ i = n + 1
    BY <2>1
  <2>3. 1 .. n \subseteq 1 .. n + 1 /\ n + 1 \in 1 .. n + 1
    BY <2>1
  <2>4. Failed(a) <=> Failed(q) \/ x.error
    BY <2>1, <2>2, <2>3, Zenon DEF Failed
  <2> QED
    BY <2>4 DEF a
<1>7. ~Failed(<<>>)
  BY DEF Failed
<1> QED
  BY <1>1, <1>2, <1>3, <1>4, <1>5, <1>6, <1>7

LEMMA PassedIs ==
    ASSUME NEW s \in States, NEW c \in Characters
    PROVE  Passed(s, c) \in States
<1> DEFINE m == s.mode
           f == IF Adds(m, c) THEN Append(s.field, c) ELSE IF Saves(m, c) THEN <<>> ELSE s.field
           w == IF Saves(m, c) THEN Append(s.row, s.field) ELSE s.row
           R == IF Fails(m, c) THEN Append(s.rows, Error) ELSE s.rows
<1>1. /\ m \in ReaderModes /\ s.field \in Bytes /\ s.row \in Seq(Bytes) /\ s.rows \in Seq(Outcomes)
      /\ m \in {"record", "eat"} => s.field = <<>>
      /\ m = "record" => s.row = <<>>
      /\ c \in {"quote", "comma", "cr", "lf", "other"}
  BY StateIs DEF Characters, Special
<1>2. f \in Bytes
  BY <1>1 DEF Bytes
<1>3. w \in Seq(Bytes)
  BY <1>1
<1>4. R \in Seq(Outcomes)
  BY <1>1, OutcomesAre
<1> HIDE DEF m
<1>5. ToMode(m, c) \in ReaderModes
  BY <1>1 DEF ToMode, ReaderModes, Fails, Adds, Newline
<1>6. ToMode(m, c) \in {"record", "eat"} => f = <<>>
  <2>1. ToMode(m, c) \in {"record", "eat"} =>
            ~Adds(m, c) /\ (Saves(m, c) \/ m \in {"record", "eat"})
    BY <1>1 DEF ToMode, ReaderModes, Fails, Adds, Saves, Newline
  <2> QED
    BY <1>1, <2>1
<1>7. ToMode(m, c) # "record"
  BY <1>1 DEF ToMode, ReaderModes, Fails, Adds, Newline
<1>8. Passed(s, c) = State(ToMode(m, c), f, w, R)
  BY DEF Passed, m
<1> HIDE DEF f, w, R
<1> QED
  BY <1>2, <1>3, <1>4, <1>5, <1>6, <1>7, <1>8, StatesAre

LEMMA FreshIs ==
    ASSUME NEW R \in Seq(Outcomes)
    PROVE  Fresh(R) \in States
<1>1. <<>> \in Bytes /\ <<>> \in Seq(Bytes) /\ "record" \in ReaderModes
  BY DEF Bytes, ReaderModes
<1>2. State("record", <<>>, <<>>, R) \in States
  BY ONLY <1>1, R \in Seq(Outcomes), StatesAre
<1> QED
  BY <1>2 DEF Fresh

LEMMA LineEndType ==
    ASSUME NEW s \in States
    PROVE  ReaderLineEnd(s) \in States
<1> DEFINE w == IF s.mode \in {"record", "eat"} THEN s.row ELSE Append(s.row, s.field)
<1>1. w \in Seq(Bytes) /\ s.rows \in Seq(Outcomes)
  BY StateIs
<1> HIDE DEF w
<1>2. Append(s.rows, Row(w)) \in Seq(Outcomes)
  BY <1>1, OutcomesAre
<1>3. s.mode # "quoted" => ReaderLineEnd(s) = Fresh(Append(s.rows, Row(w)))
  BY LineEndIs DEF w
<1> QED
  BY <1>2, <1>3, FreshIs, LineEndIs

LEMMA ReadType ==
    ASSUME NEW s \in States, NEW c \in Characters, NEW ends
    PROVE  Read(s, c, ends) \in States
<1>1. ReaderChar(s, c) \in States
  BY CharIs, PassedIs
<1> QED
  BY <1>1, LineEndType DEF Read

\* Rows that came before change nothing in what the reader does.
LEMMA OverType ==
    ASSUME NEW R \in Seq(Outcomes), NEW s \in States
    PROVE  /\ Over(R, s) \in States /\ Over(R, s).mode = s.mode
           /\ Over(R, s).field = s.field /\ Over(R, s).row = s.row
           /\ Over(R, s).rows = R \o s.rows
<1>1. /\ s.mode \in ReaderModes /\ s.field \in Bytes /\ s.row \in Seq(Bytes)
      /\ s.rows \in Seq(Outcomes)
      /\ s.mode \in {"record", "eat"} => s.field = <<>>
      /\ s.mode = "record" => s.row = <<>>
  BY StateIs
<1>2. R \o s.rows \in Seq(Outcomes)
  BY <1>1
<1>3. Over(R, s) = State(s.mode, s.field, s.row, R \o s.rows)
  BY DEF Over
<1>4. State(s.mode, s.field, s.row, R \o s.rows) \in States
  BY ONLY <1>1, <1>2, StatesAre
<1>5. /\ Over(R, s).mode = s.mode /\ Over(R, s).field = s.field /\ Over(R, s).row = s.row
      /\ Over(R, s).rows = R \o s.rows
  BY DEF Over, State
<1> QED
  BY ONLY <1>3, <1>4, <1>5

LEMMA OverPassed ==
    ASSUME NEW R \in Seq(Outcomes), NEW s \in States, NEW c \in Characters
    PROVE  Passed(Over(R, s), c) = Over(R, Passed(s, c))
<1> DEFINE m == s.mode
           f == IF Adds(m, c) THEN Append(s.field, c) ELSE IF Saves(m, c) THEN <<>> ELSE s.field
           w == IF Saves(m, c) THEN Append(s.row, s.field) ELSE s.row
           q == IF Fails(m, c) THEN Append(s.rows, Error) ELSE s.rows
           p == IF Fails(m, c) THEN Append(R \o s.rows, Error) ELSE R \o s.rows
<1>1. Passed(s, c) = State(ToMode(m, c), f, w, q)
  BY DEF Passed
<1>2. Passed(Over(R, s), c) = State(ToMode(m, c), f, w, p)
  BY OverType, Zenon DEF Passed
<1>3. p = R \o q
  <2>1. s.rows \in Seq(Outcomes) /\ Error \in Outcomes
    BY StateIs, OutcomesAre
  <2>2. R \o Append(s.rows, Error) = Append(R \o s.rows, Error)
    BY <2>1, RowsGrow
  <2> QED
    BY <2>2
<1> HIDE DEF m, f, w, p, q
<1>4. Over(R, Passed(s, c)) = State(ToMode(m, c), f, w, R \o q)
  BY <1>1, StateParts DEF Over
<1> QED
  BY <1>2, <1>3, <1>4

LEMMA OverLineEnd ==
    ASSUME NEW R \in Seq(Outcomes), NEW s \in States
    PROVE  ReaderLineEnd(Over(R, s)) = Over(R, ReaderLineEnd(s))
<1> DEFINE w == IF s.mode \in {"record", "eat"} THEN s.row ELSE Append(s.row, s.field)
           o == Over(R, s)
<1>1. /\ o \in States /\ o.mode = s.mode /\ o.field = s.field /\ o.row = s.row
      /\ o.rows = R \o s.rows
  BY OverType
<1>2. w \in Seq(Bytes) /\ s.rows \in Seq(Outcomes)
  BY StateIs
<1>3. s.mode # "quoted" => ReaderLineEnd(s) = Fresh(Append(s.rows, Row(w)))
  BY LineEndIs
<1> HIDE DEF o
<1>4. s.mode # "quoted" => ReaderLineEnd(o) = Fresh(Append(o.rows, Row(w)))
  BY <1>1, LineEndIs
<1> HIDE DEF w
<1>5. Append(R \o s.rows, Row(w)) = R \o Append(s.rows, Row(w))
  <2>1. s.rows \in Seq(Outcomes) /\ Row(w) \in Outcomes
    BY <1>2, OutcomesAre
  <2>2. \A q \in Seq(Outcomes), x \in Outcomes : Append(R \o q, x) = R \o Append(q, x)
    OBVIOUS
  <2> QED
    BY ONLY <2>1, <2>2, Zenon
<1>6. Over(R, Fresh(Append(s.rows, Row(w)))) = Fresh(R \o Append(s.rows, Row(w)))
  BY StateParts DEF Over, Fresh
<1>7. CASE s.mode = "quoted"
  BY <1>1, <1>7, LineEndIs DEF o
<1>8. CASE s.mode # "quoted"
  BY <1>1, <1>3, <1>4, <1>5, <1>6, <1>8 DEF o
<1> QED
  BY <1>7, <1>8

LEMMA OverRead ==
    ASSUME NEW R \in Seq(Outcomes), ~Failed(R), NEW s \in States, NEW c \in Characters, NEW ends
    PROVE  Read(Over(R, s), c, ends) = Over(R, Read(s, c, ends))
<1> DEFINE o == Over(R, s)  u == ReaderChar(s, c)  v == ReaderChar(o, c)
<1>1. o \in States /\ o.rows = R \o s.rows /\ s.rows \in Seq(Outcomes)
  BY OverType, StateIs
<1>2. u \in States /\ u.rows \in Seq(Outcomes)
  BY CharIs, PassedIs, StateIs
<1>3. v = Over(R, u)
  BY <1>1, CharIs, OverPassed
<1>4. v.rows = R \o u.rows
  BY <1>2, <1>3, OverType
<1>5. Failed(o.rows) <=> Failed(s.rows)
  BY <1>1, RowsGrow, OutcomesAre
<1>6. Failed(v.rows) <=> Failed(u.rows)
  BY <1>2, <1>4, RowsGrow, OutcomesAre
<1>7. ReaderLineEnd(v) = Over(R, ReaderLineEnd(u))
  BY <1>2, <1>3, OverLineEnd
<1>8. Read(o, c, ends) = IF Failed(o.rows) THEN o
                         ELSE IF ends /\ ~Failed(v.rows) THEN ReaderLineEnd(v) ELSE v
  BY DEF Read
<1>9. Read(s, c, ends) = IF Failed(s.rows) THEN s
                         ELSE IF ends /\ ~Failed(u.rows) THEN ReaderLineEnd(u) ELSE u
  BY DEF Read
<1>10. o = Over(R, s)
  OBVIOUS
<1> HIDE DEF o, u, v
<1>11. Read(o, c, ends) = Over(R, Read(s, c, ends))
  BY <1>3, <1>5, <1>6, <1>7, <1>8, <1>9, <1>10
<1> QED
  BY <1>11 DEF o

-----------------------------------------------------------------------------
(* The reader over a text.                                                 *)

IsReading(f, t, n) ==
    f = [i \in 0 .. n |->
            IF i = 0 THEN Fresh(<<>>) ELSE Read(f[i - 1], t[i], LineEnds(t, i))]

Reading(f, t) ==
    /\ f[0] = Fresh(<<>>)
    /\ \A i \in 1 .. Len(t) : f[i] = Read(f[i - 1], t[i], LineEnds(t, i))
    /\ \A i \in 0 .. Len(t) : f[i] \in States
    /\ Reader(t) = IF f[Len(t)].mode = "quoted" /\ ~Failed(f[Len(t)].rows)
                   THEN Append(f[Len(t)].rows, Error) ELSE f[Len(t)].rows

LEMMA ReadingIs ==
    ASSUME NEW t \in Bytes
    PROVE  \E f : Reading(f, t)
<1>0. Len(t) \in Nat
  BY DEF Bytes
<1> DEFINE N == {n \in Nat : \E f : IsReading(f, t, n)}
<1>1. 0 \in N
  <2>1. IsReading([i \in 0 .. 0 |-> Fresh(<<>>)], t, 0)
    BY DEF IsReading
  <2> QED
    BY <2>1
<1>2. ASSUME NEW n \in Nat, n \in N
      PROVE  n + 1 \in N
  <2>1. PICK f : IsReading(f, t, n)
    BY <1>2
  <2> DEFINE last == Read(f[n], t[n + 1], LineEnds(t, n + 1))
             g == [i \in 0 .. n + 1 |-> IF i = n + 1 THEN last ELSE f[i]]
             h == [i \in 0 .. n + 1 |->
                      IF i = 0 THEN Fresh(<<>>) ELSE Read(g[i - 1], t[i], LineEnds(t, i))]
  <2> HIDE DEF last
  <2>2. ASSUME NEW i \in 0 .. n + 1
        PROVE  g[i] = h[i]
    <3>1. CASE i = n + 1
      <4>1. i # 0 /\ i - 1 = n /\ i - 1 \in 0 .. n + 1 /\ i - 1 # n + 1
        BY <3>1
      <4>2. g[i] = last /\ g[i - 1] = f[n]
        BY <3>1, <4>1
      <4>3. h[i] = Read(g[i - 1], t[i], LineEnds(t, i))
        BY <4>1
      <4> QED
        BY <3>1, <4>2, <4>3 DEF last
    <3>2. CASE i = 0
      BY <2>1, <3>2 DEF IsReading
    <3>3. CASE i # 0 /\ i # n + 1
      <4>1. i \in 0 .. n /\ i - 1 \in 0 .. n + 1 /\ i - 1 # n + 1
        BY <3>3
      <4>2. g[i] = f[i] /\ g[i - 1] = f[i - 1]
        BY <3>3, <4>1
      <4>3. f[i] = Read(f[i - 1], t[i], LineEnds(t, i))
        BY <2>1, <3>3, <4>1 DEF IsReading
      <4> QED
        BY <3>3, <4>2, <4>3
    <3> QED
      BY <3>1, <3>2, <3>3
  <2>3. g = h
    BY <2>2
  <2>4. IsReading(g, t, n + 1)
    BY <2>3 DEF IsReading
  <2> QED
    BY <2>4
<1>3. \A i \in 0 .. Len(t) : i \in N
  <2> HIDE DEF N
  <2>1. \A i \in 0 .. Len(t) : i < Len(t) /\ i \in N => i + 1 \in N
    BY <1>0, <1>2
  <2> QED
    BY ONLY <1>0, <1>1, <2>1, UpTo
<1> DEFINE f == CHOOSE g : IsReading(g, t, Len(t))
<1>4. IsReading(f, t, Len(t))
  BY <1>0, <1>3
<1>5. Reader(t) = IF f[Len(t)].mode = "quoted" /\ ~Failed(f[Len(t)].rows)
                  THEN Append(f[Len(t)].rows, Error) ELSE f[Len(t)].rows
  BY Zenon DEF Reader, IsReading, Read, Fresh, State
<1> HIDE DEF f
<1>6. f[0] = Fresh(<<>>) /\ \A i \in 1 .. Len(t) : f[i] = Read(f[i - 1], t[i], LineEnds(t, i))
  BY <1>0, <1>4 DEF IsReading
<1>7. \A i \in 0 .. Len(t) : f[i] \in States
  <2> DEFINE S == {i \in 0 .. Len(t) : f[i] \in States}
  <2>1. 0 \in S
    <3>1. <<>> \in Seq(Outcomes)
      OBVIOUS
    <3>2. f[0] \in States
      BY <1>6, <3>1, FreshIs
    <3> QED
      BY <1>0, <3>2
  <2>2. ASSUME NEW i \in 0 .. Len(t), i < Len(t), i \in S
        PROVE  i + 1 \in S
    <3>1. i + 1 \in 1 .. Len(t) /\ (i + 1) - 1 = i /\ i + 1 \in 0 .. Len(t)
      BY <1>0, <2>2
    <3>2. t[i + 1] \in Characters
      BY <3>1 DEF Bytes
    <3>3. f[i + 1] = Read(f[i], t[i + 1], LineEnds(t, i + 1))
      BY <1>6, <3>1
    <3>4. f[i + 1] \in States
      BY <2>2, <3>2, <3>3, ReadType
    <3> QED
      BY <3>1, <3>4
  <2> HIDE DEF S
  <2>3. \A i \in 0 .. Len(t) : i \in S
    BY <1>0, <2>1, <2>2, UpTo
  <2> QED
    BY <2>3 DEF S
<1> QED
  BY <1>5, <1>6, <1>7 DEF Reading

\* A reader that has raised an error reads no more.
LEMMA StaysFailed ==
    ASSUME NEW t \in Bytes, NEW f, Reading(f, t), NEW i \in 0 .. Len(t), Failed(f[i].rows)
    PROVE  Reader(t) = f[i].rows
<1>0. Len(t) \in Nat
  BY DEF Bytes
<1> DEFINE S == {j \in 0 .. Len(t) : i <= j => f[j] = f[i]}
<1>1. 0 \in S
  BY <1>0
<1>2. ASSUME NEW j \in 0 .. Len(t), j < Len(t), j \in S
      PROVE  j + 1 \in S
  <2>1. j + 1 \in 1 .. Len(t) /\ (j + 1) - 1 = j /\ j + 1 \in 0 .. Len(t)
    BY <1>0, <1>2
  <2>2. CASE i <= j
    <3>1. f[j] = f[i]
      BY <1>2, <2>2
    <3>2. f[j + 1] = Read(f[j], t[j + 1], LineEnds(t, j + 1))
      BY <2>1 DEF Reading
    <3>3. f[j + 1] = f[i]
      BY <3>1, <3>2 DEF Read
    <3> QED
      BY <2>1, <3>3
  <2>3. CASE ~(i <= j)
    <3>1. i <= j + 1 => i = j + 1
      BY <2>3
    <3> QED
      BY <2>1, <3>1
  <2> QED
    BY <2>2, <2>3
<1> HIDE DEF S
<1>3. \A j \in 0 .. Len(t) : j \in S
  BY <1>0, <1>1, <1>2, UpTo
<1>4. f[Len(t)] = f[i]
  BY <1>0, <1>3 DEF S
<1> QED
  BY <1>4 DEF Reading

LEMMA EndIs ==
    ASSUME NEW t \in Bytes, NEW b \in 1 .. Len(t), NEW e, e = EndOf(t, Brk(t), b)
    PROVE  /\ e \in b .. Len(t) /\ (e \in Brk(t) \/ e = Len(t))
           /\ \A j \in b .. e - 1 : j \notin Brk(t)
<1> DEFINE S == {x \in Brk(t) \cup {Len(t)} : x >= b}
<1>0. Len(t) \in Nat /\ b \in Nat /\ Brk(t) \subseteq 1 .. Len(t)
  BY BreakIs DEF Bytes
<1>1. Len(t) \in S /\ S \subseteq Nat
  BY <1>0
<1>2. e = Min(S)
  BY DEF EndOf
<1>3. e \in S /\ \A x \in S : e <= x
  <2> HIDE DEF S
  <2>1. S # {}
    BY <1>1
  <2> QED
    BY <1>1, <1>2, <2>1, MinIs
<1>4. e \in Nat /\ b <= e /\ e <= Len(t) /\ (e \in Brk(t) \/ e = Len(t))
  BY <1>0, <1>1, <1>3
<1>5. ASSUME NEW j \in b .. e - 1, j \in Brk(t)
      PROVE  FALSE
  <2>1. j \in S
    BY <1>0, <1>5
  <2> QED
    BY <1>0, <1>3, <1>4, <2>1
<1> QED
  BY <1>0, <1>4, <1>5

-----------------------------------------------------------------------------
(* The reader within a record.                                             *)

\* The mode of a reader where the text has the mode q.
Agrees(m, q) == m = q \/ (q = "start" /\ m \in {"record", "field"})

\* The state of a reader of the record alone, before its last character.
Within(s, q) ==
    \/ Failed(s.rows) /\ s.rows = <<Error>>
    \/ s.rows = <<>> /\ Agrees(s.mode, q)

LEMMA ErrorRows ==
    /\ <<Error>> = Append(<<>>, Error) /\ <<Error>> \in Seq(Outcomes) /\ Failed(<<Error>>)
    /\ ~Failed(<<>>) /\ <<>> \in Seq(Outcomes)
<1>1. <<Error>> = Append(<<>>, Error) /\ <<Error>> \in Seq(Outcomes) /\ <<>> \in Seq(Outcomes)
  BY OutcomesAre
<1>2. Failed(Append(<<>>, Error)) /\ ~Failed(<<>>)
  BY <1>1, OutcomesAre, RowsGrow
<1> QED
  BY <1>1, <1>2

\* The end of a line inside quotes is the end of none.
LEMMA WithinSteps ==
    ASSUME NEW s \in States, NEW c \in Characters, NEW ends \in BOOLEAN, NEW q \in Modes,
           Within(s, q), ends => c \in Newline, c \in Newline => q = "quoted"
    PROVE  /\ Within(Read(s, c, ends), NextMode(q, c))
           /\ Read(s, c, ends) = Read(s, c, FALSE)
<1>1. CASE Failed(s.rows)
  BY <1>1, ErrorRows DEF Within, Read
<1>2. CASE ~Failed(s.rows)
  <2> DEFINE m == s.mode  u == Passed(s, c)
  <2>1. /\ s.rows = <<>> /\ Agrees(m, q) /\ m \in ReaderModes
        /\ c \in {"quote", "comma", "cr", "lf", "other"}
    BY <1>2, StateIs DEF Within, Characters, Special
  <2>2. /\ u \in States /\ u.mode = ToMode(m, c)
        /\ u.rows = IF Fails(m, c) THEN <<Error>> ELSE <<>>
    <3>1. u.rows = IF Fails(m, c) THEN Append(s.rows, Error) ELSE s.rows
      BY DEF Passed, State
    <3>2. u.mode = ToMode(m, c)
      BY DEF Passed, State
    <3> QED
      BY <2>1, <3>1, <3>2, PassedIs, ErrorRows
  <2>3. Read(s, c, ends) = IF ends /\ ~Failed(u.rows) THEN ReaderLineEnd(u) ELSE u
    BY <1>2, CharIs DEF Read
  <2>4. Read(s, c, FALSE) = u
    BY <1>2, CharIs DEF Read
  <2> HIDE DEF u, m
  <2>5. ~Fails(m, c) => Agrees(ToMode(m, c), NextMode(q, c))
    BY <2>1 DEF Agrees, ToMode, NextMode, Fails, Adds, ReaderModes, Modes, Newline
  <2>6. c \in Newline => ToMode(m, c) = "quoted"
    BY <2>1 DEF Agrees, ToMode, Fails, Adds, ReaderModes, Newline
  <2>7. ends => ReaderLineEnd(u) = u
    BY <2>2, <2>6, LineEndIs
  <2>8. Within(u, NextMode(q, c))
    BY <2>2, <2>5, ErrorRows DEF Within
  <2> QED
    BY <2>3, <2>4, <2>7, <2>8
<1> QED
  BY <1>1, <1>2

\* The characters of a record.
LEMMA RecordChars ==
    ASSUME NEW t \in Bytes, NEW b \in 1 .. Len(t), NEW e \in b .. Len(t)
    PROVE  /\ SubSeq(t, b, e) \in Bytes /\ Len(SubSeq(t, b, e)) = (e - b) + 1
           /\ \A j \in 1 .. (e - b) + 1 : SubSeq(t, b, e)[j] = t[(b - 1) + j]
<1>0. /\ Len(t) \in Nat /\ b \in Nat /\ e \in Nat /\ b <= e /\ e <= Len(t)
      /\ \A i \in 1 .. Len(t) : t[i] \in Characters
  BY DEF Bytes
<1> DEFINE r == SubSeq(t, b, e)
<1>1. b \in Int /\ e \in Int /\ \A i \in b .. e : t[i] \in Characters
  BY <1>0
<1>2. /\ r \in Seq(Characters)
      /\ Len(r) = IF b <= e THEN e - b + 1 ELSE 0
      /\ \A i \in 1 .. e - b + 1 : r[i] = t[b + i - 1]
  BY <1>1, SubSeqProperties
<1> HIDE DEF r
<1>3. (e - b) + 1 = e - b + 1 /\ \A i \in 1 .. (e - b) + 1 : (b - 1) + i = b + i - 1
  BY <1>0
<1>4. r \in Bytes /\ Len(r) = (e - b) + 1 /\ \A i \in 1 .. (e - b) + 1 : r[i] = t[(b - 1) + i]
  BY <1>0, <1>2, <1>3 DEF Bytes
<1> QED
  BY <1>4 DEF r

\* After j characters of the record at b, a reader of the text that has given
\* the rows R stands where a reader of the record alone stands.
Alongside(t, b, f, g, R, j) ==
    f[(b - 1) + j] = Over(R, g[j]) /\ Within(g[j], Mode(t)[(b - 1) + j])

\* Up to its last character a reader of the text does what a reader of the
\* record alone does.
LEMMA ReadsRecord ==
    ASSUME NEW t \in Bytes, NEW b \in 1 .. Len(t), NEW e \in b .. Len(t),
           NEW r, r = SubSeq(t, b, e),
           \A i \in b .. e - 1 : i \notin Brk(t), Mode(t)[b - 1] = "start",
           NEW f, Reading(f, t), NEW g, Reading(g, r),
           NEW R \in Seq(Outcomes), ~Failed(R), f[b - 1] = Fresh(R)
    PROVE  \A j \in 0 .. e - b : Alongside(t, b, f, g, R, j)
<1>0. /\ Len(t) \in Nat /\ b \in Nat /\ e \in Nat /\ 1 <= b /\ b <= e /\ e <= Len(t)
      /\ e - b \in Nat /\ Len(r) = (e - b) + 1 /\ r \in Bytes
      /\ \A j \in 1 .. (e - b) + 1 : r[j] = t[(b - 1) + j]
  BY RecordChars DEF Bytes
<1> DEFINE S == {j \in 0 .. e - b :
                    f[(b - 1) + j] = Over(R, g[j]) /\ Within(g[j], Mode(t)[(b - 1) + j])}
<1>1. 0 \in S
  <2>1. g[0] = Fresh(<<>>)
    BY DEF Reading
  <2>2. R \o <<>> = R
    OBVIOUS
  <2>3. Over(R, Fresh(<<>>)) = Fresh(R)
    BY <2>2 DEF Over, Fresh, State
  <2>4. Within(Fresh(<<>>), "start")
    BY StateParts DEF Within, Fresh, Agrees
  <2>5. (b - 1) + 0 = b - 1 /\ 0 \in 0 .. e - b
    BY <1>0
  <2> QED
    BY <2>1, <2>3, <2>4, <2>5
<1>2. ASSUME NEW j \in 0 .. e - b, j < e - b, j \in S
      PROVE  j + 1 \in S
  <2> DEFINE i == (b - 1) + j
  <2>1. /\ i + 1 \in b .. e - 1 /\ i + 1 \in 1 .. Len(t) /\ i \in 0 .. Len(t)
        /\ (i + 1) - 1 = i /\ (b - 1) + (j + 1) = i + 1 /\ i + 1 # Len(t)
        /\ j + 1 \in 1 .. Len(r) /\ (j + 1) - 1 = j /\ j + 1 # Len(r)
        /\ j \in 0 .. Len(r) /\ j + 1 \in 0 .. e - b
    BY <1>0, <1>2
  <2>2. f[i] = Over(R, g[j]) /\ Within(g[j], Mode(t)[i])
    BY <1>2
  <2> HIDE DEF i, S
  <2> DEFINE c == t[i + 1]
  <2>3. c \in Characters /\ r[j + 1] = c
    <3>1. j + 1 \in 1 .. (e - b) + 1
      BY <1>0, <2>1
    <3>2. r[j + 1] = t[i + 1]
      BY <1>0, <2>1, <3>1
    <3> QED
      BY <2>1, <3>2 DEF Bytes
  <2>4. f[i + 1] = Read(f[i], c, LineEnds(t, i + 1))
    BY <2>1 DEF Reading
  <2>5. g[j + 1] = Read(g[j], c, LineEnds(r, j + 1)) /\ g[j] \in States
    BY <2>1, <2>3 DEF Reading
  <2>6. /\ LineEnds(t, i + 1) \in BOOLEAN /\ (LineEnds(t, i + 1) => c \in Newline)
        /\ LineEnds(r, j + 1) \in BOOLEAN /\ (LineEnds(r, j + 1) => c \in Newline)
    BY <2>1, <2>3 DEF LineEnds, Newline
  <2>7. c \in Newline => Mode(t)[i] = "quoted"
    BY <2>1, BreakIs
  <2>8. Mode(t)[i] \in Modes /\ Mode(t)[i + 1] = NextMode(Mode(t)[i], c)
    BY <2>1, ModeIs DEF Bytes
  <2> HIDE DEF c
  <2>9. /\ Read(g[j], c, LineEnds(t, i + 1)) = Read(g[j], c, FALSE)
        /\ Read(g[j], c, LineEnds(r, j + 1)) = Read(g[j], c, FALSE)
        /\ Within(Read(g[j], c, LineEnds(r, j + 1)), NextMode(Mode(t)[i], c))
    BY <2>2, <2>3, <2>5, <2>6, <2>7, <2>8, WithinSteps
  <2>10. f[i + 1] = Over(R, Read(g[j], c, LineEnds(t, i + 1)))
    BY <2>2, <2>3, <2>4, <2>5, OverRead
  <2>11. f[i + 1] = Over(R, g[j + 1]) /\ Within(g[j + 1], Mode(t)[i + 1])
    BY <2>5, <2>8, <2>9, <2>10
  <2> QED
    BY <2>1, <2>11 DEF S
<1> HIDE DEF S
<1>3. \A j \in 0 .. e - b : j < e - b /\ j \in S => j + 1 \in S
  BY <1>2
<1>4. \A j \in 0 .. e - b : j \in S
  BY ONLY <1>0, <1>1, <1>3, UpTo
<1> QED
  BY <1>4 DEF S, Alongside

\* The end of a record, and what a reader does there if more text follows.
AtEnd(s, c, q, u) ==
    \/ Failed(u.rows) /\ u.rows = <<Error>> /\ Read(s, c, FALSE) = u
    \/ /\ u.rows = <<>> /\ u.mode = "quoted" /\ Read(s, c, FALSE) = u
       /\ c \in Newline => q = "quoted"
    \/ \E w \in Seq(Bytes) :
          /\ u = Fresh(<<Row(w)>>)
          /\ c \in Newline /\ q # "quoted" => Read(Read(s, c, FALSE), "lf", TRUE) = u

\* What a reader of a record alone comes to at its end: a row, or an error.
LEMMA RecordRead ==
    ASSUME NEW s \in States, NEW c \in Characters, NEW q \in Modes, Within(s, q)
    PROVE  AtEnd(s, c, q, Read(s, c, TRUE))
<1> DEFINE u == Read(s, c, TRUE)
<1>0. u = Read(s, c, TRUE)
  OBVIOUS
<1> HIDE DEF u
<1> SUFFICES AtEnd(s, c, q, u)
  BY <1>0
<1>1. CASE Failed(s.rows)
  <2>1. u = s /\ Read(s, c, FALSE) = s
    BY <1>0, <1>1 DEF Read
  <2>2. s.rows = <<Error>>
    BY <1>1, ErrorRows DEF Within
  <2> QED
    BY <1>1, <2>1, <2>2 DEF AtEnd
<1>2. CASE ~Failed(s.rows)
  <2> DEFINE m == s.mode  v == Passed(s, c)
  <2>1. /\ s.rows = <<>> /\ Agrees(m, q) /\ m \in ReaderModes
        /\ c \in {"quote", "comma", "cr", "lf", "other"}
    BY <1>2, StateIs DEF Within, Characters, Special
  <2>2. /\ v \in States /\ v.mode = ToMode(m, c)
        /\ v.rows = IF Fails(m, c) THEN <<Error>> ELSE <<>>
    <3>1. v.rows = IF Fails(m, c) THEN Append(s.rows, Error) ELSE s.rows
      BY DEF Passed, State
    <3>2. v.mode = ToMode(m, c)
      BY DEF Passed, State
    <3> QED
      BY <2>1, <3>1, <3>2, PassedIs, ErrorRows
  <2>3. /\ u = IF Failed(v.rows) THEN v ELSE ReaderLineEnd(v)
        /\ Read(s, c, FALSE) = v
    BY <1>0, <1>2, CharIs DEF Read
  <2> HIDE DEF v
  <2>4. CASE Fails(m, c)
    BY <2>2, <2>3, <2>4, ErrorRows DEF AtEnd
  <2>5. CASE ~Fails(m, c) /\ v.mode = "quoted"
    <3>1. u = v /\ u.rows = <<>>
      BY <2>2, <2>3, <2>5, ErrorRows, LineEndIs
    <3>2. c \in Newline => m = "quoted"
      BY <2>1, <2>2, <2>5 DEF ToMode, Fails, Adds, ReaderModes, Newline
    <3>3. m = "quoted" => q = "quoted"
      BY <2>1 DEF Agrees
    <3> QED
      BY <2>3, <2>5, <3>1, <3>2, <3>3 DEF AtEnd
  <2>6. CASE ~Fails(m, c) /\ v.mode # "quoted"
    <3> DEFINE w == IF v.mode \in {"record", "eat"} THEN v.row ELSE Append(v.row, v.field)
    <3>1. w \in Seq(Bytes)
      BY <2>2, StateIs
    <3>2. Append(<<>>, Row(w)) = <<Row(w)>>
      BY <3>1, OutcomesAre
    <3>3. v.rows = <<>> /\ u = ReaderLineEnd(v)
      BY <2>2, <2>3, <2>6, ErrorRows
    <3>4. u = Fresh(<<Row(w)>>)
      BY <2>2, <2>6, <3>2, <3>3, LineEndIs
    <3>5. ASSUME c \in Newline, q # "quoted"
          PROVE  Read(v, "lf", TRUE) = u
      <4>1. v.mode = "eat"
        BY <2>1, <2>2, <2>6, <3>5 DEF ToMode, Fails, Adds, Agrees, ReaderModes, Newline
      <4>2. v = State("eat", v.field, v.row, v.rows)
        BY <2>2, <4>1, StateIs
      <4>3. Passed(v, "lf") = State(ToMode("eat", "lf"), v.field, v.row, v.rows)
        BY <4>1 DEF Passed, Adds, Saves, Fails, Newline
      <4>4. ToMode("eat", "lf") = "eat"
        BY DEF ToMode, Fails, Adds, Newline
      <4>5. ReaderChar(v, "lf") = v
        <5>1. "lf" \in Characters
          BY DEF Characters, Special
        <5> QED
          BY <2>2, <4>2, <4>3, <4>4, <5>1, CharIs
      <4> QED
        BY <3>3, <4>5, ErrorRows DEF Read
    <3> HIDE DEF w
    <3> QED
      BY <2>3, <3>1, <3>4, <3>5, Zenon DEF AtEnd
  <2> QED
    BY <2>4, <2>5, <2>6
<1> QED
  BY <1>1, <1>2

\* A reader of the text after the records up to b gives next what _parse_record
\* makes of the record that begins at b, and if that is a row it stands where
\* the next record begins, beyond the LF of a CR LF.
NextIs(t, f, R, b, p) ==
    \/ p = Error /\ Reader(t) = Append(R, Error)
    \/ /\ ~p.error /\ p \in Outcomes
       /\ \E i \in b .. Len(t) :
             /\ f[i] = Fresh(Append(R, p))
             /\ i < Len(t) => i + 1 \in Bs(t)
             /\ \A k \in b + 1 .. i : k \notin Bs(t)

LEMMA NextRecord ==
    ASSUME NEW t \in Bytes, NEW f, Reading(f, t), NEW b \in Bs(t),
           NEW R \in Seq(Outcomes), ~Failed(R), f[b - 1] = Fresh(R)
    PROVE  NextIs(t, f, R, b, ParseRecord(SubSeq(t, b, EndOf(t, Brk(t), b))))
<1> DEFINE n == Len(t)
           e == EndOf(t, Brk(t), b)
           r == SubSeq(t, b, e)
           L == (e - b) + 1
           c == t[e]
           q == Mode(t)[e - 1]
<1> SUFFICES NextIs(t, f, R, b, ParseRecord(r))
  OBVIOUS
<1>1. /\ n \in Nat /\ b \in 1 .. n /\ Brk(t) \subseteq 1 .. n
      /\ b = 1 \/ b - 1 \in Brk(t)
  BY BreakIs DEF Bytes
<1>2. e \in b .. n /\ (e \in Brk(t) \/ e = n) /\ \A j \in b .. e - 1 : j \notin Brk(t)
  BY <1>1, EndIs
<1> HIDE DEF n, e
<1>3. Mode(t)[b - 1] = "start"
  <2>1. CASE b = 1
    BY <2>1, ModeIs DEF Bytes
  <2>2. CASE b - 1 \in Brk(t)
    BY <2>2, AfterBreak
  <2> QED
    BY <1>1, <2>1, <2>2
<1>4. r \in Bytes /\ Len(r) = L /\ \A j \in 1 .. L : r[j] = t[(b - 1) + j]
  BY <1>1, <1>2, RecordChars DEF n
<1>5. PICK g : Reading(g, r)
  BY <1>4, ReadingIs
<1>6. /\ L \in Nat /\ L \in 1 .. L /\ L - 1 \in 0 .. L /\ (b - 1) + L = e
      /\ L - 1 \in 0 .. e - b /\ (b - 1) + (L - 1) = e - 1
      /\ e \in 1 .. n /\ e - 1 \in 0 .. n /\ e \in Nat
  BY <1>1, <1>2
<1> HIDE DEF r, L
<1>7. f[e - 1] = Over(R, g[L - 1]) /\ Within(g[L - 1], q)
  <2>0. b \in 1 .. Len(t) /\ e \in b .. Len(t) /\ r = SubSeq(t, b, e)
    BY <1>1, <1>2 DEF n, r
  <2>1. \A j \in 0 .. e - b : Alongside(t, b, f, g, R, j)
    BY <1>2, <1>3, <1>5, <2>0, ReadsRecord
  <2> QED
    BY <1>6, <2>1 DEF Alongside
<1>8. /\ c \in Characters /\ r[L] = c /\ q \in Modes
      /\ g[L - 1] \in States /\ g[L] \in States
  <2>1. c \in Characters
    BY <1>6 DEF Bytes, n
  <2>2. r[L] = c
    BY <1>4, <1>6
  <2>3. q \in Modes
    BY <1>6, ModeIs DEF Bytes, n
  <2>4. g[L - 1] \in States /\ g[L] \in States
    BY <1>4, <1>5, <1>6 DEF Reading
  <2> QED
    BY <2>1, <2>2, <2>3, <2>4
<1> DEFINE s == g[L - 1]  u == g[L]
<1>9. u = Read(s, c, TRUE)
  <2>1. LineEnds(r, L) = TRUE
    BY <1>4 DEF LineEnds
  <2>2. u = Read(s, r[L], LineEnds(r, L))
    BY <1>4, <1>5, <1>6 DEF Reading
  <2> QED
    BY <1>8, <2>1, <2>2
<1>10. f[e] = Over(R, Read(s, c, LineEnds(t, e)))
  <2>1. f[e] = Read(f[e - 1], c, LineEnds(t, e))
    BY <1>6 DEF Reading, n
  <2> QED
    BY <1>7, <1>8, <2>1, OverRead
<1>11. Reader(r) = IF u.mode = "quoted" /\ ~Failed(u.rows) THEN Append(u.rows, Error) ELSE u.rows
  BY <1>4, <1>5 DEF Reading
<1>12. /\ LineEnds(t, e) \in BOOLEAN
       /\ LineEnds(t, e) <=> e = n \/ c = "lf" \/ (c = "cr" /\ t[e + 1] # "lf")
  BY DEF LineEnds, n
<1>13. e \in Brk(t) => c \in Newline /\ q # "quoted"
  BY <1>6, BreakIs DEF n
<1> HIDE DEF s, u, c, q
<1>14. \A k \in b + 1 .. e : k \notin Bs(t)
  <2> SUFFICES ASSUME NEW k \in b + 1 .. e, k \in Bs(t) PROVE FALSE
    OBVIOUS
  <2>1. k \in 1 .. n /\ k # 1 /\ k - 1 \in b .. e - 1
    BY <1>1, <1>2
  <2>2. k - 1 \in Brk(t)
    BY <2>1, BreakIs DEF n
  <2> QED
    BY <1>2, <2>1, <2>2
<1>15. ASSUME Read(s, c, FALSE) = u
       PROVE  /\ f[e].mode = u.mode /\ f[e].rows = R \o u.rows
              /\ u.rows = <<>> => f[e].rows = R
              /\ u.rows = <<Error>> => Failed(f[e].rows) /\ f[e].rows = Append(R, Error)
  <2>1. f[e] = Over(R, u)
    BY <1>9, <1>10, <1>12, <1>15
  <2>2. f[e].mode = u.mode /\ f[e].rows = R \o u.rows
    <3>1. u \in States
      BY <1>8 DEF u
    <3> QED
      BY <2>1, <3>1, OverType
  <2>3. R \o <<>> = R /\ R \o <<Error>> = Append(R, Error) /\ Failed(Append(R, Error))
    BY OutcomesAre, RowsGrow
  <2> QED
    BY <2>2, <2>3
<1>16. CASE Failed(u.rows) /\ u.rows = <<Error>> /\ Read(s, c, FALSE) = u
  <2>1. ParseRecord(r) = Error
    BY <1>11, <1>16 DEF ParseRecord
  <2>2. Failed(f[e].rows) /\ f[e].rows = Append(R, Error)
    BY <1>15, <1>16
  <2>3. e \in 0 .. Len(t)
    BY <1>6 DEF n
  <2>4. Reader(t) = Append(R, Error)
    BY <2>2, <2>3, StaysFailed
  <2> QED
    BY <2>1, <2>4 DEF NextIs
<1>17. CASE /\ u.rows = <<>> /\ u.mode = "quoted" /\ Read(s, c, FALSE) = u
            /\ c \in Newline => q = "quoted"
  <2>1. e = n
    BY <1>2, <1>13, <1>17
  <2>2. Reader(r) = <<Error>>
    BY <1>11, <1>17, ErrorRows
  <2>3. ParseRecord(r) = Error
    BY <2>2 DEF ParseRecord
  <2>4. f[n].mode = "quoted" /\ f[n].rows = R
    BY <1>15, <1>17, <2>1
  <2>5. Reader(t) = Append(R, Error)
    BY <2>4 DEF Reading, n
  <2> QED
    BY <2>3, <2>5 DEF NextIs
<1>18. ASSUME NEW w \in Seq(Bytes), u = Fresh(<<Row(w)>>),
              c \in Newline /\ q # "quoted" => Read(Read(s, c, FALSE), "lf", TRUE) = u
       PROVE  NextIs(t, f, R, b, ParseRecord(r))
  <2> DEFINE p == Row(w)
  <2>1. p \in Outcomes /\ ~p.error
    BY OutcomesAre
  <2> HIDE DEF p
  <2>2. u.mode = "record" /\ u.rows = <<p>>
    BY <1>18 DEF Fresh, State, p
  <2>3. ParseRecord(r) = p
    <3>1. Reader(r) = <<p>>
      BY <1>11, <2>2
    <3>2. <<p>> # <<>> /\ Len(<<p>>) = 1 /\ <<p>>[1] = p
      OBVIOUS
    <3> QED
      BY <3>1, <3>2, Zenon DEF ParseRecord
  <2>4. Over(R, u) = Fresh(Append(R, p))
    <3>1. R \o <<p>> = Append(R, p)
      BY <2>1
    <3> QED
      BY <1>18, <3>1 DEF Over, Fresh, State, p
  <2>5. CASE LineEnds(t, e)
    <3>1. f[e] = Fresh(Append(R, p))
      BY <1>9, <1>10, <1>12, <2>4, <2>5
    <3>2. e < n => e + 1 \in Bs(t)
      <4> SUFFICES ASSUME e < n PROVE e + 1 \in Bs(t)
        OBVIOUS
      <4>1. e \in Brk(t) /\ e # n /\ e + 1 \in 1 .. n /\ (e + 1) - 1 = e
        BY <1>1, <1>2, <1>6
      <4>2. ~(t[e + 1] = "lf" /\ t[e] = "cr")
        BY <1>12, <2>5, <4>1 DEF c
      <4> QED
        BY <4>1, <4>2, BreakIs DEF n
    <3>3. e \in b .. Len(t) /\ (e < Len(t) => e + 1 \in Bs(t))
      BY <1>2, <3>2 DEF n
    <3> QED
      BY <1>14, <2>1, <2>3, <3>1, <3>3 DEF NextIs
  <2>6. CASE ~LineEnds(t, e)
    <3>1. /\ e \in Brk(t) /\ c = "cr" /\ t[e + 1] = "lf" /\ q # "quoted"
          /\ e < n /\ e + 1 \in 1 .. n /\ (e + 1) - 1 = e /\ e + 1 \in b .. n
      <4>1. e # n /\ e \in Brk(t)
        BY <1>2, <1>12, <2>6
      <4>2. c = "cr" /\ t[e + 1] = "lf" /\ q # "quoted"
        BY <1>12, <1>13, <2>6, <4>1 DEF Newline
      <4> QED
        BY <1>1, <1>2, <1>6, <4>1, <4>2
    <3>2. Mode(t)[e] = "start"
      BY <3>1, AfterBreak
    <3>3. e + 1 \in Brk(t)
      BY <3>1, <3>2, BreakIs DEF n, Newline
    <3>4. e + 1 \notin Bs(t)
      BY <3>1, <3>3, BreakIs DEF n, c
    <3>5. f[e + 1] = Fresh(Append(R, p))
      <4>1. LineEnds(t, e + 1) = TRUE
        BY <3>1 DEF LineEnds
      <4>2. f[e + 1] = Read(f[e], "lf", TRUE)
        BY <3>1, <4>1 DEF Reading, n
      <4>3. f[e] = Over(R, Read(s, c, FALSE))
        BY <1>10, <1>12, <2>6
      <4>4. Read(s, c, FALSE) \in States /\ "lf" \in Characters
        BY <1>8, ReadType DEF s, Characters, Special
      <4>5. f[e + 1] = Over(R, Read(Read(s, c, FALSE), "lf", TRUE))
        <5> DEFINE v == Read(s, c, FALSE)
        <5>1. v \in States /\ f[e] = Over(R, v)
          BY <4>3, <4>4
        <5> HIDE DEF v
        <5>2. \A ends : Read(Over(R, v), "lf", ends) = Over(R, Read(v, "lf", ends))
          BY <4>4, <5>1, OverRead
        <5>3. Read(Over(R, v), "lf", TRUE) = Over(R, Read(v, "lf", TRUE))
          BY <5>2, Zenon
        <5> QED
          BY <4>2, <5>1, <5>3 DEF v
      <4>6. Read(Read(s, c, FALSE), "lf", TRUE) = u
        BY <1>18, <3>1 DEF Newline
      <4> QED
        BY <2>4, <4>5, <4>6
    <3>6. e + 1 < n => (e + 1) + 1 \in Bs(t)
      <4> SUFFICES ASSUME e + 1 < n PROVE (e + 1) + 1 \in Bs(t)
        OBVIOUS
      <4>1. (e + 1) + 1 \in 1 .. n /\ ((e + 1) + 1) - 1 = e + 1
        BY <1>1, <1>6
      <4>2. t[e + 1] # "cr"
        BY <3>1
      <4> QED
        BY <3>3, <4>1, <4>2, BreakIs DEF n
    <3>7. \A k \in b + 1 .. e + 1 : k \notin Bs(t)
      <4>1. \A k \in b + 1 .. e + 1 : k \in b + 1 .. e \/ k = e + 1
        BY <1>1, <1>6
      <4> QED
        BY <1>14, <3>4, <4>1
    <3>8. e + 1 \in b .. Len(t) /\ (e + 1 < Len(t) => (e + 1) + 1 \in Bs(t))
      BY <3>1, <3>6 DEF n
    <3> QED
      BY <2>1, <2>3, <3>5, <3>7, <3>8 DEF NextIs
  <2> QED
    BY <1>12, <2>5, <2>6
<1>19. AtEnd(s, c, q, u)
  <2>1. s \in States /\ Within(s, q)
    BY <1>7, <1>8 DEF s, q
  <2> QED
    BY <1>8, <1>9, <2>1, RecordRead
<1> HIDE DEF NextIs
<1> QED
  BY <1>16, <1>17, <1>18, <1>19, Zenon DEF AtEnd

-----------------------------------------------------------------------------
(* The reader over all records of a text.                                  *)

\* The rows are what _parse_record makes of the first records.
Parses(t, rows) ==
    /\ rows \in Seq(Outcomes) /\ Len(rows) <= Cardinality(Bs(t))
    /\ \A j \in 1 .. Len(rows) : rows[j] = ParseRecord(RecordsOf(t)[j])

\* After i characters the reader has given the rows of k records.
ReadTo(t, f, k, R, i) ==
    /\ Parses(t, R) /\ ~Failed(R) /\ Len(R) = k
    /\ i \in 0 .. Len(t) /\ f[i] = Fresh(R)
    /\ Rank(Bs(t), i) = k /\ (i < Len(t) => i + 1 \in Bs(t))

\* The records of a text, by where they begin.
LEMMA RecordsAre ==
    ASSUME NEW t \in Bytes
    PROVE  /\ Cardinality(Bs(t)) \in Nat /\ Len(RecordsOf(t)) = Cardinality(Bs(t))
           /\ Bs(t) \subseteq Nat /\ IsFiniteSet(Bs(t))
           /\ \A k \in 1 .. Cardinality(Bs(t)) : RecordsOf(t)[k] \in Bytes
           /\ \A b \in Bs(t) : /\ Rank(Bs(t), b) \in 1 .. Cardinality(Bs(t))
                               /\ RecordsOf(t)[Rank(Bs(t), b)] = SubSeq(t, b, EndOf(t, Brk(t), b))
<1> DEFINE S == Bs(t)
<1>0. S \subseteq Nat /\ IsFiniteSet(S)
  <2>1. S \subseteq 1 .. Len(t) /\ Len(t) \in Nat
    BY BreakIs DEF Bytes
  <2>2. IsFiniteSet(1 .. Len(t))
    BY <2>1, FS_Interval
  <2> QED
    BY <2>1, <2>2, FS_Subset
<1>1. Cardinality(S) \in Nat
  BY <1>0, FS_CardinalityType
<1>2. RecordsOf(t) = [k \in 1 .. Cardinality(S) |-> SubSeq(t, Nth(S, k), EndOf(t, Brk(t), Nth(S, k)))]
  BY Zenon DEF RecordsOf, Bs, Brk
<1>3. Len(RecordsOf(t)) = Cardinality(S)
  BY <1>1, <1>2
<1> HIDE DEF S
<1>4. ASSUME NEW b \in S
      PROVE  /\ Rank(S, b) \in 1 .. Cardinality(S)
             /\ RecordsOf(t)[Rank(S, b)] = SubSeq(t, b, EndOf(t, Brk(t), b))
  <2> DEFINE k == Rank(S, b)
             a == Nth(S, k)
  <2>1. k \in 1 .. Cardinality(S)
    BY <1>0, RankIs
  <2> HIDE DEF k
  <2>2. a \in S /\ Rank(S, a) = k
    BY <1>0, <2>1, NthIs
  <2> HIDE DEF a
  <2>3. a = b
    <3>1. ~(a < b) /\ ~(b < a)
      <4>1. k \in Nat /\ ~(k < k)
        BY <1>1, <2>1
      <4> QED
        BY <1>0, <2>2, <4>1, RankIs DEF k
    <3>2. a \in Nat /\ b \in Nat
      BY <1>0, <2>2
    <3> QED
      BY <3>1, <3>2
  <2>4. RecordsOf(t)[k] = SubSeq(t, a, EndOf(t, Brk(t), a))
    BY <1>2, <2>1 DEF a
  <2> QED
    BY <2>1, <2>3, <2>4 DEF k
<1>5. ASSUME NEW k \in 1 .. Cardinality(S)
      PROVE  RecordsOf(t)[k] \in Bytes
  <2> DEFINE b == Nth(S, k)
             e == EndOf(t, Brk(t), b)
  <2>1. b \in 1 .. Len(t)
    <3>1. b \in S
      BY <1>0, NthIs
    <3> QED
      BY <3>1, BreakIs DEF S
  <2> HIDE DEF b
  <2>2. e \in b .. Len(t)
    BY <2>1, EndIs
  <2> HIDE DEF e
  <2>3. SubSeq(t, b, e) \in Bytes
    BY <2>1, <2>2, RecordChars
  <2> QED
    BY <1>2, <2>3 DEF b, e
<1> QED
  BY <1>0, <1>1, <1>3, <1>4, <1>5 DEF S

\* How many records have begun.
LEMMA RankSteps ==
    ASSUME NEW t \in Bytes, NEW i \in 0 .. Len(t)
    PROVE  /\ Rank(Bs(t), 0) = 0 /\ Rank(Bs(t), Len(t)) = Cardinality(Bs(t))
           /\ i + 1 \in Bs(t) => Rank(Bs(t), i + 1) = Rank(Bs(t), i) + 1
           /\ \A b \in Bs(t) : b <= i /\ (\A k \in b + 1 .. i : k \notin Bs(t)) =>
                 Rank(Bs(t), i) = Rank(Bs(t), b)
<1> DEFINE S == Bs(t)
           upTo(b) == {x \in S : x <= b}
<1>0. Len(t) \in Nat /\ S \subseteq 1 .. Len(t) /\ S \subseteq Nat /\ IsFiniteSet(S)
  BY BreakIs, RecordsAre DEF Bytes
<1> HIDE DEF S
<1>1. upTo(0) = {} /\ upTo(Len(t)) = S
  <2>1. \A x \in S : ~(x <= 0) /\ x <= Len(t)
    BY <1>0
  <2> QED
    BY <2>1
<1>2. Cardinality({}) = 0
  BY FS_EmptySet
<1>3. ASSUME i + 1 \in S
      PROVE  Cardinality(upTo(i + 1)) = Cardinality(upTo(i)) + 1
  <2>1. \A x \in S : x <= i + 1 <=> x <= i \/ x = i + 1
    BY <1>0
  <2>2. ~(i + 1 <= i)
    BY <1>0
  <2>3. upTo(i + 1) = upTo(i) \cup {i + 1} /\ i + 1 \notin upTo(i) /\ upTo(i) \subseteq S
    BY <1>3, <2>1, <2>2
  <2> HIDE DEF upTo
  <2>4. IsFiniteSet(upTo(i))
    BY <1>0, <2>3, FS_Subset
  <2> QED
    BY <2>3, <2>4, FS_AddElement
<1>4. ASSUME NEW b \in S, b <= i, \A k \in b + 1 .. i : k \notin S
      PROVE  upTo(i) = upTo(b)
  <2>1. \A x \in S : x <= i <=> x <= b
    <3> SUFFICES ASSUME NEW x \in S, x <= i, ~(x <= b) PROVE FALSE
      BY <1>0, <1>4
    <3>1. x \in b + 1 .. i
      BY <1>0
    <3> QED
      BY <1>4, <3>1
  <2> QED
    BY <2>1
<1> QED
  BY <1>1, <1>2, <1>3, <1>4 DEF S, Rank

LEMMA NextRows ==
    ASSUME NEW t \in Bytes, NEW f, Reading(f, t), NEW k \in 0 .. Cardinality(Bs(t)),
           k < Cardinality(Bs(t)), NEW R, NEW i, ReadTo(t, f, k, R, i)
    PROVE  \/ Failed(Reader(t)) /\ Parses(t, Reader(t))
           \/ \E q, j : ReadTo(t, f, k + 1, q, j)
<1> DEFINE S == Bs(t)  m == Cardinality(S)
<1>0. /\ Len(t) \in Nat /\ m \in Nat /\ k \in Nat /\ i \in 0 .. Len(t)
      /\ R \in Seq(Outcomes) /\ Len(R) = k /\ ~Failed(R) /\ f[i] = Fresh(R)
      /\ \A j \in 1 .. Len(R) : R[j] = ParseRecord(RecordsOf(t)[j])
      /\ Rank(S, i) = k /\ (i < Len(t) => i + 1 \in S)
  BY RecordsAre DEF ReadTo, Parses, Bytes
<1>1. i # Len(t)
  BY <1>0, RankSteps
<1> DEFINE b == i + 1
           p == ParseRecord(SubSeq(t, b, EndOf(t, Brk(t), b)))
<1>2. b \in S /\ b - 1 = i /\ Rank(S, b) = k + 1
  BY <1>0, <1>1, RankSteps
<1>3. p = ParseRecord(RecordsOf(t)[k + 1])
  BY <1>2, RecordsAre
<1>4. NextIs(t, f, R, b, p)
  BY <1>0, <1>2, NextRecord
<1> HIDE DEF p, b, S
<1>5. ASSUME NEW x \in Outcomes, x = p
      PROVE  Parses(t, Append(R, x)) /\ Len(Append(R, x)) = k + 1
  <2> DEFINE q == Append(R, x)
  <2>1. /\ q \in Seq(Outcomes) /\ Len(q) = k + 1 /\ q[k + 1] = x
        /\ \A j \in 1 .. k : q[j] = R[j]
    BY <1>0
  <2> HIDE DEF q
  <2>2. ASSUME NEW j \in 1 .. k + 1
        PROVE  q[j] = ParseRecord(RecordsOf(t)[j])
    <3>1. CASE j = k + 1
      BY <1>3, <1>5, <2>1, <3>1
    <3>2. CASE j # k + 1
      <4>1. j \in 1 .. k /\ j \in 1 .. Len(R)
        BY <1>0, <3>2
      <4> QED
        BY <1>0, <2>1, <4>1
    <3> QED
      BY <3>1, <3>2
  <2>3. k + 1 <= m
    BY <1>0 DEF S
  <2>4. Parses(t, q)
    BY <2>1, <2>2, <2>3 DEF Parses, S
  <2> QED
    BY <2>1, <2>4 DEF q
<1>6. CASE p = Error /\ Reader(t) = Append(R, Error)
  <2>1. Failed(Append(R, Error)) /\ Error \in Outcomes
    BY <1>0, OutcomesAre, RowsGrow
  <2> QED
    BY <1>5, <1>6, <2>1
<1>7. ASSUME ~p.error, p \in Outcomes, NEW j \in b .. Len(t), f[j] = Fresh(Append(R, p)),
             j < Len(t) => j + 1 \in Bs(t), \A x \in b + 1 .. j : x \notin Bs(t)
      PROVE  ReadTo(t, f, k + 1, Append(R, p), j)
  <2>1. ~Failed(Append(R, p))
    BY <1>0, <1>7, RowsGrow
  <2>2. b \in 1 .. Len(t) /\ b <= j /\ j \in 0 .. Len(t)
    BY <1>0, <1>1 DEF b
  <2>3. Rank(Bs(t), j) = k + 1
    BY <1>2, <1>7, <2>2, RankSteps DEF S
  <2>4. Parses(t, Append(R, p)) /\ Len(Append(R, p)) = k + 1
    BY <1>5, <1>7
  <2> QED
    BY <1>7, <2>1, <2>2, <2>3, <2>4 DEF ReadTo
<1> QED
  BY <1>4, <1>6, <1>7 DEF NextIs

\* The rows that a reader of a whole text gives are what _parse_record makes of
\* its records, one row for one record up to the first error.
LEMMA ReaderRows ==
    ASSUME NEW t \in Bytes
    PROVE  /\ Parses(t, Reader(t))
           /\ ~Failed(Reader(t)) => Len(Reader(t)) = Cardinality(Bs(t))
<1> DEFINE m == Cardinality(Bs(t))
<1>0. m \in Nat /\ Len(t) \in Nat
  BY RecordsAre DEF Bytes
<1>1. PICK f : Reading(f, t)
  BY ReadingIs
<1> DEFINE failed == Failed(Reader(t)) /\ Parses(t, Reader(t))
           K == {k \in 0 .. m : failed \/ \E R, i : ReadTo(t, f, k, R, i)}
<1>2. 0 \in K
  <2>1. <<>> \in Seq(Outcomes) /\ Len(<<>>) = 0 /\ ~Failed(<<>>)
    BY ErrorRows
  <2>2. Parses(t, <<>>)
    BY <1>0, <2>1 DEF Parses
  <2>3. 0 < Len(t) => 0 + 1 \in Bs(t)
    <3> SUFFICES ASSUME 0 < Len(t) PROVE 1 \in Bs(t)
      OBVIOUS
    <3>1. 1 \in 1 .. Len(t) /\ 0 \notin 1 .. Len(t) /\ 1 - 1 = 0
      BY <1>0
    <3> QED
      BY <3>1, BreakIs
  <2>4. 0 \in 0 .. Len(t) /\ 0 \in 0 .. m
    BY <1>0
  <2>5. Rank(Bs(t), 0) = 0
    BY <2>4, RankSteps
  <2>6. f[0] = Fresh(<<>>)
    BY <1>1 DEF Reading
  <2>7. ReadTo(t, f, 0, <<>>, 0)
    BY <2>1, <2>2, <2>3, <2>4, <2>5, <2>6 DEF ReadTo
  <2> HIDE DEF failed
  <2> QED
    BY <2>4, <2>7
<1>3. ASSUME NEW k \in 0 .. m, k < m, k \in K
      PROVE  k + 1 \in K
  <2>1. k + 1 \in 0 .. m
    BY <1>0, <1>3
  <2>2. CASE failed
    BY <2>1, <2>2
  <2>3. CASE \E R, i : ReadTo(t, f, k, R, i)
    <3>1. failed \/ \E R, i : ReadTo(t, f, k + 1, R, i)
      BY <1>1, <1>3, <2>3, NextRows
    <3> QED
      BY <2>1, <3>1
  <2> QED
    BY <1>3, <2>2, <2>3
<1> HIDE DEF K
<1>4. m \in K
  <2>1. \A k \in 0 .. m : k < m /\ k \in K => k + 1 \in K
    BY <1>3
  <2>2. \A k \in 0 .. m : k \in K
    <3> HIDE DEF m
    <3> QED
      BY ONLY <1>0, <1>2, <2>1, UpTo
  <2> QED
    BY <1>0, <2>2
<1>5. CASE failed
  BY <1>5
<1>6. ASSUME NEW R, NEW i, ReadTo(t, f, m, R, i)
      PROVE  Reader(t) = R /\ Parses(t, R) /\ Len(R) = m
  <2>1. Parses(t, R) /\ Len(R) = m /\ i \in 0 .. Len(t) /\ f[i] = Fresh(R) /\ Rank(Bs(t), i) = m
    BY <1>6 DEF ReadTo
  <2>2. i = Len(t)
    <3> SUFFICES ASSUME i # Len(t) PROVE FALSE
      OBVIOUS
    <3>1. i + 1 \in Bs(t)
      BY <1>0, <1>6, <2>1 DEF ReadTo
    <3>2. Rank(Bs(t), i + 1) = m + 1
      BY <2>1, <3>1, RankSteps
    <3>3. Rank(Bs(t), i + 1) \in 1 .. m
      BY <3>1, RecordsAre
    <3> QED
      BY <1>0, <3>2, <3>3
  <2>3. f[Len(t)].mode # "quoted" /\ f[Len(t)].rows = R
    BY <2>1, <2>2 DEF Fresh, State
  <2> QED
    BY <1>1, <2>1, <2>3 DEF Reading
<1> QED
  BY <1>4, <1>5, <1>6 DEF K

\* Splitting the text first and parsing each record on its own gives what one
\* reader over the whole text gives, row by row up to the first error, except
\* for the records over the limit (_iter_logical_records and _parse_record).
THEOREM ReadsAsCsv == Spec => []AgreesWithReader
<1>1. Inv /\ SplitsAsCsv => AgreesWithReader
  <2> SUFFICES ASSUME Inv, SplitsAsCsv, phase = "done" PROVE AgreesWithReader
    BY DEF AgreesWithReader
  <2> DEFINE t == text
             rows == Reader(t)
             recs == RecordsOf(t)
  <2>1. t \in Bytes
    BY TextIs DEF Inv, SplitInv, PlaceInv
  <2>2. /\ Len(records) = Len(recs)
        /\ \A k \in DOMAIN records : records[k] = Kept(recs[k])
    BY DEF SplitsAsCsv
  <2>3. DOMAIN records = 1 .. Len(records)
    BY DEF Inv, SplitInv, YieldInv
  <2> HIDE DEF t
  <2>4. /\ rows \in Seq(Outcomes) /\ Len(rows) <= Len(recs)
        /\ ~Failed(rows) => Len(rows) = Len(recs)
        /\ \A j \in 1 .. Len(rows) : rows[j] = ParseRecord(recs[j])
        /\ Len(recs) \in Nat /\ \A j \in 1 .. Len(recs) : recs[j] \in Bytes
    BY <2>1, ReaderRows, RecordsAre DEF Parses
  <2> HIDE DEF rows, recs
  <2>5. Len(rows) \in Nat /\ DOMAIN rows = 1 .. Len(rows)
    BY <2>4
  <2>6. ASSUME NEW k \in DOMAIN rows, ~records[k].truncated
        PROVE  ParseRecord(records[k].text) = rows[k]
    <3>1. k \in 1 .. Len(rows) /\ k \in 1 .. Len(recs) /\ k \in DOMAIN records
      <4>1. k \in 1 .. Len(rows)
        BY <2>5
      <4>2. k \in 1 .. Len(recs)
        BY <2>4, <2>5, <4>1
      <4> QED
        BY <2>2, <2>3, <4>1, <4>2
    <3>2. records[k] = Kept(recs[k])
      BY <2>2, <3>1
    <3>3. records[k].text = recs[k]
      <4>1. records[k].truncated = (Len(recs[k]) > MaxRecord)
        BY <3>2 DEF Kept
      <4>2. Len(recs[k]) \in Nat
        BY <2>4, <3>1 DEF Bytes
      <4>3. ~(Len(recs[k]) > MaxRecord)
        BY <2>6, <4>1
      <4>4. Len(recs[k]) <= MaxRecord
        BY <4>2, <4>3, CsvRecordsAssumption
      <4> QED
        BY <3>2, <4>4 DEF Kept
    <3> QED
      BY <2>4, <3>1, <3>3
  <2> QED
    BY <2>2, <2>4, <2>6 DEF AgreesWithReader, rows, t
<1> QED
  BY <1>1, RecordsInvariant, SplitsCorrectly, PTL
==============================================================================
