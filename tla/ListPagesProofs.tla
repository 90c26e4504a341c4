--------------------------- MODULE ListPagesProofs ---------------------------
(***************************************************************************)
(* Theorems about ListPages, for all tables, reports, orders, queries and  *)
(* page sizes: a walk through the pages misses no row that was there when  *)
(* it began, a page fits its total, and the errors of a report that has    *)
(* ended are repeated at most once for each that is added late, and shown  *)
(* once and in order when none is.                                         *)
(***************************************************************************)
EXTENDS ListPages, FiniteSetTheorems, SequenceTheorems, WellFoundedInduction, TLAPS

-----------------------------------------------------------------------------
(* Places in an order, given as a set of pairs.                            *)

StrictOrder(S, L) ==
    /\ \A a \in S : <<a, a>> \notin L
    /\ \A a, b, c \in S : <<a, b>> \in L /\ <<b, c>> \in L => <<a, c>> \in L
    /\ \A a, b \in S : a # b => <<a, b>> \in L \/ <<b, a>> \in L

PlaceIn(S, L, e) == Cardinality({d \in S : <<e, d>> \notin L})

LEMMA PlacesAre ==
    ASSUME NEW S, IsFiniteSet(S), NEW L, StrictOrder(S, L)
    PROVE  /\ Cardinality(S) \in Nat
           /\ \A e \in S : PlaceIn(S, L, e) \in 1 .. Cardinality(S)
           /\ \A a, b \in S : <<a, b>> \in L => PlaceIn(S, L, a) < PlaceIn(S, L, b)
           /\ \A k \in 1 .. Cardinality(S) : \E e \in S : PlaceIn(S, L, e) = k
<1> DEFINE upTo(e) == {d \in S : <<e, d>> \notin L}
           n == Cardinality(S)
<1>1. \A e : /\ IsFiniteSet(upTo(e)) /\ Cardinality(upTo(e)) <= Cardinality(S)
             /\ Cardinality(upTo(e)) \in Nat
  BY FS_Subset, FS_CardinalityType
<1>2. n \in Nat
  BY FS_CardinalityType
<1>3. ASSUME NEW e \in S
      PROVE  Cardinality(upTo(e)) \in 1 .. n
  <2>1. e \in upTo(e)
    BY DEF StrictOrder
  <2> HIDE DEF upTo
  <2>2. Cardinality(upTo(e)) # 0
    BY <1>1, <2>1, FS_EmptySet
  <2> QED
    BY <1>1, <1>2, <2>2
<1>4. ASSUME NEW a \in S, NEW b \in S, <<a, b>> \in L
      PROVE  Cardinality(upTo(a)) < Cardinality(upTo(b))
  <2>1. upTo(a) \subseteq upTo(b)
    <3> SUFFICES ASSUME NEW d \in S, <<a, d>> \notin L PROVE <<b, d>> \notin L
      OBVIOUS
    <3> QED
      BY <1>4 DEF StrictOrder
  <2>2. b \in upTo(b) /\ b \notin upTo(a)
    BY <1>4 DEF StrictOrder
  <2> HIDE DEF upTo
  <2>3. Cardinality(upTo(a)) <= Cardinality(upTo(b)) /\ Cardinality(upTo(a)) # Cardinality(upTo(b))
    BY <1>1, <2>1, <2>2, FS_Subset
  <2> QED
    BY <1>1, <2>3
<1> DEFINE f == [e \in S |-> Cardinality(upTo(e))]
<1> HIDE DEF upTo
<1>5. f \in Injection(S, 1 .. n)
  <2>1. f \in [S -> 1 .. n]
    BY <1>3
  <2>2. ASSUME NEW a \in S, NEW b \in S, a # b
        PROVE  f[a] # f[b]
    <3>1. <<a, b>> \in L \/ <<b, a>> \in L
      BY <2>2 DEF StrictOrder
    <3>2. Cardinality(upTo(a)) < Cardinality(upTo(b)) \/ Cardinality(upTo(b)) < Cardinality(upTo(a))
      BY <1>4, <3>1
    <3>3. Cardinality(upTo(a)) # Cardinality(upTo(b))
      BY <1>1, <3>2
    <3> QED
      BY <3>3
  <2> HIDE DEF f
  <2> QED
    BY <2>1, <2>2 DEF Injection, IsInjective
<1>6. IsFiniteSet(1 .. n) /\ Cardinality(1 .. n) = n
  BY <1>2, FS_Interval
<1>7. f \in Surjection(S, 1 .. n)
  <2> HIDE DEF f
  <2> QED
    BY <1>5, <1>6, FS_Injection
<1>8. \A k \in 1 .. n : \E e \in S : f[e] = k
  <2> HIDE DEF f
  <2> QED
    BY <1>7 DEF Surjection
<1>9. \A e \in S : f[e] = PlaceIn(S, L, e)
  BY DEF PlaceIn, upTo
<1>10. \A e \in S : f[e] = Cardinality(upTo(e))
  OBVIOUS
<1> HIDE DEF f
<1>11. \A e \in S : PlaceIn(S, L, e) \in 1 .. n
  BY <1>3, <1>9, <1>10
<1>12. \A a, b \in S : <<a, b>> \in L => PlaceIn(S, L, a) < PlaceIn(S, L, b)
  BY <1>4, <1>9, <1>10
<1>13. \A k \in 1 .. n : \E e \in S : PlaceIn(S, L, e) = k
  BY <1>8, <1>9
<1> QED
  BY <1>2, <1>11, <1>12, <1>13 DEF n

\* The members of a set in an order, each at its place.
Sorted(S, L) == [k \in 1 .. Cardinality(S) |-> CHOOSE e \in S : PlaceIn(S, L, e) = k]

LEMMA SortedIs ==
    ASSUME NEW S, IsFiniteSet(S), NEW L, StrictOrder(S, L)
    PROVE  /\ Sorted(S, L) \in Seq(S) /\ Len(Sorted(S, L)) = Cardinality(S)
           /\ \A e \in S : Sorted(S, L)[PlaceIn(S, L, e)] = e
           /\ \A i, j \in 1 .. Cardinality(S) :
                  i < j => <<Sorted(S, L)[i], Sorted(S, L)[j]>> \in L
<1> DEFINE n == Cardinality(S)
           P(e) == PlaceIn(S, L, e)
           s == Sorted(S, L)
<1>1. /\ n \in Nat
      /\ \A e \in S : P(e) \in 1 .. n
      /\ \A a, b \in S : <<a, b>> \in L => P(a) < P(b)
      /\ \A k \in 1 .. n : \E e \in S : P(e) = k
  BY PlacesAre
<1>2. s = [k \in 1 .. n |-> CHOOSE e \in S : P(e) = k]
  BY DEF Sorted
<1> HIDE DEF n, P, s
<1>3. \A k \in 1 .. n : s[k] \in S /\ P(s[k]) = k
  <2>1. \A k \in 1 .. n : s[k] = CHOOSE e \in S : P(e) = k
    BY <1>2
  <2> QED
    BY <1>1, <2>1
<1>4. s \in Seq(S) /\ Len(s) = n
  <2>1. s = [k \in 1 .. n |-> s[k]]
    BY <1>2
  <2> QED
    BY <1>1, <1>3, <2>1
<1>5. ASSUME NEW a \in S, NEW b \in S, P(a) = P(b)
      PROVE  a = b
  <2> SUFFICES ASSUME a # b PROVE FALSE
    OBVIOUS
  <2>1. P(a) < P(b) \/ P(b) < P(a)
    BY <1>1 DEF StrictOrder
  <2>2. P(a) \in Nat /\ P(b) \in Nat
    BY <1>1
  <2> QED
    BY <1>5, <2>1, <2>2
<1>6. ASSUME NEW e \in S
      PROVE  s[P(e)] = e
  <2>1. P(e) \in 1 .. n
    BY <1>1
  <2>2. s[P(e)] \in S /\ P(s[P(e)]) = P(e)
    BY <1>3, <2>1
  <2> QED
    BY <1>5, <2>2
<1>7. ASSUME NEW i \in 1 .. n, NEW j \in 1 .. n, i < j
      PROVE  <<s[i], s[j]>> \in L
  <2>1. s[i] \in S /\ s[j] \in S /\ P(s[i]) = i /\ P(s[j]) = j
    BY <1>3
  <2>2. s[i] # s[j] /\ ~(P(s[j]) < P(s[i]))
    BY <1>7, <2>1
  <2>3. <<s[i], s[j]>> \in L \/ <<s[j], s[i]>> \in L
    BY <2>1, <2>2 DEF StrictOrder
  <2>4. <<s[j], s[i]>> \notin L
    BY <1>1, <2>1, <2>2
  <2> QED
    BY <2>3, <2>4
<1> QED
  BY <1>4, <1>6, <1>7 DEF n, P, s

\* In a larger set with the same order between the old members, a member has
\* its place or a later one.
LEMMA PlaceGrows ==
    ASSUME NEW S, NEW T, IsFiniteSet(T), S \subseteq T, NEW L, NEW M,
           \A a, b \in S : <<a, b>> \in L <=> <<a, b>> \in M, NEW e \in S
    PROVE  /\ PlaceIn(S, L, e) \in Nat /\ PlaceIn(T, M, e) \in Nat
           /\ PlaceIn(S, L, e) <= PlaceIn(T, M, e)
<1> DEFINE old == {d \in S : <<e, d>> \notin L}
           new == {d \in T : <<e, d>> \notin M}
<1>1. old \subseteq new /\ new \subseteq T
  OBVIOUS
<1>2. PlaceIn(S, L, e) = Cardinality(old) /\ PlaceIn(T, M, e) = Cardinality(new)
  BY DEF PlaceIn
<1> HIDE DEF old, new
<1>3. IsFiniteSet(new) /\ IsFiniteSet(old) /\ Cardinality(old) <= Cardinality(new)
  BY <1>1, FS_Subset
<1> QED
  BY <1>2, <1>3, FS_CardinalityType

-----------------------------------------------------------------------------
(* What a request selects.                                                 *)

RowsOf(kind) ==
    CASE kind = "warehouses" -> Codes
      [] kind = "products"   -> Skus
      [] kind = "stocks"     -> Stocks
      [] kind = "reports"    -> Reports
      [] kind = "errors"     -> [line : Nat, id : Nat]

\* The order of the selected rows.
Order == {p \in Selected \X Selected : Precedes(p[1], p[2])}

\* What the rows and their order need of the tables.
RowTypes ==
    /\ query \in AllQueries
    /\ stamp \in [Reports -> Nat]
    /\ IsFiniteSet(errors) /\ errors \subseteq [line : Nat, id : Nat]

LEMMA KindIs ==
    ASSUME RowTypes
    PROVE  \/ query.kind = "warehouses" \/ query.kind = "products" \/ query.kind = "stocks"
           \/ query.kind = "reports" \/ query.kind = "errors"
BY DEF RowTypes, AllQueries, Kinds, InventoryKinds

LEMMA SelectedIs ==
    ASSUME RowTypes
    PROVE  IsFiniteSet(Selected) /\ Selected \subseteq RowsOf(query.kind)
<1>1. /\ IsFiniteSet(Codes) /\ IsFiniteSet(Skus) /\ IsFiniteSet(Reports)
      /\ IsFiniteSet(Stocks)
  BY ListPagesAssumption, FS_Product DEF Stocks
<1>2. CASE query.kind = "warehouses"
  <2>1. Selected = Warehouses /\ Warehouses \subseteq Codes /\ RowsOf(query.kind) = Codes
    BY <1>2 DEF Selected, Warehouses, RowsOf
  <2> QED
    BY <1>1, <2>1, FS_Subset
<1>3. CASE query.kind = "products"
  <2>1. Selected = Products /\ Products \subseteq Skus /\ RowsOf(query.kind) = Skus
    BY <1>3 DEF Selected, Products, RowsOf
  <2> QED
    BY <1>1, <2>1, FS_Subset
<1>4. CASE query.kind = "stocks"
  <2>1. Selected = Balances /\ Balances \subseteq Stocks /\ RowsOf(query.kind) = Stocks
    BY <1>4 DEF Selected, Balances, RowsOf
  <2> QED
    BY <1>1, <2>1, FS_Subset
<1>5. CASE query.kind = "reports"
  <2>1. Selected = ReportsWanted /\ ReportsWanted \subseteq Reports /\ RowsOf(query.kind) = Reports
    BY <1>5 DEF Selected, ReportsWanted, RowsOf
  <2> QED
    BY <1>1, <2>1, FS_Subset
<1>6. CASE query.kind = "errors"
  <2>1. Selected = errors /\ RowsOf(query.kind) = [line : Nat, id : Nat]
    BY <1>6 DEF Selected, RowsOf
  <2> QED
    BY <2>1 DEF RowTypes
<1> QED
  BY <1>2, <1>3, <1>4, <1>5, <1>6, KindIs

LEMMA PrecedesIsStrict ==
    ASSUME RowTypes
    PROVE  /\ \A a \in Selected : ~Precedes(a, a)
           /\ \A a, b, c \in Selected : Precedes(a, b) /\ Precedes(b, c) => Precedes(a, c)
           /\ \A a, b \in Selected : a # b => Precedes(a, b) \/ Precedes(b, a)
<1>0. Selected \subseteq RowsOf(query.kind)
  BY SelectedIs
<1>1. /\ \A c \in Codes : CodeRank[c] \in Nat
      /\ \A k \in Skus : SkuRank[k] \in Nat
      /\ \A c, d \in Codes : CodeRank[c] = CodeRank[d] => c = d
      /\ \A k, l \in Skus : SkuRank[k] = SkuRank[l] => k = l
      /\ Reports \subseteq Nat
  BY ListPagesAssumption
<1>2. CASE query.kind = "warehouses"
  <2>1. /\ Selected \subseteq Codes
        /\ \A a, b : Precedes(a, b) <=> CodeRank[a] < CodeRank[b]
    BY <1>0, <1>2 DEF RowsOf, Precedes
  <2> QED
    BY <1>1, <2>1
<1>3. CASE query.kind = "products"
  <2>1. /\ Selected \subseteq Skus
        /\ \A a, b : Precedes(a, b) <=> SkuRank[a] < SkuRank[b]
    BY <1>0, <1>3 DEF RowsOf, Precedes
  <2> QED
    BY <1>1, <2>1
<1>4. CASE query.kind = "stocks"
  <2>1. /\ Selected \subseteq Stocks
        /\ \A a, b : Precedes(a, b) <=>
               CodeRank[a[1]] < CodeRank[b[1]] \/ (a[1] = b[1] /\ SkuRank[a[2]] < SkuRank[b[2]])
    BY <1>0, <1>4 DEF RowsOf, Precedes, InStockOrder, ByCodes
  <2>2. \A a \in Selected : a[1] \in Codes /\ a[2] \in Skus /\ a = <<a[1], a[2]>>
    BY <2>1 DEF Stocks
  <2>3. \A a \in Selected : ~Precedes(a, a)
    BY <1>1, <2>1, <2>2
  <2>4. \A a, b, c \in Selected : Precedes(a, b) /\ Precedes(b, c) => Precedes(a, c)
    BY <1>1, <2>1, <2>2
  <2>5. ASSUME NEW a \in Selected, NEW b \in Selected, a # b
        PROVE  Precedes(a, b) \/ Precedes(b, a)
    <3>1. a[1] # b[1] \/ a[2] # b[2]
      BY <2>2, <2>5
    <3> QED
      BY <1>1, <2>1, <2>2, <3>1
  <2> QED
    BY <2>3, <2>4, <2>5
<1>5. CASE query.kind = "reports"
  <2>1. /\ Selected \subseteq Reports
        /\ \A a, b : Precedes(a, b) <=> stamp[a] > stamp[b] \/ (stamp[a] = stamp[b] /\ a > b)
    BY <1>0, <1>5 DEF RowsOf, Precedes, Newer
  <2>2. \A a \in Selected : stamp[a] \in Nat /\ a \in Nat
    BY <1>1, <2>1 DEF RowTypes
  <2> QED
    BY <2>1, <2>2
<1>6. CASE query.kind = "errors"
  <2>1. /\ Selected \subseteq [line : Nat, id : Nat]
        /\ \A a, b : Precedes(a, b) <=> a.line < b.line \/ (a.line = b.line /\ a.id < b.id)
    BY <1>0, <1>6 DEF RowsOf, Precedes, Earlier
  <2>2. \A a \in Selected : a.line \in Nat /\ a.id \in Nat /\ a = [line |-> a.line, id |-> a.id]
    BY <2>1
  <2> QED
    BY <2>1, <2>2
<1> QED
  BY <1>2, <1>3, <1>4, <1>5, <1>6, KindIs

\* The selection has each row once, at its place.
SelectionFacts ==
    /\ IsFiniteSet(Selected) /\ Selected \subseteq RowsOf(query.kind)
    /\ StrictOrder(Selected, Order)
    /\ Selection = Sorted(Selected, Order)

LEMMA SelectionIs == RowTypes => SelectionFacts
<1> SUFFICES ASSUME RowTypes PROVE SelectionFacts
  OBVIOUS
<1>1. IsFiniteSet(Selected) /\ Selected \subseteq RowsOf(query.kind)
  BY SelectedIs
<1>2. \A a, b \in Selected : <<a, b>> \in Order <=> Precedes(a, b)
  BY DEF Order
<1>3. StrictOrder(Selected, Order)
  BY <1>2, PrecedesIsStrict DEF StrictOrder
<1>4. ASSUME NEW e \in Selected
      PROVE  Place(e) = PlaceIn(Selected, Order, e)
  <2>1. {r \in Selected : ~Precedes(e, r)} = {r \in Selected : <<e, r>> \notin Order}
    BY <1>2
  <2> QED
    BY <2>1 DEF Place, PlaceIn
<1>5. Selection = Sorted(Selected, Order)
  <2>1. \A k : (CHOOSE row \in Selected : Place(row) = k) =
              CHOOSE row \in Selected : PlaceIn(Selected, Order, row) = k
    BY <1>4
  <2> QED
    BY <2>1 DEF Selection, Sorted
<1> QED
  BY <1>1, <1>3, <1>5 DEF SelectionFacts

LEMMA SelectionIsNext == RowTypes' => SelectionFacts'
BY SelectionIs, PTL

-----------------------------------------------------------------------------
(* What an apply does to the rows there are.                               *)

InventoryTypes ==
    /\ tables \in [ warehouses : [Codes -> Names \cup {None}],
                    products   : [Skus -> Names \cup {None}],
                    balances   : [Stocks -> Nat \cup {None}] ]
    /\ \A p \in Stocks : tables.balances[p] # None =>
           tables.warehouses[p[1]] # None /\ tables.products[p[2]] # None

\* No row of t is missing in u.
KeptRows(t, u) ==
    /\ \A c \in Codes : t.warehouses[c] # None => u.warehouses[c] # None
    /\ \A k \in Skus : t.products[k] # None => u.products[k] # None
    /\ \A p \in Stocks : t.balances[p] # None => u.balances[p] # None

LEMMA Least ==
    ASSUME NEW S \in SUBSET Nat, S # {}
    PROVE  \E k \in S : \A m \in S : k <= m
<1>1. PICK k \in S : \A m \in S : <<m, k>> \notin OpToRel(<, Nat)
  BY NatLessThanWellFounded, WFMin, Zenon
<1>2. \A m \in S : ~(m < k)
  BY <1>1 DEF OpToRel
<1> QED
  BY <1>2

\* A set of lines that is not empty has a last one.
LEMMA LastLineOf ==
    ASSUME NEW n \in Nat, NEW L \in SUBSET (1 .. n), L # {}
    PROVE  LastLine(L) \in L
<1> DEFINE rest == {k \in Nat : \E i \in L : k = n - i}
<1>1. PICK i \in L : TRUE
  OBVIOUS
<1>2. n - i \in rest
  BY <1>1
<1>3. PICK k \in rest : \A m \in rest : k <= m
  <2>1. rest \in SUBSET Nat /\ rest # {}
    BY <1>2
  <2> HIDE DEF rest
  <2> QED
    BY <2>1, Least
<1>4. PICK l \in L : k = n - l
  BY <1>3
<1>5. ASSUME NEW j \in L PROVE j <= l
  <2>1. n - j \in rest
    OBVIOUS
  <2>2. k <= n - j
    BY <1>3, <2>1
  <2> QED
    BY <1>4, <2>2
<1>6. \E m \in L : \A j \in L : j <= m
  BY <1>5
<1> QED
  BY <1>6 DEF LastLine

\* A line of a report, and the last of several.
LEMMA LineOf ==
    ASSUME NEW s \in Snapshots
    PROVE  /\ \A i \in DOMAIN s : /\ s[i].code \in Codes /\ s[i].sku \in Skus
                                  /\ s[i].warehouse \in Names /\ s[i].product \in Names
                                  /\ s[i].quantity \in Nat
           /\ \A L \in SUBSET DOMAIN s : L # {} => LastLine(L) \in L
<1>1. DOMAIN s = 1 .. Len(s) /\ Len(s) \in Nat /\ \A i \in DOMAIN s : s[i] \in Row
  BY SnapshotsAssumption
<1>2. \A L \in SUBSET DOMAIN s : L # {} => LastLine(L) \in L
  BY <1>1, LastLineOf
<1> QED
  BY <1>1, <1>2, QuantitiesAssumption DEF Row

\* Names that are written are names, those of other codes and skus stay.
LEMMA NamesAre ==
    ASSUME NEW s \in Snapshots
    PROVE  /\ \A f \in [Codes -> Names \cup {None}] :
                /\ WarehouseNames(f, s) \in [Codes -> Names \cup {None}]
                /\ \A c \in Codes : f[c] # None \/ WarehouseLines(s, c) # {} =>
                                       WarehouseNames(f, s)[c] # None
           /\ \A f \in [Skus -> Names \cup {None}] :
                /\ ProductNames(f, s) \in [Skus -> Names \cup {None}]
                /\ \A k \in Skus : f[k] # None \/ ProductLines(s, k) # {} =>
                                      ProductNames(f, s)[k] # None
<1>1. ASSUME NEW c, WarehouseLines(s, c) # {}
      PROVE  s[LastLine(WarehouseLines(s, c))].warehouse \in Names
  BY <1>1, LineOf DEF WarehouseLines
<1>2. ASSUME NEW k, ProductLines(s, k) # {}
      PROVE  s[LastLine(ProductLines(s, k))].product \in Names
  BY <1>2, LineOf DEF ProductLines
<1> QED
  BY <1>1, <1>2, AbsentAssumption DEF WarehouseNames, ProductNames

LEMMA ApplyKeepsRows ==
    ASSUME InventoryTypes, Next
    PROVE  InventoryTypes' /\ KeptRows(tables, tables')
<1> DEFINE t == tables
<1>1. PICK s \in Snapshots : Apply(s)
  BY DEF Next
<1>2. PICK line \in [Listed(s) -> DOMAIN s] :
          /\ \A p \in Listed(s) : line[p] \in StockLines(s, p)
          /\ tables' = [ warehouses |-> WarehouseNames(t.warehouses, s),
                         products   |-> ProductNames(t.products, s),
                         balances   |-> After(t.balances, s, line) ]
  BY <1>1, Zenon DEF Apply
<1>3. /\ t.warehouses \in [Codes -> Names \cup {None}]
      /\ t.products \in [Skus -> Names \cup {None}]
      /\ t.balances \in [Stocks -> Nat \cup {None}]
  BY DEF InventoryTypes
<1>4. \A p \in Listed(s) : s[line[p]].quantity \in Nat
  BY LineOf
<1>5. /\ After(t.balances, s, line) \in [Stocks -> Nat \cup {None}]
      /\ \A p \in Stocks : After(t.balances, s, line)[p] # None <=>
                              t.balances[p] # None \/ p \in Listed(s)
  BY <1>3, <1>4, AbsentAssumption DEF After
<1>6. /\ tables'.warehouses = WarehouseNames(t.warehouses, s)
      /\ tables'.products = ProductNames(t.products, s)
      /\ tables'.balances = After(t.balances, s, line)
  BY <1>2
<1>7. tables' \in [ warehouses : [Codes -> Names \cup {None}],
                    products   : [Skus -> Names \cup {None}],
                    balances   : [Stocks -> Nat \cup {None}] ]
  BY <1>2, <1>3, <1>5, NamesAre
<1>8. KeptRows(t, tables')
  BY <1>3, <1>5, <1>6, NamesAre DEF KeptRows
<1>9. ASSUME NEW p \in Stocks, tables'.balances[p] # None
      PROVE  tables'.warehouses[p[1]] # None /\ tables'.products[p[2]] # None
  <2>1. p[1] \in Codes /\ p[2] \in Skus
    BY DEF Stocks
  <2>2. CASE t.balances[p] # None
    <3>1. t.warehouses[p[1]] # None /\ t.products[p[2]] # None
      BY <2>2 DEF InventoryTypes
    <3> QED
      BY <1>8, <2>1, <3>1 DEF KeptRows
  <2>3. CASE p \in Listed(s)
    <3>1. PICK i \in DOMAIN s : p = <<s[i].code, s[i].sku>>
      BY <2>3 DEF Listed
    <3>2. WarehouseLines(s, p[1]) # {} /\ ProductLines(s, p[2]) # {}
      BY <3>1 DEF WarehouseLines, ProductLines
    <3> QED
      BY <1>3, <1>6, <2>1, <3>2, NamesAre
  <2> QED
    BY <1>5, <1>6, <1>9, <2>2, <2>3
<1> QED
  BY <1>7, <1>8, <1>9 DEF InventoryTypes

-----------------------------------------------------------------------------
(* What a step does to the selection of a request.                         *)

\* What the selection is made of.
selecting == <<tables, status, stamp, errors, query>>

LEMMA SelectionStays ==
    ASSUME UNCHANGED selecting
    PROVE  /\ Selected' = Selected /\ Order' = Order
           /\ final' = final => IsLasting' = IsLasting
<1>1. query' = query /\ tables' = tables /\ status' = status /\ stamp' = stamp /\ errors' = errors
  BY DEF selecting
<1>2. /\ Warehouses' = Warehouses /\ Products' = Products
      /\ Balances' = Balances /\ ReportsWanted' = ReportsWanted
  BY <1>1 DEF Warehouses, Products, Balances, ReportsWanted, Filtered, Searched
<1>3. Selected' = Selected
  BY <1>1, <1>2 DEF Selected
<1>4. Order' = Order
  BY <1>1, <1>3 DEF Order, Precedes, InStockOrder, ByCodes, Newer, Earlier
<1>5. final' = final => IsLasting' = IsLasting
  BY <1>1 DEF IsLasting
<1> QED
  BY <1>3, <1>4, <1>5

\* The rows of a lasting request stay selected, in the same order.
LEMMA LastingGrows ==
    ASSUME RowTypes, IsLasting, UNCHANGED <<query, final>>, KeptRows(tables, tables'),
           final /\ query.kind = "errors" => errors \subseteq errors',
           \A r \in Reports : status[r] # "absent" => status'[r] # "absent" /\ stamp'[r] = stamp[r]
    PROVE  /\ Selected \subseteq Selected'
           /\ \A a, b \in Selected : <<a, b>> \in Order <=> <<a, b>> \in Order'
           /\ IsLasting'
<1>1. IsLasting'
  BY DEF IsLasting
<1>2. query \in AllQueries /\ query' = query
  BY DEF RowTypes
<1>3. SUFFICES /\ Selected \subseteq Selected'
               /\ \A a, b \in Selected : Precedes(a, b) <=> Precedes(a, b)'
  BY <1>1 DEF Order
<1>4. CASE query.kind = "warehouses"
  <2>1. Warehouses \subseteq Warehouses'
    BY <1>2, <1>4 DEF IsLasting, Warehouses, Searched, Filtered, KeptRows, AllQueries
  <2>2. Selected = Warehouses /\ Selected' = Warehouses'
    BY <1>2, <1>4 DEF Selected
  <2>3. \A a, b : Precedes(a, b) <=> Precedes(a, b)'
    BY <1>2, <1>4 DEF Precedes
  <2> QED
    BY <2>1, <2>2, <2>3
<1>5. CASE query.kind = "products"
  <2>1. Products \subseteq Products'
    BY <1>2, <1>5 DEF IsLasting, Products, Searched, Filtered, KeptRows, AllQueries
  <2>2. Selected = Products /\ Selected' = Products'
    BY <1>2, <1>5 DEF Selected
  <2>3. \A a, b : Precedes(a, b) <=> Precedes(a, b)'
    BY <1>2, <1>5 DEF Precedes
  <2> QED
    BY <2>1, <2>2, <2>3
<1>6. CASE query.kind = "stocks"
  <2>1. \A p \in Stocks : p[1] \in Codes /\ p[2] \in Skus
    BY DEF Stocks
  <2>2. Balances \subseteq Balances'
    BY <1>2, <1>6, <2>1 DEF IsLasting, Balances, Filtered, KeptRows, AllQueries
  <2>3. Selected = Balances /\ Selected' = Balances'
    BY <1>2, <1>6 DEF Selected
  <2>4. \A a, b : Precedes(a, b) <=> Precedes(a, b)'
    BY <1>2, <1>6 DEF Precedes, InStockOrder, ByCodes
  <2> QED
    BY <2>2, <2>3, <2>4
<1>7. CASE query.kind = "reports"
  <2>1. query.status = "any"
    BY <1>7 DEF IsLasting
  <2>2. /\ ReportsWanted = {r \in Reports : status[r] # "absent"}
        /\ ReportsWanted' = {r \in Reports : status'[r] # "absent"}
    BY <1>2, <2>1 DEF ReportsWanted
  <2>3. Selected = ReportsWanted /\ Selected' = ReportsWanted'
    BY <1>2, <1>7 DEF Selected
  <2>4. \A r \in Selected : stamp'[r] = stamp[r]
    BY <2>2, <2>3
  <2>5. \A a, b \in Selected : Precedes(a, b) <=> Precedes(a, b)'
    BY <1>2, <1>7, <2>4 DEF Precedes, Newer
  <2> QED
    BY <2>2, <2>3, <2>5
<1>8. CASE query.kind = "errors"
  <2>1. Selected = errors /\ Selected' = errors'
    BY <1>2, <1>8 DEF Selected
  <2>2. errors \subseteq errors'
    BY <1>8 DEF IsLasting
  <2>3. \A a, b : Precedes(a, b) <=> Precedes(a, b)'
    BY <1>2, <1>8 DEF Precedes, Earlier
  <2> QED
    BY <2>1, <2>2, <2>3
<1> QED
  BY <1>4, <1>5, <1>6, <1>7, <1>8, KindIs

-----------------------------------------------------------------------------
(* The inductive invariant.                                                *)

Types ==
    /\ query \in Queries /\ limit \in Limits /\ offset \in Nat /\ byTotal \in BOOLEAN
    /\ status \in [Reports -> {"absent", "pending", "processing"} \cup Ended]
    /\ stamp \in [Reports -> Stamps \cup {0}]
    /\ nextId \in 1 .. MaxErrors + 1
    /\ IsFiniteSet(errors) /\ errors \subseteq [line : Lines, id : 1 .. nextId - 1]
    /\ pc \in {"client", "first", "second", "answered", "done"}
    /\ total \in Nat /\ final \in BOOLEAN
    /\ page \in Seq(RowsOf(query.kind)) /\ Len(page) <= limit
    /\ collected \in Seq(RowsOf(query.kind))
    /\ pc = "client" => offset = 0 /\ page = <<>> /\ collected = <<>> /\ ~final

\* Whether the page at offset is still to be read or was read.
PageToRead == pc = "first" \/ (pc = "second" /\ query.kind # "reports")
PageRead   == pc \in {"answered", "done"} \/ (pc = "second" /\ query.kind = "reports")

\* A row that was there and that the client has not seen is on a later page,
\* and neither the page nor the total that it has says that it was the last.
NothingMissed ==
    IsLasting /\ pc # "client" =>
        /\ before \subseteq Selected
        /\ \A e \in before \ ToSet(collected) :
               /\ PageToRead => offset < PlaceIn(Selected, Order, e)
               /\ PageRead => /\ Len(page) = limit
                              /\ offset + limit < PlaceIn(Selected, Order, e)
               /\ pc \in {"answered", "done"} /\ query.kind = "reports" => offset + limit < total

\* What was read first is no more than what there is when the other statement
\* runs.
FirstFitsSecond ==
    IsLasting =>
        /\ query.kind = "reports" /\ page # <<>> =>
               /\ pc = "second" => offset + Len(page) <= Cardinality(Selected)
               /\ pc = "answered" => offset + Len(page) <= total
        /\ query.kind # "reports" =>
               /\ pc = "second" => total <= Cardinality(Selected)
               /\ pc = "answered" /\ offset < total => page # <<>>

RowsExist == \A key \in ToSet(collected) : Exists(key)

\* Errors of an ended report are those of the watched one, which stays ended.
ReadsEnded == final => query.kind = "errors" /\ status[Watched] \in Ended /\ pc # "client"

\* Their pages lie one behind the other, and there is an error for each place.
PagesFollow ==
    final =>
        /\ PageToRead => Len(collected) = offset
        /\ pc \in {"answered", "done"} => Len(collected) = offset + Len(page)
        /\ pc = "answered" => Len(page) = limit \/ total <= offset + Len(page)
        /\ Len(collected) <= Cardinality(errors)

\* While no error is added the client has the first of them in their order.
NoneAdded == final /\ errors = before

FirstErrorsShown ==
    NoneAdded =>
        /\ pc # "first" => total = Cardinality(errors)
        /\ PageToRead => offset <= Cardinality(errors) /\ Len(collected) = offset
        /\ pc = "answered" =>
               /\ offset <= Cardinality(errors) /\ Len(page) = Len(collected) - offset
               /\ \/ Len(collected) = offset + limit /\ offset + limit <= Cardinality(errors)
                  \/ Len(collected) = Cardinality(errors) /\ Cardinality(errors) <= offset + limit
        /\ pc = "done" => Len(collected) = Cardinality(errors)
        /\ Len(collected) <= Cardinality(errors)
        /\ \A i \in 1 .. Len(collected) : collected[i] = Sorted(Selected, Order)[i]

Inv ==
    /\ InventoryTypes /\ Types
    /\ NothingMissed /\ FirstFitsSecond /\ RowsExist
    /\ ReadsEnded /\ PagesFollow /\ FirstErrorsShown

-----------------------------------------------------------------------------
(* A page of the selection.                                                *)

Slice(s, o, l) == SubSeq(s, o + 1, Min({o + l, Len(s)}))

\* q is what OFFSET o LIMIT l takes from s.
IsSlice(q, S, s, o, l) ==
    /\ q \in Seq(S) /\ Len(q) <= l
    /\ o < Len(s) => Len(q) = IF o + l <= Len(s) THEN l ELSE Len(s) - o
    /\ Len(s) <= o => q = <<>>
    /\ \A i \in 1 .. Len(q) : o + i \in 1 .. Len(s) /\ q[i] = s[o + i]

LEMMA SliceIs ==
    ASSUME NEW S, NEW s \in Seq(S), NEW o \in Nat, NEW l \in Nat
    PROVE  IsSlice(Slice(s, o, l), S, s, o, l)
<1> DEFINE m == Min({o + l, Len(s)})
           p == SubSeq(s, o + 1, m)
<1>1. Len(s) \in Nat /\ DOMAIN s = 1 .. Len(s) /\ \A i \in 1 .. Len(s) : s[i] \in S
  OBVIOUS
<1>2. m = IF o + l <= Len(s) THEN o + l ELSE Len(s)
  <2> DEFINE a == o + l  b == Len(s)
  <2>1. a \in Nat /\ b \in Nat
    OBVIOUS
  <2> HIDE DEF a, b
  <2>2. \E x \in {a, b} : \A y \in {a, b} : x <= y
    BY <2>1
  <2>3. Min({a, b}) \in {a, b} /\ \A y \in {a, b} : Min({a, b}) <= y
    BY <2>2, Zenon DEF Min
  <2>4. Min({a, b}) = IF a <= b THEN a ELSE b
    BY <2>1, <2>3
  <2> QED
    BY <2>4 DEF a, b
<1> HIDE DEF m
<1> DEFINE n == Len(s)
<1>10. n \in Nat /\ Len(s) = n
  BY <1>1
<1> HIDE DEF n
<1>11. (o + l <= n /\ m = o + l) \/ (n < o + l /\ m = n)
  BY <1>2, <1>10
<1>3. m \in Nat /\ m <= Len(s) /\ m <= o + l
  <2>1. CASE o + l <= n /\ m = o + l
    BY <1>10, <2>1
  <2>2. CASE n < o + l /\ m = n
    BY <1>10, <2>2
  <2> QED
    BY <1>11, <2>1, <2>2
<1>4. o + 1 \in Int /\ m \in Int /\ \A i \in o + 1 .. m : s[i] \in S
  BY <1>1, <1>3
<1>5. /\ p \in Seq(S)
      /\ Len(p) = IF o + 1 <= m THEN m - (o + 1) + 1 ELSE 0
      /\ \A i \in 1 .. m - (o + 1) + 1 : p[i] = s[(o + 1) + i - 1]
  BY <1>4, SubSeqProperties
<1> HIDE DEF p
<1>6. /\ p \in Seq(S) /\ Len(p) = IF o < m THEN m - o ELSE 0
      /\ \A i \in 1 .. m - o : p[i] = s[o + i]
  <2>1. m - (o + 1) + 1 = m - o /\ \A i \in 1 .. m - o : (o + 1) + i - 1 = o + i
    BY <1>3
  <2> QED
    BY <1>3, <1>5, <2>1
<1>7. Len(p) <= l /\ \A i \in 1 .. Len(p) : o + i \in 1 .. Len(s) /\ p[i] = s[o + i]
  BY <1>1, <1>3, <1>6
<1>8. o < n => Len(p) = IF o + l <= n THEN l ELSE n - o
  <2> SUFFICES ASSUME o < n PROVE Len(p) = IF o + l <= n THEN l ELSE n - o
    OBVIOUS
  <2>1. CASE o + l <= n /\ m = o + l
    <3>1. l = 0 \/ o < m
      BY <1>10, <2>1
    <3> QED
      BY <1>6, <1>10, <2>1, <3>1
  <2>2. CASE n < o + l /\ m = n
    BY <1>6, <1>10, <2>2
  <2> QED
    BY <1>11, <2>1, <2>2
<1>9. n <= o => p = <<>>
  <2> SUFFICES ASSUME n <= o PROVE Len(p) = 0
    BY <1>6
  <2>1. ~(o < m)
    BY <1>10, <1>11
  <2> QED
    BY <1>6, <2>1
<1>12. Slice(s, o, l) = p
  BY DEF p, m, Slice
<1>13. IsSlice(p, S, s, o, l)
  BY <1>6, <1>7, <1>8, <1>9, <1>10 DEF IsSlice
<1> QED
  BY <1>12, <1>13

-----------------------------------------------------------------------------
(* The steps of the others.                                                *)

LEMMA TypesRows == Types => RowTypes
<1> SUFFICES ASSUME Types PROVE RowTypes
  OBVIOUS
<1>1. query \in AllQueries
  BY ListPagesAssumption DEF Types
<1>2. stamp \in [Reports -> Nat]
  BY ListPagesAssumption DEF Types
<1>3. errors \subseteq [line : Nat, id : Nat]
  <2>1. errors \subseteq [line : Lines, id : 1 .. nextId - 1] /\ nextId \in Nat
    BY ListPagesAssumption DEF Types
  <2>2. Lines \subseteq Nat /\ 1 .. nextId - 1 \subseteq Nat
    BY <2>1, ListPagesAssumption
  <2> QED
    BY <2>1, <2>2
<1> QED
  BY <1>1, <1>2, <1>3 DEF RowTypes, Types

LEMMA TypesRowsNext == Types' => RowTypes'
BY TypesRows, PTL

LEMMA InitHolds == PagesInit => Inv
<1> SUFFICES ASSUME PagesInit PROVE Inv
  OBVIOUS
<1>1. InventoryTypes
  BY DEF PagesInit, Init, NoTables, InventoryTypes
<1>2. Types
  <2>1. IsFiniteSet(errors) /\ 1 \in 1 .. MaxErrors + 1
    BY FS_EmptySet, ListPagesAssumption DEF PagesInit
  <2>2. limit \in Nat \ {0} /\ Len(page) = 0
    BY ListPagesAssumption DEF PagesInit
  <2>3. page \in Seq(RowsOf(query.kind)) /\ collected \in Seq(RowsOf(query.kind))
    BY DEF PagesInit
  <2>4. errors \subseteq [line : Lines, id : 1 .. nextId - 1]
    BY DEF PagesInit
  <2>5. /\ status \in [Reports -> {"absent", "pending", "processing"} \cup Ended]
        /\ stamp \in [Reports -> Stamps \cup {0}]
    BY DEF PagesInit
  <2>6. Len(page) <= limit
    BY <2>2
  <2> QED
    BY <2>1, <2>3, <2>4, <2>5, <2>6 DEF PagesInit, Types
<1>3. NothingMissed /\ FirstFitsSecond
  BY DEF PagesInit, NothingMissed, FirstFitsSecond
<1>5. ReadsEnded /\ PagesFollow /\ FirstErrorsShown
  BY DEF PagesInit, ReadsEnded, PagesFollow, FirstErrorsShown, NoneAdded
<1>4. RowsExist
  BY DEF PagesInit, RowsExist, ToSet
<1> QED
  BY <1>1, <1>2, <1>3, <1>4, <1>5 DEF Inv

\* What the others commit leaves the client, the rows there are and the errors
\* of a report that has ended, and may add to these.
Committed ==
    /\ UNCHANGED client
    /\ KeptRows(tables, tables')
    /\ \A r \in Reports : status[r] # "absent" => status'[r] # "absent" /\ stamp'[r] = stamp[r]
    /\ status[Watched] \in Ended => status'[Watched] = status[Watched] /\ errors \subseteq errors'

LEMMA OthersCommit ==
    ASSUME InventoryTypes, Types,
           \/ ApplyReport \/ InsertErrors \/ RecordFailure
           \/ \E r \in Reports : CommitReport(r) \/ Claim(r) \/ EndReport(r)
    PROVE  Committed /\ InventoryTypes' /\ Types'
<1> DEFINE Statuses == {"absent", "pending", "processing"} \cup Ended
<1>1. /\ Watched \in Reports /\ Lines \subseteq Nat /\ 0 \in Lines /\ MaxErrors \in Nat
      /\ ErrorBound \in Nat /\ ErrorBound <= MaxErrors
  BY ListPagesAssumption DEF ErrorBound
<1>2. KeptRows(tables, tables)
  BY DEF KeptRows
<1>3. ASSUME UNCHANGED tables
      PROVE  KeptRows(tables, tables') /\ InventoryTypes'
  BY <1>2, <1>3 DEF InventoryTypes
\* It is enough to look at the tables of the reports and errors.
<1>4. ASSUME UNCHANGED client,
             status' \in [Reports -> Statuses], stamp' \in [Reports -> Stamps \cup {0}],
             nextId' \in 1 .. MaxErrors + 1,
             IsFiniteSet(errors'), errors' \subseteq [line : Lines, id : 1 .. nextId' - 1]
      PROVE  Types'
  BY <1>4 DEF Types, client, request
<1>5. CASE ApplyReport
  <2>1. Next /\ UNCHANGED <<reports, client>>
    BY <1>5 DEF ApplyReport
  <2>2. KeptRows(tables, tables') /\ InventoryTypes'
    BY <2>1, ApplyKeepsRows
  <2>3. Types'
    BY <2>1 DEF Types, reports, client, request
  <2> QED
    BY <2>1, <2>2, <2>3 DEF Committed, reports
<1>6. ASSUME NEW r \in Reports, CommitReport(r)
      PROVE  Committed /\ InventoryTypes' /\ Types'
  <2>1. PICK s \in Stamps : stamp' = [stamp EXCEPT ![r] = s]
    BY <1>6 DEF CommitReport
  <2>2. /\ status[r] = "absent" /\ status' = [status EXCEPT ![r] = "pending"]
        /\ UNCHANGED tables /\ UNCHANGED <<errors, nextId>> /\ UNCHANGED client
    BY <1>6 DEF CommitReport, inventory
  <2>3. /\ status' \in [Reports -> Statuses] /\ stamp' \in [Reports -> Stamps \cup {0}]
        /\ \A q \in Reports : q # r => status'[q] = status[q] /\ stamp'[q] = stamp[q]
    BY <2>1, <2>2 DEF Types
  <2>4. Types'
    BY <1>4, <2>2, <2>3 DEF Types
  <2>5. \A q \in Reports : status[q] # "absent" => status'[q] # "absent" /\ stamp'[q] = stamp[q]
    BY <2>2, <2>3
  <2>6. status[Watched] \in Ended => status'[Watched] = status[Watched]
    BY <1>1, <2>2, <2>3 DEF Ended
  <2> QED
    BY <1>3, <2>2, <2>4, <2>5, <2>6 DEF Committed
<1>7. ASSUME NEW r \in Reports, Claim(r)
      PROVE  Committed /\ InventoryTypes' /\ Types'
  <2>1. /\ status[r] \in {"pending", "processing"}
        /\ status' = [status EXCEPT ![r] = "processing"]
        /\ errors' = IF r = Watched THEN {} ELSE errors
        /\ UNCHANGED tables /\ UNCHANGED <<stamp, nextId>> /\ UNCHANGED client
    BY <1>7 DEF Claim, inventory
  <2>2. status' \in [Reports -> Statuses] /\ \A q \in Reports : q # r => status'[q] = status[q]
    BY <2>1 DEF Types
  <2>3. IsFiniteSet(errors') /\ errors' \subseteq [line : Lines, id : 1 .. nextId' - 1]
    BY <2>1, FS_EmptySet DEF Types
  <2>4. Types'
    BY <1>4, <2>1, <2>2, <2>3 DEF Types
  <2>5. \A q \in Reports : status[q] # "absent" => status'[q] # "absent"
    BY <2>1, <2>2 DEF Types
  <2>6. status[Watched] \in Ended => status'[Watched] = status[Watched] /\ errors' = errors
    BY <1>1, <2>1, <2>2 DEF Ended
  <2> QED
    BY <1>3, <2>1, <2>4, <2>5, <2>6 DEF Committed
<1>8. ASSUME NEW r \in Reports, EndReport(r)
      PROVE  Committed /\ InventoryTypes' /\ Types'
  <2>1. /\ status[r] = "processing" /\ UNCHANGED tables
        /\ UNCHANGED <<stamp, errors, nextId>> /\ UNCHANGED client
    BY <1>8 DEF EndReport, inventory
  <2>2. PICK s \in Ended : status' = [status EXCEPT ![r] = s]
    BY <1>8 DEF EndReport, Ended
  <2>3. status' \in [Reports -> Statuses] /\ \A q \in Reports : q # r => status'[q] = status[q]
    BY <2>2 DEF Types
  <2>4. \A q \in Reports : status[q] # "absent" => status'[q] # "absent"
    BY <2>2, <2>3 DEF Types, Ended
  <2>5. Types'
    BY <1>4, <2>1, <2>3 DEF Types
  <2>6. status[Watched] \in Ended => status'[Watched] = status[Watched]
    BY <1>1, <2>1, <2>3 DEF Ended
  <2> QED
    BY <1>3, <2>1, <2>4, <2>5, <2>6 DEF Committed
<1>10. CASE RecordFailure
  <2>1. /\ nextId <= ErrorBound /\ UNCHANGED tables /\ UNCHANGED stamp /\ UNCHANGED client
        /\ errors' = errors \cup {[line |-> 0, id |-> nextId]} /\ nextId' = nextId + 1
    BY <1>10 DEF RecordFailure, inventory
  <2>2. status' = [status EXCEPT ![Watched] = IF @ = "processing" THEN "failed" ELSE @]
    BY <1>10 DEF RecordFailure
  <2>3. /\ status' \in [Reports -> Statuses]
        /\ \A q \in Reports : \/ status'[q] = status[q]
                              \/ q = Watched /\ status[q] = "processing" /\ status'[q] = "failed"
    BY <1>1, <2>2 DEF Types, Ended
  <2>4. /\ \A q \in Reports : status[q] # "absent" => status'[q] # "absent"
        /\ status[Watched] \in Ended => status'[Watched] = status[Watched]
    BY <1>1, <2>3 DEF Ended
  <2>5. nextId \in Nat /\ nextId >= 1 /\ nextId' \in 1 .. MaxErrors + 1
    BY <1>1, <2>1 DEF Types
  <2>6. IsFiniteSet(errors')
    BY <2>1, FS_AddElement DEF Types
  <2>7. errors' \subseteq [line : Lines, id : 1 .. nextId' - 1]
    <3>1. 1 .. nextId - 1 \subseteq 1 .. nextId' - 1 /\ nextId \in 1 .. nextId' - 1
      BY <2>1, <2>5
    <3>2. errors \subseteq [line : Lines, id : 1 .. nextId' - 1]
      BY <3>1 DEF Types
    <3>3. [line |-> 0, id |-> nextId] \in [line : Lines, id : 1 .. nextId' - 1]
      BY <1>1, <3>1
    <3> QED
      BY <2>1, <3>2, <3>3
  <2>8. Types'
    BY <1>4, <2>1, <2>3, <2>5, <2>6, <2>7 DEF Types
  <2> QED
    BY <1>3, <2>1, <2>4, <2>8 DEF Committed
<1>9. CASE InsertErrors
  <2>1. UNCHANGED tables /\ UNCHANGED <<status, stamp>> /\ UNCHANGED client
    BY <1>9 DEF InsertErrors, inventory
  <2>2. PICK batch \in [1 .. 1 -> Lines] \cup [1 .. 2 -> Lines] :
            /\ nextId + Len(batch) <= ErrorBound + 1
            /\ errors' = errors \cup
                   {[line |-> batch[i], id |-> nextId + i - 1] : i \in DOMAIN batch}
            /\ nextId' = nextId + Len(batch)
    BY <1>9 DEF InsertErrors
  <2>3. PICK k \in 1 .. 2 : batch \in [1 .. k -> Lines] /\ Len(batch) = k
    <3>1. CASE batch \in [1 .. 1 -> Lines]
      BY <3>1
    <3>2. CASE batch \in [1 .. 2 -> Lines]
      BY <3>2
    <3> QED
      BY <3>1, <3>2
  <2> DEFINE new == {[line |-> batch[i], id |-> nextId + i - 1] : i \in 1 .. k}
  <2>4. errors' = errors \cup new /\ nextId' = nextId + k /\ nextId + k <= ErrorBound + 1
    BY <2>2, <2>3
  <2>5. nextId \in Nat /\ nextId >= 1 /\ nextId' \in 1 .. MaxErrors + 1
    BY <1>1, <2>4 DEF Types
  <2>6. IsFiniteSet(new)
    <3> DEFINE g == [i \in 1 .. k |-> [line |-> batch[i], id |-> nextId + i - 1]]
    <3>1. g \in Surjection(1 .. k, new)
      BY DEF Surjection
    <3>2. IsFiniteSet(1 .. k)
      BY FS_Interval
    <3> QED
      BY <3>1, <3>2, FS_Surjection
  <2>7. new \subseteq [line : Lines, id : 1 .. nextId' - 1]
    BY <2>3, <2>4, <2>5
  <2>8. errors \subseteq [line : Lines, id : 1 .. nextId' - 1]
    <3>1. 1 .. nextId - 1 \subseteq 1 .. nextId' - 1
      BY <2>4, <2>5
    <3> QED
      BY <3>1 DEF Types
  <2> HIDE DEF new
  <2>9. IsFiniteSet(errors') /\ errors' \subseteq [line : Lines, id : 1 .. nextId' - 1]
    BY <2>4, <2>6, <2>7, <2>8, FS_Union DEF Types
  <2>10. Types'
    BY <1>4, <2>1, <2>5, <2>9 DEF Types
  <2> QED
    BY <1>3, <2>1, <2>4, <2>10 DEF Committed
<1> QED
  BY <1>5, <1>6, <1>7, <1>8, <1>9, <1>10

\* The selection of errors is the errors.
LEMMA ErrorsSelection ==
    ASSUME query.kind = "errors", UNCHANGED <<query, errors>>
    PROVE  Selected = errors /\ Selected' = Selected /\ Order' = Order
<1>1. Selected = errors /\ Selected' = errors
  BY DEF Selected
<1>2. \A a, b : Precedes(a, b)' <=> Precedes(a, b)
  BY DEF Precedes, Earlier
<1> QED
  BY <1>1, <1>2 DEF Order

LEMMA CommittedKeeps ==
    ASSUME Inv, Committed, InventoryTypes', Types'
    PROVE  Inv'
<1>1. /\ query' = query /\ limit' = limit /\ offset' = offset /\ byTotal' = byTotal
      /\ pc' = pc /\ total' = total /\ page' = page /\ before' = before
      /\ final' = final /\ collected' = collected
  BY DEF Committed, client, request
<1>2. KeptRows(tables, tables')
  BY DEF Committed
<1>3. RowTypes /\ SelectionFacts /\ SelectionFacts'
  BY TypesRows, TypesRowsNext, SelectionIs, SelectionIsNext DEF Inv
<1>4. /\ IsFiniteSet(Selected) /\ IsFiniteSet(Selected')
      /\ Cardinality(Selected) \in Nat /\ Cardinality(Selected') \in Nat
  BY <1>3, FS_CardinalityType DEF SelectionFacts
<1>5. /\ PageToRead' = PageToRead /\ PageRead' = PageRead
  BY <1>1 DEF PageToRead, PageRead
<1>6. IsLasting' = IsLasting
  BY <1>1 DEF IsLasting
<1>7. ASSUME IsLasting
      PROVE  /\ Selected \subseteq Selected'
             /\ Cardinality(Selected) <= Cardinality(Selected')
             /\ \A e \in Selected :
                    /\ PlaceIn(Selected, Order, e) \in Nat
                    /\ PlaceIn(Selected', Order', e) \in Nat
                    /\ PlaceIn(Selected, Order, e) <= PlaceIn(Selected', Order', e)
  <2>0. final /\ query.kind = "errors" => errors \subseteq errors'
    BY DEF Inv, ReadsEnded, Committed
  <2>1. /\ Selected \subseteq Selected'
        /\ \A a, b \in Selected : <<a, b>> \in Order <=> <<a, b>> \in Order'
    BY <1>1, <1>2, <1>3, <1>7, <2>0, LastingGrows DEF Committed
  <2>2. Cardinality(Selected) <= Cardinality(Selected')
    BY <1>4, <2>1, FS_Subset
  <2> DEFINE S == Selected  T == Selected'  L == Order  M == Order'
  <2>3. IsFiniteSet(T) /\ S \subseteq T /\ \A a, b \in S : <<a, b>> \in L <=> <<a, b>> \in M
    BY <1>4, <2>1
  <2> HIDE DEF S, T, L, M
  <2>4. \A e \in S : /\ PlaceIn(S, L, e) \in Nat /\ PlaceIn(T, M, e) \in Nat
                     /\ PlaceIn(S, L, e) <= PlaceIn(T, M, e)
    BY <2>3, PlaceGrows
  <2> QED
    BY <2>1, <2>2, <2>4 DEF S, T, L, M
<1>8. NothingMissed'
  <2> SUFFICES ASSUME IsLasting, pc # "client"
               PROVE  /\ before \subseteq Selected'
                      /\ \A e \in before \ ToSet(collected) :
                             /\ PageToRead => offset < PlaceIn(Selected', Order', e)
                             /\ PageRead => /\ Len(page) = limit
                                            /\ offset + limit < PlaceIn(Selected', Order', e)
                             /\ pc \in {"answered", "done"} /\ query.kind = "reports" =>
                                    offset + limit < total
    BY <1>1, <1>5, <1>6 DEF NothingMissed
  <2>1. before \subseteq Selected /\ Selected \subseteq Selected'
    BY <1>7 DEF Inv, NothingMissed
  <2>2. ASSUME NEW e \in before \ ToSet(collected)
        PROVE  /\ PageToRead => offset < PlaceIn(Selected', Order', e)
               /\ PageRead => /\ Len(page) = limit
                              /\ offset + limit < PlaceIn(Selected', Order', e)
               /\ pc \in {"answered", "done"} /\ query.kind = "reports" => offset + limit < total
    <3>1. /\ PageToRead => offset < PlaceIn(Selected, Order, e)
          /\ PageRead => /\ Len(page) = limit
                         /\ offset + limit < PlaceIn(Selected, Order, e)
          /\ pc \in {"answered", "done"} /\ query.kind = "reports" => offset + limit < total
      BY DEF Inv, NothingMissed
    <3>2. /\ PlaceIn(Selected, Order, e) \in Nat /\ PlaceIn(Selected', Order', e) \in Nat
          /\ PlaceIn(Selected, Order, e) <= PlaceIn(Selected', Order', e)
      BY <1>7, <2>1
    <3>3. offset \in Nat /\ limit \in Nat
      BY ListPagesAssumption DEF Inv, Types
    <3> QED
      BY <3>1, <3>2, <3>3
  <2> QED
    BY <2>1, <2>2
<1>9. FirstFitsSecond'
  <2> SUFFICES ASSUME IsLasting
               PROVE  /\ query.kind = "reports" /\ page # <<>> =>
                             /\ pc = "second" => offset + Len(page) <= Cardinality(Selected')
                             /\ pc = "answered" => offset + Len(page) <= total
                      /\ query.kind # "reports" =>
                             /\ pc = "second" => total <= Cardinality(Selected')
                             /\ pc = "answered" /\ offset < total => page # <<>>
    BY <1>1, <1>6 DEF FirstFitsSecond
  <2>1. Cardinality(Selected) <= Cardinality(Selected')
    BY <1>7
  <2>2. offset \in Nat /\ total \in Nat /\ Len(page) \in Nat
    BY DEF Inv, Types
  <2> QED
    BY <1>4, <2>1, <2>2 DEF Inv, FirstFitsSecond
<1>10. RowsExist'
  <2>1. \A key \in ToSet(collected) : key \in RowsOf(query.kind)
    BY DEF Inv, Types, ToSet
  <2>2. ASSUME NEW key \in RowsOf(query.kind), Exists(key)
        PROVE  Exists(key)'
    <3>1. CASE query.kind = "warehouses"
      BY <1>1, <1>2, <2>2, <3>1 DEF RowsOf, Exists, KeptRows
    <3>2. CASE query.kind = "products"
      BY <1>1, <1>2, <2>2, <3>2 DEF RowsOf, Exists, KeptRows
    <3>3. CASE query.kind = "stocks"
      <4>1. key[1] \in Codes /\ key[2] \in Skus
        BY <3>3 DEF RowsOf, Stocks
      <4> QED
        BY <1>1, <1>2, <2>2, <3>3, <4>1 DEF Exists, KeptRows
    <3>4. CASE query.kind \notin {"warehouses", "products", "stocks"}
      BY <1>1, <3>4 DEF Exists
    <3> QED
      BY <3>1, <3>2, <3>3, <3>4
  <2> QED
    BY <1>1, <2>1, <2>2 DEF Inv, RowsExist
<1>11. ReadsEnded'
  BY <1>1 DEF Inv, ReadsEnded, Committed
<1>12. PagesFollow'
  <2> SUFFICES ASSUME final
               PROVE  Len(collected) <= Cardinality(errors')
    BY <1>1, <1>5 DEF Inv, PagesFollow
  <2>1. Selected = errors /\ Selected' = errors' /\ IsLasting
    BY <1>1 DEF Inv, ReadsEnded, Selected, IsLasting
  <2>2. Cardinality(errors) <= Cardinality(errors') /\ Len(collected) <= Cardinality(errors)
    BY <1>7, <2>1 DEF Inv, PagesFollow
  <2> QED
    BY <1>4, <2>1, <2>2 DEF Inv, Types
<1>13. FirstErrorsShown'
  <2> SUFFICES ASSUME NoneAdded' PROVE FirstErrorsShown'
    BY DEF FirstErrorsShown
  <2>1. final /\ errors' = before
    BY <1>1 DEF NoneAdded
  <2>2. query.kind = "errors" /\ status[Watched] \in Ended /\ pc # "client"
    BY <2>1 DEF Inv, ReadsEnded
  <2>3. Selected = errors /\ IsLasting
    BY <2>1, <2>2 DEF Selected, IsLasting
  <2>4. before \subseteq errors /\ errors \subseteq errors'
    BY <2>2, <2>3 DEF Inv, NothingMissed, Committed
  <2>5. errors' = errors /\ NoneAdded
    BY <2>1, <2>4 DEF NoneAdded
  <2>6. Selected' = Selected /\ Order' = Order
    BY <1>1, <2>2, <2>5, ErrorsSelection
  <2> QED
    BY <1>1, <1>5, <2>5, <2>6 DEF Inv, FirstErrorsShown
<1> QED
  BY <1>8, <1>9, <1>10, <1>11, <1>12, <1>13 DEF Inv

-----------------------------------------------------------------------------
(* The steps of the client and its request.                                *)

ClientStep == UNCHANGED <<inventory, reports, query, limit, byTotal>>

LEMMA ClientStepIs ==
    ASSUME Inv, ClientStep
    PROVE  /\ query' = query /\ limit' = limit /\ byTotal' = byTotal
           /\ tables' = tables /\ status' = status /\ stamp' = stamp
           /\ errors' = errors /\ nextId' = nextId
           /\ Selected' = Selected /\ Order' = Order
           /\ final' = final => IsLasting' = IsLasting
           /\ InventoryTypes'
           /\ \A key : Exists(key)' <=> Exists(key)
<1>1. /\ query' = query /\ limit' = limit /\ byTotal' = byTotal
      /\ tables' = tables /\ status' = status /\ stamp' = stamp
      /\ errors' = errors /\ nextId' = nextId
  BY DEF ClientStep, inventory, reports
<1>2. Selected' = Selected /\ Order' = Order /\ (final' = final => IsLasting' = IsLasting)
  BY <1>1, SelectionStays DEF selecting
<1>3. InventoryTypes'
  BY <1>1 DEF Inv, InventoryTypes
<1>4. \A key : Exists(key)' <=> Exists(key)
  BY <1>1 DEF Exists
<1> QED
  BY <1>1, <1>2, <1>3, <1>4

\* The selection, without the tables behind it.
LEMMA Rows ==
    ASSUME Inv
    PROVE  /\ IsFiniteSet(Selected) /\ Cardinality(Selected) \in Nat
           /\ Selected \subseteq RowsOf(query.kind)
           /\ IsFiniteSet(errors) /\ Cardinality(errors) \in Nat
           /\ query.kind = "errors" => Selected = errors
           /\ Sorted(Selected, Order) \in Seq(Selected)
           /\ Len(Sorted(Selected, Order)) = Cardinality(Selected)
           /\ \A e \in Selected : /\ PlaceIn(Selected, Order, e) \in 1 .. Cardinality(Selected)
                                  /\ Sorted(Selected, Order)[PlaceIn(Selected, Order, e)] = e
           /\ \A i, j \in 1 .. Cardinality(Selected) :
                  i < j => <<Sorted(Selected, Order)[i], Sorted(Selected, Order)[j]>> \in Order
           /\ Selection = Sorted(Selected, Order)
           /\ offset \in Nat /\ limit \in Nat \ {0} /\ total \in Nat
<1>1. SelectionFacts
  BY TypesRows, SelectionIs DEF Inv
<1> DEFINE S == Selected  L == Order
<1>2. IsFiniteSet(S) /\ StrictOrder(S, L)
  BY <1>1 DEF SelectionFacts
<1> HIDE DEF S, L
<1>3. /\ Sorted(S, L) \in Seq(S) /\ Len(Sorted(S, L)) = Cardinality(S)
      /\ \A e \in S : Sorted(S, L)[PlaceIn(S, L, e)] = e
      /\ \A i, j \in 1 .. Cardinality(S) : i < j => <<Sorted(S, L)[i], Sorted(S, L)[j]>> \in L
  BY <1>2, SortedIs
<1>4. \A e \in S : PlaceIn(S, L, e) \in 1 .. Cardinality(S)
  BY <1>2, PlacesAre
<1>5. Cardinality(S) \in Nat
  BY <1>2, FS_CardinalityType
<1>6. IsFiniteSet(errors) /\ Cardinality(errors) \in Nat
  BY FS_CardinalityType DEF Inv, Types
<1>7. query.kind = "errors" => Selected = errors
  BY DEF Selected
<1>8. offset \in Nat /\ limit \in Nat \ {0} /\ total \in Nat
  BY ListPagesAssumption DEF Inv, Types
<1>9. S = Selected /\ L = Order
  BY DEF S, L
<1> QED
  BY <1>1, <1>2, <1>3, <1>4, <1>5, <1>6, <1>7, <1>8, <1>9 DEF SelectionFacts

\* What reading a page gives.
LEMMA PageIs ==
    ASSUME Inv, NEW p, p = PageOf
    PROVE  /\ p \in Seq(Selected) /\ Len(p) \in Nat /\ Len(p) <= limit
           /\ \A e \in Selected \ ToSet(p) :
                  offset < PlaceIn(Selected, Order, e) =>
                      Len(p) = limit /\ offset + limit < PlaceIn(Selected, Order, e)
           /\ p # <<>> => offset + Len(p) <= Cardinality(Selected)
           /\ offset < Cardinality(Selected) =>
                  /\ p # <<>>
                  /\ Len(p) = IF offset + limit <= Cardinality(Selected) THEN limit
                              ELSE Cardinality(Selected) - offset
           /\ Cardinality(Selected) <= offset => p = <<>>
           /\ \A i \in 1 .. Len(p) : p[i] = Sorted(Selected, Order)[offset + i]
<1> DEFINE S == Selected  s == Sorted(Selected, Order)  n == Cardinality(S)
           P(e) == PlaceIn(Selected, Order, e)
<1>1. /\ s \in Seq(S) /\ Len(s) = n /\ n \in Nat
      /\ \A e \in S : P(e) \in 1 .. n /\ s[P(e)] = e
      /\ offset \in Nat /\ limit \in Nat \ {0}
  BY Rows
<1>2. p = Slice(s, offset, limit)
  BY Rows DEF PageOf, Slice
<1> HIDE DEF S, s, n, P
<1>3. /\ p \in Seq(S) /\ Len(p) <= limit
      /\ offset < n => Len(p) = IF offset + limit <= n THEN limit ELSE n - offset
      /\ n <= offset => p = <<>>
      /\ \A i \in 1 .. Len(p) : offset + i \in 1 .. n /\ p[i] = s[offset + i]
  <2>1. s \in Seq(S) /\ offset \in Nat /\ limit \in Nat
    BY <1>1
  <2>2. IsSlice(Slice(s, offset, limit), S, s, offset, limit)
    BY <2>1, SliceIs
  <2>3. IsSlice(p, S, s, offset, limit)
    BY <1>2, <2>2
  <2> QED
    BY <1>1, <2>3 DEF IsSlice
<1>4. Len(p) \in Nat /\ DOMAIN p = 1 .. Len(p)
  BY <1>3
<1>5. offset < n => p # <<>>
  <2>1. p = <<>> => Len(p) = 0
    OBVIOUS
  <2>2. ASSUME offset < n PROVE Len(p) # 0
    <3>1. limit # 0 /\ n - offset # 0
      BY <1>1, <2>2
    <3> QED
      BY <1>3, <2>2, <3>1
  <2> QED
    BY <2>1, <2>2
<1>6. p # <<>> => offset + Len(p) <= n
  <2> SUFFICES ASSUME p # <<>> PROVE offset + Len(p) <= n
    OBVIOUS
  <2>1. Len(p) \in 1 .. Len(p)
    BY <1>3, <1>4
  <2> QED
    BY <1>1, <1>3, <2>1
<1>7. ASSUME NEW e \in S \ ToSet(p), offset < P(e)
      PROVE  Len(p) = limit /\ offset + limit < P(e)
  <2>1. P(e) \in Nat /\ P(e) <= n /\ s[P(e)] = e
    BY <1>1
  <2>2. Len(p) = IF offset + limit <= n THEN limit ELSE n - offset
    BY <1>1, <1>3, <1>7, <2>1
  <2>3. P(e) - offset \notin 1 .. Len(p)
    <3> SUFFICES ASSUME P(e) - offset \in 1 .. Len(p) PROVE FALSE
      OBVIOUS
    <3>1. offset + (P(e) - offset) = P(e)
      BY <1>1, <2>1
    <3>2. p[P(e) - offset] = e
      BY <1>3, <2>1, <3>1
    <3> QED
      BY <1>4, <3>2 DEF ToSet
  <2>4. ~(P(e) - offset <= Len(p))
    BY <1>1, <1>7, <2>1, <2>3
  <2> QED
    BY <1>1, <2>1, <2>2, <2>4
<1> QED
  BY <1>3, <1>4, <1>5, <1>6, <1>7 DEF S, s, n, P

LEMMA Appended ==
    ASSUME NEW R, NEW c \in Seq(R), NEW p \in Seq(R)
    PROVE  /\ c \o p \in Seq(R) /\ Len(c \o p) = Len(c) + Len(p)
           /\ ToSet(c \o p) = ToSet(c) \cup ToSet(p)
           /\ \A i \in 1 .. Len(c) + Len(p) :
                  (c \o p)[i] = IF i <= Len(c) THEN c[i] ELSE p[i - Len(c)]
<1>1. /\ c \o p \in Seq(R) /\ Len(c \o p) = Len(c) + Len(p)
      /\ \A i \in 1 .. Len(c) + Len(p) :
             (c \o p)[i] = IF i <= Len(c) THEN c[i] ELSE p[i - Len(c)]
  OBVIOUS
<1>2. /\ Len(c) \in Nat /\ Len(p) \in Nat
      /\ DOMAIN c = 1 .. Len(c) /\ DOMAIN p = 1 .. Len(p)
      /\ DOMAIN (c \o p) = 1 .. Len(c) + Len(p)
  BY <1>1
<1>3. \A i \in DOMAIN c : i \in 1 .. Len(c) + Len(p) /\ (c \o p)[i] = c[i]
  BY <1>1, <1>2
<1>4. \A i \in DOMAIN p : /\ Len(c) + i \in 1 .. Len(c) + Len(p)
                          /\ (c \o p)[Len(c) + i] = p[i]
  BY <1>1, <1>2
<1>5. \A i \in 1 .. Len(c) + Len(p) : (c \o p)[i] \in ToSet(c) \cup ToSet(p)
  <2> SUFFICES ASSUME NEW i \in 1 .. Len(c) + Len(p)
               PROVE  (c \o p)[i] \in ToSet(c) \cup ToSet(p)
    OBVIOUS
  <2>1. CASE i <= Len(c)
    <3>1. i \in DOMAIN c
      BY <1>2, <2>1
    <3> QED
      BY <1>3, <3>1 DEF ToSet
  <2>2. CASE ~(i <= Len(c))
    <3>1. i - Len(c) \in DOMAIN p /\ (c \o p)[i] = p[i - Len(c)]
      BY <1>1, <1>2, <2>2
    <3> QED
      BY <3>1 DEF ToSet
  <2> QED
    BY <2>1, <2>2
<1>6. ToSet(c \o p) = ToSet(c) \cup ToSet(p)
  <2>1. ToSet(c \o p) \subseteq ToSet(c) \cup ToSet(p)
    BY <1>2, <1>5 DEF ToSet
  <2>2. ToSet(c) \subseteq ToSet(c \o p)
    BY <1>2, <1>3 DEF ToSet
  <2>3. ToSet(p) \subseteq ToSet(c \o p)
    BY <1>2, <1>4 DEF ToSet
  <2> QED
    BY <2>1, <2>2, <2>3
<1> QED
  BY <1>1, <1>6

LEMMA BeginKeeps ==
    ASSUME Inv, BeginWalk
    PROVE  Inv'
<1>1. /\ pc = "client" /\ pc' = "first" /\ ClientStep
      /\ before' = Selected
      /\ final' = (query.kind = "errors" /\ status[Watched] \in Ended)
      /\ offset' = offset /\ total' = total /\ page' = page /\ collected' = collected
  BY DEF BeginWalk, ClientStep, request
<1>2. offset = 0 /\ page = <<>> /\ collected = <<>>
  BY <1>1 DEF Inv, Types
<1>3. /\ query' = query /\ limit' = limit /\ status' = status /\ errors' = errors
      /\ stamp' = stamp /\ nextId' = nextId /\ byTotal' = byTotal
      /\ Selected' = Selected /\ Order' = Order /\ InventoryTypes'
  BY <1>1, ClientStepIs
<1>4. Types'
  <2>1. final' \in BOOLEAN
    BY <1>1
  <2> QED
    BY <1>1, <1>3, <2>1 DEF Inv, Types
<1>5. NothingMissed'
  <2>1. \A e \in Selected : 0 < PlaceIn(Selected, Order, e)
    BY Rows
  <2>2. ~PageRead'
    BY <1>1 DEF PageRead
  <2> QED
    BY <1>1, <1>2, <1>3, <2>1, <2>2 DEF NothingMissed
<1>6. FirstFitsSecond'
  BY <1>1, <1>2 DEF FirstFitsSecond
<1>7. RowsExist'
  BY <1>1, <1>2 DEF RowsExist, ToSet
<1>8. FirstErrorsShown'
  <2>1. Cardinality(errors) \in Nat
    BY Rows
  <2>2. Len(collected') = 0 /\ offset' = 0 /\ pc' = "first"
    BY <1>1, <1>2
  <2>3. 0 <= Cardinality(errors) /\ \A i \in 1 .. 0 : FALSE
    BY <2>1
  <2> QED
    BY <1>3, <2>2, <2>3 DEF FirstErrorsShown
<1>9. ReadsEnded'
  BY <1>1, <1>3 DEF ReadsEnded
<1>10. PagesFollow'
  <2>1. Cardinality(errors) \in Nat
    BY Rows
  <2>2. Len(collected') = 0 /\ offset' = 0 /\ pc' = "first"
    BY <1>1, <1>2
  <2> QED
    BY <1>3, <2>1, <2>2 DEF PagesFollow
<1> QED
  BY <1>3, <1>4, <1>5, <1>6, <1>7, <1>8, <1>9, <1>10 DEF Inv

\* A request counts.
Counts ==
    /\ total' = Cardinality(Selected)
    /\ UNCHANGED <<page, collected>>

\* A request reads the page.
Reads ==
    /\ page' = PageOf
    /\ collected' = collected \o page'
    /\ UNCHANGED total

LEMMA StatementsAre ==
    /\ FirstStatement =>
           /\ pc = "first" /\ pc' = "second"
           /\ IF query.kind = "reports" THEN Reads ELSE Counts
    /\ SecondStatement =>
           /\ pc = "second" /\ pc' = "answered"
           /\ IF query.kind = "reports" THEN Counts ELSE Reads
    /\ FirstStatement \/ SecondStatement =>
           ClientStep /\ UNCHANGED <<offset, before, final>>
<1>1. /\ Statements[1] = IF query.kind = "reports" THEN "items" ELSE "count"
      /\ Statements[2] = IF query.kind = "reports" THEN "count" ELSE "items"
  BY DEF Statements
<1>2. FirstStatement =>
          /\ pc = "first" /\ pc' = "second"
          /\ IF query.kind = "reports" THEN Reads ELSE Counts
  BY <1>1 DEF FirstStatement, CountTotal, SelectItems, Reads, Counts
<1>3. SecondStatement =>
          /\ pc = "second" /\ pc' = "answered"
          /\ IF query.kind = "reports" THEN Counts ELSE Reads
  BY <1>1 DEF SecondStatement, CountTotal, SelectItems, Reads, Counts
<1>4. FirstStatement \/ SecondStatement =>
          ClientStep /\ UNCHANGED <<offset, before, final>>
  BY DEF FirstStatement, SecondStatement, ClientStep, request
<1> QED
  BY <1>2, <1>3, <1>4

\* Counting, before or after the page is read.
LEMMA CountKeeps ==
    ASSUME Inv, Counts, ClientStep, UNCHANGED <<offset, before, final>>,
           \/ pc = "first" /\ pc' = "second" /\ query.kind # "reports"
           \/ pc = "second" /\ pc' = "answered" /\ query.kind = "reports"
    PROVE  Inv'
<1>1. /\ query' = query /\ limit' = limit /\ byTotal' = byTotal
      /\ status' = status /\ stamp' = stamp /\ errors' = errors /\ nextId' = nextId
      /\ Selected' = Selected /\ Order' = Order /\ IsLasting' = IsLasting
      /\ InventoryTypes' /\ \A key : Exists(key)' <=> Exists(key)
  BY ClientStepIs
<1>2. /\ page' = page /\ collected' = collected /\ offset' = offset /\ before' = before
      /\ final' = final /\ total' = Cardinality(Selected)
  BY DEF Counts
<1>3. /\ Cardinality(Selected) \in Nat /\ offset \in Nat /\ limit \in Nat
      /\ query.kind = "errors" => Selected = errors
  BY Rows
<1>4. PageToRead' = PageToRead /\ PageRead' = PageRead
  BY <1>1 DEF PageToRead, PageRead
<1>5. pc # "client" /\ pc' # "client" /\ pc' # "done" /\ pc' # "first"
  OBVIOUS
<1>6. Types'
  <2>1. pc' \in {"client", "first", "second", "answered", "done"}
    OBVIOUS
  <2> QED
    BY <1>1, <1>2, <1>3, <1>5, <2>1 DEF Inv, Types
<1>7. NothingMissed'
  <2> SUFFICES ASSUME IsLasting
               PROVE  /\ before \subseteq Selected
                      /\ \A e \in before \ ToSet(collected) :
                             /\ PageToRead => offset < PlaceIn(Selected, Order, e)
                             /\ PageRead => /\ Len(page) = limit
                                            /\ offset + limit < PlaceIn(Selected, Order, e)
                             /\ pc' = "answered" /\ query.kind = "reports" =>
                                    offset + limit < Cardinality(Selected)
    BY <1>1, <1>2, <1>4, <1>5 DEF NothingMissed
  <2>1. before \subseteq Selected
    BY <1>5 DEF Inv, NothingMissed
  <2>2. ASSUME NEW e \in before \ ToSet(collected)
        PROVE  /\ PageToRead => offset < PlaceIn(Selected, Order, e)
               /\ PageRead => /\ Len(page) = limit
                              /\ offset + limit < PlaceIn(Selected, Order, e)
    BY <1>5 DEF Inv, NothingMissed
  <2>3. ASSUME NEW e \in before \ ToSet(collected), pc' = "answered", query.kind = "reports"
        PROVE  offset + limit < Cardinality(Selected)
    <3>1. PageRead
      BY <2>3 DEF PageRead
    <3>2. PlaceIn(Selected, Order, e) \in 1 .. Cardinality(Selected)
      BY <2>1, Rows
    <3> QED
      BY <1>3, <2>2, <3>1, <3>2
  <2> QED
    BY <2>1, <2>2, <2>3
<1>8. FirstFitsSecond'
  BY <1>1, <1>2, <1>3 DEF Inv, FirstFitsSecond
<1>9. RowsExist'
  BY <1>1, <1>2 DEF Inv, RowsExist
<1>10. ReadsEnded'
  BY <1>1, <1>2, <1>5 DEF Inv, ReadsEnded
<1>11. PagesFollow'
  <2> SUFFICES ASSUME final PROVE PagesFollow'
    BY <1>2 DEF PagesFollow
  <2>1. query.kind = "errors"
    BY DEF Inv, ReadsEnded
  <2>2. pc = "first" /\ pc' = "second"
    BY <2>1
  <2> QED
    BY <1>1, <1>2, <1>4, <2>2 DEF Inv, PagesFollow
<1>12. FirstErrorsShown'
  <2> SUFFICES ASSUME NoneAdded' PROVE FirstErrorsShown'
    BY DEF FirstErrorsShown
  <2>1. NoneAdded /\ query.kind = "errors"
    BY <1>1, <1>2 DEF Inv, NoneAdded, ReadsEnded
  <2>2. pc = "first" /\ pc' = "second"
    BY <2>1
  <2>3. PageToRead
    BY <2>2 DEF PageToRead
  <2>4. /\ offset <= Cardinality(errors) /\ Len(collected) = offset
        /\ \A i \in 1 .. Len(collected) : collected[i] = Sorted(Selected, Order)[i]
        /\ Len(collected) <= Cardinality(errors)
    BY <2>1, <2>3 DEF Inv, FirstErrorsShown
  <2>5. total' = Cardinality(errors)
    BY <1>2, <1>3, <2>1
  <2> QED
    BY <1>1, <1>2, <2>2, <2>4, <2>5 DEF FirstErrorsShown
<1> QED
  BY <1>1, <1>6, <1>7, <1>8, <1>9, <1>10, <1>11, <1>12 DEF Inv

\* Reading the page, before or after it is counted.
LEMMA ReadKeeps ==
    ASSUME Inv, Reads, ClientStep, UNCHANGED <<offset, before, final>>,
           \/ pc = "first" /\ pc' = "second" /\ query.kind = "reports"
           \/ pc = "second" /\ pc' = "answered" /\ query.kind # "reports"
    PROVE  Inv'
<1> DEFINE n == Cardinality(Selected)
<1>1. /\ query' = query /\ limit' = limit /\ byTotal' = byTotal
      /\ status' = status /\ stamp' = stamp /\ errors' = errors /\ nextId' = nextId
      /\ Selected' = Selected /\ Order' = Order /\ IsLasting' = IsLasting
      /\ InventoryTypes' /\ \A key : Exists(key)' <=> Exists(key)
  BY ClientStepIs
<1>2. /\ collected' = collected \o page' /\ offset' = offset /\ before' = before
      /\ final' = final /\ total' = total
  BY DEF Reads
<1>3. /\ n \in Nat /\ offset \in Nat /\ limit \in Nat \ {0} /\ total \in Nat
      /\ query.kind = "errors" => Selected = errors
      /\ Selected \subseteq RowsOf(query.kind)
  BY Rows
<1>4. /\ page' \in Seq(Selected) /\ Len(page') \in Nat /\ Len(page') <= limit
      /\ \A e \in Selected \ ToSet(page') :
             offset < PlaceIn(Selected, Order, e) =>
                 Len(page') = limit /\ offset + limit < PlaceIn(Selected, Order, e)
      /\ page' # <<>> => offset + Len(page') <= n
      /\ offset < n =>
             page' # <<>> /\ Len(page') = IF offset + limit <= n THEN limit ELSE n - offset
      /\ n <= offset => page' = <<>>
      /\ \A i \in 1 .. Len(page') : page'[i] = Sorted(Selected, Order)[offset + i]
  <2> DEFINE p == page'
  <2>1. p = PageOf
    BY DEF Reads
  <2> HIDE DEF p
  <2>2. /\ p \in Seq(Selected) /\ Len(p) \in Nat /\ Len(p) <= limit
        /\ \A e \in Selected \ ToSet(p) :
               offset < PlaceIn(Selected, Order, e) =>
                   Len(p) = limit /\ offset + limit < PlaceIn(Selected, Order, e)
        /\ p # <<>> => offset + Len(p) <= n
        /\ offset < n => p # <<>> /\ Len(p) = IF offset + limit <= n THEN limit ELSE n - offset
        /\ n <= offset => p = <<>>
        /\ \A i \in 1 .. Len(p) : p[i] = Sorted(Selected, Order)[offset + i]
    BY <2>1, PageIs
  <2> QED
    BY <2>2 DEF p
<1> HIDE DEF n
<1>5. page' \in Seq(RowsOf(query.kind)) /\ collected \in Seq(RowsOf(query.kind))
  BY <1>3, <1>4 DEF Inv, Types
<1>6. /\ collected' \in Seq(RowsOf(query.kind)) /\ Len(collected') = Len(collected) + Len(page')
      /\ ToSet(collected') = ToSet(collected) \cup ToSet(page')
      /\ \A i \in 1 .. Len(collected) + Len(page') :
             collected'[i] = IF i <= Len(collected) THEN collected[i] ELSE page'[i - Len(collected)]
  BY <1>2, <1>5, Appended
<1>7. /\ pc # "client" /\ pc' # "client" /\ pc' # "done" /\ pc' # "first"
      /\ PageToRead /\ ~PageToRead' /\ PageRead'
      /\ pc' \in {"second", "answered"}
  BY <1>1 DEF PageToRead, PageRead
<1>8. Types'
  BY <1>1, <1>2, <1>3, <1>4, <1>5, <1>6, <1>7 DEF Inv, Types
<1>9. NothingMissed'
  <2> SUFFICES ASSUME IsLasting
               PROVE  /\ before \subseteq Selected
                      /\ \A e \in before \ ToSet(collected') :
                             Len(page') = limit /\ offset + limit < PlaceIn(Selected, Order, e)
    BY <1>1, <1>2, <1>7 DEF NothingMissed
  <2>1. before \subseteq Selected
    BY <1>7 DEF Inv, NothingMissed
  <2>2. ASSUME NEW e \in before \ ToSet(collected')
        PROVE  Len(page') = limit /\ offset + limit < PlaceIn(Selected, Order, e)
    <3>1. e \in before \ ToSet(collected) /\ e \in Selected \ ToSet(page')
      BY <1>6, <2>1
    <3>2. offset < PlaceIn(Selected, Order, e)
      BY <1>7, <3>1 DEF Inv, NothingMissed
    <3> QED
      BY <1>4, <3>1, <3>2
  <2> QED
    BY <2>1, <2>2
<1>10. FirstFitsSecond'
  <2>1. query.kind # "reports" /\ IsLasting => pc = "second" /\ total <= n
    BY DEF Inv, FirstFitsSecond, n
  <2>2. query.kind # "reports" /\ IsLasting /\ offset < total => page' # <<>>
    BY <1>3, <1>4, <2>1
  <2> QED
    BY <1>1, <1>2, <1>4, <1>7, <2>2 DEF FirstFitsSecond, n
<1>11. RowsExist'
  <2>1. ASSUME NEW key \in Selected
        PROVE  Exists(key)
    BY <2>1 DEF Exists, Selected, Warehouses, Products, Balances
  <2>2. \A key \in ToSet(page') : key \in Selected
    BY <1>4 DEF ToSet
  <2> QED
    BY <1>1, <1>6, <2>1, <2>2 DEF Inv, RowsExist
<1>12. ReadsEnded'
  BY <1>1, <1>2, <1>7 DEF Inv, ReadsEnded
<1>13. PagesFollow'
  <2> SUFFICES ASSUME final PROVE PagesFollow'
    BY <1>2 DEF PagesFollow
  <2>1. query.kind = "errors" /\ pc = "second" /\ pc' = "answered"
    BY DEF Inv, ReadsEnded
  <2>2. n = Cardinality(errors)
    BY <1>3, <2>1 DEF n
  <2>3. Len(collected) = offset /\ offset <= n /\ Len(collected') = offset + Len(page')
    BY <1>6, <1>7, <2>2 DEF Inv, PagesFollow
  <2>4. IsLasting
    BY <2>1 DEF IsLasting
  <2>5. total <= n
    BY <2>1, <2>4 DEF Inv, FirstFitsSecond, n
  <2>6. Len(collected') <= n
    BY <1>3, <1>4, <2>3
  <2>7. Len(page') = limit \/ total <= offset + Len(page')
    <3>1. CASE offset < n
      BY <1>3, <1>4, <2>5, <3>1
    <3>2. CASE ~(offset < n)
      BY <1>3, <1>4, <2>3, <2>5, <3>2
    <3> QED
      BY <3>1, <3>2
  <2> QED
    BY <1>1, <1>2, <1>7, <2>2, <2>3, <2>6, <2>7 DEF PagesFollow
<1>14. FirstErrorsShown'
  <2>1. CASE ~NoneAdded
    BY <1>1, <1>2, <2>1 DEF FirstErrorsShown, NoneAdded
  <2>2. CASE NoneAdded
    <3>1. query.kind = "errors" /\ pc = "second" /\ pc' = "answered"
      BY <2>2 DEF Inv, ReadsEnded, NoneAdded
    <3>2. n = Cardinality(errors)
      BY <1>3, <3>1 DEF n
    <3>3. /\ total = n /\ offset <= n /\ Len(collected) = offset
          /\ \A i \in 1 .. Len(collected) : collected[i] = Sorted(Selected, Order)[i]
      BY <1>7, <2>2, <3>1, <3>2 DEF Inv, FirstErrorsShown
    <3>4. Len(collected') = offset + Len(page')
      BY <1>6, <3>3
    <3>5. \/ Len(collected') = offset + limit /\ offset + limit <= n
          \/ Len(collected') = n /\ n <= offset + limit
      <4>1. CASE offset < n /\ offset + limit <= n
        BY <1>3, <1>4, <3>4, <4>1
      <4>2. CASE offset < n /\ ~(offset + limit <= n)
        BY <1>3, <1>4, <3>4, <4>2
      <4>3. CASE offset = n
        <5>1. Len(page') = 0
          BY <1>3, <1>4, <4>3
        <5> QED
          BY <1>3, <3>4, <4>3, <5>1
      <4> QED
        BY <1>3, <3>3, <4>1, <4>2, <4>3
    <3>6. Len(collected') <= n
      BY <1>3, <3>5
    <3>7. \A i \in 1 .. Len(collected') : collected'[i] = Sorted(Selected, Order)[i]
      <4> SUFFICES ASSUME NEW i \in 1 .. offset + Len(page')
                   PROVE  collected'[i] = Sorted(Selected, Order)[i]
        BY <3>4
      <4>1. CASE i <= offset
        <5>1. i \in 1 .. Len(collected)
          BY <1>3, <3>3, <4>1
        <5> QED
          BY <1>6, <3>3, <4>1, <5>1
      <4>2. CASE ~(i <= offset)
        <5>1. i - offset \in 1 .. Len(page') /\ offset + (i - offset) = i
          BY <1>3, <1>4, <4>2
        <5>2. collected'[i] = page'[i - offset]
          BY <1>6, <3>3, <4>2
        <5> QED
          BY <1>4, <5>1, <5>2
      <4> QED
        BY <4>1, <4>2
    <3>8. Len(page') = Len(collected') - offset
      BY <1>3, <1>4, <3>4
    <3> QED
      BY <1>1, <1>2, <1>7, <3>1, <3>2, <3>3, <3>5, <3>6, <3>7, <3>8 DEF FirstErrorsShown
  <2> QED
    BY <2>1, <2>2
<1> QED
  BY <1>1, <1>8, <1>9, <1>10, <1>11, <1>12, <1>13, <1>14 DEF Inv

\* The client turns the page.
LEMMA NextPageKeeps ==
    ASSUME Inv, AskNextPage
    PROVE  Inv'
<1>1. /\ pc = "answered" /\ pc' = "first" /\ ~LastPage /\ ClientStep
      /\ offset' = offset + limit
      /\ before' = before /\ final' = final
      /\ total' = total /\ page' = page /\ collected' = collected
  BY DEF AskNextPage, ClientStep
<1>2. /\ query' = query /\ limit' = limit /\ byTotal' = byTotal
      /\ status' = status /\ stamp' = stamp /\ errors' = errors /\ nextId' = nextId
      /\ Selected' = Selected /\ Order' = Order /\ IsLasting' = IsLasting
      /\ InventoryTypes' /\ \A key : Exists(key)' <=> Exists(key)
  BY <1>1, ClientStepIs
<1>3. /\ offset \in Nat /\ limit \in Nat \ {0} /\ offset + limit \in Nat /\ total \in Nat
      /\ Cardinality(errors) \in Nat
  BY Rows
<1>4. PageRead /\ ~PageRead' /\ PageToRead'
  BY <1>1 DEF PageRead, PageToRead
<1>5. Types'
  BY <1>1, <1>2, <1>3 DEF Inv, Types
<1>6. NothingMissed'
  <2> SUFFICES ASSUME IsLasting
               PROVE  /\ before \subseteq Selected
                      /\ \A e \in before \ ToSet(collected) :
                             offset + limit < PlaceIn(Selected, Order, e)
    BY <1>1, <1>2, <1>4 DEF NothingMissed
  <2> QED
    BY <1>1, <1>4 DEF Inv, NothingMissed
<1>7. FirstFitsSecond'
  BY <1>1 DEF FirstFitsSecond
<1>8. RowsExist'
  BY <1>1, <1>2 DEF Inv, RowsExist
<1>9. ReadsEnded'
  BY <1>1, <1>2 DEF Inv, ReadsEnded
<1>10. PagesFollow'
  <2> SUFFICES ASSUME final PROVE PagesFollow'
    BY <1>1 DEF PagesFollow
  <2>1. /\ Len(collected) = offset + Len(page) /\ Len(page) \in Nat /\ Len(page) <= limit
        /\ Len(page) = limit \/ total <= offset + Len(page)
        /\ Len(collected) <= Cardinality(errors)
    BY <1>1 DEF Inv, Types, PagesFollow
  <2>2. IF byTotal THEN ~(offset + limit >= total) ELSE ~(Len(page) < limit)
    BY <1>1 DEF LastPage
  <2>3. Len(page) = limit
    BY <1>3, <2>1, <2>2
  <2> QED
    BY <1>1, <1>2, <1>4, <2>1, <2>3 DEF PagesFollow
<1>11. FirstErrorsShown'
  <2>1. CASE ~NoneAdded
    BY <1>1, <1>2, <2>1 DEF FirstErrorsShown, NoneAdded
  <2>2. CASE NoneAdded
    <3> DEFINE n == Cardinality(errors)
               c == Len(collected)
    <3>1. /\ total = n
          /\ offset <= n /\ Len(page) = c - offset /\ c <= n
          /\ \/ c = offset + limit /\ offset + limit <= n
             \/ c = n /\ n <= offset + limit
          /\ \A i \in 1 .. Len(collected) : collected[i] = Sorted(Selected, Order)[i]
      BY <1>1, <2>2 DEF Inv, FirstErrorsShown
    <3>2. c \in Nat
      BY DEF Inv, Types
    <3>3. IF byTotal THEN ~(offset + limit >= total) ELSE ~(Len(page) < limit)
      BY <1>1 DEF LastPage
    <3> HIDE DEF c, n
    <3>4. n \in Nat
      BY <1>3 DEF n
    <3>5. c = offset + limit /\ offset + limit <= n
      <4>1. CASE byTotal
        BY <1>3, <3>1, <3>2, <3>3, <3>4, <4>1
      <4>2. CASE ~byTotal
        <5>1. ~(c - offset < limit)
          BY <3>1, <3>3, <4>2
        <5> QED
          BY <1>3, <3>1, <3>2, <3>4, <5>1
      <4> QED
        BY <4>1, <4>2
    <3> QED
      BY <1>1, <1>2, <1>4, <3>1, <3>5 DEF FirstErrorsShown, c, n
  <2> QED
    BY <2>1, <2>2
<1> QED
  BY <1>2, <1>5, <1>6, <1>7, <1>8, <1>9, <1>10, <1>11 DEF Inv

\* The client has seen the last page.
LEMMA EndKeeps ==
    ASSUME Inv, EndWalk
    PROVE  Inv'
<1>1. /\ pc = "answered" /\ pc' = "done" /\ LastPage /\ ClientStep
      /\ offset' = offset /\ before' = before /\ final' = final
      /\ total' = total /\ page' = page /\ collected' = collected
  BY DEF EndWalk, ClientStep, request
<1>2. /\ query' = query /\ limit' = limit /\ byTotal' = byTotal
      /\ status' = status /\ stamp' = stamp /\ errors' = errors /\ nextId' = nextId
      /\ Selected' = Selected /\ Order' = Order /\ IsLasting' = IsLasting
      /\ InventoryTypes' /\ \A key : Exists(key)' <=> Exists(key)
  BY <1>1, ClientStepIs
<1>3. /\ offset \in Nat /\ limit \in Nat \ {0} /\ total \in Nat
      /\ Cardinality(errors) \in Nat
  BY Rows
<1>4. PageRead /\ PageRead' /\ ~PageToRead'
  BY <1>1 DEF PageRead, PageToRead
<1>5. Types'
  BY <1>1, <1>2 DEF Inv, Types
<1>6. NothingMissed'
  <2> SUFFICES ASSUME IsLasting
               PROVE  /\ before \subseteq Selected
                      /\ \A e \in before \ ToSet(collected) :
                             /\ Len(page) = limit
                             /\ offset + limit < PlaceIn(Selected, Order, e)
                             /\ query.kind = "reports" => offset + limit < total
    BY <1>1, <1>2, <1>4 DEF NothingMissed
  <2> QED
    BY <1>1, <1>4 DEF Inv, NothingMissed
<1>7. FirstFitsSecond'
  BY <1>1 DEF FirstFitsSecond
<1>8. RowsExist'
  BY <1>1, <1>2 DEF Inv, RowsExist
<1>9. ReadsEnded'
  BY <1>1, <1>2 DEF Inv, ReadsEnded
<1>10. PagesFollow'
  BY <1>1, <1>2, <1>4 DEF Inv, PagesFollow
<1>11. FirstErrorsShown'
  <2>1. CASE ~NoneAdded
    BY <1>1, <1>2, <2>1 DEF FirstErrorsShown, NoneAdded
  <2>2. CASE NoneAdded
    <3> DEFINE n == Cardinality(errors)
               c == Len(collected)
    <3>1. /\ total = n
          /\ offset <= n /\ Len(page) = c - offset /\ c <= n
          /\ \/ c = offset + limit /\ offset + limit <= n
             \/ c = n /\ n <= offset + limit
          /\ \A i \in 1 .. Len(collected) : collected[i] = Sorted(Selected, Order)[i]
      BY <1>1, <2>2 DEF Inv, FirstErrorsShown
    <3>2. c \in Nat
      BY DEF Inv, Types
    <3>3. IF byTotal THEN offset + limit >= total ELSE Len(page) < limit
      BY <1>1 DEF LastPage
    <3> HIDE DEF c, n
    <3>4. n \in Nat
      BY <1>3 DEF n
    <3>5. c = n
      <4>1. CASE byTotal
        BY <1>3, <3>1, <3>2, <3>3, <3>4, <4>1
      <4>2. CASE ~byTotal
        <5>1. c - offset < limit
          BY <3>1, <3>3, <4>2
        <5> QED
          BY <1>3, <3>1, <3>2, <3>4, <5>1
      <4> QED
        BY <4>1, <4>2
    <3>6. c <= n
      BY <3>4, <3>5
    <3> QED
      BY <1>1, <1>2, <1>4, <3>1, <3>5, <3>6 DEF FirstErrorsShown, c, n
  <2> QED
    BY <2>1, <2>2
<1> QED
  BY <1>2, <1>5, <1>6, <1>7, <1>8, <1>9, <1>10, <1>11 DEF Inv

LEMMA StutterKeeps ==
    ASSUME Inv, UNCHANGED pagesVars
    PROVE  Inv'
<1>1. UNCHANGED client /\ UNCHANGED reports /\ UNCHANGED inventory
  BY DEF pagesVars
<1>2. InventoryTypes'
  BY <1>1 DEF Inv, InventoryTypes, inventory
<1>3. Types'
  BY <1>1 DEF Inv, Types, client, request, reports
<1>4. Committed
  BY <1>1 DEF Committed, KeptRows, inventory, reports
<1> QED
  BY <1>2, <1>3, <1>4, CommittedKeeps

LEMMA NextKeeps == Inv /\ [PagesNext]_pagesVars => Inv'
<1> SUFFICES ASSUME Inv, [PagesNext]_pagesVars PROVE Inv'
  OBVIOUS
<1>1. CASE \/ ApplyReport \/ InsertErrors \/ RecordFailure
           \/ \E r \in Reports : CommitReport(r) \/ Claim(r) \/ EndReport(r)
  <2>1. Committed /\ InventoryTypes' /\ Types'
    BY <1>1, OthersCommit DEF Inv
  <2> QED
    BY <2>1, CommittedKeeps
<1>2. CASE BeginWalk
  BY <1>2, BeginKeeps
<1>3. CASE FirstStatement
  BY <1>3, StatementsAre, CountKeeps, ReadKeeps
<1>4. CASE SecondStatement
  BY <1>4, StatementsAre, CountKeeps, ReadKeeps
<1>5. CASE AskNextPage
  BY <1>5, NextPageKeeps
<1>6. CASE EndWalk
  BY <1>6, EndKeeps
<1>7. CASE Finished \/ UNCHANGED pagesVars
  BY <1>7, StutterKeeps DEF Finished
<1> QED
  BY <1>1, <1>2, <1>3, <1>4, <1>5, <1>6, <1>7 DEF PagesNext

LEMMA Invariant == PagesSpec => []Inv
BY InitHolds, NextKeeps, PTL DEF PagesSpec

-----------------------------------------------------------------------------
(* The theorems                                                            *)

\* A walk ends only at a page that says that it is the last.
EndsAtLastPage == pc = "done" => LastPage

LEMMA LastPageHolds == PagesSpec => []EndsAtLastPage
<1>1. PagesInit => EndsAtLastPage
  BY DEF PagesInit, EndsAtLastPage
<1>2. EndsAtLastPage /\ [PagesNext]_pagesVars => EndsAtLastPage'
  <2> SUFFICES ASSUME EndsAtLastPage, [PagesNext]_pagesVars, pc' = "done"
               PROVE  LastPage'
    BY DEF EndsAtLastPage
  <2>1. CASE UNCHANGED client
    BY <2>1 DEF EndsAtLastPage, LastPage, client, request
  <2>2. CASE ~UNCHANGED client
    <3>1. EndWalk
      BY <2>2 DEF PagesNext, ApplyReport, InsertErrors, RecordFailure, CommitReport, Claim, EndReport,
                  BeginWalk, FirstStatement, SecondStatement, AskNextPage, Finished, pagesVars
    <3> QED
      BY <3>1 DEF EndWalk, LastPage, request
  <2> QED
    BY <2>1, <2>2
<1> QED
  BY <1>1, <1>2, PTL DEF PagesSpec

\* In every state the rows, the request and its page have their types: a page
\* has at most limit rows, and each stock its warehouse and its product
\* (list_stocks joins the three tables).
THEOREM TypeCorrect == PagesSpec => []TypeOK
<1>1. Inv => TypeOK
  <2> SUFFICES ASSUME Inv PROVE TypeOK
    OBVIOUS
  <2>1. \A e \in errors : e.line \in Lines /\ e.id \in 1 .. nextId - 1
    BY DEF Inv, Types
  <2> QED
    BY <2>1 DEF Inv, Types, InventoryTypes, TypeOK
<1> QED
  BY <1>1, Invariant, PTL

\* Turning pages of list_warehouses, list_products, list_stocks, list_reports or
\* the list_errors of an ended report until one is not full, and for reports
\* also until total, the client sees every row that was there when it began,
\* whatever is applied, registered or added by late workers between the requests
\* and between the two statements of one; and what it saw get_warehouse and
\* get_product find.
THEOREM WalkMissesNothing == PagesSpec => []WalkSeesAll
<1>1. Inv /\ EndsAtLastPage => WalkSeesAll
  <2> SUFFICES ASSUME Inv, EndsAtLastPage PROVE WalkSeesAll
    OBVIOUS
  <2>1. \A key \in ToSet(collected) : Exists(key)
    BY DEF Inv, RowsExist
  <2>2. ASSUME pc = "done", IsLasting, byTotal => query.kind = "reports",
               NEW e \in before, e \notin ToSet(collected)
        PROVE  FALSE
    <3>1. PageRead
      BY <2>2 DEF PageRead
    <3>2. Len(page) = limit /\ (query.kind = "reports" => offset + limit < total)
      BY <2>2, <3>1 DEF Inv, NothingMissed
    <3>3. IF byTotal THEN offset + limit >= total ELSE Len(page) < limit
      BY <2>2 DEF EndsAtLastPage, LastPage
    <3>4. offset \in Nat /\ limit \in Nat /\ total \in Nat
      BY Rows
    <3> QED
      BY <2>2, <3>2, <3>3, <3>4
  <2> QED
    BY <2>1, <2>2 DEF WalkSeesAll
<1> QED
  BY <1>1, Invariant, LastPageHolds, PTL

\* The two statements of a request fit together: reports, counted last, are
\* never fewer than the page shows, and no page of the other lists, counted
\* first, is empty below total.
THEOREM PageFits == PagesSpec => []PageFitsTotal
<1>1. Inv => PageFitsTotal
  BY DEF Inv, FirstFitsSecond, PageFitsTotal
<1> QED
  BY <1>1, Invariant, PTL

\* The row at a place has that place.
LEMMA SortedPlace ==
    ASSUME Inv, NEW i \in 1 .. Cardinality(Selected)
    PROVE  /\ Sorted(Selected, Order)[i] \in Selected
           /\ PlaceIn(Selected, Order, Sorted(Selected, Order)[i]) = i
<1> DEFINE S == Selected  L == Order  n == Cardinality(S)  s == Sorted(S, L)
<1>1. IsFiniteSet(S) /\ StrictOrder(S, L)
  BY TypesRows, SelectionIs DEF Inv, SelectionFacts
<1>2. /\ s \in Seq(S) /\ Len(s) = n /\ n \in Nat
      /\ \A e \in S : PlaceIn(S, L, e) \in 1 .. n /\ s[PlaceIn(S, L, e)] = e
      /\ \A j, k \in 1 .. n : j < k => <<s[j], s[k]>> \in L
  BY Rows
<1> HIDE DEF S, L, n, s
<1>3. i \in 1 .. n
  BY DEF n, S
<1>4. s[i] \in S
  BY <1>2, <1>3
<1> DEFINE p == PlaceIn(S, L, s[i])
<1>5. p \in 1 .. n /\ s[p] = s[i]
  BY <1>2, <1>4
<1> HIDE DEF p
<1>6. <<s[i], s[i]>> \notin L
  BY <1>1, <1>4 DEF StrictOrder
<1>7. ~(p < i) /\ ~(i < p)
  BY <1>2, <1>3, <1>5, <1>6
<1>8. p = i
  BY <1>2, <1>3, <1>5, <1>7
<1> QED
  BY <1>4, <1>8 DEF S, L, s, p

\* A sequence shows finitely many rows.
LEMMA ShownIsFinite ==
    ASSUME NEW R, NEW q \in Seq(R)
    PROVE  IsFiniteSet(ToSet(q))
<1> DEFINE T == ToSet(q)
<1>1. DOMAIN q = 1 .. Len(q) /\ Len(q) \in Nat
  OBVIOUS
<1>2. q \in Surjection(1 .. Len(q), T)
  BY <1>1 DEF ToSet, Surjection
<1>3. IsFiniteSet(1 .. Len(q))
  BY <1>1, FS_Interval
<1> HIDE DEF T
<1>4. IsFiniteSet(T)
  BY <1>2, <1>3, FS_Surjection
<1> QED
  BY <1>4 DEF T

\* Places with different rows of a set are no more than its rows.
LEMMA PlacesBounded ==
    ASSUME NEW c \in Nat, NEW s, NEW X, IsFiniteSet(X),
           \A i \in 1 .. c : s[i] \in X,
           \A i, j \in 1 .. c : s[i] = s[j] => i = j
    PROVE  c <= Cardinality(X)
<1> DEFINE f == [i \in 1 .. c |-> s[i]]
<1>1. f \in Injection(1 .. c, X)
  BY DEF Injection, IsInjective
<1> HIDE DEF f
<1>2. Cardinality(1 .. c) <= Cardinality(X)
  BY <1>1, FS_Injection
<1>3. Cardinality(1 .. c) = c
  BY FS_Interval
<1> QED
  BY <1>2, <1>3

\* The rows of a walk through the errors of an ended report: an error that was
\* there is seen, or is not among the first as many as the client has.
LEMMA FirstAreSeen ==
    ASSUME Inv, final, NEW i \in 1 .. Len(collected)
    PROVE  Sorted(Selected, Order)[i] \in ToSet(collected) \cup (errors \ before)
<1> DEFINE e == Sorted(Selected, Order)[i]
           c == Len(collected)
<1>1. query.kind = "errors" /\ pc # "client" /\ IsLasting /\ Selected = errors
  BY DEF Inv, ReadsEnded, IsLasting, Selected
<1>2. c \in Nat /\ c <= Cardinality(Selected) /\ Cardinality(Selected) \in Nat
  BY <1>1, Rows DEF Inv, Types, PagesFollow
<1>3. e \in Selected /\ PlaceIn(Selected, Order, e) = i
  BY <1>2, SortedPlace
<1> SUFFICES ASSUME e \in before, e \notin ToSet(collected) PROVE FALSE
  BY <1>1, <1>3
<1> HIDE DEF e
<1>4. /\ PageToRead => offset < i
      /\ PageRead => Len(page) = limit /\ offset + limit < i
  BY <1>1, <1>3 DEF Inv, NothingMissed
<1>5. /\ PageToRead => c = offset
      /\ PageRead => c = offset + Len(page)
  BY <1>1 DEF Inv, PagesFollow, PageRead
<1>6. PageToRead \/ PageRead
  BY <1>1 DEF Inv, Types, PageToRead, PageRead
<1>7. offset \in Nat /\ limit \in Nat
  BY Rows
<1> HIDE DEF c
<1>8. i <= c
  BY <1>2 DEF c
<1> QED
  BY <1>2, <1>4, <1>5, <1>6, <1>7, <1>8

\* The pages of the errors of a report that has ended repeat no more errors than
\* late workers add, and when none is added they show each error once, by line
\* and id, with the right total on each page (list_errors).
THEOREM ErrorsShownOnce == PagesSpec => []ErrorsOfEndedReport
<1>1. Inv => ErrorsOfEndedReport
  <2> SUFFICES ASSUME Inv, final PROVE ErrorsOfEndedReport
    BY DEF ErrorsOfEndedReport
  <2> DEFINE s == Sorted(Selected, Order)
             n == Cardinality(errors)
             c == Len(collected)
             shown == ToSet(collected)
             added == errors \ before
  <2>1. query.kind = "errors" /\ Selected = errors
    BY Rows DEF Inv, ReadsEnded
  <2>2. /\ n \in Nat /\ s \in Seq(errors) /\ Len(s) = n
        /\ \A e \in errors : /\ PlaceIn(Selected, Order, e) \in 1 .. n
                             /\ s[PlaceIn(Selected, Order, e)] = e
        /\ \A i, j \in 1 .. n : i < j => <<s[i], s[j]>> \in Order
    BY <2>1, Rows
  <2>3. \A a, b : <<a, b>> \in Order => a.line < b.line \/ (a.line = b.line /\ a.id < b.id)
    <3>1. \A a, b : Precedes(a, b) <=> Earlier(a, b)
      BY <2>1 DEF Precedes
    <3> QED
      BY <3>1 DEF Order, Earlier
  <2>4. c <= Cardinality(shown) + Cardinality(added)
    <3>1. c \in Nat /\ c <= Cardinality(Selected)
      BY <2>1 DEF Inv, Types, PagesFollow
    <3>2. IsFiniteSet(shown) /\ IsFiniteSet(added)
      <4>1. collected \in Seq(RowsOf(query.kind))
        BY DEF Inv, Types
      <4>2. IsFiniteSet(shown)
        BY <4>1, ShownIsFinite
      <4>3. IsFiniteSet(added)
        BY Rows, FS_Subset
      <4> QED
        BY <4>2, <4>3
    <3>3. \A i \in 1 .. c : s[i] \in shown \cup added
      BY FirstAreSeen
    <3>4. \A i, j \in 1 .. c : s[i] = s[j] => i = j
      BY <2>1, <3>1, SortedPlace, Rows
    <3> HIDE DEF c, s, shown, added
    <3>5. /\ IsFiniteSet(shown \cup added)
          /\ Cardinality(shown \cup added) <= Cardinality(shown) + Cardinality(added)
      <4>1. Cardinality(shown \cup added) =
                Cardinality(shown) + Cardinality(added) - Cardinality(shown \cap added)
        BY <3>2, FS_Union
      <4>2. IsFiniteSet(shown \cup added) /\ IsFiniteSet(shown \cap added)
        BY <3>2, FS_Union, FS_Intersection
      <4>3. /\ Cardinality(shown) \in Nat /\ Cardinality(added) \in Nat
            /\ Cardinality(shown \cap added) \in Nat
        BY <3>2, <4>2, FS_CardinalityType
      <4> QED
        BY <4>1, <4>2, <4>3
    <3>6. c <= Cardinality(shown \cup added)
      BY <3>1, <3>3, <3>4, <3>5, PlacesBounded
    <3>7. /\ Cardinality(shown) \in Nat /\ Cardinality(added) \in Nat
          /\ Cardinality(shown \cup added) \in Nat
      BY <3>2, <3>5, FS_CardinalityType
    <3> QED
      BY <3>1, <3>5, <3>6, <3>7
  <2> HIDE DEF s
  <2>5. ASSUME pc = "done", errors = before
        PROVE  /\ Len(collected) = n /\ ToSet(collected) = errors
               /\ \A i, j \in DOMAIN collected :
                      i < j => LET a == collected[i]  b == collected[j] IN
                               a.line < b.line \/ (a.line = b.line /\ a.id < b.id)
    <3>1. Len(collected) = n /\ \A i \in 1 .. n : collected[i] = s[i]
      BY <2>5 DEF Inv, FirstErrorsShown, NoneAdded, s
    <3>2. DOMAIN collected = 1 .. n /\ \A i \in 1 .. n : s[i] \in errors
      BY <2>2, <3>1 DEF Inv, Types
    <3> HIDE DEF n
    <3>3. ToSet(collected) = {s[i] : i \in 1 .. n}
      BY <3>1, <3>2 DEF ToSet
    <3>4. ToSet(collected) = errors
      BY <2>2, <3>2, <3>3
    <3>5. \A i, j \in 1 .. n :
              i < j => \/ s[i].line < s[j].line
                       \/ s[i].line = s[j].line /\ s[i].id < s[j].id
      BY <2>2, <2>3
    <3>6. \A i, j \in DOMAIN collected :
              i < j => \/ collected[i].line < collected[j].line
                       \/ collected[i].line = collected[j].line /\ collected[i].id < collected[j].id
      BY <3>1, <3>2, <3>5
    <3> QED
      BY <3>1, <3>4, <3>6 DEF n
  <2>6. pc = "answered" /\ errors = before => total = n
    BY DEF Inv, FirstErrorsShown, NoneAdded
  <2> QED
    BY <2>4, <2>5, <2>6 DEF ErrorsOfEndedReport
<1> QED
  BY <1>1, Invariant, PTL
=============================================================================
