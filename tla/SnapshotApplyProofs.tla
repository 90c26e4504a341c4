-------------------------- MODULE SnapshotApplyProofs --------------------------
(***************************************************************************)
(* Theorems about StockLedger and SnapshotApply, for every set of reports  *)
(* and any number of them: the statements of the transaction together are  *)
(* the step of the ledger, and what follows for the stock tables from the  *)
(* ledger alone.                                                           *)
(***************************************************************************)
EXTENDS SnapshotApply, FiniteSetTheorems, WellFoundedInduction, TLAPS

-----------------------------------------------------------------------------
(* Lines of a report                                                       *)

LEMMA Least ==
    ASSUME NEW S \in SUBSET Nat, S # {}
    PROVE  \E k \in S : \A m \in S : k <= m
<1>1. PICK k \in S : \A m \in S : <<m, k>> \notin OpToRel(<, Nat)
  BY NatLessThanWellFounded, WFMin, Zenon
<1>2. \A m \in S : ~(m < k)
  BY <1>1 DEF OpToRel
<1> QED
  BY <1>2

\* A set of lines that is not empty has a last one.
LEMMA LastLineOf ==
    ASSUME NEW n \in Nat, NEW L \in SUBSET (1 .. n), L # {}
    PROVE  /\ LastLine(L) \in L
           /\ \A j \in L : j <= LastLine(L)
<1> DEFINE rest == {k \in Nat : \E i \in L : k = n - i}
<1>1. PICK i \in L : TRUE
  OBVIOUS
<1>2. n - i \in rest
  BY <1>1
<1>3. PICK k \in rest : \A m \in rest : k <= m
  <2>1. rest \in SUBSET Nat /\ rest # {}
    BY <1>2
  <2> HIDE DEF rest
  <2> QED
    BY <2>1, Least
<1>4. PICK l \in L : k = n - l
  BY <1>3
<1>5. ASSUME NEW j \in L PROVE j <= l
  <2>1. n - j \in rest
    OBVIOUS
  <2>2. k <= n - j
    BY <1>3, <2>1
  <2> QED
    BY <1>4, <2>2
<1>6. \E m \in L : \A j \in L : j <= m
  BY <1>5
<1> QED
  BY <1>6 DEF LastLine

\* What a report is made of.
LEMMA ReportLines ==
    ASSUME NEW s \in Snapshots
    PROVE  /\ s \in Seq(Row) /\ s # <<>>
           /\ DOMAIN s = 1 .. Len(s) /\ Len(s) \in Nat
           /\ \A i \in DOMAIN s : s[i] \in Row
           /\ IsFiniteSet(DOMAIN s)
<1>1. s \in Seq(Row) /\ s # <<>>
  BY SnapshotsAssumption
<1>2. DOMAIN s = 1 .. Len(s) /\ Len(s) \in Nat /\ \A i \in DOMAIN s : s[i] \in Row
  BY <1>1
<1>3. IsFiniteSet(1 .. Len(s))
  BY <1>2, FS_Interval
<1> QED
  BY <1>1, <1>2, <1>3

LEMMA LineOf ==
    ASSUME NEW s \in Snapshots, NEW i \in DOMAIN s
    PROVE  /\ s[i].code \in Codes /\ s[i].sku \in Skus
           /\ s[i].warehouse \in Names /\ s[i].product \in Names
           /\ s[i].quantity \in Quantities /\ s[i].quantity \in Nat
           /\ <<s[i].code, s[i].sku>> \in Stocks
BY ReportLines, QuantitiesAssumption DEF Row, Stocks

LEMMA ListedFinite ==
    ASSUME NEW s \in Snapshots
    PROVE  IsFiniteSet(Listed(s)) /\ Listed(s) \subseteq Stocks
<1> DEFINE f == [i \in DOMAIN s |-> <<s[i].code, s[i].sku>>]
<1>1. f \in Surjection(DOMAIN s, Listed(s))
  BY DEF Surjection, Listed
<1>2. IsFiniteSet(Listed(s))
  BY <1>1, ReportLines, FS_Surjection
<1>3. Listed(s) \subseteq Stocks
  BY LineOf DEF Listed
<1> QED
  BY <1>2, <1>3

\* A stock is listed if it has a line, and its warehouse then has one, too.
LEMMA ListedLines ==
    ASSUME NEW s \in Snapshots, NEW p \in Stocks
    PROVE  /\ p \in Listed(s) <=> StockLines(s, p) # {}
           /\ StockLines(s, p) # {} => WarehouseLines(s, p[1]) # {}
BY DEF Listed, StockLines, WarehouseLines

\* Names are names.
LEMMA NamesType ==
    ASSUME NEW s \in Snapshots
    PROVE  /\ \A f \in [Codes -> Names \cup {None}] :
                WarehouseNames(f, s) \in [Codes -> Names \cup {None}]
           /\ \A f \in [Skus -> Names \cup {None}] :
                ProductNames(f, s) \in [Skus -> Names \cup {None}]
<1>1. ASSUME NEW c, WarehouseLines(s, c) # {}
      PROVE  s[LastLine(WarehouseLines(s, c))].warehouse \in Names
  <2>1. WarehouseLines(s, c) \in SUBSET (1 .. Len(s))
    BY ReportLines DEF WarehouseLines
  <2>2. LastLine(WarehouseLines(s, c)) \in DOMAIN s
    BY <1>1, <2>1, ReportLines, LastLineOf
  <2> QED
    BY <2>2, LineOf
<1>2. ASSUME NEW k, ProductLines(s, k) # {}
      PROVE  s[LastLine(ProductLines(s, k))].product \in Names
  <2>1. ProductLines(s, k) \in SUBSET (1 .. Len(s))
    BY ReportLines DEF ProductLines
  <2>2. LastLine(ProductLines(s, k)) \in DOMAIN s
    BY <1>2, <2>1, ReportLines, LastLineOf
  <2> QED
    BY <2>2, LineOf
<1> QED
  BY <1>1, <1>2 DEF WarehouseNames, ProductNames

-----------------------------------------------------------------------------
(* The ledger: types                                                       *)

Balances == [Stocks -> Quantities \cup {0, None}]

\* The choice of a line for each stock of a report.
Lines(s) == {line \in [Listed(s) -> DOMAIN s] : \A p \in Listed(s) : line[p] \in StockLines(s, p)}

\* The stocks there are.
Existing(balances) == {p \in Stocks : balances[p] # None}

\* The step of the ledger, for a choice of lines.
Outcome(t, s, line) ==
    [ warehouses |-> WarehouseNames(t.warehouses, s),
      products   |-> ProductNames(t.products, s),
      balances   |-> After(t.balances, s, line) ]

Entry(t, s, line) ==
    LET old == t.balances
        new == After(old, s, line)
    IN  [ rows    |-> s,
          created |-> Count("created", s, old, new),
          updated |-> Count("updated", s, old, new),
          zeroed  |-> Count("zeroed", s, old, new) ]

Entries == [rows : Snapshots, created : Nat, updated : Nat, zeroed : Nat]

LEMMA ApplyIs ==
    ASSUME NEW s
    PROVE  Apply(s) <=> \E line \in Lines(s) : tables' = Outcome(tables, s, line)
                                               /\ history' = Append(history, Entry(tables, s, line))
BY Zenon DEF Apply, Lines, Outcome, Entry

LEMMA AfterType ==
    ASSUME NEW s \in Snapshots, NEW f \in Balances, NEW line \in Lines(s)
    PROVE  /\ After(f, s, line) \in Balances
           /\ Existing(After(f, s, line)) = Existing(f) \cup Listed(s)
<1>1. ASSUME NEW p \in Listed(s) PROVE s[line[p]].quantity \in Quantities \cap Nat
  BY LineOf DEF Lines
<1>2. After(f, s, line) \in Balances
  BY <1>1 DEF After, Balances, Lines
<1>3. \A p \in Stocks : After(f, s, line)[p] # None <=> f[p] # None \/ p \in Listed(s)
  BY <1>1, AbsentAssumption DEF After, Balances, Lines
<1> QED
  BY <1>2, <1>3, ListedFinite DEF Existing

\* What is counted, in terms of stocks.
LEMMA Classified ==
    ASSUME NEW s \in Snapshots, NEW old \in Balances, NEW new, NEW p \in Stocks
    PROVE  LET kind == Classify(old[p], new[p], StockLines(s, p) # {}, WarehouseLines(s, p[1]) # {})
           IN  /\ kind = "created" <=> p \in Listed(s) /\ old[p] = None
               /\ kind = "updated" <=> p \in Listed(s) /\ old[p] # None /\ old[p] # new[p]
               /\ kind = "zeroed"  <=> /\ p \notin Listed(s) /\ WarehouseLines(s, p[1]) # {}
                                       /\ old[p] \notin {None, 0}
BY ListedLines DEF Classify

LEMMA CountIs ==
    ASSUME NEW s \in Snapshots, NEW old \in Balances, NEW new
    PROVE  /\ Count("created", s, old, new) = Cardinality({p \in Listed(s) : old[p] = None})
           /\ Count("updated", s, old, new) =
                Cardinality({p \in Listed(s) : old[p] # None /\ old[p] # new[p]})
           /\ Count("zeroed", s, old, new) =
                Cardinality({p \in Stocks : /\ p \notin Listed(s) /\ WarehouseLines(s, p[1]) # {}
                                            /\ old[p] \notin {None, 0}})
<1> DEFINE kind(p) == Classify(old[p], new[p], StockLines(s, p) # {}, WarehouseLines(s, p[1]) # {})
<1>1. ASSUME NEW p \in Stocks
      PROVE  /\ kind(p) = "created" <=> p \in Listed(s) /\ old[p] = None
             /\ kind(p) = "updated" <=> p \in Listed(s) /\ old[p] # None /\ old[p] # new[p]
             /\ kind(p) = "zeroed"  <=> /\ p \notin Listed(s) /\ WarehouseLines(s, p[1]) # {}
                                        /\ old[p] \notin {None, 0}
  BY Classified
<1>2. /\ Count("created", s, old, new) = Cardinality({p \in Stocks : "created" = kind(p)})
      /\ Count("updated", s, old, new) = Cardinality({p \in Stocks : "updated" = kind(p)})
      /\ Count("zeroed", s, old, new) = Cardinality({p \in Stocks : "zeroed" = kind(p)})
  BY Zenon DEF Count
<1> HIDE DEF kind
<1>3. Listed(s) \subseteq Stocks
  BY ListedFinite
<1>4. {p \in Stocks : "created" = kind(p)} = {p \in Listed(s) : old[p] = None}
  BY <1>1, <1>3
<1>5. {p \in Stocks : "updated" = kind(p)} = {p \in Listed(s) : old[p] # None /\ old[p] # new[p]}
  BY <1>1, <1>3
<1>6. {p \in Stocks : "zeroed" = kind(p)} =
      {p \in Stocks : p \notin Listed(s) /\ WarehouseLines(s, p[1]) # {} /\ old[p] \notin {None, 0}}
  BY <1>1
<1> QED
  BY <1>2, <1>4, <1>5, <1>6, Zenon

LEMMA CountType ==
    ASSUME NEW s \in Snapshots, NEW old \in Balances, NEW new, IsFiniteSet(Existing(old))
    PROVE  \A k \in {"created", "updated", "zeroed"} : Count(k, s, old, new) \in Nat
<1>1. /\ {p \in Listed(s) : old[p] = None} \in SUBSET Listed(s)
      /\ {p \in Listed(s) : old[p] # None /\ old[p] # new[p]} \in SUBSET Listed(s)
  OBVIOUS
<1>2. {p \in Stocks : p \notin Listed(s) /\ WarehouseLines(s, p[1]) # {} /\ old[p] \notin {None, 0}}
        \in SUBSET Existing(old)
  BY DEF Existing
<1>3. \A T \in SUBSET Listed(s) : Cardinality(T) \in Nat
  BY ListedFinite, FS_Subset, FS_CardinalityType
<1>4. \A T \in SUBSET Existing(old) : Cardinality(T) \in Nat
  BY FS_Subset, FS_CardinalityType
<1>5. Count("created", s, old, new) \in Nat
  BY <1>1, <1>3, CountIs, Zenon
<1>6. Count("updated", s, old, new) \in Nat
  BY <1>1, <1>3, CountIs, Zenon
<1>7. Count("zeroed", s, old, new) \in Nat
  BY <1>2, <1>4, CountIs, Zenon
<1> QED
  BY <1>5, <1>6, <1>7

LedgerInv ==
    /\ tables \in Tables
    /\ history \in Seq(Entries)
    /\ IsFiniteSet(Existing(tables.balances))

LEMMA LedgerInit == Init => LedgerInv
<1> SUFFICES ASSUME Init PROVE LedgerInv
  OBVIOUS
<1>1. Existing(tables.balances) = {}
  BY DEF Init, NoTables, Existing
<1>2. tables \in Tables
  BY DEF Init, NoTables, Tables
<1>3. history \in Seq(Entries)
  BY DEF Init
<1> QED
  BY <1>1, <1>2, <1>3, FS_EmptySet DEF LedgerInv

LEMMA LedgerStep ==
    ASSUME LedgerInv, NEW s \in Snapshots, NEW line \in Lines(s)
    PROVE  /\ Outcome(tables, s, line) \in Tables /\ Entry(tables, s, line) \in Entries
           /\ Existing(Outcome(tables, s, line).balances) = Existing(tables.balances) \cup Listed(s)
           /\ IsFiniteSet(Existing(Outcome(tables, s, line).balances))
<1>1. tables.balances \in Balances /\ IsFiniteSet(Existing(tables.balances))
  BY DEF LedgerInv, Tables, Balances
<1>2. Outcome(tables, s, line) \in Tables
  BY <1>1, AfterType, NamesType DEF LedgerInv, Tables, Balances, Outcome
<1>3. Entry(tables, s, line) \in Entries
  BY <1>1, CountType DEF Entry, Entries
<1>4. Existing(Outcome(tables, s, line).balances) = Existing(tables.balances) \cup Listed(s)
  BY <1>1, AfterType DEF Outcome
<1> QED
  BY <1>1, <1>2, <1>3, <1>4, ListedFinite, FS_Union

LEMMA LedgerNext == LedgerInv /\ [Next]_<<tables, history>> => LedgerInv'
<1> SUFFICES ASSUME LedgerInv, [Next]_<<tables, history>> PROVE LedgerInv'
  OBVIOUS
<1>1. CASE UNCHANGED <<tables, history>>
  BY <1>1 DEF LedgerInv, Existing
<1>2. ASSUME NEW s \in Snapshots, NEW line \in Lines(s), tables' = Outcome(tables, s, line),
             history' = Append(history, Entry(tables, s, line))
      PROVE  LedgerInv'
  BY <1>2, LedgerStep DEF LedgerInv, Existing
<1> QED
  BY <1>1, <1>2, ApplyIs DEF Next

-----------------------------------------------------------------------------
(* The ledger: tables and history                                          *)

CodeReports(h, c)  == {k \in DOMAIN h : WarehouseLines(h[k].rows, c) # {}}
SkuReports(h, x)   == {k \in DOMAIN h : ProductLines(h[k].rows, x) # {}}
StockReports(h, p) == {k \in DOMAIN h : StockLines(h[k].rows, p) # {}}

LastOf(reports) == IF reports = {} THEN 0 ELSE LastLine(reports)

CodeName(h, c) ==
    LET k == LastOf(CodeReports(h, c))
    IN  IF k = 0 THEN None ELSE h[k].rows[LastLine(WarehouseLines(h[k].rows, c))].warehouse

SkuName(h, x) ==
    LET k == LastOf(SkuReports(h, x))
    IN  IF k = 0 THEN None ELSE h[k].rows[LastLine(ProductLines(h[k].rows, x))].product

BalanceOf(h, p) ==
    LET k == LastOf(CodeReports(h, p[1]))
        listed == StockReports(h, p)
    IN  IF k \in listed THEN {h[k].rows[i].quantity : i \in StockLines(h[k].rows, p)}
        ELSE IF listed # {} THEN {0} ELSE {None}

LEMMA PropertiesAre ==
    /\ BalancesFollowHistory <=> \A p \in Stocks : tables.balances[p] \in BalanceOf(history, p)
    /\ NamesFollowHistory <=>
         /\ \A c \in Codes : tables.warehouses[c] = CodeName(history, c)
         /\ \A x \in Skus : tables.products[x] = SkuName(history, x)
<1>1. BalancesFollowHistory <=> \A p \in Stocks : tables.balances[p] \in BalanceOf(history, p)
  BY Zenon DEF BalancesFollowHistory, LastReport, BalanceOf, LastOf, CodeReports, StockReports
<1>2. NamesFollowHistory <=>
        /\ \A c \in Codes : tables.warehouses[c] = CodeName(history, c)
        /\ \A x \in Skus : tables.products[x] = SkuName(history, x)
  BY Zenon DEF NamesFollowHistory, LastReport, CodeName, SkuName, LastOf, CodeReports, SkuReports
<1> QED
  BY <1>1, <1>2

\* A report more at the end of the history.
LEMMA Appended ==
    ASSUME NEW h \in Seq(Entries), NEW e \in Entries
    PROVE  /\ Len(h) \in Nat /\ DOMAIN h = 1 .. Len(h)
           /\ Append(h, e) \in Seq(Entries) /\ Len(Append(h, e)) = Len(h) + 1
           /\ DOMAIN Append(h, e) = DOMAIN h \cup {Len(h) + 1}
           /\ Append(h, e)[Len(h) + 1] = e
           /\ \A k \in DOMAIN h : Append(h, e)[k] = h[k] /\ k # Len(h) + 1 /\ k # 0
           /\ \A k \in DOMAIN h : h[k] \in Entries
OBVIOUS

\* Only the last report of a code, and whether it lists the stock, matters.
LEMMA LastAppended ==
    ASSUME NEW n \in Nat, NEW R \in SUBSET (1 .. n)
    PROVE  /\ LastOf(R \cup {n + 1}) = n + 1
           /\ LastOf(R) \in R \cup {0}
<1>1. R \cup {n + 1} \in SUBSET (1 .. n + 1) /\ n + 1 \in Nat
  OBVIOUS
<1>2. /\ LastLine(R \cup {n + 1}) \in R \cup {n + 1}
      /\ \A j \in R \cup {n + 1} : j <= LastLine(R \cup {n + 1})
  BY <1>1, LastLineOf
<1>3. LastLine(R \cup {n + 1}) = n + 1
  <2>1. LastLine(R \cup {n + 1}) \in 1 .. n + 1
    BY <1>1, <1>2
  <2>2. n + 1 <= LastLine(R \cup {n + 1})
    BY <1>2
  <2> QED
    BY <2>1, <2>2
<1>4. R # {} => LastLine(R) \in R
  BY LastLineOf
<1> QED
  BY <1>3, <1>4 DEF LastOf

LEMMA ReportsAppended ==
    ASSUME NEW h \in Seq(Entries), NEW e \in Entries
    PROVE  /\ \A c : CodeReports(Append(h, e), c) =
                       IF WarehouseLines(e.rows, c) # {} THEN CodeReports(h, c) \cup {Len(h) + 1}
                       ELSE CodeReports(h, c)
           /\ \A x : SkuReports(Append(h, e), x) =
                       IF ProductLines(e.rows, x) # {} THEN SkuReports(h, x) \cup {Len(h) + 1}
                       ELSE SkuReports(h, x)
           /\ \A p : StockReports(Append(h, e), p) =
                       IF StockLines(e.rows, p) # {} THEN StockReports(h, p) \cup {Len(h) + 1}
                       ELSE StockReports(h, p)
           /\ \A c : CodeReports(h, c) \in SUBSET (1 .. Len(h))
           /\ \A x : SkuReports(h, x) \in SUBSET (1 .. Len(h))
           /\ \A p : StockReports(h, p) \in SUBSET (1 .. Len(h))
<1>1. /\ DOMAIN Append(h, e) = DOMAIN h \cup {Len(h) + 1}
      /\ DOMAIN h = 1 .. Len(h)
      /\ Append(h, e)[Len(h) + 1] = e
      /\ \A k \in DOMAIN h : Append(h, e)[k] = h[k]
  BY Appended
<1>2. \A c : CodeReports(Append(h, e), c) =
               IF WarehouseLines(e.rows, c) # {} THEN CodeReports(h, c) \cup {Len(h) + 1}
               ELSE CodeReports(h, c)
  BY <1>1 DEF CodeReports
<1>3. \A x : SkuReports(Append(h, e), x) =
               IF ProductLines(e.rows, x) # {} THEN SkuReports(h, x) \cup {Len(h) + 1}
               ELSE SkuReports(h, x)
  BY <1>1 DEF SkuReports
<1>4. \A p : StockReports(Append(h, e), p) =
               IF StockLines(e.rows, p) # {} THEN StockReports(h, p) \cup {Len(h) + 1}
               ELSE StockReports(h, p)
  BY <1>1 DEF StockReports
<1> QED
  BY <1>1, <1>2, <1>3, <1>4 DEF CodeReports, SkuReports, StockReports

LEMMA NamesAppended ==
    ASSUME NEW h \in Seq(Entries), NEW e \in Entries
    PROVE  /\ \A c : CodeName(Append(h, e), c) =
                IF WarehouseLines(e.rows, c) = {} THEN CodeName(h, c)
                ELSE e.rows[LastLine(WarehouseLines(e.rows, c))].warehouse
           /\ \A x : SkuName(Append(h, e), x) =
                IF ProductLines(e.rows, x) = {} THEN SkuName(h, x)
                ELSE e.rows[LastLine(ProductLines(e.rows, x))].product
<1> DEFINE n == Len(h)
<1>0. n \in Nat /\ n + 1 # 0 /\ Append(h, e)[n + 1] = e
      /\ \A k \in 1 .. n : Append(h, e)[k] = h[k]
  BY Appended
<1> HIDE DEF n
<1>1. ASSUME NEW c
      PROVE  CodeName(Append(h, e), c) =
                IF WarehouseLines(e.rows, c) = {} THEN CodeName(h, c)
                ELSE e.rows[LastLine(WarehouseLines(e.rows, c))].warehouse
  <2>1. CodeReports(h, c) \in SUBSET (1 .. n)
    BY ReportsAppended DEF n
  <2>2. CASE WarehouseLines(e.rows, c) = {}
    <3>1. LastOf(CodeReports(Append(h, e), c)) = LastOf(CodeReports(h, c))
      BY <2>2, ReportsAppended
    <3>2. LastOf(CodeReports(h, c)) \in (1 .. n) \cup {0}
      BY <1>0, <2>1, LastAppended
    <3> QED
      BY <1>0, <2>2, <3>1, <3>2 DEF CodeName
  <2>3. CASE WarehouseLines(e.rows, c) # {}
    <3>1. LastOf(CodeReports(Append(h, e), c)) = n + 1
      <4>1. CodeReports(Append(h, e), c) = CodeReports(h, c) \cup {n + 1}
        BY <2>3, ReportsAppended DEF n
      <4>2. LastOf(CodeReports(h, c) \cup {n + 1}) = n + 1
        BY <1>0, <2>1, LastAppended
      <4> QED
        BY <4>1, <4>2
    <3> QED
      BY <1>0, <2>3, <3>1 DEF CodeName
  <2> QED
    BY <2>2, <2>3
<1>2. ASSUME NEW x
      PROVE  SkuName(Append(h, e), x) =
                IF ProductLines(e.rows, x) = {} THEN SkuName(h, x)
                ELSE e.rows[LastLine(ProductLines(e.rows, x))].product
  <2>1. SkuReports(h, x) \in SUBSET (1 .. n)
    BY ReportsAppended DEF n
  <2>2. CASE ProductLines(e.rows, x) = {}
    <3>1. LastOf(SkuReports(Append(h, e), x)) = LastOf(SkuReports(h, x))
      BY <2>2, ReportsAppended
    <3>2. LastOf(SkuReports(h, x)) \in (1 .. n) \cup {0}
      BY <1>0, <2>1, LastAppended
    <3> QED
      BY <1>0, <2>2, <3>1, <3>2 DEF SkuName
  <2>3. CASE ProductLines(e.rows, x) # {}
    <3>1. LastOf(SkuReports(Append(h, e), x)) = n + 1
      <4>1. SkuReports(Append(h, e), x) = SkuReports(h, x) \cup {n + 1}
        BY <2>3, ReportsAppended DEF n
      <4>2. LastOf(SkuReports(h, x) \cup {n + 1}) = n + 1
        BY <1>0, <2>1, LastAppended
      <4> QED
        BY <4>1, <4>2
    <3> QED
      BY <1>0, <2>3, <3>1 DEF SkuName
  <2> QED
    BY <2>2, <2>3
<1> QED
  BY <1>1, <1>2

\* A quantity is never "no balance".
LEMMA BalanceAppended ==
    ASSUME NEW h \in Seq(Entries), NEW e \in Entries, NEW p \in Stocks
    PROVE  /\ StockLines(e.rows, p) # {} =>
                BalanceOf(Append(h, e), p) = {e.rows[i].quantity : i \in StockLines(e.rows, p)}
           /\ StockLines(e.rows, p) = {} /\ WarehouseLines(e.rows, p[1]) # {} =>
                BalanceOf(Append(h, e), p) = IF StockReports(h, p) # {} THEN {0} ELSE {None}
           /\ WarehouseLines(e.rows, p[1]) = {} => BalanceOf(Append(h, e), p) = BalanceOf(h, p)
           /\ None \in BalanceOf(h, p) <=> StockReports(h, p) = {}
           /\ StockReports(h, p) = {} => BalanceOf(h, p) = {None}
<1> DEFINE n == Len(h)
<1>0. /\ n \in Nat /\ n + 1 # 0 /\ Append(h, e)[n + 1] = e /\ n + 1 \notin 1 .. n
      /\ \A k \in 1 .. n : Append(h, e)[k] = h[k]
  BY Appended
<1>00. e.rows \in Snapshots /\ \A k \in 1 .. n : h[k].rows \in Snapshots
  <2>1. \A k \in 1 .. n : h[k] \in Entries
    BY Appended
  <2> QED
    BY <2>1 DEF Entries
<1>1. CodeReports(h, p[1]) \in SUBSET (1 .. n) /\ StockReports(h, p) \in SUBSET (1 .. n)
  BY ReportsAppended
<1>2. StockLines(e.rows, p) # {} => WarehouseLines(e.rows, p[1]) # {}
  BY <1>00, ListedLines
<1> HIDE DEF n
<1>3. ASSUME WarehouseLines(e.rows, p[1]) # {}
      PROVE  BalanceOf(Append(h, e), p) =
               IF StockLines(e.rows, p) # {} THEN {e.rows[i].quantity : i \in StockLines(e.rows, p)}
               ELSE IF StockReports(h, p) # {} THEN {0} ELSE {None}
  <2>1. LastOf(CodeReports(Append(h, e), p[1])) = n + 1
    <3>1. CodeReports(Append(h, e), p[1]) = CodeReports(h, p[1]) \cup {n + 1}
      BY <1>3, ReportsAppended DEF n
    <3>2. LastOf(CodeReports(h, p[1]) \cup {n + 1}) = n + 1
      BY <1>0, <1>1, LastAppended
    <3> QED
      BY <3>1, <3>2
  <2>2. StockReports(Append(h, e), p) =
          IF StockLines(e.rows, p) # {} THEN StockReports(h, p) \cup {n + 1} ELSE StockReports(h, p)
    BY ReportsAppended DEF n
  <2>3. n + 1 \notin StockReports(h, p)
    BY <1>0, <1>1
  <2> QED
    BY <1>0, <2>1, <2>2, <2>3, ZenonT(30) DEF BalanceOf
<1>4. ASSUME WarehouseLines(e.rows, p[1]) = {}
      PROVE  BalanceOf(Append(h, e), p) = BalanceOf(h, p)
  <2>1. CodeReports(Append(h, e), p[1]) = CodeReports(h, p[1])
    BY <1>4, ReportsAppended
  <2>2. StockReports(Append(h, e), p) = StockReports(h, p)
    BY <1>2, <1>4, ReportsAppended
  <2>3. \A k \in StockReports(h, p) : Append(h, e)[k] = h[k]
    BY <1>0, <1>1
  <2> QED
    BY <2>1, <2>2, <2>3 DEF BalanceOf
<1>5. None \in BalanceOf(h, p) <=> StockReports(h, p) = {}
  <2>1. ASSUME NEW k \in StockReports(h, p), NEW i \in StockLines(h[k].rows, p)
        PROVE  h[k].rows[i].quantity # None
    <3>1. h[k].rows \in Snapshots /\ i \in DOMAIN h[k].rows
      BY <1>00, <1>1 DEF StockLines
    <3> QED
      BY <3>1, LineOf, AbsentAssumption
  <2> QED
    BY <2>1, AbsentAssumption DEF BalanceOf
<1>6. StockReports(h, p) = {} => BalanceOf(h, p) = {None}
  BY DEF BalanceOf
<1> QED
  BY <1>2, <1>3, <1>4, <1>5, <1>6

\* The counters of the reports add up to the stocks there are.  The sums are a
\* function by recursion: that there is one, and that all have this last value,
\* is shown along the history.
IsSum(f, h) == f = [k \in 0 .. Len(h) |-> IF k = 0 THEN 0 ELSE f[k - 1] + h[k].created]

SumsTo(h, total) ==
    /\ \E f : IsSum(f, h)
    /\ \A f : IsSum(f, h) => f[Len(h)] = total

LEMMA CreatedAddsUpIs ==
    ASSUME SumsTo(history, Cardinality(Existing(tables.balances)))
    PROVE  CreatedAddsUp
<1>1. PICK f : f = CHOOSE g : IsSum(g, history)
  OBVIOUS
<1>2. IsSum(f, history)
  BY <1>1 DEF SumsTo
<1>3. f[Len(history)] = Cardinality(Existing(tables.balances))
  BY <1>2 DEF SumsTo
<1> QED
  BY <1>1, <1>3, Zenon DEF CreatedAddsUp, IsSum, Existing

LEMMA SumsInit == SumsTo(<<>>, 0)
<1>1. IsSum([k \in 0 .. Len(<<>>) |-> 0], <<>>)
  BY DEF IsSum
<1>2. ASSUME NEW f, IsSum(f, <<>>) PROVE f[Len(<<>>)] = 0
  BY <1>2 DEF IsSum
<1> QED
  BY <1>1, <1>2 DEF SumsTo

LEMMA SumsAppended ==
    ASSUME NEW h \in Seq(Entries), NEW e \in Entries, NEW total, SumsTo(h, total)
    PROVE  SumsTo(Append(h, e), total + e.created)
<1> DEFINE n == Len(h)
           hh == Append(h, e)
<1>0. /\ n \in Nat /\ Len(hh) = n + 1 /\ hh[n + 1] = e
      /\ \A k \in 1 .. n : hh[k] = h[k]
  BY Appended
<1> HIDE DEF n, hh
<1>1. ASSUME NEW f, IsSum(f, h)
      PROVE  IsSum([k \in 0 .. n + 1 |-> IF k = n + 1 THEN total + e.created ELSE f[k]], hh)
  <2> DEFINE g == [k \in 0 .. n + 1 |-> IF k = n + 1 THEN total + e.created ELSE f[k]]
  <2>1. f[n] = total
    BY <1>1 DEF SumsTo, n
  <2>2. \A k \in 0 .. n : f[k] = IF k = 0 THEN 0 ELSE f[k - 1] + h[k].created
    BY <1>1 DEF IsSum, n
  <2>3. ASSUME NEW k \in 0 .. n + 1 PROVE g[k] = IF k = 0 THEN 0 ELSE g[k - 1] + hh[k].created
    <3>1. CASE k = n + 1
      BY <1>0, <2>1, <3>1
    <3>2. CASE k # n + 1
      <4>1. k \in 0 .. n /\ g[k] = f[k] /\ (k # 0 => k - 1 \in 0 .. n + 1 /\ k - 1 # n + 1)
        BY <1>0, <3>2
      <4>2. k # 0 => g[k - 1] = f[k - 1] /\ hh[k] = h[k]
        BY <1>0, <4>1
      <4> QED
        BY <2>2, <4>1, <4>2
    <3> QED
      BY <3>1, <3>2
  <2>4. g = [k \in 0 .. n + 1 |-> IF k = 0 THEN 0 ELSE g[k - 1] + hh[k].created]
    BY <2>3
  <2> QED
    BY <1>0, <2>4 DEF IsSum
<1>2. ASSUME NEW g, IsSum(g, hh) PROVE g[n + 1] = total + e.created
  <2> DEFINE f == [k \in 0 .. n |-> g[k]]
  <2>1. \A k \in 0 .. n + 1 : g[k] = IF k = 0 THEN 0 ELSE g[k - 1] + hh[k].created
    BY <1>0, <1>2 DEF IsSum
  <2>2. ASSUME NEW k \in 0 .. n PROVE f[k] = IF k = 0 THEN 0 ELSE f[k - 1] + h[k].created
    <3>1. k \in 0 .. n + 1 /\ f[k] = g[k]
      BY <1>0
    <3>2. k # 0 => f[k - 1] = g[k - 1] /\ hh[k] = h[k]
      BY <1>0
    <3> QED
      BY <2>1, <3>1, <3>2
  <2>3. f = [k \in 0 .. n |-> IF k = 0 THEN 0 ELSE f[k - 1] + h[k].created]
    BY <2>2
  <2>4. IsSum(f, h)
    BY <2>3 DEF IsSum, n
  <2>5. f[n] = total
    BY <2>4 DEF SumsTo, n
  <2>6. g[n] = total
    BY <1>0, <2>5
  <2>7. g[n + 1] = g[n] + hh[n + 1].created
    BY <1>0, <2>1
  <2> QED
    BY <1>0, <2>6, <2>7
<1>3. \E f : IsSum(f, hh)
  BY <1>1 DEF SumsTo
<1> QED
  BY <1>0, <1>2, <1>3 DEF SumsTo, hh

HistoryInv ==
    /\ \A p \in Stocks : tables.balances[p] \in BalanceOf(history, p)
    /\ \A c \in Codes : tables.warehouses[c] = CodeName(history, c)
    /\ \A x \in Skus : tables.products[x] = SkuName(history, x)
    /\ SumsTo(history, Cardinality(Existing(tables.balances)))

LEMMA HistoryInit == Init => HistoryInv
<1> SUFFICES ASSUME Init PROVE HistoryInv
  OBVIOUS
<1>1. history = <<>> /\ tables = NoTables
  BY DEF Init
<1>2. /\ \A c : CodeReports(history, c) = {}
      /\ \A x : SkuReports(history, x) = {}
      /\ \A p : StockReports(history, p) = {}
  BY <1>1 DEF CodeReports, SkuReports, StockReports
<1>3. \A p : BalanceOf(history, p) = {None}
  BY <1>2 DEF BalanceOf
<1>4. \A c : CodeName(history, c) = None
  BY <1>2 DEF CodeName, LastOf
<1>5. \A x : SkuName(history, x) = None
  BY <1>2 DEF SkuName, LastOf
<1>6. Existing(tables.balances) = {}
  BY <1>1 DEF NoTables, Existing
<1>7. SumsTo(history, Cardinality(Existing(tables.balances)))
  BY <1>1, <1>6, SumsInit, FS_EmptySet
<1> QED
  BY <1>1, <1>3, <1>4, <1>5, <1>7 DEF HistoryInv, NoTables

\* What is created is what there was not.
LEMMA CreatedAre ==
    ASSUME LedgerInv, NEW s \in Snapshots, NEW line \in Lines(s)
    PROVE  Cardinality(Existing(Outcome(tables, s, line).balances)) =
             Cardinality(Existing(tables.balances)) + Entry(tables, s, line).created
<1> DEFINE old == tables.balances
           new == {p \in Listed(s) : old[p] = None}
<1>1. old \in Balances /\ IsFiniteSet(Existing(old))
  BY DEF LedgerInv, Tables, Balances
<1>2. Entry(tables, s, line).created = Cardinality(new)
  BY <1>1, CountIs, Zenon DEF Entry
<1>3. IsFiniteSet(new)
  BY ListedFinite, FS_Subset
<1>4. Existing(Outcome(tables, s, line).balances) = Existing(old) \cup new
  <2>1. Existing(Outcome(tables, s, line).balances) = Existing(old) \cup Listed(s)
    BY LedgerStep
  <2> QED
    BY <2>1, ListedFinite DEF Existing
<1>5. Existing(old) \cap new = {}
  BY DEF Existing
<1>6. /\ Cardinality(Existing(old) \cup new) =
           Cardinality(Existing(old)) + Cardinality(new) - Cardinality(Existing(old) \cap new)
      /\ Cardinality(Existing(old)) \in Nat /\ Cardinality(new) \in Nat
  BY <1>1, <1>3, FS_Union, FS_CardinalityType
<1>7. Cardinality(Existing(old) \cap new) = 0
  BY <1>5, FS_EmptySet
<1> HIDE DEF old, new
<1>8. Cardinality(Existing(old) \cup new) = Cardinality(Existing(old)) + Cardinality(new)
  BY <1>6, <1>7
<1> QED
  BY <1>2, <1>4, <1>8 DEF old

LEMMA HistoryStep ==
    ASSUME LedgerInv, HistoryInv, NEW s \in Snapshots, NEW line \in Lines(s),
           tables' = Outcome(tables, s, line), history' = Append(history, Entry(tables, s, line))
    PROVE  HistoryInv'
<1> DEFINE e == Entry(tables, s, line)
           hh == Append(history, e)
<1>1. history \in Seq(Entries) /\ e \in Entries /\ e.rows = s
  BY LedgerStep DEF LedgerInv, Entry
<1>2. tables.balances \in Balances
  BY DEF LedgerInv, Tables, Balances
<1>3. history' = hh
  OBVIOUS
<1> HIDE DEF e, hh
<1>4. ASSUME NEW c \in Codes PROVE tables'.warehouses[c] = CodeName(hh, c)
  BY <1>1, NamesAppended DEF HistoryInv, Outcome, WarehouseNames, hh
<1>5. ASSUME NEW x \in Skus PROVE tables'.products[x] = SkuName(hh, x)
  BY <1>1, NamesAppended DEF HistoryInv, Outcome, ProductNames, hh
<1>6. ASSUME NEW p \in Stocks PROVE tables'.balances[p] \in BalanceOf(hh, p)
  <2>0. tables.balances[p] \in BalanceOf(history, p)
    BY DEF HistoryInv
  <2>1. tables'.balances[p] =
          IF p \in Listed(s) THEN s[line[p]].quantity
          ELSE IF WarehouseLines(s, p[1]) # {} /\ tables.balances[p] # None THEN 0
          ELSE tables.balances[p]
    BY DEF Outcome, After, Lines
  <2>2. /\ p \in Listed(s) <=> StockLines(s, p) # {}
        /\ StockLines(s, p) # {} => WarehouseLines(s, p[1]) # {}
    BY ListedLines
  <2>3. CASE p \in Listed(s)
    <3>1. line[p] \in StockLines(s, p)
      BY <2>3 DEF Lines
    <3>2. BalanceOf(hh, p) = {e.rows[i].quantity : i \in StockLines(e.rows, p)}
      BY <1>1, <2>2, <2>3, BalanceAppended DEF hh
    <3>3. BalanceOf(hh, p) = {s[i].quantity : i \in StockLines(s, p)}
      BY <1>1, <3>2, Zenon
    <3> QED
      BY <2>1, <2>3, <3>1, <3>3
  <2>4. CASE p \notin Listed(s) /\ WarehouseLines(s, p[1]) # {}
    <3>1. BalanceOf(hh, p) = IF StockReports(history, p) # {} THEN {0} ELSE {None}
      BY <1>1, <2>2, <2>4, BalanceAppended DEF hh
    <3>2. /\ None \in BalanceOf(history, p) <=> StockReports(history, p) = {}
          /\ StockReports(history, p) = {} => BalanceOf(history, p) = {None}
      BY <1>1, BalanceAppended
    <3> QED
      BY <2>0, <2>1, <2>4, <3>1, <3>2
  <2>5. CASE p \notin Listed(s) /\ WarehouseLines(s, p[1]) = {}
    <3>1. BalanceOf(hh, p) = BalanceOf(history, p)
      BY <1>1, <2>5, BalanceAppended DEF hh
    <3> QED
      BY <2>0, <2>1, <2>5, <3>1
  <2> QED
    BY <2>3, <2>4, <2>5
<1>7. SumsTo(hh, Cardinality(Existing(tables'.balances)))
  BY <1>1, CreatedAre, SumsAppended DEF HistoryInv, hh, e
<1> QED
  BY <1>3, <1>4, <1>5, <1>6, <1>7 DEF HistoryInv, Existing

LEMMA HistoryNext == LedgerInv /\ HistoryInv /\ [Next]_<<tables, history>> => HistoryInv'
<1> SUFFICES ASSUME LedgerInv, HistoryInv, [Next]_<<tables, history>> PROVE HistoryInv'
  OBVIOUS
<1>1. CASE UNCHANGED <<tables, history>>
  BY <1>1 DEF HistoryInv, Existing
<1>2. CASE Next
  BY <1>2, ApplyIs, HistoryStep DEF Next
<1> QED
  BY <1>1, <1>2

LEMMA LedgerIsInvariant == Spec => [](LedgerInv /\ HistoryInv)
<1>1. Init => LedgerInv /\ HistoryInv
  BY LedgerInit, HistoryInit
<1>2. LedgerInv /\ HistoryInv /\ [Next]_<<tables, history>> => LedgerInv' /\ HistoryInv'
  BY LedgerNext, HistoryNext
<1> QED
  BY <1>1, <1>2, PTL DEF Spec

-----------------------------------------------------------------------------
(* The transaction: what its statements see and write                      *)

\* The tables once the names are written, with these balances.
WithNames(t, s, balances) ==
    [ warehouses |-> WarehouseNames(t.warehouses, s),
      products   |-> ProductNames(t.products, s),
      balances   |-> balances ]

\* The balances once the rows are written.
Written(t, s, line) ==
    [p \in Stocks |-> IF p \in Listed(s) THEN s[line[p]].quantity ELSE t.balances[p]]

\* The stocks that a report leaves out of the warehouses it has.
LeftOut(s) == {p \in Stocks : WarehouseLines(s, p[1]) # {} /\ p \notin Listed(s)}

\* The counters as the query counts them, over rows; and those of the ledger,
\* over stocks.
OfRows(t, s) ==
    LET old == t.balances
    IN  [ created |-> Cardinality({i \in DOMAIN s : old[<<s[i].code, s[i].sku>>] = None}),
          updated |-> Cardinality({i \in DOMAIN s :
                                     old[<<s[i].code, s[i].sku>>] \notin {None, s[i].quantity}}),
          zeroed  |-> Cardinality({p \in LeftOut(s) : old[p] \notin {None, 0}}) ]

OfEntry(e) == [created |-> e.created, updated |-> e.updated, zeroed |-> e.zeroed]

Counters == [created : Nat, updated : Nat, zeroed : Nat]

\* What the transaction has done before each of its steps.
StepInv ==
    /\ step \in Steps
    /\ counters \in Counters
    /\ IF step = "idle" THEN rows = <<>> /\ view = NoTables ELSE rows \in Snapshots
    /\ step = "warehouses" => view = tables
    /\ step = "products" =>
         view = [tables EXCEPT !.warehouses = WarehouseNames(tables.warehouses, rows)]
    /\ step \in {"counters", "explicit"} => view = WithNames(tables, rows, tables.balances)
    /\ step = "explicit" => counters = OfRows(tables, rows)
    /\ step \in {"missing", "complete"} =>
         \E line \in Lines(rows) :
            /\ view = IF step = "missing" THEN WithNames(tables, rows, Written(tables, rows, line))
                      ELSE Outcome(tables, rows, line)
            /\ counters = OfEntry(Entry(tables, rows, line))

\* Once the names are written, the joins lose no row.
LEMMA JoinsKeepAll ==
    ASSUME rows \in Snapshots, NEW balances, view = WithNames(tables, rows, balances)
    PROVE  /\ WarehouseJoin = DOMAIN rows /\ StockJoin = DOMAIN rows
           /\ ExplicitPairs = Listed(rows) /\ MissingPairs = LeftOut(rows)
<1>1. ASSUME NEW i \in DOMAIN rows
      PROVE  view.warehouses[rows[i].code] # None /\ view.products[rows[i].sku] # None
  <2>1. /\ WarehouseLines(rows, rows[i].code) # {} /\ ProductLines(rows, rows[i].sku) # {}
        /\ WarehouseLines(rows, rows[i].code) \in SUBSET (1 .. Len(rows))
        /\ ProductLines(rows, rows[i].sku) \in SUBSET (1 .. Len(rows))
    BY ReportLines DEF WarehouseLines, ProductLines
  <2>2. /\ LastLine(WarehouseLines(rows, rows[i].code)) \in DOMAIN rows
        /\ LastLine(ProductLines(rows, rows[i].sku)) \in DOMAIN rows
    BY <2>1, ReportLines, LastLineOf
  <2>3. /\ view.warehouses[rows[i].code] =
             rows[LastLine(WarehouseLines(rows, rows[i].code))].warehouse
        /\ view.products[rows[i].sku] = rows[LastLine(ProductLines(rows, rows[i].sku))].product
    BY <2>1, LineOf DEF WithNames, WarehouseNames, ProductNames
  <2> QED
    BY <2>2, <2>3, LineOf, AbsentAssumption
<1>2. WarehouseJoin = DOMAIN rows /\ StockJoin = DOMAIN rows
  BY <1>1 DEF WarehouseJoin, StockJoin
<1>3. ExplicitPairs = Listed(rows)
  BY <1>2, Zenon DEF ExplicitPairs, StockOf, Listed
<1>4. \A c : c \in AffectedWarehouses <=> WarehouseLines(rows, c) # {}
  BY <1>2 DEF AffectedWarehouses, WarehouseLines
<1>5. MissingPairs = LeftOut(rows)
  BY <1>3, <1>4 DEF MissingPairs, LeftOut
<1> QED
  BY <1>2, <1>3, <1>5

\* As many rows as stocks, if they are the rows chosen for these stocks.
LEMMA OneRowPerStock ==
    ASSUME NEW s \in Snapshots, NEW line \in Lines(s), NEW P \in SUBSET Listed(s),
           NEW I \in SUBSET DOMAIN s,
           \A p \in P : line[p] \in I,
           \A i \in I : <<s[i].code, s[i].sku>> \in P /\ i = line[<<s[i].code, s[i].sku>>]
    PROVE  Cardinality(I) = Cardinality(P)
<1> DEFINE f == [p \in P |-> line[p]]
<1>1. \A p \in P : <<s[line[p]].code, s[line[p]].sku>> = p
  BY DEF Lines, StockLines
<1>2. f \in [P -> I]
  OBVIOUS
<1>3. \A p, q \in P : f[p] = f[q] => p = q
  BY <1>1
<1>4. \A i \in I : \E p \in P : f[p] = i
  OBVIOUS
<1>5. f \in Bijection(P, I)
  BY <1>2, <1>3, <1>4 DEF Bijection, Injection, Surjection, IsInjective
<1>6. IsFiniteSet(P)
  BY ListedFinite, FS_Subset
<1> QED
  BY <1>5, <1>6, FS_Bijection DEF ExistsBijection

LEMMA RowsAreCounted ==
    ASSUME LedgerInv, NEW s \in Snapshots, NEW line \in Lines(s),
           \A i \in DOMAIN s : \/ i = line[<<s[i].code, s[i].sku>>]
                               \/ s[i].quantity = tables.balances[<<s[i].code, s[i].sku>>]
    PROVE  OfRows(tables, s) = OfEntry(Entry(tables, s, line))
<1> DEFINE old == tables.balances
           new == After(old, s, line)
           stock(i) == <<s[i].code, s[i].sku>>
           created == {p \in Listed(s) : old[p] = None}
           updated == {p \in Listed(s) : old[p] # None /\ old[p] # new[p]}
           createdRows == {i \in DOMAIN s : old[stock(i)] = None}
           updatedRows == {i \in DOMAIN s : old[stock(i)] \notin {None, s[i].quantity}}
<1>1. old \in Balances
  BY DEF LedgerInv, Tables, Balances
<1>2. \A p \in Listed(s) : /\ new[p] = s[line[p]].quantity /\ line[p] \in DOMAIN s
                           /\ stock(line[p]) = p
  BY ListedFinite DEF After, Lines, StockLines
<1>3. \A i \in DOMAIN s : stock(i) \in Listed(s) /\ s[i].quantity # None
  BY LineOf, AbsentAssumption DEF Listed
<1>4. \A i \in DOMAIN s : i = line[stock(i)] \/ s[i].quantity = old[stock(i)]
  OBVIOUS
<1> HIDE DEF new, old, stock
<1>5. Cardinality(createdRows) = Cardinality(created)
  <2>1. \A p \in created : line[p] \in createdRows
    BY <1>2
  <2>2. \A i \in createdRows : stock(i) \in created /\ i = line[stock(i)]
    BY <1>3, <1>4
  <2>3. created \in SUBSET Listed(s) /\ createdRows \in SUBSET DOMAIN s
    OBVIOUS
  <2> HIDE DEF created, createdRows
  <2> QED
    BY <2>1, <2>2, <2>3, OneRowPerStock DEF stock
<1>6. Cardinality(updatedRows) = Cardinality(updated)
  <2>1. \A p \in updated : line[p] \in updatedRows
    BY <1>2
  <2>2. \A i \in updatedRows : stock(i) \in updated /\ i = line[stock(i)]
    BY <1>2, <1>3, <1>4
  <2>3. updated \in SUBSET Listed(s) /\ updatedRows \in SUBSET DOMAIN s
    OBVIOUS
  <2> HIDE DEF updated, updatedRows
  <2> QED
    BY <2>1, <2>2, <2>3, OneRowPerStock DEF stock
<1>7. /\ Entry(tables, s, line).created = Cardinality(created)
      /\ Entry(tables, s, line).updated = Cardinality(updated)
      /\ Entry(tables, s, line).zeroed =
           Cardinality({p \in Stocks : /\ p \notin Listed(s) /\ WarehouseLines(s, p[1]) # {}
                                       /\ old[p] \notin {None, 0}})
  <2>1. /\ Entry(tables, s, line).created = Count("created", s, old, new)
        /\ Entry(tables, s, line).updated = Count("updated", s, old, new)
        /\ Entry(tables, s, line).zeroed = Count("zeroed", s, old, new)
    BY Zenon DEF Entry, old, new
  <2> QED
    BY <1>1, <2>1, CountIs, ZenonT(30)
<1>8. {p \in LeftOut(s) : old[p] \notin {None, 0}} =
      {p \in Stocks : p \notin Listed(s) /\ WarehouseLines(s, p[1]) # {} /\ old[p] \notin {None, 0}}
  BY DEF LeftOut
<1>9. OfRows(tables, s) = [ created |-> Cardinality(createdRows),
                    updated |-> Cardinality(updatedRows),
                    zeroed  |-> Cardinality({p \in LeftOut(s) : old[p] \notin {None, 0}}) ]
  BY Zenon DEF OfRows, old, stock
<1> QED
  BY <1>5, <1>6, <1>7, <1>8, <1>9, Zenon DEF OfEntry

LEMMA OfRowsType ==
    ASSUME LedgerInv, NEW s \in Snapshots
    PROVE  OfRows(tables, s) \in Counters
<1>1. \A T \in SUBSET DOMAIN s : Cardinality(T) \in Nat
  BY ReportLines, FS_Subset, FS_CardinalityType
<1>2. \A T \in SUBSET Existing(tables.balances) : Cardinality(T) \in Nat
  BY FS_Subset, FS_CardinalityType DEF LedgerInv
<1>3. {p \in LeftOut(s) : tables.balances[p] \notin {None, 0}} \in SUBSET Existing(tables.balances)
  BY DEF LeftOut, Existing
<1>4. OfRows(tables, s).created \in Nat
  BY <1>1, Zenon DEF OfRows
<1>5. OfRows(tables, s).updated \in Nat
  BY <1>1, Zenon DEF OfRows
<1>6. OfRows(tables, s).zeroed \in Nat
  BY <1>2, <1>3, Zenon DEF OfRows
<1>7. OfRows(tables, s) = [ created |-> OfRows(tables, s).created,
                           updated |-> OfRows(tables, s).updated,
                           zeroed  |-> OfRows(tables, s).zeroed ]
  BY Zenon DEF OfRows
<1> QED
  BY <1>4, <1>5, <1>6, <1>7 DEF Counters

-----------------------------------------------------------------------------
(* The transaction: its invariant, and the refinement                      *)

LEMMA StepInit == ApplyInit => StepInv
BY DEF ApplyInit, StepInv, Steps, NoCounters, Counters

LEMMA BeginStep == StepInv /\ Begin => StepInv'
BY DEF Begin, StepInv, Steps

LEMMA WarehousesStep == StepInv /\ LedgerInv /\ UpsertWarehouses => StepInv'
<1> SUFFICES ASSUME StepInv, LedgerInv, UpsertWarehouses PROVE StepInv'
  OBVIOUS
<1>1. /\ view = tables /\ rows \in Snapshots
      /\ UNCHANGED <<tables, rows, counters>> /\ step' = "products"
  BY DEF StepInv, UpsertWarehouses
<1>2. view' = [tables EXCEPT !.warehouses = WarehouseNames(tables.warehouses, rows)]
  BY <1>1 DEF LedgerInv, Tables, UpsertWarehouses
<1> QED
  BY <1>1, <1>2 DEF StepInv, Steps

LEMMA ProductsStep == StepInv /\ LedgerInv /\ UpsertProducts => StepInv'
<1> SUFFICES ASSUME StepInv, LedgerInv, UpsertProducts PROVE StepInv'
  OBVIOUS
<1>1. /\ view = [tables EXCEPT !.warehouses = WarehouseNames(tables.warehouses, rows)]
      /\ rows \in Snapshots /\ UNCHANGED <<tables, rows, counters>> /\ step' = "counters"
  BY DEF StepInv, UpsertProducts
<1>2. view' = WithNames(tables, rows, tables.balances)
  BY <1>1 DEF LedgerInv, Tables, UpsertProducts, WithNames
<1> QED
  BY <1>1, <1>2 DEF StepInv, Steps

LEMMA CountersStep == StepInv /\ LedgerInv /\ CalculateCounters => StepInv'
<1> SUFFICES ASSUME StepInv, LedgerInv, CalculateCounters PROVE StepInv'
  OBVIOUS
<1>1. /\ view = WithNames(tables, rows, tables.balances) /\ rows \in Snapshots
      /\ UNCHANGED <<tables, rows, view>> /\ step' = "explicit"
  BY DEF StepInv, CalculateCounters
<1>2. StockJoin = DOMAIN rows /\ MissingPairs = LeftOut(rows) /\ view.balances = tables.balances
  BY <1>1, JoinsKeepAll DEF WithNames
<1>3. counters' = OfRows(tables, rows)
  BY <1>2, Zenon DEF CalculateCounters, OfRows, StockOf
<1>4. counters' \in Counters
  BY <1>1, <1>3, OfRowsType
<1> QED
  BY <1>1, <1>3, <1>4 DEF StepInv, Steps

LEMMA ExplicitStep == StepInv /\ LedgerInv /\ ApplyExplicitStocks => StepInv'
<1> SUFFICES ASSUME StepInv, LedgerInv, ApplyExplicitStocks PROVE StepInv'
  OBVIOUS
<1>1. /\ view = WithNames(tables, rows, tables.balances) /\ rows \in Snapshots
      /\ UNCHANGED <<tables, rows, counters>> /\ step' = "missing"
      /\ counters = OfRows(tables, rows) /\ counters \in Counters
  BY DEF StepInv, ApplyExplicitStocks
<1>2. /\ StockJoin = DOMAIN rows /\ ExplicitPairs = Listed(rows)
      /\ view.balances = tables.balances
  BY <1>1, JoinsKeepAll DEF WithNames
<1>3. PICK last \in [ExplicitPairs -> StockJoin] :
        /\ \A i \in StockJoin :
             i = last[StockOf(i)] \/ rows[i].quantity = view.balances[StockOf(i)]
        /\ \A p \in ExplicitPairs : StockOf(last[p]) = p
        /\ view' = [view EXCEPT !.balances =
                      [p \in Stocks |-> IF p \in ExplicitPairs THEN rows[last[p]].quantity
                                        ELSE view.balances[p]]]
  BY DEF ApplyExplicitStocks
<1>4. last \in Lines(rows)
  BY <1>2, <1>3 DEF Lines, StockLines, StockOf
<1>5. view' = WithNames(tables, rows, Written(tables, rows, last))
  BY <1>1, <1>2, <1>3 DEF WithNames, Written
<1>6. counters = OfEntry(Entry(tables, rows, last))
  BY <1>1, <1>2, <1>3, <1>4, RowsAreCounted DEF StockOf
<1> QED
  BY <1>1, <1>4, <1>5, <1>6 DEF StepInv, Steps


LEMMA MissingStep == StepInv /\ LedgerInv /\ ZeroMissingStocks => StepInv'
<1> SUFFICES ASSUME StepInv, LedgerInv, ZeroMissingStocks PROVE StepInv'
  OBVIOUS
<1>1. /\ step = "missing" /\ rows \in Snapshots /\ counters \in Counters
      /\ UNCHANGED <<tables, rows, counters>> /\ step' = "complete"
  BY DEF StepInv, ZeroMissingStocks
<1>2. PICK line \in Lines(rows) :
        /\ view = WithNames(tables, rows, Written(tables, rows, line))
        /\ counters = OfEntry(Entry(tables, rows, line))
  BY <1>1 DEF StepInv
<1>3. MissingPairs = LeftOut(rows) /\ view.balances = Written(tables, rows, line)
  BY <1>1, <1>2, JoinsKeepAll DEF WithNames
<1>4. ASSUME NEW p \in Stocks
      PROVE  (IF p \in LeftOut(rows) /\ Written(tables, rows, line)[p] # None THEN 0
              ELSE Written(tables, rows, line)[p]) = After(tables.balances, rows, line)[p]
  <2>1. DOMAIN line = Listed(rows)
    BY DEF Lines
  <2> QED
    BY <2>1 DEF LeftOut, Written, After
<1>5. view' = [view EXCEPT !.balances =
                 [p \in Stocks |->
                    IF p \in LeftOut(rows) /\ Written(tables, rows, line)[p] # None THEN 0
                    ELSE Written(tables, rows, line)[p]]]
  BY <1>3, Zenon DEF ZeroMissingStocks
<1>6. [p \in Stocks |-> IF p \in LeftOut(rows) /\ Written(tables, rows, line)[p] # None THEN 0
                        ELSE Written(tables, rows, line)[p]] = After(tables.balances, rows, line)
  BY <1>4 DEF After
<1>7. view' = [view EXCEPT !.balances = After(tables.balances, rows, line)]
  BY <1>5, <1>6, Zenon
<1>8. view' = Outcome(tables, rows, line)
  BY <1>2, <1>7 DEF WithNames, Outcome
<1> QED
  BY <1>1, <1>2, <1>8 DEF StepInv, Steps

LEMMA IdleStep == CompleteReport \/ RollBackApply => StepInv'
BY DEF CompleteReport, RollBackApply, StepInv, Steps, NoCounters, Counters

\* The commit is the step of the ledger.
LEMMA CommitIsApply == StepInv /\ CompleteReport => Next
<1> SUFFICES ASSUME StepInv, CompleteReport PROVE Next
  OBVIOUS
<1>1. step = "complete" /\ rows \in Snapshots
  BY DEF StepInv, CompleteReport
<1>2. PICK line \in Lines(rows) :
        view = Outcome(tables, rows, line) /\ counters = OfEntry(Entry(tables, rows, line))
  BY <1>1 DEF StepInv
<1>3. [ rows |-> rows, created |-> counters.created, updated |-> counters.updated,
        zeroed |-> counters.zeroed ] = Entry(tables, rows, line)
  BY <1>2 DEF OfEntry, Entry
<1>4. tables' = Outcome(tables, rows, line) /\ history' = Append(history, Entry(tables, rows, line))
  BY <1>2, <1>3 DEF CompleteReport
<1> QED
  BY <1>1, <1>4, ApplyIs DEF Next

LEMMA LedgerChange ==
    StepInv /\ [ApplyNext]_applyVars => [Next]_<<tables, history>>
<1> SUFFICES ASSUME StepInv, [ApplyNext]_applyVars PROVE Next \/ UNCHANGED <<tables, history>>
  OBVIOUS
<1>1. CASE CompleteReport
  BY <1>1, CommitIsApply
<1>2. CASE ~CompleteReport
  BY <1>2 DEF ApplyNext, applyVars, Begin, UpsertWarehouses, UpsertProducts, CalculateCounters,
              ApplyExplicitStocks, ZeroMissingStocks, RollBackApply
<1> QED
  BY <1>1, <1>2

LEMMA StepNext == StepInv /\ LedgerInv /\ [ApplyNext]_applyVars => StepInv'
<1> SUFFICES ASSUME StepInv, LedgerInv, [ApplyNext]_applyVars PROVE StepInv'
  OBVIOUS
<1>1. CASE UNCHANGED applyVars
  BY <1>1 DEF StepInv, applyVars
<1>2. CASE ApplyNext
  BY <1>2, BeginStep, WarehousesStep, ProductsStep, CountersStep, ExplicitStep, MissingStep,
     IdleStep DEF ApplyNext
<1> QED
  BY <1>1, <1>2

\* What holds in every state, in the middle of a transaction or between two.
LEMMA TransactionIsInvariant == ApplySpec => [](StepInv /\ LedgerInv /\ HistoryInv)
<1>1. ApplyInit => Init
  BY DEF ApplyInit
<1>2. ApplyInit => StepInv /\ LedgerInv /\ HistoryInv
  BY <1>1, StepInit, LedgerInit, HistoryInit
<1>3. StepInv /\ LedgerInv /\ HistoryInv /\ [ApplyNext]_applyVars
        => StepInv' /\ LedgerInv' /\ HistoryInv'
  BY StepNext, LedgerChange, LedgerNext, HistoryNext
<1> QED
  BY <1>2, <1>3, PTL DEF ApplySpec

\* Values every variable keeps, for any reports and any number of them; the view
\* of the transaction is at all times something the tables could be.
THEOREM TypeCorrect == ApplySpec => []TypeOK
<1>1. StepInv /\ LedgerInv => TypeOK
  <2> SUFFICES ASSUME StepInv, LedgerInv PROVE TypeOK
    OBVIOUS
  <2>1. tables \in Tables /\ history \in Seq(Entries) /\ tables.balances \in Balances
    BY DEF LedgerInv, Tables, Balances
  <2>2. step \in Steps /\ counters \in Counters /\ rows \in Snapshots \cup {<<>>}
    BY DEF StepInv
  <2>3. view \in Tables
    <3>1. CASE step = "idle"
      BY <3>1 DEF StepInv, NoTables, Tables
    <3>2. CASE step = "warehouses"
      BY <2>1, <3>2 DEF StepInv
    <3>3. CASE step = "products"
      <4>1. rows \in Snapshots
        BY <3>3 DEF StepInv
      <4>2. WarehouseNames(tables.warehouses, rows) \in [Codes -> Names \cup {None}]
        BY <2>1, <4>1, NamesType DEF Tables
      <4> QED
        BY <2>1, <3>3, <4>2 DEF StepInv, Tables
    <3>4. ASSUME NEW b \in Balances, rows \in Snapshots PROVE WithNames(tables, rows, b) \in Tables
      BY <2>1, <3>4, NamesType DEF WithNames, Tables, Balances
    <3>5. CASE step \in {"counters", "explicit"}
      BY <2>1, <3>4, <3>5 DEF StepInv
    <3>6. CASE step \in {"missing", "complete"}
      <4>1. rows \in Snapshots
        BY <3>6 DEF StepInv
      <4>2. PICK line \in Lines(rows) :
              view = IF step = "missing" THEN WithNames(tables, rows, Written(tables, rows, line))
                     ELSE Outcome(tables, rows, line)
        BY <3>6 DEF StepInv
      <4>3. \A p \in Listed(rows) : rows[line[p]].quantity \in Quantities
        BY <4>1, LineOf DEF Lines
      <4>4. Written(tables, rows, line) \in Balances
        BY <2>1, <4>3 DEF Written, Balances
      <4>5. Outcome(tables, rows, line) \in Tables
        BY <4>1, LedgerStep
      <4> QED
        BY <3>4, <4>1, <4>2, <4>4, <4>5
    <3> QED
      BY <2>2, <3>1, <3>2, <3>3, <3>5, <3>6 DEF Steps
  <2> QED
    BY <2>1, <2>2, <2>3 DEF TypeOK, Entries, Counters
<1> QED
  BY <1>1, TransactionIsInvariant, PTL

\* The five statements and the commit are one step of StockLedger, whatever
\* attempts are rolled back between: readers see all of a report or nothing of
\* it, and the counters of the query, which counts rows of the report, are those
\* of classify_stock_change over all stocks, although a stock may be on several
\* lines (apply_report.py:42-58, 104-142, 234-281).
THEOREM Refinement == ApplySpec => ImplementsLedger
<1>1. ApplyInit => Init
  BY DEF ApplyInit
<1> QED
  BY <1>1, LedgerChange, TransactionIsInvariant, PTL DEF ApplySpec, ImplementsLedger, Spec

\* The balance of a stock is what the last report with its warehouse says, after
\* any number of reports and rolled-back attempts (apply_report.py:284-349).
THEOREM BalancesAreOfLastReport == ApplySpec => []BalancesFollowHistory
<1>1. HistoryInv => BalancesFollowHistory
  BY PropertiesAre DEF HistoryInv
<1> QED
  BY <1>1, TransactionIsInvariant, PTL

\* Names are those of the last line of the last report that has the code
\* (apply_report.py:186-231).
THEOREM NamesAreOfLastLine == ApplySpec => []NamesFollowHistory
<1>1. HistoryInv => NamesFollowHistory
  BY PropertiesAre DEF HistoryInv
<1> QED
  BY <1>1, TransactionIsInvariant, PTL

\* The stocks_created of all reports together are the balances there are
\* (apply_report.py:234-281): no stock is created twice, none is lost.
THEOREM CreatedAreAll == ApplySpec => []CreatedAddsUp
<1>1. HistoryInv => CreatedAddsUp
  BY CreatedAddsUpIs DEF HistoryInv
<1> QED
  BY <1>1, TransactionIsInvariant, PTL

================================================================================
