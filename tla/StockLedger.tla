------------------------------ MODULE StockLedger ------------------------------
(***************************************************************************)
(* What applying a report means for the stock tables, as one step: a       *)
(* warehouse that occurs in the report afterwards has the quantities of    *)
(* the report and zero for every other product it ever had; warehouses     *)
(* that do not occur keep theirs.                                          *)
(***************************************************************************)
EXTENDS Naturals, Sequences, FiniteSets

CONSTANTS
    Codes,      \* warehouse codes
    Skus,       \* product codes
    Names,      \* names of warehouses and products
    Quantities, \* quantities of a row
    Snapshots,  \* the validated reports, sequences of rows
    None        \* no such row in a table

Row == [code : Codes, warehouse : Names, sku : Skus, product : Names, quantity : Quantities]
Stocks == Codes \X Skus

ASSUME SnapshotsAssumption == Snapshots \subseteq Seq(Row) \ {<<>>}
ASSUME QuantitiesAssumption == Quantities \subseteq Nat
ASSUME AbsentAssumption == None \notin Names /\ None \notin Nat

VARIABLES
    tables,   \* [warehouses, products, balances], what readers see
    history   \* the applied reports with their counters, in order

NoTables ==
    [ warehouses |-> [c \in Codes |-> None],
      products   |-> [k \in Skus |-> None],
      balances   |-> [p \in Stocks |-> None] ]

-----------------------------------------------------------------------------
\* The lines of a report that name a warehouse, a product, or both.
WarehouseLines(s, c) == {i \in DOMAIN s : s[i].code = c}
ProductLines(s, k)   == {i \in DOMAIN s : s[i].sku = k}
StockLines(s, p)     == {i \in DOMAIN s : <<s[i].code, s[i].sku>> = p}

LastLine(L) == CHOOSE i \in L : \A j \in L : j <= i

\* Mutant: missing products are not created.
ProductNamesKnown(names, s) ==
    [k \in Skus |-> IF ProductLines(s, k) = {} \/ names[k] = None THEN names[k]
                    ELSE s[LastLine(ProductLines(s, k))].product]

\* A code keeps the name of its last line in the report.
WarehouseNames(names, s) ==
    [c \in Codes |-> IF WarehouseLines(s, c) = {} THEN names[c]
                     ELSE s[LastLine(WarehouseLines(s, c))].warehouse]
ProductNames(names, s) ==
    [k \in Skus |-> IF ProductLines(s, k) = {} THEN names[k]
                    ELSE s[LastLine(ProductLines(s, k))].product]

\* The quantities afterwards, if each stock of the report has the quantity of
\* the line chosen for it: of its only line, unless it is named on several.
After(balances, s, line) ==
    [p \in Stocks |-> IF p \in DOMAIN line THEN s[line[p]].quantity
                      ELSE IF WarehouseLines(s, p[1]) # {} /\ balances[p] # None THEN 0
                      ELSE balances[p]]

Listed(s) == {<<s[i].code, s[i].sku>> : i \in DOMAIN s}

\* classify_stock_change, for a stock that had quantity old and now has new.
Classify(old, new, listed, represented) ==
    IF listed
    THEN IF old = None THEN "created" ELSE IF old # new THEN "updated" ELSE "same"
    ELSE IF represented /\ old \notin {None, 0} THEN "zeroed" ELSE "same"

Count(kind, s, old, new) ==
    Cardinality({p \in Stocks : kind = Classify(old[p], new[p], StockLines(s, p) # {},
                                                WarehouseLines(s, p[1]) # {})})

-----------------------------------------------------------------------------
Init == tables = NoTables /\ history = <<>>

\* Everything but a choice between several lines of one stock is determined.
Apply(s) ==
    \E line \in [Listed(s) -> DOMAIN s] :
        /\ \A p \in Listed(s) : line[p] \in StockLines(s, p)
        /\ LET old == tables.balances
               new == After(old, s, line)
           IN
           /\ history' = Append(history, [ rows    |-> s,
                                           created |-> Count("created", s, old, new),
                                           updated |-> Count("updated", s, old, new),
                                           zeroed  |-> Count("zeroed", s, old, new) ])
           /\ tables' = [ warehouses |-> WarehouseNames(tables.warehouses, s),
                          products   |-> ProductNames(tables.products, s),
                          balances   |-> new ]

Next == \E s \in Snapshots : Apply(s)

Spec == Init /\ [][Next]_<<tables, history>>
=============================================================================
