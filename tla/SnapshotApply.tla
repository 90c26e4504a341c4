----------------------------- MODULE SnapshotApply -----------------------------
(***************************************************************************)
(* The transaction that applies a validated report                         *)
(* (app/services/apply_report.py): five SQL statements over the staging    *)
(* rows of the report, each of which sees what the ones before it wrote,   *)
(* and a commit that shows all of it to readers.  The rows of the staging  *)
(* table do not change meanwhile: the transaction holds the row lock of    *)
(* the report.                                                             *)
(***************************************************************************)
EXTENDS StockLedger

CONSTANT MaxApplied  \* how many reports are applied

ASSUME MaxAppliedAssumption == MaxApplied \in Nat

VARIABLES
    step,      \* the statement the transaction executes next, or "idle"
    rows,      \* the staging rows of the report it applies
    view,      \* the tables as the transaction sees them
    counters   \* stocks_created, stocks_updated, stocks_zeroed

transaction == <<step, rows, view, counters>>
applyVars   == <<tables, history, step, rows, view, counters>>

Steps == {"idle", "warehouses", "products", "counters", "explicit", "missing", "complete"}

NoCounters == [created |-> 0, updated |-> 0, zeroed |-> 0]

ApplyInit ==
    /\ Init
    /\ step = "idle"
    /\ rows = <<>>
    /\ view = NoTables
    /\ counters = NoCounters

-----------------------------------------------------------------------------
\* The joins of the statements: rows of warehouses, and of products, that the
\* transaction sees.
WarehouseJoin == {i \in DOMAIN rows : view.warehouses[rows[i].code] # None}
StockJoin     == {i \in WarehouseJoin : view.products[rows[i].sku] # None}

StockOf(i) == <<rows[i].code, rows[i].sku>>

AffectedWarehouses == {rows[i].code : i \in WarehouseJoin}
ExplicitPairs      == {StockOf(i) : i \in StockJoin}

MissingPairs == {p \in Stocks : p[1] \in AffectedWarehouses /\ p \notin ExplicitPairs}

-----------------------------------------------------------------------------
Begin ==
    /\ step = "idle"
    /\ Len(history) < MaxApplied
    /\ \E s \in Snapshots : rows' = s
    /\ step' = "warehouses"
    /\ view' = tables
    /\ UNCHANGED <<tables, history, counters>>

\* Mutant: the statement runs in a transaction of its own.
UpsertWarehousesAtOnce ==
    /\ step = "warehouses"
    /\ view' = [view EXCEPT !.warehouses = WarehouseNames(@, rows)]
    /\ tables' = [tables EXCEPT !.warehouses = WarehouseNames(@, rows)]
    /\ step' = "products"
    /\ UNCHANGED <<history, rows, counters>>

\* Mutant: DISTINCT ON without DESC takes the first line of a code.
UpsertWarehousesFirstLine ==
    /\ step = "warehouses"
    /\ view' = [view EXCEPT !.warehouses =
                  [c \in Codes |->
                     IF WarehouseLines(rows, c) = {} THEN @[c]
                     ELSE rows[CHOOSE i \in WarehouseLines(rows, c) :
                                 \A j \in WarehouseLines(rows, c) : i <= j].warehouse]]
    /\ step' = "products"
    /\ UNCHANGED <<tables, history, rows, counters>>

\* DISTINCT ON (code) ... ORDER BY code, line_number DESC, upserted.
UpsertWarehouses ==
    /\ step = "warehouses"
    /\ view' = [view EXCEPT !.warehouses = WarehouseNames(@, rows)]
    /\ step' = "products"
    /\ UNCHANGED <<tables, history, rows, counters>>

UpsertProducts ==
    /\ step = "products"
    /\ view' = [view EXCEPT !.products = ProductNames(@, rows)]
    /\ step' = "counters"
    /\ UNCHANGED <<tables, history, rows, counters>>

\* Mutant: an inner join loses the rows without a balance.
CalculateCountersInnerJoin ==
    /\ step = "counters"
    /\ counters' =
         [ created |-> 0,
           updated |-> Cardinality({i \in StockJoin : view.balances[StockOf(i)] \notin {None, rows[i].quantity}}),
           zeroed  |-> Cardinality({p \in MissingPairs : view.balances[p] \notin {None, 0}}) ]
    /\ step' = "explicit"
    /\ UNCHANGED <<tables, history, rows, view>>

\* One query, before any balance changes.
CalculateCounters ==
    /\ step = "counters"
    /\ counters' =
         [ created |-> Cardinality({i \in StockJoin : view.balances[StockOf(i)] = None}),
           updated |-> Cardinality({i \in StockJoin : view.balances[StockOf(i)] \notin {None, rows[i].quantity}}),
           zeroed  |-> Cardinality({p \in MissingPairs : view.balances[p] \notin {None, 0}}) ]
    /\ step' = "explicit"
    /\ UNCHANGED <<tables, history, rows, view>>

\* Mutant: the quantity of the row is added to the balance.
ApplyExplicitStocksAdding ==
    /\ step = "explicit"
    /\ \E last \in [ExplicitPairs -> StockJoin] :
         /\ \A p \in ExplicitPairs : StockOf(last[p]) = p
         /\ view' = [view EXCEPT !.balances =
                       [p \in Stocks |-> IF p \notin ExplicitPairs THEN @[p]
                                         ELSE rows[last[p]].quantity + IF @[p] = None THEN 0 ELSE @[p]]]
    /\ step' = "missing"
    /\ UNCHANGED <<tables, history, rows, counters>>

\* INSERT ... ON CONFLICT DO UPDATE, row after row in an order that SQL does not
\* fix: last[p] is the last row of a stock.  A row that the statement itself has
\* written cannot be affected again, so the rows before it leave the balance
\* alone: it exists and has their quantity.
ApplyExplicitStocks ==
    /\ step = "explicit"
    /\ \E last \in [ExplicitPairs -> StockJoin] :
         /\ \A i \in StockJoin :
              i = last[StockOf(i)] \/ rows[i].quantity = view.balances[StockOf(i)]
         /\ \A p \in ExplicitPairs : StockOf(last[p]) = p
         /\ view' = [view EXCEPT !.balances =
                       [p \in Stocks |-> IF p \in ExplicitPairs THEN rows[last[p]].quantity ELSE @[p]]]
    /\ step' = "missing"
    /\ UNCHANGED <<tables, history, rows, counters>>

\* Mutant: the balances of every warehouse are zeroed.
ZeroAllOtherStocks ==
    /\ step = "missing"
    /\ view' = [view EXCEPT !.balances =
                  [p \in Stocks |-> IF p \notin ExplicitPairs /\ @[p] # None THEN 0 ELSE @[p]]]
    /\ step' = "complete"
    /\ UNCHANGED <<tables, history, rows, counters>>

ZeroMissingStocks ==
    /\ step = "missing"
    /\ view' = [view EXCEPT !.balances =
                  [p \in Stocks |-> IF p \in MissingPairs /\ @[p] # None THEN 0 ELSE @[p]]]
    /\ step' = "complete"
    /\ UNCHANGED <<tables, history, rows, counters>>

\* The report gets its counters and its status, and everything is committed.
CompleteReport ==
    /\ step = "complete"
    /\ tables' = view
    /\ history' = Append(history, [ rows    |-> rows,
                                    created |-> counters.created,
                                    updated |-> counters.updated,
                                    zeroed  |-> counters.zeroed ])
    /\ step' = "idle"
    /\ rows' = <<>>
    /\ view' = NoTables
    /\ counters' = NoCounters

\* An exception at any point: the lock is lost, a statement fails, or the hook
\* of a test raises.
RollBackApply ==
    /\ step # "idle"
    /\ step' = "idle"
    /\ rows' = <<>>
    /\ view' = NoTables
    /\ counters' = NoCounters
    /\ UNCHANGED <<tables, history>>

ApplyNext ==
    \/ Begin
    \/ UpsertWarehouses \/ UpsertProducts \/ CalculateCounters
    \/ ApplyExplicitStocks \/ ZeroMissingStocks \/ CompleteReport
    \/ RollBackApply

ApplySpec == ApplyInit /\ [][ApplyNext]_applyVars

-----------------------------------------------------------------------------
Tables ==
    [ warehouses : [Codes -> Names \cup {None}],
      products   : [Skus -> Names \cup {None}],
      balances   : [Stocks -> Quantities \cup {0, None}] ]

\* Values every variable keeps; the one type invariant of this module.
TypeOK ==
    /\ tables \in Tables
    /\ history \in Seq([rows : Snapshots, created : Nat, updated : Nat, zeroed : Nat])
    /\ step \in Steps
    /\ rows \in Snapshots \cup {<<>>}
    /\ view \in Tables
    /\ counters \in [created : Nat, updated : Nat, zeroed : Nat]

\* The last applied report that has a line in the given set of lines.
LastReport(Lines(_)) ==
    LET reports == {k \in DOMAIN history : Lines(history[k].rows) # {}}
    IN  IF reports = {} THEN 0 ELSE LastLine(reports)

\* After any sequence of reports, rolled-back attempts among them, the balance of
\* a stock is what the last report that has its warehouse says: the quantity of
\* the stock there, or zero if that report leaves it out and an earlier one had
\* it; a stock that no report ever had has no balance
\* (apply_report.py:284-349).
BalancesFollowHistory ==
    \A p \in Stocks :
        LET k == LastReport(LAMBDA s : WarehouseLines(s, p[1]))
            listed == {j \in DOMAIN history : StockLines(history[j].rows, p) # {}}
        IN  tables.balances[p] \in
              IF k \in listed
              THEN {history[k].rows[i].quantity : i \in StockLines(history[k].rows, p)}
              ELSE IF listed # {} THEN {0} ELSE {None}

\* Names are those of the last line of the last report that has the code
\* (apply_report.py:186-231).
NamesFollowHistory ==
    /\ \A c \in Codes :
         LET k == LastReport(LAMBDA s : WarehouseLines(s, c))
         IN  tables.warehouses[c] =
               IF k = 0 THEN None
               ELSE history[k].rows[LastLine(WarehouseLines(history[k].rows, c))].warehouse
    /\ \A x \in Skus :
         LET k == LastReport(LAMBDA s : ProductLines(s, x))
         IN  tables.products[x] =
               IF k = 0 THEN None
               ELSE history[k].rows[LastLine(ProductLines(history[k].rows, x))].product

\* Balances are never deleted, so the stocks_created of all reports together are
\* the balances there are, also when a report names a stock twice
\* (apply_report.py:234-281).
CreatedAddsUp ==
    LET created[k \in 0 .. Len(history)] ==
            IF k = 0 THEN 0 ELSE created[k - 1] + history[k].created
    IN  created[Len(history)] = Cardinality({p \in Stocks : tables.balances[p] # None})

\* The five statements together are the one step of StockLedger: readers see
\* all of a report or nothing of it, and its counters are those of
\* classify_stock_change over all stocks (apply_report.py:42-58, 104-142).
ImplementsLedger == Spec
=============================================================================
