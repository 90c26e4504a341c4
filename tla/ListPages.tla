------------------------------- MODULE ListPages -------------------------------
(***************************************************************************)
(* Reading the lists of the API page by page while others write: the stock *)
(* tables (app/services/read_api.py, app/api/inventory.py) and the reports *)
(* and their errors (list_reports and list_errors of                       *)
(* app/services/reports.py, app/api/reports.py).  A list request runs two  *)
(* statements, one that counts and one that selects the page, in one READ  *)
(* COMMITTED transaction: each sees what is committed when it runs.  A     *)
(* client walks through the pages and keeps what it saw.                   *)
(*                                                                         *)
(* An apply is one step of StockLedger, which SnapshotApply implements.    *)
(* Registration and the worker are kept to what they commit to the tables  *)
(* of reports and errors; their rules are those of ReportRegistration and  *)
(* ImportPipeline.                                                         *)
(***************************************************************************)
EXTENDS StockLedger, SequencesExt, FiniteSetsExt

CONSTANTS
    CodeRank, SkuRank,  \* the places of codes and skus in the order of the database
    Found,       \* the codes, skus and names that contain the searched text
    Queries,     \* the list requests of the client
    Limits,      \* its page sizes
    MaxApplied,  \* how many reports are applied
    Reports,     \* the ids of reports
    Watched,     \* the report whose errors are read
    Stamps,      \* the values of created_at
    Lines,       \* the line numbers of errors, 0 for NULL
    MaxErrors    \* how many errors are ever inserted

InventoryKinds == {"warehouses", "products", "stocks"}
Kinds          == InventoryKinds \cup {"reports", "errors"}

\* code and sku are exact filters (for stocks, by code or by id), text is the
\* search in code and name, zeros include_zero, status the filter of reports.
AllQueries == [kind : Kinds, code : Codes \cup {None}, sku : Skus \cup {None},
               text : BOOLEAN, zeros : BOOLEAN, status : {"any", "processing"}]

ASSUME ListPagesAssumption ==
    /\ CodeRank \in [Codes -> Nat] /\ \A c, d \in Codes : CodeRank[c] = CodeRank[d] => c = d
    /\ SkuRank \in [Skus -> Nat] /\ \A k, l \in Skus : SkuRank[k] = SkuRank[l] => k = l
    /\ IsFiniteSet(Codes) /\ IsFiniteSet(Skus) /\ IsFiniteSet(Reports)
    /\ Found \subseteq Codes \cup Skus \cup Names
    /\ Queries \subseteq AllQueries
    /\ Limits \subseteq Nat \ {0}
    /\ MaxApplied \in Nat
    /\ Reports \subseteq Nat /\ Watched \in Reports
    /\ Stamps \subseteq Nat
    /\ Lines \subseteq Nat /\ 0 \in Lines
    /\ MaxErrors \in Nat

VARIABLES
    status, stamp,   \* of the reports; "absent" before the INSERT is committed
    errors,          \* the errors of the watched report, [line, id]
    nextId,          \* the next id of an error
    query, limit, offset,  \* the request
    byTotal,         \* whether the client stops at total, or at a page that is not full
    pc,              \* where the client and its request are
    total, page,     \* the response
    before,          \* the rows the request selected when the walk began
    final,           \* whether the watched report had ended then
    collected        \* the rows of all pages so far

inventory == <<tables, history>>
reports   == <<status, stamp, errors, nextId>>
request   == <<query, limit, offset, byTotal>>
client    == <<request, pc, total, page, before, final, collected>>
pagesVars == <<inventory, reports, client>>

Ended == {"completed", "failed"}

-----------------------------------------------------------------------------
(* The queries                                                             *)

Filtered(value, key) == value = None \/ key = value

Searched(key, name) == query.text => key \in Found \/ name \in Found

Warehouses == {c \in Codes : /\ tables.warehouses[c] # None
                             /\ Filtered(query.code, c)
                             /\ Searched(c, tables.warehouses[c])}
Products   == {k \in Skus : /\ tables.products[k] # None
                            /\ Filtered(query.sku, k)
                            /\ Searched(k, tables.products[k])}

\* The inner joins lose no balance: each has its warehouse and its product.
Balances   == {p \in Stocks : /\ tables.balances[p] # None
                              /\ tables.warehouses[p[1]] # None /\ tables.products[p[2]] # None
                              /\ Filtered(query.code, p[1]) /\ Filtered(query.sku, p[2])
                              /\ query.zeros \/ tables.balances[p] # 0}

ReportsWanted == {r \in Reports : IF query.status = "any" THEN status[r] # "absent"
                                  ELSE status[r] = query.status}

\* The rows the request selects.
Selected ==
    CASE query.kind = "warehouses" -> Warehouses
      [] query.kind = "products"   -> Products
      [] query.kind = "stocks"     -> Balances
      [] query.kind = "reports"    -> ReportsWanted
      [] query.kind = "errors"     -> errors

\* ORDER BY code, sku
ByCodes(p, q) == CodeRank[p[1]] < CodeRank[q[1]] \/ (p[1] = q[1] /\ SkuRank[p[2]] < SkuRank[q[2]])

\* Mutant: stocks are ordered by their quantity, which an apply changes.
InStockOrderByQuantity(p, q) ==
    \/ tables.balances[p] = 0 /\ tables.balances[q] # 0
    \/ (tables.balances[p] = 0 <=> tables.balances[q] = 0) /\ ByCodes(p, q)

InStockOrder(p, q) == ByCodes(p, q)

\* ORDER BY created_at DESC, id DESC
Newer(a, b) == stamp[a] > stamp[b] \/ (stamp[a] = stamp[b] /\ a > b)

\* Mutant: errors of one line come in any order, here another on later pages.
EarlierWithoutId(a, b) ==
    a.line < b.line \/ (a.line = b.line /\ IF offset = 0 THEN a.id < b.id ELSE a.id > b.id)

\* ORDER BY line_number NULLS FIRST, id
Earlier(a, b) == a.line < b.line \/ (a.line = b.line /\ a.id < b.id)

\* The order of the query, and the place of a row in it.
Precedes(a, b) ==
    CASE query.kind = "warehouses" -> CodeRank[a] < CodeRank[b]
      [] query.kind = "products"   -> SkuRank[a] < SkuRank[b]
      [] query.kind = "stocks"     -> InStockOrder(a, b)
      [] query.kind = "reports"    -> Newer(a, b)
      [] query.kind = "errors"     -> Earlier(a, b)

Place(row) == Cardinality({r \in Selected : ~Precedes(row, r)})

\* The rows the request selects, in its order.
Selection == [k \in 1 .. Cardinality(Selected) |-> CHOOSE row \in Selected : Place(row) = k]

PageOf == SubSeq(Selection, offset + 1, Min({offset + limit, Len(Selection)}))

-----------------------------------------------------------------------------
(* What others commit meanwhile.  As a bound, only the tables that the     *)
(* request reads change.                                                   *)

ReadsInventory == query.kind \in InventoryKinds
MayAppear      == CASE query.kind = "reports" -> Reports
                    [] query.kind = "errors"  -> {Watched}
                    [] OTHER                  -> {}
ErrorBound     == IF query.kind = "errors" THEN MaxErrors ELSE 0

ApplyReport ==
    /\ ReadsInventory
    /\ Len(history) < MaxApplied
    /\ Next
    /\ UNCHANGED <<reports, client>>

\* created_at is the start of the transaction: a report that is committed late
\* may be older than those already there.
CommitReport(r) ==
    /\ r \in MayAppear
    /\ status[r] = "absent"
    /\ status' = [status EXCEPT ![r] = "pending"]
    /\ \E s \in Stamps : stamp' = [stamp EXCEPT ![r] = s]
    /\ UNCHANGED <<inventory, errors, nextId, client>>

\* A claim, also of a report whose worker died: its errors are deleted.
Claim(r) ==
    /\ status[r] \in {"pending", "processing"}
    /\ status' = [status EXCEPT ![r] = "processing"]
    /\ errors' = IF r = Watched THEN {} ELSE errors
    /\ status[r] = "pending" \/ errors' # errors
    /\ UNCHANGED <<inventory, stamp, nextId, client>>

\* No worker looks at the status before it inserts errors: one that has lost
\* the lock, or that took a lost acknowledgement for a failure, also inserts
\* into a report that has ended.
Claimed(r) == status[r] \notin {"absent", "pending"}

\* A batch of errors: ids are given in the order of insertion.
InsertErrors ==
    /\ Claimed(Watched)
    /\ \E batch \in [1 .. 1 -> Lines] \cup [1 .. 2 -> Lines] :
           /\ nextId + Len(batch) <= ErrorBound + 1
           /\ errors' = errors \cup {[line |-> batch[i], id |-> nextId + i - 1] : i \in DOMAIN batch}
           /\ nextId' = nextId + Len(batch)
    /\ UNCHANGED <<inventory, status, stamp, client>>

\* The end of a report, by its own errors or applied.
EndReport(r) ==
    /\ status[r] = "processing"
    /\ \E s \in Ended : status' = [status EXCEPT ![r] = s]
    /\ UNCHANGED <<inventory, stamp, errors, nextId, client>>

\* A processing or apply error is inserted whatever the status is; the update in
\* the same transaction only changes a report that is processing.
RecordFailure ==
    /\ Claimed(Watched)
    /\ nextId <= ErrorBound
    /\ errors' = errors \cup {[line |-> 0, id |-> nextId]}
    /\ nextId' = nextId + 1
    /\ status' = [status EXCEPT ![Watched] = IF @ = "processing" THEN "failed" ELSE @]
    /\ UNCHANGED <<inventory, stamp, client>>

-----------------------------------------------------------------------------
(* The requests                                                            *)

PagesInit ==
    /\ Init
    /\ status = [r \in Reports |-> "absent"]
    /\ stamp = [r \in Reports |-> 0]
    /\ errors = {} /\ nextId = 1
    /\ query \in Queries /\ limit \in Limits /\ offset = 0 /\ byTotal \in BOOLEAN
    /\ pc = "client"
    /\ total = 0 /\ page = <<>>
    /\ before = {} /\ final = FALSE /\ collected = <<>>

\* Mutant: list_reports counts first.
StatementsCountFirst == <<"count", "items">>

\* list_reports selects the items and then counts, the other lists count first.
Statements == IF query.kind = "reports" THEN <<"items", "count">> ELSE <<"count", "items">>

\* list_errors refuses a report that is not there.
BeginWalk ==
    /\ pc = "client"
    /\ query.kind = "errors" => status[Watched] # "absent"
    /\ before' = Selected
    /\ final' = (query.kind = "errors" /\ status[Watched] \in Ended)
    /\ pc' = "first"
    /\ UNCHANGED <<inventory, reports, request, total, page, collected>>

CountTotal(statement) ==
    /\ statement = "count"
    /\ total' = Cardinality(Selected)
    /\ UNCHANGED <<page, collected>>

SelectItems(statement) ==
    /\ statement = "items"
    /\ page' = PageOf
    /\ collected' = collected \o page'
    /\ UNCHANGED total

FirstStatement ==
    /\ pc = "first"
    /\ CountTotal(Statements[1]) \/ SelectItems(Statements[1])
    /\ pc' = "second"
    /\ UNCHANGED <<inventory, reports, request, before, final>>

\* The response goes to the client.
SecondStatement ==
    /\ pc = "second"
    /\ CountTotal(Statements[2]) \/ SelectItems(Statements[2])
    /\ pc' = "answered"
    /\ UNCHANGED <<inventory, reports, request, before, final>>

LastPage == IF byTotal THEN offset + limit >= total ELSE Len(page) < limit

\* The client asks for the page after, or has seen the last.
AskNextPage ==
    /\ pc = "answered"
    /\ ~LastPage
    /\ offset' = offset + limit
    /\ pc' = "first"
    /\ UNCHANGED <<inventory, reports, query, limit, byTotal, total, page, before, final, collected>>

EndWalk ==
    /\ pc = "answered"
    /\ LastPage
    /\ pc' = "done"
    /\ UNCHANGED <<inventory, reports, request, total, page, before, final, collected>>

Finished == pc = "done" /\ UNCHANGED pagesVars

PagesNext ==
    \/ ApplyReport \/ InsertErrors \/ RecordFailure
    \/ \E r \in Reports : CommitReport(r) \/ Claim(r) \/ EndReport(r)
    \/ BeginWalk \/ FirstStatement \/ SecondStatement \/ AskNextPage \/ EndWalk
    \/ Finished

PagesSpec == PagesInit /\ [][PagesNext]_pagesVars

-----------------------------------------------------------------------------
\* get_warehouse or get_product for a row from a page finds it: else it is
\* WarehouseNotFoundError or ProductNotFoundError.
Exists(key) ==
    CASE query.kind = "warehouses" -> tables.warehouses[key] # None
      [] query.kind = "products"   -> tables.products[key] # None
      [] query.kind = "stocks"     -> /\ tables.warehouses[key[1]] # None
                                      /\ tables.products[key[2]] # None
      [] OTHER                     -> TRUE

\* Requests whose rows stay selected once they are: what others change, names,
\* quantities and statuses, is not part of the filter, and the errors of a
\* report that has ended are no longer deleted.
IsLasting ==
    CASE query.kind = "stocks"  -> query.zeros
      [] query.kind = "reports" -> query.status = "any"
      [] query.kind = "errors"  -> final
      [] OTHER                  -> ~query.text

\* A page has at most limit rows; a stock that is listed has its warehouse and
\* its product, also when an apply runs between two statements.
TypeOK ==
    /\ status \in [Reports -> {"absent", "pending", "processing"} \cup Ended]
    /\ stamp \in [Reports -> Stamps \cup {0}]
    /\ nextId \in 1 .. MaxErrors + 1
    /\ \A e \in errors : e.line \in Lines /\ e.id \in 1 .. nextId - 1
    /\ limit \in Limits /\ offset \in Nat /\ total \in Nat
    /\ pc \in {"client", "first", "second", "answered", "done"}
    /\ Len(page) <= limit
    /\ \A p \in Stocks : tables.balances[p] # None =>
           tables.warehouses[p[1]] # None /\ tables.products[p[2]] # None

\* A client that walks through the pages of a lasting request sees every row
\* that was there when it began, although others commit between its requests
\* and inside them, and what it saw it can still read by its id.  Stock rows
\* are sorted by what never changes, so that a row can only move to a later
\* page, which a client that turns pages until one is not full reaches; the
\* client that lists reports may also stop at total.  So do the errors of a
\* report that had ended, which late workers only add to (list_warehouses,
\* list_products, list_stocks, list_reports, list_errors, get_warehouse,
\* get_product).
WalkSeesAll ==
    /\ pc = "done" /\ IsLasting /\ (byTotal => query.kind = "reports")
           => before \subseteq ToSet(collected)
    /\ \A key \in ToSet(collected) : Exists(key)

\* The total and the page of one response fit, although two statements made
\* them: the total of the reports never says fewer than the page shows, as they
\* are counted last; and no page of the other lasting lists is empty below
\* total, as they are counted first.  No row is deleted in between.
PageFitsTotal ==
    pc = "answered" /\ IsLasting =>
        IF query.kind = "reports"
        THEN page # <<>> => offset + Len(page) <= total
        ELSE offset < total => page # <<>>

\* The pages of the errors of a report that had ended when the walk began
\* repeat an error at most once for each that a late worker has added since, and
\* if none was added show each once, in the order of lines, with the right total
\* on each page (list_errors; the inserts of report_processing.py:110-118,
\* 279-293 and 459-526 do not look at the status).
ErrorsOfEndedReport ==
    final =>
        /\ Len(collected) <= Cardinality(ToSet(collected)) + Cardinality(errors \ before)
        /\ errors = before =>
               /\ pc = "answered" => total = Cardinality(errors)
               /\ pc = "done" =>
                      /\ Len(collected) = Cardinality(errors) /\ ToSet(collected) = errors
                      /\ \A i, j \in DOMAIN collected :
                             i < j => LET a == collected[i]  b == collected[j] IN
                                      a.line < b.line \/ (a.line = b.line /\ a.id < b.id)
=============================================================================
