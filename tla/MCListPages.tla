------------------------------ MODULE MCListPages ------------------------------
(* ListPages on two warehouses, two products, three reports, four errors. *)
EXTENDS ListPages

CONSTANTS A, B, x, y, n, m

Line(c, k, q) == [code |-> c, warehouse |-> n, sku |-> k, product |-> n, quantity |-> q]

\* A report of one stock each, of one warehouse, and renaming ones.
Applied ==
    { <<Line(A, x, 1)>>, <<Line(B, y, 1)>>, <<Line(A, y, 0)>>, <<Line(B, x, 0)>>,
      <<Line(A, x, 0), Line(A, y, 1)>>,
      <<Line(B, x, 1), Line(B, y, 1)>>,
      <<[Line(A, x, 1) EXCEPT !.warehouse = m, !.product = m]>>,
      <<[Line(B, y, 0) EXCEPT !.warehouse = m], Line(A, x, 1)>> }

RankOfCodes == A :> 1 @@ B :> 2
RankOfSkus  == x :> 1 @@ y :> 2

All(kind) == [kind |-> kind, code |-> None, sku |-> None, text |-> FALSE, zeros |-> TRUE,
              status |-> "any"]

ListQueries ==
    {All(k) : k \in Kinds} \cup
    { [All("warehouses") EXCEPT !.text = TRUE], [All("warehouses") EXCEPT !.code = B],
      [All("products") EXCEPT !.text = TRUE], [All("products") EXCEPT !.sku = y],
      [All("stocks") EXCEPT !.zeros = FALSE], [All("stocks") EXCEPT !.code = B],
      [All("stocks") EXCEPT !.sku = y],
      [All("reports") EXCEPT !.status = "processing"] }

WithM == {m, B}
=============================================================================
