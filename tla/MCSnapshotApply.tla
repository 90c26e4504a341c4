---------------------------- MODULE MCSnapshotApply ----------------------------
(* SnapshotApply on two warehouses and two products. *)
EXTENDS SnapshotApply

CONSTANTS A, B, x, y, n, m

Line(c, k, q) == [code |-> c, warehouse |-> n, sku |-> k, product |-> n, quantity |-> q]
Named(c, cn, k, kn, q) == [code |-> c, warehouse |-> cn, sku |-> k, product |-> kn, quantity |-> q]

\* Single stocks, several warehouses, changing names, stocks named twice.
Reports ==
    { <<Line(A, x, 1)>>, <<Line(A, x, 2)>>, <<Line(A, y, 0)>>, <<Line(B, x, 1)>>,
      <<Line(A, x, 1), Line(A, y, 2)>>,
      <<Line(B, y, 2), Line(A, x, 0)>>,
      <<Line(A, x, 1), Line(B, x, 1), Line(A, y, 1), Line(B, y, 0)>>,
      <<Named(A, m, x, n, 1), Named(A, n, y, m, 1)>>,
      <<Named(A, n, x, m, 1), Named(B, m, x, n, 2)>>,
      <<Named(B, m, y, m, 1), Named(B, n, x, m, 1)>>,
      <<Line(A, x, 1), Line(A, x, 2)>>,
      <<Line(A, x, 1), Line(A, x, 1), Line(B, y, 2)>> }
=============================================================================
