--------------------------- MODULE MCImportPipeline ---------------------------
(* ImportPipeline on small instances. *)
EXTENDS ImportPipeline, TLC

CONSTANTS p1, p2, p3

\* One file of each kind: valid; with a duplicate, a bad record, a malformed
\* record; without data.  With BatchSize = 2 the longer ones need two batches.
PairFiles  == {<<p1>>, <<p1, p1>>}
OverlapFiles == {<<p1, p2>>, <<p1, p1>>, <<p1, Malformed>>}
TinyFiles  == {<<p1>>, <<Bad>>}
LongFiles  == {<<p1, p2, p3>>, <<p1, p2, p1>>, <<Bad, p1, Bad>>,
               <<p1, Malformed, p1>>, <<Bad, p1, p1, Malformed, p1>>, <<>>}

Upto(n, kinds) == [k \in FaultKinds |-> IF k \in kinds THEN n ELSE 0]

OneFaultNoLoss == Upto(1, FaultKinds \ {"lockloss"})
TwoLosses      == Upto(2, {"lockloss"})
LivenessFaults == Upto(1, {"lockloss", "crash"})

Symmetry == Permutations(Reports) \cup Permutations(Workers)
=============================================================================
