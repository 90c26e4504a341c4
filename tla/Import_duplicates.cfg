SPECIFICATION Spec
CONSTANTS
    Reports = {r1, r2}
    Workers = {w1, w2, w3}
    None = None
    p1 = p1
    p2 = p2
    p3 = p3
    Pairs = {p1, p2, p3}
    Bad = Bad
    Malformed = Malformed
    Files <- PairFiles
    BatchSize = 2
    MaxFaults <- TwoLosses
SYMMETRY Symmetry
INVARIANTS
    DuplicatesNeverApplied
