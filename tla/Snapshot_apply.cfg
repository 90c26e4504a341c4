SPECIFICATION ApplySpec
CONSTANTS
    A = A
    B = B
    x = x
    y = y
    n = n
    m = m
    None = None
    Codes = {A, B}
    Skus = {x, y}
    Names = {n, m}
    Quantities = {0, 1, 2}
    Snapshots <- Reports
    MaxApplied = 3
INVARIANTS
    TypeOK
    BalancesFollowHistory
    NamesFollowHistory
    CreatedAddsUp
PROPERTIES
    ImplementsLedger

CHECK_DEADLOCK FALSE
