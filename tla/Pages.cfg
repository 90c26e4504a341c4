SPECIFICATION PagesSpec
CONSTANTS
    A = A
    B = B
    x = x
    y = y
    n = n
    m = m
    None = None
    Codes = {A, B}
    Skus = {x, y}
    Names = {n, m}
    Quantities = {0, 1}
    Snapshots <- Applied
    CodeRank <- RankOfCodes
    SkuRank <- RankOfSkus
    Found <- WithM
    Queries <- ListQueries
    Limits = {1, 2}
    MaxApplied = 3
    Reports = {1, 2, 3}
    Watched = 2
    Stamps = {1, 2}
    Lines = {0, 2}
    MaxErrors = 4
INVARIANTS
    TypeOK
    WalkSeesAll
    PageFitsTotal
    ErrorsOfEndedReport
