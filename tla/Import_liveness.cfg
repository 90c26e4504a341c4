SPECIFICATION FairSpec
CONSTANTS
    Reports = {r1, r2}
    Workers = {w1, w2}
    None = None
    p1 = p1
    p2 = p2
    p3 = p3
    Pairs = {p1, p2, p3}
    Bad = Bad
    Malformed = Malformed
    Files <- TinyFiles
    BatchSize = 2
    MaxFaults <- LivenessFaults
PROPERTIES
    EveryReportEnds
