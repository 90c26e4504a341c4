SPECIFICATION FairSpec
CONSTANTS
    Requests = {q1, q2}
    None = None
    Sizes <- MCSizes
    MaxBytes = 4
    PartSize = 2
INVARIANTS
    TypeOK
    AcceptedIsComplete
    RegisteredHasOriginal
    LimitIsExact
    NothingLeftBehind
PROPERTIES
    EveryRequestEnds
CHECK_DEADLOCK FALSE
