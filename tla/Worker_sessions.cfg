SPECIFICATION Spec
CONSTANTS
    w1 = w1
    w2 = w2
    Workers = {w1, w2}
    MaxSignals = 1
    MaxCancels = 2
    MaxBreaks = 1
INVARIANTS
    TypeOK
    WorksUnderLock
    OnlyCancelsLeaveLock
PROPERTIES
    SignalStops
    WorkGoesOn
