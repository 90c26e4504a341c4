SPECIFICATION Spec
CONSTANTS
    Files <- QuantityFiles
    TextColumns <- Columns
    BatchSize = 2
    BigIntMax = 2
    IntDigits = 3
    ValueLimit = 4
    TotalLimit = 9
    MarkerChars = 2
    MaxRows = 2
INVARIANTS
    QuantityErrorStored
