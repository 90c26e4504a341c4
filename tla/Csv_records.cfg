SPECIFICATION Spec
CONSTANTS
    Objects <- CutTexts
    BufferSizes = {2, 4}
    ReadChars = {1, 3}
    MaxRecord = 3
    Preview = 2
    MaxText = 5
INVARIANTS
    TypeOK
    SplitsAsCsv
    AgreesWithReader
    OneChunkAfterLoss
