SPECIFICATION Spec
CONSTANTS
    Requests = {q1}
    None = None
    Sizes <- MCSizes
    MaxBytes = 4
    PartSize = 2
CHECK_DEADLOCK FALSE
PROPERTIES
    RegisteredObjectsStay
