SPECIFICATION Spec
CONSTANTS
    MaxNones = 3
    MaxKeywords = 1
INVARIANTS
    TypeOK
    OldestShapeKept
    CompleteCallsKept
    OneSourceEach
