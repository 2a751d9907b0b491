CONSTANTS
    Documents <- ConstructorDocuments
    Reloads <- ConstructorDocuments
    MaxLoads = 1
INIT Init
NEXT Next
INVARIANT ConstructorOfDocument
CHECK_DEADLOCK FALSE
