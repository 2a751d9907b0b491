CONSTANTS
    Documents <- CollidingDocuments
    Reloads <- ReloadDocuments
    MaxLoads = 1
INIT Init
NEXT Next
INVARIANT OverloadInjective
CHECK_DEADLOCK FALSE
