CONSTANTS
    WordBytes = 2
    OffsetBits = 8
    NativeSizes = {8}
    AddrBytes = 1
    FuncBytes = 1
    Events <- AnonymousEvents
    ValuesOf <- EventValues
INIT Init
NEXT ParseLog
INVARIANT LogRoundTrip
CHECK_DEADLOCK FALSE
