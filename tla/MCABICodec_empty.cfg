CONSTANTS
    WordBytes = 2
    OffsetBits = 8
    NativeSizes = {8}
    AddrBytes = 1
    FuncBytes = 1
    Types <- CodecTypes
    ValuesOf <- AnyPayloads
    RawInputs = {}
INIT Init
NEXT Next
INVARIANT RoundTrip
CHECK_DEADLOCK FALSE
