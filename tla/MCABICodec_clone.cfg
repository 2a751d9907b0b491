CONSTANTS
    WordBytes = 2
    OffsetBits = 8
    NativeSizes = {8}
    AddrBytes = 1
    FuncBytes = 1
    Types <- CodecTypes
    ValuesOf <- NonEmptyPayloads
    RawInputs = {}
INIT Init
NEXT CloneNext
INVARIANT CloneRoundTrip
CHECK_DEADLOCK FALSE
