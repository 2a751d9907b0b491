CONSTANTS
    WordBytes = 2
    OffsetBits = 8
    NativeSizes = {8}
    AddrBytes = 1
    FuncBytes = 1
    Types <- ShortTupleTypes
    ValuesOf <- NoValues
    RawInputs <- ShortInputs
INIT Init
NEXT Next
INVARIANT NoPanic
CHECK_DEADLOCK FALSE
