CONSTANTS
    WordBytes = 2
    OffsetBits = 8
    NativeSizes = {8}
    AddrBytes = 1
    FuncBytes = 1
    Types <- NativeIntTypes
    ValuesOf <- NoValues
    RawInputs <- RawWords
INIT Init
NEXT Next
INVARIANT IntegerOfWord
CHECK_DEADLOCK FALSE
