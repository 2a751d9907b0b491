----------------------------- MODULE MCABICodec ------------------------------
(***************************************************************************)
(* Model values for ABICodec and ABIClone: 2-byte words, types that nest tuples,        *)
(* arrays and slices of static and dynamic elements, and the values and    *)
(* raw inputs they are decoded from.                                       *)
(***************************************************************************)
EXTENDS ABIClone

E(name, t) == TupleElem(name, t, FALSE)

\* Two dynamic elements in one tuple.
TwoStrings == TupleType(<<E("", StringType), E("", StringType)>>)
\* Named and unnamed elements, a Go-native integer and a big one.
Mixed == TupleType(<<E("a", UintType(8)), E("b", BytesType), E("", SliceType(IntType(16)))>>)
\* A slice whose elements are dynamic: offsets relative to the slice body.
Strings == SliceType(StringType)
\* Static elements of every atomic kind, one of them a static array.
Atoms == TupleType(<<E("", ArrayType(BoolType, 2)), E("", FunctionType), E("", AddressType),
                 E("", FixedBytesType(1)), E("", IntType(8))>>)
\* A fixed array of dynamic tuples.
Records == ArrayType(TupleType(<<E("x", StringType), E("y", IntType(8))>>), 2)
\* A static tuple nested before a dynamic element: the cursor must step
\* over the whole nested head.
Nested == TupleType(<<E("", TupleType(<<E("", UintType(16)), E("", BoolType)>>)), E("", StringType)>>)

CodecTypes == {TwoStrings, Mixed, Strings, Atoms, Records, Nested}
ShortTupleTypes == {TupleType(<<E("", UintType(8)), E("", StringType)>>)}

PayloadByte == 7

\* All tuples <<x1, ..., xn>> with xi \in sets[i].
RECURSIVE Product(_)
Product(sets) ==
    IF sets = <<>> THEN {<<>>}
    ELSE {Append(p, x) : p \in Product(SubSeq(sets, 1, Len(sets) - 1)),
                         x \in sets[Len(sets)]}

\* The values of t whose String/Bytes payloads have a length in `lens`.
RECURSIVE Values(_, _)
Values(t, lens) ==
    CASE t.kind = "bool" -> BOOLEAN
      [] t.kind = "uint" -> {0, 1, 2^t.size - 1}
      [] t.kind = "int"  -> {-(2^(t.size - 1)), -1, 0, 2^(t.size - 1) - 1}
      [] t.kind \in {"string", "bytes"} ->
           {[i \in 1..n |-> PayloadByte] : n \in lens}
      [] t.kind = "address" -> {<<9>>}
      [] t.kind = "fixedbytes" -> {[i \in 1..t.size |-> 5]}
      [] t.kind = "function" -> {<<3>>}
      [] t.kind = "slice" ->
           UNION {Product([i \in 1..n |-> Values(t.elem, lens)]) : n \in 0..2}
      [] t.kind = "array" -> Product([i \in 1..t.size |-> Values(t.elem, lens)])
      [] t.kind = "tuple" ->
           LET n == Len(t.tuple)
               key(i) == IF t.tuple[i].name = "" THEN ToString(i - 1) ELSE t.tuple[i].name
           IN {[k \in {key(i) : i \in 1..n} |-> p[CHOOSE i \in 1..n : key(i) = k]] :
                 p \in Product([i \in 1..n |-> Values(t.tuple[i].elem, lens)])}

NonEmptyPayloads(t) == Values(t, 1..3)
AnyPayloads(t)      == Values(t, 0..2)
NoValues(t)         == {}

\* Go fixed-width integer types, and every word over a few telling bytes.
NativeIntTypes == {IntType(8), UintType(8)}
RawWords == [1..2 -> {0, 1, 127, 128, 255}]

ShortInputs == UNION {[1..n -> {0, 1, 2}] : n \in 0..4}

=============================================================================
