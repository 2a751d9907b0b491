------------------------------- MODULE ABIType -------------------------------
(***************************************************************************)
(* The Solidity type tree of the abi package (spec section 3 and 4.2).     *)
(* type.go is not among the repository's sources, so the constructors and *)
(* the two predicates the decoder calls, isDynamicType and                 *)
(* isVariableInput, are written from the spec.                            *)
(*                                                                         *)
(* A Type is a record with the fields of the Go struct that the codec     *)
(* reads: kind, size, elem (Array and Slice) and tuple (Tuple), where a    *)
(* tuple is a sequence of TupleElem records [name, elem, indexed].         *)
(***************************************************************************)
EXTENDS Integers, Sequences

Kinds == {"bool", "int", "uint", "address", "string", "bytes",
          "fixedbytes", "function", "array", "slice", "tuple"}

NoElem == "none"

\* Leaf types; size is the bit width of Int/Uint and the byte length of
\* FixedBytes, 0 otherwise.
Leaf(kind, size) == [kind |-> kind, size |-> size, elem |-> NoElem, tuple |-> <<>>]
BoolType           == Leaf("bool", 0)
UintType(n)        == Leaf("uint", n)
IntType(n)         == Leaf("int", n)
AddressType        == Leaf("address", 0)
StringType         == Leaf("string", 0)
BytesType          == Leaf("bytes", 0)
FixedBytesType(n)  == Leaf("fixedbytes", n)
FunctionType       == Leaf("function", 0)
SliceType(e)       == [kind |-> "slice", size |-> 0, elem |-> e, tuple |-> <<>>]
ArrayType(e, n)    == [kind |-> "array", size |-> n, elem |-> e, tuple |-> <<>>]
TupleElem(name, e, indexed) == [name |-> name, elem |-> e, indexed |-> indexed]
TupleType(elems)   == [kind |-> "tuple", size |-> 0, elem |-> NoElem, tuple |-> elems]

\* isVariableInput: the types whose encoding starts with a length prefix.
isVariableInput(t) == t.kind \in {"string", "bytes", "slice"}

\* isDynamicType: the types encoded in the tail behind an offset head.
RECURSIVE isDynamicType(_)
isDynamicType(t) ==
    \/ t.kind \in {"string", "bytes", "slice"}
    \/ t.kind = "array" /\ isDynamicType(t.elem)
    \/ t.kind = "tuple" /\ \E i \in DOMAIN t.tuple : isDynamicType(t.tuple[i].elem)

=============================================================================
