------------------------------ MODULE ABIDecode ------------------------------
(***************************************************************************)
(* The ABI decoder of src/abi/decode.go.                                   *)
(*                                                                         *)
(* Go slices are views [off, len] into the caller's byte buffer `input`;   *)
(* the caller's buffer has no spare capacity, so cap(s) reaches exactly to *)
(* the end of `input`, and slicing past it is a run-time panic.  Every     *)
(* function of decode.go is an operator that returns a Result: ok with a   *)
(* value and the residual slice, err with an error kind, or panic.         *)
(*                                                                         *)
(* Data is scaled: a word has WordBytes bytes (32 in the code), offsets    *)
(* and lengths of OffsetBits or more bits are rejected (63 in the code),   *)
(* integers of a width in NativeSizes are read as Go fixed-width integers  *)
(* from the last bytes of the word (8, 16, 32, 64 in the code), an address *)
(* is the last AddrBytes bytes (20) and a function the first FuncBytes     *)
(* bytes (24).  Control flow and byte arithmetic are those of the code.    *)
(***************************************************************************)
EXTENDS ABIType, SequencesExt, TLC

CONSTANTS WordBytes, OffsetBits, NativeSizes, AddrBytes, FuncBytes

ASSUME WordBytes \in Nat \ {0} /\ OffsetBits \in Nat
ASSUME AddrBytes \in 1..WordBytes /\ FuncBytes \in 1..WordBytes

VARIABLES
    typ,    \* the Type passed to Decode
    input,  \* the byte buffer passed to Decode
    out     \* the Result Decode returned, NotCalled before the call

W == WordBytes

Ok(v, rest) == [st |-> "ok", val |-> v, rest |-> rest, err |-> "none"]
Err(e)      == [st |-> "err", val |-> "none", rest |-> "none", err |-> e]
Panic       == [st |-> "panic", val |-> "none", rest |-> "none", err |-> "none"]
NotCalled   == [st |-> "none", val |-> "none", rest |-> "none", err |-> "none"]
Failed(r)   == r.st # "ok"

\* A slice of `input`, its capacity, its bytes and Go's s[lo:hi].
View(off, len) == [off |-> off, len |-> len]
Cap(s)         == Len(input) - s.off
BytesOf(s)     == SubSeq(input, s.off + 1, s.off + s.len)
GoSlice(s, lo, hi) ==
    IF 0 <= lo /\ lo <= hi /\ hi <= Cap(s)
    THEN Ok(View(s.off + lo, hi - lo), "none")
    ELSE Panic

\* Unsigned big-endian value of a byte sequence (big.Int.SetBytes).
BigEndian(bs) == FoldLeft(LAMBDA acc, b : acc * 256 + b, 0, bs)
WordValue(s)  == BigEndian(SubSeq(input, s.off + 1, s.off + W))

readSlice(s, start, length) ==
    LET from == IF start < 0 THEN s.len + start ELSE start
        end  == CASE length < 0 -> s.len + length
                  [] length > 0 -> from + length
                  [] OTHER      -> s.len
    IN IF s.len < end THEN Err("truncated") ELSE GoSlice(s, from, end)

\* readOffset: reads data[0:32] without a bounds check.
readOffset(data, len) ==
    LET word == GoSlice(data, 0, W)
        v    == WordValue(data)
    IN IF Failed(word) THEN word
       ELSE IF v >= 2^OffsetBits THEN Err("offset")
       ELSE IF v > len THEN Err("offset")
       ELSE Ok(v, "none")

\* readLength: the length prefix of a String, Bytes or Slice.
readLength(data) ==
    LET word == readSlice(data, 0, W)
        v    == WordValue(data)
    IN IF Failed(word) THEN word
       ELSE IF v >= 2^OffsetBits THEN Err("length")
       ELSE IF v > data.len THEN Err("length")
       ELSE Ok(v, "none")

AllZeros(bs) == \A i \in DOMAIN bs : bs[i] = 0

\* The bounds of a word as a big.Int: 2^256 - 1 and 2^255 - 1, scaled.
maxUint256 == 2^(8 * W) - 1
maxInt256  == 2^(8 * W - 1) - 1

\* readInteger: Go fixed-width integers take the last size/8 bytes of the
\* word; other widths are a big.Int over the whole word, which for a
\* signed type above maxInt256 becomes -(maxUint256 - ret + 1).
readInteger(t, word) ==
    LET bs == BytesOf(word)
    IN IF t.size \in NativeSizes
       THEN LET v == BigEndian(SubSeq(bs, W - t.size \div 8 + 1, W))
            IN IF t.kind = "int" /\ v >= 2^(t.size - 1) THEN v - 2^t.size ELSE v
       ELSE LET v == BigEndian(bs)
            IN IF t.kind = "int" /\ v > maxInt256 THEN -((maxUint256 - v) + 1) ELSE v

\* decodeBool: only 0 and 1 in the last byte are booleans.
decodeBool(data) ==
    LET b == BytesOf(data)[W]
    IN IF b \in {0, 1} THEN Ok(b = 1, "none") ELSE Err("bool")

\* readAddr: the last AddrBytes bytes of the word.
readAddr(data) == Ok(SubSeq(BytesOf(data), W - AddrBytes + 1, W), "none")

\* readFixedBytes: the first t.size bytes of the word.
readFixedBytes(t, data) == Ok(SubSeq(BytesOf(data), 1, t.size), "none")

\* readFunctionType: the first FuncBytes bytes; the rest must be zero.
readFunctionType(data) ==
    LET bs == BytesOf(data)
    IN IF AllZeros(SubSeq(bs, FuncBytes + 1, W))
       THEN Ok(SubSeq(bs, 1, FuncBytes), "none") ELSE Err("function")

\* The value of an atomic type read from its slice, or its error.
readAtom(t, data) ==
    CASE t.kind = "bool" -> decodeBool(data)
      [] t.kind \in {"int", "uint"} -> Ok(readInteger(t, data), "none")
      [] t.kind \in {"string", "bytes"} -> Ok(BytesOf(data), "none")
      [] t.kind = "address" -> readAddr(data)
      [] t.kind = "fixedbytes" -> readFixedBytes(t, data)
      [] t.kind = "function" -> readFunctionType(data)

\* decodeAtom returning the value's own slice as the residual.
decodeAtomDataRest(t, s, length) ==
    LET data == IF t.kind \in {"string", "bytes"} THEN readSlice(s, W, length)
                ELSE readSlice(s, 0, W)
        val  == readAtom(t, data.val)
    IN IF Failed(data) THEN data
       ELSE IF Failed(val) THEN val
       ELSE Ok(val.val, data.val)

\* The tail of decode for atomic types: the value's slice, the value, then
\* the residual input[32:] returned beside it.
decodeAtom(t, s, length) ==
    LET data == IF t.kind \in {"string", "bytes"} THEN readSlice(s, W, length)
                ELSE readSlice(s, 0, W)
        val  == readAtom(t, data.val)
        tail == readSlice(s, W, 0)
    IN IF Failed(data) THEN data
       ELSE IF Failed(tail) THEN tail
       ELSE IF Failed(val) THEN val
       ELSE Ok(val.val, tail.val)

\* The key of tuple element i (1-based) in the result map.
ElemKey(arg, i) == IF arg.name = "" THEN ToString(i - 1) ELSE arg.name

RECURSIVE decode(_, _), tupleLoop(_, _, _, _, _), arrayLoop(_, _, _, _, _, _)

\* One step of the element loop shared by decodeTuple and decodeArraySlice:
\* the entry of element type e at the cursor `data` of the region `orig`.
EntryOf(e, orig, data) ==
    IF isDynamicType(e)
    THEN LET o == readOffset(data, orig.len)
         IN IF Failed(o) THEN o ELSE Ok(View(orig.off + o.val, orig.len - o.val), "none")
    ELSE Ok(data, "none")

\* The cursor after the element: the callee's residual for a static
\* element, data[32:] for a dynamic one.
NextCursor(e, data, r) ==
    IF isDynamicType(e) THEN View(data.off + W, data.len - W) ELSE r.rest

\* decodeTuple's loop: element i of t, the result map res so far.
tupleLoop(t, orig, data, res, i) ==
    IF i > Len(t.tuple) THEN Ok(res, data)
    ELSE LET arg   == t.tuple[i]
             entry == EntryOf(arg.elem, orig, data)
             r     == decode(arg.elem, entry.val)
             key   == ElemKey(arg, i)
         IN IF Failed(entry) THEN entry
            ELSE IF Failed(r) THEN r
            ELSE IF key \in DOMAIN res THEN Err("tupledup")
            ELSE tupleLoop(t, orig, NextCursor(arg.elem, data, r),
                           res @@ (key :> r.val), i + 1)

decodeTuple(t, data) == tupleLoop(t, data, data, <<>>, 1)

\* decodeArraySlice's loop: element i of `size`, the values so far.
arrayLoop(t, orig, data, res, i, size) ==
    IF i > size THEN Ok(res, data)
    ELSE LET entry == EntryOf(t.elem, orig, data)
             r     == decode(t.elem, entry.val)
         IN IF Failed(entry) THEN entry
            ELSE IF Failed(r) THEN r
            ELSE arrayLoop(t, orig, NextCursor(t.elem, data, r),
                           Append(res, r.val), i + 1, size)

decodeArraySlice(t, data, size) ==
    IF size < 0 \/ W * size > data.len THEN Err("size")
    ELSE arrayLoop(t, data, data, <<>>, 1, size)

decode(t, s) ==
    LET len == IF isVariableInput(t) THEN readLength(s) ELSE Ok(0, "none")
        tail == readSlice(s, W, 0)
    IN IF Failed(len) THEN len
       ELSE CASE t.kind = "tuple" -> decodeTuple(t, s)
              [] t.kind = "slice" ->
                   IF Failed(tail) THEN tail ELSE decodeArraySlice(t, tail.val, len.val)
              [] t.kind = "array" -> decodeArraySlice(t, s, t.size)
              [] OTHER -> decodeAtom(t, s, len.val)

(***************************************************************************)
(* The operation: Decode(t, input) returns decode's value and error.       *)
(***************************************************************************)
Decode ==
    /\ out.st = "none"
    /\ out' = decode(typ, View(0, Len(input)))
    /\ UNCHANGED <<typ, input>>

=============================================================================
