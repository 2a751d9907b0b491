------------------------------ MODULE ABIEncode ------------------------------
(***************************************************************************)
(* The ABIv2 encoder (spec section 4.6).  encode.go is not among the       *)
(* repository's sources, so the encoder is written from the spec; it is    *)
(* the reference the decoder of ABIDecode is checked against.              *)
(*                                                                         *)
(* Values: Bool is BOOLEAN, Int/Uint an integer, String, Bytes, Address,   *)
(* FixedBytes and Function a byte sequence, Array and Slice a sequence of  *)
(* element values, Tuple a function from element key to value.             *)
(***************************************************************************)
EXTENDS ABIType, SequencesExt, TLC

CONSTANTS WordBytes, AddrBytes, FuncBytes

Zeros(n) == [i \in 1..n |-> 0]

\* A word holding n big-endian, reduced modulo 2^(8*WordBytes): negative
\* integers come out sign-extended.
EncWord(n) ==
    LET m == n % (2^(8 * WordBytes))
    IN [i \in 1..WordBytes |-> (m \div (256^(WordBytes - i))) % 256]

\* Right-pad a byte sequence with zeros to a whole number of words.
PadRight(bs) == bs \o Zeros((WordBytes - (Len(bs) % WordBytes)) % WordBytes)

TupleKey(t, i) == IF t.tuple[i].name = "" THEN ToString(i - 1) ELSE t.tuple[i].name

SumSeq(s) == FoldLeft(LAMBDA a, b : a + b, 0, s)

RECURSIVE Encode(_, _), EncodeRegion(_, _)

\* Heads of the elements in order, then the tails of the dynamic ones; an
\* offset counts from the first byte of the region.
EncodeRegion(ts, vs) ==
    LET n      == Len(ts)
        enc    == [i \in 1..n |-> Encode(ts[i], vs[i])]
        dyn(i) == isDynamicType(ts[i])
        headLen == SumSeq([i \in 1..n |-> IF dyn(i) THEN WordBytes ELSE Len(enc[i])])
        tailLen(i) == IF dyn(i) THEN Len(enc[i]) ELSE 0
        head(i) == IF dyn(i)
                   THEN EncWord(headLen + SumSeq([j \in 1..(i - 1) |-> tailLen(j)]))
                   ELSE enc[i]
    IN FlattenSeq([i \in 1..n |-> head(i)])
         \o FlattenSeq([i \in 1..n |-> IF dyn(i) THEN enc[i] ELSE <<>>])

Encode(t, v) ==
    CASE t.kind = "bool"    -> EncWord(IF v THEN 1 ELSE 0)
      [] t.kind \in {"int", "uint"} -> EncWord(v)
      [] t.kind = "address" -> Zeros(WordBytes - AddrBytes) \o v
      [] t.kind \in {"fixedbytes", "function"} -> PadRight(v)
      [] t.kind \in {"string", "bytes"} -> EncWord(Len(v)) \o PadRight(v)
      [] t.kind = "slice" ->
           EncWord(Len(v)) \o EncodeRegion([i \in 1..Len(v) |-> t.elem], v)
      [] t.kind = "array" -> EncodeRegion([i \in 1..t.size |-> t.elem], v)
      [] t.kind = "tuple" ->
           EncodeRegion([i \in DOMAIN t.tuple |-> t.tuple[i].elem],
                        [i \in DOMAIN t.tuple |-> v[TupleKey(t, i)]])

=============================================================================
