------------------------------ MODULE ABICodec -------------------------------
(***************************************************************************)
(* One call of Decode (src/abi/decode.go) on an input that is either the   *)
(* ABIv2 encoding of a value (ABIEncode, from the spec) or an arbitrary    *)
(* byte string of an untrusted caller.                                     *)
(***************************************************************************)
EXTENDS ABIDecode

CONSTANTS
    Types,        \* the types Decode is called with
    ValuesOf(_),  \* ValuesOf(t): the values of type t that are encoded
    RawInputs     \* arbitrary byte strings passed to Decode

VARIABLE sent     \* [encoded, val]: whether `input` is the encoding of val

vars == <<typ, input, out, sent>>

Enc == INSTANCE ABIEncode

Init ==
    /\ typ \in Types
    /\ out = NotCalled
    /\ \/ \E v \in ValuesOf(typ) :
            sent = [encoded |-> TRUE, val |-> v] /\ input = Enc!Encode(typ, v)
       \/ sent = [encoded |-> FALSE, val |-> "none"] /\ input \in RawInputs

Next == Decode /\ UNCHANGED sent

Spec == Init /\ [][Next]_vars

TypeOK ==
    /\ typ \in Types
    /\ input \in Seq(Nat)
    /\ sent.encoded \in BOOLEAN
    /\ out.st \in {"none", "ok", "err", "panic"}
    \* the residual Decode returns beside a value is a suffix of the input
    /\ out.st = "ok" => out.rest.off + out.rest.len = Len(input)

(***************************************************************************)
(* Round trip (spec section 8.1): decoding the encoding of a value yields  *)
(* that value.  It exercises the head/tail layout, the offsets relative to *)
(* each tuple or array region, the length prefixes and the cursor that     *)
(* decodeTuple and decodeArraySlice advance between elements.             *)
(***************************************************************************)
RoundTrip ==
    out.st # "none" /\ sent.encoded => out.st = "ok" /\ out.val = sent.val

(***************************************************************************)
(* Bounded decode (spec sections 7 and 8.4): on any input Decode returns a *)
(* value or an error and never panics by slicing past the input.           *)
(***************************************************************************)
NoPanic == out.st # "panic"

\* Spec 4.7: an Int/Uint word is read as a big-endian integer over the whole
\* word, two's complement for Int; a value outside the declared width is a
\* Range error (spec 7).
WordInteger(t, bs) ==
    LET v == BigEndian(bs)
    IN IF t.kind = "int" /\ v >= 2^(8 * Len(bs) - 1) THEN v - 2^(8 * Len(bs)) ELSE v

InWidth(t, v) ==
    IF t.kind = "int" THEN -(2^(t.size - 1)) <= v /\ v < 2^(t.size - 1)
    ELSE 0 <= v /\ v < 2^t.size

(***************************************************************************)
(* Integer fidelity (spec 4.7 and 7): when Decode returns an integer for   *)
(* an int or uint type, it is the two's-complement value of the whole      *)
(* word, and that value fits the declared width; readInteger's Go          *)
(* fixed-width cases must not drop the word's upper bytes.                 *)
(***************************************************************************)
IntegerOfWord ==
    out.st = "ok" /\ typ.kind \in {"int", "uint"} =>
        LET w == WordInteger(typ, SubSeq(input, 1, W))
        IN out.val = w /\ InWidth(typ, w)

=============================================================================
