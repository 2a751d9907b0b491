------------------------------ MODULE ABIClone -------------------------------
(***************************************************************************)
(* Type.Clone of src/abi/clone.go, and Decode called with the clone of the *)
(* type the input was encoded with (as a caller holding a cloned Method's  *)
(* Inputs or Outputs does).                                                *)
(***************************************************************************)
EXTENDS ABICodec

\* Type.Clone: kind, size and raw are copied, elem is cloned, and each tuple
\* element is rebuilt from a clone of its Elem and its Indexed flag; the
\* line copying Name is commented out, so the element's name is "".
RECURSIVE Clone(_)
Clone(t) ==
    [t EXCEPT
        !.elem  = IF t.kind \in {"slice", "array"} THEN Clone(t.elem) ELSE NoElem,
        !.tuple = [k \in DOMAIN t.tuple |->
                      [name |-> "", elem |-> Clone(t.tuple[k].elem),
                       indexed |-> t.tuple[k].indexed]]]

\* Decode(t.Clone(), input).
DecodeClone ==
    /\ out.st = "none"
    /\ out' = decode(Clone(typ), View(0, Len(input)))
    /\ UNCHANGED <<typ, input, sent>>

CloneNext == DecodeClone

(***************************************************************************)
(* Clones are deep (spec section 3): a clone of a type is interchangeable  *)
(* with it, so decoding the encoding of a value with the clone of its type *)
(* yields that value, tuple elements keyed by the same names.             *)
(***************************************************************************)
CloneRoundTrip == RoundTrip

=============================================================================
