----------------------------- MODULE SelectorSpec -----------------------------
(***************************************************************************)
(* What the selector functions of src/abi/abi.go promise (spec sections   *)
(* 4.5 and 8.3): a call of Event.ID, Method.ID or KeccakHash returns the   *)
(* Keccak digest of the signature (or data), whatever else runs at the     *)
(* same time; caching never changes the value observed.                   *)
(***************************************************************************)
EXTENDS Naturals, Sequences

CONSTANT Chunks  \* 8-byte words of a 32-byte digest

NoCall == [op |-> "none", obj |-> "none"]

\* The digest of a written byte string, as Chunks 8-byte words; word i of
\* the digest of `data` is [data, i].  No digest word is zero.
Keccak(data) == [i \in 1..Chunks |-> [data |-> data, i |-> i]]

\* The value a call returns: the full digest for an event id and for
\* KeccakHash, its first 4 bytes (a part of its first word) for a selector.
\* A clone's id is its original's: buildSignature reads the name and the
\* raw type strings, which Clone copies.
Expected(c) ==
    IF c.op \in {"method", "mclone"} THEN <<Keccak(<<c.obj>>)[1]>> ELSE Keccak(<<c.obj>>)

=============================================================================
