----------------------------- MODULE MCEventLog ------------------------------
(***************************************************************************)
(* Events for EventLog: ERC-20's Transfer and Approval, which have the    *)
(* same inputs and differ only in their id, an event without indexed      *)
(* inputs, and an anonymous event.                                         *)
(***************************************************************************)
EXTENDS EventLog

Arg(name, t, indexed) == TupleElem(name, t, indexed)

Pair == <<Arg("from", AddressType, TRUE), Arg("to", AddressType, TRUE),
          Arg("amount", UintType(8), FALSE), Arg("memo", StringType, FALSE)>>

Transfer == [id |-> <<221, 242>>, anonymous |-> FALSE, inputs |-> TupleType(Pair)]
Approval == [id |-> <<140, 91>>,  anonymous |-> FALSE, inputs |-> TupleType(Pair)]

Ping     == [id |-> <<1, 2>>,     anonymous |-> FALSE,
             inputs |-> TupleType(<<Arg("n", UintType(8), FALSE)>>)]
Deposit  == [id |-> <<3, 4>>,     anonymous |-> TRUE,
             inputs |-> TupleType(<<Arg("who", AddressType, TRUE), Arg("n", UintType(8), FALSE)>>)]

NamedEvents     == {Transfer, Approval, Ping}
AnonymousEvents == {Deposit, Ping}

\* A few values of each atomic type, strings not empty.
AtomValues(t) ==
    CASE t.kind = "address" -> {<<1>>, <<2>>}
      [] t.kind = "uint"    -> {0, 200}
      [] t.kind = "string"  -> {<<7>>, <<7, 7, 7>>}

\* Every assignment of values to the event's inputs, keyed by name.
RECURSIVE Assignments(_)
Assignments(args) ==
    IF args = <<>> THEN {<<>>}
    ELSE {f @@ (Head(args).name :> x) :
            f \in Assignments(Tail(args)), x \in AtomValues(Head(args).elem)}

EventValues(e) == Assignments(e.inputs.tuple)

=============================================================================
