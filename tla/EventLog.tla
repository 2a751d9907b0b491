------------------------------ MODULE EventLog -------------------------------
(***************************************************************************)
(* Event.Match and Event.ParseLog of src/unnamed/part_000 (abi.go), on a   *)
(* log emitted by one of the contract's events.  Type.ParseLog (type.go,  *)
(* not in the sources) and the emission of a log are written from spec    *)
(* section 4.8: topics[0] is the event id unless the event is anonymous,  *)
(* then one topic per indexed input, and the non-indexed inputs encoded as *)
(* one tuple in data.                                                      *)
(*                                                                         *)
(* The decoder reads one buffer: `input` holds the topic words one after   *)
(* the other, then data, so a topic is a one-word view and data the view   *)
(* after the last topic.                                                   *)
(***************************************************************************)
EXTENDS ABIDecode

CONSTANTS
    Events,       \* events [id, anonymous, inputs]; inputs is a tuple type
    ValuesOf(_)   \* ValuesOf(e): the values of e's inputs, keyed by name

VARIABLES
    ev,      \* the Event whose ParseLog is called
    topics,  \* log.Topics: a sequence of words
    sent     \* [event, val]: the event that emitted the log, and its values

vars == <<typ, input, out, ev, topics, sent>>

Enc == INSTANCE ABIEncode

IsIndexed(a)  == a.indexed
IsData(a)     == ~a.indexed
Indexed(e)    == SelectSeq(e.inputs.tuple, IsIndexed)
NonIndexed(e) == SelectSeq(e.inputs.tuple, IsData)

\* The log event e emits for values v.
EmitTopics(e, v) ==
    (IF e.anonymous THEN <<>> ELSE <<e.id>>)
        \o [k \in DOMAIN Indexed(e) |-> Enc!Encode(Indexed(e)[k].elem, v[Indexed(e)[k].name])]
EmitData(e, v) == Enc!Encode(TupleType(NonIndexed(e)), v)

\* The indexed topics after the id (all topics of an anonymous event), and
\* the data after the last topic.
TopicsView(e) == LET first == IF e.anonymous THEN 0 ELSE 1
                 IN View(first * W, (Len(topics) - first) * W)
DataView      == View(Len(topics) * W, Len(input) - Len(topics) * W)

\* The two decodes joined into one map, the first failure otherwise.
Joined(head, body) ==
    IF Failed(head) THEN head
    ELSE IF Failed(body) THEN body
    ELSE Ok(head.val @@ body.val, "none")

\* Type.ParseLog: one topic per indexed input, decoded in order (each is a
\* one-word static value, so decoding them as one static tuple over the
\* consecutive topic words is decoding each topic in turn), and the
\* non-indexed inputs as one tuple over data.
TypeParseLog(e) ==
    IF Len(topics) - (IF e.anonymous THEN 0 ELSE 1) # Len(Indexed(e)) THEN Err("topics")
    ELSE Joined(decodeTuple(TupleType(Indexed(e)), TopicsView(e)),
                decodeTuple(TupleType(NonIndexed(e)), DataView))

\* Match taking a lone topic for no topics.
MatchSkipsLoneTopic(e) == Len(topics) > 1 /\ topics[1] = e.id

\* Event.Match: the log's first topic is the event's id.
Match(e) == Len(topics) > 0 /\ topics[1] = e.id

Init ==
    /\ ev \in Events
    /\ typ = ev.inputs
    /\ out = NotCalled
    /\ \E e \in Events : \E v \in ValuesOf(e) :
          /\ sent = [event |-> e, val |-> v]
          /\ topics = EmitTopics(e, v)
          /\ input = FlattenSeq(topics) \o EmitData(e, v)

\* ev.ParseLog(log): no match is an error, else Type.ParseLog.
ParseLog ==
    /\ out.st = "none"
    /\ out' = IF Match(ev) THEN TypeParseLog(ev) ELSE Err("nomatch")
    /\ UNCHANGED <<typ, input, ev, topics, sent>>

Spec == Init /\ [][ParseLog]_vars

(***************************************************************************)
(* Log round trip (spec 4.8): an event parses every log it emits back into *)
(* the values it was emitted with, anonymous events included.              *)
(***************************************************************************)
LogRoundTrip ==
    out.st # "none" /\ sent.event = ev => out.st = "ok" /\ out.val = sent.val

=============================================================================
