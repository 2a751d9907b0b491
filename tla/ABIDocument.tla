----------------------------- MODULE ABIDocument -----------------------------
(***************************************************************************)
(* ABI.UnmarshalJSON of src/abi/abi.go: the loop over the entries of a     *)
(* JSON ABI document that fills Constructor, Methods and Events, renaming  *)
(* overloaded functions and events (overloadedMethodName,                  *)
(* overloadedEventName).                                                   *)
(*                                                                         *)
(* An entry is [type, name, constant, mutability, anonymous] after         *)
(* json.Unmarshal; its inputs and outputs are abstracted to the entry's    *)
(* position `idx`, which the stored Method or Event carries, so that a     *)
(* property can tell which entry ended up under which key.                 *)
(*                                                                         *)
(* The ABI value may be loaded again: json.Unmarshal(doc, &a) on a value   *)
(* already filled calls UnmarshalJSON on it (up to MaxLoads more times,    *)
(* from the documents Reloads).                                            *)
(***************************************************************************)
EXTENDS Integers, Sequences, FiniteSets, TLC

CONSTANTS
    Documents,  \* the entry sequences NewABI may be given
    Reloads,    \* the entry sequences a loaded ABI value may be given again
    MaxLoads    \* how many times it may be loaded again

VARIABLES
    fields,       \* the entries of the document being unmarshalled
    i,            \* the loop position in fields
    constructor,  \* a.Constructor: NoMethod or the constructor
    methods,      \* a.Methods: key -> Method
    events,       \* a.Events: key -> Event
    status,       \* "running", then "ok" or the error returned
    loads         \* how many times the value has been loaded again

vars == <<fields, i, constructor, methods, events, status, loads>>

NoMethod == [idx |-> 0]

\* The first free key rawName \o idx, idx = 0, 1, ... (fmt.Sprintf("%s%d")).
RECURSIVE FreeName(_, _, _)
FreeName(map, rawName, idx) ==
    IF rawName \o ToString(idx) \in DOMAIN map
    THEN FreeName(map, rawName, idx + 1)
    ELSE rawName \o ToString(idx)

OverloadedName(map, rawName) ==
    IF rawName \in DOMAIN map THEN FreeName(map, rawName, 0) ELSE rawName

\* overloadedMethodName looking its candidates up in a.Events.
overloadedMethodNameInEvents(rawName) == OverloadedName(events, rawName)

overloadedMethodName(rawName) == OverloadedName(methods, rawName)
overloadedEventName(rawName)  == OverloadedName(events, rawName)

\* a.Methods[name] = m: a new key, or a replaced value.
Put(map, key, val) == (key :> val) @@ map

Init ==
    /\ fields \in Documents
    /\ i = 1
    /\ constructor = NoMethod
    /\ methods = <<>>
    /\ events = <<>>
    /\ status = "running"
    /\ loads = 0

\* json.Unmarshal(doc, &a) on a value an earlier load filled (or left half
\* filled by an error).  A document whose entries do not unmarshal returns
\* the error before the value is touched; otherwise UnmarshalJSON starts its
\* loop over fresh Methods and Events maps and leaves Constructor as it is.
Reload ==
    /\ status # "running"
    /\ loads < MaxLoads
    /\ loads' = loads + 1
    /\ \/ /\ status' = "json error"
          /\ UNCHANGED <<fields, i, constructor, methods, events>>
       \/ /\ \E d \in Reloads : fields' = d
          /\ i' = 1
          /\ methods' = <<>>
          /\ events' = <<>>
          /\ status' = "running"
          /\ UNCHANGED constructor

\* One iteration of the loop over fields.
Constructor(f) ==
    IF constructor # NoMethod
    THEN status' = "multiple constructor" /\ UNCHANGED <<constructor, i>>
    ELSE constructor' = [idx |-> i] /\ i' = i + 1 /\ UNCHANGED status

Function(f) ==
    /\ methods' = Put(methods, overloadedMethodName(f.name),
                      [name |-> f.name, idx |-> i,
                       const |-> f.constant \/ f.mutability \in {"view", "pure"}])
    /\ i' = i + 1
    /\ UNCHANGED <<constructor, events, status>>

Event(f) ==
    /\ events' = Put(events, overloadedEventName(f.name),
                     [name |-> f.name, idx |-> i, anonymous |-> f.anonymous])
    /\ i' = i + 1
    /\ UNCHANGED <<constructor, methods, status>>

Step ==
    LET f == fields[i]
    IN /\ status = "running"
       /\ i <= Len(fields)
       /\ CASE f.type = "constructor" ->
                 Constructor(f) /\ UNCHANGED <<methods, events>>
            [] f.type \in {"function", ""} -> Function(f)
            [] f.type = "event" -> Event(f)
            [] f.type \in {"error", "fallback", "receive"} ->
                 i' = i + 1 /\ UNCHANGED <<constructor, methods, events, status>>
            [] OTHER ->
                 status' = "unknown field type" /\ UNCHANGED <<i, constructor, methods, events>>
       /\ UNCHANGED <<fields, loads>>

\* The loop ends: UnmarshalJSON returns nil.
Finish ==
    /\ status = "running"
    /\ i > Len(fields)
    /\ status' = "ok"
    /\ UNCHANGED <<fields, i, constructor, methods, events, loads>>

Next == Step \/ Finish \/ Reload

Spec == Init /\ [][Next]_vars

TypeOK ==
    /\ i \in 1..(Len(fields) + 1)
    /\ status \in {"running", "ok", "multiple constructor", "unknown field type",
                  "json error"}
    /\ loads \in 0..MaxLoads
    /\ \A k \in DOMAIN methods : methods[k].idx \in 1..Len(fields)
    /\ \A k \in DOMAIN events : events[k].idx \in 1..Len(fields)

(***************************************************************************)
(* Overload determinism and injectivity (spec 3 and 8.5): every function   *)
(* entry read so far is stored under exactly one key of Methods, and every *)
(* event entry under exactly one key of Events: renaming never lets a      *)
(* later overload overwrite an earlier entry, and a value loaded again     *)
(* holds nothing of the documents it was loaded with before.              *)
(***************************************************************************)
StoredOnce(map, types) ==
    /\ {map[k].idx : k \in DOMAIN map} = {j \in 1..(i - 1) : fields[j].type \in types}
    /\ Cardinality(DOMAIN map) = Cardinality({j \in 1..(i - 1) : fields[j].type \in types})

OverloadInjective ==
    StoredOnce(methods, {"function", ""}) /\ StoredOnce(events, {"event"})

\* The positions of the document's constructor entries.
ConstructorEntries == {j \in DOMAIN fields : fields[j].type = "constructor"}

(***************************************************************************)
(* The constructor reflects the document (spec 4.4: "constructor" sets     *)
(* constructor, failing only if it is already set): a load that returns    *)
(* nil holds the constructor entry of the document it was given, or none  *)
(* if that document has none, and the "multiple constructor declaration"   *)
(* error of UnmarshalJSON means that document declares two.  This is also *)
(* about an ABI value that is loaded again (Reload).                      *)
(***************************************************************************)
ConstructorOfDocument ==
    /\ status = "ok" =>
         constructor = IF ConstructorEntries = {} THEN NoMethod
                       ELSE [idx |-> CHOOSE j \in ConstructorEntries : TRUE]
    /\ status = "multiple constructor" => Cardinality(ConstructorEntries) > 1

=============================================================================
