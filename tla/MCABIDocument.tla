---------------------------- MODULE MCABIDocument ----------------------------
(***************************************************************************)
(* Documents for ABIDocument: every sequence of up to four entries drawn   *)
(* from functions and events named so that overloads and literal names     *)
(* ending in a digit collide, a constructor, an ignored and an unknown     *)
(* entry type.                                                             *)
(***************************************************************************)
EXTENDS ABIDocument

Entry(type, name, constant, mutability) ==
    [type |-> type, name |-> name, constant |-> constant,
     mutability |-> mutability, anonymous |-> FALSE]

EntriesFor(names) ==
    {Entry("function", n, FALSE, m) : n \in names, m \in {"view", "nonpayable"}}
    \cup {Entry("", n, TRUE, "") : n \in names}
    \cup {Entry("event", n, FALSE, "") : n \in names}
    \cup {Entry(t, "", FALSE, "") : t \in {"constructor", "error", "bogus"}}

DocumentsOf(names, n) == UNION {[1..k -> EntriesFor(names)] : k \in 0..n}

\* Overloads of send next to a literal send0.
CollidingDocuments == DocumentsOf({"send", "send0"}, 4)

\* Up to two entries, loaded into an ABI value that already holds a document.
ReloadDocuments == DocumentsOf({"send", "send0"}, 2)

\* A constructor, functions and events, in documents of up to two entries.
ConstructorDocuments == DocumentsOf({"send"}, 2)

=============================================================================
