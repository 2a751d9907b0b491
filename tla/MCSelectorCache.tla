--------------------------- MODULE MCSelectorCache ---------------------------
(***************************************************************************)
(* Model values for SelectorCache: two goroutines, one event, one method,  *)
(* two data strings for KeccakHash and as many hashers as goroutines.      *)
(***************************************************************************)
EXTENDS SelectorCache, TLC

CONSTANTS g1, g2, e1, m1, d1, d2, h1, h2

Call_(op, obj) == [op |-> op, obj |-> obj]

\* Objects are not shared: each goroutine asks its own object for its id,
\* clones it (before or after its id is cached) and hashes through the
\* common pool.
DistinctWork ==
    g1 :> {Call_("event", e1), Call_("evclone", e1), Call_("hash", d1)} @@
    g2 :> {Call_("method", m1), Call_("mclone", m1), Call_("hash", d2)}

\* Both goroutines ask one Event for its id; the second may clone it.
SharedEventWork ==
    g1 :> {Call_("event", e1)} @@ g2 :> {Call_("event", e1), Call_("evclone", e1)}

\* Both goroutines ask one Method for its selector; the second may clone it.
SharedMethodWork ==
    g1 :> {Call_("method", m1)} @@ g2 :> {Call_("method", m1), Call_("mclone", m1)}

=============================================================================
