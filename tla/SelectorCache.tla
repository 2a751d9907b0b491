---------------------------- MODULE SelectorCache ----------------------------
(***************************************************************************)
(* Lazy selector ids and the pooled Keccak hashers of src/abi/abi.go:      *)
(* Method.ID, Event.ID and KeccakHash, run by several goroutines at once.  *)
(*                                                                         *)
(* Each goroutine repeatedly calls one of the operations in Work[g] on a   *)
(* shared object.  The id fields are written without synchronisation, so  *)
(* a racing reader may see a partly written value (the Go memory model    *)
(* allows a racy read of a multi-word value to observe any mix of words):  *)
(* copy(e.id[:], dst) writes the Chunks 8-byte words of the 32-byte id in *)
(* some order, and m.id = ... writes the slice header's pointer and        *)
(* length words in some order.  keccakPool is a sync.Pool: Get returns a  *)
(* pooled hasher or a New one (a GC that empties the pool is Get choosing  *)
(* New), Put returns one.                                                  *)
(*                                                                         *)
(* Event.Clone and Method.Clone (src/abi/clone.go) copy the id field with  *)
(* item.id = e.id / m.id, a racy multiword read of the same words; the    *)
(* caller then asks the clone, which no other goroutine sees, for its id. *)
(***************************************************************************)
EXTENDS Naturals, Sequences, FiniteSets

CONSTANTS
    Goroutines,  \* the goroutines calling into the package
    Work,        \* Work[g]: the calls g makes, [op, obj]
    Hashers,     \* identities of the hashers keccakPool.New can create
    Chunks       \* 8-byte words of a 32-byte digest (4)

VARIABLES
    evId,       \* evId[e]: the id field of Event e, Chunks words
    mId,        \* mId[m]: the id slice header of Method m, [ptr, len]
    hstate,     \* hstate[h]: bytes written to hasher h since its last Reset
    allocated,  \* hashers created by keccakPool.New
    pool,       \* hashers held by keccakPool
    pc,         \* pc[g]: where goroutine g is in its current call
    cur,        \* cur[g]: the call g is running
    held,       \* held[g]: the hasher g acquired
    dst,        \* dst[g]: the digest g computed
    pending,    \* pending[g]: words of the id g has still to write (or read)
    clone,      \* clone[g]: the id field of the clone g is making
    result      \* result[g]: the value g's last call returned

vars == <<evId, mId, hstate, allocated, pool, pc, cur, held, dst, pending, clone, result>>

\* The promise: the value each call returns.
Promise == INSTANCE SelectorSpec

Keccak(data) == Promise!Keccak(data)
NoCall == Promise!NoCall

\* The zero word; also the nil pointer of an unset slice.
Zero == [data |-> <<>>, i |-> 0]
NoHasher == "none"

\* The two words of a slice header that m.id = ... writes.
PtrWord == 1
LenWord == 2

Calls == UNION {Work[g] : g \in Goroutines}
Events  == {c.obj : c \in {c \in Calls : c.op \in {"event", "evclone"}}}
Methods == {c.obj : c \in {c \in Calls : c.op \in {"method", "mclone"}}}

Init ==
    /\ evId = [e \in Events |-> [i \in 1..Chunks |-> Zero]]
    /\ mId = [m \in Methods |-> [ptr |-> Zero, len |-> 0]]
    /\ hstate = [h \in Hashers |-> <<>>]
    /\ allocated = {}
    /\ pool = {}
    /\ pc = [g \in Goroutines |-> "idle"]
    /\ cur = [g \in Goroutines |-> NoCall]
    /\ held = [g \in Goroutines |-> NoHasher]
    /\ dst = [g \in Goroutines |-> <<>>]
    /\ pending = [g \in Goroutines |-> {}]
    /\ clone = [g \in Goroutines |-> <<>>]
    /\ result = [g \in Goroutines |-> <<>>]

Goto(g, from, to) == pc[g] = from /\ pc' = [pc EXCEPT ![g] = to]

\* The caller starts Method.ID, Event.ID or KeccakHash, or a Clone
\* (item := new(Event) / new(Method): the clone's id is zero).
Call(g) ==
    /\ pc[g] = "idle"
    /\ \E c \in Work[g] :
         /\ cur' = [cur EXCEPT ![g] = c]
         /\ pc' = [pc EXCEPT ![g] = CASE c.op = "event"   -> "ev_check"
                                       [] c.op = "method"  -> "m_check"
                                       [] c.op = "hash"    -> "acquire"
                                       [] c.op = "evclone" -> "ev_clone"
                                       [] c.op = "mclone"  -> "m_clone"]
         /\ pending' = [pending EXCEPT ![g] = CASE c.op = "evclone" -> 1..Chunks
                                                 [] c.op = "mclone"  -> {PtrWord, LenWord}
                                                 [] OTHER            -> {}]
         /\ clone' = [clone EXCEPT ![g] = CASE c.op = "evclone" -> [i \in 1..Chunks |-> Zero]
                                             [] c.op = "mclone"  -> [ptr |-> Zero, len |-> 0]
                                             [] OTHER            -> <<>>]
    /\ UNCHANGED <<evId, mId, hstate, allocated, pool, held, dst, result>>

\* Event.Clone: item.id = e.id, one 8-byte word of the array per step.
EvClone(g) ==
    LET e == cur[g].obj
    IN /\ pc[g] = "ev_clone"
       /\ \E i \in pending[g] :
            /\ clone' = [clone EXCEPT ![g][i] = evId[e][i]]
            /\ pending' = [pending EXCEPT ![g] = @ \ {i}]
            /\ pc' = [pc EXCEPT ![g] = IF pending[g] = {i} THEN "clone_id" ELSE "ev_clone"]
       /\ UNCHANGED <<evId, mId, hstate, allocated, pool, cur, held, dst, result>>

\* Method.Clone: item.id = m.id, one word of the slice header per step.
MClone(g) ==
    LET m == cur[g].obj
    IN /\ pc[g] = "m_clone"
       /\ \E w \in pending[g] :
            /\ clone' = [clone EXCEPT ![g] = IF w = PtrWord THEN [@ EXCEPT !.ptr = mId[m].ptr]
                                                            ELSE [@ EXCEPT !.len = mId[m].len]]
            /\ pending' = [pending EXCEPT ![g] = @ \ {w}]
            /\ pc' = [pc EXCEPT ![g] = IF pending[g] = {w} THEN "clone_id" ELSE "m_clone"]
       /\ UNCHANGED <<evId, mId, hstate, allocated, pool, cur, held, dst, result>>

\* ID on the clone: its cache test, and the return of a cached id (the
\* clone is g's own, so test and return are one step).
CloneID(g) ==
    LET cached == IF cur[g].op = "evclone" THEN clone[g][1] # Zero ELSE clone[g].len > 0
    IN /\ pc[g] = "clone_id"
       /\ pc' = [pc EXCEPT ![g] = IF cached THEN "idle" ELSE "acquire"]
       /\ result' = [result EXCEPT ![g] =
                        IF ~cached THEN @
                        ELSE IF cur[g].op = "evclone" THEN clone[g] ELSE <<clone[g].ptr>>]
       /\ UNCHANGED <<evId, mId, hstate, allocated, pool, cur, held, dst, pending, clone>>

\* Event.ID: the cache test reads the first 8 bytes of e.id.
EvCheck(g) ==
    /\ pc[g] = "ev_check"
    /\ pc' = [pc EXCEPT ![g] = IF evId[cur[g].obj][1] # Zero THEN "ev_return" ELSE "acquire"]
    /\ UNCHANGED <<evId, mId, hstate, allocated, pool, cur, held, dst, pending, clone, result>>

\* Method.ID: the cache test reads len(m.id).
MCheck(g) ==
    /\ pc[g] = "m_check"
    /\ pc' = [pc EXCEPT ![g] = IF mId[cur[g].obj].len > 0 THEN "m_return" ELSE "acquire"]
    /\ UNCHANGED <<evId, mId, hstate, allocated, pool, cur, held, dst, pending, clone, result>>

\* acquireKeccak handing out a pooled hasher without taking it from the pool.
AcquireShared(g) ==
    /\ Goto(g, "acquire", "hash")
    /\ \/ \E h \in pool :
            /\ held' = [held EXCEPT ![g] = h]
            /\ UNCHANGED <<pool, allocated, hstate>>
       \/ \E h \in Hashers \ allocated :
            /\ allocated' = allocated \cup {h}
            /\ hstate' = [hstate EXCEPT ![h] = <<>>]
            /\ held' = [held EXCEPT ![g] = h]
            /\ UNCHANGED pool
    /\ UNCHANGED <<evId, mId, cur, dst, pending, clone, result>>

\* acquireKeccak: keccakPool.Get().
Acquire(g) ==
    /\ Goto(g, "acquire", "hash")
    /\ \/ \E h \in pool :
            /\ pool' = pool \ {h}
            /\ held' = [held EXCEPT ![g] = h]
            /\ UNCHANGED <<allocated, hstate>>
       \/ \E h \in Hashers \ allocated :
            /\ allocated' = allocated \cup {h}
            /\ hstate' = [hstate EXCEPT ![h] = <<>>]
            /\ held' = [held EXCEPT ![g] = h]
            /\ UNCHANGED pool
    /\ UNCHANGED <<evId, mId, cur, dst, pending, clone, result>>

\* k.Write(sig or data) then k.Sum(nil); Method.ID then assigns m.id.
Hash(g) ==
    LET h    == held[g]
        data == Append(hstate[h], cur[g].obj)
    IN /\ Goto(g, "hash", IF cur[g].op = "method" THEN "m_store" ELSE "release")
       /\ hstate' = [hstate EXCEPT ![h] = data]
       /\ dst' = [dst EXCEPT ![g] = Keccak(data)]
       /\ pending' = [pending EXCEPT ![g] = IF cur[g].op = "method" THEN {PtrWord, LenWord} ELSE {}]
       /\ UNCHANGED <<evId, mId, allocated, pool, cur, held, clone, result>>

\* m.id = k.Sum(nil)[:4]: one word of the slice header per step.
MStore(g) ==
    LET m == cur[g].obj
    IN /\ pc[g] = "m_store"
       /\ \E w \in pending[g] :
            /\ mId' = [mId EXCEPT ![m] = IF w = PtrWord THEN [@ EXCEPT !.ptr = dst[g][1]]
                                                        ELSE [@ EXCEPT !.len = 4]]
            /\ pending' = [pending EXCEPT ![g] = @ \ {w}]
            /\ pc' = [pc EXCEPT ![g] = IF pending[g] = {w} THEN "release" ELSE "m_store"]
       /\ UNCHANGED <<evId, hstate, allocated, pool, cur, held, dst, clone, result>>

\* releaseKeccak: k.Reset() then keccakPool.Put(k).  KeccakHash returns
\* its digest after it; Event.ID goes on to copy it into e.id.  A clone's
\* ID stores the digest in the clone, which only g sees, and returns it.
releaseKeccakNoReset(g) ==
    /\ pool' = pool \cup {held[g]}
    /\ held' = [held EXCEPT ![g] = NoHasher]
    /\ UNCHANGED hstate

releaseKeccak(g) ==
    /\ hstate' = [hstate EXCEPT ![held[g]] = <<>>]
    /\ pool' = pool \cup {held[g]}
    /\ held' = [held EXCEPT ![g] = NoHasher]

Release(g) ==
    /\ pc[g] = "release"
    /\ releaseKeccak(g)
    /\ CASE cur[g].op = "event" ->
              /\ pc' = [pc EXCEPT ![g] = "ev_copy"]
              /\ pending' = [pending EXCEPT ![g] = 1..Chunks]
              /\ UNCHANGED <<clone, result>>
         [] cur[g].op = "method" ->
              /\ pc' = [pc EXCEPT ![g] = "m_return"]
              /\ UNCHANGED <<pending, clone, result>>
         [] cur[g].op = "hash" ->
              /\ pc' = [pc EXCEPT ![g] = "idle"]
              /\ result' = [result EXCEPT ![g] = dst[g]]
              /\ UNCHANGED <<pending, clone>>
         [] cur[g].op = "evclone" ->
              /\ pc' = [pc EXCEPT ![g] = "idle"]
              /\ clone' = [clone EXCEPT ![g] = dst[g]]
              /\ result' = [result EXCEPT ![g] = dst[g]]
              /\ UNCHANGED pending
         [] cur[g].op = "mclone" ->
              /\ pc' = [pc EXCEPT ![g] = "idle"]
              /\ clone' = [clone EXCEPT ![g] = [ptr |-> dst[g][1], len |-> 4]]
              /\ result' = [result EXCEPT ![g] = <<dst[g][1]>>]
              /\ UNCHANGED pending
    /\ UNCHANGED <<evId, mId, allocated, cur, dst>>

\* copy(e.id[:], dst): one 8-byte word per step, in any order.
EvCopy(g) ==
    LET e == cur[g].obj
    IN /\ pc[g] = "ev_copy"
       /\ \E i \in pending[g] :
            /\ evId' = [evId EXCEPT ![e][i] = dst[g][i]]
            /\ pending' = [pending EXCEPT ![g] = @ \ {i}]
            /\ pc' = [pc EXCEPT ![g] = IF pending[g] = {i} THEN "ev_return" ELSE "ev_copy"]
       /\ UNCHANGED <<mId, hstate, allocated, pool, cur, held, dst, clone, result>>

\* return e.id: a copy of the 32-byte array.
EvReturn(g) ==
    /\ Goto(g, "ev_return", "idle")
    /\ result' = [result EXCEPT ![g] = evId[cur[g].obj]]
    /\ UNCHANGED <<evId, mId, hstate, allocated, pool, cur, held, dst, pending, clone>>

\* return m.id: the selector bytes behind the slice's pointer.
MReturn(g) ==
    /\ Goto(g, "m_return", "idle")
    /\ result' = [result EXCEPT ![g] = <<mId[cur[g].obj].ptr>>]
    /\ UNCHANGED <<evId, mId, hstate, allocated, pool, cur, held, dst, pending, clone>>

Next ==
    \E g \in Goroutines :
        \/ Call(g) \/ EvCheck(g) \/ MCheck(g) \/ Acquire(g) \/ Hash(g)
        \/ MStore(g) \/ Release(g) \/ EvCopy(g) \/ EvReturn(g) \/ MReturn(g)
        \/ EvClone(g) \/ MClone(g) \/ CloneID(g)

Spec == Init /\ [][Next]_vars

TypeOK ==
    /\ allocated \subseteq Hashers /\ pool \subseteq allocated
    /\ pc \in [Goroutines -> {"idle", "ev_check", "m_check", "acquire", "hash",
                              "m_store", "release", "ev_copy", "ev_return", "m_return",
                              "ev_clone", "m_clone", "clone_id"}]
    /\ held \in [Goroutines -> Hashers \cup {NoHasher}]
    \* a hasher is either in the pool or held by one goroutine
    /\ \A g \in Goroutines : held[g] \notin pool
    /\ pending \in [Goroutines -> SUBSET (1..Chunks)]

(***************************************************************************)
(* Selector stability (spec 8.3): every value an ID call or KeccakHash     *)
(* returns is the digest of exactly the signature or data it was given,  *)
(* and so is the id of a clone (whose signature is its original's):       *)
(* no other goroutine's bytes left in a pooled hasher, no half-written id  *)
(* read back from the cache.                                               *)
(***************************************************************************)
IDCorrect ==
    \A g \in Goroutines :
        pc[g] = "idle" /\ cur[g] # NoCall => result[g] = Promise!Expected(cur[g])

=============================================================================
