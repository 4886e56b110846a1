---------------------------- MODULE HeapService ----------------------------
(***************************************************************************)
(* What an allocator promises its callers: the blocks they hold lie in the *)
(* pool, none overlaps another, and one that is moved has room of its own  *)
(* while it is copied.  Whether a request is granted is up to it.          *)
(***************************************************************************)
EXTENDS Naturals

CONSTANTS
    PoolWords,      \* words of the pool
    Sizes           \* bound: words of a request

VARIABLE held       \* blocks that callers hold: where they start, and the words asked for

Block == [at : 0..PoolWords, words : Sizes]
Disjoint(a, b) == a.at + a.words <= b.at \/ b.at + b.words <= a.at
Fits(b, others) == b.at + b.words <= PoolWords /\ \A o \in others : Disjoint(b, o)
-----------------------------------------------------------------------------
Init == held = {}

Allocate == \E b \in Block : Fits(b, held) /\ held' = held \union {b}
Free == \E b \in held : held' = held \ {b}

\* In place, where the others leave room; or elsewhere, while the old block is still held.
Resize == \E b \in held : \E n \in Block :
             /\ n.at = b.at /\ Fits(n, held \ {b})
             /\ held' = (held \ {b}) \union {n}
Move == \E b \in held : \E n \in Block : Fits(n, held) /\ held' = (held \ {b}) \union {n}

Next == Allocate \/ Free \/ Resize \/ Move
Spec == Init /\ [][Next]_held
=============================================================================
