--------------------------- MODULE SequenceBuffer ---------------------------
(***************************************************************************)
(* Sequence numbers that wrap, and the rolling buffer of entries found by  *)
(* their sequence number, which the channels of yojimbo (yojimbo.h) and    *)
(* the endpoints of reliable.io (reliable.c) are built from.               *)
(*                                                                         *)
(* A buffer is a record: size; next, one past the newest number inserted;  *)
(* live, the entries that are there, by their number.  A number has one    *)
(* slot, and a slot one entry: what the code keeps in entry_sequence.      *)
(***************************************************************************)
EXTENDS Integers, FiniteSets

CONSTANT Wrap       \* 65536

ASSUME WrapAssumption == Wrap \in Nat \ {0} /\ Wrap % 2 = 0

Sequence == 0..(Wrap - 1)

\* Mutant of Later: a sequence number of more than 16 bits.
LaterUnwrapped(s, n) == s + n

Later(s, n) == (s + n) % Wrap
\* How many numbers on from s is t?
Distance(s, t) == (t - s) % Wrap

GreaterThan(s, t) ==
    \/ s > t /\ s - t <= Wrap \div 2
    \/ s < t /\ t - s > Wrap \div 2
LessThan(s, t) == GreaterThan(t, s)

Buffer(size) == [size |-> size, next |-> 0, live |-> <<>>]

Slot(b, s) == s % b.size
Exists(b, s) == s \in DOMAIN b.live
Available(b, s) == \A t \in DOMAIN b.live : Slot(b, t) # Slot(b, s)

\* The buffer with no entries in these slots.
Free(b, slots) ==
    LET left == {s \in DOMAIN b.live : Slot(b, s) \notin slots}
    IN [b EXCEPT !.live = [s \in left |-> b.live[s]]]
Remove(b, s) == Free(b, {Slot(b, s)})
SetEntry(b, s, d) ==
    LET others == Remove(b, s).live
    IN [b EXCEPT !.live = [t \in DOMAIN others \union {s} |-> IF t = s THEN d ELSE others[t]]]

\* The slots from start to finish are freed; lap is what a finish that has
\* wrapped is raised by: Wrap in reliable.c, Wrap - 1 in yojimbo.h.
RemoveEntries(b, start, finish, lap) ==
    LET end == IF finish < start THEN finish + lap ELSE finish
        slots == IF end - start < b.size THEN {s % b.size : s \in start..end}
                                         ELSE 0..(b.size - 1)
    IN Free(b, slots)

\* An entry is not taken in when it is more than a buffer behind the newest.
TooOld(b, s) == LessThan(s, (b.next - b.size) % Wrap)

\* Mutant of Advance: a newer number empties the buffer.
AdvanceEmpty(b, s, lap) ==
    IF GreaterThan(Later(s, 1), b.next) THEN [b EXCEPT !.live = <<>>, !.next = Later(s, 1)] ELSE b

\* A newer number than any before frees all slots in between.
Advance(b, s, lap) ==
    IF GreaterThan(Later(s, 1), b.next)
    THEN [RemoveEntries(b, b.next, s, lap) EXCEPT !.next = Later(s, 1)]
    ELSE b

\* A buffer with an entry d for s.
Put(b, s, d, lap) == SetEntry(Advance(b, s, lap), s, d)

\* An entry d for s, unless s is older than the buffer reaches.
Refuses(b, s) == ~GreaterThan(Later(s, 1), b.next) /\ TooOld(b, s)
Insert(b, s, d, lap) == IF Refuses(b, s) THEN b ELSE Put(b, s, d, lap)
=============================================================================
