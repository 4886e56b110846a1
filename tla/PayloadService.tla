--------------------------- MODULE PayloadService ---------------------------
(***************************************************************************)
(* What one side of a netcode connection promises to the library above it: *)
(* payloads are handed over in the order they came in, and none twice      *)
(* before the side begins a new connection, whatever the network repeats.  *)
(* A payload may be lost.                                                  *)
(***************************************************************************)
EXTENDS Naturals, Sequences

CONSTANT Entries        \* payloads with their session and number

VARIABLES
    pending,            \* payloads that are yet to be handed over
    got,                \* payloads that have been handed over
    session,            \* how often the side has begun anew
    taken               \* numbers that have been taken in this session

served == <<pending, got, session, taken>>
-----------------------------------------------------------------------------
Init == pending = <<>> /\ got = <<>> /\ session = 0 /\ taken = {}

\* A number is taken, with its payload or without.
Take(s) ==
    /\ s \notin taken /\ taken' = taken \union {s}
    /\ \/ \E e \in Entries : /\ e.session = session /\ e.sequence = s
                             /\ pending' = Append(pending, e)
       \/ pending' = pending
    /\ UNCHANGED <<got, session>>

HandOver ==
    /\ pending # <<>>
    /\ got' = Append(got, Head(pending)) /\ pending' = Tail(pending)
    /\ UNCHANGED <<session, taken>>

\* A new session; what is pending is thrown away, or stays for the next one.
Begin ==
    /\ pending' \in {<<>>, pending}
    /\ session' = session + 1 /\ taken' = {}
    /\ UNCHANGED got

Next == (\E s \in Nat : Take(s)) \/ HandOver \/ Begin
Spec == Init /\ [][Next]_served
-----------------------------------------------------------------------------
Same(e, f) == e.session = f.session /\ e.sequence = f.sequence

\* No payload is handed over twice.
AtMostOnce == \A i, j \in 1..Len(got) : i # j => ~Same(got[i], got[j])
=============================================================================
