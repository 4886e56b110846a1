---------------------------- MODULE PacketService ---------------------------
(***************************************************************************)
(* What a channel of yojimbo relies on below it: packets that arrive in    *)
(* any order, once or never, and acknowledgements that tell the truth,     *)
(* once at most.  Only the last Lifetime packets count: netcode.io's       *)
(* replay protection refuses what is 256 packets behind, and no packet is  *)
(* taken to survive longer on the way than Lifetime others are sent.       *)
(***************************************************************************)
EXTENDS Naturals, Sequences

CONSTANTS
    Data,           \* what a packet can carry
    Lifetime        \* packets sent after which one no longer arrives

VARIABLE window     \* the last packets, newest first: flying with their data, or their fate

Flying(d) == [fate |-> "flying", data |-> {d}]
Processed == [fate |-> "processed", data |-> {}]
Done == [fate |-> "done", data |-> {}]

WindowType ==
    \A k \in DOMAIN window :
        /\ window[k].fate \in {"flying", "processed", "done"}
        /\ window[k].data \subseteq Data
        /\ window[k].data # {} <=> window[k].fate = "flying"

ServiceInit == window = <<>>

SendPacket(d) ==
    window' = SubSeq(<<Flying(d)>> \o window, 1,
                     IF Len(window) < Lifetime THEN Len(window) + 1 ELSE Lifetime)

\* The receiver is handed packet k, and takes it or fails.
Deliver(k, taken) ==
    /\ k \in DOMAIN window /\ window[k].fate = "flying"
    /\ window' = [window EXCEPT ![k] = IF taken THEN Processed ELSE Done]

\* The sender is told that these packets were taken.
Acknowledge(acked) ==
    /\ \A k \in acked : k \in DOMAIN window /\ window[k].fate = "processed"
    /\ window' = [k \in DOMAIN window |-> IF k \in acked THEN Done ELSE window[k]]

\* A new connection: what the last one sent is not understood any more.
Restart == window' = <<>>

ServiceNext ==
    \/ \E d \in Data : SendPacket(d)
    \/ \E k \in 1..Lifetime, taken \in BOOLEAN : Deliver(k, taken)
    \/ \E acked \in SUBSET (1..Lifetime) : Acknowledge(acked)
    \/ Restart

ServiceSpec == ServiceInit /\ [][ServiceNext]_window
=============================================================================
