-------------------------- MODULE ReliableEndpoint --------------------------
(***************************************************************************)
(* reliable.io (reliable.c): the endpoints at the two sides of a           *)
(* connection.  They number the packets, cut large ones into fragments     *)
(* and put them together again, and acknowledge in every packet which of   *)
(* the last ones of the other side were processed.                         *)
(*                                                                         *)
(* Below is netcode.io over UDP: the parts of a packet arrive in any       *)
(* order, at most once (its replay protection), or never: what is lost is  *)
(* in flight for good.                                                     *)
(***************************************************************************)
EXTENDS Sequences, SequenceBuffer

CONSTANTS
    Client, Server, \* the two endpoints
    Sizes,          \* in how many parts packets of each side go, 1 for no fragments
    SentSize,       \* sent_packets_buffer_size
    ReceivedSize,   \* received_packets_buffer_size
    ReassemblySize, \* fragment_reassembly_buffer_size
    AckBits,        \* 32
    AckSize,        \* ack_buffer_size
    Lifetime,       \* bound: packets a side sends after which one no longer arrives
    MaxLost,        \* bound: packets in a row of which nothing arrives
    MaxAhead        \* bound: packets that one side sends ahead of the other

Side == {Client, Server}

ASSUME SidesAssumption == Client # Server /\ Sizes \in [Side -> SUBSET (Nat \ {0})]
ASSUME SizesAssumption ==
    /\ \A size \in {SentSize, ReceivedSize, ReassemblySize} : size \in Nat \ {0} /\ Wrap % size = 0
    /\ {AckBits, AckSize, MaxLost, MaxAhead} \subseteq Nat
\* A number is not used again before what carried it last is forgotten.
ASSUME BoundsAssumption ==
    /\ Lifetime \in [Side -> Nat \ {0}]
    /\ 2 * MaxLost < Wrap
    /\ MaxLost + ReceivedSize < Wrap /\ MaxLost + ReassemblySize < Wrap
    /\ \A e \in Side : /\ 2 * Lifetime[e] <= Wrap
                       /\ MaxLost + AckBits + 2 * MaxAhead + Lifetime[e] <= Wrap

VARIABLES
    sequence,       \* sequence: number of the next packet
    sent,           \* sent_packets: whether each was acknowledged
    received,       \* received_packets
    reassembly,     \* fragment_reassembly
    acks,           \* acks, not yet fetched
    flight          \* the last Lifetime packets, newest first, and what became of them

vars == <<sequence, sent, received, reassembly, acks, flight>>

Parts == UNION {0..(n - 1) : n \in UNION {Sizes[e] : e \in Side}}
Other(e) == IF e = Client THEN Server ELSE Client

Init ==
    /\ sequence = [e \in Side |-> 0]
    /\ sent = [e \in Side |-> Buffer(SentSize)]
    /\ received = [e \in Side |-> Buffer(ReceivedSize)]
    /\ reassembly = [e \in Side |-> Buffer(ReassemblySize)]
    /\ acks = [e \in Side |-> {}]
    /\ flight = [e \in Side |-> <<>>]

\* The number of the packet k back from the next one of e.
Number(e, k) == (sequence[e] - k) % Wrap
-----------------------------------------------------------------------------
(* Sending.                                                                *)

\* Mutant of AckHeader: the newest number counts as processed.
AckHeaderNewest(e) ==
    LET ack == (received[e].next - 1) % Wrap
    IN [ack |-> ack,
        acked |-> {ack} \union {s \in DOMAIN received[e].live : Distance(s, ack) < AckBits}]

\* generate_ack_bits: the newest number, and which of the AckBits up to it were
\* processed.
AckHeader(e) ==
    LET ack == (received[e].next - 1) % Wrap
    IN [ack |-> ack, acked |-> {s \in DOMAIN received[e].live : Distance(s, ack) < AckBits}]

\* send_packet, in n parts: the header goes with part 0.  Before it sends, yojimbo
\* has fetched what was acknowledged.
SendPacket(e, n) ==
    /\ acks[e] = {}
    /\ Distance(received[Other(e)].next, sequence[e]) < MaxLost
    /\ Distance(sequence[Other(e)], sequence[e]) \notin MaxAhead..(Wrap \div 2)
    /\ LET packet == [parts |-> 0..(n - 1), total |-> n, header |-> {AckHeader(e)}, fate |-> "flying"]
           longer == <<packet>> \o flight[e]
       IN flight' = [flight EXCEPT ![e] =
             IF Len(longer) > Lifetime[e] THEN SubSeq(longer, 1, Lifetime[e]) ELSE longer]
    /\ sent' = [sent EXCEPT ![e] = Put(@, sequence[e], FALSE, Wrap)]
    /\ sequence' = [sequence EXCEPT ![e] = Later(@, 1)]
    /\ UNCHANGED <<received, reassembly, acks>>
-----------------------------------------------------------------------------
(* Receiving.                                                              *)

\* Mutant of NewAcks: a number is taken for new whenever it is acknowledged.
NewAcksAgain(e, header) == {s \in header.acked : Exists(sent[e], s)}

\* The numbers of a header that are acknowledged for the first time, newest
\* first and as many as there is room for.
NewAcks(e, header) ==
    LET fresh == {s \in header.acked : Exists(sent[e], s) /\ ~sent[e].live[s]}
        newer(s) == {t \in fresh : Distance(t, header.ack) < Distance(s, header.ack)}
    IN {s \in fresh : Cardinality(acks[e]) + Cardinality(newer(s)) < AckSize}

\* Part i of packet k of the other side has arrived, and this becomes of the packet.
Arrives(e, k, i, fate) ==
    LET o == Other(e)
    IN flight' = [flight EXCEPT ![o][k].parts = @ \ {i}, ![o][k].fate = fate,
                                ![o][k].header = IF i = 0 THEN {} ELSE @]

\* receive_packet with all of packet k: it is processed, unless it is too old,
\* and its acknowledgements count if that went well.
ReceiveWhole(e, k, i, header, receivedNow, reassemblyNow) ==
    LET o == Other(e)
        s == Number(o, k)
        keep == received' = [received EXCEPT ![e] = receivedNow]
                /\ reassembly' = [reassembly EXCEPT ![e] = reassemblyNow]
                /\ UNCHANGED <<sent, acks>>
        new == NewAcks(e, header)
    IN IF TooOld(receivedNow, s)
       THEN keep /\ Arrives(e, k, i, flight[o][k].fate)
       ELSE \/ keep /\ Arrives(e, k, i, "done")
            \/ /\ received' = [received EXCEPT ![e] = Put(receivedNow, s, TRUE, Wrap)]
               /\ reassembly' = [reassembly EXCEPT ![e] = Advance(reassemblyNow, s, Wrap)]
               /\ acks' = [acks EXCEPT ![e] = @ \union new]
               /\ sent' = [sent EXCEPT ![e].live = [t \in DOMAIN @ |-> @[t] \/ t \in new]]
               /\ Arrives(e, k, i, "processed")

\* Mutant of NewReassembly: the memory of the packet before is not cleared.
NewReassemblyStale(e, s, total) ==
    LET old == {t \in DOMAIN reassembly[e].live : Slot(reassembly[e], t) = Slot(reassembly[e], s)}
    IN [total |-> total, header |-> {}, got |-> UNION {reassembly[e].live[t].got : t \in old}]

\* A reassembly of packet s, with nothing received yet.
NewReassembly(e, s, total) == [total |-> total, got |-> {}, header |-> {}]

\* receive_packet with part i of packet k, one of several.
ReceiveFragment(e, k, i) ==
    LET o == Other(e)
        p == flight[o][k]
        s == Number(o, k)
        known == Exists(reassembly[e], s)
        buffer == IF known THEN reassembly[e]
                  ELSE Insert(reassembly[e], s, NewReassembly(e, s, p.total), Wrap)
        receivedNow == IF known THEN received[e] ELSE Advance(received[e], s, Wrap)
        old == buffer.live[s]
        new == [old EXCEPT !.got = @ \union {i}, !.header = IF i = 0 THEN p.header ELSE @]
    IN IF ~known /\ Refuses(reassembly[e], s)
       THEN Arrives(e, k, i, p.fate) /\ UNCHANGED <<sent, received, reassembly, acks>>
       ELSE IF old.total # p.total \/ i \in old.got \/ new.got # 0..(new.total - 1)
       THEN /\ received' = [received EXCEPT ![e] = receivedNow]
            /\ reassembly' = [reassembly EXCEPT ![e] =
                  IF old.total # p.total \/ i \in old.got THEN buffer ELSE SetEntry(buffer, s, new)]
            /\ Arrives(e, k, i, p.fate)
            /\ UNCHANGED <<sent, acks>>
       ELSE \E header \in new.header :
               ReceiveWhole(e, k, i, header, receivedNow, Remove(buffer, s))

\* One part of packet k, the first packet being the newest.
ReceivePacket(e, k, i) ==
    LET o == Other(e)
    IN /\ k \in DOMAIN flight[o] /\ i \in flight[o][k].parts
       /\ IF flight[o][k].total = 1
          THEN \E header \in flight[o][k].header :
                  ReceiveWhole(e, k, i, header, received[e], reassembly[e])
          ELSE ReceiveFragment(e, k, i)
       /\ UNCHANGED sequence

\* get_acks and clear_acks: the connection above is told what was acknowledged.
FetchAcks(e) ==
    /\ acks[e] # {}
    /\ acks' = [acks EXCEPT ![e] = {}]
    /\ flight' = [flight EXCEPT ![e] = [k \in DOMAIN @ |->
                    IF Number(e, k) \in acks[e] THEN [@[k] EXCEPT !.fate = "done"] ELSE @[k]]]
    /\ UNCHANGED <<sequence, sent, received, reassembly>>

\* reset, at both sides: what is in flight belongs to the connection before.
Reset ==
    /\ sequence' = [e \in Side |-> 0]
    /\ sent' = [e \in Side |-> Buffer(SentSize)]
    /\ received' = [e \in Side |-> Buffer(ReceivedSize)]
    /\ reassembly' = [e \in Side |-> Buffer(ReassemblySize)]
    /\ acks' = [e \in Side |-> {}]
    /\ flight' = [e \in Side |-> <<>>]
-----------------------------------------------------------------------------
Next ==
    \/ \E e \in Side : \/ \E n \in Sizes[e] : SendPacket(e, n)
                       \/ \E k \in 1..Lifetime[Other(e)], i \in Parts : ReceivePacket(e, k, i)
                       \/ FetchAcks(e)
    \/ Reset

Spec == Init /\ [][Next]_vars
-----------------------------------------------------------------------------
(* Properties.                                                             *)

\* A slot of a buffer holds one entry.
WellFormed(b) ==
    /\ DOMAIN b.live \subseteq Sequence /\ b.next \in Sequence
    /\ \A s, t \in DOMAIN b.live : Slot(b, s) = Slot(b, t) => s = t
TypeOK ==
    \A e \in Side :
        /\ sequence[e] \in Sequence
        /\ sent[e].live \in [DOMAIN sent[e].live -> BOOLEAN]
        /\ acks[e] \subseteq Sequence
        /\ WellFormed(sent[e]) /\ WellFormed(received[e]) /\ WellFormed(reassembly[e])

\* The channels above are promised by either side that packets are processed
\* once at most, and that those acknowledged were processed.
Promised(e) == [k \in DOMAIN flight[e] |->
                   [fate |-> flight[e][k].fate,
                    data |-> IF flight[e][k].fate = "flying" THEN {"packet"} ELSE {}]]
ToServer == INSTANCE PacketService
    WITH window <- Promised(Client), Data <- {"packet"}, Lifetime <- Lifetime[Client]
ToClient == INSTANCE PacketService
    WITH window <- Promised(Server), Data <- {"packet"}, Lifetime <- Lifetime[Server]
IsService == ToServer!ServiceSpec /\ ToClient!ServiceSpec

\* The channels are told of a packet once (yojimbo.cpp:1985): no number waits to
\* be told whose packet was not processed or whose channel knows, however often
\* it comes in a header.
AckedOnce ==
    \A e \in Side : \A k \in DOMAIN flight[e] :
        Number(e, k) \in acks[e] => flight[e][k].fate = "processed"

\* A packet is processed when all of its parts have arrived, and these only
\* (reliable.c:1246).
OnlyWhole ==
    [][\A e \in Side : \A k \in DOMAIN flight[e] \intersect DOMAIN flight'[e] :
          sequence'[e] = sequence[e]
          /\ flight'[e][k].fate # flight[e][k].fate => flight'[e][k].parts = {}]_vars

\* A packet that was processed is told of in every header, as long as it is one
\* of the newest: an acknowledgement that is lost comes again (reliable.c:359).
Remembered ==
    \A e \in Side : \A k \in DOMAIN flight[Other(e)] :
        LET o == Other(e)
            reach == IF AckBits < ReceivedSize THEN AckBits ELSE ReceivedSize
        IN flight[o][k].fate = "processed"
           /\ Distance(Number(o, k), received[e].next) <= reach
              => Number(o, k) \in AckHeader(e).acked
=============================================================================
