--------------------------- MODULE NetcodePackets ---------------------------
(***************************************************************************)
(* One side of a netcode connection as the receiver of numbered packets    *)
(* (yojimbo/netcode.io/netcode.c): the keys it reads with, its replay      *)
(* protection and its queue of payloads.  The side is a client, or a slot  *)
(* of the server.  The network may deliver what was ever sent, late, out   *)
(* of order and any number of times; a packet written with another key     *)
(* cannot be read.  Numbers have 64 bits and do not wrap.                  *)
(*                                                                         *)
(* Challenges, responses and denials are not protected and carry no        *)
(* payload: NetcodeConnection has them.  Here they use up numbers.         *)
(***************************************************************************)
EXTENDS Integers, Sequences

CONSTANTS
    Keys,           \* the keys of a connect token, one pair per token
    Payloads,
    Nothing         \* what is in the queue before it is used

BufferSize == 256   \* NETCODE_REPLAY_PROTECTION_BUFFER_SIZE
QueueSize == 256    \* NETCODE_PACKET_QUEUE_SIZE
Never == -1         \* 0xFFFFFFFFFFFFFFFF, no number has it

VARIABLES
    sequence,       \* the next number that is written with each key
    wire,           \* packets ever sent
    state,          \* of the receiver
    key,            \* read_packet_key, when it is not disconnected
    mostRecent,     \* most_recent_sequence
    received,       \* received_packet
    queue,          \* packet_data and packet_sequence
    start,          \* start_index
    count,          \* num_packets
    session,        \* history: how often replay protection was reset
    accepted,       \* history: numbers accepted since
    got             \* history: payloads handed over

receiver == <<state, key, mostRecent, received, queue, start, count, session, accepted, got>>
vars == <<sequence, wire, receiver>>
-----------------------------------------------------------------------------
Kinds == {"keep_alive", "payload", "disconnect"}
Packet == [key : Keys, sequence : Nat, kind : Kinds, data : Payloads]
Entry == [session : Nat, sequence : Nat, data : Payloads]

Unused == [i \in 0..(BufferSize - 1) |-> Never]
Empty == [i \in 0..(QueueSize - 1) |-> Nothing]
At(i) == (start + i) % QueueSize

\* The payloads in the queue, oldest first.
Pending == [i \in 1..count |-> queue[At(i - 1)]]

Init ==
    /\ sequence = [k \in Keys |-> 0] /\ wire = {}
    /\ state = "disconnected" /\ key \in Keys
    /\ mostRecent = 0 /\ received = Unused
    /\ queue = Empty /\ start = 0 /\ count = 0
    /\ session = 0 /\ accepted = {} /\ got = <<>>
-----------------------------------------------------------------------------
(* The sender.                                                             *)

Send(k, kind, d) ==
    /\ wire' = wire \union {[key |-> k, sequence |-> sequence[k], kind |-> kind, data |-> d]}
    /\ sequence' = [sequence EXCEPT ![k] = @ + 1]
    /\ UNCHANGED receiver

\* A request or response of a client that connects, numbered like the rest.
SendHandshake(k) == sequence' = [sequence EXCEPT ![k] = @ + 1] /\ UNCHANGED <<wire, receiver>>

\* The sender disconnects, or is another server the token is shown to.
SenderBegins(k) == sequence' = [sequence EXCEPT ![k] = 0] /\ UNCHANGED <<wire, receiver>>
-----------------------------------------------------------------------------
(* Replay protection.                                                      *)

TooOld(s) == s + BufferSize <= mostRecent
AlreadyReceived(s) ==
    \/ TooOld(s)
    \/ received[s % BufferSize] # Never /\ received[s % BufferSize] >= s

AdvanceSequence(s) ==
    /\ mostRecent' = IF s > mostRecent THEN s ELSE mostRecent
    /\ received' = [received EXCEPT ![s % BufferSize] = s]
    /\ accepted' = accepted \union {s}

\* A new count of numbers.
ResetProtection ==
    mostRecent' = 0 /\ received' = Unused /\ accepted' = {} /\ session' = session + 1
-----------------------------------------------------------------------------
(* The receiver.                                                           *)

\* A payload that is too many is freed.
Push(e) ==
    IF count = QueueSize THEN UNCHANGED <<queue, start, count>>
    ELSE queue' = [queue EXCEPT ![At(count)] = e] /\ count' = count + 1 /\ UNCHANGED start

\* What is left of the reading of a packet that arrives: one with the right key,
\* whose number is new and counts as received from now on, whatever comes of it.
Read(p, kind) ==
    /\ state # "disconnected" /\ p.kind = kind
    /\ p.key = key /\ ~AlreadyReceived(p.sequence)
    /\ AdvanceSequence(p.sequence)
    /\ UNCHANGED <<sequence, wire, key, session, got>>

ReadKeepAlive(p) ==
    /\ Read(p, "keep_alive")
    /\ state' = IF state = "response" THEN "connected" ELSE state
    /\ UNCHANGED <<queue, start, count>>

ReadPayload(p) ==
    /\ Read(p, "payload")
    /\ IF state = "connected"
       THEN Push([session |-> session, sequence |-> p.sequence, data |-> p.data])
       ELSE UNCHANGED <<queue, start, count>>
    /\ UNCHANGED state

\* Another way to lose the connection: the end itself is an action of its own.
ReadDisconnect(p) == Read(p, "disconnect") /\ UNCHANGED <<state, queue, start, count>>

Challenge ==
    /\ state = "request" /\ state' = "response"
    /\ UNCHANGED <<sequence, wire, key, mostRecent, received, queue, start, count, session, accepted, got>>

ReceivePacket ==
    /\ count > 0
    /\ got' = Append(got, queue[start])
    /\ start' = (start + 1) % QueueSize /\ count' = count - 1
    /\ UNCHANGED <<sequence, wire, state, key, mostRecent, received, queue, session, accepted>>

\* A client begins to connect; or a client is given the slot, which reads at once.
Begin(k, s) ==
    /\ state = "disconnected" /\ state' = s /\ key' = k
    /\ ResetProtection
    /\ UNCHANGED <<sequence, wire, queue, start, count, got>>

\* A client whose token names another server tries that: the keys are the same,
\* and so is the queue, with what the last server has sent.
NextServer ==
    /\ state # "disconnected" /\ state' = "request"
    /\ ResetProtection
    /\ UNCHANGED <<sequence, wire, key, queue, start, count, got>>

\* The end of a connection, for whatever reason: the queue is emptied and cleared.
End ==
    /\ state # "disconnected" /\ state' = "disconnected"
    /\ queue' = Empty /\ start' = 0 /\ count' = 0
    /\ ResetProtection
    /\ UNCHANGED <<sequence, wire, key, got>>

Next ==
    \/ \E k \in Keys, kind \in Kinds, d \in Payloads : Send(k, kind, d)
    \/ \E k \in Keys : SendHandshake(k) \/ SenderBegins(k)
    \/ \E p \in wire : ReadKeepAlive(p) \/ ReadPayload(p) \/ ReadDisconnect(p)
    \/ Challenge \/ ReceivePacket \/ NextServer \/ End
    \/ \E k \in Keys, s \in {"request", "connected"} : Begin(k, s)

Spec == Init /\ [][Next]_vars
-----------------------------------------------------------------------------
(* Properties.                                                             *)

TypeOK ==
    /\ sequence \in [Keys -> Nat] /\ wire \subseteq Packet
    /\ state \in {"disconnected", "request", "response", "connected"} /\ key \in Keys
    /\ mostRecent \in Nat /\ received \in [0..(BufferSize - 1) -> Nat \union {Never}]
    /\ queue \in [0..(QueueSize - 1) -> Entry \union {Nothing}]
    /\ start \in 0..(QueueSize - 1) /\ count \in 0..QueueSize
    /\ session \in Nat /\ accepted \subseteq Nat /\ got \in Seq(Entry)

\* Replay protection turns away the numbers that were accepted and those that the
\* window has passed, and not one more: entries of the buffer are shared by numbers
\* that are a multiple of its size apart, and not one of them stands for another.
WindowExact == \A s \in Nat : AlreadyReceived(s) <=> s \in accepted \/ TooOld(s)

\* Every payload that is handed over was sent, under the number it comes with.
OnlySent ==
    \A i \in 1..Len(got) : \E p \in wire :
        p.kind = "payload" /\ p.sequence = got[i].sequence /\ p.data = got[i].data

\* The queue loses and repeats nothing, in spite of its ring, its overflow and
\* the sessions in between, and no payload comes twice.
Service == INSTANCE PayloadService WITH Entries <- Entry, pending <- Pending, taken <- accepted
IsService == Service!Spec
HandedOverOnce == Service!AtMostOnce
=============================================================================
