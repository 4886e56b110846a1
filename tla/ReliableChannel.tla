--------------------------- MODULE ReliableChannel --------------------------
(***************************************************************************)
(* One direction of yojimbo's reliable ordered channel (yojimbo.cpp,       *)
(* ReliableOrderedChannel): messages and blocks of one side of a           *)
(* connection on their way to the other.  The Connection above it and the  *)
(* endpoints below it are in here as far as they touch it: packets are     *)
(* generated, processed and acknowledged, and an error ends the            *)
(* connection.  Release build: what an assertion forbids goes on.          *)
(*                                                                         *)
(* Time and the bits left in a packet only decide which of the messages    *)
(* that could go into a packet do, so any of them may.                     *)
(***************************************************************************)
EXTENDS Integers, Sequences, FiniteSets, SequencesExt

CONSTANTS
    Values,         \* messages
    Fragments,      \* number of fragments of each, 0 for a message that is no block
    Nothing,        \* no message
    IdWrap,         \* 65536, for message ids
    PacketWrap,     \* 65536, for packet sequence numbers
    SendSize,       \* messageSendQueueSize
    ReceiveSize,    \* messageReceiveQueueSize
    SentSize,       \* sentPacketBufferSize
    MaxPerPacket,   \* maxMessagesPerPacket
    Lifetime,       \* packets after which one no longer arrives
    MaxIdle         \* bound: packets in a row without messages

ASSUME ValuesAssumption == Nothing \notin Values /\ Fragments \in [Values -> Nat]
ASSUME SizesAssumption ==
    /\ SendSize \in Nat \ {0} /\ ReceiveSize \in Nat \ {0} /\ SentSize \in Nat \ {0}
    /\ IdWrap % SendSize = 0 /\ IdWrap % ReceiveSize = 0 /\ PacketWrap % SentSize = 0
    /\ MaxPerPacket \in Nat \ {0} /\ MaxIdle \in Nat

\* Numbers come round again (yojimbo.h:1548), and nothing is mixed up as long as
\* what the queues hold and what is on its way is less than half a lap apart: with
\* the sizes of the code, for a Lifetime of up to 124 packets.
ASSUME BoundsAssumption ==
    /\ IdWrap \in Nat \ {0} /\ IdWrap % 2 = 0
    /\ PacketWrap \in Nat \ {0} /\ PacketWrap % 2 = 0
    /\ Lifetime \in Nat \ {0} /\ Lifetime < PacketWrap
    /\ 2 * (SendSize + ReceiveSize) <= IdWrap
    /\ 2 * (SendSize + MaxPerPacket * (Lifetime - 1)) < IdWrap
    /\ 2 * SendSize + MaxPerPacket * (Lifetime - 1) + 2 <= IdWrap

Ids == INSTANCE SequenceBuffer WITH Wrap <- IdWrap
Packets == INSTANCE SequenceBuffer WITH Wrap <- PacketWrap

VARIABLES
    \* the sending side
    sendMessageId,      \* m_sendMessageId
    oldestUnacked,      \* m_oldestUnackedMessageId
    sendQueue,          \* m_messageSendQueue
    sentPackets,        \* m_sentPackets: what each packet carried
    sendBlock,          \* m_sendBlock
    packetSequence,     \* reliable_endpoint_t::sequence
    \* the receiving side
    receiveMessageId,   \* m_receiveMessageId
    receiveQueue,       \* m_messageReceiveQueue
    receiveBlock,       \* m_receiveBlock
    \* both
    error,              \* the channel's m_errorLevel at the two sides
    connected,          \* no AdvanceTime has found an error yet
    window              \* the packets of the last Lifetime

sender == <<sendMessageId, oldestUnacked, sendQueue, sentPackets, sendBlock, packetSequence>>
receiver == <<receiveMessageId, receiveQueue, receiveBlock>>
vars == <<sender, receiver, error, connected, window>>

Lap(wrap) == wrap - 1
IsBlock(v) == Fragments[v] > 0
Size == IF SendSize < ReceiveSize THEN SendSize ELSE ReceiveSize

\* A packet of the connection: nothing for this channel, messages, or one
\* fragment of a block.
Empty == [messages |-> <<>>, fragment |-> {}]
WithMessages(m) == [messages |-> m, fragment |-> {}]
WithFragment(id, v, i) == [messages |-> <<>>,
                           fragment |-> {[id |-> id, value |-> v, index |-> i]}]
Data == {Empty}
    \union {WithMessages(m) : m \in BoundedSeq([id : Ids!Sequence, value : Values], MaxPerPacket)}
    \union UNION {{WithFragment(id, v, i) : id \in Ids!Sequence, i \in 0..(Fragments[v] - 1)} : v \in Values}
Service == INSTANCE PacketService

Idle == [active |-> FALSE, id |-> 0, acked |-> {}]
NoBlock == [active |-> FALSE, id |-> 0, count |-> 0, received |-> <<>>]

\* Reset, of the channels and of the endpoints below them.
Reset ==
    [ids |-> 0, sendQueue |-> Ids!Buffer(SendSize), receiveQueue |-> Ids!Buffer(ReceiveSize),
     sentPackets |-> Packets!Buffer(SentSize)]

Init ==
    /\ sendMessageId = Reset.ids /\ oldestUnacked = Reset.ids /\ receiveMessageId = Reset.ids
    /\ sendQueue = Reset.sendQueue /\ receiveQueue = Reset.receiveQueue
    /\ sentPackets = Reset.sentPackets
    /\ sendBlock = Idle /\ receiveBlock = NoBlock
    /\ packetSequence = 0
    /\ error = [sender |-> "none", receiver |-> "none"]
    /\ connected = TRUE
    /\ Service!ServiceInit
-----------------------------------------------------------------------------
(* The sending side.                                                       *)

\* SendMessage, with room in the queue.
SendMessage(v) ==
    /\ connected /\ error.sender = "none"
    /\ Ids!Available(sendQueue, sendMessageId)
    /\ sendQueue' = Ids!Insert(sendQueue, sendMessageId, v, Lap(IdWrap))
    /\ sendMessageId' = Ids!Later(sendMessageId, 1)
    /\ UNCHANGED <<oldestUnacked, sentPackets, sendBlock, packetSequence,
                   receiver, error, connected, window>>

\* SendMessage into a full queue: the message is released.
SendQueueFull ==
    /\ connected /\ error.sender = "none"
    /\ ~Ids!Available(sendQueue, sendMessageId)
    /\ error' = [error EXCEPT !.sender = "send queue full"]
    /\ UNCHANGED <<sender, receiver, connected, window>>

\* Mutant of MessagesToSend: a block does not end the packet.
MessagesToSendPastBlock == {i \in 0..(Size - 1) : Ids!Exists(sendQueue, Ids!Later(oldestUnacked, i))}

\* GetMessagesToSend: from the oldest message on, up to the first block and no
\* further than either queue reaches.  As offsets from the oldest.
MessagesToSend ==
    LET at(i) == Ids!Later(oldestUnacked, i)
        blocks == {i \in 0..(Size - 1) :
                     Ids!Exists(sendQueue, at(i)) /\ IsBlock(sendQueue.live[at(i)])}
    IN {i \in 0..(Size - 1) : Ids!Exists(sendQueue, at(i)) /\ \A j \in blocks : i < j}

\* The packet that carries the messages at these offsets.
PacketOf(offsets) ==
    LET message(i) == [id |-> Ids!Later(oldestUnacked, i),
                       value |-> sendQueue.live[Ids!Later(oldestUnacked, i)]]
    IN [k \in DOMAIN offsets |-> message(offsets[k])]

\* GeneratePacket puts d into a packet and AddMessagePacketEntry or
\* AddFragmentPacketEntry remembers it, unless Insert finds it too old.
Transmit(d, entry) ==
    /\ Service!SendPacket(d)
    /\ sentPackets' = Packets!Insert(sentPackets, packetSequence, entry, Lap(PacketWrap))
    /\ packetSequence' = Packets!Later(packetSequence, 1)
    /\ UNCHANGED <<sendMessageId, oldestUnacked, sendQueue, receiver, error, connected>>

SendingBlock ==
    /\ oldestUnacked # sendMessageId
    /\ Ids!Exists(sendQueue, oldestUnacked) /\ IsBlock(sendQueue.live[oldestUnacked])

GenerateMessages ==
    /\ connected /\ oldestUnacked # sendMessageId /\ ~SendingBlock
    /\ \E n \in 1..MaxPerPacket : \E offsets \in [1..n -> MessagesToSend] :
          /\ \A i, j \in 1..n : i < j => offsets[i] < offsets[j]
          /\ LET m == PacketOf(offsets)
             IN Transmit(WithMessages(m), [ids |-> [k \in DOMAIN m |-> m[k].id], fragment |-> {}])
    /\ UNCHANGED sendBlock

\* GetFragmentToSend: it starts the block, and picks a fragment that is due.
Started == IF sendBlock.active THEN sendBlock
                               ELSE [active |-> TRUE, id |-> oldestUnacked, acked |-> {}]
GenerateFragment ==
    /\ connected /\ SendingBlock
    /\ \E i \in 0..(Fragments[sendQueue.live[oldestUnacked]] - 1) \ Started.acked :
          Transmit(WithFragment(oldestUnacked, sendQueue.live[oldestUnacked], i),
                   [ids |-> <<>>, fragment |-> {[id |-> oldestUnacked, index |-> i]}])
    /\ sendBlock' = Started

\* No message, or none that is due.  A block is started all the same.
GenerateEmpty ==
    /\ connected /\ Packets!Distance(sentPackets.next, packetSequence) < MaxIdle
    /\ Service!SendPacket(Empty)
    /\ packetSequence' = Packets!Later(packetSequence, 1)
    /\ sendBlock' = IF SendingBlock THEN Started ELSE sendBlock
    /\ UNCHANGED <<sendMessageId, oldestUnacked, sendQueue, sentPackets,
                   receiver, error, connected>>

\* UpdateOldestUnackedMessageId: on to the oldest message that is left.
OldestLeft(q) ==
    LET n == Ids!Distance(oldestUnacked, q.next)
        left == {i \in 0..(n - 1) : Ids!Exists(q, Ids!Later(oldestUnacked, i))}
    IN IF left = {} THEN q.next
       ELSE Ids!Later(oldestUnacked, CHOOSE i \in left : \A j \in left : i <= j)

\* Mutant of AckFragment: the first acknowledgement is taken for all.
AckFragmentFirst(entry) ==
    IF \E f \in entry.fragment : sendBlock.active /\ f.id = sendBlock.id
    THEN /\ sendQueue' = Ids!Remove(sendQueue, sendBlock.id)
         /\ sendBlock' = Idle
    ELSE UNCHANGED <<sendQueue, sendBlock>>

\* A fragment of the block being sent: with the last one the block is done.
AckFragment(entry) ==
    IF \E f \in entry.fragment : sendBlock.active /\ f.id = sendBlock.id
    THEN LET acked == sendBlock.acked \union {f.index : f \in entry.fragment}
             count == Fragments[sendQueue.live[sendBlock.id]]
         IN IF Cardinality(acked) = count
            THEN /\ sendQueue' = Ids!Remove(sendQueue, sendBlock.id)
                 /\ sendBlock' = Idle
            ELSE /\ sendBlock' = [sendBlock EXCEPT !.acked = acked]
                 /\ UNCHANGED sendQueue
    ELSE UNCHANGED <<sendQueue, sendBlock>>

\* The messages of the packet that are still in the queue are done with.
AckMessages(ids) ==
    LET left == DOMAIN sendQueue.live \ Range(ids)
    IN [sendQueue EXCEPT !.live = [s \in left |-> @[s]]]

\* ProcessAck, in AdvanceTime, of packet number k from the newest.
ProcessAck(k) ==
    LET sequence == (packetSequence - k) % PacketWrap
    IN /\ connected /\ error.sender = "none"
       /\ Service!Acknowledge({k})
       /\ IF Packets!Exists(sentPackets, sequence)
          THEN LET entry == sentPackets.live[sequence]
               IN IF entry.fragment = {}
                  THEN /\ sendQueue' = AckMessages(entry.ids)
                       /\ UNCHANGED sendBlock
                  ELSE AckFragment(entry)
          ELSE UNCHANGED <<sendQueue, sendBlock>>
       /\ oldestUnacked' = IF sendQueue' = sendQueue THEN oldestUnacked ELSE OldestLeft(sendQueue')
       /\ UNCHANGED <<sendMessageId, sentPackets, packetSequence, receiver, error, connected>>
-----------------------------------------------------------------------------
(* The receiving side.                                                     *)

\* Mutant of LastTaken: one too low.
LastTakenLow == Ids!Later(receiveMessageId, ReceiveSize - 2)

\* The last message there is room for.
LastTaken == Ids!Later(receiveMessageId, ReceiveSize - 1)

\* One message of ProcessPacketMessages, on the queue or the error so far: one
\* that was received before is skipped, one past the queue's end is an error.
Processed(q, m) ==
    IF q.error \/ Ids!LessThan(m.id, receiveMessageId) THEN q
    ELSE IF Ids!GreaterThan(m.id, LastTaken) THEN [q EXCEPT !.error = TRUE]
    ELSE IF Ids!Exists(q.queue, m.id) THEN q
    ELSE [q EXCEPT !.queue = Ids!Insert(@, m.id, m.value, Lap(IdWrap))]

ProcessMessages(k, m) ==
    LET done == FoldLeft(Processed, [queue |-> receiveQueue, error |-> FALSE], m)
    IN /\ receiveQueue' = done.queue
       /\ error' = [error EXCEPT !.receiver = IF done.error THEN "desync" ELSE @]
       /\ Service!Deliver(k, ~done.error)
       /\ UNCHANGED receiveBlock

\* Mutant of Expected: the fragments of a block that is complete start it again.
ExpectedAny(f) == TRUE

\* ProcessPacketFragment takes fragments of the next message only: m_receiveBlock
\* is started by the first of them.
Expected(f) == f.id = receiveQueue.next
BlockOf(f) == IF receiveBlock.active THEN receiveBlock
    ELSE [active |-> TRUE, id |-> f.id, count |-> Fragments[f.value], received |-> <<>>]

\* A block whose fragments are not all of one message is no message at all.
Assembled(received) ==
    IF \A i \in DOMAIN received : received[i] = received[0] THEN received[0].value ELSE Nothing

\* The last fragment hands the block to the queue, if its slot is free.
ProcessFragment(k, f) ==
    LET block == BlockOf(f)
        received == [i \in DOMAIN block.received \union {f.index} |->
                       IF i = f.index THEN [id |-> f.id, value |-> f.value]
                                         ELSE block.received[i]]
        complete == /\ f.index \notin DOMAIN block.received
                    /\ Cardinality(DOMAIN received) = block.count
        wrong == f.index >= block.count \/ Fragments[f.value] # block.count
        desync == wrong \/ (complete /\ ~Ids!Available(receiveQueue, f.id))
    IN IF Expected(f)
       THEN /\ Service!Deliver(k, ~desync)
            /\ error' = [error EXCEPT !.receiver = IF desync THEN "desync" ELSE @]
            /\ IF complete /\ ~desync
               THEN /\ receiveQueue' = Ids!Insert(receiveQueue, f.id, Assembled(received), Lap(IdWrap))
                    /\ receiveBlock' = NoBlock
               ELSE /\ receiveBlock' = [block EXCEPT !.received = IF wrong THEN @ ELSE received]
                    /\ UNCHANGED receiveQueue
       ELSE Service!Deliver(k, TRUE) /\ UNCHANGED <<receiveQueue, receiveBlock, error>>

\* Connection::ProcessPacket: a packet that is not taken is not acknowledged.
ProcessPacket(k) ==
    /\ connected /\ error.receiver = "none"
    /\ k \in DOMAIN window
    /\ \E d \in window[k].data :
          IF d.fragment = {} THEN ProcessMessages(k, d.messages)
                             ELSE \E f \in d.fragment : ProcessFragment(k, f)
    /\ UNCHANGED <<sender, receiveMessageId, connected>>

\* Mutant of ReceiveMessage: whatever is in the queue, its order aside.
ReceiveMessageAny ==
    /\ connected /\ error.receiver = "none"
    /\ \E s \in DOMAIN receiveQueue.live : receiveQueue' = Ids!Remove(receiveQueue, s)
    /\ receiveMessageId' = Ids!Later(receiveMessageId, 1)
    /\ UNCHANGED <<sender, receiveBlock, error, connected, window>>

\* ReceiveMessage: the next message is the application's.
ReceiveMessage ==
    /\ connected /\ error.receiver = "none"
    /\ Ids!Exists(receiveQueue, receiveMessageId)
    /\ receiveQueue' = Ids!Remove(receiveQueue, receiveMessageId)
    /\ receiveMessageId' = Ids!Later(receiveMessageId, 1)
    /\ UNCHANGED <<sender, receiveBlock, error, connected, window>>

\* Connection::AdvanceTime at a side whose channel is in error: its client or
\* server disconnects, which resets both sides.
ConnectionError ==
    /\ connected /\ error # [sender |-> "none", receiver |-> "none"]
    /\ connected' = FALSE
    /\ sendMessageId' = Reset.ids /\ oldestUnacked' = Reset.ids /\ receiveMessageId' = Reset.ids
    /\ sendQueue' = Reset.sendQueue /\ receiveQueue' = Reset.receiveQueue
    /\ sentPackets' = Reset.sentPackets
    /\ sendBlock' = Idle /\ receiveBlock' = NoBlock
    /\ packetSequence' = 0 /\ Service!Restart
    /\ UNCHANGED error
-----------------------------------------------------------------------------
Next ==
    \/ \E v \in Values : SendMessage(v)
    \/ SendQueueFull \/ GenerateMessages \/ GenerateFragment \/ GenerateEmpty
    \/ \E k \in 1..Lifetime : ProcessAck(k) \/ ProcessPacket(k)
    \/ ReceiveMessage \/ ConnectionError

Spec == Init /\ [][Next]_vars
-----------------------------------------------------------------------------
(* Properties.                                                             *)

TypeOK ==
    /\ {sendMessageId, oldestUnacked, receiveMessageId} \subseteq Ids!Sequence
    /\ packetSequence \in Packets!Sequence
    /\ sendQueue.next \in Ids!Sequence /\ Range(sendQueue.live) \subseteq Values
    /\ receiveQueue.next \in Ids!Sequence /\ Range(receiveQueue.live) \subseteq Values
    /\ error.sender \in {"none", "send queue full"} /\ error.receiver \in {"none", "desync"}
    /\ Service!WindowType

\* Every number in the two queues lies in the window the code believes it to
\* be in, so no number is mistaken for one a lap before it (yojimbo.h:1548).
QueuesInWindow ==
    /\ Ids!Distance(oldestUnacked, sendMessageId) <= SendSize
    /\ \A s \in DOMAIN sendQueue.live :
          Ids!Distance(oldestUnacked, s) < Ids!Distance(oldestUnacked, sendMessageId)
    /\ \A s \in DOMAIN receiveQueue.live : Ids!Distance(receiveMessageId, s) < ReceiveSize

\* While a block is being sent it is in the send queue, at its head, and the
\* pointer that ProcessAck takes from Find is not null (yojimbo.cpp:2008).
BlockIsOldest ==
    sendBlock.active => /\ sendBlock.id = oldestUnacked
                        /\ Ids!Exists(sendQueue, sendBlock.id)
                        /\ IsBlock(sendQueue.live[sendBlock.id])

\* "Did you forget to dequeue messages on the receiver?" (yojimbo.cpp:1926,
\* 2266): an application that has taken all there is never sees the error.
DesyncOnlyIfBehind ==
    connected /\ error.receiver = "desync" => Ids!Exists(receiveQueue, receiveMessageId)

\* What is being acknowledged is what was sent: every packet that can still be
\* acknowledged and carried messages has its entry (yojimbo.cpp:1891).
EntryOfPacket ==
    \A k \in DOMAIN window : \A d \in window[k].data :
        d # Empty =>
            LET sequence == (packetSequence - k) % PacketWrap
            IN /\ Packets!Exists(sentPackets, sequence)
               /\ LET entry == sentPackets.live[sequence]
                  IN /\ entry.ids = [i \in DOMAIN d.messages |-> d.messages[i].id]
                     /\ {f.index : f \in entry.fragment} = {f.index : f \in d.fragment}

\* The channel is a queue: what was sent and has not been received is in one of
\* the two queues, in the order of its number, and arrives as it was sent.
InTransit ==
    [i \in 1..Ids!Distance(receiveMessageId, sendMessageId) |->
        LET id == Ids!Later(receiveMessageId, i - 1)
        IN IF Ids!Exists(receiveQueue, id) THEN receiveQueue.live[id]
           ELSE IF Ids!Exists(sendQueue, id) THEN sendQueue.live[id] ELSE Nothing]
Queue == INSTANCE MessageQueue WITH
            queue <- InTransit, failed <- (error.sender # "none"), open <- connected,
            Capacity <- SendSize + ReceiveSize
IsQueue == Queue!QueueSpec
=============================================================================
