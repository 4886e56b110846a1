---------------------------- MODULE YojimboServer ---------------------------
(***************************************************************************)
(* The server of yojimbo between the game and netcode.io (yojimbo.cpp,     *)
(* Server, BaseServer, Connection, UnreliableUnorderedChannel,             *)
(* NetworkSimulator): one Connection and one endpoint per slot, made when  *)
(* the server starts and used by one client after another.  The channel is *)
(* the unreliable one; ReliableChannel has the other.                      *)
(*                                                                         *)
(* A payload is a packet or a part of one.  The game calls SendMessage and *)
(* ReceiveMessage for slots that are connected only (server.cpp).  Release *)
(* build: what an assertion forbids goes on.                               *)
(***************************************************************************)
EXTENDS Integers, Sequences, FiniteSets

CONSTANTS
    Slots,              \* 0 to maxClients - 1
    Messages,
    SendQueueSize,      \* messageSendQueueSize
    ReceiveQueueSize,   \* messageReceiveQueueSize
    MaxPerPacket,       \* maxMessagesPerPacket
    NumEntries          \* maxSimulatorPackets

PayloadsMax == 256      \* NETCODE_PACKET_QUEUE_SIZE

VARIABLES
    running,
    slot,               \* what there is for each slot, see Unused
    active,             \* NetworkSimulator: m_active
    entries,            \* m_packetEntries
    current,            \* m_currentIndex
    made,               \* history: connections so far
    said,               \* history: messages sent, by whom and in which connection
    heard               \* history: messages that came to whom, and in which

simulator == <<active, entries, current>>
history == <<made, said, heard>>
vars == <<running, slot, simulator, history>>
-----------------------------------------------------------------------------
Packet == UNION {[1..n -> Messages] : n \in 0..MaxPerPacket}

\* A slot nobody has used since the server started.
Unused ==
    [client |-> 0,              \* client_connected: the connection, 0 if it is free
     inbox |-> <<>>,            \* client_packet_queue
     partial |-> {},            \* fragment_reassembly: packets that wait for their other parts
     send |-> <<>>,             \* m_messageSendQueue
     receive |-> <<>>,          \* m_messageReceiveQueue
     channelError |-> FALSE,    \* the channel's m_errorLevel
     error |-> FALSE,           \* the connection's m_errorLevel
     exhausted |-> FALSE]       \* the error level of the slot's allocator

Connected(s) == slot[s].client # 0

\* ConnectDisconnectCallbackFunction and netcode below it: all of the slot is reset
\* but its allocator.
Cleared(x) == [Unused EXCEPT !.exhausted = x.exhausted]

\* An entry of the simulator.
NoPacket == [to |-> 0, messages |-> {}, used |-> FALSE]
Entry(s, d) == [to |-> s, messages |-> d, used |-> TRUE]
NoPackets == [i \in 0..(NumEntries - 1) |-> NoPacket]

Init ==
    /\ running = FALSE
    /\ slot = [s \in Slots |-> Unused]
    /\ active = FALSE /\ entries = NoPackets /\ current = 0
    /\ made = 0 /\ said = {} /\ heard = {}
-----------------------------------------------------------------------------
\* Start makes everything anew, and stops the server first if it has to, and again if
\* netcode has no socket for it.
Renew ==
    /\ slot' = [s \in Slots |-> Unused]
    /\ active' = FALSE /\ entries' = NoPackets /\ current' = 0
    /\ UNCHANGED history
Start == running' \in BOOLEAN /\ Renew
Stop == running /\ running' = FALSE /\ Renew

\* SetLatency and its like end in UpdateActive, which discards what is on its way
\* when the simulator has nothing left to do.
SetSimulator(on) ==
    /\ running /\ active' = on
    /\ entries' = IF on THEN entries ELSE NoPackets
    /\ UNCHANGED <<running, slot, current, history>>

\* SendMessage: with no room left it is an error, and after one nothing is taken.
GameSends(s, m) ==
    /\ running /\ Connected(s)
    /\ slot' = [slot EXCEPT
          ![s].send = IF slot[s].channelError \/ Len(@) >= SendQueueSize THEN @ ELSE Append(@, m),
          ![s].channelError = @ \/ Len(slot[s].send) >= SendQueueSize]
    /\ said' = said \union {[by |-> "game", in |-> slot[s].client, message |-> m]}
    /\ UNCHANGED <<running, simulator, made, heard>>

GameReceives(s) ==
    /\ running /\ Connected(s)
    /\ ~slot[s].channelError /\ slot[s].receive # <<>>
    /\ slot' = [slot EXCEPT ![s].receive = Tail(@)]
    /\ heard' = heard \union
          {[by |-> "game", in |-> slot[s].client, message |-> Head(slot[s].receive)]}
    /\ UNCHANGED <<running, simulator, made, said>>

\* Netcode encrypts a payload for whoever is in the slot.
Reaches(s, d) ==
    {[by |-> "client", in |-> slot[s].client, message |-> m] : m \in IF Connected(s) THEN d ELSE {}}
Netcode(s, d) ==
    /\ heard' = heard \union Reaches(s, d)
    /\ UNCHANGED simulator

Following(i) == (i + 1) % NumEntries

\* NetworkSimulator::SendPacket: lost, kept, or kept twice, in entries that may hold
\* another packet.
Simulate(s, d) ==
    /\ \/ UNCHANGED <<entries, current>>
       \/ /\ entries' = [entries EXCEPT ![current] = Entry(s, d)]
          /\ current' = Following(current)
       \/ /\ entries' = [entries EXCEPT ![current] = Entry(s, d), ![Following(current)] = Entry(s, d)]
          /\ current' = Following(Following(current))
    /\ UNCHANGED <<active, heard>>

\* GeneratePacket: n messages leave the queue, and those of them that fit are sent,
\* unless there is no memory for the packet.
SendPacket(s) ==
    /\ running /\ Connected(s)
    /\ \E n \in 0..Len(slot[s].send) : \E fits \in SUBSET (1..n), out \in BOOLEAN :
          /\ Cardinality(fits) <= MaxPerPacket
          /\ slot' = [slot EXCEPT ![s].send = SubSeq(@, n + 1, Len(@)),
                                  ![s].exhausted = @ \/ out]
          /\ LET d == {slot[s].send[i] : i \in fits}
             IN \/ out /\ d # {} /\ UNCHANGED <<simulator, heard>>
                \/ ~out /\ active /\ Simulate(s, d)
                \/ ~out /\ ~active /\ Netcode(s, d)
    /\ UNCHANGED <<running, made, said>>

\* Netcode puts a payload of the slot's client into its queue, or drops it.
ClientSends(s, d) ==
    /\ running /\ Connected(s)
    /\ slot' = [slot EXCEPT ![s].inbox = IF Len(@) < PayloadsMax THEN Append(@, d) ELSE @]
    /\ said' = said \union
          {[by |-> "client", in |-> slot[s].client, message |-> d[i]] : i \in 1..Len(d)}
    /\ UNCHANGED <<running, simulator, made, heard>>

\* Connection::ProcessPacket.  A packet that cannot be read is an error, of the
\* connection or of the channel, and it may be that there was no memory to read it.
\* Of its messages those are taken that there is room for.
Unread(x) ==
    {[x EXCEPT !.error = TRUE, !.exhausted = x.exhausted \/ out] : out \in BOOLEAN}
    \union {[x EXCEPT !.channelError = TRUE, !.exhausted = x.exhausted \/ out] : out \in BOOLEAN}
Room(x) == ReceiveQueueSize - Len(x.receive)
Read(x, d) ==
    [x EXCEPT !.receive = @ \o SubSeq(d, 1, IF Len(d) < Room(x) THEN Len(d) ELSE Room(x))]
Processed(x, d) ==
    IF x.error THEN {x} ELSE Unread(x) \union {IF x.channelError THEN x ELSE Read(x, d)}

\* One payload of ReceivePackets: a packet, or a part of one, which waits for the
\* others or is the last of one that has waited.  It may be too old, and a packet that
\* still waits may be given up.
ReceivePacket(s) ==
    /\ running /\ Connected(s) /\ slot[s].inbox # <<>>
    /\ LET x == [slot[s] EXCEPT !.inbox = Tail(@)]
           waiting == x.partial \union {Head(slot[s].inbox)}
       IN \/ \E kept \in SUBSET waiting :
                slot' = [slot EXCEPT ![s] = [x EXCEPT !.partial = kept]]
          \/ \E whole \in waiting : \E kept \in SUBSET (waiting \ {whole}) :
                \E y \in Processed([x EXCEPT !.partial = kept], whole) :
                   slot' = [slot EXCEPT ![s] = y]
    /\ UNCHANGED <<running, simulator, history>>

\* A client is given a free slot.  The callback resets nothing.
ClientConnects(s) ==
    /\ running /\ ~Connected(s)
    /\ made' = made + 1
    /\ slot' = [slot EXCEPT ![s].client = made + 1]
    /\ UNCHANGED <<running, simulator, said, heard>>

\* A slot is freed, for whatever reason.
Free(s) ==
    /\ slot' = [slot EXCEPT ![s] = Cleared(slot[s])]
    /\ entries' = IF active
                  THEN [i \in DOMAIN entries |->
                          IF entries[i].used /\ entries[i].to = s THEN NoPacket ELSE entries[i]]
                  ELSE entries
    /\ UNCHANGED <<running, active, current, history>>

Disconnect(s) == running /\ Connected(s) /\ Free(s)

\* BaseServer::AdvanceTime at one slot, which need not be connected.
Failing(x) == x.channelError \/ x.error \/ x.exhausted
AdvanceSlot(s) ==
    /\ running /\ Failing(slot[s])
    /\ IF Connected(s) THEN Free(s)
       ELSE /\ slot' = [slot EXCEPT ![s].error = TRUE]
            /\ UNCHANGED <<running, simulator, history>>

\* Server::AdvanceTime hands over what the simulator has held back long enough.
FlushEntry(i) ==
    /\ running /\ active /\ entries[i].used
    /\ entries' = [entries EXCEPT ![i] = NoPacket]
    /\ heard' = heard \union Reaches(entries[i].to, entries[i].messages)
    /\ UNCHANGED <<running, slot, active, current, made, said>>

Next ==
    \/ Start \/ Stop
    \/ \E on \in BOOLEAN : SetSimulator(on)
    \/ \E s \in Slots :
          \/ \E m \in Messages : GameSends(s, m)
          \/ \E d \in Packet : ClientSends(s, d)
          \/ GameReceives(s) \/ SendPacket(s) \/ ReceivePacket(s)
          \/ ClientConnects(s) \/ Disconnect(s) \/ AdvanceSlot(s)
    \/ \E i \in 0..(NumEntries - 1) : FlushEntry(i)

Spec == Init /\ [][Next]_vars
-----------------------------------------------------------------------------
(* Properties.                                                             *)

SlotType ==
    [client : 0..made, inbox : Seq(Packet), partial : SUBSET Packet,
     send : Seq(Messages), receive : Seq(Messages),
     channelError : BOOLEAN, error : BOOLEAN, exhausted : BOOLEAN]
TypeOK ==
    /\ running \in BOOLEAN /\ active \in BOOLEAN /\ made \in Nat
    /\ slot \in [Slots -> SlotType]
    /\ entries \in [0..(NumEntries - 1) ->
                       [to : Slots \union {0}, messages : SUBSET Messages, used : BOOLEAN]]
    /\ \A i \in DOMAIN entries : entries[i].used => entries[i].to \in Slots

Partner(side) == IF side = "game" THEN "client" ELSE "game"

\* What the game hears in a connection its client said in that connection, and the
\* other way round: nothing of a client that had the slot before, whether it was in
\* a queue, in parts, or held back by the simulator (yojimbo.cpp:3950).
OnlyOwnMessages ==
    \A h \in heard : [h EXCEPT !.by = Partner(@)] \in said

\* A free slot is as it was when the server started, but for its allocator: the
\* client that is given it finds it so, as connecting resets nothing.
FreeIsFresh ==
    \A s \in Slots : ~Connected(s) =>
        slot[s] = [Unused EXCEPT !.exhausted = slot[s].exhausted, !.error = slot[s].error]

\* A client is thrown out for an error of its own connection, or because the slot's
\* allocator failed, whoever had the slot then: nothing clears that (yojimbo.cpp:2893).
ErrorsAreOwn ==
    \A s \in Slots : slot[s].error \/ slot[s].channelError => Connected(s) \/ slot[s].exhausted
=============================================================================
