-------------------------- MODULE NetcodeConnection --------------------------
(***************************************************************************)
(* netcode.io (netcode.c): how clients with a connect token get a slot of  *)
(* a server over UDP, keep it, and lose it.  The layer below the endpoints *)
(* of reliable.io.                                                         *)
(*                                                                         *)
(* Time goes in ticks.  An update of a client or of the server receives    *)
(* some of the packets on their way to it, in any order, then sends, then  *)
(* looks for timeouts.  It may come late, but the updates that share a     *)
(* tick count as one.  A packet arrives in the tick it was sent in, in the *)
(* next or never, and may overtake others; those of the handshake also     *)
(* arrive again, the others once (the replay protection of netcode.c).     *)
(*                                                                         *)
(* Every client has an address and an identity of its own.  Release build: *)
(* what an assertion forbids goes on.                                      *)
(***************************************************************************)
EXTENDS Integers, Sequences, FiniteSets, FiniteSetsExt, SequencesExt

CONSTANTS
    Clients, Server, Nobody,
    NumSlots,       \* max_clients of each start of the server, which bounds the starts
    NumMappings,    \* NETCODE_MAX_ENCRYPTION_MAPPINGS
    NumServers,     \* addresses in a client's tokens: this server's, and others that do not answer
    Timeout,        \* timeout_seconds of every token, in ticks
    MaxLate,        \* bound: ticks from one update to the next, of each process
    MaxTokens,      \* bound: tokens that each client is given
    MaxBatch        \* bound: packets that one update receives

Process == Clients \union {Server}

ASSUME ProcessAssumption == Server \notin Clients /\ Nobody \notin Process
ASSUME BoundsAssumption ==
    /\ NumSlots \in Seq(Nat \ {0}) /\ NumSlots # <<>>
    /\ {NumMappings, Timeout} \subseteq Nat \ {0} /\ NumServers \in [Clients -> Nat \ {0}]
    /\ MaxLate \in [Process -> Nat \ {0}] /\ MaxTokens \in [Clients -> Nat] /\ MaxBatch \in Nat

Slots(start) == 0..(NumSlots[start] - 1)
Mappings == 0..(NumMappings - 1)

VARIABLES
    client,         \* struct netcode_client_t of each
    server,         \* struct netcode_server_t
    tokens,         \* how many tokens each client was given
    network,        \* the packets sent in this tick
    delayed,        \* those of the tick before that may still arrive
    late            \* ticks since the last update of each

vars == <<client, server, tokens, network, delayed, late>>

\* NETCODE_CLIENT_STATE_*; the negative ones are one, as in yojimbo (CLIENT_STATE_ERROR).
Connecting == {"sending request", "sending response"}
Ended == {"disconnected", "error"}
Active(c) == client[c].state \notin Ended

\* Ages stop counting when they are past every limit.
Aged(age, n) == IF age + n > Timeout THEN Timeout + 1 ELSE age + n

\* Token n of client c stands for its keys, too: what was encrypted for one token
\* is read with that token only.
NoToken == <<Nobody, 0>>
Packet(to, kind, token, arg) == [to |-> to, kind |-> kind, token |-> token, arg |-> arg]

\* netcode_client_reset_connection_data: heard is the time since last_packet_receive_time,
\* leaving is should_disconnect_state, key that of the challenge.
Reset(state) ==
    [state |-> state, token |-> NoToken, address |-> 0, heard |-> 0, leaving |-> "no",
     key |-> 0, index |-> 0]

\* netcode_server_start, and the server that is not running.  The slots that are
\* connected: [index, client, mapping, heard].  The encryption mappings that hold
\* keys: [index, address, token, access, waiting], used access ticks ago and, till
\* the client is connected, added waiting ticks ago, or else -1.
Started(n) ==
    [running |-> TRUE, key |-> n, slots |-> {}, connected |-> 0, mappings |-> {}, used |-> 0]
Stopped(n) == [Started(n) EXCEPT !.running = FALSE]

Init ==
    /\ client = [c \in Clients |-> Reset("disconnected")]
    /\ server = Started(1)
    /\ tokens = [c \in Clients |-> 0]
    /\ network = {} /\ delayed = {}
    /\ late = [p \in Process |-> 0]

Arriving == network \union delayed
Send(gone, packets) ==
    /\ network' = (network \ gone) \union packets
    /\ delayed' = (delayed \ gone) \ packets

\* Packets that an update may receive, and those of them that arrive once only.
Batches(packets) ==
    {b \in BoundedSeq(packets, MaxBatch) : IsInjective(b)}
Gone(batch) == {p \in Range(batch) : p.kind \in {"keep alive", "disconnect"}}
-----------------------------------------------------------------------------
(* The client.                                                             *)

\* netcode_client_send_packet_to_server_internal: only this server answers.
ToServer(k, kind) ==
    IF k.address = 0 THEN {Packet(Server, kind, k.token, k.key)} ELSE {}

\* What cannot be read any more may as well be lost.
Unread(c) == {p \in Arriving : p.to = c}

\* netcode_client_disconnect_internal, in the end, of an active client.
Leave(c, state) ==
    /\ client' = [client EXCEPT ![c] = Reset(state)]
    /\ late' = [late EXCEPT ![c] = 0]

\* netcode_client_connect with a new token, for a client that is not connected.
Connect(c) ==
    /\ ~Active(c) /\ tokens[c] < MaxTokens[c]
    /\ tokens' = [tokens EXCEPT ![c] = @ + 1]
    /\ client' = [client EXCEPT ![c] = [Reset("sending request") EXCEPT !.token = <<c, tokens'[c]>>]]
    /\ UNCHANGED <<server, network, delayed, late>>

\* netcode_client_disconnect.
Disconnect(c) ==
    /\ Active(c)
    /\ Send(Unread(c), ToServer(client[c], "disconnect"))
    /\ Leave(c, "disconnected")
    /\ UNCHANGED <<server, tokens>>

\* The process of the client is killed.
Crash(c) ==
    /\ Active(c)
    /\ Send(Unread(c), {})
    /\ Leave(c, "disconnected")
    /\ UNCHANGED <<server, tokens>>

\* netcode_client_process_packet_internal, of a packet from the server it talks to.
Received(k, p) ==
    CASE p.kind = "denied" /\ k.state \in Connecting ->
            [k EXCEPT !.leaving = "error", !.heard = 0]
      [] p.kind = "challenge" /\ k.state = "sending request" ->
            [k EXCEPT !.state = "sending response", !.key = p.arg, !.heard = 0]
      [] p.kind = "keep alive" /\ k.state = "connected" ->
            [k EXCEPT !.heard = 0]
      [] p.kind = "keep alive" /\ k.state = "sending response" ->
            [k EXCEPT !.state = "connected", !.index = p.arg, !.heard = 0]
      [] p.kind = "disconnect" /\ k.state = "connected" ->
            [k EXCEPT !.leaving = "disconnected", !.heard = 0]
      [] OTHER -> k

\* netcode_client_send_packets.
ClientSends(k) ==
    CASE k.state = "sending request" -> ToServer(k, "request")
      [] k.state = "sending response" -> ToServer(k, "response")
      [] k.state = "connected" -> ToServer(k, "keep alive")

TimedOut(k) == k.heard > Timeout

\* netcode_client_connect_to_next_server, which a client that was connected and
\* told to leave takes, too, but one that has timed out does not.
TriesNext(c, k) ==
    /\ k.address + 1 < NumServers[c]
    /\ k.leaving # "no" \/ k.state \in Connecting

\* netcode_client_update of a client that has received all it does.
ClientChecks(c, k) ==
    IF k.leaving = "no" /\ ~TimedOut(k)
    THEN /\ client' = [client EXCEPT ![c] = k]
         /\ late' = [late EXCEPT ![c] = 0]
    ELSE IF TriesNext(c, k)
    THEN /\ client' = [client EXCEPT ![c] = [Reset("sending request") EXCEPT
                          !.token = k.token, !.address = k.address + 1, !.index = k.index]]
         /\ late' = [late EXCEPT ![c] = 0]
    ELSE Leave(c, IF k.leaving # "no" THEN k.leaving ELSE "error")

ClientUpdate(c) ==
    /\ Active(c) /\ late[c] > 0
    /\ \E batch \in Batches({p \in Arriving : p.to = c /\ p.token = client[c].token}) :
          LET begun == [client[c] EXCEPT !.heard = Aged(@, late[c])]
              k == IF begun.address = 0 THEN FoldLeft(Received, begun, batch) ELSE begun
          IN /\ ClientChecks(c, k)
             /\ Send(IF client'[c].state \in Ended THEN Unread(c) ELSE Gone(batch), ClientSends(k))
    /\ UNCHANGED <<server, tokens>>
-----------------------------------------------------------------------------
(* The server's encryption mappings: which token's keys go with an address.*)

\* netcode_encryption_manager_entry_expired.
Expired(m) == m.access > Timeout \/ m.waiting > Timeout

MappingsOf(s, c) == {m \in s.mappings : m.index < s.used /\ m.address = c}
Valid(s, c) == {m \in MappingsOf(s, c) : ~Expired(m)}
First(S) == CHOOSE x \in S : \A y \in S : x.index <= y.index

\* netcode_encryption_manager_add_encryption_mapping: the one the address has,
\* or the first that is free or has expired.
Room(s, c) ==
    IF Valid(s, c) # {} THEN {m.index : m \in Valid(s, c)}
    ELSE Mappings \ {m.index : m \in {n \in s.mappings : n.address # Nobody /\ ~Expired(n)}}
AddMapping(s, token) ==
    LET i == Min(Room(s, token[1]))
        m == [index |-> i, address |-> token[1], token |-> token, access |-> 0, waiting |-> 0]
    IN [s EXCEPT !.mappings = {n \in @ : n.index # i} \union {m},
                 !.used = IF i + 1 > @ THEN i + 1 ELSE @]

Kept(s, m) == {n.index : n \in {n \in s.mappings : n.index < m.index /\ ~Expired(n)}}

\* Mutant of UsedWithout: the index of the last one for their number.
UsedWithoutShort(s, m) == IF m.index + 1 < s.used THEN s.used ELSE Max({-1} \union Kept(s, m))

UsedWithout(s, m) == IF m.index + 1 < s.used THEN s.used ELSE Max({-1} \union Kept(s, m)) + 1

\* netcode_encryption_manager_remove_encryption_mapping: when it was the last,
\* the expired ones before it lose their address as well.
RemoveMapping(s, c) ==
    IF MappingsOf(s, c) = {} THEN s
    ELSE LET m == First(MappingsOf(s, c))
             used == UsedWithout(s, m)
         IN [s EXCEPT !.used = used,
                      !.mappings = {IF used <= n.index /\ n.index < m.index
                                    THEN [n EXCEPT !.address = Nobody] ELSE n : n \in @ \ {m}}]
-----------------------------------------------------------------------------
(* The server's slots.                                                     *)

SlotsOf(s, c) == {x \in s.slots : x.client = c}

\* netcode_encryption_manager_touch: the mapping of a slot, if it is its client's.
Touched(s, x) == {m \in s.mappings : m.index = x.mapping /\ m.address = x.client}
Touch(s, M) == [s EXCEPT !.mappings = (@ \ M) \union {[m EXCEPT !.access = 0] : m \in M}]

\* Mutant of SlotPacket: the index of the mapping for that of the slot.
SlotPacketMapping(x, m, kind) == Packet(x.client, kind, m.token, x.mapping)

SlotPacket(x, m, kind) == Packet(x.client, kind, m.token, x.index)

\* netcode_server_send_client_packet, to the clients in some slots.
SendSlots(s, S, kind) ==
    [server |-> Touch(s, UNION {Touched(s, x) : x \in S}),
     packets |-> UNION {{SlotPacket(x, m, kind) : m \in Touched(s, x)} : x \in S}]

\* netcode_server_disconnect_client_internal, after what it sends.
Freed(s, x) ==
    [RemoveMapping(s, x.client) EXCEPT !.slots = @ \ {x}, !.connected = @ - 1]

FreeSlot(s) == Min(Slots(s.key) \ {x.index : x \in s.slots})

\* Mutant of ConnectClient: the mapping goes on waiting.
ConnectClientWaiting(s, c, m) ==
    LET x == [index |-> FreeSlot(s), client |-> c, mapping |-> m.index, heard |-> 0]
    IN SendSlots([s EXCEPT !.slots = @ \union {x}, !.connected = @ + 1], {x}, "keep alive")

\* netcode_server_connect_client, in the first free slot.
ConnectClient(s, c, m) ==
    LET x == [index |-> FreeSlot(s), client |-> c, mapping |-> m.index, heard |-> 0]
        r == [s EXCEPT !.slots = @ \union {x}, !.connected = @ + 1,
                       !.mappings = (@ \ {m}) \union {[m EXCEPT !.waiting = -1]}]
    IN SendSlots(r, {x}, "keep alive")

Quiet(s) == [server |-> s, packets |-> {}]
Full(s) == s.connected = NumSlots[s.key]
Denied(token) == {Packet(token[1], "denied", token, 0)}

\* netcode_server_process_connection_request_packet.
ProcessRequest(s, token) ==
    IF SlotsOf(s, token[1]) # {} THEN Quiet(s)
    ELSE IF Full(s) THEN [server |-> s, packets |-> Denied(token)]
    ELSE IF Room(s, token[1]) = {} THEN Quiet(s)
    ELSE [server |-> AddMapping(s, token),
          packets |-> {Packet(token[1], "challenge", token, s.key)}]

\* Mutant of Welcome: that the client has a slot is not noticed.
WelcomeTwice(s, p) == p.arg = s.key

\* A response is to a challenge of this server, from a client without a slot.
Welcome(s, p) == p.arg = s.key /\ SlotsOf(s, p.token[1]) = {}

\* netcode_server_process_connection_response_packet, read with mapping m.
ProcessResponse(s, p, m) ==
    IF ~Welcome(s, p) THEN Quiet(s)
    ELSE IF Full(s) THEN [server |-> s, packets |-> Denied(p.token)]
    ELSE ConnectClient(s, p.token[1], m)

\* netcode_server_process_packet_internal, for what comes from a slot.
FromSlot(s, x, kind) ==
    IF kind = "disconnect" THEN Freed(s, x)
    ELSE [s EXCEPT !.slots = (@ \ {x}) \union {[x EXCEPT !.heard = 0]}]

\* netcode_server_read_and_process_packet: the mapping is that of the slot, or
\* found by the address and used, even if the packet cannot be read with it.
ProcessPacket(s, p) ==
    LET c == p.token[1]
        found == IF Valid(s, c) = {} THEN {} ELSE {First(Valid(s, c))}
        used == IF SlotsOf(s, c) = {} THEN Touch(s, found) ELSE s
        index == IF SlotsOf(s, c) = {} THEN {m.index : m \in found}
                                       ELSE {x.mapping : x \in SlotsOf(s, c)}
        read == {m \in used.mappings : m.index \in index /\ m.token = p.token}
    IN IF p.kind = "request" THEN ProcessRequest(used, p.token)
       ELSE IF read = {} THEN Quiet(used)
       ELSE IF p.kind = "response" THEN ProcessResponse(used, p, First(read))
       ELSE IF SlotsOf(s, c) = {} THEN Quiet(used)
       ELSE Quiet(FromSlot(used, First(SlotsOf(s, c)), p.kind))

\* One more packet for a server that answered with some so far.
Process1(result, p) ==
    LET next == ProcessPacket(result.server, p)
    IN [server |-> next.server, packets |-> result.packets \union next.packets]

\* netcode_server_update begins.
Begun(s) ==
    [s EXCEPT !.slots = {[x EXCEPT !.heard = Aged(@, late[Server])] : x \in @},
              !.mappings = {[m EXCEPT !.access = Aged(@, late[Server]),
                                      !.waiting = IF @ = -1 THEN -1 ELSE Aged(@, late[Server])] : m \in @}]

\* Mutant of TimedOutSlots: none is given up.
TimedOutSlotsNone(s) == {}

TimedOutSlots(s) == {x \in s.slots : x.heard >= Timeout}

\* netcode_server_send_packets and netcode_server_check_for_timeouts, which lets
\* one client go and says nothing to it.
ServerChecks(s) ==
    LET sent == SendSlots(s, s.slots, "keep alive")
        gone == TimedOutSlots(sent.server)
    IN IF gone = {} THEN sent ELSE [sent EXCEPT !.server = Freed(@, First(gone))]

ServerUpdate ==
    /\ server.running /\ late[Server] > 0
    /\ \E batch \in Batches({p \in Arriving : p.to = Server}) :
          LET received == FoldLeft(Process1, Quiet(Begun(server)), batch)
              checked == ServerChecks(received.server)
          IN /\ server' = checked.server
             /\ Send(Gone(batch), received.packets \union checked.packets)
    /\ late' = [late EXCEPT ![Server] = 0]
    /\ UNCHANGED <<client, tokens>>

\* netcode_server_disconnect_client.
ServerDisconnect(i) ==
    /\ \E x \in server.slots :
          /\ x.index = i
          /\ LET sent == SendSlots(server, {x}, "disconnect")
             IN /\ server' = Freed(sent.server, x)
                /\ Send({}, sent.packets)
    /\ UNCHANGED <<client, tokens, late>>

\* netcode_server_stop, and the server that is killed and says nothing.
ServerStop(killed) ==
    /\ server.running
    /\ server' = Stopped(server.key)
    /\ Send({}, IF killed THEN {} ELSE SendSlots(server, server.slots, "disconnect").packets)
    /\ late' = [late EXCEPT ![Server] = 0]
    /\ UNCHANGED <<client, tokens>>

ServerStart ==
    /\ ~server.running /\ server.key < Len(NumSlots)
    /\ server' = Started(server.key + 1)
    /\ UNCHANGED <<client, tokens, network, delayed, late>>
-----------------------------------------------------------------------------
Running(p) == IF p = Server THEN server.running ELSE Active(p)

Tick ==
    /\ \A p \in Process : Running(p) => late[p] < MaxLate[p]
    /\ late' = [p \in Process |-> IF Running(p) THEN late[p] + 1 ELSE late[p]]
    /\ network' = {} /\ delayed' = network
    /\ UNCHANGED <<client, server, tokens>>

Next ==
    \/ \E c \in Clients : \/ Connect(c) \/ Disconnect(c) \/ Crash(c)
                          \/ ClientUpdate(c)
    \/ ServerUpdate
    \/ \E i \in Slots(server.key) : ServerDisconnect(i)
    \/ \E killed \in BOOLEAN : ServerStop(killed)
    \/ ServerStart
    \/ Tick

Spec == Init /\ [][Next]_vars

\* Time goes on for ever, which takes updates of every process that runs.
FairSpec == Spec /\ []<><<Tick>>_vars
-----------------------------------------------------------------------------
(* Properties.                                                             *)

Given == UNION {{c} \X (1..MaxTokens[c]) : c \in Clients}
Token == {NoToken} \union Given
Age == 0..(Timeout + 1)
TypeOK ==
    /\ \A c \in Clients :
          /\ client[c].state \in Connecting \union Ended \union {"connected"}
          /\ client[c].token \in Token /\ client[c].heard \in Age /\ client[c].index \in Nat
    /\ \A x \in server.slots : x.index \in Slots(server.key) /\ x.client \in Clients /\ x.mapping \in Mappings
    /\ \A m \in server.mappings : m.index \in Mappings /\ m.token \in Token /\ m.access \in Age
    /\ server.used \in 0..NumMappings
    /\ late \in [Process -> Nat]

\* No client is counted or connected twice, whatever it repeats and whatever
\* arrives late (netcode.c:4260, 4420).
OneSlotEach ==
    /\ server.connected = Cardinality(server.slots)
    /\ \A x, y \in server.slots : x.client = y.client \/ x.index = y.index => x = y

\* The keys of a client's slot stay its own: netcode_assert( index <
\* encryption_manager->num_encryption_mappings ) and "encryption mapping is out
\* of date" (netcode.c:3627, 4030).
MappingKept ==
    \A x \in server.slots :
        /\ x.mapping < server.used
        /\ \E m \in Touched(server, x) : m.token[1] = x.client

\* A connected client knows the slot it is in, if it is (netcode.c:2929).
Holds(x, c) == \E m \in Touched(server, x) : x.client = c /\ m.token = client[c].token
KnowsItsSlot ==
    \A c \in Clients, x \in server.slots :
        client[c].state = "connected" /\ Holds(x, c) => client[c].index = x.index

\* What one side holds of a connection the other does not, never for good: a slot
\* whose client is gone or starts anew is freed (netcode.c:4741), and a client
\* leaves that is connected to no slot (netcode.c:3301).
Stray(c) == \E x \in SlotsOf(server, c) : ~Holds(x, c)
Orphan(c) == client[c].state = "connected" /\ SlotsOf(server, c) = {}
SidesAgree ==
    \A c \in Clients : Stray(c) \/ Orphan(c) ~> ~Stray(c) /\ ~Orphan(c)
=============================================================================
