# TLA+ models of the DS game networking benchmark

The repository holds one small multiplayer game written three times, over
RakNet (SLikeNet), over yojimbo and over ENet, so that the libraries can be
compared. Players stand on the cells of a map, each client moves its player one
space per tick at random, and clients hear of each other through a server.
yojimbo comes with its source and with the libraries it stands on: reliable.io
for acknowledgements and fragments, netcode.io for connections, tlsf for memory.
These modules model the three programs and those libraries. TLC checks them on
small instances, and TLAPS proves what matters most for every value of the
constants.

`tlc -config MCRakSafety.cfg MCRakGame` and so on make the runs listed below,
`tlapm RakGameProofs.tla` and so on check the proofs.

## Inventory

| Part | Code | State it keeps | Operations | Modelled in |
|---|---|---|---|---|
| RakNet server | `raknet/server` | `connectedPlayers`, player positions, `updatedPlayerPositions`, `broadcastLocationToSelf` | new connection, connection lost, player move, update and broadcast at the end of a tick | `RakGame` |
| RakNet client | `raknet/client` | the loop it is in, its own position, other players by NetworkID, `remotePlayerPositions` | configuration, spawn, join, position, local move | `RakGame` |
| RakNet messages | `raknet/common` | - | six message types, three ordering channels | `RakGame` (in part) |
| yojimbo game server | `yojimbo/server.cpp`, `shared.h` | `connectedPlayers` by slot, positions, move queue | loop over the slots, receive loop, update and broadcast | `YojGame` |
| yojimbo game client | `yojimbo/client.cpp` | two flags, own position, others by slot | messages, local move, quit | `YojGame` |
| ENet server | `enet/EnetServer` | nothing but the library's peers and the end of the simulation | connect, disconnect, relay | `EnetGame` |
| ENet client | `enet/EnetClient` | its peer, its position, `m_others` | connect, reconnect, tick | `EnetGame` |
| corrections tracker | `common/corrections_tracker.*` | counters, two booleans of the tick | update received, correction made, write line | `CorrectionsTracker`, in `EnetGame` |
| yojimbo's channels and connections | `yojimbo/yojimbo.cpp`, `yojimbo.h` | send and receive queues, the record of sent packets, a block on its way, error levels | send, receive, make a packet, process one, acknowledge, reset | `ReliableChannel`, `YojimboServer` |
| yojimbo's server | `yojimbo/yojimbo.cpp` | a connection, an endpoint and an allocator per slot, the network simulator | start, stop, send, receive, advance time, connect and disconnect callback | `YojimboServer` |
| reliable.io | `reliable.io/reliable.c` | numbers, sent and received packets, reassembly, acknowledgements | send, receive, fetch acknowledgements, reset | `ReliableEndpoint` |
| netcode.io: connections | `netcode.io/netcode.c` | state and slot of a client; slots and encryption mappings of the server | connect, challenge, keep alive, time out, disconnect, start and stop | `NetcodeConnection` |
| netcode.io: packets | `netcode.io/netcode.c` | replay protection, packet queues | read, queue, hand over, reset | `NetcodePackets` |
| tlsf | `yojimbo/tlsf/tlsf.c` | block headers of a pool, free lists, bitmaps | malloc, memalign, free, realloc | `Tlsf` |
| certificates, matcher, ENet headers, scripts | | | | not modelled |

How the parts interact. In each version the game talks to its library by calls
(`Send`, `Receive`, `AdvanceTime`, `enet_host_service`) and shares no state with
it. RakNet runs a thread of its own: connections are accepted and packets arrive
between any two handlers, and broadcasts go to connections the game has not
heard of yet. yojimbo and ENet run on the caller's thread: yojimbo reads its
sockets in `AdvanceTime` only, at the end of a tick. Server and clients interact
through messages only.

Inside yojimbo, `SendPackets` asks each channel of a connection for its part of a
packet, the endpoint numbers the packet and cuts it up, netcode encrypts the
parts and sends them. The other way, netcode queues what it could read, the
endpoint puts packets together and hands them to the connection, and the
acknowledgements it found go to the channels in `AdvanceTime`. Netcode calls
back when a slot is taken or left. All of a slot's memory is its own tlsf pool.

What is hard. The game server checks moves against its own copy of a position,
which lags behind the client's; joins and positions travel over different
ordering channels; clients throw away what they do not wait for; connections
come and go between the steps of a tick, and slots and peer numbers are used
again; searches for a free cell go on until one is found; nobody repeats
anything, except that positions are broadcast in every tick. Below the game,
packets are lost, late and out of order; requests, acknowledgements and messages
are repeated until they are answered; 16-bit numbers wrap; buffers and encryption
mappings are shared by what comes after; both sides of a connection give up by
timeout, each on its own clock. `PROJECT.json` lists the hazards at their lines.

What makes each part right:

- RakNet server: it never meets a player that is gone, accepts every move of a
  client that keeps to the rules, tells no client about itself.
- RakNet client: it gets through its two waiting loops, lists others once (twice
  at the most, as it turns out), ends up with everybody where the server has them.
- yojimbo game server: it never meets a client without a player, welcomes every
  client, moves players as their clients do.
- yojimbo game client: it does not move before it knows where it is, and agrees
  with the server when all rest.
- ENet: a client has every other player where that player is once nothing is on
  its way; a peer number never mixes two players; only what is heard first counts
  as a correction.
- Reliable channel: a queue of messages and blocks, whatever the network does.
- Endpoint: a packet is processed once and whole, and acknowledged if and only if
  it was processed.
- Connections: a client has one slot, keeps its keys while it has it, knows which
  one it is, and neither side holds on to a connection the other has left.
- Replay protection and queue: payloads are handed over once and in the order
  they were taken.
- Server slots: nothing of a client reaches the next one in its slot.
- tlsf: blocks that are held never overlap and are as large as was asked for.

## Modules

- `GameMap`: the map, the test of one space (`Near`), the moves of
  `PerformLocalMove`. Shared by all games.
- `RakGame`, `YojGame`, `EnetGame`: the three games. `CorrectionsTracker`: the
  tracker as operators on a record, part of `EnetGame`.
- `SequenceBuffer`: 16-bit numbers and the buffers indexed by them, which yojimbo
  and reliable.io both have. The one difference between the two is a parameter.
- `MessageQueue`: what a reliable channel promises. `PacketService`: what an
  endpoint promises. `PayloadService`: what netcode promises of payloads.
  `HeapService`: what an allocator promises.
- `ReliableChannel` implements `MessageQueue` and stands on `PacketService`;
  `ReliableEndpoint` implements `PacketService`, in both directions;
  `NetcodePackets` implements `PayloadService`; `Tlsf` implements `HeapService`.
- `NetcodeConnection`: clients, server and network of netcode.io.
- `YojimboServer`: what a slot of yojimbo's server holds, and for whom.
- Proofs: `RakGameProofs`, `YojGameProofs`, `EnetGameProofs`, `ReliableEndpointProofs`,
  `ReliableChannelProofs`; `NetcodeConnectionProofs`, which has those of `NetcodePackets`
  too; `TlsfProofs`, which has those of `YojimboServer` too; and `FoldLeftTheorems`,
  the induction over numbers and sequences that four of them need.
- `MC...`: model values, sizes that are functions or sequences, and symmetry, for
  the `.cfg` files.

Definitions marked as mutants are alternatives of the definition that follows
them, with a plausible mistake in it; `PROJECT.json` says which property each
one breaks. Specifications never use them.

### RakGame

Each process handles a packet at a time, so each handler is an action. The
server's tick is `receiving` (handlers, until `Receive` returns null), then
`updating` (`UpdatePlayerPositions`, an entry of its queue per step; `cursor` is
the entry), then `EndTick` (the broadcast). That `Receive` may return null at
any time is the library's doing: a packet in `control`, `positions` or
`toServer` is anywhere between `Send` and `Receive`.

| Variable | Code |
|---|---|
| `newConn` | connection events in the library's queue |
| `connected`, `pos`, `toSelf` | `connectedPlayers` and its players' `pos`, `broadcastLocationToSelf` |
| `queue`, `cursor` | `updatedPlayerPositions` and the loop over it |
| `phase` | which of the client's three loops runs; `spinning` in a search without end |
| `local`, `known`, `seen` | the objects the client's `networkIDManager` finds |
| `phantom` | objects in `remotePlayerPositions` whose NetworkID belonged to another object already: nothing finds them again |
| `control`, `positions`, `toServer` | ordering channels 0, 2 and 1 |

`reliable` is the `-r` flag, chosen once. With it a channel delivers its oldest
packet only; without it any packet, and none has to be delivered. The three
channels have no order among each other in either case. A client's address never
occurs twice, so it stands for the NetworkID as well.

### YojGame

The server's loop is `send`, `reconcile` (the slots against `connectedPlayers`, a
slot a step), `drain` (the messages of each slot), `update`, `advance`
(`AdvanceTime`: any number of disconnects and accepts, then at most one time-out).
`owner[s]` is the client for which the player in slot `s` was made, which the code
does not keep: it is what the properties are about. All that is sent to a slot in
a tick leaves in one packet, so `wire` is a sequence of bundles. A client names
itself in its moves by the low byte of a random number; `tag` is that byte,
`NumSlots` standing for all bytes that are no slot. Clients are run with `-x`, as
otherwise they use a null pointer in their first tick (`client.cpp:306`).

What `YojGame` takes for granted of the library is what the modules below show:
ordered messages each delivered once (`ReliableChannel`), a slot that starts
without anything of its last client (`YojimboServer`), slots that are taken and
left in `AdvanceTime` (`NetcodeConnection`).

### EnetGame

Connections are numbered in the order they are made; `peer[k]` is the peer number
that connection `k` holds at the server, which is what clients know each other by
and what is used again. The server may keep a connection that its client has
given up. Everything is sent reliably, so a direction of a connection is a queue.
A client is `joining` (`formConnection`), `moving`, `receiving` (the loop over
events), or `rejoining`: in `formConnection` again, called from the middle of a
tick. `heard` is a history variable. The join packet is left out: it is printed
and forgotten.

### ReliableChannel and MessageQueue

One direction of one channel: `sendMessageId`, `oldestUnacked`, `sendQueue`,
`sentPackets`, `sendBlock` on one side, `receiveMessageId`, `receiveQueue`,
`receiveBlock` on the other, named as in the code. A packet is made by one of three
actions, as `GetPacketData` does: it carries messages, a fragment of a block, or
nothing for this channel. How many messages fit and which of the unacknowledged
ones are due again is left open, because sizes and resend times are.
`window` is the variable of `PacketService`: the last `Lifetime` packets, each on
its way, processed and not yet acknowledged, or done with. So a packet is lost,
arrives late or overtakes others, and its acknowledgement too, and the two are
independent. `ConnectionError` is `AdvanceTime` finding a channel in error, which
ends the connection.

The refinement mapping reads the queue of messages off the two sides: the ones
from `receiveMessageId` up to `sendMessageId`, each found in the receive queue, in
the send queue or in the record of a block. That there always is one is half of
what `IsQueue` says.

### ReliableEndpoint and PacketService

Both endpoints of a connection, and the packets between them, `flight`. A packet
is sent with the acknowledgements of its moment; its parts arrive one by one, in
any order, each once or never. `ReceivePacket` is the whole of
`reliable_endpoint_receive_packet`: a part is stored, the last one has the packet
processed, and if it was, the header's acknowledgements are read. The channel
above may refuse a packet, which is then not acknowledged. `Reset` is what happens
to both endpoints with a new connection. The refinement maps each direction to a
`PacketService`; the packets that `ReliableChannel` is given are those.

### NetcodeConnection

`client[c]` and `server` are records of the fields of the two structs; `network`
and `delayed` are the packets on their way. Time goes in ticks. An update of a
process (`netcode_client_update`, `netcode_server_update`) is one action, as in the
code nothing runs in between: it receives some of the packets for it, in any
order, then sends, then looks for timeouts. `Tick` cannot pass an update that is
`MaxLate` ticks late. A client may connect, disconnect or crash at any time
between, the server may stop, be killed and start again with other sizes. A token
is named by its client and a number, and stands for its keys: what is encrypted
with one is read with it only.

### NetcodePackets and PayloadService

A receiver, client or server slot, with its replay protection and its ring of
payloads, at the sizes of the code (256 each). `wire` holds every packet ever
sent, and any of them may arrive at any time, any number of times. Sequence
numbers have no bound: in the code they have 64 bits. `session`, `accepted` and
`got` are history variables, and what a `PayloadService` has.

### Tlsf and HeapService

`heap` holds, for each block, its size and the flags of its header, the
`prev_phys_block` that is stored in the last word of the block before and which a
caller may overwrite (`Nowhere`), the free lists in order, and the two levels of
bitmaps. Sizes are counted in words of `ALIGN_SIZE` bytes, all operations being
exact in those. Each call is one action with all its splits and merges. `held` are
the caller's blocks.

### YojimboServer

`slot[s]` is all that is kept for a slot: who is in it, netcode's queue of
payloads, packets that wait for their other parts, the two queues of the
unreliable channel, and three error levels. `entries` and `current` are the
network simulator's. `said` and `heard` are history variables: messages with the
connection they belong to. Which messages fit, which packets are lost, which
allocations fail is left open.

## Runs

| Run | Question | Instance | Answer |
|---|---|---|---|
| `rak_safety` | Do server and clients stay together with `-r`, and what is left without? | 2 clients, 2x1 map, 2 moves, 1 position on its way to each, both modes | `WhenReliable`, `NeverRejected`, `NeverPutRight` with `-r`; in both modes the null pointer is met only after a loss (`CrashOnlyAfterLoss`), and there are at most two entries per player (`RemoteEntries`) |
| `rak_live` | Does everybody get to play, and agree in the end? What hangs a client? | 2 clients, 1x1, 2 moves, `-r` | yes, unless the server hangs or crashes; only a second entry for the same player |
| `yoj_reliable` | Are slots and players in step? | 2 clients, 2 slots, 2x1, 2 moves, 1 bundle on its way to each | yes where it counts: `NeverNull`, `MovesFromSpawn`, `OwnersAreWelcomed`, `RightTagIsFollowed` |
| `yoj_live` | Do resting clients agree with the server, and owners get to play? | 1x1, 1 move, both modes | yes with `-r`; in both modes no client moves before it was placed |
| `yoj_welcome` | Is every new client handled? | 2x1, no moves | no, see findings |
| `yoj_follow` | Does the local player end up where the server has it? | 1x1, 1 move | no, see findings |
| `enet_relay` | Are relayed positions right across reconnections? | 2 clients, 2 peers, 3 connections, 3 ticks, 2x1 | yes: `HeardInSync`, `HoldersInOrder`, `OnlyFirstsAreCorrections` |
| `channel` | Is the reliable channel a queue? | ids modulo 10, packets modulo 6, all buffers of 2, one message and one block of 2 fragments, 1 idle packet in a row | yes: `IsQueue`; `QueuesInWindow`, `BlockIsOldest`, and the desync error only for an application that reads too little (`DesyncOnlyIfBehind`) |
| `yoj_idle` | Does it have a record of every packet, however long it is idle? | the same, 6 idle packets | no, see findings |
| `endpoint` | Are packets processed once and whole, and acknowledged? | numbers modulo 8, buffers of 2, 2 ack bits, packets of one side in 2 parts | yes: `IsService` in both directions, `AckedOnce`, `Remembered`, `OnlyWhole` |
| `netcode` | Do both sides agree who has which slot? | 2 clients with a token each, one with a second server address, 2 slots and then 1 after a restart, 2 mappings, timeout of 1 tick | yes: `OneSlotEach`, `MappingKept`, `KnowsItsSlot`, and never for good otherwise (`SidesAgree`) |
| `heap` | Do blocks never overlap? | a pool of 28 words, two second-level classes, requests of 0, 1, 5 and 10 words, alignments of 2 and 4 | yes: `IsHeap`, `Checked` (what `tlsf_check` insists on), `FoundFits` |

The refinements are `IsQueue`, `IsService` and `IsHeap`: the abstract
specification under a mapping (`INSTANCE ... WITH`), as a property.

Bounds, all of them constants: `MaxMoves` (moves of all clients), `MaxPositions`
and `MaxBundles` (packets on the way to a client; the sender waits at the bound),
`MaxConns`, `MaxTicks`, `Lifetime`, `MaxIdle`, `MaxLost`, `MaxAhead`, `MaxLate`,
`MaxTokens`, `MaxBatch`, `Requests`, `Alignments`. They suffice for what the
properties tell apart.

- Two moves are what it takes for one to be on the wire while another is queued,
  or for both to be queued in one tick. Two clients are what it takes for one to be
  at fault for the other, for a slot to change hands, and for an address of a
  broadcast not to be the sender. A map `w` wide has `w + 1` columns to walk on and
  `w` to spawn on: 2x1 has cells that are two spaces apart, which `Near` needs; 1x1
  has one cell to spawn on, so the searches do run out of cells. Three connections
  let a client reconnect while its old connection is held.
- In `channel`, numbers of messages and of packets go round several times, in laps
  that are not multiples of each other; the queues fill up; a packet
  is in flight for as long as the buffer of sent packets reaches. A block of two fragments is acknowledged by halves.
- In `endpoint`, what is longest in flight is as old as the buffers are large, so
  that entries are taken over from packets that are still on their way.
- In `netcode`, one address is left over for a server that does not answer, which
  gives a client both ways out of an attempt; the mappings are as many as the
  clients, so a mapping that is kept too long is missed; the timeout is as short
  as the code's loop can tell, so that either side may be the first to give up.
- In `heap`, the pool holds blocks of exact and of rounded classes, and is full
  after two large ones.

Every mutant listed breaks its property within these bounds. Where a run says
`CHECK_DEADLOCK FALSE`, a hanging or crashed program, a connection that has ended,
a server that has stopped for good, a caller without memory or a used-up bound stops
the system; `yoj_reliable` and `endpoint` check for deadlock.

Fairness. In `rak_live`, `yoj_live` and `yoj_follow` (`FairSpec`): both loops of both
programs go on forever and drain what has arrived in each tick, hence weak fairness
for the steps of the server's tick; strong fairness for receiving at the server,
which is possible in one part of the tick only (and for new connections in
`RakGame`); weak fairness for a client that receives over a connection that is up.
Fairness of receiving is for `-r`, where what is sent over a connection that stays
up arrives. Nothing forces a client to connect, move, stay or quit. In `netcode`
only time is fair: ticks come for ever, and a tick does not come before the updates
that are due. No packet has to arrive, and `SidesAgree` rests on timeouts alone.

## Findings

- `EveryClientHandled` (`yojimbo/server.cpp:258`). A client leaves and another
  takes its slot in one `AdvanceTime`: the loop sees a connected slot with a
  player, and the new client is never sent a configuration.
- `LocalFollowsServer` (`yojimbo/client.cpp:303`). A client names itself by the
  low byte of its random identity, not by the number it was given. Its moves go
  to another player or to nobody, and nothing puts its own position right.
- `EntryOfPacket` (`yojimbo.cpp:1891`). The buffer of sent packets hears only of
  packets with reliable messages. After half a lap without one (32769 packets), the
  number of the next counts as old, the insertion is refused and the assertion after
  it fails; without assertions the acknowledgement is lost.

Seen while modelling, in parts the benchmark does not reach, and listed among the
hazards: an allocator's error is never cleared, so that after one failed allocation
every later client of the slot is thrown out until the server restarts
(`yojimbo.cpp:2893`; `ErrorsAreOwn` has this as its exception); a duplicate made by the
network simulator overwrites the next entry without freeing what it holds
(`yojimbo.cpp:4101`); a client that netcode sends on to the next server of its
token keeps its connection and endpoint (`yojimbo.cpp:3271`); `tlsf_realloc` of more
than the maximum trims the block to nothing (`tlsf.c:1230`).

## Proofs

Assumptions are those named `...Assumption` in the modules: a finite set of clients,
a map of at least one cell, bounds that are natural numbers, at least one slot or
peer. The theorems of `YojimboServer` assume that the size of a receive queue is an
integer. No theorem depends on the size of any of them, and the sizes of
`NetcodePackets` are those of the code. The theorems of `ReliableEndpoint` assume
that the sizes of its buffers divide the range of the numbers, as an index is a
number modulo the size, and `BoundsAssumption`: that a number is not used again
before what carried it last is forgotten. With numbers of 16 bits, buffers of 256,
headers of 32 and netcode.io's window of 256 packets, this leaves room for thousands
of packets in a row of which nothing arrives, and for thousands that one side is ahead
of the other. The connection has timed out long before. The instance that TLC
checks fits its range of 8 exactly.

The theorems of `ReliableChannel` assume as much of its buffers, and two bounds.
`BoundsAssumption`: what the queues hold and what is on its way is less than half a lap
apart. With queues of 1024 and 256 messages in a packet this is so while a packet, or
the acknowledgement of one, takes less than 124 packets to arrive: six seconds at the 20
packets a second of the game (`yojimbo/server.cpp:245`), longer than a connection lasts on
which nothing arrives. The code does not enforce it: netcode.io's window only stops
packets that are 256 behind. `Busy`, the hypothesis of each theorem: in half a lap
of packets there is one with messages (with 16 bits and a buffer of 1024, one in
32766 packets). A connection idle for longer is the finding `EntryOfPacket`, so
the hypothesis cannot go; the run `channel` satisfies it and `yoj_idle` does not.

`RakGame`:

- `TypeCorrect`: types, in both modes. A lemma per group of actions, and one for
  each operator that builds messages.
- `WalkKept`: with `-r`, `RakInv` is kept. It is inductive together with `TypeOK`.
  `NeverRejected` alone is not: that a move is accepted depends on where the
  server has the player now, which depends on the moves still to come. So
  `WalkInv` says of every player that its cells form one walk of single steps:
  the position at the server, its moves waiting in the queue (`QueueWalk`), its
  moves on the wire (`WireWalk`), its client's own position (`LocalWalk`); or,
  before the client plays, that the walk is the spawn point that is on its way
  (`AtSpawn`). Receiving a move takes the first cell of the wire to the end of the
  queue, an update takes the first cell of the queue to the server, a local move
  adds a cell at the other end. `LinkInv` adds that an accepted connection is a
  player or a connection event but never both, and that there is no spawn packet
  before there is a player; `SelfInv` that nobody is to be put right.
  `MovesNeverRejected` and `ClientsNeverPutRight` follow from it.
- `CrashExplained`, `ListedTwiceAtMost`, `HangExplained`: both modes. `LossInv`: a move
  that waits is of a player that is there or whose connection was lost, as addresses
  are not used again. `ListInv`: at most one join of a player is on its way to a
  client, and a second entry is made of nothing else. A search for a move that never
  ends needs more cells taken than one other player can take (`OneCell`, `TwoMoves`).

`FoldLeftTheorems`: the games over yojimbo and netcode.io take in a batch of packets in
one call, and a channel all messages of a packet, which the models write with `FoldLeft`. The library defines it by a recursion
over sets of indices, and its own induction theorems take the induction hypothesis
as a parameter. `Induction` gets by without: a set of numbers with 0 in it, and with
`n + 1` whenever `n` is, has no least number missing. `FoldSteps` gives the results after
each entry, `FoldInvariant` and `FoldType` that what holds of the base and is kept by every
entry holds at the end. The operator that is folded is a constant of this module;
each module of proofs instantiates it with its own.

`YojGame`: all its invariants.

- `TypeCorrect`: types, in both modes, through bundles of any length.
- `ServerNeverNull`, in both modes. The loop over the slots starts at slot 0
  (`Reconciled`); every slot it has passed has a player if it has a client; and nothing
  connects until `AdvanceTime`.
- `SpawnPointFirst`: in both modes. In a bundle, a configuration and a spawn point
  come together (`Paired`), so that a client that has the one has the other.
- `NobodyWaitsInVain`: with `-r`. Whose player a slot has and whose configuration is on its way
  to it are kept in step (`Seating`) through the gap between `AdvanceTime`, in
  which slots change hands, and the loop over the slots.
- `RightBytesAreFollowed`: with `-r`. A client's cells form a walk (`Leads`, `Trail`): the
  position at the server, the moves queued, the moves on the wire, its own position.
  It holds of those clients only whose byte is their own slot and no other client's,
  and of all others it must say that they leave that player alone.

`EnetGame`: `TypeCorrect`, `HoldersOrdered`, `InSync`, `OnlyFirsts`. What a client has of
another is right only if everything in between is a walk: from the position of
the sender over what is on its way up (`UpWalk`), what was relayed and is on its way
down (`DownWalk`), to what was heard last (`HeardWalk`); with reconnections,
it takes the order in which connections held a peer number (`HoldersInOrder`) and
that nobody who was heard is forgotten on the way (`SyncOnWire`, `SyncHeard`).

`NetcodePackets`: `ProtectionExact`, `NothingInvented`, `PacketsAreService`, `OnceEach`,
at the end of `NetcodeConnectionProofs`.
`PacketsInv` says that an entry of the replay buffer is the largest accepted number
of its residue, that the window ends at the newest, and that the ring holds what was
taken and not handed over. The refinement is proved step by step, and `OnceEach`
follows from what a `PayloadService` keeps (`PromiseInv`): what is known is numbered with
what was taken, and no two are alike. This module has no run: a buffer of 256 is out
of TLC's reach, and a smaller one would be another program.

`YojimboServer`: `ServerTypes`, `OnlyOwn`, `FreshSlots`, `OwnErrors`, at the end of
`TlsfProofs`. `ServerInv`: everything
in a slot was sent in the connection of its client (`SlotsOwn`); a free slot is fresh,
and in error only if its allocator failed; a packet in the simulator is for a slot
that is taken, by whoever it was meant for, and there is none unless the simulator is
active (`EntriesHeld`): that is why it does no harm that packets are discarded only
then. This module has no run either.

`NetcodeConnection`: all its invariants.

- `TypeCorrect` and `OneSlotForEach`: no condition. `Seated`: a server with its types
  that counts its slots right, no client and no index twice. An update is a fold over the
  packets it receives, so every lemma about a packet is about any server, not
  about the one of the state.
- `MappingStaysKept`: for a server whose updates are never further apart than
  the timeout (`Prompt`). Without that the property is false, as TLC shows with
  `MaxLate` above `Timeout`: the server finds all mappings expired in its next update,
  those of its slots too, and gives them to the next client who asks, before it has sent
  the packets that use them anew. `Sound`: of the mappings that have an address only the
  first may be alive (`Ordered`), which is why the first that is found is the right
  one, and every slot has a mapping that does not wait and was used in the last
  update (`Backed`), at most a timeout ago once time is added.
- `SlotIsKnown`, with the same condition. What a client believes of its slot is what a
  keep alive told it, which may be old, so the invariant has to exclude that the token
  was given another slot since. `Informed`: whichever slot a client believes in or is about
  to, the server, as long as it has a mapping for the token, has it in that slot. A
  late request of the client could add such a mapping again, and a late response take
  another slot. `AskedBefore` says why not: once a client is past its requests
  those still on the way were sent in an earlier tick, and are gone before the server,
  which must have had an update to answer, has another. `Early`, `Stayed`, `Answered`,
  `Numbered` and `Routed` say what else is on its way with a token.

TLC checked this invariant on the instance of the run, and with timeout,
lateness and tokens of 2, before it was proved.

`ReliableEndpoint`: all its properties, from one invariant (`EndpointInvariant`).

Numbers wrap, so neither side can order them, and no invariant about them is
inductive as it stands. The proofs speak of ages instead: how far a number is behind
the next one that its sender uses (`Distance`). Ages do not wrap; a step of the
sender adds one to all of them (`Ageing`), and two numbers compare as their ages
do as long as these are less than half the range apart (`GreaterIsYounger`). What the buffers
do is said once in ages (`AdvanceAged`, `PutAged`, `RemoveAged`, `SetAged`):
moving on to a number forgets what is as old as the buffer is large, and nothing
else (`SlotsDiffer`, `FreedByAge`).

- `WindowInv`, `LeadInv`: both buffers of a receiver move together, with the newest
  it has received, at most `MaxLost` behind the sender; neither side is more than
  `MaxAhead` ahead.
- `FlightInv`, `PartialInv`: a packet that still has parts on their way is undecided;
  the parts in the reassembly buffer under its number are its own, and are no longer
  on their way. `WholeOnly` follows.
- `ReceivedInv`, `KeptInv`: what is remembered as received was processed, and
  what was processed is remembered while the window reaches it.
  `AcksRemembered` follows.
- `HeaderInv`: a header on its way tells of packets that were processed, or that are
  as old as to be out of flight, and of numbers that were not used again since
  it was written (`Recent`): that takes the bounds, as a header may itself be as old as
  a packet gets, and tells of a window that was behind when it was sent.
- `AcksInv`: what waits for the channel was processed and is not to be told again.
  `ToldOnce` follows.

`EndpointsAreService` goes by steps: the view of either direction (`Promised`) starts
empty, and each action makes a step of `PacketService` on it or none: a packet more,
with the oldest dropped (`SendServes`), one packet taken or refused that was in
flight until then (`ReceiveServes`), the packets acknowledged that were
processed (`FetchServes`). TLC checked `EndpointInvariant`'s parts, but for the
types of records, on the instance of the run before they were proved.

`ReliableChannel`: all its invariants (`TypeCorrect`, `NoOldNumbers`, `BlockFound`,
`KeptUp`) and that it is a queue (`ChannelIsQueue`), from one invariant (`Inv`). It speaks
of ages too, here how far a number is behind the next message to be sent (`Age`).

- `SenderInv`, `ReceiverInv`: each queue lies between its oldest number and its next.
  The two windows move on their own, so what ties them together is an invariant by
  itself: `TransitInv`, what was sent and not yet taken is in a queue, and where
  both have it they agree. `SentInv` is the same for the record of sent packets.
- `FlightInv`: how old a number on its way may be, which is what makes comparing it safe.
  A packet lives for `Lifetime` packets, but how far do numbers go in that time? The
  sender goes on only when messages are acknowledged, so each number that overtakes one
  on its way (`Overtaken`) has come to the receiver in a packet sent after it
  (`Arrived`), of which each brings at most `MaxPerPacket`. And what a packet carries is
  less than a queue apart from what an older one does.
- `PacketInv`: what is on its way is true. A message or fragment is of the value that its
  number has in the queues; the record of a packet is of what the packet
  carried; a packet that was processed, and not acknowledged yet, brought its messages.
- `BlockInv`: a fragment that the sender was told of, or may be (`Claimed`), was of a block
  that has been received or is being put together. Of the one being put together one
  fragment is missing and claimed by nobody, so the sender does not drop a block that
  the receiver has in part.

A desync error takes a message beyond the receive queue, or a block whose slot there is
taken. The sender sends only what is less than the receive queue away from its oldest
message, so for the former the message that the application takes next has been received
(`MessageInv`, kept while the message is on its way), and for the latter only that
one can be in the slot (`SlotTaken`). `DesyncOnlyIfBehind` is part of `Inv`, as the error
stays. The block that caused it stays too, whole, which is why `BlockInv` has a
fragment missing only as long as there is no error.

`ChannelIsQueue` goes by steps. The messages in transit, by `TransitInv` a sequence
of values, get one more with `SendMessage` (`SendTransit`) and lose the first with
`ReceiveMessage` (`ReceiveTransit`); a send that finds the queue full is `Fail`, the
end of the connection is `Close`, and any other step leaves the values as they are
(`CalmTransit`), whichever queues they move between. TLC checked `Inv` on the instance
of the run before it was proved.

`Tlsf`: all its invariants (`TypeCorrect`, `PoolChecked`, `FitsFound`) and that it is a heap
(`AllocatorIsHeap`), for a pool of any size below the maximum, any number of classes of
either level, any requests below the maximum and any alignments that are powers of two
(`SizesAssumption`).

- No block is in order in the middle of an operation, so an invariant of states says
  nothing of the steps an operation is made of. `Open(h, O)` is about any heap:
  it is in order but for the blocks `O` that are being worked on. Blocks follow one another
  through the whole pool (`Chain`); the flags of all but those of `O` are right, and two
  free ones are neighbours only if one is of `O` (`Flags`); the lists and both bitmaps show
  every free block but those of `O`, in its class, once (`Listed`). Marking, listing
  and unlisting, splitting and absorbing each have a lemma that opens or closes a block;
  merging, trimming and the four calls are put together from those, ending with none open.
- `Inv` is `Open(heap, {})` and `HeldIn`: what callers hold are used blocks with room for what
  was asked for, and no two are the same. As blocks of a chain do not overlap, neither
  do those: what each operation has to show is that it leaves alone the used blocks that it
  was not asked about (`Taken`, `Kept`).
- `FitsFound` needs that classes are ordered as sizes are (`Monotone`) and that a block of the
  class that a size is rounded up to is as large (`Enough`). The provers cannot calculate
  with powers of two, so `2 ^ k` is the number of subsets of `1..k`, of which the library
  knows this, and everything else about powers follows by counting and induction.
  For an aligned block, the gap in front is either nothing or enough for a block of
  its own, and what was added to the request covers it (`GapIs`).

TLC checked `Inv` on the instance of the run before it was proved.

Checked by TLC only: liveness and everything with fairness, which is beyond the prover.
Every invariant, action property and refinement of the passing runs is proved.

## Not modelled

- The tests inside `netcode.c` and `reliable.c`, the two soak and profile programs,
  and the documentation and declarations of `yojimbo.h`: half of the lines of the
  libraries. Serialisation, bit packing, addresses, token and packet formats and
  encryption: what a packet says is modelled, how it says it is not.
- netcode.io: expiry of tokens and the table of tokens used, loopback clients, the
  `confirmed` flag, its own network simulator. The other servers of a token do not
  answer.
- yojimbo: several channels in a packet, message factories, the client around its
  connection. reliable.io: estimates of round-trip time, loss and bandwidth.
- tlsf: further pools, which nothing adds.
- The end of the yojimbo game server on SIGINT: `server.Stop` disconnects the
  clients, whose loop then calls `ReceiveMessage` once more (`client.cpp:268`).
- Memory of the games: ENet packets are never destroyed, messages of the RakNet
  version never deleted. `numPlayers`, uninitialised in `yojimbo/server.cpp:145`.
- Health, bombs and `PlayerLeaveMessage`, which no code uses; rendering, logging,
  arguments, the format of messages.
- The yojimbo matcher, which is never started; the certificates, which are data; the
  experiment scripts; and the inside of SLikeNet and ENet, whose code is not in the
  repository.

## What could come next

1. `YojimboServer` on a small instance, its reliable channel, and the client.
2. `YojGame` over `ReliableChannel` in one specification, so that the assumption
   about messages becomes a refinement.
3. Expiry of tokens and the table of used tokens in `NetcodeConnection`.
