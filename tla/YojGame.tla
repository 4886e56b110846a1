------------------------------ MODULE YojGame ------------------------------
(***************************************************************************)
(* The yojimbo version of the benchmark game (yojimbo/server.cpp,          *)
(* yojimbo/client.cpp, yojimbo/shared.h): one server, its slots, and the   *)
(* clients the library puts into them.                                     *)
(*                                                                         *)
(* Both programs are one thread, the library included: sockets are read in *)
(* AdvanceTime only, at the end of a tick.  The server names players by    *)
(* the slot of their client; a client names itself, in every move, by the  *)
(* low byte of the random 64 bits it takes as its identity.  Messages sent *)
(* in one tick travel in one packet, a bundle here.  Clients run with -x:  *)
(* without it the pointer of client.cpp:306 is null in their first tick.   *)
(***************************************************************************)
EXTENDS GameMap, FiniteSets, Sequences, SequencesExt

CONSTANTS
    Clients,        \* client processes, each connects at most once
    Nobody,         \* no client
    NumSlots,       \* MAX_CLIENTS
    Modes,          \* the values of -r looked at
    MaxMoves,       \* bound: moves of all clients together
    MaxBundles      \* bound: bundles on the way to one client

ASSUME ClientsAssumption == IsFiniteSet(Clients) /\ Nobody \notin Clients
ASSUME SlotsAssumption == NumSlots \in Nat \ {0}
ASSUME ModeAssumption == Modes \subseteq BOOLEAN
ASSUME BoundsAssumption == MaxMoves \in Nat /\ MaxBundles \in Nat

Slots == 0..(NumSlots - 1)
\* The low byte of a client's identity: a slot, or NumSlots for any byte that
\* is none.
Tag == 0..NumSlots

VARIABLES
    reliable,       \* -r, on both sides: the reliable channel, otherwise the unreliable one
    \* the server process
    server,         \* which part of its loop ServerMain is in
    slot,           \* i of the loops over the slots
    owner,          \* connectedPlayers: the client the slot's Player was made for
    pos,            \* Player::pos
    queue,          \* updatedPlayerPositions
    \* the library below it
    occupant,       \* the client connected in a slot
    outbox,         \* messages sent to a slot since the last SendPackets
    \* the client processes
    phase,          \* whether a client runs
    tag,            \* low byte of clientId
    game,           \* its ClientGameState and the two flags of ClientMain
    moves,          \* moves made by all clients, for the bound
    \* the network
    wire,           \* server to client: bundles
    toServer        \* client to server: moves

serverVars == <<server, slot, owner, pos, queue, occupant, outbox>>
clientVars == <<phase, tag, game, moves>>
vars == <<reliable, serverVars, clientVars, wire, toServer>>
-----------------------------------------------------------------------------
Move == [id : Tag, at : Cell]
Message == [type : {"config", "spawn", "join", "position"}, id : Slots, at : Cell]

Game == [configured : BOOLEAN, spawned : BOOLEAN, at : Cell,
         remote : UNION {[S -> Cell] : S \in SUBSET Slots}]
NewGame == [configured |-> FALSE, spawned |-> FALSE, at |-> Origin, remote |-> <<>>]

\* Mutant of Deliverable: no order on the reliable channel either.
DeliverableInAnyOrder(s) == DOMAIN s

\* The reliable channel hands messages over in order and none twice; packets
\* of the unreliable one arrive in any order.
Deliverable(s) == {i \in DOMAIN s : reliable => i = 1}
Connected(c) == \E s \in Slots : occupant[s] = c
Occupied == {s \in Slots : occupant[s] # Nobody}
Players == {s \in Slots : owner[s] # Nobody}

TypeOK ==
    /\ reliable \in Modes
    /\ server \in {"send", "reconcile", "drain", "update", "advance",
                   "spinning", "crashed"}
    /\ slot \in Slots
    /\ owner \in [Slots -> Clients \union {Nobody}]
    /\ pos \in [Slots -> Cell]
    /\ queue \in Seq(Move)
    /\ occupant \in [Slots -> Clients \union {Nobody}]
    /\ outbox \in [Slots -> Seq(Message)]
    /\ phase \in [Clients -> {"off", "running", "spinning", "exited"}]
    /\ tag \in [Clients -> Tag]
    /\ game \in [Clients -> Game]
    /\ moves \in 0..MaxMoves
    /\ wire \in [Clients -> Seq(Seq(Message))]
    /\ toServer \in [Clients -> Seq(Move)]

Init ==
    /\ reliable \in Modes
    /\ server = "send" /\ slot = 0
    /\ owner = [s \in Slots |-> Nobody]
    /\ pos = [s \in Slots |-> Origin]
    /\ queue = <<>>
    /\ occupant = [s \in Slots |-> Nobody]
    /\ outbox = [s \in Slots |-> <<>>]
    /\ phase = [c \in Clients |-> "off"]
    /\ tag \in [Clients -> Tag]
    /\ game = [c \in Clients |-> NewGame]
    /\ moves = 0
    /\ wire = [c \in Clients |-> <<>>]
    /\ toServer = [c \in Clients |-> <<>>]
-----------------------------------------------------------------------------
(* The server: one tick of ServerMain, from SendPackets to AdvanceTime.    *)

\* Mutant of SendPackets: the loop over the slots ends at the first packet.
SendPacketsToFirst ==
    LET first == {s \in Slots : outbox[s] # <<>> /\ \A t \in 0..(s - 1) : outbox[t] = <<>>}
    IN /\ server = "send"
       /\ wire' = [c \in Clients |->
             IF phase[c] = "running" /\ \E s \in first : occupant[s] = c
             THEN Append(wire[c], outbox[CHOOSE s \in first : TRUE])
             ELSE wire[c]]
       /\ \A c \in Clients : Len(wire'[c]) <= MaxBundles
       /\ outbox' = [s \in Slots |-> <<>>]
       /\ server' = "reconcile"
       /\ UNCHANGED <<reliable, slot, owner, pos, queue, occupant, clientVars, toServer>>

\* server.SendPackets: what was sent to a slot leaves in one packet.
SendPackets ==
    /\ server = "send"
    /\ wire' = [c \in Clients |->
          IF phase[c] = "running" /\ \E s \in Slots : occupant[s] = c /\ outbox[s] # <<>>
          THEN Append(wire[c], outbox[CHOOSE s \in Slots : occupant[s] = c])
          ELSE wire[c]]
    /\ \A c \in Clients : Len(wire'[c]) <= MaxBundles
    /\ outbox' = [s \in Slots |-> <<>>]
    /\ server' = "reconcile"
    /\ UNCHANGED <<reliable, slot, owner, pos, queue, occupant, clientVars, toServer>>

\* Mutant of NextSlot: the loops stop one slot early.
NextSlotShort(next) ==
    IF slot + 2 \in Slots THEN slot' = slot + 1 /\ UNCHANGED server
                          ELSE slot' = 0 /\ server' = next

\* The end of one round of a loop over the slots.
NextSlot(next) ==
    IF slot + 1 \in Slots THEN slot' = slot + 1 /\ UNCHANGED server
                          ELSE slot' = 0 /\ server' = next

\* Mutant of Welcome: the spawn point is sent ahead of the configuration.
WelcomeSpawnFirst(s, p) ==
    LET msg(type) == [type |-> type, id |-> s, at |-> p]
    IN [t \in Slots |->
          outbox[t] \o (IF t = s THEN <<msg("spawn"), msg("config")>> ELSE <<>>)
                    \o (IF t \in Occupied THEN <<msg("join")>> ELSE <<>>)]

\* What a new client is sent: its configuration, its spawn point and, as
\* everybody, its own join.
Welcome(s, p) ==
    LET msg(type) == [type |-> type, id |-> s, at |-> p]
    IN [t \in Slots |->
          outbox[t] \o (IF t = s THEN <<msg("config"), msg("spawn")>> ELSE <<>>)
                    \o (IF t \in Occupied THEN <<msg("join")>> ELSE <<>>)]

\* The loop that compares the library's slots with the players: a client
\* without a player gets one, on a cell where no other player is.
NewPlayer ==
    /\ server = "reconcile" /\ slot \in Occupied \ Players
    /\ \E p \in SpawnCell :
          /\ \A s \in Players : pos[s] # p
          /\ pos' = [pos EXCEPT ![slot] = p]
          /\ outbox' = Welcome(slot, p)
    /\ owner' = [owner EXCEPT ![slot] = occupant[slot]]
    /\ NextSlot("drain")
    /\ UNCHANGED <<reliable, queue, occupant, clientVars, wire, toServer>>

\* With a player on every spawn cell the search for a free one never ends.
NoRoomToSpawn ==
    /\ server = "reconcile" /\ slot \in Occupied \ Players
    /\ \A p \in SpawnCell : \E s \in Players : pos[s] = p
    /\ server' = "spinning"
    /\ UNCHANGED <<reliable, slot, owner, pos, queue, occupant, outbox, clientVars, wire, toServer>>

\* A player without a client is removed, and nobody is told; the other slots
\* are left as they are.
KeepOrRemovePlayer ==
    /\ server = "reconcile" /\ slot \notin Occupied \ Players
    /\ IF slot \in Players \ Occupied
       THEN /\ owner' = [owner EXCEPT ![slot] = Nobody]
            /\ pos' = [pos EXCEPT ![slot] = Origin]
       ELSE UNCHANGED <<owner, pos>>
    /\ NextSlot("drain")
    /\ UNCHANGED <<reliable, queue, occupant, outbox, clientVars, wire, toServer>>

\* ReceiveMessage and ProcessMessage, for the slot at hand.  A move is queued
\* for the player it names, not for the slot it came from.
ReceiveMove ==
    /\ server = "drain" /\ slot \in Occupied
    /\ \E i \in Deliverable(toServer[occupant[slot]]) :
          /\ queue' = Append(queue, toServer[occupant[slot]][i])
          /\ toServer' = [toServer EXCEPT ![occupant[slot]] = RemoveAt(@, i)]
    /\ UNCHANGED <<reliable, server, slot, owner, pos, occupant, outbox, clientVars, wire>>

NoMoreMoves ==
    /\ server = "drain"
    /\ NextSlot("update")
    /\ UNCHANGED <<reliable, owner, pos, queue, occupant, outbox, clientVars, wire, toServer>>

\* One entry of UpdatePlayerPositions: a move of nobody's player, or more than
\* one space long, is left out.
Moved(at, m) ==
    IF m.id \in Players /\ Near(m.at, at[m.id]) THEN [at EXCEPT ![m.id] = m.at] ELSE at

\* Mutant of Positions: the loop over the slots stops one client early.
PositionsShort(at) ==
    [i \in 1..(Cardinality(Occupied) - 1) |->
        LET s == CHOOSE s \in Occupied : Cardinality({t \in Occupied : t < s}) = i - 1
        IN [type |-> "position", id |-> s, at |-> at[s]]]

\* Every position to everybody, their own too, in the order of the slots.
Positions(at) ==
    [i \in 1..Cardinality(Occupied) |->
        LET s == CHOOSE s \in Occupied : Cardinality({t \in Occupied : t < s}) = i - 1
        IN [type |-> "position", id |-> s, at |-> at[s]]]

\* UpdatePlayerPositions, then the broadcast of all positions.  A slot whose
\* client has no player is a null pointer there.
UpdatePlayerPositions ==
    /\ server = "update"
    /\ queue' = <<>>
    /\ pos' = FoldLeft(Moved, pos, queue)
    /\ IF Occupied \subseteq Players
       THEN /\ server' = "advance"
            /\ outbox' = [s \in Slots |->
                 IF s \in Occupied THEN outbox[s] \o Positions(pos') ELSE outbox[s]]
       ELSE server' = "crashed" /\ UNCHANGED outbox
    /\ UNCHANGED <<reliable, slot, owner, occupant, clientVars, wire, toServer>>
-----------------------------------------------------------------------------
(* The library, in server.AdvanceTime: it handles the packets that have    *)
(* arrived one by one, and at the end one client that was silent too long. *)

\* Every connection of a slot starts and ends with empty queues.
FreeSlot(s) ==
    /\ occupant' = [occupant EXCEPT ![s] = Nobody]
    /\ outbox' = [outbox EXCEPT ![s] = <<>>]
    /\ toServer' = [toServer EXCEPT ![occupant[s]] = <<>>]

\* The disconnect packet of a client that has quit.
Disconnected(s) ==
    /\ server = "advance" /\ s \in Occupied /\ phase[occupant[s]] = "exited"
    /\ FreeSlot(s)
    /\ UNCHANGED <<reliable, server, slot, owner, pos, queue, clientVars, wire>>

\* The last packet of a connection handshake: the lowest free slot is taken.
Accept(c) ==
    /\ server = "advance" /\ phase[c] = "off"
    /\ \E s \in Slots \ Occupied :
          /\ \A t \in Slots \ Occupied : s <= t
          /\ occupant' = [occupant EXCEPT ![s] = c]
    /\ phase' = [phase EXCEPT ![c] = "running"]
    /\ UNCHANGED <<reliable, server, slot, owner, pos, queue, outbox, tag, game, moves, wire, toServer>>

\* netcode_server_check_for_timeouts: at most one client in an update.
TimedOut(s) ==
    /\ server = "advance" /\ s \in Occupied
    /\ FreeSlot(s)
    /\ server' = "send"
    /\ UNCHANGED <<reliable, slot, owner, pos, queue, clientVars, wire>>

NothingMore ==
    /\ server = "advance"
    /\ server' = "send"
    /\ UNCHANGED <<reliable, slot, owner, pos, queue, occupant, outbox, clientVars, wire, toServer>>

\* A lost packet.  One to the server stays in its channel for good, as no
\* delivery is forced; those to a client are counted and have to be taken out.
DropBundle(c) ==
    /\ ~reliable
    /\ \E i \in DOMAIN wire[c] : wire' = [wire EXCEPT ![c] = RemoveAt(@, i)]
    /\ UNCHANGED <<reliable, serverVars, clientVars, toServer>>
-----------------------------------------------------------------------------
(* A client: every tick it handles what has arrived and makes one move.    *)

\* remotePlayerPositions[s] = p
Entry(remote, s, p) ==
    [t \in DOMAIN remote \union {s} |-> IF t = s THEN p ELSE remote[t]]

\* One message, in the order ClientMain insists on: first the configuration,
\* then the spawn point, then the rest.
Handle(g, m) ==
    IF ~g.configured
    THEN [g EXCEPT !.configured = (m.type = "config")]
    ELSE IF ~g.spawned
    THEN IF m.type = "spawn" THEN [g EXCEPT !.spawned = TRUE, !.at = m.at] ELSE g
    ELSE IF m.type = "spawn" THEN [g EXCEPT !.at = m.at]
    ELSE IF m.type = "config" THEN g
    ELSE [g EXCEPT !.remote = Entry(@, m.id, m.at)]

ReceivePackets(c) ==
    /\ phase[c] = "running"
    /\ \E i \in Deliverable(wire[c]) :
          /\ game' = [game EXCEPT ![c] = FoldLeft(Handle, @, wire[c][i])]
          /\ wire' = [wire EXCEPT ![c] = RemoveAt(@, i)]
    /\ UNCHANGED <<reliable, serverVars, phase, tag, moves, toServer>>

\* Where a client believes other players to be; the server tells it about its
\* own player in the same way.
Taken(c) == {game[c].remote[s] : s \in DOMAIN game[c].remote}

\* PerformLocalMove and sendLocalPlayerMove, once the configuration is there.
LocalMove(c) ==
    /\ phase[c] = "running" /\ game[c].configured /\ moves < MaxMoves
    /\ \E p \in PossibleMoves(game[c].at) \ Taken(c) :
          /\ game' = [game EXCEPT ![c].at = p]
          /\ toServer' = [toServer EXCEPT ![c] =
                IF Connected(c) THEN Append(@, [id |-> tag[c], at |-> p]) ELSE @]
    /\ moves' = moves + 1
    /\ UNCHANGED <<reliable, serverVars, phase, tag, wire>>

\* With every move taken the search for a free one never ends.
NoRoomToMove(c) ==
    /\ phase[c] = "running" /\ game[c].configured
    /\ PossibleMoves(game[c].at) \subseteq Taken(c)
    /\ phase' = [phase EXCEPT ![c] = "spinning"]
    /\ wire' = [wire EXCEPT ![c] = <<>>]
    /\ UNCHANGED <<reliable, serverVars, tag, game, moves, toServer>>

\* SIGINT, a denied or timed out connection, or a killed process.
Quit(c) ==
    /\ phase[c] # "exited"
    /\ phase' = [phase EXCEPT ![c] = "exited"]
    /\ game' = [game EXCEPT ![c] = NewGame]
    /\ wire' = [wire EXCEPT ![c] = <<>>]
    /\ UNCHANGED <<reliable, serverVars, tag, moves, toServer>>
-----------------------------------------------------------------------------
Tick ==
    \/ SendPackets \/ NewPlayer \/ NoRoomToSpawn \/ KeepOrRemovePlayer
    \/ ReceiveMove \/ NoMoreMoves \/ UpdatePlayerPositions
LibraryStep ==
    \/ NothingMore
    \/ \E s \in Slots : Disconnected(s) \/ TimedOut(s)
    \/ \E c \in Clients : Accept(c) \/ DropBundle(c)
ClientStep(c) ==
    ReceivePackets(c) \/ LocalMove(c) \/ NoRoomToMove(c) \/ Quit(c)

Next == Tick \/ LibraryStep \/ \E c \in Clients : ClientStep(c)

Spec == Init /\ [][Next]_vars

(* The server's loop and those of the clients go on forever, and every     *)
(* tick drains what has arrived.  What a connected client and the server   *)
(* send to each other arrives, with -r.  No client has to connect or move. *)
Fairness ==
    /\ WF_vars(SendPackets) /\ WF_vars(NewPlayer \/ NoRoomToSpawn)
    /\ WF_vars(KeepOrRemovePlayer) /\ WF_vars(NoMoreMoves)
    /\ WF_vars(UpdatePlayerPositions) /\ WF_vars(NothingMore)
    /\ SF_vars(reliable /\ ReceiveMove)
    /\ \A c \in Clients : WF_vars(reliable /\ Connected(c) /\ ReceivePackets(c))

FairSpec == Spec /\ Fairness
-----------------------------------------------------------------------------
(* Properties.                                                             *)

\* A client that has its configuration starts to move in the same tick
\* (client.cpp:298), whether it knows where it is or not: it does, as the two
\* messages never part on their way.
MovesFromSpawn == \A c \in Clients : game[c].configured => game[c].spawned

\* The broadcast never meets a client without a player (server.cpp:155),
\* although connections come and go below it: none does between the loop that
\* reconciles the two and the end of the tick.
NeverNull == server # "crashed"

\* With -r a client for which the server made a player has its configuration,
\* or it is on its way.  So the one client that waits in vain is one for which
\* none was made, in a slot that changed hands within a single update
\* (server.cpp:257-263).
OnItsWay(c, s) ==
    \/ \E i \in DOMAIN outbox[s] : outbox[s][i].type = "config"
    \/ \E i \in DOMAIN wire[c] : \E j \in DOMAIN wire[c][i] : wire[c][i][j].type = "config"
OwnersAreWelcomed == reliable =>
    \A s \in Slots : \A c \in Clients :
        (occupant[s] = c /\ owner[s] = c /\ phase[c] = "running")
            => game[c].configured \/ OnItsWay(c, s)

\* With -r a client whose random byte is its slot, and nobody else's byte, is
\* followed: none of its moves is turned down (server.cpp:127), or it would be
\* away from its player for good as nothing puts it right.
RightlyTagged(c, s) ==
    /\ occupant[s] = c /\ owner[s] = c /\ tag[c] = s
    /\ \A d \in Clients \ {c} : tag[d] # s
RightTagIsFollowed == reliable =>
    \A c \in Clients : \A s \in Slots :
        (RightlyTagged(c, s) /\ game[c].spawned /\ toServer[c] = <<>> /\ queue = <<>>)
            => pos[s] = game[c].at

\* With -r, once clients stay and rest, each has every player where the server
\* has it, itself included (client.cpp:150-152).
Together(c, s) ==
    /\ reliable /\ server \notin {"spinning", "crashed"}
    /\ phase[c] = "running" /\ game[c].spawned /\ Connected(c) /\ s \in Players \intersect Occupied
EventuallyInSync ==
    \A c \in Clients : \A s \in Slots :
        <>[]Together(c, s)
            => <>[](s \in DOMAIN game[c].remote /\ game[c].remote[s] = pos[s])

\* With -r a client for which the server made a player gets to play unless it
\* is lost or exits, or the server hangs.
EventuallyPlays ==
    \A c \in Clients : \A s \in Slots :
        (reliable /\ occupant[s] = c /\ owner[s] = c)
            ~> \/ game[c].configured \/ phase[c] \in {"spinning", "exited"}
               \/ occupant[s] # c \/ server = "spinning"

\* "handle new clients connected" (server.cpp:255): when the loop is through,
\* every client the library has in a slot owns the player of that slot.
EveryClientHandled ==
    server = "drain" => \A s \in Occupied : owner[s] = occupant[s]

\* "server decides what is our actual position after our every move; current
\* player updates its position according to the info form server"
\* (client.cpp:130-131): with -r, once a client stays and rests, its local
\* player is where the server has it.
LocalFollowsServer ==
    \A c \in Clients : \A s \in Slots :
        <>[](Together(c, s) /\ occupant[s] = c /\ owner[s] = c)
            => <>[](game[c].at = pos[s])
=============================================================================
