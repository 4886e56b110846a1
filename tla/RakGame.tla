------------------------------ MODULE RakGame ------------------------------
(***************************************************************************)
(* The RakNet version of the benchmark game: one authoritative server and  *)
(* the clients that connect to it (raknet/server, raknet/client).          *)
(*                                                                         *)
(* Each process is single-threaded above the library, so every packet      *)
(* handler is one action.  The library's own thread delivers packets and   *)
(* accepts connections at any time between two of them.  A packet in one   *)
(* of the three channel variables is anywhere between the sender's Send    *)
(* and the receiver's Receive, so "Receive returned null" is possible at   *)
(* any moment.  A client process connects at most once, from a fresh port, *)
(* and so its address also stands for the NetworkID of its player.         *)
(***************************************************************************)
EXTENDS GameMap, FiniteSets, Sequences, SequencesExt

CONSTANTS
    Clients,        \* client processes
    NumPlayers,     \* -c
    Modes,          \* the values of -r looked at
    MaxMoves,       \* bound: moves of all clients together
    MaxPositions    \* bound: PLAYER_POSITION packets on the way to one client

ASSUME ClientsAssumption == IsFiniteSet(Clients)
ASSUME NumPlayersAssumption == NumPlayers \in Nat
ASSUME ModeAssumption == Modes \subseteq BOOLEAN
ASSUME BoundsAssumption == MaxMoves \in Nat /\ MaxPositions \in Nat

VARIABLES
    reliable,       \* -r, on both sides: RELIABLE_ORDERED, otherwise UNRELIABLE
    \* the server process
    server,         \* what StartGameLoop is doing
    newConn,        \* ID_NEW_INCOMING_CONNECTION events not handled yet
    connected,      \* keys of connectedPlayers
    pos,            \* Player::pos
    toSelf,         \* Player::broadcastLocationToSelf
    queue,          \* updatedPlayerPositions
    cursor,         \* the entry UpdatePlayerPositions looks at next
    \* the client processes
    phase,          \* which loop a client is in
    local,          \* localPlayer->pos
    known,          \* players the networkIDManager finds, the local one left out
    seen,           \* their positions
    phantom,        \* remotePlayerPositions entries the networkIDManager does not find
    moves,          \* moves made by all clients, for the bound
    \* the library and the network
    link,           \* the server library's connection to a client
    control,        \* server to client, ordering channel 0
    positions,      \* server to client, ordering channel 2
    toServer        \* client to server, ordering channel 1

serverVars == <<server, newConn, connected, pos, toSelf, queue, cursor>>
clientVars == <<phase, local, known, seen, phantom, moves>>
netVars == <<link, control, positions, toServer>>
vars == <<reliable, serverVars, clientVars, netVars>>
-----------------------------------------------------------------------------
(* Messages and delivery.                                                  *)

Move == [id : Clients, at : Cell]
Control == [type : {"config", "spawn", "join"}, id : Clients, at : Cell]

\* Mutant of Deliverable: no order with -r either.
DeliverableInAnyOrder(s) == DOMAIN s

\* Which packets of a channel content s can be delivered next: the oldest one
\* in order, any one when the mode is UNRELIABLE.
Deliverable(s) == {i \in DOMAIN s : reliable => i = 1}
\* A process that will never read again swallows what is sent to it.
Reads(c) == phase[c] \in {"waitConfig", "waitSpawn", "playing"}
\* Whom a broadcast reaches: every system the library is connected to, also
\* one whose connection event the game has not handled yet.
Addressees == {c \in Clients : link[c] = "up" /\ Reads(c)}

TypeOK ==
    /\ reliable \in Modes
    /\ server \in {"receiving", "updating", "spinning", "crashed"}
    /\ newConn \subseteq Clients
    /\ connected \subseteq Clients
    /\ pos \in [Clients -> Cell]
    /\ toSelf \in [Clients -> BOOLEAN]
    /\ queue \in Seq(Move)
    /\ cursor \in 1..(Len(queue) + 1)
    /\ phase \in [Clients -> {"off", "waitConfig", "waitSpawn", "playing",
                              "spinning", "exited"}]
    /\ local \in [Clients -> Cell]
    /\ known \in [Clients -> SUBSET Clients]
    /\ seen \in [Clients -> [Clients -> Cell]]
    /\ phantom \in [Clients -> Seq(Move)]
    /\ moves \in 0..MaxMoves
    /\ link \in [Clients -> {"none", "up", "lost"}]
    /\ control \in [Clients -> Seq(Control)]
    /\ positions \in [Clients -> Seq(Move)]
    /\ toServer \in [Clients -> Seq(Cell)]

Init ==
    /\ reliable \in Modes
    /\ server = "receiving"
    /\ newConn = {} /\ connected = {}
    /\ pos = [c \in Clients |-> Origin]
    /\ toSelf = [c \in Clients |-> FALSE]
    /\ queue = <<>> /\ cursor = 1
    /\ phase = [c \in Clients |-> "off"]
    /\ local = [c \in Clients |-> Origin]
    /\ known = [c \in Clients |-> {}]
    /\ seen = [c \in Clients |-> [d \in Clients |-> Origin]]
    /\ phantom = [c \in Clients |-> <<>>]
    /\ moves = 0
    /\ link = [c \in Clients |-> "none"]
    /\ control = [c \in Clients |-> <<>>]
    /\ positions = [c \in Clients |-> <<>>]
    /\ toServer = [c \in Clients |-> <<>>]
-----------------------------------------------------------------------------
(* The library: connections made, refused and lost, packets dropped.       *)

\* The server library accepts a connection and queues the event for the game.
Connect(c) ==
    /\ phase[c] = "off"
    /\ Cardinality({d \in Clients : link[d] = "up"}) < NumPlayers
    /\ link' = [link EXCEPT ![c] = "up"]
    /\ newConn' = newConn \union {c}
    /\ phase' = [phase EXCEPT ![c] = "waitConfig"]
    /\ UNCHANGED <<reliable, server, connected, pos, toSelf, queue, cursor, local, known,
                   seen, phantom, moves, control, positions, toServer>>

\* ID_CONNECTION_ATTEMPT_FAILED: the client exits.  A full server refuses
\* with a packet the client's loop ignores: it waits for a configuration.
NotConnected(c) ==
    LET full == Cardinality({d \in Clients : link[d] = "up"}) >= NumPlayers
    IN /\ phase[c] = "off"
       /\ \E p \in {"exited"} \union (IF full THEN {"waitConfig"} ELSE {}) :
             phase' = [phase EXCEPT ![c] = p]
       /\ UNCHANGED <<reliable, serverVars, local, known, seen, phantom, moves, netVars>>

\* The client process is killed (its loop never returns).  Its memory goes
\* with it; the server learns of it when the library reports the loss.
ClientKilled(c) ==
    /\ phase[c] \in {"waitConfig", "waitSpawn", "playing", "spinning"}
    /\ phase' = [phase EXCEPT ![c] = "exited"]
    /\ local' = [local EXCEPT ![c] = Origin]
    /\ known' = [known EXCEPT ![c] = {}]
    /\ seen' = [seen EXCEPT ![c] = [d \in Clients |-> Origin]]
    /\ phantom' = [phantom EXCEPT ![c] = <<>>]
    /\ control' = [control EXCEPT ![c] = <<>>]
    /\ positions' = [positions EXCEPT ![c] = <<>>]
    /\ UNCHANGED <<reliable, serverVars, moves, link, toServer>>

\* A packet that gets lost is one that stays in its channel for good: no
\* delivery is forced in UNRELIABLE mode or after a lost connection.  Only in
\* the channel whose packets are counted has a lost one to be taken out.
DropPosition(c) ==
    /\ ~reliable
    /\ \E i \in DOMAIN positions[c] :
          positions' = [positions EXCEPT ![c] = RemoveAt(@, i)]
    /\ UNCHANGED <<reliable, serverVars, clientVars, link, control, toServer>>
-----------------------------------------------------------------------------
(* The server: Server::StartGameLoop, one tick after the other.  A tick    *)
(* handles packets until Receive returns null, then UpdatePlayerPositions  *)
(* goes through its queue, one entry a step, then positions are broadcast. *)

\* Mutant of Welcome: the spawn point is sent ahead of the configuration.
WelcomeSpawnFirst(c, p) ==
    LET msg(type) == [type |-> type, id |-> c, at |-> p]
        own == IF c \in Addressees THEN <<msg("spawn"), msg("config")>> ELSE <<>>
    IN [d \in Clients |-> control[d]
            \o (IF d = c THEN own ELSE <<>>)
            \o (IF d \in Addressees THEN <<msg("join")>> ELSE <<>>)]

\* What the handler of a new connection sends on channel 0: the configuration
\* and the spawn point to the new client, the join to everybody, itself too.
Welcome(c, p) ==
    LET msg(type) == [type |-> type, id |-> c, at |-> p]
        own == IF c \in Addressees THEN <<msg("config"), msg("spawn")>> ELSE <<>>
    IN [d \in Clients |-> control[d]
            \o (IF d = c THEN own ELSE <<>>)
            \o (IF d \in Addressees THEN <<msg("join")>> ELSE <<>>)]

\* Mutant of NewConnection: the player is not entered in connectedPlayers.
NewConnectionNotListed(c) ==
    /\ server = "receiving" /\ c \in newConn
    /\ \E p \in SpawnCell :
          /\ \A d \in connected : pos[d] # p
          /\ pos' = [pos EXCEPT ![c] = p]
          /\ control' = Welcome(c, p)
    /\ toSelf' = [toSelf EXCEPT ![c] = FALSE]
    /\ newConn' = newConn \ {c}
    /\ UNCHANGED <<reliable, server, connected, queue, cursor, clientVars, link, positions, toServer>>

\* ID_NEW_INCOMING_CONNECTION: the player spawns where no other player is.
NewConnection(c) ==
    /\ server = "receiving" /\ c \in newConn
    /\ \E p \in SpawnCell :
          /\ \A d \in connected : pos[d] # p
          /\ pos' = [pos EXCEPT ![c] = p]
          /\ control' = Welcome(c, p)
    /\ toSelf' = [toSelf EXCEPT ![c] = FALSE]
    /\ newConn' = newConn \ {c}
    /\ connected' = connected \union {c}
    /\ UNCHANGED <<reliable, server, queue, cursor, clientVars, link, positions, toServer>>

\* The same on a map with a player on every spawn cell: the search for a free
\* one never ends.
NoRoomToSpawn(c) ==
    /\ server = "receiving" /\ c \in newConn
    /\ \A p \in SpawnCell : \E d \in connected : pos[d] = p
    /\ server' = "spinning"
    /\ UNCHANGED <<reliable, newConn, connected, pos, toSelf, queue, cursor, clientVars, netVars>>

\* ID_CONNECTION_LOST: the player is deleted; nobody is told.  What the client
\* had sent and the server had not received by then is gone.
ConnectionLost(c) ==
    /\ server = "receiving" /\ link[c] = "up" /\ c \notin newConn
    /\ connected' = connected \ {c}
    /\ pos' = [pos EXCEPT ![c] = Origin]
    /\ toSelf' = [toSelf EXCEPT ![c] = FALSE]
    /\ link' = [link EXCEPT ![c] = "lost"]
    /\ toServer' = [toServer EXCEPT ![c] = <<>>]
    /\ UNCHANGED <<reliable, server, newConn, queue, cursor, clientVars, control, positions>>

\* PLAYER_MOVE: queued for the end of the tick.
ReceiveMove(c) ==
    /\ server = "receiving" /\ link[c] = "up" /\ c \notin newConn
    /\ \E i \in Deliverable(toServer[c]) :
          /\ queue' = Append(queue, [id |-> c, at |-> toServer[c][i]])
          /\ toServer' = [toServer EXCEPT ![c] = RemoveAt(@, i)]
    /\ UNCHANGED <<reliable, server, newConn, connected, pos, toSelf, cursor, clientVars,
                   link, control, positions>>

\* One turn of the loop in UpdatePlayerPositions.  A player more than one
\* space away keeps its position and will hear of it; a player that is not
\* there any more is a null pointer, used without a test.
UpdatePlayerPosition ==
    /\ server \in {"receiving", "updating"} /\ cursor <= Len(queue)
    /\ LET m == queue[cursor] IN
          IF m.id \notin connected
          THEN /\ server' = "crashed"
               /\ UNCHANGED <<pos, toSelf, cursor>>
          ELSE /\ server' = "updating"
               /\ cursor' = cursor + 1
               /\ IF Near(pos[m.id], m.at)
                  THEN pos' = [pos EXCEPT ![m.id] = m.at] /\ UNCHANGED toSelf
                  ELSE toSelf' = [toSelf EXCEPT ![m.id] = TRUE] /\ UNCHANGED pos
    /\ UNCHANGED <<reliable, newConn, connected, queue, clientVars, netVars>>

\* Mutant of Broadcast: everybody is told everything.
BroadcastToAll(d, order) == [i \in DOMAIN order |-> [id |-> order[i], at |-> pos[order[i]]]]

\* The end of the tick: the queue is cleared, and every player's position goes
\* to everybody else, or to everybody if its client is to be put right.  The
\* map goes through the players in an order of its own.
Broadcast(d, order) ==
    LET all == [i \in DOMAIN order |-> [id |-> order[i], at |-> pos[order[i]]]]
        own == {i \in DOMAIN order : order[i] = d /\ ~toSelf[d]}
    IN IF own = {} THEN all ELSE RemoveAt(all, CHOOSE i \in own : TRUE)

EndTick ==
    /\ server \in {"receiving", "updating"} /\ cursor > Len(queue)
    /\ server' = "receiving"
    /\ queue' = <<>> /\ cursor' = 1
    /\ toSelf' = [c \in Clients |-> FALSE]
    /\ \E order \in SetToSeqs(connected) :
          positions' = [d \in Clients |->
             IF d \in Addressees THEN positions[d] \o Broadcast(d, order)
                                 ELSE positions[d]]
    /\ \A d \in Clients : Len(positions'[d]) <= MaxPositions
    /\ UNCHANGED <<reliable, newConn, connected, pos, clientVars, link, control, toServer>>
-----------------------------------------------------------------------------
(* A client: it waits for its configuration, then for its spawn point, and *)
(* then plays, a move and whatever has arrived in every tick.              *)

\* AddRemotePlayer: a second object for a NetworkID that is taken is listed
\* with the others and never found again.
AddRemotePlayer(c, d, p) ==
    IF d \in known[c]
    THEN /\ phantom' = [phantom EXCEPT ![c] = Append(@, [id |-> d, at |-> p])]
         /\ UNCHANGED <<known, seen>>
    ELSE /\ known' = [known EXCEPT ![c] = @ \union {d}]
         /\ seen' = [seen EXCEPT ![c] = [@ EXCEPT ![d] = p]]
         /\ UNCHANGED phantom

\* Mutant of HandleControl: no test that the player that joined is another.
HandleControlOwnJoin(c, m) ==
    \/ /\ phase[c] = "waitConfig" /\ m.type = "config"
       /\ phase' = [phase EXCEPT ![c] = "waitSpawn"]
       /\ UNCHANGED <<local, known, seen, phantom>>
    \/ /\ phase[c] = "waitSpawn" /\ m.type = "spawn"
       /\ phase' = [phase EXCEPT ![c] = "playing"]
       /\ local' = [local EXCEPT ![c] = m.at]
       /\ UNCHANGED <<known, seen, phantom>>
    \/ /\ phase[c] = "playing" /\ m.type = "join"
       /\ AddRemotePlayer(c, m.id, m.at)
       /\ UNCHANGED <<phase, local>>
    \/ /\ phase[c] \in {"waitConfig", "waitSpawn"}
       /\ UNCHANGED <<phase, local, known, seen, phantom>>

\* A packet of channel 0.  Each loop drops what it does not wait for.
HandleControl(c, m) ==
    \/ /\ phase[c] = "waitConfig" /\ m.type = "config"
       /\ phase' = [phase EXCEPT ![c] = "waitSpawn"]
       /\ UNCHANGED <<local, known, seen, phantom>>
    \/ /\ phase[c] = "waitSpawn" /\ m.type = "spawn"
       /\ phase' = [phase EXCEPT ![c] = "playing"]
       /\ local' = [local EXCEPT ![c] = m.at]
       /\ UNCHANGED <<known, seen, phantom>>
    \/ /\ phase[c] = "playing" /\ m.type = "join" /\ m.id # c
       /\ AddRemotePlayer(c, m.id, m.at)
       /\ UNCHANGED <<phase, local>>
    \/ /\ \/ phase[c] = "waitConfig" /\ m.type # "config"
          \/ phase[c] = "waitSpawn" /\ m.type # "spawn"
          \/ phase[c] = "playing" /\ ~(m.type = "join" /\ m.id # c)
       /\ UNCHANGED <<phase, local, known, seen, phantom>>

ReceiveControl(c) ==
    /\ Reads(c)
    /\ \E i \in Deliverable(control[c]) :
          /\ HandleControl(c, control[c][i])
          /\ control' = [control EXCEPT ![c] = RemoveAt(@, i)]
    /\ UNCHANGED <<reliable, serverVars, moves, link, positions, toServer>>

\* Mutant of HandlePosition: the position of an unknown player is dropped.
HandlePositionOfKnown(c, m) ==
    /\ IF m.id = c THEN local' = [local EXCEPT ![c] = m.at] ELSE UNCHANGED local
    /\ IF m.id \in known[c] THEN seen' = [seen EXCEPT ![c] = [@ EXCEPT ![m.id] = m.at]]
                            ELSE UNCHANGED seen
    /\ UNCHANGED <<known, phantom>>

\* PLAYER_POSITION: the local player is put right, a known player moved, an
\* unknown one added.
HandlePosition(c, m) ==
    IF m.id = c
    THEN /\ local' = [local EXCEPT ![c] = m.at]
         /\ UNCHANGED <<known, seen, phantom>>
    ELSE IF m.id \in known[c]
    THEN /\ seen' = [seen EXCEPT ![c] = [@ EXCEPT ![m.id] = m.at]]
         /\ UNCHANGED <<local, known, phantom>>
    ELSE AddRemotePlayer(c, m.id, m.at) /\ UNCHANGED local

ReceivePosition(c) ==
    /\ Reads(c)
    /\ \E i \in Deliverable(positions[c]) :
          /\ IF phase[c] = "playing"
             THEN HandlePosition(c, positions[c][i])
             ELSE UNCHANGED <<local, known, seen, phantom>>
          /\ positions' = [positions EXCEPT ![c] = RemoveAt(@, i)]
    /\ UNCHANGED <<reliable, serverVars, phase, moves, link, control, toServer>>

\* The positions remotePlayerPositions points to.
Occupied(c) ==
    {seen[c][d] : d \in known[c]} \union {phantom[c][i].at : i \in DOMAIN phantom[c]}

\* PerformLocalMove and sendLocalPlayerMove, the start of a client tick.
LocalMove(c) ==
    /\ phase[c] = "playing" /\ moves < MaxMoves
    /\ \E p \in PossibleMoves(local[c]) \ Occupied(c) :
          /\ local' = [local EXCEPT ![c] = p]
          /\ toServer' = [toServer EXCEPT ![c] = IF link[c] = "up" THEN Append(@, p) ELSE @]
    /\ moves' = moves + 1
    /\ UNCHANGED <<reliable, serverVars, phase, known, seen, phantom, link, control, positions>>

\* The same with every move taken: the search for a free one never ends.
NoRoomToMove(c) ==
    /\ phase[c] = "playing"
    /\ PossibleMoves(local[c]) \subseteq Occupied(c)
    /\ phase' = [phase EXCEPT ![c] = "spinning"]
    /\ control' = [control EXCEPT ![c] = <<>>]
    /\ positions' = [positions EXCEPT ![c] = <<>>]
    /\ UNCHANGED <<reliable, serverVars, local, known, seen, phantom, moves, link, toServer>>
-----------------------------------------------------------------------------
LibraryStep(c) ==
    \/ Connect(c) \/ NotConnected(c) \/ ClientKilled(c)
    \/ DropPosition(c)
ServerStep(c) ==
    \/ NewConnection(c) \/ NoRoomToSpawn(c) \/ ConnectionLost(c) \/ ReceiveMove(c)
ClientStep(c) ==
    \/ ReceiveControl(c) \/ ReceivePosition(c) \/ LocalMove(c) \/ NoRoomToMove(c)

Next ==
    \/ UpdatePlayerPosition \/ EndTick
    \/ \E c \in Clients : LibraryStep(c) \/ ServerStep(c) \/ ClientStep(c)

Spec == Init /\ [][Next]_vars

(* Both loops drain what has arrived in every tick, whatever else happens  *)
(* in between, and ticks go on forever: strong fairness for what the       *)
(* server receives only in part of its tick, weak fairness for the rest.   *)
(* What was sent over a connection that is up arrives, with -r.  A client  *)
(* need not move, connect or stay.                                         *)
Fairness ==
    /\ WF_vars(UpdatePlayerPosition) /\ WF_vars(EndTick)
    /\ \A c \in Clients :
          /\ SF_vars(NewConnection(c) \/ NoRoomToSpawn(c))
          /\ SF_vars(reliable /\ ReceiveMove(c))
          /\ WF_vars(reliable /\ link[c] = "up" /\ ReceiveControl(c))
          /\ WF_vars(reliable /\ link[c] = "up" /\ ReceivePosition(c))

FairSpec == Spec /\ Fairness
-----------------------------------------------------------------------------
(* Properties.                                                             *)

\* With -r the server never turns a move down: however moves of a client are
\* spread over ticks, each arrives one space from where the server has the
\* player, although the check compares two copies of the position that are
\* never in step (server_gamestate.cpp:48-52).
NeverRejected == reliable => \A c \in connected : ~toSelf[c]

\* With -r no client is ever told its own position, so the walk of the local
\* player is never cut (client.cpp:168).
NeverPutRight == reliable =>
    \A c \in Clients : \A i \in DOMAIN positions[c] : positions[c][i].id # c

\* Why (WalkInv, inductive with the rest of RakInv): what the server has of
\* player c, its moves in the queue, its moves on the wire and where its
\* client has it are the successive cells of one walk.
Waiting(c, i) == i \in cursor..Len(queue) /\ queue[i].id = c
FirstWaiting(c, i) == Waiting(c, i) /\ \A j \in cursor..Len(queue) : Waiting(c, j) => i <= j
LastWaiting(c, i) == Waiting(c, i) /\ \A j \in cursor..Len(queue) : Waiting(c, j) => j <= i
Following(c, i, j) ==
    /\ Waiting(c, i) /\ Waiting(c, j) /\ i < j
    /\ \A k \in cursor..Len(queue) : Waiting(c, k) => k <= i \/ j <= k
\* The newest position of c that the server has received is p.
Newest(c, p) ==
    \/ p = pos[c] /\ \A i \in cursor..Len(queue) : ~Waiting(c, i)
    \/ \E i \in cursor..Len(queue) : LastWaiting(c, i) /\ p = queue[i].at

QueueWalk(c) ==
    /\ \A i \in cursor..Len(queue) : FirstWaiting(c, i) => Near(pos[c], queue[i].at)
    /\ \A i, j \in cursor..Len(queue) : Following(c, i, j) => Near(queue[i].at, queue[j].at)
WireWalk(c) ==
    /\ toServer[c] # <<>> => \A p \in Cell : Newest(c, p) => Near(p, toServer[c][1])
    /\ \A i \in 1..(Len(toServer[c]) - 1) : Near(toServer[c][i], toServer[c][i + 1])
LocalWalk(c) ==
    IF toServer[c] = <<>> THEN \A p \in Cell : Newest(c, p) => p = local[c]
                          ELSE toServer[c][Len(toServer[c])] = local[c]
AtSpawn(c) ==
    /\ \A i \in cursor..Len(queue) : ~Waiting(c, i)
    /\ toServer[c] = <<>>
    /\ \A i \in DOMAIN control[c] :
          control[c][i].type = "spawn" => control[c][i].at = pos[c]
WalkInv(c) ==
    c \in connected =>
        /\ QueueWalk(c) /\ WireWalk(c)
        /\ phase[c] \in {"playing", "spinning"} => LocalWalk(c)
        /\ phase[c] \in {"waitConfig", "waitSpawn"} => AtSpawn(c)

\* Which clients the server and its library know of.
LinkInv(c) ==
    /\ link[c] = "up" <=> c \in connected \union newConn
    /\ ~(c \in connected /\ c \in newConn)
    /\ phase[c] = "off" => link[c] = "none"
    /\ c \notin connected => toServer[c] = <<>>
    /\ link[c] = "none" \/ c \in newConn =>
          /\ phase[c] \in {"off", "waitConfig", "exited"}
          /\ \A i \in DOMAIN queue : queue[i].id # c
          /\ \A i \in DOMAIN control[c] : control[c][i].type \notin {"config", "spawn"}

SelfInv(c) == ~toSelf[c] /\ \A i \in DOMAIN positions[c] : positions[c][i].id # c

RakInv == \A c \in Clients : SelfInv(c) /\ LinkInv(c) /\ WalkInv(c)

\* With -r, RakInv: the walk of every player is kept across the two copies of
\* its position, and every connection the library has accepted is one player
\* or will be one (server.cpp:57-71).
WhenReliable == reliable => RakInv

\* The null pointer of server_gamestate.cpp:46-49 is met only through a move
\* and then the loss of its sender handled in the same tick: no client plays
\* that the server does not have, and no old move outlives its tick.
CrashOnlyAfterLoss ==
    server = "crashed" => /\ cursor <= Len(queue)
                          /\ link[queue[cursor].id] = "lost"

\* In whatever order the two channels deliver joins and positions, a player
\* is listed at most twice by another client and never by its own
\* (client.cpp:128-159).
RemoteEntries ==
    \A c \in Clients :
        /\ c \notin known[c]
        /\ \A i \in DOMAIN phantom[c] :
              /\ phantom[c][i].id \in known[c]
              /\ \A j \in DOMAIN phantom[c] :
                    phantom[c][j].id = phantom[c][i].id => i = j

\* Two players alone hang a client only through a phantom: the search of
\* PerformLocalMove (client_gamestate.cpp:36-47) runs out of moves because the
\* same player is listed twice, at two cells at once.
HangNeedsPhantom ==
    \A c \in Clients :
        phase[c] = "spinning" => phantom[c] # <<>> \/ Cardinality(known[c]) > 1

\* With -r a client whose connection was accepted gets to play, unless it is
\* killed or lost or the server stops for good: no packet its two waiting
\* loops throw away is one it needs (client.cpp:14-72).
Stopped == server \in {"spinning", "crashed"}
EventuallyPlays ==
    \A c \in Clients :
        (reliable /\ link[c] = "up" /\ phase[c] = "waitConfig")
            ~> \/ phase[c] \in {"playing", "spinning", "exited"}
               \/ link[c] = "lost" \/ Stopped

\* With -r, once players stay connected and rest, every playing client has
\* every other player where the server has it, also those that joined before
\* it and whose join it threw away (client.cpp:155-171).
Together(c, d) ==
    reliable /\ ~Stopped /\ link[c] = "up" /\ phase[c] = "playing" /\ d \in connected
EventuallyInSync ==
    \A c \in Clients : \A d \in Clients \ {c} :
        <>[]Together(c, d) => <>[](d \in known[c] /\ seen[c][d] = pos[d])
=============================================================================
