----------------------------- MODULE EnetGame -----------------------------
(***************************************************************************)
(* The ENet version of the benchmark game (enet/EnetServer/server.cpp,     *)
(* enet/EnetClient/Game.cpp, Client.cpp): the server relays the position   *)
(* of a client to all others and decides nothing.                          *)
(*                                                                         *)
(* Every packet is flagged reliable, so each direction of a connection is  *)
(* a queue that loses nothing while the connection is up.  A client that   *)
(* loses its connection opens another; the server may go on with the old   *)
(* peer until its own timeout.  So connections are numbered, and a peer is *)
(* the slot (incomingPeerID) that a connection holds at the server.  The   *)
(* PLAYER_JOIN packet is left out: whoever receives it prints a line.      *)
(***************************************************************************)
EXTENDS GameMap, CorrectionsTracker, FiniteSets, Sequences

CONSTANTS
    Clients,        \* client processes
    MaxPeers,       \* peers of enet_host_create
    MaxConns,       \* bound: connections ever made
    MaxTicks        \* bound: ticks of all clients together

ASSUME BoundsAssumption == MaxPeers \in Nat \ {0} /\ MaxConns \in Nat /\ MaxTicks \in Nat

Conns == 1..MaxConns
Peers == 0..(MaxPeers - 1)

VARIABLES
    \* the server and its library
    state,          \* of a connection: free, pending, connected, closed
    peer,           \* the peer it holds
    up,             \* positions on their way from its client
    down,           \* positions on their way to its client
    expired,        \* simulationDuration is over
    \* the clients
    phase,          \* in formConnection, called by Game() or in a tick, or in which part of a tick
    conn,           \* m_client->peer: the connection in use, 0 for one that is reset
    at,             \* m_client->pos
    others,         \* m_others
    tracker,        \* correctionsTracker
    heard,          \* history: connections heard of since the own one was made
    ticks           \* ticks of all clients, for the bound

vars == <<state, peer, up, down, expired, phase, conn, at, others, tracker, heard, ticks>>
-----------------------------------------------------------------------------
Message == [from : Conns, id : Peers, pos : Cell]
Start == [x |-> 1, y |-> 1]

\* m_others[id], which makes an entry of zeros when there is none.
Other(o, id) == IF id \in DOMAIN o THEN o[id] ELSE Origin
Entry(o, id, p) == [j \in DOMAIN o \union {id} |-> IF j = id THEN p ELSE o[j]]

TypeOK ==
    /\ state \in [Conns -> {"free", "pending", "connected", "closed"}]
    /\ peer \in [Conns -> Peers]
    /\ up \in [Conns -> Seq(Cell)]
    /\ down \in [Conns -> Seq(Message)]
    /\ expired \in BOOLEAN
    /\ phase \in [Clients -> {"joining", "moving", "receiving", "rejoining"}]
    /\ conn \in [Clients -> {0} \union Conns]
    /\ at \in [Clients -> Cell]
    /\ others \in [Clients -> UNION {[S -> Cell] : S \in SUBSET Peers}]
    /\ tracker \in [Clients -> Tracker]
    /\ heard \in [Clients -> SUBSET Conns]
    /\ ticks \in 0..MaxTicks

Init ==
    /\ state = [k \in Conns |-> "free"]
    /\ peer = [k \in Conns |-> 0]
    /\ up = [k \in Conns |-> <<>>]
    /\ down = [k \in Conns |-> <<>>]
    /\ expired = FALSE
    /\ phase = [c \in Clients |-> "joining"]
    /\ conn = [c \in Clients |-> 0]
    /\ at = [c \in Clients |-> Start]
    /\ others = [c \in Clients |-> <<>>]
    /\ tracker = [c \in Clients |-> NewTracker]
    /\ heard = [c \in Clients |-> {}]
    /\ ticks = 0
-----------------------------------------------------------------------------
(* Connections.                                                            *)

\* Mutant of Held: a peer whose connection was not completed is free.
HeldConnected == {peer[k] : k \in {j \in Conns : state[j] = "connected"}}

\* The peers that are taken, and the connections that a client reads from.
Held == {peer[k] : k \in {j \in Conns : state[j] \in {"pending", "connected"}}}
InUse == {conn[c] : c \in Clients}

\* The end of formConnection, in the constructor or in the receive loop of a tick.
Return(c) ==
    /\ phase[c] \in {"joining", "rejoining"}
    /\ phase' = [phase EXCEPT ![c] = IF @ = "joining" THEN "moving" ELSE "receiving"]
    /\ heard' = [heard EXCEPT ![c] = {}]

\* formConnection, answered: the server's library takes the first free peer.
Connect(c) ==
    /\ Return(c)
    /\ \E k \in Conns, p \in Peers \ Held :
          /\ state[k] = "free" /\ \A j \in Conns : state[j] = "free" => k <= j
          /\ \A q \in Peers \ Held : p <= q
          /\ state' = [state EXCEPT ![k] = "pending"]
          /\ peer' = [peer EXCEPT ![k] = p]
          /\ conn' = [conn EXCEPT ![c] = k]
    /\ UNCHANGED <<up, down, expired, at, others, tracker, ticks>>

\* formConnection, not answered in time: the peer is reset and the game goes
\* on without a connection.  A handshake that only the server knows of may hold
\* a peer for a while; it can be sent nothing, and is left out.
NotConnected(c) ==
    /\ Return(c)
    /\ UNCHANGED <<state, peer, up, down, expired, conn, at, others, tracker, ticks>>

\* ENET_EVENT_TYPE_DISCONNECT at the client: it connects anew, and what was on
\* its way over the old connection is not read any more.
Disconnected(c) ==
    /\ phase[c] = "receiving" /\ conn[c] # 0
    /\ phase' = [phase EXCEPT ![c] = "rejoining"]
    /\ conn' = [conn EXCEPT ![c] = 0]
    /\ down' = [down EXCEPT ![conn[c]] = <<>>]
    /\ UNCHANGED <<state, peer, up, expired, at, others, tracker, heard, ticks>>

\* ENET_EVENT_TYPE_CONNECT at the server: from here on the peer can be sent to.
PeerConnected(k) ==
    /\ state[k] = "pending"
    /\ state' = [state EXCEPT ![k] = "connected"]
    /\ UNCHANGED <<peer, up, down, expired, phase, conn, at, others, tracker, heard, ticks>>

\* ENET_EVENT_TYPE_DISCONNECT at the server, or a handshake that was not
\* completed: the peer is free for the next connection, and nobody is told.
PeerDisconnected(k) ==
    /\ state[k] \in {"pending", "connected"}
    /\ state' = [state EXCEPT ![k] = "closed"]
    /\ up' = [up EXCEPT ![k] = <<>>]
    /\ UNCHANGED <<peer, down, expired, phase, conn, at, others, tracker, heard, ticks>>

\* The end of the simulation: from now on main takes events and drops them.
Expire ==
    /\ ~expired /\ expired' = TRUE
    /\ UNCHANGED <<state, peer, up, down, phase, conn, at, others, tracker, heard, ticks>>
-----------------------------------------------------------------------------
(* The game.                                                               *)

\* Mutant of Relay: the position goes under the number of the peer it is sent to.
RelayAsReceiver(k) ==
    /\ state[k] = "connected" /\ up[k] # <<>>
    /\ up' = [up EXCEPT ![k] = Tail(@)]
    /\ down' = [j \in Conns |->
          IF j # k /\ state[j] = "connected" /\ ~expired
          THEN Append(down[j], [from |-> k, id |-> peer[j], pos |-> Head(up[k])])
          ELSE down[j]]
    /\ UNCHANGED <<state, peer, expired, phase, conn, at, others, tracker, heard, ticks>>

\* ENET_EVENT_TYPE_RECEIVE at the server: the position goes to every peer but
\* the sender's, under the sender's peer number.  Only what a client will read
\* is kept.
Relay(k) ==
    /\ state[k] = "connected" /\ up[k] # <<>>
    /\ up' = [up EXCEPT ![k] = Tail(@)]
    /\ down' = [j \in Conns |->
          IF j # k /\ state[j] = "connected" /\ j \in InUse /\ ~expired
          THEN Append(down[j], [from |-> k, id |-> peer[k], pos |-> Head(up[k])])
          ELSE down[j]]
    /\ UNCHANGED <<state, peer, expired, phase, conn, at, others, tracker, heard, ticks>>

\* Game::tick begins with a move, which is sent right away.
Move(c) ==
    /\ phase[c] = "moving" /\ ticks < MaxTicks
    /\ \E p \in PossibleMoves(at[c]) :
          /\ at' = [at EXCEPT ![c] = p]
          /\ up' = [k \in Conns |-> IF k = conn[c] /\ state[k] # "closed"
                                    THEN Append(up[k], p) ELSE up[k]]
    /\ phase' = [phase EXCEPT ![c] = "receiving"]
    /\ ticks' = ticks + 1
    /\ UNCHANGED <<state, peer, down, expired, conn, others, tracker, heard>>

\* Mutant of Tracked: any change of position is a correction.
TrackedAnyChange(t, before, now) ==
    IF before = now THEN UpdatesReceivedInTick(t) ELSE CorrectionMade(UpdatesReceivedInTick(t))

\* A jump of two spaces is a correction.
Tracked(t, before, now) ==
    IF Near(before, now) THEN UpdatesReceivedInTick(t) ELSE CorrectionMade(UpdatesReceivedInTick(t))

\* POSITION_UPDATE at a client.
ReceivePosition(c) ==
    /\ phase[c] = "receiving" /\ conn[c] # 0 /\ down[conn[c]] # <<>>
    /\ LET m == Head(down[conn[c]])
       IN /\ tracker' = [tracker EXCEPT ![c] = Tracked(@, Other(others[c], m.id), m.pos)]
          /\ others' = [others EXCEPT ![c] = Entry(@, m.id, m.pos)]
          /\ heard' = [heard EXCEPT ![c] = @ \union {m.from}]
    /\ down' = [down EXCEPT ![conn[c]] = Tail(@)]
    /\ UNCHANGED <<state, peer, up, expired, phase, conn, at, ticks>>

\* Nothing more has arrived: a line of the correction file, and the next tick.
EndTick(c) ==
    /\ phase[c] = "receiving"
    /\ tracker' = [tracker EXCEPT ![c] = WriteLine(@)]
    /\ phase' = [phase EXCEPT ![c] = "moving"]
    /\ UNCHANGED <<state, peer, up, down, expired, conn, at, others, heard, ticks>>
-----------------------------------------------------------------------------
Next ==
    \/ Expire
    \/ \E k \in Conns : PeerConnected(k) \/ PeerDisconnected(k) \/ Relay(k)
    \/ \E c \in Clients : \/ Connect(c) \/ NotConnected(c) \/ Disconnected(c)
                          \/ Move(c) \/ ReceivePosition(c) \/ EndTick(c)

Spec == Init /\ [][Next]_vars
-----------------------------------------------------------------------------
(* Properties.                                                             *)

\* Nobody corrects a position in this version, and still corrections are
\* counted (Game.cpp:116-126): only ever for the first position a client hears
\* over a connection, compared with zeros or with what an earlier connection
\* of the peer left behind, and never for one that follows another.
OnlyFirstsAreCorrections ==
    [][\A c \in Clients :
          tracker'[c].total - tracker[c].total <= Cardinality(heard'[c] \ heard[c])]_vars

\* Once nothing is on its way, a client has each player it has heard of where
\* that player is, whatever connections came and went on the same peer numbers
\* (server.cpp:114-176, Game.cpp:128).
HeardInSync ==
    \A c, d \in Clients :
        LET k == conn[c] j == conn[d]
        IN (/\ c # d /\ ~expired /\ k # 0 /\ j # 0 /\ j \in heard[c]
            /\ state[k] = "connected" /\ state[j] = "connected"
            /\ up[j] = <<>> /\ \A i \in DOMAIN down[k] : down[k][i].from # j)
           => peer[j] \in DOMAIN others[c] /\ others[c][peer[j]] = at[d]

\* A peer number is used again, and still no position of its last holder comes
\* after one of its next (server.cpp:117, 182): not on the wire, and not after
\* what the client has handled.
HoldersInOrder ==
    \A k \in Conns : \A i \in DOMAIN down[k] :
        /\ \A l \in i..Len(down[k]) : down[k][l].id = down[k][i].id => down[k][i].from <= down[k][l].from
        /\ \A c \in Clients : conn[c] = k =>
              \A h \in heard[c] : peer[h] = down[k][i].id => h <= down[k][i].from
=============================================================================
