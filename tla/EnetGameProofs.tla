--------------------------- MODULE EnetGameProofs ---------------------------
(***************************************************************************)
(* What clients of the ENet version know of each other, for any number of  *)
(* clients, peers and connections: positions are in sync once nothing is   *)
(* on its way, and all of them come as a walk of single steps.             *)
(***************************************************************************)
EXTENDS EnetGame, SequenceTheorems, FiniteSetTheorems, TLAPS

\* Positions of connection j on their way over k.
Sent(k, j) == {i \in DOMAIN down[k] : down[k][i].from = j}

\* A connection has one client at most.  Connections are made in order, and of those
\* with the same peer all but the last are closed.
ConnOK ==
    /\ \A c \in Clients : conn[c] # 0 => state[conn[c]] # "free"
    /\ \A c, d \in Clients : c # d /\ conn[c] # 0 => conn[c] # conn[d]
    /\ \A j, k \in Conns : j < k /\ state[j] = "free" => state[k] = "free"
    /\ \A j, k \in Conns : j < k /\ state[k] # "free" /\ peer[j] = peer[k] => state[j] = "closed"

\* Only what is or was connected is heard of, and over such connections only.
WireOK ==
    /\ \A k \in Conns : state[k] \in {"free", "closed"} => up[k] = <<>>
    /\ \A k \in Conns : state[k] \in {"free", "pending"} => down[k] = <<>>
    /\ \A k \in Conns : \A i \in DOMAIN down[k] :
          /\ state[down[k][i].from] \in {"connected", "closed"}
          /\ down[k][i].id = peer[down[k][i].from]
    /\ \A c \in Clients : \A h \in heard[c] : state[h] \in {"connected", "closed"}
    /\ \A c \in Clients : conn[c] # 0 /\ state[conn[c]] = "pending" => heard[c] = {}

\* A client's moves on their way to the server are single steps up to where it is.
UpWalk ==
    /\ \A j \in Conns : \A i \in DOMAIN up[j] : i + 1 \in DOMAIN up[j] => Near(up[j][i], up[j][i + 1])
    /\ \A d \in Clients : conn[d] # 0 /\ up[conn[d]] # <<>> => up[conn[d]][Len(up[conn[d]])] = at[d]

\* So are those on their way to another client, on from what that client has.
DownWalk ==
    \A k, j \in Conns : \A a, b \in Sent(k, j) :
        a < b /\ (\A i \in Sent(k, j) : i <= a \/ b <= i) => Near(down[k][a].pos, down[k][b].pos)
Has(c, j) == peer[j] \in DOMAIN others[c]
HeardWalk ==
    \A c \in Clients : \A j \in heard[c] : conn[c] # 0 =>
        \A i \in Sent(conn[c], j) :
            (\A l \in Sent(conn[c], j) : i <= l) => Has(c, j) /\ Near(others[c][peer[j]], down[conn[c]][i].pos)

\* What follows p when it was the last that the server relayed for j.
Latest(p, j) ==
    /\ up[j] # <<>> => Near(p, up[j][1])
    /\ up[j] = <<>> => \A d \in Clients : conn[d] = j => p = at[d]
Linked(c, j) ==
    conn[c] # 0 /\ conn[c] # j /\ ~expired /\ state[conn[c]] = "connected" /\ state[j] = "connected"
SyncOnWire ==
    \A c \in Clients, j \in Conns : Linked(c, j) =>
        \A i \in Sent(conn[c], j) : (\A l \in Sent(conn[c], j) : l <= i) => Latest(down[conn[c]][i].pos, j)
SyncHeard ==
    \A c \in Clients, j \in Conns : Linked(c, j) =>
        (j \in heard[c] /\ Sent(conn[c], j) = {} => Has(c, j) /\ Latest(others[c][peer[j]], j))

EnetInv == /\ TypeOK /\ ConnOK /\ WireOK /\ HoldersInOrder
           /\ UpWalk /\ DownWalk /\ HeardWalk /\ SyncOnWire /\ SyncHeard
-----------------------------------------------------------------------------
(* Types.                                                                  *)

LEMMA OthersType ==
    ASSUME NEW o, NEW S \in SUBSET Peers, o \in [S -> Cell], NEW id \in Peers, NEW p \in Cell
    PROVE  /\ Entry(o, id, p) \in UNION {[T -> Cell] : T \in SUBSET Peers}
           /\ Other(o, id) \in Cell
<1>1. Entry(o, id, p) \in [S \union {id} -> Cell]
    BY DEF Entry
<1>2. Origin \in Cell
    BY MapAssumption DEF Origin, Cell
<1> QED
    BY <1>1, <1>2 DEF Other

LEMMA TrackerFields ==
    ASSUME NEW t \in Tracker, NEW n \in Nat, NEW b \in BOOLEAN
    PROVE  /\ [t EXCEPT !.tick = n] \in Tracker /\ [t EXCEPT !.tick = n].total = t.total
           /\ [t EXCEPT !.noUpdates = n] \in Tracker /\ [t EXCEPT !.noUpdates = n].total = t.total
           /\ [t EXCEPT !.perTick = n] \in Tracker /\ [t EXCEPT !.perTick = n].total = t.total
           /\ [t EXCEPT !.updates = b] \in Tracker /\ [t EXCEPT !.updates = b].total = t.total
           /\ [t EXCEPT !.corrections = b] \in Tracker /\ [t EXCEPT !.corrections = b].total = t.total
           /\ [t EXCEPT !.total = n] \in Tracker /\ [t EXCEPT !.total = n].total = n
BY DEF Tracker

LEMMA WriteLineType ==
    ASSUME NEW t \in Tracker
    PROVE  WriteLine(t) \in Tracker /\ WriteLine(t).total = t.total
<1> DEFINE n == t.noUpdates + (IF t.updates THEN 0 ELSE 1)
           s == t.perTick + (IF t.corrections THEN 1 ELSE 0)
           t1 == [t EXCEPT !.tick = t.tick + 1]
           t2 == [t1 EXCEPT !.noUpdates = n]
           t3 == [t2 EXCEPT !.perTick = s]
           t4 == [t3 EXCEPT !.updates = FALSE]
           t5 == [t4 EXCEPT !.corrections = FALSE]
<1>1. n \in Nat /\ s \in Nat /\ t.tick + 1 \in Nat
    BY DEF Tracker
<1>2. WriteLine(t) = t5
    BY DEF WriteLine
<1> HIDE DEF n, s
<1>3. t1 \in Tracker /\ t1.total = t.total
    BY <1>1, TrackerFields
<1> HIDE DEF t1
<1>4. t2 \in Tracker /\ t2.total = t.total
    BY <1>1, <1>3, TrackerFields
<1> HIDE DEF t2
<1>5. t3 \in Tracker /\ t3.total = t.total
    BY <1>1, <1>4, TrackerFields
<1> HIDE DEF t3
<1>6. t4 \in Tracker /\ t4.total = t.total
    BY <1>5, TrackerFields
<1> HIDE DEF t4
<1>7. t5 \in Tracker /\ t5.total = t.total
    BY <1>6, TrackerFields
<1> QED
    BY <1>2, <1>7

LEMMA TrackedType ==
    ASSUME NEW t \in Tracker, NEW p, NEW q
    PROVE  /\ Tracked(t, p, q) \in Tracker
           /\ Tracked(t, p, q).total = IF Near(p, q) THEN t.total ELSE t.total + 1
<1> DEFINE u == [t EXCEPT !.updates = TRUE]
           v == [u EXCEPT !.corrections = TRUE]
           n == v.total + 1
           w == [v EXCEPT !.total = n]
<1>1. Tracked(t, p, q) = IF Near(p, q) THEN u ELSE w
  <2>1. w = CorrectionMade(u) /\ u = UpdatesReceivedInTick(t)
    <3>1. UpdatesReceivedInTick(t) = u
        BY DEF UpdatesReceivedInTick
    <3>2. v.total = u.total /\ u \in Tracker
        BY TrackerFields
    <3>3. CorrectionMade(u) = [v EXCEPT !.total = u.total + 1]
        BY DEF CorrectionMade
    <3> QED
        BY <3>1, <3>2, <3>3
  <2> QED
      BY <2>1 DEF Tracked
<1>2. u \in Tracker /\ u.total = t.total
    BY TrackerFields
<1> HIDE DEF u
<1>3. v \in Tracker /\ v.total = t.total
    BY <1>2, TrackerFields
<1> HIDE DEF v
<1>4. n \in Nat /\ n = t.total + 1
    BY <1>3 DEF Tracker
<1> HIDE DEF n
<1>5. w \in Tracker /\ w.total = t.total + 1
    BY <1>3, <1>4, TrackerFields
<1> QED
    BY <1>1, <1>2, <1>5

LEMMA TypeInit == Init => TypeOK
<1> SUFFICES ASSUME Init PROVE TypeOK
    OBVIOUS
<1>1. Start \in Cell /\ NewTracker \in Tracker
    BY MapAssumption DEF Start, Cell, NewTracker, Tracker
<1>2. 0 \in Peers /\ 0 \in 0..MaxTicks
    BY BoundsAssumption DEF Peers
<1>3. <<>> \in Seq(Cell) /\ <<>> \in Seq(Message) /\ <<>> \in [{} -> Cell]
    OBVIOUS
<1> QED
    BY <1>1, <1>2, <1>3 DEF Init, TypeOK

LEMMA TypeStep == TypeOK /\ [Next]_vars => TypeOK'
<1> SUFFICES ASSUME TypeOK, [Next]_vars PROVE TypeOK'
    OBVIOUS
<1>1. ASSUME NEW c \in Clients, Connect(c) \/ NotConnected(c) PROVE TypeOK'
  <2>1. phase' \in [Clients -> {"joining", "moving", "receiving", "rejoining"}] /\ heard' \in [Clients -> SUBSET Conns]
      BY <1>1 DEF TypeOK, Connect, NotConnected, Return
  <2>2. state' \in [Conns -> {"free", "pending", "connected", "closed"}]
      BY <1>1 DEF TypeOK, Connect, NotConnected
  <2>3. peer' \in [Conns -> Peers]
      BY <1>1 DEF TypeOK, Connect, NotConnected
  <2>4. conn' \in [Clients -> {0} \union Conns]
    <3>1. (\E k \in Conns : conn' = [conn EXCEPT ![c] = k]) \/ conn' = conn
        BY <1>1 DEF TypeOK, Connect, NotConnected
    <3> QED
        BY <3>1 DEF TypeOK
  <2> QED
      BY <1>1, <2>1, <2>2, <2>3, <2>4 DEF TypeOK, Connect, NotConnected
<1>2. ASSUME NEW c \in Clients, Disconnected(c) PROVE TypeOK'
  <2>1. down' \in [Conns -> Seq(Message)]
    <3>1. <<>> \in Seq(Message)
        OBVIOUS
    <3> QED
        BY <1>2, <3>1 DEF TypeOK, Disconnected
  <2>2. phase' \in [Clients -> {"joining", "moving", "receiving", "rejoining"}] /\ conn' \in [Clients -> {0} \union Conns]
      BY <1>2 DEF TypeOK, Disconnected
  <2> QED
      BY <1>2, <2>1, <2>2 DEF TypeOK, Disconnected
<1>3. ASSUME NEW k \in Conns, PeerConnected(k) \/ PeerDisconnected(k) PROVE TypeOK'
  <2>1. state' \in [Conns -> {"free", "pending", "connected", "closed"}]
      BY <1>3 DEF TypeOK, PeerConnected, PeerDisconnected
  <2>2. <<>> \in Seq(Cell)
      OBVIOUS
  <2>3. up' \in [Conns -> Seq(Cell)]
      BY <1>3, <2>2 DEF TypeOK, PeerConnected, PeerDisconnected
  <2> QED
      BY <1>3, <2>1, <2>3 DEF TypeOK, PeerConnected, PeerDisconnected
<1>4. ASSUME NEW k \in Conns, Relay(k) PROVE TypeOK'
  <2>1. Head(up[k]) \in Cell /\ Tail(up[k]) \in Seq(Cell)
      BY <1>4 DEF TypeOK, Relay
  <2>2. [from |-> k, id |-> peer[k], pos |-> Head(up[k])] \in Message
      BY <2>1 DEF TypeOK, Message
  <2>3. up' \in [Conns -> Seq(Cell)]
      BY <1>4, <2>1 DEF TypeOK, Relay
  <2>4. down' \in [Conns -> Seq(Message)]
      BY <1>4, <2>2 DEF TypeOK, Relay
  <2> QED
      BY <1>4, <2>3, <2>4 DEF TypeOK, Relay
<1>5. ASSUME NEW c \in Clients, Move(c) PROVE TypeOK'
  <2>1. PICK p \in PossibleMoves(at[c]) :
            /\ at' = [at EXCEPT ![c] = p]
            /\ up' = [k \in Conns |-> IF k = conn[c] /\ state[k] # "closed" THEN Append(up[k], p) ELSE up[k]]
      BY <1>5 DEF Move
  <2>2. p \in Cell
      BY DEF PossibleMoves
  <2>3. up' \in [Conns -> Seq(Cell)]
      BY <2>1, <2>2 DEF TypeOK
  <2>4. ticks' \in 0..MaxTicks
      BY <1>5, BoundsAssumption DEF TypeOK, Move
  <2> QED
      BY <1>5, <2>1, <2>2, <2>3, <2>4 DEF TypeOK, Move
<1>6. ASSUME NEW c \in Clients, ReceivePosition(c) PROVE TypeOK'
  <2> DEFINE k == conn[c]
             m == Head(down[k])
  <2>1. k \in Conns /\ m \in Message /\ Tail(down[k]) \in Seq(Message)
      BY <1>6 DEF TypeOK, ReceivePosition
  <2>2. m.from \in Conns /\ m.id \in Peers /\ m.pos \in Cell
      BY <2>1 DEF Message
  <2>3. down' \in [Conns -> Seq(Message)]
      BY <1>6, <2>1 DEF TypeOK, ReceivePosition
  <2>4. heard' \in [Clients -> SUBSET Conns]
      BY <1>6, <2>2 DEF TypeOK, ReceivePosition
  <2>5. tracker' \in [Clients -> Tracker]
      BY <1>6, TrackedType DEF TypeOK, ReceivePosition
  <2>6. others' \in [Clients -> UNION {[S -> Cell] : S \in SUBSET Peers}]
    <3>1. PICK S \in SUBSET Peers : others[c] \in [S -> Cell]
        BY DEF TypeOK
    <3>2. Entry(others[c], m.id, m.pos) \in UNION {[S2 -> Cell] : S2 \in SUBSET Peers}
        BY <2>2, <3>1, OthersType
    <3> QED
        BY <1>6, <3>2 DEF TypeOK, ReceivePosition
  <2> QED
      BY <1>6, <2>3, <2>4, <2>5, <2>6 DEF TypeOK, ReceivePosition
<1>7. ASSUME NEW c \in Clients, EndTick(c) PROVE TypeOK'
    BY <1>7, WriteLineType DEF TypeOK, EndTick
<1>8. ASSUME Expire \/ UNCHANGED vars PROVE TypeOK'
    BY <1>8 DEF TypeOK, Expire, vars
<1> QED
    BY <1>1, <1>2, <1>3, <1>4, <1>5, <1>6, <1>7, <1>8 DEF Next
-----------------------------------------------------------------------------
(* Sequences, index by index.                                              *)

LEMMA TailIs ==
    ASSUME NEW S, NEW s \in Seq(S), s # <<>>
    PROVE  /\ Len(s) \in Nat \ {0} /\ DOMAIN s = 1..Len(s) /\ Head(s) = s[1]
           /\ Tail(s) \in Seq(S) /\ Len(Tail(s)) = Len(s) - 1 /\ DOMAIN Tail(s) = 1..(Len(s) - 1)
           /\ \A i \in DOMAIN Tail(s) : i + 1 \in DOMAIN s /\ Tail(s)[i] = s[i + 1]
OBVIOUS

LEMMA AppendIs ==
    ASSUME NEW S, NEW s \in Seq(S), NEW e \in S
    PROVE  /\ Len(s) \in Nat /\ DOMAIN s = 1..Len(s)
           /\ Len(Append(s, e)) = Len(s) + 1 /\ DOMAIN Append(s, e) = 1..(Len(s) + 1)
           /\ \A i \in DOMAIN s : Append(s, e)[i] = s[i]
           /\ Append(s, e)[Len(s) + 1] = e
OBVIOUS

LEMMA EmptyIs ==
    ASSUME NEW S, NEW s \in Seq(S)
    PROVE  /\ Len(s) \in Nat /\ DOMAIN s = 1..Len(s)
           /\ s = <<>> <=> DOMAIN s = {}
           /\ s = <<>> <=> Len(s) = 0
OBVIOUS
-----------------------------------------------------------------------------
(* Connections that come and go.                                           *)

LEMMA InvInit == Init => EnetInv
<1> SUFFICES ASSUME Init PROVE EnetInv
    OBVIOUS
<1>1. TypeOK
    BY TypeInit
<1>2. \A k \in Conns : DOMAIN down[k] = {} /\ state[k] = "free"
    BY DEF Init
<1>3. \A k, j \in Conns : Sent(k, j) = {}
    BY <1>2 DEF Sent
<1>4. \A c \in Clients : conn[c] = 0 /\ heard[c] = {}
    BY DEF Init
<1>5. \A k \in Conns : up[k] = <<>> /\ down[k] = <<>> /\ DOMAIN up[k] = {}
    BY DEF Init
<1>6. ConnOK /\ WireOK /\ HoldersInOrder
    BY <1>2, <1>4, <1>5 DEF ConnOK, WireOK, HoldersInOrder
<1>7. UpWalk /\ DownWalk /\ HeardWalk /\ SyncOnWire /\ SyncHeard
    BY <1>2, <1>3, <1>4, <1>5 DEF UpWalk, DownWalk, HeardWalk, SyncOnWire, SyncHeard, Linked
<1> QED
    BY <1>1, <1>6, <1>7 DEF EnetInv

LEMMA ConnectKeeps ==
    ASSUME EnetInv, TypeOK', NEW c \in Clients, Connect(c)
    PROVE  EnetInv'
<1>1. PICK k \in Conns, p \in Peers \ Held :
          /\ state[k] = "free" /\ \A j \in Conns : state[j] = "free" => k <= j
          /\ state' = [state EXCEPT ![k] = "pending"]
          /\ peer' = [peer EXCEPT ![k] = p]
          /\ conn' = [conn EXCEPT ![c] = k]
    BY DEF Connect
<1>2. heard' = [heard EXCEPT ![c] = {}] /\ UNCHANGED <<up, down, expired, at, others>>
    BY DEF Connect, Return
<1>3. /\ state'[k] = "pending" /\ peer'[k] = p /\ conn'[c] = k /\ heard'[c] = {}
      /\ \A j \in Conns \ {k} : state'[j] = state[j] /\ peer'[j] = peer[j]
      /\ \A d \in Clients \ {c} : conn'[d] = conn[d] /\ heard'[d] = heard[d]
    BY <1>1, <1>2 DEF EnetInv, TypeOK
<1>4. up[k] = <<>> /\ down[k] = <<>>
    BY <1>1 DEF EnetInv, WireOK
<1>5. /\ \A d \in Clients : conn[d] # k
      /\ \A d \in Clients : k \notin heard[d]
      /\ \A j \in Conns : \A i \in DOMAIN down[j] : down[j][i].from # k
  <2>1. k # 0
      BY DEF Conns
  <2> QED
      BY <1>1, <2>1 DEF EnetInv, ConnOK, WireOK
<1>6. \A j, l \in Conns : Sent(j, l)' = Sent(j, l)
    BY <1>2 DEF Sent
<1>7. /\ \A d \in Clients : conn[d] \in {0} \union Conns /\ heard[d] \subseteq Conns
      /\ \A j \in Conns : \A i \in DOMAIN down[j] : down[j][i].from \in Conns
  <2>1. \A j \in Conns : \A i \in DOMAIN down[j] : down[j][i] \in Message
      BY DEF EnetInv, TypeOK
  <2> QED
      BY <2>1 DEF EnetInv, TypeOK, Message
<1>8. ConnOK'
  <2>1. \A d \in Clients : conn'[d] # 0 => state'[conn'[d]] # "free"
      BY <1>3, <1>5, <1>7 DEF EnetInv, ConnOK
  <2>2. \A d, e \in Clients : d # e /\ conn'[d] # 0 => conn'[d] # conn'[e]
      BY <1>3, <1>5 DEF EnetInv, ConnOK
  <2>3. \A j, l \in Conns : j < l /\ state'[j] = "free" => state'[l] = "free"
      BY <1>1, <1>3 DEF EnetInv, ConnOK, Conns
  <2>4. ASSUME NEW j \in Conns, NEW l \in Conns, j < l, state'[l] # "free", peer'[j] = peer'[l]
        PROVE  state'[j] = "closed"
    <3>1. CASE l = k
      <4>1. state[j] # "free" /\ j # k
          BY <1>1, <2>4, <3>1 DEF Conns
      <4>2. state[j] \notin {"pending", "connected"}
          BY <1>1, <1>3, <2>4, <3>1, <4>1 DEF Held
      <4> QED
          BY <1>3, <4>1, <4>2 DEF EnetInv, TypeOK
    <3>2. CASE l # k
      <4>1. j # k
          BY <1>1, <1>3, <2>4, <3>2 DEF EnetInv, ConnOK
      <4> QED
          BY <1>3, <2>4, <3>2, <4>1 DEF EnetInv, ConnOK
    <3> QED
        BY <3>1, <3>2
  <2> QED
      BY <2>1, <2>2, <2>3, <2>4 DEF ConnOK
<1>9. WireOK'
    BY <1>1, <1>2, <1>3, <1>4, <1>5, <1>7 DEF EnetInv, WireOK
<1>10. HoldersInOrder'
    BY <1>2, <1>3, <1>4, <1>5, <1>7 DEF EnetInv, HoldersInOrder
<1>11. UpWalk' /\ DownWalk'
    BY <1>2, <1>3, <1>4, <1>6 DEF EnetInv, UpWalk, DownWalk
<1>12. HeardWalk'
    BY <1>2, <1>3, <1>5, <1>6, <1>7 DEF EnetInv, HeardWalk, Has
<1>13. ASSUME NEW d \in Clients, NEW j \in Conns, Linked(d, j)'
       PROVE  /\ Linked(d, j) /\ d # c /\ conn'[d] = conn[d] /\ peer'[j] = peer[j] /\ heard'[d] = heard[d]
              /\ \A q : Latest(q, j) => Latest(q, j)'
  <2>1. j # k /\ d # c
      BY <1>3, <1>13 DEF Linked
  <2>2. conn[d] # k /\ conn[d] # 0 /\ conn[d] \in Conns
      BY <1>3, <1>5, <1>7, <1>13, <2>1 DEF Linked
  <2> QED
      BY <1>2, <1>3, <1>13, <2>1, <2>2 DEF Linked, Latest
<1>14. SyncOnWire' /\ SyncHeard'
    BY <1>2, <1>6, <1>7, <1>13 DEF EnetInv, SyncOnWire, SyncHeard, Linked, Has
<1> QED
    BY <1>8, <1>9, <1>10, <1>11, <1>12, <1>14 DEF EnetInv

LEMMA NotConnectedKeeps ==
    ASSUME EnetInv, TypeOK', NEW c \in Clients, NotConnected(c)
    PROVE  EnetInv'
<1>1. UNCHANGED <<state, peer, conn, up, down, expired, at, others>>
    BY DEF NotConnected
<1>2. heard'[c] = {} /\ \A d \in Clients \ {c} : heard'[d] = heard[d]
    BY DEF NotConnected, Return, EnetInv, TypeOK
<1>3. \A j, l \in Conns : Sent(j, l)' = Sent(j, l)
    BY <1>1 DEF Sent
<1>4. \A d \in Clients : heard'[d] \subseteq heard[d]
    BY <1>2
<1>5. ConnOK' /\ UpWalk' /\ DownWalk'
    BY <1>1, <1>3 DEF EnetInv, ConnOK, UpWalk, DownWalk
<1>6. WireOK' /\ HoldersInOrder'
    BY <1>1, <1>4 DEF EnetInv, WireOK, HoldersInOrder
<1>7. \A d \in Clients : conn[d] \in {0} \union Conns /\ heard[d] \subseteq Conns
    BY DEF EnetInv, TypeOK
<1>8. HeardWalk'
    BY <1>1, <1>3, <1>4, <1>7 DEF EnetInv, HeardWalk, Has
<1>9. SyncOnWire' /\ SyncHeard'
    BY <1>1, <1>3, <1>4, <1>7 DEF EnetInv, SyncOnWire, SyncHeard, Linked, Latest, Has
<1> QED
    BY <1>5, <1>6, <1>8, <1>9 DEF EnetInv

LEMMA DisconnectedKeeps ==
    ASSUME EnetInv, TypeOK', NEW c \in Clients, Disconnected(c)
    PROVE  EnetInv'
<1>1. PICK k \in Conns :
          k = conn[c] /\ k # 0 /\ UNCHANGED <<state, peer, up, expired, at, others, heard>>
    BY DEF Disconnected, EnetInv, TypeOK
<1>2. /\ conn'[c] = 0 /\ \A d \in Clients \ {c} : conn'[d] = conn[d]
      /\ down'[k] = <<>> /\ \A j \in Conns \ {k} : down'[j] = down[j]
    BY <1>1 DEF Disconnected, EnetInv, TypeOK
<1>3. /\ \A j \in Conns : Sent(k, j)' = {}
      /\ \A l \in Conns \ {k}, j \in Conns : Sent(l, j)' = Sent(l, j)
  <2>1. DOMAIN down'[k] = {}
      BY <1>2
  <2>2. \A j \in Conns : Sent(k, j)' = {}
      BY <2>1 DEF Sent
  <2>3. \A l \in Conns \ {k}, j \in Conns : Sent(l, j)' = Sent(l, j)
      BY <1>2 DEF Sent
  <2> QED
      BY <2>2, <2>3
<1>4. \A d \in Clients : conn'[d] # 0 => conn'[d] = conn[d] /\ d # c /\ conn[d] # k /\ conn[d] \in Conns
    BY <1>1, <1>2 DEF EnetInv, ConnOK, TypeOK
<1>5. ConnOK'
    BY <1>1, <1>4 DEF EnetInv, ConnOK
<1>6. WireOK'
    BY <1>1, <1>2, <1>4 DEF EnetInv, WireOK
<1>7. HoldersInOrder'
  <2>1. \A l \in Conns : \A i \in DOMAIN down'[l] : l # k
      BY <1>2
  <2>2. \A d \in Clients, l \in Conns : l # k /\ conn'[d] = l => conn[d] = l
      BY <1>4 DEF Conns
  <2> QED
      BY <1>1, <1>2, <2>1, <2>2 DEF EnetInv, HoldersInOrder
<1>8. UpWalk'
    BY <1>1, <1>4 DEF EnetInv, UpWalk
<1>9. DownWalk'
  <2>1. DownWalk
      BY DEF EnetInv
  <2> SUFFICES ASSUME NEW l \in Conns, NEW j \in Conns, NEW a \in Sent(l, j)', NEW b \in Sent(l, j)',
                      a < b, \A i \in Sent(l, j)' : i <= a \/ b <= i
               PROVE  Near(down'[l][a].pos, down'[l][b].pos)
      BY DEF DownWalk
  <2>2. l # k /\ Sent(l, j)' = Sent(l, j) /\ down'[l] = down[l]
      BY <1>2, <1>3
  <2> QED
      BY <2>1, <2>2 DEF DownWalk
<1>10. \A d \in Clients : heard[d] \subseteq Conns
    BY DEF EnetInv, TypeOK
<1>11. HeardWalk'
    BY <1>1, <1>2, <1>3, <1>4, <1>10 DEF EnetInv, HeardWalk, Has
<1>12. ASSUME NEW d \in Clients, NEW j \in Conns, Linked(d, j)'
       PROVE  Linked(d, j) /\ conn'[d] = conn[d] /\ conn[d] # k /\ conn[d] \in Conns
                  /\ \A q : Latest(q, j) => Latest(q, j)'
  <2>1. \A e \in Clients : conn'[e] = j => conn[e] = j
      BY <1>4 DEF Conns
  <2> QED
      BY <1>1, <1>4, <1>12, <2>1 DEF Linked, Latest
<1>13. SyncOnWire' /\ SyncHeard'
    BY <1>1, <1>2, <1>3, <1>12 DEF EnetInv, SyncOnWire, SyncHeard, Has
<1> QED
    BY <1>5, <1>6, <1>7, <1>8, <1>9, <1>11, <1>13 DEF EnetInv

LEMMA PeerConnectedKeeps ==
    ASSUME EnetInv, TypeOK', NEW k \in Conns, PeerConnected(k)
    PROVE  EnetInv'
<1>1. UNCHANGED <<peer, conn, up, down, expired, at, others, heard>> /\ state[k] = "pending"
    BY DEF PeerConnected
<1>2. state'[k] = "connected" /\ \A j \in Conns \ {k} : state'[j] = state[j]
    BY DEF PeerConnected, EnetInv, TypeOK
<1>3. \A j, l \in Conns : Sent(j, l)' = Sent(j, l)
    BY <1>1 DEF Sent
<1>4. /\ \A d \in Clients : conn[d] \in {0} \union Conns /\ heard[d] \subseteq Conns
      /\ \A j \in Conns : \A i \in DOMAIN down[j] : down[j][i].from \in Conns
  <2>1. \A j \in Conns : \A i \in DOMAIN down[j] : down[j][i] \in Message
      BY DEF EnetInv, TypeOK
  <2> QED
      BY <2>1 DEF EnetInv, TypeOK, Message
<1>5. ConnOK' /\ WireOK'
    BY <1>1, <1>2, <1>4 DEF EnetInv, ConnOK, WireOK
<1>6. HoldersInOrder' /\ UpWalk' /\ DownWalk' /\ HeardWalk'
    BY <1>1, <1>3, <1>4 DEF EnetInv, HoldersInOrder, UpWalk, DownWalk, HeardWalk, Has
<1>7. ASSUME NEW d \in Clients, NEW j \in Conns, Linked(d, j)'
      PROVE  Linked(d, j) \/ (j \notin heard[d] /\ Sent(conn[d], j) = {})
  <2>1. CASE conn[d] = k
    <3>1. heard[d] = {} /\ down[k] = <<>> /\ k # 0
        BY <1>1, <2>1 DEF EnetInv, WireOK, Conns
    <3> QED
        BY <2>1, <3>1 DEF Sent
  <2>2. CASE j = k
      BY <1>1, <1>4, <1>7, <2>2 DEF EnetInv, WireOK, Sent, Linked
  <2>3. CASE conn[d] # k /\ j # k
      BY <1>1, <1>2, <1>4, <1>7, <2>3 DEF Linked
  <2> QED
      BY <2>1, <2>2, <2>3
<1>8. SyncOnWire' /\ SyncHeard'
  <2>1. \A q, j : Latest(q, j) <=> Latest(q, j)'
      BY <1>1 DEF Latest
  <2>2. \A d \in Clients, j \in Conns : Linked(d, j)' => Sent(conn[d], j)' = Sent(conn[d], j)
      BY <1>1, <1>3, <1>4 DEF Linked
  <2> QED
      BY <1>1, <1>7, <2>1, <2>2 DEF EnetInv, SyncOnWire, SyncHeard, Has
<1> QED
    BY <1>5, <1>6, <1>8 DEF EnetInv

LEMMA PeerDisconnectedKeeps ==
    ASSUME EnetInv, TypeOK', NEW k \in Conns, PeerDisconnected(k)
    PROVE  EnetInv'
<1>1. UNCHANGED <<peer, conn, down, expired, at, others, heard>> /\ state[k] \in {"pending", "connected"}
    BY DEF PeerDisconnected
<1>2. /\ state'[k] = "closed" /\ \A j \in Conns \ {k} : state'[j] = state[j]
      /\ up'[k] = <<>> /\ \A j \in Conns \ {k} : up'[j] = up[j]
    BY DEF PeerDisconnected, EnetInv, TypeOK
<1>3. \A j, l \in Conns : Sent(j, l)' = Sent(j, l)
    BY <1>1 DEF Sent
<1>4. /\ \A d \in Clients : conn[d] \in {0} \union Conns /\ heard[d] \subseteq Conns
      /\ \A j \in Conns : \A i \in DOMAIN down[j] : down[j][i].from \in Conns
  <2>1. \A j \in Conns : \A i \in DOMAIN down[j] : down[j][i] \in Message
      BY DEF EnetInv, TypeOK
  <2> QED
      BY <2>1 DEF EnetInv, TypeOK, Message
<1>5. ConnOK' /\ WireOK'
    BY <1>1, <1>2, <1>4 DEF EnetInv, ConnOK, WireOK
<1>6. HoldersInOrder' /\ DownWalk' /\ HeardWalk'
    BY <1>1, <1>3, <1>4 DEF EnetInv, HoldersInOrder, DownWalk, HeardWalk, Has
<1>7. UpWalk'
  <2>1. DOMAIN up'[k] = {}
      BY <1>2
  <2> QED
      BY <1>1, <1>2, <1>4, <2>1 DEF EnetInv, UpWalk
<1>8. ASSUME NEW d \in Clients, NEW j \in Conns, Linked(d, j)'
      PROVE  Linked(d, j) /\ conn[d] \in Conns /\ \A q : Latest(q, j) => Latest(q, j)'
  <2>1. j # k /\ conn[d] # k
      BY <1>1, <1>2, <1>8 DEF Linked
  <2> QED
      BY <1>1, <1>2, <1>4, <1>8, <2>1 DEF Linked, Latest
<1>9. SyncOnWire' /\ SyncHeard'
    BY <1>1, <1>3, <1>8 DEF EnetInv, SyncOnWire, SyncHeard, Has
<1> QED
    BY <1>5, <1>6, <1>7, <1>9 DEF EnetInv

\* Steps that touch neither connections nor positions.
LEMMA QuietKeeps ==
    ASSUME EnetInv, TypeOK', UNCHANGED <<state, peer, conn, up, down, at, others, heard>>,
           expired' \in {expired, TRUE}
    PROVE  EnetInv'
<1>1. \A j, l : Sent(j, l)' = Sent(j, l)
    BY DEF Sent
<1>2. ConnOK' /\ WireOK' /\ HoldersInOrder' /\ UpWalk'
    BY DEF EnetInv, ConnOK, WireOK, HoldersInOrder, UpWalk
<1>3. DownWalk' /\ HeardWalk'
    BY <1>1 DEF EnetInv, DownWalk, HeardWalk, Has
<1>4. \A c, j : Linked(c, j)' => Linked(c, j)
    BY DEF Linked
<1>5. \A q, j : Latest(q, j) => Latest(q, j)'
    BY DEF Latest
<1>6. \A c, j : Has(c, j)' <=> Has(c, j)
    BY DEF Has
<1>7. SyncOnWire'
    BY <1>1, <1>4, <1>5 DEF EnetInv, SyncOnWire
<1>8. SyncHeard'
    BY <1>1, <1>4, <1>5, <1>6 DEF EnetInv, SyncHeard
<1> QED
    BY <1>2, <1>3, <1>7, <1>8 DEF EnetInv
-----------------------------------------------------------------------------
(* The game.                                                               *)

LEMMA MoveKeeps ==
    ASSUME EnetInv, TypeOK', NEW c \in Clients, Move(c)
    PROVE  EnetInv'
<1>1. PICK p \in PossibleMoves(at[c]) :
          /\ at' = [at EXCEPT ![c] = p]
          /\ up' = [k \in Conns |-> IF k = conn[c] /\ state[k] # "closed" THEN Append(up[k], p) ELSE up[k]]
    BY DEF Move
<1>2. UNCHANGED <<state, peer, conn, down, expired, others, heard>>
    BY DEF Move
<1>3. p \in Cell /\ Near(at[c], p) /\ at[c] \in Cell
  <2>1. p \in Cell /\ at[c] \in Cell
      BY DEF PossibleMoves, EnetInv, TypeOK
  <2>2. at[c].x \in Int /\ at[c].y \in Int /\ p.x \in Int /\ p.y \in Int
      BY <2>1, MapAssumption DEF Cell
  <2> QED
      BY <2>1, <2>2 DEF PossibleMoves, Near
<1>4. at'[c] = p /\ \A d \in Clients \ {c} : at'[d] = at[d]
    BY <1>1 DEF EnetInv, TypeOK
<1>5. \A j, l \in Conns : Sent(j, l)' = Sent(j, l)
    BY <1>2 DEF Sent
<1>6. \A d \in Clients : conn[d] \in {0} \union Conns /\ heard[d] \subseteq Conns
    BY DEF EnetInv, TypeOK
<1>7. \A j \in Conns : up[j] \in Seq(Cell)
    BY DEF EnetInv, TypeOK
<1>8. ConnOK' /\ HoldersInOrder' /\ DownWalk' /\ HeardWalk'
    BY <1>2, <1>5, <1>6 DEF EnetInv, ConnOK, HoldersInOrder, DownWalk, HeardWalk, Has
<1>9. WireOK'
  <2>1. \A j \in Conns : state[j] \in {"free", "closed"} => up'[j] = up[j]
      BY <1>1 DEF EnetInv, ConnOK, Conns
  <2> QED
      BY <1>2, <1>6, <2>1 DEF EnetInv, WireOK
<1>10. \A d \in Clients, j \in Conns : Linked(d, j)' => Linked(d, j) /\ conn[d] \in Conns
    BY <1>2, <1>6 DEF Linked
<1>11. CASE conn[c] = 0 \/ state[conn[c]] = "closed"
  <2>1. up' = up
      BY <1>1, <1>11 DEF EnetInv, TypeOK, Conns
  <2>2. conn[c] # 0 => up[conn[c]] = <<>>
      BY <1>6, <1>11 DEF EnetInv, WireOK
  <2>3. UpWalk'
      BY <1>2, <1>4, <2>1, <2>2 DEF EnetInv, UpWalk
  <2>4. \A j \in Conns : state[j] = "connected" => conn[c] # j
      BY <1>11 DEF Conns
  <2>5. \A j \in Conns : state[j] = "connected" => \A q : Latest(q, j) => Latest(q, j)'
      BY <1>2, <1>4, <2>1, <2>4 DEF Latest
  <2>6. SyncOnWire' /\ SyncHeard'
      BY <1>2, <1>5, <1>10, <2>5 DEF EnetInv, SyncOnWire, SyncHeard, Has, Linked
  <2> QED
      BY <1>8, <1>9, <2>3, <2>6 DEF EnetInv
<1>12. CASE conn[c] # 0 /\ state[conn[c]] # "closed"
  <2>1. PICK k \in Conns : k = conn[c] /\ k # 0
      BY <1>6, <1>12
  <2>2. up'[k] = Append(up[k], p) /\ \A j \in Conns \ {k} : up'[j] = up[j]
      BY <1>1, <1>12, <2>1
  <2>3. /\ Len(up[k]) \in Nat /\ DOMAIN up[k] = 1..Len(up[k])
        /\ Len(up'[k]) = Len(up[k]) + 1 /\ DOMAIN up'[k] = 1..(Len(up[k]) + 1)
        /\ \A i \in DOMAIN up[k] : up'[k][i] = up[k][i]
        /\ up'[k][Len(up[k]) + 1] = p
    <3> HIDE DEF EnetInv
    <3> QED
        BY <1>3, <1>7, <2>2, AppendIs
  <2>4. up[k] = <<>> <=> Len(up[k]) = 0
      BY <1>7, EmptyIs
  <2>5. up[k] # <<>> => up[k][Len(up[k])] = at[c]
      BY <2>1 DEF EnetInv, UpWalk
  <2>6. \A d \in Clients \ {c} : conn[d] # k
      BY <2>1 DEF EnetInv, ConnOK
  <2>7. UpWalk'
    <3>1. ASSUME NEW i \in DOMAIN up'[k], i + 1 \in DOMAIN up'[k]
          PROVE  Near(up'[k][i], up'[k][i + 1])
      <4>1. CASE i + 1 \in DOMAIN up[k]
        <5>1. i \in DOMAIN up[k]
            BY <2>3, <3>1, <4>1
        <5> QED
            BY <2>3, <4>1, <5>1 DEF EnetInv, UpWalk
      <4>2. CASE i + 1 \notin DOMAIN up[k]
        <5>1. i = Len(up[k]) /\ i \in DOMAIN up[k]
            BY <2>3, <3>1, <4>2
        <5> QED
            BY <1>3, <2>3, <2>4, <2>5, <5>1
      <4> QED
          BY <4>1, <4>2
    <3>2. \A j \in Conns : \A i \in DOMAIN up'[j] : i + 1 \in DOMAIN up'[j] => Near(up'[j][i], up'[j][i + 1])
        BY <2>2, <3>1 DEF EnetInv, UpWalk
    <3>3. ASSUME NEW d \in Clients, conn[d] # 0, up'[conn[d]] # <<>>
          PROVE  up'[conn[d]][Len(up'[conn[d]])] = at'[d]
      <4>1. CASE d = c
          BY <1>4, <2>1, <2>3, <4>1
      <4>2. CASE d # c
          BY <1>4, <1>6, <2>2, <2>6, <3>3, <4>2 DEF EnetInv, UpWalk
      <4> QED
          BY <4>1, <4>2
    <3> QED
        BY <1>2, <3>2, <3>3 DEF UpWalk
  <2>8. ASSUME NEW j \in Conns, NEW q, Latest(q, j)
        PROVE  Latest(q, j)'
    <3>1. CASE j = k
      <4>1. up'[k] # <<>>
          BY <2>3
      <4>2. CASE up[k] = <<>>
        <5>1. q = at[c] /\ up'[k][1] = p
            BY <2>1, <2>3, <2>4, <2>8, <3>1, <4>2 DEF Latest
        <5> QED
            BY <1>3, <3>1, <4>1, <5>1 DEF Latest
      <4>3. CASE up[k] # <<>>
        <5>1. up'[k][1] = up[k][1]
            BY <2>3, <2>4, <4>3
        <5> QED
            BY <2>8, <3>1, <4>1, <4>3, <5>1 DEF Latest
      <4> QED
          BY <4>2, <4>3
    <3>2. CASE j # k
        BY <1>2, <1>4, <2>1, <2>2, <2>8, <3>2 DEF Latest
    <3> QED
        BY <3>1, <3>2
  <2>9. SyncOnWire' /\ SyncHeard'
      BY <1>2, <1>5, <1>10, <2>8 DEF EnetInv, SyncOnWire, SyncHeard, Has
  <2> QED
      BY <1>8, <1>9, <2>7, <2>9 DEF EnetInv
<1> QED
    BY <1>11, <1>12

LEMMA RelayKeeps ==
    ASSUME EnetInv, TypeOK', NEW j \in Conns, Relay(j)
    PROVE  EnetInv'
<1> DEFINE To(k) == k # j /\ state[k] = "connected" /\ k \in InUse /\ ~expired
           m == [from |-> j, id |-> peer[j], pos |-> Head(up[j])]
<1>1. /\ UNCHANGED <<state, peer, conn, expired, at, others, heard>>
      /\ state[j] = "connected" /\ up[j] # <<>> /\ up[j] \in Seq(Cell)
    BY DEF Relay, EnetInv, TypeOK
<1>2. up'[j] = Tail(up[j]) /\ \A k \in Conns \ {j} : up'[k] = up[k]
    BY DEF Relay, EnetInv, TypeOK
<1>3. \A k \in Conns : down'[k] = IF To(k) THEN Append(down[k], m) ELSE down[k]
    BY DEF Relay
<1>4. /\ Len(up[j]) \in Nat \ {0} /\ DOMAIN up[j] = 1..Len(up[j]) /\ Head(up[j]) = up[j][1]
      /\ Len(up'[j]) = Len(up[j]) - 1 /\ DOMAIN up'[j] = 1..(Len(up[j]) - 1)
      /\ \A i \in DOMAIN up'[j] : i + 1 \in DOMAIN up[j] /\ up'[j][i] = up[j][i + 1]
      /\ up'[j] \in Seq(Cell)
    BY <1>1, <1>2, TailIs
<1>5. up'[j] = <<>> <=> Len(up[j]) = 1
  <2>1. up'[j] = <<>> <=> Len(up'[j]) = 0
      BY <1>4, EmptyIs
  <2> QED
      BY <1>4, <2>1
<1>6. m \in Message /\ m.from = j /\ m.id = peer[j] /\ m.pos = up[j][1]
  <2>1. up[j][1] \in Cell
      BY <1>1, <1>4
  <2> QED
      BY <1>4, <2>1 DEF EnetInv, TypeOK, Message
<1>7. \A k \in Conns : /\ Len(down[k]) \in Nat /\ DOMAIN down[k] = 1..Len(down[k])
                       /\ down[k] \in Seq(Message)
    BY EmptyIs DEF EnetInv, TypeOK
<1> HIDE DEF m
<1>8. ASSUME NEW k \in Conns, To(k)
      PROVE  /\ Len(down'[k]) = Len(down[k]) + 1 /\ DOMAIN down'[k] = 1..(Len(down[k]) + 1)
             /\ \A i \in DOMAIN down[k] : down'[k][i] = down[k][i]
             /\ down'[k][Len(down[k]) + 1] = m
  <2>1. down'[k] = Append(down[k], m)
      BY <1>3, <1>8
  <2> HIDE DEF To
  <2> QED
      BY <1>6, <1>7, <2>1, AppendIs
<1>9. ASSUME NEW k \in Conns, To(k)
      PROVE  /\ Sent(k, j)' = Sent(k, j) \union {Len(down[k]) + 1}
             /\ \A l \in Conns \ {j} : Sent(k, l)' = Sent(k, l)
    BY <1>6, <1>7, <1>8, <1>9 DEF Sent
<1>10. \A k \in Conns : ~To(k) => down'[k] = down[k] /\ \A l \in Conns : Sent(k, l)' = Sent(k, l)
    BY <1>3 DEF Sent
<1>11. \A k \in Conns, l \in Conns : \A i \in Sent(k, l) : i \in DOMAIN down[k] /\ i \in 1..Len(down[k])
    BY <1>7 DEF Sent
<1> HIDE DEF To
<1>12. ConnOK'
    BY <1>1 DEF EnetInv, ConnOK
<1>13. WireOK'
  <2>1. \A k \in Conns : state[k] \in {"free", "closed"} => up'[k] = <<>>
      BY <1>1, <1>2 DEF EnetInv, WireOK
  <2>2. \A k \in Conns : state[k] \in {"free", "pending"} => down'[k] = <<>>
      BY <1>10 DEF EnetInv, WireOK, To
  <2>3. ASSUME NEW k \in Conns, NEW i \in DOMAIN down'[k]
        PROVE  /\ state[down'[k][i].from] \in {"connected", "closed"}
               /\ down'[k][i].id = peer[down'[k][i].from]
    <3>1. CASE i \in DOMAIN down[k]
        BY <1>8, <1>10, <3>1 DEF EnetInv, WireOK
    <3>2. CASE i \notin DOMAIN down[k]
      <4>1. down'[k][i] = m
          BY <1>7, <1>8, <1>10, <2>3, <3>2
      <4> QED
          BY <1>1, <1>6, <4>1
    <3> QED
        BY <3>1, <3>2
  <2> QED
      BY <1>1, <2>1, <2>2, <2>3 DEF EnetInv, WireOK
<1>14. ASSUME NEW h \in Conns, state[h] \in {"connected", "closed"}, peer[h] = peer[j]
       PROVE  h <= j
    BY <1>1, <1>14 DEF EnetInv, ConnOK, Conns
<1>15. HoldersInOrder'
  <2> SUFFICES ASSUME NEW k \in Conns, NEW i \in DOMAIN down'[k]
               PROVE  /\ \A l \in i..Len(down'[k]) :
                            down'[k][l].id = down'[k][i].id => down'[k][i].from <= down'[k][l].from
                      /\ \A c \in Clients : conn[c] = k =>
                            \A h \in heard[c] : peer[h] = down'[k][i].id => h <= down'[k][i].from
      BY <1>1 DEF HoldersInOrder
  <2>1. CASE ~To(k)
      BY <1>10, <2>1 DEF EnetInv, HoldersInOrder
  <2>2. CASE To(k) /\ i \notin DOMAIN down[k]
    <3>1. i = Len(down[k]) + 1 /\ Len(down'[k]) = i /\ down'[k][i] = m
        BY <1>7, <1>8, <2>2
    <3>2. \A c \in Clients : \A h \in heard[c] : h \in Conns /\ state[h] \in {"connected", "closed"}
        BY DEF EnetInv, WireOK, TypeOK
    <3>3. \A l \in i..Len(down'[k]) : l = i
        BY <1>7, <3>1
    <3> QED
        BY <1>6, <1>14, <3>1, <3>2, <3>3 DEF Conns
  <2>3. CASE To(k) /\ i \in DOMAIN down[k]
    <3>1. down'[k][i] = down[k][i] /\ down[k][i].from \in Conns
      <4>1. down[k][i] \in Message
          BY <1>7, <2>3
      <4> QED
          BY <1>8, <2>3, <4>1 DEF Message
    <3>2. state[down[k][i].from] \in {"connected", "closed"} /\ down[k][i].id = peer[down[k][i].from]
        BY <2>3 DEF EnetInv, WireOK
    <3>3. ASSUME NEW l \in i..Len(down'[k]), down'[k][l].id = down[k][i].id
          PROVE  down[k][i].from <= down'[k][l].from
      <4>1. CASE l \in DOMAIN down[k]
        <5>1. l \in i..Len(down[k]) /\ down'[k][l] = down[k][l]
            BY <1>7, <1>8, <2>3, <3>3, <4>1
        <5> QED
            BY <2>3, <3>3, <5>1 DEF EnetInv, HoldersInOrder
      <4>2. CASE l \notin DOMAIN down[k]
        <5>1. down'[k][l] = m
            BY <1>7, <1>8, <2>3, <3>3, <4>2
        <5> QED
            BY <1>6, <1>14, <3>1, <3>2, <3>3, <5>1
      <4> QED
          BY <4>1, <4>2
    <3>4. \A c \in Clients : conn[c] = k =>
              \A h \in heard[c] : peer[h] = down[k][i].id => h <= down[k][i].from
        BY <2>3 DEF EnetInv, HoldersInOrder
    <3> QED
        BY <3>1, <3>3, <3>4
  <2> QED
      BY <2>1, <2>2, <2>3
<1>16. UpWalk'
  <2>1. ASSUME NEW i \in DOMAIN up'[j], i + 1 \in DOMAIN up'[j]
        PROVE  Near(up'[j][i], up'[j][i + 1])
      BY <1>4, <2>1 DEF EnetInv, UpWalk
  <2>2. ASSUME NEW d \in Clients, conn[d] = j, up'[j] # <<>>
        PROVE  up'[j][Len(up'[j])] = at[d]
    <3>1. Len(up'[j]) \in DOMAIN up'[j] /\ up'[j][Len(up'[j])] = up[j][Len(up[j])]
        BY <1>4, <1>5, <2>2
    <3> QED
        BY <1>1, <2>2, <3>1 DEF EnetInv, UpWalk, Conns
  <2>3. \A k \in Conns : \A i \in DOMAIN up'[k] : i + 1 \in DOMAIN up'[k] => Near(up'[k][i], up'[k][i + 1])
      BY <1>2, <2>1 DEF EnetInv, UpWalk
  <2>4. \A d \in Clients : conn[d] # 0 /\ up'[conn[d]] # <<>> => up'[conn[d]][Len(up'[conn[d]])] = at[d]
    <3>1. \A d \in Clients : conn[d] # 0 => conn[d] \in Conns
        BY DEF EnetInv, TypeOK
    <3> QED
        BY <1>2, <2>2, <3>1 DEF EnetInv, UpWalk
  <2> QED
      BY <1>1, <2>3, <2>4 DEF UpWalk
\* The position that is sent on follows the last of its client that was.
<1>17. ASSUME NEW c \in Clients, NEW q, Latest(q, j)
       PROVE  Near(q, up[j][1])
    BY <1>1, <1>17 DEF Latest
<1>18. \A q, l : l \in Conns \ {j} /\ Latest(q, l) => Latest(q, l)'
    BY <1>1, <1>2 DEF Latest
<1>19. ASSUME NEW q, q = up[j][1]
       PROVE  Latest(q, j)'
  <2>1. CASE Len(up[j]) = 1
    <3>1. \A d \in Clients : conn[d] = j => q = at[d]
        BY <1>1, <1>19, <2>1 DEF EnetInv, UpWalk, Conns
    <3>2. up'[j] = <<>>
        BY <1>5, <2>1
    <3> QED
        BY <1>1, <3>1, <3>2 DEF Latest
  <2>2. CASE Len(up[j]) # 1
    <3>1. 1 \in DOMAIN up[j] /\ 1 + 1 \in DOMAIN up[j] /\ 1 \in DOMAIN up'[j] /\ up'[j][1] = up[j][1 + 1]
      <4> DEFINE n == Len(up[j])
      <4>1. n \in Nat \ {0} /\ n # 1 /\ DOMAIN up[j] = 1..n /\ DOMAIN up'[j] = 1..(n - 1)
          BY <1>4, <2>2
      <4> HIDE DEF n
      <4>2. 1 \in 1..n /\ 1 \in 1..(n - 1)
          BY <4>1
      <4> QED
          BY <1>4, <4>1, <4>2
    <3>2. Near(up[j][1], up[j][1 + 1])
        BY <3>1 DEF EnetInv, UpWalk
    <3>3. up'[j] # <<>>
        BY <1>5, <2>2
    <3> QED
        BY <1>19, <3>1, <3>2, <3>3 DEF Latest
  <2> QED
      BY <2>1, <2>2
<1>20. \A c \in Clients : conn[c] \in {0} \union Conns
    BY DEF EnetInv, TypeOK
<1>21. ASSUME NEW k \in Conns, To(k)
       PROVE  \E c \in Clients : conn[c] = k /\ Linked(c, j)
    BY <1>1, <1>21 DEF To, InUse, Linked, Conns
<1>22. DownWalk'
  <2> SUFFICES ASSUME NEW k \in Conns, NEW l \in Conns, NEW a \in Sent(k, l)', NEW b \in Sent(k, l)',
                      a < b, \A i \in Sent(k, l)' : i <= a \/ b <= i
               PROVE  Near(down'[k][a].pos, down'[k][b].pos)
      BY DEF DownWalk
  <2>1. CASE ~To(k) \/ l # j
    <3>1. Sent(k, l)' = Sent(k, l) /\ a \in DOMAIN down[k] /\ b \in DOMAIN down[k]
        BY <1>9, <1>10, <1>11, <2>1
    <3>2. down'[k][a] = down[k][a] /\ down'[k][b] = down[k][b]
        BY <1>8, <1>10, <3>1
    <3> QED
        BY <3>1, <3>2 DEF EnetInv, DownWalk
  <2>2. CASE To(k) /\ l = j /\ b \in Sent(k, j)
    <3>1. a \in Sent(k, j)
        BY <1>7, <1>9, <1>11, <2>2
    <3>2. down'[k][a] = down[k][a] /\ down'[k][b] = down[k][b]
        BY <1>8, <1>11, <2>2, <3>1
    <3> QED
        BY <1>9, <2>2, <3>1, <3>2 DEF EnetInv, DownWalk
  <2>3. CASE To(k) /\ l = j /\ b \notin Sent(k, j)
    <3>1. b = Len(down[k]) + 1 /\ a \in Sent(k, j)
        BY <1>7, <1>9, <2>3
    <3>2. \A i \in Sent(k, j) : i <= a
        BY <1>7, <1>9, <1>11, <2>3, <3>1
    <3>3. PICK c \in Clients : conn[c] = k /\ Linked(c, j)
        BY <1>21, <2>3
    <3>4. Latest(down[k][a].pos, j)
        BY <3>1, <3>2, <3>3 DEF EnetInv, SyncOnWire
    <3> QED
        BY <1>6, <1>8, <1>11, <1>17, <2>3, <3>1, <3>3, <3>4
  <2> QED
      BY <2>1, <2>2, <2>3
<1>23. HeardWalk'
  <2> SUFFICES ASSUME NEW c \in Clients, NEW l \in heard[c], conn[c] # 0, NEW i \in Sent(conn[c], l)',
                      \A h \in Sent(conn[c], l)' : i <= h
               PROVE  Has(c, l) /\ Near(others[c][peer[l]], down'[conn[c]][i].pos)
      BY <1>1 DEF HeardWalk, Has
  <2>1. PICK k \in Conns : k = conn[c]
      BY <1>20
  <2>2. l \in Conns
      BY DEF EnetInv, TypeOK
  <2>3. i \in Sent(k, l)' /\ \A h \in Sent(k, l)' : i <= h
      BY <1>1, <2>1
  <2>4. CASE i \in Sent(k, l)
    <3>1. \A h \in Sent(k, l) : i <= h
        BY <1>9, <1>10, <2>2, <2>3
    <3>2. down'[k][i] = down[k][i]
        BY <1>8, <1>10, <1>11, <2>2, <2>4
    <3> QED
        BY <1>1, <2>1, <2>4, <3>1, <3>2 DEF EnetInv, HeardWalk
  <2>5. CASE i \notin Sent(k, l)
    <3>1. To(k) /\ l = j /\ i = Len(down[k]) + 1
        BY <1>9, <1>10, <2>2, <2>3, <2>5
    <3>2. Sent(k, j) = {}
        BY <1>7, <1>9, <1>11, <2>3, <3>1
    <3>3. Linked(c, j)
        BY <1>1, <2>1, <3>1 DEF Linked, To
    <3>4. Has(c, j) /\ Latest(others[c][peer[j]], j)
        BY <2>1, <3>1, <3>2, <3>3 DEF EnetInv, SyncHeard
    <3> QED
        BY <1>1, <1>6, <1>8, <1>17, <2>1, <3>1, <3>4
  <2> QED
      BY <2>4, <2>5
<1>24. ASSUME NEW c \in Clients, NEW l \in Conns, Linked(c, l)'
       PROVE  Linked(c, l) /\ conn'[c] = conn[c] /\ conn[c] \in Conns /\ (To(conn[c]) \/ l # j)
    BY <1>1, <1>20, <1>24 DEF Linked, To, InUse
<1>25. SyncOnWire'
  <2> SUFFICES ASSUME NEW c \in Clients, NEW l \in Conns, Linked(c, l)', NEW i \in Sent(conn[c], l)',
                      \A h \in Sent(conn[c], l)' : h <= i, NEW q, q = down'[conn[c]][i].pos
               PROVE  Latest(q, l)'
      BY <1>1 DEF SyncOnWire
  <2>1. PICK k \in Conns : k = conn[c]
      BY <1>24
  <2>2. i \in Sent(k, l)' /\ \A h \in Sent(k, l)' : h <= i
      BY <1>1, <2>1
  <2>3. CASE l = j
    <3>1. To(k)
        BY <1>24, <2>1, <2>3
    <3>2. i = Len(down[k]) + 1
      <4>1. Sent(k, j)' = Sent(k, j) \union {Len(down[k]) + 1}
          BY <1>9, <3>1
      <4>2. i \in Sent(k, j)' /\ Len(down[k]) + 1 <= i
          BY <2>2, <2>3, <4>1
      <4> QED
          BY <1>7, <1>11, <4>1, <4>2
    <3>3. q = up[j][1]
        BY <1>6, <1>8, <2>1, <3>1, <3>2
    <3> QED
        BY <1>19, <2>3, <3>3
  <2>4. CASE l # j
    <3>1. Sent(k, l)' = Sent(k, l) /\ i \in DOMAIN down[k]
        BY <1>9, <1>10, <1>11, <2>2, <2>4
    <3>2. q = down[k][i].pos
        BY <1>8, <1>10, <2>1, <3>1
    <3>3. Latest(q, l)
        BY <1>24, <2>1, <2>2, <3>1, <3>2 DEF EnetInv, SyncOnWire
    <3> QED
        BY <1>18, <2>4, <3>3
  <2> QED
      BY <2>3, <2>4
<1>26. SyncHeard'
  <2> SUFFICES ASSUME NEW c \in Clients, NEW l \in Conns, Linked(c, l)', l \in heard[c],
                      Sent(conn[c], l)' = {}
               PROVE  Has(c, l) /\ Latest(others[c][peer[l]], l)'
      BY <1>1 DEF SyncHeard, Has
  <2>1. PICK k \in Conns : k = conn[c]
      BY <1>24
  <2>2. Sent(k, l)' = {}
      BY <1>1, <2>1
  <2>3. l # j /\ Sent(k, l) = {}
      BY <1>9, <1>10, <1>24, <2>1, <2>2
  <2> QED
      BY <1>1, <1>18, <1>24, <2>1, <2>3 DEF EnetInv, SyncHeard
<1> QED
    BY <1>12, <1>13, <1>15, <1>16, <1>22, <1>23, <1>25, <1>26 DEF EnetInv

LEMMA ReceiveKeeps ==
    ASSUME EnetInv, TypeOK', NEW c \in Clients, ReceivePosition(c)
    PROVE  /\ EnetInv'
           /\ \E j : /\ heard' = [heard EXCEPT ![c] = @ \union {j}]
                     /\ tracker'[c].total = tracker[c].total \/ j \notin heard[c]
                     /\ tracker'[c].total \in {tracker[c].total, tracker[c].total + 1}
<1>1. PICK k \in Conns, m \in Message :
          k = conn[c] /\ k # 0 /\ down[k] \in Seq(Message) /\ down[k] # <<>> /\ m = Head(down[k])
    BY DEF ReceivePosition, EnetInv, TypeOK, Conns
<1>2. /\ UNCHANGED <<state, peer, conn, up, expired, at>>
      /\ down' = [down EXCEPT ![k] = Tail(@)]
      /\ others' = [others EXCEPT ![c] = Entry(@, m.id, m.pos)]
      /\ heard' = [heard EXCEPT ![c] = @ \union {m.from}]
      /\ tracker' = [tracker EXCEPT ![c] = Tracked(@, Other(others[c], m.id), m.pos)]
    BY <1>1 DEF ReceivePosition
<1>3. m.from \in Conns /\ m.id \in Peers
    BY <1>1 DEF Message
<1>4. /\ down'[k] = Tail(down[k]) /\ \A l \in Conns \ {k} : down'[l] = down[l]
      /\ heard'[c] = heard[c] \union {m.from} /\ \A d \in Clients \ {c} : heard'[d] = heard[d]
    BY <1>1, <1>2 DEF EnetInv, TypeOK
<1>5. /\ Len(down[k]) \in Nat \ {0} /\ DOMAIN down[k] = 1..Len(down[k]) /\ m = down[k][1]
      /\ DOMAIN down'[k] = 1..(Len(down[k]) - 1) /\ Len(down'[k]) = Len(down[k]) - 1
      /\ \A i \in DOMAIN down'[k] : i + 1 \in DOMAIN down[k] /\ down'[k][i] = down[k][i + 1]
    BY <1>1, <1>4, TailIs
<1>6. 1 \in DOMAIN down[k]
    BY <1>5
<1>7. state[m.from] \in {"connected", "closed"} /\ m.id = peer[m.from]
    BY <1>1, <1>5, <1>6 DEF EnetInv, WireOK
<1>8. \A j \in Conns : 1 \in Sent(k, j) <=> j = m.from
    BY <1>5, <1>6 DEF Sent
<1>9. \A j \in Conns : \A i \in Sent(k, j)' : /\ i \in Nat \ {0} /\ i + 1 \in Sent(k, j)
                                               /\ down'[k][i] = down[k][i + 1]
    BY <1>5 DEF Sent
<1>10. \A j \in Conns : \A i \in Sent(k, j) : i # 1 => i \in Nat /\ i - 1 \in Sent(k, j)'
  <2> SUFFICES ASSUME NEW j \in Conns, NEW i \in Sent(k, j), i # 1
               PROVE  i \in Nat /\ i - 1 \in Sent(k, j)'
      OBVIOUS
  <2>1. i \in 1..Len(down[k]) /\ down[k][i].from = j
      BY <1>5 DEF Sent
  <2>2. i - 1 \in DOMAIN down'[k] /\ (i - 1) + 1 = i
      BY <1>5, <2>1
  <2> QED
      BY <1>5, <2>1, <2>2 DEF Sent
<1>11. \A l \in Conns \ {k}, j \in Conns : Sent(l, j)' = Sent(l, j)
    BY <1>4 DEF Sent
<1>12. /\ \A d \in Clients : conn[d] \in {0} \union Conns /\ heard[d] \subseteq Conns
       /\ \A d \in Clients : d # c => conn[d] # k
    BY <1>1 DEF EnetInv, TypeOK, ConnOK
<1>13. /\ m.id \in DOMAIN others'[c] /\ others'[c][m.id] = m.pos
       /\ \A x \in DOMAIN others[c] : x \in DOMAIN others'[c] /\ (x # m.id => others'[c][x] = others[c][x])
       /\ \A d \in Clients \ {c} : others'[d] = others[d]
  <2>1. others'[c] = Entry(others[c], m.id, m.pos) /\ \A d \in Clients \ {c} : others'[d] = others[d]
      BY <1>2 DEF EnetInv, TypeOK
  <2> QED
      BY <2>1 DEF Entry
<1> HIDE <1>2
<1>14. UNCHANGED <<state, peer, conn, up, expired, at>>
    BY <1>2
<1>15. ConnOK' /\ UpWalk'
    BY <1>14 DEF EnetInv, ConnOK, UpWalk
<1>16. WireOK'
  <2>1. \A j \in Conns : state[j] \in {"free", "pending"} => down'[j] = <<>>
      BY <1>1, <1>4 DEF EnetInv, WireOK
  <2>2. \A j \in Conns : \A i \in DOMAIN down'[j] : /\ state[down'[j][i].from] \in {"connected", "closed"}
                                                     /\ down'[j][i].id = peer[down'[j][i].from]
    <3>1. ASSUME NEW j \in Conns, NEW i \in DOMAIN down'[j]
          PROVE  \E l \in DOMAIN down[j] : down'[j][i] = down[j][l]
      <4>1. CASE j = k
          BY <1>5, <3>1, <4>1
      <4>2. CASE j # k
          BY <1>4, <3>1, <4>2
      <4> QED
          BY <4>1, <4>2
    <3>2. \A j \in Conns : \A l \in DOMAIN down[j] : /\ state[down[j][l].from] \in {"connected", "closed"}
                                                     /\ down[j][l].id = peer[down[j][l].from]
        BY DEF EnetInv, WireOK
    <3> QED
        BY <3>1, <3>2
  <2>3. state[k] # "pending"
      BY <1>1 DEF EnetInv, WireOK
  <2>4. \A d \in Clients : \A h \in heard'[d] : state[h] \in {"connected", "closed"}
      BY <1>4, <1>7 DEF EnetInv, WireOK
  <2>5. \A d \in Clients : conn[d] # 0 /\ state[conn[d]] = "pending" => heard'[d] = {}
      BY <1>1, <1>4, <2>3 DEF EnetInv, WireOK
  <2> QED
      BY <1>14, <2>1, <2>2, <2>4, <2>5 DEF EnetInv, WireOK
<1>17. HoldersInOrder'
  <2> SUFFICES ASSUME NEW l \in Conns, NEW i \in DOMAIN down'[l]
               PROVE  /\ \A a \in i..Len(down'[l]) :
                            down'[l][a].id = down'[l][i].id => down'[l][i].from <= down'[l][a].from
                      /\ \A d \in Clients : conn[d] = l =>
                            \A h \in heard'[d] : peer[h] = down'[l][i].id => h <= down'[l][i].from
      BY <1>14 DEF HoldersInOrder
  <2>1. CASE l = k
    <3>1. i \in Nat \ {0} /\ i + 1 \in DOMAIN down[k] /\ down'[k][i] = down[k][i + 1]
        BY <1>5, <2>1
    <3>2. \A a \in i..Len(down'[k]) : a + 1 \in (i + 1)..Len(down[k]) /\ down'[k][a] = down[k][a + 1]
      <4> SUFFICES ASSUME NEW a \in i..Len(down'[k])
                   PROVE  a + 1 \in (i + 1)..Len(down[k]) /\ down'[k][a] = down[k][a + 1]
          OBVIOUS
      <4>1. a \in 1..(Len(down[k]) - 1) /\ a \in Nat
          BY <1>5, <3>1
      <4>2. a + 1 \in (i + 1)..Len(down[k])
          BY <1>5, <3>1, <4>1
      <4> QED
          BY <1>5, <4>1, <4>2
    <3>3. \A a \in i..Len(down'[k]) :
              down'[k][a].id = down'[k][i].id => down'[k][i].from <= down'[k][a].from
        BY <3>1, <3>2 DEF EnetInv, HoldersInOrder
    <3>4. i + 1 \in 1..Len(down[k])
        BY <1>5, <3>1
    <3>5. peer[m.from] = down'[k][i].id => m.from <= down'[k][i].from
        BY <1>5, <1>6, <1>7, <3>1, <3>4 DEF EnetInv, HoldersInOrder
    <3>6. \A h \in heard[c] : peer[h] = down'[k][i].id => h <= down'[k][i].from
        BY <1>1, <3>1 DEF EnetInv, HoldersInOrder
    <3> QED
        BY <1>4, <1>12, <2>1, <3>3, <3>5, <3>6
  <2>2. CASE l # k
    <3>1. down'[l] = down[l] /\ \A d \in Clients : conn[d] = l => heard'[d] = heard[d]
        BY <1>1, <1>4, <2>2
    <3> QED
        BY <3>1 DEF EnetInv, HoldersInOrder
  <2> QED
      BY <2>1, <2>2
<1>18. DownWalk'
  <2> SUFFICES ASSUME NEW l \in Conns, NEW j \in Conns, NEW a \in Sent(l, j)', NEW b \in Sent(l, j)',
                      a < b, \A i \in Sent(l, j)' : i <= a \/ b <= i
               PROVE  Near(down'[l][a].pos, down'[l][b].pos)
      BY DEF DownWalk
  <2>1. CASE l = k
    <3>1. /\ a + 1 \in Sent(k, j) /\ b + 1 \in Sent(k, j) /\ a \in Nat \ {0} /\ b \in Nat \ {0}
          /\ down'[k][a] = down[k][a + 1] /\ down'[k][b] = down[k][b + 1]
        BY <1>9, <2>1
    <3>2. ASSUME NEW i \in Sent(k, j)
          PROVE  i <= a + 1 \/ b + 1 <= i
      <4>1. CASE i = 1
          BY <3>1, <4>1
      <4>2. CASE i # 1
          BY <1>10, <2>1, <3>1, <3>2, <4>2
      <4> QED
          BY <4>1, <4>2
    <3> QED
        BY <2>1, <3>1, <3>2 DEF EnetInv, DownWalk
  <2>2. CASE l # k
      BY <1>4, <1>11, <2>2 DEF EnetInv, DownWalk
  <2> QED
      BY <2>1, <2>2
\* What the client has of a connection stays, unless a later holder of the peer overwrites it.
<1>19. ASSUME NEW j \in Conns, j \in heard[c], j # m.from, Has(c, j), peer[j] # m.id
       PROVE  Has(c, j)' /\ others'[c][peer[j]] = others[c][peer[j]]
    BY <1>13, <1>14, <1>19 DEF Has
<1>20. ASSUME NEW j \in Conns, j \in heard[c], j # m.from, peer[j] = m.id
       PROVE  j < m.from /\ state[j] = "closed"
  <2>1. j <= m.from
      BY <1>1, <1>5, <1>6, <1>20 DEF EnetInv, HoldersInOrder
  <2>2. j < m.from
      BY <1>3, <1>20, <2>1 DEF Conns
  <2> QED
      BY <1>3, <1>7, <1>20, <2>2 DEF EnetInv, ConnOK
<1>21. HeardWalk'
  <2> SUFFICES ASSUME NEW d \in Clients, NEW j \in heard'[d], conn[d] # 0, NEW i \in Sent(conn[d], j)',
                      \A l \in Sent(conn[d], j)' : i <= l
               PROVE  Has(d, j)' /\ Near(others'[d][peer[j]], down'[conn[d]][i].pos)
      BY <1>14 DEF HeardWalk, Has
  <2>1. j \in Conns
      BY <1>3, <1>4, <1>12
  <2>2. CASE d # c
    <3>1. PICK l \in Conns : l = conn[d] /\ l # k
        BY <1>12, <2>2
    <3>2. i \in Sent(l, j) /\ (\A h \in Sent(l, j) : i <= h) /\ down'[l] = down[l]
        BY <1>4, <1>11, <1>14, <2>1, <3>1
    <3>3. j \in heard[d] /\ others'[d] = others[d]
        BY <1>4, <1>13, <2>2
    <3>4. Has(d, j) /\ Near(others[d][peer[j]], down[l][i].pos)
        BY <3>1, <3>2, <3>3 DEF EnetInv, HeardWalk
    <3> QED
        BY <1>14, <3>1, <3>2, <3>3, <3>4 DEF Has
  <2>3. CASE d = c
    <3>1. i \in Sent(k, j)' /\ \A l \in Sent(k, j)' : i <= l
        BY <1>1, <1>14, <2>3
    <3>2. i \in Nat \ {0} /\ i + 1 \in Sent(k, j) /\ down'[k][i] = down[k][i + 1]
        BY <1>9, <2>1, <3>1
    <3>3. \A l \in Sent(k, j) : l = 1 \/ i + 1 <= l
        BY <1>10, <2>1, <3>1, <3>2
    <3>4. CASE j = m.from
      <4>1. Near(down[k][1].pos, down[k][i + 1].pos)
        <5>1. 1 \in Sent(k, j) /\ 1 < i + 1 /\ \A l \in Sent(k, j) : l <= 1 \/ i + 1 <= l
            BY <1>3, <1>8, <3>2, <3>3, <3>4
        <5> QED
            BY <1>3, <3>2, <3>4, <5>1 DEF EnetInv, DownWalk
      <4> QED
          BY <1>1, <1>5, <1>7, <1>13, <1>14, <2>3, <3>2, <3>4, <4>1 DEF Has
    <3>5. CASE j # m.from
      <4>1. j \in heard[c]
          BY <1>4, <2>3, <3>5
      <4>2. \A l \in Sent(k, j) : i + 1 <= l
          BY <1>8, <2>1, <3>3, <3>5
      <4>3. Has(c, j) /\ Near(others[c][peer[j]], down[k][i + 1].pos)
          BY <1>1, <3>2, <4>1, <4>2 DEF EnetInv, HeardWalk
      <4>4. peer[j] # m.id
        <5>1. SUFFICES ASSUME peer[j] = m.id PROVE FALSE
            OBVIOUS
        <5>2. j < m.from
            BY <1>20, <2>1, <3>5, <4>1, <5>1
        <5>3. i + 1 \in 1..Len(down[k]) /\ down[k][i + 1].from = j /\ i + 1 \in DOMAIN down[k]
            BY <1>5, <3>2 DEF Sent
        <5>4. down[k][i + 1].id = m.id
            BY <5>1, <5>3 DEF EnetInv, WireOK
        <5>5. m.from <= j
            BY <1>5, <1>6, <5>3, <5>4 DEF EnetInv, HoldersInOrder
        <5> QED
            BY <1>3, <2>1, <5>2, <5>5 DEF Conns
      <4> QED
          BY <1>1, <1>14, <1>19, <2>1, <2>3, <3>2, <3>5, <4>1, <4>3, <4>4
    <3> QED
        BY <3>4, <3>5
  <2> QED
      BY <2>2, <2>3
<1>22. \A d \in Clients, j \in Conns : Linked(d, j)' => Linked(d, j) /\ conn[d] \in Conns
    BY <1>12, <1>14 DEF Linked
<1>23. \A q, j : Latest(q, j) => Latest(q, j)'
    BY <1>14 DEF Latest
<1>24. SyncOnWire'
  <2> SUFFICES ASSUME NEW d \in Clients, NEW j \in Conns, Linked(d, j)', NEW i \in Sent(conn[d], j)',
                      \A l \in Sent(conn[d], j)' : l <= i, NEW q, q = down'[conn[d]][i].pos
               PROVE  Latest(q, j)'
      BY <1>14 DEF SyncOnWire
  <2>1. PICK l \in Conns : l = conn[d]
      BY <1>22
  <2>2. i \in Sent(l, j)' /\ \A h \in Sent(l, j)' : h <= i
      BY <1>14, <2>1
  <2>3. CASE l = k
    <3>1. i \in Nat \ {0} /\ i + 1 \in Sent(k, j) /\ down'[k][i] = down[k][i + 1]
        BY <1>9, <2>2, <2>3
    <3>2. \A h \in Sent(k, j) : h <= i + 1
        BY <1>10, <2>2, <2>3, <3>1
    <3>3. Latest(q, j)
        BY <1>22, <2>1, <2>3, <3>1, <3>2 DEF EnetInv, SyncOnWire
    <3> QED
        BY <1>23, <3>3
  <2>4. CASE l # k
    <3>1. i \in Sent(l, j) /\ (\A h \in Sent(l, j) : h <= i) /\ q = down[l][i].pos
        BY <1>4, <1>11, <2>1, <2>2, <2>4
    <3>2. Latest(q, j)
        BY <1>22, <2>1, <3>1 DEF EnetInv, SyncOnWire
    <3> QED
        BY <1>23, <3>2
  <2> QED
      BY <2>3, <2>4
<1>25. SyncHeard'
  <2> SUFFICES ASSUME NEW d \in Clients, NEW j \in Conns, Linked(d, j)', j \in heard'[d],
                      Sent(conn[d], j)' = {}, NEW q, q = others'[d][peer[j]]
               PROVE  Has(d, j)' /\ Latest(q, j)'
      BY <1>14 DEF SyncHeard, Has
  <2>1. PICK l \in Conns : l = conn[d]
      BY <1>22
  <2>2. Sent(l, j)' = {}
      BY <1>14, <2>1
  <2>3. CASE d # c
    <3>1. l # k
        BY <1>12, <2>1, <2>3
    <3>2. Sent(l, j) = {} /\ j \in heard[d] /\ others'[d] = others[d]
        BY <1>4, <1>11, <1>13, <2>2, <2>3, <3>1
    <3>3. Has(d, j) /\ Latest(q, j)
        BY <1>14, <1>22, <2>1, <3>2 DEF EnetInv, SyncHeard
    <3> QED
        BY <1>14, <1>23, <3>2, <3>3 DEF Has
  <2>4. CASE d = c /\ j = m.from
    <3>1. 1 \in Sent(k, j) /\ \A h \in Sent(k, j) : h <= 1
        BY <1>1, <1>3, <1>8, <1>10, <2>1, <2>2, <2>4
    <3>2. Latest(down[k][1].pos, j)
        BY <1>1, <1>22, <2>4, <3>1 DEF EnetInv, SyncOnWire
    <3>3. q = down[k][1].pos
        BY <1>5, <1>7, <1>13, <2>4
    <3> QED
        BY <1>7, <1>13, <1>14, <1>23, <2>4, <3>2, <3>3 DEF Has
  <2>5. CASE d = c /\ j # m.from
    <3>1. Sent(k, j) = {} /\ j \in heard[c]
      <4>1. \A i \in Sent(k, j) : i = 1
          BY <1>1, <1>10, <2>1, <2>2, <2>5
      <4> QED
          BY <1>4, <1>8, <2>5, <4>1
    <3>2. Has(c, j) /\ Latest(others[c][peer[j]], j)
        BY <1>1, <1>22, <2>5, <3>1 DEF EnetInv, SyncHeard
    <3>3. peer[j] # m.id
        BY <1>14, <1>20, <2>5, <3>1 DEF Linked
    <3> QED
        BY <1>19, <1>23, <2>5, <3>1, <3>2, <3>3
  <2> QED
      BY <2>3, <2>4, <2>5
<1>26. EnetInv'
    BY <1>15, <1>16, <1>17, <1>18, <1>21, <1>24, <1>25 DEF EnetInv
<1>27. /\ tracker'[c].total = tracker[c].total \/ m.from \notin heard[c]
       /\ tracker'[c].total \in {tracker[c].total, tracker[c].total + 1}
  <2>1. tracker[c] \in Tracker /\ tracker'[c] = Tracked(tracker[c], Other(others[c], m.id), m.pos)
      BY <1>2 DEF EnetInv, TypeOK
  <2>2. tracker'[c].total = IF Near(Other(others[c], m.id), m.pos) THEN tracker[c].total ELSE tracker[c].total + 1
      BY <2>1, TrackedType
  <2>3. ASSUME m.from \in heard[c]
        PROVE  Near(Other(others[c], m.id), m.pos)
    <3>1. 1 \in Sent(k, m.from) /\ \A l \in Sent(k, m.from) : 1 <= l
        BY <1>3, <1>5, <1>8 DEF Sent
    <3>2. Has(c, m.from) /\ Near(others[c][peer[m.from]], down[k][1].pos)
        BY <1>1, <2>3, <3>1 DEF EnetInv, HeardWalk
    <3> QED
        BY <1>5, <1>7, <3>2 DEF Other, Has
  <2> QED
      BY <2>2, <2>3
<1> QED
    BY <1>2, <1>26, <1>27
-----------------------------------------------------------------------------
(* The theorems.                                                           *)

LEMMA EnetStep == EnetInv /\ [Next]_vars => EnetInv'
<1> SUFFICES ASSUME EnetInv, [Next]_vars PROVE EnetInv'
    OBVIOUS
<1>1. TypeOK'
    BY TypeStep DEF EnetInv
<1>2. CASE Expire \/ UNCHANGED vars
    BY <1>1, <1>2, QuietKeeps DEF Expire, vars
<1>3. CASE \E k \in Conns : PeerConnected(k) \/ PeerDisconnected(k) \/ Relay(k)
    BY <1>1, <1>3, PeerConnectedKeeps, PeerDisconnectedKeeps, RelayKeeps
<1>4. ASSUME NEW c \in Clients, Connect(c) \/ NotConnected(c) \/ Disconnected(c) PROVE EnetInv'
    BY <1>1, <1>4, ConnectKeeps, NotConnectedKeeps, DisconnectedKeeps
<1>5. ASSUME NEW c \in Clients, Move(c) \/ ReceivePosition(c) PROVE EnetInv'
    BY <1>1, <1>5, MoveKeeps, ReceiveKeeps
<1>6. ASSUME NEW c \in Clients, EndTick(c) PROVE EnetInv'
    BY <1>1, <1>6, QuietKeeps DEF EndTick
<1> QED
    BY <1>2, <1>3, <1>4, <1>5, <1>6 DEF Next

LEMMA EnetInvariant == Spec => []EnetInv
BY InvInit, EnetStep, PTL DEF Spec

LEMMA SyncFollows == EnetInv => HeardInSync
<1> SUFFICES ASSUME EnetInv, NEW c \in Clients, NEW d \in Clients,
                    c # d, ~expired, conn[c] # 0, conn[d] # 0, conn[d] \in heard[c],
                    state[conn[c]] = "connected", state[conn[d]] = "connected",
                    up[conn[d]] = <<>>, \A i \in DOMAIN down[conn[c]] : down[conn[c]][i].from # conn[d]
             PROVE  peer[conn[d]] \in DOMAIN others[c] /\ others[c][peer[conn[d]]] = at[d]
    BY DEF HeardInSync
<1>1. PICK j \in Conns : j = conn[d]
    BY DEF EnetInv, TypeOK
<1>2. Linked(c, j)
    BY <1>1 DEF Linked, EnetInv, ConnOK
<1>3. Sent(conn[c], j) = {}
    BY <1>1 DEF Sent
<1>4. Has(c, j) /\ Latest(others[c][peer[j]], j)
    BY <1>1, <1>2, <1>3 DEF EnetInv, SyncHeard
<1> QED
    BY <1>1, <1>4 DEF Has, Latest

\* The change of a tracker in a step, against the number of connections newly heard of.
LEMMA CorrectionStep ==
    ASSUME EnetInv, [Next]_vars, NEW c \in Clients
    PROVE  tracker'[c].total - tracker[c].total <= Cardinality(heard'[c] \ heard[c])
<1>1. TypeOK' /\ tracker[c] \in Tracker /\ tracker[c].total \in Nat
    BY TypeStep DEF EnetInv, TypeOK, Tracker
<1>2. ASSUME tracker'[c].total = tracker[c].total, heard'[c] \in {heard[c], {}}
      PROVE  tracker'[c].total - tracker[c].total <= Cardinality(heard'[c] \ heard[c])
  <2>1. heard'[c] \ heard[c] = {}
      BY <1>2
  <2>2. Cardinality(heard'[c] \ heard[c]) = 0
      BY <2>1, FS_EmptySet
  <2>3. tracker'[c].total - tracker[c].total = 0
      BY <1>1, <1>2
  <2> QED
      BY <2>2, <2>3
<1>3. ASSUME NEW d \in Clients, ReceivePosition(d)
      PROVE  tracker'[c].total - tracker[c].total <= Cardinality(heard'[c] \ heard[c])
  <2>1. PICK j : /\ heard' = [heard EXCEPT ![d] = @ \union {j}]
                 /\ tracker'[d].total = tracker[d].total \/ j \notin heard[d]
                 /\ tracker'[d].total \in {tracker[d].total, tracker[d].total + 1}
      BY <1>1, <1>3, ReceiveKeeps
  <2>2. CASE c # d
    <3>1. heard'[c] = heard[c] /\ tracker'[c] = tracker[c]
        BY <1>3, <2>1, <2>2 DEF ReceivePosition, EnetInv, TypeOK
    <3> QED
        BY <1>2, <3>1
  <2>3. CASE c = d /\ j \in heard[c]
    <3>1. heard'[c] = heard[c] /\ tracker'[c].total = tracker[c].total
        BY <2>1, <2>3 DEF EnetInv, TypeOK
    <3> QED
        BY <1>2, <3>1
  <2>4. CASE c = d /\ j \notin heard[c]
    <3>1. heard'[c] \ heard[c] = {j}
        BY <2>1, <2>4 DEF EnetInv, TypeOK
    <3>2. Cardinality(heard'[c] \ heard[c]) = 1
        BY <3>1, FS_Singleton
    <3>3. tracker'[c].total - tracker[c].total \in {0, 1}
        BY <1>1, <2>1, <2>4
    <3> QED
        BY <3>2, <3>3
  <2> QED
      BY <2>2, <2>3, <2>4
<1>4. ASSUME NEW d \in Clients, EndTick(d)
      PROVE  tracker'[c].total - tracker[c].total <= Cardinality(heard'[c] \ heard[c])
  <2>1. tracker'[c] \in {tracker[c], WriteLine(tracker[c])} /\ heard' = heard
      BY <1>4 DEF EndTick, EnetInv, TypeOK
  <2> QED
      BY <1>1, <1>2, <2>1, WriteLineType
<1>5. ASSUME NEW d \in Clients, Connect(d) \/ NotConnected(d)
      PROVE  tracker'[c].total - tracker[c].total <= Cardinality(heard'[c] \ heard[c])
  <2>1. tracker' = tracker /\ heard'[c] \in {heard[c], {}}
      BY <1>5 DEF Connect, NotConnected, Return, EnetInv, TypeOK
  <2> QED
      BY <1>2, <2>1
<1>6. ASSUME UNCHANGED <<tracker, heard>>
      PROVE  tracker'[c].total - tracker[c].total <= Cardinality(heard'[c] \ heard[c])
    BY <1>2, <1>6
<1>7. CASE \E k \in Conns : PeerConnected(k) \/ PeerDisconnected(k) \/ Relay(k)
    BY <1>6, <1>7 DEF PeerConnected, PeerDisconnected, Relay
<1>8. CASE \E d \in Clients : Disconnected(d) \/ Move(d)
    BY <1>6, <1>8 DEF Disconnected, Move
<1>9. CASE Expire \/ UNCHANGED vars
    BY <1>6, <1>9 DEF Expire, vars
<1> QED
    BY <1>3, <1>4, <1>5, <1>7, <1>8, <1>9 DEF Next

\* Every variable keeps its type, whatever number of clients, peers and
\* connections: positions stay on the map and what clients count are trackers.
THEOREM TypeCorrect == Spec => []TypeOK
BY EnetInvariant, PTL DEF EnetInv

\* Positions sent under one peer number come in the order of its holders, however
\* often peers are used again (server.cpp:117, 182).
THEOREM HoldersOrdered == Spec => []HoldersInOrder
BY EnetInvariant, PTL DEF EnetInv

\* Once nothing is on its way, a client has each player it has heard of where that
\* player is (server.cpp:114-176, Game.cpp:128), through all reconnections.
THEOREM InSync == Spec => []HeardInSync
BY EnetInvariant, SyncFollows, PTL

\* Only the first position heard over a connection can count as a correction
\* (Game.cpp:116-126): those after it are single steps.
THEOREM OnlyFirsts == Spec => OnlyFirstsAreCorrections
<1>1. EnetInv /\ [Next]_vars => [\A c \in Clients :
          tracker'[c].total - tracker[c].total <= Cardinality(heard'[c] \ heard[c])]_vars
    BY CorrectionStep
<1> QED
    BY <1>1, EnetInvariant, PTL DEF Spec, OnlyFirstsAreCorrections
=============================================================================
