--------------------------- MODULE RakGameProofs ---------------------------
(***************************************************************************)
(* Proofs about RakGame, for any number of clients and any map: its type   *)
(* invariant; that with -r the server never turns a move down and tells no *)
(* client its own position; and in both modes, with packets that are lost  *)
(* and overtake each other, how the server crashes, how often a client     *)
(* lists a player, and what hangs it.                                      *)
(***************************************************************************)
EXTENDS RakGame, FiniteSetTheorems, TLAPS

(***************************************************************************)
(* Sequences.                                                              *)
(***************************************************************************)

\* Taking element i out of a sequence keeps the others in their order.
LEMMA RemoveAtProperties ==
    ASSUME NEW S, NEW s \in Seq(S), NEW i \in DOMAIN s
    PROVE  /\ RemoveAt(s, i) \in Seq(S)
           /\ Len(RemoveAt(s, i)) = Len(s) - 1
           /\ \A j \in 1..(Len(s) - 1) :
                 RemoveAt(s, i)[j] = IF j < i THEN s[j] ELSE s[j + 1]
<1> DEFINE a == SubSeq(s, 1, i - 1)
           b == SubSeq(s, i + 1, Len(s))
<1>1. /\ a \in Seq(S) /\ Len(a) = i - 1
      /\ \A j \in 1..(i - 1) : a[j] = s[j]
  OBVIOUS
<1>2. /\ b \in Seq(S) /\ Len(b) = Len(s) - i
      /\ \A j \in 1..(Len(s) - i) : b[j] = s[j + i]
  OBVIOUS
<1> HIDE DEF a, b
<1>3. /\ a \o b \in Seq(S)
      /\ Len(a \o b) = Len(s) - 1
      /\ \A j \in 1..(Len(s) - 1) :
            (a \o b)[j] = IF j < i THEN s[j] ELSE s[j + 1]
  BY <1>1, <1>2
<1> QED
  BY <1>3 DEF a, b, RemoveAt

(***************************************************************************)
(* Messages.                                                               *)
(***************************************************************************)

\* A move stays on the map and is one space long.
LEMMA MoveProperties ==
    ASSUME NEW p \in Cell, NEW q \in PossibleMoves(p)
    PROVE  q \in Cell /\ Near(p, q)
BY MapAssumption DEF PossibleMoves, Cell, Near

LEMMA SpawnProperties == SpawnCell \subseteq Cell /\ Origin \in Cell
BY MapAssumption DEF SpawnCell, Cell, Origin

\* What the arrival of c adds to channel 0 of d: nothing that d waits for but
\* the spawn point of c itself.
LEMMA WelcomeProperties ==
    ASSUME TypeOK, NEW c \in Clients, NEW p \in Cell, NEW d \in Clients
    PROVE  /\ Welcome(c, p) = [e \in Clients |-> Welcome(c, p)[e]]
           /\ Welcome(c, p)[d] \in Seq(Control)
           /\ \A i \in DOMAIN Welcome(c, p)[d] :
                 \/ i \in DOMAIN control[d] /\ Welcome(c, p)[d][i] = control[d][i]
                 \/ Welcome(c, p)[d][i].type \in {"config", "spawn"} =>
                       d = c /\ Welcome(c, p)[d][i].at = p
<1> DEFINE msg(type) == [type |-> type, id |-> c, at |-> p]
           own == IF c \in Addressees THEN <<msg("config"), msg("spawn")>> ELSE <<>>
           mine == IF d = c THEN own ELSE <<>>
           all == IF d \in Addressees THEN <<msg("join")>> ELSE <<>>
<1>1. /\ msg("config") \in Control /\ msg("spawn") \in Control /\ msg("join") \in Control
  BY DEF Control
<1>2. mine \in Seq(Control) /\ all \in Seq(Control)
  BY <1>1
<1>3. /\ \A i \in DOMAIN mine : mine[i].type \in {"config", "spawn"} => d = c /\ mine[i].at = p
      /\ \A i \in DOMAIN all : all[i].type \notin {"config", "spawn"}
  OBVIOUS
<1>4. control[d] \in Seq(Control)
  BY DEF TypeOK
<1>5. Welcome(c, p)[d] = control[d] \o mine \o all
  BY DEF Welcome
<1> HIDE DEF mine, all, msg, own
<1>6. \A i \in DOMAIN (control[d] \o mine \o all) :
         \/ i \in DOMAIN control[d] /\ (control[d] \o mine \o all)[i] = control[d][i]
         \/ \E j \in DOMAIN mine : (control[d] \o mine \o all)[i] = mine[j]
         \/ \E j \in DOMAIN all : (control[d] \o mine \o all)[i] = all[j]
  <2> DEFINE s == control[d] \o mine \o all
  <2> SUFFICES ASSUME NEW i \in DOMAIN s
               PROVE  \/ i \in DOMAIN control[d] /\ s[i] = control[d][i]
                      \/ \E j \in DOMAIN mine : s[i] = mine[j]
                      \/ \E j \in DOMAIN all : s[i] = all[j]
    OBVIOUS
  <2>1. CASE i <= Len(control[d])
    BY <1>2, <1>4, <2>1
  <2>2. CASE i > Len(control[d]) /\ i <= Len(control[d]) + Len(mine)
    <3>1. i - Len(control[d]) \in DOMAIN mine /\ s[i] = mine[i - Len(control[d])]
      BY <1>2, <1>4, <2>2
    <3> QED
      BY <3>1
  <2>3. CASE i > Len(control[d]) + Len(mine)
    <3>1. /\ i - Len(control[d]) - Len(mine) \in DOMAIN all
          /\ s[i] = all[i - Len(control[d]) - Len(mine)]
      BY <1>2, <1>4, <2>3
    <3> QED
      BY <3>1
  <2> QED
    BY <1>2, <1>4, <2>1, <2>2, <2>3
<1>7. \A i \in DOMAIN Welcome(c, p)[d] :
         \/ i \in DOMAIN control[d] /\ Welcome(c, p)[d][i] = control[d][i]
         \/ Welcome(c, p)[d][i].type \in {"config", "spawn"} =>
               d = c /\ Welcome(c, p)[d][i].at = p
  BY <1>3, <1>5, <1>6
<1>8. Welcome(c, p)[d] \in Seq(Control)
  BY <1>2, <1>4, <1>5
<1>9. Welcome(c, p) = [e \in Clients |-> Welcome(c, p)[e]]
  BY DEF Welcome
<1> QED
  BY <1>7, <1>8, <1>9

\* A tick sends d positions of connected players, its own only when it is to
\* be put right.
LEMMA BroadcastProperties ==
    ASSUME TypeOK, NEW d \in Clients, NEW order \in SetToSeqs(connected)
    PROVE  /\ Broadcast(d, order) \in Seq(Move)
           /\ \A i \in DOMAIN Broadcast(d, order) :
                 Broadcast(d, order)[i].id = d => toSelf[d]
<1> DEFINE n == Cardinality(connected)
           all == [i \in DOMAIN order |-> [id |-> order[i], at |-> pos[order[i]]]]
           own == {i \in DOMAIN order : order[i] = d /\ ~toSelf[d]}
           k == CHOOSE i \in own : TRUE
<1>1. n \in Nat
  BY ClientsAssumption, FS_Subset, FS_CardinalityType DEF TypeOK
<1>2. /\ order \in [1..n -> connected]
      /\ \A i, j \in 1..n : i # j => order[i] # order[j]
  BY DEF SetToSeqs
<1>3. /\ all \in Seq(Move) /\ Len(all) = n /\ DOMAIN order = 1..n
      /\ \A i \in 1..n : all[i].id = order[i]
  <2>1. DOMAIN order = 1..n
    BY <1>2
  <2>2. \A i \in 1..n : [id |-> order[i], at |-> pos[order[i]]] \in Move
    BY <1>2 DEF TypeOK, Move
  <2> QED
    BY <1>1, <2>1, <2>2
<1>4. Broadcast(d, order) = IF own = {} THEN all ELSE RemoveAt(all, k)
  BY DEF Broadcast
<1> HIDE DEF all
<1>5. CASE own = {}
  BY <1>3, <1>4, <1>5
<1>6. CASE own # {}
  <2>1. k \in 1..n /\ order[k] = d
    BY <1>3, <1>6
  <2> HIDE DEF k
  <2>2. /\ RemoveAt(all, k) \in Seq(Move)
        /\ Len(RemoveAt(all, k)) = n - 1
        /\ \A j \in 1..(n - 1) :
              RemoveAt(all, k)[j] = IF j < k THEN all[j] ELSE all[j + 1]
    <3>1. all \in Seq(Move) /\ k \in DOMAIN all /\ Len(all) = n
      BY <1>3, <2>1
    <3> QED
      BY <3>1, RemoveAtProperties
  <2>3. \A j \in 1..(n - 1) : RemoveAt(all, k)[j].id # d
    <3> SUFFICES ASSUME NEW j \in 1..(n - 1) PROVE RemoveAt(all, k)[j].id # d
      OBVIOUS
    <3>1. CASE j < k
      <4>1. RemoveAt(all, k)[j].id = order[j] /\ j # k /\ j \in 1..n
        BY <1>1, <1>3, <2>1, <2>2, <3>1
      <4> QED
        BY <1>2, <2>1, <4>1
    <3>2. CASE j >= k
      <4>1. RemoveAt(all, k)[j].id = order[j + 1] /\ j + 1 # k /\ j + 1 \in 1..n
        BY <1>1, <1>3, <2>1, <2>2, <3>2
      <4> QED
        BY <1>2, <2>1, <4>1
    <3> QED
      BY <1>1, <2>1, <3>1, <3>2
  <2> QED
    BY <1>1, <1>4, <1>6, <2>2, <2>3
<1> QED
  BY <1>5, <1>6

(***************************************************************************)
(* Types.                                                                  *)
(***************************************************************************)

LEMMA InitType == Init => TypeOK
BY SpawnProperties, BoundsAssumption DEF Init, TypeOK

LEMMA LibraryType ==
    ASSUME TypeOK, NEW c \in Clients, LibraryStep(c)
    PROVE  TypeOK'
<1> USE DEF TypeOK
<1>1. CASE Connect(c)
  BY <1>1 DEF Connect
<1>2. CASE NotConnected(c)
  <2>1. PICK p \in {"exited", "waitConfig"} : phase' = [phase EXCEPT ![c] = p]
    BY <1>2 DEF NotConnected
  <2> QED
    BY <1>2, <2>1 DEF NotConnected, serverVars, netVars
<1>3. CASE ClientKilled(c)
  BY <1>3, SpawnProperties DEF ClientKilled, serverVars
<1>4. CASE DropPosition(c)
  <2>1. PICK i \in DOMAIN positions[c] :
           positions' = [positions EXCEPT ![c] = RemoveAt(@, i)]
    BY <1>4 DEF DropPosition
  <2>2. RemoveAt(positions[c], i) \in Seq(Move)
    BY <2>1, RemoveAtProperties
  <2> QED
    BY <1>4, <2>1, <2>2 DEF DropPosition, serverVars, clientVars
<1> QED
  BY <1>1, <1>2, <1>3, <1>4 DEF LibraryStep

LEMMA ServerType ==
    ASSUME TypeOK, NEW c \in Clients, ServerStep(c)
    PROVE  TypeOK'
<1> USE DEF TypeOK
<1>1. CASE NewConnection(c)
  <2>1. PICK p \in SpawnCell : pos' = [pos EXCEPT ![c] = p] /\ control' = Welcome(c, p)
    BY <1>1 DEF NewConnection
  <2>2. p \in Cell
    BY SpawnProperties
  <2>3. control' \in [Clients -> Seq(Control)]
    BY <2>1, <2>2, WelcomeProperties
  <2> QED
    BY <1>1, <2>1, <2>2, <2>3 DEF NewConnection, clientVars
<1>2. CASE NoRoomToSpawn(c)
  BY <1>2 DEF NoRoomToSpawn, clientVars, netVars
<1>3. CASE ConnectionLost(c)
  BY <1>3, SpawnProperties DEF ConnectionLost, clientVars
<1>4. CASE ReceiveMove(c)
  <2>1. PICK i \in DOMAIN toServer[c] :
           /\ queue' = Append(queue, [id |-> c, at |-> toServer[c][i]])
           /\ toServer' = [toServer EXCEPT ![c] = RemoveAt(@, i)]
    BY <1>4 DEF ReceiveMove, Deliverable
  <2>2. RemoveAt(toServer[c], i) \in Seq(Cell) /\ toServer[c][i] \in Cell
    BY <2>1, RemoveAtProperties
  <2>3. [id |-> c, at |-> toServer[c][i]] \in Move
    BY <2>2 DEF Move
  <2>4. queue' \in Seq(Move) /\ cursor' \in 1..(Len(queue') + 1)
    BY <1>4, <2>1, <2>3 DEF ReceiveMove
  <2> QED
    BY <1>4, <2>1, <2>2, <2>4 DEF ReceiveMove, clientVars
<1> QED
  BY <1>1, <1>2, <1>3, <1>4 DEF ServerStep

LEMMA UpdateType ==
    ASSUME TypeOK, UpdatePlayerPosition
    PROVE  TypeOK'
<1> USE DEF TypeOK
<1>1. cursor \in DOMAIN queue /\ queue[cursor] \in Move
  BY DEF UpdatePlayerPosition
<1>2. queue[cursor].id \in Clients /\ queue[cursor].at \in Cell
  BY <1>1 DEF Move
<1> DEFINE m == queue[cursor]
<1>3. /\ server' \in {"updating", "crashed"}
      /\ queue' = queue /\ cursor' \in 1..(Len(queue) + 1)
  BY <1>1 DEF UpdatePlayerPosition
<1>4. /\ pos' = pos \/ pos' = [pos EXCEPT ![m.id] = m.at]
      /\ toSelf' = toSelf \/ toSelf' = [toSelf EXCEPT ![m.id] = TRUE]
  BY DEF UpdatePlayerPosition
<1>5. pos' \in [Clients -> Cell] /\ toSelf' \in [Clients -> BOOLEAN]
  BY <1>2, <1>4
<1> QED
  BY <1>3, <1>5 DEF UpdatePlayerPosition, clientVars, netVars

LEMMA EndTickType ==
    ASSUME TypeOK, EndTick
    PROVE  TypeOK'
<1>1. PICK order \in SetToSeqs(connected) :
         positions' = [d \in Clients |->
             IF d \in Addressees THEN positions[d] \o Broadcast(d, order)
                                 ELSE positions[d]]
  BY DEF EndTick
<1>2. \A d \in Clients : Broadcast(d, order) \in Seq(Move)
  BY BroadcastProperties
<1>3. positions' \in [Clients -> Seq(Move)]
  BY <1>1, <1>2 DEF TypeOK
<1> QED
  BY <1>3 DEF TypeOK, EndTick, clientVars

LEMMA AddRemoteType ==
    ASSUME TypeOK, NEW c \in Clients, NEW d \in Clients, NEW p \in Cell,
           AddRemotePlayer(c, d, p)
    PROVE  /\ known' \in [Clients -> SUBSET Clients]
           /\ seen' \in [Clients -> [Clients -> Cell]]
           /\ phantom' \in [Clients -> Seq(Move)]
<1>1. [id |-> d, at |-> p] \in Move
  BY DEF Move
<1>2. CASE d \in known[c]
  <2>1. Append(phantom[c], [id |-> d, at |-> p]) \in Seq(Move)
    BY <1>1 DEF TypeOK
  <2>2. /\ phantom' = [phantom EXCEPT ![c] = Append(phantom[c], [id |-> d, at |-> p])]
        /\ known' = known /\ seen' = seen
    BY <1>2 DEF AddRemotePlayer
  <2> QED
    BY <2>1, <2>2 DEF TypeOK
<1>3. CASE d \notin known[c]
  <2>1. [seen[c] EXCEPT ![d] = p] \in [Clients -> Cell]
    BY DEF TypeOK
  <2>2. /\ known' = [known EXCEPT ![c] = known[c] \union {d}]
        /\ seen' = [seen EXCEPT ![c] = [seen[c] EXCEPT ![d] = p]]
        /\ phantom' = phantom
    BY <1>3 DEF AddRemotePlayer
  <2> QED
    BY <2>1, <2>2 DEF TypeOK
<1> QED
  BY <1>2, <1>3

LEMMA ClientType ==
    ASSUME TypeOK, NEW c \in Clients, ClientStep(c)
    PROVE  TypeOK'
<1>1. CASE ReceiveControl(c)
  <2>1. PICK i \in DOMAIN control[c] :
           /\ HandleControl(c, control[c][i])
           /\ control' = [control EXCEPT ![c] = RemoveAt(@, i)]
    BY <1>1 DEF ReceiveControl, Deliverable
  <2>2. RemoveAt(control[c], i) \in Seq(Control) /\ control[c][i] \in Control
    BY <2>1, RemoveAtProperties DEF TypeOK
  <2>3. control[c][i].id \in Clients /\ control[c][i].at \in Cell
    BY <2>2 DEF Control
  <2> DEFINE m == control[c][i]
  <2>4. /\ phase' \in [Clients -> {"off", "waitConfig", "waitSpawn", "playing",
                                   "spinning", "exited"}]
        /\ local' \in [Clients -> Cell]
        /\ known' \in [Clients -> SUBSET Clients]
        /\ seen' \in [Clients -> [Clients -> Cell]]
        /\ phantom' \in [Clients -> Seq(Move)]
    <3>1. CASE AddRemotePlayer(c, m.id, m.at) /\ UNCHANGED <<phase, local>>
      BY <2>3, <3>1, AddRemoteType DEF TypeOK
    <3>2. CASE /\ phase' = [phase EXCEPT ![c] = "waitSpawn"]
               /\ UNCHANGED <<local, known, seen, phantom>>
      BY <3>2 DEF TypeOK
    <3>3. CASE /\ phase' = [phase EXCEPT ![c] = "playing"]
               /\ local' = [local EXCEPT ![c] = m.at]
               /\ UNCHANGED <<known, seen, phantom>>
      BY <2>3, <3>3 DEF TypeOK
    <3>4. CASE UNCHANGED <<phase, local, known, seen, phantom>>
      BY <3>4 DEF TypeOK
    <3> QED
      BY <2>1, <3>1, <3>2, <3>3, <3>4 DEF HandleControl
  <2> QED
    BY <1>1, <2>1, <2>2, <2>4 DEF ReceiveControl, TypeOK, serverVars
<1>2. CASE ReceivePosition(c)
  <2>1. PICK i \in DOMAIN positions[c] :
           /\ IF phase[c] = "playing"
              THEN HandlePosition(c, positions[c][i])
              ELSE UNCHANGED <<local, known, seen, phantom>>
           /\ positions' = [positions EXCEPT ![c] = RemoveAt(@, i)]
    BY <1>2 DEF ReceivePosition, Deliverable
  <2>2. RemoveAt(positions[c], i) \in Seq(Move) /\ positions[c][i] \in Move
    BY <2>1, RemoveAtProperties DEF TypeOK
  <2>3. positions[c][i].id \in Clients /\ positions[c][i].at \in Cell
    BY <2>2 DEF Move
  <2> DEFINE m == positions[c][i]
  <2>4. /\ local' \in [Clients -> Cell]
        /\ known' \in [Clients -> SUBSET Clients]
        /\ seen' \in [Clients -> [Clients -> Cell]]
        /\ phantom' \in [Clients -> Seq(Move)]
    <3>1. CASE AddRemotePlayer(c, m.id, m.at) /\ UNCHANGED local
      BY <2>3, <3>1, AddRemoteType DEF TypeOK
    <3>2. CASE local' = [local EXCEPT ![c] = m.at] /\ UNCHANGED <<known, seen, phantom>>
      BY <2>3, <3>2 DEF TypeOK
    <3>3. CASE /\ seen' = [seen EXCEPT ![c] = [seen[c] EXCEPT ![m.id] = m.at]]
               /\ UNCHANGED <<local, known, phantom>>
      <4>1. [seen[c] EXCEPT ![m.id] = m.at] \in [Clients -> Cell]
        BY <2>3 DEF TypeOK
      <4> QED
        BY <3>3, <4>1 DEF TypeOK
    <3>4. CASE UNCHANGED <<local, known, seen, phantom>>
      BY <3>4 DEF TypeOK
    <3> QED
      BY <2>1, <3>1, <3>2, <3>3, <3>4 DEF HandlePosition
  <2> QED
    BY <1>2, <2>1, <2>2, <2>4 DEF ReceivePosition, TypeOK, serverVars
<1>3. CASE LocalMove(c)
  <2>1. PICK p \in PossibleMoves(local[c]) :
           /\ local' = [local EXCEPT ![c] = p]
           /\ toServer' = [toServer EXCEPT ![c] =
                              IF link[c] = "up" THEN Append(@, p) ELSE @]
    BY <1>3 DEF LocalMove
  <2>2. p \in Cell
    BY MoveProperties DEF TypeOK
  <2>3. toServer' \in [Clients -> Seq(Cell)] /\ local' \in [Clients -> Cell]
    BY <2>1, <2>2 DEF TypeOK
  <2>4. moves' \in 0..MaxMoves
    BY <1>3, BoundsAssumption DEF LocalMove, TypeOK
  <2> QED
    BY <1>3, <2>3, <2>4 DEF LocalMove, TypeOK, serverVars
<1>4. CASE NoRoomToMove(c)
  BY <1>4 DEF NoRoomToMove, TypeOK, serverVars
<1> QED
  BY <1>1, <1>2, <1>3, <1>4 DEF ClientStep

LEMMA StepType == TypeOK /\ [Next]_vars => TypeOK'
<1> SUFFICES ASSUME TypeOK, [Next]_vars PROVE TypeOK'
  OBVIOUS
<1>1. CASE Next
  BY <1>1, UpdateType, EndTickType, LibraryType, ServerType, ClientType DEF Next
<1>2. CASE UNCHANGED vars
  BY <1>2 DEF TypeOK, vars, serverVars, clientVars, netVars
<1> QED
  BY <1>1, <1>2

\* Every variable keeps its type, on any map and with any number of clients:
\* in particular no move takes a player off the cells a client can stand on.
THEOREM TypeCorrect == Spec => []TypeOK
BY InitType, StepType, PTL DEF Spec

(***************************************************************************)
(* The walk of a client, with -r.  The check of UpdatePlayerPositions      *)
(* compares a new position with the one the server has, which is older     *)
(* than the one the client moved from.  It holds all the same because the  *)
(* moves between the two are exactly those in the queue and on the wire,   *)
(* in the order they were made: RakInv.                                    *)
(***************************************************************************)

\* WalkInv(c) looks at nothing else: a step that leaves all this alone, or
\* takes a packet out of channel 0, preserves it.
LEMMA WalkFrame ==
    ASSUME NEW c \in Clients, WalkInv(c),
           queue' = queue, cursor' = cursor,
           pos'[c] = pos[c], toServer'[c] = toServer[c],
           c \in connected' => c \in connected,
           phase'[c] \in {"playing", "spinning"} =>
               phase[c] \in {"playing", "spinning"} /\ local'[c] = local[c],
           phase'[c] \in {"waitConfig", "waitSpawn"} =>
               phase[c] \in {"waitConfig", "waitSpawn"},
           \A i \in DOMAIN control'[c] : \E j \in DOMAIN control[c] :
               control'[c][i] = control[c][j]
    PROVE  WalkInv(c)'
<1>1. \A i, j : /\ Waiting(c, i)' <=> Waiting(c, i)
                /\ FirstWaiting(c, i)' <=> FirstWaiting(c, i)
                /\ LastWaiting(c, i)' <=> LastWaiting(c, i)
                /\ Following(c, i, j)' <=> Following(c, i, j)
  BY DEF Waiting, FirstWaiting, LastWaiting, Following
<1>2. \A p : Newest(c, p)' <=> Newest(c, p)
  BY <1>1 DEF Newest
<1>3. /\ QueueWalk(c) => QueueWalk(c)'
      /\ WireWalk(c) => WireWalk(c)'
      /\ LocalWalk(c) /\ local'[c] = local[c] => LocalWalk(c)'
      /\ AtSpawn(c) => AtSpawn(c)'
  BY <1>1, <1>2 DEF QueueWalk, WireWalk, LocalWalk, AtSpawn
<1> QED
  BY <1>3 DEF WalkInv

LEMMA InitRakInv == Init => RakInv
BY DEF Init, RakInv, SelfInv, LinkInv, WalkInv

\* In order, only the oldest packet of a channel is delivered.
LEMMA InOrder ==
    ASSUME reliable, NEW S, NEW s \in Seq(S), NEW i \in Deliverable(s)
    PROVE  /\ i = 1 /\ s # <<>> /\ s[1] \in S
           /\ RemoveAt(s, i) \in Seq(S)
           /\ Len(RemoveAt(s, i)) = Len(s) - 1
           /\ \A j \in 1..(Len(s) - 1) : RemoveAt(s, i)[j] = s[j + 1]
<1>1. i = 1 /\ i \in DOMAIN s
  BY DEF Deliverable
<1>2. /\ RemoveAt(s, i) \in Seq(S)
      /\ Len(RemoveAt(s, i)) = Len(s) - 1
      /\ \A j \in 1..(Len(s) - 1) : RemoveAt(s, i)[j] = IF j < i THEN s[j] ELSE s[j + 1]
  BY <1>1, RemoveAtProperties
<1> QED
  BY <1>1, <1>2

LEMMA LibraryRakInv ==
    ASSUME reliable, TypeOK, RakInv, NEW c \in Clients, LibraryStep(c), NEW d \in Clients
    PROVE  SelfInv(d)' /\ LinkInv(d)' /\ WalkInv(d)'
<1>0. SelfInv(d) /\ LinkInv(d) /\ WalkInv(d)
  BY DEF RakInv
<1> USE DEF TypeOK
<1>1. CASE Connect(c)
  <2>1. SelfInv(d)' /\ LinkInv(d)'
    BY <1>0, <1>1 DEF Connect, SelfInv, LinkInv
  <2>2. d = c => c \notin connected
    BY <1>0, <1>1 DEF Connect, LinkInv
  <2>3. WalkInv(d)'
    <3>1. CASE d = c
      BY <1>1, <2>2, <3>1 DEF Connect, WalkInv
    <3>2. CASE d # c
      BY <1>0, <1>1, <3>2, WalkFrame DEF Connect
    <3> QED
      BY <3>1, <3>2
  <2> QED
    BY <2>1, <2>3
<1>2. CASE NotConnected(c)
  <2>1. PICK p \in {"exited", "waitConfig"} : phase' = [phase EXCEPT ![c] = p]
    BY <1>2 DEF NotConnected
  <2>2. SelfInv(d)' /\ LinkInv(d)'
    BY <1>0, <1>2, <2>1 DEF NotConnected, SelfInv, LinkInv, serverVars, netVars
  <2>3. d = c => d \notin connected
    BY <1>0, <1>2 DEF NotConnected, LinkInv
  <2>4. WalkInv(d)'
    <3>1. CASE d = c
      BY <1>2, <2>3, <3>1 DEF NotConnected, WalkInv, serverVars
    <3>2. CASE d # c
      BY <1>0, <1>2, <2>1, <3>2, WalkFrame DEF NotConnected, serverVars, netVars
    <3> QED
      BY <3>1, <3>2
  <2> QED
    BY <2>2, <2>4
<1>3. CASE ClientKilled(c)
  <2>1. SelfInv(d)' /\ LinkInv(d)'
    BY <1>0, <1>3 DEF ClientKilled, SelfInv, LinkInv, serverVars
  <2>2. WalkInv(d)'
    BY <1>0, <1>3, WalkFrame DEF ClientKilled, serverVars
  <2> QED
    BY <2>1, <2>2
<1>4. CASE DropPosition(c)
  BY <1>4 DEF DropPosition
<1> QED
  BY <1>1, <1>2, <1>3, <1>4 DEF LibraryStep

\* ID_NEW_INCOMING_CONNECTION: the new player is where its client will spawn.
LEMMA NewConnectionRakInv ==
    ASSUME reliable, TypeOK, RakInv, NEW c \in Clients, NewConnection(c), NEW d \in Clients
    PROVE  SelfInv(d)' /\ LinkInv(d)' /\ WalkInv(d)'
<1>0. SelfInv(d) /\ LinkInv(d) /\ WalkInv(d) /\ LinkInv(c)
  BY DEF RakInv
<1>1. PICK p \in SpawnCell : pos' = [pos EXCEPT ![c] = p] /\ control' = Welcome(c, p)
  BY DEF NewConnection
<1>2. /\ control'[d] \in Seq(Control)
      /\ \A i \in DOMAIN control'[d] :
            \/ i \in DOMAIN control[d] /\ control'[d][i] = control[d][i]
            \/ control'[d][i].type \in {"config", "spawn"} =>
                  d = c /\ control'[d][i].at = p
  BY <1>1, SpawnProperties, WelcomeProperties
<1>3. /\ c \in newConn /\ newConn' = newConn \ {c} /\ connected' = connected \union {c}
      /\ toSelf' = [toSelf EXCEPT ![c] = FALSE]
      /\ UNCHANGED <<queue, cursor, phase, local, link, positions, toServer>>
  BY DEF NewConnection, clientVars
<1>4. SelfInv(d)'
  BY <1>0, <1>3 DEF SelfInv, TypeOK
<1>5. LinkInv(d)'
  BY <1>0, <1>2, <1>3 DEF LinkInv
<1>6. WalkInv(d)'
  <2>1. CASE d = c
    <3>1. \A i \in cursor..Len(queue) : ~Waiting(c, i) /\ ~Waiting(c, i)'
      BY <1>0, <1>3 DEF LinkInv, Waiting, TypeOK
    <3>2. toServer'[c] = <<>> /\ phase'[c] \in {"off", "waitConfig", "exited"}
      BY <1>0, <1>3 DEF LinkInv
    <3>3. QueueWalk(c)'
      BY <1>3, <3>1 DEF QueueWalk, FirstWaiting, Following
    <3>4. WireWalk(c)'
      BY <3>2 DEF WireWalk
    <3>5. AtSpawn(c)'
      BY <1>0, <1>1, <1>2, <1>3, <2>1, <3>1, <3>2 DEF AtSpawn, LinkInv, TypeOK
    <3> QED
      BY <2>1, <3>2, <3>3, <3>4, <3>5 DEF WalkInv
  <2>2. CASE d # c
    <3>1. /\ \A i, j : /\ Waiting(d, i)' <=> Waiting(d, i)
                       /\ FirstWaiting(d, i)' <=> FirstWaiting(d, i)
                       /\ LastWaiting(d, i)' <=> LastWaiting(d, i)
                       /\ Following(d, i, j)' <=> Following(d, i, j)
          /\ pos'[d] = pos[d]
      BY <1>1, <1>3, <2>2 DEF Waiting, FirstWaiting, LastWaiting, Following, TypeOK
    <3>2. \A q : Newest(d, q)' <=> Newest(d, q)
      BY <1>3, <3>1 DEF Newest
    <3>3. /\ QueueWalk(d) => QueueWalk(d)'
          /\ WireWalk(d) => WireWalk(d)'
          /\ LocalWalk(d) => LocalWalk(d)'
      BY <1>3, <3>1, <3>2 DEF QueueWalk, WireWalk, LocalWalk
    <3>4. AtSpawn(d) => AtSpawn(d)'
      BY <1>2, <1>3, <2>2, <3>1 DEF AtSpawn
    <3> QED
      BY <1>0, <1>3, <2>2, <3>3, <3>4 DEF WalkInv
  <2> QED
    BY <2>1, <2>2
<1> QED
  BY <1>4, <1>5, <1>6

\* PLAYER_MOVE: the oldest move on the wire becomes the newest in the queue.
LEMMA ReceiveMoveRakInv ==
    ASSUME reliable, TypeOK, RakInv, NEW c \in Clients, ReceiveMove(c), NEW d \in Clients
    PROVE  SelfInv(d)' /\ LinkInv(d)' /\ WalkInv(d)'
<1>0. SelfInv(d) /\ LinkInv(d) /\ WalkInv(d) /\ LinkInv(c)
  BY DEF RakInv
<1> DEFINE m == [id |-> c, at |-> toServer[c][1]]
<1>1. /\ queue' = Append(queue, m)
      /\ toServer' = [toServer EXCEPT ![c] = RemoveAt(@, 1)]
      /\ toServer[c] # <<>> /\ toServer[c][1] \in Cell
      /\ RemoveAt(toServer[c], 1) \in Seq(Cell)
      /\ Len(RemoveAt(toServer[c], 1)) = Len(toServer[c]) - 1
      /\ \A j \in 1..(Len(toServer[c]) - 1) : RemoveAt(toServer[c], 1)[j] = toServer[c][j + 1]
  <2>1. toServer[c] \in Seq(Cell)
    BY DEF TypeOK
  <2>2. PICK i \in Deliverable(toServer[c]) :
           /\ queue' = Append(queue, [id |-> c, at |-> toServer[c][i]])
           /\ toServer' = [toServer EXCEPT ![c] = RemoveAt(@, i)]
    BY DEF ReceiveMove
  <2>3. i = 1
    BY <2>1, <2>2, InOrder
  <2> QED
    BY <2>1, <2>2, <2>3, InOrder
<1>2. /\ UNCHANGED <<newConn, connected, pos, toSelf, cursor, phase, local, link,
                     control, positions>>
      /\ link[c] = "up" /\ c \notin newConn
  BY DEF ReceiveMove, clientVars
<1>3. c \in connected
  BY <1>0, <1>2 DEF LinkInv
<1>4. PICK n \in Nat : n = Len(queue)
  BY DEF TypeOK
<1>5. /\ Len(queue) = n /\ Len(queue') = n + 1 /\ queue'[n + 1] = m /\ n \in Nat
      /\ \A i \in 1..n : queue'[i] = queue[i]
      /\ cursor \in 1..(n + 1) /\ cursor \in Nat
      /\ m.id = c /\ m.at = toServer[c][1]
  BY <1>1, <1>4 DEF TypeOK
<1>6. \A i \in 1..n : queue[i].at \in Cell
  <2>1. \A i \in 1..n : queue[i] \in Move
    BY <1>5 DEF TypeOK
  <2> QED
    BY <2>1 DEF Move
<1> HIDE DEF m
<1>7. SelfInv(d)'
  BY <1>0, <1>2 DEF SelfInv
<1>8. LinkInv(d)'
  <2>1. d \notin connected => toServer'[d] = <<>>
    BY <1>0, <1>1, <1>3 DEF LinkInv, TypeOK
  <2>2. link[d] = "none" \/ d \in newConn => d # c
    BY <1>2
  <2>3. \A i \in DOMAIN queue' : queue'[i].id = d /\ d # c =>
           i \in DOMAIN queue /\ queue[i].id = d
    BY <1>1, <1>5 DEF TypeOK
  <2> QED
    BY <1>0, <1>2, <2>1, <2>2, <2>3 DEF LinkInv
<1>9. WalkInv(d)'
  <2>1. CASE d # c
    <3>1. \A i : Waiting(d, i)' <=> Waiting(d, i)
      BY <1>2, <1>5, <2>1 DEF Waiting
    <3>2. \A i \in cursor..(n + 1) : Waiting(d, i) => i <= n /\ queue'[i] = queue[i]
      BY <1>5 DEF Waiting
    <3>3. \A i, j : /\ FirstWaiting(d, i)' <=> FirstWaiting(d, i)
                    /\ LastWaiting(d, i)' <=> LastWaiting(d, i)
                    /\ Following(d, i, j)' <=> Following(d, i, j)
      BY <1>2, <1>5, <3>1, <3>2 DEF FirstWaiting, LastWaiting, Following
    <3>4. \A q : Newest(d, q)' <=> Newest(d, q)
      BY <1>2, <1>5, <3>1, <3>2, <3>3 DEF Newest, LastWaiting
    <3>5. toServer'[d] = toServer[d]
      BY <1>1, <2>1 DEF TypeOK
    <3>6. /\ QueueWalk(d) => QueueWalk(d)'
          /\ WireWalk(d) => WireWalk(d)'
          /\ LocalWalk(d) => LocalWalk(d)'
          /\ AtSpawn(d) => AtSpawn(d)'
      <4>1. QueueWalk(d) => QueueWalk(d)'
        <5>1. \A i \in cursor..(n + 1) : FirstWaiting(d, i) \/ LastWaiting(d, i) => i \in cursor..n
          BY <1>5, <3>2 DEF FirstWaiting, LastWaiting
        <5>2. \A i, j \in cursor..(n + 1) : Following(d, i, j) => i \in cursor..n /\ j \in cursor..n
          BY <1>5, <3>2 DEF Following
        <5> QED
          BY <1>2, <1>5, <3>3, <5>1, <5>2 DEF QueueWalk
      <4>2. /\ WireWalk(d) => WireWalk(d)'
            /\ LocalWalk(d) => LocalWalk(d)'
        BY <1>2, <3>4, <3>5 DEF WireWalk, LocalWalk
      <4>3. AtSpawn(d) => AtSpawn(d)'
        BY <1>2, <1>5, <3>1, <3>2, <3>5 DEF AtSpawn
      <4> QED
        BY <4>1, <4>2, <4>3
    <3> QED
      BY <1>0, <1>2, <3>6 DEF WalkInv
  <2>2. CASE d = c
    <3>1. QueueWalk(c) /\ WireWalk(c)
      BY <1>0, <1>3, <2>2 DEF WalkInv
    <3>2. phase[c] \notin {"waitConfig", "waitSpawn"}
      BY <1>0, <1>1, <1>3, <2>2 DEF WalkInv, AtSpawn
    <3>3. /\ Waiting(c, n + 1)'
          /\ \A i \in cursor..n : Waiting(c, i)' <=> Waiting(c, i)
      BY <1>2, <1>5 DEF Waiting
    <3>4. QueueWalk(c)'
      <4>1. ASSUME NEW i \in cursor..(n + 1), FirstWaiting(c, i)'
            PROVE  Near(pos[c], queue'[i].at)
        <5>1. CASE i <= n
          <6>1. FirstWaiting(c, i)
            BY <1>2, <1>5, <3>3, <4>1, <5>1 DEF FirstWaiting
          <6> QED
            BY <1>5, <3>1, <5>1, <6>1 DEF QueueWalk
        <5>2. CASE i = n + 1
          <6>1. \A j \in cursor..n : ~Waiting(c, j)
            BY <1>2, <1>5, <3>3, <4>1, <5>2 DEF FirstWaiting
          <6>2. Newest(c, pos[c])
            BY <1>5, <6>1 DEF Newest
          <6> QED
            BY <1>1, <1>5, <3>1, <5>2, <6>2 DEF WireWalk, TypeOK
        <5> QED
          BY <1>5, <5>1, <5>2
      <4>2. ASSUME NEW i \in cursor..(n + 1), NEW j \in cursor..(n + 1), Following(c, i, j)'
            PROVE  Near(queue'[i].at, queue'[j].at)
        <5>1. i < j /\ i <= n /\ Waiting(c, i)
          BY <1>5, <3>3, <4>2 DEF Following
        <5>2. CASE j <= n
          <6>1. Following(c, i, j)
            BY <1>2, <1>5, <3>3, <4>2, <5>2 DEF Following
          <6> QED
            BY <1>5, <3>1, <5>1, <5>2, <6>1 DEF QueueWalk
        <5>3. CASE j = n + 1
          <6>1. LastWaiting(c, i)
            BY <1>2, <1>5, <3>3, <4>2, <5>1, <5>3 DEF Following, LastWaiting
          <6>2. Newest(c, queue[i].at) /\ queue[i].at \in Cell
            BY <1>5, <1>6, <5>1, <6>1 DEF Newest, Waiting
          <6> QED
            BY <1>1, <1>5, <3>1, <5>1, <5>3, <6>2 DEF WireWalk
        <5> QED
          BY <1>5, <5>2, <5>3
      <4> QED
        BY <1>2, <1>5, <4>1, <4>2 DEF QueueWalk
    <3>5. \A q : Newest(c, q)' => q = toServer[c][1]
      <4> SUFFICES ASSUME NEW q, Newest(c, q)' PROVE q = toServer[c][1]
        OBVIOUS
      <4>1. PICK i \in cursor..(n + 1) : LastWaiting(c, i)' /\ q = queue'[i].at
        BY <1>2, <1>5, <3>3 DEF Newest
      <4>2. i = n + 1
        BY <1>2, <1>5, <3>3, <4>1 DEF LastWaiting
      <4> QED
        BY <1>5, <4>1, <4>2
    <3>6. WireWalk(c)' /\ (LocalWalk(c) => LocalWalk(c)')
      <4>1. toServer'[c] = RemoveAt(toServer[c], 1) /\ toServer[c] \in Seq(Cell)
        BY <1>1 DEF TypeOK
      <4>2. toServer'[c] \in Seq(Cell) /\ Len(toServer'[c]) = Len(toServer[c]) - 1
        BY <1>1, <4>1
      <4>3. \A j \in 1..Len(toServer'[c]) : toServer'[c][j] = toServer[c][j + 1]
        BY <1>1, <4>1, <4>2
      <4>4. WireWalk(c)'
        BY <3>1, <3>5, <4>1, <4>2, <4>3 DEF WireWalk
      <4>5. LocalWalk(c) => LocalWalk(c)'
        BY <1>1, <1>2, <3>5, <4>1, <4>2, <4>3 DEF LocalWalk
      <4> QED
        BY <4>4, <4>5
    <3> QED
      BY <1>0, <1>2, <2>2, <3>2, <3>4, <3>6 DEF WalkInv
  <2> QED
    BY <2>1, <2>2
<1> QED
  BY <1>7, <1>8, <1>9

LEMMA ServerRakInv ==
    ASSUME reliable, TypeOK, RakInv, NEW c \in Clients, ServerStep(c), NEW d \in Clients
    PROVE  SelfInv(d)' /\ LinkInv(d)' /\ WalkInv(d)'
<1>0. SelfInv(d) /\ LinkInv(d) /\ WalkInv(d)
  BY DEF RakInv
<1>1. CASE NewConnection(c)
  BY <1>1, NewConnectionRakInv
<1>2. CASE NoRoomToSpawn(c)
  <2>1. SelfInv(d)' /\ LinkInv(d)'
    BY <1>0, <1>2 DEF NoRoomToSpawn, SelfInv, LinkInv, clientVars, netVars
  <2>2. WalkInv(d)'
    BY <1>0, <1>2, WalkFrame DEF NoRoomToSpawn, clientVars, netVars
  <2> QED
    BY <2>1, <2>2
<1>3. CASE ConnectionLost(c)
  <2>1. SelfInv(d)' /\ LinkInv(d)'
    BY <1>0, <1>3 DEF ConnectionLost, SelfInv, LinkInv, clientVars, TypeOK
  <2>2. WalkInv(d)'
    <3>1. CASE d = c
      BY <1>3, <3>1 DEF ConnectionLost, WalkInv
    <3>2. CASE d # c
      BY <1>0, <1>3, <3>2, WalkFrame DEF ConnectionLost, clientVars, TypeOK
    <3> QED
      BY <3>1, <3>2
  <2> QED
    BY <2>1, <2>2
<1>4. CASE ReceiveMove(c)
  BY <1>4, ReceiveMoveRakInv
<1> QED
  BY <1>1, <1>2, <1>3, <1>4 DEF ServerStep

\* UpdatePlayerPositions: the next move of the queue is one space away from
\* where the server has its player.
LEMMA UpdateRakInv ==
    ASSUME reliable, TypeOK, RakInv, UpdatePlayerPosition, NEW d \in Clients
    PROVE  SelfInv(d)' /\ LinkInv(d)' /\ WalkInv(d)'
<1> DEFINE m == queue[cursor]
<1>0. SelfInv(d) /\ LinkInv(d) /\ WalkInv(d)
  BY DEF RakInv
<1>1. /\ UNCHANGED <<newConn, connected, queue, phase, local, link, control,
                     positions, toServer>>
      /\ cursor \in 1..Len(queue)
  <2>1. cursor \in 1..(Len(queue) + 1) /\ Len(queue) \in Nat
    BY DEF TypeOK
  <2> QED
    BY <2>1 DEF UpdatePlayerPosition, clientVars, netVars
<1>2. m.id \in Clients /\ m.at \in Cell
  <2>1. m \in Move
    BY <1>1 DEF TypeOK
  <2> QED
    BY <2>1 DEF Move
<1>3. CASE m.id \notin connected
  <2>1. UNCHANGED <<pos, toSelf, cursor>>
    BY <1>3 DEF UpdatePlayerPosition
  <2>2. SelfInv(d)' /\ LinkInv(d)'
    BY <1>0, <1>1, <2>1 DEF SelfInv, LinkInv
  <2>3. WalkInv(d)'
    BY <1>0, <1>1, <2>1, WalkFrame
  <2> QED
    BY <2>2, <2>3
<1>4. CASE m.id \in connected
  <2>1. FirstWaiting(m.id, cursor)
    BY <1>1 DEF FirstWaiting, Waiting, TypeOK
  <2>2. Near(pos[m.id], m.at)
    BY <1>1, <1>2, <1>4, <2>1 DEF RakInv, WalkInv, QueueWalk, TypeOK
  <2>3. /\ cursor' = cursor + 1
        /\ pos' = [pos EXCEPT ![m.id] = m.at] /\ toSelf' = toSelf
    BY <1>4, <2>2 DEF UpdatePlayerPosition
  <2>4. SelfInv(d)' /\ LinkInv(d)'
    BY <1>0, <1>1, <2>3 DEF SelfInv, LinkInv
  <2>5. \A i : Waiting(d, i)' <=> Waiting(d, i) /\ i # cursor
    BY <1>1, <2>3 DEF Waiting, TypeOK
  <2>6. /\ cursor' \in Nat /\ Len(queue') = Len(queue) /\ Len(queue) \in Nat
        /\ cursor \in Nat
    BY <1>1, <2>3 DEF TypeOK
  <2>7. CASE d # m.id
    <3>1. ~Waiting(d, cursor) /\ pos'[d] = pos[d]
      BY <2>3, <2>7 DEF Waiting, TypeOK
    <3>2. \A i, j : /\ FirstWaiting(d, i)' <=> FirstWaiting(d, i)
                    /\ LastWaiting(d, i)' <=> LastWaiting(d, i)
                    /\ Following(d, i, j)' <=> Following(d, i, j)
      BY <1>1, <2>3, <2>5, <2>6, <3>1 DEF FirstWaiting, LastWaiting, Following, Waiting
    <3>3. \A q : Newest(d, q)' <=> Newest(d, q)
      BY <1>1, <2>3, <2>5, <2>6, <3>1, <3>2 DEF Newest, LastWaiting, Waiting
    <3>4. QueueWalk(d) => QueueWalk(d)'
      BY <1>1, <2>3, <2>6, <3>1, <3>2 DEF QueueWalk
    <3>5. /\ WireWalk(d) => WireWalk(d)'
          /\ LocalWalk(d) => LocalWalk(d)'
      BY <1>1, <3>3 DEF WireWalk, LocalWalk
    <3>6. AtSpawn(d) => AtSpawn(d)'
      BY <1>1, <2>3, <2>5, <2>6, <3>1 DEF AtSpawn
    <3> QED
      BY <1>0, <1>1, <2>4, <3>4, <3>5, <3>6 DEF WalkInv
  <2>8. CASE d = m.id
    <3>1. QueueWalk(d) /\ WireWalk(d) /\ pos'[d] = m.at
      BY <1>0, <1>2, <1>4, <2>3, <2>8 DEF WalkInv, TypeOK
    <3>2. Waiting(d, cursor)
      BY <2>1, <2>8 DEF FirstWaiting
    <3>3. phase[d] \notin {"waitConfig", "waitSpawn"}
      BY <1>0, <1>1, <1>4, <2>6, <2>8, <3>2 DEF WalkInv, AtSpawn
    <3>4. QueueWalk(d)'
      <4>1. ASSUME NEW i \in (cursor + 1)..Len(queue), FirstWaiting(d, i)'
            PROVE  Near(m.at, queue[i].at)
        <5>1. Following(d, cursor, i)
          BY <1>1, <2>3, <2>5, <2>6, <3>2, <4>1 DEF FirstWaiting, Following, Waiting
        <5> QED
          BY <1>1, <2>6, <3>1, <5>1 DEF QueueWalk
      <4>2. ASSUME NEW i \in (cursor + 1)..Len(queue), NEW j \in (cursor + 1)..Len(queue),
                   Following(d, i, j)'
            PROVE  Near(queue[i].at, queue[j].at)
        <5>1. Following(d, i, j)
          BY <1>1, <2>3, <2>5, <2>6, <4>2 DEF Following
        <5> QED
          BY <2>6, <3>1, <5>1 DEF QueueWalk
      <4> QED
        BY <1>1, <2>3, <3>1, <4>1, <4>2 DEF QueueWalk
    <3>5. \A q : Newest(d, q)' => Newest(d, q)
      <4> SUFFICES ASSUME NEW q, Newest(d, q)' PROVE Newest(d, q)
        OBVIOUS
      <4>1. CASE q = pos'[d] /\ \A i \in (cursor + 1)..Len(queue) : ~Waiting(d, i)'
        <5>1. LastWaiting(d, cursor)
          BY <2>5, <2>6, <3>2, <4>1 DEF LastWaiting
        <5> QED
          BY <1>1, <3>1, <4>1, <5>1 DEF Newest
      <4>2. CASE \E i \in (cursor + 1)..Len(queue) : LastWaiting(d, i)' /\ q = queue[i].at
        <5>1. PICK i \in (cursor + 1)..Len(queue) : LastWaiting(d, i)' /\ q = queue[i].at
          BY <4>2
        <5>2. LastWaiting(d, i)
          BY <1>1, <2>3, <2>5, <2>6, <5>1 DEF LastWaiting
        <5> QED
          BY <2>6, <5>1, <5>2 DEF Newest
      <4> QED
        BY <1>1, <2>3, <4>1, <4>2 DEF Newest
    <3>6. WireWalk(d)' /\ (LocalWalk(d) => LocalWalk(d)')
      BY <1>1, <3>1, <3>5 DEF WireWalk, LocalWalk
    <3> QED
      BY <1>0, <1>1, <2>4, <3>3, <3>4, <3>6 DEF WalkInv
  <2> QED
    BY <2>7, <2>8
<1> QED
  BY <1>3, <1>4

\* The end of a tick: nobody hears of itself.
LEMMA EndTickRakInv ==
    ASSUME reliable, TypeOK, RakInv, EndTick, NEW d \in Clients
    PROVE  SelfInv(d)' /\ LinkInv(d)' /\ WalkInv(d)'
<1>0. SelfInv(d) /\ LinkInv(d) /\ WalkInv(d)
  BY DEF RakInv
<1>1. PICK order \in SetToSeqs(connected) :
         positions' = [c \in Clients |->
             IF c \in Addressees THEN positions[c] \o Broadcast(c, order)
                                 ELSE positions[c]]
  BY DEF EndTick
<1>2. /\ UNCHANGED <<newConn, connected, pos, phase, local, link, control, toServer>>
      /\ queue' = <<>> /\ cursor' = 1 /\ cursor > Len(queue)
      /\ toSelf' = [c \in Clients |-> FALSE]
      /\ cursor \in Nat /\ Len(queue) \in Nat
  BY DEF EndTick, clientVars, TypeOK
<1>3. SelfInv(d)'
  <2>1. /\ Broadcast(d, order) \in Seq(Move) /\ positions[d] \in Seq(Move)
        /\ \A i \in DOMAIN Broadcast(d, order) : Broadcast(d, order)[i].id # d
    BY <1>0, BroadcastProperties DEF SelfInv, TypeOK
  <2>2. \A i \in DOMAIN (positions[d] \o Broadcast(d, order)) :
           (positions[d] \o Broadcast(d, order))[i].id # d
    <3> DEFINE s == positions[d] \o Broadcast(d, order)
    <3> SUFFICES ASSUME NEW i \in DOMAIN s PROVE s[i].id # d
      OBVIOUS
    <3>1. CASE i <= Len(positions[d])
      BY <1>0, <2>1, <3>1 DEF SelfInv
    <3>2. CASE i > Len(positions[d])
      <4>1. /\ i - Len(positions[d]) \in DOMAIN Broadcast(d, order)
            /\ s[i] = Broadcast(d, order)[i - Len(positions[d])]
        BY <2>1, <3>2
      <4> QED
        BY <2>1, <4>1
    <3> QED
      BY <2>1, <3>1, <3>2
  <2> QED
    BY <1>0, <1>1, <1>2, <2>2 DEF SelfInv
<1>4. LinkInv(d)'
  BY <1>0, <1>2 DEF LinkInv
<1>5. WalkInv(d)'
  <2>1. \A i : ~Waiting(d, i) /\ ~Waiting(d, i)'
    BY <1>2 DEF Waiting
  <2>2. \A q : Newest(d, q)' <=> Newest(d, q)
    BY <1>2, <2>1 DEF Newest, LastWaiting
  <2>3. QueueWalk(d)'
    BY <2>1 DEF QueueWalk, FirstWaiting, Following
  <2>4. /\ WireWalk(d) => WireWalk(d)'
        /\ LocalWalk(d) => LocalWalk(d)'
        /\ AtSpawn(d) => AtSpawn(d)'
    BY <1>2, <2>1, <2>2 DEF WireWalk, LocalWalk, AtSpawn
  <2> QED
    BY <1>0, <1>2, <2>3, <2>4 DEF WalkInv
<1> QED
  BY <1>3, <1>4, <1>5

\* Channel 0: a client that starts to play stands where the server has it.
LEMMA ReceiveControlRakInv ==
    ASSUME reliable, TypeOK, RakInv, NEW c \in Clients, ReceiveControl(c), NEW d \in Clients
    PROVE  SelfInv(d)' /\ LinkInv(d)' /\ WalkInv(d)'
<1>0. SelfInv(d) /\ LinkInv(d) /\ WalkInv(d) /\ LinkInv(c) /\ WalkInv(c)
  BY DEF RakInv
<1>1. PICK i \in Deliverable(control[c]) :
         /\ HandleControl(c, control[c][i])
         /\ control' = [control EXCEPT ![c] = RemoveAt(@, i)]
  BY DEF ReceiveControl
<1> DEFINE m == control[c][1]
<1>2. /\ control[c] # <<>> /\ m \in Control /\ i = 1
      /\ control'[c] = RemoveAt(control[c], 1)
      /\ Len(control'[c]) = Len(control[c]) - 1 /\ control'[c] \in Seq(Control)
      /\ \A j \in 1..(Len(control[c]) - 1) : control'[c][j] = control[c][j + 1]
  <2>1. control[c] \in Seq(Control)
    BY DEF TypeOK
  <2>2. /\ i = 1 /\ control[c] # <<>> /\ control[c][1] \in Control
        /\ RemoveAt(control[c], i) \in Seq(Control)
        /\ Len(RemoveAt(control[c], i)) = Len(control[c]) - 1
        /\ \A j \in 1..(Len(control[c]) - 1) :
              RemoveAt(control[c], i)[j] = control[c][j + 1]
    BY <2>1, InOrder
  <2>3. control'[c] = RemoveAt(control[c], i)
    BY <1>1 DEF TypeOK
  <2> QED
    BY <2>2, <2>3
<1>3. \A e \in Clients : \A j \in DOMAIN control'[e] :
         \E k \in DOMAIN control[e] : control'[e][j] = control[e][k]
  <2> SUFFICES ASSUME NEW e \in Clients, NEW j \in DOMAIN control'[e]
               PROVE  \E k \in DOMAIN control[e] : control'[e][j] = control[e][k]
    OBVIOUS
  <2>1. CASE e = c
    <3>1. control[c] \in Seq(Control)
      BY DEF TypeOK
    <3>2. Len(control[c]) \in Nat /\ j \in 1..(Len(control[c]) - 1)
      BY <1>2, <2>1, <3>1
    <3>3. control'[c][j] = control[c][j + 1]
      BY <1>2, <3>2
    <3>4. j + 1 \in DOMAIN control[c]
      BY <3>1, <3>2
    <3> QED
      BY <2>1, <3>3, <3>4
  <2>2. CASE e # c
    BY <1>1, <2>2 DEF TypeOK
  <2> QED
    BY <2>1, <2>2
<1>4. UNCHANGED <<newConn, connected, pos, toSelf, queue, cursor, link, positions, toServer>>
  BY DEF ReceiveControl, serverVars
<1>5. HandleControl(c, m)
  BY <1>1, <1>2
<1>6. SelfInv(d)'
  BY <1>0, <1>4 DEF SelfInv
<1>7. ASSUME link[c] = "none" \/ c \in newConn
      PROVE  m.type \notin {"config", "spawn"}
  <2>1. 1 \in DOMAIN control[c]
    BY <1>2 DEF TypeOK
  <2> QED
    BY <1>0, <1>7, <2>1 DEF LinkInv
<1>8. /\ phase' \in [Clients -> {"off", "waitConfig", "waitSpawn", "playing",
                                 "spinning", "exited"}]
      /\ \A e \in Clients \ {c} : phase'[e] = phase[e] /\ local'[e] = local[e]
      /\ \/ phase'[c] = phase[c] /\ local'[c] = local[c]
         \/ m.type = "config" /\ phase[c] = "waitConfig" /\ phase'[c] = "waitSpawn"
         \/ /\ m.type = "spawn" /\ phase[c] = "waitSpawn" /\ phase'[c] = "playing"
            /\ local'[c] = m.at
  <2>1. /\ phase \in [Clients -> {"off", "waitConfig", "waitSpawn", "playing",
                                  "spinning", "exited"}]
        /\ local \in [Clients -> Cell]
    BY DEF TypeOK
  <2>2. \/ /\ phase[c] = "waitConfig" /\ m.type = "config"
           /\ phase' = [phase EXCEPT ![c] = "waitSpawn"] /\ UNCHANGED local
        \/ /\ phase[c] = "waitSpawn" /\ m.type = "spawn"
           /\ phase' = [phase EXCEPT ![c] = "playing"]
           /\ local' = [local EXCEPT ![c] = m.at]
        \/ UNCHANGED <<phase, local>>
    BY <1>5 DEF HandleControl
  <2> HIDE DEF m
  <2> QED
    BY <2>1, <2>2
<1>9. LinkInv(d)'
  <2>1. \A j \in DOMAIN control'[d] :
           d \in newConn \/ link[d] = "none" => control'[d][j].type \notin {"config", "spawn"}
    BY <1>0, <1>3 DEF LinkInv
  <2>2. /\ phase'[d] = "off" => link[d] = "none"
        /\ d \in newConn \/ link[d] = "none" => phase'[d] \in {"off", "waitConfig", "exited"}
    BY <1>0, <1>7, <1>8 DEF LinkInv
  <2> QED
    BY <1>0, <1>4, <2>1, <2>2 DEF LinkInv
<1>10. WalkInv(d)'
  <2>1. CASE d # c \/ phase'[c] # "playing" \/ phase'[c] = phase[c]
    BY <1>0, <1>3, <1>4, <1>8, <2>1, WalkFrame
  <2>2. CASE d = c /\ phase'[c] = "playing" /\ phase'[c] # phase[c] /\ c \in connected
    <3>1. m.type = "spawn" /\ phase[c] = "waitSpawn" /\ local'[c] = m.at
      BY <1>8, <2>2
    <3>2. AtSpawn(c) /\ QueueWalk(c) /\ WireWalk(c)
      BY <1>0, <2>2, <3>1 DEF WalkInv
    <3>3. m.at = pos[c]
      <4>1. 1 \in DOMAIN control[c]
        BY <1>2 DEF TypeOK
      <4> QED
        BY <3>1, <3>2, <4>1 DEF AtSpawn
    <3>4. \A j, k : /\ Waiting(c, j)' <=> Waiting(c, j)
                    /\ FirstWaiting(c, j)' <=> FirstWaiting(c, j)
                    /\ LastWaiting(c, j)' <=> LastWaiting(c, j)
                    /\ Following(c, j, k)' <=> Following(c, j, k)
      BY <1>4 DEF Waiting, FirstWaiting, LastWaiting, Following
    <3>5. \A q : Newest(c, q)' => q = pos[c]
      BY <1>4, <3>2, <3>4 DEF Newest, AtSpawn, LastWaiting
    <3>6. LocalWalk(c)'
      BY <1>4, <3>1, <3>2, <3>3, <3>5 DEF LocalWalk, AtSpawn
    <3>7. QueueWalk(c)' /\ WireWalk(c)'
      <4>1. QueueWalk(c)'
        BY <1>4, <3>2, <3>4 DEF QueueWalk
      <4>2. WireWalk(c)'
        BY <1>4, <3>2 DEF WireWalk, AtSpawn
      <4> QED
        BY <4>1, <4>2
    <3> QED
      BY <2>2, <3>6, <3>7 DEF WalkInv
  <2>3. CASE d = c /\ c \notin connected
    BY <1>4, <2>3 DEF WalkInv
  <2> QED
    BY <2>1, <2>2, <2>3
<1> QED
  BY <1>6, <1>9, <1>10

\* Channel 2: the position is another player's.
LEMMA ReceivePositionRakInv ==
    ASSUME reliable, TypeOK, RakInv, NEW c \in Clients, ReceivePosition(c), NEW d \in Clients
    PROVE  SelfInv(d)' /\ LinkInv(d)' /\ WalkInv(d)'
<1>0. SelfInv(d) /\ LinkInv(d) /\ WalkInv(d) /\ SelfInv(c)
  BY DEF RakInv
<1>1. PICK i \in Deliverable(positions[c]) :
         /\ IF phase[c] = "playing"
            THEN HandlePosition(c, positions[c][i])
            ELSE UNCHANGED <<local, known, seen, phantom>>
         /\ positions' = [positions EXCEPT ![c] = RemoveAt(@, i)]
  BY DEF ReceivePosition
<1>2. positions[c] \in Seq(Move)
  BY DEF TypeOK
<1>3. /\ positions[c] # <<>> /\ i = 1 /\ positions'[c] = RemoveAt(positions[c], 1)
      /\ Len(positions'[c]) = Len(positions[c]) - 1 /\ positions'[c] \in Seq(Move)
      /\ \A j \in 1..(Len(positions[c]) - 1) : positions'[c][j] = positions[c][j + 1]
  <2>1. /\ i = 1 /\ positions[c] # <<>> /\ RemoveAt(positions[c], i) \in Seq(Move)
        /\ Len(RemoveAt(positions[c], i)) = Len(positions[c]) - 1
        /\ \A j \in 1..(Len(positions[c]) - 1) :
              RemoveAt(positions[c], i)[j] = positions[c][j + 1]
    BY <1>2, InOrder
  <2>2. positions'[c] = RemoveAt(positions[c], i)
    BY <1>1 DEF TypeOK
  <2> QED
    BY <2>1, <2>2
<1>4. positions[c][1].id # c
  BY <1>0, <1>2, <1>3 DEF SelfInv
<1>5. local' = local
  BY <1>1, <1>3, <1>4 DEF HandlePosition
<1>6. UNCHANGED <<newConn, connected, pos, toSelf, queue, cursor, phase, link, control, toServer>>
  BY DEF ReceivePosition, serverVars
<1>7. SelfInv(d)'
  <2>1. CASE d = c
    <3>1. \A j \in DOMAIN positions'[c] :
             j + 1 \in DOMAIN positions[c] /\ positions'[c][j] = positions[c][j + 1]
      BY <1>2, <1>3
    <3> QED
      BY <1>0, <1>6, <2>1, <3>1 DEF SelfInv
  <2>2. CASE d # c
    BY <1>0, <1>1, <1>6, <2>2 DEF SelfInv, TypeOK
  <2> QED
    BY <2>1, <2>2
<1>8. LinkInv(d)' /\ WalkInv(d)'
  <2>1. LinkInv(d)'
    BY <1>0, <1>6 DEF LinkInv
  <2>2. WalkInv(d)'
    BY <1>0, <1>5, <1>6, WalkFrame
  <2> QED
    BY <2>1, <2>2
<1> QED
  BY <1>7, <1>8

\* PerformLocalMove: the walk grows by one cell at the client's end.
LEMMA LocalMoveRakInv ==
    ASSUME reliable, TypeOK, RakInv, NEW c \in Clients, LocalMove(c), NEW d \in Clients
    PROVE  SelfInv(d)' /\ LinkInv(d)' /\ WalkInv(d)'
<1>0. SelfInv(d) /\ LinkInv(d) /\ WalkInv(d) /\ LinkInv(c) /\ WalkInv(c)
  BY DEF RakInv
<1>1. PICK p \in PossibleMoves(local[c]) :
         /\ local' = [local EXCEPT ![c] = p]
         /\ toServer' = [toServer EXCEPT ![c] =
                            IF link[c] = "up" THEN Append(@, p) ELSE @]
  BY DEF LocalMove
<1>2. p \in Cell /\ Near(local[c], p) /\ toServer[c] \in Seq(Cell)
  BY MoveProperties DEF TypeOK
<1>3. /\ UNCHANGED <<newConn, connected, pos, toSelf, queue, cursor, phase, link,
                     control, positions>>
      /\ phase[c] = "playing"
  BY DEF LocalMove, serverVars
<1>4. link[c] = "up" <=> c \in connected
  BY <1>0, <1>3 DEF LinkInv
<1>5. SelfInv(d)'
  BY <1>0, <1>3 DEF SelfInv
<1>6. LinkInv(d)'
  BY <1>0, <1>1, <1>3, <1>4 DEF LinkInv, TypeOK
<1>7. WalkInv(d)'
  <2>1. CASE d # c
    <3>1. toServer'[d] = toServer[d] /\ local'[d] = local[d]
      BY <1>1, <2>1 DEF TypeOK
    <3> QED
      BY <1>0, <1>3, <3>1, WalkFrame
  <2>2. CASE d = c /\ c \in connected
    <3>1. QueueWalk(c) /\ WireWalk(c) /\ LocalWalk(c)
      BY <1>0, <1>3, <2>2 DEF WalkInv
    <3>2. toServer'[c] = Append(toServer[c], p) /\ local'[c] = p
      BY <1>1, <1>4, <2>2 DEF TypeOK
    <3>3. \A i, j : /\ Waiting(c, i)' <=> Waiting(c, i)
                    /\ FirstWaiting(c, i)' <=> FirstWaiting(c, i)
                    /\ LastWaiting(c, i)' <=> LastWaiting(c, i)
                    /\ Following(c, i, j)' <=> Following(c, i, j)
      BY <1>3 DEF Waiting, FirstWaiting, LastWaiting, Following
    <3>4. \A q : Newest(c, q)' <=> Newest(c, q)
      BY <1>3, <3>3 DEF Newest
    <3>5. QueueWalk(c)'
      BY <1>3, <3>1, <3>3 DEF QueueWalk
    <3>6. LocalWalk(c)'
      BY <1>2, <3>2 DEF LocalWalk
    <3>7. WireWalk(c)'
      <4>1. CASE toServer[c] = <<>>
        <5>1. toServer'[c] = <<p>>
          BY <1>2, <3>2, <4>1
        <5>2. \A q \in Cell : Newest(c, q) => q = local[c]
          BY <3>1, <4>1 DEF LocalWalk
        <5> QED
          BY <1>2, <3>4, <5>1, <5>2 DEF WireWalk
      <4>2. CASE toServer[c] # <<>>
        <5>1. /\ Len(toServer'[c]) = Len(toServer[c]) + 1 /\ Len(toServer[c]) \in Nat \ {0}
              /\ toServer'[c][Len(toServer[c]) + 1] = p
              /\ \A i \in 1..Len(toServer[c]) : toServer'[c][i] = toServer[c][i]
          BY <1>2, <3>2, <4>2
        <5>2. Near(toServer[c][Len(toServer[c])], p)
          BY <1>2, <3>1, <4>2 DEF LocalWalk
        <5>3. \A i \in 1..Len(toServer[c]) : Near(toServer'[c][i], toServer'[c][i + 1])
          BY <3>1, <5>1, <5>2 DEF WireWalk
        <5>4. \A q \in Cell : Newest(c, q)' => Near(q, toServer'[c][1])
          BY <3>1, <3>4, <4>2, <5>1 DEF WireWalk
        <5> QED
          BY <5>1, <5>3, <5>4 DEF WireWalk
      <4> QED
        BY <4>1, <4>2
    <3> QED
      BY <1>3, <2>2, <3>5, <3>6, <3>7 DEF WalkInv
  <2>3. CASE d = c /\ c \notin connected
    BY <1>3, <2>3 DEF WalkInv
  <2> QED
    BY <2>1, <2>2, <2>3
<1> QED
  BY <1>5, <1>6, <1>7

LEMMA ClientRakInv ==
    ASSUME reliable, TypeOK, RakInv, NEW c \in Clients, ClientStep(c), NEW d \in Clients
    PROVE  SelfInv(d)' /\ LinkInv(d)' /\ WalkInv(d)'
<1>0. SelfInv(d) /\ LinkInv(d) /\ WalkInv(d)
  BY DEF RakInv
<1>1. CASE NoRoomToMove(c)
  <2>1. SelfInv(d)'
    BY <1>0, <1>1 DEF NoRoomToMove, SelfInv, serverVars, TypeOK
  <2>2. LinkInv(d)'
    BY <1>0, <1>1 DEF NoRoomToMove, LinkInv, serverVars, TypeOK
  <2>3. WalkInv(d)'
    <3>1. CASE d = c
      <4>1. /\ phase[c] = "playing" /\ phase'[c] = "spinning" /\ control'[c] = <<>>
            /\ UNCHANGED <<connected, pos, queue, cursor, local, toServer>>
        BY <1>1 DEF NoRoomToMove, serverVars, TypeOK
      <4> QED
        BY <1>0, <3>1, <4>1, WalkFrame
    <3>2. CASE d # c
      <4>1. /\ phase'[d] = phase[d] /\ control'[d] = control[d]
            /\ UNCHANGED <<connected, pos, queue, cursor, local, toServer>>
        BY <1>1, <3>2 DEF NoRoomToMove, serverVars, TypeOK
      <4> QED
        BY <1>0, <4>1, WalkFrame
    <3> QED
      BY <3>1, <3>2
  <2> QED
    BY <2>1, <2>2, <2>3
<1> QED
  BY <1>1, ReceiveControlRakInv, ReceivePositionRakInv, LocalMoveRakInv DEF ClientStep

LEMMA RakInvStep == reliable /\ TypeOK /\ RakInv /\ [Next]_vars => RakInv'
<1> SUFFICES ASSUME reliable, TypeOK, RakInv, [Next]_vars, NEW d \in Clients
             PROVE  SelfInv(d)' /\ LinkInv(d)' /\ WalkInv(d)'
  BY DEF RakInv
<1>1. CASE Next
  BY <1>1, UpdateRakInv, EndTickRakInv, LibraryRakInv, ServerRakInv, ClientRakInv DEF Next
<1>2. CASE UNCHANGED vars
  <2>1. SelfInv(d) /\ LinkInv(d) /\ WalkInv(d)
    BY DEF RakInv
  <2>2. SelfInv(d)' /\ LinkInv(d)'
    BY <1>2, <2>1 DEF SelfInv, LinkInv, vars, serverVars, clientVars, netVars
  <2>3. WalkInv(d)'
    BY <1>2, <2>1, WalkFrame DEF vars, serverVars, clientVars, netVars
  <2> QED
    BY <2>2, <2>3
<1> QED
  BY <1>1, <1>2

\* No step changes the mode.
LEMMA ModeKept == [Next]_vars => UNCHANGED reliable
BY DEF Next, vars, UpdatePlayerPosition, EndTick, LibraryStep, ServerStep, ClientStep,
       Connect, NotConnected, ClientKilled, DropPosition, NewConnection, NoRoomToSpawn,
       ConnectionLost, ReceiveMove, ReceiveControl, ReceivePosition, LocalMove, NoRoomToMove

\* The inductive invariant: with -r every player, its queued moves, its moves
\* on the wire and its client are the cells of one walk.
THEOREM WalkKept == Spec => []WhenReliable
<1>1. Init => WhenReliable
  BY InitRakInv DEF WhenReliable
<1>2. TypeOK /\ WhenReliable /\ [Next]_vars => WhenReliable'
  BY RakInvStep, ModeKept DEF WhenReliable
<1> QED
  BY <1>1, <1>2, TypeCorrect, PTL DEF Spec

\* With -r UpdatePlayerPositions never declines a move: no player's
\* broadcastLocationToSelf is ever set.
THEOREM MovesNeverRejected == Spec => []NeverRejected
<1>1. TypeOK /\ WhenReliable => NeverRejected
  BY DEF WhenReliable, NeverRejected, RakInv, SelfInv, TypeOK
<1> QED
  BY <1>1, TypeCorrect, WalkKept, PTL

\* With -r no PLAYER_POSITION for a client is about its own player.
THEOREM ClientsNeverPutRight == Spec => []NeverPutRight
<1>1. WhenReliable => NeverPutRight
  BY DEF WhenReliable, NeverPutRight, RakInv, SelfInv
<1> QED
  BY <1>1, WalkKept, PTL

(***************************************************************************)
(* Moves and the loss of their sender.                                     *)
(***************************************************************************)

\* A move that waits is of a player that is there, or was until its connection
\* was lost, and an address is not used again.
MovesOf(c) == \A i \in cursor..Len(queue) :
    queue[i].id = c => c \in connected \/ link[c] = "lost"
Linked(c) ==
    /\ link[c] = "up" <=> c \in connected \union newConn
    /\ phase[c] = "off" => link[c] = "none"
    /\ MovesOf(c)
LossInv == CrashOnlyAfterLoss /\ \A c \in Clients : Linked(c)

LEMMA LossInit == Init => LossInv
BY DEF Init, LossInv, CrashOnlyAfterLoss, Linked, MovesOf

\* A step that leaves the connections and the queue alone.
LEMMA LossFrame ==
    ASSUME LossInv, UNCHANGED <<queue, cursor, connected, newConn, link>>,
           server' = server \/ server' # "crashed",
           \A c \in Clients : phase'[c] = "off" => phase[c] = "off"
    PROVE  LossInv'
BY DEF LossInv, CrashOnlyAfterLoss, Linked, MovesOf

LEMMA LossLibrary ==
    ASSUME TypeOK, LossInv, NEW c \in Clients, LibraryStep(c)
    PROVE  LossInv'
<1>1. CASE Connect(c)
  <2>1. /\ link[c] = "none" /\ link' = [link EXCEPT ![c] = "up"]
        /\ newConn' = newConn \union {c} /\ phase' = [phase EXCEPT ![c] = "waitConfig"]
        /\ UNCHANGED <<server, queue, cursor, connected>>
    BY <1>1 DEF Connect, LossInv, Linked
  <2>2. CrashOnlyAfterLoss'
    <3> SUFFICES ASSUME server = "crashed"
                 PROVE  cursor <= Len(queue) /\ link'[queue[cursor].id] = "lost"
      BY <2>1 DEF CrashOnlyAfterLoss
    <3>1. cursor <= Len(queue) /\ link[queue[cursor].id] = "lost"
      BY DEF LossInv, CrashOnlyAfterLoss
    <3>2. queue[cursor].id # c
      BY <2>1, <3>1
    <3> QED
      BY <2>1, <3>1, <3>2 DEF TypeOK
  <2>3. \A d \in Clients : Linked(d)'
    <3> TAKE d \in Clients
    <3>1. Linked(d)
      BY DEF LossInv
    <3> QED
      BY <2>1, <3>1 DEF Linked, MovesOf, TypeOK
  <2> QED
    BY <2>2, <2>3 DEF LossInv
<1>2. CASE NotConnected(c) \/ ClientKilled(c) \/ DropPosition(c)
  <2>1. /\ UNCHANGED <<server, queue, cursor, connected, newConn, link>>
        /\ \A d \in Clients : phase'[d] = "off" => phase[d] = "off"
    BY <1>2 DEF NotConnected, ClientKilled, DropPosition, serverVars, netVars, clientVars, TypeOK
  <2> QED
    BY <2>1, LossFrame
<1> QED
  BY <1>1, <1>2 DEF LibraryStep

LEMMA LossServer ==
    ASSUME TypeOK, LossInv, NEW c \in Clients, ServerStep(c)
    PROVE  LossInv'
<1>1. CASE NewConnection(c)
  BY <1>1 DEF NewConnection, LossInv, CrashOnlyAfterLoss, Linked, MovesOf, clientVars
<1>2. CASE NoRoomToSpawn(c)
  BY <1>2, LossFrame DEF NoRoomToSpawn, clientVars, netVars
<1>3. CASE ConnectionLost(c)
  <2>1. /\ link' = [link EXCEPT ![c] = "lost"] /\ connected' = connected \ {c}
        /\ link[c] = "up" /\ c \notin newConn /\ server = "receiving"
        /\ UNCHANGED <<server, queue, cursor, newConn, phase>>
    BY <1>3 DEF ConnectionLost, clientVars
  <2>2. \A d \in Clients : Linked(d)'
    <3> TAKE d \in Clients
    <3>1. Linked(d)
      BY DEF LossInv
    <3> QED
      BY <2>1, <3>1 DEF Linked, MovesOf, TypeOK
  <2> QED
    BY <2>1, <2>2 DEF LossInv, CrashOnlyAfterLoss
<1>4. CASE ReceiveMove(c)
  <2>1. PICK m : queue' = Append(queue, m) /\ m.id = c
    BY <1>4 DEF ReceiveMove
  <2>2. /\ UNCHANGED <<server, cursor, connected, newConn, link, phase>>
        /\ server = "receiving" /\ c \in connected
    BY <1>4 DEF ReceiveMove, LossInv, Linked, clientVars
  <2>3. /\ Len(queue') = Len(queue) + 1 /\ queue'[Len(queue) + 1] = m
        /\ \A i \in cursor..Len(queue) : queue'[i] = queue[i]
    BY <2>1 DEF TypeOK
  <2>4. cursor..Len(queue') \subseteq cursor..Len(queue) \union {Len(queue) + 1}
    BY <2>3 DEF TypeOK
  <2>5. \A d \in Clients : Linked(d)'
    <3> TAKE d \in Clients
    <3>1. Linked(d)
      BY DEF LossInv
    <3>2. MovesOf(d)'
      BY <2>1, <2>2, <2>3, <2>4, <3>1 DEF Linked, MovesOf
    <3> QED
      BY <2>2, <3>1, <3>2 DEF Linked
  <2> QED
    BY <2>2, <2>5 DEF LossInv, CrashOnlyAfterLoss
<1> QED
  BY <1>1, <1>2, <1>3, <1>4 DEF ServerStep

LEMMA LossUpdate ==
    ASSUME TypeOK, LossInv, UpdatePlayerPosition
    PROVE  LossInv'
<1>1. /\ cursor \in 1..Len(queue) /\ queue[cursor].id \in Clients
      /\ UNCHANGED <<queue, connected, newConn, link, phase>>
  <2>1. cursor \in 1..Len(queue) /\ UNCHANGED <<queue, connected, newConn, link, phase>>
    BY DEF UpdatePlayerPosition, TypeOK, clientVars, netVars
  <2>2. queue[cursor] \in Move
    BY <2>1 DEF TypeOK
  <2> QED
    BY <2>1, <2>2 DEF Move
<1>2. CASE queue[cursor].id \notin connected
  <2>1. cursor' = cursor /\ link[queue[cursor].id] = "lost"
    BY <1>1, <1>2 DEF UpdatePlayerPosition, LossInv, Linked, MovesOf
  <2> QED
    BY <1>1, <2>1 DEF LossInv, CrashOnlyAfterLoss, Linked, MovesOf
<1>3. CASE queue[cursor].id \in connected
  <2>1. cursor' = cursor + 1 /\ server' = "updating"
    BY <1>3 DEF UpdatePlayerPosition
  <2>2. cursor'..Len(queue) \subseteq cursor..Len(queue)
    BY <1>1, <2>1 DEF TypeOK
  <2> QED
    BY <1>1, <2>1, <2>2 DEF LossInv, CrashOnlyAfterLoss, Linked, MovesOf
<1> QED
  BY <1>2, <1>3

LEMMA LossEndTick ==
    ASSUME TypeOK, LossInv, EndTick
    PROVE  LossInv'
<1>1. /\ queue' = <<>> /\ cursor' = 1 /\ server' = "receiving"
      /\ UNCHANGED <<connected, newConn, link, phase>>
  BY DEF EndTick, clientVars
<1> QED
  BY <1>1 DEF LossInv, CrashOnlyAfterLoss, Linked, MovesOf

LEMMA LossClient ==
    ASSUME TypeOK, LossInv, NEW c \in Clients, ClientStep(c)
    PROVE  LossInv'
<1>1. /\ UNCHANGED <<server, queue, cursor, connected, newConn, link>>
      /\ \A d \in Clients : phase'[d] = "off" => phase[d] = "off"
  BY DEF ClientStep, ReceiveControl, HandleControl, ReceivePosition, LocalMove, NoRoomToMove,
         serverVars, TypeOK
<1> QED
  BY <1>1, LossFrame

LEMMA LossStep == TypeOK /\ LossInv /\ [Next]_vars => LossInv'
<1> SUFFICES ASSUME TypeOK, LossInv, [Next]_vars PROVE LossInv'
  OBVIOUS
<1>1. CASE Next
  BY <1>1, LossUpdate, LossEndTick, LossLibrary, LossServer, LossClient DEF Next
<1>2. CASE UNCHANGED vars
  BY <1>2, LossFrame DEF vars, serverVars, clientVars, netVars
<1> QED
  BY <1>1, <1>2

\* What the rest of this module relies on, too.
LEMMA LossKept == Spec => []LossInv
BY LossInit, LossStep, TypeCorrect, PTL DEF Spec

\* UpdatePlayerPositions meets a player that is gone only when its connection was
\* lost with a move of it in the queue, with or without -r, with any number of
\* clients (server_gamestate.cpp:46).
THEOREM CrashExplained == Spec => []CrashOnlyAfterLoss
<1>1. LossInv => CrashOnlyAfterLoss
  BY DEF LossInv
<1> QED
  BY <1>1, LossKept, PTL

(***************************************************************************)
(* How often a client lists a player.                                      *)
(***************************************************************************)

Join(c, d, i) == i \in DOMAIN control[c] /\ control[c][i].type = "join" /\ control[c][i].id = d
Twice(c, d, i) == i \in DOMAIN phantom[c] /\ phantom[c][i].id = d

\* Of a player that is not in the game yet there is neither; then one join is on
\* its way, and the second entry is made of it.
Listed(c, d) ==
    /\ link[d] = "none" \/ d \in newConn =>
          \A i \in Nat : ~Join(c, d, i) /\ ~Twice(c, d, i)
    /\ \A i, j \in Nat : Join(c, d, i) /\ Join(c, d, j) => i = j
    /\ \A i, j \in Nat : Twice(c, d, i) /\ Twice(c, d, j) => i = j
    /\ \A i, j \in Nat : Join(c, d, i) => ~Twice(c, d, j)
    /\ \A i \in Nat : Twice(c, d, i) => d \in known[c]
ListInv == (\A c \in Clients : c \notin known[c]) /\ \A c, d \in Clients : Listed(c, d)

LEMMA ListsAreRemoteEntries ==
    ASSUME TypeOK, ListInv PROVE RemoteEntries
<1> SUFFICES ASSUME NEW c \in Clients
             PROVE  /\ c \notin known[c]
                    /\ \A i \in DOMAIN phantom[c] :
                          /\ phantom[c][i].id \in known[c]
                          /\ \A j \in DOMAIN phantom[c] :
                                phantom[c][j].id = phantom[c][i].id => i = j
  BY DEF RemoteEntries
<1>1. /\ DOMAIN phantom[c] \subseteq Nat
      /\ \A i \in DOMAIN phantom[c] : phantom[c][i] \in Move
  BY DEF TypeOK
<1>2. \A i \in DOMAIN phantom[c] : phantom[c][i].id \in Clients
  BY <1>1 DEF Move
<1> QED
  BY <1>1, <1>2 DEF ListInv, Listed, Twice

LEMMA ListInit == Init => ListInv
BY DEF Init, ListInv, Listed, Join, Twice

\* A step that only takes away.
LEMMA ListFrame ==
    ASSUME ListInv,
           \A c \in Clients : known'[c] \in {known[c], {}},
           \A c \in Clients : control'[c] \in {control[c], <<>>},
           \A c \in Clients : (phantom'[c] = phantom[c] /\ known'[c] = known[c]) \/ phantom'[c] = <<>>,
           \A d \in Clients : link'[d] = "none" \/ d \in newConn' => link[d] = "none" \/ d \in newConn
    PROVE  ListInv'
<1>1. \A c \in Clients : c \notin known'[c]
  BY DEF ListInv
<1>2. ASSUME NEW c \in Clients, NEW d \in Clients PROVE Listed(c, d)'
  <2>1. Listed(c, d)
    BY DEF ListInv
  <2>2. \A i \in Nat : Join(c, d, i)' => Join(c, d, i)
    BY DEF Join
  <2>3. \A i \in Nat : Twice(c, d, i)' => Twice(c, d, i) /\ known'[c] = known[c]
    BY DEF Twice
  <2> HIDE DEF Join, Twice
  <2> QED
    BY <2>1, <2>2, <2>3 DEF Listed
<1> QED
  BY <1>1, <1>2 DEF ListInv

\* A new player's join is the last packet to everybody.
LEMMA WelcomeJoins ==
    ASSUME TypeOK, NEW c \in Clients, NEW p \in Cell, NEW e \in Clients,
           NEW i \in DOMAIN Welcome(c, p)[e]
    PROVE  \/ i \in DOMAIN control[e] /\ Welcome(c, p)[e][i] = control[e][i]
           \/ Welcome(c, p)[e][i].type # "join"
           \/ Welcome(c, p)[e][i].id = c /\ i = Len(Welcome(c, p)[e])
<1> DEFINE msg(type) == [type |-> type, id |-> c, at |-> p]
           own == IF c \in Addressees THEN <<msg("config"), msg("spawn")>> ELSE <<>>
           mine == IF e = c THEN own ELSE <<>>
           all == IF e \in Addressees THEN <<msg("join")>> ELSE <<>>
           s == control[e] \o mine \o all
<1>1. /\ msg("config") \in Control /\ msg("spawn") \in Control /\ msg("join") \in Control
  BY DEF Control
<1>2. mine \in Seq(Control) /\ all \in Seq(Control) /\ control[e] \in Seq(Control)
  BY <1>1 DEF TypeOK
<1>3. /\ \A j \in DOMAIN mine : mine[j].type # "join"
      /\ \A j \in DOMAIN all : all[j].id = c /\ j = 1 /\ Len(all) = 1
  OBVIOUS
<1>4. Welcome(c, p)[e] = s
  BY DEF Welcome
<1> HIDE DEF mine, all, own, msg
<1>5. CASE i <= Len(control[e])
  BY <1>2, <1>4, <1>5
<1>6. CASE i > Len(control[e]) /\ i <= Len(control[e]) + Len(mine)
  <2>1. i - Len(control[e]) \in DOMAIN mine /\ s[i] = mine[i - Len(control[e])]
    BY <1>2, <1>4, <1>6
  <2> QED
    BY <1>3, <1>4, <2>1
<1>7. CASE i > Len(control[e]) + Len(mine)
  <2>1. /\ i - Len(control[e]) - Len(mine) \in DOMAIN all
        /\ s[i] = all[i - Len(control[e]) - Len(mine)]
        /\ Len(s) = Len(control[e]) + Len(mine) + Len(all)
    BY <1>2, <1>4, <1>7
  <2> DEFINE k == i - Len(control[e]) - Len(mine)
  <2>2. all[k].id = c /\ k = 1 /\ Len(all) = 1
    BY <1>3, <2>1
  <2>3. i \in Nat /\ Len(control[e]) \in Nat /\ Len(mine) \in Nat
    BY <1>2, <1>4
  <2>4. i = Len(s)
    BY <2>1, <2>2, <2>3
  <2> QED
    BY <1>4, <2>1, <2>2, <2>4
<1> QED
  BY <1>2, <1>4, <1>5, <1>6, <1>7

LEMMA ListNewConnection ==
    ASSUME TypeOK, LossInv, ListInv, NEW c \in Clients, NewConnection(c)
    PROVE  ListInv'
<1>1. PICK p \in Cell : control' = Welcome(c, p)
  BY SpawnProperties DEF NewConnection
<1>2. /\ c \in newConn /\ link[c] = "up" /\ newConn' = newConn \ {c}
      /\ UNCHANGED <<link, known, phantom>>
  BY DEF NewConnection, LossInv, Linked, clientVars
<1>3. ASSUME NEW e \in Clients, NEW d \in Clients PROVE Listed(e, d)'
  <2>1. Listed(e, d)
    BY DEF ListInv
  <2>2. \A i \in Nat : Twice(e, d, i)' <=> Twice(e, d, i)
    BY <1>2 DEF Twice
  <2>3. \A i \in Nat : Join(e, d, i)' => \/ Join(e, d, i)
                                         \/ d = c /\ i = Len(control'[e])
    BY <1>1, WelcomeJoins DEF Join
  <2>4. d = c => \A i \in Nat : ~Join(e, d, i) /\ ~Twice(e, d, i)
    BY <1>2, <2>1 DEF Listed
  <2> HIDE DEF Join, Twice
  <2>5. CASE d = c
    BY <1>2, <2>1, <2>2, <2>3, <2>4, <2>5 DEF Listed, TypeOK
  <2>6. CASE d # c
    BY <1>2, <2>1, <2>2, <2>3, <2>6 DEF Listed
  <2> QED
    BY <2>5, <2>6
<1> QED
  BY <1>2, <1>3 DEF ListInv

\* The effect of AddRemotePlayer on the lists of c.
LEMMA AddRemoteLists ==
    ASSUME TypeOK, NEW c \in Clients, NEW d \in Clients, NEW p \in Cell,
           AddRemotePlayer(c, d, p)
    PROVE  /\ known' = [known EXCEPT ![c] = @ \union {d}]
           /\ \A e \in Clients, f \in Clients, i \in Nat :
                 Twice(e, f, i)' => \/ Twice(e, f, i)
                                    \/ e = c /\ f = d /\ d \in known[c] /\ i = Len(phantom[c]) + 1
<1>1. CASE d \in known[c]
  <2>1. known' = [known EXCEPT ![c] = @ \union {d}]
    <3>1. known[c] \union {d} = known[c]
      BY <1>1
    <3> QED
      BY <1>1, <3>1 DEF AddRemotePlayer, TypeOK
  <2>2. phantom' = [phantom EXCEPT ![c] = Append(@, [id |-> d, at |-> p])]
    BY <1>1 DEF AddRemotePlayer
  <2>3. phantom[c] \in Seq(Move) /\ [id |-> d, at |-> p] \in Move
    BY DEF TypeOK, Move
  <2>4. \A i \in DOMAIN phantom'[c] :
           \/ i \in DOMAIN phantom[c] /\ phantom'[c][i] = phantom[c][i]
           \/ i = Len(phantom[c]) + 1 /\ phantom'[c][i].id = d
    BY <2>2, <2>3 DEF TypeOK
  <2>5. \A e \in Clients \ {c} : phantom'[e] = phantom[e]
    BY <2>2 DEF TypeOK
  <2> QED
    BY <1>1, <2>1, <2>4, <2>5 DEF Twice
<1>2. CASE d \notin known[c]
  BY <1>2 DEF AddRemotePlayer, Twice
<1> QED
  BY <1>1, <1>2

LEMMA ListReceiveControl ==
    ASSUME TypeOK, ListInv, NEW c \in Clients, ReceiveControl(c)
    PROVE  ListInv'
<1>1. PICK i \in DOMAIN control[c] :
         /\ HandleControl(c, control[c][i])
         /\ control' = [control EXCEPT ![c] = RemoveAt(@, i)]
  BY DEF ReceiveControl, Deliverable
<1>2. UNCHANGED <<link, newConn>>
  BY DEF ReceiveControl, serverVars
<1> DEFINE m == control[c][i]
<1>3. m \in Control /\ m.id \in Clients /\ m.at \in Cell /\ i \in Nat
  <2>1. control[c] \in Seq(Control)
    BY DEF TypeOK
  <2>2. m \in Control /\ i \in Nat
    BY <2>1
  <2> QED
    BY <2>2 DEF Control
<1>4. /\ \A e \in Clients \ {c} : control'[e] = control[e]
      /\ \A j \in DOMAIN control'[c] :
            \E k \in DOMAIN control[c] \ {i} :
                /\ k = IF j < i THEN j ELSE j + 1
                /\ control'[c][j] = control[c][k]
  <2>1. /\ control[c] \in Seq(Control) /\ control'[c] = RemoveAt(control[c], i)
        /\ \A e \in Clients \ {c} : control'[e] = control[e]
    BY <1>1 DEF TypeOK
  <2>2. /\ RemoveAt(control[c], i) \in Seq(Control)
        /\ Len(RemoveAt(control[c], i)) = Len(control[c]) - 1
        /\ \A j \in 1..(Len(control[c]) - 1) :
              RemoveAt(control[c], i)[j] = IF j < i THEN control[c][j] ELSE control[c][j + 1]
    BY <2>1, RemoveAtProperties
  <2>3. ASSUME NEW j \in DOMAIN control'[c]
        PROVE  \E k \in DOMAIN control[c] \ {i} :
                  /\ k = IF j < i THEN j ELSE j + 1
                  /\ control'[c][j] = control[c][k]
    <3>1. j \in 1..(Len(control[c]) - 1) /\ i \in 1..Len(control[c])
      BY <2>1, <2>2
    <3>2. CASE j < i
      BY <2>1, <2>2, <3>1, <3>2
    <3>3. CASE ~(j < i)
      BY <2>1, <2>2, <3>1, <3>3
    <3> QED
      BY <3>2, <3>3
  <2> QED
    BY <2>1, <2>3
<1>5. \A d \in Clients, j \in Nat :
         Join(c, d, j)' => \E k \in Nat \ {i} : k = (IF j < i THEN j ELSE j + 1) /\ Join(c, d, k)
  BY <1>4 DEF Join, TypeOK
<1>6. \A e \in Clients \ {c}, d \in Clients, j \in Nat : Join(e, d, j)' <=> Join(e, d, j)
  BY <1>4 DEF Join
<1>7. CASE m.type = "join" /\ m.id # c /\ AddRemotePlayer(c, m.id, m.at)
  <2>1. /\ known' = [known EXCEPT ![c] = @ \union {m.id}]
        /\ \A e \in Clients, d \in Clients, j \in Nat :
              Twice(e, d, j)' => \/ Twice(e, d, j)
                                 \/ e = c /\ d = m.id /\ d \in known[c] /\ j = Len(phantom[c]) + 1
    BY <1>3, <1>7, AddRemoteLists
  <2>2. Join(c, m.id, i)
    BY <1>7 DEF Join
  <2>3. ASSUME NEW e \in Clients, NEW d \in Clients PROVE Listed(e, d)'
    <3>1. Listed(e, d)
      BY DEF ListInv
    <3>2. known[e] \subseteq known'[e]
      BY <2>1 DEF TypeOK
    <3> HIDE DEF Join, Twice, m
    <3>3. CASE e = c /\ d = m.id
      <4>1. \A j \in Nat : ~Twice(e, d, j) /\ ~Join(e, d, j)'
        BY <1>3, <1>5, <2>2, <3>1, <3>3 DEF Listed
      <4>2. \A j \in Nat : Twice(e, d, j)' => j = Len(phantom[c]) + 1 /\ d \in known[c]
        BY <2>1, <4>1
      <4>3. link[d] # "none" /\ d \notin newConn
        BY <1>3, <2>2, <3>1, <3>3 DEF Listed
      <4> QED
        BY <1>2, <3>2, <3>3, <4>1, <4>2, <4>3 DEF Listed
    <3>4. CASE e = c /\ d # m.id
      <4>1. \A j \in Nat : Twice(e, d, j)' => Twice(e, d, j)
        BY <2>1, <3>4
      <4>2. \A j \in Nat : Join(e, d, j)' => Join(e, d, IF j < i THEN j ELSE j + 1)
        BY <1>5, <3>4
      <4> QED
        BY <1>2, <1>3, <3>1, <3>2, <4>1, <4>2 DEF Listed
    <3>5. CASE e # c
      <4>1. \A j \in Nat : Twice(e, d, j)' => Twice(e, d, j)
        BY <2>1, <3>5
      <4>2. \A j \in Nat : Join(e, d, j)' => Join(e, d, j)
        BY <1>6, <3>5
      <4> QED
        BY <1>2, <3>1, <3>2, <4>1, <4>2 DEF Listed
    <3> QED
      BY <3>3, <3>4, <3>5
  <2>4. \A e \in Clients : e \notin known'[e]
    BY <1>7, <2>1 DEF ListInv, TypeOK
  <2> QED
    BY <2>3, <2>4 DEF ListInv
<1>8. CASE UNCHANGED <<known, phantom>>
  <2>1. ASSUME NEW e \in Clients, NEW d \in Clients PROVE Listed(e, d)'
    <3>1. Listed(e, d)
      BY DEF ListInv
    <3>2. \A j \in Nat : Twice(e, d, j)' <=> Twice(e, d, j)
      BY <1>8 DEF Twice
    <3>3. \A j \in Nat : Join(e, d, j)' =>
             Join(e, d, IF e = c /\ ~(j < i) THEN j + 1 ELSE j)
      BY <1>3, <1>5, <1>6
    <3> HIDE DEF Join, Twice
    <3> QED
      BY <1>2, <1>3, <1>8, <3>1, <3>2, <3>3 DEF Listed
  <2> QED
    BY <1>8, <2>1 DEF ListInv
<1> QED
  BY <1>1, <1>7, <1>8 DEF HandleControl

LEMMA ListReceivePosition ==
    ASSUME TypeOK, ListInv, NEW c \in Clients, ReceivePosition(c)
    PROVE  ListInv'
<1>1. PICK i \in DOMAIN positions[c] :
         IF phase[c] = "playing"
         THEN HandlePosition(c, positions[c][i])
         ELSE UNCHANGED <<local, known, seen, phantom>>
  BY DEF ReceivePosition, Deliverable
<1> DEFINE m == positions[c][i]
<1>2. UNCHANGED <<link, newConn, control>>
  BY DEF ReceivePosition, serverVars
<1>3. positions[c] \in Seq(Move)
  BY DEF TypeOK
<1>4. m.id \in Clients /\ m.at \in Cell
  <2>1. m \in Move
    BY <1>3
  <2> QED
    BY <2>1 DEF Move
<1>5. /\ UNCHANGED phantom
      /\ \E S \in SUBSET (Clients \ {c}) : known' = [known EXCEPT ![c] = @ \union S]
  <2>1. CASE m.id # c /\ m.id \notin known[c] /\ AddRemotePlayer(c, m.id, m.at)
    BY <1>4, <2>1 DEF AddRemotePlayer
  <2>2. CASE UNCHANGED <<known, phantom>>
    <3>1. known' = [known EXCEPT ![c] = @ \union {}]
      BY <2>2 DEF TypeOK
    <3> QED
      BY <2>2, <3>1
  <2> QED
    BY <1>1, <2>1, <2>2 DEF HandlePosition
<1>6. ASSUME NEW e \in Clients, NEW d \in Clients PROVE Listed(e, d)'
  <2>1. Listed(e, d) /\ known[e] \subseteq known'[e]
    BY <1>5 DEF ListInv, TypeOK
  <2>2. \A j \in Nat : (Twice(e, d, j)' <=> Twice(e, d, j)) /\ (Join(e, d, j)' <=> Join(e, d, j))
    BY <1>2, <1>5 DEF Twice, Join
  <2> HIDE DEF Join, Twice
  <2> QED
    BY <1>2, <2>1, <2>2 DEF Listed
<1>7. \A e \in Clients : e \notin known'[e]
  BY <1>5 DEF ListInv, TypeOK
<1> QED
  BY <1>6, <1>7 DEF ListInv

LEMMA ListStep == TypeOK /\ LossInv /\ ListInv /\ [Next]_vars => ListInv'
<1> SUFFICES ASSUME TypeOK, LossInv, ListInv, [Next]_vars PROVE ListInv'
  OBVIOUS
<1> DEFINE Takes ==
      /\ \A c \in Clients : known'[c] \in {known[c], {}}
      /\ \A c \in Clients : control'[c] \in {control[c], <<>>}
      /\ \A c \in Clients : (phantom'[c] = phantom[c] /\ known'[c] = known[c]) \/ phantom'[c] = <<>>
      /\ \A d \in Clients : link'[d] = "none" \/ d \in newConn' => link[d] = "none" \/ d \in newConn
<1>1. ASSUME NEW c \in Clients, LibraryStep(c) PROVE Takes
  <2>1. CASE Connect(c)
    BY <2>1 DEF Connect, LossInv, Linked, TypeOK
  <2>2. CASE ClientKilled(c)
    BY <2>2 DEF ClientKilled, serverVars, TypeOK
  <2>3. CASE NotConnected(c) \/ DropPosition(c)
    BY <2>3 DEF NotConnected, DropPosition, serverVars, netVars, clientVars
  <2> QED
    BY <1>1, <2>1, <2>2, <2>3 DEF LibraryStep
<1>2. ASSUME NEW c \in Clients, NoRoomToSpawn(c) \/ ConnectionLost(c) \/ ReceiveMove(c)
      PROVE  Takes
  BY <1>2 DEF NoRoomToSpawn, ConnectionLost, ReceiveMove, clientVars, netVars, TypeOK
<1>3. ASSUME NEW c \in Clients, LocalMove(c) \/ NoRoomToMove(c) PROVE Takes
  BY <1>3 DEF LocalMove, NoRoomToMove, serverVars, TypeOK
<1>4. CASE UpdatePlayerPosition \/ EndTick \/ UNCHANGED vars
  <2>1. UNCHANGED <<known, control, phantom, link, newConn>>
    BY <1>4 DEF UpdatePlayerPosition, EndTick, vars, serverVars, clientVars, netVars
  <2> QED
    BY <2>1, ListFrame
<1>5. Takes => ListInv'
  BY ListFrame
<1> HIDE DEF Takes
<1> QED
  BY <1>1, <1>2, <1>3, <1>4, <1>5, ListNewConnection, ListReceiveControl, ListReceivePosition
  DEF Next, ServerStep, ClientStep

\* However the two channels deliver, no client lists itself, and any other player
\* twice at most (client.cpp:128-159).
THEOREM ListedTwiceAtMost == Spec => []RemoteEntries
<1>1. Spec => []ListInv
  BY ListInit, ListStep, LossKept, TypeCorrect, PTL DEF Spec
<1>2. TypeOK /\ ListInv => RemoteEntries
  BY ListsAreRemoteEntries
<1> QED
  BY <1>1, <1>2, TypeCorrect, PTL

(***************************************************************************)
(* What hangs a client.                                                    *)
(***************************************************************************)

\* On the smallest map, too, there are two ways to go from every cell.
LEMMA TwoMoves ==
    ASSUME NEW p \in Cell
    PROVE  \E q, r \in PossibleMoves(p) : q # r
<1> DEFINE q == [x |-> IF p.x = 0 THEN 1 ELSE p.x - 1, y |-> p.y]
           r == [x |-> p.x, y |-> IF p.y = 0 THEN 1 ELSE p.y - 1]
<1>1. p.x \in 0..MapWidth /\ p.y \in 0..MapHeight
  BY DEF Cell
<1>2. q \in Cell /\ r \in Cell
  BY <1>1, MapAssumption DEF Cell
<1>3. q.y = p.y /\ q.x - p.x \in {-1, 1} /\ r.x = p.x /\ r.y - p.y \in {-1, 1}
  BY <1>1
<1>4. q \in PossibleMoves(p) /\ r \in PossibleMoves(p)
  BY <1>2, <1>3 DEF PossibleMoves
<1>5. q.x # r.x
  BY <1>1
<1> QED
  BY <1>4, <1>5

\* Players that are listed once fill no more cells than they are.
LEMMA OneCell ==
    ASSUME TypeOK, NEW c \in Clients, phantom[c] = <<>>, Cardinality(known[c]) <= 1,
           NEW q \in Occupied(c), NEW r \in Occupied(c)
    PROVE  q = r
<1>1. IsFiniteSet(known[c])
  BY ClientsAssumption, FS_Subset DEF TypeOK
<1>2. PICK d \in known[c], e \in known[c] : q = seen[c][d] /\ r = seen[c][e]
  BY DEF Occupied
<1>3. d = e
  <2> SUFFICES ASSUME d # e PROVE FALSE
    OBVIOUS
  <2> DEFINE both == {d} \union {e}
  <2>1. IsFiniteSet(both) /\ Cardinality(both) = 2
    <3>1. IsFiniteSet({d}) /\ Cardinality({d}) = 1
      BY FS_Singleton
    <3>2. /\ IsFiniteSet({d} \union {e})
          /\ Cardinality({d} \union {e}) =
                IF e \in {d} THEN Cardinality({d}) ELSE Cardinality({d}) + 1
      BY <3>1, FS_AddElement, Zenon
    <3>3. e \notin {d}
      OBVIOUS
    <3>4. Cardinality(both) = Cardinality({d}) + 1
      BY <3>2, <3>3, Zenon
    <3>5. IsFiniteSet(both) /\ Cardinality(both) = 1 + 1
      BY <3>1, <3>2, <3>4, Zenon
    <3> HIDE DEF both
    <3> QED
      BY <3>5
  <2>2. Cardinality(both) <= Cardinality(known[c])
    BY <1>1, FS_Subset
  <2> HIDE DEF both
  <2> QED
    BY <1>1, <2>1, <2>2, FS_CardinalityType
<1> QED
  BY <1>2, <1>3

LEMMA HangStep == TypeOK /\ HangNeedsPhantom /\ [Next]_vars => HangNeedsPhantom'
<1> SUFFICES ASSUME TypeOK, HangNeedsPhantom, [Next]_vars, NEW c \in Clients,
                    phase'[c] = "spinning"
             PROVE  phantom'[c] # <<>> \/ Cardinality(known'[c]) > 1
  BY DEF HangNeedsPhantom
<1>1. CASE phase[c] = "spinning"
  <2>1. phantom'[c] = phantom[c] /\ known'[c] = known[c]
    <3>1. ASSUME NEW d \in Clients, LibraryStep(d) \/ ServerStep(d) \/ ClientStep(d)
          PROVE  phantom'[c] = phantom[c] /\ known'[c] = known[c]
      <4>1. CASE LibraryStep(d)
        BY <1>1, <4>1 DEF LibraryStep, Connect, NotConnected, ClientKilled, DropPosition,
                          clientVars, TypeOK
      <4>2. CASE ServerStep(d)
        BY <4>2 DEF ServerStep, NewConnection, NoRoomToSpawn, ConnectionLost, ReceiveMove, clientVars
      <4>3. CASE ReceiveControl(d)
        <5>1. d # c
          BY <1>1, <4>3 DEF ReceiveControl, Reads
        <5> QED
          BY <4>3, <5>1 DEF ReceiveControl, HandleControl, AddRemotePlayer, TypeOK
      <4>4. CASE ReceivePosition(d)
        <5>1. d # c
          BY <1>1, <4>4 DEF ReceivePosition, Reads
        <5> QED
          BY <4>4, <5>1 DEF ReceivePosition, HandlePosition, AddRemotePlayer, TypeOK
      <4>5. CASE LocalMove(d) \/ NoRoomToMove(d)
        BY <4>5 DEF LocalMove, NoRoomToMove
      <4> QED
        BY <3>1, <4>1, <4>2, <4>3, <4>4, <4>5 DEF ClientStep
    <3>2. CASE UpdatePlayerPosition \/ EndTick \/ UNCHANGED vars
      BY <3>2 DEF UpdatePlayerPosition, EndTick, vars, clientVars
    <3> QED
      BY <3>1, <3>2 DEF Next
  <2> QED
    BY <1>1, <2>1 DEF HangNeedsPhantom
<1>2. CASE phase[c] # "spinning"
  <2>1. NoRoomToMove(c)
    <3>1. ASSUME NEW d \in Clients, LibraryStep(d) PROVE phase'[c] # "spinning"
      BY <1>2, <3>1 DEF LibraryStep, Connect, NotConnected, ClientKilled, DropPosition,
                        clientVars, TypeOK
    <3>2. ASSUME NEW d \in Clients, ServerStep(d) PROVE phase' = phase
      BY <3>2 DEF ServerStep, NewConnection, NoRoomToSpawn, ConnectionLost, ReceiveMove, clientVars
    <3>3. ASSUME NEW d \in Clients, ReceiveControl(d) PROVE phase'[c] # "spinning"
      BY <1>2, <3>3 DEF ReceiveControl, HandleControl, TypeOK
    <3>4. ASSUME NEW d \in Clients, ReceivePosition(d) \/ LocalMove(d) PROVE phase' = phase
      BY <3>4 DEF ReceivePosition, LocalMove
    <3>5. ASSUME NEW d \in Clients, NoRoomToMove(d), d # c PROVE phase'[c] = phase[c]
      BY <3>5 DEF NoRoomToMove, TypeOK
    <3>6. CASE UpdatePlayerPosition \/ EndTick \/ UNCHANGED vars
      BY <1>2, <3>6 DEF UpdatePlayerPosition, EndTick, vars, clientVars
    <3> QED
      BY <1>2, <3>1, <3>2, <3>3, <3>4, <3>5, <3>6 DEF Next, ClientStep
  <2>2. PossibleMoves(local[c]) \subseteq Occupied(c) /\ UNCHANGED <<known, phantom>>
    BY <2>1 DEF NoRoomToMove
  <2>3. \E q, r \in Occupied(c) : q # r
    BY <2>2, TwoMoves DEF TypeOK
  <2>4. IsFiniteSet(known[c]) /\ Cardinality(known[c]) \in Nat
    BY ClientsAssumption, FS_Subset, FS_CardinalityType DEF TypeOK
  <2>5. phantom[c] # <<>> \/ ~(Cardinality(known[c]) <= 1)
    BY <2>3, OneCell
  <2> QED
    BY <2>2, <2>4, <2>5
<1> QED
  BY <1>1, <1>2

\* The search for a move never ends (client_gamestate.cpp:36-47) only for a client
\* that lists a player twice, or two others: with one entry for one other player
\* there is room on any map.
THEOREM HangExplained == Spec => []HangNeedsPhantom
<1>1. Init => HangNeedsPhantom
  BY DEF Init, HangNeedsPhantom
<1> QED
  BY <1>1, HangStep, TypeCorrect, PTL DEF Spec
=============================================================================
