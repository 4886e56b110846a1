--------------------------- MODULE YojGameProofs ---------------------------
(***************************************************************************)
(* Proofs about the yojimbo game, for any number of slots and clients and  *)
(* any board: types, the null pointer of server.cpp:155, the two messages  *)
(* that let a client play, and the moves of a client that has its slot's   *)
(* byte.                                                                   *)
(***************************************************************************)
EXTENDS YojGame, FiniteSetTheorems, TLAPS

Handling == INSTANCE FoldLeftTheorems WITH Op <- Handle
Moving == INSTANCE FoldLeftTheorems WITH Op <- Moved

LEMMA HandledIs ==
    ASSUME NEW g, NEW m PROVE FoldLeft(Handle, g, m) = Handling!Folded(g, m)
BY DEF Handling!Folded, FoldLeft, Handling!FoldLeft, MapThenFoldSet, Handling!MapThenFoldSet,
       Max, Handling!Max

LEMMA MovedIs ==
    ASSUME NEW at, NEW q PROVE FoldLeft(Moved, at, q) = Moving!Folded(at, q)
BY DEF Moving!Folded, FoldLeft, Moving!FoldLeft, MapThenFoldSet, Moving!MapThenFoldSet,
       Max, Moving!Max
(***************************************************************************)
(* Types.                                                                  *)
(***************************************************************************)

\* Taking element i out of a sequence keeps the others in their order.
LEMMA RemoveAtProperties ==
    ASSUME NEW S, NEW s \in Seq(S), NEW i \in DOMAIN s
    PROVE  /\ RemoveAt(s, i) \in Seq(S)
           /\ Len(RemoveAt(s, i)) = Len(s) - 1
           /\ \A j \in 1..(Len(s) - 1) :
                 RemoveAt(s, i)[j] = IF j < i THEN s[j] ELSE s[j + 1]
<1> DEFINE a == SubSeq(s, 1, i - 1)
           b == SubSeq(s, i + 1, Len(s))
<1>1. /\ a \in Seq(S) /\ Len(a) = i - 1
      /\ \A j \in 1..(i - 1) : a[j] = s[j]
  OBVIOUS
<1>2. /\ b \in Seq(S) /\ Len(b) = Len(s) - i
      /\ \A j \in 1..(Len(s) - i) : b[j] = s[j + i]
  OBVIOUS
<1> HIDE DEF a, b
<1>3. /\ a \o b \in Seq(S)
      /\ Len(a \o b) = Len(s) - 1
      /\ \A j \in 1..(Len(s) - 1) :
            (a \o b)[j] = IF j < i THEN s[j] ELSE s[j + 1]
  BY <1>1, <1>2
<1> QED
  BY <1>3 DEF a, b, RemoveAt

\* Of the members of a finite set of numbers, each place in their order is taken by one.
LEMMA InOrderOf ==
    ASSUME NEW S, S \subseteq Nat, IsFiniteSet(S), NEW k \in Nat, k < Cardinality(S)
    PROVE  \E s \in S : Cardinality({t \in S : t < s}) = k
<1> DEFINE Below(s) == {t \in S : t < s}
           T == {n \in Nat : n < Cardinality(S) => \E s \in S : Cardinality(Below(s)) = n}
<1>1. 0 \in T
  <2> SUFFICES ASSUME 0 < Cardinality(S) PROVE \E s \in S : Cardinality(Below(s)) = 0
    OBVIOUS
  <2>1. S # {}
    BY FS_EmptySet
  <2>2. PICK s \in S : \A t \in S : s <= t
    BY <2>1, Handling!Least
  <2>3. Below(s) = {}
    <3>1. \A t \in S : ~(t < s)
      BY <2>2
    <3> QED BY <3>1
  <2> QED BY <2>3, FS_EmptySet
<1>2. ASSUME NEW n \in Nat, n \in T PROVE n + 1 \in T
  <2> SUFFICES ASSUME n + 1 < Cardinality(S) PROVE \E s \in S : Cardinality(Below(s)) = n + 1
    OBVIOUS
  <2>0. Cardinality(S) \in Nat
    BY FS_CardinalityType
  <2>1. PICK s \in S : Cardinality(Below(s)) = n
    BY <1>2, <2>0
  <2>2. IsFiniteSet(Below(s)) /\ s \notin Below(s)
    BY FS_Subset
  <2>3. Cardinality(Below(s) \union {s}) = n + 1
    BY <2>1, <2>2, FS_AddElement
  <2>4. S \ (Below(s) \union {s}) # {}
    <3> SUFFICES ASSUME S = Below(s) \union {s} PROVE FALSE
      OBVIOUS
    <3> HIDE DEF Below
    <3> QED BY <2>3, <2>0
  <2>5. PICK r \in S \ (Below(s) \union {s}) : \A t \in S \ (Below(s) \union {s}) : r <= t
    BY <2>4, Handling!Least
  <2>6. Below(r) = Below(s) \union {s}
    <3>1. \A t \in S : t < r => t \in Below(s) \union {s}
      BY <2>5
    <3>2. s < r /\ \A t \in S : t < s => t < r
      BY <2>5
    <3> QED BY <3>1, <3>2
  <2> QED BY <2>3, <2>6
<1>3. Nat \subseteq T
  <2> HIDE DEF T
  <2> QED BY <1>1, <1>2, Handling!Induction
<1> QED BY <1>3

LEMMA SpawnProperties == SpawnCell \subseteq Cell /\ Origin \in Cell
BY MapAssumption DEF SpawnCell, Cell, Origin

LEMMA MoveProperties ==
    ASSUME NEW p \in Cell, NEW q \in PossibleMoves(p)
    PROVE  q \in Cell /\ Near(p, q)
BY MapAssumption DEF PossibleMoves, Cell, Near

LEMMA OccupiedFinite == Occupied \subseteq Nat /\ IsFiniteSet(Occupied)
<1>1. Slots \subseteq Nat /\ IsFiniteSet(Slots)
  BY FS_Interval, SlotsAssumption DEF Slots
<1> QED BY <1>1, FS_Subset DEF Occupied

LEMMA PositionsType ==
    ASSUME NEW at \in [Slots -> Cell]
    PROVE  Positions(at) \in Seq(Message)
           /\ \A i \in DOMAIN Positions(at) : Positions(at)[i].type = "position"
<1> DEFINE n == Cardinality(Occupied)
           who(i) == CHOOSE s \in Occupied : Cardinality({t \in Occupied : t < s}) = i - 1
           entry(i) == [type |-> "position", id |-> who(i), at |-> at[who(i)]]
<1>1. n \in Nat
  BY OccupiedFinite, FS_CardinalityType
<1>2. ASSUME NEW i \in 1..n PROVE who(i) \in Occupied
  <2>1. i - 1 \in Nat /\ i - 1 < n
    BY <1>1
  <2>2. \E s \in Occupied : Cardinality({t \in Occupied : t < s}) = i - 1
    <3> HIDE DEF n
    <3> QED BY <2>1, OccupiedFinite, InOrderOf DEF n
  <2> QED BY <2>2
<1>3. ASSUME NEW i \in 1..n PROVE entry(i) \in Message /\ entry(i).type = "position"
  <2> HIDE DEF who
  <2> QED BY <1>2, <1>3 DEF Message, Occupied
<1>4. Positions(at) = [i \in 1..n |-> entry(i)]
  BY DEF Positions
<1> HIDE DEF n, who, entry
<1> QED BY <1>1, <1>3, <1>4

Known == UNION {[S -> Cell] : S \in SUBSET Slots}

LEMMA EntryType ==
    ASSUME NEW r \in Known, NEW s \in Slots, NEW p \in Cell PROVE Entry(r, s, p) \in Known
<1>1. PICK S \in SUBSET Slots : r \in [S -> Cell]
  BY DEF Known
<1>2. S \union {s} \in SUBSET Slots /\ Entry(r, s, p) \in [S \union {s} -> Cell]
  BY <1>1 DEF Entry
<1> QED BY <1>2 DEF Known

LEMMA GameIs ==
    ASSUME NEW a \in BOOLEAN, NEW b \in BOOLEAN, NEW p \in Cell, NEW r \in Known
    PROVE  [configured |-> a, spawned |-> b, at |-> p, remote |-> r] \in Game
BY DEF Game, Known

LEMMA GameFields ==
    ASSUME NEW g \in Game
    PROVE  /\ g.configured \in BOOLEAN /\ g.spawned \in BOOLEAN /\ g.at \in Cell /\ g.remote \in Known
           /\ g = [configured |-> g.configured, spawned |-> g.spawned, at |-> g.at, remote |-> g.remote]
BY DEF Game, Known

LEMMA GameAt == ASSUME NEW g \in Game, NEW p \in Cell PROVE [g EXCEPT !.at = p] \in Game
BY DEF Game

LEMMA NewGameType == NewGame \in Game
<1>1. <<>> \in [{} -> Cell]
  OBVIOUS
<1>2. <<>> \in Known
  BY <1>1 DEF Known
<1> QED BY <1>2, GameIs, SpawnProperties DEF NewGame

LEMMA HandleType ==
    ASSUME NEW g \in Game, NEW m \in Message
    PROVE  Handle(g, m) \in Game
<1>1. m.at \in Cell /\ m.id \in Slots
  BY DEF Message
<1>2. Entry(g.remote, m.id, m.at) \in Known
  BY <1>1, GameFields, EntryType
<1>3. /\ [g EXCEPT !.configured = (m.type = "config")] \in Game
      /\ [g EXCEPT !.spawned = TRUE, !.at = m.at] \in Game
      /\ [g EXCEPT !.at = m.at] \in Game
      /\ [g EXCEPT !.remote = Entry(@, m.id, m.at)] \in Game
  <2> DEFINE e == Entry(g.remote, m.id, m.at)
  <2> HIDE DEF e
  <2> QED BY <1>1, <1>2 DEF Game, Known, e
<1> QED BY <1>3 DEF Handle

\* A bundle is handled message by message.
LEMMA BundleType ==
    ASSUME NEW g \in Game, NEW b \in Seq(Message)
    PROVE  FoldLeft(Handle, g, b) \in Game
<1>1. DOMAIN b = 1..Len(b) /\ Len(b) \in Nat
  OBVIOUS
<1>2. \A x \in Game, i \in 1..Len(b) : Handle(x, b[i]) \in Game
  BY HandleType
<1>3. Handling!Folded(g, b) \in Game
  BY <1>1, <1>2, Handling!FoldType
<1>4. FoldLeft(Handle, g, b) = Handling!Folded(g, b)
  BY HandledIs
<1> QED BY <1>3, <1>4

LEMMA MovedType ==
    ASSUME NEW at \in [Slots -> Cell], NEW q \in Seq(Move)
    PROVE  FoldLeft(Moved, at, q) \in [Slots -> Cell]
<1>1. DOMAIN q = 1..Len(q) /\ Len(q) \in Nat
  OBVIOUS
<1>2. ASSUME NEW x \in [Slots -> Cell], NEW i \in 1..Len(q)
      PROVE  Moved(x, q[i]) \in [Slots -> Cell]
  <2>1. q[i] \in Move
    OBVIOUS
  <2>2. q[i].at \in Cell
    BY <2>1 DEF Move
  <2> QED BY <2>2 DEF Moved
<1>3. Moving!Folded(at, q) \in [Slots -> Cell]
  <2> HIDE DEF Moved
  <2> QED BY <1>1, <1>2, Moving!FoldType
<1>4. FoldLeft(Moved, at, q) = Moving!Folded(at, q)
  BY MovedIs
<1> QED BY <1>3, <1>4

LEMMA InitType == Init => TypeOK
<1> SUFFICES ASSUME Init PROVE TypeOK
  OBVIOUS
<1>1. NewGame \in Game
  BY NewGameType
<1>2. 0 \in Slots
  BY SlotsAssumption DEF Slots
<1> QED BY <1>1, <1>2, SpawnProperties, BoundsAssumption DEF Init, TypeOK

LEMMA WelcomeType ==
    ASSUME TypeOK, NEW s \in Slots, NEW p \in Cell, NEW t \in Slots
    PROVE  Welcome(s, p)[t] \in Seq(Message)
<1> DEFINE msg(type) == [type |-> type, id |-> s, at |-> p]
           own == IF t = s THEN <<msg("config"), msg("spawn")>> ELSE <<>>
           all == IF t \in Occupied THEN <<msg("join")>> ELSE <<>>
<1>1. msg("config") \in Message /\ msg("spawn") \in Message /\ msg("join") \in Message
  BY DEF Message
<1> HIDE DEF msg
<1>2. own \in Seq(Message) /\ all \in Seq(Message) /\ outbox[t] \in Seq(Message)
  BY <1>1 DEF TypeOK
<1>3. Welcome(s, p)[t] = outbox[t] \o own \o all
  BY DEF Welcome, msg
<1> HIDE DEF own, all
<1> QED BY <1>2, <1>3

LEMMA NextSlotType ==
    ASSUME TypeOK, NEW next, NextSlot(next)
    PROVE  slot' \in Slots /\ server' \in {server, next}
BY SlotsAssumption DEF NextSlot, TypeOK, Slots

LEMMA TickType == TypeOK /\ Tick => TypeOK'
<1> SUFFICES ASSUME TypeOK, Tick PROVE TypeOK'
  OBVIOUS
<1> USE DEF clientVars
<1>1. CASE SendPackets
  <2>1. wire' \in [Clients -> Seq(Seq(Message))]
    <3>1. ASSUME NEW c \in Clients, \E s \in Slots : occupant[s] = c
          PROVE  Append(wire[c], outbox[CHOOSE s \in Slots : occupant[s] = c]) \in Seq(Seq(Message))
      <4>1. (CHOOSE s \in Slots : occupant[s] = c) \in Slots
        BY <3>1
      <4>2. outbox[CHOOSE s \in Slots : occupant[s] = c] \in Seq(Message) /\ wire[c] \in Seq(Seq(Message))
        BY <4>1 DEF TypeOK
      <4> QED BY <4>2
    <3>2. \A c \in Clients : wire[c] \in Seq(Seq(Message))
      BY DEF TypeOK
    <3>3. wire' = [c \in Clients |->
          IF phase[c] = "running" /\ \E s \in Slots : occupant[s] = c /\ outbox[s] # <<>>
          THEN Append(wire[c], outbox[CHOOSE s \in Slots : occupant[s] = c])
          ELSE wire[c]]
      BY <1>1 DEF SendPackets
    <3> QED BY <3>1, <3>2, <3>3
  <2> QED BY <1>1, <2>1 DEF SendPackets, TypeOK
<1>2. CASE NewPlayer
  <2>1. slot' \in Slots /\ server' \in {server, "drain"} /\ slot \in Slots
    BY <1>2, NextSlotType DEF NewPlayer, TypeOK
  <2>2. PICK p \in Cell : pos' = [pos EXCEPT ![slot] = p] /\ outbox' = Welcome(slot, p)
    BY <1>2, SpawnProperties DEF NewPlayer
  <2>3. outbox' \in [Slots -> Seq(Message)]
    <3>1. \A t \in Slots : Welcome(slot, p)[t] \in Seq(Message)
      BY <2>1, WelcomeType
    <3>2. Welcome(slot, p) = [t \in Slots |-> Welcome(slot, p)[t]]
      BY DEF Welcome
    <3> QED BY <2>2, <3>1, <3>2
  <2> QED BY <1>2, <2>1, <2>2, <2>3 DEF NewPlayer, TypeOK
<1>3. CASE NoRoomToSpawn
  BY <1>3 DEF NoRoomToSpawn, TypeOK
<1>4. CASE KeepOrRemovePlayer
  <2>1. slot' \in Slots /\ server' \in {server, "drain"}
    BY <1>4, NextSlotType DEF KeepOrRemovePlayer
  <2>2. owner' \in [Slots -> Clients \union {Nobody}] /\ pos' \in [Slots -> Cell]
    BY <1>4, SpawnProperties DEF KeepOrRemovePlayer, TypeOK
  <2> QED BY <1>4, <2>1, <2>2 DEF KeepOrRemovePlayer, TypeOK
<1>5. CASE ReceiveMove
  <2>1. PICK i \in Deliverable(toServer[occupant[slot]]) :
          /\ queue' = Append(queue, toServer[occupant[slot]][i])
          /\ toServer' = [toServer EXCEPT ![occupant[slot]] = RemoveAt(@, i)]
    BY <1>5 DEF ReceiveMove
  <2>2. occupant[slot] \in Clients
    BY <1>5 DEF ReceiveMove, Occupied, TypeOK
  <2>3. toServer[occupant[slot]] \in Seq(Move) /\ i \in DOMAIN toServer[occupant[slot]]
    BY <2>2 DEF TypeOK, Deliverable
  <2>4. RemoveAt(toServer[occupant[slot]], i) \in Seq(Move) /\ toServer[occupant[slot]][i] \in Move
    BY <2>3, RemoveAtProperties
  <2>5. queue' \in Seq(Move) /\ toServer' \in [Clients -> Seq(Move)]
    BY <2>1, <2>2, <2>4 DEF TypeOK
  <2> QED BY <1>5, <2>5 DEF ReceiveMove, TypeOK
<1>6. CASE NoMoreMoves
  <2>1. slot' \in Slots /\ server' \in {server, "update"}
    BY <1>6, NextSlotType DEF NoMoreMoves
  <2> QED BY <1>6, <2>1 DEF NoMoreMoves, TypeOK
<1>7. CASE UpdatePlayerPositions
  <2>1. pos' \in [Slots -> Cell]
    BY <1>7, MovedType DEF UpdatePlayerPositions, TypeOK
  <2>2. outbox' \in [Slots -> Seq(Message)]
    <3>1. Positions(pos') \in Seq(Message)
      BY <2>1, PositionsType
    <3>2. outbox \in [Slots -> Seq(Message)]
      BY DEF TypeOK
    <3>3. \A t \in Slots : outbox[t] \in Seq(Message) /\ outbox[t] \o Positions(pos') \in Seq(Message)
      <4> HIDE DEF Positions
      <4> QED BY <3>1, <3>2
    <3>4. \/ outbox' = outbox
          \/ outbox' = [s \in Slots |-> IF s \in Occupied THEN outbox[s] \o Positions(pos') ELSE outbox[s]]
      BY <1>7 DEF UpdatePlayerPositions
    <3> QED BY <3>2, <3>3, <3>4
  <2> QED BY <1>7, <2>1, <2>2 DEF UpdatePlayerPositions, TypeOK
<1> QED BY <1>1, <1>2, <1>3, <1>4, <1>5, <1>6, <1>7 DEF Tick

LEMMA LibraryType == TypeOK /\ LibraryStep => TypeOK'
<1> SUFFICES ASSUME TypeOK, LibraryStep PROVE TypeOK'
  OBVIOUS
<1> USE DEF clientVars, serverVars
<1>1. CASE NothingMore
  BY <1>1 DEF NothingMore, TypeOK
<1>2. ASSUME NEW s \in Slots, Disconnected(s) \/ TimedOut(s) PROVE TypeOK'
  <2>1. occupant[s] \in Clients /\ FreeSlot(s)
    BY <1>2 DEF Disconnected, TimedOut, Occupied, TypeOK
  <2>2. /\ occupant' \in [Slots -> Clients \union {Nobody}]
        /\ outbox' \in [Slots -> Seq(Message)] /\ toServer' \in [Clients -> Seq(Move)]
    BY <2>1 DEF FreeSlot, TypeOK
  <2>3. server' \in {server, "send"} /\ UNCHANGED <<reliable, slot, owner, pos, queue, clientVars, wire>>
    BY <1>2 DEF Disconnected, TimedOut
  <2> QED BY <2>2, <2>3 DEF TypeOK
<1>3. ASSUME NEW c \in Clients, Accept(c) PROVE TypeOK'
  BY <1>3 DEF Accept, TypeOK
<1>4. ASSUME NEW c \in Clients, DropBundle(c) PROVE TypeOK'
  <2>1. wire' \in [Clients -> Seq(Seq(Message))]
    BY <1>4, RemoveAtProperties DEF DropBundle, TypeOK
  <2> QED BY <1>4, <2>1 DEF DropBundle, TypeOK
<1> QED BY <1>1, <1>2, <1>3, <1>4 DEF LibraryStep

LEMMA ClientType == ASSUME TypeOK, NEW c \in Clients, ClientStep(c) PROVE TypeOK'
<1> USE DEF serverVars
<1>1. CASE ReceivePackets(c)
  <2>1. PICK i \in Deliverable(wire[c]) :
          /\ game' = [game EXCEPT ![c] = FoldLeft(Handle, @, wire[c][i])]
          /\ wire' = [wire EXCEPT ![c] = RemoveAt(@, i)]
    BY <1>1 DEF ReceivePackets
  <2>2. wire[c] \in Seq(Seq(Message)) /\ i \in DOMAIN wire[c]
    BY DEF Deliverable, TypeOK
  <2>3. wire[c][i] \in Seq(Message) /\ RemoveAt(wire[c], i) \in Seq(Seq(Message))
    BY <2>2, RemoveAtProperties
  <2>4. FoldLeft(Handle, game[c], wire[c][i]) \in Game
    BY <2>3, BundleType DEF TypeOK
  <2>5. game' = [game EXCEPT ![c] = FoldLeft(Handle, game[c], wire[c][i])]
    BY <2>1
  <2> HIDE DEF Game
  <2>6. game' \in [Clients -> Game] /\ wire' \in [Clients -> Seq(Seq(Message))]
    BY <2>1, <2>3, <2>4, <2>5 DEF TypeOK
  <2> QED BY <1>1, <2>6 DEF ReceivePackets, TypeOK
<1>2. CASE LocalMove(c)
  <2>1. PICK p \in PossibleMoves(game[c].at) :
          /\ game' = [game EXCEPT ![c].at = p]
          /\ toServer' = [toServer EXCEPT ![c] =
                IF Connected(c) THEN Append(@, [id |-> tag[c], at |-> p]) ELSE @]
    BY <1>2 DEF LocalMove
  <2>2. p \in Cell
    BY MoveProperties, GameFields DEF TypeOK
  <2>3. [game[c] EXCEPT !.at = p] \in Game
    BY <2>2, GameAt DEF TypeOK
  <2>4. [id |-> tag[c], at |-> p] \in Move /\ toServer[c] \in Seq(Move)
    BY <2>2 DEF TypeOK, Move
  <2>5. game' \in [Clients -> Game] /\ toServer' \in [Clients -> Seq(Move)]
    BY <2>1, <2>3, <2>4 DEF TypeOK
  <2>6. moves' \in 0..MaxMoves
    BY <1>2, BoundsAssumption DEF LocalMove, TypeOK
  <2> QED BY <1>2, <2>5, <2>6 DEF LocalMove, TypeOK
<1>3. CASE NoRoomToMove(c)
  BY <1>3 DEF NoRoomToMove, TypeOK
<1>4. CASE Quit(c)
  BY <1>4, NewGameType DEF Quit, TypeOK
<1> QED BY <1>1, <1>2, <1>3, <1>4 DEF ClientStep

LEMMA StepType == TypeOK /\ [Next]_vars => TypeOK'
<1>1. TypeOK /\ UNCHANGED vars => TypeOK'
  BY DEF vars, serverVars, clientVars, TypeOK, Occupied
<1> QED BY <1>1, TickType, LibraryType, ClientType DEF Next

\* Whatever connections come and go, in both modes.
THEOREM TypeCorrect == Spec => []TypeOK
  BY InitType, StepType, PTL DEF Spec

(***************************************************************************)
(* The null pointer.                                                       *)
(***************************************************************************)

\* Both loops start at slot 0.  Where the first has been, every connected client has a player;
\* after the loop all have one, until AdvanceTime lets connections come and go.
Reconciled ==
    /\ server \in {"send", "update", "advance"} => slot = 0
    /\ server = "reconcile" => \A s \in Slots : s < slot => (s \in Occupied => s \in Players)
    /\ server \in {"drain", "update"} => Occupied \subseteq Players
SlotInv ==
    /\ slot \in Slots
    /\ owner \in [Slots -> Clients \union {Nobody}]
    /\ occupant \in [Slots -> Clients \union {Nobody}]
NullInv == SlotInv /\ Reconciled /\ NeverNull

\* A step that leaves the cursor, players and occupants alone, and enters none
\* of the parts of the tick that rely on them, keeps the invariant.
LEMMA Elsewhere ==
    ASSUME NullInv, UNCHANGED <<slot, owner, occupant>>,
           \/ server' \in {server, "spinning"}
           \/ server \in {"send", "update", "advance"} /\ server' \in {"send", "advance"}
    PROVE  NullInv'
BY DEF NullInv, SlotInv, Reconciled, NeverNull, Occupied, Players

\* A round of the loop: the slot at hand ends up with a player if it has a
\* client, and no other slot loses one.
LEMMA Round ==
    ASSUME NullInv, server = "reconcile", UNCHANGED occupant,
           owner' \in [Slots -> Clients \union {Nobody}],
           slot \in Occupied => slot \in Players',
           \A s \in Slots \ {slot} : s \in Players => s \in Players',
           NextSlot("drain")
    PROVE  NullInv'
<1> Occupied' = Occupied
    BY DEF Occupied
<1> slot \in Slots /\ slot \in Nat /\ NumSlots \in Nat \ {0}
    BY SlotsAssumption DEF NullInv, SlotInv, Slots
<1>1. \A s \in Slots : s <= slot /\ s \in Occupied => s \in Players'
  <2> SUFFICES ASSUME NEW s \in Slots, s <= slot, s \in Occupied
               PROVE  s \in Players'
      OBVIOUS
  <2>1. CASE s = slot
      BY <2>1
  <2>2. CASE s # slot
    <3>1. s < slot
        BY <2>2 DEF Slots
    <3>2. s \in Players
        BY <3>1 DEF NullInv, Reconciled
    <3> QED
        BY <3>2, <2>2
  <2> QED
      BY <2>1, <2>2
<1>2. CASE slot + 1 \in Slots
  <2>1. slot' = slot + 1 /\ server' = "reconcile"
      BY <1>2 DEF NextSlot
  <2>2. \A s \in Slots : s < slot' => s <= slot
      BY <2>1 DEF Slots
  <2> QED
      BY <1>1, <1>2, <2>1, <2>2 DEF NullInv, SlotInv, Reconciled, NeverNull
<1>3. CASE slot + 1 \notin Slots
  <2>1. slot' = 0 /\ server' = "drain" /\ 0 \in Slots
      BY <1>3 DEF NextSlot, Slots
  <2>2. \A s \in Slots : s <= slot
      BY <1>3 DEF Slots
  <2>3. Occupied \subseteq Players'
      BY <1>1, <2>2 DEF Occupied
  <2> QED
      BY <2>1, <2>3 DEF NullInv, SlotInv, Reconciled, NeverNull
<1> QED
    BY <1>2, <1>3

\* Outside the two loops the cursor stays a slot and nothing else counts.
LEMMA InAdvance ==
    ASSUME NullInv, server = "advance", server' \in {"advance", "send"},
           UNCHANGED <<slot, owner>>,
           occupant' \in [Slots -> Clients \union {Nobody}]
    PROVE  NullInv'
BY DEF NullInv, SlotInv, Reconciled, NeverNull

LEMMA NullInvInit == Init => NullInv
BY SlotsAssumption DEF Init, NullInv, SlotInv, Reconciled, NeverNull, Slots

LEMMA NullInvStep == NullInv /\ [Next]_vars => NullInv'
<1> SUFFICES ASSUME NullInv, [Next]_vars PROVE NullInv'
    OBVIOUS
<1> USE DEF serverVars, clientVars
<1> /\ slot \in Slots
    /\ owner \in [Slots -> Clients \union {Nobody}]
    /\ occupant \in [Slots -> Clients \union {Nobody}]
    BY DEF NullInv, SlotInv
<1>1. CASE SendPackets
  <2>1. UNCHANGED <<slot, owner, occupant>> /\ server' = "reconcile" /\ server = "send"
      BY <1>1 DEF SendPackets
  <2>2. slot = 0
      BY <2>1 DEF NullInv, Reconciled
  <2>3. \A s \in Slots : ~(s < slot')
      BY <2>1, <2>2 DEF Slots
  <2> QED
      BY <2>1, <2>3 DEF NullInv, SlotInv, Reconciled, NeverNull
<1>2. CASE NewPlayer
  <2>1. /\ server = "reconcile" /\ UNCHANGED occupant /\ NextSlot("drain")
        /\ slot \in Occupied
        /\ owner' = [owner EXCEPT ![slot] = occupant[slot]]
      BY <1>2 DEF NewPlayer
  <2>2. occupant[slot] \in Clients \union {Nobody} /\ occupant[slot] # Nobody
      BY <2>1 DEF Occupied
  <2>3. slot \in Players' /\ \A s \in Slots \ {slot} : s \in Players => s \in Players'
      BY <2>1, <2>2 DEF Players
  <2> QED
      BY <2>1, <2>2, <2>3, Round
<1>3. CASE KeepOrRemovePlayer
  <2>1. /\ server = "reconcile" /\ UNCHANGED occupant /\ NextSlot("drain")
        /\ slot \notin Occupied \ Players
        /\ \/ /\ slot \notin Occupied
              /\ owner' = [owner EXCEPT ![slot] = Nobody]
           \/ UNCHANGED owner
      BY <1>3 DEF KeepOrRemovePlayer
  <2>2. /\ owner' \in [Slots -> Clients \union {Nobody}]
        /\ slot \in Occupied => slot \in Players'
        /\ \A s \in Slots \ {slot} : s \in Players => s \in Players'
      BY <2>1 DEF Players
  <2> QED
      BY <2>1, <2>2, Round
<1>4. CASE NoMoreMoves
  <2>1. /\ server = "drain" /\ UNCHANGED <<owner, occupant>>
        /\ server' = "drain" \/ (server' = "update" /\ slot' = 0)
        /\ slot' \in Slots
      BY <1>4, SlotsAssumption DEF NoMoreMoves, NextSlot, Slots
  <2>2. Occupied \subseteq Players /\ Occupied' = Occupied /\ Players' = Players
      BY <2>1 DEF NullInv, Reconciled, Occupied, Players
  <2> QED
      BY <2>1, <2>2 DEF NullInv, SlotInv, Reconciled, NeverNull
<1>5. CASE UpdatePlayerPositions
  <2>1. server = "update" /\ UNCHANGED <<slot, owner, occupant>>
      BY <1>5 DEF UpdatePlayerPositions
  <2>2. Occupied \subseteq Players
      BY <2>1 DEF NullInv, Reconciled
  <2>3. server' = "advance"
      BY <1>5, <2>2 DEF UpdatePlayerPositions
  <2> QED
      BY <2>1, <2>3, Elsewhere
<1>6. CASE NoRoomToSpawn \/ ReceiveMove \/ NothingMore
  <2>1. /\ UNCHANGED <<slot, owner, occupant>>
        /\ \/ server' \in {server, "spinning"}
           \/ server = "advance" /\ server' = "send"
      BY <1>6 DEF NoRoomToSpawn, ReceiveMove, NothingMore
  <2> QED
      BY <2>1, Elsewhere
<1>7. ASSUME NEW s \in Slots, Disconnected(s) \/ TimedOut(s) PROVE NullInv'
  <2>1. /\ server = "advance" /\ server' \in {"advance", "send"}
        /\ UNCHANGED <<slot, owner>>
        /\ occupant' = [occupant EXCEPT ![s] = Nobody]
      BY <1>7 DEF Disconnected, TimedOut, FreeSlot
  <2> QED
      BY <2>1, InAdvance
<1>8. ASSUME NEW c \in Clients, Accept(c) PROVE NullInv'
  <2>1. /\ server = "advance" /\ server' = "advance" /\ UNCHANGED <<slot, owner>>
        /\ \E s \in Slots : occupant' = [occupant EXCEPT ![s] = c]
      BY <1>8 DEF Accept
  <2> QED
      BY <2>1, InAdvance
<1>9. ASSUME NEW c \in Clients, ClientStep(c) \/ DropBundle(c) PROVE NullInv'
  <2>1. UNCHANGED <<slot, owner, occupant, server>>
      BY <1>9 DEF ClientStep, DropBundle, ReceivePackets, LocalMove, NoRoomToMove, Quit
  <2> QED
      BY <2>1, Elsewhere
<1>10. CASE UNCHANGED vars
  <2>1. UNCHANGED <<slot, owner, occupant, server>>
      BY <1>10 DEF vars
  <2> QED
      BY <2>1, Elsewhere
<1> QED
    BY <1>1, <1>2, <1>3, <1>4, <1>5, <1>6, <1>7, <1>8, <1>9, <1>10
    DEF Next, Tick, LibraryStep

\* The server of the yojimbo game never broadcasts the position of a player
\* that is not there, whatever connections the library makes and ends.
THEOREM ServerNeverNull == Spec => []NeverNull
<1>1. NullInv => NeverNull
    BY DEF NullInv
<1> QED
    BY <1>1, NullInvInit, NullInvStep, PTL DEF Spec

(***************************************************************************)
(* The configuration and the spawn point.                                  *)
(***************************************************************************)

\* In what was sent to a slot in one tick, and so in one packet, the spawn point
\* comes right behind the configuration.
Paired(b) ==
    \A i \in 1..Len(b) : b[i].type = "config" => i + 1 \in 1..Len(b) /\ b[i + 1].type = "spawn"

SpawnInv ==
    /\ \A s \in Slots : Paired(outbox[s])
    /\ \A c \in Clients : \A k \in 1..Len(wire[c]) : Paired(wire[c][k])
    /\ MovesFromSpawn

LEMMA PairedJoined ==
    ASSUME NEW a \in Seq(Message), NEW b \in Seq(Message), Paired(a), Paired(b)
    PROVE  Paired(a \o b)
<1> DEFINE ab == a \o b
<1>1. /\ Len(ab) = Len(a) + Len(b)
      /\ \A i \in 1..Len(a) : ab[i] = a[i]
      /\ \A i \in 1..Len(b) : ab[Len(a) + i] = b[i]
      /\ Len(a) \in Nat /\ Len(b) \in Nat
  OBVIOUS
<1> HIDE DEF ab
<1> SUFFICES ASSUME NEW i \in 1..Len(ab), ab[i].type = "config"
             PROVE  i + 1 \in 1..Len(ab) /\ ab[i + 1].type = "spawn"
  BY DEF Paired, ab
<1>2. CASE i \in 1..Len(a)
  <2>1. i + 1 \in 1..Len(a) /\ a[i + 1].type = "spawn"
    BY <1>1, <1>2 DEF Paired
  <2> QED BY <2>1, <1>1
<1>3. CASE i \notin 1..Len(a)
  <2>1. PICK j \in 1..Len(b) : i = Len(a) + j
    <3>1. i - Len(a) \in 1..Len(b) /\ i = Len(a) + (i - Len(a))
      BY <1>1, <1>3
    <3> QED BY <3>1
  <2>2. j + 1 \in 1..Len(b) /\ b[j + 1].type = "spawn"
    BY <2>1, <1>1 DEF Paired
  <2>3. i + 1 = Len(a) + (j + 1) /\ i + 1 \in 1..Len(ab)
    BY <2>1, <2>2, <1>1
  <2> QED BY <2>2, <2>3, <1>1
<1> QED BY <1>2, <1>3

\* A message that is no configuration asks for nothing.
LEMMA PairedWithout ==
    ASSUME NEW b, \A i \in 1..Len(b) : b[i].type # "config" PROVE Paired(b)
BY DEF Paired

LEMMA PairedWelcome ==
    ASSUME TypeOK, NEW s \in Slots, NEW p \in Cell, NEW t \in Slots, Paired(outbox[t])
    PROVE  Paired(Welcome(s, p)[t])
<1> DEFINE msg(type) == [type |-> type, id |-> s, at |-> p]
           own == IF t = s THEN <<msg("config"), msg("spawn")>> ELSE <<>>
           all == IF t \in Occupied THEN <<msg("join")>> ELSE <<>>
<1>1. /\ msg("config") \in Message /\ msg("spawn") \in Message /\ msg("join") \in Message
      /\ msg("config").type = "config" /\ msg("spawn").type = "spawn" /\ msg("join").type = "join"
  BY DEF Message
<1> HIDE DEF msg
<1>2. own \in Seq(Message) /\ all \in Seq(Message) /\ outbox[t] \in Seq(Message)
  BY <1>1 DEF TypeOK
<1>3. Paired(own)
  BY <1>1 DEF Paired
<1>4. Paired(all)
  BY <1>1 DEF Paired
<1>5. Welcome(s, p)[t] = outbox[t] \o own \o all
  BY DEF Welcome, msg
<1> HIDE DEF own, all
<1>6. outbox[t] \o own \in Seq(Message) /\ Paired(outbox[t] \o own)
  BY <1>2, <1>3, PairedJoined
<1> QED BY <1>2, <1>4, <1>5, <1>6, PairedJoined

\* A client that has handled a whole bundle does not know the one without the other.
LEMMA BundleSpawns ==
    ASSUME NEW g \in Game, g.configured => g.spawned, NEW b \in Seq(Message), Paired(b)
    PROVE  FoldLeft(Handle, g, b).configured => FoldLeft(Handle, g, b).spawned
<1> DEFINE n == Len(b)
           Between(i) == {x \in Game : \/ x.configured => x.spawned
                                       \/ i \in 1..n /\ b[i].type = "config"}
           R == [i \in 0..n |-> Between(i)]
<1>1. DOMAIN b = 1..n /\ n \in Nat
  OBVIOUS
<1>2. g \in R[0]
  BY <1>1
<1>3. ASSUME NEW i \in 1..n, NEW x \in R[i - 1] PROVE Handle(x, b[i]) \in R[i]
  <2>1. i - 1 \in 0..n /\ x \in Between(i - 1)
    OBVIOUS
  <2>2. x \in Game /\ b[i] \in Message
    BY <2>1
  <2>3. Handle(x, b[i]) \in Game
    BY <2>2, HandleType
  <2>4. CASE b[i].type = "config"
    BY <2>3, <2>4
  <2>5. CASE b[i].type # "config"
    <3>1. (x.configured => x.spawned) \/ b[i].type = "spawn"
      <4>1. CASE x.configured => x.spawned
        BY <4>1
      <4>2. CASE i - 1 \in 1..n /\ b[i - 1].type = "config"
        <5>1. i - 1 + 1 = i
          OBVIOUS
        <5> QED BY <5>1, <4>2 DEF Paired
      <4> QED BY <2>1, <4>1, <4>2
    <3>2. Handle(x, b[i]).configured => Handle(x, b[i]).spawned
      BY <2>2, <2>5, <3>1, GameFields DEF Handle
    <3> QED BY <2>3, <3>2
  <2> QED BY <2>4, <2>5
<1>4. Handling!Folded(g, b) \in R[n]
  <2> HIDE DEF R, n
  <2> QED BY <1>1, <1>2, <1>3, Handling!FoldInvariant
<1>5. Handling!Folded(g, b) \in Between(n)
  BY <1>1, <1>4
<1>6. ~(n \in 1..n /\ b[n].type = "config")
  <2> SUFFICES ASSUME n \in 1..n, b[n].type = "config" PROVE FALSE
    OBVIOUS
  <2>1. n + 1 \in 1..n
    BY DEF Paired
  <2> QED BY <1>1, <2>1
<1>7. Handling!Folded(g, b).configured => Handling!Folded(g, b).spawned
  <2> HIDE DEF n
  <2> QED BY <1>5, <1>6
<1> QED BY <1>7, HandledIs

\* The bundles that are left when one is taken off the wire.
LEMMA PairedRemoved ==
    ASSUME NEW w \in Seq(Seq(Message)), NEW i \in DOMAIN w,
           \A k \in 1..Len(w) : Paired(w[k]), NEW k \in 1..Len(RemoveAt(w, i))
    PROVE  Paired(RemoveAt(w, i)[k])
<1>1. k \in 1..(Len(w) - 1) /\ RemoveAt(w, i)[k] = IF k < i THEN w[k] ELSE w[k + 1]
  BY RemoveAtProperties
<1>2. k \in 1..Len(w) /\ k + 1 \in 1..Len(w)
  BY <1>1
<1> QED BY <1>1, <1>2

LEMMA SpawnInvInit == Init => SpawnInv
BY DEF Init, SpawnInv, MovesFromSpawn, Paired, NewGame

LEMMA SpawnInvTick == TypeOK /\ SpawnInv /\ Tick => SpawnInv'
<1> SUFFICES ASSUME TypeOK, SpawnInv, Tick PROVE SpawnInv'
  OBVIOUS
<1> USE DEF clientVars
<1>1. CASE SendPackets
  <2>1. outbox' = [s \in Slots |-> <<>>] /\ game' = game
    BY <1>1 DEF SendPackets
  <2>2. \A s \in Slots : Paired(outbox'[s])
    BY <2>1 DEF Paired
  <2>3. ASSUME NEW c \in Clients, NEW k \in 1..Len(wire'[c]) PROVE Paired(wire'[c][k])
    <3>1. CASE wire'[c] = wire[c]
      BY <3>1 DEF SpawnInv
    <3>2. CASE \E s \in Slots : wire'[c] = Append(wire[c], outbox[s])
      <4>1. PICK s \in Slots : wire'[c] = Append(wire[c], outbox[s])
        BY <3>2
      <4>2. wire[c] \in Seq(Seq(Message)) /\ outbox[s] \in Seq(Message)
        BY DEF TypeOK
      <4>3. wire'[c][k] = outbox[s] \/ (k \in 1..Len(wire[c]) /\ wire'[c][k] = wire[c][k])
        BY <4>1, <4>2
      <4> QED BY <4>3 DEF SpawnInv
    <3>3. wire'[c] = wire[c] \/ \E s \in Slots : wire'[c] = Append(wire[c], outbox[s])
      <4>1. CASE \E s \in Slots : occupant[s] = c
        <5>1. (CHOOSE s \in Slots : occupant[s] = c) \in Slots
          BY <4>1
        <5> QED BY <5>1, <1>1 DEF SendPackets
      <4>2. CASE ~\E s \in Slots : occupant[s] = c
        BY <4>2, <1>1 DEF SendPackets
      <4> QED BY <4>1, <4>2
    <3> QED BY <3>1, <3>2, <3>3
  <2> QED BY <2>1, <2>2, <2>3 DEF SpawnInv, MovesFromSpawn
<1>2. CASE NewPlayer
  <2>1. PICK p \in Cell : outbox' = Welcome(slot, p)
    BY <1>2, SpawnProperties DEF NewPlayer
  <2>2. \A t \in Slots : Paired(outbox'[t])
    BY <2>1, PairedWelcome DEF TypeOK, SpawnInv
  <2> QED BY <1>2, <2>2 DEF NewPlayer, SpawnInv, MovesFromSpawn
<1>3. CASE UpdatePlayerPositions
  <2>1. FoldLeft(Moved, pos, queue) \in [Slots -> Cell] /\ pos' = FoldLeft(Moved, pos, queue)
    BY <1>3, MovedType DEF UpdatePlayerPositions, TypeOK
  <2>2. Positions(pos') \in Seq(Message) /\ Paired(Positions(pos'))
    <3>1. DOMAIN Positions(pos') = 1..Len(Positions(pos'))
      BY <2>1, PositionsType
    <3> QED BY <2>1, <3>1, PositionsType, PairedWithout
  <2>3. ASSUME NEW t \in Slots PROVE Paired(outbox'[t])
    <3>1. outbox'[t] = outbox[t] \/ outbox'[t] = outbox[t] \o Positions(pos')
      BY <1>3 DEF UpdatePlayerPositions, TypeOK
    <3>2. outbox[t] \in Seq(Message) /\ Paired(outbox[t])
      BY DEF SpawnInv, TypeOK
    <3> HIDE DEF Positions
    <3> QED BY <3>1, <3>2, <2>2, PairedJoined
  <2> QED BY <1>3, <2>3 DEF UpdatePlayerPositions, SpawnInv, MovesFromSpawn
<1>4. CASE NoRoomToSpawn \/ KeepOrRemovePlayer \/ ReceiveMove \/ NoMoreMoves
  <2>1. UNCHANGED <<outbox, wire, game>>
    BY <1>4 DEF NoRoomToSpawn, KeepOrRemovePlayer, ReceiveMove, NoMoreMoves
  <2> QED BY <2>1 DEF SpawnInv, MovesFromSpawn
<1> QED BY <1>1, <1>2, <1>3, <1>4 DEF Tick

LEMMA SpawnInvLibrary == TypeOK /\ SpawnInv /\ LibraryStep => SpawnInv'
<1> SUFFICES ASSUME TypeOK, SpawnInv, LibraryStep PROVE SpawnInv'
  OBVIOUS
<1> USE DEF clientVars, serverVars
<1>1. CASE NothingMore
  BY <1>1 DEF NothingMore, SpawnInv, MovesFromSpawn
<1>2. ASSUME NEW s \in Slots, Disconnected(s) \/ TimedOut(s) PROVE SpawnInv'
  <2>1. outbox' = [outbox EXCEPT ![s] = <<>>] /\ UNCHANGED <<wire, game>>
    BY <1>2 DEF Disconnected, TimedOut, FreeSlot
  <2>2. Paired(<<>>)
    BY DEF Paired
  <2> QED BY <2>1, <2>2 DEF SpawnInv, MovesFromSpawn, TypeOK
<1>3. ASSUME NEW c \in Clients, Accept(c) PROVE SpawnInv'
  BY <1>3 DEF Accept, SpawnInv, MovesFromSpawn
<1>4. ASSUME NEW c \in Clients, DropBundle(c) PROVE SpawnInv'
  <2>1. PICK i \in DOMAIN wire[c] : wire' = [wire EXCEPT ![c] = RemoveAt(wire[c], i)]
    BY <1>4 DEF DropBundle
  <2>2. UNCHANGED <<outbox, game>>
    BY <1>4 DEF DropBundle
  <2>3. ASSUME NEW d \in Clients, NEW k \in 1..Len(wire'[d]) PROVE Paired(wire'[d][k])
    BY <2>1, <2>3, PairedRemoved DEF SpawnInv, TypeOK
  <2> QED BY <2>2, <2>3 DEF SpawnInv, MovesFromSpawn
<1> QED BY <1>1, <1>2, <1>3, <1>4 DEF LibraryStep

LEMMA SpawnInvClient ==
    ASSUME TypeOK, SpawnInv, NEW c \in Clients, ClientStep(c) PROVE SpawnInv'
<1> USE DEF serverVars
<1>1. CASE ReceivePackets(c)
  <2>1. PICK i \in DOMAIN wire[c] :
          /\ game' = [game EXCEPT ![c] = FoldLeft(Handle, game[c], wire[c][i])]
          /\ wire' = [wire EXCEPT ![c] = RemoveAt(wire[c], i)]
    BY <1>1 DEF ReceivePackets, Deliverable
  <2>2. wire[c] \in Seq(Seq(Message)) /\ game[c] \in Game
    BY DEF TypeOK
  <2>3. wire[c][i] \in Seq(Message) /\ Paired(wire[c][i])
    <3>1. i \in 1..Len(wire[c])
      BY <2>2
    <3> QED BY <2>2, <3>1 DEF SpawnInv
  <2>4. game[c].configured => game[c].spawned
    BY DEF SpawnInv, MovesFromSpawn
  <2>5. FoldLeft(Handle, game[c], wire[c][i]).configured
          => FoldLeft(Handle, game[c], wire[c][i]).spawned
    BY <2>2, <2>3, <2>4, BundleSpawns
  <2>6. MovesFromSpawn'
    <3>1. game \in [Clients -> Game]
      BY DEF TypeOK
    <3> HIDE DEF Game
    <3> QED BY <2>1, <2>5, <3>1 DEF SpawnInv, MovesFromSpawn
  <2>7. ASSUME NEW d \in Clients, NEW k \in 1..Len(wire'[d]) PROVE Paired(wire'[d][k])
    BY <2>1, <2>2, <2>7, PairedRemoved DEF SpawnInv, TypeOK
  <2>8. UNCHANGED outbox
    BY <1>1 DEF ReceivePackets
  <2> QED BY <2>6, <2>7, <2>8 DEF SpawnInv
<1>2. CASE LocalMove(c)
  <2>1. PICK p : game' = [game EXCEPT ![c].at = p]
    BY <1>2 DEF LocalMove
  <2>2. UNCHANGED <<outbox, wire>>
    BY <1>2 DEF LocalMove
  <2>3. ASSUME NEW d \in Clients
        PROVE  game'[d].configured = game[d].configured /\ game'[d].spawned = game[d].spawned
    BY <2>1, GameFields DEF TypeOK
  <2> QED BY <2>2, <2>3 DEF SpawnInv, MovesFromSpawn
<1>3. CASE NoRoomToMove(c)
  <2>1. wire' = [wire EXCEPT ![c] = <<>>] /\ UNCHANGED <<outbox, game>>
    BY <1>3 DEF NoRoomToMove
  <2> QED BY <2>1 DEF SpawnInv, MovesFromSpawn, TypeOK
<1>4. CASE Quit(c)
  <2>1. wire' = [wire EXCEPT ![c] = <<>>] /\ game' = [game EXCEPT ![c] = NewGame] /\ UNCHANGED outbox
    BY <1>4 DEF Quit
  <2> QED BY <2>1 DEF SpawnInv, MovesFromSpawn, TypeOK, NewGame
<1> QED BY <1>1, <1>2, <1>3, <1>4 DEF ClientStep

LEMMA SpawnInvStep == TypeOK /\ SpawnInv /\ [Next]_vars => SpawnInv'
<1>1. TypeOK /\ SpawnInv /\ UNCHANGED vars => SpawnInv'
  BY DEF vars, serverVars, clientVars, SpawnInv, MovesFromSpawn
<1> QED BY <1>1, SpawnInvTick, SpawnInvLibrary, SpawnInvClient DEF Next

\* A client that may move knows where it is, in both modes: the two messages
\* share a packet, and a packet is handled as a whole.
THEOREM SpawnPointFirst == Spec => []MovesFromSpawn
<1>1. SpawnInv => MovesFromSpawn
  BY DEF SpawnInv
<1> QED BY <1>1, TypeCorrect, SpawnInvInit, SpawnInvStep, PTL DEF Spec

(***************************************************************************)
(* Who sits where.                                                         *)
(***************************************************************************)

\* A client sits in one slot at most, and one that has not come yet has left no
\* trace; nothing waits for a slot without a client.
Seating ==
    /\ \A s, t \in Slots : occupant[s] = occupant[t] /\ occupant[s] # Nobody => s = t
    /\ \A c \in Clients : phase[c] = "off" =>
          /\ \A s \in Slots : occupant[s] # c /\ owner[s] # c
          /\ wire[c] = <<>> /\ game[c] = NewGame
    /\ \A s \in Slots : occupant[s] = Nobody => outbox[s] = <<>>

LEMMA SeatingInit == Init => Seating
BY ClientsAssumption DEF Init, Seating

\* The slot a client's packets are sent from is the one it sits in.
LEMMA SeatOf ==
    ASSUME Seating, NEW c \in Clients, NEW s \in Slots, occupant[s] = c
    PROVE  (CHOOSE t \in Slots : occupant[t] = c) = s
<1>1. \A t \in Slots : occupant[t] = c => t = s
  BY ClientsAssumption DEF Seating
<1> QED BY <1>1

LEMMA SeatingTick == TypeOK /\ Seating /\ Tick => Seating'
<1> SUFFICES ASSUME TypeOK, Seating, Tick PROVE Seating'
  OBVIOUS
<1> USE DEF clientVars
<1>1. CASE SendPackets
  <2>1. \A c \in Clients : phase[c] = "off" => wire'[c] = wire[c]
    BY <1>1 DEF SendPackets
  <2> QED BY <1>1, <2>1 DEF SendPackets, Seating
<1>2. CASE NewPlayer
  <2>1. PICK p : outbox' = Welcome(slot, p)
    BY <1>2 DEF NewPlayer
  <2>2. slot \in Slots /\ occupant[slot] # Nobody /\ owner' = [owner EXCEPT ![slot] = occupant[slot]]
    BY <1>2 DEF NewPlayer, Occupied
  <2>3. ASSUME NEW t \in Slots, occupant[t] = Nobody PROVE outbox'[t] = <<>>
    <3>1. outbox'[t] = (outbox[t] \o <<>>) \o <<>>
      BY <2>1, <2>2, <2>3 DEF Welcome, Occupied
    <3>2. outbox[t] = <<>>
      BY <2>3 DEF Seating
    <3> QED BY <3>1, <3>2
  <2>4. \A c \in Clients : phase[c] = "off" => \A s \in Slots : owner'[s] # c
    BY <2>2 DEF Seating, TypeOK
  <2> QED BY <1>2, <2>3, <2>4 DEF NewPlayer, Seating
<1>3. CASE KeepOrRemovePlayer
  <2>1. \A s \in Slots : owner'[s] \in {owner[s], Nobody}
    BY <1>3 DEF KeepOrRemovePlayer, TypeOK
  <2> QED BY <1>3, <2>1, ClientsAssumption DEF KeepOrRemovePlayer, Seating
<1>4. CASE UpdatePlayerPositions
  <2>1. \A s \in Slots : occupant[s] = Nobody => outbox'[s] = outbox[s]
    <3> HIDE DEF Positions
    <3> QED BY <1>4 DEF UpdatePlayerPositions, Occupied
  <2> QED BY <1>4, <2>1 DEF UpdatePlayerPositions, Seating
<1>5. CASE NoRoomToSpawn \/ ReceiveMove \/ NoMoreMoves
  BY <1>5 DEF NoRoomToSpawn, ReceiveMove, NoMoreMoves, Seating
<1> QED BY <1>1, <1>2, <1>3, <1>4, <1>5 DEF Tick

LEMMA SeatingLibrary == TypeOK /\ Seating /\ LibraryStep => Seating'
<1> SUFFICES ASSUME TypeOK, Seating, LibraryStep PROVE Seating'
  OBVIOUS
<1> USE DEF clientVars, serverVars
<1>1. CASE NothingMore
  BY <1>1 DEF NothingMore, Seating
<1>2. ASSUME NEW s \in Slots, Disconnected(s) \/ TimedOut(s) PROVE Seating'
  <2>1. FreeSlot(s) /\ UNCHANGED <<owner, phase, game, wire>>
    BY <1>2 DEF Disconnected, TimedOut
  <2>2. \A t \in Slots : /\ occupant'[t] = IF t = s THEN Nobody ELSE occupant[t]
                         /\ outbox'[t] = IF t = s THEN <<>> ELSE outbox[t]
    BY <2>1 DEF FreeSlot, TypeOK
  <2> QED BY <2>1, <2>2, ClientsAssumption DEF Seating
<1>3. ASSUME NEW c \in Clients, Accept(c) PROVE Seating'
  <2>1. PICK s \in Slots : occupant[s] = Nobody /\ occupant' = [occupant EXCEPT ![s] = c]
    BY <1>3 DEF Accept, Occupied
  <2>2. phase[c] = "off" /\ phase' = [phase EXCEPT ![c] = "running"] /\ UNCHANGED <<owner, game, wire, outbox>>
    BY <1>3 DEF Accept
  <2>3. \A t \in Slots : occupant'[t] = IF t = s THEN c ELSE occupant[t]
    BY <2>1 DEF TypeOK
  <2>4. \A t \in Slots : occupant[t] # c
    BY <2>2 DEF Seating
  <2>5. \A d \in Clients : phase'[d] = "off" => phase[d] = "off" /\ d # c
    BY <2>2 DEF TypeOK
  <2>6. \A t, u \in Slots : occupant'[t] = occupant'[u] /\ occupant'[t] # Nobody => t = u
    BY <2>3, <2>4 DEF Seating
  <2> QED BY <2>1, <2>2, <2>3, <2>5, <2>6, ClientsAssumption DEF Seating
<1>4. ASSUME NEW c \in Clients, DropBundle(c) PROVE Seating'
  <2>1. ASSUME NEW d \in Clients, phase[d] = "off" PROVE wire'[d] = <<>>
    <3>1. wire[d] = <<>>
      BY <2>1 DEF Seating
    <3>2. d # c
      BY <1>4, <3>1 DEF DropBundle
    <3> QED BY <1>4, <3>1, <3>2 DEF DropBundle, TypeOK
  <2> QED BY <1>4, <2>1 DEF DropBundle, Seating
<1> QED BY <1>1, <1>2, <1>3, <1>4 DEF LibraryStep

LEMMA SeatingClient == ASSUME TypeOK, Seating, NEW c \in Clients, ClientStep(c) PROVE Seating'
<1> USE DEF serverVars
<1>1. /\ UNCHANGED <<occupant, owner, outbox>>
      /\ phase'[c] # "off"
      /\ \A d \in Clients \ {c} : phase'[d] = phase[d] /\ game'[d] = game[d] /\ wire'[d] = wire[d]
  <2>1. CASE ReceivePackets(c)
    BY <2>1 DEF ReceivePackets, TypeOK
  <2>2. CASE LocalMove(c)
    BY <2>2 DEF LocalMove, TypeOK
  <2>3. CASE NoRoomToMove(c)
    BY <2>3 DEF NoRoomToMove, TypeOK
  <2>4. CASE Quit(c)
    BY <2>4 DEF Quit, TypeOK
  <2> QED BY <2>1, <2>2, <2>3, <2>4 DEF ClientStep
<1> QED BY <1>1 DEF Seating

LEMMA SeatingStep == TypeOK /\ Seating /\ [Next]_vars => Seating'
<1>1. Seating /\ UNCHANGED vars => Seating'
  BY DEF vars, serverVars, clientVars, Seating
<1> QED BY <1>1, SeatingTick, SeatingLibrary, SeatingClient DEF Next

(***************************************************************************)
(* The configuration of a client that has a player.                        *)
(***************************************************************************)

Has(b, type) == \E i \in DOMAIN b : b[i].type = type

LEMMA HasJoined ==
    ASSUME NEW a \in Seq(Message), NEW b \in Seq(Message), NEW type
    PROVE  Has(a \o b, type) <=> Has(a, type) \/ Has(b, type)
<1> DEFINE ab == a \o b
<1>1. /\ Len(ab) = Len(a) + Len(b)
      /\ \A i \in 1..Len(a) : ab[i] = a[i]
      /\ \A i \in 1..Len(b) : ab[Len(a) + i] = b[i]
      /\ Len(a) \in Nat /\ Len(b) \in Nat
      /\ DOMAIN ab = 1..Len(ab) /\ DOMAIN a = 1..Len(a) /\ DOMAIN b = 1..Len(b)
  OBVIOUS
<1> HIDE DEF ab
<1>2. ASSUME NEW i \in DOMAIN ab PROVE i \in DOMAIN a \/ \E j \in DOMAIN b : i = Len(a) + j
  <2>1. CASE i <= Len(a)
    BY <1>1, <2>1
  <2>2. CASE i > Len(a)
    <3>1. i - Len(a) \in DOMAIN b /\ i = Len(a) + (i - Len(a))
      BY <1>1, <2>2
    <3> QED BY <3>1
  <2> QED BY <1>1, <2>1, <2>2
<1>3. Has(ab, type) => Has(a, type) \/ Has(b, type)
  BY <1>1, <1>2 DEF Has
<1>4. Has(a, type) => Has(ab, type)
  BY <1>1 DEF Has
<1>5. Has(b, type) => Has(ab, type)
  BY <1>1 DEF Has
<1> QED BY <1>3, <1>4, <1>5 DEF ab

LEMMA HasWelcome ==
    ASSUME TypeOK, NEW s \in Slots, NEW p \in Cell, NEW t \in Slots,
           NEW type \in {"config", "spawn"}
    PROVE  Has(Welcome(s, p)[t], type) <=> Has(outbox[t], type) \/ t = s
<1> DEFINE msg(kind) == [type |-> kind, id |-> s, at |-> p]
           own == IF t = s THEN <<msg("config"), msg("spawn")>> ELSE <<>>
           all == IF t \in Occupied THEN <<msg("join")>> ELSE <<>>
<1>1. /\ msg("config") \in Message /\ msg("spawn") \in Message /\ msg("join") \in Message
      /\ msg("config").type = "config" /\ msg("spawn").type = "spawn" /\ msg("join").type = "join"
  BY DEF Message
<1> HIDE DEF msg
<1>2. own \in Seq(Message) /\ all \in Seq(Message) /\ outbox[t] \in Seq(Message)
  BY <1>1 DEF TypeOK
<1>3. Has(own, type) <=> t = s
  <2>1. CASE t = s
    <3>1. own = <<msg("config"), msg("spawn")>> /\ 1 \in DOMAIN own /\ 2 \in DOMAIN own
      BY <2>1
    <3>2. own[1].type = "config" /\ own[2].type = "spawn"
      BY <1>1, <3>1
    <3> HIDE DEF own
    <3> QED BY <2>1, <3>1, <3>2 DEF Has
  <2>2. CASE t # s
    BY <2>2 DEF Has
  <2> QED BY <2>1, <2>2
<1>4. ~Has(all, type)
  BY <1>1 DEF Has
<1>5. Welcome(s, p)[t] = outbox[t] \o own \o all
  BY DEF Welcome, msg
<1> HIDE DEF own, all
<1>6. outbox[t] \o own \in Seq(Message) /\ (Has(outbox[t] \o own, type) <=> Has(outbox[t], type) \/ t = s)
  BY <1>2, <1>3, HasJoined
<1>7. Has((outbox[t] \o own) \o all, type) <=> Has(outbox[t] \o own, type) \/ Has(all, type)
  BY <1>2, <1>6, HasJoined
<1> QED BY <1>4, <1>5, <1>6, <1>7

\* The broadcast of positions brings neither.
LEMMA HasBroadcast ==
    ASSUME TypeOK, UpdatePlayerPositions, NEW t \in Slots, NEW type \in {"config", "spawn"}
    PROVE  Has(outbox'[t], type) <=> Has(outbox[t], type)
<1>1. FoldLeft(Moved, pos, queue) \in [Slots -> Cell] /\ pos' = FoldLeft(Moved, pos, queue)
  BY MovedType DEF UpdatePlayerPositions, TypeOK
<1>2. Positions(pos') \in Seq(Message) /\ ~Has(Positions(pos'), type)
  <2> HIDE DEF Positions
  <2> QED BY <1>1, PositionsType DEF Has
<1>3. outbox'[t] = outbox[t] \/ outbox'[t] = outbox[t] \o Positions(pos')
  BY DEF UpdatePlayerPositions, TypeOK
<1> HIDE DEF Positions
<1>4. outbox[t] \in Seq(Message)
  BY DEF TypeOK
<1>5. Has(outbox[t] \o Positions(pos'), type) <=> Has(outbox[t], type) \/ Has(Positions(pos'), type)
  BY <1>2, <1>4, HasJoined
<1> QED BY <1>2, <1>3, <1>5

LEMMA HandleKeeps ==
    ASSUME NEW g \in Game, NEW m \in Message
    PROVE  /\ g.configured \/ m.type = "config" => Handle(g, m).configured
           /\ g.spawned => Handle(g, m).spawned
<1> DEFINE e == Entry(g.remote, m.id, m.at)
<1> HIDE DEF e
<1>1. CASE ~g.configured
  <2>1. Handle(g, m) = [g EXCEPT !.configured = (m.type = "config")]
    BY <1>1 DEF Handle
  <2> QED BY <1>1, <2>1 DEF Game
<1>2. CASE g.configured
  <2>1. \/ Handle(g, m) = [g EXCEPT !.spawned = TRUE, !.at = m.at]
        \/ Handle(g, m) = g
        \/ Handle(g, m) = [g EXCEPT !.at = m.at]
        \/ Handle(g, m) = [g EXCEPT !.remote = e]
    BY <1>2 DEF Handle, e
  <2>2. g.configured \in BOOLEAN /\ g.spawned \in BOOLEAN
    BY DEF Game
  <2> QED BY <1>2, <2>1, <2>2 DEF Game
<1> QED BY <1>1, <1>2

\* A configuration is taken in wherever in its bundle it is, and kept.
LEMMA BundleConfigures ==
    ASSUME NEW g \in Game, NEW b \in Seq(Message), g.configured \/ Has(b, "config")
    PROVE  FoldLeft(Handle, g, b).configured
<1> DEFINE n == Len(b)
           After(i) == {x \in Game : (g.configured \/ \E j \in 1..i : b[j].type = "config") => x.configured}
           R == [i \in 0..n |-> After(i)]
<1>1. DOMAIN b = 1..n /\ n \in Nat
  OBVIOUS
<1>2. g \in R[0]
  BY <1>1
<1>3. ASSUME NEW i \in 1..n, NEW x \in R[i - 1] PROVE Handle(x, b[i]) \in R[i]
  <2>1. i - 1 \in 0..n /\ x \in After(i - 1)
    OBVIOUS
  <2>2. x \in Game /\ b[i] \in Message
    BY <2>1
  <2>3. Handle(x, b[i]) \in Game
    BY <2>2, HandleType
  <2>4. (x.configured \/ b[i].type = "config") => Handle(x, b[i]).configured
    BY <2>2, HandleKeeps
  <2>5. ASSUME \E j \in 1..i : b[j].type = "config"
        PROVE  b[i].type = "config" \/ \E j \in 1..(i - 1) : b[j].type = "config"
    <3>1. PICK j \in 1..i : b[j].type = "config"
      BY <2>5
    <3>2. j = i \/ j \in 1..(i - 1)
      OBVIOUS
    <3> QED BY <3>1, <3>2
  <2>6. Handle(x, b[i]) \in After(i)
    BY <2>1, <2>3, <2>4, <2>5
  <2> QED BY <2>6
<1>4. Handling!Folded(g, b) \in R[n]
  <2> HIDE DEF R, n
  <2> QED BY <1>1, <1>2, <1>3, Handling!FoldInvariant
<1>5. Handling!Folded(g, b) \in After(n)
  BY <1>1, <1>4
<1>6. Handling!Folded(g, b).configured
  BY <1>1, <1>5 DEF Has
<1> QED BY <1>6, HandledIs

\* What one step of the server or of the library may do to the wire to a client.
LEMMA WireOfTick ==
    ASSUME TypeOK, Seating, SendPackets, NEW c \in Clients
    PROVE  \/ wire'[c] = wire[c] /\ \A s \in Slots : ~(occupant[s] = c /\ phase[c] = "running" /\ outbox[s] # <<>>)
           \/ \E s \in Slots : /\ occupant[s] = c /\ phase[c] = "running" /\ outbox[s] # <<>>
                               /\ wire'[c] = Append(wire[c], outbox[s])
<1>1. CASE phase[c] = "running" /\ \E s \in Slots : occupant[s] = c /\ outbox[s] # <<>>
  <2>1. PICK s \in Slots : occupant[s] = c /\ outbox[s] # <<>>
    BY <1>1
  <2>2. (CHOOSE t \in Slots : occupant[t] = c) = s
    BY <2>1, SeatOf
  <2> QED BY <1>1, <2>1, <2>2 DEF SendPackets
<1>2. CASE ~(phase[c] = "running" /\ \E s \in Slots : occupant[s] = c /\ outbox[s] # <<>>)
  BY <1>2 DEF SendPackets
<1> QED BY <1>1, <1>2

\* Where a message is, after a bundle has been put on the wire, or taken off it.
LEMMA WireAppended ==
    ASSUME NEW w \in Seq(Seq(Message)), NEW b \in Seq(Message)
    PROVE  /\ DOMAIN Append(w, b) = DOMAIN w \union {Len(w) + 1}
           /\ Append(w, b)[Len(w) + 1] = b
           /\ \A i \in DOMAIN w : i # Len(w) + 1 /\ Append(w, b)[i] = w[i]
OBVIOUS

LEMMA WireShortened ==
    ASSUME NEW w \in Seq(Seq(Message)), 1 \in DOMAIN w
    PROVE  /\ \A i \in DOMAIN RemoveAt(w, 1) : i \in Int /\ i + 1 \in DOMAIN w /\ RemoveAt(w, 1)[i] = w[i + 1]
           /\ \A i \in DOMAIN w : i = 1 \/ (i - 1 \in DOMAIN RemoveAt(w, 1) /\ RemoveAt(w, 1)[i - 1] = w[i])
<1>1. /\ RemoveAt(w, 1) \in Seq(Seq(Message)) /\ Len(RemoveAt(w, 1)) = Len(w) - 1
      /\ \A j \in 1..(Len(w) - 1) : RemoveAt(w, 1)[j] = IF j < 1 THEN w[j] ELSE w[j + 1]
  BY RemoveAtProperties
<1>2. DOMAIN RemoveAt(w, 1) = 1..(Len(w) - 1) /\ DOMAIN w = 1..Len(w) /\ Len(w) \in Nat
  BY <1>1
<1>3. \A j \in 1..(Len(w) - 1) : RemoveAt(w, 1)[j] = w[j + 1]
  BY <1>1
<1> DEFINE r == RemoveAt(w, 1)
<1> HIDE DEF r
<1>4. \A i \in DOMAIN r : i \in Int /\ i + 1 \in DOMAIN w /\ r[i] = w[i + 1]
  BY <1>2, <1>3 DEF r
<1>5. ASSUME NEW i \in DOMAIN w, i # 1 PROVE i - 1 \in DOMAIN r /\ r[i - 1] = w[i]
  <2>1. i - 1 \in 1..(Len(w) - 1) /\ (i - 1) + 1 = i
    BY <1>2, <1>5
  <2> QED BY <2>1, <1>2, <1>3 DEF r
<1> QED BY <1>4, <1>5 DEF r

LEMMA OnItsWayIs ==
    ASSUME NEW c, NEW s
    PROVE  OnItsWay(c, s) <=> Has(outbox[s], "config") \/ \E i \in DOMAIN wire[c] : Has(wire[c][i], "config")
BY DEF OnItsWay, Has

LEMMA WelcomedTick ==
    ASSUME TypeOK, Seating, OwnersAreWelcomed, Tick PROVE OwnersAreWelcomed'
<1> SUFFICES ASSUME reliable', NEW s \in Slots, NEW c \in Clients,
                    occupant'[s] = c, owner'[s] = c, phase'[c] = "running"
             PROVE  game'[c].configured \/ OnItsWay(c, s)'
  BY DEF OwnersAreWelcomed
<1> USE DEF clientVars
<1>0. UNCHANGED <<reliable, occupant, phase, game>>
  BY DEF Tick, SendPackets, NewPlayer, NoRoomToSpawn, KeepOrRemovePlayer, ReceiveMove, NoMoreMoves,
         UpdatePlayerPositions
<1>1. OnItsWay(c, s)' <=> Has(outbox'[s], "config") \/ \E i \in DOMAIN wire'[c] : Has(wire'[c][i], "config")
  BY DEF OnItsWay, Has
<1>2. owner[s] = c => game[c].configured \/ OnItsWay(c, s)
  BY <1>0 DEF OwnersAreWelcomed
<1>3. CASE SendPackets
  <2>1. owner[s] = c
    BY <1>3 DEF SendPackets
  <2>2. wire[c] \in Seq(Seq(Message)) /\ outbox[s] \in Seq(Message)
    BY DEF TypeOK
  <2>3. CASE wire'[c] = wire[c] /\ outbox[s] = <<>>
    <3>1. ~Has(outbox[s], "config")
      BY <2>3 DEF Has
    <3> QED BY <2>1, <2>3, <3>1, <1>0, <1>1, <1>2, OnItsWayIs
  <2>4. CASE wire'[c] = Append(wire[c], outbox[s])
    <3>1. (\E i \in DOMAIN wire[c] : Has(wire[c][i], "config")) => \E i \in DOMAIN wire'[c] : Has(wire'[c][i], "config")
      BY <2>2, <2>4, WireAppended
    <3>2. Has(outbox[s], "config") => \E i \in DOMAIN wire'[c] : Has(wire'[c][i], "config")
      BY <2>2, <2>4, WireAppended
    <3> QED BY <2>1, <3>1, <3>2, <1>0, <1>1, <1>2, OnItsWayIs
  <2>5. \A t \in Slots : occupant[t] = c => t = s
    BY <1>0, ClientsAssumption DEF Seating
  <2> QED BY <1>0, <1>3, <2>3, <2>4, <2>5, WireOfTick
<1>4. CASE NewPlayer
  <2>1. PICK p \in Cell : outbox' = Welcome(slot, p)
    BY <1>4, SpawnProperties DEF NewPlayer
  <2>2. UNCHANGED wire /\ owner' = [owner EXCEPT ![slot] = occupant[slot]]
    BY <1>4 DEF NewPlayer
  <2>3. Has(outbox'[s], "config") <=> Has(outbox[s], "config") \/ s = slot
    BY <2>1, HasWelcome DEF TypeOK
  <2>4. s = slot \/ owner[s] = c
    BY <2>2 DEF TypeOK
  <2> QED BY <1>0, <1>1, <1>2, <2>2, <2>3, <2>4, OnItsWayIs
<1>5. CASE UpdatePlayerPositions
  <2>1. UNCHANGED <<wire, owner>>
    BY <1>5 DEF UpdatePlayerPositions
  <2>2. Has(outbox'[s], "config") <=> Has(outbox[s], "config")
    BY <1>5, HasBroadcast
  <2> QED BY <1>0, <1>1, <1>2, <2>1, <2>2, OnItsWayIs
<1>6. CASE KeepOrRemovePlayer
  <2>1. UNCHANGED <<wire, outbox>>
    BY <1>6 DEF KeepOrRemovePlayer
  <2>2. owner[s] = c
    BY <1>6, ClientsAssumption DEF KeepOrRemovePlayer, TypeOK
  <2> QED BY <1>0, <1>1, <1>2, <2>1, <2>2, OnItsWayIs
<1>7. CASE NoRoomToSpawn \/ ReceiveMove \/ NoMoreMoves
  <2>1. UNCHANGED <<wire, outbox, owner>>
    BY <1>7 DEF NoRoomToSpawn, ReceiveMove, NoMoreMoves
  <2> QED BY <1>0, <1>1, <1>2, <2>1, OnItsWayIs
<1> QED BY <1>3, <1>4, <1>5, <1>6, <1>7 DEF Tick

LEMMA WelcomedLibrary ==
    ASSUME TypeOK, Seating, OwnersAreWelcomed, LibraryStep PROVE OwnersAreWelcomed'
<1> SUFFICES ASSUME reliable', NEW s \in Slots, NEW c \in Clients,
                    occupant'[s] = c, owner'[s] = c, phase'[c] = "running"
             PROVE  game'[c].configured \/ OnItsWay(c, s)'
  BY DEF OwnersAreWelcomed
<1> USE DEF clientVars, serverVars
<1>0. UNCHANGED <<reliable, owner, game>>
  BY DEF LibraryStep, NothingMore, Disconnected, TimedOut, Accept, DropBundle
<1>1. OnItsWay(c, s)' <=> Has(outbox'[s], "config") \/ \E i \in DOMAIN wire'[c] : Has(wire'[c][i], "config")
  BY DEF OnItsWay, Has
<1>2. occupant[s] = c /\ phase[c] = "running" => game[c].configured \/ OnItsWay(c, s)
  BY <1>0 DEF OwnersAreWelcomed
<1>3. CASE NothingMore
  BY <1>0, <1>1, <1>2, <1>3, OnItsWayIs DEF NothingMore
<1>4. ASSUME NEW t \in Slots, Disconnected(t) \/ TimedOut(t) PROVE game'[c].configured \/ OnItsWay(c, s)'
  <2>1. FreeSlot(t) /\ UNCHANGED <<phase, wire>>
    BY <1>4 DEF Disconnected, TimedOut
  <2>2. t # s
    BY <2>1, ClientsAssumption DEF FreeSlot, TypeOK
  <2>3. occupant[s] = c /\ outbox'[s] = outbox[s]
    BY <2>1, <2>2 DEF FreeSlot, TypeOK
  <2> QED BY <1>0, <1>1, <1>2, <2>1, <2>3, OnItsWayIs
<1>5. ASSUME NEW d \in Clients, Accept(d) PROVE game'[c].configured \/ OnItsWay(c, s)'
  <2>1. phase[d] = "off" /\ UNCHANGED <<outbox, wire>>
    BY <1>5 DEF Accept
  <2>2. d # c
    BY <1>0, <2>1 DEF Seating
  <2>3. phase[c] = "running"
    BY <1>5, <2>2 DEF Accept, TypeOK
  <2>4. occupant[s] = c
    BY <1>5, <2>2 DEF Accept, TypeOK
  <2> QED BY <1>0, <1>1, <1>2, <2>1, <2>3, <2>4, OnItsWayIs
<1>6. ASSUME NEW d \in Clients, DropBundle(d) PROVE game'[c].configured \/ OnItsWay(c, s)'
  BY <1>0, <1>6 DEF DropBundle
<1> QED BY <1>3, <1>4, <1>5, <1>6 DEF LibraryStep

LEMMA WelcomedClient ==
    ASSUME TypeOK, OwnersAreWelcomed, NEW d \in Clients, ClientStep(d) PROVE OwnersAreWelcomed'
<1> SUFFICES ASSUME reliable', NEW s \in Slots, NEW c \in Clients,
                    occupant'[s] = c, owner'[s] = c, phase'[c] = "running"
             PROVE  game'[c].configured \/ OnItsWay(c, s)'
  BY DEF OwnersAreWelcomed
<1> USE DEF serverVars
<1>0. UNCHANGED <<reliable, owner, occupant, outbox>>
  BY DEF ClientStep, ReceivePackets, LocalMove, NoRoomToMove, Quit
<1>1. OnItsWay(c, s)' <=> Has(outbox'[s], "config") \/ \E i \in DOMAIN wire'[c] : Has(wire'[c][i], "config")
  BY DEF OnItsWay, Has
<1>2. phase[c] = "running" => game[c].configured \/ OnItsWay(c, s)
  BY <1>0 DEF OwnersAreWelcomed
<1>3. CASE d # c
  <2>1. UNCHANGED <<phase[c], game[c], wire[c]>>
    <3>1. CASE ReceivePackets(d)
      BY <3>1, <1>3 DEF ReceivePackets, TypeOK
    <3>2. CASE LocalMove(d)
      BY <3>2, <1>3 DEF LocalMove, TypeOK
    <3>3. CASE NoRoomToMove(d)
      BY <3>3, <1>3 DEF NoRoomToMove, TypeOK
    <3>4. CASE Quit(d)
      BY <3>4, <1>3 DEF Quit, TypeOK
    <3> QED BY <3>1, <3>2, <3>3, <3>4 DEF ClientStep
  <2> QED BY <1>0, <1>1, <1>2, <2>1, OnItsWayIs
<1>4. CASE d = c /\ ReceivePackets(c)
  <2>0. phase[c] = "running"
    BY <1>4 DEF ReceivePackets
  <2>1. /\ 1 \in DOMAIN wire[c]
        /\ game' = [game EXCEPT ![c] = FoldLeft(Handle, game[c], wire[c][1])]
        /\ wire' = [wire EXCEPT ![c] = RemoveAt(wire[c], 1)]
    <3>1. reliable
      BY <1>0
    <3>2. PICK i \in Deliverable(wire[c]) :
            /\ game' = [game EXCEPT ![c] = FoldLeft(Handle, @, wire[c][i])]
            /\ wire' = [wire EXCEPT ![c] = RemoveAt(@, i)]
      BY <1>4 DEF ReceivePackets
    <3>3. i = 1 /\ i \in DOMAIN wire[c]
      BY <3>1 DEF Deliverable
    <3> QED BY <3>2, <3>3
  <2>2. wire[c] \in Seq(Seq(Message)) /\ game[c] \in Game
    BY DEF TypeOK
  <2>3. wire[c][1] \in Seq(Message)
    BY <2>1, <2>2
  <2>4. game'[c] = FoldLeft(Handle, game[c], wire[c][1]) /\ wire'[c] = RemoveAt(wire[c], 1)
    <3>1. game \in [Clients -> Game] /\ wire \in [Clients -> Seq(Seq(Message))]
      BY DEF TypeOK
    <3> HIDE DEF Game
    <3> QED BY <2>1, <3>1
  <2>5. CASE game[c].configured \/ Has(wire[c][1], "config")
    BY <2>2, <2>3, <2>4, <2>5, BundleConfigures
  <2>6. CASE Has(outbox[s], "config")
    BY <1>0, <1>1, <2>6
  <2>7. CASE \E i \in DOMAIN wire[c] \ {1} : Has(wire[c][i], "config")
    <3>1. PICK i \in DOMAIN wire[c] \ {1} : Has(wire[c][i], "config")
      BY <2>7
    <3>2. i - 1 \in DOMAIN wire'[c] /\ wire'[c][i - 1] = wire[c][i]
      BY <2>1, <2>2, <2>4, <3>1, WireShortened
    <3> QED BY <1>1, <3>1, <3>2
  <2> QED BY <1>2, <2>0, <2>5, <2>6, <2>7, OnItsWayIs
<1>5. CASE d = c /\ LocalMove(c)
  <2>1. PICK p : game' = [game EXCEPT ![c].at = p]
    BY <1>5 DEF LocalMove
  <2>2. game'[c].configured = game[c].configured
    BY <2>1, GameFields DEF TypeOK
  <2>3. UNCHANGED <<phase, wire>>
    BY <1>5 DEF LocalMove
  <2> QED BY <1>0, <1>1, <1>2, <2>2, <2>3, OnItsWayIs
<1>6. CASE d = c /\ (NoRoomToMove(c) \/ Quit(c))
  <2>1. phase'[c] # "running"
    BY <1>6 DEF NoRoomToMove, Quit, TypeOK
  <2> QED BY <2>1
<1> QED BY <1>3, <1>4, <1>5, <1>6 DEF ClientStep

LEMMA WelcomedStep == TypeOK /\ Seating /\ OwnersAreWelcomed /\ [Next]_vars => OwnersAreWelcomed'
<1>1. OwnersAreWelcomed /\ UNCHANGED vars => OwnersAreWelcomed'
  BY DEF vars, serverVars, clientVars, OwnersAreWelcomed, OnItsWay
<1> QED BY <1>1, WelcomedTick, WelcomedLibrary, WelcomedClient DEF Next

\* With -r nobody who has a player waits in vain, whatever slots and connections there are.
THEOREM NobodyWaitsInVain == Spec => []OwnersAreWelcomed
<1>1. Init => OwnersAreWelcomed
  BY ClientsAssumption DEF Init, OwnersAreWelcomed
<1> QED BY <1>1, TypeCorrect, SeatingInit, SeatingStep, WelcomedStep, PTL DEF Spec

(***************************************************************************)
(* Spawn messages: what a bundle with or without one does to a client.     *)
(***************************************************************************)

None(w) == \A k \in DOMAIN w : ~Has(w[k], "spawn")

\* Of the spawn point one message at most is still to come, none if the client has it.
Once(spawned, b, w) ==
    /\ Has(b, "spawn") => ~spawned /\ None(w)
    /\ \A k \in DOMAIN w : Has(w[k], "spawn") =>
          ~spawned /\ \A l \in DOMAIN w : Has(w[l], "spawn") => l = k

SpawnsAt(b, p) == \A i \in DOMAIN b : b[i].type = "spawn" => b[i].at = p

LEMMA OnceSent ==
    ASSUME NEW w \in Seq(Seq(Message)), NEW b \in Seq(Message), NEW spawned,
           Once(spawned, b, w)
    PROVE  Once(spawned, <<>>, Append(w, b))
<1> DEFINE v == Append(w, b)
           n == Len(w) + 1
<1>1. /\ DOMAIN v = DOMAIN w \union {n} /\ v[n] = b
      /\ \A i \in DOMAIN w : i # n /\ v[i] = w[i]
  BY WireAppended
<1>2. ~Has(<<>>, "spawn")
  BY DEF Has
<1> HIDE DEF v, n
<1> QED BY <1>1, <1>2 DEF Once, None, v

LEMMA NoneSent ==
    ASSUME NEW w \in Seq(Seq(Message)), NEW b \in Seq(Message), None(w), ~Has(b, "spawn")
    PROVE  None(Append(w, b))
<1> DEFINE v == Append(w, b)
           n == Len(w) + 1
<1>1. /\ DOMAIN v = DOMAIN w \union {n} /\ v[n] = b
      /\ \A i \in DOMAIN w : i # n /\ v[i] = w[i]
  BY WireAppended
<1> HIDE DEF v, n
<1> QED BY <1>1 DEF None, v

LEMMA OnceReceived ==
    ASSUME NEW w \in Seq(Seq(Message)), 1 \in DOMAIN w, NEW b, NEW spawned, NEW after,
           Once(spawned, b, w), after => spawned \/ Has(w[1], "spawn")
    PROVE  Once(after, b, RemoveAt(w, 1))
<1> DEFINE r == RemoveAt(w, 1)
<1>1. \A i \in DOMAIN r : i \in Int /\ i + 1 \in DOMAIN w /\ r[i] = w[i + 1]
  BY WireShortened
<1>2. \A i \in DOMAIN r : i + 1 # 1
  <2>1. \A i \in DOMAIN w : i >= 1
    OBVIOUS
  <2>2. DOMAIN r = 1..(Len(w) - 1)
    BY RemoveAtProperties
  <2> QED BY <2>2
<1> HIDE DEF r
<1>3. Has(b, "spawn") => ~after /\ None(r)
  <2> SUFFICES ASSUME Has(b, "spawn") PROVE ~after /\ None(r)
    OBVIOUS
  <2>1. ~spawned /\ None(w)
    BY DEF Once
  <2> QED BY <2>1, <1>1 DEF None
<1>4. ASSUME NEW k \in DOMAIN r, Has(r[k], "spawn")
      PROVE  ~after /\ \A l \in DOMAIN r : Has(r[l], "spawn") => l = k
  <2>1. k + 1 \in DOMAIN w /\ Has(w[k + 1], "spawn")
    BY <1>1, <1>4
  <2>2. ~spawned /\ \A l \in DOMAIN w : Has(w[l], "spawn") => l = k + 1
    BY <2>1 DEF Once
  <2>3. ~Has(w[1], "spawn")
    BY <2>2, <1>2, <1>4
  <2>4. ASSUME NEW l \in DOMAIN r, Has(r[l], "spawn") PROVE l = k
    <3>1. l + 1 = k + 1
      BY <2>2, <2>4, <1>1
    <3> QED BY <3>1, <1>1
  <2> QED BY <2>2, <2>3, <2>4
<1> QED BY <1>3, <1>4 DEF Once, r

LEMMA NoneReceived ==
    ASSUME NEW w \in Seq(Seq(Message)), 1 \in DOMAIN w, None(w)
    PROVE  None(RemoveAt(w, 1))
BY WireShortened DEF None

LEMMA SpawnsAtJoined ==
    ASSUME NEW a \in Seq(Message), NEW b \in Seq(Message), NEW p, SpawnsAt(a, p), SpawnsAt(b, p)
    PROVE  SpawnsAt(a \o b, p)
<1> DEFINE ab == a \o b
<1>1. /\ Len(ab) = Len(a) + Len(b)
      /\ \A i \in 1..Len(a) : ab[i] = a[i]
      /\ \A i \in 1..Len(b) : ab[Len(a) + i] = b[i]
      /\ Len(a) \in Nat /\ Len(b) \in Nat
      /\ DOMAIN ab = 1..Len(ab) /\ DOMAIN a = 1..Len(a) /\ DOMAIN b = 1..Len(b)
  OBVIOUS
<1> HIDE DEF ab
<1>2. ASSUME NEW i \in DOMAIN ab, i \notin DOMAIN a PROVE \E j \in DOMAIN b : i = Len(a) + j
  <2>1. i - Len(a) \in DOMAIN b /\ i = Len(a) + (i - Len(a))
    BY <1>1, <1>2
  <2> QED BY <2>1
<1> QED BY <1>1, <1>2 DEF SpawnsAt, ab

LEMMA SpawnsAtNone ==
    ASSUME NEW b, NEW p, ~Has(b, "spawn") PROVE SpawnsAt(b, p)
BY DEF SpawnsAt, Has

LEMMA SpawnsAtWelcome ==
    ASSUME TypeOK, NEW s \in Slots, NEW p \in Cell, NEW t \in Slots, NEW q,
           SpawnsAt(outbox[t], q), t = s => p = q
    PROVE  SpawnsAt(Welcome(s, p)[t], q)
<1> DEFINE msg(kind) == [type |-> kind, id |-> s, at |-> p]
           own == IF t = s THEN <<msg("config"), msg("spawn")>> ELSE <<>>
           all == IF t \in Occupied THEN <<msg("join")>> ELSE <<>>
<1>1. /\ msg("config") \in Message /\ msg("spawn") \in Message /\ msg("join") \in Message
      /\ msg("config").type = "config" /\ msg("spawn").at = p /\ msg("join").type = "join"
  BY DEF Message
<1> HIDE DEF msg
<1>2. own \in Seq(Message) /\ all \in Seq(Message) /\ outbox[t] \in Seq(Message)
  BY <1>1 DEF TypeOK
<1>3. SpawnsAt(own, q)
  BY <1>1 DEF SpawnsAt
<1>4. SpawnsAt(all, q)
  BY <1>1 DEF SpawnsAt
<1>5. Welcome(s, p)[t] = outbox[t] \o own \o all
  BY DEF Welcome, msg
<1> HIDE DEF own, all
<1>6. outbox[t] \o own \in Seq(Message) /\ SpawnsAt(outbox[t] \o own, q)
  BY <1>2, <1>3, SpawnsAtJoined
<1> QED BY <1>2, <1>4, <1>5, <1>6, SpawnsAtJoined

LEMMA SpawnsAtBroadcast ==
    ASSUME TypeOK, UpdatePlayerPositions, NEW t \in Slots, NEW q, SpawnsAt(outbox[t], q)
    PROVE  SpawnsAt(outbox'[t], q)
<1>1. FoldLeft(Moved, pos, queue) \in [Slots -> Cell] /\ pos' = FoldLeft(Moved, pos, queue)
  BY MovedType DEF UpdatePlayerPositions, TypeOK
<1>2. Positions(pos') \in Seq(Message) /\ SpawnsAt(Positions(pos'), q)
  <2> HIDE DEF Positions
  <2> QED BY <1>1, PositionsType DEF SpawnsAt
<1>3. outbox'[t] = outbox[t] \/ outbox'[t] = outbox[t] \o Positions(pos')
  BY DEF UpdatePlayerPositions, TypeOK
<1> HIDE DEF Positions
<1>4. outbox[t] \in Seq(Message)
  BY DEF TypeOK
<1> QED BY <1>2, <1>3, <1>4, SpawnsAtJoined

\* One message: a client is put where a spawn message says, and is not moved by another.
LEMMA HandlePlaces ==
    ASSUME NEW g \in Game, NEW m \in Message, NEW p,
           g.spawned => g.at = p, m.type = "spawn" => m.at = p
    PROVE  /\ Handle(g, m).spawned => Handle(g, m).at = p
           /\ Handle(g, m).spawned => g.spawned \/ m.type = "spawn"
<1> DEFINE e == Entry(g.remote, m.id, m.at)
<1> HIDE DEF e
<1>1. CASE ~g.configured
  <2>1. Handle(g, m) = [g EXCEPT !.configured = (m.type = "config")]
    BY <1>1 DEF Handle
  <2> QED BY <1>1, <2>1 DEF Game
<1>2. CASE g.configured /\ m.type = "spawn"
  <2>1. Handle(g, m) = [g EXCEPT !.spawned = TRUE, !.at = m.at] \/ Handle(g, m) = [g EXCEPT !.at = m.at]
    BY <1>2 DEF Handle
  <2> QED BY <1>2, <2>1 DEF Game
<1>3. CASE g.configured /\ m.type # "spawn"
  <2>1. Handle(g, m) = g \/ Handle(g, m) = [g EXCEPT !.remote = e]
    BY <1>3 DEF Handle, e
  <2> QED BY <1>3, <2>1 DEF Game
<1> QED BY <1>1, <1>2, <1>3

\* The same of a bundle, all of whose spawn messages name the same cell.
LEMMA BundlePlaces ==
    ASSUME NEW g \in Game, NEW b \in Seq(Message), NEW p, g.spawned => g.at = p, SpawnsAt(b, p)
    PROVE  LET after == FoldLeft(Handle, g, b) IN
           after.spawned => after.at = p /\ (g.spawned \/ Has(b, "spawn"))
<1> DEFINE n == Len(b)
           Good(x) == x.spawned => x.at = p /\ (g.spawned \/ Has(b, "spawn"))
           S == {x \in Game : Good(x)}
<1>1. DOMAIN b = 1..n /\ n \in Nat
  OBVIOUS
<1>2. g \in S
  OBVIOUS
<1>3. ASSUME NEW x \in S, NEW i \in 1..n PROVE Handle(x, b[i]) \in S
  <2>1. x \in Game /\ b[i] \in Message /\ i \in DOMAIN b
    OBVIOUS
  <2>2. Handle(x, b[i]) \in Game
    BY <2>1, HandleType
  <2>3. b[i].type = "spawn" => b[i].at = p /\ Has(b, "spawn")
    BY <2>1 DEF SpawnsAt, Has
  <2>4. /\ Handle(x, b[i]).spawned => Handle(x, b[i]).at = p
        /\ Handle(x, b[i]).spawned => x.spawned \/ b[i].type = "spawn"
    BY <2>1, <2>3, HandlePlaces
  <2> QED BY <2>2, <2>3, <2>4
<1>4. Handling!Folded(g, b) \in S
  <2> HIDE DEF S, n
  <2> QED BY <1>1, <1>2, <1>3, Handling!FoldType
<1>5. Good(Handling!Folded(g, b))
  BY <1>4
<1> QED BY <1>5, HandledIs

LEMMA BundleKeepsSpawned ==
    ASSUME NEW g \in Game, NEW b \in Seq(Message)
    PROVE  g.spawned => FoldLeft(Handle, g, b).spawned
<1> DEFINE S == {x \in Game : g.spawned => x.spawned}
<1>1. DOMAIN b = 1..Len(b) /\ Len(b) \in Nat
  OBVIOUS
<1>2. g \in S
  OBVIOUS
<1>3. ASSUME NEW x \in S, NEW i \in 1..Len(b) PROVE Handle(x, b[i]) \in S
  <2>1. x \in Game /\ b[i] \in Message
    OBVIOUS
  <2> QED BY <2>1, HandleType, HandleKeeps
<1>4. Handling!Folded(g, b) \in S
  <2> HIDE DEF S
  <2> QED BY <1>1, <1>2, <1>3, Handling!FoldType
<1> QED BY <1>4, HandledIs

(***************************************************************************)
(* The moves of one client on their way.                                   *)
(***************************************************************************)

\* w is where the player of slot s is after each of the moves q, none of which
\* that names it is turned down.
Trail(s, q, w, p, r) ==
    /\ w \in [0..Len(q) -> Cell] /\ w[0] = p /\ w[Len(q)] = r
    /\ \A i \in 1..Len(q) : IF q[i].id = s THEN w[i] = q[i].at /\ Near(q[i].at, w[i - 1])
                                           ELSE w[i] = w[i - 1]
Leads(s, q, p, r) == \E w : Trail(s, q, w, p, r)

LEMMA LeadsStill ==
    ASSUME NEW s, NEW q \in Seq(Move), NEW p \in Cell, \A i \in DOMAIN q : q[i].id # s
    PROVE  Leads(s, q, p, p)
<1> DEFINE w == [i \in 0..Len(q) |-> p]
<1>1. /\ w \in [0..Len(q) -> Cell] /\ w[0] = p /\ w[Len(q)] = p
      /\ \A i \in 1..Len(q) : w[i] = w[i - 1] /\ q[i].id # s
  OBVIOUS
<1> HIDE DEF w
<1> QED BY <1>1 DEF Leads, Trail

\* A move to a cell nearby, put at the end.
LEMMA LeadsOn ==
    ASSUME NEW s, NEW q \in Seq(Move), NEW e \in Move, NEW p, NEW r,
           Leads(s, q, p, r), e.id = s, Near(e.at, r)
    PROVE  Leads(s, Append(q, e), p, e.at)
<1>1. PICK w : Trail(s, q, w, p, r)
  BY DEF Leads
<1> DEFINE n == Len(q)
           qe == Append(q, e)
           v == [i \in 0..(n + 1) |-> IF i = n + 1 THEN e.at ELSE w[i]]
<1>2. /\ Len(qe) = n + 1 /\ n \in Nat
      /\ \A i \in 1..n : qe[i] = q[i]
      /\ qe[n + 1] = e
      /\ e.at \in Cell
  BY DEF Move
<1>3. w \in [0..n -> Cell] /\ w[0] = p /\ w[n] = r
  BY <1>1 DEF Trail
<1> HIDE DEF n, qe
<1>4. v \in [0..(n + 1) -> Cell] /\ v[0] = p /\ v[n + 1] = e.at
  BY <1>2, <1>3
<1>5. ASSUME NEW i \in 1..(n + 1)
      PROVE  IF qe[i].id = s THEN v[i] = qe[i].at /\ Near(qe[i].at, v[i - 1]) ELSE v[i] = v[i - 1]
  <2>1. CASE i = n + 1
    <3>1. v[i] = e.at /\ v[i - 1] = r /\ qe[i] = e
      BY <1>2, <1>3, <2>1
    <3> QED BY <3>1
  <2>2. CASE i \in 1..n
    <3>1. v[i] = w[i] /\ v[i - 1] = w[i - 1] /\ qe[i] = q[i]
      BY <1>2, <2>2
    <3>2. IF q[i].id = s THEN w[i] = q[i].at /\ Near(q[i].at, w[i - 1]) ELSE w[i] = w[i - 1]
      BY <1>1, <2>2 DEF Trail, n
    <3> QED BY <3>1, <3>2
  <2> QED BY <2>1, <2>2, <1>2
<1> HIDE DEF v
<1>6. Trail(s, qe, v, p, e.at)
  BY <1>2, <1>4, <1>5 DEF Trail
<1> QED BY <1>6 DEF Leads, qe

\* Somebody else's move, put between those queued and those still to come.
LEMMA LeadsAround ==
    ASSUME NEW s, NEW a \in Seq(Move), NEW b \in Seq(Move), NEW e \in Move, NEW p, NEW r,
           Leads(s, a \o b, p, r), e.id # s
    PROVE  Leads(s, Append(a, e) \o b, p, r)
<1>1. PICK w : Trail(s, a \o b, w, p, r)
  BY DEF Leads
<1> DEFINE n == Len(a)
           m == Len(b)
           ab == a \o b
           aeb == Append(a, e) \o b
           v == [i \in 0..(n + m + 1) |-> IF i <= n THEN w[i] ELSE w[i - 1]]
<1>2. n \in Nat /\ m \in Nat /\ Len(ab) = n + m /\ Len(aeb) = n + m + 1
  OBVIOUS
<1>3. /\ \A i \in 1..n : aeb[i] = ab[i]
      /\ aeb[n + 1] = e
      /\ \A i \in (n + 2)..(n + m + 1) : aeb[i] = ab[i - 1]
  <2>1. /\ \A i \in 1..n : aeb[i] = a[i] /\ ab[i] = a[i]
        /\ aeb[n + 1] = e
    OBVIOUS
  <2>2. ASSUME NEW i \in (n + 2)..(n + m + 1) PROVE aeb[i] = ab[i - 1]
    <3>1. i - (n + 1) \in 1..m /\ i = (n + 1) + (i - (n + 1)) /\ i - 1 = n + (i - (n + 1))
      BY <1>2
    <3>2. aeb[i] = b[i - (n + 1)]
      BY <3>1
    <3>3. ab[i - 1] = b[i - (n + 1)]
      BY <3>1
    <3> QED BY <3>2, <3>3
  <2> QED BY <2>1, <2>2
<1>4. w \in [0..(n + m) -> Cell] /\ w[0] = p /\ w[n + m] = r
  BY <1>1, <1>2 DEF Trail
<1>5. ASSUME NEW i \in 1..(n + m)
      PROVE  IF ab[i].id = s THEN w[i] = ab[i].at /\ Near(ab[i].at, w[i - 1]) ELSE w[i] = w[i - 1]
  BY <1>1, <1>2 DEF Trail
<1> HIDE DEF n, m, ab, aeb
<1>6. v \in [0..(n + m + 1) -> Cell] /\ v[0] = p /\ v[n + m + 1] = r
  BY <1>2, <1>4
<1>7. ASSUME NEW i \in 1..(n + m + 1)
      PROVE  IF aeb[i].id = s THEN v[i] = aeb[i].at /\ Near(aeb[i].at, v[i - 1]) ELSE v[i] = v[i - 1]
  <2>1. CASE i \in 1..n
    <3>1. v[i] = w[i] /\ v[i - 1] = w[i - 1] /\ aeb[i] = ab[i] /\ i \in 1..(n + m)
      BY <1>2, <1>3, <2>1
    <3> QED BY <3>1, <1>5
  <2>2. CASE i = n + 1
    <3>1. v[i] = w[n] /\ v[i - 1] = w[n] /\ aeb[i] = e
      BY <1>2, <1>3, <2>2
    <3> QED BY <3>1
  <2>3. CASE i \in (n + 2)..(n + m + 1)
    <3>1. v[i] = w[i - 1] /\ v[i - 1] = w[i - 2] /\ aeb[i] = ab[i - 1] /\ i - 1 \in 1..(n + m) /\ i - 1 - 1 = i - 2
      BY <1>2, <1>3, <2>3
    <3>2. IF ab[i - 1].id = s THEN w[i - 1] = ab[i - 1].at /\ Near(ab[i - 1].at, w[i - 2]) ELSE w[i - 1] = w[i - 2]
      BY <3>1, <1>5
    <3> QED BY <3>1, <3>2
  <2>4. i \in 1..n \/ i = n + 1 \/ i \in (n + 2)..(n + m + 1)
    BY <1>2
  <2> QED BY <2>1, <2>2, <2>3, <2>4
<1> HIDE DEF v
<1>8. Trail(s, aeb, v, p, r)
  BY <1>2, <1>6, <1>7 DEF Trail
<1> QED BY <1>8 DEF Leads, aeb

\* UpdatePlayerPositions goes the first part of the way.
LEMMA LeadsAfter ==
    ASSUME NEW s \in Players, NEW a \in Seq(Move), NEW b \in Seq(Move),
           NEW at \in [Slots -> Cell], NEW r, Leads(s, a \o b, at[s], r)
    PROVE  Leads(s, b, FoldLeft(Moved, at, a)[s], r)
<1>1. PICK w : Trail(s, a \o b, w, at[s], r)
  BY DEF Leads
<1> DEFINE n == Len(a)
           m == Len(b)
           ab == a \o b
           v == [i \in 0..m |-> w[n + i]]
<1>2. /\ n \in Nat /\ m \in Nat /\ Len(ab) = n + m
      /\ \A i \in 1..n : ab[i] = a[i]
      /\ \A i \in 1..m : ab[n + i] = b[i]
  OBVIOUS
<1>3. w \in [0..(n + m) -> Cell] /\ w[0] = at[s] /\ w[n + m] = r
  BY <1>1, <1>2 DEF Trail
<1>4. ASSUME NEW i \in 1..(n + m)
      PROVE  IF ab[i].id = s THEN w[i] = ab[i].at /\ Near(ab[i].at, w[i - 1]) ELSE w[i] = w[i - 1]
  BY <1>1, <1>2 DEF Trail
<1>5. DOMAIN a = 1..n
  OBVIOUS
<1>a. ASSUME NEW i \in 1..n PROVE a[i] \in Move
  OBVIOUS
<1> HIDE DEF n, m, ab
<1>6. FoldLeft(Moved, at, a)[s] = w[n]
  <2> DEFINE There(i) == {x \in [Slots -> Cell] : x[s] = w[i]}
             R == [i \in 0..n |-> There(i)]
  <2>1. at \in R[0]
    BY <1>2, <1>3
  <2>2. ASSUME NEW i \in 1..n, NEW x \in R[i - 1] PROVE Moved(x, a[i]) \in R[i]
    <3>1. x \in [Slots -> Cell] /\ x[s] = w[i - 1]
      BY <1>2
    <3>2. a[i].at \in Cell
      BY <1>a DEF Move
    <3>3. IF a[i].id = s THEN w[i] = a[i].at /\ Near(a[i].at, w[i - 1]) ELSE w[i] = w[i - 1]
      BY <1>2, <1>4
    <3>4. Moved(x, a[i]) \in [Slots -> Cell]
      BY <3>1, <3>2 DEF Moved
    <3>5. Moved(x, a[i])[s] = w[i]
      <4>0. s \in Slots
        BY DEF Players
      <4>1. CASE a[i].id = s
        BY <4>0, <4>1, <3>1, <3>3 DEF Moved
      <4>2. CASE a[i].id # s
        BY <4>0, <4>2, <3>1, <3>3 DEF Moved
      <4> QED BY <4>1, <4>2
    <3>6. Moved(x, a[i]) \in There(i)
      BY <3>4, <3>5
    <3> QED BY <3>6
  <2>3. Moving!Folded(at, a) \in R[n]
    <3> HIDE DEF R
    <3> QED BY <1>2, <1>5, <2>1, <2>2, Moving!FoldInvariant
  <2>4. Moving!Folded(at, a) \in There(n)
    BY <1>2, <2>3
  <2> QED BY <2>4, MovedIs
<1>7. v \in [0..m -> Cell] /\ v[0] = w[n] /\ v[m] = r
  BY <1>2, <1>3
<1>8. ASSUME NEW i \in 1..m
      PROVE  IF b[i].id = s THEN v[i] = b[i].at /\ Near(b[i].at, v[i - 1]) ELSE v[i] = v[i - 1]
  <2>1. PICK j \in 1..(n + m) : j = n + i
    BY <1>2
  <2>2. v[i] = w[j] /\ v[i - 1] = w[j - 1] /\ ab[j] = b[i]
    BY <2>1, <1>2
  <2>3. IF ab[j].id = s THEN w[j] = ab[j].at /\ Near(ab[j].at, w[j - 1]) ELSE w[j] = w[j - 1]
    BY <1>4
  <2> HIDE DEF v
  <2> QED BY <2>2, <2>3
<1> HIDE DEF v
<1>9. Trail(s, b, v, w[n], r)
  BY <1>7, <1>8 DEF Trail, m
<1> QED BY <1>6, <1>9 DEF Leads

\* Moves that name other players leave this one where it is.
LEMMA MovedOthers ==
    ASSUME NEW s \in Players, NEW a \in Seq(Move), NEW at \in [Slots -> Cell],
           \A i \in DOMAIN a : a[i].id # s
    PROVE  FoldLeft(Moved, at, a)[s] = at[s]
<1> DEFINE S == {x \in [Slots -> Cell] : x[s] = at[s]}
<1>1. DOMAIN a = 1..Len(a) /\ Len(a) \in Nat
  OBVIOUS
<1>2. ASSUME NEW x \in S, NEW i \in 1..Len(a) PROVE Moved(x, a[i]) \in S
  <2>1. a[i] \in Move /\ a[i].id # s /\ s \in Slots
    BY <1>1 DEF Players
  <2>2. a[i].at \in Cell
    BY <2>1 DEF Move
  <2> QED BY <2>1, <2>2 DEF Moved
<1>3. Moving!Folded(at, a) \in S
  <2> HIDE DEF S
  <2>1. at \in S
    BY DEF S
  <2> QED BY <1>1, <1>2, <2>1, Moving!FoldType
<1> QED BY <1>3, MovedIs

LEMMA JoinedIs ==
    ASSUME NEW a \in Seq(Move), NEW b \in Seq(Move)
    PROVE  a \o b \in Seq(Move) /\ Len(a \o b) = Len(a) + Len(b)
OBVIOUS

\* A move that gets from the channel into the queue keeps its place.
LEMMA Requeued ==
    ASSUME NEW a \in Seq(Move), NEW b \in Seq(Move), 1 \in DOMAIN b
    PROVE  Append(a, b[1]) \o RemoveAt(b, 1) = a \o b
<1> DEFINE r == RemoveAt(b, 1)
<1>1. /\ r \in Seq(Move) /\ Len(r) = Len(b) - 1 /\ Len(a) \in Nat /\ Len(b) \in Nat
      /\ \A j \in 1..(Len(b) - 1) : r[j] = IF j < 1 THEN b[j] ELSE b[j + 1]
  BY RemoveAtProperties
<1>2. \A j \in 1..(Len(b) - 1) : r[j] = b[j + 1]
  BY <1>1
<1> HIDE DEF r
<1> DEFINE x == Append(a, b[1]) \o r
           y == a \o b
           n == Len(a) + Len(b)
<1>a. Append(a, b[1]) \in Seq(Move) /\ Len(Append(a, b[1])) = Len(a) + 1
  OBVIOUS
<1>3. x \in Seq(Move) /\ y \in Seq(Move) /\ Len(x) = n /\ Len(y) = n
  <2>1. y \in Seq(Move) /\ Len(y) = n
    OBVIOUS
  <2> DEFINE f == Append(a, b[1])
  <2> HIDE DEF f
  <2>2. f \in Seq(Move) /\ Len(f) = Len(a) + 1
    BY <1>a DEF f
  <2>3. f \o r \in Seq(Move) /\ Len(f \o r) = Len(f) + Len(r)
    BY <1>1, <2>2, JoinedIs
  <2> QED BY <1>1, <2>1, <2>2, <2>3 DEF f
<1>4. ASSUME NEW i \in 1..n PROVE x[i] = y[i]
  <2>1. CASE i <= Len(a) + 1
    BY <1>1, <2>1
  <2>2. CASE i > Len(a) + 1
    <3>1. i - Len(a) \in 1..Len(b) /\ i - (Len(a) + 1) \in 1..Len(r)
      BY <1>1, <2>2
    <3>2. y[i] = b[i - Len(a)]
      BY <1>1, <2>2
    <3>3. x[i] = r[i - (Len(a) + 1)]
      BY <1>1, <2>2
    <3>4. (i - (Len(a) + 1)) + 1 = i - Len(a)
      BY <1>1
    <3> QED BY <1>1, <1>2, <3>1, <3>2, <3>3, <3>4
  <2> QED BY <1>1, <2>1, <2>2
<1> HIDE DEF x, y, n
<1>5. x = y
  BY <1>3, <1>4
<1> QED BY <1>5 DEF x, y, r

LEMMA AppendJoined ==
    ASSUME NEW a \in Seq(Move), NEW b \in Seq(Move), NEW e \in Move
    PROVE  a \o Append(b, e) = Append(a \o b, e) /\ a \o b \in Seq(Move)
OBVIOUS

LEMMA LeadsNowhere ==
    ASSUME NEW s, NEW p, NEW r, Leads(s, <<>>, p, r) PROVE p = r
BY DEF Leads, Trail

(***************************************************************************)
(* Whose moves the server has.                                             *)
(***************************************************************************)

\* A client's moves name it by its byte; one that has not been given its spawn
\* point has made none, nor has anybody else in its name.
Alone(c) == \A d \in Clients \ {c} : tag[d] # tag[c]
Quiet ==
    /\ \A d \in Clients : \A k \in DOMAIN toServer[d] : toServer[d][k].id = tag[d]
    /\ \A c \in Clients : (phase[c] \in {"off", "running"} /\ ~game[c].spawned /\ Alone(c)) =>
          toServer[c] = <<>> /\ \A k \in DOMAIN queue : queue[k].id # tag[c]

LEMMA QuietInit == Init => Quiet
BY DEF Init, Quiet

LEMMA Appended ==
    ASSUME NEW q \in Seq(Move), NEW e \in Move
    PROVE  \A k \in DOMAIN Append(q, e) : Append(q, e)[k] = e \/ (k \in DOMAIN q /\ Append(q, e)[k] = q[k])
OBVIOUS

LEMMA QuietTick == TypeOK /\ Quiet /\ Tick => Quiet'
<1> SUFFICES ASSUME TypeOK, Quiet, Tick PROVE Quiet'
  OBVIOUS
<1> USE DEF clientVars
<1>1. CASE ReceiveMove
  <2> DEFINE d == occupant[slot]
  <2>1. PICK i \in DOMAIN toServer[d] :
          /\ queue' = Append(queue, toServer[d][i])
          /\ toServer' = [toServer EXCEPT ![d] = RemoveAt(toServer[d], i)]
    BY <1>1 DEF ReceiveMove, Deliverable
  <2>2. d \in Clients /\ UNCHANGED <<phase, game, tag>>
    BY <1>1 DEF ReceiveMove, Occupied, TypeOK
  <2> HIDE DEF d
  <2>3. toServer[d] \in Seq(Move) /\ queue \in Seq(Move)
    BY <2>2 DEF TypeOK
  <2>4. toServer[d][i] \in Move /\ toServer[d][i].id = tag[d] /\ toServer[d] # <<>>
    BY <2>1, <2>2, <2>3 DEF Quiet
  <2>5. ASSUME NEW e \in Clients, NEW k \in DOMAIN toServer'[e] PROVE toServer'[e][k].id = tag'[e]
    <3>1. CASE e = d
      <4>1. toServer'[e] = RemoveAt(toServer[d], i)
        BY <2>1, <2>2, <3>1 DEF TypeOK
      <4>a. /\ RemoveAt(toServer[d], i) \in Seq(Move)
            /\ Len(RemoveAt(toServer[d], i)) = Len(toServer[d]) - 1
            /\ \A j \in 1..(Len(toServer[d]) - 1) :
                  RemoveAt(toServer[d], i)[j] = IF j < i THEN toServer[d][j] ELSE toServer[d][j + 1]
        BY <2>1, <2>3, RemoveAtProperties
      <4>b. k \in 1..(Len(toServer[d]) - 1)
        BY <2>5, <4>1, <4>a
      <4>2. k \in 1..(Len(toServer[d]) - 1)
            /\ toServer'[e][k] = IF k < i THEN toServer[d][k] ELSE toServer[d][k + 1]
        BY <4>1, <4>a, <4>b
      <4>3. k \in DOMAIN toServer[d] /\ k + 1 \in DOMAIN toServer[d]
        BY <2>3, <4>2
      <4> QED BY <2>2, <3>1, <4>2, <4>3 DEF Quiet
    <3>2. CASE e # d
      <4>1. toServer'[e] = toServer[e]
        BY <2>1, <2>2, <3>2 DEF TypeOK
      <4> QED BY <2>2, <2>5, <4>1 DEF Quiet
    <3> QED BY <3>1, <3>2
  <2>6. ASSUME NEW c \in Clients, phase[c] \in {"off", "running"}, ~game[c].spawned, Alone(c)
        PROVE  toServer'[c] = <<>> /\ \A k \in DOMAIN queue' : queue'[k].id # tag[c]
    <3>1. toServer[c] = <<>> /\ \A k \in DOMAIN queue : queue[k].id # tag[c]
      BY <2>6 DEF Quiet
    <3>2. c # d
      BY <2>4, <3>1
    <3>3. tag[d] # tag[c]
      BY <2>2, <2>6, <3>2 DEF Alone
    <3>4. \A k \in DOMAIN queue' : queue'[k] = toServer[d][i] \/ (k \in DOMAIN queue /\ queue'[k] = queue[k])
      BY <2>1, <2>3, <2>4, Appended
    <3>5. toServer'[c] = toServer[c]
      BY <2>1, <2>2, <3>2 DEF TypeOK
    <3> QED BY <2>4, <3>1, <3>3, <3>4, <3>5
  <2> QED BY <2>2, <2>5, <2>6 DEF Quiet, Alone
<1>2. CASE UpdatePlayerPositions
  <2>1. queue' = <<>> /\ UNCHANGED <<toServer, phase, game, tag>>
    BY <1>2 DEF UpdatePlayerPositions
  <2> QED BY <2>1 DEF Quiet, Alone
<1>3. CASE SendPackets \/ NewPlayer \/ NoRoomToSpawn \/ KeepOrRemovePlayer \/ NoMoreMoves
  <2>1. UNCHANGED <<queue, toServer, phase, game, tag>>
    BY <1>3 DEF SendPackets, NewPlayer, NoRoomToSpawn, KeepOrRemovePlayer, NoMoreMoves
  <2> QED BY <2>1 DEF Quiet, Alone
<1> QED BY <1>1, <1>2, <1>3 DEF Tick

LEMMA QuietLibrary == TypeOK /\ Quiet /\ LibraryStep => Quiet'
<1> SUFFICES ASSUME TypeOK, Quiet, LibraryStep PROVE Quiet'
  OBVIOUS
<1> USE DEF clientVars, serverVars
<1>1. UNCHANGED <<queue, game, tag>>
  BY DEF LibraryStep, NothingMore, Disconnected, TimedOut, Accept, DropBundle
<1>2. \A c \in Clients : toServer'[c] \in {toServer[c], <<>>}
  <2>1. ASSUME NEW s \in Slots, Disconnected(s) \/ TimedOut(s), NEW c \in Clients
        PROVE  toServer'[c] \in {toServer[c], <<>>}
    BY <2>1 DEF Disconnected, TimedOut, FreeSlot, TypeOK
  <2> QED BY <2>1 DEF LibraryStep, NothingMore, Accept, DropBundle
<1>3. \A c \in Clients : phase'[c] \in {"off", "running"} => phase[c] \in {"off", "running"}
  <2>1. ASSUME NEW d \in Clients, Accept(d), NEW c \in Clients, phase'[c] \in {"off", "running"}
        PROVE  phase[c] \in {"off", "running"}
    BY <2>1 DEF Accept, TypeOK
  <2>2. ASSUME NEW s \in Slots, Disconnected(s) \/ TimedOut(s) PROVE UNCHANGED phase
    BY <2>2 DEF Disconnected, TimedOut
  <2> QED BY <2>1, <2>2 DEF LibraryStep, NothingMore, DropBundle
<1>4. ASSUME NEW d \in Clients, NEW k \in DOMAIN toServer'[d] PROVE toServer'[d][k].id = tag[d]
  BY <1>2, <1>4 DEF Quiet
<1> QED BY <1>1, <1>2, <1>3, <1>4 DEF Quiet, Alone

LEMMA QuietClient ==
    ASSUME TypeOK, SpawnInv, Quiet, NEW c \in Clients, ClientStep(c) PROVE Quiet'
<1> USE DEF serverVars
<1>1. CASE ReceivePackets(c)
  <2>1. PICK i \in DOMAIN wire[c] : game' = [game EXCEPT ![c] = FoldLeft(Handle, game[c], wire[c][i])]
    BY <1>1 DEF ReceivePackets, Deliverable
  <2>2. UNCHANGED <<queue, toServer, phase, tag>>
    BY <1>1 DEF ReceivePackets
  <2>3. \A d \in Clients : game[d].spawned => game'[d].spawned
    <3>1. game[c] \in Game /\ wire[c] \in Seq(Seq(Message)) /\ game \in [Clients -> Game]
      BY DEF TypeOK
    <3>2. wire[c][i] \in Seq(Message)
      BY <3>1
    <3>3. game[c].spawned => FoldLeft(Handle, game[c], wire[c][i]).spawned
      BY <3>1, <3>2, BundleKeepsSpawned
    <3> HIDE DEF Game
    <3> QED BY <2>1, <3>1, <3>3
  <2> QED BY <2>2, <2>3 DEF Quiet, Alone
<1>2. CASE LocalMove(c)
  <2>1. PICK p \in PossibleMoves(game[c].at) :
          /\ game' = [game EXCEPT ![c].at = p]
          /\ toServer' = [toServer EXCEPT ![c] =
                IF Connected(c) THEN Append(@, [id |-> tag[c], at |-> p]) ELSE @]
    BY <1>2 DEF LocalMove
  <2>2. UNCHANGED <<queue, phase, tag>> /\ game[c].spawned
    BY <1>2 DEF LocalMove, SpawnInv, MovesFromSpawn
  <2>3. \A d \in Clients : game'[d].spawned = game[d].spawned
    BY <2>1, GameFields DEF TypeOK
  <2> DEFINE e == [id |-> tag[c], at |-> p]
  <2>4. e \in Move /\ e.id = tag[c]
    BY MoveProperties, GameFields DEF TypeOK, Move
  <2> HIDE DEF e
  <2>5. \A d \in Clients \ {c} : toServer'[d] = toServer[d]
    BY <2>1 DEF TypeOK
  <2>6. \A k \in DOMAIN toServer'[c] : toServer'[c][k].id = tag[c]
    <3>1. toServer'[c] = toServer[c] \/ toServer'[c] = Append(toServer[c], e)
      BY <2>1 DEF TypeOK, e
    <3>2. toServer[c] \in Seq(Move)
      BY DEF TypeOK
    <3> QED BY <2>4, <3>1, <3>2, Appended DEF Quiet
  <2>7. \A d \in Clients : \A k \in DOMAIN toServer'[d] : toServer'[d][k].id = tag[d]
    BY <2>5, <2>6 DEF Quiet
  <2> QED BY <2>2, <2>3, <2>5, <2>7 DEF Quiet, Alone
<1>3. CASE NoRoomToMove(c) \/ Quit(c)
  <2>1. UNCHANGED <<queue, toServer, tag>> /\ phase'[c] \notin {"off", "running"}
    BY <1>3 DEF NoRoomToMove, Quit, TypeOK
  <2>2. \A d \in Clients \ {c} : phase'[d] = phase[d] /\ game'[d] = game[d]
    BY <1>3 DEF NoRoomToMove, Quit, TypeOK
  <2> QED BY <2>1, <2>2 DEF Quiet, Alone
<1> QED BY <1>1, <1>2, <1>3 DEF ClientStep

LEMMA QuietStep == TypeOK /\ SpawnInv /\ Quiet /\ [Next]_vars => Quiet'
<1>1. Quiet /\ UNCHANGED vars => Quiet'
  BY DEF vars, serverVars, clientVars, Quiet, Alone
<1> QED BY <1>1, QuietTick, QuietLibrary, QuietClient DEF Next

(***************************************************************************)
(* A client and its slot, with -r.                                         *)
(***************************************************************************)

\* One that got no player yet has no spawn point either, nor is one on its way.
Stranger(c, s) == occupant[s] = c /\ owner[s] # c =>
    ~game[c].spawned /\ ~Has(outbox[s], "spawn") /\ None(wire[c])
OneSpawn(c, s) == occupant[s] = c /\ owner[s] = c => Once(game[c].spawned, outbox[s], wire[c])
\* The one spawn point it is sent is where the server has it, as it cannot move before.
SpawnPoint(c, s) == RightlyTagged(c, s) /\ phase[c] = "running" /\ ~game[c].spawned =>
    SpawnsAt(outbox[s], pos[s]) /\ \A k \in DOMAIN wire[c] : SpawnsAt(wire[c][k], pos[s])
\* From where the server has it, the moves it made lead to where it is.
Followed(c, s) == RightlyTagged(c, s) /\ game[c].spawned =>
    Leads(s, queue \o toServer[c], pos[s], game[c].at)
Seat(c, s) == Stranger(c, s) /\ OneSpawn(c, s) /\ SpawnPoint(c, s) /\ Followed(c, s)
FollowInv == reliable => \A c \in Clients : \A s \in Slots : Seat(c, s)

\* As far as nothing changes that the two know of each other.
LEMMA SameSeat ==
    ASSUME NEW c \in Clients, NEW s \in Slots, Seat(c, s),
           occupant'[s] = c => occupant[s] = c,
           UNCHANGED <<owner[s], outbox[s], pos[s], wire[c], game[c], tag, queue>>,
           occupant'[s] = c => UNCHANGED toServer[c],
           phase'[c] = "running" => phase[c] = "running"
    PROVE  Seat(c, s)'
<1>1. Stranger(c, s)' /\ OneSpawn(c, s)'
  BY DEF Seat, Stranger, OneSpawn
<1>2. SpawnPoint(c, s)'
  BY DEF Seat, SpawnPoint, RightlyTagged
<1>3. Followed(c, s)'
  BY DEF Seat, Followed, RightlyTagged
<1> QED BY <1>1, <1>2, <1>3 DEF Seat

LEMMA SeatSend ==
    ASSUME TypeOK, Seating, SendPackets, NEW c \in Clients, NEW s \in Slots, Seat(c, s)
    PROVE  Seat(c, s)'
<1>1. UNCHANGED <<occupant, owner, pos, queue, tag, phase, game, toServer>> /\ outbox'[s] = <<>>
  BY DEF SendPackets, clientVars
<1>2. ~Has(outbox'[s], "spawn") /\ \A p : SpawnsAt(outbox'[s], p)
  BY <1>1 DEF Has, SpawnsAt
<1>3. wire[c] \in Seq(Seq(Message)) /\ outbox[s] \in Seq(Message)
  BY DEF TypeOK
<1>4. occupant[s] = c => wire'[c] = wire[c] \/ wire'[c] = Append(wire[c], outbox[s])
  BY WireOfTick, ClientsAssumption DEF Seating
<1>5. Stranger(c, s)'
  BY <1>1, <1>2, <1>3, <1>4, NoneSent DEF Seat, Stranger
<1>6. OneSpawn(c, s)'
  <2> SUFFICES ASSUME occupant[s] = c, owner[s] = c PROVE Once(game[c].spawned, <<>>, wire'[c])
    BY <1>1 DEF OneSpawn
  <2>1. Once(game[c].spawned, outbox[s], wire[c])
    BY DEF Seat, OneSpawn
  <2>2. Once(game[c].spawned, <<>>, wire[c])
    BY <1>1, <1>2, <2>1 DEF Once
  <2> QED BY <1>3, <1>4, <2>1, <2>2, OnceSent
<1>7. SpawnPoint(c, s)'
  <2> SUFFICES ASSUME RightlyTagged(c, s), phase[c] = "running", ~game[c].spawned,
                      NEW k \in DOMAIN wire'[c]
               PROVE  SpawnsAt(wire'[c][k], pos[s])
    BY <1>1, <1>2 DEF SpawnPoint, RightlyTagged
  <2>1. SpawnsAt(outbox[s], pos[s]) /\ \A j \in DOMAIN wire[c] : SpawnsAt(wire[c][j], pos[s])
    BY DEF Seat, SpawnPoint
  <2>2. wire'[c] = wire[c] \/ wire'[c] = Append(wire[c], outbox[s])
    BY <1>4 DEF RightlyTagged
  <2>3. (k \in DOMAIN wire[c] /\ wire'[c][k] = wire[c][k]) \/ wire'[c][k] = outbox[s]
    <3>1. CASE wire'[c] = Append(wire[c], outbox[s])
      BY <1>3, <3>1, WireAppended
    <3> QED BY <2>2, <3>1
  <2> QED BY <2>1, <2>3
<1>8. Followed(c, s)'
  BY <1>1 DEF Seat, Followed, RightlyTagged
<1> QED BY <1>5, <1>6, <1>7, <1>8 DEF Seat

LEMMA SeatNewPlayer ==
    ASSUME TypeOK, NewPlayer, NEW c \in Clients, NEW s \in Slots, Seat(c, s)
    PROVE  Seat(c, s)'
<1>1. PICK p \in Cell : pos' = [pos EXCEPT ![slot] = p] /\ outbox' = Welcome(slot, p)
  BY SpawnProperties DEF NewPlayer
<1>2. UNCHANGED <<occupant, queue, tag, phase, game, wire, toServer>>
      /\ owner' = [owner EXCEPT ![slot] = occupant[slot]]
  BY DEF NewPlayer, clientVars
<1>3. Has(outbox'[s], "spawn") <=> Has(outbox[s], "spawn") \/ s = slot
  BY <1>1, HasWelcome DEF TypeOK
<1>4. CASE s # slot
  <2>1. owner'[s] = owner[s] /\ pos'[s] = pos[s] /\ ~Has(outbox'[s], "spawn") <=> ~Has(outbox[s], "spawn")
    BY <1>1, <1>2, <1>3, <1>4 DEF TypeOK
  <2>2. owner'[s] = owner[s] /\ pos'[s] = pos[s]
    BY <1>1, <1>2, <1>4 DEF TypeOK
  <2>3. \A q : SpawnsAt(outbox[s], q) => SpawnsAt(outbox'[s], q)
    BY <1>1, <1>4, SpawnsAtWelcome DEF TypeOK
  <2>4. Stranger(c, s)' /\ OneSpawn(c, s)'
    BY <1>2, <1>3, <1>4, <2>2 DEF Seat, Stranger, OneSpawn, Once
  <2>5. SpawnPoint(c, s)'
    BY <1>2, <2>2, <2>3 DEF Seat, SpawnPoint, RightlyTagged
  <2>6. Followed(c, s)'
    BY <1>2, <2>2 DEF Seat, Followed, RightlyTagged
  <2> QED BY <2>4, <2>5, <2>6 DEF Seat
<1>5. CASE s = slot /\ occupant[s] # c
  BY <1>2, <1>5 DEF Seat, Stranger, OneSpawn, SpawnPoint, Followed, RightlyTagged
<1>6. CASE s = slot /\ occupant[s] = c
  <2>1. owner[s] # c /\ owner'[s] = c /\ pos'[s] = p
    BY <1>1, <1>2, <1>6, ClientsAssumption DEF NewPlayer, Occupied, Players, TypeOK
  <2>2. ~game[c].spawned /\ ~Has(outbox[s], "spawn") /\ None(wire[c])
    BY <1>6, <2>1 DEF Seat, Stranger
  <2>3. Stranger(c, s)' /\ OneSpawn(c, s)'
    BY <1>2, <2>1, <2>2 DEF Stranger, OneSpawn, Once, None
  <2>4. SpawnPoint(c, s)'
    <3>1. SpawnsAt(outbox'[s], p)
      BY <1>1, <1>6, <2>2, SpawnsAtNone, SpawnsAtWelcome DEF TypeOK
    <3>2. \A k \in DOMAIN wire[c] : SpawnsAt(wire[c][k], p)
      BY <2>2, SpawnsAtNone DEF None
    <3> QED BY <1>2, <2>1, <3>1, <3>2 DEF SpawnPoint
  <2>5. Followed(c, s)'
    BY <1>2, <2>2 DEF Followed
  <2> QED BY <2>3, <2>4, <2>5 DEF Seat
<1> QED BY <1>4, <1>5, <1>6

LEMMA SeatReceiveMove ==
    ASSUME TypeOK, Quiet, reliable, ReceiveMove, NEW c \in Clients, NEW s \in Slots, Seat(c, s)
    PROVE  Seat(c, s)'
<1> DEFINE d == occupant[slot]
<1>0. UNCHANGED <<occupant, owner, pos, outbox, tag, phase, game, wire>>
  BY DEF ReceiveMove, clientVars
<1>1. /\ 1 \in DOMAIN toServer[d]
      /\ queue' = Append(queue, toServer[d][1])
      /\ toServer' = [toServer EXCEPT ![d] = RemoveAt(toServer[d], 1)]
  BY DEF ReceiveMove, Deliverable
<1>2. d \in Clients
  BY DEF ReceiveMove, Occupied, TypeOK
<1> HIDE DEF d
<1>3. toServer[d] \in Seq(Move) /\ toServer[c] \in Seq(Move) /\ queue \in Seq(Move)
  BY <1>2 DEF TypeOK
<1>4. toServer[d][1] \in Move /\ toServer[d][1].id = tag[d]
  BY <1>1, <1>2, <1>3 DEF Quiet
<1>5. Stranger(c, s)' /\ OneSpawn(c, s)' /\ SpawnPoint(c, s)'
  BY <1>0 DEF Seat, Stranger, OneSpawn, SpawnPoint, RightlyTagged
<1>6. Followed(c, s)'
  <2> SUFFICES ASSUME RightlyTagged(c, s), game[c].spawned
               PROVE  Leads(s, queue' \o toServer'[c], pos[s], game[c].at)
    BY <1>0 DEF Followed, RightlyTagged
  <2>1. Leads(s, queue \o toServer[c], pos[s], game[c].at)
    BY DEF Seat, Followed
  <2>2. CASE d = c
    <3>1. toServer'[c] = RemoveAt(toServer[c], 1)
      BY <1>1, <1>2, <2>2 DEF TypeOK
    <3>2. queue' \o toServer'[c] = queue \o toServer[c]
      BY <1>1, <1>3, <2>2, <3>1, Requeued
    <3> QED BY <2>1, <3>2
  <2>3. CASE d # c
    <3>1. toServer'[c] = toServer[c]
      BY <1>1, <1>2, <2>3 DEF TypeOK
    <3>2. toServer[d][1].id # s
      BY <1>2, <1>4, <2>3 DEF RightlyTagged
    <3> QED BY <1>1, <1>3, <1>4, <2>1, <3>1, <3>2, LeadsAround
  <2> QED BY <2>2, <2>3
<1> QED BY <1>5, <1>6 DEF Seat

LEMMA SeatUpdate ==
    ASSUME TypeOK, Quiet, UpdatePlayerPositions, NEW c \in Clients, NEW s \in Slots, Seat(c, s)
    PROVE  Seat(c, s)'
<1>0. UNCHANGED <<occupant, owner, tag, phase, game, wire, toServer>> /\ queue' = <<>>
      /\ pos' = FoldLeft(Moved, pos, queue)
  BY DEF UpdatePlayerPositions, clientVars
<1>1. Has(outbox'[s], "spawn") <=> Has(outbox[s], "spawn")
  BY HasBroadcast
<1>2. \A q : SpawnsAt(outbox[s], q) => SpawnsAt(outbox'[s], q)
  BY SpawnsAtBroadcast
<1>3. Stranger(c, s)' /\ OneSpawn(c, s)'
  BY <1>0, <1>1 DEF Seat, Stranger, OneSpawn, Once
<1>4. queue \in Seq(Move) /\ toServer[c] \in Seq(Move) /\ pos \in [Slots -> Cell]
  BY DEF TypeOK
<1>5. RightlyTagged(c, s) => s \in Players
  BY ClientsAssumption DEF RightlyTagged, Players
<1>6. SpawnPoint(c, s)'
  <2> SUFFICES ASSUME RightlyTagged(c, s), phase[c] = "running", ~game[c].spawned
               PROVE  SpawnsAt(outbox'[s], pos'[s]) /\ \A k \in DOMAIN wire[c] : SpawnsAt(wire[c][k], pos'[s])
    BY <1>0 DEF SpawnPoint, RightlyTagged
  <2>1. \A k \in DOMAIN queue : queue[k].id # s
    BY DEF Quiet, Alone, RightlyTagged
  <2>2. pos'[s] = pos[s]
    BY <1>0, <1>4, <1>5, <2>1, MovedOthers
  <2> QED BY <1>2, <2>2 DEF Seat, SpawnPoint
<1>7. Followed(c, s)'
  <2> SUFFICES ASSUME RightlyTagged(c, s), game[c].spawned
               PROVE  Leads(s, <<>> \o toServer[c], pos'[s], game[c].at)
    BY <1>0 DEF Followed, RightlyTagged
  <2>1. Leads(s, queue \o toServer[c], pos[s], game[c].at)
    BY DEF Seat, Followed
  <2>2. Leads(s, toServer[c], pos'[s], game[c].at)
    BY <1>0, <1>4, <1>5, <2>1, LeadsAfter
  <2>3. <<>> \o toServer[c] = toServer[c]
    BY <1>4
  <2> QED BY <2>2, <2>3
<1> QED BY <1>3, <1>6, <1>7 DEF Seat

LEMMA FollowTick ==
    ASSUME TypeOK, Seating, Quiet, FollowInv, Tick PROVE FollowInv'
<1> SUFFICES ASSUME reliable', NEW c \in Clients, NEW s \in Slots PROVE Seat(c, s)'
  BY DEF FollowInv
<1>0. UNCHANGED reliable
  BY DEF Tick, SendPackets, NewPlayer, NoRoomToSpawn, KeepOrRemovePlayer, ReceiveMove, NoMoreMoves,
         UpdatePlayerPositions
<1>1. Seat(c, s)
  BY <1>0 DEF FollowInv
<1>2. CASE KeepOrRemovePlayer
  <2>1. UNCHANGED <<occupant, queue, outbox, tag, phase, game, wire, toServer>>
    BY <1>2 DEF KeepOrRemovePlayer, clientVars
  <2>2. occupant[s] # Nobody => UNCHANGED <<owner[s], pos[s]>>
    BY <1>2 DEF KeepOrRemovePlayer, Occupied, Players, TypeOK
  <2>3. CASE occupant[s] = c
    <3>1. UNCHANGED <<owner[s], pos[s]>>
      BY <2>2, <2>3, ClientsAssumption
    <3> QED BY <1>1, <2>1, <3>1, SameSeat
  <2>4. CASE occupant[s] # c
    BY <2>1, <2>4 DEF Seat, Stranger, OneSpawn, SpawnPoint, Followed, RightlyTagged
  <2> QED BY <2>3, <2>4
<1>3. CASE NoRoomToSpawn \/ NoMoreMoves
  BY <1>1, <1>3, SameSeat DEF NoRoomToSpawn, NoMoreMoves, clientVars
<1> QED BY <1>0, <1>1, <1>2, <1>3, SeatSend, SeatNewPlayer, SeatReceiveMove, SeatUpdate DEF Tick

LEMMA FollowLibrary ==
    ASSUME TypeOK, Seating, FollowInv, LibraryStep PROVE FollowInv'
<1> SUFFICES ASSUME reliable', NEW c \in Clients, NEW s \in Slots PROVE Seat(c, s)'
  BY DEF FollowInv
<1> USE DEF clientVars, serverVars
<1>0. UNCHANGED <<reliable, owner, pos, queue, game, tag>>
  BY DEF LibraryStep, NothingMore, Disconnected, TimedOut, Accept, DropBundle
<1>1. Seat(c, s)
  BY <1>0 DEF FollowInv
<1>2. CASE NothingMore
  BY <1>1, <1>2, SameSeat DEF NothingMore
<1>3. ASSUME NEW t \in Slots, Disconnected(t) \/ TimedOut(t) PROVE Seat(c, s)'
  <2>1. FreeSlot(t) /\ t \in Occupied /\ UNCHANGED <<phase, wire>>
    BY <1>3 DEF Disconnected, TimedOut
  <2>2. CASE t = s
    <3>1. occupant'[s] # c
      BY <2>1, <2>2, ClientsAssumption DEF FreeSlot, TypeOK
    <3> QED BY <3>1 DEF Seat, Stranger, OneSpawn, SpawnPoint, Followed, RightlyTagged
  <2>3. CASE t # s
    <3>1. occupant'[s] = occupant[s] /\ outbox'[s] = outbox[s]
      BY <2>1, <2>3 DEF FreeSlot, TypeOK
    <3>2. occupant[s] = c => occupant[t] # c
      BY <2>3, ClientsAssumption DEF Seating
    <3>3. occupant[s] = c => UNCHANGED toServer[c]
      BY <2>1, <3>2 DEF FreeSlot, TypeOK
    <3> QED BY <1>0, <1>1, <2>1, <3>1, <3>3, SameSeat
  <2> QED BY <2>2, <2>3
<1>4. ASSUME NEW d \in Clients, Accept(d) PROVE Seat(c, s)'
  <2>1. PICK t \in Slots : occupant[t] = Nobody /\ occupant' = [occupant EXCEPT ![t] = d]
    BY <1>4 DEF Accept, Occupied
  <2>2. phase[d] = "off" /\ phase' = [phase EXCEPT ![d] = "running"] /\ UNCHANGED <<wire, outbox, toServer>>
    BY <1>4 DEF Accept
  <2>3. CASE d # c
    <3>1. occupant'[s] = c => occupant[s] = c
      BY <2>1, <2>3 DEF TypeOK
    <3>2. phase'[c] = phase[c]
      BY <2>2, <2>3 DEF TypeOK
    <3> QED BY <1>0, <1>1, <2>2, <3>1, <3>2, SameSeat
  <2>4. CASE d = c
    <3>1. occupant[s] # c /\ owner[s] # c /\ wire[c] = <<>> /\ game[c] = NewGame
      BY <2>2, <2>4 DEF Seating
    <3>2. occupant'[s] = c => outbox[s] = <<>>
      BY <2>1, <2>4, <3>1 DEF Seating, TypeOK
    <3>3. Stranger(c, s)'
      BY <1>0, <2>2, <3>1, <3>2 DEF Stranger, None, Has, NewGame
    <3>4. owner'[s] # c
      BY <1>0, <3>1
    <3> QED BY <3>3, <3>4 DEF Seat, OneSpawn, SpawnPoint, Followed, RightlyTagged
  <2> QED BY <2>3, <2>4
<1>5. ASSUME NEW d \in Clients, DropBundle(d) PROVE Seat(c, s)'
  BY <1>0, <1>5 DEF DropBundle
<1> QED BY <1>2, <1>3, <1>4, <1>5 DEF LibraryStep

LEMMA SeatReceivePackets ==
    ASSUME TypeOK, reliable, NEW c \in Clients, ReceivePackets(c), NEW s \in Slots, Quiet, Seat(c, s)
    PROVE  Seat(c, s)'
<1>0. UNCHANGED <<occupant, owner, pos, outbox, queue, tag, phase, toServer>> /\ phase[c] = "running"
  BY DEF ReceivePackets, serverVars
<1>1. /\ 1 \in DOMAIN wire[c]
      /\ game' = [game EXCEPT ![c] = FoldLeft(Handle, game[c], wire[c][1])]
      /\ wire' = [wire EXCEPT ![c] = RemoveAt(wire[c], 1)]
  <2>1. PICK i \in Deliverable(wire[c]) :
            /\ game' = [game EXCEPT ![c] = FoldLeft(Handle, @, wire[c][i])]
            /\ wire' = [wire EXCEPT ![c] = RemoveAt(@, i)]
    BY DEF ReceivePackets
  <2>2. i = 1 /\ i \in DOMAIN wire[c]
    BY DEF Deliverable
  <2> QED BY <2>1, <2>2
<1> DEFINE b == wire[c][1]
           g == FoldLeft(Handle, game[c], b)
<1>2. wire[c] \in Seq(Seq(Message)) /\ game[c] \in Game /\ b \in Seq(Message)
  BY <1>1 DEF TypeOK
<1>3. game'[c] = g /\ wire'[c] = RemoveAt(wire[c], 1)
  <2>1. game \in [Clients -> Game] /\ wire \in [Clients -> Seq(Seq(Message))]
    BY DEF TypeOK
  <2> HIDE DEF Game, g
  <2> QED BY <1>1, <2>1 DEF g
<1>4. /\ game[c].spawned => g.spawned
      /\ \A p : (game[c].spawned => game[c].at = p) /\ SpawnsAt(b, p)
            => (g.spawned => g.at = p /\ (game[c].spawned \/ Has(b, "spawn")))
  BY <1>2, BundleKeepsSpawned, BundlePlaces
<1>5. game[c].spawned /\ ~Has(b, "spawn") => g.at = game[c].at
  BY <1>4, SpawnsAtNone
<1>6. g.spawned => game[c].spawned \/ Has(b, "spawn")
  <2>1. CASE game[c].spawned
    BY <2>1
  <2>2. CASE ~game[c].spawned /\ ~Has(b, "spawn")
    BY <1>4, <2>2, SpawnsAtNone
  <2> QED BY <2>1, <2>2
<1> HIDE DEF b, g
<1>7. Stranger(c, s)'
  <2> SUFFICES ASSUME occupant[s] = c, owner[s] # c
               PROVE  ~g.spawned /\ ~Has(outbox[s], "spawn") /\ None(wire'[c])
    BY <1>0, <1>3 DEF Stranger
  <2>1. ~game[c].spawned /\ ~Has(outbox[s], "spawn") /\ None(wire[c])
    BY DEF Seat, Stranger
  <2>2. ~Has(b, "spawn")
    BY <1>1, <2>1 DEF None, b
  <2> QED BY <1>1, <1>2, <1>3, <1>6, <2>1, <2>2, NoneReceived
<1>8. OneSpawn(c, s)'
  <2> SUFFICES ASSUME occupant[s] = c, owner[s] = c
               PROVE  Once(g.spawned, outbox[s], wire'[c])
    BY <1>0, <1>3 DEF OneSpawn
  <2>1. Once(game[c].spawned, outbox[s], wire[c])
    BY DEF Seat, OneSpawn
  <2> QED BY <1>1, <1>2, <1>3, <1>6, <2>1, OnceReceived DEF b
<1>9. SpawnPoint(c, s)'
  <2> SUFFICES ASSUME RightlyTagged(c, s), ~g.spawned
               PROVE  SpawnsAt(outbox[s], pos[s]) /\ \A k \in DOMAIN wire'[c] : SpawnsAt(wire'[c][k], pos[s])
    BY <1>0, <1>3 DEF SpawnPoint, RightlyTagged
  <2>1. SpawnsAt(outbox[s], pos[s]) /\ \A j \in DOMAIN wire[c] : SpawnsAt(wire[c][j], pos[s])
    BY <1>0, <1>4 DEF Seat, SpawnPoint
  <2> QED BY <1>1, <1>2, <1>3, <2>1, WireShortened
<1>10. Followed(c, s)'
  <2> SUFFICES ASSUME RightlyTagged(c, s), g.spawned
               PROVE  Leads(s, queue \o toServer[c], pos[s], g.at)
    BY <1>0, <1>3 DEF Followed, RightlyTagged
  <2>1. CASE game[c].spawned
    <3>1. Once(game[c].spawned, outbox[s], wire[c])
      BY DEF Seat, OneSpawn, RightlyTagged
    <3>2. ~Has(b, "spawn")
      BY <1>1, <2>1, <3>1 DEF Once, b
    <3> QED BY <1>5, <2>1, <3>2 DEF Seat, Followed
  <2>2. CASE ~game[c].spawned
    <3>1. SpawnsAt(b, pos[s])
      BY <1>0, <1>1, <2>2 DEF Seat, SpawnPoint, b
    <3>2. g.at = pos[s]
      BY <1>4, <2>2, <3>1
    <3>3. toServer[c] = <<>> /\ \A k \in DOMAIN queue : queue[k].id # s
      BY <1>0, <2>2 DEF Quiet, Alone, RightlyTagged
    <3>4. queue \in Seq(Move) /\ pos[s] \in Cell
      BY DEF TypeOK
    <3>5. queue \o toServer[c] = queue
      BY <3>3, <3>4
    <3> QED BY <3>2, <3>3, <3>4, <3>5, LeadsStill
  <2> QED BY <2>1, <2>2
<1> QED BY <1>7, <1>8, <1>9, <1>10 DEF Seat

LEMMA SeatLocalMove ==
    ASSUME TypeOK, SpawnInv, NEW c \in Clients, LocalMove(c), NEW s \in Slots, Seat(c, s)
    PROVE  Seat(c, s)'
<1>0. UNCHANGED <<occupant, owner, pos, outbox, queue, tag, phase, wire>> /\ game[c].spawned
  BY DEF LocalMove, serverVars, SpawnInv, MovesFromSpawn
<1>1. PICK p \in PossibleMoves(game[c].at) :
          /\ game' = [game EXCEPT ![c].at = p]
          /\ toServer' = [toServer EXCEPT ![c] =
                IF Connected(c) THEN Append(@, [id |-> tag[c], at |-> p]) ELSE @]
  BY DEF LocalMove
<1>2. game'[c].spawned = game[c].spawned /\ game'[c].at = p
  BY <1>1, GameFields DEF TypeOK, Game
<1>3. Stranger(c, s)' /\ OneSpawn(c, s)' /\ SpawnPoint(c, s)'
  BY <1>0, <1>2 DEF Seat, Stranger, OneSpawn, SpawnPoint, RightlyTagged
<1>4. Followed(c, s)'
  <2> SUFFICES ASSUME RightlyTagged(c, s)
               PROVE  Leads(s, queue \o toServer'[c], pos[s], p)
    BY <1>0, <1>2 DEF Followed, RightlyTagged
  <2> DEFINE e == [id |-> tag[c], at |-> p]
  <2>1. e \in Move /\ e.id = s /\ e.at = p /\ Near(p, game[c].at)
    <3>1. p \in Cell /\ Near(game[c].at, p) /\ game[c].at \in Cell
      BY MoveProperties, GameFields DEF TypeOK
    <3>2. Near(p, game[c].at)
      BY <3>1, MapAssumption DEF Near, Cell
    <3> QED BY <3>1, <3>2 DEF Move, RightlyTagged, TypeOK
  <2>2. toServer'[c] = Append(toServer[c], e)
    BY <1>1 DEF Connected, RightlyTagged, TypeOK
  <2>3. queue \in Seq(Move) /\ toServer[c] \in Seq(Move)
    BY DEF TypeOK
  <2> HIDE DEF e
  <2>4. queue \o Append(toServer[c], e) = Append(queue \o toServer[c], e)
        /\ queue \o toServer[c] \in Seq(Move)
    BY <2>1, <2>3, AppendJoined
  <2>5. Leads(s, queue \o toServer[c], pos[s], game[c].at)
    BY <1>0 DEF Seat, Followed
  <2>6. Leads(s, Append(queue \o toServer[c], e), pos[s], e.at)
    BY <2>1, <2>4, <2>5, LeadsOn
  <2> QED BY <2>1, <2>2, <2>4, <2>6
<1> QED BY <1>3, <1>4 DEF Seat

LEMMA SeatLeave ==
    ASSUME TypeOK, NEW c \in Clients, NoRoomToMove(c) \/ Quit(c), NEW s \in Slots, Seat(c, s)
    PROVE  Seat(c, s)'
<1>0. /\ UNCHANGED <<occupant, owner, pos, outbox, queue, tag, toServer>>
      /\ wire'[c] = <<>> /\ phase'[c] # "running"
      /\ game'[c] = game[c] \/ ~game'[c].spawned
  <2>1. CASE NoRoomToMove(c)
    BY <2>1 DEF NoRoomToMove, serverVars, TypeOK
  <2>2. CASE Quit(c)
    <3>1. game'[c] = NewGame
      BY <2>2 DEF Quit, TypeOK
    <3> QED BY <2>2, <3>1 DEF Quit, serverVars, TypeOK, NewGame
  <2> QED BY <2>1, <2>2
<1>1. None(wire'[c]) /\ DOMAIN wire'[c] = {}
  BY <1>0 DEF None
<1>2. Stranger(c, s)'
  BY <1>0, <1>1 DEF Seat, Stranger
<1>3. OneSpawn(c, s)'
  BY <1>0, <1>1 DEF Seat, OneSpawn, Once
<1>4. SpawnPoint(c, s)'
  BY <1>0 DEF SpawnPoint
<1>5. Followed(c, s)'
  BY <1>0 DEF Seat, Followed, RightlyTagged
<1> QED BY <1>2, <1>3, <1>4, <1>5 DEF Seat

LEMMA FollowClient ==
    ASSUME TypeOK, SpawnInv, Quiet, FollowInv, NEW d \in Clients, ClientStep(d) PROVE FollowInv'
<1> SUFFICES ASSUME reliable', NEW c \in Clients, NEW s \in Slots PROVE Seat(c, s)'
  BY DEF FollowInv
<1>0. UNCHANGED <<reliable, occupant, owner, pos, outbox, queue, tag>>
  BY DEF ClientStep, ReceivePackets, LocalMove, NoRoomToMove, Quit, serverVars
<1>1. Seat(c, s)
  BY <1>0 DEF FollowInv
<1>2. CASE d # c
  <2>1. UNCHANGED <<phase[c], game[c], wire[c], toServer[c]>>
    <3>1. CASE ReceivePackets(d)
      BY <3>1, <1>2 DEF ReceivePackets, TypeOK
    <3>2. CASE LocalMove(d)
      BY <3>2, <1>2 DEF LocalMove, TypeOK
    <3>3. CASE NoRoomToMove(d)
      BY <3>3, <1>2 DEF NoRoomToMove, TypeOK
    <3>4. CASE Quit(d)
      BY <3>4, <1>2 DEF Quit, TypeOK
    <3> QED BY <3>1, <3>2, <3>3, <3>4 DEF ClientStep
  <2> QED BY <1>0, <1>1, <2>1, SameSeat
<1>3. CASE d = c
  BY <1>0, <1>1, <1>3, SeatReceivePackets, SeatLocalMove, SeatLeave DEF ClientStep
<1> QED BY <1>2, <1>3

LEMMA FollowStep ==
    TypeOK /\ Seating /\ SpawnInv /\ Quiet /\ FollowInv /\ [Next]_vars => FollowInv'
<1>1. FollowInv /\ UNCHANGED vars => FollowInv'
  BY DEF vars, serverVars, clientVars, FollowInv, Seat, Stranger, OneSpawn, SpawnPoint, Followed,
         RightlyTagged
<1> QED BY <1>1, FollowTick, FollowLibrary, FollowClient DEF Next

\* With -r a client with the right byte is where the server has it whenever none of
\* its moves is on its way: not one of them has been turned down.
THEOREM RightBytesAreFollowed == Spec => []RightTagIsFollowed
<1>1. Init => FollowInv
  BY ClientsAssumption DEF Init, FollowInv, Seat, Stranger, OneSpawn, SpawnPoint, Followed,
                           RightlyTagged
<1>2. FollowInv => RightTagIsFollowed
  <2> SUFFICES ASSUME FollowInv, reliable, NEW c \in Clients, NEW s \in Slots, RightlyTagged(c, s),
                      game[c].spawned, toServer[c] = <<>>, queue = <<>>
               PROVE  pos[s] = game[c].at
    BY DEF RightTagIsFollowed
  <2>1. Leads(s, <<>> \o <<>>, pos[s], game[c].at)
    BY DEF FollowInv, Seat, Followed
  <2>2. <<>> \o <<>> = <<>>
    OBVIOUS
  <2>3. Leads(s, <<>>, pos[s], game[c].at)
    BY <2>1, <2>2
  <2> QED BY <2>3, LeadsNowhere
<1> QED BY <1>1, <1>2, TypeCorrect, SpawnInvInit, SpawnInvStep, SeatingInit, SeatingStep,
           QuietInit, QuietStep, FollowStep, PTL DEF Spec
=============================================================================
