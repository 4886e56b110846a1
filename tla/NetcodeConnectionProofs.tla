------------------------ MODULE NetcodeConnectionProofs ------------------------
(***************************************************************************)
(* What NetcodeConnection promises of its states, for any clients, tokens, *)
(* bounds and number of servers.                                           *)
(*                                                                         *)
(* Types (the types, with a server that is Seated: no client and no index  *)
(* in two slots) is inductive by itself.  Orderly adds that the server is  *)
(* Sound: of the mappings that an address has only the first may not have  *)
(* expired (Ordered), and every slot has its own (Backed).  Handshake adds *)
(* what is on the way with the token of a client that is past its          *)
(* requests, and that whoever can still be taken for it is in the slot it  *)
(* was told of (Told).  The latter two need a server that is never later   *)
(* than the timeout (Prompt).                                              *)
(*                                                                         *)
(* What goes over a connection is NetcodePackets', whose theorems follow   *)
(* at the end of this module.                                              *)
(***************************************************************************)
EXTENDS NetcodeConnection, FiniteSetTheorems, SequenceTheorems, TLAPS

Receiving == INSTANCE FoldLeftTheorems WITH Op <- Received
Processing == INSTANCE FoldLeftTheorems WITH Op <- Process1

LEMMA ReceivedIs ==
    ASSUME NEW k, NEW b PROVE FoldLeft(Received, k, b) = Receiving!Folded(k, b)
BY DEF Receiving!Folded, FoldLeft, Receiving!FoldLeft, MapThenFoldSet, Receiving!MapThenFoldSet,
       Max, Receiving!Max

LEMMA ProcessedIs ==
    ASSUME NEW r, NEW b PROVE FoldLeft(Process1, r, b) = Processing!Folded(r, b)
BY DEF Processing!Folded, FoldLeft, Processing!FoldLeft, MapThenFoldSet, Processing!MapThenFoldSet,
       Max, Processing!Max

(***************************************************************************)
(* The first and the last of some numbers.                                 *)
(***************************************************************************)

LEMMA MinOf ==
    ASSUME NEW S, S \subseteq Nat, S # {}
    PROVE  Min(S) \in S /\ \A y \in S : Min(S) <= y
<1>1. \E x \in S : \A y \in S : x <= y
  BY Receiving!Least
<1> QED BY <1>1 DEF Min

LEMMA FirstOf ==
    ASSUME NEW S, S # {}, \A x \in S : x.index \in Nat
    PROVE  First(S) \in S /\ \A y \in S : First(S).index <= y.index
<1> DEFINE T == {x.index : x \in S}
<1>1. T \subseteq Nat /\ T # {}
  OBVIOUS
<1>2. \E i \in T : \A j \in T : i <= j
  <2> HIDE DEF T
  <2> QED BY <1>1, Receiving!Least
<1>3. \E x \in S : \A y \in S : x.index <= y.index
  BY <1>2
<1> QED BY <1>3 DEF First

LEMMA MaxOf ==
    ASSUME NEW n \in Nat, NEW S, S \subseteq -1..n, S # {}
    PROVE  Max(S) \in S /\ \A y \in S : y <= Max(S)
<1> DEFINE T == {n - x : x \in S}
<1>1. T \subseteq Nat /\ T # {}
  <2>1. \A x \in S : n - x \in Nat
    OBVIOUS
  <2>2. PICK x \in S : TRUE
    OBVIOUS
  <2>3. n - x \in T
    BY <2>2
  <2> QED BY <2>1, <2>3
<1>2. \E i \in T : \A j \in T : i <= j
  <2> HIDE DEF T
  <2> QED BY <1>1, Receiving!Least
<1>3. \E x \in S : \A y \in S : x >= y
  <2>1. PICK i \in T : \A j \in T : i <= j
    BY <1>2
  <2>2. PICK x \in S : i = n - x
    BY <2>1
  <2>3. \A y \in S : n - x <= n - y
    BY <2>1, <2>2
  <2>4. \A y \in S : x >= y
    BY <2>2, <2>3
  <2> QED BY <2>4
<1>4. Max(S) \in S /\ \A y \in S : Max(S) >= y
  BY <1>3 DEF Max
<1> QED BY <1>4

(***************************************************************************)
(* Types.                                                                  *)
(***************************************************************************)

SlotRec == [index : Nat, client : Clients, mapping : Mappings, heard : Age]
MappingRec == [index : Mappings, address : Clients \union {Nobody}, token : Given,
               access : Age, waiting : Age \union {-1}]
Machine == [running : BOOLEAN, key : 1..Len(NumSlots), slots : SUBSET SlotRec, connected : Int,
            mappings : SUBSET MappingRec, used : 0..NumMappings]

LEMMA GivenIs == \A t \in Given : t[1] \in Clients /\ t[2] \in Nat /\ t = <<t[1], t[2]>>
<1> SUFFICES ASSUME NEW t \in Given PROVE t[1] \in Clients /\ t[2] \in Nat /\ t = <<t[1], t[2]>>
  OBVIOUS
<1>1. PICK c \in Clients : t \in {c} \X (1..MaxTokens[c])
  BY DEF Given
<1>2. MaxTokens[c] \in Nat
  BY BoundsAssumption
<1> QED BY <1>1, <1>2

LEMMA TimeoutIs == Timeout \in Nat /\ Timeout > 0 /\ NumMappings \in Nat /\ NumMappings > 0
BY BoundsAssumption

LEMMA AgedType ==
    ASSUME NEW age \in Age, NEW n \in Nat
    PROVE  Aged(age, n) \in Age /\ (Aged(age, n) <= Timeout => age <= Timeout)
BY TimeoutIs DEF Aged, Age

LEMMA MachineIs ==
    ASSUME NEW s \in Machine
    PROVE  /\ s.running \in BOOLEAN /\ s.key \in 1..Len(NumSlots) /\ s.slots \subseteq SlotRec
           /\ s.connected \in Int /\ s.mappings \subseteq MappingRec /\ s.used \in 0..NumMappings
BY DEF Machine

LEMMA SlotIs ==
    ASSUME NEW x \in SlotRec
    PROVE  x.index \in Nat /\ x.client \in Clients /\ x.mapping \in Mappings /\ x.heard \in Age
BY DEF SlotRec

LEMMA MappingIs ==
    ASSUME NEW m \in MappingRec
    PROVE  /\ m.index \in Mappings /\ m.index \in Nat /\ m.address \in Clients \union {Nobody}
           /\ m.token \in Given /\ m.access \in Age /\ m.waiting \in Age \union {-1}
BY DEF MappingRec, Mappings

(***************************************************************************)
(* What the operators on the server do.                                    *)
(***************************************************************************)

LEMMA Touch1Is ==
    ASSUME NEW m \in MappingRec
    PROVE  LET n == [m EXCEPT !.access = 0] IN
           /\ n \in MappingRec /\ n.index = m.index /\ n.address = m.address /\ n.token = m.token
           /\ n.access = 0 /\ n.waiting = m.waiting
BY TimeoutIs DEF MappingRec, Age

LEMMA TouchIs ==
    ASSUME NEW s \in Machine, NEW M \in SUBSET s.mappings
    PROVE  LET t == Touch(s, M) IN
           /\ t \in Machine
           /\ t.slots = s.slots /\ t.connected = s.connected /\ t.used = s.used
           /\ t.key = s.key /\ t.running = s.running
           /\ t.mappings = (s.mappings \ M) \union {[m EXCEPT !.access = 0] : m \in M}
<1>1. \A m \in M : [m EXCEPT !.access = 0] \in MappingRec
  BY MachineIs, Touch1Is
<1> QED BY <1>1 DEF Touch, Machine

LEMMA RoomIs ==
    ASSUME NEW s \in Machine, NEW c \in Clients
    PROVE  Room(s, c) \subseteq Mappings /\ Room(s, c) \subseteq Nat
           /\ Valid(s, c) \subseteq s.mappings /\ MappingsOf(s, c) \subseteq s.mappings
BY MachineIs, MappingIs DEF Room, Valid, MappingsOf, Mappings

LEMMA AddMappingIs ==
    ASSUME NEW s \in Machine, NEW t \in Given, Room(s, t[1]) # {}
    PROVE  LET a == AddMapping(s, t)
               i == Min(Room(s, t[1]))
               m == [index |-> i, address |-> t[1], token |-> t, access |-> 0, waiting |-> 0]
           IN /\ a \in Machine
              /\ a.slots = s.slots /\ a.connected = s.connected /\ a.key = s.key /\ a.running = s.running
              /\ a.used >= s.used /\ i < a.used
              /\ i \in Room(s, t[1]) /\ \A j \in Room(s, t[1]) : i <= j
              /\ m \in MappingRec
              /\ a.mappings = {n \in s.mappings : n.index # i} \union {m}
<1> DEFINE i == Min(Room(s, t[1]))
           m == [index |-> i, address |-> t[1], token |-> t, access |-> 0, waiting |-> 0]
           u == IF i + 1 > s.used THEN i + 1 ELSE s.used
<1>1. t[1] \in Clients
  BY GivenIs
<1>2. i \in Room(s, t[1]) /\ \A j \in Room(s, t[1]) : i <= j
  BY <1>1, RoomIs, MinOf
<1>3. i \in Mappings
  BY <1>1, <1>2, RoomIs
<1> HIDE DEF i
<1>4. m \in MappingRec
  BY <1>1, <1>3, TimeoutIs DEF MappingRec, Age
<1>5. u \in 0..NumMappings /\ u >= s.used /\ i < u
  BY <1>3, TimeoutIs, MachineIs DEF Mappings
<1>6. AddMapping(s, t) = [s EXCEPT !.mappings = {n \in s.mappings : n.index # i} \union {m}, !.used = u]
  BY DEF AddMapping, i
<1> HIDE DEF m, u
<1>7. AddMapping(s, t) \in Machine
  BY <1>4, <1>5, <1>6 DEF Machine
<1> QED BY <1>2, <1>4, <1>5, <1>6, <1>7 DEF Machine, i, m

LEMMA UsedWithoutIs ==
    ASSUME NEW s \in Machine, NEW m \in s.mappings, m.index < s.used
    PROVE  /\ UsedWithout(s, m) \in 0..s.used
           /\ m.index + 1 < s.used => UsedWithout(s, m) = s.used
           /\ m.index + 1 >= s.used => UsedWithout(s, m) <= m.index
           /\ \A n \in s.mappings : n.index < s.used /\ n.index # m.index /\ ~Expired(n)
                 => n.index < UsedWithout(s, m)
<1> DEFINE S == {-1} \union Kept(s, m)
<1>1. s.used \in 0..NumMappings /\ m.index \in Nat /\ \A n \in s.mappings : n.index \in Nat
  BY MachineIs, MappingIs
<1>2. S \subseteq -1..(m.index - 1) /\ S # {}
  BY <1>1 DEF Kept
<1>3. Max(S) \in S /\ \A y \in S : y <= Max(S)
  <2> HIDE DEF S
  <2>1. S \subseteq -1..m.index
    BY <1>1, <1>2
  <2> QED BY <1>1, <1>2, <2>1, MaxOf
<1>4. \A n \in s.mappings : n.index < m.index /\ ~Expired(n) => n.index \in S
  BY DEF Kept
<1> HIDE DEF S
<1>5. UsedWithout(s, m) = IF m.index + 1 < s.used THEN s.used ELSE Max(S) + 1
  BY DEF UsedWithout, S
<1>6. Max(S) \in -1..(m.index - 1)
  BY <1>2, <1>3
<1>7. CASE m.index + 1 < s.used
  BY <1>1, <1>5, <1>7, TimeoutIs
<1>8. CASE ~(m.index + 1 < s.used)
  <2>1. UsedWithout(s, m) = Max(S) + 1
    BY <1>5, <1>8
  <2>2. \A n \in s.mappings : n.index < s.used /\ n.index # m.index /\ ~Expired(n) => n.index <= Max(S)
    BY <1>1, <1>3, <1>4, <1>8, TimeoutIs
  <2>3. \A n \in s.mappings : n.index <= Max(S) => n.index < Max(S) + 1
    BY <1>1, <1>6
  <2> QED BY <1>1, <1>6, <1>8, <2>1, <2>2, <2>3, TimeoutIs
<1> QED BY <1>7, <1>8

(***************************************************************************)
(* The table of slots.                                                     *)
(***************************************************************************)

Alone(S) == \A x, y \in S : x.client = y.client \/ x.index = y.index => x = y
Seated(s) ==
    /\ s \in Machine
    /\ \A x \in s.slots : x.index \in Slots(s.key)
    /\ s.connected = Cardinality(s.slots)
    /\ Alone(s.slots)

LEMMA SlotsIs ==
    ASSUME NEW s \in Machine
    PROVE  NumSlots[s.key] \in Nat \ {0} /\ Slots(s.key) = 0..(NumSlots[s.key] - 1)
BY MachineIs, BoundsAssumption DEF Slots

LEMMA SeatedFinite == ASSUME NEW s, Seated(s) PROVE IsFiniteSet(s.slots)
<1> DEFINE f == [x \in s.slots |-> x.index]
<1>1. f \in Injection(s.slots, Slots(s.key))
  BY DEF Seated, Alone, Injection, IsInjective
<1>2. IsFiniteSet(Slots(s.key))
  BY SlotsIs, FS_Interval DEF Seated
<1> QED BY <1>1, <1>2, FS_Injection

\* A table that is not full has a slot left.
LEMMA FreeSlotIs ==
    ASSUME NEW s, Seated(s), ~Full(s)
    PROVE  FreeSlot(s) \in Slots(s.key) /\ \A x \in s.slots : x.index # FreeSlot(s)
<1> DEFINE I == {x.index : x \in s.slots}
           n == NumSlots[s.key]
           f == [x \in s.slots |-> x.index]
<1>1. n \in Nat \ {0} /\ Slots(s.key) = 0..(n - 1) /\ I \subseteq Slots(s.key)
  BY SlotsIs DEF Seated
<1>2. Slots(s.key) \ I # {}
  <2> SUFFICES ASSUME I = Slots(s.key) PROVE FALSE
    BY <1>1
  <2>1. f \in [s.slots -> Slots(s.key)]
    BY <1>1
  <2>2. \A a, b \in s.slots : f[a] = f[b] => a = b
    BY DEF Seated, Alone
  <2>3. \A i \in Slots(s.key) : \E x \in s.slots : f[x] = i
    OBVIOUS
  <2>4. f \in Bijection(s.slots, Slots(s.key))
    <3> HIDE DEF f, I
    <3> QED BY <2>1, <2>2, <2>3 DEF Bijection, Injection, Surjection, IsInjective
  <2>5. Cardinality(s.slots) = Cardinality(Slots(s.key))
    BY <2>4, SeatedFinite, FS_Bijection DEF ExistsBijection
  <2>6. Cardinality(Slots(s.key)) = n
    BY <1>1, FS_Interval
  <2> QED BY <2>5, <2>6 DEF Seated, Full
<1>3. Slots(s.key) \ I \subseteq Nat
  BY <1>1
<1>4. FreeSlot(s) \in Slots(s.key) \ I
  BY <1>2, <1>3, MinOf DEF FreeSlot
<1> QED BY <1>4

\* What touches mappings only leaves the table as it was.
LEMMA SameTable ==
    ASSUME NEW s, Seated(s), NEW t \in Machine,
           t.slots = s.slots, t.connected = s.connected, t.key = s.key
    PROVE  Seated(t)
BY DEF Seated

LEMMA RemoveMappingIs ==
    ASSUME NEW s \in Machine, NEW c \in Clients
    PROVE  LET t == RemoveMapping(s, c) IN
           /\ t \in Machine
           /\ t.slots = s.slots /\ t.connected = s.connected /\ t.key = s.key /\ t.running = s.running
           /\ MappingsOf(s, c) = {} => t = s
           /\ MappingsOf(s, c) # {} =>
                 LET m == First(MappingsOf(s, c))
                     used == UsedWithout(s, m)
                 IN /\ m \in MappingsOf(s, c) /\ \A y \in MappingsOf(s, c) : m.index <= y.index
                    /\ t.used = used
                    /\ t.mappings = {IF used <= n.index /\ n.index < m.index
                                     THEN [n EXCEPT !.address = Nobody] ELSE n : n \in s.mappings \ {m}}
<1>1. CASE MappingsOf(s, c) = {}
  BY <1>1 DEF RemoveMapping
<1>2. CASE MappingsOf(s, c) # {}
  <2> DEFINE m == First(MappingsOf(s, c))
             used == UsedWithout(s, m)
             M == {IF used <= n.index /\ n.index < m.index
                   THEN [n EXCEPT !.address = Nobody] ELSE n : n \in s.mappings \ {m}}
  <2>1. m \in MappingsOf(s, c) /\ \A y \in MappingsOf(s, c) : m.index <= y.index
    BY <1>2, RoomIs, MachineIs, MappingIs, FirstOf
  <2>2. m \in s.mappings /\ m.index < s.used
    BY <2>1 DEF MappingsOf
  <2> HIDE DEF m
  <2>3. used \in 0..NumMappings
    BY <2>2, UsedWithoutIs, MachineIs, TimeoutIs
  <2> HIDE DEF used
  <2>4. M \subseteq MappingRec
    <3>1. \A n \in s.mappings : n \in MappingRec
      BY MachineIs
    <3>2. \A n \in MappingRec : [n EXCEPT !.address = Nobody] \in MappingRec
      BY DEF MappingRec
    <3> QED BY <3>1, <3>2
  <2>5. RemoveMapping(s, c) = [s EXCEPT !.used = used, !.mappings = M]
    BY <1>2 DEF RemoveMapping, m, used
  <2> HIDE DEF M
  <2>6. RemoveMapping(s, c) \in Machine
    BY <2>3, <2>4, <2>5 DEF Machine
  <2> QED BY <1>2, <2>1, <2>5, <2>6 DEF m, used, M, Machine
<1> QED BY <1>1, <1>2

LEMMA FreedIs ==
    ASSUME NEW s, Seated(s), NEW x \in s.slots
    PROVE  LET t == Freed(s, x)
               r == RemoveMapping(s, x.client) IN
           /\ Seated(t)
           /\ t.slots = s.slots \ {x} /\ t.mappings = r.mappings /\ t.used = r.used
           /\ t.key = s.key /\ t.running = s.running
<1> DEFINE r == RemoveMapping(s, x.client)
<1>1. s \in Machine /\ x \in SlotRec
  BY MachineIs DEF Seated
<1>2. r \in Machine /\ r.slots = s.slots /\ r.connected = s.connected /\ r.key = s.key /\ r.running = s.running
  BY <1>1, SlotIs, RemoveMappingIs
<1> HIDE DEF r
<1>3. Freed(s, x) = [r EXCEPT !.slots = r.slots \ {x}, !.connected = r.connected - 1]
  BY DEF Freed, r
<1>4. Freed(s, x) \in Machine
  <2>1. r.slots \ {x} \in SUBSET SlotRec /\ r.connected - 1 \in Int
    BY <1>2, MachineIs
  <2> QED BY <1>2, <1>3, <2>1 DEF Machine
<1>5. Cardinality(s.slots \ {x}) = s.connected - 1
  BY SeatedFinite, FS_RemoveElement DEF Seated
<1>6. /\ Freed(s, x).slots = s.slots \ {x} /\ Freed(s, x).mappings = r.mappings
      /\ Freed(s, x).used = r.used /\ Freed(s, x).connected = s.connected - 1
      /\ Freed(s, x).key = s.key /\ Freed(s, x).running = s.running
  BY <1>2, <1>3 DEF Machine
<1>7. Seated(Freed(s, x))
  BY <1>4, <1>5, <1>6 DEF Seated, Alone
<1> QED BY <1>6, <1>7 DEF r

\* The mappings that go with some slots.
TouchedBy(s, S) == UNION {Touched(s, x) : x \in S}

LEMMA TouchedByIs ==
    ASSUME NEW s \in Machine, NEW S \in SUBSET s.slots
    PROVE  /\ TouchedBy(s, S) \in SUBSET s.mappings
           /\ \A m : m \in TouchedBy(s, S) <=> \E x \in S : m \in s.mappings /\ m.index = x.mapping /\ m.address = x.client
BY DEF Touched, TouchedBy

LEMMA SendSlotsTouches ==
    ASSUME NEW s, NEW S, NEW kind PROVE SendSlots(s, S, kind).server = Touch(s, TouchedBy(s, S))
BY DEF SendSlots, TouchedBy

LEMMA SendSlotsSeated ==
    ASSUME NEW s, Seated(s), NEW S \in SUBSET s.slots, NEW kind
    PROVE  LET t == SendSlots(s, S, kind).server IN
           Seated(t) /\ t.slots = s.slots /\ t.used = s.used /\ t.key = s.key /\ t.running = s.running
<1>1. s \in Machine /\ TouchedBy(s, S) \in SUBSET s.mappings
  BY TouchedByIs DEF Seated
<1> DEFINE t == Touch(s, TouchedBy(s, S))
<1>2. /\ t \in Machine /\ t.slots = s.slots /\ t.connected = s.connected
      /\ t.used = s.used /\ t.key = s.key /\ t.running = s.running
  BY <1>1, TouchIs
<1>3. Seated(t)
  <2> HIDE DEF t
  <2> QED BY <1>2, SameTable
<1> QED BY <1>2, <1>3, SendSlotsTouches

Kinds == {"request", "response", "keep alive", "disconnect", "denied", "challenge"}
PacketRec == [to : Process, kind : Kinds, token : Given, arg : Nat]

LEMMA PacketIn ==
    ASSUME NEW to \in Process, NEW kind \in Kinds, NEW token \in Given, NEW arg \in Nat
    PROVE  LET p == Packet(to, kind, token, arg) IN
           p \in PacketRec /\ p.to = to /\ p.kind = kind /\ p.token = token /\ p.arg = arg
BY DEF Packet, PacketRec

\* Each packet is sent to the client of a slot, with the token of the slot's mapping.
AllFrom(s, S, kind, P) ==
    \A p \in P :
        /\ p \in PacketRec /\ p.kind = kind
        /\ \E x \in S, m \in s.mappings :
              /\ m.index = x.mapping /\ m.address = x.client
              /\ p.to = x.client /\ p.token = m.token /\ p.arg = x.index

LEMMA SendSlotsPackets ==
    ASSUME NEW s, Seated(s), NEW S \in SUBSET s.slots, NEW kind \in Kinds
    PROVE  LET P == SendSlots(s, S, kind).packets IN P \in SUBSET PacketRec /\ AllFrom(s, S, kind, P)
<1> SUFFICES ASSUME NEW p \in SendSlots(s, S, kind).packets
             PROVE  /\ p \in PacketRec /\ p.kind = kind
                    /\ \E x \in S, m \in s.mappings :
                         /\ m.index = x.mapping /\ m.address = x.client
                         /\ p.to = x.client /\ p.token = m.token /\ p.arg = x.index
  BY DEF AllFrom
<1>1. PICK x \in S, m \in s.mappings :
              m.index = x.mapping /\ m.address = x.client /\ p = Packet(x.client, kind, m.token, x.index)
  BY DEF SendSlots, SlotPacket, Touched
<1>2. x.client \in Process /\ m.token \in Given /\ x.index \in Nat
  BY MachineIs, SlotIs, MappingIs DEF Seated, Process
<1>3. p \in PacketRec /\ p.to = x.client /\ p.kind = kind /\ p.token = m.token /\ p.arg = x.index
  BY <1>1, <1>2, PacketIn
<1> QED BY <1>1, <1>3

\* A client that gets a slot: s with one more slot, and mapping m no longer waiting.
Seat(s, c, m) == [index |-> FreeSlot(s), client |-> c, mapping |-> m.index, heard |-> 0]
Settled(m) == [m EXCEPT !.waiting = -1]
Joined(s, c, m) ==
    [s EXCEPT !.slots = @ \union {Seat(s, c, m)}, !.connected = @ + 1,
              !.mappings = (@ \ {m}) \union {Settled(m)}]

LEMMA SeatIs == \A s, c, m : Seat(s, c, m).client = c /\ Seat(s, c, m).mapping = m.index
BY DEF Seat

LEMMA SettledIs ==
    ASSUME NEW m \in MappingRec
    PROVE  LET n == Settled(m) IN
           /\ n \in MappingRec /\ n.index = m.index /\ n.address = m.address /\ n.token = m.token
           /\ n.access = m.access /\ n.waiting = -1
BY DEF MappingRec, Settled

LEMMA ConnectClientIs ==
    ASSUME NEW s, Seated(s), ~Full(s), NEW c \in Clients, SlotsOf(s, c) = {}, NEW m \in s.mappings
    PROVE  LET r == Joined(s, c, m)
               x == Seat(s, c, m) IN
           /\ Seated(r) /\ {x} \in SUBSET r.slots
           /\ r.slots = s.slots \union {x} /\ r.used = s.used /\ r.key = s.key /\ r.running = s.running
           /\ \A y : y \in r.slots <=> y \in s.slots \/ y = x
           /\ r.mappings = (s.mappings \ {m}) \union {Settled(m)}
           /\ ConnectClient(s, c, m) = SendSlots(r, {x}, "keep alive")
<1> DEFINE x == Seat(s, c, m)
           n == Settled(m)
           r == Joined(s, c, m)
<1>1. s \in Machine /\ m \in MappingRec
  BY MachineIs DEF Seated
<1>2. FreeSlot(s) \in Slots(s.key) /\ \A y \in s.slots : y.index # FreeSlot(s)
  BY FreeSlotIs
<1>3. x \in SlotRec
  <2>1. FreeSlot(s) \in Nat
    BY <1>1, <1>2, SlotsIs
  <2> QED BY <1>1, <2>1, MappingIs, TimeoutIs DEF SlotRec, Age, Seat
<1>4. n \in MappingRec
  BY <1>1, SettledIs
<1>5. ConnectClient(s, c, m) = SendSlots(r, {x}, "keep alive")
  BY DEF ConnectClient, Joined, Seat, Settled
<1>6. x.client = c /\ x.index = FreeSlot(s) /\ x \notin s.slots
  BY <1>2 DEF Seat
<1> HIDE DEF x, n
<1>7. /\ r \in Machine /\ r.slots = s.slots \union {x} /\ r.connected = s.connected + 1
      /\ r.mappings = (s.mappings \ {m}) \union {n}
      /\ r.used = s.used /\ r.key = s.key /\ r.running = s.running
  <2>1. /\ s.slots \union {x} \in SUBSET SlotRec /\ s.connected + 1 \in Int
        /\ (s.mappings \ {m}) \union {n} \in SUBSET MappingRec
    BY <1>1, <1>3, <1>4, MachineIs
  <2>2. r = [s EXCEPT !.slots = s.slots \union {x}, !.connected = s.connected + 1,
                      !.mappings = (s.mappings \ {m}) \union {n}]
    BY DEF Joined, x, n
  <2> QED BY <1>1, <2>1, <2>2 DEF Machine
<1> HIDE DEF r
<1>8. Cardinality(s.slots \union {x}) = s.connected + 1
  BY <1>6, SeatedFinite, FS_AddElement DEF Seated
<1>9. Alone(s.slots \union {x})
  BY <1>2, <1>6 DEF Alone, Seated, SlotsOf
<1>10. Seated(r)
  BY <1>2, <1>6, <1>7, <1>8, <1>9 DEF Seated
<1> QED BY <1>5, <1>7, <1>10 DEF x, n, r

LEMMA FromSlotIs ==
    ASSUME NEW s, Seated(s), NEW x \in s.slots, NEW kind
    PROVE  LET t == FromSlot(s, x, kind)
               y == [x EXCEPT !.heard = 0] IN
           /\ Seated(t)
           /\ kind = "disconnect" => t = Freed(s, x)
           /\ kind # "disconnect" =>
                 /\ t.slots = (s.slots \ {x}) \union {y} /\ t.mappings = s.mappings
                 /\ t.used = s.used /\ t.key = s.key /\ t.running = s.running
                 /\ y.index = x.index /\ y.client = x.client /\ y.mapping = x.mapping
<1> DEFINE y == [x EXCEPT !.heard = 0]
<1>1. s \in Machine /\ x \in SlotRec
  BY MachineIs DEF Seated
<1>2. y \in SlotRec /\ y.index = x.index /\ y.client = x.client /\ y.mapping = x.mapping
  BY <1>1, TimeoutIs DEF SlotRec, Age
<1>3. CASE kind = "disconnect"
  BY <1>3, FreedIs DEF FromSlot
<1>4. CASE kind # "disconnect"
  <2>1. FromSlot(s, x, kind) = [s EXCEPT !.slots = (s.slots \ {x}) \union {y}]
    BY <1>4 DEF FromSlot
  <2> HIDE DEF y
  <2>2. /\ FromSlot(s, x, kind) \in Machine /\ FromSlot(s, x, kind).slots = (s.slots \ {x}) \union {y}
        /\ FromSlot(s, x, kind).mappings = s.mappings /\ FromSlot(s, x, kind).connected = s.connected
        /\ FromSlot(s, x, kind).used = s.used /\ FromSlot(s, x, kind).key = s.key
        /\ FromSlot(s, x, kind).running = s.running
    BY <1>1, <1>2, <2>1 DEF Machine
  <2>3. Alone((s.slots \ {x}) \union {y})
    BY <1>2 DEF Seated, Alone
  <2>4. y \notin s.slots \ {x}
    BY <1>2 DEF Seated, Alone
  <2>5. Cardinality((s.slots \ {x}) \union {y}) = s.connected
    <3>1. IsFiniteSet(s.slots \ {x}) /\ Cardinality(s.slots \ {x}) = s.connected - 1
      BY SeatedFinite, FS_RemoveElement DEF Seated
    <3>2. Cardinality((s.slots \ {x}) \union {y}) = Cardinality(s.slots \ {x}) + 1
      BY <3>1, <2>4, FS_AddElement
    <3> QED BY <1>1, <3>1, <3>2, MachineIs
  <2>6. \A z \in (s.slots \ {x}) \union {y} : z.index \in Slots(s.key)
    BY <1>2 DEF Seated
  <2>7. Seated(FromSlot(s, x, kind))
    BY <2>2, <2>3, <2>5, <2>6 DEF Seated
  <2> QED BY <1>2, <1>4, <2>2, <2>7 DEF y
<1> QED BY <1>3, <1>4

\* The ways in which the server may take a packet of client c.
AddsMapping(u, p, r) ==
    /\ p.kind = "request" /\ SlotsOf(u, p.token[1]) = {} /\ Room(u, p.token[1]) # {}
    /\ r = [server |-> AddMapping(u, p.token),
            packets |-> {Packet(p.token[1], "challenge", p.token, u.key)}]
Connects(u, p, r) ==
    /\ p.kind = "response" /\ SlotsOf(u, p.token[1]) = {} /\ ~Full(u)
    /\ \E f \in Valid(u, p.token[1]), m \in u.mappings :
          m.index = f.index /\ m.token = p.token /\ r = ConnectClient(u, p.token[1], m)
Hears(u, p, r) ==
    /\ p.kind \notin {"request", "response"}
    /\ \E x \in SlotsOf(u, p.token[1]), m \in u.mappings :
          m.index = x.mapping /\ m.token = p.token /\ r = Quiet(FromSlot(u, x, p.kind))
Denies(u, p, r) == r = [server |-> u, packets |-> Denied(p.token)]

LEMMA ValidTouched ==
    ASSUME NEW s \in Machine, NEW c, NEW f \in Valid(s, c)
    PROVE  [f EXCEPT !.access = 0] \in Valid(Touch(s, {f}), c)
<1> DEFINE g == [f EXCEPT !.access = 0]
<1>1. f \in s.mappings /\ f \in MappingRec /\ f.index < s.used /\ f.address = c /\ ~Expired(f)
  BY MachineIs DEF Valid, MappingsOf
<1>2. g.index = f.index /\ g.address = f.address /\ g.access = 0 /\ g.waiting = f.waiting
  BY <1>1, Touch1Is
<1>3. g \in Touch(s, {f}).mappings /\ Touch(s, {f}).used = s.used
  BY <1>1, TouchIs
<1>4. ~Expired(g)
  BY <1>1, <1>2, TimeoutIs DEF Expired
<1> HIDE DEF g
<1> QED BY <1>1, <1>2, <1>3, <1>4 DEF Valid, MappingsOf, g

LEMMA ProcessPacketCases ==
    ASSUME NEW s, Seated(s), NEW p \in PacketRec
    PROVE  \E u : /\ Seated(u)
                  /\ u = s \/ \E f \in Valid(s, p.token[1]) : u = Touch(s, {f})
                  /\ u.slots = s.slots /\ u.used = s.used /\ u.key = s.key /\ u.running = s.running
                  /\ LET r == ProcessPacket(s, p) IN
                     r = Quiet(u) \/ Denies(u, p, r) \/ AddsMapping(u, p, r) \/ Connects(u, p, r) \/ Hears(u, p, r)
<1> DEFINE c == p.token[1]
           found == IF Valid(s, c) = {} THEN {} ELSE {First(Valid(s, c))}
           u == IF SlotsOf(s, c) = {} THEN Touch(s, found) ELSE s
           index == IF SlotsOf(s, c) = {} THEN {m.index : m \in found}
                                          ELSE {x.mapping : x \in SlotsOf(s, c)}
           read == {m \in u.mappings : m.index \in index /\ m.token = p.token}
           r == ProcessPacket(s, p)
<1>1. s \in Machine /\ c \in Clients
  BY GivenIs DEF Seated, PacketRec
<1>2. found \subseteq Valid(s, c)
  BY <1>1, RoomIs, MachineIs, MappingIs, FirstOf
<1>3. found = {} \/ \E f \in Valid(s, c) : found = {f}
  BY <1>2
<1> HIDE DEF found
<1>4. found \subseteq s.mappings
  BY <1>1, <1>2, RoomIs
<1>5. /\ Touch(s, found) \in Machine
      /\ Touch(s, found).slots = s.slots /\ Touch(s, found).connected = s.connected
      /\ Touch(s, found).used = s.used
      /\ Touch(s, found).key = s.key /\ Touch(s, found).running = s.running
      /\ Touch(s, found).mappings = (s.mappings \ found) \union {[m EXCEPT !.access = 0] : m \in found}
  BY <1>1, <1>4, TouchIs
<1>6. Seated(u) /\ u.slots = s.slots /\ u.used = s.used /\ u.key = s.key /\ u.running = s.running
  BY <1>5, SameTable
<1>7. u = s \/ \E f \in Valid(s, c) : u = Touch(s, {f})
  <2>1. found = {} => Touch(s, found) = s
    <3> SUFFICES ASSUME found = {} PROVE Touch(s, found) = s
      OBVIOUS
    <3>1. (s.mappings \ found) \union {[m EXCEPT !.access = 0] : m \in found} = s.mappings
      OBVIOUS
    <3> QED BY <1>1, <3>1 DEF Touch, Machine
  <2> QED BY <1>3, <2>1
<1>8. SlotsOf(u, c) = SlotsOf(s, c)
  BY <1>6 DEF SlotsOf
<1>9. r = IF p.kind = "request" THEN ProcessRequest(u, p.token)
          ELSE IF read = {} THEN Quiet(u)
          ELSE IF p.kind = "response" THEN ProcessResponse(u, p, First(read))
          ELSE IF SlotsOf(s, c) = {} THEN Quiet(u)
          ELSE Quiet(FromSlot(u, First(SlotsOf(s, c)), p.kind))
  BY DEF ProcessPacket, found
<1>10. u.mappings \subseteq MappingRec
  BY <1>6, MachineIs DEF Seated
<1>11. read # {} => First(read) \in read
  BY <1>10, MappingIs, FirstOf
<1>12. SlotsOf(s, c) # {} => First(SlotsOf(s, c)) \in SlotsOf(s, c)
  <2>1. \A x \in SlotsOf(s, c) : x.index \in Nat
    BY <1>1, MachineIs, SlotIs DEF SlotsOf
  <2> QED BY <2>1, FirstOf
<1>13. SlotsOf(s, c) = {} => \A i \in index : \E f \in Valid(u, c) : f.index = i
  <2> SUFFICES ASSUME SlotsOf(s, c) = {}, NEW f \in found PROVE \E g \in Valid(u, c) : g.index = f.index
    OBVIOUS
  <2>1. found = {f} /\ f \in Valid(s, c)
    BY <1>3
  <2>2. [f EXCEPT !.access = 0] \in Valid(u, c)
    BY <1>1, <2>1, ValidTouched
  <2>3. [f EXCEPT !.access = 0].index = f.index
    BY <1>1, <1>4, MachineIs, Touch1Is
  <2> QED BY <2>2, <2>3
<1> HIDE DEF u, index
<1>14. CASE p.kind = "request"
  BY <1>6, <1>7, <1>8, <1>9, <1>14 DEF ProcessRequest, Denies, AddsMapping
<1>15. CASE p.kind # "request" /\ read = {}
  BY <1>6, <1>7, <1>9, <1>15
<1>16. CASE p.kind = "response" /\ read # {}
  <2> DEFINE m == First(read)
  <2>1. m \in u.mappings /\ m.index \in index /\ m.token = p.token
    BY <1>11, <1>16
  <2>2. r = ProcessResponse(u, p, m)
    BY <1>9, <1>16
  <2> HIDE DEF m
  <2>3. CASE ~Welcome(u, p)
    BY <1>6, <1>7, <2>2, <2>3 DEF ProcessResponse
  <2>4. CASE Welcome(u, p) /\ Full(u)
    BY <1>6, <1>7, <2>2, <2>4 DEF ProcessResponse, Denies
  <2>5. CASE Welcome(u, p) /\ ~Full(u)
    <3>1. r = ConnectClient(u, c, m)
      BY <2>2, <2>5 DEF ProcessResponse
    <3>2. SlotsOf(u, c) = {}
      BY <2>5 DEF Welcome
    <3>3. \E f \in Valid(u, c) : m.index = f.index
      BY <1>8, <1>13, <2>1, <3>2
    <3>4. Connects(u, p, r)
      BY <1>16, <2>1, <2>5, <3>1, <3>2, <3>3 DEF Connects
    <3> QED BY <1>6, <1>7, <3>4
  <2> QED BY <2>3, <2>4, <2>5
<1>17. CASE p.kind \notin {"request", "response"} /\ read # {}
  <2>1. CASE SlotsOf(s, c) = {}
    BY <1>6, <1>7, <1>9, <1>17, <2>1
  <2>2. CASE SlotsOf(s, c) # {}
    <3> DEFINE x == First(SlotsOf(s, c))
    <3>1. x \in SlotsOf(u, c) /\ r = Quiet(FromSlot(u, x, p.kind))
      BY <1>8, <1>9, <1>12, <1>17, <2>2
    <3>2. \E m \in u.mappings : m.index = x.mapping /\ m.token = p.token
      <4>1. PICK m \in u.mappings : m.index \in index /\ m.token = p.token
        BY <1>17
      <4>2. PICK y \in SlotsOf(s, c) : m.index = y.mapping
        BY <2>2, <4>1 DEF index
      <4>3. y = x
        BY <1>12, <2>2 DEF Seated, Alone, SlotsOf
      <4> QED BY <4>1, <4>2, <4>3
    <3> HIDE DEF x
    <3>3. Hears(u, p, r)
      BY <1>17, <3>1, <3>2 DEF Hears
    <3> QED BY <1>6, <1>7, <3>3
  <2> QED BY <2>1, <2>2
<1> QED BY <1>14, <1>15, <1>16, <1>17 DEF PacketRec

(***************************************************************************)
(* The table of slots, through an update of the server.                    *)
(***************************************************************************)

\* What one packet does to the table, and what it is answered with.
LEMMA ProcessPacketSeated ==
    ASSUME NEW s, Seated(s), NEW p \in PacketRec
    PROVE  LET r == ProcessPacket(s, p) IN
           Seated(r.server) /\ r.server.key = s.key /\ r.server.running = s.running /\ r.packets \subseteq PacketRec
<1> DEFINE r == ProcessPacket(s, p)
           c == p.token[1]
<1> SUFFICES Seated(r.server) /\ r.server.key = s.key /\ r.server.running = s.running
             /\ r.packets \subseteq PacketRec
  OBVIOUS
<1>1. PICK u : /\ Seated(u)
               /\ u.slots = s.slots /\ u.used = s.used /\ u.key = s.key /\ u.running = s.running
               /\ r = Quiet(u) \/ Denies(u, p, r) \/ AddsMapping(u, p, r) \/ Connects(u, p, r) \/ Hears(u, p, r)
  BY ProcessPacketCases
<1>2. c \in Clients /\ p.token \in Given /\ p.arg \in Nat /\ s \in Machine /\ u \in Machine
  BY <1>1, GivenIs DEF PacketRec, Seated
<1>3. u.key = s.key /\ u.running = s.running
  BY <1>1
<1>4. u.key \in Nat
  BY <1>2, MachineIs, BoundsAssumption
<1> HIDE DEF r
<1>5. CASE r = Quiet(u)
  BY <1>1, <1>3, <1>5 DEF Quiet
<1>6. CASE Denies(u, p, r)
  <2>1. r.server = u /\ r.packets = {Packet(c, "denied", p.token, 0)}
    BY <1>6 DEF Denies, Denied
  <2>2. Packet(c, "denied", p.token, 0) \in PacketRec
    BY <1>2, PacketIn DEF Process, Kinds
  <2> QED BY <1>1, <1>3, <2>1, <2>2
<1>7. CASE AddsMapping(u, p, r)
  <2>1. LET a == AddMapping(u, p.token) IN
        a \in Machine /\ a.slots = u.slots /\ a.connected = u.connected /\ a.key = u.key /\ a.running = u.running
    BY <1>2, <1>7, AddMappingIs DEF AddsMapping
  <2>2. Seated(AddMapping(u, p.token))
    BY <1>1, <2>1, SameTable
  <2>3. r.server = AddMapping(u, p.token) /\ r.packets = {Packet(c, "challenge", p.token, u.key)}
    BY <1>7 DEF AddsMapping
  <2>4. Packet(c, "challenge", p.token, u.key) \in PacketRec
    BY <1>2, <1>4, PacketIn DEF Process, Kinds
  <2> QED BY <1>3, <2>1, <2>2, <2>3, <2>4
<1>8. CASE Connects(u, p, r)
  <2>1. PICK m \in u.mappings : m.token = p.token /\ r = ConnectClient(u, c, m)
    BY <1>8 DEF Connects
  <2> ~Full(u) /\ SlotsOf(u, c) = {}
    BY <1>8 DEF Connects
  <2> DEFINE t == Joined(u, c, m)
             x == Seat(u, c, m)
  <2>2. /\ Seated(t) /\ {x} \in SUBSET t.slots /\ t.key = u.key /\ t.running = u.running
        /\ r = SendSlots(t, {x}, "keep alive")
    BY <1>1, <1>2, <2>1, ConnectClientIs
  <2> HIDE DEF t, x
  <2>3. Seated(r.server) /\ r.server.key = t.key /\ r.server.running = t.running
    BY <2>2, SendSlotsSeated
  <2>4. r.packets \subseteq PacketRec
    BY <2>2, SendSlotsPackets DEF Kinds
  <2> QED BY <1>3, <2>2, <2>3, <2>4
<1>9. CASE Hears(u, p, r)
  <2>1. PICK x \in SlotsOf(u, c) : r = Quiet(FromSlot(u, x, p.kind))
    BY <1>9 DEF Hears
  <2>2. x \in u.slots
    BY DEF SlotsOf
  <2>3. Seated(FromSlot(u, x, p.kind)) /\ FromSlot(u, x, p.kind).key = u.key /\ FromSlot(u, x, p.kind).running = u.running
    BY <1>1, <2>2, FromSlotIs, FreedIs
  <2> QED BY <1>3, <2>1, <2>3 DEF Quiet
<1> QED BY <1>1, <1>5, <1>6, <1>7, <1>8, <1>9

\* A slot and a mapping at the beginning of an update.
Later(x) == [x EXCEPT !.heard = Aged(@, late[Server])]
Older(m) == [m EXCEPT !.access = Aged(@, late[Server]),
                      !.waiting = IF @ = -1 THEN -1 ELSE Aged(@, late[Server])]

LEMMA LaterIs ==
    ASSUME NEW x \in SlotRec, late[Server] \in Nat
    PROVE  LET y == Later(x) IN
           y \in SlotRec /\ y.index = x.index /\ y.client = x.client /\ y.mapping = x.mapping
<1>1. Aged(x.heard, late[Server]) \in Age
  BY SlotIs, AgedType
<1> QED BY <1>1 DEF SlotRec, Later

LEMMA OlderIs ==
    ASSUME NEW m \in MappingRec, late[Server] \in Nat
    PROVE  LET n == Older(m) IN
           /\ n \in MappingRec /\ n.index = m.index /\ n.address = m.address /\ n.token = m.token
           /\ n.access = Aged(m.access, late[Server]) /\ (m.waiting = -1 => n.waiting = -1)
           /\ ~Expired(n) => ~Expired(m)
<1> DEFINE a == Aged(m.access, late[Server])
           w == IF m.waiting = -1 THEN -1 ELSE Aged(m.waiting, late[Server])
<1>1. a \in Age /\ (a <= Timeout => m.access <= Timeout)
  BY MappingIs, AgedType
<1>2. w \in Age \union {-1} /\ (w <= Timeout => m.waiting <= Timeout)
  <2>1. CASE m.waiting = -1
    BY <2>1, TimeoutIs
  <2>2. CASE m.waiting # -1
    BY <2>2, MappingIs, AgedType
  <2> QED BY <2>1, <2>2
<1>3. Older(m) = [m EXCEPT !.access = a, !.waiting = w]
  BY DEF Older
<1>4. m.waiting = -1 => w = -1
  OBVIOUS
<1>5. a = Aged(m.access, late[Server])
  OBVIOUS
<1> HIDE DEF a, w
<1>6. /\ Older(m) \in MappingRec /\ Older(m).index = m.index /\ Older(m).address = m.address
      /\ Older(m).token = m.token /\ Older(m).access = a /\ Older(m).waiting = w
  BY <1>1, <1>2, <1>3 DEF MappingRec
<1>7. ~Expired(Older(m)) => ~Expired(m)
  BY <1>1, <1>2, <1>6, MappingIs, TimeoutIs DEF Expired, Age
<1> QED BY <1>4, <1>5, <1>6, <1>7

LEMMA BegunIs ==
    ASSUME NEW s, Seated(s), late[Server] \in Nat
    PROVE  LET t == Begun(s) IN
           /\ Seated(t) /\ t.used = s.used /\ t.key = s.key /\ t.running = s.running
           /\ \A y : y \in t.slots <=> \E x \in s.slots : y = Later(x)
           /\ \A n : n \in t.mappings <=> \E m \in s.mappings : n = Older(m)
<1> DEFINE S == {Later(x) : x \in s.slots}
           M == {Older(m) : m \in s.mappings}
           f == [x \in s.slots |-> Later(x)]
<1>1. s \in Machine /\ s.slots \subseteq SlotRec /\ s.mappings \subseteq MappingRec
  BY MachineIs DEF Seated
<1>2. Begun(s) = [s EXCEPT !.slots = S, !.mappings = M]
  BY DEF Begun, Later, Older
<1>3. \A y \in S : \E x \in s.slots : y = Later(x) /\ y \in SlotRec /\ y.index = x.index /\ y.client = x.client
  BY <1>1, LaterIs
<1>4. M \subseteq MappingRec
  BY <1>1, OlderIs
<1>5. \A x, y \in s.slots : Later(x) = Later(y) => x = y
  BY <1>1, LaterIs DEF Seated, Alone
<1>6. Cardinality(S) = s.connected
  <2>1. f \in Bijection(s.slots, S)
    <3>1. f \in [s.slots -> S] /\ \A x \in s.slots : f[x] = Later(x)
      OBVIOUS
    <3>2. \A y \in S : \E x \in s.slots : f[x] = y
      BY <1>3, <3>1
    <3> HIDE DEF f, S
    <3> QED BY <1>5, <3>1, <3>2 DEF Bijection, Injection, Surjection, IsInjective
  <2> HIDE DEF S
  <2> QED BY <2>1, SeatedFinite, FS_Bijection DEF ExistsBijection, Seated
<1>7. \A y \in S : y.index \in Slots(s.key)
  BY <1>3 DEF Seated
<1>8. Alone(S)
  <2> HIDE DEF S
  <2> QED BY <1>3 DEF Seated, Alone
<1>9. /\ \A y : y \in S <=> \E x \in s.slots : y = Later(x)
      /\ \A n : n \in M <=> \E m \in s.mappings : n = Older(m)
  OBVIOUS
<1> HIDE DEF S, M
<1>10. /\ Begun(s) \in Machine /\ Begun(s).slots = S /\ Begun(s).mappings = M /\ Begun(s).connected = s.connected
       /\ Begun(s).used = s.used /\ Begun(s).key = s.key /\ Begun(s).running = s.running
  <2>1. S \in SUBSET SlotRec
    BY <1>3
  <2> QED BY <1>1, <1>2, <1>4, <2>1 DEF Machine
<1>11. Seated(Begun(s))
  BY <1>6, <1>7, <1>8, <1>10 DEF Seated
<1> QED BY <1>9, <1>10, <1>11

\* What the server does after it has received all it does.
LEMMA ServerChecksIs ==
    ASSUME NEW s, Seated(s)
    PROVE  LET sent == SendSlots(s, s.slots, "keep alive")
               t == ServerChecks(s) IN
           /\ Seated(sent.server) /\ sent.server.slots = s.slots
           /\ Seated(t.server) /\ t.server.key = s.key /\ t.server.running = s.running
           /\ t.packets = sent.packets /\ t.packets \subseteq PacketRec
           /\ t.server = sent.server \/ \E x \in s.slots : t.server = Freed(sent.server, x)
<1> DEFINE sent == SendSlots(s, s.slots, "keep alive")
           u == sent.server
           gone == TimedOutSlots(u)
<1>1. Seated(u) /\ u.slots = s.slots /\ u.key = s.key /\ u.running = s.running
  <2> s.slots \in SUBSET s.slots
    OBVIOUS
  <2> QED BY SendSlotsSeated
<1>2. sent.packets \subseteq PacketRec
  BY SendSlotsPackets DEF Kinds
<1>3. sent = [server |-> u, packets |-> sent.packets]
  BY DEF SendSlots
<1>4. ServerChecks(s) = IF gone = {} THEN sent ELSE [sent EXCEPT !.server = Freed(u, First(gone))]
  BY DEF ServerChecks
<1>5. gone \subseteq s.slots
  BY <1>1 DEF TimedOutSlots
<1>6. \A x \in s.slots : x.index \in Nat
  BY MachineIs, SlotIs DEF Seated
<1> HIDE DEF sent, gone
<1>7. CASE gone = {}
  BY <1>1, <1>2, <1>4, <1>7 DEF sent
<1>8. CASE gone # {}
  <2> DEFINE x == First(gone)
  <2>1. x \in s.slots
    <3>1. x \in gone
      BY <1>5, <1>6, <1>8, FirstOf
    <3> QED BY <1>5, <3>1
  <2> HIDE DEF x
  <2>2. Seated(Freed(u, x)) /\ Freed(u, x).key = s.key /\ Freed(u, x).running = s.running
    BY <1>1, <2>1, FreedIs
  <2>3. ServerChecks(s).server = Freed(u, x) /\ ServerChecks(s).packets = sent.packets
    BY <1>3, <1>4, <1>8 DEF x
  <2> QED BY <1>1, <1>2, <2>1, <2>2, <2>3 DEF sent
<1> QED BY <1>7, <1>8

LEMMA StoppedIs ==
    ASSUME NEW n \in 1..Len(NumSlots)
    PROVE  Seated(Stopped(n)) /\ Seated(Started(n)) /\ Stopped(n).slots = {} /\ Started(n).slots = {}
           /\ Stopped(n).mappings = {} /\ Started(n).mappings = {}
           /\ Stopped(n).key = n /\ Started(n).key = n /\ Started(n).running /\ ~Stopped(n).running
<1> DEFINE t == Started(n)
           p == Stopped(n)
<1>1. t = [running |-> TRUE, key |-> n, slots |-> {}, connected |-> 0, mappings |-> {}, used |-> 0]
  BY DEF Started
<1>2. p = [t EXCEPT !.running = FALSE]
  BY DEF Stopped
<1>3. 0 \in 0..NumMappings /\ {} \in SUBSET SlotRec /\ {} \in SUBSET MappingRec
  BY TimeoutIs
<1> HIDE DEF t, p
<1>4. t \in Machine /\ p \in Machine
  <2>1. t \in Machine
    BY <1>1, <1>3 DEF Machine
  <2> QED BY <1>2, <2>1 DEF Machine
<1>5. t.slots = {} /\ p.slots = {} /\ t.connected = 0 /\ p.connected = 0 /\ t.mappings = {} /\ p.mappings = {}
      /\ t.key = n /\ p.key = n /\ t.running = TRUE /\ p.running = FALSE
  BY <1>1, <1>2, <1>4 DEF Machine
<1>6. Seated(t) /\ Seated(p)
  BY <1>4, <1>5, FS_EmptySet DEF Seated, Alone
<1> QED BY <1>5, <1>6 DEF t, p

(***************************************************************************)
(* The batches of packets.                                                 *)
(***************************************************************************)

LEMMA BatchIs ==
    ASSUME NEW P, NEW b \in Batches(P)
    PROVE  \E n \in Nat : DOMAIN b = 1..n /\ \A i \in 1..n : b[i] \in P
<1>1. b \in BoundedSeq(P, MaxBatch)
  BY DEF Batches
<1>2. PICK n \in 0..MaxBatch : b \in [1..n -> P]
  BY <1>1 DEF BoundedSeq, SeqOf
<1>3. n \in Nat
  BY BoundsAssumption
<1> QED BY <1>2, <1>3

(***************************************************************************)
(* Types.                                                                  *)
(***************************************************************************)

States == Connecting \union Ended \union {"connected"}
Leaving == {"no", "error", "disconnected"}
ClientRec == [state : States, token : Token, address : Nat, heard : Age, leaving : Leaving,
              key : Nat, index : Nat]

\* The parts of Types: what the clients are, what is on the way, and the server's table.
ClientTypes ==
    /\ client \in [Clients -> ClientRec]
    /\ \A c \in Clients : Active(c) => client[c].token \in Given
    /\ tokens \in [Clients -> Nat]
    /\ \A c \in Clients : tokens[c] <= MaxTokens[c]
PacketTypes == network \subseteq PacketRec /\ delayed \subseteq PacketRec
LateTypes == late \in [Process -> Nat]
Types == ClientTypes /\ PacketTypes /\ LateTypes /\ Seated(server)

LEMMA ResetIs ==
    ASSUME NEW state \in States
    PROVE  LET k == Reset(state) IN
           /\ k \in ClientRec /\ k.state = state /\ k.token = NoToken /\ k.address = 0 /\ k.heard = 0
           /\ k.leaving = "no" /\ k.key = 0 /\ k.index = 0
BY TimeoutIs DEF Reset, ClientRec, Leaving, Token, Age

LEMMA ClientIs ==
    ASSUME NEW k \in ClientRec
    PROVE  /\ k.state \in States /\ k.token \in Token /\ k.address \in Nat /\ k.heard \in Age
           /\ k.leaving \in Leaving /\ k.key \in Nat /\ k.index \in Nat
BY DEF ClientRec

LEMMA ReceivedType ==
    ASSUME NEW k \in ClientRec, NEW p \in PacketRec
    PROVE  LET n == Received(k, p) IN
           /\ n \in ClientRec /\ n.token = k.token /\ n.address = k.address
           /\ k.state \notin Ended => n.state \notin Ended
<1> DEFINE n == Received(k, p)
<1>1. 0 \in Age /\ p.arg \in Nat
  BY TimeoutIs DEF Age, PacketRec
<1>2. CASE p.kind = "denied" /\ k.state \in Connecting
  <2>1. n = [k EXCEPT !.leaving = "error", !.heard = 0]
    BY <1>2 DEF Received, Connecting
  <2> QED BY <1>1, <2>1 DEF ClientRec, Leaving
<1>3. CASE p.kind = "challenge" /\ k.state = "sending request"
  <2>1. n = [k EXCEPT !.state = "sending response", !.key = p.arg, !.heard = 0]
    BY <1>3 DEF Received
  <2> QED BY <1>1, <2>1 DEF ClientRec, States, Connecting, Ended
<1>4. CASE p.kind = "keep alive" /\ k.state = "connected"
  <2>1. n = [k EXCEPT !.heard = 0]
    BY <1>4 DEF Received, Connecting
  <2> QED BY <1>1, <2>1 DEF ClientRec
<1>5. CASE p.kind = "keep alive" /\ k.state = "sending response"
  <2>1. n = [k EXCEPT !.state = "connected", !.index = p.arg, !.heard = 0]
    BY <1>5 DEF Received
  <2> QED BY <1>1, <2>1 DEF ClientRec, States, Ended
<1>6. CASE p.kind = "disconnect" /\ k.state = "connected"
  <2>1. n = [k EXCEPT !.leaving = "disconnected", !.heard = 0]
    BY <1>6 DEF Received, Connecting
  <2> QED BY <1>1, <2>1 DEF ClientRec, Leaving
<1>7. CASE /\ ~(p.kind = "denied" /\ k.state \in Connecting)
           /\ ~(p.kind = "challenge" /\ k.state = "sending request")
           /\ ~(p.kind = "keep alive" /\ k.state = "connected")
           /\ ~(p.kind = "keep alive" /\ k.state = "sending response")
           /\ ~(p.kind = "disconnect" /\ k.state = "connected")
  <2>1. n = k
    BY <1>7 DEF Received
  <2> QED BY <2>1
<1> QED BY <1>2, <1>3, <1>4, <1>5, <1>6, <1>7

\* What client c has received at the end of an update.
LEMMA ReceivingIs ==
    ASSUME NEW k \in ClientRec, k.state \notin Ended, NEW P \in SUBSET PacketRec, NEW b \in Batches(P)
    PROVE  LET n == FoldLeft(Received, k, b) IN
           n \in ClientRec /\ n.token = k.token /\ n.address = k.address /\ n.state \notin Ended
<1> DEFINE S == {n \in ClientRec : n.token = k.token /\ n.address = k.address /\ n.state \notin Ended}
<1>1. PICK m \in Nat : DOMAIN b = 1..m /\ \A i \in 1..m : b[i] \in P
  BY BatchIs
<1>2. k \in S
  OBVIOUS
<1>3. ASSUME NEW n \in S, NEW i \in 1..m PROVE Received(n, b[i]) \in S
  BY <1>1, ReceivedType
<1>4. Receiving!Folded(k, b) \in S
  <2> HIDE DEF S
  <2> QED BY <1>1, <1>2, <1>3, Receiving!FoldType
<1> QED BY <1>4, ReceivedIs

LEMMA ToServerIs ==
    ASSUME NEW k \in ClientRec, k.token \in Given, NEW kind \in Kinds, NEW p \in ToServer(k, kind)
    PROVE  /\ p \in PacketRec /\ p.to = Server /\ p.kind = kind /\ p.token = k.token /\ p.arg = k.key
           /\ k.address = 0
<1>1. p = Packet(Server, kind, k.token, k.key) /\ k.address = 0
  BY DEF ToServer
<1>2. Server \in Process /\ k.key \in Nat
  BY ClientIs DEF Process
<1> QED BY <1>1, <1>2, PacketIn

LEMMA ClientSendsIs ==
    ASSUME NEW k \in ClientRec, k.token \in Given, k.state \notin Ended, NEW p \in ClientSends(k)
    PROVE  /\ p \in PacketRec /\ p.to = Server /\ p.token = k.token /\ p.arg = k.key /\ k.address = 0
           /\ p.kind = CASE k.state = "sending request" -> "request"
                         [] k.state = "sending response" -> "response"
                         [] k.state = "connected" -> "keep alive"
<1>1. k.state \in {"sending request", "sending response", "connected"}
  BY ClientIs DEF States, Connecting, Ended
<1>2. CASE k.state = "sending request"
  <2>1. p \in ToServer(k, "request")
    BY <1>2 DEF ClientSends
  <2>2. "request" \in Kinds
    BY DEF Kinds
  <2> QED BY <1>2, <2>1, <2>2, ToServerIs
<1>3. CASE k.state = "sending response"
  <2>1. p \in ToServer(k, "response")
    BY <1>3 DEF ClientSends
  <2>2. "response" \in Kinds
    BY DEF Kinds
  <2> QED BY <1>3, <2>1, <2>2, ToServerIs
<1>4. CASE k.state = "connected"
  <2>1. p \in ToServer(k, "keep alive")
    BY <1>4 DEF ClientSends
  <2>2. "keep alive" \in Kinds
    BY DEF Kinds
  <2> QED BY <1>4, <2>1, <2>2, ToServerIs
<1> QED BY <1>1, <1>2, <1>3, <1>4

LEMMA SendTypes ==
    ASSUME PacketTypes, NEW gone, NEW packets \in SUBSET PacketRec, Send(gone, packets)
    PROVE  PacketTypes'
BY DEF PacketTypes, Send

LEMMA LeaveTypes ==
    ASSUME Types, NEW c \in Clients, NEW state \in Ended, Leave(c, state), UNCHANGED tokens
    PROVE  ClientTypes' /\ LateTypes'
<1>1. state \in States /\ c \in Process
  BY DEF States, Process
<1>2. Reset(state) \in ClientRec /\ Reset(state).state = state
  BY <1>1, ResetIs
<1>3. client' \in [Clients -> ClientRec] /\ \A d \in Clients : client'[d] = IF d = c THEN Reset(state) ELSE client[d]
  BY <1>2 DEF Types, ClientTypes, Leave
<1>4. ClientTypes'
  BY <1>2, <1>3 DEF Types, ClientTypes, Active
<1>5. LateTypes'
  BY <1>1 DEF Types, LateTypes, Leave
<1> QED BY <1>4, <1>5

ToClient(c) == {p \in Arriving : p.to = c /\ p.token = client[c].token}
Begins(c) == [client[c] EXCEPT !.heard = Aged(@, late[c])]
Onward(k) == [Reset("sending request") EXCEPT !.token = k.token, !.address = k.address + 1, !.index = k.index]
Stays(c, k) == client' = [client EXCEPT ![c] = k] /\ late' = [late EXCEPT ![c] = 0]
Tries(c, k) == /\ client' = [client EXCEPT ![c] = Onward(k)] /\ late' = [late EXCEPT ![c] = 0]
               /\ k.address + 1 < NumServers[c]
Leaves(c) == \E state \in Ended : Leave(c, state)

LEMMA OnwardIs ==
    ASSUME NEW k \in ClientRec
    PROVE  LET n == Onward(k) IN
           /\ n \in ClientRec /\ n.state = "sending request" /\ n.token = k.token
           /\ n.address = k.address + 1 /\ n.index = k.index /\ n.leaving = "no"
<1>1. "sending request" \in States
  BY DEF States, Connecting
<1>2. k.token \in Token /\ k.address + 1 \in Nat /\ k.index \in Nat
  BY ClientIs
<1> DEFINE r == Reset("sending request")
<1>3. r \in ClientRec /\ r.state = "sending request" /\ r.leaving = "no"
  BY <1>1, ResetIs
<1>4. Onward(k) = [r EXCEPT !.token = k.token, !.address = k.address + 1, !.index = k.index]
  BY DEF Onward
<1> HIDE DEF r
<1> QED BY <1>2, <1>3, <1>4 DEF ClientRec

LEMMA BeginsIs ==
    ASSUME Types, NEW c \in Clients
    PROVE  LET k == Begins(c) IN
           /\ k \in ClientRec /\ k.state = client[c].state /\ k.token = client[c].token
           /\ k.address = client[c].address /\ k.index = client[c].index /\ k.leaving = client[c].leaving
           /\ k.key = client[c].key
<1>1. client[c] \in ClientRec /\ late[c] \in Nat
  BY DEF Types, ClientTypes, LateTypes, Process
<1>2. Aged(client[c].heard, late[c]) \in Age
  BY <1>1, ClientIs, AgedType
<1> QED BY <1>1, <1>2 DEF ClientRec, Begins

\* What an update of client c comes to.
LEMMA ClientUpdateIs ==
    ASSUME Types, NEW c \in Clients, ClientUpdate(c)
    PROVE  \E batch \in Batches(ToClient(c)), k \in ClientRec :
              /\ k = IF client[c].address = 0 THEN FoldLeft(Received, Begins(c), batch) ELSE Begins(c)
              /\ k.token = client[c].token /\ k.token \in Given /\ k.address = client[c].address
              /\ k.state \notin Ended
              /\ Send(IF client'[c].state \in Ended THEN Unread(c) ELSE Gone(batch), ClientSends(k))
              /\ Stays(c, k) \/ Tries(c, k) \/ Leaves(c)
              /\ (client'[c].state \notin Ended => Stays(c, k) \/ Tries(c, k))
              /\ UNCHANGED <<server, tokens>>
<1>1. PICK batch \in Batches(ToClient(c)) :
          LET k == IF Begins(c).address = 0 THEN FoldLeft(Received, Begins(c), batch) ELSE Begins(c)
          IN /\ ClientChecks(c, k)
             /\ Send(IF client'[c].state \in Ended THEN Unread(c) ELSE Gone(batch), ClientSends(k))
  BY DEF ClientUpdate, ToClient, Begins
<1> DEFINE k == IF Begins(c).address = 0 THEN FoldLeft(Received, Begins(c), batch) ELSE Begins(c)
<1>2. Active(c) /\ UNCHANGED <<server, tokens>>
  BY DEF ClientUpdate
<1>3. client[c].token \in Given /\ Begins(c).state \notin Ended
  BY <1>2, BeginsIs DEF Types, ClientTypes, Active
<1>4. ToClient(c) \in SUBSET PacketRec
  BY DEF ToClient, Arriving, Types, PacketTypes
<1>5. k \in ClientRec /\ k.token = client[c].token /\ k.address = client[c].address /\ k.state \notin Ended
  <2>1. CASE Begins(c).address = 0
    BY <1>3, <1>4, <2>1, BeginsIs, ReceivingIs
  <2>2. CASE Begins(c).address # 0
    BY <1>3, <2>2, BeginsIs
  <2> QED BY <2>1, <2>2
<1>6. k = IF client[c].address = 0 THEN FoldLeft(Received, Begins(c), batch) ELSE Begins(c)
  BY BeginsIs
<1>7. /\ ClientChecks(c, k)
      /\ Send(IF client'[c].state \in Ended THEN Unread(c) ELSE Gone(batch), ClientSends(k))
  BY <1>1
<1> HIDE DEF k
<1>8. Stays(c, k) \/ Tries(c, k) \/ Leaves(c)
  <2>1. CASE k.leaving = "no" /\ ~TimedOut(k)
    BY <1>7, <2>1 DEF ClientChecks, Stays
  <2>2. CASE ~(k.leaving = "no" /\ ~TimedOut(k)) /\ TriesNext(c, k)
    <3>1. Tries(c, k)
      BY <1>7, <2>2 DEF ClientChecks, Tries, Onward, TriesNext
    <3> QED BY <3>1
  <2>3. CASE ~(k.leaving = "no" /\ ~TimedOut(k)) /\ ~TriesNext(c, k)
    <3> DEFINE state == IF k.leaving # "no" THEN k.leaving ELSE "error"
    <3>1. Leave(c, state)
      BY <1>7, <2>3 DEF ClientChecks
    <3>2. state \in Ended
      BY <1>5, ClientIs DEF Leaving, Ended
    <3> QED BY <3>1, <3>2 DEF Leaves
  <2> QED BY <2>1, <2>2, <2>3
<1>9. client'[c].state \notin Ended => Stays(c, k) \/ Tries(c, k)
  <2>1. ASSUME NEW state \in Ended, Leave(c, state) PROVE client'[c].state \in Ended
    <3>1. client'[c] = Reset(state)
      BY <2>1 DEF Leave, Types, ClientTypes
    <3>2. state \in States
      BY DEF States
    <3> QED BY <3>1, <3>2, ResetIs
  <2> QED BY <1>8, <2>1 DEF Leaves
<1> QED BY <1>1, <1>2, <1>3, <1>5, <1>6, <1>7, <1>8, <1>9

(***************************************************************************)
(* Every action keeps the types.                                           *)
(***************************************************************************)

LEMMA OneClient ==
    ASSUME Types, NEW c \in Clients, NEW k \in ClientRec, k.state \notin Ended => k.token \in Given,
           client' = [client EXCEPT ![c] = k], UNCHANGED tokens
    PROVE  ClientTypes'
BY DEF Types, ClientTypes, Active

LEMMA InTime ==
    ASSUME LateTypes, NEW p \in Process, late' = [late EXCEPT ![p] = 0]
    PROVE  LateTypes'
BY DEF LateTypes

LEMMA ConnectTypes == ASSUME Types, NEW c \in Clients, Connect(c) PROVE Types'
<1> DEFINE n == tokens[c] + 1
           t == <<c, n>>
           k == [Reset("sending request") EXCEPT !.token = t]
<1>1. /\ tokens' = [tokens EXCEPT ![c] = n] /\ n \in 1..MaxTokens[c]
  <2>1. tokens[c] \in Nat /\ MaxTokens[c] \in Nat /\ tokens[c] < MaxTokens[c]
    BY BoundsAssumption DEF Connect, Types, ClientTypes
  <2>2. tokens' = [tokens EXCEPT ![c] = n]
    BY DEF Connect
  <2>3. n \in 1..MaxTokens[c]
    BY <2>1
  <2> QED BY <2>2, <2>3
<1>2. tokens'[c] = n
  BY <1>1 DEF Types, ClientTypes
<1>3. t \in Given
  BY <1>1 DEF Given
<1>4. client' = [client EXCEPT ![c] = k]
  BY <1>2 DEF Connect
<1>5. k \in ClientRec
  <2>1. Reset("sending request") \in ClientRec
    BY ResetIs DEF States, Connecting
  <2> HIDE DEF t
  <2> QED BY <1>3, <2>1 DEF ClientRec, Token
<1>6. k.token = t
  <2>1. Reset("sending request") \in ClientRec
    BY ResetIs DEF States, Connecting
  <2> HIDE DEF t
  <2> QED BY <2>1 DEF ClientRec
<1> HIDE DEF k, t
<1>7. \A d \in Clients : d # c => client'[d] = client[d] /\ tokens'[d] = tokens[d]
  BY <1>1, <1>4 DEF Types, ClientTypes
<1>8. client'[c] = k
  BY <1>4 DEF Types, ClientTypes
<1>9. client' \in [Clients -> ClientRec] /\ tokens' \in [Clients -> Nat]
  BY <1>1, <1>4, <1>5 DEF Types, ClientTypes
<1>10. ClientTypes'
  <2>1. \A d \in Clients : tokens'[d] <= MaxTokens[d]
    BY <1>1, <1>2, <1>7, BoundsAssumption DEF Types, ClientTypes
  <2>2. \A d \in Clients : client'[d].state \notin Ended => client'[d].token \in Given
    BY <1>3, <1>6, <1>7, <1>8 DEF Types, ClientTypes, Active
  <2> QED BY <1>9, <2>1, <2>2 DEF ClientTypes, Active
<1> QED BY <1>10 DEF Connect, Types, PacketTypes, LateTypes

LEMMA DisconnectTypes == ASSUME Types, NEW c \in Clients, Disconnect(c) PROVE Types'
<1>1. client[c] \in ClientRec /\ client[c].token \in Given
  BY DEF Types, ClientTypes, Disconnect
<1>2. ToServer(client[c], "disconnect") \in SUBSET PacketRec
  BY <1>1, ToServerIs DEF Kinds
<1>3. PacketTypes'
  BY <1>2, SendTypes DEF Disconnect, Types
<1>4. ClientTypes' /\ LateTypes'
  BY LeaveTypes DEF Disconnect, Ended
<1> QED BY <1>3, <1>4 DEF Types, Disconnect

LEMMA CrashTypes == ASSUME Types, NEW c \in Clients, Crash(c) PROVE Types'
<1>1. PacketTypes'
  BY SendTypes DEF Crash, Types
<1>2. ClientTypes' /\ LateTypes'
  BY LeaveTypes DEF Crash, Ended
<1> QED BY <1>1, <1>2 DEF Types, Crash

LEMMA ClientUpdateTypes == ASSUME Types, NEW c \in Clients, ClientUpdate(c) PROVE Types'
<1>1. PICK batch \in Batches(ToClient(c)), k \in ClientRec :
              /\ k.token = client[c].token /\ k.token \in Given /\ k.address = client[c].address
              /\ k.state \notin Ended
              /\ Send(IF client'[c].state \in Ended THEN Unread(c) ELSE Gone(batch), ClientSends(k))
              /\ Stays(c, k) \/ Tries(c, k) \/ Leaves(c)
              /\ UNCHANGED <<server, tokens>>
  BY ClientUpdateIs
<1>2. ClientSends(k) \in SUBSET PacketRec
  BY <1>1, ClientSendsIs
<1>3. PacketTypes'
  BY <1>1, <1>2, SendTypes DEF Types
<1>4. c \in Process
  BY DEF Process
<1>5. ClientTypes' /\ LateTypes'
  <2>1. CASE Stays(c, k)
    BY <1>1, <1>4, <2>1, OneClient, InTime DEF Stays, Types
  <2>2. CASE Tries(c, k)
    <3>1. Onward(k) \in ClientRec /\ Onward(k).token \in Given
      BY <1>1, OnwardIs
    <3> QED BY <1>1, <1>4, <2>2, <3>1, OneClient, InTime DEF Tries, Types
  <2>3. CASE Leaves(c)
    BY <1>1, <2>3, LeaveTypes DEF Leaves
  <2> QED BY <1>1, <2>1, <2>2, <2>3
<1> QED BY <1>1, <1>3, <1>5 DEF Types

ToTheServer == {p \in Arriving : p.to = Server}

\* What the server has after the packets of a batch.
Results(key, running) ==
    {r \in [server : Machine, packets : SUBSET PacketRec] :
        Seated(r.server) /\ r.server.key = key /\ r.server.running = running}

LEMMA Process1Seated ==
    ASSUME NEW key, NEW running, NEW r \in Results(key, running), NEW p \in PacketRec
    PROVE  Process1(r, p) \in Results(key, running)
<1> DEFINE n == ProcessPacket(r.server, p)
<1>1. /\ Seated(n.server) /\ n.server.key = key /\ n.server.running = running /\ n.packets \subseteq PacketRec
  BY ProcessPacketSeated DEF Results
<1>2. r.packets \union n.packets \in SUBSET PacketRec
  BY <1>1 DEF Results
<1>3. Process1(r, p) = [server |-> n.server, packets |-> r.packets \union n.packets]
  BY DEF Process1
<1> HIDE DEF n
<1>4. n.server \in Machine
  BY <1>1 DEF Seated
<1> QED BY <1>1, <1>2, <1>3, <1>4 DEF Results

LEMMA ProcessingSeated ==
    ASSUME Types, NEW P \in SUBSET PacketRec, NEW b \in Batches(P)
    PROVE  LET r == FoldLeft(Process1, Quiet(Begun(server)), b) IN
           r \in Results(server.key, server.running)
<1> DEFINE S == Results(server.key, server.running)
<1>1. PICK n \in Nat : DOMAIN b = 1..n /\ \A i \in 1..n : b[i] \in P
  BY BatchIs
<1>2. Quiet(Begun(server)) \in S
  <2>1. late[Server] \in Nat
    BY DEF Types, LateTypes, Process
  <2>2. Seated(Begun(server)) /\ Begun(server).key = server.key /\ Begun(server).running = server.running
    BY <2>1, BegunIs DEF Types
  <2>3. Begun(server) \in Machine
    BY <2>2 DEF Seated
  <2> QED BY <2>2, <2>3 DEF Quiet, Results
<1>3. ASSUME NEW r \in S, NEW i \in 1..n PROVE Process1(r, b[i]) \in S
  BY <1>1, Process1Seated
<1>4. Processing!Folded(Quiet(Begun(server)), b) \in S
  <2> HIDE DEF S
  <2> QED BY <1>1, <1>2, <1>3, Processing!FoldType
<1> QED BY <1>4, ProcessedIs

LEMMA ServerUpdateTypes == ASSUME Types, ServerUpdate PROVE Types'
<1>1. PICK batch \in Batches(ToTheServer) :
          LET received == FoldLeft(Process1, Quiet(Begun(server)), batch)
              checked == ServerChecks(received.server)
          IN /\ server' = checked.server
             /\ Send(Gone(batch), received.packets \union checked.packets)
  BY DEF ServerUpdate, ToTheServer
<1> DEFINE received == FoldLeft(Process1, Quiet(Begun(server)), batch)
           checked == ServerChecks(received.server)
<1>2. ToTheServer \in SUBSET PacketRec
  BY DEF ToTheServer, Arriving, Types, PacketTypes
<1>3. Seated(received.server) /\ received.packets \subseteq PacketRec
  BY <1>2, ProcessingSeated DEF Results
<1>4. Seated(checked.server) /\ checked.packets \subseteq PacketRec
  BY <1>3, ServerChecksIs
<1>5. server' = checked.server /\ Send(Gone(batch), received.packets \union checked.packets)
  BY <1>1
<1> HIDE DEF received, checked
<1>6. PacketTypes'
  BY <1>3, <1>4, <1>5, SendTypes DEF Types
<1>7. LateTypes' /\ ClientTypes'
  BY InTime DEF ServerUpdate, Types, ClientTypes, Process, Active
<1> QED BY <1>4, <1>5, <1>6, <1>7 DEF Types

LEMMA ServerDisconnectTypes == ASSUME Types, NEW i, ServerDisconnect(i) PROVE Types'
<1>1. PICK x \in server.slots :
          LET sent == SendSlots(server, {x}, "disconnect")
          IN server' = Freed(sent.server, x) /\ Send({}, sent.packets)
  BY DEF ServerDisconnect
<1> DEFINE sent == SendSlots(server, {x}, "disconnect")
<1>2. {x} \in SUBSET server.slots
  OBVIOUS
<1>3. Seated(sent.server) /\ x \in sent.server.slots
  BY <1>2, SendSlotsSeated DEF Types
<1>4. sent.packets \in SUBSET PacketRec
  BY <1>2, SendSlotsPackets DEF Types, Kinds
<1>5. server' = Freed(sent.server, x) /\ Send({}, sent.packets)
  BY <1>1
<1> HIDE DEF sent
<1>6. Seated(server')
  BY <1>3, <1>5, FreedIs
<1>7. PacketTypes'
  BY <1>4, <1>5, SendTypes DEF Types
<1> QED BY <1>6, <1>7 DEF ServerDisconnect, Types, ClientTypes, LateTypes, Active

LEMMA ServerStopTypes == ASSUME Types, NEW killed \in BOOLEAN, ServerStop(killed) PROVE Types'
<1>1. server.key \in 1..Len(NumSlots)
  BY MachineIs DEF Types, Seated
<1>2. Seated(server')
  BY <1>1, StoppedIs DEF ServerStop
<1>3. server.slots \in SUBSET server.slots
  OBVIOUS
<1>4. SendSlots(server, server.slots, "disconnect").packets \in SUBSET PacketRec
  BY <1>3, SendSlotsPackets DEF Types, Kinds
<1>5. PacketTypes'
  BY <1>4, SendTypes DEF Types, ServerStop
<1>6. LateTypes'
  BY InTime DEF ServerStop, Types, Process
<1> QED BY <1>2, <1>5, <1>6 DEF ServerStop, Types, ClientTypes, Active

LEMMA ServerStartTypes == ASSUME Types, ServerStart PROVE Types'
<1>1. server.key + 1 \in 1..Len(NumSlots)
  BY MachineIs, BoundsAssumption DEF Types, Seated, ServerStart
<1>2. Seated(server')
  BY <1>1, StoppedIs DEF ServerStart
<1> QED BY <1>2 DEF ServerStart, Types, ClientTypes, Active, PacketTypes, LateTypes

LEMMA TickTypes == ASSUME Types, Tick PROVE Types'
<1>1. LateTypes'
  BY DEF Types, LateTypes, Tick
<1>2. PacketTypes'
  BY DEF Types, PacketTypes, Tick
<1> QED BY <1>1, <1>2 DEF Types, Tick, ClientTypes, Active

LEMMA TypesInit == Init => Types
<1> SUFFICES ASSUME Init PROVE Types
  OBVIOUS
<1>1. Reset("disconnected") \in ClientRec /\ Reset("disconnected").state = "disconnected"
  BY ResetIs DEF States, Ended
<1>2. ClientTypes
  <2>1. \A c \in Clients : ~Active(c)
    BY <1>1 DEF Init, Active, Ended
  <2> QED BY <1>1, <2>1, BoundsAssumption DEF Init, ClientTypes
<1>3. Seated(server)
  <2>1. 1 \in 1..Len(NumSlots)
    BY BoundsAssumption
  <2> QED BY <2>1, StoppedIs DEF Init
<1> QED BY <1>2, <1>3 DEF Types, Init, PacketTypes, LateTypes

LEMMA TypesNext == Types /\ [Next]_vars => Types'
<1> SUFFICES ASSUME Types, [Next]_vars PROVE Types'
  OBVIOUS
<1>1. CASE UNCHANGED vars
  BY <1>1 DEF vars, Types, ClientTypes, PacketTypes, LateTypes, Active
<1>2. CASE Next
  BY <1>2, ConnectTypes, DisconnectTypes, CrashTypes, ClientUpdateTypes, ServerUpdateTypes,
     ServerDisconnectTypes, ServerStopTypes, ServerStartTypes, TickTypes DEF Next
<1> QED BY <1>1, <1>2

LEMMA TypesAlways == Spec => []Types
BY TypesInit, TypesNext, PTL DEF Spec

\* The states, tokens and times of the clients and what the server keeps in its slots
\* and mappings are always what their declarations say (netcode.c).
THEOREM TypeCorrect == Spec => []TypeOK
<1>1. Types => TypeOK
  <2> SUFFICES ASSUME Types PROVE TypeOK
    OBVIOUS
  <2>1. \A c \in Clients : client[c] \in ClientRec
    BY DEF Types, ClientTypes
  <2>2. server.slots \subseteq SlotRec /\ server.mappings \subseteq MappingRec /\ server.used \in 0..NumMappings
    BY MachineIs DEF Types, Seated
  <2>3. \A m \in server.mappings : m.token \in Token
    BY <2>2, MappingIs DEF Token
  <2> QED BY <2>1, <2>2, <2>3, ClientIs, SlotIs, MappingIs DEF Types, Seated, LateTypes, TypeOK, States
<1> QED BY <1>1, TypesAlways, PTL

\* Whatever is repeated, late or in another order, no client is in two slots, none is
\* in the slot of another, and the count of clients is theirs (netcode.c:4260, 4420).
THEOREM OneSlotForEach == Spec => []OneSlotEach
<1>1. Types => OneSlotEach
  BY DEF Types, Seated, Alone, OneSlotEach
<1> QED BY <1>1, TypesAlways, PTL

(***************************************************************************)
(* The mappings, and that every slot has its own.                          *)
(***************************************************************************)

\* No index is taken twice; a mapping has the address of its token's client or none,
\* and none beyond those in use; the first of an address is the one that has not expired.
Ordered(s) ==
    /\ \A m, n \in s.mappings : m.index = n.index => m = n
    /\ \A m \in s.mappings :
          m.address \in {Nobody, m.token[1]} /\ (m.index >= s.used => m.address = Nobody)
    /\ \A m, n \in s.mappings :
          m.address = n.address /\ m.address # Nobody /\ ~Expired(m) => m.index <= n.index

\* The mapping of slot x, which was used at most some ticks ago.
Backs(m, x, ticks) == m.index = x.mapping /\ m.address = x.client /\ m.waiting = -1 /\ m.access <= ticks
Backed(s, ticks) == \A x \in s.slots : \E m \in s.mappings : Backs(m, x, ticks)

Sound(s, ticks) == Seated(s) /\ Ordered(s) /\ Backed(s, ticks)

\* The mappings of t are those of s, each with other times, and expired if it was.
Renews(g, s, t) ==
    /\ t.used = s.used
    /\ \A n : n \in t.mappings <=> \E m \in s.mappings : n = g[m]
    /\ \A m \in s.mappings :
          /\ g[m].index = m.index /\ g[m].address = m.address /\ g[m].token = m.token
          /\ m.waiting = -1 => g[m].waiting = -1
          /\ ~Expired(g[m]) => ~Expired(m)

LEMMA RenewsOrdered ==
    ASSUME NEW s, NEW t, NEW g, Renews(g, s, t), Ordered(s) PROVE Ordered(t)
<1>1. \A n \in t.mappings : \E m \in s.mappings : n = g[m]
  BY DEF Renews
<1>2. ASSUME NEW m \in t.mappings, NEW n \in t.mappings, m.index = n.index PROVE m = n
  BY <1>1, <1>2 DEF Renews, Ordered
<1>3. ASSUME NEW n \in t.mappings
      PROVE  n.address \in {Nobody, n.token[1]} /\ (n.index >= t.used => n.address = Nobody)
  BY <1>1 DEF Renews, Ordered
<1>4. ASSUME NEW m \in t.mappings, NEW n \in t.mappings,
             m.address = n.address, m.address # Nobody, ~Expired(m)
      PROVE  m.index <= n.index
  BY <1>1, <1>4 DEF Renews, Ordered
<1> QED BY <1>2, <1>3, <1>4 DEF Ordered

\* Touching mappings that have not expired.
TouchesOf(s, M) == [m \in s.mappings |-> IF m \in M THEN [m EXCEPT !.access = 0] ELSE m]

LEMMA TouchRenews ==
    ASSUME NEW s \in Machine, NEW M \in SUBSET s.mappings, \A m \in M : ~Expired(m)
    PROVE  /\ Renews(TouchesOf(s, M), s, Touch(s, M))
           /\ \A m \in s.mappings : TouchesOf(s, M)[m].access \in {0, m.access}
           /\ \A m \in M : TouchesOf(s, M)[m].access = 0
<1> DEFINE t == Touch(s, M)
           g == TouchesOf(s, M)
<1>1. t.used = s.used /\ t.mappings = (s.mappings \ M) \union {[m EXCEPT !.access = 0] : m \in M}
  BY TouchIs
<1>2. \A m \in s.mappings : g[m] = IF m \in M THEN [m EXCEPT !.access = 0] ELSE m
  BY DEF TouchesOf
<1> HIDE DEF g, t
<1>3. \A n : n \in t.mappings <=> \E m \in s.mappings : n = g[m]
  <2>1. ASSUME NEW n \in t.mappings PROVE \E m \in s.mappings : n = g[m]
    <3>1. CASE n \in s.mappings \ M
      BY <1>2, <3>1
    <3>2. CASE n \in {[m EXCEPT !.access = 0] : m \in M}
      <4>1. PICK m \in M : n = [m EXCEPT !.access = 0]
        BY <3>2
      <4>2. n = g[m] /\ m \in s.mappings
        BY <1>2, <4>1
      <4> QED BY <4>2
    <3> QED BY <1>1, <2>1, <3>1, <3>2
  <2>2. ASSUME NEW m \in s.mappings PROVE g[m] \in t.mappings
    <3>1. CASE m \in M
      BY <1>1, <1>2, <3>1
    <3>2. CASE m \notin M
      BY <1>1, <1>2, <3>2
    <3> QED BY <3>1, <3>2
  <2> QED BY <2>1, <2>2
<1>4. ASSUME NEW m \in s.mappings
      PROVE  /\ g[m].index = m.index /\ g[m].address = m.address /\ g[m].token = m.token
             /\ m.waiting = -1 => g[m].waiting = -1
             /\ ~Expired(g[m]) => ~Expired(m)
             /\ g[m].access \in {0, m.access} /\ (m \in M => g[m].access = 0)
  <2>1. m \in MappingRec
    BY MachineIs
  <2>2. CASE m \in M
    BY <1>2, <2>1, <2>2, Touch1Is
  <2>3. CASE m \notin M
    BY <1>2, <2>3
  <2> QED BY <2>2, <2>3
<1> QED BY <1>1, <1>3, <1>4 DEF Renews, g, t

LEMMA TouchSound ==
    ASSUME NEW s, NEW ticks \in Nat, Sound(s, ticks), NEW M \in SUBSET s.mappings, \A m \in M : ~Expired(m)
    PROVE  Sound(Touch(s, M), ticks)
<1> DEFINE t == Touch(s, M)
           g == TouchesOf(s, M)
<1>1. s \in Machine
  BY DEF Sound, Seated
<1>2. t \in Machine /\ t.slots = s.slots /\ t.connected = s.connected /\ t.key = s.key
  BY <1>1, TouchIs
<1>3. Renews(g, s, t) /\ \A m \in s.mappings : g[m].access \in {0, m.access}
  BY <1>1, TouchRenews
<1> HIDE DEF t, g
<1>4. Seated(t)
  BY <1>2, SameTable DEF Sound
<1>5. Ordered(t)
  BY <1>3, RenewsOrdered DEF Sound
<1>6. ASSUME NEW x \in t.slots PROVE \E n \in t.mappings : Backs(n, x, ticks)
  <2>1. PICK m \in s.mappings : Backs(m, x, ticks)
    BY <1>2 DEF Sound, Backed
  <2>2. g[m] \in t.mappings
    BY <1>3 DEF Renews
  <2>3. Backs(g[m], x, ticks)
    BY <1>3, <2>1 DEF Backs, Renews
  <2> QED BY <2>2, <2>3
<1> QED BY <1>4, <1>5, <1>6 DEF Sound, Backed, t

\* The mapping that a slot touches is the one that backs it.
LEMMA TouchedBacks ==
    ASSUME NEW s, NEW ticks \in 0..Timeout, Sound(s, ticks), NEW x \in s.slots, NEW m \in s.mappings,
           m.index = x.mapping
    PROVE  Backs(m, x, ticks) /\ ~Expired(m) /\ m.index < s.used /\ m.address # Nobody
<1>1. PICK n \in s.mappings : Backs(n, x, ticks)
  BY DEF Sound, Backed
<1>2. n = m
  BY <1>1 DEF Backs, Sound, Ordered
<1>3. m \in MappingRec /\ x \in SlotRec /\ s.used \in 0..NumMappings
  BY MachineIs DEF Sound, Seated
<1>4. m.address # Nobody
  BY <1>1, <1>2, <1>3, SlotIs, ProcessAssumption DEF Backs, Process
<1>5. m.index < s.used
  BY <1>3, <1>4, MappingIs, TimeoutIs DEF Sound, Ordered
<1>6. ~Expired(m)
  BY <1>1, <1>2, <1>3, MappingIs, TimeoutIs DEF Backs, Expired, Age
<1> QED BY <1>1, <1>2, <1>4, <1>5, <1>6

LEMMA SendSlotsSound ==
    ASSUME NEW s, NEW ticks \in 0..Timeout, Sound(s, ticks), NEW S \in SUBSET s.slots, NEW kind
    PROVE  LET t == SendSlots(s, S, kind).server IN
           /\ Sound(t, ticks) /\ t.slots = s.slots /\ (S = s.slots => Sound(t, 0))
           /\ Renews(TouchesOf(s, TouchedBy(s, S)), s, t)
<1> DEFINE M == TouchedBy(s, S)
           t == Touch(s, M)
           g == TouchesOf(s, M)
<1>1. s \in Machine
  BY DEF Sound, Seated
<1>2. /\ M \in SUBSET s.mappings
      /\ \A m : m \in M <=> \E x \in S : m \in s.mappings /\ m.index = x.mapping /\ m.address = x.client
  BY <1>1, TouchedByIs
<1>3. \A m \in M : ~Expired(m)
  BY <1>2, TouchedBacks
<1>4. ticks \in Nat
  BY TimeoutIs
<1> HIDE DEF M
<1>5. Sound(t, ticks) /\ t.slots = s.slots
  BY <1>1, <1>2, <1>3, <1>4, TouchSound, TouchIs
<1>6. Renews(g, s, t) /\ \A m \in M : g[m].access = 0
  BY <1>1, <1>2, <1>3, TouchRenews
<1> HIDE DEF t, g
<1>7. ASSUME S = s.slots, NEW x \in t.slots PROVE \E n \in t.mappings : Backs(n, x, 0)
  <2>1. PICK m \in s.mappings : Backs(m, x, ticks)
    BY <1>5 DEF Sound, Backed
  <2>2. m \in M
    BY <1>2, <1>5, <1>7, <2>1 DEF Backs
  <2>3. g[m] \in t.mappings
    BY <1>6 DEF Renews
  <2>4. Backs(g[m], x, 0)
    BY <1>6, <2>1, <2>2 DEF Backs, Renews
  <2> QED BY <2>3, <2>4
<1>8. S = s.slots => Sound(t, 0)
  BY <1>5, <1>7 DEF Sound, Backed
<1> QED BY <1>5, <1>6, <1>8, SendSlotsTouches DEF t, g, M

\* A new mapping takes the place that its address has, or one that nobody needs.
LEMMA AddMappingSound ==
    ASSUME NEW s, NEW ticks \in 0..Timeout, Sound(s, ticks), NEW t \in Given,
           SlotsOf(s, t[1]) = {}, Room(s, t[1]) # {}
    PROVE  LET a == AddMapping(s, t) IN
           /\ Sound(a, ticks)
           /\ \A n \in a.mappings : n \in s.mappings \/ n.token = t
           /\ \A x \in s.slots, m \in s.mappings : m.index = x.mapping => m \in a.mappings
<1> DEFINE c == t[1]
           a == AddMapping(s, t)
           i == Min(Room(s, c))
           m == [index |-> i, address |-> c, token |-> t, access |-> 0, waiting |-> 0]
<1>1. s \in Machine /\ s.mappings \subseteq MappingRec /\ s.used \in 0..NumMappings /\ s.slots \subseteq SlotRec
  BY MachineIs DEF Sound, Seated
<1>2. c \in Clients /\ c # Nobody
  BY GivenIs, ProcessAssumption DEF Process
<1>3. /\ a \in Machine
      /\ a.slots = s.slots /\ a.connected = s.connected /\ a.key = s.key
      /\ a.used >= s.used /\ i < a.used
      /\ i \in Room(s, c) /\ \A j \in Room(s, c) : i <= j
      /\ m \in MappingRec
      /\ a.mappings = {n \in s.mappings : n.index # i} \union {m}
  BY <1>1, AddMappingIs
<1>4. m.index = i /\ m.address = c /\ m.token = t
  OBVIOUS
<1>5. i \in Nat /\ a.used \in Nat /\ s.used \in Nat
  BY <1>1, <1>2, <1>3, RoomIs, MachineIs, TimeoutIs
<1> HIDE DEF i, m, a, c
<1>6. Seated(a)
  BY <1>3, SameTable DEF Sound
<1>7. Valid(s, c) # {} => \E v \in s.mappings : v.index = i /\ v.address = c /\ ~Expired(v)
  BY <1>3 DEF Room, Valid, MappingsOf
<1>8. ASSUME NEW n \in s.mappings, n.address # Nobody PROVE n.index < s.used /\ n.index \in Nat
  BY <1>1, <1>5, <1>8, MappingIs DEF Sound, Ordered
<1>9. ASSUME Valid(s, c) = {}, NEW n \in s.mappings, n.address = c PROVE Expired(n)
  <2>1. n.index < s.used
    BY <1>2, <1>8, <1>9
  <2> QED BY <1>9, <2>1 DEF Valid, MappingsOf
<1>10. Valid(s, c) = {} => Room(s, c) = Mappings \ {n.index : n \in {n \in s.mappings : n.address # Nobody /\ ~Expired(n)}}
  BY DEF Room
<1>11. ASSUME NEW n \in s.mappings, n.address = c PROVE i <= n.index /\ (~Expired(n) => n.index <= i)
  <2>1. CASE Valid(s, c) # {}
    <3>1. PICK v \in s.mappings : v.index = i /\ v.address = c /\ ~Expired(v)
      BY <1>7, <2>1
    <3> QED BY <1>2, <1>11, <3>1 DEF Sound, Ordered
  <2>2. CASE Valid(s, c) = {}
    <3>1. Expired(n)
      BY <1>9, <1>11, <2>2
    <3>2. \A k \in s.mappings : k.index = n.index => k = n
      BY DEF Sound, Ordered
    <3>3. n.index \in Mappings
      BY <1>1, MappingIs
    <3>4. n.index \in Room(s, c)
      BY <1>10, <2>2, <3>1, <3>2, <3>3
    <3> QED BY <1>3, <3>1, <3>4
  <2> QED BY <2>1, <2>2
<1>12. ASSUME NEW x \in s.slots, NEW n \in s.mappings, n.index = x.mapping PROVE n.index # i
  <2>1. Backs(n, x, ticks) /\ ~Expired(n) /\ n.address # Nobody
    BY <1>12, TouchedBacks
  <2>2. n.address # c
    BY <2>1 DEF Backs, SlotsOf, c
  <2>3. CASE Valid(s, c) # {}
    <3>1. PICK v \in s.mappings : v.index = i /\ v.address = c /\ ~Expired(v)
      BY <1>7, <2>3
    <3> QED BY <2>2, <3>1 DEF Sound, Ordered
  <2>4. CASE Valid(s, c) = {}
    BY <1>3, <1>10, <2>1, <2>4
  <2> QED BY <2>3, <2>4
<1>13. \A x \in s.slots, n \in s.mappings : n.index = x.mapping => n \in a.mappings
  BY <1>3, <1>12
<1>14. Ordered(a)
  <2>1. \A k, n \in a.mappings : k.index = n.index => k = n
    BY <1>3, <1>4 DEF Sound, Ordered
  <2>2. ASSUME NEW n \in a.mappings
        PROVE  n.address \in {Nobody, n.token[1]} /\ (n.index >= a.used => n.address = Nobody)
    <3>1. CASE n = m
      BY <1>3, <1>4, <1>5, <3>1 DEF c
    <3>2. CASE n \in s.mappings
      <4>1. n.address \in {Nobody, n.token[1]}
        BY <3>2 DEF Sound, Ordered
      <4>2. n.index >= a.used => n.address = Nobody
        BY <1>3, <1>5, <1>8, <3>2
      <4> QED BY <4>1, <4>2
    <3> QED BY <1>3, <2>2, <3>1, <3>2
  <2>3. ASSUME NEW k \in a.mappings, NEW n \in a.mappings, k.address = n.address, k.address # Nobody, ~Expired(k)
        PROVE  k.index <= n.index
    <3>1. CASE k = m /\ n = m
      BY <1>4, <1>5, <3>1
    <3>2. CASE k = m /\ n \in s.mappings
      BY <1>4, <1>11, <2>3, <3>2
    <3>3. CASE k \in s.mappings /\ n = m
      BY <1>4, <1>11, <2>3, <3>3
    <3>4. CASE k \in s.mappings /\ n \in s.mappings
      BY <2>3, <3>4 DEF Sound, Ordered
    <3> QED BY <1>3, <2>3, <3>1, <3>2, <3>3, <3>4
  <2> QED BY <2>1, <2>2, <2>3 DEF Ordered
<1>15. Backed(a, ticks)
  <2> SUFFICES ASSUME NEW x \in s.slots PROVE \E n \in a.mappings : Backs(n, x, ticks)
    BY <1>3 DEF Backed
  <2>1. PICK n \in s.mappings : Backs(n, x, ticks)
    BY DEF Sound, Backed
  <2>2. n \in a.mappings
    BY <1>13, <2>1 DEF Backs
  <2> QED BY <2>1, <2>2
<1>16. \A n \in a.mappings : n \in s.mappings \/ n.token = t
  BY <1>3, <1>4
<1> QED BY <1>6, <1>13, <1>14, <1>15, <1>16 DEF Sound, a

\* The client of mapping m gets a slot.
SettlesOf(s, m) == [n \in s.mappings |-> IF n = m THEN Settled(m) ELSE n]

LEMMA JoinedSound ==
    ASSUME NEW s, Sound(s, Timeout), ~Full(s), NEW c \in Clients, SlotsOf(s, c) = {}, NEW m \in Valid(s, c)
    PROVE  LET r == Joined(s, c, m) IN Sound(r, Timeout) /\ Renews(SettlesOf(s, m), s, r)
<1> DEFINE r == Joined(s, c, m)
           x == Seat(s, c, m)
           g == SettlesOf(s, m)
<1>1. /\ s \in Machine /\ m \in s.mappings /\ m \in MappingRec /\ m.address = c /\ ~Expired(m)
      /\ s.mappings \subseteq MappingRec
  BY MachineIs DEF Sound, Seated, Valid, MappingsOf
<1>2. /\ Seated(r) /\ r.slots = s.slots \union {x} /\ r.used = s.used
      /\ r.mappings = (s.mappings \ {m}) \union {Settled(m)}
  <2>1. Seated(s)
    BY DEF Sound
  <2>3. r = [s EXCEPT !.slots = s.slots \union {x}, !.connected = s.connected + 1,
                      !.mappings = (s.mappings \ {m}) \union {Settled(m)}]
    BY DEF Joined
  <2>4. Seated(r)
    BY <1>1, <2>1, ConnectClientIs
  <2> HIDE DEF x
  <2>5. r.slots = s.slots \union {x} /\ r.used = s.used /\ r.mappings = (s.mappings \ {m}) \union {Settled(m)}
    BY <1>1, <2>3 DEF Machine
  <2> QED BY <2>4, <2>5
<1>3. x.client = c /\ x.mapping = m.index
  BY SeatIs
<1>4. \A n \in s.mappings : g[n] = IF n = m THEN Settled(m) ELSE n
  BY DEF SettlesOf
<1> HIDE DEF r, x, g
<1>5. LET n == Settled(m) IN
           /\ n \in MappingRec /\ n.index = m.index /\ n.address = m.address /\ n.token = m.token
           /\ n.access = m.access /\ n.waiting = -1
  BY <1>1, SettledIs
<1>6. Renews(g, s, r)
  <2>1. \A n : n \in r.mappings <=> \E k \in s.mappings : n = g[k]
    BY <1>1, <1>2, <1>4
  <2>2. \A n \in s.mappings : n.waiting = -1 => g[n].waiting = -1
    BY <1>4, <1>5
  <2>3. \A n \in s.mappings : g[n].index = n.index /\ g[n].address = n.address /\ g[n].token = n.token
    BY <1>4, <1>5
  <2>4. \A n \in s.mappings : ~Expired(g[n]) => ~Expired(n)
    BY <1>1, <1>4
  <2> QED BY <1>2, <2>1, <2>2, <2>3, <2>4 DEF Renews
<1>7. Ordered(r)
  BY <1>6, RenewsOrdered DEF Sound
<1>8. ASSUME NEW y \in r.slots PROVE \E n \in r.mappings : Backs(n, y, Timeout)
  <2>1. CASE y = x
    <3>1. m.access <= Timeout
      BY <1>1, MappingIs, TimeoutIs DEF Expired, Age
    <3> QED BY <1>1, <1>2, <1>3, <1>5, <2>1, <3>1 DEF Backs
  <2>2. CASE y \in s.slots
    <3>1. PICK n \in s.mappings : Backs(n, y, Timeout)
      BY <2>2 DEF Sound, Backed
    <3>2. n # m
      BY <1>1, <2>2, <3>1 DEF Backs, SlotsOf
    <3> QED BY <1>2, <3>1, <3>2
  <2> QED BY <1>2, <1>8, <2>1, <2>2
<1> QED BY <1>2, <1>6, <1>7, <1>8 DEF Sound, Backed, r, g

\* The mapping that goes with a slot is its own, and the others keep theirs.
LEMMA FreedSound ==
    ASSUME NEW s, NEW ticks \in 0..Timeout, Sound(s, ticks), NEW x \in s.slots
    PROVE  LET t == Freed(s, x) IN
           /\ Sound(t, ticks)
           /\ \A n \in t.mappings : n.address # Nobody => n \in s.mappings /\ n.index # x.mapping
           /\ \A y \in t.slots, n \in s.mappings : n.index = y.mapping => n \in t.mappings
<1> DEFINE c == x.client
           f == First(MappingsOf(s, c))
           t == Freed(s, x)
           used == UsedWithout(s, f)
<1>1. s \in Machine /\ s.mappings \subseteq MappingRec /\ s.used \in 0..NumMappings /\ x \in SlotRec
  BY MachineIs DEF Sound, Seated
<1>2. c \in Clients
  BY <1>1, SlotIs
<1>3. PICK b \in s.mappings : Backs(b, x, ticks)
  BY DEF Sound, Backed
<1>4. ~Expired(b) /\ b.index < s.used /\ b.address # Nobody /\ b.index = x.mapping /\ b.address = c
  BY <1>3, TouchedBacks DEF Backs
<1>5. MappingsOf(s, c) # {}
  BY <1>4 DEF MappingsOf
<1>6. LET r == RemoveMapping(s, c) IN
      /\ f \in MappingsOf(s, c) /\ \A y \in MappingsOf(s, c) : f.index <= y.index
      /\ r.used = used
      /\ r.mappings = {IF used <= n.index /\ n.index < f.index
                       THEN [n EXCEPT !.address = Nobody] ELSE n : n \in s.mappings \ {f}}
  BY <1>1, <1>2, <1>5, RemoveMappingIs
<1>7. /\ Seated(t) /\ t.slots = s.slots \ {x} /\ t.used = RemoveMapping(s, c).used
      /\ t.mappings = RemoveMapping(s, c).mappings
  BY FreedIs DEF Sound
<1>8. f = b
  <2>1. f \in s.mappings /\ f.address = c /\ f.index <= b.index
    BY <1>4, <1>6 DEF MappingsOf
  <2>2. b.index <= f.index
    BY <1>4, <2>1 DEF Sound, Ordered
  <2>3. f.index = b.index
    BY <1>1, <2>1, <2>2, MappingIs
  <2> QED BY <2>1, <2>3 DEF Sound, Ordered
<1>9. /\ used \in 0..s.used /\ t.used = used
      /\ b.index + 1 < s.used => used = s.used
      /\ b.index + 1 >= s.used => used <= b.index
      /\ \A n \in s.mappings : n.index < s.used /\ n.index # b.index /\ ~Expired(n) => n.index < used
  BY <1>1, <1>4, <1>6, <1>7, <1>8, UsedWithoutIs
<1>10. t.mappings = {IF used <= n.index /\ n.index < b.index
                     THEN [n EXCEPT !.address = Nobody] ELSE n : n \in s.mappings \ {b}}
  BY <1>6, <1>7, <1>8
<1> HIDE DEF f, t, used, c
<1>11. ASSUME NEW n \in t.mappings
       PROVE  \E m \in s.mappings \ {b} :
                 /\ n.index = m.index /\ n.token = m.token
                 /\ \/ used <= m.index /\ m.index < b.index /\ n.address = Nobody
                    \/ ~(used <= m.index /\ m.index < b.index) /\ n = m
                 /\ n = IF used <= m.index /\ m.index < b.index THEN [m EXCEPT !.address = Nobody] ELSE m
  <2>1. PICK m \in s.mappings \ {b} :
             n = IF used <= m.index /\ m.index < b.index THEN [m EXCEPT !.address = Nobody] ELSE m
    BY <1>10
  <2>2. m \in MappingRec
    BY <1>1
  <2>3. CASE used <= m.index /\ m.index < b.index
    BY <2>1, <2>2, <2>3 DEF MappingRec
  <2>4. CASE ~(used <= m.index /\ m.index < b.index)
    BY <2>1, <2>4
  <2> QED BY <2>3, <2>4
<1>12. \A n \in t.mappings : n.address # Nobody => n \in s.mappings /\ n # b
  BY <1>11
<1>13. \A n \in s.mappings : n # b => n.index # b.index
  BY DEF Sound, Ordered
<1>14. \A n \in t.mappings : n.address # Nobody => n \in s.mappings /\ n.index # x.mapping
  BY <1>4, <1>12, <1>13
<1>15. ASSUME NEW y \in t.slots, NEW n \in s.mappings, n.index = y.mapping PROVE n \in t.mappings
  <2>1. y \in s.slots /\ y # x
    BY <1>7
  <2>2. Backs(n, y, ticks) /\ ~Expired(n) /\ n.index < s.used
    BY <1>15, <2>1, TouchedBacks
  <2>3. n.address # c
    BY <2>1, <2>2 DEF Backs, Sound, Seated, Alone, c
  <2>4. n # b
    BY <1>4, <2>3
  <2>5. n.index < used
    BY <1>9, <1>13, <2>2, <2>4
  <2>6. ~(used <= n.index)
    BY <1>1, <1>9, <2>5, MappingIs, TimeoutIs
  <2> QED BY <1>10, <2>4, <2>6
<1>16. Ordered(t)
  <2>1. \A m, n \in t.mappings : m.index = n.index => m = n
    <3> TAKE m \in t.mappings, n \in t.mappings
    <3> HAVE m.index = n.index
    <3>1. PICK k \in s.mappings : /\ m.index = k.index
             /\ m = IF used <= k.index /\ k.index < b.index THEN [k EXCEPT !.address = Nobody] ELSE k
      BY <1>11
    <3>2. PICK l \in s.mappings : /\ n.index = l.index
             /\ n = IF used <= l.index /\ l.index < b.index THEN [l EXCEPT !.address = Nobody] ELSE l
      BY <1>11
    <3>3. k = l
      BY <3>1, <3>2 DEF Sound, Ordered
    <3> QED BY <3>1, <3>2, <3>3
  <2>2. ASSUME NEW n \in t.mappings PROVE n.address \in {Nobody, n.token[1]}
    BY <1>12 DEF Sound, Ordered
  <2>3. ASSUME NEW n \in t.mappings, n.index >= t.used, n.address # Nobody PROVE FALSE
    <3>1. n \in s.mappings /\ n.index # b.index /\ ~(used <= n.index /\ n.index < b.index)
      BY <1>11, <1>13, <2>3
    <3>2. n.index < s.used
      BY <1>1, <2>3, <3>1, MappingIs, TimeoutIs DEF Sound, Ordered
    <3> QED BY <1>1, <1>9, <2>3, <3>1, <3>2, MappingIs, TimeoutIs
  <2>4. \A m, n \in t.mappings :
          m.address = n.address /\ m.address # Nobody /\ ~Expired(m) => m.index <= n.index
    BY <1>12 DEF Sound, Ordered
  <2> QED BY <2>1, <2>2, <2>3, <2>4 DEF Ordered
<1>17. Backed(t, ticks)
  <2> SUFFICES ASSUME NEW y \in t.slots PROVE \E n \in t.mappings : Backs(n, y, ticks)
    BY DEF Backed
  <2>1. PICK n \in s.mappings : Backs(n, y, ticks)
    BY <1>7 DEF Sound, Backed
  <2> QED BY <1>15, <2>1 DEF Backs
<1> QED BY <1>7, <1>14, <1>15, <1>16, <1>17 DEF Sound, t

LEMMA FromSlotSound ==
    ASSUME NEW s, NEW ticks \in 0..Timeout, Sound(s, ticks), NEW x \in s.slots, NEW kind
    PROVE  Sound(FromSlot(s, x, kind), ticks)
<1> DEFINE t == FromSlot(s, x, kind)
           z == [x EXCEPT !.heard = 0]
<1>1. CASE kind = "disconnect"
  <2>1. t = Freed(s, x)
    BY <1>1 DEF FromSlot
  <2> QED BY <2>1, FreedSound
<1>2. CASE kind # "disconnect"
  <2>1. /\ Seated(t) /\ t.slots = (s.slots \ {x}) \union {z} /\ t.mappings = s.mappings /\ t.used = s.used
        /\ z.client = x.client /\ z.mapping = x.mapping
    BY <1>2, FromSlotIs DEF Sound
  <2> HIDE DEF t, z
  <2>2. Ordered(t)
    BY <2>1 DEF Ordered, Sound
  <2>3. ASSUME NEW y \in t.slots PROVE \E m \in t.mappings : Backs(m, y, ticks)
    <3>1. PICK v \in s.slots : y.client = v.client /\ y.mapping = v.mapping
      BY <2>1, <2>3
    <3>2. PICK m \in s.mappings : Backs(m, v, ticks)
      BY DEF Sound, Backed
    <3> QED BY <2>1, <3>1, <3>2 DEF Backs
  <2> QED BY <2>1, <2>2, <2>3 DEF Sound, Backed, t
<1> QED BY <1>1, <1>2

LEMMA ValidIs ==
    ASSUME NEW s, NEW c, NEW f \in Valid(s, c)
    PROVE  f \in s.mappings /\ f.address = c /\ f.index < s.used /\ ~Expired(f) /\ {f} \in SUBSET s.mappings
BY DEF Valid, MappingsOf

\* What one packet may do to the mappings and the slots: the cases again, for a sound server.
LEMMA ProcessPacketSound ==
    ASSUME NEW s, Sound(s, Timeout), NEW p \in PacketRec
    PROVE  \E u, g :
              /\ Sound(u, Timeout) /\ u.slots = s.slots /\ Renews(g, s, u)
              /\ LET r == ProcessPacket(s, p)
                     c == p.token[1] IN
                 /\ Sound(r.server, Timeout)
                 /\ \/ r = Quiet(u)
                    \/ Denies(u, p, r)
                    \/ AddsMapping(u, p, r)
                    \/ /\ p.kind = "response" /\ SlotsOf(u, c) = {} /\ ~Full(u)
                       /\ \E m \in Valid(u, c) : m.token = p.token /\ r = ConnectClient(u, c, m)
                    \/ Hears(u, p, r)
<1> DEFINE c == p.token[1]
           r == ProcessPacket(s, p)
<1> Seated(s) /\ s \in Machine
  BY DEF Sound, Seated
<1>0. Timeout \in 0..Timeout /\ c \in Clients /\ p.token \in Given
  BY TimeoutIs, GivenIs DEF PacketRec
<1>1. PICK u : /\ Seated(u)
               /\ u = s \/ \E f \in Valid(s, p.token[1]) : u = Touch(s, {f})
               /\ u.slots = s.slots
               /\ LET r_1 == ProcessPacket(s, p) IN
                  r_1 = Quiet(u) \/ Denies(u, p, r_1) \/ AddsMapping(u, p, r_1) \/ Connects(u, p, r_1) \/ Hears(u, p, r_1)
  BY ProcessPacketCases
<1>2. r = Quiet(u) \/ Denies(u, p, r) \/ AddsMapping(u, p, r) \/ Connects(u, p, r) \/ Hears(u, p, r)
  BY <1>1
<1> HIDE DEF r
<1>3. Sound(u, Timeout) /\ \E g : Renews(g, s, u)
  <2>1. CASE u = s
    <3>1. Renews([m \in s.mappings |-> m], s, s)
      BY DEF Renews
    <3> QED BY <2>1, <3>1
  <2>2. CASE u # s
    <3>1. PICK f \in Valid(s, c) : u = Touch(s, {f})
      BY <1>1, <2>2
    <3>2. {f} \in SUBSET s.mappings /\ \A m \in {f} : ~Expired(m)
      BY ValidIs
    <3>3. Renews(TouchesOf(s, {f}), s, Touch(s, {f}))
      BY <3>2, TouchRenews
    <3>4. Sound(Touch(s, {f}), Timeout)
      BY <3>2, TimeoutIs, TouchSound
    <3> QED BY <3>1, <3>3, <3>4
  <2> QED BY <2>1, <2>2
<1>4. PICK g : Renews(g, s, u)
  BY <1>3
<1> SUFFICES /\ Sound(r.server, Timeout)
             /\ \/ r = Quiet(u)
                \/ Denies(u, p, r)
                \/ AddsMapping(u, p, r)
                \/ /\ p.kind = "response" /\ SlotsOf(u, c) = {} /\ ~Full(u)
                   /\ \E m \in Valid(u, c) : m.token = p.token /\ r = ConnectClient(u, c, m)
                \/ Hears(u, p, r)
  BY <1>1, <1>3, <1>4 DEF r
<1>5. CASE r = Quiet(u)
  BY <1>3, <1>5 DEF Quiet
<1>6. CASE Denies(u, p, r)
  BY <1>3, <1>6 DEF Denies
<1>7. CASE AddsMapping(u, p, r)
  <2>1. Sound(AddMapping(u, p.token), Timeout)
    BY <1>0, <1>3, <1>7, AddMappingSound DEF AddsMapping
  <2> QED BY <1>7, <2>1 DEF AddsMapping
<1>8. CASE Connects(u, p, r)
  <2>1. PICK f \in Valid(u, c), m \in u.mappings :
             m.index = f.index /\ m.token = p.token /\ r = ConnectClient(u, c, m)
    BY <1>8 DEF Connects
  <2>2. m = f
    BY <1>3, <2>1, ValidIs DEF Sound, Ordered
  <2>3. m \in Valid(u, c)
    BY <2>2
  <2>4. p.kind = "response" /\ SlotsOf(u, c) = {} /\ ~Full(u)
    BY <1>8 DEF Connects
  <2> DEFINE t == Joined(u, c, m)
             x == Seat(u, c, m)
  <2>5. Sound(t, Timeout)
    BY <1>0, <1>3, <2>3, <2>4, JoinedSound
  <2>6. {x} \in SUBSET t.slots /\ r = SendSlots(t, {x}, "keep alive")
    BY <1>0, <1>1, <2>1, <2>4, ConnectClientIs
  <2> HIDE DEF t, x
  <2>7. Sound(r.server, Timeout)
    BY <1>0, <2>5, <2>6, SendSlotsSound
  <2> QED BY <2>1, <2>3, <2>4, <2>7
<1>9. CASE Hears(u, p, r)
  <2>1. PICK x \in SlotsOf(u, c) : r = Quiet(FromSlot(u, x, p.kind))
    BY <1>9 DEF Hears
  <2>2. x \in u.slots
    BY DEF SlotsOf
  <2>3. Sound(FromSlot(u, x, p.kind), Timeout)
    BY <1>0, <1>3, <2>2, FromSlotSound
  <2> QED BY <1>9, <2>1, <2>3 DEF Quiet
<1> QED BY <1>2, <1>5, <1>6, <1>7, <1>8, <1>9

\* An update begins: as long as it is not later than the timeout, every slot has its mapping.
OldersOf(s) == [m \in s.mappings |-> Older(m)]

LEMMA BegunSound ==
    ASSUME NEW s, Sound(s, 0), late[Server] \in 0..Timeout
    PROVE  Sound(Begun(s), Timeout) /\ Renews(OldersOf(s), s, Begun(s))
<1> DEFINE t == Begun(s)
           g == OldersOf(s)
<1>1. late[Server] \in Nat /\ s.mappings \subseteq MappingRec /\ s.slots \subseteq SlotRec
  BY TimeoutIs, MachineIs DEF Sound, Seated
<1>2. /\ Seated(t) /\ t.used = s.used
      /\ \A y : y \in t.slots <=> \E x \in s.slots : y = Later(x)
      /\ \A n : n \in t.mappings <=> \E m \in s.mappings : n = Older(m)
  BY <1>1, BegunIs DEF Sound
<1>3. \A m \in s.mappings : g[m] = Older(m)
  BY DEF OldersOf
<1> HIDE DEF t, g
<1>4. Renews(g, s, t)
  BY <1>1, <1>2, <1>3, OlderIs DEF Renews
<1>5. Ordered(t)
  BY <1>4, RenewsOrdered DEF Sound
<1>6. ASSUME NEW y \in t.slots PROVE \E n \in t.mappings : Backs(n, y, Timeout)
  <2>1. PICK x \in s.slots : y = Later(x)
    BY <1>2
  <2>2. y.client = x.client /\ y.mapping = x.mapping
    BY <1>1, <2>1, LaterIs
  <2>3. PICK m \in s.mappings : Backs(m, x, 0)
    BY DEF Sound, Backed
  <2>4. m.access = 0
    BY <1>1, <2>3, MappingIs, TimeoutIs DEF Backs, Age
  <2>5. Older(m).access = Aged(0, late[Server]) /\ Older(m).index = m.index /\ Older(m).address = m.address
        /\ Older(m).waiting = -1
    BY <1>1, <2>3, <2>4, OlderIs DEF Backs
  <2>6. Aged(0, late[Server]) <= Timeout
    BY TimeoutIs DEF Aged
  <2> QED BY <1>2, <2>2, <2>3, <2>5, <2>6 DEF Backs
<1> QED BY <1>2, <1>4, <1>5, <1>6 DEF Sound, Backed, t, g

LEMMA ServerChecksSound ==
    ASSUME NEW s, Sound(s, Timeout) PROVE Sound(ServerChecks(s).server, 0)
<1> DEFINE u == SendSlots(s, s.slots, "keep alive").server
           t == ServerChecks(s).server
<1>1. Seated(s) /\ Timeout \in 0..Timeout /\ 0 \in 0..Timeout /\ s.slots \in SUBSET s.slots
  BY TimeoutIs DEF Sound
<1>2. u.slots = s.slots /\ (t = u \/ \E x \in s.slots : t = Freed(u, x))
  BY <1>1, ServerChecksIs
<1>3. Sound(u, 0)
  BY <1>1, SendSlotsSound
<1> HIDE DEF u, t
<1>4. \A x \in u.slots : Sound(Freed(u, x), 0)
  BY <1>1, <1>3, FreedSound
<1> QED BY <1>2, <1>3, <1>4 DEF t

(***************************************************************************)
(* The mappings that go with the slots are kept, by a server that is never *)
(* kept from its update for longer than the timeout: it would find every   *)
(* mapping expired, and give those of its slots away.                      *)
(***************************************************************************)

Prompt == MaxLate[Server] <= Timeout
OnTime == \A p \in Process : late[p] <= MaxLate[p]
Orderly == Types /\ OnTime /\ Sound(server, 0)

LEMMA ServerOnTime == ASSUME Prompt, Orderly PROVE late[Server] \in 0..Timeout
<1>1. Server \in Process /\ late[Server] \in Nat /\ MaxLate[Server] \in Nat
  BY BoundsAssumption DEF Orderly, Types, LateTypes, Process
<1> QED BY <1>1, TimeoutIs DEF Orderly, OnTime, Prompt

SoundResults == {r \in [server : Machine, packets : SUBSET PacketRec] : Sound(r.server, Timeout)}

LEMMA Process1Sound ==
    ASSUME NEW r \in SoundResults, NEW p \in PacketRec PROVE Process1(r, p) \in SoundResults
<1> DEFINE n == ProcessPacket(r.server, p)
<1>1. Sound(n.server, Timeout)
  BY ProcessPacketSound DEF SoundResults
<1>2. Seated(r.server)
  BY DEF SoundResults, Sound
<1>3. n.packets \subseteq PacketRec
  BY <1>2, ProcessPacketSeated
<1>4. r.packets \union n.packets \in SUBSET PacketRec
  BY <1>3 DEF SoundResults
<1>5. Process1(r, p) = [server |-> n.server, packets |-> r.packets \union n.packets]
  BY DEF Process1
<1> HIDE DEF n
<1>6. n.server \in Machine
  BY <1>1 DEF Sound, Seated
<1> QED BY <1>1, <1>4, <1>5, <1>6 DEF SoundResults

LEMMA ProcessingSound ==
    ASSUME Prompt, Orderly, NEW P \in SUBSET PacketRec, NEW b \in Batches(P)
    PROVE  FoldLeft(Process1, Quiet(Begun(server)), b) \in SoundResults
<1>1. PICK n \in Nat : DOMAIN b = 1..n /\ \A i \in 1..n : b[i] \in P
  BY BatchIs
<1>2. Quiet(Begun(server)) \in SoundResults
  <2>1. Sound(Begun(server), Timeout)
    BY ServerOnTime, BegunSound DEF Orderly
  <2>2. Begun(server) \in Machine
    BY <2>1 DEF Sound, Seated
  <2> QED BY <2>1, <2>2 DEF Quiet, SoundResults
<1>3. ASSUME NEW r \in SoundResults, NEW i \in 1..n PROVE Process1(r, b[i]) \in SoundResults
  BY <1>1, Process1Sound
<1>4. Processing!Folded(Quiet(Begun(server)), b) \in SoundResults
  BY <1>1, <1>2, <1>3, Processing!FoldType
<1> QED BY <1>4, ProcessedIs

LEMMA ServerUpdateSound == ASSUME Prompt, Orderly, ServerUpdate PROVE Sound(server', 0)
<1>1. PICK batch \in Batches(ToTheServer) :
          server' = ServerChecks(FoldLeft(Process1, Quiet(Begun(server)), batch).server).server
  BY DEF ServerUpdate, ToTheServer
<1>2. ToTheServer \in SUBSET PacketRec
  BY DEF ToTheServer, Arriving, Orderly, Types, PacketTypes
<1>3. Sound(FoldLeft(Process1, Quiet(Begun(server)), batch).server, Timeout)
  BY <1>2, ProcessingSound DEF SoundResults
<1> QED BY <1>1, <1>3, ServerChecksSound

LEMMA ServerDisconnectSound == ASSUME Orderly, NEW i, ServerDisconnect(i) PROVE Sound(server', 0)
<1>1. PICK x \in server.slots : server' = Freed(SendSlots(server, {x}, "disconnect").server, x)
  BY DEF ServerDisconnect
<1> DEFINE u == SendSlots(server, {x}, "disconnect").server
<1>2. {x} \in SUBSET server.slots /\ 0 \in 0..Timeout
  BY TimeoutIs
<1>3. Sound(u, 0) /\ u.slots = server.slots
  BY <1>2, SendSlotsSound DEF Orderly
<1> HIDE DEF u
<1> QED BY <1>1, <1>2, <1>3, FreedSound DEF u

LEMMA EmptySound ==
    ASSUME NEW s, Seated(s), s.slots = {}, s.mappings = {} PROVE Sound(s, 0)
BY DEF Sound, Ordered, Backed

LEMMA OrderlyInit == Init => Orderly
<1> SUFFICES ASSUME Init PROVE Orderly
  OBVIOUS
<1>1. 1 \in 1..Len(NumSlots)
  BY BoundsAssumption
<1>2. Sound(server, 0)
  BY <1>1, StoppedIs, EmptySound DEF Init
<1>3. OnTime
  BY BoundsAssumption DEF Init, OnTime
<1> QED BY <1>2, <1>3, TypesInit DEF Orderly

LEMMA OnTimeNext == ASSUME Types, OnTime, [Next]_vars PROVE OnTime'
<1>1. \A p \in Process : late[p] \in Nat /\ MaxLate[p] \in Nat
  BY BoundsAssumption DEF Types, LateTypes
<1>2. CASE UNCHANGED late
  BY <1>2 DEF OnTime
<1>3. ASSUME NEW p \in Process, late' = [late EXCEPT ![p] = 0] PROVE OnTime'
  BY <1>1, <1>3 DEF OnTime, Types, LateTypes
<1>4. ASSUME NEW c \in Clients, Connect(c) PROVE OnTime'
  BY <1>2, <1>4 DEF Connect
<1>5. ASSUME NEW c \in Clients, Disconnect(c) \/ Crash(c) PROVE OnTime'
  BY <1>3, <1>5 DEF Disconnect, Crash, Leave, Process
<1>6. ASSUME NEW c \in Clients, ClientUpdate(c) PROVE OnTime'
  <2>1. \E k \in ClientRec : Stays(c, k) \/ Tries(c, k) \/ Leaves(c)
    BY <1>6, ClientUpdateIs
  <2>2. late' = [late EXCEPT ![c] = 0]
    BY <2>1 DEF Stays, Tries, Leaves, Leave
  <2> QED BY <1>3, <2>2 DEF Process
<1>7. CASE ServerUpdate
  BY <1>3, <1>7 DEF ServerUpdate, Process
<1>8. ASSUME NEW i, ServerDisconnect(i) PROVE OnTime'
  BY <1>2, <1>8 DEF ServerDisconnect
<1>9. ASSUME NEW killed \in BOOLEAN, ServerStop(killed) PROVE OnTime'
  BY <1>3, <1>9 DEF ServerStop, Process
<1>10. CASE ServerStart
  BY <1>2, <1>10 DEF ServerStart
<1>11. CASE Tick
  BY <1>1, <1>11 DEF Tick, OnTime
<1> QED BY <1>2, <1>4, <1>5, <1>6, <1>7, <1>8, <1>9, <1>10, <1>11 DEF Next, vars

LEMMA OrderlyNext == ASSUME Prompt PROVE Orderly /\ [Next]_vars => Orderly'
<1> SUFFICES ASSUME Orderly, [Next]_vars PROVE Orderly'
  OBVIOUS
<1>1. Types' /\ OnTime'
  BY TypesNext, OnTimeNext DEF Orderly
<1>2. CASE UNCHANGED server
  BY <1>1, <1>2 DEF Orderly
<1>3. ASSUME NEW c \in Clients, Connect(c) \/ Disconnect(c) \/ Crash(c) \/ ClientUpdate(c) PROVE Orderly'
  BY <1>2, <1>3 DEF Connect, Disconnect, Crash, ClientUpdate
<1>4. CASE ServerUpdate
  BY <1>1, <1>4, ServerUpdateSound DEF Orderly
<1>5. ASSUME NEW i, ServerDisconnect(i) PROVE Orderly'
  BY <1>1, <1>5, ServerDisconnectSound DEF Orderly
<1>6. ASSUME NEW killed \in BOOLEAN, ServerStop(killed) PROVE Orderly'
  <2>1. server.key \in 1..Len(NumSlots)
    BY MachineIs DEF Orderly, Types, Seated
  <2> QED BY <1>1, <1>6, <2>1, StoppedIs, EmptySound DEF Orderly, ServerStop
<1>7. CASE ServerStart
  <2>1. server.key + 1 \in 1..Len(NumSlots)
    BY <1>7, MachineIs, BoundsAssumption DEF Orderly, Types, Seated, ServerStart
  <2> QED BY <1>1, <1>7, <2>1, StoppedIs, EmptySound DEF Orderly, ServerStart
<1>8. CASE Tick
  BY <1>2, <1>8 DEF Tick
<1> QED BY <1>2, <1>3, <1>4, <1>5, <1>6, <1>7, <1>8 DEF Next, vars

LEMMA OrderlyAlways == ASSUME Prompt PROVE Spec => []Orderly
BY OrderlyInit, OrderlyNext, PTL DEF Spec

\* No client can take the mapping of another's slot, and a slot's is always within
\* those in use (netcode.c:3627, 4030).
THEOREM MappingStaysKept == ASSUME Prompt PROVE Spec => []MappingKept
<1>1. Orderly => MappingKept
  <2> SUFFICES ASSUME Orderly, NEW x \in server.slots
               PROVE  x.mapping < server.used /\ \E m \in Touched(server, x) : m.token[1] = x.client
    BY DEF MappingKept
  <2>1. PICK m \in server.mappings : Backs(m, x, 0)
    BY DEF Orderly, Sound, Backed
  <2>2. 0 \in 0..Timeout
    BY TimeoutIs
  <2>3. m.index < server.used /\ m.address # Nobody
    BY <2>1, <2>2, TouchedBacks DEF Orderly, Backs
  <2>4. m.token[1] = x.client
    BY <2>1, <2>3 DEF Orderly, Sound, Ordered, Backs
  <2> QED BY <2>1, <2>3, <2>4 DEF Backs, Touched
<1> QED BY <1>1, OrderlyAlways, PTL

(***************************************************************************)
(* What the server makes of a client's token.                              *)
(***************************************************************************)

\* A slot's mapping has token t; and whoever still has a mapping for it is in slot i.
HasSlot(s, t) == \E x \in s.slots, m \in s.mappings : m.index = x.mapping /\ m.address = x.client /\ m.token = t
Told(s, t, i) ==
    \A m \in s.mappings : m.address = t[1] /\ m.token = t /\ ~Expired(m) =>
        \E x \in s.slots : x.client = t[1] /\ x.mapping = m.index /\ x.index = i
KnownIn(s, T) == \A m \in s.mappings : m.token \in T

\* The slots of s are in t, and so on.
Within(s, t) == \A x \in s.slots : \E y \in t.slots : y.client = x.client /\ y.mapping = x.mapping /\ y.index = x.index

LEMMA RenewsTold ==
    ASSUME NEW s, NEW r, NEW g, Renews(g, s, r), Within(s, r), NEW t, NEW i, Told(s, t, i)
    PROVE  Told(r, t, i)
<1> SUFFICES ASSUME NEW n \in r.mappings, n.address = t[1], n.token = t, ~Expired(n)
             PROVE  \E y \in r.slots : y.client = t[1] /\ y.mapping = n.index /\ y.index = i
  BY DEF Told
<1>1. PICK m \in s.mappings : n = g[m]
  BY DEF Renews
<1>2. m.address = t[1] /\ m.token = t /\ ~Expired(m) /\ m.index = n.index
  BY <1>1 DEF Renews
<1>3. PICK x \in s.slots : x.client = t[1] /\ x.mapping = m.index /\ x.index = i
  BY <1>2 DEF Told
<1> QED BY <1>2, <1>3 DEF Within

LEMMA RenewsHasSlot ==
    ASSUME NEW s, NEW r, NEW g, Renews(g, s, r), Within(s, r), NEW t, HasSlot(s, t)
    PROVE  HasSlot(r, t)
<1>1. PICK x \in s.slots, m \in s.mappings : m.index = x.mapping /\ m.address = x.client /\ m.token = t
  BY DEF HasSlot
<1>2. PICK y \in r.slots : y.client = x.client /\ y.mapping = x.mapping
  BY DEF Within
<1>3. g[m] \in r.mappings /\ g[m].index = y.mapping /\ g[m].address = y.client /\ g[m].token = t
  BY <1>1, <1>2 DEF Renews
<1> QED BY <1>3 DEF HasSlot

LEMMA RenewsHadSlot ==
    ASSUME NEW s, NEW r, NEW g, Renews(g, s, r), Within(r, s), NEW t, HasSlot(r, t)
    PROVE  HasSlot(s, t)
<1>1. PICK y \in r.slots, n \in r.mappings : n.index = y.mapping /\ n.address = y.client /\ n.token = t
  BY DEF HasSlot
<1>2. PICK x \in s.slots : x.client = y.client /\ x.mapping = y.mapping
  BY DEF Within
<1>3. PICK m \in s.mappings : n = g[m]
  BY DEF Renews
<1>4. m.index = x.mapping /\ m.address = x.client /\ m.token = t
  BY <1>1, <1>2, <1>3 DEF Renews
<1> QED BY <1>4 DEF HasSlot

LEMMA RenewsKnown ==
    ASSUME NEW s, NEW r, NEW g, Renews(g, s, r), NEW T, KnownIn(s, T) PROVE KnownIn(r, T)
BY DEF Renews, KnownIn

LEMMA SameSlots == ASSUME NEW s, NEW t, t.slots = s.slots PROVE Within(s, t) /\ Within(t, s)
BY DEF Within

\* The client of a slot has no other mapping that has not expired.
LEMMA SlotTold ==
    ASSUME NEW s, Sound(s, Timeout), NEW x \in s.slots, NEW t, t[1] = x.client PROVE Told(s, t, x.index)
<1> SUFFICES ASSUME NEW m \in s.mappings, m.address = t[1], ~Expired(m) PROVE x.mapping = m.index
  BY DEF Told
<1>0. Timeout \in 0..Timeout
  BY TimeoutIs
<1>1. PICK b \in s.mappings : Backs(b, x, Timeout)
  BY DEF Sound, Backed
<1>2. b.index = x.mapping /\ b.address = x.client /\ ~Expired(b) /\ b.address # Nobody
  BY <1>0, <1>1, TouchedBacks DEF Backs
<1>3. m.index <= b.index /\ b.index <= m.index
  BY <1>2 DEF Sound, Ordered
<1>4. m.index \in Nat /\ b.index \in Nat
  BY MachineIs, MappingIs DEF Sound, Seated
<1> QED BY <1>2, <1>3, <1>4

LEMMA FreedTold ==
    ASSUME NEW s, NEW ticks \in 0..Timeout, Sound(s, ticks), NEW x \in s.slots
    PROVE  /\ \A t \in Given : \A i : Told(s, t, i) => Told(Freed(s, x), t, i)
           /\ \A t \in Given : HasSlot(Freed(s, x), t) => HasSlot(s, t)
           /\ \A T : KnownIn(s, T) => KnownIn(Freed(s, x), T)
<1> DEFINE f == Freed(s, x)
<1>1. /\ \A n \in f.mappings : n.address # Nobody => n \in s.mappings /\ n.index # x.mapping
      /\ f.slots = s.slots \ {x}
  BY FreedSound, FreedIs DEF Sound
<1>2. \A n \in f.mappings : \E m \in s.mappings : n.token = m.token
  <2>1. s \in Machine /\ x \in SlotRec /\ s.mappings \subseteq MappingRec
    BY MachineIs DEF Sound, Seated
  <2>2. f.mappings = RemoveMapping(s, x.client).mappings
    BY FreedIs DEF Sound
  <2>3. CASE MappingsOf(s, x.client) = {}
    BY <2>2, <2>3 DEF RemoveMapping
  <2>4. CASE MappingsOf(s, x.client) # {}
    <3> DEFINE b == First(MappingsOf(s, x.client))
               used == UsedWithout(s, b)
    <3>1. f.mappings = {IF used <= n.index /\ n.index < b.index
                        THEN [n EXCEPT !.address = Nobody] ELSE n : n \in s.mappings \ {b}}
      BY <2>1, <2>2, <2>4, SlotIs, RemoveMappingIs
    <3> HIDE DEF b, used
    <3>2. \A n \in MappingRec : [n EXCEPT !.address = Nobody].token = n.token
      BY DEF MappingRec
    <3> QED BY <2>1, <3>1, <3>2
  <2> QED BY <2>3, <2>4
<1> HIDE DEF f
<1>3. ASSUME NEW t \in Given, NEW i, Told(s, t, i) PROVE Told(f, t, i)
  <2> SUFFICES ASSUME NEW n \in f.mappings, n.address = t[1], n.token = t, ~Expired(n)
               PROVE  \E y \in f.slots : y.client = t[1] /\ y.mapping = n.index /\ y.index = i
    BY DEF Told
  <2>1. n \in s.mappings /\ n.index # x.mapping
    BY <1>1, GivenIs, ProcessAssumption DEF Process
  <2>2. PICK y \in s.slots : y.client = t[1] /\ y.mapping = n.index /\ y.index = i
    BY <1>3, <2>1 DEF Told
  <2> QED BY <1>1, <2>1, <2>2
<1>4. ASSUME NEW t \in Given, HasSlot(f, t) PROVE HasSlot(s, t)
  <2>1. PICK y \in f.slots, n \in f.mappings : n.index = y.mapping /\ n.address = y.client /\ n.token = t
    BY <1>4 DEF HasSlot
  <2>2. y \in s.slots /\ y.client # Nobody
    BY <1>1, MachineIs, SlotIs, ProcessAssumption DEF Sound, Seated, Process
  <2>3. n \in s.mappings
    BY <1>1, <2>1, <2>2
  <2> QED BY <2>1, <2>2, <2>3 DEF HasSlot
<1>5. ASSUME NEW T, KnownIn(s, T) PROVE KnownIn(f, T)
  BY <1>2, <1>5 DEF KnownIn
<1> QED BY <1>3, <1>4, <1>5 DEF f

\* Only the slot that is freed loses its mapping.
LEMMA FreedHasSlot ==
    ASSUME NEW s, NEW ticks \in 0..Timeout, Sound(s, ticks), NEW x \in s.slots,
           NEW k \in s.mappings, k.index = x.mapping, NEW t, t # k.token, HasSlot(s, t)
    PROVE  HasSlot(Freed(s, x), t)
<1>1. PICK y \in s.slots, m \in s.mappings : m.index = y.mapping /\ m.address = y.client /\ m.token = t
  BY DEF HasSlot
<1>2. y # x
  BY <1>1 DEF Sound, Ordered
<1>3. Freed(s, x).slots = s.slots \ {x}
  BY FreedIs DEF Sound
<1>4. m \in Freed(s, x).mappings
  BY <1>1, <1>2, <1>3, FreedSound
<1> QED BY <1>1, <1>2, <1>3, <1>4 DEF HasSlot

\* What a packet p that takes the server from s to r changes for the tokens.
Tells(s, p, r) ==
    /\ \A t \in Given : \A i :
          Told(s, t, i) /\ (p.kind = "request" /\ p.token = t => HasSlot(s, t)) => Told(r.server, t, i)
    /\ \A t \in Given : HasSlot(s, t) /\ ~(p.kind = "disconnect" /\ p.token = t) => HasSlot(r.server, t)
    /\ \A t \in Given : HasSlot(r.server, t) => HasSlot(s, t) \/ (p.kind = "response" /\ p.token = t)
    /\ \A q \in r.packets :
          /\ q.to = q.token[1] /\ q.token = p.token /\ q.kind \in {"denied", "challenge", "keep alive"}
          /\ q.kind = "keep alive" =>
                p.kind = "response" /\ HasSlot(r.server, q.token) /\ Told(r.server, q.token, q.arg)
    /\ \A T : KnownIn(s, T) /\ p.token \in T => KnownIn(r.server, T)

\* A slot's client is that of its token.
LEMMA HasSlotClient ==
    ASSUME NEW s, Seated(s), Ordered(s), NEW t, HasSlot(s, t) PROVE SlotsOf(s, t[1]) # {}
<1>1. PICK x \in s.slots, m \in s.mappings : m.index = x.mapping /\ m.address = x.client /\ m.token = t
  BY DEF HasSlot
<1>2. x.client # Nobody
  BY MachineIs, SlotIs, ProcessAssumption DEF Seated, Process
<1>3. x.client = t[1]
  BY <1>1, <1>2 DEF Ordered
<1> QED BY <1>3 DEF SlotsOf

LEMMA QuietTells == ASSUME NEW u, NEW p PROVE Tells(u, p, Quiet(u))
BY DEF Tells, Quiet

LEMMA DeniesTells ==
    ASSUME NEW u, NEW p \in PacketRec, NEW r, Denies(u, p, r) PROVE Tells(u, p, r)
<1>1. r.server = u /\ r.packets = {Packet(p.token[1], "denied", p.token, 0)}
  BY DEF Denies, Denied
<1>2. LET q == Packet(p.token[1], "denied", p.token, 0) IN
      q.to = p.token[1] /\ q.token = p.token /\ q.kind = "denied"
  BY DEF Packet
<1> QED BY <1>1, <1>2 DEF Tells

LEMMA AddsTells ==
    ASSUME NEW u, Sound(u, Timeout), NEW p \in PacketRec, NEW r, AddsMapping(u, p, r) PROVE Tells(u, p, r)
<1> DEFINE c == p.token[1]
           a == AddMapping(u, p.token)
<1>1. /\ r.server = a /\ r.packets = {Packet(c, "challenge", p.token, u.key)}
      /\ SlotsOf(u, c) = {} /\ Room(u, c) # {} /\ p.kind = "request"
  BY DEF AddsMapping
<1>2. Timeout \in 0..Timeout /\ p.token \in Given
  BY TimeoutIs DEF PacketRec
<1>3. /\ Sound(a, Timeout)
      /\ \A n \in a.mappings : n \in u.mappings \/ n.token = p.token
      /\ \A x \in u.slots, m \in u.mappings : m.index = x.mapping => m \in a.mappings
  BY <1>1, <1>2, AddMappingSound
<1>4. a.slots = u.slots
  BY <1>1, <1>2, AddMappingIs DEF Sound, Seated
<1> HIDE DEF a
<1>5. ~HasSlot(u, p.token)
  BY <1>1, HasSlotClient DEF Sound
<1>6. ASSUME NEW t \in Given, NEW i, Told(u, t, i), p.token = t => HasSlot(u, t) PROVE Told(a, t, i)
  BY <1>3, <1>4, <1>5, <1>6 DEF Told
<1>7. ASSUME NEW t \in Given, HasSlot(u, t) PROVE HasSlot(a, t)
  BY <1>3, <1>4, <1>7 DEF HasSlot
<1>8. ASSUME NEW t \in Given, HasSlot(a, t) PROVE HasSlot(u, t)
  <2>1. PICK x \in a.slots, n \in a.mappings : n.index = x.mapping /\ n.address = x.client /\ n.token = t
    BY <1>8 DEF HasSlot
  <2>2. PICK b \in u.mappings : Backs(b, x, Timeout)
    BY <1>4 DEF Sound, Backed
  <2>3. b \in a.mappings /\ b.index = n.index
    BY <1>3, <1>4, <2>1, <2>2 DEF Backs
  <2>4. b = n
    BY <1>3, <2>3 DEF Sound, Ordered
  <2> QED BY <1>4, <2>1, <2>2, <2>4 DEF HasSlot
<1>9. LET q == Packet(c, "challenge", p.token, u.key) IN
      q.to = p.token[1] /\ q.token = p.token /\ q.kind = "challenge"
  BY DEF Packet
<1>10. \A q \in r.packets : q.to = q.token[1] /\ q.token = p.token /\ q.kind = "challenge"
  BY <1>1, <1>9
<1>11. ASSUME NEW T, KnownIn(u, T), p.token \in T PROVE KnownIn(a, T)
  BY <1>3, <1>11 DEF KnownIn
<1> QED BY <1>1, <1>6, <1>7, <1>8, <1>10, <1>11 DEF Tells

LEMMA ConnectsTells ==
    ASSUME NEW u, Sound(u, Timeout), NEW p \in PacketRec, NEW m \in Valid(u, p.token[1]), m.token = p.token,
           p.kind = "response", SlotsOf(u, p.token[1]) = {}, ~Full(u)
    PROVE  Tells(u, p, ConnectClient(u, p.token[1], m))
<1> DEFINE c == p.token[1]
           j == Joined(u, c, m)
           x == Seat(u, c, m)
           r == ConnectClient(u, c, m)
           g == SettlesOf(u, m)
           S == {x}
           h == TouchesOf(j, TouchedBy(j, S))
<1>1. Timeout \in 0..Timeout /\ p.token \in Given /\ c \in Clients /\ m \in u.mappings /\ m \in MappingRec /\ Seated(u)
  BY TimeoutIs, GivenIs, ValidIs, MachineIs DEF PacketRec, Sound, Seated
<1>2. Sound(j, Timeout) /\ Renews(g, u, j)
  BY <1>1, JoinedSound
<1>3. /\ S \in SUBSET j.slots /\ \A y : y \in j.slots <=> y \in u.slots \/ y = x
      /\ r = SendSlots(j, S, "keep alive") /\ \A y \in S : y = x
  BY <1>1, ConnectClientIs
<1>4. x.client = c /\ x.mapping = m.index
  BY SeatIs
<1> HIDE DEF x, j, g, r, S
<1>14. S \in SUBSET j.slots /\ r = SendSlots(j, S, "keep alive")
  BY <1>3
<1>5. Sound(r.server, Timeout) /\ r.server.slots = j.slots /\ Renews(h, j, r.server)
  BY <1>1, <1>2, <1>14, SendSlotsSound DEF h
<1>6. Within(u, j) /\ Within(j, r.server) /\ Within(r.server, j)
  BY <1>3, <1>5, SameSlots DEF Within
<1>7. \A q \in r.packets :
         /\ q.kind = "keep alive"
         /\ \E k \in j.mappings : /\ k.index = x.mapping /\ k.address = x.client
                                  /\ q.to = x.client /\ q.token = k.token /\ q.arg = x.index
  <2>1. Seated(j) /\ "keep alive" \in Kinds
    BY <1>2 DEF Kinds, Sound
  <2>2. AllFrom(j, S, "keep alive", r.packets)
    BY <1>14, <2>1, SendSlotsPackets
  <2> QED BY <1>3, <2>2 DEF AllFrom
<1> HIDE DEF h
<1>8. ASSUME NEW k \in j.mappings, k.index = m.index PROVE k.token = p.token
  <2>1. PICK n \in u.mappings : k = g[n]
    BY <1>2 DEF Renews
  <2>2. n.index = m.index /\ k.token = n.token
    BY <1>2, <1>8, <2>1 DEF Renews
  <2>3. n = m
    BY <1>1, <2>2 DEF Sound, Ordered
  <2> QED BY <2>2, <2>3
<1>9. ASSUME NEW t \in Given, NEW i, Told(u, t, i) PROVE Told(r.server, t, i)
  <2>1. Told(j, t, i)
    BY <1>2, <1>6, <1>9, RenewsTold
  <2> QED BY <1>5, <1>6, <2>1, RenewsTold
<1>10. ASSUME NEW t \in Given, HasSlot(u, t) PROVE HasSlot(r.server, t)
  <2>1. HasSlot(j, t)
    BY <1>2, <1>6, <1>10, RenewsHasSlot
  <2> QED BY <1>5, <1>6, <2>1, RenewsHasSlot
<1>11. ASSUME NEW t \in Given, HasSlot(r.server, t) PROVE HasSlot(u, t) \/ p.token = t
  <2>1. HasSlot(j, t)
    BY <1>5, <1>6, <1>11, RenewsHadSlot
  <2>2. PICK y \in j.slots, n \in j.mappings : n.index = y.mapping /\ n.address = y.client /\ n.token = t
    BY <2>1 DEF HasSlot
  <2>3. CASE y = x
    BY <1>4, <1>8, <2>2, <2>3
  <2>4. CASE y \in u.slots
    <3>1. PICK k \in u.mappings : n = g[k]
      BY <1>2 DEF Renews
    <3>2. k.index = y.mapping /\ k.address = y.client /\ k.token = t
      BY <1>2, <2>2, <3>1 DEF Renews
    <3> QED BY <2>4, <3>2 DEF HasSlot
  <2> QED BY <1>3, <2>3, <2>4
<1>12. ASSUME NEW q \in r.packets
       PROVE  /\ q.to = q.token[1] /\ q.token = p.token /\ q.kind = "keep alive"
              /\ HasSlot(r.server, q.token) /\ Told(r.server, q.token, q.arg)
  <2>1. PICK k \in j.mappings : /\ k.index = x.mapping /\ k.address = x.client
                                /\ q.to = x.client /\ q.token = k.token /\ q.arg = x.index
    BY <1>7
  <2>2. q.token = p.token /\ q.to = q.token[1]
    BY <1>4, <1>8, <2>1
  <2>3. HasSlot(j, q.token)
    BY <1>3, <2>1 DEF HasSlot
  <2>4. HasSlot(r.server, q.token)
    BY <1>5, <1>6, <2>3, RenewsHasSlot
  <2>5. x \in r.server.slots
    BY <1>3, <1>5
  <2>6. Told(r.server, q.token, q.arg)
    BY <1>4, <1>5, <2>1, <2>2, <2>5, SlotTold
  <2> QED BY <1>7, <2>2, <2>4, <2>6
<1>13. ASSUME NEW T, KnownIn(u, T) PROVE KnownIn(r.server, T)
  BY <1>2, <1>5, <1>13, RenewsKnown
<1> QED BY <1>9, <1>10, <1>11, <1>12, <1>13 DEF Tells, r

LEMMA HearsTells ==
    ASSUME NEW u, Sound(u, Timeout), NEW p \in PacketRec, NEW r, Hears(u, p, r) PROVE Tells(u, p, r)
<1>1. PICK x \in SlotsOf(u, p.token[1]), m \in u.mappings :
          m.index = x.mapping /\ m.token = p.token /\ r = Quiet(FromSlot(u, x, p.kind))
  BY DEF Hears
<1> DEFINE f == FromSlot(u, x, p.kind)
<1>2. Timeout \in 0..Timeout /\ x \in u.slots /\ r.server = f /\ r.packets = {} /\ Seated(u) /\ p.token \in Given
  BY <1>1, TimeoutIs DEF SlotsOf, Quiet, Sound, PacketRec
<1>3. CASE p.kind = "disconnect"
  <2>1. f = Freed(u, x)
    BY <1>3 DEF FromSlot
  <2>2. /\ \A t \in Given : \A i : Told(u, t, i) => Told(f, t, i)
        /\ \A t \in Given : HasSlot(f, t) => HasSlot(u, t)
        /\ \A T : KnownIn(u, T) => KnownIn(f, T)
    BY <1>2, <2>1, FreedTold
  <2>3. \A t \in Given : HasSlot(u, t) /\ p.token # t => HasSlot(f, t)
    BY <1>1, <1>2, <2>1, FreedHasSlot
  <2> HIDE DEF f
  <2> QED BY <1>2, <1>3, <2>2, <2>3 DEF Tells
<1>4. CASE p.kind # "disconnect"
  <2> DEFINE g == [n \in u.mappings |-> n]
             z == [x EXCEPT !.heard = 0]
  <2>1. /\ f.slots = (u.slots \ {x}) \union {z} /\ f.mappings = u.mappings /\ f.used = u.used
        /\ z.index = x.index /\ z.client = x.client /\ z.mapping = x.mapping
    BY <1>2, <1>4, FromSlotIs
  <2> HIDE DEF f, z
  <2>2. Renews(g, u, f)
    BY <2>1 DEF Renews
  <2>3. Within(u, f) /\ Within(f, u)
    BY <1>2, <2>1 DEF Within
  <2> HIDE DEF g
  <2>4. \A t, i : Told(u, t, i) => Told(f, t, i)
    BY <2>2, <2>3, RenewsTold
  <2>5. \A t : HasSlot(u, t) <=> HasSlot(f, t)
    BY <2>2, <2>3, RenewsHasSlot, RenewsHadSlot
  <2>6. \A T : KnownIn(u, T) => KnownIn(f, T)
    BY <2>2, RenewsKnown
  <2> QED BY <1>2, <2>4, <2>5, <2>6 DEF Tells
<1> QED BY <1>3, <1>4

LEMMA ProcessPacketTells ==
    ASSUME NEW s, Sound(s, Timeout), NEW p \in PacketRec
    PROVE  Sound(ProcessPacket(s, p).server, Timeout) /\ Tells(s, p, ProcessPacket(s, p))
<1> DEFINE r == ProcessPacket(s, p)
           c == p.token[1]
<1>1. PICK u, g :
              /\ Sound(u, Timeout) /\ u.slots = s.slots /\ Renews(g, s, u)
              /\ LET q == ProcessPacket(s, p)
                     d == p.token[1] IN
                 /\ Sound(q.server, Timeout)
                 /\ \/ q = Quiet(u)
                    \/ Denies(u, p, q)
                    \/ AddsMapping(u, p, q)
                    \/ /\ p.kind = "response" /\ SlotsOf(u, d) = {} /\ ~Full(u)
                       /\ \E m \in Valid(u, d) : m.token = p.token /\ q = ConnectClient(u, d, m)
                    \/ Hears(u, p, q)
  BY ProcessPacketSound
<1>2. /\ Sound(r.server, Timeout)
      /\ \/ r = Quiet(u)
         \/ Denies(u, p, r)
         \/ AddsMapping(u, p, r)
         \/ /\ p.kind = "response" /\ SlotsOf(u, c) = {} /\ ~Full(u)
            /\ \E m \in Valid(u, c) : m.token = p.token /\ r = ConnectClient(u, c, m)
         \/ Hears(u, p, r)
  BY <1>1
<1> HIDE DEF r
<1>3. Tells(u, p, r)
  BY <1>1, <1>2, QuietTells, DeniesTells, AddsTells, ConnectsTells, HearsTells
<1>4. Within(s, u) /\ Within(u, s)
  BY <1>1, SameSlots
<1>5. /\ \A t, i : Told(s, t, i) => Told(u, t, i)
      /\ \A t : HasSlot(s, t) <=> HasSlot(u, t)
      /\ \A T : KnownIn(s, T) => KnownIn(u, T)
  BY <1>1, <1>4, RenewsTold, RenewsHasSlot, RenewsHadSlot, RenewsKnown
<1>6. Tells(s, p, r)
  BY <1>3, <1>5 DEF Tells
<1> QED BY <1>2, <1>6 DEF r

(***************************************************************************)
(* The handshake: what is on the way with the token of a client that is    *)
(* past its requests, and why the slot it is told of is the one it is in.  *)
(***************************************************************************)

Mine(c) == client[c].token
Past(c) == client[c].state \in {"sending response", "connected"}
Known == {t \in Given : t[2] <= tokens[t[1]]}

\* Tokens are used one after the other, and packets go to the server or to their client.
Numbered ==
    /\ \A c \in Clients : Mine(c) = IF Active(c) THEN <<c, tokens[c]>> ELSE NoToken
    /\ \A p \in Arriving : p.token \in Known
    /\ KnownIn(server, Known)
Routed ==
    \A p \in Arriving :
        \/ p.to = Server /\ p.kind \in {"request", "response", "keep alive", "disconnect"}
        \/ p.to = p.token[1] /\ p.kind \in {"denied", "challenge", "keep alive", "disconnect"}
AtHome == \A c \in Clients : Past(c) => client[c].address = 0

\* What was sent to the server since the last tick was sent by the last update.
Early(c) == \A p \in network : p.to = Server /\ p.token = Mine(c) => late[c] = 0
\* A client does not take its leave before it leaves.
Stayed(c) == \A p \in Arriving : p.to = Server /\ p.token = Mine(c) => p.kind # "disconnect"
\* Only who sent responses is welcomed.
Answered(c) ==
    (\E p \in Arriving : p.token = Mine(c) /\ p.kind \in {"response", "keep alive"}) \/ HasSlot(server, Mine(c))
       => Past(c) \/ client[c].address # 0
\* Requests that are overtaken are older than the tick, and are gone before the server
\* has its next update.
Asked(c, P) == \E p \in P : p.token = Mine(c) /\ p.kind = "request"
Answers(c) == {p \in Arriving : p.to = c /\ p.token = Mine(c) /\ p.kind = "keep alive"}
Served(c) == client[c].state = "connected" \/ Answers(c) # {} \/ HasSlot(server, Mine(c))
AskedBefore(c) ==
    Past(c) => ~Asked(c, network) /\ (Asked(c, Arriving) /\ Served(c) => late[Server] = 0)
\* The slots a client believes or is about to believe it is in.
Believes(c, i) == (client[c].state = "connected" /\ i = client[c].index) \/ \E p \in Answers(c) : i = p.arg
Informed(c) == Past(c) => \A i \in Nat : Believes(c, i) => Told(server, Mine(c), i)

Hand(c) == Early(c) /\ Stayed(c) /\ Answered(c) /\ AskedBefore(c) /\ Informed(c)
Handshake == Orderly /\ Numbered /\ Routed /\ AtHome /\ \A c \in Clients : Hand(c)

LEMMA NotGiven == NoToken \notin Given
BY GivenIs, ProcessAssumption DEF NoToken, Process

LEMMA KnownIs == \A t \in Known : t \in Given
BY DEF Known

LEMMA HasSlotGiven ==
    ASSUME NEW s, Seated(s), NEW t, HasSlot(s, t) PROVE t \in Given
<1>1. \E m \in s.mappings : m.token = t
  BY DEF HasSlot
<1> QED BY <1>1, MachineIs, MappingIs DEF Seated

\* A client whose token is nowhere.
LEMMA HandNew ==
    ASSUME NEW c \in Clients, client'[c].state \notin {"sending response", "connected"},
           \A p \in Arriving' : p.token # client'[c].token, ~HasSlot(server', client'[c].token)
    PROVE  Hand(c)'
BY DEF Hand, Early, Stayed, Answered, AskedBefore, Informed, Mine, Past, Arriving

\* A client that does nothing, in a step that takes nothing from it.
LEMMA HandKept ==
    ASSUME NEW c \in Clients, Hand(c), client'[c] = client[c], late'[c] = late[c],
           late'[Server] \in {0, late[Server]},
           \A p \in network' : p.token = Mine(c) => p \in network \/ (p.to # Server /\ p.kind = "disconnect"),
           \A p \in Arriving' : p.token = Mine(c) => p \in Arriving \/ (p.to # Server /\ p.kind = "disconnect"),
           HasSlot(server', Mine(c)) => HasSlot(server, Mine(c)),
           \A i \in Nat : Told(server, Mine(c), i) => Told(server', Mine(c), i)
    PROVE  Hand(c)'
<1>1. Mine(c)' = Mine(c) /\ Past(c)' = Past(c)
  BY DEF Mine, Past
<1>2. Early(c)' /\ Stayed(c)'
  BY <1>1 DEF Hand, Early, Stayed
<1>3. Answered(c)'
  BY <1>1 DEF Hand, Answered
<1>4. Asked(c, network)' => Asked(c, network)
  BY <1>1 DEF Asked
<1>5. Asked(c, Arriving)' => Asked(c, Arriving)
  BY <1>1 DEF Asked
<1>6. \A p \in Answers(c)' : p \in Answers(c)
  BY <1>1 DEF Answers
<1>7. Served(c)' => Served(c)
  BY <1>1, <1>6 DEF Served
<1>8. AskedBefore(c)'
  BY <1>1, <1>4, <1>5, <1>7 DEF Hand, AskedBefore
<1>9. Informed(c)'
  BY <1>1, <1>6 DEF Hand, Informed, Believes
<1> QED BY <1>2, <1>3, <1>8, <1>9 DEF Hand

\* What a client sends, and what is taken from the others on the way.
LEMMA SendIs ==
    ASSUME NEW gone, NEW packets, Send(gone, packets)
    PROVE  /\ \A p \in network' : p \in network \/ p \in packets
           /\ \A p \in Arriving' : p \in Arriving \/ p \in packets
           /\ \A p \in gone : p \notin packets => p \notin Arriving'
BY DEF Send, Arriving

\* Tokens: of whom a packet is.
LEMMA OfWhom ==
    ASSUME Numbered, NEW c \in Clients, NEW t \in Given, t = Mine(c) PROVE t[1] = c /\ t = <<c, tokens[c]>>
BY NotGiven DEF Numbered

Shake == Numbered /\ Routed /\ AtHome /\ \A c \in Clients : Hand(c)

\* Packets of client c to the server.
FromClient(c, packets) ==
    \A p \in packets : /\ p \in PacketRec /\ p.to = Server /\ p.token = Mine(c)
                       /\ p.kind \in {"request", "response", "keep alive", "disconnect"}

LEMMA SameServer ==
    ASSUME NEW d \in Clients, Hand(d), client'[d] = client[d], late'[d] = late[d], UNCHANGED server,
           late'[Server] = late[Server],
           \A p \in network' : p.token = Mine(d) => p \in network,
           \A p \in Arriving' : p.token = Mine(d) => p \in Arriving
    PROVE  Hand(d)'
<1>1. HasSlot(server', Mine(d)) => HasSlot(server, Mine(d))
  OBVIOUS
<1>2. \A i \in Nat : Told(server, Mine(d), i) => Told(server', Mine(d), i)
  OBVIOUS
<1>3. \A p \in network' : p.token = Mine(d) => p \in network \/ (p.to # Server /\ p.kind = "disconnect")
  OBVIOUS
<1>4. \A p \in Arriving' : p.token = Mine(d) => p \in Arriving \/ (p.to # Server /\ p.kind = "disconnect")
  OBVIOUS
<1>5. late'[Server] \in {0, late[Server]}
  OBVIOUS
<1> QED BY <1>1, <1>2, <1>3, <1>4, <1>5, HandKept

\* What a step of client c leaves to the others.
LEMMA Others ==
    ASSUME Handshake, NEW c \in Clients, Active(c), NEW gone, NEW packets, Send(gone, packets),
           FromClient(c, packets), UNCHANGED <<server, tokens>>, late'[Server] = late[Server],
           \A d \in Clients : d # c => client'[d] = client[d] /\ late'[d] = late[d]
    PROVE  /\ \A d \in Clients : d # c => Hand(d)'
           /\ Routed' /\ (\A p \in Arriving' : p.token \in Known') /\ KnownIn(server, Known)'
<1>1. \A p \in network' : p \in network \/ p \in packets
  BY SendIs
<1>2. \A p \in Arriving' : p \in Arriving \/ p \in packets
  BY SendIs
<1>3. \A p \in packets : p.token \in Given /\ p.token = Mine(c) /\ p.token[1] = c /\ p.token = <<c, tokens[c]>>
  BY OfWhom DEF FromClient, Handshake, PacketRec
<1>4. ASSUME NEW d \in Clients, d # c PROVE Hand(d)'
  <2>1. \A p \in packets : p.token # Mine(d)
    <3> SUFFICES ASSUME NEW p \in packets, p.token = Mine(d) PROVE FALSE
      OBVIOUS
    <3>1. p.token[1] = d
      BY <1>3, OfWhom DEF Handshake
    <3> QED BY <1>3, <1>4, <3>1
  <2>2. \A p \in network' : p.token = Mine(d) => p \in network
    BY <1>1, <2>1
  <2>3. \A p \in Arriving' : p.token = Mine(d) => p \in Arriving
    BY <1>2, <2>1
  <2> QED BY <1>4, <2>2, <2>3, SameServer DEF Handshake
<1>5. Routed'
  BY <1>2 DEF Handshake, Routed, FromClient
<1>6. Known' = Known
  BY DEF Known
<1>7. \A p \in packets : p.token \in Known
  <2>1. \A p \in packets : p.token[2] = tokens[c] /\ tokens[c] \in Nat
    BY <1>3 DEF Handshake, Orderly, Types, ClientTypes
  <2> QED BY <1>3, <2>1 DEF Known
<1>8. (\A p \in Arriving' : p.token \in Known') /\ KnownIn(server, Known)'
  BY <1>2, <1>6, <1>7 DEF Handshake, Numbered
<1> QED BY <1>4, <1>5, <1>8

LEMMA LeaveShakes ==
    ASSUME Handshake, NEW c \in Clients, Active(c), NEW state \in Ended, Leave(c, state),
           NEW gone, NEW packets, Send(gone, packets), FromClient(c, packets), UNCHANGED <<server, tokens>>
    PROVE  Shake'
<1>1. state \in States
  BY DEF States
<1>2. client'[c].state = state /\ client'[c].token = NoToken
  BY <1>1, ResetIs DEF Leave, Handshake, Orderly, Types, ClientTypes
<1>3. \A d \in Clients : d # c => client'[d] = client[d] /\ late'[d] = late[d]
  BY DEF Leave, Handshake, Orderly, Types, ClientTypes, LateTypes
<1>4. late'[Server] = late[Server]
  BY ProcessAssumption DEF Leave, Handshake, Orderly, Types, LateTypes
<1>5. /\ \A d \in Clients : d # c => Hand(d)'
      /\ Routed' /\ (\A p \in Arriving' : p.token \in Known') /\ KnownIn(server, Known)'
  BY <1>3, <1>4, Others
<1>6. Hand(c)'
  <2>1. \A p \in Arriving' : p.token # NoToken
    BY <1>5, KnownIs, NotGiven DEF Known
  <2>2. ~HasSlot(server', NoToken)
    BY HasSlotGiven, NotGiven DEF Handshake, Orderly, Types
  <2>3. client'[c].state \notin {"sending response", "connected"}
    BY <1>2 DEF Ended
  <2> QED BY <1>2, <2>1, <2>2, <2>3, HandNew
<1>7. AtHome'
  BY <1>2, <1>3 DEF Handshake, AtHome, Past, Ended
<1>8. Numbered'
  <2>1. ~Active(c)' /\ Mine(c)' = NoToken
    BY <1>2 DEF Active, Mine
  <2>2. \A d \in Clients : d # c => Active(d)' = Active(d) /\ Mine(d)' = Mine(d)
    BY <1>3 DEF Active, Mine
  <2> QED BY <1>5, <2>1, <2>2 DEF Handshake, Numbered
<1> QED BY <1>5, <1>6, <1>7, <1>8 DEF Shake

LEMMA DisconnectShakes == ASSUME Handshake, NEW c \in Clients, Disconnect(c) PROVE Shake'
<1>1. client[c] \in ClientRec /\ client[c].token \in Given
  BY DEF Handshake, Orderly, Types, ClientTypes, Disconnect
<1>2. FromClient(c, ToServer(client[c], "disconnect"))
  <2>1. "disconnect" \in Kinds
    BY DEF Kinds
  <2>2. \A p \in ToServer(client[c], "disconnect") :
           p \in PacketRec /\ p.to = Server /\ p.kind = "disconnect" /\ p.token = client[c].token
    BY <1>1, <2>1, ToServerIs
  <2> QED BY <2>2 DEF FromClient, Mine
<1>3. "disconnected" \in Ended
  BY DEF Ended
<1> QED BY <1>2, <1>3, LeaveShakes DEF Disconnect

LEMMA CrashShakes == ASSUME Handshake, NEW c \in Clients, Crash(c) PROVE Shake'
<1>1. FromClient(c, {}) /\ "disconnected" \in Ended
  BY DEF FromClient, Ended
<1> QED BY <1>1, LeaveShakes DEF Crash

LEMMA ConnectShakes == ASSUME Handshake, NEW c \in Clients, Connect(c) PROVE Shake'
<1> DEFINE n == tokens[c] + 1
           t == <<c, n>>
<1>1. /\ tokens[c] \in Nat /\ tokens' = [tokens EXCEPT ![c] = n] /\ tokens'[c] = n
      /\ \A d \in Clients : d # c => tokens'[d] = tokens[d]
  BY DEF Connect, Handshake, Orderly, Types, ClientTypes
<1>2. client'[c].state = "sending request" /\ client'[c].token = t
  <2>1. "sending request" \in States
    BY DEF States, Connecting
  <2>2. Reset("sending request") \in ClientRec /\ Reset("sending request").state = "sending request"
    BY <2>1, ResetIs
  <2>3. client'[c] = [Reset("sending request") EXCEPT !.token = t]
    BY <1>1 DEF Connect, Handshake, Orderly, Types, ClientTypes
  <2> QED BY <2>2, <2>3 DEF ClientRec
<1>3. \A d \in Clients : d # c => client'[d] = client[d]
  BY DEF Connect, Handshake, Orderly, Types, ClientTypes
<1>4. UNCHANGED <<server, network, delayed, late>> /\ UNCHANGED Arriving
  BY DEF Connect, Arriving
<1>5. t \notin Known
  <2>1. t[1] = c /\ t[2] = n
    OBVIOUS
  <2> QED BY <1>1, <2>1 DEF Known
<1>6. \A u \in Known : u \in Known'
  <2> SUFFICES ASSUME NEW u \in Given, u[2] <= tokens[u[1]] PROVE u[2] <= tokens'[u[1]]
    BY DEF Known
  <2>1. u[1] \in Clients /\ u[2] \in Nat
    BY GivenIs
  <2>2. CASE u[1] = c
    BY <1>1, <2>1, <2>2
  <2>3. CASE u[1] # c
    BY <1>1, <2>1, <2>3
  <2> QED BY <2>2, <2>3
<1> HIDE DEF t, n
<1>7. Hand(c)'
  <2>1. \A p \in Arriving' : p.token # t
    BY <1>4, <1>5 DEF Handshake, Numbered
  <2>2. ~HasSlot(server', t)
    BY <1>4, <1>5 DEF Handshake, Numbered, KnownIn, HasSlot
  <2> QED BY <1>2, <2>1, <2>2, HandNew
<1>8. ASSUME NEW d \in Clients, d # c PROVE Hand(d)'
  <2>1. client'[d] = client[d] /\ late'[d] = late[d] /\ late'[Server] = late[Server]
    BY <1>3, <1>4, <1>8
  <2>2. (\A p \in network' : p \in network) /\ (\A p \in Arriving' : p \in Arriving) /\ UNCHANGED server
    BY <1>4
  <2> QED BY <2>1, <2>2, SameServer DEF Handshake
<1>9. AtHome' /\ Routed'
  BY <1>2, <1>3, <1>4 DEF Handshake, AtHome, Past, Routed
<1>10. Numbered'
  <2>1. Active(c)' /\ Mine(c)' = <<c, tokens'[c]>>
    BY <1>1, <1>2 DEF Active, Mine, Ended, t
  <2>2. \A d \in Clients : d # c => Active(d)' = Active(d) /\ Mine(d)' = Mine(d)
    BY <1>3 DEF Active, Mine
  <2>3. (\A p \in Arriving' : p.token \in Known') /\ KnownIn(server', Known')
    BY <1>4, <1>6 DEF Handshake, Numbered, KnownIn
  <2> QED BY <1>1, <2>1, <2>2, <2>3 DEF Handshake, Numbered
<1> QED BY <1>7, <1>8, <1>9, <1>10 DEF Shake

(***************************************************************************)
(* The update of a client.                                                 *)
(***************************************************************************)

\* What client c comes to believe of its slot it was told, and it does not ask again.
LEMMA ReceivedBelieves ==
    ASSUME NEW k \in ClientRec, NEW p \in PacketRec, NEW I,
           k.state = "connected" => k.index \in I, p.kind = "keep alive" => p.arg \in I
    PROVE  LET n == Received(k, p) IN
           /\ n.state = "connected" => n.index \in I
           /\ k.state \in {"sending response", "connected"} => n.state \in {"sending response", "connected"}
<1> DEFINE n == Received(k, p)
<1>1. CASE p.kind = "denied" /\ k.state \in Connecting
  <2>1. n = [k EXCEPT !.leaving = "error", !.heard = 0]
    BY <1>1 DEF Received, Connecting
  <2> QED BY <2>1 DEF ClientRec
<1>2. CASE p.kind = "challenge" /\ k.state = "sending request"
  <2>1. n = [k EXCEPT !.state = "sending response", !.key = p.arg, !.heard = 0]
    BY <1>2 DEF Received
  <2> QED BY <2>1 DEF ClientRec
<1>3. CASE p.kind = "keep alive" /\ k.state = "connected"
  <2>1. n = [k EXCEPT !.heard = 0]
    BY <1>3 DEF Received, Connecting
  <2> QED BY <2>1 DEF ClientRec
<1>4. CASE p.kind = "keep alive" /\ k.state = "sending response"
  <2>1. n = [k EXCEPT !.state = "connected", !.index = p.arg, !.heard = 0]
    BY <1>4 DEF Received
  <2> QED BY <1>4, <2>1 DEF ClientRec
<1>5. CASE p.kind = "disconnect" /\ k.state = "connected"
  <2>1. n = [k EXCEPT !.leaving = "disconnected", !.heard = 0]
    BY <1>5 DEF Received, Connecting
  <2> QED BY <2>1 DEF ClientRec
<1>6. CASE /\ ~(p.kind = "denied" /\ k.state \in Connecting)
           /\ ~(p.kind = "challenge" /\ k.state = "sending request")
           /\ ~(p.kind = "keep alive" /\ k.state = "connected")
           /\ ~(p.kind = "keep alive" /\ k.state = "sending response")
           /\ ~(p.kind = "disconnect" /\ k.state = "connected")
  <2>1. n = k
    BY <1>6 DEF Received
  <2> QED BY <2>1
<1> QED BY <1>1, <1>2, <1>3, <1>4, <1>5, <1>6

LEMMA ReceivingBelieves ==
    ASSUME NEW k \in ClientRec, k.state \notin Ended, NEW P \in SUBSET PacketRec, NEW b \in Batches(P), NEW I,
           k.state = "connected" => k.index \in I, \A p \in P : p.kind = "keep alive" => p.arg \in I
    PROVE  LET n == FoldLeft(Received, k, b) IN
           /\ n.state = "connected" => n.index \in I
           /\ k.state \in {"sending response", "connected"} => n.state \in {"sending response", "connected"}
<1> DEFINE S == {n \in ClientRec :
                   /\ n.state = "connected" => n.index \in I
                   /\ k.state \in {"sending response", "connected"} => n.state \in {"sending response", "connected"}}
<1>1. PICK m \in Nat : DOMAIN b = 1..m /\ \A i \in 1..m : b[i] \in P
  BY BatchIs
<1>2. k \in S
  OBVIOUS
<1>3. ASSUME NEW n \in S, NEW i \in 1..m PROVE Received(n, b[i]) \in S
  <2>1. b[i] \in PacketRec /\ (b[i].kind = "keep alive" => b[i].arg \in I)
    BY <1>1
  <2>2. Received(n, b[i]) \in ClientRec
    BY <2>1, ReceivedType
  <2> QED BY <2>1, <2>2, ReceivedBelieves
<1>4. Receiving!Folded(k, b) \in S
  <2> HIDE DEF S
  <2> QED BY <1>1, <1>2, <1>3, Receiving!FoldType
<1> QED BY <1>4, ReceivedIs

\* The update of a client that goes on: what it believes it believed, or it was on the way.
LEMMA UpdateBelieves ==
    ASSUME Handshake, NEW c \in Clients, client[c].token \in Given, client[c].state \notin Ended,
           NEW batch \in Batches(ToClient(c)), NEW k \in ClientRec,
           k = IF client[c].address = 0 THEN FoldLeft(Received, Begins(c), batch) ELSE Begins(c)
    PROVE  /\ k.state = "connected" => Believes(c, k.index)
           /\ Past(c) => k.state \in {"sending response", "connected"}
           /\ client[c].address # 0 => k.state = client[c].state
<1> DEFINE I == {i \in Nat : Believes(c, i)}
           b == Begins(c)
           past == {"sending response", "connected"}
<1>1. /\ b \in ClientRec /\ b.state = client[c].state /\ b.index = client[c].index
  BY BeginsIs DEF Handshake, Orderly
<1>2. b.index \in Nat
  BY <1>1, ClientIs
<1>3. b.state = "connected" => b.index \in I
  BY <1>1, <1>2 DEF Believes
<1>4. ToClient(c) \in SUBSET PacketRec
  BY DEF ToClient, Arriving, Handshake, Orderly, Types, PacketTypes
<1>5. \A p \in ToClient(c) : p.kind = "keep alive" => p.arg \in I
  <2> SUFFICES ASSUME NEW p \in ToClient(c), p.kind = "keep alive" PROVE p.arg \in I
    OBVIOUS
  <2>1. p \in Answers(c)
    BY DEF ToClient, Answers, Mine
  <2>2. p.arg \in Nat
    BY <1>4 DEF PacketRec
  <2> QED BY <2>1, <2>2 DEF Believes
<1> HIDE DEF I, b
<1>6. CASE client[c].address = 0
  <2> DEFINE n == FoldLeft(Received, b, batch)
  <2>1. /\ n.state = "connected" => n.index \in I
        /\ b.state \in past => n.state \in past
    BY <1>1, <1>3, <1>4, <1>5, ReceivingBelieves
  <2>2. k = n
    BY <1>6 DEF b
  <2> HIDE DEF n
  <2>3. k.state = "connected" => Believes(c, k.index)
    BY <2>1, <2>2 DEF I
  <2> QED BY <1>1, <1>6, <2>1, <2>2, <2>3 DEF Past
<1>7. CASE client[c].address # 0
  <2>1. k = b
    BY <1>7 DEF b
  <2> QED BY <1>1, <1>3, <2>1 DEF I, Past
<1> QED BY <1>6, <1>7

LEMMA BelievesServed ==
    ASSUME NEW c \in Clients, NEW i, Believes(c, i) PROVE Served(c)
BY DEF Believes, Served

\* Who is not past its requests, and talks to this server, is not served.
LEMMA NotServed ==
    ASSUME Handshake, NEW c \in Clients, client[c].address = 0, ~Past(c) PROVE ~Served(c)
BY DEF Handshake, Hand, Answered, Answers, Served, Past

LEMMA UpdateShakes == ASSUME Handshake, NEW c \in Clients, ClientUpdate(c) PROVE Shake'
<1>1. PICK batch \in Batches(ToClient(c)), k \in ClientRec :
              /\ k = IF client[c].address = 0 THEN FoldLeft(Received, Begins(c), batch) ELSE Begins(c)
              /\ k.token = client[c].token /\ k.token \in Given /\ k.address = client[c].address
              /\ k.state \notin Ended
              /\ Send(IF client'[c].state \in Ended THEN Unread(c) ELSE Gone(batch), ClientSends(k))
              /\ Stays(c, k) \/ Tries(c, k) \/ Leaves(c)
              /\ UNCHANGED <<server, tokens>>
  BY ClientUpdateIs DEF Handshake, Orderly
<1>2. Active(c) /\ client[c].state \notin Ended /\ late[c] > 0 /\ late[c] \in Nat
  BY DEF ClientUpdate, Active, Handshake, Orderly, Types, LateTypes, Process
<1>3. /\ k.state = "connected" => Believes(c, k.index)
      /\ Past(c) => k.state \in {"sending response", "connected"}
      /\ client[c].address # 0 => k.state = client[c].state
  BY <1>1, <1>2, UpdateBelieves
<1>4. \A p \in ClientSends(k) :
         /\ p \in PacketRec /\ p.to = Server /\ p.token = Mine(c)
         /\ p.kind = CASE k.state = "sending request" -> "request"
                       [] k.state = "sending response" -> "response"
                       [] k.state = "connected" -> "keep alive"
  BY <1>1, ClientSendsIs DEF Mine
<1>5. k.state \in {"sending request", "sending response", "connected"}
  BY <1>1, ClientIs DEF States, Connecting, Ended
<1>6. \A p \in ClientSends(k) :
         /\ p \in PacketRec /\ p.to = Server /\ p.token = Mine(c)
         /\ p.kind = "request" => k.state = "sending request"
         /\ p.kind \in {"response", "keep alive"} => k.state \in {"sending response", "connected"}
         /\ p.kind \in {"request", "response", "keep alive"}
  BY <1>4, <1>5
<1> DEFINE packets == ClientSends(k)
           gone == IF client'[c].state \in Ended THEN Unread(c) ELSE Gone(batch)
<1>7. FromClient(c, packets)
  BY <1>6 DEF FromClient
<1>8. Send(gone, packets)
  BY <1>1
<1> HIDE DEF packets, gone
<1>9. CASE Leaves(c)
  BY <1>1, <1>2, <1>7, <1>8, <1>9, LeaveShakes DEF Leaves
<1>10. CASE Stays(c, k) \/ Tries(c, k)
  <2>1. \E n \in ClientRec : client' = [client EXCEPT ![c] = n]
    BY <1>10, OnwardIs DEF Stays, Tries
  <2>2. late' = [late EXCEPT ![c] = 0]
    BY <1>10 DEF Stays, Tries
  <2>3. late'[c] = 0 /\ late'[Server] = late[Server]
    BY <2>2, ProcessAssumption DEF Handshake, Orderly, Types, LateTypes, Process
  <2>4. \A d \in Clients : d # c => client'[d] = client[d] /\ late'[d] = late[d]
    BY <2>1, <2>2 DEF Handshake, Orderly, Types, ClientTypes, LateTypes, Process
  <2>5. /\ \A d \in Clients : d # c => Hand(d)'
        /\ Routed' /\ (\A p \in Arriving' : p.token \in Known') /\ KnownIn(server, Known)'
    BY <1>1, <1>2, <1>7, <1>8, <2>3, <2>4, Others
  <2>6. \/ client'[c] = k
        \/ client'[c] = Onward(k)
    BY <1>10 DEF Stays, Tries, Handshake, Orderly, Types, ClientTypes
  <2>7. Mine(c)' = Mine(c) /\ Active(c)'
    <3>1. Onward(k).token = k.token /\ Onward(k).state = "sending request"
      BY OnwardIs
    <3> QED BY <1>1, <2>6, <3>1 DEF Mine, Active, Ended
  <2>8. Numbered'
    <3>1. \A d \in Clients : d # c => Active(d)' = Active(d) /\ Mine(d)' = Mine(d)
      BY <2>4 DEF Active, Mine
    <3>2. Mine(c) = <<c, tokens[c]>>
      BY <1>2 DEF Handshake, Numbered
    <3> QED BY <1>1, <2>5, <2>7, <3>1, <3>2 DEF Handshake, Numbered
  <2>9. /\ \A p \in network' : p \in network \/ p \in packets
        /\ \A p \in Arriving' : p \in Arriving \/ p \in packets
    BY <1>8, SendIs
  <2>10. Early(c)'
    BY <2>3 DEF Early
  <2>11. Stayed(c)'
    BY <1>6, <2>7, <2>9 DEF Stayed, Handshake, Hand, packets
  <2>12. CASE client'[c] = Onward(k)
    <3>1. client'[c].state = "sending request" /\ client'[c].address # 0
      <4>1. Onward(k).address = k.address + 1 /\ Onward(k).state = "sending request"
        BY OnwardIs
      <4>2. k.address + 1 # 0
        BY ClientIs
      <4>3. Onward(k).address # 0
        BY <4>1, <4>2
      <4> QED BY <2>12, <4>1, <4>3
    <3>2. ~Past(c)'
      BY <3>1 DEF Past
    <3>3. Answered(c)' /\ AskedBefore(c)' /\ Informed(c)'
      BY <3>1, <3>2 DEF Answered, AskedBefore, Informed
    <3>4. AtHome'
      BY <2>4, <3>2 DEF Handshake, AtHome, Past
    <3> QED BY <2>5, <2>8, <2>10, <2>11, <3>3, <3>4 DEF Shake, Hand
  <2>13. CASE client'[c] = k
    <3>1. Past(c)' <=> k.state \in {"sending response", "connected"}
      BY <2>13 DEF Past
    <3>2. Past(c) => Past(c)'
      BY <1>3, <3>1
    <3>3. Past(c)' => client[c].address = 0
      BY <1>3, <3>1 DEF Handshake, AtHome, Past
    <3>4. AtHome'
      <4>1. Past(c)' => client'[c].address = 0
        BY <1>1, <2>13, <3>3
      <4>2. \A d \in Clients : d # c => (Past(d)' => client'[d].address = 0)
        BY <2>4 DEF Handshake, AtHome, Past
      <4>3. \A d \in Clients : Past(d)' => client'[d].address = 0
        BY <4>1, <4>2
      <4> QED BY <4>3 DEF AtHome
    <3>5. Answered(c)'
      <4>1. ASSUME NEW p \in Arriving', p.token = Mine(c), p.kind \in {"response", "keep alive"}
            PROVE  Past(c)' \/ client[c].address # 0
        <5>1. CASE p \in Arriving
          BY <3>2, <4>1, <5>1 DEF Handshake, Hand, Answered
        <5>2. CASE p \in packets
          BY <1>6, <3>1, <4>1, <5>2 DEF packets
        <5> QED BY <2>9, <5>1, <5>2
      <4>2. HasSlot(server, Mine(c)) => Past(c)' \/ client[c].address # 0
        BY <3>2 DEF Handshake, Hand, Answered
      <4>3. client'[c].address = client[c].address /\ server' = server
        BY <1>1, <2>13
      <4> QED BY <2>7, <4>1, <4>2, <4>3 DEF Answered
    <3>6. Past(c)' => ~Asked(c, network)'
      <4> SUFFICES ASSUME Past(c)', NEW p \in network', p.token = Mine(c), p.kind = "request" PROVE FALSE
        BY <2>7 DEF Asked
      <4>1. p \notin packets
        BY <1>6, <3>1 DEF packets
      <4>2. p \in network /\ p \in Arriving
        BY <2>9, <4>1 DEF Arriving
      <4>3. p.to = Server
        BY <4>2 DEF Handshake, Routed
      <4>4. late[c] = 0
        BY <4>2, <4>3 DEF Handshake, Hand, Early
      <4> QED BY <1>2, <4>4
    <3>7. \A p \in Answers(c)' : p \in Answers(c)
      <4> SUFFICES ASSUME NEW p \in Arriving', p.to = c, p.token = Mine(c), p.kind = "keep alive"
                   PROVE  p \in Answers(c)
        BY <2>7 DEF Answers
      <4>1. p \notin packets
        BY <1>6, ProcessAssumption DEF packets
      <4> QED BY <2>9, <4>1 DEF Answers
    <3>8. ASSUME NEW i, Believes(c, i)' PROVE Believes(c, i)
      <4>1. CASE client'[c].state = "connected" /\ i = client'[c].index
        BY <1>3, <2>13, <4>1
      <4>2. CASE \E p \in Answers(c)' : i = p.arg
        BY <3>7, <4>2 DEF Believes
      <4> QED BY <3>8, <4>1, <4>2 DEF Believes
    <3>9. Served(c)' => Served(c)
      <4>1. client'[c].state = "connected" => Served(c)
        BY <1>3, <2>13, BelievesServed
      <4> QED BY <1>1, <2>7, <3>7, <4>1 DEF Served
    <3>10. Past(c)' /\ Served(c) => Past(c)
      BY <3>3, NotServed
    <3>11. Past(c) /\ Asked(c, Arriving)' => Asked(c, Arriving)
      <4> SUFFICES ASSUME Past(c), NEW p \in Arriving', p.token = Mine(c), p.kind = "request"
                   PROVE  p \in Arriving
        BY <2>7 DEF Asked
      <4>1. p \notin packets
        BY <1>6, <3>1, <3>2 DEF packets
      <4> QED BY <2>9, <4>1
    <3>12. AskedBefore(c)'
      <4>1. Past(c)' /\ Asked(c, Arriving)' /\ Served(c)' => late[Server] = 0
        BY <3>9, <3>10, <3>11 DEF Handshake, Hand, AskedBefore
      <4> QED BY <2>3, <3>6, <4>1 DEF AskedBefore
    <3>13. Informed(c)'
      <4> SUFFICES ASSUME Past(c)', NEW i \in Nat, Believes(c, i)' PROVE Told(server, Mine(c), i)
        BY <1>1, <2>7 DEF Informed
      <4>1. Believes(c, i) /\ Past(c)
        BY <3>8, <3>10, BelievesServed
      <4> QED BY <4>1 DEF Handshake, Hand, Informed
    <3> QED BY <2>5, <2>8, <2>10, <2>11, <3>4, <3>5, <3>12, <3>13 DEF Shake, Hand
  <2> QED BY <2>6, <2>12, <2>13
<1> QED BY <1>1, <1>9, <1>10

(***************************************************************************)
(* The server's steps.                                                     *)
(***************************************************************************)

\* Tokens of which nothing is known.
LEMMA NoTokenTold ==
    ASSUME NEW s, Seated(s) PROVE (\A i : Told(s, NoToken, i)) /\ ~HasSlot(s, NoToken)
<1>1. \A m \in s.mappings : m.token # NoToken
  BY MachineIs, MappingIs, NotGiven DEF Seated
<1> QED BY <1>1 DEF Told, HasSlot

LEMMA MineIs == ASSUME Handshake, NEW c \in Clients PROVE Mine(c) \in Given \/ Mine(c) = NoToken
BY DEF Handshake, Orderly, Types, ClientTypes, Numbered, Mine

LEMMA PastMine == ASSUME Handshake, NEW c \in Clients, Past(c) PROVE Mine(c) \in Given
BY DEF Handshake, Orderly, Types, ClientTypes, Past, Mine, Active, Ended

\* What the server sends to its slots.
Addressed(P) == \A q \in P : q.to = q.token[1] /\ q.to # Server /\ q.token \in Known

LEMMA SlotsAddressed ==
    ASSUME NEW s, NEW ticks, Sound(s, ticks), KnownIn(s, Known), NEW S \in SUBSET s.slots,
           NEW kind, NEW P, AllFrom(s, S, kind, P)
    PROVE  /\ Addressed(P)
           /\ \A q \in P : /\ q.kind = kind /\ HasSlot(s, q.token)
                           /\ \E x \in S : q.token[1] = x.client /\ q.arg = x.index
<1> SUFFICES ASSUME NEW q \in P
             PROVE  /\ q.to = q.token[1] /\ q.to # Server /\ q.token \in Known /\ q.kind = kind
                    /\ HasSlot(s, q.token) /\ \E x \in S : q.token[1] = x.client /\ q.arg = x.index
  BY DEF Addressed
<1>1. PICK x \in S, m \in s.mappings :
          /\ m.index = x.mapping /\ m.address = x.client
          /\ q.to = x.client /\ q.token = m.token /\ q.arg = x.index
  BY DEF AllFrom
<1>2. x \in s.slots /\ x.client \in Clients /\ x.client # Nobody /\ x.client # Server
  BY MachineIs, SlotIs, ProcessAssumption DEF Sound, Seated, Process
<1>3. m.token[1] = x.client
  BY <1>1, <1>2 DEF Sound, Ordered
<1>4. HasSlot(s, q.token)
  BY <1>1, <1>2 DEF HasSlot
<1> QED BY <1>1, <1>2, <1>3, <1>4 DEF AllFrom, KnownIn

\* The server forgets a token, and says no more than that.
LEMMA ForgetShakes ==
    ASSUME Handshake, Seated(server'), UNCHANGED <<client, tokens>>,
           \A c \in Clients : late'[c] = late[c], late'[Server] \in {0, late[Server]},
           NEW packets, Send({}, packets), Addressed(packets), \A q \in packets : q.kind = "disconnect",
           \A t \in Given : HasSlot(server', t) => HasSlot(server, t),
           \A t \in Given : \A i : Told(server, t, i) => Told(server', t, i),
           KnownIn(server', Known)
    PROVE  Shake'
<1>1. /\ \A p \in network' : p \in network \/ p \in packets
      /\ \A p \in Arriving' : p \in Arriving \/ p \in packets
  BY SendIs
<1>2. ASSUME NEW c \in Clients PROVE Hand(c)'
  <2>1. HasSlot(server', Mine(c)) => HasSlot(server, Mine(c))
    BY MineIs, NoTokenTold
  <2>2. \A i \in Nat : Told(server, Mine(c), i) => Told(server', Mine(c), i)
    BY MineIs, NoTokenTold
  <2>3. \A p \in network' : p.token = Mine(c) => p \in network \/ (p.to # Server /\ p.kind = "disconnect")
    BY <1>1 DEF Addressed
  <2>4. \A p \in Arriving' : p.token = Mine(c) => p \in Arriving \/ (p.to # Server /\ p.kind = "disconnect")
    BY <1>1 DEF Addressed
  <2>5. client'[c] = client[c] /\ late'[c] = late[c] /\ Hand(c)
    BY DEF Handshake
  <2> QED BY <2>1, <2>2, <2>3, <2>4, <2>5, HandKept
<1>3. Routed'
  BY <1>1 DEF Handshake, Routed, Addressed
<1>4. Known' = Known /\ \A c \in Clients : Mine(c)' = Mine(c) /\ Active(c)' = Active(c) /\ Past(c)' = Past(c)
  BY DEF Known, Mine, Active, Past
<1>5. \A p \in Arriving' : p.token \in Known
  BY <1>1 DEF Addressed, Handshake, Numbered
<1>6. Numbered'
  BY <1>4, <1>5 DEF Handshake, Numbered
<1>7. AtHome'
  BY <1>4 DEF Handshake, AtHome
<1> QED BY <1>2, <1>3, <1>6, <1>7 DEF Shake

LEMMA ServerDisconnectShakes == ASSUME Handshake, NEW i, ServerDisconnect(i) PROVE Shake'
<1>1. PICK x \in server.slots :
          /\ server' = Freed(SendSlots(server, {x}, "disconnect").server, x)
          /\ Send({}, SendSlots(server, {x}, "disconnect").packets)
  BY DEF ServerDisconnect
<1> DEFINE S == {x}
           u == SendSlots(server, S, "disconnect").server
           packets == SendSlots(server, S, "disconnect").packets
           g == TouchesOf(server, TouchedBy(server, S))
<1>2. S \in SUBSET server.slots /\ 0 \in 0..Timeout /\ Sound(server, 0) /\ Seated(server) /\ "disconnect" \in Kinds
  BY TimeoutIs DEF Handshake, Orderly, Sound, Kinds
<1> HIDE DEF S
<1>3. Sound(u, 0) /\ u.slots = server.slots /\ Renews(g, server, u)
  BY <1>2, SendSlotsSound
<1>4. AllFrom(server, S, "disconnect", packets)
  BY <1>2, SendSlotsPackets
<1>5. server' = Freed(u, x) /\ Send({}, packets)
  BY <1>1 DEF S
<1> HIDE DEF u, packets, g
<1>6. KnownIn(server, Known)
  BY DEF Handshake, Numbered
<1>7. Addressed(packets) /\ \A q \in packets : q.kind = "disconnect"
  BY <1>2, <1>4, <1>6, SlotsAddressed
<1>8. Within(server, u) /\ Within(u, server)
  BY <1>3, SameSlots
<1>9. \A t \in Given : \A j : Told(server, t, j) => Told(server', t, j)
  <2>1. \A t, j : Told(server, t, j) => Told(u, t, j)
    BY <1>3, <1>8, RenewsTold
  <2> QED BY <1>2, <1>3, <1>5, <2>1, FreedTold
<1>10. \A t \in Given : HasSlot(server', t) => HasSlot(server, t)
  <2>1. \A t : HasSlot(u, t) => HasSlot(server, t)
    BY <1>3, <1>8, RenewsHadSlot
  <2> QED BY <1>2, <1>3, <1>5, <2>1, FreedTold
<1>11. KnownIn(server', Known)
  BY <1>2, <1>3, <1>5, <1>6, FreedTold, RenewsKnown
<1>12. Seated(server')
  BY <1>3, <1>5, FreedIs DEF Sound
<1> QED BY <1>5, <1>7, <1>9, <1>10, <1>11, <1>12, ForgetShakes DEF ServerDisconnect

LEMMA EmptyTold ==
    ASSUME NEW s, s.slots = {}, s.mappings = {}
    PROVE  /\ \A t, i : Told(s, t, i)
           /\ \A t : ~HasSlot(s, t)
           /\ \A T : KnownIn(s, T)
BY DEF Told, HasSlot, KnownIn

LEMMA ServerStopShakes == ASSUME Handshake, NEW killed \in BOOLEAN, ServerStop(killed) PROVE Shake'
<1> DEFINE S == server.slots
           sent == SendSlots(server, S, "disconnect").packets
           packets == IF killed THEN {} ELSE sent
<1>1. server.key \in 1..Len(NumSlots) /\ S \in SUBSET server.slots /\ Sound(server, 0) /\ "disconnect" \in Kinds
      /\ KnownIn(server, Known) /\ Seated(server)
  BY MachineIs DEF Handshake, Numbered, Orderly, Sound, Seated, Kinds
<1>2. Seated(server') /\ server'.slots = {} /\ server'.mappings = {}
  BY <1>1, StoppedIs DEF ServerStop
<1>3. Send({}, packets)
  BY DEF ServerStop
<1>4. AllFrom(server, S, "disconnect", sent)
  BY <1>1, SendSlotsPackets
<1> HIDE DEF sent, S
<1>5. Addressed(sent) /\ \A q \in sent : q.kind = "disconnect"
  BY <1>1, <1>4, SlotsAddressed
<1>6. Addressed(packets) /\ \A q \in packets : q.kind = "disconnect"
  BY <1>5 DEF Addressed
<1>7. (\A c \in Clients : late'[c] = late[c]) /\ late'[Server] = 0
  BY ProcessAssumption DEF ServerStop, Handshake, Orderly, Types, LateTypes, Process
<1>8. UNCHANGED <<client, tokens>>
  BY DEF ServerStop
<1> HIDE DEF packets
<1> QED BY <1>2, <1>3, <1>6, <1>7, <1>8, EmptyTold, ForgetShakes

LEMMA ServerStartShakes == ASSUME Handshake, ServerStart PROVE Shake'
<1>1. server.key + 1 \in 1..Len(NumSlots)
  BY MachineIs, BoundsAssumption DEF Handshake, Orderly, Types, Seated, ServerStart
<1>2. Seated(server') /\ server'.slots = {} /\ server'.mappings = {}
  BY <1>1, StoppedIs DEF ServerStart
<1>3. Send({}, {})
  BY DEF ServerStart, Send
<1>4. Addressed({})
  BY DEF Addressed
<1>5. UNCHANGED <<client, tokens, late>>
  BY DEF ServerStart
<1> QED BY <1>2, <1>3, <1>4, <1>5, EmptyTold, ForgetShakes

(***************************************************************************)
(* The update of the server: what it has after some of the packets.        *)
(***************************************************************************)

\* Client c believes it is in slot i, or will by one of the packets.
Hopes(c, i, packets) ==
    Believes(c, i) \/ \E q \in packets : q.kind = "keep alive" /\ q.token = Mine(c) /\ q.arg = i

\* Token t has a slot, or a keep alive with it is among the packets.
Welcomed(s, packets, t) == HasSlot(s, t) \/ \E q \in packets : q.kind = "keep alive" /\ q.token = t
Responded(t) == \E p \in Arriving : p.kind = "response" /\ p.token = t

Trusted(s, packets) ==
    /\ Addressed(packets) /\ \A q \in packets : q.kind \in {"denied", "challenge", "keep alive"}
    /\ KnownIn(s, Known)
    /\ \A t \in Given : Welcomed(s, packets, t) => HasSlot(server, t) \/ Responded(t)
    /\ \A c \in Clients : Past(c) =>
          \A i \in Nat : Hopes(c, i, packets) =>
              Told(s, Mine(c), i) /\ (Asked(c, Arriving) => HasSlot(s, Mine(c)))

LEMMA BegunTrusted ==
    ASSUME Prompt, Handshake, late[Server] > 0 PROVE Trusted(Begun(server), {})
<1> DEFINE b == Begun(server)
           g == OldersOf(server)
<1>1. late[Server] \in 0..Timeout /\ late[Server] \in Nat /\ Sound(server, 0) /\ Seated(server)
  BY ServerOnTime DEF Handshake, Orderly, Sound
<1>2. Renews(g, server, b)
  BY <1>1, BegunSound
<1>3. Within(server, b) /\ Within(b, server)
  <2>1. server.slots \subseteq SlotRec
    BY <1>1, MachineIs DEF Seated
  <2>2. \A y : y \in b.slots <=> \E x \in server.slots : y = Later(x)
    BY <1>1, BegunIs
  <2>3. \A x \in server.slots : Later(x).client = x.client /\ Later(x).mapping = x.mapping /\ Later(x).index = x.index
    BY <1>1, <2>1, LaterIs
  <2> HIDE DEF b
  <2> QED BY <2>2, <2>3 DEF Within
<1> HIDE DEF b, g
<1>4. KnownIn(b, Known)
  BY <1>2, RenewsKnown DEF Handshake, Numbered
<1>5. \A t : HasSlot(b, t) => HasSlot(server, t)
  BY <1>2, <1>3, RenewsHadSlot
<1>6. ASSUME NEW c \in Clients, Past(c), NEW i \in Nat, Believes(c, i)
      PROVE  Told(b, Mine(c), i) /\ ~Asked(c, Arriving)
  <2>1. Told(server, Mine(c), i) /\ Served(c)
    BY <1>6, BelievesServed DEF Handshake, Hand, Informed
  <2>2. ~Asked(c, Arriving)
    BY <1>1, <1>6, <2>1 DEF Handshake, Hand, AskedBefore
  <2> QED BY <1>2, <1>3, <2>1, <2>2, RenewsTold
<1>7. ASSUME NEW c \in Clients, NEW i, Hopes(c, i, {}) PROVE Believes(c, i)
  BY <1>7 DEF Hopes
<1>8. \A t : Welcomed(b, {}, t) => HasSlot(b, t)
  BY DEF Welcomed
<1>9. Addressed({})
  BY DEF Addressed
<1> QED BY <1>4, <1>5, <1>6, <1>7, <1>8, <1>9 DEF Trusted, b

LEMMA PacketTrusted ==
    ASSUME Handshake, NEW s, Sound(s, Timeout), NEW packets, Trusted(s, packets), NEW p \in ToTheServer
    PROVE  Trusted(ProcessPacket(s, p).server, packets \union ProcessPacket(s, p).packets)
<1> DEFINE r == ProcessPacket(s, p)
           all == packets \union r.packets
<1>1. p \in PacketRec /\ p \in Arriving /\ p.to = Server /\ p.token \in Known
  BY DEF ToTheServer, Arriving, Handshake, Orderly, Types, PacketTypes, Numbered
<1>2. Tells(s, p, r)
  BY <1>1, ProcessPacketTells
<1>3. \A q : q \in all <=> q \in packets \/ q \in r.packets
  OBVIOUS
<1> HIDE DEF r, all
<1>4. p.token[1] \in Clients /\ p.token[1] # Server
  BY <1>1, KnownIs, GivenIs, ProcessAssumption
<1>5. /\ \A q \in r.packets :
            /\ q.to = q.token[1] /\ q.token = p.token /\ q.kind \in {"denied", "challenge", "keep alive"}
            /\ q.kind = "keep alive" =>
                  p.kind = "response" /\ HasSlot(r.server, q.token) /\ Told(r.server, q.token, q.arg)
      /\ KnownIn(r.server, Known)
  BY <1>1, <1>2 DEF Tells, Trusted
<1>6. Addressed(all) /\ \A q \in all : q.kind \in {"denied", "challenge", "keep alive"}
  BY <1>1, <1>3, <1>4, <1>5 DEF Addressed, Trusted
<1>7. ASSUME NEW t \in Given, Welcomed(r.server, all, t) PROVE HasSlot(server, t) \/ Responded(t)
  <2>1. CASE HasSlot(r.server, t)
    <3>1. HasSlot(s, t) \/ (p.kind = "response" /\ p.token = t)
      BY <1>2, <2>1 DEF Tells
    <3> QED BY <1>1, <3>1 DEF Trusted, Welcomed, Responded
  <2>2. ASSUME NEW q \in packets, q.kind = "keep alive", q.token = t PROVE HasSlot(server, t) \/ Responded(t)
    BY <2>2 DEF Trusted, Welcomed
  <2>3. ASSUME NEW q \in r.packets, q.kind = "keep alive", q.token = t PROVE Responded(t)
    BY <1>1, <1>5, <2>3 DEF Responded
  <2> QED BY <1>3, <1>7, <2>1, <2>2, <2>3 DEF Welcomed
<1>8. ASSUME NEW c \in Clients, Past(c), NEW i \in Nat, Hopes(c, i, all)
      PROVE  Told(r.server, Mine(c), i) /\ (Asked(c, Arriving) => HasSlot(r.server, Mine(c)))
  <2>1. CASE Hopes(c, i, packets)
    <3>1. Mine(c) \in Given
      BY <1>8, PastMine
    <3>2. Told(s, Mine(c), i) /\ (Asked(c, Arriving) => HasSlot(s, Mine(c)))
      BY <1>8, <2>1 DEF Trusted
    <3>3. p.kind = "request" /\ p.token = Mine(c) => HasSlot(s, Mine(c))
      BY <1>1, <3>2 DEF Asked
    <3>4. ~(p.kind = "disconnect" /\ p.token = Mine(c))
      BY <1>1 DEF Handshake, Hand, Stayed
    <3> QED BY <1>2, <3>1, <3>2, <3>3, <3>4 DEF Tells
  <2>2. ASSUME NEW q \in r.packets, q.kind = "keep alive", q.token = Mine(c), q.arg = i
        PROVE  Told(r.server, Mine(c), i) /\ HasSlot(r.server, Mine(c))
    BY <1>5, <2>2
  <2> QED BY <1>3, <1>8, <2>1, <2>2 DEF Hopes
<1> QED BY <1>5, <1>6, <1>7, <1>8 DEF Trusted, r, all

LEMMA BatchTrusted ==
    ASSUME Prompt, Handshake, late[Server] > 0, NEW b \in Batches(ToTheServer)
    PROVE  LET r == FoldLeft(Process1, Quiet(Begun(server)), b) IN
           r \in SoundResults /\ Trusted(r.server, r.packets)
<1> DEFINE S == {r \in SoundResults : Trusted(r.server, r.packets)}
<1>1. PICK n \in Nat : DOMAIN b = 1..n /\ \A i \in 1..n : b[i] \in ToTheServer
  BY BatchIs
<1>2. \A p \in ToTheServer : p \in PacketRec
  BY DEF ToTheServer, Arriving, Handshake, Orderly, Types, PacketTypes
<1>3. Quiet(Begun(server)) \in S
  <2>1. Sound(Begun(server), Timeout)
    BY ServerOnTime, BegunSound DEF Handshake, Orderly
  <2>2. Begun(server) \in Machine
    BY <2>1 DEF Sound, Seated
  <2>3. Quiet(Begun(server)) \in SoundResults
    BY <2>1, <2>2 DEF Quiet, SoundResults
  <2>4. Quiet(Begun(server)).server = Begun(server) /\ Quiet(Begun(server)).packets = {}
    BY DEF Quiet
  <2>5. Trusted(Begun(server), {})
    BY BegunTrusted
  <2> QED BY <2>3, <2>4, <2>5
<1>4. ASSUME NEW r \in S, NEW i \in 1..n PROVE Process1(r, b[i]) \in S
  <2> DEFINE p == b[i]
  <2>1. p \in ToTheServer /\ p \in PacketRec
    BY <1>1, <1>2
  <2> HIDE DEF p
  <2>2. Sound(r.server, Timeout) /\ r \in SoundResults /\ Trusted(r.server, r.packets)
    BY DEF SoundResults
  <2>3. Process1(r, p) \in SoundResults
    BY <2>1, <2>2, Process1Sound
  <2>4. Trusted(ProcessPacket(r.server, p).server, r.packets \union ProcessPacket(r.server, p).packets)
    BY <2>1, <2>2, PacketTrusted
  <2>5. /\ Process1(r, p).server = ProcessPacket(r.server, p).server
        /\ Process1(r, p).packets = r.packets \union ProcessPacket(r.server, p).packets
    BY DEF Process1
  <2>6. Process1(r, p) \in S
    BY <2>3, <2>4, <2>5
  <2> QED BY <2>6 DEF p
<1>5. Processing!Folded(Quiet(Begun(server)), b) \in S
  <2> HIDE DEF S
  <2> QED BY <1>1, <1>3, <1>4, Processing!FoldType
<1> QED BY <1>5, ProcessedIs

\* After the packets, the server sends to every slot and gives one up.
LEMMA ChecksTell ==
    ASSUME NEW s, Sound(s, Timeout), KnownIn(s, Known)
    PROVE  LET k == ServerChecks(s) IN
           /\ \A t \in Given : \A i : Told(s, t, i) => Told(k.server, t, i)
           /\ \A t \in Given : HasSlot(k.server, t) => HasSlot(s, t)
           /\ KnownIn(k.server, Known) /\ Addressed(k.packets)
           /\ \A q \in k.packets : q.kind = "keep alive" /\ HasSlot(s, q.token) /\ Told(s, q.token, q.arg)
<1> DEFINE S == s.slots
           u == SendSlots(s, S, "keep alive").server
           k == ServerChecks(s)
           g == TouchesOf(s, TouchedBy(s, S))
<1>1. Timeout \in 0..Timeout /\ S \in SUBSET s.slots /\ Seated(s) /\ "keep alive" \in Kinds
  BY TimeoutIs DEF Sound, Kinds
<1>2. /\ k.packets = SendSlots(s, S, "keep alive").packets
      /\ k.server = u \/ \E x \in s.slots : k.server = Freed(u, x)
  BY <1>1, ServerChecksIs
<1>3. AllFrom(s, S, "keep alive", k.packets)
  BY <1>1, <1>2, SendSlotsPackets
<1>4. Sound(u, Timeout) /\ u.slots = s.slots /\ Renews(g, s, u)
  BY <1>1, SendSlotsSound
<1>5. \A x \in S : x \in s.slots
  OBVIOUS
<1> HIDE DEF S, u, k, g
<1>6. /\ Addressed(k.packets)
      /\ \A q \in k.packets : /\ q.kind = "keep alive" /\ HasSlot(s, q.token)
                              /\ \E x \in S : q.token[1] = x.client /\ q.arg = x.index
  <2> DEFINE P == k.packets
             kind == "keep alive"
             ticks == Timeout
  <2>1. AllFrom(s, S, kind, P)
    BY <1>3
  <2>2. Sound(s, ticks) /\ KnownIn(s, Known) /\ S \in SUBSET s.slots
    BY <1>1
  <2> HIDE DEF P, kind, ticks
  <2>3. /\ Addressed(P)
        /\ \A q \in P : /\ q.kind = kind /\ HasSlot(s, q.token)
                        /\ \E x \in S : q.token[1] = x.client /\ q.arg = x.index
    BY <2>1, <2>2, SlotsAddressed
  <2> QED BY <2>3 DEF P, kind
<1>7. \A q \in k.packets : Told(s, q.token, q.arg)
  BY <1>5, <1>6, SlotTold
<1>8. Within(s, u) /\ Within(u, s)
  BY <1>4, SameSlots
<1>9. /\ \A t, i : Told(s, t, i) => Told(u, t, i)
      /\ \A t : HasSlot(u, t) => HasSlot(s, t)
      /\ KnownIn(u, Known)
  BY <1>4, <1>8, RenewsTold, RenewsHadSlot, RenewsKnown
<1>10. CASE k.server = u
  BY <1>6, <1>7, <1>9, <1>10 DEF k
<1>11. ASSUME NEW x \in s.slots, k.server = Freed(u, x)
       PROVE  /\ \A t \in Given : \A i : Told(s, t, i) => Told(k.server, t, i)
              /\ \A t \in Given : HasSlot(k.server, t) => HasSlot(s, t)
              /\ KnownIn(k.server, Known)
  <2>1. x \in u.slots
    BY <1>4
  <2> QED BY <1>1, <1>4, <1>9, <1>11, <2>1, FreedTold
<1> QED BY <1>2, <1>6, <1>7, <1>10, <1>11 DEF k

LEMMA ServerUpdateShakes == ASSUME Prompt, Handshake, ServerUpdate PROVE Shake'
<1>1. PICK batch \in Batches(ToTheServer) :
          LET received == FoldLeft(Process1, Quiet(Begun(server)), batch)
              checked == ServerChecks(received.server)
          IN server' = checked.server /\ Send(Gone(batch), received.packets \union checked.packets)
  BY DEF ServerUpdate, ToTheServer
<1> DEFINE r == FoldLeft(Process1, Quiet(Begun(server)), batch)
           k == ServerChecks(r.server)
           packets == r.packets \union k.packets
<1>2. server' = k.server /\ Send(Gone(batch), packets)
  BY <1>1
<1>3. late[Server] > 0 /\ UNCHANGED <<client, tokens>> /\ late' = [late EXCEPT ![Server] = 0]
  BY DEF ServerUpdate
<1>4. r \in SoundResults /\ Trusted(r.server, r.packets)
  BY <1>3, BatchTrusted
<1>5. Sound(r.server, Timeout) /\ KnownIn(r.server, Known)
  BY <1>4 DEF SoundResults, Trusted
<1>6. \A p : p \in packets <=> p \in r.packets \/ p \in k.packets
  OBVIOUS
<1> HIDE DEF r
<1>7. /\ \A t \in Given : \A i : Told(r.server, t, i) => Told(server', t, i)
      /\ \A t \in Given : HasSlot(server', t) => HasSlot(r.server, t)
      /\ KnownIn(server', Known) /\ Addressed(k.packets)
      /\ \A q \in k.packets : q.kind = "keep alive" /\ HasSlot(r.server, q.token) /\ Told(r.server, q.token, q.arg)
  BY <1>2, <1>5, ChecksTell
<1> HIDE DEF k, packets
<1>8. /\ \A p \in network' : p \in network \/ p \in packets
      /\ \A p \in Arriving' : p \in Arriving \/ p \in packets
  BY <1>2, SendIs
<1>9. Addressed(packets) /\ \A q \in packets : q.kind \in {"denied", "challenge", "keep alive"}
  BY <1>4, <1>6, <1>7 DEF Addressed, Trusted
<1>10. (\A c \in Clients : late'[c] = late[c]) /\ late'[Server] = 0
  BY <1>3, ProcessAssumption DEF Handshake, Orderly, Types, LateTypes, Process
<1>11. Known' = Known /\ \A c \in Clients : Mine(c)' = Mine(c) /\ Active(c)' = Active(c) /\ Past(c)' = Past(c)
  BY <1>3 DEF Known, Mine, Active, Past
<1>12. ASSUME NEW t \in Given, HasSlot(server', t) \/ \E q \in packets : q.kind = "keep alive" /\ q.token = t
       PROVE  HasSlot(server, t) \/ Responded(t)
  <2>1. Welcomed(r.server, r.packets, t)
    BY <1>6, <1>7, <1>12 DEF Welcomed
  <2> QED BY <1>4, <2>1 DEF Trusted
<1>13. ASSUME NEW c \in Clients PROVE Hand(c)'
  <2>1. Hand(c)
    BY DEF Handshake
  <2>2. Early(c)' /\ Stayed(c)'
    BY <1>8, <1>9, <1>10, <1>11, <2>1 DEF Hand, Early, Stayed, Addressed
  <2>3. Answered(c)'
    <3>1. ASSUME HasSlot(server', Mine(c)) PROVE HasSlot(server, Mine(c)) \/ Responded(Mine(c))
      <4>1. Mine(c) \in Given
        BY <1>7, <3>1, HasSlotGiven, ServerUpdateTypes, MineIs, NoTokenTold DEF Handshake, Orderly, Types
      <4> QED BY <1>12, <3>1, <4>1
    <3>2. ASSUME NEW p \in Arriving', p.token = Mine(c), p.kind \in {"response", "keep alive"}
          PROVE  p \in Arriving \/ HasSlot(server, Mine(c)) \/ Responded(Mine(c))
      <4>1. CASE p \in packets
        <5>1. p.token \in Given /\ p.kind = "keep alive"
          BY <1>9, <3>2, <4>1, KnownIs DEF Addressed
        <5> QED BY <1>12, <3>2, <4>1, <5>1
      <4> QED BY <1>8, <4>1
    <3>3. (\E p \in Arriving' : p.token = Mine(c) /\ p.kind \in {"response", "keep alive"})
             \/ HasSlot(server', Mine(c))
          => (\E p \in Arriving : p.token = Mine(c) /\ p.kind \in {"response", "keep alive"})
             \/ HasSlot(server, Mine(c))
      BY <3>1, <3>2 DEF Responded
    <3>4. client'[c] = client[c]
      BY <1>3
    <3> QED BY <1>11, <2>1, <3>3, <3>4 DEF Hand, Answered
  <2>4. AskedBefore(c)'
    <3>1. Past(c)' => ~Asked(c, network)'
      <4> SUFFICES ASSUME Past(c), NEW p \in network', p.token = Mine(c), p.kind = "request" PROVE FALSE
        BY <1>11 DEF Asked
      <4> QED BY <1>8, <1>9, <2>1 DEF Hand, AskedBefore, Asked
    <3> QED BY <1>10, <3>1 DEF AskedBefore
  <2>5. Informed(c)'
    <3> SUFFICES ASSUME Past(c), NEW i \in Nat, Believes(c, i)' PROVE Told(server', Mine(c), i)
      BY <1>11 DEF Informed
    <3>1. Mine(c) \in Given
      BY PastMine
    <3>2. Believes(c, i) \/ \E p \in packets : p.kind = "keep alive" /\ p.token = Mine(c) /\ p.arg = i
      <4>1. client'[c] = client[c]
        BY <1>3
      <4>2. \A p \in Answers(c)' : p \in Answers(c) \/ (p \in packets /\ p.kind = "keep alive" /\ p.token = Mine(c))
        BY <1>8, <1>11 DEF Answers
      <4> QED BY <4>1, <4>2 DEF Believes
    <3>3. CASE Hopes(c, i, r.packets)
      <4>1. Told(r.server, Mine(c), i)
        BY <1>4, <3>3 DEF Trusted
      <4> QED BY <1>7, <3>1, <4>1
    <3>4. ASSUME NEW p \in k.packets, p.token = Mine(c), p.arg = i PROVE Told(server', Mine(c), i)
      BY <1>7, <3>1, <3>4
    <3> QED BY <1>6, <3>2, <3>3, <3>4 DEF Hopes
  <2> QED BY <2>2, <2>3, <2>4, <2>5 DEF Hand
<1>14. Routed'
  BY <1>8, <1>9 DEF Handshake, Routed, Addressed
<1>15. Numbered'
  <2>1. \A p \in Arriving' : p.token \in Known
    BY <1>8, <1>9 DEF Addressed, Handshake, Numbered
  <2>2. UNCHANGED tokens
    BY <1>3
  <2> QED BY <1>7, <1>11, <2>1, <2>2 DEF Handshake, Numbered
<1>16. AtHome'
  BY <1>3, <1>11 DEF Handshake, AtHome
<1> QED BY <1>13, <1>14, <1>15, <1>16 DEF Shake

(***************************************************************************)
(* Time goes on, and the whole.                                            *)
(***************************************************************************)

LEMMA TickShakes == ASSUME Handshake, Tick PROVE Shake'
<1>1. UNCHANGED <<client, server, tokens>> /\ network' = {} /\ \A p \in Arriving' : p \in network /\ p \in Arriving
  BY DEF Tick, Arriving
<1>2. ASSUME NEW c \in Clients PROVE Hand(c)'
  <2>1. Mine(c)' = Mine(c) /\ Past(c)' = Past(c) /\ Hand(c)
    BY <1>1 DEF Mine, Past, Handshake
  <2>2. Early(c)' /\ Stayed(c)' /\ Answered(c)'
    BY <1>1, <2>1 DEF Hand, Early, Stayed, Answered
  <2>3. Past(c)' => ~Asked(c, network)' /\ ~Asked(c, Arriving)'
    BY <1>1, <2>1 DEF Hand, AskedBefore, Asked
  <2>4. AskedBefore(c)'
    BY <2>3 DEF AskedBefore
  <2>5. Informed(c)'
    <3>1. \A p \in Answers(c)' : p \in Answers(c)
      BY <1>1, <2>1 DEF Answers
    <3> QED BY <1>1, <2>1, <3>1 DEF Hand, Informed, Believes
  <2> QED BY <2>2, <2>4, <2>5 DEF Hand
<1>3. Numbered' /\ Routed' /\ AtHome'
  BY <1>1 DEF Handshake, Numbered, Routed, AtHome, Mine, Active, Known, Past
<1> QED BY <1>2, <1>3 DEF Shake

LEMMA HandshakeInit == Init => Handshake
<1> SUFFICES ASSUME Init PROVE Handshake
  OBVIOUS
<1>1. Orderly
  BY OrderlyInit
<1>2. \A c \in Clients : client[c].state = "disconnected" /\ client[c].token = NoToken
  <2>1. "disconnected" \in States
    BY DEF States, Ended
  <2> QED BY <2>1, ResetIs DEF Init
<1>3. Arriving = {} /\ network = {}
  BY DEF Init, Arriving
<1>4. server.slots = {} /\ server.mappings = {}
  BY DEF Init, Started
<1>5. Numbered /\ Routed /\ AtHome
  BY <1>2, <1>3, <1>4, EmptyTold DEF Numbered, Routed, AtHome, Past, Mine, Active, Ended
<1>6. \A c \in Clients : Hand(c)
  BY <1>2, <1>3, <1>4, EmptyTold DEF Hand, Early, Stayed, Answered, AskedBefore, Informed, Past
<1> QED BY <1>1, <1>5, <1>6 DEF Handshake

LEMMA HandshakeNext == ASSUME Prompt PROVE Handshake /\ [Next]_vars => Handshake'
<1> SUFFICES ASSUME Handshake, [Next]_vars PROVE Handshake'
  OBVIOUS
<1>1. Orderly'
  BY OrderlyNext DEF Handshake
<1>2. Shake'
  <2>1. CASE UNCHANGED vars
    <3>1. Shake
      BY DEF Shake, Handshake
    <3> QED BY <2>1, <3>1 DEF vars, Shake, Numbered, Routed, AtHome, Hand, Early, Stayed, Answered, AskedBefore,
            Informed, Mine, Past, Known, Asked, Answers, Served, Believes, Arriving, Active
  <2>2. CASE Next
    BY <2>2, ConnectShakes, DisconnectShakes, CrashShakes, UpdateShakes, ServerUpdateShakes,
       ServerDisconnectShakes, ServerStopShakes, ServerStartShakes, TickShakes DEF Next
  <2> QED BY <2>1, <2>2
<1> QED BY <1>1, <1>2 DEF Shake, Handshake

LEMMA HandshakeAlways == ASSUME Prompt PROVE Spec => []Handshake
BY HandshakeInit, HandshakeNext, PTL DEF Spec

\* A client that is connected, and is in a slot, is in the one it was told of, whatever
\* was lost, repeated or overtaken on the way (netcode.c:2929, 4260, 4420).
THEOREM SlotIsKnown == ASSUME Prompt PROVE Spec => []KnowsItsSlot
<1>1. Handshake => KnowsItsSlot
  <2> SUFFICES ASSUME Handshake, NEW c \in Clients, NEW x \in server.slots,
                      client[c].state = "connected", Holds(x, c)
               PROVE  client[c].index = x.index
    BY DEF KnowsItsSlot
  <2>1. PICK m \in server.mappings : m.index = x.mapping /\ m.address = x.client /\ x.client = c /\ m.token = Mine(c)
    BY DEF Holds, Touched, Mine
  <2>2. Past(c) /\ Sound(server, 0) /\ 0 \in 0..Timeout
    BY TimeoutIs DEF Past, Handshake, Orderly
  <2>3. ~Expired(m)
    BY <2>1, <2>2, TouchedBacks
  <2>4. Mine(c)[1] = c
    BY <2>2, PastMine, OfWhom DEF Handshake
  <2>5. client[c].index \in Nat
    BY ClientIs DEF Handshake, Orderly, Types, ClientTypes
  <2>6. Told(server, Mine(c), client[c].index)
    BY <2>2, <2>5 DEF Handshake, Hand, Informed, Believes
  <2>7. PICK y \in server.slots : y.client = c /\ y.index = client[c].index
    BY <2>1, <2>3, <2>4, <2>6 DEF Told
  <2>8. y = x
    BY <2>1, <2>2, <2>7 DEF Sound, Seated, Alone
  <2> QED BY <2>7, <2>8
<1> QED BY <1>1, HandshakeAlways, PTL
-----------------------------------------------------------------------------
(***************************************************************************)
(* Replay protection turns away what it must and no more, and the queue    *)
(* behind it is a queue: NetcodePackets, for any number of packets, keys   *)
(* and payloads, and the sizes that the code has.                          *)
(***************************************************************************)
CONSTANTS Keys, Payloads, Nothing
VARIABLES sequence, wire, state, key, mostRecent, received, queue, start, count, session,
          accepted, got

Packets == INSTANCE NetcodePackets

\* An entry of the buffer holds the newest number accepted of those that share it.
BufferInv ==
    /\ \A i \in 0..(Packets!BufferSize - 1) :
          received[i] # Packets!Never =>
              received[i] \in accepted /\ received[i] % Packets!BufferSize = i
    /\ \A s \in accepted : received[s % Packets!BufferSize] >= s /\ s <= mostRecent

WasSent(e) == \E p \in wire : p.kind = "payload" /\ p.sequence = e.sequence /\ p.data = e.data

QueueInv ==
    \A j \in 0..(count - 1) :
        queue[Packets!At(j)] \in Packets!Entry /\ WasSent(queue[Packets!At(j)])

PacketsInv == Packets!TypeOK /\ BufferInv /\ QueueInv /\ Packets!OnlySent
-----------------------------------------------------------------------------
(* Numbers and places.                                                     *)

LEMMA Places == ASSUME NEW s \in Nat
                PROVE  /\ s % Packets!BufferSize \in 0..(Packets!BufferSize - 1)
                       /\ \A r \in Nat : r % Packets!BufferSize = s % Packets!BufferSize /\ r > s
                                         => r >= s + Packets!BufferSize
  BY DEF Packets!BufferSize

\* A ring of the queue's size has room for as many places as it has.
LEMMA RingPlaces ==
    ASSUME Packets!TypeOK
    PROVE  /\ \A j \in Nat : Packets!At(j) \in 0..(Packets!QueueSize - 1)
           /\ \A i, j \in 0..(Packets!QueueSize - 1) : i # j => Packets!At(i) # Packets!At(j)
           /\ Packets!At(0) = start
<1>1. start \in 0..255
  BY DEF Packets!TypeOK, Packets!QueueSize
<1>2. \A j \in Nat : (start + j) % 256 \in 0..255
  BY <1>1
<1>3. ASSUME NEW i \in 0..255, NEW j \in 0..255, (start + i) % 256 = (start + j) % 256
      PROVE  i = j
  <2>1. (start + i) % 256 = IF start + i < 256 THEN start + i ELSE start + i - 256
    BY <1>1
  <2>2. (start + j) % 256 = IF start + j < 256 THEN start + j ELSE start + j - 256
    BY <1>1
  <2>. QED BY <1>1, <1>3, <2>1, <2>2
<1>4. (start + 0) % 256 = start
  BY <1>1
<1>5. Packets!QueueSize - 1 = 255
  BY DEF Packets!QueueSize
<1>6. \A j \in Nat : Packets!At(j) \in 0..(Packets!QueueSize - 1)
  BY <1>2, <1>5 DEF Packets!At, Packets!QueueSize
<1>7. \A i, j \in 0..(Packets!QueueSize - 1) : i # j => Packets!At(i) # Packets!At(j)
  BY <1>3, <1>5 DEF Packets!At, Packets!QueueSize
<1>8. Packets!At(0) = start
  BY <1>4 DEF Packets!At, Packets!QueueSize
<1>. QED BY <1>6, <1>7, <1>8

\* One place on is one place on, round the ring.
LEMMA RingMoves ==
    ASSUME Packets!TypeOK, start' = (start + 1) % Packets!QueueSize, NEW j \in Nat
    PROVE Packets!At(j)' = Packets!At(j + 1)
<1>1. start \in Nat /\ (((start + 1) % 256) + j) % 256 = (start + (j + 1)) % 256
  BY DEF Packets!TypeOK, Packets!QueueSize
<1>. QED BY <1>1 DEF Packets!At, Packets!QueueSize

\* What is in the queue is a sequence of payloads.
LEMMA PendingIsSeq ==
    ASSUME PacketsInv
    PROVE  /\ Packets!Pending \in Seq(Packets!Entry) /\ Len(Packets!Pending) = count
           /\ \A i \in 1..count : Packets!Pending[i] = queue[Packets!At(i - 1)]
<1>1. count \in Nat /\ \A i \in 1..count : i - 1 \in 0..(count - 1)
  BY DEF PacketsInv, Packets!TypeOK, Packets!QueueSize
<1>2. \A i \in 1..count : queue[Packets!At(i - 1)] \in Packets!Entry
  BY <1>1 DEF PacketsInv, QueueInv
<1>. QED BY <1>1, <1>2 DEF Packets!Pending

\* The two ways to be turned away, and that there is no third.
LEMMA Exact == ASSUME Packets!TypeOK, BufferInv PROVE Packets!WindowExact
<1> SUFFICES ASSUME NEW s \in Nat
             PROVE  Packets!AlreadyReceived(s) <=> s \in accepted \/ Packets!TooOld(s)
  BY DEF Packets!WindowExact
<1> DEFINE r == received[s % Packets!BufferSize]
<1>1. s % Packets!BufferSize \in 0..(Packets!BufferSize - 1) /\ r \in Nat \union {Packets!Never}
      /\ mostRecent \in Nat
  BY Places DEF Packets!TypeOK
<1>2. ASSUME s \in accepted PROVE Packets!AlreadyReceived(s)
  <2>1. r >= s
    BY <1>2 DEF BufferInv
  <2>. QED BY <2>1, <1>1 DEF Packets!AlreadyReceived, Packets!Never
<1>3. ASSUME r # Packets!Never, r >= s PROVE s \in accepted \/ Packets!TooOld(s)
  <2>1. r \in accepted /\ r % Packets!BufferSize = s % Packets!BufferSize /\ r <= mostRecent
        /\ r \in Nat
    BY <1>1, <1>3 DEF BufferInv
  <2>2. r = s \/ r >= s + Packets!BufferSize
    BY <2>1, <1>3, Places
  <2>. QED BY <2>1, <2>2, <1>1 DEF Packets!TooOld, Packets!BufferSize
<1>. QED BY <1>2, <1>3 DEF Packets!AlreadyReceived
-----------------------------------------------------------------------------
(* The steps.                                                              *)

\* A number that is read is new, and the buffer knows it from then on.
LEMMA ReadKeeps ==
    ASSUME PacketsInv, NEW p \in wire, NEW kind \in Packets!Kinds, Packets!Read(p, kind)
    PROVE  /\ p.sequence \in Nat /\ p.sequence \notin accepted
           /\ mostRecent' \in Nat
           /\ received' \in [0..(Packets!BufferSize - 1) -> Nat \union {Packets!Never}]
           /\ accepted' \subseteq Nat /\ BufferInv'
<1> DEFINE s == p.sequence
           i == s % Packets!BufferSize
<1>1. s \in Nat /\ i \in 0..(Packets!BufferSize - 1)
  BY Places DEF PacketsInv, Packets!TypeOK, Packets!Packet
<1>2. s \notin accepted
  BY <1>1, Exact DEF PacketsInv, Packets!WindowExact, Packets!Read
<1>3. /\ mostRecent \in Nat
      /\ received \in [0..(Packets!BufferSize - 1) -> Nat \union {Packets!Never}]
      /\ accepted \subseteq Nat
  BY DEF PacketsInv, Packets!TypeOK
<1>4. /\ mostRecent' = IF s > mostRecent THEN s ELSE mostRecent
      /\ received' = [received EXCEPT ![i] = s] /\ accepted' = accepted \union {s}
  BY DEF Packets!Read, Packets!AdvanceSequence
<1>5. /\ mostRecent' \in Nat /\ mostRecent' >= s /\ mostRecent' >= mostRecent
      /\ received' \in [0..(Packets!BufferSize - 1) -> Nat \union {Packets!Never}]
      /\ accepted' \subseteq Nat
      /\ received'[i] = s
      /\ \A j \in 0..(Packets!BufferSize - 1) : j # i => received'[j] = received[j]
  <2>. HIDE DEF s, i
  <2>1. mostRecent' \in Nat /\ mostRecent' >= s /\ mostRecent' >= mostRecent
        /\ accepted' \subseteq Nat
    BY <1>1, <1>3, <1>4
  <2>2. received' \in [0..(Packets!BufferSize - 1) -> Nat \union {Packets!Never}]
    BY <1>1, <1>3, <1>4
  <2>3. received'[i] = s
    BY <1>1, <1>3, <1>4
  <2>4. \A j \in 0..(Packets!BufferSize - 1) : j # i => received'[j] = received[j]
    BY <1>1, <1>3, <1>4
  <2>. QED BY <2>1, <2>2, <2>3, <2>4
<1>6. received[i] = Packets!Never \/ received[i] < s
  BY <1>1, <1>3 DEF Packets!Read, Packets!AlreadyReceived, Packets!Never
<1>7. \A j \in 0..(Packets!BufferSize - 1) :
         received'[j] # Packets!Never =>
             received'[j] \in accepted' /\ received'[j] % Packets!BufferSize = j
  BY <1>4, <1>5 DEF PacketsInv, BufferInv
<1>8. ASSUME NEW t \in accepted' PROVE received'[t % Packets!BufferSize] >= t /\ t <= mostRecent'
  <2>1. CASE t = s
    BY <2>1, <1>1, <1>5
  <2>2. CASE t \in accepted
    <3>1. received[t % Packets!BufferSize] >= t /\ t <= mostRecent /\ t \in Nat
      BY <2>2, <1>3 DEF PacketsInv, BufferInv
    <3>2. t % Packets!BufferSize \in 0..(Packets!BufferSize - 1)
      BY <3>1, Places
    <3>3. CASE t % Packets!BufferSize = i
      BY <3>1, <3>3, <1>1, <1>3, <1>5, <1>6 DEF Packets!Never
    <3>4. CASE t % Packets!BufferSize # i
      BY <3>1, <3>2, <3>4, <1>3, <1>5
    <3>. QED BY <3>3, <3>4
  <2>. QED BY <2>1, <2>2, <1>4
<1>. QED BY <1>1, <1>2, <1>5, <1>7, <1>8 DEF BufferInv

\* A payload that is pushed is the youngest; the others stay where they are.
LEMMA PushKeeps ==
    ASSUME PacketsInv, NEW e \in Packets!Entry, WasSent(e), Packets!Push(e), wire' = wire
    PROVE  /\ queue' \in [0..(Packets!QueueSize - 1) -> Packets!Entry \union {Nothing}]
           /\ start' \in 0..(Packets!QueueSize - 1) /\ count' \in 0..Packets!QueueSize
           /\ QueueInv'
           /\ Packets!Pending' = Packets!Pending \/ Packets!Pending' = Append(Packets!Pending, e)
<1>1. CASE count = Packets!QueueSize
  BY <1>1 DEF Packets!Push, PacketsInv, Packets!TypeOK, QueueInv, Packets!At, WasSent,
              Packets!Pending
<1>2. CASE count # Packets!QueueSize
  <2>1. /\ queue' = [queue EXCEPT ![Packets!At(count)] = e] /\ count' = count + 1 /\ start' = start
        /\ count \in 0..(Packets!QueueSize - 1)
        /\ queue \in [0..(Packets!QueueSize - 1) -> Packets!Entry \union {Nothing}]
        /\ start \in 0..(Packets!QueueSize - 1)
    BY <1>2 DEF Packets!Push, PacketsInv, Packets!TypeOK, Packets!QueueSize
  <2>2. count \in Nat /\ Packets!At(count) \in 0..(Packets!QueueSize - 1)
    <3>1. count \in Nat
      BY <2>1 DEF Packets!QueueSize
    <3>. QED BY <3>1, RingPlaces DEF PacketsInv
  <2>3. /\ \A j \in 0..(count - 1) : /\ Packets!At(j) \in 0..(Packets!QueueSize - 1)
                                     /\ Packets!At(j) # Packets!At(count)
        /\ \A j : Packets!At(j)' = Packets!At(j)
    <3>1. \A j \in 0..(count - 1) : j \in 0..(Packets!QueueSize - 1) /\ j # count /\ j \in Nat
      BY <2>1 DEF Packets!QueueSize
    <3>2. \A j : Packets!At(j)' = Packets!At(j)
      BY <2>1 DEF Packets!At
    <3>. QED BY <3>1, <3>2, <2>1, RingPlaces DEF PacketsInv
  <2>4. /\ queue'[Packets!At(count)] = e
        /\ \A j \in 0..(count - 1) : queue'[Packets!At(j)] = queue[Packets!At(j)]
    BY <2>1, <2>2, <2>3
  <2>5. \A j \in 0..(count' - 1) : j \in 0..(count - 1) \/ j = count
    BY <2>1, <2>2
  <2>6. QueueInv'
    BY <2>3, <2>4, <2>5 DEF PacketsInv, QueueInv, WasSent
  <2>7. Packets!Pending' = Append(Packets!Pending, e)
    <3>1. /\ Packets!Pending \in Seq(Packets!Entry) /\ Len(Packets!Pending) = count
          /\ \A i \in 1..count : Packets!Pending[i] = queue[Packets!At(i - 1)]
      BY PendingIsSeq
    <3>2. /\ Append(Packets!Pending, e) \in Seq(Packets!Entry)
          /\ Len(Append(Packets!Pending, e)) = count + 1
          /\ \A i \in 1..count : Append(Packets!Pending, e)[i] = Packets!Pending[i]
          /\ Append(Packets!Pending, e)[count + 1] = e
      BY <3>1, AppendProperties
    <3>3. Packets!Pending' = [i \in 1..(count + 1) |-> queue'[Packets!At(i - 1)]]
      BY <2>1, <2>3 DEF Packets!Pending
    <3>4. /\ \A i \in 1..count : i - 1 \in 0..(count - 1)
          /\ \A i \in 1..(count + 1) : i \in 1..count \/ i = count + 1
          /\ (count + 1) - 1 = count
      BY <2>2
    <3>5. \A i \in 1..(count + 1) : queue'[Packets!At(i - 1)] = Append(Packets!Pending, e)[i]
      BY <2>4, <3>1, <3>2, <3>4
    <3>6. Packets!Pending' \in Seq(Packets!Entry) /\ Len(Packets!Pending') = count + 1
      <4>1. \A i \in 1..(count + 1) : queue'[Packets!At(i - 1)] \in Packets!Entry
        BY <3>1, <3>2, <3>4, <3>5
      <4>. QED BY <4>1, <3>3, <2>2
    <3>7. \A i \in 1..(count + 1) : Packets!Pending'[i] = Append(Packets!Pending, e)[i]
      BY <3>3, <3>5
    <3>. QED BY <3>2, <3>6, <3>7, SeqEqual
  <2>8. count' \in 0..Packets!QueueSize
        /\ queue' \in [0..(Packets!QueueSize - 1) -> Packets!Entry \union {Nothing}]
    <3>1. count' \in 0..Packets!QueueSize
      BY <2>1 DEF Packets!QueueSize
    <3>. QED BY <3>1, <2>1, <2>2
  <2>. QED BY <2>1, <2>6, <2>7, <2>8
<1>. QED BY <1>1, <1>2

\* The oldest payload leaves; each of the others moves up.
LEMMA PopKeeps ==
    ASSUME PacketsInv, Packets!ReceivePacket
    PROVE  /\ Packets!Pending # <<>> /\ got' = Append(got, Head(Packets!Pending))
           /\ Packets!Pending' = Tail(Packets!Pending)
           /\ queue[start] \in Packets!Entry /\ WasSent(queue[start]) /\ QueueInv'
           /\ start' \in 0..(Packets!QueueSize - 1) /\ count' \in 0..Packets!QueueSize
<1>1. /\ count \in 1..Packets!QueueSize /\ count' = count - 1 /\ queue' = queue /\ wire' = wire
      /\ start' = (start + 1) % Packets!QueueSize /\ start \in 0..(Packets!QueueSize - 1)
      /\ got' = Append(got, queue[start])
  BY DEF PacketsInv, Packets!TypeOK, Packets!ReceivePacket, Packets!QueueSize
<1>2. /\ Packets!Pending \in Seq(Packets!Entry) /\ Len(Packets!Pending) = count
      /\ \A i \in 1..count : Packets!Pending[i] = queue[Packets!At(i - 1)]
  BY PendingIsSeq
<1>3. Packets!At(0) = start /\ \A j \in Nat : Packets!At(j)' = Packets!At(j + 1)
  BY <1>1, RingPlaces, RingMoves DEF PacketsInv
<1>4. 1 \in 1..count /\ 0 \in 0..(count - 1) /\ Packets!Pending[1] = queue[start]
  <2>1. 1 \in 1..count /\ 0 \in 0..(count - 1) /\ 1 - 1 = 0
    BY <1>1 DEF Packets!QueueSize
  <2>. QED BY <2>1, <1>2, <1>3
<1>5. Packets!Pending # <<>> /\ Head(Packets!Pending) = queue[start]
  BY <1>1, <1>2, <1>4 DEF Packets!QueueSize
<1>6. \A j \in 0..(count' - 1) : j \in Nat /\ j + 1 \in 0..(count - 1)
  BY <1>1 DEF Packets!QueueSize
<1>7. QueueInv'
  BY <1>1, <1>3, <1>6 DEF PacketsInv, QueueInv, WasSent
<1>8. Packets!Pending' = Tail(Packets!Pending)
  <2>1. Packets!Pending' = [i \in 1..(count - 1) |-> queue[Packets!At(i - 1)']]
    BY <1>1 DEF Packets!Pending
  <2>2. \A i \in 1..(count - 1) : /\ i - 1 \in Nat /\ (i - 1) + 1 = i
                                  /\ i + 1 \in 1..count /\ (i + 1) - 1 = i
    BY <1>1 DEF Packets!QueueSize
  <2>3. \A i \in 1..(count - 1) : queue[Packets!At(i - 1)'] = Packets!Pending[i + 1]
    <3> SUFFICES ASSUME NEW i \in 1..(count - 1)
                 PROVE  queue[Packets!At(i - 1)'] = Packets!Pending[i + 1]
      OBVIOUS
    <3>1. Packets!At(i - 1)' = Packets!At(i)
      BY <1>3, <2>2
    <3>2. Packets!Pending[i + 1] = queue[Packets!At((i + 1) - 1)]
      BY <1>2, <2>2
    <3>. QED BY <3>1, <3>2, <2>2
  <2>4. /\ Tail(Packets!Pending) \in Seq(Packets!Entry) /\ Len(Tail(Packets!Pending)) = count - 1
        /\ \A i \in 1..(count - 1) : Tail(Packets!Pending)[i] = Packets!Pending[i + 1]
    BY <1>2, <1>5, HeadTailProperties
  <2>5. Packets!Pending' \in Seq(Packets!Entry) /\ Len(Packets!Pending') = count - 1
    <3>1. \A i \in 1..(count - 1) : queue[Packets!At(i - 1)'] \in Packets!Entry
      BY <1>2, <2>2, <2>3, ElementOfSeq
    <3>2. count - 1 \in Nat
      BY <1>1 DEF Packets!QueueSize
    <3>. QED BY <3>1, <3>2, <2>1
  <2>6. \A i \in 1..(count - 1) : Packets!Pending'[i] = Tail(Packets!Pending)[i]
    BY <2>1, <2>3, <2>4
  <2>. QED BY <2>4, <2>5, <2>6, SeqEqual
<1>9. start' \in 0..(Packets!QueueSize - 1) /\ count' \in 0..Packets!QueueSize
  BY <1>1 DEF Packets!QueueSize
<1>10. queue[start] \in Packets!Entry /\ WasSent(queue[start])
  BY <1>3, <1>4 DEF PacketsInv, QueueInv
<1>. QED BY <1>1, <1>5, <1>7, <1>8, <1>9, <1>10

\* What leaves the queue alone leaves its payloads alone, and what was sent stays sent.
LEMMA QueueKept ==
    ASSUME PacketsInv, UNCHANGED <<queue, start, count>>, wire \subseteq wire'
    PROVE  QueueInv' /\ Packets!Pending' = Packets!Pending
  BY DEF PacketsInv, QueueInv, Packets!At, WasSent, Packets!Pending

\* As far as the payloads go that were handed over.
LEMMA SentKept == ASSUME Packets!OnlySent, got' = got, wire \subseteq wire' PROVE Packets!OnlySent'
  BY DEF Packets!OnlySent

\* With no number accepted there is nothing to know.
LEMMA ResetKeeps ==
    ASSUME PacketsInv, Packets!ResetProtection
    PROVE  /\ BufferInv' /\ accepted' = {} /\ session' = session + 1 /\ session' \in Nat
           /\ mostRecent' \in Nat
           /\ received' \in [0..(Packets!BufferSize - 1) -> Nat \union {Packets!Never}]
  BY DEF PacketsInv, Packets!TypeOK, Packets!ResetProtection, Packets!Unused, BufferInv

LEMMA SendStep ==
    ASSUME PacketsInv, NEW k \in Keys, NEW kind \in Packets!Kinds, NEW d \in Payloads,
           Packets!Send(k, kind, d)
    PROVE  PacketsInv' /\ UNCHANGED Packets!Service!served
<1>1. sequence' \in [Keys -> Nat] /\ wire' \subseteq Packets!Packet /\ wire \subseteq wire'
  BY DEF Packets!Send, PacketsInv, Packets!TypeOK, Packets!Packet
<1>2. UNCHANGED Packets!receiver
  BY DEF Packets!Send
<1>3. QueueInv' /\ Packets!Pending' = Packets!Pending /\ Packets!OnlySent'
  BY <1>1, <1>2, QueueKept, SentKept DEF Packets!receiver, PacketsInv
<1>. QED BY <1>1, <1>2, <1>3 DEF PacketsInv, Packets!TypeOK, BufferInv, Packets!receiver,
                                 Packets!Service!served

LEMMA NumberStep ==
    ASSUME PacketsInv, NEW k \in Keys, Packets!SendHandshake(k) \/ Packets!SenderBegins(k)
    PROVE  PacketsInv' /\ UNCHANGED Packets!Service!served
<1>1. sequence' \in [Keys -> Nat] /\ wire' = wire /\ UNCHANGED Packets!receiver
  BY DEF Packets!SendHandshake, Packets!SenderBegins, PacketsInv, Packets!TypeOK
<1>2. QueueInv' /\ Packets!Pending' = Packets!Pending /\ Packets!OnlySent'
  BY <1>1, QueueKept, SentKept DEF Packets!receiver, PacketsInv
<1>. QED BY <1>1, <1>2 DEF PacketsInv, Packets!TypeOK, BufferInv, Packets!receiver,
                           Packets!Service!served

\* A number that is taken without a payload.
LEMMA ReadOther ==
    ASSUME PacketsInv, NEW p \in wire, Packets!ReadKeepAlive(p) \/ Packets!ReadDisconnect(p)
    PROVE  PacketsInv' /\ Packets!Service!Take(p.sequence) /\ p.sequence \in Nat
<1>1. PICK kind \in Packets!Kinds : Packets!Read(p, kind)
  BY DEF Packets!ReadKeepAlive, Packets!ReadDisconnect, Packets!Kinds
<1>2. /\ UNCHANGED <<queue, start, count>> /\ UNCHANGED <<sequence, wire, key, session, got>>
      /\ state' \in {"disconnected", "request", "response", "connected"}
      /\ accepted' = accepted \union {p.sequence}
  BY <1>1 DEF Packets!ReadKeepAlive, Packets!ReadDisconnect, Packets!Read,
              Packets!AdvanceSequence, PacketsInv, Packets!TypeOK
<1>3. /\ p.sequence \in Nat /\ p.sequence \notin accepted /\ BufferInv' /\ mostRecent' \in Nat
      /\ received' \in [0..(Packets!BufferSize - 1) -> Nat \union {Packets!Never}]
      /\ accepted' \subseteq Nat
  BY <1>1, ReadKeeps
<1>4. QueueInv' /\ Packets!Pending' = Packets!Pending /\ Packets!OnlySent'
  BY <1>2, QueueKept, SentKept DEF PacketsInv
<1>5. Packets!TypeOK'
  BY <1>2, <1>3 DEF PacketsInv, Packets!TypeOK
<1>. QED BY <1>2, <1>3, <1>4, <1>5 DEF PacketsInv, Packets!Service!Take

\* A number with its payload; or without, when it is early or one too many.
LEMMA ReadPayloadStep ==
    ASSUME PacketsInv, NEW p \in wire, Packets!ReadPayload(p)
    PROVE  PacketsInv' /\ Packets!Service!Take(p.sequence) /\ p.sequence \in Nat
<1> DEFINE e == [session |-> session, sequence |-> p.sequence, data |-> p.data]
<1>1. Packets!Read(p, "payload") /\ "payload" \in Packets!Kinds
  BY DEF Packets!ReadPayload, Packets!Kinds
<1>2. /\ UNCHANGED <<sequence, wire, key, session, got, state>> /\ p.kind = "payload"
      /\ accepted' = accepted \union {p.sequence}
  BY <1>1 DEF Packets!ReadPayload, Packets!Read, Packets!AdvanceSequence
<1>3. /\ p.sequence \in Nat /\ p.sequence \notin accepted /\ BufferInv' /\ mostRecent' \in Nat
      /\ received' \in [0..(Packets!BufferSize - 1) -> Nat \union {Packets!Never}]
      /\ accepted' \subseteq Nat
  BY <1>1, ReadKeeps
<1>4. e \in Packets!Entry /\ WasSent(e) /\ e.session = session /\ e.sequence = p.sequence
  BY <1>2, <1>3 DEF PacketsInv, Packets!TypeOK, Packets!Packet, Packets!Entry, WasSent
<1>5. /\ QueueInv' /\ queue' \in [0..(Packets!QueueSize - 1) -> Packets!Entry \union {Nothing}]
      /\ start' \in 0..(Packets!QueueSize - 1) /\ count' \in 0..Packets!QueueSize
      /\ Packets!Pending' = Packets!Pending \/ Packets!Pending' = Append(Packets!Pending, e)
  <2>. HIDE DEF e
  <2>1. CASE Packets!Push(e)
    BY <2>1, <1>2, <1>4, PushKeeps
  <2>2. CASE UNCHANGED <<queue, start, count>>
    BY <2>2, <1>2, QueueKept DEF PacketsInv, Packets!TypeOK
  <2>. QED BY <2>1, <2>2 DEF Packets!ReadPayload, e
<1>6. Packets!OnlySent'
  BY <1>2, SentKept DEF PacketsInv
<1>7. Packets!TypeOK'
  BY <1>2, <1>3, <1>5 DEF PacketsInv, Packets!TypeOK
<1>8. Packets!Service!Take(p.sequence)
  <2>. HIDE DEF e
  <2>. QED BY <1>2, <1>3, <1>4, <1>5 DEF Packets!Service!Take
<1>. QED BY <1>3, <1>5, <1>6, <1>7, <1>8 DEF PacketsInv

LEMMA ChallengeStep == ASSUME PacketsInv, Packets!Challenge
                       PROVE PacketsInv' /\ UNCHANGED Packets!Service!served
<1>1. QueueInv' /\ Packets!Pending' = Packets!Pending /\ Packets!OnlySent'
  BY QueueKept, SentKept DEF Packets!Challenge, PacketsInv
<1>. QED BY <1>1 DEF Packets!Challenge, PacketsInv, Packets!TypeOK, BufferInv,
                     Packets!Service!served

LEMMA ReceiveStep == ASSUME PacketsInv, Packets!ReceivePacket
                     PROVE PacketsInv' /\ Packets!Service!HandOver
<1>1. /\ Packets!Pending # <<>> /\ got' = Append(got, Head(Packets!Pending))
      /\ Packets!Pending' = Tail(Packets!Pending)
      /\ queue[start] \in Packets!Entry /\ WasSent(queue[start]) /\ QueueInv'
      /\ start' \in 0..(Packets!QueueSize - 1) /\ count' \in 0..Packets!QueueSize
  BY PopKeeps
<1>2. /\ UNCHANGED <<sequence, wire, state, key, mostRecent, received, queue, session, accepted>>
      /\ got' = Append(got, queue[start]) /\ got \in Seq(Packets!Entry)
  BY DEF Packets!ReceivePacket, PacketsInv, Packets!TypeOK
<1>3. /\ got' \in Seq(Packets!Entry) /\ Len(got') = Len(got) + 1 /\ Len(got) \in Nat
      /\ \A i \in 1..Len(got) : got'[i] = got[i]
      /\ got'[Len(got) + 1] = queue[start]
  BY <1>1, <1>2, AppendProperties
<1>4. Packets!OnlySent'
  <2>1. \A i \in 1..Len(got') : i \in 1..Len(got) \/ i = Len(got) + 1
    BY <1>3
  <2>. QED BY <2>1, <1>1, <1>2, <1>3 DEF PacketsInv, Packets!OnlySent, WasSent
<1>5. Packets!TypeOK' /\ BufferInv'
  BY <1>1, <1>2, <1>3 DEF PacketsInv, Packets!TypeOK, BufferInv
<1>. QED BY <1>1, <1>2, <1>4, <1>5 DEF PacketsInv, Packets!Service!HandOver

\* Every way to a new session; the queue is kept or emptied.
LEMMA BeginStep ==
    ASSUME PacketsInv,
           \/ Packets!End \/ Packets!NextServer
           \/ \E k \in Keys, s \in {"request", "connected"} : Packets!Begin(k, s)
    PROVE  PacketsInv' /\ Packets!Service!Begin
<1>1. /\ Packets!ResetProtection /\ UNCHANGED <<sequence, wire, got>> /\ key' \in Keys
      /\ state' \in {"disconnected", "request", "response", "connected"}
  BY DEF Packets!End, Packets!NextServer, Packets!Begin, PacketsInv, Packets!TypeOK
<1>2. /\ QueueInv' /\ queue' \in [0..(Packets!QueueSize - 1) -> Packets!Entry \union {Nothing}]
      /\ start' \in 0..(Packets!QueueSize - 1) /\ count' \in 0..Packets!QueueSize
      /\ Packets!Pending' \in {<<>>, Packets!Pending}
  <2>1. CASE Packets!End
    <3>1. queue' = Packets!Empty /\ start' = 0 /\ count' = 0
      BY <2>1 DEF Packets!End
    <3>2. Packets!Pending' = <<>> /\ QueueInv'
      <4>1. 1..0 = {} /\ 0..(0 - 1) = {}
        OBVIOUS
      <4>2. Packets!Pending' = [i \in 1..0 |-> queue'[Packets!At(i - 1)']]
        BY <3>1 DEF Packets!Pending
      <4>. QED BY <3>1, <4>1, <4>2 DEF QueueInv
    <3>. QED BY <3>1, <3>2 DEF Packets!Empty, Packets!QueueSize
  <2>2. CASE UNCHANGED <<queue, start, count>>
    BY <2>2, <1>1, QueueKept DEF PacketsInv, Packets!TypeOK
  <2>. QED BY <2>1, <2>2 DEF Packets!NextServer, Packets!Begin
<1>3. Packets!OnlySent'
  BY <1>1, SentKept DEF PacketsInv
<1>4. BufferInv' /\ Packets!TypeOK'
  BY <1>1, <1>2, ResetKeeps DEF PacketsInv, Packets!TypeOK
<1>. QED BY <1>1, <1>2, <1>3, <1>4, ResetKeeps DEF PacketsInv, Packets!Service!Begin
-----------------------------------------------------------------------------
(* The theorems.                                                           *)

LEMMA PacketsInit == Packets!Init => PacketsInv /\ Packets!Service!Init
<1> SUFFICES ASSUME Packets!Init PROVE PacketsInv /\ Packets!Service!Init
  OBVIOUS
<1>1. 1..0 = {} /\ 0..(0 - 1) = {}
  OBVIOUS
<1>2. Packets!TypeOK
  BY DEF Packets!Init, Packets!TypeOK, Packets!Unused, Packets!Empty, Packets!QueueSize,
         Packets!Kinds
<1>3. BufferInv /\ QueueInv /\ Packets!OnlySent
  BY <1>1 DEF Packets!Init, BufferInv, QueueInv, Packets!OnlySent, Packets!Unused
<1>4. Packets!Pending = <<>>
  BY <1>1 DEF Packets!Init, Packets!Pending
<1>. QED BY <1>2, <1>3, <1>4 DEF Packets!Init, PacketsInv, Packets!Service!Init

LEMMA PacketsStep ==
    PacketsInv /\ [Packets!Next]_(Packets!vars)
    => PacketsInv' /\ [Packets!Service!Next]_(Packets!Service!served)
<1> SUFFICES ASSUME PacketsInv, [Packets!Next]_(Packets!vars)
             PROVE  PacketsInv' /\ [Packets!Service!Next]_(Packets!Service!served)
  OBVIOUS
<1>1. CASE UNCHANGED Packets!vars
  <2>1. QueueInv' /\ Packets!Pending' = Packets!Pending /\ Packets!OnlySent'
    BY <1>1, QueueKept, SentKept DEF PacketsInv, Packets!vars, Packets!receiver
  <2>. QED BY <2>1, <1>1 DEF PacketsInv, Packets!TypeOK, BufferInv, Packets!vars,
                             Packets!receiver, Packets!Service!served
<1>2. CASE Packets!Next
  <2>1. CASE \/ \E k \in Keys, kind \in Packets!Kinds, d \in Payloads : Packets!Send(k, kind, d)
             \/ \E k \in Keys : Packets!SendHandshake(k) \/ Packets!SenderBegins(k)
             \/ Packets!Challenge
    BY <2>1, SendStep, NumberStep, ChallengeStep
  <2>2. CASE \E p \in wire : \/ Packets!ReadKeepAlive(p)
                             \/ Packets!ReadPayload(p) \/ Packets!ReadDisconnect(p)
    BY <2>2, ReadOther, ReadPayloadStep DEF Packets!Service!Next
  <2>3. CASE Packets!ReceivePacket
    BY <2>3, ReceiveStep DEF Packets!Service!Next
  <2>4. CASE \/ Packets!End \/ Packets!NextServer
             \/ \E k \in Keys, s \in {"request", "connected"} : Packets!Begin(k, s)
    BY <2>4, BeginStep DEF Packets!Service!Next
  <2>. QED BY <1>2, <2>1, <2>2, <2>3, <2>4 DEF Packets!Next
<1>. QED BY <1>1, <1>2

\* What can be relied on in every state.
THEOREM PacketsInvariant == Packets!Spec => []PacketsInv
  BY PacketsInit, PacketsStep, PTL DEF Packets!Spec

\* No new number in the window is turned away, and no old one accepted
\* (netcode_replay_protection_already_received), for numbers as large as they come.
THEOREM ProtectionExact == Packets!Spec => []Packets!WindowExact
<1>1. PacketsInv => Packets!WindowExact
  BY Exact DEF PacketsInv
<1>. QED BY <1>1, PacketsInvariant, PTL

\* What netcode_client_receive_packet returns was sent to it.
THEOREM NothingInvented == Packets!Spec => []Packets!OnlySent
<1>1. PacketsInv => Packets!OnlySent
  BY DEF PacketsInv
<1>. QED BY <1>1, PacketsInvariant, PTL

\* Replay protection, ring and sessions amount to the abstract service.
THEOREM PacketsAreService == Packets!Spec => Packets!IsService
  BY PacketsInit, PacketsStep, PacketsInvariant, PTL DEF Packets!Spec, Packets!IsService,
                                                         Packets!Service!Spec
-----------------------------------------------------------------------------
(***************************************************************************)
(* The service keeps what it promises: no payload twice.                   *)
(***************************************************************************)
PromiseType ==
    /\ Packets!Pending \in Seq(Packets!Entry) /\ got \in Seq(Packets!Entry)
    /\ session \in Nat /\ accepted \subseteq Nat

\* A payload of this session comes with a number that was accepted.
Noted(e) == e.session \in 0..session /\ (e.session = session => e.sequence \in accepted)

AllNoted == /\ \A i \in 1..Len(got) : Noted(got[i])
            /\ \A i \in 1..Len(Packets!Pending) : Noted(Packets!Pending[i])

Apart == /\ \A i, j \in 1..Len(Packets!Pending) :
               i # j => ~Packets!Service!Same(Packets!Pending[i], Packets!Pending[j])
         /\ \A i \in 1..Len(got), j \in 1..Len(Packets!Pending) :
               ~Packets!Service!Same(got[i], Packets!Pending[j])

PromiseInv == PromiseType /\ AllNoted /\ Packets!HandedOverOnce /\ Apart

\* A payload whose number is new is unlike any that is known.
LEMMA TakeKeeps == ASSUME PromiseInv, NEW s \in Nat, Packets!Service!Take(s) PROVE PromiseInv'
<1> USE DEF PromiseInv
<1>1. CASE Packets!Pending' = Packets!Pending
  <2>1. got' = got /\ session' = session /\ accepted' = accepted \union {s}
    BY DEF Packets!Service!Take
  <2>2. PromiseType' /\ AllNoted'
    BY <1>1, <2>1 DEF PromiseType, AllNoted, Noted
  <2>3. Packets!HandedOverOnce' /\ Apart'
    BY <1>1, <2>1 DEF Packets!HandedOverOnce,
                      Packets!Service!AtMostOnce, Apart, Packets!Service!Same
  <2>. QED BY <2>2, <2>3
<1>2. ASSUME NEW e \in Packets!Entry, e.session = session, e.sequence = s,
             Packets!Pending' = Append(Packets!Pending, e)
      PROVE  PromiseInv'
  <2>1. /\ Packets!Pending' \in Seq(Packets!Entry)
        /\ Len(Packets!Pending') = Len(Packets!Pending) + 1
        /\ \A i \in 1..Len(Packets!Pending) : Packets!Pending'[i] = Packets!Pending[i]
        /\ Packets!Pending'[Len(Packets!Pending) + 1] = e
    BY <1>2 DEF PromiseType
  <2>2. Len(Packets!Pending) \in Nat /\ got' = got /\ session' = session /\ s \notin accepted
        /\ accepted' = accepted \union {s}
    BY DEF PromiseType, Packets!Service!Take
  <2>3. \A i \in 1..Len(Packets!Pending') :
            i \in 1..Len(Packets!Pending) \/ i = Len(Packets!Pending) + 1
    BY <2>1, <2>2
  <2>4. PromiseType'
    BY <2>1, <2>2 DEF PromiseType
  <2>5. AllNoted'
    BY <1>2, <2>1, <2>2, <2>3 DEF AllNoted, Noted, PromiseType
  <2>6. \A f : Noted(f) => ~Packets!Service!Same(f, e) /\ ~Packets!Service!Same(e, f)
    BY <1>2, <2>2 DEF Noted, Packets!Service!Same
  <2>7. Apart'
    BY <2>1, <2>2, <2>3, <2>6 DEF Apart, AllNoted
  <2>8. Packets!HandedOverOnce'
    BY <2>2 DEF Packets!HandedOverOnce, Packets!Service!AtMostOnce, Packets!Service!Same
  <2>. QED BY <2>4, <2>5, <2>7, <2>8
<1>. QED BY <1>1, <1>2 DEF Packets!Service!Take

\* The oldest payload goes from one end to the other.
LEMMA HandOverKeeps == ASSUME PromiseInv, Packets!Service!HandOver PROVE PromiseInv'
<1> USE DEF PromiseInv
<1>1. /\ Len(Packets!Pending) \in Nat \ {0} /\ Len(got) \in Nat
      /\ got' \in Seq(Packets!Entry) /\ Len(got') = Len(got) + 1
      /\ \A i \in 1..Len(got) : got'[i] = got[i]
      /\ got'[Len(got) + 1] = Packets!Pending[1]
  BY DEF Packets!Service!HandOver, PromiseType
<1>2. /\ Packets!Pending' \in Seq(Packets!Entry) /\ Len(Packets!Pending') = Len(Packets!Pending) - 1
      /\ \A i \in 1..Len(Packets!Pending') : Packets!Pending'[i] = Packets!Pending[i + 1]
  BY DEF Packets!Service!HandOver, PromiseType
<1>3. session' = session /\ accepted' = accepted
  BY DEF Packets!Service!HandOver
<1>4. /\ \A i \in 1..Len(Packets!Pending') : i + 1 \in 1..Len(Packets!Pending) /\ i + 1 # 1
      /\ 1 \in 1..Len(Packets!Pending)
      /\ \A i \in 1..Len(got') : i \in 1..Len(got) \/ i = Len(got) + 1
  BY <1>1, <1>2
<1>5. PromiseType'
  BY <1>1, <1>2, <1>3 DEF PromiseType
<1>6. AllNoted'
  BY <1>1, <1>2, <1>3, <1>4 DEF AllNoted, Noted
<1>7. Packets!HandedOverOnce'
  BY <1>1, <1>4 DEF Packets!HandedOverOnce,
                    Packets!Service!AtMostOnce, Apart, Packets!Service!Same
<1>8. Apart'
  <2>1. ASSUME NEW i \in 1..Len(Packets!Pending'), NEW j \in 1..Len(Packets!Pending'), i # j
        PROVE  ~Packets!Service!Same(Packets!Pending'[i], Packets!Pending'[j])
    <3>1. i + 1 # j + 1
      BY <1>2, <2>1
    <3>2. ~Packets!Service!Same(Packets!Pending[i + 1], Packets!Pending[j + 1])
      BY <3>1, <1>4 DEF Apart
    <3>. QED BY <3>2, <1>2
  <2>2. ASSUME NEW i \in 1..Len(got'), NEW j \in 1..Len(Packets!Pending')
        PROVE  ~Packets!Service!Same(got'[i], Packets!Pending'[j])
    <3>1. CASE i \in 1..Len(got)
      BY <3>1, <1>1, <1>2, <1>4 DEF Apart
    <3>2. CASE i = Len(got) + 1
      <4>1. ~Packets!Service!Same(Packets!Pending[1], Packets!Pending[j + 1])
        BY <1>4 DEF Apart
      <4>. QED BY <4>1, <3>2, <1>1, <1>2
    <3>. QED BY <3>1, <3>2, <1>4
  <2>. QED BY <2>1, <2>2 DEF Apart, Packets!Service!Same
<1>. QED BY <1>5, <1>6, <1>7, <1>8

\* The payloads that are known belong to sessions that are over.
LEMMA BeginKeeps == ASSUME PromiseInv, Packets!Service!Begin PROVE PromiseInv'
<1>1. CASE Packets!Pending' = Packets!Pending
  BY <1>1 DEF PromiseInv, Packets!Service!Begin, PromiseType, AllNoted, Noted,
              Packets!HandedOverOnce,
              Packets!Service!AtMostOnce, Apart, Packets!Service!Same
<1>2. CASE Packets!Pending' = <<>>
  <2>1. Packets!Pending' \in Seq(Packets!Entry) /\ 1..Len(Packets!Pending') = {}
    BY <1>2
  <2>. QED BY <2>1 DEF PromiseInv, Packets!Service!Begin, PromiseType, AllNoted, Noted,
                       Packets!HandedOverOnce,
                       Packets!Service!AtMostOnce, Apart, Packets!Service!Same
<1>. QED BY <1>1, <1>2 DEF Packets!Service!Begin

\* No payload is handed over twice between two resets of replay protection.
THEOREM OnceEach == Packets!Spec => []Packets!HandedOverOnce
<1>1. Packets!Service!Init => PromiseInv
  <2>1. <<>> \in Seq(Packets!Entry) /\ Len(<<>>) = 0 /\ 1..0 = {}
    OBVIOUS
  <2>. QED BY <2>1 DEF Packets!Service!Init, PromiseInv, PromiseType, AllNoted, Apart,
                       Packets!HandedOverOnce,
                       Packets!Service!AtMostOnce
<1>2. PromiseInv /\ [Packets!Service!Next]_(Packets!Service!served) => PromiseInv'
  <2> SUFFICES ASSUME PromiseInv, [Packets!Service!Next]_(Packets!Service!served) PROVE PromiseInv'
    OBVIOUS
  <2>1. CASE UNCHANGED Packets!Service!served
    BY <2>1 DEF Packets!Service!served, PromiseInv, PromiseType, AllNoted, Noted,
                Packets!HandedOverOnce,
                Packets!Service!AtMostOnce, Apart, Packets!Service!Same
  <2>2. CASE Packets!Service!Next
    BY <2>2, TakeKeeps, HandOverKeeps, BeginKeeps DEF Packets!Service!Next
  <2>. QED BY <2>1, <2>2
<1>3. PromiseInv => Packets!HandedOverOnce
  BY DEF PromiseInv
<1>4. Packets!IsService => []Packets!HandedOverOnce
  BY <1>1, <1>2, <1>3, PTL DEF Packets!IsService, Packets!Service!Spec
<1>. QED BY <1>4, PacketsAreService, PTL
================================================================================
