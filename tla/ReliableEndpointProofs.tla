----------------------- MODULE ReliableEndpointProofs -----------------------
(***************************************************************************)
(* The endpoints of reliable.io keep what they promise to the channels     *)
(* above them, for any sizes of their buffers: a packet is processed once  *)
(* at most and whole, and told of as acknowledged once, and truthfully.    *)
(***************************************************************************)
EXTENDS ReliableEndpoint, SequenceTheorems, TLAPS

(***************************************************************************)
(* Remainders.                                                             *)
(***************************************************************************)
LEMMA Division ==
    ASSUME NEW n \in Nat \ {0}, NEW a \in Int
    PROVE  a = n * (a \div n) + (a % n) /\ a \div n \in Int /\ a % n \in 0..(n - 1)
  OBVIOUS

\* The only multiple of n nearer to 0 than n is 0.
LEMMA NoMultiple ==
    ASSUME NEW n \in Nat \ {0}, NEW q \in Int, -n < n * q, n * q < n PROVE q = 0
<1>1. CASE q >= 1
  <2>1. n * q >= n
    BY <1>1
  <2>. QED BY <2>1
<1>2. CASE q <= -1
  <2>1. n * q <= -n
    BY <1>2
  <2>. QED BY <2>1
<1>. QED BY <1>1, <1>2

LEMMA Remainder == ASSUME NEW n \in Nat \ {0}, NEW q \in Int, NEW r \in 0..(n - 1)
                   PROVE  (n * q + r) % n = r
<1> DEFINE a == n * q + r
           d == q - (a \div n)
<1>1. a \in Int
  OBVIOUS
<1>2. a = n * (a \div n) + (a % n) /\ a \div n \in Int /\ a % n \in 0..(n - 1)
  BY Division, <1>1
<1>3. n * d = n * q - n * (a \div n)
  BY <1>2
<1>4. n * d = (a % n) - r /\ d \in Int
  BY <1>2, <1>3
<1>5. -n < n * d /\ n * d < n
  BY <1>2, <1>4
<1>6. d = 0
  <2> HIDE DEF d
  <2>. QED BY <1>4, <1>5, NoMultiple
<1>. QED BY <1>2, <1>4, <1>6

LEMMA Multiples == ASSUME NEW n \in Nat \ {0}, NEW a \in Int, NEW q \in Int
                   PROVE  (a + n * q) % n = a % n
<1> DEFINE d == a \div n
           r == a % n
<1>1. a = n * d + r /\ d \in Int /\ r \in 0..(n - 1)
  BY Division
<1> HIDE DEF d, r
<1>2. a + n * q = n * (d + q) + r
  BY <1>1
<1>3. (n * (d + q) + r) % n = r
  BY <1>1, Remainder
<1>. QED BY <1>2, <1>3 DEF r

\* Numbers less than n apart have different remainders.
LEMMA Apart ==
    ASSUME NEW n \in Nat \ {0}, NEW a \in Int, NEW b \in Int, a % n = b % n, a - b < n, b - a < n
    PROVE  a = b
<1> DEFINE d == a \div n
           f == b \div n
           r == a % n
<1>1. a = n * d + r /\ d \in Int /\ r \in 0..(n - 1) /\ b = n * f + r /\ f \in Int
  BY Division
<1> HIDE DEF d, r, f
<1>2. n * (d - f) = a - b
  BY <1>1
<1>3. d - f \in Int
  BY <1>1
<1>4. d - f = 0
  BY <1>2, <1>3, NoMultiple
<1>. QED BY <1>2, <1>4
-----------------------------------------------------------------------------
(***************************************************************************)
(* Sequence numbers.  What Distance(s, q) is to s, is called its age below, *)
(* when q is the next number.                                              *)
(***************************************************************************)
Half == Wrap \div 2

LEMMA WrapIsEven == Wrap \in Nat \ {0} /\ Half \in Nat \ {0} /\ Wrap = 2 * Half
  BY WrapAssumption DEF Half

LEMMA Wrapped == ASSUME NEW a \in Int, -Wrap <= a, a < 2 * Wrap
                 PROVE  a % Wrap = IF a < 0 THEN a + Wrap ELSE IF a < Wrap THEN a ELSE a - Wrap
<1>1. CASE a < 0
  <2>1. a + Wrap \in 0..(Wrap - 1) /\ a = Wrap * (-1) + (a + Wrap)
    BY <1>1, WrapIsEven
  <2>. QED BY <1>1, <2>1, WrapIsEven, Remainder
<1>2. CASE 0 <= a /\ a < Wrap
  <2>1. a \in 0..(Wrap - 1) /\ a = Wrap * 0 + a
    BY <1>2, WrapIsEven
  <2>. QED BY <1>2, <2>1, WrapIsEven, Remainder
<1>3. CASE Wrap <= a
  <2>1. a - Wrap \in 0..(Wrap - 1) /\ a = Wrap * 1 + (a - Wrap)
    BY <1>3, WrapIsEven
  <2>. QED BY <1>3, <2>1, WrapIsEven, Remainder
<1>. QED BY <1>1, <1>2, <1>3, WrapIsEven

LEMMA DistanceIs == ASSUME NEW s \in Sequence, NEW t \in Sequence
                    PROVE  /\ Distance(s, t) = IF s <= t THEN t - s ELSE t - s + Wrap
                           /\ Distance(s, t) \in Sequence
<1> DEFINE a == t - s
<1>1. s \in 0..(Wrap - 1) /\ t \in 0..(Wrap - 1) /\ Wrap \in Nat \ {0}
  BY WrapIsEven DEF Sequence
<1>2. a \in Int /\ -Wrap <= a /\ a < 2 * Wrap
  BY <1>1
<1>3. a % Wrap = IF a < 0 THEN a + Wrap ELSE IF a < Wrap THEN a ELSE a - Wrap
  <2> HIDE DEF a
  <2>. QED BY <1>2, Wrapped
<1>. QED BY <1>1, <1>3 DEF Distance, Sequence

LEMMA AgeIs == ASSUME NEW s \in Sequence, NEW q \in Sequence
               PROVE  /\ Distance(s, q) \in Int /\ 0 <= Distance(s, q) /\ Distance(s, q) < Wrap
                      /\ Distance(q, q) = 0
<1>1. Distance(s, q) \in 0..(Wrap - 1)
  BY DistanceIs DEF Sequence
<1>2. Distance(q, q) = q - q /\ q \in Int
  BY DistanceIs, WrapIsEven DEF Sequence
<1>. QED BY <1>1, <1>2, WrapIsEven

LEMMA LaterIs == ASSUME NEW s \in Sequence, NEW n \in 0..Wrap
                 PROVE  /\ Later(s, n) = IF s + n < Wrap THEN s + n ELSE s + n - Wrap
                        /\ Later(s, n) \in Sequence
<1> DEFINE a == s + n
<1>1. s \in 0..(Wrap - 1) /\ n \in 0..Wrap /\ Wrap \in Nat \ {0}
  BY WrapIsEven DEF Sequence
<1>2. a \in Int /\ -Wrap <= a /\ a < 2 * Wrap
  BY <1>1
<1>3. a % Wrap = IF a < 0 THEN a + Wrap ELSE IF a < Wrap THEN a ELSE a - Wrap
  <2> HIDE DEF a
  <2>. QED BY <1>2, Wrapped
<1>. QED BY <1>1, <1>3 DEF Later, Sequence

\* Back is what the numbers of packets in flight are.
LEMMA BackIs == ASSUME NEW s \in Sequence, NEW n \in 0..Wrap
                PROVE  /\ (s - n) % Wrap = IF n <= s THEN s - n ELSE s - n + Wrap
                       /\ (s - n) % Wrap \in Sequence
                       /\ n < Wrap => Distance((s - n) % Wrap, s) = n
<1> DEFINE a == s - n
           b == a % Wrap
<1>1. s \in 0..(Wrap - 1) /\ n \in 0..Wrap /\ Wrap \in Nat \ {0}
  BY WrapIsEven DEF Sequence
<1>2. a \in Int /\ -Wrap <= a /\ a < 2 * Wrap
  BY <1>1
<1>3. a % Wrap = IF a < 0 THEN a + Wrap ELSE IF a < Wrap THEN a ELSE a - Wrap
  <2> HIDE DEF a
  <2>. QED BY <1>2, Wrapped
<1>4. b = (IF n <= s THEN s - n ELSE s - n + Wrap) /\ b \in Sequence
  BY <1>1, <1>3 DEF Sequence
<1>5. n < Wrap => Distance(b, s) = n
  <2> HIDE DEF b
  <2>1. Distance(b, s) = IF b <= s THEN s - b ELSE s - b + Wrap
    BY <1>4, DistanceIs
  <2>. QED BY <2>1, <1>1, <1>4
<1>. QED BY <1>4, <1>5

\* Numbers of one age are one.
LEMMA OneAge == ASSUME NEW s \in Sequence, NEW t \in Sequence, NEW q \in Sequence,
                       Distance(s, q) = Distance(t, q)
                PROVE  s = t
<1>1. s \in 0..(Wrap - 1) /\ t \in 0..(Wrap - 1) /\ q \in 0..(Wrap - 1) /\ Wrap \in Nat \ {0}
  BY WrapIsEven DEF Sequence
<1>2. /\ Distance(s, q) = IF s <= q THEN q - s ELSE q - s + Wrap
      /\ Distance(t, q) = IF t <= q THEN q - t ELSE q - t + Wrap
  BY DistanceIs
<1> DEFINE a == Distance(s, q)
           b == Distance(t, q)
<1>3. a = b /\ a \in Int /\ b \in Int
  BY DistanceIs DEF Sequence
<1>4. s = (IF a <= q THEN q - a ELSE q - a + Wrap) /\ t = (IF b <= q THEN q - b ELSE q - b + Wrap)
  <2> HIDE DEF a, b
  <2>1. a = (IF s <= q THEN q - s ELSE q - s + Wrap)
    BY <1>2 DEF a
  <2>2. b = (IF t <= q THEN q - t ELSE q - t + Wrap)
    BY <1>2 DEF b
  <2>3. s = (IF a <= q THEN q - a ELSE q - a + Wrap)
    BY <2>1, <1>1, <1>3
  <2>4. t = (IF b <= q THEN q - b ELSE q - b + Wrap)
    BY <2>2, <1>1, <1>3
  <2>. QED BY <2>3, <2>4
<1> HIDE DEF a, b
<1>. QED BY <1>3, <1>4

\* One number more has been sent.
LEMMA Ageing == ASSUME NEW s \in Sequence, NEW q \in Sequence
                PROVE  Distance(s, Later(q, 1)) =
                          IF Distance(s, q) = Wrap - 1 THEN 0 ELSE Distance(s, q) + 1
<1>1. s \in 0..(Wrap - 1) /\ q \in 0..(Wrap - 1) /\ Wrap \in Nat \ {0} /\ 1 \in 0..Wrap
  BY WrapIsEven DEF Sequence
<1>2. Later(q, 1) \in Sequence /\ Later(q, 1) = IF q + 1 < Wrap THEN q + 1 ELSE q + 1 - Wrap
  BY <1>1, LaterIs
<1>3. /\ Distance(s, q) = IF s <= q THEN q - s ELSE q - s + Wrap
      /\ Distance(s, Later(q, 1)) = IF s <= Later(q, 1) THEN Later(q, 1) - s
                                                        ELSE Later(q, 1) - s + Wrap
  BY <1>2, DistanceIs
<1>. QED BY <1>1, <1>2, <1>3

\* The next one is one younger.
LEMMA NextIsYounger == ASSUME NEW s \in Sequence, NEW q \in Sequence, s # q
                       PROVE  /\ Distance(Later(s, 1), q) = Distance(s, q) - 1
                              /\ Later(s, 1) \in Sequence
<1>1. s \in 0..(Wrap - 1) /\ q \in 0..(Wrap - 1) /\ Wrap \in Nat \ {0} /\ 1 \in 0..Wrap
  BY WrapIsEven DEF Sequence
<1>2. Later(s, 1) \in Sequence /\ Later(s, 1) = IF s + 1 < Wrap THEN s + 1 ELSE s + 1 - Wrap
  BY <1>1, LaterIs
<1>3. /\ Distance(s, q) = IF s <= q THEN q - s ELSE q - s + Wrap
      /\ Distance(Later(s, 1), q) = IF Later(s, 1) <= q THEN q - Later(s, 1)
                                                        ELSE q - Later(s, 1) + Wrap
  BY <1>2, DistanceIs
<1>. QED BY <1>1, <1>2, <1>3

\* Among the numbers of half a lap, the younger is the greater.
LEMMA GreaterIsYounger ==
    ASSUME NEW s \in Sequence, NEW t \in Sequence, NEW q \in Sequence,
           Distance(s, q) - Distance(t, q) < Half, Distance(t, q) - Distance(s, q) < Half
    PROVE  GreaterThan(s, t) <=> Distance(s, q) < Distance(t, q)
<1>1. /\ Distance(s, q) = IF s <= q THEN q - s ELSE q - s + Wrap
      /\ Distance(t, q) = IF t <= q THEN q - t ELSE q - t + Wrap
  BY DistanceIs
<1>2. GreaterThan(s, t) <=> (s > t /\ s - t <= Half) \/ (s < t /\ t - s > Half)
  BY DEF GreaterThan, Half
<1>. QED BY <1>1, <1>2, WrapIsEven DEF Sequence

\* How far t is from s, by their ages.
LEMMA ByAge == ASSUME NEW s \in Sequence, NEW t \in Sequence, NEW q \in Sequence
               PROVE  Distance(s, t) = IF Distance(s, q) >= Distance(t, q)
                                       THEN Distance(s, q) - Distance(t, q)
                                       ELSE Distance(s, q) - Distance(t, q) + Wrap
<1>1. s \in 0..(Wrap - 1) /\ t \in 0..(Wrap - 1) /\ q \in 0..(Wrap - 1) /\ Wrap \in Nat \ {0}
  BY WrapIsEven DEF Sequence
<1>2. /\ Distance(s, q) = IF s <= q THEN q - s ELSE q - s + Wrap
      /\ Distance(t, q) = IF t <= q THEN q - t ELSE q - t + Wrap
      /\ Distance(s, t) = IF s <= t THEN t - s ELSE t - s + Wrap
  BY DistanceIs
<1>. QED BY <1>1, <1>2
-----------------------------------------------------------------------------
(***************************************************************************)
(* Buffers, of entries of any kind.                                        *)
(***************************************************************************)
Buffers(size, V) ==
    {b \in [size : {size}, next : Sequence, live : UNION {[D -> V] : D \in SUBSET Sequence}] :
        WellFormed(b)}

LEMMA BufferIs ==
    ASSUME NEW size, NEW V, NEW b \in Buffers(size, V)
    PROVE  /\ b.size = size /\ b.next \in Sequence /\ DOMAIN b.live \subseteq Sequence
           /\ \A s \in DOMAIN b.live : b.live[s] \in V
           /\ b.live \in [DOMAIN b.live -> V]
           /\ b = [size |-> b.size, next |-> b.next, live |-> b.live]
           /\ WellFormed(b)
<1>1. /\ b \in [size : {size}, next : Sequence, live : UNION {[D -> V] : D \in SUBSET Sequence}]
      /\ WellFormed(b)
  BY DEF Buffers
<1>2. b.live \in UNION {[D -> V] : D \in SUBSET Sequence}
  BY <1>1
<1>3. PICK D \in SUBSET Sequence : b.live \in [D -> V]
  BY <1>2
<1>. QED BY <1>1, <1>3

LEMMA IsBuffer ==
    ASSUME NEW size, NEW V, NEW next \in Sequence, NEW D \in SUBSET Sequence, NEW f \in [D -> V],
           \A s, t \in D : s % size = t % size => s = t
    PROVE  [size |-> size, next |-> next, live |-> f] \in Buffers(size, V)
<1> DEFINE b == [size |-> size, next |-> next, live |-> f]
<1>1. b \in [size : {size}, next : Sequence, live : UNION {[E -> V] : E \in SUBSET Sequence}]
  <2>1. f \in UNION {[E -> V] : E \in SUBSET Sequence}
    OBVIOUS
  <2>. QED BY <2>1
<1>2. b.size = size /\ b.next = next /\ b.live = f /\ DOMAIN f = D
  OBVIOUS
<1>3. WellFormed(b)
  BY <1>2 DEF WellFormed, Slot
<1>. QED BY <1>1, <1>3 DEF Buffers

LEMMA NewBuffer == ASSUME NEW size, NEW V
                   PROVE  Buffer(size) \in Buffers(size, V) /\ DOMAIN Buffer(size).live = {}
                          /\ Buffer(size).next = 0
<1>1. 0 \in Sequence
  BY WrapIsEven DEF Sequence
<1>2. <<>> \in [{} -> V] /\ DOMAIN <<>> = {}
  OBVIOUS
<1>3. [size |-> size, next |-> 0, live |-> <<>>] \in Buffers(size, V)
  BY <1>1, <1>2, IsBuffer
<1>. QED BY <1>2, <1>3 DEF Buffer

\* Less is left when slots are freed, and what is left is the same.
LEMMA FreeIs ==
    ASSUME NEW size, NEW V, NEW b \in Buffers(size, V), NEW slots
    PROVE  /\ Free(b, slots) \in Buffers(size, V)
           /\ Free(b, slots).next = b.next
           /\ DOMAIN Free(b, slots).live = {s \in DOMAIN b.live : s % size \notin slots}
           /\ \A s \in DOMAIN Free(b, slots).live : Free(b, slots).live[s] = b.live[s]
<1> DEFINE left == {s \in DOMAIN b.live : s % size \notin slots}
           f == [s \in left |-> b.live[s]]
<1>1. /\ b.size = size /\ b.next \in Sequence /\ DOMAIN b.live \subseteq Sequence
      /\ \A s \in DOMAIN b.live : b.live[s] \in V
      /\ b = [size |-> b.size, next |-> b.next, live |-> b.live]
      /\ WellFormed(b)
  BY BufferIs
<1>2. Free(b, slots) = [size |-> size, next |-> b.next, live |-> f]
  BY <1>1 DEF Free, Slot
<1>3. f \in [left -> V] /\ left \in SUBSET Sequence
  BY <1>1
<1>4. \A s, t \in left : s % size = t % size => s = t
  BY <1>1 DEF WellFormed, Slot
<1>5. Free(b, slots) \in Buffers(size, V)
  <2> HIDE DEF left, f
  <2>. QED BY <1>1, <1>2, <1>3, <1>4, IsBuffer
<1>6. Free(b, slots).next = b.next /\ Free(b, slots).live = f
  BY <1>2
<1>. QED BY <1>5, <1>6

LEMMA RemoveIs ==
    ASSUME NEW size, NEW V, NEW b \in Buffers(size, V), NEW s
    PROVE  /\ Remove(b, s) \in Buffers(size, V)
           /\ Remove(b, s).next = b.next
           /\ DOMAIN Remove(b, s).live = {t \in DOMAIN b.live : t % size # s % size}
           /\ \A t \in DOMAIN Remove(b, s).live : Remove(b, s).live[t] = b.live[t]
<1>1. b.size = size
  BY BufferIs
<1>2. Remove(b, s) = Free(b, {s % size})
  BY <1>1 DEF Remove, Slot
<1>. QED BY <1>2, FreeIs

LEMMA SetEntryIs ==
    ASSUME NEW size, NEW V, NEW b \in Buffers(size, V), NEW s \in Sequence, NEW d \in V
    PROVE  /\ SetEntry(b, s, d) \in Buffers(size, V)
           /\ SetEntry(b, s, d).next = b.next
           /\ DOMAIN SetEntry(b, s, d).live = {t \in DOMAIN b.live : t % size # s % size} \union {s}
           /\ SetEntry(b, s, d).live[s] = d
           /\ \A t \in DOMAIN b.live : t % size # s % size => SetEntry(b, s, d).live[t] = b.live[t]
<1> DEFINE r == Remove(b, s).live
           D == {t \in DOMAIN b.live : t % size # s % size} \union {s}
           f == [t \in D |-> IF t = s THEN d ELSE r[t]]
<1>1. /\ b.size = size /\ b.next \in Sequence /\ DOMAIN b.live \subseteq Sequence
      /\ \A t \in DOMAIN b.live : b.live[t] \in V
      /\ b = [size |-> b.size, next |-> b.next, live |-> b.live]
      /\ WellFormed(b)
  BY BufferIs
<1>2. /\ DOMAIN r = {t \in DOMAIN b.live : t % size # s % size}
      /\ \A t \in DOMAIN r : r[t] = b.live[t]
  BY RemoveIs
<1>3. SetEntry(b, s, d) = [size |-> size, next |-> b.next, live |-> f]
  <2>1. SetEntry(b, s, d) = [b EXCEPT !.live = [t \in DOMAIN r \union {s} |-> IF t = s THEN d ELSE r[t]]]
    BY DEF SetEntry
  <2>2. SetEntry(b, s, d) = [b EXCEPT !.live = f]
    BY <2>1, <1>2
  <2> HIDE DEF f
  <2>. QED BY <2>2, <1>1
<1>4. D \in SUBSET Sequence /\ f \in [D -> V]
  BY <1>1, <1>2
<1>5. \A t, u \in D : t % size = u % size => t = u
  BY <1>1 DEF WellFormed, Slot
<1>6. SetEntry(b, s, d) \in Buffers(size, V)
  <2> HIDE DEF D, f
  <2>. QED BY <1>1, <1>3, <1>4, <1>5, IsBuffer
<1>7. SetEntry(b, s, d).next = b.next /\ SetEntry(b, s, d).live = f
  BY <1>3
<1>. QED BY <1>2, <1>6, <1>7

\* A newer number frees slots, and is followed by the next.
LEMMA AdvanceIs ==
    ASSUME NEW size, NEW V, NEW b \in Buffers(size, V), NEW s \in Sequence
    PROVE  /\ Advance(b, s, Wrap) \in Buffers(size, V)
           /\ Advance(b, s, Wrap).next = IF GreaterThan(Later(s, 1), b.next) THEN Later(s, 1) ELSE b.next
           /\ DOMAIN Advance(b, s, Wrap).live \subseteq DOMAIN b.live
           /\ \A t \in DOMAIN Advance(b, s, Wrap).live : Advance(b, s, Wrap).live[t] = b.live[t]
           /\ ~GreaterThan(Later(s, 1), b.next) => Advance(b, s, Wrap) = b
           /\ GreaterThan(Later(s, 1), b.next) =>
                 Advance(b, s, Wrap).live = RemoveEntries(b, b.next, s, Wrap).live
<1>1. CASE ~GreaterThan(Later(s, 1), b.next)
  <2>1. Advance(b, s, Wrap) = b
    BY <1>1 DEF Advance
  <2>. QED BY <1>1, <2>1
<1>2. CASE GreaterThan(Later(s, 1), b.next)
  <2> DEFINE r == RemoveEntries(b, b.next, s, Wrap)
  <2>1. Advance(b, s, Wrap) = [r EXCEPT !.next = Later(s, 1)]
    BY <1>2 DEF Advance
  <2>2. PICK slots : r = Free(b, slots)
    BY DEF RemoveEntries
  <2> HIDE DEF r
  <2>3. /\ r \in Buffers(size, V)
        /\ DOMAIN r.live \subseteq DOMAIN b.live
        /\ \A t \in DOMAIN r.live : r.live[t] = b.live[t]
    BY <2>2, FreeIs
  <2>4. /\ r.size = size /\ r.next \in Sequence /\ DOMAIN r.live \subseteq Sequence
        /\ r.live \in [DOMAIN r.live -> V]
        /\ r = [size |-> r.size, next |-> r.next, live |-> r.live]
        /\ WellFormed(r)
    BY <2>3, BufferIs
  <2>5. Advance(b, s, Wrap) = [size |-> size, next |-> Later(s, 1), live |-> r.live]
    BY <2>1, <2>4
  <2>6. Later(s, 1) \in Sequence
    BY LaterIs, WrapIsEven
  <2>7. \A t, u \in DOMAIN r.live : t % size = u % size => t = u
    BY <2>4 DEF WellFormed, Slot
  <2>8. [size |-> size, next |-> Later(s, 1), live |-> r.live] \in Buffers(size, V)
    BY <2>4, <2>6, <2>7, IsBuffer
  <2>. QED BY <1>2, <2>3, <2>5, <2>8 DEF r
<1>. QED BY <1>1, <1>2

LEMMA PutIs ==
    ASSUME NEW size, NEW V, NEW b \in Buffers(size, V), NEW s \in Sequence, NEW d \in V
    PROVE  /\ Put(b, s, d, Wrap) \in Buffers(size, V)
           /\ s \in DOMAIN Put(b, s, d, Wrap).live /\ Put(b, s, d, Wrap).live[s] = d
           /\ DOMAIN Put(b, s, d, Wrap).live \subseteq DOMAIN b.live \union {s}
           /\ \A t \in DOMAIN Put(b, s, d, Wrap).live : t # s => Put(b, s, d, Wrap).live[t] = b.live[t]
           /\ Put(b, s, d, Wrap).next = Advance(b, s, Wrap).next
<1> DEFINE a == Advance(b, s, Wrap)
<1>1. /\ a \in Buffers(size, V)
      /\ DOMAIN a.live \subseteq DOMAIN b.live
      /\ \A t \in DOMAIN a.live : a.live[t] = b.live[t]
  BY AdvanceIs
<1>2. Put(b, s, d, Wrap) = SetEntry(a, s, d)
  BY DEF Put
<1> HIDE DEF a
<1>3. /\ SetEntry(a, s, d) \in Buffers(size, V)
      /\ SetEntry(a, s, d).next = a.next
      /\ DOMAIN SetEntry(a, s, d).live = {t \in DOMAIN a.live : t % size # s % size} \union {s}
      /\ SetEntry(a, s, d).live[s] = d
      /\ \A t \in DOMAIN a.live : t % size # s % size => SetEntry(a, s, d).live[t] = a.live[t]
  BY <1>1, SetEntryIs
<1>4. Put(b, s, d, Wrap).next = Advance(b, s, Wrap).next
  BY <1>2, <1>3 DEF a
<1>. QED BY <1>1, <1>2, <1>3, <1>4
-----------------------------------------------------------------------------
(***************************************************************************)
(* The window of a buffer, by the ages of its numbers.                     *)
(***************************************************************************)
\* The entries are the newest of those up to next, and next is not old.
Rolling(b, q) ==
    /\ Distance(b.next, q) <= MaxLost
    /\ \A t \in DOMAIN b.live : Distance(t, q) - Distance(b.next, q) \in 1..b.size

\* Buffers are much smaller than the range of the numbers.
Fitting(size) == size \in Nat \ {0} /\ Wrap % size = 0 /\ MaxLost + size < Wrap

LEMMA BoundsHold ==
    /\ MaxLost \in Nat /\ MaxAhead \in Nat /\ AckBits \in Nat
    /\ MaxLost < Half /\ MaxAhead < Half
    /\ Fitting(ReceivedSize) /\ Fitting(ReassemblySize)
    /\ \A e \in Side : /\ Lifetime[e] \in Nat \ {0} /\ Lifetime[e] <= Half
                       /\ MaxLost + AckBits + 2 * MaxAhead + Lifetime[e] <= Wrap
<1>1. Wrap \in Nat \ {0} /\ Half \in Nat \ {0} /\ Wrap = 2 * Half
  BY WrapIsEven
<1>2. MaxLost \in Nat /\ MaxAhead \in Nat /\ AckBits \in Nat
  BY SizesAssumption
<1>3. MaxLost < Half
  BY <1>1, <1>2, BoundsAssumption
<1>4. Fitting(ReceivedSize) /\ Fitting(ReassemblySize)
  BY SizesAssumption, BoundsAssumption DEF Fitting
<1>5. \A e \in Side : Lifetime[e] \in Nat \ {0}
  BY BoundsAssumption
<1>6. \A e \in Side : 2 * Lifetime[e] <= Wrap /\ MaxLost + AckBits + 2 * MaxAhead + Lifetime[e] <= Wrap
  BY BoundsAssumption
<1>7. MaxAhead < Half
  <2>1. Client \in Side
    BY DEF Side
  <2>2. Lifetime[Client] \in Nat \ {0} /\ MaxLost + AckBits + 2 * MaxAhead + Lifetime[Client] <= Wrap
    BY <2>1, <1>5, <1>6
  <2>. QED BY <2>2, <1>1, <1>2
<1>. QED BY <1>1, <1>2, <1>3, <1>4, <1>5, <1>6, <1>7

\* A lap ends at the end of the buffer.
LEMMA LapSlots == ASSUME NEW size \in Nat \ {0}, Wrap % size = 0, NEW a \in Int
                  PROVE  (a + Wrap) % size = a % size /\ (a - Wrap) % size = a % size
<1> DEFINE n == Wrap \div size
           m == -n
<1>1. Wrap \in Nat
  BY WrapIsEven
<1>2. Wrap = size * n + (Wrap % size) /\ n \in Int
  BY <1>1, Division
<1>3. Wrap = size * n
  <2> HIDE DEF n
  <2>. QED BY <1>2
<1>4. m \in Int /\ -Wrap = size * m
  <2> HIDE DEF n
  <2>. QED BY <1>2, <1>3
<1> HIDE DEF n, m
<1>5. (a + size * n) % size = a % size /\ (a + size * m) % size = a % size
  BY <1>2, <1>4, Multiples
<1>6. a + size * n = a + Wrap /\ a + size * m = a - Wrap
  BY <1>1, <1>3, <1>4
<1>. QED BY <1>5, <1>6

LEMMA SlotByAge == ASSUME NEW size \in Nat \ {0}, Wrap % size = 0, NEW s \in Sequence, NEW q \in Sequence
                   PROVE  s % size = (q - Distance(s, q)) % size
<1>1. s \in 0..(Wrap - 1) /\ q \in 0..(Wrap - 1) /\ Wrap \in Nat \ {0}
  BY WrapIsEven DEF Sequence
<1>2. Distance(s, q) = IF s <= q THEN q - s ELSE q - s + Wrap
  BY DistanceIs
<1>3. q - Distance(s, q) = s \/ q - Distance(s, q) = s - Wrap
  BY <1>1, <1>2
<1>4. s \in Int
  BY <1>1
<1>5. (s - Wrap) % size = s % size
  BY <1>4, LapSlots
<1>. QED BY <1>3, <1>5

\* Numbers less than a buffer apart have slots of their own.
LEMMA SlotsDiffer ==
    ASSUME NEW size \in Nat \ {0}, Wrap % size = 0, NEW s \in Sequence, NEW t \in Sequence, NEW q \in Sequence,
           Distance(s, q) - Distance(t, q) < size, Distance(t, q) - Distance(s, q) < size,
           s % size = t % size
    PROVE  s = t
<1> DEFINE a == q - Distance(s, q)
           b == q - Distance(t, q)
<1>1. q \in Int /\ Distance(s, q) \in Int /\ Distance(t, q) \in Int
  BY DistanceIs, WrapIsEven DEF Sequence
<1>2. a % size = b % size
  BY SlotByAge
<1>3. a \in Int /\ b \in Int /\ a - b < size /\ b - a < size
  BY <1>1
<1>4. a = b
  <2> HIDE DEF a, b
  <2>. QED BY <1>2, <1>3, Apart
<1>5. Distance(s, q) = Distance(t, q)
  BY <1>1, <1>4
<1>. QED BY <1>5, OneAge

\* What a newer number frees is what is then more than the buffer behind.
LEMMA FreedByAge ==
    ASSUME NEW size, Fitting(size), NEW V, NEW b \in Buffers(size, V), NEW q \in Sequence,
           NEW s \in Sequence, NEW t \in Sequence,
           Distance(s, q) <= Distance(b.next, q), Distance(t, q) - Distance(b.next, q) \in 1..size
    PROVE  \E slots : /\ RemoveEntries(b, b.next, s, Wrap) = Free(b, slots)
                      /\ t % size \in slots <=> Distance(t, q) - Distance(s, q) >= size
<1> DEFINE start == b.next
           end == IF s < start THEN s + Wrap ELSE s
           few == end - start < size
           slots == IF few THEN {x % size : x \in start..end} ELSE 0..(size - 1)
           young == Distance(s, q)
           next == Distance(start, q)
           age == Distance(t, q)
<1>1. b.size = size /\ start \in Sequence
  BY BufferIs
<1>2. RemoveEntries(b, start, s, Wrap) = Free(b, slots)
  BY <1>1 DEF RemoveEntries
<1>3. size \in Nat \ {0} /\ Wrap % size = 0
  BY DEF Fitting
<1>4. /\ s \in 0..(Wrap - 1) /\ start \in 0..(Wrap - 1) /\ q \in 0..(Wrap - 1) /\ t \in 0..(Wrap - 1)
      /\ Wrap \in Nat \ {0}
  BY <1>1, WrapIsEven DEF Sequence
<1>5. /\ young \in 0..(Wrap - 1) /\ next \in 0..(Wrap - 1) /\ age \in 0..(Wrap - 1)
      /\ young <= next /\ age - next \in 1..size
  BY <1>1, DistanceIs DEF Sequence
<1>6. end - start = next - young /\ end \in Int
  <2>1. Distance(start, s) = IF start <= s THEN s - start ELSE s - start + Wrap
    BY <1>1, DistanceIs
  <2>2. Distance(start, s) = next - young
    BY <1>1, <1>5, ByAge
  <2>. QED BY <2>1, <2>2, <1>4, <1>5
<1>7. start = q - next \/ start = q - next + Wrap
  <2>1. next = IF start <= q THEN q - start ELSE q - start + Wrap
    BY <1>1, DistanceIs
  <2> HIDE DEF next
  <2>. QED BY <2>1, <1>4
<1>8. t % size = (q - age) % size
  BY <1>3, SlotByAge
<1>9. \A i \in Int : (start + i) % size = ((q - next) + i) % size
  <2>. TAKE i \in Int
  <2>1. CASE start = q - next
    BY <2>1
  <2>2. CASE start = q - next + Wrap
    <3> DEFINE a == (q - next) + i
    <3>1. a \in Int /\ start + i = a + Wrap
      <4> HIDE DEF next, start
      <4>. QED BY <2>2, <1>4, <1>5
    <3>2. (a + Wrap) % size = a % size
      <4> HIDE DEF a
      <4>. QED BY <3>1, <1>3, LapSlots
    <3>. QED BY <3>1, <3>2
  <2>. QED BY <2>1, <2>2, <1>7
<1> HIDE DEF start, young, next, age, end
<1>10. CASE ~few
  <2>1. slots = 0..(size - 1)
    BY <1>10
  <2>2. t % size \in 0..(size - 1)
    BY <1>3, <1>4, Division
  <2>3. age - young >= size
    BY <1>10, <1>3, <1>4, <1>5, <1>6
  <2>. QED BY <2>1, <2>2, <2>3, <1>2 DEF start, young, age
<1>11. CASE few
  <2>1. slots = {x % size : x \in start..end}
    BY <1>11
  <2>2. ASSUME t % size \in slots PROVE age - young >= size
    <3>1. PICK x \in start..end : t % size = x % size
      BY <2>1, <2>2
    <3> DEFINE i == x - start
               a == (q - next) + i
               c == q - age
    <3>2. i \in Int /\ 0 <= i /\ i <= next - young /\ x = start + i
      BY <1>4, <1>6, <3>1
    <3>3. a % size = c % size
      BY <3>1, <3>2, <1>8, <1>9
    <3>4. a \in Int /\ c \in Int /\ a - c = i + (age - next) /\ a # c
      <4> HIDE DEF i
      <4>. QED BY <3>2, <1>3, <1>4, <1>5
    <3>5. ~(a - c < size /\ c - a < size)
      <4> HIDE DEF a, c
      <4>. QED BY <3>3, <3>4, <1>3, Apart
    <3>6. a - c >= size
      <4> HIDE DEF a, c, i
      <4>. QED BY <3>2, <3>4, <3>5, <1>3, <1>5
    <3> HIDE DEF a, c, i
    <3>. QED BY <3>2, <3>4, <3>6, <1>5, <1>3
  <2>3. ASSUME age - young >= size PROVE t % size \in slots
    <3> DEFINE i == size - (age - next)
               c == q - age
    <3>1. i \in Int /\ 0 <= i /\ i <= next - young
      BY <2>3, <1>3, <1>4, <1>5
    <3>2. start + i \in start..end
      <4> HIDE DEF i
      <4>. QED BY <3>1, <1>4, <1>6
    <3>3. (start + i) % size = ((q - next) + i) % size
      <4> HIDE DEF i
      <4>. QED BY <3>1, <1>9
    <3>4. (q - next) + i = c + size /\ c \in Int
      BY <1>3, <1>4, <1>5
    <3>5. (c + size) % size = c % size
      <4> DEFINE one == 1
      <4>1. one \in Int /\ c + size = c + size * one
        BY <3>4, <1>3
      <4> HIDE DEF c, one
      <4>2. (c + size * one) % size = c % size
        BY <3>4, <4>1, <1>3, Multiples
      <4>. QED BY <4>1, <4>2
    <3>6. t % size = (start + i) % size
      BY <3>3, <3>4, <3>5, <1>8
    <3> HIDE DEF i
    <3>. QED BY <2>1, <3>2, <3>6
  <2>. QED BY <2>2, <2>3, <1>2 DEF start, young, age
<1>. QED BY <1>10, <1>11

LEMMA AdvanceAged ==
    ASSUME NEW size, Fitting(size), NEW V, NEW b \in Buffers(size, V), NEW q \in Sequence, Rolling(b, q),
           NEW s \in Sequence, Distance(s, q) \in 1..Half
    PROVE  /\ Advance(b, s, Wrap) \in Buffers(size, V)
           /\ Distance(Advance(b, s, Wrap).next, q) =
                 IF Distance(s, q) - 1 < Distance(b.next, q) THEN Distance(s, q) - 1 ELSE Distance(b.next, q)
           /\ \A t \in Sequence : t \in DOMAIN Advance(b, s, Wrap).live <=>
                 t \in DOMAIN b.live /\ Distance(t, q) - Distance(Advance(b, s, Wrap).next, q) <= size
           /\ \A t \in DOMAIN Advance(b, s, Wrap).live : Advance(b, s, Wrap).live[t] = b.live[t]
           /\ Rolling(Advance(b, s, Wrap), q)
<1> DEFINE c == Advance(b, s, Wrap)
           k == Distance(s, q)
           s1 == Later(s, 1)
           old == Distance(b.next, q)
<1>1. /\ b.size = size /\ b.next \in Sequence /\ DOMAIN b.live \subseteq Sequence
  BY BufferIs
<1>2. /\ c \in Buffers(size, V)
      /\ c.next = IF GreaterThan(s1, b.next) THEN s1 ELSE b.next
      /\ \A t \in DOMAIN c.live : c.live[t] = b.live[t]
      /\ ~GreaterThan(s1, b.next) => c = b
      /\ GreaterThan(s1, b.next) => c.live = RemoveEntries(b, b.next, s, Wrap).live
  BY AdvanceIs
<1>3. /\ Wrap \in Nat \ {0} /\ Half \in Nat \ {0} /\ MaxLost \in Nat /\ MaxLost < Half
      /\ size \in Nat \ {0} /\ MaxLost + size < Wrap /\ Wrap = 2 * Half
  BY WrapIsEven, BoundsHold DEF Fitting
<1>4. old \in 0..MaxLost /\ k \in 1..Half
  BY <1>1, <1>3, AgeIs DEF Rolling
<1>5. \A t \in DOMAIN b.live : Distance(t, q) \in Int /\ Distance(t, q) - old \in 1..size
  BY <1>1, AgeIs DEF Rolling
<1>6. Distance(q, q) = 0
  BY AgeIs
<1>7. s # q
  BY <1>6, <1>4
<1>8. s1 \in Sequence /\ Distance(s1, q) = k - 1
  BY <1>7, NextIsYounger
<1>9. GreaterThan(s1, b.next) <=> k - 1 < old
  <2>1. Distance(s1, q) - old < Half /\ old - Distance(s1, q) < Half
    BY <1>3, <1>4, <1>8
  <2>. QED BY <2>1, <1>1, <1>8, GreaterIsYounger
<1>10. c.size = size
  BY <1>2, BufferIs
<1> HIDE DEF c, s1
<1>11. CASE ~(k - 1 < old)
  <2>1. c = b
    BY <1>2, <1>9, <1>11
  <2>2. \A t \in DOMAIN b.live : Distance(t, q) - old <= size
    BY <1>3, <1>5
  <2>. QED BY <2>1, <2>2, <1>1, <1>2, <1>11 DEF c
<1>12. CASE k - 1 < old
  <2>1. c.next = s1 /\ c.live = RemoveEntries(b, b.next, s, Wrap).live
    BY <1>2, <1>9, <1>12
  <2>2. Distance(c.next, q) = k - 1
    BY <2>1, <1>8
  <2>3. ASSUME NEW t \in DOMAIN b.live
        PROVE  t \in DOMAIN c.live <=> Distance(t, q) - (k - 1) <= size
    <3>1. t \in Sequence /\ Distance(t, q) - old \in 1..size
      BY <1>1, <1>5
    <3>2. k <= old
      BY <1>4, <1>12
    <3>3. PICK slots : /\ RemoveEntries(b, b.next, s, Wrap) = Free(b, slots)
                       /\ t % size \in slots <=> Distance(t, q) - Distance(s, q) >= size
      BY <3>1, <3>2, FreedByAge
    <3>4. DOMAIN Free(b, slots).live = {u \in DOMAIN b.live : u % size \notin slots}
      BY FreeIs
    <3>5. t \in DOMAIN c.live <=> ~(Distance(t, q) - k >= size)
      BY <3>3, <3>4, <2>1
    <3>. QED BY <3>5, <1>3, <1>4, <1>5
  <2>4. DOMAIN c.live \subseteq DOMAIN b.live
    BY AdvanceIs DEF c
  <2>5. Rolling(c, q)
    <3>1. Distance(c.next, q) <= MaxLost
      BY <2>2, <1>3, <1>4, <1>12
    <3>2. ASSUME NEW t \in DOMAIN c.live PROVE Distance(t, q) - Distance(c.next, q) \in 1..c.size
      <4>1. t \in DOMAIN b.live
        BY <2>4
      <4>2. Distance(t, q) - (k - 1) <= size /\ Distance(t, q) - old \in 1..size /\ Distance(t, q) \in Int
        BY <4>1, <2>3, <1>5
      <4>. QED BY <4>2, <2>2, <1>3, <1>4, <1>10, <1>12
    <3>. QED BY <3>1, <3>2 DEF Rolling
  <2>. QED BY <2>2, <2>3, <2>4, <2>5, <1>2, <1>12 DEF c
<1>. QED BY <1>11, <1>12

\* What is not too old is in the window, or newer.
LEMMA NotTooOld ==
    ASSUME NEW size, Fitting(size), NEW V, NEW b \in Buffers(size, V), NEW q \in Sequence,
           Distance(b.next, q) <= MaxLost,
           NEW s \in Sequence, Distance(s, q) \in 1..Half, ~TooOld(b, s)
    PROVE  Distance(s, q) - Distance(b.next, q) <= size
<1> DEFINE x == (b.next - size) % Wrap
<1>1. b.size = size /\ b.next \in Sequence
  BY BufferIs
<1>2. /\ Wrap \in Nat \ {0} /\ Half \in Nat \ {0} /\ MaxLost \in Nat /\ MaxLost < Half
      /\ size \in Nat \ {0} /\ MaxLost + size < Wrap /\ Wrap = 2 * Half
  BY WrapIsEven, BoundsHold DEF Fitting
<1>3. size \in 0..Wrap /\ size < Wrap
  BY <1>2
<1>4. x \in Sequence /\ Distance(x, b.next) = size
  BY <1>1, <1>3, BackIs
<1>5. ~GreaterThan(x, s)
  BY <1>1 DEF TooOld, LessThan
<1> HIDE DEF x
<1>6. /\ Distance(x, q) \in 0..(Wrap - 1) /\ Distance(b.next, q) \in 0..MaxLost
      /\ Distance(s, q) \in 1..Half
  BY <1>1, <1>2, <1>4, AgeIs
<1>7. Distance(x, b.next) = IF Distance(x, q) >= Distance(b.next, q)
                            THEN Distance(x, q) - Distance(b.next, q)
                            ELSE Distance(x, q) - Distance(b.next, q) + Wrap
  BY <1>1, <1>4, ByAge
<1>8. Distance(x, q) = Distance(b.next, q) + size
  BY <1>2, <1>4, <1>6, <1>7
<1>9. CASE Distance(s, q) - Distance(b.next, q) > size
  <2>1. Distance(x, q) < Distance(s, q) /\ Distance(x, q) - Distance(s, q) < Half
        /\ Distance(s, q) - Distance(x, q) < Half
    BY <1>2, <1>6, <1>8, <1>9
  <2>2. GreaterThan(x, s)
    BY <2>1, <1>4, GreaterIsYounger
  <2>. QED BY <2>2, <1>5
<1>. QED BY <1>2, <1>6, <1>9

\* An entry in the window has its slot to itself.
LEMMA OwnSlot ==
    ASSUME NEW size, Fitting(size), NEW V, NEW b \in Buffers(size, V), NEW q \in Sequence, Rolling(b, q),
           NEW s \in Sequence, Distance(s, q) - Distance(b.next, q) \in 1..size,
           NEW t \in DOMAIN b.live
    PROVE  t % size = s % size <=> t = s
<1>1. b.size = size /\ b.next \in Sequence /\ t \in Sequence
  BY BufferIs
<1>2. size \in Nat \ {0} /\ Wrap % size = 0
  BY DEF Fitting
<1>3. Distance(t, q) - Distance(b.next, q) \in 1..size
  BY <1>1 DEF Rolling
<1>4. Distance(t, q) \in Int /\ Distance(s, q) \in Int /\ Distance(b.next, q) \in Int
  BY <1>1, AgeIs
<1>5. Distance(t, q) - Distance(s, q) < size /\ Distance(s, q) - Distance(t, q) < size
  BY <1>2, <1>3, <1>4
<1>. QED BY <1>1, <1>2, <1>5, SlotsDiffer

LEMMA RemoveAged ==
    ASSUME NEW size, Fitting(size), NEW V, NEW b \in Buffers(size, V), NEW q \in Sequence, Rolling(b, q),
           NEW s \in Sequence, Distance(s, q) - Distance(b.next, q) \in 1..size
    PROVE  /\ Remove(b, s) \in Buffers(size, V)
           /\ Remove(b, s).next = b.next
           /\ DOMAIN Remove(b, s).live = DOMAIN b.live \ {s}
           /\ \A t \in DOMAIN Remove(b, s).live : Remove(b, s).live[t] = b.live[t]
           /\ Rolling(Remove(b, s), q)
<1>1. /\ Remove(b, s) \in Buffers(size, V)
      /\ Remove(b, s).next = b.next
      /\ DOMAIN Remove(b, s).live = {t \in DOMAIN b.live : t % size # s % size}
      /\ \A t \in DOMAIN Remove(b, s).live : Remove(b, s).live[t] = b.live[t]
  BY RemoveIs
<1>2. \A t \in DOMAIN b.live : t % size = s % size <=> t = s
  BY OwnSlot
<1>3. DOMAIN Remove(b, s).live = DOMAIN b.live \ {s}
  BY <1>1, <1>2
<1>4. b.size = size /\ Remove(b, s).size = size
  BY <1>1, BufferIs
<1>5. Rolling(Remove(b, s), q)
  BY <1>1, <1>3, <1>4 DEF Rolling
<1>. QED BY <1>1, <1>3, <1>5

LEMMA SetAged ==
    ASSUME NEW size, Fitting(size), NEW V, NEW b \in Buffers(size, V), NEW q \in Sequence, Rolling(b, q),
           NEW s \in Sequence, Distance(s, q) - Distance(b.next, q) \in 1..size, NEW d \in V
    PROVE  /\ SetEntry(b, s, d) \in Buffers(size, V)
           /\ SetEntry(b, s, d).next = b.next
           /\ DOMAIN SetEntry(b, s, d).live = DOMAIN b.live \union {s}
           /\ SetEntry(b, s, d).live[s] = d
           /\ \A t \in DOMAIN b.live : t # s => SetEntry(b, s, d).live[t] = b.live[t]
           /\ Rolling(SetEntry(b, s, d), q)
<1>1. /\ SetEntry(b, s, d) \in Buffers(size, V)
      /\ SetEntry(b, s, d).next = b.next
      /\ DOMAIN SetEntry(b, s, d).live = {t \in DOMAIN b.live : t % size # s % size} \union {s}
      /\ SetEntry(b, s, d).live[s] = d
      /\ \A t \in DOMAIN b.live : t % size # s % size => SetEntry(b, s, d).live[t] = b.live[t]
  BY SetEntryIs
<1>2. \A t \in DOMAIN b.live : t % size = s % size <=> t = s
  BY OwnSlot
<1>3. DOMAIN SetEntry(b, s, d).live = DOMAIN b.live \union {s}
  BY <1>1, <1>2
<1>4. b.size = size /\ SetEntry(b, s, d).size = size
  BY <1>1, BufferIs
<1>5. Rolling(SetEntry(b, s, d), q)
  BY <1>1, <1>3, <1>4 DEF Rolling
<1>. QED BY <1>1, <1>2, <1>3, <1>5

LEMMA PutAged ==
    ASSUME NEW size, Fitting(size), NEW V, NEW b \in Buffers(size, V), NEW q \in Sequence, Rolling(b, q),
           NEW s \in Sequence, Distance(s, q) \in 1..Half, NEW d \in V,
           \/ GreaterThan(Later(s, 1), b.next)
           \/ Distance(s, q) - Distance(b.next, q) <= size
    PROVE  /\ Put(b, s, d, Wrap) \in Buffers(size, V)
           /\ Put(b, s, d, Wrap).next = Advance(b, s, Wrap).next
           /\ \A t \in Sequence : t \in DOMAIN Put(b, s, d, Wrap).live <=>
                 \/ t = s
                 \/ t \in DOMAIN b.live /\ Distance(t, q) - Distance(Put(b, s, d, Wrap).next, q) <= size
           /\ Put(b, s, d, Wrap).live[s] = d
           /\ \A t \in DOMAIN Put(b, s, d, Wrap).live : t # s => Put(b, s, d, Wrap).live[t] = b.live[t]
           /\ Rolling(Put(b, s, d, Wrap), q)
<1> DEFINE a == Advance(b, s, Wrap)
           c == SetEntry(a, s, d)
<1>1. /\ a \in Buffers(size, V)
      /\ Distance(a.next, q) =
            IF Distance(s, q) - 1 < Distance(b.next, q) THEN Distance(s, q) - 1 ELSE Distance(b.next, q)
      /\ \A t \in Sequence : t \in DOMAIN a.live <=>
            t \in DOMAIN b.live /\ Distance(t, q) - Distance(a.next, q) <= size
      /\ \A t \in DOMAIN a.live : a.live[t] = b.live[t]
      /\ Rolling(a, q)
  BY AdvanceAged
<1>2. Put(b, s, d, Wrap) = c
  BY DEF Put
<1>3. /\ b.size = size /\ b.next \in Sequence /\ DOMAIN b.live \subseteq Sequence
  BY BufferIs
<1>4. size \in Nat \ {0} /\ Wrap \in Nat \ {0} /\ MaxLost \in Nat /\ MaxLost < Half /\ Half \in Nat
  BY BoundsHold, WrapIsEven DEF Fitting
<1>5. Distance(b.next, q) \in 0..MaxLost /\ Distance(s, q) \in 1..Half /\ Distance(s, q) \in Int
  BY <1>3, <1>4, AgeIs DEF Rolling
<1>6. Distance(s, q) - Distance(a.next, q) \in 1..size
  <2>1. CASE Distance(s, q) - 1 < Distance(b.next, q)
    <3>1. Distance(a.next, q) = Distance(s, q) - 1
      BY <2>1, <1>1
    <3>. QED BY <3>1, <1>4, <1>5
  <2>2. CASE ~(Distance(s, q) - 1 < Distance(b.next, q))
    <3>1. Distance(a.next, q) = Distance(b.next, q)
      BY <2>2, <1>1
    <3>2. CASE GreaterThan(Later(s, 1), b.next)
      <4>1. Distance(q, q) = 0
        BY AgeIs
      <4>2. s # q
        BY <4>1, <1>5
      <4>3. Later(s, 1) \in Sequence /\ Distance(Later(s, 1), q) = Distance(s, q) - 1
        BY <4>2, NextIsYounger
      <4>4. Distance(Later(s, 1), q) - Distance(b.next, q) < Half
            /\ Distance(b.next, q) - Distance(Later(s, 1), q) < Half
        BY <4>3, <1>4, <1>5
      <4>. QED BY <4>3, <4>4, <3>2, <2>2, <1>3, GreaterIsYounger
    <3>3. CASE Distance(s, q) - Distance(b.next, q) <= size
      BY <3>1, <3>3, <2>2, <1>4, <1>5
    <3>. QED BY <3>2, <3>3
  <2>. QED BY <2>1, <2>2
<1> HIDE DEF a
<1>7. /\ c \in Buffers(size, V)
      /\ c.next = a.next
      /\ DOMAIN c.live = DOMAIN a.live \union {s}
      /\ c.live[s] = d
      /\ \A t \in DOMAIN a.live : t # s => c.live[t] = a.live[t]
      /\ Rolling(c, q)
  BY <1>1, <1>6, SetAged
<1> HIDE DEF c
<1>8. \A t \in Sequence : t \in DOMAIN c.live <=>
         \/ t = s
         \/ t \in DOMAIN b.live /\ Distance(t, q) - Distance(c.next, q) <= size
  BY <1>1, <1>7
<1>9. \A t \in DOMAIN c.live : t # s => c.live[t] = b.live[t]
  BY <1>1, <1>7
<1>10. c.next = Advance(b, s, Wrap).next
  BY <1>7 DEF a
<1>. QED BY <1>2, <1>7, <1>8, <1>9, <1>10
-----------------------------------------------------------------------------
(***************************************************************************)
(* What can be relied on in every state.  Number(e, k) is what packet k in *)
(* flight from e is called at the other side, and k its age.               *)
(***************************************************************************)
Header == [ack : Sequence, acked : SUBSET Sequence]
Entry == [total : Nat, got : SUBSET Nat, header : SUBSET Header]
Packet == [parts : SUBSET Nat, total : Nat, header : SUBSET Header,
           fate : {"flying", "processed", "done"}]

\* Types, and that no packet is in flight for longer than it may be.
TypeInv ==
    /\ sequence \in [Side -> Sequence]
    /\ sent \in [Side -> Buffers(SentSize, BOOLEAN)]
    /\ received \in [Side -> Buffers(ReceivedSize, {TRUE})]
    /\ reassembly \in [Side -> Buffers(ReassemblySize, Entry)]
    /\ acks \in [Side -> SUBSET Sequence]
    /\ flight \in [Side -> Seq(Packet)]
    /\ \A e \in Side : Len(flight[e]) <= Lifetime[e]

\* Both buffers of the receiver move with the newest of what it receives.
WindowInv ==
    \A e \in Side : /\ Rolling(received[Other(e)], sequence[e])
                    /\ Rolling(reassembly[Other(e)], sequence[e])
                    /\ received[Other(e)].next = reassembly[Other(e)].next

\* How far q is ahead of p, counted from MaxAhead behind.
Lead(p, q) == (q - p + MaxAhead) % Wrap
LeadInv == \A e \in Side : Lead(sequence[Other(e)], sequence[e]) <= 2 * MaxAhead

\* What became of a packet is decided by its last part.
FlightInv ==
    \A e \in Side : \A k \in DOMAIN flight[e] :
        /\ flight[e][k].parts \subseteq 0..(flight[e][k].total - 1)
        /\ flight[e][k].parts # {} => flight[e][k].fate = "flying"

\* The parts that were put together are not on the way any more.
PartialInv ==
    \A e \in Side : \A k \in DOMAIN flight[e] :
        Number(e, k) \in DOMAIN reassembly[Other(e)].live =>
            /\ reassembly[Other(e)].live[Number(e, k)].total = flight[e][k].total
            /\ reassembly[Other(e)].live[Number(e, k)].got \intersect flight[e][k].parts = {}

\* Packet k of e was processed, and the channel of e may know.
Settled(e, k) ==
    \/ flight[e][k].fate = "processed"
    \/ /\ flight[e][k].fate = "done"
       /\ Number(e, k) \in DOMAIN sent[e].live => sent[e].live[Number(e, k)]
Honest(e, s) == \A k \in DOMAIN flight[e] : Number(e, k) = s => Settled(e, k)

\* What is remembered as received was processed.
ReceivedInv == \A e \in Side : \A s \in DOMAIN received[Other(e)].live : Honest(e, s)

\* What was processed is remembered.
KeptInv ==
    \A e \in Side : \A k \in DOMAIN flight[e] : flight[e][k].fate = "processed" =>
        /\ k > Distance(received[Other(e)].next, sequence[e])
        /\ k - Distance(received[Other(e)].next, sequence[e]) <= ReceivedSize
              => Number(e, k) \in DOMAIN received[Other(e)].live

\* The header of packet k of e, on the way or with the parts that have arrived.
HeadersOf(e, k) ==
    flight[e][k].header \union
    (IF Number(e, k) \in DOMAIN reassembly[Other(e)].live
     THEN reassembly[Other(e)].live[Number(e, k)].header ELSE {})

\* A header tells the truth, and of numbers that were not used again since.
Recent(e, s, k) ==
    Distance(s, sequence[e]) \in 1..(MaxLost + AckBits + k - 1 + Lead(sequence[Other(e)], sequence[e]))
HeaderInv ==
    \A e \in Side : \A k \in DOMAIN flight[Other(e)] : \A h \in HeadersOf(Other(e), k) :
        \A s \in h.acked : Honest(e, s) /\ Recent(e, s, k)

\* The channel of e is still to be told of packets that were processed.
AcksInv ==
    \A e \in Side : \A s \in acks[e] :
        /\ s \in DOMAIN sent[e].live => sent[e].live[s]
        /\ \A k \in DOMAIN flight[e] : Number(e, k) = s => flight[e][k].fate = "processed"

Inv == /\ TypeInv /\ WindowInv /\ LeadInv /\ FlightInv /\ PartialInv
       /\ ReceivedInv /\ KeptInv /\ HeaderInv /\ AcksInv

LEMMA Sides == ASSUME NEW e \in Side
               PROVE  /\ Other(e) \in Side /\ Other(e) # e /\ Other(Other(e)) = e
                      /\ \A a \in Side : a = e \/ a = Other(e)
  BY SidesAssumption DEF Side, Other

\* The packets in flight have numbers of their own.
LEMMA Numbers ==
    ASSUME TypeInv, NEW e \in Side, NEW k \in DOMAIN flight[e]
    PROVE  /\ k \in 1..Lifetime[e] /\ k \in 1..Half /\ k < Wrap /\ flight[e][k] \in Packet
           /\ Number(e, k) \in Sequence
           /\ Distance(Number(e, k), sequence[e]) = k
           /\ \A j \in DOMAIN flight[e] : Number(e, j) = Number(e, k) => j = k
<1>1. Wrap \in Nat \ {0} /\ Half \in Nat \ {0} /\ Wrap = 2 * Half
  BY WrapIsEven
<1>2. Lifetime[e] \in Nat \ {0} /\ Lifetime[e] <= Half
  BY BoundsHold
<1>3. /\ sequence[e] \in Sequence /\ flight[e] \in Seq(Packet) /\ Len(flight[e]) <= Lifetime[e]
      /\ Len(flight[e]) \in Nat /\ DOMAIN flight[e] = 1..Len(flight[e])
  BY DEF TypeInv
<1>4. ASSUME NEW j \in DOMAIN flight[e]
      PROVE  /\ j \in 1..Lifetime[e] /\ j \in 1..Half /\ j < Wrap /\ flight[e][j] \in Packet
             /\ Number(e, j) \in Sequence
             /\ Distance(Number(e, j), sequence[e]) = j
  <2>1. j \in 1..Lifetime[e] /\ j \in 1..Half /\ j < Wrap /\ j \in 0..Wrap
    BY <1>1, <1>2, <1>3
  <2>2. flight[e][j] \in Packet
    BY <1>3
  <2>3. (sequence[e] - j) % Wrap \in Sequence /\ Distance((sequence[e] - j) % Wrap, sequence[e]) = j
    BY <1>3, <2>1, BackIs
  <2>. QED BY <2>1, <2>2, <2>3 DEF Number
<1>5. ASSUME NEW j \in DOMAIN flight[e], Number(e, j) = Number(e, k) PROVE j = k
  <2>1. Distance(Number(e, j), sequence[e]) = j /\ Distance(Number(e, k), sequence[e]) = k
    BY <1>4
  <2>. QED BY <2>1, <1>5
<1>. QED BY <1>4, <1>5

LEMMA Typed ==
    ASSUME TypeInv, NEW e \in Side
    PROVE  /\ sequence[e] \in Sequence /\ acks[e] \in SUBSET Sequence
           /\ sent[e] \in Buffers(SentSize, BOOLEAN)
           /\ received[e] \in Buffers(ReceivedSize, {TRUE})
           /\ reassembly[e] \in Buffers(ReassemblySize, Entry)
           /\ received[e].next \in Sequence /\ reassembly[e].next \in Sequence
           /\ DOMAIN received[e].live \subseteq Sequence /\ DOMAIN reassembly[e].live \subseteq Sequence
           /\ DOMAIN sent[e].live \subseteq Sequence
           /\ \A s \in DOMAIN sent[e].live : sent[e].live[s] \in BOOLEAN
           /\ \A s \in DOMAIN reassembly[e].live : reassembly[e].live[s] \in Entry
           /\ received[e].size = ReceivedSize /\ reassembly[e].size = ReassemblySize
           /\ flight[e] \in Seq(Packet) /\ Len(flight[e]) \in Nat
           /\ DOMAIN flight[e] = 1..Len(flight[e]) /\ Len(flight[e]) <= Lifetime[e]
<1>1. /\ sequence[e] \in Sequence /\ acks[e] \in SUBSET Sequence
      /\ sent[e] \in Buffers(SentSize, BOOLEAN)
      /\ received[e] \in Buffers(ReceivedSize, {TRUE})
      /\ reassembly[e] \in Buffers(ReassemblySize, Entry)
      /\ flight[e] \in Seq(Packet) /\ Len(flight[e]) <= Lifetime[e]
  BY DEF TypeInv
<1>2. DOMAIN sent[e].live \subseteq Sequence /\ \A s \in DOMAIN sent[e].live : sent[e].live[s] \in BOOLEAN
  BY <1>1, BufferIs
<1>3. /\ received[e].next \in Sequence /\ received[e].size = ReceivedSize
      /\ DOMAIN received[e].live \subseteq Sequence
  BY <1>1, BufferIs
<1>4. /\ reassembly[e].next \in Sequence /\ reassembly[e].size = ReassemblySize
      /\ DOMAIN reassembly[e].live \subseteq Sequence
      /\ \A s \in DOMAIN reassembly[e].live : reassembly[e].live[s] \in Entry
  BY <1>1, BufferIs
<1>. QED BY <1>1, <1>2, <1>3, <1>4

\* What is in a window is neither the next number nor as old as it.
LEMMA RollingAges ==
    ASSUME NEW size, Fitting(size), NEW V, NEW b \in Buffers(size, V), NEW q \in Sequence, Rolling(b, q)
    PROVE  /\ 0 <= Distance(b.next, q) /\ Distance(b.next, q) <= MaxLost /\ Distance(b.next, q) \in Int
           /\ q \notin DOMAIN b.live
           /\ \A t \in DOMAIN b.live : /\ Distance(t, q) \in Int
                                       /\ Distance(t, q) - Distance(b.next, q) \in 1..size
                                       /\ Distance(t, q) >= 1 /\ Distance(t, q) <= MaxLost + size
<1>1. b.size = size /\ b.next \in Sequence /\ DOMAIN b.live \subseteq Sequence
  BY BufferIs
<1>2. Distance(b.next, q) \in Int /\ 0 <= Distance(b.next, q) /\ Distance(b.next, q) <= MaxLost
  BY <1>1, AgeIs DEF Rolling
<1>3. size \in Nat \ {0} /\ MaxLost \in Nat
  BY BoundsHold DEF Fitting
<1>4. ASSUME NEW t \in DOMAIN b.live
      PROVE  /\ Distance(t, q) \in Int
             /\ Distance(t, q) - Distance(b.next, q) \in 1..size
             /\ Distance(t, q) >= 1 /\ Distance(t, q) <= MaxLost + size
  <2>1. Distance(t, q) \in Int
    BY <1>1, AgeIs
  <2>2. Distance(t, q) - Distance(b.next, q) \in 1..size
    BY <1>1 DEF Rolling
  <2>. QED BY <2>1, <2>2, <1>2, <1>3
<1>5. Distance(q, q) = 0
  BY AgeIs
<1>. QED BY <1>2, <1>4, <1>5
-----------------------------------------------------------------------------
(***************************************************************************)
(* The first state, and the state after a reset.                           *)
(***************************************************************************)
LEMMA ZeroIsNumber == 0 \in Sequence /\ Distance(0, 0) = 0 /\ Lead(0, 0) = MaxAhead
<1>1. 0 \in Sequence
  BY WrapIsEven DEF Sequence
<1>2. Distance(0, 0) = 0
  BY <1>1, AgeIs
<1>3. MaxAhead \in 0..(Wrap - 1) /\ MaxAhead = Wrap * 0 + MaxAhead /\ 0 - 0 + MaxAhead = MaxAhead
  BY BoundsHold, WrapIsEven
<1>4. MaxAhead \in Int /\ -Wrap <= MaxAhead /\ MaxAhead < 2 * Wrap /\ ~(MaxAhead < 0) /\ MaxAhead < Wrap
  BY <1>3, WrapIsEven
<1>5. MaxAhead % Wrap = MaxAhead
  BY <1>4, Wrapped
<1>. QED BY <1>1, <1>2, <1>3, <1>5 DEF Lead

LEMMA InitInv == Init => Inv
<1> SUFFICES ASSUME Init PROVE Inv
  OBVIOUS
<1>1. ASSUME NEW e \in Side
      PROVE  /\ sequence[e] = 0 /\ sent[e] = Buffer(SentSize) /\ received[e] = Buffer(ReceivedSize)
             /\ reassembly[e] = Buffer(ReassemblySize) /\ acks[e] = {} /\ flight[e] = <<>>
  BY DEF Init
<1>2. /\ \A V : Buffer(SentSize) \in Buffers(SentSize, V)
      /\ \A V : Buffer(ReceivedSize) \in Buffers(ReceivedSize, V)
      /\ \A V : Buffer(ReassemblySize) \in Buffers(ReassemblySize, V)
      /\ DOMAIN Buffer(ReceivedSize).live = {} /\ DOMAIN Buffer(ReassemblySize).live = {}
      /\ Buffer(ReceivedSize).next = 0 /\ Buffer(ReassemblySize).next = 0
  BY NewBuffer
<1>3. <<>> \in Seq(Packet) /\ Len(<<>>) = 0 /\ DOMAIN <<>> = {}
  OBVIOUS
<1>4. TypeInv
  <2>1. \A e \in Side : Len(flight[e]) <= Lifetime[e]
    BY <1>1, <1>3, BoundsHold
  <2>2. sequence \in [Side -> Sequence] /\ acks \in [Side -> SUBSET Sequence] /\ flight \in [Side -> Seq(Packet)]
    BY <1>3, ZeroIsNumber DEF Init
  <2>3. sent \in [Side -> Buffers(SentSize, BOOLEAN)]
    BY <1>2 DEF Init
  <2>4. received \in [Side -> Buffers(ReceivedSize, {TRUE})]
    BY <1>2 DEF Init
  <2>5. reassembly \in [Side -> Buffers(ReassemblySize, Entry)]
    BY <1>2 DEF Init
  <2>. QED BY <2>1, <2>2, <2>3, <2>4, <2>5 DEF TypeInv
<1>5. WindowInv
  <2>1. Rolling(Buffer(ReceivedSize), 0) /\ Rolling(Buffer(ReassemblySize), 0)
    BY <1>2, ZeroIsNumber, BoundsHold DEF Rolling
  <2>. QED BY <1>1, <1>2, <2>1, Sides DEF WindowInv
<1>6. LeadInv
  <2>1. MaxAhead <= 2 * MaxAhead
    BY BoundsHold
  <2>. QED BY <1>1, <2>1, ZeroIsNumber, Sides DEF LeadInv
<1>7. \A e \in Side : DOMAIN flight[e] = {} /\ acks[e] = {} /\ DOMAIN received[Other(e)].live = {}
  BY <1>1, <1>2, <1>3, Sides
<1>8. FlightInv /\ PartialInv /\ KeptInv
  BY <1>7 DEF FlightInv, PartialInv, KeptInv
<1>9. ReceivedInv /\ AcksInv
  BY <1>7 DEF ReceivedInv, AcksInv
<1>10. HeaderInv
  BY <1>7, Sides DEF HeaderInv
<1>. QED BY <1>4, <1>5, <1>6, <1>8, <1>9, <1>10 DEF Inv
-----------------------------------------------------------------------------
(***************************************************************************)
(* Sending.                                                                *)
(***************************************************************************)
\* How far one side is ahead changes with each packet, and stays in its bounds.
LEMMA LeadMoves ==
    ASSUME NEW p \in Sequence, NEW q \in Sequence, Lead(p, q) <= 2 * MaxAhead,
           Distance(p, q) \notin MaxAhead..(Wrap \div 2)
    PROVE  /\ Lead(p, q) + 1 <= 2 * MaxAhead
           /\ Lead(p, Later(q, 1)) = Lead(p, q) + 1
           /\ Lead(Later(q, 1), p) = Lead(q, p) - 1
           /\ Lead(p, q) \in Int /\ Lead(q, p) \in Int /\ 0 < Lead(q, p) /\ Lead(q, p) <= 2 * MaxAhead
<1> DEFINE d == Distance(p, q)
           q1 == Later(q, 1)
<1>1. /\ Wrap \in Nat \ {0} /\ Half \in Nat \ {0} /\ Wrap = 2 * Half
      /\ MaxAhead \in Nat /\ MaxAhead < Half
  BY WrapIsEven, BoundsHold
<1>2. p \in 0..(Wrap - 1) /\ q \in 0..(Wrap - 1) /\ 1 \in 0..Wrap
  BY <1>1 DEF Sequence
<1>3. d = IF p <= q THEN q - p ELSE q - p + Wrap
  BY DistanceIs
<1>4. q1 = (IF q + 1 < Wrap THEN q + 1 ELSE q + 1 - Wrap)
  BY <1>2, LaterIs
<1>5. ~(MaxAhead <= d /\ d <= Half)
  <2>1. d \in Int
    BY <1>1, <1>2, <1>3
  <2>2. d \notin MaxAhead..Half
    BY DEF Half
  <2>. QED BY <2>1, <2>2, <1>1
<1> HIDE DEF d, q1
<1>6. ASSUME NEW x \in 0..(Wrap - 1), NEW y \in 0..(Wrap - 1)
      PROVE  Lead(x, y) = IF y - x + MaxAhead < 0 THEN y - x + MaxAhead + Wrap
                          ELSE IF y - x + MaxAhead < Wrap THEN y - x + MaxAhead
                          ELSE y - x + MaxAhead - Wrap
  <2>1. PICK a \in Int : a = y - x + MaxAhead
    BY <1>1
  <2>2. -Wrap <= a /\ a < 2 * Wrap
    BY <1>1, <2>1
  <2>3. a % Wrap = IF a < 0 THEN a + Wrap ELSE IF a < Wrap THEN a ELSE a - Wrap
    BY <2>2, Wrapped
  <2>4. Lead(x, y) = a % Wrap
    BY <2>1 DEF Lead
  <2>. QED BY <1>1, <2>1, <2>3, <2>4
<1>7. q1 \in 0..(Wrap - 1)
  BY <1>1, <1>2, <1>4
<1>8. Lead(p, q) = IF q - p + MaxAhead < 0 THEN q - p + MaxAhead + Wrap
                   ELSE IF q - p + MaxAhead < Wrap THEN q - p + MaxAhead ELSE q - p + MaxAhead - Wrap
  BY <1>2, <1>6
<1>9. Lead(q, p) = IF p - q + MaxAhead < 0 THEN p - q + MaxAhead + Wrap
                   ELSE IF p - q + MaxAhead < Wrap THEN p - q + MaxAhead ELSE p - q + MaxAhead - Wrap
  BY <1>2, <1>6
<1>10. Lead(p, q1) = IF q1 - p + MaxAhead < 0 THEN q1 - p + MaxAhead + Wrap
                     ELSE IF q1 - p + MaxAhead < Wrap THEN q1 - p + MaxAhead ELSE q1 - p + MaxAhead - Wrap
  BY <1>2, <1>6, <1>7
<1>11. Lead(q1, p) = IF p - q1 + MaxAhead < 0 THEN p - q1 + MaxAhead + Wrap
                     ELSE IF p - q1 + MaxAhead < Wrap THEN p - q1 + MaxAhead ELSE p - q1 + MaxAhead - Wrap
  BY <1>2, <1>6, <1>7
<1> DEFINE l == Lead(p, q)
           m == Lead(q, p)
<1>12. l \in Int /\ m \in Int
  BY <1>1, <1>2, <1>8, <1>9
<1>13. l <= 2 * MaxAhead /\ l = Lead(p, q) /\ m = Lead(q, p)
  OBVIOUS
<1> HIDE DEF l, m
<1>14. l + 1 <= 2 * MaxAhead
  BY <1>1, <1>2, <1>3, <1>5, <1>8, <1>12, <1>13
<1>15. 0 < m /\ m <= 2 * MaxAhead
  BY <1>1, <1>2, <1>3, <1>5, <1>8, <1>9, <1>12, <1>13
<1>16. Lead(p, q1) = l + 1
  BY <1>1, <1>2, <1>4, <1>8, <1>10, <1>13, <1>14
<1>17. Lead(q1, p) = m - 1
  BY <1>1, <1>2, <1>4, <1>9, <1>11, <1>13, <1>15
<1>. QED BY <1>12, <1>13, <1>14, <1>15, <1>16, <1>17 DEF q1

\* What a packet that is sent changes.
Sends(e, n) ==
    /\ sequence'[e] = Later(sequence[e], 1) /\ sequence'[Other(e)] = sequence[Other(e)]
    /\ sent'[e] = Put(sent[e], sequence[e], FALSE, Wrap) /\ sent'[Other(e)] = sent[Other(e)]
    /\ received' = received /\ reassembly' = reassembly /\ acks' = acks
    /\ flight'[Other(e)] = flight[Other(e)]
    /\ flight'[e][1] = [parts |-> 0..(n - 1), total |-> n, header |-> {AckHeader(e)}, fate |-> "flying"]
    /\ 1 \in DOMAIN flight'[e]
    /\ \A k \in DOMAIN flight'[e] : k = 1 \/ (k - 1 \in DOMAIN flight[e] /\ flight'[e][k] = flight[e][k - 1])

LEMMA HeaderTyped == ASSUME TypeInv, NEW e \in Side PROVE AckHeader(e) \in Header
<1>1. received[e].next \in Sequence /\ DOMAIN received[e].live \subseteq Sequence /\ 1 \in 0..Wrap
  BY Typed, WrapIsEven
<1>2. (received[e].next - 1) % Wrap \in Sequence
  BY <1>1, BackIs
<1>. QED BY <1>1, <1>2 DEF AckHeader, Header

LEMMA SendFacts ==
    ASSUME TypeInv, NEW e \in Side, NEW n \in Sizes[e], SendPacket(e, n)
    PROVE  Sends(e, n) /\ TypeInv'
<1> DEFINE packet == [parts |-> 0..(n - 1), total |-> n, header |-> {AckHeader(e)}, fate |-> "flying"]
           longer == <<packet>> \o flight[e]
           kept == IF Len(longer) > Lifetime[e] THEN SubSeq(longer, 1, Lifetime[e]) ELSE longer
<1>1. n \in Nat \ {0}
  BY SidesAssumption
<1>2. packet \in Packet
  BY <1>1, HeaderTyped DEF Packet
<1>3. flight[e] \in Seq(Packet) /\ Len(flight[e]) \in Nat /\ DOMAIN flight[e] = 1..Len(flight[e])
      /\ Lifetime[e] \in Nat \ {0}
  BY Typed, BoundsHold
<1>4. flight' = [flight EXCEPT ![e] = kept]
  BY DEF SendPacket
<1>5. /\ packet.parts = 0..(n - 1) /\ packet.total = n /\ packet.header = {AckHeader(e)} /\ packet.fate = "flying"
  OBVIOUS
<1> HIDE DEF packet
<1>6. /\ longer \in Seq(Packet) /\ Len(longer) = Len(flight[e]) + 1 /\ longer[1] = packet
      /\ \A k \in 2..(Len(flight[e]) + 1) : longer[k] = flight[e][k - 1]
  BY <1>2, <1>3
<1> HIDE DEF longer
<1>7. /\ kept \in Seq(Packet) /\ Len(kept) <= Lifetime[e] /\ Len(kept) \in Nat /\ Len(kept) >= 1
      /\ Len(kept) <= Len(flight[e]) + 1
      /\ \A k \in 1..Len(kept) : kept[k] = longer[k]
  <2>1. CASE Len(longer) > Lifetime[e]
    BY <2>1, <1>3, <1>6
  <2>2. CASE ~(Len(longer) > Lifetime[e])
    BY <2>2, <1>3, <1>6
  <2>. QED BY <2>1, <2>2
<1> HIDE DEF kept
<1>8. DOMAIN kept = 1..Len(kept)
  BY <1>7
<1>9. flight'[e] = kept /\ flight'[Other(e)] = flight[Other(e)]
  BY <1>4, Sides DEF TypeInv
<1>10. /\ flight'[e][1] = packet /\ 1 \in DOMAIN flight'[e]
       /\ \A k \in DOMAIN flight'[e] :
             k = 1 \/ (k - 1 \in DOMAIN flight[e] /\ flight'[e][k] = flight[e][k - 1])
  <2>1. 1 \in 1..Len(kept)
    BY <1>7
  <2>2. ASSUME NEW k \in 1..Len(kept), k # 1
        PROVE  k - 1 \in 1..Len(flight[e]) /\ kept[k] = flight[e][k - 1]
    <3>1. k \in 2..(Len(flight[e]) + 1) /\ k - 1 \in 1..Len(flight[e])
      BY <2>2, <1>3, <1>7
    <3>. QED BY <3>1, <1>6, <1>7
  <2>. QED BY <2>1, <2>2, <1>3, <1>6, <1>7, <1>8, <1>9
<1>11. /\ sequence'[e] = Later(sequence[e], 1) /\ sequence'[Other(e)] = sequence[Other(e)]
       /\ sent'[e] = Put(sent[e], sequence[e], FALSE, Wrap) /\ sent'[Other(e)] = sent[Other(e)]
       /\ received' = received /\ reassembly' = reassembly /\ acks' = acks
  BY Sides DEF SendPacket, TypeInv
<1>12. Sends(e, n)
  BY <1>9, <1>10, <1>11 DEF Sends, packet
<1>13. TypeInv'
  <2>1. Later(sequence[e], 1) \in Sequence
    BY Typed, LaterIs, WrapIsEven
  <2>2. Put(sent[e], sequence[e], FALSE, Wrap) \in Buffers(SentSize, BOOLEAN)
    BY Typed, PutIs
  <2>3. sequence' \in [Side -> Sequence] /\ sent' \in [Side -> Buffers(SentSize, BOOLEAN)]
    BY <2>1, <2>2 DEF SendPacket, TypeInv
  <2>4. flight' \in [Side -> Seq(Packet)]
    BY <1>4, <1>7 DEF TypeInv
  <2>5. ASSUME NEW a \in Side PROVE Len(flight'[a]) <= Lifetime[a]
    BY <1>7, <1>9, Sides DEF TypeInv
  <2>. QED BY <2>3, <2>4, <2>5, <1>11 DEF TypeInv
<1>. QED BY <1>12, <1>13

\* A number that is not used again tells of the packet it told of before.
LEMMA SendHonest ==
    ASSUME TypeInv, TypeInv', NEW e \in Side, NEW n, Sends(e, n)
    PROVE  /\ \A k \in DOMAIN flight'[e] :
                 /\ k # 1 => /\ k - 1 \in DOMAIN flight[e] /\ k - 1 >= 1 /\ k \in Int
                             /\ flight'[e][k] = flight[e][k - 1]
                             /\ Number(e, k)' = Number(e, k - 1)
                             /\ Number(e, k)' # sequence[e]
                 /\ k = 1 => Number(e, k)' = sequence[e]
           /\ \A s \in Sequence : s # sequence[e] /\ Honest(e, s) => Honest(e, s)'
           /\ \A s : Honest(Other(e), s) => Honest(Other(e), s)'
           /\ \A k : Number(Other(e), k)' = Number(Other(e), k)
           /\ \A s \in Sequence : s # sequence[e] =>
                 /\ s \in DOMAIN sent'[e].live => s \in DOMAIN sent[e].live
                                                 /\ sent'[e].live[s] = sent[e].live[s]
<1> DEFINE q == sequence[e]
           o == Other(e)
<1>1. o \in Side /\ q \in Sequence /\ Wrap \in Nat \ {0} /\ Half \in Nat /\ Wrap = 2 * Half
  BY Sides, Typed, WrapIsEven
<1>2. sequence'[e] = Later(q, 1) /\ Later(q, 1) \in Sequence
  BY <1>1, LaterIs DEF Sends
<1>3. ASSUME NEW k \in DOMAIN flight'[e]
      PROVE  /\ k \in 1..Half /\ k < Wrap /\ Number(e, k)' \in Sequence
             /\ Distance(Number(e, k)', Later(q, 1)) = k
  <2>1. ASSUME NEW j \in DOMAIN flight[e]
        PROVE  /\ j \in 1..Half /\ j < Wrap /\ Number(e, j) \in Sequence
               /\ Distance(Number(e, j), sequence[e]) = j
    BY <2>1, Numbers
  <2>2. TypeInv' => /\ k \in 1..Half /\ k < Wrap /\ Number(e, k)' \in Sequence
                    /\ Distance(Number(e, k)', sequence'[e]) = k
    <3>1. sequence'[e] \in Sequence /\ Lifetime[e] \in Nat \ {0} /\ Lifetime[e] <= Half
      BY <1>1, <1>2, BoundsHold
    <3>2. flight'[e] \in Seq(Packet) /\ Len(flight'[e]) <= Lifetime[e]
      BY DEF TypeInv
    <3>3. k \in 1..Half /\ k < Wrap /\ k \in 0..Wrap
      BY <1>1, <3>1, <3>2
    <3>4. (sequence'[e] - k) % Wrap \in Sequence /\ Distance((sequence'[e] - k) % Wrap, sequence'[e]) = k
      BY <3>1, <3>3, BackIs
    <3>. QED BY <3>3, <3>4 DEF Number
  <2>. QED BY <2>2, <1>2
<1>4. \A s \in Sequence : Distance(s, Later(q, 1)) = IF Distance(s, q) = Wrap - 1 THEN 0 ELSE Distance(s, q) + 1
  BY <1>1, Ageing
<1>5. ASSUME NEW k \in DOMAIN flight'[e], k # 1
      PROVE  /\ k - 1 \in DOMAIN flight[e] /\ k - 1 >= 1 /\ k \in Int
             /\ flight'[e][k] = flight[e][k - 1]
             /\ Number(e, k)' = Number(e, k - 1)
             /\ Number(e, k)' # q
  <2>1. k - 1 \in DOMAIN flight[e] /\ flight'[e][k] = flight[e][k - 1]
    BY <1>5 DEF Sends
  <2>2. /\ k - 1 \in 1..Half /\ k - 1 < Wrap /\ Number(e, k - 1) \in Sequence
        /\ Distance(Number(e, k - 1), q) = k - 1
    BY <2>1, Numbers
  <2>3. Distance(Number(e, k - 1), Later(q, 1)) = k
    <3>1. k - 1 # Wrap - 1
      BY <1>1, <1>3, <2>2
    <3>. QED BY <1>3, <1>4, <2>2, <3>1
  <2>4. Number(e, k)' = Number(e, k - 1)
    BY <1>2, <1>3, <2>2, <2>3, OneAge
  <2>5. Distance(q, q) = 0
    BY <1>1, AgeIs
  <2>. QED BY <1>3, <2>1, <2>2, <2>4, <2>5
<1>6. ASSUME NEW k \in DOMAIN flight'[e], k = 1 PROVE Number(e, k)' = q
  <2>1. Distance(q, q) = 0
    BY <1>1, AgeIs
  <2>2. Distance(q, Later(q, 1)) = 1
    <3>1. 0 # Wrap - 1
      BY <1>1, WrapIsEven
    <3>. QED BY <1>1, <1>4, <2>1, <3>1
  <2>. QED BY <1>1, <1>2, <1>3, <1>6, <2>2, OneAge
<1>7. ASSUME NEW s \in Sequence, s # q
      PROVE  s \in DOMAIN sent'[e].live => s \in DOMAIN sent[e].live /\ sent'[e].live[s] = sent[e].live[s]
  <2> DEFINE d == FALSE
             p == Put(sent[e], q, d, Wrap)
  <2>1. sent'[e] = p /\ sent[e] \in Buffers(SentSize, BOOLEAN) /\ d \in BOOLEAN
    BY Typed DEF Sends
  <2> HIDE DEF d, q
  <2>2. /\ DOMAIN p.live \subseteq DOMAIN sent[e].live \union {q}
        /\ \A t \in DOMAIN p.live : t # q => p.live[t] = sent[e].live[t]
    BY <1>1, <2>1, PutIs
  <2> HIDE DEF p
  <2>. QED BY <1>7, <2>1, <2>2
<1>8. ASSUME NEW s \in Sequence, s # q, Honest(e, s) PROVE Honest(e, s)'
  <2> SUFFICES ASSUME NEW k \in DOMAIN flight'[e], Number(e, k)' = s PROVE Settled(e, k)'
    BY DEF Honest
  <2>1. k # 1
    BY <1>6, <1>8
  <2>2. k - 1 \in DOMAIN flight[e] /\ flight'[e][k] = flight[e][k - 1] /\ Number(e, k - 1) = s
    BY <2>1, <1>5
  <2>3. Settled(e, k - 1)
    BY <2>2, <1>8 DEF Honest
  <2>. QED BY <2>2, <2>3, <1>7, <1>8 DEF Settled
<1>9. \A k : Number(o, k)' = Number(o, k)
  BY DEF Number, Sends
<1>10. ASSUME NEW s, Honest(o, s) PROVE Honest(o, s)'
  BY <1>9, <1>10 DEF Honest, Settled, Sends
<1>. QED BY <1>5, <1>6, <1>7, <1>8, <1>9, <1>10

LEMMA SendWindow ==
    ASSUME Inv, TypeInv', NEW e \in Side, NEW n \in Sizes[e], SendPacket(e, n), Sends(e, n)
    PROVE  /\ WindowInv' /\ LeadInv'
           /\ Distance(received[Other(e)].next, sequence'[e])
                 = Distance(received[Other(e)].next, sequence[e]) + 1
<1> DEFINE q == sequence[e]
           o == Other(e)
           q1 == Later(q, 1)
<1>1. /\ o \in Side /\ q \in Sequence /\ TypeInv /\ WindowInv /\ LeadInv /\ q1 \in Sequence /\ sequence[o] \in Sequence
      /\ received[o] \in Buffers(ReceivedSize, {TRUE}) /\ reassembly[o] \in Buffers(ReassemblySize, Entry)
      /\ received[o].next \in Sequence /\ Other(o) = e
      /\ received[o].size = ReceivedSize /\ reassembly[o].size = ReassemblySize
      /\ reassembly[o].next = received[o].next
      /\ DOMAIN received[o].live \subseteq Sequence /\ DOMAIN reassembly[o].live \subseteq Sequence
  BY Sides, Typed, LaterIs, WrapIsEven DEF Inv, WindowInv
<1>2. sequence'[e] = q1 /\ sequence'[o] = sequence[o] /\ received' = received /\ reassembly' = reassembly
  BY DEF Sends
<1>3. Rolling(received[o], q) /\ Rolling(reassembly[o], q)
  BY <1>1 DEF WindowInv
<1>4. Distance(received[o].next, q) < MaxLost /\ Distance(sequence[o], q) \notin MaxAhead..(Wrap \div 2)
  BY DEF SendPacket
<1>5. \A s \in Sequence : Distance(s, q1) = IF Distance(s, q) = Wrap - 1 THEN 0 ELSE Distance(s, q) + 1
  BY <1>1, Ageing
<1>6. ASSUME NEW size, Fitting(size), NEW V, NEW b \in Buffers(size, V), Rolling(b, q),
             Distance(b.next, q) < MaxLost
      PROVE  Rolling(b, q1) /\ Distance(b.next, q1) = Distance(b.next, q) + 1
  <2>1. b.size = size /\ b.next \in Sequence /\ DOMAIN b.live \subseteq Sequence
    BY <1>6, BufferIs
  <2>2. /\ 0 <= Distance(b.next, q) /\ Distance(b.next, q) \in Int
        /\ \A t \in DOMAIN b.live : Distance(t, q) \in Int
                                    /\ Distance(t, q) - Distance(b.next, q) \in 1..size
    BY <1>1, <1>6, RollingAges
  <2>3. size \in Nat \ {0} /\ MaxLost \in Nat /\ MaxLost + size < Wrap /\ Wrap \in Nat
    BY <1>6, BoundsHold, WrapIsEven DEF Fitting
  <2>4. Distance(b.next, q1) = Distance(b.next, q) + 1
    <3>1. Distance(b.next, q) # Wrap - 1
      BY <2>2, <2>3, <1>6
    <3>. QED BY <3>1, <2>1, <1>5
  <2>5. ASSUME NEW t \in DOMAIN b.live PROVE Distance(t, q1) = Distance(t, q) + 1
    <3>1. Distance(t, q) # Wrap - 1
      BY <2>2, <2>3, <1>6
    <3>. QED BY <3>1, <2>1, <1>5
  <2>6. \A t \in DOMAIN b.live : Distance(t, q1) - Distance(b.next, q1) \in 1..b.size
    BY <2>1, <2>2, <2>4, <2>5
  <2>7. Distance(b.next, q1) <= MaxLost
    BY <2>2, <2>3, <2>4, <1>6
  <2>. QED BY <2>4, <2>6, <2>7 DEF Rolling
<1>7. /\ Rolling(received[o], q1) /\ Rolling(reassembly[o], q1)
      /\ Distance(received[o].next, q1) = Distance(received[o].next, q) + 1
  BY <1>1, <1>3, <1>4, <1>6, BoundsHold
<1>8. WindowInv'
  <2> SUFFICES ASSUME NEW a \in Side
               PROVE  /\ Rolling(received[Other(a)], sequence'[a])
                      /\ Rolling(reassembly[Other(a)], sequence'[a])
                      /\ received[Other(a)].next = reassembly[Other(a)].next
    BY <1>2 DEF WindowInv
  <2>1. CASE a = e
    BY <2>1, <1>1, <1>2, <1>7
  <2>2. CASE a = o
    BY <2>2, <1>1, <1>2 DEF WindowInv
  <2>. QED BY <2>1, <2>2, Sides
<1>9. LeadInv'
  <2>1. Lead(sequence[o], q) <= 2 * MaxAhead
    BY <1>1 DEF LeadInv
  <2>2. /\ Lead(sequence[o], q) + 1 <= 2 * MaxAhead
        /\ Lead(sequence[o], q1) = Lead(sequence[o], q) + 1
        /\ Lead(q1, sequence[o]) = Lead(q, sequence[o]) - 1
        /\ Lead(q, sequence[o]) \in Int /\ Lead(q, sequence[o]) <= 2 * MaxAhead
    BY <1>1, <1>4, <2>1, LeadMoves
  <2>3. Lead(sequence[o], q1) <= 2 * MaxAhead /\ Lead(q1, sequence[o]) <= 2 * MaxAhead
    BY <2>2, BoundsHold
  <2> SUFFICES ASSUME NEW a \in Side PROVE Lead(sequence'[Other(a)], sequence'[a]) <= 2 * MaxAhead
    BY DEF LeadInv, Lead
  <2>. QED BY <2>3, <1>1, <1>2, Sides
<1>. QED BY <1>2, <1>7, <1>8, <1>9

\* What a new header tells is remembered, and so it is recent.
LEMMA HeaderRecent ==
    ASSUME TypeInv, WindowInv, NEW e \in Side, NEW s \in AckHeader(e).acked
    PROVE  /\ s \in DOMAIN received[e].live
           /\ Distance(s, sequence[Other(e)]) \in 1..(MaxLost + AckBits)
<1> DEFINE o == Other(e)
           q == sequence[o]
           next == received[e].next
           ack == (next - 1) % Wrap
<1>1. /\ o \in Side /\ Other(o) = e /\ q \in Sequence /\ next \in Sequence
      /\ received[e] \in Buffers(ReceivedSize, {TRUE}) /\ DOMAIN received[e].live \subseteq Sequence
  BY Sides, Typed
<1>2. Rolling(received[e], q)
  BY <1>1 DEF WindowInv
<1>3. s \in DOMAIN received[e].live /\ Distance(s, ack) < AckBits
  BY DEF AckHeader
<1>4. /\ 0 <= Distance(next, q) /\ Distance(next, q) <= MaxLost /\ Distance(next, q) \in Int
      /\ Distance(s, q) \in Int /\ Distance(s, q) - Distance(next, q) >= 1
      /\ Distance(s, q) <= MaxLost + ReceivedSize
  <2>1. Distance(s, q) - Distance(next, q) \in 1..ReceivedSize
        /\ 0 <= Distance(next, q) /\ Distance(next, q) <= MaxLost /\ Distance(next, q) \in Int
        /\ Distance(s, q) \in Int /\ Distance(s, q) <= MaxLost + ReceivedSize
    BY <1>1, <1>2, <1>3, RollingAges, BoundsHold
  <2>. QED BY <2>1, BoundsHold
<1>5. MaxLost \in Nat /\ ReceivedSize \in Nat /\ AckBits \in Nat /\ Wrap \in Nat /\ MaxLost + ReceivedSize < Wrap
      /\ 1 \in 0..Wrap /\ 1 < Wrap /\ ReceivedSize >= 1
  BY BoundsHold, WrapIsEven DEF Fitting
<1>6. ack \in Sequence /\ Distance(ack, next) = 1
  BY <1>1, <1>5, BackIs
<1>7. s \in Sequence
  BY <1>1, <1>3
<1> HIDE DEF ack, next, q
<1>8. Distance(ack, q) = Distance(next, q) + 1
  <2>1. Distance(ack, next) = IF Distance(ack, q) >= Distance(next, q)
                              THEN Distance(ack, q) - Distance(next, q)
                              ELSE Distance(ack, q) - Distance(next, q) + Wrap
    BY <1>1, <1>6, ByAge
  <2>2. Distance(ack, q) \in Int /\ 0 <= Distance(ack, q)
    BY <1>1, <1>6, AgeIs
  <2>. QED BY <2>1, <2>2, <1>4, <1>5, <1>6
<1>9. Distance(s, ack) = Distance(s, q) - Distance(ack, q)
  <2>1. Distance(s, ack) = IF Distance(s, q) >= Distance(ack, q)
                           THEN Distance(s, q) - Distance(ack, q)
                           ELSE Distance(s, q) - Distance(ack, q) + Wrap
    BY <1>1, <1>6, <1>7, ByAge
  <2>. QED BY <2>1, <1>4, <1>8
<1>10. Distance(s, q) \in 1..(MaxLost + AckBits)
  BY <1>3, <1>4, <1>5, <1>8, <1>9
<1>. QED BY <1>3, <1>10 DEF q

LEMMA SendHeaders ==
    ASSUME Inv, TypeInv', NEW e \in Side, NEW n \in Sizes[e], SendPacket(e, n), Sends(e, n)
    PROVE  HeaderInv'
<1> DEFINE q == sequence[e]
           o == Other(e)
           p == sequence[o]
           q1 == Later(q, 1)
<1>1. /\ o \in Side /\ q \in Sequence /\ p \in Sequence /\ q1 \in Sequence /\ Other(o) = e
      /\ TypeInv /\ WindowInv /\ LeadInv /\ HeaderInv /\ ReceivedInv
      /\ DOMAIN received[e].live \subseteq Sequence
  BY Sides, Typed, LaterIs, WrapIsEven DEF Inv
<1>2. /\ sequence'[e] = q1 /\ sequence'[o] = p /\ received' = received /\ reassembly' = reassembly
      /\ flight'[o] = flight[o]
  BY DEF Sends
<1>3. /\ Lead(p, q) + 1 <= 2 * MaxAhead /\ Lead(p, q1) = Lead(p, q) + 1
      /\ Lead(q1, p) = Lead(q, p) - 1
      /\ Lead(p, q) \in Int /\ Lead(q, p) \in Int /\ 0 < Lead(q, p) /\ Lead(q, p) <= 2 * MaxAhead
  <2>1. Lead(p, q) <= 2 * MaxAhead
    BY <1>1 DEF LeadInv
  <2>2. Distance(p, q) \notin MaxAhead..(Wrap \div 2)
    BY DEF SendPacket
  <2>. QED BY <2>1, <2>2, <1>1, LeadMoves
<1>4. /\ \A k \in DOMAIN flight'[e] :
            /\ k # 1 => /\ k - 1 \in DOMAIN flight[e] /\ k - 1 >= 1 /\ k \in Int
                        /\ flight'[e][k] = flight[e][k - 1]
                        /\ Number(e, k)' = Number(e, k - 1)
                        /\ Number(e, k)' # sequence[e]
            /\ k = 1 => Number(e, k)' = sequence[e]
      /\ \A s \in Sequence : s # sequence[e] /\ Honest(e, s) => Honest(e, s)'
      /\ \A s : Honest(o, s) => Honest(o, s)'
      /\ \A k : Number(o, k)' = Number(o, k)
  BY <1>1, SendHonest
<1>5. MaxLost \in Nat /\ AckBits \in Nat /\ Wrap \in Nat
  BY BoundsHold, WrapIsEven
<1>6. \A a \in Side : \A k \in DOMAIN flight[a] : \A h \in HeadersOf(a, k) : h.acked \subseteq Sequence
  <2> SUFFICES ASSUME NEW a \in Side, NEW k \in DOMAIN flight[a], NEW h \in HeadersOf(a, k)
               PROVE  h.acked \subseteq Sequence
    OBVIOUS
  <2>1. flight[a][k] \in Packet
    BY <1>1, Numbers
  <2>2. \A s \in DOMAIN reassembly[Other(a)].live : reassembly[Other(a)].live[s] \in Entry
    BY <1>1, Sides, Typed
  <2>3. h \in Header
    BY <2>1, <2>2 DEF HeadersOf, Packet, Entry
  <2>. QED BY <2>3 DEF Header
<1>7. ASSUME NEW k \in DOMAIN flight[o], NEW h \in HeadersOf(o, k)', NEW s \in h.acked
      PROVE  Honest(e, s)' /\ Recent(e, s, k)'
  <2>1. h \in HeadersOf(o, k)
    BY <1>2, <1>4 DEF HeadersOf
  <2>2. Honest(e, s) /\ Recent(e, s, k) /\ s \in Sequence
    BY <2>1, <1>1, <1>6 DEF HeaderInv
  <2>3. Distance(s, q) \in 1..(MaxLost + AckBits + k - 1 + Lead(p, q))
    BY <2>2 DEF Recent
  <2>4. k \in 1..Lifetime[o] /\ Lifetime[o] \in Nat /\ MaxLost + AckBits + 2 * MaxAhead + Lifetime[o] <= Wrap
    BY <1>1, Numbers, BoundsHold
  <2>5. Distance(s, q) # Wrap - 1
    BY <2>3, <2>4, <1>3, <1>5, BoundsHold
  <2>6. Distance(s, q1) = Distance(s, q) + 1
    BY <2>2, <2>5, <1>1, Ageing
  <2>7. Distance(s, q1) \in 1..(MaxLost + AckBits + k - 1 + Lead(p, q1))
    BY <2>3, <2>4, <2>6, <1>3, <1>5
  <2>8. Recent(e, s, k)'
    BY <2>7, <1>2 DEF Recent, Lead
  <2>9. s # q
    <3>1. Distance(q, q) = 0
      BY <1>1, AgeIs
    <3>. QED BY <3>1, <2>3
  <2>. QED BY <2>2, <2>8, <2>9, <1>4
<1>8. ASSUME NEW k \in DOMAIN flight'[e], NEW h \in HeadersOf(e, k)', NEW s \in h.acked
      PROVE  Honest(o, s)' /\ Recent(o, s, k)'
  <2>1. CASE k # 1
    <3>1. k - 1 \in DOMAIN flight[e] /\ k \in Int /\ k - 1 >= 1 /\ flight'[e][k] = flight[e][k - 1]
          /\ Number(e, k)' = Number(e, k - 1)
      BY <2>1, <1>4
    <3>2. h \in HeadersOf(e, k - 1)
      BY <3>1, <1>2 DEF HeadersOf
    <3>3. Honest(o, s) /\ Recent(o, s, k - 1)
      BY <3>1, <3>2, <1>1 DEF HeaderInv
    <3>4. Distance(s, p) \in 1..(MaxLost + AckBits + (k - 1) - 1 + Lead(q, p))
      BY <3>3, <1>1 DEF Recent
    <3>5. Distance(s, p) \in 1..(MaxLost + AckBits + k - 1 + Lead(q1, p))
      BY <3>1, <3>4, <1>3, <1>5
    <3>6. Recent(o, s, k)'
      BY <3>5, <1>1, <1>2 DEF Recent, Lead
    <3>. QED BY <3>3, <3>6, <1>4
  <2>2. CASE k = 1
    <3>1. Number(e, k)' = q /\ flight'[e][k].header = {AckHeader(e)}
      BY <2>2, <1>4 DEF Sends
    <3>2. q \notin DOMAIN reassembly[o].live
      BY <1>1, Typed, BoundsHold, RollingAges DEF WindowInv
    <3>3. h = AckHeader(e)
      BY <3>1, <3>2, <1>2 DEF HeadersOf
    <3>4. s \in DOMAIN received[e].live /\ Distance(s, p) \in 1..(MaxLost + AckBits)
      BY <3>3, <1>1, HeaderRecent
    <3>5. Honest(o, s)
      BY <3>4, <1>1 DEF ReceivedInv
    <3>6. Distance(s, p) \in 1..(MaxLost + AckBits + k - 1 + Lead(q1, p))
      BY <3>4, <2>2, <1>3, <1>5
    <3>7. Recent(o, s, k)'
      BY <3>6, <1>1, <1>2 DEF Recent, Lead
    <3>. QED BY <3>5, <3>7, <1>4
  <2>. QED BY <2>1, <2>2
<1> SUFFICES ASSUME NEW a \in Side, NEW k \in DOMAIN flight'[Other(a)], NEW h \in HeadersOf(Other(a), k)',
                    NEW s \in h.acked
             PROVE  Honest(a, s)' /\ Recent(a, s, k)'
  BY DEF HeaderInv
<1>9. CASE a = e
  BY <1>2, <1>7, <1>9
<1>10. CASE a = o
  BY <1>1, <1>8, <1>10
<1>. QED BY <1>9, <1>10, Sides

LEMMA SendKeeps ==
    ASSUME Inv, NEW e \in Side, NEW n \in Sizes[e], SendPacket(e, n) PROVE Inv'
<1> DEFINE q == sequence[e]
           o == Other(e)
<1>1. /\ o \in Side /\ Other(o) = e /\ q \in Sequence
      /\ TypeInv /\ WindowInv /\ LeadInv /\ FlightInv /\ PartialInv
      /\ ReceivedInv /\ KeptInv /\ HeaderInv /\ AcksInv
  BY Sides, Typed DEF Inv
<1>2. Sends(e, n) /\ TypeInv'
  BY <1>1, SendFacts
<1>3. /\ sequence'[o] = sequence[o] /\ received' = received /\ reassembly' = reassembly
      /\ flight'[o] = flight[o] /\ acks' = acks /\ sent'[o] = sent[o]
      /\ flight'[e][1] = [parts |-> 0..(n - 1), total |-> n, header |-> {AckHeader(e)}, fate |-> "flying"]
  BY <1>2 DEF Sends
<1>4. /\ \A k \in DOMAIN flight'[e] :
            /\ k # 1 => /\ k - 1 \in DOMAIN flight[e] /\ k - 1 >= 1 /\ k \in Int
                        /\ flight'[e][k] = flight[e][k - 1]
                        /\ Number(e, k)' = Number(e, k - 1)
                        /\ Number(e, k)' # sequence[e]
            /\ k = 1 => Number(e, k)' = sequence[e]
      /\ \A s \in Sequence : s # sequence[e] /\ Honest(e, s) => Honest(e, s)'
      /\ \A s : Honest(o, s) => Honest(o, s)'
      /\ \A k : Number(o, k)' = Number(o, k)
  BY <1>1, <1>2, SendHonest
<1>5. /\ WindowInv' /\ LeadInv'
      /\ Distance(received[o].next, sequence'[e]) = Distance(received[o].next, sequence[e]) + 1
  BY <1>2, SendWindow
<1>6. HeaderInv'
  BY <1>2, SendHeaders
<1>7. /\ q \notin DOMAIN received[o].live /\ q \notin DOMAIN reassembly[o].live
      /\ DOMAIN received[o].live \subseteq Sequence /\ received[o].next \in Sequence
      /\ Distance(received[o].next, q) \in Int /\ 0 <= Distance(received[o].next, q)
  BY <1>1, Typed, BoundsHold, RollingAges DEF WindowInv
<1>8. FlightInv'
  <2> SUFFICES ASSUME NEW a \in Side, NEW k \in DOMAIN flight'[a]
               PROVE  /\ flight'[a][k].parts \subseteq 0..(flight'[a][k].total - 1)
                      /\ flight'[a][k].parts # {} => flight'[a][k].fate = "flying"
    BY DEF FlightInv
  <2>1. CASE a = o
    BY <2>1, <1>1, <1>3 DEF FlightInv
  <2>2. CASE a = e /\ k = 1
    BY <2>2, <1>3
  <2>3. CASE a = e /\ k # 1
    BY <2>3, <1>1, <1>4 DEF FlightInv
  <2>. QED BY <2>1, <2>2, <2>3, Sides
<1>9. PartialInv'
  <2> SUFFICES ASSUME NEW a \in Side, NEW k \in DOMAIN flight'[a], Number(a, k)' \in DOMAIN reassembly[Other(a)].live
               PROVE  /\ reassembly[Other(a)].live[Number(a, k)'].total = flight'[a][k].total
                      /\ reassembly[Other(a)].live[Number(a, k)'].got \intersect flight'[a][k].parts = {}
    BY <1>3 DEF PartialInv
  <2>1. CASE a = o
    BY <2>1, <1>1, <1>3, <1>4 DEF PartialInv
  <2>2. CASE a = e /\ k = 1
    BY <2>2, <1>4, <1>7
  <2>3. CASE a = e /\ k # 1
    BY <2>3, <1>1, <1>4 DEF PartialInv
  <2>. QED BY <2>1, <2>2, <2>3, Sides
<1>10. ReceivedInv'
  <2> SUFFICES ASSUME NEW a \in Side, NEW s \in DOMAIN received[Other(a)].live PROVE Honest(a, s)'
    BY <1>3 DEF ReceivedInv
  <2>1. CASE a = o
    BY <2>1, <1>1, <1>4 DEF ReceivedInv
  <2>2. CASE a = e
    <3>1. s # q /\ s \in Sequence
      BY <2>2, <1>7
    <3>. QED BY <3>1, <2>2, <1>1, <1>4 DEF ReceivedInv
  <2>. QED BY <2>1, <2>2, Sides
<1>11. KeptInv'
  <2> SUFFICES ASSUME NEW a \in Side, NEW k \in DOMAIN flight'[a], flight'[a][k].fate = "processed"
               PROVE  /\ k > Distance(received[Other(a)].next, sequence'[a])
                      /\ k - Distance(received[Other(a)].next, sequence'[a]) <= ReceivedSize
                            => Number(a, k)' \in DOMAIN received[Other(a)].live
    BY <1>3 DEF KeptInv
  <2>1. CASE a = o
    BY <2>1, <1>1, <1>3, <1>4 DEF KeptInv
  <2>2. CASE a = e /\ k = 1
    BY <2>2, <1>3
  <2>3. CASE a = e /\ k # 1
    <3>1. k - 1 \in DOMAIN flight[e] /\ k \in Int /\ flight[e][k - 1].fate = "processed"
          /\ Number(e, k)' = Number(e, k - 1)
      BY <2>3, <1>4
    <3>2. /\ k - 1 > Distance(received[o].next, q)
          /\ (k - 1) - Distance(received[o].next, q) <= ReceivedSize
                => Number(e, k - 1) \in DOMAIN received[o].live
      BY <3>1, <1>1 DEF KeptInv
    <3>3. ReceivedSize \in Nat
      BY BoundsHold DEF Fitting
    <3>. QED BY <3>1, <3>2, <3>3, <2>3, <1>5, <1>7
  <2>. QED BY <2>1, <2>2, <2>3, Sides
<1>12. AcksInv'
  <2> SUFFICES ASSUME NEW a \in Side, NEW s \in acks[a]
               PROVE  /\ s \in DOMAIN sent'[a].live => sent'[a].live[s]
                      /\ \A k \in DOMAIN flight'[a] : Number(a, k)' = s => flight'[a][k].fate = "processed"
    BY <1>3 DEF AcksInv
  <2>1. a # e
    BY DEF SendPacket
  <2>2. a = o
    BY <2>1, Sides
  <2>. QED BY <2>2, <1>1, <1>3, <1>4 DEF AcksInv
<1>. QED BY <1>2, <1>5, <1>6, <1>8, <1>9, <1>10, <1>11, <1>12 DEF Inv
-----------------------------------------------------------------------------
(***************************************************************************)
(* Receiving.  What a part of packet k of the other side does, whatever    *)
(* becomes of the packet.                                                  *)
(***************************************************************************)
\* The part is not on the way any more, and with the last of them the packet is settled.
PartTaken(e, k, i, fate) ==
    LET o == Other(e)
    IN /\ sequence' = sequence /\ sent'[o] = sent[o] /\ acks'[o] = acks[o] /\ flight'[e] = flight[e]
       /\ received'[o] = received[o] /\ reassembly'[o] = reassembly[o]
       /\ DOMAIN flight'[o] = DOMAIN flight[o]
       /\ \A j \in DOMAIN flight[o] : j # k => flight'[o][j] = flight[o][j]
       /\ flight'[o][k].parts = flight[o][k].parts \ {i} /\ flight'[o][k].total = flight[o][k].total
       /\ flight'[o][k].header \subseteq flight[o][k].header
       /\ flight'[o][k].fate = fate
       /\ \/ fate = flight[o][k].fate
          \/ fate \in {"processed", "done"} /\ flight[o][k].parts \subseteq {i}

\* The window moves on, and the number in it is that of a packet that was processed.
WindowMoves(e, s, q, fate) ==
    /\ Rolling(received'[e], q) /\ Rolling(reassembly'[e], q)
    /\ received'[e].next = reassembly'[e].next
    /\ Distance(received'[e].next, q) <= Distance(received[e].next, q)
    /\ \A t \in DOMAIN received'[e].live : t \in DOMAIN received[e].live \/ (t = s /\ fate = "processed")
    /\ \A t \in DOMAIN received[e].live :
          Distance(t, q) - Distance(received'[e].next, q) <= ReceivedSize => t \in DOMAIN received'[e].live
    /\ fate = "processed" => s \in DOMAIN received'[e].live

\* Other packets are put together as before, and this one of its parts and header.
PartsKept(e, k, i) ==
    LET o == Other(e)
        s == Number(o, k)
    IN /\ \A t \in DOMAIN reassembly'[e].live :
             t # s => t \in DOMAIN reassembly[e].live /\ reassembly'[e].live[t] = reassembly[e].live[t]
       /\ s \in DOMAIN reassembly'[e].live =>
             /\ reassembly'[e].live[s].total = flight[o][k].total
             /\ reassembly'[e].live[s].got \intersect (flight[o][k].parts \ {i}) = {}
             /\ reassembly'[e].live[s].header \subseteq HeadersOf(o, k)

\* What a header acknowledges for the first time is kept for the channel.
AcksTaken(e, header) ==
    /\ acks'[e] = acks[e] \union NewAcks(e, header)
    /\ DOMAIN sent'[e].live = DOMAIN sent[e].live
    /\ \A t \in DOMAIN sent[e].live : sent[e].live[t] \/ t \in NewAcks(e, header) => sent'[e].live[t]
AcksLeft(e) == acks'[e] = acks[e] /\ sent'[e] = sent[e]

\* All that receive_packet does with a part, and may do with the packet.
Outcome(e, k, i, fate) ==
    /\ PartTaken(e, k, i, fate)
    /\ WindowMoves(e, Number(Other(e), k), sequence[Other(e)], fate)
    /\ PartsKept(e, k, i)
    /\ AcksLeft(e) \/ \E header \in HeadersOf(Other(e), k) : AcksTaken(e, header)

\* The truth stays true when a packet is settled that nobody has told of.
LEMMA OutcomeHonest ==
    ASSUME Inv, NEW e \in Side, NEW k \in DOMAIN flight[Other(e)], NEW i \in flight[Other(e)][k].parts,
           NEW fate, Outcome(e, k, i, fate)
    PROVE  /\ \A a \in Side : \A j : Number(a, j)' = Number(a, j)
           /\ flight[Other(e)][k].fate = "flying" /\ ~Settled(Other(e), k)
           /\ DOMAIN sent'[e].live = DOMAIN sent[e].live
           /\ \A t \in DOMAIN sent[e].live : sent[e].live[t] => sent'[e].live[t]
           /\ \A a \in Side : \A s : Honest(a, s) => Honest(a, s)'
<1> DEFINE o == Other(e)
<1>1. o \in Side /\ o # e /\ TypeInv /\ FlightInv
  BY Sides DEF Inv
<1>2. \A a \in Side : \A j : Number(a, j)' = Number(a, j)
  BY DEF Outcome, PartTaken, Number
<1>3. flight[o][k].fate = "flying"
  BY <1>1 DEF FlightInv
<1>4. ~Settled(o, k)
  BY <1>3 DEF Settled
<1>5. DOMAIN sent'[e].live = DOMAIN sent[e].live /\ \A t \in DOMAIN sent[e].live : sent[e].live[t] => sent'[e].live[t]
  <2>1. CASE AcksLeft(e)
    BY <2>1 DEF AcksLeft
  <2>2. CASE \E header \in HeadersOf(o, k) : AcksTaken(e, header)
    BY <2>2 DEF AcksTaken
  <2>. QED BY <2>1, <2>2 DEF Outcome
<1>6. ASSUME NEW s, Honest(e, s) PROVE Honest(e, s)'
  <2>1. flight'[e] = flight[e]
    BY DEF Outcome, PartTaken
  <2>2. \A j \in DOMAIN flight[e] : Settled(e, j) => Settled(e, j)'
    BY <1>1, <1>2, <1>5, <2>1 DEF Settled
  <2>. QED BY <1>1, <1>2, <1>6, <2>1, <2>2 DEF Honest
<1>7. ASSUME NEW s, Honest(o, s) PROVE Honest(o, s)'
  <2>1. /\ DOMAIN flight'[o] = DOMAIN flight[o] /\ sent'[o] = sent[o]
        /\ \A j \in DOMAIN flight[o] : j # k => flight'[o][j] = flight[o][j]
    BY DEF Outcome, PartTaken
  <2>2. \A j \in DOMAIN flight[o] : j # k /\ Settled(o, j) => Settled(o, j)'
    BY <1>1, <1>2, <2>1 DEF Settled
  <2>3. Number(o, k) # s
    BY <1>4, <1>7 DEF Honest
  <2>. QED BY <1>1, <1>2, <1>7, <2>1, <2>2, <2>3 DEF Honest
<1>. QED BY <1>2, <1>3, <1>4, <1>5, <1>6, <1>7, Sides

LEMMA OutcomeKeeps ==
    ASSUME Inv, TypeInv', NEW e \in Side, NEW k \in DOMAIN flight[Other(e)],
           NEW i \in flight[Other(e)][k].parts, NEW fate, Outcome(e, k, i, fate)
    PROVE  Inv'
<1> DEFINE o == Other(e)
           s == Number(o, k)
           q == sequence[o]
<1>1. /\ o \in Side /\ o # e /\ Other(o) = e /\ q \in Sequence
      /\ TypeInv /\ WindowInv /\ LeadInv /\ FlightInv /\ PartialInv
      /\ ReceivedInv /\ KeptInv /\ HeaderInv /\ AcksInv
  BY Sides, Typed DEF Inv
<1>2. PartTaken(e, k, i, fate) /\ WindowMoves(e, s, q, fate) /\ PartsKept(e, k, i)
  BY DEF Outcome
<1>3. /\ \A a \in Side : \A j : Number(a, j)' = Number(a, j)
      /\ flight[o][k].fate = "flying" /\ ~Settled(o, k)
      /\ DOMAIN sent'[e].live = DOMAIN sent[e].live
      /\ \A t \in DOMAIN sent[e].live : sent[e].live[t] => sent'[e].live[t]
      /\ \A a \in Side : \A t : Honest(a, t) => Honest(a, t)'
  BY OutcomeHonest
<1>4. /\ k \in Int /\ s \in Sequence /\ Distance(s, q) = k
      /\ \A j \in DOMAIN flight[o] : Number(o, j) = s => j = k
      /\ \A j \in DOMAIN flight[o] : j \in Int /\ Distance(Number(o, j), q) = j
  BY <1>1, Numbers
<1>5. /\ sequence' = sequence /\ sent'[o] = sent[o] /\ acks'[o] = acks[o] /\ flight'[e] = flight[e]
      /\ received'[o] = received[o] /\ reassembly'[o] = reassembly[o]
      /\ DOMAIN flight'[o] = DOMAIN flight[o]
      /\ \A j \in DOMAIN flight[o] : j # k => flight'[o][j] = flight[o][j]
      /\ flight'[o][k].parts = flight[o][k].parts \ {i} /\ flight'[o][k].total = flight[o][k].total
      /\ flight'[o][k].header \subseteq flight[o][k].header
      /\ flight'[o][k].fate = fate
      /\ \/ fate = "flying"
         \/ fate \in {"processed", "done"} /\ flight[o][k].parts \subseteq {i}
  BY <1>2, <1>3 DEF PartTaken
<1>6. WindowInv'
  <2> SUFFICES ASSUME NEW a \in Side
               PROVE  /\ Rolling(received'[Other(a)], sequence[a])
                      /\ Rolling(reassembly'[Other(a)], sequence[a])
                      /\ received'[Other(a)].next = reassembly'[Other(a)].next
    BY <1>5 DEF WindowInv
  <2>1. CASE a = o
    BY <2>1, <1>1, <1>2 DEF WindowMoves
  <2>2. CASE a = e
    BY <2>2, <1>1, <1>5 DEF WindowInv
  <2>. QED BY <2>1, <2>2, Sides
<1>7. LeadInv'
  BY <1>1, <1>5 DEF LeadInv, Lead
<1>8. FlightInv'
  <2> SUFFICES ASSUME NEW a \in Side, NEW j \in DOMAIN flight'[a]
               PROVE  /\ flight'[a][j].parts \subseteq 0..(flight'[a][j].total - 1)
                      /\ flight'[a][j].parts # {} => flight'[a][j].fate = "flying"
    BY DEF FlightInv
  <2>1. CASE a = e \/ (a = o /\ j # k)
    BY <2>1, <1>1, <1>5 DEF FlightInv
  <2>2. CASE a = o /\ j = k
    <3>1. flight[o][k].parts \subseteq 0..(flight[o][k].total - 1)
      BY <1>1 DEF FlightInv
    <3>. QED BY <3>1, <2>2, <1>5
  <2>. QED BY <2>1, <2>2, Sides
<1>9. PartialInv'
  <2> SUFFICES ASSUME NEW a \in Side, NEW j \in DOMAIN flight'[a], Number(a, j) \in DOMAIN reassembly'[Other(a)].live
               PROVE  /\ reassembly'[Other(a)].live[Number(a, j)].total = flight'[a][j].total
                      /\ reassembly'[Other(a)].live[Number(a, j)].got \intersect flight'[a][j].parts = {}
    BY <1>3 DEF PartialInv
  <2>1. CASE a = e
    BY <2>1, <1>1, <1>5 DEF PartialInv
  <2>2. CASE a = o /\ j # k
    <3>1. Number(o, j) # s /\ j \in DOMAIN flight[o] /\ flight'[o][j] = flight[o][j]
      BY <2>2, <1>4, <1>5
    <3>2. Number(o, j) \in DOMAIN reassembly[e].live
          /\ reassembly'[e].live[Number(o, j)] = reassembly[e].live[Number(o, j)]
      BY <3>1, <2>2, <1>1, <1>2 DEF PartsKept
    <3>. QED BY <3>1, <3>2, <2>2, <1>1 DEF PartialInv
  <2>3. CASE a = o /\ j = k
    BY <2>3, <1>1, <1>2, <1>5 DEF PartsKept
  <2>. QED BY <2>1, <2>2, <2>3, Sides
<1>10. ReceivedInv'
  <2> SUFFICES ASSUME NEW a \in Side, NEW t \in DOMAIN received'[Other(a)].live PROVE Honest(a, t)'
    BY DEF ReceivedInv
  <2>1. CASE a = e
    BY <2>1, <1>1, <1>3, <1>5 DEF ReceivedInv
  <2>2. CASE a = o /\ t \in DOMAIN received[e].live
    BY <2>2, <1>1, <1>3 DEF ReceivedInv
  <2>3. CASE a = o /\ t \notin DOMAIN received[e].live
    <3>1. t = s /\ fate = "processed"
      BY <2>3, <1>1, <1>2 DEF WindowMoves
    <3>2. \A j \in DOMAIN flight'[o] : Number(o, j)' = t => j = k
      BY <3>1, <1>1, <1>3, <1>4, <1>5
    <3>3. Settled(o, k)'
      BY <3>1, <1>5 DEF Settled
    <3>. QED BY <3>2, <3>3, <2>3 DEF Honest
  <2>. QED BY <2>1, <2>2, <2>3, Sides
<1>11. KeptInv'
  <2> SUFFICES ASSUME NEW a \in Side, NEW j \in DOMAIN flight'[a], flight'[a][j].fate = "processed"
               PROVE  /\ j > Distance(received'[Other(a)].next, sequence[a])
                      /\ j - Distance(received'[Other(a)].next, sequence[a]) <= ReceivedSize
                            => Number(a, j) \in DOMAIN received'[Other(a)].live
    BY <1>3, <1>5 DEF KeptInv
  <2>1. CASE a = e
    BY <2>1, <1>1, <1>5 DEF KeptInv
  <2>2. /\ Distance(received[e].next, q) \in Int /\ Distance(received'[e].next, q) \in Int
        /\ Distance(received'[e].next, q) <= Distance(received[e].next, q)
    <3>1. received[e].next \in Sequence
      BY <1>1, Typed
    <3>2. received'[e] \in Buffers(ReceivedSize, {TRUE})
      BY DEF TypeInv
    <3>3. received'[e].next \in Sequence
      BY <3>2, BufferIs
    <3>. QED BY <3>1, <3>3, <1>1, <1>2, AgeIs DEF WindowMoves
  <2>3. CASE a = o /\ j # k
    <3>1. j \in DOMAIN flight[o] /\ flight[o][j].fate = "processed" /\ j \in Int /\ Distance(Number(o, j), q) = j
      BY <2>3, <1>4, <1>5
    <3>2. /\ j > Distance(received[e].next, q)
          /\ j - Distance(received[e].next, q) <= ReceivedSize => Number(o, j) \in DOMAIN received[e].live
      BY <3>1, <1>1 DEF KeptInv
    <3>3. j > Distance(received'[e].next, q)
      BY <3>1, <3>2, <2>2
    <3>4. ASSUME j - Distance(received'[e].next, q) <= ReceivedSize
          PROVE  Number(o, j) \in DOMAIN received'[e].live
      <4>1. ReceivedSize \in Nat
        BY BoundsHold DEF Fitting
      <4>2. Number(o, j) \in DOMAIN received[e].live
        BY <3>1, <3>2, <3>4, <4>1, <2>2
      <4>. QED BY <3>1, <3>4, <4>2, <1>2 DEF WindowMoves
    <3>. QED BY <3>3, <3>4, <2>3, <1>1
  <2>4. CASE a = o /\ j = k
    <3>1. fate = "processed"
      BY <2>4, <1>5
    <3>2. s \in DOMAIN received'[e].live /\ Rolling(received'[e], q)
      BY <3>1, <1>2 DEF WindowMoves
    <3>3. received'[e] \in Buffers(ReceivedSize, {TRUE})
      BY DEF TypeInv
    <3>4. received'[e].size = ReceivedSize /\ ReceivedSize \in Nat
      BY <3>3, BufferIs, BoundsHold DEF Fitting
    <3>5. k - Distance(received'[e].next, q) \in 1..ReceivedSize
      BY <3>2, <3>4, <1>4 DEF Rolling
    <3>6. k > Distance(received'[e].next, q)
      BY <3>4, <3>5, <2>2, <1>4
    <3>. QED BY <3>2, <3>6, <2>4, <1>1
  <2>. QED BY <2>1, <2>3, <2>4, Sides
<1>12. HeaderInv'
  <2> SUFFICES ASSUME NEW a \in Side, NEW j \in DOMAIN flight'[Other(a)], NEW h \in HeadersOf(Other(a), j)',
                      NEW t \in h.acked
               PROVE  Honest(a, t)' /\ Recent(a, t, j)'
    BY DEF HeaderInv
  <2>1. j \in DOMAIN flight[Other(a)]
    BY <1>5, Sides
  <2>2. h \in HeadersOf(Other(a), j)
    <3>1. CASE a = o
      <4>1. HeadersOf(e, j)' = HeadersOf(e, j)
        BY <1>3, <1>5 DEF HeadersOf
      <4>. QED BY <4>1, <3>1, <1>1
    <3>2. CASE a = e /\ j = k
      <4>1. h \in flight'[o][k].header \/ (s \in DOMAIN reassembly'[e].live /\ h \in reassembly'[e].live[s].header)
        BY <3>2, <1>1, <1>3 DEF HeadersOf
      <4>2. flight[o][k].header \subseteq HeadersOf(o, k)
        BY DEF HeadersOf
      <4>. QED BY <4>1, <4>2, <3>2, <1>2, <1>5 DEF PartsKept
    <3>3. CASE a = e /\ j # k
      <4>1. Number(o, j) # s /\ flight'[o][j] = flight[o][j]
        BY <3>3, <2>1, <1>4, <1>5
      <4>2. Number(o, j) \in DOMAIN reassembly'[e].live =>
               /\ Number(o, j) \in DOMAIN reassembly[e].live
               /\ reassembly'[e].live[Number(o, j)] = reassembly[e].live[Number(o, j)]
        BY <4>1, <1>2 DEF PartsKept
      <4>3. h \in flight[o][j].header \/ (Number(o, j) \in DOMAIN reassembly'[e].live
                                          /\ h \in reassembly'[e].live[Number(o, j)].header)
        BY <4>1, <3>3, <1>1, <1>3 DEF HeadersOf
      <4>4. HeadersOf(o, j) = flight[o][j].header \union
               (IF Number(o, j) \in DOMAIN reassembly[e].live
                THEN reassembly[e].live[Number(o, j)].header ELSE {})
        BY <1>1 DEF HeadersOf
      <4>. QED BY <4>2, <4>3, <4>4, <3>3
    <3>. QED BY <3>1, <3>2, <3>3, Sides
  <2>3. Honest(a, t) /\ Recent(a, t, j)
    BY <2>1, <2>2, <1>1 DEF HeaderInv
  <2>. QED BY <2>3, <1>3, <1>5 DEF Recent, Lead
<1>13. AcksInv'
  <2> SUFFICES ASSUME NEW a \in Side, NEW t \in acks'[a]
               PROVE  /\ t \in DOMAIN sent'[a].live => sent'[a].live[t]
                      /\ \A j \in DOMAIN flight'[a] : Number(a, j) = t => flight'[a][j].fate = "processed"
    BY <1>3 DEF AcksInv
  <2>1. CASE a = o
    <3>1. t \in acks[o]
      BY <2>1, <1>5
    <3>2. \A j \in DOMAIN flight[o] : Number(o, j) = t => flight[o][j].fate = "processed" /\ j # k
      BY <3>1, <1>1, <1>3 DEF AcksInv
    <3>. QED BY <3>1, <3>2, <2>1, <1>1, <1>5 DEF AcksInv
  <2>2. CASE a = e /\ t \in acks[e]
    BY <2>2, <1>1, <1>3, <1>5 DEF AcksInv
  <2>3. CASE a = e /\ t \notin acks[e]
    <3>1. PICK header \in HeadersOf(o, k) : AcksTaken(e, header)
      BY <2>3 DEF Outcome, AcksLeft
    <3>2. t \in NewAcks(e, header)
      BY <3>1, <2>3 DEF AcksTaken
    <3>3. t \in header.acked /\ t \in DOMAIN sent[e].live /\ ~sent[e].live[t]
      BY <3>2 DEF NewAcks, Exists
    <3>4. Honest(e, t)
      BY <3>1, <3>3, <1>1 DEF HeaderInv
    <3>5. \A j \in DOMAIN flight[e] : Number(e, j) = t => flight[e][j].fate = "processed"
      BY <3>3, <3>4 DEF Honest, Settled
    <3>6. sent'[e].live[t]
      BY <3>1, <3>2, <3>3 DEF AcksTaken
    <3>. QED BY <3>5, <3>6, <2>3, <1>5
  <2>. QED BY <2>1, <2>2, <2>3, Sides
<1>. QED BY <1>6, <1>7, <1>8, <1>9, <1>10, <1>11, <1>12, <1>13 DEF Inv

LEMMA NewPacket ==
    ASSUME NEW p \in Packet, NEW a, NEW b, NEW c
    PROVE  [p EXCEPT !.parts = a, !.fate = b, !.header = c]
              = [parts |-> a, total |-> p.total, header |-> c, fate |-> b]
<1> DEFINE p1 == [p EXCEPT !.parts = a]
           p2 == [p1 EXCEPT !.fate = b]
           p3 == [p2 EXCEPT !.header = c]
<1>1. [p EXCEPT !.parts = a, !.fate = b, !.header = c] = p3
  OBVIOUS
<1>2. p = [parts |-> p.parts, total |-> p.total, header |-> p.header, fate |-> p.fate]
  BY DEF Packet
<1>3. p1 = [parts |-> a, total |-> p.total, header |-> p.header, fate |-> p.fate]
  BY <1>2
<1> HIDE DEF p1
<1>4. p2 = [parts |-> a, total |-> p.total, header |-> p.header, fate |-> b]
  BY <1>3
<1> HIDE DEF p2
<1>5. p3 = [parts |-> a, total |-> p.total, header |-> c, fate |-> b]
  BY <1>4
<1> HIDE DEF p3
<1>. QED BY <1>1, <1>5

LEMMA ArrivesIs ==
    ASSUME TypeInv, NEW e \in Side, NEW k \in DOMAIN flight[Other(e)], NEW i,
           NEW fate \in {"flying", "processed", "done"}, Arrives(e, k, i, fate)
    PROVE  /\ flight' \in [Side -> Seq(Packet)] /\ \A a \in Side : Len(flight'[a]) <= Lifetime[a]
           /\ flight'[e] = flight[e] /\ DOMAIN flight'[Other(e)] = DOMAIN flight[Other(e)]
           /\ \A j \in DOMAIN flight[Other(e)] : j # k => flight'[Other(e)][j] = flight[Other(e)][j]
           /\ flight'[Other(e)][k].parts = flight[Other(e)][k].parts \ {i}
           /\ flight'[Other(e)][k].total = flight[Other(e)][k].total
           /\ flight'[Other(e)][k].header \subseteq flight[Other(e)][k].header
           /\ flight'[Other(e)][k].fate = fate
<1> DEFINE o == Other(e)
           p == flight[o][k]
           head == IF i = 0 THEN {} ELSE p.header
           new == [parts |-> p.parts \ {i}, total |-> p.total, header |-> head, fate |-> fate]
           f == [flight[o] EXCEPT ![k] = new]
<1>1. o \in Side /\ o # e /\ p \in Packet
  BY Sides, Numbers
<1>2. flight[o] \in Seq(Packet) /\ Len(flight[o]) \in Nat /\ DOMAIN flight[o] = 1..Len(flight[o])
      /\ Len(flight[o]) <= Lifetime[o]
  BY <1>1, Typed
<1>3. flight' = [flight EXCEPT ![o] =
         [flight[o] EXCEPT ![k] = [p EXCEPT !.parts = p.parts \ {i}, !.fate = fate, !.header = head]]]
  BY <1>1 DEF Arrives, TypeInv
<1>4. [p EXCEPT !.parts = p.parts \ {i}, !.fate = fate, !.header = head] = new
  BY <1>1, NewPacket
<1>5. flight' = [flight EXCEPT ![o] = f]
  BY <1>3, <1>4
<1>6. head \subseteq p.header
  OBVIOUS
<1> HIDE DEF head
<1>7. new \in Packet
  BY <1>1, <1>6 DEF Packet
<1>8. /\ new.parts = p.parts \ {i} /\ new.total = p.total /\ new.header = head /\ new.fate = fate
  OBVIOUS
<1> HIDE DEF new
<1>9. f \in Seq(Packet) /\ Len(f) = Len(flight[o]) /\ DOMAIN f = DOMAIN flight[o] /\ f[k] = new
      /\ \A j \in DOMAIN flight[o] : j # k => f[j] = flight[o][j]
  BY <1>2, <1>7
<1> HIDE DEF f
<1>10. flight'[o] = f /\ flight'[e] = flight[e] /\ flight' \in [Side -> Seq(Packet)]
  BY <1>1, <1>5, <1>9 DEF TypeInv
<1>11. \A a \in Side : Len(flight'[a]) <= Lifetime[a]
  BY <1>2, <1>9, <1>10, Sides DEF TypeInv
<1>. QED BY <1>6, <1>8, <1>9, <1>10, <1>11

LEMMA NewAcksTyped == ASSUME TypeInv, NEW e \in Side, NEW header
                      PROVE  NewAcks(e, header) \subseteq DOMAIN sent[e].live /\ NewAcks(e, header) \in SUBSET Sequence
<1>1. NewAcks(e, header) \subseteq DOMAIN sent[e].live
  BY DEF NewAcks, Exists
<1>. QED BY <1>1, Typed

LEMMA FlagsTyped ==
    ASSUME TypeInv, NEW e \in Side, NEW new,
           sent' = [sent EXCEPT ![e].live = [t \in DOMAIN @ |-> @[t] \/ t \in new]]
    PROVE  /\ sent' \in [Side -> Buffers(SentSize, BOOLEAN)] /\ sent'[Other(e)] = sent[Other(e)]
           /\ DOMAIN sent'[e].live = DOMAIN sent[e].live
           /\ \A t \in DOMAIN sent[e].live : sent[e].live[t] \/ t \in new => sent'[e].live[t]
<1> DEFINE b == sent[e]
           f == [t \in DOMAIN b.live |-> b.live[t] \/ t \in new]
           c == [size |-> b.size, next |-> b.next, live |-> f]
<1>1. b \in Buffers(SentSize, BOOLEAN)
  BY Typed
<1>2. /\ b.size = SentSize /\ b.next \in Sequence /\ DOMAIN b.live \subseteq Sequence
      /\ b = [size |-> b.size, next |-> b.next, live |-> b.live]
      /\ WellFormed(b)
  BY <1>1, BufferIs
<1>3. sent' = [sent EXCEPT ![e] = [b EXCEPT !.live = f]]
  BY DEF TypeInv
<1>4. f \in [DOMAIN b.live -> BOOLEAN] /\ DOMAIN f = DOMAIN b.live
  OBVIOUS
<1>5. \A t \in DOMAIN b.live : b.live[t] \/ t \in new => f[t]
  OBVIOUS
<1> HIDE DEF f
<1>6. [b EXCEPT !.live = f] = c
  BY <1>2
<1>7. \A s, t \in DOMAIN b.live : s % SentSize = t % SentSize => s = t
  BY <1>2 DEF WellFormed, Slot
<1>8. c \in Buffers(SentSize, BOOLEAN)
  BY <1>2, <1>4, <1>7, IsBuffer
<1>9. c.live = f
  OBVIOUS
<1> HIDE DEF b, c
<1>10. sent'[e] = c /\ sent' \in [Side -> Buffers(SentSize, BOOLEAN)] /\ sent'[Other(e)] = sent[Other(e)]
  BY <1>3, <1>6, <1>8, Sides DEF TypeInv
<1>. QED BY <1>4, <1>5, <1>9, <1>10 DEF b

\* What receive_packet works on when all of a packet is there.
Ready(e, q, r, a) ==
    /\ r \in Buffers(ReceivedSize, {TRUE}) /\ a \in Buffers(ReassemblySize, Entry)
    /\ Rolling(r, q) /\ Rolling(a, q) /\ r.next = a.next
    /\ Distance(r.next, q) <= Distance(received[e].next, q)
    /\ DOMAIN r.live \subseteq DOMAIN received[e].live
    /\ \A t \in DOMAIN received[e].live : Distance(t, q) - Distance(r.next, q) <= ReceivedSize => t \in DOMAIN r.live
SomeLeft(e, a) ==
    \A t \in DOMAIN a.live : t \in DOMAIN reassembly[e].live /\ a.live[t] = reassembly[e].live[t]

LEMMA LeftKept ==
    ASSUME Inv, NEW e \in Side, NEW k \in DOMAIN flight[Other(e)], NEW i, SomeLeft(e, reassembly'[e])
    PROVE  PartsKept(e, k, i)
<1> DEFINE o == Other(e)
           s == Number(o, k)
<1>1. o \in Side /\ Other(o) = e /\ PartialInv
  BY Sides DEF Inv
<1>2. ASSUME s \in DOMAIN reassembly'[e].live
      PROVE  /\ reassembly'[e].live[s].total = flight[o][k].total
             /\ reassembly'[e].live[s].got \intersect (flight[o][k].parts \ {i}) = {}
             /\ reassembly'[e].live[s].header \subseteq HeadersOf(o, k)
  <2>1. s \in DOMAIN reassembly[e].live /\ reassembly'[e].live[s] = reassembly[e].live[s]
    BY <1>2 DEF SomeLeft
  <2>2. reassembly[e].live[s].header \subseteq HeadersOf(o, k)
    BY <2>1, <1>1 DEF HeadersOf
  <2>3. /\ reassembly[e].live[s].total = flight[o][k].total
        /\ reassembly[e].live[s].got \intersect flight[o][k].parts = {}
    BY <2>1, <1>1 DEF PartialInv
  <2>. QED BY <2>1, <2>2, <2>3
<1>. QED BY <1>2 DEF PartsKept, SomeLeft

LEMMA WholeOutcome ==
    ASSUME Inv, NEW e \in Side, NEW k \in DOMAIN flight[Other(e)], NEW i \in flight[Other(e)][k].parts,
           NEW header \in HeadersOf(Other(e), k), flight[Other(e)][k].parts \subseteq {i},
           NEW r, NEW a, Ready(e, sequence[Other(e)], r, a), SomeLeft(e, a),
           ReceiveWhole(e, k, i, header, r, a), sequence' = sequence
    PROVE  TypeInv' /\ \E fate : Outcome(e, k, i, fate)
<1> DEFINE o == Other(e)
           s == Number(o, k)
           q == sequence[o]
           r1 == Put(r, s, TRUE, Wrap)
           a1 == Advance(a, s, Wrap)
           new == NewAcks(e, header)
<1>1. /\ o \in Side /\ o # e /\ Other(o) = e /\ q \in Sequence /\ TypeInv
      /\ s \in Sequence /\ Distance(s, q) = k /\ k \in 1..Half /\ flight[o][k] \in Packet
      /\ flight[o][k].fate \in {"flying", "processed", "done"}
  <2>1. o \in Side /\ o # e /\ Other(o) = e /\ q \in Sequence /\ TypeInv
    BY Sides, Typed DEF Inv
  <2>2. s \in Sequence /\ Distance(s, q) = k /\ k \in 1..Half /\ flight[o][k] \in Packet
    BY <2>1, Numbers
  <2>. QED BY <2>1, <2>2 DEF Packet
<1>2. /\ r \in Buffers(ReceivedSize, {TRUE}) /\ a \in Buffers(ReassemblySize, Entry)
      /\ Rolling(r, q) /\ Rolling(a, q) /\ r.next = a.next
      /\ Distance(r.next, q) <= Distance(received[e].next, q)
      /\ DOMAIN r.live \subseteq DOMAIN received[e].live
      /\ \A t \in DOMAIN received[e].live :
            Distance(t, q) - Distance(r.next, q) <= ReceivedSize => t \in DOMAIN r.live
  BY DEF Ready
<1>3. ASSUME received' = [received EXCEPT ![e] = r], reassembly' = [reassembly EXCEPT ![e] = a],
             sent' = sent, acks' = acks, NEW fate \in {"flying", "processed", "done"},
             fate = flight[o][k].fate \/ fate = "done", Arrives(e, k, i, fate)
      PROVE  TypeInv' /\ \E f : Outcome(e, k, i, f)
  <2>1. /\ received'[e] = r /\ reassembly'[e] = a /\ received'[o] = received[o] /\ reassembly'[o] = reassembly[o]
        /\ received' \in [Side -> Buffers(ReceivedSize, {TRUE})]
        /\ reassembly' \in [Side -> Buffers(ReassemblySize, Entry)]
    BY <1>1, <1>2, <1>3 DEF TypeInv
  <2>2. /\ flight' \in [Side -> Seq(Packet)] /\ \A b \in Side : Len(flight'[b]) <= Lifetime[b]
        /\ flight'[e] = flight[e] /\ DOMAIN flight'[o] = DOMAIN flight[o]
        /\ \A j \in DOMAIN flight[o] : j # k => flight'[o][j] = flight[o][j]
        /\ flight'[o][k].parts = flight[o][k].parts \ {i} /\ flight'[o][k].total = flight[o][k].total
        /\ flight'[o][k].header \subseteq flight[o][k].header /\ flight'[o][k].fate = fate
    BY <1>1, <1>3, ArrivesIs
  <2>3. TypeInv'
    BY <2>1, <2>2, <1>1, <1>3 DEF TypeInv
  <2>4. PartTaken(e, k, i, fate)
    BY <2>1, <2>2, <1>3 DEF PartTaken
  <2>5. PartsKept(e, k, i)
    BY <2>1, LeftKept
  <2>6. fate # "processed"
    <3>1. FlightInv
      BY DEF Inv
    <3>2. flight[o][k].fate = "flying"
      BY <3>1, <1>1 DEF FlightInv
    <3>. QED BY <3>2, <1>3
  <2>7. WindowMoves(e, s, q, fate)
    BY <2>1, <2>6, <1>2 DEF WindowMoves
  <2>8. AcksLeft(e)
    BY <1>3 DEF AcksLeft
  <2>. QED BY <2>3, <2>4, <2>5, <2>7, <2>8 DEF Outcome
<1>4. ASSUME ~TooOld(r, s), received' = [received EXCEPT ![e] = r1], reassembly' = [reassembly EXCEPT ![e] = a1],
             acks' = [acks EXCEPT ![e] = @ \union new],
             sent' = [sent EXCEPT ![e].live = [t \in DOMAIN @ |-> @[t] \/ t \in new]],
             Arrives(e, k, i, "processed")
      PROVE  TypeInv' /\ \E f : Outcome(e, k, i, f)
  <2>1. Distance(s, q) - Distance(r.next, q) <= ReceivedSize
    BY <1>1, <1>2, <1>4, BoundsHold, NotTooOld DEF Rolling
  <2>2. /\ Advance(r, s, Wrap).next = a1.next
        /\ Distance(Advance(r, s, Wrap).next, q) =
              IF Distance(s, q) - 1 < Distance(r.next, q) THEN Distance(s, q) - 1 ELSE Distance(r.next, q)
    BY <1>1, <1>2, BoundsHold, AdvanceIs, AdvanceAged
  <2>3. /\ a1 \in Buffers(ReassemblySize, Entry) /\ Rolling(a1, q)
        /\ DOMAIN a1.live \subseteq DOMAIN a.live
        /\ \A t \in DOMAIN a1.live : a1.live[t] = a.live[t]
    BY <1>1, <1>2, BoundsHold, AdvanceIs, AdvanceAged
  <2>4. TRUE \in {TRUE}
    OBVIOUS
  <2>5. /\ r1 \in Buffers(ReceivedSize, {TRUE})
        /\ r1.next = Advance(r, s, Wrap).next
        /\ \A t \in Sequence : t \in DOMAIN r1.live <=>
              \/ t = s
              \/ t \in DOMAIN r.live /\ Distance(t, q) - Distance(r1.next, q) <= ReceivedSize
        /\ Rolling(r1, q)
    <3> DEFINE d == TRUE
               V == {TRUE}
               c == Put(r, s, d, Wrap)
    <3>1. d \in V /\ r1 = c /\ r \in Buffers(ReceivedSize, V)
      BY <1>2
    <3> HIDE DEF d, V, q, s, r1
    <3>2. GreaterThan(Later(s, 1), r.next) \/ Distance(s, q) - Distance(r.next, q) <= ReceivedSize
      BY <2>1
    <3>3. Distance(s, q) \in 1..Half /\ Fitting(ReceivedSize)
      BY <1>1, BoundsHold
    <3>4. /\ c \in Buffers(ReceivedSize, V)
          /\ c.next = Advance(r, s, Wrap).next
          /\ \A t \in Sequence : t \in DOMAIN c.live <=>
                \/ t = s
                \/ t \in DOMAIN r.live /\ Distance(t, q) - Distance(c.next, q) <= ReceivedSize
          /\ Rolling(c, q)
      BY <1>1, <1>2, <3>1, <3>2, <3>3, PutAged
    <3> HIDE DEF c
    <3>. QED BY <3>1, <3>4 DEF V
  <2> HIDE DEF r1, a1
  <2>6. /\ received'[e] = r1 /\ reassembly'[e] = a1 /\ received'[o] = received[o] /\ reassembly'[o] = reassembly[o]
        /\ received' \in [Side -> Buffers(ReceivedSize, {TRUE})]
        /\ reassembly' \in [Side -> Buffers(ReassemblySize, Entry)]
    BY <1>1, <1>4, <2>3, <2>5 DEF TypeInv
  <2>7. /\ flight' \in [Side -> Seq(Packet)] /\ \A b \in Side : Len(flight'[b]) <= Lifetime[b]
        /\ flight'[e] = flight[e] /\ DOMAIN flight'[o] = DOMAIN flight[o]
        /\ \A j \in DOMAIN flight[o] : j # k => flight'[o][j] = flight[o][j]
        /\ flight'[o][k].parts = flight[o][k].parts \ {i} /\ flight'[o][k].total = flight[o][k].total
        /\ flight'[o][k].header \subseteq flight[o][k].header /\ flight'[o][k].fate = "processed"
    BY <1>1, <1>4, ArrivesIs
  <2>8. /\ sent' \in [Side -> Buffers(SentSize, BOOLEAN)] /\ sent'[o] = sent[o]
        /\ DOMAIN sent'[e].live = DOMAIN sent[e].live
        /\ \A t \in DOMAIN sent[e].live : sent[e].live[t] \/ t \in new => sent'[e].live[t]
    <3> HIDE DEF new
    <3>. QED BY <1>1, <1>4, FlagsTyped
  <2>9. new \in SUBSET Sequence
    BY <1>1, NewAcksTyped
  <2>10. acks' \in [Side -> SUBSET Sequence] /\ acks'[e] = acks[e] \union new /\ acks'[o] = acks[o]
    <3> HIDE DEF new
    <3>. QED BY <1>1, <1>4, <2>9 DEF TypeInv
  <2>11. TypeInv'
    BY <2>6, <2>7, <2>8, <2>10, <1>1 DEF TypeInv
  <2>12. PartTaken(e, k, i, "processed")
    BY <2>6, <2>7, <2>8, <2>10 DEF PartTaken
  <2>13. SomeLeft(e, reassembly'[e])
    BY <2>3, <2>6 DEF SomeLeft
  <2>14. PartsKept(e, k, i)
    BY <2>13, LeftKept
  <2>15. Distance(r1.next, q) <= Distance(r.next, q) /\ Distance(r1.next, q) <= Distance(received[e].next, q)
    <3>1. r.next \in Sequence /\ received[e].next \in Sequence
      BY <1>1, <1>2, BufferIs, Typed
    <3>2. Distance(r.next, q) \in Int /\ Distance(received[e].next, q) \in Int /\ Distance(s, q) \in Int
      BY <3>1, <1>1, AgeIs
    <3>. QED BY <3>2, <2>2, <2>5, <1>2
  <2>16. WindowMoves(e, s, q, "processed")
    <3>1. DOMAIN r1.live \subseteq Sequence /\ DOMAIN received[e].live \subseteq Sequence
          /\ r1.next \in Sequence /\ r.next \in Sequence /\ ReceivedSize \in Nat
      BY <1>1, <1>2, <2>5, BufferIs, Typed, BoundsHold DEF Fitting
    <3>2. \A t \in DOMAIN r1.live : t \in DOMAIN received[e].live \/ t = s
      BY <3>1, <2>5, <1>2
    <3>3. ASSUME NEW t \in DOMAIN received[e].live, Distance(t, q) - Distance(r1.next, q) <= ReceivedSize
          PROVE  t \in DOMAIN r1.live
      <4>1. Distance(t, q) \in Int /\ Distance(r1.next, q) \in Int /\ Distance(r.next, q) \in Int
        BY <3>1, <1>1, AgeIs
      <4>2. Distance(t, q) - Distance(r.next, q) <= ReceivedSize
        BY <4>1, <3>1, <3>3, <2>15
      <4>. QED BY <4>2, <3>1, <3>3, <2>5, <1>2
    <3>4. s \in DOMAIN r1.live
      BY <2>5, <1>1
    <3>5. r1.next = a1.next
      BY <2>2, <2>5
    <3>. QED BY <3>2, <3>3, <3>4, <3>5, <2>3, <2>5, <2>6, <2>15 DEF WindowMoves
  <2>17. AcksTaken(e, header)
    BY <2>8, <2>10 DEF AcksTaken
  <2>. QED BY <2>11, <2>12, <2>14, <2>16, <2>17 DEF Outcome
<1>5. CASE TooOld(r, s)
  BY <1>1, <1>3, <1>5 DEF ReceiveWhole
<1>6. CASE ~TooOld(r, s)
  BY <1>3, <1>4, <1>6 DEF ReceiveWhole
<1>. QED BY <1>5, <1>6

\* The buffers in which a fragment is looked up, as ready as those of a whole packet.
Found(e, k, buffer, r) ==
    LET o == Other(e)
        s == Number(o, k)
    IN /\ Ready(e, sequence[o], r, buffer)
       /\ s \in DOMAIN buffer.live
       /\ \A t \in DOMAIN buffer.live :
             t # s => t \in DOMAIN reassembly[e].live /\ buffer.live[t] = reassembly[e].live[t]
       /\ buffer.live[s].total = flight[o][k].total
       /\ buffer.live[s].got \intersect flight[o][k].parts = {}
       /\ buffer.live[s].header \subseteq HeadersOf(o, k)

LEMMA ReadyNow == ASSUME Inv, NEW e \in Side
                  PROVE  Ready(e, sequence[Other(e)], received[e], reassembly[e])
<1> DEFINE o == Other(e)
<1>1. o \in Side /\ Other(o) = e /\ TypeInv /\ WindowInv /\ sequence[o] \in Sequence
  BY Sides, Typed DEF Inv
<1>2. /\ received[e] \in Buffers(ReceivedSize, {TRUE}) /\ reassembly[e] \in Buffers(ReassemblySize, Entry)
      /\ received[e].next \in Sequence
  BY <1>1, Typed
<1>3. Rolling(received[e], sequence[o]) /\ Rolling(reassembly[e], sequence[o])
      /\ received[e].next = reassembly[e].next
  BY <1>1 DEF WindowInv
<1>4. Distance(received[e].next, sequence[o]) <= Distance(received[e].next, sequence[o])
  BY <1>1, <1>2, AgeIs
<1>. QED BY <1>2, <1>3, <1>4 DEF Ready

LEMMA FoundKnown ==
    ASSUME Inv, NEW e \in Side, NEW k \in DOMAIN flight[Other(e)],
           Number(Other(e), k) \in DOMAIN reassembly[e].live
    PROVE  Found(e, k, reassembly[e], received[e])
<1>1. Other(e) \in Side /\ Other(Other(e)) = e /\ PartialInv
  BY Sides DEF Inv
<1>2. Ready(e, sequence[Other(e)], received[e], reassembly[e])
  BY ReadyNow
<1>. QED BY <1>1, <1>2 DEF Found, PartialInv, HeadersOf

LEMMA FoundNew ==
    ASSUME Inv, NEW e \in Side, NEW k \in DOMAIN flight[Other(e)],
           ~Refuses(reassembly[e], Number(Other(e), k))
    PROVE  LET s == Number(Other(e), k)
               d == NewReassembly(e, s, flight[Other(e)][k].total)
           IN Found(e, k, Insert(reassembly[e], s, d, Wrap), Advance(received[e], s, Wrap))
<1> DEFINE o == Other(e)
           s == Number(o, k)
           q == sequence[o]
           b == reassembly[e]
           d == NewReassembly(e, s, flight[o][k].total)
           c == Put(b, s, d, Wrap)
           r == Advance(received[e], s, Wrap)
<1>1. /\ o \in Side /\ TypeInv /\ q \in Sequence /\ s \in Sequence
      /\ Distance(s, q) \in 1..Half /\ flight[o][k] \in Packet
  <2>1. o \in Side /\ TypeInv /\ q \in Sequence
    BY Sides, Typed DEF Inv
  <2>. QED BY <2>1, Numbers
<1>2. /\ Ready(e, q, received[e], b) /\ b \in Buffers(ReassemblySize, Entry)
      /\ received[e] \in Buffers(ReceivedSize, {TRUE})
      /\ Rolling(received[e], q) /\ Rolling(b, q) /\ received[e].next = b.next
  BY ReadyNow DEF Ready
<1>3. d = [total |-> flight[o][k].total, got |-> {}, header |-> {}]
  BY DEF NewReassembly
<1>4. d \in Entry
  BY <1>1, <1>3 DEF Entry, Packet
<1>5. d.total = flight[o][k].total /\ d.got = {} /\ d.header = {}
  BY <1>3
<1>6. Insert(b, s, d, Wrap) = c
  BY DEF Insert
<1> HIDE DEF d
<1>7. GreaterThan(Later(s, 1), b.next) \/ Distance(s, q) - Distance(b.next, q) <= ReassemblySize
  <2>1. CASE GreaterThan(Later(s, 1), b.next)
    BY <2>1
  <2>2. CASE ~TooOld(b, s)
    <3>1. Distance(b.next, q) <= MaxLost /\ Fitting(ReassemblySize)
      BY <1>2, BoundsHold DEF Rolling
    <3>. QED BY <3>1, <2>2, <1>1, <1>2, NotTooOld
  <2>. QED BY <2>1, <2>2 DEF Refuses
<1>8. /\ c \in Buffers(ReassemblySize, Entry)
      /\ c.next = Advance(b, s, Wrap).next
      /\ Rolling(c, q)
  <2>1. Fitting(ReassemblySize)
    BY BoundsHold
  <2>. QED BY <2>1, <1>1, <1>2, <1>4, <1>7, PutAged
<1>9. /\ s \in DOMAIN c.live /\ c.live[s] = d
      /\ \A t \in DOMAIN c.live : t # s => t \in DOMAIN b.live /\ c.live[t] = b.live[t]
  <2>1. /\ s \in DOMAIN c.live /\ c.live[s] = d
        /\ DOMAIN c.live \subseteq DOMAIN b.live \union {s}
        /\ \A t \in DOMAIN c.live : t # s => c.live[t] = b.live[t]
    BY <1>1, <1>2, <1>4, PutIs
  <2>. QED BY <2>1
<1>10. /\ r \in Buffers(ReceivedSize, {TRUE})
       /\ Distance(r.next, q) = IF Distance(s, q) - 1 < Distance(received[e].next, q)
                                THEN Distance(s, q) - 1 ELSE Distance(received[e].next, q)
       /\ \A t \in Sequence : t \in DOMAIN r.live <=>
             t \in DOMAIN received[e].live /\ Distance(t, q) - Distance(r.next, q) <= ReceivedSize
       /\ Rolling(r, q)
  <2>1. Fitting(ReceivedSize)
    BY BoundsHold
  <2>. QED BY <2>1, <1>1, <1>2, AdvanceAged
<1>11. r.next = Advance(b, s, Wrap).next /\ DOMAIN r.live \subseteq DOMAIN received[e].live
  BY <1>1, <1>2, AdvanceIs
<1> HIDE DEF c, r
<1>12. Ready(e, q, r, c)
  <2>1. DOMAIN received[e].live \subseteq Sequence /\ received[e].next \in Sequence
    BY <1>1, Typed
  <2>2. Distance(r.next, q) <= Distance(received[e].next, q)
    <3>1. Distance(received[e].next, q) \in Int /\ Distance(s, q) \in Int
      BY <2>1, <1>1, AgeIs
    <3>. QED BY <3>1, <1>10
  <2>. QED BY <2>1, <2>2, <1>8, <1>10, <1>11 DEF Ready
<1>13. Found(e, k, c, r)
  BY <1>5, <1>9, <1>12 DEF Found
<1>. QED BY <1>6, <1>13 DEF c, d, r

\* One more part of those that are there.
WithPart(old, i, head) == [old EXCEPT !.got = @ \union {i}, !.header = IF i = 0 THEN head ELSE @]

LEMMA WithPartIs ==
    ASSUME NEW old \in Entry, NEW i \in Nat, NEW head \in SUBSET Header
    PROVE  /\ WithPart(old, i, head) \in Entry
           /\ WithPart(old, i, head).total = old.total
           /\ WithPart(old, i, head).got = old.got \union {i}
           /\ WithPart(old, i, head).header = IF i = 0 THEN head ELSE old.header
<1> DEFINE got == old.got \union {i}
           header == IF i = 0 THEN head ELSE old.header
           p1 == [old EXCEPT !.got = got]
           p2 == [p1 EXCEPT !.header = header]
<1>1. old = [total |-> old.total, got |-> old.got, header |-> old.header]
      /\ old.total \in Nat /\ got \in SUBSET Nat /\ header \in SUBSET Header
  BY DEF Entry
<1>2. WithPart(old, i, head) = [old EXCEPT !.got = got, !.header = header]
  BY DEF WithPart
<1> HIDE DEF got, header
<1>3. [old EXCEPT !.got = got, !.header = header] = p2
  OBVIOUS
<1>4. p1 = [total |-> old.total, got |-> got, header |-> old.header]
  BY <1>1
<1> HIDE DEF p1
<1>5. p2 = [total |-> old.total, got |-> got, header |-> header]
  BY <1>4
<1> HIDE DEF p2
<1>6. p2 \in Entry /\ p2.total = old.total /\ p2.got = got /\ p2.header = header
  BY <1>1, <1>5 DEF Entry
<1>. QED BY <1>2, <1>3, <1>6 DEF got, header

LEMMA FragmentOutcome ==
    ASSUME Inv, NEW e \in Side, NEW k \in DOMAIN flight[Other(e)], NEW i \in flight[Other(e)][k].parts,
           ReceiveFragment(e, k, i), sequence' = sequence
    PROVE  TypeInv' /\ \E fate : Outcome(e, k, i, fate)
<1> DEFINE o == Other(e)
           p == flight[o][k]
           s == Number(o, k)
           q == sequence[o]
           known == Exists(reassembly[e], s)
           buffer == IF known THEN reassembly[e]
                     ELSE Insert(reassembly[e], s, NewReassembly(e, s, p.total), Wrap)
           receivedNow == IF known THEN received[e] ELSE Advance(received[e], s, Wrap)
           old == buffer.live[s]
           new == WithPart(old, i, p.header)
<1>1. /\ o \in Side /\ o # e /\ Other(o) = e /\ q \in Sequence /\ TypeInv /\ FlightInv
      /\ s \in Sequence /\ Distance(s, q) = k /\ k \in 1..Half /\ p \in Packet
  <2>1. o \in Side /\ o # e /\ Other(o) = e /\ q \in Sequence /\ TypeInv /\ FlightInv
    BY Sides, Typed DEF Inv
  <2>2. s \in Sequence /\ Distance(s, q) = k /\ k \in 1..Half /\ p \in Packet
    BY <2>1, Numbers
  <2>. QED BY <2>1, <2>2
<1>2. /\ p.fate = "flying" /\ p.parts \subseteq 0..(p.total - 1) /\ p.total \in Nat
      /\ p.header \in SUBSET Header /\ i \in Nat
  BY <1>1 DEF FlightInv, Packet
<1>3. /\ ~known /\ Refuses(reassembly[e], s) =>
            Arrives(e, k, i, p.fate) /\ sent' = sent /\ received' = received /\ reassembly' = reassembly
            /\ acks' = acks
      /\ ~(~known /\ Refuses(reassembly[e], s)) =>
            IF old.total # p.total \/ i \in old.got \/ new.got # 0..(new.total - 1)
            THEN /\ received' = [received EXCEPT ![e] = receivedNow]
                 /\ reassembly' = [reassembly EXCEPT ![e] =
                       IF old.total # p.total \/ i \in old.got THEN buffer ELSE SetEntry(buffer, s, new)]
                 /\ Arrives(e, k, i, p.fate)
                 /\ sent' = sent /\ acks' = acks
            ELSE \E header \in new.header :
                    ReceiveWhole(e, k, i, header, receivedNow, Remove(buffer, s))
  BY DEF ReceiveFragment, WithPart
<1>4. ASSUME NEW r \in Buffers(ReceivedSize, {TRUE}), NEW a \in Buffers(ReassemblySize, Entry),
             Ready(e, q, r, a), received' = [received EXCEPT ![e] = r],
             reassembly' = [reassembly EXCEPT ![e] = a], sent' = sent, acks' = acks,
             Arrives(e, k, i, "flying"), PartsKept(e, k, i)
      PROVE  TypeInv' /\ \E f : Outcome(e, k, i, f)
  <2>1. /\ received'[e] = r /\ reassembly'[e] = a /\ received'[o] = received[o] /\ reassembly'[o] = reassembly[o]
        /\ received' \in [Side -> Buffers(ReceivedSize, {TRUE})]
        /\ reassembly' \in [Side -> Buffers(ReassemblySize, Entry)]
    BY <1>1, <1>4 DEF TypeInv
  <2>2. /\ flight' \in [Side -> Seq(Packet)] /\ \A b \in Side : Len(flight'[b]) <= Lifetime[b]
        /\ flight'[e] = flight[e] /\ DOMAIN flight'[o] = DOMAIN flight[o]
        /\ \A j \in DOMAIN flight[o] : j # k => flight'[o][j] = flight[o][j]
        /\ flight'[o][k].parts = flight[o][k].parts \ {i} /\ flight'[o][k].total = flight[o][k].total
        /\ flight'[o][k].header \subseteq flight[o][k].header /\ flight'[o][k].fate = "flying"
    BY <1>1, <1>4, ArrivesIs
  <2>3. TypeInv'
    BY <2>1, <2>2, <1>1, <1>4 DEF TypeInv
  <2>4. PartTaken(e, k, i, "flying")
    BY <2>1, <2>2, <1>2, <1>4 DEF PartTaken
  <2>5. WindowMoves(e, s, q, "flying")
    BY <2>1, <1>4 DEF WindowMoves, Ready
  <2>6. AcksLeft(e)
    BY <1>4 DEF AcksLeft
  <2>. QED BY <2>3, <2>4, <2>5, <2>6, <1>4 DEF Outcome
<1>5. CASE ~known /\ Refuses(reassembly[e], s)
  <2>1. received[e] \in Buffers(ReceivedSize, {TRUE}) /\ reassembly[e] \in Buffers(ReassemblySize, Entry)
    BY <1>1, Typed
  <2>2. Ready(e, q, received[e], reassembly[e])
    BY ReadyNow
  <2>3. SomeLeft(e, reassembly'[e])
    BY <1>3, <1>5 DEF SomeLeft
  <2>4. PartsKept(e, k, i)
    BY <2>3, LeftKept
  <2>5. received' = [received EXCEPT ![e] = received[e]] /\ reassembly' = [reassembly EXCEPT ![e] = reassembly[e]]
    BY <1>1, <1>3, <1>5 DEF TypeInv
  <2>. QED BY <2>1, <2>2, <2>4, <2>5, <1>2, <1>3, <1>4, <1>5
<1>6. CASE ~(~known /\ Refuses(reassembly[e], s))
  <2>1. Found(e, k, buffer, receivedNow)
    <3>1. CASE known
      BY <3>1, FoundKnown DEF Exists
    <3>2. CASE ~known
      <4>1. ~Refuses(reassembly[e], s)
        BY <3>2, <1>6
      <4>2. Found(e, k, Insert(reassembly[e], s, NewReassembly(e, s, p.total), Wrap), Advance(received[e], s, Wrap))
        BY <4>1, FoundNew
      <4> HIDE DEF known
      <4>. QED BY <3>2, <4>2
    <3>. QED BY <3>1, <3>2
  <2>2. IF old.total # p.total \/ i \in old.got \/ new.got # 0..(new.total - 1)
        THEN /\ received' = [received EXCEPT ![e] = receivedNow]
             /\ reassembly' = [reassembly EXCEPT ![e] =
                   IF old.total # p.total \/ i \in old.got THEN buffer ELSE SetEntry(buffer, s, new)]
             /\ Arrives(e, k, i, p.fate)
             /\ sent' = sent /\ acks' = acks
        ELSE \E header \in new.header :
                ReceiveWhole(e, k, i, header, receivedNow, Remove(buffer, s))
    BY <1>3, <1>6
  <2> HIDE DEF buffer, receivedNow, known
  <2>3. /\ Ready(e, q, receivedNow, buffer)
        /\ s \in DOMAIN buffer.live
        /\ \A t \in DOMAIN buffer.live :
              t # s => t \in DOMAIN reassembly[e].live /\ buffer.live[t] = reassembly[e].live[t]
        /\ old.total = p.total
        /\ old.got \intersect p.parts = {}
        /\ old.header \subseteq HeadersOf(o, k)
    BY <2>1 DEF Found
  <2>4. /\ receivedNow \in Buffers(ReceivedSize, {TRUE}) /\ buffer \in Buffers(ReassemblySize, Entry)
        /\ Rolling(receivedNow, q) /\ Rolling(buffer, q) /\ receivedNow.next = buffer.next
    BY <2>3 DEF Ready
  <2>5. old \in Entry
    BY <2>3, <2>4, BufferIs
  <2>6. /\ new \in Entry /\ new.total = old.total /\ new.got = old.got \union {i}
        /\ new.header = IF i = 0 THEN p.header ELSE old.header
    <3> HIDE DEF old
    <3>. QED BY <2>5, <1>2, WithPartIs
  <2>7. new.header \subseteq HeadersOf(o, k)
    <3>1. p.header \subseteq HeadersOf(o, k)
      BY DEF HeadersOf
    <3>. QED BY <3>1, <2>3, <2>6
  <2>8. Distance(s, q) - Distance(buffer.next, q) \in 1..ReassemblySize
    <3>1. buffer.size = ReassemblySize
      BY <2>4, BufferIs
    <3>. QED BY <3>1, <2>3, <2>4 DEF Rolling
  <2> HIDE DEF new, old
  <2>9. CASE old.total # p.total \/ i \in old.got \/ new.got # 0..(new.total - 1)
    <3>1. i \notin old.got
      BY <2>3
    <3>2. /\ received' = [received EXCEPT ![e] = receivedNow]
          /\ reassembly' = [reassembly EXCEPT ![e] = SetEntry(buffer, s, new)]
          /\ Arrives(e, k, i, "flying") /\ sent' = sent /\ acks' = acks
      BY <2>2, <2>3, <2>9, <3>1, <1>2
    <3> DEFINE a == SetEntry(buffer, s, new)
    <3>3. /\ a \in Buffers(ReassemblySize, Entry) /\ a.next = buffer.next
          /\ DOMAIN a.live = DOMAIN buffer.live \union {s} /\ a.live[s] = new
          /\ \A t \in DOMAIN buffer.live : t # s => a.live[t] = buffer.live[t]
          /\ Rolling(a, q)
      <4>1. Fitting(ReassemblySize)
        BY BoundsHold
      <4>. QED BY <4>1, <1>1, <2>4, <2>6, <2>8, SetAged
    <3> HIDE DEF a
    <3>4. Ready(e, q, receivedNow, a)
      BY <2>3, <2>4, <3>3 DEF Ready
    <3>5. reassembly'[e] = a
      BY <1>1, <3>2 DEF TypeInv, a
    <3>6. PartsKept(e, k, i)
      <4>1. new.total = p.total /\ new.got \intersect (p.parts \ {i}) = {}
        BY <2>3, <2>6
      <4>2. \A t \in DOMAIN a.live : t # s => t \in DOMAIN reassembly[e].live /\ a.live[t] = reassembly[e].live[t]
        BY <2>3, <3>3
      <4>. QED BY <4>1, <4>2, <3>3, <3>5, <2>7 DEF PartsKept
    <3>. QED BY <1>4, <3>2, <3>3, <3>4, <3>6, <2>4 DEF a
  <2>10. CASE ~(old.total # p.total \/ i \in old.got \/ new.got # 0..(new.total - 1))
    <3> DEFINE a == Remove(buffer, s)
    <3>1. PICK header \in new.header : ReceiveWhole(e, k, i, header, receivedNow, a)
      BY <2>2, <2>10
    <3>2. p.parts \subseteq {i}
      BY <2>3, <2>6, <2>10, <1>2
    <3>3. /\ a \in Buffers(ReassemblySize, Entry) /\ a.next = buffer.next
          /\ DOMAIN a.live = DOMAIN buffer.live \ {s}
          /\ \A t \in DOMAIN a.live : a.live[t] = buffer.live[t]
          /\ Rolling(a, q)
      <4>1. Fitting(ReassemblySize)
        BY BoundsHold
      <4>. QED BY <4>1, <1>1, <2>4, <2>8, RemoveAged
    <3> HIDE DEF a
    <3>4. Ready(e, q, receivedNow, a)
      BY <2>3, <2>4, <3>3 DEF Ready
    <3>5. SomeLeft(e, a)
      BY <2>3, <3>3 DEF SomeLeft
    <3>6. header \in HeadersOf(o, k)
      BY <3>1, <2>7
    <3>. QED BY <3>1, <3>2, <3>4, <3>5, <3>6, WholeOutcome
  <2>. QED BY <2>9, <2>10
<1>. QED BY <1>5, <1>6

LEMMA ReceiveOutcome ==
    ASSUME Inv, NEW e \in Side, NEW k, NEW i, ReceivePacket(e, k, i)
    PROVE  /\ k \in DOMAIN flight[Other(e)] /\ i \in flight[Other(e)][k].parts
           /\ TypeInv' /\ \E fate : Outcome(e, k, i, fate)
<1> DEFINE o == Other(e)
           p == flight[o][k]
<1>1. k \in DOMAIN flight[o] /\ i \in p.parts /\ sequence' = sequence
  BY DEF ReceivePacket
<1>2. CASE p.total = 1
  <2>1. PICK header \in p.header : ReceiveWhole(e, k, i, header, received[e], reassembly[e])
    BY <1>2 DEF ReceivePacket
  <2>2. header \in HeadersOf(o, k)
    BY DEF HeadersOf
  <2>3. p.parts \subseteq {i}
    <3>1. o \in Side /\ FlightInv
      BY Sides DEF Inv
    <3>2. p.parts \subseteq 0..(p.total - 1)
      BY <1>1, <3>1 DEF FlightInv
    <3>3. p.parts \subseteq {0}
      BY <1>2, <3>2
    <3>. QED BY <1>1, <3>3
  <2>4. Ready(e, sequence[o], received[e], reassembly[e])
    BY ReadyNow
  <2>5. SomeLeft(e, reassembly[e])
    BY DEF SomeLeft
  <2>. QED BY <1>1, <2>1, <2>2, <2>3, <2>4, <2>5, WholeOutcome
<1>3. CASE p.total # 1
  <2>1. ReceiveFragment(e, k, i)
    BY <1>3 DEF ReceivePacket
  <2>. QED BY <1>1, <2>1, FragmentOutcome
<1>. QED BY <1>2, <1>3

LEMMA ReceiveKeeps == ASSUME Inv, NEW e \in Side, NEW k, NEW i, ReceivePacket(e, k, i) PROVE Inv'
<1>1. k \in DOMAIN flight[Other(e)] /\ i \in flight[Other(e)][k].parts /\ TypeInv'
  BY ReceiveOutcome
<1>2. PICK fate : Outcome(e, k, i, fate)
  BY ReceiveOutcome
<1>. QED BY <1>1, <1>2, OutcomeKeeps
-----------------------------------------------------------------------------
(***************************************************************************)
(* The channel fetches what was acknowledged.                              *)
(***************************************************************************)
LEMMA FetchFacts ==
    ASSUME Inv, NEW e \in Side, FetchAcks(e)
    PROVE  /\ flight'[Other(e)] = flight[Other(e)] /\ acks'[Other(e)] = acks[Other(e)] /\ acks'[e] = {}
           /\ DOMAIN flight'[e] = DOMAIN flight[e] /\ Len(flight'[e]) = Len(flight[e])
           /\ \A k \in DOMAIN flight[e] :
                 /\ flight'[e][k].parts = flight[e][k].parts /\ flight'[e][k].total = flight[e][k].total
                 /\ flight'[e][k].header = flight[e][k].header
                 /\ flight'[e][k].fate = IF Number(e, k) \in acks[e] THEN "done" ELSE flight[e][k].fate
           /\ TypeInv'
<1> DEFINE o == Other(e)
           f == [k \in DOMAIN flight[e] |->
                    IF Number(e, k) \in acks[e] THEN [flight[e][k] EXCEPT !.fate = "done"] ELSE flight[e][k]]
<1>1. o \in Side /\ o # e /\ TypeInv
  BY Sides DEF Inv
<1>2. flight[e] \in Seq(Packet) /\ Len(flight[e]) \in Nat /\ DOMAIN flight[e] = 1..Len(flight[e])
      /\ Len(flight[e]) <= Lifetime[e]
  BY <1>1, Typed
<1>3. flight' = [flight EXCEPT ![e] = f] /\ acks' = [acks EXCEPT ![e] = {}]
      /\ sequence' = sequence /\ sent' = sent /\ received' = received /\ reassembly' = reassembly
  BY <1>1 DEF FetchAcks, TypeInv
<1>4. ASSUME NEW k \in DOMAIN flight[e]
      PROVE  /\ f[k] \in Packet
             /\ f[k].parts = flight[e][k].parts /\ f[k].total = flight[e][k].total
             /\ f[k].header = flight[e][k].header
             /\ f[k].fate = IF Number(e, k) \in acks[e] THEN "done" ELSE flight[e][k].fate
  <2>1. flight[e][k] \in Packet
    BY <1>2
  <2>2. CASE Number(e, k) \in acks[e]
    <3>1. f[k] = [flight[e][k] EXCEPT !.fate = "done"]
      BY <2>2
    <3> HIDE DEF f
    <3>. QED BY <2>1, <2>2, <3>1 DEF Packet
  <2>3. CASE Number(e, k) \notin acks[e]
    <3>1. f[k] = flight[e][k]
      BY <2>3
    <3> HIDE DEF f
    <3>. QED BY <2>1, <2>3, <3>1
  <2>. QED BY <2>2, <2>3
<1>5. f \in Seq(Packet) /\ Len(f) = Len(flight[e]) /\ DOMAIN f = DOMAIN flight[e]
  <2>1. f \in [1..Len(flight[e]) -> Packet]
    BY <1>2, <1>4
  <2>2. DOMAIN f = 1..Len(flight[e])
    BY <1>2
  <2> HIDE DEF f
  <2>. QED BY <2>1, <2>2, <1>2
<1> HIDE DEF f
<1>6. /\ flight'[e] = f /\ flight'[o] = flight[o] /\ acks'[o] = acks[o] /\ acks'[e] = {}
      /\ flight' \in [Side -> Seq(Packet)] /\ acks' \in [Side -> SUBSET Sequence]
  BY <1>1, <1>3, <1>5 DEF TypeInv
<1>7. \A a \in Side : Len(flight'[a]) <= Lifetime[a]
  BY <1>1, <1>2, <1>5, <1>6, Sides DEF TypeInv
<1>8. TypeInv'
  BY <1>1, <1>3, <1>6, <1>7 DEF TypeInv
<1>. QED BY <1>4, <1>5, <1>6, <1>8

LEMMA FetchKeeps == ASSUME Inv, NEW e \in Side, FetchAcks(e) PROVE Inv'
<1> DEFINE o == Other(e)
<1>1. /\ o \in Side /\ o # e /\ Other(o) = e
      /\ TypeInv /\ WindowInv /\ LeadInv /\ FlightInv /\ PartialInv
      /\ ReceivedInv /\ KeptInv /\ HeaderInv /\ AcksInv
  BY Sides DEF Inv
<1>2. /\ flight'[o] = flight[o] /\ acks'[o] = acks[o] /\ acks'[e] = {}
      /\ DOMAIN flight'[e] = DOMAIN flight[e]
      /\ \A k \in DOMAIN flight[e] :
            /\ flight'[e][k].parts = flight[e][k].parts /\ flight'[e][k].total = flight[e][k].total
            /\ flight'[e][k].header = flight[e][k].header
            /\ flight'[e][k].fate = IF Number(e, k) \in acks[e] THEN "done" ELSE flight[e][k].fate
      /\ TypeInv'
  BY FetchFacts
<1>3. sequence' = sequence /\ sent' = sent /\ received' = received /\ reassembly' = reassembly
  BY DEF FetchAcks
<1>4. \A a \in Side : /\ DOMAIN flight'[a] = DOMAIN flight[a]
                      /\ \A k \in DOMAIN flight[a] :
                            /\ flight'[a][k].parts = flight[a][k].parts /\ flight'[a][k].total = flight[a][k].total
                            /\ flight'[a][k].header = flight[a][k].header
                            /\ flight'[a][k].fate # flight[a][k].fate =>
                                  /\ flight'[a][k].fate = "done" /\ flight[a][k].fate = "processed"
                                  /\ a = e /\ Number(e, k) \in acks[e]
  <2>1. \A k \in DOMAIN flight[e] : Number(e, k) \in acks[e] => flight[e][k].fate = "processed"
    BY <1>1 DEF AcksInv
  <2>. QED BY <2>1, <1>2, Sides
<1>5. \A a \in Side : \A k : Number(a, k)' = Number(a, k)
  BY <1>3 DEF Number
<1>6. \A a \in Side : \A k \in DOMAIN flight[a] : Settled(a, k) => Settled(a, k)'
  <2> SUFFICES ASSUME NEW a \in Side, NEW k \in DOMAIN flight[a], Settled(a, k) PROVE Settled(a, k)'
    OBVIOUS
  <2>1. CASE flight'[a][k].fate = flight[a][k].fate
    BY <2>1, <1>3, <1>5 DEF Settled
  <2>2. CASE flight'[a][k].fate # flight[a][k].fate
    <3>1. flight'[a][k].fate = "done" /\ a = e /\ Number(e, k) \in acks[e]
      BY <2>2, <1>4
    <3>2. Number(e, k) \in DOMAIN sent[e].live => sent[e].live[Number(e, k)]
      BY <3>1, <1>1 DEF AcksInv
    <3>. QED BY <3>1, <3>2, <1>3, <1>5 DEF Settled
  <2>. QED BY <2>1, <2>2
<1>7. \A a \in Side : \A s : Honest(a, s) => Honest(a, s)'
  BY <1>4, <1>5, <1>6 DEF Honest
<1>8. WindowInv' /\ LeadInv'
  BY <1>1, <1>3 DEF WindowInv, LeadInv, Lead
<1>9. FlightInv'
  <2> SUFFICES ASSUME NEW a \in Side, NEW k \in DOMAIN flight[a]
               PROVE  /\ flight'[a][k].parts \subseteq 0..(flight'[a][k].total - 1)
                      /\ flight'[a][k].parts # {} => flight'[a][k].fate = "flying"
    BY <1>4 DEF FlightInv
  <2>. QED BY <1>1, <1>4 DEF FlightInv
<1>10. PartialInv'
  BY <1>1, <1>3, <1>4, <1>5 DEF PartialInv
<1>11. ReceivedInv'
  BY <1>1, <1>3, <1>7, Sides DEF ReceivedInv
<1>12. KeptInv'
  <2> SUFFICES ASSUME NEW a \in Side, NEW k \in DOMAIN flight[a], flight'[a][k].fate = "processed"
               PROVE  /\ k > Distance(received[Other(a)].next, sequence[a])
                      /\ k - Distance(received[Other(a)].next, sequence[a]) <= ReceivedSize
                            => Number(a, k) \in DOMAIN received[Other(a)].live
    BY <1>3, <1>4, <1>5 DEF KeptInv
  <2>1. flight[a][k].fate = "processed"
    BY <1>4
  <2>. QED BY <2>1, <1>1 DEF KeptInv
<1>13. HeaderInv'
  <2> SUFFICES ASSUME NEW a \in Side, NEW k \in DOMAIN flight[Other(a)], NEW h \in HeadersOf(Other(a), k)',
                      NEW s \in h.acked
               PROVE  Honest(a, s)' /\ Recent(a, s, k)'
    BY <1>4, Sides DEF HeaderInv
  <2>1. h \in HeadersOf(Other(a), k)
    <3>1. Other(a) \in Side
      BY Sides
    <3>. QED BY <3>1, <1>3, <1>4, <1>5 DEF HeadersOf
  <2>2. Honest(a, s) /\ Recent(a, s, k)
    BY <2>1, <1>1 DEF HeaderInv
  <2>. QED BY <2>2, <1>3, <1>7 DEF Recent, Lead
<1>14. AcksInv'
  <2> SUFFICES ASSUME NEW a \in Side, NEW s \in acks'[a]
               PROVE  /\ s \in DOMAIN sent[a].live => sent[a].live[s]
                      /\ \A k \in DOMAIN flight[a] : Number(a, k) = s => flight'[a][k].fate = "processed"
    BY <1>3, <1>4, <1>5 DEF AcksInv
  <2>1. a = o
    BY <1>2, Sides
  <2>. QED BY <2>1, <1>1, <1>2 DEF AcksInv
<1>. QED BY <1>2, <1>8, <1>9, <1>10, <1>11, <1>12, <1>13, <1>14 DEF Inv
-----------------------------------------------------------------------------
(***************************************************************************)
(* Every step.                                                             *)
(***************************************************************************)
LEMMA InitAgain == (Init => Inv)'
  BY InitInv, PTL

LEMMA ResetKeeps == ASSUME Reset PROVE Inv'
<1>1. Init'
  BY DEF Reset, Init
<1>. QED BY <1>1, InitAgain

LEMMA StutterKeeps == ASSUME Inv, UNCHANGED vars PROVE Inv'
<1> USE DEF vars
<1>1. TypeInv'
  BY DEF Inv, TypeInv
<1>2. WindowInv' /\ LeadInv' /\ FlightInv'
  BY DEF Inv, WindowInv, LeadInv, Lead, FlightInv
<1>3. PartialInv' /\ KeptInv' /\ AcksInv'
  BY DEF Inv, PartialInv, KeptInv, AcksInv, Number
<1>4. ReceivedInv' /\ HeaderInv'
  BY DEF Inv, ReceivedInv, HeaderInv, Honest, Settled, HeadersOf, Recent, Lead, Number
<1>. QED BY <1>1, <1>2, <1>3, <1>4 DEF Inv

LEMMA NextKeeps == Inv /\ [Next]_vars => Inv'
<1> SUFFICES ASSUME Inv, [Next]_vars PROVE Inv'
  OBVIOUS
<1>1. CASE UNCHANGED vars
  BY <1>1, StutterKeeps
<1>2. ASSUME NEW e \in Side, NEW n \in Sizes[e], SendPacket(e, n) PROVE Inv'
  BY <1>2, SendKeeps
<1>3. ASSUME NEW e \in Side, NEW k, NEW i, ReceivePacket(e, k, i) PROVE Inv'
  BY <1>3, ReceiveKeeps
<1>4. ASSUME NEW e \in Side, FetchAcks(e) PROVE Inv'
  BY <1>4, FetchKeeps
<1>5. CASE Reset
  BY <1>5, ResetKeeps
<1>. QED BY <1>1, <1>2, <1>3, <1>4, <1>5 DEF Next

\* What can be relied on in every state.
THEOREM EndpointInvariant == Spec => []Inv
  BY InitInv, NextKeeps, PTL DEF Spec
-----------------------------------------------------------------------------
(***************************************************************************)
(* The properties.                                                         *)
(***************************************************************************)
LEMMA InvType == Inv => TypeOK
<1> SUFFICES ASSUME Inv, NEW e \in Side
             PROVE  /\ sequence[e] \in Sequence
                    /\ sent[e].live \in [DOMAIN sent[e].live -> BOOLEAN]
                    /\ acks[e] \subseteq Sequence
                    /\ WellFormed(sent[e]) /\ WellFormed(received[e]) /\ WellFormed(reassembly[e])
  BY DEF TypeOK
<1>1. TypeInv
  BY DEF Inv
<1>2. sequence[e] \in Sequence /\ acks[e] \subseteq Sequence
  BY <1>1, Typed
<1>3. /\ sent[e] \in Buffers(SentSize, BOOLEAN) /\ received[e] \in Buffers(ReceivedSize, {TRUE})
      /\ reassembly[e] \in Buffers(ReassemblySize, Entry)
  BY <1>1, Typed
<1>4. sent[e].live \in [DOMAIN sent[e].live -> BOOLEAN]
  BY <1>3, BufferIs
<1>5. WellFormed(sent[e]) /\ WellFormed(received[e]) /\ WellFormed(reassembly[e])
  BY <1>3 DEF Buffers
<1>. QED BY <1>2, <1>4, <1>5

\* The buffers of an endpoint hold an entry for a slot at most, for any sizes.
THEOREM TypeCorrect == Spec => []TypeOK
  BY EndpointInvariant, InvType, PTL

\* No number is told of whose packet was not processed, or whose channel knows.
THEOREM ToldOnce == Spec => []AckedOnce
<1>1. Inv => AckedOnce
  BY DEF Inv, AcksInv, AckedOnce
<1>. QED BY <1>1, EndpointInvariant, PTL

LEMMA InvRemembered == Inv => Remembered
<1> SUFFICES ASSUME Inv, NEW e \in Side, NEW k \in DOMAIN flight[Other(e)],
                    flight[Other(e)][k].fate = "processed",
                    Distance(Number(Other(e), k), received[e].next)
                       <= (IF AckBits < ReceivedSize THEN AckBits ELSE ReceivedSize)
             PROVE  Number(Other(e), k) \in AckHeader(e).acked
  BY DEF Remembered
<1> DEFINE o == Other(e)
           s == Number(o, k)
           q == sequence[o]
           next == received[e].next
           ack == (next - 1) % Wrap
           back == Distance(s, next)
<1>1. /\ o \in Side /\ Other(o) = e /\ q \in Sequence /\ TypeInv /\ WindowInv /\ KeptInv
      /\ received[e] \in Buffers(ReceivedSize, {TRUE}) /\ next \in Sequence
  BY Sides, Typed DEF Inv
<1>2. s \in Sequence /\ Distance(s, q) = k /\ k \in 1..Half
  BY <1>1, Numbers
<1>3. /\ ReceivedSize \in Nat \ {0} /\ AckBits \in Nat /\ MaxLost \in Nat /\ MaxLost < Half /\ Half \in Nat
      /\ Wrap \in Nat /\ Wrap = 2 * Half /\ 1 \in 0..Wrap /\ 1 < Wrap
  BY BoundsHold, WrapIsEven DEF Fitting
<1>4. Distance(next, q) \in Int /\ 0 <= Distance(next, q) /\ Distance(next, q) <= MaxLost
  <2>1. Rolling(received[e], q)
    BY <1>1 DEF WindowInv
  <2>. QED BY <2>1, <1>1, AgeIs DEF Rolling
<1>5. /\ k > Distance(next, q)
      /\ k - Distance(next, q) <= ReceivedSize => s \in DOMAIN received[e].live
  BY <1>1 DEF KeptInv
<1>6. back = k - Distance(next, q)
  <2>1. Distance(s, next) = IF Distance(s, q) >= Distance(next, q)
                            THEN Distance(s, q) - Distance(next, q)
                            ELSE Distance(s, q) - Distance(next, q) + Wrap
    BY <1>1, <1>2, ByAge
  <2>. QED BY <2>1, <1>2, <1>4, <1>5
<1>7. ack \in Sequence /\ Distance(ack, next) = 1
  BY <1>1, <1>3, BackIs
<1>8. back <= AckBits /\ back <= ReceivedSize
  <2>1. back <= IF AckBits < ReceivedSize THEN AckBits ELSE ReceivedSize
    OBVIOUS
  <2>2. back \in Int
    BY <1>2, <1>4, <1>6
  <2> HIDE DEF back
  <2>. QED BY <2>1, <2>2, <1>3
<1> HIDE DEF ack, q, s, next, back
<1>9. Distance(ack, q) = Distance(next, q) + 1
  <2>1. Distance(ack, next) = IF Distance(ack, q) >= Distance(next, q)
                              THEN Distance(ack, q) - Distance(next, q)
                              ELSE Distance(ack, q) - Distance(next, q) + Wrap
    BY <1>1, <1>7, ByAge
  <2>2. Distance(ack, q) \in Int /\ 0 <= Distance(ack, q)
    BY <1>1, <1>7, AgeIs
  <2>. QED BY <2>1, <2>2, <1>3, <1>4, <1>7
<1>10. Distance(s, ack) = back - 1
  <2>1. Distance(s, ack) = IF Distance(s, q) >= Distance(ack, q)
                           THEN Distance(s, q) - Distance(ack, q)
                           ELSE Distance(s, q) - Distance(ack, q) + Wrap
    BY <1>1, <1>2, <1>7, ByAge
  <2>. QED BY <2>1, <1>2, <1>4, <1>5, <1>6, <1>9
<1>11. s \in DOMAIN received[e].live /\ Distance(s, ack) < AckBits
  BY <1>2, <1>3, <1>4, <1>5, <1>6, <1>8, <1>10
<1>. QED BY <1>11 DEF AckHeader, ack, next, s

\* What was processed is in every header as far as it reaches: no acknowledgement is lost for good.
THEOREM AcksRemembered == Spec => []Remembered
  BY EndpointInvariant, InvRemembered, PTL

\* What becomes of a packet in a step, if it was sent before.
LEMMA FateStep ==
    ASSUME Inv, [Next]_vars, NEW e \in Side, NEW k \in DOMAIN flight[e] \intersect DOMAIN flight'[e],
           sequence'[e] = sequence[e], flight'[e][k].fate # flight[e][k].fate
    PROVE  flight'[e][k].parts = {}
<1>1. Other(e) \in Side /\ Other(Other(e)) = e /\ TypeInv /\ FlightInv /\ AcksInv /\ sequence[e] \in Sequence
  BY Sides, Typed DEF Inv
<1>2. CASE UNCHANGED vars
  BY <1>2 DEF vars
<1>3. ASSUME NEW a \in Side, NEW n \in Sizes[a], SendPacket(a, n) PROVE flight'[e][k].parts = {}
  <2>1. Sends(a, n)
    BY <1>1, <1>3, SendFacts
  <2>2. a # e
    <3>1. 1 \in 0..Wrap /\ 1 < Wrap /\ Wrap \in Nat
      BY WrapIsEven
    <3>2. Later(sequence[e], 1) # sequence[e]
      <4>1. Later(sequence[e], 1) = IF sequence[e] + 1 < Wrap THEN sequence[e] + 1 ELSE sequence[e] + 1 - Wrap
        BY <1>1, <3>1, LaterIs
      <4>2. sequence[e] \in Int
        BY <1>1, <3>1 DEF Sequence
      <4>. QED BY <4>1, <4>2, <3>1
    <3>. QED BY <2>1, <3>2 DEF Sends
  <2>3. e = Other(a)
    BY <2>2, Sides
  <2>. QED BY <2>1, <2>3 DEF Sends
<1>4. ASSUME NEW a \in Side, NEW j, NEW i, ReceivePacket(a, j, i) PROVE flight'[e][k].parts = {}
  <2>1. j \in DOMAIN flight[Other(a)] /\ i \in flight[Other(a)][j].parts
    BY <1>4, ReceiveOutcome
  <2>2. PICK fate : Outcome(a, j, i, fate)
    BY <1>4, ReceiveOutcome
  <2>3. PartTaken(a, j, i, fate)
    BY <2>2 DEF Outcome
  <2>4. e = Other(a) /\ k = j
    BY <2>3, Sides DEF PartTaken
  <2>5. flight'[e][k].parts = flight[e][k].parts \ {i} /\ flight[e][k].parts \subseteq {i}
    BY <2>3, <2>4 DEF PartTaken
  <2>. QED BY <2>5
<1>5. ASSUME NEW a \in Side, FetchAcks(a) PROVE flight'[e][k].parts = {}
  <2>1. /\ flight'[Other(a)] = flight[Other(a)]
        /\ \A j \in DOMAIN flight[a] :
              /\ flight'[a][j].parts = flight[a][j].parts
              /\ flight'[a][j].fate = IF Number(a, j) \in acks[a] THEN "done" ELSE flight[a][j].fate
    BY <1>5, FetchFacts
  <2>2. a = e /\ Number(e, k) \in acks[e]
    BY <2>1, Sides
  <2>3. flight[e][k].fate = "processed"
    BY <2>2, <1>1 DEF AcksInv
  <2>4. flight[e][k].parts = {}
    BY <2>3, <1>1 DEF FlightInv
  <2>. QED BY <2>1, <2>2, <2>4
<1>6. CASE Reset
  <2>1. flight'[e] = <<>>
    BY <1>6 DEF Reset
  <2>2. DOMAIN flight'[e] = {}
    BY <2>1
  <2>. QED BY <2>2
<1>. QED BY <1>2, <1>3, <1>4, <1>5, <1>6 DEF Next

\* No packet is processed, or given up, before all of its parts have arrived.
THEOREM WholeOnly == Spec => OnlyWhole
<1> DEFINE A == \A e \in Side : \A k \in DOMAIN flight[e] \intersect DOMAIN flight'[e] :
                   (sequence'[e] = sequence[e] /\ flight'[e][k].fate # flight[e][k].fate)
                      => flight'[e][k].parts = {}
<1>1. Inv /\ [Next]_vars => A
  BY FateStep
<1>2. A => \A e \in Side : \A k \in DOMAIN flight[e] \intersect DOMAIN flight'[e] :
                sequence'[e] = sequence[e]
                /\ flight'[e][k].fate # flight[e][k].fate => flight'[e][k].parts = {}
  OBVIOUS
<1> HIDE DEF A
<1>3. Spec => [][A]_vars
  BY <1>1, EndpointInvariant, PTL DEF Spec
<1>. QED BY <1>2, <1>3, PTL DEF OnlyWhole
-----------------------------------------------------------------------------
(***************************************************************************)
(* The service of either direction: what it is shown of a packet in flight *)
(* is whether it was processed, and whether the channel knows.             *)
(***************************************************************************)
Seen == [fate : {"flying", "processed", "done"}, data : SUBSET {"packet"}]
View(p) == [fate |-> p.fate, data |-> IF p.fate = "flying" THEN {"packet"} ELSE {}]
NewInFlight == [fate |-> "flying", data |-> {"packet"}]
Taken == [fate |-> "processed", data |-> {}]
Told == [fate |-> "done", data |-> {}]

LEMMA ViewIs ==
    ASSUME NEW p, p.fate \in {"flying", "processed", "done"}
    PROVE  /\ View(p) \in Seen /\ View(p).fate = p.fate
           /\ p.fate = "flying" => View(p) = NewInFlight
           /\ p.fate = "processed" => View(p) = Taken
           /\ p.fate = "done" => View(p) = Told
  BY DEF View, Seen, NewInFlight, Taken, Told

\* The view of a side has a place for every packet in flight.
Shows(e) ==
    /\ Promised(e) \in Seq(Seen) /\ Len(Promised(e)) = Len(flight[e])
    /\ Len(flight[e]) \in Nat /\ Len(flight[e]) <= Lifetime[e]
    /\ DOMAIN Promised(e) = 1..Len(flight[e]) /\ DOMAIN flight[e] = 1..Len(flight[e])
    /\ \A k \in DOMAIN flight[e] :
          /\ flight[e][k].fate \in {"flying", "processed", "done"}
          /\ Promised(e)[k] = View(flight[e][k])

LEMMA ViewShows == TypeInv => \A e \in Side : Shows(e)
<1> SUFFICES ASSUME TypeInv, NEW e \in Side PROVE Shows(e)
  OBVIOUS
<1>1. flight[e] \in Seq(Packet) /\ Len(flight[e]) \in Nat /\ DOMAIN flight[e] = 1..Len(flight[e])
      /\ Len(flight[e]) <= Lifetime[e]
  BY Typed
<1>2. \A k \in DOMAIN flight[e] : flight[e][k].fate \in {"flying", "processed", "done"}
  <2> SUFFICES ASSUME NEW k \in DOMAIN flight[e]
               PROVE  flight[e][k].fate \in {"flying", "processed", "done"}
    OBVIOUS
  <2>1. flight[e][k] \in Packet
    BY <1>1
  <2>. QED BY <2>1 DEF Packet
<1>3. Promised(e) = [k \in DOMAIN flight[e] |-> View(flight[e][k])]
  BY DEF Promised, View
<1>4. \A k \in DOMAIN flight[e] : View(flight[e][k]) \in Seen
  BY <1>2, ViewIs
<1>5. Promised(e) \in [1..Len(flight[e]) -> Seen]
  BY <1>1, <1>3, <1>4
<1>6. Promised(e) \in Seq(Seen) /\ Len(Promised(e)) = Len(flight[e])
  BY <1>1, <1>5
<1>. QED BY <1>1, <1>2, <1>3, <1>6 DEF Shows

LEMMA NextShows == (TypeInv => \A e \in Side : Shows(e))'
  BY ViewShows, PTL

\* The steps of the service, on the view w of a side.
SendsOne(w, v, life) ==
    v = SubSeq(<<NewInFlight>> \o w, 1, IF Len(w) < life THEN Len(w) + 1 ELSE life)
DeliversOne(w, v, k) ==
    /\ k \in DOMAIN w /\ w[k].fate = "flying"
    /\ v = [w EXCEPT ![k] = Taken] \/ v = [w EXCEPT ![k] = Told]
Acknowledges(w, v, acked) ==
    /\ \A k \in acked : k \in DOMAIN w /\ w[k].fate = "processed"
    /\ v = [k \in DOMAIN w |-> IF k \in acked THEN Told ELSE w[k]]
Serves(w, v, life) ==
    \/ v = w \/ v = <<>> \/ SendsOne(w, v, life)
    \/ \E k \in 1..life : DeliversOne(w, v, k)
    \/ \E acked \in SUBSET (1..life) : Acknowledges(w, v, acked)

LEMMA SameView ==
    ASSUME TypeInv, TypeInv', NEW e \in Side, flight'[e] = flight[e] PROVE Promised(e)' = Promised(e)
  BY DEF Promised

LEMMA SendLength ==
    ASSUME TypeInv, NEW e \in Side, NEW n \in Sizes[e], SendPacket(e, n)
    PROVE  Len(flight'[e]) = IF Len(flight[e]) < Lifetime[e] THEN Len(flight[e]) + 1 ELSE Lifetime[e]
<1> DEFINE packet == [parts |-> 0..(n - 1), total |-> n, header |-> {AckHeader(e)}, fate |-> "flying"]
           longer == <<packet>> \o flight[e]
           kept == IF Len(longer) > Lifetime[e] THEN SubSeq(longer, 1, Lifetime[e]) ELSE longer
<1>1. n \in Nat \ {0}
  BY SidesAssumption
<1>2. packet \in Packet
  BY <1>1, HeaderTyped DEF Packet
<1>3. flight[e] \in Seq(Packet) /\ Len(flight[e]) \in Nat /\ Lifetime[e] \in Nat \ {0}
      /\ Len(flight[e]) <= Lifetime[e]
  BY Typed, BoundsHold
<1>4. flight'[e] = kept
  BY DEF SendPacket, TypeInv
<1> HIDE DEF packet
<1>5. longer \in Seq(Packet) /\ Len(longer) = Len(flight[e]) + 1
  BY <1>2, <1>3
<1> HIDE DEF longer
<1>6. CASE Len(longer) > Lifetime[e]
  <2>1. kept = SubSeq(longer, 1, Lifetime[e])
    BY <1>6
  <2>2. Len(SubSeq(longer, 1, Lifetime[e])) = Lifetime[e]
    BY <1>3, <1>5, <1>6
  <2> HIDE DEF kept
  <2>. QED BY <1>3, <1>4, <1>5, <1>6, <2>1, <2>2
<1>7. CASE ~(Len(longer) > Lifetime[e])
  <2>1. kept = longer
    BY <1>7
  <2> HIDE DEF kept
  <2>. QED BY <1>3, <1>4, <1>5, <1>7, <2>1
<1>. QED BY <1>6, <1>7

LEMMA SendServes ==
    ASSUME Inv, TypeInv', NEW e \in Side, NEW n \in Sizes[e], SendPacket(e, n)
    PROVE  SendsOne(Promised(e), Promised(e)', Lifetime[e]) /\ Promised(Other(e))' = Promised(Other(e))
<1> DEFINE w == Promised(e)
           v == Promised(e)'
           len == IF Len(w) < Lifetime[e] THEN Len(w) + 1 ELSE Lifetime[e]
           longer == <<NewInFlight>> \o w
           cut == SubSeq(longer, 1, len)
<1>1. TypeInv /\ Other(e) \in Side /\ Sends(e, n) /\ Lifetime[e] \in Nat \ {0}
  BY Sides, SendFacts, BoundsHold DEF Inv
<1>2. Shows(e) /\ Shows(e)'
  BY <1>1, ViewShows, NextShows
<1>3. Promised(Other(e))' = Promised(Other(e))
  BY <1>1, SameView DEF Sends
<1>4. w \in Seq(Seen) /\ Len(w) \in Nat /\ Len(w) = Len(flight[e]) /\ Len(w) <= Lifetime[e]
      /\ \A k \in 1..Len(w) : w[k] = View(flight[e][k])
  BY <1>2 DEF Shows
<1>5. v \in Seq(Seen) /\ Len(v) = len /\ \A k \in 1..Len(v) : v[k] = View(flight'[e][k])
  BY <1>1, <1>2, <1>4, SendLength DEF Shows
<1>6. NewInFlight \in Seen
  BY DEF NewInFlight, Seen
<1> HIDE DEF w, v
<1>7. /\ longer \in Seq(Seen) /\ Len(longer) = Len(w) + 1 /\ longer[1] = NewInFlight
      /\ \A k \in 2..(Len(w) + 1) : longer[k] = w[k - 1]
  BY <1>4, <1>6
<1>8. len \in Nat /\ len >= 1 /\ len <= Len(w) + 1
  BY <1>1, <1>4
<1> HIDE DEF longer, len
<1>9. cut \in Seq(Seen) /\ Len(cut) = len /\ \A k \in 1..len : cut[k] = longer[k]
  BY <1>7, <1>8
<1> HIDE DEF cut
<1>10. ASSUME NEW k \in 1..len PROVE v[k] = cut[k]
  <2>1. DOMAIN flight'[e] = 1..len /\ v[k] = View(flight'[e][k])
    BY <1>2, <1>5 DEF Shows, v
  <2>2. CASE k = 1
    <3>1. flight'[e][1].fate = "flying"
      BY <1>1 DEF Sends
    <3>2. v[1] = NewInFlight
      BY <2>1, <2>2, <3>1, ViewIs
    <3>. QED BY <1>7, <1>8, <1>9, <2>2, <3>2
  <2>3. CASE k # 1
    <3>1. k - 1 \in DOMAIN flight[e] /\ flight'[e][k] = flight[e][k - 1]
      BY <1>1, <2>1, <2>3 DEF Sends
    <3>2. k - 1 \in 1..Len(w) /\ k \in 2..(Len(w) + 1)
      BY <1>8, <2>3
    <3>3. w[k - 1] = View(flight[e][k - 1])
      BY <1>4, <3>2
    <3>. QED BY <1>7, <1>9, <2>1, <3>1, <3>2, <3>3
  <2>. QED BY <2>2, <2>3
<1>11. v = cut
  BY <1>5, <1>9, <1>10, SeqEqual
<1>. QED BY <1>3, <1>11 DEF SendsOne, w, v, cut, longer, len

LEMMA ReceiveServes ==
    ASSUME Inv, NEW e \in Side, NEW k, NEW i, ReceivePacket(e, k, i)
    PROVE  /\ \/ Promised(Other(e))' = Promised(Other(e))
              \/ k \in 1..Lifetime[Other(e)] /\ DeliversOne(Promised(Other(e)), Promised(Other(e))', k)
           /\ Promised(e)' = Promised(e)
<1> DEFINE o == Other(e)
           w == Promised(o)
           v == Promised(o)'
<1>1. /\ TypeInv /\ TypeInv' /\ o \in Side /\ k \in DOMAIN flight[o] /\ i \in flight[o][k].parts
      /\ Shows(o) /\ Shows(o)'
  BY Sides, ReceiveOutcome, ViewShows, NextShows DEF Inv
<1>2. PICK fate : Outcome(e, k, i, fate)
  BY ReceiveOutcome
<1>3. PartTaken(e, k, i, fate)
  BY <1>2 DEF Outcome
<1>4. Promised(e)' = Promised(e)
  BY <1>1, <1>3, SameView DEF PartTaken
<1>5. flight[o][k].fate = "flying"
  BY <1>1 DEF Inv, FlightInv
<1>6. /\ w \in Seq(Seen) /\ v \in Seq(Seen) /\ Len(v) = Len(w) /\ DOMAIN w = DOMAIN flight[o] /\ DOMAIN v = DOMAIN w
      /\ DOMAIN w = 1..Len(w)
      /\ \A j \in DOMAIN w : w[j] = View(flight[o][j]) /\ v[j] = View(flight'[o][j])
      /\ k \in 1..Lifetime[o]
  <2>1. DOMAIN flight'[o] = DOMAIN flight[o]
    BY <1>3 DEF PartTaken
  <2>2. k \in 1..Lifetime[o]
    BY <1>1, Numbers
  <2>3. Len(flight'[o]) = Len(flight[o])
    BY <1>1, <2>1 DEF Shows
  <2>. QED BY <1>1, <2>1, <2>2, <2>3 DEF Shows
<1>7. \A j \in DOMAIN w : j # k => v[j] = w[j]
  BY <1>3, <1>6 DEF PartTaken
<1>8. flight'[o][k].fate = fate /\ fate \in {"flying", "processed", "done"}
  BY <1>1, <1>3, <1>5 DEF PartTaken
<1>9. w[k].fate = "flying" /\ w[k] = NewInFlight
  BY <1>1, <1>5, <1>6, ViewIs
<1>10. v[k] = View(flight'[o][k])
  BY <1>1, <1>6
<1>11. CASE fate = "flying"
  <2>1. v[k] = w[k]
    BY <1>8, <1>9, <1>10, <1>11, ViewIs
  <2>2. \A j \in 1..Len(w) : v[j] = w[j]
    BY <1>6, <1>7, <2>1
  <2>3. v = w
    BY <1>6, <2>2, SeqEqual
  <2>. QED BY <1>4, <2>3
<1>12. ASSUME NEW r, r \in {Taken, Told}, v[k] = r PROVE v = [w EXCEPT ![k] = r]
  <2> HIDE DEF w, v
  <2>1. v = [j \in DOMAIN w |-> v[j]]
    BY <1>6
  <2>2. \A j \in DOMAIN w : v[j] = IF j = k THEN r ELSE w[j]
    BY <1>7, <1>12
  <2>3. [w EXCEPT ![k] = r] = [j \in DOMAIN w |-> IF j = k THEN r ELSE w[j]]
    OBVIOUS
  <2>. QED BY <2>1, <2>2, <2>3
<1>13. CASE fate = "processed"
  <2>1. v[k] = Taken
    BY <1>8, <1>10, <1>13, ViewIs
  <2>2. v = [w EXCEPT ![k] = Taken]
    BY <1>12, <2>1
  <2> HIDE DEF w, v
  <2>3. DeliversOne(w, v, k)
    BY <1>1, <1>6, <1>9, <2>2 DEF DeliversOne
  <2>. QED BY <1>4, <1>6, <2>3 DEF w, v
<1>14. CASE fate = "done"
  <2>1. v[k] = Told
    BY <1>8, <1>10, <1>14, ViewIs
  <2>2. v = [w EXCEPT ![k] = Told]
    BY <1>12, <2>1
  <2> HIDE DEF w, v
  <2>3. DeliversOne(w, v, k)
    BY <1>1, <1>6, <1>9, <2>2 DEF DeliversOne
  <2>. QED BY <1>4, <1>6, <2>3 DEF w, v
<1>. QED BY <1>8, <1>11, <1>13, <1>14

LEMMA FetchServes ==
    ASSUME Inv, NEW e \in Side, FetchAcks(e)
    PROVE  /\ \E acked \in SUBSET (1..Lifetime[e]) : Acknowledges(Promised(e), Promised(e)', acked)
           /\ Promised(Other(e))' = Promised(Other(e))
<1> DEFINE w == Promised(e)
           v == Promised(e)'
           acked == {k \in DOMAIN flight[e] : Number(e, k) \in acks[e]}
<1>1. /\ TypeInv /\ TypeInv' /\ Shows(e) /\ Shows(e)' /\ Other(e) \in Side
      /\ flight'[Other(e)] = flight[Other(e)] /\ DOMAIN flight'[e] = DOMAIN flight[e]
      /\ \A k \in DOMAIN flight[e] :
            flight'[e][k].fate = IF Number(e, k) \in acks[e] THEN "done" ELSE flight[e][k].fate
  BY FetchFacts, Sides, ViewShows, NextShows DEF Inv
<1>2. Promised(Other(e))' = Promised(Other(e))
  BY <1>1, SameView
<1>3. /\ DOMAIN w = DOMAIN flight[e] /\ DOMAIN v = DOMAIN w /\ w \in Seq(Seen) /\ v \in Seq(Seen)
      /\ \A k \in DOMAIN w : w[k] = View(flight[e][k]) /\ v[k] = View(flight'[e][k])
                             /\ flight[e][k].fate \in {"flying", "processed", "done"}
  BY <1>1 DEF Shows
<1>4. acked \in SUBSET (1..Lifetime[e])
  BY <1>1, Numbers
<1>5. \A k \in acked : k \in DOMAIN w /\ w[k].fate = "processed"
  <2> SUFFICES ASSUME NEW k \in acked PROVE w[k].fate = "processed"
    BY <1>3
  <2>1. flight[e][k].fate = "processed"
    BY DEF Inv, AcksInv
  <2>. QED BY <1>3, <2>1, ViewIs
<1>6. \A k \in DOMAIN w : v[k] = IF k \in acked THEN Told ELSE w[k]
  <2> SUFFICES ASSUME NEW k \in DOMAIN w PROVE v[k] = IF k \in acked THEN Told ELSE w[k]
    OBVIOUS
  <2>1. CASE k \in acked
    <3>1. flight'[e][k].fate = "done"
      BY <1>1, <2>1
    <3>2. View(flight'[e][k]) = Told
      BY <3>1, ViewIs
    <3>. QED BY <1>3, <2>1, <3>2
  <2>2. CASE k \notin acked
    <3>1. flight'[e][k].fate = flight[e][k].fate
      BY <1>1, <1>3, <2>2
    <3>2. View(flight'[e][k]) = View(flight[e][k])
      BY <3>1 DEF View
    <3>. QED BY <1>3, <2>2, <3>2
  <2>. QED BY <2>1, <2>2
<1> HIDE DEF w, v, acked
<1>7. v = [k \in DOMAIN w |-> IF k \in acked THEN Told ELSE w[k]]
  <2>1. v = [k \in DOMAIN w |-> v[k]]
    BY <1>3
  <2>. QED BY <1>6, <2>1
<1>8. Acknowledges(w, v, acked)
  BY <1>5, <1>7 DEF Acknowledges
<1>. QED BY <1>2, <1>4, <1>8 DEF w, v

LEMMA StepServes ==
    ASSUME Inv, Inv', [Next]_vars, NEW e \in Side
    PROVE  Serves(Promised(e), Promised(e)', Lifetime[e])
<1>1. /\ TypeInv /\ TypeInv' /\ Other(e) \in Side /\ Other(Other(e)) = e
      /\ \A a \in Side : a = e \/ a = Other(e)
  BY Sides DEF Inv
<1>2. CASE UNCHANGED vars
  BY <1>1, <1>2, SameView DEF vars, Serves
<1>3. ASSUME NEW a \in Side, NEW n \in Sizes[a], SendPacket(a, n)
      PROVE  Serves(Promised(e), Promised(e)', Lifetime[e])
  <2>1. SendsOne(Promised(a), Promised(a)', Lifetime[a]) /\ Promised(Other(a))' = Promised(Other(a))
    BY <1>1, <1>3, SendServes
  <2>2. CASE a = e
    BY <2>1, <2>2 DEF Serves
  <2>3. CASE Other(a) = e
    BY <2>1, <2>3 DEF Serves
  <2>. QED BY <1>1, <2>2, <2>3
<1>4. ASSUME NEW a \in Side, NEW k, NEW i, ReceivePacket(a, k, i)
      PROVE  Serves(Promised(e), Promised(e)', Lifetime[e])
  <2>1. /\ \/ Promised(Other(a))' = Promised(Other(a))
           \/ k \in 1..Lifetime[Other(a)] /\ DeliversOne(Promised(Other(a)), Promised(Other(a))', k)
        /\ Promised(a)' = Promised(a)
    BY <1>4, ReceiveServes
  <2>2. CASE a = e
    BY <2>1, <2>2 DEF Serves
  <2>3. CASE Other(a) = e
    BY <2>1, <2>3 DEF Serves
  <2>. QED BY <1>1, <2>2, <2>3
<1>5. ASSUME NEW a \in Side, FetchAcks(a) PROVE Serves(Promised(e), Promised(e)', Lifetime[e])
  <2>1. /\ \E acked \in SUBSET (1..Lifetime[a]) : Acknowledges(Promised(a), Promised(a)', acked)
        /\ Promised(Other(a))' = Promised(Other(a))
    BY <1>5, FetchServes
  <2>2. CASE a = e
    BY <2>1, <2>2 DEF Serves
  <2>3. CASE Other(a) = e
    BY <2>1, <2>3 DEF Serves
  <2>. QED BY <1>1, <2>2, <2>3
<1>6. CASE Reset
  <2>1. flight'[e] = <<>>
    BY <1>6 DEF Reset
  <2>2. Promised(e)' = <<>>
    BY <2>1 DEF Promised
  <2>. QED BY <2>2 DEF Serves
<1>. QED BY <1>2, <1>3, <1>4, <1>5, <1>6 DEF Next

\* A step of the service, as its specification has it.
LEMMA ServesClient ==
    ASSUME Serves(Promised(Client), Promised(Client)', Lifetime[Client])
    PROVE  [ToServer!ServiceNext]_(Promised(Client))
<1> DEFINE w == Promised(Client)
           v == Promised(Client)'
           life == Lifetime[Client]
<1>1. /\ ToServer!Flying("packet") = NewInFlight
      /\ ToServer!Processed = Taken /\ ToServer!Done = Told
  BY DEF ToServer!Flying, ToServer!Processed, ToServer!Done, NewInFlight, Taken, Told
<1>2. CASE v = w
  BY <1>2
<1>3. CASE v = <<>>
  BY <1>3 DEF ToServer!ServiceNext, ToServer!Restart
<1>4. CASE SendsOne(w, v, life)
  <2>1. ToServer!SendPacket("packet")
    BY <1>1, <1>4 DEF SendsOne, ToServer!SendPacket
  <2>. QED BY <2>1 DEF ToServer!ServiceNext
<1>5. ASSUME NEW k \in 1..life, DeliversOne(w, v, k) PROVE ToServer!ServiceNext
  <2>1. CASE v = [w EXCEPT ![k] = Taken]
    <3>1. ToServer!Deliver(k, TRUE)
      BY <1>1, <1>5, <2>1 DEF DeliversOne, ToServer!Deliver
    <3>. QED BY <3>1 DEF ToServer!ServiceNext
  <2>2. CASE v = [w EXCEPT ![k] = Told]
    <3>1. ToServer!Deliver(k, FALSE)
      BY <1>1, <1>5, <2>2 DEF DeliversOne, ToServer!Deliver
    <3>. QED BY <3>1 DEF ToServer!ServiceNext
  <2>. QED BY <1>5, <2>1, <2>2 DEF DeliversOne
<1>6. ASSUME NEW acked \in SUBSET (1..life), Acknowledges(w, v, acked) PROVE ToServer!ServiceNext
  <2>1. ToServer!Acknowledge(acked)
    BY <1>1, <1>6 DEF Acknowledges, ToServer!Acknowledge
  <2>. QED BY <2>1 DEF ToServer!ServiceNext
<1>. QED BY <1>2, <1>3, <1>4, <1>5, <1>6 DEF Serves

LEMMA ServesServer ==
    ASSUME Serves(Promised(Server), Promised(Server)', Lifetime[Server])
    PROVE  [ToClient!ServiceNext]_(Promised(Server))
<1> DEFINE w == Promised(Server)
           v == Promised(Server)'
           life == Lifetime[Server]
<1>1. /\ ToClient!Flying("packet") = NewInFlight
      /\ ToClient!Processed = Taken /\ ToClient!Done = Told
  BY DEF ToClient!Flying, ToClient!Processed, ToClient!Done, NewInFlight, Taken, Told
<1>2. CASE v = w
  BY <1>2
<1>3. CASE v = <<>>
  BY <1>3 DEF ToClient!ServiceNext, ToClient!Restart
<1>4. CASE SendsOne(w, v, life)
  <2>1. ToClient!SendPacket("packet")
    BY <1>1, <1>4 DEF SendsOne, ToClient!SendPacket
  <2>. QED BY <2>1 DEF ToClient!ServiceNext
<1>5. ASSUME NEW k \in 1..life, DeliversOne(w, v, k) PROVE ToClient!ServiceNext
  <2>1. CASE v = [w EXCEPT ![k] = Taken]
    <3>1. ToClient!Deliver(k, TRUE)
      BY <1>1, <1>5, <2>1 DEF DeliversOne, ToClient!Deliver
    <3>. QED BY <3>1 DEF ToClient!ServiceNext
  <2>2. CASE v = [w EXCEPT ![k] = Told]
    <3>1. ToClient!Deliver(k, FALSE)
      BY <1>1, <1>5, <2>2 DEF DeliversOne, ToClient!Deliver
    <3>. QED BY <3>1 DEF ToClient!ServiceNext
  <2>. QED BY <1>5, <2>1, <2>2 DEF DeliversOne
<1>6. ASSUME NEW acked \in SUBSET (1..life), Acknowledges(w, v, acked) PROVE ToClient!ServiceNext
  <2>1. ToClient!Acknowledge(acked)
    BY <1>1, <1>6 DEF Acknowledges, ToClient!Acknowledge
  <2>. QED BY <2>1 DEF ToClient!ServiceNext
<1>. QED BY <1>2, <1>3, <1>4, <1>5, <1>6 DEF Serves

\* Whatever the network does to the parts of packets, either channel is served:
\* packets are processed once at most, and those acknowledged were processed.
THEOREM EndpointsAreService == Spec => IsService
<1>1. Init => ToServer!ServiceInit /\ ToClient!ServiceInit
  <2> SUFFICES ASSUME Init PROVE Promised(Client) = <<>> /\ Promised(Server) = <<>>
    BY DEF ToServer!ServiceInit, ToClient!ServiceInit
  <2>1. \A e \in Side : flight[e] = <<>>
    BY DEF Init
  <2>2. \A e \in Side : Promised(e) = <<>>
    BY <2>1 DEF Promised
  <2>. QED BY <2>2 DEF Side
<1>2. Inv /\ Inv' /\ [Next]_vars => /\ [ToServer!ServiceNext]_(Promised(Client))
                                    /\ [ToClient!ServiceNext]_(Promised(Server))
  <2> SUFFICES ASSUME Inv, Inv', [Next]_vars
               PROVE  /\ [ToServer!ServiceNext]_(Promised(Client))
                      /\ [ToClient!ServiceNext]_(Promised(Server))
    OBVIOUS
  <2>1. Client \in Side /\ Server \in Side
    BY DEF Side
  <2>2. /\ Serves(Promised(Client), Promised(Client)', Lifetime[Client])
        /\ Serves(Promised(Server), Promised(Server)', Lifetime[Server])
    BY <2>1, StepServes
  <2>. QED BY <2>2, ServesClient, ServesServer
<1>. QED BY <1>1, <1>2, EndpointInvariant, PTL DEF Spec, IsService, ToServer!ServiceSpec, ToClient!ServiceSpec
=============================================================================
