------------------------ MODULE ReliableChannelProofs -----------------------
(***************************************************************************)
(* The reliable ordered channel is the queue it promises to be, for queues *)
(* of any size, as long as packets do not stay on the way for too long.    *)
(***************************************************************************)
EXTENDS ReliableChannel, FiniteSetTheorems, SequenceTheorems, TLAPS

(***************************************************************************)
(* Remainders: a number that comes round again is what a number that does  *)
(* not leaves when it is divided by the lap, W.                            *)
(***************************************************************************)
LEMMA Division ==
    ASSUME NEW n \in Nat \ {0}, NEW a \in Int
    PROVE  a = n * (a \div n) + (a % n) /\ a \div n \in Int /\ a % n \in 0..(n - 1)
  OBVIOUS

\* The only multiple of n nearer to 0 than n is 0.
LEMMA NoMultiple ==
    ASSUME NEW n \in Nat \ {0}, NEW q \in Int, -n < n * q, n * q < n PROVE q = 0
<1>1. CASE q >= 1
  <2>1. n * q >= n
    BY <1>1
  <2>. QED BY <2>1
<1>2. CASE q <= -1
  <2>1. n * q <= -n
    BY <1>2
  <2>. QED BY <2>1
<1>. QED BY <1>1, <1>2

LEMMA Remainder == ASSUME NEW n \in Nat \ {0}, NEW q \in Int, NEW r \in 0..(n - 1)
                   PROVE  (n * q + r) % n = r
<1> DEFINE a == n * q + r
           d == q - (a \div n)
<1>1. a \in Int
  OBVIOUS
<1>2. a = n * (a \div n) + (a % n) /\ a \div n \in Int /\ a % n \in 0..(n - 1)
  BY Division, <1>1
<1>3. n * d = n * q - n * (a \div n)
  BY <1>2
<1>4. n * d = (a % n) - r /\ d \in Int
  BY <1>2, <1>3
<1>5. -n < n * d /\ n * d < n
  BY <1>2, <1>4
<1>6. d = 0
  <2> HIDE DEF d
  <2>. QED BY <1>4, <1>5, NoMultiple
<1>. QED BY <1>2, <1>4, <1>6

LEMMA Multiples == ASSUME NEW n \in Nat \ {0}, NEW a \in Int, NEW q \in Int
                   PROVE  (a + n * q) % n = a % n
<1> DEFINE d == a \div n
           r == a % n
<1>1. a = n * d + r /\ d \in Int /\ r \in 0..(n - 1)
  BY Division
<1> HIDE DEF d, r
<1>2. a + n * q = n * (d + q) + r
  BY <1>1
<1>3. (n * (d + q) + r) % n = r
  BY <1>1, Remainder
<1>. QED BY <1>2, <1>3 DEF r

\* Numbers less than n apart have different remainders.
LEMMA Apart ==
    ASSUME NEW n \in Nat \ {0}, NEW a \in Int, NEW b \in Int, a % n = b % n, a - b < n, b - a < n
    PROVE  a = b
<1> DEFINE d == a \div n
           f == b \div n
           r == a % n
<1>1. a = n * d + r /\ d \in Int /\ r \in 0..(n - 1) /\ b = n * f + r /\ f \in Int
  BY Division
<1> HIDE DEF d, r, f
<1>2. n * (d - f) = a - b
  BY <1>1
<1>3. d - f \in Int
  BY <1>1
<1>4. d - f = 0
  BY <1>2, <1>3, NoMultiple
<1>. QED BY <1>2, <1>4

LEMMA Small == ASSUME NEW W \in Nat \ {0}, NEW a \in Int
               PROVE  /\ a \in 0..(W - 1) => a % W = a
                      /\ -W <= a /\ a < 0 => a % W = a + W
<1>1. ASSUME a \in 0..(W - 1) PROVE a % W = a
  <2>1. a = W * 0 + a
    BY <1>1
  <2>. QED BY <1>1, <2>1, Remainder
<1>2. ASSUME -W <= a, a < 0 PROVE a % W = a + W
  <2>1. a = W * (-1) + (a + W) /\ a + W \in 0..(W - 1)
    BY <1>2
  <2>. QED BY <2>1, Remainder
<1>. QED BY <1>1, <1>2

LEMMA ModLater == ASSUME NEW W \in Nat \ {0}, NEW a \in Int, NEW n \in Int
                  PROVE  ((a % W) + n) % W = (a + n) % W
<1> DEFINE d == a \div W
           r == a % W
           e == -d
<1>1. a = W * d + r /\ d \in Int /\ r \in 0..(W - 1)
  BY Division
<1>2. e \in Int /\ W * e = -(W * d)
  <2> HIDE DEF d, r
  <2>. QED BY <1>1
<1> HIDE DEF d, r, e
<1>3. a + n \in Int /\ r + n = (a + n) + W * e
  BY <1>1, <1>2
<1>4. ((a + n) + W * e) % W = (a + n) % W
  BY <1>2, <1>3, Multiples
<1>. QED BY <1>3, <1>4 DEF r

LEMMA ModGap == ASSUME NEW W \in Nat \ {0}, NEW a \in Int, NEW b \in Int
                PROVE  ((b % W) - (a % W)) % W = (b - a) % W
<1> DEFINE d == a \div W
           r == a % W
           c == -r
<1>1. a = W * d + r /\ d \in Int /\ r \in 0..(W - 1)
  BY Division
<1>2. c \in Int /\ (b % W) - (a % W) = (b % W) + c /\ b % W \in Int
  BY <1>1, Division
<1>3. ((b % W) + c) % W = (b + c) % W
  <2> HIDE DEF c
  <2>. QED BY <1>2, ModLater
<1>4. b + c = (b - a) + W * d /\ b - a \in Int
  BY <1>1
<1>5. ((b - a) + W * d) % W = (b - a) % W
  <2> HIDE DEF d
  <2>. QED BY <1>1, <1>4, Multiples
<1>. QED BY <1>2, <1>3, <1>4, <1>5

\* A lap ends at the end of the buffer.
LEMMA ModSlot == ASSUME NEW W \in Nat \ {0}, NEW size \in Nat \ {0}, W % size = 0, NEW a \in Int
                 PROVE  (a % W) % size = a % size
<1> DEFINE d == a \div W
           r == a % W
           n == W \div size
           m == -(n * d)
<1>1. a = W * d + r /\ d \in Int /\ r \in 0..(W - 1)
  BY Division
<1>2. W = size * n + (W % size) /\ n \in Int
  BY Division
<1>3. W = size * n
  <2> HIDE DEF n
  <2>. QED BY <1>2
<1> HIDE DEF d, r, n
<1>4. m \in Int /\ size * m = -(W * d)
  <2>1. n * d \in Int /\ size * (-(n * d)) = -((size * n) * d)
    BY <1>1, <1>2
  <2>. QED BY <2>1, <1>3
<1> HIDE DEF m
<1>5. r = a + size * m
  BY <1>1, <1>4
<1>6. (a + size * m) % size = a % size
  BY <1>4, Multiples
<1>. QED BY <1>5, <1>6 DEF r

\* Of numbers less than half a lap apart, the later is the greater.
LEMMA ModGreater ==
    ASSUME NEW W \in Nat \ {0}, W % 2 = 0, NEW a \in Int, NEW b \in Int,
           2 * (a - b) < W, 2 * (b - a) < W
    PROVE  LET s == a % W
               t == b % W
           IN (\/ s > t /\ s - t <= W \div 2
               \/ s < t /\ t - s > W \div 2) <=> a > b
<1> DEFINE s == a % W
           t == b % W
           e == a - b
           g == s - t
           half == W \div 2
<1>1. s \in 0..(W - 1) /\ t \in 0..(W - 1)
  BY Division
<1>2. half \in Nat /\ W = 2 * half
  OBVIOUS
<1>3. (s - t) % W = (a - b) % W
  BY ModGap
<1> HIDE DEF s, t, half
<1>4. /\ e \in 0..(W - 1) => e % W = e
      /\ -W <= e /\ e < 0 => e % W = e + W
  <2>1. e \in Int
    OBVIOUS
  <2> HIDE DEF e
  <2>. QED BY <2>1, Small
<1>5. /\ g \in 0..(W - 1) => g % W = g
      /\ -W <= g /\ g < 0 => g % W = g + W
  <2>1. g \in Int
    BY <1>1
  <2> HIDE DEF g
  <2>. QED BY <2>1, Small
<1>6. g % W = e % W
  BY <1>3
<1>7. -half < e /\ e < half /\ e \in Int /\ -W < g /\ g < W /\ g \in Int
  BY <1>1, <1>2
<1>8. (\/ g > 0 /\ g <= half
       \/ g < 0 /\ -g > half) <=> e > 0
  <2> DEFINE ge == g % W
             ee == e % W
  <2>1. /\ e \in 0..(W - 1) => ee = e
        /\ -W <= e /\ e < 0 => ee = e + W
        /\ g \in 0..(W - 1) => ge = g
        /\ -W <= g /\ g < 0 => ge = g + W
        /\ ge = ee
    BY <1>4, <1>5, <1>6
  <2> HIDE DEF g, e, ge, ee
  <2>2. (e >= 0 => ee = e) /\ (e < 0 => ee = e + W)
    BY <2>1, <1>2, <1>7
  <2>3. (g >= 0 => ge = g) /\ (g < 0 => ge = g + W)
    BY <2>1, <1>2, <1>7
  <2>. QED BY <2>1, <2>2, <2>3, <1>2, <1>7
<1>9. (\/ s > t /\ s - t <= half
       \/ s < t /\ t - s > half) <=> (\/ g > 0 /\ g <= half
                                      \/ g < 0 /\ -g > half)
  BY <1>1, <1>2
<1>10. e > 0 <=> a > b
  OBVIOUS
<1>. QED BY <1>8, <1>9, <1>10 DEF s, t, half

\* A number is so many before the number q as its distance from q says.
LEMMA Before ==
    ASSUME NEW W \in Nat \ {0}, NEW y \in 0..(W - 1), NEW q \in 0..(W - 1)
    PROVE  /\ (q - y) % W \in 0..(W - 1)
           /\ y = (q - ((q - y) % W)) % W
           /\ (q - q) % W = 0
<1> DEFINE e == q - y
           g == e % W
<1>1. e \in Int /\ g \in 0..(W - 1)
  BY Division
<1>2. e = W * (e \div W) + g /\ e \div W \in Int
  <2> HIDE DEF e
  <2>. QED BY <1>1, Division
<1> DEFINE d == e \div W
<1>7. d \in Int /\ e = W * d + g
  BY <1>2
<1> HIDE DEF g, d
<1>3. q - g = y + W * d
  BY <1>1, <1>7
<1>4. (y + W * d) % W = y % W
  <2>1. y \in Int /\ d \in Int
    BY <1>7
  <2>. QED BY <2>1, Multiples
<1>5. y % W = y
  BY Small
<1>6. (q - q) % W = 0
  <2>1. q - q = 0 /\ 0 \in 0..(W - 1)
    OBVIOUS
  <2>. QED BY <2>1, Small
<1>. QED BY <1>1, <1>3, <1>4, <1>5, <1>6 DEF g

LEMMA OneGap ==
    ASSUME NEW W \in Nat \ {0}, NEW y \in 0..(W - 1), NEW z \in 0..(W - 1), NEW q \in 0..(W - 1),
           (q - y) % W = (q - z) % W
    PROVE  y = z
<1>1. y = (q - ((q - y) % W)) % W /\ z = (q - ((q - z) % W)) % W
  BY Before
<1>. QED BY <1>1

\* Which numbers there are, by how far they are before q.
LEMMA AllGaps ==
    ASSUME NEW W \in Nat \ {0}, NEW q \in 0..(W - 1), NEW n \in Int
    PROVE  /\ (q - n) % W \in 0..(W - 1)
           /\ n \in 0..(W - 1) => (q - ((q - n) % W)) % W = n
<1> DEFINE m == q - n
<1>1. m \in Int /\ q = q % W /\ q - m = n
  BY Small
<1>2. m % W \in 0..(W - 1) /\ ((q % W) - (m % W)) % W = (q - m) % W
  <2>1. q \in Int
    OBVIOUS
  <2> HIDE DEF m
  <2>2. m % W \in 0..(W - 1)
    BY <1>1, Division
  <2>3. ((q % W) - (m % W)) % W = (q - m) % W
    BY <1>1, <2>1, ModGap
  <2>. QED BY <2>2, <2>3
<1>3. n \in 0..(W - 1) => n % W = n
  BY Small
<1>. QED BY <1>1, <1>2, <1>3

\* The n-th number after y is so much nearer to q.
LEMMA LaterGap ==
    ASSUME NEW W \in Nat \ {0}, NEW y \in 0..(W - 1), NEW q \in 0..(W - 1), NEW n \in Int
    PROVE  /\ (y + n) % W \in 0..(W - 1)
           /\ (q - ((y + n) % W)) % W = (((q - y) % W) - n) % W
<1>1. (y + n) % W \in 0..(W - 1) /\ q = q % W /\ q \in Int /\ y + n \in Int
  <2> DEFINE s == y + n
  <2>1. s \in Int /\ q \in Int
    OBVIOUS
  <2>2. s % W \in 0..(W - 1)
    <3> HIDE DEF s
    <3>. QED BY <2>1, Division
  <2>3. q % W = q
    BY Small
  <2>. QED BY <2>1, <2>2, <2>3
<1>2. ((q % W) - ((y + n) % W)) % W = (q - (y + n)) % W
  <2> DEFINE s == y + n
  <2> HIDE DEF s
  <2>1. ((q % W) - (s % W)) % W = (q - s) % W
    BY <1>1, ModGap DEF s
  <2>. QED BY <2>1 DEF s
<1> DEFINE a == q - y
           m == -n
<1>3. ((a % W) + m) % W = (a + m) % W
  <2>1. a \in Int /\ m \in Int
    OBVIOUS
  <2> HIDE DEF a, m
  <2>. QED BY <2>1, ModLater
<1>4. a % W \in Int
  <2>1. a \in Int
    OBVIOUS
  <2> HIDE DEF a
  <2>. QED BY <2>1, Division
<1>5. a + m = q - (y + n) /\ (a % W) + m = (a % W) - n
  BY <1>4
<1>. QED BY <1>1, <1>2, <1>3, <1>5

\* How far z is after y, from how far they are before q.
LEMMA GapBetween ==
    ASSUME NEW W \in Nat \ {0}, NEW y \in 0..(W - 1), NEW z \in 0..(W - 1), NEW q \in 0..(W - 1)
    PROVE  (z - y) % W = (((q - y) % W) - ((q - z) % W)) % W
<1> DEFINE a == q - y
           b == q - z
<1>1. a \in Int /\ b \in Int /\ a - b = z - y
  OBVIOUS
<1>2. ((a % W) - (b % W)) % W = (a - b) % W
  <2> HIDE DEF a, b
  <2>. QED BY <1>1, ModGap
<1>. QED BY <1>1, <1>2
-----------------------------------------------------------------------------
(***************************************************************************)
(* Buffers of entries of any kind, for numbers from N.                     *)
(***************************************************************************)
WellFormed(size, b) == \A s, t \in DOMAIN b.live : s % size = t % size => s = t
Buffers(N, size, V) ==
    {b \in [size : {size}, next : N, live : UNION {[D -> V] : D \in SUBSET N}] : WellFormed(size, b)}

LEMMA BufferIs ==
    ASSUME NEW N, NEW size, NEW V, NEW b \in Buffers(N, size, V)
    PROVE  /\ b.size = size /\ b.next \in N /\ DOMAIN b.live \subseteq N
           /\ \A s \in DOMAIN b.live : b.live[s] \in V
           /\ b.live \in [DOMAIN b.live -> V]
           /\ b = [size |-> b.size, next |-> b.next, live |-> b.live]
           /\ WellFormed(size, b)
<1>1. /\ b \in [size : {size}, next : N, live : UNION {[D -> V] : D \in SUBSET N}]
      /\ WellFormed(size, b)
  BY DEF Buffers
<1>2. b.live \in UNION {[D -> V] : D \in SUBSET N}
  BY <1>1
<1>3. PICK D \in SUBSET N : b.live \in [D -> V]
  BY <1>2
<1>. QED BY <1>1, <1>3

LEMMA IsBuffer ==
    ASSUME NEW N, NEW size, NEW V, NEW next \in N, NEW D \in SUBSET N, NEW f \in [D -> V],
           \A s, t \in D : s % size = t % size => s = t
    PROVE  [size |-> size, next |-> next, live |-> f] \in Buffers(N, size, V)
<1> DEFINE b == [size |-> size, next |-> next, live |-> f]
<1>1. b \in [size : {size}, next : N, live : UNION {[E -> V] : E \in SUBSET N}]
  <2>1. f \in UNION {[E -> V] : E \in SUBSET N}
    OBVIOUS
  <2>. QED BY <2>1
<1>2. b.size = size /\ b.next = next /\ b.live = f /\ DOMAIN f = D
  OBVIOUS
<1>3. WellFormed(size, b)
  BY <1>2 DEF WellFormed
<1>. QED BY <1>1, <1>3 DEF Buffers

LEMMA NewBuffer == ASSUME NEW N, 0 \in N, NEW size, NEW V
                   PROVE  Ids!Buffer(size) \in Buffers(N, size, V) /\ DOMAIN Ids!Buffer(size).live = {}
                          /\ Ids!Buffer(size).next = 0
<1>2. <<>> \in [{} -> V] /\ DOMAIN <<>> = {}
  OBVIOUS
<1>3. [size |-> size, next |-> 0, live |-> <<>>] \in Buffers(N, size, V)
  BY <1>2, IsBuffer
<1>. QED BY <1>2, <1>3 DEF Ids!Buffer

\* Less is left when slots are freed, and what is left is the same.
LEMMA FreeIs ==
    ASSUME NEW N, NEW size, NEW V, NEW b \in Buffers(N, size, V), NEW slots
    PROVE  /\ Ids!Free(b, slots) \in Buffers(N, size, V)
           /\ Ids!Free(b, slots).next = b.next
           /\ DOMAIN Ids!Free(b, slots).live = {s \in DOMAIN b.live : s % size \notin slots}
           /\ \A s \in DOMAIN Ids!Free(b, slots).live : Ids!Free(b, slots).live[s] = b.live[s]
<1> DEFINE left == {s \in DOMAIN b.live : s % size \notin slots}
           f == [s \in left |-> b.live[s]]
<1>1. /\ b.size = size /\ b.next \in N /\ DOMAIN b.live \subseteq N
      /\ \A s \in DOMAIN b.live : b.live[s] \in V
      /\ b = [size |-> b.size, next |-> b.next, live |-> b.live]
      /\ WellFormed(size, b)
  BY BufferIs
<1>2. Ids!Free(b, slots) = [size |-> size, next |-> b.next, live |-> f]
  BY <1>1 DEF Ids!Free, Ids!Slot
<1>3. f \in [left -> V] /\ left \in SUBSET N
  BY <1>1
<1>4. \A s, t \in left : s % size = t % size => s = t
  BY <1>1 DEF WellFormed
<1>5. Ids!Free(b, slots) \in Buffers(N, size, V)
  <2> HIDE DEF left, f
  <2>. QED BY <1>1, <1>2, <1>3, <1>4, IsBuffer
<1>6. Ids!Free(b, slots).next = b.next /\ Ids!Free(b, slots).live = f
  BY <1>2
<1>. QED BY <1>5, <1>6

LEMMA RemoveIs ==
    ASSUME NEW N, NEW size, NEW V, NEW b \in Buffers(N, size, V), NEW s
    PROVE  /\ Ids!Remove(b, s) \in Buffers(N, size, V)
           /\ Ids!Remove(b, s).next = b.next
           /\ DOMAIN Ids!Remove(b, s).live = {t \in DOMAIN b.live : t % size # s % size}
           /\ \A t \in DOMAIN Ids!Remove(b, s).live : Ids!Remove(b, s).live[t] = b.live[t]
<1>1. b.size = size
  BY BufferIs
<1>2. Ids!Remove(b, s) = Ids!Free(b, {s % size})
  BY <1>1 DEF Ids!Remove, Ids!Slot
<1>. QED BY <1>2, FreeIs

LEMMA SetEntryIs ==
    ASSUME NEW N, NEW size, NEW V, NEW b \in Buffers(N, size, V), NEW s \in N, NEW d \in V
    PROVE  /\ Ids!SetEntry(b, s, d) \in Buffers(N, size, V)
           /\ Ids!SetEntry(b, s, d).next = b.next
           /\ DOMAIN Ids!SetEntry(b, s, d).live = {t \in DOMAIN b.live : t % size # s % size} \union {s}
           /\ Ids!SetEntry(b, s, d).live[s] = d
           /\ \A t \in DOMAIN b.live : t % size # s % size => Ids!SetEntry(b, s, d).live[t] = b.live[t]
<1> DEFINE r == Ids!Remove(b, s).live
           D == {t \in DOMAIN b.live : t % size # s % size} \union {s}
           f == [t \in D |-> IF t = s THEN d ELSE r[t]]
<1>1. /\ b.size = size /\ b.next \in N /\ DOMAIN b.live \subseteq N
      /\ \A t \in DOMAIN b.live : b.live[t] \in V
      /\ b = [size |-> b.size, next |-> b.next, live |-> b.live]
      /\ WellFormed(size, b)
  BY BufferIs
<1>2. /\ DOMAIN r = {t \in DOMAIN b.live : t % size # s % size}
      /\ \A t \in DOMAIN r : r[t] = b.live[t]
  BY RemoveIs
<1>3. Ids!SetEntry(b, s, d) = [size |-> size, next |-> b.next, live |-> f]
  <2>1. Ids!SetEntry(b, s, d) = [b EXCEPT !.live = [t \in DOMAIN r \union {s} |-> IF t = s THEN d ELSE r[t]]]
    BY DEF Ids!SetEntry
  <2>2. Ids!SetEntry(b, s, d) = [b EXCEPT !.live = f]
    BY <2>1, <1>2
  <2> HIDE DEF f
  <2>. QED BY <2>2, <1>1
<1>4. D \in SUBSET N /\ f \in [D -> V]
  BY <1>1, <1>2
<1>5. \A t, u \in D : t % size = u % size => t = u
  BY <1>1 DEF WellFormed
<1>6. Ids!SetEntry(b, s, d) \in Buffers(N, size, V)
  <2> HIDE DEF D, f
  <2>. QED BY <1>1, <1>3, <1>4, <1>5, IsBuffer
<1>7. Ids!SetEntry(b, s, d).next = b.next /\ Ids!SetEntry(b, s, d).live = f
  BY <1>3
<1>. QED BY <1>2, <1>6, <1>7

\* How far y is before q.
Gap(W, y, q) == (q - y) % W

LEMMA GapIs ==
    ASSUME NEW W \in Nat \ {0}, NEW y \in 0..(W - 1), NEW q \in 0..(W - 1)
    PROVE  /\ Gap(W, y, q) \in Int /\ 0 <= Gap(W, y, q) /\ Gap(W, y, q) < W /\ Gap(W, y, q) \in 0..(W - 1)
           /\ y = (q - Gap(W, y, q)) % W /\ Gap(W, q, q) = 0
<1>1. Gap(W, y, q) \in 0..(W - 1)
  BY Before DEF Gap
<1>3. Gap(W, q, q) = 0 /\ y = (q - Gap(W, y, q)) % W
  BY Before DEF Gap
<1>. QED BY <1>1, <1>3

\* Numbers less than a buffer apart have slots of their own.
LEMMA GapSlots ==
    ASSUME NEW W \in Nat \ {0}, NEW size \in Nat \ {0}, W % size = 0,
           NEW y \in 0..(W - 1), NEW z \in 0..(W - 1), NEW q \in 0..(W - 1)
    PROVE  /\ y % size = (q - Gap(W, y, q)) % size
           /\ y % size = z % size /\ Gap(W, y, q) - Gap(W, z, q) < size /\ Gap(W, z, q) - Gap(W, y, q) < size
                 => y = z
           /\ y % size = z % size => ~(0 < Gap(W, y, q) - Gap(W, z, q) /\ Gap(W, y, q) - Gap(W, z, q) < size)
<1> DEFINE a == Gap(W, y, q)
           b == Gap(W, z, q)
           c == q - a
           d == q - b
<1>1. a \in 0..(W - 1) /\ y = c % W /\ b \in 0..(W - 1) /\ z = d % W
  <2>1. Gap(W, y, q) \in 0..(W - 1) /\ y = (q - Gap(W, y, q)) % W
    <3>1. W \in Nat \ {0} /\ y \in 0..(W - 1) /\ q \in 0..(W - 1)
      OBVIOUS
    <3>. QED BY ONLY <3>1, GapIs
  <2>2. Gap(W, z, q) \in 0..(W - 1) /\ z = (q - Gap(W, z, q)) % W
    <3>1. W \in Nat \ {0} /\ z \in 0..(W - 1) /\ q \in 0..(W - 1)
      OBVIOUS
    <3>. QED BY ONLY <3>1, GapIs
  <2>. QED BY <2>1, <2>2
<1> HIDE DEF a, b
<1>2. c \in Int /\ d \in Int /\ c - d = b - a
  BY <1>1
<1> HIDE DEF c, d
<1>3. y % size = c % size /\ z % size = d % size
  BY <1>1, <1>2, ModSlot
<1>4. ASSUME y % size = z % size, a - b < size, b - a < size PROVE c = d
  <2>1. c % size = d % size /\ c - d < size /\ d - c < size
    BY <1>1, <1>2, <1>3, <1>4
  <2>. QED BY <2>1, <1>2, Apart
<1>5. y % size = z % size /\ a - b < size /\ b - a < size => y = z /\ a = b
  BY <1>1, <1>2, <1>4
<1>. QED BY <1>1, <1>3, <1>5 DEF a, b, c

\* What a newer number s frees, up to its own slot, is what is then the size of
\* the buffer behind.  The end of it is one short when it has come round again.
Freed(size, start, finish, lap) ==
    LET end == IF finish < start THEN finish + lap ELSE finish
    IN IF end - start < size THEN {x % size : x \in start..end} ELSE 0..(size - 1)

LEMMA FreedBy ==
    ASSUME NEW W \in Nat \ {0}, NEW size \in Nat \ {0}, W % size = 0,
           NEW q \in 0..(W - 1), NEW start \in 0..(W - 1), NEW s \in 0..(W - 1), NEW t \in 0..(W - 1),
           Gap(W, s, q) <= Gap(W, start, q), Gap(W, t, q) - Gap(W, start, q) \in 1..size
    PROVE  LET slots == Freed(size, start, s, W - 1)
           IN /\ t % size \in slots => Gap(W, t, q) - Gap(W, s, q) >= size
              /\ Gap(W, t, q) - Gap(W, s, q) >= size => t % size \in slots \union {s % size}
<1> DEFINE end == IF s < start THEN s + (W - 1) ELSE s
           few == end - start < size
           slots == Freed(size, start, s, W - 1)
           young == Gap(W, s, q)
           next == Gap(W, start, q)
           age == Gap(W, t, q)
           m == next - young
           base == q - next
<1>2. slots = IF few THEN {x % size : x \in start..end} ELSE 0..(size - 1)
  BY DEF Freed
<1>3. /\ young \in 0..(W - 1) /\ next \in 0..(W - 1) /\ age \in 0..(W - 1)
      /\ young <= next /\ age - next \in 1..size
      /\ start = base % W
  <2>1. young \in 0..(W - 1) /\ age \in 0..(W - 1)
    <3>1. Gap(W, s, q) \in 0..(W - 1)
      BY GapIs
    <3>2. Gap(W, t, q) \in 0..(W - 1)
      BY GapIs
    <3>. QED BY <3>1, <3>2
  <2>2. next \in 0..(W - 1) /\ start = base % W
    BY GapIs
  <2>. QED BY <2>1, <2>2
<1>4. (s - start) % W = (next - young) % W
  BY GapBetween DEF Gap
<1>5. t % size = (q - age) % size /\ s % size = (q - young) % size
  <2>1. t % size = (q - Gap(W, t, q)) % size
    BY GapSlots
  <2>2. s % size = (q - Gap(W, s, q)) % size
    BY GapSlots
  <2>. QED BY <2>1, <2>2
<1> HIDE DEF slots, young, next, age, few, end
<1>6. base \in Int /\ m \in 0..(W - 1) /\ s \in Int /\ start \in Int
  BY <1>3
<1>7. \A i \in Int : (start + i) % size = (base + i) % size
  <2>. TAKE i \in Int
  <2> DEFINE c == base + i
             d == start + i
  <2>1. c \in Int /\ d \in Int
    BY <1>6
  <2>2. d % W = c % W
    <3> HIDE DEF base
    <3>. QED BY <1>3, <1>6, ModLater
  <2>3. (c % W) % size = c % size /\ (d % W) % size = d % size
    <3> HIDE DEF c, d
    <3>. QED BY <2>1, ModSlot
  <2>. QED BY <2>2, <2>3
<1>8. end - start \in {m, m - 1} /\ end \in Int /\ (end - start = m - 1 => m >= 1)
  <2> DEFINE e == s - start
  <2>1. e \in Int /\ -W <= e /\ e < W /\ m % W = m /\ e % W = m % W
    <3>1. m % W = m
      <4>1. m \in Int
        BY <1>6
      <4> HIDE DEF m
      <4>. QED BY <4>1, <1>6, Small
    <3>. QED BY <3>1, <1>4
  <2>2. (e \in 0..(W - 1) => e % W = e) /\ (-W <= e /\ e < 0 => e % W = e + W)
    <3> HIDE DEF e
    <3>. QED BY <2>1, Small
  <2>3. (e >= 0 => e = m) /\ (e < 0 => e + W = m)
    <3> DEFINE ew == e % W
               mw == m % W
    <3>1. ew = mw /\ mw = m /\ m \in 0..(W - 1)
      BY <2>1, <1>6
    <3> HIDE DEF e, m, ew, mw
    <3>2. (e \in 0..(W - 1) => ew = e) /\ (-W <= e /\ e < 0 => ew = e + W)
      BY <2>2 DEF ew
    <3>. QED BY <2>1, <3>1, <3>2
  <2> HIDE DEF m
  <2>4. CASE s < start
    <3>1. end = s + (W - 1) /\ e < 0
      BY <2>4, <1>6 DEF end
    <3>. QED BY <3>1, <2>3, <1>6
  <2>5. CASE ~(s < start)
    <3>1. end = s /\ e >= 0
      BY <2>5, <1>6 DEF end
    <3>. QED BY <3>1, <2>3, <1>6
  <2>. QED BY <2>4, <2>5
<1>9. CASE ~few
  <2>1. slots = 0..(size - 1)
    BY <1>2, <1>9
  <2>2. t % size \in 0..(size - 1)
    <3>1. t \in Int
      OBVIOUS
    <3>. QED BY <3>1, Division
  <2>3. age - young >= size
    <3>1. end - start >= size
      BY <1>9, <1>6, <1>8 DEF few
    <3>. QED BY <3>1, <1>3, <1>8, <1>6
  <2>4. t % size \in slots
    BY <2>1, <2>2
  <2>. QED BY <2>3, <2>4 DEF slots, young, age
<1>10. CASE few
  <2>1. slots = {x % size : x \in start..end}
    BY <1>2, <1>10
  <2>2. ASSUME t % size \in slots PROVE age - young >= size
    <3>1. PICK x \in start..end : t % size = x % size
      BY <2>1, <2>2
    <3> DEFINE i == x - start
               a == base + i
               c == q - age
    <3>2. i \in Int /\ 0 <= i /\ i <= m /\ x = start + i
      <4> HIDE DEF m
      <4>. QED BY <1>6, <1>8, <3>1
    <3>3. a % size = c % size
      <4> HIDE DEF i, base
      <4>. QED BY <3>1, <3>2, <1>5, <1>7
    <3>4. a \in Int /\ c \in Int /\ a - c = i + (age - next) /\ a # c
      <4> HIDE DEF i
      <4>. QED BY <3>2, <1>3
    <3>5. ~(a - c < size /\ c - a < size)
      <4> HIDE DEF a, c
      <4>. QED BY <3>3, <3>4, Apart
    <3>6. a - c >= size
      <4> HIDE DEF a, c, i
      <4>. QED BY <3>2, <3>4, <3>5, <1>3
    <3> HIDE DEF a, c, i
    <3>. QED BY <3>2, <3>4, <3>6, <1>3
  <2>3. ASSUME age - young >= size PROVE t % size \in slots \union {s % size}
    <3> DEFINE i == size - (age - next)
               c == q - age
    <3>1. i \in Int /\ 0 <= i /\ i <= m
      BY <2>3, <1>3
    <3>2. (start + i) % size = (base + i) % size
      <4> HIDE DEF i, base
      <4>. QED BY <3>1, <1>7
    <3>3. base + i = c + size /\ c \in Int
      BY <1>3
    <3>4. (c + size) % size = c % size
      <4> DEFINE one == 1
      <4>1. one \in Int /\ c + size = c + size * one
        BY <3>3
      <4> HIDE DEF c, one
      <4>2. (c + size * one) % size = c % size
        BY <3>3, <4>1, Multiples
      <4>. QED BY <4>1, <4>2
    <3>5. t % size = (start + i) % size
      BY <3>2, <3>3, <3>4, <1>5
    <3>6. CASE i <= end - start
      <4>1. start + i \in start..end
        <5> HIDE DEF i
        <5>. QED BY <3>1, <3>6, <1>6, <1>8
      <4> HIDE DEF i
      <4>. QED BY <2>1, <4>1, <3>5
    <3>7. CASE ~(i <= end - start)
      <4>1. i = m
        <5> HIDE DEF i, m
        <5>. QED BY <3>1, <3>7, <1>6, <1>8
      <4>2. base + i = q - young
        BY <4>1, <1>3
      <4> HIDE DEF i, base
      <4>. QED BY <4>2, <3>2, <3>5, <1>5
    <3>. QED BY <3>6, <3>7
  <2>. QED BY <2>2, <2>3 DEF slots, young, age
<1>. QED BY <1>9, <1>10

\* What is left of a buffer with an entry added, when some slots are freed.
LEMMA PutFree ==
    ASSUME NEW N, NEW size, NEW V, NEW b \in Buffers(N, size, V), NEW slots, NEW n \in N,
           NEW s \in N, NEW d \in V
    PROVE  LET c == Ids!SetEntry([Ids!Free(b, slots) EXCEPT !.next = n], s, d)
           IN /\ c \in Buffers(N, size, V)
              /\ c.next = n
              /\ DOMAIN c.live = {t \in DOMAIN b.live : t % size \notin slots \union {s % size}} \union {s}
              /\ c.live[s] = d
              /\ \A t \in DOMAIN c.live : t # s => c.live[t] = b.live[t]
<1> DEFINE r == Ids!Free(b, slots)
           a == [r EXCEPT !.next = n]
           c == Ids!SetEntry(a, s, d)
<1>1. /\ r \in Buffers(N, size, V)
      /\ DOMAIN r.live = {t \in DOMAIN b.live : t % size \notin slots}
      /\ \A t \in DOMAIN r.live : r.live[t] = b.live[t]
  BY FreeIs
<1> HIDE DEF r
<1>2. /\ r.size = size /\ r.next \in N /\ DOMAIN r.live \subseteq N
      /\ r.live \in [DOMAIN r.live -> V]
      /\ r = [size |-> r.size, next |-> r.next, live |-> r.live]
      /\ WellFormed(size, r)
  <2> HIDE DEF a, c
  <2>1. r \in Buffers(N, size, V)
    BY <1>1
  <2>. QED BY ONLY <2>1, BufferIs
<1>3. a = [size |-> size, next |-> n, live |-> r.live]
  BY <1>2
<1>4. a.next = n /\ a.live = r.live
  BY <1>3
<1>5. \A t, u \in DOMAIN r.live : t % size = u % size => t = u
  BY <1>2 DEF WellFormed
<1>6. a \in Buffers(N, size, V)
  BY <1>2, <1>3, <1>5, IsBuffer
<1> HIDE DEF a
<1>7. /\ c \in Buffers(N, size, V)
      /\ c.next = a.next
      /\ DOMAIN c.live = {t \in DOMAIN a.live : t % size # s % size} \union {s}
      /\ c.live[s] = d
      /\ \A t \in DOMAIN a.live : t % size # s % size => c.live[t] = a.live[t]
  BY <1>6, SetEntryIs
<1> HIDE DEF c
<1>8. DOMAIN c.live = {t \in DOMAIN b.live : t % size \notin slots \union {s % size}} \union {s}
  BY <1>1, <1>4, <1>7
<1>9. \A t \in DOMAIN c.live : t # s => c.live[t] = b.live[t]
  BY <1>1, <1>4, <1>7
<1>. QED BY <1>4, <1>7, <1>8, <1>9 DEF c, a, r

\* An entry for a number that is not older than the newest.
LEMMA PutNewer ==
    ASSUME NEW W \in Nat \ {0}, NEW size \in Nat \ {0}, W % size = 0,
           NEW V, NEW b \in Buffers(0..(W - 1), size, V), NEW q \in 0..(W - 1), NEW s \in 0..(W - 1),
           NEW n \in 0..(W - 1), NEW d \in V,
           Gap(W, s, q) <= Gap(W, b.next, q),
           \A t \in DOMAIN b.live : Gap(W, t, q) - Gap(W, b.next, q) \in 1..size,
           NEW c, c = Ids!SetEntry([Ids!RemoveEntries(b, b.next, s, W - 1) EXCEPT !.next = n], s, d)
    PROVE  /\ c \in Buffers(0..(W - 1), size, V)
           /\ c.next = n
           /\ DOMAIN c.live = {t \in DOMAIN b.live : Gap(W, t, q) - Gap(W, s, q) < size} \union {s}
           /\ c.live[s] = d
           /\ \A t \in DOMAIN c.live : t # s => c.live[t] = b.live[t]
<1> DEFINE N == 0..(W - 1)
           start == b.next
           slots == Freed(size, start, s, W - 1)
           e == Ids!SetEntry([Ids!Free(b, slots) EXCEPT !.next = n], s, d)
<1>1. b.size = size /\ start \in N /\ DOMAIN b.live \subseteq N
  BY BufferIs
<1>2. Ids!RemoveEntries(b, b.next, s, W - 1) = Ids!Free(b, slots)
  BY <1>1 DEF Ids!RemoveEntries, Freed
<1>3. \A t \in DOMAIN b.live : t \in N /\ Gap(W, t, q) - Gap(W, start, q) \in 1..size
  BY <1>1
<1>4. Gap(W, s, q) <= Gap(W, start, q)
  OBVIOUS
<1> HIDE DEF start
<1>5. ASSUME NEW t \in DOMAIN b.live
      PROVE  t % size \notin slots \union {s % size} <=> Gap(W, t, q) - Gap(W, s, q) < size
  <2>1. t \in 0..(W - 1) /\ start \in 0..(W - 1)
        /\ Gap(W, t, q) - Gap(W, start, q) \in 1..size
    BY <1>1, <1>3
  <2>2. /\ t % size \in slots => Gap(W, t, q) - Gap(W, s, q) >= size
        /\ Gap(W, t, q) - Gap(W, s, q) >= size => t % size \in slots \union {s % size}
    <3> HIDE DEF e, slots
    <3>1. \A u \in 0..(W - 1) : Gap(W, u, q) - Gap(W, start, q) \in 1..size =>
             /\ u % size \in Freed(size, start, s, W - 1) => Gap(W, u, q) - Gap(W, s, q) >= size
             /\ Gap(W, u, q) - Gap(W, s, q) >= size =>
                   u % size \in Freed(size, start, s, W - 1) \union {s % size}
      <4>. TAKE u \in 0..(W - 1)
      <4>. HAVE Gap(W, u, q) - Gap(W, start, q) \in 1..size
      <4>. QED BY <2>1, <1>4, FreedBy
    <3>. QED BY <2>1, <3>1 DEF slots
  <2>3. Gap(W, t, q) \in Int /\ Gap(W, s, q) \in Int /\ Gap(W, start, q) \in Int
    BY <2>1, GapIs
  <2>4. t % size = s % size => ~(0 < Gap(W, t, q) - Gap(W, s, q) /\ Gap(W, t, q) - Gap(W, s, q) < size)
    BY <2>1, GapSlots
  <2> HIDE DEF slots
  <2>. QED BY <2>1, <2>2, <2>3, <2>4, <1>4
<1>6. /\ e \in Buffers(N, size, V)
      /\ e.next = n
      /\ DOMAIN e.live = {t \in DOMAIN b.live : t % size \notin slots \union {s % size}} \union {s}
      /\ e.live[s] = d
      /\ \A t \in DOMAIN e.live : t # s => e.live[t] = b.live[t]
  <2> HIDE DEF slots
  <2>1. b \in Buffers(N, size, V) /\ n \in N /\ s \in N
    OBVIOUS
  <2> HIDE DEF N
  <2>. QED BY <2>1, PutFree
<1> HIDE DEF slots
<1>7. {t \in DOMAIN b.live : t % size \notin slots \union {s % size}}
         = {t \in DOMAIN b.live : Gap(W, t, q) - Gap(W, s, q) < size}
  BY <1>5
<1> HIDE DEF e
<1>8. DOMAIN e.live = {t \in DOMAIN b.live : Gap(W, t, q) - Gap(W, s, q) < size} \union {s}
  BY <1>6, <1>7
<1>9. e = Ids!SetEntry([Ids!RemoveEntries(b, b.next, s, W - 1) EXCEPT !.next = n], s, d)
  BY <1>2 DEF e
<1>. QED BY <1>6, <1>8, <1>9
-----------------------------------------------------------------------------
(***************************************************************************)
(* The inductive invariant.                                                *)
(***************************************************************************)
\* How far behind the next number to be sent: the larger, the older.
Age(y) == Ids!Distance(y, sendMessageId)
Number(k) == (packetSequence - k) % PacketWrap

Entry == {e \in [ids : Seq(Ids!Sequence), fragment : SUBSET [id : Ids!Sequence, index : Nat]] :
             \A f, g \in e.fragment : f = g}
Packet == {p \in [fate : {"flying", "processed", "done"}, data : SUBSET Data] :
             /\ p.data # {} <=> p.fate = "flying"
             /\ \A c, d \in p.data : c = d}
Block == UNION {[D -> [id : Ids!Sequence, value : Values]] : D \in SUBSET Nat}

Types ==
    /\ sendMessageId \in Ids!Sequence /\ oldestUnacked \in Ids!Sequence
    /\ receiveMessageId \in Ids!Sequence /\ packetSequence \in Packets!Sequence
    /\ sendQueue \in Buffers(Ids!Sequence, SendSize, Values)
    /\ receiveQueue \in Buffers(Ids!Sequence, ReceiveSize, Values)
    /\ sentPackets \in Buffers(Packets!Sequence, SentSize, Entry)
    /\ sendBlock \in [active : BOOLEAN, id : Ids!Sequence, acked : SUBSET Nat]
    /\ receiveBlock \in [active : BOOLEAN, id : Ids!Sequence, count : Nat, received : Block]
    /\ error \in [sender : {"none", "send queue full"}, receiver : {"none", "desync"}]
    /\ connected \in BOOLEAN
    /\ window \in Seq(Packet) /\ Len(window) <= Lifetime

\* The entry of a packet, if it is still there.
EntryOf(k) == IF Packets!Exists(sentPackets, Number(k)) THEN {sentPackets.live[Number(k)]} ELSE {}
IdsOf(d) == {d.messages[i].id : i \in DOMAIN d.messages} \union {f.id : f \in d.fragment}
Remembered(e) == Range(e.ids) \union {f.id : f \in e.fragment}
Carried(k) == (UNION {IdsOf(d) : d \in window[k].data})
    \union (IF window[k].fate = "processed" THEN UNION {Remembered(e) : e \in EntryOf(k)} ELSE {})

Received(y) == Age(y) > Age(receiveMessageId) \/ y \in DOMAIN receiveQueue.live
BlockAt(y) == y \in DOMAIN sendQueue.live /\ IsBlock(sendQueue.live[y])

\* The sending side: what is waiting lies between the oldest and the next.
SenderInv ==
    /\ sendQueue.next = sendMessageId
    /\ Age(oldestUnacked) <= SendSize
    /\ \A y \in DOMAIN sendQueue.live : 1 <= Age(y) /\ Age(y) <= Age(oldestUnacked)
    /\ oldestUnacked # sendMessageId => oldestUnacked \in DOMAIN sendQueue.live
    /\ sendBlock.active => /\ sendBlock.id = oldestUnacked /\ BlockAt(oldestUnacked)
                           /\ sendBlock.acked \subseteq 0..(Fragments[sendQueue.live[oldestUnacked]] - 1)

PacketAge(n) == Packets!Distance(n, packetSequence)
SentInv ==
    /\ PacketAge(sentPackets.next) <= MaxIdle
    /\ \A n \in DOMAIN sentPackets.live :
          PacketAge(n) - PacketAge(sentPackets.next) \in 1..SentSize

ReceiverInv ==
    /\ Age(receiveQueue.next) <= Age(receiveMessageId)
    /\ Age(receiveMessageId) <= Age(receiveQueue.next) + ReceiveSize
    /\ \A y \in DOMAIN receiveQueue.live :
          Age(receiveQueue.next) < Age(y) /\ Age(y) <= Age(receiveMessageId)

\* What was sent and not received by the application is in a queue.
TransitInv ==
    \A y \in Ids!Sequence :
        /\ 1 <= Age(y) /\ Age(y) <= Age(receiveMessageId) =>
              y \in DOMAIN receiveQueue.live \union DOMAIN sendQueue.live
        /\ y \in DOMAIN receiveQueue.live \intersect DOMAIN sendQueue.live =>
              receiveQueue.live[y] = sendQueue.live[y]

\* How old what is on its way can be.
Overtaken(x) == {y \in Ids!Sequence : 1 <= Age(y) /\ Age(y) <= Age(x) - SendSize /\ Received(y)}
Arrived(k) == {Number(j) : j \in {i \in 1..(k - 1) : window[i].fate # "flying"}}
FlightInv ==
    /\ \A k \in DOMAIN window : \A x \in Carried(k) :
          /\ 1 <= Age(x)
          /\ Cardinality(Overtaken(x)) <= MaxPerPacket * Cardinality(Arrived(k))
    /\ \A k, l \in DOMAIN window : k <= l =>
          \A x \in Carried(k), y \in Carried(l) : Age(x) - Age(y) < SendSize

\* What a message and a fragment on its way say is true.
MessageInv(m) ==
    /\ m.id \in DOMAIN sendQueue.live => sendQueue.live[m.id] = m.value
    /\ m.id \in DOMAIN receiveQueue.live => receiveQueue.live[m.id] = m.value
    /\ ~IsBlock(m.value)
    /\ \A y \in Ids!Sequence : Age(m.id) + ReceiveSize <= Age(y) => Received(y)
FragmentInv(f) ==
    /\ f.id \in DOMAIN sendQueue.live => sendQueue.live[f.id] = f.value
    /\ \A y \in Ids!Sequence : Age(f.id) < Age(y) => Received(y)
DataInv(d) ==
    /\ \A i \in DOMAIN d.messages : MessageInv(d.messages[i])
    /\ \A f \in d.fragment : FragmentInv(f)
    /\ \A x \in IdsOf(d), y \in DOMAIN sendQueue.live : BlockAt(y) => Age(y) <= Age(x)
RecordOf(d, e) ==
    /\ e.ids = [i \in DOMAIN d.messages |-> d.messages[i].id]
    /\ \A g \in e.fragment : \E f \in d.fragment : g = [id |-> f.id, index |-> f.index]
EntryInv(e) ==
    /\ \A y \in Range(e.ids) : Received(y) /\ ~BlockAt(y)
    /\ \A g \in e.fragment :
          g.id \in DOMAIN sendQueue.live => BlockAt(g.id) /\ g.index < Fragments[sendQueue.live[g.id]]
PacketInv ==
    \A k \in DOMAIN window :
        /\ \A d \in window[k].data : DataInv(d) /\ \A e \in EntryOf(k) : RecordOf(d, e)
        /\ window[k].fate = "processed" => \A e \in EntryOf(k) : EntryInv(e)

\* The fragments of y the sender has been told of, or may be.
Told(y, k) == IF window[k].fate = "processed"
              THEN {g.index : g \in {h \in UNION {e.fragment : e \in EntryOf(k)} : h.id = y}} ELSE {}
Claimed(y) == (UNION {Told(y, k) : k \in DOMAIN window})
    \union (IF sendBlock.active /\ sendBlock.id = y THEN sendBlock.acked ELSE {})
Assembling(y) == receiveBlock.active /\ receiveBlock.id = y
BlockInv ==
    /\ \A y \in Ids!Sequence : \A i \in Claimed(y) :
          Received(y) \/ (Assembling(y) /\ i \in DOMAIN receiveBlock.received)
    /\ \A y \in DOMAIN sendQueue.live : BlockAt(y) /\ ~Received(y) => Age(y) <= Age(receiveQueue.next)
    /\ receiveBlock.active =>
          /\ receiveBlock.id = receiveQueue.next /\ BlockAt(receiveBlock.id)
          /\ receiveBlock.count = Fragments[sendQueue.live[receiveBlock.id]]
          /\ DOMAIN receiveBlock.received \subseteq 0..(receiveBlock.count - 1)
          /\ error.receiver = "none" =>
                \E i \in 0..(receiveBlock.count - 1) : i \notin DOMAIN receiveBlock.received
          /\ \E i \in 0..(receiveBlock.count - 1) : i \notin Claimed(receiveBlock.id)
          /\ \A i \in DOMAIN receiveBlock.received :
                receiveBlock.received[i] = [id |-> receiveBlock.id, value |-> sendQueue.live[receiveBlock.id]]

Inv == /\ Types /\ SenderInv /\ SentInv /\ ReceiverInv /\ TransitInv /\ FlightInv
       /\ PacketInv /\ BlockInv /\ DesyncOnlyIfBehind
-----------------------------------------------------------------------------
(***************************************************************************)
(* The numbers of messages, by their age.                                  *)
(***************************************************************************)
Reach == SendSize + MaxPerPacket * (Lifetime - 1)

LEMMA Bounds ==
    /\ IdWrap \in Nat \ {0} /\ IdWrap % 2 = 0 /\ PacketWrap \in Nat \ {0} /\ PacketWrap % 2 = 0
    /\ SendSize \in Nat \ {0} /\ ReceiveSize \in Nat \ {0} /\ SentSize \in Nat \ {0}
    /\ IdWrap % SendSize = 0 /\ IdWrap % ReceiveSize = 0 /\ PacketWrap % SentSize = 0
    /\ MaxPerPacket \in Nat \ {0} /\ MaxIdle \in Nat
    /\ Lifetime \in Nat \ {0} /\ Lifetime < PacketWrap
    /\ Reach \in Nat /\ Reach >= SendSize
    /\ 2 * (SendSize + ReceiveSize) <= IdWrap
    /\ 2 * Reach < IdWrap
    /\ SendSize + Reach + 2 <= IdWrap
<1> DEFINE n == MaxPerPacket * (Lifetime - 1)
<1>1. /\ SendSize \in Nat \ {0} /\ ReceiveSize \in Nat \ {0} /\ SentSize \in Nat \ {0}
      /\ IdWrap % SendSize = 0 /\ IdWrap % ReceiveSize = 0 /\ PacketWrap % SentSize = 0
      /\ MaxPerPacket \in Nat \ {0} /\ MaxIdle \in Nat
  BY SizesAssumption
<1>2. /\ IdWrap \in Nat \ {0} /\ IdWrap % 2 = 0 /\ PacketWrap \in Nat \ {0} /\ PacketWrap % 2 = 0
      /\ Lifetime \in Nat \ {0} /\ Lifetime < PacketWrap
      /\ 2 * (SendSize + ReceiveSize) <= IdWrap
      /\ 2 * (SendSize + n) < IdWrap
      /\ 2 * SendSize + n + 2 <= IdWrap
  BY BoundsAssumption
<1>3. n \in Nat
  BY <1>1, <1>2
<1>4. Reach = SendSize + n
  BY DEF Reach
<1> HIDE DEF n
<1>. QED BY <1>1, <1>2, <1>3, <1>4

LEMMA AgeIs ==
    ASSUME sendMessageId \in Ids!Sequence, NEW y \in Ids!Sequence
    PROVE  /\ Age(y) = Gap(IdWrap, y, sendMessageId)
           /\ Age(y) \in Int /\ 0 <= Age(y) /\ Age(y) < IdWrap
           /\ Age(y) = 0 <=> y = sendMessageId
           /\ y = (sendMessageId - Age(y)) % IdWrap
<1> DEFINE q == sendMessageId
<1>1. IdWrap \in Nat \ {0} /\ q \in 0..(IdWrap - 1) /\ y \in 0..(IdWrap - 1)
  BY Bounds DEF Ids!Sequence
<1>2. Age(y) = Gap(IdWrap, y, q) /\ Gap(IdWrap, q, q) = (q - q) % IdWrap
  BY DEF Age, Ids!Distance, Gap
<1> HIDE DEF q
<1>3. /\ Gap(IdWrap, y, q) \in Int /\ 0 <= Gap(IdWrap, y, q) /\ Gap(IdWrap, y, q) < IdWrap
      /\ y = (q - Gap(IdWrap, y, q)) % IdWrap /\ Gap(IdWrap, q, q) = 0
  BY <1>1, GapIs
<1>4. Gap(IdWrap, y, q) = 0 => y = q
  BY <1>1, <1>3, OneGap DEF Gap
<1>. QED BY <1>2, <1>3, <1>4 DEF q

LEMMA OneAge ==
    ASSUME sendMessageId \in Ids!Sequence, NEW y \in Ids!Sequence, NEW z \in Ids!Sequence, Age(y) = Age(z)
    PROVE  y = z
<1>1. y = (sendMessageId - Age(y)) % IdWrap /\ z = (sendMessageId - Age(z)) % IdWrap
  BY AgeIs
<1>. QED BY <1>1

LEMMA AtAge ==
    ASSUME sendMessageId \in Ids!Sequence, NEW a \in Int, 0 <= a, a < IdWrap
    PROVE  /\ (sendMessageId - a) % IdWrap \in Ids!Sequence
           /\ Age((sendMessageId - a) % IdWrap) = a
<1>1. IdWrap \in Nat \ {0} /\ sendMessageId \in 0..(IdWrap - 1) /\ a \in 0..(IdWrap - 1)
  BY Bounds DEF Ids!Sequence
<1>2. /\ (sendMessageId - a) % IdWrap \in 0..(IdWrap - 1)
      /\ (sendMessageId - ((sendMessageId - a) % IdWrap)) % IdWrap = a
  BY <1>1, AllGaps
<1>. QED BY <1>2 DEF Age, Ids!Sequence, Ids!Distance

\* The n-th number after y.
LEMMA LaterAge ==
    ASSUME sendMessageId \in Ids!Sequence, NEW y \in Ids!Sequence, NEW n \in Int
    PROVE  /\ Ids!Later(y, n) \in Ids!Sequence
           /\ 0 <= n /\ n <= Age(y) => Age(Ids!Later(y, n)) = Age(y) - n
           /\ Age(y) < n /\ n <= IdWrap => Age(Ids!Later(y, n)) = Age(y) - n + IdWrap
<1> DEFINE z == Ids!Later(y, n)
           q == sendMessageId
           d == Age(y) - n
<1>1. IdWrap \in Nat \ {0} /\ q \in 0..(IdWrap - 1) /\ y \in 0..(IdWrap - 1)
  BY Bounds DEF Ids!Sequence
<1>2. /\ (y + n) % IdWrap \in 0..(IdWrap - 1)
      /\ (q - ((y + n) % IdWrap)) % IdWrap = (((q - y) % IdWrap) - n) % IdWrap
  BY <1>1, LaterGap
<1>3. z \in Ids!Sequence /\ Age(z) = d % IdWrap
  BY <1>2 DEF Ids!Later, Ids!Sequence, Age, Ids!Distance
<1>4. Age(y) \in Int /\ 0 <= Age(y) /\ Age(y) < IdWrap
  BY AgeIs
<1>5. /\ d \in 0..(IdWrap - 1) => d % IdWrap = d
      /\ -IdWrap <= d /\ d < 0 => d % IdWrap = d + IdWrap
  <2>1. d \in Int
    BY <1>4
  <2> HIDE DEF d
  <2>. QED BY <2>1, <1>1, Small
<1> HIDE DEF z, q
<1>6. 0 <= n /\ n <= Age(y) => Age(z) = Age(y) - n
  BY <1>1, <1>3, <1>4, <1>5
<1>7. Age(y) < n /\ n <= IdWrap => Age(z) = Age(y) - n + IdWrap
  BY <1>1, <1>3, <1>4, <1>5
<1>. QED BY <1>3, <1>6, <1>7 DEF z

LEMMA DistanceAge ==
    ASSUME sendMessageId \in Ids!Sequence, NEW y \in Ids!Sequence, NEW z \in Ids!Sequence
    PROVE  /\ Age(y) >= Age(z) => Ids!Distance(y, z) = Age(y) - Age(z)
           /\ Age(y) < Age(z) => Ids!Distance(y, z) = Age(y) - Age(z) + IdWrap
           /\ Ids!Distance(y, z) \in Int
<1> DEFINE q == sendMessageId
           d == Age(y) - Age(z)
<1>1. IdWrap \in Nat \ {0} /\ q \in 0..(IdWrap - 1) /\ y \in 0..(IdWrap - 1) /\ z \in 0..(IdWrap - 1)
  BY Bounds DEF Ids!Sequence
<1>2. (z - y) % IdWrap = (((q - y) % IdWrap) - ((q - z) % IdWrap)) % IdWrap
  BY <1>1, GapBetween
<1>3. Ids!Distance(y, z) = d % IdWrap
  BY <1>2 DEF Age, Ids!Distance
<1>4. /\ Age(y) \in Int /\ 0 <= Age(y) /\ Age(y) < IdWrap
      /\ Age(z) \in Int /\ 0 <= Age(z) /\ Age(z) < IdWrap
  BY AgeIs
<1>5. /\ d \in 0..(IdWrap - 1) => d % IdWrap = d
      /\ -IdWrap <= d /\ d < 0 => d % IdWrap = d + IdWrap
      /\ d % IdWrap \in Int
  <2>1. d \in Int
    BY <1>4
  <2> HIDE DEF d
  <2>2. d % IdWrap \in Int
    BY <2>1, <1>1, Division
  <2>. QED BY <2>1, <2>2, <1>1, Small
<1>. QED BY <1>1, <1>3, <1>4, <1>5

\* Which of two numbers is the greater, n and m numbers after y and z.
LEMMA GreaterAge ==
    ASSUME sendMessageId \in Ids!Sequence, NEW y \in Ids!Sequence, NEW z \in Ids!Sequence,
           NEW n \in Int, NEW m \in Int, NEW u, NEW v,
           u = (y + n) % IdWrap, v = (z + m) % IdWrap,
           2 * ((Age(y) - n) - (Age(z) - m)) < IdWrap, 2 * ((Age(z) - m) - (Age(y) - n)) < IdWrap
    PROVE  /\ Ids!GreaterThan(u, v) <=> Age(y) - n < Age(z) - m
           /\ Ids!LessThan(u, v) <=> Age(y) - n > Age(z) - m
<1> DEFINE q == sendMessageId
           a == (q - Age(y)) + n
           b == (q - Age(z)) + m
<1>1. IdWrap \in Nat \ {0} /\ IdWrap % 2 = 0 /\ q \in Int
  BY Bounds DEF Ids!Sequence
<1>2. Age(y) \in Int /\ Age(z) \in Int /\ y = (q - Age(y)) % IdWrap /\ z = (q - Age(z)) % IdWrap
  BY AgeIs
<1>3. a \in Int /\ b \in Int /\ a - b = (Age(z) - m) - (Age(y) - n) /\ b - a = (Age(y) - n) - (Age(z) - m)
  BY <1>1, <1>2
<1>4. u = a % IdWrap /\ v = b % IdWrap
  <2> DEFINE c == q - Age(y)
             d == q - Age(z)
  <2>1. c \in Int /\ d \in Int /\ y = c % IdWrap /\ z = d % IdWrap
    BY <1>1, <1>2
  <2>2. ((c % IdWrap) + n) % IdWrap = (c + n) % IdWrap /\ ((d % IdWrap) + m) % IdWrap = (d + m) % IdWrap
    <3> HIDE DEF c, d
    <3>. QED BY <2>1, <1>1, ModLater
  <2>. QED BY <2>1, <2>2
<1> HIDE DEF a, b
<1>5. 2 * (a - b) < IdWrap /\ 2 * (b - a) < IdWrap
  BY <1>3
<1>6. (\/ u > v /\ u - v <= IdWrap \div 2
       \/ u < v /\ v - u > IdWrap \div 2) <=> a > b
  BY <1>1, <1>3, <1>4, <1>5, ModGreater
<1>7. (\/ v > u /\ v - u <= IdWrap \div 2
       \/ v < u /\ u - v > IdWrap \div 2) <=> b > a
  <2>1. \A c, d \in Int : 2 * (c - d) < IdWrap /\ 2 * (d - c) < IdWrap =>
           LET s == c % IdWrap
               t == d % IdWrap
           IN (\/ s > t /\ s - t <= IdWrap \div 2
               \/ s < t /\ t - s > IdWrap \div 2) <=> c > d
    BY <1>1, ModGreater
  <2>. QED BY <2>1, <1>3, <1>4, <1>5
<1>8. (a > b <=> Age(y) - n < Age(z) - m) /\ (b > a <=> Age(y) - n > Age(z) - m)
  BY <1>1, <1>2, <1>3
<1>. QED BY <1>6, <1>7, <1>8 DEF Ids!GreaterThan, Ids!LessThan

LEMMA SlotAge ==
    ASSUME sendMessageId \in Ids!Sequence, NEW size \in Nat \ {0}, IdWrap % size = 0,
           NEW y \in Ids!Sequence, NEW z \in Ids!Sequence
    PROVE  /\ y % size = z % size /\ Age(y) - Age(z) < size /\ Age(z) - Age(y) < size => y = z
           /\ Age(y) - Age(z) = size => y % size = z % size
<1> DEFINE q == sendMessageId
<1>1. IdWrap \in Nat \ {0} /\ q \in 0..(IdWrap - 1) /\ y \in 0..(IdWrap - 1) /\ z \in 0..(IdWrap - 1)
  BY Bounds DEF Ids!Sequence
<1>2. Age(y) = Gap(IdWrap, y, q) /\ Age(z) = Gap(IdWrap, z, q) /\ Age(y) \in Int /\ Age(z) \in Int
  BY AgeIs
<1> HIDE DEF q
<1>3. y % size = z % size /\ Age(y) - Age(z) < size /\ Age(z) - Age(y) < size => y = z
  BY <1>1, <1>2, GapSlots
<1>4. y % size = (q - Age(y)) % size /\ z % size = (q - Age(z)) % size
  BY <1>1, <1>2, GapSlots
<1>5. ASSUME Age(y) - Age(z) = size PROVE y % size = z % size
  <2> DEFINE a == q - Age(y)
             one == 1
  <2>1. a \in Int /\ q - Age(z) = a + size * one /\ one \in Int
    BY <1>1, <1>2, <1>5
  <2> HIDE DEF a, one
  <2>2. (a + size * one) % size = a % size
    BY <2>1, Multiples
  <2>. QED BY <1>4, <2>1, <2>2 DEF a
<1>. QED BY <1>3, <1>5

\* One message more has been sent.
LEMMA Ageing ==
    ASSUME sendMessageId \in Ids!Sequence, sendMessageId' = Ids!Later(sendMessageId, 1),
           NEW y \in Ids!Sequence
    PROVE  /\ sendMessageId' \in Ids!Sequence
           /\ Age(y) < IdWrap - 1 => Age(y)' = Age(y) + 1
           /\ Age(y) = IdWrap - 1 => Age(y)' = 0
<1> DEFINE q == sendMessageId
           p == sendMessageId'
           d == Age(y) + 1
<1>1. IdWrap \in Nat \ {0} /\ q \in 0..(IdWrap - 1) /\ y \in 0..(IdWrap - 1) /\ q \in Int
  BY Bounds DEF Ids!Sequence
<1>2. p = (q + 1) % IdWrap /\ p \in 0..(IdWrap - 1)
  BY <1>1, LaterGap DEF Ids!Later
<1>3. y = y % IdWrap /\ Age(y)' = (p - y) % IdWrap
  BY <1>1, Small DEF Age, Ids!Distance
<1>4. (((q + 1) % IdWrap) - (y % IdWrap)) % IdWrap = ((q + 1) - y) % IdWrap
  <2> DEFINE c == q + 1
  <2>1. c \in Int /\ y \in Int
    BY <1>1
  <2> HIDE DEF c
  <2>2. ((c % IdWrap) - (y % IdWrap)) % IdWrap = (c - y) % IdWrap
    BY <2>1, <1>1, ModGap
  <2>. QED BY <2>2 DEF c
<1>5. (((q - y) % IdWrap) + 1) % IdWrap = ((q - y) + 1) % IdWrap
  <2> DEFINE c == q - y
             one == 1
  <2>1. c \in Int /\ one \in Int
    BY <1>1
  <2> HIDE DEF c, one
  <2>2. ((c % IdWrap) + one) % IdWrap = (c + one) % IdWrap
    BY <2>1, <1>1, ModLater
  <2>. QED BY <2>2 DEF c, one
<1>6. (q + 1) - y = (q - y) + 1
  BY <1>1
<1>7. Age(y)' = d % IdWrap
  BY <1>2, <1>3, <1>4, <1>5, <1>6 DEF Age, Ids!Distance
<1>8. Age(y) \in Int /\ 0 <= Age(y) /\ Age(y) < IdWrap
  BY AgeIs
<1>9. d \in 0..(IdWrap - 1) => d % IdWrap = d
  <2>1. d \in Int
    BY <1>8
  <2> HIDE DEF d
  <2>. QED BY <2>1, <1>1, Small
<1>10. Age(y) = IdWrap - 1 => d % IdWrap = 0
  <2> DEFINE zero == 0
             one == 1
  <2>1. zero \in Int /\ one \in Int /\ zero + IdWrap * one = IdWrap /\ zero \in 0..(IdWrap - 1)
    BY <1>1
  <2>2. (zero + IdWrap * one) % IdWrap = zero % IdWrap /\ zero % IdWrap = zero
    <3> HIDE DEF zero, one
    <3>. QED BY <2>1, <1>1, Multiples, Small
  <2>. QED BY <2>1, <2>2, <1>1, <1>8
<1>11. p \in Ids!Sequence
  BY <1>2 DEF Ids!Sequence
<1> HIDE DEF p
<1>. QED BY <1>1, <1>7, <1>8, <1>9, <1>10, <1>11 DEF p
-----------------------------------------------------------------------------
(***************************************************************************)
(* What is in the variables.                                               *)
(***************************************************************************)
Message == [id : Ids!Sequence, value : Values]
Fragment == [id : Ids!Sequence, value : Values, index : Nat]

LEMMA Typed ==
    ASSUME Types
    PROVE  /\ sendMessageId \in Ids!Sequence /\ oldestUnacked \in Ids!Sequence
           /\ receiveMessageId \in Ids!Sequence /\ packetSequence \in Packets!Sequence
           /\ sendQueue \in Buffers(Ids!Sequence, SendSize, Values)
           /\ receiveQueue \in Buffers(Ids!Sequence, ReceiveSize, Values)
           /\ sentPackets \in Buffers(Packets!Sequence, SentSize, Entry)
           /\ sendQueue.next \in Ids!Sequence /\ receiveQueue.next \in Ids!Sequence
           /\ sentPackets.next \in Packets!Sequence
           /\ DOMAIN sendQueue.live \subseteq Ids!Sequence /\ DOMAIN receiveQueue.live \subseteq Ids!Sequence
           /\ DOMAIN sentPackets.live \subseteq Packets!Sequence
           /\ \A y \in DOMAIN sendQueue.live : sendQueue.live[y] \in Values
           /\ \A y \in DOMAIN receiveQueue.live : receiveQueue.live[y] \in Values
           /\ \A n \in DOMAIN sentPackets.live : sentPackets.live[n] \in Entry
           /\ sendQueue.size = SendSize /\ receiveQueue.size = ReceiveSize /\ sentPackets.size = SentSize
           /\ window \in Seq(Packet) /\ Len(window) \in Nat /\ Len(window) <= Lifetime
           /\ DOMAIN window = 1..Len(window)
           /\ \A k \in DOMAIN window : window[k] \in Packet
<1>1. /\ sendMessageId \in Ids!Sequence /\ oldestUnacked \in Ids!Sequence
      /\ receiveMessageId \in Ids!Sequence /\ packetSequence \in Packets!Sequence
      /\ sendQueue \in Buffers(Ids!Sequence, SendSize, Values)
      /\ receiveQueue \in Buffers(Ids!Sequence, ReceiveSize, Values)
      /\ sentPackets \in Buffers(Packets!Sequence, SentSize, Entry)
      /\ window \in Seq(Packet) /\ Len(window) <= Lifetime
  BY DEF Types
<1>2. /\ sendQueue.next \in Ids!Sequence /\ DOMAIN sendQueue.live \subseteq Ids!Sequence
      /\ \A y \in DOMAIN sendQueue.live : sendQueue.live[y] \in Values
      /\ sendQueue.size = SendSize
  BY <1>1, BufferIs
<1>3. /\ receiveQueue.next \in Ids!Sequence /\ DOMAIN receiveQueue.live \subseteq Ids!Sequence
      /\ \A y \in DOMAIN receiveQueue.live : receiveQueue.live[y] \in Values
      /\ receiveQueue.size = ReceiveSize
  BY <1>1, BufferIs
<1>4. /\ sentPackets.next \in Packets!Sequence /\ DOMAIN sentPackets.live \subseteq Packets!Sequence
      /\ \A n \in DOMAIN sentPackets.live : sentPackets.live[n] \in Entry
      /\ sentPackets.size = SentSize
  BY <1>1, BufferIs
<1>5. Len(window) \in Nat /\ DOMAIN window = 1..Len(window) /\ \A k \in DOMAIN window : window[k] \in Packet
  BY <1>1
<1>. QED BY <1>1, <1>2, <1>3, <1>4, <1>5

\* A packet carries messages, or one fragment, or nothing.
LEMMA DataIs ==
    ASSUME NEW d \in Data
    PROVE  /\ d.messages \in Seq(Message) /\ Len(d.messages) \in 0..MaxPerPacket
           /\ DOMAIN d.messages = 1..Len(d.messages)
           /\ d.fragment \subseteq Fragment
           /\ d.fragment = {} \/ (d.messages = <<>> /\ \E f \in Fragment :
                 /\ d.fragment = {f} /\ f.index < Fragments[f.value] /\ IsBlock(f.value))
<1> DEFINE B == {WithMessages(m) : m \in BoundedSeq([id : Ids!Sequence, value : Values], MaxPerPacket)}
           C == UNION {{WithFragment(id, v, i) : id \in Ids!Sequence, i \in 0..(Fragments[v] - 1)} : v \in Values}
           P == /\ d.messages \in Seq(Message) /\ Len(d.messages) \in 0..MaxPerPacket
                /\ DOMAIN d.messages = 1..Len(d.messages)
                /\ d.fragment \subseteq Fragment
                /\ d.fragment = {} \/ (d.messages = <<>> /\ \E f \in Fragment :
                      /\ d.fragment = {f} /\ f.index < Fragments[f.value] /\ IsBlock(f.value))
<1>0. MaxPerPacket \in Nat /\ Fragments \in [Values -> Nat]
  BY Bounds, ValuesAssumption
<1>1. ASSUME d = Empty PROVE P
  BY <1>1, <1>0 DEF Empty
<1>2. ASSUME d \in B PROVE P
  <2>1. PICK m \in BoundedSeq(Message, MaxPerPacket) : d = WithMessages(m)
    BY <1>2 DEF Message
  <2>2. PICK n \in 0..MaxPerPacket : m \in [1..n -> Message]
    BY <2>1 DEF BoundedSeq, SeqOf
  <2>3. m \in Seq(Message) /\ Len(m) = n /\ DOMAIN m = 1..n
    BY <2>2
  <2>4. d.messages = m /\ d.fragment = {}
    BY <2>1 DEF WithMessages
  <2>. QED BY <2>3, <2>4
<1>3. ASSUME d \in C PROVE P
  <2>0. PICK v \in Values : d \in {WithFragment(id, v, i) : id \in Ids!Sequence, i \in 0..(Fragments[v] - 1)}
    BY <1>3
  <2>1. PICK id \in Ids!Sequence, i \in 0..(Fragments[v] - 1) : d = WithFragment(id, v, i)
    BY <2>0
  <2> DEFINE f == [id |-> id, value |-> v, index |-> i]
  <2>2. Fragments[v] \in Nat /\ i \in Nat /\ i < Fragments[v]
    BY <1>0, <2>1
  <2>3. f \in Fragment /\ f.index = i /\ f.value = v
    BY <2>2 DEF Fragment
  <2>4. d.messages = <<>> /\ d.fragment = {f}
    BY <2>1 DEF WithFragment
  <2>5. IsBlock(v)
    BY <2>2 DEF IsBlock
  <2> HIDE DEF f
  <2>6. d.messages \in Seq(Message) /\ Len(d.messages) = 0 /\ DOMAIN d.messages = 1..0
    BY <2>4
  <2>. QED BY <2>2, <2>3, <2>4, <2>5, <2>6, <1>0
<1>4. Data = {Empty} \union B \union C
  BY DEF Data
<1> HIDE DEF B, C
<1>5. d = Empty \/ d \in B \/ d \in C
  BY <1>4
<1>6. P
  <2> HIDE DEF P
  <2>. QED BY <1>1, <1>2, <1>3, <1>5
<1>. QED BY <1>6

LEMMA PacketIs ==
    ASSUME NEW p \in Packet
    PROVE  /\ p.fate \in {"flying", "processed", "done"} /\ p.data \subseteq Data
           /\ p.data # {} <=> p.fate = "flying"
           /\ \A c, d \in p.data : c = d
  BY DEF Packet

\* The numbers of the packets in the window, which stay as they are.
LEMMA NumberIs ==
    ASSUME packetSequence \in Packets!Sequence, NEW k \in 1..Lifetime
    PROVE  /\ Number(k) \in Packets!Sequence
           /\ PacketAge(Number(k)) = k
           /\ Number(k) # packetSequence
           /\ \A j \in 1..Lifetime : Number(j) = Number(k) => j = k
<1> DEFINE q == packetSequence
<1>1. PacketWrap \in Nat \ {0} /\ q \in 0..(PacketWrap - 1) /\ Lifetime \in Nat /\ Lifetime < PacketWrap
  BY Bounds DEF Packets!Sequence
<1>2. ASSUME NEW j \in 1..Lifetime
      PROVE  Number(j) \in Packets!Sequence /\ PacketAge(Number(j)) = j
  <2>1. j \in 0..(PacketWrap - 1)
    BY <1>1
  <2>2. (q - j) % PacketWrap \in 0..(PacketWrap - 1) /\ (q - ((q - j) % PacketWrap)) % PacketWrap = j
    BY <1>1, <2>1, AllGaps
  <2>. QED BY <2>2 DEF Number, PacketAge, Packets!Distance, Packets!Sequence
<1>3. (q - q) % PacketWrap = 0
  BY <1>1, Before
<1>4. PacketAge(q) = 0
  BY <1>3 DEF PacketAge, Packets!Distance
<1>. QED BY <1>2, <1>4

LEMMA NumberMoves ==
    ASSUME packetSequence \in Packets!Sequence, packetSequence' = Packets!Later(packetSequence, 1)
    PROVE  /\ packetSequence' \in Packets!Sequence
           /\ Number(1)' = packetSequence
           /\ \A k \in Int : Number(k)' = Number(k - 1)
<1> DEFINE q == packetSequence
           one == 1
<1>1. PacketWrap \in Nat \ {0} /\ q \in 0..(PacketWrap - 1) /\ q \in Int /\ one \in Int
  BY Bounds DEF Packets!Sequence
<1>2. packetSequence' = (q + one) % PacketWrap
  BY DEF Packets!Later
<1>3. packetSequence' \in Packets!Sequence
  <2> DEFINE s == q + one
  <2>1. s \in Int
    BY <1>1
  <2> HIDE DEF s
  <2>2. s % PacketWrap \in 0..(PacketWrap - 1)
    BY <2>1, <1>1, Division
  <2>. QED BY <2>2, <1>2 DEF s, Packets!Sequence
<1>4. ASSUME NEW k \in Int PROVE (packetSequence' - k) % PacketWrap = (q - (k - 1)) % PacketWrap
  <2> DEFINE s == q + one
             m == -k
  <2>1. s \in Int /\ m \in Int /\ s + m = q - (k - 1)
    BY <1>1
  <2>2. ((s % PacketWrap) + m) % PacketWrap = (s + m) % PacketWrap
    <3> HIDE DEF s, m
    <3>. QED BY <2>1, <1>1, ModLater
  <2>3. s % PacketWrap \in Int
    <3> HIDE DEF s
    <3>. QED BY <2>1, <1>1, Division
  <2>4. packetSequence' - k = (s % PacketWrap) + m
    BY <1>2, <2>3
  <2>. QED BY <2>1, <2>2, <2>4
<1>5. \A k \in Int : Number(k)' = Number(k - 1)
  BY <1>4 DEF Number
<1>6. Number(0) = packetSequence
  <2>1. q % PacketWrap = q /\ q - 0 = q
    BY <1>1, Small
  <2>. QED BY <2>1 DEF Number
<1>. QED BY <1>3, <1>5, <1>6

LEMMA EntryOfIs ==
    ASSUME Types, NEW k, NEW e \in EntryOf(k)
    PROVE  /\ e \in Entry /\ e.ids \in Seq(Ids!Sequence) /\ e.fragment \subseteq [id : Ids!Sequence, index : Nat]
           /\ \A f, g \in e.fragment : f = g
           /\ Remembered(e) \subseteq Ids!Sequence
           /\ \A f \in EntryOf(k) : f = e
<1>1. Number(k) \in DOMAIN sentPackets.live /\ e = sentPackets.live[Number(k)] /\ \A f \in EntryOf(k) : f = e
  BY DEF EntryOf, Packets!Exists
<1>2. e \in Entry
  BY <1>1, Typed
<1>3. /\ e.ids \in Seq(Ids!Sequence) /\ e.fragment \subseteq [id : Ids!Sequence, index : Nat]
      /\ \A f, g \in e.fragment : f = g
  BY <1>2 DEF Entry
<1>4. Range(e.ids) \subseteq Ids!Sequence
  BY <1>3 DEF Range
<1>5. {f.id : f \in e.fragment} \subseteq Ids!Sequence
  BY <1>3
<1>. QED BY <1>1, <1>2, <1>3, <1>4, <1>5 DEF Remembered
-----------------------------------------------------------------------------
(***************************************************************************)
(* What follows from the invariant.                                        *)
(***************************************************************************)
LEMMA Times == ASSUME NEW m \in Nat, NEW a \in Int, NEW b \in Int, a <= b PROVE m * a <= m * b
<1> DEFINE d == b - a
<1>1. d \in Nat /\ b = a + d
  OBVIOUS
<1> HIDE DEF d
<1>2. m * d \in Nat
  BY <1>1
<1>3. m * b = m * a + m * d
  BY <1>1
<1>4. m * a \in Int
  OBVIOUS
<1>. QED BY <1>2, <1>3, <1>4

LEMMA FiniteIds == IsFiniteSet(Ids!Sequence)
<1>1. 0 \in Int /\ IdWrap - 1 \in Int
  BY Bounds
<1>. QED BY <1>1, FS_Interval DEF Ids!Sequence

\* The ages of as many numbers as there are between two ages.
LEMMA Counting ==
    ASSUME sendMessageId \in Ids!Sequence, NEW D \in SUBSET Ids!Sequence,
           NEW a \in Nat, NEW c \in Int, a <= c, c < IdWrap,
           \A y \in Ids!Sequence : a < Age(y) /\ Age(y) <= c => y \in D
    PROVE  c - a <= Cardinality(D)
<1> DEFINE I == (a + 1)..c
           f == [i \in I |-> (sendMessageId - i) % IdWrap]
<1>1. ASSUME NEW i \in I PROVE f[i] \in D /\ Age(f[i]) = i
  <2>1. i \in Int /\ 0 <= i /\ i < IdWrap /\ a < i /\ i <= c
    BY Bounds
  <2>2. (sendMessageId - i) % IdWrap \in Ids!Sequence /\ Age((sendMessageId - i) % IdWrap) = i
    BY <2>1, AtAge
  <2>. QED BY <2>1, <2>2
<1>2. f \in [I -> D]
  BY <1>1
<1>3. \A i, j \in I : f[i] = f[j] => i = j
  <2> HIDE DEF f
  <2>. QED BY <1>1
<1> HIDE DEF f, I
<1>4. f \in Injection(I, D)
  BY <1>2, <1>3 DEF Injection, IsInjective
<1>5. IsFiniteSet(D)
  BY FiniteIds, FS_Subset
<1>6. Cardinality(I) <= Cardinality(D)
  BY <1>4, <1>5, FS_Injection
<1>7. Cardinality(I) = IF a + 1 > c THEN 0 ELSE c - (a + 1) + 1
  BY FS_Interval DEF I
<1>8. Cardinality(D) \in Nat
  BY <1>5, FS_CardinalityType
<1>. QED BY <1>6, <1>7, <1>8

LEMMA ArrivedIs ==
    ASSUME Types, NEW k \in DOMAIN window
    PROVE  /\ IsFiniteSet(Arrived(k)) /\ Cardinality(Arrived(k)) \in Nat
           /\ Cardinality(Arrived(k)) <= Lifetime - 1
<1> DEFINE J == {i \in 1..(k - 1) : window[i].fate # "flying"}
           f == [j \in J |-> Number(j)]
<1>1. k \in Nat /\ k >= 1 /\ k <= Lifetime /\ Lifetime \in Nat
  BY Typed, Bounds
<1>2. IsFiniteSet(1..(k - 1)) /\ Cardinality(1..(k - 1)) = k - 1
  <2>1. 1 \in Int /\ k - 1 \in Int /\ (1 > k - 1 => k = 1)
    BY <1>1
  <2>2. IsFiniteSet(1..(k - 1)) /\ Cardinality(1..(k - 1)) = IF 1 > k - 1 THEN 0 ELSE (k - 1) - 1 + 1
    BY <2>1, FS_Interval
  <2>. QED BY <2>1, <2>2, <1>1
<1>3. J \subseteq 1..(k - 1)
  OBVIOUS
<1>4. Arrived(k) = {Number(j) : j \in J}
  BY DEF Arrived
<1> HIDE DEF J
<1>5. IsFiniteSet(J) /\ Cardinality(J) <= k - 1
  BY <1>2, <1>3, FS_Subset
<1>6. f \in Surjection(J, Arrived(k))
  BY <1>4 DEF Surjection
<1>7. IsFiniteSet(Arrived(k)) /\ Cardinality(Arrived(k)) <= Cardinality(J)
  <2> HIDE DEF f
  <2>. QED BY <1>5, <1>6, FS_Surjection
<1>8. Cardinality(Arrived(k)) \in Nat /\ Cardinality(J) \in Nat
  BY <1>5, <1>7, FS_CardinalityType
<1>. QED BY <1>1, <1>5, <1>7, <1>8

LEMMA IdsOfIs ==
    ASSUME NEW d \in Data
    PROVE  /\ IdsOf(d) \subseteq Ids!Sequence
           /\ IsFiniteSet(IdsOf(d)) /\ Cardinality(IdsOf(d)) \in Nat
           /\ Cardinality(IdsOf(d)) <= MaxPerPacket
<1>1. /\ d.messages \in Seq(Message) /\ Len(d.messages) \in 0..MaxPerPacket
      /\ DOMAIN d.messages = 1..Len(d.messages)
      /\ d.fragment \subseteq Fragment
      /\ d.fragment = {} \/ (d.messages = <<>> /\ \E f \in Fragment : d.fragment = {f})
  BY DataIs
<1>2. MaxPerPacket \in Nat \ {0}
  BY Bounds
<1>3. CASE d.fragment = {}
  <2> DEFINE I == 1..Len(d.messages)
             f == [i \in I |-> d.messages[i].id]
  <2>1. IdsOf(d) = {d.messages[i].id : i \in I}
    BY <1>1, <1>3 DEF IdsOf
  <2>2. \A i \in I : d.messages[i] \in Message
    BY <1>1
  <2>3. IdsOf(d) \subseteq Ids!Sequence
    BY <2>1, <2>2 DEF Message
  <2>4. IsFiniteSet(I) /\ Cardinality(I) = Len(d.messages)
    <3>1. Len(d.messages) \in Nat
      BY <1>1
    <3>. QED BY <3>1, FS_Interval
  <2>5. f \in Surjection(I, IdsOf(d))
    BY <2>1 DEF Surjection
  <2>6. IsFiniteSet(IdsOf(d)) /\ Cardinality(IdsOf(d)) <= Len(d.messages)
    <3> HIDE DEF f, I
    <3>. QED BY <2>4, <2>5, FS_Surjection
  <2>7. Cardinality(IdsOf(d)) \in Nat
    BY <2>6, FS_CardinalityType
  <2>. QED BY <2>3, <2>6, <2>7, <1>1, <1>2
<1>4. CASE d.messages = <<>> /\ \E f \in Fragment : d.fragment = {f}
  <2>1. PICK f \in Fragment : d.fragment = {f}
    BY <1>4
  <2>2. IdsOf(d) = {f.id}
    BY <1>4, <2>1 DEF IdsOf
  <2>3. f.id \in Ids!Sequence
    BY DEF Fragment
  <2>4. IsFiniteSet({f.id}) /\ Cardinality({f.id}) = 1
    BY FS_Singleton
  <2>. QED BY <2>2, <2>3, <2>4, <1>2
<1>. QED BY <1>1, <1>3, <1>4

LEMMA CarriedIs ==
    ASSUME Types, NEW k \in DOMAIN window
    PROVE  /\ Carried(k) \subseteq Ids!Sequence
           /\ \A d \in window[k].data : d \in Data /\ IdsOf(d) \subseteq Carried(k)
           /\ \A e \in EntryOf(k) : window[k].fate = "processed" => Remembered(e) \subseteq Carried(k)
<1>1. window[k] \in Packet
  BY Typed
<1>2. window[k].data \subseteq Data
  BY <1>1, PacketIs
<1>3. \A d \in window[k].data : IdsOf(d) \subseteq Ids!Sequence
  BY <1>2, IdsOfIs
<1>4. \A e \in EntryOf(k) : Remembered(e) \subseteq Ids!Sequence
  BY EntryOfIs
<1>5. UNION {IdsOf(d) : d \in window[k].data} \subseteq Ids!Sequence
  BY <1>3
<1>6. UNION {Remembered(e) : e \in EntryOf(k)} \subseteq Ids!Sequence
  BY <1>4
<1>7. Carried(k) \subseteq Ids!Sequence
  BY <1>5, <1>6 DEF Carried
<1>8. \A d \in window[k].data : IdsOf(d) \subseteq Carried(k)
  BY DEF Carried
<1>9. \A e \in EntryOf(k) : window[k].fate = "processed" => Remembered(e) \subseteq Carried(k)
  BY DEF Carried
<1>. QED BY <1>2, <1>7, <1>8, <1>9

\* How far the receiver is behind.
LEMMA Behind ==
    ASSUME Types, SenderInv, ReceiverInv, TransitInv
    PROVE  /\ Age(receiveQueue.next) <= Age(oldestUnacked) /\ Age(oldestUnacked) <= SendSize
           /\ Age(receiveMessageId) <= SendSize + ReceiveSize
           /\ Age(receiveMessageId) \in Int /\ 0 <= Age(receiveMessageId)
           /\ Age(oldestUnacked) \in Int /\ 0 <= Age(oldestUnacked)
           /\ Age(receiveQueue.next) \in Int /\ 0 <= Age(receiveQueue.next)
           /\ Age(receiveQueue.next) <= Age(receiveMessageId)
           /\ Age(receiveMessageId) <= Age(receiveQueue.next) + ReceiveSize
<1>1. /\ sendMessageId \in Ids!Sequence /\ oldestUnacked \in Ids!Sequence
      /\ receiveMessageId \in Ids!Sequence /\ receiveQueue.next \in Ids!Sequence
      /\ SendSize \in Nat /\ ReceiveSize \in Nat
  BY Typed, Bounds
<1>2. /\ Age(receiveMessageId) \in Int /\ 0 <= Age(receiveMessageId)
      /\ Age(oldestUnacked) \in Int /\ 0 <= Age(oldestUnacked)
      /\ Age(receiveQueue.next) \in Int /\ 0 <= Age(receiveQueue.next)
  BY <1>1, AgeIs
<1>3. /\ Age(oldestUnacked) <= SendSize
      /\ Age(receiveQueue.next) <= Age(receiveMessageId)
      /\ Age(receiveMessageId) <= Age(receiveQueue.next) + ReceiveSize
  BY DEF SenderInv, ReceiverInv
<1>4. Age(receiveQueue.next) <= Age(oldestUnacked)
  <2>1. CASE Age(receiveQueue.next) = 0
    BY <2>1, <1>2
  <2>2. CASE 1 <= Age(receiveQueue.next)
    <3>1. receiveQueue.next \notin DOMAIN receiveQueue.live
      BY <1>2 DEF ReceiverInv
    <3>2. receiveQueue.next \in DOMAIN sendQueue.live
      BY <3>1, <2>2, <1>1, <1>3 DEF TransitInv
    <3>. QED BY <3>2 DEF SenderInv
  <2>. QED BY <2>1, <2>2, <1>2
<1>. QED BY <1>1, <1>2, <1>3, <1>4

\* What is older than the oldest unacknowledged has arrived, and what has not is in the send queue.
LEMMA OldReceived ==
    ASSUME Types, SenderInv, ReceiverInv, TransitInv, NEW y \in Ids!Sequence
    PROVE  /\ Age(oldestUnacked) < Age(y) => Received(y)
           /\ 1 <= Age(y) /\ ~Received(y) => y \in DOMAIN sendQueue.live
<1>1. Age(y) \in Int /\ Age(receiveMessageId) \in Int /\ Age(oldestUnacked) \in Int /\ 0 <= Age(oldestUnacked)
  BY Typed, AgeIs
<1>2. 1 <= Age(y) /\ ~Received(y) => y \in DOMAIN sendQueue.live
  BY <1>1 DEF Received, TransitInv
<1>3. y \in DOMAIN sendQueue.live => Age(y) <= Age(oldestUnacked)
  BY DEF SenderInv
<1>. QED BY <1>1, <1>2, <1>3

\* What is on its way is never so old that its number has come round again.
LEMMA FlightAge ==
    ASSUME Types, SenderInv, ReceiverInv, TransitInv, FlightInv, NEW k \in DOMAIN window, NEW x \in Carried(k)
    PROVE  /\ x \in Ids!Sequence /\ Age(x) \in Int /\ 1 <= Age(x)
           /\ Age(x) <= Age(receiveMessageId) + Reach /\ Age(x) <= Age(oldestUnacked) + Reach
           /\ Age(x) < IdWrap - 1
<1> DEFINE D == Overtaken(x)
           c == Age(x) - SendSize
           m == MaxPerPacket * (Lifetime - 1)
<1>1. /\ sendMessageId \in Ids!Sequence /\ x \in Ids!Sequence
  BY Typed, CarriedIs
<1>2. Age(x) \in Int /\ 1 <= Age(x) /\ Age(x) < IdWrap
  BY <1>1, AgeIs DEF FlightInv
<1>3. /\ Age(receiveMessageId) \in Nat /\ Age(oldestUnacked) \in Nat /\ Age(oldestUnacked) <= SendSize
  BY Behind
<1>4. /\ SendSize \in Nat \ {0} /\ MaxPerPacket \in Nat /\ Lifetime \in Nat \ {0} /\ IdWrap \in Nat
      /\ Reach = SendSize + m /\ SendSize + Reach + 2 <= IdWrap /\ Reach \in Nat
      /\ m \in Int /\ Reach >= SendSize
  BY Bounds DEF Reach
<1>5. Cardinality(D) <= m
  <2>1. Cardinality(D) <= MaxPerPacket * Cardinality(Arrived(k))
    BY DEF FlightInv
  <2>2. Cardinality(Arrived(k)) \in Int /\ Cardinality(Arrived(k)) <= Lifetime - 1
    BY ArrivedIs
  <2>3. MaxPerPacket * Cardinality(Arrived(k)) <= m
    BY <2>2, <1>4, Times
  <2>4. Cardinality(D) \in Nat
    <3>1. D \subseteq Ids!Sequence
      BY DEF Overtaken
    <3>. QED BY <3>1, FiniteIds, FS_Subset, FS_CardinalityType
  <2>. QED BY <2>1, <2>2, <2>3, <2>4, <1>4
<1>6. D \in SUBSET Ids!Sequence /\ Cardinality(D) \in Nat
  <2>1. D \subseteq Ids!Sequence
    BY DEF Overtaken
  <2>. QED BY <2>1, FiniteIds, FS_Subset, FS_CardinalityType
<1>7. ASSUME NEW a \in Nat, \A y \in Ids!Sequence : a < Age(y) => Received(y) PROVE Age(x) <= a + Reach
  <2>1. CASE a <= c
    <3>1. \A y \in Ids!Sequence : a < Age(y) /\ Age(y) <= c => y \in D
      <4>. TAKE y \in Ids!Sequence
      <4>. HAVE a < Age(y) /\ Age(y) <= c
      <4>1. Age(y) \in Int
        BY <1>1, AgeIs
      <4>. QED BY <4>1, <1>7 DEF Overtaken
    <3>2. c \in Int /\ c < IdWrap
      BY <1>2, <1>4
    <3>3. c - a <= Cardinality(D)
      <4> HIDE DEF c, D
      <4>. QED BY <1>1, <1>6, <2>1, <3>1, <3>2, Counting
    <3> HIDE DEF D, m
    <3>. QED BY <3>3, <1>2, <1>4, <1>5, <1>6
  <2>2. CASE ~(a <= c)
    <3> HIDE DEF m
    <3>. QED BY <2>2, <1>2, <1>4
  <2>. QED BY <2>1, <2>2
<1>8. Age(x) <= Age(receiveMessageId) + Reach
  <2>1. \A y \in Ids!Sequence : Age(receiveMessageId) < Age(y) => Received(y)
    <3>. TAKE y \in Ids!Sequence
    <3>1. Age(y) \in Int
      BY <1>1, AgeIs
    <3>. QED BY <3>1, <1>3 DEF Received
  <2>. QED BY <2>1, <1>3, <1>7
<1>9. Age(x) <= Age(oldestUnacked) + Reach
  <2>1. \A y \in Ids!Sequence : Age(oldestUnacked) < Age(y) => Received(y)
    BY OldReceived
  <2>. QED BY <2>1, <1>3, <1>7
<1> HIDE DEF c, D, m
<1>. QED BY <1>1, <1>2, <1>3, <1>4, <1>8, <1>9
-----------------------------------------------------------------------------
(***************************************************************************)
(* A packet is sent.                                                       *)
(***************************************************************************)
\* Messages are sent often enough for the entries of their packets.
Busy == 2 * (MaxIdle + 1) < PacketWrap /\ MaxIdle + SentSize < PacketWrap

LEMMA PacketAgeIs ==
    ASSUME packetSequence \in Packets!Sequence, NEW n \in Packets!Sequence
    PROVE  /\ PacketAge(n) = Gap(PacketWrap, n, packetSequence)
           /\ PacketAge(n) \in Int /\ 0 <= PacketAge(n) /\ PacketAge(n) < PacketWrap
           /\ PacketAge(packetSequence) = 0
           /\ n = (packetSequence - PacketAge(n)) % PacketWrap
<1>1. PacketWrap \in Nat \ {0} /\ packetSequence \in 0..(PacketWrap - 1) /\ n \in 0..(PacketWrap - 1)
  BY Bounds DEF Packets!Sequence
<1>2. /\ PacketAge(n) = Gap(PacketWrap, n, packetSequence)
      /\ PacketAge(packetSequence) = Gap(PacketWrap, packetSequence, packetSequence)
  BY DEF PacketAge, Packets!Distance, Gap
<1>. QED BY <1>1, <1>2, GapIs

LEMMA PacketAgeing ==
    ASSUME packetSequence \in Packets!Sequence, packetSequence' = Packets!Later(packetSequence, 1),
           NEW n \in Packets!Sequence, PacketAge(n) < PacketWrap - 1
    PROVE  PacketAge(n)' = PacketAge(n) + 1
<1> DEFINE q == packetSequence
           d == PacketAge(n) + 1
           c == q + 1
           e == q - n
           one == 1
<1>1. PacketWrap \in Nat \ {0} /\ q \in 0..(PacketWrap - 1) /\ n \in 0..(PacketWrap - 1) /\ q \in Int
  BY Bounds DEF Packets!Sequence
<1>2. packetSequence' = c % PacketWrap /\ PacketAge(n)' = (packetSequence' - n) % PacketWrap
      /\ PacketAge(n) = e % PacketWrap
  BY DEF Packets!Later, PacketAge, Packets!Distance
<1>3. n = n % PacketWrap
  BY <1>1, Small
<1>4. c \in Int /\ n \in Int /\ e \in Int /\ one \in Int /\ c - n = e + one
  BY <1>1
<1>5. PacketAge(n) \in Int /\ 0 <= PacketAge(n)
  BY PacketAgeIs
<1>6. d \in 0..(PacketWrap - 1) /\ d \in Int /\ d = PacketAge(n) + one
  BY <1>1, <1>5
<1> HIDE DEF c, d, e, one
<1>7. ((c % PacketWrap) - (n % PacketWrap)) % PacketWrap = (c - n) % PacketWrap
  BY <1>1, <1>4, ModGap
<1>8. ((e % PacketWrap) + one) % PacketWrap = (e + one) % PacketWrap
  BY <1>1, <1>4, ModLater
<1>9. d % PacketWrap = d
  BY <1>1, <1>6, Small
<1>10. PacketAge(n)' = (c - n) % PacketWrap
  BY <1>2, <1>3, <1>7
<1>11. d % PacketWrap = (e + one) % PacketWrap
  BY <1>2, <1>6, <1>8
<1>. QED BY <1>4, <1>6, <1>9, <1>10, <1>11 DEF d

\* The window after a packet with d was sent.
LEMMA Sent ==
    ASSUME Types, NEW d \in Data, Service!SendPacket(d)
    PROVE  /\ window' \in Seq(Packet) /\ Len(window') <= Lifetime
           /\ 1 \in DOMAIN window'
           /\ window'[1] = [fate |-> "flying", data |-> {d}]
           /\ \A k \in DOMAIN window' : k # 1 => /\ k - 1 \in DOMAIN window /\ k \in Int
                                                 /\ window'[k] = window[k - 1]
<1> DEFINE packet == [fate |-> "flying", data |-> {d}]
           longer == <<packet>> \o window
           kept == SubSeq(longer, 1, IF Len(window) < Lifetime THEN Len(window) + 1 ELSE Lifetime)
<1>1. packet \in Packet
  BY DEF Packet
<1>2. window \in Seq(Packet) /\ Len(window) \in Nat /\ DOMAIN window = 1..Len(window) /\ Len(window) <= Lifetime
      /\ Lifetime \in Nat \ {0}
  BY Typed, Bounds
<1>3. window' = kept
  BY DEF Service!SendPacket, Service!Flying
<1> HIDE DEF packet
<1>4. /\ longer \in Seq(Packet) /\ Len(longer) = Len(window) + 1 /\ longer[1] = packet
      /\ \A k \in 2..(Len(window) + 1) : longer[k] = window[k - 1]
  BY <1>1, <1>2
<1> HIDE DEF longer
<1>5. /\ kept \in Seq(Packet) /\ Len(kept) <= Lifetime /\ Len(kept) \in Nat /\ Len(kept) >= 1
      /\ Len(kept) <= Len(window) + 1
      /\ \A k \in 1..Len(kept) : kept[k] = longer[k]
  <2>1. CASE Len(window) < Lifetime
    BY <2>1, <1>2, <1>4
  <2>2. CASE ~(Len(window) < Lifetime)
    BY <2>2, <1>2, <1>4
  <2>. QED BY <2>1, <2>2
<1> HIDE DEF kept
<1>6. DOMAIN kept = 1..Len(kept)
  BY <1>5
<1>7. ASSUME NEW k \in 1..Len(kept), k # 1
      PROVE  k - 1 \in 1..Len(window) /\ kept[k] = window[k - 1]
  <2>1. k \in 2..(Len(window) + 1) /\ k - 1 \in 1..Len(window)
    BY <1>7, <1>2, <1>5
  <2>. QED BY <2>1, <1>4, <1>5
<1>8. 1 \in 1..Len(kept)
  BY <1>5
<1>. QED BY <1>2, <1>3, <1>4, <1>5, <1>6, <1>7, <1>8 DEF packet

\* The entry put into the buffer of sent packets.
LEMMA Entered ==
    ASSUME Types, SentInv, Busy, NEW entry \in Entry,
           sentPackets' = Packets!Insert(sentPackets, packetSequence, entry, Lap(PacketWrap)),
           packetSequence' = Packets!Later(packetSequence, 1)
    PROVE  /\ sentPackets' \in Buffers(Packets!Sequence, SentSize, Entry)
           /\ sentPackets'.next = packetSequence'
           /\ DOMAIN sentPackets'.live = {n \in DOMAIN sentPackets.live : PacketAge(n) < SentSize}
                                            \union {packetSequence}
           /\ sentPackets'.live[packetSequence] = entry
           /\ \A n \in DOMAIN sentPackets'.live :
                 n # packetSequence => sentPackets'.live[n] = sentPackets.live[n]
<1> DEFINE b == sentPackets
           W == PacketWrap
           q == packetSequence
           p == packetSequence'
           c == Packets!SetEntry([Packets!RemoveEntries(b, b.next, q, W - 1) EXCEPT !.next = p], q, entry)
<1>1. /\ W \in Nat \ {0} /\ W % 2 = 0 /\ SentSize \in Nat \ {0} /\ W % SentSize = 0 /\ MaxIdle \in Nat
      /\ q \in 0..(W - 1) /\ b.next \in 0..(W - 1) /\ b \in Buffers(0..(W - 1), SentSize, Entry)
      /\ DOMAIN b.live \subseteq 0..(W - 1) /\ Packets!Sequence = 0..(W - 1)
  BY Typed, Bounds DEF Packets!Sequence
<1>2. p \in 0..(W - 1)
  BY NumberMoves, Typed DEF Packets!Sequence
<1>3. /\ \A n \in 0..(W - 1) : Gap(W, n, q) = PacketAge(n) /\ PacketAge(n) \in Int /\ 0 <= PacketAge(n)
      /\ PacketAge(q) = 0 /\ b.next = (q - PacketAge(b.next)) % W
  BY Typed, PacketAgeIs DEF Packets!Sequence
<1>4. PacketAge(b.next) <= MaxIdle
      /\ \A n \in DOMAIN b.live : PacketAge(n) - PacketAge(b.next) \in 1..SentSize
  BY DEF SentInv
<1>5. Packets!GreaterThan(p, b.next)
  <2> DEFINE u == q + 1
             v == q - PacketAge(b.next)
  <2>1. u \in Int /\ v \in Int /\ 2 * (u - v) < W /\ 2 * (v - u) < W /\ u > v
    <3> DEFINE a == PacketAge(b.next)
    <3>1. a \in Int /\ 0 <= a /\ a <= MaxIdle /\ MaxIdle \in Int /\ 2 * (MaxIdle + 1) < W /\ q \in Int /\ W \in Int
      BY <1>1, <1>3, <1>4 DEF Busy
    <3> HIDE DEF a, W, q, b, c
    <3>. QED BY <3>1 DEF a
  <2>2. p = u % W /\ b.next = v % W
    BY <1>3 DEF Packets!Later
  <2> HIDE DEF u, v
  <2>3. \/ u % W > v % W /\ (u % W) - (v % W) <= W \div 2
        \/ u % W < v % W /\ (v % W) - (u % W) > W \div 2
    BY <2>1, <1>1, ModGreater
  <2>. QED BY <2>2, <2>3 DEF Packets!GreaterThan
<1>6. sentPackets' = c
  BY <1>5 DEF Packets!Insert, Packets!Refuses, Packets!Put, Packets!Advance, Lap
<1>7. c = Ids!SetEntry([Ids!RemoveEntries(b, b.next, q, W - 1) EXCEPT !.next = p], q, entry)
  BY DEF Packets!SetEntry, Packets!RemoveEntries, Ids!SetEntry, Ids!RemoveEntries,
         Packets!Remove, Packets!Free, Packets!Slot, Ids!Remove, Ids!Free, Ids!Slot
<1>8. Gap(W, q, q) <= Gap(W, b.next, q)
  BY <1>1, <1>3
<1>9. \A n \in DOMAIN b.live : Gap(W, n, q) - Gap(W, b.next, q) \in 1..SentSize
  BY <1>1, <1>3, <1>4
<1> DEFINE e == Ids!SetEntry([Ids!RemoveEntries(b, b.next, q, W - 1) EXCEPT !.next = p], q, entry)
<1>10. /\ e \in Buffers(0..(W - 1), SentSize, Entry)
       /\ e.next = p
       /\ DOMAIN e.live = {t \in DOMAIN b.live : Gap(W, t, q) - Gap(W, q, q) < SentSize} \union {q}
       /\ e.live[q] = entry
       /\ \A t \in DOMAIN e.live : t # q => e.live[t] = b.live[t]
  <2>1. entry \in Entry
    OBVIOUS
  <2>4. e = Ids!SetEntry([Ids!RemoveEntries(b, b.next, q, W - 1) EXCEPT !.next = p], q, entry)
    OBVIOUS
  <2> HIDE DEF b, W, q, p, c, e
  <2>2. W % SentSize = 0 /\ Gap(W, q, q) <= Gap(W, b.next, q)
        /\ \A t \in DOMAIN b.live : Gap(W, t, q) - Gap(W, b.next, q) \in 1..SentSize
    BY <1>1, <1>8, <1>9
  <2>3. b \in Buffers(0..(W - 1), SentSize, Entry) /\ q \in 0..(W - 1) /\ p \in 0..(W - 1)
        /\ W \in Nat \ {0} /\ SentSize \in Nat \ {0}
    BY <1>1, <1>2
  <2>. QED BY ONLY <2>1, <2>2, <2>3, <2>4, PutNewer
<1>11. {t \in DOMAIN b.live : Gap(W, t, q) - Gap(W, q, q) < SentSize} = {n \in DOMAIN b.live : PacketAge(n) < SentSize}
  BY <1>1, <1>3
<1> HIDE DEF c, e, b
<1>12. sentPackets' = e
  BY <1>6, <1>7 DEF e
<1>. QED BY <1>1, <1>10, <1>11, <1>12 DEF b
-----------------------------------------------------------------------------
\* What sending a packet with d does: what is remembered of it is in E.
Sends(d, E) ==
    /\ 1 \in DOMAIN window' /\ window'[1] = [fate |-> "flying", data |-> {d}]
    /\ EntryOf(1)' \subseteq E
    /\ \A k \in DOMAIN window' : k # 1 =>
          /\ k \in Int /\ k - 1 \in DOMAIN window /\ k - 1 >= 1
          /\ window'[k] = window[k - 1]
          /\ EntryOf(k)' \subseteq EntryOf(k - 1) /\ Number(k)' = Number(k - 1)
    /\ sendMessageId' = sendMessageId /\ oldestUnacked' = oldestUnacked /\ sendQueue' = sendQueue
    /\ receiveMessageId' = receiveMessageId /\ receiveQueue' = receiveQueue /\ receiveBlock' = receiveBlock
    /\ error' = error /\ connected' = connected
    /\ sendBlock' = sendBlock \/ (SendingBlock /\ sendBlock' = Started)

LEMMA BlockTyped ==
    ASSUME Types, sendBlock' = sendBlock \/ (SendingBlock /\ sendBlock' = Started)
    PROVE  sendBlock' \in [active : BOOLEAN, id : Ids!Sequence, acked : SUBSET Nat]
<1>1. sendBlock \in [active : BOOLEAN, id : Ids!Sequence, acked : SUBSET Nat] /\ oldestUnacked \in Ids!Sequence
  BY DEF Types
<1>2. [active |-> TRUE, id |-> oldestUnacked, acked |-> {}]
         \in [active : BOOLEAN, id : Ids!Sequence, acked : SUBSET Nat]
  BY <1>1
<1>. QED BY <1>1, <1>2 DEF Started

\* With an entry.
LEMMA Transmits ==
    ASSUME Types, SentInv, Busy, NEW d \in Data, NEW entry \in Entry, Transmit(d, entry),
           sendBlock' = sendBlock \/ (SendingBlock /\ sendBlock' = Started)
    PROVE  Sends(d, {entry}) /\ Types' /\ SentInv'
<1>1. /\ Service!SendPacket(d)
      /\ sentPackets' = Packets!Insert(sentPackets, packetSequence, entry, Lap(PacketWrap))
      /\ packetSequence' = Packets!Later(packetSequence, 1)
      /\ sendMessageId' = sendMessageId /\ oldestUnacked' = oldestUnacked /\ sendQueue' = sendQueue
      /\ receiveMessageId' = receiveMessageId /\ receiveQueue' = receiveQueue /\ receiveBlock' = receiveBlock
      /\ error' = error /\ connected' = connected
  BY DEF Transmit, receiver
<1>2. /\ window' \in Seq(Packet) /\ Len(window') <= Lifetime
      /\ 1 \in DOMAIN window'
      /\ window'[1] = [fate |-> "flying", data |-> {d}]
      /\ \A k \in DOMAIN window' : k # 1 => k - 1 \in DOMAIN window /\ k \in Int /\ window'[k] = window[k - 1]
  BY <1>1, Sent
<1>3. /\ sentPackets' \in Buffers(Packets!Sequence, SentSize, Entry)
      /\ sentPackets'.next = packetSequence'
      /\ DOMAIN sentPackets'.live = {n \in DOMAIN sentPackets.live : PacketAge(n) < SentSize}
                                       \union {packetSequence}
      /\ sentPackets'.live[packetSequence] = entry
      /\ \A n \in DOMAIN sentPackets'.live :
            n # packetSequence => sentPackets'.live[n] = sentPackets.live[n]
  BY <1>1, Entered
<1>4. /\ packetSequence \in Packets!Sequence /\ packetSequence' \in Packets!Sequence
      /\ Number(1)' = packetSequence /\ \A k \in Int : Number(k)' = Number(k - 1)
  BY <1>1, Typed, NumberMoves
<1>5. DOMAIN window = 1..Len(window) /\ Len(window) \in Nat /\ Len(window) <= Lifetime /\ Lifetime \in Nat
  BY Typed, Bounds
<1>6. EntryOf(1)' \subseteq {entry}
  BY <1>3, <1>4 DEF EntryOf
<1>7. ASSUME NEW k \in DOMAIN window', k # 1
      PROVE  /\ k \in Int /\ k - 1 \in DOMAIN window /\ k - 1 >= 1
             /\ window'[k] = window[k - 1]
             /\ EntryOf(k)' \subseteq EntryOf(k - 1) /\ Number(k)' = Number(k - 1)
  <2>1. k \in Int /\ k - 1 \in DOMAIN window /\ k - 1 \in 1..Lifetime /\ window'[k] = window[k - 1]
    BY <1>2, <1>5, <1>7
  <2>2. Number(k)' = Number(k - 1)
    BY <1>4, <2>1
  <2>3. Number(k - 1) # packetSequence
    BY <1>4, <2>1, NumberIs
  <2>4. EntryOf(k)' \subseteq EntryOf(k - 1)
    BY <1>3, <2>2, <2>3 DEF EntryOf, Packets!Exists
  <2>. QED BY <2>1, <2>2, <2>4
<1>8. Types'
  <2>1. sendBlock' \in [active : BOOLEAN, id : Ids!Sequence, acked : SUBSET Nat]
    BY BlockTyped
  <2>. QED BY <1>1, <1>2, <1>3, <1>4, <2>1 DEF Types
<1>9. SentInv'
  <2>1. /\ PacketWrap \in Nat /\ SentSize \in Nat \ {0} /\ MaxIdle \in Nat /\ MaxIdle + SentSize < PacketWrap
        /\ DOMAIN sentPackets.live \subseteq Packets!Sequence
    BY Bounds, Typed DEF Busy
  <2>2. \A n \in Packets!Sequence : PacketAge(n) < PacketWrap - 1 => PacketAge(n)' = PacketAge(n) + 1
    BY <1>1, <1>4, PacketAgeing
  <2>3. /\ PacketAge(packetSequence) = 0 /\ PacketAge(sentPackets.next) \in Int /\ 0 <= PacketAge(sentPackets.next)
        /\ \A n \in Packets!Sequence : PacketAge(n) \in Int
    BY <1>4, PacketAgeIs, Typed
  <2>4. PacketAge(sentPackets.next)' = 0
    <3>1. \A n \in Packets!Sequence : Packets!Distance(n, n) = 0
      <4>. TAKE n \in Packets!Sequence
      <4>1. PacketWrap \in Nat \ {0} /\ n \in 0..(PacketWrap - 1)
        BY Bounds DEF Packets!Sequence
      <4>. QED BY <4>1, Before DEF Packets!Distance
    <3>2. Packets!Distance(packetSequence', packetSequence') = 0
      BY <3>1, <1>4
    <3>. QED BY <3>2, <1>3 DEF PacketAge
  <2>5. ASSUME NEW n \in DOMAIN sentPackets'.live
        PROVE  PacketAge(n)' \in 1..SentSize
    <3>1. CASE n = packetSequence
      BY <3>1, <2>1, <2>2, <2>3, <1>4
    <3>2. CASE n \in DOMAIN sentPackets.live /\ PacketAge(n) < SentSize
      <4>1. n \in Packets!Sequence /\ PacketAge(n) \in Int /\ PacketAge(n) < PacketWrap - 1
        BY <3>2, <2>1, <2>3
      <4>2. PacketAge(n) - PacketAge(sentPackets.next) \in 1..SentSize
        BY <3>2 DEF SentInv
      <4>3. PacketAge(n)' = PacketAge(n) + 1
        BY <4>1, <2>2
      <4>. QED BY <3>2, <4>1, <4>2, <4>3, <2>1, <2>3
    <3>. QED BY <3>1, <3>2, <2>5, <1>3
  <2>6. \A n \in DOMAIN sentPackets'.live : PacketAge(n)' - PacketAge(sentPackets.next)' \in 1..SentSize
    BY <2>4, <2>5, <2>1
  <2>. QED BY <2>1, <2>4, <2>6 DEF SentInv
<1>. QED BY <1>1, <1>2, <1>6, <1>7, <1>8, <1>9 DEF Sends
\* With no entry.
LEMMA Empties ==
    ASSUME Types, SentInv, Busy, GenerateEmpty
    PROVE  Sends(Empty, {}) /\ Types' /\ SentInv'
<1>1. /\ Service!SendPacket(Empty)
      /\ sentPackets' = sentPackets
      /\ packetSequence' = Packets!Later(packetSequence, 1)
      /\ sendMessageId' = sendMessageId /\ oldestUnacked' = oldestUnacked /\ sendQueue' = sendQueue
      /\ receiveMessageId' = receiveMessageId /\ receiveQueue' = receiveQueue /\ receiveBlock' = receiveBlock
      /\ error' = error /\ connected' = connected
      /\ sendBlock' = sendBlock \/ (SendingBlock /\ sendBlock' = Started)
      /\ PacketAge(sentPackets.next) < MaxIdle
  BY DEF GenerateEmpty, receiver, PacketAge
<1>2. /\ window' \in Seq(Packet) /\ Len(window') <= Lifetime
      /\ 1 \in DOMAIN window'
      /\ window'[1] = [fate |-> "flying", data |-> {Empty}]
      /\ \A k \in DOMAIN window' : k # 1 => k - 1 \in DOMAIN window /\ k \in Int /\ window'[k] = window[k - 1]
  <2>1. Empty \in Data
    BY DEF Data
  <2>. QED BY <1>1, <2>1, Sent
<1>3. /\ packetSequence \in Packets!Sequence /\ packetSequence' \in Packets!Sequence
      /\ Number(1)' = packetSequence /\ \A k \in Int : Number(k)' = Number(k - 1)
  BY <1>1, Typed, NumberMoves
<1>4. DOMAIN window = 1..Len(window) /\ Len(window) \in Nat /\ Len(window) <= Lifetime /\ Lifetime \in Nat
      /\ DOMAIN sentPackets.live \subseteq Packets!Sequence /\ sentPackets.next \in Packets!Sequence
  BY Typed, Bounds
<1>5. /\ PacketAge(packetSequence) = 0 /\ PacketAge(sentPackets.next) \in Int /\ 0 <= PacketAge(sentPackets.next)
      /\ \A n \in Packets!Sequence : PacketAge(n) \in Int
  BY <1>3, <1>4, PacketAgeIs
<1>6. packetSequence \notin DOMAIN sentPackets.live
  <2>1. \A n \in DOMAIN sentPackets.live : PacketAge(n) # 0
    <3>. TAKE n \in DOMAIN sentPackets.live
    <3>1. PacketAge(n) - PacketAge(sentPackets.next) \in 1..SentSize /\ PacketAge(n) \in Int /\ SentSize \in Nat
      BY <1>4, <1>5, Bounds DEF SentInv
    <3>. QED BY <3>1, <1>5
  <2>. QED BY <2>1, <1>5
<1>7. EntryOf(1)' \subseteq {}
  BY <1>1, <1>3, <1>6 DEF EntryOf, Packets!Exists
<1>8. ASSUME NEW k \in DOMAIN window', k # 1
      PROVE  /\ k \in Int /\ k - 1 \in DOMAIN window /\ k - 1 >= 1
             /\ window'[k] = window[k - 1]
             /\ EntryOf(k)' \subseteq EntryOf(k - 1) /\ Number(k)' = Number(k - 1)
  <2>1. k \in Int /\ k - 1 \in DOMAIN window /\ k - 1 \in 1..Lifetime /\ window'[k] = window[k - 1]
    BY <1>2, <1>4, <1>8
  <2>2. Number(k)' = Number(k - 1)
    BY <1>3, <2>1
  <2>3. EntryOf(k)' \subseteq EntryOf(k - 1)
    BY <1>1, <2>2 DEF EntryOf, Packets!Exists
  <2>. QED BY <2>1, <2>2, <2>3
<1>9. Types'
  <2>1. sendBlock' \in [active : BOOLEAN, id : Ids!Sequence, acked : SUBSET Nat]
    BY <1>1, BlockTyped
  <2>. QED BY <1>1, <1>2, <1>3, <2>1 DEF Types
<1>10. SentInv'
  <2>1. /\ PacketWrap \in Nat /\ SentSize \in Nat \ {0} /\ MaxIdle \in Nat /\ MaxIdle + SentSize < PacketWrap
    BY Bounds DEF Busy
  <2>2. \A n \in Packets!Sequence : PacketAge(n) < PacketWrap - 1 => PacketAge(n)' = PacketAge(n) + 1
    BY <1>1, <1>3, PacketAgeing
  <2>3. PacketAge(sentPackets.next)' = PacketAge(sentPackets.next) + 1
    <3>1. \A n \in Packets!Sequence : n = sentPackets.next =>
             Packets!Distance(n, packetSequence') = PacketAge(sentPackets.next) + 1
      <4>. TAKE n \in Packets!Sequence
      <4>. HAVE n = sentPackets.next
      <4>1. PacketAge(n) = PacketAge(sentPackets.next) /\ PacketAge(n) < PacketWrap - 1
        BY <1>1, <1>5, <2>1
      <4>2. PacketAge(n)' = PacketAge(n) + 1
        BY <4>1, <2>2
      <4>. QED BY <4>1, <4>2 DEF PacketAge
    <3>2. Packets!Distance(sentPackets.next, packetSequence') = PacketAge(sentPackets.next) + 1
      BY <3>1, <1>4
    <3>. QED BY <3>2, <1>1 DEF PacketAge
  <2>4. ASSUME NEW n \in DOMAIN sentPackets.live
        PROVE  PacketAge(n)' - PacketAge(sentPackets.next)' \in 1..SentSize
    <3>1. PacketAge(n) - PacketAge(sentPackets.next) \in 1..SentSize /\ PacketAge(n) \in Int
          /\ n \in Packets!Sequence
      BY <1>4, <1>5 DEF SentInv
    <3>2. PacketAge(n) < PacketWrap - 1
      BY <3>1, <1>1, <1>5, <2>1
    <3>3. PacketAge(n)' = PacketAge(n) + 1
      BY <3>1, <3>2, <2>2
    <3>. QED BY <3>1, <3>3, <2>3, <1>5, <2>1
  <2>5. \A n \in DOMAIN sentPackets'.live : PacketAge(n)' - PacketAge(sentPackets.next)' \in 1..SentSize
    BY <2>4, <1>1
  <2>6. PacketAge(sentPackets.next)' <= MaxIdle
    BY <2>3, <1>1, <1>5, <2>1
  <2>. QED BY <2>5, <2>6 DEF SentInv
<1>. QED BY <1>1, <1>2, <1>7, <1>8, <1>9, <1>10 DEF Sends

\* A message of the send queue, as an offset from the oldest.
LEMMA OffsetAge ==
    ASSUME Types, SenderInv, NEW i \in 0..(Size - 1), Ids!Exists(sendQueue, Ids!Later(oldestUnacked, i))
    PROVE  LET y == Ids!Later(oldestUnacked, i)
           IN /\ y \in Ids!Sequence /\ y \in DOMAIN sendQueue.live
              /\ Age(y) = Age(oldestUnacked) - i
              /\ Age(y) \in Int /\ 1 <= Age(y)
<1> DEFINE y == Ids!Later(oldestUnacked, i)
<1>1. /\ SendSize \in Nat /\ ReceiveSize \in Nat /\ IdWrap \in Nat /\ 2 * (SendSize + ReceiveSize) <= IdWrap
      /\ i \in Int /\ 0 <= i /\ i < SendSize
  BY Bounds DEF Size
<1>2. sendMessageId \in Ids!Sequence /\ oldestUnacked \in Ids!Sequence
  BY Typed
<1>3. /\ Ids!Later(oldestUnacked, i) \in Ids!Sequence
      /\ 0 <= i /\ i <= Age(oldestUnacked) => Age(Ids!Later(oldestUnacked, i)) = Age(oldestUnacked) - i
      /\ Age(oldestUnacked) < i /\ i <= IdWrap => Age(Ids!Later(oldestUnacked, i)) = Age(oldestUnacked) - i + IdWrap
  BY <1>1, <1>2, LaterAge
<1>4. y \in DOMAIN sendQueue.live
  BY DEF Ids!Exists
<1>5. 1 <= Age(y) /\ Age(y) <= Age(oldestUnacked) /\ Age(oldestUnacked) <= SendSize
  BY <1>4 DEF SenderInv
<1>6. Age(oldestUnacked) \in Int /\ 0 <= Age(oldestUnacked) /\ Age(y) \in Int
  BY <1>2, <1>3, AgeIs
<1> HIDE DEF y
<1>7. Age(y) = Age(oldestUnacked) - i
  BY <1>1, <1>3, <1>5, <1>6 DEF y
<1>. QED BY <1>3, <1>4, <1>5, <1>6, <1>7 DEF y

\* What goes into a packet with messages.
LEMMA OffsetIs ==
    ASSUME Types, SenderInv, ReceiverInv, TransitInv, NEW i \in MessagesToSend
    PROVE  LET m == [id |-> Ids!Later(oldestUnacked, i), value |-> sendQueue.live[Ids!Later(oldestUnacked, i)]]
           IN /\ m \in Message /\ MessageInv(m) /\ m.id \in DOMAIN sendQueue.live
              /\ \A y \in DOMAIN sendQueue.live : BlockAt(y) => Age(y) <= Age(m.id)
<1> DEFINE x == Ids!Later(oldestUnacked, i)
           m == [id |-> x, value |-> sendQueue.live[x]]
           at(j) == Ids!Later(oldestUnacked, j)
           blocks == {j \in 0..(Size - 1) : Ids!Exists(sendQueue, at(j)) /\ IsBlock(sendQueue.live[at(j)])}
<1>1. i \in 0..(Size - 1) /\ Ids!Exists(sendQueue, x) /\ \A j \in blocks : i < j
  BY DEF MessagesToSend
<1>2. SendSize \in Nat \ {0} /\ ReceiveSize \in Nat \ {0} /\ Size \in Nat /\ Size <= ReceiveSize /\ Size <= SendSize
  BY Bounds DEF Size
<1>3. x \in Ids!Sequence /\ x \in DOMAIN sendQueue.live /\ Age(x) = Age(oldestUnacked) - i
      /\ Age(x) \in Int /\ 1 <= Age(x)
  BY <1>1, OffsetAge
<1>4. Age(oldestUnacked) \in Int /\ 0 <= Age(oldestUnacked)
      /\ \A y \in Ids!Sequence : Age(y) \in Int /\ 0 <= Age(y)
  BY Typed, AgeIs
<1>5. sendQueue.live[x] \in Values
  BY <1>3, Typed
<1>6. ~IsBlock(sendQueue.live[x])
  BY <1>1, <1>2
<1>7. ASSUME NEW y \in DOMAIN sendQueue.live, BlockAt(y) PROVE Age(y) <= Age(x)
  <2> DEFINE j == Age(oldestUnacked) - Age(y)
  <2>1. y \in Ids!Sequence /\ Age(y) \in Int /\ Age(y) <= Age(oldestUnacked) /\ Age(oldestUnacked) <= SendSize
    BY <1>4, Typed DEF SenderInv
  <2>2. j \in Int /\ 0 <= j /\ j <= Age(oldestUnacked)
    BY <1>4, <2>1
  <2>3. Ids!Later(oldestUnacked, j) \in Ids!Sequence /\ Age(Ids!Later(oldestUnacked, j)) = Age(oldestUnacked) - j
    <3> HIDE DEF j, x, m, blocks
    <3>. QED BY <2>2, Typed, LaterAge
  <2>4. Ids!Later(oldestUnacked, j) = y
    <3>1. Age(Ids!Later(oldestUnacked, j)) = Age(y)
      BY <2>1, <2>3, <1>4
    <3> HIDE DEF j, x, m, blocks
    <3>. QED BY <2>1, <2>3, <3>1, Typed, OneAge
  <2>5. CASE j <= Size - 1
    <3>1. j \in 0..(Size - 1) /\ j \in blocks
      BY <2>2, <2>4, <2>5, <1>2, <1>7 DEF BlockAt, Ids!Exists
    <3>2. i < j
      BY <1>1, <3>1
    <3> HIDE DEF x, blocks, m
    <3>. QED BY <3>2, <2>1, <1>1, <1>2, <1>3, <1>4
  <2>6. CASE ~(j <= Size - 1)
    <3> HIDE DEF x, blocks, m
    <3>. QED BY <2>6, <2>1, <1>1, <1>2, <1>3, <1>4
  <2>. QED BY <2>5, <2>6
<1>8. ASSUME NEW y \in Ids!Sequence, Age(x) + ReceiveSize <= Age(y) PROVE Received(y)
  <2>1. Age(oldestUnacked) < Age(y)
    <3> HIDE DEF x, blocks, m
    <3>. QED BY <1>1, <1>2, <1>3, <1>4, <1>8
  <2>. QED BY <2>1, OldReceived
<1>9. x \in DOMAIN receiveQueue.live => receiveQueue.live[x] = sendQueue.live[x]
  BY <1>3 DEF TransitInv
<1> HIDE DEF x, blocks
<1>10. MessageInv(m)
  BY <1>6, <1>8, <1>9 DEF MessageInv
<1>11. m \in Message
  BY <1>3, <1>5 DEF Message
<1>. QED BY <1>3, <1>7, <1>10, <1>11 DEF x
\* What a packet may carry, and what is remembered of it.
Sound(d, e) == DataInv(d) /\ RecordOf(d, e) /\ IdsOf(d) \subseteq DOMAIN sendQueue.live

LEMMA MessagesData ==
    ASSUME NEW n \in 0..MaxPerPacket, NEW s \in [1..n -> Message] PROVE WithMessages(s) \in Data
<1>1. s \in BoundedSeq([id : Ids!Sequence, value : Values], MaxPerPacket)
  BY DEF BoundedSeq, SeqOf, Message
<1>. QED BY <1>1 DEF Data

LEMMA MessagesGenerated ==
    ASSUME Types, SenderInv, ReceiverInv, TransitInv, GenerateMessages
    PROVE  \E d \in Data : \E e \in Entry : Transmit(d, e) /\ sendBlock' = sendBlock /\ Sound(d, e)
<1>1. PICK n \in 1..MaxPerPacket : \E offsets \in [1..n -> MessagesToSend] :
          Transmit(WithMessages(PacketOf(offsets)),
                   [ids |-> [k \in DOMAIN PacketOf(offsets) |-> PacketOf(offsets)[k].id], fragment |-> {}])
  BY DEF GenerateMessages
<1>2. PICK offsets \in [1..n -> MessagesToSend] :
          Transmit(WithMessages(PacketOf(offsets)),
                   [ids |-> [k \in DOMAIN PacketOf(offsets) |-> PacketOf(offsets)[k].id], fragment |-> {}])
  BY <1>1
<1> DEFINE m == PacketOf(offsets)
           d == WithMessages(m)
           e == [ids |-> [k \in DOMAIN m |-> m[k].id], fragment |-> {}]
<1>3. DOMAIN m = 1..n
      /\ \A k \in 1..n : m[k] = [id |-> Ids!Later(oldestUnacked, offsets[k]),
                                 value |-> sendQueue.live[Ids!Later(oldestUnacked, offsets[k])]]
  BY DEF PacketOf
<1>4. \A k \in 1..n : offsets[k] \in MessagesToSend
  OBVIOUS
<1>5. \A i \in MessagesToSend :
         LET g == [id |-> Ids!Later(oldestUnacked, i), value |-> sendQueue.live[Ids!Later(oldestUnacked, i)]]
         IN /\ g \in Message /\ MessageInv(g) /\ g.id \in DOMAIN sendQueue.live
            /\ \A y \in DOMAIN sendQueue.live : BlockAt(y) => Age(y) <= Age(g.id)
  BY OffsetIs
<1>6. ASSUME NEW k \in 1..n
      PROVE  /\ m[k] \in Message /\ MessageInv(m[k]) /\ m[k].id \in DOMAIN sendQueue.live
             /\ \A y \in DOMAIN sendQueue.live : BlockAt(y) => Age(y) <= Age(m[k].id)
  <2> DEFINE g == [id |-> Ids!Later(oldestUnacked, offsets[k]),
                   value |-> sendQueue.live[Ids!Later(oldestUnacked, offsets[k])]]
  <2>1. /\ g \in Message /\ MessageInv(g) /\ g.id \in DOMAIN sendQueue.live
        /\ \A y \in DOMAIN sendQueue.live : BlockAt(y) => Age(y) <= Age(g.id)
    BY <1>4, <1>5
  <2>2. m[k] = g
    BY <1>3
  <2> HIDE DEF m, g
  <2>. QED BY <2>1, <2>2
<1>7. m \in [1..n -> Message]
  BY <1>6 DEF PacketOf
<1> HIDE DEF m
<1>8. d.messages = m /\ d.fragment = {}
  BY DEF WithMessages
<1>9. d \in Data
  <2>1. n \in 0..MaxPerPacket
    BY Bounds
  <2>. QED BY <2>1, <1>7, MessagesData
<1>10. e \in Entry
  <2>1. [k \in DOMAIN m |-> m[k].id] \in Seq(Ids!Sequence)
    <3>1. \A k \in 1..n : m[k].id \in Ids!Sequence
      BY <1>7 DEF Message
    <3>2. [k \in DOMAIN m |-> m[k].id] = [k \in 1..n |-> m[k].id]
      BY <1>3
    <3>. QED BY <3>1, <3>2
  <2>. QED BY <2>1 DEF Entry
<1>11. IdsOf(d) = {m[k].id : k \in 1..n}
  BY <1>3, <1>8 DEF IdsOf
<1>12. DataInv(d)
  BY <1>3, <1>6, <1>8, <1>11 DEF DataInv
<1>13. RecordOf(d, e)
  BY <1>8 DEF RecordOf
<1>14. IdsOf(d) \subseteq DOMAIN sendQueue.live
  BY <1>6, <1>11
<1>15. Transmit(d, e) /\ sendBlock' = sendBlock
  BY <1>2 DEF GenerateMessages, m
<1> HIDE DEF d, e
<1>. QED BY <1>9, <1>10, <1>12, <1>13, <1>14, <1>15 DEF Sound

LEMMA FragmentGenerated ==
    ASSUME Types, SenderInv, ReceiverInv, TransitInv, GenerateFragment
    PROVE  /\ \E d \in Data : \E e \in Entry : Transmit(d, e) /\ Sound(d, e)
           /\ SendingBlock /\ sendBlock' = Started
<1> DEFINE o == oldestUnacked
           v == sendQueue.live[o]
<1>1. SendingBlock /\ sendBlock' = Started
  BY DEF GenerateFragment
<1>2. PICK i \in 0..(Fragments[v] - 1) :
          Transmit(WithFragment(o, v, i), [ids |-> <<>>, fragment |-> {[id |-> o, index |-> i]}])
  BY DEF GenerateFragment
<1> DEFINE f == [id |-> o, value |-> v, index |-> i]
           d == WithFragment(o, v, i)
           e == [ids |-> <<>>, fragment |-> {[id |-> o, index |-> i]}]
<1>3. o \in DOMAIN sendQueue.live /\ o \in Ids!Sequence /\ v \in Values /\ Fragments[v] \in Nat
  BY <1>1, Typed, ValuesAssumption DEF SendingBlock, Ids!Exists
<1>4. i \in Nat
  BY <1>3
<1>5. d.messages = <<>> /\ d.fragment = {f} /\ f.id = o /\ f.value = v /\ f.index = i
  BY DEF WithFragment
<1>6. d \in Data
  BY <1>3 DEF Data
<1>7. e \in Entry
  <2>1. [id |-> o, index |-> i] \in [id : Ids!Sequence, index : Nat] /\ <<>> \in Seq(Ids!Sequence)
    BY <1>3, <1>4
  <2>. QED BY <2>1 DEF Entry
<1>8. Transmit(d, e)
  BY <1>2
<1>9. IdsOf(d) = {o}
  BY <1>5 DEF IdsOf
<1> HIDE DEF v, f, d
<1>10. FragmentInv(f)
  BY <1>5, OldReceived DEF FragmentInv, v
<1>11. DataInv(d)
  BY <1>5, <1>9, <1>10 DEF DataInv, SenderInv
<1>12. RecordOf(d, e)
  BY <1>5 DEF RecordOf
<1> HIDE DEF e
<1>. QED BY <1>1, <1>3, <1>6, <1>7, <1>8, <1>9, <1>11, <1>12 DEF Sound

\* The steps that send a packet.
Generates == \E d \in Data : \E E \in SUBSET Entry :
    /\ Sends(d, E) /\ DataInv(d) /\ IdsOf(d) \subseteq DOMAIN sendQueue.live
    /\ \A e \in E : RecordOf(d, e)

LEMMA Generating ==
    ASSUME Types, SenderInv, SentInv, ReceiverInv, TransitInv, Busy,
           GenerateMessages \/ GenerateFragment \/ GenerateEmpty
    PROVE  Generates /\ Types' /\ SentInv'
<1>1. CASE GenerateMessages
  <2>1. PICK d \in Data : \E e \in Entry : Transmit(d, e) /\ sendBlock' = sendBlock /\ Sound(d, e)
    BY <1>1, MessagesGenerated
  <2>2. PICK e \in Entry : Transmit(d, e) /\ sendBlock' = sendBlock /\ Sound(d, e)
    BY <2>1
  <2>3. Sends(d, {e}) /\ Types' /\ SentInv'
    BY <2>2, Transmits
  <2>4. {e} \in SUBSET Entry
    OBVIOUS
  <2>. QED BY <2>2, <2>3, <2>4 DEF Generates, Sound
<1>2. CASE GenerateFragment
  <2>1. (\E d \in Data : \E e \in Entry : Transmit(d, e) /\ Sound(d, e)) /\ SendingBlock /\ sendBlock' = Started
    BY <1>2, FragmentGenerated
  <2>2. PICK d \in Data : \E e \in Entry : Transmit(d, e) /\ Sound(d, e)
    BY <2>1
  <2>3. PICK e \in Entry : Transmit(d, e) /\ Sound(d, e)
    BY <2>2
  <2>4. Sends(d, {e}) /\ Types' /\ SentInv'
    BY <2>1, <2>3, Transmits
  <2>5. {e} \in SUBSET Entry
    OBVIOUS
  <2>. QED BY <2>3, <2>4, <2>5 DEF Generates, Sound
<1>3. CASE GenerateEmpty
  <2>1. Sends(Empty, {}) /\ Types' /\ SentInv'
    BY <1>3, Empties
  <2>2. Empty \in Data /\ {} \in SUBSET Entry
    BY DEF Data
  <2>3. Empty.messages = <<>> /\ Empty.fragment = {} /\ DOMAIN Empty.messages = {}
    BY DEF Empty
  <2>4. IdsOf(Empty) = {}
    BY <2>3 DEF IdsOf
  <2>5. DataInv(Empty)
    BY <2>3, <2>4 DEF DataInv
  <2>. QED BY <2>1, <2>2, <2>4, <2>5 DEF Generates
<1>. QED BY <1>1, <1>2, <1>3
-----------------------------------------------------------------------------
LEMMA SameAge == ASSUME sendMessageId' = sendMessageId PROVE \A y : Age(y)' = Age(y)
  BY DEF Age

\* A step without a new message: what is on its way keeps its meaning.
Calm == /\ sendMessageId' = sendMessageId
        /\ DOMAIN sendQueue'.live \subseteq DOMAIN sendQueue.live
        /\ \A y \in DOMAIN sendQueue'.live : sendQueue'.live[y] = sendQueue.live[y]
        /\ \A y \in Ids!Sequence : Received(y) => Received(y)'
        /\ \A y \in DOMAIN receiveQueue'.live :
              \/ y \in DOMAIN receiveQueue.live /\ receiveQueue'.live[y] = receiveQueue.live[y]
              \/ y \in DOMAIN sendQueue.live /\ receiveQueue'.live[y] = sendQueue.live[y]

LEMMA CalmData ==
    ASSUME Types, Calm, NEW d \in Data, DataInv(d) PROVE DataInv(d)'
<1>1. \A y : Age(y)' = Age(y)
  BY SameAge DEF Calm
<1>2. ASSUME NEW m \in Message, MessageInv(m) PROVE MessageInv(m)'
  BY <1>1, <1>2 DEF Calm, MessageInv
<1>3. ASSUME NEW f \in Fragment, FragmentInv(f) PROVE FragmentInv(f)'
  BY <1>1, <1>3 DEF Calm, FragmentInv
<1>4. /\ DOMAIN d.messages = 1..Len(d.messages) /\ d.messages \in Seq(Message) /\ d.fragment \subseteq Fragment
  BY DataIs
<1>5. \A i \in DOMAIN d.messages : d.messages[i] \in Message
  BY <1>4
<1>6. \A y : BlockAt(y)' => BlockAt(y)
  BY DEF Calm, BlockAt
<1>7. IdsOf(d)' = IdsOf(d)
  BY DEF IdsOf
<1>8. \A i \in DOMAIN d.messages : MessageInv(d.messages[i])'
  BY <1>2, <1>5 DEF DataInv
<1>9. \A f \in d.fragment : FragmentInv(f)'
  BY <1>3, <1>4 DEF DataInv
<1>10. \A x \in IdsOf(d), y \in DOMAIN sendQueue'.live : BlockAt(y)' => Age(y)' <= Age(x)'
  BY <1>1, <1>6 DEF DataInv, Calm
<1>. QED BY <1>7, <1>8, <1>9, <1>10 DEF DataInv

LEMMA CalmEntry ==
    ASSUME Types, Calm, NEW e \in Entry, EntryInv(e) PROVE EntryInv(e)'
<1>1. Range(e.ids) \subseteq Ids!Sequence
  BY DEF Entry, Range
<1>2. \A y : BlockAt(y)' => BlockAt(y)
  BY DEF Calm, BlockAt
<1>3. \A y \in Range(e.ids) : Received(y)' /\ ~BlockAt(y)'
  BY <1>1, <1>2 DEF EntryInv, Calm
<1>4. ASSUME NEW g \in e.fragment, g.id \in DOMAIN sendQueue'.live
      PROVE  BlockAt(g.id)' /\ g.index < Fragments[sendQueue'.live[g.id]]
  <2>1. g.id \in DOMAIN sendQueue.live /\ sendQueue'.live[g.id] = sendQueue.live[g.id]
    BY <1>4 DEF Calm
  <2>2. BlockAt(g.id) /\ g.index < Fragments[sendQueue.live[g.id]]
    BY <2>1 DEF EntryInv
  <2>. QED BY <1>4, <2>1, <2>2 DEF BlockAt
<1>. QED BY <1>3, <1>4 DEF EntryInv

\* Told, Claimed and Carried, element by element, before and after a step.
Elements ==
    /\ \A y, k, i : i \in Told(y, k) <=>
          /\ window[k].fate = "processed"
          /\ \E e \in EntryOf(k) : \E g \in e.fragment : g.id = y /\ i = g.index
    /\ \A y, i : i \in Claimed(y) <=>
          \/ \E k \in DOMAIN window : i \in Told(y, k)
          \/ sendBlock.active /\ sendBlock.id = y /\ i \in sendBlock.acked
    /\ \A k, x : x \in Carried(k) <=>
          \/ \E d \in window[k].data : x \in IdsOf(d)
          \/ window[k].fate = "processed" /\ \E e \in EntryOf(k) : x \in Remembered(e)

LEMMA ElementsNow == Elements
<1>1. ASSUME NEW y, NEW k, NEW i
      PROVE  i \in Told(y, k) <=>
                /\ window[k].fate = "processed"
                /\ \E e \in EntryOf(k) : \E g \in e.fragment : g.id = y /\ i = g.index
  <2>1. \A h : h \in UNION {e.fragment : e \in EntryOf(k)} <=> \E e \in EntryOf(k) : h \in e.fragment
    OBVIOUS
  <2>. QED BY <2>1 DEF Told
<1>2. ASSUME NEW y, NEW i
      PROVE  i \in Claimed(y) <=>
                \/ \E k \in DOMAIN window : i \in Told(y, k)
                \/ sendBlock.active /\ sendBlock.id = y /\ i \in sendBlock.acked
  <2>1. i \in UNION {Told(y, k) : k \in DOMAIN window} <=> \E k \in DOMAIN window : i \in Told(y, k)
    OBVIOUS
  <2>. QED BY <2>1 DEF Claimed
<1>3. ASSUME NEW k, NEW x
      PROVE  x \in Carried(k) <=>
                \/ \E d \in window[k].data : x \in IdsOf(d)
                \/ window[k].fate = "processed" /\ \E e \in EntryOf(k) : x \in Remembered(e)
  <2>1. x \in UNION {IdsOf(d) : d \in window[k].data} <=> \E d \in window[k].data : x \in IdsOf(d)
    OBVIOUS
  <2>2. x \in UNION {Remembered(e) : e \in EntryOf(k)} <=> \E e \in EntryOf(k) : x \in Remembered(e)
    OBVIOUS
  <2>. QED BY <2>1, <2>2 DEF Carried
<1>. QED BY <1>1, <1>2, <1>3 DEF Elements

LEMMA ElementsNext == Elements'
  BY ElementsNow, PTL
-----------------------------------------------------------------------------
\* A packet is sent: the queues stay as they are.
LEMMA SendsCalm ==
    ASSUME Types, NEW d \in Data, NEW E, Sends(d, E)
    PROVE  /\ Calm
           /\ \A y : Age(y)' = Age(y) /\ (Received(y)' <=> Received(y)) /\ (BlockAt(y)' <=> BlockAt(y))
<1>1. \A y : Age(y)' = Age(y)
  BY SameAge DEF Sends
<1>2. \A y : (Received(y)' <=> Received(y)) /\ (BlockAt(y)' <=> BlockAt(y))
  BY <1>1 DEF Sends, Received, BlockAt
<1>. QED BY <1>1, <1>2 DEF Calm, Sends

LEMMA SendsQueues ==
    ASSUME Types, SenderInv, ReceiverInv, TransitInv, DesyncOnlyIfBehind, NEW d \in Data, NEW E, Sends(d, E)
    PROVE  SenderInv' /\ ReceiverInv' /\ TransitInv' /\ DesyncOnlyIfBehind'
<1>1. /\ \A y : Age(y)' = Age(y) /\ (Received(y)' <=> Received(y)) /\ (BlockAt(y)' <=> BlockAt(y))
      /\ sendMessageId' = sendMessageId /\ oldestUnacked' = oldestUnacked /\ sendQueue' = sendQueue
      /\ receiveMessageId' = receiveMessageId /\ receiveQueue' = receiveQueue
      /\ error' = error /\ connected' = connected
      /\ sendBlock' = sendBlock \/ (SendingBlock /\ sendBlock' = Started)
  BY SendsCalm DEF Sends
<1>2. /\ Age(oldestUnacked)' = Age(oldestUnacked) /\ Age(receiveQueue.next)' = Age(receiveQueue.next)
      /\ Age(receiveMessageId)' = Age(receiveMessageId) /\ (BlockAt(oldestUnacked)' <=> BlockAt(oldestUnacked))
  BY <1>1 DEF Age, BlockAt
<1>3. SenderInv'
  <2>1. CASE sendBlock' = sendBlock
    BY <2>1, <1>1, <1>2 DEF SenderInv
  <2>2. CASE SendingBlock /\ sendBlock' = Started
    <3>1. BlockAt(oldestUnacked)
      BY <2>2 DEF SendingBlock, Ids!Exists, BlockAt
    <3>2. CASE sendBlock.active
      BY <3>2, <2>2, <1>1, <1>2 DEF SenderInv, Started
    <3>3. CASE ~sendBlock.active
      BY <3>1, <3>3, <2>2, <1>1, <1>2 DEF SenderInv, Started
    <3>. QED BY <3>2, <3>3
  <2>. QED BY <2>1, <2>2, <1>1
<1>4. ReceiverInv'
  BY <1>1, <1>2 DEF ReceiverInv
<1>5. TransitInv'
  BY <1>1, <1>2 DEF TransitInv
<1>6. DesyncOnlyIfBehind'
  BY <1>1 DEF DesyncOnlyIfBehind
<1>. QED BY <1>3, <1>4, <1>5, <1>6

LEMMA SendsCarried ==
    ASSUME Types, NEW d \in Data, NEW E, Sends(d, E)
    PROVE  /\ \A x \in Carried(1)' : x \in IdsOf(d)
           /\ \A k \in DOMAIN window' : k # 1 => Carried(k)' \subseteq Carried(k - 1)
<1>1. \A k, x : x \in Carried(k) <=>
              \/ \E c \in window[k].data : x \in IdsOf(c)
              \/ window[k].fate = "processed" /\ \E e \in EntryOf(k) : x \in Remembered(e)
  BY ElementsNow DEF Elements
<1>2. \A k, x : x \in Carried(k)' <=>
              \/ \E c \in window'[k].data : x \in IdsOf(c)'
              \/ window'[k].fate = "processed" /\ \E e \in EntryOf(k)' : x \in Remembered(e)'
  BY ElementsNext DEF Elements
<1>3. \A c : IdsOf(c)' = IdsOf(c) /\ Remembered(c)' = Remembered(c)
  BY DEF IdsOf, Remembered
<1>4. \A x \in Carried(1)' : x \in IdsOf(d)
  BY <1>2, <1>3 DEF Sends
<1>5. ASSUME NEW k \in DOMAIN window', k # 1, NEW x \in Carried(k)' PROVE x \in Carried(k - 1)
  <2>1. window'[k] = window[k - 1] /\ EntryOf(k)' \subseteq EntryOf(k - 1)
    BY <1>5 DEF Sends
  <2>2. \/ \E c \in window[k - 1].data : x \in IdsOf(c)
        \/ window[k - 1].fate = "processed" /\ \E e \in EntryOf(k - 1) : x \in Remembered(e)
    BY <1>2, <1>3, <1>5, <2>1
  <2>. QED BY <1>1, <2>2
<1>. QED BY <1>4, <1>5

LEMMA SendsPackets ==
    ASSUME Types, PacketInv, NEW d \in Data, NEW E \in SUBSET Entry, Sends(d, E), DataInv(d),
           \A e \in E : RecordOf(d, e)
    PROVE  PacketInv'
<1>1. Calm
  BY SendsCalm
<1>2. ASSUME NEW c \in Data, DataInv(c) PROVE DataInv(c)'
  BY <1>1, <1>2, CalmData
<1>3. ASSUME NEW e \in Entry, EntryInv(e) PROVE EntryInv(e)'
  BY <1>1, <1>3, CalmEntry
<1>4. \A c, e : RecordOf(c, e)' <=> RecordOf(c, e)
  BY DEF RecordOf
<1> SUFFICES ASSUME NEW k \in DOMAIN window'
             PROVE  /\ \A c \in window'[k].data : DataInv(c)' /\ \A e \in EntryOf(k)' : RecordOf(c, e)'
                    /\ window'[k].fate = "processed" => \A e \in EntryOf(k)' : EntryInv(e)'
  BY DEF PacketInv
<1>5. CASE k = 1
  <2>1. window'[1].data = {d} /\ window'[1].fate = "flying" /\ EntryOf(1)' \subseteq E
    BY DEF Sends
  <2>2. DataInv(d)'
    BY <1>2
  <2>. QED BY <1>4, <1>5, <2>1, <2>2
<1>6. CASE k # 1
  <2>1. k - 1 \in DOMAIN window /\ window'[k] = window[k - 1] /\ EntryOf(k)' \subseteq EntryOf(k - 1)
    BY <1>6 DEF Sends
  <2>2. \A c \in window[k - 1].data : c \in Data /\ DataInv(c) /\ \A e \in EntryOf(k - 1) : RecordOf(c, e)
    BY <2>1, CarriedIs DEF PacketInv
  <2>3. \A e \in EntryOf(k - 1) : e \in Entry /\ (window[k - 1].fate = "processed" => EntryInv(e))
    BY <2>1, EntryOfIs DEF PacketInv
  <2>. QED BY <1>2, <1>3, <1>4, <2>1, <2>2, <2>3
<1>. QED BY <1>5, <1>6

LEMMA SendsBlock ==
    ASSUME Types, BlockInv, NEW d \in Data, NEW E, Sends(d, E)
    PROVE  BlockInv'
<1>1. /\ \A y : Age(y)' = Age(y) /\ (Received(y)' <=> Received(y)) /\ (BlockAt(y)' <=> BlockAt(y))
      /\ sendQueue' = sendQueue /\ receiveQueue' = receiveQueue /\ receiveBlock' = receiveBlock
      /\ error' = error
      /\ sendBlock' = sendBlock \/ sendBlock' = Started
  BY SendsCalm DEF Sends
<1>2. \A y, k, i : i \in Told(y, k) <=>
              /\ window[k].fate = "processed"
              /\ \E e \in EntryOf(k) : \E g \in e.fragment : g.id = y /\ i = g.index
  BY ElementsNow DEF Elements
<1>3. \A y, k, i : i \in Told(y, k)' <=>
              /\ window'[k].fate = "processed"
              /\ \E e \in EntryOf(k)' : \E g \in e.fragment : g.id = y /\ i = g.index
  BY ElementsNext DEF Elements
<1>4. \A y, i : i \in Claimed(y) <=>
              \/ \E k \in DOMAIN window : i \in Told(y, k)
              \/ sendBlock.active /\ sendBlock.id = y /\ i \in sendBlock.acked
  BY ElementsNow DEF Elements
<1>5. \A y, i : i \in Claimed(y)' <=>
              \/ \E k \in DOMAIN window' : i \in Told(y, k)'
              \/ sendBlock'.active /\ sendBlock'.id = y /\ i \in sendBlock'.acked
  BY ElementsNext DEF Elements
<1>6. ASSUME NEW y, NEW i \in Claimed(y)' PROVE i \in Claimed(y)
  <2>1. CASE \E k \in DOMAIN window' : i \in Told(y, k)'
    <3>1. PICK k \in DOMAIN window' : i \in Told(y, k)'
      BY <2>1
    <3>2. k # 1
      BY <1>3, <3>1 DEF Sends
    <3>3. k - 1 \in DOMAIN window /\ window'[k] = window[k - 1] /\ EntryOf(k)' \subseteq EntryOf(k - 1)
      BY <3>2 DEF Sends
    <3>4. i \in Told(y, k - 1)
      BY <1>2, <1>3, <3>1, <3>3
    <3>. QED BY <1>4, <3>3, <3>4
  <2>2. CASE sendBlock'.active /\ sendBlock'.id = y /\ i \in sendBlock'.acked
    <3>1. sendBlock' = sendBlock \/ sendBlock'.acked = {}
      BY <1>1 DEF Started
    <3>. QED BY <3>1, <2>2, <1>4
  <2>. QED BY <2>1, <2>2, <1>5, <1>6
<1>7. \A y : Assembling(y)' <=> Assembling(y)
  BY <1>1 DEF Assembling
<1>8. \A y \in Ids!Sequence : \A i \in Claimed(y)' :
          Received(y)' \/ (Assembling(y)' /\ i \in DOMAIN receiveBlock'.received)
  BY <1>1, <1>6, <1>7 DEF BlockInv
<1>9. \A y \in DOMAIN sendQueue'.live : BlockAt(y)' /\ ~Received(y)' => Age(y)' <= Age(receiveQueue.next)'
  BY <1>1 DEF BlockInv, Age
<1>10. ASSUME receiveBlock.active
       PROVE  /\ receiveBlock.id = receiveQueue.next /\ BlockAt(receiveBlock.id)'
              /\ receiveBlock.count = Fragments[sendQueue.live[receiveBlock.id]]
              /\ DOMAIN receiveBlock.received \subseteq 0..(receiveBlock.count - 1)
              /\ error.receiver = "none" =>
                    \E i \in 0..(receiveBlock.count - 1) : i \notin DOMAIN receiveBlock.received
              /\ \E i \in 0..(receiveBlock.count - 1) : i \notin Claimed(receiveBlock.id)'
              /\ \A i \in DOMAIN receiveBlock.received :
                    receiveBlock.received[i] = [id |-> receiveBlock.id, value |-> sendQueue.live[receiveBlock.id]]
  <2>1. \E i \in 0..(receiveBlock.count - 1) : i \notin Claimed(receiveBlock.id)'
    <3>1. PICK i \in 0..(receiveBlock.count - 1) : i \notin Claimed(receiveBlock.id)
      BY <1>10 DEF BlockInv
    <3>2. \A y : i \in Claimed(y)' => i \in Claimed(y)
      BY <1>6
    <3>. QED BY <3>1, <3>2, <1>1 DEF Claimed, Told
  <2>. QED BY <2>1, <1>1, <1>10 DEF BlockInv, BlockAt
<1>. QED BY <1>1, <1>8, <1>9, <1>10 DEF BlockInv
\* Nothing overtakes a packet that is only sent now, nor another because of it.
LEMMA SendsFlight ==
    ASSUME Types, SenderInv, FlightInv, NEW d \in Data, NEW E, Sends(d, E), Types',
           IdsOf(d) \subseteq DOMAIN sendQueue.live
    PROVE  FlightInv'
<1>1. /\ \A y : Age(y)' = Age(y) /\ (Received(y)' <=> Received(y))
      /\ sendMessageId \in Ids!Sequence /\ oldestUnacked \in Ids!Sequence
      /\ DOMAIN sendQueue.live \subseteq Ids!Sequence
  BY SendsCalm, Typed
<1>2. \A x \in DOMAIN sendQueue.live : 1 <= Age(x) /\ Age(x) <= SendSize /\ Age(x) \in Int
  <2>1. Age(oldestUnacked) \in Int /\ \A x \in Ids!Sequence : Age(x) \in Int
    BY <1>1, AgeIs
  <2>. QED BY <1>1, <2>1, Bounds DEF SenderInv
<1>3. /\ \A x \in Carried(1)' : x \in DOMAIN sendQueue.live
      /\ \A k \in DOMAIN window' : k # 1 => Carried(k)' \subseteq Carried(k - 1)
  BY SendsCarried
<1>4. /\ DOMAIN window = 1..Len(window) /\ DOMAIN window' = 1..Len(window')
      /\ Len(window) \in Nat /\ Len(window') \in Nat
      /\ \A k \in DOMAIN window : Carried(k) \subseteq Ids!Sequence
  <2>1. window' \in Seq(Packet)
    BY DEF Types
  <2>2. DOMAIN window' = 1..Len(window') /\ Len(window') \in Nat
    BY <2>1
  <2>. QED BY <2>2, Typed, CarriedIs
<1>5. \A x : Overtaken(x)' = Overtaken(x)
  BY <1>1 DEF Overtaken
<1>6. /\ window'[1].fate = "flying"
      /\ \A k \in DOMAIN window' : k # 1 => /\ k \in Int /\ k - 1 \in DOMAIN window /\ k - 1 >= 1
                                            /\ window'[k] = window[k - 1] /\ Number(k)' = Number(k - 1)
  BY DEF Sends
<1>7. ASSUME NEW k \in DOMAIN window', k # 1 PROVE Arrived(k)' = Arrived(k - 1)
  <2>1. Arrived(k)' = {Number(j)' : j \in {i \in 1..(k - 1) : window'[i].fate # "flying"}}
    BY DEF Arrived
  <2>2. Arrived(k - 1) = {Number(j) : j \in {i \in 1..((k - 1) - 1) : window[i].fate # "flying"}}
    BY DEF Arrived
  <2>3. ASSUME NEW j \in 1..(k - 1), window'[j].fate # "flying"
        PROVE  j - 1 \in 1..((k - 1) - 1) /\ window[j - 1].fate # "flying" /\ Number(j)' = Number(j - 1)
    <3>1. j \in DOMAIN window' /\ j # 1 /\ j \in Int /\ k \in Int
      BY <1>4, <1>6, <2>3
    <3>. QED BY <3>1, <1>6, <2>3
  <2>4. ASSUME NEW i \in 1..((k - 1) - 1), window[i].fate # "flying"
        PROVE  i + 1 \in 1..(k - 1) /\ window'[i + 1].fate # "flying" /\ Number(i + 1)' = Number(i)
    <3>1. i + 1 \in DOMAIN window' /\ i + 1 # 1 /\ i \in Int /\ k \in Int /\ (i + 1) - 1 = i
      BY <1>4, <2>4
    <3>2. window'[i + 1] = window[i] /\ Number(i + 1)' = Number(i)
      BY <3>1, <1>6
    <3>. QED BY <3>1, <3>2, <2>4
  <2>5. Arrived(k)' \subseteq Arrived(k - 1)
    BY <2>1, <2>2, <2>3
  <2>6. Arrived(k - 1) \subseteq Arrived(k)'
    <3>1. ASSUME NEW i \in 1..((k - 1) - 1), window[i].fate # "flying"
          PROVE  \E j \in 1..(k - 1) : window'[j].fate # "flying" /\ Number(i) = Number(j)'
      <4> DEFINE j == i + 1
      <4>1. j \in 1..(k - 1) /\ window'[j].fate # "flying" /\ Number(i) = Number(j)'
        BY <2>4, <3>1
      <4> HIDE DEF j
      <4>. QED BY <4>1
    <3>. QED BY <3>1, <2>1, <2>2
  <2>. QED BY <2>5, <2>6
<1>8. ASSUME NEW k \in DOMAIN window', NEW x \in Carried(k)'
      PROVE  /\ 1 <= Age(x)'
             /\ Cardinality(Overtaken(x)') <= MaxPerPacket * Cardinality(Arrived(k)')
  <2>1. CASE k = 1
    <3>1. x \in DOMAIN sendQueue.live /\ 1 <= Age(x) /\ Age(x) <= SendSize /\ Age(x) \in Int
      BY <1>2, <1>3, <1>8, <2>1
    <3>2. Overtaken(x) = {}
      <4>1. \A y \in Ids!Sequence : Age(y) \in Int
        BY <1>1, AgeIs
      <4>2. SendSize \in Int
        BY Bounds
      <4>. QED BY <3>1, <4>1, <4>2 DEF Overtaken
    <3>3. Arrived(1)' = {}
      BY DEF Arrived
    <3>4. Cardinality({}) = 0 /\ MaxPerPacket \in Nat
      BY FS_EmptySet, Bounds
    <3>. QED BY <1>1, <1>5, <2>1, <3>1, <3>2, <3>3, <3>4
  <2>2. CASE k # 1
    <3>1. k - 1 \in DOMAIN window /\ x \in Carried(k - 1)
      BY <1>3, <1>6, <1>8, <2>2
    <3>2. 1 <= Age(x) /\ Cardinality(Overtaken(x)) <= MaxPerPacket * Cardinality(Arrived(k - 1))
      BY <3>1 DEF FlightInv
    <3>. QED BY <3>2, <1>1, <1>5, <1>7, <2>2
  <2>. QED BY <2>1, <2>2
<1>9. ASSUME NEW k \in DOMAIN window', NEW l \in DOMAIN window', k <= l, NEW x \in Carried(k)', NEW y \in Carried(l)'
      PROVE  Age(x)' - Age(y)' < SendSize
  <2>1. k \in Int /\ l \in Int /\ k >= 1 /\ l >= 1 /\ SendSize \in Int
    BY <1>4, Bounds
  <2>2. CASE k = 1
    <3>1. Age(x) <= SendSize /\ Age(x) \in Int
      BY <1>2, <1>3, <1>9, <2>2
    <3>2. 1 <= Age(y) /\ Age(y) \in Int
      <4>1. CASE l = 1
        BY <1>2, <1>3, <1>9, <4>1
      <4>2. CASE l # 1
        <5>1. l - 1 \in DOMAIN window /\ y \in Carried(l - 1)
          BY <1>3, <1>6, <1>9, <4>2
        <5>2. y \in Ids!Sequence /\ 1 <= Age(y)
          BY <5>1, <1>4 DEF FlightInv
        <5>. QED BY <5>2, <1>1, AgeIs
      <4>. QED BY <4>1, <4>2
    <3>. QED BY <3>1, <3>2, <1>1, <2>1
  <2>3. CASE k # 1
    <3>1. l # 1 /\ k - 1 <= l - 1
      BY <2>1, <2>3, <1>9
    <3>2. k - 1 \in DOMAIN window /\ x \in Carried(k - 1) /\ l - 1 \in DOMAIN window /\ y \in Carried(l - 1)
      BY <1>3, <1>6, <1>9, <2>3, <3>1
    <3>3. Age(x) - Age(y) < SendSize
      BY <3>1, <3>2 DEF FlightInv
    <3>. QED BY <3>3, <1>1
  <2>. QED BY <2>2, <2>3
<1>. QED BY <1>8, <1>9 DEF FlightInv

LEMMA GenerateInv ==
    ASSUME Inv, Busy, GenerateMessages \/ GenerateFragment \/ GenerateEmpty
    PROVE  Inv'
<1>1. /\ Types /\ SenderInv /\ SentInv /\ ReceiverInv /\ TransitInv /\ FlightInv
      /\ PacketInv /\ BlockInv /\ DesyncOnlyIfBehind
  BY DEF Inv
<1>2. Generates /\ Types' /\ SentInv'
  BY <1>1, Generating
<1>3. PICK d \in Data : \E E \in SUBSET Entry :
          /\ Sends(d, E) /\ DataInv(d) /\ IdsOf(d) \subseteq DOMAIN sendQueue.live
          /\ \A e \in E : RecordOf(d, e)
  BY <1>2 DEF Generates
<1>4. PICK E \in SUBSET Entry :
          /\ Sends(d, E) /\ DataInv(d) /\ IdsOf(d) \subseteq DOMAIN sendQueue.live
          /\ \A e \in E : RecordOf(d, e)
  BY <1>3
<1>5. SenderInv' /\ ReceiverInv' /\ TransitInv' /\ DesyncOnlyIfBehind'
  BY <1>1, <1>4, SendsQueues
<1>6. FlightInv'
  BY <1>1, <1>2, <1>4, SendsFlight
<1>7. PacketInv'
  BY <1>1, <1>4, SendsPackets
<1>8. BlockInv'
  BY <1>1, <1>4, SendsBlock
<1>. QED BY <1>2, <1>5, <1>6, <1>7, <1>8 DEF Inv
(***************************************************************************)
(* A packet is acknowledged.                                               *)
(***************************************************************************)
Processing == INSTANCE FoldLeftTheorems WITH Op <- Processed

\* The oldest message that is left in a queue q.
LEMMA OldestIs ==
    ASSUME Types, SenderInv, NEW q \in Buffers(Ids!Sequence, SendSize, Values), q.next = sendMessageId,
           DOMAIN q.live \subseteq DOMAIN sendQueue.live
    PROVE  LET y == OldestLeft(q)
           IN /\ y \in Ids!Sequence /\ Age(y) <= Age(oldestUnacked)
              /\ \A z \in DOMAIN q.live : Age(z) <= Age(y)
              /\ y # sendMessageId => y \in DOMAIN q.live
              /\ oldestUnacked \in DOMAIN q.live => y = oldestUnacked
<1> DEFINE o == oldestUnacked
           n == Ids!Distance(o, q.next)
           left == {i \in 0..(n - 1) : Ids!Exists(q, Ids!Later(o, i))}
           P(y) == /\ y \in Ids!Sequence /\ Age(y) <= Age(o)
                   /\ \A z \in DOMAIN q.live : Age(z) <= Age(y)
                   /\ y # sendMessageId => y \in DOMAIN q.live
                   /\ o \in DOMAIN q.live => y = o
<1>1. /\ sendMessageId \in Ids!Sequence /\ o \in Ids!Sequence /\ DOMAIN sendQueue.live \subseteq Ids!Sequence
      /\ DOMAIN q.live \subseteq Ids!Sequence
  BY Typed
<1>2. /\ n = Age(o) /\ Age(o) \in Int /\ 0 <= Age(o) /\ Age(sendMessageId) = 0
      /\ \A z \in Ids!Sequence : Age(z) \in Int /\ 0 <= Age(z)
  BY <1>1, AgeIs DEF Age
<1>3. \A z \in DOMAIN q.live : z \in Ids!Sequence /\ 1 <= Age(z) /\ Age(z) <= Age(o)
  BY <1>1 DEF SenderInv
<1>4. \A i \in 0..(n - 1) : Ids!Later(o, i) \in Ids!Sequence /\ Age(Ids!Later(o, i)) = Age(o) - i
  <2>. TAKE i \in 0..(n - 1)
  <2>1. i \in Int /\ 0 <= i /\ i <= Age(o)
    BY <1>2
  <2> HIDE DEF n, left, P
  <2>. QED BY <2>1, <1>1, LaterAge
<1>5. \A z \in DOMAIN q.live : Age(o) - Age(z) \in left /\ Ids!Later(o, Age(o) - Age(z)) = z
  <2>. TAKE z \in DOMAIN q.live
  <2> DEFINE i == Age(o) - Age(z)
  <2>1. z \in Ids!Sequence /\ Age(z) \in Int /\ 1 <= Age(z) /\ Age(z) <= Age(o)
    BY <1>2, <1>3
  <2>2. i \in 0..(n - 1) /\ Age(o) - i = Age(z)
    BY <2>1, <1>2
  <2>3. Ids!Later(o, i) \in Ids!Sequence /\ Age(Ids!Later(o, i)) = Age(z)
    BY <2>2, <1>4
  <2>4. Ids!Later(o, i) = z
    <3> HIDE DEF i, n, left, P
    <3>. QED BY <2>1, <2>3, <1>1, OneAge
  <2>. QED BY <2>2, <2>4 DEF Ids!Exists
<1>6. CASE left = {}
  <2>1. OldestLeft(q) = sendMessageId
    BY <1>6 DEF OldestLeft
  <2>2. DOMAIN q.live = {}
    BY <1>5, <1>6
  <2>3. P(sendMessageId)
    BY <1>1, <1>2, <2>2
  <2> HIDE DEF P
  <2>4. P(OldestLeft(q))
    BY <2>1, <2>3
  <2>. QED BY <2>4 DEF P
<1>7. CASE left # {}
  <2> DEFINE c == CHOOSE i \in left : \A j \in left : i <= j
  <2>1. left \subseteq Nat
    BY <1>2
  <2>2. \E i \in left : \A j \in left : i <= j
    <3> HIDE DEF left
    <3>. QED BY <2>1, <1>7, Processing!Least
  <2>3. c \in left /\ \A j \in left : c <= j
    <3> HIDE DEF left
    <3>. QED BY <2>2
  <2>4. OldestLeft(q) = Ids!Later(o, c)
    BY <1>7 DEF OldestLeft
  <2> HIDE DEF c
  <2>5. c \in 0..(n - 1) /\ Ids!Later(o, c) \in DOMAIN q.live /\ c \in Int /\ 0 <= c
    BY <2>3, <1>2 DEF Ids!Exists
  <2>6. Ids!Later(o, c) \in Ids!Sequence /\ Age(Ids!Later(o, c)) = Age(o) - c
    BY <2>5, <1>4
  <2>7. \A z \in DOMAIN q.live : Age(z) <= Age(o) - c
    <3>. TAKE z \in DOMAIN q.live
    <3>1. Age(o) - Age(z) \in left
      BY <1>5
    <3>2. c <= Age(o) - Age(z)
      BY <2>3, <3>1
    <3>3. Age(z) \in Int
      BY <1>2, <1>3
    <3>. QED BY <3>2, <3>3, <2>5, <1>2
  <2>8. o \in DOMAIN q.live => Ids!Later(o, c) = o
    <3>. HAVE o \in DOMAIN q.live
    <3>1. Age(o) - Age(o) \in left /\ Ids!Later(o, Age(o) - Age(o)) = o /\ Age(o) - Age(o) = 0
      BY <1>2, <1>5
    <3>2. c <= 0
      BY <2>3, <3>1
    <3>3. c = 0
      BY <2>5, <3>2
    <3>. QED BY <3>1, <3>3
  <2>9. P(Ids!Later(o, c))
    BY <2>5, <2>6, <2>7, <2>8, <1>2
  <2> HIDE DEF P
  <2>10. P(OldestLeft(q))
    BY <2>4, <2>9
  <2>. QED BY <2>10 DEF P
<1>. QED BY <1>6, <1>7

LEMMA AckMessagesIs ==
    ASSUME Types, NEW ids
    PROVE  /\ AckMessages(ids) \in Buffers(Ids!Sequence, SendSize, Values)
           /\ AckMessages(ids).next = sendQueue.next
           /\ DOMAIN AckMessages(ids).live = DOMAIN sendQueue.live \ Range(ids)
           /\ \A y \in DOMAIN AckMessages(ids).live : AckMessages(ids).live[y] = sendQueue.live[y]
<1> DEFINE left == DOMAIN sendQueue.live \ Range(ids)
           f == [s \in left |-> sendQueue.live[s]]
<1>1. /\ sendQueue \in Buffers(Ids!Sequence, SendSize, Values) /\ sendQueue.next \in Ids!Sequence
      /\ sendQueue = [size |-> SendSize, next |-> sendQueue.next, live |-> sendQueue.live]
      /\ DOMAIN sendQueue.live \subseteq Ids!Sequence /\ \A y \in DOMAIN sendQueue.live : sendQueue.live[y] \in Values
      /\ WellFormed(SendSize, sendQueue)
  BY Typed, BufferIs
<1>2. AckMessages(ids) = [size |-> SendSize, next |-> sendQueue.next, live |-> f]
  BY <1>1 DEF AckMessages
<1>3. f \in [left -> Values] /\ left \in SUBSET Ids!Sequence /\ \A s, t \in left : s % SendSize = t % SendSize => s = t
  BY <1>1 DEF WellFormed
<1>4. [size |-> SendSize, next |-> sendQueue.next, live |-> f] \in Buffers(Ids!Sequence, SendSize, Values)
  <2> HIDE DEF f, left
  <2>. QED BY <1>1, <1>3, IsBuffer
<1>. QED BY <1>2, <1>4

\* What the acknowledgement of packet k does.
Acks(k) ==
    /\ k \in DOMAIN window /\ window[k].fate = "processed"
    /\ window' = [j \in DOMAIN window |-> IF j = k THEN [fate |-> "done", data |-> {}] ELSE window[j]]
    /\ sendMessageId' = sendMessageId /\ sentPackets' = sentPackets /\ packetSequence' = packetSequence
    /\ receiveMessageId' = receiveMessageId /\ receiveQueue' = receiveQueue /\ receiveBlock' = receiveBlock
    /\ error' = error /\ connected' = connected
    /\ sendQueue' \in Buffers(Ids!Sequence, SendSize, Values) /\ sendQueue'.next = sendQueue.next
    /\ DOMAIN sendQueue'.live \subseteq DOMAIN sendQueue.live
    /\ \A y \in DOMAIN sendQueue'.live : sendQueue'.live[y] = sendQueue.live[y]
    /\ \A y \in DOMAIN sendQueue.live : y \in DOMAIN sendQueue'.live \/ Received(y)
    /\ sendBlock' \in [active : BOOLEAN, id : Ids!Sequence, acked : SUBSET Nat]
    /\ sendBlock'.active => /\ sendBlock.active /\ sendBlock'.id = oldestUnacked
                            /\ oldestUnacked \in DOMAIN sendQueue'.live
                            /\ sendBlock'.acked \subseteq sendBlock.acked \union Told(oldestUnacked, k)
                            /\ sendBlock'.acked \subseteq 0..(Fragments[sendQueue.live[oldestUnacked]] - 1)
    /\ oldestUnacked' = IF sendQueue' = sendQueue THEN oldestUnacked ELSE OldestLeft(sendQueue')

\* A block of which all fragments are acknowledged has been received.
LEMMA AllAcked ==
    ASSUME Types, SenderInv, BlockInv, NEW A, sendBlock.active,
           A \subseteq 0..(Fragments[sendQueue.live[oldestUnacked]] - 1),
           Cardinality(A) = Fragments[sendQueue.live[oldestUnacked]],
           A \subseteq Claimed(oldestUnacked)
    PROVE  Received(oldestUnacked)
<1> DEFINE n == Fragments[sendQueue.live[oldestUnacked]]
<1>1. oldestUnacked \in DOMAIN sendQueue.live /\ oldestUnacked \in Ids!Sequence
  BY Typed DEF SenderInv, BlockAt
<1>2. n \in Nat
  BY <1>1, Typed, ValuesAssumption
<1>3. IsFiniteSet(0..(n - 1)) /\ Cardinality(0..(n - 1)) = n
  <2>1. 0 \in Int /\ n - 1 \in Int
    BY <1>2
  <2>2. IsFiniteSet(0..(n - 1)) /\ Cardinality(0..(n - 1)) = IF 0 > n - 1 THEN 0 ELSE (n - 1) - 0 + 1
    BY <2>1, FS_Interval
  <2>. QED BY <1>2, <2>2
<1>4. A = 0..(n - 1)
  <2> HIDE DEF n
  <2>1. Cardinality(A) = Cardinality(0..(n - 1)) /\ A \in SUBSET (0..(n - 1))
    BY <1>3 DEF n
  <2>. QED BY <1>3, <2>1, FS_Subset
<1>5. SUFFICES ASSUME ~Received(oldestUnacked) PROVE FALSE
  OBVIOUS
<1>6. \A i \in A : Assembling(oldestUnacked) /\ i \in Claimed(oldestUnacked)
  BY <1>1, <1>5 DEF BlockInv
<1>7. 0 \in A
  BY <1>1, <1>2, <1>4 DEF SenderInv, BlockAt, IsBlock
<1>8. receiveBlock.active /\ receiveBlock.id = oldestUnacked
  BY <1>6, <1>7 DEF Assembling
<1>9. receiveBlock.count = n /\ \E i \in 0..(receiveBlock.count - 1) : i \notin Claimed(receiveBlock.id)
  BY <1>8 DEF BlockInv
<1>. QED BY <1>4, <1>6, <1>8, <1>9

LEMMA AckFacts ==
    ASSUME Types, SenderInv, ReceiverInv, PacketInv, BlockInv, NEW k \in 1..Lifetime, ProcessAck(k)
    PROVE  Acks(k)
<1> DEFINE o == oldestUnacked
           Q == /\ sendQueue' \in Buffers(Ids!Sequence, SendSize, Values) /\ sendQueue'.next = sendQueue.next
                /\ DOMAIN sendQueue'.live \subseteq DOMAIN sendQueue.live
                /\ \A y \in DOMAIN sendQueue'.live : sendQueue'.live[y] = sendQueue.live[y]
                /\ \A y \in DOMAIN sendQueue.live : y \in DOMAIN sendQueue'.live \/ Received(y)
           B == /\ sendBlock' \in [active : BOOLEAN, id : Ids!Sequence, acked : SUBSET Nat]
                /\ sendBlock'.active => /\ sendBlock.active /\ sendBlock'.id = oldestUnacked
                            /\ oldestUnacked \in DOMAIN sendQueue'.live
                            /\ sendBlock'.acked \subseteq sendBlock.acked \union Told(oldestUnacked, k)
                            /\ sendBlock'.acked \subseteq 0..(Fragments[sendQueue.live[oldestUnacked]] - 1)
<1>1. /\ k \in DOMAIN window /\ window[k].fate = "processed"
      /\ window' = [j \in DOMAIN window |-> IF j = k THEN [fate |-> "done", data |-> {}] ELSE window[j]]
      /\ sendMessageId' = sendMessageId /\ sentPackets' = sentPackets /\ packetSequence' = packetSequence
      /\ receiveMessageId' = receiveMessageId /\ receiveQueue' = receiveQueue /\ receiveBlock' = receiveBlock
      /\ error' = error /\ connected' = connected
      /\ oldestUnacked' = IF sendQueue' = sendQueue THEN oldestUnacked ELSE OldestLeft(sendQueue')
  BY DEF ProcessAck, Service!Acknowledge, Service!Done, receiver
<1>2. /\ sendQueue \in Buffers(Ids!Sequence, SendSize, Values)
      /\ sendBlock \in [active : BOOLEAN, id : Ids!Sequence, acked : SUBSET Nat]
      /\ o \in Ids!Sequence
  BY DEF Types
<1>3. sendBlock.active => /\ sendBlock.id = o /\ o \in DOMAIN sendQueue.live /\ BlockAt(o)
                          /\ sendBlock.acked \subseteq 0..(Fragments[sendQueue.live[o]] - 1)
  BY DEF SenderInv, BlockAt
<1>4. ASSUME sendQueue' = sendQueue, sendBlock' = sendBlock PROVE Q /\ B
  BY <1>2, <1>3, <1>4
<1>5. ASSUME Packets!Exists(sentPackets, Number(k)) PROVE Q /\ B
  <2> DEFINE e == sentPackets.live[Number(k)]
  <2>1. e \in EntryOf(k) /\ EntryOf(k) = {e}
    BY <1>5 DEF EntryOf
  <2>2. e \in Entry /\ \A f, g \in e.fragment : f = g
    BY <2>1, EntryOfIs
  <2>3. EntryInv(e)
    BY <1>1, <2>1 DEF PacketInv
  <2>4. IF e.fragment = {} THEN sendQueue' = AckMessages(e.ids) /\ sendBlock' = sendBlock ELSE AckFragment(e)
    BY <1>5 DEF ProcessAck, Number
  <2> HIDE DEF e, Q, B
  <2>5. CASE e.fragment = {}
    <3>1. sendQueue' = AckMessages(e.ids) /\ sendBlock' = sendBlock
      BY <2>4, <2>5
    <3>2. /\ AckMessages(e.ids) \in Buffers(Ids!Sequence, SendSize, Values)
          /\ AckMessages(e.ids).next = sendQueue.next
          /\ DOMAIN AckMessages(e.ids).live = DOMAIN sendQueue.live \ Range(e.ids)
          /\ \A y \in DOMAIN AckMessages(e.ids).live : AckMessages(e.ids).live[y] = sendQueue.live[y]
      BY AckMessagesIs
    <3>3. \A y \in Range(e.ids) : Received(y) /\ ~BlockAt(y)
      BY <2>3 DEF EntryInv
    <3>4. Q
      BY <3>1, <3>2, <3>3 DEF Q
    <3>5. B
      BY <1>2, <1>3, <3>1, <3>2, <3>3 DEF B
    <3>. QED BY <3>4, <3>5
  <2>6. CASE e.fragment # {} /\ ~\E f \in e.fragment : sendBlock.active /\ f.id = sendBlock.id
    <3>1. sendQueue' = sendQueue /\ sendBlock' = sendBlock
      BY <2>4, <2>6 DEF AckFragment
    <3>. QED BY <3>1, <1>4
  <2>7. CASE \E f \in e.fragment : sendBlock.active /\ f.id = sendBlock.id
    <3> DEFINE A == sendBlock.acked \union {f.index : f \in e.fragment}
               n == Fragments[sendQueue.live[sendBlock.id]]
    <3>1. PICK f \in e.fragment : sendBlock.active /\ f.id = sendBlock.id
      BY <2>7
    <3>2. e.fragment = {f} /\ f.id = o /\ sendBlock.id = o
      BY <2>2, <3>1, <1>3
    <3>3. f.index \in Nat /\ f.index < Fragments[sendQueue.live[o]]
      <4>1. e.fragment \subseteq [id : Ids!Sequence, index : Nat]
        BY <2>2 DEF Entry
      <4>. QED BY <4>1, <2>3, <3>1, <3>2, <1>3 DEF EntryInv
    <3>4. f.index \in Told(o, k)
      <4>1. \A y, j, i : i \in Told(y, j) <=>
              /\ window[j].fate = "processed"
              /\ \E c \in EntryOf(j) : \E g \in c.fragment : g.id = y /\ i = g.index
        BY ElementsNow DEF Elements
      <4>. QED BY <4>1, <2>1, <3>1, <3>2, <1>1
    <3>5. Told(o, k) \subseteq Claimed(o) /\ sendBlock.acked \subseteq Claimed(o)
      <4>1. \A y, i : i \in Claimed(y) <=>
              \/ \E j \in DOMAIN window : i \in Told(y, j)
              \/ sendBlock.active /\ sendBlock.id = y /\ i \in sendBlock.acked
        BY ElementsNow DEF Elements
      <4>. QED BY <4>1, <3>1, <3>2, <1>1
    <3>6. /\ A \subseteq 0..(Fragments[sendQueue.live[o]] - 1) /\ A \subseteq sendBlock.acked \union Told(o, k)
          /\ A \subseteq Claimed(o) /\ A \subseteq Nat
      <4>1. A = sendBlock.acked \union {f.index}
        BY <3>2
      <4>2. Fragments[sendQueue.live[o]] \in Nat
        BY <1>3, <3>1, Typed, ValuesAssumption
      <4>3. f.index \in 0..(Fragments[sendQueue.live[o]] - 1)
        BY <3>3, <4>2
      <4> HIDE DEF A
      <4>. QED BY <4>1, <4>3, <3>1, <3>4, <3>5, <1>2, <1>3
    <3>7. IF Cardinality(A) = n
          THEN sendQueue' = Ids!Remove(sendQueue, sendBlock.id) /\ sendBlock' = Idle
          ELSE sendBlock' = [sendBlock EXCEPT !.acked = A] /\ sendQueue' = sendQueue
      <4>1. e.fragment # {}
        BY <3>1
      <4>. QED BY <2>4, <2>7, <4>1 DEF AckFragment
    <3> HIDE DEF A, n
    <3>8. CASE Cardinality(A) = n
      <4>1. sendQueue' = Ids!Remove(sendQueue, o) /\ sendBlock' = Idle
        BY <3>2, <3>7, <3>8
      <4>2. Received(o)
        BY <3>1, <3>2, <3>6, <3>8, AllAcked DEF n
      <4>3. /\ Ids!Remove(sendQueue, o) \in Buffers(Ids!Sequence, SendSize, Values)
            /\ Ids!Remove(sendQueue, o).next = sendQueue.next
            /\ DOMAIN Ids!Remove(sendQueue, o).live = {t \in DOMAIN sendQueue.live : t % SendSize # o % SendSize}
            /\ \A t \in DOMAIN Ids!Remove(sendQueue, o).live : Ids!Remove(sendQueue, o).live[t] = sendQueue.live[t]
        BY <1>2, RemoveIs
      <4>4. \A y \in DOMAIN sendQueue.live : y % SendSize = o % SendSize => y = o
        BY <1>2, <1>3, <3>1, BufferIs DEF WellFormed
      <4>5. Q
        BY <4>1, <4>2, <4>3, <4>4 DEF Q
      <4>6. B
        <5>1. Idle \in [active : BOOLEAN, id : Ids!Sequence, acked : SUBSET Nat] /\ ~Idle.active
          BY Bounds DEF Idle, Ids!Sequence
        <5>. QED BY <4>1, <5>1 DEF B
      <4>. QED BY <4>5, <4>6
    <3>9. CASE Cardinality(A) # n
      <4>1. sendBlock' = [sendBlock EXCEPT !.acked = A] /\ sendQueue' = sendQueue
        BY <3>7, <3>9
      <4>2. Q
        BY <4>1, <1>2 DEF Q
      <4>3. sendBlock' \in [active : BOOLEAN, id : Ids!Sequence, acked : SUBSET Nat]
            /\ sendBlock'.acked = A /\ sendBlock'.id = sendBlock.id /\ sendBlock'.active = sendBlock.active
        BY <4>1, <1>2, <3>6
      <4>4. B
        BY <4>1, <4>3, <3>1, <3>2, <3>6, <1>3 DEF B
      <4>. QED BY <4>2, <4>4
    <3>. QED BY <3>8, <3>9
  <2>. QED BY <2>5, <2>6, <2>7
<1>6. ASSUME ~Packets!Exists(sentPackets, Number(k)) PROVE Q /\ B
  <2>1. sendQueue' = sendQueue /\ sendBlock' = sendBlock
    BY <1>6 DEF ProcessAck, Number
  <2>. QED BY <2>1, <1>4
<1> HIDE DEF Q, B
<1>7. Q /\ B
  BY <1>5, <1>6
<1>. QED BY <1>1, <1>7 DEF Acks, Q, B

LEMMA AcksCalm ==
    ASSUME Types, NEW k, Acks(k)
    PROVE  /\ Calm
           /\ \A y : Age(y)' = Age(y) /\ (Received(y)' <=> Received(y))
           /\ \A y : BlockAt(y)' => BlockAt(y)
           /\ \A j : EntryOf(j)' = EntryOf(j) /\ Number(j)' = Number(j)
           /\ DOMAIN window' = DOMAIN window /\ DOMAIN window \subseteq Int
           /\ \A j \in DOMAIN window : j # k => window'[j] = window[j]
           /\ window'[k] = [fate |-> "done", data |-> {}]
<1>1. \A y : Age(y)' = Age(y)
  BY SameAge DEF Acks
<1>2. \A y : Received(y)' <=> Received(y)
  BY <1>1 DEF Acks, Received
<1>3. \A y : BlockAt(y)' => BlockAt(y)
  BY DEF Acks, BlockAt
<1>4. \A j : EntryOf(j)' = EntryOf(j) /\ Number(j)' = Number(j)
  BY DEF Acks, EntryOf, Number
<1>5. Calm
  BY <1>1, <1>2 DEF Acks, Calm
<1>. QED BY <1>1, <1>2, <1>3, <1>4, <1>5, Typed DEF Acks

LEMMA AcksSender ==
    ASSUME Types, SenderInv, NEW k, Acks(k)
    PROVE  SenderInv' /\ oldestUnacked' \in Ids!Sequence
<1>1. /\ \A y : Age(y)' = Age(y) /\ sendMessageId' = sendMessageId
      /\ sendMessageId \in Ids!Sequence /\ oldestUnacked \in Ids!Sequence
  BY AcksCalm, Typed DEF Acks
<1>2. /\ oldestUnacked' \in Ids!Sequence /\ Age(oldestUnacked') <= Age(oldestUnacked)
      /\ \A z \in DOMAIN sendQueue'.live : Age(z) <= Age(oldestUnacked')
      /\ oldestUnacked' # sendMessageId => oldestUnacked' \in DOMAIN sendQueue'.live
      /\ oldestUnacked \in DOMAIN sendQueue'.live => oldestUnacked' = oldestUnacked
  <2>1. CASE sendQueue' = sendQueue
    <3>1. oldestUnacked' = oldestUnacked
      BY <2>1 DEF Acks
    <3>2. Age(oldestUnacked) \in Int
      BY <1>1, AgeIs
    <3>. QED BY <2>1, <3>1, <3>2, <1>1 DEF SenderInv
  <2>2. CASE sendQueue' # sendQueue
    <3> DEFINE q == sendQueue'
    <3>1. oldestUnacked' = OldestLeft(q)
      BY <2>2 DEF Acks
    <3>2. q \in Buffers(Ids!Sequence, SendSize, Values) /\ q.next = sendMessageId
          /\ DOMAIN q.live \subseteq DOMAIN sendQueue.live
      BY DEF Acks, SenderInv
    <3> HIDE DEF q
    <3>3. LET y == OldestLeft(q)
           IN /\ y \in Ids!Sequence /\ Age(y) <= Age(oldestUnacked)
              /\ \A z \in DOMAIN q.live : Age(z) <= Age(y)
              /\ y # sendMessageId => y \in DOMAIN q.live
              /\ oldestUnacked \in DOMAIN q.live => y = oldestUnacked
      BY <3>2, OldestIs
    <3>. QED BY <3>1, <3>3 DEF q
  <2>. QED BY <2>1, <2>2
<1>3. Age(oldestUnacked)' = Age(oldestUnacked')
  BY <1>1 DEF Age
<1>4. Age(oldestUnacked)' <= SendSize
  <2>1. Age(oldestUnacked) \in Int /\ Age(oldestUnacked') \in Int /\ SendSize \in Int
    BY <1>1, <1>2, AgeIs, Bounds
  <2>. QED BY <2>1, <1>2, <1>3 DEF SenderInv
<1>5. \A y \in DOMAIN sendQueue'.live : 1 <= Age(y)' /\ Age(y)' <= Age(oldestUnacked)'
  BY <1>1, <1>2, <1>3 DEF Acks, SenderInv
<1>6. sendBlock'.active => /\ sendBlock'.id = oldestUnacked' /\ BlockAt(oldestUnacked)'
                           /\ sendBlock'.acked \subseteq 0..(Fragments[sendQueue'.live[oldestUnacked']] - 1)
  <2>. HAVE sendBlock'.active
  <2>1. /\ sendBlock.active /\ sendBlock'.id = oldestUnacked /\ oldestUnacked \in DOMAIN sendQueue'.live
        /\ sendQueue'.live[oldestUnacked] = sendQueue.live[oldestUnacked]
        /\ sendBlock'.acked \subseteq 0..(Fragments[sendQueue.live[oldestUnacked]] - 1)
    BY DEF Acks
  <2>2. oldestUnacked' = oldestUnacked
    BY <1>2, <2>1
  <2>3. BlockAt(oldestUnacked)
    BY <2>1 DEF SenderInv
  <2>. QED BY <2>1, <2>2, <2>3 DEF BlockAt
<1>7. sendQueue'.next = sendMessageId'
  BY <1>1 DEF Acks, SenderInv
<1>. QED BY <1>1, <1>2, <1>4, <1>5, <1>6, <1>7 DEF SenderInv

LEMMA AcksTypes ==
    ASSUME Types, SenderInv, NEW k, Acks(k)
    PROVE  Types'
<1>1. oldestUnacked' \in Ids!Sequence
  BY AcksSender
<1>2. window' \in Seq(Packet) /\ Len(window') <= Lifetime
  <2> DEFINE p == [fate |-> "done", data |-> {}]
  <2>1. p \in Packet
    BY DEF Packet
  <2> HIDE DEF p
  <2>2. window' = [j \in DOMAIN window |-> IF j = k THEN p ELSE window[j]]
    BY DEF Acks, p
  <2>3. window \in Seq(Packet) /\ DOMAIN window = 1..Len(window) /\ Len(window) \in Nat /\ Len(window) <= Lifetime
    BY Typed
  <2>. QED BY <2>1, <2>2, <2>3
<1>. QED BY <1>1, <1>2 DEF Acks, Types

LEMMA AcksQueues ==
    ASSUME Types, SentInv, ReceiverInv, TransitInv, DesyncOnlyIfBehind, NEW k, Acks(k)
    PROVE  SentInv' /\ ReceiverInv' /\ TransitInv' /\ DesyncOnlyIfBehind'
<1>1. /\ \A y : Age(y)' = Age(y) /\ (Received(y)' <=> Received(y))
      /\ receiveMessageId' = receiveMessageId /\ receiveQueue' = receiveQueue
      /\ error' = error /\ connected' = connected
      /\ sentPackets' = sentPackets /\ packetSequence' = packetSequence
  BY AcksCalm DEF Acks
<1>2. /\ Age(receiveQueue.next)' = Age(receiveQueue.next)
      /\ Age(receiveMessageId)' = Age(receiveMessageId)
  BY <1>1 DEF Age
<1>3. ReceiverInv'
  BY <1>1, <1>2 DEF ReceiverInv
<1>4. TransitInv'
  <2>1. ASSUME NEW y \in Ids!Sequence, 1 <= Age(y), Age(y) <= Age(receiveMessageId)
        PROVE  y \in DOMAIN receiveQueue.live \union DOMAIN sendQueue'.live
    <3>1. y \in DOMAIN receiveQueue.live \union DOMAIN sendQueue.live
      BY <2>1 DEF TransitInv
    <3>2. Age(y) \in Int /\ Age(receiveMessageId) \in Int
      BY Typed, AgeIs
    <3>3. y \in DOMAIN sendQueue.live => y \in DOMAIN sendQueue'.live \/ Received(y)
      BY DEF Acks
    <3>. QED BY <3>1, <3>2, <3>3, <2>1 DEF Received
  <2>. QED BY <1>1, <1>2, <2>1 DEF TransitInv, Acks
<1>5. DesyncOnlyIfBehind'
  BY <1>1 DEF DesyncOnlyIfBehind
<1>6. SentInv'
  BY <1>1 DEF SentInv, PacketAge
<1>. QED BY <1>3, <1>4, <1>5, <1>6

LEMMA AcksPackets ==
    ASSUME Types, PacketInv, NEW k, Acks(k)
    PROVE  PacketInv'
<1>1. /\ Calm
      /\ \A j : EntryOf(j)' = EntryOf(j)
      /\ DOMAIN window' = DOMAIN window
      /\ \A j \in DOMAIN window : j # k => window'[j] = window[j]
      /\ window'[k] = [fate |-> "done", data |-> {}]
  BY AcksCalm
<1>2. ASSUME NEW c \in Data, DataInv(c) PROVE DataInv(c)'
  BY <1>1, <1>2, CalmData
<1>3. ASSUME NEW e \in Entry, EntryInv(e) PROVE EntryInv(e)'
  BY <1>1, <1>3, CalmEntry
<1>4. \A c, e : RecordOf(c, e)' <=> RecordOf(c, e)
  BY DEF RecordOf
<1> SUFFICES ASSUME NEW j \in DOMAIN window'
             PROVE  /\ \A c \in window'[j].data : DataInv(c)' /\ \A e \in EntryOf(j)' : RecordOf(c, e)'
                    /\ window'[j].fate = "processed" => \A e \in EntryOf(j)' : EntryInv(e)'
  BY DEF PacketInv
<1>5. CASE j = k
  BY <1>1, <1>5
<1>6. CASE j # k
  <2>1. j \in DOMAIN window /\ window'[j] = window[j] /\ EntryOf(j)' = EntryOf(j)
    BY <1>1, <1>6
  <2>2. \A c \in window[j].data : c \in Data /\ DataInv(c) /\ \A e \in EntryOf(j) : RecordOf(c, e)
    BY <2>1, CarriedIs DEF PacketInv
  <2>3. \A e \in EntryOf(j) : e \in Entry /\ (window[j].fate = "processed" => EntryInv(e))
    BY <2>1, EntryOfIs DEF PacketInv
  <2>. QED BY <1>2, <1>3, <1>4, <2>1, <2>2, <2>3
<1>. QED BY <1>5, <1>6

LEMMA AcksFlight ==
    ASSUME Types, FlightInv, NEW k, Acks(k)
    PROVE  FlightInv'
<1>1. /\ \A y : Age(y)' = Age(y) /\ (Received(y)' <=> Received(y))
      /\ \A j : EntryOf(j)' = EntryOf(j) /\ Number(j)' = Number(j)
      /\ DOMAIN window' = DOMAIN window /\ DOMAIN window = 1..Len(window) /\ Len(window) \in Nat
      /\ \A j \in DOMAIN window : j # k => window'[j] = window[j]
      /\ window'[k] = [fate |-> "done", data |-> {}]
      /\ k \in DOMAIN window /\ window[k].fate = "processed"
  BY AcksCalm, Typed DEF Acks
<1>2. \A x : Overtaken(x)' = Overtaken(x)
  BY <1>1 DEF Overtaken
<1>3. ASSUME NEW j \in DOMAIN window PROVE Arrived(j)' = Arrived(j)
  <2>1. \A i \in 1..(j - 1) : window'[i].fate # "flying" <=> window[i].fate # "flying"
    BY <1>1
  <2>. QED BY <2>1, <1>1 DEF Arrived
<1>4. ASSUME NEW j \in DOMAIN window, NEW x \in Carried(j)' PROVE x \in Carried(j)
  <2>1. /\ \A i, y : y \in Carried(i) <=>
              \/ \E c \in window[i].data : y \in IdsOf(c)
              \/ window[i].fate = "processed" /\ \E e \in EntryOf(i) : y \in Remembered(e)
        /\ \A i, y : y \in Carried(i)' <=>
              \/ \E c \in window'[i].data : y \in IdsOf(c)'
              \/ window'[i].fate = "processed" /\ \E e \in EntryOf(i)' : y \in Remembered(e)'
    BY ElementsNow, ElementsNext DEF Elements
  <2>2. \A c : IdsOf(c)' = IdsOf(c) /\ Remembered(c)' = Remembered(c)
    BY DEF IdsOf, Remembered
  <2>. QED BY <1>1, <1>4, <2>1, <2>2
<1>. QED BY <1>1, <1>2, <1>3, <1>4 DEF FlightInv

LEMMA AcksBlock ==
    ASSUME Types, SenderInv, ReceiverInv, BlockInv, NEW k, Acks(k)
    PROVE  BlockInv'
<1>1. /\ \A y : Age(y)' = Age(y) /\ (Received(y)' <=> Received(y)) /\ (BlockAt(y)' => BlockAt(y))
      /\ \A j : EntryOf(j)' = EntryOf(j)
      /\ DOMAIN window' = DOMAIN window
      /\ \A j \in DOMAIN window : j # k => window'[j] = window[j]
      /\ window'[k] = [fate |-> "done", data |-> {}] /\ k \in DOMAIN window
      /\ receiveQueue' = receiveQueue /\ receiveBlock' = receiveBlock /\ error' = error
  BY AcksCalm DEF Acks
<1>2. /\ \A y, j, i : i \in Told(y, j) <=>
            /\ window[j].fate = "processed"
            /\ \E e \in EntryOf(j) : \E g \in e.fragment : g.id = y /\ i = g.index
      /\ \A y, j, i : i \in Told(y, j)' <=>
            /\ window'[j].fate = "processed"
            /\ \E e \in EntryOf(j)' : \E g \in e.fragment : g.id = y /\ i = g.index
      /\ \A y, i : i \in Claimed(y) <=>
            \/ \E j \in DOMAIN window : i \in Told(y, j)
            \/ sendBlock.active /\ sendBlock.id = y /\ i \in sendBlock.acked
      /\ \A y, i : i \in Claimed(y)' <=>
            \/ \E j \in DOMAIN window' : i \in Told(y, j)'
            \/ sendBlock'.active /\ sendBlock'.id = y /\ i \in sendBlock'.acked
  BY ElementsNow, ElementsNext DEF Elements
<1>3. ASSUME NEW y, NEW i \in Claimed(y)' PROVE i \in Claimed(y)
  <2>1. CASE \E j \in DOMAIN window' : i \in Told(y, j)'
    <3>1. PICK j \in DOMAIN window' : i \in Told(y, j)'
      BY <2>1
    <3>2. i \in Told(y, j) /\ j \in DOMAIN window
      BY <1>1, <1>2, <3>1
    <3>. QED BY <1>2, <3>2
  <2>2. CASE sendBlock'.active /\ sendBlock'.id = y /\ i \in sendBlock'.acked
    <3>1. /\ sendBlock.active /\ y = oldestUnacked /\ sendBlock.id = oldestUnacked
          /\ i \in sendBlock.acked \union Told(oldestUnacked, k)
      BY <2>2 DEF Acks, SenderInv
    <3>. QED BY <3>1, <1>1, <1>2
  <2>. QED BY <2>1, <2>2, <1>2, <1>3
<1>4. \A y : Assembling(y)' <=> Assembling(y)
  BY <1>1 DEF Assembling
<1>5. \A y \in Ids!Sequence : \A i \in Claimed(y)' :
          Received(y)' \/ (Assembling(y)' /\ i \in DOMAIN receiveBlock'.received)
  BY <1>1, <1>3, <1>4 DEF BlockInv
<1>6. \A y \in DOMAIN sendQueue'.live : BlockAt(y)' /\ ~Received(y)' => Age(y)' <= Age(receiveQueue.next)'
  BY <1>1 DEF BlockInv, Age, BlockAt
<1>7. ~Received(receiveQueue.next)
  <2>1. Age(receiveQueue.next) \in Int /\ Age(receiveMessageId) \in Int
    BY Typed, AgeIs
  <2>. QED BY <2>1 DEF ReceiverInv, Received
<1>8. ASSUME receiveBlock.active
      PROVE  /\ receiveBlock.id = receiveQueue.next /\ BlockAt(receiveBlock.id)'
             /\ receiveBlock.count = Fragments[sendQueue'.live[receiveBlock.id]]
             /\ DOMAIN receiveBlock.received \subseteq 0..(receiveBlock.count - 1)
             /\ error.receiver = "none" =>
                   \E i \in 0..(receiveBlock.count - 1) : i \notin DOMAIN receiveBlock.received
             /\ \E i \in 0..(receiveBlock.count - 1) : i \notin Claimed(receiveBlock.id)'
             /\ \A i \in DOMAIN receiveBlock.received :
                   receiveBlock.received[i] = [id |-> receiveBlock.id, value |-> sendQueue'.live[receiveBlock.id]]
  <2>1. \E i \in 0..(receiveBlock.count - 1) : i \notin Claimed(receiveBlock.id)'
    <3>1. PICK i \in 0..(receiveBlock.count - 1) : i \notin Claimed(receiveBlock.id)
      BY <1>8 DEF BlockInv
    <3>2. \A y : i \in Claimed(y)' => i \in Claimed(y)
      BY <1>3
    <3>. QED BY <3>1, <3>2, <1>1 DEF Claimed, Told
  <2>2. receiveBlock.id = receiveQueue.next /\ BlockAt(receiveBlock.id)
    BY <1>8 DEF BlockInv
  <2>3. receiveBlock.id \in DOMAIN sendQueue'.live
        /\ sendQueue'.live[receiveBlock.id] = sendQueue.live[receiveBlock.id]
    BY <2>2, <1>7 DEF Acks, BlockAt
  <2>4. BlockAt(receiveBlock.id)'
    BY <1>1, <2>2, <2>3 DEF BlockAt
  <2>. QED BY <2>1, <2>3, <2>4, <1>8 DEF BlockInv
<1>. QED BY <1>1, <1>5, <1>6, <1>8 DEF BlockInv

LEMMA AckInv == ASSUME Inv, NEW k \in 1..Lifetime, ProcessAck(k) PROVE Inv'
<1>1. /\ Types /\ SenderInv /\ SentInv /\ ReceiverInv /\ TransitInv /\ FlightInv
      /\ PacketInv /\ BlockInv /\ DesyncOnlyIfBehind
  BY DEF Inv
<1>2. Acks(k)
  BY <1>1, AckFacts
<1>3. SenderInv' /\ Types'
  BY <1>1, <1>2, AcksSender, AcksTypes
<1>4. SentInv' /\ ReceiverInv' /\ TransitInv' /\ DesyncOnlyIfBehind'
  BY <1>1, <1>2, AcksQueues
<1>5. PacketInv' /\ FlightInv' /\ BlockInv'
  BY <1>1, <1>2, AcksPackets, AcksFlight, AcksBlock
<1>. QED BY <1>3, <1>4, <1>5 DEF Inv
(***************************************************************************)
(* A packet arrives.                                                       *)
(***************************************************************************)
\* What the receiver's queue holds lies between what it waits for and its newest.
Fits(b) ==
    /\ Age(b.next) <= Age(receiveMessageId)
    /\ Age(receiveMessageId) <= Age(b.next) + ReceiveSize
    /\ \A y \in DOMAIN b.live : Age(b.next) < Age(y) /\ Age(y) <= Age(receiveMessageId)

LEMMA ReceiveInsert ==
    ASSUME sendMessageId \in Ids!Sequence, receiveMessageId \in Ids!Sequence,
           NEW b \in Buffers(Ids!Sequence, ReceiveSize, Values), Fits(b),
           NEW x \in Ids!Sequence, NEW v \in Values, x \notin DOMAIN b.live,
           1 <= Age(x), Age(x) <= Age(receiveMessageId), Age(receiveMessageId) < Age(x) + ReceiveSize
    PROVE  LET c == Ids!Insert(b, x, v, Lap(IdWrap))
           IN /\ c \in Buffers(Ids!Sequence, ReceiveSize, Values) /\ Fits(c)
              /\ DOMAIN c.live = DOMAIN b.live \union {x} /\ c.live[x] = v
              /\ \A t \in DOMAIN b.live : c.live[t] = b.live[t]
              /\ Age(c.next) <= Age(b.next)
              /\ c.next = b.next \/ Age(c.next) = Age(x) - 1
<1> DEFINE W == IdWrap
           N == Ids!Sequence
           s == sendMessageId
           r == Age(receiveMessageId)
           n == Ids!Later(x, 1)
           c == Ids!Insert(b, x, v, Lap(IdWrap))
<1>1. /\ W \in Nat \ {0} /\ ReceiveSize \in Nat \ {0} /\ W % ReceiveSize = 0 /\ SendSize \in Nat \ {0}
      /\ 2 * (SendSize + ReceiveSize) <= W /\ 2 * ReceiveSize < W
      /\ N = 0..(W - 1)
  <2>1. /\ W \in Nat \ {0} /\ ReceiveSize \in Nat \ {0} /\ W % ReceiveSize = 0 /\ SendSize \in Nat \ {0}
        /\ 2 * (SendSize + ReceiveSize) <= W
    BY Bounds
  <2>2. 2 * ReceiveSize < W
    <3> HIDE DEF W, c, n, r
    <3>. QED BY <2>1
  <2>. QED BY <2>1, <2>2 DEF Ids!Sequence
<1>2. /\ b.next \in N /\ DOMAIN b.live \subseteq N /\ b.size = ReceiveSize /\ WellFormed(ReceiveSize, b)
  BY BufferIs
<1>3. \A y \in N : Age(y) = Gap(W, y, s) /\ Age(y) \in Int /\ 0 <= Age(y) /\ Age(y) < W
  BY AgeIs
<1>4. n \in N /\ Age(n) = Age(x) - 1
  <2> DEFINE one == 1
  <2>1. one \in Int /\ 0 <= one /\ one <= Age(x)
    OBVIOUS
  <2>2. Ids!Later(x, one) \in N /\ Age(Ids!Later(x, one)) = Age(x) - one
    <3> HIDE DEF one
    <3>. QED BY <2>1, LaterAge
  <2>. QED BY ONLY <2>2
<1>5. /\ r \in Int /\ Age(x) \in Int /\ Age(b.next) \in Int /\ 0 <= Age(b.next)
      /\ Age(b.next) <= r /\ r <= Age(b.next) + ReceiveSize
      /\ 1 <= Age(x) /\ Age(x) <= r /\ r < Age(x) + ReceiveSize
      /\ \A y \in DOMAIN b.live : Age(y) \in Int /\ Age(b.next) < Age(y) /\ Age(y) <= r
  BY <1>2, <1>3 DEF Fits
<1>6. Ids!GreaterThan(n, b.next) <=> Age(x) - 1 < Age(b.next)
  <2> DEFINE one == 1
             zero == 0
             u == b.next
  <2>1. one \in Int /\ zero \in Int /\ u \in N
        /\ 2 * ((Age(x) - one) - (Age(u) - zero)) < W /\ 2 * ((Age(u) - zero) - (Age(x) - one)) < W
    <3> DEFINE a == Age(x)
               o == Age(b.next)
    <3>1. /\ a \in Int /\ o \in Int /\ ReceiveSize \in Nat \ {0} /\ W \in Nat /\ 2 * ReceiveSize < W
          /\ a <= r /\ o <= r /\ r <= o + ReceiveSize /\ r < a + ReceiveSize /\ r \in Int
      BY <1>1, <1>5
    <3> HIDE DEF a, o, r, W, c, n
    <3>2. 2 * ((a - 1) - (o - 0)) < W /\ 2 * ((o - 0) - (a - 1)) < W
      <4>1. (a - 1) - o < ReceiveSize /\ o - (a - 1) <= ReceiveSize
        BY ONLY <3>1
      <4>. QED BY ONLY <3>1, <4>1
    <3>. QED BY <1>2, <3>2 DEF a, o
  <2>2. n = (x + one) % W /\ u = (u + zero) % W
    <3>0. u \in 0..(W - 1) /\ u \in Int
      BY <1>1, <1>2
    <3>1. u % W = u /\ u + 0 = u
      <4>1. W \in Nat \ {0}
        BY <1>1
      <4> HIDE DEF u, W, n, c, zero, one
      <4>2. u % W = u
        BY ONLY <3>0, <4>1, Small
      <4>. QED BY <3>0, <4>2
    <3>. QED BY <3>1 DEF Ids!Later
  <2> HIDE DEF one, zero, u, n, c
  <2>3. Ids!GreaterThan(n, u) <=> Age(x) - one < Age(u) - zero
    BY <2>1, <2>2, GreaterAge
  <2>4. Age(u) - zero = Age(b.next) /\ Age(x) - one = Age(x) - 1
    BY <1>5 DEF zero, one, u
  <2>. QED BY <2>3, <2>4 DEF u
<1>7. CASE Age(x) <= Age(b.next)
  <2> DEFINE e == Ids!SetEntry([Ids!RemoveEntries(b, b.next, x, W - 1) EXCEPT !.next = n], x, v)
  <2>1. Ids!GreaterThan(n, b.next)
    BY <1>5, <1>6, <1>7
  <2>2. c = e
    BY <2>1 DEF Ids!Insert, Ids!Refuses, Ids!Put, Ids!Advance, Lap
  <2>3. Gap(W, x, s) <= Gap(W, b.next, s)
    BY <1>2, <1>3, <1>7
  <2>4. \A t \in DOMAIN b.live : Gap(W, t, s) - Gap(W, b.next, s) \in 1..ReceiveSize
    <3>. TAKE t \in DOMAIN b.live
    <3>1. Age(t) = Gap(W, t, s) /\ Age(b.next) = Gap(W, b.next, s)
      BY <1>2, <1>3
    <3>. QED BY <3>1, <1>1, <1>5
  <2>5. /\ e \in Buffers(0..(W - 1), ReceiveSize, Values)
        /\ e.next = n
        /\ DOMAIN e.live = {t \in DOMAIN b.live : Gap(W, t, s) - Gap(W, x, s) < ReceiveSize} \union {x}
        /\ e.live[x] = v
        /\ \A t \in DOMAIN e.live : t # x => e.live[t] = b.live[t]
    <3>1. /\ W \in Nat \ {0} /\ ReceiveSize \in Nat \ {0} /\ W % ReceiveSize = 0
          /\ b \in Buffers(0..(W - 1), ReceiveSize, Values) /\ s \in 0..(W - 1) /\ x \in 0..(W - 1)
          /\ n \in 0..(W - 1) /\ v \in Values
      BY <1>1, <1>4
    <3>2. e = Ids!SetEntry([Ids!RemoveEntries(b, b.next, x, W - 1) EXCEPT !.next = n], x, v)
      OBVIOUS
    <3> HIDE DEF W, s, n, c, e
    <3>. QED BY ONLY <2>3, <2>4, <3>1, <3>2, PutNewer
  <2>6. {t \in DOMAIN b.live : Gap(W, t, s) - Gap(W, x, s) < ReceiveSize} = DOMAIN b.live
    <3>1. \A t \in DOMAIN b.live : Gap(W, t, s) - Gap(W, x, s) < ReceiveSize
      <4>. TAKE t \in DOMAIN b.live
      <4>1. Age(t) = Gap(W, t, s) /\ Age(x) = Gap(W, x, s)
        BY <1>2, <1>3
      <4>. QED BY <4>1, <1>1, <1>5
    <3>. QED BY <3>1
  <2> HIDE DEF e, n
  <2>7. /\ c \in Buffers(N, ReceiveSize, Values) /\ c.next = n
        /\ DOMAIN c.live = DOMAIN b.live \union {x} /\ c.live[x] = v
        /\ \A t \in DOMAIN b.live : c.live[t] = b.live[t]
    BY <1>1, <2>2, <2>5, <2>6
  <2> HIDE DEF c
  <2>8. Fits(c)
    <3>1. \A y \in DOMAIN c.live : Age(n) < Age(y) /\ Age(y) <= r
      <4>. TAKE y \in DOMAIN c.live
      <4>1. CASE y = x
        BY <4>1, <1>4, <1>5
      <4>2. CASE y \in DOMAIN b.live
        BY <4>2, <1>4, <1>5, <1>7
      <4>. QED BY <4>1, <4>2, <2>7
    <3>2. Age(n) <= r /\ r <= Age(n) + ReceiveSize
      BY <1>1, <1>4, <1>5
    <3>. QED BY <3>1, <3>2, <2>7 DEF Fits
  <2>9. Age(c.next) <= Age(b.next) /\ Age(c.next) = Age(x) - 1
    BY <2>7, <1>4, <1>5, <1>7
  <2>. QED BY <2>7, <2>8, <2>9 DEF c
<1>8. CASE Age(x) > Age(b.next)
  <2> DEFINE e == Ids!SetEntry(b, x, v)
  <2>1. ~Ids!GreaterThan(n, b.next)
    BY <1>5, <1>6, <1>8
  <2>2. ~Ids!TooOld(b, x)
    <3> DEFINE zero == 0
               m == -ReceiveSize
               u == b.next
               w == (u + m) % W
    <3>1. zero \in Int /\ m \in Int /\ u \in N
          /\ 2 * ((Age(x) - zero) - (Age(u) - m)) < W /\ 2 * ((Age(u) - m) - (Age(x) - zero)) < W
      <4> DEFINE d == (Age(x) - zero) - (Age(u) - m)
      <4>1. d \in Int /\ d <= 0 /\ -ReceiveSize < d /\ (Age(u) - m) - (Age(x) - zero) = -d
        <5> DEFINE a == Age(x)
                   o == Age(b.next)
        <5>1. /\ a \in Int /\ o \in Int /\ ReceiveSize \in Int /\ r \in Int
              /\ o < a /\ a <= r /\ r <= o + ReceiveSize
          BY <1>1, <1>5, <1>8
        <5> HIDE DEF a, o, r, W, c, e, n
        <5>2. (a - 0) - (o - (-ReceiveSize)) \in Int /\ (a - 0) - (o - (-ReceiveSize)) <= 0
          BY ONLY <5>1
        <5>. QED BY <5>1, <5>2 DEF a, o
      <4>2. 2 * d < W /\ 2 * (-d) < W
        <5> HIDE DEF d, W, c, e, n, u
        <5>. QED BY <4>1, <1>1
      <4>3. zero \in Int /\ m \in Int /\ u \in N
        BY <1>1, <1>2
      <4>4. 2 * ((Age(u) - m) - (Age(x) - zero)) < W
        BY ONLY <4>1, <4>2
      <4>5. 2 * ((Age(x) - zero) - (Age(u) - m)) < W
        BY ONLY <4>2 DEF d
      <4>. QED BY ONLY <4>3, <4>4, <4>5
    <3>2. x = (x + zero) % W
      <4>1. x % W = x /\ x + 0 = x
        BY <1>1, Small
      <4>. QED BY <4>1
    <3>3. w = (b.next - b.size) % W
      <4>1. b.next + m = b.next - b.size
        BY <1>1, <1>2
      <4>. QED BY <4>1
    <3> HIDE DEF zero, m, u, n, c, e
    <3>4. Ids!LessThan(x, w) <=> Age(x) - zero > Age(u) - m
      BY <3>1, <3>2, GreaterAge
    <3>5. ~(Age(x) - zero > Age(u) - m)
      BY <1>1, <1>5 DEF zero, m, u
    <3>. QED BY <3>3, <3>4, <3>5 DEF Ids!TooOld
  <2>3. c = e
    BY <2>1, <2>2 DEF Ids!Insert, Ids!Refuses, Ids!Put, Ids!Advance
  <2>4. /\ e \in Buffers(N, ReceiveSize, Values)
        /\ e.next = b.next
        /\ DOMAIN e.live = {t \in DOMAIN b.live : t % ReceiveSize # x % ReceiveSize} \union {x}
        /\ e.live[x] = v
        /\ \A t \in DOMAIN b.live : t % ReceiveSize # x % ReceiveSize => e.live[t] = b.live[t]
    <3>1. b \in Buffers(N, ReceiveSize, Values) /\ x \in N /\ v \in Values
      OBVIOUS
    <3> HIDE DEF N, n, c, r
    <3>. QED BY <3>1, SetEntryIs
  <2>5. \A t \in DOMAIN b.live : t % ReceiveSize # x % ReceiveSize
    <3>. TAKE t \in DOMAIN b.live
    <3>1. t \in N /\ Age(t) - Age(x) < ReceiveSize /\ Age(x) - Age(t) < ReceiveSize /\ t # x
      BY <1>1, <1>2, <1>5, <1>8
    <3>2. ReceiveSize \in Nat \ {0} /\ IdWrap % ReceiveSize = 0
      BY <1>1
    <3>3. t % ReceiveSize = x % ReceiveSize => t = x
      <4> HIDE DEF c, e, n
      <4>. QED BY <3>1, <3>2, SlotAge
    <3>. QED BY <3>1, <3>3
  <2> HIDE DEF e, n
  <2>6. /\ c \in Buffers(N, ReceiveSize, Values) /\ c.next = b.next
        /\ DOMAIN c.live = DOMAIN b.live \union {x} /\ c.live[x] = v
        /\ \A t \in DOMAIN b.live : c.live[t] = b.live[t]
    BY <2>3, <2>4, <2>5
  <2> HIDE DEF c
  <2>7. Fits(c)
    <3>1. \A y \in DOMAIN c.live : Age(b.next) < Age(y) /\ Age(y) <= r
      BY <2>6, <1>5, <1>8
    <3>. QED BY <3>1, <2>6, <1>5 DEF Fits
  <2>8. Age(c.next) <= Age(b.next)
    BY <2>6, <1>5
  <2>. QED BY <2>6, <2>7, <2>8 DEF c
<1>. QED BY <1>5, <1>7, <1>8
-----------------------------------------------------------------------------
\* What holds of the queue and the error while the messages of a packet are processed.
Kept(q) ==
    /\ Fits(q.queue)
    /\ \A y \in DOMAIN receiveQueue.live :
          y \in DOMAIN q.queue.live /\ q.queue.live[y] = receiveQueue.live[y]
    /\ \A y \in DOMAIN q.queue.live :
          y \in DOMAIN receiveQueue.live \/ (y \in DOMAIN sendQueue.live /\ q.queue.live[y] = sendQueue.live[y])
    /\ Age(q.queue.next) <= Age(receiveQueue.next)
    /\ \A y \in DOMAIN sendQueue.live :
          BlockAt(y) /\ Age(y) <= Age(receiveQueue.next) => Age(y) <= Age(q.queue.next)
    /\ q.error => receiveMessageId \in DOMAIN receiveQueue.live
Got(q, m) == q.error \/ Age(m.id) > Age(receiveMessageId) \/ m.id \in DOMAIN q.queue.live
Queued == [queue : Buffers(Ids!Sequence, ReceiveSize, Values), error : BOOLEAN]

\* The comparisons of ProcessPacketMessages mean what they should.
LEMMA Compared ==
    ASSUME sendMessageId \in Ids!Sequence, receiveMessageId \in Ids!Sequence,
           Age(receiveMessageId) <= SendSize + ReceiveSize,
           NEW x \in Ids!Sequence, 1 <= Age(x), Age(x) <= Age(receiveMessageId) + Reach
    PROVE  /\ Ids!LessThan(x, receiveMessageId) <=> Age(x) > Age(receiveMessageId)
           /\ Age(x) <= Age(receiveMessageId) =>
                 (Ids!GreaterThan(x, LastTaken) <=> Age(x) + ReceiveSize <= Age(receiveMessageId))
<1> DEFINE W == IdWrap
           a == Age(x)
           z == receiveMessageId
           r == Age(z)
           zero == 0
           last == ReceiveSize - 1
<1>1. /\ W \in Nat \ {0} /\ ReceiveSize \in Nat \ {0} /\ SendSize \in Nat \ {0} /\ Reach \in Nat
      /\ 2 * (SendSize + ReceiveSize) <= W /\ 2 * Reach < W
  BY Bounds
<1>2. a \in Int /\ r \in Int /\ 0 <= r /\ 1 <= a /\ a <= r + Reach /\ r <= SendSize + ReceiveSize
  BY AgeIs
<1>3. /\ zero \in Int /\ last \in Int /\ x \in Ids!Sequence /\ z \in Ids!Sequence
      /\ a - zero = a /\ r - zero = r /\ r - last = r - ReceiveSize + 1
  BY <1>1, <1>2
<1>4. x = (x + zero) % W /\ z = (z + zero) % W
  <2>1. W \in Nat \ {0} /\ x \in 0..(W - 1) /\ z \in 0..(W - 1) /\ x \in Int /\ z \in Int
    BY <1>1 DEF Ids!Sequence
  <2> HIDE DEF W, z
  <2>2. x % W = x /\ z % W = z
    BY ONLY <2>1, Small
  <2>. QED BY <2>1, <2>2
<1>5. 2 * (a - r) < W /\ 2 * (r - a) < W
  <2>1. a - r <= Reach /\ r - a <= SendSize + ReceiveSize - 1 /\ a - r \in Int /\ r - a \in Int
    BY <1>1, <1>2
  <2> HIDE DEF a, r, W
  <2>. QED BY <1>1, <2>1
<1>6. Ids!LessThan(x, z) <=> a > r
  <2>1. 2 * ((a - zero) - (r - zero)) < W /\ 2 * ((r - zero) - (a - zero)) < W
    BY <1>3, <1>5
  <2> HIDE DEF zero, z, last
  <2>2. Ids!LessThan(x, z) <=> Age(x) - zero > Age(z) - zero
    BY <2>1, <1>3, <1>4, GreaterAge
  <2>. QED BY <2>2, <1>3
<1>7. ASSUME a <= r PROVE Ids!GreaterThan(x, LastTaken) <=> a + ReceiveSize <= r
  <2> DEFINE d == a - (r - last)
             v == (z + last) % W
  <2>1. d \in Int /\ d <= ReceiveSize - 1 /\ -d <= SendSize /\ (r - last) - a = -d
    BY <1>1, <1>2, <1>7
  <2>2. 2 * d < W /\ 2 * (-d) < W
    <3> HIDE DEF d, a, r, W, last
    <3>. QED BY <1>1, <2>1
  <2>3. 2 * ((a - zero) - (r - last)) < W /\ 2 * ((r - last) - (a - zero)) < W
    BY <2>1, <2>2, <1>3
  <2>4. v = LastTaken
    BY DEF LastTaken, Ids!Later
  <2> HIDE DEF zero, z, last, v, d
  <2>5. Ids!GreaterThan(x, v) <=> Age(x) - zero < Age(z) - last
    BY <2>3, <1>3, <1>4, GreaterAge DEF v
  <2>6. Age(x) - zero < Age(z) - last <=> a + ReceiveSize <= r
    BY <1>1, <1>2, <1>3
  <2>. QED BY <2>4, <2>5, <2>6
<1>. QED BY <1>6, <1>7

\* One message of a packet.
LEMMA MessageStep ==
    ASSUME Types, SenderInv, ReceiverInv, TransitInv, NEW m \in Message, MessageInv(m),
           1 <= Age(m.id), Age(m.id) <= Age(receiveMessageId) + Reach,
           \A y \in DOMAIN sendQueue.live : BlockAt(y) => Age(y) <= Age(m.id),
           NEW q \in Queued, Kept(q)
    PROVE  LET p == Processed(q, m)
           IN /\ p \in Queued /\ Kept(p) /\ Got(p, m) /\ (q.error => p.error)
              /\ DOMAIN q.queue.live \subseteq DOMAIN p.queue.live
              /\ DOMAIN p.queue.live \subseteq DOMAIN q.queue.live \union {m.id}
<1> DEFINE x == m.id
           r == Age(receiveMessageId)
           P(p) == /\ p \in Queued /\ Kept(p) /\ Got(p, m) /\ (q.error => p.error)
                   /\ DOMAIN q.queue.live \subseteq DOMAIN p.queue.live
                   /\ DOMAIN p.queue.live \subseteq DOMAIN q.queue.live \union {x}
<1>1. x \in Ids!Sequence /\ m.value \in Values
  BY DEF Message
<1>2. /\ sendMessageId \in Ids!Sequence /\ receiveMessageId \in Ids!Sequence /\ r <= SendSize + ReceiveSize
      /\ receiveQueue.next \in Ids!Sequence /\ DOMAIN sendQueue.live \subseteq Ids!Sequence
  BY Typed, Behind
<1>3. Age(x) \in Int /\ r \in Int /\ 1 <= Age(x)
  BY <1>1, <1>2, AgeIs
<1>4. /\ Ids!LessThan(x, receiveMessageId) <=> Age(x) > r
      /\ Age(x) <= r => (Ids!GreaterThan(x, LastTaken) <=> Age(x) + ReceiveSize <= r)
  <2> HIDE DEF x
  <2>1. 1 <= Age(x) /\ Age(x) <= Age(receiveMessageId) + Reach
    BY DEF x
  <2>. QED BY <1>1, <1>2, <2>1, Compared
<1>5. q.queue \in Buffers(Ids!Sequence, ReceiveSize, Values) /\ q.error \in BOOLEAN
      /\ q = [queue |-> q.queue, error |-> q.error]
  BY DEF Queued
<1>6. CASE q.error \/ Ids!LessThan(x, receiveMessageId)
  <2>1. Processed(q, m) = q
    BY <1>6 DEF Processed
  <2>2. P(q)
    BY <1>4, <1>6 DEF Got
  <2> HIDE DEF P
  <2>3. P(Processed(q, m))
    BY <2>1, <2>2
  <2>. QED BY <2>3 DEF P
<1>7. CASE ~(q.error \/ Ids!LessThan(x, receiveMessageId)) /\ Ids!GreaterThan(x, LastTaken)
  <2> DEFINE p == [q EXCEPT !.error = TRUE]
  <2>1. Processed(q, m) = p
    BY <1>7 DEF Processed
  <2>2. p.queue = q.queue /\ p.error = TRUE /\ p \in Queued
    BY <1>5 DEF Queued
  <2>3. receiveMessageId \in DOMAIN receiveQueue.live
    <3>1. Received(receiveMessageId)
      <4>1. Age(x) <= r
        BY <1>3, <1>4, <1>7
      <4>. QED BY <4>1, <1>2, <1>4, <1>7 DEF MessageInv
    <3>. QED BY <3>1, <1>3 DEF Received
  <2> HIDE DEF p
  <2>4. P(p)
    BY <2>2, <2>3 DEF Kept, Got
  <2> HIDE DEF P
  <2>5. P(Processed(q, m))
    BY <2>1, <2>4
  <2>. QED BY <2>5 DEF P
<1>8. CASE /\ ~(q.error \/ Ids!LessThan(x, receiveMessageId)) /\ ~Ids!GreaterThan(x, LastTaken)
           /\ Ids!Exists(q.queue, x)
  <2>1. Processed(q, m) = q
    BY <1>8 DEF Processed
  <2>2. P(q)
    BY <1>8 DEF Got, Ids!Exists
  <2> HIDE DEF P
  <2>3. P(Processed(q, m))
    BY <2>1, <2>2
  <2>. QED BY <2>3 DEF P
<1>9. CASE /\ ~(q.error \/ Ids!LessThan(x, receiveMessageId)) /\ ~Ids!GreaterThan(x, LastTaken)
           /\ ~Ids!Exists(q.queue, x)
  <2> DEFINE b == q.queue
             c == Ids!Insert(b, x, m.value, Lap(IdWrap))
             p == [q EXCEPT !.queue = c]
  <2>1. Processed(q, m) = p
    BY <1>9 DEF Processed
  <2>2. p.queue = c /\ p.error = q.error
    BY <1>5
  <2>3. Fits(b)
    BY DEF Kept
  <2>4. x \notin DOMAIN b.live /\ Age(x) <= r /\ r < Age(x) + ReceiveSize
    BY <1>3, <1>4, <1>9, Bounds DEF Ids!Exists
  <2>5. /\ c \in Buffers(Ids!Sequence, ReceiveSize, Values) /\ Fits(c)
        /\ DOMAIN c.live = DOMAIN b.live \union {x} /\ c.live[x] = m.value
        /\ \A t \in DOMAIN b.live : c.live[t] = b.live[t]
        /\ Age(c.next) <= Age(b.next)
        /\ c.next = b.next \/ Age(c.next) = Age(x) - 1
    <3> DEFINE v == m.value
    <3>1. v \in Values /\ b \in Buffers(Ids!Sequence, ReceiveSize, Values) /\ 1 <= Age(x)
      BY <1>1, <1>3, <1>5
    <3> HIDE DEF x, v, b, p, P, c
    <3>. QED BY <1>1, <1>2, <2>3, <2>4, <3>1, ReceiveInsert DEF c, v
  <2>6. x \notin DOMAIN receiveQueue.live
    BY <2>4 DEF Kept
  <2>7. x \in DOMAIN sendQueue.live /\ sendQueue.live[x] = m.value
    <3>1. ~Received(x)
      BY <1>3, <2>4, <2>6 DEF Received
    <3>2. x \in DOMAIN sendQueue.live
      <4> HIDE DEF x
      <4>. QED BY <1>1, <1>3, <3>1, OldReceived
    <3>. QED BY <3>2 DEF MessageInv
  <2>8. ASSUME NEW y \in DOMAIN sendQueue.live, BlockAt(y), Age(y) <= Age(receiveQueue.next)
        PROVE  Age(y) <= Age(c.next)
    <3>1. Age(y) <= Age(b.next)
      BY <2>8 DEF Kept
    <3>2. Age(y) <= Age(x)
      BY <2>8
    <3>3. y # x
      BY <2>7, <2>8 DEF BlockAt, MessageInv
    <3>4. Age(y) # Age(x)
      <4>1. y \in Ids!Sequence
        BY <1>2
      <4> HIDE DEF x
      <4>. QED BY <1>1, <1>2, <3>3, <4>1, OneAge
    <3>5. Age(y) \in Int
      BY <1>2, AgeIs
    <3> HIDE DEF c, x, b
    <3>. QED BY <3>1, <3>2, <3>4, <3>5, <1>3, <2>5
  <2>9. Age(c.next) <= Age(receiveQueue.next)
    <3>1. Age(b.next) <= Age(receiveQueue.next)
      BY DEF Kept
    <3>2. b.next \in Ids!Sequence /\ c.next \in Ids!Sequence
      BY <1>5, <2>5, BufferIs
    <3>3. Age(b.next) \in Int /\ Age(c.next) \in Int /\ Age(receiveQueue.next) \in Int
      BY <1>2, <3>2, AgeIs
    <3> HIDE DEF c, b
    <3>. QED BY <2>5, <3>1, <3>3
  <2> HIDE DEF c
  <2>10. p \in Queued
    BY <1>5, <2>5 DEF Queued
  <2> HIDE DEF p
  <2>11. Kept(p)
    <3>1. \A y \in DOMAIN c.live :
             y \in DOMAIN receiveQueue.live \/ (y \in DOMAIN sendQueue.live /\ c.live[y] = sendQueue.live[y])
      BY <2>5, <2>7 DEF Kept
    <3>2. \A y \in DOMAIN receiveQueue.live : y \in DOMAIN c.live /\ c.live[y] = receiveQueue.live[y]
      BY <2>5 DEF Kept
    <3>. QED BY <1>9, <2>2, <2>5, <2>8, <2>9, <3>1, <3>2 DEF Kept
  <2>12. Got(p, m)
    BY <2>2, <2>5 DEF Got
  <2>13. P(p)
    BY <1>9, <2>2, <2>5, <2>10, <2>11, <2>12
  <2> HIDE DEF P
  <2>14. P(Processed(q, m))
    BY <2>1, <2>13
  <2>. QED BY <2>14 DEF P
<1>. QED BY <1>6, <1>7, <1>8, <1>9

LEMMA ProcessedIs ==
    ASSUME NEW r, NEW b PROVE FoldLeft(Processed, r, b) = Processing!Folded(r, b)
BY DEF Processing!Folded, FoldLeft, Processing!FoldLeft, MapThenFoldSet, Processing!MapThenFoldSet,
       Max, Processing!Max

\* All messages of a packet.
LEMMA MessagesKept ==
    ASSUME Types, SenderInv, ReceiverInv, TransitInv, NEW d \in Data, DataInv(d),
           \A x \in IdsOf(d) : 1 <= Age(x) /\ Age(x) <= Age(receiveMessageId) + Reach
    PROVE  LET done == FoldLeft(Processed, [queue |-> receiveQueue, error |-> FALSE], d.messages)
           IN /\ done \in Queued /\ Kept(done)
              /\ \A i \in DOMAIN d.messages : Got(done, d.messages[i])
              /\ \A y \in DOMAIN done.queue.live : y \in DOMAIN receiveQueue.live \union IdsOf(d)
<1> DEFINE m == d.messages
           n == Len(m)
           base == [queue |-> receiveQueue, error |-> FALSE]
           R == [i \in 0..n |->
                   {q \in Queued : /\ Kept(q) /\ \A j \in 1..i : Got(q, m[j])
                                   /\ \A y \in DOMAIN q.queue.live : y \in DOMAIN receiveQueue.live \union IdsOf(d)}]
<1>1. /\ m \in Seq(Message) /\ n \in Nat /\ DOMAIN m = 1..n
  BY DataIs
<1>2. \A i \in 1..n : m[i] \in Message /\ m[i].id \in IdsOf(d)
  BY <1>1 DEF IdsOf
<1>3. base \in R[0]
  <2>1. base \in Queued
    BY Typed DEF Queued
  <2>2. Age(receiveQueue.next) \in Int
    BY Typed, AgeIs
  <2>3. Kept(base)
    BY <2>2 DEF Kept, Fits, ReceiverInv
  <2>4. 0 \in 0..n
    BY <1>1
  <2>. QED BY <2>1, <2>3, <2>4
<1>4. ASSUME NEW i \in 1..n, NEW q \in R[i - 1] PROVE Processed(q, m[i]) \in R[i]
  <2> DEFINE g == m[i]
             p == Processed(q, g)
  <2>0. i - 1 \in 0..n /\ i \in 0..n /\ i \in Int
    BY <1>1
  <2>1. /\ q \in Queued /\ Kept(q) /\ \A j \in 1..(i - 1) : Got(q, m[j])
        /\ \A y \in DOMAIN q.queue.live : y \in DOMAIN receiveQueue.live \union IdsOf(d)
    BY <2>0
  <2>2. g \in Message /\ g.id \in IdsOf(d) /\ MessageInv(g)
    BY <1>1, <1>2 DEF DataInv
  <2>3. /\ 1 <= Age(g.id) /\ Age(g.id) <= Age(receiveMessageId) + Reach
        /\ \A y \in DOMAIN sendQueue.live : BlockAt(y) => Age(y) <= Age(g.id)
    BY <2>2 DEF DataInv
  <2>4. /\ p \in Queued /\ Kept(p) /\ Got(p, g) /\ (q.error => p.error)
        /\ DOMAIN q.queue.live \subseteq DOMAIN p.queue.live
        /\ DOMAIN p.queue.live \subseteq DOMAIN q.queue.live \union {g.id}
    <3> HIDE DEF g, R, base
    <3>. QED BY <2>1, <2>2, <2>3, MessageStep DEF p
  <2> HIDE DEF p
  <2>5. \A j \in 1..i : Got(p, m[j])
    <3>. TAKE j \in 1..i
    <3>1. CASE j = i
      BY <3>1, <2>4
    <3>2. CASE j # i
      <4>1. j \in 1..(i - 1)
        BY <3>2, <2>0
      <4>2. Got(q, m[j])
        BY <4>1, <2>1
      <4>. QED BY <4>2, <2>4 DEF Got
    <3>. QED BY <3>1, <3>2
  <2>6. \A y \in DOMAIN p.queue.live : y \in DOMAIN receiveQueue.live \union IdsOf(d)
    BY <2>1, <2>2, <2>4
  <2>7. p \in R[i]
    BY <2>0, <2>4, <2>5, <2>6
  <2>. QED BY <2>7 DEF p
<1>5. Processing!Folded(base, m) \in R[n]
  <2> HIDE DEF R, base, m, n
  <2>. QED BY <1>1, <1>3, <1>4, Processing!FoldInvariant
<1>6. FoldLeft(Processed, base, m) = Processing!Folded(base, m)
  BY ProcessedIs
<1>7. n \in 0..n
  BY <1>1
<1> DEFINE done == FoldLeft(Processed, base, m)
<1>8. done \in R[n]
  <2> HIDE DEF R
  <2>. QED BY <1>5, <1>6
<1> HIDE DEF done
<1>9. /\ done \in Queued /\ Kept(done) /\ \A j \in 1..n : Got(done, m[j])
      /\ \A y \in DOMAIN done.queue.live : y \in DOMAIN receiveQueue.live \union IdsOf(d)
  BY <1>7, <1>8
<1>. QED BY <1>1, <1>9 DEF done

\* What the receiver does with packet k, which carries d, and takes or not.
Takes(k, d, taken) ==
    /\ k \in DOMAIN window /\ window[k].fate = "flying" /\ window[k].data = {d} /\ taken \in BOOLEAN
    /\ window' = [window EXCEPT ![k] = IF taken THEN [fate |-> "processed", data |-> {}]
                                                ELSE [fate |-> "done", data |-> {}]]
    /\ sendMessageId' = sendMessageId /\ oldestUnacked' = oldestUnacked /\ sendQueue' = sendQueue
    /\ sentPackets' = sentPackets /\ sendBlock' = sendBlock /\ packetSequence' = packetSequence
    /\ receiveMessageId' = receiveMessageId /\ connected' = connected
    /\ receiveQueue' \in Buffers(Ids!Sequence, ReceiveSize, Values) /\ Fits(receiveQueue')
    /\ \A y \in DOMAIN receiveQueue.live : y \in DOMAIN receiveQueue'.live /\ receiveQueue'.live[y] = receiveQueue.live[y]
    /\ \A y \in DOMAIN receiveQueue'.live :
          \/ y \in DOMAIN receiveQueue.live
          \/ y \in DOMAIN sendQueue.live /\ receiveQueue'.live[y] = sendQueue.live[y] /\ y \in IdsOf(d)
    /\ receiveBlock' \in [active : BOOLEAN, id : Ids!Sequence, count : Nat, received : Block]
    /\ error.receiver = "none"
    /\ error' \in [sender : {"none", "send queue full"}, receiver : {"none", "desync"}]
    /\ error'.receiver = IF taken THEN "none" ELSE "desync"
    /\ error'.sender = error.sender
    /\ ~taken => receiveMessageId \in DOMAIN receiveQueue.live
    /\ taken => \A i \in DOMAIN d.messages :
                   Age(d.messages[i].id) > Age(receiveMessageId) \/ d.messages[i].id \in DOMAIN receiveQueue'.live

LEMMA MessagesTaken ==
    ASSUME Types, SenderInv, ReceiverInv, TransitInv, FlightInv, NEW k \in DOMAIN window, NEW d \in Data,
           window[k].data = {d}, d.fragment = {}, DataInv(d), error.receiver = "none",
           ProcessMessages(k, d.messages), UNCHANGED <<sender, receiveMessageId, connected>>
    PROVE  /\ \E taken \in BOOLEAN : Takes(k, d, taken)
           /\ receiveBlock' = receiveBlock
           /\ Age(receiveQueue'.next) <= Age(receiveQueue.next)
           /\ \A y \in DOMAIN sendQueue.live :
                 BlockAt(y) /\ Age(y) <= Age(receiveQueue.next) => Age(y) <= Age(receiveQueue'.next)
<1> DEFINE done == FoldLeft(Processed, [queue |-> receiveQueue, error |-> FALSE], d.messages)
           taken == ~done.error
<1>1. \A x \in IdsOf(d) : 1 <= Age(x) /\ Age(x) <= Age(receiveMessageId) + Reach
  <2>1. IdsOf(d) \subseteq Carried(k)
    BY CarriedIs
  <2>. QED BY <2>1, FlightAge
<1>2. /\ done \in Queued /\ Kept(done)
      /\ \A i \in DOMAIN d.messages : Got(done, d.messages[i])
      /\ \A y \in DOMAIN done.queue.live : y \in DOMAIN receiveQueue.live \union IdsOf(d)
  BY <1>1, MessagesKept
<1>3. /\ receiveQueue' = done.queue
      /\ error' = [error EXCEPT !.receiver = IF done.error THEN "desync" ELSE @]
      /\ Service!Deliver(k, ~done.error)
      /\ receiveBlock' = receiveBlock
  BY DEF ProcessMessages
<1> HIDE DEF done
<1>4. done.queue \in Buffers(Ids!Sequence, ReceiveSize, Values) /\ done.error \in BOOLEAN
  BY <1>2 DEF Queued
<1>5. /\ window[k].fate = "flying"
      /\ window' = [window EXCEPT ![k] = IF taken THEN [fate |-> "processed", data |-> {}]
                                                  ELSE [fate |-> "done", data |-> {}]]
  BY <1>3 DEF Service!Deliver, Service!Processed, Service!Done
<1>6. /\ error \in [sender : {"none", "send queue full"}, receiver : {"none", "desync"}]
      /\ receiveBlock \in [active : BOOLEAN, id : Ids!Sequence, count : Nat, received : Block]
  BY DEF Types
<1>7. /\ error' \in [sender : {"none", "send queue full"}, receiver : {"none", "desync"}]
      /\ error'.receiver = IF taken THEN "none" ELSE "desync"
      /\ error'.sender = error.sender
  BY <1>3, <1>6
<1>8. taken \in BOOLEAN
  BY <1>4
<1>9. /\ Fits(done.queue)
      /\ \A y \in DOMAIN receiveQueue.live : y \in DOMAIN done.queue.live /\ done.queue.live[y] = receiveQueue.live[y]
      /\ \A y \in DOMAIN done.queue.live :
            y \in DOMAIN receiveQueue.live \/ (y \in DOMAIN sendQueue.live /\ done.queue.live[y] = sendQueue.live[y])
      /\ Age(done.queue.next) <= Age(receiveQueue.next)
      /\ \A y \in DOMAIN sendQueue.live :
            BlockAt(y) /\ Age(y) <= Age(receiveQueue.next) => Age(y) <= Age(done.queue.next)
      /\ done.error => receiveMessageId \in DOMAIN receiveQueue.live
  BY <1>2 DEF Kept
<1>10. taken => \A i \in DOMAIN d.messages :
          Age(d.messages[i].id) > Age(receiveMessageId) \/ d.messages[i].id \in DOMAIN done.queue.live
  BY <1>2 DEF Got
<1>11. Takes(k, d, taken)
  <2>1. \A y \in DOMAIN done.queue.live :
          \/ y \in DOMAIN receiveQueue.live
          \/ y \in DOMAIN sendQueue.live /\ done.queue.live[y] = sendQueue.live[y] /\ y \in IdsOf(d)
    BY <1>2, <1>9
  <2> HIDE DEF taken
  <2>2. ~taken => receiveMessageId \in DOMAIN receiveQueue.live
    BY <1>9 DEF taken
  <2>. QED BY <1>3, <1>4, <1>5, <1>6, <1>7, <1>8, <1>9, <1>10, <2>1, <2>2 DEF Takes, sender
<1> HIDE DEF taken
<1>. QED BY <1>3, <1>8, <1>9, <1>11
-----------------------------------------------------------------------------
LEMMA TakesCalm ==
    ASSUME Types, ReceiverInv, NEW k, NEW d, NEW taken, Takes(k, d, taken)
    PROVE  /\ Calm
           /\ \A y : Age(y)' = Age(y)
           /\ Age(receiveMessageId)' = Age(receiveMessageId)
           /\ Age(receiveQueue.next)' = Age(receiveQueue'.next)
           /\ \A y : (Received(y) => Received(y)') /\ (Received(y)' => Received(y) \/ y \in IdsOf(d))
           /\ \A y : BlockAt(y)' <=> BlockAt(y)
           /\ \A j : EntryOf(j)' = EntryOf(j) /\ Number(j)' = Number(j)
           /\ k \in DOMAIN window /\ DOMAIN window' = DOMAIN window /\ DOMAIN window \subseteq Int
           /\ \A j \in DOMAIN window : j # k => window'[j] = window[j]
           /\ window'[k] = [fate |-> IF taken THEN "processed" ELSE "done", data |-> {}]
<1>1. \A y : Age(y)' = Age(y)
  BY SameAge DEF Takes
<1>2. Age(receiveMessageId)' = Age(receiveMessageId)
  BY DEF Takes, Age
<1>3. Age(receiveQueue.next)' = Age(receiveQueue'.next)
  BY DEF Takes, Age
<1>4. \A y : (Received(y) => Received(y)') /\ (Received(y)' => Received(y) \/ y \in IdsOf(d))
  BY <1>1, <1>2 DEF Takes, Received
<1>5. \A y : BlockAt(y)' <=> BlockAt(y)
  BY DEF Takes, BlockAt
<1>6. \A j : EntryOf(j)' = EntryOf(j) /\ Number(j)' = Number(j)
  BY DEF Takes, EntryOf, Number
<1>7. Calm
  BY <1>4 DEF Takes, Calm
<1>8. /\ k \in DOMAIN window /\ DOMAIN window' = DOMAIN window
      /\ \A j \in DOMAIN window : j # k => window'[j] = window[j]
      /\ window'[k] = [fate |-> IF taken THEN "processed" ELSE "done", data |-> {}]
  BY DEF Takes
<1>9. DOMAIN window \subseteq Int
  BY Typed
<1>. QED BY <1>1, <1>2, <1>3, <1>4, <1>5, <1>6, <1>7, <1>8, <1>9

LEMMA TakesTypes ==
    ASSUME Types, NEW k, NEW d, NEW taken, Takes(k, d, taken)
    PROVE  Types'
<1>1. window' \in Seq(Packet) /\ Len(window') <= Lifetime
  <2> DEFINE p == IF taken THEN [fate |-> "processed", data |-> {}] ELSE [fate |-> "done", data |-> {}]
  <2>1. p \in Packet
    BY DEF Packet
  <2> HIDE DEF p
  <2>2. window' = [j \in DOMAIN window |-> IF j = k THEN p ELSE window[j]]
    BY DEF Takes, p
  <2>3. window \in Seq(Packet) /\ DOMAIN window = 1..Len(window) /\ Len(window) \in Nat /\ Len(window) <= Lifetime
    BY Typed
  <2>. QED BY <2>1, <2>2, <2>3
<1>. QED BY <1>1 DEF Takes, Types

LEMMA TakesQueues ==
    ASSUME Types, SenderInv, SentInv, ReceiverInv, TransitInv, NEW k, NEW d, NEW taken, Takes(k, d, taken)
    PROVE  SenderInv' /\ SentInv' /\ ReceiverInv' /\ TransitInv' /\ DesyncOnlyIfBehind'
<1>1. /\ \A y : Age(y)' = Age(y)
      /\ Age(receiveMessageId)' = Age(receiveMessageId)
      /\ Age(receiveQueue.next)' = Age(receiveQueue'.next)
      /\ \A y : BlockAt(y)' <=> BlockAt(y)
  BY TakesCalm
<1>2. /\ sendMessageId' = sendMessageId /\ oldestUnacked' = oldestUnacked /\ sendQueue' = sendQueue
      /\ sentPackets' = sentPackets /\ sendBlock' = sendBlock /\ packetSequence' = packetSequence
      /\ receiveMessageId' = receiveMessageId
  BY DEF Takes
<1>3. Age(oldestUnacked)' = Age(oldestUnacked)
  BY <1>2 DEF Age
<1>4. BlockAt(oldestUnacked)' <=> BlockAt(oldestUnacked)
  BY <1>2 DEF BlockAt
<1>5. SenderInv'
  BY <1>1, <1>2, <1>3, <1>4 DEF SenderInv
<1>6. SentInv'
  BY <1>2 DEF SentInv, PacketAge
<1>7. ReceiverInv'
  <2>1. Fits(receiveQueue')
    BY DEF Takes
  <2>. QED BY <1>1, <2>1 DEF ReceiverInv, Fits
<1>8. TransitInv'
  <2>1. \A y \in Ids!Sequence : 1 <= Age(y) /\ Age(y) <= Age(receiveMessageId) =>
              y \in DOMAIN receiveQueue'.live \union DOMAIN sendQueue.live
    BY DEF Takes, TransitInv
  <2>2. \A y \in Ids!Sequence : y \in DOMAIN receiveQueue'.live \intersect DOMAIN sendQueue.live =>
              receiveQueue'.live[y] = sendQueue.live[y]
    BY DEF Takes, TransitInv
  <2>. QED BY <1>1, <1>2, <2>1, <2>2 DEF TransitInv
<1>9. DesyncOnlyIfBehind'
  BY <1>2 DEF Takes, DesyncOnlyIfBehind, Ids!Exists
<1>. QED BY <1>5, <1>6, <1>7, <1>8, <1>9

\* What the sender remembers of a packet was received with it.
LEMMA TakenEntry ==
    ASSUME Types, ReceiverInv, NEW k, NEW d \in Data, Takes(k, d, TRUE), DataInv(d),
           NEW e \in Entry, RecordOf(d, e)
    PROVE  EntryInv(e)'
<1>1. /\ \A y : BlockAt(y)' <=> BlockAt(y)
      /\ \A y : Age(y)' = Age(y)
      /\ Age(receiveMessageId)' = Age(receiveMessageId)
      /\ sendQueue' = sendQueue
  BY TakesCalm DEF Takes
<1>2. DOMAIN d.messages = 1..Len(d.messages) /\ d.fragment \subseteq Fragment
      /\ \A f \in d.fragment : f.index < Fragments[f.value] /\ IsBlock(f.value)
  BY DataIs
<1>3. ASSUME NEW y \in Range(e.ids) PROVE Received(y)' /\ ~BlockAt(y)'
  <2>1. PICK i \in DOMAIN d.messages : y = d.messages[i].id
    BY DEF RecordOf, Range
  <2>2. Age(d.messages[i].id) > Age(receiveMessageId) \/ d.messages[i].id \in DOMAIN receiveQueue'.live
    BY DEF Takes
  <2>3. Received(y)'
    BY <1>1, <2>1, <2>2 DEF Received
  <2>4. MessageInv(d.messages[i])
    BY DEF DataInv
  <2>5. ~BlockAt(y)
    BY <2>1, <2>4 DEF MessageInv, BlockAt
  <2>. QED BY <1>1, <2>3, <2>5
<1>4. ASSUME NEW g \in e.fragment, g.id \in DOMAIN sendQueue.live
      PROVE  BlockAt(g.id) /\ g.index < Fragments[sendQueue.live[g.id]]
  <2>1. PICK f \in d.fragment : g = [id |-> f.id, index |-> f.index]
    BY DEF RecordOf
  <2>2. g.id = f.id /\ g.index = f.index
    BY <2>1
  <2>3. FragmentInv(f) /\ f.index < Fragments[f.value] /\ IsBlock(f.value)
    BY <1>2 DEF DataInv
  <2>. QED BY <1>4, <2>2, <2>3 DEF FragmentInv, BlockAt
<1>. QED BY <1>1, <1>3, <1>4 DEF EntryInv

LEMMA TakesPackets ==
    ASSUME Types, ReceiverInv, PacketInv, NEW k, NEW d \in Data, NEW taken, Takes(k, d, taken)
    PROVE  PacketInv'
<1>1. /\ Calm
      /\ \A j : EntryOf(j)' = EntryOf(j)
      /\ k \in DOMAIN window /\ DOMAIN window' = DOMAIN window
      /\ \A j \in DOMAIN window : j # k => window'[j] = window[j]
      /\ window'[k] = [fate |-> IF taken THEN "processed" ELSE "done", data |-> {}]
      /\ window[k].data = {d} /\ taken \in BOOLEAN
  BY TakesCalm DEF Takes
<1>2. ASSUME NEW c \in Data, DataInv(c) PROVE DataInv(c)'
  BY <1>1, <1>2, CalmData
<1>3. ASSUME NEW e \in Entry, EntryInv(e) PROVE EntryInv(e)'
  BY <1>1, <1>3, CalmEntry
<1>4. \A c, e : RecordOf(c, e)' <=> RecordOf(c, e)
  BY DEF RecordOf
<1> SUFFICES ASSUME NEW j \in DOMAIN window'
             PROVE  /\ \A c \in window'[j].data : DataInv(c)' /\ \A e \in EntryOf(j)' : RecordOf(c, e)'
                    /\ window'[j].fate = "processed" => \A e \in EntryOf(j)' : EntryInv(e)'
  BY DEF PacketInv
<1>5. CASE j = k
  <2>1. window'[j].data = {} /\ (window'[j].fate = "processed" => taken)
    BY <1>1, <1>5
  <2>2. ASSUME taken, NEW e \in EntryOf(k) PROVE EntryInv(e)'
    <3>1. e \in Entry
      BY EntryOfIs
    <3>2. DataInv(d) /\ RecordOf(d, e)
      BY <1>1 DEF PacketInv
    <3>3. Takes(k, d, TRUE)
      BY <1>1, <2>2
    <3>. QED BY <3>1, <3>2, <3>3, TakenEntry
  <2>. QED BY <1>1, <1>5, <2>1, <2>2
<1>6. CASE j # k
  <2>1. j \in DOMAIN window /\ window'[j] = window[j] /\ EntryOf(j)' = EntryOf(j)
    BY <1>1, <1>6
  <2>2. \A c \in window[j].data : c \in Data /\ DataInv(c) /\ \A e \in EntryOf(j) : RecordOf(c, e)
    BY <2>1, CarriedIs DEF PacketInv
  <2>3. \A e \in EntryOf(j) : e \in Entry /\ (window[j].fate = "processed" => EntryInv(e))
    BY <2>1, EntryOfIs DEF PacketInv
  <2>. QED BY <1>2, <1>3, <1>4, <2>1, <2>2, <2>3
<1>. QED BY <1>5, <1>6
-----------------------------------------------------------------------------
\* A packet adds as many numbers to those overtaken as it carries.
LEMMA OvertakenIs ==
    ASSUME NEW x PROVE Overtaken(x) \subseteq Ids!Sequence /\ IsFiniteSet(Overtaken(x))
                       /\ Cardinality(Overtaken(x)) \in Nat
<1>1. Overtaken(x) \subseteq Ids!Sequence
  BY DEF Overtaken
<1>2. IsFiniteSet(Overtaken(x))
  BY <1>1, FiniteIds, FS_Subset
<1>. QED BY <1>1, <1>2, FS_CardinalityType

LEMMA TakesCarried ==
    ASSUME Types, ReceiverInv, PacketInv, NEW k, NEW d \in Data, NEW taken, Takes(k, d, taken),
           NEW j \in DOMAIN window, NEW x \in Carried(j)'
    PROVE  x \in Carried(j)
<1>1. /\ \A i : EntryOf(i)' = EntryOf(i)
      /\ k \in DOMAIN window /\ window[k].data = {d}
      /\ \A i \in DOMAIN window : i # k => window'[i] = window[i]
      /\ window'[k] = [fate |-> IF taken THEN "processed" ELSE "done", data |-> {}]
  BY TakesCalm DEF Takes
<1>2. /\ \A i, y : y \in Carried(i) <=>
            \/ \E c \in window[i].data : y \in IdsOf(c)
            \/ window[i].fate = "processed" /\ \E e \in EntryOf(i) : y \in Remembered(e)
      /\ \A i, y : y \in Carried(i)' <=>
            \/ \E c \in window'[i].data : y \in IdsOf(c)'
            \/ window'[i].fate = "processed" /\ \E e \in EntryOf(i)' : y \in Remembered(e)'
  BY ElementsNow, ElementsNext DEF Elements
<1>3. \A c : IdsOf(c)' = IdsOf(c) /\ Remembered(c)' = Remembered(c)
  BY DEF IdsOf, Remembered
<1>4. CASE j = k
  <2>1. PICK e \in EntryOf(k) : x \in Remembered(e)
    BY <1>1, <1>2, <1>3, <1>4
  <2>2. RecordOf(d, e)
    BY <1>1, <1>4 DEF PacketInv
  <2>3. Remembered(e) \subseteq IdsOf(d)
    <3>1. Range(e.ids) \subseteq {d.messages[i].id : i \in DOMAIN d.messages}
      BY <2>2 DEF RecordOf, Range
    <3>2. {f.id : f \in e.fragment} \subseteq {f.id : f \in d.fragment}
      BY <2>2 DEF RecordOf
    <3>. QED BY <3>1, <3>2 DEF Remembered, IdsOf
  <2>. QED BY <1>1, <1>2, <1>4, <2>1, <2>3
<1>5. CASE j # k
  BY <1>1, <1>2, <1>3, <1>5
<1>. QED BY <1>4, <1>5

LEMMA TakesOvertaken ==
    ASSUME Types, ReceiverInv, NEW k, NEW d, NEW taken, Takes(k, d, taken), NEW x
    PROVE  /\ Overtaken(x)' \subseteq Overtaken(x) \union IdsOf(d)
           /\ (\A y \in IdsOf(d) : Age(x) - Age(y) < SendSize) /\ x \in Ids!Sequence
                 /\ IdsOf(d) \subseteq Ids!Sequence => Overtaken(x)' \subseteq Overtaken(x)
<1>1. /\ \A y : Age(y)' = Age(y)
      /\ \A y : Received(y)' => Received(y) \/ y \in IdsOf(d)
  BY TakesCalm
<1>2. Overtaken(x)' = {y \in Ids!Sequence : 1 <= Age(y) /\ Age(y) <= Age(x) - SendSize /\ Received(y)'}
  BY <1>1 DEF Overtaken
<1>3. Overtaken(x)' \subseteq Overtaken(x) \union IdsOf(d)
  BY <1>1, <1>2 DEF Overtaken
<1>4. ASSUME \A y \in IdsOf(d) : Age(x) - Age(y) < SendSize, x \in Ids!Sequence, NEW y \in Overtaken(x)'
      PROVE  y \in Overtaken(x)
  <2>1. y \in Ids!Sequence /\ Age(y) <= Age(x) - SendSize
    BY <1>2
  <2>2. Age(y) \in Int /\ Age(x) \in Int /\ SendSize \in Int
    BY <1>4, <2>1, Typed, AgeIs, Bounds
  <2>3. y \notin IdsOf(d)
    BY <1>4, <2>1, <2>2
  <2>. QED BY <1>3, <2>3
<1>. QED BY <1>3, <1>4

LEMMA TakesFlight ==
    ASSUME Types, ReceiverInv, PacketInv, FlightInv, NEW k, NEW d \in Data, NEW taken, Takes(k, d, taken)
    PROVE  FlightInv'
<1>1. /\ \A y : Age(y)' = Age(y)
      /\ \A i : Number(i)' = Number(i)
      /\ k \in DOMAIN window /\ DOMAIN window' = DOMAIN window
      /\ \A j \in DOMAIN window : j # k => window'[j] = window[j]
      /\ window'[k] = [fate |-> IF taken THEN "processed" ELSE "done", data |-> {}]
      /\ window[k].data = {d} /\ window[k].fate = "flying"
  BY TakesCalm DEF Takes
<1>2. DOMAIN window = 1..Len(window) /\ Len(window) \in Nat /\ Len(window) <= Lifetime /\ Lifetime \in Nat
      /\ packetSequence \in Packets!Sequence
  BY Typed, Bounds
<1>3. \A j \in DOMAIN window : \A x \in Carried(j)' : x \in Carried(j)
  BY TakesCarried
<1>4. /\ IdsOf(d) \subseteq Ids!Sequence /\ IsFiniteSet(IdsOf(d)) /\ Cardinality(IdsOf(d)) \in Nat
      /\ Cardinality(IdsOf(d)) <= MaxPerPacket
  BY IdsOfIs
<1>5. IdsOf(d) \subseteq Carried(k)
  BY <1>1, CarriedIs
<1>6. window'[k].fate # "flying" /\ \A j \in DOMAIN window : j # k => window'[j].fate = window[j].fate
  BY <1>1
<1>7. ASSUME NEW j \in DOMAIN window, NEW x \in Carried(j)
      PROVE  1 <= Age(x) /\ Cardinality(Overtaken(x)') <= MaxPerPacket * Cardinality(Arrived(j)')
  <2>1. 1 <= Age(x) /\ Cardinality(Overtaken(x)) <= MaxPerPacket * Cardinality(Arrived(j))
    BY DEF FlightInv
  <2>2. x \in Ids!Sequence
    BY CarriedIs
  <2>3. IsFiniteSet(Overtaken(x)) /\ Cardinality(Overtaken(x)) \in Nat
    BY OvertakenIs
  <2>4. IsFiniteSet(Arrived(j)) /\ Cardinality(Arrived(j)) \in Nat
    BY ArrivedIs
  <2>5. CASE j <= k
    <3>1. \A y \in IdsOf(d) : Age(x) - Age(y) < SendSize
      BY <1>1, <1>5, <2>5 DEF FlightInv
    <3>2. Overtaken(x)' \subseteq Overtaken(x)
      BY <3>1, <1>4, <2>2, TakesOvertaken
    <3>3. Cardinality(Overtaken(x)') <= Cardinality(Overtaken(x)) /\ Cardinality(Overtaken(x)') \in Nat
      BY <3>2, <2>3, FS_Subset, FS_CardinalityType
    <3>4. \A i \in 1..(j - 1) : i # k /\ i \in DOMAIN window
      BY <1>1, <1>2, <2>5
    <3>5. Arrived(j)' = Arrived(j)
      BY <3>4, <1>1, <1>6 DEF Arrived
    <3>6. MaxPerPacket * Cardinality(Arrived(j)) \in Int
      BY <2>4, Bounds
    <3>. QED BY <2>1, <2>3, <3>3, <3>5, <3>6
  <2>6. CASE j > k
    <3>1. /\ \A i \in 1..(j - 1) : i \in DOMAIN window
          /\ k \in 1..(j - 1) /\ k \in 1..Lifetime
      BY <1>1, <1>2, <2>6
    <3>2. Number(k) \notin Arrived(j)
      <4>1. \A i \in 1..Lifetime : Number(i) = Number(k) => i = k
        BY <1>2, <3>1, NumberIs
      <4>2. \A i \in 1..(j - 1) : i \in 1..Lifetime
        BY <3>1, <1>2
      <4>. QED BY <1>1, <4>1, <4>2 DEF Arrived
    <3>3. Arrived(j)' = Arrived(j) \union {Number(k)}
      <4>1. Arrived(j)' = {Number(i) : i \in {h \in 1..(j - 1) : window'[h].fate # "flying"}}
        BY <1>1 DEF Arrived
      <4>2. {h \in 1..(j - 1) : window'[h].fate # "flying"} = {h \in 1..(j - 1) : window[h].fate # "flying"} \union {k}
        BY <1>6, <3>1
      <4>. QED BY <4>1, <4>2 DEF Arrived
    <3>4. Cardinality(Arrived(j)') = Cardinality(Arrived(j)) + 1
      BY <2>4, <3>2, <3>3, FS_AddElement
    <3>5. Overtaken(x)' \subseteq Overtaken(x) \union IdsOf(d)
      BY TakesOvertaken
    <3>6. /\ IsFiniteSet(Overtaken(x) \union IdsOf(d))
          /\ Cardinality(Overtaken(x) \union IdsOf(d)) <= Cardinality(Overtaken(x)) + Cardinality(IdsOf(d))
      <4> DEFINE S == Overtaken(x)
                 T == IdsOf(d)
      <4>1. /\ IsFiniteSet(S) /\ IsFiniteSet(T)
        BY <1>4, <2>3
      <4> HIDE DEF S, T
      <4>2. /\ IsFiniteSet(S \union T) /\ IsFiniteSet(S \intersect T)
            /\ Cardinality(S \union T) = Cardinality(S) + Cardinality(T) - Cardinality(S \intersect T)
        BY <4>1, FS_Union, FS_Intersection
      <4>3. Cardinality(S) \in Nat /\ Cardinality(T) \in Nat /\ Cardinality(S \intersect T) \in Nat
        BY <4>1, <4>2, FS_CardinalityType
      <4>4. Cardinality(S \union T) <= Cardinality(S) + Cardinality(T)
        BY <4>2, <4>3
      <4>. QED BY <4>2, <4>4 DEF S, T
    <3>7. /\ Cardinality(Overtaken(x)') <= Cardinality(Overtaken(x) \union IdsOf(d))
          /\ Cardinality(Overtaken(x)') \in Nat /\ Cardinality(Overtaken(x) \union IdsOf(d)) \in Nat
      BY <3>5, <3>6, FS_Subset, FS_CardinalityType
    <3> DEFINE a == Cardinality(Arrived(j))
    <3>8. MaxPerPacket * (a + 1) = MaxPerPacket * a + MaxPerPacket /\ MaxPerPacket * a \in Int
          /\ MaxPerPacket \in Nat
      <4>1. a \in Nat /\ MaxPerPacket \in Nat
        BY <2>4, Bounds
      <4> HIDE DEF a
      <4>. QED BY <4>1
    <3>. QED BY <1>4, <2>1, <2>3, <3>4, <3>6, <3>7, <3>8
  <2>7. j \in Int /\ k \in Int
    BY <1>1, <1>2
  <2>. QED BY <2>1, <2>5, <2>6, <2>7
<1>9. ASSUME NEW j \in DOMAIN window, NEW l \in DOMAIN window, j <= l, NEW x \in Carried(j)', NEW y \in Carried(l)'
      PROVE  Age(x) - Age(y) < SendSize
  BY <1>3, <1>9 DEF FlightInv
<1>. QED BY <1>1, <1>3, <1>7, <1>9 DEF FlightInv
-----------------------------------------------------------------------------
\* The sender may be told of a fragment that was taken.
LEMMA TakesClaimed ==
    ASSUME Types, ReceiverInv, PacketInv, NEW k, NEW d \in Data, NEW taken, Takes(k, d, taken),
           NEW y, NEW i \in Claimed(y)'
    PROVE  i \in Claimed(y) \/ (taken /\ \E f \in d.fragment : f.id = y /\ f.index = i)
<1>1. /\ \A j : EntryOf(j)' = EntryOf(j)
      /\ k \in DOMAIN window /\ window[k].data = {d} /\ DOMAIN window' = DOMAIN window
      /\ \A j \in DOMAIN window : j # k => window'[j] = window[j]
      /\ window'[k] = [fate |-> IF taken THEN "processed" ELSE "done", data |-> {}]
      /\ sendBlock' = sendBlock /\ taken \in BOOLEAN
  BY TakesCalm DEF Takes
<1>2. /\ \A z, j, h : h \in Told(z, j) <=>
            /\ window[j].fate = "processed"
            /\ \E e \in EntryOf(j) : \E g \in e.fragment : g.id = z /\ h = g.index
      /\ \A z, j, h : h \in Told(z, j)' <=>
            /\ window'[j].fate = "processed"
            /\ \E e \in EntryOf(j)' : \E g \in e.fragment : g.id = z /\ h = g.index
      /\ \A z, h : h \in Claimed(z) <=>
            \/ \E j \in DOMAIN window : h \in Told(z, j)
            \/ sendBlock.active /\ sendBlock.id = z /\ h \in sendBlock.acked
      /\ \A z, h : h \in Claimed(z)' <=>
            \/ \E j \in DOMAIN window' : h \in Told(z, j)'
            \/ sendBlock'.active /\ sendBlock'.id = z /\ h \in sendBlock'.acked
  BY ElementsNow, ElementsNext DEF Elements
<1>3. CASE \E j \in DOMAIN window' : i \in Told(y, j)'
  <2>1. PICK j \in DOMAIN window' : i \in Told(y, j)'
    BY <1>3
  <2>2. CASE j = k
    <3>1. taken /\ \E e \in EntryOf(k) : \E g \in e.fragment : g.id = y /\ i = g.index
      BY <1>1, <1>2, <2>1, <2>2
    <3>2. PICK e \in EntryOf(k) : \E g \in e.fragment : g.id = y /\ i = g.index
      BY <3>1
    <3>3. PICK g \in e.fragment : g.id = y /\ i = g.index
      BY <3>2
    <3>4. RecordOf(d, e)
      BY <1>1 DEF PacketInv
    <3>5. PICK f \in d.fragment : g = [id |-> f.id, index |-> f.index]
      BY <3>4 DEF RecordOf
    <3>. QED BY <3>1, <3>3, <3>5
  <2>3. CASE j # k
    BY <1>1, <1>2, <2>1, <2>3
  <2>. QED BY <2>2, <2>3
<1>4. CASE sendBlock'.active /\ sendBlock'.id = y /\ i \in sendBlock'.acked
  BY <1>1, <1>2, <1>4
<1>. QED BY <1>2, <1>3, <1>4

LEMMA NextNotReceived ==
    ASSUME Types, ReceiverInv PROVE ~Received(receiveQueue.next)
<1>1. Age(receiveQueue.next) \in Int /\ Age(receiveMessageId) \in Int
  BY Typed, AgeIs
<1>. QED BY <1>1 DEF ReceiverInv, Received

LEMMA MessagesBlock ==
    ASSUME Types, ReceiverInv, PacketInv, BlockInv, NEW k, NEW d \in Data, NEW taken, Takes(k, d, taken),
           d.fragment = {}, receiveBlock' = receiveBlock,
           Age(receiveQueue'.next) <= Age(receiveQueue.next),
           \A y \in DOMAIN sendQueue.live :
                 BlockAt(y) /\ Age(y) <= Age(receiveQueue.next) => Age(y) <= Age(receiveQueue'.next)
    PROVE  BlockInv'
<1>1. /\ \A y : Age(y)' = Age(y)
      /\ Age(receiveQueue.next)' = Age(receiveQueue'.next)
      /\ \A y : (Received(y) => Received(y)')
      /\ \A y : BlockAt(y)' <=> BlockAt(y)
      /\ sendQueue' = sendQueue /\ error.receiver = "none"
  BY TakesCalm DEF Takes
<1>2. \A y : \A i \in Claimed(y)' : i \in Claimed(y)
  BY TakesClaimed
<1>3. \A y : Assembling(y)' <=> Assembling(y)
  BY DEF Assembling
<1>4. \A y \in Ids!Sequence : \A i \in Claimed(y)' :
          Received(y)' \/ (Assembling(y)' /\ i \in DOMAIN receiveBlock'.received)
  BY <1>1, <1>2, <1>3 DEF BlockInv
<1>5. \A y \in DOMAIN sendQueue'.live : BlockAt(y)' /\ ~Received(y)' => Age(y)' <= Age(receiveQueue.next)'
  BY <1>1 DEF BlockInv
<1>6. ASSUME receiveBlock.active PROVE receiveQueue'.next = receiveQueue.next /\ BlockAt(receiveBlock.id)'
  <2>1. receiveBlock.id = receiveQueue.next /\ BlockAt(receiveBlock.id)
    BY <1>6 DEF BlockInv
  <2>2. receiveQueue.next \in Ids!Sequence /\ receiveQueue'.next \in Ids!Sequence
        /\ sendMessageId \in Ids!Sequence
    <3>1. receiveQueue' \in Buffers(Ids!Sequence, ReceiveSize, Values)
      BY DEF Takes
    <3>. QED BY <3>1, BufferIs, Typed
  <2>3. Age(receiveQueue.next) \in Int /\ Age(receiveQueue'.next) \in Int
    BY <2>2, AgeIs
  <2>4. Age(receiveQueue'.next) = Age(receiveQueue.next)
    BY <2>1, <2>3 DEF BlockAt
  <2>. QED BY <1>1, <2>1, <2>2, <2>4, OneAge
<1>7. ASSUME receiveBlock.active
      PROVE  \E i \in 0..(receiveBlock.count - 1) : i \notin Claimed(receiveBlock.id)'
  <2>1. PICK i \in 0..(receiveBlock.count - 1) : i \notin Claimed(receiveBlock.id)
    BY <1>7 DEF BlockInv
  <2>. QED BY <1>2, <2>1
<1>8. receiveBlock.active =>
          /\ receiveBlock.id = receiveQueue'.next /\ BlockAt(receiveBlock.id)'
          /\ receiveBlock.count = Fragments[sendQueue'.live[receiveBlock.id]]
          /\ DOMAIN receiveBlock.received \subseteq 0..(receiveBlock.count - 1)
          /\ error'.receiver = "none" =>
                \E i \in 0..(receiveBlock.count - 1) : i \notin DOMAIN receiveBlock.received
          /\ \E i \in 0..(receiveBlock.count - 1) : i \notin Claimed(receiveBlock.id)'
          /\ \A i \in DOMAIN receiveBlock.received :
                receiveBlock.received[i] = [id |-> receiveBlock.id, value |-> sendQueue'.live[receiveBlock.id]]
  BY <1>1, <1>6, <1>7 DEF BlockInv
<1>. QED BY <1>4, <1>5, <1>8 DEF BlockInv

LEMMA TakenInv ==
    ASSUME Inv, NEW k, NEW d \in Data, NEW taken, Takes(k, d, taken), BlockInv' PROVE Inv'
<1>1. /\ Types /\ SenderInv /\ SentInv /\ ReceiverInv /\ TransitInv /\ FlightInv
      /\ PacketInv /\ BlockInv /\ DesyncOnlyIfBehind
  BY DEF Inv
<1>2. Types' /\ SenderInv' /\ SentInv' /\ ReceiverInv' /\ TransitInv' /\ DesyncOnlyIfBehind'
  BY <1>1, TakesTypes, TakesQueues
<1>3. PacketInv' /\ FlightInv'
  BY <1>1, TakesPackets, TakesFlight
<1>. QED BY <1>2, <1>3 DEF Inv

LEMMA MessagesTakes ==
    ASSUME Inv, NEW k \in DOMAIN window, NEW d \in window[k].data, d.fragment = {}, error.receiver = "none",
           ProcessMessages(k, d.messages), UNCHANGED <<sender, receiveMessageId, connected>>
    PROVE  d \in Data /\ \E taken \in BOOLEAN : Takes(k, d, taken) /\ BlockInv'
<1>1. /\ Types /\ SenderInv /\ SentInv /\ ReceiverInv /\ TransitInv /\ FlightInv
      /\ PacketInv /\ BlockInv /\ DesyncOnlyIfBehind
  BY DEF Inv
<1>2. window[k] \in Packet
  BY <1>1, Typed
<1>3. d \in Data /\ window[k].data = {d} /\ DataInv(d)
  BY <1>1, <1>2, PacketIs DEF PacketInv
<1>4. /\ \E taken \in BOOLEAN : Takes(k, d, taken)
      /\ receiveBlock' = receiveBlock
      /\ Age(receiveQueue'.next) <= Age(receiveQueue.next)
      /\ \A y \in DOMAIN sendQueue.live :
            BlockAt(y) /\ Age(y) <= Age(receiveQueue.next) => Age(y) <= Age(receiveQueue'.next)
  BY <1>1, <1>3, MessagesTaken
<1>5. PICK taken \in BOOLEAN : Takes(k, d, taken)
  BY <1>4
<1>6. BlockInv'
  BY <1>1, <1>3, <1>4, <1>5, MessagesBlock
<1>. QED BY <1>3, <1>5, <1>6
-----------------------------------------------------------------------------
(* A fragment arrives.                                                     *)

\* A packet with a fragment is on its way.
Fragmented(k, d, f) ==
    /\ k \in DOMAIN window /\ window[k].fate = "flying" /\ window[k].data = {d} /\ d.fragment = {f}
    /\ error.receiver = "none"

LEMMA FragmentIs ==
    ASSUME Types, PacketInv, FlightInv, NEW k, NEW d \in Data, NEW f, Fragmented(k, d, f)
    PROVE  /\ f \in Fragment /\ f.id \in Ids!Sequence /\ f.value \in Values
           /\ IsBlock(f.value) /\ Fragments[f.value] \in Nat \ {0} /\ f.index \in 0..(Fragments[f.value] - 1)
           /\ d.messages = <<>> /\ IdsOf(d) = {f.id} /\ FragmentInv(f)
           /\ Age(f.id) \in Int /\ 1 <= Age(f.id)
<1>1. /\ d.fragment \subseteq Fragment
      /\ d.fragment = {} \/ (d.messages = <<>> /\ \E g \in Fragment :
              /\ d.fragment = {g} /\ g.index < Fragments[g.value] /\ IsBlock(g.value))
  BY DataIs
<1>2. d.fragment = {f} /\ k \in DOMAIN window /\ window[k].data = {d}
  BY DEF Fragmented
<1>3. f \in Fragment /\ d.messages = <<>> /\ f.index < Fragments[f.value] /\ IsBlock(f.value)
  BY <1>1, <1>2
<1>4. f.id \in Ids!Sequence /\ f.value \in Values /\ f.index \in Nat
  BY <1>3 DEF Fragment
<1>5. Fragments[f.value] \in Nat \ {0} /\ f.index \in 0..(Fragments[f.value] - 1)
  BY <1>3, <1>4, ValuesAssumption DEF IsBlock
<1>6. IdsOf(d) = {f.id}
  BY <1>2, <1>3 DEF IdsOf
<1>7. FragmentInv(f)
  BY <1>2 DEF PacketInv, DataInv
<1>8. f.id \in Carried(k)
  BY <1>2, <1>6, CarriedIs
<1>9. Age(f.id) \in Int /\ 1 <= Age(f.id)
  BY <1>2, <1>4, <1>8, Typed, AgeIs DEF FlightInv
<1>. QED BY <1>3, <1>4, <1>5, <1>6, <1>7, <1>9

\* A fragment of a message that is not the next is one of a message received before.
LEMMA NotExpected ==
    ASSUME Types, SenderInv, ReceiverInv, TransitInv, PacketInv, FlightInv, BlockInv,
           NEW k, NEW d \in Data, NEW f, Fragmented(k, d, f), ~Expected(f)
    PROVE  Received(f.id)
<1>1. /\ f.id \in Ids!Sequence /\ IsBlock(f.value) /\ FragmentInv(f)
      /\ Age(f.id) \in Int /\ 1 <= Age(f.id)
  BY FragmentIs
<1>2. receiveQueue.next \in Ids!Sequence /\ sendMessageId \in Ids!Sequence /\ f.id # receiveQueue.next
  BY Typed DEF Expected
<1>3. ~Received(receiveQueue.next) /\ Age(receiveQueue.next) \in Int
  BY <1>2, NextNotReceived, AgeIs
<1>4. Age(f.id) >= Age(receiveQueue.next)
  BY <1>1, <1>2, <1>3 DEF FragmentInv
<1>5. Age(f.id) # Age(receiveQueue.next)
  BY <1>1, <1>2, OneAge
<1>6. ASSUME ~Received(f.id) PROVE FALSE
  <2>1. f.id \in DOMAIN sendQueue.live
    BY <1>1, <1>6, OldReceived
  <2>2. BlockAt(f.id)
    BY <1>1, <2>1 DEF FragmentInv, BlockAt
  <2>. QED BY <1>1, <1>3, <1>4, <1>5, <1>6, <2>1, <2>2 DEF BlockInv
<1>. QED BY <1>6

\* A fragment of the next message: what the receiver has of the block.
Pieces(f) == DOMAIN BlockOf(f).received \union {f.index}
LEMMA ExpectedIs ==
    ASSUME Types, SenderInv, ReceiverInv, TransitInv, PacketInv, FlightInv, BlockInv,
           NEW k, NEW d \in Data, NEW f, Fragmented(k, d, f), Expected(f)
    PROVE  /\ f.id = receiveQueue.next /\ ~Received(f.id)
           /\ BlockAt(f.id) /\ sendQueue.live[f.id] = f.value
           /\ BlockOf(f).active /\ BlockOf(f).id = f.id /\ BlockOf(f).count = Fragments[f.value]
           /\ BlockOf(f) \in [active : BOOLEAN, id : Ids!Sequence, count : Nat, received : Block]
           /\ Pieces(f) \subseteq 0..(Fragments[f.value] - 1)
           /\ \A i \in DOMAIN BlockOf(f).received :
                 BlockOf(f).received[i] = [id |-> f.id, value |-> f.value]
           /\ \E i \in 0..(Fragments[f.value] - 1) : i \notin DOMAIN BlockOf(f).received
           /\ \E i \in 0..(Fragments[f.value] - 1) : i \notin Claimed(f.id)
           /\ Assembling(f.id) => BlockOf(f) = receiveBlock
           /\ \A y : Assembling(y) => y = f.id
<1>1. /\ f.id \in Ids!Sequence /\ f.value \in Values /\ IsBlock(f.value) /\ FragmentInv(f)
      /\ Fragments[f.value] \in Nat \ {0} /\ f.index \in 0..(Fragments[f.value] - 1)
      /\ 1 <= Age(f.id)
  BY FragmentIs
<1>2. f.id = receiveQueue.next /\ ~Received(f.id)
  BY NextNotReceived DEF Expected
<1>3. f.id \in DOMAIN sendQueue.live
  BY <1>1, <1>2, OldReceived
<1>4. BlockAt(f.id) /\ sendQueue.live[f.id] = f.value
  BY <1>1, <1>3 DEF FragmentInv, BlockAt
<1>5. receiveBlock \in [active : BOOLEAN, id : Ids!Sequence, count : Nat, received : Block]
  BY DEF Types
<1>6. CASE receiveBlock.active
  <2>1. BlockOf(f) = receiveBlock
    BY <1>6 DEF BlockOf
  <2>2. error.receiver = "none"
    BY DEF Fragmented
  <2>3. receiveBlock.id = f.id /\ receiveBlock.count = Fragments[f.value]
    BY <1>2, <1>4, <1>6 DEF BlockInv
  <2>4. /\ DOMAIN receiveBlock.received \subseteq 0..(Fragments[f.value] - 1)
        /\ \E i \in 0..(Fragments[f.value] - 1) : i \notin DOMAIN receiveBlock.received
        /\ \E i \in 0..(Fragments[f.value] - 1) : i \notin Claimed(f.id)
        /\ \A i \in DOMAIN receiveBlock.received :
              receiveBlock.received[i] = [id |-> f.id, value |-> f.value]
    BY <1>4, <1>6, <2>2, <2>3 DEF BlockInv
  <2>5. \A y : Assembling(y) => y = f.id
    BY <2>3 DEF Assembling
  <2>. QED BY <1>1, <1>2, <1>4, <1>5, <1>6, <2>1, <2>3, <2>4, <2>5 DEF Pieces
<1>7. CASE ~receiveBlock.active
  <2>1. BlockOf(f) = [active |-> TRUE, id |-> f.id, count |-> Fragments[f.value], received |-> <<>>]
    BY <1>7 DEF BlockOf
  <2>2. \A y : ~Assembling(y)
    BY <1>7 DEF Assembling
  <2>3. Claimed(f.id) = {}
    BY <1>1, <1>2, <2>2 DEF BlockInv
  <2>4. <<>> \in Block /\ DOMAIN <<>> = {}
    <3>1. <<>> \in [{} -> [id : Ids!Sequence, value : Values]]
      OBVIOUS
    <3>2. {} \in SUBSET Nat
      OBVIOUS
    <3>. QED BY <3>1, <3>2 DEF Block
  <2>5. 0 \in 0..(Fragments[f.value] - 1)
    BY <1>1
  <2>6. /\ BlockOf(f).active = TRUE /\ BlockOf(f).id = f.id /\ BlockOf(f).count = Fragments[f.value]
        /\ BlockOf(f).received = <<>>
    BY <2>1
  <2>7. BlockOf(f) \in [active : BOOLEAN, id : Ids!Sequence, count : Nat, received : Block]
    BY <1>1, <2>1, <2>4
  <2>. QED BY <1>1, <1>2, <1>4, <2>2, <2>3, <2>4, <2>5, <2>6, <2>7 DEF Pieces
<1>. QED BY <1>5, <1>6, <1>7

Filled(f) == [i \in Pieces(f) |-> [id |-> f.id, value |-> f.value]]
Complete(f) == f.index \notin DOMAIN BlockOf(f).received /\ Cardinality(Pieces(f)) = Fragments[f.value]
Placed(f) == Complete(f) /\ Ids!Available(receiveQueue, f.id)

\* What ProcessFragment comes to.
LEMMA FragmentStep ==
    ASSUME Types, SenderInv, ReceiverInv, TransitInv, PacketInv, FlightInv, BlockInv,
           NEW k, NEW d \in Data, NEW f, Fragmented(k, d, f), Expected(f), ProcessFragment(k, f)
    PROVE  /\ Filled(f) \in Block
           /\ Service!Deliver(k, Complete(f) => Placed(f))
           /\ error' = [error EXCEPT !.receiver = IF Complete(f) /\ ~Placed(f) THEN "desync" ELSE @]
           /\ Placed(f) => /\ receiveQueue' = Ids!Insert(receiveQueue, f.id, f.value, Lap(IdWrap))
                           /\ receiveBlock' = NoBlock
           /\ ~Placed(f) => /\ receiveBlock' = [active |-> TRUE, id |-> f.id, count |-> Fragments[f.value],
                                                received |-> Filled(f)]
                            /\ receiveQueue' = receiveQueue
<1> DEFINE block == BlockOf(f)
           received == [i \in DOMAIN block.received \union {f.index} |->
                          IF i = f.index THEN [id |-> f.id, value |-> f.value]
                                         ELSE block.received[i]]
           complete == /\ f.index \notin DOMAIN block.received
                       /\ Cardinality(DOMAIN received) = block.count
           wrong == f.index >= block.count \/ Fragments[f.value] # block.count
           desync == wrong \/ (complete /\ ~Ids!Available(receiveQueue, f.id))
           count == Fragments[f.value]
           g == [id |-> f.id, value |-> f.value]
<1>1. /\ f.id \in Ids!Sequence /\ f.value \in Values
      /\ count \in Nat \ {0} /\ f.index \in 0..(count - 1)
  BY FragmentIs
<1>2. /\ block.active = TRUE /\ block.id = f.id /\ block.count = count
      /\ block \in [active : BOOLEAN, id : Ids!Sequence, count : Nat, received : Block]
      /\ Pieces(f) \subseteq 0..(count - 1)
      /\ \A i \in DOMAIN block.received : block.received[i] = g
  BY ExpectedIs
<1>3. received = Filled(f) /\ DOMAIN received = Pieces(f)
  BY <1>2 DEF Filled, Pieces
<1>4. Filled(f) \in Block
  <2>1. Pieces(f) \in SUBSET Nat /\ g \in [id : Ids!Sequence, value : Values]
    BY <1>1, <1>2
  <2>2. Filled(f) \in [Pieces(f) -> [id : Ids!Sequence, value : Values]]
    BY <2>1 DEF Filled
  <2>. QED BY <2>1, <2>2 DEF Block
<1>5. wrong = FALSE
  BY <1>1, <1>2
<1>6. complete <=> Complete(f)
  BY <1>2, <1>3 DEF Complete
<1>7. /\ Service!Deliver(k, ~desync)
      /\ error' = [error EXCEPT !.receiver = IF desync THEN "desync" ELSE @]
      /\ IF complete /\ ~desync
         THEN /\ receiveQueue' = Ids!Insert(receiveQueue, f.id, Assembled(received), Lap(IdWrap))
              /\ receiveBlock' = NoBlock
         ELSE /\ receiveBlock' = [block EXCEPT !.received = IF wrong THEN @ ELSE received]
              /\ UNCHANGED receiveQueue
  BY DEF ProcessFragment
<1> HIDE DEF complete
<1>8. desync <=> Complete(f) /\ ~Placed(f)
  BY <1>5, <1>6 DEF Placed
<1>9. (complete /\ ~desync) <=> Placed(f)
  BY <1>5, <1>6 DEF Placed
<1>10. (~desync) = (Complete(f) => Placed(f))
  BY <1>8
<1> HIDE DEF wrong, received
<1>11. [block EXCEPT !.received = IF wrong THEN @ ELSE received]
          = [active |-> TRUE, id |-> f.id, count |-> count, received |-> Filled(f)]
  <2> HIDE DEF block
  <2>1. block = [active |-> block.active, id |-> block.id, count |-> block.count, received |-> block.received]
    BY <1>2
  <2> DEFINE r == IF wrong THEN block.received ELSE received
  <2>2. r = Filled(f)
    BY <1>3, <1>5
  <2> HIDE DEF r
  <2>3. [block EXCEPT !.received = r]
           = [active |-> block.active, id |-> block.id, count |-> block.count, received |-> r]
    BY <2>1
  <2>. QED BY <1>2, <2>2, <2>3 DEF r
<1>12. Placed(f) => Assembled(received) = f.value
  <2>. HAVE Placed(f)
  <2>1. Cardinality(Pieces(f)) = count
    BY DEF Placed, Complete
  <2>2. IsFiniteSet(0..(count - 1)) /\ Cardinality(0..(count - 1)) = count
    <3>1. 0 \in Int /\ count - 1 \in Int
      BY <1>1
    <3>2. IsFiniteSet(0..(count - 1)) /\ Cardinality(0..(count - 1)) =
             IF 0 > count - 1 THEN 0 ELSE (count - 1) - 0 + 1
      BY <3>1, FS_Interval
    <3>. QED BY <1>1, <3>2
  <2>3. Pieces(f) = 0..(count - 1)
    BY <1>2, <2>1, <2>2, FS_Subset
  <2>4. 0 \in Pieces(f)
    BY <1>1, <2>3
  <2>. QED BY <1>3, <2>4 DEF Assembled, Filled
<1> HIDE DEF desync, block
<1>13. error' = [error EXCEPT !.receiver = IF Complete(f) /\ ~Placed(f) THEN "desync" ELSE @]
  BY <1>7, <1>8
<1>14. Service!Deliver(k, Complete(f) => Placed(f))
  BY <1>7, <1>10
<1>. QED BY <1>4, <1>7, <1>9, <1>11, <1>12, <1>13, <1>14

\* The packet's fate and the error, of a fragment that is taken or not.
LEMMA FragmentTakes ==
    ASSUME Types, SenderInv, ReceiverInv, TransitInv, PacketInv, FlightInv, BlockInv,
           NEW k, NEW d \in Data, NEW f, Fragmented(k, d, f), NEW taken \in BOOLEAN,
           Service!Deliver(k, taken), UNCHANGED <<sender, receiveMessageId, connected>>,
           error' = [error EXCEPT !.receiver = IF taken THEN @ ELSE "desync"],
           receiveBlock' \in [active : BOOLEAN, id : Ids!Sequence, count : Nat, received : Block],
           ~taken => receiveMessageId \in DOMAIN receiveQueue.live,
           receiveQueue' \in Buffers(Ids!Sequence, ReceiveSize, Values), Fits(receiveQueue'),
           \A y \in DOMAIN receiveQueue.live :
              y \in DOMAIN receiveQueue'.live /\ receiveQueue'.live[y] = receiveQueue.live[y],
           \A y \in DOMAIN receiveQueue'.live :
              \/ y \in DOMAIN receiveQueue.live
              \/ y \in DOMAIN sendQueue.live /\ receiveQueue'.live[y] = sendQueue.live[y] /\ y = f.id
    PROVE  Takes(k, d, taken)
<1>1. error \in [sender : {"none", "send queue full"}, receiver : {"none", "desync"}]
  BY DEF Types
<1>2. error.receiver = "none" /\ k \in DOMAIN window /\ window[k].fate = "flying" /\ window[k].data = {d}
  BY DEF Fragmented
<1>3. /\ error' \in [sender : {"none", "send queue full"}, receiver : {"none", "desync"}]
      /\ error'.receiver = IF taken THEN "none" ELSE "desync"
      /\ error'.sender = error.sender
  BY <1>1, <1>2
<1>4. window' = [window EXCEPT ![k] = IF taken THEN [fate |-> "processed", data |-> {}]
                                                ELSE [fate |-> "done", data |-> {}]]
  BY DEF Service!Deliver, Service!Processed, Service!Done
<1>5. d.messages = <<>> /\ IdsOf(d) = {f.id}
  BY FragmentIs
<1>6. \A y \in DOMAIN receiveQueue'.live :
          \/ y \in DOMAIN receiveQueue.live
          \/ y \in DOMAIN sendQueue.live /\ receiveQueue'.live[y] = sendQueue.live[y] /\ y \in IdsOf(d)
  BY <1>5
<1>7. DOMAIN d.messages = {}
  BY <1>5
<1>. QED BY <1>2, <1>3, <1>4, <1>6, <1>7 DEF Takes, sender

\* A fragment of a message received before.
LEMMA UnexpectedFragment ==
    ASSUME Types, SenderInv, ReceiverInv, TransitInv, PacketInv, FlightInv, BlockInv,
           NEW k, NEW d \in Data, NEW f, Fragmented(k, d, f), ~Expected(f), ProcessFragment(k, f),
           UNCHANGED <<sender, receiveMessageId, connected>>
    PROVE  Takes(k, d, TRUE) /\ BlockInv'
<1>1. /\ Service!Deliver(k, TRUE) /\ receiveQueue' = receiveQueue /\ receiveBlock' = receiveBlock /\ error' = error
  BY DEF ProcessFragment
<1>2. error' = [error EXCEPT !.receiver = IF TRUE THEN @ ELSE "desync"]
  BY <1>1 DEF Types
<1>3. /\ receiveQueue \in Buffers(Ids!Sequence, ReceiveSize, Values)
      /\ receiveBlock \in [active : BOOLEAN, id : Ids!Sequence, count : Nat, received : Block]
  BY DEF Types
<1>4. Fits(receiveQueue)
  BY DEF Fits, ReceiverInv
<1>5. Takes(k, d, TRUE)
  BY <1>1, <1>2, <1>3, <1>4, FragmentTakes
<1>6. /\ \A y : Age(y)' = Age(y)
      /\ Age(receiveQueue.next)' = Age(receiveQueue.next)
      /\ \A y : (Received(y) => Received(y)')
      /\ \A y : BlockAt(y)' <=> BlockAt(y)
      /\ sendQueue' = sendQueue
  BY <1>1, <1>5, TakesCalm DEF Takes
<1>7. Received(f.id) /\ f.id # receiveQueue.next /\ d.fragment = {f}
  BY NotExpected DEF Expected, Fragmented
<1>8. \A y : \A i \in Claimed(y)' : i \in Claimed(y) \/ y = f.id
  <2> DEFINE taken == TRUE
  <2> HIDE DEF taken
  <2>1. Takes(k, d, taken)
    BY <1>5 DEF taken
  <2>2. \A y : \A i \in Claimed(y)' : i \in Claimed(y) \/ (taken /\ \E g \in d.fragment : g.id = y /\ g.index = i)
    BY <2>1, TakesClaimed
  <2>3. d.fragment = {f}
    BY DEF Fragmented
  <2>. QED BY <2>2, <2>3
<1>9. \A y : Assembling(y)' <=> Assembling(y)
  BY <1>1 DEF Assembling
<1>10. \A y \in Ids!Sequence : \A i \in Claimed(y)' :
          Received(y)' \/ (Assembling(y)' /\ i \in DOMAIN receiveBlock'.received)
  BY <1>1, <1>6, <1>7, <1>8, <1>9 DEF BlockInv
<1>11. \A y \in DOMAIN sendQueue'.live : BlockAt(y)' /\ ~Received(y)' => Age(y)' <= Age(receiveQueue.next)'
  BY <1>6 DEF BlockInv
<1>12. ASSUME receiveBlock.active
       PROVE  \E i \in 0..(receiveBlock.count - 1) : i \notin Claimed(receiveBlock.id)'
  <2>1. PICK i \in 0..(receiveBlock.count - 1) : i \notin Claimed(receiveBlock.id)
    BY <1>12 DEF BlockInv
  <2>2. receiveBlock.id # f.id /\ receiveBlock'.id = receiveBlock.id
    BY <1>1, <1>7, <1>12 DEF BlockInv
  <2>. QED BY <1>8, <2>1, <2>2
<1>13. receiveBlock.active =>
          /\ receiveBlock.id = receiveQueue'.next /\ BlockAt(receiveBlock.id)'
          /\ receiveBlock.count = Fragments[sendQueue'.live[receiveBlock.id]]
          /\ DOMAIN receiveBlock.received \subseteq 0..(receiveBlock.count - 1)
          /\ error'.receiver = "none" =>
                \E i \in 0..(receiveBlock.count - 1) : i \notin DOMAIN receiveBlock.received
          /\ \E i \in 0..(receiveBlock.count - 1) : i \notin Claimed(receiveBlock.id)'
          /\ \A i \in DOMAIN receiveBlock.received :
                receiveBlock.received[i] = [id |-> receiveBlock.id, value |-> sendQueue'.live[receiveBlock.id]]
  <2>. HAVE receiveBlock.active
  <2>1. BlockAt(receiveBlock.id)'
    BY <1>1, <1>6 DEF BlockInv, BlockAt
  <2>. QED BY <1>1, <1>6, <1>12, <2>1 DEF BlockInv
<1>14. BlockInv'
  BY <1>1, <1>10, <1>11, <1>13 DEF BlockInv
<1>. QED BY <1>5, <1>14

\* The fragment that completes a block whose slot is free.
LEMMA PlacedFragment ==
    ASSUME Types, SenderInv, ReceiverInv, TransitInv, PacketInv, FlightInv, BlockInv,
           NEW k, NEW d \in Data, NEW f, Fragmented(k, d, f), Expected(f), ProcessFragment(k, f), Placed(f),
           UNCHANGED <<sender, receiveMessageId, connected>>
    PROVE  Takes(k, d, TRUE) /\ BlockInv'
<1> DEFINE r == receiveMessageId
           x == f.id
<1>1. /\ Service!Deliver(k, TRUE)
      /\ error' = [error EXCEPT !.receiver = @]
      /\ receiveQueue' = Ids!Insert(receiveQueue, x, f.value, Lap(IdWrap))
      /\ receiveBlock' = NoBlock
  BY FragmentStep
<1>2. /\ x \in Ids!Sequence /\ f.value \in Values /\ FragmentInv(f)
      /\ Age(x) \in Int /\ 1 <= Age(x)
  BY FragmentIs
<1>3. /\ x = receiveQueue.next /\ ~Received(x)
      /\ BlockAt(x) /\ sendQueue.live[x] = f.value
      /\ \A y : Assembling(y) => y = x
  BY ExpectedIs
<1>4. /\ receiveQueue \in Buffers(Ids!Sequence, ReceiveSize, Values)
      /\ r \in Ids!Sequence /\ sendMessageId \in Ids!Sequence /\ Age(r) \in Int
      /\ DOMAIN sendQueue.live \subseteq Ids!Sequence
  BY Typed, AgeIs
<1>5. Fits(receiveQueue) /\ Age(x) <= Age(r) /\ Age(r) <= Age(x) + ReceiveSize
  BY <1>3 DEF Fits, ReceiverInv
<1>6. Age(r) < Age(x) + ReceiveSize
  <2>1. ReceiveSize \in Nat \ {0} /\ IdWrap % ReceiveSize = 0
    BY Bounds
  <2>. SUFFICES ASSUME Age(r) = Age(x) + ReceiveSize PROVE FALSE
    BY <1>2, <1>4, <1>5, <2>1
  <2>2. Age(x) < Age(r) /\ Age(r) - Age(x) = ReceiveSize
    BY <1>2, <2>1
  <2>3. Received(r)
    BY <1>2, <1>4, <2>2 DEF FragmentInv
  <2>4. r \in DOMAIN receiveQueue.live
    BY <1>4, <2>3 DEF Received
  <2>5. r % ReceiveSize = x % ReceiveSize
    BY <1>2, <1>4, <2>1, <2>2, SlotAge
  <2>6. receiveQueue.size = ReceiveSize
    BY Typed
  <2>. QED BY <2>4, <2>5, <2>6 DEF Placed, Ids!Available, Ids!Slot
<1>7. x \notin DOMAIN receiveQueue.live
  BY <1>3 DEF Received
<1> DEFINE c == Ids!Insert(receiveQueue, x, f.value, Lap(IdWrap))
<1>8. /\ c \in Buffers(Ids!Sequence, ReceiveSize, Values) /\ Fits(c)
      /\ DOMAIN c.live = DOMAIN receiveQueue.live \union {x} /\ c.live[x] = f.value
      /\ \A t \in DOMAIN receiveQueue.live : c.live[t] = receiveQueue.live[t]
      /\ c.next = receiveQueue.next \/ Age(c.next) = Age(x) - 1
  BY <1>2, <1>4, <1>5, <1>6, <1>7, ReceiveInsert
<1> HIDE DEF c
<1>9. receiveQueue' = c
  BY <1>1 DEF c
<1>10. NoBlock \in [active : BOOLEAN, id : Ids!Sequence, count : Nat, received : Block]
  <2>1. <<>> \in Block
    <3>1. <<>> \in [{} -> [id : Ids!Sequence, value : Values]] /\ {} \in SUBSET Nat
      OBVIOUS
    <3>. QED BY <3>1 DEF Block
  <2>2. 0 \in Ids!Sequence
    BY Bounds DEF Ids!Sequence
  <2>. QED BY <2>1, <2>2 DEF NoBlock
<1>11. error' = [error EXCEPT !.receiver = IF TRUE THEN @ ELSE "desync"]
  BY <1>1
<1>12. Takes(k, d, TRUE)
  <2>1. x \in DOMAIN sendQueue.live
    BY <1>3 DEF BlockAt
  <2>2. \A y \in DOMAIN c.live :
              \/ y \in DOMAIN receiveQueue.live
              \/ y \in DOMAIN sendQueue.live /\ c.live[y] = sendQueue.live[y] /\ y = f.id
    BY <1>3, <1>8, <2>1
  <2>3. \A y \in DOMAIN receiveQueue.live :
              y \in DOMAIN c.live /\ c.live[y] = receiveQueue.live[y]
    BY <1>8
  <2> DEFINE taken == TRUE
  <2>4. /\ Service!Deliver(k, taken) /\ taken \in BOOLEAN /\ (~taken => receiveMessageId \in DOMAIN receiveQueue.live)
        /\ error' = [error EXCEPT !.receiver = IF taken THEN @ ELSE "desync"]
    BY <1>1, <1>11
  <2>5. receiveBlock' \in [active : BOOLEAN, id : Ids!Sequence, count : Nat, received : Block]
    BY <1>1, <1>10
  <2> HIDE DEF taken
  <2>6. Takes(k, d, taken)
    BY <1>8, <1>9, <2>2, <2>3, <2>4, <2>5, FragmentTakes
  <2>. QED BY <2>6 DEF taken
<1>13. /\ \A y : Age(y)' = Age(y)
       /\ Age(receiveQueue.next)' = Age(c.next)
       /\ \A y : (Received(y) => Received(y)')
       /\ \A y : BlockAt(y)' <=> BlockAt(y)
       /\ sendQueue' = sendQueue
  BY <1>9, <1>12, TakesCalm DEF Takes
<1>14. Received(x)'
  BY <1>8, <1>9 DEF Received
<1>15. \A y : \A i \in Claimed(y)' : i \in Claimed(y) \/ y = x
  <2> DEFINE taken == TRUE
  <2> HIDE DEF taken
  <2>1. Takes(k, d, taken)
    BY <1>12 DEF taken
  <2>2. \A y : \A i \in Claimed(y)' : i \in Claimed(y) \/ (taken /\ \E g \in d.fragment : g.id = y /\ g.index = i)
    BY <2>1, TakesClaimed
  <2>3. d.fragment = {f}
    BY DEF Fragmented
  <2>. QED BY <2>2, <2>3
<1>16. \A y \in Ids!Sequence : \A i \in Claimed(y)' : Received(y)'
  BY <1>3, <1>13, <1>14, <1>15 DEF BlockInv
<1>17. ASSUME NEW y \in DOMAIN sendQueue'.live, BlockAt(y)', ~Received(y)'
       PROVE  Age(y)' <= Age(receiveQueue.next)'
  <2>1. /\ y \in DOMAIN sendQueue.live /\ BlockAt(y) /\ ~Received(y) /\ y # x
        /\ y \in Ids!Sequence
    <3>1. y # x
      BY <1>14, <1>17
    <3>. QED BY <1>4, <1>13, <1>17, <3>1
  <2>2. Age(y) <= Age(x) /\ Age(y) # Age(x) /\ Age(y) \in Int
    BY <1>2, <1>3, <1>4, <2>1, OneAge, AgeIs DEF BlockInv
  <2>. QED BY <1>2, <1>3, <1>8, <1>13, <2>2
<1>18. receiveBlock'.active = FALSE
  BY <1>1 DEF NoBlock
<1>19. BlockInv'
  BY <1>16, <1>17, <1>18 DEF BlockInv
<1>. QED BY <1>12, <1>19

\* Only a receiver that is behind has the slot of a block taken.
LEMMA SlotTaken ==
    ASSUME Types, SenderInv, ReceiverInv, TransitInv,
           NEW x, x = receiveQueue.next, ~Ids!Available(receiveQueue, x)
    PROVE  receiveMessageId \in DOMAIN receiveQueue.live
<1> DEFINE r == receiveMessageId
<1>1. receiveQueue.size = ReceiveSize /\ DOMAIN receiveQueue.live \subseteq Ids!Sequence
      /\ x \in Ids!Sequence /\ r \in Ids!Sequence /\ sendMessageId \in Ids!Sequence
  BY Typed
<1>2. PICK t \in DOMAIN receiveQueue.live : t % ReceiveSize = x % ReceiveSize
  BY <1>1 DEF Ids!Available, Ids!Slot
<1>3. t \in Ids!Sequence /\ Age(t) \in Int /\ Age(x) \in Int /\ Age(r) \in Int
  BY <1>1, AgeIs
<1>4. Age(x) < Age(t) /\ Age(t) <= Age(r) /\ Age(r) <= Age(x) + ReceiveSize
  BY DEF ReceiverInv
<1>5. ReceiveSize \in Nat \ {0} /\ IdWrap % ReceiveSize = 0
  BY Bounds
<1>6. ~(Age(t) - Age(x) < ReceiveSize)
  <2>1. t # x
    BY <1>3, <1>4
  <2>2. Age(x) - Age(t) < ReceiveSize
    BY <1>3, <1>4, <1>5
  <2>. QED BY <1>1, <1>2, <1>3, <1>5, <2>1, <2>2, SlotAge
<1>7. Age(t) = Age(r)
  BY <1>3, <1>4, <1>5, <1>6
<1>8. t = r
  BY <1>1, <1>3, <1>7, OneAge
<1>. QED BY <1>2, <1>8

\* A fragment that does not complete a block, or one whose slot is taken.
LEMMA PartFragment ==
    ASSUME Types, SenderInv, ReceiverInv, TransitInv, PacketInv, FlightInv, BlockInv,
           NEW k, NEW d \in Data, NEW f, Fragmented(k, d, f), Expected(f), ProcessFragment(k, f), ~Placed(f),
           UNCHANGED <<sender, receiveMessageId, connected>>
    PROVE  \E taken \in BOOLEAN : Takes(k, d, taken) /\ BlockInv'
<1> DEFINE x == f.id
           count == Fragments[f.value]
           taken == ~Complete(f)
<1>1. /\ Service!Deliver(k, taken)
      /\ error' = [error EXCEPT !.receiver = IF taken THEN @ ELSE "desync"]
      /\ receiveBlock' = [active |-> TRUE, id |-> x, count |-> count, received |-> Filled(f)]
      /\ receiveQueue' = receiveQueue
      /\ Filled(f) \in Block
  <2>1. /\ Filled(f) \in Block
        /\ Service!Deliver(k, Complete(f) => Placed(f))
        /\ error' = [error EXCEPT !.receiver = IF Complete(f) /\ ~Placed(f) THEN "desync" ELSE @]
        /\ ~Placed(f) => /\ receiveBlock' = [active |-> TRUE, id |-> f.id, count |-> Fragments[f.value],
                                             received |-> Filled(f)]
                         /\ receiveQueue' = receiveQueue
    BY FragmentStep
  <2>2. (Complete(f) => Placed(f)) = taken
    OBVIOUS
  <2>3. [error EXCEPT !.receiver = IF Complete(f) /\ ~Placed(f) THEN "desync" ELSE @]
           = [error EXCEPT !.receiver = IF taken THEN @ ELSE "desync"]
    OBVIOUS
  <2>4. Service!Deliver(k, taken)
    BY <2>1, <2>2
  <2>. QED BY <2>1, <2>3, <2>4
<1>2. /\ x \in Ids!Sequence /\ f.value \in Values /\ count \in Nat \ {0} /\ f.index \in 0..(count - 1)
  BY FragmentIs
<1>3. /\ x = receiveQueue.next /\ ~Received(x)
      /\ BlockAt(x) /\ sendQueue.live[x] = f.value
      /\ BlockOf(f).count = count
      /\ Pieces(f) \subseteq 0..(count - 1)
      /\ \E i \in 0..(count - 1) : i \notin DOMAIN BlockOf(f).received
      /\ \E i \in 0..(count - 1) : i \notin Claimed(x)
      /\ Assembling(x) => BlockOf(f) = receiveBlock
      /\ \A y : Assembling(y) => y = x
  BY ExpectedIs
<1>4. /\ receiveQueue \in Buffers(Ids!Sequence, ReceiveSize, Values)
      /\ DOMAIN sendQueue.live \subseteq Ids!Sequence
  BY Typed
<1>5. Fits(receiveQueue)
  BY DEF Fits, ReceiverInv
<1>6. ~taken => receiveMessageId \in DOMAIN receiveQueue.live
  BY <1>3, SlotTaken DEF Placed
<1>7. receiveBlock' \in [active : BOOLEAN, id : Ids!Sequence, count : Nat, received : Block]
  BY <1>1, <1>2
<1>8. taken \in BOOLEAN
  BY DEF Complete
<1> HIDE DEF taken
<1>9. Takes(k, d, taken)
  <2>1. \A y \in DOMAIN receiveQueue'.live : y \in DOMAIN receiveQueue.live
    BY <1>1
  <2>2. \A y \in DOMAIN receiveQueue.live :
            y \in DOMAIN receiveQueue'.live /\ receiveQueue'.live[y] = receiveQueue.live[y]
    BY <1>1
  <2>. QED BY <1>1, <1>4, <1>5, <1>6, <1>7, <1>8, <2>1, <2>2, FragmentTakes
<1>10. /\ \A y : Age(y)' = Age(y)
       /\ Age(receiveQueue.next)' = Age(receiveQueue.next)
       /\ \A y : (Received(y) => Received(y)')
       /\ Age(receiveMessageId)' = Age(receiveMessageId)
       /\ \A y : BlockAt(y)' <=> BlockAt(y)
       /\ sendQueue' = sendQueue /\ error'.receiver = IF taken THEN "none" ELSE "desync"
       /\ error.receiver = "none"
  BY <1>1, <1>9, TakesCalm DEF Takes
<1>11. ~Received(x)'
  BY <1>1, <1>3, <1>10 DEF Received
<1>12. \A y : \A i \in Claimed(y)' : i \in Claimed(y) \/ (taken /\ y = x /\ i = f.index)
  <2>1. \A y : \A i \in Claimed(y)' : i \in Claimed(y) \/ (taken /\ \E g \in d.fragment : g.id = y /\ g.index = i)
    BY <1>9, TakesClaimed
  <2>2. d.fragment = {f}
    BY DEF Fragmented
  <2>. QED BY <2>1, <2>2
<1>13. /\ receiveBlock'.active = TRUE /\ receiveBlock'.id = x /\ receiveBlock'.count = count
       /\ receiveBlock'.received = Filled(f) /\ DOMAIN receiveBlock'.received = Pieces(f)
       /\ f.index \in Pieces(f) /\ DOMAIN BlockOf(f).received \subseteq Pieces(f)
  BY <1>1 DEF Filled, Pieces
<1>14. \A y \in Ids!Sequence : \A i \in Claimed(y)' :
          Received(y)' \/ (Assembling(y)' /\ i \in DOMAIN receiveBlock'.received)
  <2> SUFFICES ASSUME NEW y \in Ids!Sequence, NEW i \in Claimed(y)', ~Received(y)'
               PROVE  y = x /\ i \in Pieces(f)
    BY <1>13 DEF Assembling
  <2>1. CASE i \in Claimed(y)
    <3>1. Assembling(y) /\ i \in DOMAIN receiveBlock.received
      BY <1>10, <2>1 DEF BlockInv
    <3>. QED BY <1>3, <1>13, <3>1
  <2>2. CASE y = x /\ i = f.index
    BY <1>13, <2>2
  <2>. QED BY <1>12, <2>1, <2>2
<1>15. \A y \in DOMAIN sendQueue'.live : BlockAt(y)' /\ ~Received(y)' => Age(y)' <= Age(receiveQueue.next)'
  BY <1>10 DEF BlockInv
<1>16. ASSUME taken PROVE \E i \in 0..(count - 1) : i \notin Pieces(f)
  <2>1. CASE f.index \in DOMAIN BlockOf(f).received
    <3>1. Pieces(f) = DOMAIN BlockOf(f).received
      BY <2>1 DEF Pieces
    <3>. QED BY <1>3, <3>1
  <2>2. CASE Cardinality(Pieces(f)) # count
    <3>1. 0 \in Int /\ count - 1 \in Int
      BY <1>2
    <3>2. Cardinality(0..(count - 1)) = IF 0 > count - 1 THEN 0 ELSE (count - 1) - 0 + 1
      BY <3>1, FS_Interval
    <3>3. Pieces(f) # 0..(count - 1)
      BY <1>2, <2>2, <3>2
    <3>. QED BY <1>3, <3>3
  <2>. QED BY <1>16, <2>1, <2>2 DEF taken, Complete
<1>17. \E i \in 0..(count - 1) : i \notin Claimed(x)'
  <2>1. CASE taken
    <3>1. PICK i \in 0..(count - 1) : i \notin Pieces(f)
      BY <1>16, <2>1
    <3>2. i \notin Claimed(x)'
      BY <1>2, <1>11, <1>13, <1>14, <3>1
    <3>. QED BY <3>2
  <2>2. CASE ~taken
    BY <1>3, <1>12, <2>2
  <2>. QED BY <2>1, <2>2
<1>18. error'.receiver = "none" => \E i \in 0..(count - 1) : i \notin Pieces(f)
  BY <1>8, <1>10, <1>16
<1>19. /\ x = receiveQueue'.next /\ BlockAt(x)'
       /\ count = Fragments[sendQueue'.live[x]]
       /\ \A i \in Pieces(f) : Filled(f)[i] = [id |-> x, value |-> sendQueue'.live[x]]
  BY <1>1, <1>3, <1>10 DEF Filled
<1>20. /\ receiveBlock'.id = receiveQueue'.next /\ BlockAt(receiveBlock.id)'
       /\ receiveBlock'.count = Fragments[sendQueue'.live[receiveBlock'.id]]
       /\ DOMAIN receiveBlock'.received \subseteq 0..(receiveBlock'.count - 1)
       /\ error'.receiver = "none" =>
             \E i \in 0..(receiveBlock'.count - 1) : i \notin DOMAIN receiveBlock'.received
       /\ \E i \in 0..(receiveBlock'.count - 1) : i \notin Claimed(receiveBlock.id)'
       /\ \A i \in DOMAIN receiveBlock'.received :
             receiveBlock'.received[i] = [id |-> receiveBlock'.id, value |-> sendQueue'.live[receiveBlock'.id]]
  <2>1. BlockAt(receiveBlock.id)'
    BY <1>13, <1>19 DEF BlockAt
  <2>2. \E i \in 0..(receiveBlock'.count - 1) : i \notin Claimed(receiveBlock.id)'
    <3>1. Claimed(x)' = Claimed(receiveBlock.id)'
      BY <1>13 DEF Claimed, Told
    <3>. QED BY <1>13, <1>17, <3>1
  <2>. QED BY <1>3, <1>13, <1>18, <1>19, <2>1, <2>2
<1>21. BlockInv'
  BY <1>14, <1>15, <1>20 DEF BlockInv
<1>. QED BY <1>8, <1>9, <1>21

LEMMA PacketTakes ==
    ASSUME Inv, NEW k, ProcessPacket(k)
    PROVE  \E d \in Data, taken \in BOOLEAN : Takes(k, d, taken) /\ BlockInv'
<1>1. /\ Types /\ SenderInv /\ SentInv /\ ReceiverInv /\ TransitInv /\ FlightInv
      /\ PacketInv /\ BlockInv /\ DesyncOnlyIfBehind
  BY DEF Inv
<1>2. /\ error.receiver = "none" /\ k \in DOMAIN window
      /\ UNCHANGED <<sender, receiveMessageId, connected>>
  BY DEF ProcessPacket
<1>3. PICK d \in window[k].data :
          IF d.fragment = {} THEN ProcessMessages(k, d.messages)
                             ELSE \E f \in d.fragment : ProcessFragment(k, f)
  BY DEF ProcessPacket
<1>4. CASE d.fragment = {}
  <2>1. ProcessMessages(k, d.messages)
    BY <1>3, <1>4
  <2>. QED BY <1>2, <1>4, <2>1, MessagesTakes
<1>5. CASE d.fragment # {}
  <2>1. PICK f \in d.fragment : ProcessFragment(k, f)
    BY <1>3, <1>5
  <2>2. window[k] \in Packet
    BY <1>1, <1>2, Typed
  <2>3. d \in Data /\ window[k].data = {d} /\ window[k].fate = "flying"
    BY <2>2, PacketIs
  <2>4. d.fragment = {f}
    BY <2>1, <2>3, DataIs
  <2>5. Fragmented(k, d, f)
    BY <1>2, <2>3, <2>4 DEF Fragmented
  <2>6. \E taken \in BOOLEAN : Takes(k, d, taken) /\ BlockInv'
    <3>1. CASE ~Expected(f)
      BY <1>1, <1>2, <2>1, <2>3, <2>5, <3>1, UnexpectedFragment
    <3>2. CASE Expected(f) /\ Placed(f)
      BY <1>1, <1>2, <2>1, <2>3, <2>5, <3>2, PlacedFragment
    <3>3. CASE Expected(f) /\ ~Placed(f)
      BY <1>1, <1>2, <2>1, <2>3, <2>5, <3>3, PartFragment
    <3>. QED BY <3>1, <3>2, <3>3
  <2>. QED BY <2>3, <2>6
<1>. QED BY <1>4, <1>5

LEMMA PacketArrives ==
    ASSUME Inv, NEW k, ProcessPacket(k)
    PROVE  Inv'
<1>1. PICK d \in Data, taken \in BOOLEAN : Takes(k, d, taken) /\ BlockInv'
  BY PacketTakes
<1>. QED BY <1>1, TakenInv
(***************************************************************************)
(* The application takes a message.                                        *)
(***************************************************************************)
LEMMA ReceiveFacts ==
    ASSUME Types, ReceiverInv, ReceiveMessage
    PROVE  /\ \A y : Age(y)' = Age(y)
           /\ Age(receiveMessageId)' = Age(receiveMessageId) - 1 /\ Age(receiveMessageId) \in Int
           /\ Age(receiveQueue.next)' = Age(receiveQueue.next) /\ receiveQueue'.next = receiveQueue.next
           /\ Age(receiveQueue.next) < Age(receiveMessageId)
           /\ receiveMessageId \in DOMAIN receiveQueue.live
           /\ receiveMessageId' \in Ids!Sequence /\ receiveMessageId' = Ids!Later(receiveMessageId, 1)
           /\ receiveQueue' \in Buffers(Ids!Sequence, ReceiveSize, Values)
           /\ DOMAIN receiveQueue'.live = DOMAIN receiveQueue.live \ {receiveMessageId}
           /\ \A y \in DOMAIN receiveQueue'.live : receiveQueue'.live[y] = receiveQueue.live[y]
           /\ \A y \in Ids!Sequence : Received(y)' <=> Received(y)
           /\ connected /\ error.receiver = "none"
           /\ UNCHANGED <<sender, receiveBlock, error, connected, window>>
<1> DEFINE r == receiveMessageId
<1>1. /\ connected /\ error.receiver = "none"
      /\ r \in DOMAIN receiveQueue.live
      /\ receiveQueue' = Ids!Remove(receiveQueue, r)
      /\ receiveMessageId' = Ids!Later(r, 1)
      /\ UNCHANGED <<sender, receiveBlock, error, connected, window>>
  BY DEF ReceiveMessage, Ids!Exists
<1>2. /\ sendMessageId \in Ids!Sequence /\ r \in Ids!Sequence /\ receiveQueue.next \in Ids!Sequence
      /\ receiveQueue \in Buffers(Ids!Sequence, ReceiveSize, Values)
      /\ DOMAIN receiveQueue.live \subseteq Ids!Sequence
  BY Typed
<1>3. sendMessageId' = sendMessageId
  BY <1>1 DEF sender
<1>4. \A y : Age(y)' = Age(y)
  BY <1>3, SameAge
<1>5. Age(r) \in Int /\ Age(receiveQueue.next) \in Int /\ 0 <= Age(receiveQueue.next)
      /\ Age(receiveQueue.next) < Age(r)
  BY <1>1, <1>2, AgeIs DEF ReceiverInv
<1>6. Ids!Later(r, 1) \in Ids!Sequence /\ Age(Ids!Later(r, 1)) = Age(r) - 1
  <2> DEFINE one == 1
  <2>1. one \in Int /\ 0 <= one /\ one <= Age(r)
    BY <1>5
  <2>2. Ids!Later(r, one) \in Ids!Sequence /\ Age(Ids!Later(r, one)) = Age(r) - one
    <3> HIDE DEF one
    <3>. QED BY <1>2, <2>1, LaterAge
  <2>. QED BY <2>2
<1>7. Age(r)' = Age(r) - 1
  BY <1>1, <1>3, <1>6 DEF Age
<1>8. /\ receiveQueue' \in Buffers(Ids!Sequence, ReceiveSize, Values)
      /\ receiveQueue'.next = receiveQueue.next
      /\ DOMAIN receiveQueue'.live = {t \in DOMAIN receiveQueue.live : t % ReceiveSize # r % ReceiveSize}
      /\ \A t \in DOMAIN receiveQueue'.live : receiveQueue'.live[t] = receiveQueue.live[t]
  BY <1>1, <1>2, RemoveIs
<1>9. DOMAIN receiveQueue'.live = DOMAIN receiveQueue.live \ {r}
  <2>1. WellFormed(ReceiveSize, receiveQueue)
    BY <1>2, BufferIs
  <2>. QED BY <1>1, <1>8, <2>1 DEF WellFormed
<1>10. Age(receiveQueue.next)' = Age(receiveQueue.next)
  BY <1>3, <1>8 DEF Age
<1>11. ASSUME NEW y \in Ids!Sequence PROVE Received(y)' <=> Received(y)
  <2>1. Age(y) \in Int /\ (Age(y) = Age(r) => y = r)
    BY <1>2, AgeIs, OneAge
  <2>2. Received(y)' <=> Age(y) > Age(r) - 1 \/ y \in DOMAIN receiveQueue.live \ {r}
    BY <1>4, <1>7, <1>9 DEF Received
  <2>. QED BY <1>1, <1>5, <2>1, <2>2 DEF Received
<1>. QED BY <1>1, <1>4, <1>5, <1>6, <1>7, <1>8, <1>9, <1>10, <1>11

LEMMA ReceiveQueues ==
    ASSUME Types, SenderInv, SentInv, ReceiverInv, TransitInv, ReceiveMessage
    PROVE  Types' /\ SenderInv' /\ SentInv' /\ ReceiverInv' /\ TransitInv' /\ DesyncOnlyIfBehind'
<1> DEFINE r == receiveMessageId
<1>1. /\ \A y : Age(y)' = Age(y)
      /\ Age(r)' = Age(r) - 1 /\ Age(r) \in Int
      /\ Age(receiveQueue.next)' = Age(receiveQueue.next) /\ receiveQueue'.next = receiveQueue.next
      /\ Age(receiveQueue.next) < Age(r)
      /\ DOMAIN receiveQueue'.live = DOMAIN receiveQueue.live \ {r}
      /\ \A y \in DOMAIN receiveQueue'.live : receiveQueue'.live[y] = receiveQueue.live[y]
      /\ UNCHANGED <<sender, receiveBlock, error, connected, window>>
      /\ error.receiver = "none"
  BY ReceiveFacts
<1>2. /\ sendMessageId' = sendMessageId /\ oldestUnacked' = oldestUnacked /\ sendQueue' = sendQueue
      /\ sentPackets' = sentPackets /\ sendBlock' = sendBlock /\ packetSequence' = packetSequence
      /\ window' = window /\ error' = error /\ connected' = connected /\ receiveBlock' = receiveBlock
  BY <1>1 DEF sender
<1>3. /\ r \in Ids!Sequence /\ sendMessageId \in Ids!Sequence /\ ReceiveSize \in Nat
      /\ DOMAIN receiveQueue.live \subseteq Ids!Sequence /\ receiveQueue.next \in Ids!Sequence
  BY Typed, Bounds
<1>4. Types'
  <2>1. r' \in Ids!Sequence /\ receiveQueue' \in Buffers(Ids!Sequence, ReceiveSize, Values)
    BY ReceiveFacts
  <2>. QED BY <1>2, <2>1 DEF Types
<1>5. SenderInv'
  <2>1. Age(oldestUnacked)' = Age(oldestUnacked) /\ (BlockAt(oldestUnacked)' <=> BlockAt(oldestUnacked))
    BY <1>2 DEF Age, BlockAt
  <2>. QED BY <1>1, <1>2, <2>1 DEF SenderInv
<1>6. SentInv'
  BY <1>2 DEF SentInv, PacketAge
<1>7. \A y \in Ids!Sequence : Age(y) \in Int /\ (Age(y) = Age(r) => y = r)
  BY <1>3, AgeIs, OneAge
<1>8. ReceiverInv'
  <2>1. /\ Age(receiveQueue.next) <= Age(r) - 1 /\ Age(r) - 1 <= Age(receiveQueue.next) + ReceiveSize
    BY <1>1, <1>3, <1>7 DEF ReceiverInv
  <2>2. ASSUME NEW y \in DOMAIN receiveQueue'.live PROVE Age(receiveQueue.next) < Age(y) /\ Age(y) <= Age(r) - 1
    BY <1>1, <1>3, <1>7 DEF ReceiverInv
  <2>. QED BY <1>1, <2>1, <2>2 DEF ReceiverInv
<1>9. TransitInv'
  <2>1. ASSUME NEW y \in Ids!Sequence, 1 <= Age(y), Age(y) <= Age(r) - 1
        PROVE  y \in DOMAIN receiveQueue'.live \union DOMAIN sendQueue.live
    <3>1. Age(y) <= Age(r) /\ y # r
      BY <1>1, <1>7, <2>1
    <3>. QED BY <1>1, <2>1, <3>1 DEF TransitInv
  <2>2. \A y \in Ids!Sequence : y \in DOMAIN receiveQueue'.live \intersect DOMAIN sendQueue.live =>
              receiveQueue'.live[y] = sendQueue.live[y]
    BY <1>1 DEF TransitInv
  <2>. QED BY <1>1, <1>2, <2>1, <2>2 DEF TransitInv
<1>10. DesyncOnlyIfBehind'
  BY <1>1, <1>2 DEF DesyncOnlyIfBehind
<1>. QED BY <1>4, <1>5, <1>6, <1>8, <1>9, <1>10

\* A step that leaves the packets and what was received of their messages.
Quiet == /\ Calm /\ UNCHANGED <<window, sentPackets, packetSequence, sendBlock, sendQueue>>
         /\ \A y \in Ids!Sequence : Received(y)' <=> Received(y)

LEMMA QuietPackets ==
    ASSUME Types, PacketInv, FlightInv, Quiet
    PROVE  PacketInv' /\ FlightInv' /\ \A y : Claimed(y)' = Claimed(y)
<1>1. /\ Calm /\ window' = window /\ \A y : Age(y)' = Age(y)
  BY SameAge DEF Quiet, Calm
<1>2. \A j : EntryOf(j)' = EntryOf(j) /\ Number(j)' = Number(j)
  BY DEF Quiet, EntryOf, Number
<1>3. \A c, e : RecordOf(c, e)' <=> RecordOf(c, e)
  BY DEF RecordOf
<1>4. PacketInv'
  <2>1. ASSUME NEW c \in Data, DataInv(c) PROVE DataInv(c)'
    BY <1>1, <2>1, CalmData
  <2>2. ASSUME NEW e \in Entry, EntryInv(e) PROVE EntryInv(e)'
    BY <1>1, <2>2, CalmEntry
  <2> SUFFICES ASSUME NEW j \in DOMAIN window
               PROVE  /\ \A c \in window[j].data : DataInv(c)' /\ \A e \in EntryOf(j) : RecordOf(c, e)
                      /\ window[j].fate = "processed" => \A e \in EntryOf(j) : EntryInv(e)'
    BY <1>1, <1>2, <1>3 DEF PacketInv
  <2>3. \A c \in window[j].data : c \in Data /\ DataInv(c) /\ \A e \in EntryOf(j) : RecordOf(c, e)
    BY CarriedIs DEF PacketInv
  <2>4. \A e \in EntryOf(j) : e \in Entry /\ (window[j].fate = "processed" => EntryInv(e))
    BY EntryOfIs DEF PacketInv
  <2>. QED BY <2>1, <2>2, <2>3, <2>4
<1>5. \A x : Overtaken(x)' = Overtaken(x)
  BY <1>1 DEF Quiet, Overtaken
<1>6. \A j : Arrived(j)' = Arrived(j)
  BY <1>1, <1>2 DEF Arrived
<1>7. \A j : Carried(j)' = Carried(j)
  BY <1>1, <1>2 DEF Carried, IdsOf, Remembered
<1>8. FlightInv'
  BY <1>1, <1>5, <1>6, <1>7 DEF FlightInv
<1>9. \A y, j : Told(y, j)' = Told(y, j)
  BY <1>1, <1>2 DEF Told
<1>10. \A y : Claimed(y)' = Claimed(y)
  BY <1>1, <1>9 DEF Claimed, Quiet
<1>. QED BY <1>4, <1>8, <1>10

LEMMA QuietBlock ==
    ASSUME Types, BlockInv, Quiet, \A y : Claimed(y)' = Claimed(y), receiveBlock' = receiveBlock,
           error'.receiver = error.receiver, receiveQueue'.next = receiveQueue.next
    PROVE  BlockInv'
<1>1. /\ sendQueue' = sendQueue /\ \A y : Age(y)' = Age(y)
      /\ \A y \in Ids!Sequence : Received(y)' <=> Received(y)
      /\ DOMAIN sendQueue.live \subseteq Ids!Sequence
  BY SameAge, Typed DEF Quiet, Calm
<1>2. Age(receiveQueue.next)' = Age(receiveQueue.next)
  BY <1>1 DEF Age, Quiet, Calm
<1>3. /\ \A y : BlockAt(y)' <=> BlockAt(y)
      /\ \A y : Assembling(y)' <=> Assembling(y)
  BY <1>1 DEF BlockAt, Assembling
<1>4. Claimed(receiveBlock.id)' = Claimed(receiveBlock.id) /\ (BlockAt(receiveBlock.id)' <=> BlockAt(receiveBlock.id))
  <2>. QED BY <1>3
<1>. QED BY <1>1, <1>2, <1>3, <1>4 DEF BlockInv

LEMMA ReceiveInv == ASSUME Inv, ReceiveMessage PROVE Inv'
<1>1. /\ Types /\ SenderInv /\ SentInv /\ ReceiverInv /\ TransitInv /\ FlightInv
      /\ PacketInv /\ BlockInv /\ DesyncOnlyIfBehind
  BY DEF Inv
<1>2. Types' /\ SenderInv' /\ SentInv' /\ ReceiverInv' /\ TransitInv' /\ DesyncOnlyIfBehind'
  BY <1>1, ReceiveQueues
<1>3. /\ DOMAIN receiveQueue'.live \subseteq DOMAIN receiveQueue.live
      /\ \A y \in DOMAIN receiveQueue'.live : receiveQueue'.live[y] = receiveQueue.live[y]
      /\ \A y \in Ids!Sequence : Received(y)' <=> Received(y)
      /\ UNCHANGED <<sender, receiveBlock, error, connected, window>>
      /\ receiveQueue'.next = receiveQueue.next
  BY <1>1, ReceiveFacts
<1>4. Quiet
  BY <1>3 DEF Quiet, Calm, sender
<1>5. PacketInv' /\ FlightInv' /\ \A y : Claimed(y)' = Claimed(y)
  BY <1>1, <1>4, QuietPackets
<1>6. BlockInv'
  BY <1>1, <1>3, <1>4, <1>5, QuietBlock
<1>. QED BY <1>2, <1>5, <1>6 DEF Inv
(***************************************************************************)
(* The application sends a message.                                        *)
(***************************************************************************)
\* All numbers but the next come to be one older.
Older ==
    /\ sendMessageId' \in Ids!Sequence
    /\ \A y \in Ids!Sequence : /\ y # sendMessageId' => Age(y) < IdWrap - 1 /\ Age(y)' = Age(y) + 1
                               /\ y = sendMessageId' => Age(y) = IdWrap - 1 /\ Age(y)' = 0

LEMMA SendAges ==
    ASSUME sendMessageId \in Ids!Sequence, sendMessageId' = Ids!Later(sendMessageId, 1)
    PROVE  Older
<1>1. sendMessageId' \in Ids!Sequence /\ IdWrap \in Nat \ {0}
  <2> DEFINE one == 1
  <2>1. one \in Int
    OBVIOUS
  <2> HIDE DEF one
  <2>2. Ids!Later(sendMessageId, one) \in Ids!Sequence
    BY <2>1, LaterAge
  <2>. QED BY <2>2, Bounds DEF one
<1>2. ASSUME NEW y \in Ids!Sequence
      PROVE  /\ Age(y) \in Int /\ 0 <= Age(y) /\ Age(y) <= IdWrap - 1
             /\ Age(y) < IdWrap - 1 => Age(y)' = Age(y) + 1
             /\ Age(y) = IdWrap - 1 => Age(y)' = 0
             /\ Age(y)' = 0 <=> y = sendMessageId'
  <2>1. Age(y) \in Int /\ 0 <= Age(y) /\ Age(y) < IdWrap
    BY AgeIs
  <2>2. /\ Age(y) < IdWrap - 1 => Age(y)' = Age(y) + 1
        /\ Age(y) = IdWrap - 1 => Age(y)' = 0
    BY Ageing
  <2>3. Age(y)' = 0 <=> y = sendMessageId'
    <3> DEFINE q == sendMessageId'
    <3>1. q \in 0..(IdWrap - 1) /\ y \in 0..(IdWrap - 1) /\ IdWrap \in Nat \ {0}
      BY <1>1 DEF Ids!Sequence
    <3>2. Age(y)' = Gap(IdWrap, y, q)
      BY DEF Age, Ids!Distance, Gap
    <3> HIDE DEF q
    <3>3. Gap(IdWrap, q, q) = 0 /\ y = (q - Gap(IdWrap, y, q)) % IdWrap
      BY <3>1, GapIs
    <3>4. q = (q - Gap(IdWrap, q, q)) % IdWrap
      BY <3>1, GapIs
    <3>. QED BY <3>2, <3>3, <3>4 DEF q
  <2>. QED BY <1>1, <2>1, <2>2, <2>3
<1>. QED BY <1>1, <1>2 DEF Older

LEMMA SendFacts ==
    ASSUME Types, SenderInv, ReceiverInv, TransitInv, NEW v \in Values, SendMessage(v)
    PROVE  /\ Older /\ Age(sendMessageId) = 0
           /\ sendQueue' \in Buffers(Ids!Sequence, SendSize, Values) /\ sendQueue'.next = sendMessageId'
           /\ DOMAIN sendQueue'.live = DOMAIN sendQueue.live \union {sendMessageId}
           /\ \A y \in DOMAIN sendQueue.live : sendQueue'.live[y] = sendQueue.live[y]
           /\ sendQueue'.live[sendMessageId] = v
           /\ sendMessageId \notin DOMAIN sendQueue.live
           /\ sendMessageId \notin DOMAIN receiveQueue.live
           /\ Age(oldestUnacked) < SendSize
<1> DEFINE S == sendMessageId
           n == sendMessageId'
           W == IdWrap
           b == sendQueue
<1>1. /\ Ids!Available(b, S)
      /\ b' = Ids!Insert(b, S, v, Lap(W))
      /\ n = Ids!Later(S, 1)
  BY DEF SendMessage
<1>2. /\ S \in Ids!Sequence /\ oldestUnacked \in Ids!Sequence
      /\ b \in Buffers(Ids!Sequence, SendSize, Values) /\ DOMAIN b.live \subseteq Ids!Sequence
      /\ b.size = SendSize /\ b.next \in Ids!Sequence /\ DOMAIN receiveQueue.live \subseteq Ids!Sequence
      /\ receiveQueue.next \in Ids!Sequence
  BY Typed
<1>3. /\ W \in Nat \ {0} /\ SendSize \in Nat \ {0} /\ W % SendSize = 0 /\ Ids!Sequence = 0..(W - 1)
      /\ W > 2
  <2>1. /\ W \in Nat \ {0} /\ SendSize \in Nat \ {0} /\ ReceiveSize \in Nat \ {0} /\ 2 * (SendSize + ReceiveSize) <= W
    BY Bounds
  <2>. QED BY <2>1, Bounds DEF Ids!Sequence
<1>4. Older
  BY <1>1, <1>2, SendAges
<1>5. /\ \A y \in Ids!Sequence : Age(y) = Gap(W, y, S) /\ Age(y) \in Int /\ 0 <= Age(y)
      /\ Age(S) = 0
  BY <1>2, AgeIs
<1>6. b.next = S /\ \A y \in DOMAIN b.live : 1 <= Age(y) /\ Age(y) <= SendSize
  BY <1>2, <1>3, <1>5 DEF SenderInv
<1>7. Ids!GreaterThan(n, b.next)
  <2> DEFINE one == 1
             zero == 0
             u == b.next
  <2>1. /\ one \in Int /\ zero \in Int /\ S \in Ids!Sequence
        /\ 2 * ((Age(S) - one) - (Age(S) - zero)) < W /\ 2 * ((Age(S) - zero) - (Age(S) - one)) < W
        /\ Age(S) - one < Age(S) - zero
    BY <1>2, <1>3, <1>5
  <2>2. n = (S + one) % W /\ u = (S + zero) % W
    <3>1. S \in 0..(W - 1) /\ S + zero = S
      BY <1>2, <1>3
    <3>2. S % W = S
      BY <1>3, <3>1, Small
    <3>. QED BY <1>1, <1>6, <3>1, <3>2 DEF Ids!Later
  <2> HIDE DEF one, zero, u
  <2>3. Ids!GreaterThan(n, u) <=> Age(S) - one < Age(S) - zero
    BY ONLY <1>2, <2>1, <2>2, GreaterAge
  <2>. QED BY <2>1, <2>3 DEF u
<1> DEFINE e == Ids!SetEntry([Ids!RemoveEntries(b, b.next, S, W - 1) EXCEPT !.next = n], S, v)
<1>8. b' = e
  BY <1>1, <1>7 DEF Ids!Insert, Ids!Refuses, Ids!Put, Ids!Advance, Lap
<1>9. /\ e \in Buffers(0..(W - 1), SendSize, Values)
      /\ e.next = n
      /\ DOMAIN e.live = {t \in DOMAIN b.live : Gap(W, t, S) - Gap(W, S, S) < SendSize} \union {S}
      /\ e.live[S] = v
      /\ \A t \in DOMAIN e.live : t # S => e.live[t] = b.live[t]
  <2>1. /\ W \in Nat \ {0} /\ SendSize \in Nat \ {0} /\ W % SendSize = 0
        /\ b \in Buffers(0..(W - 1), SendSize, Values) /\ S \in 0..(W - 1) /\ n \in 0..(W - 1)
        /\ v \in Values
    BY <1>2, <1>3, <1>4 DEF Older
  <2>2. Gap(W, S, S) <= Gap(W, b.next, S)
    BY <1>2, <1>5, <1>6
  <2>3. \A t \in DOMAIN b.live : Gap(W, t, S) - Gap(W, b.next, S) \in 1..SendSize
    BY <1>2, <1>3, <1>5, <1>6
  <2>4. e = Ids!SetEntry([Ids!RemoveEntries(b, b.next, S, W - 1) EXCEPT !.next = n], S, v)
    OBVIOUS
  <2> HIDE DEF S, n, b, W, e
  <2>. QED BY ONLY <2>1, <2>2, <2>3, <2>4, PutNewer
<1>10. \A t \in DOMAIN b.live : Gap(W, t, S) - Gap(W, S, S) < SendSize
  <2> SUFFICES ASSUME NEW t \in DOMAIN b.live PROVE Age(t) - Age(S) < SendSize
    BY <1>2, <1>5
  <2>1. Age(t) - Age(S) # SendSize
    <3>1. t % SendSize # S % SendSize
      BY <1>1, <1>2 DEF Ids!Available, Ids!Slot
    <3>. QED BY <1>2, <1>3, <3>1, SlotAge
  <2>. QED BY <1>2, <1>3, <1>5, <1>6, <2>1
<1> HIDE DEF e
<1>11. S \notin DOMAIN b.live /\ S \notin DOMAIN receiveQueue.live
  <2>1. S \notin DOMAIN b.live
    BY <1>5, <1>6
  <2>2. S \notin DOMAIN receiveQueue.live
    BY <1>2, <1>5 DEF ReceiverInv
  <2>. QED BY <2>1, <2>2
<1>12. Age(oldestUnacked) < SendSize
  <2>1. CASE oldestUnacked = S
    BY <1>3, <1>5, <2>1
  <2>2. CASE oldestUnacked # S
    <3>1. oldestUnacked \in DOMAIN b.live
      BY <2>2 DEF SenderInv
    <3>. QED BY <1>2, <1>5, <1>10, <3>1
  <2>. QED BY <2>1, <2>2
<1>13. /\ DOMAIN e.live = DOMAIN b.live \union {S}
       /\ \A y \in DOMAIN b.live : e.live[y] = b.live[y]
  BY <1>9, <1>10, <1>11
<1>. QED BY <1>3, <1>4, <1>5, <1>8, <1>9, <1>11, <1>12, <1>13
-----------------------------------------------------------------------------
\* A message is sent, as far as the invariant is concerned.
Sending ==
    /\ Older /\ sendMessageId \in Ids!Sequence /\ Age(sendMessageId) = 0
    /\ sendQueue' \in Buffers(Ids!Sequence, SendSize, Values) /\ sendQueue'.next = sendMessageId'
    /\ DOMAIN sendQueue'.live = DOMAIN sendQueue.live \union {sendMessageId}
    /\ \A y \in DOMAIN sendQueue.live : sendQueue'.live[y] = sendQueue.live[y]
    /\ sendMessageId \notin DOMAIN sendQueue.live /\ sendMessageId \notin DOMAIN receiveQueue.live
    /\ Age(oldestUnacked) < SendSize
    \* what both sides have is not as old as the number that comes round
    /\ Age(receiveMessageId) < IdWrap - 1
    /\ \A y \in Ids!Sequence : Age(y) <= Age(receiveMessageId) \/ Age(y) <= Age(oldestUnacked) => y # sendMessageId'
    /\ UNCHANGED <<oldestUnacked, sentPackets, sendBlock, packetSequence, receiver, error, connected, window>>

LEMMA SendIs ==
    ASSUME Types, SenderInv, ReceiverInv, TransitInv, NEW v \in Values, SendMessage(v)
    PROVE  Sending
<1>1. /\ Older /\ Age(sendMessageId) = 0
      /\ sendQueue' \in Buffers(Ids!Sequence, SendSize, Values) /\ sendQueue'.next = sendMessageId'
      /\ DOMAIN sendQueue'.live = DOMAIN sendQueue.live \union {sendMessageId}
      /\ \A y \in DOMAIN sendQueue.live : sendQueue'.live[y] = sendQueue.live[y]
      /\ sendMessageId \notin DOMAIN sendQueue.live
      /\ sendMessageId \notin DOMAIN receiveQueue.live
      /\ Age(oldestUnacked) < SendSize
  BY SendFacts
<1>2. UNCHANGED <<oldestUnacked, sentPackets, sendBlock, packetSequence, receiver, error, connected, window>>
  BY DEF SendMessage
<1>3. /\ Age(receiveMessageId) <= SendSize + ReceiveSize /\ Age(receiveMessageId) \in Int
      /\ Age(oldestUnacked) \in Int
  BY Behind
<1>4. /\ 2 * (SendSize + ReceiveSize) <= IdWrap /\ SendSize \in Nat \ {0} /\ ReceiveSize \in Nat \ {0} /\ IdWrap \in Nat
  BY Bounds
<1>5. Age(receiveMessageId) < IdWrap - 1 /\ Age(oldestUnacked) < IdWrap - 1
  BY <1>1, <1>3, <1>4
<1>6. \A y \in Ids!Sequence : Age(y) <= Age(receiveMessageId) \/ Age(y) <= Age(oldestUnacked) => y # sendMessageId'
  <2> SUFFICES ASSUME NEW y \in Ids!Sequence, Age(y) = IdWrap - 1
               PROVE  ~(Age(y) <= Age(receiveMessageId)) /\ ~(Age(y) <= Age(oldestUnacked))
    BY <1>1 DEF Older
  <2>. QED BY <1>3, <1>4, <1>5
<1>. QED BY <1>1, <1>2, <1>5, <1>6, Typed DEF Sending

\* What was received stays so, but for the number that comes round.
LEMMA SendReceived ==
    ASSUME Types, SenderInv, ReceiverInv, Sending
    PROVE  /\ Age(receiveMessageId)' = Age(receiveMessageId) + 1
           /\ Age(oldestUnacked)' = Age(oldestUnacked) + 1
           /\ Age(receiveQueue.next)' = Age(receiveQueue.next) + 1
           /\ \A y \in Ids!Sequence : y # sendMessageId' => (Received(y)' <=> Received(y))
           /\ \A y \in Ids!Sequence : y = sendMessageId => ~Received(y) /\ ~Received(y)' /\ Age(y)' = 1
           /\ \A y \in Ids!Sequence : Age(y) \in Int /\ 0 <= Age(y) /\ (Age(y) = 0 => y = sendMessageId)
           /\ receiveMessageId \in Ids!Sequence /\ receiveQueue.next \in Ids!Sequence /\ oldestUnacked \in Ids!Sequence
           /\ DOMAIN sendQueue.live \subseteq Ids!Sequence /\ DOMAIN receiveQueue.live \subseteq Ids!Sequence
           /\ IdWrap > 2
<1> DEFINE r == receiveMessageId
           S == sendMessageId
<1>1. /\ r \in Ids!Sequence /\ receiveQueue.next \in Ids!Sequence /\ oldestUnacked \in Ids!Sequence
      /\ DOMAIN sendQueue.live \subseteq Ids!Sequence /\ DOMAIN receiveQueue.live \subseteq Ids!Sequence
      /\ S \in Ids!Sequence
  BY Typed
<1>2. \A y \in Ids!Sequence : Age(y) \in Int /\ 0 <= Age(y) /\ (Age(y) = 0 => y = S)
  BY <1>1, AgeIs
<1>3. /\ \A y \in Ids!Sequence : y # sendMessageId' => Age(y)' = Age(y) + 1
      /\ \A y \in Ids!Sequence : Age(y) <= Age(r) \/ Age(y) <= Age(oldestUnacked) => y # sendMessageId'
      /\ r' = r /\ receiveQueue' = receiveQueue /\ oldestUnacked' = oldestUnacked
      /\ S \notin DOMAIN receiveQueue.live /\ Age(S) = 0
  BY DEF Sending, Older, receiver
<1>4. r # sendMessageId' /\ receiveQueue.next # sendMessageId' /\ oldestUnacked # sendMessageId'
      /\ S # sendMessageId'
  <2>1. Age(receiveQueue.next) <= Age(r)
    BY DEF ReceiverInv
  <2>2. Age(r) <= Age(r) /\ Age(oldestUnacked) <= Age(oldestUnacked) /\ Age(S) <= Age(r)
    BY <1>1, <1>2, <1>3
  <2>. QED BY <1>1, <1>3, <2>1, <2>2
<1>5. /\ Age(r)' = Age(r) + 1 /\ Age(oldestUnacked)' = Age(oldestUnacked) + 1
      /\ Age(receiveQueue.next)' = Age(receiveQueue.next) + 1
      /\ Age(S) + 1 = 1
  <2>1. \A y \in Ids!Sequence : y # sendMessageId' => Ids!Distance(y, sendMessageId') = Age(y) + 1
    BY <1>3 DEF Age
  <2>. QED BY <1>1, <1>3, <1>4, <2>1 DEF Age
<1>6. ASSUME NEW y \in Ids!Sequence, y # sendMessageId' PROVE Received(y)' <=> Received(y)
  <2>1. Age(y)' = Age(y) + 1
    BY <1>3, <1>6
  <2>2. Received(y)' <=> Age(y) + 1 > Age(r) + 1 \/ y \in DOMAIN receiveQueue.live
    BY <1>3, <1>5, <2>1 DEF Received
  <2>. QED BY <1>1, <1>2, <2>2 DEF Received
<1>7. ~Received(S)
  BY <1>1, <1>2, <1>3 DEF Received
<1>8. \A y \in Ids!Sequence : y = S => ~Received(y) /\ ~Received(y)' /\ Age(y)' = 1
  BY <1>3, <1>4, <1>5, <1>6, <1>7
<1>9. IdWrap > 2
  <2>1. /\ 2 * (SendSize + ReceiveSize) <= IdWrap /\ SendSize \in Nat \ {0} /\ ReceiveSize \in Nat \ {0} /\ IdWrap \in Nat
    BY Bounds
  <2>. QED BY <2>1
<1>. QED BY <1>1, <1>2, <1>5, <1>6, <1>8, <1>9
-----------------------------------------------------------------------------
LEMMA SendQueuesInv ==
    ASSUME Types, SenderInv, SentInv, ReceiverInv, TransitInv, DesyncOnlyIfBehind, Sending
    PROVE  Types' /\ SenderInv' /\ SentInv' /\ ReceiverInv' /\ TransitInv' /\ DesyncOnlyIfBehind'
<1> DEFINE r == receiveMessageId
           S == sendMessageId
<1>1. /\ Age(r)' = Age(r) + 1
      /\ Age(oldestUnacked)' = Age(oldestUnacked) + 1
      /\ Age(receiveQueue.next)' = Age(receiveQueue.next) + 1
      /\ \A y \in Ids!Sequence : y = S => Age(y)' = 1
      /\ \A y \in Ids!Sequence : Age(y) \in Int /\ 0 <= Age(y) /\ (Age(y) = 0 => y = S)
      /\ r \in Ids!Sequence /\ receiveQueue.next \in Ids!Sequence /\ oldestUnacked \in Ids!Sequence
      /\ DOMAIN sendQueue.live \subseteq Ids!Sequence /\ DOMAIN receiveQueue.live \subseteq Ids!Sequence
  BY SendReceived
<1>2. /\ S \in Ids!Sequence /\ Age(S) = 0
      /\ sendMessageId' \in Ids!Sequence
      /\ sendQueue' \in Buffers(Ids!Sequence, SendSize, Values) /\ sendQueue'.next = sendMessageId'
      /\ DOMAIN sendQueue'.live = DOMAIN sendQueue.live \union {S}
      /\ \A y \in DOMAIN sendQueue.live : sendQueue'.live[y] = sendQueue.live[y]
      /\ S \notin DOMAIN sendQueue.live /\ S \notin DOMAIN receiveQueue.live
      /\ Age(oldestUnacked) < SendSize
      /\ \A y \in Ids!Sequence : y # sendMessageId' => Age(y)' = Age(y) + 1
      /\ \A y \in Ids!Sequence : y = sendMessageId' => Age(y)' = 0
      /\ \A y \in Ids!Sequence : Age(y) <= Age(r) \/ Age(y) <= Age(oldestUnacked) => y # sendMessageId'
  BY DEF Sending, Older
<1>3. /\ oldestUnacked' = oldestUnacked /\ sentPackets' = sentPackets /\ sendBlock' = sendBlock
      /\ packetSequence' = packetSequence /\ receiveMessageId' = r /\ receiveQueue' = receiveQueue
      /\ receiveBlock' = receiveBlock /\ error' = error /\ connected' = connected /\ window' = window
  BY DEF Sending, receiver
<1>4. SendSize \in Nat /\ ReceiveSize \in Nat
  BY Bounds
<1>5. Types'
  BY <1>2, <1>3 DEF Types
<1>6. \A y \in DOMAIN sendQueue.live : Age(y)' = Age(y) + 1 /\ 1 <= Age(y) /\ Age(y) <= Age(oldestUnacked)
  BY <1>1, <1>2 DEF SenderInv
<1>7. SenderInv'
  <2>1. \A y \in DOMAIN sendQueue'.live : 1 <= Age(y)' /\ Age(y)' <= Age(oldestUnacked) + 1
    BY <1>1, <1>2, <1>6
  <2>2. oldestUnacked # sendMessageId' => oldestUnacked \in DOMAIN sendQueue'.live
    BY <1>2 DEF SenderInv
  <2>3. ASSUME sendBlock.active
        PROVE  /\ sendBlock.id = oldestUnacked /\ BlockAt(oldestUnacked)'
               /\ sendBlock.acked \subseteq 0..(Fragments[sendQueue'.live[oldestUnacked]] - 1)
    <3>1. /\ sendBlock.id = oldestUnacked /\ BlockAt(oldestUnacked)
          /\ sendBlock.acked \subseteq 0..(Fragments[sendQueue.live[oldestUnacked]] - 1)
      BY <2>3 DEF SenderInv
    <3>2. oldestUnacked \in DOMAIN sendQueue.live
      BY <3>1 DEF BlockAt
    <3>. QED BY <1>2, <1>3, <3>1, <3>2 DEF BlockAt
  <2>4. Age(oldestUnacked) + 1 <= SendSize
    BY <1>1, <1>2, <1>4
  <2>. QED BY <1>1, <1>2, <1>3, <2>1, <2>2, <2>3, <2>4 DEF SenderInv
<1>8. SentInv'
  BY <1>3 DEF SentInv, PacketAge
<1>9. ReceiverInv'
  <2>1. \A y \in DOMAIN receiveQueue.live :
           Age(receiveQueue.next) < Age(y) /\ Age(y) <= Age(r) /\ Age(y)' = Age(y) + 1
    BY <1>1, <1>2 DEF ReceiverInv
  <2>2. /\ Age(receiveQueue.next) + 1 <= Age(r) + 1
        /\ Age(r) + 1 <= (Age(receiveQueue.next) + 1) + ReceiveSize
    BY <1>1, <1>4 DEF ReceiverInv
  <2>3. \A y \in DOMAIN receiveQueue.live : Age(receiveQueue.next) + 1 < Age(y)' /\ Age(y)' <= Age(r) + 1
    BY <1>1, <2>1
  <2>. QED BY <1>1, <1>3, <2>2, <2>3 DEF ReceiverInv
<1>10. TransitInv'
  <2>1. ASSUME NEW y \in Ids!Sequence, 1 <= Age(y)', Age(y)' <= Age(r) + 1
        PROVE  y \in DOMAIN receiveQueue.live \union DOMAIN sendQueue'.live
    <3>1. y # sendMessageId' /\ Age(y)' = Age(y) + 1
      BY <1>2, <2>1
    <3>2. CASE y = S
      BY <1>2, <3>2
    <3>3. CASE y # S
      <4>1. 1 <= Age(y) /\ Age(y) <= Age(r)
        BY <1>1, <2>1, <3>1, <3>3
      <4>. QED BY <1>2, <4>1 DEF TransitInv
    <3>. QED BY <3>2, <3>3
  <2>2. \A y \in Ids!Sequence : y \in DOMAIN receiveQueue.live \intersect DOMAIN sendQueue'.live =>
              receiveQueue.live[y] = sendQueue'.live[y]
    BY <1>2 DEF TransitInv
  <2>. QED BY <1>1, <1>3, <2>1, <2>2 DEF TransitInv
<1>11. DesyncOnlyIfBehind'
  BY <1>3 DEF DesyncOnlyIfBehind, Ids!Exists
<1>. QED BY <1>5, <1>7, <1>8, <1>9, <1>10, <1>11

\* What is on its way gets one older.
LEMMA SendCarried ==
    ASSUME Types, SenderInv, ReceiverInv, TransitInv, FlightInv, Sending, NEW k \in DOMAIN window, NEW x \in Carried(k)
    PROVE  /\ x \in Ids!Sequence /\ Age(x)' = Age(x) + 1 /\ x # sendMessageId' /\ x # sendMessageId
           /\ Age(x) \in Int /\ 1 <= Age(x)
<1>1. x \in Ids!Sequence /\ Age(x) \in Int /\ 1 <= Age(x) /\ Age(x) < IdWrap - 1
  BY FlightAge
<1>2. IdWrap \in Nat
  BY Bounds
<1>. QED BY <1>1, <1>2 DEF Sending, Older

LEMMA SendFlight ==
    ASSUME Types, SenderInv, ReceiverInv, TransitInv, FlightInv, Sending
    PROVE  FlightInv'
<1>1. /\ window' = window /\ sentPackets' = sentPackets /\ packetSequence' = packetSequence
  BY DEF Sending
<1>2. \A j : EntryOf(j)' = EntryOf(j) /\ Number(j)' = Number(j)
  BY <1>1 DEF EntryOf, Number
<1>3. /\ \A j : Arrived(j)' = Arrived(j)
      /\ \A j : Carried(j)' = Carried(j)
  BY <1>1, <1>2 DEF Arrived, Carried, IdsOf, Remembered
<1>4. /\ \A y \in Ids!Sequence : y # sendMessageId' => Age(y)' = Age(y) + 1 /\ (Received(y)' <=> Received(y))
      /\ \A y \in Ids!Sequence : y = sendMessageId' => Age(y)' = 0
      /\ \A y \in Ids!Sequence : y = sendMessageId => ~Received(y)'
      /\ \A y \in Ids!Sequence : Age(y) \in Int /\ 0 <= Age(y) /\ (Age(y) = 0 => y = sendMessageId)
  BY SendReceived DEF Sending, Older
<1>5. ASSUME NEW k \in DOMAIN window, NEW x \in Carried(k)
      PROVE  1 <= Age(x)' /\ Cardinality(Overtaken(x)') <= MaxPerPacket * Cardinality(Arrived(k))
  <2>1. x \in Ids!Sequence /\ Age(x)' = Age(x) + 1 /\ Age(x) \in Int /\ 1 <= Age(x)
    BY SendCarried
  <2>2. ASSUME NEW y \in Ids!Sequence, 1 <= Age(y)', Age(y)' <= Age(x)' - SendSize, Received(y)'
        PROVE  y \in Overtaken(x)
    <3>1. y # sendMessageId' /\ y # sendMessageId
      BY <1>4, <2>2
    <3>2. Age(y)' = Age(y) + 1 /\ Received(y) /\ Age(y) \in Int /\ 1 <= Age(y) /\ SendSize \in Int
      BY <1>4, <2>2, <3>1, Bounds
    <3>3. Age(y) <= Age(x) - SendSize
      BY <2>1, <2>2, <3>2
    <3>. QED BY <3>2, <3>3 DEF Overtaken
  <2>3. Overtaken(x)' \subseteq Overtaken(x)
    <3>1. Overtaken(x)' = {y \in Ids!Sequence : 1 <= Age(y)' /\ Age(y)' <= Age(x)' - SendSize /\ Received(y)'}
      BY DEF Overtaken
    <3>. QED BY <2>2, <3>1
  <2>4. Cardinality(Overtaken(x)') <= Cardinality(Overtaken(x)) /\ Cardinality(Overtaken(x)') \in Nat
        /\ Cardinality(Overtaken(x)) \in Nat
    BY <2>3, OvertakenIs, FS_Subset, FS_CardinalityType
  <2>5. MaxPerPacket * Cardinality(Arrived(k)) \in Int
    BY ArrivedIs, Bounds
  <2>6. Cardinality(Overtaken(x)) <= MaxPerPacket * Cardinality(Arrived(k))
    BY DEF FlightInv
  <2>. QED BY <2>1, <2>4, <2>5, <2>6
<1>6. ASSUME NEW k \in DOMAIN window, NEW l \in DOMAIN window, k <= l, NEW x \in Carried(k), NEW y \in Carried(l)
      PROVE  Age(x)' - Age(y)' < SendSize
  <2>1. Age(x) - Age(y) < SendSize
    BY <1>6 DEF FlightInv
  <2>2. Age(x)' = Age(x) + 1 /\ Age(x) \in Int /\ Age(y)' = Age(y) + 1 /\ Age(y) \in Int
    BY SendCarried
  <2>. QED BY <2>1, <2>2
<1>. QED BY <1>1, <1>3, <1>5, <1>6 DEF FlightInv

LEMMA SendPackets ==
    ASSUME Types, SenderInv, ReceiverInv, TransitInv, FlightInv, PacketInv, Sending
    PROVE  PacketInv'
<1>1. /\ window' = window /\ sentPackets' = sentPackets /\ packetSequence' = packetSequence
      /\ receiveQueue' = receiveQueue /\ sendMessageId \in Ids!Sequence
      /\ DOMAIN sendQueue'.live = DOMAIN sendQueue.live \union {sendMessageId}
      /\ \A y \in DOMAIN sendQueue.live : sendQueue'.live[y] = sendQueue.live[y]
  BY DEF Sending, receiver
<1>2. \A j : EntryOf(j)' = EntryOf(j)
  BY <1>1 DEF EntryOf, Number
<1>3. \A c, e : RecordOf(c, e)' <=> RecordOf(c, e)
  BY DEF RecordOf
<1>4. /\ \A y \in Ids!Sequence : y # sendMessageId' => Age(y)' = Age(y) + 1 /\ (Received(y)' <=> Received(y))
      /\ \A y \in Ids!Sequence : y = sendMessageId' => Age(y)' = 0
      /\ \A y \in Ids!Sequence : y = sendMessageId => Age(y)' = 1
      /\ \A y \in Ids!Sequence : Age(y) \in Int /\ 0 <= Age(y)
      /\ DOMAIN sendQueue.live \subseteq Ids!Sequence
  BY SendReceived DEF Sending, Older
<1>5. \A y \in Ids!Sequence : y # sendMessageId => (BlockAt(y)' <=> BlockAt(y))
  BY <1>1 DEF BlockAt
<1>6. SendSize \in Nat \ {0} /\ ReceiveSize \in Nat \ {0}
  BY Bounds
<1> SUFFICES ASSUME NEW k \in DOMAIN window
             PROVE  /\ \A d \in window[k].data : DataInv(d)' /\ \A e \in EntryOf(k) : RecordOf(d, e)
                    /\ window[k].fate = "processed" => \A e \in EntryOf(k) : EntryInv(e)'
  BY <1>1, <1>2, <1>3 DEF PacketInv
<1>7. \A x \in Carried(k) : /\ x \in Ids!Sequence /\ Age(x)' = Age(x) + 1 /\ x # sendMessageId' /\ x # sendMessageId
                            /\ Age(x) \in Int /\ 1 <= Age(x)
  BY SendCarried
<1>8. ASSUME NEW d \in window[k].data PROVE DataInv(d)' /\ \A e \in EntryOf(k) : RecordOf(d, e)
  <2>1. d \in Data /\ IdsOf(d) \subseteq Carried(k) /\ DataInv(d) /\ \A e \in EntryOf(k) : RecordOf(d, e)
    BY CarriedIs DEF PacketInv
  <2>2. ASSUME NEW i \in DOMAIN d.messages PROVE MessageInv(d.messages[i])'
    <3> DEFINE m == d.messages[i]
    <3>1. MessageInv(m) /\ m.id \in Carried(k)
      BY <2>1 DEF DataInv, IdsOf
    <3> HIDE DEF m
    <3>2. m.id \in Ids!Sequence /\ Age(m.id)' = Age(m.id) + 1 /\ m.id # sendMessageId /\ Age(m.id) \in Int /\ 1 <= Age(m.id)
      BY <1>7, <3>1
    <3>3. ASSUME NEW y \in Ids!Sequence, Age(m.id)' + ReceiveSize <= Age(y)' PROVE Received(y)'
      <4>1. y # sendMessageId'
        BY <1>4, <1>6, <3>2, <3>3
      <4>2. Age(m.id) + ReceiveSize <= Age(y)
        BY <1>4, <1>6, <3>2, <3>3, <4>1
      <4>. QED BY <1>4, <3>1, <4>1, <4>2 DEF MessageInv
    <3>4. /\ m.id \in DOMAIN sendQueue'.live => sendQueue'.live[m.id] = m.value
          /\ m.id \in DOMAIN receiveQueue'.live => receiveQueue'.live[m.id] = m.value
          /\ ~IsBlock(m.value)
      BY <1>1, <3>1, <3>2 DEF MessageInv
    <3>5. \A z : z = m => MessageInv(z)'
      BY <3>3, <3>4 DEF MessageInv
    <3>. QED BY <3>5 DEF m
  <2>3. ASSUME NEW f \in d.fragment PROVE FragmentInv(f)'
    <3>1. FragmentInv(f) /\ f.id \in Carried(k)
      BY <2>1 DEF DataInv, IdsOf
    <3>2. f.id \in Ids!Sequence /\ Age(f.id)' = Age(f.id) + 1 /\ f.id # sendMessageId /\ Age(f.id) \in Int /\ 1 <= Age(f.id)
      BY <1>7, <3>1
    <3>3. ASSUME NEW y \in Ids!Sequence, Age(f.id)' < Age(y)' PROVE Received(y)'
      <4>1. y # sendMessageId'
        BY <1>4, <3>2, <3>3
      <4>2. Age(f.id) < Age(y)
        BY <1>4, <3>2, <3>3, <4>1
      <4>. QED BY <1>4, <3>1, <4>1, <4>2 DEF FragmentInv
    <3>4. f.id \in DOMAIN sendQueue'.live => sendQueue'.live[f.id] = f.value
      BY <1>1, <3>1, <3>2 DEF FragmentInv
    <3>. QED BY <3>3, <3>4 DEF FragmentInv
  <2>4. ASSUME NEW x \in IdsOf(d), NEW y \in DOMAIN sendQueue'.live, BlockAt(y)' PROVE Age(y)' <= Age(x)'
    <3>1. Age(x)' = Age(x) + 1 /\ Age(x) \in Int /\ 1 <= Age(x)
      BY <1>7, <2>1
    <3>2. CASE y = sendMessageId
      BY <1>1, <1>4, <3>1, <3>2
    <3>3. CASE y # sendMessageId
      <4>1. y \in DOMAIN sendQueue.live /\ y \in Ids!Sequence /\ BlockAt(y)
        BY <1>1, <1>4, <1>5, <2>4, <3>3
      <4>2. Age(y) <= Age(x)
        BY <2>1, <4>1 DEF DataInv
      <4>3. Age(y)' <= Age(y) + 1
        BY <1>4, <4>1
      <4>4. Age(y)' \in Int /\ Age(y) \in Int
        BY <1>4, <4>1
      <4>. QED BY <3>1, <4>2, <4>3, <4>4
    <3>. QED BY <3>2, <3>3
  <2>5. IdsOf(d)' = IdsOf(d)
    BY DEF IdsOf
  <2>. QED BY <2>1, <2>2, <2>3, <2>4, <2>5 DEF DataInv
<1>9. ASSUME window[k].fate = "processed", NEW e \in EntryOf(k) PROVE EntryInv(e)'
  <2>1. Remembered(e) \subseteq Carried(k) /\ EntryInv(e)
    BY <1>9, CarriedIs DEF PacketInv
  <2>2. ASSUME NEW y \in Range(e.ids) PROVE Received(y)' /\ ~BlockAt(y)'
    <3>1. y \in Carried(k) /\ Received(y) /\ ~BlockAt(y)
      BY <2>1 DEF EntryInv, Remembered
    <3>. QED BY <1>4, <1>5, <1>7, <3>1
  <2>3. ASSUME NEW g \in e.fragment, g.id \in DOMAIN sendQueue'.live
        PROVE  BlockAt(g.id)' /\ g.index < Fragments[sendQueue'.live[g.id]]
    <3>1. g.id \in Carried(k)
      BY <2>1 DEF Remembered
    <3>2. g.id \in DOMAIN sendQueue.live
      BY <1>1, <1>7, <2>3, <3>1
    <3>3. BlockAt(g.id) /\ g.index < Fragments[sendQueue.live[g.id]]
      BY <2>1, <3>2 DEF EntryInv
    <3>. QED BY <1>1, <3>2, <3>3 DEF BlockAt
  <2>. QED BY <2>2, <2>3 DEF EntryInv
<1>. QED BY <1>8, <1>9

LEMMA SendBlockInv ==
    ASSUME Types, SenderInv, ReceiverInv, TransitInv, FlightInv, BlockInv, Sending
    PROVE  BlockInv'
<1>1. /\ window' = window /\ sentPackets' = sentPackets /\ packetSequence' = packetSequence
      /\ receiveQueue' = receiveQueue /\ receiveBlock' = receiveBlock /\ sendBlock' = sendBlock
      /\ error' = error /\ sendMessageId \in Ids!Sequence
      /\ DOMAIN sendQueue'.live = DOMAIN sendQueue.live \union {sendMessageId}
      /\ \A y \in DOMAIN sendQueue.live : sendQueue'.live[y] = sendQueue.live[y]
      /\ sendMessageId \notin DOMAIN sendQueue.live
      /\ \A y \in Ids!Sequence : Age(y) <= Age(receiveMessageId) \/ Age(y) <= Age(oldestUnacked) => y # sendMessageId'
  BY DEF Sending, receiver
<1>2. \A j : EntryOf(j)' = EntryOf(j)
  BY <1>1 DEF EntryOf, Number
<1>3. /\ \A y \in Ids!Sequence : y # sendMessageId' => Age(y)' = Age(y) + 1 /\ (Received(y)' <=> Received(y))
      /\ \A y \in Ids!Sequence : y = sendMessageId => Age(y)' = 1
      /\ \A y \in Ids!Sequence : Age(y) \in Int /\ 0 <= Age(y)
      /\ DOMAIN sendQueue.live \subseteq Ids!Sequence
      /\ Age(receiveQueue.next)' = Age(receiveQueue.next) + 1
      /\ receiveQueue.next \in Ids!Sequence /\ oldestUnacked \in Ids!Sequence
  BY SendReceived DEF Sending, Older
<1>4. \A y, j : Told(y, j)' = Told(y, j)
  BY <1>1, <1>2 DEF Told
<1>5. \A y : Claimed(y)' = Claimed(y)
  BY <1>1, <1>4 DEF Claimed
<1>6. ASSUME NEW y \in Ids!Sequence, NEW i \in Claimed(y) PROVE y # sendMessageId'
  <2>1. \/ \E j \in DOMAIN window : i \in Told(y, j)
        \/ sendBlock.active /\ sendBlock.id = y /\ i \in sendBlock.acked
    BY ElementsNow DEF Elements
  <2>2. CASE \E j \in DOMAIN window : i \in Told(y, j)
    <3>1. PICK j \in DOMAIN window : i \in Told(y, j)
      BY <2>2
    <3>2. window[j].fate = "processed" /\ \E e \in EntryOf(j) : \E g \in e.fragment : g.id = y /\ i = g.index
      BY <3>1, ElementsNow DEF Elements
    <3>3. PICK e \in EntryOf(j) : \E g \in e.fragment : g.id = y
      BY <3>2
    <3>4. y \in Carried(j)
      BY <3>2, <3>3, CarriedIs DEF Remembered
    <3>. QED BY <3>4, SendCarried
  <2>3. CASE sendBlock.active /\ sendBlock.id = y
    <3>1. y = oldestUnacked
      BY <2>3 DEF SenderInv
    <3>. QED BY <1>1, <1>3, <3>1
  <2>. QED BY <2>1, <2>2, <2>3
<1>7. \A y : Assembling(y)' <=> Assembling(y)
  BY <1>1 DEF Assembling
<1>8. \A y \in Ids!Sequence : \A i \in Claimed(y)' :
          Received(y)' \/ (Assembling(y)' /\ i \in DOMAIN receiveBlock'.received)
  BY <1>1, <1>3, <1>5, <1>6, <1>7 DEF BlockInv
<1>9. ASSUME NEW y \in DOMAIN sendQueue'.live, BlockAt(y)', ~Received(y)'
      PROVE  Age(y)' <= Age(receiveQueue.next)'
  <2>1. CASE y = sendMessageId
    BY <1>1, <1>3, <2>1
  <2>2. CASE y # sendMessageId
    <3>1. y \in DOMAIN sendQueue.live /\ y \in Ids!Sequence /\ BlockAt(y)
      BY <1>1, <1>3, <1>9, <2>2 DEF BlockAt
    <3>2. y # sendMessageId'
      <4>1. Age(y) <= Age(oldestUnacked)
        BY <3>1 DEF SenderInv
      <4>. QED BY <1>1, <3>1, <4>1
    <3>3. ~Received(y) /\ Age(y)' = Age(y) + 1
      BY <1>3, <1>9, <3>1, <3>2
    <3>4. Age(y) <= Age(receiveQueue.next)
      BY <3>1, <3>3 DEF BlockInv
    <3>. QED BY <1>3, <3>1, <3>3, <3>4
  <2>. QED BY <2>1, <2>2
<1>10. ASSUME receiveBlock.active
       PROVE  BlockAt(receiveBlock.id)' /\ sendQueue'.live[receiveBlock.id] = sendQueue.live[receiveBlock.id]
  <2>1. BlockAt(receiveBlock.id)
    BY <1>10 DEF BlockInv
  <2>. QED BY <1>1, <2>1 DEF BlockAt
<1>11. ASSUME receiveBlock.active
       PROVE  \E i \in 0..(receiveBlock.count - 1) : i \notin Claimed(receiveBlock.id)'
  <2>1. PICK i \in 0..(receiveBlock.count - 1) : i \notin Claimed(receiveBlock.id)
    BY <1>11 DEF BlockInv
  <2>. QED BY <1>1, <1>5, <2>1
<1>. QED BY <1>1, <1>8, <1>9, <1>10, <1>11 DEF BlockInv

LEMMA SendInv == ASSUME Inv, NEW v \in Values, SendMessage(v) PROVE Inv'
<1>1. /\ Types /\ SenderInv /\ SentInv /\ ReceiverInv /\ TransitInv /\ FlightInv
      /\ PacketInv /\ BlockInv /\ DesyncOnlyIfBehind
  BY DEF Inv
<1>2. Sending
  BY <1>1, SendIs
<1>3. Types' /\ SenderInv' /\ SentInv' /\ ReceiverInv' /\ TransitInv' /\ DesyncOnlyIfBehind'
  BY <1>1, <1>2, SendQueuesInv
<1>4. FlightInv' /\ PacketInv' /\ BlockInv'
  BY <1>1, <1>2, SendFlight, SendPackets, SendBlockInv
<1>. QED BY <1>3, <1>4 DEF Inv
(***************************************************************************)
(* The other steps, and the invariant.                                     *)
(***************************************************************************)
LEMMA FullInv == ASSUME Inv, SendQueueFull PROVE Inv'
<1>1. /\ Types /\ SenderInv /\ SentInv /\ ReceiverInv /\ TransitInv /\ FlightInv
      /\ PacketInv /\ BlockInv /\ DesyncOnlyIfBehind
  BY DEF Inv
<1>2. /\ sendMessageId' = sendMessageId /\ oldestUnacked' = oldestUnacked /\ sendQueue' = sendQueue
      /\ sentPackets' = sentPackets /\ sendBlock' = sendBlock /\ packetSequence' = packetSequence
      /\ receiveMessageId' = receiveMessageId /\ receiveQueue' = receiveQueue /\ receiveBlock' = receiveBlock
      /\ connected' = connected /\ window' = window
      /\ error' = [error EXCEPT !.sender = "send queue full"]
  BY DEF SendQueueFull, sender, receiver
<1>3. error' \in [sender : {"none", "send queue full"}, receiver : {"none", "desync"}]
      /\ error'.receiver = error.receiver
  BY <1>1, <1>2 DEF Types
<1>4. Types' /\ DesyncOnlyIfBehind'
  BY <1>1, <1>2, <1>3 DEF Types, DesyncOnlyIfBehind, Ids!Exists
<1>5. \A y : Age(y)' = Age(y) /\ (Received(y)' <=> Received(y)) /\ (BlockAt(y)' <=> BlockAt(y))
  BY <1>2 DEF Age, Received, BlockAt
<1>6. SenderInv' /\ SentInv' /\ ReceiverInv' /\ TransitInv'
  BY <1>1, <1>2 DEF SenderInv, SentInv, ReceiverInv, TransitInv, PacketAge, Age, BlockAt
<1>7. Quiet
  BY <1>2, <1>5 DEF Quiet, Calm
<1>8. PacketInv' /\ FlightInv' /\ \A y : Claimed(y)' = Claimed(y)
  BY <1>1, <1>7, QuietPackets
<1>9. BlockInv'
  BY <1>1, <1>2, <1>3, <1>7, <1>8, QuietBlock
<1>. QED BY <1>4, <1>6, <1>8, <1>9 DEF Inv

\* After a reset.
Fresh ==
    /\ sendMessageId = 0 /\ oldestUnacked = 0 /\ receiveMessageId = 0 /\ packetSequence = 0
    /\ sendQueue = Ids!Buffer(SendSize) /\ receiveQueue = Ids!Buffer(ReceiveSize)
    /\ sentPackets = Packets!Buffer(SentSize)
    /\ sendBlock = Idle /\ receiveBlock = NoBlock
    /\ error \in [sender : {"none", "send queue full"}, receiver : {"none", "desync"}]
    /\ connected \in BOOLEAN /\ (connected => error.receiver = "none")
    /\ window = <<>>

LEMMA FreshInv == Fresh => Inv
<1>. SUFFICES ASSUME Fresh PROVE Inv
  OBVIOUS
<1>1. 0 \in Ids!Sequence /\ 0 \in Packets!Sequence /\ SendSize \in Nat /\ ReceiveSize \in Nat /\ MaxIdle \in Nat
      /\ Lifetime \in Nat
  BY Bounds DEF Ids!Sequence, Packets!Sequence
<1>2. /\ sendQueue \in Buffers(Ids!Sequence, SendSize, Values) /\ DOMAIN sendQueue.live = {} /\ sendQueue.next = 0
      /\ receiveQueue \in Buffers(Ids!Sequence, ReceiveSize, Values)
      /\ DOMAIN receiveQueue.live = {} /\ receiveQueue.next = 0
  BY <1>1, NewBuffer DEF Fresh
<1>3. sentPackets \in Buffers(Packets!Sequence, SentSize, Entry)
      /\ DOMAIN sentPackets.live = {} /\ sentPackets.next = 0
  <2>1. Packets!Buffer(SentSize) = Ids!Buffer(SentSize)
    BY DEF Packets!Buffer, Ids!Buffer
  <2>2. /\ Ids!Buffer(SentSize) \in Buffers(Packets!Sequence, SentSize, Entry)
        /\ DOMAIN Ids!Buffer(SentSize).live = {} /\ Ids!Buffer(SentSize).next = 0
    BY <1>1, NewBuffer
  <2>. QED BY <2>1, <2>2 DEF Fresh
<1>4. Age(0) = 0
  BY <1>1, AgeIs DEF Fresh
<1>5. Types
  <2>1. Idle \in [active : BOOLEAN, id : Ids!Sequence, acked : SUBSET Nat]
    BY <1>1 DEF Idle
  <2>2. NoBlock \in [active : BOOLEAN, id : Ids!Sequence, count : Nat, received : Block]
    <3>1. <<>> \in Block
      <4>1. <<>> \in [{} -> [id : Ids!Sequence, value : Values]] /\ {} \in SUBSET Nat
        OBVIOUS
      <4>. QED BY <4>1 DEF Block
    <3>. QED BY <1>1, <3>1 DEF NoBlock
  <2>3. /\ sendMessageId \in Ids!Sequence /\ oldestUnacked \in Ids!Sequence
        /\ receiveMessageId \in Ids!Sequence /\ packetSequence \in Packets!Sequence
        /\ sendBlock = Idle /\ receiveBlock = NoBlock /\ window = <<>>
        /\ error \in [sender : {"none", "send queue full"}, receiver : {"none", "desync"}]
        /\ connected \in BOOLEAN
    BY <1>1 DEF Fresh
  <2>4. window \in Seq(Packet) /\ Len(window) <= Lifetime
    <3>1. <<>> \in Seq(Packet) /\ Len(<<>>) <= Lifetime
      BY <1>1
    <3>2. window = <<>>
      BY <2>3
    <3>. QED BY ONLY <3>1, <3>2
  <2>. QED BY <1>2, <1>3, <2>1, <2>2, <2>3, <2>4 DEF Types
<1>6. SenderInv /\ ReceiverInv
  <2>1. Age(oldestUnacked) = 0 /\ Age(receiveMessageId) = 0 /\ Age(receiveQueue.next) = 0
    BY <1>2, <1>4 DEF Fresh
  <2>2. sendMessageId = 0 /\ oldestUnacked = 0 /\ sendBlock.active = FALSE
    BY DEF Fresh, Idle
  <2>3. SenderInv
    BY <1>1, <1>2, <2>1, <2>2 DEF SenderInv
  <2>4. ReceiverInv
    BY <1>1, <1>2, <2>1 DEF ReceiverInv
  <2>. QED BY <2>3, <2>4
<1>7. SentInv
  <2>1. PacketAge(0) = 0
    BY <1>1, PacketAgeIs DEF Fresh
  <2>. QED BY <1>1, <1>3, <2>1 DEF SentInv
<1>8. TransitInv
  <2>1. Age(receiveMessageId) = 0
    BY <1>4 DEF Fresh
  <2>2. \A y \in Ids!Sequence : Age(y) \in Int
    BY <1>1, AgeIs DEF Fresh
  <2>. QED BY <1>2, <2>1, <2>2 DEF TransitInv
<1>9. DOMAIN window = {}
  <2>1. window = <<>>
    BY DEF Fresh
  <2>2. DOMAIN <<>> = {}
    OBVIOUS
  <2>. QED BY <2>1, <2>2
<1>10. FlightInv /\ PacketInv
  BY <1>9 DEF FlightInv, PacketInv
<1>11. \A y : Claimed(y) = {}
  BY <1>9 DEF Claimed, Fresh, Idle
<1>12. BlockInv
  BY <1>2, <1>11 DEF BlockInv, Fresh, NoBlock
<1>13. DesyncOnlyIfBehind
  BY DEF DesyncOnlyIfBehind, Fresh
<1>. QED BY <1>5, <1>6, <1>7, <1>8, <1>10, <1>12, <1>13 DEF Inv

LEMMA FreshNext == Fresh' => Inv'
  BY FreshInv, PTL

LEMMA InitFresh == Init => Fresh
  BY DEF Init, Fresh, Reset, Service!ServiceInit

LEMMA ErrorFresh == ASSUME Types, ConnectionError PROVE Fresh'
  BY DEF Types, ConnectionError, Fresh, Reset, Service!Restart

LEMMA Stutters == ASSUME Inv, UNCHANGED vars PROVE Inv'
<1>1. /\ Types /\ SenderInv /\ SentInv /\ ReceiverInv /\ TransitInv /\ FlightInv
      /\ PacketInv /\ BlockInv /\ DesyncOnlyIfBehind
  BY DEF Inv
<1>2. /\ sendMessageId' = sendMessageId /\ oldestUnacked' = oldestUnacked /\ sendQueue' = sendQueue
      /\ sentPackets' = sentPackets /\ sendBlock' = sendBlock /\ packetSequence' = packetSequence
      /\ receiveMessageId' = receiveMessageId /\ receiveQueue' = receiveQueue /\ receiveBlock' = receiveBlock
      /\ connected' = connected /\ window' = window /\ error' = error
  BY DEF vars, sender, receiver
<1>3. Types' /\ DesyncOnlyIfBehind'
  BY <1>1, <1>2 DEF Types, DesyncOnlyIfBehind, Ids!Exists
<1>4. \A y : Age(y)' = Age(y) /\ (Received(y)' <=> Received(y)) /\ (BlockAt(y)' <=> BlockAt(y))
  BY <1>2 DEF Age, Received, BlockAt
<1>5. SenderInv' /\ SentInv' /\ ReceiverInv' /\ TransitInv'
  BY <1>1, <1>2 DEF SenderInv, SentInv, ReceiverInv, TransitInv, PacketAge, Age, BlockAt
<1>6. Quiet
  BY <1>2, <1>4 DEF Quiet, Calm
<1>7. PacketInv' /\ FlightInv' /\ \A y : Claimed(y)' = Claimed(y)
  BY <1>1, <1>6, QuietPackets
<1>8. BlockInv'
  BY <1>1, <1>2, <1>6, <1>7, QuietBlock
<1>. QED BY <1>3, <1>5, <1>7, <1>8 DEF Inv

LEMMA Inductive == ASSUME Busy, Inv, [Next]_vars PROVE Inv'
<1>1. ASSUME NEW v \in Values, SendMessage(v) PROVE Inv'
  BY <1>1, SendInv
<1>2. CASE SendQueueFull
  BY <1>2, FullInv
<1>3. CASE GenerateMessages \/ GenerateFragment \/ GenerateEmpty
  BY <1>3, GenerateInv
<1>4. ASSUME NEW k \in 1..Lifetime, ProcessAck(k) PROVE Inv'
  BY <1>4, AckInv
<1>5. ASSUME NEW k \in 1..Lifetime, ProcessPacket(k) PROVE Inv'
  BY <1>5, PacketArrives
<1>6. CASE ReceiveMessage
  BY <1>6, ReceiveInv
<1>7. CASE ConnectionError
  BY <1>7, ErrorFresh, FreshNext DEF Inv
<1>8. CASE UNCHANGED vars
  BY <1>8, Stutters
<1>. QED BY <1>1, <1>2, <1>3, <1>4, <1>5, <1>6, <1>7, <1>8 DEF Next

LEMMA Invariance == Busy => (Spec => []Inv)
<1>. SUFFICES ASSUME Busy PROVE Spec => []Inv
  OBVIOUS
<1>1. Init => Inv
  BY InitFresh, FreshInv
<1>2. Inv /\ [Next]_vars => Inv'
  BY Inductive
<1>. QED BY <1>1, <1>2, PTL DEF Spec
LEMMA Implied == Inv => TypeOK /\ QueuesInWindow /\ BlockIsOldest /\ DesyncOnlyIfBehind
<1> SUFFICES ASSUME Inv PROVE TypeOK /\ QueuesInWindow /\ BlockIsOldest /\ DesyncOnlyIfBehind
  OBVIOUS
<1>1. /\ Types /\ SenderInv /\ SentInv /\ ReceiverInv /\ TransitInv /\ FlightInv
      /\ PacketInv /\ BlockInv /\ DesyncOnlyIfBehind
  BY DEF Inv
<1>2. /\ sendMessageId \in Ids!Sequence /\ oldestUnacked \in Ids!Sequence
      /\ receiveMessageId \in Ids!Sequence /\ packetSequence \in Packets!Sequence
      /\ sendQueue.next \in Ids!Sequence /\ receiveQueue.next \in Ids!Sequence
      /\ DOMAIN sendQueue.live \subseteq Ids!Sequence /\ DOMAIN receiveQueue.live \subseteq Ids!Sequence
      /\ \A y \in DOMAIN sendQueue.live : sendQueue.live[y] \in Values
      /\ \A y \in DOMAIN receiveQueue.live : receiveQueue.live[y] \in Values
      /\ SendSize \in Nat /\ ReceiveSize \in Nat
  BY <1>1, Typed, Bounds
<1>3. TypeOK
  <2>1. \A k \in DOMAIN window : window[k] \in Packet
    BY <1>1, Typed
  <2>2. Service!WindowType
    BY <2>1, PacketIs DEF Service!WindowType
  <2>3. Range(sendQueue.live) \subseteq Values /\ Range(receiveQueue.live) \subseteq Values
    BY <1>2 DEF Range
  <2>4. error.sender \in {"none", "send queue full"} /\ error.receiver \in {"none", "desync"}
    BY <1>1 DEF Types
  <2>. QED BY <1>2, <2>2, <2>3, <2>4 DEF TypeOK
<1>4. \A y \in Ids!Sequence : Age(y) \in Int /\ 0 <= Age(y)
  BY <1>2, AgeIs
<1>5. \A y, z \in Ids!Sequence : Age(y) >= Age(z) => Ids!Distance(y, z) = Age(y) - Age(z)
  BY <1>2, DistanceAge
<1>6. QueuesInWindow
  <2>1. Age(sendMessageId) = 0
    BY <1>2, AgeIs
  <2>2. Ids!Distance(oldestUnacked, sendMessageId) = Age(oldestUnacked)
    BY <1>2, <1>4, <1>5, <2>1
  <2>3. ASSUME NEW s \in DOMAIN sendQueue.live
        PROVE  Ids!Distance(oldestUnacked, s) < Age(oldestUnacked)
    <3>1. s \in Ids!Sequence /\ 1 <= Age(s) /\ Age(s) <= Age(oldestUnacked)
      BY <1>1, <1>2 DEF SenderInv
    <3>2. Ids!Distance(oldestUnacked, s) = Age(oldestUnacked) - Age(s)
      BY <1>2, <1>4, <1>5, <3>1
    <3>. QED BY <1>2, <1>4, <3>1, <3>2
  <2>4. ASSUME NEW s \in DOMAIN receiveQueue.live
        PROVE  Ids!Distance(receiveMessageId, s) < ReceiveSize
    <3>1. s \in Ids!Sequence /\ Age(receiveQueue.next) < Age(s) /\ Age(s) <= Age(receiveMessageId)
          /\ Age(receiveMessageId) <= Age(receiveQueue.next) + ReceiveSize
      BY <1>1, <1>2 DEF ReceiverInv
    <3>2. Ids!Distance(receiveMessageId, s) = Age(receiveMessageId) - Age(s)
      BY <1>2, <1>4, <1>5, <3>1
    <3>. QED BY <1>2, <1>4, <3>1, <3>2
  <2>5. Age(oldestUnacked) <= SendSize
    BY <1>1 DEF SenderInv
  <2>. QED BY <2>2, <2>3, <2>4, <2>5 DEF QueuesInWindow
<1>7. BlockIsOldest
  BY <1>1 DEF BlockIsOldest, SenderInv, BlockAt, Ids!Exists
<1>. QED BY <1>1, <1>3, <1>6, <1>7

\* The two queues hold what their types say, and errors are those of the code.
THEOREM TypeCorrect == Busy => (Spec => []TypeOK)
  BY Invariance, Implied, PTL

\* No number in a queue is mistaken for one a lap before it (yojimbo.h:1548).
THEOREM NoOldNumbers == Busy => (Spec => []QueuesInWindow)
  BY Invariance, Implied, PTL

\* ProcessAck finds the block whose fragment it is told of (yojimbo.cpp:2008).
THEOREM BlockFound == Busy => (Spec => []BlockIsOldest)
  BY Invariance, Implied, PTL

\* Only an application that does not take its messages sees a desync (yojimbo.cpp:1926, 2266).
THEOREM KeptUp == Busy => (Spec => []DesyncOnlyIfBehind)
  BY Invariance, Implied, PTL
-----------------------------------------------------------------------------
(***************************************************************************)
(* The channel is a queue.                                                 *)
(***************************************************************************)
Waiting(y) == IF y \in DOMAIN receiveQueue.live THEN receiveQueue.live[y]
              ELSE IF y \in DOMAIN sendQueue.live THEN sendQueue.live[y] ELSE Nothing

LEMMA InTransitIs ==
    InTransit = [i \in 1..Age(receiveMessageId) |-> Waiting(Ids!Later(receiveMessageId, i - 1))]
  BY DEF InTransit, Age, Waiting, Ids!Exists

LEMMA InTransitNext ==
    InTransit' = [i \in 1..Age(receiveMessageId)' |-> Waiting(Ids!Later(receiveMessageId, i - 1))']
  BY DEF InTransit, Age, Waiting, Ids!Exists, Ids!Later, Ids!Distance

\* The i-th message on its way is i - 1 younger than the next to be received.
LEMMA TransitAt ==
    ASSUME Types, TransitInv
    PROVE  /\ InTransit \in Seq(Values) /\ Len(InTransit) = Age(receiveMessageId)
           /\ Age(receiveMessageId) \in Nat
           /\ InTransit = [i \in 1..Age(receiveMessageId) |-> Waiting(Ids!Later(receiveMessageId, i - 1))]
           /\ \A i \in 1..Age(receiveMessageId) :
                 LET y == Ids!Later(receiveMessageId, i - 1)
                 IN /\ y \in Ids!Sequence /\ Age(y) = Age(receiveMessageId) - (i - 1)
                    /\ y \in DOMAIN receiveQueue.live \union DOMAIN sendQueue.live
                    /\ Waiting(y) \in Values
<1> DEFINE r == receiveMessageId
           n == Age(r)
           s == [i \in 1..n |-> Waiting(Ids!Later(r, i - 1))]
<1>1. /\ r \in Ids!Sequence /\ sendMessageId \in Ids!Sequence /\ n \in Nat
      /\ \A y \in DOMAIN sendQueue.live : sendQueue.live[y] \in Values
      /\ \A y \in DOMAIN receiveQueue.live : receiveQueue.live[y] \in Values
  BY Typed, AgeIs
<1>2. ASSUME NEW i \in 1..n
      PROVE  LET y == Ids!Later(r, i - 1)
             IN /\ y \in Ids!Sequence /\ Age(y) = n - (i - 1)
                /\ y \in DOMAIN receiveQueue.live \union DOMAIN sendQueue.live
                /\ Waiting(y) \in Values
  <2> DEFINE j == i - 1
             y == Ids!Later(r, j)
  <2>1. j \in Int /\ 0 <= j /\ j <= n
    BY <1>1
  <2>2. y \in Ids!Sequence /\ Age(y) = n - j
    <3> HIDE DEF j
    <3>. QED BY <1>1, <2>1, LaterAge
  <2>3. 1 <= n - j /\ n - j <= n
    BY <1>1
  <2> HIDE DEF y, n
  <2>4. y \in DOMAIN receiveQueue.live \union DOMAIN sendQueue.live
    BY <2>2, <2>3 DEF TransitInv, n
  <2>5. Waiting(y) \in Values
    BY <1>1, <2>4 DEF Waiting
  <2>. QED BY <2>2, <2>4, <2>5 DEF y, j
<1>3. InTransit = s
  BY InTransitIs
<1>4. s \in Seq(Values) /\ Len(s) = n
  <2>1. s \in [1..n -> Values]
    BY <1>2
  <2> HIDE DEF s, n
  <2>. QED BY <1>1, <2>1
<1>. QED BY <1>1, <1>2, <1>3, <1>4

\* A step between the two queues leaves what is on its way.
LEMMA CalmTransit ==
    ASSUME Types, Types', TransitInv, TransitInv', Calm, receiveMessageId' = receiveMessageId
    PROVE  InTransit' = InTransit
<1> DEFINE r == receiveMessageId
           n == Age(r)
<1>1. /\ InTransit = [i \in 1..n |-> Waiting(Ids!Later(r, i - 1))]
      /\ n \in Nat
      /\ \A i \in 1..n :
            LET y == Ids!Later(r, i - 1)
            IN y \in Ids!Sequence /\ Age(y) = n - (i - 1)
               /\ y \in DOMAIN receiveQueue.live \union DOMAIN sendQueue.live
  BY TransitAt
<1>2. \A y : Age(y)' = Age(y)
  BY SameAge DEF Calm
<1>3. Age(receiveMessageId)' = n
  BY DEF Age, Calm
<1>4. InTransit' = [i \in 1..n |-> Waiting(Ids!Later(r, i - 1))']
  BY InTransitNext, <1>3
<1>5. ASSUME NEW y \in Ids!Sequence, 1 <= Age(y), Age(y) <= n,
             y \in DOMAIN receiveQueue.live \union DOMAIN sendQueue.live
      PROVE  Waiting(y)' = Waiting(y)
  <2>1. y \in DOMAIN receiveQueue'.live \union DOMAIN sendQueue'.live
    BY <1>2, <1>3, <1>5 DEF TransitInv
  <2>2. Waiting(y)' = IF y \in DOMAIN receiveQueue'.live THEN receiveQueue'.live[y]
                      ELSE IF y \in DOMAIN sendQueue'.live THEN sendQueue'.live[y] ELSE Nothing
    BY DEF Waiting
  <2>3. y \in DOMAIN receiveQueue.live \intersect DOMAIN sendQueue.live =>
              receiveQueue.live[y] = sendQueue.live[y]
    BY DEF TransitInv
  <2>. QED BY <1>5, <2>1, <2>2, <2>3 DEF Waiting, Calm
<1>6. ASSUME NEW i \in 1..n PROVE Waiting(Ids!Later(r, i - 1))' = Waiting(Ids!Later(r, i - 1))
  <2> DEFINE y == Ids!Later(r, i - 1)
  <2>1. /\ y \in Ids!Sequence /\ Age(y) = n - (i - 1)
        /\ y \in DOMAIN receiveQueue.live \union DOMAIN sendQueue.live
    BY <1>1
  <2>2. 1 <= n - (i - 1) /\ n - (i - 1) <= n
    BY <1>1
  <2>3. \A z : z = y => Waiting(z)' = Waiting(z)
    <3> HIDE DEF y, n
    <3>. QED BY <1>5, <2>1, <2>2
  <2>4. Ids!Later(r, i - 1)' = y
    BY DEF Ids!Later
  <2>. QED BY <2>3, <2>4 DEF Waiting, Ids!Later
<1>. QED BY <1>1, <1>4, <1>6

\* What an invariant state says of the queue, now and in the next state.
Carries ==
    /\ InTransit \in Seq(Values) /\ Len(InTransit) = Age(receiveMessageId)
    /\ Age(receiveMessageId) \in Nat /\ Age(receiveMessageId) <= SendSize + ReceiveSize

LEMMA CarriesNow == Inv => Carries
<1> SUFFICES ASSUME Inv PROVE Carries
  OBVIOUS
<1>1. Types /\ SenderInv /\ ReceiverInv /\ TransitInv
  BY DEF Inv
<1>. QED BY <1>1, TransitAt, Behind DEF Carries

LEMMA CarriesNext == Inv' => Carries'
  BY CarriesNow, PTL

LEMMA AppendIs ==
    ASSUME NEW S, NEW s \in Seq(S), NEW v \in S, NEW t, t = [i \in 1..(Len(s) + 1) |-> IF i <= Len(s) THEN s[i] ELSE v]
    PROVE  t = Append(s, v)
<1>1. Append(s, v) \in Seq(S) /\ Len(Append(s, v)) = Len(s) + 1 /\ Len(s) \in Nat
  OBVIOUS
<1>2. DOMAIN Append(s, v) = 1..(Len(s) + 1)
  BY <1>1
<1>3. \A i \in 1..(Len(s) + 1) : Append(s, v)[i] = IF i <= Len(s) THEN s[i] ELSE v
  OBVIOUS
<1>4. Append(s, v) = [i \in 1..(Len(s) + 1) |-> Append(s, v)[i]]
  <2> DEFINE u == Append(s, v)
  <2>1. u \in Seq(S) /\ DOMAIN u = 1..(Len(s) + 1)
    BY <1>1, <1>2
  <2> HIDE DEF u
  <2>2. u = [i \in DOMAIN u |-> u[i]]
    BY <2>1
  <2>3. u = [i \in 1..(Len(s) + 1) |-> u[i]]
    BY <2>1, <2>2
  <2>. QED BY <2>3 DEF u
<1>. QED BY <1>3, <1>4

LEMMA TailIs ==
    ASSUME NEW S, NEW s \in Seq(S), 1 <= Len(s)
    PROVE  Tail(s) = [i \in 1..(Len(s) - 1) |-> s[i + 1]]
<1>1. Tail(s) \in Seq(S) /\ Len(Tail(s)) = Len(s) - 1 /\ Len(s) \in Nat
  OBVIOUS
<1>2. DOMAIN Tail(s) = 1..(Len(s) - 1)
  BY <1>1
<1>3. \A i \in 1..(Len(s) - 1) : Tail(s)[i] = s[i + 1]
  OBVIOUS
<1>4. Tail(s) = [i \in 1..(Len(s) - 1) |-> Tail(s)[i]]
  <2> DEFINE u == Tail(s)
  <2>1. u \in Seq(S) /\ DOMAIN u = 1..(Len(s) - 1)
    BY <1>1, <1>2
  <2> HIDE DEF u
  <2>2. u = [i \in DOMAIN u |-> u[i]]
    BY <2>1
  <2>3. u = [i \in 1..(Len(s) - 1) |-> u[i]]
    BY <2>1, <2>2
  <2>. QED BY <2>3 DEF u
<1>. QED BY <1>3, <1>4

\* Only the last message is new.
LEMMA SendTransit ==
    ASSUME Inv, NEW v \in Values, SendMessage(v)
    PROVE  InTransit' = Append(InTransit, v) /\ Age(receiveMessageId)' = Age(receiveMessageId) + 1
<1> DEFINE r == receiveMessageId
           n == Age(r)
<1>1. /\ Types /\ SenderInv /\ ReceiverInv /\ TransitInv
  BY DEF Inv
<1>2. /\ InTransit = [i \in 1..n |-> Waiting(Ids!Later(r, i - 1))]
      /\ n \in Nat
      /\ \A i \in 1..n :
            LET y == Ids!Later(r, i - 1)
            IN y \in Ids!Sequence /\ Age(y) = n - (i - 1)
               /\ y \in DOMAIN receiveQueue.live \union DOMAIN sendQueue.live
  BY <1>1, TransitAt
<1>3. /\ DOMAIN sendQueue'.live = DOMAIN sendQueue.live \union {sendMessageId}
      /\ \A y \in DOMAIN sendQueue.live : sendQueue'.live[y] = sendQueue.live[y]
      /\ sendQueue'.live[sendMessageId] = v
      /\ sendMessageId \notin DOMAIN sendQueue.live /\ sendMessageId \notin DOMAIN receiveQueue.live
  BY <1>1, SendFacts
<1>4. Sending
  BY <1>1, SendIs
<1>5. Age(r)' = n + 1 /\ r' = r /\ receiveQueue' = receiveQueue
  BY <1>1, <1>4, SendReceived DEF Sending, receiver
<1>6. InTransit' = [i \in 1..(n + 1) |-> Waiting(Ids!Later(r, i - 1))']
  BY InTransitNext, <1>5
<1>7. \A y : Waiting(y)' = IF y \in DOMAIN receiveQueue.live THEN receiveQueue.live[y]
                           ELSE IF y \in DOMAIN sendQueue'.live THEN sendQueue'.live[y] ELSE Nothing
  BY <1>5 DEF Waiting
<1>8. \A y : y \in DOMAIN receiveQueue.live \union DOMAIN sendQueue.live => Waiting(y)' = Waiting(y)
  BY <1>3, <1>7 DEF Waiting
<1>9. \A y : y = sendMessageId => Waiting(y)' = v
  BY <1>3, <1>7
<1>10. \A y, i : y = Ids!Later(r, i - 1) => Waiting(Ids!Later(r, i - 1))' = Waiting(y)'
  BY <1>5, <1>7 DEF Waiting, Ids!Later
<1>11. ASSUME NEW i \in 1..n PROVE Waiting(Ids!Later(r, i - 1))' = Waiting(Ids!Later(r, i - 1))
  BY <1>2, <1>8, <1>10
<1>12. \A i : i = n + 1 => Waiting(Ids!Later(r, i - 1))' = v
  <2> SUFFICES ASSUME NEW i, i = n + 1 PROVE Waiting(Ids!Later(r, i - 1))' = v
    OBVIOUS
  <2> DEFINE j == i - 1
  <2>1. j = n /\ j \in Int
    BY <1>2
  <2>2. r \in Ids!Sequence /\ sendMessageId \in Ids!Sequence
    BY <1>1, Typed
  <2>3. Ids!Later(r, j) \in Ids!Sequence /\ Age(Ids!Later(r, j)) = 0
    <3> HIDE DEF j
    <3>. QED BY <1>2, <2>1, <2>2, LaterAge
  <2>4. Ids!Later(r, j) = sendMessageId
    BY <2>2, <2>3, AgeIs
  <2>. QED BY <1>9, <1>10, <2>4
<1>13. InTransit' = Append(InTransit, v)
  <2> DEFINE s == InTransit
             t == [i \in 1..(n + 1) |-> IF i <= n THEN s[i] ELSE v]
             w(i) == Waiting(Ids!Later(r, i - 1))'
  <2>1. s \in Seq(Values) /\ Len(s) = n
    BY CarriesNow DEF Carries
  <2>2. \A i \in 1..n : s[i] = w(i)
    BY <1>2, <1>11
  <2>3. \A i : i = n + 1 => w(i) = v
    BY <1>12
  <2>4. [i \in 1..(n + 1) |-> w(i)] = t
    <3> HIDE DEF n, s, w
    <3>. QED BY <1>2, <2>2, <2>3
  <2>5. t = Append(s, v)
    <3> HIDE DEF n, s
    <3>1. t = [i \in 1..(Len(s) + 1) |-> IF i <= Len(s) THEN s[i] ELSE v]
      BY <2>1
    <3> HIDE DEF t
    <3>. QED BY <2>1, <3>1, AppendIs
  <2>. QED BY <1>6, <2>4, <2>5
<1>. QED BY <1>5, <1>13

\* The first message goes.
LEMMA ReceiveTransit ==
    ASSUME Inv, ReceiveMessage
    PROVE  InTransit' = Tail(InTransit) /\ Age(receiveMessageId)' = Age(receiveMessageId) - 1
<1> DEFINE r == receiveMessageId
           n == Age(r)
<1>1. /\ Types /\ SenderInv /\ ReceiverInv /\ TransitInv
  BY DEF Inv
<1>2. /\ InTransit = [i \in 1..n |-> Waiting(Ids!Later(r, i - 1))]
      /\ n \in Nat
      /\ \A i \in 1..n :
            LET y == Ids!Later(r, i - 1)
            IN y \in Ids!Sequence /\ Age(y) = n - (i - 1)
               /\ y \in DOMAIN receiveQueue.live \union DOMAIN sendQueue.live
  BY <1>1, TransitAt
<1>3. /\ Age(r)' = n - 1 /\ r' \in Ids!Sequence /\ r' = Ids!Later(r, 1)
      /\ DOMAIN receiveQueue'.live = DOMAIN receiveQueue.live \ {r}
      /\ \A y \in DOMAIN receiveQueue'.live : receiveQueue'.live[y] = receiveQueue.live[y]
      /\ sendQueue' = sendQueue /\ \A y : Age(y)' = Age(y)
      /\ sendMessageId' = sendMessageId
  BY <1>1, ReceiveFacts DEF sender
<1>4. InTransit' = [i \in 1..(n - 1) |-> Waiting(Ids!Later(r, i - 1))']
  BY InTransitNext, <1>3
<1>5. \A y : Waiting(y)' = IF y \in DOMAIN receiveQueue'.live THEN receiveQueue'.live[y]
                           ELSE IF y \in DOMAIN sendQueue.live THEN sendQueue.live[y] ELSE Nothing
  BY <1>3 DEF Waiting
<1>6. \A y : y # r => Waiting(y)' = Waiting(y)
  BY <1>3, <1>5 DEF Waiting
<1>7. \A y, i : y = Ids!Later(r', i - 1) => Waiting(Ids!Later(r, i - 1))' = Waiting(y)'
  BY <1>3, <1>5 DEF Waiting, Ids!Later
<1>8. r \in Ids!Sequence /\ sendMessageId \in Ids!Sequence
  BY <1>1, Typed
<1>9. ASSUME NEW i \in 1..(n - 1)
      PROVE  Waiting(Ids!Later(r, i - 1))' = Waiting(Ids!Later(r, (i + 1) - 1))
  <2> DEFINE j == i - 1
             y == Ids!Later(r, (i + 1) - 1)
  <2>1. i + 1 \in 1..n /\ i \in Int /\ 1 <= i /\ i <= n - 1
    BY <1>2
  <2>2. y \in Ids!Sequence /\ Age(y) = n - i
    <3>1. Age(y) = n - ((i + 1) - 1) /\ y \in Ids!Sequence
      BY <1>2, <2>1
    <3>. QED BY <1>2, <2>1, <3>1
  <2>3. Age(r') = n - 1
    BY <1>3 DEF Age
  <2>4. j \in Int /\ 0 <= j /\ j <= n - 1
    BY <2>1, <1>2
  <2>5. Ids!Later(r', j) \in Ids!Sequence /\ Age(Ids!Later(r', j)) = (n - 1) - j
    <3> DEFINE q == r'
    <3>1. q \in Ids!Sequence /\ Age(q) = n - 1
      BY <1>3, <2>3
    <3> HIDE DEF j, q
    <3>2. Ids!Later(q, j) \in Ids!Sequence /\ Age(Ids!Later(q, j)) = Age(q) - j
      BY <1>8, <2>4, <3>1, LaterAge
    <3>. QED BY <3>1, <3>2 DEF q
  <2>6. Age(Ids!Later(r', j)) = Age(y)
    BY <1>2, <2>1, <2>2, <2>5
  <2>7. Ids!Later(r', j) = y
    <3> HIDE DEF j, y
    <3>. QED BY <1>8, <2>2, <2>5, <2>6, OneAge
  <2>8. y # r
    BY <1>2, <2>1, <2>2
  <2>. QED BY <1>6, <1>7, <2>7, <2>8
<1>10. 1 <= n
  <2>1. Age(receiveQueue.next) < n /\ Age(receiveQueue.next) \in Int /\ 0 <= Age(receiveQueue.next)
    BY <1>1, <1>8, ReceiveFacts, Typed, AgeIs
  <2>. QED BY <1>2, <2>1
<1>11. InTransit' = Tail(InTransit)
  <2> DEFINE s == InTransit
             w(i) == Waiting(Ids!Later(r, i - 1))'
  <2>1. s \in Seq(Values) /\ Len(s) = n
    BY CarriesNow DEF Carries
  <2>2. \A i \in 1..(n - 1) : w(i) = s[i + 1]
    <3>1. \A i \in 1..(n - 1) : i + 1 \in 1..n
      BY <1>2
    <3>. QED BY <1>2, <1>9, <3>1
  <2>3. Tail(s) = [i \in 1..(n - 1) |-> s[i + 1]]
    <3> HIDE DEF n, s
    <3>. QED BY <1>2, <1>10, <2>1, TailIs
  <2>4. [i \in 1..(n - 1) |-> w(i)] = [i \in 1..(n - 1) |-> s[i + 1]]
    <3> HIDE DEF n, s, w
    <3>. QED BY <2>2
  <2>. QED BY <1>4, <2>3, <2>4
<1>. QED BY <1>3, <1>11

\* A step between the two queues is none of the queue's, but for a refusal.
LEMMA CalmIsQueue ==
    ASSUME Inv, Inv', Calm, receiveMessageId' = receiveMessageId, connected' = connected,
           error'.sender = error.sender
    PROVE  UNCHANGED <<error.sender # "none", connected, InTransit>>
<1>1. Types /\ Types' /\ TransitInv /\ TransitInv'
  BY DEF Inv
<1>2. InTransit' = InTransit
  BY <1>1, CalmTransit
<1>3. (error.sender # "none")' = (error.sender # "none")
  OBVIOUS
<1>. QED BY <1>2, <1>3

LEMMA SendIsQueue == ASSUME Inv, Inv', NEW v \in Values, SendMessage(v) PROVE Queue!Send
<1>1. InTransit' = Append(InTransit, v) /\ Age(receiveMessageId)' = Age(receiveMessageId) + 1
  BY SendTransit
<1>2. /\ Len(InTransit) = Age(receiveMessageId) /\ Len(InTransit)' = Age(receiveMessageId)'
      /\ Age(receiveMessageId) \in Nat /\ Age(receiveMessageId)' <= SendSize + ReceiveSize
      /\ SendSize + ReceiveSize \in Int
  BY CarriesNow, CarriesNext, Bounds DEF Carries
<1>3. connected /\ error.sender = "none" /\ connected' = connected /\ error' = error
  BY DEF SendMessage
<1>4. Len(InTransit') \in (Len(InTransit) + 1)..(SendSize + ReceiveSize)
  BY <1>1, <1>2
<1>. QED BY <1>1, <1>3, <1>4 DEF Queue!Send

LEMMA ReceiveIsQueue == ASSUME Inv, Inv', ReceiveMessage PROVE Queue!Receive
<1>1. InTransit' = Tail(InTransit) /\ Age(receiveMessageId)' = Age(receiveMessageId) - 1
  BY ReceiveTransit
<1>2. /\ Len(InTransit) = Age(receiveMessageId) /\ Len(InTransit)' = Age(receiveMessageId)'
      /\ Age(receiveMessageId) \in Nat
  BY CarriesNow, CarriesNext DEF Carries
<1>3. connected /\ connected' = connected /\ error' = error
  BY DEF ReceiveMessage
<1>4. Len(InTransit') < Len(InTransit)
  BY <1>1, <1>2
<1>. QED BY <1>1, <1>3, <1>4 DEF Queue!Receive

Drained == InTransit = <<>>
LEMMA FreshDrained == Fresh => Drained
<1> SUFFICES ASSUME Fresh PROVE InTransit = <<>>
  BY DEF Drained
<1>1. Inv
  BY FreshInv
<1>2. InTransit \in Seq(Values) /\ Len(InTransit) = Age(receiveMessageId)
  BY <1>1, CarriesNow DEF Carries
<1>3. sendMessageId \in Ids!Sequence /\ receiveMessageId = sendMessageId
  BY <1>1 DEF Fresh, Inv, Types
<1>4. Age(receiveMessageId) = 0
  BY <1>3, AgeIs
<1>. QED BY <1>2, <1>4

LEMMA DrainedNext == Fresh' => Drained'
  BY FreshDrained, PTL

LEMMA StepIsQueue ==
    ASSUME Inv, Inv', [Next]_vars
    PROVE  [Queue!QueueNext]_<<error.sender # "none", connected, InTransit>>
<1> DEFINE same == UNCHANGED <<error.sender # "none", connected, InTransit>>
<1>1. ASSUME NEW v \in Values, SendMessage(v) PROVE Queue!QueueNext
  BY <1>1, SendIsQueue DEF Queue!QueueNext
<1>2. CASE SendQueueFull
  <2>1. /\ sendMessageId' = sendMessageId /\ sendQueue' = sendQueue /\ receiveQueue' = receiveQueue
        /\ receiveMessageId' = receiveMessageId
        /\ connected' = connected /\ error.sender = "none"
        /\ error' = [error EXCEPT !.sender = "send queue full"]
    BY <1>2 DEF SendQueueFull, sender, receiver
  <2>2. InTransit' = InTransit
    BY <2>1 DEF InTransit, Ids!Exists, Ids!Later, Ids!Distance
  <2>3. error'.sender = "send queue full"
    BY <2>1 DEF Inv, Types
  <2>. QED BY <2>1, <2>2, <2>3 DEF Queue!Fail, Queue!QueueNext
<1>3. CASE GenerateMessages \/ GenerateFragment \/ GenerateEmpty
  <2>1. /\ sendMessageId' = sendMessageId /\ sendQueue' = sendQueue /\ receiveQueue' = receiveQueue
        /\ receiveMessageId' = receiveMessageId /\ connected' = connected /\ error' = error
    BY <1>3 DEF GenerateMessages, GenerateFragment, GenerateEmpty, Transmit, receiver
  <2>2. InTransit' = InTransit
    BY <2>1 DEF InTransit, Ids!Exists, Ids!Later, Ids!Distance
  <2>. QED BY <2>1, <2>2
<1>4. ASSUME NEW k \in 1..Lifetime, ProcessAck(k) PROVE same
  <2>1. Types /\ Acks(k)
    BY <1>4, AckFacts DEF Inv
  <2>2. /\ Calm /\ receiveMessageId' = receiveMessageId /\ connected' = connected /\ error' = error
    BY <2>1, AcksCalm DEF Acks
  <2>. QED BY <2>2, CalmIsQueue
<1>5. ASSUME NEW k \in 1..Lifetime, ProcessPacket(k) PROVE same
  <2>1. PICK d \in Data, taken \in BOOLEAN : Takes(k, d, taken)
    BY <1>5, PacketTakes
  <2>2. Calm
    BY <2>1, TakesCalm DEF Inv
  <2>3. receiveMessageId' = receiveMessageId /\ connected' = connected /\ error'.sender = error.sender
    BY <2>1 DEF Takes
  <2>. QED BY <2>2, <2>3, CalmIsQueue
<1>6. CASE ReceiveMessage
  BY <1>6, ReceiveIsQueue DEF Queue!QueueNext
<1>7. CASE ConnectionError
  <2>1. InTransit' = <<>>
    BY <1>7, ErrorFresh, DrainedNext DEF Inv, Drained
  <2>. QED BY <1>7, <2>1 DEF ConnectionError, Queue!Close, Queue!QueueNext
<1>8. CASE UNCHANGED vars
  <2>1. /\ sendMessageId' = sendMessageId /\ sendQueue' = sendQueue /\ receiveQueue' = receiveQueue
        /\ receiveMessageId' = receiveMessageId /\ connected' = connected /\ error' = error
    BY <1>8 DEF vars, sender, receiver
  <2>2. InTransit' = InTransit
    BY <2>1 DEF InTransit, Ids!Exists, Ids!Later, Ids!Distance
  <2>. QED BY <2>1, <2>2
<1>. QED BY <1>1, <1>2, <1>3, <1>4, <1>5, <1>6, <1>7, <1>8 DEF Next

\* The channel is a queue: what is sent arrives, in order and as it was sent,
\* whatever happens to the packets (yojimbo.h:1548, yojimbo.cpp:1640).
THEOREM ChannelIsQueue == Busy => (Spec => IsQueue)
<1> SUFFICES ASSUME Busy PROVE Spec => IsQueue
  OBVIOUS
<1>1. Init => Queue!QueueInit
  <2> SUFFICES ASSUME Init PROVE Queue!QueueInit
    OBVIOUS
  <2>1. InTransit = <<>>
    BY InitFresh, FreshDrained DEF Drained
  <2>2. error.sender = "none" /\ connected = TRUE
    BY DEF Init
  <2>. QED BY <2>1, <2>2 DEF Queue!QueueInit
<1>2. Inv /\ Inv' /\ [Next]_vars => [Queue!QueueNext]_<<error.sender # "none", connected, InTransit>>
  BY StepIsQueue
<1>3. Spec => []Inv
  BY Invariance
<1>. QED BY <1>1, <1>2, <1>3, PTL DEF Spec, IsQueue, Queue!QueueSpec
=============================================================================
