------------------------------ MODULE TlsfProofs ------------------------------
(***************************************************************************)
(* The memory of yojimbo's server, and the server.  The allocator keeps    *)
(* what tlsf_check insists on and implements HeapService: for a pool of    *)
(* any size, any number of classes, and any requests and alignments.  Of   *)
(* the server, whose slots have each a pool of their own: what it keeps of *)
(* a connection goes with that connection.                                 *)
(*                                                                         *)
(* Operations of the allocator work on heaps that are not in order yet.    *)
(* Open(h, O) says that all of h is, but for the flags and lists of the    *)
(* blocks O that are being worked on: each step of an operation opens or   *)
(* closes some block, and between operations none is open.                 *)
(***************************************************************************)
EXTENDS Tlsf, FiniteSetTheorems, SequenceTheorems, TLAPS

Numbers == INSTANCE FoldLeftTheorems WITH Op <- Larger
-----------------------------------------------------------------------------
(***************************************************************************)
(* Powers of two, as the number of sets of numbers up to k.                *)
(***************************************************************************)
LEMMA Subsets == ASSUME NEW k \in Nat
                 PROVE Cardinality(SUBSET (1..k)) = 2 ^ k /\ IsFiniteSet(SUBSET (1..k))
<1>1. IsFiniteSet(1..k) /\ Cardinality(1..k) = k
  BY FS_Interval
<1>. QED BY <1>1, FS_SUBSET

LEMMA Power == ASSUME NEW k \in Nat
               PROVE  2 ^ k \in Nat \ {0} /\ 2 ^ 0 = 1 /\ 2 ^ (k + 1) = 2 * 2 ^ k
<1> DEFINE S == SUBSET (1..k)
           T == {s \union {k + 1} : s \in S}
<1>1. IsFiniteSet(S) /\ Cardinality(S) = 2 ^ k /\ Cardinality(SUBSET (1..(k + 1))) = 2 ^ (k + 1)
  BY Subsets
<1>2. 2 ^ 0 = 1
  <2>1. Cardinality(SUBSET (1..0)) = 2 ^ 0
    BY Subsets
  <2>2. SUBSET (1..0) = {{}}
    OBVIOUS
  <2>. QED BY <2>1, <2>2, FS_Singleton
<1>3. IsFiniteSet(T) /\ Cardinality(T) = Cardinality(S)
  <2> DEFINE f == [s \in S |-> s \union {k + 1}]
  <2>1. f \in Bijection(S, T)
    <3>1. f \in [S -> T]
      OBVIOUS
    <3>2. \A s, t \in S : f[s] = f[t] => s = t
      <4> TAKE s, t \in S
      <4>1. k + 1 \notin s /\ k + 1 \notin t
        OBVIOUS
      <4>2. f[s] = s \union {k + 1} /\ f[t] = t \union {k + 1}
        OBVIOUS
      <4>. QED BY <4>1, <4>2
    <3>3. \A x \in T : \E s \in S : f[s] = x
      OBVIOUS
    <3>. QED BY <3>1, <3>2, <3>3 DEF Bijection, Injection, Surjection, IsInjective
  <2>2. ExistsBijection(S, T)
    BY <2>1 DEF ExistsBijection
  <2>. QED BY <1>1, <2>2, FS_Bijection
<1>4. S \cap T = {}
  OBVIOUS
<1>5. S \union T = SUBSET (1..(k + 1))
  <2>1. ASSUME NEW u \in SUBSET (1..(k + 1)), k + 1 \in u PROVE u \in T
    <3> DEFINE s == u \ {k + 1}
    <3>1. s \in S /\ s \union {k + 1} = u
      BY <2>1
    <3> HIDE DEF s, S
    <3>. QED BY <3>1
  <2>2. ASSUME NEW u \in SUBSET (1..(k + 1)), k + 1 \notin u PROVE u \in S
    <3>1. \A x \in u : x \in 1..k
      <4> TAKE x \in u
      <4>1. x \in 1..(k + 1) /\ x # k + 1
        BY <2>2
      <4>. QED BY <4>1
    <3>2. u \subseteq 1..k
      BY ONLY <3>1
    <3>. QED BY ONLY <3>2 DEF S
  <2>0. 1..k \subseteq 1..(k + 1) /\ k + 1 \in 1..(k + 1)
    OBVIOUS
  <2>3. S \subseteq SUBSET (1..(k + 1)) /\ T \subseteq SUBSET (1..(k + 1))
    BY ONLY <2>0 DEF S, T
  <2> DEFINE U == SUBSET (1..(k + 1))
  <2>4. \A u \in U : u \in S \/ u \in T
    BY <2>1, <2>2
  <2>5. S \subseteq U /\ T \subseteq U
    BY <2>3
  <2> HIDE DEF S, T, U
  <2>6. S \union T = U
    BY <2>4, <2>5
  <2>. QED BY <2>6 DEF U
<1>6. Cardinality(S \union T) = Cardinality(S) + Cardinality(T) - Cardinality(S \cap T)
  BY <1>1, <1>3, FS_Union
<1>7. Cardinality(S \cap T) = 0 /\ Cardinality(S) \in Nat /\ Cardinality(S) # 0
  <2>1. {} \in S
    OBVIOUS
  <2> HIDE DEF S, T
  <2>. QED BY <1>1, <1>4, <2>1, FS_EmptySet, FS_CardinalityType
<1> HIDE DEF S, T
<1>8. 2 ^ (k + 1) = Cardinality(S) + Cardinality(S) - 0
  BY <1>1, <1>3, <1>5, <1>6, <1>7
<1>. QED BY <1>1, <1>2, <1>7, <1>8

LEMMA PowerMore == ASSUME NEW k \in Nat, NEW m \in Nat PROVE 2 ^ k <= 2 ^ (k + m)
<1> DEFINE T == {i \in Nat : 2 ^ k <= 2 ^ (k + i)}
<1>1. 0 \in T
  BY Power
<1>2. ASSUME NEW i \in Nat, i \in T PROVE i + 1 \in T
  <2>1. k + i \in Nat /\ (k + i) + 1 = k + (i + 1)
    OBVIOUS
  <2>2. 2 ^ (k + (i + 1)) = 2 * 2 ^ (k + i) /\ 2 ^ (k + i) \in Nat
    BY <2>1, Power
  <2>3. 2 ^ k \in Nat
    BY Power
  <2>. QED BY <1>2, <2>2, <2>3
<1> HIDE DEF T
<1>3. Nat \subseteq T
  BY <1>1, <1>2, Numbers!Induction
<1>. QED BY <1>3 DEF T

LEMMA PowerLess == ASSUME NEW k \in Nat, NEW m \in Nat, k < m PROVE 2 ^ (k + 1) <= 2 ^ m
<1>1. k + 1 \in Nat /\ m - (k + 1) \in Nat /\ (k + 1) + (m - (k + 1)) = m
  OBVIOUS
<1>. QED BY <1>1, PowerMore

LEMMA PowerSum == ASSUME NEW k \in Nat, NEW m \in Nat PROVE 2 ^ (k + m) = 2 ^ k * 2 ^ m
<1> DEFINE T == {i \in Nat : 2 ^ (k + i) = 2 ^ k * 2 ^ i}
<1>0. 2 ^ k \in Nat
  BY Power
<1>1. 0 \in T
  BY <1>0, Power
<1>2. ASSUME NEW i \in Nat, i \in T PROVE i + 1 \in T
  <2>1. k + i \in Nat /\ (k + i) + 1 = k + (i + 1)
    OBVIOUS
  <2>2. 2 ^ (k + (i + 1)) = 2 * 2 ^ (k + i)
    BY <2>1, Power
  <2>3. 2 ^ (i + 1) = 2 * 2 ^ i /\ 2 ^ i \in Nat
    BY Power
  <2>4. 2 ^ (k + i) = 2 ^ k * 2 ^ i
    BY <1>2
  <2> DEFINE x == 2 ^ k
             y == 2 ^ i
  <2>5. x \in Nat /\ y \in Nat
    BY <1>0, <2>3
  <2> HIDE DEF x, y
  <2>6. 2 * (x * y) = x * (2 * y)
    BY <2>5
  <2>. QED BY <2>2, <2>3, <2>4, <2>6 DEF x, y
<1> HIDE DEF T
<1>3. Nat \subseteq T
  BY <1>1, <1>2, Numbers!Induction
<1>. QED BY <1>3 DEF T

LEMMA PowerAbove == ASSUME NEW n \in Nat PROVE n < 2 ^ n
<1> DEFINE T == {i \in Nat : i < 2 ^ i}
<1>1. 0 \in T
  BY Power
<1>2. ASSUME NEW i \in Nat, i \in T PROVE i + 1 \in T
  BY <1>2, Power
<1> HIDE DEF T
<1>3. Nat \subseteq T
  BY <1>1, <1>2, Numbers!Induction
<1>. QED BY <1>3 DEF T
-----------------------------------------------------------------------------
(***************************************************************************)
(* Classes of sizes: their order is that of the sizes.                     *)
(***************************************************************************)
LEMMA FlsIs == ASSUME NEW n \in Nat \ {0}
               PROVE  Fls(n) \in 0..n /\ 2 ^ Fls(n) <= n /\ n < 2 ^ (Fls(n) + 1)
<1> DEFINE T == {k \in Nat : n < 2 ^ (k + 1)}
<1>1. n - 1 \in T
  BY PowerAbove
<1>2. PICK k \in T : \A m \in T : k <= m
  BY <1>1, Numbers!Least
<1>3. k \in 0..n /\ n < 2 ^ (k + 1)
  BY <1>1, <1>2
<1>4. 2 ^ k <= n
  <2>1. CASE k = 0
    BY <2>1, Power
  <2>2. CASE k # 0
    <3>1. k - 1 \in Nat /\ k - 1 \notin T /\ (k - 1) + 1 = k
      BY <1>2, <2>2
    <3>2. ~(n < 2 ^ k)
      BY <3>1
    <3>. QED BY <3>2, Power
  <2>. QED BY <2>1, <2>2
<1>. QED BY <1>3, <1>4 DEF Fls

LEMMA FlsLess == ASSUME NEW n \in Nat \ {0}, NEW k \in Nat
                 PROVE  /\ n < 2 ^ k <=> Fls(n) < k
                        /\ 2 ^ k <= n <=> k <= Fls(n)
<1>1. Fls(n) \in Nat /\ 2 ^ Fls(n) <= n /\ n < 2 ^ (Fls(n) + 1)
  BY FlsIs
<1>2. 2 ^ k \in Nat /\ 2 ^ Fls(n) \in Nat /\ 2 ^ (Fls(n) + 1) \in Nat
  BY <1>1, Power
<1>3. ASSUME Fls(n) < k PROVE n < 2 ^ k
  <2>1. 2 ^ (Fls(n) + 1) <= 2 ^ k
    BY <1>1, <1>3, PowerLess
  <2>. QED BY <1>1, <1>2, <2>1
<1>4. ASSUME k <= Fls(n) PROVE 2 ^ k <= n
  <2>1. Fls(n) - k \in Nat /\ k + (Fls(n) - k) = Fls(n)
    BY <1>1, <1>4
  <2>2. 2 ^ k <= 2 ^ Fls(n)
    BY <2>1, PowerMore
  <2>. QED BY <1>1, <1>2, <2>2
<1>. QED BY <1>1, <1>2, <1>3, <1>4

LEMMA FlsMore == ASSUME NEW m \in Nat \ {0}, NEW n \in Nat \ {0}, m <= n PROVE Fls(m) <= Fls(n)
<1>1. Fls(m) \in Nat /\ 2 ^ Fls(m) <= m /\ Fls(n) \in Nat /\ 2 ^ Fls(m) \in Nat
  BY FlsIs, Power
<1>2. 2 ^ Fls(m) <= n
  BY <1>1
<1>. QED BY <1>1, <1>2, FlsLess

LEMMA Quotient == ASSUME NEW a \in Nat, NEW n \in Nat \ {0}
                  PROVE  a \div n \in Nat /\ n * (a \div n) <= a /\ a < n * (a \div n) + n
  OBVIOUS

\* Quotients by the same number, and the remainders between them.
LEMMA QuotientLess ==
    ASSUME NEW a \in Nat, NEW n \in Nat \ {0}, NEW q \in Nat
    PROVE  /\ a \div n < q <=> a < n * q
           /\ q <= a \div n <=> n * q <= a
<1> DEFINE d == a \div n
<1>1. d \in Nat /\ n * d <= a /\ a < n * d + n
  BY Quotient
<1> HIDE DEF d
<1>2. ASSUME d < q PROVE a < n * q
  <2>1. q - (d + 1) \in Nat
    BY <1>1, <1>2
  <2>2. n * (d + 1) <= n * q
    <3>1. n * (q - (d + 1)) \in Nat
      BY <2>1
    <3>2. n * q = n * (d + 1) + n * (q - (d + 1))
      BY <1>1
    <3>. QED BY <1>1, <3>1, <3>2
  <2>. QED BY <1>1, <2>2
<1>3. ASSUME q <= d PROVE n * q <= a
  <2>1. d - q \in Nat
    BY <1>1, <1>3
  <2>2. n * (d - q) \in Nat /\ n * d = n * q + n * (d - q)
    BY <1>1, <2>1
  <2>. QED BY <1>1, <2>2
<1>4. (d < q <=> a < n * q) /\ (q <= d <=> n * q <= a)
  BY <1>1, <1>2, <1>3
<1>. QED BY <1>4 DEF d

LEMMA Sizes ==
    /\ PoolSize \in Nat /\ Base \in Nat /\ SLLog2 \in Nat /\ FLMax \in Nat
    /\ 3 <= PoolSize /\ SizeMax \in Nat \ {0} /\ PoolSize < SizeMax /\ SLLog2 <= FLMax
    /\ SmallBlock \in Nat \ {0} /\ SmallBlock = 2 ^ SLLog2 /\ SmallBlock <= SizeMax
    /\ Sentinel = PoolSize + 1 /\ Words = 0..(PoolSize + 1) /\ MinSize = 3 /\ HeaderSize = 4
    /\ Nowhere = -1
<1>1. PoolSize \in Nat /\ Base \in Nat /\ SLLog2 \in Nat /\ FLMax \in Nat
      /\ 3 <= PoolSize /\ PoolSize < 2 ^ FLMax /\ SLLog2 <= FLMax
  BY SizesAssumption
<1>2. 2 ^ FLMax \in Nat \ {0} /\ 2 ^ SLLog2 \in Nat \ {0}
  BY <1>1, Power
<1>3. 2 ^ SLLog2 <= 2 ^ FLMax
  <2>1. FLMax - SLLog2 \in Nat /\ SLLog2 + (FLMax - SLLog2) = FLMax
    BY <1>1
  <2>. QED BY <1>1, <2>1, PowerMore
<1>. QED BY <1>1, <1>2, <1>3 DEF SizeMax, SmallBlock, Sentinel, Words, MinSize, HeaderSize, Nowhere

\* The class of a large size.
LEMMA LargeClass ==
    ASSUME NEW n \in Nat, SmallBlock <= n
    PROVE  /\ n # 0 /\ Fls(n) \in Nat /\ SLLog2 <= Fls(n)
           /\ Step(n) \in Nat \ {0} /\ Step(n) = 2 ^ (Fls(n) - SLLog2) /\ Step(n) * SmallBlock <= n
           /\ n < 2 * (Step(n) * SmallBlock) /\ 2 ^ Fls(n) = Step(n) * SmallBlock
           /\ n \div Step(n) \in SmallBlock..(2 * SmallBlock - 1)
           /\ MappingInsert(n) = <<Fls(n) - SLLog2 + 1, n \div Step(n) - SmallBlock>>
<1>1. n \in Nat \ {0} /\ SLLog2 \in Nat /\ SmallBlock \in Nat \ {0} /\ SmallBlock = 2 ^ SLLog2
  BY Sizes
<1>2. Fls(n) \in Nat /\ 2 ^ Fls(n) <= n /\ n < 2 ^ (Fls(n) + 1) /\ SLLog2 <= Fls(n)
  BY <1>1, FlsIs, FlsLess
<1>3. Fls(n) - SLLog2 \in Nat /\ (Fls(n) - SLLog2) + SLLog2 = Fls(n)
  BY <1>1, <1>2
<1>4. Step(n) \in Nat \ {0} /\ Step(n) = 2 ^ (Fls(n) - SLLog2)
  BY <1>3, Power DEF Step
<1>5. 2 ^ Fls(n) = Step(n) * SmallBlock
  BY <1>1, <1>3, <1>4, PowerSum
<1>6. 2 ^ (Fls(n) + 1) = 2 * 2 ^ Fls(n) /\ 2 ^ Fls(n) \in Nat
  BY <1>2, Power
<1>7. n < 2 * (Step(n) * SmallBlock) /\ Step(n) * SmallBlock <= n
  BY <1>2, <1>5, <1>6
<1> DEFINE s == Step(n)
           b == SmallBlock
           c == 2 * b
<1>8. s \in Nat \ {0} /\ b \in Nat \ {0} /\ c \in Nat /\ s * b <= n /\ n < 2 * (s * b)
  BY <1>1, <1>4, <1>7
<1> HIDE DEF s, b
<1>9. n < s * c
  BY <1>8
<1>10. n \div s < c /\ b <= n \div s /\ n \div s \in Nat
  <2> HIDE DEF c
  <2>. QED BY <1>8, <1>9, QuotientLess, Quotient
<1>11. n \div Step(n) \in SmallBlock..(2 * SmallBlock - 1)
  BY <1>8, <1>10 DEF s, b
<1>12. MappingInsert(n) = <<Fls(n) - SLLog2 + 1, n \div Step(n) - SmallBlock>>
  BY <1>1 DEF MappingInsert
<1>. QED BY <1>1, <1>2, <1>4, <1>5, <1>7, <1>11, <1>12

LEMMA Row == ASSUME NEW n \in Nat, SmallBlock <= n
             PROVE  /\ MappingInsert(n)[1] = Fls(n) - SLLog2 + 1
                    /\ MappingInsert(n)[2] = n \div Step(n) - SmallBlock
                    /\ MappingInsert(n) = <<MappingInsert(n)[1], MappingInsert(n)[2]>>
                    /\ Fls(n) \in Nat /\ SLLog2 \in Nat /\ SLLog2 <= Fls(n)
                    /\ n \div Step(n) \in Nat /\ SmallBlock \in Nat
                    /\ MappingInsert(n)[1] \in Nat /\ MappingInsert(n)[1] # 0
                    /\ MappingInsert(n)[2] \in 0..(SmallBlock - 1)
<1> DEFINE r == Fls(n) - SLLog2 + 1
           q == n \div Step(n)
           c == q - SmallBlock
<1>1. /\ MappingInsert(n) = <<r, c>> /\ Fls(n) \in Nat /\ SLLog2 <= Fls(n)
      /\ q \in SmallBlock..(2 * SmallBlock - 1)
  BY LargeClass
<1>2. SLLog2 \in Nat /\ SmallBlock \in Nat
  BY Sizes
<1> HIDE DEF q
<1>3. r \in Nat /\ r # 0 /\ q \in Nat /\ c \in 0..(SmallBlock - 1)
  BY <1>1, <1>2
<1>. QED BY <1>1, <1>2, <1>3 DEF q

LEMMA SmallClass == ASSUME NEW n \in Nat, n < SmallBlock PROVE MappingInsert(n) = <<0, n>>
  BY DEF MappingInsert

LEMMA ClassIs == ASSUME NEW n \in Nat, n < SizeMax PROVE MappingInsert(n) \in Classes
<1>1. CASE n < SmallBlock
  BY <1>1, SmallClass, Sizes DEF Classes
<1>2. CASE SmallBlock <= n
  <2>1. Fls(n) < FLMax
    <3>1. n \in Nat \ {0} /\ FLMax \in Nat /\ n < 2 ^ FLMax
      BY <1>2, Sizes DEF SizeMax
    <3>. QED BY <3>1, FlsLess
  <2>2. MappingInsert(n)[1] \in 0..(FLMax - SLLog2) /\ MappingInsert(n)[2] \in 0..(2 ^ SLLog2 - 1)
    <3>1. SmallBlock = 2 ^ SLLog2 /\ FLMax \in Nat
      BY Sizes
    <3>. QED BY <1>2, <2>1, <3>1, Row
  <2>. QED BY <1>2, <2>2, Row DEF Classes
<1>. QED BY <1>1, <1>2, Sizes

Strictly(c, d) == c[1] < d[1] \/ (c[1] = d[1] /\ c[2] < d[2])

LEMMA Order ==
    /\ \A c, d \in Nat \X Nat : Strictly(c, d) <=> ~Before(d, c)
    /\ \A c, d, e \in Nat \X Nat : Before(c, d) /\ Before(d, e) => Before(c, e)
    /\ \A c, d \in Nat \X Nat : Before(c, d) /\ Before(d, c) => c = d
  BY DEF Strictly, Before
LEMMA ClassPair == \A n \in Nat : MappingInsert(n) \in Nat \X Nat
<1> TAKE n \in Nat
<1>1. CASE n < SmallBlock
  BY <1>1, SmallClass
<1>2. CASE SmallBlock <= n
  BY <1>2, Row
<1>. QED BY <1>1, <1>2, Sizes

\* Larger sizes are in later classes.
LEMMA Monotone == ASSUME NEW m \in Nat, NEW n \in Nat, m <= n
                  PROVE  Before(MappingInsert(m), MappingInsert(n))
<1>0. SmallBlock \in Nat \ {0}
  BY Sizes
<1>1. CASE n < SmallBlock
  BY <1>0, <1>1, SmallClass DEF Before
<1>2. CASE m < SmallBlock /\ SmallBlock <= n
  BY <1>2, SmallClass, Row DEF Before
<1>3. CASE SmallBlock <= m
  <2>0. SmallBlock <= n
    BY <1>0, <1>3
  <2>1. Fls(m) <= Fls(n) /\ Fls(m) \in Nat /\ Fls(n) \in Nat
    BY <1>3, <2>0, LargeClass, FlsMore
  <2>2. CASE Fls(m) < Fls(n)
    BY <1>3, <2>0, <2>1, <2>2, Row DEF Before
  <2>3. CASE Fls(m) = Fls(n)
    <3>1. Step(m) = Step(n) /\ Step(n) \in Nat \ {0}
      BY <2>0, <2>3, LargeClass DEF Step
    <3>2. m \div Step(n) <= n \div Step(n)
      <4> DEFINE q == m \div Step(n)
      <4>1. q \in Nat /\ Step(n) * q <= m
        BY <3>1, Quotient
      <4> HIDE DEF q
      <4>2. q <= n \div Step(n)
        BY <3>1, <4>1, QuotientLess
      <4>. QED BY <4>2 DEF q
    <3>. QED BY <1>3, <2>0, <2>3, <3>1, <3>2, Row DEF Before
  <2>. QED BY <2>1, <2>2, <2>3
<1>. QED BY <1>0, <1>1, <1>2, <1>3

\* A size in the class that is searched for n, or in a later one, is enough for n.
LEMMA RoundedIs == ASSUME NEW n \in Nat \ {0} PROVE RoundedSize(n) \in Nat /\ n <= RoundedSize(n)
<1>1. CASE n < SmallBlock
  BY <1>1 DEF RoundedSize
<1>2. CASE SmallBlock <= n
  <2>1. Step(n) \in Nat \ {0}
    BY <1>2, LargeClass
  <2>2. RoundedSize(n) = n + Step(n) - 1
    BY <1>2, Sizes DEF RoundedSize
  <2>. QED BY <2>1, <2>2
<1>. QED BY <1>1, <1>2, Sizes

LEMMA Enough == ASSUME NEW n \in Nat \ {0}, NEW s \in Nat,
                       Before(MappingSearch(n), MappingInsert(s))
                PROVE  n <= s
<1> SUFFICES ASSUME s < n PROVE FALSE
  OBVIOUS
<1> DEFINE m == RoundedSize(n)
<1>0. m \in Nat /\ n <= m /\ SmallBlock \in Nat \ {0} /\ SLLog2 \in Nat
  BY RoundedIs, Sizes
<1>1. Before(MappingInsert(m), MappingInsert(s))
  BY DEF MappingSearch
<1>2. SUFFICES Strictly(MappingInsert(s), MappingInsert(m))
  <2> HIDE DEF m
  <2>. QED BY <1>0, <1>1, Order, ClassPair
<1>3. CASE n < SmallBlock
  <2>1. m = n
    BY <1>3 DEF RoundedSize
  <2>. QED BY <1>0, <1>3, <2>1, SmallClass DEF Strictly
<1>4. CASE s < SmallBlock /\ SmallBlock <= n
  <2>1. SmallBlock <= m
    BY <1>0, <1>4
  <2> HIDE DEF m
  <2>. QED BY <1>0, <1>4, <2>1, SmallClass, LargeClass DEF Strictly
<1>5. CASE SmallBlock <= s
  <2>0. SmallBlock <= n /\ SmallBlock <= m
    BY <1>0, <1>5
  <2>1. m = n + Step(n) - 1 /\ Step(n) \in Nat \ {0} /\ Fls(n) \in Nat
    BY <1>0, <2>0, LargeClass DEF RoundedSize
  <2> HIDE DEF m
  <2>2. Fls(s) <= Fls(n) /\ Fls(n) <= Fls(m) /\ Fls(s) \in Nat /\ Fls(m) \in Nat
    BY <1>0, <1>5, <2>0, LargeClass, FlsMore
  <2>3. CASE Fls(s) < Fls(m)
    BY <1>0, <1>5, <2>0, <2>2, <2>3, Row DEF Strictly
  <2>4. CASE Fls(s) = Fls(m)
    <3>1. Fls(n) = Fls(m) /\ Step(m) = Step(n) /\ Step(s) = Step(n)
      <4>1. Fls(n) = Fls(m) /\ Fls(s) = Fls(n)
        BY <2>1, <2>2, <2>4
      <4>. QED BY <4>1 DEF Step
    <3> DEFINE q == m \div Step(n)
    <3>2. q \in Nat /\ m < Step(n) * q + Step(n)
      BY <1>0, <2>1, Quotient
    <3> HIDE DEF q
    <3>3. s < Step(n) * q
      BY <1>0, <2>1, <3>2
    <3>4. s \div Step(n) < q
      BY <2>1, <3>2, <3>3, QuotientLess
    <3>5. m \div Step(m) = q /\ s \div Step(s) < q
      BY <3>1, <3>4 DEF q
    <3>. QED BY <1>0, <1>5, <2>0, <2>4, <3>2, <3>5, Row DEF Strictly
  <2>5. Fls(s) < Fls(m) \/ Fls(s) = Fls(m)
    BY <2>1, <2>2
  <2>. QED BY <2>3, <2>4, <2>5
<1>. QED BY <1>0, <1>3, <1>4, <1>5
-----------------------------------------------------------------------------
(***************************************************************************)
(* Lists of blocks without repetition.                                     *)
(***************************************************************************)
LEMMA Unlinked ==
    ASSUME NEW S, NEW s \in Seq(S), IsInjective(s), NEW e \in ToSet(s)
    PROVE  /\ RemoveFirst(s, e) \in Seq(S) /\ IsInjective(RemoveFirst(s, e))
           /\ ToSet(RemoveFirst(s, e)) = ToSet(s) \ {e}
<1> DEFINE I == {i \in 1..Len(s) : s[i] = e}
<1>1. Len(s) \in Nat /\ DOMAIN s = 1..Len(s)
  OBVIOUS
<1>2. PICK j \in 1..Len(s) : s[j] = e
  BY <1>1 DEF ToSet
<1>3. I = {j}
  BY <1>1, <1>2 DEF IsInjective
<1>4. Min(I) = j
  <2> HIDE DEF I
  <2>1. \A x \in I : \A y \in I : x =< y
    BY <1>2, <1>3
  <2>. QED BY <1>3, <2>1 DEF Min
<1>5. SelectInSeq(s, LAMBDA v : v = e) = (IF I # {} THEN Min(I) ELSE 0)
  BY DEF SelectInSeq
<1>6. SelectInSeq(s, LAMBDA v : v = e) = j
  <2> HIDE DEF I
  <2>. QED BY <1>3, <1>4, <1>5
<1> DEFINE t == SubSeq(s, 1, j - 1)
           u == SubSeq(s, j + 1, Len(s))
           r == t \o u
<1>7. RemoveFirst(s, e) = r
  BY <1>2, <1>6 DEF RemoveFirst, RemoveAt
<1>8. /\ t \in Seq(S) /\ Len(t) = j - 1 /\ \A i \in 1..(j - 1) : t[i] = s[i]
      /\ u \in Seq(S) /\ Len(u) = Len(s) - j /\ \A i \in 1..(Len(s) - j) : u[i] = s[i + j]
  <2>1. 1 \in 1..(Len(s) + 1) /\ j - 1 \in 0..Len(s) /\ j + 1 \in 1..(Len(s) + 1)
    BY <1>1, <1>2
  <2>2. t \in Seq(S) /\ Len(t) = j - 1 /\ \A i \in 1..(j - 1) : t[i] = s[i]
    <3>1. 1 \in Int /\ j - 1 \in Int /\ \A i \in 1..(j - 1) : s[i] \in S /\ 1 + i - 1 = i
      BY <1>1, <1>2
    <3>2. Len(t) = (IF 1 <= j - 1 THEN j - 1 - 1 + 1 ELSE 0) /\ t \in Seq(S)
      BY <3>1, SubSeqProperties
    <3>3. \A i \in 1..(j - 1 - 1 + 1) : t[i] = s[1 + i - 1]
      BY <3>1, SubSeqProperties
    <3> HIDE DEF t
    <3>4. j - 1 - 1 + 1 = j - 1 /\ j \in Nat \ {0}
      BY <1>1, <1>2
    <3>5. Len(t) = j - 1
      BY <3>2, <3>4
    <3>6. \A i \in 1..(j - 1) : t[i] = s[i]
      BY <3>1, <3>3, <3>4
    <3>. QED BY <3>2, <3>5, <3>6
  <2>3. u \in Seq(S) /\ Len(u) = Len(s) - j /\ \A i \in 1..(Len(s) - j) : u[i] = s[i + j]
    <3> DEFINE a == j + 1
               b == Len(s)
    <3>1. a \in Int /\ b \in Int /\ \A i \in a..b : s[i] \in S
      BY <1>1, <1>2
    <3> HIDE DEF a, b
    <3>2. /\ SubSeq(s, a, b) \in Seq(S) /\ Len(SubSeq(s, a, b)) = IF a <= b THEN b - a + 1 ELSE 0
          /\ \A i \in 1..(b - a + 1) : SubSeq(s, a, b)[i] = s[a + i - 1]
      BY <3>1, SubSeqProperties
    <3>3. u = SubSeq(s, a, b)
      BY DEF a, b
    <3> HIDE DEF u
    <3>4. b - a + 1 = Len(s) - j /\ (a <= b \/ Len(s) - j = 0)
          /\ \A i \in 1..(Len(s) - j) : a + i - 1 = i + j
      <4>1. j \in Int /\ Len(s) \in Int /\ j <= Len(s)
        BY <1>1, <1>2
      <4>2. \A i \in Int : a + i - 1 = i + j
        BY <4>1 DEF a
      <4>. QED BY <4>1, <4>2 DEF a, b
    <3>. QED BY <1>1, <1>2, <3>1, <3>2, <3>3, <3>4
  <2>. QED BY <2>2, <2>3
<1> HIDE DEF t, u
<1>9. /\ r \in Seq(S) /\ Len(r) = Len(s) - 1 /\ DOMAIN r = 1..(Len(s) - 1)
      /\ \A i \in 1..(Len(s) - 1) : r[i] = s[IF i < j THEN i ELSE i + 1]
  <2>1. Len(r) = Len(s) - 1 /\ r \in Seq(S)
    <3>1. r \in Seq(S) /\ Len(r) = Len(t) + Len(u)
      BY <1>8, ConcatProperties
    <3>. QED BY <1>1, <1>2, <1>8, <3>1
  <2>2. ASSUME NEW i \in 1..(Len(s) - 1) PROVE r[i] = s[IF i < j THEN i ELSE i + 1]
    <3>1. r[i] = IF i <= Len(t) THEN t[i] ELSE u[i - Len(t)]
      BY <1>1, <1>2, <1>8, <2>1, ConcatProperties
    <3>2. CASE i < j
      BY <1>1, <1>2, <1>8, <3>1, <3>2
    <3>3. CASE ~(i < j)
      <4>1. i - Len(t) \in 1..(Len(s) - j) /\ (i - Len(t)) + j = i + 1
        BY <1>1, <1>2, <1>8, <3>3
      <4>. QED BY <1>1, <1>2, <1>8, <3>1, <3>3, <4>1
    <3>. QED BY <3>2, <3>3
  <2>3. DOMAIN r = 1..(Len(s) - 1)
    BY <2>1
  <2>. QED BY <2>1, <2>2, <2>3
<1> HIDE DEF r
<1>10. IsInjective(r)
  <2> SUFFICES ASSUME NEW a \in 1..(Len(s) - 1), NEW b \in 1..(Len(s) - 1), r[a] = r[b] PROVE a = b
    BY <1>9 DEF IsInjective
  <2> DEFINE f(i) == IF i < j THEN i ELSE i + 1
  <2>1. f(a) \in 1..Len(s) /\ f(b) \in 1..Len(s) /\ s[f(a)] = s[f(b)]
    BY <1>1, <1>2, <1>9
  <2>2. f(a) = f(b)
    <3> HIDE DEF f
    <3>. QED BY <1>1, <2>1 DEF IsInjective
  <2>. QED BY <1>2, <2>2
<1>11. ToSet(r) = ToSet(s) \ {e}
  <2>1. ASSUME NEW i \in 1..(Len(s) - 1) PROVE r[i] \in ToSet(s) \ {e}
    <3> DEFINE g == IF i < j THEN i ELSE i + 1
    <3>1. g \in 1..Len(s) /\ g # j /\ r[i] = s[g]
      BY <1>1, <1>2, <1>9
    <3> HIDE DEF g
    <3>. QED BY <1>1, <1>2, <3>1 DEF ToSet, IsInjective
  <2>2. ASSUME NEW x \in ToSet(s) \ {e} PROVE x \in ToSet(r)
    <3>1. PICK k \in 1..Len(s) : s[k] = x
      BY <1>1 DEF ToSet
    <3>2. k # j
      BY <1>2, <3>1
    <3> DEFINE i == IF k < j THEN k ELSE k - 1
    <3>3. i \in 1..(Len(s) - 1) /\ k = IF i < j THEN i ELSE i + 1
      BY <1>1, <1>2, <3>1, <3>2
    <3>4. r[i] = x
      <4> HIDE DEF i
      <4>. QED BY <1>9, <3>1, <3>3
    <3> HIDE DEF i
    <3>. QED BY <1>9, <3>3, <3>4 DEF ToSet
  <2>. QED BY <1>9, <2>1, <2>2 DEF ToSet
<1>. QED BY <1>7, <1>9, <1>10, <1>11

LEMMA Linked ==
    ASSUME NEW S, NEW s \in Seq(S), IsInjective(s), NEW e \in S, e \notin ToSet(s)
    PROVE  /\ <<e>> \o s \in Seq(S) /\ IsInjective(<<e>> \o s)
           /\ ToSet(<<e>> \o s) = ToSet(s) \union {e}
<1> DEFINE r == <<e>> \o s
<1>1. Len(s) \in Nat /\ DOMAIN s = 1..Len(s)
  OBVIOUS
<1>2. r \in Seq(S) /\ DOMAIN r = 1..(Len(s) + 1) /\ r[1] = e /\ \A i \in 1..Len(s) : r[i + 1] = s[i]
  BY <1>1
<1> HIDE DEF r
<1>3. \A i \in 1..(Len(s) + 1) : i # 1 => i - 1 \in 1..Len(s) /\ r[i] = s[i - 1]
  <2> TAKE i \in 1..(Len(s) + 1)
  <2> HAVE i # 1
  <2>1. i - 1 \in 1..Len(s) /\ (i - 1) + 1 = i
    BY <1>1
  <2>. QED BY <1>2, <2>1
<1>4. IsInjective(r)
  <2> SUFFICES ASSUME NEW a \in 1..(Len(s) + 1), NEW b \in 1..(Len(s) + 1), r[a] = r[b] PROVE a = b
    BY <1>2 DEF IsInjective
  <2>1. \A i \in 1..(Len(s) + 1) : i # 1 => r[i] # e
    BY <1>1, <1>3 DEF ToSet
  <2>2. CASE a = 1 \/ b = 1
    BY <1>2, <2>1, <2>2
  <2>3. CASE a # 1 /\ b # 1
    <3>1. a - 1 = b - 1
      BY <1>1, <1>3, <2>3 DEF IsInjective
    <3>. QED BY <3>1
  <2>. QED BY <2>2, <2>3
<1>5. ToSet(r) = ToSet(s) \union {e}
  <2>1. ASSUME NEW i \in 1..(Len(s) + 1) PROVE r[i] \in ToSet(s) \union {e}
    BY <1>1, <1>2, <1>3 DEF ToSet
  <2>2. ASSUME NEW i \in 1..Len(s) PROVE s[i] \in ToSet(r)
    <3>1. i + 1 \in 1..(Len(s) + 1)
      BY <1>1
    <3>. QED BY <1>2, <3>1 DEF ToSet
  <2>3. e \in ToSet(r)
    <3>1. 1 \in 1..(Len(s) + 1)
      BY <1>1
    <3>. QED BY <1>2, <3>1 DEF ToSet
  <2>. QED BY <1>1, <1>2, <2>1, <2>2, <2>3 DEF ToSet
<1>. QED BY <1>2, <1>4, <1>5 DEF r

LEMMA Empty == ASSUME NEW S, NEW s \in Seq(S)
               PROVE  /\ s = <<>> <=> ToSet(s) = {}
                      /\ s # <<>> => Head(s) \in ToSet(s)
<1>1. ASSUME s # <<>> PROVE Head(s) \in ToSet(s)
  <2>1. 1 \in DOMAIN s /\ Head(s) = s[1]
    BY <1>1
  <2>. QED BY <2>1 DEF ToSet
<1>2. ToSet(<<>>) = {}
  BY DEF ToSet
<1>. QED BY <1>1, <1>2
-----------------------------------------------------------------------------
(***************************************************************************)
(* Heaps in which some blocks, those of O, are being worked on: their      *)
(* flags and lists are yet to follow.                                      *)
(***************************************************************************)
Heap == [size : [Words -> 0..PoolSize], headers : SUBSET Words,
         free : SUBSET Words, prevFree : SUBSET Words,
         prevPhys : [Words -> Words \union {Nowhere}], lists : [Classes -> Seq(Words)],
         slBitmap : SUBSET Classes, flBitmap : SUBSET (0..(FLMax - SLLog2))]

Blocks(h) == h.headers \ {Sentinel}
Used(h) == Blocks(h) \ h.free
Chain(h) ==
    /\ 0 \in h.headers /\ Sentinel \in h.headers /\ h.size[Sentinel] = 0
    /\ \A b \in Blocks(h) : /\ MinSize <= h.size[b] /\ After(h, b) \in h.headers
                            /\ \A c \in h.headers : c <= b \/ After(h, b) <= c
Flag(h, b) ==
    (b \in h.free <=> After(h, b) \in h.prevFree) /\ (b \in h.free => h.prevPhys[After(h, b)] = b)
Flags(h, O) ==
    /\ 0 \notin h.prevFree /\ h.free \subseteq Blocks(h) /\ h.prevFree \subseteq h.headers
    /\ \A b \in Blocks(h) \ O : Flag(h, b)
    /\ \A b \in h.free : After(h, b) \in h.free => b \in O \/ After(h, b) \in O
Listed(h, O) ==
    /\ \A c \in Classes :
          /\ c \in h.slBitmap <=> h.lists[c] # <<>>
          /\ IsInjective(h.lists[c])
          /\ ToSet(h.lists[c]) = {b \in h.free \ O : MappingInsert(h.size[b]) = c}
    /\ h.flBitmap = {c[1] : c \in h.slBitmap}
Open(h, O) == h \in Heap /\ Chain(h) /\ O \subseteq Blocks(h) /\ Flags(h, O) /\ Listed(h, O)

\* What callers hold, b aside, is as it was.
Same(h, g, b) == \A c \in Used(h) \ {b} : c \in Used(g) /\ g.size[c] = h.size[c]

LEMMA SameTwice == ASSUME NEW h, NEW g, NEW k, NEW b, Same(h, g, b), Same(g, k, b)
                   PROVE Same(h, k, b)
  BY DEF Same

LEMMA AfterIs ==
    ASSUME NEW h \in Heap, Chain(h), NEW b \in Blocks(h)
    PROVE  /\ b \in 0..PoolSize /\ b \in Words /\ h.size[b] \in Nat /\ 3 <= h.size[b]
           /\ h.size[b] <= PoolSize
           /\ After(h, b) = b + 1 + h.size[b] /\ After(h, b) \in Words /\ After(h, b) \in h.headers
           /\ b + 4 <= After(h, b) /\ After(h, b) <= Sentinel /\ After(h, b) # b /\ After(h, b) # 0
           /\ MappingInsert(h.size[b]) \in Classes
<1>1. b \in h.headers /\ b # Sentinel /\ b \in Words /\ h.size[b] \in 0..PoolSize
      /\ After(h, b) \in Words
      /\ MinSize <= h.size[b] /\ After(h, b) \in h.headers
  BY DEF Heap, Chain, Blocks
<1>2. PoolSize \in Nat /\ PoolSize < SizeMax /\ SizeMax \in Nat /\ Sentinel = PoolSize + 1
      /\ Words = 0..(PoolSize + 1)
      /\ MinSize = 3
  BY Sizes
<1>3. MappingInsert(h.size[b]) \in Classes
  BY <1>1, <1>2, ClassIs
<1>. QED BY <1>1, <1>2, <1>3 DEF After

LEMMA AfterOnce ==
    ASSUME NEW h \in Heap, Chain(h), NEW b \in Blocks(h), NEW c \in Blocks(h),
           After(h, b) = After(h, c)
    PROVE  b = c
<1>1. /\ b \in Int /\ c \in Int /\ After(h, b) \in Int /\ b < After(h, b) /\ c < After(h, c)
      /\ b \in h.headers /\ c \in h.headers
  BY AfterIs, Sizes DEF Blocks
<1>2. (c <= b \/ After(h, b) <= c) /\ (b <= c \/ After(h, c) <= b)
  BY <1>1 DEF Chain
<1>. QED BY <1>1, <1>2

\* Every block but the first has one before it.
LEMMA BlockBefore ==
    ASSUME NEW h \in Heap, Chain(h), NEW c \in h.headers, c # 0
    PROVE  \E b \in Blocks(h) : After(h, b) = c /\ b < c
<1> DEFINE T == {n \in Nat : \E b \in h.headers : b < c /\ n = c - b}
<1>1. h.headers \subseteq Words /\ Words = 0..(PoolSize + 1) /\ Sentinel = PoolSize + 1
      /\ PoolSize \in Nat
      /\ 0 \in h.headers
  BY Sizes DEF Heap, Chain
<1>2. c \in T
  BY <1>1
<1>3. PICK n \in T : \A m \in T : n <= m
  BY <1>2, Numbers!Least
<1>4. PICK b \in h.headers : b < c /\ n = c - b
  BY <1>3
<1>5. b \in Blocks(h)
  BY <1>1, <1>4 DEF Blocks
<1>6. After(h, b) \in h.headers /\ b < After(h, b) /\ After(h, b) \in Int
      /\ (c <= b \/ After(h, b) <= c)
  BY <1>1, <1>5, AfterIs DEF Chain
<1>7. ~(After(h, b) < c)
  <2>1. ASSUME After(h, b) < c PROVE FALSE
    <3>1. c - After(h, b) \in T
      BY <1>1, <1>6, <2>1
    <3>. QED BY <1>1, <1>3, <1>4, <1>6, <2>1, <3>1
  <2>. QED BY <2>1
<1>. QED BY <1>1, <1>4, <1>5, <1>6, <1>7

\* The flag of a header tells of the block before it.
LEMMA FreeBefore ==
    ASSUME NEW h, NEW O, Open(h, O), NEW c \in h.prevFree
    PROVE  \E b \in Blocks(h) :
               After(h, b) = c /\ b < c /\ (b \notin O => b \in h.free /\ h.prevPhys[c] = b)
<1>1. h \in Heap /\ Chain(h) /\ c \in h.headers /\ c # 0
  BY DEF Open, Flags
<1>2. PICK b \in Blocks(h) : After(h, b) = c /\ b < c
  BY <1>1, BlockBefore
<1>. QED BY <1>2 DEF Open, Flags, Flag

-----------------------------------------------------------------------------
\* Flags of a block that is worked on change as they like.
LEMMA Touch ==
    ASSUME NEW h, NEW O, Open(h, O), NEW b \in O, NEW g \in Heap,
           g.size = h.size, g.headers = h.headers, g.lists = h.lists, g.slBitmap = h.slBitmap,
           g.flBitmap = h.flBitmap,
           \A c \in Words : c # b => (c \in g.free <=> c \in h.free),
           \A w \in Words : w # After(h, b) => /\ w \in g.prevFree <=> w \in h.prevFree
                                               /\ g.prevPhys[w] = h.prevPhys[w]
    PROVE  Open(g, O) /\ \A c \in Blocks(h) : After(g, c) = After(h, c)
<1>1. h \in Heap /\ Chain(h) /\ O \subseteq Blocks(h) /\ Flags(h, O) /\ Listed(h, O)
      /\ b \in Blocks(h)
  BY DEF Open
<1>2. \A c : After(g, c) = After(h, c)
  BY DEF After
<1>3. Blocks(g) = Blocks(h) /\ Blocks(h) \subseteq Words /\ g.free \subseteq Words
      /\ h.free \subseteq Words
      /\ g.prevFree \subseteq Words /\ h.prevFree \subseteq Words
  BY <1>1 DEF Blocks, Heap
<1>4. Chain(g)
  BY <1>1, <1>2, <1>3 DEF Chain
<1>5. /\ After(h, b) \in Words /\ After(h, b) \in h.headers /\ After(h, b) # 0 /\ b \in Words
      /\ 0 \in Words
  BY <1>1, AfterIs, Sizes
<1>6. Listed(g, O)
  <2>1. g.free \ O = h.free \ O
    BY <1>3
  <2>. QED BY <1>1, <2>1 DEF Listed
<1>7. Flags(g, O)
  <2>1. 0 \notin g.prevFree /\ g.free \subseteq Blocks(g) /\ g.prevFree \subseteq g.headers
    BY <1>1, <1>3, <1>5 DEF Flags
  <2>2. ASSUME NEW c \in Blocks(g) \ O PROVE Flag(g, c)
    <3>1. c \in Blocks(h) /\ c # b /\ c \in Words /\ Flag(h, c)
      BY <1>1, <1>3 DEF Flags
    <3>2. After(h, c) # After(h, b) /\ After(h, c) \in Words
      BY <1>1, <3>1, AfterOnce, AfterIs
    <3>. QED BY <1>2, <3>1, <3>2 DEF Flag
  <2>3. ASSUME NEW c \in g.free, After(g, c) \in g.free PROVE c \in O \/ After(g, c) \in O
    BY <1>1, <1>2, <1>3, <2>3 DEF Flags
  <2>. QED BY <2>1, <2>2, <2>3 DEF Flags
<1>. QED BY <1>1, <1>2, <1>3, <1>4, <1>6, <1>7 DEF Open
-----------------------------------------------------------------------------
(***************************************************************************)
(* The steps that operations are made of.                                  *)
(***************************************************************************)
LEMMA Marked ==
    ASSUME NEW h, NEW O, Open(h, O), NEW b \in O
    PROVE  /\ LET g == MarkFree(h, b)
              IN /\ Open(g, O) /\ Flag(g, b) /\ \A c \in Blocks(h) : After(g, c) = After(h, c)
                 /\ g.size = h.size /\ g.headers = h.headers /\ g.free = h.free \union {b}
                 /\ g.prevFree = h.prevFree \union {After(h, b)}
           /\ LET g == MarkUsed(h, b)
              IN /\ Open(g, O) /\ Flag(g, b) /\ \A c \in Blocks(h) : After(g, c) = After(h, c)
                 /\ g.size = h.size /\ g.headers = h.headers /\ g.free = h.free \ {b}
                 /\ g.prevFree = h.prevFree \ {After(h, b)}
<1>1. h \in Heap /\ Chain(h) /\ b \in Blocks(h)
  BY DEF Open
<1>2. b \in Words /\ After(h, b) \in Words
  BY <1>1, AfterIs
<1> DEFINE f == MarkFree(h, b)
           u == MarkUsed(h, b)
<1>3. /\ f \in Heap /\ f.size = h.size /\ f.headers = h.headers /\ f.lists = h.lists
      /\ f.slBitmap = h.slBitmap
      /\ f.flBitmap = h.flBitmap /\ f.free = h.free \union {b}
      /\ f.prevFree = h.prevFree \union {After(h, b)}
      /\ f.prevPhys = [h.prevPhys EXCEPT ![After(h, b)] = b]
  BY <1>1, <1>2 DEF MarkFree, Heap
<1>4. /\ u \in Heap /\ u.size = h.size /\ u.headers = h.headers /\ u.lists = h.lists
      /\ u.slBitmap = h.slBitmap
      /\ u.flBitmap = h.flBitmap /\ u.free = h.free \ {b} /\ u.prevFree = h.prevFree \ {After(h, b)}
      /\ u.prevPhys = [h.prevPhys EXCEPT ![After(h, b)] = Nowhere]
  BY <1>1, <1>2 DEF MarkUsed, Heap
<1> HIDE DEF f, u
<1>5. h.prevPhys \in [Words -> Words \union {Nowhere}]
  BY <1>1 DEF Heap
<1>6. Open(f, O) /\ \A c \in Blocks(h) : After(f, c) = After(h, c)
  BY <1>3, <1>5, Touch
<1>7. Open(u, O) /\ \A c \in Blocks(h) : After(u, c) = After(h, c)
  BY <1>4, <1>5, Touch
<1>8. Flag(f, b)
  BY <1>1, <1>2, <1>3, <1>5, <1>6 DEF Flag
<1>9. Flag(u, b)
  BY <1>1, <1>4, <1>7 DEF Flag
<1>. QED BY <1>3, <1>4, <1>6, <1>7, <1>8, <1>9 DEF f, u

LEMMA LinkIs ==
    ASSUME NEW h, NEW O, Open(h, O), NEW b \in O
    PROVE  LET g == LinkNext(h, b)
           IN /\ Open(g, O) /\ \A c \in Blocks(h) : After(g, c) = After(h, c)
              /\ g.size = h.size /\ g.headers = h.headers /\ g.free = h.free
              /\ g.prevFree = h.prevFree
              /\ g.prevPhys[After(h, b)] = b
              /\ \A w \in Words \ {After(h, b)} : g.prevPhys[w] = h.prevPhys[w]
<1>1. h \in Heap /\ Chain(h) /\ b \in Blocks(h)
  BY DEF Open
<1>2. b \in Words /\ After(h, b) \in Words
  BY <1>1, AfterIs
<1> DEFINE g == LinkNext(h, b)
<1>3. /\ g \in Heap /\ g.size = h.size /\ g.headers = h.headers /\ g.lists = h.lists
      /\ g.slBitmap = h.slBitmap
      /\ g.flBitmap = h.flBitmap /\ g.free = h.free /\ g.prevFree = h.prevFree
      /\ g.prevPhys = [h.prevPhys EXCEPT ![After(h, b)] = b]
  BY <1>1, <1>2 DEF LinkNext, Heap
<1> HIDE DEF g
<1>5. h.prevPhys \in [Words -> Words \union {Nowhere}]
  BY <1>1 DEF Heap
<1>6. Open(g, O) /\ \A c \in Blocks(h) : After(g, c) = After(h, c)
  BY <1>3, <1>5, Touch
<1>7. g.prevPhys[After(h, b)] = b /\ \A w \in Words \ {After(h, b)} : g.prevPhys[w] = h.prevPhys[w]
  BY <1>2, <1>3, <1>5
<1>. QED BY <1>3, <1>6, <1>7 DEF g

\* The flag of a header, set and cleared outside of MarkFree and MarkUsed.
FlagSet(h, x) == [h EXCEPT !.prevFree = @ \union {x}]
FlagCleared(h, x) == [h EXCEPT !.prevFree = @ \ {x}]

LEMMA Reflagged ==
    ASSUME NEW h, NEW O, Open(h, O), NEW b \in O, NEW x, x = After(h, b)
    PROVE  /\ LET g == FlagSet(h, x)
              IN /\ Open(g, O) /\ (\A c \in Blocks(h) : After(g, c) = After(h, c))
                 /\ g.prevFree = h.prevFree \union {x}
                 /\ g.size = h.size /\ g.headers = h.headers /\ g.free = h.free
                 /\ g.prevPhys = h.prevPhys
           /\ LET g == FlagCleared(h, x)
              IN /\ Open(g, O) /\ (\A c \in Blocks(h) : After(g, c) = After(h, c))
                 /\ g.prevFree = h.prevFree \ {x}
                 /\ g.size = h.size /\ g.headers = h.headers /\ g.free = h.free
                 /\ g.prevPhys = h.prevPhys
<1>1. h \in Heap /\ Chain(h) /\ b \in Blocks(h)
  BY DEF Open
<1>2. b \in Words /\ After(h, b) \in Words
  BY <1>1, AfterIs
<1> DEFINE f == FlagSet(h, x)
           u == FlagCleared(h, x)
<1>3. /\ f \in Heap /\ f.size = h.size /\ f.headers = h.headers /\ f.lists = h.lists
      /\ f.slBitmap = h.slBitmap
      /\ f.flBitmap = h.flBitmap /\ f.free = h.free /\ f.prevFree = h.prevFree \union {x}
      /\ f.prevPhys = h.prevPhys
  BY <1>1, <1>2 DEF Heap, FlagSet
<1>4. /\ u \in Heap /\ u.size = h.size /\ u.headers = h.headers /\ u.lists = h.lists
      /\ u.slBitmap = h.slBitmap
      /\ u.flBitmap = h.flBitmap /\ u.free = h.free /\ u.prevFree = h.prevFree \ {x}
      /\ u.prevPhys = h.prevPhys
  BY <1>1, <1>2 DEF Heap, FlagCleared
<1> HIDE DEF f, u
<1>5. Open(f, O) /\ \A c \in Blocks(h) : After(f, c) = After(h, c)
  BY <1>3, Touch
<1>6. Open(u, O) /\ \A c \in Blocks(h) : After(u, c) = After(h, c)
  BY <1>4, Touch
<1>. QED BY <1>3, <1>4, <1>5, <1>6 DEF f, u

\* A used block that was worked on is like any other.
LEMMA Closed ==
    ASSUME NEW h, NEW O, Open(h, O), NEW b \in O, b \notin h.free, Flag(h, b)
    PROVE  Open(h, O \ {b})
<1>1. h \in Heap /\ Chain(h) /\ O \subseteq Blocks(h) /\ Flags(h, O) /\ Listed(h, O)
  BY DEF Open
<1>2. Listed(h, O \ {b})
  <2>1. h.free \ (O \ {b}) = h.free \ O
    OBVIOUS
  <2>. QED BY <1>1, <2>1 DEF Listed
<1>3. Flags(h, O \ {b})
  BY <1>1 DEF Flags
<1>. QED BY <1>1, <1>2, <1>3 DEF Open

\* Any used block may be worked on.
LEMMA Opened ==
    ASSUME NEW h, NEW O, Open(h, O), NEW b \in Used(h) PROVE Open(h, O \union {b})
<1>1. h \in Heap /\ Chain(h) /\ O \subseteq Blocks(h) /\ Flags(h, O) /\ Listed(h, O)
      /\ b \in Blocks(h) /\ b \notin h.free
  BY DEF Open, Used
<1>2. Listed(h, O \union {b})
  <2>1. h.free \ (O \union {b}) = h.free \ O
    BY <1>1
  <2>. QED BY <1>1, <2>1 DEF Listed
<1>3. Flags(h, O \union {b})
  BY <1>1 DEF Flags
<1>. QED BY <1>1, <1>2, <1>3 DEF Open

\* Into the list of its class.
LEMMA InsertIs ==
    ASSUME NEW h, NEW O, Open(h, O), NEW b \in O, b \in h.free, Flag(h, b),
           After(h, b) \notin h.free \/ After(h, b) \in O \ {b},
           \A c \in h.free : After(h, c) = b => c \in O
    PROVE  LET g == BlockInsert(h, b)
           IN /\ Open(g, O \ {b}) /\ \A c \in Blocks(h) : After(g, c) = After(h, c)
              /\ g.size = h.size /\ g.headers = h.headers /\ g.free = h.free
              /\ g.prevFree = h.prevFree
              /\ g.prevPhys = h.prevPhys
<1> DEFINE c == MappingInsert(h.size[b])
           g == BlockInsert(h, b)
<1>1. h \in Heap /\ Chain(h) /\ O \subseteq Blocks(h) /\ Flags(h, O) /\ Listed(h, O)
      /\ b \in Blocks(h)
  BY DEF Open
<1>2. b \in Words /\ c \in Classes
  BY <1>1, AfterIs
<1>3. /\ h.lists \in [Classes -> Seq(Words)] /\ h.lists[c] \in Seq(Words) /\ IsInjective(h.lists[c])
      /\ ToSet(h.lists[c]) = {x \in h.free \ O : MappingInsert(h.size[x]) = c}
      /\ h.flBitmap = {x[1] : x \in h.slBitmap} /\ h.slBitmap \subseteq Classes
  BY <1>1, <1>2 DEF Listed, Heap
<1> HIDE DEF c
<1> DEFINE l == <<b>> \o h.lists[c]
<1>4. l \in Seq(Words) /\ IsInjective(l) /\ ToSet(l) = ToSet(h.lists[c]) \union {b} /\ l # <<>>
  <2>1. b \notin ToSet(h.lists[c])
    BY <1>3
  <2>2. l \in Seq(Words) /\ IsInjective(l) /\ ToSet(l) = ToSet(h.lists[c]) \union {b}
    BY <1>2, <1>3, <2>1, Linked
  <2> HIDE DEF l
  <2>. QED BY <2>2, Empty
<1> HIDE DEF l
<1>5. c[1] \in 0..(FLMax - SLLog2)
  BY <1>2 DEF Classes
<1>6. /\ g \in Heap /\ g.size = h.size /\ g.headers = h.headers /\ g.free = h.free
      /\ g.prevFree = h.prevFree
      /\ g.prevPhys = h.prevPhys /\ g.lists = [h.lists EXCEPT ![c] = l]
      /\ g.slBitmap = h.slBitmap \union {c} /\ g.flBitmap = h.flBitmap \union {c[1]}
  <2>1. g = [h EXCEPT !.lists[c] = l, !.slBitmap = @ \union {c}, !.flBitmap = @ \union {c[1]}]
    BY <1>1 DEF BlockInsert, c, l, Heap
  <2> HIDE DEF g
  <2>. QED BY <1>1, <1>2, <1>4, <1>5, <2>1 DEF Heap
<1> HIDE DEF g
<1>7. \A x : After(g, x) = After(h, x)
  BY <1>6 DEF After
<1>8. Blocks(g) = Blocks(h) /\ Chain(g)
  BY <1>1, <1>6, <1>7 DEF Blocks, Chain
<1>9. Listed(g, O \ {b})
  <2>1. ASSUME NEW d \in Classes
        PROVE  /\ d \in g.slBitmap <=> g.lists[d] # <<>>
               /\ IsInjective(g.lists[d])
               /\ ToSet(g.lists[d]) = {x \in g.free \ (O \ {b}) : MappingInsert(g.size[x]) = d}
    <3>1. CASE d = c
      <4>1. g.lists[d] = l /\ d \in g.slBitmap
        BY <1>2, <1>3, <1>6, <3>1
      <4>2. MappingInsert(h.size[b]) = c
        BY DEF c
      <4>. QED BY <1>3, <1>4, <1>6, <3>1, <4>1, <4>2
    <3>2. CASE d # c
      <4>1. g.lists[d] = h.lists[d] /\ (d \in g.slBitmap <=> d \in h.slBitmap)
        BY <1>3, <1>6, <3>2
      <4>2. MappingInsert(h.size[b]) # d
        BY <3>2 DEF c
      <4>3. /\ d \in h.slBitmap <=> h.lists[d] # <<>>
            /\ IsInjective(h.lists[d])
            /\ ToSet(h.lists[d]) = {x \in h.free \ O : MappingInsert(h.size[x]) = d}
        BY <1>1 DEF Listed
      <4>. QED BY <1>6, <4>1, <4>2, <4>3
    <3>. QED BY <3>1, <3>2
  <2>2. g.flBitmap = {x[1] : x \in g.slBitmap}
    BY <1>3, <1>6
  <2>. QED BY <2>1, <2>2 DEF Listed
<1>10. Flags(g, O \ {b})
  <2>1. \A x \in Blocks(h) : Flag(h, x) => Flag(g, x)
    BY <1>6, <1>7 DEF Flag
  <2>2. \A x \in Blocks(g) \ (O \ {b}) : Flag(g, x)
    BY <1>1, <1>8, <2>1 DEF Flags
  <2>3. ASSUME NEW x \in g.free, After(g, x) \in g.free
        PROVE x \in O \ {b} \/ After(g, x) \in O \ {b}
    <3>1. x \in h.free /\ After(h, x) \in h.free /\ (x \in O \/ After(h, x) \in O)
          /\ x \in Blocks(h)
      BY <1>1, <1>6, <1>7, <2>3 DEF Flags
    <3>2. CASE x = b
      BY <1>7, <3>1, <3>2
    <3>3. CASE After(h, x) = b
      <4>1. x # b
        BY <1>1, <3>3, AfterIs
      <4>. QED BY <3>1, <3>3, <4>1
    <3>. QED BY <1>7, <3>1, <3>2, <3>3
  <2>. QED BY <1>1, <1>6, <1>8, <2>2, <2>3 DEF Flags
<1>. QED BY <1>1, <1>6, <1>7, <1>8, <1>9, <1>10 DEF Open, g

\* Out of the list of its class.
LEMMA RemoveIs ==
    ASSUME NEW h, NEW O, Open(h, O), NEW b \in h.free \ O, NEW c, c = MappingInsert(h.size[b])
    PROVE  LET g == RemoveFree(h, b, c)
           IN /\ Open(g, O \union {b}) /\ \A x \in Blocks(h) : After(g, x) = After(h, x)
              /\ g.size = h.size /\ g.headers = h.headers /\ g.free = h.free
              /\ g.prevFree = h.prevFree
              /\ g.prevPhys = h.prevPhys
<1> DEFINE g == RemoveFree(h, b, c)
           l == RemoveFirst(h.lists[c], b)
           s == IF l = <<>> THEN h.slBitmap \ {c} ELSE h.slBitmap
           f == IF \E d \in s : d[1] = c[1] THEN h.flBitmap ELSE h.flBitmap \ {c[1]}
<1>1. h \in Heap /\ Chain(h) /\ O \subseteq Blocks(h) /\ Flags(h, O) /\ Listed(h, O)
      /\ b \in Blocks(h)
  BY DEF Open, Flags
<1>2. b \in Words /\ c \in Classes
  BY <1>1, AfterIs
<1>3. /\ h.lists \in [Classes -> Seq(Words)] /\ h.lists[c] \in Seq(Words) /\ IsInjective(h.lists[c])
      /\ ToSet(h.lists[c]) = {x \in h.free \ O : MappingInsert(h.size[x]) = c}
      /\ c \in h.slBitmap <=> h.lists[c] # <<>>
      /\ h.flBitmap = {x[1] : x \in h.slBitmap} /\ h.slBitmap \subseteq Classes
  BY <1>1, <1>2 DEF Listed, Heap
<1>4. b \in ToSet(h.lists[c])
  BY <1>3
<1>5. l \in Seq(Words) /\ IsInjective(l) /\ ToSet(l) = ToSet(h.lists[c]) \ {b}
  BY <1>3, <1>4, Unlinked
<1>6. g = [h EXCEPT !.lists[c] = l, !.slBitmap = s, !.flBitmap = f]
  BY <1>1 DEF RemoveFree, Heap
<1>7. s \subseteq h.slBitmap /\ f \subseteq h.flBitmap
  OBVIOUS
<1> HIDE DEF g, l
<1>8. /\ g \in Heap /\ g.size = h.size /\ g.headers = h.headers /\ g.free = h.free
      /\ g.prevFree = h.prevFree
      /\ g.prevPhys = h.prevPhys /\ g.lists = [h.lists EXCEPT ![c] = l] /\ g.slBitmap = s
      /\ g.flBitmap = f
  <2> HIDE DEF s, f
  <2>. QED BY <1>1, <1>2, <1>5, <1>6, <1>7 DEF Heap
<1>9. \A x : After(g, x) = After(h, x)
  BY <1>8 DEF After
<1>10. Blocks(g) = Blocks(h) /\ Chain(g)
  BY <1>1, <1>8, <1>9 DEF Blocks, Chain
<1>11. Listed(g, O \union {b})
  <2>1. ASSUME NEW d \in Classes
        PROVE  /\ d \in g.slBitmap <=> g.lists[d] # <<>>
               /\ IsInjective(g.lists[d])
               /\ ToSet(g.lists[d]) = {x \in g.free \ (O \union {b}) : MappingInsert(g.size[x]) = d}
    <3>1. CASE d = c
      <4>1. g.lists[d] = l
        BY <1>2, <1>3, <1>8, <3>1
      <4>2. h.lists[c] # <<>>
        BY <1>3, <1>4, Empty
      <4>3. d \in g.slBitmap <=> g.lists[d] # <<>>
        BY <1>3, <1>8, <3>1, <4>1, <4>2
      <4> HIDE DEF s
      <4>. QED BY <1>3, <1>5, <1>8, <3>1, <4>1, <4>3
    <3>2. CASE d # c
      <4>1. g.lists[d] = h.lists[d] /\ (d \in g.slBitmap <=> d \in h.slBitmap)
        BY <1>3, <1>8, <3>2
      <4>3. /\ d \in h.slBitmap <=> h.lists[d] # <<>>
            /\ IsInjective(h.lists[d])
            /\ ToSet(h.lists[d]) = {x \in h.free \ O : MappingInsert(h.size[x]) = d}
        BY <1>1 DEF Listed
      <4> HIDE DEF s
      <4>. QED BY <1>8, <3>2, <4>1, <4>3
    <3>. QED BY <3>1, <3>2
  <2>2. g.flBitmap = {x[1] : x \in g.slBitmap}
    <3>1. CASE l = <<>>
      BY <1>3, <1>8, <3>1
    <3>2. CASE l # <<>>
      <4>1. c \in s
        <5>1. h.lists[c] # <<>>
          BY <1>3, <1>4, Empty
        <5>. QED BY <1>3, <3>2, <5>1
      <4>2. f = h.flBitmap /\ s = h.slBitmap
        BY <3>2, <4>1
      <4>. QED BY <1>3, <1>8, <4>2
    <3>. QED BY <3>1, <3>2
  <2>. QED BY <2>1, <2>2 DEF Listed
<1>12. Flags(g, O \union {b})
  <2>1. \A x \in Blocks(h) : Flag(h, x) => Flag(g, x)
    BY <1>8, <1>9 DEF Flag
  <2> HIDE DEF s, f
  <2>. QED BY <1>1, <1>8, <1>9, <1>10, <2>1 DEF Flags
<1> HIDE DEF s, f
<1>13. Open(g, O \union {b})
  BY <1>1, <1>8, <1>10, <1>11, <1>12 DEF Open
<1>. QED BY <1>8, <1>9, <1>13 DEF g
-----------------------------------------------------------------------------
LEMMA SplitIs ==
    ASSUME NEW h, NEW O, Open(h, O), NEW b \in O, NEW n \in Nat, 3 <= n, CanSplit(h, b, n)
    PROVE  LET g == Split(h, b, n)
               r == Rest(b, n)
           IN /\ Open(g, O \union {r}) /\ Flag(g, r) /\ r \in g.free /\ r \notin h.headers
              /\ r \notin g.prevFree
              /\ r # b /\ r \in Words /\ r = b + 1 + n
              /\ After(g, b) = r /\ After(g, r) = After(h, b)
              /\ \A c \in Blocks(h) \ {b} : After(g, c) = After(h, c)
              /\ g.size[b] = n /\ g.size[r] = h.size[b] - (n + 1)
              /\ \A c \in Words \ {b, r} : g.size[c] = h.size[c]
              /\ g.headers = h.headers \union {r} /\ g.free = h.free \union {r}
              /\ g.prevFree = h.prevFree \union {After(h, b)}
              /\ g.prevPhys[After(h, b)] = r
              /\ \A w \in Words \ {After(h, b)} : g.prevPhys[w] = h.prevPhys[w]
<1> DEFINE r == Rest(b, n)
           k == [h EXCEPT !.size[b] = n, !.size[r] = h.size[b] - (n + 1), !.headers = @ \union {r}]
           g == Split(h, b, n)
<1>1. h \in Heap /\ Chain(h) /\ O \subseteq Blocks(h) /\ Flags(h, O) /\ Listed(h, O)
      /\ b \in Blocks(h)
  BY DEF Open
<1>2. /\ b \in 0..PoolSize /\ b \in Words /\ h.size[b] \in Nat /\ h.size[b] <= PoolSize
      /\ After(h, b) = b + 1 + h.size[b] /\ After(h, b) \in Words /\ After(h, b) \in h.headers
      /\ After(h, b) # 0
  BY <1>1, AfterIs
<1>3. /\ PoolSize \in Nat /\ Words = 0..(PoolSize + 1) /\ Sentinel = PoolSize + 1 /\ HeaderSize = 4
      /\ MinSize = 3
      /\ Words \subseteq Int
  <2>1. PoolSize \in Nat /\ Words = 0..(PoolSize + 1) /\ Sentinel = PoolSize + 1 /\ HeaderSize = 4
        /\ MinSize = 3
    BY Sizes
  <2>. QED BY <2>1
<1>4. n + 4 <= h.size[b]
  BY <1>2, <1>3 DEF CanSplit
<1>5. r = b + 1 + n /\ r \in Words /\ b < r /\ r < After(h, b) /\ r # b /\ r # Sentinel /\ r # 0
  <2>1. After(h, b) <= PoolSize + 1
    BY <1>2, <1>3
  <2>. QED BY <1>2, <1>3, <1>4, <2>1 DEF Rest
<1>6. r \notin h.headers
  BY <1>1, <1>2, <1>5 DEF Chain
<1>7. n \in 0..PoolSize /\ h.size[b] - (n + 1) \in 0..PoolSize /\ 3 <= h.size[b] - (n + 1)
  BY <1>2, <1>3, <1>4
<1> HIDE DEF r
<1>8. /\ k \in Heap /\ k.size = [h.size EXCEPT ![b] = n, ![r] = h.size[b] - (n + 1)]
      /\ k.headers = h.headers \union {r} /\ k.free = h.free /\ k.prevFree = h.prevFree
      /\ k.prevPhys = h.prevPhys
      /\ k.lists = h.lists /\ k.slBitmap = h.slBitmap /\ k.flBitmap = h.flBitmap
  BY <1>1, <1>2, <1>5, <1>7 DEF Heap
<1>9. g = MarkFree(k, r)
  BY DEF Split, r
<1> HIDE DEF k, g
<1>10. h.size \in [Words -> 0..PoolSize] /\ h.headers \subseteq Words /\ h.free \subseteq Words
  BY <1>1 DEF Heap
<1>11. k.size[b] = n /\ k.size[r] = h.size[b] - (n + 1)
       /\ \A c \in Words \ {b, r} : k.size[c] = h.size[c]
  BY <1>2, <1>5, <1>8, <1>10
<1>12. After(k, b) = r /\ After(k, r) = After(h, b)
       /\ \A c \in Words \ {b, r} : After(k, c) = After(h, c)
  <2>1. After(k, b) = b + 1 + n
    BY <1>11 DEF After
  <2>2. After(k, r) = r + 1 + (h.size[b] - (n + 1))
    BY <1>11 DEF After
  <2>3. r + 1 + (h.size[b] - (n + 1)) = b + 1 + h.size[b]
    BY <1>2, <1>5
  <2>. QED BY <1>2, <1>5, <1>11, <2>1, <2>2, <2>3 DEF After
<1>13. Blocks(k) = Blocks(h) \union {r} /\ Blocks(h) \subseteq Words /\ r \notin Blocks(h)
  BY <1>5, <1>6, <1>8, <1>10 DEF Blocks
<1>14. Chain(k)
  <2>1. 0 \in k.headers /\ Sentinel \in k.headers /\ k.size[Sentinel] = 0
    <3>1. Sentinel \in Words \ {b, r}
      BY <1>1, <1>3, <1>5 DEF Blocks
    <3>. QED BY <1>1, <1>8, <1>11, <3>1 DEF Chain
  <2>2. ASSUME NEW c \in Blocks(k)
        PROVE  /\ MinSize <= k.size[c] /\ After(k, c) \in k.headers
               /\ \A d \in k.headers : d <= c \/ After(k, c) <= d
    <3>1. CASE c = b
      <4>1. \A d \in h.headers : d <= b \/ After(h, b) <= d
        BY <1>1 DEF Chain
      <4>2. \A d \in h.headers : d <= b \/ r <= d
        <5> TAKE d \in h.headers
        <5>0. d \in Words /\ After(h, b) \in Words /\ r \in Words
          BY <1>2, <1>5, <1>10
        <5>1. d \in Int /\ After(h, b) \in Int /\ r \in Int
          BY <1>3, <5>0
        <5>. QED BY <1>5, <4>1, <5>1
      <4>. QED BY <1>3, <1>5, <1>8, <1>11, <1>12, <3>1, <4>2
    <3>2. CASE c = r
      <4>1. \A d \in h.headers : d <= b \/ After(h, b) <= d
        BY <1>1 DEF Chain
      <4>2. \A d \in h.headers : d <= r \/ After(h, b) <= d
        <5> TAKE d \in h.headers
        <5>0. d \in Words /\ b \in Words /\ r \in Words
          BY <1>2, <1>5, <1>10
        <5>1. d \in Int /\ b \in Int /\ r \in Int
          BY <1>3, <5>0
        <5>. QED BY <1>5, <4>1, <5>1
      <4>3. r <= r
        BY <1>3, <1>5
      <4>. QED BY <1>2, <1>3, <1>7, <1>8, <1>11, <1>12, <3>2, <4>2, <4>3
    <3>3. CASE c # b /\ c # r
      <4>1. c \in Blocks(h) /\ c \in h.headers /\ c \in Words \ {b, r}
        BY <1>13, <3>3 DEF Blocks
      <4>2. MinSize <= h.size[c] /\ After(h, c) \in h.headers
            /\ \A d \in h.headers : d <= c \/ After(h, c) <= d
        BY <1>1, <4>1 DEF Chain
      <4>3. r <= c \/ After(h, c) <= r
        <5>1. c <= b \/ After(h, b) <= c
          BY <1>1, <4>1 DEF Chain
        <5>2. b <= c \/ After(h, c) <= b
          BY <1>1, <4>2 DEF Blocks
        <5>3. c \in Int /\ b \in Int /\ r \in Int /\ After(h, b) \in Int /\ After(h, c) \in Int
          BY <1>2, <1>3, <1>5, <1>10, <4>1, <4>2
        <5>. QED BY <1>5, <3>3, <5>1, <5>2, <5>3
      <4>4. r <= c \/ After(k, c) <= r
        BY <1>12, <4>1, <4>3
      <4>5. r <= c \/ r = c \/ After(k, c) <= r
        BY <4>4
      <4>6. \A d \in k.headers : d <= c \/ After(k, c) <= d
        BY <1>8, <1>12, <4>1, <4>2, <4>4
      <4>. QED BY <1>8, <1>11, <1>12, <4>1, <4>2, <4>6
    <3>. QED BY <3>1, <3>2, <3>3
  <2>. QED BY <2>1, <2>2 DEF Chain
<1>15. Listed(k, O \union {r})
  <2>1. k.free \ (O \union {r}) = h.free \ O
    BY <1>1, <1>8, <1>13 DEF Flags
  <2>2. \A x \in h.free \ O : k.size[x] = h.size[x]
    BY <1>1, <1>11, <1>13 DEF Flags
  <2>3. \A d \in Classes : {x \in k.free \ (O \union {r}) : MappingInsert(k.size[x]) = d}
                              = {x \in h.free \ O : MappingInsert(h.size[x]) = d}
    BY <2>1, <2>2
  <2>. QED BY <1>1, <1>8, <2>3 DEF Listed
<1>16. Flags(k, O \union {r})
  <2>1. 0 \notin k.prevFree /\ k.free \subseteq Blocks(k) /\ k.prevFree \subseteq k.headers
    BY <1>1, <1>8, <1>13 DEF Flags
  <2>2. ASSUME NEW c \in Blocks(k) \ (O \union {r}) PROVE Flag(k, c)
    <3>1. c \in Blocks(h) \ O /\ c \in Words \ {b, r}
      BY <1>13
    <3>. QED BY <1>1, <1>8, <1>12, <3>1 DEF Flags, Flag
  <2>3. ASSUME NEW c \in k.free, After(k, c) \in k.free
        PROVE c \in O \union {r} \/ After(k, c) \in O \union {r}
    <3>1. c \in h.free /\ c \in Blocks(h)
      BY <1>1, <1>8 DEF Flags
    <3>2. CASE c # b
      BY <1>1, <1>8, <1>12, <1>13, <2>3, <3>1, <3>2 DEF Flags
    <3>. QED BY <3>2
  <2>. QED BY <2>1, <2>2, <2>3 DEF Flags
<1>17. Open(k, O \union {r})
  BY <1>1, <1>8, <1>13, <1>14, <1>15, <1>16 DEF Open
<1>18. /\ Open(g, O \union {r}) /\ Flag(g, r) /\ \A c \in Blocks(k) : After(g, c) = After(k, c)
       /\ g.size = k.size /\ g.headers = k.headers /\ g.free = k.free \union {r}
       /\ g.prevFree = k.prevFree \union {After(k, r)}
  BY <1>9, <1>17, Marked
<1>19. g.prevPhys[After(h, b)] = r /\ \A w \in Words \ {After(h, b)} : g.prevPhys[w] = h.prevPhys[w]
  <2>1. g.prevPhys = [h.prevPhys EXCEPT ![After(h, b)] = r]
    BY <1>8, <1>9, <1>12 DEF MarkFree, Heap
  <2>2. h.prevPhys \in [Words -> Words \union {Nowhere}]
    BY <1>1 DEF Heap
  <2>. QED BY <1>2, <2>1, <2>2
<1>20. r \notin g.prevFree
  BY <1>1, <1>5, <1>6, <1>8, <1>12, <1>18, Sizes DEF Flags
<1>21. \A c \in Blocks(h) \ {b} : After(g, c) = After(h, c)
  BY <1>12, <1>13, <1>18
<1>22. After(g, b) = r /\ After(g, r) = After(h, b)
  BY <1>1, <1>12, <1>13, <1>18
<1>. QED BY <1>5, <1>6, <1>8, <1>11, <1>12, <1>18, <1>19, <1>20, <1>21, <1>22 DEF g, r

LEMMA AbsorbIs ==
    ASSUME NEW h, NEW O, Open(h, O), NEW b \in O, NEW x \in O, x = After(h, b)
    PROVE  LET g == Absorb(h, b, x)
           IN /\ Open(g, O \ {x}) /\ After(g, b) = After(h, x)
              /\ \A c \in Blocks(g) \ {b} : After(g, c) = After(h, c)
              /\ g.size[b] = h.size[b] + h.size[x] + 1
              /\ \A c \in Words \ {b, x} : g.size[c] = h.size[c]
              /\ g.headers = h.headers \ {x} /\ g.free = h.free \ {x}
              /\ g.prevFree = h.prevFree \ {x}
              /\ g.prevPhys[After(h, x)] = b /\ b # x /\ x \in Words /\ After(h, x) # x
<1> DEFINE k == [h EXCEPT !.size[b] = @ + h.size[x] + 1, !.size[x] = 0, !.prevPhys[x] = Nowhere,
                          !.headers = @ \ {x}, !.free = @ \ {x}, !.prevFree = @ \ {x}]
           g == Absorb(h, b, x)
<1>1. h \in Heap /\ Chain(h) /\ O \subseteq Blocks(h) /\ Flags(h, O) /\ Listed(h, O)
      /\ b \in Blocks(h) /\ x \in Blocks(h)
  BY DEF Open
<1>2. /\ b \in 0..PoolSize /\ b \in Words /\ h.size[b] \in Nat /\ h.size[b] <= PoolSize
      /\ x = b + 1 + h.size[b] /\ x \in Words /\ x \in h.headers /\ b < x /\ x # 0
      /\ h.size[x] \in Nat /\ After(h, x) = x + 1 + h.size[x] /\ After(h, x) \in Words
      /\ After(h, x) \in h.headers
      /\ x < After(h, x) /\ After(h, x) <= Sentinel /\ 3 <= h.size[b]
  BY <1>1, AfterIs, Sizes
<1>3. /\ PoolSize \in Nat /\ Words = 0..(PoolSize + 1) /\ Sentinel = PoolSize + 1 /\ HeaderSize = 4
      /\ MinSize = 3
      /\ Words \subseteq Int
  <2>1. PoolSize \in Nat /\ Words = 0..(PoolSize + 1) /\ Sentinel = PoolSize + 1 /\ HeaderSize = 4
        /\ MinSize = 3
    BY Sizes
  <2>. QED BY <2>1
<1>4. h.size[b] + h.size[x] + 1 \in 0..PoolSize /\ 0 \in 0..PoolSize
  <2>1. PoolSize \in Nat /\ b \in Nat
    BY <1>2, <1>3
  <2>2. x + 1 + h.size[x] <= PoolSize + 1 /\ x = b + 1 + h.size[b] /\ h.size[b] \in Nat
        /\ h.size[x] \in Nat
    BY ONLY <1>2, <1>3
  <2>. QED BY ONLY <2>1, <2>2
<1>5. /\ k \in Heap /\ k.size = [h.size EXCEPT ![b] = h.size[b] + h.size[x] + 1, ![x] = 0]
      /\ k.headers = h.headers \ {x} /\ k.free = h.free \ {x} /\ k.prevFree = h.prevFree \ {x}
      /\ k.prevPhys = [h.prevPhys EXCEPT ![x] = Nowhere]
      /\ k.lists = h.lists /\ k.slBitmap = h.slBitmap /\ k.flBitmap = h.flBitmap
  <2>1. b # x
    BY <1>2, <1>3
  <2>. QED BY <1>1, <1>2, <1>4, <2>1 DEF Heap
<1>6. g = LinkNext(k, b)
  BY DEF Absorb
<1> HIDE DEF k, g
<1>7. h.size \in [Words -> 0..PoolSize] /\ h.headers \subseteq Words /\ h.free \subseteq Words
      /\ h.prevPhys \in [Words -> Words \union {Nowhere}]
  BY <1>1 DEF Heap
<1>8. b # x /\ k.size[b] = h.size[b] + h.size[x] + 1
      /\ \A c \in Words \ {b, x} : k.size[c] = h.size[c]
  <2>1. b # x
    BY <1>2
  <2> HIDE DEF Words
  <2>. QED BY <1>2, <1>5, <1>7, <2>1
<1>9. After(k, b) = After(h, x) /\ \A c \in Words \ {b, x} : After(k, c) = After(h, c)
  <2>1. After(k, b) = b + 1 + (h.size[b] + h.size[x] + 1)
    BY <1>8 DEF After
  <2>2. b + 1 + (h.size[b] + h.size[x] + 1) = x + 1 + h.size[x]
    BY <1>2
  <2>. QED BY <1>2, <1>8, <2>1, <2>2 DEF After
<1>10. Blocks(k) = Blocks(h) \ {x} /\ Blocks(h) \subseteq Words
  BY <1>5, <1>7 DEF Blocks
<1>11. \A c \in Blocks(h) : c # b => After(h, c) # x
  BY <1>1, AfterOnce
<1>12. Chain(k)
  <2>1. 0 \in k.headers /\ Sentinel \in k.headers /\ k.size[Sentinel] = 0
    <3>1. Sentinel \in Words \ {b, x}
      BY <1>1, <1>3 DEF Blocks
    <3>. QED BY <1>1, <1>2, <1>5, <1>8, <3>1 DEF Chain
  <2>2. ASSUME NEW c \in Blocks(k)
        PROVE  /\ MinSize <= k.size[c] /\ After(k, c) \in k.headers
               /\ \A d \in k.headers : d <= c \/ After(k, c) <= d
    <3>1. CASE c = b
      <4>1. \A d \in h.headers : (d <= b \/ x <= d) /\ (d <= x \/ After(h, x) <= d)
        BY <1>1 DEF Chain
      <4>2. \A d \in k.headers : d <= b \/ After(h, x) <= d
        <5> TAKE d \in k.headers
        <5>1. d \in h.headers /\ d # x
          BY <1>5
        <5>2. d \in Words /\ After(h, x) \in Words /\ x \in Words /\ b \in Words
          BY <1>2, <1>7, <5>1
        <5>3. d \in Int /\ After(h, x) \in Int /\ x \in Int /\ b \in Int
          BY <1>3, <5>2
        <5>. QED BY <1>2, <4>1, <5>1, <5>3
      <4>3. After(h, x) \in k.headers
        BY <1>2, <1>3, <1>5
      <4>4. MinSize <= k.size[b]
        BY <1>2, <1>3, <1>8
      <4>. QED BY <1>9, <3>1, <4>2, <4>3, <4>4
    <3>2. CASE c # b
      <4>1. c \in Blocks(h) /\ c # x /\ c \in Words \ {b, x}
        BY <1>10, <3>2
      <4>2. MinSize <= h.size[c] /\ After(h, c) \in h.headers
            /\ \A d \in h.headers : d <= c \/ After(h, c) <= d
        BY <1>1, <4>1 DEF Chain
      <4>. QED BY <1>5, <1>8, <1>9, <1>11, <3>2, <4>1, <4>2
    <3>. QED BY <3>1, <3>2
  <2>. QED BY <2>1, <2>2 DEF Chain
<1>13. Listed(k, O \ {x})
  <2>1. k.free \ (O \ {x}) = h.free \ O
    BY <1>5
  <2>2. \A y \in h.free \ O : k.size[y] = h.size[y]
    BY <1>7, <1>8
  <2>3. \A d \in Classes : {y \in k.free \ (O \ {x}) : MappingInsert(k.size[y]) = d}
                              = {y \in h.free \ O : MappingInsert(h.size[y]) = d}
    BY <2>1, <2>2
  <2>. QED BY <1>1, <1>5, <2>3 DEF Listed
<1>14. Flags(k, O \ {x})
  <2>1. 0 \notin k.prevFree /\ k.free \subseteq Blocks(k) /\ k.prevFree \subseteq k.headers
    BY <1>1, <1>5, <1>10 DEF Flags
  <2>2. ASSUME NEW c \in Blocks(k) \ (O \ {x}) PROVE Flag(k, c)
    <3>1. c \in Blocks(h) \ O /\ c \in Words \ {b, x} /\ After(h, c) # x /\ Flag(h, c)
          /\ After(h, c) \in Words
      BY <1>1, <1>10, <1>11, AfterIs DEF Flags
    <3>2. k.prevPhys[After(h, c)] = h.prevPhys[After(h, c)]
      BY <1>5, <1>7, <3>1
    <3>. QED BY <1>5, <1>9, <3>1, <3>2 DEF Flag
  <2>3. ASSUME NEW c \in k.free, After(k, c) \in k.free
        PROVE c \in O \ {x} \/ After(k, c) \in O \ {x}
    <3>1. c \in h.free /\ c \in Blocks(h) /\ c # x
      BY <1>1, <1>5 DEF Flags
    <3>2. CASE c # b
      <4>1. c \in Words \ {b, x} /\ After(k, c) = After(h, c)
        BY <1>9, <1>10, <3>1, <3>2
      <4>. QED BY <1>1, <1>5, <2>3, <3>1, <4>1 DEF Flags
    <3>. QED BY <1>8, <3>2
  <2>. QED BY <2>1, <2>2, <2>3 DEF Flags
<1>15. Open(k, O \ {x}) /\ b \in O \ {x}
  BY <1>1, <1>5, <1>8, <1>10, <1>12, <1>13, <1>14 DEF Open
<1>16. /\ Open(g, O \ {x}) /\ \A c \in Blocks(k) : After(g, c) = After(k, c)
       /\ g.size = k.size /\ g.headers = k.headers /\ g.free = k.free /\ g.prevFree = k.prevFree
       /\ g.prevPhys[After(k, b)] = b
  BY <1>6, <1>15, LinkIs
<1>17. Blocks(g) = Blocks(k)
  BY <1>16 DEF Blocks
<1>18. g.prevPhys[After(h, x)] = b
  BY <1>9, <1>16
<1>19. After(g, b) = After(h, x) /\ \A c \in Blocks(g) \ {b} : After(g, c) = After(h, c)
  BY <1>1, <1>8, <1>9, <1>10, <1>16, <1>17
<1>20. After(h, x) # x
  BY <1>2, <1>3
<1>. QED BY <1>2, <1>5, <1>8, <1>16, <1>18, <1>19, <1>20 DEF g
-----------------------------------------------------------------------------
(***************************************************************************)
(* Merging and trimming.                                                   *)
(***************************************************************************)
LEMMA NotBefore ==
    ASSUME NEW h, NEW O, Open(h, O), NEW b, b \notin h.prevFree, NEW c \in h.free, After(h, c) = b
    PROVE  c \in O
  BY DEF Open, Flags, Flag

LEMMA MergeNextIs ==
    ASSUME NEW h, NEW b, Open(h, {b})
    PROVE  LET g == MergeNext(h, b)
               x == After(h, b)
           IN /\ Open(g, {b}) /\ b \in Blocks(g) /\ After(g, b) \notin g.free
              /\ (b \in g.free <=> b \in h.free)
              /\ (b \in h.free /\ Flag(h, b) => Flag(g, b)) /\ g.prevFree \subseteq h.prevFree
              /\ g.size[b] = IF x \in h.free THEN h.size[b] + h.size[x] + 1 ELSE h.size[b]
              /\ (x \notin h.free => g = h) /\ Same(h, g, b)
<1> DEFINE x == After(h, b)
           g == MergeNext(h, b)
<1>1. h \in Heap /\ Chain(h) /\ Flags(h, {b}) /\ b \in Blocks(h)
  BY DEF Open
<1>2. CASE x \notin h.free
  <2>1. g = h
    BY <1>2 DEF MergeNext
  <2>. QED BY <1>1, <1>2, <2>1 DEF Same
<1>3. CASE x \in h.free
  <2> DEFINE k == BlockRemove(h, x)
  <2>0. x # b /\ x \in Blocks(h)
    BY <1>1, <1>3, AfterIs DEF Flags
  <2>1. /\ Open(k, {b} \union {x}) /\ \A y \in Blocks(h) : After(k, y) = After(h, y)
        /\ k.size = h.size /\ k.headers = h.headers /\ k.free = h.free /\ k.prevFree = h.prevFree
        /\ k.prevPhys = h.prevPhys
    BY <1>3, <2>0, RemoveIs DEF BlockRemove
  <2>2. g = Absorb(k, b, x) /\ x = After(k, b)
    BY <1>1, <1>3, <2>1 DEF MergeNext
  <2> HIDE DEF k, g
  <2>3. /\ Open(g, ({b} \union {x}) \ {x}) /\ After(g, b) = After(k, x)
        /\ \A c \in Blocks(g) \ {b} : After(g, c) = After(k, c)
        /\ g.size[b] = k.size[b] + k.size[x] + 1 /\ \A c \in Words \ {b, x} : g.size[c] = k.size[c]
        /\ g.headers = k.headers \ {x} /\ g.free = k.free \ {x} /\ g.prevFree = k.prevFree \ {x}
        /\ g.prevPhys[After(k, x)] = b /\ After(k, x) # x
    BY <2>1, <2>2, AbsorbIs
  <2>4. Open(g, {b})
    <3>1. ({b} \union {x}) \ {x} = {b}
      BY <2>0
    <3>. QED BY <2>3, <3>1
  <2>5. After(k, x) = After(h, x) /\ After(h, x) \notin h.free /\ After(h, x) \in h.prevFree
    <3>1. After(h, x) # b
      <4>1. b < x /\ x < After(h, x) /\ b \in Int /\ x \in Int /\ After(h, x) \in Int
        BY <1>1, <2>0, AfterIs, Sizes
      <4>. QED BY <4>1
    <3>. QED BY <1>1, <1>3, <2>0, <2>1, <3>1 DEF Flags, Flag
  <2>6. h.size \in [Words -> 0..PoolSize] /\ b \in Words /\ x \in Words /\ Blocks(h) \subseteq Words
    BY <1>1, <2>0 DEF Heap, Blocks
  <2>7. g.size[b] = h.size[b] + h.size[x] + 1 /\ \A c \in Words \ {b, x} : g.size[c] = h.size[c]
    BY <2>0, <2>1, <2>3, <2>6
  <2>8. Same(h, g, b)
    BY <1>3, <2>1, <2>3, <2>6, <2>7 DEF Same, Used, Blocks
  <2>9. b \in h.free /\ Flag(h, b) => Flag(g, b)
    BY <2>0, <2>1, <2>3, <2>5 DEF Flag
  <2>10. b \in Blocks(g) /\ (b \in g.free <=> b \in h.free) /\ After(g, b) \notin g.free
         /\ g.prevFree \subseteq h.prevFree
    BY <1>1, <2>0, <2>1, <2>3, <2>5 DEF Blocks
  <2>. QED BY <1>3, <2>4, <2>7, <2>8, <2>9, <2>10 DEF g
<1>. QED BY <1>2, <1>3

LEMMA MergePrevIs ==
    ASSUME NEW h, NEW b, Open(h, {b}), b \in h.free, Flag(h, b)
    PROVE  LET g == MergePrev(h, b).heap
               p == MergePrev(h, b).block
           IN Open(g, {p}) /\ p \in g.free /\ Flag(g, p) /\ p \notin g.prevFree /\ Same(h, g, b)
<1> DEFINE g == MergePrev(h, b).heap
           p == MergePrev(h, b).block
<1>1. h \in Heap /\ Chain(h) /\ Flags(h, {b}) /\ b \in Blocks(h)
  BY DEF Open
<1>2. CASE b \notin h.prevFree
  <2>1. g = h /\ p = b
    BY <1>2 DEF MergePrev
  <2>. QED BY <1>2, <2>1 DEF Same
<1>3. CASE b \in h.prevFree
  <2> DEFINE q == h.prevPhys[b]
             k == BlockRemove(h, q)
  <2>1. PICK c \in Blocks(h) : After(h, c) = b /\ c < b
        /\ (c \notin {b} => c \in h.free /\ h.prevPhys[b] = c)
    BY <1>3, FreeBefore
  <2>2. q \in Blocks(h) /\ After(h, q) = b /\ q # b /\ q \in h.free
    <3>1. c # b
      BY <1>1, <2>1, AfterIs
    <3>. QED BY <2>1, <3>1
  <2>3. g = Absorb(k, q, b) /\ p = q
    BY <1>3 DEF MergePrev
  <2> HIDE DEF g, p, q
  <2>4. /\ Open(k, {b} \union {q}) /\ \A y \in Blocks(h) : After(k, y) = After(h, y)
        /\ k.size = h.size /\ k.headers = h.headers /\ k.free = h.free /\ k.prevFree = h.prevFree
        /\ k.prevPhys = h.prevPhys
    <3>1. q \in h.free \ {b} /\ k = RemoveFree(h, q, MappingInsert(h.size[q]))
      BY <2>2 DEF BlockRemove
    <3> HIDE DEF k
    <3>. QED BY <3>1, RemoveIs
  <2> HIDE DEF k
  <2>5. b = After(k, q)
    BY <2>2, <2>4
  <2>6. /\ Open(g, ({b} \union {q}) \ {b}) /\ After(g, q) = After(k, b)
        /\ \A y \in Blocks(g) \ {q} : After(g, y) = After(k, y)
        /\ g.size[q] = k.size[q] + k.size[b] + 1 /\ \A y \in Words \ {b, q} : g.size[y] = k.size[y]
        /\ g.headers = k.headers \ {b} /\ g.free = k.free \ {b} /\ g.prevFree = k.prevFree \ {b}
        /\ g.prevPhys[After(k, b)] = q /\ After(k, b) # b
    BY <2>3, <2>4, <2>5, AbsorbIs
  <2>7. Open(g, {q})
    <3>1. ({b} \union {q}) \ {b} = {q}
      BY <2>2
    <3>. QED BY <2>6, <3>1
  <2>8. After(k, b) = After(h, b) /\ After(h, b) \in h.prevFree
    BY <1>1, <2>4 DEF Flag
  <2>9. q \in g.free /\ Flag(g, q)
    BY <2>2, <2>4, <2>6, <2>8 DEF Flag
  <2>10. q \notin g.prevFree
    <3>1. ASSUME q \in h.prevFree PROVE FALSE
      <4>1. PICK y \in Blocks(h) : After(h, y) = q /\ y < q
            /\ (y \notin {b} => y \in h.free /\ h.prevPhys[q] = y)
        BY <3>1, FreeBefore
      <4>2. y # b
        <5>1. q < b /\ y < q /\ q \in Int /\ b \in Int /\ y \in Int
          BY <1>1, <2>1, <2>2, <4>1, AfterIs, AfterOnce
        <5>. QED BY <5>1
      <4>3. y \in h.free
        BY <4>1, <4>2
      <4>. QED BY <1>1, <2>2, <4>1, <4>2, <4>3 DEF Flags
    <3>. QED BY <2>4, <2>6, <3>1
  <2>11. h.size \in [Words -> 0..PoolSize] /\ b \in Words /\ q \in Words
         /\ Blocks(h) \subseteq Words
    BY <1>1, <2>2 DEF Heap, Blocks
  <2>12. \A y \in Words \ {b, q} : g.size[y] = h.size[y]
    BY <2>4, <2>6, <2>11
  <2>13. Same(h, g, b)
    BY <2>2, <2>4, <2>6, <2>11, <2>12 DEF Same, Used, Blocks
  <2>. QED BY <2>3, <2>7, <2>9, <2>10, <2>13 DEF g, p
<1>. QED BY <1>2, <1>3

LEMMA ReleaseIs ==
    ASSUME NEW h, Open(h, {}), NEW b \in Used(h)
    PROVE  Open(Release(h, b), {}) /\ Same(h, Release(h, b), b)
<1> DEFINE m == MarkFree(h, b)
           g == MergePrev(m, b).heap
           p == MergePrev(m, b).block
           k == MergeNext(g, p)
           e == BlockInsert(k, p)
<1>0. Release(h, b) = e
  BY DEF Release
<1>1. Open(h, {b}) /\ b \in Blocks(h) /\ b \notin h.free
  <2>1. Open(h, {} \union {b})
    BY Opened
  <2>2. {} \union {b} = {b}
    OBVIOUS
  <2>. QED BY <2>1, <2>2 DEF Used
<1>2. /\ Open(m, {b}) /\ Flag(m, b) /\ m.size = h.size /\ m.headers = h.headers
      /\ m.free = h.free \union {b}
  BY <1>1, Marked
<1> HIDE DEF m
<1>3. Open(g, {p}) /\ p \in g.free /\ Flag(g, p) /\ p \notin g.prevFree /\ Same(m, g, b)
  BY <1>2, MergePrevIs
<1> HIDE DEF g, p
<1>4. /\ Open(k, {p}) /\ p \in Blocks(k) /\ After(k, p) \notin k.free /\ p \in k.free
      /\ Flag(k, p) /\ k.prevFree \subseteq g.prevFree /\ Same(g, k, p)
  BY <1>3, MergeNextIs
<1> HIDE DEF k
<1>5. \A c \in k.free : After(k, c) = p => c \in {p}
  BY <1>3, <1>4, NotBefore
<1>6. /\ Open(e, {p} \ {p}) /\ e.size = k.size /\ e.headers = k.headers /\ e.free = k.free
  BY <1>4, <1>5, InsertIs
<1> HIDE DEF e
<1>7. Open(e, {})
  <2>1. {p} \ {p} = {}
    OBVIOUS
  <2>. QED BY <1>6, <2>1
<1>8. Same(h, e, b)
  <2>1. Same(h, m, b)
    BY <1>2 DEF Same, Used, Blocks
  <2>2. Same(g, k, b)
    BY <1>3, <1>4 DEF Same, Used
  <2>3. Same(k, e, b)
    BY <1>6 DEF Same, Used, Blocks
  <2>. QED BY <1>3, <2>1, <2>2, <2>3, SameTwice
<1>. QED BY <1>0, <1>7, <1>8
-----------------------------------------------------------------------------
\* A block is cut in two: the heaps before and after, and where the second part is.
Cut(h, s, O, b, n, r) ==
    /\ Open(s, O) /\ Flag(s, r) /\ r \in s.free /\ r \notin h.headers /\ r \notin s.prevFree
    /\ r # b /\ r \in Words /\ r = b + 1 + n
    /\ After(s, b) = r /\ After(s, r) = After(h, b)
    /\ s.size[b] = n /\ s.size[r] = h.size[b] - (n + 1)
    /\ \A c \in Words \ {b, r} : s.size[c] = h.size[c]
    /\ s.headers = h.headers \union {r} /\ s.free = h.free \union {r}
    /\ s.prevFree = h.prevFree \union {After(h, b)}
    /\ s.prevPhys[After(h, b)] = r
    /\ \A w \in Words \ {After(h, b)} : s.prevPhys[w] = h.prevPhys[w]

LEMMA SplitCut ==
    ASSUME NEW h, NEW O, Open(h, O), NEW b \in O, NEW n \in Nat, 3 <= n, CanSplit(h, b, n)
    PROVE  Cut(h, Split(h, b, n), O \union {Rest(b, n)}, b, n, Rest(b, n))
  BY SplitIs DEF Cut

LEMMA SplitHere ==
    ASSUME NEW h, NEW b, Open(h, {b}), NEW n \in Nat, 3 <= n, CanSplit(h, b, n),
           NEW s, s = Split(h, b, n), NEW r, r = Rest(b, n), NEW O, O = {b} \union {r}
    PROVE  /\ Cut(h, s, O, b, n, r)
           /\ b \in O /\ r \in O /\ O \ {r} = {b} /\ O \ {b} = {r} /\ \A c \in O : c = b \/ c = r
           /\ b \in Blocks(s) /\ r \in Blocks(s)
<1> DEFINE P == {b}
<1>0. O = P \union {r}
  OBVIOUS
<1>1. Open(h, P) /\ b \in P
  OBVIOUS
<1> HIDE DEF P
<1>2. Cut(h, s, O, b, n, r)
  BY <1>0, <1>1, SplitCut
<1>3. Open(s, O) /\ r # b
  BY <1>2 DEF Cut
<1>4. b \in O /\ r \in O /\ O \ {r} = {b} /\ O \ {b} = {r} /\ \A c \in O : c = b \/ c = r
  BY <1>3
<1>5. b \in Blocks(s) /\ r \in Blocks(s)
  BY <1>3, <1>4 DEF Open
<1>. QED BY <1>2, <1>4, <1>5

\* What is cut off behind a block that is about to be used.
LEMMA TrimFreeIs ==
    ASSUME NEW h, NEW b, Open(h, {b}), b \in h.free, Flag(h, b), After(h, b) \notin h.free,
           NEW n \in Nat, 3 <= n, n <= h.size[b]
    PROVE  LET g == TrimFree(h, b, n)
           IN Open(g, {b}) /\ b \in g.free /\ n <= g.size[b] /\ Same(h, g, b)
<1> DEFINE g == TrimFree(h, b, n)
           r == Rest(b, n)
           s == Split(h, b, n)
           l == LinkNext(s, b)
           t == FlagSet(l, r)
           O == {b} \union {r}
<1>1. h \in Heap /\ Chain(h) /\ Flags(h, {b}) /\ b \in Blocks(h)
  BY DEF Open
<1>2. CASE ~CanSplit(h, b, n)
  <2>1. g = h
    BY <1>2 DEF TrimFree
  <2>. QED BY <2>1 DEF Same
<1>3. CASE CanSplit(h, b, n)
  <2>0. g = BlockInsert(t, r)
    BY <1>3 DEF TrimFree, FlagSet
  <2>1. /\ Open(s, O) /\ Flag(s, r) /\ r \in s.free /\ r \notin h.headers /\ r \notin s.prevFree
        /\ r # b
        /\ r \in Words /\ After(s, b) = r /\ After(s, r) = After(h, b)
        /\ s.size[b] = n /\ s.size[r] = h.size[b] - (n + 1)
        /\ \A c \in Words \ {b, r} : s.size[c] = h.size[c]
        /\ s.headers = h.headers \union {r} /\ s.free = h.free \union {r}
        /\ s.prevFree = h.prevFree \union {After(h, b)}
        /\ s.prevPhys[After(h, b)] = r
        /\ b \in O /\ r \in O /\ O \ {r} = {b} /\ (\A c \in O : c = b \/ c = r)
        /\ b \in Blocks(s) /\ r \in Blocks(s)
    <3>1. s = Split(h, b, n) /\ r = Rest(b, n) /\ O = {b} \union {r}
      OBVIOUS
    <3> HIDE DEF s, r, O
    <3>. QED BY <1>3, <3>1, SplitHere DEF Cut
  <2> HIDE DEF s, O
  <2>2. /\ Open(l, O) /\ \A c \in Blocks(s) : After(l, c) = After(s, c)
        /\ l.size = s.size /\ l.headers = s.headers /\ l.free = s.free /\ l.prevFree = s.prevFree
        /\ l.prevPhys[After(s, b)] = b
        /\ \A w \in Words \ {After(s, b)} : l.prevPhys[w] = s.prevPhys[w]
    BY <2>1, LinkIs
  <2> HIDE DEF l
  <2>3. b \in Blocks(s) /\ r \in Blocks(s) /\ Blocks(l) = Blocks(s)
    BY <2>1, <2>2 DEF Open, Blocks
  <2>4. r = After(l, b)
    BY <2>1, <2>2, <2>3
  <2>5. /\ Open(t, O) /\ (\A c \in Blocks(l) : After(t, c) = After(l, c))
        /\ t.prevFree = l.prevFree \union {r}
        /\ t.size = l.size /\ t.headers = l.headers /\ t.free = l.free /\ t.prevPhys = l.prevPhys
    <3>1. Open(l, O) /\ b \in O /\ r = After(l, b)
      BY <2>1, <2>2, <2>4
    <3>. QED BY ONLY <3>1, Reflagged DEF t
  <2> HIDE DEF t, r
  <2>6. After(t, r) = After(h, b) /\ After(t, b) = r
    BY <2>1, <2>2, <2>3, <2>4, <2>5
  <2>7. After(h, b) \in h.headers /\ After(h, b) # r /\ After(h, b) \in Words
    BY <1>1, <2>1, AfterIs
  <2>8. h.prevPhys \in [Words -> Words \union {Nowhere}] /\ h.size \in [Words -> 0..PoolSize]
        /\ b \in Words
        /\ Blocks(h) \subseteq Words
    BY <1>1 DEF Heap, Blocks
  <2>9. Flag(t, r)
    BY <2>1, <2>2, <2>5, <2>6, <2>7, <2>8 DEF Flag
  <2>10. After(t, r) \notin t.free
    BY <2>1, <2>2, <2>5, <2>6, <2>7
  <2>11. \A c \in t.free : After(t, c) = r => c \in O
    <3>1. t.free \subseteq Blocks(t) /\ b \in Blocks(t) /\ t \in Heap /\ Chain(t)
      BY <2>1, <2>5 DEF Open, Flags
    <3>2. \A c \in t.free : After(t, c) = r => c = b
      BY <2>6, <3>1, AfterOnce
    <3>. QED BY <2>1, <3>2
  <2>12. /\ Open(g, O \ {r}) /\ \A c \in Blocks(t) : After(g, c) = After(t, c)
         /\ g.size = t.size /\ g.headers = t.headers /\ g.free = t.free
    BY <2>0, <2>1, <2>2, <2>5, <2>9, <2>10, <2>11, InsertIs
  <2> HIDE DEF g
  <2>13. Open(g, {b})
    <3>. QED BY <2>1, <2>12
  <2>14. g.size = s.size /\ g.free = h.free \union {r} /\ g.headers = h.headers \union {r}
    BY <2>1, <2>2, <2>5, <2>12
  <2>15. g.size[b] = n /\ \A c \in Words \ {b, r} : g.size[c] = h.size[c]
    BY <2>1, <2>14
  <2>16. Same(h, g, b)
    BY <2>1, <2>8, <2>14, <2>15 DEF Same, Used, Blocks
  <2>. QED BY <2>13, <2>14, <2>15, <2>16 DEF g
<1>. QED BY <1>2, <1>3

\* What is cut off behind a block that stays used.
LEMMA TrimUsedIs ==
    ASSUME NEW h, Open(h, {}), NEW b \in Used(h), NEW n \in Nat, 3 <= n, n <= h.size[b]
    PROVE  LET g == TrimUsed(h, b, n)
           IN Open(g, {}) /\ b \in Used(g) /\ n <= g.size[b] /\ Same(h, g, b)
<1> DEFINE g == TrimUsed(h, b, n)
           r == Rest(b, n)
           s == Split(h, b, n)
           t == FlagCleared(s, r)
           u == MergeNext(t, r)
           O == {b} \union {r}
<1>1. h \in Heap /\ Chain(h) /\ b \in Blocks(h) /\ b \notin h.free
  BY DEF Open, Used
<1>2. CASE ~CanSplit(h, b, n)
  <2>1. g = h
    BY <1>2 DEF TrimUsed
  <2>. QED BY <2>1 DEF Same
<1>3. CASE CanSplit(h, b, n)
  <2>0. g = BlockInsert(u, r)
    BY <1>3 DEF TrimUsed, FlagCleared
  <2>1. /\ Open(s, O) /\ Flag(s, r) /\ r \in s.free /\ r \notin h.headers /\ r # b
        /\ r \in Words /\ After(s, b) = r /\ After(s, r) = After(h, b)
        /\ s.size[b] = n /\ s.size[r] = h.size[b] - (n + 1)
        /\ \A c \in Words \ {b, r} : s.size[c] = h.size[c]
        /\ s.headers = h.headers \union {r} /\ s.free = h.free \union {r}
        /\ b \in O /\ r \in O /\ O \ {b} = {r} /\ b \in Blocks(s) /\ r \in Blocks(s)
    <3>1. Open(h, {} \union {b})
      BY Opened
    <3>2. {} \union {b} = {b}
      OBVIOUS
    <3>3. Open(h, {b})
      BY <3>1, <3>2
    <3>4. s = Split(h, b, n) /\ r = Rest(b, n) /\ O = {b} \union {r}
      OBVIOUS
    <3> HIDE DEF s, r, O, t, u, g
    <3>5. n \in Nat /\ 3 <= n /\ CanSplit(h, b, n) /\ Open(h, {b})
      BY <1>3, <3>3
    <3>6. Cut(h, s, O, b, n, r)
      BY ONLY <3>4, <3>5, SplitHere
    <3>7. b \in O /\ r \in O /\ O \ {b} = {r} /\ b \in Blocks(s) /\ r \in Blocks(s)
      BY ONLY <3>4, <3>6 DEF Cut, Open
    <3>. QED BY ONLY <3>6, <3>7 DEF Cut
  <2> HIDE DEF s, O
  <2>2. b \in Blocks(s) /\ r \in Blocks(s)
    BY <2>1 DEF Open
  <2>3. /\ Open(t, O) /\ (\A c \in Blocks(s) : After(t, c) = After(s, c))
        /\ t.prevFree = s.prevFree \ {r}
        /\ t.size = s.size /\ t.headers = s.headers /\ t.free = s.free /\ t.prevPhys = s.prevPhys
    <3>1. r = After(s, b) /\ b \in O /\ Open(s, O)
      BY <2>1
    <3>. QED BY ONLY <3>1, Reflagged DEF t
  <2> HIDE DEF t, r
  <2>4. After(t, r) = After(h, b) /\ After(t, b) = r /\ After(h, b) # r
    BY <1>1, <2>1, <2>2, <2>3, AfterIs
  <2>5. Flag(t, r) /\ Flag(t, b) /\ b \notin t.free
    BY <1>1, <2>1, <2>3, <2>4 DEF Flag
  <2>6. Open(t, {r})
    <3>1. Open(t, O \ {b})
      BY <2>1, <2>3, <2>5, Closed
    <3>. QED BY <2>1, <3>1
  <2>7. /\ Open(u, {r}) /\ r \in Blocks(u) /\ After(u, r) \notin u.free /\ r \in u.free
        /\ Flag(u, r) /\ u.prevFree \subseteq t.prevFree /\ Same(t, u, r)
    <3>1. r \in t.free
      BY <2>1, <2>3
    <3> HIDE DEF g
    <3>. QED BY <2>5, <2>6, <3>1, MergeNextIs
  <2> HIDE DEF u
  <2>8. r \notin u.prevFree
    BY <2>3, <2>7
  <2>9. \A c \in u.free : After(u, c) = r => c \in {r}
    BY <2>7, <2>8, NotBefore
  <2>10. Open(g, {r} \ {r}) /\ g.size = u.size /\ g.headers = u.headers /\ g.free = u.free
    BY <2>0, <2>7, <2>9, InsertIs
  <2> HIDE DEF g
  <2>11. Open(g, {})
    <3>1. {r} \ {r} = {}
      OBVIOUS
    <3>. QED BY <2>10, <3>1
  <2>12. h.size \in [Words -> 0..PoolSize] /\ b \in Words /\ Blocks(h) \subseteq Words
    BY <1>1 DEF Heap, Blocks
  <2>13. t.size[b] = n /\ \A c \in Words \ {b, r} : t.size[c] = h.size[c]
    BY <2>1, <2>3, <2>12
  <2>14. Same(h, t, b)
    BY <2>1, <2>3, <2>12, <2>13 DEF Same, Used, Blocks
  <2>15. Same(t, g, r) /\ r \notin Used(t)
    BY <2>1, <2>3, <2>7, <2>10 DEF Same, Used, Blocks
  <2>16. b \in Used(t)
    BY <2>2, <2>3, <2>5 DEF Used, Blocks
  <2>17. b \in Used(g) /\ g.size[b] = n /\ Same(t, g, b)
    BY <2>13, <2>15, <2>16 DEF Same
  <2>18. Same(h, g, b)
    BY <2>14, <2>17, SameTwice
  <2>. QED BY <2>11, <2>17, <2>18 DEF g
<1>. QED BY <1>2, <1>3

\* What is cut off in front of a block that is about to be used.
LEMMA TrimLeadingIs ==
    ASSUME NEW h, NEW b, Open(h, {b}), b \in h.free, Flag(h, b), After(h, b) \notin h.free,
           b \notin h.prevFree,
           NEW gap \in Nat, 4 <= gap, gap + 4 <= h.size[b]
    PROVE  LET g == TrimLeading(h, b, gap).heap
               r == TrimLeading(h, b, gap).block
           IN /\ Open(g, {r}) /\ r \in g.free /\ Flag(g, r) /\ After(g, r) \notin g.free
              /\ r = b + gap /\ g.size[r] = h.size[b] - gap /\ r \notin Used(h) /\ Same(h, g, b)
<1> DEFINE r == Rest(b, gap - 1)
           s == Split(h, b, gap - 1)
           t == FlagSet(s, r)
           l == LinkNext(t, b)
           g == BlockInsert(l, b)
           O == {b} \union {r}
<1>1. h \in Heap /\ Chain(h) /\ b \in Blocks(h)
  BY DEF Open
<1>2. h.size \in [Words -> 0..PoolSize] /\ b \in Words /\ Blocks(h) \subseteq Words
      /\ h.size[b] \in Nat
      /\ After(h, b) \in Words /\ After(h, b) \in h.headers /\ After(h, b) # b /\ b \in Int
      /\ h.prevPhys \in [Words -> Words \union {Nowhere}]
  <2>1. h.size \in [Words -> 0..PoolSize] /\ Blocks(h) \subseteq Words
        /\ h.prevPhys \in [Words -> Words \union {Nowhere}]
    BY <1>1 DEF Heap, Blocks
  <2>. QED BY <1>1, <2>1, AfterIs
<1>3. CanSplit(h, b, gap) /\ CanSplit(h, b, gap - 1) /\ gap - 1 \in Nat /\ 3 <= gap - 1
  BY <1>2, Sizes DEF CanSplit
<1>4. TrimLeading(h, b, gap) = [heap |-> g, block |-> r]
  BY <1>3 DEF TrimLeading, FlagSet
<1>5. /\ Open(s, O) /\ Flag(s, r) /\ r \in s.free /\ r \notin h.headers /\ r # b
      /\ r \in Words /\ r = b + 1 + (gap - 1) /\ After(s, b) = r /\ After(s, r) = After(h, b)
      /\ s.size[b] = gap - 1 /\ s.size[r] = h.size[b] - ((gap - 1) + 1)
      /\ \A c \in Words \ {b, r} : s.size[c] = h.size[c]
      /\ s.headers = h.headers \union {r} /\ s.free = h.free \union {r}
      /\ s.prevFree = h.prevFree \union {After(h, b)}
      /\ s.prevPhys[After(h, b)] = r
      /\ b \in O /\ r \in O /\ O \ {b} = {r} /\ (\A c \in O : c = b \/ c = r)
  <2>1. s = Split(h, b, gap - 1) /\ r = Rest(b, gap - 1) /\ O = {b} \union {r}
    OBVIOUS
  <2> DEFINE n == gap - 1
  <2>2. s = Split(h, b, n) /\ r = Rest(b, n) /\ n \in Nat /\ 3 <= n /\ CanSplit(h, b, n)
    BY <1>3, <2>1
  <2> HIDE DEF s, r, O, n
  <2>3. /\ Open(s, O) /\ Flag(s, r) /\ r \in s.free /\ r \notin h.headers /\ r # b
        /\ r \in Words /\ r = b + 1 + n /\ After(s, b) = r /\ After(s, r) = After(h, b)
        /\ s.size[b] = n /\ s.size[r] = h.size[b] - (n + 1)
        /\ \A c \in Words \ {b, r} : s.size[c] = h.size[c]
    BY <2>1, <2>2, SplitHere DEF Cut
  <2>4. /\ s.headers = h.headers \union {r} /\ s.free = h.free \union {r}
        /\ s.prevFree = h.prevFree \union {After(h, b)}
        /\ s.prevPhys[After(h, b)] = r
        /\ b \in O /\ r \in O /\ O \ {b} = {r} /\ (\A c \in O : c = b \/ c = r)
    BY <2>1, <2>2, SplitHere DEF Cut
  <2>. QED BY <2>3, <2>4 DEF n
<1> HIDE DEF s, O
<1>6. b \in Blocks(s) /\ r \in Blocks(s)
  BY <1>5 DEF Open
<1>7. /\ Open(t, O) /\ (\A c \in Blocks(s) : After(t, c) = After(s, c))
      /\ t.prevFree = s.prevFree \union {r}
      /\ t.size = s.size /\ t.headers = s.headers /\ t.free = s.free /\ t.prevPhys = s.prevPhys
  <2>1. r = After(s, b) /\ b \in O /\ Open(s, O)
    BY <1>5
  <2>. QED BY ONLY <2>1, Reflagged DEF t
<1> HIDE DEF t, r
<1>8. /\ Open(l, O) /\ \A c \in Blocks(t) : After(l, c) = After(t, c)
      /\ l.size = t.size /\ l.headers = t.headers /\ l.free = t.free /\ l.prevFree = t.prevFree
      /\ l.prevPhys[After(t, b)] = b
      /\ \A w \in Words \ {After(t, b)} : l.prevPhys[w] = t.prevPhys[w]
  <2>1. Open(t, O) /\ b \in O
    BY <1>5, <1>7
  <2>. QED BY ONLY <2>1, LinkIs DEF l
<1>9. Blocks(t) = Blocks(s)
  BY <1>7 DEF Blocks
<1> HIDE DEF l
<1>10. After(l, b) = r /\ After(l, r) = After(h, b) /\ After(t, b) = r /\ After(h, b) # r
  BY <1>2, <1>5, <1>6, <1>7, <1>8, <1>9
<1>11. Flag(l, b) /\ Flag(l, r) /\ b \in l.free /\ r \in l.free
  <2>1. l.free = h.free \union {r} /\ l.prevFree = h.prevFree \union {After(h, b), r}
    BY <1>5, <1>7, <1>8
  <2>2. l.prevPhys[r] = b /\ l.prevPhys[After(h, b)] = r
    BY <1>2, <1>5, <1>7, <1>8, <1>10
  <2>. QED BY <1>10, <2>1, <2>2 DEF Flag
<1>12. b \notin l.prevFree
  BY <1>2, <1>5, <1>7, <1>8
<1>13. \A c \in l.free : After(l, c) = b => c \in O
  BY <1>8, <1>12, NotBefore
<1>14. /\ Open(g, O \ {b}) /\ \A c \in Blocks(l) : After(g, c) = After(l, c)
       /\ g.size = l.size /\ g.headers = l.headers /\ g.free = l.free /\ g.prevFree = l.prevFree
       /\ g.prevPhys = l.prevPhys
  <2>1. After(l, b) \in O \ {b}
    BY <1>5, <1>10
  <2>2. b \in O /\ Open(l, O) /\ b \in l.free /\ Flag(l, b)
        /\ \A c \in l.free : After(l, c) = b => c \in O
    BY <1>5, <1>8, <1>11, <1>13
  <2>. QED BY ONLY <2>1, <2>2, InsertIs DEF g
<1> HIDE DEF g
<1>15. Open(g, {r})
  <2>. QED BY <1>5, <1>14
<1>16. Blocks(l) = Blocks(t) /\ After(g, r) = After(h, b)
  BY <1>6, <1>8, <1>9, <1>10, <1>14 DEF Blocks
<1>17. r \in g.free /\ Flag(g, r) /\ After(g, r) \notin g.free
  BY <1>5, <1>7, <1>8, <1>10, <1>11, <1>14, <1>16 DEF Flag
<1>18. g.size = s.size /\ g.free = h.free \union {r} /\ g.headers = h.headers \union {r}
  BY <1>5, <1>7, <1>8, <1>14
<1>19. g.size[r] = h.size[b] - gap /\ \A c \in Words \ {b, r} : g.size[c] = h.size[c]
  <2>1. (gap - 1) + 1 = gap
    OBVIOUS
  <2>. QED BY <1>2, <1>5, <1>18, <2>1
<1>20. Same(h, g, b) /\ r \notin Used(h)
  BY <1>2, <1>5, <1>18, <1>19 DEF Same, Used, Blocks
<1>21. r = b + gap
  BY <1>2, <1>5
<1>. QED BY <1>4, <1>15, <1>17, <1>19, <1>20, <1>21
-----------------------------------------------------------------------------
(***************************************************************************)
(* What is asked for, and where it may start.                              *)
(***************************************************************************)
LEMMA RoundUpIs ==
    ASSUME NEW n \in Nat, NEW a \in Nat \ {0}
    PROVE  /\ RoundUp(n, a) \in Nat /\ n <= RoundUp(n, a) /\ RoundUp(n, a) < n + a
           /\ \E q \in Nat : RoundUp(n, a) = a * q
<1> DEFINE q == (n + a - 1) \div a
<1>1. n + a - 1 \in Nat
  OBVIOUS
<1>2. q \in Nat /\ a * q <= n + a - 1 /\ n + a - 1 < a * q + a
  BY <1>1, Quotient
<1>3. RoundUp(n, a) = q * a
  BY DEF RoundUp
<1> HIDE DEF q
<1>4. q * a = a * q /\ a * q \in Nat
  BY <1>2
<1>. QED BY <1>2, <1>3, <1>4

LEMMA Remainder == ASSUME NEW m \in Nat, NEW n \in Nat \ {0} PROVE m % n = m - n * (m \div n)
  OBVIOUS

LEMMA Multiple == ASSUME NEW a \in Nat \ {0}, NEW q \in Nat
                  PROVE  (a * q) % a = 0 /\ RoundUp(a * q, a) = a * q
<1>1. a * q \in Nat /\ a * (q + 1) = a * q + a /\ a * q + a - 1 \in Nat /\ q * a = a * q
  OBVIOUS
<1>2. ASSUME NEW m \in Nat, a * q <= m, m < a * (q + 1) PROVE m \div a = q
  <2>1. q <= m \div a /\ m \div a < q + 1
    BY <1>2, QuotientLess
  <2>2. m \div a \in Nat
    BY Quotient
  <2>. QED BY <2>1, <2>2
<1>3. (a * q) \div a = q
  BY <1>1, <1>2
<1>4. (a * q + a - 1) \div a = q
  BY <1>1, <1>2
<1>5. (a * q) % a = a * q - a * q
  BY <1>1, <1>3, Remainder
<1>. QED BY <1>1, <1>4, <1>5 DEF RoundUp

LEMMA RoundUpOne == ASSUME NEW n \in Nat PROVE RoundUp(n, 1) = n
<1>1. 1 * n = n /\ 1 \in Nat \ {0}
  OBVIOUS
<1>2. RoundUp(1 * n, 1) = 1 * n
  BY <1>1, Multiple
<1>. QED BY <1>1, <1>2

LEMMA RequestIs == ASSUME NEW n \in Requests
                   PROVE  /\ n \in Nat /\ (n = 0 => AdjustRequest(n, 1) = 0)
                          /\ n # 0 => /\ AdjustRequest(n, 1) \in Nat /\ 3 <= AdjustRequest(n, 1)
                                      /\ n <= AdjustRequest(n, 1) /\ AdjustRequest(n, 1) < SizeMax
                          /\ AdjustRequest(n, 1) \in 0..(SizeMax - 1)
<1>1. n \in 0..(SizeMax - 1) /\ SizeMax \in Nat /\ 3 < SizeMax
  <2>1. Requests \subseteq 0..(SizeMax - 1)
    BY SizesAssumption DEF SizeMax
  <2>. QED BY <2>1, Sizes
<1>2. RoundUp(n, 1) = n
  BY <1>1, RoundUpOne
<1>. QED BY <1>1, <1>2 DEF AdjustRequest, Larger, MinSize

LEMMA AlignIs == ASSUME NEW align \in Alignments PROVE align \in Nat \ {0}
<1>1. PICK k \in Nat : align = 2 ^ k
  BY SizesAssumption
<1>. QED BY <1>1, Power

LEMMA AlignedRequest ==
    ASSUME NEW w \in Nat, NEW align \in Nat \ {0}, AdjustRequest(w + align + HeaderSize, align) # 0
    PROVE  /\ AdjustRequest(w + align + HeaderSize, align) \in 0..(SizeMax - 1)
           /\ w + align + 4 <= AdjustRequest(w + align + HeaderSize, align)
<1> DEFINE n == w + align + HeaderSize
<1>1. n = w + align + 4 /\ n \in Nat /\ SizeMax \in Nat /\ MinSize = 3
  BY Sizes
<1>2. RoundUp(n, align) \in Nat /\ n <= RoundUp(n, align)
  BY <1>1, RoundUpIs
<1> HIDE DEF n
<1>3. AdjustRequest(n, align) # 0
  BY DEF n
<1>4. RoundUp(n, align) < SizeMax /\ AdjustRequest(n, align) = Larger(RoundUp(n, align), MinSize)
  BY <1>1, <1>2, <1>3 DEF AdjustRequest
<1>5. AdjustRequest(n, align) = RoundUp(n, align)
  BY <1>1, <1>2, <1>4 DEF Larger
<1>. QED BY <1>1, <1>2, <1>4, <1>5 DEF n

\* Nothing, or room for a free block; and no further than the request was widened.
LEMMA GapIs ==
    ASSUME NEW b \in Nat, NEW a \in Nat \ {0}
    PROVE  /\ Gap(b, a) \in Nat /\ (Gap(b, a) = 0 \/ 4 <= Gap(b, a)) /\ Gap(b, a) <= a + 3
           /\ (Base + b + 1 + Gap(b, a)) % a = 0
           /\ a = 1 => Gap(b, a) = 0
<1> DEFINE at == Base + b + 1
           up == RoundUp(at, a)
           gap == up - at
           far == up + Larger(HeaderSize - gap, a)
<1>1. at \in Nat /\ HeaderSize = 4
  BY Sizes
<1>2. Gap(b, a) = IF gap = 0 \/ gap >= 4 THEN gap ELSE RoundUp(far, a) - at
  BY <1>1 DEF Gap
<1> HIDE DEF at
<1>3. up \in Nat /\ at <= up /\ up < at + a /\ \E q \in Nat : up = a * q
  BY <1>1, RoundUpIs
<1> HIDE DEF up
<1>4. PICK q \in Nat : up = a * q
  BY <1>3
<1>5. gap \in Nat /\ gap < a /\ up = at + gap
  BY <1>1, <1>3
<1> HIDE DEF gap
<1>6. up % a = 0
  BY <1>4, Multiple
<1>7. CASE gap = 0 \/ gap >= 4
  <2>1. Gap(b, a) = gap
    BY <1>2, <1>7
  <2>. QED BY <1>1, <1>3, <1>5, <1>6, <1>7, <2>1 DEF at
<1>8. CASE ~(gap = 0 \/ gap >= 4)
  <2>1. Gap(b, a) = RoundUp(far, a) - at
    BY <1>2, <1>8
  <2>2. CASE 4 - gap <= a
    <3>1. far = a * (q + 1)
      <4>1. Larger(4 - gap, a) = a
        BY <1>5, <1>8, <2>2 DEF Larger
      <4>2. far = up + a
        BY <1>1, <4>1
      <4>3. a * (q + 1) = a * q + a
        OBVIOUS
      <4>. QED BY <1>4, <4>2, <4>3
    <3>2. RoundUp(far, a) = far /\ far % a = 0 /\ far = up + a
      <4>1. q + 1 \in Nat /\ a * (q + 1) = a * q + a
        OBVIOUS
      <4> HIDE DEF far
      <4>. QED BY <1>4, <3>1, <4>1, Multiple
    <3> HIDE DEF far
    <3>3. Gap(b, a) = gap + a
      BY <1>1, <1>3, <1>5, <2>1, <3>2
    <3>4. at + Gap(b, a) = far
      BY <1>1, <1>3, <1>5, <3>2, <3>3
    <3>. QED BY <1>1, <1>5, <1>8, <2>2, <3>2, <3>3, <3>4 DEF at
  <2>3. CASE ~(4 - gap <= a)
    <3>1. gap = 1 /\ a = 2
      BY <1>5, <1>8, <2>3
    <3>2. far = up + 3
      BY <1>1, <1>3, <3>1 DEF Larger
    <3> DEFINE e == RoundUp(far, a)
    <3> HIDE DEF far
    <3>3. e \in Nat /\ far <= e /\ e < far + a /\ \E k \in Nat : e = a * k
      <4>1. far \in Nat
        BY <1>3, <3>2
      <4>. QED BY <4>1, RoundUpIs
    <3>4. PICK k \in Nat : e = a * k
      BY <3>3
    <3> HIDE DEF e
    <3>5. e = 2 * k /\ up = 2 * q /\ 2 * q + 3 <= 2 * k /\ 2 * k < 2 * q + 5
      BY <1>4, <3>1, <3>2, <3>3, <3>4
    <3>6. k = q + 2
      BY <3>5
    <3>7. e = up + 4 /\ e % a = 0
      BY <3>1, <3>4, <3>5, <3>6, Multiple
    <3>8. Gap(b, a) = 5 /\ at + Gap(b, a) = e
      BY <1>1, <1>3, <1>5, <2>1, <3>1, <3>7 DEF e
    <3>. QED BY <1>1, <3>1, <3>7, <3>8 DEF at
  <2>. QED BY <2>2, <2>3
<1>. QED BY <1>7, <1>8
-----------------------------------------------------------------------------
(***************************************************************************)
(* The search for a free block.                                            *)
(***************************************************************************)
LEMMA FirstIs == ASSUME NEW S, S \subseteq Nat \X Nat, S # {} PROVE First(S) \in S
<1> DEFINE A == {c[1] : c \in S}
<1>1. A \subseteq Nat /\ A # {}
  OBVIOUS
<1>2. PICK a \in A : \A x \in A : a <= x
  <2> HIDE DEF A
  <2>. QED BY <1>1, Numbers!Least
<1> DEFINE B == {n \in Nat : <<a, n>> \in S}
<1>3. B # {}
  <2>1. PICK c \in S : a = c[1]
    BY <1>2
  <2>2. c = <<c[1], c[2]>> /\ c[2] \in Nat
    OBVIOUS
  <2>. QED BY <2>1, <2>2
<1>4. PICK m \in B : \A x \in B : m <= x
  <2>1. B \subseteq Nat
    OBVIOUS
  <2> HIDE DEF B
  <2>. QED BY <1>3, <2>1, Numbers!Least
<1>5. ASSUME NEW d \in S PROVE Before(<<a, m>>, d)
  <2>1. d = <<d[1], d[2]>> /\ d[1] \in Nat /\ d[2] \in Nat /\ a <= d[1] /\ a \in Nat /\ m \in Nat
    BY <1>1, <1>2, <1>4
  <2>2. d[1] = a => m <= d[2]
    BY <1>4, <2>1
  <2>. QED BY <2>1, <2>2 DEF Before
<1>6. <<a, m>> \in S
  BY <1>4
<1>. QED BY <1>5, <1>6 DEF First

LEMMA SuitableIs ==
    ASSUME NEW h, Open(h, {}), NEW k \in Nat \X Nat
    PROVE  /\ \A c \in Suitable(h, k) : c \in h.slBitmap /\ Before(k, c)
           /\ Suitable(h, k) = {} => \A c \in h.slBitmap : ~Before(k, c)
<1> DEFINE row == {d \in h.slBitmap : d[1] = k[1] /\ k[2] <= d[2]}
           later == {d \in h.slBitmap : d[1] \in h.flBitmap /\ k[1] < d[1]}
<1>1. h.slBitmap \subseteq Nat \X Nat /\ h.flBitmap = {c[1] : c \in h.slBitmap}
  <2>1. h.slBitmap \subseteq Classes
    BY DEF Open, Heap
  <2>2. 2 ^ SLLog2 \in Nat \ {0} /\ FLMax \in Nat /\ SLLog2 \in Nat
    BY Sizes
  <2>3. Classes \subseteq Nat \X Nat
    BY <2>2 DEF Classes
  <2>. QED BY <2>1, <2>3 DEF Open, Listed
<1>2. Suitable(h, k) = IF row # {} THEN {First(row)} ELSE IF later # {} THEN {First(later)} ELSE {}
  BY DEF Suitable
<1>3. \A c \in row : c \in h.slBitmap /\ Before(k, c)
  BY <1>1 DEF Before
<1>4. \A c \in later : c \in h.slBitmap /\ Before(k, c)
  BY <1>1 DEF Before
<1>5. row \subseteq Nat \X Nat /\ later \subseteq Nat \X Nat
  BY <1>1
<1>6. ASSUME NEW c \in h.slBitmap, Before(k, c) PROVE c \in row \/ c \in later
  BY <1>1, <1>6 DEF Before
<1> HIDE DEF row, later
<1>7. CASE row # {}
  BY <1>2, <1>3, <1>5, <1>7, FirstIs
<1>8. CASE row = {} /\ later # {}
  BY <1>2, <1>4, <1>5, <1>8, FirstIs
<1>9. CASE row = {} /\ later = {}
  BY <1>2, <1>6, <1>9
<1>. QED BY <1>7, <1>8, <1>9

\* The block that is found, and the heap without it; or none that is sure to do.
Found(h, g, b, n) ==
    /\ Open(g, {b}) /\ b \in g.free /\ b \in h.free /\ Flag(g, b) /\ After(g, b) \notin g.free
    /\ b \notin g.prevFree
    /\ n <= g.size[b] /\ g.size = h.size /\ g.free = h.free /\ g.headers = h.headers
    /\ b \in Nat /\ n # 0
NotFound(h, g, n) == g = h /\ (n # 0 => \A b \in h.free : h.size[b] < RoundedSize(n))

LEMMA LocateIs ==
    ASSUME NEW h, Open(h, {}), NEW n \in 0..(SizeMax - 1)
    PROVE  LET f == LocateFree(h, n)
           IN IF f.block = Nowhere THEN NotFound(h, f.heap, n) ELSE Found(h, f.heap, f.block, n)
<1> DEFINE k == MappingSearch(n)
           classes == IF n > 0 /\ k \in Classes THEN Suitable(h, k) ELSE {}
           f == LocateFree(h, n)
<1>1. n \in Nat /\ SizeMax \in Nat
  BY Sizes
<1>2. k \in Nat \X Nat /\ (n # 0 => k = MappingInsert(RoundedSize(n)) /\ RoundedSize(n) \in Nat)
  <2>1. SmallBlock \in Nat \ {0}
    BY Sizes
  <2>2. n = 0 => RoundedSize(n) = 0
    BY <2>1 DEF RoundedSize
  <2>3. n # 0 => RoundedSize(n) \in Nat
    BY <1>1, RoundedIs
  <2>. QED BY <2>2, <2>3, ClassPair DEF MappingSearch
<1>3. /\ h \in Heap /\ Chain(h) /\ Listed(h, {}) /\ Flags(h, {}) /\ h.slBitmap \subseteq Classes
      /\ h.lists \in [Classes -> Seq(Words)]
  BY DEF Open, Heap
<1> HIDE DEF k
<1>4. CASE classes = {}
  <2>1. f.block = Nowhere /\ f.heap = h
    BY <1>4 DEF LocateFree, Failed, k
  <2>2. ASSUME n # 0, NEW b \in h.free PROVE h.size[b] < RoundedSize(n)
    <3> DEFINE s == h.size[b]
    <3>1. b \in Blocks(h)
      BY <1>3 DEF Flags
    <3>2. s \in Nat /\ MappingInsert(s) \in Classes /\ s <= PoolSize /\ PoolSize \in Nat
          /\ PoolSize < SizeMax
      BY <1>3, <3>1, AfterIs, Sizes
    <3>3. MappingInsert(s) \in h.slBitmap
      <4>1. ToSet(h.lists[MappingInsert(s)]) # {}
        BY <1>3, <2>2, <3>2 DEF Listed
      <4>2. h.lists[MappingInsert(s)] # <<>>
        <5>1. h.lists[MappingInsert(s)] \in Seq(Words)
          BY <1>3, <3>2
        <5>. QED BY <4>1, <5>1, Empty
      <4>. QED BY <1>3, <3>2, <4>2 DEF Listed
    <3> HIDE DEF s
    <3>4. SUFFICES ASSUME RoundedSize(n) <= s PROVE FALSE
      BY <1>2, <2>2, <3>2 DEF s
    <3>5. Before(k, MappingInsert(s))
      BY <1>2, <2>2, <3>2, <3>4, Monotone
    <3>6. k \in Classes
      <4>1. RoundedSize(n) \in Nat /\ RoundedSize(n) < SizeMax
        BY <1>1, <1>2, <2>2, <3>2, <3>4
      <4>. QED BY <1>2, <2>2, <4>1, ClassIs
    <3>7. Suitable(h, k) = {}
      BY <1>1, <1>4, <2>2, <3>6
    <3>. QED BY <1>2, <3>3, <3>5, <3>7, SuitableIs
  <2>. QED BY <2>1, <2>2 DEF NotFound
<1>5. CASE classes # {}
  <2> DEFINE c == CHOOSE d \in classes : TRUE
             b == Head(h.lists[c])
  <2>1. n > 0 /\ k \in Classes /\ classes = Suitable(h, k) /\ c \in classes
    BY <1>5
  <2>2. f.block = b /\ f.heap = RemoveFree(h, b, c)
    BY <1>5 DEF LocateFree, k
  <2> HIDE DEF c
  <2>3. c \in h.slBitmap /\ Before(k, c) /\ c \in Classes
    BY <1>2, <1>3, <2>1, SuitableIs
  <2>4. b \in ToSet(h.lists[c])
    <3>1. h.lists[c] \in Seq(Words) /\ h.lists[c] # <<>>
      BY <1>3, <2>3 DEF Listed
    <3>. QED BY <3>1 DEF ToSet
  <2> HIDE DEF b
  <2>5. b \in h.free /\ MappingInsert(h.size[b]) = c
    BY <1>3, <2>3, <2>4 DEF Listed
  <2>6. b \in Blocks(h) /\ b \in Nat /\ h.size[b] \in Nat /\ b # Nowhere
    <3>1. b \in Blocks(h)
      BY <1>3, <2>5 DEF Flags
    <3>. QED BY <1>3, <3>1, AfterIs, Sizes
  <2>7. n <= h.size[b]
    <3>1. n \in Nat \ {0} /\ Before(MappingSearch(n), MappingInsert(h.size[b]))
      BY <1>1, <2>1, <2>3, <2>5 DEF k
    <3>. QED BY <2>6, <3>1, Enough
  <2> DEFINE g == RemoveFree(h, b, c)
             O == {}
  <2>8. b \in h.free \ O /\ Open(h, O) /\ c = MappingInsert(h.size[b])
    BY <2>5
  <2> HIDE DEF O
  <2>9. /\ Open(g, O \union {b}) /\ \A x \in Blocks(h) : After(g, x) = After(h, x)
        /\ g.size = h.size /\ g.headers = h.headers /\ g.free = h.free /\ g.prevFree = h.prevFree
        /\ g.prevPhys = h.prevPhys
    BY ONLY <2>8, RemoveIs DEF g
  <2>10. O \union {b} = {b}
    BY DEF O
  <2> HIDE DEF g
  <2>11. After(g, b) = After(h, b) /\ Flag(h, b) /\ After(h, b) \notin h.free /\ b \notin h.prevFree
    <3>1. Flag(h, b) /\ After(h, b) \notin h.free
      BY <1>3, <2>5, <2>6 DEF Flags
    <3>2. b \notin h.prevFree
      <4>1. SUFFICES ASSUME b \in h.prevFree PROVE FALSE
        OBVIOUS
      <4>2. PICK a \in Blocks(h) : After(h, a) = b /\ (a \notin {} => a \in h.free)
        BY <4>1, FreeBefore
      <4>. QED BY <1>3, <2>5, <4>2 DEF Flags
    <3>. QED BY <2>6, <2>9, <3>1, <3>2
  <2>12. Flag(g, b)
    BY <2>9, <2>11 DEF Flag
  <2>13. Found(h, g, b, n)
    <3>1. Open(g, {b})
      BY <2>9, <2>10
    <3>2. b \in g.free /\ b \in h.free /\ After(g, b) \notin g.free /\ b \notin g.prevFree
      BY <2>5, <2>9, <2>11
    <3>3. n <= g.size[b] /\ g.size = h.size /\ g.free = h.free /\ g.headers = h.headers
      BY <2>7, <2>9
    <3>. QED BY ONLY <2>1, <2>6, <2>12, <3>1, <3>2, <3>3, <1>1 DEF Found
  <2>. QED BY <2>2, <2>6, <2>13 DEF g
<1>. QED BY <1>4, <1>5
-----------------------------------------------------------------------------
(***************************************************************************)
(* What callers are given.                                                 *)
(***************************************************************************)
\* Block b is given out with n words or more, and whoever holds a block keeps it.
Taken(h, g, b, n) ==
    /\ Open(g, {}) /\ b \in Used(g) /\ b \notin Used(h) /\ n <= g.size[b]
    /\ \A c \in Used(h) : c \in Used(g) /\ g.size[c] = h.size[c]
\* Block b keeps its place and has n words or more, and so do the others.
Kept(h, g, b, n) ==
    Open(g, {}) /\ b \in Used(g) /\ n <= g.size[b] /\ Same(h, g, b)

LEMMA NoneOpen == ASSUME NEW h, NEW b, Open(h, {b}), b \notin h.free, Flag(h, b) PROVE Open(h, {})
<1> DEFINE O == {b}
<1>1. b \in O /\ Open(h, O)
  OBVIOUS
<1>2. O \ {b} = {}
  OBVIOUS
<1> HIDE DEF O
<1>3. Open(h, O \ {b})
  BY <1>1, Closed
<1>. QED BY <1>2, <1>3

LEMMA OneOpen == ASSUME NEW h, Open(h, {}), NEW b \in Used(h) PROVE Open(h, {b})
<1> DEFINE O == {}
<1>1. Open(h, O)
  OBVIOUS
<1>2. O \union {b} = {b}
  OBVIOUS
<1> HIDE DEF O
<1>3. Open(h, O \union {b})
  BY <1>1, Opened
<1>. QED BY <1>2, <1>3

LEMMA UsedIs ==
    ASSUME NEW h, NEW b, Open(h, {b})
    PROVE  LET g == MarkUsed(h, b)
           IN /\ Open(g, {}) /\ b \in Used(g) /\ g.size = h.size /\ Same(h, g, b)
              /\ g.free = h.free \ {b} /\ g.headers = h.headers
<1> DEFINE g == MarkUsed(h, b)
           O == {b}
<1>1. b \in O /\ Open(h, O)
  OBVIOUS
<1> HIDE DEF O
<1>2. Open(g, O) /\ Flag(g, b) /\ g.size = h.size /\ g.headers = h.headers /\ g.free = h.free \ {b}
  BY <1>1, Marked
<1> HIDE DEF g
<1>3. Open(g, {b})
  BY <1>2 DEF O
<1>4. Open(g, {})
  BY <1>2, <1>3, NoneOpen
<1>5. b \in Blocks(g)
  BY <1>3 DEF Open
<1>. QED BY <1>2, <1>4, <1>5 DEF Used, Blocks, Same, g

LEMMA PrepareIs ==
    ASSUME NEW h, NEW b, Open(h, {b}), b \in h.free, Flag(h, b), After(h, b) \notin h.free,
           NEW n \in Nat, 3 <= n, n <= h.size[b]
    PROVE  Kept(h, PrepareUsed(h, b, n).heap, b, n) /\ PrepareUsed(h, b, n).block = b
<1> DEFINE k == TrimFree(h, b, n)
           g == MarkUsed(k, b)
<1>1. PrepareUsed(h, b, n) = [heap |-> g, block |-> b]
  BY DEF PrepareUsed
<1>2. Open(k, {b}) /\ n <= k.size[b] /\ Same(h, k, b)
  BY TrimFreeIs
<1> HIDE DEF k
<1>3. Open(g, {}) /\ b \in Used(g) /\ g.size = k.size /\ Same(k, g, b)
  BY <1>2, UsedIs
<1> HIDE DEF g
<1>4. Same(h, g, b)
  BY <1>2, <1>3, SameTwice
<1>. QED BY <1>1, <1>2, <1>3, <1>4 DEF Kept

LEMMA AllocIs ==
    ASSUME NEW h, Open(h, {}), NEW n \in Requests
    PROVE  LET r == Alloc(h, n)
           IN IF r.block = Nowhere THEN r.heap = h
              ELSE /\ Taken(h, r.heap, r.block, n)
                   /\ Taken(h, r.heap, r.block, AdjustRequest(n, 1)) /\ n # 0
<1> DEFINE w == AdjustRequest(n, 1)
           f == LocateFree(h, w)
           b == f.block
           g == PrepareUsed(f.heap, b, w)
<1>1. Alloc(h, n) = IF b = Nowhere THEN f ELSE g
  BY DEF Alloc
<1>2. n \in Nat /\ w \in 0..(SizeMax - 1) /\ (n = 0 => w = 0) /\ (n # 0 => 3 <= w /\ n <= w)
      /\ w \in Nat
  BY RequestIs, Sizes
<1> HIDE DEF w
<1>3. IF b = Nowhere THEN NotFound(h, f.heap, w) ELSE Found(h, f.heap, b, w)
  BY <1>2, LocateIs
<1> HIDE DEF f
<1>4. CASE b = Nowhere
  BY <1>1, <1>3, <1>4 DEF NotFound
<1>5. CASE b # Nowhere
  <2> DEFINE k == f.heap
  <2>1. /\ Open(k, {b}) /\ b \in k.free /\ b \in h.free /\ Flag(k, b) /\ After(k, b) \notin k.free
        /\ w <= k.size[b] /\ k.size = h.size /\ k.free = h.free /\ k.headers = h.headers /\ w # 0
    BY <1>3, <1>5 DEF Found
  <2> HIDE DEF k, b
  <2>2. 3 <= w /\ n <= w /\ n # 0
    BY <1>2, <2>1
  <2>3. Kept(k, PrepareUsed(k, b, w).heap, b, w) /\ PrepareUsed(k, b, w).block = b
    BY <1>2, <2>1, <2>2, PrepareIs
  <2>4. Kept(k, g.heap, b, w) /\ g.block = b
    BY <2>3 DEF k
  <2> HIDE DEF g
  <2>5. \A c \in Used(h) : c # b /\ c \in Used(k)
    BY <2>1 DEF Used, Blocks
  <2>6. b \notin Used(h)
    BY <2>1 DEF Used
  <2>7. Taken(h, g.heap, b, w)
    BY <2>1, <2>4, <2>5, <2>6 DEF Taken, Kept, Same
  <2>8. g.heap.size[b] \in Nat
    <3>1. Open(g.heap, {}) /\ b \in Used(g.heap)
      BY <2>7 DEF Taken
    <3>. QED BY <3>1, AfterIs DEF Open, Used
  <2>9. Taken(h, g.heap, b, n)
    BY <1>2, <2>2, <2>7, <2>8 DEF Taken
  <2>. QED BY <1>1, <1>5, <2>2, <2>4, <2>7, <2>9 DEF w
<1>. QED BY <1>4, <1>5

\* The part of a block behind what is cut off in front.
Behind(h, b, gap, g, r) ==
    /\ Open(g, {r}) /\ r \in g.free /\ Flag(g, r) /\ After(g, r) \notin g.free
    /\ r = b + gap /\ g.size[r] = h.size[b] - gap /\ r \notin Used(h) /\ Same(h, g, b)
LEMMA BehindIs ==
    ASSUME NEW h, NEW b, Open(h, {b}), b \in h.free, Flag(h, b), After(h, b) \notin h.free,
           b \notin h.prevFree,
           NEW gap \in Nat, 4 <= gap, gap + 4 <= h.size[b]
    PROVE  Behind(h, b, gap, TrimLeading(h, b, gap).heap, TrimLeading(h, b, gap).block)
  BY TrimLeadingIs DEF Behind

LEMMA AlignedAllocIs ==
    ASSUME NEW h, Open(h, {}), NEW n \in Requests, NEW align \in Alignments
    PROVE  LET r == AlignedAlloc(h, n, align)
           IN IF r.block = Nowhere THEN r.heap = h
              ELSE Taken(h, r.heap, r.block, n) /\ (Base + r.block + 1) % align = 0 /\ n # 0
<1> DEFINE w == AdjustRequest(n, 1)
           wide == AdjustRequest(w + align + HeaderSize, align)
           m == IF w > 0 /\ align > 1 THEN wide ELSE w
           f == LocateFree(h, m)
           b == f.block
           gap == Gap(b, align)
           cut == IF gap = 0 THEN f ELSE TrimLeading(f.heap, b, gap)
           g == PrepareUsed(cut.heap, cut.block, w)
<1>1. AlignedAlloc(h, n, align) = IF b = Nowhere THEN f ELSE g
  BY DEF AlignedAlloc
<1>2. n \in Nat /\ w \in 0..(SizeMax - 1) /\ (n = 0 => w = 0) /\ (n # 0 => 3 <= w /\ n <= w)
      /\ w \in Nat
  BY RequestIs, Sizes
<1>3. align \in Nat \ {0}
  BY AlignIs
<1> HIDE DEF w
<1>4. m \in 0..(SizeMax - 1) /\ (m # 0 => w # 0) /\ (m # 0 /\ align > 1 => w + align + 4 <= m)
      /\ (align = 1 => m = w)
  <2>1. wide # 0 => wide \in 0..(SizeMax - 1) /\ w + align + 4 <= wide
    BY <1>2, <1>3, AlignedRequest
  <2>2. SizeMax \in Nat \ {0}
    BY Sizes
  <2> HIDE DEF wide
  <2>. QED BY <1>2, <1>3, <2>1, <2>2
<1> HIDE DEF m
<1>5. IF b = Nowhere THEN NotFound(h, f.heap, m) ELSE Found(h, f.heap, b, m)
  BY <1>4, LocateIs
<1> HIDE DEF f
<1>6. CASE b = Nowhere
  BY <1>1, <1>5, <1>6 DEF NotFound
<1>7. CASE b # Nowhere
  <2> DEFINE k == f.heap
  <2>1. /\ Open(k, {b}) /\ b \in k.free /\ b \in h.free /\ Flag(k, b) /\ After(k, b) \notin k.free
        /\ b \notin k.prevFree
        /\ m <= k.size[b] /\ k.size = h.size /\ k.free = h.free /\ k.headers = h.headers /\ m # 0
        /\ b \in Nat
    BY <1>5, <1>7 DEF Found
  <2>2. w # 0 /\ 3 <= w /\ n <= w /\ n # 0 /\ m \in Nat /\ SizeMax \in Nat
    BY <1>2, <1>4, <2>1, Sizes
  <2>3. /\ gap \in Nat /\ (gap = 0 \/ 4 <= gap) /\ gap <= align + 3
        /\ (Base + b + 1 + gap) % align = 0 /\ (align = 1 => gap = 0)
    BY <1>3, <2>1, GapIs
  <2>4. k.size[b] \in Nat
    <3>1. k \in Heap /\ Chain(k) /\ b \in Blocks(k)
      BY <2>1 DEF Open
    <3>. QED BY <3>1, AfterIs
  <2>5. \A c \in Used(h) : c # b /\ c \in Used(k)
    BY <2>1 DEF Used, Blocks
  <2>6. b \notin Used(h) /\ Used(h) = Used(k)
    BY <2>1 DEF Used, Blocks
  <2> DEFINE c == cut.block
             q == cut.heap
  <2>7. /\ Open(q, {c}) /\ c \in q.free /\ Flag(q, c) /\ After(q, c) \notin q.free
        /\ w <= q.size[c] /\ c \notin Used(h) /\ Same(k, q, b) /\ c = b + gap
    <3>1. CASE gap = 0
      <4>1. c = b /\ q = k
        BY <3>1
      <4>2. w <= m
        BY <1>2, <1>3, <1>4, <2>1, <2>2
      <4> HIDE DEF c, q, gap, b, k
      <4>3. w <= k.size[b]
        BY <1>2, <2>1, <2>2, <2>4, <4>2
      <4>. QED BY <2>1, <2>6, <3>1, <4>1, <4>3 DEF Same
    <3>2. CASE gap # 0
      <4>1. c = TrimLeading(k, b, gap).block /\ q = TrimLeading(k, b, gap).heap
        BY <3>2
      <4> HIDE DEF c, q, gap, b, k
      <4>2. 4 <= gap /\ gap + 4 <= k.size[b] /\ w <= k.size[b] - gap
        BY <1>2, <1>3, <1>4, <2>1, <2>2, <2>3, <2>4, <3>2
      <4>3. /\ Open(q, {c}) /\ c \in q.free /\ Flag(q, c) /\ After(q, c) \notin q.free
            /\ c = b + gap /\ q.size[c] = k.size[b] - gap /\ c \notin Used(k) /\ Same(k, q, b)
        <5>1. Behind(k, b, gap, q, c)
          BY <2>1, <2>3, <4>1, <4>2, BehindIs
        <5>. QED BY <5>1 DEF Behind
      <4>. QED BY <2>6, <4>2, <4>3
    <3>. QED BY <3>1, <3>2
  <2>8. g = PrepareUsed(q, c, w)
    OBVIOUS
  <2> HIDE DEF c, q, gap, b, k, g
  <2>9. Kept(q, g.heap, c, w) /\ g.block = c
    BY <1>2, <2>2, <2>7, <2>8, PrepareIs
  <2>10. \A d \in Used(h) : d \in Used(g.heap) /\ g.heap.size[d] = h.size[d]
    BY <2>1, <2>5, <2>7, <2>9 DEF Kept, Same
  <2>11. g.heap.size[c] \in Nat
    <3>1. Open(g.heap, {}) /\ c \in Used(g.heap)
      BY <2>9 DEF Kept
    <3>. QED BY <3>1, AfterIs DEF Open, Used
  <2>12. Taken(h, g.heap, c, n)
    BY <1>2, <2>2, <2>7, <2>9, <2>10, <2>11 DEF Taken, Kept
  <2>13. (Base + c + 1) % align = 0
    <3>1. Base + c + 1 = Base + b + 1 + gap
      BY <2>1, <2>3, <2>7, Sizes
    <3>. QED BY <2>3, <3>1
  <2>14. c # Nowhere
    BY <2>1, <2>3, <2>7, Sizes
  <2>15. AlignedAlloc(h, n, align) = g
    BY <1>1, <1>7 DEF b
  <2>. QED BY <2>2, <2>9, <2>12, <2>13, <2>14, <2>15
<1>. QED BY <1>6, <1>7

\* tlsf_realloc where the block is.
Regrown(h, b, w) == TrimUsed(IF w > h.size[b] THEN MarkUsed(MergeNext(h, b), b) ELSE h, b, w)
LEMMA RegrownIs ==
    ASSUME NEW h, Open(h, {}), NEW b \in Used(h), NEW w \in Nat, 3 <= w,
           w <= h.size[b] \/ (After(h, b) \in h.free /\ w <= h.size[b] + h.size[After(h, b)] + 1)
    PROVE  Kept(h, Regrown(h, b, w), b, w)
<1> DEFINE k == MergeNext(h, b)
           u == MarkUsed(k, b)
           g == IF w > h.size[b] THEN u ELSE h
<1>1. h.size[b] \in Nat
  BY AfterIs DEF Open, Used
<1>2. Open(g, {}) /\ b \in Used(g) /\ w <= g.size[b] /\ Same(h, g, b)
  <2>1. CASE w <= h.size[b]
    <3>1. g = h
      BY <1>1, <2>1
    <3>. QED BY <2>1, <3>1 DEF Same
  <2>2. CASE ~(w <= h.size[b])
    <3>1. g = u /\ After(h, b) \in h.free /\ w <= h.size[b] + h.size[After(h, b)] + 1
      BY <1>1, <2>2
    <3>2. Open(h, {b})
      BY OneOpen
    <3>3. Open(k, {b}) /\ w <= k.size[b] /\ Same(h, k, b)
      <4>1. Open(k, {b}) /\ Same(h, k, b)
        BY <3>2, MergeNextIs
      <4>2. k.size[b] = h.size[b] + h.size[After(h, b)] + 1
        BY <3>1, <3>2, MergeNextIs
      <4>. QED BY <3>1, <4>1, <4>2
    <3> HIDE DEF k
    <3>4. Open(u, {}) /\ b \in Used(u) /\ u.size = k.size /\ Same(k, u, b)
      BY <3>3, UsedIs
    <3> HIDE DEF u
    <3>. QED BY <3>1, <3>3, <3>4, SameTwice
  <2>. QED BY <2>1, <2>2
<1>3. Regrown(h, b, w) = TrimUsed(g, b, w)
  BY DEF Regrown
<1> HIDE DEF g
<1>4. LET r == TrimUsed(g, b, w) IN Open(r, {}) /\ b \in Used(r) /\ w <= r.size[b] /\ Same(g, r, b)
  BY <1>2, TrimUsedIs
<1>. QED BY <1>2, <1>3, <1>4, SameTwice DEF Kept
-----------------------------------------------------------------------------
(***************************************************************************)
(* The blocks that callers hold, and the inductive invariant.              *)
(***************************************************************************)
HeldIn(h, S) ==
    /\ S \subseteq [at : Words, words : Requests]
    /\ \A p \in S : BlockOf(p) \in Used(h) /\ p.words <= h.size[BlockOf(p)]
    /\ \A p, q \in S : p.at = q.at => p = q

Inv == Open(heap, {}) /\ HeldIn(heap, held)

LEMMA PointerIs ==
    ASSUME NEW h, Open(h, {}), NEW b \in Used(h), NEW n \in Requests
    PROVE  LET p == [at |-> Pointer(b), words |-> n]
           IN /\ p \in [at : Words, words : Requests] /\ BlockOf(p) = b /\ b \in Nat
              /\ p.at = b + 1 /\ p.words = n
<1>1. b \in 0..PoolSize /\ Words = 0..(PoolSize + 1) /\ PoolSize \in Nat
  <2>1. h \in Heap /\ Chain(h) /\ b \in Blocks(h)
    BY DEF Open, Used
  <2>. QED BY <2>1, AfterIs, Sizes
<1>. QED BY <1>1 DEF Pointer, BlockOf

LEMMA BlockIs ==
    ASSUME NEW p \in [at : Words, words : Requests]
    PROVE  p.at \in Nat /\ p.words \in Nat /\ p.at \in Words /\ p.words \in Requests
           /\ BlockOf(p) = p.at - 1
           /\ BlockOf(p) \in Int
<1>1. p.at \in Words /\ p.words \in Requests /\ Words \subseteq Nat
  BY Sizes
<1>2. p.words \in Nat
  BY <1>1, RequestIs
<1>3. BlockOf(p) = p.at - 1
  BY DEF BlockOf
<1>4. p.at \in Nat
  BY <1>1
<1>5. p.at - 1 \in Int
  BY <1>4
<1>. QED BY ONLY <1>1, <1>2, <1>3, <1>4, <1>5

LEMMA HeldGiven ==
    ASSUME NEW h, NEW S, HeldIn(h, S), NEW g, NEW b, NEW n \in Requests, Taken(h, g, b, n),
           NEW p, p = [at |-> Pointer(b), words |-> n]
    PROVE  HeldIn(g, S \union {p}) /\ p \notin S /\ BlockOf(p) = b
<1>1. Open(g, {}) /\ b \in Used(g) /\ b \notin Used(h) /\ n <= g.size[b]
      /\ \A c \in Used(h) : c \in Used(g) /\ g.size[c] = h.size[c]
  BY DEF Taken
<1>2. p \in [at : Words, words : Requests] /\ BlockOf(p) = b /\ p.words = n
  BY <1>1, PointerIs
<1>3. S \subseteq [at : Words, words : Requests]
      /\ (\A q \in S : BlockOf(q) \in Used(h) /\ q.words <= h.size[BlockOf(q)])
      /\ (\A q, r \in S : q.at = r.at => q = r)
  BY DEF HeldIn
<1>4. p \notin S
  BY <1>1, <1>2, <1>3
<1>5. \A q \in S : q.at # p.at
  <2> SUFFICES ASSUME NEW q \in S, q.at = p.at PROVE FALSE
    OBVIOUS
  <2>1. BlockOf(q) = BlockOf(p)
    BY DEF BlockOf
  <2>. QED BY <1>1, <1>2, <1>3, <2>1
<1>6. \A q \in S \union {p} : BlockOf(q) \in Used(g) /\ q.words <= g.size[BlockOf(q)]
  BY <1>1, <1>2, <1>3
<1>7. \A q, r \in S \union {p} : q.at = r.at => q = r
  BY <1>3, <1>5
<1>. QED BY <1>2, <1>3, <1>4, <1>6, <1>7 DEF HeldIn

LEMMA HeldReleased ==
    ASSUME NEW h, NEW S, HeldIn(h, S), NEW p \in S, NEW g, Same(h, g, BlockOf(p))
    PROVE  HeldIn(g, S \ {p})
<1>1. S \subseteq [at : Words, words : Requests]
      /\ (\A q \in S : BlockOf(q) \in Used(h) /\ q.words <= h.size[BlockOf(q)])
      /\ (\A q, r \in S : q.at = r.at => q = r)
  BY DEF HeldIn
<1>2. \A q \in S \ {p} : BlockOf(q) # BlockOf(p)
  <2> SUFFICES ASSUME NEW q \in S, q # p, BlockOf(q) = BlockOf(p) PROVE FALSE
    OBVIOUS
  <2>1. q.at \in Nat /\ p.at \in Nat /\ BlockOf(q) = q.at - 1 /\ BlockOf(p) = p.at - 1
    <3>1. q \in [at : Words, words : Requests] /\ p \in [at : Words, words : Requests]
      BY <1>1
    <3>2. q.at \in Nat /\ BlockOf(q) = q.at - 1
      BY <3>1, BlockIs
    <3>3. p.at \in Nat /\ BlockOf(p) = p.at - 1
      BY <3>1, BlockIs
    <3>. QED BY <3>2, <3>3
  <2>2. q.at = p.at
    <3> DEFINE x == q.at
               y == p.at
    <3>1. x \in Nat /\ y \in Nat /\ x - 1 = y - 1
      BY <2>1
    <3> HIDE DEF x, y
    <3>2. x = y
      BY <3>1
    <3>. QED BY <3>2 DEF x, y
  <2>. QED BY <1>1, <2>2
<1>3. \A q \in S \ {p} : BlockOf(q) \in Used(g) /\ q.words <= g.size[BlockOf(q)]
  BY <1>1, <1>2 DEF Same
<1>. QED BY <1>1, <1>3 DEF HeldIn

LEMMA HeldResized ==
    ASSUME NEW h, NEW S, HeldIn(h, S), NEW p \in S, NEW n \in Requests, NEW g,
           Kept(h, g, BlockOf(p), n),
           NEW q, q = [p EXCEPT !.words = n]
    PROVE  HeldIn(g, (S \ {p}) \union {q}) /\ q \notin S \ {p} /\ q.at = p.at
<1>1. HeldIn(g, S \ {p})
  BY HeldReleased DEF Kept
<1>2. p \in [at : Words, words : Requests] /\ \A r, s \in S : r.at = s.at => r = s
  BY DEF HeldIn
<1>3. q \in [at : Words, words : Requests] /\ q.at = p.at /\ q.words = n
  BY <1>2
<1>4. BlockOf(q) = BlockOf(p)
  BY <1>3 DEF BlockOf
<1>5. \A r \in S \ {p} : r.at # q.at
  BY <1>2, <1>3
<1>6. BlockOf(q) \in Used(g) /\ q.words <= g.size[BlockOf(q)]
  BY <1>3, <1>4 DEF Kept
<1> DEFINE R == S \ {p}
<1>7. HeldIn(g, R) /\ \A r \in R : r.at # q.at
  BY <1>1, <1>5
<1> HIDE DEF R
<1>8. HeldIn(g, R \union {q}) /\ q \notin R
  BY <1>3, <1>6, <1>7 DEF HeldIn
<1>. QED BY <1>3, <1>8 DEF R

\* No two blocks that are held overlap, and none leaves the pool.
LEMMA HeldFits ==
    ASSUME NEW h, Open(h, {}), NEW S, HeldIn(h, S), NEW p \in S
    PROVE  Service!Fits(p, S \ {p}) /\ p \in Service!Block
<1>1. h \in Heap /\ Chain(h)
  BY DEF Open
<1>2. \A q \in S : /\ q.at \in Nat /\ q.words \in Nat /\ q.at \in Words /\ q.words \in Requests
                   /\ BlockOf(q) = q.at - 1 /\ q = [at |-> q.at, words |-> q.words]
  BY BlockIs DEF HeldIn
<1>3. \A q \in S : /\ BlockOf(q) \in Blocks(h) /\ BlockOf(q) \in Int /\ h.size[BlockOf(q)] \in Nat
                   /\ q.words <= h.size[BlockOf(q)]
                   /\ After(h, BlockOf(q)) = BlockOf(q) + 1 + h.size[BlockOf(q)]
                   /\ After(h, BlockOf(q)) <= Sentinel
  BY <1>1, AfterIs, Sizes DEF HeldIn, Used
<1>4. \A q \in S : q.at + q.words <= After(h, BlockOf(q))
  BY <1>2, <1>3
<1>5. ASSUME NEW q \in S \ {p} PROVE Service!Disjoint(p, q)
  <2>1. BlockOf(p) # BlockOf(q)
    <3>1. p.at # q.at
      BY DEF HeldIn
    <3>. QED BY <1>2, <3>1
  <2>2. (BlockOf(p) <= BlockOf(q) \/ After(h, BlockOf(q)) <= BlockOf(p))
        /\ (BlockOf(q) <= BlockOf(p) \/ After(h, BlockOf(p)) <= BlockOf(q))
    BY <1>1, <1>3 DEF Chain, Blocks
  <2>3. After(h, BlockOf(q)) <= BlockOf(p) \/ After(h, BlockOf(p)) <= BlockOf(q)
    BY <1>3, <2>1, <2>2
  <2>4. After(h, BlockOf(q)) \in Int /\ After(h, BlockOf(p)) \in Int
    BY <1>3
  <2>5. CASE After(h, BlockOf(q)) <= BlockOf(p)
    <3>1. q.at + q.words <= p.at
      BY <1>2, <1>4, <2>4, <2>5
    <3>. QED BY <3>1 DEF Service!Disjoint
  <2>6. CASE After(h, BlockOf(p)) <= BlockOf(q)
    <3>1. p.at + p.words <= q.at
      BY <1>2, <1>4, <2>4, <2>6
    <3>. QED BY <3>1 DEF Service!Disjoint
  <2>. QED BY <2>3, <2>5, <2>6
<1>6. p.at + p.words <= PoolSize + 2
  <2>1. Sentinel = PoolSize + 1 /\ PoolSize \in Nat
    BY Sizes
  <2>2. After(h, BlockOf(p)) \in Int
    BY <1>3
  <2>. QED BY <1>2, <1>3, <1>4, <2>1, <2>2
<1>7. p \in Service!Block
  <2>1. Words = 0..(PoolSize + 1) /\ PoolSize \in Nat
    BY Sizes
  <2>2. p.at \in 0..(PoolSize + 2)
    BY <1>2, <2>1
  <2>. QED BY <1>2, <2>2 DEF Service!Block
<1>. QED BY <1>5, <1>6, <1>7 DEF Service!Fits
-----------------------------------------------------------------------------
(***************************************************************************)
(* The pool at the beginning.                                              *)
(***************************************************************************)
LEMMA StartIs == Open(Start, {0}) /\ Flag(Start, 0)
<1>1. PoolSize \in Nat /\ 3 <= PoolSize /\ Sentinel = PoolSize + 1 /\ Words = 0..(PoolSize + 1)
      /\ Nowhere = -1
      /\ Sentinel # 0 /\ MinSize = 3
  BY Sizes
<1>2. /\ Start.size = [w \in Words |-> IF w = 0 THEN PoolSize ELSE 0]
      /\ Start.headers = {0, Sentinel} /\ Start.free = {0} /\ Start.prevFree = {Sentinel}
      /\ Start.prevPhys = [w \in Words |-> IF w = Sentinel THEN 0 ELSE Nowhere]
      /\ Start.lists = [c \in Classes |-> <<>>] /\ Start.slBitmap = {} /\ Start.flBitmap = {}
  BY DEF Start
<1>3. Start \in Heap
  <2>1. /\ Start.size \in [Words -> 0..PoolSize] /\ Start.headers \subseteq Words
        /\ Start.free \subseteq Words
        /\ Start.prevFree \subseteq Words /\ Start.prevPhys \in [Words -> Words \union {Nowhere}]
    BY <1>1, <1>2
  <2>2. /\ Start.lists \in [Classes -> Seq(Words)]
        /\ Start.slBitmap \subseteq Classes /\ Start.flBitmap \subseteq 0..(FLMax - SLLog2)
    BY <1>2
  <2>3. Start = [size |-> Start.size, headers |-> Start.headers,
                 free |-> Start.free, prevFree |-> Start.prevFree,
                 prevPhys |-> Start.prevPhys, lists |-> Start.lists, slBitmap |-> Start.slBitmap,
                 flBitmap |-> Start.flBitmap]
    BY DEF Start
  <2>. QED BY <2>1, <2>2, <2>3 DEF Heap
<1>4. Blocks(Start) = {0} /\ Start.size[0] = PoolSize /\ Start.size[Sentinel] = 0
  BY <1>1, <1>2 DEF Blocks
<1>5. After(Start, 0) = Sentinel
  BY <1>1, <1>4 DEF After
<1>6. Chain(Start)
  BY <1>1, <1>2, <1>4, <1>5 DEF Chain
<1>7. Flag(Start, 0)
  BY <1>1, <1>2, <1>5 DEF Flag
<1>8. Flags(Start, {0})
  BY <1>1, <1>2, <1>4, <1>5 DEF Flags
<1>9. Listed(Start, {0})
  <2>1. ASSUME NEW c \in Classes
        PROVE  Start.lists[c] = <<>> /\ c \notin Start.slBitmap /\ IsInjective(Start.lists[c])
               /\ ToSet(Start.lists[c]) = {}
    BY <1>2 DEF IsInjective, ToSet
  <2>2. Start.free \ {0} = {}
    BY <1>2
  <2>3. Start.flBitmap = {c[1] : c \in Start.slBitmap}
    BY <1>2
  <2>. QED BY <2>1, <2>2, <2>3 DEF Listed
<1>. QED BY <1>3, <1>4, <1>6, <1>7, <1>8, <1>9 DEF Open

LEMMA InitIs == Init => Inv
<1> SUFFICES ASSUME Init PROVE Inv
  OBVIOUS
<1> DEFINE O == {0}
           h == Start
<1>1. Open(h, O) /\ 0 \in O /\ 0 \in h.free /\ Flag(h, 0) /\ (\A c \in h.free : c \in O)
  BY StartIs DEF Start
<1>2. After(h, 0) \notin h.free
  <2>1. h \in Heap /\ Chain(h) /\ 0 \in Blocks(h)
    BY <1>1 DEF Open
  <2>2. After(h, 0) # 0
    BY <2>1, AfterIs
  <2>. QED BY <2>2 DEF Start
<1>3. O \ {0} = {}
  OBVIOUS
<1> HIDE DEF O, h
<1>4. Open(BlockInsert(h, 0), O \ {0})
  BY <1>1, <1>2, InsertIs
<1>5. Open(heap, {})
  BY <1>3, <1>4 DEF Init, h
<1>6. HeldIn(heap, held)
  BY DEF Init, HeldIn
<1>. QED BY <1>5, <1>6 DEF Inv
-----------------------------------------------------------------------------
(***************************************************************************)
(* The steps: each keeps the invariant and is one of HeapService's.        *)
(***************************************************************************)
LEMMA MallocIs ==
    ASSUME Inv, NEW n \in Requests,
           \/ Malloc(n)
           \/ \E align \in Alignments : Memalign(n, align)
    PROVE  Inv' /\ Service!Allocate
<1>1. PICK r : r.block # Nowhere /\ Granted(r, n) /\ Taken(heap, r.heap, r.block, n)
  <2>1. CASE Malloc(n)
    BY <2>1, AllocIs DEF Malloc, Inv
  <2>2. CASE \E align \in Alignments : Memalign(n, align)
    BY <2>2, AlignedAllocIs DEF Memalign, Inv
  <2>. QED BY <2>1, <2>2
<1> DEFINE p == [at |-> Pointer(r.block), words |-> n]
<1>2. heap' = r.heap /\ held' = held \union {p} /\ Open(heap, {}) /\ HeldIn(heap, held)
      /\ Taken(heap, heap', r.block, n)
  BY <1>1 DEF Granted, Inv
<1>3. p = [at |-> Pointer(r.block), words |-> n]
  OBVIOUS
<1> HIDE DEF p
<1>4. HeldIn(heap', held \union {p}) /\ p \notin held
  BY <1>2, <1>3, HeldGiven
<1>5. Open(heap', {})
  BY <1>2 DEF Taken
<1>6. Service!Fits(p, (held \union {p}) \ {p}) /\ p \in Service!Block
  BY <1>4, <1>5, HeldFits
<1>7. (held \union {p}) \ {p} = held
  BY <1>4
<1>8. Service!Fits(p, held)
  BY <1>6, <1>7
<1>. QED BY <1>2, <1>4, <1>5, <1>6, <1>8 DEF Inv, Service!Allocate

LEMMA FreeIs == ASSUME Inv, NEW p \in held, Free(p) PROVE Inv' /\ Service!Free
<1> DEFINE b == BlockOf(p)
<1>1. Open(heap, {}) /\ HeldIn(heap, held) /\ b \in Used(heap) /\ heap' = Release(heap, b)
      /\ held' = held \ {p}
  BY DEF Inv, HeldIn, Free
<1>2. Open(heap', {}) /\ Same(heap, heap', b)
  BY <1>1, ReleaseIs
<1>3. HeldIn(heap', held \ {p})
  BY <1>1, <1>2, HeldReleased
<1>. QED BY <1>1, <1>2, <1>3 DEF Inv, Service!Free

LEMMA ReallocIs == ASSUME Inv, NEW p \in held, NEW n \in Requests, Realloc(p, n)
                   PROVE  Inv' /\ (Service!Resize \/ Service!Move)
<1> DEFINE b == BlockOf(p)
           w == AdjustRequest(n, 1)
           next == After(heap, b)
           mustMove == w > heap.size[b]
                       /\ (next \notin heap.free \/ w > heap.size[b] + heap.size[next] + 1)
           other == Alloc(heap, n)
           q == [at |-> Pointer(other.block), words |-> n]
           s == [p EXCEPT !.words = n]
<1>1. /\ n > 0
      /\ IF mustMove
         THEN /\ other.block # Nowhere /\ heap' = Release(other.heap, b)
              /\ held' = (held \ {p}) \union {q}
         ELSE heap' = Regrown(heap, b, w) /\ held' = (held \ {p}) \union {s}
  BY DEF Realloc, Regrown
<1>2. Open(heap, {}) /\ HeldIn(heap, held) /\ b \in Used(heap)
  BY DEF Inv, HeldIn
<1>3. n \in Nat /\ w \in Nat /\ 3 <= w /\ n <= w
  BY <1>1, RequestIs
<1>4. heap \in Heap /\ Chain(heap) /\ b \in Blocks(heap)
  BY <1>2 DEF Open, Used
<1>5. CASE mustMove
  <2> DEFINE k == other.heap
  <2>1. Taken(heap, k, other.block, n) /\ heap' = Release(k, b) /\ held' = (held \ {p}) \union {q}
    BY <1>1, <1>2, <1>5, AllocIs
  <2>2. q = [at |-> Pointer(other.block), words |-> n]
    OBVIOUS
  <2> HIDE DEF other, k, b, w, q, s
  <2>3. Open(k, {}) /\ b \in Used(k)
    BY <1>2, <2>1 DEF Taken
  <2>4. HeldIn(k, held \union {q}) /\ q \notin held
    BY <1>2, <2>1, <2>2, HeldGiven
  <2>5. Service!Fits(q, (held \union {q}) \ {q}) /\ q \in Service!Block
    BY <2>3, <2>4, HeldFits
  <2>6. (held \union {q}) \ {q} = held /\ (held \union {q}) \ {p} = (held \ {p}) \union {q}
    BY <2>4
  <2>7. Service!Move
    BY <2>1, <2>5, <2>6 DEF Service!Move
  <2>8. Open(heap', {}) /\ Same(k, heap', b)
    BY <2>1, <2>3, ReleaseIs
  <2>9. HeldIn(heap', (held \union {q}) \ {p})
    BY <2>4, <2>8, HeldReleased DEF b
  <2>. QED BY <2>1, <2>6, <2>7, <2>8, <2>9 DEF Inv
<1>6. CASE ~mustMove
  <2>1. heap' = Regrown(heap, b, w) /\ held' = (held \ {p}) \union {s}
    BY <1>1, <1>6
  <2>2. w <= heap.size[b] \/ (next \in heap.free /\ w <= heap.size[b] + heap.size[next] + 1)
    <3>1. heap.size[b] \in Nat
      BY <1>4, AfterIs
    <3>2. next \in heap.free => heap.size[next] \in Nat
      <4>1. heap.free \subseteq Blocks(heap)
        BY <1>2 DEF Open, Flags
      <4>. QED BY <1>4, <4>1, AfterIs
    <3> HIDE DEF w, next
    <3>. QED BY <1>3, <1>6, <3>1, <3>2
  <2>3. Kept(heap, heap', b, w)
    BY <1>2, <1>3, <2>1, <2>2, RegrownIs
  <2>4. s = [p EXCEPT !.words = n]
    OBVIOUS
  <2> HIDE DEF b, w, s, next, other, q
  <2>5. Open(heap', {}) /\ b \in Used(heap') /\ w <= heap'.size[b] /\ Same(heap, heap', b)
    BY <2>3 DEF Kept
  <2>6. Kept(heap, heap', b, n)
    <3>1. heap'.size[b] \in Nat
      <4>1. heap' \in Heap /\ Chain(heap') /\ b \in Blocks(heap')
        BY <2>5 DEF Open, Used
      <4>. QED BY <4>1, AfterIs
    <3>. QED BY <1>3, <2>5, <3>1 DEF Kept
  <2>7. HeldIn(heap', (held \ {p}) \union {s}) /\ s \notin held \ {p} /\ s.at = p.at
    BY <1>2, <2>4, <2>6, HeldResized DEF b
  <2> DEFINE R == (held \ {p}) \union {s}
  <2>8. HeldIn(heap', R) /\ s \in R /\ R \ {s} = held \ {p}
    BY <2>7
  <2> HIDE DEF R
  <2>9. Service!Fits(s, R \ {s}) /\ s \in Service!Block
    BY <2>5, <2>8, HeldFits
  <2>10. Service!Resize
    BY <2>1, <2>7, <2>8, <2>9 DEF Service!Resize
  <2>. QED BY <2>1, <2>5, <2>7, <2>10 DEF Inv
<1>. QED BY <1>5, <1>6

LEMMA NextIs == Inv /\ [Next]_vars => Inv' /\ [Service!Next]_held
<1> SUFFICES ASSUME Inv, [Next]_vars PROVE Inv' /\ [Service!Next]_held
  OBVIOUS
<1>1. CASE \E n \in Requests : Malloc(n)
  BY <1>1, MallocIs DEF Service!Next
<1>2. CASE \E n \in Requests, align \in Alignments : Memalign(n, align)
  BY <1>2, MallocIs DEF Service!Next
<1>3. CASE \E p \in held : Free(p)
  BY <1>3, FreeIs DEF Service!Next
<1>4. CASE \E p \in held, n \in Requests : Realloc(p, n)
  BY <1>4, ReallocIs DEF Service!Next
<1>5. CASE UNCHANGED vars
  BY <1>5 DEF vars, Inv
<1>. QED BY <1>1, <1>2, <1>3, <1>4, <1>5 DEF Next
-----------------------------------------------------------------------------
LEMMA Invariant == Spec => []Inv
<1>1. Inv /\ [Next]_vars => Inv'
  BY NextIs
<1>. QED BY <1>1, InitIs, PTL DEF Spec

LEMMA InvTypes == Inv => TypeOK
  BY DEF Inv, Open, Heap, HeldIn, TypeOK, Flags, Blocks

LEMMA InvChecked == Inv => Checked
<1> SUFFICES ASSUME Inv PROVE Checked
  OBVIOUS
<1>1. heap \in Heap /\ Chain(heap) /\ Flags(heap, {}) /\ Listed(heap, {})
  BY DEF Inv, Open
<1>2. ASSUME NEW b \in heap.headers \ {Sentinel}
      PROVE  /\ MinSize <= heap.size[b]
             /\ After(heap, b) \in heap.headers
             /\ heap.headers \cap (b + 1)..(After(heap, b) - 1) = {}
             /\ b \in heap.free <=> After(heap, b) \in heap.prevFree
             /\ b \in heap.free => /\ After(heap, b) \notin heap.free
                                   /\ heap.prevPhys[After(heap, b)] = b
  <2>1. b \in Blocks(heap)
    BY DEF Blocks
  <2>2. MinSize <= heap.size[b] /\ After(heap, b) \in heap.headers
        /\ \A c \in heap.headers : c <= b \/ After(heap, b) <= c
    BY <1>1, <2>1 DEF Chain
  <2>3. Flag(heap, b) /\ (b \in heap.free => After(heap, b) \notin heap.free)
    BY <1>1, <2>1 DEF Flags
  <2>4. heap.headers \cap (b + 1)..(After(heap, b) - 1) = {}
    <3>1. b \in Int /\ After(heap, b) \in Int /\ heap.headers \subseteq Int
      <4>1. heap.headers \subseteq Words /\ Words = 0..(PoolSize + 1) /\ PoolSize \in Nat
        BY <1>1, Sizes DEF Heap
      <4>. QED BY <2>2, <4>1
    <3>. QED BY <2>2, <3>1
  <2>. QED BY <2>2, <2>3, <2>4 DEF Flag
<1>3. /\ {0, Sentinel} \subseteq heap.headers /\ Sentinel \notin heap.free
      /\ heap.size[Sentinel] = 0
      /\ heap.free \union heap.prevFree \subseteq heap.headers
  BY <1>1 DEF Chain, Flags, Blocks
<1>4. /\ \A c \in Classes :
            /\ c \in heap.slBitmap <=> heap.lists[c] # <<>>
            /\ IsInjective(heap.lists[c])
            /\ ToSet(heap.lists[c]) = {b \in heap.free : MappingInsert(heap.size[b]) = c}
      /\ heap.flBitmap = {c[1] : c \in heap.slBitmap}
  <2>1. heap.free \ {} = heap.free
    OBVIOUS
  <2>. QED BY <1>1, <2>1 DEF Listed
<1>. QED BY <1>2, <1>3, <1>4 DEF Checked

LEMMA InvFits == Inv => FoundFits
<1> SUFFICES ASSUME Inv, NEW n \in Requests
             PROVE  /\ LET words == AdjustRequest(n, 1)
                           found == LocateFree(heap, words)
                       IN IF found.block # Nowhere THEN heap.size[found.block] >= words
                          ELSE \A b \in heap.free : words = 0 \/ heap.size[b] < RoundedSize(words)
                    /\ \A align \in Alignments :
                          LET r == AlignedAlloc(heap, n, align)
                          IN r.block # Nowhere => /\ (Base + Pointer(r.block)) % align = 0
                                                  /\ r.heap.size[r.block] >= n
  BY DEF FoundFits
<1> DEFINE w == AdjustRequest(n, 1)
           f == LocateFree(heap, w)
<1>1. Open(heap, {}) /\ w \in 0..(SizeMax - 1) /\ n \in Nat
  BY RequestIs DEF Inv
<1>2. IF f.block # Nowhere THEN heap.size[f.block] >= w
      ELSE \A b \in heap.free : w = 0 \/ heap.size[b] < RoundedSize(w)
  <2> HIDE DEF w
  <2>1. IF f.block = Nowhere THEN NotFound(heap, f.heap, w) ELSE Found(heap, f.heap, f.block, w)
    BY <1>1, LocateIs
  <2> HIDE DEF f
  <2>2. CASE f.block = Nowhere
    BY <2>1, <2>2 DEF NotFound
  <2>3. CASE f.block # Nowhere
    <3>1. w <= heap.size[f.block] /\ f.block \in heap.free
      BY <2>1, <2>3 DEF Found
    <3>2. heap.size[f.block] \in Nat /\ w \in Nat
      <4>1. heap \in Heap /\ Chain(heap) /\ f.block \in Blocks(heap)
        BY <1>1, <3>1 DEF Open, Flags
      <4>. QED BY <1>1, <4>1, AfterIs, Sizes
    <3>. QED BY <2>3, <3>1, <3>2
  <2>. QED BY <2>2, <2>3
<1>3. ASSUME NEW align \in Alignments, AlignedAlloc(heap, n, align).block # Nowhere
      PROVE  LET r == AlignedAlloc(heap, n, align)
             IN (Base + Pointer(r.block)) % align = 0 /\ r.heap.size[r.block] >= n
  <2> DEFINE r == AlignedAlloc(heap, n, align)
             c == r.block
             g == r.heap
  <2>1. Taken(heap, g, c, n) /\ (Base + c + 1) % align = 0
    BY <1>1, <1>3, AlignedAllocIs
  <2> HIDE DEF r, c, g
  <2>2. Open(g, {}) /\ c \in Used(g) /\ n <= g.size[c]
    BY <2>1 DEF Taken
  <2>3. g \in Heap /\ Chain(g) /\ c \in Blocks(g)
    BY <2>2 DEF Open, Used
  <2>4. g.size[c] \in Nat /\ c \in Nat /\ Base \in Nat
    BY <2>3, AfterIs, Sizes
  <2>5. Base + Pointer(c) = Base + c + 1
    BY <2>4 DEF Pointer
  <2>6. g.size[c] >= n
    BY <1>1, <2>2, <2>4
  <2>. QED BY <2>1, <2>5, <2>6 DEF r, c, g
<1>. QED BY <1>2, <1>3

\* What tlsf.c keeps of its pool has the types it should: sizes fit the pool, headers lie in it,
\* the bitmaps have a bit for every class (control_t, block_header_t).
THEOREM TypeCorrect == Spec => []TypeOK
  BY Invariant, InvTypes, PTL

\* After any mallocs, memaligns, frees and reallocs, tlsf_check and the walk of tlsf_check_pool
\* find nothing wrong: no two free blocks are neighbours, every flag is right, and the lists and
\* bitmaps show the free blocks, each in the class of its size and in no other.
THEOREM PoolChecked == Spec => []Checked
  BY Invariant, InvChecked, PTL

\* What the search finds is large enough without a look at its size, and it finds nothing only
\* if there is nothing of the size it rounds up to (mapping_search, search_suitable_block); a
\* gap that is cut off in front leaves the block aligned, with room for what was asked for
\* (tlsf_memalign).
THEOREM FitsFound == Spec => []FoundFits
  BY Invariant, InvFits, PTL

\* tlsf is a heap: every block that is given out, grown or moved by tlsf_malloc, tlsf_memalign
\* and tlsf_realloc lies in the pool and overlaps none that anyone holds, whatever splitting
\* and merging has been done to the blocks around them.
THEOREM AllocatorIsHeap == Spec => IsHeap
<1>1. Init => Service!Init
  BY DEF Init, Service!Init
<1>2. Inv /\ [Next]_vars => [Service!Next]_held
  BY NextIs
<1>. QED BY <1>1, <1>2, Invariant, PTL DEF Spec, IsHeap, Service!Spec
-----------------------------------------------------------------------------
(***************************************************************************)
(* The server of yojimbo above the queues: what it keeps of a connection   *)
(* goes with it, for any slots, messages, sizes of queues and of the       *)
(* simulator.                                                              *)
(***************************************************************************)
CONSTANTS Slots, Messages, SendQueueSize, ReceiveQueueSize, MaxPerPacket, NumEntries
VARIABLES running, slot, active, entries, current, made, said, heard

Server == INSTANCE YojimboServer

\* Is this, of a connection k, among what was said?
Said(by, k, m, S) == [by |-> by, in |-> k, message |-> m] \in S

\* Whatever is kept for a slot was sent in the connection of its client.
OwnPacket(x, d, S) == \A i \in 1..Len(d) : Said("client", x.client, d[i], S)
Own(x, S) ==
    /\ \A i \in 1..Len(x.send) : Said("game", x.client, x.send[i], S)
    /\ \A i \in 1..Len(x.receive) : Said("client", x.client, x.receive[i], S)
    /\ \A i \in 1..Len(x.inbox) : OwnPacket(x, x.inbox[i], S)
    /\ \A d \in x.partial : OwnPacket(x, d, S)

\* A free slot is fresh; an error in it is that of its allocator.
Fresh(x) ==
    x.client = 0 => /\ x.inbox = <<>> /\ x.partial = {} /\ x.send = <<>> /\ x.receive = <<>>
                    /\ ~x.channelError /\ (x.error => x.exhausted)
SlotsOwn == \A s \in Slots : Own(slot[s], said) /\ Fresh(slot[s])

\* A packet in the simulator is for whoever has the slot now, and only an active
\* simulator holds any: one that is not is not asked to discard a client's packets.
Held(e) ==
    e.used => /\ active /\ slot[e.to].client # 0
              /\ \A m \in e.messages : Said("game", slot[e.to].client, m, said)
EntriesHeld == \A i \in DOMAIN entries : Held(entries[i])

ServerInv == SlotsOwn /\ EntriesHeld /\ Server!OnlyOwnMessages

(***************************************************************************)
(* Packets and queues.                                                     *)
(***************************************************************************)

LEMMA UnusedIs ==
    ASSUME made \in Nat
    PROVE  /\ Server!Unused \in Server!SlotType
           /\ Server!Unused.client = 0 /\ Server!Unused.inbox = <<>> /\ Server!Unused.partial = {}
           /\ Server!Unused.send = <<>> /\ Server!Unused.receive = <<>>
           /\ Server!Unused.channelError = FALSE /\ Server!Unused.error = FALSE /\ Server!Unused.exhausted = FALSE
BY DEF Server!Unused, Server!SlotType

LEMMA Fields ==
    ASSUME NEW x \in Server!SlotType
    PROVE  x = [client |-> x.client, inbox |-> x.inbox, partial |-> x.partial, send |-> x.send,
                receive |-> x.receive, channelError |-> x.channelError, error |-> x.error,
                exhausted |-> x.exhausted]
BY DEF Server!SlotType

LEMMA SameFields ==
    ASSUME NEW x \in Server!SlotType, NEW y \in Server!SlotType,
           x.client = y.client, x.inbox = y.inbox, x.partial = y.partial, x.send = y.send,
           x.receive = y.receive, x.channelError = y.channelError, x.error = y.error,
           x.exhausted = y.exhausted
    PROVE  x = y
<1>1. x = [client |-> x.client, inbox |-> x.inbox, partial |-> x.partial, send |-> x.send,
           receive |-> x.receive, channelError |-> x.channelError, error |-> x.error,
           exhausted |-> x.exhausted]
  BY Fields
<1>2. y = [client |-> y.client, inbox |-> y.inbox, partial |-> y.partial, send |-> y.send,
           receive |-> y.receive, channelError |-> y.channelError, error |-> y.error,
           exhausted |-> y.exhausted]
  BY Fields
<1> QED
  BY <1>1, <1>2, Zenon

LEMMA PacketIsSeq == Server!Packet \subseteq Seq(Messages)
BY DEF Server!Packet

LEMMA TailOf ==
    ASSUME NEW S, NEW q \in Seq(S), q # <<>>
    PROVE  /\ Tail(q) \in Seq(S) /\ Head(q) \in S /\ Head(q) = q[1]
           /\ Len(q) \in Nat /\ 1 \in 1..Len(q)
           /\ Len(Tail(q)) = Len(q) - 1
           /\ \A i \in 1..Len(Tail(q)) : i + 1 \in 1..Len(q) /\ Tail(q)[i] = q[i + 1]
OBVIOUS

LEMMA AppendOf ==
    ASSUME NEW S, NEW q \in Seq(S), NEW e \in S
    PROVE  /\ Append(q, e) \in Seq(S) /\ Len(q) \in Nat
           /\ Len(Append(q, e)) = Len(q) + 1
           /\ \A i \in 1..Len(Append(q, e)) :
                 Append(q, e)[i] = IF i = Len(q) + 1 THEN e ELSE q[i]
           /\ \A i \in 1..Len(Append(q, e)) : i # Len(q) + 1 => i \in 1..Len(q)
OBVIOUS

LEMMA RestOf ==
    ASSUME NEW S, NEW q \in Seq(S), NEW n \in 0..Len(q)
    PROVE  /\ SubSeq(q, n + 1, Len(q)) \in Seq(S)
           /\ \A i \in 1..Len(SubSeq(q, n + 1, Len(q))) :
                 /\ n + i \in 1..Len(q)
                 /\ SubSeq(q, n + 1, Len(q))[i] = q[n + i]
OBVIOUS

\* The part of a packet there is room for, if there is room at all.
LEMMA StartOf ==
    ASSUME NEW S, NEW d \in Seq(S), NEW n \in Int, n <= Len(d)
    PROVE  /\ SubSeq(d, 1, n) \in Seq(S)
           /\ \A i \in 1..Len(SubSeq(d, 1, n)) : i \in 1..Len(d) /\ SubSeq(d, 1, n)[i] = d[i]
<1>1. CASE n < 1
  BY <1>1
<1>2. CASE n >= 1
  BY <1>2
<1> QED
  BY <1>1, <1>2

LEMMA JoinOf ==
    ASSUME NEW S, NEW p \in Seq(S), NEW q \in Seq(S)
    PROVE  /\ p \o q \in Seq(S)
           /\ \A i \in 1..Len(p \o q) :
                 \/ i \in 1..Len(p) /\ (p \o q)[i] = p[i]
                 \/ i - Len(p) \in 1..Len(q) /\ (p \o q)[i] = q[i - Len(p)]
OBVIOUS

(***************************************************************************)
(* Steps.                                                                  *)
(***************************************************************************)

LEMMA InitHolds == Server!Init => Server!TypeOK /\ ServerInv
<1> SUFFICES ASSUME Server!Init PROVE Server!TypeOK /\ ServerInv
  OBVIOUS
<1>1. Server!Unused \in Server!SlotType /\ Own(Server!Unused, said) /\ Fresh(Server!Unused)
  BY DEF Server!Init, Server!Unused, Server!SlotType, Own, Fresh
<1>2. Server!TypeOK
  BY <1>1 DEF Server!Init, Server!TypeOK, Server!NoPackets, Server!NoPacket
<1> QED
  BY <1>1, <1>2 DEF Server!Init, ServerInv, SlotsOwn, EntriesHeld,
                    Held, Server!NoPackets, Server!NoPacket, Server!OnlyOwnMessages

LEMMA MoreSaid ==
    ASSUME NEW x, NEW S, NEW T, S \subseteq T, Own(x, S)
    PROVE  Own(x, T)
BY DEF Own, OwnPacket, Said

\* A step that changes one slot, whose client stays, and what is said.
LEMMA SlotStep ==
    ASSUME Server!TypeOK, ServerInv, NEW s \in Slots, NEW y \in Server!SlotType,
           slot' = [slot EXCEPT ![s] = y],
           y.client = slot[s].client, y.client # 0 \/ Fresh(y), Own(y, said'),
           made' = made, said \subseteq said'
    PROVE  /\ slot' \in [Slots -> Server!SlotType'] /\ SlotsOwn'
           /\ \A t \in Slots : slot'[t].client = slot[t].client
<1>1. Server!SlotType' = Server!SlotType
  BY DEF Server!SlotType
<1>2. \A t \in Slots : slot'[t] = IF t = s THEN y ELSE slot[t]
  BY DEF Server!TypeOK
<1>3. \A t \in Slots : Own(slot[t], said')
  BY MoreSaid DEF ServerInv, SlotsOwn
<1>4. Fresh(y)
  BY DEF Fresh
<1>5. SlotsOwn'
  BY <1>2, <1>3, <1>4 DEF ServerInv, SlotsOwn, Own, Fresh
<1> QED
  BY <1>1, <1>2, <1>5 DEF Server!TypeOK

LEMMA EntriesStay ==
    ASSUME Server!TypeOK, ServerInv, active' = active, entries' = entries, said \subseteq said',
           \A t \in Slots : slot'[t].client = slot[t].client
    PROVE  EntriesHeld'
BY DEF Server!TypeOK, ServerInv, EntriesHeld, Held, Said

LEMMA HeardStays ==
    ASSUME Server!OnlyOwnMessages, heard' = heard, said \subseteq said'
    PROVE  Server!OnlyOwnMessages'
BY DEF Server!OnlyOwnMessages, Server!Partner

LEMMA RenewHolds ==
    ASSUME Server!TypeOK, ServerInv, Server!Renew, running' \in BOOLEAN
    PROVE  (Server!TypeOK /\ ServerInv)'
<1>1. Server!Unused \in Server!SlotType' /\ Own(Server!Unused, said') /\ Fresh(Server!Unused)
  BY DEF Server!TypeOK, Server!Renew, Server!history, Server!Unused, Server!SlotType, Own, Fresh
<1>2. Server!TypeOK'
  BY <1>1 DEF Server!Renew, Server!history, Server!TypeOK, Server!NoPackets, Server!NoPacket
<1>3. Server!OnlyOwnMessages'
  BY HeardStays DEF ServerInv, Server!Renew, Server!history
<1> QED
  BY <1>1, <1>2, <1>3 DEF Server!Renew, ServerInv, SlotsOwn,
                          EntriesHeld, Held, Server!NoPackets, Server!NoPacket

LEMMA SimulatorHolds ==
    ASSUME Server!TypeOK, ServerInv, NEW on \in BOOLEAN, Server!SetSimulator(on)
    PROVE  (Server!TypeOK /\ ServerInv)'
<1>1. Server!TypeOK'
  BY DEF Server!SetSimulator, Server!history, Server!TypeOK,
         Server!SlotType, Server!NoPackets, Server!NoPacket
<1>2. Server!OnlyOwnMessages'
  BY HeardStays DEF ServerInv, Server!SetSimulator, Server!history
<1>3. SlotsOwn'
  BY DEF ServerInv, SlotsOwn, Server!SetSimulator, Server!history, Own, OwnPacket, Said, Fresh
<1>4. EntriesHeld'
  BY DEF ServerInv, Server!SetSimulator, Server!history, EntriesHeld,
         Held, Said, Server!NoPackets, Server!NoPacket
<1> QED
  BY <1>1, <1>2, <1>3, <1>4 DEF ServerInv

LEMMA GameSendsHolds ==
    ASSUME Server!TypeOK, ServerInv, NEW s \in Slots, NEW m \in Messages, Server!GameSends(s, m)
    PROVE  (Server!TypeOK /\ ServerInv)'
<1> DEFINE x == slot[s]
           full == Len(x.send) >= SendQueueSize
           y == [x EXCEPT !.send = IF x.channelError \/ full THEN @ ELSE Append(@, m),
                          !.channelError = @ \/ full]
<1>1. x \in Server!SlotType /\ x.client # 0 /\ Own(x, said)
  BY DEF Server!GameSends, Server!Connected, Server!TypeOK, ServerInv, SlotsOwn
<1>2. slot' = [slot EXCEPT ![s] = y]
  BY <1>1 DEF Server!GameSends, Server!TypeOK, Server!SlotType
<1>3. /\ said \subseteq said' /\ made' = made
      /\ Said("game", x.client, m, said')
      /\ UNCHANGED <<running, active, entries, current, heard>>
  BY DEF Server!GameSends, Server!simulator, Said
<1>4. /\ Append(x.send, m) \in Seq(Messages) /\ full \in BOOLEAN
      /\ \A i \in 1..Len(Append(x.send, m)) :
            Append(x.send, m)[i] = m \/ (i \in 1..Len(x.send) /\ Append(x.send, m)[i] = x.send[i])
  BY <1>1, AppendOf DEF Server!SlotType
<1>5. y \in Server!SlotType /\ y.client = x.client
  BY <1>1, <1>4 DEF Server!SlotType
<1>6. Own(x, said')
  BY <1>1, <1>3, MoreSaid
<1>7. Own(y, said')
  BY <1>1, <1>3, <1>4, <1>6 DEF Own, OwnPacket, Server!SlotType
<1> HIDE DEF y
<1>8. slot' \in [Slots -> Server!SlotType'] /\ SlotsOwn' /\ \A t \in Slots : slot'[t].client = slot[t].client
  BY <1>1, <1>2, <1>3, <1>5, <1>7, SlotStep
<1>9. EntriesHeld' /\ Server!OnlyOwnMessages'
  BY <1>3, <1>8, EntriesStay, HeardStays DEF ServerInv
<1> QED
  BY <1>3, <1>8, <1>9 DEF Server!TypeOK, ServerInv

LEMMA GameReceivesHolds ==
    ASSUME Server!TypeOK, ServerInv, NEW s \in Slots, Server!GameReceives(s)
    PROVE  (Server!TypeOK /\ ServerInv)'
<1> DEFINE x == slot[s]
           y == [x EXCEPT !.receive = Tail(@)]
<1>1. x \in Server!SlotType /\ x.client # 0 /\ Own(x, said) /\ x.receive # <<>>
  BY DEF Server!GameReceives, Server!Connected, Server!TypeOK, ServerInv, SlotsOwn
<1>2. slot' = [slot EXCEPT ![s] = y]
  BY <1>1 DEF Server!GameReceives, Server!TypeOK, Server!SlotType
<1>3. /\ said' = said /\ made' = made /\ UNCHANGED <<running, active, entries, current>>
      /\ heard' = heard \union {[by |-> "game", in |-> x.client, message |-> Head(x.receive)]}
  BY DEF Server!GameReceives, Server!simulator
<1>4. /\ Tail(x.receive) \in Seq(Messages)
      /\ Head(x.receive) = x.receive[1] /\ 1 \in 1..Len(x.receive)
      /\ \A i \in 1..Len(Tail(x.receive)) :
            i + 1 \in 1..Len(x.receive) /\ Tail(x.receive)[i] = x.receive[i + 1]
  BY <1>1, TailOf DEF Server!SlotType
<1>5. y \in Server!SlotType /\ y.client = x.client
  BY <1>1, <1>4 DEF Server!SlotType
<1>6. Own(y, said')
  BY <1>1, <1>3, <1>4 DEF Own, OwnPacket, Server!SlotType
<1>7. [by |-> "client", in |-> x.client, message |-> Head(x.receive)] \in said'
  BY <1>1, <1>3, <1>4 DEF Own, Said
<1> HIDE DEF y
<1>8. slot' \in [Slots -> Server!SlotType'] /\ SlotsOwn' /\ \A t \in Slots : slot'[t].client = slot[t].client
  BY <1>1, <1>2, <1>3, <1>5, <1>6, SlotStep
<1>9. EntriesHeld'
  BY <1>3, <1>8, EntriesStay
<1>10. Server!OnlyOwnMessages'
  <2>1. ASSUME NEW h \in heard PROVE [h EXCEPT !.by = Server!Partner(@)] \in said'
    BY <1>3 DEF ServerInv, Server!OnlyOwnMessages
  <2>2. ASSUME NEW h, h = [by |-> "game", in |-> x.client, message |-> Head(x.receive)]
        PROVE  [h EXCEPT !.by = Server!Partner(@)] = [by |-> "client", in |-> x.client, message |-> Head(x.receive)]
    BY <2>2 DEF Server!Partner
  <2> QED
    BY <1>3, <1>7, <2>1, <2>2 DEF Server!OnlyOwnMessages
<1> QED
  BY <1>3, <1>8, <1>9, <1>10 DEF Server!TypeOK, ServerInv

\* A packet that reaches the client of a slot holds what was said to it.
LEMMA ReachedIsOwn ==
    ASSUME Server!OnlyOwnMessages, NEW s, NEW d, said' = said,
           slot[s].client # 0 => \A m \in d : Said("game", slot[s].client, m, said),
           heard' = heard \union Server!Reaches(s, d)
    PROVE  Server!OnlyOwnMessages'
<1>1. ASSUME NEW h \in heard PROVE [h EXCEPT !.by = Server!Partner(@)] \in said'
  BY DEF Server!OnlyOwnMessages
<1>2. ASSUME NEW h \in Server!Reaches(s, d) PROVE [h EXCEPT !.by = Server!Partner(@)] \in said'
  <2>1. PICK m \in d : h = [by |-> "client", in |-> slot[s].client, message |-> m] /\ slot[s].client # 0
    BY <1>2 DEF Server!Reaches, Server!Connected
  <2>2. [h EXCEPT !.by = Server!Partner(@)] = [by |-> "game", in |-> slot[s].client, message |-> m]
    BY <2>1 DEF Server!Partner
  <2> QED
    BY <2>1, <2>2 DEF Said
<1> QED
  BY <1>1, <1>2 DEF Server!OnlyOwnMessages

LEMMA SimulateHolds ==
    ASSUME Server!TypeOK, ServerInv, NEW s \in Slots, NEW d \in SUBSET Messages, active, Server!Simulate(s, d),
           \A m \in d : Said("game", slot[s].client, m, said), slot[s].client # 0,
           said' = said, \A t \in Slots : slot'[t].client = slot[t].client
    PROVE  /\ EntriesHeld' /\ heard' = heard /\ active' = active
           /\ entries' \in [0..(NumEntries - 1) ->
                              [to : Slots \union {0}, messages : SUBSET Messages, used : BOOLEAN]]
           /\ \A i \in DOMAIN entries' : entries'[i].used => entries'[i].to \in Slots
<1>1. Server!Entry(s, d) \in [to : Slots \union {0}, messages : SUBSET Messages, used : BOOLEAN]
  BY DEF Server!Entry
<1>2. /\ DOMAIN entries' = DOMAIN entries
      /\ \A i \in DOMAIN entries : entries'[i] = entries[i] \/ entries'[i] = Server!Entry(s, d)
  BY DEF Server!Simulate, Server!TypeOK
<1>3. ASSUME NEW i \in DOMAIN entries PROVE Held(entries[i])' /\ (entries'[i].used => entries'[i].to \in Slots)
  <2>1. CASE entries'[i] = entries[i]
    BY <2>1 DEF Server!Simulate, Server!TypeOK, ServerInv, EntriesHeld, Held, Said
  <2>2. CASE entries'[i] = Server!Entry(s, d)
    BY <2>2 DEF Server!Simulate, Server!Entry, Held, Said
  <2> QED
    BY <1>2, <2>1, <2>2
<1>4. entries' \in [0..(NumEntries - 1) -> [to : Slots \union {0}, messages : SUBSET Messages, used : BOOLEAN]]
  BY <1>1 DEF Server!Simulate, Server!TypeOK
<1> QED
  BY <1>2, <1>3, <1>4 DEF Server!Simulate, EntriesHeld

LEMMA SendPacketHolds ==
    ASSUME Server!TypeOK, ServerInv, NEW s \in Slots, Server!SendPacket(s)
    PROVE  (Server!TypeOK /\ ServerInv)'
<1>1. PICK n \in 0..Len(slot[s].send) : \E fits \in SUBSET (1..n), out \in BOOLEAN :
          /\ slot' = [slot EXCEPT ![s].send = SubSeq(@, n + 1, Len(@)),
                                  ![s].exhausted = @ \/ out]
          /\ LET d == {slot[s].send[i] : i \in fits}
             IN \/ out /\ d # {} /\ UNCHANGED <<Server!simulator, heard>>
                \/ ~out /\ active /\ Server!Simulate(s, d)
                \/ ~out /\ ~active /\ Server!Netcode(s, d)
  BY DEF Server!SendPacket
<1>2. PICK fits \in SUBSET (1..n), out \in BOOLEAN :
          /\ slot' = [slot EXCEPT ![s].send = SubSeq(@, n + 1, Len(@)),
                                  ![s].exhausted = @ \/ out]
          /\ LET d == {slot[s].send[i] : i \in fits}
             IN \/ out /\ d # {} /\ UNCHANGED <<Server!simulator, heard>>
                \/ ~out /\ active /\ Server!Simulate(s, d)
                \/ ~out /\ ~active /\ Server!Netcode(s, d)
  BY <1>1
<1> DEFINE x == slot[s]
           y == [x EXCEPT !.send = SubSeq(@, n + 1, Len(@)), !.exhausted = @ \/ out]
           d == {x.send[i] : i \in fits}
<1>3. x \in Server!SlotType /\ x.client # 0 /\ Own(x, said)
  BY DEF Server!SendPacket, Server!Connected, Server!TypeOK, ServerInv, SlotsOwn
<1>4. slot' = [slot EXCEPT ![s] = y]
  BY <1>2, <1>3 DEF Server!TypeOK, Server!SlotType
<1>5. said' = said /\ made' = made /\ running' = running
  BY DEF Server!SendPacket
<1>6. /\ SubSeq(x.send, n + 1, Len(x.send)) \in Seq(Messages)
      /\ \A i \in 1..Len(SubSeq(x.send, n + 1, Len(x.send))) :
            n + i \in 1..Len(x.send) /\ SubSeq(x.send, n + 1, Len(x.send))[i] = x.send[n + i]
  BY <1>3, RestOf DEF Server!SlotType
<1>7. y \in Server!SlotType /\ y.client = x.client
  BY <1>3, <1>6 DEF Server!SlotType
<1>8. Own(y, said')
  BY <1>3, <1>5, <1>6 DEF Own, OwnPacket, Server!SlotType
<1>9. fits \subseteq 1..Len(x.send)
  BY <1>3 DEF Server!SlotType
<1>10. d \in SUBSET Messages /\ \A m \in d : Said("game", x.client, m, said)
  BY <1>3, <1>9 DEF Server!SlotType, Own
<1> HIDE DEF y
<1>11. slot' \in [Slots -> Server!SlotType'] /\ SlotsOwn' /\ \A t \in Slots : slot'[t].client = slot[t].client
  BY <1>3, <1>4, <1>5, <1>7, <1>8, SlotStep
<1>12. CASE UNCHANGED <<Server!simulator, heard>>
  <2>1. EntriesHeld' /\ Server!OnlyOwnMessages'
    BY <1>5, <1>11, <1>12, EntriesStay, HeardStays DEF ServerInv, Server!simulator
  <2> QED
    BY <1>5, <1>11, <1>12, <2>1 DEF Server!TypeOK, ServerInv, Server!simulator
<1>13. CASE active /\ Server!Simulate(s, d)
  <2> HIDE DEF d
  <2>1. /\ EntriesHeld' /\ heard' = heard /\ active' = active
        /\ entries' \in [0..(NumEntries - 1) ->
                           [to : Slots \union {0}, messages : SUBSET Messages, used : BOOLEAN]]
        /\ \A i \in DOMAIN entries' : entries'[i].used => entries'[i].to \in Slots
    BY <1>3, <1>5, <1>10, <1>11, <1>13, SimulateHolds
  <2>2. Server!OnlyOwnMessages'
    BY <1>5, <2>1, HeardStays DEF ServerInv
  <2> QED
    BY <1>5, <1>11, <2>1, <2>2 DEF Server!TypeOK, ServerInv
<1>14. CASE Server!Netcode(s, d)
  <2> HIDE DEF d
  <2>1. Server!OnlyOwnMessages'
    BY <1>5, <1>10, <1>14, ReachedIsOwn DEF ServerInv, Server!Netcode
  <2>2. EntriesHeld'
    BY <1>5, <1>11, <1>14, EntriesStay DEF Server!Netcode, Server!simulator
  <2> QED
    BY <1>5, <1>11, <1>14, <2>1, <2>2 DEF Server!TypeOK, ServerInv, Server!Netcode, Server!simulator
<1> QED
  BY <1>2, <1>12, <1>13, <1>14

LEMMA ClientSendsHolds ==
    ASSUME Server!TypeOK, ServerInv, NEW s \in Slots, NEW d \in Server!Packet, Server!ClientSends(s, d)
    PROVE  (Server!TypeOK /\ ServerInv)'
<1> DEFINE x == slot[s]
           y == [x EXCEPT !.inbox = IF Len(@) < Server!PayloadsMax THEN Append(@, d) ELSE @]
<1>1. x \in Server!SlotType /\ x.client # 0 /\ Own(x, said)
  BY DEF Server!ClientSends, Server!Connected, Server!TypeOK, ServerInv, SlotsOwn
<1>2. slot' = [slot EXCEPT ![s] = y]
  BY <1>1 DEF Server!ClientSends, Server!TypeOK, Server!SlotType
<1>3. /\ said \subseteq said' /\ made' = made
      /\ \A i \in 1..Len(d) : Said("client", x.client, d[i], said')
      /\ UNCHANGED <<running, active, entries, current, heard>>
  BY DEF Server!ClientSends, Server!simulator, Said
<1>4. /\ Append(x.inbox, d) \in Seq(Server!Packet)
      /\ \A i \in 1..Len(Append(x.inbox, d)) :
            Append(x.inbox, d)[i] = d \/ (i \in 1..Len(x.inbox) /\ Append(x.inbox, d)[i] = x.inbox[i])
  BY <1>1, AppendOf DEF Server!SlotType
<1>5. y \in Server!SlotType /\ y.client = x.client
  BY <1>1, <1>4 DEF Server!SlotType
<1>6. Own(x, said')
  BY <1>1, <1>3, MoreSaid
<1>7. Own(y, said')
  <2>1. \A i \in 1..Len(y.inbox) : y.inbox[i] = d \/ (i \in 1..Len(x.inbox) /\ y.inbox[i] = x.inbox[i])
    BY <1>1, <1>4 DEF Server!SlotType
  <2>2. /\ y.client = x.client /\ y.send = x.send /\ y.receive = x.receive /\ y.partial = x.partial
    BY <1>1 DEF Server!SlotType
  <2> HIDE DEF y
  <2> QED
    BY <1>3, <1>6, <2>1, <2>2 DEF Own, OwnPacket
<1> HIDE DEF y
<1>8. slot' \in [Slots -> Server!SlotType'] /\ SlotsOwn' /\ \A t \in Slots : slot'[t].client = slot[t].client
  BY <1>1, <1>2, <1>3, <1>5, <1>7, SlotStep
<1>9. EntriesHeld' /\ Server!OnlyOwnMessages'
  BY <1>3, <1>8, EntriesStay, HeardStays DEF ServerInv
<1> QED
  BY <1>3, <1>8, <1>9 DEF Server!TypeOK, ServerInv

\* Reading a packet keeps a slot that holds what its client sent as it was.
LEMMA ProcessedIsOwn ==
    ASSUME NEW x \in Server!SlotType, NEW d \in Server!Packet, NEW S, Own(x, S), OwnPacket(x, d, S),
           ReceiveQueueSize \in Int, NEW y \in Server!Processed(x, d)
    PROVE  y \in Server!SlotType /\ y.client = x.client /\ Own(y, S)
<1>1. CASE y = x
  BY <1>1
<1>2. CASE y \in Server!Unread(x)
  BY <1>2 DEF Server!Unread, Server!SlotType, Own, OwnPacket
<1>3. CASE y = Server!Read(x, d)
  <2> DEFINE n == IF Len(d) < Server!Room(x) THEN Len(d) ELSE Server!Room(x)
             part == SubSeq(d, 1, n)
  <2>1. d \in Seq(Messages) /\ x.receive \in Seq(Messages)
    BY PacketIsSeq DEF Server!SlotType
  <2>2. n \in Int /\ n <= Len(d)
    BY <2>1 DEF Server!Room
  <2>3. /\ part \in Seq(Messages)
        /\ \A i \in 1..Len(part) : i \in 1..Len(d) /\ part[i] = d[i]
    BY <2>1, <2>2, StartOf
  <2>4. y = [x EXCEPT !.receive = @ \o part]
    BY <1>3 DEF Server!Read
  <2> HIDE DEF n, part
  <2>5. /\ x.receive \o part \in Seq(Messages)
        /\ \A i \in 1..Len(x.receive \o part) :
              \/ i \in 1..Len(x.receive) /\ (x.receive \o part)[i] = x.receive[i]
              \/ /\ i - Len(x.receive) \in 1..Len(part)
                 /\ (x.receive \o part)[i] = part[i - Len(x.receive)]
    BY <2>1, <2>3, JoinOf
  <2>6. /\ y \in Server!SlotType /\ y.client = x.client /\ y.send = x.send /\ y.inbox = x.inbox
        /\ y.partial = x.partial /\ y.receive = x.receive \o part
    BY <2>4, <2>5 DEF Server!SlotType
  <2>7. \A i \in 1..Len(y.receive) : Said("client", x.client, y.receive[i], S)
    BY <2>3, <2>5, <2>6 DEF Own, OwnPacket
  <2> QED
    BY <2>6, <2>7 DEF Own, OwnPacket
<1> QED
  BY <1>1, <1>2, <1>3 DEF Server!Processed

LEMMA ReceivePacketHolds ==
    ASSUME Server!TypeOK, ServerInv, ReceiveQueueSize \in Int, NEW s \in Slots, Server!ReceivePacket(s)
    PROVE  (Server!TypeOK /\ ServerInv)'
<1> DEFINE z == slot[s]
           d == Head(z.inbox)
           x == [z EXCEPT !.inbox = Tail(@)]
<1>1. z \in Server!SlotType /\ z.client # 0 /\ Own(z, said) /\ z.inbox # <<>>
  BY DEF Server!ReceivePacket, Server!Connected, Server!TypeOK, ServerInv, SlotsOwn
<1>2. /\ said' = said /\ made' = made
      /\ UNCHANGED <<running, active, entries, current, heard>>
  BY DEF Server!ReceivePacket, Server!simulator, Server!history
<1>3. /\ Tail(z.inbox) \in Seq(Server!Packet) /\ d \in Server!Packet
      /\ d = z.inbox[1] /\ 1 \in 1..Len(z.inbox)
      /\ \A i \in 1..Len(Tail(z.inbox)) :
            i + 1 \in 1..Len(z.inbox) /\ Tail(z.inbox)[i] = z.inbox[i + 1]
  BY <1>1, TailOf DEF Server!SlotType
<1>4. /\ x \in Server!SlotType /\ x.client = z.client /\ x.send = z.send /\ x.receive = z.receive
      /\ x.partial = z.partial /\ x.inbox = Tail(z.inbox)
  BY <1>1, <1>3 DEF Server!SlotType
<1>5. Own(x, said) /\ OwnPacket(x, d, said)
  <2> HIDE DEF x, d
  <2> QED
    BY <1>1, <1>3, <1>4 DEF Own, OwnPacket
<1> HIDE DEF x, d
<1>6. \A w \in x.partial \union {d} : w \in Server!Packet /\ OwnPacket(x, w, said)
  BY <1>3, <1>4, <1>5 DEF Server!SlotType, Own
<1>7. ASSUME NEW kept \in SUBSET (x.partial \union {d}), NEW w, w = [x EXCEPT !.partial = kept]
       PROVE  w \in Server!SlotType /\ w.client = z.client /\ Own(w, said)
  <2>1. /\ w \in Server!SlotType /\ w.client = x.client /\ w.send = x.send /\ w.receive = x.receive
        /\ w.inbox = x.inbox /\ w.partial = kept
    BY <1>4, <1>6, <1>7 DEF Server!SlotType
  <2> QED
    BY <1>4, <1>5, <1>6, <2>1 DEF Own, OwnPacket
<1>8. \E y \in Server!SlotType : y.client = z.client /\ Own(y, said) /\ slot' = [slot EXCEPT ![s] = y]
  <2>1. ASSUME NEW kept \in SUBSET (x.partial \union {d}),
               slot' = [slot EXCEPT ![s] = [x EXCEPT !.partial = kept]]
        PROVE  \E y \in Server!SlotType : y.client = z.client /\ Own(y, said) /\ slot' = [slot EXCEPT ![s] = y]
    BY <1>7, <2>1
  <2>2. ASSUME NEW whole \in x.partial \union {d},
               NEW kept \in SUBSET ((x.partial \union {d}) \ {whole}),
               NEW y \in Server!Processed([x EXCEPT !.partial = kept], whole),
               slot' = [slot EXCEPT ![s] = y]
        PROVE  \E w \in Server!SlotType : w.client = z.client /\ Own(w, said) /\ slot' = [slot EXCEPT ![s] = w]
    <3> DEFINE w == [x EXCEPT !.partial = kept]
    <3>1. w \in Server!SlotType /\ w.client = z.client /\ Own(w, said)
      BY <1>7, <2>2
    <3>2. y \in Server!Processed(w, whole) /\ whole \in Server!Packet
      BY <1>6, <2>2
    <3> HIDE DEF w
    <3>3. OwnPacket(w, whole, said)
      BY <1>4, <1>6, <2>2, <3>1 DEF OwnPacket
    <3>4. y \in Server!SlotType /\ y.client = w.client /\ Own(y, said)
      BY <3>1, <3>2, <3>3, ProcessedIsOwn
    <3> QED
      BY <2>2, <3>1, <3>4
  <2>3. \/ \E kept \in SUBSET (x.partial \union {d}) :
              slot' = [slot EXCEPT ![s] = [x EXCEPT !.partial = kept]]
        \/ \E whole \in x.partial \union {d} :
              \E kept \in SUBSET ((x.partial \union {d}) \ {whole}) :
                 \E y \in Server!Processed([x EXCEPT !.partial = kept], whole) :
                    slot' = [slot EXCEPT ![s] = y]
    BY DEF Server!ReceivePacket, x, d
  <2> QED
    BY <2>1, <2>2, <2>3
<1>9. PICK y \in Server!SlotType : y.client = z.client /\ Own(y, said) /\ slot' = [slot EXCEPT ![s] = y]
  BY <1>8
<1>10. slot' \in [Slots -> Server!SlotType'] /\ SlotsOwn' /\ \A t \in Slots : slot'[t].client = slot[t].client
  BY <1>1, <1>2, <1>9, SlotStep
<1>11. EntriesHeld' /\ Server!OnlyOwnMessages'
  BY <1>2, <1>10, EntriesStay, HeardStays DEF ServerInv
<1> QED
  BY <1>2, <1>10, <1>11 DEF Server!TypeOK, ServerInv

\* A client is given a free slot: there is nothing of anybody in it, and nothing for
\* it in the simulator.
LEMMA ClientConnectsHolds ==
    ASSUME Server!TypeOK, ServerInv, NEW s \in Slots, Server!ClientConnects(s)
    PROVE  (Server!TypeOK /\ ServerInv)'
<1> DEFINE x == slot[s]
           y == [x EXCEPT !.client = made + 1]
<1>1. x \in Server!SlotType /\ x.client = 0 /\ Fresh(x) /\ made \in Nat
  BY DEF Server!ClientConnects, Server!Connected, Server!TypeOK, ServerInv, SlotsOwn
<1>2. slot' = [slot EXCEPT ![s] = y]
  BY <1>1 DEF Server!ClientConnects, Server!TypeOK, Server!SlotType
<1>3. made' = made + 1 /\ UNCHANGED <<running, active, entries, current, said, heard>>
  BY DEF Server!ClientConnects, Server!simulator
<1>4. \A w \in Server!SlotType : w \in Server!SlotType'
  BY <1>1, <1>3 DEF Server!SlotType
<1>5. y \in Server!SlotType'
  BY <1>1, <1>3 DEF Server!SlotType
<1>6. /\ y.client = made + 1 /\ y.client # 0 /\ y.inbox = <<>> /\ y.partial = {}
      /\ y.send = <<>> /\ y.receive = <<>>
  BY <1>1 DEF Server!SlotType, Fresh
<1> HIDE DEF y
<1>7. \A t \in Slots : slot'[t] = IF t = s THEN y ELSE slot[t]
  BY <1>2 DEF Server!TypeOK
<1>8. slot' \in [Slots -> Server!SlotType']
  BY <1>2, <1>4, <1>5 DEF Server!TypeOK
<1>9. SlotsOwn'
  BY <1>3, <1>6, <1>7 DEF ServerInv, SlotsOwn, Own, Fresh
<1>10. EntriesHeld'
  <2>1. ASSUME NEW i \in DOMAIN entries PROVE Held(entries[i])'
    <3>1. Held(entries[i])
      BY DEF ServerInv, EntriesHeld
    <3> SUFFICES ASSUME entries[i].used PROVE Held(entries[i])'
      BY <1>3 DEF Held
    <3>2. entries[i].to \in Slots /\ entries[i].to # s
      BY <1>1, <3>1 DEF Server!TypeOK, Held
    <3> QED
      BY <1>3, <1>7, <3>1, <3>2 DEF Held, Said
  <2> QED
    BY <1>3, <2>1 DEF EntriesHeld
<1>11. Server!OnlyOwnMessages'
  BY <1>3, HeardStays DEF ServerInv
<1> QED
  BY <1>1, <1>3, <1>8, <1>9, <1>10, <1>11 DEF Server!TypeOK, ServerInv

\* A slot is freed: what it holds goes, and what the simulator holds for it.
LEMMA FreeHolds ==
    ASSUME Server!TypeOK, ServerInv, NEW s \in Slots, Server!Free(s)
    PROVE  (Server!TypeOK /\ ServerInv)'
<1> DEFINE x == slot[s]
           y == Server!Cleared(x)
<1>1. x \in Server!SlotType
  BY DEF Server!TypeOK
<1>2. slot' = [slot EXCEPT ![s] = y] /\ UNCHANGED <<running, active, current, made, said, heard>>
  BY DEF Server!Free, Server!history
<1>3. /\ y \in Server!SlotType /\ y.client = 0 /\ y.inbox = <<>> /\ y.partial = {}
      /\ y.send = <<>> /\ y.receive = <<>> /\ y.channelError = FALSE /\ y.error = FALSE
  BY <1>1, UnusedIs DEF Server!TypeOK, Server!Cleared, Server!SlotType
<1>4. Server!SlotType' = Server!SlotType
  BY <1>2 DEF Server!SlotType
<1> HIDE DEF x, y
<1>5. y \in Server!SlotType' /\ Own(y, said') /\ Fresh(y)
  BY <1>3, <1>4 DEF Own, Fresh
<1>6. \A t \in Slots : slot'[t] = IF t = s THEN y ELSE slot[t]
  BY <1>2 DEF Server!TypeOK
<1>7. slot' \in [Slots -> Server!SlotType'] /\ SlotsOwn'
  BY <1>2, <1>5, <1>4, <1>6 DEF Server!TypeOK, ServerInv, SlotsOwn
<1>8. /\ DOMAIN entries' = DOMAIN entries
      /\ \A i \in DOMAIN entries :
            \/ entries'[i] = Server!NoPacket
            \/ entries'[i] = entries[i] /\ (active => ~(entries[i].used /\ entries[i].to = s))
  BY DEF Server!Free
<1>9. entries' \in [0..(NumEntries - 1) -> [to : Slots \union {0}, messages : SUBSET Messages, used : BOOLEAN]]
  BY DEF Server!Free, Server!TypeOK, Server!NoPacket
<1>10. \A i \in DOMAIN entries' : entries'[i].used => entries'[i].to \in Slots
  BY <1>8 DEF Server!TypeOK, Server!NoPacket
<1>11. EntriesHeld'
  <2>1. ASSUME NEW i \in DOMAIN entries PROVE Held(entries[i])'
    <3>1. CASE entries'[i] = Server!NoPacket
      BY <3>1 DEF Held, Server!NoPacket
    <3>2. CASE entries'[i] = entries[i] /\ (active => ~(entries[i].used /\ entries[i].to = s))
      <4>1. Held(entries[i])
        BY DEF ServerInv, EntriesHeld
      <4> SUFFICES ASSUME entries[i].used PROVE Held(entries[i])'
        BY <3>2 DEF Held
      <4>2. entries[i].to \in Slots /\ entries[i].to # s
        BY <3>2, <4>1 DEF Server!TypeOK, Held
      <4> QED
        BY <1>2, <1>6, <3>2, <4>1, <4>2 DEF Held, Said
    <3> QED
      BY <1>8, <3>1, <3>2
  <2> QED
    BY <1>8, <2>1 DEF EntriesHeld
<1>12. Server!OnlyOwnMessages'
  BY <1>2, HeardStays DEF ServerInv
<1> QED
  BY <1>2, <1>7, <1>9, <1>10, <1>11, <1>12 DEF Server!TypeOK, ServerInv

LEMMA AdvanceSlotHolds ==
    ASSUME Server!TypeOK, ServerInv, NEW s \in Slots, Server!AdvanceSlot(s)
    PROVE  (Server!TypeOK /\ ServerInv)'
<1>1. CASE Server!Connected(s)
  BY <1>1, FreeHolds DEF Server!AdvanceSlot
<1>2. CASE ~Server!Connected(s)
  <2> DEFINE x == slot[s]
             y == [x EXCEPT !.error = TRUE]
  <2>1. /\ x \in Server!SlotType /\ x.client = 0 /\ Own(x, said) /\ Fresh(x)
        /\ x.channelError \/ x.error \/ x.exhausted
    BY <1>2 DEF Server!AdvanceSlot, Server!Connected, Server!Failing,
                Server!TypeOK, ServerInv, SlotsOwn
  <2>2. slot' = [slot EXCEPT ![s] = y]
    BY <1>2, <2>1 DEF Server!AdvanceSlot, Server!TypeOK, Server!SlotType
  <2>3. UNCHANGED <<running, active, entries, current, made, said, heard>>
    BY <1>2 DEF Server!AdvanceSlot, Server!simulator, Server!history
  <2>4. y \in Server!SlotType /\ y.client = x.client
    BY <2>1 DEF Server!SlotType
  <2>5. Own(y, said') /\ Fresh(y)
    BY <2>1, <2>3 DEF Server!SlotType, Own, OwnPacket, Fresh
  <2> HIDE DEF y
  <2>6. slot' \in [Slots -> Server!SlotType'] /\ SlotsOwn' /\ \A t \in Slots : slot'[t].client = slot[t].client
    BY <2>1, <2>2, <2>3, <2>4, <2>5, SlotStep
  <2>7. EntriesHeld' /\ Server!OnlyOwnMessages'
    BY <2>3, <2>6, EntriesStay, HeardStays DEF ServerInv
  <2> QED
    BY <2>3, <2>6, <2>7 DEF Server!TypeOK, ServerInv
<1> QED
  BY <1>1, <1>2

LEMMA FlushEntryHolds ==
    ASSUME Server!TypeOK, ServerInv, NEW i \in 0..(NumEntries - 1), Server!FlushEntry(i)
    PROVE  (Server!TypeOK /\ ServerInv)'
<1> DEFINE e == entries[i]
<1>1. i \in DOMAIN entries /\ e.used /\ Held(e) /\ e.to \in Slots
  BY DEF Server!FlushEntry, Server!TypeOK, ServerInv, EntriesHeld
<1>2. /\ UNCHANGED <<running, slot, active, current, made, said>>
      /\ entries' = [entries EXCEPT ![i] = Server!NoPacket]
      /\ heard' = heard \union Server!Reaches(e.to, e.messages)
  BY DEF Server!FlushEntry
<1>3. Server!OnlyOwnMessages'
  BY <1>1, <1>2, ReachedIsOwn DEF ServerInv, Held
<1>4. EntriesHeld'
  BY <1>2 DEF Server!TypeOK, ServerInv, EntriesHeld, Held, Server!NoPacket, Said
<1>5. Server!TypeOK'
  BY <1>2 DEF Server!TypeOK, Server!SlotType, Server!NoPacket
<1>6. SlotsOwn'
  BY <1>2 DEF ServerInv, SlotsOwn, Own, OwnPacket, Said, Fresh
<1> QED
  BY <1>3, <1>4, <1>5, <1>6 DEF ServerInv

LEMMA StutterHolds ==
    ASSUME Server!TypeOK, ServerInv, UNCHANGED Server!vars PROVE (Server!TypeOK /\ ServerInv)'
BY DEF Server!vars, Server!simulator, Server!history, Server!TypeOK, Server!SlotType,
       ServerInv, SlotsOwn, Own, OwnPacket, Said,
       Fresh, EntriesHeld, Held, Server!OnlyOwnMessages, Server!Partner

LEMMA StepHolds ==
    ASSUME ReceiveQueueSize \in Int, Server!TypeOK, ServerInv, [Server!Next]_(Server!vars)
    PROVE  (Server!TypeOK /\ ServerInv)'
<1>1. CASE Server!Start
  BY <1>1, RenewHolds DEF Server!Start
<1>2. CASE Server!Stop
  BY <1>2, RenewHolds DEF Server!Stop
<1>3. ASSUME NEW on \in BOOLEAN, Server!SetSimulator(on) PROVE (Server!TypeOK /\ ServerInv)'
  BY <1>3, SimulatorHolds
<1>4. ASSUME NEW s \in Slots, NEW m \in Messages, Server!GameSends(s, m) PROVE (Server!TypeOK /\ ServerInv)'
  BY <1>4, GameSendsHolds
<1>5. ASSUME NEW s \in Slots, NEW d \in Server!Packet, Server!ClientSends(s, d) PROVE (Server!TypeOK /\ ServerInv)'
  BY <1>5, ClientSendsHolds
<1>6. ASSUME NEW s \in Slots, Server!GameReceives(s) PROVE (Server!TypeOK /\ ServerInv)'
  BY <1>6, GameReceivesHolds
<1>7. ASSUME NEW s \in Slots, Server!SendPacket(s) PROVE (Server!TypeOK /\ ServerInv)'
  BY <1>7, SendPacketHolds
<1>8. ASSUME NEW s \in Slots, Server!ReceivePacket(s) PROVE (Server!TypeOK /\ ServerInv)'
  BY <1>8, ReceivePacketHolds
<1>9. ASSUME NEW s \in Slots, Server!ClientConnects(s) PROVE (Server!TypeOK /\ ServerInv)'
  BY <1>9, ClientConnectsHolds
<1>10. ASSUME NEW s \in Slots, Server!Disconnect(s) PROVE (Server!TypeOK /\ ServerInv)'
  BY <1>10, FreeHolds DEF Server!Disconnect
<1>11. ASSUME NEW s \in Slots, Server!AdvanceSlot(s) PROVE (Server!TypeOK /\ ServerInv)'
  BY <1>11, AdvanceSlotHolds
<1>12. ASSUME NEW i \in 0..(NumEntries - 1), Server!FlushEntry(i) PROVE (Server!TypeOK /\ ServerInv)'
  BY <1>12, FlushEntryHolds
<1>13. CASE UNCHANGED Server!vars
  BY <1>13, StutterHolds
<1> QED
  BY <1>1, <1>2, <1>3, <1>4, <1>5, <1>6, <1>7, <1>8, <1>9, <1>10, <1>11, <1>12, <1>13 DEF Server!Next

(***************************************************************************)
(* Theorems.  A channel is set up with some size of its receive queue.     *)
(***************************************************************************)

LEMMA Holds ==
    ASSUME ReceiveQueueSize \in Int PROVE Server!Spec => [](Server!TypeOK /\ ServerInv)
<1>1. Server!TypeOK /\ ServerInv /\ [Server!Next]_(Server!vars) => (Server!TypeOK /\ ServerInv)'
  BY StepHolds
<1> QED
  BY InitHolds, <1>1, PTL DEF Server!Spec

\* The slots, the simulator and the histories keep their types; a packet that is held
\* back is for a slot there is.
THEOREM ServerTypes ==
    ASSUME ReceiveQueueSize \in Int PROVE Server!Spec => []Server!TypeOK
BY Holds, PTL

\* However slots go from client to client, and however long the simulator holds packets
\* back or how often it sends them: what is heard in a connection was said in it
\* (yojimbo.cpp: ConnectDisconnectCallbackFunction, DiscardClientPackets).
THEOREM OnlyOwn ==
    ASSUME ReceiveQueueSize \in Int PROVE Server!Spec => []Server!OnlyOwnMessages
<1>1. ServerInv => Server!OnlyOwnMessages
  BY DEF ServerInv
<1> QED
  BY Holds, <1>1, PTL

\* Connecting resets nothing, and need not: a free slot is as Start made it, but for
\* what its allocator remembers (yojimbo.cpp: Connection::Reset).
THEOREM FreshSlots ==
    ASSUME ReceiveQueueSize \in Int PROVE Server!Spec => []Server!FreeIsFresh
<1>1. Server!TypeOK /\ ServerInv => Server!FreeIsFresh
  <2> SUFFICES ASSUME Server!TypeOK, ServerInv, NEW s \in Slots, slot[s].client = 0
               PROVE  slot[s] = [Server!Unused EXCEPT !.exhausted = slot[s].exhausted, !.error = slot[s].error]
    BY DEF Server!FreeIsFresh, Server!Connected
  <2> DEFINE x == slot[s]
  <2>1. x \in Server!SlotType /\ Fresh(x) /\ x.client = 0
    BY DEF Server!TypeOK, ServerInv, SlotsOwn
  <2> DEFINE u == [Server!Unused EXCEPT !.exhausted = x.exhausted, !.error = x.error]
  <2>2. /\ u \in Server!SlotType /\ u.client = 0 /\ u.inbox = <<>> /\ u.partial = {}
        /\ u.send = <<>> /\ u.receive = <<>> /\ u.channelError = FALSE
        /\ u.error = x.error /\ u.exhausted = x.exhausted
    BY <2>1, UnusedIs DEF Server!TypeOK, Server!SlotType
  <2> HIDE DEF x, u
  <2>3. /\ x.inbox = u.inbox /\ x.partial = u.partial /\ x.send = u.send
        /\ x.receive = u.receive
    BY <2>1, <2>2 DEF Fresh
  <2>4. x.channelError = u.channelError
    BY <2>1, <2>2 DEF Server!SlotType, Fresh
  <2>5. x = u
    BY <2>1, <2>2, <2>3, <2>4, SameFields
  <2> QED
    BY <2>5 DEF x, u
<1> QED
  BY Holds, <1>1, PTL

\* An error that is not of the connection itself comes from the slot's allocator: that
\* is the one thing a client can inherit (yojimbo.cpp: Connection::AdvanceTime).
THEOREM OwnErrors ==
    ASSUME ReceiveQueueSize \in Int PROVE Server!Spec => []Server!ErrorsAreOwn
<1>1. Server!TypeOK /\ ServerInv => Server!ErrorsAreOwn
  BY DEF ServerInv, SlotsOwn, Fresh, Server!ErrorsAreOwn, Server!Connected
<1> QED
  BY Holds, <1>1, PTL
=============================================================================
