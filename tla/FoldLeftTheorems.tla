-------------------------- MODULE FoldLeftTheorems --------------------------
(***************************************************************************)
(* Induction for the other proofs: over the natural numbers, in a form     *)
(* that takes a set, and over the entries of a sequence that is folded.    *)
(* Instantiated with the operator that goes through the sequence.          *)
(***************************************************************************)
EXTENDS Integers, Sequences, SequencesExt, WellFoundedInduction, NaturalsInduction, TLAPS

CONSTANT Op(_, _)

\* The order of the natural numbers, as the set of pairs that WFMin asks for.
LEMMA NatOrder == IsWellFoundedOn({ss \in Nat \X Nat : ss[1] < ss[2]}, Nat)
BY NatLessThanWellFounded DEF OpToRel

\* A nonempty set of natural numbers has a smallest element.
LEMMA Least == ASSUME NEW T, T \subseteq Nat, T # {} PROVE \E x \in T : \A y \in T : x <= y
<1> DEFINE R == {ss \in Nat \X Nat : ss[1] < ss[2]}
<1>1. IsWellFoundedOn(R, Nat)
  BY NatOrder
<1>2. PICK x \in T : \A y \in T : ~(<<y, x>> \in R)
  <2> HIDE DEF R
  <2> QED BY <1>1, WFMin
<1>3. \A y \in T : ~(y < x)
  <2> TAKE y \in T
  <2>1. <<y, x>> \in Nat \X Nat /\ <<y, x>>[1] = y /\ <<y, x>>[2] = x
    OBVIOUS
  <2> QED BY <2>1, <1>2
<1> QED BY <1>3

\* Induction over the natural numbers, for a set of them.
LEMMA Induction ==
  ASSUME NEW T, 0 \in T, \A n \in Nat : n \in T => n + 1 \in T PROVE Nat \subseteq T
<1> SUFFICES ASSUME Nat \ T # {} PROVE FALSE
  OBVIOUS
<1>1. PICK x \in Nat \ T : \A y \in Nat \ T : x <= y
  BY Least
<1>2. x - 1 \in Nat /\ x - 1 + 1 = x
  BY <1>1
<1>3. x - 1 \in T
  BY <1>1, <1>2
<1> QED BY <1>2, <1>3

(***************************************************************************)
(* FoldLeft, which takes the entries off the end of the domain.            *)
(***************************************************************************)

Step(base, seq, iter, s) == IF s = {} THEN base ELSE Op(iter[s \ {Max(s)}], seq[Max(s)])

\* The largest of some positions up to k.
LEMMA MaxIs == ASSUME NEW k \in Nat, NEW s \in SUBSET (1..(k + 1)), k + 1 \in s PROVE Max(s) = k + 1
<1>1. \A y \in s : k + 1 >= y
  OBVIOUS
<1>2. \A x \in s : (\A y \in s : x >= y) => x = k + 1
  OBVIOUS
<1> QED BY <1>1, <1>2 DEF Max

LEMMA MaxIn == ASSUME NEW k \in Nat, NEW s \in SUBSET (1..k), s # {} PROVE Max(s) \in s
<1> DEFINE T == {n \in Nat : \A x \in s : x <= n}
<1>1. PICK n \in T : \A m \in T : n <= m
  <2>1. k \in T /\ T \subseteq Nat
    OBVIOUS
  <2> QED BY <2>1, Least
<1>2. n \in s
  <2> SUFFICES ASSUME n \notin s PROVE FALSE
    OBVIOUS
  <2>1. PICK x \in s : TRUE
    OBVIOUS
  <2>2. n - 1 \in Nat
    BY <1>1, <2>1
  <2>3. \A y \in s : y <= n - 1
    BY <1>1
  <2> QED BY <2>2, <2>3, <1>1
<1>3. \E x \in s : \A y \in s : x >= y
  BY <1>1, <1>2
<1> QED BY <1>3 DEF Max

Iterates(base, seq, n) ==
   \E iter : iter = [s \in SUBSET (1..n) |-> Step(base, seq, iter, s)]

\* The function that MapThenFoldSet takes is there, for sequences of any length.
LEMMA IteratesAll == ASSUME NEW base, NEW seq PROVE \A n \in Nat : Iterates(base, seq, n)
<1>1. Iterates(base, seq, 0)
  <2> DEFINE f == [s \in SUBSET (1..0) |-> base]
  <2>1. \A s \in SUBSET (1..0) : s = {}
    OBVIOUS
  <2>2. f = [s \in SUBSET (1..0) |-> Step(base, seq, f, s)]
    BY <2>1 DEF Step
  <2> QED BY <2>2 DEF Iterates
<1>2. ASSUME NEW n \in Nat, Iterates(base, seq, n) PROVE Iterates(base, seq, n + 1)
  <2>1. PICK f : f = [s \in SUBSET (1..n) |-> Step(base, seq, f, s)]
    BY <1>2 DEF Iterates
  <2> DEFINE g == [s \in SUBSET (1..(n + 1)) |->
                     IF n + 1 \in s THEN Op(f[s \ {n + 1}], seq[n + 1]) ELSE f[s]]
  <2>2. ASSUME NEW s \in SUBSET (1..(n + 1)) PROVE g[s] = Step(base, seq, g, s)
    <3>1. CASE n + 1 \in s
      <4>1. Max(s) = n + 1
        BY <3>1, MaxIs
      <4>2. s \ {n + 1} \in SUBSET (1..(n + 1)) /\ s # {} /\ n + 1 \notin s \ {n + 1}
        BY <3>1
      <4>3. g[s \ {n + 1}] = f[s \ {n + 1}]
        BY <4>2
      <4>4. g[s] = Op(f[s \ {n + 1}], seq[n + 1])
        BY <3>1
      <4> HIDE DEF g
      <4> QED BY <4>1, <4>2, <4>3, <4>4 DEF Step
    <3>2. CASE n + 1 \notin s
      <4>1. s \in SUBSET (1..n)
        BY <3>2
      <4>2. g[s] = f[s] /\ f[s] = Step(base, seq, f, s)
        BY <2>1, <3>2, <4>1
      <4>3. CASE s = {}
        BY <4>2, <4>3 DEF Step
      <4>4. CASE s # {}
        <5>1. Max(s) \in s
          BY <4>1, <4>4, MaxIn
        <5>2. s \ {Max(s)} \in SUBSET (1..(n+1)) /\ n + 1 \notin s \ {Max(s)}
          BY <3>2
        <5>3. g[s \ {Max(s)}] = f[s \ {Max(s)}]
          BY <5>2
        <5> HIDE DEF g
        <5> QED BY <4>2, <4>4, <5>3 DEF Step
      <4> QED BY <4>3, <4>4
    <3> QED BY <3>1, <3>2
  <2>3. g = [s \in SUBSET (1..(n + 1)) |-> g[s]]
    OBVIOUS
  <2> HIDE DEF g
  <2>4. g = [s \in SUBSET (1..(n + 1)) |-> Step(base, seq, g, s)]
    BY <2>2, <2>3
  <2> QED BY <2>4 DEF Iterates
<1> DEFINE T == {n \in Nat : Iterates(base, seq, n)}
<1>3. 0 \in T
  BY <1>1
<1>4. \A n \in Nat : n \in T => n + 1 \in T
  BY <1>2
<1>5. Nat \subseteq T
  <2> HIDE DEF T
  <2> QED BY <1>3, <1>4, Induction
<1> QED BY <1>5

Folded(base, seq) == FoldLeft(Op, base, seq)

\* FoldLeft goes through the sequence from its first entry to its last.
THEOREM FoldSteps ==
  ASSUME NEW base, NEW seq, NEW n \in Nat, DOMAIN seq = 1..n
  PROVE  \E f : /\ f[0] = base
                /\ \A i \in 1..n : f[i] = Op(f[i - 1], seq[i])
                /\ Folded(base, seq) = f[n]
<1> DEFINE iter[s \in SUBSET (1..n)] == Step(base, seq, iter, s)
<1>1. iter = [s \in SUBSET (1..n) |-> Step(base, seq, iter, s)]
  <2>1. Iterates(base, seq, n)
    BY IteratesAll
  <2> QED BY <2>1 DEF Iterates
<1>2. Folded(base, seq) = iter[1..n]
  BY DEF Folded, FoldLeft, MapThenFoldSet, Step
<1> HIDE DEF iter
<1> DEFINE f == [i \in 0..n |-> iter[1..i]]
<1>3. f[0] = base
  BY <1>1 DEF Step
<1>4. ASSUME NEW i \in 1..n PROVE f[i] = Op(f[i - 1], seq[i])
  <2>1. 1..i \in SUBSET (1..n) /\ 1..i # {} /\ i - 1 \in Nat /\ i - 1 + 1 = i /\ i \in 1..i
    OBVIOUS
  <2>2. Max(1..i) = i /\ (1..i) \ {i} = 1..(i - 1)
    BY <2>1, MaxIs
  <2>3. iter[1..i] = Op(iter[1..(i - 1)], seq[i])
    BY <1>1, <2>1, <2>2 DEF Step
  <2> QED BY <2>3
<1> HIDE DEF f
<1>5. f[n] = iter[1..n] BY DEF f
<1> QED BY <1>2, <1>3, <1>4, <1>5

\* What holds of the base and goes on to hold, entry by entry, holds of the result: R[i]
\* are the values there may be after i entries.
THEOREM FoldInvariant ==
  ASSUME NEW base, NEW seq, NEW n \in Nat, DOMAIN seq = 1..n, NEW R, base \in R[0],
         \A i \in 1..n : \A x \in R[i - 1] : Op(x, seq[i]) \in R[i]
  PROVE  Folded(base, seq) \in R[n]
<1>1. PICK f : /\ f[0] = base
               /\ \A i \in 1..n : f[i] = Op(f[i - 1], seq[i])
               /\ Folded(base, seq) = f[n]
  BY FoldSteps
<1> DEFINE T == {i \in Nat : i <= n => f[i] \in R[i]}
<1>2. 0 \in T
  BY <1>1
<1>3. ASSUME NEW i \in Nat, i \in T PROVE i + 1 \in T
  <2> SUFFICES ASSUME i + 1 <= n PROVE f[i + 1] \in R[i + 1]
    OBVIOUS
  <2>1. i + 1 \in 1..n /\ i + 1 - 1 = i /\ f[i] \in R[i]
    BY <1>3
  <2>2. f[i + 1] = Op(f[i], seq[i + 1])
    BY <2>1, <1>1
  <2> QED BY <2>1, <2>2
<1>4. Nat \subseteq T
  <2> HIDE DEF T
  <2> QED BY <1>2, <1>3, Induction
<1> QED BY <1>1, <1>4

\* The same with one set of values for all.
THEOREM FoldType ==
  ASSUME NEW base, NEW seq, NEW n \in Nat, DOMAIN seq = 1..n, NEW S, base \in S,
         \A x \in S, i \in 1..n : Op(x, seq[i]) \in S
  PROVE  Folded(base, seq) \in S
<1> DEFINE R == [i \in 0..n |-> S]
<1>1. base \in R[0] /\ \A i \in 1..n : \A x \in R[i - 1] : Op(x, seq[i]) \in R[i]
  OBVIOUS
<1>2. R[n] = S
  OBVIOUS
<1>3. Folded(base, seq) \in R[n]
  <2> HIDE DEF R
  <2> QED BY <1>1, FoldInvariant
<1> QED BY <1>2, <1>3
=============================================================================
