----------------------------- MODULE DataLemmas -----------------------------
(***************************************************************************)
(* Facts about numbers, sequences and sums that the proofs of several      *)
(* components need: positions taken modulo the size of a ring, least       *)
(* elements, a sequence without one of its elements, and the sum of a field *)
(* over a finite set.                                                      *)
(***************************************************************************)
EXTENDS Integers, SequencesExt, FiniteSetTheorems, SequenceTheorems, WellFoundedInduction, TLAPS
----------------------------------------------------------------------------
(***************************************************************************)
(* Rings: "counter & mask" as an index.                                    *)
(***************************************************************************)
\* A remainder is determined by any way of writing the number.
LEMMA ModUnique ==
  ASSUME NEW K \in Nat \ {0}, NEW a \in Nat, NEW q \in Int, NEW r \in 0 .. K - 1,
         a = K * q + r
  PROVE  a % K = r
<1>1. a = K * (a \div K) + (a % K) /\ a \div K \in Int /\ a % K \in 0 .. K - 1
  OBVIOUS
<1> DEFINE d == q - (a \div K)
<1>2. d \in Int /\ K * d = (a % K) - r
  BY <1>1
<1> HIDE DEF d
<1>3. K * d < K /\ K * d > -K
  BY <1>1, <1>2
<1>4. d < 1 /\ d > -1
  BY <1>2, <1>3
<1>5. d = 0
  BY <1>2, <1>4
<1> QED BY <1>1, <1>2, <1>5

\* Going once round the ring changes nothing.
LEMMA ModRound ==
  ASSUME NEW K \in Nat \ {0}, NEW a \in Nat
  PROVE  (a + K) % K = a % K
<1>1. a = K * (a \div K) + (a % K) /\ a \div K \in Int /\ a % K \in 0 .. K - 1
  OBVIOUS
<1> DEFINE q == a \div K
           r == a % K
<1> HIDE DEF q, r
<1>2. a + K = K * (q + 1) + r /\ q + 1 \in Int /\ r \in 0 .. K - 1 /\ a + K \in Nat
  BY <1>1 DEF q, r
<1> DEFINE b == a + K
           q1 == q + 1
<1> HIDE DEF b, q1
<1>3. b % K = r
  BY <1>2, ModUnique DEF b, q1
<1> QED BY <1>3 DEF r, b

\* Advancing the position is advancing the counter.
LEMMA ModSucc ==
  ASSUME NEW K \in Nat \ {0}, NEW a \in Nat
  PROVE  ((a % K) + 1) % K = (a + 1) % K
<1> DEFINE q == a \div K
           r == a % K
<1>1. a = K * q + r /\ q \in Int /\ r \in 0 .. K - 1
  OBVIOUS
<1> HIDE DEF q, r
<1>2. CASE r + 1 < K
  <2>1. a + 1 = K * q + (r + 1) /\ r + 1 \in 0 .. K - 1
    BY <1>1, <1>2
  <2>2. (a + 1) % K = r + 1
    BY <1>1, <2>1, ModUnique
  <2>3. r + 1 = K * 0 + (r + 1)
    BY <1>1
  <2>4. (r + 1) % K = r + 1
    BY <1>1, <2>1, <2>3, ModUnique
  <2> QED BY <2>2, <2>4 DEF r
<1>3. CASE r + 1 = K
  <2>1. a + 1 = K * (q + 1) + 0 /\ 0 \in 0 .. K - 1 /\ q + 1 \in Int
    BY <1>1, <1>3
  <2> DEFINE b == a + 1
             q1 == q + 1
  <2>5. b = K * q1 + 0 /\ b \in Nat /\ q1 \in Int
    BY <2>1
  <2> HIDE DEF b, q1
  <2>2. b % K = 0
    BY <2>1, <2>5, ModUnique
  <2>3. r + 1 = K * 1 + 0 /\ r + 1 \in Nat
    BY <1>1, <1>3
  <2>4. (r + 1) % K = 0
    BY <2>1, <2>3, ModUnique
  <2> QED BY <2>2, <2>4 DEF r, b
<1> QED BY <1>1, <1>2, <1>3

\* Two counters less than K apart have different positions.
LEMMA ModInjective ==
  ASSUME NEW K \in Nat \ {0}, NEW s \in Nat, NEW t \in Nat, s < t, t < s + K
  PROVE  s % K # t % K
<1>1. s = K * (s \div K) + (s % K) /\ t = K * (t \div K) + (t % K)
  OBVIOUS
<1>2. s \div K \in Int /\ t \div K \in Int
  OBVIOUS
<1>3. ASSUME s % K = t % K PROVE FALSE
  <2> DEFINE d == (t \div K) - (s \div K)
  <2>1. d \in Int /\ K * d = t - s
    BY <1>1, <1>2, <1>3
  <2>2. K * d > 0 /\ K * d < K
    BY <2>1
  <2> HIDE DEF d
  <2>3. d > 0 /\ d < 1
    BY <2>1, <2>2
  <2> QED BY <2>1, <2>3
<1> QED BY <1>3
----------------------------------------------------------------------------
(***************************************************************************)
(* Natural numbers.                                                        *)
(***************************************************************************)
\* A set of natural numbers that is not empty has a least element.
LEMMA LeastElement ==
  ASSUME NEW T, T \subseteq Nat, T # {}
  PROVE  \E x \in T : \A y \in T : x <= y
<1> DEFINE R == OpToRel(<, Nat)
<1>1. IsWellFoundedOn(R, Nat)
  BY NatLessThanWellFounded
<1>2. PICK x \in T : \A y \in T : ~(<<y, x>> \in R)
  <2> HIDE DEF R
  <2> QED BY <1>1, WFMin
<1>3. ASSUME NEW y \in T PROVE x <= y
  <2>1. ~(<<y, x>> \in R)
    BY <1>2
  <2>2. x \in Nat /\ y \in Nat
    OBVIOUS
  <2>3. ~(y < x)
    BY <2>1, <2>2, Zenon DEF OpToRel
  <2> QED BY <2>2, <2>3
<1> QED BY <1>3

\* Induction, for a set of numbers in the place of a predicate.
LEMMA Induction ==
  ASSUME NEW T, 0 \in T, \A n \in Nat : n \in T => n + 1 \in T
  PROVE  \A n \in Nat : n \in T
<1> SUFFICES ASSUME NEW k \in Nat, k \notin T PROVE FALSE
  OBVIOUS
<1> DEFINE D == {n \in Nat : n \notin T}
<1>1. PICK x \in D : \A y \in D : x <= y
  BY LeastElement
<1>2. x # 0 /\ x \in Nat
  OBVIOUS
<1>3. x - 1 \in Nat /\ x - 1 \notin D
  BY <1>1, <1>2
<1> QED BY <1>2, <1>3
----------------------------------------------------------------------------
(***************************************************************************)
(* Sequences.                                                              *)
(***************************************************************************)
\* RemoveAt closes the gap it makes.
LEMMA RemoveAtProperties ==
  ASSUME NEW S, NEW s \in Seq(S), NEW i \in 1..Len(s)
  PROVE  /\ RemoveAt(s, i) \in Seq(S)
         /\ Len(RemoveAt(s, i)) = Len(s) - 1
         /\ \A j \in 1..(Len(s) - 1) : RemoveAt(s, i)[j] = IF j < i THEN s[j] ELSE s[j + 1]
<1> DEFINE a == SubSeq(s, 1, i - 1)
           b == SubSeq(s, i + 1, Len(s))
<1>1. RemoveAt(s, i) = a \o b
  BY DEF RemoveAt
<1>2. Len(s) \in Nat
  BY LenProperties
<1>3. a \in Seq(S) /\ Len(a) = i - 1 /\ \A j \in 1..(i - 1) : a[j] = s[j]
  BY <1>2, SubSeqProperties
<1>4. b \in Seq(S) /\ Len(b) = Len(s) - i /\ \A j \in 1..(Len(s) - i) : b[j] = s[i + j]
  BY <1>2, SubSeqProperties
<1> HIDE DEF a, b
<1>5. /\ a \o b \in Seq(S) /\ Len(a \o b) = Len(a) + Len(b)
      /\ \A j \in 1..(Len(a) + Len(b)) : (a \o b)[j] = IF j <= Len(a) THEN a[j] ELSE b[j - Len(a)]
  BY <1>3, <1>4, ConcatProperties
<1> QED BY <1>1, <1>2, <1>3, <1>4, <1>5
----------------------------------------------------------------------------
(***************************************************************************)
(* Sums.                                                                   *)
(***************************************************************************)
\* The sum of f[x].qty over a finite set, as MapThenSumSet computes it.
Qty(f, x) == f[x].qty
SumStep(f, g, s) == IF s = {} THEN 0 ELSE Qty(f, CHOOSE x \in s : TRUE) + g[s \ {CHOOSE x \in s : TRUE}]
SumOver(f, T) == CHOOSE g : g = [s \in SUBSET T |-> SumStep(f, g, s)]
QtySum(f, T) == SumOver(f, T)[T]

Quantified(f, T) == IsFiniteSet(T) /\ \A x \in T : Qty(f, x) \in Nat

\* The subsets with at most n elements.
Small(T, n) == {s \in SUBSET T : Cardinality(s) <= n}

LEMMA SmallSets ==
  ASSUME NEW T, IsFiniteSet(T)
  PROVE  /\ \A s \in SUBSET T : IsFiniteSet(s) /\ Cardinality(s) \in Nat /\ Cardinality(s) <= Cardinality(T)
         /\ \A s \in SUBSET T : s # {} => 
               LET x == CHOOSE x \in s : TRUE IN x \in s /\ s \ {x} \in SUBSET T /\ Cardinality(s \ {x}) = Cardinality(s) - 1
         /\ \A s \in SUBSET T : Cardinality(s) = 0 <=> s = {}
         /\ Cardinality(T) \in Nat
<1>1. \A s \in SUBSET T : IsFiniteSet(s) /\ Cardinality(s) \in Nat /\ Cardinality(s) <= Cardinality(T)
  BY FS_Subset, FS_CardinalityType
<1>2. \A s \in SUBSET T : Cardinality(s) = 0 <=> s = {}
  BY <1>1, FS_EmptySet
<1>3. ASSUME NEW s \in SUBSET T, s # {}, NEW x \in s PROVE Cardinality(s \ {x}) = Cardinality(s) - 1
  BY <1>1, <1>3, FS_RemoveElement
<1>4. ASSUME NEW s \in SUBSET T, s # {} PROVE (CHOOSE x \in s : TRUE) \in s
  BY <1>4
<1>5. Cardinality(T) \in Nat
  BY FS_CardinalityType
<1> QED BY <1>1, <1>2, <1>3, <1>4, <1>5

\* The recursion has a solution.
LEMMA SumAt ==
  ASSUME NEW f, NEW T, IsFiniteSet(T)
  PROVE  \A s \in SUBSET T : SumOver(f, T)[s] = SumStep(f, SumOver(f, T), s)
<1> DEFINE Solves(g, n) == g = [s \in Small(T, n) |-> SumStep(f, g, s)]
           S == {n \in Nat : \E g : Solves(g, n)}
<1>1. 0 \in S
  <2> DEFINE g == [s \in Small(T, 0) |-> 0]
  <2>1. \A s \in Small(T, 0) : s = {}
    BY SmallSets DEF Small
  <2>2. \A s \in Small(T, 0) : SumStep(f, g, s) = 0
    BY <2>1 DEF SumStep
  <2>3. Solves(g, 0)
    <3> HIDE DEF g
    <3> QED BY <2>2 DEF g
  <2> QED BY <2>3
<1>2. ASSUME NEW n \in Nat, n \in S PROVE n + 1 \in S
  <2>1. PICK g : Solves(g, n)
    BY <1>2
  <2> DEFINE h == [s \in Small(T, n + 1) |-> SumStep(f, g, s)]
  <2> HIDE DEF S
  <2>2. ASSUME NEW s \in Small(T, n) PROVE s \in Small(T, n + 1) /\ h[s] = g[s]
    <3>1. Cardinality(s) \in Nat /\ Cardinality(s) <= n
      BY SmallSets DEF Small
    <3>2. s \in Small(T, n + 1)
      BY <3>1 DEF Small
    <3> QED BY <2>1, <3>2
  <2>3. ASSUME NEW s \in Small(T, n + 1) PROVE SumStep(f, h, s) = SumStep(f, g, s)
    <3>1. CASE s = {}
      BY <3>1 DEF SumStep
    <3>2. CASE s # {}
      <4> DEFINE x == CHOOSE x \in s : TRUE
      <4>1. s \ {x} \in Small(T, n)
        BY <3>2, SmallSets DEF Small
      <4>2. h[s \ {x}] = g[s \ {x}]
        BY <2>2, <4>1
      <4> HIDE DEF h
      <4> QED BY <3>2, <4>2 DEF SumStep
    <3> QED BY <3>1, <3>2
  <2>4. Solves(h, n + 1)
    <3> HIDE DEF h
    <3> QED BY <2>3 DEF h
  <2>5. \E k : Solves(k, n + 1)
    <3> HIDE DEF h, Solves
    <3> QED BY <2>4
  <2> HIDE DEF Solves
  <2> QED BY <2>5 DEF S
<1> HIDE DEF S
<1>3. Cardinality(T) \in S
  BY <1>1, <1>2, Induction, SmallSets
<1>4. Small(T, Cardinality(T)) = SUBSET T
  BY SmallSets DEF Small
<1>5. \E g : g = [s \in SUBSET T |-> SumStep(f, g, s)]
  BY <1>3, <1>4 DEF S
<1> DEFINE P(g) == g = [s \in SUBSET T |-> SumStep(f, g, s)]
<1>6. ASSUME NEW g, P(g) PROVE \A s \in SUBSET T : g[s] = SumStep(f, g, s)
  BY <1>6
<1>7. P(SumOver(f, T))
  BY <1>5 DEF SumOver
<1> HIDE DEF P
<1> QED BY <1>6, <1>7

\* The sum, one element after the other.
LEMMA SumUnfolds ==
  ASSUME NEW f, NEW U, IsFiniteSet(U), NEW T \in SUBSET U
  PROVE  \A s \in SUBSET T : SumOver(f, T)[s] = QtySum(f, s)
<1> DEFINE Agree(t, s) == SumOver(f, t)[s] = QtySum(f, s)
           S == {n \in Nat : \A t \in SUBSET U : \A s \in SUBSET t : Cardinality(s) <= n => Agree(t, s)}
<1>0. \A t \in SUBSET U : IsFiniteSet(t)
  BY SmallSets
<1>1. ASSUME NEW t \in SUBSET U, NEW s \in SUBSET t, s = {} PROVE Agree(t, s)
  <2>1. SumOver(f, t)[s] = SumStep(f, SumOver(f, t), s)
    BY <1>0, SumAt
  <2>2. SumOver(f, s)[s] = SumStep(f, SumOver(f, s), s)
    BY <1>0, SumAt
  <2> QED BY <1>1, <2>1, <2>2 DEF SumStep, QtySum
<1>2. 0 \in S
  BY <1>1, SmallSets
<1>3. ASSUME NEW n \in Nat, n \in S PROVE n + 1 \in S
  <2>1. ASSUME NEW t \in SUBSET U, NEW s \in SUBSET t, Cardinality(s) <= n + 1, s # {}
        PROVE  Agree(t, s)
    <3> DEFINE x == CHOOSE x \in s : TRUE
    <3>1. SumOver(f, t)[s] = SumStep(f, SumOver(f, t), s)
      BY <1>0, SumAt
    <3>2. QtySum(f, s) = SumStep(f, SumOver(f, s), s)
      BY <1>0, SumAt DEF QtySum
    <3>3. s \ {x} \in SUBSET s /\ s \ {x} \in SUBSET t /\ s \in SUBSET U /\ Cardinality(s \ {x}) <= n
      BY <2>1, SmallSets
    <3>4. Agree(t, s \ {x}) /\ Agree(s, s \ {x})
      BY <1>3, <3>3
    <3> QED BY <2>1, <3>1, <3>2, <3>4 DEF SumStep
  <2> HIDE DEF Agree
  <2> QED BY <1>1, <2>1
<1> HIDE DEF S
<1>4. \A n \in Nat : n \in S
  BY <1>2, <1>3, Induction
<1>5. ASSUME NEW s \in SUBSET T PROVE Agree(T, s)
  <2>1. Cardinality(s) \in Nat /\ Cardinality(s) <= Cardinality(s)
    BY SmallSets
  <2> QED BY <1>4, <2>1 DEF S
<1> QED BY <1>5

\* Nothing adds up to nothing; any element can be taken out first.
LEMMA SumEmpty ==
  ASSUME NEW f
  PROVE  QtySum(f, {}) = 0
<1>1. SumOver(f, {})[{}] = SumStep(f, SumOver(f, {}), {})
  BY SumAt, FS_EmptySet
<1> QED BY <1>1 DEF QtySum, SumStep

LEMMA SumChosen ==
  ASSUME NEW f, NEW T, IsFiniteSet(T), T # {}
  PROVE  LET x == CHOOSE x \in T : TRUE IN QtySum(f, T) = Qty(f, x) + QtySum(f, T \ {x})
<1> DEFINE x == CHOOSE x \in T : TRUE
<1>0. SumOver(f, T)[T] = SumStep(f, SumOver(f, T), T)
  BY SumAt
<1>1. QtySum(f, T) = Qty(f, x) + SumOver(f, T)[T \ {x}]
  BY <1>0 DEF QtySum, SumStep
<1>2. SumOver(f, T)[T \ {x}] = QtySum(f, T \ {x})
  BY SumUnfolds
<1> QED BY <1>1, <1>2

LEMMA SumRemove ==
  ASSUME NEW f, NEW T, Quantified(f, T)
  PROVE  /\ QtySum(f, T) \in Nat
         /\ \A x \in T : QtySum(f, T) = Qty(f, x) + QtySum(f, T \ {x})
<1> DEFINE Good(s) == /\ QtySum(f, s) \in Nat
                      /\ \A x \in s : QtySum(f, s) = Qty(f, x) + QtySum(f, s \ {x})
           S == {n \in Nat : \A s \in SUBSET T : Cardinality(s) <= n => Good(s)}
<1>1. IsFiniteSet(T) /\ \A x \in T : Qty(f, x) \in Nat
  BY DEF Quantified
<1>2. 0 \in S
  <2>1. Good({})
    BY SumEmpty
  <2>2. \A s \in SUBSET T : Cardinality(s) \in Nat /\ (Cardinality(s) = 0 => s = {})
    BY <1>1, SmallSets
  <2>3. \A s \in SUBSET T : Cardinality(s) <= 0 => s = {}
    BY <2>2
  <2> HIDE DEF Good
  <2> QED BY <2>1, <2>3
<1>3. ASSUME NEW n \in Nat, n \in S PROVE n + 1 \in S
  <2>1. ASSUME NEW s \in SUBSET T, Cardinality(s) <= n + 1 PROVE Good(s)
    <3>1. CASE s = {}
      BY <3>1, SumEmpty
    <3>2. CASE s # {}
      <4> DEFINE c == CHOOSE x \in s : TRUE
      <4>1. IsFiniteSet(s) /\ c \in s
        BY <1>1, <3>2, SmallSets
      <4>2. QtySum(f, s) = Qty(f, c) + QtySum(f, s \ {c})
        BY <3>2, <4>1, SumChosen
      <4> HIDE DEF c
      <4>3. \A x \in s : s \ {x} \in SUBSET T /\ Cardinality(s \ {x}) <= n
        <5>1. \A x \in s : Cardinality(s \ {x}) = Cardinality(s) - 1 /\ Cardinality(s) \in Nat
          BY <4>1, FS_RemoveElement, FS_CardinalityType
        <5> QED BY <2>1, <5>1
      <4>4. \A x \in s : Good(s \ {x})
        <5> HIDE DEF Good
        <5> QED BY <1>3, <4>3
      <4>5. ASSUME NEW x \in s PROVE QtySum(f, s) = Qty(f, x) + QtySum(f, s \ {x})
        <5>1. CASE x = c
          BY <4>2, <5>1
        <5>2. CASE x # c
          <6>1. x \in s \ {c} /\ c \in s \ {x} /\ (s \ {c}) \ {x} = (s \ {x}) \ {c}
            BY <4>1, <5>2
          <6>2. QtySum(f, s \ {c}) = Qty(f, x) + QtySum(f, (s \ {c}) \ {x})
            BY <4>1, <4>4, <6>1
          <6>3. QtySum(f, s \ {x}) = Qty(f, c) + QtySum(f, (s \ {x}) \ {c})
            BY <4>1, <4>4, <6>1
          <6>4. Qty(f, x) \in Nat /\ Qty(f, c) \in Nat /\ QtySum(f, s \ {c}) \in Nat /\ QtySum(f, s \ {x}) \in Nat
            BY <1>1, <4>1, <4>4
          <6>5. QtySum(f, (s \ {x}) \ {c}) \in Int
            <7>1. (s \ {x}) \ {c} \in SUBSET T /\ Cardinality((s \ {x}) \ {c}) <= n
              <8>1. Cardinality((s \ {x}) \ {c}) <= Cardinality(s \ {x}) /\ Cardinality(s \ {x}) \in Nat /\ Cardinality((s \ {x}) \ {c}) \in Nat
                BY <4>1, FS_Subset, FS_CardinalityType, SmallSets
              <8> QED BY <4>3, <8>1
            <7>2. Good((s \ {x}) \ {c})
              <8> HIDE DEF Good
              <8> QED BY <1>3, <7>1
            <7> QED BY <7>2
          <6> QED BY <4>2, <6>1, <6>2, <6>3, <6>4, <6>5
        <5> QED BY <5>1, <5>2
      <4>6. QtySum(f, s) \in Nat
        BY <1>1, <4>1, <4>2, <4>4
      <4> QED BY <4>5, <4>6
    <3> QED BY <3>1, <3>2
  <2> HIDE DEF Good
  <2> QED BY <2>1
<1> HIDE DEF S
<1>4. Cardinality(T) \in S /\ Cardinality(T) \in Nat /\ Cardinality(T) <= Cardinality(T)
  BY <1>1, <1>2, <1>3, Induction, SmallSets
<1> QED BY <1>4 DEF S

\* Quantities over A that an injection takes to quantities over B at least as large
\* add up to no more, and to as much only if nothing is left over.
LEMMA SumInjection ==
  ASSUME NEW f, NEW g, NEW A, NEW B, Quantified(f, A), Quantified(g, B),
         NEW h \in [A -> B], \A a, b \in A : h[a] = h[b] => a = b,
         \A a \in A : Qty(f, a) <= Qty(g, h[a])
  PROVE  /\ QtySum(f, A) <= QtySum(g, B)
         /\ QtySum(f, A) = QtySum(g, B) /\ (\A b \in B : Qty(g, b) > 0) =>
              /\ \A a \in A : Qty(f, a) = Qty(g, h[a])
              /\ \A b \in B : \E a \in A : h[a] = b
<1> DEFINE Full(s, t) == /\ \A a \in s : Qty(f, a) = Qty(g, h[a])
                         /\ \A b \in t : \E a \in s : h[a] = b
           Good(s, t) == /\ QtySum(f, s) <= QtySum(g, t)
                         /\ QtySum(f, s) = QtySum(g, t) /\ (\A b \in B : Qty(g, b) > 0) => Full(s, t)
           Into(s, t) == \A a \in s : h[a] \in t
           S == {n \in Nat : \A s \in SUBSET A, t \in SUBSET B : Cardinality(s) <= n /\ Into(s, t) => Good(s, t)}
<1>1. /\ IsFiniteSet(A) /\ \A x \in A : Qty(f, x) \in Nat
      /\ IsFiniteSet(B) /\ \A x \in B : Qty(g, x) \in Nat
  BY DEF Quantified
<1>2. /\ \A s \in SUBSET A : Quantified(f, s) /\ Cardinality(s) \in Nat /\ (Cardinality(s) <= 0 => s = {})
      /\ \A t \in SUBSET B : Quantified(g, t)
  <2>1. /\ \A s \in SUBSET A : IsFiniteSet(s) /\ Cardinality(s) \in Nat /\ (Cardinality(s) = 0 => s = {})
        /\ \A t \in SUBSET B : IsFiniteSet(t)
    BY <1>1, SmallSets
  <2>2. \A s \in SUBSET A : Cardinality(s) <= 0 => s = {}
    BY <2>1
  <2> QED BY <1>1, <2>1, <2>2 DEF Quantified
<1>3. 0 \in S
  <2>1. ASSUME NEW t \in SUBSET B PROVE Good({}, t)
    <3>1. QtySum(f, {}) = 0 /\ QtySum(g, t) \in Nat
      BY <1>2, SumEmpty, SumRemove
    <3>2. ASSUME QtySum(g, t) = 0, \A b \in B : Qty(g, b) > 0 PROVE t = {}
      <4>1. ASSUME NEW b \in t PROVE FALSE
        <5>1. QtySum(g, t) = Qty(g, b) + QtySum(g, t \ {b}) /\ QtySum(g, t \ {b}) \in Nat
          BY <1>2, SumRemove
        <5> QED BY <1>1, <3>2, <5>1
      <4> QED BY <4>1
    <3> QED BY <3>1, <3>2
  <2> HIDE DEF Good
  <2> QED BY <1>2, <2>1
<1>4. ASSUME NEW n \in Nat, n \in S PROVE n + 1 \in S
  <2>1. ASSUME NEW s \in SUBSET A, NEW t \in SUBSET B, Cardinality(s) <= n + 1, Into(s, t)
        PROVE  Good(s, t)
    <3>1. CASE s = {}
      <4>1. Cardinality(s) <= n
        BY <3>1, FS_EmptySet
      <4> HIDE DEF Good
      <4> QED BY <1>4, <2>1, <4>1
    <3>2. CASE s # {}
      <4>1. PICK c \in s : TRUE
        BY <3>2
      <4> DEFINE s1 == s \ {c}
                 t1 == t \ {h[c]}
      <4>2. s1 \in SUBSET A /\ t1 \in SUBSET B /\ Into(s1, t1)
        BY <2>1, <4>1
      <4>3. Cardinality(s1) <= n
        <5>1. IsFiniteSet(s) /\ Cardinality(s) \in Nat
          BY <1>2 DEF Quantified
        <5>2. Cardinality(s1) = Cardinality(s) - 1
          BY <4>1, <5>1, FS_RemoveElement
        <5> QED BY <2>1, <5>1, <5>2
      <4>4. Good(s1, t1)
        <5> HIDE DEF Good, Into, s1, t1
        <5> QED BY <1>4, <4>2, <4>3
      <4>5. h[c] \in t
        BY <2>1, <4>1
      <4>6. /\ QtySum(f, s) = Qty(f, c) + QtySum(f, s1) /\ QtySum(f, s1) \in Nat
            /\ QtySum(g, t) = Qty(g, h[c]) + QtySum(g, t1) /\ QtySum(g, t1) \in Nat
        BY <1>2, <4>1, <4>2, <4>5, SumRemove
      <4>7. Qty(f, c) \in Nat /\ Qty(g, h[c]) \in Nat /\ Qty(f, c) <= Qty(g, h[c])
        BY <1>1, <4>1
      <4>8. QtySum(f, s) <= QtySum(g, t)
        BY <4>4, <4>6, <4>7
      <4>9. ASSUME QtySum(f, s) = QtySum(g, t), \A b \in B : Qty(g, b) > 0 PROVE Full(s, t)
        <5>1. Qty(f, c) = Qty(g, h[c]) /\ QtySum(f, s1) = QtySum(g, t1)
          BY <4>4, <4>6, <4>7, <4>9
        <5>2. Full(s1, t1)
          BY <4>4, <4>9, <5>1
        <5> QED BY <4>1, <5>1, <5>2
      <4> QED BY <4>8, <4>9
    <3> QED BY <3>1, <3>2
  <2> HIDE DEF Good, Into
  <2> QED BY <2>1
<1> HIDE DEF S
<1>5. Cardinality(A) \in S /\ Cardinality(A) \in Nat /\ Cardinality(A) <= Cardinality(A)
  BY <1>1, <1>3, <1>4, Induction, SmallSets
<1>6. Good(A, B)
  <2> HIDE DEF Good
  <2> QED BY <1>5 DEF S
<1> QED BY <1>6

\* Quantities that correspond one to one add up to the same.
LEMMA SumBijection ==
  ASSUME NEW f, NEW g, NEW A, NEW B, Quantified(f, A), Quantified(g, B),
         NEW h \in [A -> B], \A a, b \in A : h[a] = h[b] => a = b,
         \A b \in B : \E a \in A : h[a] = b,
         \A a \in A : Qty(f, a) = Qty(g, h[a])
  PROVE  QtySum(f, A) = QtySum(g, B)
<1> DEFINE k == [b \in B |-> CHOOSE a \in A : h[a] = b]
<1>1. \A b \in B : k[b] \in A /\ h[k[b]] = b
  OBVIOUS
<1>2. k \in [B -> A]
  BY <1>1
<1>3. \A a \in A : Qty(f, a) \in Nat /\ Qty(f, a) <= Qty(g, h[a])
  BY DEF Quantified
<1>4. QtySum(f, A) \in Nat /\ QtySum(g, B) \in Nat
  BY SumRemove
<1> HIDE DEF k
<1>5. \A b \in B : Qty(g, b) <= Qty(f, k[b])
  BY <1>1, <1>3
<1>6. \A a, b \in B : k[a] = k[b] => a = b
  BY <1>1
<1>7. QtySum(f, A) <= QtySum(g, B)
  BY <1>3, SumInjection
<1>8. QtySum(g, B) <= QtySum(f, A)
  BY <1>2, <1>5, <1>6, SumInjection
<1> QED BY <1>4, <1>7, <1>8

\* The sum depends on the quantities of its elements only.
LEMMA SumSame ==
  ASSUME NEW f, NEW g, NEW A, Quantified(f, A), \A a \in A : Qty(f, a) = Qty(g, a)
  PROVE  QtySum(f, A) = QtySum(g, A)
<1> DEFINE h == [a \in A |-> a]
<1>1. h \in [A -> A] /\ (\A a, b \in A : h[a] = h[b] => a = b) /\ (\A b \in A : \E a \in A : h[a] = b)
      /\ \A a \in A : h[a] = a
  OBVIOUS
<1>2. Quantified(g, A)
  BY DEF Quantified
<1> HIDE DEF h
<1> QED BY <1>1, <1>2, SumBijection
=============================================================================
