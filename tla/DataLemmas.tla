---------------------------- MODULE DataLemmas -----------------------------
(***************************************************************************)
(* Induction over the natural numbers in a form that first-order provers    *)
(* can use: over a set, not over a predicate.  To prove P(n) for every n,    *)
(* let T be {n \in Nat : P(n)}, show that T has 0 and is closed under        *)
(* successor, and cite Induction.  Finite sets of numbers are well-founded    *)
(* under inclusion, which is all it rests on.                               *)
(*                                                                         *)
(* From it, what the proofs need of powers of two and of division; and of    *)
(* parts of sequences.                                                     *)
(***************************************************************************)
EXTENDS Integers, FiniteSetTheorems, SequenceTheorems, TLAPS

\* The natural numbers have no proper subset with zero that is closed under successor.
THEOREM Induction ==
    ASSUME NEW T, 0 \in T, \A n \in Nat : n \in T => n + 1 \in T
    PROVE  \A n \in Nat : n \in T
<1> SUFFICES ASSUME NEW n \in Nat, n \notin T PROVE FALSE
  OBVIOUS
<1> DEFINE Missing == {k \in Nat : k \notin T}
           Below   == {0 .. k : k \in Missing}
<1>1. Below \subseteq FiniteSubsetsOf(Nat)
  <2>1. ASSUME NEW k \in Nat PROVE IsFiniteSet(0 .. k) /\ 0 .. k \in SUBSET Nat
    BY FS_Interval
  <2> QED
    BY <2>1 DEF FiniteSubsetsOf
<1>2. Below # {}
  OBVIOUS
<1>3. IsWellFoundedOn(StrictSubsetOrdering(Nat), FiniteSubsetsOf(Nat))
  BY FS_StrictSubsetOrderingWellFounded
<1> DEFINE R == StrictSubsetOrdering(Nat)
           S == FiniteSubsetsOf(Nat)
<1>4. PICK x \in Below : \A y \in Below : ~ (<<y, x>> \in R)
  <2> HIDE DEF R, S, Below
  <2> QED
    BY <1>1, <1>2, <1>3, WFMin DEF R, S
<1>5. PICK k \in Missing : x = 0 .. k
  BY <1>4
<1>6. k # 0 /\ k - 1 \in Nat /\ k - 1 + 1 = k
  BY <1>5
<1>7. k - 1 \in Missing
  BY <1>5, <1>6
<1>8. <<0 .. k - 1, 0 .. k>> \in R
  BY <1>5, <1>6 DEF StrictSubsetOrdering
<1> QED
  BY <1>4, <1>5, <1>7, <1>8
-----------------------------------------------------------------------------
(* Powers of two, as the sizes of power sets.                              *)

LEMMA PowerSetSize ==
    ASSUME NEW n \in Nat
    PROVE  /\ IsFiniteSet(SUBSET (1 .. n)) /\ 2 ^ n = Cardinality(SUBSET (1 .. n))
           /\ 2 ^ n \in Nat
<1>1. IsFiniteSet(1 .. n) /\ Cardinality(1 .. n) = n
  BY FS_Interval
<1>2. IsFiniteSet(SUBSET (1 .. n)) /\ Cardinality(SUBSET (1 .. n)) = 2 ^ Cardinality(1 .. n)
  BY <1>1, FS_SUBSET
<1> QED
  BY <1>1, <1>2, FS_CardinalityType

LEMMA TwoToZero == 2 ^ 0 = 1
<1>1. SUBSET (1 .. 0) = {{}}
  OBVIOUS
<1>2. Cardinality({{}}) = 1
  BY FS_Singleton
<1>3. 0 \in Nat
  OBVIOUS
<1> QED
  BY <1>1, <1>2, <1>3, PowerSetSize

\* The subsets of 1 .. n + 1 are those of 1 .. n, without n + 1 and with it.
LEMMA TwoToNext ==
    ASSUME NEW n \in Nat
    PROVE  2 ^ (n + 1) = 2 * 2 ^ n
<1> DEFINE A == SUBSET (1 .. n)
           f == [s \in A |-> s \union {n + 1}]
           B == {f[s] : s \in A}
<1>1. A \union B = SUBSET (1 .. n + 1)
  <2>1. 1 .. n + 1 = (1 .. n) \union {n + 1}
    OBVIOUS
  <2>2. ASSUME NEW s \in SUBSET (1 .. n + 1), n + 1 \in s PROVE s \in B
    <3>1. s \ {n + 1} \in A /\ f[s \ {n + 1}] = s
      BY <2>1, <2>2
    <3> QED
      BY <3>1
  <2>3. ASSUME NEW s \in SUBSET (1 .. n + 1), n + 1 \notin s PROVE s \in A
    BY <2>1, <2>3
  <2>4. ASSUME NEW s \in A PROVE s \in SUBSET (1 .. n + 1) /\ f[s] \in SUBSET (1 .. n + 1)
    BY <2>1
  <2>5. \A s \in B : s \in SUBSET (1 .. n + 1)
    BY <2>4
  <2> DEFINE C == SUBSET (1 .. n + 1)
  <2>6. \A s \in C : s \in A \/ s \in B
    BY <2>2, <2>3
  <2>7. (\A s \in A : s \in C) /\ (\A s \in B : s \in C)
    BY <2>4, <2>5
  <2> HIDE DEF A, B, C
  <2>8. A \union B = C
    BY <2>6, <2>7
  <2> QED
    BY <2>8 DEF C
<1>2. A \intersect B = {}
  <2>1. \A s \in A : n + 1 \notin s
    OBVIOUS
  <2> QED
    BY <2>1
<1>3. f \in Bijection(A, B)
  <2>1. ASSUME NEW s \in A, NEW t \in A, f[s] = f[t] PROVE s = t
    <3>1. s \union {n + 1} = t \union {n + 1}
      BY <2>1
    <3>2. n + 1 \notin s /\ n + 1 \notin t
      OBVIOUS
    <3> QED
      BY <3>1, <3>2
  <2> HIDE DEF A
  <2>2. f \in [A -> B]
    OBVIOUS
  <2> QED
    BY <2>1, <2>2 DEF Bijection, Injection, Surjection, IsInjective
<1>4. IsFiniteSet(A) /\ Cardinality(A) = 2 ^ n /\ 2 ^ n \in Nat
  BY PowerSetSize
<1>5. IsFiniteSet(B) /\ Cardinality(B) = Cardinality(A)
  <2> HIDE DEF A, B
  <2> QED
    BY <1>3, <1>4, FS_Bijection DEF ExistsBijection
<1>6. Cardinality(A \union B) = Cardinality(A) + Cardinality(B) - Cardinality({})
  <2> HIDE DEF A, B
  <2> QED
    BY <1>2, <1>4, <1>5, FS_Union
<1>7. Cardinality({}) = 0
  BY FS_EmptySet
<1>8. n + 1 \in Nat
  OBVIOUS
<1>9. Cardinality(A \union B) = 2 ^ (n + 1)
  BY <1>1, <1>8, PowerSetSize
<1> HIDE DEF A, B
<1> QED
  BY <1>4, <1>5, <1>6, <1>7, <1>9

LEMMA TwoToPositive == \A n \in Nat : 2 ^ n \in Nat \ {0}
<1> DEFINE T == {n \in Nat : 2 ^ n \in Nat \ {0}}
<1>1. 0 \in T
  BY TwoToZero
<1>2. ASSUME NEW n \in Nat, n \in T PROVE n + 1 \in T
  <2>1. 2 ^ (n + 1) = 2 * 2 ^ n /\ 2 ^ n \in Nat \ {0}
    BY <1>2, TwoToNext
  <2> QED
    BY <2>1
<1> HIDE DEF T
<1>3. \A n \in Nat : n \in T
  BY <1>1, <1>2, Induction
<1> QED
  BY <1>3 DEF T

-----------------------------------------------------------------------------
(* Division, again and again.                                              *)

LEMMA DivisionProps ==
    ASSUME NEW x \in Int, NEW d \in Nat \ {0}
    PROVE  /\ x \div d \in Int /\ x % d \in 0 .. d - 1
           /\ x = d * (x \div d) + (x % d)
  BY Z3

\* The quotient is the only one.
LEMMA QuotientOf ==
    ASSUME NEW x \in Int, NEW d \in Nat \ {0}, NEW q \in Int,
           d * q <= x, x < d * q + d
    PROVE  x \div d = q
  BY Z3

LEMMA DividedTwice ==
    ASSUME NEW x \in Nat, NEW a \in Nat \ {0}, NEW b \in Nat \ {0}
    PROVE  (x \div a) \div b = x \div (a * b)
<1> DEFINE q == x \div a
           r == q \div b
<1>1. q \in Int /\ a * q <= x /\ x < a * q + a
  BY DivisionProps
<1>2. r \in Int /\ b * r <= q /\ q < b * r + b
  <2> HIDE DEF q
  <2> QED
    BY <1>1, DivisionProps
<1> HIDE DEF q, r
<1>3. a * b \in Nat \ {0}
  BY Z3
<1>4. a * (b * r) <= a * q /\ a * (q + 1) <= a * (b * r + b)
  BY <1>1, <1>2, Z3
<1>5. a * (b * r) = (a * b) * r /\ a * (b * r + b) = (a * b) * r + a * b /\ a * (q + 1) = a * q + a
  BY <1>1, <1>2, Z3
<1>6. (a * b) * r <= x /\ x < (a * b) * r + a * b
  BY <1>1, <1>4, <1>5, <1>3, <1>2, Z3
<1>7. x \div (a * b) = r
  <2> DEFINE d == a * b
  <2> HIDE DEF d
  <2> QED
    BY <1>2, <1>3, <1>6, QuotientOf DEF d
<1> QED
  BY <1>7 DEF r, q
-----------------------------------------------------------------------------
(* Sequences, and their index sets.                                        *)

LEMMA IntervalSize == ASSUME NEW n \in Nat PROVE Cardinality(1 .. n) = n
BY FS_Interval

LEMMA PartOf ==
  ASSUME NEW S, NEW f \in Seq(S), NEW a \in Nat, NEW k \in Nat, a + k <= Len(f)
  PROVE  /\ SubSeq(f, a + 1, a + k) \in Seq(S)
         /\ Len(SubSeq(f, a + 1, a + k)) = k
         /\ DOMAIN SubSeq(f, a + 1, a + k) = 1 .. k
         /\ \A i \in 1 .. k : SubSeq(f, a + 1, a + k)[i] = f[a + i]
<1> DEFINE m == a + 1
           n == a + k
<1>1. m \in 1 .. Len(f) + 1 /\ n \in m - 1 .. Len(f) /\ n - m + 1 = k
  OBVIOUS
<1>2. \A i \in 1 .. k : m + i - 1 = a + i
  OBVIOUS
<1> HIDE DEF m, n
<1>3. /\ SubSeq(f, m, n) \in Seq(S) /\ Len(SubSeq(f, m, n)) = k
      /\ \A i \in 1 .. k : SubSeq(f, m, n)[i] = f[m + i - 1]
  BY <1>1, SubSeqProperties
<1>4. \A i \in 1 .. k : SubSeq(f, m, n)[i] = f[a + i]
  BY <1>2, <1>3, Zenon
<1>5. DOMAIN SubSeq(f, m, n) = 1 .. k
  <2> DEFINE r == SubSeq(f, m, n)
  <2>1. r \in Seq(S) /\ Len(r) = k
    BY <1>3
  <2> HIDE DEF r
  <2>2. DOMAIN r = 1 .. k
    BY <2>1
  <2> QED
    BY <2>2 DEF r
<1> QED
  BY <1>3, <1>4, <1>5, Zenon DEF m, n

\* A sequence all of whose elements are in a smaller set.
LEMMA SeqOfFewer ==
  ASSUME NEW S, NEW T, NEW r \in Seq(S), \A i \in 1 .. Len(r) : r[i] \in T
  PROVE  r \in Seq(T)
<1>1. r = [i \in 1 .. Len(r) |-> r[i]] /\ Len(r) \in Nat
  OBVIOUS
<1>2. r \in [1 .. Len(r) -> T]
  BY <1>1
<1> QED
  BY <1>1, <1>2

\* Where two sequences agree their beginnings are the same.
LEMMA SamePrefix ==
  ASSUME NEW S, NEW f \in Seq(S), NEW g \in Seq(S), NEW n \in Nat, n <= Len(f), n <= Len(g),
         \A i \in 1 .. n : f[i] = g[i]
  PROVE  SubSeq(f, 1, n) = SubSeq(g, 1, n)
<1> DEFINE a == SubSeq(f, 0 + 1, 0 + n)
           b == SubSeq(g, 0 + 1, 0 + n)
<1>0. 0 \in Nat /\ 0 + n <= Len(f) /\ 0 + n <= Len(g)
  OBVIOUS
<1>1. a \in Seq(S) /\ Len(a) = n /\ \A i \in 1 .. n : a[i] = f[0 + i]
  BY <1>0, PartOf
<1>2. b \in Seq(S) /\ Len(b) = n /\ \A i \in 1 .. n : b[i] = g[0 + i]
  BY <1>0, PartOf
<1> HIDE DEF a, b
<1>3. \A i \in 1 .. n : 0 + i = i
  OBVIOUS
<1>4. \A i \in 1 .. Len(a) : a[i] = b[i]
  BY <1>1, <1>2, <1>3
<1>5. a = b
  BY <1>1, <1>2, <1>4, SeqEqual
<1>6. 0 + 1 = 1 /\ 0 + n = n
  OBVIOUS
<1> QED
  BY <1>5, <1>6 DEF a, b

\* An array is a sequence.
LEMMA ArrayIsSeq ==
  ASSUME NEW S, NEW n \in Nat, NEW f \in [1 .. n -> S]
  PROVE  f \in Seq(S) /\ Len(f) = n
OBVIOUS
-----------------------------------------------------------------------------
\* A function on 0 .. n may be defined from its value at the number before.
Recurs(g, n, s0, F) == g[0] = s0 /\ \A i \in 1 .. n : g[i] = F[<<i, g[i - 1]>>]

LEMMA Recursion ==
    ASSUME NEW n \in Nat, NEW S, NEW s0 \in S, NEW F \in [(1 .. n) \X S -> S]
    PROVE  \E g \in [0 .. n -> S] : Recurs(g, n, s0, F)
<1> DEFINE Upto(m) == \E g \in [0 .. n -> S] :
             g[0] = s0 /\ \A i \in 1 .. n : i <= m => g[i] = F[<<i, g[i - 1]>>]
           T == {m \in Nat : Upto(m)}
<1>1. 0 \in T
  <2> DEFINE g == [i \in 0 .. n |-> s0]
  <2>1. g \in [0 .. n -> S] /\ g[0] = s0
    OBVIOUS
  <2>2. \A i \in 1 .. n : ~(i <= 0)
    OBVIOUS
  <2> HIDE DEF g
  <2>3. Upto(0)
    BY <2>1, <2>2
  <2> QED
    BY <2>3
<1>2. ASSUME NEW m \in Nat, m \in T PROVE m + 1 \in T
  <2>1. PICK g \in [0 .. n -> S] : g[0] = s0 /\ \A i \in 1 .. n : i <= m => g[i] = F[<<i, g[i - 1]>>]
    BY <1>2
  <2>2. CASE m + 1 \in 1 .. n
    <3> DEFINE h == [g EXCEPT ![m + 1] = F[<<m + 1, g[m]>>]]
    <3>1. m \in 0 .. n /\ F[<<m + 1, g[m]>>] \in S
      BY <2>2
    <3>2. h \in [0 .. n -> S]
      BY <3>1
    <3>3. h[0] = s0
      BY <2>1
    <3>4. ASSUME NEW i \in 1 .. n, i <= m + 1 PROVE h[i] = F[<<i, h[i - 1]>>]
      <4>1. i - 1 # m + 1 /\ i - 1 \in 0 .. n /\ h[i - 1] = g[i - 1]
        BY <3>4
      <4>2. CASE i = m + 1
        BY <2>2, <4>1, <4>2
      <4>3. CASE i # m + 1
        BY <2>1, <3>4, <4>1, <4>3
      <4> QED
        BY <4>2, <4>3
    <3> HIDE DEF h
    <3> QED
      BY <3>2, <3>3, <3>4
  <2>3. CASE m + 1 \notin 1 .. n
    <3>1. \A i \in 1 .. n : i <= m + 1 => i <= m
      BY <2>3
    <3> QED
      BY <2>1, <3>1
  <2> QED
    BY <2>2, <2>3
<1> HIDE DEF T
<1>3. \A m \in Nat : m \in T
  BY <1>1, <1>2, Induction
<1> QED
  BY <1>3 DEF T, Recurs
=============================================================================
