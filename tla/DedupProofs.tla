---------------------------- MODULE DedupProofs -----------------------------
(***************************************************************************)
(* Proofs about Dedup for every set of rows and every length of a second:  *)
(* what the binary searches and the prefix of gaps credit is what the      *)
(* reference counts moment by moment, the seconds of an application are    *)
(* split without loss, and the bounded heap keeps the earliest bars. What  *)
(* a fold or a recursive function computes is proved by induction over a   *)
(* set of numbers, or of sets, that is given to the induction as a         *)
(* parameter.                                                              *)
(***************************************************************************)
EXTENDS Dedup, FiniteSetTheorems, WellFoundedInduction, SequenceTheorems, TLAPS

USE DedupAssumption

-----------------------------------------------------------------------------
(* Induction, over a set of which the numbers or the sets are members.      *)

\* A set with 0 that is closed under the successor holds every number.
LEMMA Numbers ==
    ASSUME NEW P, 0 \in P, \A n \in Nat : n \in P => n + 1 \in P
    PROVE  \A n \in Nat : n \in P
<1> DEFINE Bad == {n \in Nat : n \notin P}
           Below == OpToRel(<, Nat)
<1>1. SUFFICES ASSUME Bad # {}
               PROVE  FALSE
  OBVIOUS
<1>2. PICK m \in Bad : \A k \in Bad : ~(k < m)
  <2>1. IsWellFoundedOn(Below, Nat)
    BY NatLessThanWellFounded
  <2>2. \A x, y \in Nat : x < y => <<x, y>> \in Below
    BY DEF OpToRel
  <2>3. Bad \subseteq Nat
    OBVIOUS
  <2> HIDE DEF Below, Bad
  <2>4. \E x \in Bad : \A y \in Bad : ~ (<<y, x>> \in Below)
    BY <1>1, <2>1, <2>3, WFMin
  <2>5. QED  BY <2>2, <2>3, <2>4
<1>3. m \in Nat /\ m \notin P /\ \A k \in Nat : k < m => k \in P
  BY <1>2
<1>4. m # 0
  BY <1>3
<1>5. m - 1 \in Nat /\ m - 1 < m /\ m = (m - 1) + 1
  BY <1>3, <1>4
<1>6. QED  BY <1>3, <1>5

\* A set with {} that is closed under one member more holds a finite set.
LEMMA FiniteSets1 ==
    ASSUME NEW S, IsFiniteSet(S), NEW P, {} \in P,
           \A T \in SUBSET S : \A x \in S \ T : T \in P => T \union {x} \in P
    PROVE  S \in P
<1> DEFINE Q == {n \in Nat : \A T \in SUBSET S : Cardinality(T) = n => T \in P}
<1>1. \A T \in SUBSET S : IsFiniteSet(T) /\ Cardinality(T) \in Nat
  BY FS_Subset, FS_CardinalityType
<1>2. 0 \in Q
  BY <1>1, FS_EmptySet
<1>3. ASSUME NEW n \in Nat, n \in Q
      PROVE  n + 1 \in Q
  <2>1. SUFFICES ASSUME NEW T \in SUBSET S, Cardinality(T) = n + 1
                 PROVE  T \in P
    OBVIOUS
  <2>. HIDE DEF Q
  <2>2. T # {}
    <3>1. Cardinality({}) = 0
      BY FS_EmptySet
    <3>2. n + 1 # 0
      OBVIOUS
    <3>3. QED  BY <2>1, <3>1, <3>2
  <2>3. PICK x \in T : TRUE
    BY <2>2
  <2>4. Cardinality(T \ {x}) = n /\ T \ {x} \in SUBSET S
    <3>1. IsFiniteSet(T)
      BY <1>1
    <3>2. Cardinality(T \ {x}) = Cardinality(T) - 1
      BY <3>1, FS_RemoveElement
    <3>3. QED  BY <2>1, <3>2
  <2>5. T \ {x} \in P
    BY <1>3, <2>4 DEF Q
  <2>6. T = (T \ {x}) \union {x} /\ x \in S \ (T \ {x}) /\ T \ {x} \in SUBSET S
    OBVIOUS
  <2>7. QED  BY <2>5, <2>6
<1> HIDE DEF Q
<1>4. \A n \in Nat : n \in Q
  BY <1>2, <1>3, Numbers
<1>5. QED  BY <1>1, <1>4 DEF Q
-----------------------------------------------------------------------------
(* Sums.                                                                    *)

\* g gives each set of S the sum of f over it.
Sums(g, f, S) ==
    /\ g \in [SUBSET S -> Int] /\ g[{}] = 0
    /\ \A T \in SUBSET S : \A x \in T : g[T] = f[x] + g[T \ {x}]

\* There are sums of a finite set.
LEMMA SumsExist ==
    ASSUME NEW S, IsFiniteSet(S), NEW f, \A x \in S : f[x] \in Int
    PROVE  \E g : Sums(g, f, S)
<1> DEFINE P == {T \in SUBSET S : \E g : Sums(g, f, T)}
<1>1. {} \in P
  <2> DEFINE g == [T \in SUBSET {} |-> 0]
  <2>1. Sums(g, f, {})
    BY DEF Sums
  <2>2. QED  BY <2>1
<1>2. ASSUME NEW T \in SUBSET S, NEW x \in S \ T, T \in P
      PROVE  T \union {x} \in P
  <2>1. PICK g : Sums(g, f, T)
    BY <1>2
  <2> DEFINE U == T \union {x}
             h == [A \in SUBSET U |-> IF x \in A THEN f[x] + g[A \ {x}] ELSE g[A]]
  <2>2. \A A \in SUBSET U : A \ {x} \in SUBSET T
    OBVIOUS
  <2>3. \A A \in SUBSET U : x \notin A => A \in SUBSET T
    OBVIOUS
  <2>4. h \in [SUBSET U -> Int]
    <3>1. \A A \in SUBSET T : g[A] \in Int
      BY <2>1 DEF Sums
    <3>2. f[x] \in Int
      OBVIOUS
    <3>3. QED  BY <2>2, <2>3, <3>1, <3>2
  <2>5. h[{}] = 0
    BY <2>1 DEF Sums
  <2>6. ASSUME NEW A \in SUBSET U, NEW y \in A
        PROVE  h[A] = f[y] + h[A \ {y}]
    <3>1. CASE y = x
      BY <3>1
    <3>2. CASE y # x /\ x \notin A
      <4>1. A \in SUBSET T /\ A \ {y} \in SUBSET U /\ x \notin A \ {y}
        BY <3>2
      <4>2. g[A] = f[y] + g[A \ {y}]
        BY <2>1, <4>1 DEF Sums
      <4>3. QED  BY <3>2, <4>1, <4>2
    <3>3. CASE y # x /\ x \in A
      <4> DEFINE B == A \ {x}
                 C == A \ {y}
      <4>1. B \in SUBSET T /\ y \in B /\ C \in SUBSET U /\ x \in C /\ C \ {x} = B \ {y}
        BY <3>3
      <4>2. h[A] = f[x] + g[B]
        BY <3>3
      <4>3. h[C] = f[x] + g[C \ {x}]
        BY <4>1
      <4>4. g[B] = f[y] + g[B \ {y}]
        BY <2>1, <4>1 DEF Sums
      <4>5. g[B \ {y}] \in Int /\ f[x] \in Int /\ f[y] \in Int
        <5>1. B \ {y} \in SUBSET T
          BY <4>1
        <5>2. QED  BY <2>1, <5>1 DEF Sums
      <4> HIDE DEF h, B
      <4>6. h[A] = f[x] + (f[y] + g[B \ {y}])
        BY <4>2, <4>4
      <4>7. h[C] = f[x] + g[B \ {y}]
        BY <4>1, <4>3
      <4>8. QED  BY <4>5, <4>6, <4>7
    <3>4. QED  BY <3>1, <3>2, <3>3
  <2>7. Sums(h, f, U)
    <3> HIDE DEF h, U
    <3>1. QED  BY <2>4, <2>5, <2>6 DEF Sums
  <2>8. QED  BY <2>7
<1> HIDE DEF P
<1>3. S \in P
  BY <1>1, <1>2, FiniteSets1
<1>4. QED  BY <1>3 DEF P

\* sumOf is such a sum.
LEMMA SumIsOne ==
    ASSUME NEW S, IsFiniteSet(S), NEW f, \A x \in S : f[x] \in Int, NEW g, Sums(g, f, S),
           DOMAIN f = S
    PROVE  sumOf(f) = g[S]
<1> DEFINE Step(it) == [T \in SUBSET S |->
                          IF T = {} THEN 0
                          ELSE f[CHOOSE x \in T : TRUE] + it[T \ {CHOOSE x \in T : TRUE}]]
           c == CHOOSE it : it = Step(it)
<1>1. g = Step(g)
  <2>1. \A T \in SUBSET S : g[T] = Step(g)[T]
    <3>1. TAKE T \in SUBSET S
    <3>2. CASE T = {}
      BY <3>2 DEF Sums
    <3>3. CASE T # {}
      <4>1. (CHOOSE x \in T : TRUE) \in T
        BY <3>3
      <4>2. QED  BY <3>3, <4>1 DEF Sums
    <3>4. QED  BY <3>2, <3>3
  <2>2. g = [T \in SUBSET S |-> g[T]]
    BY DEF Sums
  <2>3. QED  BY <2>1, <2>2
<1>2. c = Step(c)
  BY <1>1
<1>3. sumOf(f) = c[S]
  BY DEF sumOf, MapThenSumSet, MapThenFoldSet
<1> DEFINE P == {T \in SUBSET S : c[T] = g[T]}
<1> HIDE DEF c
<1> DEFINE Q == {n \in Nat : \A T \in SUBSET S : Cardinality(T) = n => c[T] = g[T]}
<1>4. \A T \in SUBSET S : IsFiniteSet(T) /\ Cardinality(T) \in Nat
  BY FS_Subset, FS_CardinalityType
<1>5. 0 \in Q
  <2>1. ASSUME NEW T \in SUBSET S, Cardinality(T) = 0
        PROVE  c[T] = g[T]
    <3>1. T = {}
      BY <1>4, <2>1, FS_EmptySet
    <3>2. c[T] = 0
      BY <1>2, <3>1
    <3>3. QED  BY <3>1, <3>2 DEF Sums
  <2>2. QED  BY <2>1
<1>6. ASSUME NEW n \in Nat, n \in Q
      PROVE  n + 1 \in Q
  <2>1. SUFFICES ASSUME NEW T \in SUBSET S, Cardinality(T) = n + 1
                 PROVE  c[T] = g[T]
    OBVIOUS
  <2>2. T # {}
    BY <2>1, FS_EmptySet
  <2> DEFINE y == CHOOSE x \in T : TRUE
  <2>3. y \in T
    BY <2>2
  <2>4. c[T] = f[y] + c[T \ {y}]
    BY <1>2, <2>2
  <2> HIDE DEF y
  <2>5. Cardinality(T \ {y}) = n /\ T \ {y} \in SUBSET S
    <3>1. IsFiniteSet(T)
      BY <1>4
    <3>2. Cardinality(T \ {y}) = Cardinality(T) - 1
      BY <2>3, <3>1, FS_RemoveElement
    <3>3. QED  BY <2>1, <3>2
  <2>6. c[T \ {y}] = g[T \ {y}]
    BY <1>6, <2>5
  <2>7. g[T] = f[y] + g[T \ {y}]
    BY <2>3 DEF Sums
  <2>8. QED  BY <2>4, <2>6, <2>7
<1> HIDE DEF Q
<1>7. \A n \in Nat : n \in Q
  BY <1>5, <1>6, Numbers
<1>8. c[S] = g[S]
  BY <1>4, <1>7 DEF Q
<1>9. QED  BY <1>3, <1>8

\* The sum of f over the set T.
Over(f, T) == sumOf([x \in T |-> f[x]])

\* Over a set that is empty, or that has one member more.
LEMMA OverSteps ==
    ASSUME NEW S, IsFiniteSet(S), NEW f, \A x \in S : f[x] \in Int
    PROVE  /\ Over(f, {}) = 0 /\ Over(f, S) \in Int
           /\ \A T \in SUBSET S : Over(f, T) \in Int
           /\ \A T \in SUBSET S : \A x \in S \ T : Over(f, T \union {x}) = Over(f, T) + f[x]
           /\ \A T \in SUBSET S : \A x \in T : Over(f, T) = Over(f, T \ {x}) + f[x]
<1>1. PICK g : Sums(g, f, S)
  BY SumsExist
<1>2. ASSUME NEW T \in SUBSET S
      PROVE  Over(f, T) = g[T]
  <2> DEFINE h == [x \in T |-> f[x]]
             k == [A \in SUBSET T |-> g[A]]
  <2>1. IsFiniteSet(T) /\ DOMAIN h = T /\ \A x \in T : h[x] \in Int /\ h[x] = f[x]
    BY FS_Subset
  <2>2. SUBSET T \subseteq SUBSET S
    OBVIOUS
  <2>3. Sums(k, h, T)
    <3>1. k \in [SUBSET T -> Int]
      BY <1>1, <2>2 DEF Sums
    <3>2. k[{}] = 0
      BY <1>1 DEF Sums
    <3>3. ASSUME NEW A \in SUBSET T, NEW x \in A
          PROVE  k[A] = h[x] + k[A \ {x}]
      <4>1. g[A] = f[x] + g[A \ {x}]
        BY <1>1, <2>2 DEF Sums
      <4>2. A \ {x} \in SUBSET T /\ x \in T
        OBVIOUS
      <4>3. QED  BY <4>1, <4>2
    <3> HIDE DEF h, k
    <3>4. QED  BY <3>1, <3>2, <3>3 DEF Sums
  <2>4. k[T] = g[T]
    OBVIOUS
  <2> HIDE DEF h, k
  <2>5. sumOf(h) = k[T]
    BY <2>1, <2>3, SumIsOne
  <2>6. QED  BY <2>4, <2>5 DEF Over, h
<1>3. \A T \in SUBSET S : g[T] \in Int
  BY <1>1 DEF Sums
<1>4. \A T \in SUBSET S : \A x \in T : g[T] = f[x] + g[T \ {x}]
  BY <1>1 DEF Sums
<1>5. g[{}] = 0
  BY <1>1 DEF Sums
<1>6. ASSUME NEW T \in SUBSET S, NEW x \in S \ T
      PROVE  Over(f, T \union {x}) = Over(f, T) + f[x]
  <2> DEFINE U == T \union {x}
  <2>1. U \in SUBSET S /\ x \in U /\ U \ {x} = T
    OBVIOUS
  <2> HIDE DEF U
  <2>2. g[U] = f[x] + g[T]
    BY <1>4, <2>1
  <2>3. QED  BY <1>2, <1>3, <2>1, <2>2 DEF U
<1>7. ASSUME NEW T \in SUBSET S, NEW x \in T
      PROVE  Over(f, T) = Over(f, T \ {x}) + f[x]
  <2>1. T \ {x} \in SUBSET S /\ f[x] \in Int
    OBVIOUS
  <2>2. g[T] = f[x] + g[T \ {x}]
    BY <1>4
  <2>3. QED  BY <1>2, <1>3, <2>1, <2>2
<1>8. QED  BY <1>2, <1>3, <1>5, <1>6, <1>7

\* Over two sets with nothing in common.
LEMMA OverUnion ==
    ASSUME NEW S, IsFiniteSet(S), NEW f, \A x \in S : f[x] \in Int,
           NEW A \in SUBSET S, NEW B \in SUBSET S, A \intersect B = {}
    PROVE  Over(f, A \union B) = Over(f, A) + Over(f, B)
<1> DEFINE P == {T \in SUBSET B : Over(f, A \union T) = Over(f, A) + Over(f, T)}
<1>1. {} \in P
  <2>1. A \union {} = A /\ Over(f, A) \in Int /\ Over(f, {}) = 0
    BY OverSteps
  <2>2. QED  BY <2>1
<1>2. ASSUME NEW T \in SUBSET B, NEW x \in B \ T, T \in P
      PROVE  T \union {x} \in P
  <2>1. /\ T \in SUBSET S /\ A \union T \in SUBSET S /\ x \in S \ T /\ x \in S \ (A \union T)
        /\ A \union (T \union {x}) = (A \union T) \union {x}
    OBVIOUS
  <2>2. Over(f, T \union {x}) = Over(f, T) + f[x]
    BY <2>1, OverSteps
  <2>3. Over(f, (A \union T) \union {x}) = Over(f, A \union T) + f[x]
    BY <2>1, OverSteps
  <2>4. Over(f, A) \in Int /\ Over(f, T) \in Int /\ f[x] \in Int
    BY <2>1, OverSteps
  <2>5. Over(f, A \union T) = Over(f, A) + Over(f, T)
    BY <1>2
  <2>6. Over(f, A \union (T \union {x})) = Over(f, A) + Over(f, T \union {x})
    <3>1. Over(f, A \union (T \union {x})) = Over(f, (A \union T) \union {x})
      BY <2>1
    <3>2. Over(f, (A \union T) \union {x}) = (Over(f, A) + Over(f, T)) + f[x]
      BY <2>3, <2>5
    <3>3. (Over(f, A) + Over(f, T)) + f[x] = Over(f, A) + (Over(f, T) + f[x])
      BY <2>4
    <3>4. QED  BY <2>2, <3>1, <3>2, <3>3
  <2>7. T \union {x} \in SUBSET B
    OBVIOUS
  <2>8. QED  BY <2>6, <2>7
<1>3. IsFiniteSet(B)
  BY FS_Subset
<1> HIDE DEF P
<1>4. B \in P
  BY <1>1, <1>2, <1>3, FiniteSets1
<1>5. QED  BY <1>4 DEF P

\* Term by term, and how equal sums of no smaller terms have equal terms.
LEMMA OverAtMost ==
    ASSUME NEW S, IsFiniteSet(S), NEW f, NEW g, \A x \in S : f[x] \in Int,
           \A x \in S : g[x] \in Int, \A x \in S : f[x] <= g[x]
    PROVE  /\ Over(f, S) <= Over(g, S)
           /\ Over(f, S) = Over(g, S) => \A x \in S : f[x] = g[x]
<1> DEFINE P == {T \in SUBSET S : /\ Over(f, T) <= Over(g, T)
                                  /\ Over(f, T) = Over(g, T) => \A x \in T : f[x] = g[x]}
<1>1. {} \in P
  <2>1. Over(f, {}) = 0 /\ Over(g, {}) = 0
    BY OverSteps
  <2>2. QED  BY <2>1
<1>2. ASSUME NEW T \in SUBSET S, NEW x \in S \ T, T \in P
      PROVE  T \union {x} \in P
  <2> DEFINE U == T \union {x}
  <2>1. Over(f, U) = Over(f, T) + f[x] /\ Over(f, T) \in Int /\ f[x] \in Int
    BY OverSteps
  <2>2. Over(g, U) = Over(g, T) + g[x] /\ Over(g, T) \in Int /\ g[x] \in Int
    BY OverSteps
  <2>3. U \in SUBSET S /\ \A y \in U : y = x \/ y \in T
    OBVIOUS
  <2>4. f[x] <= g[x]
    OBVIOUS
  <2>5. Over(f, T) <= Over(g, T) /\ (Over(f, T) = Over(g, T) => \A y \in T : f[y] = g[y])
    BY <1>2
  <2> HIDE DEF U
  <2>6. Over(f, U) <= Over(g, U) /\ (Over(f, U) = Over(g, U) => Over(f, T) = Over(g, T) /\ f[x] = g[x])
    BY <2>1, <2>2, <2>4, <2>5
  <2>7. Over(f, U) = Over(g, U) => \A y \in U : f[y] = g[y]
    BY <2>3, <2>5, <2>6
  <2>8. U \in P
    BY <2>3, <2>6, <2>7
  <2>9. QED  BY <2>8 DEF U
<1> HIDE DEF P
<1>3. S \in P
  BY <1>1, <1>2, FiniteSets1
<1>4. QED  BY <1>3 DEF P

\* The sum of sums.
LEMMA OverPlus ==
    ASSUME NEW S, IsFiniteSet(S), NEW f, NEW g, NEW h, \A x \in S : f[x] \in Int,
           \A x \in S : g[x] \in Int, \A x \in S : h[x] = f[x] + g[x]
    PROVE  Over(h, S) = Over(f, S) + Over(g, S)
<1> DEFINE P == {T \in SUBSET S : Over(h, T) = Over(f, T) + Over(g, T)}
<1>1. \A x \in S : h[x] \in Int
  OBVIOUS
<1>2. {} \in P
  <2>1. Over(f, {}) = 0 /\ Over(g, {}) = 0 /\ Over(h, {}) = 0
    BY <1>1, OverSteps
  <2>2. QED  BY <2>1
<1>3. ASSUME NEW T \in SUBSET S, NEW x \in S \ T, T \in P
      PROVE  T \union {x} \in P
  <2> DEFINE U == T \union {x}
  <2>1. Over(f, U) = Over(f, T) + f[x] /\ Over(f, T) \in Int /\ f[x] \in Int
    BY OverSteps
  <2>2. Over(g, U) = Over(g, T) + g[x] /\ Over(g, T) \in Int /\ g[x] \in Int
    BY OverSteps
  <2>3. Over(h, U) = Over(h, T) + h[x] /\ h[x] = f[x] + g[x] /\ Over(h, T) = Over(f, T) + Over(g, T)
    BY <1>1, <1>3, OverSteps
  <2>4. U \in SUBSET S
    OBVIOUS
  <2> HIDE DEF U
  <2>5. U \in P
    BY <2>1, <2>2, <2>3, <2>4
  <2>6. QED  BY <2>5 DEF U
<1> HIDE DEF P
<1>4. S \in P
  BY <1>2, <1>3, FiniteSets1
<1>5. QED  BY <1>4 DEF P

\* Equal terms, equal sums.
LEMMA OverSame ==
    ASSUME NEW S, NEW f, NEW g, \A x \in S : f[x] = g[x]
    PROVE  Over(f, S) = Over(g, S)
<1>1. [x \in S |-> f[x]] = [x \in S |-> g[x]]
  OBVIOUS
<1>2. QED  BY <1>1 DEF Over

\* Of nothing.
LEMMA OverZero ==
    ASSUME NEW S, IsFiniteSet(S), NEW f, \A x \in S : f[x] = 0
    PROVE  Over(f, S) = 0
<1>1. \A x \in S : f[x] \in Int /\ f[x] = f[x] + f[x]
  OBVIOUS
<1>2. Over(f, S) \in Int
  BY <1>1, OverSteps
<1>3. Over(f, S) = Over(f, S) + Over(f, S)
  BY <1>1, OverPlus
<1>4. QED  BY <1>2, <1>3

\* Of a constant over a part of the set.
LEMMA OverCount ==
    ASSUME NEW S, IsFiniteSet(S), NEW A \in SUBSET S, NEW k \in Int, NEW f,
           \A x \in S : f[x] = IF x \in A THEN k ELSE 0
    PROVE  Over(f, S) = k * Cardinality(A) /\ Cardinality(A) \in Nat
<1> DEFINE P == {T \in SUBSET S : Over(f, T) = k * Cardinality(A \intersect T)}
<1>1. \A x \in S : f[x] \in Int
  OBVIOUS
<1>2. {} \in P
  <2>1. Over(f, {}) = 0
    BY <1>1, OverSteps
  <2>2. A \intersect {} = {} /\ Cardinality({}) = 0
    BY FS_EmptySet
  <2>3. QED  BY <2>1, <2>2
<1>3. ASSUME NEW T \in SUBSET S, NEW x \in S \ T, T \in P
      PROVE  T \union {x} \in P
  <2> DEFINE c == Cardinality(A \intersect T)
             U == T \union {x}
  <2>1. Over(f, U) = Over(f, T) + f[x]
    BY <1>1, OverSteps
  <2>2. IsFiniteSet(A \intersect T)
    BY FS_Subset
  <2>3. c \in Nat
    BY <2>2, FS_CardinalityType
  <2>4. Over(f, T) = k * c
    BY <1>3
  <2>5. Cardinality(A \intersect U) = c + (IF x \in A THEN 1 ELSE 0)
    <3>1. CASE x \in A
      <4>1. A \intersect U = (A \intersect T) \union {x} /\ x \notin A \intersect T
        BY <3>1
      <4>2. QED  BY <2>2, <3>1, <4>1, FS_AddElement
    <3>2. CASE x \notin A
      <4>1. A \intersect U = A \intersect T
        BY <3>2
      <4>2. Cardinality(A \intersect U) = c
        BY <4>1
      <4> HIDE DEF c, U
      <4>3. QED  BY <2>3, <3>2, <4>2
    <3>3. QED  BY <3>1, <3>2
  <2> HIDE DEF c, U
  <2>6. Over(f, U) = k * Cardinality(A \intersect U)
    <3>1. CASE x \in A
      <4>1. k * (c + 1) = k * c + k
        BY <2>3
      <4>2. QED  BY <2>1, <2>4, <2>5, <3>1, <4>1
    <3>2. CASE x \notin A
      <4>1. k * c \in Int
        BY <2>3
      <4>2. QED  BY <2>1, <2>3, <2>4, <2>5, <3>2, <4>1
    <3>3. QED  BY <3>1, <3>2
  <2>7. U \in SUBSET S
    BY DEF U
  <2>8. QED  BY <2>6, <2>7 DEF U
<1> HIDE DEF P
<1>4. S \in P
  BY <1>2, <1>3, FiniteSets1
<1>5. A \intersect S = A
  OBVIOUS
<1>6. IsFiniteSet(A)
  BY FS_Subset
<1>7. QED  BY <1>4, <1>5, <1>6, FS_CardinalityType DEF P

\* Class by class.
LEMMA OverFibres ==
    ASSUME NEW R, IsFiniteSet(R), NEW t, \A r \in R : t[r] \in Int, NEW D, IsFiniteSet(D), NEW to,
           \A r \in R : to[r] \in D
    PROVE  Over([d \in D |-> Over(t, {r \in R : to[r] = d})], D) = Over(t, R)
<1> DEFINE of(d) == {r \in R : to[r] = d}
           part == [d \in D |-> Over(t, of(d))]
           In(E) == {r \in R : to[r] \in E}
           P == {E \in SUBSET D : Over(part, E) = Over(t, In(E))}
<1>1. \A T \in SUBSET R : Over(t, T) \in Int
  BY OverSteps
<1>2. \A d \in D : part[d] \in Int
  BY <1>1
<1> HIDE DEF part
<1>3. {} \in P
  <2>1. In({}) = {}
    OBVIOUS
  <2>2. Over(part, {}) = 0 /\ Over(t, {}) = 0
    <3>1. Over(part, {}) = 0
      BY <1>2, OverSteps
    <3>2. Over(t, {}) = 0
      BY OverSteps
    <3>3. QED  BY <3>1, <3>2
  <2>3. QED  BY <2>1, <2>2
<1>4. ASSUME NEW E \in SUBSET D, NEW d \in D \ E, E \in P
      PROVE  E \union {d} \in P
  <2>1. In(E \union {d}) = In(E) \union of(d) /\ In(E) \intersect of(d) = {}
    OBVIOUS
  <2>2. In(E) \in SUBSET R /\ of(d) \in SUBSET R
    OBVIOUS
  <2> HIDE DEF In, of
  <2>3. Over(t, In(E) \union of(d)) = Over(t, In(E)) + Over(t, of(d))
    BY <2>1, <2>2, OverUnion
  <2>4. Over(part, E \union {d}) = Over(part, E) + part[d]
    BY <1>2, OverSteps
  <2>5. part[d] = Over(t, of(d))
    BY DEF part
  <2>6. Over(part, E) = Over(t, In(E))
    BY <1>4
  <2>7. Over(part, E \union {d}) = Over(t, In(E \union {d}))
    BY <2>1, <2>3, <2>4, <2>5, <2>6
  <2>8. E \union {d} \in SUBSET D
    OBVIOUS
  <2>9. QED  BY <2>7, <2>8
<1> HIDE DEF P
<1>5. D \in P
  BY <1>3, <1>4, FiniteSets1
<1>6. In(D) = R
  OBVIOUS
<1>7. QED  BY <1>5, <1>6 DEF P, part

\* By rows or by columns.
LEMMA OverExchange ==
    ASSUME NEW A, IsFiniteSet(A), NEW B, IsFiniteSet(B), NEW h,
           \A a \in A, b \in B : h[a][b] \in Int
    PROVE  Over([a \in A |-> Over([b \in B |-> h[a][b]], B)], A)
             = Over([b \in B |-> Over([a \in A |-> h[a][b]], A)], B)
<1> DEFINE row(a) == [b \in B |-> h[a][b]]
           column(b) == [a \in A |-> h[a][b]]
           f == [a \in A |-> Over(row(a), B)]
           g(T) == [b \in B |-> Over(column(b), T)]
           P == {T \in SUBSET A : Over(f, T) = Over(g(T), B)}
<1>1. \A a \in A : Over(row(a), B) \in Int
  <2>1. TAKE a \in A
  <2>2. \A b \in B : row(a)[b] \in Int
    OBVIOUS
  <2> HIDE DEF row
  <2>3. QED  BY <2>2, OverSteps
<1>2. \A a \in A : f[a] \in Int
  BY <1>1
<1>3. ASSUME NEW b \in B
      PROVE  /\ Over(column(b), {}) = 0
             /\ \A T \in SUBSET A : Over(column(b), T) \in Int
             /\ \A T \in SUBSET A : \A x \in A \ T : Over(column(b), T \union {x}) = Over(column(b), T) + h[x][b]
  <2>1. \A a \in A : column(b)[a] \in Int /\ column(b)[a] = h[a][b]
    OBVIOUS
  <2> HIDE DEF column
  <2>2. QED  BY <2>1, OverSteps
<1>4. {} \in P
  <2>1. Over(f, {}) = 0
    BY <1>2, OverSteps
  <2> DEFINE z == g({})
  <2>2. \A b \in B : z[b] = 0
    BY <1>3
  <2> HIDE DEF z
  <2>3. Over(z, B) = 0
    BY <2>2, OverZero
  <2>4. Over(g({}), B) = 0
    BY <2>3 DEF z
  <2> HIDE DEF f, g
  <2>5. QED  BY <2>1, <2>4
<1>5. ASSUME NEW T \in SUBSET A, NEW x \in A \ T, T \in P
      PROVE  T \union {x} \in P
  <2> DEFINE U == T \union {x}
             gT == g(T)
             gU == g(U)
             r == row(x)
  <2>1. \A b \in B : gT[b] \in Int /\ r[b] \in Int /\ gU[b] = gT[b] + r[b]
    BY <1>3
  <2>2. \A b \in B : gU[b] \in Int
    <3> HIDE DEF gT, gU, r
    <3>1. QED  BY <2>1
  <2>3. f[x] = Over(r, B)
    OBVIOUS
  <2>4. Over(f, U) = Over(f, T) + f[x]
    <3> HIDE DEF f
    <3>1. QED  BY <1>2, OverSteps
  <2>5. U \in SUBSET A
    OBVIOUS
  <2>6. Over(f, T) = Over(gT, B)
    BY <1>5
  <2> HIDE DEF gT, gU, r, U, f, row
  <2>7. Over(gU, B) = Over(gT, B) + Over(r, B)
    <3>1. /\ \A b \in B : gT[b] \in Int
          /\ \A b \in B : r[b] \in Int
          /\ \A b \in B : gU[b] = gT[b] + r[b]
      BY <2>1
    <3>2. QED  BY <3>1, OverPlus
  <2>8. Over(f, U) = Over(gU, B)
    BY <2>3, <2>4, <2>6, <2>7
  <2>9. U \in P
    BY <2>5, <2>8 DEF gU
  <2>10. QED  BY <2>9 DEF U
<1> HIDE DEF P
<1>6. A \in P
  BY <1>4, <1>5, FiniteSets1
<1>7. QED  BY <1>6 DEF P

\* Of multiples.
LEMMA OverTimes ==
    ASSUME NEW S, IsFiniteSet(S), NEW f, \A x \in S : f[x] \in Int, NEW k \in Int, NEW g,
           \A x \in S : g[x] = k * f[x]
    PROVE  Over(g, S) = k * Over(f, S)
<1> DEFINE P == {T \in SUBSET S : Over(g, T) = k * Over(f, T)}
<1>1. \A x \in S : g[x] \in Int
  OBVIOUS
<1>2. {} \in P
  <2>1. Over(f, {}) = 0 /\ Over(g, {}) = 0
    BY <1>1, OverSteps
  <2>2. QED  BY <2>1
<1>3. ASSUME NEW T \in SUBSET S, NEW x \in S \ T, T \in P
      PROVE  T \union {x} \in P
  <2> DEFINE U == T \union {x}
  <2>1. Over(f, U) = Over(f, T) + f[x] /\ Over(f, T) \in Int /\ f[x] \in Int
    BY OverSteps
  <2>2. Over(g, U) = Over(g, T) + g[x] /\ g[x] = k * f[x] /\ Over(g, T) = k * Over(f, T)
    BY <1>1, <1>3, OverSteps
  <2>3. U \in SUBSET S
    OBVIOUS
  <2> HIDE DEF U
  <2>4. k * (Over(f, T) + f[x]) = k * Over(f, T) + k * f[x]
    BY <2>1
  <2>5. U \in P
    BY <2>1, <2>2, <2>3, <2>4
  <2>6. QED  BY <2>5 DEF U
<1> HIDE DEF P
<1>4. S \in P
  BY <1>2, <1>3, FiniteSets1
<1>5. QED  BY <1>4 DEF P
-----------------------------------------------------------------------------
(* Orders.                                                                  *)

\* The pairs of R put the members of S in a row.
Orders(R, S) ==
    /\ \A x, y, z \in S : <<x, y>> \in R /\ <<y, z>> \in R => <<x, z>> \in R
    /\ \A x \in S : <<x, x>> \notin R
    /\ \A x, y \in S : x = y \/ <<x, y>> \in R \/ <<y, x>> \in R

\* How many are before x.
RankIn(R, S, x) == Cardinality({y \in S : <<y, x>> \in R})

\* No two members of an ordered set have the same rank, and each rank is taken.
LEMMA Ranks ==
    ASSUME NEW S, IsFiniteSet(S), NEW R, Orders(R, S)
    PROVE  /\ Cardinality(S) \in Nat
           /\ \A x \in S : RankIn(R, S, x) \in 0..(Cardinality(S) - 1)
           /\ \A x, y \in S : <<x, y>> \in R <=> RankIn(R, S, x) < RankIn(R, S, y)
           /\ \A x, y \in S : RankIn(R, S, x) = RankIn(R, S, y) => x = y
           /\ \A k \in 0..(Cardinality(S) - 1) : \E x \in S : RankIn(R, S, x) = k
<1> DEFINE n == Cardinality(S)
           B(x) == {y \in S : <<y, x>> \in R}
           rank == [x \in S |-> Cardinality(B(x))]
<1>1. n \in Nat
  BY FS_CardinalityType
<1>2. \A x \in S : IsFiniteSet(B(x)) /\ Cardinality(B(x)) \in Nat /\ Cardinality(B(x)) < n
  <2>1. TAKE x \in S
  <2>2. B(x) \subseteq S /\ x \notin B(x) /\ B(x) # S
    BY DEF Orders
  <2> HIDE DEF B
  <2>3. IsFiniteSet(B(x)) /\ Cardinality(B(x)) < Cardinality(S)
    BY <2>2, FS_Subset, FS_CardinalityType
  <2>4. QED  BY <2>3, FS_CardinalityType
<1>3. \A x, y \in S : <<x, y>> \in R => Cardinality(B(x)) < Cardinality(B(y))
  <2>1. TAKE x, y \in S
  <2>2. HAVE <<x, y>> \in R
  <2>3. B(x) \subseteq B(y) /\ x \in B(y) /\ x \notin B(x)
    BY <2>2 DEF Orders
  <2>4. IsFiniteSet(B(y)) /\ B(x) # B(y)
    BY <1>2, <2>3
  <2> HIDE DEF B
  <2>5. QED  BY <2>3, <2>4, FS_Subset, FS_CardinalityType
<1>4. \A x, y \in S : <<x, y>> \in R <=> Cardinality(B(x)) < Cardinality(B(y))
  <2>1. TAKE x, y \in S
  <2>2. Cardinality(B(x)) \in Nat /\ Cardinality(B(y)) \in Nat
    BY <1>2
  <2>3. x = y \/ <<x, y>> \in R \/ <<y, x>> \in R
    BY DEF Orders
  <2>4. x = y => Cardinality(B(x)) = Cardinality(B(y))
    OBVIOUS
  <2> HIDE DEF B
  <2>5. QED  BY <1>3, <2>2, <2>3, <2>4
<1>5. \A x, y \in S : Cardinality(B(x)) = Cardinality(B(y)) => x = y
  <2>1. TAKE x, y \in S
  <2>2. x = y \/ <<x, y>> \in R \/ <<y, x>> \in R
    BY DEF Orders
  <2>3. Cardinality(B(x)) \in Nat /\ Cardinality(B(y)) \in Nat
    BY <1>2
  <2> HIDE DEF B
  <2>4. QED  BY <1>3, <2>2, <2>3
<1>6. rank \in [S -> 0..(n - 1)]
  <2>1. \A x \in S : Cardinality(B(x)) \in 0..(n - 1)
    <3> HIDE DEF B, n
    <3>1. QED  BY <1>1, <1>2
  <2>2. QED  BY <2>1
<1>7. IsFiniteSet(0..(n - 1)) /\ Cardinality(0..(n - 1)) = n
  <2>1. 0 \in Int /\ n - 1 \in Int
    BY <1>1
  <2>2. IsFiniteSet(0..(n - 1)) /\ Cardinality(0..(n - 1)) = IF 0 > n - 1 THEN 0 ELSE (n - 1) - 0 + 1
    BY <2>1, FS_Interval
  <2>3. QED  BY <1>1, <2>2
<1>8. \A k \in 0..(n - 1) : \E x \in S : rank[x] = k
  <2> DEFINE T == {rank[x] : x \in S}
  <2>1. T \subseteq 0..(n - 1)
    BY <1>6
  <2>2. \A x, y \in S : rank[x] = rank[y] => x = y
    BY <1>5
  <2> HIDE DEF rank, n
  <2>3. rank \in [S -> T] /\ \A k \in T : \E x \in S : rank[x] = k
    BY <1>6
  <2>4. rank \in Bijection(S, T)
    BY <2>2, <2>3 DEF Bijection, Injection, Surjection, IsInjective
  <2>5. Cardinality(T) = Cardinality(S)
    BY <2>4, FS_Bijection DEF ExistsBijection
  <2>6. T = 0..(n - 1)
    BY <1>7, <2>1, <2>5, FS_Subset DEF n
  <2>7. QED  BY <2>6
<1>9. \A x \in S : RankIn(R, S, x) = Cardinality(B(x)) /\ rank[x] = Cardinality(B(x))
  BY DEF RankIn
<1>10. \A x \in S : RankIn(R, S, x) \in 0..(n - 1)
  BY <1>6, <1>9
<1>11. \A k \in 0..(n - 1) : \E x \in S : RankIn(R, S, x) = k
  BY <1>8, <1>9
<1> HIDE DEF B, rank
<1>12. QED  BY <1>1, <1>4, <1>5, <1>9, <1>10, <1>11

\* As many have a rank below k as there are such ranks.
LEMMA RankCount ==
    ASSUME NEW S, IsFiniteSet(S), NEW R, Orders(R, S), NEW k \in 0..Cardinality(S)
    PROVE  Cardinality({x \in S : RankIn(R, S, x) < k}) = k
<1> DEFINE T == {x \in S : RankIn(R, S, x) < k}
           f == [x \in T |-> RankIn(R, S, x)]
           n == Cardinality(S)
<1>1. n \in Nat /\ k \in Nat /\ k <= n
  BY Ranks
<1>2. \A x \in S : RankIn(R, S, x) \in 0..(n - 1)
  BY Ranks
<1>3. \A j \in 0..(k - 1) : \E x \in T : RankIn(R, S, x) = j
  <2>1. TAKE j \in 0..(k - 1)
  <2>2. j \in 0..(n - 1) /\ j < k
    BY <1>1
  <2>3. QED  BY <2>2, Ranks
<1>4. f \in [T -> 0..(k - 1)]
  BY <1>1, <1>2
<1>5. \A x, y \in T : f[x] = f[y] => x = y
  BY Ranks
<1>6. \A j \in 0..(k - 1) : \E x \in T : f[x] = j
  BY <1>3
<1> HIDE DEF f
<1>7. f \in Bijection(T, 0..(k - 1))
  BY <1>4, <1>5, <1>6 DEF Bijection, Injection, Surjection, IsInjective
<1>8. Cardinality(T) = Cardinality(0..(k - 1))
  <2>1. IsFiniteSet(T)
    BY FS_Subset
  <2> HIDE DEF T
  <2>2. QED  BY <1>7, <2>1, FS_Bijection DEF ExistsBijection
<1>9. Cardinality(0..(k - 1)) = k
  <2>1. 0 \in Int /\ k - 1 \in Int
    BY <1>1
  <2>2. Cardinality(0..(k - 1)) = IF 0 > k - 1 THEN 0 ELSE (k - 1) - 0 + 1
    BY <2>1, FS_Interval
  <2>3. QED  BY <1>1, <2>2
<1>10. QED  BY <1>8, <1>9
-----------------------------------------------------------------------------
(* Rounding.                                                                *)

\* Quotient and remainder.
LEMMA Division ==
    ASSUME NEW a \in Int, NEW d \in Nat \ {0}
    PROVE  a \div d \in Int /\ a % d \in 0..(d - 1) /\ a = d * (a \div d) + (a % d)
<1>1. a \div d \in Int /\ a % d \in 0..(d - 1)
  OBVIOUS
<1>2. a = d * (a \div d) + (a % d)
  OBVIOUS
<1>3. QED  BY <1>1, <1>2

\* The parts that the method of the largest remainder makes of rounded seconds
\* add up to them, and each is less than a second from the time it stands for.
LEMMA ApportionFacts ==
    ASSUME NEW part, IsFiniteSet(DOMAIN part), DOMAIN part \subseteq Int,
           \A d \in DOMAIN part : part[d] \in Nat
    PROVE  LET D == DOMAIN part
               p == apportioned(Rounded(Over(part, D)), part)
           IN  /\ DOMAIN p = D
               /\ \A d \in D : p[d] \in Nat
               /\ Over(p, D) = Rounded(Over(part, D))
               /\ \A d \in D : p[d] * Second - part[d] \in (1 - Second)..(Second - 1)
<1> DEFINE D == DOMAIN part
           q == [d \in D |-> part[d] \div Second]
           m == [d \in D |-> part[d] % Second]
           A == {d \in D : m[d] > 0}
           total == Over(part, D)
           seconds == Rounded(total)
           rem == seconds - Over(q, D)
           R == {e \in D \X D : \/ m[e[1]] > m[e[2]]
                                \/ m[e[1]] = m[e[2]] /\ e[1] < e[2]}
           rank(d) == RankIn(R, D, d)
           p == [d \in D |-> q[d] + (IF rank(d) < rem THEN 1 ELSE 0)]
           k == Cardinality(A)
           n == Cardinality(D)
<1>1. apportioned(seconds, part) = p
  <2>1. Over(q, D) = sumOf([d \in D |-> part[d] \div Second])
    <3>1. q = [d \in D |-> q[d]]
      OBVIOUS
    <3>2. QED  BY <3>1 DEF Over
  <2>2. ASSUME NEW d \in D
        PROVE  rank(d) = Cardinality({e \in D : \/ part[e] % Second > part[d] % Second
                                                \/ part[e] % Second = part[d] % Second /\ e < d})
    <3>1. \A e \in D : <<e, d>> \in R <=> \/ part[e] % Second > part[d] % Second
                                          \/ part[e] % Second = part[d] % Second /\ e < d
      <4>1. TAKE e \in D
      <4>2. m[e] = part[e] % Second /\ m[d] = part[d] % Second
        OBVIOUS
      <4>3. <<e, d>> \in R <=> m[e] > m[d] \/ (m[e] = m[d] /\ e < d)
        OBVIOUS
      <4> HIDE DEF R, m
      <4>4. QED  BY <4>2, <4>3
    <3>2. {e \in D : <<e, d>> \in R} = {e \in D : \/ part[e] % Second > part[d] % Second
                                                  \/ part[e] % Second = part[d] % Second /\ e < d}
      BY <3>1, Zenon
    <3>3. rank(d) = Cardinality({e \in D : <<e, d>> \in R})
      BY Zenon DEF RankIn
    <3> HIDE DEF R, rank
    <3>4. QED  BY <3>2, <3>3, Zenon
  <2> DEFINE rho(d) == Cardinality({e \in D : \/ part[e] % Second > part[d] % Second
                                              \/ part[e] % Second = part[d] % Second /\ e < d})
                                              sum == Over(q, D)
  <2>3. \A d \in D : rank(d) = rho(d)
    BY <2>2, Zenon
  <2>4. rem = seconds - sum
    OBVIOUS
  <2>5. p = [d \in D |-> part[d] \div Second + (IF rho(d) < rem THEN 1 ELSE 0)]
    <3>1. p = [d \in D |-> part[d] \div Second + (IF rank(d) < rem THEN 1 ELSE 0)]
      OBVIOUS
    <3> HIDE DEF rank, rho, rem, p
    <3>2. QED  BY <2>3, <3>1
  <2> HIDE DEF sum, p, rem, seconds
  <2>6. apportioned(seconds, part) =
            [d \in D |-> part[d] \div Second + (IF rho(d) < seconds - sum THEN 1 ELSE 0)]
    BY <2>1, Zenon DEF apportioned, sum
  <2>7. QED  BY <2>4, <2>5, <2>6, Zenon
<1>2. \A d \in D : /\ q[d] \in Nat /\ m[d] \in 0..(Second - 1)
                   /\ part[d] = Second * q[d] + m[d]
  <2>1. TAKE d \in D
  <2>2. part[d] \in Nat /\ part[d] \in Int /\ Second \in Nat \ {0}
    OBVIOUS
  <2>3. q[d] = part[d] \div Second /\ m[d] = part[d] % Second
    OBVIOUS
  <2>4. /\ part[d] \div Second \in Int /\ part[d] % Second \in 0..(Second - 1)
        /\ part[d] = Second * (part[d] \div Second) + (part[d] % Second)
    BY <2>2, Division
  <2>5. part[d] \div Second \in Nat
    BY <2>2
  <2> HIDE DEF q, m
  <2>6. QED  BY <2>3, <2>4, <2>5
<1>3. Orders(R, D)
  <2>1. \A d \in D : m[d] \in Int /\ d \in Int
    BY <1>2
  <2>2. \A x, y \in D : <<x, y>> \in R <=> m[x] > m[y] \/ (m[x] = m[y] /\ x < y)
    OBVIOUS
  <2> HIDE DEF R, m
  <2>3. QED  BY <2>1, <2>2 DEF Orders
<1> HIDE DEF q, m
<1>4. total = Second * Over(q, D) + Over(m, D)
  <2> DEFINE f == [d \in D |-> Second * q[d]]
  <2>1. /\ \A d \in D : f[d] \in Int
        /\ \A d \in D : f[d] = Second * q[d]
        /\ \A d \in D : q[d] \in Int
        /\ \A d \in D : m[d] \in Int
        /\ \A d \in D : part[d] = f[d] + m[d]
    BY <1>2
  <2> HIDE DEF f
  <2>2. Over(part, D) = Over(f, D) + Over(m, D)
    BY <2>1, OverPlus
  <2>3. Over(f, D) = Second * Over(q, D)
    BY <2>1, OverTimes
  <2>4. QED  BY <2>2, <2>3
<1>5. Over(q, D) \in Int /\ Over(m, D) \in Int /\ total \in Int
  <2>1. \A d \in D : q[d] \in Int
    BY <1>2
  <2>2. \A d \in D : m[d] \in Int
    BY <1>2
  <2>3. \A d \in D : part[d] \in Int
    OBVIOUS
  <2>4. QED  BY <2>1, <2>2, <2>3, OverSteps
<1>6. k \in Nat /\ n \in Nat /\ k <= n /\ IsFiniteSet(A)
  BY FS_Subset, FS_CardinalityType
<1>7. 0 <= Over(m, D) /\ Over(m, D) <= (Second - 1) * k
  <2> DEFINE z == [d \in D |-> 0]
             b == [d \in D |-> IF d \in A THEN Second - 1 ELSE 0]
  <2>1. /\ \A d \in D : z[d] = 0
        /\ \A d \in D : z[d] \in Int
        /\ \A d \in D : m[d] \in Int
        /\ \A d \in D : b[d] \in Int
        /\ \A d \in D : z[d] <= m[d]
        /\ \A d \in D : m[d] <= b[d]
        /\ \A d \in D : b[d] = IF d \in A THEN Second - 1 ELSE 0
    BY <1>2
  <2>2. A \in SUBSET D /\ Second - 1 \in Int
    OBVIOUS
  <2> HIDE DEF z, b, A
  <2>3. Over(z, D) = 0
    BY <2>1, OverZero
  <2>4. Over(z, D) <= Over(m, D)
    BY <2>1, OverAtMost
  <2>5. Over(m, D) <= Over(b, D)
    BY <2>1, OverAtMost
  <2>6. Over(b, D) = (Second - 1) * k
    BY <2>1, <2>2, OverCount
  <2>7. QED  BY <2>3, <2>4, <2>5, <2>6
<1>8. rem \in Nat /\ rem <= k
  <2> DEFINE M == Over(m, D)
             Q == Over(q, D)
             x == 2 * M + Second
             r == x \div (2 * Second)
  <2> HIDE DEF M, Q
  <2>1. seconds = (2 * (Second * Q + M) + Second) \div (2 * Second)
    BY <1>4 DEF Rounded, M, Q
  <2>2. M \in Int /\ Q \in Int /\ 0 <= M /\ M <= (Second - 1) * k
    BY <1>5, <1>7 DEF M, Q
  <2>3. 2 * (Second * Q + M) + Second = (2 * M + Second) + Q * (2 * Second)
    BY <2>2
  <2>4. 2 * Second \in Nat \ {0} /\ x \in Int
    BY <2>2
  <2>5. ((2 * M + Second) + Q * (2 * Second)) \div (2 * Second) = r + Q
    <3>1. \A a \in Int, b \in Int, d \in Nat \ {0} : (a + b * d) \div d = a \div d + b
      OBVIOUS
    <3>2. QED  BY <2>2, <2>4, <3>1
  <2>6. seconds = r + Q
    BY <2>1, <2>3, <2>5
  <2>7. r \in Int /\ x % (2 * Second) \in 0..(2 * Second - 1) /\ x = (2 * Second) * r + (x % (2 * Second))
    <3> HIDE DEF x
    <3>1. QED  BY <2>4, Division
  <2>8. 0 <= x /\ x < (2 * Second) * (k + 1)
    <3>1. (Second - 1) * k <= Second * k
      BY <1>6
    <3>2. (2 * Second) * (k + 1) = 2 * (Second * k) + 2 * Second
      BY <1>6
    <3>3. Second * k \in Int /\ (Second - 1) * k \in Int
      BY <1>6
    <3>4. QED  BY <2>2, <3>1, <3>2, <3>3
  <2> HIDE DEF x, r
  <2>9. (2 * Second) * r < (2 * Second) * (k + 1)
    <3> DEFINE y == (2 * Second) * r
               e == x % (2 * Second)
               u == (2 * Second) * (k + 1)
    <3>1. y \in Int /\ u \in Int
      BY <1>6, <2>4, <2>7
    <3>2. e \in Int /\ 0 <= e /\ x = y + e /\ x < u
      BY <2>4, <2>7, <2>8
    <3> HIDE DEF y, e, u
    <3>3. y < u
      BY <2>4, <3>1, <3>2
    <3>4. QED  BY <3>3 DEF y, u
  <2>10. r < k + 1
    <3>1. \A a \in Int, b \in Int, d \in Nat \ {0} : d * a < d * b => a < b
      OBVIOUS
    <3>2. QED  BY <1>6, <2>4, <2>7, <2>9, <3>1
  <2>11. 0 <= r
    <3>1. (2 * Second) * (-1) < (2 * Second) * r
      <4>1. (2 * Second) * (-1) = -(2 * Second)
        OBVIOUS
      <4>2. QED  BY <2>4, <2>7, <2>8, <4>1
    <3>2. \A a \in Int, b \in Int, d \in Nat \ {0} : d * a < d * b => a < b
      OBVIOUS
    <3>3. -1 < r
      BY <2>4, <2>7, <3>1, <3>2
    <3>4. QED  BY <2>7, <3>3
  <2>12. QED  BY <1>6, <2>2, <2>6, <2>7, <2>10, <2>11 DEF Q
<1>9. Over(p, D) = seconds
  <2> DEFINE T == {d \in D : rank(d) < rem}
             e == [d \in D |-> IF d \in T THEN 1 ELSE 0]
  <2>1. rem \in 0..n
    BY <1>6, <1>8
  <2> HIDE DEF rem, R, n
  <2>2. Cardinality(T) = rem
    BY <1>3, <2>1, RankCount DEF n
  <2>3. /\ \A d \in D : e[d] = IF d \in T THEN 1 ELSE 0
        /\ \A d \in D : e[d] \in Int
        /\ \A d \in D : q[d] \in Int
        /\ \A d \in D : p[d] = q[d] + e[d]
    BY <1>2
  <2>4. T \in SUBSET D
    OBVIOUS
  <2> HIDE DEF T, e, p
  <2>5. Over(e, D) = 1 * Cardinality(T)
    BY <2>3, <2>4, OverCount
  <2>6. Over(p, D) = Over(q, D) + Over(e, D)
    BY <2>3, OverPlus
  <2>7. rem \in Int
    BY <1>8 DEF rem
  <2>8. Over(e, D) = rem
    BY <2>2, <2>5, <2>7
  <2>9. seconds \in Int
    BY <1>5 DEF Rounded
  <2>10. QED  BY <1>5, <2>6, <2>8, <2>9 DEF rem
<1>10. \A d \in D : p[d] \in Nat
  BY <1>2
<1>11. ASSUME NEW d \in D
       PROVE  p[d] * Second - part[d] \in (1 - Second)..(Second - 1)
  <2>1. q[d] \in Nat /\ m[d] \in 0..(Second - 1) /\ part[d] = Second * q[d] + m[d]
    BY <1>2
  <2>2. CASE rank(d) < rem
    <3>1. m[d] > 0
      <4>1. SUFFICES ASSUME m[d] = 0
                     PROVE  FALSE
        BY <2>1
      <4>2. \A a \in A : <<a, d>> \in R
        BY <4>1
      <4>3. A \subseteq {y \in D : <<y, d>> \in R}
        BY <4>2
      <4> HIDE DEF A, R, rem
      <4>4. k <= rank(d)
        <5> DEFINE B == {y \in D : <<y, d>> \in R}
        <5>1. IsFiniteSet(B)
          BY FS_Subset
        <5> HIDE DEF B
        <5>2. Cardinality(A) <= Cardinality(B)
          BY <4>3, <5>1, FS_Subset DEF B
        <5>3. QED  BY <5>2 DEF RankIn, B
      <4>5. rank(d) \in Int
        BY <1>3, Ranks
      <4>6. QED  BY <1>6, <1>8, <2>2, <4>4, <4>5
    <3>2. p[d] = q[d] + 1
      BY <2>2
    <3>3. (q[d] + 1) * Second = Second * q[d] + Second
      BY <2>1
    <3>4. Second * q[d] \in Int
      BY <2>1
    <3> HIDE DEF p
    <3>5. QED  BY <2>1, <3>1, <3>2, <3>3, <3>4
  <2>3. CASE ~(rank(d) < rem)
    <3>1. p[d] = q[d]
      BY <2>1, <2>3
    <3>2. q[d] * Second = Second * q[d] /\ Second * q[d] \in Int
      BY <2>1
    <3> HIDE DEF p
    <3>3. QED  BY <2>1, <3>1, <3>2
  <2>4. QED  BY <2>2, <2>3
<1>12. DOMAIN p = D
  OBVIOUS
<1> HIDE DEF p, seconds
<1>13. QED  BY <1>1, <1>9, <1>10, <1>11, <1>12 DEF seconds
-----------------------------------------------------------------------------
(* Greatest and least members, sequences in order, and folds.               *)

\* The greatest member is who is not less than another, and so is the least.
LEMMA Extremes ==
    ASSUME NEW S \in SUBSET Int, NEW x \in S
    PROVE  /\ (\A y \in S : y <= x) => Max(S) = x
           /\ (\A y \in S : x <= y) => Min(S) = x
<1>1. ASSUME \A y \in S : y <= x
      PROVE  Max(S) = x
  <2>1. x \in S /\ \A y \in S : x >= y
    BY <1>1
  <2>2. Max(S) \in S /\ \A y \in S : Max(S) >= y
    BY <2>1 DEF Max
  <2>3. Max(S) \in Int /\ x \in Int /\ Max(S) >= x /\ Max(S) <= x
    BY <1>1, <2>2
  <2>4. QED  BY <2>3
<1>2. ASSUME \A y \in S : x <= y
      PROVE  Min(S) = x
  <2>1. x \in S /\ \A y \in S : x <= y
    BY <1>2
  <2>2. Min(S) \in S /\ \A y \in S : Min(S) <= y
    BY <2>1 DEF Min
  <2>3. Min(S) \in Int /\ x \in Int /\ x >= Min(S) /\ x <= Min(S)
    BY <1>2, <2>2
  <2>4. QED  BY <2>3
<1>3. QED  BY <1>1, <1>2

\* Of two numbers.
LEMMA OfTwo ==
    ASSUME NEW a \in Int, NEW b \in Int
    PROVE  /\ Max({a, b}) = IF a < b THEN b ELSE a
           /\ Min({a, b}) = IF b < a THEN b ELSE a
<1>1. {a, b} \in SUBSET Int /\ a \in {a, b} /\ b \in {a, b}
  OBVIOUS
<1>2. CASE a < b
  <2>1. (\A y \in {a, b} : y <= b) /\ (\A y \in {a, b} : a <= y)
    BY <1>2
  <2>2. QED  BY <1>1, <1>2, <2>1, Extremes
<1>3. CASE ~(a < b)
  <2>1. (\A y \in {a, b} : y <= a) /\ (\A y \in {a, b} : b <= y)
    BY <1>3
  <2>2. Max({a, b}) = a /\ Min({a, b}) = b
    BY <1>1, <2>1, Extremes
  <2>3. QED  BY <1>3, <2>2
<1>4. QED  BY <1>2, <1>3

\* A finite set of numbers has a greatest and a least member.
LEMMA FiniteExtremes ==
    ASSUME NEW S \in SUBSET Int, IsFiniteSet(S), S # {}
    PROVE  /\ Max(S) \in S /\ \A y \in S : y <= Max(S)
           /\ Min(S) \in S /\ \A y \in S : Min(S) <= y
<1> DEFINE P == {T \in SUBSET S : T = {} \/ \E a, b \in T : \A y \in T : a <= y /\ y <= b}
<1>1. {} \in P
  OBVIOUS
<1>2. ASSUME NEW T \in SUBSET S, NEW x \in S \ T, T \in P
      PROVE  T \union {x} \in P
  <2> DEFINE U == T \union {x}
  <2>1. U \in SUBSET S /\ x \in Int /\ x \in U
    OBVIOUS
  <2>2. CASE T = {}
    BY <2>1, <2>2
  <2>3. CASE \E a, b \in T : \A y \in T : a <= y /\ y <= b
    <3>1. PICK a, b \in T : \A y \in T : a <= y /\ y <= b
      BY <2>3
    <3>2. a \in Int /\ b \in Int /\ \A y \in T : y \in Int
      OBVIOUS
    <3> DEFINE c == IF x < a THEN x ELSE a
               d == IF b < x THEN x ELSE b
    <3>3. c \in U /\ d \in U /\ \A y \in U : c <= y /\ y <= d
      BY <2>1, <3>1, <3>2
    <3>4. QED  BY <2>1, <3>3
  <2>4. QED  BY <1>2, <2>2, <2>3
<1> HIDE DEF P
<1>3. S \in P
  BY <1>1, <1>2, FiniteSets1
<1>4. PICK a, b \in S : \A y \in S : a <= y /\ y <= b
  BY <1>3 DEF P
<1>5. Max(S) = b /\ Min(S) = a
  BY <1>4, Extremes
<1>6. QED  BY <1>4, <1>5

\* The numbers up to k.
LEMMA UpTo ==
    ASSUME NEW k \in Nat, k > 0
    PROVE  1..k # {} /\ Max(1..k) = k /\ (1..k) \ {k} = 1..(k - 1)
<1>1. 1..k \in SUBSET Int /\ k \in 1..k /\ \A y \in 1..k : y <= k
  OBVIOUS
<1>2. Max(1..k) = k
  BY <1>1, Extremes
<1>3. (1..k) \ {k} = 1..(k - 1)
  OBVIOUS
<1>4. QED  BY <1>1, <1>2, <1>3

\* An ordered set as a sequence.
LEMMA SortedFacts ==
    ASSUME NEW S, IsFiniteSet(S), NEW R, Orders(R, S)
    PROVE  /\ Cardinality(S) \in Nat
           /\ Sorted(S, R) \in [1..Cardinality(S) -> S]
           /\ \A x \in S : \E i \in 1..Cardinality(S) : Sorted(S, R)[i] = x
           /\ \A i, j \in 1..Cardinality(S) : i < j => <<Sorted(S, R)[i], Sorted(S, R)[j]>> \in R
           /\ \A i \in 1..Cardinality(S) : RankIn(R, S, Sorted(S, R)[i]) = i - 1
<1> DEFINE n == Cardinality(S)
           q == Sorted(S, R)
           at(i) == CHOOSE x \in S : RankIn(R, S, x) = i - 1
<1>1. n \in Nat
  BY Ranks
<1>2. q = [i \in 1..n |-> at(i)]
  BY Zenon DEF Sorted, RankIn
<1>3. ASSUME NEW i \in 1..n
      PROVE  at(i) \in S /\ RankIn(R, S, at(i)) = i - 1
  <2>1. i - 1 \in 0..(n - 1)
    BY <1>1
  <2>2. \E x \in S : RankIn(R, S, x) = i - 1
    BY <2>1, Ranks
  <2>3. QED  BY <2>2
<1> HIDE DEF at
<1>4. \A i \in 1..n : q[i] \in S /\ RankIn(R, S, q[i]) = i - 1
  BY <1>2, <1>3
<1>5. q \in [1..n -> S]
  BY <1>2, <1>3
<1> HIDE DEF q
<1>6. ASSUME NEW x \in S
      PROVE  \E i \in 1..n : q[i] = x
  <2> DEFINE i == RankIn(R, S, x) + 1
  <2>1. RankIn(R, S, x) \in 0..(n - 1)
    BY Ranks
  <2>2. i \in 1..n /\ RankIn(R, S, x) = i - 1
    BY <1>1, <2>1
  <2>3. RankIn(R, S, q[i]) = RankIn(R, S, x) /\ q[i] \in S
    BY <1>4, <2>2
  <2>4. q[i] = x
    BY <2>3, Ranks
  <2>5. QED  BY <2>2, <2>4
<1>7. ASSUME NEW i \in 1..n, NEW j \in 1..n, i < j
      PROVE  <<q[i], q[j]>> \in R
  <2>1. RankIn(R, S, q[i]) < RankIn(R, S, q[j])
    BY <1>1, <1>4, <1>7
  <2>2. QED  BY <1>4, <2>1, Ranks
<1>8. QED  BY <1>1, <1>4, <1>5, <1>6, <1>7 DEF q

\* it gives each set of S its fold: F of the member that pick picks and of the rest.
IsFold(it, S, V, base, pick, F) ==
    /\ it = [T \in SUBSET S |-> IF T = {} THEN base ELSE F[pick[T]][it[T \ {pick[T]}]]]
    /\ \A T \in SUBSET S : it[T] \in V

\* A fold over a finite set exists: it takes the member that pick picks last.
LEMMA FoldExists ==
    ASSUME NEW S, IsFiniteSet(S), NEW V, NEW base \in V,
           NEW pick, \A T \in SUBSET S : T # {} => pick[T] \in T,
           NEW F, \A x \in S : \A v \in V : F[x][v] \in V
    PROVE  \E it : IsFold(it, S, V, base, pick, F)
<1> DEFINE Step(it) == [T \in SUBSET S |-> IF T = {} THEN base ELSE F[pick[T]][it[T \ {pick[T]}]]]
           Good(it, n) == \A T \in SUBSET S : Cardinality(T) <= n => it[T] \in V /\ it[T] = Step(it)[T]
           P == {n \in Nat : \E it : Good(it, n)}
<1>1. \A T \in SUBSET S : IsFiniteSet(T) /\ Cardinality(T) \in Nat
  BY FS_Subset, FS_CardinalityType
<1>2. \A T \in SUBSET S : T # {} => /\ pick[T] \in T /\ T \ {pick[T]} \in SUBSET S
                                    /\ Cardinality(T \ {pick[T]}) = Cardinality(T) - 1
  BY <1>1, FS_RemoveElement
<1>3. ASSUME NEW it, NEW n \in Nat, Good(it, n)
      PROVE  Good(Step(it), n + 1)
  <2> DEFINE new == Step(it)
  <2>1. ASSUME NEW T \in SUBSET S, Cardinality(T) <= n
        PROVE  new[T] = it[T] /\ it[T] \in V
    BY <1>3, <2>1
  <2>2. ASSUME NEW T \in SUBSET S, Cardinality(T) <= n + 1
        PROVE  new[T] \in V /\ new[T] = Step(new)[T]
    <3>1. CASE T = {}
      BY <3>1
    <3>2. CASE T # {}
      <4> DEFINE U == T \ {pick[T]}
      <4>1. U \in SUBSET S /\ Cardinality(U) <= n /\ pick[T] \in S
        BY <1>1, <1>2, <2>2, <3>2
      <4>2. new[T] = F[pick[T]][it[U]] /\ Step(new)[T] = F[pick[T]][new[U]]
        BY <3>2
      <4> HIDE DEF new, U
      <4>3. new[U] = it[U] /\ it[U] \in V
        BY <2>1, <4>1
      <4>4. QED  BY <4>1, <4>2, <4>3
    <3>3. QED  BY <3>1, <3>2
  <2>3. QED  BY <2>2
<1>4. 0 \in P
  <2> DEFINE it == [T \in SUBSET S |-> base]
  <2>1. \A T \in SUBSET S : Cardinality(T) <= 0 => T = {}
    BY <1>1, FS_EmptySet
  <2>2. Good(it, 0)
    BY <2>1
  <2> HIDE DEF Good
  <2>3. QED  BY <2>2
<1>5. ASSUME NEW n \in Nat, n \in P
      PROVE  n + 1 \in P
  <2>1. PICK it : Good(it, n)
    BY <1>5
  <2> HIDE DEF Good, Step
  <2>2. Good(Step(it), n + 1)
    BY <1>3, <2>1
  <2>3. QED  BY <2>2
<1> HIDE DEF P, Good, Step
<1>6. Cardinality(S) \in P
  BY <1>1, <1>4, <1>5, Numbers
<1>7. PICK it : Good(it, Cardinality(S))
  BY <1>6 DEF P
<1> DEFINE fold == [T \in SUBSET S |-> it[T]]
<1>8. \A T \in SUBSET S : Cardinality(T) <= Cardinality(S)
  BY FS_Subset
<1>9. \A T \in SUBSET S : it[T] \in V /\ it[T] = Step(it)[T]
  BY <1>7, <1>8 DEF Good
<1>10. \A T \in SUBSET S : fold[T] \in V
  BY <1>9
<1>11. fold = Step(fold)
  <2>1. \A T \in SUBSET S : Step(fold)[T] = Step(it)[T]
    BY DEF Step
  <2>2. DOMAIN Step(fold) = SUBSET S /\ Step(fold) = [T \in SUBSET S |-> Step(fold)[T]]
    BY DEF Step
  <2>3. QED  BY <1>9, <2>1, <2>2
<1> HIDE DEF fold
<1>12. IsFold(fold, S, V, base, pick, F)
  BY <1>10, <1>11 DEF Step, IsFold
<1>13. QED  BY <1>12
-----------------------------------------------------------------------------
(* Coverage.                                                                *)

Interval == [start : Int, end : Int]

\* What one interval adds to those merged so far.
Merging(c, i) ==
    IF c = <<>> \/ i.start > Last(c).end
    THEN Append(c, i)
    ELSE [c EXCEPT ![Len(c)].end = Max({@, i.end})]

\* Intervals of c that neither overlap nor touch, in their order.
Disjoint(c) ==
    /\ c \in Seq(Interval)
    /\ \A i \in 1..Len(c) : c[i].start < c[i].end
    /\ \A i, j \in 1..Len(c) : i < j => c[i].end < c[j].start

\* The moment m lies in an interval of c.
In(c, m) == \E i \in 1..Len(c) : c[i].start <= m /\ m < c[i].end

\* One interval more, from a start that is not before theirs.
LEMMA MergingFacts ==
    ASSUME NEW c, Disjoint(c), NEW x \in Interval, x.start < x.end,
           \A i \in 1..Len(c) : c[i].start <= x.start
    PROVE  /\ Disjoint(Merging(c, x)) /\ Len(Merging(c, x)) <= Len(c) + 1
           /\ \A m \in Int : In(Merging(c, x), m) <=> In(c, m) \/ (x.start <= m /\ m < x.end)
           /\ \A i \in 1..Len(Merging(c, x)) : Merging(c, x)[i].start <= x.start
<1> DEFINE n == Len(c)
<1>1. /\ c \in Seq(Interval) /\ n \in Nat /\ x.start \in Int /\ x.end \in Int
      /\ \A i \in 1..n : c[i] \in Interval /\ c[i].start \in Int /\ c[i].end \in Int
  <2>1. c \in Seq(Interval)
    BY DEF Disjoint
  <2>2. n \in Nat /\ \A i \in 1..n : c[i] \in Interval
    BY <2>1
  <2>3. \A y \in Interval : y.start \in Int /\ y.end \in Int
    BY DEF Interval
  <2>4. QED  BY <2>1, <2>2, <2>3
<1>2. /\ \A i \in 1..n : c[i].start < c[i].end
      /\ \A i, j \in 1..n : i < j => c[i].end < c[j].start
  BY DEF Disjoint
<1>3. CASE c = <<>> \/ x.start > Last(c).end
  <2> DEFINE d == Append(c, x)
  <2>1. Merging(c, x) = d
    BY <1>3 DEF Merging
  <2>2. d \in Seq(Interval) /\ Len(d) = n + 1 /\ d[n + 1] = x /\ \A i \in 1..n : d[i] = c[i]
    BY <1>1
  <2>3. \A i \in 1..n : c[i].end < x.start
    <3>1. CASE n = 0
      BY <3>1
    <3>2. CASE n # 0
      <4>1. c[n].end < x.start /\ n \in 1..n
        BY <1>1, <1>3, <3>2 DEF Last
      <4>2. \A i \in 1..n : i = n \/ c[i].end < c[n].start
        BY <1>1, <1>2
      <4>3. QED  BY <1>1, <1>2, <4>1, <4>2
    <3>3. QED  BY <3>1, <3>2
  <2> HIDE DEF d
  <2>4. \A i \in 1..Len(d) : i \in 1..n \/ i = n + 1
    BY <1>1, <2>2
  <2>5. \A i \in 1..Len(d) : d[i].start < d[i].end
    BY <1>2, <2>2, <2>4
  <2>6. ASSUME NEW i \in 1..Len(d), NEW j \in 1..Len(d), i < j
        PROVE  d[i].end < d[j].start
    <3>1. i \in 1..n
      BY <1>1, <2>2, <2>6
    <3>2. QED  BY <1>2, <2>2, <2>3, <2>4, <2>6, <3>1
  <2>7. ASSUME NEW m \in Int
        PROVE  In(d, m) <=> In(c, m) \/ (x.start <= m /\ m < x.end)
    <3>1. In(d, m) <=> \/ \E i \in 1..n : d[i].start <= m /\ m < d[i].end
                       \/ d[n + 1].start <= m /\ m < d[n + 1].end
      <4>1. 1..Len(d) = (1..n) \union {n + 1}
        BY <1>1, <2>2
      <4>2. QED  BY <4>1 DEF In
    <3>2. QED  BY <2>2, <3>1 DEF In
  <2>8. \A i \in 1..Len(d) : d[i].start <= x.start
    BY <1>1, <2>2, <2>4
  <2>9. QED  BY <1>1, <2>1, <2>2, <2>5, <2>6, <2>7, <2>8 DEF Disjoint
<1>4. CASE ~(c = <<>> \/ x.start > Last(c).end)
  <2> DEFINE top == IF c[n].end < x.end THEN x.end ELSE c[n].end
             d == [c EXCEPT ![n].end = top]
  <2>1. n \in 1..n /\ n > 0 /\ x.start <= c[n].end /\ c[n].start <= x.start
    <3>1. c # <<>> /\ ~(x.start > c[n].end)
      BY <1>4 DEF Last
    <3>2. n > 0
      BY <1>1, <3>1
    <3>3. n \in 1..n
      BY <1>1, <3>2
    <3>4. QED  BY <1>1, <3>1, <3>2, <3>3
  <2>2. Merging(c, x) = d
    <3>1. Max({c[n].end, x.end}) = top
      BY <1>1, <2>1, OfTwo
    <3>2. Merging(c, x) = [c EXCEPT ![n].end = Max({@, x.end})]
      BY <1>4 DEF Merging
    <3> HIDE DEF top
    <3>3. QED  BY <2>1, <3>1, <3>2
  <2>3. top \in Int /\ top >= c[n].end /\ top >= x.end /\ (top = c[n].end \/ top = x.end)
    BY <1>1, <2>1
  <2> HIDE DEF top
  <2>4. /\ d \in Seq(Interval) /\ Len(d) = n
        /\ \A i \in 1..n : d[i] = IF i = n THEN [start |-> c[n].start, end |-> top] ELSE c[i]
    <3>1. \A i \in 1..n : d[i] = IF i = n THEN [c[n] EXCEPT !.end = top] ELSE c[i]
      BY <1>1
    <3>2. [c[n] EXCEPT !.end = top] = [start |-> c[n].start, end |-> top]
      BY <1>1, <2>1 DEF Interval
    <3>3. [start |-> c[n].start, end |-> top] \in Interval
      BY <1>1, <2>1, <2>3 DEF Interval
    <3>4. [c[n] EXCEPT !.end = top] \in Interval /\ c \in [1..n -> Interval]
      BY <1>1, <3>2, <3>3
    <3>5. d \in [1..n -> Interval]
      BY <3>4
    <3> HIDE DEF d
    <3>6. d \in Seq(Interval)
      BY <1>1, <3>5, SeqDef
    <3>7. Len(d) = n
      BY <1>1, <3>5, <3>6
    <3>8. QED  BY <3>1, <3>2, <3>6, <3>7
  <2> HIDE DEF d
  <2>5. /\ \A i \in 1..n : d[i].start = c[i].start /\ d[i].end >= c[i].end
        /\ d[n].end = top /\ \A i \in 1..n : i # n => d[i].end = c[i].end
    BY <1>1, <2>1, <2>3, <2>4
  <2>6. \A i \in 1..n : d[i].start < d[i].end
    BY <1>1, <1>2, <2>3, <2>5
  <2>7. ASSUME NEW i \in 1..n, NEW j \in 1..n, i < j
        PROVE  d[i].end < d[j].start
    <3>1. i # n
      BY <1>1, <2>7
    <3>2. QED  BY <1>2, <2>5, <2>7, <3>1
  <2>8. ASSUME NEW m \in Int
        PROVE  In(d, m) <=> In(c, m) \/ (x.start <= m /\ m < x.end)
    <3>1. (c[n].start <= m /\ m < top)
             <=> (c[n].start <= m /\ m < c[n].end) \/ (x.start <= m /\ m < x.end)
      BY <1>1, <2>1, <2>3
    <3>2. In(d, m) <=> \/ \E i \in 1..n : i # n /\ d[i].start <= m /\ m < d[i].end
                       \/ d[n].start <= m /\ m < d[n].end
      BY <2>1, <2>4 DEF In
    <3>3. In(c, m) <=> \/ \E i \in 1..n : i # n /\ c[i].start <= m /\ m < c[i].end
                       \/ c[n].start <= m /\ m < c[n].end
      BY <2>1 DEF In
    <3>4. (\E i \in 1..n : i # n /\ d[i].start <= m /\ m < d[i].end)
             <=> (\E i \in 1..n : i # n /\ c[i].start <= m /\ m < c[i].end)
      BY <2>5
    <3>5. QED  BY <2>1, <2>5, <3>1, <3>2, <3>3, <3>4
  <2>9. \A i \in 1..n : d[i].start <= x.start
    BY <2>5
  <2>10. QED  BY <1>1, <2>2, <2>4, <2>6, <2>7, <2>8, <2>9 DEF Disjoint
<1>5. QED  BY <1>3, <1>4

\* Intervals by their start are in a strict order.
LEMMA StartsOrder ==
    ASSUME NEW s \in SUBSET Interval
    PROVE  Orders({p \in s \X s : startsBefore(p[1], p[2])}, s)
<1> DEFINE R == {p \in s \X s : startsBefore(p[1], p[2])}
<1>1. \A x, y \in s : <<x, y>> \in R <=> startsBefore(x, y)
  OBVIOUS
<1>2. \A x \in s : x = [start |-> x.start, end |-> x.end] /\ x.start \in Int /\ x.end \in Int
  BY DEF Interval
<1> HIDE DEF R
<1>3. \A x, y, z \in s : startsBefore(x, y) /\ startsBefore(y, z) => startsBefore(x, z)
  BY <1>2 DEF startsBefore
<1>4. \A x \in s : ~startsBefore(x, x)
  BY <1>2 DEF startsBefore
<1>5. ASSUME NEW x \in s, NEW y \in s
      PROVE  x = y \/ startsBefore(x, y) \/ startsBefore(y, x)
  <2>1. x.start = y.start /\ x.end = y.end => x = y
    BY <1>2
  <2>2. QED  BY <1>2, <2>1 DEF startsBefore
<1>6. QED  BY <1>1, <1>3, <1>4, <1>5 DEF Orders, R

\* The steps of a merge.
LEMMA MergeSteps ==
    ASSUME NEW s \in SUBSET Interval, IsFiniteSet(s)
    PROVE  \E h : /\ h[0] = <<>> /\ mergeActivityIntervals(s) = h[Cardinality(s)]
                  /\ \A k \in 1..Cardinality(s) : h[k] = Merging(h[k - 1], byStart(s)[k])
<1> DEFINE R == {p \in s \X s : startsBefore(p[1], p[2])}
           q == byStart(s)
           n == Cardinality(s)
           V == Seq(Interval)
           D == DOMAIN q
           Step(it) == [T \in SUBSET D |-> IF T = {} THEN <<>> ELSE Merging(it[T \ {Max(T)}], q[Max(T)])]
           fold == CHOOSE it : it = Step(it)
<1>1. Orders(R, s) /\ q = Sorted(s, R)
  BY StartsOrder DEF byStart
<1>2. n \in Nat /\ q \in [1..n -> s] /\ D = 1..n
  <2> HIDE DEF R
  <2>1. n \in Nat /\ Sorted(s, R) \in [1..n -> s]
    BY <1>1, SortedFacts
  <2>2. QED  BY <1>1, <2>1
<1>3. mergeActivityIntervals(s) = fold[D]
  BY Zenon DEF mergeActivityIntervals, FoldLeft, MapThenFoldSet, Merging
<1> HIDE DEF q, R, D
<1>4. fold = Step(fold)
  <2> DEFINE F == [i \in D |-> [c \in V |-> Merging(c, q[i])]]
             pick == [T \in SUBSET D |-> Max(T)]
  <2>1. IsFiniteSet(D)
    BY <1>2, FS_Interval
  <2>2. \A T \in SUBSET D : T # {} => pick[T] \in T
    <3>1. SUFFICES ASSUME NEW T \in SUBSET D, T # {}
                   PROVE  Max(T) \in T
      OBVIOUS
    <3>2. T \in SUBSET Int
      BY <1>2
    <3>a. IsFiniteSet(T)
      BY <2>1, FS_Subset
    <3>3. QED  BY <3>1, <3>2, <3>a, FiniteExtremes
  <2>3. ASSUME NEW i \in D, NEW c \in V
        PROVE  Merging(c, q[i]) \in V
    <3>1. q[i] \in Interval
      BY <1>2
    <3>2. CASE c = <<>> \/ q[i].start > Last(c).end
      BY <3>1, <3>2 DEF Merging
    <3>3. CASE ~(c = <<>> \/ q[i].start > Last(c).end)
      <4> DEFINE l == Len(c)
                 top == Max({c[l].end, q[i].end})
                 d == [c EXCEPT ![l].end = top]
      <4>1. Merging(c, q[i]) = d
        BY <3>3 DEF Merging
      <4>2. l \in Nat /\ l \in 1..l /\ c \in [1..l -> Interval]
        BY <3>3
      <4>3. top \in Int
        <5>1. c[l].end \in Int /\ q[i].end \in Int
          BY <3>1, <4>2 DEF Interval
        <5>2. top = IF c[l].end < q[i].end THEN q[i].end ELSE c[l].end
          BY <5>1, OfTwo
        <5>3. QED  BY <5>1, <5>2
      <4> HIDE DEF top
      <4>4. [c[l] EXCEPT !.end = top] \in Interval
        BY <4>2, <4>3 DEF Interval
      <4>5. d \in [1..l -> Interval]
        BY <4>2, <4>4
      <4> HIDE DEF d, l
      <4>6. QED  BY <4>1, <4>2, <4>5, SeqDef
    <3>4. QED  BY <3>2, <3>3
  <2>4. \A i \in D : \A c \in V : F[i][c] \in V
    BY <2>3
  <2>5. <<>> \in V
    OBVIOUS
  <2>6. \A i \in D : \A c \in V : F[i][c] = Merging(c, q[i])
    OBVIOUS
  <2>7. \A T \in SUBSET D : pick[T] = Max(T)
    OBVIOUS
  <2> HIDE DEF F, pick, V
  <2>8. PICK it : IsFold(it, D, V, <<>>, pick, F)
    BY <2>1, <2>2, <2>4, <2>5, FoldExists
  <2>9. \A T \in SUBSET D : T # {} =>
            F[pick[T]][it[T \ {pick[T]}]] = Merging(it[T \ {Max(T)}], q[Max(T)])
    <3>1. TAKE T \in SUBSET D
    <3>2. HAVE T # {}
    <3>3. pick[T] = Max(T) /\ Max(T) \in D /\ T \ {Max(T)} \in SUBSET D
      BY <2>2, <2>7, <3>2
    <3>4. QED  BY <2>6, <2>8, <3>3 DEF IsFold
  <2>10. it = Step(it)
    BY <2>8, <2>9 DEF IsFold
  <2> HIDE DEF Step
  <2>11. QED  BY <2>10
<1> DEFINE h == [k \in 0..n |-> fold[1..k]]
<1> HIDE DEF fold
<1>5. h[0] = <<>> /\ h[n] = fold[D]
  <2>1. 1..0 = {} /\ {} \in SUBSET D
    OBVIOUS
  <2>2. fold[{}] = <<>>
    BY <1>4, <2>1
  <2>3. QED  BY <1>2, <2>1, <2>2
<1>6. ASSUME NEW k \in 1..n
      PROVE  h[k] = Merging(h[k - 1], q[k])
  <2>1. k \in Nat /\ k > 0 /\ k \in 0..n /\ k - 1 \in 0..n /\ 1..k \in SUBSET D
    BY <1>2
  <2>2. 1..k # {} /\ Max(1..k) = k /\ (1..k) \ {k} = 1..(k - 1)
    BY <2>1, UpTo
  <2>3. fold[1..k] = Merging(fold[1..(k - 1)], q[k])
    BY <1>4, <2>1, <2>2
  <2>4. QED  BY <2>1, <2>3
<1> HIDE DEF h
<1>7. QED  BY <1>3, <1>5, <1>6 DEF q

\* Merging intervals keeps their moments: what it makes is disjoint, ordered, no
\* longer than they are, and covers a moment just if one of them does.
LEMMA MergedCovers ==
    ASSUME NEW s \in SUBSET Interval, IsFiniteSet(s), \A x \in s : x.start < x.end
    PROVE  /\ Disjoint(mergeActivityIntervals(s))
           /\ Len(mergeActivityIntervals(s)) <= Cardinality(s)
           /\ \A m \in Int : In(mergeActivityIntervals(s), m) <=> \E x \in s : x.start <= m /\ m < x.end
<1> DEFINE R == {p \in s \X s : startsBefore(p[1], p[2])}
           q == byStart(s)
           n == Cardinality(s)
<1>1. Orders(R, s) /\ q = Sorted(s, R)
  BY StartsOrder DEF byStart
<1>2. /\ n \in Nat /\ q \in [1..n -> s] /\ \A x \in s : \E i \in 1..n : q[i] = x
      /\ \A i, j \in 1..n : i < j => <<q[i], q[j]>> \in R
  <2> HIDE DEF R, q
  <2>1. QED  BY <1>1, SortedFacts
<1>3. \A i, j \in 1..n : i < j => q[i].start <= q[j].start
  <2>1. SUFFICES ASSUME NEW i \in 1..n, NEW j \in 1..n, i < j
                 PROVE  q[i].start <= q[j].start
    OBVIOUS
  <2>2. <<q[i], q[j]>> \in R
    BY <1>2, <2>1
  <2>3. startsBefore(q[i], q[j])
    BY <2>2
  <2>4. q[i] \in Interval /\ q[j] \in Interval
    BY <1>2
  <2>5. QED  BY <2>3, <2>4 DEF startsBefore, Interval
<1>4. PICK h : /\ h[0] = <<>> /\ mergeActivityIntervals(s) = h[n]
               /\ \A k \in 1..n : h[k] = Merging(h[k - 1], q[k])
  BY MergeSteps
<1> HIDE DEF q, R
<1> DEFINE Good(k) ==
              /\ Disjoint(h[k]) /\ Len(h[k]) <= k
              /\ \A m \in Int : In(h[k], m) <=> \E j \in 1..k : q[j].start <= m /\ m < q[j].end
              /\ \A i \in 1..Len(h[k]) : k > 0 /\ h[k][i].start <= q[k].start
           P == {k \in Nat : k <= n => Good(k)}
<1>5. 0 \in P
  <2>1. h[0] = <<>> /\ Len(<<>>) = 0 /\ <<>> \in Seq(Interval) /\ 1..0 = {}
    BY <1>4
  <2>2. Good(0)
    BY <2>1 DEF Disjoint, In
  <2> HIDE DEF Good
  <2>3. QED  BY <2>2
<1>6. ASSUME NEW k \in Nat, k \in P
      PROVE  k + 1 \in P
  <2>1. SUFFICES ASSUME k + 1 <= n
                 PROVE  Good(k + 1)
    OBVIOUS
  <2> DEFINE x == q[k + 1]
             c == h[k]
  <2>2. Good(k)
    BY <1>2, <1>6, <2>1
  <2>3. k + 1 \in 1..n /\ x \in s /\ x \in Interval /\ x.start < x.end /\ h[k + 1] = Merging(c, x)
    <3>1. k + 1 \in 1..n /\ (k + 1) - 1 = k
      BY <1>2, <2>1
    <3>2. QED  BY <1>2, <1>4, <3>1
  <2>4. \A i \in 1..Len(c) : c[i].start <= x.start
    <3>1. TAKE i \in 1..Len(c)
    <3>2. k > 0 /\ c[i].start <= q[k].start /\ c[i] \in Interval
      BY <2>2 DEF Disjoint
    <3>3. k \in 1..n /\ k < k + 1
      BY <1>2, <2>1, <3>2
    <3>4. q[k].start <= x.start /\ q[k] \in Interval
      BY <1>2, <1>3, <2>3, <3>3
    <3>5. QED  BY <2>3, <3>2, <3>4 DEF Interval
  <2>5. Disjoint(c) /\ Len(c) <= k
    BY <2>2
  <2>6. /\ Disjoint(h[k + 1]) /\ Len(h[k + 1]) <= Len(c) + 1
        /\ \A m \in Int : In(h[k + 1], m) <=> In(c, m) \/ (x.start <= m /\ m < x.end)
        /\ \A i \in 1..Len(h[k + 1]) : h[k + 1][i].start <= x.start
    <3> HIDE DEF x, c, Good
    <3>1. QED  BY <2>3, <2>4, <2>5, MergingFacts
  <2>7. Len(h[k + 1]) <= k + 1
    <3>1. Len(c) \in Nat /\ Len(h[k + 1]) \in Nat
      BY <2>5, <2>6 DEF Disjoint
    <3>2. QED  BY <2>5, <2>6, <3>1
  <2>8. ASSUME NEW m \in Int
        PROVE  In(h[k + 1], m) <=> \E j \in 1..(k + 1) : q[j].start <= m /\ m < q[j].end
    <3>1. In(c, m) <=> \E j \in 1..k : q[j].start <= m /\ m < q[j].end
      BY <2>2
    <3>2. 1..(k + 1) = (1..k) \union {k + 1}
      OBVIOUS
    <3>3. QED  BY <2>6, <3>1, <3>2
  <2>9. QED  BY <2>6, <2>7, <2>8
<1> HIDE DEF P
<1>7. n \in P
  BY <1>2, <1>5, <1>6, Numbers
<1>8. Good(n)
  BY <1>2, <1>7 DEF P
<1>9. ASSUME NEW m \in Int
      PROVE  (\E j \in 1..n : q[j].start <= m /\ m < q[j].end) <=> \E x \in s : x.start <= m /\ m < x.end
  BY <1>2
<1>10. QED  BY <1>4, <1>8, <1>9
-----------------------------------------------------------------------------
(* More of sums.                                                            *)

\* There are no more values than there are arguments.
LEMMA Images ==
    ASSUME NEW K, IsFiniteSet(K), NEW to
    PROVE  /\ IsFiniteSet({to[k] : k \in K}) /\ Cardinality({to[k] : k \in K}) \in Nat
           /\ Cardinality({to[k] : k \in K}) <= Cardinality(K)
<1> DEFINE D == {to[k] : k \in K}
           h == [k \in K |-> to[k]]
<1>1. h \in Surjection(K, D)
  BY DEF Surjection
<1> HIDE DEF h, D
<1>2. IsFiniteSet(D) /\ Cardinality(D) <= Cardinality(K)
  BY <1>1, FS_Surjection
<1>3. Cardinality(D) \in Nat
  BY <1>2, FS_CardinalityType
<1>4. QED  BY <1>2, <1>3 DEF D

\* What is zero need not be summed.
LEMMA OverDrop ==
    ASSUME NEW S, IsFiniteSet(S), NEW T \in SUBSET S, NEW f, \A x \in S : f[x] \in Int,
           \A x \in S \ T : f[x] = 0
    PROVE  Over(f, S) = Over(f, T)
<1> DEFINE U == S \ T
<1>1. U \in SUBSET S /\ T \intersect U = {} /\ S = T \union U
  OBVIOUS
<1>2. IsFiniteSet(U)
  BY FS_Subset
<1>3. Over(f, U) = 0
  BY <1>2, OverZero
<1> HIDE DEF U
<1>4. Over(f, T \union U) = Over(f, T) + Over(f, U)
  BY <1>1, OverUnion
<1>5. Over(f, T) \in Int
  BY OverSteps
<1>6. QED  BY <1>1, <1>3, <1>4, <1>5

\* With one member more.
LEMMA OverAdd ==
    ASSUME NEW S, IsFiniteSet(S), NEW f, \A y \in S : f[y] \in Int, NEW T \in SUBSET S, NEW x \in S \ T
    PROVE  Over(f, T \union {x}) = Over(f, T) + f[x]
  BY OverSteps

\* Of one.
LEMMA OverOne ==
    ASSUME NEW x, NEW f, f[x] \in Int
    PROVE  Over(f, {x}) = f[x]
<1> DEFINE S == {x}
<1>1. IsFiniteSet(S) /\ \A y \in S : f[y] \in Int
  BY FS_Singleton
<1>2. {} \in SUBSET S /\ x \in S \ {} /\ {} \union {x} = S
  OBVIOUS
<1> HIDE DEF S
<1>3. Over(f, {}) = 0 /\ Over(f, {} \union {x}) = Over(f, {}) + f[x]
  BY <1>1, <1>2, OverSteps
<1>4. QED  BY <1>2, <1>3 DEF S

\* Under other names, no two of which are the same.
LEMMA OverRenamed ==
    ASSUME NEW K, IsFiniteSet(K), NEW to, \A i, j \in K : to[i] = to[j] => i = j,
           NEW f, \A k \in K : f[to[k]] \in Int
    PROVE  Over(f, {to[k] : k \in K}) = Over([k \in K |-> f[to[k]]], K)
<1> DEFINE D == {to[k] : k \in K}
           t == [k \in K |-> f[to[k]]]
           of(d) == {k \in K : to[k] = d}
           part == [d \in D |-> Over(t, of(d))]
<1>1. IsFiniteSet(D) /\ \A k \in K : to[k] \in D /\ t[k] \in Int
  BY Images
<1>2. Over(part, D) = Over(t, K)
  <2>1. \A k \in K : t[k] \in Int
    BY <1>1
  <2>2. \A k \in K : to[k] \in D
    OBVIOUS
  <2> HIDE DEF t, D
  <2>3. QED  BY <1>1, <2>1, <2>2, OverFibres
<1>3. ASSUME NEW d \in D
      PROVE  f[d] = part[d]
  <2>1. PICK k \in K : to[k] = d
    OBVIOUS
  <2>2. of(d) = {k}
    BY <2>1
  <2>3. t[k] \in Int /\ t[k] = f[d]
    BY <2>1
  <2> HIDE DEF t, of
  <2>4. Over(t, {k}) = t[k]
    BY <2>3, OverOne
  <2>5. part[d] = Over(t, of(d))
    OBVIOUS
  <2>6. QED  BY <2>2, <2>3, <2>4, <2>5
<1> HIDE DEF part, D, t
<1>4. Over(f, D) = Over(part, D)
  BY <1>3, OverSame
<1>5. QED  BY <1>2, <1>4 DEF D, t
-----------------------------------------------------------------------------
(* The gaps that disjoint intervals leave in a stretch.                     *)

\* The first interval that ends after the start of s, and the first that starts
\* at its end or later.
First(c, s) == Search(Len(c), LAMBDA i : c[i].end > s.start)
After(c, s) == Search(Len(c), LAMBDA i : c[i].start >= s.end)

\* What lies before interval i and after the one before it.
Cursor(c, s, i) == IF i = First(c, s) THEN s.start ELSE c[i - 1].end
Until(c, s, i) == IF i = After(c, s) THEN s.end ELSE c[i].start
Piece(c, s, i) == [start |-> Cursor(c, s, i), end |-> Until(c, s, i)]

\* The gaps that last a second.
Long(c, s) == {i \in First(c, s)..After(c, s) : Until(c, s, i) - Cursor(c, s, i) >= Second}

\* A binary search finds where a monotone condition starts to hold.
LEMMA SearchFacts ==
    ASSUME NEW n \in Nat, NEW A \in SUBSET (1..n), \A i, j \in 1..n : i \in A /\ i < j => j \in A
    PROVE  /\ Min(A \union {n + 1}) \in 1..(n + 1)
           /\ \A i \in 1..n : i \in A <=> i >= Min(A \union {n + 1})
<1> DEFINE B == A \union {n + 1}
           m == Min(B)
<1>1. B \in SUBSET Int /\ B # {} /\ B \subseteq 1..(n + 1)
  OBVIOUS
<1>2. IsFiniteSet(B)
  <2>1. IsFiniteSet(1..(n + 1))
    BY FS_Interval
  <2> HIDE DEF B
  <2>2. QED  BY <1>1, <2>1, FS_Subset
<1> HIDE DEF B
<1>3. m \in B /\ \A y \in B : m <= y
  BY <1>1, <1>2, FiniteExtremes
<1> HIDE DEF m
<1>4. m \in 1..(n + 1) /\ m \in Int
  BY <1>1, <1>3
<1>5. ASSUME NEW i \in 1..n
      PROVE  i \in A <=> i >= m
  <2>1. i \in A => i >= m
    BY <1>3, <1>4 DEF B
  <2>2. ASSUME i >= m
        PROVE  i \in A
    <3>1. m \in A /\ m \in 1..n
      BY <1>3, <1>4, <2>2 DEF B
    <3>2. CASE i = m
      BY <3>1, <3>2
    <3>3. CASE i # m
      <4>1. m < i
        BY <1>4, <2>2, <3>3
      <4>2. QED  BY <3>1, <4>1
    <3>4. QED  BY <3>2, <3>3
  <2>3. QED  BY <2>1, <2>2
<1>6. QED  BY <1>4, <1>5 DEF m, B

\* The intervals that meet s are those from First to before After.
LEMMA Meeting ==
    ASSUME NEW c, Disjoint(c), NEW s, s.start \in Int, s.end \in Int
    PROVE  /\ Len(c) \in Nat /\ First(c, s) \in 1..(Len(c) + 1) /\ After(c, s) \in 1..(Len(c) + 1)
           /\ \A i \in 1..Len(c) : c[i].start \in Int /\ c[i].end \in Int
           /\ \A i \in 1..Len(c) : i >= First(c, s) <=> c[i].end > s.start
           /\ \A i \in 1..Len(c) : i >= After(c, s) <=> c[i].start >= s.end
           /\ s.start < s.end => First(c, s) <= After(c, s)
<1> DEFINE n == Len(c)
           A == {i \in 1..n : c[i].end > s.start}
           B == {i \in 1..n : c[i].start >= s.end}
           L == First(c, s)
           R == After(c, s)
<1>1. c \in Seq(Interval)
  BY DEF Disjoint
<1>2. n \in Nat /\ \A i \in 1..n : c[i] \in Interval
  BY <1>1
<1>3. \A i \in 1..n : c[i].start \in Int /\ c[i].end \in Int
  BY <1>2 DEF Interval
<1>4. /\ \A i \in 1..n : c[i].start < c[i].end
      /\ \A i, j \in 1..n : i < j => c[i].end < c[j].start
  BY DEF Disjoint
<1>5. L = Min(A \union {n + 1}) /\ R = Min(B \union {n + 1})
  BY Zenon DEF First, After, Search
<1>6. \A i, j \in 1..n : i \in A /\ i < j => j \in A
  <2>1. SUFFICES ASSUME NEW i \in 1..n, NEW j \in 1..n, i \in A, i < j
                 PROVE  c[j].end > s.start
    OBVIOUS
  <2>2. c[i].end > s.start
    BY <2>1
  <2>3. QED  BY <1>3, <1>4, <2>1, <2>2
<1>7. \A i, j \in 1..n : i \in B /\ i < j => j \in B
  <2>1. SUFFICES ASSUME NEW i \in 1..n, NEW j \in 1..n, i \in B, i < j
                 PROVE  c[j].start >= s.end
    OBVIOUS
  <2>2. c[i].start >= s.end
    BY <2>1
  <2>3. QED  BY <1>3, <1>4, <2>1, <2>2
<1>8. A \in SUBSET (1..n) /\ B \in SUBSET (1..n)
  OBVIOUS
<1>9. (\A i \in 1..n : i \in A <=> c[i].end > s.start) /\ (\A i \in 1..n : i \in B <=> c[i].start >= s.end)
  OBVIOUS
<1> HIDE DEF A, B, L, R
<1>10. L \in 1..(n + 1) /\ \A i \in 1..n : i \in A <=> i >= L
  BY <1>2, <1>5, <1>6, <1>8, SearchFacts
<1>11. R \in 1..(n + 1) /\ \A i \in 1..n : i \in B <=> i >= R
  BY <1>2, <1>5, <1>7, <1>8, SearchFacts
<1>12. ASSUME s.start < s.end
       PROVE  L <= R
  <2>1. CASE R = n + 1
    BY <1>2, <1>10, <2>1
  <2>2. CASE R # n + 1
    <3>1. R \in 1..n
      BY <1>2, <1>11, <2>2
    <3>2. c[R].start >= s.end
      BY <1>9, <1>11, <3>1
    <3>3. c[R].end > s.start
      BY <1>3, <1>4, <1>12, <3>1, <3>2
    <3>4. R >= L
      BY <1>9, <1>10, <3>1, <3>3
    <3>5. QED  BY <1>2, <1>10, <1>11, <3>4
  <2>3. QED  BY <2>1, <2>2
<1>13. \A i \in 1..n : i >= L <=> c[i].end > s.start
  BY <1>9, <1>10
<1>14. \A i \in 1..n : i >= R <=> c[i].start >= s.end
  BY <1>9, <1>11
<1>15. QED  BY <1>2, <1>3, <1>10, <1>11, <1>12, <1>13, <1>14 DEF L, R

\* The gaps are numbers, in order, and each moment of s is in a gap just if no
\* interval covers it.
LEMMA Pieces ==
    ASSUME NEW c, Disjoint(c), NEW s, s.start \in Int, s.end \in Int, s.start < s.end
    PROVE  LET L == First(c, s)
               R == After(c, s)
           IN  /\ L \in 1..(Len(c) + 1) /\ R \in 1..(Len(c) + 1) /\ L <= R /\ Len(c) \in Nat
               /\ \A i \in L..R : Cursor(c, s, i) \in Int /\ Until(c, s, i) \in Int
               /\ \A i \in L..R : s.start <= Cursor(c, s, i) /\ Until(c, s, i) <= s.end
               /\ \A i \in L..R : i # L => i - 1 \in 1..Len(c) /\ Cursor(c, s, i) = c[i - 1].end
                                           /\ c[i - 1].start < Cursor(c, s, i)
               /\ \A i \in L..R : i # R => i \in 1..Len(c) /\ Until(c, s, i) = c[i].start
                                           /\ Until(c, s, i) < c[i].end
               /\ \A i, j \in L..R : i < j => Cursor(c, s, i) < Cursor(c, s, j)
               /\ \A m \in s.start..(s.end - 1) :
                    ~In(c, m) <=> \E i \in L..R : Cursor(c, s, i) <= m /\ m < Until(c, s, i)
<1> DEFINE n == Len(c)
           L == First(c, s)
           R == After(c, s)
           cur(i) == Cursor(c, s, i)
           til(i) == Until(c, s, i)
<1>1. /\ n \in Nat /\ L \in 1..(n + 1) /\ R \in 1..(n + 1) /\ L <= R
      /\ \A i \in 1..n : c[i].start \in Int /\ c[i].end \in Int
      /\ \A i \in 1..n : i >= L <=> c[i].end > s.start
      /\ \A i \in 1..n : i >= R <=> c[i].start >= s.end
  BY Meeting
<1>2. /\ \A i \in 1..n : c[i].start < c[i].end
      /\ \A i, j \in 1..n : i < j => c[i].end < c[j].start
  BY DEF Disjoint
<1>3. cur(L) = s.start /\ til(R) = s.end
  BY DEF Cursor, Until
<1>4. \A i \in L..R : i # L => i - 1 \in 1..n /\ cur(i) = c[i - 1].end /\ i - 1 >= L /\ i - 1 < R
  BY <1>1 DEF Cursor
<1>5. \A i \in L..R : i # R => i \in 1..n /\ til(i) = c[i].start /\ i >= L /\ ~(i >= R)
  BY <1>1 DEF Until
<1> HIDE DEF n, L, R, cur, til
<1>6. \A i \in L..R : cur(i) \in Int /\ s.start <= cur(i)
  BY <1>1, <1>3, <1>4
<1>7. \A i \in L..R : til(i) \in Int /\ til(i) <= s.end
  BY <1>1, <1>3, <1>5
<1>8. \A i \in L..R : i # L => c[i - 1].start < cur(i)
  BY <1>2, <1>4
<1>9. \A i \in L..R : i # R => til(i) < c[i].end
  BY <1>2, <1>5
<1>10. ASSUME NEW i \in L..R, NEW j \in L..R, i < j
       PROVE  cur(i) < cur(j)
  <2>1. j # L /\ j - 1 \in 1..n /\ cur(j) = c[j - 1].end /\ j - 1 >= L
    BY <1>1, <1>4, <1>10
  <2>2. CASE i = L
    BY <1>1, <1>3, <2>1, <2>2
  <2>3. CASE i # L
    <3>1. i - 1 \in 1..n /\ cur(i) = c[i - 1].end /\ i - 1 < j - 1
      BY <1>1, <1>4, <1>10, <2>3
    <3>2. c[i - 1].end < c[j - 1].start /\ c[j - 1].start < c[j - 1].end
      BY <1>2, <2>1, <3>1
    <3>3. QED  BY <1>1, <2>1, <3>1, <3>2
  <2>4. QED  BY <2>2, <2>3
<1>11. ASSUME NEW m \in s.start..(s.end - 1), ~In(c, m)
       PROVE  \E i \in L..R : cur(i) <= m /\ m < til(i)
  <2> DEFINE A == {i \in 1..n : c[i].end > m}
             k == Min(A \union {n + 1})
  <2>1. \A i, j \in 1..n : i \in A /\ i < j => j \in A
    <3>1. SUFFICES ASSUME NEW i \in 1..n, NEW j \in 1..n, c[i].end > m, i < j
                   PROVE  c[j].end > m
      OBVIOUS
    <3>2. QED  BY <1>1, <1>2, <3>1
  <2>2. A \in SUBSET (1..n) /\ \A i \in 1..n : i \in A <=> c[i].end > m
    OBVIOUS
  <2> HIDE DEF A
  <2>3. k \in 1..(n + 1) /\ \A i \in 1..n : i \in A <=> i >= k
    BY <1>1, <2>1, <2>2, SearchFacts
  <2> HIDE DEF k
  <2>4. \A i \in 1..n : i >= k <=> c[i].end > m
    BY <2>2, <2>3
  <2>5. m \in Int /\ s.start <= m /\ m < s.end
    OBVIOUS
  <2>6. k >= L
    <3>1. SUFFICES ASSUME k < L
                   PROVE  FALSE
      BY <1>1, <2>3
    <3>2. k \in 1..n /\ k >= k
      BY <1>1, <2>3, <3>1
    <3>3. c[k].end > m
      BY <2>4, <3>2
    <3>4. c[k].end > s.start
      BY <1>1, <2>5, <3>2, <3>3
    <3>5. QED  BY <1>1, <2>3, <3>1, <3>2, <3>4
  <2>7. CASE k <= R
    <3>1. k \in L..R
      BY <1>1, <2>3, <2>6, <2>7
    <3>2. cur(k) <= m
      <4>1. CASE k = L
        BY <1>3, <2>5, <4>1
      <4>2. CASE k # L
        <5>1. k - 1 \in 1..n /\ cur(k) = c[k - 1].end /\ ~(k - 1 >= k)
          BY <1>4, <2>3, <3>1, <4>2
        <5>2. ~(c[k - 1].end > m)
          BY <2>4, <5>1
        <5>3. QED  BY <1>1, <2>5, <5>1, <5>2
      <4>3. QED  BY <4>1, <4>2
    <3>3. m < til(k)
      <4>1. CASE k = R
        BY <1>3, <2>5, <4>1
      <4>2. CASE k # R
        <5>1. k \in 1..n /\ til(k) = c[k].start /\ k >= k
          BY <1>5, <2>3, <3>1, <4>2
        <5>2. c[k].end > m
          BY <2>4, <5>1
        <5>3. ~(c[k].start <= m)
          BY <1>11, <5>1, <5>2 DEF In, n
        <5>4. QED  BY <1>1, <2>5, <5>1, <5>3
      <4>3. QED  BY <4>1, <4>2
    <3>4. QED  BY <3>1, <3>2, <3>3
  <2>8. CASE ~(k <= R)
    <3>1. R \in L..R /\ R \in 1..n /\ R < k
      BY <1>1, <2>3, <2>8
    <3>2. ~(c[R].end > m) /\ c[R].start >= s.end /\ c[R].start < c[R].end
      BY <1>1, <1>2, <2>3, <2>4, <3>1
    <3>3. c[R].start \in Int /\ c[R].end \in Int
      BY <1>1, <3>1
    <3>4. FALSE
      BY <2>5, <3>2, <3>3
    <3>5. QED  BY <3>4
  <2>9. QED  BY <2>7, <2>8
<1>12. ASSUME NEW m \in s.start..(s.end - 1), NEW i \in L..R, cur(i) <= m, m < til(i), In(c, m)
       PROVE  FALSE
  <2>1. m \in Int /\ s.start <= m /\ m < s.end
    OBVIOUS
  <2>2. PICK j \in 1..n : c[j].start <= m /\ m < c[j].end
    BY <1>12 DEF In, n
  <2>3. c[j].end > s.start /\ ~(c[j].start >= s.end)
    BY <1>1, <2>1, <2>2
  <2>4. j >= L /\ ~(j >= R) /\ j \in Int /\ i \in Int /\ L \in Int /\ R \in Int
    BY <1>1, <2>3
  <2>5. CASE j >= i
    <3>1. i # R /\ i \in 1..n /\ til(i) = c[i].start
      BY <1>5, <2>4, <2>5
    <3>2. i = j \/ c[i].end < c[j].start
      BY <1>2, <2>4, <2>5, <3>1
    <3>3. c[i].start <= c[j].start
      BY <1>1, <1>2, <3>1, <3>2
    <3>4. QED  BY <1>1, <1>12, <2>1, <2>2, <3>1, <3>3
  <2>6. CASE ~(j >= i)
    <3>1. i # L /\ i - 1 \in 1..n /\ cur(i) = c[i - 1].end
      BY <1>4, <2>4, <2>6
    <3>2. i - 1 = j \/ c[j].end < c[i - 1].start
      BY <1>2, <2>4, <2>6, <3>1
    <3>3. c[j].end <= c[i - 1].end
      BY <1>1, <1>2, <3>1, <3>2
    <3>4. QED  BY <1>1, <1>12, <2>1, <2>2, <3>1, <3>3
  <2>7. QED  BY <2>5, <2>6
<1>13. QED  BY <1>1, <1>4, <1>5, <1>6, <1>7, <1>8, <1>9, <1>10, <1>11, <1>12 DEF n, L, R, cur, til

\* Over an interval of numbers from 2 on.
LEMMA OverNext ==
    ASSUME NEW n \in Nat, NEW g, \A i \in 2..n : g[i] \in Int, NEW i \in 2..n
    PROVE  Over(g, 2..i) = Over(g, 2..(i - 1)) + g[i]
<1> DEFINE A == 2..(i - 1)
           B == 2..n
<1>1. A \in SUBSET B /\ i \in B \ A /\ 2..i = A \union {i}
  OBVIOUS
<1>2. IsFiniteSet(B) /\ \A x \in B : g[x] \in Int
  BY FS_Interval
<1> HIDE DEF A, B
<1>3. \A x \in B \ A : Over(g, A \union {x}) = Over(g, A) + g[x]
  BY <1>1, <1>2, OverAdd
<1>4. QED  BY <1>1, <1>3 DEF A

\* The prefix of gaps is the sum of the gaps so far that last a second.
LEMMA PrefixFacts ==
    ASSUME NEW c, Disjoint(c), NEW g,
           \A i \in 2..Len(c) : g[i] = durationAtLeast(c[i].start - c[i - 1].end)
    PROVE  \A i \in 1..Len(c) : visibleGapPrefix(c)[i] = Over(g, 2..i)
<1> DEFINE n == Len(c)
           Step(p) == [i \in 1..n |-> IF i = 1 THEN 0
                                      ELSE p[i - 1] + durationAtLeast(c[i].start - c[i - 1].end)]
           prefix == CHOOSE p : p = Step(p)
           sum == [i \in 1..n |-> Over(g, 2..i)]
<1>1. n \in Nat
  BY DEF Disjoint
<1>2. visibleGapPrefix(c) = prefix
  BY Zenon DEF visibleGapPrefix
<1>3. \A i \in 2..n : g[i] \in Int
  <2>1. TAKE i \in 2..n
  <2>2. c[i].start \in Int /\ c[i - 1].end \in Int
    <3>1. i \in 1..n /\ i - 1 \in 1..n
      BY <1>1
    <3>2. c[i] \in Interval /\ c[i - 1] \in Interval
      BY <3>1 DEF Disjoint
    <3>3. QED  BY <3>2 DEF Interval
  <2>3. QED  BY <2>2 DEF durationAtLeast
<1>4. IsFiniteSet(2..n)
  <2>1. 2 \in Int /\ n \in Int
    BY <1>1
  <2>2. QED  BY <2>1, FS_Interval
<1>5. Over(g, {}) = 0
  <2>1. \A i \in {} : g[i] \in Int
    OBVIOUS
  <2>2. QED  BY <2>1, FS_EmptySet, OverSteps
<1>6. ASSUME NEW i \in 2..n
      PROVE  Over(g, 2..i) = Over(g, 2..(i - 1)) + g[i]
  BY <1>1, <1>3, OverNext
<1>7. \A i \in 1..n : i = 1 => Over(g, 2..i) = 0
  <2>1. 2..1 = {}
    OBVIOUS
  <2>2. QED  BY <1>5, <2>1
<1>8. \A i \in 1..n : i # 1 => i \in 2..n /\ i - 1 \in 1..n
  BY <1>1
<1>9. sum = Step(sum)
  <2>1. ASSUME NEW i \in 1..n
        PROVE  sum[i] = Step(sum)[i]
    <3>1. CASE i = 1
      BY <1>7, <3>1
    <3>2. CASE i # 1
      <4>1. sum[i] = Over(g, 2..i) /\ sum[i - 1] = Over(g, 2..(i - 1))
        BY <1>8, <3>2
      <4>2. Step(sum)[i] = sum[i - 1] + durationAtLeast(c[i].start - c[i - 1].end)
        BY <3>2
      <4>3. g[i] = durationAtLeast(c[i].start - c[i - 1].end) /\ i \in 2..n
        BY <1>8, <3>2
      <4> HIDE DEF sum, Step
      <4>4. QED  BY <1>6, <4>1, <4>2, <4>3
    <3>3. QED  BY <3>1, <3>2
  <2>2. sum = [i \in 1..n |-> sum[i]] /\ Step(sum) = [i \in 1..n |-> Step(sum)[i]]
    OBVIOUS
  <2> HIDE DEF sum, Step
  <2>3. QED  BY <2>1, <2>2
<1>10. prefix = Step(prefix)
  <2> HIDE DEF sum, Step
  <2>1. QED  BY <1>9
<1> HIDE DEF prefix
<1> DEFINE P == {k \in Nat : k + 1 \in 1..n => prefix[k + 1] = Over(g, 2..(k + 1))}
<1>11. 0 \in P
  <2>1. ASSUME 1 \in 1..n
        PROVE  prefix[1] = 0
    BY <1>10, <2>1
  <2>2. QED  BY <1>7, <2>1
<1>12. ASSUME NEW k \in Nat, k \in P
       PROVE  k + 1 \in P
  <2>1. SUFFICES ASSUME (k + 1) + 1 \in 1..n
                 PROVE  prefix[(k + 1) + 1] = Over(g, 2..((k + 1) + 1))
    OBVIOUS
  <2> DEFINE i == (k + 1) + 1
  <2>2. i \in 2..n /\ i # 1 /\ i - 1 = k + 1 /\ k + 1 \in 1..n /\ i \in 1..n
    BY <1>1, <2>1
  <2>3. prefix[i] = prefix[i - 1] + durationAtLeast(c[i].start - c[i - 1].end)
    BY <1>10, <2>2
  <2>4. prefix[k + 1] = Over(g, 2..(k + 1))
    BY <1>12, <2>2
  <2> HIDE DEF i, P
  <2>5. prefix[i] = Over(g, 2..i)
    BY <1>6, <2>2, <2>3, <2>4
  <2>6. QED  BY <2>5 DEF i
<1> HIDE DEF P
<1>13. \A k \in Nat : k \in P
  BY <1>11, <1>12, Numbers
<1>14. ASSUME NEW i \in 1..n
       PROVE  prefix[i] = Over(g, 2..i)
  <2>1. i - 1 \in Nat /\ (i - 1) + 1 = i
    BY <1>1
  <2>2. i - 1 \in P
    BY <1>13, <2>1
  <2>3. QED  BY <2>1, <2>2 DEF P
<1>15. QED  BY <1>2, <1>14

\* What visibleUncoveredDuration counts is the sum of the gaps that last a second.
LEMMA VisibleIsSum ==
    ASSUME NEW c, Disjoint(c), NEW s, s.start \in Int, s.end \in Int, s.start < s.end, NEW f,
           \A i \in First(c, s)..After(c, s) :
              f[i] = durationAtLeast(Until(c, s, i) - Cursor(c, s, i))
    PROVE  visibleUncoveredDuration(c, s) = Over(f, First(c, s)..After(c, s))
<1> DEFINE n == Len(c)
           L == First(c, s)
           R == After(c, s)
           K == L..R
           g == [i \in 2..n |-> durationAtLeast(c[i].start - c[i - 1].end)]
<1>1. /\ L \in 1..(n + 1) /\ R \in 1..(n + 1) /\ L <= R /\ n \in Nat
      /\ \A i \in K : Cursor(c, s, i) \in Int /\ Until(c, s, i) \in Int
      /\ \A i \in K : s.start <= Cursor(c, s, i) /\ Until(c, s, i) <= s.end
      /\ \A i \in K : i # L => i - 1 \in 1..n /\ Cursor(c, s, i) = c[i - 1].end
      /\ \A i \in K : i # R => i \in 1..n /\ Until(c, s, i) = c[i].start /\ Until(c, s, i) < c[i].end
  BY Pieces
<1>2. Cursor(c, s, L) = s.start /\ Until(c, s, R) = s.end
  BY DEF Cursor, Until
<1>3. \A i \in K : f[i] \in Int
  BY <1>1 DEF durationAtLeast
<1>4. visibleUncoveredDuration(c, s) =
        IF L > R - 1 THEN durationAtLeast(s.end - s.start)
        ELSE durationAtLeast(Min({c[L].start, s.end}) - s.start)
             + (visibleGapPrefix(c)[R - 1] - visibleGapPrefix(c)[L])
             + durationAtLeast(s.end - Max({c[R - 1].end, s.start}))
  BY Zenon DEF visibleUncoveredDuration, First, After
<1>5. IsFiniteSet(K)
  BY <1>1, FS_Interval
<1> HIDE DEF L, R, n
<1>6. CASE L > R - 1
  <2>1. L = R
    BY <1>1, <1>6
  <2>2. K = {L} /\ L \in K
    BY <1>1, <2>1
  <2>3. f[L] = durationAtLeast(s.end - s.start) /\ f[L] \in Int
    BY <1>2, <1>3, <2>1, <2>2 DEF L, R
  <2> HIDE DEF K
  <2>4. Over(f, K) = f[L]
    BY <2>2, <2>3, OverOne
  <2>5. QED  BY <1>4, <1>6, <2>3, <2>4 DEF K, L, R
<1>7. CASE ~(L > R - 1)
  <2> DEFINE M == (L + 1)..(R - 1)
  <2>1. L < R /\ L \in K /\ R \in K /\ L \in Int /\ R \in Int
    BY <1>1, <1>7
  <2>2. L \in 1..n /\ Until(c, s, L) = c[L].start /\ Until(c, s, L) < c[L].end
    BY <1>1, <2>1
  <2>3. R - 1 \in 1..n /\ Cursor(c, s, R) = c[R - 1].end
    BY <1>1, <2>1
  <2>4. f[L] = durationAtLeast(Min({c[L].start, s.end}) - s.start)
    <3>1. c[L].start \in Int /\ c[L].start <= s.end
      BY <1>1, <2>1, <2>2
    <3> DEFINE e == c[L].start
    <3> HIDE DEF e
    <3>a. e \in Int /\ s.end \in Int /\ ~(s.end < e)
      BY <3>1 DEF e
    <3>b. Min({e, s.end}) = e
      BY <3>a, OfTwo
    <3>2. Min({c[L].start, s.end}) = c[L].start
      BY <3>b DEF e
    <3>3. f[L] = durationAtLeast(Until(c, s, L) - Cursor(c, s, L))
      BY <2>1 DEF L, R
    <3>4. QED  BY <1>2, <2>2, <3>2, <3>3
  <2>5. f[R] = durationAtLeast(s.end - Max({c[R - 1].end, s.start}))
    <3>1. c[R - 1].end \in Int /\ s.start <= c[R - 1].end
      BY <1>1, <2>1, <2>3
    <3> DEFINE e == c[R - 1].end
    <3> HIDE DEF e
    <3>a. e \in Int /\ s.start \in Int /\ ~(e < s.start)
      BY <3>1 DEF e
    <3>b. Max({e, s.start}) = e
      BY <3>a, OfTwo
    <3>2. Max({c[R - 1].end, s.start}) = c[R - 1].end
      BY <3>b DEF e
    <3>3. f[R] = durationAtLeast(Until(c, s, R) - Cursor(c, s, R))
      BY <2>1 DEF L, R
    <3>4. QED  BY <1>2, <2>3, <3>2, <3>3
  <2>6. ASSUME NEW i \in M
        PROVE  i \in K /\ i \in 2..n /\ f[i] = g[i] /\ g[i] \in Int
    <3>1. i \in K /\ i # L /\ i # R /\ i \in 2..n
      BY <1>1, <2>1, <2>3
    <3>2. f[i] = durationAtLeast(Until(c, s, i) - Cursor(c, s, i))
      BY <3>1 DEF L, R
    <3>3. Until(c, s, i) = c[i].start /\ Cursor(c, s, i) = c[i - 1].end
      BY <1>1, <3>1
    <3>4. g[i] = durationAtLeast(c[i].start - c[i - 1].end)
      BY <3>1
    <3> HIDE DEF g
    <3>5. f[i] = g[i]
      BY <3>2, <3>3, <3>4
    <3>6. QED  BY <1>3, <3>1, <3>5
  <2>7. \A i \in 2..n : g[i] \in Int
    <3>1. TAKE i \in 2..n
    <3>2. i \in 1..n /\ i - 1 \in 1..n
      BY <1>1
    <3>3. c[i] \in Interval /\ c[i - 1] \in Interval
      BY <3>2 DEF Disjoint, n
    <3>4. c[i].start \in Int /\ c[i - 1].end \in Int
      BY <3>3 DEF Interval
    <3>5. QED  BY <3>4 DEF durationAtLeast
  <2>8. visibleGapPrefix(c)[R - 1] - visibleGapPrefix(c)[L] = Over(f, M)
    <3>1. \A i \in 2..n : g[i] = durationAtLeast(c[i].start - c[i - 1].end)
      OBVIOUS
    <3> HIDE DEF g
    <3>2. visibleGapPrefix(c)[R - 1] = Over(g, 2..(R - 1)) /\ visibleGapPrefix(c)[L] = Over(g, 2..L)
      BY <2>2, <2>3, <3>1, PrefixFacts DEF n
    <3> DEFINE A == 2..L
               S == 2..n
               B == 2..(R - 1)
    <3>3. /\ A \in SUBSET S /\ M \in SUBSET S /\ A \intersect M = {}
          /\ A \union M = B
      BY <1>1, <2>1, <2>2, <2>3
    <3>4. IsFiniteSet(S)
      <4>1. 2 \in Int /\ n \in Int
        BY <1>1
      <4>2. QED  BY <4>1, FS_Interval
    <3>a. \A i \in S : g[i] \in Int
      BY <2>7
    <3>b. \A i \in M : f[i] = g[i]
      BY <2>6
    <3>c. visibleGapPrefix(c)[R - 1] = Over(g, B) /\ visibleGapPrefix(c)[L] = Over(g, A)
      BY <3>2
    <3> HIDE DEF A, M, S, B
    <3>5. Over(g, A \union M) = Over(g, A) + Over(g, M)
      BY <3>a, <3>3, <3>4, OverUnion
    <3>6. Over(g, A) \in Int /\ Over(g, M) \in Int
      BY <3>a, <3>3, <3>4, OverSteps
    <3>7. Over(g, M) = Over(f, M)
      BY <3>b, OverSame
    <3>8. Over(g, B) - Over(g, A) = Over(g, M)
      BY <3>3, <3>5, <3>6
    <3>9. QED  BY <3>7, <3>8, <3>c
  <2>9. Over(f, K) = f[L] + Over(f, M) + f[R]
    <3> DEFINE A == M \union {L}
    <3>1. /\ K = A \union {R} /\ A \in SUBSET K /\ R \in K \ A
          /\ M \in SUBSET K /\ L \in K \ M
      BY <2>1
    <3> HIDE DEF M, K, A
    <3>2. Over(f, A \union {R}) = Over(f, A) + f[R]
      BY <1>3, <1>5, <3>1, OverSteps
    <3>3. Over(f, M \union {L}) = Over(f, M) + f[L]
      BY <1>3, <1>5, <3>1, OverSteps
    <3>4. Over(f, M) \in Int /\ f[L] \in Int /\ f[R] \in Int
      BY <1>3, <1>5, <2>1, <3>1, OverSteps
    <3>5. QED  BY <3>1, <3>2, <3>3, <3>4 DEF A
  <2>10. Over(f, M) \in Int /\ f[L] \in Int /\ f[R] \in Int
    <3>1. M \in SUBSET K
      BY <2>1
    <3> HIDE DEF M, K
    <3>2. QED  BY <1>3, <1>5, <2>1, <3>1, OverSteps
  <2> HIDE DEF M, K
  <2>11. visibleUncoveredDuration(c, s) = Over(f, K)
    BY <1>4, <1>7, <2>4, <2>5, <2>8, <2>9, <2>10
  <2>12. QED  BY <2>11 DEF K, L, R
<1>8. QED  BY <1>6, <1>7
-----------------------------------------------------------------------------
(* Runs of moments.                                                         *)

\* The longest runs of the moments clear that last a second.
Runs(clear) ==
    {[start |-> ab[1], end |-> ab[2] + 1] :
        ab \in {xy \in clear \X clear :
            /\ xy[2] + 1 - xy[1] >= Second
            /\ xy[1]..xy[2] \subseteq clear
            /\ xy[1] - 1 \notin clear /\ xy[2] + 1 \notin clear}}

\* The moments of s in which no interval of c lies.
Clear(c, s) == {m \in s.start..(s.end - 1) : ~In(c, m)}

\* What a run is.
LEMMA RunFacts ==
    ASSUME NEW clear \in SUBSET Int, NEW x
    PROVE  x \in Runs(clear) <=>
              \E a, b \in clear : /\ x = [start |-> a, end |-> b + 1] /\ b + 1 - a >= Second
                                  /\ a..b \subseteq clear
                                  /\ a - 1 \notin clear /\ b + 1 \notin clear
<1> DEFINE Q(a, b) == /\ b + 1 - a >= Second /\ a..b \subseteq clear
                      /\ a - 1 \notin clear /\ b + 1 \notin clear
<1>1. Runs(clear) = {[start |-> ab[1], end |-> ab[2] + 1] : ab \in {xy \in clear \X clear : Q(xy[1], xy[2])}}
  BY Zenon DEF Runs
<1> HIDE DEF Q
<1> DEFINE P == {xy \in clear \X clear : Q(xy[1], xy[2])}
<1>4. \A a, b \in clear : <<a, b>> \in P <=> Q(a, b)
  <2>1. TAKE a \in clear, b \in clear
  <2>2. <<a, b>> \in clear \X clear /\ <<a, b>>[1] = a /\ <<a, b>>[2] = b
    OBVIOUS
  <2>3. QED  BY <2>2
<1>5. \A y \in P : y[1] \in clear /\ y[2] \in clear /\ Q(y[1], y[2])
  OBVIOUS
<1>6. Runs(clear) = {[start |-> ab[1], end |-> ab[2] + 1] : ab \in P}
  BY <1>1
<1> HIDE DEF P
<1>2. x \in Runs(clear) <=> \E a, b \in clear : x = [start |-> a, end |-> b + 1] /\ Q(a, b)
  <2>1. ASSUME x \in Runs(clear)
        PROVE  \E a, b \in clear : x = [start |-> a, end |-> b + 1] /\ Q(a, b)
    <3>1. PICK y \in P : x = [start |-> y[1], end |-> y[2] + 1]
      BY <1>6, <2>1
    <3>2. QED  BY <1>5, <3>1
  <2>2. ASSUME NEW a \in clear, NEW b \in clear, x = [start |-> a, end |-> b + 1], Q(a, b)
        PROVE  x \in Runs(clear)
    <3>1. <<a, b>> \in P /\ <<a, b>>[1] = a /\ <<a, b>>[2] = b
      BY <1>4, <2>2
    <3>2. x = [start |-> <<a, b>>[1], end |-> <<a, b>>[2] + 1]
      BY <2>2, <3>1
    <3>3. QED  BY <1>6, <3>1, <3>2
  <2>3. QED  BY <2>1, <2>2
<1>3. QED  BY <1>2, Zenon DEF Q

\* The longest runs of clear moments are the gaps that last a second.
LEMMA RunsArePieces ==
    ASSUME NEW c, Disjoint(c), NEW s, s.start \in Int, s.end \in Int, s.start < s.end
    PROVE  Runs(Clear(c, s)) = {Piece(c, s, i) : i \in Long(c, s)}
<1> DEFINE n == Len(c)
           L == First(c, s)
           R == After(c, s)
           K == L..R
           cur(i) == Cursor(c, s, i)
           til(i) == Until(c, s, i)
           clear == Clear(c, s)
           lo == s.start
           hi == s.end
<1>1. /\ L \in 1..(n + 1) /\ R \in 1..(n + 1) /\ L <= R /\ n \in Nat
      /\ \A i \in K : cur(i) \in Int /\ til(i) \in Int
      /\ \A i \in K : lo <= cur(i) /\ til(i) <= hi
      /\ \A i \in K : i # L => i - 1 \in 1..n /\ cur(i) = c[i - 1].end /\ c[i - 1].start < cur(i)
      /\ \A i \in K : i # R => i \in 1..n /\ til(i) = c[i].start /\ til(i) < c[i].end
      /\ \A i, j \in K : i < j => cur(i) < cur(j)
      /\ \A m \in lo..(hi - 1) : ~In(c, m) <=> \E i \in K : cur(i) <= m /\ m < til(i)
  BY Pieces
<1>2. cur(L) = lo /\ til(R) = hi
  BY DEF Cursor, Until
<1>3. \A i \in 1..n : c[i].start \in Int /\ c[i].end \in Int
  BY Meeting
<1>4. clear = {m \in lo..(hi - 1) : ~In(c, m)}
  BY DEF Clear
<1>5. Long(c, s) = {i \in K : til(i) - cur(i) >= Second}
  BY Zenon DEF Long
<1>6. \A i \in K : Piece(c, s, i) = [start |-> cur(i), end |-> til(i)]
  BY Zenon DEF Piece
<1>7. lo \in Int /\ hi \in Int
  OBVIOUS
<1>8. \A i \in 1..n : \A m \in Int : c[i].start <= m /\ m < c[i].end => In(c, m)
  BY DEF In
<1> HIDE DEF n, L, R, cur, til, clear, lo, hi
<1>9. clear \in SUBSET Int /\ \A m \in clear : lo <= m /\ m < hi
  BY <1>4, <1>7
<1>10. \A m \in Int : m \in clear <=> \E i \in K : cur(i) <= m /\ m < til(i)
  <2>1. TAKE m \in Int
  <2>2. CASE m \in lo..(hi - 1)
    BY <1>1, <1>4, <2>2
  <2>3. CASE m \notin lo..(hi - 1)
    <3>1. m \notin clear
      BY <1>4, <2>3
    <3>2. ASSUME NEW i \in K, cur(i) <= m, m < til(i)
          PROVE  FALSE
      <4>1. lo <= cur(i) /\ til(i) <= hi /\ cur(i) \in Int /\ til(i) \in Int
        BY <1>1
      <4>2. QED  BY <1>7, <2>3, <3>2, <4>1
    <3>3. QED  BY <3>1, <3>2
  <2>4. QED  BY <2>2, <2>3
<1>11. \A i \in K : cur(i) - 1 \notin clear /\ til(i) \notin clear
  <2>1. TAKE i \in K
  <2>2. cur(i) \in Int /\ til(i) \in Int
    BY <1>1
  <2>3. cur(i) - 1 \notin clear
    <3>1. CASE i = L
      BY <1>2, <1>7, <1>9, <3>1
    <3>2. CASE i # L
      <4>1. i - 1 \in 1..n /\ cur(i) = c[i - 1].end /\ c[i - 1].start < cur(i)
        BY <1>1, <3>2
      <4>2. c[i - 1].start <= cur(i) - 1 /\ cur(i) - 1 < c[i - 1].end /\ cur(i) - 1 \in Int
        BY <1>3, <2>2, <4>1
      <4>3. In(c, cur(i) - 1)
        BY <1>8, <4>1, <4>2
      <4>4. QED  BY <1>4, <4>3
    <3>3. QED  BY <3>1, <3>2
  <2>4. til(i) \notin clear
    <3>1. CASE i = R
      BY <1>2, <1>7, <1>9, <3>1
    <3>2. CASE i # R
      <4>1. i \in 1..n /\ til(i) = c[i].start /\ til(i) < c[i].end
        BY <1>1, <3>2
      <4>2. c[i].start <= til(i) /\ til(i) < c[i].end
        BY <1>3, <2>2, <4>1
      <4>3. In(c, til(i))
        BY <1>8, <2>2, <4>1, <4>2
      <4>4. QED  BY <1>4, <4>3
    <3>3. QED  BY <3>1, <3>2
  <2>5. QED  BY <2>3, <2>4
<1>12. ASSUME NEW i \in K, til(i) - cur(i) >= Second
       PROVE  [start |-> cur(i), end |-> til(i)] \in Runs(clear)
  <2> DEFINE a == cur(i)
             b == til(i) - 1
  <2>1. a \in Int /\ b \in Int /\ b + 1 = til(i) /\ a <= b /\ b + 1 - a >= Second /\ a - 1 = cur(i) - 1
    BY <1>1, <1>12
  <2>2. ASSUME NEW m \in a..b
        PROVE  m \in clear
    <3>1. m \in Int /\ cur(i) <= m /\ m < til(i)
      BY <2>1
    <3>2. QED  BY <1>10, <3>1
  <2>3. a \in clear /\ b \in clear /\ a..b \subseteq clear
    <3>1. a \in a..b /\ b \in a..b
      BY <2>1
    <3>2. QED  BY <2>2, <3>1
  <2>4. a - 1 \notin clear /\ b + 1 \notin clear
    BY <1>11, <2>1
  <2>5. [start |-> cur(i), end |-> til(i)] = [start |-> a, end |-> b + 1]
    BY <2>1
  <2> HIDE DEF a, b
  <2>6. QED  BY <1>9, <2>1, <2>3, <2>4, <2>5, RunFacts
<1>13. ASSUME NEW x \in Runs(clear)
       PROVE  \E i \in K : til(i) - cur(i) >= Second /\ x = [start |-> cur(i), end |-> til(i)]
  <2>1. PICK a \in clear, b \in clear :
               /\ x = [start |-> a, end |-> b + 1] /\ b + 1 - a >= Second /\ a..b \subseteq clear
               /\ a - 1 \notin clear /\ b + 1 \notin clear
    BY <1>9, RunFacts
  <2>2. a \in Int /\ b \in Int /\ a <= b
    BY <1>9, <2>1
  <2>3. PICK i \in K : cur(i) <= a /\ a < til(i)
    BY <1>10, <2>2
  <2>4. cur(i) \in Int /\ til(i) \in Int
    BY <1>1
  <2>5. cur(i) = a
    <3>1. SUFFICES ASSUME cur(i) # a
                   PROVE  FALSE
      OBVIOUS
    <3>2. a - 1 \in Int /\ cur(i) <= a - 1 /\ a - 1 < til(i)
      BY <2>2, <2>3, <2>4, <3>1
    <3>3. a - 1 \in clear
      BY <1>10, <3>2
    <3>4. QED  BY <2>1, <3>3
  <2>6. til(i) = b + 1
    <3>1. b < til(i)
      <4>1. SUFFICES ASSUME til(i) <= b
                     PROVE  FALSE
        BY <2>2, <2>4
      <4>2. til(i) \in a..b
        BY <2>2, <2>3, <2>4, <4>1
      <4>3. QED  BY <1>11, <2>1, <4>2
    <3>2. ~(b + 1 < til(i))
      <4>1. SUFFICES ASSUME b + 1 < til(i)
                     PROVE  FALSE
        OBVIOUS
      <4>2. b + 1 \in Int /\ cur(i) <= b + 1
        BY <2>2, <2>3, <2>4
      <4>3. b + 1 \in clear
        BY <1>10, <4>1, <4>2
      <4>4. QED  BY <2>1, <4>3
    <3>3. QED  BY <2>2, <2>4, <3>1, <3>2
  <2>7. til(i) - cur(i) >= Second
    BY <2>1, <2>2, <2>4, <2>5, <2>6
  <2>8. QED  BY <2>1, <2>5, <2>6, <2>7
<1>14. \A x : x \in Runs(clear) <=> x \in {Piece(c, s, i) : i \in Long(c, s)}
  <2>1. TAKE x
  <2>2. x \in {Piece(c, s, i) : i \in Long(c, s)}
          <=> \E i \in K : til(i) - cur(i) >= Second /\ x = [start |-> cur(i), end |-> til(i)]
    BY <1>5, <1>6
  <2>3. QED  BY <1>12, <1>13, <2>2
<1>15. QED  BY <1>14 DEF clear

\* The time of the gaps that last a second is the time of the runs.
LEMMA VisibleIsRuns ==
    ASSUME NEW c, Disjoint(c), NEW s, s.start \in Int, s.end \in Int, s.start < s.end
    PROVE  /\ visibleUncoveredDuration(c, s) = sumOf([x \in Runs(Clear(c, s)) |-> x.end - x.start])
           /\ visibleUncoveredDuration(c, s) \in Nat
<1> DEFINE K == First(c, s)..After(c, s)
           len(i) == Until(c, s, i) - Cursor(c, s, i)
           J == Long(c, s)
           f == [i \in K |-> durationAtLeast(len(i))]
           to == [i \in J |-> Piece(c, s, i)]
           X == Runs(Clear(c, s))
           g == [x \in X |-> x.end - x.start]
<1>1. /\ First(c, s) \in Int /\ After(c, s) \in Int
      /\ \A i \in K : Cursor(c, s, i) \in Int /\ Until(c, s, i) \in Int
      /\ \A i, j \in K : i < j => Cursor(c, s, i) < Cursor(c, s, j)
  <2>1. Len(c) \in Nat /\ First(c, s) \in 1..(Len(c) + 1) /\ After(c, s) \in 1..(Len(c) + 1)
    BY Pieces
  <2>2. \A i \in K : Cursor(c, s, i) \in Int /\ Until(c, s, i) \in Int
    BY Pieces
  <2>3. \A i, j \in K : i < j => Cursor(c, s, i) < Cursor(c, s, j)
    BY Pieces
  <2>4. QED  BY <2>1, <2>2, <2>3
<1>2. J = {i \in K : len(i) >= Second}
  BY DEF Long
<1>3. \A i \in K : f[i] = IF i \in J THEN len(i) ELSE 0
  BY <1>1, <1>2 DEF durationAtLeast
<1>4. visibleUncoveredDuration(c, s) = Over(f, K)
  <2>1. \A i \in First(c, s)..After(c, s) : f[i] = durationAtLeast(Until(c, s, i) - Cursor(c, s, i))
    OBVIOUS
  <2> HIDE DEF f
  <2>2. QED  BY <2>1, VisibleIsSum
<1>5. IsFiniteSet(K)
  BY <1>1, FS_Interval
<1>6. \A i \in K : f[i] \in Nat
  BY <1>1, <1>2, <1>3
<1>7. J \in SUBSET K /\ \A i \in K \ J : f[i] = 0
  BY <1>2, <1>3
<1>8. \A i \in K : i \in Int
  BY <1>1
<1>9. \A i \in J : f[i] = len(i) /\ Piece(c, s, i).start = Cursor(c, s, i) /\ Piece(c, s, i).end = Until(c, s, i)
  BY <1>3, <1>7 DEF Piece
<1> HIDE DEF K, J, f, len
<1>10. Over(f, K) = Over(f, J)
  <2>1. \A i \in K : f[i] \in Int
    BY <1>6
  <2>2. QED  BY <1>5, <1>7, <2>1, OverDrop
<1>11. IsFiniteSet(J)
  BY <1>5, <1>7, FS_Subset
<1>12. X = {to[i] : i \in J}
  <2>1. X = {Piece(c, s, i) : i \in J}
    BY RunsArePieces DEF J
  <2>2. QED  BY <2>1
<1>13. \A i, j \in J : to[i] = to[j] => i = j
  <2>1. SUFFICES ASSUME NEW i \in J, NEW j \in J, to[i] = to[j], i # j
                 PROVE  FALSE
    OBVIOUS
  <2>2. Cursor(c, s, i) = Cursor(c, s, j)
    BY <1>9, <2>1
  <2>3. i \in K /\ j \in K /\ (i < j \/ j < i)
    BY <1>7, <1>8, <2>1
  <2>4. QED  BY <1>1, <2>2, <2>3 DEF K
<1>14. \A i \in J : g[to[i]] = f[i]
  <2>1. TAKE i \in J
  <2>2. to[i] \in X /\ to[i] = Piece(c, s, i)
    BY <1>12
  <2>3. g[to[i]] = to[i].end - to[i].start
    BY <2>2
  <2>4. QED  BY <1>9, <2>2, <2>3 DEF len
<1>15. \A i \in J : g[to[i]] \in Int
  BY <1>6, <1>7, <1>14
<1>16. sumOf([x \in X |-> x.end - x.start]) = Over(g, X)
  <2>1. g = [x \in X |-> g[x]]
    OBVIOUS
  <2>2. QED  BY <2>1 DEF Over
<1> HIDE DEF to, g, X
<1>17. Over(g, {to[i] : i \in J}) = Over([i \in J |-> g[to[i]]], J)
  BY <1>11, <1>13, <1>15, OverRenamed
<1>18. Over([i \in J |-> g[to[i]]], J) = Over(f, J)
  <2> DEFINE h == [i \in J |-> g[to[i]]]
  <2>1. \A i \in J : h[i] = f[i]
    BY <1>14
  <2> HIDE DEF h
  <2>2. Over(h, J) = Over(f, J)
    BY <2>1, OverSame
  <2>3. QED  BY <2>2 DEF h
<1>19. Over(f, K) \in Nat
  <2> DEFINE z == [i \in K |-> 0]
  <2>1. /\ \A i \in K : z[i] \in Int
        /\ \A i \in K : f[i] \in Int
        /\ \A i \in K : z[i] <= f[i]
        /\ \A i \in K : z[i] = 0
    BY <1>6
  <2> HIDE DEF z
  <2>2. Over(z, K) <= Over(f, K)
    BY <1>5, <2>1, OverAtMost
  <2>3. Over(z, K) = 0
    BY <1>5, <2>1, OverZero
  <2>4. Over(f, K) \in Int
    BY <1>5, <2>1, OverSteps
  <2>5. QED  BY <2>2, <2>3, <2>4
<1>20. QED  BY <1>4, <1>10, <1>12, <1>16, <1>17, <1>18, <1>19 DEF X

\* With a look for each interval the visit is complete, and its pieces that last
\* a second are the runs.
LEMMA VisitIsRuns ==
    ASSUME NEW c, Disjoint(c), NEW s, s.start \in Int, s.end \in Int, s.start < s.end,
           NEW budget \in Nat
    PROVE  LET v == visitUncovered(s, c, budget)
           IN  /\ v.spent \in 0..budget /\ v.spent <= Len(c) /\ v.complete \in BOOLEAN
               /\ budget >= Len(c) => v.complete
               /\ {x \in v.pieces : x.end - x.start >= Second} \subseteq Runs(Clear(c, s))
               /\ v.complete => {x \in v.pieces : x.end - x.start >= Second} = Runs(Clear(c, s))
<1> DEFINE n == Len(c)
           L == First(c, s)
           R == After(c, s)
           K == L..R
           cur(i) == Cursor(c, s, i)
           til(i) == Until(c, s, i)
           stop == Max({L, Min({R, L + budget})})
           seen(i) == IF i = L THEN s.start ELSE c[i - 1].end
           gaps == {i \in L..(stop - 1) : c[i].start > seen(i)}
           complete == R <= stop
           tail == IF complete /\ seen(stop) < s.end THEN {[start |-> seen(stop), end |-> s.end]} ELSE {}
           pieces == {[start |-> seen(i), end |-> c[i].start] : i \in gaps} \union tail
           v == visitUncovered(s, c, budget)
<1>1. v = [pieces |-> pieces, spent |-> stop - L, complete |-> complete]
  BY Zenon DEF visitUncovered, First, After
<1>2. /\ L \in 1..(n + 1) /\ R \in 1..(n + 1) /\ L <= R /\ n \in Nat
      /\ \A i \in K : cur(i) \in Int /\ til(i) \in Int
      /\ \A i \in K : i # R => i \in 1..n /\ til(i) = c[i].start
  BY Pieces
<1>3. \A i \in K : cur(i) = seen(i)
  BY Zenon DEF Cursor
<1>4. til(R) = s.end
  BY DEF Until
<1>5. stop = IF R < L + budget THEN R ELSE L + budget
  <2>1. R \in Int /\ L \in Int /\ L + budget \in Int /\ L <= R
    BY <1>2
  <2> DEFINE a == L + budget
             b == IF R < a THEN R ELSE a
  <2>2. a \in Int /\ b \in Int /\ L <= b
    BY <2>1
  <2> HIDE DEF L, R, a
  <2>a. Min({a, R}) = IF R < a THEN R ELSE a
    BY <2>1, <2>2, OfTwo
  <2>3. Min({R, a}) = b
    <3>1. {R, a} = {a, R}
      OBVIOUS
    <3>2. QED  BY <2>a, <3>1
  <2> HIDE DEF b
  <2>4. Max({L, b}) = b
    <3>1. Max({L, b}) = IF L < b THEN b ELSE L
      BY <2>1, <2>2, OfTwo
    <3>2. QED  BY <2>1, <2>2, <3>1
  <2>5. QED  BY <2>3, <2>4 DEF a, b
<1> HIDE DEF stop, L, R, n, cur, til, seen
<1>6. stop \in L..R /\ stop - L \in 0..budget /\ (complete <=> stop = R)
  BY <1>2, <1>5
<1>7. stop - L <= n /\ (budget >= n => complete)
  BY <1>2, <1>5, <1>6
<1>8. Long(c, s) = {i \in K : til(i) - cur(i) >= Second}
  BY Zenon DEF Long, L, R, til, cur
<1>9. \A i \in K : Piece(c, s, i) = [start |-> cur(i), end |-> til(i)]
  BY Zenon DEF Piece, cur, til
<1>10. Runs(Clear(c, s)) = {Piece(c, s, i) : i \in Long(c, s)}
  BY RunsArePieces
<1>11. \A x : x \in Runs(Clear(c, s)) <=>
                \E i \in K : til(i) - cur(i) >= Second /\ x = [start |-> cur(i), end |-> til(i)]
  BY <1>8, <1>9, <1>10
<1>12. \A i \in L..(stop - 1) : i \in K /\ i # R /\ seen(i) = cur(i) /\ c[i].start = til(i)
  BY <1>2, <1>3, <1>6
<1>13. ASSUME NEW x \in pieces, x.end - x.start >= Second
       PROVE  x \in Runs(Clear(c, s))
  <2>1. CASE x \in {[start |-> seen(i), end |-> c[i].start] : i \in gaps}
    <3>1. PICK i \in gaps : x = [start |-> seen(i), end |-> c[i].start]
      BY <2>1
    <3>2. i \in K /\ x = [start |-> cur(i), end |-> til(i)]
      BY <1>12, <3>1
    <3>3. QED  BY <1>11, <1>13, <3>2
  <2>2. CASE x \in tail
    <3>1. stop = R /\ x = [start |-> seen(stop), end |-> s.end] /\ R \in K
      BY <1>2, <1>6, <2>2
    <3>2. x = [start |-> cur(R), end |-> til(R)]
      BY <1>3, <1>4, <3>1
    <3>3. QED  BY <1>11, <1>13, <3>1, <3>2
  <2>3. QED  BY <2>1, <2>2
<1>14. ASSUME complete, NEW x \in Runs(Clear(c, s))
       PROVE  x \in pieces /\ x.end - x.start >= Second
  <2>1. PICK i \in K : til(i) - cur(i) >= Second /\ x = [start |-> cur(i), end |-> til(i)]
    BY <1>11
  <2>2. cur(i) \in Int /\ til(i) \in Int /\ cur(i) < til(i)
    BY <1>2, <2>1
  <2>3. x.end - x.start >= Second
    BY <2>1
  <2>4. CASE i = R
    <3>1. x = [start |-> seen(stop), end |-> s.end] /\ seen(stop) < s.end
      BY <1>3, <1>4, <1>6, <1>14, <2>1, <2>2, <2>4
    <3>2. x \in tail
      BY <1>14, <3>1
    <3>3. QED  BY <2>3, <3>2
  <2>5. CASE i # R
    <3>1. i \in L..(stop - 1)
      BY <1>2, <1>6, <1>14, <2>5
    <3>2. x = [start |-> seen(i), end |-> c[i].start] /\ c[i].start > seen(i)
      BY <1>12, <2>1, <2>2, <3>1
    <3>3. i \in gaps
      BY <3>1, <3>2
    <3>4. QED  BY <2>3, <3>2, <3>3
  <2>6. QED  BY <2>4, <2>5
<1>15. v.pieces = pieces /\ v.spent = stop - L /\ v.complete = complete
  BY <1>1
<1> HIDE DEF pieces, v, complete
<1>16. {x \in pieces : x.end - x.start >= Second} \subseteq Runs(Clear(c, s))
  BY <1>13
<1>17. complete => {x \in pieces : x.end - x.start >= Second} = Runs(Clear(c, s))
  BY <1>13, <1>14
<1>18. complete \in BOOLEAN
  BY DEF complete
<1>19. QED  BY <1>6, <1>7, <1>15, <1>16, <1>17, <1>18 DEF v, n
-----------------------------------------------------------------------------
(* The coverage of rows.                                                    *)

\* Finitely many rows with a start and an end.
Timed(rows) == IsFiniteSet(rows) /\ \A r \in rows : r.start \in Int /\ r.end \in Int

\* A desktop row of a browser has one key, since no name is of two families.
LEMMA OneKey ==
    ASSUME NEW r, desktopCoverageKey(r) # {}
    PROVE  desktopCoverageKey(r) = {CHOOSE key \in desktopCoverageKey(r) : TRUE}
<1> DEFINE D == desktopCoverageKey(r)
<1>1. \A f, g \in familyForDesktopName(r.app) : f = g
  <2> DEFINE F == [producer |-> "firefox", canonical |-> "Firefox", desktopKeys |-> {"firefox"}]
             G == [producer |-> "chrome", canonical |-> "Google Chrome",
                   desktopKeys |-> {"google chrome", "google-chrome"}]
             k == AppKeys[r.app]
  <2>1. F.desktopKeys = {"firefox"} /\ G.desktopKeys = {"google chrome", "google-chrome"}
    OBVIOUS
  <2>2. ~(k \in F.desktopKeys /\ k \in G.desktopKeys)
    <3> HIDE DEF k, F, G
    <3>1. QED  BY <2>1
  <2>3. familyForDesktopName(r.app) = {f \in {F, G} : k \in f.desktopKeys}
    BY DEF familyForDesktopName, browserFamilies
  <2> HIDE DEF F, G, k
  <2>4. QED  BY <2>2, <2>3
<1>2. D = {<<r.device, f.producer>> : f \in {g \in familyForDesktopName(r.app) : r.producer = "desktop"}}
  BY DEF desktopCoverageKey
<1>3. \A x, y \in D : x = y
  BY <1>1, <1>2
<1> HIDE DEF D
<1>4. (CHOOSE key \in D : TRUE) \in D
  BY DEF D
<1>5. D = {CHOOSE key \in D : TRUE}
  BY <1>3, <1>4
<1>6. QED  BY <1>5 DEF D

\* The coverage of a key has the moments of the rows that the key covers.
LEMMA CoverageFacts ==
    ASSUME NEW rows, Timed(rows), NEW key
    PROVE  /\ Disjoint(coverage(rows, key)) /\ Len(coverage(rows, key)) <= Cardinality(rows)
           /\ \A m \in Int : In(coverage(rows, key), m) <=>
                 \E x \in rows : key \in browserCoverageKey(x) /\ x.start <= m /\ m < x.end
<1> DEFINE T == {r \in rows : isValid(r) /\ key \in browserCoverageKey(r)}
           to == [r \in T |-> [start |-> r.start, end |-> r.end]]
           s == {to[r] : r \in T}
<1>1. IsFiniteSet(T) /\ Cardinality(T) <= Cardinality(rows) /\ T \subseteq rows
  BY FS_Subset DEF Timed
<1>2. intervals(T) = s
  BY DEF intervals
<1>3. coverage(rows, key) = mergeActivityIntervals(s)
  BY <1>2 DEF coverage
<1>4. \A x \in s : \E r \in T : x = [start |-> r.start, end |-> r.end]
  OBVIOUS
<1>5. \A r \in T : [start |-> r.start, end |-> r.end] \in s
  <2>1. TAKE r \in T
  <2>2. to[r] = [start |-> r.start, end |-> r.end] /\ to[r] \in s
    OBVIOUS
  <2> HIDE DEF s, to
  <2>3. QED  BY <2>2
<1>6. \A r \in T : r.start \in Int /\ r.end \in Int /\ r.start < r.end
  BY DEF Timed, isValid
<1>7. \A r \in rows : r \in T <=> r.start < r.end /\ key \in browserCoverageKey(r)
  BY DEF isValid
<1>a. \A r \in rows : r.start \in Int /\ r.end \in Int
  BY DEF Timed
<1> HIDE DEF T
<1>8. IsFiniteSet(s) /\ Cardinality(s) \in Nat /\ Cardinality(s) <= Cardinality(T)
  BY <1>1, Images
<1> HIDE DEF s, to
<1>9. s \in SUBSET Interval /\ \A x \in s : x.start < x.end
  BY <1>4, <1>6 DEF Interval
<1>10. /\ Disjoint(mergeActivityIntervals(s))
       /\ Len(mergeActivityIntervals(s)) <= Cardinality(s)
       /\ \A m \in Int : In(mergeActivityIntervals(s), m) <=> \E x \in s : x.start <= m /\ m < x.end
  BY <1>8, <1>9, MergedCovers
<1>11. ASSUME NEW m \in Int
       PROVE  (\E x \in s : x.start <= m /\ m < x.end)
                <=> \E x \in rows : key \in browserCoverageKey(x) /\ x.start <= m /\ m < x.end
  <2>1. ASSUME NEW x \in s, x.start <= m, m < x.end
        PROVE  \E r \in rows : key \in browserCoverageKey(r) /\ r.start <= m /\ m < r.end
    <3>1. PICK r \in T : x = [start |-> r.start, end |-> r.end]
      BY <1>4
    <3>2. r \in rows /\ key \in browserCoverageKey(r)
      BY <1>1, <1>7, <3>1
    <3>3. QED  BY <2>1, <3>1, <3>2
  <2>2. ASSUME NEW r \in rows, key \in browserCoverageKey(r), r.start <= m, m < r.end
        PROVE  \E x \in s : x.start <= m /\ m < x.end
    <3>1. r \in T
      BY <1>a, <1>7, <2>2
    <3>2. [start |-> r.start, end |-> r.end] \in s
      BY <1>5, <3>1
    <3>3. QED  BY <2>2, <3>2
  <2>3. QED  BY <2>1, <2>2
<1>12. Len(mergeActivityIntervals(s)) <= Cardinality(rows)
  <2>1. Len(mergeActivityIntervals(s)) \in Nat
    BY <1>10 DEF Disjoint
  <2>2. Cardinality(T) \in Nat /\ Cardinality(rows) \in Nat
    BY <1>1, FS_CardinalityType DEF Timed
  <2>3. QED  BY <1>1, <1>8, <1>10, <2>1, <2>2
<1>13. QED  BY <1>3, <1>10, <1>11, <1>12

\* The runs of a row are those of the coverage of its key.
LEMMA RowRuns ==
    ASSUME NEW rows, Timed(rows), NEW r, desktopCoverageKey(r) # {}, NEW s, s.start \in Int, s.end \in Int
    PROVE  clearRuns(rows, r, s) = Runs(Clear(coverageOf(rows, r), s))
<1> DEFINE key == CHOOSE k \in desktopCoverageKey(r) : TRUE
           c == coverage(rows, key)
<1>1. coverageOf(rows, r) = c
  BY Zenon DEF coverageOf
<1>2. desktopCoverageKey(r) = {key}
  BY OneKey
<1> HIDE DEF key
<1>3. \A m \in Int : In(c, m) <=> \E x \in rows : key \in browserCoverageKey(x) /\ x.start <= m /\ m < x.end
  BY CoverageFacts
<1>4. \A m \in Int : In(c, m) <=> covered(rows, r, m)
  <2>1. \A x : desktopCoverageKey(r) \intersect browserCoverageKey(x) # {} <=> key \in browserCoverageKey(x)
    BY <1>2
  <2> HIDE DEF c
  <2>2. QED  BY <1>3, <2>1 DEF covered
<1>5. {m \in s.start..(s.end - 1) : ~covered(rows, r, m)} = Clear(c, s)
  <2> HIDE DEF c
  <2>1. QED  BY <1>4 DEF Clear
<1>6. clearRuns(rows, r, s) = Runs({m \in s.start..(s.end - 1) : ~covered(rows, r, m)})
  BY Zenon DEF clearRuns, Runs
<1>7. QED  BY <1>1, <1>5, <1>6

\* What lies in a window of a row are numbers; nothing if the row is not valid.
LEMMA ClipFacts ==
    ASSUME NEW r, r.start \in Int, r.end \in Int, NEW w, w.start \in Int, w.end \in Int
    PROVE  /\ clip(r, w).start = IF r.start < w.start THEN w.start ELSE r.start
           /\ clip(r, w).end = IF w.end < r.end THEN w.end ELSE r.end
           /\ clip(r, w).start \in Int /\ clip(r, w).end \in Int
<1>1. Max({r.start, w.start}) = IF r.start < w.start THEN w.start ELSE r.start
  BY OfTwo
<1>2. Min({r.end, w.end}) = IF w.end < r.end THEN w.end ELSE r.end
  BY OfTwo
<1>3. clip(r, w).start = Max({r.start, w.start}) /\ clip(r, w).end = Min({r.end, w.end})
  BY DEF clip
<1>4. QED  BY <1>1, <1>2, <1>3

\* There is no time in no run.
LEMMA NoRuns ==
    ASSUME NEW c, NEW s, s.start \in Int, s.end \in Int, ~(s.start < s.end)
    PROVE  Runs(Clear(c, s)) = {} /\ sumOf([x \in Runs(Clear(c, s)) |-> x.end - x.start]) = 0
<1>1. s.start..(s.end - 1) = {}
  OBVIOUS
<1>2. Clear(c, s) = {}
  BY <1>1 DEF Clear
<1>3. Runs({}) = {}
  BY DEF Runs
<1> DEFINE f == [x \in {} |-> x.end - x.start]
<1>4. \A x \in {} : f[x] \in Int
  OBVIOUS
<1>5. f = [x \in {} |-> f[x]]
  OBVIOUS
<1> HIDE DEF f
<1>6. Over(f, {}) = 0
  BY <1>4, FS_EmptySet, OverSteps
<1>7. sumOf(f) = 0
  BY <1>5, <1>6 DEF Over
<1>8. QED  BY <1>2, <1>3, <1>7 DEF f

\* The time a row is credited with is the time of its clear runs in the window.
LEMMA EffectiveFacts ==
    ASSUME NEW rows, Timed(rows), NEW r \in rows, NEW w, w.start \in Int, w.end \in Int
    PROVE  /\ effectiveDuration(rows, r, w) \in Nat
           /\ desktopCoverageKey(r) # {} =>
                effectiveDuration(rows, r, w)
                  = sumOf([i \in clearRuns(rows, r, clip(r, w)) |-> i.end - i.start])
<1> DEFINE o == clip(r, w)
           c == coverageOf(rows, r)
<1>1. r.start \in Int /\ r.end \in Int
  BY DEF Timed
<1>2. /\ o.start = IF r.start < w.start THEN w.start ELSE r.start
      /\ o.end = IF w.end < r.end THEN w.end ELSE r.end
      /\ o.start \in Int /\ o.end \in Int
  BY <1>1, ClipFacts
<1>3. effectiveDuration(rows, r, w) =
        IF ~isValid(r) \/ o.start >= o.end THEN 0
        ELSE IF desktopCoverageKey(r) = {} THEN o.end - o.start
        ELSE visibleUncoveredDuration(c, o)
  BY Zenon DEF effectiveDuration
<1>4. ~isValid(r) => o.start >= o.end
  BY <1>1, <1>2 DEF isValid
<1>5. desktopCoverageKey(r) # {} => clearRuns(rows, r, o) = Runs(Clear(c, o))
  BY <1>2, RowRuns
<1>6. Disjoint(c)
  BY CoverageFacts DEF coverageOf
<1> HIDE DEF o, c
<1>7. CASE o.start >= o.end
  <2>1. sumOf([x \in Runs(Clear(c, o)) |-> x.end - x.start]) = 0
    BY <1>2, <1>7, NoRuns
  <2>2. effectiveDuration(rows, r, w) = 0
    BY <1>3, <1>7
  <2>3. QED  BY <1>5, <2>1, <2>2 DEF o
<1>8. CASE ~(o.start >= o.end)
  <2>1. o.start < o.end
    BY <1>2, <1>8
  <2>2. /\ visibleUncoveredDuration(c, o) = sumOf([x \in Runs(Clear(c, o)) |-> x.end - x.start])
        /\ visibleUncoveredDuration(c, o) \in Nat
    BY <1>2, <1>6, <2>1, VisibleIsRuns
  <2>3. CASE desktopCoverageKey(r) = {}
    <3>1. effectiveDuration(rows, r, w) = o.end - o.start
      BY <1>3, <1>4, <1>8, <2>3
    <3>2. QED  BY <1>2, <2>1, <2>3, <3>1
  <2>4. CASE desktopCoverageKey(r) # {}
    <3>1. effectiveDuration(rows, r, w) = visibleUncoveredDuration(c, o)
      BY <1>3, <1>4, <1>8, <2>4
    <3>2. QED  BY <1>5, <2>2, <3>1 DEF o
  <2>5. QED  BY <2>3, <2>4
<1>9. QED  BY <1>7, <1>8

\* The visit of a row with a look for each row is complete, and its slices are
\* the row's clear runs.
LEMMA RowVisit ==
    ASSUME NEW rows, Timed(rows), NEW r \in rows, isValid(r), desktopCoverageKey(r) # {},
           NEW budget \in Nat
    PROVE  LET v == visitUncovered(r, coverageOf(rows, r), budget)
           IN  /\ v.spent \in 0..budget /\ v.spent <= Cardinality(rows) /\ v.complete \in BOOLEAN
               /\ budget >= Cardinality(rows) => v.complete
               /\ {p \in v.pieces : p.end - p.start >= Second} \subseteq clearRuns(rows, r, r)
               /\ v.complete => {p \in v.pieces : p.end - p.start >= Second} = clearRuns(rows, r, r)
<1> DEFINE c == coverageOf(rows, r)
           v == visitUncovered(r, c, budget)
<1>1. r.start \in Int /\ r.end \in Int /\ r.start < r.end
  BY DEF Timed, isValid
<1>2. Disjoint(c) /\ Len(c) <= Cardinality(rows)
  BY CoverageFacts DEF coverageOf
<1>3. clearRuns(rows, r, r) = Runs(Clear(c, r))
  BY <1>1, RowRuns
<1> HIDE DEF c
<1>4. /\ v.spent \in 0..budget /\ v.spent <= Len(c) /\ v.complete \in BOOLEAN
      /\ budget >= Len(c) => v.complete
      /\ {x \in v.pieces : x.end - x.start >= Second} \subseteq Runs(Clear(c, r))
      /\ v.complete => {x \in v.pieces : x.end - x.start >= Second} = Runs(Clear(c, r))
  BY <1>1, <1>2, VisitIsRuns
<1>5. Len(c) \in Nat /\ Cardinality(rows) \in Nat
  BY <1>2, FS_CardinalityType DEF Disjoint, Timed
<1> HIDE DEF v
<1>6. v.spent <= Cardinality(rows) /\ (budget >= Cardinality(rows) => v.complete)
  BY <1>2, <1>4, <1>5
<1>7. QED  BY <1>3, <1>4, <1>6 DEF v, c
-----------------------------------------------------------------------------
(* The split of time into categories.                                       *)

\* A sum of what is not negative.
LEMMA OverNat ==
    ASSUME NEW S, IsFiniteSet(S), NEW f, \A x \in S : f[x] \in Nat
    PROVE  Over(f, S) \in Nat
<1> DEFINE z == [x \in S |-> 0]
<1>1. /\ \A x \in S : z[x] \in Int
      /\ \A x \in S : f[x] \in Int
      /\ \A x \in S : z[x] <= f[x]
      /\ \A x \in S : z[x] = 0
  OBVIOUS
<1> HIDE DEF z
<1>2. Over(z, S) <= Over(f, S)
  BY <1>1, OverAtMost
<1>3. Over(z, S) = 0
  BY <1>1, OverZero
<1>4. Over(f, S) \in Int
  BY <1>1, OverSteps
<1>5. QED  BY <1>2, <1>3, <1>4

\* Time that is counted: so much for each of finitely many rows.
Counted(time) == IsFiniteSet(DOMAIN time) /\ \A r \in DOMAIN time : time[r] \in Nat

\* The rows of an application that count for category d.
RowsTo(time, app, assigned, known, d) ==
    {r \in recordsOf(time, app) : destination(r, assigned, known) = d}

\* The parts of an application's seconds add up to them, and none is off by a
\* second from the time of its category.
LEMMA SharesFacts ==
    ASSUME NEW time, Counted(time), NEW assigned, NEW known,
           \A r \in DOMAIN time : destination(r, assigned, known) \in Int, NEW app
    PROVE  LET p == shares(time, app, assigned, known)
               R == recordsOf(time, app)
           IN  /\ \A d \in DOMAIN p : \E r \in R : destination(r, assigned, known) = d
               /\ IsFiniteSet(DOMAIN p) /\ \A d \in DOMAIN p : p[d] \in Nat
               /\ Over(p, DOMAIN p) = Rounded(applicationTime(time, app))
               /\ \A d \in DOMAIN p :
                    p[d] * Second - timeOf(time, RowsTo(time, app, assigned, known, d))
                      \in (1 - Second)..(Second - 1)
<1> DEFINE R == recordsOf(time, app)
           to == [r \in R |-> destination(r, assigned, known)]
           D == {to[r] : r \in R}
           of(d) == {r \in R : to[r] = d}
           part == [d \in D |-> Over(time, of(d))]
           p == shares(time, app, assigned, known)
<1>1. IsFiniteSet(R) /\ R \subseteq DOMAIN time /\ \A r \in R : time[r] \in Nat
  BY FS_Subset DEF recordsOf, Counted
<1>2. \A r \in R : to[r] = destination(r, assigned, known) /\ to[r] \in Int
  BY <1>1
<1>3. D = {destination(r, assigned, known) : r \in R}
  OBVIOUS
<1>4. \A d : of(d) = {r \in R : destination(r, assigned, known) = d}
  OBVIOUS
<1>5. \A T : timeOf(time, T) = Over(time, T)
  BY DEF timeOf, Over
<1>6. p = apportioned(Rounded(applicationTime(time, app)), part)
  <2>1. p = apportioned(Rounded(applicationTime(time, app)),
                        [d \in {destination(r, assigned, known) : r \in R} |->
                            timeOf(time, {r \in R : destination(r, assigned, known) = d})])
    BY Zenon DEF shares
  <2>2. part = [d \in {destination(r, assigned, known) : r \in R} |->
                    timeOf(time, {r \in R : destination(r, assigned, known) = d})]
    <3>1. \A d : Over(time, of(d)) = timeOf(time, {r \in R : destination(r, assigned, known) = d})
      BY <1>4, <1>5
    <3> HIDE DEF of, R
    <3>2. QED  BY <1>3, <3>1
  <2> HIDE DEF part, R
  <2>3. QED  BY <2>1, <2>2
<1> HIDE DEF R, to
<1>7. IsFiniteSet(D)
  BY <1>1, Images
<1>8. \A d \in D : part[d] \in Nat
  <2>1. TAKE d \in D
  <2>2. IsFiniteSet(of(d)) /\ \A r \in of(d) : time[r] \in Nat
    BY <1>1, FS_Subset
  <2>3. part[d] = Over(time, of(d))
    OBVIOUS
  <2> HIDE DEF of, part
  <2>4. QED  BY <2>2, <2>3, OverNat
<1>9. Over(part, D) = applicationTime(time, app)
  <2>1. \A r \in R : time[r] \in Int
    BY <1>1
  <2>2. \A r \in R : to[r] \in D
    OBVIOUS
  <2> HIDE DEF D
  <2>3. Over(part, D) = Over(time, R)
    BY <1>1, <1>7, <2>1, <2>2, OverFibres
  <2>4. applicationTime(time, app) = Over(time, R)
    BY <1>5 DEF applicationTime, R
  <2>5. QED  BY <2>3, <2>4
<1>10. D \subseteq Int /\ DOMAIN part = D
  BY <1>2
<1>11. \A d \in D : part[d] = timeOf(time, {r \in R : destination(r, assigned, known) = d})
  <2>1. \A d \in D : part[d] = Over(time, of(d))
    OBVIOUS
  <2> HIDE DEF of, D, part
  <2>2. QED  BY <1>4, <1>5, <2>1
<1> HIDE DEF D, part, p
<1>12. LET q == apportioned(Rounded(Over(part, D)), part)
       IN  /\ DOMAIN q = D /\ \A d \in D : q[d] \in Nat
           /\ Over(q, D) = Rounded(Over(part, D))
           /\ \A d \in D : q[d] * Second - part[d] \in (1 - Second)..(Second - 1)
  <2>1. IsFiniteSet(DOMAIN part) /\ DOMAIN part \subseteq Int /\ \A d \in DOMAIN part : part[d] \in Nat
    BY <1>7, <1>8, <1>10
  <2>2. LET E == DOMAIN part
            q == apportioned(Rounded(Over(part, E)), part)
        IN  /\ DOMAIN q = E /\ \A d \in E : q[d] \in Nat
            /\ Over(q, E) = Rounded(Over(part, E))
            /\ \A d \in E : q[d] * Second - part[d] \in (1 - Second)..(Second - 1)
    BY <2>1, ApportionFacts
  <2>3. QED  BY <1>10, <2>2
<1>13. /\ DOMAIN p = D /\ \A d \in D : p[d] \in Nat
       /\ Over(p, D) = Rounded(applicationTime(time, app))
       /\ \A d \in D : p[d] * Second - part[d] \in (1 - Second)..(Second - 1)
  BY <1>6, <1>9, <1>12
<1>14. \A d \in D : p[d] * Second - timeOf(time, RowsTo(time, app, assigned, known, d))
                      \in (1 - Second)..(Second - 1)
  <2>1. \A d \in D : part[d] = timeOf(time, RowsTo(time, app, assigned, known, d))
    BY <1>11 DEF R, RowsTo
  <2>2. QED  BY <1>13, <2>1
<1>15. QED  BY <1>3, <1>7, <1>13, <1>14 DEF R, p

\* The same of one part: it is that of a row's category, and near its time.
LEMMA ShareFacts ==
    ASSUME NEW time, Counted(time), NEW assigned, NEW known,
           \A r \in DOMAIN time : destination(r, assigned, known) \in Int, NEW app,
           NEW d \in DOMAIN shares(time, app, assigned, known)
    PROVE  /\ \E r \in DOMAIN time : destination(r, assigned, known) = d
           /\ shares(time, app, assigned, known)[d] * Second
                - timeOf(time, RowsTo(time, app, assigned, known, d)) \in (1 - Second)..(Second - 1)
<1> DEFINE p == shares(time, app, assigned, known)
<1>1. \E r \in recordsOf(time, app) : destination(r, assigned, known) = d
  BY SharesFacts
<1>a. p[d] * Second - timeOf(time, RowsTo(time, app, assigned, known, d)) \in (1 - Second)..(Second - 1)
  BY SharesFacts
<1>2. recordsOf(time, app) \subseteq DOMAIN time
  BY DEF recordsOf
<1>3. \E r \in DOMAIN time : destination(r, assigned, known) = d
  BY <1>1, <1>2
<1>4. QED  BY <1>a, <1>3

\* The categories' seconds add up to those of the applications.
LEMMA TotalsAdd ==
    ASSUME NEW time, Counted(time), NEW assigned, NEW known,
           \A r \in DOMAIN time : destination(r, assigned, known) \in Int
    PROVE  sumOf(categoryTotals(time, assigned, known)) = sumOf(totals(time))
<1> DEFINE A == applications(time)
           parts == [app \in A |-> shares(time, app, assigned, known)]
           U == UNION {DOMAIN parts[app] : app \in A}
           h == [a \in A |-> [d \in U |-> IF d \in DOMAIN parts[a] THEN parts[a][d] ELSE 0]]
           sum == [d \in U |-> Over([a \in A |-> h[a][d]], A)]
           E == {d \in U : sum[d] > 0}
           tots == totals(time)
<1>1. A = {canonicalAppName(r) : r \in DOMAIN time}
  BY DEF applications
<1>2. IsFiniteSet(A)
  <2> DEFINE name == [r \in DOMAIN time |-> canonicalAppName(r)]
  <2>1. A = {name[r] : r \in DOMAIN time}
    BY <1>1
  <2> HIDE DEF name, A
  <2>2. IsFiniteSet(DOMAIN time)
    BY DEF Counted
  <2>3. QED  BY <2>1, <2>2, Images
<1>3. ASSUME NEW a \in A
      PROVE  /\ IsFiniteSet(DOMAIN parts[a])
             /\ \A d \in DOMAIN parts[a] : parts[a][d] \in Nat
             /\ Over(parts[a], DOMAIN parts[a]) = tots[a]
             /\ DOMAIN parts[a] \subseteq {destination(r, assigned, known) : r \in DOMAIN time}
  <2> DEFINE p == shares(time, a, assigned, known)
  <2>1. parts[a] = p
    OBVIOUS
  <2>2. tots[a] = Rounded(applicationTime(time, a))
    BY DEF totals
  <2>a. \A d \in DOMAIN p : \E r \in recordsOf(time, a) : destination(r, assigned, known) = d
    BY SharesFacts
  <2>b. IsFiniteSet(DOMAIN p) /\ \A d \in DOMAIN p : p[d] \in Nat
    BY SharesFacts
  <2>c. Over(p, DOMAIN p) = Rounded(applicationTime(time, a))
    BY SharesFacts
  <2>4. recordsOf(time, a) \subseteq DOMAIN time
    BY DEF recordsOf
  <2> HIDE DEF p, tots, parts
  <2>5. DOMAIN p \subseteq {destination(r, assigned, known) : r \in DOMAIN time}
    BY <2>a, <2>4
  <2>6. QED  BY <2>1, <2>2, <2>b, <2>c, <2>5
<1>4. categoryTotals(time, assigned, known) = [d \in E |-> sum[d]]
  <2> DEFINE total(d) == sumOf([app \in A |-> IF d \in DOMAIN parts[app] THEN parts[app][d] ELSE 0])
  <2>1. summed(parts) = [d \in {e \in U : total(e) > 0} |-> total(d)]
    <3>1. DOMAIN parts = A
      OBVIOUS
    <3> HIDE DEF parts
    <3>2. QED  BY <3>1 DEF summed
  <2>2. ASSUME NEW d \in U
        PROVE  total(d) = sum[d]
    <3> DEFINE f == [a \in A |-> IF d \in DOMAIN parts[a] THEN parts[a][d] ELSE 0]
               g == [a \in A |-> h[a][d]]
    <3>1. \A a \in A : g[a] = f[a]
      <4>1. TAKE a \in A
      <4> HIDE DEF parts
      <4>2. h[a][d] = IF d \in DOMAIN parts[a] THEN parts[a][d] ELSE 0
        OBVIOUS
      <4>3. g[a] = h[a][d] /\ f[a] = IF d \in DOMAIN parts[a] THEN parts[a][d] ELSE 0
        OBVIOUS
      <4>4. QED  BY <4>2, <4>3
    <3>2. f = g
      <4>1. f = [a \in A |-> f[a]] /\ g = [a \in A |-> g[a]]
        OBVIOUS
      <4> HIDE DEF f, g
      <4>2. QED  BY <3>1, <4>1
    <3>3. total(d) = sumOf(f) /\ sum[d] = Over(g, A)
      OBVIOUS
    <3>4. g = [a \in A |-> g[a]]
      OBVIOUS
    <3> HIDE DEF f, g, total, sum
    <3>5. Over(g, A) = sumOf(g)
      BY <3>4 DEF Over
    <3>6. QED  BY <3>2, <3>3, <3>5
  <2>3. categoryTotals(time, assigned, known) = summed(parts)
    BY DEF categoryTotals
  <2> HIDE DEF total, sum, U, parts
  <2>4. QED  BY <2>1, <2>2, <2>3
<1>5. IsFiniteSet(U)
  <2> DEFINE to == [r \in DOMAIN time |-> destination(r, assigned, known)]
             X == {to[r] : r \in DOMAIN time}
  <2>1. X = {destination(r, assigned, known) : r \in DOMAIN time}
    OBVIOUS
  <2>2. U \subseteq X
    <3> HIDE DEF parts, X
    <3>1. \A a \in A : DOMAIN parts[a] \subseteq X
      BY <1>3, <2>1
    <3>2. QED  BY <3>1
  <2>3. IsFiniteSet(DOMAIN time)
    BY DEF Counted
  <2> HIDE DEF U, to
  <2>4. IsFiniteSet(X)
    BY <2>3, Images
  <2>5. QED  BY <2>2, <2>4, FS_Subset
<1>6. \A a \in A : DOMAIN parts[a] \subseteq U
  OBVIOUS
<1> HIDE DEF parts, U
<1>7. \A a \in A : \A d \in U : h[a][d] = (IF d \in DOMAIN parts[a] THEN parts[a][d] ELSE 0)
  OBVIOUS
<1>8. \A a \in A : \A d \in U : h[a][d] \in Nat
  BY <1>3, <1>7
<1> HIDE DEF h
<1>9. \A d \in U : sum[d] \in Nat
  <2>1. TAKE d \in U
  <2> DEFINE f == [a \in A |-> h[a][d]]
  <2>2. \A a \in A : f[a] \in Nat
    BY <1>8
  <2>3. sum[d] = Over(f, A)
    OBVIOUS
  <2> HIDE DEF f, sum
  <2>4. QED  BY <1>2, <2>2, <2>3, OverNat
<1>10. Over(sum, U) = Over(sum, E)
  <2>1. E \in SUBSET U /\ \A d \in U : sum[d] \in Int
    BY <1>9
  <2>2. \A d \in U \ E : sum[d] = 0
    <3>1. \A d \in U \ E : d \in U /\ ~(sum[d] > 0)
      OBVIOUS
    <3> HIDE DEF sum, E
    <3>2. QED  BY <1>9, <3>1
  <2> HIDE DEF sum, E
  <2>3. QED  BY <1>5, <2>1, <2>2, OverDrop
<1>11. sumOf(categoryTotals(time, assigned, known)) = Over(sum, U)
  <2> HIDE DEF sum, E
  <2>1. QED  BY <1>4, <1>10 DEF Over
<1> DEFINE row == [a \in A |-> Over([d \in U |-> h[a][d]], U)]
<1>12. Over(row, A) = Over(sum, U)
  <2>1. \A a \in A, d \in U : h[a][d] \in Int
    BY <1>8
  <2>2. QED  BY <1>2, <1>5, <2>1, OverExchange
<1>13. ASSUME NEW a \in A
       PROVE  row[a] = tots[a]
  <2> DEFINE f == [d \in U |-> h[a][d]]
             D == DOMAIN parts[a]
  <2>1. row[a] = Over(f, U)
    OBVIOUS
  <2>2. /\ \A d \in U : f[d] \in Int
        /\ \A d \in U \ D : f[d] = 0
        /\ \A d \in D : f[d] = parts[a][d]
        /\ D \in SUBSET U
    BY <1>6, <1>7, <1>8
  <2> HIDE DEF f, row, tots
  <2>3. Over(f, U) = Over(f, D)
    BY <1>5, <2>2, OverDrop
  <2>4. Over(f, D) = Over(parts[a], D)
    BY <2>2, OverSame
  <2>5. QED  BY <1>3, <2>1, <2>3, <2>4
<1>14. Over(row, A) = Over(tots, A)
  <2> HIDE DEF row, tots
  <2>1. QED  BY <1>13, OverSame
<1>15. Over(tots, A) = sumOf(tots)
  <2>1. tots = [a \in A |-> tots[a]]
    BY DEF totals
  <2> HIDE DEF tots
  <2>2. QED  BY <2>1 DEF Over
<1> HIDE DEF row, sum, tots
<1>16. QED  BY <1>11, <1>12, <1>14, <1>15 DEF tots

-----------------------------------------------------------------------------
(* The earliest rows of a set.                                              *)

\* Before puts the members of A in a row.
Ranked(A) ==
    /\ IsFiniteSet(A)
    /\ \A x, y, z \in A : Before(x, y) /\ Before(y, z) => Before(x, z)
    /\ \A x \in A : ~Before(x, x)
    /\ \A x, y \in A : x = y \/ Before(x, y) \/ Before(y, x)

\* A part of an ordered set is ordered.
LEMMA RankedPart ==
    ASSUME NEW A, Ranked(A), NEW B \in SUBSET A
    PROVE  Ranked(B)
<1>1. IsFiniteSet(B)
  BY FS_Subset DEF Ranked
<1>2. QED  BY <1>1 DEF Ranked

\* The sorted rows list each row once, in order.
LEMMA SortedRows ==
    ASSUME NEW S, Ranked(S)
    PROVE  LET s == sortedRows(S)
               n == Cardinality(S)
           IN  /\ n \in Nat /\ s \in Seq(S) /\ Len(s) = n /\ Range(s) = S
               /\ \A i, j \in 1..n : i < j => Before(s[i], s[j])
<1> DEFINE R == {p \in S \X S : Before(p[1], p[2])}
           s == sortedRows(S)
           n == Cardinality(S)
<1>a. \A x, y \in S : <<x, y>> \in R <=> Before(x, y)
  OBVIOUS
<1>2. s = Sorted(S, R)
  BY DEF sortedRows
<1> HIDE DEF R, s
<1>1. Orders(R, S)
  BY <1>a DEF Ranked, Orders
<1>4. /\ n \in Nat /\ s \in [1..n -> S]
      /\ \A x \in S : \E i \in 1..n : s[i] = x
      /\ \A i, j \in 1..n : i < j => <<s[i], s[j]>> \in R
  <2>1. IsFiniteSet(S)
    BY DEF Ranked
  <2>2. QED  BY <1>1, <1>2, <2>1, SortedFacts
<1> HIDE DEF n
<1>5. s \in Seq(S) /\ Len(s) = n /\ DOMAIN s = 1..n
  BY <1>4
<1>6. Range(s) = S
  BY <1>4, <1>5 DEF Range
<1>7. \A i, j \in 1..n : i < j => Before(s[i], s[j])
  BY <1>4, <1>a
<1>8. QED  BY <1>4, <1>5, <1>6, <1>7 DEF s, n

\* K is the earliest part of A, of n members if A has as many.
Earliest(K, A, n) ==
    /\ K \subseteq A /\ \A x \in A, y \in K : Before(x, y) => x \in K
    /\ Cardinality(K) = IF Cardinality(A) < n THEN Cardinality(A) ELSE n

\* It has the members with less than n before them.
LEMMA EarliestRanks ==
    ASSUME NEW A, Ranked(A), NEW n \in Nat, NEW K, Earliest(K, A, n)
    PROVE  /\ K = {r \in A : Cardinality({x \in A : Before(x, r)}) < n}
           /\ Cardinality(A) <= n <=> K = A
<1> DEFINE B(r) == {x \in A : Before(x, r)}
<1>1. /\ IsFiniteSet(A) /\ IsFiniteSet(K) /\ K \subseteq A
      /\ Cardinality(A) \in Nat /\ Cardinality(K) \in Nat
  BY FS_Subset, FS_CardinalityType DEF Ranked, Earliest
<1>2. \A r : IsFiniteSet(B(r)) /\ Cardinality(B(r)) \in Nat
  <2>1. \A r : B(r) \subseteq A
    OBVIOUS
  <2> HIDE DEF B
  <2>2. QED  BY <1>1, <2>1, FS_Subset, FS_CardinalityType
<1>3. Cardinality(A) <= n <=> K = A
  <2>1. Cardinality(A) <= n => Cardinality(K) = Cardinality(A)
    BY <1>1 DEF Earliest
  <2>2. Cardinality(K) = Cardinality(A) => K = A
    BY <1>1, FS_Subset
  <2>3. K = A => Cardinality(A) <= n
    BY <1>1 DEF Earliest
  <2>4. QED  BY <2>1, <2>2, <2>3
<1>4. ASSUME NEW r \in K
      PROVE  Cardinality(B(r)) < n
  <2>1. B(r) \subseteq K \ {r}
    BY <1>1 DEF Earliest, Ranked
  <2> HIDE DEF B
  <2>2. IsFiniteSet(K \ {r}) /\ Cardinality(K \ {r}) = Cardinality(K) - 1
    BY <1>1, FS_RemoveElement
  <2>3. Cardinality(B(r)) <= Cardinality(K \ {r})
    BY <2>1, <2>2, FS_Subset
  <2>4. Cardinality(K) <= n
    BY <1>1 DEF Earliest
  <2>5. QED  BY <1>1, <1>2, <2>2, <2>3, <2>4
<1>5. ASSUME NEW r \in A, r \notin K
      PROVE  ~(Cardinality(B(r)) < n)
  <2>1. K \subseteq B(r)
    <3>1. \A x \in K : x \in A /\ x # r /\ ~Before(r, x)
      BY <1>1, <1>5 DEF Earliest
    <3>2. QED  BY <3>1 DEF Ranked
  <2> HIDE DEF B
  <2>2. Cardinality(K) <= Cardinality(B(r))
    BY <1>2, <2>1, FS_Subset
  <2>3. Cardinality(K) = n
    BY <1>1, <1>3, <1>5 DEF Earliest
  <2>4. QED  BY <1>1, <1>2, <2>2, <2>3
<1>6. K = {r \in A : Cardinality(B(r)) < n}
  <2> HIDE DEF B
  <2>1. QED  BY <1>1, <1>4, <1>5
<1>7. QED  BY <1>3, <1>6

\* A buffer of at most n rows.
Buffers(U) == [kept : SUBSET U, truncated : BOOLEAN]

\* The last row of a set.
LEMMA LastRow ==
    ASSUME NEW A, Ranked(A), A # {}
    PROVE  LET top == CHOOSE m \in A : \A x \in A : x = m \/ Before(x, m)
           IN  top \in A /\ \A x \in A : x = top \/ Before(x, top)
<1> DEFINE P == {T \in SUBSET A : T # {} => \E m \in T : \A x \in T : x = m \/ Before(x, m)}
<1>1. {} \in P
  OBVIOUS
<1>2. ASSUME NEW T \in SUBSET A, NEW r \in A \ T, T \in P
      PROVE  T \union {r} \in P
  <2>1. CASE T = {}
    BY <2>1
  <2>2. CASE T # {}
    <3>1. PICK m \in T : \A x \in T : x = m \/ Before(x, m)
      BY <1>2, <2>2
    <3>2. CASE Before(r, m)
      BY <3>1, <3>2
    <3>3. CASE ~Before(r, m)
      <4>1. Before(m, r)
        BY <3>1, <3>3 DEF Ranked
      <4>2. \A x \in T : Before(x, r)
        BY <3>1, <4>1 DEF Ranked
      <4>3. QED  BY <4>2
    <3>4. QED  BY <3>2, <3>3
  <2>3. QED  BY <2>1, <2>2
<1>3. A \in P
  <2>1. IsFiniteSet(A)
    BY DEF Ranked
  <2> HIDE DEF P
  <2>2. QED  BY <1>1, <1>2, <2>1, FiniteSets1
<1>4. \E m \in A : \A x \in A : x = m \/ Before(x, m)
  BY <1>3
<1>5. QED  BY <1>4

\* A row more: the buffer has the earliest rows, and was truncated when it
\* had n.
LEMMA AddFacts ==
    ASSUME NEW U, Ranked(U), NEW A \in SUBSET U, NEW r \in U \ A, NEW n \in Nat,
           NEW b \in Buffers(U), Earliest(b.kept, A, n)
    PROVE  /\ add(b, r, n) \in Buffers(U)
           /\ Earliest(add(b, r, n).kept, A \union {r}, n)
           /\ add(b, r, n).truncated <=> b.truncated \/ Cardinality(A) >= n
<1> DEFINE K == b.kept
           top == CHOOSE m \in K : \A x \in K : x = m \/ Before(x, m)
           c == add(b, r, n)
           B == A \union {r}
<1>1. /\ K \subseteq A /\ K \in SUBSET U /\ b.truncated \in BOOLEAN
      /\ b = [kept |-> K, truncated |-> b.truncated]
  BY DEF Buffers, Earliest
<1>2. /\ IsFiniteSet(A) /\ IsFiniteSet(K) /\ Cardinality(A) \in Nat /\ Cardinality(K) \in Nat
      /\ Cardinality(B) = Cardinality(A) + 1
  <2>1. IsFiniteSet(U)
    BY DEF Ranked
  <2>2. IsFiniteSet(A) /\ IsFiniteSet(K)
    BY <1>1, <2>1, FS_Subset
  <2> HIDE DEF K
  <2>3. Cardinality(A) \in Nat /\ Cardinality(K) \in Nat
    BY <2>2, FS_CardinalityType
  <2>4. Cardinality(B) = Cardinality(A) + 1
    BY <2>2, FS_AddElement
  <2>5. QED  BY <2>2, <2>3, <2>4
<1>3. Cardinality(K) = (IF Cardinality(A) < n THEN Cardinality(A) ELSE n)
  BY DEF Earliest
<1>4. \A x \in A, y \in K : Before(x, y) => x \in K
  BY DEF Earliest
<1>5. CASE Cardinality(K) < n
  <2>1. c = [b EXCEPT !.kept = @ \union {r}]
    BY <1>5 DEF add
  <2>2. c.kept = K \union {r} /\ c.truncated = b.truncated /\ c \in Buffers(U)
    BY <1>1, <2>1 DEF Buffers
  <2> HIDE DEF K, c
  <2>3. Cardinality(A) < n /\ Cardinality(K) = Cardinality(A)
    BY <1>2, <1>3, <1>5
  <2>4. K = A
    BY <1>1, <1>2, <2>3, FS_Subset
  <2>5. Earliest(B, B, n)
    <3>1. Cardinality(B) = IF Cardinality(B) < n THEN Cardinality(B) ELSE n
      BY <1>2, <2>3
    <3>2. QED  BY <3>1 DEF Earliest
  <2>6. Earliest(c.kept, B, n)
    BY <2>2, <2>4, <2>5
  <2>7. ~(Cardinality(A) >= n)
    BY <1>2, <2>3
  <2>8. QED  BY <2>2, <2>6, <2>7 DEF c
<1>6. CASE ~(Cardinality(K) < n)
  <2> DEFINE L == IF n > 0 /\ Before(r, top) THEN (K \ {top}) \union {r} ELSE K
  <2>1. c = [b EXCEPT !.truncated = TRUE,
                      !.kept = IF n > 0 /\ Before(r, top) THEN (@ \ {top}) \union {r} ELSE @]
    BY <1>6, Zenon DEF add
  <2>2. c.kept = L /\ c.truncated = TRUE /\ c \in Buffers(U)
    <3>1. c = [kept |-> L, truncated |-> TRUE]
      BY <1>1, <2>1
    <3>2. L \in SUBSET U
      BY <1>1
    <3> HIDE DEF L, c
    <3>3. QED  BY <3>1, <3>2 DEF Buffers
  <2>3. Cardinality(A) >= n /\ Cardinality(K) = n
    BY <1>2, <1>3, <1>6
  <2>4. Earliest(L, B, n)
    <3>1. CASE n = 0
      <4>1. K = {}
        BY <1>2, <2>3, <3>1, FS_EmptySet
      <4>2. L = {}
        BY <3>1, <4>1
      <4>3. Cardinality({}) = 0
        BY FS_EmptySet
      <4> HIDE DEF L, K, top
      <4>4. QED  BY <1>2, <3>1, <4>2, <4>3 DEF Earliest
    <3>2. CASE n > 0
      <4>1. K # {} /\ Ranked(K)
        <5>1. Cardinality({}) = 0
          BY FS_EmptySet
        <5>2. QED  BY <1>1, <2>3, <3>2, <5>1, RankedPart
      <4>2. top \in K /\ \A x \in K : x = top \/ Before(x, top)
        <5> HIDE DEF K
        <5>1. QED  BY <4>1, LastRow
      <4> HIDE DEF top, K
      <4>3. r \in U /\ r \notin A /\ B \subseteq U /\ A \subseteq U /\ K \subseteq U
        BY <1>1
      <4>4. CASE Before(r, top)
        <5>1. L = (K \ {top}) \union {r}
          BY <3>2, <4>4
        <5>2. Cardinality(L) = n
          <6>1. IsFiniteSet(K \ {top}) /\ Cardinality(K \ {top}) = n - 1
            BY <1>2, <2>3, <4>2, FS_RemoveElement
          <6>2. r \notin K \ {top}
            BY <1>1
          <6>3. Cardinality((K \ {top}) \union {r}) = (n - 1) + 1
            BY <6>1, <6>2, FS_AddElement
          <6>4. QED  BY <5>1, <6>3
        <5>3. ASSUME NEW x \in B, NEW y \in L, Before(x, y)
              PROVE  x \in L
          <6>1. CASE y = r
            <7>1. x # r /\ x \in A
              BY <4>3, <5>3, <6>1 DEF Ranked
            <7>2. Before(x, top)
              BY <1>1, <4>2, <4>3, <4>4, <5>3, <6>1, <7>1 DEF Ranked
            <7>3. x \in K /\ x # top
              BY <1>1, <1>4, <4>2, <4>3, <7>1, <7>2 DEF Ranked
            <7>4. QED  BY <5>1, <7>3
          <6>2. CASE y # r
            <7>1. y \in K /\ y # top /\ Before(y, top)
              BY <4>2, <5>1, <6>2
            <7>2. CASE x = r
              BY <5>1, <7>2
            <7>3. CASE x # r
              <8>1. x \in A /\ x \in K
                BY <1>4, <5>3, <7>1, <7>3
              <8>2. x # top
                <9>1. SUFFICES ASSUME x = top PROVE FALSE
                  OBVIOUS
                <9>2. Before(top, top)
                  BY <4>2, <4>3, <5>3, <7>1, <9>1 DEF Ranked
                <9>3. QED  BY <4>2, <4>3, <9>2 DEF Ranked
              <8>3. QED  BY <5>1, <8>1, <8>2
            <7>4. QED  BY <7>2, <7>3
          <6>3. QED  BY <6>1, <6>2
        <5>4. L \subseteq B
          BY <1>1, <5>1
        <5>5. ~(Cardinality(B) < n)
          BY <1>2, <2>3
        <5> HIDE DEF L, B
        <5>6. QED  BY <5>2, <5>3, <5>4, <5>5 DEF Earliest
      <4>5. CASE ~Before(r, top)
        <5>1. L = K
          BY <4>5
        <5>2. ASSUME NEW x \in B, NEW y \in K, Before(x, y)
              PROVE  x \in K
          <6>1. CASE x = r
            <7>1. Before(r, top)
              BY <4>2, <4>3, <5>2, <6>1 DEF Ranked
            <7>2. QED  BY <4>5, <7>1
          <6>2. CASE x # r
            BY <1>4, <5>2, <6>2
          <6>3. QED  BY <6>1, <6>2
        <5>3. K \subseteq B
          BY <1>1
        <5>4. ~(Cardinality(B) < n)
          BY <1>2, <2>3
        <5> HIDE DEF L, B
        <5>5. QED  BY <2>3, <5>1, <5>2, <5>3, <5>4 DEF Earliest
      <4>6. QED  BY <4>4, <4>5
    <3>3. QED  BY <3>1, <3>2
  <2> HIDE DEF L, c
  <2>5. QED  BY <2>2, <2>3, <2>4 DEF c
<1>7. QED  BY <1>5, <1>6

\* Adding keeps a buffer a buffer.
LEMMA AddTyped ==
    ASSUME NEW U, NEW r \in U, NEW n \in Nat, NEW b \in Buffers(U)
    PROVE  add(b, r, n) \in Buffers(U)
<1> DEFINE K == b.kept
           top == CHOOSE m \in K : \A x \in K : x = m \/ Before(x, m)
           c == add(b, r, n)
<1>1. K \in SUBSET U /\ b.truncated \in BOOLEAN /\ b = [kept |-> K, truncated |-> b.truncated]
  BY DEF Buffers
<1>2. CASE Cardinality(K) < n
  <2>1. c = [b EXCEPT !.kept = @ \union {r}]
    BY <1>2 DEF add
  <2>2. QED  BY <1>1, <2>1 DEF Buffers
<1>3. CASE ~(Cardinality(K) < n)
  <2> DEFINE L == IF n > 0 /\ Before(r, top) THEN (K \ {top}) \union {r} ELSE K
  <2>1. c = [b EXCEPT !.truncated = TRUE,
                      !.kept = IF n > 0 /\ Before(r, top) THEN (@ \ {top}) \union {r} ELSE @]
    BY <1>3, Zenon DEF add
  <2>2. c = [kept |-> L, truncated |-> TRUE]
    BY <1>1, <2>1
  <2>3. L \in SUBSET U
    BY <1>1
  <2> HIDE DEF L, c
  <2>4. c \in Buffers(U)
    BY <2>2, <2>3 DEF Buffers
  <2>5. QED  BY <2>4 DEF c
<1>4. QED  BY <1>2, <1>3

\* What a buffer holds after the rows of A, of which it may have missed some.
Holds(b, A, n, missed) ==
    Earliest(b.kept, A, n) /\ (b.truncated <=> missed \/ Cardinality(A) > n)

\* One row more.
LEMMA HoldsMore ==
    ASSUME NEW U, Ranked(U), NEW A \in SUBSET U, NEW r \in U \ A, NEW n \in Nat, NEW missed,
           NEW b \in Buffers(U), Holds(b, A, n, missed)
    PROVE  add(b, r, n) \in Buffers(U) /\ Holds(add(b, r, n), A \union {r}, n, missed)
<1> DEFINE c == add(b, r, n)
<1>1. /\ c \in Buffers(U) /\ Earliest(c.kept, A \union {r}, n)
      /\ c.truncated <=> b.truncated \/ Cardinality(A) >= n
  BY AddFacts DEF Holds
<1>2. Cardinality(A) \in Nat /\ Cardinality(A \union {r}) = Cardinality(A) + 1
  <2>1. IsFiniteSet(A)
    BY FS_Subset DEF Ranked
  <2>2. Cardinality(A) \in Nat
    BY <2>1, FS_CardinalityType
  <2>3. Cardinality(A \union {r}) = Cardinality(A) + 1
    BY <2>1, FS_AddElement
  <2>4. QED  BY <2>2, <2>3
<1> DEFINE B == A \union {r}
<1> HIDE DEF c, B
<1>3. b.truncated <=> missed \/ Cardinality(A) > n
  BY DEF Holds
<1>a. Cardinality(B) > n <=> Cardinality(A) >= n
  BY <1>2 DEF B
<1>b. Cardinality(A) > n => Cardinality(A) >= n
  BY <1>2
<1>c. c.truncated <=> missed \/ Cardinality(B) > n
  BY Zenon, <1>1, <1>3, <1>a, <1>b DEF B
<1>4. QED  BY <1>1, <1>c DEF Holds, c, B

\* fold adds the rows of R to b one by one, in some order.
AddsAll(fold, b, R, n, U) ==
    /\ addAll(b, R, n) = fold[R] /\ fold[{}] = b
    /\ \A T \in SUBSET R : fold[T] \in Buffers(U)
    /\ \A T \in SUBSET R : T # {} => \E r \in T : fold[T] = add(fold[T \ {r}], r, n)

\* There is such a fold.
LEMMA AddAllSteps ==
    ASSUME NEW U, NEW R \in SUBSET U, IsFiniteSet(R), NEW n \in Nat, NEW b \in Buffers(U)
    PROVE  \E fold : AddsAll(fold, b, R, n, U)
<1> DEFINE Step(it) == [T \in SUBSET R |->
                          IF T = {} THEN b
                          ELSE add(it[T \ {CHOOSE x \in T : TRUE}], CHOOSE x \in T : TRUE, n)]
           fold == CHOOSE it : it = Step(it)
           V == Buffers(U)
<1>1. addAll(b, R, n) = fold[R]
  BY Zenon DEF addAll, FoldSet, MapThenFoldSet
<1>2. \A T \in SUBSET R : IsFiniteSet(T) /\ Cardinality(T) \in Nat
  BY FS_Subset, FS_CardinalityType
<1>3. fold = Step(fold)
  <2> DEFINE F == [r \in R |-> [c \in V |-> add(c, r, n)]]
             pick == [T \in SUBSET R |-> CHOOSE x \in T : TRUE]
  <2>1. \A T \in SUBSET R : T # {} => pick[T] \in T
    OBVIOUS
  <2>2. \A r \in R : \A c \in V : F[r][c] \in V
    <3>1. ASSUME NEW r \in R, NEW c \in V
          PROVE  add(c, r, n) \in V
      <4>1. r \in U
        OBVIOUS
      <4>2. QED  BY <4>1, AddTyped
    <3>2. QED  BY <3>1
  <2>3. \A r \in R : \A c \in V : F[r][c] = add(c, r, n)
    OBVIOUS
  <2>4. \A T \in SUBSET R : pick[T] = CHOOSE x \in T : TRUE
    OBVIOUS
  <2> HIDE DEF F, pick, V
  <2>5. b \in V
    BY DEF V
  <2>6. PICK it : IsFold(it, R, V, b, pick, F)
    BY <2>1, <2>2, <2>5, FoldExists
  <2>7. \A T \in SUBSET R : T # {} =>
            F[pick[T]][it[T \ {pick[T]}]] = add(it[T \ {CHOOSE x \in T : TRUE}], CHOOSE x \in T : TRUE, n)
    <3>1. TAKE T \in SUBSET R
    <3>2. HAVE T # {}
    <3>3. pick[T] = (CHOOSE x \in T : TRUE) /\ pick[T] \in R /\ T \ {pick[T]} \in SUBSET R
      BY <2>1, <2>4, <3>2
    <3>4. QED  BY <2>3, <2>6, <3>3 DEF IsFold
  <2>8. it = Step(it)
    BY <2>6, <2>7 DEF IsFold
  <2> HIDE DEF Step
  <2>9. QED  BY <2>8
<1> HIDE DEF fold
<1>4. fold[{}] = b
  <2>1. {} \in SUBSET R
    OBVIOUS
  <2>2. QED  BY <1>3, <2>1
<1>5. ASSUME NEW T \in SUBSET R, T # {}
      PROVE  \E r \in T : fold[T] = add(fold[T \ {r}], r, n)
  <2> DEFINE r == CHOOSE x \in T : TRUE
  <2>1. r \in T
    BY <1>5
  <2>2. fold[T] = add(fold[T \ {r}], r, n)
    BY <1>3, <1>5
  <2> HIDE DEF r
  <2>3. QED  BY <2>1, <2>2
<1> DEFINE P == {k \in Nat : \A T \in SUBSET R : Cardinality(T) = k => fold[T] \in V}
<1>6. 0 \in P
  <2>1. \A T \in SUBSET R : Cardinality(T) = 0 => T = {}
    BY <1>2, FS_EmptySet
  <2>2. QED  BY <1>4, <2>1
<1>7. ASSUME NEW k \in Nat, k \in P
      PROVE  k + 1 \in P
  <2>1. SUFFICES ASSUME NEW T \in SUBSET R, Cardinality(T) = k + 1
                 PROVE  fold[T] \in V
    OBVIOUS
  <2>2. T # {} /\ IsFiniteSet(T)
    <3>1. Cardinality({}) = 0
      BY FS_EmptySet
    <3>2. k + 1 # 0
      OBVIOUS
    <3>3. QED  BY <1>2, <2>1, <3>1, <3>2
  <2>3. PICK r \in T : fold[T] = add(fold[T \ {r}], r, n)
    BY <1>5, <2>2
  <2> DEFINE S == T \ {r}
  <2>4. Cardinality(S) = k /\ S \in SUBSET R
    <3>1. Cardinality(S) = Cardinality(T) - 1
      BY <2>2, FS_RemoveElement
    <3>2. QED  BY <2>1, <3>1
  <2>5. fold[S] \in V
    <3> HIDE DEF V, S
    <3>1. QED  BY <1>7, <2>4
  <2>6. r \in U
    OBVIOUS
  <2> DEFINE c == fold[S]
  <2> HIDE DEF c, S
  <2>7. add(c, r, n) \in Buffers(U)
    BY <2>5, <2>6, AddTyped DEF c
  <2>8. QED  BY <2>3, <2>7 DEF c, S
<1> HIDE DEF P, V
<1>8. \A k \in Nat : k \in P
  BY <1>6, <1>7, Numbers
<1>9. \A T \in SUBSET R : fold[T] \in V
  BY <1>2, <1>8 DEF P
<1>10. AddsAll(fold, b, R, n, U)
  BY <1>1, <1>4, <1>5, <1>9 DEF V, AddsAll
<1> HIDE DEF fold
<1>11. QED  BY <1>10

\* Rows in any order.
LEMMA HoldsAll ==
    ASSUME NEW U, Ranked(U), NEW A \in SUBSET U, NEW R \in SUBSET (U \ A), NEW n \in Nat, NEW missed,
           NEW b \in Buffers(U), Holds(b, A, n, missed)
    PROVE  Holds(addAll(b, R, n), A \union R, n, missed)
<1>1. IsFiniteSet(R) /\ \A T \in SUBSET R : IsFiniteSet(T) /\ Cardinality(T) \in Nat
  <2>1. IsFiniteSet(R)
    BY FS_Subset DEF Ranked
  <2>2. QED  BY <2>1, FS_Subset, FS_CardinalityType
<1>2. R \in SUBSET U
  OBVIOUS
<1>a. PICK fold : AddsAll(fold, b, R, n, U)
  BY <1>1, <1>2, AddAllSteps
<1>3. /\ addAll(b, R, n) = fold[R] /\ fold[{}] = b
      /\ \A T \in SUBSET R : fold[T] \in Buffers(U)
      /\ \A T \in SUBSET R : T # {} => \E r \in T : fold[T] = add(fold[T \ {r}], r, n)
  BY <1>a DEF AddsAll
<1> DEFINE Good(T) == Holds(fold[T], A \union T, n, missed)
           P == {k \in Nat : \A T \in SUBSET R : Cardinality(T) = k => Good(T)}
<1>4. Good({})
  <2>1. A \union {} = A
    OBVIOUS
  <2>2. QED  BY <1>3, <2>1
<1>5. 0 \in P
  <2>1. \A T \in SUBSET R : Cardinality(T) = 0 => T = {}
    BY <1>1, FS_EmptySet
  <2>2. \A T \in SUBSET R : Cardinality(T) = 0 => Good(T)
    BY <1>4, <2>1
  <2> HIDE DEF Good
  <2>3. QED  BY <2>2
<1>6. ASSUME NEW k \in Nat, k \in P
      PROVE  k + 1 \in P
  <2> HIDE DEF Good
  <2>1. SUFFICES ASSUME NEW T \in SUBSET R, Cardinality(T) = k + 1
                 PROVE  Good(T)
    OBVIOUS
  <2>2. T # {} /\ IsFiniteSet(T)
    <3>1. Cardinality({}) = 0
      BY FS_EmptySet
    <3>2. k + 1 # 0
      OBVIOUS
    <3>3. QED  BY <1>1, <2>1, <3>1, <3>2
  <2>3. PICK r \in T : fold[T] = add(fold[T \ {r}], r, n)
    BY <1>3, <2>2
  <2> DEFINE S == T \ {r}
  <2>5. Cardinality(S) = k /\ S \in SUBSET R
    <3>1. Cardinality(S) = Cardinality(T) - 1
      BY <2>2, FS_RemoveElement
    <3>2. QED  BY <2>1, <3>1
  <2>6. Good(S) /\ fold[S] \in Buffers(U)
    <3> HIDE DEF S
    <3>1. QED  BY <1>3, <1>6, <2>5
  <2>7. A \union S \in SUBSET U /\ r \in U \ (A \union S) /\ (A \union S) \union {r} = A \union T
    <3>1. r \in T /\ T \subseteq R /\ R \subseteq U \ A /\ A \subseteq U
      BY <2>1
    <3>2. r \in U /\ r \notin A /\ r \notin S
      BY <3>1
    <3>3. A \union S \in SUBSET U
      BY <3>1
    <3>4. (A \union S) \union {r} = A \union T
      BY <3>1
    <3>5. QED  BY <3>2, <3>3, <3>4
  <2> DEFINE B == A \union S
             c == fold[S]
  <2>8. c \in Buffers(U) /\ Holds(c, B, n, missed) /\ B \in SUBSET U /\ r \in U \ B
    BY <2>6, <2>7 DEF Good
  <2> HIDE DEF B, c
  <2>9. Holds(add(c, r, n), B \union {r}, n, missed)
    BY <2>8, HoldsMore
  <2>10. QED  BY <2>3, <2>7, <2>9 DEF B, c, Good
<1> HIDE DEF P, Good
<1>7. Cardinality(R) \in P
  BY <1>1, <1>5, <1>6, Numbers
<1>8. Good(R)
  BY <1>7 DEF P
<1>9. QED  BY <1>3, <1>8 DEF Good
-----------------------------------------------------------------------------
(* The slices of the rows.                                                  *)

\* Finitely many rows, each with a number of its own.
Numbered(S) ==
    /\ IsFiniteSet(S)
    /\ \A r \in S : /\ {"id", "device", "start", "end"} \subseteq DOMAIN r
                    /\ r.id \in Int /\ r.device \in Int /\ r.start \in Int /\ r.end \in Int
                    /\ r.start < r.end
    /\ \A r, x \in S : r.id = x.id => r = x

\* The bars of a desktop row of a browser, and those of all rows.
Bars(all, r) == slicesOf(r, clearRuns(all, r, r))
Coverable(all) == {r \in all : desktopCoverageKey(r) # {}}
AllBars(all) == UNION {Bars(all, r) : r \in Coverable(all)}
Whole(all) == {r \in all : desktopCoverageKey(r) = {}}
Full(all) == AllBars(all) \union Whole(all)

\* They are the timeline without limits.
LEMMA FullBars ==
    ASSUME NEW all
    PROVE  fullTimeline(all) = Full(all)
<1>1. \A y : y \in fullTimeline(all) <=> \/ y \in Whole(all)
                                       \/ \E r \in Coverable(all) : y \in Bars(all, r)
  <2> DEFINE K == {x \in all : desktopCoverageKey(x) # {}}
             U == UNION {slicesOf(r, clearRuns(all, r, r)) : r \in K}
             W == {r \in all : desktopCoverageKey(r) = {}}
  <2>1. fullTimeline(all) = U \union W
    BY DEF fullTimeline
  <2>2. K = Coverable(all) /\ W = Whole(all)
    BY DEF Coverable, Whole
  <2> HIDE DEF K, W
  <2>3. \A y : y \in U <=> \E r \in K : y \in Bars(all, r)
    BY DEF Bars
  <2> HIDE DEF U
  <2>4. QED  BY <2>1, <2>2, <2>3
<1>2. \A y : y \in Full(all) <=> \/ y \in Whole(all)
                               \/ \E r \in Coverable(all) : y \in Bars(all, r)
  BY DEF Full, AllBars
<1> DEFINE A == fullTimeline(all)
           B == Full(all)
<1>3. \A y : y \in A <=> y \in B
  BY <1>1, <1>2
<1> HIDE DEF A, B
<1>4. A = B
  BY <1>3
<1>5. QED  BY <1>4 DEF A, B

\* A run is known by its start, and there are finitely many.
LEMMA RunStarts ==
    ASSUME NEW clear \in SUBSET Int, IsFiniteSet(clear)
    PROVE  /\ IsFiniteSet(Runs(clear))
           /\ \A x, y \in Runs(clear) : x.start = y.start => x = y
           /\ \A x \in Runs(clear) : x.start \in Int /\ x.end \in Int /\ x.end - x.start >= Second
<1>1. \A x \in Runs(clear) : \E a, b \in clear :
         /\ x = [start |-> a, end |-> b + 1] /\ b + 1 - a >= Second /\ a..b \subseteq clear
         /\ a - 1 \notin clear /\ b + 1 \notin clear
  BY RunFacts
<1>2. ASSUME NEW x \in Runs(clear), NEW y \in Runs(clear), x.start = y.start
      PROVE  x = y
  <2>1. PICK a \in clear, b \in clear : /\ x = [start |-> a, end |-> b + 1] /\ b + 1 - a >= Second
                                        /\ a..b \subseteq clear /\ b + 1 \notin clear
    BY <1>1
  <2>2. PICK c \in clear, d \in clear : /\ y = [start |-> c, end |-> d + 1] /\ d + 1 - c >= Second
                                        /\ c..d \subseteq clear /\ d + 1 \notin clear
    BY <1>1
  <2>3. a = c /\ a \in Int /\ b \in Int /\ d \in Int /\ Second \in Int /\ Second > 0
    BY <1>2, <2>1, <2>2, DedupAssumption
  <2>4. ~(b < d)
    <3>1. b < d => b + 1 \in c..d
      BY <2>1, <2>3
    <3>2. QED  BY <2>1, <2>2, <3>1
  <2>5. ~(d < b)
    <3>1. d < b => d + 1 \in a..b
      BY <2>2, <2>3
    <3>2. QED  BY <2>1, <2>2, <3>1
  <2>6. b = d
    BY <2>3, <2>4, <2>5
  <2>7. QED  BY <2>1, <2>2, <2>3, <2>6
<1>3. \A x \in Runs(clear) : x.start \in clear /\ x.start \in Int /\ x.end \in Int /\ x.end - x.start >= Second
  <2>1. TAKE x \in Runs(clear)
  <2>2. PICK a \in clear, b \in clear : x = [start |-> a, end |-> b + 1] /\ b + 1 - a >= Second
    BY <1>1
  <2>3. a \in Int /\ b + 1 \in Int
    OBVIOUS
  <2>4. QED  BY <2>2, <2>3
<1>4. IsFiniteSet(Runs(clear))
  <2> DEFINE to == [a \in clear |-> CHOOSE x \in Runs(clear) : x.start = a]
             D == {to[a] : a \in clear}
  <2>1. \A x \in Runs(clear) : to[x.start] = x /\ x.start \in clear
    BY <1>2, <1>3
  <2> HIDE DEF to
  <2>2. IsFiniteSet(D)
    BY Images
  <2>3. Runs(clear) \subseteq D
    BY <2>1
  <2> HIDE DEF D
  <2>4. QED  BY <2>2, <2>3, FS_Subset
<1>5. QED  BY <1>2, <1>3, <1>4

\* The bars of a row.
LEMMA BarFacts ==
    ASSUME NEW all, Numbered(all), NEW r \in all, desktopCoverageKey(r) # {}
    PROVE  /\ IsFiniteSet(Bars(all, r)) /\ IsFiniteSet(clearRuns(all, r, r))
           /\ \A y \in Bars(all, r) : y.id = r.id /\ y.device = r.device /\ y.start \in Int
           /\ \A y, z \in Bars(all, r) : y.start = z.start => y = z
<1> DEFINE clear == Clear(coverageOf(all, r), r)
           R == clearRuns(all, r, r)
           to == [p \in R |-> [r EXCEPT !.start = p.start, !.end = p.end]]
<1>1. /\ {"id", "device", "start", "end"} \subseteq DOMAIN r
      /\ r.start \in Int /\ r.end \in Int
  BY DEF Numbered
<1>2. R = Runs(clear)
  <2>1. Timed(all)
    BY DEF Numbered, Timed
  <2>2. QED  BY <1>1, <2>1, RowRuns
<1>3. clear \in SUBSET Int /\ IsFiniteSet(clear)
  <2> DEFINE n == r.end - 1
             s == r.start
  <2>1. clear \subseteq s..n /\ s \in Int /\ n \in Int
    BY <1>1 DEF Clear
  <2> HIDE DEF clear, n, s
  <2>2. IsFiniteSet(s..n)
    BY <2>1, FS_Interval
  <2>3. IsFiniteSet(clear)
    BY <2>1, <2>2, FS_Subset
  <2>4. QED  BY <2>1, <2>3
<1> HIDE DEF R, clear
<1>4. /\ IsFiniteSet(R) /\ \A x, y \in R : x.start = y.start => x = y
      /\ \A x \in R : x.start \in Int /\ x.end \in Int /\ x.end - x.start >= Second
  BY <1>2, <1>3, RunStarts
<1>5. Bars(all, r) = {to[p] : p \in R}
  <2>1. {q \in R : q.end - q.start >= Second} = R
    BY <1>4
  <2>2. slicesOf(r, R) = {[r EXCEPT !.start = p.start, !.end = p.end] : p \in R}
    BY <2>1 DEF slicesOf
  <2>3. QED  BY <2>2 DEF Bars, R
<1>6. \A p \in R : /\ to[p].id = r.id /\ to[p].device = r.device
                   /\ to[p].start = p.start /\ to[p].end = p.end
  <2>1. TAKE p \in R
  <2> DEFINE y == [r EXCEPT !.start = p.start, !.end = p.end]
  <2>2. y["id"] = r["id"] /\ y["device"] = r["device"] /\ y["start"] = p.start /\ y["end"] = p.end
    BY <1>1
  <2>3. to[p] = y
    OBVIOUS
  <2> HIDE DEF y, to
  <2>4. QED  BY <2>2, <2>3
<1> HIDE DEF to
<1>7. IsFiniteSet({to[p] : p \in R})
  BY <1>4, Images
<1>8. QED  BY <1>4, <1>5, <1>6, <1>7 DEF R

\* No two bars are at the same place in the order.
LEMMA FullRanked ==
    ASSUME NEW all, Numbered(all)
    PROVE  Ranked(Full(all))
<1> DEFINE K == Coverable(all)
           W == Whole(all)
           A == AllBars(all)
           F == Full(all)
<1>1. \A r \in K : r \in all /\ desktopCoverageKey(r) # {}
  BY DEF Coverable
<1>a. F = A \union W /\ W \subseteq all
  BY DEF Full, Whole
<1>b. \A y : y \in A <=> \E r \in K : y \in Bars(all, r)
  BY DEF AllBars
<1>2. IsFiniteSet(F)
  <2> DEFINE bars == [r \in K |-> Bars(all, r)]
             P == {T \in SUBSET K : IsFiniteSet(UNION {bars[r] : r \in T})}
  <2>1. \A r \in K : IsFiniteSet(bars[r])
    BY <1>1, BarFacts
  <2>2. \A r \in K : bars[r] = Bars(all, r)
    OBVIOUS
  <2> HIDE DEF bars
  <2>3. {} \in P
    <3>1. UNION {bars[r] : r \in {}} = {}
      OBVIOUS
    <3>2. QED  BY <3>1, FS_EmptySet
  <2>4. ASSUME NEW T \in SUBSET K, NEW x \in K \ T, T \in P
        PROVE  T \union {x} \in P
    <3> DEFINE B == UNION {bars[r] : r \in T}
               C == bars[x]
    <3>1. IsFiniteSet(B) /\ IsFiniteSet(C)
      BY <2>1, <2>4
    <3>2. UNION {bars[r] : r \in T \union {x}} = B \union C
      OBVIOUS
    <3> HIDE DEF B, C
    <3>3. IsFiniteSet(B \union C)
      BY <3>1, FS_Union
    <3>4. QED  BY <3>2, <3>3
  <2>5. IsFiniteSet(K) /\ IsFiniteSet(W)
    BY FS_Subset DEF Numbered, Coverable, Whole
  <2> HIDE DEF P, K
  <2>6. K \in P
    BY <2>3, <2>4, <2>5, FiniteSets1
  <2> DEFINE B == UNION {bars[r] : r \in K}
  <2>7. IsFiniteSet(B)
    BY <2>6 DEF P
  <2>8. A \subseteq B
    <3>1. \A y \in A : \E r \in K : y \in bars[r]
      BY <1>b, <2>2
    <3> HIDE DEF A
    <3>2. QED  BY <3>1
  <2> HIDE DEF B, A, W, F
  <2>9. IsFiniteSet(A)
    BY <2>7, <2>8, FS_Subset
  <2>10. IsFiniteSet(A \union W)
    BY <2>5, <2>9, FS_Union
  <2>11. QED  BY <1>a, <2>10
<1>3. \A y \in F : \/ y \in W
                   \/ \E r \in K : y \in Bars(all, r)
  <2> HIDE DEF F, A, W, K
  <2>1. QED  BY <1>a, <1>b
<1>4. \A y \in W : y \in all /\ y.id \in Int /\ y.device \in Int /\ y.start \in Int
  BY DEF Numbered, Whole
<1>5. \A r \in K : \A y \in Bars(all, r) : /\ y.id = r.id /\ y.device = r.device /\ y.start \in Int
                                           /\ r.id \in Int /\ r.device \in Int
  BY <1>1, BarFacts DEF Numbered
<1>6. \A y \in F : y.id \in Int /\ y.device \in Int /\ y.start \in Int
  <2> HIDE DEF W, F, K
  <2>1. QED  BY <1>3, <1>4, <1>5
<1>7. \A r, x \in all : r.id = x.id => r = x
  BY DEF Numbered
<1>8. ASSUME NEW y \in F, NEW z \in F, y.id = z.id, y.start = z.start
      PROVE  y = z
  <2>1. \A r \in W : r \notin K
    BY DEF Coverable, Whole
  <2>a. \A r \in K : \A a, b \in Bars(all, r) : a.start = b.start => a = b
    BY <1>1, BarFacts
  <2> HIDE DEF W, F, K
  <2>2. CASE y \in W /\ z \in W
    BY <1>4, <1>7, <1>8, <2>2
  <2>3. ASSUME NEW r \in K, y \in Bars(all, r), z \in W
        PROVE  FALSE
    <3>1. r.id = z.id /\ r \in all /\ z \in all
      BY <1>1, <1>4, <1>5, <1>8, <2>3
    <3>2. QED  BY <1>7, <2>1, <2>3, <3>1
  <2>4. ASSUME NEW r \in K, z \in Bars(all, r), y \in W
        PROVE  FALSE
    <3>1. r.id = y.id /\ r \in all /\ y \in all
      BY <1>1, <1>4, <1>5, <1>8, <2>4
    <3>2. QED  BY <1>7, <2>1, <2>4, <3>1
  <2>5. ASSUME NEW r \in K, NEW x \in K, y \in Bars(all, r), z \in Bars(all, x)
        PROVE  y = z
    <3>1. r.id = x.id
      BY <1>5, <1>8, <2>5
    <3>2. r = x
      BY <1>1, <1>7, <3>1
    <3>3. QED  BY <1>8, <2>5, <2>a, <3>2
  <2>6. QED  BY <1>3, <2>2, <2>3, <2>4, <2>5
<1> HIDE DEF F
<1>9. \A x, y, z \in F : Before(x, y) /\ Before(y, z) => Before(x, z)
  BY <1>6 DEF Before
<1>10. \A x \in F : ~Before(x, x)
  BY <1>6 DEF Before
<1>11. \A x, y \in F : x = y \/ Before(x, y) \/ Before(y, x)
  BY <1>6, <1>8 DEF Before
<1>12. QED  BY <1>2, <1>9, <1>10, <1>11 DEF Ranked, F

-----------------------------------------------------------------------------
(* The timeline.                                                            *)

\* The visit of a row adds some of its bars, all of them if it is complete.
LEMMA VisitBars ==
    ASSUME NEW all, Numbered(all), NEW r \in Coverable(all), NEW budget \in Nat
    PROVE  LET v == visitUncovered(r, coverageOf(all, r), budget)
           IN  /\ v.spent \in 0..budget /\ v.spent <= Cardinality(all) /\ v.complete \in BOOLEAN
               /\ budget >= Cardinality(all) => v.complete
               /\ slicesOf(r, v.pieces) \subseteq Bars(all, r)
               /\ v.complete => slicesOf(r, v.pieces) = Bars(all, r)
<1> DEFINE v == visitUncovered(r, coverageOf(all, r), budget)
           P == {p \in v.pieces : p.end - p.start >= Second}
           C == clearRuns(all, r, r)
<1>1. r \in all /\ Timed(all) /\ isValid(r) /\ desktopCoverageKey(r) # {}
  BY DEF Coverable, Numbered, Timed, isValid
<1>2. /\ v.spent \in 0..budget /\ v.spent <= Cardinality(all) /\ v.complete \in BOOLEAN
      /\ budget >= Cardinality(all) => v.complete
      /\ P \subseteq C
      /\ v.complete => P = C
  BY <1>1, RowVisit
<1> DEFINE D == {q \in C : q.end - q.start >= Second}
           cut == [p \in P \union C |-> [r EXCEPT !.start = p.start, !.end = p.end]]
<1>3. slicesOf(r, v.pieces) = {cut[p] : p \in P}
  BY DEF slicesOf
<1>4. Bars(all, r) = {cut[p] : p \in D}
  BY DEF Bars, slicesOf
<1>5. /\ \A p \in P : p.end - p.start >= Second
      /\ \A p : p \in D <=> p \in C /\ p.end - p.start >= Second
  OBVIOUS
<1>b. P \subseteq D /\ (v.complete => P = D)
  <2> HIDE DEF v, P, C, D, cut
  <2>1. P \subseteq D
    BY <1>2, <1>5
  <2>2. v.complete => P = D
    BY <1>2, <1>5
  <2>3. QED  BY <2>1, <2>2
<1> HIDE DEF v, P, C, D, cut
<1>6. slicesOf(r, v.pieces) \subseteq Bars(all, r)
  BY <1>3, <1>4, <1>b
<1>7. v.complete => slicesOf(r, v.pieces) = Bars(all, r)
  BY <1>3, <1>4, <1>b
<1>8. QED  BY <1>2, <1>6, <1>7 DEF v

\* What a row does to the timeline so far.
Visiting(x, r, all, limit, budget) ==
    IF x.stopped \/ ~isValid(r) \/ desktopCoverageKey(r) = {} THEN x
    ELSE afterVisit(x, r, visitUncovered(r, coverageOf(all, r), budget - x.work), limit)

Timelines(all, budget) == [b : Buffers(Full(all)), work : 0..budget, stopped : BOOLEAN]
NoRows == [kept |-> {}, truncated |-> FALSE]

\* What a visited row does to it.
LEMMA VisitingFacts ==
    ASSUME NEW all, Numbered(all), NEW r \in Coverable(all), NEW limit \in Nat, NEW budget \in Nat,
           NEW x \in Timelines(all, budget), ~x.stopped
    PROVE  LET v == visitUncovered(r, coverageOf(all, r), budget - x.work)
               S == slicesOf(r, v.pieces)
               y == Visiting(x, r, all, limit, budget)
           IN  /\ y \in Timelines(all, budget) /\ S \subseteq Bars(all, r)
               /\ v.complete \in BOOLEAN /\ v.spent \in Nat /\ v.spent <= Cardinality(all)
               /\ x.work + Cardinality(all) <= budget => v.complete
               /\ v.complete => S = Bars(all, r)
               /\ y.b.kept = addAll(x.b, S, limit).kept
               /\ y.b.truncated = (addAll(x.b, S, limit).truncated \/ ~v.complete)
               /\ addAll(x.b, S, limit) \in Buffers(Full(all))
               /\ y.stopped = ~v.complete /\ y.work = x.work + v.spent
<1> DEFINE v == visitUncovered(r, coverageOf(all, r), budget - x.work)
           S == slicesOf(r, v.pieces)
           y == Visiting(x, r, all, limit, budget)
           c == addAll(x.b, S, limit)
           F == Full(all)
<1>1. x.b \in Buffers(F) /\ x.work \in 0..budget
  BY DEF Timelines
<1> DEFINE left == budget - x.work
<1>a. left \in Nat
  BY <1>1
<1>2. /\ v.spent \in 0..left /\ v.complete \in BOOLEAN /\ S \subseteq Bars(all, r)
      /\ v.spent <= Cardinality(all)
      /\ left >= Cardinality(all) => v.complete
      /\ v.complete => S = Bars(all, r)
  <2> HIDE DEF left
  <2>1. LET w == visitUncovered(r, coverageOf(all, r), left)
        IN  /\ w.spent \in 0..left /\ w.complete \in BOOLEAN /\ slicesOf(r, w.pieces) \subseteq Bars(all, r)
            /\ w.spent <= Cardinality(all)
            /\ left >= Cardinality(all) => w.complete
            /\ w.complete => slicesOf(r, w.pieces) = Bars(all, r)
    BY <1>a, VisitBars
  <2>2. QED  BY <2>1 DEF left
<1>3. S \subseteq F /\ IsFiniteSet(S)
  <2>1. Bars(all, r) \subseteq F
    BY DEF Full, AllBars
  <2>2. IsFiniteSet(Bars(all, r))
    BY BarFacts DEF Coverable
  <2> HIDE DEF S, F
  <2>3. IsFiniteSet(S)
    BY <1>2, <2>2, FS_Subset
  <2>4. QED  BY <1>2, <2>1, <2>3
<1>4. c \in Buffers(F)
  <2> HIDE DEF S, F
  <2> DEFINE b == x.b
  <2>1. b \in Buffers(F)
    BY <1>1
  <2> HIDE DEF b
  <2>2. addAll(b, S, limit) \in Buffers(F)
    <3>1. PICK fold : AddsAll(fold, b, S, limit, F)
      BY <1>3, <2>1, AddAllSteps
    <3>2. S \in SUBSET S
      OBVIOUS
    <3>3. QED  BY <3>1, <3>2 DEF AddsAll
  <2>3. QED  BY <2>2 DEF b
<1>5. isValid(r) /\ desktopCoverageKey(r) # {}
  BY DEF Coverable, Numbered, isValid
<1>6. y = afterVisit(x, r, v, limit)
  BY <1>5 DEF Visiting
<1>7. afterVisit(x, r, v, limit)
        = [b |-> [c EXCEPT !.truncated = @ \/ ~v.complete], work |-> x.work + v.spent, stopped |-> ~v.complete]
  BY Zenon DEF afterVisit
<1> HIDE DEF v, S, y, c, F
<1>8. /\ y.b = [c EXCEPT !.truncated = @ \/ ~v.complete] /\ y.work = x.work + v.spent
      /\ y.stopped = ~v.complete
      /\ y = [b |-> y.b, work |-> y.work, stopped |-> y.stopped]
  BY <1>6, <1>7
<1>9. /\ y.b.kept = c.kept /\ y.b.truncated = (c.truncated \/ ~v.complete) /\ y.b \in Buffers(F)
  BY <1>4, <1>8 DEF Buffers
<1>10. y.work \in 0..budget /\ y.stopped \in BOOLEAN
  BY <1>1, <1>2, <1>8 DEF left
<1>11. y \in Timelines(all, budget)
  BY <1>8, <1>9, <1>10 DEF Timelines, F
<1>12. /\ v.spent \in Nat /\ v.spent <= Cardinality(all)
       /\ x.work + Cardinality(all) <= budget => v.complete
  <2>1. v.spent \in Nat
    BY <1>2, <1>a
  <2>2. Cardinality(all) \in Nat
    BY FS_CardinalityType DEF Numbered
  <2>3. x.work + Cardinality(all) <= budget => left >= Cardinality(all)
    BY <1>1, <2>2 DEF left
  <2>4. QED  BY <1>2, <2>1, <2>3
<1>13. QED  BY <1>2, <1>4, <1>8, <1>9, <1>11, <1>12 DEF v, S, y, c, F

\* h is the timeline after each of the n rows.
Plays(h, rows, n, limit, budget) ==
    /\ h[0] = [b |-> addAll(NoRows, Whole(Range(rows)), limit), work |-> 0, stopped |-> FALSE]
    /\ timeline(rows, limit, budget) = sortedRecords(h[n].b)
    /\ \A k \in 1..n : h[k] = Visiting(h[k - 1], rows[k], Range(rows), limit, budget)

\* The timeline starts with the rows that nothing covers.
LEMMA FirstRows ==
    ASSUME NEW all, Numbered(all), NEW limit \in Nat
    PROVE  /\ addAll(NoRows, Whole(all), limit) \in Buffers(Full(all))
           /\ Holds(addAll(NoRows, Whole(all), limit), Whole(all), limit, FALSE)
<1> DEFINE F == Full(all)
           W == Whole(all)
           b == NoRows
<1>1. W \in SUBSET F /\ IsFiniteSet(W)
  BY FS_Subset DEF Numbered, Whole, Full
<1>2. b \in Buffers(F)
  BY DEF NoRows, Buffers
<1>3. Ranked(F)
  BY FullRanked
<1>4. Holds(b, {}, limit, FALSE)
  <2>1. Cardinality({}) = 0
    BY FS_EmptySet
  <2>2. b.kept = {} /\ b.truncated = FALSE
    BY DEF NoRows
  <2> HIDE DEF b
  <2>3. Earliest(b.kept, {}, limit)
    BY <2>1, <2>2 DEF Earliest
  <2>4. ~(Cardinality({}) > limit)
    BY <2>1
  <2>5. QED  BY <2>2, <2>3, <2>4 DEF Holds
<1> DEFINE E == {}
<1>5. E \in SUBSET F /\ W \in SUBSET (F \ E) /\ E \union W = W /\ Holds(b, E, limit, FALSE)
  BY <1>1, <1>4
<1> HIDE DEF F, W, b, E
<1>6. Holds(addAll(b, W, limit), E \union W, limit, FALSE)
  BY <1>2, <1>3, <1>5, HoldsAll
<1>7. addAll(b, W, limit) \in Buffers(F)
  <2>1. PICK fold : AddsAll(fold, b, W, limit, F)
    BY <1>1, <1>2, AddAllSteps
  <2>2. W \in SUBSET W
    OBVIOUS
  <2>3. QED  BY <2>1, <2>2 DEF AddsAll
<1>8. QED  BY <1>5, <1>6, <1>7 DEF F, W, b

\* The rows are visited one by one.
LEMMA TimelineSteps ==
    ASSUME NEW rows, NEW n \in Nat, DOMAIN rows = 1..n, Numbered(Range(rows)),
           NEW limit \in Nat, NEW budget \in Nat
    PROVE  \E h : Plays(h, rows, n, limit, budget)
<1> DEFINE all == Range(rows)
           V == Timelines(all, budget)
           D == DOMAIN rows
           start == [b |-> addAll(NoRows, Whole(all), limit), work |-> 0, stopped |-> FALSE]
           Step(it) == [T \in SUBSET D |->
                          IF T = {} THEN start
                          ELSE Visiting(it[T \ {Max(T)}], rows[Max(T)], all, limit, budget)]
           fold == CHOOSE it : it = Step(it)
<1>1. /\ \A r \in all : isValid(r)
      /\ Whole(all) = {r \in all : isValid(r) /\ desktopCoverageKey(r) = {}}
  BY DEF Numbered, isValid, Whole
<1>2. timeline(rows, limit, budget)
        = LET whole == {r \in all : isValid(r) /\ desktopCoverageKey(r) = {}}
              visit(x, r) == Visiting(x, r, all, limit, budget)
          IN  sortedRecords(FoldLeft(visit, [b |-> addAll(NoRows, whole, limit), work |-> 0, stopped |-> FALSE], rows).b)
  BY Zenon DEF timeline, Visiting, NoRows
<1>a. timeline(rows, limit, budget)
        = LET visit(x, r) == Visiting(x, r, all, limit, budget)
          IN  sortedRecords(FoldLeft(visit, start, rows).b)
  BY Zenon, <1>1, <1>2
<1> HIDE DEF start, all
<1>3. timeline(rows, limit, budget) = sortedRecords(fold[D].b)
  BY Zenon, <1>a DEF FoldLeft, MapThenFoldSet
<1>4. fold = Step(fold)
  <2> DEFINE F == [i \in D |-> [c \in V |-> Visiting(c, rows[i], all, limit, budget)]]
             pick == [T \in SUBSET D |-> Max(T)]
  <2>1. IsFiniteSet(D)
    <3>1. 1 \in Int /\ n \in Int
      OBVIOUS
    <3>2. IsFiniteSet(1..n)
      BY <3>1, FS_Interval
    <3>3. QED  BY <3>2
  <2>2. \A T \in SUBSET D : T # {} => pick[T] \in T
    <3>1. SUFFICES ASSUME NEW T \in SUBSET D, T # {}
                   PROVE  Max(T) \in T
      OBVIOUS
    <3>2. T \in SUBSET Int
      OBVIOUS
    <3>a. IsFiniteSet(T)
      BY <2>1, FS_Subset
    <3>3. QED  BY <3>1, <3>2, <3>a, FiniteExtremes
  <2>3. ASSUME NEW i \in D, NEW c \in V
        PROVE  Visiting(c, rows[i], all, limit, budget) \in V
    <3> DEFINE r == rows[i]
    <3>1. r \in all
      BY DEF all, Range
    <3> HIDE DEF r
    <3>2. CASE r \in Coverable(all) /\ ~c.stopped
      <4>1. Numbered(all)
        BY DEF all
      <4>2. Visiting(c, r, all, limit, budget) \in Timelines(all, budget)
        BY <3>2, <4>1, VisitingFacts
      <4>3. QED  BY <4>2 DEF r
    <3>3. CASE ~(r \in Coverable(all) /\ ~c.stopped)
      <4>1. Visiting(c, r, all, limit, budget) = c
        BY <3>1, <3>3 DEF Visiting, Coverable
      <4>2. QED  BY <4>1 DEF r
    <3>4. QED  BY <3>2, <3>3
  <2>4. \A i \in D : \A c \in V : F[i][c] \in V
    BY <2>3
  <2>5. start \in V
    <3>1. addAll(NoRows, Whole(all), limit) \in Buffers(Full(all))
      BY FirstRows DEF all
    <3>2. QED  BY <3>1 DEF start, Timelines
  <2>6. \A i \in D : \A c \in V : F[i][c] = Visiting(c, rows[i], all, limit, budget)
    OBVIOUS
  <2>7. \A T \in SUBSET D : pick[T] = Max(T)
    OBVIOUS
  <2> HIDE DEF F, pick, V
  <2>8. PICK it : IsFold(it, D, V, start, pick, F)
    BY <2>1, <2>2, <2>4, <2>5, FoldExists
  <2>9. \A T \in SUBSET D : T # {} =>
            F[pick[T]][it[T \ {pick[T]}]] = Visiting(it[T \ {Max(T)}], rows[Max(T)], all, limit, budget)
    <3>1. TAKE T \in SUBSET D
    <3>2. HAVE T # {}
    <3>3. pick[T] = Max(T) /\ Max(T) \in D /\ T \ {Max(T)} \in SUBSET D
      BY <2>2, <2>7, <3>2
    <3>4. QED  BY <2>6, <2>8, <3>3 DEF IsFold
  <2>10. it = Step(it)
    BY <2>8, <2>9 DEF IsFold
  <2> HIDE DEF Step
  <2>11. QED  BY <2>10
<1> DEFINE h == [k \in 0..n |-> fold[1..k]]
<1> HIDE DEF fold
<1>5. h[0] = start /\ h[n] = fold[D]
  <2>1. 1..0 = {} /\ {} \in SUBSET D
    OBVIOUS
  <2>2. fold[{}] = start
    BY <1>4, <2>1
  <2>3. QED  BY <2>1, <2>2
<1>6. ASSUME NEW k \in 1..n
      PROVE  h[k] = Visiting(h[k - 1], rows[k], all, limit, budget)
  <2>1. k \in Nat /\ k > 0 /\ k \in 0..n /\ k - 1 \in 0..n /\ 1..k \in SUBSET D
    OBVIOUS
  <2>2. 1..k # {} /\ Max(1..k) = k /\ (1..k) \ {k} = 1..(k - 1)
    BY <2>1, UpTo
  <2>3. fold[1..k] = Visiting(fold[1..(k - 1)], rows[k], all, limit, budget)
    BY <1>4, <2>1, <2>2
  <2>4. QED  BY <2>1, <2>3
<1> HIDE DEF h
<1>7. Plays(h, rows, n, limit, budget)
  BY <1>3, <1>5, <1>6 DEF Plays, all, start
<1>8. QED  BY <1>7

\* The bars of the first k rows, as far as A has them.
SomeOf(A, rows, k) ==
    \A y \in A : \/ y \in Whole(Range(rows))
                \/ \E i \in 1..k : rows[i] \in Coverable(Range(rows)) /\ y \in Bars(Range(rows), rows[i])
AllOf(A, rows, k) ==
    /\ Whole(Range(rows)) \subseteq A
    /\ \A i \in 1..k : rows[i] \in Coverable(Range(rows)) => Bars(Range(rows), rows[i]) \subseteq A

\* x is the timeline after k rows: it holds the earliest of the bars A.
Reached(x, A, rows, k, limit, budget) ==
    /\ x \in Timelines(Range(rows), budget)
    /\ A \subseteq Full(Range(rows)) /\ SomeOf(A, rows, k)
    /\ ~x.stopped => AllOf(A, rows, k)
    /\ Holds(x.b, A, limit, x.stopped)

\* The bars of a row are none of those before.
LEMMA BarsApart ==
    ASSUME NEW rows, NEW n \in Nat, DOMAIN rows = 1..n, Numbered(Range(rows)),
           \A i, j \in 1..n : rows[i] = rows[j] => i = j,
           NEW k \in 0..(n - 1), rows[k + 1] \in Coverable(Range(rows)), NEW A, SomeOf(A, rows, k)
    PROVE  \A y \in Bars(Range(rows), rows[k + 1]) : y \notin A
<1> DEFINE all == Range(rows)
           r == rows[k + 1]
<1>1. k \in Nat /\ k + 1 \in 1..n /\ \A i \in 1..k : i \in 1..n /\ i # k + 1
  OBVIOUS
<1>2. \A i \in 1..n : rows[i] \in all
  BY DEF Range
<1>3. r \in all /\ desktopCoverageKey(r) # {}
  BY <1>1, <1>2 DEF Coverable
<1>4. \A x, z \in all : x.id = z.id => x = z
  BY DEF Numbered
<1>5. \A i \in 1..k : rows[i] # r /\ rows[i] \in all
  BY <1>1, <1>2
<1>6. \A x \in Coverable(all) : x \in all /\ \A y \in Bars(all, x) : y.id = x.id
  BY BarFacts DEF Coverable
<1>7. \A x \in Whole(all) : x \in all /\ x # r
  BY <1>3 DEF Whole
<1>8. r \in Coverable(all)
  OBVIOUS
<1>9. \A y \in A : \/ y \in Whole(all)
                  \/ \E i \in 1..k : rows[i] \in Coverable(all) /\ y \in Bars(all, rows[i])
  BY DEF SomeOf
<1> HIDE DEF all, r
<1>10. ASSUME NEW y \in Bars(all, r), y \in A
       PROVE  FALSE
  <2>1. y.id = r.id
    BY <1>6, <1>8, <1>10
  <2>2. CASE y \in Whole(all)
    BY <1>3, <1>4, <1>7, <2>1, <2>2
  <2>3. ASSUME NEW i \in 1..k, rows[i] \in Coverable(all), y \in Bars(all, rows[i])
        PROVE  FALSE
    <3> DEFINE x == rows[i]
    <3>1. x \in all /\ x # r /\ y.id = x.id
      BY <1>5, <1>6, <2>3
    <3> HIDE DEF x
    <3>2. QED  BY <1>3, <1>4, <2>1, <3>1
  <2>4. QED  BY <1>9, <1>10, <2>2, <2>3
<1>11. QED  BY <1>10 DEF all, r

\* One row more.
LEMMA ReachedMore ==
    ASSUME NEW rows, NEW n \in Nat, DOMAIN rows = 1..n, Numbered(Range(rows)),
           \A i, j \in 1..n : rows[i] = rows[j] => i = j,
           NEW limit \in Nat, NEW budget \in Nat,
           NEW k \in 0..(n - 1), NEW x, NEW A, Reached(x, A, rows, k, limit, budget)
    PROVE  LET y == Visiting(x, rows[k + 1], Range(rows), limit, budget)
           IN  /\ \E B : Reached(y, B, rows, k + 1, limit, budget)
               /\ y.work <= x.work + Cardinality(Range(rows))
               /\ x.work + Cardinality(Range(rows)) <= budget => (y.stopped => x.stopped)
<1> DEFINE all == Range(rows)
           r == rows[k + 1]
           y == Visiting(x, r, all, limit, budget)
           c == Cardinality(all)
<1>1. k \in Nat /\ k + 1 \in 1..n /\ \A i \in 1..(k + 1) : i \in 1..k \/ i = k + 1
  OBVIOUS
<1>2. c \in Nat /\ r \in all /\ Numbered(all)
  <2>1. c \in Nat
    BY FS_CardinalityType DEF Numbered
  <2>2. QED  BY <1>1, <2>1 DEF Range
<1>3. /\ x \in Timelines(all, budget) /\ A \subseteq Full(all) /\ SomeOf(A, rows, k)
      /\ ~x.stopped => AllOf(A, rows, k)
      /\ Holds(x.b, A, limit, x.stopped)
      /\ x.work \in Nat /\ x.stopped \in BOOLEAN
  BY DEF Reached, Timelines
<1>4. CASE ~(r \in Coverable(all) /\ ~x.stopped)
  <2>1. y = x
    BY <1>2, <1>4 DEF Visiting, Coverable
  <2>2. SomeOf(A, rows, k + 1)
    <3>1. \A i \in 1..k : i \in 1..(k + 1)
      BY <1>1
    <3>2. QED  BY <1>3, <3>1 DEF SomeOf
  <2>3. ~x.stopped => AllOf(A, rows, k + 1)
    BY <1>1, <1>3, <1>4 DEF AllOf
  <2>4. Reached(y, A, rows, k + 1, limit, budget)
    BY <1>3, <2>1, <2>2, <2>3 DEF Reached
  <2> HIDE DEF y, c
  <2>5. y.work <= x.work + c /\ (y.stopped => x.stopped)
    BY <1>2, <1>3, <2>1
  <2>6. QED  BY <2>4, <2>5 DEF y, c
<1>5. CASE r \in Coverable(all) /\ ~x.stopped
  <2> DEFINE v == visitUncovered(r, coverageOf(all, r), budget - x.work)
             S == slicesOf(r, v.pieces)
             B == A \union S
             F == Full(all)
             b == x.b
             d == addAll(b, S, limit)
  <2>1. /\ y \in Timelines(all, budget) /\ S \subseteq Bars(all, r)
        /\ v.complete \in BOOLEAN /\ v.spent \in Nat /\ v.spent <= c
        /\ x.work + c <= budget => v.complete
        /\ v.complete => S = Bars(all, r)
        /\ y.b.kept = d.kept
        /\ y.b.truncated = (d.truncated \/ ~v.complete)
        /\ y.stopped = ~v.complete /\ y.work = x.work + v.spent
    <3> HIDE DEF all, r
    <3>1. r \in Coverable(all) /\ ~x.stopped /\ x \in Timelines(all, budget) /\ Numbered(all)
      BY <1>2, <1>3, <1>5
    <3>2. QED  BY <3>1, VisitingFacts
  <2>2. \A z \in S : z \notin A
    <3>1. \A z \in Bars(all, r) : z \notin A
      BY <1>3, <1>5, BarsApart
    <3> HIDE DEF S
    <3>2. QED  BY <2>1, <3>1
  <2>3. Bars(all, r) \subseteq F
    BY <1>5 DEF Full, AllBars
  <2>4. b \in Buffers(F) /\ Holds(b, A, limit, FALSE) /\ A \in SUBSET F
    <3>1. x.stopped = FALSE
      BY <1>3, <1>5
    <3>2. QED  BY <1>3, <3>1 DEF Timelines
  <2>5. Ranked(F)
    BY <1>2, FullRanked
  <2>6. ~x.stopped /\ AllOf(A, rows, k)
    BY <1>3, <1>5
  <2> HIDE DEF y, v, S, F, b, d, c
  <2>7. S \in SUBSET (F \ A)
    BY <2>1, <2>2, <2>3
  <2>8. Holds(d, B, limit, FALSE)
    BY <2>4, <2>5, <2>7, HoldsAll DEF d
  <2>9. Holds(y.b, B, limit, y.stopped)
    <3>1. d.truncated <=> Cardinality(B) > limit
      BY <2>8 DEF Holds
    <3>2. y.b.truncated <=> y.stopped \/ Cardinality(B) > limit
      BY Zenon, <2>1, <3>1
    <3>3. Earliest(y.b.kept, B, limit)
      BY <2>1, <2>8 DEF Holds
    <3>4. QED  BY <3>2, <3>3 DEF Holds
  <2>10. B \subseteq F
    BY <2>4, <2>7
  <2>11. SomeOf(B, rows, k + 1)
    <3>1. \A i \in 1..k : i \in 1..(k + 1)
      BY <1>1
    <3>2. k + 1 \in 1..(k + 1)
      BY <1>1
    <3>3. \A z \in S : rows[k + 1] \in Coverable(all) /\ z \in Bars(all, rows[k + 1])
      BY <1>5, <2>1
    <3>4. QED  BY <1>3, <3>1, <3>2, <3>3 DEF SomeOf
  <2>12. ~y.stopped => AllOf(B, rows, k + 1)
    <3>1. ~y.stopped => S = Bars(all, r)
      BY <2>1
    <3>2. Whole(all) \subseteq B
      BY <2>6 DEF AllOf
    <3>3. \A i \in 1..k : rows[i] \in Coverable(all) => Bars(all, rows[i]) \subseteq B
      BY <2>6 DEF AllOf
    <3>4. ~y.stopped => Bars(all, r) \subseteq B
      BY <3>1
    <3> HIDE DEF B
    <3>5. QED  BY <1>1, <3>2, <3>3, <3>4 DEF AllOf
  <2>13. Reached(y, B, rows, k + 1, limit, budget)
    <3> HIDE DEF B
    <3>1. QED  BY <2>1, <2>9, <2>10, <2>11, <2>12 DEF Reached, F
  <2>14. y.work <= x.work + c /\ (x.work + c <= budget => ~y.stopped)
    <3>1. x.work \in Nat /\ v.spent \in Nat /\ v.spent <= c /\ y.work = x.work + v.spent
      BY <1>3, <2>1
    <3>2. y.work <= x.work + c
      BY <1>2, <3>1
    <3>3. x.work + c <= budget => ~y.stopped
      BY Zenon, <2>1
    <3>4. QED  BY <3>2, <3>3
  <2>15. QED  BY <2>13, <2>14 DEF y, c
<1>6. QED  BY <1>4, <1>5

\* A sum of k terms up to c, and one more, is within n * c.
LEMMA OneMore ==
    ASSUME NEW k \in Nat, NEW n \in Nat, k + 1 <= n, NEW c \in Nat
    PROVE  k * c + c <= n * c /\ (k + 1) * c = k * c + c /\ k * c \in Nat
<1>1. PICK d \in Nat : n = k + 1 + d
  <2>1. n - (k + 1) \in Nat /\ n = k + 1 + (n - (k + 1))
    OBVIOUS
  <2>2. QED  BY <2>1
<1>2. n * c = k * c + c + d * c /\ d * c \in Nat /\ k * c \in Nat
  BY <1>1
<1>3. (k + 1) * c = k * c + c
  OBVIOUS
<1>4. QED  BY <1>2, <1>3

\* What the timeline keeps: bars of the rows, the first ones and at most
\* limit, all of them if it does not say that it is truncated; and with enough
\* of a budget exactly the first, and it says so just if there are more.
LEMMA TimelineFacts ==
    ASSUME NEW rows, NEW n \in Nat, DOMAIN rows = 1..n, Numbered(Range(rows)),
           \A i, j \in 1..n : rows[i] = rows[j] => i = j,
           NEW limit \in Nat, NEW budget \in Nat
    PROVE  LET F == fullTimeline(Range(rows))
               t == timeline(rows, limit, budget)
           IN  /\ t = [records |-> t.records, truncated |-> t.truncated] /\ t.truncated \in BOOLEAN
               /\ Range(t.records) \subseteq F /\ Len(t.records) <= limit
               /\ ~t.truncated => Range(t.records) = F
               /\ n * Cardinality(Range(rows)) <= budget =>
                    /\ Range(t.records) = firstOf(F, limit)
                    /\ t.truncated <=> firstOf(F, limit) # F
<1> DEFINE all == Range(rows)
           F == Full(all)
           c == Cardinality(all)
           start == [b |-> addAll(NoRows, Whole(all), limit), work |-> 0, stopped |-> FALSE]
<1>1. PICK h : Plays(h, rows, n, limit, budget)
  BY TimelineSteps
<1>2. /\ h[0] = start /\ timeline(rows, limit, budget) = sortedRecords(h[n].b)
      /\ \A k \in 1..n : h[k] = Visiting(h[k - 1], rows[k], all, limit, budget)
  BY <1>1 DEF Plays
<1>3. c \in Nat /\ IsFiniteSet(all)
  BY FS_CardinalityType DEF Numbered
<1> DEFINE Good(k) == /\ \E A : Reached(h[k], A, rows, k, limit, budget)
                      /\ h[k].work <= k * c
                      /\ n * c <= budget => ~h[k].stopped
           P == {k \in Nat : k <= n => Good(k)}
<1>4. 0 \in P
  <2> DEFINE b == addAll(NoRows, Whole(all), limit)
             W == Whole(all)
  <2>1. b \in Buffers(F) /\ Holds(b, W, limit, FALSE)
    BY FirstRows
  <2>2. W \subseteq F /\ SomeOf(W, rows, 0) /\ AllOf(W, rows, 0)
    BY DEF Full, SomeOf, AllOf
  <2>3. start.b = b /\ start.work = 0 /\ start.stopped = FALSE /\ start = [b |-> b, work |-> 0, stopped |-> FALSE]
    OBVIOUS
  <2> HIDE DEF b, W, F, start
  <2>4. start \in Timelines(all, budget)
    BY <2>1, <2>3 DEF Timelines, F
  <2>5. Reached(start, W, rows, 0, limit, budget)
    BY <2>1, <2>2, <2>3, <2>4 DEF Reached, F
  <2>6. start.work <= 0 * c /\ ~start.stopped
    BY <1>3, <2>3
  <2>7. Good(0)
    BY <1>2, <2>5, <2>6
  <2> HIDE DEF Good
  <2>8. QED  BY <2>7
<1>5. ASSUME NEW k \in Nat, k \in P
      PROVE  k + 1 \in P
  <2> HIDE DEF Good
  <2>1. SUFFICES ASSUME k + 1 <= n
                 PROVE  Good(k + 1)
    OBVIOUS
  <2>2. Good(k) /\ k \in 0..(n - 1) /\ k + 1 \in 1..n
    BY <1>5, <2>1
  <2> DEFINE x == h[k]
             y == h[k + 1]
  <2>3. PICK A : Reached(x, A, rows, k, limit, budget)
    BY <2>2 DEF Good
  <2>4. y = Visiting(x, rows[k + 1], all, limit, budget)
    BY <1>2, <2>2
  <2>5. x.work <= k * c /\ (n * c <= budget => ~x.stopped) /\ x.work \in Nat
    BY <2>2, <2>3 DEF Good, Reached, Timelines
  <2> HIDE DEF x, y, c, all
  <2>6. LET z == Visiting(x, rows[k + 1], Range(rows), limit, budget)
        IN  /\ \E B : Reached(z, B, rows, k + 1, limit, budget)
            /\ z.work <= x.work + Cardinality(Range(rows))
            /\ x.work + Cardinality(Range(rows)) <= budget => (z.stopped => x.stopped)
    BY <2>2, <2>3, ReachedMore
  <2>7. /\ \E B : Reached(y, B, rows, k + 1, limit, budget)
        /\ y.work <= x.work + c
        /\ x.work + c <= budget => (y.stopped => x.stopped)
    BY <2>4, <2>6 DEF all, c
  <2>8. k * c + c <= n * c /\ (k + 1) * c = k * c + c /\ k * c \in Nat /\ n * c \in Nat
    <3>1. n * c \in Nat
      BY <1>3
    <3>2. QED  BY <1>3, <2>1, <3>1, OneMore
  <2>9. y.work \in Nat
    BY <2>7 DEF Reached, Timelines
  <2> DEFINE kc == k * c
             nc == n * c
             more == (k + 1) * c
  <2>10. /\ kc + c <= nc /\ more = kc + c /\ kc \in Nat /\ nc \in Nat /\ x.work <= kc
    BY <2>5, <2>8
  <2>11. nc <= budget => ~x.stopped
    BY <2>5
  <2> HIDE DEF kc, nc, more
  <2>12. y.work <= more
    BY <1>3, <2>5, <2>7, <2>9, <2>10
  <2>13. nc <= budget => x.work + c <= budget
    BY <1>3, <2>5, <2>10
  <2>14. nc <= budget => ~y.stopped
    BY <2>7, <2>11, <2>13
  <2>15. QED  BY <2>7, <2>12, <2>14 DEF Good, kc, nc, more, y
<1> HIDE DEF P
<1>6. n \in P
  BY <1>4, <1>5, Numbers
<1> DEFINE x == h[n]
           K == x.b.kept
           t == timeline(rows, limit, budget)
<1>7. PICK A : Reached(x, A, rows, n, limit, budget)
  BY <1>6 DEF P
<1>8. n * c <= budget => ~x.stopped
  BY <1>6 DEF P
<1>9. /\ A \subseteq F /\ SomeOf(A, rows, n) /\ x.stopped \in BOOLEAN /\ x.b.truncated \in BOOLEAN
      /\ ~x.stopped => AllOf(A, rows, n)
      /\ Earliest(K, A, limit)
      /\ x.b.truncated <=> x.stopped \/ Cardinality(A) > limit
  BY <1>7 DEF Reached, Holds, Timelines, Buffers
<1>10. Ranked(F) /\ Ranked(A) /\ Ranked(K)
  <2>1. Ranked(F)
    BY FullRanked
  <2>2. K \subseteq A
    BY <1>9 DEF Earliest
  <2> HIDE DEF F, K
  <2>3. Ranked(A)
    BY <1>9, <2>1, RankedPart
  <2>4. Ranked(K)
    BY <2>2, <2>3, RankedPart
  <2>5. QED  BY <2>1, <2>3, <2>4
<1>11. ~x.stopped => A = F
  <2>1. SUFFICES ASSUME ~x.stopped
                 PROVE  F \subseteq A
    BY <1>9
  <2>2. AllOf(A, rows, n)
    BY <1>9, <2>1
  <2>3. \A r \in Coverable(all) : Bars(all, r) \subseteq A
    <3>1. TAKE r \in Coverable(all)
    <3>2. PICK i \in 1..n : r = rows[i]
      BY DEF Coverable, Range
    <3>3. QED  BY <2>2, <3>2 DEF AllOf
  <2>4. AllBars(all) \subseteq A
    BY <2>3 DEF AllBars
  <2>5. Whole(all) \subseteq A
    BY <2>2 DEF AllOf
  <2>6. QED  BY <2>4, <2>5 DEF Full
<1>12. t.records = sortedRows(K) /\ t.truncated = x.b.truncated
       /\ t = [records |-> t.records, truncated |-> t.truncated]
  BY <1>2 DEF sortedRecords
<1> HIDE DEF t, K, F, x
<1>13. Range(t.records) = K /\ Len(t.records) = Cardinality(K) /\ Cardinality(K) \in Nat
  BY <1>10, <1>12, SortedRows
<1>14. K \subseteq A /\ Cardinality(K) <= limit /\ Cardinality(A) \in Nat
  <2>1. Cardinality(A) \in Nat
    BY <1>10, FS_CardinalityType DEF Ranked
  <2>2. QED  BY <1>9, <2>1 DEF Earliest
<1>15. K = firstOf(A, limit) /\ (Cardinality(A) <= limit <=> K = A)
  BY <1>9, <1>10, EarliestRanks DEF firstOf
<1>16. Range(t.records) \subseteq F /\ Len(t.records) <= limit
  BY <1>9, <1>13, <1>14
<1>17. Cardinality(A) > limit <=> ~(Cardinality(A) <= limit)
  BY <1>14
<1>18. ~t.truncated => Range(t.records) = F
  BY Zenon, <1>9, <1>11, <1>12, <1>13, <1>15, <1>17
<1>19. n * c <= budget => /\ Range(t.records) = firstOf(F, limit)
                          /\ t.truncated <=> firstOf(F, limit) # F
  <2>1. SUFFICES ASSUME n * c <= budget
                 PROVE  /\ Range(t.records) = firstOf(F, limit)
                        /\ t.truncated <=> firstOf(F, limit) # F
    OBVIOUS
  <2>2. ~x.stopped /\ A = F
    BY <1>8, <1>11, <2>1
  <2>3. Range(t.records) = firstOf(F, limit)
    BY <1>13, <1>15, <2>2
  <2>4. t.truncated <=> firstOf(F, limit) # F
    BY Zenon, <1>9, <1>12, <1>15, <1>17, <2>2
  <2>5. QED  BY <2>3, <2>4
<1>20. t.truncated \in BOOLEAN
  BY <1>9, <1>12
<1> HIDE DEF all, c
<1>21. /\ t = [records |-> t.records, truncated |-> t.truncated] /\ t.truncated \in BOOLEAN
       /\ Range(t.records) \subseteq F /\ Len(t.records) <= limit
       /\ ~t.truncated => Range(t.records) = F
       /\ n * c <= budget =>
            /\ Range(t.records) = firstOf(F, limit)
            /\ t.truncated <=> firstOf(F, limit) # F
  <2> HIDE DEF firstOf
  <2>1. t = [records |-> t.records, truncated |-> t.truncated]
    BY <1>12
  <2>2. n * c <= budget =>
            /\ Range(t.records) = firstOf(F, limit)
            /\ t.truncated <=> firstOf(F, limit) # F
    BY <1>19
  <2>3. QED  BY <1>16, <1>18, <1>20, <2>1, <2>2
<1>22. QED  BY <1>21, FullBars DEF all, c, t, F
=============================================================================
