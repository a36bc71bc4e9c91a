------------------------------ MODULE WebProofs -------------------------------
(***************************************************************************)
(* Proofs about Web for every user and every number of requests, names,    *)
(* devices, records and categories: the limit of categories under          *)
(* concurrent requests, that no default and no override outlives what it   *)
(* points to, the limit of attempts to log in, that a reader who pages to  *)
(* the end misses nothing, and that the totals, the categories, the        *)
(* timeline and the chart of a page are what its rows say.                 *)
(***************************************************************************)
EXTENDS Web, DedupProofs

USE WebAssumption

Stage == {"idle", "locked", "counted"}

\* Who holds the user's row is the one request in CreateCategory, and who has
\* counted found room that nobody else can take.
LockInv ==
    /\ creating \in [Requests -> Stage]
    /\ \A q \in Requests : creating[q] # "idle" => userLock = {q}
    /\ \A q \in Requests : creating[q] = "counted" => Cardinality(DOMAIN categories) < CategoryUserLimit

CategoryInv ==
    /\ nextCategory \in Nat \ {0}
    /\ DOMAIN categories \subseteq 1..(nextCategory - 1)
    /\ Cardinality(DOMAIN categories) <= CategoryUserLimit
    /\ IsInjective(categories)

ReferenceInv ==
    /\ Range(assignments) \subseteq DOMAIN categories
    /\ Range(overrides) \subseteq DOMAIN categories \union {Uncategorized}
    /\ DOMAIN overrides \subseteq {r.id : r \in records}

IInv == LockInv /\ CategoryInv /\ ReferenceInv
-----------------------------------------------------------------------------
(* Facts about choices, functions and cardinalities.                       *)

\* What a choice of one category or none is stored as.
LEMMA ChoiceFacts ==
    ASSUME NEW c \in Nat
    PROVE  /\ Max({c}) = c
           /\ Max({c} \union {Uncategorized}) = c
           /\ Max({} \union {Uncategorized}) = Uncategorized
<1>1. Max({c}) = c
  BY DEF Max
<1>2. Max({c} \union {Uncategorized}) = c
  <2>1. \A x \in {c, 0} : (\A y \in {c, 0} : x >= y) <=> x = c
    BY SMT
  <2>2. {c} \union {Uncategorized} = {c, 0}
    BY DEF Uncategorized
  <2>3. Max({c, 0}) = c
    BY <2>1 DEF Max
  <2>4. QED  BY <2>2, <2>3
<1>3. Max({} \union {Uncategorized}) = Uncategorized
  <2>1. {} \union {Uncategorized} = {0}
    BY DEF Uncategorized
  <2>2. Max({0}) = 0
    BY DEF Max
  <2>3. QED  BY <2>1, <2>2 DEF Uncategorized
<1>4. QED  BY <1>1, <1>2, <1>3

\* The ids of categories are a finite set of positive numbers.
LEMMA CategoriesFinite ==
    ASSUME CategoryInv
    PROVE  /\ IsFiniteSet(DOMAIN categories)
           /\ Cardinality(DOMAIN categories) \in Nat
           /\ nextCategory \notin DOMAIN categories
           /\ \A c \in DOMAIN categories : c \in Nat \ {0}
<1>1. IsFiniteSet(1..(nextCategory - 1))
  <2>1. 1 \in Int /\ nextCategory - 1 \in Int
    BY DEF CategoryInv
  <2>2. QED  BY <2>1, FS_Interval
<1>2. IsFiniteSet(DOMAIN categories)
  BY <1>1, FS_Subset DEF CategoryInv
<1>3. Cardinality(DOMAIN categories) \in Nat
  BY <1>2, FS_CardinalityType
<1>4. /\ nextCategory \notin DOMAIN categories
      /\ \A c \in DOMAIN categories : c \in Nat \ {0}
  BY DEF CategoryInv
<1>5. QED  BY <1>2, <1>3, <1>4
-----------------------------------------------------------------------------
(* Counting the entries of a sequence.                                     *)

\* Numbers up to a bound can be put in order.
LEMMA Listing ==
    ASSUME NEW n \in Nat, NEW K \in SUBSET (1..n)
    PROVE  /\ IsFiniteSet(K) /\ Cardinality(K) \in Nat
           /\ \E f \in [1..Cardinality(K) -> K] : Lists(f, K)
<1> DEFINE Listed(L) == /\ IsFiniteSet(L) /\ Cardinality(L) \in Nat
                        /\ \E f \in [1..Cardinality(L) -> L] : Lists(f, L)
           Bad == {m \in Nat : \E L \in SUBSET (1..m) : ~Listed(L)}
           Below == OpToRel(<, Nat)
<1>1. SUFFICES Bad = {}
  OBVIOUS
<1>2. SUFFICES ASSUME Bad # {}
               PROVE  FALSE
  OBVIOUS
<1>3. PICK m \in Bad : \A k \in Bad : m <= k
  <2>1. IsWellFoundedOn(Below, Nat)
    BY NatLessThanWellFounded
  <2>2. \A x, y \in Nat : x < y => <<x, y>> \in Below
    BY DEF OpToRel
  <2>3. Bad \subseteq Nat
    OBVIOUS
  <2> HIDE DEF Below, Bad
  <2>4. \E x \in Bad : \A y \in Bad : ~ (<<y, x>> \in Below)
    BY <1>2, <2>1, <2>3, WFMin
  <2>5. PICK x \in Bad : \A y \in Bad : ~ (<<y, x>> \in Below)
    BY <2>4
  <2>6. \A y \in Bad : ~ (y < x)
    BY <2>2, <2>3, <2>5
  <2>7. \A y \in Bad : x <= y
    BY <2>3, <2>6
  <2>8. QED  BY <2>7
<1>4. m \in Nat /\ \A k \in Nat : k < m => k \notin Bad
  <2>1. m \in Nat
    OBVIOUS
  <2> HIDE DEF Bad
  <2>2. QED  BY <1>3, <2>1
<1>5. PICK L \in SUBSET (1..m) : ~Listed(L)
  BY <1>3
<1>6. \A k \in Nat : k < m => \A M \in SUBSET (1..k) : Listed(M)
  BY <1>4
<1> HIDE DEF Bad, Below
<1>7. Listed({})
  <2>1. IsFiniteSet({}) /\ Cardinality({}) = 0
    BY FS_EmptySet
  <2>2. 1..0 = {}
    OBVIOUS
  <2>3. <<>> \in [1..0 -> {}] /\ Lists(<<>>, {})
    BY <2>2 DEF Lists
  <2>4. \E f \in [1..Cardinality({}) -> {}] : Lists(f, {})
    BY <2>1, <2>3
  <2>5. QED  BY <2>1, <2>4
<1>8. m # 0
  <2>1. 1..0 = {}
    OBVIOUS
  <2> HIDE DEF Listed
  <2>2. QED  BY <1>5, <1>7, <2>1
<1>9. m - 1 \in Nat /\ m - 1 < m
  BY <1>4, <1>8
<1>10. CASE m \notin L
  <2>1. L \in SUBSET (1..(m - 1))
    BY <1>4, <1>8, <1>10
  <2> HIDE DEF Listed
  <2>2. QED  BY <1>5, <1>6, <1>9, <2>1
<1>11. CASE m \in L
  <2> DEFINE M == L \ {m}
  <2>1. M \in SUBSET (1..(m - 1))
    BY <1>4, <1>8
  <2>2. Listed(M)
    <3>1. \A N \in SUBSET (1..(m - 1)) : Listed(N)
      <4> HIDE DEF Listed
      <4>1. QED  BY <1>6, <1>9
    <3> HIDE DEF Listed, M
    <3>2. QED  BY <2>1, <3>1
  <2>3. L = M \union {m} /\ m \notin M
    BY <1>11
  <2>4. \A k \in M : k \in Nat /\ k < m
    BY <2>1, <1>4
  <2> HIDE DEF M
  <2> DEFINE c == Cardinality(M)
  <2>5. IsFiniteSet(L) /\ Cardinality(L) = c + 1 /\ c \in Nat
    BY <2>2, <2>3, FS_AddElement
  <2>6. PICK f \in [1..c -> M] : Lists(f, M)
    BY <2>2
  <2> HIDE DEF c
  <2> DEFINE g == [i \in 1..(c + 1) |-> IF i <= c THEN f[i] ELSE m]
  <2>7. g \in [1..(c + 1) -> L]
    BY <2>3, <2>5, <2>6
  <2>8. \A i, j \in 1..(c + 1) : i < j => g[i] < g[j]
    <3>1. TAKE i, j \in 1..(c + 1)
    <3>2. HAVE i < j
    <3>3. i <= c /\ i \in 1..c /\ g[i] = f[i] /\ f[i] \in M
      BY <2>5, <2>6, <3>2
    <3>4. CASE j <= c
      <4>1. j \in 1..c /\ g[j] = f[j]
        BY <2>5, <3>4
      <4>2. f[i] < f[j]
        BY <2>6, <3>2, <3>3, <4>1 DEF Lists
      <4>3. QED  BY <3>3, <4>1, <4>2
    <3>5. CASE j > c
      <4>1. g[j] = m
        BY <2>5, <3>5
      <4>2. QED  BY <2>4, <3>3, <4>1
    <3>6. QED  BY <2>5, <3>4, <3>5
  <2>9. {g[i] : i \in 1..(c + 1)} = L
    <3>1. \A x \in L : \E i \in 1..(c + 1) : x = g[i]
      <4>1. TAKE x \in L
      <4>2. CASE x = m
        <5>1. c + 1 \in 1..(c + 1) /\ g[c + 1] = m
          BY <2>5
        <5>2. QED  BY <4>2, <5>1
      <4>3. CASE x \in M
        <5>1. \E i \in 1..c : x = f[i]
          BY <2>6, <4>3 DEF Lists
        <5>2. PICK i \in 1..c : x = f[i]
          BY <5>1
        <5>3. i \in 1..(c + 1) /\ g[i] = f[i]
          BY <2>5
        <5>4. QED  BY <5>2, <5>3
      <4>4. QED  BY <2>3, <4>2, <4>3
    <3> HIDE DEF g
    <3>2. QED  BY <2>7, <3>1
  <2>10. Lists(g, L)
    <3>1. DOMAIN g = 1..(c + 1)
      OBVIOUS
    <3> HIDE DEF g
    <3>2. QED  BY <2>8, <2>9, <3>1 DEF Lists
  <2> HIDE DEF g
  <2>11. Listed(L)
    BY <2>5, <2>7, <2>10
  <2>12. QED  BY <1>5, <2>11
<1>12. QED  BY <1>10, <1>11

\* As many positions after a renumbering.
LEMMA Renumbered ==
    ASSUME NEW S, NEW T, IsFiniteSet(S), NEW f \in [S -> T],
           \A i, j \in S : f[i] = f[j] => i = j, \A y \in T : \E i \in S : f[i] = y
    PROVE  Cardinality(T) = Cardinality(S)
<1>1. f \in Bijection(S, T)
  BY DEF Bijection, Injection, Surjection, IsInjective
<1>2. ExistsBijection(S, T)
  BY <1>1 DEF ExistsBijection
<1>3. QED  BY <1>2, FS_Bijection

\* The entries of a sequence in a set are at finitely many positions, no more
\* than there are.
LEMMA TimesFinite ==
    ASSUME NEW S, NEW q \in Seq(S), NEW P
    PROVE  /\ IsFiniteSet(Times(q, P)) /\ Times(q, P) \subseteq 1..Len(q)
           /\ Cardinality(Times(q, P)) \in Nat /\ Cardinality(Times(q, P)) <= Len(q)
           /\ (\A i \in 1..Len(q) : q[i] \in P) => Cardinality(Times(q, P)) = Len(q)
<1> DEFINE n == Len(q)
           A == Times(q, P)
<1>1. n \in Nat /\ A \subseteq 1..n /\ ((\A i \in 1..n : q[i] \in P) => A = 1..n)
  BY DEF Times
<1> HIDE DEF n, A
<1>2. IsFiniteSet(1..n) /\ Cardinality(1..n) = IF 1 > n THEN 0 ELSE n - 1 + 1
  <2>1. 1 \in Int /\ n \in Int
    BY <1>1
  <2>2. QED  BY <2>1, FS_Interval
<1>3. IsFiniteSet(A) /\ Cardinality(A) <= Cardinality(1..n)
  BY <1>1, <1>2, FS_Subset
<1>4. Cardinality(A) \in Nat
  BY <1>3, FS_CardinalityType
<1>5. Cardinality(1..n) = n
  BY <1>1, <1>2
<1>6. QED  BY <1>1, <1>3, <1>4, <1>5 DEF n, A

\* What an entry adds to the count.
LEMMA TimesAppend ==
    ASSUME NEW S, NEW q \in Seq(S), NEW x \in S, NEW P
    PROVE  Cardinality(Times(Append(q, x), P)) = Cardinality(Times(q, P)) + (IF x \in P THEN 1 ELSE 0)
<1> DEFINE n == Len(q)
           a == Append(q, x)
           A == Times(q, P)
<1>1. /\ n \in Nat /\ DOMAIN q = 1..n /\ DOMAIN a = 1..(n + 1)
      /\ \A i \in 1..n : a[i] = q[i]
      /\ a[n + 1] = x
  OBVIOUS
<1>2. IsFiniteSet(A) /\ A \subseteq 1..n /\ Cardinality(A) \in Nat
  BY TimesFinite
<1>3. Times(a, P) = A \union (IF x \in P THEN {n + 1} ELSE {})
  <2> HIDE DEF n, a
  <2>1. 1..(n + 1) = 1..n \union {n + 1}
    BY <1>1
  <2>2. Times(a, P) = {i \in 1..n : a[i] \in P} \union {i \in {n + 1} : a[i] \in P}
    BY <1>1, <2>1 DEF Times
  <2>3. {i \in 1..n : a[i] \in P} = A
    BY <1>1 DEF Times
  <2>4. {i \in {n + 1} : a[i] \in P} = IF x \in P THEN {n + 1} ELSE {}
    BY <1>1
  <2>5. QED  BY <2>2, <2>3, <2>4
<1> DEFINE m == n + 1
<1>4. m \notin A
  BY <1>1, <1>2
<1> HIDE DEF A, a, n, m
<1>5. Cardinality(A \union {m}) = Cardinality(A) + 1
  BY <1>2, <1>4, FS_AddElement
<1>6. CASE x \in P
  <2>1. Times(a, P) = A \union {m}
    BY <1>3, <1>6 DEF m
  <2>2. QED  BY <1>5, <1>6, <2>1 DEF A, a
<1>7. CASE x \notin P
  <2>1. Times(a, P) = A
    BY <1>3, <1>7
  <2>2. QED  BY <1>2, <1>7, <2>1 DEF A, a
<1>8. QED  BY <1>6, <1>7

\* What the last entry had added to the count.
LEMMA TimesFront ==
    ASSUME NEW S, NEW q \in Seq(S), q # <<>>, NEW P
    PROVE  /\ Last(q) \in S /\ SubSeq(q, 1, Len(q) - 1) \in Seq(S)
           /\ Len(SubSeq(q, 1, Len(q) - 1)) = Len(q) - 1
           /\ Cardinality(Times(q, P)) = Cardinality(Times(SubSeq(q, 1, Len(q) - 1), P))
                                           + (IF Last(q) \in P THEN 1 ELSE 0)
<1> DEFINE f == SubSeq(q, 1, Len(q) - 1)
           x == q[Len(q)]
<1>1. Len(q) \in Nat /\ Len(q) > 0 /\ x \in S /\ Last(q) = x
  BY DEF Last
<1> DEFINE m == Len(q) - 1
<1>2. f \in Seq(S) /\ Len(f) = Len(q) - 1 /\ \A i \in 1..Len(f) : f[i] = q[i]
  <2>1. 1 \in Int /\ m \in Int /\ m >= 0 /\ m - 1 + 1 = m /\ \A i \in 1..m : q[i] \in S
    BY <1>1
  <2> HIDE DEF m
  <2>2. /\ SubSeq(q, 1, m) \in Seq(S)
        /\ Len(SubSeq(q, 1, m)) = IF 1 <= m THEN m - 1 + 1 ELSE 0
        /\ \A i \in 1..m - 1 + 1 : SubSeq(q, 1, m)[i] = q[1 + i - 1]
    BY <2>1, SubSeqProperties
  <2>3. Len(SubSeq(q, 1, m)) = m
    BY <2>1, <2>2
  <2>4. \A i \in 1..m : SubSeq(q, 1, m)[i] = q[i]
    <3>1. \A i \in 1..m : 1 + i - 1 = i
      BY <2>1
    <3>2. QED  BY <2>1, <2>2, <3>1
  <2>5. QED  BY <2>2, <2>3, <2>4 DEF m
<1>3. Append(f, x) = q
  <2>1. Append(f, x) \in Seq(S) /\ Len(Append(f, x)) = Len(q)
    BY <1>1, <1>2
  <2>2. \A i \in 1..Len(q) : Append(f, x)[i] = q[i]
    BY <1>1, <1>2
  <2>3. QED  BY <2>1, <2>2, SeqEqual
<1> HIDE DEF f, x
<1>4. Cardinality(Times(Append(f, x), P)) = Cardinality(Times(f, P)) + (IF x \in P THEN 1 ELSE 0)
  BY <1>1, <1>2, TimesAppend
<1>5. QED  BY <1>1, <1>2, <1>3, <1>4 DEF f

\* A filtered sequence has the entries at the positions that were kept, each as
\* often as there.
LEMMA TimesKept ==
    ASSUME NEW S, NEW q \in Seq(S), NEW K \in SUBSET (1..Len(q))
    PROVE  /\ Entries(q, K) \in Seq(S) /\ Len(Entries(q, K)) <= Len(q)
           /\ \A i \in DOMAIN Entries(q, K) : \E k \in K : Entries(q, K)[i] = q[k]
           /\ \A P : Cardinality(Times(Entries(q, K), P)) = Cardinality({k \in K : q[k] \in P})
<1> DEFINE n == Len(q)
           c == Cardinality(K)
           at == CHOOSE f \in [1..c -> K] : Lists(f, K)
           e == Entries(q, K)
<1>1. n \in Nat /\ \A i \in 1..n : q[i] \in S
  OBVIOUS
<1>2. IsFiniteSet(K) /\ c \in Nat /\ \E f \in [1..c -> K] : Lists(f, K)
  BY <1>1, Listing
<1>3. at \in [1..c -> K] /\ Lists(at, K)
  BY <1>2
<1>4. e = [i \in 1..c |-> q[at[i]]]
  BY DEF Entries
<1>5. c <= n
  <2>1. IsFiniteSet(1..n) /\ Cardinality(1..n) = n
    <3>1. n \in Nat
      BY <1>1
    <3> HIDE DEF n
    <3>2. IsFiniteSet(1..n) /\ Cardinality(1..n) = IF 1 > n THEN 0 ELSE n - 1 + 1
      <4>1. 1 \in Int /\ n \in Int
        BY <3>1
      <4>2. QED  BY <4>1, FS_Interval
    <3>3. QED  BY <3>1, <3>2
  <2>2. QED  BY <2>1, FS_Subset
<1> HIDE DEF at, c, n, e
<1>6. \A i \in 1..c : at[i] \in K /\ at[i] \in 1..n
  BY <1>3 DEF n
<1>7. e \in [1..c -> S]
  BY <1>1, <1>4, <1>6
<1>8. e \in Seq(S) /\ Len(e) = c
  BY <1>2, <1>7
<1>9. \A i, j \in 1..c : at[i] = at[j] => i = j
  <2>1. \A i, j \in 1..c : i < j => at[i] < at[j]
    BY <1>3 DEF Lists
  <2>2. \A i \in 1..c : at[i] \in Int
    BY <1>1, <1>6
  <2>3. QED  BY <1>2, <2>1, <2>2
<1>10. \A k \in K : \E i \in 1..c : at[i] = k
  BY <1>3 DEF Lists
<1>11. ASSUME NEW P
       PROVE  Cardinality(Times(e, P)) = Cardinality({k \in K : q[k] \in P})
  <2> DEFINE A == Times(e, P)
             T == {k \in K : q[k] \in P}
             f == [i \in A |-> at[i]]
  <2>1. IsFiniteSet(A) /\ A = {i \in 1..c : e[i] \in P}
    BY <1>7, <1>8, TimesFinite DEF Times
  <2>2. \A i \in 1..c : e[i] = q[at[i]]
    BY <1>4
  <2> HIDE DEF A
  <2>3. f \in [A -> T]
    BY <1>6, <2>1, <2>2
  <2>4. \A i, j \in A : f[i] = f[j] => i = j
    BY <1>9, <2>1
  <2>5. \A y \in T : \E i \in A : f[i] = y
    <3>1. TAKE y \in T
    <3>2. PICK i \in 1..c : at[i] = y
      BY <1>10
    <3>3. i \in A
      BY <2>1, <2>2, <3>2
    <3>4. QED  BY <3>2, <3>3
  <2> HIDE DEF f, T
  <2>6. QED  BY <2>1, <2>3, <2>4, <2>5, Renumbered DEF A, T
<1>12. \A i \in DOMAIN e : \E k \in K : e[i] = q[k]
  BY <1>4, <1>6
<1>13. QED  BY <1>5, <1>8, <1>11, <1>12 DEF n, e
-----------------------------------------------------------------------------
(* The actions, by what they change.                                       *)

\* The invariant holds what the property asks for.
LEMMA IInvImpliesLimit == IInv => LimitKept
  BY DEF IInv, CategoryInv, ReferenceInv, LimitKept

\* A user without categories is within every limit.
LEMMA InitEstablishes == Init => IInv
<1> SUFFICES ASSUME Init PROVE IInv
  OBVIOUS
<1>1. DOMAIN categories = {} /\ Cardinality(DOMAIN categories) = 0
  BY FS_EmptySet DEF Init
<1>2. LockInv
  BY DEF Init, LockInv, Stage
<1>3. CategoryInv
  BY <1>1 DEF Init, CategoryInv, IsInjective
<1>4. ReferenceInv
  BY DEF Init, ReferenceInv, Range
<1>5. QED  BY <1>2, <1>3, <1>4 DEF IInv

\* Creation keeps the limit: the request that inserts counted under the lock
\* it still holds, and every other insertion needs that lock.
LEMMA CreationPreserves ==
    ASSUME IInv, NEW q \in Requests, LockUser(q) \/ CountCategories(q) \/ InsertCategory(q)
    PROVE  IInv'
<1>1. CASE LockUser(q)
  <2>1. LockInv'
    BY <1>1 DEF IInv, LockInv, Stage, LockUser
  <2>2. CategoryInv' /\ ReferenceInv'
    BY <1>1 DEF IInv, CategoryInv, ReferenceInv, LockUser
  <2>3. QED  BY <2>1, <2>2 DEF IInv
<1>2. ASSUME Rollback(q), creating[q] # "idle"
      PROVE  IInv'
  <2>1. LockInv'
    BY <1>2 DEF IInv, LockInv, Stage, Rollback, tables
  <2>2. CategoryInv' /\ ReferenceInv'
    BY <1>2 DEF IInv, CategoryInv, ReferenceInv, Rollback, tables
  <2>3. QED  BY <2>1, <2>2 DEF IInv
<1>3. CASE CountCategories(q)
  <2>1. CASE Cardinality(DOMAIN categories) >= CategoryUserLimit
    BY <1>2, <1>3, <2>1 DEF CountCategories
  <2>2. CASE ~(Cardinality(DOMAIN categories) >= CategoryUserLimit)
    <3>1. Cardinality(DOMAIN categories) < CategoryUserLimit
      BY <2>2, CategoriesFinite DEF IInv
    <3>2. LockInv'
      BY <1>3, <2>2, <3>1 DEF IInv, LockInv, Stage, CountCategories, tables
    <3>3. CategoryInv' /\ ReferenceInv'
      BY <1>3, <2>2 DEF IInv, CategoryInv, ReferenceInv, CountCategories, tables
    <3>4. QED  BY <3>2, <3>3 DEF IInv
  <2>3. QED  BY <2>1, <2>2
<1>4. CASE InsertCategory(q)
  <2>1. PICK name \in Names :
          IF name \in Range(categories)
          THEN Rollback(q)
          ELSE /\ categories' = with(categories, nextCategory, name)
               /\ nextCategory' = nextCategory + 1
               /\ userLock' = userLock \ {q}
               /\ creating' = [creating EXCEPT ![q] = "idle"]
               /\ UNCHANGED <<account, devices, records, assignments, overrides, nextRecord, edits,
                              page, editor, limiter>>
    BY <1>4 DEF InsertCategory
  <2>2. creating[q] = "counted"
    BY <1>4 DEF InsertCategory
  <2>3. CASE name \in Range(categories)
    BY <1>2, <2>1, <2>2, <2>3
  <2>4. CASE name \notin Range(categories)
    <3>1. /\ DOMAIN categories' = DOMAIN categories \union {nextCategory}
          /\ \A c \in DOMAIN categories : categories'[c] = categories[c]
          /\ categories'[nextCategory] = name
      BY <2>1, <2>4, CategoriesFinite DEF IInv, with
    <3>2. Cardinality(DOMAIN categories') = Cardinality(DOMAIN categories) + 1
      BY <3>1, CategoriesFinite, FS_AddElement DEF IInv
    <3>3. Cardinality(DOMAIN categories) < CategoryUserLimit
      BY <2>2 DEF IInv, LockInv
    <3>4. Cardinality(DOMAIN categories') <= CategoryUserLimit
      BY <3>2, <3>3, CategoriesFinite DEF IInv
    <3>5. IsInjective(categories')
      BY <2>4, <3>1 DEF IInv, CategoryInv, IsInjective, Range
    <3>6. nextCategory' \in Nat \ {0} /\ DOMAIN categories' \subseteq 1..(nextCategory' - 1)
      BY <2>1, <2>4, <3>1 DEF IInv, CategoryInv
    <3>7. LockInv'
      <4>1. \A p \in Requests : p # q => creating[p] = "idle"
        BY <2>2 DEF IInv, LockInv
      <4>2. \A p \in Requests : creating'[p] = "idle"
        BY <2>1, <2>4, <4>1 DEF IInv, LockInv
      <4>3. creating' \in [Requests -> Stage]
        BY <2>1, <2>4 DEF IInv, LockInv, Stage
      <4>4. QED  BY <4>2, <4>3 DEF LockInv
    <3>8. ReferenceInv'
      BY <2>1, <2>4, <3>1 DEF IInv, ReferenceInv
    <3>9. QED  BY <3>4, <3>5, <3>6, <3>7, <3>8 DEF IInv, CategoryInv
  <2>5. QED  BY <2>3, <2>4
<1>5. QED  BY <1>1, <1>3, <1>4

\* Renaming keeps the names apart; a deletion takes what points to the
\* category with it, and can only make room.
LEMMA ChangePreserves ==
    ASSUME IInv, NEW c \in DOMAIN categories, UpdateCategory(c) \/ DeleteCategory(c)
    PROVE  IInv'
<1>1. CASE UpdateCategory(c)
  <2>1. PICK name \in Names :
          /\ \A d \in DOMAIN categories : categories[d] = name => d = c
          /\ categories' = [categories EXCEPT ![c] = name]
    BY <1>1 DEF UpdateCategory
  <2>2. /\ DOMAIN categories' = DOMAIN categories
        /\ \A d \in DOMAIN categories : categories'[d] = IF d = c THEN name ELSE categories[d]
    BY <2>1
  <2>3. IsInjective(categories')
    BY <2>1, <2>2 DEF IInv, CategoryInv, IsInjective
  <2>4. CategoryInv'
    BY <1>1, <2>2, <2>3 DEF IInv, CategoryInv, UpdateCategory
  <2>5. LockInv' /\ ReferenceInv'
    BY <1>1, <2>2 DEF IInv, LockInv, ReferenceInv, UpdateCategory
  <2>6. QED  BY <2>4, <2>5 DEF IInv
<1>2. CASE DeleteCategory(c)
  <2>1. /\ DOMAIN categories' = DOMAIN categories \ {c}
        /\ \A d \in DOMAIN categories' : categories'[d] = categories[d]
    BY <1>2 DEF DeleteCategory
  <2>2. /\ Cardinality(DOMAIN categories') \in Nat
        /\ Cardinality(DOMAIN categories') <= Cardinality(DOMAIN categories)
    <3>1. DOMAIN categories' \subseteq DOMAIN categories
      BY <2>1
    <3>2. QED  BY <3>1, CategoriesFinite, FS_Subset, FS_CardinalityType DEF IInv
  <2>3. CategoryInv'
    <3>1. IsInjective(categories')
      BY <2>1 DEF IInv, CategoryInv, IsInjective
    <3>2. Cardinality(DOMAIN categories') <= CategoryUserLimit
      BY <2>2, CategoriesFinite DEF IInv, CategoryInv
    <3>3. QED  BY <1>2, <2>1, <3>1, <3>2 DEF IInv, CategoryInv, DeleteCategory
  <2>4. LockInv'
    <3>1. ASSUME NEW q \in Requests, creating'[q] = "counted"
          PROVE  Cardinality(DOMAIN categories') < CategoryUserLimit
      <4>1. Cardinality(DOMAIN categories) < CategoryUserLimit
        BY <1>2, <3>1 DEF IInv, LockInv, DeleteCategory
      <4>2. QED  BY <2>2, <4>1, CategoriesFinite DEF IInv
    <3>2. QED  BY <1>2, <3>1 DEF IInv, LockInv, DeleteCategory
  <2>5. ReferenceInv'
    <3>1. assignments' = [k \in {j \in DOMAIN assignments : assignments[j] # c} |-> assignments[k]]
      BY <1>2 DEF DeleteCategory
    <3>2. overrides' = [i \in {j \in DOMAIN overrides : overrides[j] # c} |-> overrides[i]]
      BY <1>2 DEF DeleteCategory
    <3>3. Range(assignments') \subseteq DOMAIN categories'
      BY <2>1, <3>1 DEF IInv, ReferenceInv, Range
    <3>4. Range(overrides') \subseteq DOMAIN categories' \union {Uncategorized}
      BY <2>1, <3>2 DEF IInv, ReferenceInv, Range
    <3>5. DOMAIN overrides' \subseteq {r.id : r \in records'}
      BY <1>2, <3>2 DEF IInv, ReferenceInv, DeleteCategory
    <3>6. QED  BY <3>3, <3>4, <3>5 DEF ReferenceInv
  <2>6. QED  BY <2>3, <2>4, <2>5 DEF IInv
<1>3. QED  BY <1>1, <1>2

\* Whatever default or override is set points to a category that is there,
\* and to a record that is there.
LEMMA RecategorisePreserves ==
    ASSUME IInv, Recategorise
    PROVE  IInv'
<1>1. UNCHANGED <<records, categories, nextCategory, userLock, creating>>
  BY DEF Recategorise
<1>2. LockInv' /\ CategoryInv'
  BY <1>1 DEF IInv, LockInv, CategoryInv
<1>3. PICK choice \in {{}} \union {{c} : c \in DOMAIN categories} :
        \/ \E key \in DOMAIN ListKnownApplications(0) :
             setAppCategory(key, choice) /\ UNCHANGED overrides
        \/ \E r \in records, scope \in {"record", "application"},
              action \in {"set", "uncategorized", "inherit"} :
             handleSetRecordCategory(r, scope, action, choice)
  BY DEF Recategorise
<1>4. /\ choice # {} => Max(choice) \in DOMAIN categories
      /\ Max(choice \union {Uncategorized}) \in DOMAIN categories \union {Uncategorized}
  <2>1. CASE choice = {}
    BY <2>1, ChoiceFacts
  <2>2. ASSUME NEW c \in DOMAIN categories, choice = {c}
        PROVE  /\ Max(choice) \in DOMAIN categories
               /\ Max(choice \union {Uncategorized}) \in DOMAIN categories \union {Uncategorized}
    <3>1. c \in Nat
      BY CategoriesFinite DEF IInv
    <3>2. QED  BY <2>2, <3>1, ChoiceFacts
  <2>3. QED  BY <1>3, <2>1, <2>2
<1>5. ASSUME NEW key, setAppCategory(key, choice)
      PROVE  Range(assignments') \subseteq DOMAIN categories
  <2>1. CASE choice = {}
    BY <1>5, <2>1 DEF IInv, ReferenceInv, setAppCategory, Range
  <2>2. CASE choice # {}
    <3>1. assignments' = with(assignments, key, Max(choice))
      BY <1>5, <2>2 DEF setAppCategory
    <3>2. QED  BY <1>4, <2>2, <3>1 DEF IInv, ReferenceInv, with, Range
  <2>3. QED  BY <2>1, <2>2
<1>6. ASSUME NEW r \in records, SetActivityRecordCategoryOverride(r.id, choice)
      PROVE  ReferenceInv'
  <2>1. overrides' = with(overrides, r.id, Max(choice \union {Uncategorized}))
    BY <1>6 DEF SetActivityRecordCategoryOverride
  <2>2. Range(overrides') \subseteq DOMAIN categories \union {Uncategorized}
    BY <1>4, <2>1 DEF IInv, ReferenceInv, with, Range
  <2>3. DOMAIN overrides' \subseteq {x.id : x \in records}
    BY <2>1 DEF IInv, ReferenceInv, with
  <2>4. assignments' = assignments
    BY <1>6 DEF SetActivityRecordCategoryOverride
  <2>5. QED  BY <1>1, <2>2, <2>3, <2>4 DEF IInv, ReferenceInv
<1>7. ASSUME NEW i, overrides' = [j \in DOMAIN overrides \ {i} |-> overrides[j]],
             Range(assignments') \subseteq DOMAIN categories
      PROVE  ReferenceInv'
  <2>1. Range(overrides') \subseteq DOMAIN categories \union {Uncategorized}
    BY <1>7 DEF IInv, ReferenceInv, Range
  <2>2. DOMAIN overrides' \subseteq {x.id : x \in records}
    BY <1>7 DEF IInv, ReferenceInv
  <2>3. QED  BY <1>1, <1>7, <2>1, <2>2 DEF ReferenceInv
<1>8. ReferenceInv'
  <2>1. ASSUME NEW key, setAppCategory(key, choice), UNCHANGED overrides
        PROVE  ReferenceInv'
    BY <1>1, <1>5, <2>1 DEF IInv, ReferenceInv
  <2>2. ASSUME NEW r \in records, NEW scope, NEW action,
               handleSetRecordCategory(r, scope, action, choice)
        PROVE  ReferenceInv'
    <3>1. CASE SetActivityRecordCategoryOverride(r.id, choice)
      BY <1>6, <3>1
    <3>2. CASE DeleteActivityRecordCategoryOverride(r.id)
      <4>1. Range(assignments') \subseteq DOMAIN categories
        BY <3>2 DEF IInv, ReferenceInv, DeleteActivityRecordCategoryOverride
      <4>2. QED  BY <1>7, <3>2, <4>1 DEF DeleteActivityRecordCategoryOverride
    <3>3. CASE SetActivityRecordApplicationCategory(r, choice)
      BY <1>5, <1>7, <3>3 DEF SetActivityRecordApplicationCategory
    <3>4. QED  BY <2>2, <3>1, <3>2, <3>3 DEF handleSetRecordCategory
  <2>3. QED  BY <1>3, <2>1, <2>2
<1>9. QED  BY <1>2, <1>8 DEF IInv

\* Records come, and go with their device and their overrides.
LEMMA RecordsPreserve ==
    ASSUME IInv, Ingest \/ \E d \in Devices : DeleteDevice(d)
    PROVE  IInv'
<1>1. UNCHANGED <<categories, nextCategory, userLock, creating, assignments>>
  BY DEF Ingest, DeleteDevice
<1>2. LockInv' /\ CategoryInv'
  BY <1>1 DEF IInv, LockInv, CategoryInv
<1>3. CASE Ingest
  <2>1. records \subseteq records' /\ UNCHANGED overrides
    BY <1>3 DEF Ingest
  <2>2. QED  BY <1>1, <1>2, <2>1 DEF IInv, ReferenceInv
<1>4. ASSUME NEW d \in Devices, DeleteDevice(d)
      PROVE  IInv'
  <2>1. overrides' = [i \in {r.id : r \in records'} \intersect DOMAIN overrides |-> overrides[i]]
    BY <1>4 DEF DeleteDevice
  <2>2. DOMAIN overrides' \subseteq {r.id : r \in records'}
    BY <2>1
  <2>3. Range(overrides') \subseteq Range(overrides)
    BY <2>1 DEF Range
  <2>4. QED  BY <1>1, <1>2, <2>2, <2>3 DEF IInv, ReferenceInv
<1>5. QED  BY <1>3, <1>4

\* Readers, visitors and the clock change no table.
LEMMA OthersPreserve ==
    ASSUME IInv, Read \/ LogIn \/ Tick \/ UNCHANGED vars
    PROVE  IInv'
<1>1. UNCHANGED <<tables, userLock, creating>>
  <2>1. CASE Read
    BY <2>1 DEF Read, ReadRecords, ReadAssignments, ReadCategories, ClosePage,
                OpenEditor, NextPage, CloseEditor
  <2>2. CASE LogIn
    BY <2>2 DEF LogIn, Reserve, Leaves, Fails, Release, Succeeds
  <2>3. CASE Tick \/ UNCHANGED vars
    BY <2>3 DEF Tick, vars
  <2>4. QED  BY <2>1, <2>2, <2>3
<1>2. UNCHANGED <<records, categories, assignments, overrides, nextCategory, userLock, creating>>
  BY <1>1 DEF tables
<1>3. QED  BY <1>2 DEF IInv, LockInv, CategoryInv, ReferenceInv

\* Every request keeps the limit and leaves nothing that dangles.
LEMMA StepPreserves == IInv /\ [Next]_vars => IInv'
<1> SUFFICES ASSUME IInv, [Next]_vars PROVE IInv'
  OBVIOUS
<1>1. CASE Categorise
  BY <1>1, CreationPreserves, ChangePreserves, RecategorisePreserves DEF Categorise
<1>2. CASE Ingest \/ \E d \in Devices : DeleteDevice(d)
  BY <1>2, RecordsPreserve
<1>3. CASE Read \/ LogIn \/ Tick \/ UNCHANGED vars
  BY <1>3, OthersPreserve
<1>4. QED  BY <1>1, <1>2, <1>3 DEF Next

\* No user ever has more categories than the limit, two of one name, or a
\* default or override that points nowhere, however many requests to create,
\* rename, delete and assign interleave (CreateCategory's lock and count,
\* queries.go:105, and the cascades of migrations/000008).
THEOREM CategoryLimit == Spec => []LimitKept
<1>1. Spec => []IInv
  BY InitEstablishes, StepPreserves, PTL DEF Spec
<1>2. QED  BY <1>1, IInvImpliesLimit, PTL
-----------------------------------------------------------------------------
(* The limiter of attempts.                                                *)

\* The limits are numbers.
LEMMA LimiterNumbers == AttemptLimit \in Nat /\ AttemptWindow \in Nat /\ AttemptWindow > 0
  BY WebAssumption

\* All remembered attempts lie in the window, and so do as many slots.
LEMMA CoveredIsBound == AttemptInv => AttemptsBounded
<1> SUFFICES ASSUME LimiterTyped, Covered
             PROVE  Len(tried) <= AttemptLimit + strays
  BY DEF AttemptInv, AttemptsBounded
<1> DEFINE t == now - AttemptWindow
<1>1. t \in Int /\ t >= now - AttemptWindow
  BY LimiterNumbers DEF LimiterTyped
<1>2. \A i \in 1..Len(tried) : tried[i] \in Tries(t)
  BY DEF LimiterTyped, Tries
<1> HIDE DEF t
<1>3. Cardinality(Times(tried, Tries(t))) = Len(tried)
  BY <1>2, TimesFinite DEF LimiterTyped
<1>4. /\ Cardinality(Times(attempts, Slots(t))) \in Nat
      /\ Cardinality(Times(attempts, Slots(t))) <= Len(attempts)
  BY TimesFinite DEF LimiterTyped
<1>5. Len(tried) <= Cardinality(Times(attempts, Slots(t))) + strays
  BY <1>1, <1>3 DEF Covered
<1>6. QED  BY <1>4, <1>5, LimiterNumbers DEF LimiterTyped

\* sweep keeps the slots of the window, and nothing else.
LEMMA SweepFacts ==
    ASSUME LimiterTyped
    PROVE  /\ sweep(attempts) \in Seq(Nat) /\ Len(sweep(attempts)) <= Len(attempts)
           /\ \A t \in Int : t >= now - AttemptWindow =>
                Cardinality(Times(sweep(attempts), Slots(t))) = Cardinality(Times(attempts, Slots(t)))
<1> DEFINE K == {i \in DOMAIN attempts : attempts[i] > now - AttemptWindow}
<1>1. /\ attempts \in Seq(Nat) /\ DOMAIN attempts = 1..Len(attempts)
      /\ \A i \in DOMAIN attempts : attempts[i] \in Nat
      /\ now \in Nat
  BY DEF LimiterTyped
<1>2. K \in SUBSET (1..Len(attempts)) /\ sweep(attempts) = Entries(attempts, K)
  BY <1>1 DEF sweep
<1>3. ASSUME NEW t \in Int, t >= now - AttemptWindow
      PROVE  {k \in K : attempts[k] \in Slots(t)} = Times(attempts, Slots(t))
  BY <1>1, <1>3, LimiterNumbers DEF Times, Slots
<1> HIDE DEF K
<1>4. /\ Entries(attempts, K) \in Seq(Nat) /\ Len(Entries(attempts, K)) <= Len(attempts)
      /\ \A P : Cardinality(Times(Entries(attempts, K), P)) = Cardinality({k \in K : attempts[k] \in P})
  <2> DEFINE q == attempts
  <2>1. q \in Seq(Nat) /\ K \in SUBSET (1..Len(q))
    BY <1>1, <1>2
  <2> HIDE DEF q
  <2>2. /\ Entries(q, K) \in Seq(Nat) /\ Len(Entries(q, K)) <= Len(q)
        /\ \A P : Cardinality(Times(Entries(q, K), P)) = Cardinality({k \in K : q[k] \in P})
    BY <2>1, TimesKept
  <2>3. QED  BY <2>2 DEF q
<1>5. \A t \in Int : t >= now - AttemptWindow =>
        Cardinality(Times(sweep(attempts), Slots(t))) = Cardinality(Times(attempts, Slots(t)))
  BY <1>2, <1>3, <1>4
<1>6. QED  BY <1>2, <1>4, <1>5

\* A request enters: with room, it takes a slot of now; without, nothing is
\* remembered.
LEMMA ReserveCovers ==
    ASSUME AttemptInv, NEW v \in Visitors, Reserve(v)
    PROVE  AttemptInv'
<1> DEFINE s == sweep(attempts)
<1>1. LimiterTyped /\ Covered
  BY DEF AttemptInv
<1>2. /\ s \in Seq(Nat) /\ Len(s) <= Len(attempts)
      /\ \A t \in Int : t >= now - AttemptWindow =>
           Cardinality(Times(s, Slots(t))) = Cardinality(Times(attempts, Slots(t)))
  BY <1>1, SweepFacts
<1>3. /\ now' = now /\ strays' = strays /\ logins[v].pc = "away"
      /\ \/ attempts' = s /\ logins' = logins /\ tried' = tried
         \/ /\ ~(Len(s) >= AttemptLimit) /\ attempts' = Append(s, now)
            /\ logins' = [logins EXCEPT ![v] = [pc |-> "trying", at |-> now]]
            /\ tried' = Append(tried, <<v, now>>)
  BY DEF Reserve
<1> HIDE DEF s
<1>4. CASE attempts' = s /\ logins' = logins /\ tried' = tried
  <2>1. LimiterTyped'
    BY <1>1, <1>2, <1>3, <1>4, LimiterNumbers DEF LimiterTyped
  <2>2. Covered'
    BY <1>1, <1>2, <1>3, <1>4 DEF Covered, Slots, Tries
  <2>3. QED  BY <2>1, <2>2 DEF AttemptInv
<1>5. CASE /\ ~(Len(s) >= AttemptLimit) /\ attempts' = Append(s, now)
           /\ logins' = [logins EXCEPT ![v] = [pc |-> "trying", at |-> now]]
           /\ tried' = Append(tried, <<v, now>>)
  <2>1. <<v, now>> \in Visitors \X Nat /\ now \in Nat
    BY <1>1 DEF LimiterTyped
  <2>2. attempts' \in Seq(Nat) /\ Len(attempts') <= AttemptLimit
    BY <1>2, <1>5, <2>1, LimiterNumbers
  <2>3. logins' \in [Visitors -> [pc : {"away", "trying"}, at : Nat]]
    BY <1>1, <1>5, <2>1 DEF LimiterTyped
  <2>4. tried' \in Seq(Visitors \X Nat) /\ \A i \in DOMAIN tried' : tried'[i][2] > now - AttemptWindow
    <3>1. tried \in Seq(Visitors \X Nat) /\ \A i \in 1..Len(tried) : tried[i][2] > now - AttemptWindow
      BY <1>1 DEF LimiterTyped
    <3> DEFINE x == <<v, now>>
    <3>2. x \in Visitors \X Nat /\ x[2] > now - AttemptWindow
      BY <2>1, LimiterNumbers
    <3> HIDE DEF x
    <3>3. /\ Append(tried, x) \in Seq(Visitors \X Nat)
          /\ \A i \in DOMAIN Append(tried, x) : i \in 1..Len(tried) \/ i = Len(tried) + 1
          /\ \A i \in 1..Len(tried) : Append(tried, x)[i] = tried[i]
          /\ Append(tried, x)[Len(tried) + 1] = x
      BY <3>1, <3>2
    <3>4. \A i \in DOMAIN Append(tried, x) : Append(tried, x)[i][2] > now - AttemptWindow
      BY <3>1, <3>2, <3>3
    <3>5. QED  BY <1>5, <3>3, <3>4 DEF x
  <2>5. LimiterTyped'
    BY <1>1, <1>3, <2>2, <2>3, <2>4 DEF LimiterTyped
  <2>6. ASSUME NEW t \in Int, t >= now - AttemptWindow
        PROVE  Cardinality(Times(tried', Tries(t))) <= Cardinality(Times(attempts', Slots(t))) + strays
    <3> DEFINE a == IF now > t THEN 1 ELSE 0
    <3>1. Cardinality(Times(attempts', Slots(t))) = Cardinality(Times(s, Slots(t))) + a
      <4>1. now \in Slots(t) <=> now > t
        BY <2>1 DEF Slots
      <4>2. QED  BY <1>2, <1>5, <2>1, <4>1, TimesAppend
    <3>2. Cardinality(Times(tried', Tries(t))) = Cardinality(Times(tried, Tries(t))) + a
      <4>1. <<v, now>> \in Tries(t) <=> now > t
        BY <2>1 DEF Tries
      <4> DEFINE x == <<v, now>>
                 V == Visitors \X Nat
                 P == Tries(t)
      <4>2. tried \in Seq(V) /\ x \in V /\ (x \in P <=> now > t) /\ tried' = Append(tried, x)
        BY <1>1, <1>5, <2>1, <4>1 DEF LimiterTyped
      <4> HIDE DEF x, V, P
      <4>3. Cardinality(Times(Append(tried, x), P)) = Cardinality(Times(tried, P)) + (IF x \in P THEN 1 ELSE 0)
        BY <4>2, TimesAppend
      <4>4. QED  BY <4>2, <4>3 DEF P
    <3>3. Cardinality(Times(tried, Tries(t))) <= Cardinality(Times(s, Slots(t))) + strays
      BY <1>1, <1>2, <2>6 DEF Covered
    <3>4. /\ Cardinality(Times(tried, Tries(t))) \in Nat /\ Cardinality(Times(s, Slots(t))) \in Nat
          /\ a \in Nat /\ strays \in Nat
      BY <1>1, <1>2, TimesFinite DEF LimiterTyped
    <3> HIDE DEF a
    <3>5. QED  BY <3>1, <3>2, <3>3, <3>4
  <2>7. Covered'
    BY <1>3, <2>6 DEF Covered, Slots, Tries
  <2>8. QED  BY <2>5, <2>7 DEF AttemptInv
<1>6. QED  BY <1>3, <1>4, <1>5

\* An attempt that fails keeps its slot; one that succeeds clears the host.
LEMMA LeavingCovers ==
    ASSUME AttemptInv, NEW v \in Visitors, Fails(v) \/ Succeeds(v)
    PROVE  AttemptInv'
<1>1. LimiterTyped /\ Covered
  BY DEF AttemptInv
<1>2. /\ now' = now /\ strays' = strays
      /\ logins' = [logins EXCEPT ![v] = [pc |-> "away", at |-> 0]]
      /\ \/ attempts' = attempts /\ tried' = tried
         \/ attempts' = <<>> /\ tried' = <<>>
  BY DEF Fails, Succeeds, Leaves
<1>3. logins' \in [Visitors -> [pc : {"away", "trying"}, at : Nat]]
  BY <1>1, <1>2 DEF LimiterTyped
<1>4. CASE attempts' = attempts /\ tried' = tried
  <2>1. LimiterTyped'
    BY <1>1, <1>2, <1>3, <1>4 DEF LimiterTyped
  <2>2. Covered'
    BY <1>1, <1>2, <1>4 DEF Covered, Slots, Tries
  <2>3. QED  BY <2>1, <2>2 DEF AttemptInv
<1>5. CASE attempts' = <<>> /\ tried' = <<>>
  <2>1. /\ attempts' \in Seq(Nat) /\ Len(attempts') = 0 /\ tried' \in Seq(Visitors \X Nat)
        /\ DOMAIN tried' = {}
    BY <1>5
  <2>2. LimiterTyped'
    BY <1>1, <1>2, <1>3, <2>1, LimiterNumbers DEF LimiterTyped
  <2>3. \A P : Cardinality(Times(<<>>, P)) = 0
    BY FS_EmptySet DEF Times
  <2>4. Covered'
    BY <1>1, <1>2, <1>5, <2>3 DEF LimiterTyped, Covered
  <2>5. QED  BY <2>2, <2>4 DEF AttemptInv
<1>6. QED  BY <1>2, <1>4, <1>5

\* Without one occurrence of e, the others are as many as before.
LEMMA WithoutFacts ==
    ASSUME NEW S, NEW q \in Seq(S), NEW e
    PROVE  /\ without(q, e) \in Seq(S)
           /\ \A i \in DOMAIN without(q, e) : \E k \in DOMAIN q : without(q, e)[i] = q[k]
           /\ \A P : Cardinality(Times(without(q, e), P))
                       = Cardinality(Times(q, P)) - (IF e \in Range(q) /\ e \in P THEN 1 ELSE 0)
<1> DEFINE at == {i \in DOMAIN q : q[i] = e}
           k0 == CHOOSE i \in at : TRUE
           K == DOMAIN q \ {k0}
<1>1. DOMAIN q = 1..Len(q) /\ (at = {} <=> e \notin Range(q))
  BY DEF Range
<1>2. ASSUME NEW P
      PROVE  IsFiniteSet(Times(q, P)) /\ Cardinality(Times(q, P)) \in Nat
  BY TimesFinite
<1>3. CASE at = {}
  <2>1. without(q, e) = q
    BY <1>3 DEF without
  <2>2. QED  BY <1>1, <1>2, <1>3, <2>1
<1>4. CASE at # {}
  <2>1. k0 \in DOMAIN q /\ q[k0] = e
    BY <1>4
  <2>2. without(q, e) = Entries(q, K) /\ K \in SUBSET (1..Len(q)) /\ K \subseteq DOMAIN q
    BY <1>1, <1>4 DEF without
  <2>3. e \in Range(q)
    BY <1>1, <1>4
  <2> HIDE DEF k0
  <2>4. ASSUME NEW P
        PROVE  {k \in K : q[k] \in P} = IF e \in P THEN Times(q, P) \ {k0} ELSE Times(q, P)
    BY <2>1 DEF Times
  <2>5. ASSUME NEW P
        PROVE  e \in P => k0 \in Times(q, P)
    BY <2>1 DEF Times
  <2> HIDE DEF K
  <2>6. /\ Entries(q, K) \in Seq(S)
        /\ \A i \in DOMAIN Entries(q, K) : \E k \in K : Entries(q, K)[i] = q[k]
        /\ \A P : Cardinality(Times(Entries(q, K), P)) = Cardinality({k \in K : q[k] \in P})
    BY <2>2, TimesKept
  <2>7. ASSUME NEW P
        PROVE  Cardinality({k \in K : q[k] \in P})
                 = Cardinality(Times(q, P)) - (IF e \in P THEN 1 ELSE 0)
    <3> DEFINE A == Times(q, P)
    <3>1. IsFiniteSet(A) /\ Cardinality(A) \in Nat /\ (e \in P => k0 \in A)
          /\ {k \in K : q[k] \in P} = IF e \in P THEN A \ {k0} ELSE A
      BY <1>2, <2>4, <2>5
    <3> HIDE DEF A
    <3>2. e \in P => Cardinality(A \ {k0}) = Cardinality(A) - 1
      BY <3>1, FS_RemoveElement
    <3>3. CASE e \in P
      <4>1. {k \in K : q[k] \in P} = A \ {k0}
        BY <3>1, <3>3
      <4>2. QED  BY <3>2, <3>3, <4>1 DEF A
    <3>4. CASE e \notin P
      <4>1. {k \in K : q[k] \in P} = A
        BY <3>1, <3>4
      <4>2. Cardinality({k \in K : q[k] \in P}) = Cardinality(A)
        BY <4>1
      <4> DEFINE c == Cardinality(A)
      <4>3. c = c - (IF e \in P THEN 1 ELSE 0)
        <5>1. c \in Nat
          BY <3>1
        <5> HIDE DEF c
        <5>2. QED  BY <3>4, <5>1
      <4>4. QED  BY <4>2, <4>3 DEF A
    <3>5. QED  BY <3>3, <3>4
  <2>8. QED  BY <2>2, <2>3, <2>6, <2>7
<1>5. QED  BY <1>3, <1>4

\* A release takes the newest slot: its own attempt's, or it is a stray.
LEMMA ReleaseCovers ==
    ASSUME AttemptInv, NEW v \in Visitors, Release(v)
    PROVE  AttemptInv'
<1> DEFINE mine == <<v, logins[v].at>>
           V == Visitors \X Nat
           front == SubSeq(attempts, 1, Len(attempts) - 1)
           stray == attempts # <<>> /\ (Last(attempts) # logins[v].at \/ mine \notin Range(tried))
<1>1. LimiterTyped /\ Covered
  BY DEF AttemptInv
<1>2. /\ now' = now /\ logins' = [logins EXCEPT ![v] = [pc |-> "away", at |-> 0]]
      /\ attempts' = front /\ tried' = without(tried, mine)
      /\ strays' = IF stray THEN strays + 1 ELSE strays
  BY DEF Release, Leaves
<1>3. /\ logins' \in [Visitors -> [pc : {"away", "trying"}, at : Nat]]
      /\ logins[v].at \in Nat /\ strays' \in Nat /\ strays \in Nat
  BY <1>1, <1>2 DEF LimiterTyped
<1>4. tried \in Seq(V) /\ attempts \in Seq(Nat) /\ mine[2] = logins[v].at /\ mine \in V
  BY <1>1, <1>3 DEF LimiterTyped
<1> HIDE DEF V
<1>5. /\ tried' \in Seq(V)
      /\ \A i \in DOMAIN tried' : \E k \in DOMAIN tried : tried'[i] = tried[k]
      /\ \A P : Cardinality(Times(tried', P))
                  = Cardinality(Times(tried, P)) - (IF mine \in Range(tried) /\ mine \in P THEN 1 ELSE 0)
  <2> DEFINE q == tried
  <2>1. q \in Seq(V)
    BY <1>4
  <2> HIDE DEF q, mine
  <2>2. /\ without(q, mine) \in Seq(V)
        /\ \A i \in DOMAIN without(q, mine) : \E k \in DOMAIN q : without(q, mine)[i] = q[k]
        /\ \A P : Cardinality(Times(without(q, mine), P))
                    = Cardinality(Times(q, P)) - (IF mine \in Range(q) /\ mine \in P THEN 1 ELSE 0)
    BY <2>1, WithoutFacts
  <2>3. QED  BY <1>2, <2>2 DEF q
<1>6. /\ front \in Seq(Nat) /\ Len(front) <= Len(attempts)
      /\ attempts = <<>> => front = <<>>
      /\ attempts # <<>> => \A P : Cardinality(Times(attempts, P))
                                     = Cardinality(Times(front, P)) + (IF Last(attempts) \in P THEN 1 ELSE 0)
  <2>1. CASE attempts = <<>>
    <3>1. 1 \in Int /\ Len(attempts) - 1 \in Int /\ Len(attempts) - 1 < 1 /\ Len(attempts) = 0
      BY <2>1
    <3>2. front = <<>>
      BY <3>1, SubSeqEmpty
    <3>3. QED  BY <2>1, <3>2
  <2>2. CASE attempts # <<>>
    <3>1. front \in Seq(Nat) /\ Len(front) = Len(attempts) - 1 /\ Len(attempts) \in Nat
      <4> DEFINE q == attempts
      <4>1. q \in Seq(Nat) /\ q # <<>> /\ Len(q) \in Nat
        BY <1>4, <2>2
      <4> HIDE DEF q
      <4>2. SubSeq(q, 1, Len(q) - 1) \in Seq(Nat) /\ Len(SubSeq(q, 1, Len(q) - 1)) = Len(q) - 1
        BY <4>1, TimesFront
      <4>3. QED  BY <4>1, <4>2 DEF q
    <3>2. ASSUME NEW P
          PROVE  Cardinality(Times(attempts, P))
                   = Cardinality(Times(front, P)) + (IF Last(attempts) \in P THEN 1 ELSE 0)
      <4> DEFINE q == attempts
      <4>1. q \in Seq(Nat) /\ q # <<>>
        BY <1>4, <2>2
      <4> HIDE DEF q
      <4>2. Cardinality(Times(q, P)) = Cardinality(Times(SubSeq(q, 1, Len(q) - 1), P))
                                         + (IF Last(q) \in P THEN 1 ELSE 0)
        BY <4>1, TimesFront
      <4>3. QED  BY <4>2 DEF q
    <3>3. QED  BY <2>2, <3>1, <3>2
  <2>3. QED  BY <2>1, <2>2
<1> HIDE DEF front
<1>7. LimiterTyped'
  <2>1. \A i \in DOMAIN tried' : tried'[i][2] > now - AttemptWindow
    BY <1>1, <1>5 DEF LimiterTyped
  <2>2. attempts' \in Seq(Nat) /\ Len(attempts') <= AttemptLimit
    <3>1. Len(attempts) \in Nat /\ Len(attempts) <= AttemptLimit /\ Len(front) \in Nat
      BY <1>1, <1>6 DEF LimiterTyped
    <3>2. QED  BY <1>2, <1>6, <3>1, LimiterNumbers
  <2>3. QED  BY <1>1, <1>2, <1>3, <1>5, <2>1, <2>2 DEF LimiterTyped, V
<1>8. ASSUME NEW t \in Int, t >= now - AttemptWindow
      PROVE  Cardinality(Times(tried', Tries(t))) <= Cardinality(Times(attempts', Slots(t))) + strays'
  <2> DEFINE n == Cardinality(Times(tried, Tries(t)))
             m == Cardinality(Times(attempts, Slots(t)))
             k == Cardinality(Times(front, Slots(t)))
             gone == mine \in Range(tried) /\ mine \in Tries(t)
  <2>1. n \in Nat /\ m \in Nat /\ k \in Nat /\ n <= m + strays
    BY <1>1, <1>4, <1>6, <1>8, TimesFinite DEF Covered
  <2>2. Cardinality(Times(tried', Tries(t))) = n - (IF gone THEN 1 ELSE 0)
    BY <1>5
  <2>3. attempts = <<>> => m = k
    BY <1>6
  <2>4. attempts # <<>> => m = k + (IF Last(attempts) \in Slots(t) THEN 1 ELSE 0)
    BY <1>6
  <2>5. attempts # <<>> /\ ~stray => (gone <=> Last(attempts) \in Slots(t))
    BY <1>3, <1>4 DEF Tries, Slots, V
  <2>6. attempts = <<>> => ~stray
    OBVIOUS
  <2> HIDE DEF n, m, k, gone, stray
  <2>7. n - (IF gone THEN 1 ELSE 0) <= k + strays'
    <3>1. CASE stray
      BY <1>2, <1>3, <2>1, <2>4, <2>6, <3>1
    <3>2. CASE ~stray
      BY <1>2, <1>3, <2>1, <2>3, <2>4, <2>5, <3>2
    <3>3. QED  BY <3>1, <3>2
  <2>8. QED  BY <1>2, <2>2, <2>7 DEF k
<1>9. Covered'
  BY <1>2, <1>8 DEF Covered, Slots, Tries
<1>10. QED  BY <1>7, <1>9 DEF AttemptInv

\* The window moves on and forgets attempts, never slots.
LEMMA TickCovers ==
    ASSUME AttemptInv, Tick
    PROVE  AttemptInv'
<1> DEFINE K == {i \in DOMAIN tried : tried[i][2] > now' - AttemptWindow}
           V == Visitors \X Nat
<1>1. LimiterTyped /\ Covered
  BY DEF AttemptInv
<1>2. /\ now' = now + 1 /\ strays' = strays /\ attempts' = attempts /\ logins' = logins
      /\ tried' = Entries(tried, K)
  BY DEF Tick
<1>3. /\ now \in Nat /\ now' \in Nat /\ tried \in Seq(V) /\ DOMAIN tried = 1..Len(tried)
      /\ \A i \in DOMAIN tried : tried[i] \in V /\ tried[i][2] \in Nat
      /\ K \in SUBSET (1..Len(tried))
  <2>1. now \in Nat /\ now' \in Nat /\ tried \in Seq(Visitors \X Nat)
    BY <1>1, <1>2 DEF LimiterTyped
  <2>2. DOMAIN tried = 1..Len(tried) /\ \A i \in DOMAIN tried : tried[i] \in Visitors \X Nat
    BY <2>1
  <2>3. \A e \in Visitors \X Nat : e[2] \in Nat
    OBVIOUS
  <2>4. QED  BY <2>1, <2>2, <2>3
<1>4. \A k \in K : tried[k][2] > now' - AttemptWindow
  OBVIOUS
<1>5. ASSUME NEW t \in Int, t >= now' - AttemptWindow
      PROVE  {k \in K : tried[k] \in Tries(t)} = Times(tried, Tries(t))
  BY <1>3, <1>5, LimiterNumbers DEF Times, Tries
<1> HIDE DEF K, V
<1>6. /\ tried' \in Seq(V)
      /\ \A i \in DOMAIN tried' : \E k \in K : tried'[i] = tried[k]
      /\ \A P : Cardinality(Times(tried', P)) = Cardinality({k \in K : tried[k] \in P})
  <2> DEFINE q == tried
  <2>1. q \in Seq(V) /\ K \in SUBSET (1..Len(q))
    BY <1>3
  <2> HIDE DEF q
  <2>2. /\ Entries(q, K) \in Seq(V)
        /\ \A i \in DOMAIN Entries(q, K) : \E k \in K : Entries(q, K)[i] = q[k]
        /\ \A P : Cardinality(Times(Entries(q, K), P)) = Cardinality({k \in K : q[k] \in P})
    BY <2>1, TimesKept
  <2>3. QED  BY <1>2, <2>2 DEF q
<1>7. LimiterTyped'
  <2>1. \A i \in DOMAIN tried' : tried'[i][2] > now' - AttemptWindow
    BY <1>4, <1>6
  <2>2. QED  BY <1>1, <1>2, <1>3, <1>6, <2>1 DEF LimiterTyped, V
<1>8. ASSUME NEW t \in Int, t >= now' - AttemptWindow
      PROVE  Cardinality(Times(tried', Tries(t))) <= Cardinality(Times(attempts, Slots(t))) + strays
  <2>1. t >= now - AttemptWindow
    BY <1>2, <1>3, <1>8, LimiterNumbers
  <2>2. QED  BY <1>1, <1>5, <1>6, <1>8, <2>1 DEF Covered
<1>9. Covered'
  BY <1>2, <1>8 DEF Covered, Slots, Tries
<1>10. QED  BY <1>7, <1>9 DEF AttemptInv

\* Before the first request nothing is remembered.
LEMMA InitCovers == Init => AttemptInv
<1> SUFFICES ASSUME Init PROVE AttemptInv
  OBVIOUS
<1>1. /\ now = 0 /\ attempts = <<>> /\ strays = 0 /\ tried = <<>>
      /\ logins = [v \in Visitors |-> [pc |-> "away", at |-> 0]]
  BY DEF Init
<1>2. attempts \in Seq(Nat) /\ Len(attempts) = 0 /\ tried \in Seq(Visitors \X Nat) /\ DOMAIN tried = {}
  BY <1>1
<1>3. LimiterTyped
  BY <1>1, <1>2, LimiterNumbers DEF LimiterTyped
<1>4. \A P : Cardinality(Times(<<>>, P)) = 0
  BY FS_EmptySet DEF Times
<1>5. Covered
  BY <1>1, <1>4 DEF Covered
<1>6. QED  BY <1>3, <1>5 DEF AttemptInv

\* Every request and the passing of time keep the attempts covered.
LEMMA StepCovers == AttemptInv /\ [Next]_vars => AttemptInv'
<1> SUFFICES ASSUME AttemptInv, [Next]_vars PROVE AttemptInv'
  OBVIOUS
<1>1. CASE LogIn
  BY <1>1, ReserveCovers, LeavingCovers, ReleaseCovers DEF LogIn
<1>2. CASE Tick
  BY <1>2, TickCovers
<1>3. CASE Ingest \/ Categorise \/ Read \/ (\E d \in Devices : DeleteDevice(d)) \/ UNCHANGED vars
  <2>1. UNCHANGED limiter
    <3>1. CASE Categorise
      BY <3>1 DEF Categorise, LockUser, CountCategories, InsertCategory, Rollback, UpdateCategory,
                  DeleteCategory, Recategorise
    <3>2. CASE Read
      BY <3>2 DEF Read, ReadRecords, ReadAssignments, ReadCategories, ClosePage, OpenEditor,
                  NextPage, CloseEditor
    <3>3. CASE Ingest \/ (\E d \in Devices : DeleteDevice(d)) \/ UNCHANGED vars
      BY <3>3 DEF Ingest, DeleteDevice, vars
    <3>4. QED  BY <1>3, <3>1, <3>2, <3>3
  <2>2. UNCHANGED <<now, attempts, logins, tried, strays>>
    BY <2>1 DEF limiter
  <2>3. QED  BY <2>2 DEF AttemptInv, LimiterTyped, Covered, Slots, Tries
<1>4. QED  BY <1>1, <1>2, <1>3 DEF Next

\* In any window no host has more attempts that failed or are under way than
\* the limit, but for those whose slot another request's release took, however
\* many requests reserve, fail, release and succeed at once (middleware.go:
\* attemptLimiter).
THEOREM AttemptLimited == Spec => []AttemptsBounded
<1>1. Spec => []AttemptInv
  BY InitCovers, StepCovers, PTL DEF Spec
<1>2. QED  BY <1>1, CoveredIsBound, PTL
-----------------------------------------------------------------------------
(* The record editor.                                                      *)

\* Every set of natural numbers that is not empty has a least element.
LEMMA Least ==
    ASSUME NEW S \in SUBSET Nat, S # {}
    PROVE  Min(S) \in S /\ \A y \in S : Min(S) <= y
<1> DEFINE Below == OpToRel(<, Nat)
<1>1. IsWellFoundedOn(Below, Nat)
  BY NatLessThanWellFounded
<1>2. \A x, y \in Nat : x < y => <<x, y>> \in Below
  BY DEF OpToRel
<1> HIDE DEF Below
<1>3. \E x \in S : \A y \in S : ~ (<<y, x>> \in Below)
  <2>1. S \subseteq Nat
    OBVIOUS
  <2>2. QED  BY <1>1, <2>1, WFMin
<1>4. \E x \in S : \A y \in S : x <= y
  <2>1. PICK x \in S : \A y \in S : ~ (<<y, x>> \in Below)
    BY <1>3
  <2>2. \A y \in S : ~ (y < x)
    BY <1>2, <2>1
  <2>3. \A y \in S : x <= y
    BY <2>2
  <2>4. QED  BY <2>3
<1>5. QED  BY <1>4 DEF Min

\* A set of positions of a sequence has a last one.
LEMMA Greatest ==
    ASSUME NEW n \in Nat, NEW S \in SUBSET (1..n), S # {}
    PROVE  Max(S) \in S /\ \A y \in S : y <= Max(S)
<1> DEFINE Mirror == {n - i : i \in S}
<1>1. Mirror \in SUBSET Nat /\ Mirror # {}
  <2>1. \A i \in S : n - i \in Nat
    OBVIOUS
  <2>2. QED  BY <2>1
<1>2. PICK i \in S : n - i = Min(Mirror)
  BY <1>1, Least
<1>3. \A j \in S : n - i <= n - j
  BY <1>1, <1>2, Least
<1>4. \A j \in S : i >= j
  BY <1>3
<1>5. QED  BY <1>4 DEF Max

\* What is ordered by end and id.
Keyed(S) == /\ \A r \in S : r.end \in Int /\ r.id \in Nat
            /\ \A r, x \in S : r.id = x.id => r = x

\* The order of the pages is a strict order of rows with different ids.
LEMMA AheadOrders ==
    ASSUME NEW a, NEW b, a.end \in Int, a.id \in Nat, b.end \in Int, b.id \in Nat
    PROVE  /\ ~ahead(a, a) /\ ~(ahead(a, b) /\ ahead(b, a))
           /\ a.id # b.id => ahead(a, b) \/ ahead(b, a)
           /\ \A c : c.end \in Int /\ c.id \in Nat =>
                /\ ahead(a, b) /\ ahead(b, c) => ahead(a, c)
                /\ ~ahead(a, b) /\ ahead(a, c) => ahead(b, c)
  BY DEF ahead

\* The rows ahead of a row are counted.
LEMMA RankFacts ==
    ASSUME NEW S, IsFiniteSet(S), Keyed(S), NEW r \in S
    PROVE  /\ IsFiniteSet({y \in S : ahead(y, r)}) /\ Cardinality({y \in S : ahead(y, r)}) \in Nat
           /\ Cardinality({y \in S : ahead(y, r)}) < Cardinality(S) /\ Cardinality(S) \in Nat
           /\ \A x \in S : ahead(x, r) => Cardinality({y \in S : ahead(y, x)})
                                            < Cardinality({y \in S : ahead(y, r)})
<1> DEFINE F(x) == {y \in S : ahead(y, x)}
<1>1. ASSUME NEW A, NEW B, IsFiniteSet(B), A \subseteq B, A # B
      PROVE  /\ IsFiniteSet(A) /\ Cardinality(A) \in Nat /\ Cardinality(B) \in Nat
             /\ Cardinality(A) < Cardinality(B)
  <2>1. IsFiniteSet(A) /\ Cardinality(A) <= Cardinality(B) /\ (Cardinality(A) = Cardinality(B) => A = B)
    BY <1>1, FS_Subset
  <2>2. Cardinality(A) \in Nat /\ Cardinality(B) \in Nat
    BY <1>1, <2>1, FS_CardinalityType
  <2>3. QED  BY <1>1, <2>1, <2>2
<1>2. r \notin F(r)
  BY AheadOrders DEF Keyed
<1>3. F(r) \subseteq S /\ F(r) # S
  BY <1>2
<1>4. IsFiniteSet(F(r)) /\ Cardinality(F(r)) \in Nat /\ Cardinality(F(r)) < Cardinality(S)
      /\ Cardinality(S) \in Nat
  <2> HIDE DEF F
  <2>1. QED  BY <1>1, <1>3
<1>5. ASSUME NEW x \in S, ahead(x, r)
      PROVE  Cardinality(F(x)) < Cardinality(F(r))
  <2>1. \A y \in S : ahead(y, x) => ahead(y, r)
    BY <1>5, AheadOrders DEF Keyed
  <2>2. x \in F(r) /\ x \notin F(x)
    BY <1>5, AheadOrders DEF Keyed
  <2>3. F(x) \subseteq F(r) /\ F(x) # F(r)
    BY <2>1, <2>2
  <2> HIDE DEF F
  <2>4. QED  BY <1>1, <1>4, <2>3
<1>6. QED  BY <1>4, <1>5

\* A page: all of it if there are no more, and else a part with a last row,
\* ahead of all that is left over.
LEMMA PageFacts ==
    ASSUME NEW S, IsFiniteSet(S), Keyed(S), NEW n \in Nat, n > 0
    PROVE  /\ foremost(S, n) \subseteq S
           /\ ~(Cardinality(S) > n) => foremost(S, n) = S
           /\ Cardinality(S) > n =>
                /\ rearmost(foremost(S, n)) \in foremost(S, n)
                /\ \A x \in foremost(S, n) :
                     x = rearmost(foremost(S, n)) \/ ahead(x, rearmost(foremost(S, n)))
                /\ \A x \in S \ foremost(S, n) : ahead(rearmost(foremost(S, n)), x)
<1> DEFINE rank(x) == Cardinality({y \in S : ahead(y, x)})
           kept == foremost(S, n)
<1>1. /\ \A x \in S : rank(x) \in Nat /\ rank(x) < Cardinality(S) /\ Cardinality(S) \in Nat
      /\ \A x, y \in S : ahead(x, y) => rank(x) < rank(y)
  BY RankFacts
<1>2. kept = {x \in S : rank(x) < n}
  BY DEF foremost
<1>3. \A x, y \in S : x = y \/ ahead(x, y) \/ ahead(y, x)
  BY AheadOrders DEF Keyed
<1> HIDE DEF rank, kept
<1>4. ~(Cardinality(S) > n) => kept = S
  BY <1>1, <1>2
<1>5. ASSUME Cardinality(S) > n
      PROVE  \E r \in kept : \A x \in kept : x = r \/ ahead(x, r)
  <2>1. S # {}
    BY <1>5, FS_EmptySet
  <2> DEFINE ranks == {rank(x) : x \in S}
  <2>2. ranks \in SUBSET Nat /\ ranks # {}
    BY <1>1, <2>1
  <2>3. PICK r0 \in S : \A y \in ranks : rank(r0) <= y
    <3>1. Min(ranks) \in ranks /\ \A y \in ranks : Min(ranks) <= y
      BY <2>2, Least
    <3>2. QED  BY <3>1
  <2>4. \A y \in S : ~ahead(y, r0)
    <3>1. ASSUME NEW y \in S, ahead(y, r0)
          PROVE  FALSE
      <4>1. rank(y) < rank(r0) /\ rank(r0) <= rank(y) /\ rank(y) \in Nat /\ rank(r0) \in Nat
        BY <1>1, <2>3, <3>1
      <4>2. QED  BY <4>1
    <3>2. QED  BY <3>1
  <2>5. rank(r0) = 0
    <3>1. {y \in S : ahead(y, r0)} = {}
      BY <2>4
    <3>2. QED  BY <3>1, FS_EmptySet DEF rank
  <2>6. r0 \in kept
    BY <1>2, <2>5
  <2> DEFINE low == {rank(x) + 1 : x \in kept}
  <2>7. low \in SUBSET (1..n) /\ low # {}
    <3>1. \A x \in kept : rank(x) \in Nat /\ rank(x) < n
      BY <1>1, <1>2
    <3>2. \A x \in kept : rank(x) + 1 \in 1..n
      BY <3>1
    <3>3. QED  BY <2>6, <3>2
  <2>8. PICK r \in kept : \A y \in low : y <= rank(r) + 1
    <3>1. Max(low) \in low /\ \A y \in low : y <= Max(low)
      BY <2>7, Greatest
    <3>2. QED  BY <3>1
  <2>9. ASSUME NEW x \in kept
        PROVE  x = r \/ ahead(x, r)
    <3>1. x \in S /\ r \in S /\ rank(x) + 1 <= rank(r) + 1
      BY <1>2, <2>8
    <3>2. ~ahead(r, x)
      BY <1>1, <3>1
    <3>3. QED  BY <1>3, <3>1, <3>2
  <2>10. QED  BY <2>9
<1>6. Cardinality(S) > n => /\ rearmost(kept) \in kept
                            /\ \A x \in kept : x = rearmost(kept) \/ ahead(x, rearmost(kept))
  BY <1>5 DEF rearmost
<1>7. ASSUME NEW r \in kept, NEW x \in S \ kept
      PROVE  ahead(r, x)
  <2>1. x \in S /\ r \in S /\ r # x /\ rank(r) \in Nat /\ rank(x) \in Nat /\ rank(r) < n /\ ~(rank(x) < n)
    BY <1>1, <1>2, <1>7
  <2>2. ~ahead(x, r)
    BY <1>1, <2>1
  <2>3. QED  BY <1>3, <2>1, <2>2
<1>8. kept \subseteq S
  BY <1>2
<1>9. QED  BY <1>4, <1>6, <1>7, <1>8 DEF kept

\* The filter in SQL finds every record that goes by the name.
LEMMA SubjectAgrees ==
    ASSUME NEW r
    PROVE  editableSubject(canonicalAppName(r), r)
<1> DEFINE P == familyForProducer(r.producer)
           D == familyForDesktopName(r.app)
           name == canonicalAppName(r)
           known == {f \in browserFamilies : f.canonical = name}
<1>1. name = LET family == IF P # {} THEN P ELSE D
             IN  IF family = {} THEN r.app ELSE (CHOOSE f \in family : TRUE).canonical
  BY DEF canonicalAppName
<1>2. /\ P = {f \in browserFamilies : f.producer = r.producer}
      /\ D = {f \in browserFamilies : AppKeys[r.app] \in f.desktopKeys}
  BY DEF familyForProducer, familyForDesktopName
<1>3. editableSubject(name, r) <=>
        IF known = {} THEN ~(P # {}) /\ r.app = name
        ELSE \E f \in known : r.producer = f.producer \/ (~(P # {}) /\ AppKeys[r.app] \in f.desktopKeys)
  BY DEF editableSubject
<1> HIDE DEF P, D, name
<1>4. CASE P # {}
  <2>1. PICK f \in P : name = f.canonical
    BY <1>1, <1>4
  <2>2. f \in known /\ r.producer = f.producer
    BY <1>2, <2>1
  <2>3. QED  BY <1>3, <2>2 DEF name
<1>5. CASE P = {} /\ D # {}
  <2>1. PICK f \in D : name = f.canonical
    BY <1>1, <1>5
  <2>2. f \in known /\ AppKeys[r.app] \in f.desktopKeys
    BY <1>2, <2>1
  <2>3. QED  BY <1>3, <1>5, <2>2 DEF name
<1>6. CASE P = {} /\ D = {}
  <2>1. name = r.app
    BY <1>1, <1>6
  <2>2. \A f \in known : f \in D
    BY <1>2, <2>1, FamilyAssumption
  <2>3. known = {}
    BY <1>6, <2>2
  <2>4. QED  BY <1>3, <1>6, <2>1, <2>3 DEF name
<1>7. QED  BY <1>4, <1>5, <1>6

\* A row that is stored keeps its times and gets a new number.
LEMMA NumberedFacts ==
    ASSUME NEW a \in Accounts, NEW row \in a.rows
    PROVE  /\ numbered(row).id = nextRecord
           /\ numbered(row).start = row.start /\ numbered(row).end = row.end
           /\ row.start \in Int /\ row.end \in Int
<1>1. /\ DOMAIN row = {"device", "producer", "app", "url", "title", "start", "end"}
      /\ row.start \in Int /\ row.end \in Int
  BY WebAssumption DEF AccountType
<1>2. numbered(row) = [x \in DOMAIN row \union {"id"} |-> IF x = "id" THEN nextRecord ELSE row[x]]
  BY DEF numbered, with
<1>3. "id" \notin DOMAIN row /\ "start" \in DOMAIN row /\ "end" \in DOMAIN row
  BY <1>1
<1>4. numbered(row)["id"] = nextRecord /\ numbered(row)["start"] = row["start"]
      /\ numbered(row)["end"] = row["end"]
  BY <1>2, <1>3
<1>5. QED  BY <1>1, <1>4

\* Rows come with new numbers and go with their device.
LEMMA NumbersKept ==
    ASSUME RecordsNumbered, [Next]_vars
    PROVE  /\ RecordsNumbered'
           /\ account' = account /\ nextRecord' \in Nat /\ nextRecord <= nextRecord'
           /\ \A r \in records' : r \in records \/ r.id = nextRecord
<1>1. account' = account
  BY DEF Next, Ingest, Categorise, LockUser, CountCategories, InsertCategory, Rollback, UpdateCategory,
         DeleteCategory, Recategorise, Read, ReadRecords, ReadAssignments, ReadCategories, ClosePage,
         OpenEditor, NextPage, CloseEditor, LogIn, Reserve, Leaves, Fails, Release, Succeeds, Tick,
         DeleteDevice, vars
<1>2. CASE Ingest
  <2>1. PICK row \in account.rows : /\ records' = records \union {numbered(row)}
                                    /\ nextRecord' = nextRecord + 1
    BY <1>2 DEF Ingest
  <2>2. numbered(row).id = nextRecord /\ numbered(row).end \in Int
    BY NumberedFacts DEF RecordsNumbered
  <2>3. IsFiniteSet(records')
    BY <2>1, FS_AddElement DEF RecordsNumbered
  <2>4. \A r \in records' : r.id \in Nat /\ r.id < nextRecord' /\ r.end \in Int
    BY <2>1, <2>2 DEF RecordsNumbered
  <2>5. \A r, x \in records' : r.id = x.id => r = x
    <3>1. \A r \in records : r.id # nextRecord
      BY DEF RecordsNumbered
    <3>2. QED  BY <2>1, <2>2, <3>1 DEF RecordsNumbered
  <2>6. QED  BY <1>1, <2>1, <2>2, <2>3, <2>4, <2>5 DEF RecordsNumbered
<1>3. ASSUME NEW d \in Devices, DeleteDevice(d)
      PROVE  records' \subseteq records /\ nextRecord' = nextRecord
  BY <1>3 DEF DeleteDevice
<1>4. CASE Categorise \/ Read \/ LogIn \/ Tick \/ UNCHANGED vars
  <2>1. UNCHANGED <<records, nextRecord>>
    <3>1. CASE Categorise
      BY <3>1 DEF Categorise, LockUser, CountCategories, InsertCategory, Rollback, UpdateCategory,
                  DeleteCategory, Recategorise, tables
    <3>2. CASE Read
      BY <3>2 DEF Read, ReadRecords, ReadAssignments, ReadCategories, ClosePage, OpenEditor,
                  NextPage, CloseEditor, tables
    <3>3. CASE LogIn \/ Tick \/ UNCHANGED vars
      BY <3>3 DEF LogIn, Reserve, Leaves, Fails, Release, Succeeds, Tick, tables, vars
    <3>4. QED  BY <1>4, <3>1, <3>2, <3>3
  <2>2. QED  BY <1>1, <2>1 DEF RecordsNumbered
<1>5. CASE \E d \in Devices : DeleteDevice(d)
  <2>1. IsFiniteSet(records')
    BY <1>3, <1>5, FS_Subset DEF RecordsNumbered
  <2>2. QED  BY <1>1, <1>3, <1>5, <2>1 DEF RecordsNumbered
<1>6. QED  BY <1>2, <1>4, <1>5 DEF Next

\* A sequence of pages and one more.
LEMMA PagesGrow ==
    ASSUME NEW S, NEW q \in Seq(SUBSET S), NEW p \in SUBSET S
    PROVE  /\ Append(q, p) \in Seq(SUBSET S)
           /\ UNION Range(Append(q, p)) = (UNION Range(q)) \union p
           /\ (\A i, j \in DOMAIN q : i < j => q[i] \intersect q[j] = {})
              /\ p \intersect (UNION Range(q)) = {}
              => \A i, j \in DOMAIN Append(q, p) : i < j => Append(q, p)[i] \intersect Append(q, p)[j] = {}
<1> DEFINE a == Append(q, p)
           n == Len(q)
<1>1. /\ a \in Seq(SUBSET S) /\ n \in Nat /\ DOMAIN q = 1..n /\ DOMAIN a = 1..(n + 1)
      /\ \A i \in 1..n : a[i] = q[i]
      /\ a[n + 1] = p
  OBVIOUS
<1> HIDE DEF a, n
<1>2. Range(a) = Range(q) \union {p}
  <2>1. \A i \in 1..(n + 1) : i \in 1..n \/ i = n + 1
    BY <1>1
  <2>2. 1..n \subseteq 1..(n + 1) /\ n + 1 \in 1..(n + 1)
    BY <1>1
  <2>3. Range(a) \subseteq Range(q) \union {p}
    BY <1>1, <2>1 DEF Range
  <2>4. Range(q) \subseteq Range(a) /\ p \in Range(a)
    BY <1>1, <2>2 DEF Range
  <2>5. QED  BY <2>3, <2>4
<1>3. UNION Range(a) = (UNION Range(q)) \union p
  BY <1>2
<1>4. ASSUME \A i, j \in DOMAIN q : i < j => q[i] \intersect q[j] = {}, p \intersect (UNION Range(q)) = {},
             NEW i \in 1..(n + 1), NEW j \in 1..(n + 1), i < j
      PROVE  a[i] \intersect a[j] = {}
  <2>1. i \in 1..n
    BY <1>1, <1>4
  <2>2. CASE j \in 1..n
    BY <1>1, <1>4, <2>1, <2>2
  <2>3. CASE j = n + 1
    <3>1. a[i] \in Range(q) /\ a[j] = p
      BY <1>1, <2>1, <2>3 DEF Range
    <3>2. QED  BY <1>4, <3>1
  <2>4. QED  BY <1>1, <2>2, <2>3
<1>5. QED  BY <1>1, <1>3, <1>4 DEF a

\* The fields of an editor.
EditorFields == {"pc", "app", "cursor", "shown", "present"}

\* A reader at rest keeps his place while rows come with new numbers and go.
LEMMA ReaderWaits ==
    ASSUME RecordsNumbered, ReaderInv, account' = account, nextRecord' \in Nat, nextRecord <= nextRecord',
           \A r \in records' : r \in records \/ r.id = nextRecord,
           DOMAIN editor' = DOMAIN editor, editor'.pc = editor.pc, editor'.app = editor.app,
           editor'.cursor = editor.cursor, editor'.shown = editor.shown,
           editor'.present \subseteq editor.present, editor'.present \subseteq {r.id : r \in records'}
    PROVE  ReaderInv'
<1>1. Seen' = Seen /\ nextRecord \in Nat
  BY DEF Seen, RecordsNumbered
<1>2. \A i \in Seen : i < nextRecord
  <2>1. editor.shown \in Seq(SUBSET (0..(nextRecord - 1)))
    BY DEF ReaderInv
  <2>2. Range(editor.shown) \subseteq SUBSET (0..(nextRecord - 1))
    BY <2>1 DEF Range
  <2>3. Seen \subseteq 0..(nextRecord - 1)
    BY <2>2 DEF Seen
  <2>4. QED  BY <1>1, <2>3
<1>3. \A i \in editor.present : i < nextRecord
  BY DEF ReaderInv, RecordsNumbered
<1>4. \A r \in records' : r.id \in Seen \/ r.id \in editor.present => r \in records
  <2>1. ~(nextRecord < nextRecord)
    BY <1>1
  <2>2. QED  BY <1>2, <1>3, <2>1
<1>5. editor.shown \in Seq(SUBSET (0..(nextRecord' - 1)))
  <2>1. SUBSET (0..(nextRecord - 1)) \subseteq SUBSET (0..(nextRecord' - 1))
    <3>1. \A m, n \in Nat : m <= n => 0..(m - 1) \subseteq 0..(n - 1)
      OBVIOUS
    <3>2. QED  BY <1>1, <3>1
  <2> DEFINE A == SUBSET (0..(nextRecord - 1))
             B == SUBSET (0..(nextRecord' - 1))
             q == editor.shown
  <2>2. q \in Seq(A) /\ A \subseteq B
    BY <2>1 DEF ReaderInv
  <2> HIDE DEF A, B, q
  <2>3. q \in Seq(B)
    <3>1. Len(q) \in Nat /\ q \in [1..Len(q) -> A]
      BY <2>2
    <3>2. q \in [1..Len(q) -> B]
      BY <2>2, <3>1
    <3>3. QED  BY <3>1, <3>2
  <2>4. QED  BY <2>3 DEF B, q
<1>6. editor.pc = "open" => CursorInv'
  <2>1. SUFFICES ASSUME CursorInv
                 PROVE  CursorInv'
    BY DEF ReaderInv
  <2>2. editor'.cursor = {} => editor'.shown = <<>>
    BY <2>1 DEF CursorInv
  <2>3. \A c \in editor'.cursor : c.end \in Int /\ c.id \in Nat
    BY <2>1 DEF CursorInv
  <2>4. \A r \in records', c \in editor'.cursor : r.id \in Seen => ~ahead(c, r)
    BY <1>4, <2>1 DEF CursorInv
  <2>5. \A r \in records' :
          r.id \in editor'.present =>
             /\ r.start < account.window.end /\ r.end > account.window.start
             /\ editableSubject(editor.app, r)
             /\ r.id \in Seen \/ \A c \in editor.cursor : ahead(c, r)
    BY <1>4, <2>1 DEF CursorInv
  <2>6. QED  BY <1>1, <2>2, <2>3, <2>4, <2>5 DEF CursorInv
<1>7. QED  BY <1>1, <1>5, <1>6 DEF ReaderInv, NoEditor

\* Whoever opens an editor has seen nothing, and all of it lies before him.
LEMMA ReaderOpens ==
    ASSUME RecordsNumbered, NEW app, OpenEditor(app)
    PROVE  ReaderInv'
<1>1. /\ editor' = [NoEditor EXCEPT !.pc = "open", !.app = app, !.present = shownBy(app, account.window)]
      /\ UNCHANGED <<account, records, nextRecord>>
  BY DEF OpenEditor, tables
<1>2. /\ DOMAIN editor' = DOMAIN NoEditor /\ editor'.pc = "open" /\ editor'.app = app
      /\ editor'.cursor = {} /\ editor'.shown = <<>> /\ editor'.present = shownBy(app, account.window)
  BY <1>1 DEF NoEditor
<1>3. \A r \in records : r.id \in shownBy(app, account.window) =>
        /\ r.start < account.window.end /\ r.end > account.window.start
        /\ editableSubject(app, r)
  <2>1. TAKE r \in records
  <2>2. HAVE r.id \in shownBy(app, account.window)
  <2>3. PICK x \in records : /\ x.id = r.id /\ x.start < account.window.end
                             /\ x.end > account.window.start /\ canonicalAppName(x) = app
    BY <2>2 DEF shownBy
  <2>4. x = r
    BY <2>3 DEF RecordsNumbered
  <2>5. QED  BY <2>3, <2>4, SubjectAgrees
<1>4. CursorInv'
  BY <1>1, <1>2, <1>3 DEF CursorInv
<1>5. shownBy(app, account.window) \subseteq {r.id : r \in records}
  BY DEF shownBy
<1>6. editor'.shown \in Seq(SUBSET (0..(nextRecord' - 1))) /\ DOMAIN editor'.shown = {}
  BY <1>2
<1>7. QED  BY <1>1, <1>2, <1>4, <1>5, <1>6 DEF ReaderInv, NoEditor

\* A closed editor holds nothing.
LEMMA ReaderCloses ==
    ASSUME editor' = NoEditor
    PROVE  ReaderInv'
<1>1. /\ DOMAIN editor' = DOMAIN NoEditor /\ editor'.pc = "closed"
      /\ editor'.shown = <<>> /\ editor'.present = {}
  BY DEF NoEditor
<1>2. editor'.shown \in Seq(SUBSET (0..(nextRecord' - 1))) /\ DOMAIN editor'.shown = {}
  BY <1>1
<1>3. QED  BY <1>1, <1>2 DEF ReaderInv, NoEditor

\* A page shows what comes next and has not been seen; what it leaves lies
\* behind its cursor, or nothing is left.
LEMMA ReaderTurns ==
    ASSUME RecordsNumbered, ReaderInv, NextPage
    PROVE  ReaderInv'
<1> DEFINE rows == editableRows(editor.app, editor.cursor, account.window)
           kept == foremost(rows, PageLimit)
           last == rearmost(kept)
           ids == {r.id : r \in kept}
           more == Cardinality(rows) > PageLimit
           next == IF more THEN {[end |-> last.end, id |-> last.id]} ELSE {}
           p == editablePage(editor.app, editor.cursor, account.window)
<1>1. CursorInv /\ UNCHANGED <<account, records, nextRecord>>
  BY DEF NextPage, ReaderInv, tables
<1>2. p.records = kept /\ p.next = next
  BY DEF editablePage
<1>3. editor' = [editor EXCEPT !.shown = Append(@, ids), !.cursor = next,
                               !.pc = IF next = {} THEN "read" ELSE "open"]
  <2>1. editor' = [editor EXCEPT !.shown = Append(@, {r.id : r \in p.records}), !.cursor = p.next,
                                 !.pc = IF p.next = {} THEN "read" ELSE "open"]
    BY DEF NextPage
  <2> HIDE DEF p
  <2>2. QED  BY <1>2, <2>1
<1>4. /\ rows \subseteq records
      /\ \A r \in rows, c \in editor.cursor : ahead(c, r)
      /\ \A r \in records : /\ r.start < account.window.end /\ r.end > account.window.start
                            /\ editableSubject(editor.app, r)
                            /\ \A c \in editor.cursor : ahead(c, r)
                            => r \in rows
  BY DEF editableRows
<1>5. IsFiniteSet(rows) /\ Keyed(rows)
  <2> HIDE DEF rows
  <2>1. QED  BY <1>4, FS_Subset DEF RecordsNumbered, Keyed
<1>6. PageLimit \in Nat /\ PageLimit > 0
  BY WebAssumption
<1> HIDE DEF rows, p
<1>7. /\ kept \subseteq rows
      /\ ~more => kept = rows
      /\ more => /\ last \in kept
                 /\ \A x \in kept : x = last \/ ahead(x, last)
                 /\ \A x \in rows \ kept : ahead(last, x)
  BY <1>5, <1>6, PageFacts
<1> HIDE DEF kept, last, more
<1>8. /\ DOMAIN editor' = DOMAIN editor /\ editor'.app = editor.app /\ editor'.present = editor.present
      /\ editor'.shown = Append(editor.shown, ids) /\ editor'.cursor = next
      /\ editor'.pc = IF next = {} THEN "read" ELSE "open"
  <2>1. DOMAIN editor = EditorFields
    BY DEF ReaderInv, NoEditor, EditorFields
  <2> HIDE DEF next, ids
  <2>2. QED  BY <1>3, <2>1 DEF EditorFields
<1>9. ids \subseteq 0..(nextRecord - 1)
  BY <1>4, <1>7 DEF RecordsNumbered
<1>10. ids \intersect Seen = {}
  <2>1. ASSUME NEW r \in kept, r.id \in Seen
        PROVE  FALSE
    <3>1. r \in records /\ \A c \in editor.cursor : ahead(c, r)
      BY <1>4, <1>7
    <3>2. \A c \in editor.cursor : ~ahead(c, r)
      BY <1>1, <2>1, <3>1 DEF CursorInv
    <3>3. editor.cursor = {}
      BY <3>1, <3>2
    <3>4. Seen = {}
      BY <1>1, <3>3 DEF CursorInv, Seen, Range
    <3>5. QED  BY <2>1, <3>4
  <2>2. QED  BY <2>1
<1>11. /\ editor'.shown \in Seq(SUBSET (0..(nextRecord - 1)))
       /\ Seen' = Seen \union ids
       /\ \A i, j \in DOMAIN editor'.shown : i < j => editor'.shown[i] \intersect editor'.shown[j] = {}
  <2> DEFINE N == 0..(nextRecord - 1)
             q == editor.shown
  <2>1. q \in Seq(SUBSET N) /\ ids \in SUBSET N
        /\ (\A i, j \in DOMAIN q : i < j => q[i] \intersect q[j] = {})
        /\ ids \intersect (UNION Range(q)) = {}
    BY <1>9, <1>10 DEF ReaderInv, Seen
  <2> HIDE DEF N, q, ids
  <2>2. /\ Append(q, ids) \in Seq(SUBSET N)
        /\ UNION Range(Append(q, ids)) = (UNION Range(q)) \union ids
        /\ \A i, j \in DOMAIN Append(q, ids) : i < j => Append(q, ids)[i] \intersect Append(q, ids)[j] = {}
    BY <2>1, PagesGrow
  <2>3. editor'.shown = Append(q, ids)
    BY <1>8 DEF q
  <2>4. QED  BY <2>2, <2>3 DEF Seen, N, q
<1>12. ASSUME NEW r \in records, r.id \in editor.present
       PROVE  /\ r.start < account.window.end /\ r.end > account.window.start
              /\ editableSubject(editor.app, r)
              /\ r.id \in Seen \/ r \in rows
  BY <1>1, <1>4, <1>12 DEF CursorInv
<1>13. CASE more
  <2>1. next = {[end |-> last.end, id |-> last.id]} /\ last \in records
    BY <1>4, <1>7, <1>13
  <2>2. \A r \in records : r.end \in Int /\ r.id \in Nat
    BY DEF RecordsNumbered
  <2> DEFINE c1 == [end |-> last.end, id |-> last.id]
  <2>3. c1.end \in Int /\ c1.id \in Nat /\ \A r : ahead(c1, r) <=> ahead(last, r)
    BY <2>1, <2>2 DEF ahead
  <2>4. ASSUME NEW r \in records, r.id \in Seen \union ids
        PROVE  ~ahead(last, r)
    <3>1. CASE r.id \in Seen
      <4>1. \A c \in editor.cursor : ~ahead(c, r) /\ ahead(c, last) /\ c.end \in Int /\ c.id \in Nat
        BY <1>1, <1>4, <1>7, <1>13, <3>1 DEF CursorInv
      <4>2. editor.cursor # {}
        BY <1>1, <3>1 DEF CursorInv, Seen, Range
      <4>3. PICK c \in editor.cursor : ~ahead(c, r) /\ ahead(c, last) /\ c.end \in Int /\ c.id \in Nat
        BY <4>1, <4>2
      <4>4. ahead(r, last)
        BY <2>1, <2>2, <4>3, AheadOrders
      <4>5. QED  BY <2>1, <2>2, <4>4, AheadOrders
    <3>2. CASE r.id \in ids
      <4>1. PICK x \in kept : x.id = r.id
        BY <3>2
      <4>2. x = r
        BY <1>4, <1>7, <4>1 DEF RecordsNumbered
      <4>3. r = last \/ ahead(r, last)
        BY <1>7, <1>13, <4>1, <4>2
      <4>4. QED  BY <2>1, <2>2, <4>3, AheadOrders
    <3>3. QED  BY <2>4, <3>1, <3>2
  <2>5. ASSUME NEW r \in records, r.id \in editor.present
        PROVE  r.id \in Seen \union ids \/ ahead(last, r)
    BY <1>7, <1>12, <1>13, <2>5
  <2> HIDE DEF c1
  <2>6. editor'.cursor = {c1} /\ editor'.pc = "open"
    <3>1. next = {c1} /\ next # {}
      BY <2>1 DEF c1
    <3> HIDE DEF next
    <3>2. QED  BY <1>8, <3>1
  <2> HIDE DEF next, ids
  <2>7. CursorInv'
    <3>1. \A r \in records, c \in {c1} : r.id \in Seen' => ~ahead(c, r)
      BY <1>11, <2>3, <2>4
    <3>2. \A r \in records :
            r.id \in editor.present =>
               /\ r.start < account.window.end /\ r.end > account.window.start
               /\ editableSubject(editor.app, r)
               /\ r.id \in Seen' \/ \A c \in {c1} : ahead(c, r)
      BY <1>11, <1>12, <2>3, <2>5
    <3>3. QED  BY <1>1, <1>8, <2>3, <2>6, <3>1, <3>2 DEF CursorInv
  <2>8. QED  BY <1>1, <1>8, <1>11, <2>6, <2>7 DEF ReaderInv
<1>14. CASE ~more
  <2>1. next = {}
    BY <1>14
  <2>2. \A r \in records : r.id \in editor.present => r.id \in Seen \union ids
    BY <1>7, <1>12, <1>14
  <2>3. editor.present \subseteq {r.id : r \in records}
    BY DEF ReaderInv
  <2> HIDE DEF next, ids
  <2>4. editor'.pc = "read" /\ editor'.present \subseteq Seen'
    BY <1>8, <1>11, <2>1, <2>2, <2>3
  <2>5. QED  BY <1>1, <1>8, <1>11, <2>3, <2>4 DEF ReaderInv
<1>15. QED  BY <1>13, <1>14

\* Before the first request there are no records and no reader.
LEMMA InitReads == Init => EditorInv
<1> SUFFICES ASSUME Init PROVE EditorInv
  OBVIOUS
<1>1. RecordsNumbered
  BY FS_EmptySet DEF Init, RecordsNumbered
<1>2. editor = NoEditor
  BY DEF Init
<1>3. /\ DOMAIN editor = DOMAIN NoEditor /\ editor.pc = "closed"
      /\ editor.shown = <<>> /\ editor.present = {}
  BY <1>2 DEF NoEditor
<1>4. editor.shown \in Seq(SUBSET (0..(nextRecord - 1))) /\ DOMAIN editor.shown = {}
  BY <1>3
<1>5. ReaderInv
  BY <1>3, <1>4 DEF ReaderInv
<1>6. QED  BY <1>1, <1>5 DEF EditorInv

\* No request disturbs a reader.
LEMMA StepReads == EditorInv /\ [Next]_vars => EditorInv'
<1> SUFFICES ASSUME EditorInv, [Next]_vars PROVE EditorInv'
  OBVIOUS
<1>1. RecordsNumbered /\ ReaderInv
  BY DEF EditorInv
<1>2. /\ RecordsNumbered'
      /\ account' = account /\ nextRecord' \in Nat /\ nextRecord <= nextRecord'
      /\ \A r \in records' : r \in records \/ r.id = nextRecord
  BY <1>1, NumbersKept
<1>3. CASE \E r \in records : OpenEditor(canonicalAppName(r))
  BY <1>1, <1>2, <1>3, ReaderOpens DEF EditorInv
<1>4. CASE NextPage
  BY <1>1, <1>2, <1>4, ReaderTurns DEF EditorInv
<1>5. CASE CloseEditor
  BY <1>2, <1>5, ReaderCloses DEF CloseEditor, EditorInv
<1>6. ASSUME editor' = editor, records \subseteq records'
      PROVE  EditorInv'
  <2>1. editor'.present \subseteq {r.id : r \in records'}
    BY <1>1, <1>6 DEF ReaderInv
  <2>2. ReaderInv'
    BY <1>1, <1>2, <1>6, <2>1, ReaderWaits
  <2>3. QED  BY <1>2, <2>2 DEF EditorInv
<1>7. CASE Ingest \/ Categorise \/ LogIn \/ Tick \/ UNCHANGED vars
           \/ ReadRecords \/ ReadAssignments \/ ReadCategories \/ ClosePage
  <2>1. editor' = editor /\ records \subseteq records'
    <3>1. CASE Categorise
      BY <3>1 DEF Categorise, LockUser, CountCategories, InsertCategory, Rollback, UpdateCategory,
                  DeleteCategory, Recategorise, tables
    <3>2. CASE Ingest \/ UNCHANGED vars \/ ReadRecords \/ ReadAssignments \/ ReadCategories \/ ClosePage
      BY <3>2 DEF Ingest, ReadRecords, ReadAssignments, ReadCategories, ClosePage, tables, vars
    <3>3. CASE LogIn \/ Tick
      BY <3>3 DEF LogIn, Reserve, Leaves, Fails, Release, Succeeds, Tick, tables
    <3>4. QED  BY <1>7, <3>1, <3>2, <3>3
  <2>2. QED  BY <1>6, <2>1
<1>8. ASSUME NEW d \in Devices, DeleteDevice(d)
      PROVE  EditorInv'
  <2>1. editor' = [editor EXCEPT !.present = @ \intersect {r.id : r \in records'}]
    BY <1>8 DEF DeleteDevice
  <2>2. DOMAIN editor = EditorFields
    BY <1>1 DEF ReaderInv, NoEditor, EditorFields
  <2>3. /\ DOMAIN editor' = DOMAIN editor /\ editor'.pc = editor.pc /\ editor'.app = editor.app
        /\ editor'.cursor = editor.cursor /\ editor'.shown = editor.shown
        /\ editor'.present = editor.present \intersect {r.id : r \in records'}
    BY <2>1, <2>2 DEF EditorFields
  <2>4. /\ editor'.present \subseteq editor.present
        /\ editor'.present \subseteq {r.id : r \in records'}
    BY <2>3
  <2>5. ReaderInv'
    BY <1>1, <1>2, <2>3, <2>4, ReaderWaits
  <2>6. QED  BY <1>2, <2>5 DEF EditorInv
<1>9. QED  BY <1>3, <1>4, <1>5, <1>7, <1>8 DEF Next, Read

\* Whoever pages through an application's records to the end has seen every
\* record that was there from the start and still is, and none on two pages,
\* for every number of records of one end, every page limit, and whatever
\* arrived or went meanwhile (ListEditableActivityRecords, queries.go:588).
THEOREM PagingIsComplete == Spec => []PagesComplete
<1>1. Spec => []EditorInv
  BY InitReads, StepReads, PTL DEF Spec
<1>2. EditorInv => PagesComplete
  BY DEF EditorInv, ReaderInv, PagesComplete, Seen
<1>3. QED  BY <1>1, <1>2, PTL

\* From here on it is cited where it is needed.
HIDE WebAssumption
-----------------------------------------------------------------------------
(* The rows that a query returns.                                          *)

\* What the query returns of a record: its fields and its override.
LEMMA JoinedFacts ==
    ASSUME RowsInv, CategoryInv, ReferenceInv, NEW r \in records
    PROVE  /\ {"id", "device", "start", "end"} \subseteq DOMAIN joined(r)
           /\ joined(r).id = r.id /\ joined(r).device = r.device
           /\ joined(r).start = r.start /\ joined(r).end = r.end
           /\ \A c \in joined(r).override : c \in Nat /\ joined(r).override = {c}
<1> DEFINE o == IF r.id \in DOMAIN overrides THEN {overrides[r.id]} ELSE {}
           j == joined(r)
<1>1. DOMAIN r = {"id", "device", "producer", "app", "url", "title", "start", "end"}
  BY DEF RowsInv
<1>2. j = [x \in DOMAIN r \union {"override"} |-> IF x = "override" THEN o ELSE r[x]]
  BY DEF joined, with
<1>3. \A c \in o : c \in Nat /\ o = {c}
  <2>1. r.id \in DOMAIN overrides => overrides[r.id] \in Range(overrides)
    BY DEF Range
  <2>2. \A c \in Range(overrides) : c \in Nat
    BY DEF CategoryInv, ReferenceInv, Uncategorized
  <2> DEFINE i == r.id
  <2> HIDE DEF i
  <2>3. i \in DOMAIN overrides => overrides[i] \in Nat
    BY <2>1, <2>2 DEF i
  <2>4. QED  BY <2>3 DEF i
<1> HIDE DEF o
<1>4. j["id"] = r["id"] /\ j["device"] = r["device"] /\ j["start"] = r["start"] /\ j["end"] = r["end"]
  BY <1>1, <1>2
<1>5. j["override"] = o
  BY <1>2
<1>6. {"id", "device", "start", "end"} \subseteq DOMAIN j
  BY <1>1, <1>2
<1>7. QED  BY <1>3, <1>4, <1>5, <1>6

\* The rows of a query: a row for each record, with the record's number.
Rows(S) == Numbered(S) /\ \A r \in S : \A c \in r.override : c \in Nat /\ r.override = {c}

\* They are in order.
LEMMA RowsRanked ==
    ASSUME NEW S, Rows(S)
    PROVE  Ranked(S)
<1>1. \A x, y, z \in S : Before(x, y) /\ Before(y, z) => Before(x, z)
  BY DEF Rows, Numbered, Before
<1>2. \A x \in S : ~Before(x, x)
  BY DEF Rows, Numbered, Before
<1>3. \A x, y \in S : x = y \/ Before(x, y) \/ Before(y, x)
  BY DEF Rows, Numbered, Before
<1>4. QED  BY <1>1, <1>2, <1>3 DEF Ranked, Rows, Numbered

\* The records of a window are rows, no more of them than the user may report.
LEMMA PresentRows ==
    ASSUME RecordsNumbered, RowsInv, CategoryInv, ReferenceInv, NEW w
    PROVE  /\ Rows(present(w))
           /\ Cardinality(present(w)) \in Nat /\ Cardinality(present(w)) <= account.limit
<1> DEFINE K == {x \in records : x.start < w.end /\ x.end > w.start}
           to == [x \in K |-> joined(x)]
           S == present(w)
<1>1. K \subseteq records
  OBVIOUS
<1>2. S = {to[x] : x \in K}
  BY DEF present
<1>3. IsFiniteSet(K)
  BY <1>1, FS_Subset DEF RecordsNumbered
<1>4. \A x \in K : /\ x \in records /\ to[x] = joined(x)
                   /\ {"id", "device", "start", "end"} \subseteq DOMAIN to[x]
                   /\ to[x].id = x.id /\ to[x].device = x.device
                   /\ to[x].start = x.start /\ to[x].end = x.end
                   /\ \A c \in to[x].override : c \in Nat /\ to[x].override = {c}
  BY JoinedFacts
<1>5. \A x \in records : /\ x.id \in Nat /\ x.device \in Int /\ x.start \in Int /\ x.end \in Int
                         /\ x.start < x.end /\ x.id > 0 /\ x.id < nextRecord
  BY DEF RowsInv, RecordsNumbered
<1>6. \A x, y \in records : x.id = y.id => x = y
  BY DEF RecordsNumbered
<1>7. IsFiniteSet(S) /\ Cardinality(S) \in Nat /\ Cardinality(S) <= Cardinality(K)
  <2> HIDE DEF to, K, S
  <2>1. QED  BY <1>2, <1>3, Images
<1>8. Cardinality(K) <= account.limit
  <2> DEFINE num == [x \in K |-> x.id]
             n == nextRecord - 1
  <2>1. n \in Nat /\ n <= account.limit
    BY WebAssumption DEF RowsInv, RecordsNumbered, AccountType
  <2>2. \A x \in K : num[x] \in 1..n
    BY <1>1, <1>5 DEF RecordsNumbered
  <2>3. \A x, y \in K : num[x] = num[y] => x = y
    BY <1>1, <1>6
  <2>4. num \in [K -> 1..n]
    <3> HIDE DEF K, n
    <3>1. QED  BY <2>2
  <2>5. num \in Injection(K, 1..n)
    <3> HIDE DEF K, n, num
    <3>1. QED  BY <2>3, <2>4 DEF Injection, IsInjective
  <2>6. IsFiniteSet(1..n) /\ Cardinality(1..n) = n
    <3>1. 1 \in Int /\ n \in Int
      BY <2>1
    <3> HIDE DEF n
    <3>2. IsFiniteSet(1..n) /\ Cardinality(1..n) = IF 1 > n THEN 0 ELSE n - 1 + 1
      BY <3>1, FS_Interval
    <3>3. QED  BY <2>1, <3>2
  <2>7. Cardinality(K) <= Cardinality(1..n)
    <3> HIDE DEF K, n, num
    <3>1. QED  BY <2>5, <2>6, FS_Injection
  <2>8. Cardinality(K) \in Nat /\ account.limit \in Nat
    <3>1. Cardinality(K) \in Nat
      BY <1>3, FS_CardinalityType
    <3>2. QED  BY <3>1, WebAssumption DEF RecordsNumbered, AccountType
  <2>9. QED  BY <2>1, <2>6, <2>7, <2>8
<1>9. Cardinality(S) <= account.limit
  <2>1. Cardinality(K) \in Nat /\ account.limit \in Nat
    <3>1. Cardinality(K) \in Nat
      BY <1>3, FS_CardinalityType
    <3>2. QED  BY <3>1, WebAssumption DEF RecordsNumbered, AccountType
  <2> HIDE DEF K, S
  <2>2. QED  BY <1>7, <1>8, <2>1
<1>10. Rows(S)
  <2> HIDE DEF to, K, S
  <2>1. \A r \in S : /\ {"id", "device", "start", "end"} \subseteq DOMAIN r
                     /\ r.id \in Int /\ r.device \in Int /\ r.start \in Int /\ r.end \in Int
                     /\ r.start < r.end
                     /\ \A c \in r.override : c \in Nat /\ r.override = {c}
    <3>1. TAKE r \in S
    <3>2. PICK x \in K : r = to[x]
      BY <1>2
    <3>3. QED  BY <1>4, <1>5, <3>2
  <2>2. \A r, x \in S : r.id = x.id => r = x
    <3>1. TAKE r, x \in S
    <3>2. PICK a \in K : r = to[a]
      BY <1>2
    <3>3. PICK b \in K : x = to[b]
      BY <1>2
    <3>4. r.id = a.id /\ x.id = b.id
      BY <1>4, <3>2, <3>3
    <3>5. QED  BY <1>4, <1>6, <3>2, <3>3, <3>4
  <2>3. QED  BY <1>7, <2>1, <2>2 DEF Rows, Numbered
<1>11. QED  BY <1>7, <1>9, <1>10

\* The query returns rows of the window, the first ones in order, and all of
\* them unless the source limit cut them.
LEMMA QueryFacts ==
    ASSUME RecordsNumbered, RowsInv, CategoryInv, ReferenceInv, NEW w
    PROVE  LET q == queryActivityRecords(w)
           IN  /\ Rows(Range(q.rows)) /\ Range(q.rows) \subseteq present(w)
               /\ q.rows \in Seq(present(w))
               /\ \A i, j \in 1..Len(q.rows) : i < j => Before(q.rows[i], q.rows[j])
               /\ Cardinality(Range(q.rows)) \in Nat
               /\ Cardinality(Range(q.rows)) <= Len(q.rows)
               /\ Len(q.rows) <= account.limit
               /\ q.cut \in BOOLEAN
               /\ ~q.cut => Range(q.rows) = present(w)
<1> DEFINE S == present(w)
           s == sortedRows(S)
           n == Cardinality(S)
           m == Min({Len(s), account.source})
           q == queryActivityRecords(w)
<1>1. Rows(S) /\ n \in Nat /\ n <= account.limit
  BY PresentRows
<1>2. account.limit \in Nat /\ account.source \in Nat
  BY WebAssumption DEF RecordsNumbered, AccountType
<1>3. /\ s \in Seq(S) /\ Len(s) = n /\ Range(s) = S
      /\ \A i, j \in 1..n : i < j => Before(s[i], s[j])
  <2> HIDE DEF S
  <2>1. QED  BY <1>1, RowsRanked, SortedRows
<1>4. q = [rows |-> SubSeq(s, 1, m), cut |-> Len(s) > account.source]
  BY DEF queryActivityRecords
<1> HIDE DEF S, s, n, q
<1>5. m = (IF account.source < n THEN account.source ELSE n) /\ m \in Nat /\ m <= n
  <2> DEFINE b == account.source
  <2> HIDE DEF b
  <2>1. Min({n, b}) = (IF b < n THEN b ELSE n)
    <3>1. n \in Int /\ b \in Int
      BY <1>1, <1>2 DEF b
    <3>2. QED  BY <3>1, OfTwo
  <2>2. m = Min({n, b})
    BY <1>3 DEF b
  <2> HIDE DEF m
  <2>3. QED  BY <1>1, <1>2, <2>1, <2>2 DEF b
<1> HIDE DEF m
<1> DEFINE t == SubSeq(s, 1, m)
<1>6. t \in Seq(S) /\ Len(t) = m /\ \A i \in 1..m : t[i] = s[i]
  <2>1. \A i \in 1..m : s[i] \in S
    BY <1>1, <1>3, <1>5
  <2>2. t = [i \in 1..m |-> s[i]]
    BY <1>1, <1>3, <1>5
  <2> HIDE DEF t
  <2>3. QED  BY <1>5, <2>1, <2>2
<1>7. q.rows = t /\ q.cut = (Len(s) > account.source)
  BY <1>4
<1> HIDE DEF t
<1>8. /\ \A i, j \in 1..m : i < j => Before(t[i], t[j])
      /\ DOMAIN t = 1..m
  BY <1>1, <1>3, <1>5, <1>6
<1>9. Range(t) \subseteq S
  BY <1>5, <1>6, <1>8 DEF Range
<1>10. Rows(Range(t))
  <2>1. IsFiniteSet(Range(t))
    BY <1>1, <1>9, FS_Subset DEF Rows, Numbered
  <2>2. QED  BY <1>1, <1>9, <2>1 DEF Rows, Numbered
<1>11. Cardinality(Range(t)) \in Nat /\ Cardinality(Range(t)) <= m
  <2>1. Range(t) = {t[i] : i \in 1..m}
    BY <1>8 DEF Range
  <2>2. IsFiniteSet(1..m) /\ Cardinality(1..m) = m
    <3>1. 1 \in Int /\ m \in Int
      BY <1>5
    <3>2. IsFiniteSet(1..m) /\ Cardinality(1..m) = IF 1 > m THEN 0 ELSE m - 1 + 1
      BY <3>1, FS_Interval
    <3>3. QED  BY <1>5, <3>2
  <2> DEFINE K == 1..m
  <2>3. Range(t) = {t[i] : i \in K} /\ IsFiniteSet(K) /\ Cardinality(K) = m
    BY <2>1, <2>2
  <2> HIDE DEF K
  <2>4. Cardinality({t[i] : i \in K}) \in Nat /\ Cardinality({t[i] : i \in K}) <= Cardinality(K)
    BY <2>3, Images
  <2>5. QED  BY <2>3, <2>4
<1>12. ~q.cut => Range(t) = S
  <2>1. ~q.cut => m = n
    BY <1>1, <1>2, <1>3, <1>5, <1>7
  <2>2. m = n => Range(t) = Range(s)
    BY <1>1, <1>3, <1>5, <1>6, <1>8 DEF Range
  <2>3. QED  BY <1>3, <2>1, <2>2
<1>13. m <= account.limit /\ q.cut \in BOOLEAN
  BY <1>1, <1>2, <1>3, <1>5, <1>7
<1>14. QED  BY <1>6, <1>7, <1>8, <1>9, <1>10, <1>11, <1>12, <1>13 DEF S, q
-----------------------------------------------------------------------------
(* The rows of the table and a page stay as their invariants say.          *)

\* A record that is stored has its fields, its times and a positive number.
LEMMA NumberedRow ==
    ASSUME RecordsNumbered, RowsInv, NEW row \in account.rows
    PROVE  LET r == numbered(row)
           IN  /\ DOMAIN r = {"id", "device", "producer", "app", "url", "title", "start", "end"}
               /\ r.id > 0 /\ {r.device, r.start, r.end} \subseteq Int /\ r.start < r.end
<1> DEFINE r == numbered(row)
<1>1. /\ DOMAIN row = {"device", "producer", "app", "url", "title", "start", "end"}
      /\ {row.device, row.start, row.end} \subseteq Int /\ row.start < row.end
  BY WebAssumption DEF RecordsNumbered, AccountType
<1>2. r = [x \in DOMAIN row \union {"id"} |-> IF x = "id" THEN nextRecord ELSE row[x]]
  BY DEF numbered, with
<1>3. DOMAIN r = {"id", "device", "producer", "app", "url", "title", "start", "end"}
  BY <1>1, <1>2
<1>4. r["id"] = nextRecord /\ r["device"] = row["device"] /\ r["start"] = row["start"] /\ r["end"] = row["end"]
  BY <1>1, <1>2
<1>5. nextRecord > 0
  BY WebAssumption DEF RecordsNumbered, RowsInv, AccountType
<1> HIDE DEF r
<1>6. r.id > 0 /\ {r.device, r.start, r.end} \subseteq Int /\ r.start < r.end
  BY <1>1, <1>4, <1>5
<1>7. QED  BY <1>3, <1>6 DEF r

\* Rows keep their fields.
LEMMA RowsKept ==
    ASSUME RecordsNumbered, RowsInv, [Next]_vars
    PROVE  RowsInv'
<1>1. account' = account
  BY NumbersKept
<1>2. CASE Ingest
  <2>1. PICK row \in account.rows : /\ records' = records \union {numbered(row)}
                                    /\ nextRecord' = nextRecord + 1
                                    /\ nextRecord <= account.limit
    BY <1>2 DEF Ingest
  <2>2. nextRecord' \in 1..(account.limit + 1)
    BY <2>1, WebAssumption DEF RecordsNumbered, RowsInv, AccountType
  <2> DEFINE n == numbered(row)
  <2>3. /\ DOMAIN n = {"id", "device", "producer", "app", "url", "title", "start", "end"}
        /\ n.id > 0 /\ {n.device, n.start, n.end} \subseteq Int /\ n.start < n.end
    BY NumberedRow
  <2> HIDE DEF n
  <2>4. \A r \in records' : r \in records \/ r = n
    BY <2>1 DEF n
  <2>5. QED  BY <1>1, <2>2, <2>3, <2>4 DEF RowsInv
<1>3. CASE \E d \in Devices : DeleteDevice(d)
  <2>1. records' \subseteq records /\ nextRecord' = nextRecord
    BY <1>3 DEF DeleteDevice
  <2>2. QED  BY <1>1, <2>1 DEF RowsInv
<1>4. CASE Categorise \/ Read \/ LogIn \/ Tick \/ UNCHANGED vars
  <2>1. UNCHANGED <<records, nextRecord>>
    <3>1. CASE Categorise
      BY <3>1 DEF Categorise, LockUser, CountCategories, InsertCategory, Rollback, UpdateCategory,
                  DeleteCategory, Recategorise, tables
    <3>2. CASE Read
      BY <3>2 DEF Read, ReadRecords, ReadAssignments, ReadCategories, ClosePage, OpenEditor,
                  NextPage, CloseEditor, tables
    <3>3. CASE LogIn \/ Tick \/ UNCHANGED vars
      BY <3>3 DEF LogIn, Reserve, Leaves, Fails, Release, Succeeds, Tick, tables, vars
    <3>4. QED  BY <1>4, <3>1, <3>2, <3>3
  <2>2. QED  BY <1>1, <2>1 DEF RowsInv
<1>5. QED  BY <1>2, <1>3, <1>4 DEF Next

\* A page that is not there has read nothing.
LEMMA NoPageFacts ==
    ASSUME page = NoPage
    PROVE  PageInv
<1>1. /\ page.pc = "closed" /\ page.rows = <<>> /\ page.assigned = <<>> /\ DOMAIN page = DOMAIN NoPage
  BY DEF NoPage
<1>2. Range(<<>>) = {}
  BY DEF Range
<1>3. QED  BY <1>1, <1>2, FS_EmptySet DEF PageInv

\* The fields of a page.
PageFields == {"pc", "rows", "assigned", "known", "stale"}

\* Its first query gives the page its rows.
LEMMA RecordsRead ==
    ASSUME RecordsNumbered, RowsInv, CategoryInv, ReferenceInv, ReadRecords
    PROVE  PageInv'
<1> DEFINE rows == queryActivityRecords(account.window).rows
<1>1. Rows(Range(rows))
  BY QueryFacts
<1>2. page' = [NoPage EXCEPT !.pc = "read", !.rows = rows]
  BY DEF ReadRecords
<1> HIDE DEF rows
<1>3. /\ DOMAIN page' = DOMAIN NoPage /\ page'.pc = "read" /\ page'.rows = rows /\ page'.assigned = <<>>
  BY <1>2 DEF NoPage
<1>4. Range(<<>>) = {}
  BY DEF Range
<1>5. QED  BY <1>1, <1>3, <1>4 DEF PageInv, Rows, Numbered

\* Its second query gives it the defaults of the rows' applications.
LEMMA AssignmentsRead ==
    ASSUME PageInv, CategoryInv, ReferenceInv, ReadAssignments
    PROVE  PageInv'
<1>1. DOMAIN page = PageFields
  BY DEF PageInv, NoPage, PageFields
<1> DEFINE keys == {AppKeys[canonicalAppName(r)] : r \in Range(page.rows)}
           a == [k \in keys \intersect DOMAIN assignments |-> assignments[k]]
<1>2. page' = [page EXCEPT !.pc = "assigned", !.assigned = a] /\ categories' = categories
  BY DEF ReadAssignments, tables
<1>3. Range(a) \subseteq DOMAIN categories
  <2>1. Range(a) \subseteq Range(assignments)
    BY DEF Range
  <2>2. QED  BY <2>1 DEF ReferenceInv
<1> HIDE DEF a, keys
<1>4. /\ DOMAIN page' = PageFields /\ page'.pc = "assigned" /\ page'.rows = page.rows
      /\ page'.assigned = a
  BY <1>1, <1>2 DEF PageFields
<1>5. Range(a) \subseteq Nat
  BY <1>3 DEF CategoryInv
<1>6. QED  BY <1>1, <1>2, <1>3, <1>4, <1>5 DEF PageInv, NoPage, PageFields

\* Its third query tells it which categories there are.
LEMMA CategoriesRead ==
    ASSUME PageInv, ReadCategories
    PROVE  PageInv'
<1>1. DOMAIN page = PageFields
  BY DEF PageInv, NoPage, PageFields
<1>2. page.pc = "assigned" /\ page' = [page EXCEPT !.pc = "shown", !.known = DOMAIN categories]
  BY DEF ReadCategories
<1>3. /\ DOMAIN page' = PageFields /\ page'.pc = "shown" /\ page'.rows = page.rows
      /\ page'.assigned = page.assigned /\ page'.known = DOMAIN categories /\ page'.stale = page.stale
  BY <1>1, <1>2 DEF PageFields
<1>4. QED  BY <1>1, <1>2, <1>3 DEF PageInv

\* A category that goes makes the page stale that has read it as a default.
LEMMA CategoryGoes ==
    ASSUME PageInv, NEW c, DeleteCategory(c)
    PROVE  PageInv'
<1>1. DOMAIN page = PageFields
  BY DEF PageInv, NoPage, PageFields
<1> DEFINE s == page.stale \/ (page.pc = "assigned" /\ c \in Range(page.assigned))
<1>2. page' = [page EXCEPT !.stale = s] /\ DOMAIN categories' = DOMAIN categories \ {c}
  BY DEF DeleteCategory
<1>3. /\ DOMAIN page' = PageFields /\ page'.pc = page.pc /\ page'.rows = page.rows
      /\ page'.assigned = page.assigned /\ page'.known = page.known /\ page'.stale = s
  BY <1>1, <1>2 DEF PageFields
<1>4. ~s => ~page.stale /\ (page.pc = "assigned" => c \notin Range(page.assigned))
  OBVIOUS
<1> HIDE DEF s
<1>5. QED  BY <1>1, <1>2, <1>3, <1>4 DEF PageInv

\* The inductive invariant of the dashboard.
DashInv == IInv /\ EditorInv /\ RowsInv /\ PageInv

\* There is no page at first.
LEMMA InitShows == Init => DashInv
<1> SUFFICES ASSUME Init PROVE DashInv
  OBVIOUS
<1>1. IInv /\ EditorInv
  BY InitEstablishes, InitReads
<1>2. RowsInv
  <2>1. records = {} /\ nextRecord = 1 /\ account.limit \in Nat
    BY WebAssumption DEF Init, AccountType
  <2>2. QED  BY <2>1 DEF RowsInv
<1>3. PageInv
  <2>1. page = NoPage
    BY DEF Init
  <2>2. QED  BY <2>1, NoPageFacts
<1>4. QED  BY <1>1, <1>2, <1>3 DEF DashInv

\* Every step keeps it.
LEMMA StepShows == DashInv /\ [Next]_vars => DashInv'
<1> SUFFICES ASSUME DashInv, [Next]_vars PROVE DashInv'
  OBVIOUS
<1>1. /\ IInv /\ EditorInv /\ RowsInv /\ PageInv /\ RecordsNumbered /\ CategoryInv /\ ReferenceInv
  BY DEF DashInv, EditorInv, IInv
<1>2. IInv' /\ EditorInv'
  BY <1>1, StepPreserves, StepReads
<1>3. RowsInv'
  BY <1>1, RowsKept
<1>4. PageInv'
  <2>1. CASE ReadRecords
    BY <1>1, <2>1, RecordsRead
  <2>2. CASE ReadAssignments
    BY <1>1, <2>2, AssignmentsRead
  <2>3. CASE ReadCategories
    BY <1>1, <2>3, CategoriesRead
  <2>4. CASE ClosePage
    <3>1. page' = NoPage
      BY <2>4 DEF ClosePage
    <3>2. /\ page'.pc = "closed" /\ page'.rows = <<>> /\ page'.assigned = <<>>
          /\ DOMAIN page' = DOMAIN NoPage
      BY <3>1 DEF NoPage
    <3>3. Range(<<>>) = {}
      BY DEF Range
    <3>4. QED  BY <3>2, <3>3, FS_EmptySet DEF PageInv
  <2>5. CASE \E c \in DOMAIN categories : DeleteCategory(c)
    BY <1>1, <2>5, CategoryGoes
  <2>6. ASSUME page' = page, DOMAIN categories \subseteq DOMAIN categories'
        PROVE  PageInv'
    BY <1>1, <2>6 DEF PageInv
  <2>7. CASE \E q \in Requests : LockUser(q) \/ CountCategories(q)
    BY <2>6, <2>7 DEF LockUser, CountCategories, Rollback, tables
  <2>8. CASE \E q \in Requests : InsertCategory(q)
    <3>1. page' = page
      BY <2>8 DEF InsertCategory, Rollback
    <3>2. DOMAIN categories \subseteq DOMAIN categories'
      BY <2>8 DEF InsertCategory, Rollback, tables, with
    <3>3. QED  BY <2>6, <3>1, <3>2
  <2>9. CASE \E c \in DOMAIN categories : UpdateCategory(c)
    BY <2>6, <2>9 DEF UpdateCategory
  <2>10. CASE Recategorise
    BY <2>6, <2>10 DEF Recategorise
  <2>11. CASE Ingest \/ (\E d \in Devices : DeleteDevice(d)) \/ UNCHANGED vars
    BY <2>6, <2>11 DEF Ingest, DeleteDevice, vars, tables
  <2>12. CASE NextPage \/ CloseEditor \/ \E r \in records : OpenEditor(canonicalAppName(r))
    BY <2>6, <2>12 DEF NextPage, CloseEditor, OpenEditor, tables
  <2>13. CASE LogIn \/ Tick
    BY <2>6, <2>13 DEF LogIn, Reserve, Leaves, Fails, Release, Succeeds, Tick, tables
  <2>14. QED
    BY <2>1, <2>2, <2>3, <2>4, <2>5, <2>7, <2>8, <2>9, <2>10, <2>11, <2>12, <2>13
       DEF Next, Categorise, Read
<1>5. QED  BY <1>2, <1>3, <1>4 DEF DashInv
-----------------------------------------------------------------------------
(* The categories of a page add up.                                        *)

\* The rows that are credited with time.
LEMMA VisitedFacts ==
    ASSUME NEW rows, Timed(rows), NEW w, w.start \in Int, w.end \in Int
    PROVE  Counted(visited(rows, w)) /\ DOMAIN visited(rows, w) \subseteq rows
<1> DEFINE time == [r \in rows |-> effectiveDuration(rows, r, w)]
           V == {x \in rows : time[x] > 0}
           v == visited(rows, w)
<1>1. v = [r \in V |-> time[r]]
  BY DEF visited
<1>2. \A r \in rows : time[r] \in Nat
  BY EffectiveFacts
<1>3. IsFiniteSet(V)
  BY FS_Subset DEF Timed
<1> HIDE DEF time, v
<1>4. DOMAIN v = V /\ \A r \in V : v[r] \in Nat
  BY <1>1, <1>2
<1>5. QED  BY <1>3, <1>4 DEF Counted, v

\* A row counts for no category, for one that its override has and the page
\* knows, or for its application's default.
LEMMA DestinationFacts ==
    ASSUME NEW r, \A c \in r.override : c \in Nat /\ r.override = {c},
           NEW assigned, Range(assigned) \subseteq Nat, NEW known
    PROVE  /\ destination(r, assigned, known) \in Int
           /\ destination(r, assigned, known) \in known \union Range(assigned) \union {Uncategorized}
           /\ shownCategory(r, assigned, known) = destination(r, assigned, known)
<1> DEFINE key == AppKeys[canonicalAppName(r)]
           o == r.override
<1>1. Uncategorized = 0
  BY DEF Uncategorized
<1>2. CASE o # {}
  <2>1. PICK c \in o : TRUE
    BY <1>2
  <2>2. c \in Nat /\ o = {c}
    BY <2>1
  <2>3. Max({c}) = c /\ Max({c} \union {Uncategorized}) = c /\ Max({} \union {Uncategorized}) = 0
    BY <1>1, <2>2, ChoiceFacts
  <2>4. shownCategory(r, assigned, known) = Max((o \intersect known) \union {Uncategorized})
    BY <1>2 DEF shownCategory
  <2>5. destination(r, assigned, known) = IF o \subseteq known THEN Max(o) ELSE Uncategorized
    BY <1>2 DEF destination
  <2> HIDE DEF o
  <2>6. CASE c \in known
    <3>1. o \subseteq known /\ o \intersect known = {c}
      BY <2>2, <2>6
    <3>2. QED  BY <2>2, <2>3, <2>4, <2>5, <2>6, <3>1
  <2>7. CASE c \notin known
    <3>1. ~(o \subseteq known) /\ o \intersect known = {}
      BY <2>2, <2>7
    <3>2. QED  BY <1>1, <2>3, <2>4, <2>5, <3>1
  <2>8. QED  BY <2>6, <2>7
<1>3. CASE o = {} /\ key \in DOMAIN assigned
  <2>1. destination(r, assigned, known) = assigned[key]
    BY <1>3 DEF destination
  <2>2. shownCategory(r, assigned, known) = assigned[key]
    BY <1>3 DEF shownCategory
  <2>3. assigned[key] \in Range(assigned)
    BY <1>3 DEF Range
  <2> HIDE DEF key
  <2>4. QED  BY <2>1, <2>2, <2>3
<1>4. CASE o = {} /\ key \notin DOMAIN assigned
  <2>1. destination(r, assigned, known) = Uncategorized
    BY <1>4 DEF destination
  <2>2. shownCategory(r, assigned, known) = Uncategorized
    BY <1>4 DEF shownCategory
  <2>3. QED  BY <1>1, <2>1, <2>2
<1>5. QED  BY <1>2, <1>3, <1>4

\* The parts of an application belong to its rows' categories, and add up.
LEMMA PartsFacts ==
    ASSUME NEW time, Counted(time), NEW assigned, NEW known, NEW D,
           \A r \in DOMAIN time : /\ destination(r, assigned, known) \in Int
                                  /\ destination(r, assigned, known) \in D
    PROVE  /\ splits(time, assigned, known)
           /\ DOMAIN categoryTotals(time, assigned, known) \subseteq D
<1>1. \A r \in DOMAIN time : destination(r, assigned, known) \in Int
  OBVIOUS
<1>2. \A app : \A d \in DOMAIN shares(time, app, assigned, known) :
         /\ d \in D
         /\ shares(time, app, assigned, known)[d] * Second
              - timeOf(time, RowsTo(time, app, assigned, known, d)) \in (1 - Second)..(Second - 1)
  BY <1>1, ShareFacts
<1>3. sumOf(categoryTotals(time, assigned, known)) = sumOf(totals(time))
  BY <1>1, TotalsAdd
<1>4. splits(time, assigned, known)
  BY <1>2, <1>3 DEF splits, RowsTo
<1> DEFINE parts == [app \in applications(time) |-> shares(time, app, assigned, known)]
<1>5. \A app \in applications(time) : DOMAIN parts[app] \subseteq D
  BY <1>2
<1>6. DOMAIN categoryTotals(time, assigned, known) \subseteq UNION {DOMAIN parts[app] : app \in DOMAIN parts}
  <2>1. categoryTotals(time, assigned, known) = summed(parts)
    BY DEF categoryTotals
  <2> HIDE DEF parts
  <2>2. DOMAIN summed(parts) \subseteq UNION {DOMAIN parts[app] : app \in DOMAIN parts}
    BY DEF summed
  <2>3. QED  BY <2>1, <2>2
<1>7. DOMAIN parts = applications(time)
  OBVIOUS
<1> HIDE DEF parts
<1>8. QED  BY <1>4, <1>5, <1>6, <1>7

\* A page publishes no other categories than it counted.
LEMMA PublishedFacts ==
    ASSUME NEW p, NEW w
    PROVE  DOMAIN publishedCategories(p, w)
             \subseteq DOMAIN categoryTotals(visited(Range(p.rows), w), p.assigned, p.known)
<1> DEFINE tots == categoryTotals(visited(Range(p.rows), w), p.assigned, p.known)
           nothing == /\ DOMAIN p.assigned = {}
                      /\ \A r \in Range(p.rows) : r.override \subseteq {Uncategorized}
<1>1. publishedCategories(p, w) = IF nothing \/ DOMAIN tots = {Uncategorized} THEN <<>> ELSE tots
  BY Zenon DEF publishedCategories
<1>2. DOMAIN <<>> = {}
  OBVIOUS
<1> HIDE DEF nothing, tots
<1>3. DOMAIN publishedCategories(p, w) \subseteq DOMAIN tots
  BY <1>1, <1>2
<1>4. QED  BY <1>3 DEF tots

\* What a page shows of its categories.
LEMMA PageSplits ==
    ASSUME DashInv
    PROVE  CategorySplit
<1> SUFFICES ASSUME page.pc = "shown" PROVE CategorySplit
  BY DEF CategorySplit
<1> DEFINE w == account.window
           rows == Range(page.rows)
           time == visited(rows, w)
           a == page.assigned
           k == page.known
<1>1. PageInv /\ RecordsNumbered
  BY DEF DashInv, EditorInv
<1>2. Timed(rows) /\ w.start \in Int /\ w.end \in Int
  <2>1. Timed(rows)
    BY <1>1 DEF PageInv, Timed
  <2>2. QED  BY <1>1, <2>1, WebAssumption DEF RecordsNumbered, AccountType
<1>3. Range(a) \subseteq Nat /\ (page.stale \/ Range(a) \subseteq k)
  BY <1>1 DEF PageInv
<1>4. \A r \in rows : \A c \in r.override : c \in Nat /\ r.override = {c}
  BY <1>1 DEF PageInv
<1> HIDE DEF w, rows
<1>5. Counted(time) /\ DOMAIN time \subseteq rows
  BY <1>2, VisitedFacts
<1> HIDE DEF time
<1>6. \A r \in rows : /\ destination(r, a, k) \in Int
                      /\ destination(r, a, k) \in k \union Range(a) \union {Uncategorized}
                      /\ shownCategory(r, a, k) = destination(r, a, k)
  <2> HIDE DEF a, k
  <2>1. QED  BY <1>3, <1>4, DestinationFacts
<1> DEFINE D == k \union Range(a) \union {Uncategorized}
<1>7. splits(time, a, k) /\ DOMAIN categoryTotals(time, a, k) \subseteq D
  <2>1. \A r \in DOMAIN time : destination(r, a, k) \in Int /\ destination(r, a, k) \in D
    BY <1>5, <1>6
  <2> HIDE DEF a, k, D
  <2>2. QED  BY <1>5, <2>1, PartsFacts
<1>8. page.stale \/ DOMAIN publishedCategories(page, w) \subseteq k \union {Uncategorized}
  <2>1. DOMAIN publishedCategories(page, w) \subseteq DOMAIN categoryTotals(time, a, k)
    BY PublishedFacts DEF time, rows
  <2>2. QED  BY <1>3, <1>7, <2>1
<1>9. QED  BY <1>6, <1>7, <1>8 DEF CategorySplit, w, rows, time

\* The categories of a page add up to its applications, each share is off by
\* less than a second, and each belongs to a category that the page knows
\* unless one was deleted between its queries, for every user, every set of
\* rows and every order of edits and queries (getCategoryTotals).
THEOREM CategoriesAddUp == Spec => []CategorySplit
<1>1. Spec => []DashInv
  BY InitShows, StepShows, PTL DEF Spec
<1>2. DashInv => CategorySplit
  BY PageSplits
<1>3. QED  BY <1>1, <1>2, PTL
-----------------------------------------------------------------------------
(* No second counts twice.                                                 *)

\* What a desktop row of a browser is credited with, and its visit.
LEMMA RowsCounted ==
    ASSUME DashInv
    PROVE  CountedOnce
<1> DEFINE w == account.window
           q == queryActivityRecords(w)
           rows == q.rows
           all == Range(rows)
<1>1. RecordsNumbered /\ RowsInv /\ CategoryInv /\ ReferenceInv
  BY DEF DashInv, EditorInv, IInv
<1>2. /\ Rows(all) /\ Cardinality(all) \in Nat /\ Cardinality(all) <= Len(rows)
      /\ Len(rows) \in Nat
  <2>1. rows \in Seq(present(w))
    BY <1>1, QueryFacts
  <2>2. Len(rows) \in Nat
    <3> HIDE DEF rows
    <3>1. QED  BY <2>1
  <2>3. QED  BY <1>1, <2>2, QueryFacts
<1>3. w.start \in Int /\ w.end \in Int
  BY <1>1, WebAssumption DEF RecordsNumbered, AccountType
<1>4. all = Range(rowsOf(account.window)) /\ rows = rowsOf(account.window)
  BY DEF rowsOf
<1> HIDE DEF w, q, rows, all
<1>5. Timed(all) /\ \A r \in all : isValid(r)
  BY <1>2 DEF Rows, Numbered, Timed, isValid
<1>6. ASSUME NEW r \in all, desktopCoverageKey(r) # {}
      PROVE  /\ effectiveDuration(all, r, w) = lengthsOf(clearRuns(all, r, clip(r, w)))
             /\ visitUncovered(r, coverageOf(all, r), Len(rows)).complete
             /\ {p \in visitUncovered(r, coverageOf(all, r), Len(rows)).pieces :
                   p.end - p.start >= Second} = clearRuns(all, r, r)
  <2>1. effectiveDuration(all, r, w)
          = sumOf([i \in clearRuns(all, r, clip(r, w)) |-> i.end - i.start])
    BY <1>3, <1>5, <1>6, EffectiveFacts
  <2> DEFINE n == Len(rows)
             v == visitUncovered(r, coverageOf(all, r), n)
  <2>2. n \in Nat /\ n >= Cardinality(all)
    BY <1>2
  <2> HIDE DEF n
  <2>3. v.complete /\ {p \in v.pieces : p.end - p.start >= Second} = clearRuns(all, r, r)
    BY <1>5, <1>6, <2>2, RowVisit
  <2>4. QED  BY <2>1, <2>3 DEF lengthsOf, n
<1>7. QED  BY <1>4, <1>6 DEF CountedOnce, w, rows, all

\* A desktop row of a browser is credited with exactly the stretches of it in
\* which that browser reported no page on that device and that last a second,
\* in the totals and on the timeline alike, for every set of rows, window and
\* source limit (visibleUncoveredDuration, visitUncovered).
THEOREM NoSecondTwice == Spec => []CountedOnce
<1>1. Spec => []DashInv
  BY InitShows, StepShows, PTL DEF Spec
<1>2. DashInv => CountedOnce
  BY RowsCounted
<1>3. QED  BY <1>1, <1>2, PTL

\* What the page's timeline says is so: it is cut, or complete, or the first
\* bars of a query that was cut.
LEMMA TimelineSays ==
    ASSUME DashInv, NEW work \in Nat
    PROVE  LET w == account.window
               q == queryActivityRecords(w)
               t == timelineOf(q, RecordLimit, work)
               full == fullTimeline(Range(q.rows))
           IN  /\ Range(t.records) \subseteq full /\ Len(t.records) <= RecordLimit
               /\ t.truncated \/ Range(t.records) = fullTimeline(present(w))
               /\ work = account.limit * account.limit =>
                    /\ Range(t.records) = firstOf(full, RecordLimit)
                    /\ t.truncated <=> q.cut \/ firstOf(full, RecordLimit) # full
<1> DEFINE w == account.window
           q == queryActivityRecords(w)
           rows == q.rows
           n == Len(rows)
           t == timelineOf(q, RecordLimit, work)
           u == timeline(rows, RecordLimit, work)
           F == fullTimeline(Range(rows))
           l == account.limit
           c == Cardinality(Range(rows))
<1>1. RecordsNumbered /\ RowsInv /\ CategoryInv /\ ReferenceInv /\ RecordLimit \in Nat
  BY WebAssumption DEF DashInv, EditorInv, IInv
<1>2. /\ Rows(Range(rows)) /\ rows \in Seq(present(w))
      /\ \A i, j \in 1..n : i < j => Before(rows[i], rows[j])
      /\ c \in Nat /\ c <= n /\ n <= l /\ q.cut \in BOOLEAN
      /\ ~q.cut => Range(rows) = present(w)
  BY <1>1, QueryFacts
<1>3. l \in Nat
  BY <1>1, WebAssumption DEF RecordsNumbered, AccountType
<1>4. t = [u EXCEPT !.truncated = @ \/ q.cut]
  BY DEF timelineOf
<1> HIDE DEF w, q
<1>5. n \in Nat /\ DOMAIN rows = 1..n
  BY <1>2
<1>6. Numbered(Range(rows)) /\ Ranked(Range(rows))
  BY <1>2, RowsRanked DEF Rows
<1> HIDE DEF rows, n
<1>7. \A i, j \in 1..n : rows[i] = rows[j] => i = j
  <2>1. \A i \in 1..n : ~Before(rows[i], rows[i])
    BY <1>5, <1>6 DEF Range, Ranked
  <2>2. SUFFICES ASSUME NEW i \in 1..n, NEW j \in 1..n, rows[i] = rows[j]
                 PROVE  i = j
    OBVIOUS
  <2>3. ~(i < j) /\ ~(j < i)
    BY <1>2, <2>1, <2>2
  <2>4. QED  BY <1>5, <2>3
<1>8. /\ u = [records |-> u.records, truncated |-> u.truncated] /\ u.truncated \in BOOLEAN
      /\ Range(u.records) \subseteq F /\ Len(u.records) <= RecordLimit
      /\ ~u.truncated => Range(u.records) = F
      /\ n * c <= work =>
           /\ Range(u.records) = firstOf(F, RecordLimit)
           /\ u.truncated <=> firstOf(F, RecordLimit) # F
  BY <1>1, <1>5, <1>6, <1>7, TimelineFacts
<1> HIDE DEF t, u, F, c, l
<1>9. t.records = u.records /\ t.truncated = (u.truncated \/ q.cut)
  BY <1>4, <1>8
<1>10. n * c <= l * l
  <2>1. c * n = n * c /\ n * c \in Nat /\ l * l \in Nat
    BY <1>2, <1>3, <1>5
  <2>2. PICK a \in Nat, b \in Nat : l = n + a /\ l = c + b
    <3>1. l - n \in Nat /\ l - c \in Nat /\ l = n + (l - n) /\ l = c + (l - c)
      BY <1>2, <1>3, <1>5
    <3>2. QED  BY <3>1
  <2>3. l * l = (n + a) * (c + b)
    BY <2>2
  <2>4. (n + a) * (c + b) = n * c + n * b + a * c + a * b
    BY <1>2, <1>5
  <2>5. n * b \in Nat /\ a * c \in Nat /\ a * b \in Nat
    BY <1>2, <1>5
  <2>6. QED  BY <2>1, <2>3, <2>4, <2>5
<1>11. ~q.cut => F = fullTimeline(present(w))
  BY <1>2 DEF F
<1>12. t.truncated \/ Range(t.records) = fullTimeline(present(w))
  BY Zenon, <1>8, <1>9, <1>11
<1>13. work = l * l =>
         /\ Range(t.records) = firstOf(F, RecordLimit)
         /\ t.truncated <=> q.cut \/ firstOf(F, RecordLimit) # F
  <2>1. SUFFICES ASSUME work = l * l
                 PROVE  /\ Range(t.records) = firstOf(F, RecordLimit)
                        /\ t.truncated <=> q.cut \/ firstOf(F, RecordLimit) # F
    OBVIOUS
  <2>2. n * c <= work
    BY <1>10, <2>1
  <2>3. QED  BY Zenon, <1>8, <1>9, <2>2
<1>14. Range(t.records) \subseteq F /\ Len(t.records) <= RecordLimit
  BY <1>8, <1>9
<1>15. /\ Range(t.records) \subseteq F /\ Len(t.records) <= RecordLimit
       /\ t.truncated \/ Range(t.records) = fullTimeline(present(w))
       /\ work = l * l =>
            /\ Range(t.records) = firstOf(F, RecordLimit)
            /\ t.truncated <=> q.cut \/ firstOf(F, RecordLimit) # F
  BY <1>12, <1>13, <1>14
<1>16. QED  BY <1>15 DEF t, F, l, w, q, rows

\* With the words of the property.
LEMMA TimelineTrue ==
    ASSUME DashInv
    PROVE  TimelineHonest
<1> DEFINE w == account.window
           q == queryActivityRecords(w)
<1>1. \A work \in (0..WorkLimit) \union {account.limit * account.limit} : work \in Nat
  <2>1. account.limit \in Nat /\ WorkLimit \in Nat
    BY WebAssumption DEF DashInv, EditorInv, IInv, RecordsNumbered, AccountType
  <2>2. account.limit * account.limit \in Nat
    BY <2>1
  <2>3. QED  BY <2>1, <2>2
<1>2. ASSUME NEW work \in (0..WorkLimit) \union {account.limit * account.limit}
      PROVE  LET t == timelineOf(q, RecordLimit, work)
                 full == fullTimeline(Range(q.rows))
             IN  /\ Range(t.records) \subseteq full /\ Len(t.records) <= RecordLimit
                 /\ t.truncated \/ Range(t.records) = fullTimeline(present(w))
                 /\ work = account.limit * account.limit =>
                      /\ Range(t.records) = firstOf(full, RecordLimit)
                      /\ t.truncated <=> q.cut \/ firstOf(full, RecordLimit) # full
  <2>1. work \in Nat
    BY <1>1
  <2>2. QED  BY <2>1, TimelineSays
<1>3. QED  BY <1>2 DEF TimelineHonest, rowsOf

\* Whenever the user waits, what the timeline of a page would say is so.
THEOREM TimelineIsHonest == Spec => []TimelineHonest
<1>1. Spec => []DashInv
  BY InitShows, StepShows, PTL DEF Spec
<1>2. DashInv => TimelineHonest
  BY TimelineTrue
<1>3. QED  BY <1>1, <1>2, PTL
-----------------------------------------------------------------------------
(* Days and weeks, in a zone in which each midnight comes once.             *)

\* A zone in which each midnight of the wall clock comes exactly once.
MidnightsOnce(z) ==
    /\ {z.at, z.before, z.after} \subseteq Int
    /\ \A k \in Int : \E t \in Int : /\ wall(z, t) = k * Day
                                     /\ \A u \in Int : wall(z, u) = k * Day => u = t

midnight(z, k) == date(z, k * Day)

\* time.Date finds the only time at which the wall clock shows w.
LEMMA DateFinds ==
    ASSUME NEW z, {z.at, z.before, z.after} \subseteq Int, NEW w \in Int, NEW t \in Int,
           wall(z, t) = w, \A u \in Int : wall(z, u) = w => u = t
    PROVE  date(z, w) = t
<1> DEFINE at == z.at
           b == z.before
           a == z.after
<1>1. at \in Int /\ b \in Int /\ a \in Int
  OBVIOUS
<1>2. \A u \in Int : offset(z, u) = IF u < at THEN b ELSE a
  BY DEF offset
<1>3. \A u \in Int : u + (IF u < at THEN b ELSE a) = w => u = t
  BY <1>2 DEF wall
<1>4. t + (IF t < at THEN b ELSE a) = w
  BY <1>2 DEF wall
<1> DEFINE guess == IF w < at THEN b ELSE a
           x == w - guess
           ox == IF x < at THEN b ELSE a
<1>5. guess \in Int /\ x \in Int /\ offset(z, w) = guess /\ offset(z, x) = ox
  <2> HIDE DEF at, b, a
  <2>1. guess \in Int /\ x \in Int
    BY <1>1
  <2>2. QED  BY <1>2, <2>1
<1>6. date(z, w) = IF guess = 0 \/ ox = guess THEN x ELSE w - ox
  <2> HIDE DEF guess, ox
  <2>1. QED  BY <1>5 DEF date
<1> HIDE DEF at, b, a
<1>7. guess = 0 => x = t
  <2>1. CASE w < at
    BY <1>1, <1>3, <1>4, <2>1
  <2>2. CASE ~(w < at)
    BY <1>1, <1>3, <1>4, <2>2
  <2>3. QED  BY <2>1, <2>2
<1>8. ox = guess => x = t
  <2>1. x + ox = w => x = t
    BY <1>3, <1>5
  <2> HIDE DEF ox
  <2>2. x + guess = w
    BY <1>5
  <2>3. QED  BY <2>1, <2>2
<1>9. ox # guess => w - ox = t
  <2>1. CASE w < at
    BY <1>1, <1>3, <1>4, <2>1
  <2>2. CASE ~(w < at)
    BY <1>1, <1>3, <1>4, <2>2
  <2>3. QED  BY <2>1, <2>2
<1> HIDE DEF guess, ox, x
<1>10. QED  BY <1>6, <1>7, <1>8, <1>9

\* A multiple of the day.
LEMMA Multiples ==
    ASSUME NEW d \in Nat \ {0}, NEW k \in Int, NEW n \in Int
    PROVE  /\ k * d \in Int /\ k * d + n * d = (k + n) * d
           /\ k < n => k * d + d <= n * d
           /\ (k * d) \div d = k /\ (k * d) % d = 0
<1>1. k * d \in Int /\ k * d + n * d = (k + n) * d
  OBVIOUS
<1>2. k < n => k * d + d <= n * d
  <2>1. SUFFICES ASSUME k < n
                 PROVE  k * d + d <= n * d
    OBVIOUS
  <2>2. PICK e \in Nat : n = k + 1 + e
    <3>1. n - (k + 1) \in Nat /\ n = k + 1 + (n - (k + 1))
      BY <2>1
    <3>2. QED  BY <3>1
  <2>3. n * d = k * d + d + e * d /\ e * d \in Nat
    BY <2>2
  <2>4. QED  BY <1>1, <2>3
<1>3. (k * d) \div d = k
  OBVIOUS
<1>4. (k * d) % d = 0
  OBVIOUS
<1>5. QED  BY <1>1, <1>2, <1>3, <1>4

\* The midnights.
LEMMA MidnightFacts ==
    ASSUME NEW z, MidnightsOnce(z), NEW k \in Int
    PROVE  /\ midnight(z, k) \in Int /\ wall(z, midnight(z, k)) = k * Day
           /\ \A t \in Int : t >= midnight(z, k) <=> wall(z, t) >= k * Day
<1> DEFINE w == k * Day
           m == midnight(z, k)
           at == z.at
           b == z.before
           a == z.after
<1>1. at \in Int /\ b \in Int /\ a \in Int /\ {z.at, z.before, z.after} \subseteq Int
  BY DEF MidnightsOnce
<1>2. w \in Int
  BY TimelineAssumption, Multiples
<1>3. PICK t \in Int : wall(z, t) = w /\ \A u \in Int : wall(z, u) = w => u = t
  BY DEF MidnightsOnce
<1> HIDE DEF w
<1>4. date(z, w) = t
  BY <1>1, <1>2, <1>3, DateFinds
<1>5. m = t
  BY <1>4 DEF midnight, w
<1> HIDE DEF m
<1>6. \A u \in Int : wall(z, u) = u + (IF u < at THEN b ELSE a)
  BY DEF wall, offset
<1> HIDE DEF at, b, a
<1>7. ASSUME NEW u \in Int
      PROVE  u >= t <=> wall(z, u) >= w
  <2>1. wall(z, u) \in Int
    BY <1>1, <1>6
  <2>2. ASSUME u < t, wall(z, u) >= w
        PROVE  FALSE
    <3>1. u < at /\ ~(t < at)
      BY <1>1, <1>2, <1>3, <1>6, <2>2
    <3> DEFINE v == w - b
    <3>2. v \in Int /\ v <= u
      BY <1>1, <1>2, <1>6, <2>2, <3>1
    <3>3. v < at /\ v < t
      BY <1>1, <2>2, <3>1, <3>2
    <3>4. wall(z, v) = v + b
      BY <1>1, <1>6, <3>2, <3>3
    <3>5. wall(z, v) = w
      BY <1>1, <1>2, <3>4
    <3> HIDE DEF v
    <3>6. QED  BY <1>3, <3>2, <3>3, <3>5
  <2>3. ASSUME u >= t, wall(z, u) < w
        PROVE  FALSE
    <3>1. t < at /\ ~(u < at)
      BY <1>1, <1>2, <1>3, <1>6, <2>3
    <3> DEFINE v == w - a
    <3>2. v \in Int /\ v > u
      BY <1>1, <1>2, <1>6, <2>3, <3>1
    <3>3. ~(v < at) /\ v > t
      BY <1>1, <2>3, <3>1, <3>2
    <3>4. wall(z, v) = v + a
      BY <1>1, <1>6, <3>2, <3>3
    <3>5. wall(z, v) = w
      BY <1>1, <1>2, <3>4
    <3> HIDE DEF v
    <3>6. QED  BY <1>3, <3>2, <3>3, <3>5
  <2>4. QED  BY <1>2, <2>1, <2>2, <2>3
<1>8. QED  BY <1>3, <1>5, <1>7 DEF m, w

\* One after another, and days are added to one by its number.
LEMMA MidnightSteps ==
    ASSUME NEW z, MidnightsOnce(z), NEW k \in Int, NEW n \in Int
    PROVE  /\ k < n <=> midnight(z, k) < midnight(z, n)
           /\ addDays(z, midnight(z, k), n) = midnight(z, k + n)
           /\ wall(z, midnight(z, k)) \div Day = k
<1> DEFINE m == midnight(z, k)
           x == midnight(z, n)
           d == Day
<1>1. d \in Nat \ {0}
  BY TimelineAssumption
<1>2. /\ m \in Int /\ wall(z, m) = k * d /\ x \in Int /\ wall(z, x) = n * d
      /\ x >= m <=> wall(z, x) >= k * d
      /\ m >= x <=> wall(z, m) >= n * d
  BY MidnightFacts
<1> HIDE DEF m, x, d
<1>3. /\ k * d \in Int /\ n * d \in Int /\ k * d + n * d = (k + n) * d
      /\ k < n => k * d + d <= n * d
      /\ n < k => n * d + d <= k * d
      /\ (k * d) \div d = k
  BY <1>1, Multiples
<1> DEFINE kd == k * d
           nd == n * d
<1>a. /\ kd \in Int /\ nd \in Int /\ k < n => kd + d <= nd
      /\ n < k => nd + d <= kd
  BY <1>3
<1>4. k < n <=> m < x
  <2>1. k = n => kd = nd
    OBVIOUS
  <2>2. m < x <=> kd < nd
    BY <1>2, <1>3
  <2>3. /\ k < n => kd + d <= nd
        /\ n < k => nd + d <= kd
        /\ kd \in Int /\ nd \in Int
    BY <1>3
  <2> HIDE DEF kd, nd
  <2>4. QED  BY <1>1, <2>1, <2>2, <2>3
<1>5. addDays(z, m, n) = midnight(z, k + n)
  <2>1. addDays(z, m, n) = date(z, k * d + n * d)
    BY <1>2 DEF addDays, d
  <2>2. QED  BY <1>3, <2>1 DEF midnight, d
<1>6. QED  BY <1>2, <1>3, <1>4, <1>5 DEF m, x, d

\* A day goes from a midnight to the next one.
LEMMA DayIs ==
    ASSUME NEW z, MidnightsOnce(z), NEW t \in Int
    PROVE  LET k == wall(z, t) \div Day
           IN  /\ k \in Int /\ dayBounds(z, t) = [start |-> midnight(z, k), end |-> midnight(z, k + 1)]
               /\ midnight(z, k) <= t /\ t < midnight(z, k + 1)
               /\ midnight(z, k) \in Int /\ midnight(z, k + 1) \in Int
<1> DEFINE w == wall(z, t)
           k == w \div Day
           m == midnight(z, k)
           x == midnight(z, k + 1)
<1>1. w \in Int
  BY DEF wall, offset, MidnightsOnce
<1>2. Day \in Nat \ {0}
  BY TimelineAssumption
<1> HIDE DEF w
<1>3. k \in Int /\ w % Day \in 0..(Day - 1) /\ w = Day * k + (w % Day)
  BY <1>1, <1>2, Division
<1> HIDE DEF k
<1>4. k * Day \in Int /\ k * Day = Day * k /\ (k + 1) * Day = k * Day + Day
  BY <1>2, <1>3
<1>5. w >= k * Day /\ ~(w >= (k + 1) * Day)
  BY <1>1, <1>2, <1>3, <1>4
<1>6. /\ m \in Int /\ (t >= m <=> w >= k * Day)
      /\ x \in Int /\ (t >= x <=> w >= (k + 1) * Day)
  <2>1. m \in Int /\ (t >= m <=> w >= k * Day)
    BY <1>3, MidnightFacts DEF w
  <2>2. k + 1 \in Int
    BY <1>3
  <2>3. x \in Int /\ (t >= x <=> w >= (k + 1) * Day)
    BY <2>2, MidnightFacts DEF w
  <2>4. QED  BY <2>1, <2>3
<1>7. dayBounds(z, t).start = m /\ dayBounds(z, t) = [start |-> m, end |-> addDays(z, m, 1)]
  BY DEF dayBounds, midnight, k, w
<1>8. addDays(z, m, 1) = x
  BY <1>3, MidnightSteps
<1> HIDE DEF m, x
<1>9. m <= t /\ t < x
  <2>1. m \in Int /\ (t >= m <=> w >= k * Day) /\ x \in Int /\ (t >= x <=> w >= (k + 1) * Day)
    BY <1>6
  <2>2. t >= m /\ ~(t >= x)
    BY <1>5, <2>1
  <2>3. QED  BY <2>1, <2>2
<1>10. /\ k \in Int /\ dayBounds(z, t) = [start |-> m, end |-> x]
       /\ m <= t /\ t < x /\ m \in Int /\ x \in Int
  BY <1>3, <1>6, <1>7, <1>8, <1>9
<1>11. QED  BY <1>10 DEF k, w, m, x

\* A week goes from one midnight to the one DaysPerWeek later.
LEMMA WeekIs ==
    ASSUME NEW z, MidnightsOnce(z), NEW t \in Int
    PROVE  LET k == wall(z, t) \div Day
               m == k - (k % DaysPerWeek)
           IN  /\ weekBounds(z, t) = [start |-> midnight(z, m), end |-> midnight(z, m + DaysPerWeek)]
               /\ m \in Int /\ k - m \in 0..(DaysPerWeek - 1) /\ m % DaysPerWeek = 0
<1> DEFINE k == wall(z, t) \div Day
           W == DaysPerWeek
           r == k % W
           m == k - r
           today == midnight(z, k)
           monday == midnight(z, m)
<1>1. k \in Int /\ dayBounds(z, t).start = today
  <2>1. k \in Int /\ dayBounds(z, t) = [start |-> today, end |-> midnight(z, k + 1)]
    BY DayIs
  <2> HIDE DEF k, today
  <2>2. QED  BY <2>1
<1> HIDE DEF k
<1>2. r \in 0..(W - 1) /\ k = W * (k \div W) + r /\ k \div W \in Int /\ W \in Nat \ {0}
  <2>1. W \in Nat \ {0}
    BY TimelineAssumption
  <2>2. QED  BY <1>1, <2>1, Division
<1>3. m \in Int /\ m = k + (-r) /\ -r \in Int
  BY <1>1, <1>2
<1>4. wall(z, today) \div Day = k
  BY <1>1, MidnightSteps
<1>5. addDays(z, today, -r) = monday
  <2>1. addDays(z, midnight(z, k), -r) = midnight(z, k + (-r))
    BY <1>1, <1>3, MidnightSteps
  <2>2. QED  BY <1>3, <2>1
<1>6. addDays(z, monday, W) = midnight(z, m + W)
  <2> HIDE DEF m
  <2>1. W \in Int
    BY <1>2
  <2>2. QED  BY <1>3, <2>1, MidnightSteps
<1> HIDE DEF today, monday
<1>7. weekBounds(z, t) = [start |-> monday, end |-> addDays(z, monday, W)]
  BY <1>1, <1>4, <1>5 DEF weekBounds
<1>8. m % W = 0
  <2> DEFINE q == k \div W
  <2>1. q \in Int /\ m = q * W
    BY <1>2, <1>3
  <2> HIDE DEF q, m, W
  <2>2. (q * W) % W = 0
    BY <1>2, <2>1, Multiples
  <2>3. QED  BY <2>1, <2>2
<1>9. k - m \in 0..(W - 1)
  BY <1>1, <1>2
<1>10. QED  BY <1>3, <1>6, <1>7, <1>8, <1>9 DEF k, monday

\* n days in a row.
DaysFrom(z, m, n) == {[start |-> midnight(z, m + i), end |-> midnight(z, m + i + 1)] : i \in 0..(n - 1)}

\* Over the numbers below a number, with one more.
LEMMA OverUpTo ==
    ASSUME NEW n \in Nat, NEW g, \A i \in 0..(n - 1) : g[i] \in Int, NEW j \in 0..(n - 1)
    PROVE  Over(g, 0..j) = Over(g, 0..(j - 1)) + g[j]
<1> DEFINE A == 0..(j - 1)
           B == 0..(n - 1)
<1>1. A \in SUBSET B /\ j \in B \ A /\ 0..j = A \union {j}
  OBVIOUS
<1>2. IsFiniteSet(B) /\ \A x \in B : g[x] \in Int
  <2>1. 0 \in Int /\ n - 1 \in Int
    OBVIOUS
  <2>2. QED  BY <2>1, FS_Interval
<1> HIDE DEF A, B
<1>3. \A x \in B \ A : Over(g, A \union {x}) = Over(g, A) + g[x]
  BY <1>1, <1>2, OverAdd
<1>4. QED  BY <1>1, <1>3 DEF A

\* They are n, and as long as they should be together.
LEMMA DaysFromFacts ==
    ASSUME NEW z, MidnightsOnce(z), NEW m \in Int, NEW n \in Nat
    PROVE  LET D == DaysFrom(z, m, n)
           IN  /\ IsFiniteSet(D) /\ Cardinality(D) = n
               /\ \A d \in D : d.start \in Int /\ d.end \in Int
               /\ sumOf([d \in D |-> d.end - d.start]) = midnight(z, m + n) - midnight(z, m)
<1> DEFINE D == DaysFrom(z, m, n)
           K == 0..(n - 1)
           at == [i \in 0..n |-> midnight(z, m + i)]
           to == [i \in K |-> [start |-> at[i], end |-> at[i + 1]]]
           len == [i \in K |-> at[i + 1] - at[i]]
           f == [d \in D |-> d.end - d.start]
           one == [d \in D |-> 1]
<1>1. /\ \A i \in 0..n : at[i] \in Int
      /\ \A i, j \in 0..n : i < j => at[i] < at[j]
  <2>1. ASSUME NEW i \in 0..n
        PROVE  m + i \in Int /\ at[i] = midnight(z, m + i) /\ at[i] \in Int
    <3>1. m + i \in Int
      OBVIOUS
    <3>2. midnight(z, m + i) \in Int
      BY <3>1, MidnightFacts
    <3>3. QED  BY <3>1, <3>2
  <2>2. ASSUME NEW i \in 0..n, NEW j \in 0..n, i < j
        PROVE  at[i] < at[j]
    <3>1. m + i \in Int /\ m + j \in Int /\ m + i < m + j
      BY <2>2
    <3>2. midnight(z, m + i) < midnight(z, m + j)
      BY <3>1, MidnightSteps
    <3>3. QED  BY <2>1, <3>2
  <2>3. QED  BY <2>1, <2>2
<1>2. /\ \A i \in K : i \in 0..n /\ i + 1 \in 0..n /\ i \in Int
      /\ IsFiniteSet(K) /\ Cardinality(K) = n
  <2>1. \A i \in K : i \in 0..n /\ i + 1 \in 0..n /\ i \in Int
    OBVIOUS
  <2> DEFINE l == n - 1
  <2>2. 0 \in Int /\ l \in Int /\ l - 0 + 1 = n /\ (0 > l => n = 0)
    OBVIOUS
  <2> HIDE DEF l
  <2>3. IsFiniteSet(0..l) /\ Cardinality(0..l) = IF 0 > l THEN 0 ELSE l - 0 + 1
    BY <2>2, FS_Interval
  <2>4. IsFiniteSet(0..l) /\ Cardinality(0..l) = n
    BY <2>2, <2>3
  <2>5. QED  BY <2>1, <2>4 DEF l
<1>3. D = {to[i] : i \in K}
  <2>1. \A i \in K : to[i] = [start |-> midnight(z, m + i), end |-> midnight(z, m + i + 1)]
    <3>1. \A i \in K : m + (i + 1) = m + i + 1
      OBVIOUS
    <3> HIDE DEF K
    <3>2. QED  BY <1>2, <3>1
  <2> HIDE DEF to, at
  <2>2. QED  BY <2>1 DEF DaysFrom
<1>4. /\ \A i \in K : to[i].start = at[i] /\ to[i].end = at[i + 1]
      /\ \A i \in K : len[i] = at[i + 1] - at[i]
  OBVIOUS
<1>5. \A d \in D : f[d] = d.end - d.start /\ one[d] = 1
  OBVIOUS
<1> HIDE DEF at, to, len, K, D, f, one
<1>6. \A i, j \in K : to[i] = to[j] => i = j
  <2>1. SUFFICES ASSUME NEW i \in K, NEW j \in K, to[i] = to[j]
                 PROVE  i = j
    OBVIOUS
  <2>2. at[i] = at[j] /\ i \in 0..n /\ j \in 0..n /\ i \in Int /\ j \in Int /\ at[i] \in Int
    BY <1>1, <1>2, <1>4, <2>1
  <2>3. ~(i < j) /\ ~(j < i)
    BY <1>1, <2>2
  <2>4. QED  BY <2>2, <2>3
<1>7. \A k \in K : to[k] \in D
  BY <1>3
<1>8. \A d \in D : d.start \in Int /\ d.end \in Int
  BY <1>1, <1>2, <1>3, <1>4
<1>9. IsFiniteSet(D) /\ Cardinality(D) \in Nat
  BY <1>2, <1>3, Images
<1>10. Cardinality(D) = n
  <2>1. \A k \in K : one[to[k]] \in Int
    BY <1>5, <1>7
  <2>2. Over(one, D) = Over([k \in K |-> one[to[k]]], K)
    BY <1>2, <1>3, <1>6, <2>1, OverRenamed
  <2> DEFINE g == [k \in K |-> one[to[k]]]
  <2>3. \A k \in K : g[k] = IF k \in K THEN 1 ELSE 0
    BY <1>5, <1>7
  <2>4. \A d \in D : one[d] = IF d \in D THEN 1 ELSE 0
    BY <1>5
  <2> HIDE DEF g
  <2>5. Over(g, K) = 1 * Cardinality(K)
    <3>1. K \in SUBSET K /\ 1 \in Int
      OBVIOUS
    <3>2. QED  BY <1>2, <2>3, <3>1, OverCount
  <2>6. Over(one, D) = 1 * Cardinality(D)
    <3>1. D \in SUBSET D /\ 1 \in Int
      OBVIOUS
    <3>2. QED  BY <1>9, <2>4, <3>1, OverCount
  <2>7. QED  BY <1>2, <1>9, <2>2, <2>5, <2>6 DEF g
<1>11. \A i \in K : len[i] \in Int
  BY <1>1, <1>2, <1>4
<1> DEFINE P == {j \in Nat : j <= n => Over(len, 0..(j - 1)) = at[j] - at[0]}
<1>12. 0 \in P
  <2>1. 0..(0 - 1) = {}
    OBVIOUS
  <2>2. Over(len, {}) = 0
    BY <1>2, <1>11, OverSteps
  <2>3. at[0] - at[0] = 0
    BY <1>1
  <2>4. Over(len, 0..(0 - 1)) = at[0] - at[0]
    BY <2>1, <2>2, <2>3
  <2>5. QED  BY <2>4
<1>13. ASSUME NEW j \in Nat, j \in P
       PROVE  j + 1 \in P
  <2>1. SUFFICES ASSUME j + 1 <= n
                 PROVE  Over(len, 0..((j + 1) - 1)) = at[j + 1] - at[0]
    OBVIOUS
  <2>2. j \in K /\ j \in 0..n /\ j + 1 \in 0..n /\ (j + 1) - 1 = j
    BY <2>1 DEF K
  <2>3. Over(len, 0..(j - 1)) = at[j] - at[0]
    BY <1>13, <2>1
  <2>4. Over(len, 0..j) = Over(len, 0..(j - 1)) + len[j]
    BY <1>11, <2>2, OverUpTo DEF K
  <2>5. len[j] = at[j + 1] - at[j] /\ at[j] \in Int /\ at[j + 1] \in Int /\ at[0] \in Int
    BY <1>1, <1>4, <2>2
  <2>6. Over(len, 0..j) = at[j + 1] - at[0]
    BY <2>3, <2>4, <2>5
  <2> HIDE DEF P
  <2>7. QED  BY <2>2, <2>6
<1> HIDE DEF P
<1>14. n \in P
  BY <1>12, <1>13, Numbers
<1>15. Over(len, K) = at[n] - at[0]
  BY <1>14 DEF P, K
<1>16. Over(f, D) = Over(len, K)
  <2>1. \A k \in K : f[to[k]] = len[k]
    BY <1>4, <1>5, <1>7
  <2>2. Over(f, D) = Over([k \in K |-> f[to[k]]], K)
    BY <1>2, <1>3, <1>6, <1>11, <2>1, OverRenamed
  <2> DEFINE g == [k \in K |-> f[to[k]]]
  <2>3. \A k \in K : g[k] = len[k]
    BY <2>1
  <2> HIDE DEF g
  <2>4. Over(g, K) = Over(len, K)
    BY <2>3, OverSame
  <2>5. QED  BY <2>2, <2>4 DEF g
<1>17. sumOf(f) = Over(f, D)
  <2>1. f = [d \in D |-> f[d]]
    BY DEF f
  <2>2. QED  BY <2>1 DEF Over
<1>18. at[n] = midnight(z, m + n) /\ at[0] = midnight(z, m)
  <2>1. n \in 0..n /\ 0 \in 0..n /\ m + 0 = m
    OBVIOUS
  <2>2. QED  BY <2>1 DEF at
<1>19. QED  BY <1>8, <1>9, <1>10, <1>15, <1>16, <1>17, <1>18 DEF f, D

\* The days of a week that starts at a midnight.
LEMMA DaysAre ==
    ASSUME NEW z, MidnightsOnce(z), NEW m \in Int
    PROVE  LET w == [start |-> midnight(z, m), end |-> midnight(z, m + DaysPerWeek)]
           IN  daysOf(z, w) = DaysFrom(z, m, DaysPerWeek)
<1> DEFINE W == DaysPerWeek
           w == [start |-> midnight(z, m), end |-> midnight(z, m + W)]
           Step(p) == [i \in Nat |-> IF i = 0 THEN w.start ELSE addDays(z, p[i - 1], 1)]
           day == CHOOSE p : p = Step(p)
           first == [i \in Nat |-> midnight(z, m + i)]
           soon == {j \in 0..(2 * W) : day[j] < w.end}
           from(s) == [start |-> s, end |-> addDays(z, s, 1)]
<1>1. W \in Nat \ {0}
  BY TimelineAssumption
<1>2. daysOf(z, w) = {from(s) : s \in {day[i] : i \in soon}}
  BY Zenon DEF daysOf
<1>3. ASSUME NEW i \in Nat
      PROVE  addDays(z, midnight(z, m + i), 1) = midnight(z, m + i + 1)
  <2>1. m + i \in Int /\ 1 \in Int
    OBVIOUS
  <2>2. QED  BY <2>1, MidnightSteps
<1>4. w.start = midnight(z, m) /\ w.end = midnight(z, m + W)
  OBVIOUS
<1> HIDE DEF w
<1>5. first = Step(first)
  <2>1. ASSUME NEW i \in Nat
        PROVE  first[i] = Step(first)[i]
    <3>1. CASE i = 0
      <4>1. m + i = m
        BY <3>1
      <4>2. QED  BY <1>4, <3>1, <4>1
    <3>2. CASE i # 0
      <4>1. i - 1 \in Nat /\ m + (i - 1) + 1 = m + i
        BY <3>2
      <4>2. first[i - 1] = midnight(z, m + (i - 1)) /\ first[i] = midnight(z, m + i)
        BY <4>1
      <4>3. Step(first)[i] = addDays(z, first[i - 1], 1)
        BY <3>2
      <4>4. addDays(z, midnight(z, m + (i - 1)), 1) = midnight(z, m + (i - 1) + 1)
        BY <1>3, <4>1
      <4> HIDE DEF first, Step
      <4>5. QED  BY <4>1, <4>2, <4>3, <4>4
    <3>3. QED  BY <3>1, <3>2
  <2>2. first = [i \in Nat |-> first[i]] /\ Step(first) = [i \in Nat |-> Step(first)[i]]
    OBVIOUS
  <2> HIDE DEF first, Step
  <2>3. QED  BY <2>1, <2>2
<1>6. day = Step(day)
  <2> HIDE DEF first, Step
  <2>1. QED  BY <1>5
<1>7. \A i \in Nat : day[i] = IF i = 0 THEN w.start ELSE addDays(z, day[i - 1], 1)
  <2> HIDE DEF day
  <2>1. QED  BY <1>6
<1> DEFINE P == {i \in Nat : day[i] = midnight(z, m + i)}
<1>8. 0 \in P
  <2>1. m + 0 = m
    OBVIOUS
  <2> HIDE DEF day
  <2>2. day[0] = midnight(z, m)
    BY <1>4, <1>7
  <2>3. QED  BY <2>1, <2>2
<1>9. ASSUME NEW i \in Nat, i \in P
      PROVE  i + 1 \in P
  <2> HIDE DEF day
  <2>1. i + 1 \in Nat /\ i + 1 # 0 /\ (i + 1) - 1 = i /\ m + (i + 1) = m + i + 1
    OBVIOUS
  <2>2. day[i + 1] = addDays(z, day[i], 1)
    BY <1>7, <2>1
  <2>3. day[i] = midnight(z, m + i)
    BY <1>9
  <2>4. day[i + 1] = midnight(z, m + i + 1)
    BY <1>3, <2>2, <2>3
  <2>5. QED  BY <2>1, <2>4
<1> HIDE DEF P
<1>10. \A i \in Nat : i \in P
  BY <1>8, <1>9, Numbers
<1> HIDE DEF day
<1>11. \A i \in Nat : day[i] = midnight(z, m + i)
  BY <1>10 DEF P
<1>12. soon = 0..(W - 1)
  <2>1. ASSUME NEW j \in 0..(2 * W)
        PROVE  day[j] < w.end <=> j < W
    <3>1. j \in Nat /\ m + j \in Int /\ m + W \in Int /\ (j < W <=> m + j < m + W)
      BY <1>1
    <3>2. m + j < m + W <=> midnight(z, m + j) < midnight(z, m + W)
      BY <3>1, MidnightSteps
    <3>3. QED  BY <1>4, <1>11, <3>1, <3>2
  <2>2. \A j : j \in 0..(W - 1) <=> j \in 0..(2 * W) /\ j < W
    BY <1>1
  <2> HIDE DEF W
  <2>3. QED  BY <2>1, <2>2
<1>13. ASSUME NEW i \in soon
       PROVE  from(day[i]) = [start |-> midnight(z, m + i), end |-> midnight(z, m + i + 1)]
  <2>1. i \in Nat
    BY <1>1
  <2>2. day[i] = midnight(z, m + i)
    BY <1>11, <2>1
  <2>3. QED  BY <1>3, <2>1, <2>2
<1>14. {from(s) : s \in {day[i] : i \in soon}} = {from(day[i]) : i \in soon}
  <2> HIDE DEF soon, from
  <2>1. QED  OBVIOUS
<1>15. {from(day[i]) : i \in soon} = {[start |-> midnight(z, m + i), end |-> midnight(z, m + i + 1)] : i \in soon}
  <2> HIDE DEF soon, from
  <2>1. QED  BY <1>13
<1>16. DaysFrom(z, m, W) = {[start |-> midnight(z, m + i), end |-> midnight(z, m + i + 1)] : i \in 0..(W - 1)}
  BY DEF DaysFrom
<1> HIDE DEF soon, from
<1>17. daysOf(z, w) = DaysFrom(z, m, W)
  BY <1>2, <1>12, <1>14, <1>15, <1>16
<1>18. QED  BY <1>17 DEF w

\* Each moment lies in its day, the next day and the next week begin where this
\* one ends, and a week is its days.
LEMMA Tiles ==
    ASSUME NEW z, MidnightsOnce(z), NEW t \in Int
    PROVE  LET day == dayBounds(z, t)
               week == weekBounds(z, t)
               days == daysOf(z, week)
           IN  /\ day.start <= t /\ t < day.end
               /\ dayBounds(z, day.end).start = day.end
               /\ day \in days /\ Cardinality(days) = DaysPerWeek
               /\ lengthsOf(days) = week.end - week.start
               /\ weekBounds(z, week.end).start = week.end
<1> DEFINE W == DaysPerWeek
           k == wall(z, t) \div Day
           m == k - (k % W)
           day == dayBounds(z, t)
           week == weekBounds(z, t)
           days == daysOf(z, week)
<1>1. W \in Nat \ {0}
  BY TimelineAssumption
<1>2. /\ k \in Int /\ day = [start |-> midnight(z, k), end |-> midnight(z, k + 1)]
      /\ midnight(z, k) <= t /\ t < midnight(z, k + 1)
  BY DayIs
<1>3. /\ week = [start |-> midnight(z, m), end |-> midnight(z, m + W)]
      /\ m \in Int /\ k - m \in 0..(W - 1) /\ m % W = 0
  BY WeekIs
<1>4. days = DaysFrom(z, m, W)
  <2> HIDE DEF m, week
  <2>1. QED  BY <1>3, DaysAre
<1> HIDE DEF k, m, day, week, days
<1>5. day.start <= t /\ t < day.end
  BY <1>2
<1>6. dayBounds(z, day.end).start = day.end
  <2> DEFINE x == midnight(z, k + 1)
  <2>1. k + 1 \in Int
    BY <1>2
  <2>2. x \in Int
    BY <2>1, MidnightFacts
  <2>3. wall(z, x) \div Day = k + 1
    BY <2>1, MidnightSteps
  <2>4. dayBounds(z, x) = [start |-> midnight(z, wall(z, x) \div Day),
                           end |-> midnight(z, (wall(z, x) \div Day) + 1)]
    BY <2>2, DayIs
  <2>5. dayBounds(z, x).start = x
    BY <2>3, <2>4
  <2>6. QED  BY <1>2, <2>5
<1>7. day \in days
  <2>1. k - m \in 0..(W - 1) /\ m + (k - m) = k /\ m + (k - m) + 1 = k + 1
    BY <1>2, <1>3
  <2>2. day = [start |-> midnight(z, m + (k - m)), end |-> midnight(z, m + (k - m) + 1)]
    BY <1>2, <2>1
  <2>3. QED  BY <1>4, <2>1, <2>2 DEF DaysFrom
<1>8. /\ Cardinality(days) = W
      /\ lengthsOf(days) = midnight(z, m + W) - midnight(z, m)
  <2>1. W \in Nat
    BY <1>1
  <2> HIDE DEF W
  <2>2. /\ Cardinality(DaysFrom(z, m, W)) = W
        /\ sumOf([d \in DaysFrom(z, m, W) |-> d.end - d.start]) = midnight(z, m + W) - midnight(z, m)
    BY <1>3, <2>1, DaysFromFacts
  <2>3. lengthsOf(days) = sumOf([d \in days |-> d.end - d.start])
    BY DEF lengthsOf
  <2>4. QED  BY <1>4, <2>2, <2>3
<1>9. weekBounds(z, week.end).start = week.end
  <2> DEFINE n == m + W
             x == midnight(z, n)
  <2>1. n \in Int /\ n % W = 0
    <3>1. m \div W \in Int /\ m = W * (m \div W) + (m % W)
      BY <1>1, <1>3, Division
    <3> DEFINE q == m \div W
    <3>2. q \in Int /\ m = W * q
      BY <1>1, <1>3, <3>1
    <3> HIDE DEF q
    <3>3. (q + 1) * W = m + W /\ q + 1 \in Int
      BY <1>1, <3>2
    <3>4. ((q + 1) * W) % W = 0
      BY <1>1, <3>3, Multiples
    <3>5. QED  BY <1>1, <1>3, <3>3, <3>4
  <2> HIDE DEF n
  <2>2. x \in Int
    BY <2>1, MidnightFacts
  <2>3. wall(z, x) \div Day = n
    BY <2>1, MidnightSteps
  <2>4. weekBounds(z, x) = [start |-> midnight(z, (wall(z, x) \div Day) - ((wall(z, x) \div Day) % W)),
                            end |-> midnight(z, (wall(z, x) \div Day) - ((wall(z, x) \div Day) % W) + W)]
    BY <2>2, WeekIs
  <2>5. n - 0 = n
    BY <2>1
  <2>6. weekBounds(z, x).start = x
    BY <2>1, <2>3, <2>4, <2>5
  <2>7. QED  BY <1>3, <2>6 DEF n
<1>10. QED  BY <1>3, <1>5, <1>6, <1>7, <1>8, <1>9 DEF day, week, days

\* Days and weeks tile time in every account whose zone shows each midnight
\* once. Where a change of the clock skips or repeats a midnight, the code's
\* days do overlap or leave time out (timeline.go:73).
THEOREM DaysTile ==
    ASSUME \A a \in Accounts : MidnightsOnce(a.zone)
    PROVE  Spec => []PeriodsTile
<1>1. Spec => []DashInv
  BY InitShows, StepShows, PTL DEF Spec
<1>2. DashInv => PeriodsTile
  <2>1. SUFFICES ASSUME DashInv
                 PROVE  PeriodsTile
    OBVIOUS
  <2> DEFINE z == account.zone
  <2>2. MidnightsOnce(z)
    BY <2>1 DEF DashInv, EditorInv, RecordsNumbered
  <2>3. \A t \in (z.at - DaysPerWeek * Day)..(z.at + DaysPerWeek * Day) : t \in Int
    OBVIOUS
  <2> HIDE DEF z
  <2>4. \A t \in (z.at - DaysPerWeek * Day)..(z.at + DaysPerWeek * Day) :
          LET day == dayBounds(z, t)
              week == weekBounds(z, t)
              days == daysOf(z, week)
          IN  /\ day.start <= t /\ t < day.end
              /\ dayBounds(z, day.end).start = day.end
              /\ day \in days /\ Cardinality(days) = DaysPerWeek
              /\ lengthsOf(days) = week.end - week.start
              /\ weekBounds(z, week.end).start = week.end
    BY <2>2, <2>3, Tiles
  <2>5. QED  BY <2>4 DEF PeriodsTile, z
<1>3. QED  BY <1>1, <1>2, PTL
-----------------------------------------------------------------------------
(* Bars: rows joined, and the axis they stand on.                           *)

\* Rows with columns F and values U, a title and a beginning before the end.
Drawn(F, U) ==
    {r \in [F -> U] : r.start \in Int /\ r.end \in Int /\ r.start < r.end}
Columns(F, U) == Int \subseteq U /\ "" \in U /\ {"start", "end", "title"} \subseteq F

\* m lies in the time of a row of S.
Busy(S, m) == \E r \in S : r.start <= m /\ m < r.end

\* What mergeAdjacentActivity does with one more row.
Joined(c, r) ==
    LET i == Max({j \in 1..Len(c) : c[j].device = r.device} \union {0})
    IN  IF i > 0 /\ c[i].app = r.app /\ r.start <= c[i].end
        THEN [c EXCEPT ![i].end = Max({@, r.end}),
                       ![i].title = IF @ = r.title THEN @ ELSE ""]
        ELSE Append(c, r)

\* Bars made of rows of S.
MadeOf(F, U, S) == {r \in Drawn(F, U) : \A m \in r.start..(r.end - 1) : Busy(S, m)}

\* One more row joined to bars.
LEMMA JoinedBars ==
    ASSUME NEW F, NEW U, Columns(F, U), NEW S, NEW c \in Seq(MadeOf(F, U, S)), NEW r \in MadeOf(F, U, S)
    PROVE  Joined(c, r) \in Seq(MadeOf(F, U, S))
<1> DEFINE B == MadeOf(F, U, S)
           n == Len(c)
           i == Max({j \in 1..n : c[j].device = r.device} \union {0})
           m == c[i]
           top == Max({m.end, r.end})
           name == IF m.title = r.title THEN m.title ELSE ""
           new == [m EXCEPT !.end = top, !.title = name]
           d == [c EXCEPT ![i] = new]
<1>1. n \in Nat /\ c \in [1..n -> B]
  OBVIOUS
<1>2. i \in 0..n
  <2> DEFINE K == {j \in 1..n : c[j].device = r.device} \union {0}
  <2>1. K \subseteq 0..n /\ K \in SUBSET Int /\ K # {}
    BY <1>1
  <2>2. IsFiniteSet(K)
    <3>1. IsFiniteSet(0..n)
      BY <1>1, FS_Interval
    <3>2. QED  BY <2>1, <3>1, FS_Subset
  <2> HIDE DEF K
  <2>3. Max(K) \in K
    BY <2>1, <2>2, FiniteExtremes
  <2>4. QED  BY <2>1, <2>3 DEF K
<1>3. CASE ~(i > 0 /\ m.app = r.app /\ r.start <= m.end)
  <2>1. Joined(c, r) = Append(c, r)
    BY <1>3 DEF Joined
  <2> HIDE DEF B
  <2>2. QED  BY <2>1 DEF B
<1>4. CASE i > 0 /\ m.app = r.app /\ r.start <= m.end
  <2>1. i \in 1..n /\ m \in B
    BY <1>1, <1>2, <1>4
  <2>2. Joined(c, r) = [c EXCEPT ![i].end = Max({@, r.end}),
                                 ![i].title = IF @ = r.title THEN @ ELSE ""]
    BY <1>4 DEF Joined
  <2> HIDE DEF i
  <2>3. [c EXCEPT ![i].end = Max({@, r.end}), ![i].title = IF @ = r.title THEN @ ELSE ""] = d
    BY <1>1, <2>1
  <2>4. new \in B
    <3> HIDE DEF m, n
    <3>1. /\ m \in [F -> U] /\ m.start \in Int /\ m.end \in Int /\ m.start < m.end
          /\ r \in [F -> U] /\ r.start \in Int /\ r.end \in Int /\ r.start < r.end
      BY <2>1 DEF MadeOf, Drawn
    <3>2. top \in Int /\ top = IF m.end < r.end THEN r.end ELSE m.end
      BY <3>1, OfTwo
    <3>3. name \in U
      BY <3>1 DEF Columns
    <3> HIDE DEF top, name
    <3>4. new \in [F -> U] /\ new.start = m.start /\ new.end = top
      BY <3>1, <3>2, <3>3 DEF Columns
    <3> HIDE DEF new
    <3>5. new \in Drawn(F, U)
      BY <3>1, <3>2, <3>4 DEF Drawn
    <3>6. ASSUME NEW x \in new.start..(new.end - 1)
          PROVE  Busy(S, x)
      <4>1. x \in Int /\ m.start <= x /\ x < top
        BY <3>1, <3>2, <3>4, <3>6
      <4>2. x \in m.start..(m.end - 1) \/ x \in r.start..(r.end - 1)
        BY <1>4, <3>1, <3>2, <4>1
      <4>3. QED  BY <2>1, <4>2 DEF MadeOf
    <3>7. QED  BY <3>5, <3>6 DEF MadeOf
  <2> HIDE DEF new, m, B
  <2>5. d \in [1..n -> B]
    BY <1>1, <2>1, <2>4
  <2> HIDE DEF d, n
  <2>6. d \in Seq(B)
    BY <1>1, <2>5, SeqDef
  <2>7. QED  BY <2>2, <2>3, <2>6 DEF B
<1>5. Joined(c, r) \in Seq(MadeOf(F, U, S))
  BY <1>3, <1>4
<1>6. QED  BY <1>5

\* The bars of a sequence of rows.
LEMMA MergeFacts ==
    ASSUME NEW F, NEW U, Columns(F, U), NEW rows \in Seq(Drawn(F, U))
    PROVE  mergeAdjacentActivity(rows) \in Seq(MadeOf(F, U, Range(rows)))
<1> DEFINE S == Range(rows)
           V == Seq(MadeOf(F, U, S))
           n == Len(rows)
           D == DOMAIN rows
           Step(it) == [T \in SUBSET D |-> IF T = {} THEN <<>> ELSE Joined(it[T \ {Max(T)}], rows[Max(T)])]
           fold == CHOOSE it : it = Step(it)
<1>1. n \in Nat /\ rows \in [1..n -> Drawn(F, U)] /\ D = 1..n
  OBVIOUS
<1>2. mergeAdjacentActivity(rows) = fold[D]
  BY Zenon DEF mergeAdjacentActivity, FoldLeft, MapThenFoldSet, Joined
<1> HIDE DEF D
<1>3. \A i \in D : rows[i] \in MadeOf(F, U, S)
  <2>1. SUFFICES ASSUME NEW i \in D
                 PROVE  rows[i] \in MadeOf(F, U, S)
    OBVIOUS
  <2>2. rows[i] \in Drawn(F, U) /\ rows[i] \in S
    BY <1>1 DEF Range, D
  <2>3. \A m \in rows[i].start..(rows[i].end - 1) : Busy(S, m)
    <3>1. rows[i].start \in Int /\ rows[i].end \in Int
      BY <2>2 DEF Drawn
    <3>2. SUFFICES ASSUME NEW m \in rows[i].start..(rows[i].end - 1)
                   PROVE  rows[i].start <= m /\ m < rows[i].end
      BY <2>2 DEF Busy
    <3>3. QED  BY <3>1, <3>2
  <2>4. QED  BY <2>2, <2>3 DEF MadeOf
<1> DEFINE f == [i \in D |-> [c \in V |-> Joined(c, rows[i])]]
           pick == [T \in SUBSET D |-> Max(T)]
<1>4. IsFiniteSet(D)
  BY <1>1, FS_Interval
<1>5. \A T \in SUBSET D : T # {} => pick[T] \in T
  <2>1. SUFFICES ASSUME NEW T \in SUBSET D, T # {}
                 PROVE  Max(T) \in T
    OBVIOUS
  <2>2. T \in SUBSET Int
    BY <1>1
  <2>3. IsFiniteSet(T)
    BY <1>4, FS_Subset
  <2>4. QED  BY <2>1, <2>2, <2>3, FiniteExtremes
<1>6. \A i \in D : \A c \in V : f[i][c] = Joined(c, rows[i]) /\ f[i][c] \in V
  <2>1. SUFFICES ASSUME NEW i \in D, NEW c \in V
                 PROVE  f[i][c] = Joined(c, rows[i]) /\ Joined(c, rows[i]) \in V
    OBVIOUS
  <2>2. Joined(c, rows[i]) \in V
    <3> DEFINE r == rows[i]
    <3>1. r \in MadeOf(F, U, S)
      BY <1>3
    <3> HIDE DEF S, r
    <3>2. c \in Seq(MadeOf(F, U, S))
      OBVIOUS
    <3>3. Joined(c, r) \in Seq(MadeOf(F, U, S))
      BY ONLY Columns(F, U), <3>1, <3>2, JoinedBars
    <3>4. QED  BY <3>3 DEF r
  <2>3. QED  BY <2>2
<1>7. <<>> \in V
  OBVIOUS
<1>8. \A T \in SUBSET D : pick[T] = Max(T)
  OBVIOUS
<1> HIDE DEF f, pick, V
<1>9. PICK it : IsFold(it, D, V, <<>>, pick, f)
  BY <1>4, <1>5, <1>6, <1>7, FoldExists
<1>10. \A T \in SUBSET D : T # {} =>
          f[pick[T]][it[T \ {pick[T]}]] = Joined(it[T \ {Max(T)}], rows[Max(T)])
  <2>1. TAKE T \in SUBSET D
  <2>2. HAVE T # {}
  <2>3. pick[T] = Max(T) /\ Max(T) \in D /\ T \ {Max(T)} \in SUBSET D
    BY <1>5, <1>8, <2>2
  <2>4. QED  BY <1>6, <1>9, <2>3 DEF IsFold
<1>11. it = Step(it)
  BY <1>9, <1>10 DEF IsFold
<1>a. fold = Step(fold)
  <2> HIDE DEF Step
  <2>1. QED  BY <1>11
<1> HIDE DEF fold
<1> DEFINE P == {T \in SUBSET D : fold[T] \in V}
<1>12. {} \in P
  <2>1. fold[{}] = <<>>
    BY <1>a
  <2>2. QED  BY <1>7, <2>1
<1>13. \A k \in 0..n : 1..k \in SUBSET D
  BY <1>1
<1> DEFINE Q == {k \in Nat : k <= n => fold[1..k] \in V}
<1>14. 0 \in Q
  <2>1. 1..0 = {}
    OBVIOUS
  <2>2. QED  BY <1>12, <2>1
<1>15. ASSUME NEW k \in Nat, k \in Q
       PROVE  k + 1 \in Q
  <2>1. SUFFICES ASSUME k + 1 <= n
                 PROVE  fold[1..(k + 1)] \in V
    OBVIOUS
  <2> DEFINE T == 1..(k + 1)
  <2>2. T \in SUBSET D /\ T # {} /\ Max(T) = k + 1 /\ T \ {k + 1} = 1..k /\ k + 1 \in D
    <3>1. T # {} /\ Max(T) = k + 1 /\ T \ {k + 1} = 1..((k + 1) - 1)
      <4>1. k + 1 \in Nat /\ k + 1 > 0
        OBVIOUS
      <4>2. QED  BY <4>1, UpTo
    <3>2. T \in SUBSET D /\ k + 1 \in D /\ (k + 1) - 1 = k
      BY <1>1, <2>1
    <3>3. QED  BY <3>1, <3>2
  <2>3. fold[1..k] \in V
    BY <1>15, <2>1
  <2> HIDE DEF T
  <2>4. fold[T] = Joined(fold[1..k], rows[k + 1])
    BY <1>a, <2>2
  <2>5. Joined(fold[1..k], rows[k + 1]) \in V
    BY <1>6, <2>2, <2>3
  <2>6. QED  BY <2>4, <2>5 DEF T
<1> HIDE DEF Q
<1>16. fold[1..n] \in V
  <2>1. n \in Q
    BY <1>1, <1>14, <1>15, Numbers
  <2>2. QED  BY <1>1, <2>1 DEF Q
<1>17. QED  BY <1>1, <1>2, <1>16 DEF V
-----------------------------------------------------------------------------
(* Hours, and how many of them are kept.                                    *)

\* The only multiple of d that is not further below a than d.
LEMMA Quotient ==
    ASSUME NEW a \in Int, NEW d \in Nat \ {0}, NEW q \in Int, d * q <= a, a < d * q + d
    PROVE  a \div d = q /\ a % d = a - d * q
<1> DEFINE p == a \div d
           o == a % d
<1>1. p \in Int /\ o \in 0..(d - 1) /\ a = d * p + o
  BY Division
<1>2. p * d = d * p /\ q * d = d * q
  BY <1>1
<1>3. p < q => p * d + d <= q * d
  BY <1>1, Multiples
<1>4. q < p => q * d + d <= p * d
  BY <1>1, Multiples
<1> HIDE DEF p, o
<1>5. d * p \in Int /\ d * q \in Int
  BY <1>1
<1> DEFINE dp == d * p
           dq == d * q
<1>6. dp \in Int /\ dq \in Int /\ a = dp + o /\ dq <= a /\ a < dq + d
      /\ (p < q => dp + d <= dq) /\ (q < p => dq + d <= dp)
  BY <1>1, <1>2, <1>3, <1>4, <1>5
<1>7. ~(p < q) /\ ~(q < p)
  <2> HIDE DEF dp, dq
  <2>1. QED  BY <1>1, <1>6
<1>8. p = q
  BY <1>1, <1>7
<1>9. QED  BY <1>1, <1>8 DEF p, o

\* How many numbers of K are below h.
Below(K, h) == Cardinality({k \in K : k < h})

\* It grows with h, by one for each number of K that is passed.
LEMMA BelowFacts ==
    ASSUME NEW K \in SUBSET Int, IsFiniteSet(K), NEW g \in Int, NEW h \in Int
    PROVE  /\ Cardinality(K) \in Nat /\ Below(K, h) \in Nat /\ Below(K, h) <= Cardinality(K)
           /\ h \in K => Below(K, h) < Cardinality(K)
           /\ g \in K /\ g < h => Below(K, g) < Below(K, h)
           /\ g <= h /\ g..(h - 1) \subseteq K => Below(K, h) = Below(K, g) + (h - g)
<1> DEFINE G == {k \in K : k < g}
           H == {k \in K : k < h}
<1>1. /\ G \subseteq K /\ IsFiniteSet(G) /\ Cardinality(G) \in Nat
      /\ H \subseteq K /\ IsFiniteSet(H) /\ Cardinality(H) \in Nat
      /\ Cardinality(K) \in Nat /\ Cardinality(H) <= Cardinality(K)
  <2>1. G \subseteq K /\ H \subseteq K
    OBVIOUS
  <2> HIDE DEF G, H
  <2>2. QED  BY <2>1, FS_Subset, FS_CardinalityType
<1>2. ASSUME h \in K
      PROVE  Cardinality(H) < Cardinality(K)
  <2>1. h \notin H /\ H \subseteq K \ {h}
    OBVIOUS
  <2> HIDE DEF H
  <2>2. IsFiniteSet(K \ {h}) /\ Cardinality(K \ {h}) = Cardinality(K) - 1
    BY <1>2, FS_RemoveElement
  <2>3. Cardinality(H) <= Cardinality(K \ {h})
    BY <2>1, <2>2, FS_Subset
  <2>4. QED  BY <1>1, <2>2, <2>3
<1>3. ASSUME g \in K, g < h
      PROVE  Cardinality(G) < Cardinality(H)
  <2>1. g \in H /\ G \subseteq H \ {g}
    <3>1. g \in H
      BY <1>3
    <3>2. ASSUME NEW k \in K, k < g
          PROVE  k < h /\ k # g
      <4>1. k \in Int
        OBVIOUS
      <4>2. QED  BY <1>3, <3>2, <4>1
    <3>3. QED  BY <3>1, <3>2
  <2> HIDE DEF G, H
  <2>2. IsFiniteSet(H \ {g}) /\ Cardinality(H \ {g}) = Cardinality(H) - 1
    BY <1>1, <2>1, FS_RemoveElement
  <2>3. Cardinality(G) <= Cardinality(H \ {g})
    BY <2>1, <2>2, FS_Subset
  <2>4. QED  BY <1>1, <2>2, <2>3
<1>4. ASSUME g <= h, g..(h - 1) \subseteq K
      PROVE  Cardinality(H) = Cardinality(G) + (h - g)
  <2> DEFINE l == h - 1
             I == g..l
  <2>1. l \in Int /\ l - g + 1 = h - g /\ (g > l => h - g = 0)
    BY <1>4
  <2>2. H = G \union I /\ G \intersect I = {}
    <3>1. \A k \in K : k \in Int /\ (k < h <=> k < g \/ k \in I)
      BY <1>4
    <3>2. \A k \in I : k \in K /\ k < h /\ ~(k < g)
      BY <1>4
    <3> HIDE DEF I
    <3>3. QED  BY <3>1, <3>2
  <2> HIDE DEF l
  <2>3. IsFiniteSet(I) /\ Cardinality(I) = IF g > l THEN 0 ELSE l - g + 1
    BY <2>1, FS_Interval
  <2> HIDE DEF G, H, I
  <2>4. Cardinality(I) = h - g
    BY <2>1, <2>3
  <2>5. Cardinality(G \union I) = Cardinality(G) + Cardinality(I) - Cardinality(G \intersect I)
    BY <1>1, <2>3, FS_Union
  <2>6. Cardinality(G \intersect I) = 0
    BY <2>2, FS_EmptySet
  <2>7. QED  BY <1>1, <2>2, <2>4, <2>5, <2>6
<1> HIDE DEF G, H
<1>5. Below(K, g) = Cardinality(G) /\ Below(K, h) = Cardinality(H)
  BY DEF Below, G, H
<1>6. QED  BY <1>1, <1>2, <1>3, <1>4, <1>5
-----------------------------------------------------------------------------
(* The axis.                                                                *)

\* What there is of each row of S in the window w stands on the axis, as long
\* as it is and in order.
Stands(S, w, scale) ==
    LET at(y) == minutesAt(scale, w, y)
        from(r) == clip(r, w).start
        to(r) == clip(r, w).end
    IN  /\ \A r \in within(S, w) :
             /\ at(from(r)) \in Int /\ at(from(r)) >= 0 /\ at(from(r)) < axisLength(scale, w)
             /\ at(to(r)) - at(from(r)) = to(r) - from(r) /\ at(to(r)) \in Int
             /\ at(to(r)) <= axisLength(scale, w)
        /\ \A r, q \in within(S, w) : from(q) < from(r) => at(from(q)) < at(from(r))

Window(w) == w.start \in Int /\ w.end \in Int

\* What there is of a row.
LEMMA WithinFacts ==
    ASSUME NEW S, \A r \in S : r.start \in Int /\ r.end \in Int, NEW w, Window(w), NEW r \in within(S, w)
    PROVE  /\ clip(r, w).start \in Int /\ clip(r, w).end \in Int /\ r \in S
           /\ w.start <= clip(r, w).start /\ clip(r, w).start < clip(r, w).end /\ clip(r, w).end <= w.end
           /\ r.start <= clip(r, w).start /\ clip(r, w).end <= r.end
<1>1. r \in S /\ clip(r, w).start < clip(r, w).end /\ r.start \in Int /\ r.end \in Int
  BY DEF within
<1>2. /\ clip(r, w).start = IF r.start < w.start THEN w.start ELSE r.start
      /\ clip(r, w).end = IF w.end < r.end THEN w.end ELSE r.end
  BY <1>1, ClipFacts DEF Window
<1> DEFINE c == clip(r, w)
<1> HIDE DEF c
<1>3. QED  BY <1>1, <1>2 DEF c, Window

\* On the plain axis.
LEMMA PlainStands ==
    ASSUME NEW S, \A r \in S : r.start \in Int /\ r.end \in Int, NEW w, Window(w)
    PROVE  Stands(S, w, {})
<1>1. \A y : minutesAt({}, w, y) = y - w.start
  BY DEF minutesAt
<1>2. axisLength({}, w) = w.end - w.start
  BY DEF axisLength
<1>3. ASSUME NEW r \in within(S, w)
      PROVE  /\ clip(r, w).start \in Int /\ clip(r, w).end \in Int
             /\ w.start <= clip(r, w).start /\ clip(r, w).start < clip(r, w).end /\ clip(r, w).end <= w.end
  BY WithinFacts
<1>4. QED  BY <1>1, <1>2, <1>3 DEF Stands, Window

\* A time on the compressed axis.
LEMMA KeptAt ==
    ASSUME NEW w, Window(w), NEW scale, scale # {}, NEW y \in Int
    PROVE  LET h == (y - w.start) \div Hour
               o == (y - w.start) % Hour
           IN  /\ h \in Int /\ o \in 0..(Hour - 1) /\ y - w.start = Hour * h + o
               /\ h \in scale => minutesAt(scale, w, y) = Below(scale, h) * Hour + o
               /\ h \notin scale => minutesAt(scale, w, y) = Below(scale, h) * Hour
<1> DEFINE d == y - w.start
           h == d \div Hour
           o == d % Hour
<1>1. d \in Int /\ Hour \in Nat \ {0}
  BY TimelineAssumption DEF Window
<1>2. h \in Int /\ o \in 0..(Hour - 1) /\ d = Hour * h + o
  <2> HIDE DEF d
  <2>1. QED  BY <1>1, Division
<1>3. minutesAt(scale, w, y) = IF h \in scale THEN Below(scale, h) * Hour + o ELSE Below(scale, h) * Hour
  BY DEF minutesAt, Below
<1>4. QED  BY <1>2, <1>3

\* The hours of the window that what is left of a row touches.
LEMMA TouchedFacts ==
    ASSUME NEW S, \A r \in S : r.start \in Int /\ r.end \in Int, NEW w, Window(w), NEW r \in within(S, w)
    PROVE  LET c == clip(r, w)
               g == (c.start - w.start) \div Hour
               h == (c.end - w.start) \div Hour
               o == (c.end - w.start) % Hour
           IN  /\ g \in Int /\ h \in Int /\ 0 <= g /\ g <= h
               /\ touched(r, w) = g..(IF o = 0 THEN h - 1 ELSE h)
               /\ g \in touched(r, w)
               /\ (IF o = 0 THEN h - 1 ELSE h) * Hour < c.end - w.start
<1> DEFINE c == clip(r, w)
           a == c.start - w.start
           b == c.end - w.start
           g == a \div Hour
           h == b \div Hour
           o == b % Hour
<1>1. Hour \in Nat \ {0} /\ a \in Int /\ b \in Int /\ 0 <= a /\ a < b
  BY TimelineAssumption, WithinFacts DEF Window
<1>2. touched(r, w) = g..((b - 1) \div Hour)
  <2>1. b - 1 = c.end - w.start - 1
    OBVIOUS
  <2>2. QED  BY <2>1 DEF touched
<1> HIDE DEF a, b
<1>3. /\ g \in Int /\ a % Hour \in 0..(Hour - 1) /\ a = Hour * g + (a % Hour)
      /\ h \in Int /\ o \in 0..(Hour - 1) /\ b = Hour * h + o
  BY <1>1, Division
<1> HIDE DEF g, h, o
<1> DEFINE e == IF o = 0 THEN h - 1 ELSE h
           p == Hour * e
           k == Hour * g
<1>4. e \in Int /\ p \in Int /\ k \in Int /\ Hour * h \in Int /\ k = g * Hour /\ p = e * Hour
      /\ p = IF o = 0 THEN Hour * h - Hour ELSE Hour * h
  BY <1>1, <1>3
<1>5. (b - 1) \div Hour = e
  <2>1. p <= b - 1 /\ b - 1 < p + Hour /\ b - 1 \in Int
    <3> DEFINE u == Hour * h
    <3>1. u \in Int /\ b = u + o /\ p = IF o = 0 THEN u - Hour ELSE u
      BY <1>3, <1>4
    <3> HIDE DEF u, p
    <3>2. QED  BY <1>1, <1>3, <3>1
  <2> HIDE DEF e
  <2>2. QED  BY <1>1, <1>4, <2>1, Quotient DEF p
<1>6. g <= e /\ 0 <= g /\ p <= b - 1
  <2>1. e < g => e * Hour + Hour <= g * Hour
    <3> HIDE DEF e
    <3>1. QED  BY <1>1, <1>3, <1>4, Multiples
  <2>2. g < 0 => g * Hour + Hour <= 0 * Hour
    BY <1>1, <1>3, Multiples
  <2>3. 0 * Hour = 0
    BY <1>1
  <2>4. k <= a /\ a < k + Hour /\ p <= b - 1 /\ b - 1 < p + Hour
    <3> DEFINE u == Hour * h
               v == a % Hour
    <3>1. /\ u \in Int /\ b = u + o /\ p = IF o = 0 THEN u - Hour ELSE u
          /\ k \in Int /\ v \in 0..(Hour - 1) /\ a = k + v
      BY <1>3, <1>4
    <3> HIDE DEF u, v, p, k
    <3>2. QED  BY <1>1, <1>3, <3>1
  <2>5. ~(e < g)
    <3>1. e < g => p + Hour <= k
      BY <1>4, <2>1
    <3> HIDE DEF p, k, e
    <3>2. QED  BY <1>1, <1>4, <2>4, <3>1
  <2>6. ~(g < 0)
    <3>1. g < 0 => k + Hour <= 0
      BY <1>4, <2>2, <2>3
    <3> HIDE DEF p, k, e
    <3>2. QED  BY <1>1, <1>4, <2>4, <3>1
  <2>7. QED  BY <1>3, <1>4, <2>4, <2>5, <2>6
<1>7. g <= h
  BY <1>3, <1>6
<1>a. e * Hour < b
  BY <1>1, <1>4, <1>6
<1>8. touched(r, w) = g..e /\ g \in g..e
  BY <1>2, <1>3, <1>4, <1>5, <1>6 DEF g
<1>9. QED  BY <1>3, <1>6, <1>7, <1>8, <1>a DEF a, b, g, h, o

\* The hours that are kept, if any is dropped.
LEMMA ScaleFacts ==
    ASSUME NEW S, \A r \in S : r.start \in Int /\ r.end \in Int, NEW w, Window(w),
           (w.end - w.start) % Hour = 0, activeHourScale(S, w) # {}
    PROVE  LET scale == activeHourScale(S, w)
           IN  /\ scale \in SUBSET Int /\ IsFiniteSet(scale)
               /\ \A r \in within(S, w) : touched(r, w) \subseteq scale
               /\ \A h \in scale : h >= 0 /\ \E r \in within(S, w) : h \in touched(r, w)
<1> DEFINE n == hoursOf(w)
           active == (0..(n - 1)) \intersect UNION {touched(r, w) : r \in within(S, w)}
           scale == activeHourScale(S, w)
<1>1. scale = active
  <2>1. scale = IF Cardinality(active) = n THEN {} ELSE active
    BY DEF activeHourScale
  <2> HIDE DEF scale, active
  <2>2. QED  BY <2>1 DEF scale
<1>2. Hour \in Nat \ {0} /\ w.end - w.start \in Int
  BY TimelineAssumption DEF Window
<1>3. n \in Int /\ w.end - w.start = Hour * n
  <2> DEFINE d == w.end - w.start
  <2>1. d \in Int
    BY <1>2
  <2> HIDE DEF d
  <2>2. d \div Hour \in Int /\ d = Hour * (d \div Hour) + (d % Hour)
    BY <1>2, <2>1, Division
  <2>3. d % Hour = 0 /\ n = d \div Hour
    BY DEF d, hoursOf
  <2>4. d = Hour * n
    BY <1>2, <2>2, <2>3
  <2>5. QED  BY <2>2, <2>3, <2>4 DEF d
<1> HIDE DEF n
<1>4. active \subseteq 0..(n - 1) /\ IsFiniteSet(active)
  <2>1. active \subseteq 0..(n - 1)
    OBVIOUS
  <2>2. 0 \in Int /\ n - 1 \in Int
    BY <1>3
  <2>3. IsFiniteSet(0..(n - 1))
    BY <2>2, FS_Interval
  <2> HIDE DEF active
  <2>4. QED  BY <2>1, <2>3, FS_Subset
<1>5. ASSUME NEW r \in within(S, w)
      PROVE  touched(r, w) \subseteq active
  <2> DEFINE c == clip(r, w)
             b == c.end - w.start
             g == (c.start - w.start) \div Hour
             h == b \div Hour
             o == b % Hour
             e == IF o = 0 THEN h - 1 ELSE h
  <2>1. /\ g \in Int /\ h \in Int /\ 0 <= g /\ touched(r, w) = g..e /\ e * Hour < b
    BY TouchedFacts
  <2>2. b \in Int /\ b <= Hour * n
    BY <1>3, WithinFacts DEF Window
  <2> HIDE DEF g, b
  <2>3. e \in Int
    BY <2>1
  <2> HIDE DEF e
  <2>4. n <= e => n * Hour <= e * Hour
    <3>1. n < e => n * Hour + Hour <= e * Hour
      BY <1>2, <1>3, <2>3, Multiples
    <3>2. n * Hour \in Int /\ e * Hour \in Int
      BY <1>2, <1>3, <2>3
    <3> DEFINE x == n * Hour
               y == e * Hour
    <3>3. (n < e => x + Hour <= y) /\ (n = e => x = y) /\ x \in Int /\ y \in Int
      BY <3>1, <3>2
    <3> HIDE DEF x, y
    <3>4. n <= e => x <= y
      BY <1>2, <1>3, <2>3, <3>3
    <3>5. QED  BY <3>4 DEF x, y
  <2>5. n * Hour = Hour * n
    BY <1>2, <1>3
  <2>6. e < n
    <3> DEFINE x == n * Hour
               y == e * Hour
    <3>1. x \in Int /\ y \in Int /\ y < b /\ b <= x /\ (n <= e => x <= y)
      BY <1>2, <1>3, <2>1, <2>2, <2>3, <2>4, <2>5
    <3> HIDE DEF x, y
    <3>2. QED  BY <1>3, <2>2, <2>3, <3>1
  <2>7. g..e \subseteq 0..(n - 1)
    BY <1>3, <2>1, <2>3, <2>6
  <2>8. QED  BY <2>1, <2>7
<1>6. \A h \in active : h >= 0 /\ \E r \in within(S, w) : h \in touched(r, w)
  BY <1>3
<1> HIDE DEF active
<1>7. active \in SUBSET Int
  BY <1>4
<1>8. QED  BY <1>1, <1>4, <1>5, <1>6, <1>7

\* On the axis of the hours that are kept.
LEMMA KeptStands ==
    ASSUME NEW S, \A r \in S : r.start \in Int /\ r.end \in Int, NEW w, Window(w),
           (w.end - w.start) % Hour = 0, activeHourScale(S, w) # {}
    PROVE  Stands(S, w, activeHourScale(S, w))
<1> DEFINE scale == activeHourScale(S, w)
           at(y) == minutesAt(scale, w, y)
           from(r) == clip(r, w).start
           to(r) == clip(r, w).end
           hour(y) == (y - w.start) \div Hour
           past(y) == (y - w.start) % Hour
           below(h) == Below(scale, h)
           all == Cardinality(scale)
<1>1. /\ scale \in SUBSET Int /\ IsFiniteSet(scale) /\ scale # {}
      /\ \A r \in within(S, w) : touched(r, w) \subseteq scale
  BY ScaleFacts
<1>2. axisLength(scale, w) = all * Hour
  BY <1>1 DEF axisLength
<1> HIDE DEF scale
<1>3. Hour \in Nat \ {0}
  BY TimelineAssumption
<1>4. ASSUME NEW y \in Int
      PROVE  /\ hour(y) \in Int /\ past(y) \in 0..(Hour - 1) /\ y - w.start = Hour * hour(y) + past(y)
             /\ hour(y) \in scale \/ past(y) = 0 => at(y) = below(hour(y)) * Hour + past(y)
             /\ below(hour(y)) \in Nat /\ all \in Nat
  <2>1. /\ hour(y) \in Int /\ past(y) \in 0..(Hour - 1) /\ y - w.start = Hour * hour(y) + past(y)
        /\ hour(y) \in scale => at(y) = below(hour(y)) * Hour + past(y)
        /\ hour(y) \notin scale => at(y) = below(hour(y)) * Hour
    BY <1>1, KeptAt
  <2>2. below(hour(y)) \in Nat /\ all \in Nat
    <3> HIDE DEF hour
    <3>1. QED  BY <1>1, <2>1, BelowFacts
  <2> HIDE DEF hour, past, at, below, all
  <2>3. below(hour(y)) * Hour \in Int
    BY <1>3, <2>2
  <2>4. QED  BY <2>1, <2>2, <2>3
<1>5. ASSUME NEW r \in within(S, w)
      PROVE  /\ from(r) \in Int /\ to(r) \in Int /\ hour(from(r)) \in scale
             /\ hour(to(r)) \in scale \/ past(to(r)) = 0
             /\ hour(from(r)) <= hour(to(r)) /\ hour(from(r))..(hour(to(r)) - 1) \subseteq scale
  <2>1. from(r) \in Int /\ to(r) \in Int
    BY WithinFacts
  <2>2. /\ hour(from(r)) \in Int /\ hour(to(r)) \in Int /\ hour(from(r)) <= hour(to(r))
        /\ touched(r, w) = hour(from(r))..(IF past(to(r)) = 0 THEN hour(to(r)) - 1 ELSE hour(to(r)))
        /\ hour(from(r)) \in touched(r, w)
    BY TouchedFacts
  <2>3. touched(r, w) \subseteq scale
    BY <1>1
  <2> DEFINE g == hour(from(r))
             h == hour(to(r))
             o == past(to(r))
  <2> HIDE DEF g, h, o
  <2>4. g \in scale /\ (o # 0 => h \in scale) /\ g..(h - 1) \subseteq scale
    <3>1. /\ g \in Int /\ h \in Int /\ g <= h /\ g..(IF o = 0 THEN h - 1 ELSE h) \subseteq scale /\ g \in scale
      BY <2>2, <2>3 DEF g, h, o
    <3>2. (o # 0 => h \in g..h) /\ g..(h - 1) \subseteq g..h
      BY <3>1
    <3>3. QED  BY <3>1, <3>2
  <2>5. QED  BY <2>1, <2>2, <2>4 DEF g, h, o
<1>6. ASSUME NEW r \in within(S, w)
      PROVE  /\ at(from(r)) \in Int /\ at(from(r)) >= 0 /\ at(from(r)) < axisLength(scale, w)
             /\ at(to(r)) - at(from(r)) = to(r) - from(r) /\ at(to(r)) \in Int
             /\ at(to(r)) <= axisLength(scale, w)
  <2> DEFINE a == from(r)
             b == to(r)
             g == hour(a)
             h == hour(b)
             p == past(a)
             o == past(b)
             x == below(g)
             y == below(h)
             d == Hour
  <2>1. /\ a \in Int /\ b \in Int /\ g \in scale /\ (h \in scale \/ o = 0)
        /\ g <= h /\ g..(h - 1) \subseteq scale
    BY <1>5
  <2> HIDE DEF a, b
  <2>2. /\ g \in Int /\ p \in 0..(d - 1) /\ a - w.start = d * g + p /\ at(a) = x * d + p /\ x \in Nat
        /\ h \in Int /\ o \in 0..(d - 1) /\ b - w.start = d * h + o /\ at(b) = y * d + o /\ y \in Nat
        /\ all \in Nat
    <3>1. /\ g \in Int /\ p \in 0..(d - 1) /\ a - w.start = d * g + p
          /\ g \in scale \/ p = 0 => at(a) = x * d + p
          /\ x \in Nat
      BY <1>4, <2>1
    <3>2. /\ h \in Int /\ o \in 0..(d - 1) /\ b - w.start = d * h + o
          /\ h \in scale \/ o = 0 => at(b) = y * d + o
          /\ y \in Nat /\ all \in Nat
      BY <1>4, <2>1
    <3> HIDE DEF g, h, p, o, x, y, d, at, all
    <3>3. QED  BY <2>1, <3>1, <3>2
  <2> HIDE DEF g, h, p, o, at
  <2>3. x < all /\ y <= all /\ (h \in scale => y < all) /\ y = x + (h - g)
    BY <1>1, <2>1, <2>2, BelowFacts
  <2> HIDE DEF x, y, all
  <2>4. d \in Nat \ {0}
    BY <1>3
  <2> HIDE DEF d
  <2>5. x * d + d <= all * d /\ (y < all => y * d + d <= all * d) /\ (y = all => y * d = all * d)
    BY <2>2, <2>3, <2>4, Multiples
  <2>6. at(a) \in Int /\ at(b) \in Int /\ at(a) >= 0
    BY <2>2, <2>4
  <2>7. at(b) - at(a) = b - a
    <3>1. y * d = x * d + (h - g) * d
      BY <2>2, <2>3, <2>4, Multiples
    <3>2. (h - g) * d = d * h - d * g
      BY <2>2, <2>4
    <3>3. x * d \in Int /\ d * h \in Int /\ d * g \in Int
      BY <2>2, <2>4
    <3> DEFINE xd == x * d
               hd == d * h
               gd == d * g
    <3>4. xd \in Int /\ hd \in Int /\ gd \in Int /\ at(a) = xd + p /\ at(b) = xd + (hd - gd) + o
      BY <2>2, <3>1, <3>2, <3>3
    <3>5. a - w.start = gd + p /\ b - w.start = hd + o /\ w.start \in Int
      BY <2>2 DEF Window
    <3> HIDE DEF xd, hd, gd
    <3>6. QED  BY <2>1, <2>2, <3>4, <3>5
  <2>8. at(a) < all * d /\ at(b) <= all * d
    <3> DEFINE xd == x * d
               yd == y * d
               cd == all * d
    <3>1. /\ xd \in Int /\ yd \in Int /\ cd \in Int /\ xd + d <= cd
          /\ y < all => yd + d <= cd
          /\ y = all => yd = cd
      BY <2>2, <2>4, <2>5
    <3>2. at(a) = xd + p /\ at(b) = yd + o
      BY <2>2
    <3> HIDE DEF xd, yd, cd
    <3>3. xd + p < cd
      BY <2>2, <2>4, <3>1
    <3>4. yd + o <= cd
      BY <2>1, <2>2, <2>3, <2>4, <3>1
    <3>5. QED  BY <3>2, <3>3, <3>4 DEF cd
  <2>9. QED  BY <1>2, <2>6, <2>7, <2>8 DEF a, b, at, d, all
<1>7. ASSUME NEW r \in within(S, w), NEW q \in within(S, w), from(q) < from(r)
      PROVE  at(from(q)) < at(from(r))
  <2> DEFINE a == from(q)
             b == from(r)
             g == hour(a)
             h == hour(b)
             p == past(a)
             o == past(b)
             x == below(g)
             y == below(h)
             d == Hour
  <2>1. a \in Int /\ b \in Int /\ g \in scale /\ h \in scale /\ a < b
    BY <1>5, <1>7
  <2> HIDE DEF a, b
  <2>2. /\ g \in Int /\ p \in 0..(d - 1) /\ a - w.start = d * g + p /\ at(a) = x * d + p /\ x \in Nat
        /\ h \in Int /\ o \in 0..(d - 1) /\ b - w.start = d * h + o /\ at(b) = y * d + o /\ y \in Nat
    <3>1. /\ g \in Int /\ p \in 0..(d - 1) /\ a - w.start = d * g + p
          /\ g \in scale \/ p = 0 => at(a) = x * d + p
          /\ x \in Nat
      BY <1>4, <2>1
    <3>2. /\ h \in Int /\ o \in 0..(d - 1) /\ b - w.start = d * h + o
          /\ h \in scale \/ o = 0 => at(b) = y * d + o
          /\ y \in Nat
      BY <1>4, <2>1
    <3> HIDE DEF g, h, p, o, x, y, d, at
    <3>3. QED  BY <2>1, <3>1, <3>2
  <2> HIDE DEF g, h, p, o, at
  <2>3. (g < h => x < y) /\ (g = h => x = y)
    BY <1>1, <2>1, <2>2, BelowFacts
  <2> HIDE DEF x, y
  <2>4. d \in Nat \ {0}
    BY <1>3
  <2> HIDE DEF d
  <2>5. /\ x < y => x * d + d <= y * d
        /\ h < g => h * d + d <= g * d
        /\ d * g = g * d /\ d * h = h * d
    BY <2>2, <2>4, Multiples
  <2> DEFINE xd == x * d
             yd == y * d
             gd == g * d
             hd == h * d
  <2>6. /\ xd \in Int /\ yd \in Int /\ gd \in Int /\ hd \in Int
        /\ x < y => xd + d <= yd
        /\ h < g => hd + d <= gd
        /\ g = h => gd = hd
        /\ x = y => xd = yd
    BY <2>2, <2>4, <2>5
  <2>7. a - w.start = gd + p /\ b - w.start = hd + o /\ at(a) = xd + p /\ at(b) = yd + o /\ w.start \in Int
    BY <2>2, <2>5 DEF Window
  <2> HIDE DEF xd, yd, gd, hd
  <2>8. gd + p < hd + o
    BY <2>1, <2>2, <2>6, <2>7
  <2>9. ~(h < g)
    BY <2>2, <2>4, <2>6, <2>8
  <2>10. xd + p < yd + o
    BY <2>2, <2>3, <2>4, <2>6, <2>8, <2>9
  <2>11. QED  BY <2>7, <2>10 DEF a, b
<1>8. QED  BY <1>6, <1>7 DEF Stands, scale

\* The bars of rows.
BarsOf(S, w, scale) == UNION {toBar(r, w, scale) : r \in S}

\* Each row has one bar, at its place.
LEMMA BarsStand ==
    ASSUME NEW S, \A r \in S : r.start \in Int /\ r.end \in Int, NEW w, Window(w), NEW scale,
           Stands(S, w, scale), axisLength(scale, w) \in Int,
           NEW chart, chart.bars = BarsOf(S, w, scale)
    PROVE  /\ {b.row : b \in chart.bars} = within(S, w)
           /\ \A b \in chart.bars : barHolds(b, chart, w, axisLength(scale, w))
<1> DEFINE at(y) == minutesAt(scale, w, y)
           from(r) == clip(r, w).start
           to(r) == clip(r, w).end
           span == axisLength(scale, w)
           least == span \div MinBarParts
           width(r) == Max({at(to(r)) - at(from(r)), least})
           bar(r) == [row |-> r, x |-> at(from(r)), width |-> Min({width(r), span - at(from(r))})]
<1>1. \A r : toBar(r, w, scale) = {b \in {bar(r)} : from(r) < to(r) /\ b.width > 0}
  BY DEF toBar
<1>2. span \in Int /\ least \in Int
  BY TimelineAssumption
<1>3. ASSUME NEW r \in within(S, w)
      PROVE  /\ at(from(r)) \in Int /\ at(from(r)) >= 0 /\ at(from(r)) < span
             /\ at(to(r)) - at(from(r)) = to(r) - from(r) /\ at(to(r)) \in Int
             /\ at(to(r)) <= span /\ from(r) < to(r) /\ from(r) \in Int /\ to(r) \in Int
  BY WithinFacts DEF Stands
<1>4. \A r, q \in within(S, w) : from(q) < from(r) => at(from(q)) < at(from(r))
  BY DEF Stands
<1>5. within(S, w) = {r \in S : from(r) < to(r)}
  BY DEF within
<1> HIDE DEF at, from, to, span, least
<1>6. ASSUME NEW r \in within(S, w)
      PROVE  LET b == bar(r)
             IN  /\ b.row = r /\ b.x = at(from(r)) /\ b.width > 0
                 /\ b.x >= 0 /\ b.x + b.width <= span
                 /\ b.width \in {to(r) - from(r), least, span - b.x}
  <2> DEFINE x == at(from(r))
             l == to(r) - from(r)
             m == Max({l, least})
             n == Min({m, span - x})
  <2>1. x \in Int /\ x >= 0 /\ x < span /\ l \in Int /\ l > 0 /\ at(to(r)) - x = l
    BY <1>3
  <2> HIDE DEF x, l
  <2>2. m = IF l < least THEN least ELSE l
    BY <1>2, <2>1, OfTwo
  <2> HIDE DEF m
  <2>3. m \in Int /\ span - x \in Int
    BY <1>2, <2>1, <2>2
  <2>4. n = IF span - x < m THEN span - x ELSE m
    BY <2>3, OfTwo
  <2> HIDE DEF n
  <2>5. n > 0 /\ x + n <= span /\ n \in {l, least, span - x}
    BY <1>2, <2>1, <2>2, <2>3, <2>4
  <2>6. bar(r).row = r /\ bar(r).x = x /\ bar(r).width = n
    <3>1. width(r) = m
      BY <2>1 DEF m, x
    <3>2. Min({width(r), span - x}) = n
      BY <3>1 DEF n
    <3> HIDE DEF width
    <3>3. QED  BY <3>2 DEF x
  <2> HIDE DEF bar
  <2>7. QED  BY <2>1, <2>5, <2>6 DEF x, l
<1> HIDE DEF bar
<1>7. chart.bars = {bar(r) : r \in within(S, w)}
  <2>1. \A r \in within(S, w) : toBar(r, w, scale) = {bar(r)}
    BY <1>1, <1>5, <1>6
  <2>2. \A r \in S : r \notin within(S, w) => toBar(r, w, scale) = {}
    BY <1>1, <1>5
  <2>3. within(S, w) \subseteq S
    BY <1>5
  <2>4. QED  BY <2>1, <2>2, <2>3 DEF BarsOf
<1>8. {b.row : b \in chart.bars} = within(S, w)
  BY <1>6, <1>7
<1>9. ASSUME NEW b \in chart.bars
      PROVE  barHolds(b, chart, w, span)
  <2>1. PICK r \in within(S, w) : b = bar(r)
    BY <1>7
  <2>2. /\ b.row = r /\ b.x = at(from(r)) /\ b.x >= 0 /\ b.x + b.width <= span
        /\ b.width \in {to(r) - from(r), least, span - b.x}
    BY <1>6, <2>1
  <2>3. ASSUME NEW a \in chart.bars, from(a.row) < from(b.row)
        PROVE  a.x < b.x
    <3>1. PICK q \in within(S, w) : a = bar(q)
      BY <1>7
    <3>2. a.row = q /\ a.x = at(from(q))
      BY <1>6, <3>1
    <3>3. QED  BY <1>4, <2>2, <2>3, <3>2
  <2>4. QED  BY <2>2, <2>3 DEF barHolds, from, to, least
<1>10. QED  BY <1>8, <1>9 DEF span
-----------------------------------------------------------------------------
(* The labels of the axis.                                                  *)

\* The cells of M before m, and how wide they are in units of long.
LeftOf(M, m) == {n \in M : n.at < m.at}
Wide(B, long) == sumOf([n \in B |-> n.span * long])

\* Cells of one width, on a grid.
OnGrid(K, mk, a, d) == \A k \in K : mk[k].at = a + k * d /\ mk[k].span = 1
Cells(mk, K) == {mk[k] : k \in K}
Under(K, h) == {i \in K : i < h}

\* The cells before the one at h.
LEMMA CellsBefore ==
    ASSUME NEW K \in SUBSET Int, IsFiniteSet(K), NEW a \in Int, NEW d \in Nat \ {0}, NEW mk,
           OnGrid(K, mk, a, d), NEW long \in Int, NEW h \in K
    PROVE  /\ LeftOf(Cells(mk, K), mk[h]) = Cells(mk, Under(K, h))
           /\ Wide(LeftOf(Cells(mk, K), mk[h]), long) = Below(K, h) * long
<1>0. \A k \in K : mk[k].at = a + k * d /\ mk[k].span = 1
  BY DEF OnGrid
<1> DEFINE J == {i \in K : i < h}
           before == {n \in {mk[k] : k \in K} : n.at < mk[h].at}
           f == [n \in before |-> n.span * long]
           D == {mk[k] : k \in J}
           one == [k \in J |-> f[mk[k]]]
<1>1. ASSUME NEW i \in K, NEW k \in K
      PROVE  i < k <=> mk[i].at < mk[k].at
  <2> DEFINE x == i * d
             y == k * d
  <2>1. x \in Int /\ y \in Int /\ i \in Int /\ k \in Int
    OBVIOUS
  <2>2. /\ i < k => x + d <= y
        /\ k < i => y + d <= x
        /\ i = k => x = y
    BY <2>1, Multiples
  <2> HIDE DEF x, y
  <2>3. i < k <=> a + x < a + y
    BY <2>1, <2>2
  <2>4. QED  BY <1>0, <2>3 DEF x, y
<1>2. before = D
  <2> HIDE DEF J
  <2>1. \A k \in K : k \in J <=> mk[k].at < mk[h].at
    BY <1>1 DEF J
  <2>2. J \subseteq K
    BY DEF J
  <2>3. QED  BY <2>1, <2>2
<1>3. IsFiniteSet(J) /\ J \subseteq K
  <2>1. J \subseteq K
    OBVIOUS
  <2> HIDE DEF J
  <2>2. QED  BY <2>1, FS_Subset
<1>4. \A i, k \in J : mk[i] = mk[k] => i = k
  <2>1. SUFFICES ASSUME NEW i \in J, NEW k \in J, mk[i] = mk[k]
                 PROVE  i = k
    OBVIOUS
  <2>2. i \in K /\ k \in K /\ i \in Int /\ k \in Int
    BY <1>3
  <2>3. i < k <=> mk[i].at < mk[k].at
    BY <1>1, <2>2
  <2>4. k < i <=> mk[k].at < mk[i].at
    BY <1>1, <2>2
  <2>5. mk[i].at \in Int
    <3>1. i * d \in Int
      BY <2>2
    <3>2. QED  BY <1>0, <2>2, <3>1
  <2>6. ~(mk[i].at < mk[k].at) /\ ~(mk[k].at < mk[i].at)
    BY <2>1, <2>5
  <2>7. QED  BY <2>2, <2>3, <2>4, <2>6
<1>5. \A k \in J : f[mk[k]] = long
  <2>1. SUFFICES ASSUME NEW k \in J
                 PROVE  f[mk[k]] = long
    OBVIOUS
  <2>2. mk[k] \in before /\ mk[k].span = 1
    BY <1>0, <1>2, <1>3
  <2> HIDE DEF before
  <2>3. f[mk[k]] = mk[k].span * long
    BY <2>2
  <2>4. QED  BY <2>2, <2>3
<1> HIDE DEF J, f, before
<1>6. Over(f, D) = Over(one, J)
  <2>1. \A k \in J : f[mk[k]] \in Int
    BY <1>5
  <2>2. QED  BY <1>3, <1>4, <2>1, OverRenamed
<1>7. Over(one, J) = long * Cardinality(J)
  <2>1. \A k \in J : one[k] = IF k \in J THEN long ELSE 0
    BY <1>5
  <2>2. J \in SUBSET J
    OBVIOUS
  <2> HIDE DEF one
  <2>3. QED  BY <1>3, <2>1, <2>2, OverCount
<1>8. sumOf(f) = Over(f, before)
  <2>1. f = [n \in before |-> f[n]]
    BY DEF f
  <2>2. QED  BY <2>1 DEF Over
<1>9. Cardinality(J) = Below(K, h) /\ Cardinality(J) \in Nat
  BY <1>3, FS_CardinalityType DEF Below, J
<1>10. sumOf(f) = Below(K, h) * long
  BY <1>2, <1>6, <1>7, <1>8, <1>9
<1>11. QED  BY <1>2, <1>10 DEF J, f, before, LeftOf, Wide, Cells, Under

\* Cells of the plain axis.
LEMMA TicksHold ==
    ASSUME NEW w, Window(w), NEW step \in Nat \ {0}, NEW chart, chart.marks = tickMarks(w, step),
           chart.scale = {}, chart.window = w, NEW m \in chart.marks
    PROVE  markHolds(m, chart, step)
<1> DEFINE last == (w.end - w.start - 1) \div step
           K == 0..last
           mk == [k \in K |-> cell(w.start + k * step, 1, FALSE)]
<1>1. w.start \in Int /\ last \in Int
  <2>1. w.end - w.start - 1 \in Int
    BY DEF Window
  <2>2. QED  BY <2>1, Division DEF Window
<1> HIDE DEF last
<1>2. K \in SUBSET Int /\ IsFiniteSet(K)
  <2>1. 0 \in Int
    OBVIOUS
  <2>2. QED  BY <1>1, <2>1, FS_Interval
<1>3. chart.marks = {mk[k] : k \in K}
  <2>1. chart.marks = {cell(w.start + k * step, 1, FALSE) : k \in K}
    BY DEF tickMarks, last
  <2> HIDE DEF K
  <2>2. QED  BY <2>1
<1>4. \A k \in K : mk[k].at = w.start + k * step /\ mk[k].span = 1 /\ ~mk[k].gapBefore
  BY DEF cell
<1>5. PICK h \in K : m = mk[h]
  BY <1>3
<1> HIDE DEF mk
<1> DEFINE before == {n \in chart.marks : n.at < m.at}
<1>6. sumOf([n \in before |-> n.span * step]) = Below(K, h) * step
  <2> HIDE DEF K
  <2>1. step \in Int
    OBVIOUS
  <2>2. sumOf([n \in {n \in {mk[k] : k \in K} : n.at < mk[h].at} |-> n.span * step]) = Below(K, h) * step
    <3> DEFINE a == w.start
    <3>1. a \in Int /\ OnGrid(K, mk, a, step)
      BY <1>1, <1>4 DEF OnGrid
    <3> HIDE DEF a, before
    <3>2. Wide(LeftOf(Cells(mk, K), mk[h]), step) = Below(K, h) * step
      <4>1. step \in Nat \ {0} /\ h \in K
        OBVIOUS
      <4>2. QED  BY ONLY <1>2, <2>1, <3>1, <4>1, CellsBefore
    <3>3. QED  BY <3>2 DEF Wide, LeftOf, Cells
  <2>3. QED  BY <1>3, <1>5, <2>2
<1>7. Below(K, h) = h
  <2>1. Below(K, 0) = 0
    <3>1. {k \in K : k < 0} = {}
      OBVIOUS
    <3>2. QED  BY <3>1, FS_EmptySet DEF Below
  <2>2. 0 \in Int /\ h \in Int /\ 0 <= h /\ 0..(h - 1) \subseteq K
    BY <1>1
  <2> HIDE DEF K
  <2>3. Below(K, h) = Below(K, 0) + (h - 0)
    BY <1>2, <2>2, BelowFacts
  <2>4. QED  BY <2>1, <2>2, <2>3
<1>8. minutesAt(chart.scale, chart.window, m.at) = h * step
  <2>1. minutesAt({}, w, m.at) = m.at - w.start
    BY DEF minutesAt
  <2>2. h \in Int /\ h * step \in Int
    BY <1>2
  <2>3. QED  BY <1>1, <1>4, <1>5, <2>1, <2>2
<1>9. ~m.gapBefore
  BY <1>4, <1>5
<1>10. QED  BY <1>6, <1>7, <1>8, <1>9 DEF markHolds

\* Cells of the axis of the hours that are kept.
LEMMA MarksHold ==
    ASSUME NEW w, Window(w), NEW scale \in SUBSET Int, IsFiniteSet(scale), scale # {},
           NEW chart, chart.marks = marks(scale, w),
           chart.scale = scale, chart.window = w, NEW m \in chart.marks
    PROVE  markHolds(m, chart, Hour)
<1> DEFINE gap(h) == h - 1 \notin scale /\ \E k \in scale : k < h
           mk == [h \in scale |-> cell(w.start + h * Hour, 1, gap(h))]
<1>1. Hour \in Nat \ {0} /\ w.start \in Int
  BY TimelineAssumption DEF Window
<1>2. chart.marks = {mk[k] : k \in scale}
  BY DEF marks
<1>3. \A k \in scale : mk[k].at = w.start + k * Hour /\ mk[k].span = 1 /\ mk[k].gapBefore = gap(k)
  BY DEF cell
<1>4. PICK h \in scale : m = mk[h]
  BY <1>2
<1> HIDE DEF mk
<1> DEFINE before == {n \in chart.marks : n.at < m.at}
<1>5. /\ before = {mk[k] : k \in {i \in scale : i < h}}
      /\ sumOf([n \in before |-> n.span * Hour]) = Below(scale, h) * Hour
  <2>1. Hour \in Int
    BY <1>1
  <2>2. LET early == {n \in {mk[k] : k \in scale} : n.at < mk[h].at}
        IN  /\ early = {mk[k] : k \in {i \in scale : i < h}}
            /\ sumOf([n \in early |-> n.span * Hour]) = Below(scale, h) * Hour
    <3> DEFINE a == w.start
    <3>1. a \in Int /\ OnGrid(scale, mk, a, Hour)
      BY <1>1, <1>3 DEF OnGrid
    <3> HIDE DEF a
    <3>2. /\ LeftOf(Cells(mk, scale), mk[h]) = Cells(mk, Under(scale, h))
          /\ Wide(LeftOf(Cells(mk, scale), mk[h]), Hour) = Below(scale, h) * Hour
      BY <1>1, <2>1, <3>1, CellsBefore
    <3>3. QED  BY <3>2 DEF Wide, LeftOf, Cells, Under
  <2>3. QED  BY <1>2, <1>4, <2>2
<1>6. minutesAt(chart.scale, chart.window, m.at) = Below(scale, h) * Hour
  <2> DEFINE y == w.start + h * Hour
  <2>1. y \in Int /\ y - w.start = h * Hour /\ h \in Int
    <3> DEFINE x == h * Hour
    <3>1. x \in Int /\ h \in Int
      BY <1>1
    <3> HIDE DEF x
    <3>2. w.start + x \in Int /\ (w.start + x) - w.start = x
      BY <1>1, <3>1
    <3>3. QED  BY <3>1, <3>2 DEF x
  <2>2. (h * Hour) \div Hour = h /\ (h * Hour) % Hour = 0
    BY <1>1, <2>1, Multiples
  <2> HIDE DEF y
  <2>3. (y - w.start) \div Hour = h /\ (y - w.start) % Hour = 0
    BY <2>1, <2>2
  <2>4. minutesAt(scale, w, y) = Below(scale, h) * Hour + 0
    BY <2>1, <2>3, KeptAt
  <2>5. Below(scale, h) \in Nat
    BY <2>1, BelowFacts
  <2>6. minutesAt(scale, w, y) = Below(scale, h) * Hour
    BY <1>1, <2>4, <2>5
  <2>7. QED  BY <1>3, <1>4, <2>6 DEF y
<1>7. m.gapBefore <=> before # {} /\ \A n \in before : n.at # m.at - Hour
  <2>1. m.gapBefore = gap(h) /\ m.at = w.start + h * Hour
    BY <1>3, <1>4
  <2>2. before # {} <=> \E k \in scale : k < h
    BY <1>5
  <2>3. ASSUME NEW k \in scale
        PROVE  mk[k].at = m.at - Hour <=> k = h - 1
    <3> DEFINE x == k * Hour
               y == h * Hour
    <3>1. /\ k \in Int /\ h \in Int /\ x \in Int /\ y \in Int
          /\ k < h - 1 => x + Hour <= (h - 1) * Hour
          /\ h - 1 < k => (h - 1) * Hour + Hour <= x
          /\ k = h - 1 => x = (h - 1) * Hour
      BY <1>1, Multiples
    <3>2. (h - 1) * Hour = y - Hour
      BY <1>1, <3>1
    <3>3. mk[k].at = w.start + x /\ m.at = w.start + y
      BY <1>3, <2>1
    <3> HIDE DEF x, y
    <3>4. QED  BY <1>1, <3>1, <3>2, <3>3
  <2>4. h - 1 \notin scale <=> \A k \in scale : k # h - 1
    OBVIOUS
  <2>5. \A k \in scale : k = h - 1 => k < h
    <3>1. \A k \in scale : k \in Int /\ h \in Int
      OBVIOUS
    <3>2. QED  BY <3>1
  <2>6. (\A n \in before : n.at # m.at - Hour) <=> \A k \in scale : k < h => mk[k].at # m.at - Hour
    BY <1>5
  <2>7. (\A n \in before : n.at # m.at - Hour) <=> h - 1 \notin scale
    BY <2>3, <2>4, <2>5, <2>6
  <2>8. QED  BY <2>1, <2>2, <2>7
<1>8. QED  BY <1>5, <1>6, <1>7 DEF markHolds
-----------------------------------------------------------------------------
(* Whole hours.                                                             *)

Hourly(d) == \E q \in Int : d = q * Hour

\* Multiples of the hour, and what is left of a number above one.
LEMMA WholeFacts ==
    ASSUME NEW a \in Int, NEW b \in Int
    PROVE  /\ Hour \in Nat \ {0}
           /\ Hourly(a) <=> a % Hour = 0
           /\ (Hourly(a) /\ Hourly(b)) => (Hourly(a + b) /\ Hourly(a - b))
           /\ (Hourly(a) /\ Hourly(b) /\ a < b) => a + Hour <= b
           /\ Hourly((a \div Hour) * Hour) /\ Hourly(a * Hour)
           /\ (a \div Hour) * Hour \in Int
           /\ (a \div Hour) * Hour <= a /\ a < (a \div Hour) * Hour + Hour
<1>1. Hour \in Nat \ {0}
  BY TimelineAssumption
<1>2. Hourly(a) => a % Hour = 0
  <2>1. SUFFICES ASSUME NEW q \in Int, a = q * Hour
                 PROVE  a % Hour = 0
    BY DEF Hourly
  <2>2. QED  BY <1>1, <2>1, Multiples
<1>3. a \div Hour \in Int /\ a % Hour \in 0..(Hour - 1) /\ a = Hour * (a \div Hour) + (a % Hour)
  BY <1>1, Division
<1> DEFINE p == a \div Hour
           o == a % Hour
<1>4. p * Hour \in Int /\ p * Hour = Hour * p
  BY <1>1, <1>3
<1>5. a = p * Hour + o /\ o \in 0..(Hour - 1) /\ p \in Int
  BY <1>3, <1>4
<1> HIDE DEF p, o
<1>6. o = 0 => Hourly(a)
  <2>1. o = 0 => a = p * Hour
    BY <1>4, <1>5
  <2>2. QED  BY <1>5, <2>1 DEF Hourly
<1>7. p * Hour <= a /\ a < p * Hour + Hour
  <2> DEFINE x == p * Hour
  <2>1. x \in Int /\ a = x + o
    BY <1>4, <1>5
  <2> HIDE DEF x
  <2>2. x <= a /\ a < x + Hour
    BY <1>1, <1>5, <2>1
  <2>3. QED  BY <2>2 DEF x
<1>8. ASSUME Hourly(a), Hourly(b)
      PROVE  Hourly(a + b) /\ Hourly(a - b) /\ (a < b => a + Hour <= b)
  <2>1. PICK k \in Int : a = k * Hour
    BY <1>8 DEF Hourly
  <2>2. PICK n \in Int : b = n * Hour
    BY <1>8 DEF Hourly
  <2>3. /\ k * Hour + n * Hour = (k + n) * Hour /\ k + n \in Int
        /\ k < n => k * Hour + Hour <= n * Hour
        /\ n < k => n * Hour + Hour <= k * Hour
    BY <1>1, Multiples
  <2>4. a - b = (k - n) * Hour /\ k - n \in Int
    <3>1. k * Hour - n * Hour = (k - n) * Hour
      BY <1>1
    <3>2. QED  BY <2>1, <2>2, <3>1
  <2>5. a + b = (k + n) * Hour
    BY <2>1, <2>2, <2>3
  <2>6. a < b => a + Hour <= b
    <3>1. /\ k < n => a + Hour <= b
          /\ n < k => b + Hour <= a
          /\ k = n => a = b
      BY <2>1, <2>2, <2>3
    <3>2. QED  BY <1>1, <3>1
  <2>7. QED  BY <2>3, <2>4, <2>5, <2>6 DEF Hourly
<1>9. Hourly(p * Hour) /\ Hourly(a * Hour)
  BY <1>5 DEF Hourly
<1>10. QED  BY <1>1, <1>2, <1>4, <1>6, <1>7, <1>8, <1>9 DEF p, o

\* The lengths that are whole hours.
LEMMA WholeLengths == Hourly(0) /\ Hourly(Hour) /\ Hourly(Day) /\ Hourly(MinChartWindow)
<1>1. {0, Hour, Day, MinChartWindow} \subseteq Int /\ Day % Hour = 0 /\ MinChartWindow % Hour = 0
  BY TimelineAssumption
<1>2. Hourly(Day) /\ Hourly(MinChartWindow)
  BY <1>1, WholeFacts
<1>3. 0 = 0 * Hour /\ Hour = 1 * Hour
  BY <1>1
<1>4. QED  BY <1>2, <1>3 DEF Hourly

\* A clock that changes by an hour or not at all.
ByTheHour(z) == z.after - z.before \in {-Hour, 0, Hour}

\* t is a whole hour of the wall clock.
OnHour(z, t) == Hourly(t + z.before)

\* What time.Date makes of a whole hour is a whole hour.
LEMMA DateOnHour ==
    ASSUME NEW z, {z.at, z.before, z.after} \subseteq Int, ByTheHour(z), NEW w \in Int, Hourly(w)
    PROVE  /\ date(z, w) \in Int /\ OnHour(z, date(z, w))
           /\ date(z, w) \in {w - z.before, w - z.after}
<1> DEFINE a == z.after
           b == z.before
<1>1. a \in Int /\ b \in Int /\ a - b \in {-Hour, 0, Hour} /\ Hour \in Nat \ {0}
  BY TimelineAssumption DEF ByTheHour
<1>2. \A t : offset(z, t) \in {a, b}
  BY DEF offset
<1>3. date(z, w) \in {w - b, w - a}
  BY <1>2 DEF date
<1> HIDE DEF a, b
<1>4. Hourly(w - (a - b))
  <2>1. Hourly(-Hour)
    <3>1. -Hour = (-1) * Hour /\ -1 \in Int
      BY <1>1
    <3>2. QED  BY <3>1 DEF Hourly
  <2>2. Hourly(a - b) /\ a - b \in Int
    BY <1>1, <2>1, WholeLengths
  <2>3. QED  BY <2>2, WholeFacts
<1>5. (w - b) + b = w /\ (w - a) + b = w - (a - b) /\ w - b \in Int /\ w - a \in Int
  BY <1>1
<1>6. Hourly((w - b) + b) /\ Hourly((w - a) + b)
  BY <1>4, <1>5
<1>7. QED  BY <1>3, <1>5, <1>6 DEF OnHour, a, b

\* Midnights, and whole hours next to a time.
LEMMA HoursNext ==
    ASSUME NEW z, {z.at, z.before, z.after} \subseteq Int, ByTheHour(z), NEW t \in Int
    PROVE  /\ floorHour(z, t) \in Int /\ OnHour(z, floorHour(z, t)) /\ floorHour(z, t) - Hour <= t
           /\ ceilHour(z, t) \in Int /\ OnHour(z, ceilHour(z, t)) /\ t <= ceilHour(z, t) + Hour
<1> DEFINE a == z.after
           b == z.before
           u == wall(z, t)
           w == (u \div Hour) * Hour
           f == floorHour(z, t)
           c == ceilHour(z, t)
<1>1. a \in Int /\ b \in Int /\ a - b \in {-Hour, 0, Hour} /\ Hour \in Nat \ {0}
  BY TimelineAssumption DEF ByTheHour
<1>2. u \in {t + a, t + b}
  BY DEF wall, offset
<1>3. u \in Int
  BY <1>1, <1>2
<1>4. w \in Int /\ Hourly(w) /\ w <= u /\ u < w + Hour
  <2> HIDE DEF u
  <2>1. QED  BY <1>3, WholeFacts
<1>5. f = date(z, w)
  BY DEF floorHour
<1> HIDE DEF w, f
<1>6. f \in Int /\ OnHour(z, f) /\ f \in {w - b, w - a}
  BY <1>4, <1>5, DateOnHour
<1>7. c = IF f = t THEN t ELSE f + Hour
  BY DEF ceilHour, f
<1> HIDE DEF a, b, u, c
<1>8. f - Hour <= t /\ t < f + Hour + Hour
  BY <1>1, <1>2, <1>4, <1>6
<1>9. OnHour(z, f + Hour)
  <2>1. (f + b) + Hour = (f + Hour) + b /\ f + b \in Int /\ Hour \in Int
    BY <1>1, <1>6
  <2>2. Hourly(f + b) /\ Hourly(Hour)
    BY <1>6, WholeLengths DEF OnHour, b
  <2>3. Hourly((f + b) + Hour)
    BY <2>1, <2>2, WholeFacts
  <2>4. QED  BY <2>1, <2>3 DEF OnHour, b
<1>10. c \in Int /\ OnHour(z, c) /\ t <= c + Hour
  BY <1>1, <1>6, <1>7, <1>8, <1>9
<1>11. QED  BY <1>6, <1>8, <1>10 DEF f, c

\* A day begins and ends on the hour.
LEMMA DayOnHour ==
    ASSUME NEW z, MidnightsOnce(z), ByTheHour(z), NEW k \in Int
    PROVE  midnight(z, k) \in Int /\ OnHour(z, midnight(z, k))
<1>1. {z.at, z.before, z.after} \subseteq Int
  BY DEF MidnightsOnce
<1>2. k * Day \in Int /\ Hourly(k * Day)
  <2>1. Day \in Nat \ {0} /\ Hour \in Nat \ {0}
    BY TimelineAssumption
  <2>2. PICK q \in Int : Day = q * Hour
    BY WholeLengths DEF Hourly
  <2>3. k * Day = (k * q) * Hour /\ k * q \in Int /\ k * Day \in Int
    <3>1. k * (q * Hour) = (k * q) * Hour /\ k * q \in Int
      BY <2>1
    <3>2. QED  BY <2>1, <2>2, <3>1
  <2>4. QED  BY <2>3 DEF Hourly
<1>3. QED  BY <1>1, <1>2, DateOnHour DEF midnight
-----------------------------------------------------------------------------
(* The labels of a week.                                                    *)

\* The cell of a day.
DayCell(d) == cell(d.start, (d.end - d.start) \div Hour, FALSE)

\* The days before one.
LEMMA EarlierDays ==
    ASSUME NEW z, MidnightsOnce(z), ByTheHour(z), NEW m \in Int, NEW n \in Nat, NEW h \in 0..(n - 1)
    PROVE  /\ {d \in DaysFrom(z, m, n) : d.start < midnight(z, m + h)} = DaysFrom(z, m, h)
           /\ \A d \in DaysFrom(z, m, n) : /\ d.start \in Int /\ d.end \in Int
                                           /\ ((d.end - d.start) \div Hour) * Hour = d.end - d.start
           /\ \A d, e \in DaysFrom(z, m, n) : d.start = e.start => d = e
<1> DEFINE at == [i \in Int |-> midnight(z, m + i)]
           to == [i \in Int |-> [start |-> at[i], end |-> midnight(z, m + i + 1)]]
<1>1. ASSUME NEW i \in Int
      PROVE  /\ at[i] \in Int /\ OnHour(z, at[i]) /\ to[i].start = at[i]
             /\ to[i].end = at[i + 1] /\ at[i + 1] \in Int /\ OnHour(z, at[i + 1])
  <2>1. m + i \in Int /\ m + i + 1 \in Int /\ m + (i + 1) = m + i + 1
    OBVIOUS
  <2>2. midnight(z, m + i) \in Int /\ OnHour(z, midnight(z, m + i))
    BY <2>1, DayOnHour
  <2>3. midnight(z, m + i + 1) \in Int /\ OnHour(z, midnight(z, m + i + 1))
    BY <2>1, DayOnHour
  <2>4. QED  BY <2>1, <2>2, <2>3
<1>2. ASSUME NEW i \in Int, NEW j \in Int
      PROVE  i < j <=> at[i] < at[j]
  <2>1. m + i \in Int /\ m + j \in Int /\ (m + i < m + j <=> i < j)
    OBVIOUS
  <2>2. m + i < m + j <=> midnight(z, m + i) < midnight(z, m + j)
    BY <2>1, MidnightSteps
  <2>3. QED  BY <2>1, <2>2
<1>3. /\ DaysFrom(z, m, n) = {to[i] : i \in 0..(n - 1)}
      /\ DaysFrom(z, m, h) = {to[i] : i \in 0..(h - 1)}
  BY DEF DaysFrom
<1>4. \A i \in Int : at[i] = midnight(z, m + i)
  OBVIOUS
<1> HIDE DEF at, to
<1>5. {d \in DaysFrom(z, m, n) : d.start < midnight(z, m + h)} = DaysFrom(z, m, h)
  <2>1. \A i \in 0..(n - 1) : i \in Int /\ (i \in 0..(h - 1) <=> i < h)
    OBVIOUS
  <2>2. \A i \in 0..(h - 1) : i \in 0..(n - 1)
    OBVIOUS
  <2>3. h \in Int /\ midnight(z, m + h) = at[h]
    BY <1>4
  <2>4. \A i \in 0..(n - 1) : i \in 0..(h - 1) <=> to[i].start < midnight(z, m + h)
    BY <1>1, <1>2, <2>1, <2>3
  <2>5. QED  BY <1>3, <2>2, <2>4
<1>6. ASSUME NEW d \in DaysFrom(z, m, n)
      PROVE  d.start \in Int /\ d.end \in Int /\ ((d.end - d.start) \div Hour) * Hour = d.end - d.start
  <2>1. PICK i \in 0..(n - 1) : d = to[i]
    BY <1>3
  <2>2. /\ i \in Int /\ d.start \in Int /\ OnHour(z, d.start) /\ d.end \in Int /\ OnHour(z, d.end)
    BY <1>1, <2>1
  <2> DEFINE x == d.start + z.before
             y == d.end + z.before
             l == d.end - d.start
  <2>3. z.before \in Int
    BY DEF MidnightsOnce
  <2>4. x \in Int /\ y \in Int /\ l \in Int /\ y - x = l /\ Hourly(x) /\ Hourly(y)
    BY <2>2, <2>3 DEF OnHour
  <2> HIDE DEF x, y, l
  <2>5. Hourly(l)
    <3>1. Hourly(y - x)
      BY <2>4, WholeFacts
    <3>2. QED  BY <2>4, <3>1
  <2>6. PICK q \in Int : l = q * Hour
    BY <2>5 DEF Hourly
  <2>7. Hour \in Nat \ {0} /\ (q * Hour) \div Hour = q
    BY TimelineAssumption, Multiples
  <2>8. (l \div Hour) * Hour = l
    BY <2>6, <2>7
  <2>9. QED  BY <2>2, <2>8 DEF l
<1>7. ASSUME NEW d \in DaysFrom(z, m, n), NEW e \in DaysFrom(z, m, n), d.start = e.start
      PROVE  d = e
  <2>1. PICK i \in 0..(n - 1) : d = to[i]
    BY <1>3
  <2>2. PICK j \in 0..(n - 1) : e = to[j]
    BY <1>3
  <2>3. i \in Int /\ j \in Int /\ at[i] = at[j] /\ at[i] \in Int
    BY <1>1, <1>7, <2>1, <2>2
  <2>4. ~(i < j) /\ ~(j < i)
    BY <1>2, <2>3
  <2>5. QED  BY <2>1, <2>2, <2>3, <2>4
<1>8. QED  BY <1>5, <1>6, <1>7

\* Cells of the axis of a week.
LEMMA DaysHold ==
    ASSUME NEW z, MidnightsOnce(z), ByTheHour(z), NEW t \in Int, NEW w, w = weekBounds(z, t),
           NEW chart, chart.marks = dayMarks(z, w), chart.scale = {}, chart.window = w,
           NEW c \in chart.marks
    PROVE  markHolds(c, chart, Hour)
<1> DEFINE W == DaysPerWeek
           k == wall(z, t) \div Day
           m == k - (k % DaysPerWeek)
<1>1. W \in Nat \ {0}
  BY TimelineAssumption
<1>2. w = [start |-> midnight(z, m), end |-> midnight(z, m + W)] /\ m \in Int
  BY WeekIs
<1> HIDE DEF m
<1>3. daysOf(z, w) = DaysFrom(z, m, W)
  BY <1>2, DaysAre
<1> HIDE DEF W
<1> DEFINE D == DaysFrom(z, m, W)
<1>4. chart.marks = {DayCell(d) : d \in D}
  BY <1>3 DEF dayMarks, DayCell
<1>5. \A d : /\ DayCell(d).at = d.start /\ DayCell(d).span = (d.end - d.start) \div Hour
             /\ DayCell(d).gapBefore = FALSE
  BY DEF DayCell, cell
<1>6. PICK e \in D : c = DayCell(e)
  BY <1>4
<1>7. PICK h \in 0..(W - 1) : e.start = midnight(z, m + h)
  BY <1>6 DEF DaysFrom
<1> DEFINE A == DaysFrom(z, m, h)
<1>8. /\ {d \in D : d.start < midnight(z, m + h)} = A
      /\ \A d \in D : /\ d.start \in Int /\ d.end \in Int
                      /\ ((d.end - d.start) \div Hour) * Hour = d.end - d.start
      /\ \A d, x \in D : d.start = x.start => d = x
  <2>1. W \in Nat
    BY <1>1
  <2>2. QED  BY <1>2, <2>1, EarlierDays
<1>9. /\ IsFiniteSet(A)
      /\ sumOf([d \in A |-> d.end - d.start]) = midnight(z, m + h) - midnight(z, m)
  <2>1. h \in Nat
    BY <1>1
  <2>2. QED  BY <1>2, <2>1, DaysFromFacts
<1> HIDE DEF A, D
<1> DEFINE before == {n \in chart.marks : n.at < c.at}
           f == [n \in before |-> n.span * Hour]
           to == [d \in A |-> DayCell(d)]
           len == [d \in A |-> d.end - d.start]
<1>10. before = {to[d] : d \in A}
  <2>1. c.at = midnight(z, m + h)
    BY <1>5, <1>6, <1>7
  <2>2. before = {DayCell(d) : d \in {x \in D : x.start < midnight(z, m + h)}}
    BY <1>4, <1>5, <2>1
  <2>3. {to[d] : d \in A} = {DayCell(d) : d \in A}
    <3>1. \A d \in A : to[d] = DayCell(d)
      OBVIOUS
    <3> HIDE DEF to
    <3>2. QED  BY <3>1
  <2>4. QED  BY <1>8, <2>2, <2>3
<1>11. \A d \in A : d \in D
  BY <1>8
<1>12. \A d, x \in A : to[d] = to[x] => d = x
  <2>1. \A d \in A : to[d].at = d.start
    BY <1>5
  <2> HIDE DEF to
  <2>2. QED  BY <1>8, <1>11, <2>1
<1>13. \A d \in A : f[to[d]] = len[d] /\ len[d] \in Int
  <2>1. SUFFICES ASSUME NEW d \in A
                 PROVE  f[to[d]] = d.end - d.start /\ d.end - d.start \in Int
    OBVIOUS
  <2>2. to[d] \in before
    BY <1>10
  <2>3. to[d].span = (d.end - d.start) \div Hour
    BY <1>5
  <2> HIDE DEF to, before
  <2>4. f[to[d]] = to[d].span * Hour
    BY <2>2
  <2>5. QED  BY <1>8, <1>11, <2>3, <2>4
<1>14. sumOf(f) = Over(f, before)
  <2> HIDE DEF before
  <2>1. f = [n \in before |-> f[n]]
    OBVIOUS
  <2> HIDE DEF f
  <2>2. QED  BY <2>1 DEF Over
<1>15. Over(len, A) = sumOf(len)
  <2>1. len = [d \in A |-> len[d]]
    OBVIOUS
  <2> HIDE DEF len
  <2>2. QED  BY <2>1 DEF Over
<1>16. sumOf(len) = midnight(z, m + h) - midnight(z, m)
  BY <1>9
<1> HIDE DEF f, to, len, before
<1>17. Over(f, before) = Over(len, A)
  <2>1. \A d \in A : f[to[d]] \in Int
    BY <1>13
  <2>2. Over(f, {to[d] : d \in A}) = Over([d \in A |-> f[to[d]]], A)
    BY <1>9, <1>12, <2>1, OverRenamed
  <2> DEFINE g == [d \in A |-> f[to[d]]]
  <2>3. \A d \in A : g[d] = len[d]
    BY <1>13
  <2> HIDE DEF g
  <2>4. Over(g, A) = Over(len, A)
    BY <2>3, OverSame
  <2>5. QED  BY <1>10, <2>2, <2>4 DEF g
<1>18. minutesAt(chart.scale, chart.window, c.at) = midnight(z, m + h) - midnight(z, m)
  <2>1. c.at = midnight(z, m + h) /\ w.start = midnight(z, m)
    BY <1>2, <1>5, <1>6, <1>7
  <2>2. minutesAt({}, w, c.at) = c.at - w.start
    BY DEF minutesAt
  <2>3. QED  BY <2>1, <2>2
<1>19. sumOf([n \in before |-> n.span * Hour]) = minutesAt(chart.scale, chart.window, c.at)
  BY <1>14, <1>15, <1>16, <1>17, <1>18 DEF f
<1>20. c.gapBefore = FALSE
  BY <1>5, <1>6
<1>21. QED  BY <1>19, <1>20 DEF markHolds, before
-----------------------------------------------------------------------------
(* The window drawn for a day.                                              *)

\* Both ends of a window are whole hours.
HourWindow(z, w) == Window(w) /\ OnHour(z, w.start) /\ OnHour(z, w.end)

\* Whole hours further along.
LEMMA OnHourMoves ==
    ASSUME NEW z, z.before \in Int, NEW t \in Int, OnHour(z, t), NEW d \in Int, Hourly(d)
    PROVE  OnHour(z, t + d) /\ OnHour(z, t - d)
<1> DEFINE x == t + z.before
<1>1. x \in Int /\ Hourly(x) /\ x + d = (t + d) + z.before /\ x - d = (t - d) + z.before
  BY DEF OnHour
<1> HIDE DEF x
<1>2. Hourly(x + d) /\ Hourly(x - d)
  BY <1>1, WholeFacts
<1>3. QED  BY <1>1, <1>2 DEF OnHour

\* The time between whole hours.
LEMMA OnHourApart ==
    ASSUME NEW z, z.before \in Int, NEW t \in Int, OnHour(z, t), NEW u \in Int, OnHour(z, u)
    PROVE  Hourly(u - t)
<1> DEFINE x == t + z.before
           y == u + z.before
<1>1. x \in Int /\ Hourly(x) /\ y \in Int /\ Hourly(y) /\ y - x = u - t
  BY DEF OnHour
<1> HIDE DEF x, y
<1>2. Hourly(y - x)
  BY <1>1, WholeFacts
<1>3. QED  BY <1>1, <1>2

\* A window with whole hours on both sides, long enough.
LEMMA WidenedFits ==
    ASSUME NEW z, z.before \in Int, NEW w, HourWindow(z, w)
    PROVE  LET u == widened(w)
           IN  /\ HourWindow(z, u) /\ u.start <= w.start /\ w.end <= u.end
               /\ u.end - u.start >= MinChartWindow
<1> DEFINE u == widened(w)
           H == Hour
           M == MinChartWindow
           l == w.end - w.start
           n == M - l
           def == Max({0, n})
           q == (def + H) \div (2 * H)
           back == q * H
           on == def - back
<1>1. H \in Nat \ {0} /\ M \in Int /\ w.start \in Int /\ w.end \in Int /\ l \in Int /\ n \in Int
  BY TimelineAssumption DEF HourWindow, Window
<1>2. u.start = w.start - back /\ u.end = w.end + (def - back)
  BY DEF widened
<1>3. Hourly(l)
  BY OnHourApart DEF HourWindow, Window
<1>4. def = IF 0 < n THEN n ELSE 0
  <2> HIDE DEF n
  <2>1. 0 \in Int
    OBVIOUS
  <2>2. QED  BY <1>1, <2>1, OfTwo
<1> HIDE DEF def, u
<1>5. def \in Nat /\ Hourly(def) /\ def >= n /\ (def = 0 \/ def >= H)
  <2>1. Hourly(n)
    <3> HIDE DEF l
    <3>1. QED  BY <1>1, <1>3, WholeLengths, WholeFacts
  <2>2. 0 < n => 0 + H <= n
    <3> HIDE DEF n
    <3>1. 0 \in Int
      OBVIOUS
    <3>2. QED  BY <1>1, <2>1, <3>1, WholeLengths, WholeFacts
  <2> HIDE DEF n
  <2>3. QED  BY <1>1, <1>4, <2>1, <2>2, WholeLengths
<1> HIDE DEF n, l
<1>6. /\ q \in Int /\ (def + H) % (2 * H) \in 0..(2 * H - 1)
      /\ def + H = (2 * H) * q + ((def + H) % (2 * H))
  <2> DEFINE a == def + H
             d == 2 * H
  <2>1. a \in Int /\ d \in Nat \ {0}
    BY <1>1, <1>5
  <2> HIDE DEF a, d
  <2>2. a \div d \in Int /\ a % d \in 0..(d - 1) /\ a = d * (a \div d) + (a % d)
    BY <2>1, Division
  <2>3. QED  BY <2>2 DEF a, d
<1> HIDE DEF q
<1>7. back \in Int /\ (2 * H) * q = 2 * back /\ Hourly(back)
  <2>1. back \in Int /\ (2 * H) * q = 2 * (q * H)
    BY <1>1, <1>6
  <2>2. Hourly(q * H)
    BY <1>6 DEF Hourly
  <2>3. QED  BY <2>1, <2>2
<1>8. q < 0 => q * H + H <= 0 * H
  BY <1>1, <1>6, Multiples
<1>9. 1 <= q => 0 * H + H <= q * H
  <2>1. 0 < q => 0 * H + H <= q * H
    BY <1>1, <1>6, Multiples
  <2>2. 0 * H = 0
    BY <1>1
  <2>3. QED  BY <1>6, <2>1, <2>2
<1>10. 0 <= back /\ back <= def
  <2> DEFINE o == (def + H) % (2 * H)
  <2>1. def + H = 2 * back + o /\ o \in 0..(2 * H - 1) /\ o \in Int
    BY <1>6, <1>7
  <2>2. (q < 0 => back + H <= 0) /\ (1 <= q => H <= back) /\ (q = 0 => back = 0)
    BY <1>1, <1>6, <1>8, <1>9
  <2> HIDE DEF o, back
  <2>3. 2 * back <= def + H /\ 0 <= back
    BY <1>1, <1>5, <1>6, <1>7, <2>1, <2>2
  <2>4. QED  BY <1>1, <1>5, <1>6, <1>7, <2>2, <2>3
<1> HIDE DEF back
<1>11. on \in Int /\ 0 <= on /\ Hourly(on)
  <2>1. Hourly(def - back)
    BY <1>5, <1>7, WholeFacts
  <2>2. QED  BY <1>5, <1>7, <1>10, <2>1
<1>12. u.start = w.start - back /\ u.end = w.end + on
  BY <1>2
<1>13. OnHour(z, u.start) /\ OnHour(z, u.end)
  <2> HIDE DEF on
  <2>1. OnHour(z, w.start - back)
    BY <1>1, <1>7, OnHourMoves DEF HourWindow
  <2>2. OnHour(z, w.end + on)
    BY <1>1, <1>11, OnHourMoves DEF HourWindow
  <2>3. QED  BY <1>12, <2>1, <2>2
<1>14. u.start \in Int /\ u.end \in Int /\ u.start <= w.start /\ w.end <= u.end
  <2> HIDE DEF on
  <2>1. QED  BY <1>1, <1>7, <1>10, <1>11, <1>12
<1>15. u.end - u.start >= M
  <2>1. u.end - u.start = (w.end - w.start) + def
    BY <1>1, <1>2, <1>5, <1>7
  <2>2. def >= M - (w.end - w.start)
    BY <1>5 DEF n, l
  <2>3. QED  BY <1>1, <1>5, <2>1, <2>2
<1>16. QED  BY <1>13, <1>14, <1>15 DEF HourWindow, Window, u

\* What chartWindow does with a window that is not in the day.
Later(w, day) == [start |-> Max({w.start, day.start}),
                  end |-> w.end + Max({0, day.start - w.start})]
Earlier(w, day) == [start |-> Max({day.start, w.start - Max({0, w.end - day.end})}),
                    end |-> Min({w.end, day.end})]

\* A window pushed into the day.
LEMMA PushedFits ==
    ASSUME NEW z, z.before \in Int, NEW day, HourWindow(z, day), NEW u, HourWindow(z, u),
           u.start <= day.end, day.start <= u.end, day.start <= day.end
    PROVE  LET w == Earlier(Later(u, day), day)
               l == u.end - u.start
               d == day.end - day.start
           IN  /\ HourWindow(z, w) /\ day.start <= w.start /\ w.end <= day.end
               /\ w.start <= Max({u.start, day.start}) /\ Min({u.end, day.end}) <= w.end
               /\ w.end - w.start >= Min({l, d})
<1> DEFINE ds == day.start
           de == day.end
           us == u.start
           ue == u.end
           p == Max({0, ds - us})
           vs == Max({us, ds})
           ve == ue + p
           e == Max({0, ve - de})
           ws == Max({ds, vs - e})
           we == Min({ve, de})
<1>1. /\ ds \in Int /\ de \in Int /\ us \in Int /\ ue \in Int /\ z.before \in Int
      /\ us <= de /\ ds <= ue /\ ds <= de
      /\ OnHour(z, ds) /\ OnHour(z, de) /\ OnHour(z, us) /\ OnHour(z, ue)
  BY DEF HourWindow, Window
<1>2. /\ Later(u, day).start = vs /\ Later(u, day).end = ve
      /\ Earlier(Later(u, day), day).start = ws /\ Earlier(Later(u, day), day).end = we
  BY DEF Later, Earlier
<1> HIDE DEF ds, de, us, ue
<1>3. p = IF us < ds THEN ds - us ELSE 0
  <2>1. 0 \in Int /\ ds - us \in Int /\ (0 < ds - us <=> us < ds)
    BY <1>1
  <2> DEFINE x == ds - us
  <2> HIDE DEF x
  <2>2. Max({0, x}) = IF 0 < x THEN x ELSE 0
    BY <2>1, OfTwo DEF x
  <2>3. QED  BY <2>1, <2>2 DEF x
<1>4. vs = IF us < ds THEN ds ELSE us
  BY <1>1, OfTwo
<1> HIDE DEF p, vs
<1>5. /\ p \in Int /\ vs \in Int /\ ve \in Int /\ ve - vs = ue - us
      /\ OnHour(z, vs) /\ OnHour(z, ve)
  <2>1. p \in Int /\ vs \in Int /\ ve \in Int /\ ve - vs = ue - us
    BY <1>1, <1>3, <1>4
  <2>2. Hourly(p)
    <3>1. Hourly(ds - us)
      BY <1>1, OnHourApart
    <3>2. QED  BY <1>3, <3>1, WholeLengths
  <2>3. OnHour(z, ve)
    BY <1>1, <2>1, <2>2, OnHourMoves
  <2>4. OnHour(z, vs)
    BY <1>1, <1>4
  <2>5. QED  BY <2>1, <2>3, <2>4
<1>a. ve >= ue /\ vs <= de /\ ds <= vs /\ us <= vs
  BY <1>1, <1>3, <1>4
<1> HIDE DEF ve
<1>6. e = IF de < ve THEN ve - de ELSE 0
  <2>1. 0 \in Int /\ ve - de \in Int /\ (0 < ve - de <=> de < ve)
    BY <1>1, <1>5
  <2> DEFINE x == ve - de
  <2> HIDE DEF x
  <2>2. Max({0, x}) = IF 0 < x THEN x ELSE 0
    BY <2>1, OfTwo DEF x
  <2>3. QED  BY <2>1, <2>2 DEF x
<1> HIDE DEF e
<1>7. e \in Int /\ e >= 0 /\ Hourly(e)
  <2>1. Hourly(ve - de)
    BY <1>1, <1>5, OnHourApart
  <2>2. QED  BY <1>1, <1>5, <1>6, <2>1, WholeLengths
<1>8. vs - e \in Int /\ OnHour(z, vs - e)
  BY <1>1, <1>5, <1>7, OnHourMoves
<1>9. ws = IF ds < vs - e THEN vs - e ELSE ds
  <2> DEFINE x == vs - e
  <2> HIDE DEF x
  <2>1. Max({ds, x}) = IF ds < x THEN x ELSE ds
    BY <1>1, <1>8, OfTwo DEF x
  <2>2. QED  BY <2>1 DEF x
<1>10. we = IF de < ve THEN de ELSE ve
  BY <1>1, <1>5, OfTwo
<1> HIDE DEF ws, we
<1>11. ws \in Int /\ we \in Int /\ OnHour(z, ws) /\ OnHour(z, we)
  BY <1>1, <1>5, <1>8, <1>9, <1>10
<1>12. ds <= ws /\ we <= de /\ ws <= vs
  BY <1>1, <1>5, <1>7, <1>8, <1>9, <1>10, <1>a
<1>13. Min({ue, de}) = IF de < ue THEN de ELSE ue
  BY <1>1, OfTwo
<1>14. Min({ue, de}) <= we
  BY <1>1, <1>5, <1>10, <1>13, <1>a
<1>15. we - ws >= Min({ue - us, de - ds})
  <2> DEFINE x == ue - us
             y == de - ds
  <2>1. x \in Int /\ y \in Int
    BY <1>1
  <2>2. Min({x, y}) = IF y < x THEN y ELSE x
    <3> HIDE DEF x, y
    <3>1. QED  BY <2>1, OfTwo
  <2>3. we - ws >= IF y < x THEN y ELSE x
    <3>1. CASE de < ve
      BY <1>1, <1>5, <1>6, <1>9, <1>10, <1>a, <3>1
    <3>2. CASE ~(de < ve)
      BY <1>1, <1>5, <1>6, <1>9, <1>10, <1>a, <3>2
    <3>3. QED  BY <3>1, <3>2
  <2>4. QED  BY <2>2, <2>3
<1>16. vs = Max({us, ds})
  BY DEF vs
<1>17. QED  BY <1>2, <1>11, <1>12, <1>14, <1>15, <1>16 DEF HourWindow, Window, ds, de, us, ue

\* Two windows that show the same of a row.
LEMMA SameClip ==
    ASSUME NEW r, r.start \in Int, r.end \in Int, NEW day, Window(day), NEW w, Window(w),
           clip(r, day).start < clip(r, day).end,
           day.start <= w.start, w.start <= clip(r, day).start,
           clip(r, day).end <= w.end, w.end <= day.end
    PROVE  clip(r, w) = clip(r, day)
<1>1. /\ day.start \in Int /\ day.end \in Int /\ w.start \in Int /\ w.end \in Int
  BY DEF Window
<1>2. /\ clip(r, w).start = IF r.start < w.start THEN w.start ELSE r.start
      /\ clip(r, w).end = IF w.end < r.end THEN w.end ELSE r.end
      /\ clip(r, day).start = IF r.start < day.start THEN day.start ELSE r.start
      /\ clip(r, day).end = IF day.end < r.end THEN day.end ELSE r.end
  BY <1>1, ClipFacts
<1> DEFINE c == clip(r, day)
           e == clip(r, w)
<1> HIDE DEF c, e
<1>3. e.start = c.start /\ e.end = c.end
  BY <1>1, <1>2 DEF c, e
<1>4. \A x : clip(r, x) = [start |-> clip(r, x).start, end |-> clip(r, x).end]
  BY DEF clip
<1>5. e = [start |-> e.start, end |-> e.end] /\ c = [start |-> c.start, end |-> c.end]
  BY <1>4 DEF c, e
<1>6. QED  BY <1>3, <1>5 DEF c, e

\* Rows of which a window shows something.
Meets(S, w) ==
    \A r \in S : r.start \in Int /\ r.end \in Int /\ r.start < r.end /\ r.start < w.end /\ r.end > w.start

\* The window drawn for a day.
LEMMA DayFits ==
    ASSUME NEW z, {z.at, z.before, z.after} \subseteq Int, ByTheHour(z), NEW day, HourWindow(z, day),
           day.start <= day.end, NEW S, IsFiniteSet(S), Meets(S, day)
    PROVE  LET w == chartWindow(S, z, day)
           IN  /\ Window(w) /\ Hourly(w.end - w.start) /\ day.start <= w.start /\ w.end <= day.end
               /\ w.end - w.start >= Min({MinChartWindow, day.end - day.start})
               /\ \A r \in S : clip(r, w) = clip(r, day)
<1> DEFINE w == chartWindow(S, z, day)
           seen == {clip(r, day) : r \in within(S, day)}
           A == {s.start : s \in seen}
           B == {s.end : s \in seen}
           a == Min(A)
           b == Max(B)
           hours == activeHours(seen, z)
           wide == widened(hours)
           l == day.end - day.start
           M == MinChartWindow
<1>1. /\ Hour \in Nat \ {0} /\ M \in Int /\ z.before \in Int
      /\ day.start \in Int /\ day.end \in Int /\ l \in Int /\ Window(day)
      /\ OnHour(z, day.start) /\ OnHour(z, day.end)
  BY TimelineAssumption DEF HourWindow, Window
<1>2. Min({M, l}) = IF l < M THEN l ELSE M
  <2> HIDE DEF l
  <2>1. QED  BY <1>1, OfTwo
<1>3. w = IF seen = {} THEN day ELSE Earlier(Later(wide, day), day)
  BY Zenon DEF chartWindow, Earlier, Later
<1>4. Hourly(l)
  BY <1>1, OnHourApart
<1> HIDE DEF w
<1>5. CASE seen = {}
  <2>1. w = day
    BY <1>3, <1>5
  <2>2. l >= Min({M, l})
    <3> HIDE DEF l
    <3>1. QED  BY <1>1, <1>2
  <2>3. Window(day) /\ Hourly(day.end - day.start) /\ day.start <= day.start /\ day.end <= day.end
    BY <1>1, <1>4
  <2>4. QED  BY <2>1, <2>2, <2>3 DEF w
<1>6. CASE seen # {}
  <2>1. w = Earlier(Later(wide, day), day)
    BY <1>3, <1>6
  <2>2. ASSUME NEW r \in S
        PROVE  /\ r \in within(S, day) /\ clip(r, day) \in seen /\ r.start \in Int /\ r.end \in Int
               /\ clip(r, day).start \in A /\ clip(r, day).end \in B
               /\ clip(r, day).start \in Int /\ clip(r, day).end \in Int
               /\ clip(r, day).start < clip(r, day).end
               /\ day.start <= clip(r, day).start /\ clip(r, day).end <= day.end
    <3>1. r.start \in Int /\ r.end \in Int /\ r.start < r.end /\ r.start < day.end /\ r.end > day.start
      BY DEF Meets
    <3>2. /\ clip(r, day).start = IF r.start < day.start THEN day.start ELSE r.start
          /\ clip(r, day).end = IF day.end < r.end THEN day.end ELSE r.end
      BY <1>1, <3>1, ClipFacts
    <3>3. day.start < day.end
      <4>1. PICK s \in seen : TRUE
        BY <1>6
      <4>2. PICK q \in within(S, day) : TRUE
        BY <4>1
      <4>3. \A x \in S : x.start \in Int /\ x.end \in Int
        BY DEF Meets
      <4>4. /\ clip(q, day).start \in Int /\ clip(q, day).end \in Int
            /\ day.start <= clip(q, day).start /\ clip(q, day).start < clip(q, day).end /\ clip(q, day).end <= day.end
        BY <1>1, <4>2, <4>3, WithinFacts
      <4> DEFINE x == clip(q, day).start
                 y == clip(q, day).end
      <4> HIDE DEF x, y
      <4>5. QED  BY <1>1, <4>4 DEF x, y
    <3> DEFINE x == clip(r, day).start
               y == clip(r, day).end
    <3> HIDE DEF x, y
    <3>4. x \in Int /\ y \in Int /\ x < y /\ day.start <= x /\ y <= day.end
      BY <1>1, <3>1, <3>2, <3>3 DEF x, y
    <3>5. r \in within(S, day)
      BY <3>4 DEF within, x, y
    <3> HIDE DEF seen
    <3>6. clip(r, day) \in seen
      BY <3>5 DEF seen
    <3>7. clip(r, day).start \in A /\ clip(r, day).end \in B
      BY <3>6
    <3>8. QED  BY <3>1, <3>4, <3>5, <3>6, <3>7 DEF x, y
  <2>3. /\ A \in SUBSET Int /\ B \in SUBSET Int /\ IsFiniteSet(A) /\ IsFiniteSet(B) /\ A # {} /\ B # {}
    <3> DEFINE T == within(S, day)
    <3>1. IsFiniteSet(T) /\ T \subseteq S
      <4>1. T \subseteq S
        BY DEF within
      <4>2. QED  BY <4>1, FS_Subset
    <3> HIDE DEF T
    <3>2. seen = {clip(r, day) : r \in T}
      BY DEF T
    <3>3. IsFiniteSet(seen)
      <4> DEFINE f == [r \in T |-> clip(r, day)]
      <4>1. seen = {f[r] : r \in T}
        BY <3>2
      <4> HIDE DEF f, seen
      <4>2. QED  BY <3>1, <4>1, Images
    <3>4. \A s \in seen : s.start \in Int /\ s.end \in Int
      BY <2>2, <3>1, <3>2
    <3> HIDE DEF seen
    <3>5. IsFiniteSet(A) /\ IsFiniteSet(B)
      <4> DEFINE f == [s \in seen |-> s.start]
                 g == [s \in seen |-> s.end]
      <4>1. A = {f[s] : s \in seen} /\ B = {g[s] : s \in seen}
        OBVIOUS
      <4> HIDE DEF f, g, A, B
      <4>2. QED  BY <3>3, <4>1, Images
    <3>6. QED  BY <1>6, <3>4, <3>5
  <2>4. ASSUME NEW x \in A
        PROVE  x \in Int /\ day.start <= x /\ x < day.end
    <3>1. PICK r \in S : x = clip(r, day).start
      BY DEF within
    <3>2. QED
      <4> DEFINE y == clip(r, day).end
      <4>1. x \in Int /\ y \in Int /\ x < y /\ day.start <= x /\ y <= day.end
        BY <2>2, <3>1
      <4> HIDE DEF y
      <4>2. QED  BY <1>1, <4>1
  <2>5. ASSUME NEW x \in B
        PROVE  x \in Int /\ day.start < x /\ x <= day.end
    <3>1. PICK r \in S : x = clip(r, day).end
      BY DEF within
    <3>2. QED
      <4> DEFINE y == clip(r, day).start
      <4>1. x \in Int /\ y \in Int /\ y < x /\ day.start <= y /\ x <= day.end
        BY <2>2, <3>1
      <4> HIDE DEF y
      <4>2. QED  BY <1>1, <4>1
  <2> HIDE DEF A, B
  <2>6. /\ a \in A /\ \A x \in A : a <= x
        /\ b \in B /\ \A x \in B : x <= b
    BY <2>3, FiniteExtremes
  <2>7. hours.start = floorHour(z, a) - Hour /\ hours.end = ceilHour(z, b) + Hour
    <3> HIDE DEF a, b, seen
    <3>1. hours = [start |-> floorHour(z, Min({s.start : s \in seen})) - Hour,
                   end |-> ceilHour(z, Max({s.end : s \in seen})) + Hour]
      BY DEF activeHours
    <3>2. QED  BY <3>1 DEF a, b, A, B
  <2> HIDE DEF a, b, hours
  <2>8. /\ a \in Int /\ day.start <= a /\ a < day.end
        /\ b \in Int /\ day.start < b /\ b <= day.end
    BY <2>4, <2>5, <2>6
  <2>9. HourWindow(z, hours) /\ hours.start <= a /\ b <= hours.end
    <3>1. /\ floorHour(z, a) \in Int /\ OnHour(z, floorHour(z, a)) /\ floorHour(z, a) - Hour <= a
          /\ ceilHour(z, b) \in Int /\ OnHour(z, ceilHour(z, b)) /\ b <= ceilHour(z, b) + Hour
      BY <2>8, HoursNext
    <3> DEFINE f == floorHour(z, a)
               c == ceilHour(z, b)
    <3> HIDE DEF f, c
    <3>2. f \in Int /\ OnHour(z, f) /\ f - Hour <= a /\ c \in Int /\ OnHour(z, c) /\ b <= c + Hour
      BY <3>1 DEF f, c
    <3>3. OnHour(z, f - Hour) /\ OnHour(z, c + Hour) /\ f - Hour \in Int /\ c + Hour \in Int
      BY <1>1, <3>2, OnHourMoves, WholeLengths
    <3>4. hours.start = f - Hour /\ hours.end = c + Hour
      BY <2>7 DEF f, c
    <3>5. QED  BY <3>2, <3>3, <3>4 DEF HourWindow, Window
  <2> HIDE DEF wide
  <2>10. /\ HourWindow(z, wide) /\ wide.start <= hours.start /\ hours.end <= wide.end
         /\ wide.end - wide.start >= M
    BY <1>1, <2>9, WidenedFits DEF wide
  <2>11. /\ wide.start \in Int /\ wide.end \in Int /\ hours.start \in Int /\ hours.end \in Int
    BY <2>9, <2>10 DEF HourWindow, Window
  <2>12. wide.start <= a /\ b <= wide.end
    BY <2>8, <2>9, <2>10, <2>11
  <2>13. wide.start <= day.end /\ day.start <= wide.end
    BY <1>1, <2>8, <2>11, <2>12
  <2> DEFINE k == wide.end - wide.start
  <2>14. /\ HourWindow(z, w) /\ day.start <= w.start /\ w.end <= day.end
         /\ w.start <= Max({wide.start, day.start}) /\ Min({wide.end, day.end}) <= w.end
         /\ w.end - w.start >= Min({k, l})
    BY <1>1, <2>1, <2>10, <2>13, PushedFits
  <2>15. w.start \in Int /\ w.end \in Int /\ Window(w) /\ OnHour(z, w.start) /\ OnHour(z, w.end)
    BY <2>14 DEF HourWindow, Window
  <2>16. w.start <= a /\ b <= w.end
    <3>1. /\ Max({wide.start, day.start}) = IF wide.start < day.start THEN day.start ELSE wide.start
          /\ Min({wide.end, day.end}) = IF day.end < wide.end THEN day.end ELSE wide.end
      BY <1>1, <2>11, OfTwo
    <3>2. QED  BY <1>1, <2>8, <2>11, <2>12, <2>14, <2>15, <3>1
  <2>17. w.end - w.start >= Min({M, l})
    <3> HIDE DEF l
    <3>1. k \in Int /\ k >= M
      BY <2>10, <2>11
    <3> HIDE DEF k
    <3>2. Min({k, l}) = IF l < k THEN l ELSE k
      BY <1>1, <3>1, OfTwo
    <3>3. QED  BY <1>1, <1>2, <2>14, <2>15, <3>1, <3>2
  <2>18. Hourly(w.end - w.start)
    BY <1>1, <2>15, OnHourApart
  <2>19. ASSUME NEW r \in S
         PROVE  clip(r, w) = clip(r, day)
    <3>1. /\ a <= clip(r, day).start /\ clip(r, day).end <= b
          /\ clip(r, day).start \in Int /\ clip(r, day).end \in Int
          /\ clip(r, day).start < clip(r, day).end /\ r.start \in Int /\ r.end \in Int
      BY <2>2, <2>6
    <3> DEFINE x == clip(r, day).start
               y == clip(r, day).end
    <3>2. w.start <= x /\ y <= w.end
      <4>1. x \in Int /\ y \in Int /\ a <= x /\ y <= b
        BY <3>1
      <4> HIDE DEF x, y
      <4>2. QED  BY <2>8, <2>15, <2>16, <4>1
    <3>3. QED  BY <1>1, <2>14, <2>15, <3>1, <3>2, SameClip
  <2>20. QED  BY <2>14, <2>15, <2>17, <2>18, <2>19 DEF w
<1>7. QED  BY <1>5, <1>6
-----------------------------------------------------------------------------
(* The hours of the axis and the rows.                                      *)

\* Division keeps the order.
LEMMA Monotone ==
    ASSUME NEW a \in Int, NEW b \in Int, NEW d \in Nat \ {0}, a <= b
    PROVE  a \div d <= b \div d
<1> DEFINE p == a \div d
           q == b \div d
<1>1. /\ p \in Int /\ a % d \in 0..(d - 1) /\ a = d * p + (a % d)
      /\ q \in Int /\ b % d \in 0..(d - 1) /\ b = d * q + (b % d)
  BY Division
<1> DEFINE o == a % d
           u == b % d
<1> HIDE DEF p, q, o, u
<1>2. q < p => q * d + d <= p * d
  BY <1>1, Multiples DEF o, u
<1>3. d * p = p * d /\ d * q = q * d /\ p * d \in Int /\ q * d \in Int
  BY <1>1
<1> DEFINE x == p * d
           y == q * d
<1>4. /\ x \in Int /\ y \in Int /\ a = x + o /\ b = y + u /\ o \in 0..(d - 1) /\ u \in 0..(d - 1)
      /\ q < p => y + d <= x
  BY <1>1, <1>2, <1>3 DEF o, u
<1> HIDE DEF x, y
<1>5. ~(q < p)
  BY <1>4
<1>6. QED  BY <1>1, <1>5 DEF p, q

\* Every hour of the axis that a bar touches is touched by a row the bar is
\* made of.
LEMMA HoursBusy ==
    ASSUME NEW all, \A q \in all : q.start \in Int /\ q.end \in Int,
           NEW S, \A r \in S : r.start \in Int /\ r.end \in Int,
           \A r \in S : \A y \in r.start..(r.end - 1) : Busy(all, y),
           NEW w, Window(w), NEW r \in within(S, w), NEW h \in touched(r, w)
    PROVE  \E q \in all : h \in touched(q, w)
<1> DEFINE c == clip(r, w)
           cs == c.start
           ce == c.end
           ws == w.start
           g == (cs - ws) \div Hour
           k == (ce - ws) \div Hour
           o == (ce - ws) % Hour
           e == IF o = 0 THEN k - 1 ELSE k
           hh == h * Hour
           y == IF cs < ws + hh THEN ws + hh ELSE cs
<1>1. /\ Hour \in Nat \ {0} /\ ws \in Int /\ w.end \in Int /\ cs \in Int /\ ce \in Int
      /\ ws <= cs /\ cs < ce /\ ce <= w.end /\ r \in S /\ r.start <= cs /\ ce <= r.end
      /\ r.start \in Int /\ r.end \in Int
  BY TimelineAssumption, WithinFacts DEF Window
<1>2. g \in Int /\ k \in Int /\ touched(r, w) = g..e /\ e * Hour < ce - ws
  BY TouchedFacts
<1>3. /\ (cs - ws) % Hour \in 0..(Hour - 1) /\ cs - ws = Hour * g + ((cs - ws) % Hour)
  <2> DEFINE x == cs - ws
  <2>1. x \in Int
    BY <1>1
  <2> HIDE DEF x
  <2>2. x % Hour \in 0..(Hour - 1) /\ x = Hour * (x \div Hour) + (x % Hour)
    BY <1>1, <2>1, Division
  <2>3. QED  BY <2>2 DEF x
<1> HIDE DEF c, cs, ce, ws, g, k, o
<1>4. e \in Int /\ h \in Int /\ g <= h /\ h <= e
  <2>1. e \in Int
    BY <1>2
  <2> HIDE DEF e
  <2>2. QED  BY <1>2, <2>1
<1> HIDE DEF e
<1>5. hh \in Int /\ hh < ce - ws
  <2>1. h < e => h * Hour + Hour <= e * Hour
    BY <1>1, <1>4, Multiples
  <2>2. h * Hour \in Int /\ e * Hour \in Int
    BY <1>1, <1>4
  <2> DEFINE x == e * Hour
  <2>3. /\ hh \in Int /\ x \in Int /\ x < ce - ws
        /\ h < e => hh + Hour <= x
        /\ h = e => hh = x
    BY <1>2, <2>1, <2>2
  <2> HIDE DEF x, hh
  <2>4. QED  BY <1>1, <1>4, <2>3
<1>6. cs - ws < hh + Hour
  <2>1. g < h => g * Hour + Hour <= h * Hour
    BY <1>1, <1>2, <1>4, Multiples
  <2>2. g * Hour = Hour * g /\ g * Hour \in Int
    BY <1>1, <1>2
  <2> DEFINE x == g * Hour
             u == (cs - ws) % Hour
  <2>3. /\ x \in Int /\ cs - ws = x + u /\ u \in 0..(Hour - 1)
        /\ g < h => x + Hour <= hh
        /\ g = h => x = hh
    BY <1>3, <2>1, <2>2
  <2> HIDE DEF x, u, hh
  <2>4. QED  BY <1>1, <1>2, <1>4, <1>5, <2>3
<1>7. Hour * h = hh
  BY <1>1, <1>4
<1> HIDE DEF hh
<1>8. y \in Int /\ cs <= y /\ y < ce /\ hh <= y - ws /\ y - ws < hh + Hour /\ y - ws \in Int
  BY <1>1, <1>5, <1>6
<1> HIDE DEF y
<1>9. (y - ws) \div Hour = h
  <2> DEFINE x == y - ws
  <2>1. x \in Int /\ Hour * h <= x /\ x < Hour * h + Hour
    BY <1>7, <1>8
  <2> HIDE DEF x
  <2>2. x \div Hour = h
    BY <1>1, <1>4, <2>1, Quotient
  <2>3. QED  BY <2>2 DEF x
<1>10. y \in r.start..(r.end - 1)
  BY <1>1, <1>8
<1>11. PICK q \in all : q.start <= y /\ y < q.end
  BY <1>1, <1>10 DEF Busy
<1>12. q.start \in Int /\ q.end \in Int
  OBVIOUS
<1> DEFINE a == clip(q, w).start
           b == clip(q, w).end
<1>13. /\ a = IF q.start < ws THEN ws ELSE q.start
       /\ b = IF w.end < q.end THEN w.end ELSE q.end
  BY <1>1, <1>12, ClipFacts DEF ws
<1> HIDE DEF a, b
<1>14. a \in Int /\ b \in Int /\ a <= y /\ y <= b - 1
  BY <1>1, <1>8, <1>11, <1>12, <1>13
<1>15. (a - ws) \div Hour <= h /\ h <= (b - ws - 1) \div Hour
  <2> DEFINE x == y - ws
             u == a - ws
             v == b - ws - 1
  <2>1. x \in Int /\ u \in Int /\ v \in Int /\ u <= x /\ x <= v /\ x \div Hour = h
    BY <1>1, <1>8, <1>9, <1>14
  <2> HIDE DEF x, u, v
  <2>2. u \div Hour <= x \div Hour /\ x \div Hour <= v \div Hour
    BY <1>1, <2>1, Monotone
  <2>3. u \div Hour <= h /\ h <= v \div Hour
    BY <2>1, <2>2
  <2>4. QED  BY <2>3 DEF u, v
<1>16. (a - ws) \div Hour \in Int /\ (b - ws - 1) \div Hour \in Int
  <2> DEFINE u == a - ws
             v == b - ws - 1
  <2>1. u \in Int /\ v \in Int
    BY <1>1, <1>14
  <2> HIDE DEF u, v
  <2>2. u \div Hour \in Int /\ v \div Hour \in Int
    BY <1>1, <2>1, Division
  <2>3. QED  BY <2>2 DEF u, v
<1>17. h \in ((a - ws) \div Hour)..((b - ws - 1) \div Hour)
  BY <1>4, <1>15, <1>16
<1>18. touched(q, w) = ((a - ws) \div Hour)..((b - ws - 1) \div Hour)
  BY DEF touched, a, b, ws
<1>19. QED  BY <1>17, <1>18
-----------------------------------------------------------------------------
(* The charts.                                                              *)

\* The width of a cell of one hour or tick.
cellWidth(view) == IF view.kind = "rolling" THEN view.tick ELSE Hour

\* What is drawn over a window that holds what was asked for.
LEMMA ChartDraws ==
    ASSUME NEW F, NEW U, Columns(F, U), NEW all \in Seq(Drawn(F, U)), NEW asked,
           NEW w, Window(w), windowHolds(w, all, asked), NEW view, NEW cells, NEW scale,
           scale = {} \/ (Hourly(w.end - w.start)
                           /\ scale = activeHourScale(Range(mergeAdjacentActivity(all)), w)),
           \A m \in cells : markHolds(m, layoutFocused(all, all, w, cells, scale), cellWidth(view))
    PROVE  chartHolds(layoutFocused(all, all, w, cells, scale), all, asked, view)
<1> DEFINE chart == layoutFocused(all, all, w, cells, scale)
           merged == mergeAdjacentActivity(all)
           S == Range(merged)
           R == Range(all)
<1>1. /\ chart.window = w /\ chart.scale = scale /\ chart.marks = cells
      /\ chart.bars = BarsOf(S, w, scale)
  BY DEF layoutFocused, BarsOf
<1>2. merged \in Seq(MadeOf(F, U, R))
  BY MergeFacts
<1> HIDE DEF chart, merged
<1>3. \A r \in S : r \in MadeOf(F, U, R)
  BY <1>2 DEF Range
<1>4. \A r \in S : r.start \in Int /\ r.end \in Int
  BY <1>3 DEF MadeOf, Drawn
<1>5. \A r \in S : \A y \in r.start..(r.end - 1) : Busy(R, y)
  BY <1>3 DEF MadeOf
<1>6. \A q \in R : q.start \in Int /\ q.end \in Int
  BY DEF Range, Drawn
<1> HIDE DEF S, R
<1>7. CASE scale = {}
  <2>1. Stands(S, w, scale)
    BY <1>4, <1>7, PlainStands
  <2>2. axisLength(scale, w) \in Int
    BY <1>7 DEF axisLength, Window
  <2>3. /\ {b.row : b \in chart.bars} = within(S, w)
        /\ \A b \in chart.bars : barHolds(b, chart, w, axisLength(scale, w))
    BY <1>1, <1>4, <2>1, <2>2, BarsStand
  <2>4. QED  BY <1>1, <1>7, <2>3 DEF chartHolds, cellWidth, chart, S, merged
<1>8. CASE scale # {}
  <2>1. (w.end - w.start) % Hour = 0 /\ scale = activeHourScale(S, w)
    <3>1. w.end - w.start \in Int /\ Hourly(w.end - w.start) /\ scale = activeHourScale(S, w)
      BY <1>8 DEF Window, S, merged
    <3> DEFINE l == w.end - w.start
    <3>2. l \in Int /\ Hourly(l)
      BY <3>1
    <3> HIDE DEF l
    <3>3. l % Hour = 0
      BY <3>2, WholeFacts
    <3>4. QED  BY <3>1, <3>3 DEF l
  <2>2. activeHourScale(S, w) # {}
    BY <1>8, <2>1
  <2>3. Stands(S, w, scale)
    BY <1>4, <2>1, <2>2, KeptStands
  <2>4. /\ scale \in SUBSET Int /\ IsFiniteSet(scale)
        /\ \A h \in scale : \E r \in within(S, w) : h \in touched(r, w)
    BY <1>4, <2>1, <2>2, ScaleFacts
  <2>5. axisLength(scale, w) \in Int
    <3>1. Cardinality(scale) \in Nat /\ Hour \in Nat
      BY <2>4, TimelineAssumption, FS_CardinalityType
    <3> DEFINE n == Cardinality(scale)
    <3> HIDE DEF n
    <3>2. n * Hour \in Int
      BY <3>1 DEF n
    <3>3. axisLength(scale, w) = n * Hour
      BY <1>8 DEF axisLength, n
    <3>4. QED  BY <3>2, <3>3
  <2>6. /\ {b.row : b \in chart.bars} = within(S, w)
        /\ \A b \in chart.bars : barHolds(b, chart, w, axisLength(scale, w))
    BY <1>1, <1>4, <2>3, <2>5, BarsStand
  <2>7. \A h \in scale : \E r \in R : h \in touched(r, w)
    <3>1. TAKE h \in scale
    <3>2. PICK r \in within(S, w) : h \in touched(r, w)
      BY <2>4
    <3>3. QED  BY <1>4, <1>5, <1>6, <3>2, HoursBusy
  <2>8. QED  BY <1>1, <2>6, <2>7 DEF chartHolds, cellWidth, chart, S, R, merged
<1>9. QED  BY <1>7, <1>8

\* A window drawn whole.
LEMMA WholeHolds ==
    ASSUME NEW w, Window(w), NEW all
    PROVE  windowHolds(w, all, w)
<1> DEFINE l == w.end - w.start
           M == MinChartWindow
<1>1. l \in Int /\ M \in Int /\ w.start \in Int /\ w.end \in Int
  BY TimelineAssumption DEF Window
<1>2. l >= Min({M, l})
  <2> HIDE DEF l, M
  <2>1. Min({M, l}) = IF l < M THEN l ELSE M
    BY <1>1, OfTwo
  <2>2. QED  BY <1>1, <2>1
<1>3. w.start <= w.start /\ w.end <= w.end
  BY <1>1
<1>4. QED  BY <1>2, <1>3 DEF windowHolds

\* The span that ends now.
LEMMA RollingTrue ==
    ASSUME NEW F, NEW U, Columns(F, U), NEW all \in Seq(Drawn(F, U)),
           NEW z, NEW t \in Int, NEW view, view.kind = "rolling", view.span \in Nat, view.tick \in Nat \ {0}
    PROVE  chartHolds(chartOf(view, all, all, z, t), all, parseWindow(view, z, t), view)
<1> DEFINE w == parseWindow(view, z, t)
           cells == tickMarks(w, view.tick)
           chart == layoutFocused(all, all, w, cells, {})
<1>1. w.start = t - view.span /\ w.end = t
  BY DEF parseWindow
<1>2. chartOf(view, all, all, z, t) = chart
  BY DEF chartOf, layoutFocusRange
<1>3. Window(w)
  BY <1>1 DEF Window
<1> HIDE DEF w
<1>4. windowHolds(w, all, w)
  BY <1>3, WholeHolds
<1>5. chart.marks = cells /\ chart.scale = {} /\ chart.window = w
  BY DEF layoutFocused
<1>6. cellWidth(view) = view.tick
  BY DEF cellWidth
<1>7. \A m \in cells : markHolds(m, chart, cellWidth(view))
  <2> HIDE DEF chart, cells
  <2>1. \A m \in chart.marks : markHolds(m, chart, view.tick)
    BY <1>3, <1>5, TicksHold DEF cells
  <2>2. QED  BY <1>5, <1>6, <2>1
<1> HIDE DEF cells
<1>8. chartHolds(chart, all, w, view)
  BY <1>3, <1>4, <1>7, ChartDraws
<1>9. QED  BY <1>2, <1>8 DEF w

\* A week.
LEMMA WeekTrue ==
    ASSUME NEW F, NEW U, Columns(F, U), NEW all \in Seq(Drawn(F, U)),
           NEW z, MidnightsOnce(z), ByTheHour(z), NEW t \in Int, NEW view, view.kind = "week"
    PROVE  chartHolds(chartOf(view, all, all, z, t), all, parseWindow(view, z, t), view)
<1> DEFINE w == parseWindow(view, z, t)
           cells == dayMarks(z, w)
           chart == layoutFocused(all, all, w, cells, {})
<1>1. w = weekBounds(z, t)
  BY DEF parseWindow
<1>2. chartOf(view, all, all, z, t) = chart
  BY DEF chartOf, layoutFocusWeek
<1> HIDE DEF w
<1>3. Window(w)
  <2> DEFINE k == wall(z, t) \div Day
             m == k - (k % DaysPerWeek)
  <2>1. w = [start |-> midnight(z, m), end |-> midnight(z, m + DaysPerWeek)] /\ m \in Int
    BY <1>1, WeekIs
  <2> HIDE DEF m
  <2>2. m + DaysPerWeek \in Int
    BY <2>1, TimelineAssumption
  <2>3. midnight(z, m) \in Int /\ midnight(z, m + DaysPerWeek) \in Int
    BY <2>1, <2>2, MidnightFacts
  <2>4. QED  BY <2>1, <2>3 DEF Window
<1>4. windowHolds(w, all, w)
  BY <1>3, WholeHolds
<1>5. chart.marks = cells /\ chart.scale = {} /\ chart.window = w
  BY DEF layoutFocused
<1>6. cellWidth(view) = Hour
  BY DEF cellWidth
<1>7. \A m \in cells : markHolds(m, chart, cellWidth(view))
  <2> HIDE DEF chart, cells
  <2>1. \A m \in chart.marks : markHolds(m, chart, Hour)
    BY <1>1, <1>5, DaysHold DEF cells
  <2>2. QED  BY <1>5, <1>6, <2>1
<1> HIDE DEF cells
<1>8. chartHolds(chart, all, w, view)
  BY <1>3, <1>4, <1>7, ChartDraws
<1>9. QED  BY <1>2, <1>8 DEF w

\* A day.
LEMMA DayTrue ==
    ASSUME NEW F, NEW U, Columns(F, U), NEW all \in Seq(Drawn(F, U)),
           NEW z, MidnightsOnce(z), ByTheHour(z), NEW t \in Int, NEW view, view.kind = "day",
           IsFiniteSet(Range(all)), Meets(Range(all), dayBounds(z, t))
    PROVE  chartHolds(chartOf(view, all, all, z, t), all, parseWindow(view, z, t), view)
<1> DEFINE day == dayBounds(z, t)
           w == chartWindow(Range(all), z, day)
           scale == activeHourScale(Range(mergeAdjacentActivity(all)), w)
           cells == IF scale = {} THEN hourMarks(w) ELSE marks(scale, w)
           chart == layoutFocused(all, all, w, cells, scale)
<1>1. parseWindow(view, z, t) = day
  BY DEF parseWindow
<1>2. chartOf(view, all, all, z, t) = chart
  BY <1>1 DEF chartOf, layoutFocusDay, compressed, onScale
<1>3. HourWindow(z, day) /\ day.start <= day.end /\ {z.at, z.before, z.after} \subseteq Int
  <2> DEFINE k == wall(z, t) \div Day
  <2>1. /\ k \in Int /\ day = [start |-> midnight(z, k), end |-> midnight(z, k + 1)]
        /\ midnight(z, k) <= t /\ t < midnight(z, k + 1)
    BY DayIs
  <2> HIDE DEF k
  <2>2. k + 1 \in Int
    BY <2>1
  <2>3. /\ midnight(z, k) \in Int /\ OnHour(z, midnight(z, k))
        /\ midnight(z, k + 1) \in Int /\ OnHour(z, midnight(z, k + 1))
    BY <2>1, <2>2, DayOnHour
  <2> HIDE DEF day
  <2>4. day.start = midnight(z, k) /\ day.end = midnight(z, k + 1)
    BY <2>1
  <2>5. day.start <= day.end
    BY <2>1, <2>3, <2>4
  <2>6. QED  BY <2>3, <2>4, <2>5 DEF HourWindow, Window, MidnightsOnce
<1> HIDE DEF day
<1>4. /\ Window(w) /\ Hourly(w.end - w.start) /\ day.start <= w.start /\ w.end <= day.end
      /\ w.end - w.start >= Min({MinChartWindow, day.end - day.start})
      /\ \A r \in Range(all) : clip(r, w) = clip(r, day)
  BY <1>3, DayFits DEF day
<1> HIDE DEF w
<1>5. windowHolds(w, all, day)
  BY <1>4 DEF windowHolds
<1>6. chart.marks = cells /\ chart.scale = scale /\ chart.window = w
  BY DEF layoutFocused
<1>7. cellWidth(view) = Hour
  BY DEF cellWidth
<1>8. \A m \in cells : markHolds(m, chart, cellWidth(view))
  <2>1. CASE scale = {}
    <3>1. cells = tickMarks(w, Hour) /\ Hour \in Nat \ {0}
      BY <2>1, TimelineAssumption DEF hourMarks
    <3> HIDE DEF chart, cells, scale
    <3>2. \A m \in chart.marks : markHolds(m, chart, Hour)
      BY <1>4, <1>6, <2>1, <3>1, TicksHold
    <3>3. QED  BY <1>6, <1>7, <3>2
  <2>2. CASE scale # {}
    <3>1. cells = marks(scale, w)
      BY <2>2
    <3>2. scale \in SUBSET Int /\ IsFiniteSet(scale)
      <4> DEFINE S == Range(mergeAdjacentActivity(all))
                 l == w.end - w.start
      <4>1. l \in Int /\ Hourly(l)
        BY <1>4 DEF Window
      <4>2. l % Hour = 0
        <5> HIDE DEF l
        <5>1. QED  BY <4>1, WholeFacts
      <4>3. mergeAdjacentActivity(all) \in Seq(MadeOf(F, U, Range(all)))
        BY MergeFacts
      <4>4. \A r \in S : r.start \in Int /\ r.end \in Int
        BY <4>3 DEF Range, MadeOf, Drawn
      <4> HIDE DEF S
      <4>5. scale = activeHourScale(S, w)
        BY DEF S
      <4> HIDE DEF scale, chart, cells
      <4>6. QED  BY <1>4, <2>2, <4>2, <4>4, <4>5, ScaleFacts
    <3> HIDE DEF chart, cells, scale
    <3>3. \A m \in chart.marks : markHolds(m, chart, Hour)
      BY <1>4, <1>6, <2>2, <3>1, <3>2, MarksHold
    <3>4. QED  BY <1>6, <1>7, <3>3
  <2>3. QED  BY <2>1, <2>2
<1> HIDE DEF cells
<1>9. scale = {} \/ (Hourly(w.end - w.start)
                      /\ scale = activeHourScale(Range(mergeAdjacentActivity(all)), w))
  BY <1>4
<1>10. chartHolds(chart, all, day, view)
  <2> HIDE DEF scale
  <2>1. QED  BY <1>4, <1>5, <1>8, <1>9, ChartDraws
<1>11. QED  BY <1>1, <1>2, <1>10

\* The columns of a row that a query returns.
RowFields == {"id", "device", "producer", "app", "url", "title", "start", "end", "override"}
RowValues == Int \union {""} \union UNION {{joined(r)[x] : x \in RowFields} : r \in records}

\* The rows of a window may be drawn.
LEMMA RowsDrawn ==
    ASSUME RecordsNumbered, RowsInv, CategoryInv, ReferenceInv, NEW w
    PROVE  /\ Columns(RowFields, RowValues)
           /\ rowsOf(w) \in Seq(Drawn(RowFields, RowValues))
           /\ IsFiniteSet(Range(rowsOf(w))) /\ Meets(Range(rowsOf(w)), w)
<1> DEFINE F == RowFields
           U == RowValues
           rows == rowsOf(w)
           S == present(w)
<1>1. Columns(F, U)
  BY DEF Columns, RowFields, RowValues
<1>2. rows \in Seq(S) /\ Rows(Range(rows))
  BY QueryFacts DEF rowsOf
<1>3. ASSUME NEW r \in S
      PROVE  /\ r \in Drawn(F, U)
             /\ r.start \in Int /\ r.end \in Int /\ r.start < r.end /\ r.start < w.end /\ r.end > w.start
  <2>1. PICK x \in records : r = joined(x) /\ x.start < w.end /\ x.end > w.start
    BY DEF present
  <2>2. /\ r.start = x.start /\ r.end = x.end /\ x.start \in Int /\ x.end \in Int /\ x.start < x.end
    BY <2>1, JoinedFacts DEF RowsInv
  <2>3. DOMAIN x \union {"override"} = F
    BY DEF RowsInv, RowFields
  <2>4. r = [k \in F |-> r[k]]
    <3>1. r = [k \in F |-> IF k = "override"
                           THEN (IF x.id \in DOMAIN overrides THEN {overrides[x.id]} ELSE {}) ELSE x[k]]
      BY <2>1, <2>3 DEF joined, with
    <3>2. QED  BY <3>1
  <2>5. \A k \in F : r[k] \in U
    <3>1. TAKE k \in F
    <3>2. r[k] \in {joined(x)[y] : y \in F}
      BY <2>1
    <3>3. U = Int \union {""} \union UNION {{joined(q)[y] : y \in F} : q \in records}
      BY DEF RowValues
    <3> HIDE DEF U, F
    <3>4. QED  BY <3>2, <3>3
  <2> HIDE DEF F, U
  <2>6. r \in [F -> U]
    BY <2>4, <2>5
  <2>7. QED  BY <2>1, <2>2, <2>6 DEF Drawn
<1>4. rows \in Seq(Drawn(F, U))
  <2> HIDE DEF rows, S, F, U
  <2>1. S \subseteq Drawn(F, U)
    BY <1>3
  <2>2. QED  BY <1>2, <2>1
<1>5. IsFiniteSet(Range(rows))
  BY <1>2 DEF Rows, Numbered
<1>6. Meets(Range(rows), w)
  <2>1. \A r \in Range(rows) : r \in S
    BY <1>2 DEF Range
  <2> HIDE DEF S, rows
  <2>2. QED  BY <1>3, <2>1 DEF Meets
<1>7. QED  BY <1>1, <1>4, <1>5, <1>6

\* The chart of every view tells the truth in every account whose zone shows
\* each midnight once and changes its clock by an hour or not at all. With
\* a change by half an hour the hours of the axis are not those of the day
\* (timeline.go: newActiveHourScale).
THEOREM ChartsTell ==
    ASSUME \A a \in Accounts : MidnightsOnce(a.zone) /\ ByTheHour(a.zone)
    PROVE  Spec => []ChartTrue
<1>1. Spec => []DashInv
  BY InitShows, StepShows, PTL DEF Spec
<1>2. DashInv => ChartTrue
  <2>1. SUFFICES ASSUME DashInv
                 PROVE  ChartTrue
    OBVIOUS
  <2> DEFINE z == account.zone
             t == account.window.start
             F == RowFields
             U == RowValues
  <2>2. RecordsNumbered /\ RowsInv /\ CategoryInv /\ ReferenceInv
    BY <2>1 DEF DashInv, EditorInv, IInv
  <2>3. account \in Accounts
    BY <2>2 DEF RecordsNumbered
  <2>4. MidnightsOnce(z) /\ ByTheHour(z) /\ t \in Int
    BY <2>3, WebAssumption DEF AccountType
  <2> HIDE DEF z, t, F, U
  <2>5. ASSUME NEW view \in Views
        PROVE  LET asked == parseWindow(view, z, t)
                   all == rowsOf(asked)
               IN  chartHolds(chartOf(view, all, all, z, t), all, asked, view)
    <3> DEFINE asked == parseWindow(view, z, t)
               all == rowsOf(asked)
    <3>1. /\ Columns(F, U) /\ all \in Seq(Drawn(F, U))
          /\ IsFiniteSet(Range(all)) /\ Meets(Range(all), asked)
      BY <2>2, RowsDrawn DEF F, U
    <3>2. view.kind = "day" => asked = dayBounds(z, t)
      BY DEF parseWindow
    <3>a. SUFFICES chartHolds(chartOf(view, all, all, z, t), all, asked, view)
      OBVIOUS
    <3>b. asked = parseWindow(view, z, t)
      OBVIOUS
    <3> HIDE DEF asked, all
    <3>3. CASE view.kind = "day"
      <4>1. Meets(Range(all), dayBounds(z, t))
        BY <3>1, <3>2, <3>3
      <4>2. QED  BY <2>4, <3>1, <3>3, <4>1, <3>b, DayTrue
    <3>4. CASE view.kind = "week"
      BY <2>4, <3>1, <3>4, <3>b, WeekTrue
    <3>5. CASE view.kind = "rolling" /\ view.span \in Nat /\ view.tick \in Nat \ {0}
      BY <2>4, <3>1, <3>5, <3>b, RollingTrue
    <3>6. view.kind \in {"day", "week"} \/ (view.kind = "rolling" /\ view.span \in Nat /\ view.tick \in Nat \ {0})
      BY ViewAssumption
    <3>7. QED  BY <3>3, <3>4, <3>5, <3>6
  <2>6. QED  BY <2>5 DEF ChartTrue, z, t
<1>3. QED  BY <1>1, <1>2, PTL
=============================================================================
