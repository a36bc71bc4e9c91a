-------------------------- MODULE ExtensionProofs --------------------------
(***************************************************************************)
(* Theorems about Extension, for every set of pages, every limit and every *)
(* number of events and segments: no segment worth keeping is lost, no     *)
(* moment is told twice, and the worker at rest holds nothing the rules    *)
(* cover, has its alarm, and times what is in front.                       *)
(***************************************************************************)
EXTENDS Extension, TLAPS, FiniteSetTheorems, WellFoundedInduction, SequenceTheorems

-----------------------------------------------------------------------------
(* Lists.                                                                  *)

\* The constants are numbers.
LEMMA Numbers ==
    /\ MIN_DURATION \in Nat /\ MIN_DURATION > 0
    /\ IDLE_INTERVAL \in Nat /\ IDLE_INTERVAL > 0
    /\ QUEUE_LIMIT \in Nat /\ QUEUE_LIMIT > 0
    /\ MaxTime \in Nat /\ MaxChain \in Nat /\ MaxSegments \in Nat
  BY ExtensionAssumption

\* The members of a list.
Items(s) == {s[i] : i \in 1..Len(s)}

\* A list is a sequence of its members.
LEMMA ListIsSeq ==
    ASSUME NEW s, IsList(s)
    PROVE  s \in Seq(Items(s)) /\ DOMAIN s = 1..Len(s)
<1>1. s \in [1..Len(s) -> Items(s)]
  BY DEF IsList, Items
<1>2. QED  BY <1>1 DEF IsList

\* A sequence is a list, and empty when it has no length.
LEMMA SeqIsList ==
    ASSUME NEW S, NEW s \in Seq(S)
    PROVE  IsList(s)
  BY DEF IsList

\* A list is empty when it has no length.
LEMMA EmptyList ==
    /\ IsList(<<>>) /\ Len(<<>>) = 0
    /\ \A s : IsList(s) /\ (s = <<>> \/ Len(s) = 0) => s = <<>> /\ Len(s) = 0
<1>1. IsList(<<>>) /\ Len(<<>>) = 0
  BY DEF IsList
<1>2. ASSUME NEW s, IsList(s), Len(s) = 0
      PROVE  s = <<>>
  <2>1. s \in Seq(Items(s))
    BY <1>2, ListIsSeq
  <2>2. QED  BY <1>2, <2>1
<1>3. QED  BY <1>1, <1>2

\* The rest of a list.
LEMMA RestOfList ==
    ASSUME NEW s, IsList(s), s # <<>>
    PROVE  /\ Len(s) \in Nat /\ Len(s) > 0 /\ Head(s) = s[1]
           /\ IsList(Tail(s)) /\ Len(Tail(s)) = Len(s) - 1
           /\ \A i \in 1..(Len(s) - 1) : Tail(s)[i] = s[i + 1]
<1>1. s \in Seq(Items(s))
  BY ListIsSeq
<1>2. Len(s) \in Nat /\ Len(s) > 0 /\ Head(s) = s[1]
  BY <1>1
<1>3. Tail(s) \in Seq(Items(s)) /\ Len(Tail(s)) = Len(s) - 1
  BY <1>1, <1>2
<1>4. \A i \in 1..(Len(s) - 1) : Tail(s)[i] = s[i + 1]
  BY <1>1, <1>2
<1>5. QED  BY <1>2, <1>3, <1>4, SeqIsList

\* One list after another.
LEMMA JoinedList ==
    ASSUME NEW s, NEW t, IsList(s), IsList(t)
    PROVE  /\ IsList(s \o t) /\ Len(s \o t) = Len(s) + Len(t)
           /\ Len(s) \in Nat /\ Len(t) \in Nat
           /\ \A i \in 1..Len(s) : (s \o t)[i] = s[i]
           /\ \A i \in (Len(s) + 1)..(Len(s) + Len(t)) : (s \o t)[i] = t[i - Len(s)]
<1> DEFINE U == Items(s) \union Items(t)
<1>1. s \in Seq(U) /\ t \in Seq(U)
  <2>1. s \in Seq(Items(s)) /\ t \in Seq(Items(t))
    BY ListIsSeq
  <2> HIDE DEF U
  <2>2. Items(s) \subseteq U /\ Items(t) \subseteq U
    BY DEF U
  <2>3. QED  BY <2>1, <2>2, SeqMonotonic
<1> HIDE DEF U
<1>2. s \o t \in Seq(U) /\ Len(s \o t) = Len(s) + Len(t)
  BY <1>1
<1>3. Len(s) \in Nat /\ Len(t) \in Nat
  BY <1>1
<1>4. /\ \A i \in 1..Len(s) : (s \o t)[i] = s[i]
      /\ \A i \in (Len(s) + 1)..(Len(s) + Len(t)) : (s \o t)[i] = t[i - Len(s)]
  BY <1>1, <1>3
<1>5. QED  BY <1>2, <1>3, <1>4, SeqIsList

\* Short lists.
LEMMA ShortLists ==
    ASSUME NEW x, NEW y, NEW z
    PROVE  /\ IsList(<<x>>) /\ Len(<<x>>) = 1 /\ <<x>>[1] = x
           /\ IsList(<<x, y>>) /\ Len(<<x, y>>) = 2 /\ <<x, y>>[1] = x /\ <<x, y>>[2] = y
           /\ IsList(<<x, y, z>>) /\ Len(<<x, y, z>>) = 3
           /\ <<x, y, z>>[1] = x /\ <<x, y, z>>[2] = y /\ <<x, y, z>>[3] = z
<1>1. /\ <<x>> \in Seq({x, y, z}) /\ <<x, y>> \in Seq({x, y, z})
      /\ <<x, y, z>> \in Seq({x, y, z})
  OBVIOUS
<1>2. IsList(<<x>>) /\ IsList(<<x, y>>) /\ IsList(<<x, y, z>>)
  BY <1>1, SeqIsList
<1>3. QED  BY <1>2

\* Two lists of one member each.
LEMMA PairJoined ==
    ASSUME NEW x, NEW y
    PROVE  <<x>> \o <<y>> = <<x, y>>
<1> DEFINE s == <<x>>
           t == <<y>>
           p == <<x, y>>
<1>1. IsList(s) /\ Len(s) = 1 /\ s[1] = x /\ IsList(t) /\ Len(t) = 1 /\ t[1] = y
  BY ShortLists
<1>2. IsList(p) /\ Len(p) = 2 /\ p[1] = x /\ p[2] = y
  BY ShortLists
<1> HIDE DEF s, t, p
<1>3. /\ IsList(s \o t) /\ Len(s \o t) = 2
      /\ \A i \in 1..1 : (s \o t)[i] = s[i]
      /\ \A i \in 2..2 : (s \o t)[i] = t[i - 1]
  <2>1. /\ IsList(s \o t) /\ Len(s \o t) = Len(s) + Len(t)
        /\ \A i \in 1..Len(s) : (s \o t)[i] = s[i]
        /\ \A i \in (Len(s) + 1)..(Len(s) + Len(t)) : (s \o t)[i] = t[i - Len(s)]
    BY <1>1, JoinedList
  <2>2. QED  BY <1>1, <2>1
<1>4. \A i \in 1..2 : (s \o t)[i] = p[i]
  BY <1>1, <1>2, <1>3
<1>5. s \o t = [i \in 1..2 |-> (s \o t)[i]] /\ p = [i \in 1..2 |-> p[i]]
  BY <1>2, <1>3 DEF IsList
<1>6. s \o t = p
  BY <1>4, <1>5
<1>7. QED  BY <1>6 DEF s, t, p

\* Nothing and a list of two members.
LEMMA PairAlone == \A x, y : <<>> \o <<x, y>> = <<x, y>>
<1>1. TAKE x, y
<1>2. <<x, y>> \in Seq({x, y})
  OBVIOUS
<1>3. QED  BY <1>2, ConcatEmptySeq

\* A list of one member and one of two.
LEMMA TripleJoined == \A x, y, z : <<x>> \o <<y, z>> = <<x, y, z>>
<1>0. TAKE x, y, z
<1> DEFINE s == <<x>>
           t == <<y, z>>
           p == <<x, y, z>>
<1>1. IsList(s) /\ Len(s) = 1 /\ s[1] = x /\ IsList(t) /\ Len(t) = 2 /\ t[1] = y /\ t[2] = z
  BY ShortLists
<1>2. IsList(p) /\ Len(p) = 3 /\ p[1] = x /\ p[2] = y /\ p[3] = z
  BY ShortLists
<1> HIDE DEF s, t, p
<1>3. /\ IsList(s \o t) /\ Len(s \o t) = 3
      /\ \A i \in 1..1 : (s \o t)[i] = s[i]
      /\ \A i \in 2..3 : (s \o t)[i] = t[i - 1]
  <2>1. /\ IsList(s \o t) /\ Len(s \o t) = Len(s) + Len(t)
        /\ \A i \in 1..Len(s) : (s \o t)[i] = s[i]
        /\ \A i \in (Len(s) + 1)..(Len(s) + Len(t)) : (s \o t)[i] = t[i - Len(s)]
    BY <1>1, JoinedList
  <2>2. QED  BY <1>1, <2>1
<1>4. \A i \in 1..3 : (s \o t)[i] = p[i]
  BY <1>1, <1>2, <1>3
<1>5. s \o t = [i \in 1..3 |-> (s \o t)[i]] /\ p = [i \in 1..3 |-> p[i]]
  BY <1>2, <1>3 DEF IsList
<1>6. s \o t = p
  BY <1>4, <1>5
<1>7. QED  BY <1>6 DEF s, t, p

\* Numbers up to a bound can be put in order.
LEMMA Listing ==
    ASSUME NEW n \in Nat, NEW K \in SUBSET (1..n)
    PROVE  /\ IsFiniteSet(K) /\ Cardinality(K) \in Nat
           /\ \E f \in [1..Cardinality(K) -> K] : Lists(f, K)
<1> DEFINE Listed(L) == /\ IsFiniteSet(L) /\ Cardinality(L) \in Nat
                        /\ \E f \in [1..Cardinality(L) -> L] : Lists(f, L)
           Bad == {m \in Nat : \E L \in SUBSET (1..m) : ~Listed(L)}
           Below == OpToRel(<, Nat)
<1>1. SUFFICES Bad = {}
  OBVIOUS
<1>2. SUFFICES ASSUME Bad # {}
               PROVE  FALSE
  OBVIOUS
<1>3. PICK m \in Bad : \A k \in Bad : m <= k
  <2>1. IsWellFoundedOn(Below, Nat)
    BY NatLessThanWellFounded
  <2>2. \A x, y \in Nat : x < y => <<x, y>> \in Below
    BY DEF OpToRel
  <2>3. Bad \subseteq Nat
    OBVIOUS
  <2> HIDE DEF Below, Bad
  <2>4. \E x \in Bad : \A y \in Bad : ~ (<<y, x>> \in Below)
    BY <1>2, <2>1, <2>3, WFMin
  <2>5. PICK x \in Bad : \A y \in Bad : ~ (<<y, x>> \in Below)
    BY <2>4
  <2>6. \A y \in Bad : ~ (y < x)
    BY <2>2, <2>3, <2>5
  <2>7. \A y \in Bad : x <= y
    BY <2>3, <2>6
  <2>8. QED  BY <2>7
<1>4. m \in Nat /\ \A k \in Nat : k < m => k \notin Bad
  <2>1. m \in Nat
    OBVIOUS
  <2> HIDE DEF Bad
  <2>2. QED  BY <1>3, <2>1
<1>5. PICK L \in SUBSET (1..m) : ~Listed(L)
  BY <1>3
<1>6. \A k \in Nat : k < m => \A M \in SUBSET (1..k) : Listed(M)
  BY <1>4
<1> HIDE DEF Bad, Below
<1>7. Listed({})
  <2>1. IsFiniteSet({}) /\ Cardinality({}) = 0
    BY FS_EmptySet
  <2>2. 1..0 = {}
    OBVIOUS
  <2>3. <<>> \in [1..0 -> {}] /\ Lists(<<>>, {})
    BY <2>2 DEF Lists
  <2>4. \E f \in [1..Cardinality({}) -> {}] : Lists(f, {})
    BY <2>1, <2>3
  <2>5. QED  BY <2>1, <2>4
<1>8. m # 0
  <2>1. 1..0 = {}
    OBVIOUS
  <2> HIDE DEF Listed
  <2>2. QED  BY <1>5, <1>7, <2>1
<1>9. m - 1 \in Nat /\ m - 1 < m
  BY <1>4, <1>8
<1>10. CASE m \notin L
  <2>1. L \in SUBSET (1..(m - 1))
    BY <1>4, <1>8, <1>10
  <2> HIDE DEF Listed
  <2>2. QED  BY <1>5, <1>6, <1>9, <2>1
<1>11. CASE m \in L
  <2> DEFINE M == L \ {m}
  <2>1. M \in SUBSET (1..(m - 1))
    BY <1>4, <1>8
  <2>2. Listed(M)
    <3>1. \A N \in SUBSET (1..(m - 1)) : Listed(N)
      <4> HIDE DEF Listed
      <4>1. QED  BY <1>6, <1>9
    <3> HIDE DEF Listed, M
    <3>2. QED  BY <2>1, <3>1
  <2>3. L = M \union {m} /\ m \notin M
    BY <1>11
  <2>4. \A k \in M : k \in Nat /\ k < m
    BY <2>1, <1>4
  <2> HIDE DEF M
  <2> DEFINE c == Cardinality(M)
  <2>5. IsFiniteSet(L) /\ Cardinality(L) = c + 1 /\ c \in Nat
    BY <2>2, <2>3, FS_AddElement
  <2>6. PICK f \in [1..c -> M] : Lists(f, M)
    BY <2>2
  <2> HIDE DEF c
  <2> DEFINE g == [i \in 1..(c + 1) |-> IF i <= c THEN f[i] ELSE m]
  <2>7. g \in [1..(c + 1) -> L]
    BY <2>3, <2>5, <2>6
  <2>8. \A i, j \in 1..(c + 1) : i < j => g[i] < g[j]
    <3>1. TAKE i, j \in 1..(c + 1)
    <3>2. HAVE i < j
    <3>3. i <= c /\ i \in 1..c /\ g[i] = f[i] /\ f[i] \in M
      BY <2>5, <2>6, <3>2
    <3>4. CASE j <= c
      <4>1. j \in 1..c /\ g[j] = f[j]
        BY <2>5, <3>4
      <4>2. f[i] < f[j]
        BY <2>6, <3>2, <3>3, <4>1 DEF Lists
      <4>3. QED  BY <3>3, <4>1, <4>2
    <3>5. CASE j > c
      <4>1. g[j] = m
        BY <2>5, <3>5
      <4>2. QED  BY <2>4, <3>3, <4>1
    <3>6. QED  BY <2>5, <3>4, <3>5
  <2>9. {g[i] : i \in 1..(c + 1)} = L
    <3>1. \A x \in L : \E i \in 1..(c + 1) : x = g[i]
      <4>1. TAKE x \in L
      <4>2. CASE x = m
        <5>1. c + 1 \in 1..(c + 1) /\ g[c + 1] = m
          BY <2>5
        <5>2. QED  BY <4>2, <5>1
      <4>3. CASE x \in M
        <5>1. \E i \in 1..c : x = f[i]
          BY <2>6, <4>3 DEF Lists
        <5>2. PICK i \in 1..c : x = f[i]
          BY <5>1
        <5>3. i \in 1..(c + 1) /\ g[i] = f[i]
          BY <2>5
        <5>4. QED  BY <5>2, <5>3
      <4>4. QED  BY <2>3, <4>2, <4>3
    <3> HIDE DEF g
    <3>2. QED  BY <2>7, <3>1
  <2>10. Lists(g, L)
    <3>1. DOMAIN g = 1..(c + 1)
      OBVIOUS
    <3> HIDE DEF g
    <3>2. QED  BY <2>8, <2>9, <3>1 DEF Lists
  <2> HIDE DEF g
  <2>11. Listed(L)
    BY <2>5, <2>7, <2>10
  <2>12. QED  BY <1>5, <2>11
<1>12. QED  BY <1>10, <1>11

\* A filtered sequence has the entries at the positions that were kept, and no more
\* of them than there were.
LEMMA EntriesKept ==
    ASSUME NEW S, NEW q \in Seq(S), NEW K \in SUBSET (1..Len(q))
    PROVE  /\ Entries(q, K) \in Seq(S) /\ Len(Entries(q, K)) <= Len(q)
           /\ ToSet(Entries(q, K)) = {q[i] : i \in K}
<1> DEFINE n == Len(q)
           c == Cardinality(K)
           at == CHOOSE f \in [1..c -> K] : Lists(f, K)
<1>1. n \in Nat /\ \A i \in 1..n : q[i] \in S
  OBVIOUS
<1>2. IsFiniteSet(K) /\ c \in Nat /\ \E f \in [1..c -> K] : Lists(f, K)
  BY <1>1, Listing
<1>3. at \in [1..c -> K] /\ Lists(at, K)
  BY <1>2
<1>4. Entries(q, K) = [i \in 1..c |-> q[at[i]]]
  BY DEF Entries
<1>5. c <= n
  <2>1. IsFiniteSet(1..n) /\ Cardinality(1..n) = n
    <3>1. n \in Nat
      BY <1>1
    <3> HIDE DEF n
    <3>2. IsFiniteSet(1..n) /\ Cardinality(1..n) = IF 1 > n THEN 0 ELSE n - 1 + 1
      BY <3>1, FS_Interval
    <3>3. QED  BY <3>1, <3>2
  <2>2. QED  BY <2>1, FS_Subset
<1> HIDE DEF at, c, n
<1>6. \A i \in 1..c : at[i] \in 1..n
  BY <1>3 DEF n
<1>7. Entries(q, K) \in [1..c -> S]
  BY <1>1, <1>4, <1>6
<1>8. Entries(q, K) \in Seq(S) /\ Len(Entries(q, K)) = c
  BY <1>2, <1>7
<1>9. ToSet(Entries(q, K)) = {q[at[i]] : i \in 1..c}
  <2>1. DOMAIN Entries(q, K) = 1..c
    BY <1>4
  <2>2. QED  BY <1>4, <2>1 DEF ToSet
<1>10. {q[at[i]] : i \in 1..c} = {q[i] : i \in K}
  <2>1. {at[i] : i \in 1..c} = K
    BY <1>3 DEF Lists
  <2>2. QED  BY <2>1
<1>11. QED  BY <1>5, <1>8, <1>9, <1>10 DEF n

\* The members of a sequence of records, and their identities.
LEMMA SeqMembers ==
    ASSUME NEW q \in Seq(Record)
    PROVE  ToSet(q) \subseteq Record /\ Ids(ToSet(q)) \subseteq Nat
<1>1. DOMAIN q = 1..Len(q) /\ \A i \in 1..Len(q) : q[i] \in Record
  OBVIOUS
<1>2. ToSet(q) \subseteq Record
  BY <1>1 DEF ToSet
<1>3. \A r \in Record : r.id \in Nat
  BY DEF Record
<1>4. QED  BY <1>2, <1>3 DEF Ids

\* What is left when the rules have been applied to the queue.
LEMMA Filtered ==
    ASSUME NEW q \in Seq(Record), NEW patterns
    PROVE  /\ filterIgnored(q, patterns) \in Seq(Record)
           /\ Len(filterIgnored(q, patterns)) <= Len(q)
           /\ ToSet(filterIgnored(q, patterns)) = {r \in ToSet(q) : r.page.url \notin patterns}
<1> DEFINE K == {i \in DOMAIN q : q[i].page.url \notin patterns}
<1>1. DOMAIN q = 1..Len(q)
  OBVIOUS
<1>2. K \in SUBSET (1..Len(q)) /\ filterIgnored(q, patterns) = Entries(q, K)
  BY <1>1 DEF filterIgnored
<1>3. {q[i] : i \in K} = {r \in ToSet(q) : r.page.url \notin patterns}
  BY DEF ToSet
<1> HIDE DEF K
<1>4. QED  BY <1>2, <1>3, EntriesKept

\* One member or none, as a sequence.
LEMMA SetToSeqFew ==
    ASSUME NEW x
    PROVE  SetToSeq({}) = <<>> /\ SetToSeq({x}) = <<x>>
<1>1. Cardinality({}) = 0 /\ Cardinality({x}) = 1
  BY FS_EmptySet, FS_Singleton
<1>2. SetToSeq({}) = <<>>
  <2>1. <<>> \in [1..0 -> {}] /\ \A f \in [1..0 -> {}] : f = <<>>
    <3>1. 1..0 = {}
      OBVIOUS
    <3>2. QED  BY <3>1
  <2>2. IsInjective(<<>>)
    BY DEF IsInjective
  <2>3. QED  BY <1>1, <2>1, <2>2 DEF SetToSeq
<1>3. SetToSeq({x}) = <<x>>
  <2>1. <<x>> \in [1..1 -> {x}] /\ DOMAIN <<x>> = 1..1
    OBVIOUS
  <2>2. \A f \in [1..1 -> {x}] : f = <<x>>
    <3>1. TAKE f \in [1..1 -> {x}]
    <3>2. \A i \in 1..1 : f[i] = <<x>>[i]
      OBVIOUS
    <3>3. QED  BY <3>2, <2>1
  <2>3. IsInjective(<<x>>)
    BY <2>1 DEF IsInjective
  <2>4. QED  BY <1>1, <2>1, <2>2, <2>3 DEF SetToSeq
<1>4. QED  BY <1>2, <1>3
-----------------------------------------------------------------------------
(* The task that runs, as a list of operations.                            *)

\* The operation that comes next is done, and ops takes its place.
LEMMA Replaced ==
    ASSUME IsList(todo), todo # <<>>, NEW ops, IsList(ops), todo' = ops \o Tail(todo)
    PROVE  /\ Len(todo) \in Nat /\ Len(todo) > 0 /\ Head(todo) = todo[1]
           /\ IsList(todo') /\ Len(ops) \in Nat /\ Len(todo') = Len(ops) + Len(todo) - 1
           /\ \A i \in 1..Len(ops) : todo'[i] = ops[i]
           /\ \A i \in (Len(ops) + 1)..Len(todo') :
                /\ i - Len(ops) + 1 \in 2..Len(todo)
                /\ todo'[i] = todo[i - Len(ops) + 1]
<1>1. /\ Len(todo) \in Nat /\ Len(todo) > 0 /\ Head(todo) = todo[1]
      /\ IsList(Tail(todo)) /\ Len(Tail(todo)) = Len(todo) - 1
      /\ \A i \in 1..(Len(todo) - 1) : Tail(todo)[i] = todo[i + 1]
  BY RestOfList
<1>2. /\ IsList(todo') /\ Len(todo') = Len(ops) + (Len(todo) - 1)
      /\ Len(ops) \in Nat
      /\ \A i \in 1..Len(ops) : todo'[i] = ops[i]
      /\ \A i \in (Len(ops) + 1)..(Len(ops) + Len(Tail(todo))) :
           todo'[i] = Tail(todo)[i - Len(ops)]
  BY <1>1, JoinedList
<1>3. ASSUME NEW i \in (Len(ops) + 1)..Len(todo')
      PROVE  /\ i - Len(ops) + 1 \in 2..Len(todo)
             /\ todo'[i] = todo[i - Len(ops) + 1]
  <2>1. i - Len(ops) \in 1..(Len(todo) - 1)
    BY <1>1, <1>2
  <2>2. Tail(todo)[i - Len(ops)] = todo[i - Len(ops) + 1]
    BY <1>1, <2>1
  <2>3. QED  BY <1>1, <1>2, <2>1, <2>2
<1>4. QED  BY <1>1, <1>2, <1>3

\* Nothing takes its place.
LEMMA Replaced0 ==
    ASSUME IsList(todo), todo # <<>>, todo' = <<>> \o Tail(todo)
    PROVE  /\ Len(todo) \in Nat /\ Len(todo) > 0 /\ Head(todo) = todo[1]
           /\ IsList(todo') /\ Len(todo') = Len(todo) - 1
           /\ \A i \in 1..Len(todo') : i + 1 \in 2..Len(todo) /\ todo'[i] = todo[i + 1]
<1>1. IsList(<<>>) /\ Len(<<>>) = 0
  BY EmptyList
<1>2. /\ Len(todo) \in Nat /\ Len(todo) > 0 /\ Head(todo) = todo[1]
      /\ IsList(todo') /\ Len(todo') = Len(<<>>) + Len(todo) - 1
      /\ \A i \in (Len(<<>>) + 1)..Len(todo') :
           /\ i - Len(<<>>) + 1 \in 2..Len(todo)
           /\ todo'[i] = todo[i - Len(<<>>) + 1]
  BY <1>1, Replaced
<1>3. QED  BY <1>1, <1>2

\* One operation takes its place.
LEMMA Replaced1 ==
    ASSUME IsList(todo), todo # <<>>, NEW x, todo' = <<x>> \o Tail(todo)
    PROVE  /\ Len(todo) \in Nat /\ Len(todo) > 0 /\ Head(todo) = todo[1]
           /\ IsList(todo') /\ Len(todo') = Len(todo) /\ todo'[1] = x
           /\ \A i \in 2..Len(todo') : todo'[i] = todo[i]
<1> DEFINE ops == <<x>>
<1>1. IsList(ops) /\ Len(ops) = 1 /\ ops[1] = x
  BY ShortLists
<1>0. todo' = ops \o Tail(todo)
  OBVIOUS
<1> HIDE DEF ops
<1>2. /\ Len(todo) \in Nat /\ Len(todo) > 0 /\ Head(todo) = todo[1]
      /\ IsList(todo') /\ Len(todo') = Len(ops) + Len(todo) - 1
      /\ \A i \in 1..Len(ops) : todo'[i] = ops[i]
      /\ \A i \in (Len(ops) + 1)..Len(todo') : todo'[i] = todo[i - Len(ops) + 1]
  BY <1>0, <1>1, Replaced
<1>3. QED  BY <1>1, <1>2

\* Two operations take its place.
LEMMA Replaced2 ==
    ASSUME IsList(todo), todo # <<>>, NEW x, NEW y, todo' = <<x, y>> \o Tail(todo)
    PROVE  /\ Len(todo) \in Nat /\ Len(todo) > 0 /\ Head(todo) = todo[1]
           /\ IsList(todo') /\ Len(todo') = Len(todo) + 1 /\ todo'[1] = x /\ todo'[2] = y
           /\ \A i \in 3..Len(todo') : i - 1 \in 2..Len(todo) /\ todo'[i] = todo[i - 1]
<1> DEFINE ops == <<x, y>>
<1>1. IsList(ops) /\ Len(ops) = 2 /\ ops[1] = x /\ ops[2] = y
  BY ShortLists
<1>0. todo' = ops \o Tail(todo)
  OBVIOUS
<1> HIDE DEF ops
<1>2. /\ Len(todo) \in Nat /\ Len(todo) > 0 /\ Head(todo) = todo[1]
      /\ IsList(todo') /\ Len(todo') = Len(ops) + Len(todo) - 1
      /\ \A i \in 1..Len(ops) : todo'[i] = ops[i]
      /\ \A i \in (Len(ops) + 1)..Len(todo') :
           /\ i - Len(ops) + 1 \in 2..Len(todo)
           /\ todo'[i] = todo[i - Len(ops) + 1]
  BY <1>0, <1>1, Replaced
<1>3. QED  BY <1>1, <1>2

\* Three operations take its place.
LEMMA Replaced3 ==
    ASSUME IsList(todo), todo # <<>>, NEW x, NEW y, NEW z,
           todo' = <<x, y, z>> \o Tail(todo)
    PROVE  /\ Len(todo) \in Nat /\ Len(todo) > 0 /\ Head(todo) = todo[1]
           /\ IsList(todo') /\ Len(todo') = Len(todo) + 2
           /\ todo'[1] = x /\ todo'[2] = y /\ todo'[3] = z
           /\ \A i \in 4..Len(todo') : i - 2 \in 2..Len(todo) /\ todo'[i] = todo[i - 2]
<1> DEFINE ops == <<x, y, z>>
<1>1. IsList(ops) /\ Len(ops) = 3 /\ ops[1] = x /\ ops[2] = y /\ ops[3] = z
  BY ShortLists
<1>0. todo' = ops \o Tail(todo)
  OBVIOUS
<1> HIDE DEF ops
<1>2. /\ Len(todo) \in Nat /\ Len(todo) > 0 /\ Head(todo) = todo[1]
      /\ IsList(todo') /\ Len(todo') = Len(ops) + Len(todo) - 1
      /\ \A i \in 1..Len(ops) : todo'[i] = ops[i]
      /\ \A i \in (Len(ops) + 1)..Len(todo') :
           /\ i - Len(ops) + 1 \in 2..Len(todo)
           /\ todo'[i] = todo[i - Len(ops) + 1]
  BY <1>0, <1>1, Replaced
<1>3. QED  BY <1>1, <1>2

\* The kinds of operations that may wait behind another one.
Quiet == {"start", "deliver", "repair", "seed", "purge"}
Begins == {"start", "open", "write"}

\* What is next is done, and what waits behind it is next.
LEMMA Popped ==
    ASSUME TypeInv, PlanInv, awake, todo # <<>>, Then(<<>>)
    PROVE  /\ Len(todo) \in Nat /\ Len(todo) > 0 /\ Head(todo) = todo[1] /\ Operation(todo[1])
           /\ IsList(todo') /\ Len(todo') = Len(todo) - 1
           /\ \A i \in 1..Len(todo') :
                i + 1 \in 2..Len(todo) /\ todo'[i] = todo[i + 1] /\ Operation(todo'[i])
           /\ awake' = awake /\ chain' = chain
           /\ todo[1].do # "enqueue" => PlanInv' /\ \A i \in 1..Len(todo') : todo'[i].do \in Quiet
           /\ todo[1].do = "enqueue" =>
                /\ PlanInv' /\ Len(todo') > 0 /\ todo'[1].do = "clear"
                /\ \A i \in 2..Len(todo') : todo'[i].do \in Quiet
<1>1. IsList(todo) /\ todo' = <<>> \o Tail(todo) /\ awake' = awake /\ chain' = chain
  BY DEF TypeInv, Then, rest
<1>2. /\ Len(todo) \in Nat /\ Len(todo) > 0 /\ Head(todo) = todo[1]
      /\ IsList(todo') /\ Len(todo') = Len(todo) - 1
      /\ \A i \in 1..Len(todo') : i + 1 \in 2..Len(todo) /\ todo'[i] = todo[i + 1]
  BY <1>1, Replaced0
<1>3. \A i \in 1..Len(todo) : Operation(todo[i])
  BY DEF TypeInv
<1>4. Operation(todo[1]) /\ \A i \in 1..Len(todo') : Operation(todo'[i])
  BY <1>2, <1>3
<1>5. ASSUME todo[1].do # "enqueue"
      PROVE  PlanInv' /\ \A i \in 1..Len(todo') : todo'[i].do \in Quiet
  <2>1. \A i \in 2..Len(todo) : todo[i].do \in Quiet
    BY <1>5 DEF PlanInv, Quiet
  <2>2. \A i \in 1..Len(todo') : todo'[i].do \in Quiet
    BY <1>2, <2>1
  <2>3. QED  BY <1>1, <1>2, <2>2 DEF PlanInv, Quiet, Upcoming
<1>6. ASSUME todo[1].do = "enqueue"
      PROVE  /\ PlanInv' /\ Len(todo') > 0 /\ todo'[1].do = "clear"
             /\ \A i \in 2..Len(todo') : todo'[i].do \in Quiet
  <2>1. Len(todo) > 1 /\ todo[2].do = "clear"
    BY <1>2, <1>6 DEF PlanInv, Upcoming
  <2>2. \A i \in 3..Len(todo) : todo[i].do \in Quiet
    BY <1>2 DEF PlanInv, Quiet
  <2>3. Len(todo') > 0 /\ todo'[1].do = "clear"
    BY <1>2, <2>1
  <2>4. \A i \in 2..Len(todo') : todo'[i].do \in Quiet
    BY <1>2, <2>2
  <2>5. QED  BY <1>1, <1>2, <2>3, <2>4 DEF PlanInv, Quiet, Upcoming
<1>7. QED  BY <1>1, <1>2, <1>4, <1>5, <1>6

\* One operation takes the place of the next one.
LEMMA Pushed ==
    ASSUME TypeInv, PlanInv, awake, todo # <<>>, NEW x, Operation(x), Then(<<x>>),
           Head(todo).do # "enqueue", x.do \notin {"enqueue", "resolve"}
    PROVE  /\ Len(todo) \in Nat /\ Len(todo) > 0 /\ Head(todo) = todo[1] /\ Operation(todo[1])
           /\ IsList(todo') /\ Len(todo') = Len(todo) /\ todo'[1] = x
           /\ \A i \in 1..Len(todo') : Operation(todo'[i])
           /\ \A i \in 2..Len(todo') : todo'[i] = todo[i] /\ todo'[i].do \in Quiet
           /\ awake' = awake /\ chain' = chain
           /\ PlanInv'
<1>1. IsList(todo) /\ todo' = <<x>> \o Tail(todo) /\ awake' = awake /\ chain' = chain
  BY DEF TypeInv, Then, rest
<1>2. /\ Len(todo) \in Nat /\ Len(todo) > 0 /\ Head(todo) = todo[1]
      /\ IsList(todo') /\ Len(todo') = Len(todo) /\ todo'[1] = x
      /\ \A i \in 2..Len(todo') : todo'[i] = todo[i]
  BY <1>1, Replaced1
<1>3. \A i \in 1..Len(todo) : Operation(todo[i])
  BY DEF TypeInv
<1>4. Operation(todo[1]) /\ \A i \in 1..Len(todo') : Operation(todo'[i])
  BY <1>2, <1>3
<1>5. \A i \in 2..Len(todo) : todo[i].do \in Quiet
  BY <1>2 DEF PlanInv, Quiet
<1>6. PlanInv'
  BY <1>1, <1>2, <1>5 DEF PlanInv, Quiet, Upcoming
<1>7. QED  BY <1>1, <1>2, <1>4, <1>5, <1>6

\* One operation or none takes the place of the next one.
LEMMA Taken ==
    ASSUME TypeInv, PlanInv, awake, todo # <<>>, NEW x, Operation(x),
           Then(<<>>) \/ Then(<<x>>), Head(todo).do # "enqueue",
           x.do \notin {"enqueue", "resolve"}
    PROVE  /\ IsList(todo') /\ awake' = awake /\ chain' = chain /\ PlanInv'
           /\ Len(todo') > 0 => 1 \in 1..Len(todo')
           /\ \A i \in 1..Len(todo') : Operation(todo'[i])
           /\ \A i \in 1..Len(todo') :
                \/ todo'[i].do \in Quiet /\ \E j \in 2..Len(todo) : todo'[i] = todo[j]
                \/ i = 1 /\ todo'[1] = x /\ Then(<<x>>)
           /\ \A j \in 2..Len(todo) : \E i \in 1..Len(todo') : todo'[i] = todo[j]
<1>1. CASE Then(<<>>)
  <2>1. /\ IsList(todo') /\ Len(todo') = Len(todo) - 1 /\ Len(todo) \in Nat
        /\ \A i \in 1..Len(todo') :
             i + 1 \in 2..Len(todo) /\ todo'[i] = todo[i + 1] /\ Operation(todo'[i])
        /\ awake' = awake /\ chain' = chain /\ PlanInv'
        /\ \A i \in 1..Len(todo') : todo'[i].do \in Quiet
    BY <1>1, Popped
  <2>2. \A j \in 2..Len(todo) : j - 1 \in 1..Len(todo') /\ todo'[j - 1] = todo[j]
    BY <2>1
  <2>3. QED  BY <2>1, <2>2 DEF IsList
<1>2. CASE Then(<<x>>)
  <2>1. /\ IsList(todo') /\ Len(todo') = Len(todo) /\ Len(todo) \in Nat /\ todo'[1] = x
        /\ \A i \in 1..Len(todo') : Operation(todo'[i])
        /\ \A i \in 2..Len(todo') : todo'[i] = todo[i] /\ todo'[i].do \in Quiet
        /\ awake' = awake /\ chain' = chain /\ PlanInv'
    BY <1>2, Pushed
  <2>2. \A i \in 1..Len(todo') : i = 1 \/ i \in 2..Len(todo)
    BY <2>1
  <2>3. QED  BY <1>2, <2>1, <2>2
<1>3. QED  BY <1>1, <1>2

-----------------------------------------------------------------------------
(* What the invariants say of steps that add nothing.                      *)

\* A step that keeps the clock and brings nothing that was not known keeps the story
\* straight, if what it plans begins after all that is known.
LEMMA StoryKept ==
    ASSUME TypeInv, StoryInv, now' = now, minted' = minted, Known' \subseteq Known,
           \A c \in current' : c \in current /\ Fresh(c),
           \A i \in 1..Len(todo') : todo'[i].do \in Begins =>
              todo'[i].at <= now /\ EndedBy(todo'[i].at),
           ~ Upcoming({"finalize", "enqueue"})',
           Upcoming({"send", "remove"})' => todo'[1].batch \subseteq Known',
           Upcoming({"remove"})' => todo'[1].batch \subseteq received'
    PROVE  StoryInv'
<1>1. OneStory'
  BY DEF StoryInv, OneStory, Known
<1>2. (\A r \in Known : r.id <= minted)'
  BY DEF StoryInv
<1>3. (\A c \in current : c.start <= now /\ c.id \in 1..minted /\ Fresh(c))'
  BY DEF StoryInv, Fresh, EndedBy, Ids
<1>4. \A t : EndedBy(t) => EndedBy(t)'
  BY DEF EndedBy
<1>5. (\A i \in 1..Len(todo) : todo[i].do \in Begins =>
          todo[i].at <= now /\ EndedBy(todo[i].at))'
  BY <1>4
<1>6. QED  BY <1>1, <1>2, <1>3, <1>5 DEF StoryInv, Upcoming, Begins

\* What was planned to begin begins after all that is known.
LEMMA PlannedBegins ==
    ASSUME StoryInv, NEW j \in 1..Len(todo), todo[j].do \in Begins
    PROVE  todo[j].at <= now /\ EndedBy(todo[j].at)
  BY DEF StoryInv, Begins

\* The story stays straight when nothing is planned that was not planned before.
LEMMA StoryStill ==
    ASSUME TypeInv, StoryInv, now' = now, minted' = minted, Known' \subseteq Known,
           \A c \in current' : c \in current /\ Fresh(c),
           \A i \in 1..Len(todo') : todo'[i].do \in Begins =>
              \E j \in 1..Len(todo) : todo'[i] = todo[j],
           ~ Upcoming({"finalize", "enqueue", "send", "remove"})'
    PROVE  StoryInv'
<1>1. \A i \in 1..Len(todo') : todo'[i].do \in Begins =>
        todo'[i].at <= now /\ EndedBy(todo'[i].at)
  BY PlannedBegins
<1>2. ~ Upcoming({"finalize", "enqueue"})' /\ ~ Upcoming({"send", "remove"})'
        /\ ~ Upcoming({"remove"})'
  BY DEF Upcoming
<1>3. QED  BY <1>1, <1>2, StoryKept

\* A step that leaves the events and the rules alone.
LEMMA RulesStill ==
    ASSUME RulesInv, UNCHANGED <<chain, ignored, awake>>,
           awake /\ RulesHold => RulesHold'
    PROVE  RulesInv'
  BY DEF RulesInv, Waiting, IsLast

\* Where an operation is done that has nothing to do with the rules, they still hold.
LEMMA RulesPopped ==
    ASSUME RulesHold, ignored' = ignored, ToSet(queue') \subseteq ToSet(queue),
           \A c \in current' : c.page.url \notin ignored,
           Len(todo) \in Nat, IsList(todo'), todo[1].do \notin {"resolve", "deliver", "purge"},
           \A i \in 1..Len(todo') : /\ i + 1 \in 2..Len(todo) /\ todo'[i] = todo[i + 1]
                                    /\ todo'[i].do \in Quiet,
           \A i \in 2..Len(todo) : i - 1 \in 1..Len(todo') /\ todo'[i - 1] = todo[i]
    PROVE  RulesHold'
<1>1. ASSUME \E r \in ToSet(queue') : r.page.url \in ignored
      PROVE  \E i \in 1..Len(todo') : todo'[i].do \in {"resolve", "deliver", "purge"}
  <2>1. PICK j \in 1..Len(todo) : todo[j].do \in {"resolve", "deliver", "purge"}
    BY <1>1 DEF RulesHold
  <2>2. j \in 2..Len(todo)
    BY <2>1
  <2>3. QED  BY <2>1, <2>2
<1>2. ~ Upcoming({"enqueue"})' /\ ~ Upcoming({"write"})'
  <2>1. Len(todo') > 0 => 1 \in 1..Len(todo')
    BY DEF IsList
  <2>2. Len(todo') > 0 => todo'[1].do \in Quiet
    BY <2>1
  <2>3. QED  BY <2>2 DEF Upcoming, Quiet
<1>3. ASSUME NEW i \in 1..Len(todo'), todo'[i].do \in {"forget", "purge"}
      PROVE  todo'[i].patterns = ignored
  <2>1. i + 1 \in 1..Len(todo) /\ todo'[i] = todo[i + 1]
    OBVIOUS
  <2>2. QED  BY <1>3, <2>1 DEF RulesHold
<1>4. QED  BY <1>1, <1>2, <1>3 DEF RulesHold

\* A step that leaves the events and what is in front alone.
LEMMA FrontStill ==
    ASSUME FrontInv, UNCHANGED <<chain, tab, focused, awake>>,
           awake /\ FrontHolds => FrontHolds'
    PROVE  FrontInv'
  BY DEF FrontInv, Turns, Shows, Waiting, IsLast

\* Where an operation is done that does not end a segment, what is timed and what is
\* planned are as right as before.
LEMMA FrontPopped ==
    ASSUME FrontHolds, UNCHANGED <<chain, tab, focused>>,
           \A c \in current' : c \in current /\ ~ Closing,
           \A i \in 1..Len(todo') : i + 1 \in 2..Len(todo) /\ todo'[i] = todo[i + 1],
           Len(todo) \in Nat
    PROVE  FrontHolds'
<1>1. Shows' = Shows
  BY DEF Shows, Waiting
<1>2. ASSUME NEW c \in current'
      PROVE  focused' /\ (Shows' = {} => SamePlace(c.page, tab'))
  BY <1>1 DEF FrontHolds
<1>3. ASSUME NEW i \in 1..Len(todo'), todo'[i].do \in Begins
      PROVE  focused' /\ (Shows' = {} => todo'[i].page = tab')
  <2>1. PICK j \in 1..Len(todo) : todo'[i] = todo[j]
    OBVIOUS
  <2>2. focused /\ (Shows = {} => todo[j].page = tab)
    BY <1>3, <2>1 DEF FrontHolds, Begins
  <2>3. QED  BY <1>1, <2>1, <2>2
<1>4. (\A c \in current : focused /\ (Shows = {} => SamePlace(c.page, tab)))'
  BY <1>2 DEF SamePlace
<1>5. QED  BY <1>3, <1>4 DEF FrontHolds, Begins

-----------------------------------------------------------------------------
(* The operations.                                                         *)

\* What is cleared has been put elsewhere.
LEMMA ClearStep ==
    ASSUME ExtensionInv, Clear
    PROVE  ExtensionInv'
<1>1. /\ TypeInv /\ PlanInv /\ StoryInv /\ KeptInv /\ RulesInv /\ AlarmInv /\ FrontInv
      /\ awake /\ todo # <<>> /\ Head(todo).do = "clear" /\ Then(<<>>)
      /\ current' = {} /\ UNCHANGED <<now, tab, focused, word, ignored, queue, source, alarm>>
      /\ UNCHANGED <<minted, received, dropped, replaced>>
  BY DEF ExtensionInv, Clear, At, browser, history
<1>2. /\ Len(todo) \in Nat /\ Len(todo) > 0 /\ todo[1].do = "clear"
      /\ IsList(todo') /\ Len(todo') = Len(todo) - 1 /\ Head(todo) = todo[1]
      /\ \A i \in 1..Len(todo') :
           i + 1 \in 2..Len(todo) /\ todo'[i] = todo[i + 1] /\ Operation(todo'[i])
      /\ awake' = awake /\ chain' = chain /\ PlanInv'
      /\ \A i \in 1..Len(todo') : todo'[i].do \in Quiet
  BY <1>1, Popped
<1>3. TypeInv'
  BY <1>1, <1>2 DEF TypeInv
<1>4. StoryInv'
  <2>1. ~ Upcoming({"finalize", "enqueue", "send", "remove"})'
    BY <1>2 DEF Upcoming, Quiet
  <2>2. Known' = Known
    BY <1>1 DEF Known
  <2>3. \A i \in 1..Len(todo') : \E j \in 1..Len(todo) : todo'[i] = todo[j]
    BY <1>2
  <2>4. QED  BY <1>1, <2>1, <2>2, <2>3, StoryStill
<1>5. KeptInv'
  BY <1>1, <1>2 DEF KeptInv, NothingLost, Upcoming, Quiet, Known, Ids
<1>6. RulesInv'
  <2>1. \A i \in 2..Len(todo) : i - 1 \in 1..Len(todo') /\ todo'[i - 1] = todo[i]
    BY <1>2
  <2>2. RulesHold => RulesHold'
    BY <1>1, <1>2, <2>1, RulesPopped
  <2>3. QED  BY <1>1, <1>2, <2>2, RulesStill
<1>7. AlarmInv'
  BY <1>1 DEF AlarmInv
<1>8. FrontInv'
  <2>1. FrontHolds => FrontHolds'
    BY <1>1, <1>2, FrontPopped
  <2>2. QED  BY <1>1, <1>2, <2>1, FrontStill
<1>9. QED  BY <1>2, <1>3, <1>4, <1>5, <1>6, <1>7, <1>8 DEF ExtensionInv

\* The alarm is set again.
LEMMA RepairStep ==
    ASSUME ExtensionInv, Repair
    PROVE  ExtensionInv'
<1>1. /\ TypeInv /\ PlanInv /\ StoryInv /\ KeptInv /\ RulesInv /\ AlarmInv /\ FrontInv
      /\ awake /\ todo # <<>> /\ Head(todo).do = "repair" /\ Then(<<>>)
      /\ UNCHANGED <<now, tab, focused, word, ignored, source, minted, replaced>>
      /\ UNCHANGED <<current, queue, received, dropped>>
  BY DEF ExtensionInv, Repair, At, browser, storage, history
<1>2. /\ Len(todo) \in Nat /\ Len(todo) > 0 /\ todo[1].do = "repair" /\ Operation(todo[1])
      /\ IsList(todo') /\ Len(todo') = Len(todo) - 1 /\ Head(todo) = todo[1]
      /\ \A i \in 1..Len(todo') :
           i + 1 \in 2..Len(todo) /\ todo'[i] = todo[i + 1] /\ Operation(todo'[i])
      /\ awake' = awake /\ chain' = chain /\ PlanInv'
      /\ \A i \in 1..Len(todo') : todo'[i].do \in Quiet
  BY <1>1, Popped
<1>20. \A i \in 2..Len(todo) : i - 1 \in 1..Len(todo') /\ todo'[i - 1] = todo[i]
  BY <1>2
<1>3. TypeInv'
  <2>1. alarm' = TRUE
    BY DEF Repair
  <2>2. QED  BY <1>1, <1>2, <2>1 DEF TypeInv
<1>4. StoryInv'
  <2>1. ~ Upcoming({"finalize", "enqueue", "send", "remove"})'
    BY <1>2 DEF Upcoming, Quiet
  <2>2. \A i \in 1..Len(todo') : \E j \in 1..Len(todo) : todo'[i] = todo[j]
    BY <1>2
  <2>3. \A c \in current : Fresh(c)
    BY <1>1, <1>2 DEF StoryInv, HandedOver, Upcoming
  <2>4. Known' = Known
    BY <1>1 DEF Known
  <2>5. QED  BY <1>1, <2>1, <2>2, <2>3, <2>4, StoryStill
<1>5. KeptInv'
  BY <1>1, <1>2 DEF KeptInv, NothingLost, Upcoming, Quiet, Known, Ids
<1>6. RulesInv'
  <2>1. RulesHold => \A c \in current : c.page.url \notin ignored
    BY <1>2 DEF RulesHold, Upcoming
  <2>2. RulesHold => RulesHold'
    BY <1>1, <1>2, <1>20, <2>1, RulesPopped
  <2>3. QED  BY <1>1, <1>2, <2>2, RulesStill
<1>7. AlarmInv'
  <2>1. alarm' = TRUE
    BY DEF Repair
  <2>2. QED  BY <2>1 DEF AlarmInv
<1>8. FrontInv'
  <2>1. ~ Closing
    BY <1>2 DEF Closing, Upcoming
  <2>2. FrontHolds => FrontHolds'
    BY <1>1, <1>2, <2>1, FrontPopped
  <2>3. QED  BY <1>1, <1>2, <2>2, FrontStill
<1>9. QED  BY <1>2, <1>3, <1>4, <1>5, <1>6, <1>7, <1>8 DEF ExtensionInv

\* The rules cover the open segment, which is left out on purpose.
LEMMA ForgetStep ==
    ASSUME ExtensionInv, Forget
    PROVE  ExtensionInv'
<1>1. /\ TypeInv /\ PlanInv /\ StoryInv /\ KeptInv /\ RulesInv /\ AlarmInv /\ FrontInv
      /\ awake /\ todo # <<>> /\ Head(todo).do = "forget" /\ Then(<<>>)
      /\ UNCHANGED <<now, tab, focused, word, ignored, source, minted, replaced>>
      /\ UNCHANGED <<queue, alarm, received>>
  BY DEF ExtensionInv, Forget, At, browser, storage, history
<1>2. /\ Len(todo) \in Nat /\ Len(todo) > 0 /\ todo[1].do = "forget" /\ Operation(todo[1])
      /\ IsList(todo') /\ Len(todo') = Len(todo) - 1 /\ Head(todo) = todo[1]
      /\ \A i \in 1..Len(todo') :
           i + 1 \in 2..Len(todo) /\ todo'[i] = todo[i + 1] /\ Operation(todo'[i])
      /\ awake' = awake /\ chain' = chain /\ PlanInv'
      /\ \A i \in 1..Len(todo') : todo'[i].do \in Quiet
  BY <1>1, Popped
<1>20. \A i \in 2..Len(todo) : i - 1 \in 1..Len(todo') /\ todo'[i - 1] = todo[i]
  BY <1>2
<1>10. /\ current' = {c \in current : c.page.url \notin todo[1].patterns}
       /\ dropped' = dropped \union Ids({c \in current : c.page.url \in todo[1].patterns})
  BY <1>2 DEF Forget, op
<1>3. TypeInv'
  <2>1. \A c \in current : c \in Segment /\ current = {c}
    BY <1>1 DEF TypeInv
  <2>2. \A c \in current' : c \in Segment /\ current' = {c}
    BY <2>1, <1>10
  <2>3. dropped' \in SUBSET Nat
    BY <1>1, <1>10, <2>1 DEF TypeInv, Ids, Segment
  <2>4. QED  BY <1>1, <1>2, <2>2, <2>3 DEF TypeInv
<1>4. StoryInv'
  <2>1. ~ Upcoming({"finalize", "enqueue", "send", "remove"})'
    BY <1>2 DEF Upcoming, Quiet
  <2>2. \A i \in 1..Len(todo') : \E j \in 1..Len(todo) : todo'[i] = todo[j]
    BY <1>2
  <2>3. \A c \in current : Fresh(c)
    BY <1>1, <1>2 DEF StoryInv, HandedOver, Upcoming
  <2>4. Known' = Known
    BY <1>1 DEF Known
  <2>5. \A c \in current' : c \in current
    BY <1>10
  <2>6. QED  BY <1>1, <2>1, <2>2, <2>3, <2>4, <2>5, StoryStill
<1>5. KeptInv'
  <2>1. Ids(current) \subseteq Ids(current') \union dropped'
    BY <1>10 DEF Ids
  <2>2. dropped \subseteq dropped'
    BY <1>10
  <2>3. QED  BY <1>1, <1>2, <2>1, <2>2 DEF KeptInv, NothingLost, Upcoming, Quiet, Known
<1>6. RulesInv'
  <2>1. RulesHold => \A c \in current' : c.page.url \notin ignored
    BY <1>1, <1>2, <1>10 DEF RulesHold
  <2>2. RulesHold => RulesHold'
    BY <1>1, <1>2, <1>20, <2>1 DEF RulesHold, Upcoming, Quiet
  <2>3. QED  BY <1>1, <1>2, <2>2, RulesStill
<1>7. AlarmInv'
  BY <1>1, <1>2, <1>10, <1>20 DEF AlarmInv, Closing, Upcoming
<1>8. FrontInv'
  <2>1. ~ Closing
    BY <1>2 DEF Closing, Upcoming
  <2>2. FrontHolds => FrontHolds'
    BY <1>1, <1>2, <1>10, <2>1, FrontPopped
  <2>3. QED  BY <1>1, <1>2, <2>2, FrontStill
<1>9. QED  BY <1>2, <1>3, <1>4, <1>5, <1>6, <1>7, <1>8 DEF ExtensionInv

\* The rules cover queued records, which are left out on purpose.
LEMMA PurgeStep ==
    ASSUME ExtensionInv, Purge
    PROVE  ExtensionInv'
<1>1. /\ TypeInv /\ PlanInv /\ StoryInv /\ KeptInv /\ RulesInv /\ AlarmInv /\ FrontInv
      /\ awake /\ todo # <<>> /\ Head(todo).do = "purge" /\ Then(<<>>)
      /\ UNCHANGED <<now, tab, focused, word, ignored, source, minted, replaced>>
      /\ UNCHANGED <<current, alarm, received>>
  BY DEF ExtensionInv, Purge, At, browser, storage, history
<1>2. /\ Len(todo) \in Nat /\ Len(todo) > 0 /\ todo[1].do = "purge" /\ Operation(todo[1])
      /\ IsList(todo') /\ Len(todo') = Len(todo) - 1 /\ Head(todo) = todo[1]
      /\ \A i \in 1..Len(todo') :
           i + 1 \in 2..Len(todo) /\ todo'[i] = todo[i + 1] /\ Operation(todo'[i])
      /\ awake' = awake /\ chain' = chain /\ PlanInv'
      /\ \A i \in 1..Len(todo') : todo'[i].do \in Quiet
  BY <1>1, Popped
<1>20. \A i \in 2..Len(todo) : i - 1 \in 1..Len(todo') /\ todo'[i - 1] = todo[i]
  BY <1>2
<1>10. /\ queue' = filterIgnored(queue, todo[1].patterns)
       /\ dropped' = dropped \union (Ids(ToSet(queue)) \ Ids(ToSet(queue')))
  BY <1>2 DEF Purge, op
<1>11. /\ queue' \in Seq(Record) /\ Len(queue') <= Len(queue)
       /\ ToSet(queue') = {r \in ToSet(queue) : r.page.url \notin todo[1].patterns}
  BY <1>1, <1>10, Filtered DEF TypeInv
<1>3. TypeInv'
  <2>1. Ids(ToSet(queue)) \subseteq Nat
    BY <1>1, SeqMembers DEF TypeInv
  <2>2. QED  BY <1>1, <1>2, <1>10, <1>11, <2>1 DEF TypeInv
<1>4. StoryInv'
  <2>1. ~ Upcoming({"finalize", "enqueue", "send", "remove"})'
    BY <1>2 DEF Upcoming, Quiet
  <2>2. \A i \in 1..Len(todo') : \E j \in 1..Len(todo) : todo'[i] = todo[j]
    BY <1>2
  <2>3. \A c \in current : Fresh(c)
    BY <1>1, <1>2 DEF StoryInv, HandedOver, Upcoming
  <2>4. Known' \subseteq Known
    BY <1>1, <1>11 DEF Known
  <2>5. QED  BY <1>1, <2>1, <2>2, <2>3, <2>4, StoryStill
<1>5. KeptInv'
  <2>1. Ids(ToSet(queue)) \subseteq Ids(ToSet(queue')) \union dropped' /\ dropped \subseteq dropped'
    BY <1>10
  <2>2. Len(queue') <= QUEUE_LIMIT
    BY <1>1, <1>11, Numbers DEF KeptInv, NothingLost, TypeInv
  <2>3. 1..minted \subseteq
          Ids(current) \union Ids(ToSet(queue')) \union Ids(received) \union dropped' \union replaced
    BY <1>1, <2>1 DEF KeptInv, NothingLost
  <2>4. QED  BY <1>1, <1>2, <2>2, <2>3 DEF KeptInv, NothingLost, Upcoming, Quiet
<1>6. RulesInv'
  <2>1. RulesHold => \A r \in ToSet(queue') : r.page.url \notin ignored
    BY <1>1, <1>2, <1>11 DEF RulesHold
  <2>2. RulesHold => RulesHold'
    BY <1>1, <1>2, <1>20, <2>1 DEF RulesHold, Upcoming, Quiet
  <2>3. QED  BY <1>1, <1>2, <2>2, RulesStill
<1>7. AlarmInv'
  BY <1>1, <1>2, <1>20 DEF AlarmInv, Closing, Upcoming
<1>8. FrontInv'
  <2>1. ~ Closing
    BY <1>2 DEF Closing, Upcoming
  <2>2. FrontHolds => FrontHolds'
    BY <1>1, <1>2, <2>1, FrontPopped
  <2>3. QED  BY <1>1, <1>2, <2>2, FrontStill
<1>9. QED  BY <1>2, <1>3, <1>4, <1>5, <1>6, <1>7, <1>8 DEF ExtensionInv

\* What leaves the queue with a batch has been received: no other record has its key.
LEMMA RemoveSentStep ==
    ASSUME ExtensionInv, RemoveSent
    PROVE  ExtensionInv'
<1>1. /\ TypeInv /\ PlanInv /\ StoryInv /\ KeptInv /\ RulesInv /\ AlarmInv /\ FrontInv
      /\ awake /\ todo # <<>> /\ Head(todo).do = "remove" /\ Then(<<>>)
      /\ UNCHANGED <<now, tab, focused, word, ignored, source, minted, replaced>>
      /\ UNCHANGED <<current, alarm, received, dropped>>
  BY DEF ExtensionInv, RemoveSent, At, browser, storage, history
<1>2. /\ Len(todo) \in Nat /\ Len(todo) > 0 /\ todo[1].do = "remove" /\ Operation(todo[1])
      /\ IsList(todo') /\ Len(todo') = Len(todo) - 1 /\ Head(todo) = todo[1]
      /\ \A i \in 1..Len(todo') :
           i + 1 \in 2..Len(todo) /\ todo'[i] = todo[i + 1] /\ Operation(todo'[i])
      /\ awake' = awake /\ chain' = chain /\ PlanInv'
      /\ \A i \in 1..Len(todo') : todo'[i].do \in Quiet
  BY <1>1, Popped
<1>20. \A i \in 2..Len(todo) : i - 1 \in 1..Len(todo') /\ todo'[i - 1] = todo[i]
  BY <1>2
<1>10. queue' = removeDelivered(queue, todo[1].batch)
  BY <1>2 DEF RemoveSent, op
<1>11. /\ queue' \in Seq(Record) /\ Len(queue') <= Len(queue)
       /\ ToSet(queue') =
            {r \in ToSet(queue) : recordKey(r) \notin {recordKey(s) : s \in todo[1].batch}}
  <2> DEFINE K == {i \in DOMAIN queue :
                     recordKey(queue[i]) \notin {recordKey(s) : s \in todo[1].batch}}
  <2>1. queue \in Seq(Record) /\ DOMAIN queue = 1..Len(queue)
    BY <1>1 DEF TypeInv
  <2>2. K \in SUBSET (1..Len(queue)) /\ queue' = Entries(queue, K)
    BY <1>10, <2>1 DEF removeDelivered
  <2>3. {queue[i] : i \in K} =
          {r \in ToSet(queue) : recordKey(r) \notin {recordKey(s) : s \in todo[1].batch}}
    BY DEF ToSet
  <2> HIDE DEF K
  <2>4. QED  BY <2>1, <2>2, <2>3, EntriesKept
<1>3. TypeInv'
  BY <1>1, <1>2, <1>11 DEF TypeInv
<1>4. StoryInv'
  <2>1. ~ Upcoming({"finalize", "enqueue", "send", "remove"})'
    BY <1>2 DEF Upcoming, Quiet
  <2>2. \A i \in 1..Len(todo') : \E j \in 1..Len(todo) : todo'[i] = todo[j]
    BY <1>2
  <2>3. \A c \in current : Fresh(c)
    BY <1>1, <1>2 DEF StoryInv, HandedOver, Upcoming
  <2>4. Known' \subseteq Known
    BY <1>1, <1>11 DEF Known
  <2>5. QED  BY <1>1, <2>1, <2>2, <2>3, <2>4, StoryStill
<1>5. KeptInv'
  <2>1. \A r \in ToSet(queue) : r \in ToSet(queue') \/ r \in received
    <3>1. TAKE r \in ToSet(queue)
    <3>2. CASE \A s \in todo[1].batch : recordKey(r) # recordKey(s)
      BY <1>11, <3>2
    <3>3. CASE \E s \in todo[1].batch : recordKey(r) = recordKey(s)
      <4>1. PICK s \in todo[1].batch : recordKey(r) = recordKey(s)
        BY <3>3
      <4>2. s \in received /\ r \in Known /\ s \in Known
        BY <1>1, <1>2 DEF StoryInv, Upcoming, Known
      <4>3. r \in Record /\ s \in Record
        BY <1>1, <4>2 DEF TypeInv, ToSet
      <4>4. r.start = s.start
        BY <4>1 DEF recordKey
      <4>5. /\ r.start + MIN_DURATION <= r.end /\ s.start + MIN_DURATION <= s.end
            /\ r = s \/ r.end <= s.start \/ s.end <= r.start
        BY <1>1, <4>2 DEF StoryInv, OneStory, Known
      <4>6. r.start \in Nat /\ r.end \in Nat /\ s.start \in Nat /\ s.end \in Nat
        BY <4>3 DEF Record
      <4>7. r = s
        BY <4>4, <4>5, <4>6, Numbers
      <4>8. QED  BY <4>2, <4>7
    <3>4. QED  BY <3>2, <3>3
  <2>2. Ids(ToSet(queue)) \subseteq Ids(ToSet(queue')) \union Ids(received)
    BY <2>1 DEF Ids
  <2>3. Len(queue') <= QUEUE_LIMIT
    BY <1>1, <1>11, Numbers DEF KeptInv, NothingLost, TypeInv
  <2>4. 1..minted \subseteq
          Ids(current) \union Ids(ToSet(queue')) \union Ids(received) \union dropped \union replaced
    BY <1>1, <2>2 DEF KeptInv, NothingLost
  <2>5. QED  BY <1>1, <1>2, <2>3, <2>4 DEF KeptInv, NothingLost, Upcoming, Quiet
<1>6. RulesInv'
  <2>1. ToSet(queue') \subseteq ToSet(queue)
    BY <1>11
  <2>2. RulesHold => \A c \in current : c.page.url \notin ignored
    BY <1>2 DEF RulesHold, Upcoming
  <2>3. RulesHold => RulesHold'
    BY <1>1, <1>2, <1>20, <2>1, <2>2, RulesPopped
  <2>4. QED  BY <1>1, <1>2, <2>3, RulesStill
<1>7. AlarmInv'
  <2>1. ASSUME current # {}, ~alarm
        PROVE  \E i \in 1..Len(todo') : todo'[i].do = "repair"
    <3>1. PICK j \in 1..Len(todo) : todo[j].do = "repair"
      BY <1>1, <1>2, <2>1 DEF AlarmInv, Closing, Upcoming
    <3>2. j \in 2..Len(todo)
      BY <1>2, <3>1
    <3>3. QED  BY <1>20, <3>1, <3>2
  <2>2. QED  BY <1>1, <2>1 DEF AlarmInv
<1>8. FrontInv'
  <2>1. ~ Closing
    BY <1>2 DEF Closing, Upcoming
  <2>2. FrontHolds => FrontHolds'
    BY <1>1, <1>2, <2>1, FrontPopped
  <2>3. QED  BY <1>1, <1>2, <2>2, FrontStill
<1>9. QED  BY <1>2, <1>3, <1>4, <1>5, <1>6, <1>7, <1>8 DEF ExtensionInv

\* The request changes what the daemon has, not what is known.
LEMMA SendStep ==
    ASSUME ExtensionInv, Send
    PROVE  ExtensionInv'
<1>1. /\ TypeInv /\ PlanInv /\ StoryInv /\ KeptInv /\ RulesInv /\ AlarmInv /\ FrontInv
      /\ awake /\ todo # <<>> /\ Head(todo).do = "send"
      /\ UNCHANGED <<now, tab, focused, word, ignored, source, minted, replaced>>
      /\ UNCHANGED <<queue, current, alarm, dropped>>
  BY DEF ExtensionInv, Send, At, browser, storage
<1>2. Len(todo) \in Nat /\ Len(todo) > 0 /\ Head(todo) = todo[1] /\ Operation(todo[1])
  BY <1>1, RestOfList DEF TypeInv
<1>3. todo[1].batch \in SUBSET Record /\ todo[1].batch \subseteq Known
  BY <1>1, <1>2 DEF Operation, StoryInv, Upcoming
<1>4. /\ Known' = Known /\ received \subseteq received' /\ received' \in SUBSET Record
      /\ \/ Then(<<>>)
         \/ Then(<<remove(todo[1].batch)>>) /\ todo[1].batch \subseteq received'
  <2>1. received' = received \/ received' = received \union todo[1].batch
    BY <1>2 DEF Send, op
  <2>2. Known' = Known /\ received \subseteq received'
    BY <1>1, <1>3, <2>1 DEF Known
  <2>3. received' \in SUBSET Record
    BY <1>1, <1>3, <2>1 DEF TypeInv
  <2>4. \/ Then(<<>>)
        \/ Then(<<remove(todo[1].batch)>>) /\ todo[1].batch \subseteq received'
    BY <1>2 DEF Send, op
  <2>5. QED  BY <2>2, <2>3, <2>4
<1>5. /\ IsList(todo') /\ awake' = awake /\ chain' = chain /\ PlanInv'
      /\ Len(todo') > 0 => 1 \in 1..Len(todo')
      /\ \A i \in 1..Len(todo') : Operation(todo'[i])
      /\ \A i \in 1..Len(todo') :
           \/ todo'[i].do \in Quiet /\ \E j \in 2..Len(todo) : todo'[i] = todo[j]
           \/ i = 1 /\ todo'[1] = remove(todo[1].batch) /\ todo[1].batch \subseteq received'
      /\ \A j \in 2..Len(todo) : \E i \in 1..Len(todo') : todo'[i] = todo[j]
  <2>1. CASE Then(<<>>)
    <3>1. Operation(deliver) /\ deliver.do = "deliver"
      BY DEF Operation, deliver
    <3>2. QED  BY <1>1, <2>1, <3>1, Popped, Taken
  <2>2. CASE Then(<<remove(todo[1].batch)>>) /\ todo[1].batch \subseteq received'
    <3>1. Operation(remove(todo[1].batch)) /\ remove(todo[1].batch).do = "remove"
      BY <1>3 DEF Operation, remove
    <3>2. QED  BY <1>1, <2>2, <3>1, Taken
  <2>3. QED  BY <1>4, <2>1, <2>2
<1>50. remove(todo[1].batch).do = "remove" /\ remove(todo[1].batch).batch = todo[1].batch
  BY DEF remove
<1>6. TypeInv'
  BY <1>1, <1>4, <1>5 DEF TypeInv
<1>7. StoryInv'
  <2>1. ~ Upcoming({"finalize", "enqueue"})'
    BY <1>5, <1>50 DEF Upcoming, Quiet
  <2>2. \A i \in 1..Len(todo') : todo'[i].do \in Begins => \E j \in 1..Len(todo) : todo'[i] = todo[j]
    BY <1>2, <1>5, <1>50 DEF Begins
  <2>3. \A i \in 1..Len(todo') : todo'[i].do \in Begins =>
          todo'[i].at <= now /\ EndedBy(todo'[i].at)
    BY <1>1, <2>2, PlannedBegins
  <2>4. \A c \in current : Fresh(c)
    BY <1>1, <1>2 DEF StoryInv, HandedOver, Upcoming
  <2>5. Upcoming({"send", "remove"})' => todo'[1].batch \subseteq received'
    BY <1>5, <1>50 DEF Upcoming, Quiet
  <2>6. Upcoming({"send", "remove"})' => todo'[1].batch \subseteq Known'
    BY <2>5 DEF Known
  <2>7. Upcoming({"remove"})' => todo'[1].batch \subseteq received'
    BY <2>5 DEF Upcoming
  <2>8. QED  BY <1>1, <1>4, <2>1, <2>3, <2>4, <2>6, <2>7, StoryKept
<1>8. KeptInv'
  <2>1. Ids(received) \subseteq Ids(received')
    BY <1>4 DEF Ids
  <2>2. ~ Upcoming({"clear"})'
    BY <1>5, <1>50 DEF Upcoming, Quiet
  <2>3. QED  BY <1>1, <2>1, <2>2 DEF KeptInv, NothingLost, Upcoming
<1>9. RulesInv'
  <2>1. ASSUME RulesHold
        PROVE  RulesHold'
    <3>1. \A c \in current : c.page.url \notin ignored
      BY <1>2, <1>1, <2>1 DEF RulesHold, Upcoming
    <3>2. ASSUME \E r \in ToSet(queue) : r.page.url \in ignored
          PROVE  \E i \in 1..Len(todo') : todo'[i].do \in {"resolve", "deliver", "purge"}
      <4>1. PICK j \in 1..Len(todo) : todo[j].do \in {"resolve", "deliver", "purge"}
        BY <2>1, <3>2 DEF RulesHold
      <4>2. j \in 2..Len(todo)
        BY <1>1, <1>2, <4>1
      <4>3. QED  BY <1>5, <4>1, <4>2
    <3>3. ~ Upcoming({"enqueue", "write"})'
      BY <1>5, <1>50 DEF Upcoming, Quiet
    <3>4. \A i \in 1..Len(todo') :
            todo'[i].do \in {"forget", "purge"} => todo'[i].patterns = ignored
      <4>1. TAKE i \in 1..Len(todo')
      <4>2. HAVE todo'[i].do \in {"forget", "purge"}
      <4>3. PICK j \in 2..Len(todo) : todo'[i] = todo[j]
        BY <1>5, <1>50, <4>2
      <4>4. j \in 1..Len(todo)
        BY <1>2
      <4>5. QED  BY <2>1, <4>2, <4>3, <4>4 DEF RulesHold
    <3>5. QED  BY <1>1, <3>1, <3>2, <3>3, <3>4 DEF RulesHold, Upcoming
  <2>2. QED  BY <1>1, <1>5, <2>1, RulesStill
<1>10. AlarmInv'
  BY <1>1, <1>2, <1>5 DEF AlarmInv, Closing, Upcoming
<1>11. FrontInv'
  <2>1. ASSUME FrontHolds
        PROVE  FrontHolds'
    <3>1. ~Closing /\ Shows' = Shows
      BY <1>1, <1>2, <1>5 DEF Closing, Upcoming, Shows, Waiting
    <3>2. (\A c \in current : focused /\ (Shows = {} => SamePlace(c.page, tab)))'
      BY <1>1, <2>1, <3>1 DEF FrontHolds
    <3>3. \A i \in 1..Len(todo') : todo'[i].do \in {"start", "open", "write"} =>
            focused /\ (Shows = {} => todo'[i].page = tab)
      <4>1. TAKE i \in 1..Len(todo')
      <4>2. HAVE todo'[i].do \in {"start", "open", "write"}
      <4>3. todo'[i].do # "remove"
        BY <4>2
      <4>4. PICK j \in 2..Len(todo) : todo'[i] = todo[j]
        BY <1>5, <1>50, <4>3
      <4>5. j \in 1..Len(todo)
        BY <1>2
      <4>6. QED  BY <2>1, <4>2, <4>4, <4>5 DEF FrontHolds
    <3>4. QED  BY <1>1, <3>1, <3>2, <3>3 DEF FrontHolds
  <2>2. QED  BY <1>1, <1>5, <2>1, FrontStill
<1>12. QED  BY <1>5, <1>6, <1>7, <1>8, <1>9, <1>10, <1>11 DEF ExtensionInv

\* Delivery leaves out what the rules cover and sends what is left.
LEMMA DeliverStep ==
    ASSUME ExtensionInv, Deliver
    PROVE  ExtensionInv'
<1>1. /\ TypeInv /\ PlanInv /\ StoryInv /\ KeptInv /\ RulesInv /\ AlarmInv /\ FrontInv
      /\ awake /\ todo # <<>> /\ Head(todo).do = "deliver"
      /\ UNCHANGED <<now, tab, focused, word, ignored, source, minted, replaced>>
      /\ UNCHANGED <<current, alarm, received>>
  BY DEF ExtensionInv, Deliver, At, browser, storage
<1>2. Len(todo) \in Nat /\ Len(todo) > 0 /\ Head(todo) = todo[1] /\ Operation(todo[1])
  BY <1>1, RestOfList DEF TypeInv
<1>3. /\ queue' = filterIgnored(queue, ignored)
      /\ dropped' = dropped \union (Ids(ToSet(queue)) \ Ids(ToSet(queue')))
      /\ Then(<<>>) \/ Then(<<send(ToSet(queue'))>>)
  BY <1>1 DEF Deliver
<1>4. /\ queue' \in Seq(Record) /\ Len(queue') <= Len(queue)
      /\ ToSet(queue') = {r \in ToSet(queue) : r.page.url \notin ignored}
      /\ ToSet(queue') \subseteq Record /\ Ids(ToSet(queue)) \subseteq Nat
      /\ Known' \subseteq Known /\ ToSet(queue') \subseteq Known'
  <2>1. /\ queue' \in Seq(Record) /\ Len(queue') <= Len(queue)
        /\ ToSet(queue') = {r \in ToSet(queue) : r.page.url \notin ignored}
    BY <1>1, <1>3, Filtered DEF TypeInv
  <2>2. ToSet(queue') \subseteq Record /\ Ids(ToSet(queue)) \subseteq Nat
    BY <1>1, <2>1, SeqMembers DEF TypeInv
  <2>3. Known' \subseteq Known /\ ToSet(queue') \subseteq Known'
    BY <1>1, <2>1 DEF Known
  <2>4. QED  BY <2>1, <2>2, <2>3
<1>50. /\ send(ToSet(queue')).do = "send" /\ send(ToSet(queue')).batch = ToSet(queue')
       /\ Operation(send(ToSet(queue')))
  BY <1>4 DEF send, Operation
<1>5. /\ IsList(todo') /\ awake' = awake /\ chain' = chain /\ PlanInv'
      /\ Len(todo') > 0 => 1 \in 1..Len(todo')
      /\ \A i \in 1..Len(todo') : Operation(todo'[i])
      /\ \A i \in 1..Len(todo') :
           \/ todo'[i].do \in Quiet /\ \E j \in 2..Len(todo) : todo'[i] = todo[j]
           \/ i = 1 /\ todo'[1] = send(ToSet(queue'))
      /\ \A j \in 2..Len(todo) : \E i \in 1..Len(todo') : todo'[i] = todo[j]
  <2>1. send(ToSet(queue')).do \notin {"enqueue", "resolve"} /\ Head(todo).do # "enqueue"
    BY <1>1, <1>50
  <2>2. QED  BY <1>1, <1>3, <1>50, <2>1, Taken
<1>6. TypeInv'
  BY <1>1, <1>3, <1>4, <1>5 DEF TypeInv
<1>7. StoryInv'
  <2>1. ~ Upcoming({"finalize", "enqueue"})'
    BY <1>5, <1>50 DEF Upcoming, Quiet
  <2>2. \A i \in 1..Len(todo') : todo'[i].do \in Begins => \E j \in 1..Len(todo) : todo'[i] = todo[j]
    BY <1>2, <1>5, <1>50 DEF Begins
  <2>3. \A i \in 1..Len(todo') : todo'[i].do \in Begins =>
          todo'[i].at <= now /\ EndedBy(todo'[i].at)
    BY <1>1, <2>2, PlannedBegins
  <2>4. \A c \in current : Fresh(c)
    BY <1>1, <1>2 DEF StoryInv, HandedOver, Upcoming
  <2>5. Upcoming({"send", "remove"})' => todo'[1].batch \subseteq Known'
    BY <1>4, <1>5, <1>50 DEF Upcoming, Quiet
  <2>6. ~ Upcoming({"remove"})'
    BY <1>5, <1>50 DEF Upcoming, Quiet
  <2>7. QED  BY <1>1, <1>4, <2>1, <2>3, <2>4, <2>5, <2>6, StoryKept
<1>8. KeptInv'
  <2>1. Ids(ToSet(queue)) \subseteq Ids(ToSet(queue')) \union dropped' /\ dropped \subseteq dropped'
    BY <1>3
  <2>2. Len(queue') <= QUEUE_LIMIT
    BY <1>1, <1>4, Numbers DEF KeptInv, NothingLost, TypeInv
  <2>3. 1..minted \subseteq
          Ids(current) \union Ids(ToSet(queue')) \union Ids(received) \union dropped' \union replaced
    BY <1>1, <2>1 DEF KeptInv, NothingLost
  <2>4. ~ Upcoming({"clear"})'
    BY <1>5, <1>50 DEF Upcoming, Quiet
  <2>5. QED  BY <1>1, <2>2, <2>3, <2>4 DEF KeptInv, NothingLost, Upcoming
<1>9. RulesInv'
  <2>1. ASSUME RulesHold
        PROVE  RulesHold'
    <3>1. \A c \in current : c.page.url \notin ignored
      BY <1>2, <1>1, <2>1 DEF RulesHold, Upcoming
    <3>2. \A r \in ToSet(queue') : r.page.url \notin ignored
      BY <1>4
    <3>3. ~ Upcoming({"enqueue", "write"})'
      BY <1>5, <1>50 DEF Upcoming, Quiet
    <3>4. \A i \in 1..Len(todo') :
            todo'[i].do \in {"forget", "purge"} => todo'[i].patterns = ignored
      <4>1. TAKE i \in 1..Len(todo')
      <4>2. HAVE todo'[i].do \in {"forget", "purge"}
      <4>3. PICK j \in 2..Len(todo) : todo'[i] = todo[j]
        BY <1>5, <1>50, <4>2
      <4>4. j \in 1..Len(todo)
        BY <1>2
      <4>5. QED  BY <2>1, <4>2, <4>3, <4>4 DEF RulesHold
    <3>5. QED  BY <1>1, <3>1, <3>2, <3>3, <3>4 DEF RulesHold, Upcoming
  <2>2. QED  BY <1>1, <1>5, <2>1, RulesStill
<1>10. AlarmInv'
  BY <1>1, <1>2, <1>5 DEF AlarmInv, Closing, Upcoming
<1>11. FrontInv'
  <2>1. ASSUME FrontHolds
        PROVE  FrontHolds'
    <3>1. ~Closing /\ Shows' = Shows
      BY <1>1, <1>2, <1>5 DEF Closing, Upcoming, Shows, Waiting
    <3>2. (\A c \in current : focused /\ (Shows = {} => SamePlace(c.page, tab)))'
      BY <1>1, <2>1, <3>1 DEF FrontHolds
    <3>3. \A i \in 1..Len(todo') : todo'[i].do \in {"start", "open", "write"} =>
            focused /\ (Shows = {} => todo'[i].page = tab)
      <4>1. TAKE i \in 1..Len(todo')
      <4>2. HAVE todo'[i].do \in {"start", "open", "write"}
      <4>3. todo'[i].do # "send"
        BY <4>2
      <4>4. PICK j \in 2..Len(todo) : todo'[i] = todo[j]
        BY <1>5, <1>50, <4>3
      <4>5. j \in 1..Len(todo)
        BY <1>2
      <4>6. QED  BY <2>1, <4>2, <4>4, <4>5 DEF FrontHolds
    <3>4. QED  BY <1>1, <3>1, <3>2, <3>3 DEF FrontHolds
  <2>2. QED  BY <1>1, <1>5, <2>1, FrontStill
<1>12. QED  BY <1>5, <1>6, <1>7, <1>8, <1>9, <1>10, <1>11 DEF ExtensionInv

\* A segment is planned that begins after all that is known, for the page in front,
\* or none is.
LEMMA BeginPlanned ==
    ASSUME ExtensionInv, awake, todo # <<>>, Head(todo).do \in {"start", "seed", "open"},
           NEW x, Operation(x), x.do \in {"open", "write"}, x.at <= now, EndedBy(x.at),
           \/ Then(<<>>)
           \/ /\ Then(<<x>>)
              /\ Turns = {} => focused /\ (Shows = {} => x.page = tab)
              /\ x.do = "write" => x.page.url \notin ignored,
           UNCHANGED <<browser, queue, current, alarm, history>>
    PROVE  ExtensionInv'
<1>1. /\ TypeInv /\ PlanInv /\ StoryInv /\ KeptInv /\ RulesInv /\ AlarmInv /\ FrontInv
      /\ Then(<<>>) \/ Then(<<x>>)
      /\ UNCHANGED <<now, tab, focused, word, ignored, queue, current, alarm>>
      /\ UNCHANGED <<minted, received, dropped, replaced>>
  BY DEF ExtensionInv, browser, history
<1>2. Len(todo) \in Nat /\ Len(todo) > 0 /\ Head(todo) = todo[1] /\ Operation(todo[1])
  BY <1>1, RestOfList DEF TypeInv
<1>3. todo[1].do \in {"start", "seed", "open"}
  BY <1>2
<1>5. /\ IsList(todo') /\ awake' = awake /\ chain' = chain /\ PlanInv'
      /\ Len(todo') > 0 => 1 \in 1..Len(todo')
      /\ \A i \in 1..Len(todo') : Operation(todo'[i])
      /\ \A i \in 1..Len(todo') :
           \/ todo'[i].do \in Quiet /\ \E j \in 2..Len(todo) : todo'[i] = todo[j]
           \/ i = 1 /\ todo'[1] = x /\ Then(<<x>>)
      /\ \A j \in 2..Len(todo) : \E i \in 1..Len(todo') : todo'[i] = todo[j]
  BY <1>1, Taken
<1>4. Then(<<x>>) => /\ Turns = {} => focused /\ (Shows = {} => x.page = tab)
                     /\ x.do = "write" => x.page.url \notin ignored
  <2>1. ASSUME Then(<<x>>)
        PROVE  ~ Then(<<>>)
    <3>1. Then(<<>>) => Len(todo') = Len(todo) - 1
      BY <1>1, Popped
    <3>2. Len(todo') = Len(todo)
      BY <1>1, <2>1, Pushed
    <3>3. QED  BY <1>2, <3>1, <3>2
  <2>2. QED  BY <2>1
<1>6. TypeInv'
  BY <1>1, <1>5 DEF TypeInv
<1>7. StoryInv'
  <2>1. ~ Upcoming({"finalize", "enqueue"})' /\ ~ Upcoming({"send", "remove"})'
          /\ ~ Upcoming({"remove"})'
    BY <1>5 DEF Upcoming, Quiet
  <2>2. \A i \in 1..Len(todo') : todo'[i].do \in Begins =>
          todo'[i].at <= now /\ EndedBy(todo'[i].at)
    <3>1. TAKE i \in 1..Len(todo')
    <3>2. HAVE todo'[i].do \in Begins
    <3>3. CASE todo'[i] = x
      BY <3>3
    <3>4. CASE \E j \in 2..Len(todo) : todo'[i] = todo[j]
      <4>1. PICK j \in 2..Len(todo) : todo'[i] = todo[j]
        BY <3>4
      <4>2. j \in 1..Len(todo)
        BY <1>2
      <4>3. QED  BY <1>1, <3>2, <4>1, <4>2, PlannedBegins
    <3>5. QED  BY <1>5, <3>3, <3>4
  <2>3. \A c \in current : Fresh(c)
    BY <1>1, <1>2, <1>3 DEF StoryInv, HandedOver, Upcoming
  <2>4. Known' = Known
    BY <1>1 DEF Known
  <2>5. QED  BY <1>1, <2>1, <2>2, <2>3, <2>4, StoryKept
<1>8. KeptInv'
  <2>1. ~ Upcoming({"clear"})'
    BY <1>5 DEF Upcoming, Quiet
  <2>2. QED  BY <1>1, <2>1 DEF KeptInv, NothingLost, Upcoming
<1>9. RulesInv'
  <2>1. ASSUME RulesHold, Waiting({"rules"}) = {}
        PROVE  RulesHold'
    <3>1. \A c \in current : c.page.url \notin ignored
      BY <1>2, <1>3, <2>1 DEF RulesHold, Upcoming
    <3>2. ASSUME \E r \in ToSet(queue) : r.page.url \in ignored
          PROVE  \E i \in 1..Len(todo') : todo'[i].do \in {"resolve", "deliver", "purge"}
      <4>1. PICK j \in 1..Len(todo) : todo[j].do \in {"resolve", "deliver", "purge"}
        BY <2>1, <3>2 DEF RulesHold
      <4>2. j \in 2..Len(todo)
        BY <1>3, <1>2, <4>1
      <4>3. QED  BY <1>5, <4>1, <4>2
    <3>3. ~ Upcoming({"enqueue"})' /\ (Upcoming({"write"})' => todo'[1].page.url \notin ignored)
      BY <1>4, <1>5 DEF Upcoming, Quiet
    <3>4. \A i \in 1..Len(todo') :
            todo'[i].do \in {"forget", "purge"} => todo'[i].patterns = ignored
      <4>1. TAKE i \in 1..Len(todo')
      <4>2. HAVE todo'[i].do \in {"forget", "purge"}
      <4>3. PICK j \in 2..Len(todo) : todo'[i] = todo[j]
        BY <1>5, <4>2
      <4>4. j \in 1..Len(todo)
        BY <1>2
      <4>5. QED  BY <2>1, <4>2, <4>3, <4>4 DEF RulesHold
    <3>5. QED  BY <1>1, <3>1, <3>2, <3>3, <3>4 DEF RulesHold, Upcoming
  <2>2. Waiting({"rules"})' = Waiting({"rules"})
    BY <1>5 DEF Waiting
  <2>3. QED  BY <1>1, <1>5, <2>1, <2>2 DEF RulesInv, IsLast
<1>10. AlarmInv'
  <2>1. ASSUME current # {}, ~alarm
        PROVE  \E i \in 1..Len(todo') : todo'[i].do = "repair"
    <3>1. PICK j \in 1..Len(todo) : todo[j].do = "repair"
      BY <1>1, <1>2, <1>3, <2>1 DEF AlarmInv, Closing, Upcoming
    <3>2. j \in 2..Len(todo)
      BY <1>2, <1>3, <3>1
    <3>3. QED  BY <1>5, <3>1, <3>2
  <2>2. QED  BY <1>1, <2>1 DEF AlarmInv
<1>11. FrontInv'
  <2>1. Turns' = Turns /\ Shows' = Shows
    BY <1>5 DEF Turns, Shows, Waiting
  <2>2. ASSUME FrontHolds, Turns = {}
        PROVE  FrontHolds'
    <3>1. ~Closing
      BY <1>2, <1>3 DEF Closing, Upcoming
    <3>2. (\A c \in current : focused /\ (Shows = {} => SamePlace(c.page, tab)))'
      BY <1>1, <2>1, <2>2, <3>1 DEF FrontHolds
    <3>3. \A i \in 1..Len(todo') : todo'[i].do \in {"start", "open", "write"} =>
            focused /\ (Shows = {} => todo'[i].page = tab)
      <4>1. TAKE i \in 1..Len(todo')
      <4>2. HAVE todo'[i].do \in {"start", "open", "write"}
      <4>3. CASE i = 1 /\ todo'[1] = x /\ Then(<<x>>)
        BY <1>4, <2>2, <4>3
      <4>4. CASE \E j \in 2..Len(todo) : todo'[i] = todo[j]
        <5>1. PICK j \in 2..Len(todo) : todo'[i] = todo[j]
          BY <4>4
        <5>2. j \in 1..Len(todo)
          BY <1>2
        <5>3. QED  BY <2>2, <4>2, <5>1, <5>2 DEF FrontHolds
      <4>5. QED  BY <1>5, <4>3, <4>4
    <3>4. QED  BY <1>1, <2>1, <3>2, <3>3 DEF FrontHolds
  <2>3. QED  BY <1>1, <1>5, <2>1, <2>2 DEF FrontInv, IsLast
<1>12. QED  BY <1>5, <1>6, <1>7, <1>8, <1>9, <1>10, <1>11 DEF ExtensionInv

\* All that is known has ended by now.
LEMMA EndedByNow ==
    ASSUME StoryInv
    PROVE  EndedBy(now)
  BY DEF StoryInv, OneStory, EndedBy, Known

\* A page that was planned begins when it was planned to.
LEMMA StartStep ==
    ASSUME ExtensionInv, Start
    PROVE  ExtensionInv'
<1>1. /\ TypeInv /\ StoryInv /\ FrontInv /\ awake /\ todo # <<>> /\ Head(todo).do = "start"
      /\ Then(<<>>) \/ Then(<<open(Head(todo).page, Head(todo).at)>>)
      /\ UNCHANGED <<browser, queue, current, alarm, history>>
  BY DEF ExtensionInv, Start, At, op
<1>2. /\ Len(todo) \in Nat /\ Len(todo) > 0 /\ Head(todo) = todo[1] /\ Operation(todo[1])
      /\ 1 \in 1..Len(todo)
  BY <1>1, RestOfList DEF TypeInv
<1> DEFINE x == open(todo[1].page, todo[1].at)
<1>3. Operation(x) /\ x.do = "open" /\ x.at = todo[1].at /\ x.page = todo[1].page
  BY <1>1, <1>2 DEF Operation, open
<1>4. x.at <= now /\ EndedBy(x.at)
  BY <1>1, <1>2, <1>3, PlannedBegins DEF Begins
<1>5. Turns = {} => focused /\ (Shows = {} => x.page = tab)
  BY <1>1, <1>2, <1>3 DEF FrontInv, FrontHolds
<1>6. Then(<<>>) \/ Then(<<x>>)
  BY <1>1, <1>2
<1> HIDE DEF x
<1>7. QED  BY <1>1, <1>3, <1>4, <1>5, <1>6, BeginPlanned

\* Recovery ends with the page in front, if the user looks at the browser.
LEMMA SeedStep ==
    ASSUME ExtensionInv, Seed
    PROVE  ExtensionInv'
<1>1. /\ TypeInv /\ StoryInv /\ awake /\ todo # <<>> /\ Head(todo).do = "seed"
      /\ Then(<<>>) \/ (Then(<<open(tab, now)>>) /\ focused)
      /\ UNCHANGED <<browser, queue, current, alarm, history>>
  BY DEF ExtensionInv, Seed, At
<1> DEFINE x == open(tab, now)
<1>2. Operation(x) /\ x.do = "open" /\ x.at = now /\ x.page = tab
  BY <1>1 DEF Operation, open, TypeInv
<1>3. x.at <= now /\ EndedBy(x.at)
  BY <1>1, <1>2, EndedByNow DEF TypeInv
<1>4. Then(<<>>) \/ (Then(<<x>>) /\ focused)
  BY <1>1
<1> HIDE DEF x
<1>5. QED  BY <1>1, <1>2, <1>3, <1>4, BeginPlanned

\* What is overwritten is accounted for.
LEMMA Overwritten ==
    ASSUME TypeInv, Overwrite
    PROVE  /\ dropped' \in SUBSET Nat /\ replaced' \in SUBSET Nat
           /\ dropped \subseteq dropped' /\ replaced \subseteq replaced'
           /\ Ids(current) \subseteq dropped' \union replaced'
<1> DEFINE long == {c \in current : now - c.start >= MIN_DURATION}
<1>1. replaced' = replaced \union Ids(long) /\ dropped' = dropped \union Ids(current \ long)
  BY DEF Overwrite
<1>2. long \subseteq current
  OBVIOUS
<1> HIDE DEF long
<1>3. Ids(current) \subseteq Nat
  BY DEF TypeInv, Segment, Ids
<1>4. Ids(current) = Ids(long) \union Ids(current \ long)
  BY <1>2 DEF Ids
<1>5. QED  BY <1>1, <1>3, <1>4 DEF TypeInv

\* Where the rules cover the page nothing begins, and what was timed is cleared.
LEMMA OpenStep ==
    ASSUME ExtensionInv, Open
    PROVE  ExtensionInv'
<1>1. /\ TypeInv /\ PlanInv /\ StoryInv /\ KeptInv /\ RulesInv /\ AlarmInv /\ FrontInv
      /\ awake /\ todo # <<>> /\ Head(todo).do = "open"
      /\ UNCHANGED <<browser, storage, minted, received>>
  BY DEF ExtensionInv, Open, At
<1>2. /\ Len(todo) \in Nat /\ Len(todo) > 0 /\ Head(todo) = todo[1] /\ Operation(todo[1])
      /\ 1 \in 1..Len(todo) /\ todo[1].do = "open"
  BY <1>1, RestOfList DEF TypeInv
<1>3. CASE todo[1].page.url \notin ignored
  <2> DEFINE x == write(todo[1].page, todo[1].at)
  <2>1. Operation(x) /\ x.do = "write" /\ x.at = todo[1].at /\ x.page = todo[1].page
    BY <1>1, <1>2 DEF Operation, write
  <2>2. x.at <= now /\ EndedBy(x.at)
    BY <1>1, <1>2, <2>1, PlannedBegins DEF Begins
  <2>3. Turns = {} => focused /\ (Shows = {} => x.page = tab)
    BY <1>1, <1>2, <2>1 DEF FrontInv, FrontHolds
  <2>4. Then(<<x>>) /\ UNCHANGED <<dropped, replaced>>
    BY <1>2, <1>3 DEF Open, op
  <2> HIDE DEF x
  <2>5. UNCHANGED <<browser, queue, current, alarm, history>>
    BY <1>1, <2>4 DEF storage, history
  <2>6. QED  BY <1>1, <1>3, <2>1, <2>2, <2>3, <2>4, <2>5, BeginPlanned
<1>4. CASE todo[1].page.url \in ignored
  <2>1. Then(<<clear>>) /\ Overwrite
    BY <1>2, <1>4 DEF Open, op
  <2>2. Operation(clear) /\ clear.do = "clear"
    BY DEF Operation, clear
  <2>3. UNCHANGED <<now, tab, focused, word, ignored, queue, current, alarm, minted, received>>
    BY <1>1 DEF browser, storage
  <2>4. /\ dropped' \in SUBSET Nat /\ replaced' \in SUBSET Nat
        /\ dropped \subseteq dropped' /\ replaced \subseteq replaced'
        /\ Ids(current) \subseteq dropped' \union replaced'
    BY <1>1, <2>1, Overwritten
  <2>5. /\ IsList(todo') /\ Len(todo') = Len(todo) /\ todo'[1].do = "clear"
        /\ \A i \in 1..Len(todo') : Operation(todo'[i])
        /\ \A i \in 2..Len(todo') : todo'[i] = todo[i] /\ todo'[i].do \in Quiet
        /\ awake' = awake /\ chain' = chain /\ PlanInv'
    BY <1>1, <2>1, <2>2, Pushed
  <2>6. TypeInv'
    BY <1>1, <2>3, <2>4, <2>5 DEF TypeInv
  <2>7. StoryInv'
    <3>1. ~ Upcoming({"finalize", "enqueue", "send", "remove"})'
      BY <2>5 DEF Upcoming
    <3>2. \A i \in 1..Len(todo') : todo'[i].do \in Begins =>
            \E j \in 1..Len(todo) : todo'[i] = todo[j]
      BY <1>2, <2>5 DEF Begins
    <3>3. \A c \in current : Fresh(c)
      BY <1>1, <1>2 DEF StoryInv, HandedOver, Upcoming
    <3>4. Known' = Known
      BY <2>3 DEF Known
    <3>5. QED  BY <1>1, <2>3, <3>1, <3>2, <3>3, <3>4, StoryStill
  <2>8. KeptInv'
    BY <1>1, <2>3, <2>4 DEF KeptInv, NothingLost, Known
  <2>9. RulesInv'
    <3>1. \A i \in 1..Len(todo') : todo'[i].do \in Quiet \/ i = 1
      BY <1>2, <2>5
    <3>2. RulesHold => RulesHold'
      BY <1>2, <2>3, <2>5 DEF RulesHold, Upcoming
    <3>3. QED  BY <1>1, <2>3, <2>5, <3>2, RulesStill
  <2>10. AlarmInv' /\ Closing'
    BY <1>2, <2>5 DEF AlarmInv, Closing, Upcoming
  <2>11. FrontInv'
    <3>1. \A i \in 1..Len(todo') : todo'[i].do \in Begins => todo'[i] = todo[i] /\ i \in 1..Len(todo)
      BY <1>2, <2>5 DEF Begins
    <3>2. Shows' = Shows
      BY <2>5 DEF Shows, Waiting
    <3>3. FrontHolds => FrontHolds'
      BY <2>3, <2>10, <3>1, <3>2 DEF FrontHolds, Begins
    <3>4. QED  BY <1>1, <2>3, <2>5, <3>3, FrontStill
  <2>12. QED  BY <2>5, <2>6, <2>7, <2>8, <2>9, <2>10, <2>11 DEF ExtensionInv
<1>5. QED  BY <1>3, <1>4

\* A new segment begins after all that is known, and has a new identity.
LEMMA WriteStep ==
    ASSUME ExtensionInv, Write
    PROVE  ExtensionInv'
<1>1. /\ TypeInv /\ PlanInv /\ StoryInv /\ KeptInv /\ RulesInv /\ AlarmInv /\ FrontInv
      /\ awake /\ todo # <<>> /\ Head(todo).do = "write" /\ Then(<<>>) /\ Overwrite
      /\ minted' = minted + 1 /\ alarm' = TRUE
      /\ current' = {[id |-> minted + 1, page |-> Head(todo).page, start |-> Head(todo).at]}
      /\ UNCHANGED <<now, tab, focused, word, ignored, queue, source, received>>
  BY DEF ExtensionInv, Write, At, op, browser
<1>2. /\ Len(todo) \in Nat /\ Len(todo) > 0 /\ todo[1].do = "write" /\ Operation(todo[1])
      /\ IsList(todo') /\ Len(todo') = Len(todo) - 1 /\ Head(todo) = todo[1]
      /\ \A i \in 1..Len(todo') :
           i + 1 \in 2..Len(todo) /\ todo'[i] = todo[i + 1] /\ Operation(todo'[i])
      /\ awake' = awake /\ chain' = chain /\ PlanInv'
      /\ \A i \in 1..Len(todo') : todo'[i].do \in Quiet
  BY <1>1, Popped
<1>3. /\ \A i \in 2..Len(todo) : i - 1 \in 1..Len(todo') /\ todo'[i - 1] = todo[i]
      /\ 1 \in 1..Len(todo)
  BY <1>2
<1>4. /\ dropped' \in SUBSET Nat /\ replaced' \in SUBSET Nat
      /\ dropped \subseteq dropped' /\ replaced \subseteq replaced'
      /\ Ids(current) \subseteq dropped' \union replaced'
  BY <1>1, Overwritten
<1> DEFINE new == [id |-> minted + 1, page |-> todo[1].page, start |-> todo[1].at]
<1>5. /\ current' = {new} /\ new \in Segment /\ new.id = minted + 1
      /\ new.page = todo[1].page /\ new.start = todo[1].at
  BY <1>1, <1>2 DEF Operation, Segment, TypeInv
<1> HIDE DEF new
<1>6. TypeInv'
  <2>1. minted' \in Nat
    BY <1>1 DEF TypeInv
  <2>2. QED  BY <1>1, <1>2, <1>4, <1>5, <2>1 DEF TypeInv
<1>7. StoryInv'
  <2>1. Known' = Known
    BY <1>1 DEF Known
  <2>2. new.start <= now /\ EndedBy(new.start)
    BY <1>1, <1>2, <1>3, <1>5, PlannedBegins DEF Begins
  <2>3. (\A r \in Known : r.id <= minted)' /\ new.id \notin Ids(Known)
    <3>1. \A r \in Known : r.id <= minted /\ r.id \in Nat
      <4>1. ToSet(queue) \subseteq Record
        BY <1>1, SeqMembers DEF TypeInv
      <4>2. \A r \in Known : r \in Record
        BY <1>1, <4>1 DEF Known, TypeInv
      <4>3. QED  BY <1>1, <4>2 DEF StoryInv, Record
    <3>2. minted \in Nat
      BY <1>1 DEF TypeInv
    <3>3. QED  BY <1>1, <1>5, <2>1, <3>1, <3>2 DEF Ids
  <2>4. (\A c \in current : c.start <= now /\ c.id \in 1..minted /\ Fresh(c))'
    <3>1. new.id \in 1..minted'
      BY <1>1, <1>5 DEF TypeInv
    <3>2. QED  BY <1>1, <1>5, <2>1, <2>2, <2>3, <3>1 DEF Fresh, EndedBy
  <2>5. OneStory'
    BY <1>1, <2>1 DEF StoryInv, OneStory, Known
  <2>6. \A i \in 1..Len(todo') : todo'[i].do \in Begins =>
          todo'[i].at <= now /\ EndedBy(todo'[i].at)
    BY <1>1, <1>2, PlannedBegins
  <2>7. (\A i \in 1..Len(todo) : todo[i].do \in Begins => todo[i].at <= now /\ EndedBy(todo[i].at))'
    BY <1>1, <2>1, <2>6 DEF EndedBy
  <2>8. ~ Upcoming({"finalize"})' /\ ~ Upcoming({"enqueue"})' /\ ~ Upcoming({"remove"})'
          /\ ~ Upcoming({"send", "remove"})'
    BY <1>2 DEF Upcoming, Quiet
  <2>9. QED  BY <2>3, <2>4, <2>5, <2>7, <2>8 DEF StoryInv, Begins
<1>8. KeptInv'
  <2>1. ~ Upcoming({"clear"})'
    BY <1>2 DEF Upcoming, Quiet
  <2>2. minted + 1 \in Ids(current')
    BY <1>5 DEF Ids
  <2>3. 1..(minted + 1) = (1..minted) \union {minted + 1}
    BY <1>1 DEF TypeInv
  <2>4. 1..(minted + 1) \subseteq Ids(current') \union Ids(ToSet(queue)) \union Ids(received)
                                 \union dropped' \union replaced'
    BY <1>1, <1>4, <2>2, <2>3 DEF KeptInv, NothingLost
  <2>5. QED  BY <1>1, <2>1, <2>4 DEF KeptInv, NothingLost
<1>9. RulesInv'
  <2>1. RulesHold => new.page.url \notin ignored
    BY <1>2, <1>5 DEF RulesHold, Upcoming
  <2>2. RulesHold => RulesHold'
    <3>1. ASSUME RulesHold, \E r \in ToSet(queue) : r.page.url \in ignored
          PROVE  \E i \in 1..Len(todo') : todo'[i].do \in {"resolve", "deliver", "purge"}
      <4>1. PICK j \in 1..Len(todo) : todo[j].do \in {"resolve", "deliver", "purge"}
        BY <3>1 DEF RulesHold
      <4>2. j \in 2..Len(todo)
        BY <1>2, <4>1
      <4>3. QED  BY <1>3, <4>1, <4>2
    <3>2. ~ Upcoming({"enqueue"})' /\ ~ Upcoming({"write"})'
      BY <1>2 DEF Upcoming, Quiet
    <3>3. RulesHold => \A i \in 1..Len(todo') :
            todo'[i].do \in {"forget", "purge"} => todo'[i].patterns = ignored
      BY <1>2 DEF RulesHold
    <3>4. RulesHold => \A c \in current' : c.page.url \notin ignored
      BY <1>5, <2>1
    <3>5. QED  BY <1>1, <3>1, <3>2, <3>3, <3>4 DEF RulesHold
  <2>3. QED  BY <1>1, <1>2, <2>2, RulesStill
<1>10. AlarmInv'
  BY <1>1 DEF AlarmInv
<1>11. FrontInv'
  <2>1. Shows' = Shows
    BY <1>2 DEF Shows, Waiting
  <2>2. FrontHolds => focused /\ (Shows = {} => new.page = tab)
    BY <1>2, <1>3, <1>5 DEF FrontHolds
  <2>3. FrontHolds => FrontHolds'
    BY <1>1, <1>2, <1>5, <2>1, <2>2 DEF FrontHolds, SamePlace
  <2>4. QED  BY <1>1, <1>2, <2>3, FrontStill
<1>12. QED  BY <1>2, <1>6, <1>7, <1>8, <1>9, <1>10, <1>11 DEF ExtensionInv

\* Handed to the queue, a segment's record is its newest; what the limit pushes out
\* is left out on purpose.
LEMMA EnqueueStep ==
    ASSUME ExtensionInv, Enqueue
    PROVE  ExtensionInv'
<1>1. /\ TypeInv /\ PlanInv /\ StoryInv /\ KeptInv /\ RulesInv /\ AlarmInv /\ FrontInv
      /\ awake /\ todo # <<>> /\ Head(todo).do = "enqueue" /\ Then(<<>>)
      /\ UNCHANGED <<now, tab, focused, word, ignored, source, alarm, current, minted>>
      /\ UNCHANGED <<received, replaced>>
  BY DEF ExtensionInv, Enqueue, At, browser
<1>2. /\ Len(todo) \in Nat /\ Len(todo) > 0 /\ todo[1].do = "enqueue" /\ Operation(todo[1])
      /\ IsList(todo') /\ Len(todo') = Len(todo) - 1 /\ Head(todo) = todo[1]
      /\ \A i \in 1..Len(todo') :
           i + 1 \in 2..Len(todo) /\ todo'[i] = todo[i + 1] /\ Operation(todo'[i])
      /\ awake' = awake /\ chain' = chain /\ PlanInv'
      /\ Len(todo') > 0 /\ todo'[1].do = "clear"
      /\ \A i \in 2..Len(todo') : todo'[i].do \in Quiet
  BY <1>1, Popped
<1>3. /\ \A i \in 2..Len(todo) : i - 1 \in 1..Len(todo') /\ todo'[i - 1] = todo[i]
      /\ Upcoming({"enqueue"}) /\ ~ Upcoming({"resolve", "clear"})
  BY <1>2 DEF Upcoming
<1> DEFINE r == todo[1].rec
           c == [id |-> r.id, page |-> r.page, start |-> r.start]
<1>4. /\ r \in Record /\ r.start + MIN_DURATION <= r.end /\ r.end <= now
      /\ current = {c} /\ Fresh(c)
  <2>1. r \in Record
    BY <1>2 DEF Operation
  <2>2. r.start + MIN_DURATION <= r.end /\ r.end <= now /\ current = {c}
    BY <1>1, <1>3 DEF StoryInv
  <2>3. Fresh(c) \/ HandedOver(c)
    BY <1>1, <2>2 DEF StoryInv
  <2>4. QED  BY <1>1, <1>3, <2>1, <2>2, <2>3 DEF HandedOver
<1>5. EndedBy(r.start) /\ r.id \notin Ids(Known)
  BY <1>4 DEF Fresh
<1>6. queue' = trimQueue(Append(queue, r))
        /\ dropped' = dropped \union (Ids(ToSet(Append(queue, r))) \ Ids(ToSet(queue')))
  <2>1. ~ queueHasRecord(r.id)
    BY <1>5 DEF queueHasRecord, Known, Ids
  <2>2. QED  BY <1>2, <2>1 DEF Enqueue, op
<1> HIDE DEF r, c
<1>7. /\ queue' \in Seq(Record) /\ Len(queue') <= QUEUE_LIMIT
      /\ r \in ToSet(queue') /\ ToSet(queue') \subseteq ToSet(queue) \union {r}
      /\ Ids(ToSet(queue)) \subseteq Ids(ToSet(queue')) \union dropped'
      /\ dropped \subseteq dropped' /\ dropped' \in SUBSET Nat
  <2> DEFINE q == Append(queue, r)
             n == Len(queue)
  <2>1. queue \in Seq(Record) /\ n \in Nat /\ n <= QUEUE_LIMIT /\ DOMAIN queue = 1..n
    BY <1>1 DEF TypeInv, KeptInv, NothingLost
  <2>2. /\ q \in Seq(Record) /\ Len(q) = n + 1 /\ DOMAIN q = 1..(n + 1) /\ q[n + 1] = r
        /\ \A i \in 1..n : q[i] = queue[i]
    BY <1>4, <2>1
  <2> HIDE DEF q
  <2>3. ToSet(q) = ToSet(queue) \union {r}
    <3>1. \A i \in 1..(n + 1) : i \in 1..n \/ i = n + 1
      BY <2>1
    <3>2. 1..n \subseteq 1..(n + 1) /\ n + 1 \in 1..(n + 1)
      BY <2>1
    <3> HIDE DEF n
    <3>3. QED  BY <2>1, <2>2, <3>1, <3>2 DEF ToSet
  <2>4. queue' = (IF n + 1 <= QUEUE_LIMIT THEN q ELSE Tail(q))
    BY <1>6, <2>2 DEF trimQueue, q
  <2>5. CASE n + 1 <= QUEUE_LIMIT
    <3>1. queue' = q
      BY <2>4, <2>5
    <3>2. queue' \in Seq(Record) /\ Len(queue') <= QUEUE_LIMIT
            /\ r \in ToSet(queue') /\ ToSet(queue') \subseteq ToSet(queue) \union {r}
      BY <2>2, <2>3, <2>5, <3>1
    <3>3. Ids(ToSet(queue)) \subseteq Ids(ToSet(queue'))
      BY <2>3, <3>1 DEF Ids
    <3>4. dropped' = dropped
      BY <1>6, <3>1 DEF q
    <3>5. QED  BY <1>1, <3>2, <3>3, <3>4 DEF TypeInv
  <2>6. CASE n + 1 > QUEUE_LIMIT
    <3>1. queue' = Tail(q) /\ n > 0
      BY <2>1, <2>4, <2>6, Numbers
    <3>2. /\ queue' \in Seq(Record) /\ Len(queue') = n
          /\ \A i \in 1..n : queue'[i] = q[i + 1]
      BY <2>1, <2>2, <3>1
    <3>3. DOMAIN queue' = 1..n
      BY <3>2
    <3>4. r \in ToSet(queue')
      <4>1. n \in 1..n /\ queue'[n] = r
        BY <2>1, <2>2, <3>1, <3>2
      <4>2. QED  BY <3>3, <4>1 DEF ToSet
    <3>5. ToSet(queue') \subseteq ToSet(q)
      <4>1. \A i \in 1..n : i + 1 \in 1..(n + 1)
        BY <2>1
      <4> HIDE DEF n
      <4>2. QED  BY <2>2, <3>2, <3>3, <4>1 DEF ToSet
    <3>6. Ids(ToSet(queue)) \subseteq Ids(ToSet(q)) /\ Ids(ToSet(q)) \subseteq Nat
      BY <2>2, <2>3, SeqMembers DEF Ids
    <3>7. dropped' = dropped \union (Ids(ToSet(q)) \ Ids(ToSet(queue')))
      BY <1>6 DEF q
    <3>8. dropped' \in SUBSET Nat /\ dropped \subseteq dropped'
            /\ Ids(ToSet(queue)) \subseteq Ids(ToSet(queue')) \union dropped'
      BY <1>1, <3>6, <3>7 DEF TypeInv
    <3>9. Len(queue') <= QUEUE_LIMIT
      BY <2>1, <3>2
    <3>10. QED  BY <2>3, <3>2, <3>4, <3>5, <3>8, <3>9
  <2>7. QED  BY <2>1, <2>5, <2>6, Numbers
<1>8. TypeInv'
  BY <1>1, <1>2, <1>7 DEF TypeInv
<1>9. StoryInv'
  <2>1. Known' \subseteq Known \union {r} /\ r \in ToSet(queue')
    BY <1>1, <1>7 DEF Known
  <2>2. \A s \in Known : s.end <= r.start
    BY <1>5 DEF EndedBy
  <2>3. OneStory'
    BY <1>1, <1>4, <2>1, <2>2 DEF StoryInv, OneStory, Known
  <2>4. (\A s \in Known : s.id <= minted)'
    <3>1. r.id <= minted
      BY <1>1, <1>4 DEF StoryInv, c
    <3>2. QED  BY <1>1, <2>1, <3>1 DEF StoryInv
  <2>5. (\A d \in current : d.start <= now /\ d.id \in 1..minted /\ HandedOver(d))'
    <3>1. c.id \in Ids(ToSet(queue'))
      BY <2>1 DEF c, Ids
    <3>2. Upcoming({"resolve", "clear"})'
      BY <1>2 DEF Upcoming
    <3>3. QED  BY <1>1, <1>4, <3>1, <3>2 DEF StoryInv, HandedOver
  <2>6. \A i \in 1..Len(todo') : todo'[i].do \in Begins =>
          todo'[i].at <= now /\ EndedBy(todo'[i].at) /\ r.end <= todo'[i].at
    <3>1. \A i \in 1..Len(todo) : todo[i].do \in Begins =>
            todo[i].at <= now /\ EndedBy(todo[i].at) /\ r.end <= todo[i].at
      BY <1>1, <1>3 DEF StoryInv, Begins, r
    <3>2. QED  BY <1>2, <3>1
  <2>7. (\A i \in 1..Len(todo) : todo[i].do \in Begins => todo[i].at <= now /\ EndedBy(todo[i].at))'
    BY <1>1, <2>1, <2>6 DEF EndedBy
  <2>8. ~ Upcoming({"finalize"})' /\ ~ Upcoming({"enqueue"})' /\ ~ Upcoming({"remove"})'
          /\ ~ Upcoming({"send", "remove"})'
    BY <1>2 DEF Upcoming
  <2>9. QED  BY <2>3, <2>4, <2>5, <2>7, <2>8 DEF StoryInv, Begins
<1>10. KeptInv'
  <2>1. 1..minted \subseteq
          Ids(current) \union Ids(ToSet(queue')) \union Ids(received) \union dropped' \union replaced
    BY <1>1, <1>7 DEF KeptInv, NothingLost
  <2>2. Ids(current) \subseteq Ids(ToSet(queue'))
    BY <1>4, <1>7 DEF Ids, c
  <2>3. Ids(ToSet(queue')) \subseteq Ids(Known')
    BY DEF Ids, Known
  <2>4. QED  BY <1>1, <1>7, <2>1, <2>2, <2>3 DEF KeptInv, NothingLost
<1>11. RulesInv'
  <2>1. RulesHold => r.page.url \notin ignored
    BY <1>3 DEF RulesHold, r
  <2>2. RulesHold => RulesHold'
    <3>1. ASSUME RulesHold, \E s \in ToSet(queue') : s.page.url \in ignored
          PROVE  \E i \in 1..Len(todo') : todo'[i].do \in {"resolve", "deliver", "purge"}
      <4>1. \E s \in ToSet(queue) : s.page.url \in ignored
        BY <1>7, <2>1, <3>1
      <4>2. PICK j \in 1..Len(todo) : todo[j].do \in {"resolve", "deliver", "purge"}
        BY <3>1, <4>1 DEF RulesHold
      <4>3. j \in 2..Len(todo)
        BY <1>2, <4>2
      <4>4. QED  BY <1>3, <4>2, <4>3
    <3>2. Upcoming({"resolve", "clear", "forget"})' /\ ~ Upcoming({"enqueue"})'
            /\ ~ Upcoming({"write"})'
      BY <1>2 DEF Upcoming
    <3>3. RulesHold => \A i \in 1..Len(todo') :
            todo'[i].do \in {"forget", "purge"} => todo'[i].patterns = ignored
      BY <1>2 DEF RulesHold
    <3>4. QED  BY <1>1, <3>1, <3>2, <3>3 DEF RulesHold
  <2>3. QED  BY <1>1, <1>2, <2>2, RulesStill
<1>12. AlarmInv' /\ Closing'
  BY <1>2 DEF AlarmInv, Closing, Upcoming
<1>13. FrontInv'
  <2>1. Shows' = Shows
    BY <1>2 DEF Shows, Waiting
  <2>2. FrontHolds => FrontHolds'
    BY <1>1, <1>2, <1>12, <2>1 DEF FrontHolds
  <2>3. QED  BY <1>1, <1>2, <2>2, FrontStill
<1>14. QED  BY <1>2, <1>8, <1>9, <1>10, <1>11, <1>12, <1>13 DEF ExtensionInv

\* What finalize makes of the open segment: a record to hand over, or none.
LEMMA Built ==
    ASSUME TypeInv, StoryInv, RulesInv, awake, todo # <<>>, Head(todo).do = "finalize"
    PROVE  LET recs == buildRecord(Head(todo).at) IN
           \/ recs = {} /\ HandOver(recs) = <<clear>>
           \/ \E c \in current, r \in Record :
                /\ current = {c} /\ Fresh(c)
                /\ recs = {r} /\ HandOver(recs) = <<enqueue(r), clear>>
                /\ c = [id |-> r.id, page |-> r.page, start |-> r.start]
                /\ r.end = Head(todo).at /\ r.start + MIN_DURATION <= r.end /\ r.end <= now
                /\ r.page.url \notin ignored
<1> DEFINE at == Head(todo).at
           recs == buildRecord(at)
<1>1. /\ Len(todo) \in Nat /\ Len(todo) > 0 /\ Head(todo) = todo[1] /\ Operation(todo[1])
      /\ todo[1].do = "finalize"
  BY RestOfList DEF TypeInv
<1>2. at \in Int /\ at <= now /\ now \in Nat
  BY <1>1 DEF Operation, StoryInv, Upcoming, TypeInv
<1>3. CASE {c \in current : at - c.start >= MIN_DURATION /\ c.page.url \notin ignored} = {}
  <2>1. recs = {}
    BY <1>3 DEF buildRecord
  <2>2. {enqueue(r) : r \in {}} = {}
    OBVIOUS
  <2>3. HandOver({}) = <<>> \o <<clear>>
    BY <2>2, SetToSeqFew DEF HandOver
  <2>4. <<>> \o <<clear>> = <<clear>>
    OBVIOUS
  <2>5. QED  BY <2>1, <2>3, <2>4
<1>4. CASE {c \in current : at - c.start >= MIN_DURATION /\ c.page.url \notin ignored} # {}
  <2>1. PICK c \in current : at - c.start >= MIN_DURATION /\ c.page.url \notin ignored
    BY <1>4
  <2>2. c \in Segment /\ current = {c}
    BY DEF TypeInv
  <2>3. c.id \in Nat /\ c.page \in Pages /\ c.start \in Nat
          /\ c = [id |-> c.id, page |-> c.page, start |-> c.start]
    BY <2>2 DEF Segment
  <2> DEFINE r == [id |-> c.id, page |-> c.page, start |-> c.start, end |-> at]
  <2>4. recs = {r}
    BY <2>1, <2>2 DEF buildRecord
  <2>5. at \in Nat /\ c.start + MIN_DURATION <= at
    BY <1>2, <2>1, <2>3, Numbers
  <2>6. r \in Record
    BY <2>3, <2>5 DEF Record
  <2>7. Fresh(c)
    BY <1>1, <2>2 DEF StoryInv, HandedOver, Upcoming
  <2>8. HandOver(recs) = <<enqueue(r), clear>>
    <3> HIDE DEF r
    <3>1. {enqueue(x) : x \in {r}} = {enqueue(r)}
      OBVIOUS
    <3>2. HandOver({r}) = <<enqueue(r)>> \o <<clear>>
      BY <3>1, SetToSeqFew DEF HandOver
    <3>3. <<enqueue(r)>> \o <<clear>> = <<enqueue(r), clear>>
      <4> DEFINE x == enqueue(r)
                 y == clear
      <4> HIDE DEF x, y
      <4>1. <<x>> \o <<y>> = <<x, y>>
        BY PairJoined
      <4>2. QED  BY <4>1 DEF x, y
    <3>4. recs = {r}
      BY <2>4 DEF r
    <3> HIDE DEF recs
    <3>5. QED  BY <3>2, <3>3, <3>4
  <2>9. /\ c = [id |-> r.id, page |-> r.page, start |-> r.start]
        /\ r.end = at /\ r.start + MIN_DURATION <= r.end /\ r.end <= now
        /\ r.page.url \notin ignored
    BY <1>2, <2>1, <2>3, <2>5
  <2> HIDE DEF r
  <2>10. QED  BY <2>2, <2>4, <2>6, <2>7, <2>8, <2>9
<1>5. QED  BY <1>3, <1>4

\* A segment ends: its record is handed over, or it is left out on purpose.
LEMMA FinalizeStep ==
    ASSUME ExtensionInv, Finalize
    PROVE  ExtensionInv'
<1> DEFINE recs == buildRecord(Head(todo).at)
<1>1. /\ TypeInv /\ PlanInv /\ StoryInv /\ KeptInv /\ RulesInv /\ AlarmInv /\ FrontInv
      /\ awake /\ todo # <<>> /\ Head(todo).do = "finalize"
      /\ Then(HandOver(recs)) /\ dropped' = dropped \union (Ids(current) \ Ids(recs))
      /\ UNCHANGED <<now, tab, focused, word, ignored, queue, current, alarm>>
      /\ UNCHANGED <<minted, received, replaced>>
  BY DEF ExtensionInv, Finalize, At, op, browser, storage
<1>2. /\ IsList(todo) /\ Len(todo) \in Nat /\ Len(todo) > 0 /\ Head(todo) = todo[1]
      /\ todo[1].do = "finalize" /\ 1 \in 1..Len(todo)
      /\ \A i \in 1..Len(todo) : Operation(todo[i])
      /\ \A i \in 2..Len(todo) : todo[i].do \in Quiet
  <2>1. IsList(todo) /\ Len(todo) \in Nat /\ Len(todo) > 0 /\ Head(todo) = todo[1]
    BY <1>1, RestOfList DEF TypeInv
  <2>2. QED  BY <1>1, <2>1 DEF TypeInv, PlanInv, Quiet
<1>3. chain' = chain /\ awake' = awake
  BY <1>1 DEF Then
<1>4. \/ recs = {} /\ HandOver(recs) = <<clear>>
      \/ \E c \in current, r \in Record :
           /\ current = {c} /\ Fresh(c)
           /\ recs = {r} /\ HandOver(recs) = <<enqueue(r), clear>>
           /\ c = [id |-> r.id, page |-> r.page, start |-> r.start]
           /\ r.end = Head(todo).at /\ r.start + MIN_DURATION <= r.end /\ r.end <= now
           /\ r.page.url \notin ignored
  BY <1>1, Built
<1> HIDE DEF recs
<1>5. Ids(current) \subseteq Nat /\ dropped' \in SUBSET Nat /\ dropped \subseteq dropped'
  BY <1>1 DEF TypeInv, Ids, Segment
<1>6. \A c \in current : Fresh(c)
  BY <1>1, <1>2 DEF StoryInv, HandedOver, Upcoming
<1>7. Operation(clear) /\ clear.do = "clear"
  BY DEF Operation, clear
<1>8. Known' = Known /\ Shows' = Shows
  BY <1>1, <1>3 DEF Known, Shows, Waiting
<1>9. /\ IsList(todo') /\ Len(todo') > 0 /\ 1 \in 1..Len(todo')
      /\ \A i \in 1..Len(todo') : Operation(todo'[i])
      /\ \A i \in 2..Len(todo') : 
           todo'[i].do \in Quiet \/ (i = 2 /\ todo'[2].do = "clear" /\ todo'[1].do = "enqueue")
      /\ \A i \in 1..Len(todo') : todo'[i].do \in Quiet => \E j \in 2..Len(todo) : todo'[i] = todo[j]
      /\ \A j \in 2..Len(todo) : \E i \in 1..Len(todo') : todo'[i] = todo[j]
      /\ \/ todo'[1].do = "clear" /\ recs = {}
         \/ /\ todo'[1].do = "enqueue" /\ Len(todo') > 1 /\ todo'[2].do = "clear"
            /\ recs = {todo'[1].rec} /\ todo'[1].rec \in Record
            /\ LET r == todo'[1].rec IN
               /\ current = {[id |-> r.id, page |-> r.page, start |-> r.start]}
               /\ r.end = todo[1].at /\ r.start + MIN_DURATION <= r.end /\ r.end <= now
               /\ r.page.url \notin ignored
  <2>1. CASE recs = {} /\ HandOver(recs) = <<clear>>
    <3>1. Then(<<clear>>) /\ Head(todo).do # "enqueue"
      BY <1>1, <2>1
    <3>2. /\ IsList(todo') /\ Len(todo') = Len(todo) /\ todo'[1] = clear
          /\ \A i \in 1..Len(todo') : Operation(todo'[i])
          /\ \A i \in 2..Len(todo') : todo'[i] = todo[i] /\ todo'[i].do \in Quiet
      BY <1>1, <1>7, <3>1, Pushed
    <3>3. \A i \in 1..Len(todo') : i = 1 \/ i \in 2..Len(todo)
      BY <1>2, <3>2
    <3>4. ~ (clear.do \in Quiet)
      BY <1>7 DEF Quiet
    <3>5. QED  BY <1>2, <1>7, <2>1, <3>2, <3>3, <3>4
  <2>2. CASE recs # {}
    <3>0. PICK c \in current, r \in Record :
            /\ current = {c} /\ Fresh(c)
            /\ recs = {r} /\ HandOver(recs) = <<enqueue(r), clear>>
            /\ c = [id |-> r.id, page |-> r.page, start |-> r.start]
            /\ r.end = Head(todo).at /\ r.start + MIN_DURATION <= r.end /\ r.end <= now
            /\ r.page.url \notin ignored
      BY <1>4, <2>2
    <3>1. todo' = <<enqueue(r), clear>> \o Tail(todo)
      BY <1>1, <3>0 DEF Then, rest
    <3>2. enqueue(r).do = "enqueue" /\ enqueue(r).rec = r /\ Operation(enqueue(r))
      BY DEF enqueue, Operation
    <3>3. /\ IsList(todo') /\ Len(todo') = Len(todo) + 1
          /\ todo'[1] = enqueue(r) /\ todo'[2] = clear
          /\ \A i \in 3..Len(todo') : i - 1 \in 2..Len(todo) /\ todo'[i] = todo[i - 1]
      <4> DEFINE x == enqueue(r)
                 y == clear
      <4>1. todo' = <<x, y>> \o Tail(todo)
        BY <3>1
      <4> HIDE DEF x, y
      <4>2. /\ IsList(todo') /\ Len(todo') = Len(todo) + 1
            /\ todo'[1] = x /\ todo'[2] = y
            /\ \A i \in 3..Len(todo') : i - 1 \in 2..Len(todo) /\ todo'[i] = todo[i - 1]
        BY <1>1, <1>2, <4>1, Replaced2
      <4>3. QED  BY <4>2 DEF x, y
    <3>4. \A i \in 1..Len(todo') : i = 1 \/ i = 2 \/ i \in 3..Len(todo')
      BY <1>2, <3>3
    <3>5. \A j \in 2..Len(todo) : j + 1 \in 1..Len(todo') /\ todo'[j + 1] = todo[j]
      BY <1>2, <3>3
    <3>6. \A i \in 1..Len(todo') : Operation(todo'[i])
      BY <1>2, <1>7, <3>2, <3>3, <3>4
    <3>7. \A i \in 3..Len(todo') : todo'[i].do \in Quiet /\ \E j \in 2..Len(todo) : todo'[i] = todo[j]
      BY <1>2, <3>3
    <3>8. ~ (clear.do \in Quiet) /\ ~ (enqueue(r).do \in Quiet)
      BY <1>7, <3>2 DEF Quiet
    <3>9. \A i \in 2..Len(todo') : i = 2 \/ i \in 3..Len(todo')
      BY <3>3
    <3>10. /\ \A i \in 2..Len(todo') : todo'[i].do \in Quiet \/ i = 2
           /\ \A i \in 1..Len(todo') : todo'[i].do \in Quiet => \E j \in 2..Len(todo) : todo'[i] = todo[j]
      BY <3>3, <3>4, <3>7, <3>8, <3>9
    <3>11. Len(todo') > 1 /\ 1 \in 1..Len(todo')
      BY <1>2, <3>3
    <3>12. todo'[1].do = "enqueue" /\ todo'[1].rec = r /\ todo'[2].do = "clear"
      BY <1>7, <3>2, <3>3
    <3>13. \A j \in 2..Len(todo) : \E i \in 1..Len(todo') : todo'[i] = todo[j]
      BY <3>5
    <3>14. Head(todo).at = todo[1].at
      BY <1>2
    <3>15. /\ recs = {todo'[1].rec} /\ todo'[1].rec \in Record
           /\ LET q == todo'[1].rec IN
              /\ current = {[id |-> q.id, page |-> q.page, start |-> q.start]}
              /\ q.end = todo[1].at /\ q.start + MIN_DURATION <= q.end /\ q.end <= now
              /\ q.page.url \notin ignored
      BY <3>0, <3>12, <3>14
    <3>16. Len(todo') > 0
      BY <1>2, <3>3
    <3>17. QED  BY <3>3, <3>6, <3>10, <3>11, <3>12, <3>13, <3>15, <3>16
  <2>3. QED  BY <1>4, <2>1, <2>2
<1>10. TypeInv'
  BY <1>1, <1>3, <1>5, <1>9 DEF TypeInv
<1>11. PlanInv'
  BY <1>1, <1>3, <1>9 DEF PlanInv, Quiet, Upcoming
<1>12. StoryInv'
  <2>1. OneStory' /\ (\A r \in Known : r.id <= minted)'
    BY <1>1, <1>8 DEF StoryInv, OneStory, Known
  <2>2. (\A c \in current : c.start <= now /\ c.id \in 1..minted /\ Fresh(c))'
    BY <1>1, <1>6, <1>8 DEF StoryInv, Fresh, EndedBy
  <2>3. \A i \in 1..Len(todo') : todo'[i].do \in Begins =>
          todo'[i].at <= now /\ EndedBy(todo'[i].at) /\ todo[1].at <= todo'[i].at
    <3>1. \A i \in 1..Len(todo) : todo[i].do \in Begins =>
            todo[i].at <= now /\ EndedBy(todo[i].at) /\ todo[1].at <= todo[i].at
      BY <1>1, <1>2 DEF StoryInv, Begins, Upcoming
    <3>2. \A i \in 1..Len(todo') : todo'[i].do \in Begins =>
            \E j \in 1..Len(todo) : todo'[i] = todo[j]
      <4>1. TAKE i \in 1..Len(todo')
      <4>2. HAVE todo'[i].do \in Begins
      <4>3. todo'[i].do \in Quiet
        BY <1>9, <4>2 DEF Begins, Quiet
      <4>4. PICK j \in 2..Len(todo) : todo'[i] = todo[j]
        BY <1>9, <4>3
      <4>5. j \in 1..Len(todo)
        BY <1>2
      <4>6. QED  BY <4>4, <4>5
    <3>3. QED  BY <3>1, <3>2
  <2>4. (\A i \in 1..Len(todo) : todo[i].do \in Begins =>
           /\ todo[i].at <= now /\ EndedBy(todo[i].at)
           /\ Upcoming({"enqueue"}) => todo[1].rec.end <= todo[i].at)'
    BY <1>1, <1>8, <1>9, <2>3 DEF EndedBy, Upcoming
  <2>5. (Upcoming({"enqueue"}) =>
           LET r == todo[1].rec IN
           /\ r.start + MIN_DURATION <= r.end /\ r.end <= now
           /\ current = {[id |-> r.id, page |-> r.page, start |-> r.start]})'
    BY <1>1, <1>9 DEF Upcoming
  <2>6. ~ Upcoming({"finalize"})' /\ ~ Upcoming({"remove"})' /\ ~ Upcoming({"send", "remove"})'
    BY <1>9 DEF Upcoming
  <2>7. QED  BY <2>1, <2>2, <2>4, <2>5, <2>6 DEF StoryInv, Begins
<1>13. KeptInv'
  <2>1. NothingLost'
    BY <1>1, <1>5 DEF KeptInv, NothingLost
  <2>2. Upcoming({"clear"})' => Ids(current) \subseteq dropped'
    BY <1>1, <1>9 DEF Upcoming, Ids
  <2>3. QED  BY <1>1, <2>1, <2>2 DEF KeptInv
<1>14. RulesInv'
  <2>1. ASSUME RulesHold
        PROVE  RulesHold'
    <3>1. \A c \in current : c.page.url \notin ignored
      BY <1>2, <2>1 DEF RulesHold, Upcoming
    <3>2. ASSUME \E r \in ToSet(queue) : r.page.url \in ignored
          PROVE  \E i \in 1..Len(todo') : todo'[i].do \in {"resolve", "deliver", "purge"}
      <4>1. PICK j \in 1..Len(todo) : todo[j].do \in {"resolve", "deliver", "purge"}
        BY <2>1, <3>2 DEF RulesHold
      <4>2. j \in 2..Len(todo)
        BY <1>2, <4>1
      <4>3. QED  BY <1>9, <4>1, <4>2
    <3>3. ~ Upcoming({"write"})' /\ (Upcoming({"enqueue"})' => todo'[1].rec.page.url \notin ignored)
      BY <1>9 DEF Upcoming
    <3>4. \A i \in 1..Len(todo') :
            todo'[i].do \in {"forget", "purge"} => todo'[i].patterns = ignored
      <4>1. TAKE i \in 1..Len(todo')
      <4>2. HAVE todo'[i].do \in {"forget", "purge"}
      <4>3. todo'[i].do \in Quiet
        BY <1>9, <4>2 DEF Quiet
      <4>4. PICK j \in 2..Len(todo) : todo'[i] = todo[j]
        BY <1>9, <4>3
      <4>5. j \in 1..Len(todo)
        BY <1>2
      <4>6. QED  BY <2>1, <4>2, <4>4, <4>5 DEF RulesHold
    <3>5. QED  BY <1>1, <3>1, <3>2, <3>3, <3>4 DEF RulesHold
  <2>2. QED  BY <1>1, <1>3, <2>1, RulesStill
<1>15. AlarmInv' /\ Closing'
  BY <1>9 DEF AlarmInv, Closing, Upcoming
<1>16. FrontInv'
  <2>1. ASSUME FrontHolds
        PROVE  \A i \in 1..Len(todo') : todo'[i].do \in {"start", "open", "write"} =>
                 focused /\ (Shows = {} => todo'[i].page = tab)
    <3>1. TAKE i \in 1..Len(todo')
    <3>2. HAVE todo'[i].do \in {"start", "open", "write"}
    <3>3. todo'[i].do \in Quiet
      BY <1>9, <3>2 DEF Quiet
    <3>4. PICK j \in 2..Len(todo) : todo'[i] = todo[j]
      BY <1>9, <3>3
    <3>5. j \in 1..Len(todo)
      BY <1>2
    <3>6. QED  BY <2>1, <3>2, <3>4, <3>5 DEF FrontHolds
  <2>2. FrontHolds => FrontHolds'
    BY <1>1, <1>8, <1>15, <2>1 DEF FrontHolds
  <2>3. QED  BY <1>1, <1>3, <2>2, FrontStill
<1>17. QED  BY <1>10, <1>11, <1>12, <1>13, <1>14, <1>15, <1>16 DEF ExtensionInv

\* Recovery looks at the segment that was left open before anything is delivered.
LEMMA Resolved ==
    ASSUME ExtensionInv, Resolve
    PROVE  /\ Len(todo') \in Nat /\ Len(todo') > 1 /\ IsList(todo')
           /\ \A i \in 1..Len(todo') : Operation(todo'[i])
           /\ \A i \in 2..Len(todo') : todo'[i].do \in {"deliver", "repair", "seed"}
           /\ \E i \in 1..Len(todo') : todo'[i].do = "deliver"
           /\ \/ todo'[1].do = "deliver" /\ current = {}
              \/ /\ todo'[1].do = "clear"
                 /\ \A c \in current : c.page.url \in ignored \/ queueHasRecord(c.id)
              \/ /\ todo'[1].do = "deliver" /\ todo'[2].do = "repair"
                 /\ \A c \in current : /\ c.page.url \notin ignored /\ ~ queueHasRecord(c.id)
                                       /\ focused /\ SamePlace(c.page, tab)
              \/ /\ todo'[1].do = "finalize" /\ todo'[1].at <= now
                 /\ \A c \in current : c.page.url \notin ignored /\ ~ queueHasRecord(c.id)
<1> DEFINE usable == {c \in current : c.page.url \notin ignored}
           live == {c \in usable : ~queueHasRecord(c.id)}
           seed == [do |-> "seed"]
           repair == [do |-> "repair"]
           end == finalize(idleEndsAt(word))
<1>1. /\ TypeInv /\ awake /\ todo # <<>> /\ Head(todo).do = "resolve" /\ IsList(todo)
      /\ \/ live = {} /\ Then(resume(FALSE, IF current = {} THEN <<>> ELSE <<clear>>))
         \/ \E c \in live, b \in BOOLEAN :
              Then(IF b /\ stillInFront(c) THEN resume(TRUE, <<>>) ELSE resume(FALSE, <<end>>))
  BY DEF ExtensionInv, Resolve, At, TypeInv
<1>2. Len(todo) = 1
  <2>1. Len(todo) \in Nat /\ Len(todo) > 0 /\ Head(todo) = todo[1]
    BY <1>1, RestOfList
  <2>2. QED  BY <1>1, <2>1 DEF ExtensionInv, PlanInv, Upcoming
<1>3. /\ Operation(seed) /\ Operation(repair) /\ Operation(deliver) /\ Operation(clear)
      /\ Operation(end) /\ end.do = "finalize" /\ end.at \in Int /\ end.at <= now
      /\ seed.do = "seed" /\ repair.do = "repair" /\ deliver.do = "deliver" /\ clear.do = "clear"
  <2>1. idleEndsAt(word) \in Int /\ idleEndsAt(word) <= now
    BY <1>1, Numbers DEF idleEndsAt, TypeInv
  <2>2. QED  BY <2>1 DEF Operation, finalize, deliver, clear
<1>4. /\ resume(FALSE, <<>>) = <<deliver, seed>> /\ resume(TRUE, <<>>) = <<deliver, repair>>
      /\ resume(FALSE, <<clear>>) = <<clear, deliver, seed>>
      /\ resume(FALSE, <<end>>) = <<end, deliver, seed>>
  <2>1. \A x, y : <<>> \o <<x, y>> = <<x, y>>
    BY PairAlone
  <2>2. \A x, y, z : <<x>> \o <<y, z>> = <<x, y, z>>
    BY TripleJoined
  <2>3. \A ops : /\ resume(FALSE, ops) = ops \o <<deliver, seed>>
                 /\ resume(TRUE, ops) = ops \o <<deliver, repair>>
    BY DEF resume
  <2> HIDE DEF seed, repair, end
  <2>4. QED  BY <2>1, <2>2, <2>3
<1>5. current = {} \/ \E c \in current : current = {c}
  BY <1>1 DEF TypeInv
<1> HIDE DEF seed, repair, end
<1>6. ASSUME NEW x, NEW y, Operation(x), Operation(y), Then(<<x, y>>)
      PROVE  /\ Len(todo') = 2 /\ IsList(todo') /\ todo'[1] = x /\ todo'[2] = y
             /\ \A i \in 1..2 : Operation(todo'[i])
  <2>1. todo' = <<x, y>> \o Tail(todo)
    BY <1>6 DEF Then, rest
  <2>2. /\ IsList(todo') /\ Len(todo') = Len(todo) + 1 /\ todo'[1] = x /\ todo'[2] = y
    BY <1>1, <2>1, Replaced2
  <2>3. QED  BY <1>2, <1>6, <2>2
<1>7. ASSUME NEW x, NEW y, NEW z, Operation(x), Operation(y), Operation(z), Then(<<x, y, z>>)
      PROVE  /\ Len(todo') = 3 /\ IsList(todo') /\ todo'[1] = x /\ todo'[2] = y /\ todo'[3] = z
             /\ \A i \in 1..3 : Operation(todo'[i])
  <2>1. todo' = <<x, y, z>> \o Tail(todo)
    BY <1>7 DEF Then, rest
  <2>2. /\ IsList(todo') /\ Len(todo') = Len(todo) + 2
        /\ todo'[1] = x /\ todo'[2] = y /\ todo'[3] = z
    BY <1>1, <2>1, Replaced3
  <2>3. \A i \in 1..3 : i = 1 \/ i = 2 \/ i = 3
    OBVIOUS
  <2>4. QED  BY <1>2, <1>7, <2>2, <2>3
<1>8. CASE live = {} /\ current = {} /\ Then(<<deliver, seed>>)
  <2>1. Len(todo') = 2 /\ IsList(todo') /\ todo'[1] = deliver /\ todo'[2] = seed
          /\ \A i \in 1..2 : Operation(todo'[i])
    BY <1>3, <1>6, <1>8
  <2>2. \A i \in 2..2 : i = 2
    OBVIOUS
  <2>3. 1 \in 1..2
    OBVIOUS
  <2>4. QED  BY <1>3, <1>8, <2>1, <2>2, <2>3
<1>9. CASE live = {} /\ Then(<<clear, deliver, seed>>)
  <2>1. Len(todo') = 3 /\ IsList(todo') /\ todo'[1] = clear /\ todo'[2] = deliver /\ todo'[3] = seed
          /\ \A i \in 1..3 : Operation(todo'[i])
    BY <1>3, <1>7, <1>9
  <2>2. \A i \in 2..3 : i = 2 \/ i = 3
    OBVIOUS
  <2>3. 2 \in 1..3
    OBVIOUS
  <2>4. \A c \in current : c.page.url \in ignored \/ queueHasRecord(c.id)
    BY <1>9
  <2>5. QED  BY <1>3, <2>1, <2>2, <2>3, <2>4
<1>10. CASE \E c \in live : stillInFront(c) /\ Then(<<deliver, repair>>)
  <2>1. Len(todo') = 2 /\ IsList(todo') /\ todo'[1] = deliver /\ todo'[2] = repair
          /\ \A i \in 1..2 : Operation(todo'[i])
    BY <1>3, <1>6, <1>10
  <2>2. \A i \in 2..2 : i = 2
    OBVIOUS
  <2>3. 1 \in 1..2
    OBVIOUS
  <2>4. \A c \in current : /\ c.page.url \notin ignored /\ ~ queueHasRecord(c.id)
                           /\ focused /\ SamePlace(c.page, tab)
    BY <1>5, <1>10 DEF stillInFront
  <2>5. QED  BY <1>3, <2>1, <2>2, <2>3, <2>4
<1>11. CASE live # {} /\ Then(<<end, deliver, seed>>)
  <2>1. Len(todo') = 3 /\ IsList(todo') /\ todo'[1] = end /\ todo'[2] = deliver /\ todo'[3] = seed
          /\ \A i \in 1..3 : Operation(todo'[i])
    BY <1>3, <1>7, <1>11
  <2>2. \A i \in 2..3 : i = 2 \/ i = 3
    OBVIOUS
  <2>3. 2 \in 1..3
    OBVIOUS
  <2>4. \A c \in current : c.page.url \notin ignored /\ ~ queueHasRecord(c.id)
    BY <1>5, <1>11
  <2>5. QED  BY <1>3, <2>1, <2>2, <2>3, <2>4
<1>12. QED
  <2> HIDE DEF live
  <2>1. CASE live = {} /\ Then(resume(FALSE, IF current = {} THEN <<>> ELSE <<clear>>))
    BY <1>4, <1>8, <1>9, <2>1
  <2>2. CASE \E c \in live, b \in BOOLEAN :
               Then(IF b /\ stillInFront(c) THEN resume(TRUE, <<>>) ELSE resume(FALSE, <<end>>))
    BY <1>4, <1>10, <1>11, <2>2
  <2>3. QED  BY <1>1, <2>1, <2>2 DEF end

\* Recovery closes what has ended, clears what was handed over or is covered, and goes
\* on with what is still in front.
LEMMA ResolveStep ==
    ASSUME ExtensionInv, Resolve
    PROVE  ExtensionInv'
<1>1. /\ TypeInv /\ PlanInv /\ StoryInv /\ KeptInv /\ RulesInv /\ AlarmInv /\ FrontInv
      /\ awake /\ todo # <<>>
      /\ dropped' = dropped \union Ids(current \ {c \in current : c.page.url \notin ignored})
      /\ UNCHANGED <<now, tab, focused, word, ignored, queue, current, alarm>>
      /\ UNCHANGED <<minted, received, replaced>>
      /\ chain' = chain /\ awake' = awake
  BY DEF ExtensionInv, Resolve, At, browser, Then
<1>2. /\ Len(todo') \in Nat /\ Len(todo') > 1 /\ IsList(todo')
      /\ \A i \in 1..Len(todo') : Operation(todo'[i])
      /\ \A i \in 2..Len(todo') : todo'[i].do \in {"deliver", "repair", "seed"}
      /\ \E i \in 1..Len(todo') : todo'[i].do = "deliver"
      /\ \/ todo'[1].do = "deliver" /\ current = {}
         \/ /\ todo'[1].do = "clear"
            /\ \A c \in current : c.page.url \in ignored \/ queueHasRecord(c.id)
         \/ /\ todo'[1].do = "deliver" /\ todo'[2].do = "repair"
            /\ \A c \in current : /\ c.page.url \notin ignored /\ ~ queueHasRecord(c.id)
                                  /\ focused /\ SamePlace(c.page, tab)
         \/ /\ todo'[1].do = "finalize" /\ todo'[1].at <= now
            /\ \A c \in current : c.page.url \notin ignored /\ ~ queueHasRecord(c.id)
  BY Resolved
<1>3. \A i \in 1..Len(todo') :
        \/ i \in 2..Len(todo') /\ todo'[i].do \in {"deliver", "repair", "seed"}
        \/ i = 1 /\ todo'[i].do \in {"deliver", "clear", "finalize"}
  BY <1>2
<1>4. \A i \in 1..Len(todo') : todo'[i].do \in {"deliver", "repair", "seed", "clear", "finalize"}
  BY <1>3
<1>5. dropped' \in SUBSET Nat /\ dropped \subseteq dropped'
        /\ \A c \in current : c.page.url \in ignored => c.id \in dropped'
  BY <1>1 DEF TypeInv, Ids, Segment
<1>6. Known' = Known /\ 1 \in 1..Len(todo') /\ 2 \in 1..Len(todo')
  BY <1>1, <1>2 DEF Known
<1>7. TypeInv'
  BY <1>1, <1>2, <1>5 DEF TypeInv
<1>8. PlanInv'
  BY <1>1, <1>2, <1>4, <1>6 DEF PlanInv, Upcoming
<1>9. StoryInv'
  <2>1. OneStory' /\ (\A r \in Known : r.id <= minted)'
    BY <1>1, <1>6 DEF StoryInv, OneStory, Known
  <2>2. ASSUME NEW c \in current
        PROVE  Fresh(c)' \/ HandedOver(c)'
    <3>1. Fresh(c) => Fresh(c)'
      BY <1>1, <1>6 DEF Fresh, EndedBy
    <3>2. Fresh(c) \/ HandedOver(c)
      BY <1>1 DEF StoryInv
    <3>3. CASE queueHasRecord(c.id)
      <4>1. Fresh(c) \/ Upcoming({"resolve", "clear"})'
        BY <1>2, <3>3 DEF Upcoming
      <4>2. c.id \in Ids(ToSet(queue'))
        BY <1>1, <3>3 DEF queueHasRecord
      <4>3. QED  BY <3>1, <4>1, <4>2 DEF HandedOver
    <3>4. CASE ~ queueHasRecord(c.id)
      BY <3>1, <3>2, <3>4 DEF HandedOver, queueHasRecord
    <3>5. QED  BY <3>3, <3>4
  <2>3. (\A c \in current : c.start <= now /\ c.id \in 1..minted /\ (Fresh(c) \/ HandedOver(c)))'
    BY <1>1, <2>2 DEF StoryInv
  <2>4. \A i \in 1..Len(todo') : ~ (todo'[i].do \in {"start", "open", "write"})
    BY <1>4
  <2>5. (Upcoming({"finalize"}) => todo[1].at <= now)'
    BY <1>1, <1>2 DEF Upcoming
  <2>6. ~ Upcoming({"enqueue"})' /\ ~ Upcoming({"remove"})' /\ ~ Upcoming({"send", "remove"})'
    BY <1>4, <1>6 DEF Upcoming
  <2>7. QED  BY <2>1, <2>3, <2>4, <2>5, <2>6 DEF StoryInv
<1>10. KeptInv'
  <2>1. NothingLost'
    BY <1>1, <1>5 DEF KeptInv, NothingLost
  <2>2. Upcoming({"clear"})' => Ids(current) \subseteq Ids(Known) \union dropped'
    BY <1>2, <1>5 DEF Upcoming, Ids, queueHasRecord, Known
  <2>3. QED  BY <1>1, <1>6, <2>1, <2>2 DEF KeptInv
<1>11. RulesInv'
  <2>1. RulesHold'
    <3>1. (\E c \in current : c.page.url \in ignored) => Upcoming({"clear"})'
      BY <1>2 DEF Upcoming
    <3>2. ~ Upcoming({"enqueue"})' /\ ~ Upcoming({"write"})'
      BY <1>4, <1>6 DEF Upcoming
    <3>3. \A i \in 1..Len(todo') : ~ (todo'[i].do \in {"forget", "purge"})
      BY <1>4
    <3>4. \E i \in 1..Len(todo') : todo'[i].do \in {"resolve", "deliver", "purge"}
      BY <1>2
    <3>5. QED  BY <1>1, <3>1, <3>2, <3>3, <3>4 DEF RulesHold, Upcoming
  <2>2. QED  BY <1>1, <2>1, RulesStill
<1>12. AlarmInv'
  BY <1>1, <1>2, <1>6 DEF AlarmInv, Closing, Upcoming
<1>13. FrontInv'
  <2>1. FrontHolds'
    BY <1>1, <1>2, <1>4 DEF FrontHolds, Closing, Upcoming
  <2>2. QED  BY <1>1, <2>1, FrontStill
<1>14. QED  BY <1>7, <1>8, <1>9, <1>10, <1>11, <1>12, <1>13 DEF ExtensionInv
-----------------------------------------------------------------------------
(* The listeners.                                                          *)

\* The event that comes next leaves the chain.
LEMMA Shifted ==
    ASSUME IsList(chain), chain # <<>>, chain' = Tail(chain), NEW kinds
    PROVE  /\ IsList(chain') /\ Len(chain) \in Nat /\ Len(chain) > 0 /\ Head(chain) = chain[1]
           /\ \A i \in 1..Len(chain') : i + 1 \in 1..Len(chain) /\ chain'[i] = chain[i + 1]
           /\ \A i \in 1..Len(chain') : IsLast(i, Waiting(kinds)') => IsLast(i + 1, Waiting(kinds))
           /\ Waiting(kinds)' = {} =>
                IF chain[1].kind \in kinds THEN IsLast(1, Waiting(kinds)) ELSE Waiting(kinds) = {}
<1>1. /\ Len(chain) \in Nat /\ Len(chain) > 0 /\ Head(chain) = chain[1]
      /\ IsList(chain') /\ Len(chain') = Len(chain) - 1
      /\ \A i \in 1..(Len(chain) - 1) : chain'[i] = chain[i + 1]
  BY RestOfList
<1>2. \A i \in 1..Len(chain') : i + 1 \in 1..Len(chain) /\ chain'[i] = chain[i + 1]
  BY <1>1
<1>3. \A i \in 2..Len(chain) : i - 1 \in 1..Len(chain') /\ chain'[i - 1] = chain[i]
  BY <1>1
<1>4. \A i \in 1..Len(chain) : i = 1 \/ i \in 2..Len(chain)
  BY <1>1
<1>5. ASSUME NEW i \in 1..Len(chain'), IsLast(i, Waiting(kinds)')
      PROVE  IsLast(i + 1, Waiting(kinds))
  <2>1. i + 1 \in Waiting(kinds)
    BY <1>2, <1>5 DEF IsLast, Waiting
  <2>2. ASSUME NEW j \in Waiting(kinds)
        PROVE  j <= i + 1
    <3>1. j \in 1..Len(chain) /\ chain[j].kind \in kinds
      BY DEF Waiting
    <3>2. CASE j = 1
      BY <1>1, <3>2
    <3>3. CASE j \in 2..Len(chain)
      <4>1. j - 1 \in Waiting(kinds)'
        BY <1>3, <3>1, <3>3 DEF Waiting
      <4>2. j - 1 <= i
        BY <1>5, <4>1 DEF IsLast
      <4>3. QED  BY <1>1, <3>3, <4>2
    <3>4. QED  BY <1>4, <3>1, <3>2, <3>3
  <2>3. QED  BY <2>1, <2>2 DEF IsLast
<1>6. ASSUME Waiting(kinds)' = {}
      PROVE  IF chain[1].kind \in kinds THEN IsLast(1, Waiting(kinds)) ELSE Waiting(kinds) = {}
  <2>1. \A i \in 2..Len(chain) : chain[i].kind \notin kinds
    BY <1>3, <1>6 DEF Waiting
  <2>2. \A i \in Waiting(kinds) : i = 1 /\ chain[1].kind \in kinds
    BY <1>4, <2>1 DEF Waiting
  <2>3. 1 \in 1..Len(chain)
    BY <1>1
  <2>4. QED  BY <2>2, <2>3 DEF IsLast, Waiting
<1>7. QED  BY <1>1, <1>2, <1>5, <1>6

\* What the listeners make of an event.
LEMMA Listened ==
    ASSUME TypeInv, Dispatch
    PROVE  /\ (alarm' = alarm \/ (alarm' = FALSE /\ current = {}))
           /\ event.kind \in {"activated", "updated", "removed", "focus", "blur", "active",
                              "idle", "locked", "alarm", "rules", "suspend"}
           /\ \/ /\ todo' = <<>> /\ event.kind \notin {"focus", "blur", "rules"}
                 /\ event.kind = "activated" => ~focused
                 /\ event.kind = "updated" => ~focused \/ \E c \in current : c.page = event.page
              \/ todo' = <<finalize(now)>> /\ event.kind = "activated"
              \/ /\ focused /\ event.kind \in {"activated", "updated"}
                 /\ \E page \in Pages :
                      todo' = switchTo(page) /\ (event.page = tab => page = tab)
              \/ todo' = switchTo(tab) /\ event.kind = "focus"
              \/ /\ \E at \in Int : at <= now /\ todo' = Close(at)
                 /\ event.kind \notin {"activated", "updated", "focus", "rules"}
              \/ todo' = <<open(tab, now)>> /\ event.kind = "active" /\ focused
              \/ /\ todo' = <<forget(event.patterns), purge(event.patterns)>>
                 /\ event.kind = "rules" /\ event.patterns \in Rules
              \/ todo' = <<deliver>> /\ event.kind = "suspend"
<1>1. /\ chain # <<>> /\ IsList(chain) /\ now \in Nat
      /\ \A i \in 1..Len(chain) : Event(chain[i])
  BY DEF Dispatch, TypeInv
<1>2. Event(event)
  <2>1. Len(chain) \in Nat /\ Len(chain) > 0 /\ Head(chain) = chain[1]
    BY <1>1, RestOfList
  <2>2. QED  BY <1>1, <2>1 DEF event
<1>3. /\ now \in Int /\ now <= now /\ \A at \in 0..now : at \in Int /\ at <= now
      /\ \A state : idleEndsAt(state) \in Int /\ idleEndsAt(state) <= now
  <2>1. \A state : idleEndsAt(state) = now - IDLE_INTERVAL \/ idleEndsAt(state) = now
    BY DEF idleEndsAt
  <2>2. now - IDLE_INTERVAL \in Int /\ now - IDLE_INTERVAL <= now
    BY <1>1, Numbers
  <2>3. QED  BY <1>1, <2>1, <2>2
<1> HIDE DEF event
<1>4. CASE OnActivated
  BY <1>2, <1>4 DEF OnActivated, Shown, Event
<1>5. CASE OnUpdated
  BY <1>2, <1>5 DEF OnUpdated, Begin, Event
<1>6. CASE OnFocusChanged
  BY <1>3, <1>6 DEF OnFocusChanged, Begin
<1>7. CASE OnRemoved
  BY <1>3, <1>7 DEF OnRemoved, Begin
<1>8. CASE OnAlarm
  BY <1>3, <1>8 DEF OnAlarm, Begin, DaemonIdle, DaemonActive, Usable, Unusable
<1>9. CASE OnStateChanged
  BY <1>3, <1>9 DEF OnStateChanged, Begin, DaemonIdle, DaemonActive, Usable, Unusable
<1>10. CASE OnRulesChanged
  BY <1>2, <1>10 DEF OnRulesChanged, Begin, Event
<1>11. CASE OnSuspend
  BY <1>11 DEF OnSuspend, Begin
<1>12. QED  BY <1>4, <1>5, <1>6, <1>7, <1>8, <1>9, <1>10, <1>11 DEF Dispatch

\* The task that begins, operation by operation.
LEMMA Planned ==
    ASSUME TypeInv, Dispatch
    PROVE  /\ IsList(todo') /\ \A i \in 1..Len(todo') : Operation(todo'[i])
           /\ Len(todo') > 0 => 1 \in 1..Len(todo')
           /\ \A i \in 1..Len(todo') :
                \/ i = 1 /\ todo'[1].do \in {"finalize", "open", "forget", "deliver"}
                \/ i \in 2..Len(todo') /\ todo'[i].do \in {"start", "deliver", "purge"}
           /\ \A i \in 1..Len(todo') : todo'[i].do = "finalize" => todo'[i].at <= now
           /\ \A i \in 1..Len(todo') : todo'[i].do \in Begins =>
                /\ todo'[i].at = now
                /\ \/ event.kind = "focus" /\ todo'[i].page = tab
                   \/ /\ event.kind \in {"activated", "updated"} /\ focused
                      /\ event.page = tab => todo'[i].page = tab
                   \/ event.kind = "active" /\ focused /\ todo'[i].page = tab
           /\ \A i \in 1..Len(todo') : todo'[i].do \in {"forget", "purge"} =>
                event.kind = "rules" /\ todo'[i].patterns = event.patterns
           /\ event.kind = "rules" =>
                Len(todo') = 2 /\ todo'[1].do = "forget" /\ todo'[2].do = "purge"
           /\ event.kind \in {"focus", "blur"} => Len(todo') > 0 /\ todo'[1].do = "finalize"
           /\ event.kind = "activated" => ~focused \/ (Len(todo') > 0 /\ todo'[1].do = "finalize")
           /\ event.kind = "updated" =>
                \/ ~focused \/ (Len(todo') > 0 /\ todo'[1].do = "finalize")
                \/ \E c \in current : c.page = event.page
<1>1. now \in Nat /\ tab \in Pages
  BY DEF TypeInv
<1>2. /\ 1 \in 1..1 /\ 1..0 = {} /\ 2..1 = {}
      /\ \A i \in 1..1 : i = 1
      /\ \A i \in 1..2 : i = 1 \/ i = 2
      /\ \A i \in 1..3 : i = 1 \/ i = 2 \/ i = 3
      /\ 1 \in 1..2 /\ 1 \in 1..3 /\ 2 \in 2..2 /\ 2 \in 2..3 /\ 3 \in 2..3
  OBVIOUS
<1> HIDE DEF event
<1>3. CASE todo' = <<>> /\ event.kind \notin {"focus", "blur", "rules"}
             /\ (event.kind = "activated" => ~focused)
             /\ (event.kind = "updated" => ~focused \/ \E c \in current : c.page = event.page)
  <2>1. IsList(todo') /\ Len(todo') = 0
    BY <1>3, EmptyList
  <2>2. QED  BY <1>2, <1>3, <2>1
<1>4. CASE todo' = <<finalize(now)>> /\ event.kind = "activated"
  <2>1. finalize(now).do = "finalize" /\ finalize(now).at = now /\ Operation(finalize(now))
    BY <1>1 DEF finalize, Operation
  <2>2. IsList(todo') /\ Len(todo') = 1 /\ todo'[1] = finalize(now)
    BY <1>4, ShortLists
  <2>3. QED  BY <1>1, <1>2, <1>4, <2>1, <2>2 DEF Begins
<1>5. ASSUME NEW page \in Pages, todo' = switchTo(page)
      PROVE  /\ IsList(todo') /\ Len(todo') = 3 /\ \A i \in 1..3 : Operation(todo'[i])
             /\ todo'[1].do = "finalize" /\ todo'[1].at = now
             /\ todo'[2].do = "start" /\ todo'[2].at = now /\ todo'[2].page = page
             /\ todo'[3].do = "deliver"
  <2>1. IsList(todo') /\ Len(todo') = 3 /\ todo'[1] = finalize(now)
          /\ todo'[2] = start(page, now) /\ todo'[3] = deliver
    BY <1>5, ShortLists DEF switchTo
  <2>2. /\ Operation(finalize(now)) /\ Operation(start(page, now)) /\ Operation(deliver)
        /\ finalize(now).do = "finalize" /\ finalize(now).at = now
        /\ start(page, now).do = "start" /\ start(page, now).at = now /\ start(page, now).page = page
        /\ deliver.do = "deliver"
    BY <1>1 DEF Operation, finalize, start, deliver
  <2>3. QED  BY <1>2, <2>1, <2>2
<1>6. CASE /\ focused /\ event.kind \in {"activated", "updated"}
           /\ \E page \in Pages : todo' = switchTo(page) /\ (event.page = tab => page = tab)
  <2>1. PICK page \in Pages : todo' = switchTo(page) /\ (event.page = tab => page = tab)
    BY <1>6
  <2>2. /\ IsList(todo') /\ Len(todo') = 3 /\ \A i \in 1..3 : Operation(todo'[i])
        /\ todo'[1].do = "finalize" /\ todo'[1].at = now
        /\ todo'[2].do = "start" /\ todo'[2].at = now /\ todo'[2].page = page
        /\ todo'[3].do = "deliver"
    BY <1>5, <2>1
  <2>3. QED  BY <1>1, <1>2, <1>6, <2>1, <2>2 DEF Begins
<1>7. CASE todo' = switchTo(tab) /\ event.kind = "focus"
  <2>1. /\ IsList(todo') /\ Len(todo') = 3 /\ \A i \in 1..3 : Operation(todo'[i])
        /\ todo'[1].do = "finalize" /\ todo'[1].at = now
        /\ todo'[2].do = "start" /\ todo'[2].at = now /\ todo'[2].page = tab
        /\ todo'[3].do = "deliver"
    BY <1>1, <1>5, <1>7
  <2>2. QED  BY <1>1, <1>2, <1>7, <2>1 DEF Begins
<1>8. CASE /\ \E at \in Int : at <= now /\ todo' = Close(at)
           /\ event.kind \notin {"activated", "updated", "focus", "rules"}
  <2>1. PICK at \in Int : at <= now /\ todo' = Close(at)
    BY <1>8
  <2>2. IsList(todo') /\ Len(todo') = 2 /\ todo'[1] = finalize(at) /\ todo'[2] = deliver
    BY <2>1, ShortLists DEF Close
  <2>3. /\ Operation(finalize(at)) /\ Operation(deliver)
        /\ finalize(at).do = "finalize" /\ finalize(at).at = at /\ deliver.do = "deliver"
    BY DEF Operation, finalize, deliver
  <2>4. /\ \A i \in 1..2 : Operation(todo'[i])
        /\ todo'[1].do = "finalize" /\ todo'[1].at <= now /\ todo'[2].do = "deliver"
    BY <1>2, <2>1, <2>2, <2>3
  <2>5. QED  BY <1>2, <1>8, <2>2, <2>4 DEF Begins
<1>9. CASE todo' = <<open(tab, now)>> /\ event.kind = "active" /\ focused
  <2>1. /\ open(tab, now).do = "open" /\ open(tab, now).at = now /\ open(tab, now).page = tab
        /\ Operation(open(tab, now))
    BY <1>1 DEF open, Operation
  <2>2. IsList(todo') /\ Len(todo') = 1 /\ todo'[1] = open(tab, now)
    BY <1>9, ShortLists
  <2>3. QED  BY <1>1, <1>2, <1>9, <2>1, <2>2 DEF Begins
<1>10. CASE /\ todo' = <<forget(event.patterns), purge(event.patterns)>>
            /\ event.kind = "rules" /\ event.patterns \in Rules
  <2>1. IsList(todo') /\ Len(todo') = 2 /\ todo'[1] = forget(event.patterns)
          /\ todo'[2] = purge(event.patterns)
    BY <1>10, ShortLists
  <2>2. /\ forget(event.patterns).do = "forget" /\ forget(event.patterns).patterns = event.patterns
        /\ purge(event.patterns).do = "purge" /\ purge(event.patterns).patterns = event.patterns
        /\ Operation(forget(event.patterns)) /\ Operation(purge(event.patterns))
    BY <1>10 DEF forget, purge, Operation
  <2>3. QED  BY <1>2, <1>10, <2>1, <2>2 DEF Begins
<1>11. CASE todo' = <<deliver>> /\ event.kind = "suspend"
  <2>1. deliver.do = "deliver" /\ Operation(deliver)
    BY DEF deliver, Operation
  <2>2. IsList(todo') /\ Len(todo') = 1 /\ todo'[1] = deliver
    BY <1>11, ShortLists
  <2>3. QED  BY <1>2, <1>11, <2>1, <2>2 DEF Begins
<1>12. QED  BY <1>3, <1>4, <1>6, <1>7, <1>8, <1>9, <1>10, <1>11, Listened

\* A task begins where the one before it left everything in order.
LEMMA DispatchStep ==
    ASSUME ExtensionInv, Dispatch
    PROVE  ExtensionInv'
<1>1. /\ TypeInv /\ PlanInv /\ StoryInv /\ KeptInv /\ RulesInv /\ AlarmInv /\ FrontInv
      /\ awake /\ todo = <<>> /\ chain # <<>> /\ chain' = Tail(chain)
      /\ UNCHANGED <<now, tab, focused, word, ignored, queue, current, awake>>
      /\ UNCHANGED <<minted, received, dropped, replaced>>
  BY DEF ExtensionInv, Dispatch, browser, history
<1>2. Len(todo) = 0 /\ \A dos : ~Upcoming(dos)
  BY <1>1, EmptyList DEF Upcoming
<1>3. /\ IsList(chain) /\ Len(chain) \in Nat /\ Len(chain) > 0 /\ event = chain[1]
      /\ IsList(chain') /\ 1 \in 1..Len(chain)
      /\ \A i \in 1..Len(chain') : i + 1 \in 1..Len(chain) /\ chain'[i] = chain[i + 1]
  <2>1. IsList(chain)
    BY <1>1 DEF TypeInv
  <2>2. QED  BY <1>1, <2>1, Shifted DEF event
<1>4. alarm' = alarm \/ (alarm' = FALSE /\ current = {})
  BY <1>1, Listened
<1>5. /\ IsList(todo') /\ \A i \in 1..Len(todo') : Operation(todo'[i])
      /\ Len(todo') > 0 => 1 \in 1..Len(todo')
      /\ \A i \in 1..Len(todo') :
           \/ i = 1 /\ todo'[1].do \in {"finalize", "open", "forget", "deliver"}
           \/ i \in 2..Len(todo') /\ todo'[i].do \in {"start", "deliver", "purge"}
      /\ \A i \in 1..Len(todo') : todo'[i].do = "finalize" => todo'[i].at <= now
      /\ \A i \in 1..Len(todo') : todo'[i].do \in Begins =>
           /\ todo'[i].at = now
           /\ \/ event.kind = "focus" /\ todo'[i].page = tab
              \/ /\ event.kind \in {"activated", "updated"} /\ focused
                 /\ event.page = tab => todo'[i].page = tab
              \/ event.kind = "active" /\ focused /\ todo'[i].page = tab
      /\ \A i \in 1..Len(todo') : todo'[i].do \in {"forget", "purge"} =>
           event.kind = "rules" /\ todo'[i].patterns = event.patterns
      /\ event.kind = "rules" =>
           Len(todo') = 2 /\ todo'[1].do = "forget" /\ todo'[2].do = "purge"
      /\ event.kind \in {"focus", "blur"} => Len(todo') > 0 /\ todo'[1].do = "finalize"
      /\ event.kind = "activated" => ~focused \/ (Len(todo') > 0 /\ todo'[1].do = "finalize")
      /\ event.kind = "updated" =>
           \/ ~focused \/ (Len(todo') > 0 /\ todo'[1].do = "finalize")
           \/ \E c \in current : c.page = event.page
  BY <1>1, Planned
<1> HIDE DEF event
<1>6. Len(todo') > 0 => todo'[1].do \in {"finalize", "open", "forget", "deliver"}
  <2>1. ~ (1 \in 2..Len(todo'))
    BY <1>5 DEF IsList
  <2>2. QED  BY <1>5, <2>1
<1>7. \A i \in 2..Len(todo') : todo'[i].do \in {"start", "deliver", "purge"}
  <2>1. \A i \in 2..Len(todo') : i \in 1..Len(todo') /\ i # 1
    BY <1>5 DEF IsList
  <2>2. QED  BY <1>5, <2>1
<1>8. \A c \in current : Fresh(c)
  BY <1>1, <1>2 DEF StoryInv, HandedOver
<1>9. Known' = Known /\ EndedBy(now)
  BY <1>1, EndedByNow DEF Known
<1>10. TypeInv'
  <2>1. \A i \in 1..Len(chain') : Event(chain'[i])
    BY <1>1, <1>3 DEF TypeInv
  <2>2. alarm' \in BOOLEAN
    BY <1>1, <1>4 DEF TypeInv
  <2>3. QED  BY <1>1, <1>3, <1>5, <2>1, <2>2 DEF TypeInv
<1>11. PlanInv'
  BY <1>1, <1>6, <1>7 DEF PlanInv, Upcoming
<1>12. StoryInv'
  <2>1. OneStory' /\ (\A r \in Known : r.id <= minted)'
    BY <1>1, <1>9 DEF StoryInv, OneStory, Known
  <2>2. (\A c \in current : c.start <= now /\ c.id \in 1..minted /\ Fresh(c))'
    BY <1>1, <1>8, <1>9 DEF StoryInv, Fresh, EndedBy
  <2>3. (Upcoming({"finalize"}) => todo[1].at <= now)'
    BY <1>1, <1>5 DEF Upcoming
  <2>4. ~ Upcoming({"enqueue"})' /\ ~ Upcoming({"remove"})' /\ ~ Upcoming({"send", "remove"})'
    BY <1>6 DEF Upcoming
  <2>5. (\A i \in 1..Len(todo) : todo[i].do \in Begins =>
           /\ todo[i].at <= now /\ EndedBy(todo[i].at)
           /\ Upcoming({"finalize"}) => todo[1].at <= todo[i].at)'
    <3>1. now <= now
      BY <1>1 DEF TypeInv
    <3>2. \A i \in 1..Len(todo') : todo'[i].do \in Begins => todo'[i].at = now'
      BY <1>1, <1>5
    <3>3. EndedBy(now)'
      BY <1>1, <1>9 DEF EndedBy
    <3>4. QED  BY <1>1, <2>3, <3>1, <3>2, <3>3
  <2>6. QED  BY <2>1, <2>2, <2>3, <2>4, <2>5 DEF StoryInv, Begins
<1>13. KeptInv'
  BY <1>1, <1>6 DEF KeptInv, NothingLost, Upcoming
<1>14. RulesInv'
  <2> DEFINE kinds == {"rules"}
  <2>1. /\ \A i \in 1..Len(chain') : IsLast(i, Waiting(kinds)') => IsLast(i + 1, Waiting(kinds))
        /\ Waiting(kinds)' = {} =>
             IF chain[1].kind \in kinds THEN IsLast(1, Waiting(kinds)) ELSE Waiting(kinds) = {}
    BY <1>1, <1>3, Shifted
  <2>2. \A i \in 1..Len(chain') : IsLast(i, Waiting({"rules"})') => chain'[i].patterns = ignored
    BY <1>1, <1>3, <2>1 DEF RulesInv
  <2>3. ~ Upcoming({"enqueue"})' /\ ~ Upcoming({"write"})'
    BY <1>6 DEF Upcoming
  <2>4. ASSUME Waiting(kinds)' = {}, event.kind = "rules"
        PROVE  RulesHold'
    <3>1. event.patterns = ignored
      BY <1>1, <1>3, <2>1, <2>4 DEF RulesInv
    <3>2. Upcoming({"resolve", "clear", "forget"})'
      BY <1>5, <2>4 DEF Upcoming
    <3>3. 2 \in 1..Len(todo') /\ todo'[2].do = "purge"
      BY <1>5, <2>4
    <3>4. \A i \in 1..Len(todo') : todo'[i].do \in {"forget", "purge"} => todo'[i].patterns = ignored
      BY <1>5, <3>1
    <3>5. QED  BY <1>1, <2>3, <3>2, <3>3, <3>4 DEF RulesHold
  <2>5. ASSUME Waiting(kinds)' = {}, event.kind # "rules"
        PROVE  RulesHold'
    <3>1. RulesHold
      BY <1>1, <1>3, <2>1, <2>5 DEF RulesInv
    <3>2. /\ \A c \in current : c.page.url \notin ignored
          /\ \A r \in ToSet(queue) : r.page.url \notin ignored
      BY <1>2, <3>1 DEF RulesHold
    <3>3. \A i \in 1..Len(todo') : ~ (todo'[i].do \in {"forget", "purge"})
      BY <1>5, <2>5
    <3>4. QED  BY <1>1, <2>3, <3>2, <3>3 DEF RulesHold
  <2>6. QED  BY <1>1, <2>2, <2>4, <2>5 DEF RulesInv
<1>15. AlarmInv'
  <2>1. current # {} => alarm
    BY <1>1, <1>2 DEF AlarmInv, Closing
  <2>2. QED  BY <1>1, <1>4, <2>1 DEF AlarmInv
<1>16. FrontInv'
  <2> DEFINE turns == {"focus", "blur"}
             shows == {"activated", "updated"}
  <2>1. /\ \A i \in 1..Len(chain') : IsLast(i, Waiting(turns)') => IsLast(i + 1, Waiting(turns))
        /\ Waiting(turns)' = {} =>
             IF chain[1].kind \in turns THEN IsLast(1, Waiting(turns)) ELSE Waiting(turns) = {}
    BY <1>1, <1>3, Shifted
  <2>2. /\ \A i \in 1..Len(chain') : IsLast(i, Waiting(shows)') => IsLast(i + 1, Waiting(shows))
        /\ Waiting(shows)' = {} =>
             IF chain[1].kind \in shows THEN IsLast(1, Waiting(shows)) ELSE Waiting(shows) = {}
    BY <1>1, <1>3, Shifted
  <2>3. \A i \in 1..Len(chain') : IsLast(i, Turns') => (chain'[i].kind = "focus") = focused
    BY <1>1, <1>3, <2>1 DEF FrontInv, Turns
  <2>4. \A i \in 1..Len(chain') : IsLast(i, Shows') => chain'[i].page = tab
    BY <1>1, <1>3, <2>2 DEF FrontInv, Shows
  <2>5. Shows' = {} /\ event.kind \in shows => event.page = tab
    BY <1>1, <1>3, <2>2 DEF FrontInv, Shows
  <2>6. Turns' = {} /\ event.kind \in turns => (event.kind = "focus") = focused
    BY <1>1, <1>3, <2>1 DEF FrontInv, Turns
  <2>7. Turns' = {} /\ event.kind \notin turns => FrontHolds
    BY <1>1, <1>3, <2>1 DEF FrontInv, Turns
  <2>8. Shows' = {} /\ event.kind \notin shows => Shows = {}
    BY <1>3, <2>2 DEF Shows
  <2>9. ASSUME Turns' = {}
        PROVE  \A i \in 1..Len(todo') : todo'[i].do \in Begins =>
                 focused /\ (Shows' = {} => todo'[i].page = tab)
    <3>1. event.kind = "focus" => focused
      BY <2>6, <2>9
    <3>2. QED  BY <1>5, <2>5, <3>1
  <2>10. ASSUME Turns' = {}, NEW c \in current
         PROVE  Closing' \/ (focused /\ (Shows' = {} => SamePlace(c.page, tab)))
    <3>1. CASE Len(todo') > 0 /\ todo'[1].do = "finalize"
      BY <3>1 DEF Closing, Upcoming
    <3>2. CASE ~ (Len(todo') > 0 /\ todo'[1].do = "finalize")
      <4>1. event.kind \notin turns
        BY <1>5, <3>2
      <4>2. focused /\ (Shows = {} => SamePlace(c.page, tab))
        BY <1>2, <2>7, <2>10, <4>1 DEF FrontHolds, Closing
      <4>3. CASE event.kind \in shows
        <5>1. event.kind = "updated" /\ \E d \in current : d.page = event.page
          BY <1>5, <3>2, <4>2, <4>3
        <5>2. c.page = event.page
          BY <1>1, <5>1 DEF TypeInv
        <5>3. QED  BY <2>5, <4>2, <4>3, <5>2 DEF SamePlace
      <4>4. CASE event.kind \notin shows
        BY <2>8, <4>2, <4>4
      <4>5. QED  BY <4>3, <4>4
    <3>3. QED  BY <3>1, <3>2
  <2>11. Turns' = {} => FrontHolds'
    BY <1>1, <2>9, <2>10 DEF FrontHolds, Begins
  <2>12. QED  BY <1>1, <2>3, <2>4, <2>11 DEF FrontInv
<1>17. QED  BY <1>10, <1>11, <1>12, <1>13, <1>14, <1>15, <1>16 DEF ExtensionInv
-----------------------------------------------------------------------------
(* The start, and the steps of the environment.                            *)

\* A worker that starts has one thing to do.
LEMMA Recovering ==
    LET t == <<[do |-> "resolve"]>> IN
    /\ IsList(t) /\ Len(t) = 1 /\ t[1].do = "resolve"
    /\ \A i \in 1..Len(t) : i = 1 /\ Operation(t[i]) /\ t[i].do = "resolve"
    /\ 1 \in 1..Len(t) /\ 2..Len(t) = {}
<1> DEFINE x == [do |-> "resolve"]
<1>1. x.do = "resolve"
  OBVIOUS
<1>2. Operation(x)
  BY DEF Operation
<1> HIDE DEF x
<1>3. IsList(<<x>>) /\ Len(<<x>>) = 1 /\ <<x>>[1] = x
  BY ShortLists
<1>4. 1 \in 1..1 /\ 2..1 = {} /\ \A i \in 1..1 : i = 1
  OBVIOUS
<1>5. QED  BY <1>1, <1>2, <1>3, <1>4 DEF x

\* Nothing is timed, queued or lost at first.
LEMMA InitHolds ==
    ASSUME Init
    PROVE  ExtensionInv
<1>1. /\ now = 0 /\ tab \in Pages /\ focused = TRUE /\ word = "active"
      /\ ignored \in Rules
      /\ queue = <<>> /\ current = {} /\ alarm = FALSE
      /\ awake = TRUE /\ chain = <<>> /\ todo = <<[do |-> "resolve"]>>
      /\ minted = 0 /\ received = {} /\ dropped = {} /\ replaced = {}
  BY DEF Init
<1>2. /\ IsList(todo) /\ Len(todo) = 1 /\ todo[1].do = "resolve"
      /\ \A i \in 1..Len(todo) : i = 1 /\ Operation(todo[i]) /\ todo[i].do = "resolve"
      /\ 1 \in 1..Len(todo) /\ 2..Len(todo) = {}
  BY <1>1, Recovering
<1>3. /\ IsList(chain) /\ Len(chain) = 0 /\ 1..Len(chain) = {}
  BY <1>1, EmptyList
<1>4. queue \in Seq(Record) /\ Len(queue) = 0 /\ ToSet(queue) = {} /\ Known = {}
  BY <1>1 DEF ToSet, Known
<1>5. Upcoming({"resolve"}) /\ Upcoming({"resolve", "clear"})
        /\ \A dos : Upcoming(dos) => "resolve" \in dos
  BY <1>2 DEF Upcoming
<1>6. TypeInv
  BY <1>1, <1>2, <1>3, <1>4 DEF TypeInv
<1>7. PlanInv
  BY <1>1, <1>2, <1>5 DEF PlanInv
<1>8. StoryInv
  <2>1. OneStory
    BY <1>4 DEF OneStory, Known
  <2>2. QED  BY <1>1, <1>2, <1>4, <1>5, <2>1 DEF StoryInv
<1>9. KeptInv
  <2>1. 1..minted = {} /\ Len(queue) <= QUEUE_LIMIT
    BY <1>1, <1>4, Numbers
  <2>2. QED  BY <1>5, <2>1 DEF KeptInv, NothingLost
<1>10. RulesInv
  BY <1>1, <1>2, <1>3, <1>4, <1>5 DEF RulesInv, RulesHold
<1>11. AlarmInv
  BY <1>1 DEF AlarmInv
<1>12. FrontInv
  BY <1>1, <1>2, <1>3 DEF FrontInv, FrontHolds
<1>13. QED  BY <1>6, <1>7, <1>8, <1>9, <1>10, <1>11, <1>12 DEF ExtensionInv

\* Time passes.
LEMMA TickStep ==
    ASSUME ExtensionInv, Tick
    PROVE  ExtensionInv'
<1>1. /\ TypeInv /\ PlanInv /\ StoryInv /\ KeptInv /\ RulesInv /\ AlarmInv /\ FrontInv
      /\ now' = now + 1
      /\ UNCHANGED <<tab, focused, word, ignored, queue, current, source, alarm>>
      /\ UNCHANGED <<awake, chain, todo, minted, received, dropped, replaced>>
  BY DEF ExtensionInv, Tick, storage, worker, history
<1>2. now \in Nat /\ now' \in Nat
  BY <1>1 DEF TypeInv
<1>3. TypeInv'
  BY <1>1, <1>2 DEF TypeInv
<1>4. Known' = Known /\ \A dos : Upcoming(dos)' = Upcoming(dos)
  BY <1>1 DEF Known, Upcoming
<1>5. PlanInv'
  BY <1>1 DEF PlanInv, Upcoming
<1>6. Known \subseteq Record /\ \A r \in Known : r.end \in Nat
  <2>1. queue \in Seq(Record) /\ received \subseteq Record
    BY <1>1 DEF TypeInv
  <2>2. Known \subseteq Record
    BY <2>1, SeqMembers DEF Known
  <2>3. QED  BY <2>2 DEF Record
<1>7. \A x \in Int : x <= now => x <= now'
  BY <1>1, <1>2
<1>8. OneStory'
  BY <1>1, <1>4, <1>6, <1>7 DEF StoryInv, OneStory, Known
<1>9. (\A r \in Known : r.id <= minted)'
  BY <1>1, <1>4 DEF StoryInv
<1>10. (\A c \in current : c.start <= now /\ c.id \in 1..minted /\ (Fresh(c) \/ HandedOver(c)))'
  <2>1. \A c \in current : c.start \in Nat
    BY <1>1 DEF TypeInv, Segment
  <2>2. \A c \in current : (Fresh(c) \/ HandedOver(c))'
    BY <1>1, <1>4 DEF StoryInv, Fresh, HandedOver, EndedBy
  <2>3. QED  BY <1>1, <1>7, <2>1, <2>2 DEF StoryInv
<1>11. \A i \in 1..Len(todo) : Operation(todo[i])
  BY <1>1 DEF TypeInv
<1>12. Len(todo) > 0 => 1 \in 1..Len(todo)
  BY <1>1 DEF TypeInv, IsList
<1>13. (Upcoming({"finalize"}) => todo[1].at <= now)'
  <2>1. Upcoming({"finalize"}) => todo[1].at \in Int
    BY <1>11, <1>12 DEF Upcoming, Operation
  <2>2. QED  BY <1>1, <1>4, <1>7, <2>1 DEF StoryInv
<1>14. (Upcoming({"enqueue"}) =>
        LET r == todo[1].rec IN
        /\ r.start + MIN_DURATION <= r.end /\ r.end <= now
        /\ current = {[id |-> r.id, page |-> r.page, start |-> r.start]})'
  <2>1. Upcoming({"enqueue"}) => todo[1].rec \in Record
    BY <1>11, <1>12 DEF Upcoming, Operation
  <2>2. \A r \in Record : r.end \in Int
    BY DEF Record
  <2>3. QED  BY <1>1, <1>4, <1>7, <2>1, <2>2 DEF StoryInv
<1>15. (\A i \in 1..Len(todo) : todo[i].do \in {"start", "open", "write"} =>
        /\ todo[i].at <= now /\ EndedBy(todo[i].at)
        /\ Upcoming({"finalize"}) => todo[1].at <= todo[i].at
        /\ Upcoming({"enqueue"}) => todo[1].rec.end <= todo[i].at)'
  <2>1. \A i \in 1..Len(todo) : todo[i].do \in {"start", "open", "write"} => todo[i].at \in Int
    BY <1>11 DEF Operation
  <2>2. QED  BY <1>1, <1>4, <1>7, <2>1 DEF StoryInv, EndedBy
<1>16. (/\ Upcoming({"send", "remove"}) => todo[1].batch \subseteq Known
        /\ Upcoming({"remove"}) => todo[1].batch \subseteq received)'
  BY <1>1, <1>4 DEF StoryInv
<1>17. StoryInv'
  BY <1>8, <1>9, <1>10, <1>13, <1>14, <1>15, <1>16 DEF StoryInv
<1>18. KeptInv'
  BY <1>1, <1>4 DEF KeptInv, NothingLost
<1>19. RulesInv'
  BY <1>1 DEF RulesInv, RulesHold, Waiting, IsLast, Upcoming
<1>20. AlarmInv'
  BY <1>1 DEF AlarmInv, Closing, Upcoming
<1>21. FrontInv'
  BY <1>1 DEF FrontInv, FrontHolds, Turns, Shows, Waiting, IsLast, Closing, Upcoming
<1>22. QED  BY <1>3, <1>5, <1>17, <1>18, <1>19, <1>20, <1>21 DEF ExtensionInv

\* What waits when events have joined the chain.
LEMMA Appended ==
    ASSUME IsList(chain), NEW events, IsList(events), chain' = chain \o events, NEW kinds
    PROVE  /\ IsList(chain')
           /\ \A i \in 1..Len(chain') :
                \/ i \in 1..Len(chain) /\ chain'[i] = chain[i]
                \/ \E j \in 1..Len(events) : chain'[i] = events[j]
           /\ \A i \in 1..Len(chain') : IsLast(i, Waiting(kinds)') =>
                \/ /\ i \in 1..Len(chain) /\ chain'[i] = chain[i] /\ IsLast(i, Waiting(kinds))
                   /\ \A j \in 1..Len(events) : events[j].kind \notin kinds
                \/ \E j \in 1..Len(events) : chain'[i] = events[j] /\ events[j].kind \in kinds
           /\ Waiting(kinds)' = {} =>
                Waiting(kinds) = {} /\ \A j \in 1..Len(events) : events[j].kind \notin kinds
<1>1. /\ IsList(chain') /\ Len(chain') = Len(chain) + Len(events)
      /\ Len(chain) \in Nat /\ Len(events) \in Nat
      /\ \A i \in 1..Len(chain) : chain'[i] = chain[i]
      /\ \A i \in (Len(chain) + 1)..(Len(chain) + Len(events)) : chain'[i] = events[i - Len(chain)]
  BY JoinedList
<1>2. ASSUME NEW i \in 1..Len(chain')
      PROVE  \/ i \in 1..Len(chain) /\ chain'[i] = chain[i]
             \/ \E j \in 1..Len(events) : chain'[i] = events[j]
  <2>1. CASE i \in 1..Len(chain)
    BY <1>1, <2>1
  <2>2. CASE i \notin 1..Len(chain)
    <3>1. i \in (Len(chain) + 1)..(Len(chain) + Len(events)) /\ i - Len(chain) \in 1..Len(events)
      BY <1>1, <2>2
    <3>2. QED  BY <1>1, <3>1
  <2>3. QED  BY <2>1, <2>2
<1>3. \A j \in 1..Len(events) : /\ Len(chain) + j \in 1..Len(chain')
                                /\ chain'[Len(chain) + j] = events[j]
                                /\ Len(chain) + j > Len(chain)
  <2> TAKE j \in 1..Len(events)
  <2>1. /\ Len(chain) + j \in (Len(chain) + 1)..(Len(chain) + Len(events))
        /\ Len(chain) + j - Len(chain) = j /\ Len(chain) + j \in 1..Len(chain')
        /\ Len(chain) + j > Len(chain)
    BY <1>1
  <2>2. QED  BY <1>1, <2>1
<1>4. \A i \in 1..Len(chain) : i \in 1..Len(chain') /\ i <= Len(chain)
  BY <1>1
<1>5. ASSUME NEW i \in 1..Len(chain'), IsLast(i, Waiting(kinds)')
      PROVE  \/ /\ i \in 1..Len(chain) /\ chain'[i] = chain[i] /\ IsLast(i, Waiting(kinds))
                /\ \A j \in 1..Len(events) : events[j].kind \notin kinds
             \/ \E j \in 1..Len(events) : chain'[i] = events[j] /\ events[j].kind \in kinds
  <2>1. /\ chain'[i].kind \in kinds
        /\ \A k \in 1..Len(chain') : chain'[k].kind \in kinds => k <= i
    BY <1>5 DEF IsLast, Waiting
  <2>2. CASE \E j \in 1..Len(events) : chain'[i] = events[j]
    BY <2>1, <2>2
  <2>3. CASE ~ \E j \in 1..Len(events) : chain'[i] = events[j]
    <3>1. i \in 1..Len(chain) /\ chain'[i] = chain[i]
      BY <1>2, <2>3
    <3>2. \A k \in Waiting(kinds) : k <= i
      BY <1>1, <1>4, <2>1 DEF Waiting
    <3>3. ASSUME NEW j \in 1..Len(events), events[j].kind \in kinds
          PROVE  FALSE
      <4>1. Len(chain) + j <= i /\ Len(chain) + j > Len(chain) /\ i <= Len(chain)
        BY <1>3, <1>4, <2>1, <3>1, <3>3
      <4>2. QED  BY <1>1, <4>1
    <3>4. QED  BY <2>1, <3>1, <3>2, <3>3 DEF IsLast, Waiting
  <2>4. QED  BY <2>2, <2>3
<1>6. ASSUME Waiting(kinds)' = {}
      PROVE  Waiting(kinds) = {} /\ \A j \in 1..Len(events) : events[j].kind \notin kinds
  <2>1. \A k \in 1..Len(chain') : chain'[k].kind \notin kinds
    BY <1>6 DEF Waiting
  <2>2. Waiting(kinds) = {}
    BY <1>1, <1>4, <2>1 DEF Waiting
  <2>3. QED  BY <1>3, <2>1, <2>2
<1>7. QED  BY <1>1, <1>2, <1>5, <1>6

\* An event joins the chain with each change, and tells what is so from now on.
LEMMA Raised ==
    ASSUME ExtensionInv, NEW events, IsList(events), Raise(events), now' = now,
           tab' \in Pages, focused' \in BOOLEAN, word' \in {"active", "idle", "locked"},
           ignored' \in Rules,
           \A j \in 1..Len(events) :
             /\ Event(events[j])
             /\ events[j].kind = "rules" => events[j].patterns = ignored'
             /\ events[j].kind \in {"focus", "blur"} => (events[j].kind = "focus") = focused'
             /\ events[j].kind \in {"activated", "updated"} => events[j].page = tab',
           ignored' # ignored => \E j \in 1..Len(events) : events[j].kind = "rules",
           focused' # focused => \E j \in 1..Len(events) : events[j].kind \in {"focus", "blur"},
           tab' # tab => \E j \in 1..Len(events) : events[j].kind \in {"activated", "updated"}
    PROVE  ExtensionInv'
<1>1. /\ TypeInv /\ PlanInv /\ StoryInv /\ KeptInv /\ RulesInv /\ AlarmInv /\ FrontInv
      /\ awake' = TRUE /\ chain' = chain \o events
      /\ todo' = IF awake THEN todo ELSE <<[do |-> "resolve"]>>
      /\ UNCHANGED <<queue, current, source, alarm, minted, received, dropped, replaced>>
  BY DEF ExtensionInv, Raise, storage, history
<1>2. IsList(chain) /\ IsList(todo) /\ awake \in BOOLEAN
  BY <1>1 DEF TypeInv
<1>3. /\ IsList(chain')
      /\ \A i \in 1..Len(chain') :
           \/ i \in 1..Len(chain) /\ chain'[i] = chain[i]
           \/ \E j \in 1..Len(events) : chain'[i] = events[j]
      /\ \A kinds : \A i \in 1..Len(chain') : IsLast(i, Waiting(kinds)') =>
           \/ /\ i \in 1..Len(chain) /\ chain'[i] = chain[i] /\ IsLast(i, Waiting(kinds))
              /\ \A j \in 1..Len(events) : events[j].kind \notin kinds
           \/ \E j \in 1..Len(events) : chain'[i] = events[j] /\ events[j].kind \in kinds
      /\ \A kinds : Waiting(kinds)' = {} =>
           Waiting(kinds) = {} /\ \A j \in 1..Len(events) : events[j].kind \notin kinds
  BY <1>1, <1>2, Appended
<1>4. ~awake => /\ todo = <<>> /\ Len(todo) = 0 /\ \A dos : ~Upcoming(dos)
                /\ IsList(todo') /\ Len(todo') = 1 /\ todo'[1].do = "resolve"
                /\ \A i \in 1..Len(todo') : i = 1 /\ Operation(todo'[i]) /\ todo'[i].do = "resolve"
                /\ 1 \in 1..Len(todo') /\ 2..Len(todo') = {}
                /\ Upcoming({"resolve", "clear"})' /\ Upcoming({"resolve", "clear", "forget"})'
                /\ Closing' /\ ~Upcoming({"enqueue"})' /\ ~Upcoming({"write"})'
                /\ ~Upcoming({"clear"})' /\ ~Upcoming({"finalize"})'
                /\ ~Upcoming({"send", "remove"})' /\ ~Upcoming({"remove"})'
  <2>1. ~awake => todo = <<>>
    BY <1>1 DEF PlanInv
  <2>2. ~awake => Len(todo) = 0
    BY <2>1, EmptyList
  <2>3. ~awake => /\ IsList(todo') /\ Len(todo') = 1 /\ todo'[1].do = "resolve"
                  /\ \A i \in 1..Len(todo') : i = 1 /\ Operation(todo'[i]) /\ todo'[i].do = "resolve"
                  /\ 1 \in 1..Len(todo') /\ 2..Len(todo') = {}
    BY <1>1, Recovering
  <2>4. QED  BY <2>1, <2>2, <2>3 DEF Upcoming, Closing
<1>5. awake => todo' = todo /\ \A dos : Upcoming(dos)' = Upcoming(dos)
  BY <1>1 DEF Upcoming
<1>6. Known' = Known
  BY <1>1 DEF Known
<1>7. TypeInv'
  <2>1. \A i \in 1..Len(chain') : Event(chain'[i])
    BY <1>1, <1>3 DEF TypeInv
  <2>2. IsList(todo') /\ \A i \in 1..Len(todo') : Operation(todo'[i])
    BY <1>1, <1>2, <1>4, <1>5 DEF TypeInv
  <2>3. QED  BY <1>1, <1>3, <2>1, <2>2 DEF TypeInv
<1>8. PlanInv'
  <2>1. CASE awake
    BY <1>1, <1>5, <2>1 DEF PlanInv
  <2>2. CASE ~awake
    BY <1>1, <1>4, <2>2 DEF PlanInv
  <2>3. QED  BY <1>2, <2>1, <2>2
<1>9. StoryInv'
  <2>1. OneStory' /\ (\A r \in Known : r.id <= minted)'
    BY <1>1, <1>6 DEF StoryInv, OneStory, Known
  <2>2. (\A c \in current : c.start <= now /\ c.id \in 1..minted /\ (Fresh(c) \/ HandedOver(c)))'
    <3>1. \A c \in current : c.start <= now /\ c.id \in 1..minted /\ (Fresh(c) \/ HandedOver(c))
      BY <1>1 DEF StoryInv
    <3>2. \A c \in current : Fresh(c) => Fresh(c)'
      BY <1>1, <1>6 DEF Fresh, EndedBy
    <3>3. \A c \in current : HandedOver(c) => HandedOver(c)'
      <4>1. (awake => Upcoming({"resolve", "clear"})) => Upcoming({"resolve", "clear"})'
        BY <1>2, <1>4, <1>5
      <4>2. QED  BY <1>1, <4>1 DEF HandedOver
    <3>4. QED  BY <1>1, <3>1, <3>2, <3>3
  <2>3. CASE awake
    BY <1>1, <1>5, <1>6, <2>1, <2>2, <2>3 DEF StoryInv, EndedBy
  <2>4. CASE ~awake
    BY <1>1, <1>4, <2>1, <2>2, <2>4 DEF StoryInv
  <2>5. QED  BY <1>2, <2>3, <2>4
<1>10. KeptInv'
  <2>1. NothingLost'
    BY <1>1 DEF KeptInv, NothingLost
  <2>2. Upcoming({"clear"})' => Upcoming({"clear"})
    BY <1>2, <1>4, <1>5
  <2>3. QED  BY <1>1, <1>6, <2>1, <2>2 DEF KeptInv
<1>11. RulesInv'
  <2>1. (\A i \in 1..Len(chain) : IsLast(i, Waiting({"rules"})) => chain[i].patterns = ignored)'
    <3> SUFFICES ASSUME NEW i \in 1..Len(chain'), IsLast(i, Waiting({"rules"})')
                 PROVE  chain'[i].patterns = ignored'
      OBVIOUS
    <3>1. CASE \E j \in 1..Len(events) : chain'[i] = events[j] /\ events[j].kind \in {"rules"}
      BY <3>1
    <3>2. CASE /\ i \in 1..Len(chain) /\ chain'[i] = chain[i] /\ IsLast(i, Waiting({"rules"}))
               /\ \A j \in 1..Len(events) : events[j].kind \notin {"rules"}
      BY <1>1, <3>2 DEF RulesInv
    <3>3. QED  BY <1>3, <3>1, <3>2
  <2>2. ASSUME Waiting({"rules"})' = {}
        PROVE  RulesHold'
    <3>1. Waiting({"rules"}) = {} /\ ignored' = ignored
      BY <1>3, <2>2
    <3>2. CASE awake
      BY <1>1, <1>5, <3>1, <3>2 DEF RulesInv, RulesHold
    <3>3. CASE ~awake
      BY <1>1, <1>4, <3>3 DEF RulesHold
    <3>4. QED  BY <1>2, <3>2, <3>3
  <2>3. QED  BY <2>1, <2>2 DEF RulesInv
<1>12. AlarmInv'
  <2>1. CASE awake
    BY <1>1, <1>5, <2>1 DEF AlarmInv, Closing
  <2>2. CASE ~awake
    BY <1>4, <2>2 DEF AlarmInv
  <2>3. QED  BY <1>2, <2>1, <2>2
<1>13. FrontInv'
  <2>1. (\A i \in 1..Len(chain) : IsLast(i, Turns) => (chain[i].kind = "focus") = focused)'
    <3> SUFFICES ASSUME NEW i \in 1..Len(chain'), IsLast(i, Turns')
                 PROVE  (chain'[i].kind = "focus") = focused'
      OBVIOUS
    <3>1. CASE \E j \in 1..Len(events) : chain'[i] = events[j] /\ events[j].kind \in {"focus", "blur"}
      BY <3>1
    <3>2. CASE /\ i \in 1..Len(chain) /\ chain'[i] = chain[i] /\ IsLast(i, Turns)
               /\ \A j \in 1..Len(events) : events[j].kind \notin {"focus", "blur"}
      <4>1. focused' = focused
        BY <3>2
      <4>2. QED  BY <1>1, <3>2, <4>1 DEF FrontInv
    <3>3. QED  BY <1>3, <3>1, <3>2 DEF Turns
  <2>2. (\A i \in 1..Len(chain) : IsLast(i, Shows) => chain[i].page = tab)'
    <3> SUFFICES ASSUME NEW i \in 1..Len(chain'), IsLast(i, Shows')
                 PROVE  chain'[i].page = tab'
      OBVIOUS
    <3>1. CASE \E j \in 1..Len(events) : chain'[i] = events[j]
                  /\ events[j].kind \in {"activated", "updated"}
      BY <3>1
    <3>2. CASE /\ i \in 1..Len(chain) /\ chain'[i] = chain[i] /\ IsLast(i, Shows)
               /\ \A j \in 1..Len(events) : events[j].kind \notin {"activated", "updated"}
      BY <1>1, <3>2 DEF FrontInv
    <3>3. QED  BY <1>3, <3>1, <3>2 DEF Shows
  <2>3. Shows' = {} => Shows = {} /\ tab' = tab
    BY <1>3 DEF Shows
  <2>4. Turns' = {} => Turns = {} /\ focused' = focused
    BY <1>3 DEF Turns
  <2>5. CASE awake
    BY <1>1, <1>5, <2>1, <2>2, <2>3, <2>4, <2>5 DEF FrontInv, FrontHolds, Closing
  <2>6. CASE ~awake
    BY <1>4, <2>1, <2>2, <2>6 DEF FrontInv, FrontHolds
  <2>7. QED  BY <1>2, <2>5, <2>6
<1>14. QED  BY <1>7, <1>8, <1>9, <1>10, <1>11, <1>12, <1>13 DEF ExtensionInv

\* One event.
LEMMA OneEvent ==
    ASSUME ExtensionInv, NEW e, Raise(<<e>>), now' = now,
           tab' \in Pages, focused' \in BOOLEAN, word' \in {"active", "idle", "locked"},
           ignored' \in Rules,
           Event(e),
           e.kind = "rules" => e.patterns = ignored',
           e.kind \in {"focus", "blur"} => (e.kind = "focus") = focused',
           e.kind \in {"activated", "updated"} => e.page = tab',
           ignored' # ignored => e.kind = "rules",
           focused' # focused => e.kind \in {"focus", "blur"},
           tab' # tab => e.kind \in {"activated", "updated"}
    PROVE  ExtensionInv'
<1> DEFINE events == <<e>>
<1>1. IsList(events) /\ Len(events) = 1 /\ events[1] = e
  BY ShortLists
<1>2. Raise(events)
  OBVIOUS
<1> HIDE DEF events
<1>3. 1 \in 1..Len(events) /\ \A j \in 1..Len(events) : events[j] = e
  <2>1. 1 \in 1..1 /\ \A j \in 1..1 : j = 1
    OBVIOUS
  <2>2. QED  BY <1>1, <2>1
<1>4. QED  BY <1>1, <1>2, <1>3, Raised

\* Another page is shown.
LEMMA ShowStep ==
    ASSUME ExtensionInv, Show
    PROVE  ExtensionInv'
<1>1. TypeInv
  BY DEF ExtensionInv
<1>2. /\ tab \in Pages /\ focused \in BOOLEAN /\ word \in {"active", "idle", "locked"}
      /\ ignored \in Rules
  BY <1>1 DEF TypeInv
<1>3. PICK page \in Pages \ {tab} :
        /\ tab' = page
        /\ \/ Raise(<<[kind |-> "updated", page |-> page]>>)
           \/ Raise(<<[kind |-> "activated", page |-> page]>>)
           \/ Raise(<<[kind |-> "removed", page |-> tab], [kind |-> "activated", page |-> page]>>)
        /\ UNCHANGED <<now, focused, word, ignored>>
  BY DEF Show
<1> DEFINE e == [kind |-> "activated", page |-> page]
           u == [kind |-> "updated", page |-> page]
           r == [kind |-> "removed", page |-> tab]
<1>4. /\ Event(e) /\ Event(u) /\ Event(r) /\ e.kind = "activated" /\ u.kind = "updated"
      /\ r.kind = "removed" /\ e.page = page /\ u.page = page
  BY <1>2 DEF Event
<1>5. Raise(<<e>>) \/ Raise(<<u>>) \/ Raise(<<r, e>>)
  BY <1>3
<1> HIDE DEF e, u, r
<1>6. CASE Raise(<<e>>)
  BY <1>2, <1>3, <1>4, <1>6, OneEvent
<1>7. CASE Raise(<<u>>)
  BY <1>2, <1>3, <1>4, <1>7, OneEvent
<1>8. CASE Raise(<<r, e>>)
  <2> DEFINE events == <<r, e>>
  <2>1. IsList(events) /\ Len(events) = 2 /\ events[1] = r /\ events[2] = e
    BY ShortLists
  <2>2. Raise(events)
    BY <1>8
  <2> HIDE DEF events
  <2>3. 2 \in 1..Len(events) /\ \A j \in 1..Len(events) : events[j] = r \/ events[j] = e
    <3>1. 2 \in 1..2 /\ \A j \in 1..2 : j = 1 \/ j = 2
      OBVIOUS
    <3>2. QED  BY <2>1, <3>1
  <2>4. \A j \in 1..Len(events) :
          /\ Event(events[j])
          /\ events[j].kind \notin {"rules", "focus", "blur"}
          /\ events[j].kind \in {"activated", "updated"} => events[j].page = tab'
    BY <1>3, <1>4, <2>3
  <2>5. \E j \in 1..Len(events) : events[j].kind \in {"activated", "updated"}
    BY <1>4, <2>1, <2>3
  <2>6. QED  BY <1>2, <1>3, <2>1, <2>2, <2>4, <2>5, Raised
<1>9. QED  BY <1>5, <1>6, <1>7, <1>8

\* The other steps that raise an event.
LEMMA ChangeFocusStep ==
    ASSUME ExtensionInv, ChangeFocus
    PROVE  ExtensionInv'
<1>1. TypeInv
  BY DEF ExtensionInv
<1>2. /\ tab \in Pages /\ focused \in BOOLEAN /\ word \in {"active", "idle", "locked"}
      /\ ignored \in Rules
  BY <1>1 DEF TypeInv
<1> DEFINE e == [kind |-> IF focused THEN "blur" ELSE "focus"]
<1>3. /\ focused' = ~focused /\ Raise(<<e>>) /\ UNCHANGED <<now, tab, word, ignored>>
  BY DEF ChangeFocus
<1>4. Event(e) /\ e.kind = (IF focused THEN "blur" ELSE "focus")
  BY <1>2 DEF Event
<1> HIDE DEF e
<1>5. /\ focused' \in BOOLEAN /\ (e.kind = "focus") = focused'
      /\ e.kind \in {"focus", "blur"} /\ e.kind \notin {"rules", "activated", "updated"}
  BY <1>2, <1>3, <1>4
<1>6. QED  BY <1>2, <1>3, <1>4, <1>5, OneEvent

\* The browser's idle state changes.
LEMMA ChangeStateStep ==
    ASSUME ExtensionInv, ChangeState
    PROVE  ExtensionInv'
<1>1. TypeInv
  BY DEF ExtensionInv
<1>2. /\ tab \in Pages /\ focused \in BOOLEAN /\ ignored \in Rules
  BY <1>1 DEF TypeInv
<1> DEFINE e == [kind |-> word']
<1>3. /\ word' \in {"active", "idle", "locked"} /\ Raise(<<e>>)
      /\ UNCHANGED <<now, tab, focused, ignored>>
  BY DEF ChangeState
<1>4. Event(e) /\ e.kind = word'
  BY <1>3 DEF Event
<1> HIDE DEF e
<1>5. e.kind \notin {"rules", "focus", "blur", "activated", "updated"} /\ e.kind # "rules"
  BY <1>3, <1>4
<1>6. QED  BY <1>2, <1>3, <1>4, <1>5, OneEvent

\* The alarm fires, or Firefox is about to unload the page.
LEMMA FireAlarmStep ==
    ASSUME ExtensionInv, FireAlarm \/ Suspend
    PROVE  ExtensionInv'
<1>1. TypeInv
  BY DEF ExtensionInv
<1>2. /\ tab \in Pages /\ focused \in BOOLEAN /\ word \in {"active", "idle", "locked"}
      /\ ignored \in Rules
  BY <1>1 DEF TypeInv
<1> DEFINE a == [kind |-> "alarm"]
           s == [kind |-> "suspend"]
<1>3. /\ Event(a) /\ Event(s) /\ a.kind = "alarm" /\ s.kind = "suspend"
      /\ a.kind \notin {"focus", "blur"} /\ s.kind \notin {"focus", "blur"}
      /\ a.kind \notin {"activated", "updated"} /\ s.kind \notin {"activated", "updated"}
  BY DEF Event
<1>4. UNCHANGED <<now, tab, focused, word, ignored>>
  BY DEF FireAlarm, Suspend, browser
<1>5. Raise(<<a>>) \/ Raise(<<s>>)
  BY DEF FireAlarm, Suspend
<1> HIDE DEF a, s
<1>6. QED  BY <1>2, <1>3, <1>4, <1>5, OneEvent

\* The options page writes the rules.
LEMMA ChangeRulesStep ==
    ASSUME ExtensionInv, ChangeRules
    PROVE  ExtensionInv'
<1>1. TypeInv
  BY DEF ExtensionInv
<1>2. /\ tab \in Pages /\ focused \in BOOLEAN /\ word \in {"active", "idle", "locked"}
      /\ ignored \in Rules
  BY <1>1 DEF TypeInv
<1>3. /\ ignored' \in Rules
      /\ Raise(<<[kind |-> "rules", patterns |-> ignored']>>)
      /\ UNCHANGED <<now, tab, focused, word>>
  BY DEF ChangeRules
<1> DEFINE e == [kind |-> "rules", patterns |-> ignored']
<1>4. ignored' \in Rules
  BY <1>2, <1>3
<1>5. Event(e) /\ e.kind = "rules" /\ e.patterns = ignored'
        /\ e.kind \notin {"focus", "blur", "activated", "updated"}
  BY <1>4 DEF Event
<1>6. Raise(<<e>>)
  BY <1>3
<1> HIDE DEF e
<1>7. QED  BY <1>2, <1>3, <1>4, <1>5, <1>6, OneEvent

\* A kill leaves only the storage.
LEMMA KillStep ==
    ASSUME ExtensionInv, Kill
    PROVE  ExtensionInv'
<1>1. /\ TypeInv /\ PlanInv /\ StoryInv /\ KeptInv /\ RulesInv /\ AlarmInv /\ FrontInv
      /\ awake' = FALSE /\ chain' = <<>> /\ todo' = <<>> /\ alarm' \in {alarm, FALSE}
      /\ UNCHANGED <<now, tab, focused, word, ignored, queue, current>>
      /\ UNCHANGED <<minted, received, dropped, replaced>>
  BY DEF ExtensionInv, Kill, browser, history
<1>2. /\ IsList(todo') /\ Len(todo') = 0 /\ 1..Len(todo') = {} /\ 2..Len(todo') = {}
      /\ IsList(chain') /\ Len(chain') = 0 /\ 1..Len(chain') = {}
      /\ \A dos : ~Upcoming(dos)'
  BY <1>1, EmptyList DEF Upcoming
<1>3. Known' = Known
  BY <1>1 DEF Known
<1>4. TypeInv'
  BY <1>1, <1>2 DEF TypeInv
<1>5. PlanInv'
  BY <1>1, <1>2 DEF PlanInv
<1>6. StoryInv'
  <2>1. OneStory' /\ (\A r \in Known : r.id <= minted)'
    BY <1>1, <1>3 DEF StoryInv, OneStory, Known
  <2>2. (\A c \in current : c.start <= now /\ c.id \in 1..minted /\ (Fresh(c) \/ HandedOver(c)))'
    BY <1>1, <1>3 DEF StoryInv, Fresh, HandedOver, EndedBy
  <2>3. QED  BY <1>2, <2>1, <2>2 DEF StoryInv
<1>7. KeptInv'
  BY <1>1, <1>2 DEF KeptInv, NothingLost
<1>8. RulesInv' /\ AlarmInv' /\ FrontInv'
  BY <1>1, <1>2 DEF RulesInv, AlarmInv, FrontInv
<1>9. QED  BY <1>4, <1>5, <1>6, <1>7, <1>8 DEF ExtensionInv

\* A browser that starts has lost the open segment and keeps the queue.
LEMMA RestartStep ==
    ASSUME ExtensionInv, Restart
    PROVE  ExtensionInv'
<1>1. /\ TypeInv /\ PlanInv /\ StoryInv /\ KeptInv /\ RulesInv /\ AlarmInv /\ FrontInv
      /\ awake' = TRUE /\ chain' = <<>> /\ todo' = <<[do |-> "resolve"]>>
      /\ current' = {} /\ alarm' \in {alarm, FALSE} /\ word' = "active"
      /\ dropped' = dropped \union Ids(current)
      /\ UNCHANGED <<now, tab, focused, ignored, queue, minted, received, replaced>>
  BY DEF ExtensionInv, Restart
<1>2. /\ IsList(chain') /\ Len(chain') = 0 /\ 1..Len(chain') = {}
  BY <1>1, EmptyList
<1>3. /\ IsList(todo') /\ Len(todo') = 1 /\ todo'[1].do = "resolve"
      /\ \A i \in 1..Len(todo') : i = 1 /\ Operation(todo'[i]) /\ todo'[i].do = "resolve"
      /\ 1 \in 1..Len(todo') /\ 2..Len(todo') = {}
  BY <1>1, Recovering
<1>4. /\ Closing' /\ ~Upcoming({"enqueue"})' /\ ~Upcoming({"write"})'
      /\ ~Upcoming({"clear"})' /\ ~Upcoming({"finalize"})'
      /\ ~Upcoming({"send", "remove"})' /\ ~Upcoming({"remove"})'
  BY <1>3 DEF Upcoming, Closing
<1>5. Known' = Known
  BY <1>1 DEF Known
<1>6. Ids(current) \in SUBSET Nat
  BY <1>1 DEF TypeInv, Segment, Ids
<1>7. TypeInv'
  <2>1. dropped' \in SUBSET Nat
    BY <1>1, <1>6 DEF TypeInv
  <2>2. QED  BY <1>1, <1>2, <1>3, <2>1 DEF TypeInv
<1>8. PlanInv'
  BY <1>1, <1>3, <1>4 DEF PlanInv
<1>9. StoryInv'
  <2>1. OneStory' /\ (\A r \in Known : r.id <= minted)'
    BY <1>1, <1>5 DEF StoryInv, OneStory, Known
  <2>2. QED  BY <1>1, <1>3, <1>4, <2>1 DEF StoryInv
<1>10. KeptInv'
  <2>1. NothingLost'
    BY <1>1 DEF KeptInv, NothingLost, Ids
  <2>2. QED  BY <1>4, <2>1 DEF KeptInv
<1>11. RulesInv'
  BY <1>1, <1>2, <1>3, <1>4 DEF RulesInv, RulesHold
<1>12. AlarmInv'
  BY <1>1 DEF AlarmInv
<1>13. FrontInv'
  BY <1>1, <1>2, <1>3 DEF FrontInv, FrontHolds
<1>14. QED  BY <1>7, <1>8, <1>9, <1>10, <1>11, <1>12, <1>13 DEF ExtensionInv
-----------------------------------------------------------------------------
(* The theorems.                                                           *)

\* Every step keeps what the steps before it left in order.
LEMMA StepKeeps ==
    ASSUME ExtensionInv, [Next]_vars
    PROVE  ExtensionInv'
<1>1. CASE Task
  <2>1. \/ Dispatch
        \/ Finalize \/ Enqueue \/ Clear \/ Start \/ Open \/ Write
        \/ Deliver \/ Send \/ RemoveSent
        \/ Resolve \/ Repair \/ Seed \/ Forget \/ Purge
    BY <1>1 DEF Task
  <2>2. QED  BY <2>1, DispatchStep, FinalizeStep, EnqueueStep, ClearStep, StartStep, OpenStep,
                WriteStep, DeliverStep, SendStep, RemoveSentStep, ResolveStep, RepairStep,
                SeedStep, ForgetStep, PurgeStep
<1>2. CASE Environment
  <2>1. \/ Tick \/ Show \/ ChangeFocus \/ ChangeState \/ FireAlarm \/ ChangeRules
        \/ Suspend \/ Kill \/ Restart
    BY <1>2 DEF Environment
  <2>2. QED  BY <2>1, TickStep, ShowStep, ChangeFocusStep, ChangeStateStep, FireAlarmStep,
                ChangeRulesStep, KillStep, RestartStep
<1>3. CASE UNCHANGED vars
  <2>1. /\ UNCHANGED <<now, tab, focused, word, ignored, queue, current, source, alarm>>
        /\ UNCHANGED <<awake, chain, todo, minted, received, dropped, replaced>>
    BY <1>3 DEF vars, browser, storage, worker, history
  <2>2. UNCHANGED <<TypeInv, PlanInv, StoryInv, KeptInv>>
    BY <2>1 DEF TypeInv, PlanInv, StoryInv, KeptInv, NothingLost, OneStory, Known, Fresh,
                HandedOver, EndedBy, Upcoming
  <2>3. UNCHANGED <<RulesInv, AlarmInv, FrontInv>>
    BY <2>1 DEF RulesInv, RulesHold, AlarmInv, FrontInv, FrontHolds, Turns, Shows, Waiting,
                IsLast, Closing, Upcoming
  <2>4. QED  BY <2>2, <2>3 DEF ExtensionInv
<1>4. QED  BY <1>1, <1>2, <1>3 DEF Next

\* The inductive invariant holds however events, kills and restarts fall.
THEOREM ExtensionInductive == Spec => []ExtensionInv
<1>1. Init => ExtensionInv
  BY InitHolds
<1>2. ExtensionInv /\ [Next]_vars => ExtensionInv'
  BY StepKeeps
<1>3. QED  BY <1>1, <1>2, PTL DEF Spec

\* A segment that was worth keeping is timed, queued or with the daemon, and the queue
\* is never longer than its limit (background-core.js, finalize and deliver).
THEOREM NothingIsLost == Spec => []NothingLost
<1>1. ExtensionInv => NothingLost
  BY DEF ExtensionInv, KeptInv
<1>2. QED  BY <1>1, ExtensionInductive, PTL

\* No identity has two ends and no moment is in two records, whatever the daemon
\* received and the queue still holds.
THEOREM EachMomentOnce == Spec => []OneStory
<1>1. ExtensionInv => OneStory
  BY DEF ExtensionInv, StoryInv
<1>2. QED  BY <1>1, ExtensionInductive, PTL

\* A worker at rest has nothing to do and no event that waits.
LEMMA NothingWaits ==
    ASSUME AtRest
    PROVE  /\ awake /\ Len(todo) = 0 /\ 1..Len(todo) = {}
           /\ \A kinds : Waiting(kinds) = {}
           /\ \A dos : ~Upcoming(dos)
<1>1. awake /\ Len(todo) = 0 /\ Len(chain) = 0
  BY EmptyList DEF AtRest
<1>2. QED  BY <1>1 DEF Waiting, Upcoming

\* Once the chain is drained, no page that a rule covers is left in any storage.
THEOREM CoveredPagesGo == Spec => []RulesKept
<1>1. ExtensionInv => RulesKept
  <2> SUFFICES ASSUME ExtensionInv, AtRest, NEW r \in current \union ToSet(queue)
               PROVE  r.page.url \notin ignored
    BY DEF RulesKept
  <2>1. RulesHold
    BY NothingWaits DEF ExtensionInv, RulesInv
  <2>2. QED  BY <2>1, NothingWaits DEF RulesHold
<1>2. QED  BY <1>1, ExtensionInductive, PTL

\* Once the chain is drained, an open segment has the alarm that will end it.
THEOREM AlarmsRun == Spec => []PollRuns
<1>1. ExtensionInv => PollRuns
  BY NothingWaits DEF ExtensionInv, AlarmInv, PollRuns, Closing
<1>2. QED  BY <1>1, ExtensionInductive, PTL

\* Once the chain is drained, only the tab in front and the url it shows are timed; the
\* title may be one the tab no longer has (background-core.js, stillActive).
THEOREM FrontIsTimed == Spec => []RightPage
<1>1. ExtensionInv => RightPage
  <2> SUFFICES ASSUME ExtensionInv, AtRest, NEW c \in current
               PROVE  focused /\ SamePlace(c.page, tab)
    BY DEF RightPage
  <2>1. Turns = {} /\ Shows = {}
    BY NothingWaits DEF Turns, Shows
  <2>2. FrontHolds
    BY <2>1, NothingWaits DEF ExtensionInv, FrontInv
  <2>3. QED  BY <2>1, <2>2, NothingWaits DEF FrontHolds, Closing
<1>2. QED  BY <1>1, ExtensionInductive, PTL
=============================================================================
