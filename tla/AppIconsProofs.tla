---------------------------- MODULE AppIconsProofs -----------------------------
(***************************************************************************)
(* Proofs about AppIcons for every set of applications, every size of the  *)
(* maps and queues and every limit: no icon is forgotten on its way, no    *)
(* key stays in flight without a load, and a process that was throttled is *)
(* let in when it asks again.                                              *)
(***************************************************************************)
EXTENDS AppIcons, FiniteSetTheorems, SequenceTheorems, WellFoundedInduction, TLAPS

-----------------------------------------------------------------------------
(* Numbers, sequences and maps.                                            *)

\* The constants are natural numbers.
LEMMA Numbers ==
    /\ Apps \subseteq Nat
    /\ CacheLimit \in Nat /\ WorkerQueueLimit \in Nat /\ StateLimit \in Nat /\ QueueLimit \in Nat
    /\ FlushLimit \in Nat /\ RateLimit \in Nat /\ UserLimit \in Nat
    /\ CacheLimit > 0 /\ StateLimit > 0 /\ FlushLimit > 0 /\ RateLimit > 0 /\ UserLimit > 0
    /\ RetryMin \in Nat /\ RetryMin > 0 /\ RetryMax \in Nat /\ RetryMax >= RetryMin
    /\ RateWindow \in Nat /\ RateWindow > 0
    /\ Positive \in Nat /\ Negative \in Nat /\ Refresh \in Nat /\ MaxNow \in Nat
    /\ MaxIcon \in Nat /\ MaxFaults \in Nat
    /\ FlushLimit <= UserLimit
<1>1. \A n \in {CacheLimit, WorkerQueueLimit, StateLimit, QueueLimit, FlushLimit, RateLimit, UserLimit} :
        n \in Nat /\ n # 0
  BY AppIconsAssumption
<1>2. \A n \in {Positive, Negative, Refresh, MaxNow, MaxIcon, MaxFaults} : n \in Nat
  BY AppIconsAssumption
<1>3. \A n \in {CacheLimit, WorkerQueueLimit, StateLimit, QueueLimit, FlushLimit, RateLimit, UserLimit} :
        n \in Nat /\ n > 0
  BY <1>1
<1>4. RetryMin \in Nat /\ RetryMin > 0 /\ RateWindow \in Nat /\ RateWindow > 0
  BY AppIconsAssumption
<1>5. QED  BY <1>2, <1>3, <1>4, AppIconsAssumption

\* Every set of natural numbers that is not empty has a least element.
LEMMA Least ==
    ASSUME NEW S \in SUBSET Nat, S # {}
    PROVE  Min(S) \in S /\ \A y \in S : Min(S) <= y
<1> DEFINE Below == OpToRel(<, Nat)
<1>1. IsWellFoundedOn(Below, Nat)
  BY NatLessThanWellFounded
<1>2. \A x, y \in Nat : x < y => <<x, y>> \in Below
  BY DEF OpToRel
<1> HIDE DEF Below
<1>3. \E x \in S : \A y \in S : ~ (<<y, x>> \in Below)
  BY <1>1, WFMin
<1>4. PICK x \in S : \A y \in S : ~ (<<y, x>> \in Below)
  BY <1>3
<1>5. \A y \in S : x <= y
  <2>1. \A y \in S : ~ (y < x)
    BY <1>2, <1>4
  <2>2. QED  BY <2>1
<1>6. QED  BY <1>5 DEF Min

\* The larger of two numbers, and the only one.
LEMMA Larger ==
    ASSUME NEW m \in Int, NEW n \in Int
    PROVE  /\ Max({m, n}) \in {m, n} /\ Max({m, n}) >= m /\ Max({m, n}) >= n
           /\ Max({m}) = m
<1>1. \E x \in {m, n} : \A y \in {m, n} : x >= y
  OBVIOUS
<1>2. QED  BY <1>1 DEF Max

\* The smaller of two numbers.
LEMMA Smaller ==
    ASSUME NEW m \in Int, NEW n \in Int
    PROVE  Min({m, n}) \in {m, n} /\ Min({m, n}) <= m /\ Min({m, n}) <= n
<1>1. \E x \in {m, n} : \A y \in {m, n} : x <= y
  OBVIOUS
<1>2. QED  BY <1>1 DEF Min

\* The keys of a map that are first by time.
LEMMA Oldest ==
    ASSUME NEW time, DOMAIN time # {}, \A k \in DOMAIN time : time[k] \in Nat
    PROVE  oldest(time) # {} /\ oldest(time) \subseteq DOMAIN time
<1> DEFINE S == {time[k] : k \in DOMAIN time}
<1>1. S \in SUBSET Nat /\ S # {}
  OBVIOUS
<1>2. PICK k \in DOMAIN time : time[k] = Min(S)
  BY <1>1, Least
<1>3. \A j \in DOMAIN time : time[k] <= time[j]
  BY <1>1, <1>2, Least
<1>4. QED  BY <1>3 DEF oldest

\* What a map holds with a key set, and without one.
LEMMA Maps ==
    ASSUME NEW f, NEW k, NEW v
    PROVE  /\ DOMAIN with(f, k, v) = DOMAIN f \union {k} /\ with(f, k, v)[k] = v
           /\ \A x \in DOMAIN f : x # k => with(f, k, v)[x] = f[x]
           /\ DOMAIN without(f, k) = DOMAIN f \ {k}
           /\ \A x \in DOMAIN f \ {k} : without(f, k)[x] = f[x]
  BY DEF with, without, Restrict

\* A key finds room where there is some, or where another key has gone.
LEMMA Room ==
    ASSUME NEW S, IsFiniteSet(S), NEW n \in Nat, Cardinality(S) <= n, NEW k
    PROVE  /\ IsFiniteSet(S \union {k}) /\ Cardinality(S) \in Nat
           /\ (k \in S \/ Cardinality(S) < n) => Cardinality(S \union {k}) <= n
           /\ \A gone : /\ IsFiniteSet(S \ {gone}) /\ Cardinality(S \ {gone}) <= n
                        /\ IsFiniteSet((S \ {gone}) \union {k})
                        /\ (gone \in S \/ (k = gone /\ Cardinality(S) < n))
                             => Cardinality((S \ {gone}) \union {k}) <= n
<1>1. Cardinality(S) \in Nat /\ IsFiniteSet(S \union {k})
        /\ Cardinality(S \union {k}) = IF k \in S THEN Cardinality(S) ELSE Cardinality(S) + 1
  BY FS_CardinalityType, FS_AddElement
<1>2. ASSUME NEW gone
      PROVE  /\ IsFiniteSet(S \ {gone}) /\ Cardinality(S \ {gone}) <= n
             /\ IsFiniteSet((S \ {gone}) \union {k})
             /\ (gone \in S \/ (k = gone /\ Cardinality(S) < n))
                  => Cardinality((S \ {gone}) \union {k}) <= n
  <2> DEFINE T == S \ {gone}
  <2>1. IsFiniteSet(T) /\ Cardinality(T) = IF gone \in S THEN Cardinality(S) - 1 ELSE Cardinality(S)
    BY FS_RemoveElement
  <2> HIDE DEF T
  <2>2. Cardinality(T) \in Nat /\ IsFiniteSet(T \union {k})
          /\ Cardinality(T \union {k}) = IF k \in T THEN Cardinality(T) ELSE Cardinality(T) + 1
    BY <2>1, FS_CardinalityType, FS_AddElement
  <2>3. QED  BY <1>1, <2>1, <2>2 DEF T
<1>3. QED  BY <1>1, <1>2

\* The members of a sequence are finitely many, no more than it is long.
LEMMA Members ==
    ASSUME NEW s, Len(s) \in Nat, DOMAIN s = 1..Len(s)
    PROVE  IsFiniteSet(Range(s)) /\ Cardinality(Range(s)) <= Len(s)
<1> DEFINE f == [i \in 1..Len(s) |-> s[i]]
<1>1. f \in Surjection(1..Len(s), Range(s))
  BY DEF Surjection, Range
<1>2. IsFiniteSet(1..Len(s)) /\ Cardinality(1..Len(s)) = Len(s)
  <2>1. Cardinality(1..Len(s)) = IF 1 > Len(s) THEN 0 ELSE Len(s) - 1 + 1
    BY FS_Interval
  <2>2. QED  BY <2>1, FS_Interval
<1> HIDE DEF f
<1>3. QED  BY <1>1, <1>2, FS_Surjection
-----------------------------------------------------------------------------
(* What the operators do.                                                  *)

\* The first keys in order are no more than a flush takes: all but the last of them
\* come before the last.
LEMMA FirstKeys ==
    ASSUME NEW D \in SUBSET Nat, IsFiniteSet(D), NEW first,
           first = {a \in D : Cardinality({b \in D : b < a}) < FlushLimit},
           NEW keys \in [1..Cardinality(first) -> first], Lists(keys, first)
    PROVE  Cardinality(first) \in Nat /\ Cardinality(first) <= FlushLimit
<1>1. IsFiniteSet(first) /\ Cardinality(first) \in Nat
  BY FS_Subset, FS_CardinalityType
<1> DEFINE n == Cardinality(first)
<1> HIDE DEF n
<1>2. n \in Nat /\ keys \in [1..n -> first]
  BY <1>1 DEF n
<1>3. CASE n = 0
  BY <1>1, <1>3, Numbers DEF n
<1>4. CASE n # 0
  <2> DEFINE last == keys[n]
             before == {b \in D : b < last}
  <2>0. first \subseteq Nat /\ n \in 1..n
    <3>1. first \subseteq D
      OBVIOUS
    <3>2. n \in 1..n
      BY <1>2, <1>4
    <3>3. QED  BY <3>1, <3>2
  <2>1. n \in 1..n /\ last \in first /\ last \in Nat
    BY <1>2, <2>0
  <2>2. Cardinality(before) < FlushLimit
    BY <2>1
  <2>3. IsFiniteSet(before) /\ Cardinality(before) \in Nat
    BY FS_Subset, FS_CardinalityType
  <2>4. first \ {last} \subseteq before
    <3> SUFFICES ASSUME NEW a \in first, a # last
                 PROVE  a \in before
      OBVIOUS
    <3>1. PICK i \in 1..n : keys[i] = a
      BY <1>2 DEF Lists
    <3>2. i # n /\ i < n
      BY <1>2, <3>1
    <3>3. a < last
      BY <1>2, <2>1, <3>1, <3>2 DEF Lists
    <3>4. QED  BY <3>3
  <2>5. Cardinality(first \ {last}) = n - 1
    BY <1>1, <2>1, FS_RemoveElement DEF n
  <2> HIDE DEF last, before
  <2>6. Cardinality(first \ {last}) <= Cardinality(before)
    BY <2>3, <2>4, FS_Subset
  <2>7. QED  BY <1>2, <2>2, <2>3, <2>5, <2>6, Numbers DEF n
<1>5. QED  BY <1>3, <1>4

\* The rows of a batch that is not larger than the table come first in it, and none of
\* them is pruned.
LEMMA Upserted ==
    ASSUME NEW batch, Len(batch) \in Nat, DOMAIN batch = 1..Len(batch),
           Len(table) \in Nat, DOMAIN table = 1..Len(table), Upsert(batch)
    PROVE  /\ Len(table') \in Nat /\ DOMAIN table' = 1..Len(table')
           /\ Len(batch) <= UserLimit => Range(batch) \subseteq Range(table')
<1> DEFINE keys == {p[1] : p \in Range(batch)}
           K == {i \in DOMAIN table : table[i][1] \notin keys}
           others == Entries(table, K)
           n == Cardinality(Range(batch))
<1>1. IsFiniteSet(Range(batch)) /\ n \in Nat /\ n <= Len(batch)
  BY Members, FS_CardinalityType
<1>2. PICK rows \in SetToSeqs(Range(batch)) :
        table' = SubSeq(rows \o others, 1, Min({UserLimit, Len(rows \o others)}))
  BY DEF Upsert
<1>3. IsFiniteSet(K) /\ Cardinality(K) \in Nat
  <2>1. K \subseteq DOMAIN table /\ IsFiniteSet(DOMAIN table)
    BY FS_Interval
  <2>2. QED  BY <2>1, FS_Subset, FS_CardinalityType
<1>4. rows \in [1..n -> Range(batch)] /\ \A i, j \in 1..n : i # j => rows[i] # rows[j]
  BY <1>2 DEF SetToSeqs
<1>5. Range(batch) = {rows[i] : i \in 1..n}
  <2>1. rows \in Injection(1..n, Range(batch))
    BY <1>4 DEF Injection, IsInjective
  <2> HIDE DEF n
  <2>2. Cardinality(1..n) = n /\ IsFiniteSet(1..n)
    <3>1. Cardinality(1..n) = IF 1 > n THEN 0 ELSE n - 1 + 1
      BY <1>1, FS_Interval
    <3>2. QED  BY <1>1, <3>1, FS_Interval
  <2>3. rows \in Surjection(1..n, Range(batch))
    BY <1>1, <2>1, <2>2, FS_Injection DEF n
  <2>4. QED  BY <1>4, <2>3 DEF Surjection
<1>6. \E U : rows \in Seq(U) /\ others \in Seq(U)
  <2> DEFINE c == Cardinality(K)
  <2> DEFINE at == CHOOSE f \in [1..c -> K] : Lists(f, K)
  <2>2. others = [i \in 1..c |-> table[at[i]]]
    BY DEF Entries
  <2> HIDE DEF others, c, at
  <2> DEFINE U == Range(batch) \union {table[at[i]] : i \in 1..c}
  <2>3. others \in [1..c -> U] /\ rows \in [1..n -> U]
    BY <1>4, <2>2
  <2> HIDE DEF n
  <2>4. n \in Nat /\ c \in Nat
    BY <1>1, <1>3 DEF n, c
  <2> HIDE DEF U
  <2>5. others \in Seq(U) /\ rows \in Seq(U)
    BY <2>3, <2>4
  <2>6. QED  BY <2>5
<1> HIDE DEF others, n
<1>7. PICK U : rows \in Seq(U) /\ others \in Seq(U)
  BY <1>6
<1> DEFINE all == rows \o others
           m == Min({UserLimit, Len(all)})
<1>8. /\ all \in Seq(U) /\ Len(all) = Len(rows) + Len(others)
      /\ Len(rows) = n /\ Len(others) \in Nat
      /\ \A i \in 1..Len(rows) : all[i] = rows[i]
  <2>1. /\ all \in Seq(U) /\ Len(all) = Len(rows) + Len(others)
        /\ \A i \in 1..Len(rows) + Len(others) :
             all[i] = IF i <= Len(rows) THEN rows[i] ELSE others[i - Len(rows)]
    BY <1>7, ConcatProperties
  <2>2. Len(rows) = n /\ Len(others) \in Nat
    BY <1>1, <1>4, <1>7
  <2>3. QED  BY <1>1, <2>1, <2>2
<1> HIDE DEF all
<1>9. m \in Nat /\ m <= Len(all) /\ m <= UserLimit /\ m \in {UserLimit, Len(all)}
  <2>1. Len(all) \in Nat /\ UserLimit \in Nat
    BY <1>8, Numbers
  <2> DEFINE l == Len(all)
  <2> HIDE DEF l
  <2>0. l \in Int /\ UserLimit \in Int
    BY <2>1 DEF l
  <2>2. m \in {UserLimit, Len(all)} /\ m <= UserLimit /\ m <= Len(all)
    <3>1. Min({UserLimit, l}) \in {UserLimit, l} /\ Min({UserLimit, l}) <= UserLimit
            /\ Min({UserLimit, l}) <= l
      BY <2>0, Smaller
    <3>2. QED  BY <3>1 DEF l
  <2> HIDE DEF m
  <2>3. QED  BY <2>1, <2>2
<1> HIDE DEF m
<1>10. /\ table' \in Seq(U) /\ Len(table') = m
       /\ \A i \in 1..m : table'[i] = all[i]
  <2>1. \A i \in 1..m : all[i] \in U
    BY <1>8, <1>9
  <2>2. table' = SubSeq(all, 1, m)
    BY <1>2 DEF all, m
  <2>3. /\ table' \in Seq(U) /\ Len(table') = IF 1 <= m THEN m - 1 + 1 ELSE 0
        /\ \A i \in 1..m - 1 + 1 : table'[i] = all[1 + i - 1]
    BY <1>9, <2>1, <2>2, SubSeqProperties
  <2>4. QED  BY <1>9, <2>3
<1>11. Len(table') \in Nat /\ DOMAIN table' = 1..Len(table')
  BY <1>10
<1>12. ASSUME Len(batch) <= UserLimit
       PROVE  Range(batch) \subseteq Range(table')
  <2>1. n <= m
    BY <1>1, <1>8, <1>9, <1>12, Numbers
  <2> SUFFICES ASSUME NEW i \in 1..n
               PROVE  rows[i] \in Range(table')
    BY <1>5
  <2>2. i \in 1..m /\ i \in 1..Len(rows)
    BY <1>1, <1>8, <1>9, <2>1
  <2>3. table'[i] = rows[i] /\ i \in DOMAIN table'
    BY <1>8, <1>10, <1>11, <2>2
  <2>4. QED  BY <2>3 DEF Range
<1>13. QED  BY <1>11, <1>12

\* What the limiter keeps of its hits, and how many are left once the oldest is over.
LEMMA ActiveHits ==
    ASSUME hits \in Seq(Nat), now \in Nat
    PROVE  /\ activeRateHits \in Seq(Nat) /\ Len(activeRateHits) <= Len(hits)
           /\ activeRateHits # <<>> /\ Len(activeRateHits) = Len(hits) => activeRateHits[1] = hits[1]
           /\ Over(now) => hits = <<>> \/ Len(activeRateHits) < Len(hits)
<1> DEFINE live == {i \in DOMAIN hits : hits[i] > now - RateWindow}
           k == Min(live)
           n == Len(hits)
<1>0. DOMAIN hits = 1..n /\ n \in Nat /\ \A i \in 1..n : hits[i] \in Nat
  OBVIOUS
<1>1. activeRateHits = IF live = {} THEN <<>> ELSE SubSeq(hits, k, n)
  BY DEF activeRateHits
<1>2. CASE live = {}
  <2>1. activeRateHits = <<>>
    BY <1>1, <1>2
  <2>2. <<>> \in Seq(Nat) /\ Len(<<>>) = 0
    OBVIOUS
  <2>3. hits = <<>> \/ n > 0
    BY <1>0
  <2>4. QED  BY <1>0, <2>1, <2>2, <2>3
<1>3. CASE live # {}
  <2>1. live \in SUBSET Nat /\ live \in SUBSET (1..n)
    BY <1>0
  <2>2. k \in live /\ k \in 1..n /\ hits[k] > now - RateWindow
    BY <1>3, <2>1, Least
  <2> HIDE DEF k, live
  <2>3. activeRateHits = SubSeq(hits, k, n)
    BY <1>1, <1>3
  <2>4. \A i \in k..n : hits[i] \in Nat
    BY <1>0, <2>2
  <2>5. /\ activeRateHits \in Seq(Nat) /\ Len(activeRateHits) = n - k + 1
        /\ \A i \in 1..n - k + 1 : activeRateHits[i] = hits[k + i - 1]
    BY <1>0, <2>2, <2>3, <2>4, SubSeqProperties
  <2>6. Len(activeRateHits) = n => activeRateHits[1] = hits[1]
    BY <1>0, <2>2, <2>5
  <2>7. Over(now) => Len(activeRateHits) < n
    <3>1. ASSUME Over(now) PROVE k # 1
      <4>1. hits # <<>> /\ 1 \in 1..n
        BY <1>0, <2>2
      <4>2. hits[1] + RateWindow <= now
        BY <3>1, <4>1 DEF Over
      <4>3. QED  BY <1>0, <2>2, <4>1, <4>2, Numbers
    <3>2. QED  BY <1>0, <2>2, <2>5, <3>1
  <2>8. QED  BY <1>0, <2>2, <2>5, <2>6, <2>7
<1>4. QED  BY <1>2, <1>3

\* How long a process waits that was not let in.
LEMMA BackoffIsNat == failures \in Nat => Backoff \in Nat /\ Backoff > 0
<1> SUFFICES ASSUME failures \in Nat PROVE Backoff \in Nat /\ Backoff > 0
  OBVIOUS
<1> DEFINE m == Min({failures, 4})
           factor == <<1, 2, 4, 8, 16>>[m + 1]
<1>1. m \in 0..4
  BY Smaller
<1> HIDE DEF m
<1>2. factor \in Nat /\ factor > 0
  <2>1. m \in {0, 1, 2, 3, 4}
    BY <1>1
  <2>2. QED  BY <2>1
<1> HIDE DEF factor
<1>3. RetryMin * factor \in Nat /\ RetryMin * factor > 0
  <2>1. \A x, y \in Nat : x > 0 /\ y > 0 => x * y \in Nat /\ x * y > 0
    OBVIOUS
  <2>2. QED  BY <1>2, <2>1, Numbers
<1> DEFINE x == RetryMin * factor
<1> HIDE DEF x
<1>4. Backoff = Min({x, RetryMax})
  BY DEF Backoff, x, factor, m
<1>5. x \in Nat /\ x > 0 /\ RetryMax \in Nat /\ RetryMax > 0
  BY <1>3, Numbers DEF x
<1>6. Min({x, RetryMax}) \in {x, RetryMax}
  BY <1>5, Smaller
<1>7. QED  BY <1>4, <1>5, <1>6
-----------------------------------------------------------------------------
(* What the actions do to the maps.                                        *)

\* An icon that is handed over is queued and remembered; another may be forgotten.
LEMMA HandsOver ==
    ASSUME TypeInv, CacheInv, NEW a \in Apps, NEW i \in Nat, maybeEnqueueAppIcon(a, i)
    PROVE  /\ retryAt' = retryAt /\ failures' = failures
           /\ \/ appIcons' = appIcons /\ icons' = icons
              \/ /\ DOMAIN icons' = DOMAIN icons \union {a} /\ icons'[a] = i
                 /\ \A k \in DOMAIN icons : k # a => icons'[k] = icons[k]
                 /\ IsFiniteSet(DOMAIN icons')
                 /\ a \in DOMAIN appIcons' /\ appIcons'[a] = [icon |-> i, at |-> now]
                 /\ \A k \in DOMAIN appIcons' : k # a => k \in DOMAIN appIcons /\ appIcons'[k] = appIcons[k]
                 /\ IsFiniteSet(DOMAIN appIcons') /\ Cardinality(DOMAIN appIcons') <= StateLimit
<1>1. /\ IsFiniteSet(DOMAIN appIcons) /\ Cardinality(DOMAIN appIcons) <= StateLimit
      /\ IsFiniteSet(DOMAIN icons) /\ DOMAIN appIcons \subseteq Nat
      /\ \A k \in DOMAIN appIcons : appIcons[k].at \in Nat
  BY Numbers DEF TypeInv, CacheInv, LoadsOwned
<1>2. CASE UNCHANGED <<appIcons, queue>>
  BY <1>2 DEF queue
<1> DEFINE full == a \notin DOMAIN appIcons /\ Cardinality(DOMAIN appIcons) >= StateLimit
           time == [k \in DOMAIN appIcons |-> appIcons[k].at]
           gone == Min(oldest(time))
           base == IF full THEN without(appIcons, gone) ELSE appIcons
           v == [icon |-> i, at |-> now]
<1>3. CASE icons' = with(icons, a, i) /\ appIcons' = with(base, a, v)
             /\ UNCHANGED <<retryAt, failures>>
  <2>1. /\ DOMAIN icons' = DOMAIN icons \union {a} /\ icons'[a] = i
        /\ \A k \in DOMAIN icons : k # a => icons'[k] = icons[k]
        /\ IsFiniteSet(DOMAIN icons')
    <3>1. IsFiniteSet(DOMAIN icons \union {a})
      BY <1>1, FS_AddElement
    <3>2. icons' = with(icons, a, i)
      BY <1>3
    <3>3. DOMAIN icons' = DOMAIN icons \union {a} /\ icons'[a] = i
      BY <3>2 DEF with
    <3>4. \A k \in DOMAIN icons : k # a => icons'[k] = icons[k]
      BY <3>2 DEF with
    <3>5. QED  BY <3>1, <3>3, <3>4
  <2>2. full => gone \in DOMAIN appIcons
    <3> SUFFICES ASSUME full PROVE gone \in DOMAIN appIcons
      OBVIOUS
    <3>1. DOMAIN time = DOMAIN appIcons /\ \A k \in DOMAIN time : time[k] \in Nat
      BY <1>1
    <3>2. DOMAIN appIcons # {}
      <4>1. Cardinality(DOMAIN appIcons) # 0
        BY Numbers
      <4>2. QED  BY <4>1, FS_EmptySet
    <3> HIDE DEF time
    <3>3. oldest(time) # {} /\ oldest(time) \subseteq DOMAIN appIcons
      BY <3>1, <3>2, Oldest
    <3>4. QED  BY <1>1, <3>3, Least
  <2> HIDE DEF gone, v
  <2>3. /\ a \in DOMAIN appIcons' /\ appIcons'[a] = v
        /\ DOMAIN appIcons' = DOMAIN base \union {a}
        /\ \A k \in DOMAIN base : k # a => appIcons'[k] = base[k]
    <3>1. appIcons' = with(base, a, v)
      BY <1>3
    <3> HIDE DEF base
    <3>2. QED  BY <3>1 DEF with
  <2>4. CASE full
    <3>1. /\ DOMAIN base = DOMAIN appIcons \ {gone}
          /\ \A k \in DOMAIN base : base[k] = appIcons[k]
      <4>1. base = without(appIcons, gone)
        BY <2>4
      <4> HIDE DEF base
      <4>2. QED  BY <4>1 DEF without, Restrict
    <3>2. /\ IsFiniteSet((DOMAIN appIcons \ {gone}) \union {a})
          /\ Cardinality((DOMAIN appIcons \ {gone}) \union {a}) <= StateLimit
      <4> DEFINE S == DOMAIN appIcons
      <4> HIDE DEF S
      <4>1. IsFiniteSet(S) /\ Cardinality(S) <= StateLimit /\ StateLimit \in Nat /\ gone \in S
        BY <1>1, <2>2, <2>4, Numbers DEF S
      <4>2. IsFiniteSet((S \ {gone}) \union {a}) /\ Cardinality((S \ {gone}) \union {a}) <= StateLimit
        BY <4>1, Room
      <4>3. QED  BY <4>2 DEF S
    <3>3. QED  BY <1>3, <2>1, <2>3, <3>1, <3>2 DEF v
  <2>5. CASE ~full
    <3>1. base = appIcons
      BY <2>5
    <3>2. a \in DOMAIN appIcons \/ Cardinality(DOMAIN appIcons) < StateLimit
      <4>1. Cardinality(DOMAIN appIcons) \in Nat
        BY <1>1, FS_CardinalityType
      <4>2. QED  BY <2>5, <4>1, Numbers
    <3>3. /\ IsFiniteSet(DOMAIN appIcons \union {a})
          /\ Cardinality(DOMAIN appIcons \union {a}) <= StateLimit
      BY <1>1, <3>2, Room, Numbers
    <3> HIDE DEF base, full
    <3>4. QED  BY <1>3, <2>1, <2>3, <3>1, <3>3 DEF v
  <2>6. QED  BY <2>4, <2>5
<1>4. QED  BY <1>2, <1>3 DEF maybeEnqueueAppIcon

\* A poll looks at the cache, or asks its worker.
LEMMA Polls ==
    ASSUME TypeInv, NEW a \in Apps, Poll(a)
    PROVE  /\ stage = "up"
           /\ UNCHANGED <<now, installed, stage, post, hits, table, late, faults, taken, refused, throttled>>
           /\ \/ Ask(a) /\ UNCHANGED <<appIcons, icons, retryAt, failures>>
              \/ /\ UNCHANGED <<entries, inFlight, requests, loading, closed>>
                 /\ \/ UNCHANGED <<appIcons, icons, retryAt, failures>>
                    \/ \E i \in Nat : maybeEnqueueAppIcon(a, i)
<1>1. /\ stage = "up"
      /\ UNCHANGED <<now, installed, stage, post, hits, table, late, faults, taken, refused, throttled>>
  BY DEF Poll, machine, server, histories
<1>2. CASE a \in DOMAIN entries /\ now < entries[a].expires
  <2>1. UNCHANGED <<entries, inFlight, requests, loading, closed>>
    BY <1>2 DEF Poll, cache
  <2>2. CASE entries[a].icon = {}
    BY <1>1, <1>2, <2>1, <2>2 DEF Poll, queue
  <2>3. CASE entries[a].icon # {}
    <3>1. PICK i \in Nat : entries[a].icon = {i}
      BY <1>2, <2>3 DEF TypeInv, Choice
    <3>2. Max(entries[a].icon) = i
      <4>1. i \in Int
        OBVIOUS
      <4>2. QED  BY <3>1, <4>1, Larger
    <3>3. QED  BY <1>1, <1>2, <2>1, <2>3, <3>2 DEF Poll
  <2>4. QED  BY <2>2, <2>3
<1>3. CASE ~ (a \in DOMAIN entries /\ now < entries[a].expires)
  BY <1>1, <1>3 DEF Poll, queue
<1>4. QED  BY <1>2, <1>3

\* A key that is asked for enters the channel and the map in flight together.
LEMMA Asks ==
    ASSUME TypeInv, CacheInv, NEW a \in Apps, Ask(a)
    PROVE  /\ loading' = loading /\ closed' = closed
           /\ DOMAIN entries' \subseteq DOMAIN entries
           /\ \A k \in DOMAIN entries' : entries'[k] = entries[k]
           /\ IsFiniteSet(DOMAIN entries') /\ Cardinality(DOMAIN entries') <= CacheLimit
           /\ \/ requests' = requests /\ inFlight' = inFlight
              \/ /\ a \notin inFlight /\ inFlight' = inFlight \union {a}
                 /\ requests' = Append(requests, a)
<1>1. IsFiniteSet(DOMAIN entries) /\ Cardinality(DOMAIN entries) <= CacheLimit
  BY DEF CacheInv, LoadsOwned
<1>2. entries' = without(entries, a)
  BY DEF Ask
<1>3. DOMAIN entries' = DOMAIN entries \ {a} /\ \A k \in DOMAIN entries' : entries'[k] = entries[k]
  BY <1>2 DEF without, Restrict
<1>4. IsFiniteSet(DOMAIN entries \ {a}) /\ Cardinality(DOMAIN entries \ {a}) <= CacheLimit
  BY <1>1, Room, Numbers
<1>5. QED  BY <1>3, <1>4 DEF Ask

\* The members of the channel when one joins it, and when its first leaves.
LEMMA Channel ==
    ASSUME requests \in Seq(Apps), IsInjective(requests)
    PROVE  /\ \A a \in Apps :
                /\ Range(Append(requests, a)) = Range(requests) \union {a}
                /\ Append(requests, a) \in Seq(Apps)
                /\ a \notin Range(requests) => IsInjective(Append(requests, a))
           /\ requests # <<>> =>
                /\ Tail(requests) \in Seq(Apps) /\ IsInjective(Tail(requests))
                /\ Head(requests) \in Apps
                /\ Range(Tail(requests)) = Range(requests) \ {Head(requests)}
                /\ Head(requests) \in Range(requests)
<1> DEFINE n == Len(requests)
<1>1. n \in Nat /\ DOMAIN requests = 1..n /\ Range(requests) = {requests[i] : i \in 1..n}
        /\ \A i, j \in 1..n : requests[i] = requests[j] => i = j
  BY DEF Range, IsInjective
<1>2. ASSUME NEW a \in Apps
      PROVE  /\ Range(Append(requests, a)) = Range(requests) \union {a}
             /\ Append(requests, a) \in Seq(Apps)
             /\ a \notin Range(requests) => IsInjective(Append(requests, a))
  <2> DEFINE s == Append(requests, a)
  <2>1. /\ s \in Seq(Apps) /\ DOMAIN s = 1..(n + 1)
        /\ \A i \in 1..n : s[i] = requests[i]
        /\ s[n + 1] = a
    BY <1>1
  <2> HIDE DEF s, n
  <2>2. Range(s) = {s[i] : i \in 1..(n + 1)}
    BY <2>1 DEF Range
  <2>3. 1..(n + 1) = (1..n) \union {n + 1} /\ n + 1 \notin 1..n
    BY <1>1
  <2>4. Range(s) = Range(requests) \union {a}
    BY <1>1, <2>1, <2>2, <2>3
  <2>5. ASSUME a \notin Range(requests)
        PROVE  IsInjective(s)
    <3> SUFFICES ASSUME NEW i \in 1..(n + 1), NEW j \in 1..(n + 1), s[i] = s[j]
                 PROVE  i = j
      BY <2>1 DEF IsInjective
    <3>1. QED  BY <1>1, <2>1, <2>3, <2>5
  <2>6. QED  BY <2>1, <2>4, <2>5 DEF s
<1>3. ASSUME requests # <<>>
      PROVE  /\ Tail(requests) \in Seq(Apps) /\ IsInjective(Tail(requests))
             /\ Head(requests) \in Apps
             /\ Range(Tail(requests)) = Range(requests) \ {Head(requests)}
             /\ Head(requests) \in Range(requests)
  <2> DEFINE s == Tail(requests)
             h == Head(requests)
  <2>1. /\ s \in Seq(Apps) /\ n > 0 /\ DOMAIN s = 1..(n - 1)
        /\ \A i \in 1..(n - 1) : s[i] = requests[i + 1]
        /\ h = requests[1] /\ h \in Apps
    BY <1>1, <1>3
  <2> HIDE DEF s, h, n
  <2>2. Range(s) = {s[i] : i \in 1..(n - 1)}
    BY <2>1 DEF Range
  <2>3. /\ \A i \in 1..(n - 1) : i + 1 \in 1..n /\ i + 1 # 1
        /\ \A j \in 1..n : j = 1 \/ (j - 1 \in 1..(n - 1) /\ (j - 1) + 1 = j)
        /\ 1 \in 1..n
    BY <1>1, <2>1
  <2>4. ASSUME NEW x \in Range(s)
        PROVE  x \in Range(requests) \ {h}
    <3>1. PICK i \in 1..(n - 1) : x = s[i]
      BY <2>2
    <3>2. x = requests[i + 1]
      BY <2>1, <3>1
    <3>3. QED  BY <1>1, <2>1, <2>3, <3>2
  <2>5. ASSUME NEW x \in Range(requests) \ {h}
        PROVE  x \in Range(s)
    <3>1. PICK j \in 1..n : x = requests[j]
      BY <1>1
    <3>2. j # 1
      BY <2>1, <3>1
    <3>3. j - 1 \in 1..(n - 1) /\ s[j - 1] = x
      BY <2>1, <2>3, <3>1, <3>2
    <3>4. QED  BY <2>2, <3>3
  <2>6. IsInjective(s)
    <3> SUFFICES ASSUME NEW i \in 1..(n - 1), NEW j \in 1..(n - 1), s[i] = s[j]
                 PROVE  i = j
      BY <2>1 DEF IsInjective
    <3>1. i + 1 = j + 1
      BY <1>1, <2>1, <2>3
    <3>2. QED  BY <3>1
  <2>7. h \in Range(requests)
    BY <1>1, <2>1, <2>3
  <2>8. QED  BY <2>1, <2>4, <2>5, <2>6, <2>7 DEF s, h
<1>4. QED  BY <1>2, <1>3
-----------------------------------------------------------------------------
(* Every action keeps the invariant.                                       *)

\* What the tracker knows stays accounted for while the histories only grow and the
\* Reporter's queue keeps what is not in them.
LEMMA KeptSame ==
    ASSUME IconsKept, DOMAIN appIcons' = DOMAIN appIcons,
           \A k \in DOMAIN appIcons : appIcons'[k] = appIcons[k],
           taken \subseteq taken', refused \subseteq refused', icons' = icons
    PROVE  IconsKept'
  BY DEF IconsKept

\* The invariant holds at the start.
LEMMA InitHolds == Init => AppIconsInv
<1> SUFFICES ASSUME Init PROVE AppIconsInv
  OBVIOUS
<1> USE DEF Init
<1>0. DOMAIN <<>> = {} /\ Len(<<>>) = 0 /\ <<>> \in Seq(Apps) /\ <<>> \in Seq(Nat) /\ <<>> \in Seq(Pairs)
        /\ Range(<<>>) = {} /\ 1..0 = {}
  BY DEF Range
<1>1. IsFiniteSet({}) /\ Cardinality({}) = 0
  BY FS_EmptySet
<1>2. Idle \in Upload
  BY <1>0 DEF Idle, Upload
<1>3. TypeInv
  BY <1>0, <1>2 DEF TypeInv
<1>4. CacheInv
  BY <1>0, <1>1, Numbers DEF CacheInv, LoadsOwned, IsInjective
<1>5. KeptInv
  BY <1>0, Numbers DEF KeptInv, IconsKept, Idle
<1>6. TurnInv
  BY <1>0, Numbers DEF TurnInv, Over, Idle
<1>7. QED  BY <1>3, <1>4, <1>5, <1>6 DEF AppIconsInv

\* A poll hands an icon over or asks for it.
LEMMA PollKeeps ==
    ASSUME AppIconsInv, NEW a \in Apps, Poll(a)
    PROVE  AppIconsInv'
<1>0. TypeInv /\ CacheInv /\ KeptInv /\ TurnInv
  BY DEF AppIconsInv
<1>1. /\ stage = "up" /\ ~closed
      /\ UNCHANGED <<now, installed, stage, post, hits, table, late, faults, taken, refused, throttled>>
      /\ \/ Ask(a) /\ UNCHANGED <<appIcons, icons, retryAt, failures>>
         \/ /\ UNCHANGED <<entries, inFlight, requests, loading, closed>>
            /\ \/ UNCHANGED <<appIcons, icons, retryAt, failures>>
               \/ \E i \in Nat : maybeEnqueueAppIcon(a, i)
  BY <1>0, Polls DEF TypeInv
<1>2. CASE Ask(a) /\ UNCHANGED <<appIcons, icons, retryAt, failures>>
  <2>1. /\ loading' = loading /\ closed' = closed
        /\ DOMAIN entries' \subseteq DOMAIN entries
        /\ \A k \in DOMAIN entries' : entries'[k] = entries[k]
        /\ IsFiniteSet(DOMAIN entries') /\ Cardinality(DOMAIN entries') <= CacheLimit
        /\ \/ requests' = requests /\ inFlight' = inFlight
           \/ /\ a \notin inFlight /\ inFlight' = inFlight \union {a}
              /\ requests' = Append(requests, a)
    BY <1>0, <1>2, Asks
  <2>2. requests \in Seq(Apps) /\ IsInjective(requests)
    BY <1>0 DEF TypeInv, CacheInv, LoadsOwned
  <2>3. /\ Range(Append(requests, a)) = Range(requests) \union {a}
        /\ Append(requests, a) \in Seq(Apps)
        /\ a \notin Range(requests) => IsInjective(Append(requests, a))
    BY <2>2, Channel
  <2>4. TypeInv'
    BY <1>0, <1>1, <1>2, <2>1, <2>3 DEF TypeInv
  <2>5. LoadsOwned'
    <3>1. /\ inFlight = Range(requests) \union {l.key : l \in loading}
          /\ \A l \in loading : l.key \notin Range(requests)
          /\ Cardinality(DOMAIN appIcons) <= StateLimit
      BY <1>0, <1>1 DEF CacheInv, LoadsOwned
    <3>2. CASE requests' = requests /\ inFlight' = inFlight
      BY <1>2, <2>1, <2>2, <3>1, <3>2 DEF LoadsOwned
    <3>3. CASE /\ a \notin inFlight /\ inFlight' = inFlight \union {a}
               /\ requests' = Append(requests, a)
      <4>1. a \notin Range(requests) /\ \A l \in loading : l.key # a
        BY <3>1, <3>3
      <4>2. Range(requests') = Range(requests) \union {a} /\ IsInjective(requests')
        BY <2>3, <3>3, <4>1
      <4>3. QED  BY <1>2, <2>1, <3>1, <3>3, <4>1, <4>2 DEF LoadsOwned
    <3>4. QED  BY <2>1, <3>2, <3>3
  <2>6. CacheInv'
    BY <1>0, <1>2, <2>1, <2>5 DEF CacheInv
  <2>7. KeptInv'
    BY <1>0, <1>1, <1>2 DEF KeptInv, IconsKept
  <2>8. TurnInv'
    BY <1>0, <1>1, <1>2 DEF TurnInv, Over
  <2>9. QED  BY <2>4, <2>6, <2>7, <2>8 DEF AppIconsInv
<1>3. CASE /\ UNCHANGED <<entries, inFlight, requests, loading, closed>>
           /\ UNCHANGED <<appIcons, icons, retryAt, failures>>
  <2>1. TypeInv'
    BY <1>0, <1>1, <1>3 DEF TypeInv
  <2>2. CacheInv'
    BY <1>0, <1>1, <1>3 DEF CacheInv, LoadsOwned
  <2>3. KeptInv'
    BY <1>0, <1>1, <1>3 DEF KeptInv, IconsKept
  <2>4. TurnInv'
    BY <1>0, <1>1, <1>3 DEF TurnInv, Over
  <2>5. QED  BY <2>1, <2>2, <2>3, <2>4 DEF AppIconsInv
<1>4. ASSUME UNCHANGED <<entries, inFlight, requests, loading, closed>>,
             NEW i \in Nat, maybeEnqueueAppIcon(a, i)
      PROVE  AppIconsInv'
  <2>1. /\ retryAt' = retryAt /\ failures' = failures
        /\ \/ appIcons' = appIcons /\ icons' = icons
           \/ /\ DOMAIN icons' = DOMAIN icons \union {a} /\ icons'[a] = i
              /\ \A k \in DOMAIN icons : k # a => icons'[k] = icons[k]
              /\ IsFiniteSet(DOMAIN icons')
              /\ a \in DOMAIN appIcons' /\ appIcons'[a] = [icon |-> i, at |-> now]
              /\ \A k \in DOMAIN appIcons' : k # a => k \in DOMAIN appIcons /\ appIcons'[k] = appIcons[k]
              /\ IsFiniteSet(DOMAIN appIcons') /\ Cardinality(DOMAIN appIcons') <= StateLimit
    BY <1>0, <1>4, HandsOver
  <2>2. TypeInv'
    <3>1. DOMAIN appIcons' \subseteq Apps /\ \A k \in DOMAIN appIcons' : appIcons'[k].at \in Nat
      BY <1>0, <2>1 DEF TypeInv
    <3>2. DOMAIN icons' \subseteq Apps /\ \A k \in DOMAIN icons' : icons'[k] \in Nat
      BY <1>0, <2>1 DEF TypeInv
    <3>3. QED  BY <1>0, <1>1, <1>4, <2>1, <3>1, <3>2 DEF TypeInv
  <2>3. CacheInv'
    <3>1. IsFiniteSet(DOMAIN appIcons') /\ Cardinality(DOMAIN appIcons') <= StateLimit
            /\ IsFiniteSet(DOMAIN icons')
      BY <1>0, <2>1 DEF CacheInv, LoadsOwned
    <3>2. QED  BY <1>0, <1>4, <3>1 DEF CacheInv, LoadsOwned
  <2>4. KeptInv'
    <3>1. IconsKept'
      BY <1>0, <1>1, <2>1 DEF KeptInv, IconsKept
    <3>2. QED  BY <1>0, <1>1, <3>1 DEF KeptInv
  <2>5. TurnInv'
    BY <1>0, <1>1, <2>1 DEF TurnInv, Over
  <2>6. QED  BY <2>2, <2>3, <2>4, <2>5 DEF AppIconsInv
<1>5. QED  BY <1>1, <1>2, <1>3, <1>4

\* The worker takes a key off its channel, or cancels it.
LEMMA TakeRequestKeeps ==
    ASSUME AppIconsInv, TakeRequest
    PROVE  AppIconsInv'
<1>0. TypeInv /\ CacheInv /\ KeptInv /\ TurnInv
  BY DEF AppIconsInv
<1> DEFINE h == Head(requests)
<1>1. /\ requests # <<>> /\ loading = {} /\ ~closed /\ requests' = Tail(requests)
      /\ UNCHANGED <<now, installed, stage, entries, closed, appIcons, icons, retryAt, failures, post,
                     hits, table, late, faults, taken, refused, throttled>>
  BY DEF TakeRequest, machine, queue, server, histories
<1>2. \/ inFlight' = inFlight \ {h} /\ loading' = {}
      \/ /\ inFlight' = inFlight
         /\ \E found \in {{}, {installed[h]}} : loading' = {[key |-> h, icon |-> found]}
  BY <1>1 DEF TakeRequest
<1>3. /\ requests' \in Seq(Apps) /\ IsInjective(requests') /\ h \in Apps
      /\ Range(requests') = Range(requests) \ {h} /\ h \in Range(requests)
  <2>1. requests \in Seq(Apps) /\ IsInjective(requests)
    BY <1>0 DEF TypeInv, CacheInv, LoadsOwned
  <2>2. QED  BY <1>1, <2>1, Channel
<1> HIDE DEF h
<1>4. /\ inFlight' \subseteq Apps
      /\ \A l \in loading' : l.key = h /\ Choice(l.icon) /\ loading' = {l}
      /\ inFlight' = Range(requests') \union {l.key : l \in loading'}
  <2>1. inFlight \subseteq Apps /\ installed[h] \in Nat
    BY <1>0, <1>3 DEF TypeInv
  <2>2. inFlight = Range(requests)
    BY <1>0, <1>1 DEF CacheInv, LoadsOwned
  <2>3. CASE inFlight' = inFlight \ {h} /\ loading' = {}
    BY <1>3, <2>1, <2>2, <2>3
  <2>4. ASSUME inFlight' = inFlight, NEW found \in {{}, {installed[h]}},
               loading' = {[key |-> h, icon |-> found]}
        PROVE  /\ inFlight' \subseteq Apps
               /\ \A l \in loading' : l.key = h /\ Choice(l.icon) /\ loading' = {l}
               /\ inFlight' = Range(requests') \union {l.key : l \in loading'}
    <3>1. Choice(found)
      BY <2>1 DEF Choice
    <3>2. {l.key : l \in loading'} = {h}
      BY <2>4
    <3>3. QED  BY <1>3, <2>1, <2>2, <2>4, <3>1, <3>2
  <2>5. QED  BY <1>2, <2>3, <2>4
<1>5. TypeInv'
  BY <1>0, <1>1, <1>3, <1>4 DEF TypeInv
<1>6. CacheInv'
  BY <1>0, <1>1, <1>3, <1>4 DEF CacheInv, LoadsOwned
<1>7. KeptInv'
  BY <1>0, <1>1 DEF KeptInv, IconsKept
<1>8. TurnInv'
  BY <1>0, <1>1 DEF TurnInv, Over
<1>9. QED  BY <1>5, <1>6, <1>7, <1>8 DEF AppIconsInv

\* A load that ends leaves the map in flight, and its icon finds room in the cache.
LEMMA FinishLoadKeeps ==
    ASSUME AppIconsInv, FinishLoad
    PROVE  AppIconsInv'
<1>0. TypeInv /\ CacheInv /\ KeptInv /\ TurnInv
  BY DEF AppIconsInv
<1>1. /\ loading' = {}
      /\ UNCHANGED <<now, installed, stage, requests, closed, appIcons, icons, retryAt, failures, post,
                     hits, table, late, faults, taken, refused, throttled>>
  BY DEF FinishLoad, machine, queue, server, histories
<1>2. PICK l \in loading :
        LET full == l.key \notin DOMAIN entries /\ Cardinality(DOMAIN entries) >= CacheLimit
            entry == [icon |-> l.icon,
                      expires |-> now + IF l.icon = {} THEN Negative ELSE Positive]
        IN  /\ inFlight' = inFlight \ {l.key}
            /\ IF stage # "up" \/ closed THEN UNCHANGED entries
               ELSE \E gone \in IF full THEN oldest([k \in DOMAIN entries |-> entries[k].expires]) ELSE {l.key} :
                      entries' = with(without(entries, gone), l.key, entry)
  BY DEF FinishLoad
<1> DEFINE x == l.key
           full == x \notin DOMAIN entries /\ Cardinality(DOMAIN entries) >= CacheLimit
           time == [k \in DOMAIN entries |-> entries[k].expires]
           entry == [icon |-> l.icon, expires |-> now + IF l.icon = {} THEN Negative ELSE Positive]
<1>3. inFlight' = inFlight \ {x} /\ x \in Apps /\ Choice(l.icon) /\ loading = {l}
  BY <1>0, <1>2 DEF TypeInv
<1>4. IsFiniteSet(DOMAIN entries) /\ Cardinality(DOMAIN entries) <= CacheLimit
        /\ Cardinality(DOMAIN entries) \in Nat
  BY <1>0, FS_CardinalityType DEF CacheInv, LoadsOwned
<1>5. /\ IsFiniteSet(DOMAIN entries') /\ Cardinality(DOMAIN entries') <= CacheLimit
      /\ \A k \in DOMAIN entries' : Choice(entries'[k].icon)
  <2>1. CASE UNCHANGED entries
    BY <1>0, <1>4, <2>1 DEF TypeInv
  <2>2. ASSUME NEW gone \in IF full THEN oldest(time) ELSE {x},
               entries' = with(without(entries, gone), x, entry)
        PROVE  /\ IsFiniteSet(DOMAIN entries') /\ Cardinality(DOMAIN entries') <= CacheLimit
               /\ \A k \in DOMAIN entries' : Choice(entries'[k].icon)
    <3> DEFINE S == DOMAIN entries
    <3>1. /\ DOMAIN entries' = (S \ {gone}) \union {x} /\ entries'[x] = entry
          /\ \A k \in S \ {gone} : k # x => entries'[k] = entries[k]
      <4> HIDE DEF entry
      <4>1. QED  BY <2>2 DEF with, without, Restrict
    <3>2. gone \in S \/ (x = gone /\ Cardinality(S) < CacheLimit)
      <4>1. CASE full
        <5> HIDE DEF time
        <5>1. gone \in oldest(time) => gone \in DOMAIN time
          BY DEF oldest
        <5>2. QED  BY <2>2, <4>1, <5>1 DEF time
      <4>2. CASE ~full
        BY <1>4, <2>2, <4>2, Numbers
      <4>3. QED  BY <4>1, <4>2
    <3>3. \A k \in DOMAIN entries' : Choice(entries'[k].icon)
      <4>1. entries'[x].icon = l.icon
        BY <3>1
      <4> HIDE DEF entry
      <4>2. QED  BY <1>0, <1>3, <3>1, <4>1 DEF TypeInv
    <3> HIDE DEF S
    <3>4. IsFiniteSet((S \ {gone}) \union {x}) /\ Cardinality((S \ {gone}) \union {x}) <= CacheLimit
      <4>1. IsFiniteSet(S) /\ Cardinality(S) <= CacheLimit /\ CacheLimit \in Nat
        BY <1>4, Numbers DEF S
      <4>2. QED  BY <3>2, <4>1, Room
    <3>5. QED  BY <3>1, <3>3, <3>4
  <2>3. QED  BY <1>2, <2>1, <2>2
<1>6. ~closed => inFlight' = Range(requests') \union {k.key : k \in loading'}
  <2>1. ~closed => inFlight = Range(requests) \union {k.key : k \in loading}
    BY <1>0 DEF CacheInv, LoadsOwned
  <2>2. {k.key : k \in loading} = {x} /\ x \notin Range(requests)
    BY <1>0, <1>3 DEF CacheInv, LoadsOwned
  <2> HIDE DEF x
  <2>3. QED  BY <1>1, <1>3, <2>1, <2>2
<1> HIDE DEF x, full, time, entry
<1>7. TypeInv'
  BY <1>0, <1>1, <1>3, <1>5 DEF TypeInv
<1>8. CacheInv'
  BY <1>0, <1>1, <1>5, <1>6 DEF CacheInv, LoadsOwned
<1>9. KeptInv'
  BY <1>0, <1>1 DEF KeptInv, IconsKept
<1>10. TurnInv'
  BY <1>0, <1>1 DEF TurnInv, Over
<1>11. QED  BY <1>7, <1>8, <1>9, <1>10 DEF AppIconsInv

\* The cache is closed, and what is in flight is not waited for.
LEMMA CloseKeeps ==
    ASSUME AppIconsInv, Close
    PROVE  AppIconsInv'
<1>0. TypeInv /\ CacheInv /\ KeptInv /\ TurnInv
  BY DEF AppIconsInv
<1>1. /\ stage # "up" /\ closed' = TRUE
      /\ UNCHANGED <<now, installed, stage, entries, inFlight, requests, loading, appIcons, icons,
                     retryAt, failures, post, hits, table, late, faults, taken, refused, throttled>>
  BY DEF Close, machine, queue, server, histories
<1>2. TypeInv'
  BY <1>0, <1>1 DEF TypeInv
<1>3. CacheInv'
  BY <1>0, <1>1 DEF CacheInv, LoadsOwned
<1>4. KeptInv'
  BY <1>0, <1>1 DEF KeptInv, IconsKept
<1>5. TurnInv'
  BY <1>0, <1>1 DEF TurnInv, Over
<1>6. QED  BY <1>2, <1>3, <1>4, <1>5 DEF AppIconsInv

\* A flush asks for the first keys, and while the daemon runs not before its turn.
LEMMA FlushKeeps ==
    ASSUME AppIconsInv, Flush
    PROVE  AppIconsInv'
<1>0. TypeInv /\ CacheInv /\ KeptInv /\ TurnInv
  BY DEF AppIconsInv
<1> DEFINE first == {a \in DOMAIN icons : Cardinality({b \in DOMAIN icons : b < a}) < FlushLimit}
           n == Cardinality(first)
<1>1. /\ post = Idle /\ stage # "flushed" /\ (stage = "up" => now >= retryAt)
      /\ stage' = IF stage = "draining" THEN "flushed" ELSE stage
      /\ UNCHANGED <<now, installed, entries, inFlight, requests, loading, closed, appIcons, icons,
                     retryAt, failures, hits, table, late, faults, taken, refused, throttled>>
  BY DEF Flush, machine, cache, queue, server, histories
<1>2. PICK keys \in [1..n -> first] :
        /\ Lists(keys, first)
        /\ post' = [Idle EXCEPT !.batch = [i \in 1..n |-> <<keys[i], icons[keys[i]]>>]]
  BY DEF Flush
<1>3. n \in Nat /\ n <= FlushLimit
  <2>1. DOMAIN icons \in SUBSET Nat /\ IsFiniteSet(DOMAIN icons)
    BY <1>0, Numbers DEF TypeInv, CacheInv
  <2> HIDE DEF first
  <2>2. first = {a \in DOMAIN icons : Cardinality({b \in DOMAIN icons : b < a}) < FlushLimit}
    BY DEF first
  <2>3. QED  BY <1>2, <2>1, <2>2, FirstKeys
<1>4. \A i \in 1..n : keys[i] \in Nat /\ icons[keys[i]] \in Nat
  <2>1. \A k \in first : k \in Nat /\ icons[k] \in Nat
    BY <1>0, Numbers DEF TypeInv
  <2> HIDE DEF first, n
  <2>2. QED  BY <1>2, <2>1
<1> DEFINE batch == [i \in 1..n |-> <<keys[i], icons[keys[i]]>>]
<1>5. batch \in Seq(Pairs) /\ Len(batch) = n
  <2> HIDE DEF n
  <2>1. \A i \in 1..n : <<keys[i], icons[keys[i]]>> \in Pairs
    BY <1>4 DEF Pairs
  <2>2. QED  BY <1>3, <2>1
<1>6. post' = [Idle EXCEPT !.batch = batch]
  BY <1>2
<1> HIDE DEF batch, n, first
<1>7. /\ post'.batch = batch /\ post'.answer = "none" /\ post' \in Upload /\ post.answer = "none"
  <2>1. <<>> \in Seq(Pairs)
    OBVIOUS
  <2>2. QED  BY <1>1, <1>5, <1>6, <2>1 DEF Idle, Upload
<1>8. TypeInv'
  BY <1>0, <1>1, <1>7 DEF TypeInv
<1>9. CacheInv'
  BY <1>0, <1>1 DEF CacheInv, LoadsOwned
<1>10. KeptInv'
  BY <1>0, <1>1, <1>3, <1>5, <1>7 DEF KeptInv, IconsKept
<1>11. TurnInv'
  <2>1. Len(hits') <= RateLimit
    BY <1>0, <1>1 DEF TurnInv
  <2>2. throttled /\ stage = "up" => Over(retryAt) /\ now >= retryAt
    BY <1>0, <1>1, <1>7 DEF TurnInv
  <2>3. stage' = "up" => stage = "up"
    BY <1>1
  <2>4. throttled' /\ stage' = "up" => Over(retryAt)' /\ now' >= retryAt'
    BY <1>1, <2>2, <2>3 DEF Over
  <2>5. QED  BY <1>7, <2>1, <2>4 DEF TurnInv
<1>12. QED  BY <1>8, <1>9, <1>10, <1>11 DEF AppIconsInv

\* The next request of an isolation has one icon and no answer.
LEMMA Isolates ==
    ASSUME NEW todo \in Seq(Pairs), Isolate(todo)
    PROVE  /\ post' \in Upload /\ post'.answer = "none" /\ Len(post'.batch) <= FlushLimit
           /\ \/ retryAt' = retryAt /\ failures' = failures
              \/ retryAt' = 0 /\ failures' = 0
<1>1. <<>> \in Seq(Pairs) /\ Len(<<>>) = 0
  OBVIOUS
<1>2. CASE todo = <<>>
  <2>1. post' = Idle /\ retryAt' = 0 /\ failures' = 0
    BY <1>2 DEF Isolate, clearAppIconRetry
  <2>2. QED  BY <1>1, <2>1, Numbers DEF Idle, Upload
<1>3. CASE todo # <<>>
  <2> DEFINE h == Head(todo)
             rest == Tail(todo)
  <2>1. h \in Pairs /\ rest \in Seq(Pairs)
    BY <1>3
  <2>2. post' = [Idle EXCEPT !.batch = <<h>>, !.todo = rest, !.alone = TRUE]
          /\ UNCHANGED <<retryAt, failures>>
    BY <1>3 DEF Isolate
  <2> HIDE DEF h, rest
  <2>3. <<h>> \in Seq(Pairs) /\ Len(<<h>>) = 1
    BY <2>1
  <2>4. post' = [batch |-> <<h>>, todo |-> rest, alone |-> TRUE, answer |-> "none", wait |-> 0]
    BY <2>2 DEF Idle
  <2>5. post' \in Upload /\ post'.answer = "none" /\ post'.batch = <<h>>
    <3> DEFINE one == <<h>>
    <3> HIDE DEF one
    <3>1. one \in Seq(Pairs) /\ post' = [batch |-> one, todo |-> rest, alone |-> TRUE, answer |-> "none", wait |-> 0]
      BY <2>3, <2>4 DEF one
    <3>2. post' \in Upload /\ post'.answer = "none" /\ post'.batch = one
      BY <2>1, <3>1 DEF Upload
    <3>3. QED  BY <3>2 DEF one
  <2>6. 1 <= FlushLimit
    BY Numbers
  <2>7. QED  BY <2>2, <2>3, <2>5, <2>6
<1>4. QED  BY <1>2, <1>3

\* What an answer takes out of the queue is stored or was refused by itself.
LEMMA ReactKeeps ==
    ASSUME AppIconsInv, React
    PROVE  AppIconsInv'
<1>0. TypeInv /\ CacheInv /\ KeptInv /\ TurnInv
  BY DEF AppIconsInv
<1> DEFINE ok == post.answer = "200" \/ (post.answer \in Permanent /\ Len(post.batch) = 1)
<1>1. /\ post.answer # "none" /\ throttled' = (post.answer = "429")
      /\ refused' = IF post.answer \in Permanent /\ Len(post.batch) = 1
                    THEN refused \union Range(post.batch) ELSE refused
      /\ UNCHANGED <<now, installed, stage, entries, inFlight, requests, loading, closed, appIcons,
                     hits, table, late, faults, taken>>
      /\ \/ ok /\ removeMatchingAppIcons(post.batch) /\ Isolate(post.todo)
         \/ /\ post.answer \in Permanent /\ Len(post.batch) > 1
            /\ Isolate(post.batch) /\ UNCHANGED icons
         \/ /\ post.answer \in {"lost", "429", "500"}
            /\ deferAppIconRetry(post.wait) /\ post' = Idle /\ UNCHANGED icons
  BY DEF React, machine, cache, server
<1>2. /\ post \in Upload /\ post.batch \in Seq(Pairs) /\ post.todo \in Seq(Pairs)
      /\ post.answer # "400" /\ post.wait \in Nat
  BY <1>0 DEF TypeInv, Upload
<1>3. /\ post' \in Upload /\ post'.answer = "none" /\ Len(post'.batch) <= FlushLimit
      /\ retryAt' \in Nat /\ failures' \in Nat
      /\ post.answer = "429" => post'.batch = <<>> /\ retryAt' >= now + post.wait
  <2>1. CASE post.answer # "429" /\ (Isolate(post.todo) \/ Isolate(post.batch))
    <3>1. retryAt \in Nat /\ failures \in Nat
      BY <1>0 DEF TypeInv
    <3>2. QED  BY <1>2, <2>1, <3>1, Isolates
  <2>2. CASE deferAppIconRetry(post.wait) /\ post' = Idle
    <3>1. failures \in Nat /\ now \in Nat
      BY <1>0 DEF TypeInv
    <3>2. Backoff \in Nat
      BY <3>1, BackoffIsNat
    <3>3. Max({post.wait, Backoff}) \in Nat /\ Max({post.wait, Backoff}) >= post.wait
      <4> DEFINE w == post.wait
                 b == Backoff
      <4> HIDE DEF w, b
      <4>1. w \in Nat /\ b \in Nat
        BY <1>2, <3>2 DEF w, b
      <4>2. Max({w, b}) \in {w, b} /\ Max({w, b}) >= w
        <5>1. w \in Int /\ b \in Int
          BY <4>1
        <5>2. QED  BY <5>1, Larger
      <4>3. QED  BY <4>1, <4>2 DEF w, b
    <3>4. failures' = failures + 1 /\ retryAt' = now + Max({post.wait, Backoff})
      BY <2>2 DEF deferAppIconRetry
    <3>5. <<>> \in Seq(Pairs) /\ Len(<<>>) = 0
      OBVIOUS
    <3>6. post' \in Upload /\ post'.answer = "none" /\ post'.batch = <<>>
      BY <2>2, <3>5 DEF Idle, Upload
    <3>7. retryAt' \in Nat /\ failures' \in Nat /\ retryAt' >= now + post.wait
      BY <1>2, <3>1, <3>3, <3>4
    <3>8. QED  BY <3>5, <3>6, <3>7, Numbers
  <2>3. QED  BY <1>1, <2>1, <2>2 DEF Permanent
<1>4. /\ DOMAIN icons' \subseteq DOMAIN icons
      /\ \A k \in DOMAIN icons' : icons'[k] = icons[k]
      /\ \A k \in DOMAIN icons \ DOMAIN icons' : ok /\ <<k, icons[k]>> \in Range(post.batch)
  <2>1. CASE icons' = icons
    BY <2>1
  <2>2. CASE ok /\ removeMatchingAppIcons(post.batch)
    <3> HIDE DEF ok
    <3>1. QED  BY <2>2 DEF removeMatchingAppIcons, Restrict
  <2>3. QED  BY <1>1, <2>1, <2>2
<1>5. ASSUME NEW p \in Range(post.batch), ok
      PROVE  p \in taken \/ (p \in refused' /\ p \in Bad)
  <2>1. CASE post.answer = "200"
    BY <1>0, <1>5, <2>1 DEF KeptInv
  <2>2. CASE post.answer \in Permanent /\ Len(post.batch) = 1
    <3>1. post.answer = "422"
      BY <1>0, <1>2, <2>2 DEF KeptInv, Permanent
    <3>2. \A q \in Range(post.batch) : q = post.batch[1]
      BY <1>2, <2>2 DEF Range
    <3>3. PICK q \in Range(post.batch) : q \in Bad
      BY <1>0, <3>1 DEF KeptInv
    <3>4. p \in Bad
      BY <3>2, <3>3
    <3>5. QED  BY <1>1, <2>2, <3>4
  <2>3. QED  BY <1>5, <2>1, <2>2
<1>6. TypeInv'
  <2>1. DOMAIN icons' \subseteq Apps /\ \A k \in DOMAIN icons' : icons'[k] \in Nat
    BY <1>0, <1>4 DEF TypeInv
  <2>2. throttled' \in BOOLEAN
    BY <1>1
  <2>3. QED  BY <1>0, <1>1, <1>3, <2>1, <2>2 DEF TypeInv
<1>7. CacheInv'
  <2>1. IsFiniteSet(DOMAIN icons')
    BY <1>0, <1>4, FS_Subset DEF CacheInv
  <2>2. QED  BY <1>0, <1>1, <2>1 DEF CacheInv, LoadsOwned
<1>8. KeptInv'
  <2>1. IconsKept'
    <3> SUFFICES ASSUME NEW a \in DOMAIN appIcons
                 PROVE  \/ <<a, appIcons[a].icon>> \in taken
                        \/ <<a, appIcons[a].icon>> \in refused' /\ <<a, appIcons[a].icon>> \in Bad
                        \/ a \in DOMAIN icons' /\ icons'[a] = appIcons[a].icon
      BY <1>1 DEF IconsKept
    <3>1. refused \subseteq refused'
      BY <1>1
    <3> HIDE DEF ok
    <3>2. \/ <<a, appIcons[a].icon>> \in taken
          \/ <<a, appIcons[a].icon>> \in refused /\ <<a, appIcons[a].icon>> \in Bad
          \/ a \in DOMAIN icons /\ icons[a] = appIcons[a].icon
      BY <1>0 DEF KeptInv, IconsKept
    <3>3. QED  BY <1>4, <1>5, <3>1, <3>2
  <2>2. QED  BY <1>3, <2>1 DEF KeptInv
<1>9. TurnInv'
  <2>1. Len(hits') <= RateLimit /\ now \in Nat /\ RateWindow \in Nat
    BY <1>0, <1>1, Numbers DEF TurnInv, TypeInv
  <2>2. post.answer = "429" => Over(retryAt)'
    <3> SUFFICES ASSUME post.answer = "429", hits # <<>>
                 PROVE  hits[1] + RateWindow <= retryAt'
      BY <1>1 DEF Over
    <3>1. hits[1] + RateWindow <= now + post.wait
      BY <1>0 DEF TurnInv, Over
    <3>2. hits[1] \in Nat
      BY <1>0 DEF TypeInv
    <3>3. QED  BY <1>2, <1>3, <2>1, <3>1, <3>2
  <2>3. QED  BY <1>1, <1>3, <2>1, <2>2 DEF TurnInv
<1>10. QED  BY <1>6, <1>7, <1>8, <1>9 DEF AppIconsInv

\* The server answers a batch, and what it says of the batch is so.
LEMMA ServeKeeps ==
    ASSUME AppIconsInv, Serve
    PROVE  AppIconsInv'
<1>0. TypeInv /\ CacheInv /\ KeptInv /\ TurnInv
  BY DEF AppIconsInv
<1> DEFINE full == Len(activeRateHits) >= RateLimit
           bad == Range(post.batch) \intersect Bad # {}
           wait == Max({activeRateHits[1] + RateWindow - now, 1})
<1>1. /\ post.batch # <<>> /\ post.answer = "none" /\ stage # "draining"
      /\ UNCHANGED <<now, installed, stage, entries, inFlight, requests, loading, closed, appIcons,
                     icons, retryAt, failures, late, refused, throttled>>
  BY DEF Serve, machine, cache, queue
<1>2. /\ activeRateHits \in Seq(Nat) /\ Len(activeRateHits) <= Len(hits) /\ Len(hits) <= RateLimit
      /\ now \in Nat /\ post \in Upload /\ post.batch \in Seq(Pairs)
  BY <1>0, ActiveHits DEF TypeInv, TurnInv, Upload
<1>3. CASE full /\ hits' = activeRateHits /\ answered("429", wait) /\ UNCHANGED <<table, taken, faults>>
  <2> DEFINE h == activeRateHits[1]
  <2>1. activeRateHits # <<>> /\ h \in Nat
    BY <1>2, <1>3, Numbers
  <2>2. wait \in Nat /\ now + wait >= h + RateWindow
    <3> HIDE DEF h
    <3>1. Max({h + RateWindow - now, 1}) \in {h + RateWindow - now, 1}
            /\ Max({h + RateWindow - now, 1}) >= h + RateWindow - now
            /\ Max({h + RateWindow - now, 1}) >= 1
      <4>1. h + RateWindow - now \in Int /\ 1 \in Int
        BY <1>2, <2>1, Numbers
      <4> DEFINE d == h + RateWindow - now
      <4> HIDE DEF d
      <4>2. Max({d, 1}) \in {d, 1} /\ Max({d, 1}) >= d /\ Max({d, 1}) >= 1
        BY <4>1, Larger DEF d
      <4>3. QED  BY <4>2 DEF d
    <3>2. wait = Max({h + RateWindow - now, 1})
      BY DEF h
    <3> HIDE DEF wait
    <3>3. QED  BY <1>2, <2>1, <3>1, <3>2, Numbers
  <2> HIDE DEF wait
  <2>3. /\ post' = [post EXCEPT !.answer = "429", !.wait = wait]
        /\ post'.answer = "429" /\ post'.wait = wait /\ post'.batch = post.batch /\ post' \in Upload
    BY <1>2, <1>3, <2>2 DEF answered, Upload
  <2>4. TypeInv'
    BY <1>0, <1>1, <1>2, <1>3, <2>3 DEF TypeInv
  <2>5. CacheInv'
    BY <1>0, <1>1 DEF CacheInv, LoadsOwned
  <2>6. KeptInv'
    BY <1>0, <1>1, <1>3, <2>3 DEF KeptInv, IconsKept
  <2>7. TurnInv'
    <3>1. Over(now + post.wait)'
      BY <1>1, <1>3, <2>2, <2>3 DEF Over
    <3>2. Len(hits') <= RateLimit
      <4>1. Len(activeRateHits) \in Nat /\ Len(hits) \in Nat
        BY <1>0, <1>2 DEF TypeInv
      <4>2. QED  BY <1>2, <1>3, <4>1, Numbers
    <3>3. QED  BY <2>3, <3>1, <3>2 DEF TurnInv
  <2>8. QED  BY <2>4, <2>5, <2>6, <2>7 DEF AppIconsInv
<1>4. ASSUME ~full, hits' = Append(activeRateHits, now),
             NEW status \in {"413", "422", "500", "200"}, answered(status, 0),
             Len(table') \in Nat /\ DOMAIN table' = 1..Len(table'), taken \subseteq taken',
             status = "413" => Len(post.batch) > 1, status = "422" => bad,
             status = "200" => Range(post.batch) \subseteq taken'
      PROVE  AppIconsInv'
  <2>1. /\ post' = [post EXCEPT !.answer = status, !.wait = 0]
        /\ post'.answer = status /\ post'.batch = post.batch /\ post' \in Upload
    BY <1>2, <1>4 DEF answered, Upload
  <2>2. hits' \in Seq(Nat) /\ Len(hits') <= RateLimit
    <3>1. Len(activeRateHits) \in Nat
      BY <1>2
    <3>2. Len(hits') = Len(activeRateHits) + 1 /\ hits' \in Seq(Nat)
      BY <1>2, <1>4
    <3>3. QED  BY <1>4, <3>1, <3>2, Numbers
  <2>3. TypeInv'
    BY <1>0, <1>1, <1>4, <2>1, <2>2 DEF TypeInv
  <2>4. CacheInv'
    BY <1>0, <1>1 DEF CacheInv, LoadsOwned
  <2>5. IconsKept'
    BY <1>0, <1>1, <1>4 DEF KeptInv, IconsKept
  <2>6. KeptInv'
    BY <1>0, <1>4, <2>1, <2>5 DEF KeptInv
  <2>7. TurnInv'
    BY <1>4, <2>1, <2>2 DEF TurnInv
  <2>8. QED  BY <2>3, <2>4, <2>6, <2>7 DEF AppIconsInv
<1>5. Len(table) \in Nat /\ DOMAIN table = 1..Len(table) /\ Len(post.batch) \in Nat
        /\ DOMAIN post.batch = 1..Len(post.batch) /\ Len(post.batch) <= UserLimit
  <2>1. Len(post.batch) \in Nat /\ DOMAIN post.batch = 1..Len(post.batch)
    BY <1>2
  <2>2. QED  BY <1>0, <2>1, Numbers DEF TypeInv, KeptInv
<1>6. ASSUME Upsert(post.batch), stored(post.batch)
      PROVE  /\ Len(table') \in Nat /\ DOMAIN table' = 1..Len(table')
             /\ taken \subseteq taken' /\ Range(post.batch) \subseteq taken'
  <2>1. /\ Len(table') \in Nat /\ DOMAIN table' = 1..Len(table')
        /\ Range(post.batch) \subseteq Range(table')
    BY <1>5, <1>6, Upserted
  <2>2. QED  BY <1>6, <2>1 DEF stored
<1>7. \/ full /\ hits' = activeRateHits /\ answered("429", wait) /\ UNCHANGED <<table, taken, faults>>
      \/ /\ ~full /\ hits' = Append(activeRateHits, now)
         /\ \/ Len(post.batch) > 1 /\ answered("413", 0) /\ UNCHANGED <<table, taken>>
            \/ bad /\ answered("422", 0) /\ UNCHANGED <<table, taken>>
            \/ answered("500", 0) /\ UNCHANGED <<table, taken>>
            \/ Upsert(post.batch) /\ stored(post.batch) /\ answered("200", 0)
  BY DEF Serve
<1> HIDE DEF full, bad, wait
<1>8. CASE ~full /\ hits' = Append(activeRateHits, now) /\ Len(post.batch) > 1 /\ answered("413", 0)
             /\ UNCHANGED <<table, taken>>
  BY <1>4, <1>5, <1>8
<1>9. CASE ~full /\ hits' = Append(activeRateHits, now) /\ bad /\ answered("422", 0)
             /\ UNCHANGED <<table, taken>>
  BY <1>4, <1>5, <1>9
<1>10. CASE ~full /\ hits' = Append(activeRateHits, now) /\ answered("500", 0)
             /\ UNCHANGED <<table, taken>>
  BY <1>4, <1>5, <1>10
<1>11. CASE ~full /\ hits' = Append(activeRateHits, now) /\ answered("200", 0)
             /\ Upsert(post.batch) /\ stored(post.batch)
  BY <1>4, <1>6, <1>11
<1>12. QED  BY <1>3, <1>7, <1>8, <1>9, <1>10, <1>11

\* A client that gives up leaves its hit and perhaps its request behind.
LEMMA GiveUpKeeps ==
    ASSUME AppIconsInv, GiveUp
    PROVE  AppIconsInv'
<1>0. TypeInv /\ CacheInv /\ KeptInv /\ TurnInv
  BY DEF AppIconsInv
<1>1. /\ post' = [post EXCEPT !.answer = "lost", !.wait = 0]
      /\ UNCHANGED <<now, installed, stage, entries, inFlight, requests, loading, closed, appIcons,
                     icons, retryAt, failures, table, taken, refused, throttled>>
      /\ \/ UNCHANGED <<hits, late>>
         \/ /\ Len(activeRateHits) < RateLimit
            /\ hits' = Append(activeRateHits, now)
            /\ late' = IF Range(post.batch) \intersect Bad = {} THEN late \union {post.batch} ELSE late
  BY DEF GiveUp, answered, machine, cache, queue, histories
<1>2. post \in Upload /\ post.batch \in Seq(Pairs) /\ now \in Nat
  BY <1>0 DEF TypeInv, Upload
<1>3. post'.answer = "lost" /\ post'.batch = post.batch /\ post' \in Upload
  BY <1>1, <1>2 DEF Upload
<1>4. hits' \in Seq(Nat) /\ Len(hits') <= RateLimit /\ late' \subseteq Seq(Pairs)
  <2>1. CASE UNCHANGED <<hits, late>>
    BY <1>0, <2>1 DEF TypeInv, TurnInv
  <2>2. CASE /\ Len(activeRateHits) < RateLimit
             /\ hits' = Append(activeRateHits, now)
             /\ late' \subseteq late \union {post.batch}
    <3>1. activeRateHits \in Seq(Nat)
      BY <1>0, ActiveHits DEF TypeInv
    <3>2. Len(activeRateHits) \in Nat /\ Len(hits') = Len(activeRateHits) + 1 /\ hits' \in Seq(Nat)
      BY <1>2, <2>2, <3>1
    <3>3. late' \subseteq Seq(Pairs)
      BY <1>0, <1>2, <2>2 DEF TypeInv
    <3>4. QED  BY <2>2, <3>2, <3>3, Numbers
  <2>3. QED  BY <1>1, <2>1, <2>2
<1>5. TypeInv'
  BY <1>0, <1>1, <1>3, <1>4 DEF TypeInv
<1>6. CacheInv'
  BY <1>0, <1>1 DEF CacheInv, LoadsOwned
<1>7. KeptInv'
  BY <1>0, <1>1, <1>3 DEF KeptInv, IconsKept
<1>8. TurnInv'
  BY <1>3, <1>4 DEF TurnInv
<1>9. QED  BY <1>5, <1>6, <1>7, <1>8 DEF AppIconsInv

\* A request that runs on by itself, or another device's, only adds to what is stored.
LEMMA StoredKeeps ==
    ASSUME AppIconsInv, Late \/ OtherDevice
    PROVE  AppIconsInv'
<1>0. TypeInv /\ CacheInv /\ KeptInv /\ TurnInv
  BY DEF AppIconsInv
<1>1. /\ UNCHANGED <<now, installed, stage, entries, inFlight, requests, loading, closed, appIcons,
                     icons, retryAt, failures, post, hits, refused, throttled>>
      /\ late' \subseteq late /\ taken \subseteq taken'
  BY DEF Late, OtherDevice, stored, machine, cache, queue, histories
<1>2. Len(table') \in Nat /\ DOMAIN table' = 1..Len(table')
  <2>1. Len(table) \in Nat /\ DOMAIN table = 1..Len(table)
    BY <1>0 DEF TypeInv
  <2>2. ASSUME NEW batch, Len(batch) \in Nat, DOMAIN batch = 1..Len(batch), Upsert(batch)
        PROVE  Len(table') \in Nat /\ DOMAIN table' = 1..Len(table')
    BY <2>1, <2>2, Upserted
  <2>3. CASE Late
    <3>1. PICK batch \in late : Upsert(batch)
      BY <2>3 DEF Late
    <3>2. batch \in Seq(Pairs)
      BY <1>0 DEF TypeInv
    <3>3. Len(batch) \in Nat /\ DOMAIN batch = 1..Len(batch)
      BY <3>2
    <3>4. QED  BY <2>2, <3>1, <3>3
  <2>4. CASE OtherDevice
    <3> DEFINE batch == <<<<Max(Apps) + 1, 1>>>>
    <3>1. Upsert(batch)
      BY <2>4 DEF OtherDevice
    <3>2. Len(batch) = 1 /\ DOMAIN batch = 1..1
      OBVIOUS
    <3>3. Len(batch) \in Nat /\ DOMAIN batch = 1..Len(batch)
      BY <3>2
    <3> HIDE DEF batch
    <3>4. QED  BY <2>2, <3>1, <3>3
  <2>5. QED  BY <2>3, <2>4
<1>3. TypeInv'
  BY <1>0, <1>1, <1>2 DEF TypeInv
<1>4. CacheInv'
  BY <1>0, <1>1 DEF CacheInv, LoadsOwned
<1>5. KeptInv'
  BY <1>0, <1>1 DEF KeptInv, IconsKept
<1>6. TurnInv'
  BY <1>0, <1>1 DEF TurnInv, Over
<1>7. QED  BY <1>3, <1>4, <1>5, <1>6 DEF AppIconsInv

\* Time passes, an application is updated, or the daemon is told to stop.
LEMMA WorldKeeps ==
    ASSUME AppIconsInv, Tick \/ Stop \/ (\E a \in Apps : NewArtwork(a))
    PROVE  AppIconsInv'
<1>0. TypeInv /\ CacheInv /\ KeptInv /\ TurnInv
  BY DEF AppIconsInv
<1>1. /\ UNCHANGED <<entries, inFlight, requests, loading, closed, appIcons, icons, retryAt, failures,
                     post, hits, table, late, taken, refused, throttled>>
      /\ now' = now \/ now' = now + 1
      /\ stage' = stage \/ stage' = "draining"
      /\ installed' = installed \/ \E a \in Apps : installed' = [installed EXCEPT ![a] = @ + 1]
  BY DEF Tick, Stop, NewArtwork, machine, cache, queue, server, histories
<1>2. now \in Nat /\ now' \in Nat /\ now' >= now /\ installed' \in [Apps -> Nat]
        /\ stage' \in {"up", "draining", "flushed"}
        /\ (closed => stage' # "up")
  <2>1. now \in Nat /\ installed \in [Apps -> Nat] /\ stage \in {"up", "draining", "flushed"}
          /\ (closed => stage # "up")
    BY <1>0 DEF TypeInv
  <2>2. installed' \in [Apps -> Nat]
    <3>1. CASE installed' = installed
      BY <2>1, <3>1
    <3>2. ASSUME NEW a \in Apps, installed' = [installed EXCEPT ![a] = @ + 1]
          PROVE  installed' \in [Apps -> Nat]
      <4>1. installed[a] + 1 \in Nat
        BY <2>1
      <4>2. QED  BY <2>1, <3>2, <4>1
    <3>3. QED  BY <1>1, <3>1, <3>2
  <2>3. now' \in Nat /\ now' >= now
    BY <1>1, <2>1
  <2>4. QED  BY <1>1, <2>1, <2>2, <2>3
<1>3. TypeInv'
  BY <1>0, <1>1, <1>2 DEF TypeInv
<1>4. CacheInv'
  BY <1>0, <1>1 DEF CacheInv, LoadsOwned
<1>5. KeptInv'
  BY <1>0, <1>1 DEF KeptInv, IconsKept
<1>6. TurnInv'
  <2>1. Len(hits') <= RateLimit
    BY <1>0, <1>1 DEF TurnInv
  <2>2. post'.answer = "429" => Over(now + post.wait)'
    <3>1. post.wait \in Nat
      BY <1>0 DEF TypeInv, Upload
    <3>2. hits # <<>> => hits[1] \in Nat
      BY <1>0 DEF TypeInv
    <3>3. post.answer = "429" /\ hits # <<>> => hits[1] + RateWindow <= now + post.wait
      BY <1>0 DEF TurnInv, Over
    <3>4. post.answer = "429" /\ hits # <<>> => hits[1] + RateWindow <= now' + post.wait
      BY <1>2, <3>1, <3>2, <3>3, Numbers
    <3>5. QED  BY <1>1, <3>4 DEF Over
  <2>3. throttled' /\ stage' = "up" /\ post'.answer = "none" =>
          /\ Over(retryAt)'
          /\ post'.batch # <<>> => now' >= retryAt'
    <3>1. stage' = "up" => stage = "up"
      BY <1>1
    <3>2. retryAt \in Nat
      BY <1>0 DEF TypeInv
    <3>3. throttled /\ stage' = "up" /\ post.answer = "none" => Over(retryAt) /\ (post.batch # <<>> => now' >= retryAt)
      BY <1>0, <1>2, <3>1, <3>2 DEF TurnInv
    <3>4. QED  BY <1>1, <3>3 DEF Over
  <2>4. QED  BY <2>1, <2>2, <2>3 DEF TurnInv
<1>7. QED  BY <1>3, <1>4, <1>5, <1>6 DEF AppIconsInv

\* A daemon that starts again knows of nothing, and no upload of its predecessor runs.
LEMMA RestartKeeps ==
    ASSUME AppIconsInv, Restart
    PROVE  AppIconsInv'
<1>0. TypeInv /\ CacheInv /\ KeptInv /\ TurnInv
  BY DEF AppIconsInv
<1>1. /\ post = Idle /\ stage' = "up"
      /\ entries' = <<>> /\ inFlight' = {} /\ requests' = <<>> /\ loading' = {} /\ closed' = FALSE
      /\ appIcons' = <<>> /\ icons' = <<>> /\ retryAt' = 0 /\ failures' = 0
      /\ throttled' = FALSE
      /\ UNCHANGED <<now, installed, post, hits, table, late, faults, taken, refused>>
  BY DEF Restart, machine, server
<1>2. DOMAIN <<>> = {} /\ <<>> \in Seq(Apps) /\ Range(<<>>) = {}
        /\ IsFiniteSet({}) /\ Cardinality({}) = 0
  BY FS_EmptySet DEF Range
<1>3. TypeInv'
  BY <1>0, <1>1, <1>2 DEF TypeInv
<1>4. CacheInv'
  BY <1>1, <1>2, Numbers DEF CacheInv, LoadsOwned, IsInjective
<1>5. KeptInv'
  BY <1>0, <1>1, <1>2 DEF KeptInv, IconsKept
<1>6. TurnInv'
  BY <1>0, <1>1 DEF TurnInv, Idle
<1>7. QED  BY <1>3, <1>4, <1>5, <1>6 DEF AppIconsInv

\* A step that changes nothing.
LEMMA StutterKeeps == AppIconsInv /\ UNCHANGED vars => AppIconsInv'
<1> SUFFICES ASSUME AppIconsInv, UNCHANGED vars PROVE AppIconsInv'
  OBVIOUS
<1>0. TypeInv /\ CacheInv /\ KeptInv /\ TurnInv
  BY DEF AppIconsInv
<1>1. UNCHANGED <<now, installed, stage, entries, inFlight, requests, loading, closed, appIcons, icons,
                  retryAt, failures, post, hits, table, late, faults, taken, refused, throttled>>
  BY DEF vars, machine, cache, queue, server, histories
<1>2. TypeInv'
  BY <1>0, <1>1 DEF TypeInv
<1>3. CacheInv'
  BY <1>0, <1>1 DEF CacheInv, LoadsOwned
<1>4. KeptInv'
  BY <1>0, <1>1 DEF KeptInv, IconsKept
<1>5. TurnInv'
  BY <1>0, <1>1 DEF TurnInv, Over
<1>6. QED  BY <1>2, <1>3, <1>4, <1>5 DEF AppIconsInv
-----------------------------------------------------------------------------
(* The theorems.                                                           *)

\* Every state has the inductive invariant: what is in the cache, what the Reporter
\* holds, what an answer says of its batch and when the limiter lets a process in.
THEOREM AppIconsInductive == Spec => []AppIconsInv
<1>1. AppIconsInv /\ [Next]_vars => AppIconsInv'
  <2> SUFFICES ASSUME AppIconsInv, [Next]_vars PROVE AppIconsInv'
    OBVIOUS
  <2>1. CASE \E a \in Apps : Poll(a)
    BY <2>1, PollKeeps
  <2>2. CASE TakeRequest
    BY <2>2, TakeRequestKeeps
  <2>3. CASE FinishLoad
    BY <2>3, FinishLoadKeeps
  <2>4. CASE Close
    BY <2>4, CloseKeeps
  <2>5. CASE Flush
    BY <2>5, FlushKeeps
  <2>6. CASE React
    BY <2>6, ReactKeeps
  <2>7. CASE Serve
    BY <2>7, ServeKeeps
  <2>8. CASE GiveUp
    BY <2>8, GiveUpKeeps
  <2>9. CASE Late \/ OtherDevice
    BY <2>9, StoredKeeps
  <2>10. CASE Tick \/ Stop \/ (\E a \in Apps : NewArtwork(a))
    BY <2>10, WorldKeeps
  <2>11. CASE Restart
    BY <2>11, RestartKeeps
  <2>12. CASE UNCHANGED vars
    BY <2>12, StutterKeeps
  <2>13. QED  BY <2>1, <2>2, <2>3, <2>4, <2>5, <2>6, <2>7, <2>8, <2>9, <2>10, <2>11, <2>12 DEF Next
<1>2. QED  BY <1>1, InitHolds, PTL DEF Spec

\* What the tracker will not hand over again was stored, is queued, or was refused by
\* itself: no lost or late answer, no restart, no full table and no icon that changes
\* while it is uploaded makes the Reporter forget one (removeMatchingAppIcons).
THEOREM IconsAreKept == Spec => []IconsKept
<1>1. AppIconsInv => IconsKept
  BY DEF AppIconsInv, KeptInv
<1>2. QED  BY <1>1, AppIconsInductive, PTL

\* A key in flight is queued or being loaded, once, and neither map outgrows its limit
\* (appIconCache, evictOneLocked, evictAppIconState).
THEOREM LoadsAreOwned == Spec => []LoadsOwned
<1>1. AppIconsInv => LoadsOwned
  BY DEF AppIconsInv, CacheInv
<1>2. QED  BY <1>1, AppIconsInductive, PTL

\* A process that was throttled is let in when it asks again: by then the oldest hit
\* the limiter knew of is over (deferAppIconRetry, slidingWindowLimiter).
THEOREM ThrottledOnceOnly == Spec => WaitsItsTurn
<1>1. AppIconsInv /\ [Next]_vars =>
        [(post'.answer = "429" /\ post.answer = "none") => ~throttled \/ stage # "up"]_vars
  <2> SUFFICES ASSUME AppIconsInv, Next, post'.answer = "429", post.answer = "none", throttled, stage = "up"
               PROVE  FALSE
    OBVIOUS
  <2>0. TypeInv /\ CacheInv /\ KeptInv /\ TurnInv
    BY DEF AppIconsInv
  <2>1. post \in Upload
    BY <2>0 DEF TypeInv
  <2>2. post' # post /\ post'.answer # "lost" /\ post'.answer # "none"
    OBVIOUS
  <2>3. Serve
    <3>1. ~ (\E a \in Apps : Poll(a) \/ NewArtwork(a))
      BY <2>2 DEF Poll, NewArtwork
    <3>2. ~ (TakeRequest \/ FinishLoad \/ Close \/ Late \/ OtherDevice \/ Tick \/ Stop \/ Restart)
      BY <2>2 DEF TakeRequest, FinishLoad, Close, Late, OtherDevice, Tick, Stop, Restart
    <3>3. ~ React
      BY DEF React
    <3>4. ~ GiveUp
      BY <2>1, <2>2 DEF GiveUp, answered, Upload
    <3>5. ~ Flush
      BY <2>2 DEF Flush, Idle
    <3>6. QED  BY <3>1, <3>2, <3>3, <3>4, <3>5 DEF Next
  <2>4. Len(activeRateHits) >= RateLimit /\ post.batch # <<>>
    BY <2>1, <2>3 DEF Serve, answered, Upload
  <2>5. Over(now) /\ now \in Nat /\ hits \in Seq(Nat) /\ Len(hits) <= RateLimit
    <3>1. Over(retryAt) /\ now >= retryAt /\ now \in Nat /\ retryAt \in Nat /\ hits \in Seq(Nat)
      BY <2>0, <2>4 DEF TurnInv, TypeInv
    <3>2. hits # <<>> => hits[1] \in Nat
      BY <3>1
    <3>3. QED  BY <2>0, <3>1, <3>2, Numbers DEF Over, TurnInv
  <2>6. /\ Len(activeRateHits) <= Len(hits) /\ Len(activeRateHits) \in Nat /\ Len(hits) \in Nat
        /\ hits = <<>> \/ Len(activeRateHits) < Len(hits)
    BY <2>5, ActiveHits
  <2>7. hits = <<>> => Len(hits) = 0
    OBVIOUS
  <2>8. QED  BY <2>4, <2>5, <2>6, <2>7, Numbers
<1>2. QED  BY <1>1, AppIconsInductive, PTL DEF Spec, WaitsItsTurn
=============================================================================
