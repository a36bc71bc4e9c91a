---------------------------- MODULE SiteIconsProofs ----------------------------
(***************************************************************************)
(* Proofs about SiteIcons for every number of processes, workers, sites    *)
(* and image requests, every limit and every budget that fits the lease:   *)
(* one fetch of a site at a time, overtaken fetches that store nothing, no *)
(* leaked slot, and a limiter whose refunds do not let a window overflow.  *)
(***************************************************************************)
EXTENDS SiteIcons, FiniteSetTheorems, SequenceTheorems, WellFoundedInduction, TLAPS

Icon == [icon : {"none", "good", "corrupt"}, expires : Nat,
         claim : [until : Nat, by : Workers] \union {Free}, updated : Nat]

-----------------------------------------------------------------------------
(* Numbers, sequences and functions.                                       *)

\* The constants that bound times and quantities are numbers, and the lease
\* outlasts the budgets of a refresh.
LEMMA Numbers ==
    /\ QueueLimit \in Nat /\ RateLimit \in Nat /\ RowLimit \in Nat
    /\ QueueLimit > 0 /\ RateLimit > 0 /\ RowLimit > 0
    /\ Window \in Nat /\ Window > 0 /\ DatabaseBudget \in Nat /\ FetchBudget \in Nat
    /\ TransientRetry \in Nat /\ Year \in Nat
    /\ MaxTime \in Nat /\ MaxViews \in Nat /\ MaxMishaps \in Nat
    /\ ClaimLease \in Nat /\ ClaimLease > 2 * DatabaseBudget + FetchBudget
<1>1. /\ \A n \in {QueueLimit, UserPendingLimit, RateLimit, RowLimit} : n \in Nat /\ n # 0
      /\ \A n \in {Window, DatabaseBudget, FetchBudget, TransientRetry, Year, MaxTime, MaxViews,
                    MaxMishaps} : n \in Nat /\ n # 0
  BY SiteIconsAssumption
<1>2. QED  BY <1>1, SiteIconsAssumption

\* Every set of natural numbers that is not empty has a least element.
LEMMA Least ==
    ASSUME NEW S \in SUBSET Nat, S # {}
    PROVE  Min(S) \in S /\ \A y \in S : Min(S) <= y
<1> DEFINE Below == OpToRel(<, Nat)
<1>1. IsWellFoundedOn(Below, Nat)
  BY NatLessThanWellFounded
<1>2. \A x, y \in Nat : x < y => <<x, y>> \in Below
  BY DEF OpToRel
<1> HIDE DEF Below
<1>3. \E x \in S : \A y \in S : ~ (<<y, x>> \in Below)
  <2>1. S \subseteq Nat
    OBVIOUS
  <2>2. QED  BY <1>1, <2>1, WFMin
<1>4. \E x \in S : \A y \in S : x <= y
  <2>1. PICK x \in S : \A y \in S : ~ (<<y, x>> \in Below)
    BY <1>3
  <2>2. \A y \in S : ~ (y < x)
    BY <1>2, <2>1
  <2>3. \A y \in S : x <= y
    BY <2>2
  <2>4. QED  BY <2>3
<1>5. QED  BY <1>4 DEF Min

\* A set of positions of a sequence has a last one.
LEMMA Greatest ==
    ASSUME NEW n \in Nat, NEW S \in SUBSET (1..n), S # {}
    PROVE  Max(S) \in S /\ \A y \in S : y <= Max(S)
<1> DEFINE Mirror == {n - i : i \in S}
<1>1. Mirror \in SUBSET Nat /\ Mirror # {}
  <2>1. \A i \in S : n - i \in Nat
    OBVIOUS
  <2>2. QED  BY <2>1
<1>2. PICK i \in S : n - i = Min(Mirror)
  BY <1>1, Least
<1>3. \A j \in S : n - i <= n - j
  BY <1>1, <1>2, Least
<1>4. \A j \in S : i >= j
  BY <1>3
<1>5. QED  BY <1>4 DEF Max

\* The smaller of two numbers.
LEMMA Lesser ==
    ASSUME NEW m \in Nat, NEW n \in Nat
    PROVE  Min({m, n}) = IF m <= n THEN m ELSE n
<1>1. Min({m, n}) \in {m, n} /\ \A y \in {m, n} : Min({m, n}) <= y
  BY Least
<1>2. QED  BY <1>1

\* activeRateHits drops a prefix, all of which is outside the window.
LEMMA ActiveIsSuffix ==
    ASSUME NEW seq \in Seq(Nat), NEW t \in Nat
    PROVE  \E d \in 0..Len(seq) :
             /\ activeRateHits(seq, t) \in Seq(Nat)
             /\ Len(activeRateHits(seq, t)) = Len(seq) - d
             /\ \A i \in 1..(Len(seq) - d) : activeRateHits(seq, t)[i] = seq[i + d]
             /\ \A i \in 1..d : seq[i] <= t - Window
<1> DEFINE live == {i \in DOMAIN seq : seq[i] > t - Window}
<1>0. DOMAIN seq = 1..Len(seq) /\ Len(seq) \in Nat /\ \A i \in 1..Len(seq) : seq[i] \in Nat
  OBVIOUS
<1>1. CASE live = {}
  <2>1. activeRateHits(seq, t) = <<>>
    BY <1>1 DEF activeRateHits
  <2>2. \A i \in 1..Len(seq) : seq[i] <= t - Window
    BY <1>1, <1>0, Numbers
  <2>3. <<>> \in Seq(Nat) /\ Len(<<>>) = Len(seq) - Len(seq)
    BY <1>0
  <2>4. \A i \in 1..(Len(seq) - Len(seq)) : activeRateHits(seq, t)[i] = seq[i + Len(seq)]
    BY <1>0
  <2>5. Len(seq) \in 0..Len(seq)
    BY <1>0
  <2>6. QED  BY <2>1, <2>2, <2>3, <2>4, <2>5
<1>2. CASE live # {}
  <2>1. live \in SUBSET Nat
    BY <1>0
  <2>2. Min(live) \in live /\ \A y \in live : Min(live) <= y
    BY <1>2, <2>1, Least
  <2>3. activeRateHits(seq, t) = SubSeq(seq, Min(live), Len(seq))
    BY <1>2 DEF activeRateHits
  <2> DEFINE m == Min(live)
  <2>4. m \in 1..Len(seq)
    BY <1>0, <2>2
  <2>5. \A i \in 1..(m - 1) : seq[i] <= t - Window
    <3>1. SUFFICES ASSUME NEW i \in 1..(m - 1)
                   PROVE  i \in DOMAIN seq /\ i \notin live
      BY <1>0, Numbers
    <3> HIDE DEF live
    <3>2. m \in Nat /\ \A y \in live : m <= y
      BY <2>2, <2>1
    <3> HIDE DEF m
    <3>3. QED  BY <1>0, <2>4, <3>2
  <2> HIDE DEF m, live
  <2>6. SubSeq(seq, m, Len(seq)) \in Seq(Nat)
          /\ Len(SubSeq(seq, m, Len(seq))) = Len(seq) - (m - 1)
          /\ \A i \in 1..(Len(seq) - (m - 1)) : SubSeq(seq, m, Len(seq))[i] = seq[i + (m - 1)]
    BY <1>0, <2>4
  <2>7. m - 1 \in 0..Len(seq)
    BY <1>0, <2>4
  <2>8. QED  BY <2>3, <2>5, <2>6, <2>7 DEF m
<1>3. QED  BY <1>1, <1>2

\* refund removes one reservation made at that time, if there is one.
LEMMA RefundRemovesOne ==
    ASSUME NEW seq \in Seq(Nat), NEW t \in Nat
    PROVE  /\ refund(seq, t) \in Seq(Nat)
           /\ \/ refund(seq, t) = seq
              \/ \E m \in 1..Len(seq) :
                   /\ seq[m] = t
                   /\ Len(refund(seq, t)) = Len(seq) - 1
                   /\ \A i \in 1..(Len(seq) - 1) :
                        refund(seq, t)[i] = IF i < m THEN seq[i] ELSE seq[i + 1]
<1> DEFINE mine == {i \in DOMAIN seq : seq[i] = t}
<1>0. DOMAIN seq = 1..Len(seq) /\ Len(seq) \in Nat /\ \A i \in 1..Len(seq) : seq[i] \in Nat
  OBVIOUS
<1>1. CASE mine = {}
  BY <1>1 DEF refund
<1>2. CASE mine # {}
  <2>1. mine \in SUBSET (1..Len(seq))
    BY <1>0
  <2>2. Max(mine) \in mine
    <3> HIDE DEF mine
    <3>1. Len(seq) \in Nat
      BY <1>0
    <3>2. QED  BY <1>2, <2>1, <3>1, Greatest
  <2> DEFINE m == Max(mine)
  <2>3. m \in 1..Len(seq) /\ seq[m] = t
    BY <1>0, <2>2
  <2>4. refund(seq, t) = SubSeq(seq, 1, m - 1) \o SubSeq(seq, m + 1, Len(seq))
    BY <1>2 DEF refund, RemoveAt
  <2> HIDE DEF m, mine
  <2> DEFINE a == SubSeq(seq, 1, m - 1)
             b == SubSeq(seq, m + 1, Len(seq))
  <2>5. a \in Seq(Nat) /\ Len(a) = m - 1 /\ \A i \in 1..(m - 1) : a[i] = seq[i]
    BY <1>0, <2>3
  <2>6. b \in Seq(Nat) /\ Len(b) = Len(seq) - m /\ \A i \in 1..(Len(seq) - m) : b[i] = seq[i + m]
    <3>1. m \in 1..Len(seq) /\ m + 1 \in 1..(Len(seq) + 1)
      BY <1>0, <2>3
    <3>2. /\ b \in Seq(Nat)
          /\ Len(b) = IF m + 1 <= Len(seq) THEN Len(seq) - (m + 1) + 1 ELSE 0
          /\ \A i \in 1..(Len(seq) - (m + 1) + 1) : b[i] = seq[(m + 1) + i - 1]
      <4>1. \A i \in (m + 1)..Len(seq) : seq[i] \in Nat
        BY <1>0, <3>1
      <4>2. m + 1 \in Int /\ Len(seq) \in Int
        BY <1>0, <3>1
      <4>3. QED  BY <4>1, <4>2, SubSeqProperties DEF b
    <3> HIDE DEF b
    <3>3. Len(b) = Len(seq) - m
      <4>1. Len(b) = IF m + 1 <= Len(seq) THEN Len(seq) - (m + 1) + 1 ELSE 0
        BY <3>2
      <4>2. m \in Nat /\ Len(seq) \in Nat /\ m <= Len(seq)
        BY <1>0, <2>3
      <4>3. QED  BY <4>1, <4>2
    <3>4. \A i \in 1..(Len(seq) - m) : b[i] = seq[i + m]
      <4>1. SUFFICES ASSUME NEW i \in 1..(Len(seq) - m)
                     PROVE  b[i] = seq[i + m]
        OBVIOUS
      <4>2. i \in 1..(Len(seq) - (m + 1) + 1) /\ (m + 1) + i - 1 = i + m
        BY <1>0, <3>1
      <4>3. QED  BY <3>2, <4>2
    <3>5. QED  BY <3>2, <3>3, <3>4
  <2> HIDE DEF a, b
  <2>7. /\ a \o b \in Seq(Nat)
        /\ Len(a \o b) = Len(a) + Len(b)
        /\ \A i \in 1..(Len(a) + Len(b)) : (a \o b)[i] = IF i <= Len(a) THEN a[i] ELSE b[i - Len(a)]
    BY <2>5, <2>6, ConcatProperties
  <2> DEFINE ab == a \o b
  <2> HIDE DEF ab
  <2>8. Len(ab) = Len(seq) - 1
    BY <1>0, <2>3, <2>5, <2>6, <2>7 DEF ab
  <2>9. \A i \in 1..(Len(seq) - 1) : ab[i] = IF i < m THEN seq[i] ELSE seq[i + 1]
    <3>1. SUFFICES ASSUME NEW i \in 1..(Len(seq) - 1)
                   PROVE  ab[i] = IF i < m THEN seq[i] ELSE seq[i + 1]
      OBVIOUS
    <3>2. ab[i] = IF i <= Len(a) THEN a[i] ELSE b[i - Len(a)]
      <4>1. Len(a) + Len(b) = Len(seq) - 1
        BY <2>7, <2>8 DEF ab
      <4>2. QED  BY <2>7, <4>1 DEF ab
    <3>3. CASE i < m
      <4>1. i \in 1..(m - 1) /\ i <= Len(a)
        BY <1>0, <2>3, <2>5, <3>3
      <4>2. QED  BY <2>5, <3>2, <3>3, <4>1
    <3>4. CASE ~ (i < m)
      <4>1. i - Len(a) \in 1..(Len(seq) - m) /\ ~ (i <= Len(a)) /\ (i - Len(a)) + m = i + 1
        BY <1>0, <2>3, <2>5, <3>4
      <4>2. QED  BY <2>6, <3>2, <3>4, <4>1
    <3>5. QED  BY <3>3, <3>4
  <2>10. QED  BY <2>3, <2>4, <2>7, <2>8, <2>9 DEF a, b, ab
<1>3. QED  BY <1>1, <1>2

-----------------------------------------------------------------------------
(* The table.                                                              *)

TimesTyped == now \in 0..MaxTime /\ views \in 0..MaxViews /\ mishaps \in 0..MaxMishaps

TableTyped ==
    /\ DOMAIN rows \subseteq Sites /\ Cardinality(DOMAIN rows) <= RowLimit
    /\ rows \in [DOMAIN rows -> Icon]

QueuesTyped ==
    /\ life \in [Servers -> {"up", "closing", "down"}]
    /\ reader \in [Servers -> Job \union {NoJob}]
    /\ jobs \in [Servers -> Seq(Job)] /\ pending \in [Servers -> SUBSET Job]
    /\ deferred \in [Servers -> SUBSET [job : Job, at : Nat]]
    /\ hits \in [Servers -> Seq(Nat)] /\ starts \in [Servers -> Seq(Nat)]

State == [pc : {"idle", "claiming", "fetching", "completing", "gone"},
          job : Job \union {NoJob}, since : Nat, until : Nat,
          icon : {"none", "good", "error"}, attempted : Nat,
          late : BOOLEAN, evicted : BOOLEAN, superseded : BOOLEAN]

WorkTyped == work \in [Workers -> State]

\* TypeOK in the parts that the actions disturb one at a time.
LEMMA TypeParts == TypeOK <=> TimesTyped /\ TableTyped /\ QueuesTyped /\ WorkTyped
  BY DEF TypeOK, TimesTyped, TableTyped, QueuesTyped, WorkTyped, Icon, State

\* What pruning leaves: rows of the table as they were, no more than the
\* limit, and all of them if there were no more.
LEMMA PrunedFacts ==
    ASSUME NEW f, f = [x \in DOMAIN f |-> f[x]], IsFiniteSet(DOMAIN f),
           NEW rs \in Pruned(f)
    PROVE  /\ DOMAIN rs \subseteq DOMAIN f
           /\ Cardinality(DOMAIN rs) <= RowLimit
           /\ rs = [x \in DOMAIN rs |-> f[x]]
           /\ Cardinality(DOMAIN f) <= RowLimit => rs = f
<1>1. PICK keep \in SUBSET DOMAIN f :
         /\ rs = Restrict(f, keep)
         /\ Cardinality(keep) = Min({RowLimit, Cardinality(DOMAIN f)})
  BY DEF Pruned
<1>2. rs = [x \in keep |-> f[x]] /\ DOMAIN rs = keep
  BY <1>1 DEF Restrict
<1>3. Cardinality(DOMAIN f) \in Nat
  BY FS_CardinalityType
<1>4. Cardinality(keep) = IF RowLimit <= Cardinality(DOMAIN f) THEN RowLimit ELSE Cardinality(DOMAIN f)
  BY <1>1, <1>3, Lesser, Numbers
<1>5. Cardinality(keep) <= RowLimit
  BY <1>3, <1>4, Numbers
<1>6. Cardinality(DOMAIN f) <= RowLimit => rs = f
  <2>1. SUFFICES ASSUME Cardinality(DOMAIN f) <= RowLimit
                 PROVE  keep = DOMAIN f
    BY <1>2
  <2>2. Cardinality(keep) = Cardinality(DOMAIN f)
    BY <1>3, <1>4, <2>1, Numbers
  <2>3. QED  BY <2>2, FS_Subset
<1>7. QED  BY <1>2, <1>5, <1>6

\* The table with the claimed row in it.
LEMMA UpsertedFacts ==
    ASSUME TypeOK, NEW w \in Workers, work[w].job \in Job
    PROVE  LET k == work[w].job.site
           IN  /\ Upserted(w) \in [DOMAIN rows \union {k} -> Icon]
               /\ IsFiniteSet(DOMAIN rows \union {k}) /\ DOMAIN rows \union {k} \subseteq Sites
               /\ Upserted(w)[k].claim = claimUntil(w)
               /\ \A x \in DOMAIN rows \ {k} : Upserted(w)[x] = rows[x]
<1> DEFINE k == work[w].job.site
<1>1. k \in Sites /\ work[w].since \in Nat
  BY TypeParts DEF Job, WorkTyped, State
<1>2. Leased(w) \in Icon /\ Leased(w).claim = claimUntil(w)
  <2>1. claimUntil(w) \in [until : Nat, by : Workers]
    BY <1>1, Numbers DEF claimUntil
  <2>2. CASE k \in DOMAIN rows
    <3>1. rows[k].icon \in {"none", "good", "corrupt"} /\ rows[k].expires \in Nat
      BY <2>2, TypeParts DEF TableTyped, Icon
    <3>2. QED  BY <1>1, <2>1, <2>2, <3>1 DEF Leased, Icon
  <2>3. CASE k \notin DOMAIN rows
    BY <1>1, <2>1, <2>3 DEF Leased, Icon
  <2>4. QED  BY <2>2, <2>3
<1>3. Upserted(w) = [x \in DOMAIN rows \union {k} |-> IF x = k THEN Leased(w) ELSE rows[x]]
  BY DEF Upserted
<1>4. \A x \in DOMAIN rows : rows[x] \in Icon
  BY TypeParts DEF TableTyped
<1>5. IsFiniteSet(DOMAIN rows \union {k}) /\ DOMAIN rows \union {k} \subseteq Sites
  <2>1. DOMAIN rows \union {k} \subseteq Sites
    BY <1>1, TypeParts DEF TableTyped
  <2>2. QED  BY <2>1, SiteIconsAssumption, FS_Subset
<1> HIDE DEF k
<1>6. QED  BY <1>2, <1>3, <1>4, <1>5 DEF k

\* The table with the fetched row in it.
LEMMA CompletedFacts ==
    ASSUME TypeOK, NEW w \in Workers
    PROVE  LET k == work[w].job.site
           IN  /\ Completed(w) \in [DOMAIN rows -> Icon]
               /\ \A x \in DOMAIN rows :
                    \/ Completed(w)[x] = rows[x]
                    \/ rows[x].claim = claimUntil(w) /\ Completed(w)[x].claim = Free
               /\ k \in DOMAIN rows /\ rows[k].claim # claimUntil(w) => Completed(w) = rows
               /\ k \notin DOMAIN rows => Completed(w) = rows
<1> DEFINE k == work[w].job.site
           lifetime == IF work[w].icon = "error" THEN TransientRetry ELSE Year
           old == rows[k]
           new == [icon |-> IF work[w].icon = "good" THEN "good" ELSE old.icon,
                   expires |-> work[w].attempted + lifetime,
                   claim |-> Free, updated |-> work[w].attempted]
<1>0. rows \in [DOMAIN rows -> Icon] /\ work[w].attempted \in Nat /\ lifetime \in Nat
  BY TypeParts, Numbers DEF TableTyped, WorkTyped, State
<1>1. CASE k \in DOMAIN rows /\ rows[k].claim = claimUntil(w)
  <2>1. Completed(w) = [rows EXCEPT ![k] = new]
    BY <1>1 DEF Completed
  <2>2. old.icon \in {"none", "good", "corrupt"}
    BY <1>0, <1>1 DEF Icon
  <2>3. new \in Icon /\ new.claim = Free
    BY <1>0, <2>2 DEF Icon
  <2> HIDE DEF new, old, lifetime
  <2>4. QED  BY <1>0, <1>1, <2>1, <2>3
<1>2. CASE ~ (k \in DOMAIN rows /\ rows[k].claim = claimUntil(w))
  <2>1. Completed(w) = rows
    BY <1>2 DEF Completed
  <2>2. QED  BY <1>0, <1>2, <2>1
<1>3. QED  BY <1>1, <1>2
-----------------------------------------------------------------------------
(* Types.                                                                  *)

WorkersTyped == \A w \in Workers : Busy(w) => work[w].job \in Job

\* How a step changes the table: by a claim, by a completion, or on the disk.
LEMMA TableMoves ==
    ASSUME Next
    PROVE  \/ rows' = rows
           \/ \E w \in Workers : work[w].pc = "claiming" /\ rows' \in Pruned(Upserted(w))
           \/ \E w \in Workers : work[w].pc = "completing" /\ rows' \in Pruned(Completed(w))
           \/ \E k \in DOMAIN rows : rows' = [rows EXCEPT ![k].icon = "corrupt"]
<1>1. ASSUME NEW s \in Servers, ServerStep(s)
      PROVE  rows' = rows
  BY <1>1 DEF ServerStep, View, Enqueue, Decline, Return, Abandon, Close, Closed, Kill, Boot, Forget
<1>2. ASSUME NEW w \in Workers, Take(w) \/ Defer(w) \/ Leave(w)
      PROVE  rows' = rows
  BY <1>2 DEF Take, Defer, Leave
<1>3. ASSUME NEW w \in Workers, Refresh(w)
      PROVE  \/ rows' = rows
             \/ work[w].pc = "claiming" /\ rows' \in Pruned(Upserted(w))
             \/ work[w].pc = "completing" /\ rows' \in Pruned(Completed(w))
  BY <1>3 DEF Refresh, Claim, ClaimNothing, ClaimUnanswered, Fetch, Complete, GiveUp
<1>4. ASSUME NEW k \in Sites, Corrupt(k)
      PROVE  k \in DOMAIN rows /\ rows' = [rows EXCEPT ![k].icon = "corrupt"]
  BY <1>4 DEF Corrupt
<1>5. Tick => rows' = rows
  BY DEF Tick
<1>6. QED  BY <1>1, <1>2, <1>3, <1>4, <1>5 DEF Next

\* The table keeps its types and its limit.
LEMMA NextTable ==
    ASSUME TypeOK, WorkersTyped, Next
    PROVE  TableTyped'
<1>0. TableTyped /\ IsFiniteSet(DOMAIN rows)
  <2>1. TableTyped
    BY TypeParts
  <2>2. QED  BY <2>1, SiteIconsAssumption, FS_Subset DEF TableTyped
<1>1. ASSUME NEW w \in Workers, work[w].pc = "claiming", rows' \in Pruned(Upserted(w))
      PROVE  TableTyped'
  <2> DEFINE f == Upserted(w)
             D == DOMAIN rows \union {work[w].job.site}
  <2>1. f \in [D -> Icon] /\ IsFiniteSet(D) /\ D \subseteq Sites
    BY <1>1, UpsertedFacts DEF WorkersTyped, Busy
  <2> HIDE DEF f, D
  <2>2. /\ DOMAIN rows' \subseteq DOMAIN f
        /\ Cardinality(DOMAIN rows') <= RowLimit
        /\ rows' = [x \in DOMAIN rows' |-> f[x]]
    <3>1. rows' \in Pruned(f)
      BY <1>1 DEF f
    <3>2. f = [x \in DOMAIN f |-> f[x]] /\ IsFiniteSet(DOMAIN f)
      BY <2>1
    <3>3. QED  BY <3>1, <3>2, PrunedFacts
  <2>3. QED  BY <2>1, <2>2 DEF TableTyped
<1>2. ASSUME NEW w \in Workers, rows' \in Pruned(Completed(w))
      PROVE  TableTyped'
  <2> DEFINE f == Completed(w)
  <2>1. f \in [DOMAIN rows -> Icon]
    BY CompletedFacts
  <2> HIDE DEF f
  <2>2. /\ DOMAIN rows' \subseteq DOMAIN f
        /\ Cardinality(DOMAIN rows') <= RowLimit
        /\ rows' = [x \in DOMAIN rows' |-> f[x]]
    <3>1. rows' \in Pruned(f)
      BY <1>2 DEF f
    <3>2. f = [x \in DOMAIN f |-> f[x]] /\ IsFiniteSet(DOMAIN f)
      BY <1>0, <2>1
    <3>3. QED  BY <3>1, <3>2, PrunedFacts
  <2>3. QED  BY <1>0, <2>1, <2>2 DEF TableTyped
<1>3. ASSUME NEW k \in DOMAIN rows, rows' = [rows EXCEPT ![k].icon = "corrupt"]
      PROVE  TableTyped'
  <2>1. rows' \in [DOMAIN rows -> Icon]
    <3>1. rows \in [DOMAIN rows -> Icon] /\ rows[k] \in Icon
      BY <1>0 DEF TableTyped
    <3>2. [rows[k] EXCEPT !.icon = "corrupt"] \in Icon
      BY <3>1 DEF Icon
    <3>3. rows' = [rows EXCEPT ![k] = [rows[k] EXCEPT !.icon = "corrupt"]]
      BY <1>3
    <3>4. QED  BY <3>1, <3>2, <3>3
  <2>2. DOMAIN rows' = DOMAIN rows
    BY <2>1
  <2>3. QED  BY <1>0, <2>1, <2>2 DEF TableTyped
<1>4. CASE rows' = rows
  BY <1>0, <1>4 DEF TableTyped
<1>5. QED  BY <1>1, <1>2, <1>3, <1>4, TableMoves

\* What a worker's state becomes when it learns nothing of a transaction.
LEMMA MarkedFacts ==
    ASSUME NEW v \in Workers, work[v] \in State, NEW w \in Workers, NEW rs, NEW claimed \in BOOLEAN
    PROVE  LET m == Marked(v, rs, w, claimed)
               k == work[v].job.site
           IN  /\ m \in State
               /\ m.pc = work[v].pc /\ m.job = work[v].job /\ m.since = work[v].since
               /\ m.until = work[v].until /\ m.late = work[v].late
               /\ ~Holds(v) => m = work[v]
               /\ Holds(v) => /\ m.evicted = (work[v].evicted \/ k \notin DOMAIN rs)
                              /\ m.superseded =
                                   (work[v].superseded \/ (claimed /\ k = work[w].job.site))
<1> DEFINE k == work[v].job.site
           e == work[v].evicted \/ k \notin DOMAIN rs
           u == work[v].superseded \/ (claimed /\ k = work[w].job.site)
<1>1. e \in BOOLEAN /\ u \in BOOLEAN
  BY DEF State
<1>2. Marked(v, rs, w, claimed) =
        IF ~Holds(v) THEN work[v] ELSE [work[v] EXCEPT !.evicted = e, !.superseded = u]
  BY DEF Marked
<1> HIDE DEF e, u
<1>3. [work[v] EXCEPT !.evicted = e, !.superseded = u] \in State
  BY <1>1 DEF State
<1>4. QED  BY <1>2, <1>3 DEF State, e, u

\* A worker at rest.
LEMMA IdleTyped == Idle \in State /\ Idle.pc = "idle"
  BY DEF Idle, State

\* The head of the channel is a job, and what is left of it has the others.
LEMMA ChannelFacts ==
    ASSUME QueuesTyped, NEW s \in Servers, jobs[s] # <<>>
    PROVE  /\ Head(jobs[s]) \in Job /\ Tail(jobs[s]) \in Seq(Job)
           /\ Len(jobs[s]) \in Nat \ {0} /\ Len(Tail(jobs[s])) = Len(jobs[s]) - 1
           /\ Head(jobs[s]) = jobs[s][1]
           /\ \A i \in 1..(Len(jobs[s]) - 1) : Tail(jobs[s])[i] = jobs[s][i + 1]
  BY DEF QueuesTyped

\* The workers keep their types.
LEMMA NextWork ==
    ASSUME TypeOK, Next
    PROVE  WorkTyped'
<1>0. WorkTyped /\ QueuesTyped /\ now \in Nat /\ Idle \in State
  BY TypeParts, IdleTyped DEF TimesTyped
<1> DEFINE databaseEnd == now + DatabaseBudget
           fetchEnd == now + FetchBudget
<1>. databaseEnd \in Nat /\ fetchEnd \in Nat
  BY <1>0, Numbers
<1> HIDE DEF databaseEnd, fetchEnd
<1>1. ASSUME NEW s \in Servers, ServerStep(s)
      PROVE  WorkTyped'
  <2>1. work' = work \/ work' = [w \in Workers |-> IF Home[w] = s THEN Idle ELSE work[w]]
    BY <1>1 DEF ServerStep, View, Enqueue, Decline, Return, Abandon, Close, Closed, Kill, Boot, Forget
  <2>2. QED  BY <1>0, <2>1 DEF WorkTyped
<1>2. ASSUME NEW w \in Workers, Take(w)
      PROVE  WorkTyped'
  <2> DEFINE job == Head(jobs[Home[w]])
             taken == [Idle EXCEPT !.pc = "claiming", !.job = job,
                                   !.since = now, !.until = databaseEnd]
  <2>1. Home[w] \in Servers
    BY SiteIconsAssumption
  <2>2. job \in Job
    BY <1>0, <1>2, <2>1, ChannelFacts DEF Take
  <2>3. work' = work \/ work' = [work EXCEPT ![w] = taken]
    BY <1>2 DEF Take, databaseEnd
  <2> HIDE DEF job
  <2>4. taken \in State
    BY <1>0, <2>2 DEF State
  <2> HIDE DEF taken
  <2>5. QED  BY <1>0, <2>3, <2>4 DEF WorkTyped
<1>3. ASSUME NEW w \in Workers, Defer(w) \/ Leave(w)
      PROVE  WorkTyped'
  <2>1. work' = work \/ work' = [work EXCEPT ![w].pc = "gone"]
    BY <1>3 DEF Defer, Leave
  <2>2. [work[w] EXCEPT !.pc = "gone"] \in State
    BY <1>0 DEF WorkTyped, State
  <2>3. QED  BY <1>0, <2>1, <2>2 DEF WorkTyped
<1>4. ASSUME NEW w \in Workers, Claim(w) \/ ClaimUnanswered(w) \/ Complete(w)
      PROVE  WorkTyped'
  <2>1. PICK rs : \E claimed \in BOOLEAN : \E mine :
          /\ \/ mine = Idle
             \/ mine = [work[w] EXCEPT !.pc = "fetching", !.until = fetchEnd,
                                       !.evicted = work[w].job.site \notin DOMAIN rs]
          /\ work' = [v \in Workers |-> IF v = w THEN mine ELSE Marked(v, rs, w, claimed)]
    <3>1. CASE Claim(w)
      BY <3>1 DEF Claim, fetchEnd
    <3>2. CASE ClaimUnanswered(w)
      BY <3>2 DEF ClaimUnanswered
    <3>3. CASE Complete(w)
      BY <3>3 DEF Complete
    <3>4. QED  BY <1>4, <3>1, <3>2, <3>3
  <2> DEFINE gone == work[w].job.site \notin DOMAIN rs
             fetching == [work[w] EXCEPT !.pc = "fetching", !.until = fetchEnd, !.evicted = gone]
  <2>2. fetching \in State
    <3>1. gone \in BOOLEAN /\ work[w] \in State
      BY <1>0 DEF WorkTyped
    <3> HIDE DEF gone
    <3>2. QED  BY <3>1 DEF State
  <2>3. \A claimed \in BOOLEAN : \A v \in Workers : Marked(v, rs, w, claimed) \in State
    BY <1>0, MarkedFacts DEF WorkTyped
  <2> HIDE DEF fetching
  <2>4. \E claimed \in BOOLEAN : \E mine \in State :
          work' = [v \in Workers |-> IF v = w THEN mine ELSE Marked(v, rs, w, claimed)]
    BY <1>0, <2>1, <2>2 DEF fetching
  <2>5. QED  BY <2>3, <2>4 DEF WorkTyped
<1>5. ASSUME NEW w \in Workers, ClaimNothing(w) \/ GiveUp(w)
      PROVE  WorkTyped'
  BY <1>0, <1>5 DEF ClaimNothing, GiveUp, WorkTyped
<1>6. ASSUME NEW w \in Workers, Fetch(w)
      PROVE  WorkTyped'
  <2>1. PICK result \in {"good", "none", "error"} :
          work' = [work EXCEPT ![w].pc = "completing", ![w].icon = result,
                               ![w].attempted = now, ![w].until = databaseEnd]
    BY <1>6 DEF Fetch, databaseEnd
  <2> DEFINE fetched == [work[w] EXCEPT !.pc = "completing", !.icon = result,
                                        !.attempted = now, !.until = databaseEnd]
  <2>2. fetched \in State /\ work' = [work EXCEPT ![w] = fetched]
    <3>1. work[w] \in State
      BY <1>0 DEF WorkTyped
    <3>2. fetched \in State
      BY <1>0, <3>1 DEF State
    <3>3. QED  BY <1>0, <2>1, <3>2 DEF WorkTyped
  <2> HIDE DEF fetched
  <2>3. QED  BY <1>0, <2>1, <2>2 DEF WorkTyped
<1>7. ASSUME NEW k \in Sites, Corrupt(k)
      PROVE  WorkTyped'
  BY <1>0, <1>7 DEF Corrupt, process, WorkTyped
<1>8. CASE Tick
  <2>1. work' = [w \in Workers |->
                  [work[w] EXCEPT !.late = @ \/ (Busy(w) /\ now = work[w].until)]]
    BY <1>8 DEF Tick
  <2>2. ASSUME NEW w \in Workers
        PROVE  [work[w] EXCEPT !.late = @ \/ (Busy(w) /\ now = work[w].until)] \in State
    <3>1. (work[w].late \/ (Busy(w) /\ now = work[w].until)) \in BOOLEAN
      BY <1>0 DEF WorkTyped, State
    <3> DEFINE l == work[w].late \/ (Busy(w) /\ now = work[w].until)
    <3> HIDE DEF l
    <3>2. [work[w] EXCEPT !.late = l] \in State
      BY <1>0, <3>1 DEF WorkTyped, State, l
    <3>3. QED  BY <3>2 DEF l
  <2>3. QED  BY <2>1, <2>2 DEF WorkTyped
<1>9. QED  BY <1>1, <1>2, <1>3, <1>4, <1>5, <1>6, <1>7, <1>8 DEF Next, Refresh
\* The processes keep their types.
LEMMA NextQueues ==
    ASSUME TypeOK, WorkersTyped, Next
    PROVE  QueuesTyped'
<1>0. QueuesTyped /\ WorkTyped /\ now \in Nat
  BY TypeParts DEF TimesTyped
<1>1. ASSUME NEW s \in Servers, NEW k \in Sites, View(s, k)
      PROVE  QueuesTyped'
  <2>1. [site |-> k, repair |-> Fresh(k)] \in Job
    BY DEF Job, Fresh
  <2>2. QED  BY <1>0, <1>1, <2>1 DEF View, QueuesTyped
<1>2. ASSUME NEW s \in Servers, Enqueue(s) \/ Decline(s)
      PROVE  QueuesTyped'
  <2>1. CASE Enqueue(s)
    <3>1. Append(jobs[s], reader[s]) \in Seq(Job) /\ pending[s] \union {reader[s]} \in SUBSET Job
      BY <1>0, <2>1 DEF Enqueue, QueuesTyped
    <3>2. QED  BY <1>0, <2>1, <3>1 DEF Enqueue, QueuesTyped
  <2>2. CASE Decline(s)
    BY <1>0, <2>2 DEF Decline, QueuesTyped
  <2>3. QED  BY <1>2, <2>1, <2>2
<1>3. ASSUME NEW s \in Servers, Return(s)
      PROVE  QueuesTyped'
  <2>1. PICK d \in deferred[s] :
          /\ jobs' = [jobs EXCEPT ![s] = Append(@, d.job)]
          /\ deferred' = [deferred EXCEPT ![s] = @ \ {d}]
          /\ UNCHANGED <<life, reader, pending, hits, starts>>
    BY <1>3 DEF Return
  <2>2. d.job \in Job
    BY <1>0, <2>1 DEF QueuesTyped
  <2>3. Append(jobs[s], d.job) \in Seq(Job)
    BY <1>0, <2>2 DEF QueuesTyped
  <2>4. QED  BY <1>0, <2>1, <2>3 DEF QueuesTyped
<1>4. ASSUME NEW s \in Servers, Abandon(s)
      PROVE  QueuesTyped'
  BY <1>0, <1>4 DEF Abandon, finish, QueuesTyped
<1>5. ASSUME NEW s \in Servers, Close(s) \/ Boot(s)
      PROVE  QueuesTyped'
  BY <1>0, <1>5 DEF Close, Boot, QueuesTyped
<1>6. ASSUME NEW s \in Servers, Closed(s) \/ Kill(s)
      PROVE  QueuesTyped'
  <2>1. Forget(s)
    BY <1>6 DEF Closed, Kill
  <2>2. <<>> \in Seq(Job) /\ <<>> \in Seq(Nat)
    OBVIOUS
  <2>3. QED  BY <1>0, <2>1, <2>2 DEF Forget, QueuesTyped
<1>7. ASSUME NEW w \in Workers, Take(w)
      PROVE  QueuesTyped'
  <2> DEFINE s == Home[w]
             active == activeRateHits(hits[s], now)
  <2>1. s \in Servers /\ active \in Seq(Nat)
    BY <1>0, SiteIconsAssumption, ActiveIsSuffix DEF QueuesTyped
  <2>2. jobs[s] # <<>> /\ Tail(jobs[s]) \in Seq(Job)
    BY <1>0, <1>7, <2>1, ChannelFacts DEF Take
  <2>3. Append(active, now) \in Seq(Nat)
    BY <1>0, <2>1
  <2>4. /\ jobs' = [jobs EXCEPT ![s] = Tail(@)]
        /\ \/ hits' = [hits EXCEPT ![s] = Append(active, now)] /\ UNCHANGED pending
           \/ /\ hits' = [hits EXCEPT ![s] = active]
              /\ pending' = [pending EXCEPT ![s] = @ \ {Head(jobs[s])}]
        /\ UNCHANGED <<life, reader, deferred, starts>>
    BY <1>7 DEF Take, finish
  <2> HIDE DEF s, active
  <2>5. QED  BY <1>0, <2>1, <2>2, <2>3, <2>4 DEF QueuesTyped
<1>8. ASSUME NEW w \in Workers, Defer(w)
      PROVE  QueuesTyped'
  <2> DEFINE s == Home[w]
             active == activeRateHits(hits[s], now)
             d == [job |-> Head(jobs[s]), at |-> active[1] + Window]
  <2>1. s \in Servers /\ active \in Seq(Nat)
    BY <1>0, SiteIconsAssumption, ActiveIsSuffix DEF QueuesTyped
  <2>2. Head(jobs[s]) \in Job /\ Tail(jobs[s]) \in Seq(Job)
    BY <1>0, <1>8, <2>1, ChannelFacts DEF Defer
  <2>3. active[1] + Window \in Nat
    <3>1. Len(active) >= RateLimit
      BY <1>8, <2>1, Numbers DEF Defer, Allowed
    <3> HIDE DEF active
    <3>2. 1 \in 1..Len(active)
      BY <2>1, <3>1, Numbers
    <3>3. active[1] \in Nat
      BY <2>1, <3>2
    <3>4. QED  BY <3>3, Numbers
  <2>4. d \in [job : Job, at : Nat]
    BY <2>2, <2>3
  <2>5. /\ jobs' = [jobs EXCEPT ![s] = Tail(@)]
        /\ hits' = [hits EXCEPT ![s] = active]
        /\ deferred' = [deferred EXCEPT ![s] = @ \union {d}]
        /\ UNCHANGED <<life, reader, pending, starts>>
    BY <1>8 DEF Defer
  <2> HIDE DEF s, active, d
  <2>6. QED  BY <1>0, <2>1, <2>2, <2>4, <2>5 DEF QueuesTyped
<1>9. ASSUME NEW w \in Workers, Leave(w) \/ Fetch(w)
      PROVE  QueuesTyped'
  BY <1>0, <1>9 DEF Leave, Fetch, QueuesTyped
<1>10. ASSUME NEW w \in Workers, Claim(w)
      PROVE  QueuesTyped'
  <2>1. Home[w] \in Servers /\ work[w].since \in Nat
    BY <1>0, SiteIconsAssumption DEF WorkTyped, State
  <2>2. Append(starts[Home[w]], work[w].since) \in Seq(Nat)
    BY <1>0, <2>1 DEF QueuesTyped
  <2>3. QED  BY <1>0, <1>10, <2>1, <2>2 DEF Claim, QueuesTyped
<1>11. ASSUME NEW w \in Workers, ClaimNothing(w) \/ ClaimUnanswered(w)
      PROVE  QueuesTyped'
  <2>1. /\ hits' = [hits EXCEPT ![Home[w]] = refund(@, work[w].since)]
        /\ pending' = [pending EXCEPT ![Home[w]] = @ \ {work[w].job}]
        /\ UNCHANGED <<life, reader, jobs, deferred, starts>>
    BY <1>11 DEF ClaimNothing, ClaimUnanswered, Refused, finish
  <2>2. Home[w] \in Servers /\ work[w].since \in Nat
    BY <1>0, SiteIconsAssumption DEF WorkTyped, State
  <2>3. refund(hits[Home[w]], work[w].since) \in Seq(Nat)
    BY <1>0, <2>2, RefundRemovesOne DEF QueuesTyped
  <2>4. QED  BY <1>0, <2>1, <2>3 DEF QueuesTyped
<1>12. ASSUME NEW w \in Workers, Complete(w) \/ GiveUp(w)
      PROVE  QueuesTyped'
  BY <1>0, <1>12 DEF Complete, GiveUp, finish, QueuesTyped
<1>13. ASSUME NEW k \in Sites, Corrupt(k)
      PROVE  QueuesTyped'
  BY <1>0, <1>13 DEF Corrupt, process, QueuesTyped
<1>14. CASE Tick
  BY <1>0, <1>14 DEF Tick, QueuesTyped
<1>15. QED
  BY <1>1, <1>2, <1>3, <1>4, <1>5, <1>6, <1>7, <1>8, <1>9, <1>10, <1>11, <1>12, <1>13, <1>14
     DEF Next, ServerStep, Refresh

\* The clock and the counters keep their bounds.
LEMMA NextTimes ==
    ASSUME TypeOK, Next
    PROVE  TimesTyped'
<1>0. TimesTyped
  BY TypeParts
<1>1. ASSUME NEW s \in Servers, ServerStep(s)
      PROVE  TimesTyped'
  <2>1. /\ now' = now
        /\ views' = views \/ (views < MaxViews /\ views' = views + 1)
        /\ mishaps' = mishaps \/ (mishaps < MaxMishaps /\ mishaps' = mishaps + 1)
    <3>1. CASE (\E k \in Sites : View(s, k)) \/ Enqueue(s) \/ Decline(s) \/ Return(s) \/ Abandon(s)
      BY <3>1 DEF View, Enqueue, Decline, Return, Abandon
    <3>2. CASE Close(s) \/ Closed(s) \/ Kill(s) \/ Boot(s)
      BY <3>2 DEF Close, Closed, Kill, Boot, Forget
    <3>3. QED  BY <1>1, <3>1, <3>2 DEF ServerStep
  <2>2. QED  BY <1>0, <2>1, Numbers DEF TimesTyped
<1>2. ASSUME NEW w \in Workers, Take(w) \/ Defer(w) \/ Leave(w) \/ Refresh(w)
      PROVE  TimesTyped'
  BY <1>0, <1>2
     DEF TimesTyped, Take, Defer, Leave, Refresh, Claim, ClaimNothing, ClaimUnanswered, Fetch, Complete, GiveUp
<1>3. ASSUME NEW k \in Sites, Corrupt(k)
      PROVE  TimesTyped'
  BY <1>0, <1>3, Numbers DEF TimesTyped, Corrupt, process
<1>4. CASE Tick
  BY <1>0, <1>4, Numbers DEF TimesTyped, Tick
<1>5. QED  BY <1>1, <1>2, <1>3, <1>4 DEF Next

\* Types are preserved, given that busy workers have a job.
LEMMA NextType ==
    ASSUME TypeOK, WorkersTyped, [Next]_vars
    PROVE  TypeOK'
<1>1. CASE Next
  <2>1. TimesTyped' /\ TableTyped' /\ QueuesTyped' /\ WorkTyped'
    BY <1>1, NextTimes, NextTable, NextQueues, NextWork
  <2>2. QED  BY <2>1, TypeParts, PTL
<1>2. CASE UNCHANGED vars
  BY <1>2 DEF vars, TypeOK
<1>3. QED  BY <1>1, <1>2
-----------------------------------------------------------------------------
(* The workers: budgets and leases.                                        *)

\* A worker is left alone by a step that changes neither it nor the leases.
LEMMA LeftAlone ==
    ASSUME NEW v \in Workers, WorkerInv(v), work'[v] = work[v], now' = now,
           DOMAIN rows' = DOMAIN rows, \A k \in DOMAIN rows : rows'[k].claim = rows[k].claim
    PROVE  WorkerInv(v)'
  BY DEF WorkerInv, BudgetInv, LeaseInv, Busy, Holds, claimUntil

\* Nothing is asked of a worker at rest.
LEMMA AtRest ==
    ASSUME NEW v \in Workers, work'[v].pc \in {"idle", "gone"}
    PROVE  WorkerInv(v)'
  BY DEF WorkerInv, BudgetInv, LeaseInv, Busy, Holds

\* Tokens of different workers differ, and none is that of a free row.
LEMMA Tokens ==
    ASSUME NEW v \in Workers, NEW w \in Workers, work[v].since \in Nat
    PROVE  /\ claimUntil(v).until = work[v].since + ClaimLease
           /\ claimUntil(v) # Free
           /\ v # w => claimUntil(v) # claimUntil(w)
<1>1. claimUntil(v).until = work[v].since + ClaimLease /\ Free.until = -1
  BY DEF claimUntil, Free
<1>2. claimUntil(v).until # Free.until
  BY <1>1, Numbers
<1>3. claimUntil(v).by = v /\ claimUntil(w).by = w
  BY DEF claimUntil
<1>4. QED  BY <1>1, <1>2, <1>3

\* A transaction of w as another worker sees it: its row keeps the token, or
\* was pruned, or passed on to w once the lease was over.
LEMMA Overtaken ==
    ASSUME TypeOK, WorkersInv, NEW w \in Workers, NEW v \in Workers \ {w}, NEW claimed \in BOOLEAN,
           claimed => work[w].pc = "claiming" /\ Claimable(w) /\ rows' \in Pruned(Upserted(w)),
           ~claimed => rows' \in Pruned(Completed(w)),
           work'[v] = Marked(v, rows', w, claimed), now' = now
    PROVE  WorkerInv(v)'
<1>0. /\ work[v] \in State /\ work[w] \in State /\ now \in Nat /\ WorkerInv(v) /\ WorkerInv(w)
      /\ TableTyped /\ IsFiniteSet(DOMAIN rows)
  <2>1. TableTyped
    BY TypeParts
  <2>2. QED
    BY <2>1, TypeParts, SiteIconsAssumption, FS_Subset DEF TableTyped, TimesTyped, WorkTyped, WorkersInv
<1>1. CASE ~Holds(v)
  <2>1. work'[v] = work[v]
    BY <1>0, <1>1, MarkedFacts
  <2>2. QED  BY <1>0, <1>1, <2>1 DEF WorkerInv, BudgetInv, LeaseInv, Busy, Holds
<1>2. CASE Holds(v)
  <2> DEFINE k == work[v].job.site
             old == work[v]
             new == work'[v]
             token == claimUntil(v)
  <2>1. /\ new.pc = old.pc /\ new.job = old.job /\ new.since = old.since
        /\ new.until = old.until /\ new.late = old.late
        /\ new.evicted = (old.evicted \/ k \notin DOMAIN rows')
        /\ new.superseded = (old.superseded \/ (claimed /\ k = work[w].job.site))
    BY <1>0, <1>2, MarkedFacts
  <2>2. old.since \in Nat /\ token.until = old.since + ClaimLease /\ token # Free /\ token # claimUntil(w)
    BY <1>0, Tokens DEF State
  <2>3. claimUntil(v)' = token
    BY <2>1 DEF claimUntil
  <2>4. k \in DOMAIN rows' /\ claimed /\ k = work[w].job.site => rows'[k].claim = claimUntil(w)
    <3>1. SUFFICES ASSUME k \in DOMAIN rows', claimed, k = work[w].job.site
                   PROVE  rows'[k].claim = claimUntil(w)
      OBVIOUS
    <3>2. work[w].job \in Job
      BY <1>0, <3>1 DEF WorkerInv, Busy
    <3> DEFINE f == Upserted(w)
    <3>3. f = [x \in DOMAIN f |-> f[x]] /\ IsFiniteSet(DOMAIN f) /\ f[k].claim = claimUntil(w)
      BY <3>1, <3>2, UpsertedFacts
    <3>4. rows' \in Pruned(f)
      BY <3>1
    <3> HIDE DEF f
    <3>5. rows' = [x \in DOMAIN rows' |-> f[x]]
      BY <3>3, <3>4, PrunedFacts
    <3>6. QED  BY <3>1, <3>3, <3>5
  <2>5. k \in DOMAIN rows' /\ ~ (claimed /\ k = work[w].job.site) =>
          /\ k \in DOMAIN rows
          /\ \/ rows'[k].claim = rows[k].claim
             \/ rows[k].claim = claimUntil(w) /\ rows'[k].claim = Free
    <3>1. SUFFICES ASSUME k \in DOMAIN rows', ~ (claimed /\ k = work[w].job.site)
                   PROVE  /\ k \in DOMAIN rows
                          /\ \/ rows'[k].claim = rows[k].claim
                             \/ rows[k].claim = claimUntil(w) /\ rows'[k].claim = Free
      OBVIOUS
    <3>2. CASE claimed
      <4>1. work[w].job \in Job /\ k # work[w].job.site
        BY <1>0, <3>1, <3>2 DEF WorkerInv, Busy
      <4> DEFINE f == Upserted(w)
      <4>2. /\ f = [x \in DOMAIN f |-> f[x]] /\ IsFiniteSet(DOMAIN f)
            /\ DOMAIN f = DOMAIN rows \union {work[w].job.site}
            /\ \A x \in DOMAIN rows \ {work[w].job.site} : f[x] = rows[x]
        BY <4>1, UpsertedFacts
      <4>3. rows' \in Pruned(f)
        BY <3>2
      <4> HIDE DEF f
      <4>4. rows' = [x \in DOMAIN rows' |-> f[x]] /\ DOMAIN rows' \subseteq DOMAIN f
        BY <4>2, <4>3, PrunedFacts
      <4>5. k \in DOMAIN rows \ {work[w].job.site}
        BY <3>1, <4>1, <4>2, <4>4
      <4>6. QED  BY <3>1, <4>2, <4>4, <4>5
    <3>3. CASE ~claimed
      <4> DEFINE f == Completed(w)
      <4>1. /\ f = [x \in DOMAIN f |-> f[x]] /\ IsFiniteSet(DOMAIN f) /\ DOMAIN f = DOMAIN rows
            /\ \A x \in DOMAIN rows :
                 f[x] = rows[x] \/ (rows[x].claim = claimUntil(w) /\ f[x].claim = Free)
        BY <1>0, CompletedFacts
      <4>2. rows' \in Pruned(f)
        BY <3>3
      <4> HIDE DEF f
      <4>3. rows' = [x \in DOMAIN rows' |-> f[x]] /\ DOMAIN rows' \subseteq DOMAIN f
        BY <4>1, <4>2, PrunedFacts
      <4>4. k \in DOMAIN rows /\ rows'[k] = f[k]
        BY <3>1, <4>1, <4>3
      <4>5. QED  BY <4>1, <4>4
    <3>4. QED  BY <3>2, <3>3
  <2>6. claimed /\ k = work[w].job.site /\ k \in DOMAIN rows /\ rows[k].claim = token =>
          old.since + ClaimLease <= now
    <3>1. SUFFICES ASSUME claimed, k = work[w].job.site, k \in DOMAIN rows, rows[k].claim = token
                   PROVE  old.since + ClaimLease <= now
      OBVIOUS
    <3>2. rows[k].claim.until <= work[w].since
      BY <3>1 DEF Claimable
    <3>3. work[w].since <= now /\ work[w].since \in Nat
      BY <1>0, <3>1 DEF WorkerInv, LeaseInv, Busy, State
    <3>4. QED  BY <1>0, <2>2, <3>1, <3>2, <3>3, Numbers
  <2>7. BudgetInv(v)'
    BY <1>0, <1>2, <2>1 DEF WorkerInv, BudgetInv, Busy, Holds
  <2>8. Busy(v)' => work'[v].job \in Job
    BY <1>0, <1>2, <2>1 DEF WorkerInv, Busy, Holds
  <2>9. /\ old.since <= now
        /\ ~old.evicted => k \in DOMAIN rows
        /\ ~old.evicted /\ ~old.superseded => rows[k].claim = token
        /\ ~old.evicted /\ old.superseded => old.since + ClaimLease <= now
        /\ old.superseded /\ k \in DOMAIN rows => rows[k].claim # token
    BY <1>0, <1>2 DEF WorkerInv, LeaseInv, Busy, Holds
  <2> DEFINE site == work'[v].job.site
  <2>10. site = k
    BY <2>1
  <2>11. /\ ~new.evicted => k \in DOMAIN rows'
         /\ ~new.evicted /\ ~new.superseded => rows'[k].claim = token
         /\ ~new.evicted /\ new.superseded => old.since + ClaimLease <= now
         /\ new.superseded /\ k \in DOMAIN rows' => rows'[k].claim # token
    <3>1. old.evicted \in BOOLEAN /\ old.superseded \in BOOLEAN
      BY <1>0 DEF State
    <3> HIDE DEF old, new, token, k
    <3>2. ~new.evicted => k \in DOMAIN rows'
      BY <2>1, <3>1
    <3>3. ~new.evicted /\ ~new.superseded => rows'[k].claim = token
      BY <2>1, <2>2, <2>5, <2>9, <3>1
    <3>4. ~new.evicted /\ new.superseded => old.since + ClaimLease <= now
      BY <2>1, <2>6, <2>9, <3>1
    <3>5. new.superseded /\ k \in DOMAIN rows' => rows'[k].claim # token
      BY <2>1, <2>2, <2>4, <2>5, <2>9, <3>1
    <3>6. QED  BY <3>2, <3>3, <3>4, <3>5
  <2>12. LeaseInv(v)'
    BY <1>2, <2>1, <2>3, <2>9, <2>10, <2>11 DEF LeaseInv, Busy, Holds
  <2>13. QED  BY <2>7, <2>8, <2>12 DEF WorkerInv
<1>3. QED  BY <1>1, <1>2
\* The worker whose claim committed: what it has leased is its own, if the
\* row was not pruned at once.
LEMMA Claimant ==
    ASSUME TypeOK, WorkersInv, NEW w \in Workers, Claim(w)
    PROVE  WorkerInv(w)'
<1> DEFINE k == work[w].job.site
           f == Upserted(w)
<1>1. /\ work[w] \in State /\ now \in Nat /\ WorkerInv(w) /\ work[w].pc = "claiming"
  BY TypeParts DEF TimesTyped, WorkTyped, WorkersInv, Claim
<1>2. /\ work[w].job \in Job /\ work[w].since <= now /\ ~work[w].superseded
      /\ ~work[w].late => now <= work[w].until /\ work[w].until <= work[w].since + DatabaseBudget
  <2>1. work[w].job \in Job /\ work[w].since <= now /\ ~work[w].superseded
    BY <1>1 DEF WorkerInv, LeaseInv, Busy
  <2>2. ~work[w].late => /\ now <= work[w].until
                         /\ work[w].until <= work[w].since + DatabaseBudget + 0 + 0
    BY <1>1 DEF WorkerInv, BudgetInv, Busy, Holds
  <2>3. work[w].since \in Nat
    BY <1>1 DEF State
  <2>4. QED  BY <2>1, <2>2, <2>3, Numbers
<1>3. f = [x \in DOMAIN f |-> f[x]] /\ IsFiniteSet(DOMAIN f) /\ f[k].claim = claimUntil(w)
  BY <1>2, UpsertedFacts
<1>4. rows' \in Pruned(f) /\ now' = now
  BY DEF Claim
<1> HIDE DEF f
<1>5. rows' = [x \in DOMAIN rows' |-> f[x]]
  BY <1>3, <1>4, PrunedFacts
<1>6. k \in DOMAIN rows' => rows'[k].claim = claimUntil(w)
  BY <1>3, <1>5
<1>7. work'[w] = [work[w] EXCEPT !.pc = "fetching", !.until = now + FetchBudget,
                                 !.evicted = k \notin DOMAIN rows']
  BY DEF Claim
<1> DEFINE gone == k \notin DOMAIN rows'
           new == work'[w]
           fetchEnd == now + FetchBudget
<1>8. /\ new.pc = "fetching" /\ new.until = fetchEnd /\ new.evicted = gone
      /\ new.job = work[w].job /\ new.since = work[w].since /\ new.late = work[w].late
      /\ new.superseded = work[w].superseded
  <2> HIDE DEF gone, fetchEnd
  <2>1. new = [work[w] EXCEPT !.pc = "fetching", !.until = fetchEnd, !.evicted = gone]
    BY <1>7 DEF gone, fetchEnd
  <2>2. QED  BY <1>1, <2>1 DEF State
<1>9. claimUntil(w)' = claimUntil(w)
  BY <1>8 DEF claimUntil
<1>10. LeaseInv(w)'
  BY <1>2, <1>4, <1>6, <1>8, <1>9 DEF LeaseInv, Busy, Holds
<1>11. BudgetInv(w)'
  <2>1. SUFFICES ASSUME ~work[w].late
                 PROVE  now <= fetchEnd /\ fetchEnd <= work[w].since + DatabaseBudget + FetchBudget + 0
    BY <1>4, <1>8 DEF BudgetInv, Busy, Holds
  <2>2. work[w].since \in Nat /\ work[w].until \in Nat
    BY <1>1 DEF State
  <2>3. QED  BY <1>1, <1>2, <2>1, <2>2, Numbers
<1>12. QED  BY <1>2, <1>8, <1>10, <1>11 DEF WorkerInv

\* A fetch ends: its answer has a budget of its own, within the lease.
LEMMA Fetched ==
    ASSUME TypeOK, WorkersInv, NEW w \in Workers, Fetch(w)
    PROVE  WorkerInv(w)'
<1>1. work[w] \in State /\ now \in Nat /\ WorkerInv(w) /\ work[w].pc = "fetching"
  BY TypeParts DEF TimesTyped, WorkTyped, WorkersInv, Fetch
<1> DEFINE new == work'[w]
           databaseEnd == now + DatabaseBudget
<1>2. PICK result : work' = [work EXCEPT ![w].pc = "completing", ![w].icon = result,
                               ![w].attempted = now, ![w].until = databaseEnd]
  BY DEF Fetch
<1>3. /\ new.pc = "completing" /\ new.until = databaseEnd
      /\ new.job = work[w].job /\ new.since = work[w].since /\ new.late = work[w].late
      /\ new.superseded = work[w].superseded /\ new.evicted = work[w].evicted
  <2> HIDE DEF databaseEnd
  <2>1. work \in [Workers -> State]
    BY TypeParts DEF WorkTyped
  <2>2. QED  BY <1>1, <1>2, <2>1 DEF State
<1>4. now' = now /\ rows' = rows /\ claimUntil(w)' = claimUntil(w)
  BY <1>3 DEF Fetch, claimUntil
<1>5. LeaseInv(w)'
  BY <1>1, <1>3, <1>4 DEF WorkerInv, LeaseInv, Busy, Holds
<1>6. BudgetInv(w)'
  <2>1. SUFFICES ASSUME ~work[w].late
                 PROVE  /\ now <= databaseEnd
                        /\ databaseEnd <= work[w].since + DatabaseBudget + FetchBudget + DatabaseBudget
    BY <1>3, <1>4 DEF BudgetInv, Busy, Holds
  <2>2. now <= work[w].until /\ work[w].until <= work[w].since + DatabaseBudget + FetchBudget + 0
    BY <1>1, <2>1 DEF WorkerInv, BudgetInv, Busy, Holds
  <2>3. work[w].since \in Nat /\ work[w].until \in Nat
    BY <1>1 DEF State
  <2>4. QED  BY <1>1, <2>2, <2>3, Numbers
<1>7. QED  BY <1>1, <1>3, <1>5, <1>6 DEF WorkerInv, Busy

\* The clock moves on: who is not late has time left, and leases only age.
LEMMA Aged ==
    ASSUME TypeOK, WorkersInv, NEW w \in Workers, Tick
    PROVE  WorkerInv(w)'
<1>1. work[w] \in State /\ now \in Nat /\ WorkerInv(w)
  BY TypeParts DEF TimesTyped, WorkTyped, WorkersInv
<1> DEFINE late == work[w].late \/ (Busy(w) /\ now = work[w].until)
           new == work'[w]
<1>2. /\ new.pc = work[w].pc /\ new.until = work[w].until /\ new.job = work[w].job
      /\ new.since = work[w].since /\ new.late = late
      /\ new.superseded = work[w].superseded /\ new.evicted = work[w].evicted
  <2>1. new = [work[w] EXCEPT !.late = late]
    BY DEF Tick
  <2> HIDE DEF late
  <2>2. QED  BY <1>1, <2>1 DEF State
<1>3. now' = now + 1 /\ rows' = rows /\ claimUntil(w)' = claimUntil(w)
  BY <1>2 DEF Tick, claimUntil
<1>4. work[w].since \in Nat /\ work[w].until \in Nat
  BY <1>1 DEF State
<1>5. LeaseInv(w)'
  <2>1. Busy(w) => work[w].since <= now + 1
    BY <1>1, <1>4 DEF WorkerInv, LeaseInv
  <2>2. Holds(w) /\ ~work[w].evicted /\ work[w].superseded => work[w].since + ClaimLease <= now + 1
    BY <1>1, <1>4, Numbers DEF WorkerInv, LeaseInv
  <2>3. QED  BY <1>1, <1>2, <1>3, <2>1, <2>2 DEF WorkerInv, LeaseInv, Busy, Holds
<1>6. BudgetInv(w)'
  <2>1. Busy(w) /\ ~late => now + 1 <= work[w].until
    BY <1>1, <1>4 DEF WorkerInv, BudgetInv
  <2> HIDE DEF late
  <2>2. Busy(w) /\ ~late => ~work[w].late
    BY DEF late
  <2>3. QED  BY <1>1, <1>2, <1>3, <2>1, <2>2 DEF WorkerInv, BudgetInv, Busy, Holds
<1>7. QED  BY <1>1, <1>2, <1>5, <1>6 DEF WorkerInv, Busy
\* A worker receives a job: its budget and its lease begin now.
LEMMA Taken ==
    ASSUME TypeOK, WorkersInv, NEW w \in Workers, Take(w)
    PROVE  WorkerInv(w)'
<1>1. now \in Nat /\ Home[w] \in Servers /\ QueuesTyped /\ WorkTyped /\ WorkerInv(w)
  BY TypeParts, SiteIconsAssumption DEF TimesTyped, WorkersInv
<1> DEFINE job == Head(jobs[Home[w]])
           databaseEnd == now + DatabaseBudget
           taken == [Idle EXCEPT !.pc = "claiming", !.job = job, !.since = now, !.until = databaseEnd]
<1>2. job \in Job
  BY <1>1, ChannelFacts DEF Take
<1>3. (work' = work \/ work' = [work EXCEPT ![w] = taken]) /\ now' = now /\ rows' = rows
  BY DEF Take
<1>4. CASE work' = work
  BY <1>1, <1>3, <1>4, LeftAlone
<1>5. CASE work' = [work EXCEPT ![w] = taken]
  <2>1. work'[w] = taken
    BY <1>1, <1>5 DEF WorkTyped
  <2>2. /\ taken.pc = "claiming" /\ taken.job = job /\ taken.since = now /\ taken.until = databaseEnd
        /\ taken.late = FALSE /\ taken.evicted = FALSE /\ taken.superseded = FALSE
    <3> HIDE DEF job, databaseEnd
    <3>1. QED  BY DEF Idle
  <2> HIDE DEF taken, job
  <2>3. LeaseInv(w)'
    BY <1>1, <1>3, <2>1, <2>2 DEF LeaseInv, Busy, Holds
  <2>4. BudgetInv(w)'
    BY <1>1, <1>3, <2>1, <2>2, Numbers DEF BudgetInv, Busy, Holds
  <2>5. QED  BY <1>2, <2>1, <2>2, <2>3, <2>4 DEF WorkerInv
<1>6. QED  BY <1>3, <1>4, <1>5

\* The workers' part of the invariant is kept by every step.
LEMMA NextWorkers ==
    ASSUME TypeOK, WorkersInv, [Next]_vars
    PROVE  WorkersInv'
<1>0. WorkTyped /\ TableTyped /\ \A v \in Workers : WorkerInv(v)
  BY TypeParts DEF WorkersInv
<1>1. SUFFICES ASSUME NEW v \in Workers
               PROVE  WorkerInv(v)'
  BY DEF WorkersInv
<1>2. ASSUME NEW s \in Servers, ServerStep(s)
      PROVE  WorkerInv(v)'
  <2>1. /\ now' = now /\ rows' = rows
        /\ work' = work \/ work' = [x \in Workers |-> IF Home[x] = s THEN Idle ELSE work[x]]
    BY <1>2 DEF ServerStep, View, Enqueue, Decline, Return, Abandon, Close, Closed, Kill, Boot, Forget
  <2>2. work'[v] = work[v] \/ work'[v] = Idle
    BY <2>1
  <2>3. QED  BY <1>0, <2>1, <2>2, LeftAlone, AtRest, IdleTyped
<1>3. ASSUME NEW w \in Workers, Take(w)
      PROVE  WorkerInv(v)'
  <2>1. CASE v = w
    BY <1>3, <2>1, Taken
  <2>2. CASE v # w
    <3>1. work'[v] = work[v] /\ now' = now /\ rows' = rows
      BY <1>0, <1>3, <2>2 DEF Take, WorkTyped
    <3>2. QED  BY <1>0, <3>1, LeftAlone
  <2>3. QED  BY <2>1, <2>2
<1>4. ASSUME NEW w \in Workers, Defer(w) \/ Leave(w) \/ ClaimNothing(w) \/ GiveUp(w)
      PROVE  WorkerInv(v)'
  <2>1. /\ now' = now /\ rows' = rows
        /\ \/ work' = work
           \/ work' = [work EXCEPT ![w].pc = "gone"]
           \/ work' = [work EXCEPT ![w] = Idle]
    BY <1>4 DEF Defer, Leave, ClaimNothing, GiveUp
  <2>2. work[w] \in State
    BY <1>0 DEF WorkTyped
  <2>3. work'[v] = work[v] \/ work'[v].pc \in {"idle", "gone"}
    BY <1>0, <2>1, <2>2, IdleTyped DEF WorkTyped, State
  <2>4. QED  BY <1>0, <2>1, <2>3, LeftAlone, AtRest
<1>5. ASSUME NEW w \in Workers, Claim(w) \/ ClaimUnanswered(w) \/ Complete(w)
      PROVE  WorkerInv(v)'
  <2>1. CASE v = w
    <3>1. CASE Claim(w)
      BY <2>1, <3>1, Claimant
    <3>2. CASE ClaimUnanswered(w) \/ Complete(w)
      <4>1. work'[w] = Idle
        BY <3>2 DEF ClaimUnanswered, Complete
      <4>2. QED  BY <2>1, <4>1, AtRest, IdleTyped
    <3>3. QED  BY <1>5, <3>1, <3>2
  <2>2. CASE v # w
    <3>1. CASE Claim(w) \/ ClaimUnanswered(w)
      <4>1. work[w].pc = "claiming" /\ Claimable(w) /\ rows' \in Pruned(Upserted(w)) /\ now' = now
        BY <3>1 DEF Claim, ClaimUnanswered
      <4>2. work'[v] = Marked(v, rows', w, TRUE)
        BY <2>2, <3>1 DEF Claim, ClaimUnanswered
      <4>3. QED  BY <2>2, <4>1, <4>2, Overtaken
    <3>2. CASE Complete(w)
      <4>1. rows' \in Pruned(Completed(w)) /\ now' = now /\ work'[v] = Marked(v, rows', w, FALSE)
        BY <2>2, <3>2 DEF Complete
      <4>2. QED  BY <2>2, <4>1, Overtaken
    <3>3. QED  BY <1>5, <3>1, <3>2
  <2>3. QED  BY <2>1, <2>2
<1>6. ASSUME NEW w \in Workers, Fetch(w)
      PROVE  WorkerInv(v)'
  <2>1. CASE v = w
    BY <1>6, <2>1, Fetched
  <2>2. CASE v # w
    <3>1. work'[v] = work[v] /\ now' = now /\ rows' = rows
      BY <1>0, <1>6, <2>2 DEF Fetch, WorkTyped
    <3>2. QED  BY <1>0, <3>1, LeftAlone
  <2>3. QED  BY <2>1, <2>2
<1>7. ASSUME NEW k \in Sites, Corrupt(k)
      PROVE  WorkerInv(v)'
  <2>1. work' = work /\ now' = now /\ k \in DOMAIN rows /\ rows' = [rows EXCEPT ![k].icon = "corrupt"]
    BY <1>7 DEF Corrupt, process
  <2>2. rows \in [DOMAIN rows -> Icon]
    BY <1>0 DEF TableTyped
  <2>3. DOMAIN rows' = DOMAIN rows /\ \A x \in DOMAIN rows : rows'[x].claim = rows[x].claim
    BY <2>1, <2>2 DEF Icon
  <2>4. QED  BY <1>0, <2>1, <2>3, LeftAlone
<1>8. CASE Tick
  BY <1>8, Aged
<1>9. CASE UNCHANGED vars
  <2>1. work' = work /\ now' = now /\ rows' = rows
    BY <1>9 DEF vars
  <2>2. QED  BY <1>0, <2>1, LeftAlone
<1>10. QED
  BY <1>2, <1>3, <1>4, <1>5, <1>6, <1>7, <1>8, <1>9 DEF Next, Refresh

-----------------------------------------------------------------------------
(* What follows for fetches.                                               *)

\* Two that hold one site: the token is one worker's, and whoever lost it is
\* late, its lease being longer than its budgets.
LEMMA LeasesExclude == TypeOK /\ WorkersInv => OneFetch
<1> SUFFICES ASSUME TypeOK, WorkersInv,
                    NEW v \in Workers, NEW w \in Workers, v # w, Holds(v), Holds(w),
                    work[v].job.site = work[w].job.site,
                    \A x \in {v, w} : ~work[x].late /\ ~work[x].evicted
             PROVE  FALSE
  BY DEF OneFetch
<1>1. \A x \in {v, w} : ~work[x].superseded
  <2> SUFFICES ASSUME NEW x \in {v, w}, work[x].superseded
               PROVE  FALSE
    OBVIOUS
  <2>1. work[x] \in State /\ now \in Nat /\ WorkerInv(x) /\ Holds(x) /\ ~work[x].late /\ ~work[x].evicted
    BY TypeParts DEF TimesTyped, WorkTyped, WorkersInv
  <2>2. work[x].since + ClaimLease <= now
    BY <2>1 DEF WorkerInv, LeaseInv
  <2>3. now <= work[x].until
    BY <2>1 DEF WorkerInv, BudgetInv, Busy, Holds
  <2>4. work[x].until <= work[x].since + DatabaseBudget + FetchBudget
                           + (IF work[x].pc = "completing" THEN DatabaseBudget ELSE 0)
    BY <2>1 DEF WorkerInv, BudgetInv, Busy, Holds
  <2>5. work[x].since \in Nat /\ work[x].until \in Nat
    BY <2>1 DEF State
  <2>6. QED  BY <2>1, <2>2, <2>3, <2>4, <2>5, Numbers
<1> DEFINE k == work[v].job.site
<1>2. rows[k].claim = claimUntil(v) /\ rows[k].claim = claimUntil(w)
  BY <1>1 DEF WorkersInv, WorkerInv, LeaseInv
<1>3. work[v].since \in Nat
  BY TypeParts DEF WorkTyped, State
<1>4. QED  BY <1>2, <1>3, Tokens

\* A worker that leaves "completing" does so without a trace in the table if
\* it was overtaken.
LEMMA FencesHold ==
    TypeOK /\ WorkersInv /\ [Next]_vars =>
        \A w \in Workers :
            (work[w].pc = "completing" /\ work[w].superseded /\ work'[w].pc = "idle") => rows' = rows
<1> SUFFICES ASSUME TypeOK, WorkersInv, [Next]_vars, NEW w \in Workers,
                    work[w].pc = "completing", work[w].superseded, work'[w].pc = "idle"
             PROVE  rows' = rows
  OBVIOUS
<1>0. TableTyped /\ WorkTyped /\ WorkerInv(w) /\ IsFiniteSet(DOMAIN rows)
  <2>1. TableTyped
    BY TypeParts
  <2>2. QED  BY <2>1, TypeParts, SiteIconsAssumption, FS_Subset DEF TableTyped, WorkersInv
<1>1. CASE rows' \in Pruned(Completed(w))
  <2>1. Completed(w) = rows
    BY <1>0, CompletedFacts DEF WorkerInv, LeaseInv, Holds
  <2>2. QED  BY <1>0, <1>1, <2>1, PrunedFacts DEF TableTyped
<1>2. ASSUME NEW v \in Workers, Claim(v) \/ ClaimUnanswered(v) \/ Complete(v), v # w
      PROVE  FALSE
  <2>1. \E rs : \E claimed \in BOOLEAN : work'[w] = Marked(w, rs, v, claimed)
    <3>1. CASE Claim(v)
      BY <1>2, <3>1 DEF Claim
    <3>2. CASE ClaimUnanswered(v)
      BY <1>2, <3>2 DEF ClaimUnanswered
    <3>3. CASE Complete(v)
      BY <1>2, <3>3 DEF Complete
    <3>4. QED  BY <1>2, <3>1, <3>2, <3>3
  <2>2. work'[w].pc = work[w].pc
    BY <1>0, <2>1, MarkedFacts DEF WorkTyped
  <2>3. QED  BY <2>2
<1>3. ASSUME NEW v \in Workers, Claim(v) \/ ClaimUnanswered(v)
      PROVE  v # w
  BY <1>3 DEF Claim, ClaimUnanswered
<1>4. ASSUME NEW k \in Sites, Corrupt(k)
      PROVE  FALSE
  BY <1>4 DEF Corrupt, process
<1>5. \/ rows' = rows
      \/ \E k \in Sites : Corrupt(k)
      \/ \E v \in Workers : Claim(v) \/ ClaimUnanswered(v) \/ Complete(v)
  <2>1. ASSUME NEW s \in Servers, ServerStep(s)
        PROVE  rows' = rows
    BY <2>1 DEF ServerStep, View, Enqueue, Decline, Return, Abandon, Close, Closed, Kill, Boot, Forget
  <2>2. ASSUME NEW v \in Workers, Take(v) \/ Defer(v) \/ Leave(v) \/ ClaimNothing(v) \/ Fetch(v) \/ GiveUp(v)
        PROVE  rows' = rows
    BY <2>2 DEF Take, Defer, Leave, ClaimNothing, Fetch, GiveUp
  <2>3. Tick \/ UNCHANGED vars => rows' = rows
    BY DEF Tick, vars
  <2>4. QED  BY <2>1, <2>2, <2>3 DEF Next, Refresh
<1>6. Complete(w) => rows' \in Pruned(Completed(w))
  BY DEF Complete
<1>7. QED  BY <1>1, <1>2, <1>3, <1>4, <1>5, <1>6
-----------------------------------------------------------------------------
(* The slots.                                                              *)

\* A job at the end of the channel.
LEMMA AppendFacts ==
    ASSUME NEW S, NEW q \in Seq(S), NEW x \in S
    PROVE  /\ Range(Append(q, x)) = Range(q) \union {x}
           /\ IsInjective(q) /\ x \notin Range(q) => IsInjective(Append(q, x))
<1> DEFINE n == Len(q)
           a == Append(q, x)
<1>1. /\ DOMAIN q = 1..n /\ n \in Nat /\ DOMAIN a = 1..(n + 1)
      /\ \A i \in 1..n : a[i] = q[i]
      /\ a[n + 1] = x
  OBVIOUS
<1> HIDE DEF n, a
<1>2. DOMAIN a = DOMAIN q \union {n + 1} /\ n + 1 \notin DOMAIN q
  BY <1>1
<1>3. \A i \in DOMAIN q : a[i] = q[i]
  BY <1>1
<1>4. Range(a) = Range(q) \union {x}
  BY <1>1, <1>2, <1>3 DEF Range
<1>5. IsInjective(q) /\ x \notin Range(q) => IsInjective(a)
  <2>1. SUFFICES ASSUME IsInjective(q), x \notin Range(q), NEW i \in DOMAIN a, NEW j \in DOMAIN a, a[i] = a[j]
                 PROVE  i = j
    BY DEF IsInjective
  <2>2. \A k \in DOMAIN q : q[k] # x
    BY <2>1 DEF Range
  <2>3. CASE i \in DOMAIN q /\ j \in DOMAIN q
    BY <1>3, <2>1, <2>3 DEF IsInjective
  <2>4. CASE i \notin DOMAIN q \/ j \notin DOMAIN q
    BY <1>1, <1>2, <1>3, <2>1, <2>2, <2>4
  <2>5. QED  BY <2>3, <2>4
<1>6. QED  BY <1>4, <1>5 DEF a

\* The first job of the channel leaves it.
LEMMA TailFacts ==
    ASSUME NEW S, NEW q \in Seq(S), q # <<>>, IsInjective(q)
    PROVE  /\ Head(q) \in Range(q) /\ Range(Tail(q)) = Range(q) \ {Head(q)}
           /\ IsInjective(Tail(q))
<1> DEFINE n == Len(q)
           b == Tail(q)
<1>1. /\ DOMAIN q = 1..n /\ n \in Nat \ {0} /\ DOMAIN b = 1..(n - 1)
      /\ \A i \in 1..(n - 1) : b[i] = q[i + 1]
      /\ Head(q) = q[1]
  OBVIOUS
<1> HIDE DEF n, b
<1>2. \A i \in DOMAIN b : i + 1 \in DOMAIN q /\ i + 1 # 1
  BY <1>1
<1>3. \A i \in DOMAIN q : i = 1 \/ (i - 1 \in DOMAIN b /\ (i - 1) + 1 = i)
  BY <1>1
<1>4. 1 \in DOMAIN q
  BY <1>1
<1>5. Head(q) \in Range(q)
  BY <1>1, <1>4 DEF Range
<1>6. \A i \in DOMAIN b : b[i] = q[i + 1] /\ b[i] # q[1]
  BY <1>1, <1>2, <1>4 DEF IsInjective
<1>7. Range(b) \subseteq Range(q) \ {q[1]}
  BY <1>2, <1>6 DEF Range
<1>8. Range(q) \ {q[1]} \subseteq Range(b)
  <2>1. SUFFICES ASSUME NEW i \in DOMAIN q, i # 1
                 PROVE  q[i] \in Range(b)
    BY <1>4 DEF Range
  <2>2. i - 1 \in DOMAIN b /\ b[i - 1] = q[i]
    BY <1>3, <1>6, <2>1
  <2>3. QED  BY <2>2 DEF Range
<1>9. IsInjective(b)
  <2>1. SUFFICES ASSUME NEW i \in DOMAIN b, NEW j \in DOMAIN b, b[i] = b[j]
                 PROVE  i = j
    BY DEF IsInjective
  <2>2. i + 1 = j + 1
    BY <1>2, <1>6, <2>1 DEF IsInjective
  <2>3. i \in Int /\ j \in Int
    BY <1>1
  <2>4. QED  BY <2>2, <2>3
<1>10. QED  BY <1>1, <1>5, <1>7, <1>8, <1>9 DEF b

\* A job without a slot is given one and enters the channel.
LEMMA Entered ==
    ASSUME NEW S, NEW q \in Seq(S), NEW x \in S, NEW d, NEW r, NEW p,
           OnePlaceEach(q, d, r, p), x \notin p
    PROVE  OnePlaceEach(Append(q, x), d, r, p \union {x})
<1> DEFINE a == Append(q, x)
<1>1. Range(a) = Range(q) \union {x} /\ IsInjective(a)
  BY AppendFacts DEF OnePlaceEach
<1> HIDE DEF a
<1>2. OnePlaceEach(a, d, r, p \union {x})
  BY <1>1 DEF OnePlaceEach
<1>3. QED  BY <1>2 DEF a

\* The first job passes from the channel to a worker.
LEMMA PassedOn ==
    ASSUME NEW S, NEW q \in Seq(S), q # <<>>, NEW d, NEW r, NEW p, NEW r2, NEW w,
           OnePlaceEach(q, d, r, p), w \notin DOMAIN r,
           DOMAIN r2 = DOMAIN r \union {w}, r2[w] = Head(q), \A v \in DOMAIN r : r2[v] = r[v]
    PROVE  OnePlaceEach(Tail(q), d, r2, p)
<1> DEFINE b == Tail(q)
           h == Head(q)
<1>1. h \in Range(q) /\ Range(b) = Range(q) \ {h} /\ IsInjective(b)
  BY TailFacts DEF OnePlaceEach
<1>2. Range(r2) = Range(r) \union {h}
  BY DEF Range
<1>3. r2[w] = h
  OBVIOUS
<1> HIDE DEF b, h
<1>4. IsInjective(r2)
  <2>1. h \notin Range(r) /\ IsInjective(r)
    BY <1>1 DEF OnePlaceEach
  <2>2. \A v \in DOMAIN r : r2[v] # h
    BY <2>1 DEF Range
  <2>3. QED  BY <1>3, <2>1, <2>2 DEF IsInjective
<1>5. OnePlaceEach(b, d, r2, p)
  BY <1>1, <1>2, <1>4 DEF OnePlaceEach
<1>6. QED  BY <1>5 DEF b

\* The first job passes to a timer, or loses its slot.
LEMMA PutOff ==
    ASSUME NEW S, NEW q \in Seq(S), q # <<>>, NEW d, NEW r, NEW p,
           OnePlaceEach(q, d, r, p)
    PROVE  /\ \A x : x.job = Head(q) => OnePlaceEach(Tail(q), d \union {x}, r, p)
           /\ OnePlaceEach(Tail(q), d, r, p \ {Head(q)})
<1> DEFINE b == Tail(q)
           h == Head(q)
<1>1. h \in Range(q) /\ Range(b) = Range(q) \ {h} /\ IsInjective(b)
  BY TailFacts DEF OnePlaceEach
<1> HIDE DEF b, h
<1>2. ASSUME NEW x, x.job = h
      PROVE  OnePlaceEach(b, d \union {x}, r, p)
  <2>1. {y.job : y \in d \union {x}} = {y.job : y \in d} \union {h}
    BY <1>2
  <2>2. \A y \in d \union {x} : y.job \notin Range(b) \union Range(r)
    BY <1>1, <1>2 DEF OnePlaceEach
  <2>3. \A y, z \in d \union {x} : y.job = z.job => y = z
    BY <1>1, <1>2 DEF OnePlaceEach
  <2>4. QED  BY <1>1, <2>1, <2>2, <2>3 DEF OnePlaceEach
<1>3. OnePlaceEach(b, d, r, p \ {h})
  BY <1>1 DEF OnePlaceEach
<1>4. QED  BY <1>2, <1>3 DEF b, h

\* A timer's job goes back to the channel, or loses its slot.
LEMMA TimedOut ==
    ASSUME NEW S, NEW q \in Seq(S), NEW d, NEW r, NEW p, NEW x \in d, x.job \in S,
           OnePlaceEach(q, d, r, p)
    PROVE  /\ OnePlaceEach(Append(q, x.job), d \ {x}, r, p)
           /\ OnePlaceEach(q, d \ {x}, r, p \ {x.job})
<1> DEFINE a == Append(q, x.job)
<1>1. Range(a) = Range(q) \union {x.job} /\ IsInjective(a)
  BY AppendFacts DEF OnePlaceEach
<1> HIDE DEF a
<1>2. {y.job : y \in d} = {y.job : y \in d \ {x}} \union {x.job}
  OBVIOUS
<1>3. \A y \in d \ {x} : y.job # x.job
  BY DEF OnePlaceEach
<1>4. OnePlaceEach(a, d \ {x}, r, p)
  BY <1>1, <1>2, <1>3 DEF OnePlaceEach
<1>5. OnePlaceEach(q, d \ {x}, r, p \ {x.job})
  BY <1>2, <1>3 DEF OnePlaceEach
<1>6. QED  BY <1>4, <1>5 DEF a

\* A worker is through with its job.
LEMMA Through ==
    ASSUME NEW q, NEW d, NEW r, NEW p, NEW r2, NEW w \in DOMAIN r,
           OnePlaceEach(q, d, r, p),
           DOMAIN r2 = DOMAIN r \ {w}, \A v \in DOMAIN r2 : r2[v] = r[v]
    PROVE  OnePlaceEach(q, d, r2, p \ {r[w]})
<1>1. Range(r) = Range(r2) \union {r[w]} /\ r[w] \notin Range(r2) /\ IsInjective(r2)
  BY DEF OnePlaceEach, IsInjective, Range
<1>2. QED  BY <1>1 DEF OnePlaceEach
\* An injective function has as many values as arguments.
LEMMA InjectiveRange ==
    ASSUME NEW f, NEW D, D = DOMAIN f, IsInjective(f), IsFiniteSet(D)
    PROVE  IsFiniteSet(Range(f)) /\ Cardinality(Range(f)) = Cardinality(D)
<1> DEFINE g == [x \in D |-> f[x]]
<1>1. g \in Bijection(D, Range(f))
  BY DEF Bijection, Injection, Surjection, IsInjective, Range
<1> HIDE DEF g
<1>2. ExistsBijection(D, Range(f))
  BY <1>1 DEF ExistsBijection
<1>3. QED  BY <1>2, FS_Bijection

\* The three places hold as many jobs as there are slots.
LEMMA SlotsAdd ==
    ASSUME NEW S, NEW q \in Seq(S), NEW d, NEW r, NEW p,
           OnePlaceEach(q, d, r, p), IsFiniteSet(p), IsFiniteSet(DOMAIN r)
    PROVE  /\ IsFiniteSet(d)
           /\ Cardinality(p) = Len(q) + Cardinality(d) + Cardinality(DOMAIN r)
<1> DEFINE timed == {x.job : x \in d}
           a == Range(q)
           c == Range(r)
<1>0. Len(q) \in Nat /\ DOMAIN q = 1..Len(q)
  OBVIOUS
<1>1. IsFiniteSet(a) /\ Cardinality(a) = Len(q)
  <2>1. IsFiniteSet(1..Len(q)) /\ Cardinality(1..Len(q)) = Len(q)
    <3>1. 1 \in Int /\ Len(q) \in Int
      BY <1>0
    <3>2. /\ IsFiniteSet(1..Len(q))
          /\ Cardinality(1..Len(q)) = IF 1 > Len(q) THEN 0 ELSE Len(q) - 1 + 1
      BY <3>1, FS_Interval
    <3>3. QED  BY <1>0, <3>2
  <2>2. IsInjective(q)
    BY DEF OnePlaceEach
  <2>3. QED  BY <1>0, <2>1, <2>2, InjectiveRange
<1>2. IsFiniteSet(c) /\ Cardinality(c) = Cardinality(DOMAIN r)
  BY InjectiveRange DEF OnePlaceEach
<1>3. IsFiniteSet(timed)
  <2>1. timed \subseteq p
    BY DEF OnePlaceEach
  <2>2. QED  BY <2>1, FS_Subset
<1>4. IsFiniteSet(d) /\ Cardinality(d) = Cardinality(timed)
  <2> DEFINE g == [x \in d |-> x.job]
  <2>1. g \in Injection(d, timed)
    BY DEF Injection, IsInjective, OnePlaceEach
  <2>2. g \in Surjection(d, timed)
    BY DEF Surjection
  <2> HIDE DEF g, timed
  <2>3. QED  BY <1>3, <2>1, <2>2, FS_Injection
<1>5. a \intersect timed = {} /\ (a \union timed) \intersect c = {} /\ p = (a \union timed) \union c
  BY DEF OnePlaceEach
<1> HIDE DEF a, timed, c
<1>6. IsFiniteSet(a \union timed) /\ Cardinality(a \union timed) = Cardinality(a) + Cardinality(timed) - Cardinality({})
  BY <1>1, <1>3, <1>5, FS_Union
<1>7. Cardinality(p) = Cardinality(a \union timed) + Cardinality(c) - Cardinality({})
  BY <1>2, <1>5, <1>6, FS_Union
<1>8. Cardinality({}) = 0 /\ Cardinality(c) \in Nat /\ Cardinality(timed) \in Nat
  BY <1>2, <1>3, FS_EmptySet, FS_CardinalityType
<1>9. QED  BY <1>0, <1>1, <1>2, <1>4, <1>6, <1>7, <1>8

\* Slots counted by their jobs are the slots counted by the channel, the
\* timers and the workers.
LEMMA SlotsCount == TypeOK /\ ServersInv => SlotsAccounted
<1> SUFFICES ASSUME TypeOK, ServersInv, NEW s \in Servers
             PROVE  /\ pending[s] = Range(jobs[s]) \union {d.job : d \in deferred[s]}
                                      \union {work[w].job : w \in {v \in Staff(s) : Busy(v)}}
                    /\ Cardinality(pending[s]) =
                         Len(jobs[s]) + Cardinality(deferred[s])
                           + Cardinality({w \in Staff(s) : Busy(w)})
                    /\ deferred[s] # {} => Len(jobs[s]) < QueueLimit
  BY DEF SlotsAccounted
<1> DEFINE B == {w \in Staff(s) : Busy(w)}
<1>1. /\ OnePlaceEach(jobs[s], deferred[s], Running(s), pending[s]) /\ IsFiniteSet(pending[s])
      /\ Cardinality(pending[s]) <= QueueLimit /\ jobs[s] \in Seq(Job)
  BY TypeParts DEF ServersInv, SlotInv, QueuesTyped
<1>2. DOMAIN Running(s) = B /\ Range(Running(s)) = {work[w].job : w \in B}
  BY DEF Running, Range
<1>3. IsFiniteSet(B)
  <2>1. B \subseteq Workers
    BY DEF Staff
  <2>2. QED  BY <2>1, SiteIconsAssumption, FS_Subset
<1>4. /\ IsFiniteSet(deferred[s])
      /\ Cardinality(pending[s]) = Len(jobs[s]) + Cardinality(deferred[s]) + Cardinality(B)
  BY <1>1, <1>2, <1>3, SlotsAdd
<1>5. deferred[s] # {} => Len(jobs[s]) < QueueLimit
  <2>1. Cardinality(deferred[s]) \in Nat /\ Cardinality(B) \in Nat /\ Len(jobs[s]) \in Nat
    BY <1>1, <1>3, <1>4, FS_CardinalityType
  <2>2. deferred[s] # {} => Cardinality(deferred[s]) # 0
    BY <1>4, FS_EmptySet
  <2>3. QED  BY <1>1, <1>4, <2>1, <2>2, Numbers
<1>6. pending[s] = Range(jobs[s]) \union {d.job : d \in deferred[s]} \union {work[w].job : w \in B}
  BY <1>1, <1>2 DEF OnePlaceEach
<1>7. QED  BY <1>4, <1>5, <1>6

\* A worker keeps its job, or still has none.
KeepsJob(v) ==
    (Busy(v)' <=> Busy(v)) /\ (Busy(v) => work'[v].job = work[v].job)

\* Nothing moves in process s.
LEMMA SlotsSame ==
    ASSUME NEW s \in Servers, SlotInv(s), jobs'[s] = jobs[s], pending'[s] = pending[s],
           deferred'[s] = deferred[s], \A v \in Staff(s) : KeepsJob(v)
    PROVE  SlotInv(s)'
<1>1. Running(s)' = Running(s)
  BY DEF Running, KeepsJob, Staff
<1>2. QED  BY <1>1 DEF SlotInv

\* Workers learn of a transaction without moving.
LEMMA MarkedKeepsJob ==
    ASSUME NEW v \in Workers, work[v] \in State, NEW w \in Workers, NEW rs, NEW claimed \in BOOLEAN,
           work'[v] = Marked(v, rs, w, claimed)
    PROVE  KeepsJob(v)
  BY MarkedFacts DEF KeepsJob, Busy

\* Fewer jobs have slots.
LEMMA FewerSlots ==
    ASSUME NEW p, NEW x, IsFiniteSet(p), Cardinality(p) <= QueueLimit
    PROVE  IsFiniteSet(p \ {x}) /\ Cardinality(p \ {x}) <= QueueLimit
<1>1. IsFiniteSet(p \ {x}) /\ Cardinality(p \ {x}) <= Cardinality(p)
  BY FS_Subset
<1>2. Cardinality(p) \in Nat /\ Cardinality(p \ {x}) \in Nat
  BY <1>1, FS_CardinalityType
<1>3. QED  BY <1>1, <1>2, Numbers
\* A worker is through with its job, whose slot is free.
LEMMA SlotFreed ==
    ASSUME TypeOK, NEW s \in Servers, SlotInv(s), NEW w \in Workers, Busy(w), work'[w] = Idle,
           \A v \in Workers \ {w} : KeepsJob(v),
           jobs' = jobs, deferred' = deferred,
           pending' = [pending EXCEPT ![Home[w]] = @ \ {work[w].job}]
    PROVE  SlotInv(s)'
<1>1. pending \in [Servers -> SUBSET Job] /\ ~Busy(w)'
  BY TypeParts, IdleTyped DEF QueuesTyped, Busy
<1>2. CASE Home[w] # s
  <2>1. \A v \in Staff(s) : KeepsJob(v)
    BY <1>2 DEF Staff
  <2>2. pending'[s] = pending[s]
    BY <1>1, <1>2
  <2>3. QED  BY <2>1, <2>2, SlotsSame
<1>3. CASE Home[w] = s
  <2> DEFINE r == Running(s)
             r2 == Running(s)'
  <2>1. w \in DOMAIN r /\ r[w] = work[w].job
    BY <1>3 DEF Running, Staff
  <2>2. DOMAIN r2 = DOMAIN r \ {w} /\ \A v \in DOMAIN r2 : r2[v] = r[v]
    BY <1>1, <1>3 DEF Running, Staff, KeepsJob
  <2>3. OnePlaceEach(jobs[s], deferred[s], r, pending[s])
    BY DEF SlotInv
  <2> HIDE DEF r, r2
  <2>4. OnePlaceEach(jobs[s], deferred[s], r2, pending[s] \ {r[w]})
    BY <2>1, <2>2, <2>3, Through
  <2>5. pending'[s] = pending[s] \ {r[w]}
    BY <1>1, <1>3, <2>1
  <2>6. IsFiniteSet(pending'[s]) /\ Cardinality(pending'[s]) <= QueueLimit
    <3>1. IsFiniteSet(pending[s]) /\ Cardinality(pending[s]) <= QueueLimit
      BY DEF SlotInv
    <3> DEFINE p == pending[s]
               x == r[w]
    <3>2. pending'[s] = p \ {x}
      BY <2>5
    <3> HIDE DEF p, x
    <3>3. IsFiniteSet(p) /\ Cardinality(p) <= QueueLimit
      BY <3>1 DEF p
    <3>4. IsFiniteSet(p \ {x}) /\ Cardinality(p \ {x}) <= QueueLimit
      BY <3>3, FewerSlots
    <3>5. QED  BY <3>2, <3>4
  <2>7. QED  BY <2>4, <2>5, <2>6 DEF SlotInv, r2
<1>4. QED  BY <1>2, <1>3

\* A worker receives the first job of the channel.
LEMMA SlotTaken ==
    ASSUME TypeOK, NEW s \in Servers, SlotInv(s), NEW w \in Workers, Take(w)
    PROVE  SlotInv(s)'
<1> DEFINE h == Home[w]
           q == jobs[s]
<1>1. /\ h \in Servers /\ QueuesTyped /\ WorkTyped /\ jobs[h] # <<>> /\ jobs \in [Servers -> Seq(Job)]
      /\ pending \in [Servers -> SUBSET Job]
  BY TypeParts, SiteIconsAssumption DEF QueuesTyped, Take
<1>2. jobs' = [jobs EXCEPT ![h] = Tail(jobs[h])] /\ deferred' = deferred
  BY DEF Take
<1>3. \A v \in Workers \ {w} : KeepsJob(v)
  BY <1>1 DEF Take, KeepsJob, Busy, WorkTyped
<1>4. OnePlaceEach(q, deferred[s], Running(s), pending[s]) /\ q \in Seq(Job)
  BY <1>1 DEF SlotInv
<1>5. CASE life[h] # "up"
  <2>1. work' = work /\ pending' = [pending EXCEPT ![h] = @ \ {Head(jobs[h])}]
    BY <1>5 DEF Take, finish
  <2>2. Running(s)' = Running(s)
    BY <2>1 DEF Running, Busy
  <2>3. CASE h # s
    BY <1>1, <1>2, <2>1, <2>2, <2>3 DEF SlotInv
  <2>4. CASE h = s
    <3>1. OnePlaceEach(Tail(q), deferred[s], Running(s), pending[s] \ {Head(q)})
      BY <1>1, <1>4, <2>4, PutOff
    <3>2. jobs'[s] = Tail(q) /\ pending'[s] = pending[s] \ {Head(q)}
      BY <1>1, <1>2, <2>1, <2>4
    <3>3. IsFiniteSet(pending'[s]) /\ Cardinality(pending'[s]) <= QueueLimit
      BY <3>2, FewerSlots DEF SlotInv
    <3>4. QED  BY <1>2, <2>2, <3>1, <3>2, <3>3 DEF SlotInv
  <2>5. QED  BY <2>3, <2>4
<1>6. CASE life[h] = "up"
  <2>1. pending' = pending
    BY <1>6 DEF Take
  <2>2. ~Busy(w) /\ Busy(w)' /\ work'[w].job = Head(jobs[h])
    <3> DEFINE taken == [Idle EXCEPT !.pc = "claiming", !.job = Head(jobs[h]),
                               !.since = now, !.until = now + DatabaseBudget]
    <3>1. work[w].pc = "idle" /\ work' = [work EXCEPT ![w] = taken]
      BY <1>6 DEF Take
    <3>2. taken.pc = "claiming" /\ taken.job = Head(jobs[h])
      BY DEF Idle
    <3> HIDE DEF taken
    <3>3. work'[w] = taken
      BY <1>1, <3>1 DEF WorkTyped
    <3>4. QED  BY <3>1, <3>2, <3>3 DEF Busy
  <2>3. CASE h # s
    <3>1. \A v \in Staff(s) : KeepsJob(v)
      BY <1>3, <2>3 DEF Staff
    <3>2. jobs'[s] = jobs[s]
      BY <1>1, <1>2, <2>3
    <3>3. QED  BY <1>2, <2>1, <3>1, <3>2, SlotsSame
  <2>4. CASE h = s
    <3> DEFINE r == Running(s)
               r2 == Running(s)'
    <3>1. w \notin DOMAIN r /\ DOMAIN r2 = DOMAIN r \union {w}
      BY <1>3, <2>2, <2>4 DEF Running, Staff, KeepsJob
    <3>2. r2[w] = Head(q) /\ \A v \in DOMAIN r : r2[v] = r[v]
      BY <1>3, <2>2, <2>4 DEF Running, Staff, KeepsJob
    <3> HIDE DEF r2
    <3>3. OnePlaceEach(Tail(q), deferred[s], r2, pending[s])
      <4> HIDE DEF r
      <4>1. OnePlaceEach(q, deferred[s], r, pending[s])
        BY <1>4 DEF r
      <4>2. q # <<>>
        BY <1>1, <2>4
      <4>3. QED  BY <1>4, <3>1, <3>2, <4>1, <4>2, PassedOn
    <3>4. jobs'[s] = Tail(q)
      BY <1>1, <1>2, <2>4
    <3>5. QED  BY <1>2, <2>1, <3>3, <3>4 DEF SlotInv, r2
  <2>5. QED  BY <2>3, <2>4
<1>7. QED  BY <1>5, <1>6

\* Requests and timers of a process, with workers standing by.
LEMMA SlotMoves ==
    ASSUME TypeOK, NEW s \in Servers, SlotInv(s), NEW z \in Servers,
           Enqueue(z) \/ Return(z) \/ Abandon(z)
    PROVE  SlotInv(s)'
<1>0. /\ jobs \in [Servers -> Seq(Job)] /\ pending \in [Servers -> SUBSET Job]
      /\ deferred \in [Servers -> SUBSET [job : Job, at : Nat]] /\ jobs[s] \in Seq(Job)
  BY TypeParts DEF QueuesTyped
<1>1. Running(s)' = Running(s)
  BY DEF Enqueue, Return, Abandon, Running, Busy
<1>2. CASE z # s
  <2>1. jobs'[s] = jobs[s] /\ pending'[s] = pending[s] /\ deferred'[s] = deferred[s]
    BY <1>0, <1>2 DEF Enqueue, Return, Abandon, finish
  <2>2. QED  BY <1>1, <2>1 DEF SlotInv
<1>3. CASE z = s /\ Enqueue(z)
  <2> DEFINE x == reader[s]
  <2>1. x \in Job /\ x \notin pending[s] /\ Cardinality(pending[s]) < QueueLimit
    BY <1>3 DEF Enqueue, Room
  <2>2. /\ jobs'[s] = Append(jobs[s], x) /\ pending'[s] = pending[s] \union {x}
        /\ deferred'[s] = deferred[s]
    BY <1>0, <1>3 DEF Enqueue
  <2>3. OnePlaceEach(Append(jobs[s], x), deferred[s], Running(s), pending[s] \union {x})
    BY <1>0, <2>1, Entered DEF SlotInv
  <2>4. IsFiniteSet(pending'[s]) /\ Cardinality(pending'[s]) <= QueueLimit
    <3>1. IsFiniteSet(pending[s]) /\ Cardinality(pending[s]) \in Nat
      BY FS_CardinalityType DEF SlotInv
    <3> DEFINE p == pending[s]
    <3> HIDE DEF x
    <3>2. IsFiniteSet(p \union {x}) /\ Cardinality(p \union {x}) = Cardinality(p) + 1
      <4>1. x \notin p /\ IsFiniteSet(p)
        BY <2>1, <3>1
      <4> HIDE DEF p
      <4>2. QED  BY <4>1, FS_AddElement
    <3>3. QED  BY <2>1, <2>2, <3>1, <3>2, Numbers
  <2>5. QED  BY <1>1, <2>2, <2>3, <2>4 DEF SlotInv
<1>4. CASE z = s /\ Return(z)
  <2>1. PICK d \in deferred[s] :
          /\ deferred' = [deferred EXCEPT ![s] = @ \ {d}]
          /\ jobs' = [jobs EXCEPT ![s] = Append(@, d.job)]
          /\ pending' = pending
    BY <1>4 DEF Return
  <2>2. d.job \in Job
    BY <1>0, <2>1
  <2>3. OnePlaceEach(Append(jobs[s], d.job), deferred[s] \ {d}, Running(s), pending[s])
    BY <1>0, <2>1, <2>2, TimedOut DEF SlotInv
  <2>4. jobs'[s] = Append(jobs[s], d.job) /\ deferred'[s] = deferred[s] \ {d}
    BY <1>0, <2>1
  <2>5. QED  BY <1>1, <2>1, <2>3, <2>4 DEF SlotInv
<1>5. CASE z = s /\ Abandon(z)
  <2>1. PICK d \in deferred[s] :
          /\ deferred' = [deferred EXCEPT ![s] = @ \ {d}]
          /\ pending' = [pending EXCEPT ![s] = @ \ {d.job}]
          /\ jobs' = jobs
    BY <1>5 DEF Abandon, finish
  <2>2. d.job \in Job
    BY <1>0, <2>1
  <2>3. OnePlaceEach(jobs[s], deferred[s] \ {d}, Running(s), pending[s] \ {d.job})
    BY <1>0, <2>1, <2>2, TimedOut DEF SlotInv
  <2>4. pending'[s] = pending[s] \ {d.job} /\ deferred'[s] = deferred[s] \ {d}
    BY <1>0, <2>1
  <2>5. IsFiniteSet(pending'[s]) /\ Cardinality(pending'[s]) <= QueueLimit
    <3>1. IsFiniteSet(pending[s]) /\ Cardinality(pending[s]) <= QueueLimit
      BY DEF SlotInv
    <3> DEFINE p == pending[s]
               x == d.job
    <3>2. pending'[s] = p \ {x}
      BY <2>4
    <3> HIDE DEF p, x
    <3>3. IsFiniteSet(p) /\ Cardinality(p) <= QueueLimit
      BY <3>1 DEF p
    <3>4. IsFiniteSet(p \ {x}) /\ Cardinality(p \ {x}) <= QueueLimit
      BY <3>3, FewerSlots
    <3>5. QED  BY <3>2, <3>4
  <2>6. QED  BY <1>1, <2>1, <2>3, <2>4, <2>5 DEF SlotInv
<1>6. QED  BY <1>2, <1>3, <1>4, <1>5
\* The limiter is full: the first job waits for a timer.
LEMMA SlotDeferred ==
    ASSUME TypeOK, NEW s \in Servers, SlotInv(s), NEW w \in Workers, Defer(w)
    PROVE  SlotInv(s)'
<1> DEFINE h == Home[w]
           q == jobs[s]
<1>1. /\ h \in Servers /\ jobs[h] # <<>> /\ jobs \in [Servers -> Seq(Job)]
      /\ deferred \in [Servers -> SUBSET [job : Job, at : Nat]]
  BY TypeParts, SiteIconsAssumption DEF QueuesTyped, Defer
<1> DEFINE x == [job |-> Head(jobs[h]), at |-> activeRateHits(hits[h], now)[1] + Window]
<1>2. /\ x.job = Head(jobs[h])
      /\ jobs' = [jobs EXCEPT ![h] = Tail(@)]
      /\ deferred' = [deferred EXCEPT ![h] = @ \union {x}]
      /\ pending' = pending /\ work' = work
  BY DEF Defer
<1> HIDE DEF x
<1>3. Running(s)' = Running(s)
  BY <1>2 DEF Running, Busy
<1>4. OnePlaceEach(q, deferred[s], Running(s), pending[s]) /\ q \in Seq(Job)
  BY <1>1 DEF SlotInv
<1>5. CASE h # s
  BY <1>1, <1>2, <1>3, <1>5 DEF SlotInv
<1>6. CASE h = s
  <2>1. OnePlaceEach(Tail(q), deferred[s] \union {x}, Running(s), pending[s])
    BY <1>1, <1>2, <1>4, <1>6, PutOff
  <2>2. jobs'[s] = Tail(q) /\ deferred'[s] = deferred[s] \union {x}
    BY <1>1, <1>2, <1>6
  <2>3. QED  BY <1>2, <1>3, <2>1, <2>2 DEF SlotInv
<1>7. QED  BY <1>5, <1>6

\* Without jobs, timers and busy workers no slot is needed.
LEMMA SlotsEmpty ==
    ASSUME NEW r, DOMAIN r = {}
    PROVE  OnePlaceEach(<<>>, {}, r, {}) /\ IsFiniteSet({}) /\ Cardinality({}) <= QueueLimit
<1>1. Range(r) = {} /\ IsInjective(r)
  BY DEF Range, IsInjective
<1>2. Range(<<>>) = {} /\ IsInjective(<<>>)
  BY DEF Range, IsInjective
<1>3. IsFiniteSet({}) /\ Cardinality({}) <= QueueLimit
  BY FS_EmptySet, Numbers
<1>4. QED  BY <1>1, <1>2, <1>3 DEF OnePlaceEach

\* The slots' part of the invariant is kept by every step.
LEMMA NextSlots ==
    ASSUME TypeOK, [Next]_vars, NEW s \in Servers, SlotInv(s)
    PROVE  SlotInv(s)'
<1>0. WorkTyped /\ QueuesTyped
  BY TypeParts
<1>1. ASSUME NEW z \in Servers,
             (\E k \in Sites : View(z, k)) \/ Decline(z) \/ Close(z) \/ Boot(z)
      PROVE  SlotInv(s)'
  <2>1. jobs' = jobs /\ pending' = pending /\ deferred' = deferred /\ work' = work
    BY <1>1 DEF View, Decline, Close, Boot
  <2>2. QED  BY <2>1, SlotsSame DEF KeepsJob, Busy
<1>2. ASSUME NEW z \in Servers, Enqueue(z) \/ Return(z) \/ Abandon(z)
      PROVE  SlotInv(s)'
  BY <1>2, SlotMoves
<1>3. ASSUME NEW z \in Servers, Forget(z)
      PROVE  SlotInv(s)'
  <2>1. CASE z = s
    <3>1. jobs'[s] = <<>> /\ deferred'[s] = {} /\ pending'[s] = {}
      BY <1>0, <1>3, <2>1 DEF Forget, QueuesTyped
    <3>2. \A v \in Staff(s) : ~Busy(v)'
      BY <1>3, <2>1, IdleTyped DEF Forget, Staff, Busy
    <3>3. DOMAIN Running(s)' = {}
      BY <3>2 DEF Running, Staff
    <3>4. QED  BY <3>1, <3>3, SlotsEmpty DEF SlotInv
  <2>2. CASE z # s
    <3>1. jobs'[s] = jobs[s] /\ deferred'[s] = deferred[s] /\ pending'[s] = pending[s]
      BY <1>0, <1>3, <2>2 DEF Forget, QueuesTyped
    <3>2. \A v \in Staff(s) : work'[v] = work[v]
      BY <1>3, <2>2 DEF Forget, Staff
    <3>3. QED  BY <3>1, <3>2, SlotsSame DEF KeepsJob, Busy
  <2>3. QED  BY <2>1, <2>2
<1>4. ASSUME NEW w \in Workers, Leave(w) \/ Fetch(w)
      PROVE  SlotInv(s)'
  <2>1. /\ jobs' = jobs /\ pending' = pending /\ deferred' = deferred
        /\ \/ work[w].pc = "idle" /\ work' = [work EXCEPT ![w].pc = "gone"]
           \/ /\ work[w].pc = "fetching"
              /\ \E result, end : work' = [work EXCEPT ![w].pc = "completing", ![w].icon = result,
                                               ![w].attempted = now, ![w].until = end]
    BY <1>4 DEF Leave, Fetch
  <2>2. \A v \in Workers : KeepsJob(v)
    <3>1. CASE work[w].pc = "idle" /\ work' = [work EXCEPT ![w].pc = "gone"]
      BY <1>0, <3>1 DEF KeepsJob, Busy, WorkTyped, State
    <3>2. ASSUME NEW result, NEW end, work[w].pc = "fetching",
                 work' = [work EXCEPT ![w].pc = "completing", ![w].icon = result,
                                      ![w].attempted = now, ![w].until = end]
          PROVE  \A v \in Workers : KeepsJob(v)
      BY <1>0, <3>2 DEF KeepsJob, Busy, WorkTyped, State
    <3>3. QED  BY <2>1, <3>1, <3>2
  <2>3. QED  BY <2>1, <2>2, SlotsSame DEF Staff
<1>5. ASSUME NEW w \in Workers, Claim(w)
      PROVE  SlotInv(s)'
  <2>1. jobs' = jobs /\ pending' = pending /\ deferred' = deferred
    BY <1>5 DEF Claim
  <2>2. KeepsJob(w)
    <3>1. work[w].pc = "claiming" /\ work[w] \in State
      BY <1>0, <1>5 DEF Claim, WorkTyped
    <3>2. work'[w] = [work[w] EXCEPT !.pc = "fetching", !.until = now + FetchBudget,
                                     !.evicted = work[w].job.site \notin DOMAIN rows']
      BY <1>5 DEF Claim
    <3>3. QED  BY <3>1, <3>2 DEF KeepsJob, Busy, State
  <2>3. ASSUME NEW v \in Workers \ {w}
        PROVE  KeepsJob(v)
    <3>1. work'[v] = Marked(v, rows', w, TRUE) /\ work[v] \in State
      BY <1>0, <1>5 DEF Claim, WorkTyped
    <3>2. QED  BY <3>1, MarkedKeepsJob
  <2>4. QED  BY <2>1, <2>2, <2>3, SlotsSame DEF Staff
<1>6. ASSUME NEW w \in Workers, ClaimNothing(w) \/ GiveUp(w)
      PROVE  SlotInv(s)'
  <2>1. /\ jobs' = jobs /\ deferred' = deferred /\ Busy(w)
        /\ pending' = [pending EXCEPT ![Home[w]] = @ \ {work[w].job}]
        /\ work' = [work EXCEPT ![w] = Idle]
    BY <1>6 DEF ClaimNothing, GiveUp, Refused, finish, Busy
  <2>2. work'[w] = Idle /\ \A v \in Workers \ {w} : KeepsJob(v)
    BY <1>0, <2>1 DEF KeepsJob, Busy, WorkTyped
  <2>3. QED  BY <2>1, <2>2, SlotFreed
<1>7. ASSUME NEW w \in Workers, ClaimUnanswered(w) \/ Complete(w)
      PROVE  SlotInv(s)'
  <2>1. /\ jobs' = jobs /\ deferred' = deferred /\ Busy(w) /\ work'[w] = Idle
        /\ pending' = [pending EXCEPT ![Home[w]] = @ \ {work[w].job}]
    BY <1>7 DEF ClaimUnanswered, Complete, Refused, finish, Busy
  <2>2. ASSUME NEW v \in Workers \ {w}
        PROVE  KeepsJob(v)
    <3>1. work[v] \in State /\ \E claimed \in BOOLEAN : work'[v] = Marked(v, rows', w, claimed)
      BY <1>0, <1>7 DEF ClaimUnanswered, Complete, WorkTyped
    <3>2. QED  BY <3>1, MarkedKeepsJob
  <2>3. QED  BY <2>1, <2>2, SlotFreed
<1>8. ASSUME NEW k \in Sites, Corrupt(k)
      PROVE  SlotInv(s)'
  BY <1>8, SlotsSame DEF Corrupt, process, KeepsJob, Busy
<1>9. CASE Tick
  <2>1. jobs' = jobs /\ pending' = pending /\ deferred' = deferred
    BY <1>9 DEF Tick
  <2>2. \A v \in Workers : work'[v].pc = work[v].pc /\ work'[v].job = work[v].job
    BY <1>0, <1>9 DEF Tick, WorkTyped, State
  <2>3. QED  BY <2>1, <2>2, SlotsSame DEF KeepsJob, Busy, Staff
<1>10. CASE UNCHANGED vars
  BY <1>10, SlotsSame DEF vars, KeepsJob, Busy
<1>11. QED
  BY <1>1, <1>2, <1>3, <1>4, <1>5, <1>6, <1>7, <1>8, <1>9, <1>10, SlotTaken, SlotDeferred
     DEF Next, ServerStep, Closed, Kill, Refresh
-----------------------------------------------------------------------------
(* The limiter.                                                            *)

\* Positions of a sequence are finitely many, at most its length.
LEMMA AfterFinite ==
    ASSUME NEW q \in Seq(Nat), NEW t \in Int
    PROVE  /\ IsFiniteSet(After(q, t)) /\ After(q, t) \subseteq 1..Len(q)
           /\ Cardinality(After(q, t)) \in Nat /\ Cardinality(After(q, t)) <= Len(q)
<1> DEFINE n == Len(q)
           A == After(q, t)
<1>1. n \in Nat /\ A \subseteq 1..n
  BY DEF After
<1> HIDE DEF n, A
<1>2. IsFiniteSet(1..n) /\ Cardinality(1..n) = IF 1 > n THEN 0 ELSE n - 1 + 1
  BY <1>1, FS_Interval
<1>3. IsFiniteSet(A) /\ Cardinality(A) <= Cardinality(1..n)
  BY <1>1, <1>2, FS_Subset
<1>4. Cardinality(A) \in Nat
  BY <1>3, FS_CardinalityType
<1>5. Cardinality(A) <= n
  BY <1>1, <1>2, <1>3, <1>4
<1>6. QED  BY <1>1, <1>3, <1>4, <1>5 DEF n, A

\* As many positions after a renumbering.
LEMMA Renumbered ==
    ASSUME NEW S, NEW T, IsFiniteSet(S), NEW f \in [S -> T],
           \A i, j \in S : f[i] = f[j] => i = j, \A y \in T : \E i \in S : f[i] = y
    PROVE  Cardinality(T) = Cardinality(S)
<1>1. f \in Bijection(S, T)
  BY DEF Bijection, Injection, Surjection, IsInjective
<1>2. ExistsBijection(S, T)
  BY <1>1 DEF ExistsBijection
<1>3. QED  BY <1>2, FS_Bijection

\* What a reservation adds to the count.
LEMMA AfterAppend ==
    ASSUME NEW q \in Seq(Nat), NEW x \in Nat, NEW t \in Int
    PROVE  Cardinality(After(Append(q, x), t)) = Cardinality(After(q, t)) + (IF x > t THEN 1 ELSE 0)
<1> DEFINE n == Len(q)
           a == Append(q, x)
           A == After(q, t)
<1>1. /\ n \in Nat /\ DOMAIN q = 1..n /\ DOMAIN a = 1..(n + 1)
      /\ \A i \in 1..n : a[i] = q[i]
      /\ a[n + 1] = x
  OBVIOUS
<1>2. IsFiniteSet(A) /\ A \subseteq 1..n /\ Cardinality(A) \in Nat
  BY AfterFinite
<1>3. After(a, t) = A \union (IF x > t THEN {n + 1} ELSE {})
  <2> HIDE DEF n, a
  <2>1. 1..(n + 1) = 1..n \union {n + 1}
    BY <1>1
  <2>2. After(a, t) = {i \in 1..n : a[i] > t} \union {i \in {n + 1} : a[i] > t}
    BY <1>1, <2>1 DEF After
  <2>3. {i \in 1..n : a[i] > t} = A
    BY <1>1 DEF After
  <2>4. {i \in {n + 1} : a[i] > t} = IF x > t THEN {n + 1} ELSE {}
    BY <1>1
  <2>5. QED  BY <2>2, <2>3, <2>4
<1> HIDE DEF A, a, n
<1>4. CASE x > t
  <2>1. n + 1 \notin A
    BY <1>1, <1>2
  <2>2. After(a, t) = A \union {n + 1}
    BY <1>3, <1>4
  <2> DEFINE m == n + 1
  <2> HIDE DEF m
  <2>3. Cardinality(A \union {m}) = Cardinality(A) + 1
    BY <1>2, <2>1, FS_AddElement DEF m
  <2>4. QED  BY <1>2, <1>4, <2>2, <2>3 DEF m, A, a
<1>5. CASE ~ (x > t)
  BY <1>2, <1>3, <1>5 DEF A, a
<1>6. QED  BY <1>4, <1>5

\* What leaves the window was not counted within it.
LEMMA AfterActive ==
    ASSUME NEW q \in Seq(Nat), NEW u \in Nat, NEW t \in Int, t >= u - Window
    PROVE  Cardinality(After(activeRateHits(q, u), t)) = Cardinality(After(q, t))
<1> DEFINE b == activeRateHits(q, u)
           n == Len(q)
           A == After(q, t)
           B == After(b, t)
<1>1. PICK d \in 0..n :
         /\ b \in Seq(Nat) /\ Len(b) = n - d
         /\ \A i \in 1..(n - d) : b[i] = q[i + d]
         /\ \A i \in 1..d : q[i] <= u - Window
  BY ActiveIsSuffix
<1>2. n \in Nat /\ DOMAIN q = 1..n /\ \A i \in 1..n : q[i] \in Nat
  OBVIOUS
<1> HIDE DEF b, n
<1>3. DOMAIN b = 1..(n - d)
  BY <1>1
<1>4. \A i \in A : i \in 1..n /\ q[i] > t /\ i > d
  <2>1. SUFFICES ASSUME NEW i \in A, i <= d
                 PROVE  FALSE
    BY <1>1, <1>2 DEF After
  <2>2. i \in 1..d /\ q[i] > t /\ q[i] \in Nat
    BY <1>1, <1>2, <2>1 DEF After
  <2>3. q[i] <= u - Window
    BY <1>1, <2>2
  <2>4. QED  BY <2>2, <2>3, Numbers
<1>5. IsFiniteSet(B)
  BY <1>1, AfterFinite
<1> DEFINE f == [i \in B |-> i + d]
<1>6. f \in [B -> A]
  <2>1. ASSUME NEW i \in B
        PROVE  i + d \in A
    <3>1. i \in 1..(n - d) /\ b[i] > t
      BY <1>3 DEF After
    <3>2. i + d \in 1..n /\ q[i + d] > t
      BY <1>1, <1>2, <3>1
    <3>3. QED  BY <1>2, <3>2 DEF After
  <2>2. QED  BY <2>1
<1>7. \A i, j \in B : f[i] = f[j] => i = j
  <2>1. B \subseteq Int
    BY <1>3 DEF After
  <2>2. QED  BY <1>1, <2>1
<1>8. \A y \in A : \E i \in B : f[i] = y
  <2>1. SUFFICES ASSUME NEW y \in A
                 PROVE  y - d \in B /\ f[y - d] = y
    OBVIOUS
  <2>2. y \in 1..n /\ q[y] > t /\ y > d
    BY <1>4
  <2>3. y - d \in 1..(n - d) /\ (y - d) + d = y
    BY <1>1, <1>2, <2>2
  <2>4. b[y - d] > t
    BY <1>1, <2>2, <2>3
  <2>5. QED  BY <1>3, <2>3, <2>4 DEF After
<1> HIDE DEF f, A, B
<1>9. Cardinality(A) = Cardinality(B)
  BY <1>5, <1>6, <1>7, <1>8, Renumbered
<1>10. QED  BY <1>9 DEF A, B, b

\* What a refund takes from the count: one, if it was made after t, or none.
LEMMA AfterRefund ==
    ASSUME NEW q \in Seq(Nat), NEW u \in Nat, NEW t \in Int
    PROVE  /\ Cardinality(After(refund(q, u), t)) <= Cardinality(After(q, t))
           /\ Cardinality(After(refund(q, u), t)) + (IF u > t THEN 1 ELSE 0) >= Cardinality(After(q, t))
<1> DEFINE b == refund(q, u)
           n == Len(q)
           A == After(q, t)
           B == After(b, t)
<1>1. /\ b \in Seq(Nat)
      /\ \/ b = q
         \/ \E m \in 1..n :
              /\ q[m] = u
              /\ Len(b) = n - 1
              /\ \A i \in 1..(n - 1) : b[i] = IF i < m THEN q[i] ELSE q[i + 1]
  BY RefundRemovesOne
<1>2. n \in Nat /\ DOMAIN q = 1..n /\ \A i \in 1..n : q[i] \in Nat
  OBVIOUS
<1>3. IsFiniteSet(A) /\ Cardinality(A) \in Nat /\ IsFiniteSet(B) /\ Cardinality(B) \in Nat
  BY <1>1, AfterFinite
<1>4. CASE b = q
  BY <1>3, <1>4
<1>5. ASSUME NEW m \in 1..n, q[m] = u, Len(b) = n - 1,
             \A i \in 1..(n - 1) : b[i] = IF i < m THEN q[i] ELSE q[i + 1]
      PROVE  Cardinality(B) <= Cardinality(A) /\ Cardinality(B) + (IF u > t THEN 1 ELSE 0) >= Cardinality(A)
  <2> HIDE DEF b, n
  <2>1. DOMAIN b = 1..(n - 1)
    BY <1>1, <1>2, <1>5
  <2> DEFINE f == [i \in B |-> IF i < m THEN i ELSE i + 1]
             R == A \ {m}
  <2>2. f \in [B -> R]
    <3>1. ASSUME NEW i \in B
          PROVE  (IF i < m THEN i ELSE i + 1) \in R
      <4>1. i \in 1..(n - 1) /\ b[i] > t
        BY <2>1 DEF After
      <4>2. CASE i < m
        <5>1. i \in 1..n /\ q[i] > t /\ i # m
          BY <1>2, <1>5, <4>1, <4>2
        <5>2. QED  BY <1>2, <4>2, <5>1 DEF After
      <4>3. CASE ~ (i < m)
        <5>1. i + 1 \in 1..n /\ q[i + 1] > t /\ i + 1 # m
          BY <1>2, <1>5, <4>1, <4>3
        <5>2. QED  BY <1>2, <4>3, <5>1 DEF After
      <4>4. QED  BY <4>2, <4>3
    <3>2. QED  BY <3>1
  <2>3. \A i, j \in B : f[i] = f[j] => i = j
    <3>1. B \subseteq Int /\ m \in Int
      BY <2>1, <1>2 DEF After
    <3>2. QED  BY <3>1
  <2>4. \A y \in R : \E i \in B : f[i] = y
    <3>1. SUFFICES ASSUME NEW y \in R
                   PROVE  \E i \in B : f[i] = y
      OBVIOUS
    <3>2. y \in 1..n /\ q[y] > t /\ y # m
      BY <1>2 DEF After
    <3>3. CASE y < m
      <4>1. y \in 1..(n - 1) /\ b[y] = q[y]
        BY <1>2, <1>5, <3>2, <3>3
      <4>2. y \in B
        BY <2>1, <3>2, <4>1 DEF After
      <4>3. QED  BY <3>3, <4>2
    <3>4. CASE ~ (y < m)
      <4>1. /\ y - 1 \in 1..(n - 1) /\ ~ (y - 1 < m) /\ (y - 1) + 1 = y
        BY <1>2, <3>2, <3>4
      <4>2. b[y - 1] = q[y]
        BY <1>5, <4>1
      <4>3. y - 1 \in B
        BY <2>1, <3>2, <4>1, <4>2 DEF After
      <4>4. f[y - 1] = y
        BY <4>1, <4>3
      <4>5. QED  BY <4>3, <4>4
    <3>5. QED  BY <3>3, <3>4
  <2> HIDE DEF f, B
  <2>5. Cardinality(R) = Cardinality(B)
    <3> HIDE DEF R
    <3>1. QED  BY <1>3, <2>2, <2>3, <2>4, Renumbered
  <2>6. m \in A <=> u > t
    BY <1>2, <1>5 DEF After
  <2> HIDE DEF A
  <2>7. Cardinality(R) = IF m \in A THEN Cardinality(A) - 1 ELSE Cardinality(A)
    BY <1>3, FS_RemoveElement
  <2> HIDE DEF R
  <2>8. QED  BY <1>3, <2>5, <2>6, <2>7
<1>6. QED  BY <1>1, <1>4, <1>5

\* The workers about to claim can be counted.
LEMMA ClaimingFinite ==
    ASSUME NEW s \in Servers, NEW t \in Int
    PROVE  IsFiniteSet(ClaimingAfter(s, t)) /\ Cardinality(ClaimingAfter(s, t)) \in Nat
<1>1. ClaimingAfter(s, t) \subseteq Workers
  BY DEF ClaimingAfter, Staff
<1>2. IsFiniteSet(ClaimingAfter(s, t))
  BY <1>1, SiteIconsAssumption, FS_Subset
<1>3. QED  BY <1>2, FS_CardinalityType

\* A worker about to claim stays so, and nobody joins it.
KeepsClaim(v) ==
    /\ work'[v].pc = "claiming" <=> work[v].pc = "claiming"
    /\ work[v].pc = "claiming" => work'[v].since = work[v].since

\* The window, the reservations and their claims in numbers: RateInv from t on.
RateAt(s, t) ==
    Cardinality(After(starts[s], t)) + Cardinality(ClaimingAfter(s, t)) <= Cardinality(After(hits[s], t))

\* RateInv in terms of RateAt.
LEMMA RateParts ==
    \A s \in Servers : RateInv(s) <=>
        /\ Cardinality(After(hits[s], now - Window)) <= RateLimit
        /\ \A t \in (now - Window)..MaxTime : RateAt(s, t)
  BY DEF RateInv, RateAt

\* What is known of a process when its limiter is used.
RateFacts(s) ==
    /\ hits \in [Servers -> Seq(Nat)] /\ starts \in [Servers -> Seq(Nat)]
    /\ hits[s] \in Seq(Nat) /\ starts[s] \in Seq(Nat) /\ now \in Nat /\ now <= MaxTime
    /\ now - Window \in Int /\ now - Window \in (now - Window)..MaxTime
    /\ \A t \in Int : /\ Cardinality(After(hits[s], t)) \in Nat
                      /\ Cardinality(After(starts[s], t)) \in Nat
                      /\ Cardinality(ClaimingAfter(s, t)) \in Nat

\* TypeOK gives all of it.
LEMMA RateTyped ==
    ASSUME TypeOK, NEW s \in Servers
    PROVE  RateFacts(s)
<1>1. /\ hits \in [Servers -> Seq(Nat)] /\ starts \in [Servers -> Seq(Nat)] /\ now \in Nat /\ now <= MaxTime
  BY TypeParts, Numbers DEF QueuesTyped, TimesTyped
<1>2. now - Window \in Int /\ now - Window \in (now - Window)..MaxTime
  BY <1>1, Numbers
<1>3. ASSUME NEW t \in Int
      PROVE  /\ Cardinality(After(hits[s], t)) \in Nat
             /\ Cardinality(After(starts[s], t)) \in Nat
             /\ Cardinality(ClaimingAfter(s, t)) \in Nat
  <2>1. hits[s] \in Seq(Nat) /\ starts[s] \in Seq(Nat)
    BY <1>1
  <2>2. QED  BY <2>1, AfterFinite, ClaimingFinite
<1>4. hits[s] \in Seq(Nat) /\ starts[s] \in Seq(Nat)
  BY <1>1
<1>5. QED  BY <1>1, <1>2, <1>3, <1>4 DEF RateFacts

\* The limiter of s is not used.
LEMMA RateSame ==
    ASSUME NEW s \in Servers, RateInv(s), hits'[s] = hits[s], starts'[s] = starts[s], now' = now,
           \A v \in Staff(s) : KeepsClaim(v)
    PROVE  RateInv(s)'
<1>1. ASSUME NEW t \in Int
      PROVE  ClaimingAfter(s, t)' = ClaimingAfter(s, t)
  BY DEF ClaimingAfter, KeepsClaim, Staff
<1>2. \A t \in (now - Window)..MaxTime : ClaimingAfter(s, t)' = ClaimingAfter(s, t)
  BY <1>1
<1>3. QED  BY <1>2 DEF RateInv, After

\* A worker reserves: one more reservation, and one more about to claim.
LEMMA Reserved ==
    ASSUME TypeOK, NEW w \in Workers, RateInv(Home[w]), Take(w), life[Home[w]] = "up"
    PROVE  RateInv(Home[w])'
<1> DEFINE s == Home[w]
           active == activeRateHits(hits[s], now)
<1>0. s \in Servers
  BY SiteIconsAssumption
<1>1. RateFacts(s) /\ WorkTyped
  BY <1>0, RateTyped, TypeParts
<1>2. /\ hits'[s] = Append(active, now) /\ starts' = starts /\ now' = now
      /\ Len(active) < RateLimit /\ work[w].pc = "idle"
  BY <1>0, <1>1 DEF Take, Allowed, RateFacts
<1>3. active \in Seq(Nat)
  BY <1>1, ActiveIsSuffix DEF RateFacts
<1>4. work'[w].pc = "claiming" /\ work'[w].since = now /\ \A v \in Workers \ {w} : work'[v] = work[v]
  <2> DEFINE taken == [Idle EXCEPT !.pc = "claiming", !.job = Head(jobs[s]),
                                   !.since = now, !.until = now + DatabaseBudget]
  <2>1. work' = [work EXCEPT ![w] = taken]
    BY DEF Take
  <2>2. taken.pc = "claiming" /\ taken.since = now
    BY DEF Idle
  <2> HIDE DEF taken
  <2>3. QED  BY <1>1, <2>1, <2>2 DEF WorkTyped
<1> HIDE DEF active
<1>5. Cardinality(After(hits'[s], now - Window)) <= RateLimit
  <2>1. /\ Append(active, now) \in Seq(Nat) /\ Len(Append(active, now)) = Len(active) + 1
        /\ Len(active) \in Nat
    BY <1>1, <1>3 DEF RateFacts
  <2> DEFINE b == Append(active, now)
  <2> HIDE DEF b
  <2>2. Cardinality(After(b, now - Window)) <= Len(b) /\ Cardinality(After(b, now - Window)) \in Nat
    BY <1>1, <2>1, AfterFinite DEF b, RateFacts
  <2>3. Len(b) <= RateLimit
    BY <1>2, <2>1, Numbers DEF b
  <2>4. QED  BY <1>2, <2>1, <2>2, <2>3, Numbers DEF b
<1>6. ASSUME NEW t \in (now - Window)..MaxTime
      PROVE  RateAt(s, t)'
  <2>0. t \in Int /\ t >= now - Window
    BY <1>1 DEF RateFacts
  <2>1. RateAt(s, t)
    BY <1>0, RateParts
  <2>2. Cardinality(After(active, t)) = Cardinality(After(hits[s], t))
    BY <1>1, <2>0, AfterActive DEF active, RateFacts
  <2>3. Cardinality(After(hits'[s], t)) = Cardinality(After(hits[s], t)) + (IF now > t THEN 1 ELSE 0)
    <3>1. now \in Nat
      BY <1>1 DEF RateFacts
    <3>2. Cardinality(After(Append(active, now), t)) = Cardinality(After(active, t)) + (IF now > t THEN 1 ELSE 0)
      BY <1>3, <2>0, <3>1, AfterAppend
    <3>3. QED  BY <1>2, <2>2, <3>2
  <2> DEFINE C == ClaimingAfter(s, t)
  <2>4. ClaimingAfter(s, t)' = C \union (IF now > t THEN {w} ELSE {})
    BY <1>2, <1>4 DEF ClaimingAfter, Staff
  <2>5. w \notin C /\ IsFiniteSet(C) /\ Cardinality(C) \in Nat
    BY <1>0, <1>2, <2>0, ClaimingFinite DEF ClaimingAfter
  <2> HIDE DEF C
  <2>6. Cardinality(ClaimingAfter(s, t)') = Cardinality(C) + (IF now > t THEN 1 ELSE 0)
    <3>1. CASE now > t
      <4>1. Cardinality(C \union {w}) = Cardinality(C) + 1
        BY <2>5, FS_AddElement
      <4>2. QED  BY <2>4, <3>1, <4>1
    <3>2. CASE ~ (now > t)
      BY <2>4, <2>5, <3>2
    <3>3. QED  BY <3>1, <3>2
  <2>7. /\ Cardinality(After(starts[s], t)) \in Nat /\ Cardinality(After(hits[s], t)) \in Nat
        /\ starts'[s] = starts[s]
    BY <1>1, <1>2, <2>0 DEF RateFacts
  <2>8. Cardinality(After(starts[s], t)) + (Cardinality(C) + (IF now > t THEN 1 ELSE 0))
          <= Cardinality(After(hits[s], t)) + (IF now > t THEN 1 ELSE 0)
    BY <2>1, <2>5, <2>7 DEF RateAt, C
  <2>9. QED  BY <2>3, <2>6, <2>7, <2>8 DEF RateAt, After
<1>7. RateInv(s)'
  BY <1>2, <1>5, <1>6 DEF RateInv, RateAt, After
<1>8. QED  BY <1>7

\* The limiter of s only drops what has left the window.
LEMMA Swept ==
    ASSUME TypeOK, NEW s \in Servers, RateInv(s), hits'[s] = activeRateHits(hits[s], now),
           starts' = starts, now' = now, work' = work
    PROVE  RateInv(s)'
<1>1. RateFacts(s)
  BY RateTyped
<1>2. ASSUME NEW t \in Int, t >= now - Window
      PROVE  Cardinality(After(hits'[s], t)) = Cardinality(After(hits[s], t))
  BY <1>1, <1>2, AfterActive DEF RateFacts
<1>3. Cardinality(After(hits'[s], now - Window)) <= RateLimit
  <2>1. now - Window \in Int /\ now - Window >= now - Window
    BY <1>1 DEF RateFacts
  <2>2. Cardinality(After(hits'[s], now - Window)) = Cardinality(After(hits[s], now - Window))
    BY <1>2, <2>1
  <2>3. QED  BY <2>2, RateParts
<1>4. ASSUME NEW t \in (now - Window)..MaxTime
      PROVE  RateAt(s, t)'
  <2>1. t \in Int /\ t >= now - Window
    BY <1>1 DEF RateFacts
  <2>2. RateAt(s, t) /\ Cardinality(After(hits'[s], t)) = Cardinality(After(hits[s], t))
    BY <1>2, <2>1, RateParts
  <2>3. ClaimingAfter(s, t)' = ClaimingAfter(s, t)
    BY DEF ClaimingAfter
  <2>4. QED  BY <2>2, <2>3 DEF RateAt, After
<1>5. QED  BY <1>3, <1>4 DEF RateInv, RateAt, After

\* A worker that was about to claim does so no more.
LEMMA ClaimGone ==
    ASSUME NEW s \in Servers, NEW w \in Staff(s), work[w].pc = "claiming", work'[w].pc # "claiming",
           \A v \in Workers \ {w} : KeepsClaim(v), NEW t \in Int
    PROVE  Cardinality(ClaimingAfter(s, t)) =
             Cardinality(ClaimingAfter(s, t)') + (IF work[w].since > t THEN 1 ELSE 0)
<1> DEFINE C == ClaimingAfter(s, t)
           D == ClaimingAfter(s, t)'
<1>1. IsFiniteSet(C) /\ Cardinality(C) \in Nat
  BY ClaimingFinite
<1>2. D = C \ {w} /\ (w \in C <=> work[w].since > t)
  BY DEF ClaimingAfter, Staff, KeepsClaim
<1> HIDE DEF C, D
<1>3. Cardinality(C \ {w}) = IF w \in C THEN Cardinality(C) - 1 ELSE Cardinality(C)
  BY <1>1, FS_RemoveElement
<1>4. Cardinality(C) = Cardinality(D) + (IF work[w].since > t THEN 1 ELSE 0)
  BY <1>1, <1>2, <1>3
<1>5. QED  BY <1>4 DEF C, D

\* A claim commits: from about to claim to started.
LEMMA Started ==
    ASSUME TypeOK, NEW w \in Workers, RateInv(Home[w]), Claim(w)
    PROVE  RateInv(Home[w])'
<1> DEFINE s == Home[w]
           u == work[w].since
<1>0. s \in Servers /\ w \in Staff(s)
  BY SiteIconsAssumption DEF Staff
<1>1. RateFacts(s) /\ WorkTyped /\ u \in Nat
  BY <1>0, RateTyped, TypeParts DEF WorkTyped, State
<1>2. /\ hits' = hits /\ starts'[s] = Append(starts[s], u) /\ now' = now /\ work[w].pc = "claiming"
  BY <1>0, <1>1 DEF Claim, RateFacts
<1>3. work'[w].pc # "claiming"
  <2>1. work[w] \in State
    BY <1>1 DEF WorkTyped
  <2>2. work'[w] = [work[w] EXCEPT !.pc = "fetching", !.until = now + FetchBudget,
                                   !.evicted = work[w].job.site \notin DOMAIN rows']
    BY DEF Claim
  <2>3. QED  BY <2>1, <2>2 DEF State
<1>4. ASSUME NEW v \in Workers \ {w}
      PROVE  KeepsClaim(v)
  <2>1. work[v] \in State
    BY <1>1 DEF WorkTyped
  <2>2. \E claimed \in BOOLEAN : work'[v] = Marked(v, rows', w, claimed)
    BY DEF Claim
  <2>3. work'[v].pc = work[v].pc /\ work'[v].since = work[v].since
    BY <2>1, <2>2, MarkedFacts
  <2>4. QED  BY <2>3 DEF KeepsClaim
<1>5. Cardinality(After(hits'[s], now - Window)) <= RateLimit
  BY <1>0, <1>2, RateParts
<1>6. ASSUME NEW t \in (now - Window)..MaxTime
      PROVE  RateAt(s, t)'
  <2>0. t \in Int
    BY <1>1 DEF RateFacts
  <2>1. RateAt(s, t)
    BY <1>0, RateParts
  <2>2. Cardinality(ClaimingAfter(s, t)) =
          Cardinality(ClaimingAfter(s, t)') + (IF u > t THEN 1 ELSE 0)
    BY <1>0, <1>2, <1>3, <1>4, <2>0, ClaimGone
  <2>3. Cardinality(After(starts'[s], t)) = Cardinality(After(starts[s], t)) + (IF u > t THEN 1 ELSE 0)
    <3>1. Cardinality(After(Append(starts[s], u), t))
            = Cardinality(After(starts[s], t)) + (IF u > t THEN 1 ELSE 0)
      BY <1>1, <2>0, AfterAppend DEF RateFacts
    <3>2. QED  BY <1>2, <3>1
  <2>4. /\ Cardinality(After(hits[s], t)) \in Nat /\ Cardinality(After(starts[s], t)) \in Nat
        /\ Cardinality(ClaimingAfter(s, t)') \in Nat
    <3>1. ClaimingAfter(s, t)' \subseteq Workers
      BY DEF ClaimingAfter, Staff
    <3>2. IsFiniteSet(ClaimingAfter(s, t)')
      BY <3>1, SiteIconsAssumption, FS_Subset
    <3>3. QED  BY <1>1, <2>0, <3>2, FS_CardinalityType DEF RateFacts
  <2> HIDE DEF u
  <2>5. Cardinality(After(starts'[s], t)) + Cardinality(ClaimingAfter(s, t)')
          <= Cardinality(After(hits[s], t))
    BY <2>1, <2>2, <2>3, <2>4 DEF RateAt
  <2>6. QED  BY <1>2, <2>5 DEF RateAt, After
<1>7. QED  BY <1>2, <1>5, <1>6 DEF RateInv, RateAt, After

\* A reservation is given back by the worker that made it.
LEMMA GivenBack ==
    ASSUME TypeOK, NEW w \in Workers, RateInv(Home[w]), work[w].pc = "claiming", work'[w] = Idle,
           \A v \in Workers \ {w} : KeepsClaim(v), now' = now, starts' = starts,
           hits' = [hits EXCEPT ![Home[w]] = refund(@, work[w].since)]
    PROVE  RateInv(Home[w])'
<1> DEFINE s == Home[w]
           u == work[w].since
<1>0. s \in Servers /\ w \in Staff(s)
  BY SiteIconsAssumption DEF Staff
<1>1. RateFacts(s) /\ u \in Nat
  BY <1>0, RateTyped, TypeParts DEF WorkTyped, State
<1>2. hits'[s] = refund(hits[s], u) /\ work'[w].pc # "claiming"
  BY <1>0, <1>1, IdleTyped DEF RateFacts
<1>3. ASSUME NEW t \in Int
      PROVE  /\ Cardinality(After(hits'[s], t)) <= Cardinality(After(hits[s], t))
             /\ Cardinality(After(hits'[s], t)) + (IF u > t THEN 1 ELSE 0) >= Cardinality(After(hits[s], t))
             /\ Cardinality(After(hits'[s], t)) \in Nat
  <2>1. hits[s] \in Seq(Nat)
    BY <1>1 DEF RateFacts
  <2> DEFINE b == refund(hits[s], u)
  <2>2. /\ Cardinality(After(b, t)) <= Cardinality(After(hits[s], t))
        /\ Cardinality(After(b, t)) + (IF u > t THEN 1 ELSE 0) >= Cardinality(After(hits[s], t))
    BY <1>1, <2>1, AfterRefund
  <2>3. b \in Seq(Nat)
    BY <1>1, <2>1, RefundRemovesOne
  <2> HIDE DEF b
  <2>4. Cardinality(After(b, t)) \in Nat
    BY <2>3, AfterFinite
  <2>5. QED  BY <1>2, <2>2, <2>4 DEF b
<1>4. Cardinality(After(hits'[s], now - Window)) <= RateLimit
  <2>1. Cardinality(After(hits[s], now - Window)) <= RateLimit /\ now - Window \in Int
    BY <1>0, <1>1, RateParts DEF RateFacts
  <2>2. /\ Cardinality(After(hits'[s], now - Window)) <= Cardinality(After(hits[s], now - Window))
        /\ Cardinality(After(hits'[s], now - Window)) \in Nat
        /\ Cardinality(After(hits[s], now - Window)) \in Nat
    BY <1>1, <1>3, <2>1 DEF RateFacts
  <2>3. QED  BY <2>1, <2>2, Numbers
<1>5. ASSUME NEW t \in (now - Window)..MaxTime
      PROVE  RateAt(s, t)'
  <2>0. t \in Int
    BY <1>1 DEF RateFacts
  <2>1. RateAt(s, t)
    BY <1>0, RateParts
  <2>2. Cardinality(ClaimingAfter(s, t)) =
          Cardinality(ClaimingAfter(s, t)') + (IF u > t THEN 1 ELSE 0)
    BY <1>0, <1>2, <2>0, ClaimGone
  <2>3. /\ Cardinality(After(hits'[s], t)) + (IF u > t THEN 1 ELSE 0) >= Cardinality(After(hits[s], t))
        /\ Cardinality(After(hits'[s], t)) \in Nat
    BY <1>3, <2>0
  <2>4. /\ Cardinality(After(hits[s], t)) \in Nat /\ Cardinality(After(starts[s], t)) \in Nat
        /\ Cardinality(ClaimingAfter(s, t)') \in Nat
    <3>1. ClaimingAfter(s, t)' \subseteq Workers
      BY DEF ClaimingAfter, Staff
    <3>2. IsFiniteSet(ClaimingAfter(s, t)')
      BY <3>1, SiteIconsAssumption, FS_Subset
    <3>3. QED  BY <1>1, <2>0, <3>2, FS_CardinalityType DEF RateFacts
  <2> HIDE DEF u
  <2>5. Cardinality(After(starts[s], t)) + Cardinality(ClaimingAfter(s, t)')
          <= Cardinality(After(hits'[s], t))
    BY <2>1, <2>2, <2>3, <2>4 DEF RateAt
  <2>6. QED  BY <2>5 DEF RateAt, After
<1>6. QED  BY <1>4, <1>5 DEF RateInv, RateAt, After
\* No transaction and no reservation of w changes which of the other workers
\* are about to claim.
LEMMA OthersKeepClaim ==
    ASSUME TypeOK, NEW w \in Workers,
           \/ Take(w) \/ Defer(w) \/ Claim(w) \/ ClaimNothing(w) \/ ClaimUnanswered(w) \/ Complete(w)
    PROVE  \A v \in Workers \ {w} : KeepsClaim(v)
<1> SUFFICES ASSUME NEW v \in Workers \ {w}
             PROVE  KeepsClaim(v)
  OBVIOUS
<1>1. WorkTyped
  BY TypeParts
<1>2. CASE Take(w) \/ Defer(w) \/ ClaimNothing(w)
  <2>1. work'[v] = work[v]
    BY <1>1, <1>2 DEF Take, Defer, ClaimNothing, WorkTyped
  <2>2. QED  BY <2>1 DEF KeepsClaim
<1>3. CASE Claim(w) \/ ClaimUnanswered(w) \/ Complete(w)
  <2>1. work[v] \in State /\ \E claimed \in BOOLEAN : work'[v] = Marked(v, rows', w, claimed)
    BY <1>1, <1>3 DEF Claim, ClaimUnanswered, Complete, WorkTyped
  <2>2. work'[v].pc = work[v].pc /\ work'[v].since = work[v].since
    BY <2>1, MarkedFacts
  <2>3. QED  BY <2>2 DEF KeepsClaim
<1>4. QED  BY <1>2, <1>3

\* A process that ends forgets its reservations with the refreshes they led to.
LEMMA Forgotten ==
    ASSUME TypeOK, NEW s \in Servers, Forget(s)
    PROVE  RateInv(s)'
<1>1. RateFacts(s)
  BY RateTyped
<1>2. hits'[s] = <<>> /\ starts'[s] = <<>> /\ now' = now
  BY <1>1 DEF Forget, RateFacts
<1>3. \A v \in Staff(s) : work'[v].pc # "claiming"
  BY IdleTyped DEF Forget, Staff
<1>4. \A t \in Int : After(hits'[s], t) = {} /\ After(starts'[s], t) = {} /\ ClaimingAfter(s, t)' = {}
  BY <1>2, <1>3 DEF After, ClaimingAfter, Staff
<1>5. Cardinality({}) = 0
  BY FS_EmptySet
<1>6. Cardinality(After(hits'[s], now - Window)) <= RateLimit
  <2>1. now - Window \in Int
    BY <1>1 DEF RateFacts
  <2>2. After(hits'[s], now - Window) = {}
    BY <1>4, <2>1
  <2>3. QED  BY <1>5, <2>2, Numbers
<1>7. ASSUME NEW t \in (now - Window)..MaxTime
      PROVE  RateAt(s, t)'
  <2>1. t \in Int
    BY <1>1 DEF RateFacts
  <2>2. /\ Cardinality(After(hits'[s], t)) = 0 /\ Cardinality(After(starts'[s], t)) = 0
        /\ Cardinality(ClaimingAfter(s, t)') = 0
    BY <1>4, <1>5, <2>1
  <2>3. QED  BY <2>2 DEF RateAt, After
<1>8. QED  BY <1>2, <1>6, <1>7 DEF RateInv, RateAt, After

\* The window moves on.
LEMMA WindowMoves ==
    ASSUME TypeOK, NEW s \in Servers, RateInv(s), Tick
    PROVE  RateInv(s)'
<1>1. RateFacts(s) /\ WorkTyped
  BY RateTyped, TypeParts
<1>2. hits' = hits /\ starts' = starts /\ now' = now + 1
  BY DEF Tick
<1>3. \A v \in Workers : work'[v].pc = work[v].pc /\ work'[v].since = work[v].since
  BY <1>1 DEF Tick, WorkTyped, State
<1>4. \A t : ClaimingAfter(s, t)' = ClaimingAfter(s, t)
  BY <1>3 DEF ClaimingAfter, Staff
<1>5. Cardinality(After(hits[s], now' - Window)) <= RateLimit
  <2> DEFINE A == After(hits[s], now - Window)
             B == After(hits[s], now' - Window)
  <2>1. now \in Nat /\ hits[s] \in Seq(Nat) /\ now - Window \in Int /\ now' - Window \in Int
    BY <1>1, <1>2, Numbers DEF RateFacts
  <2>2. B \subseteq A
    <3>1. \A i \in DOMAIN hits[s] : hits[s][i] \in Nat
      BY <2>1
    <3>2. \A n \in Nat : n > now' - Window => n > now - Window
      BY <1>2, <2>1, Numbers
    <3>3. QED  BY <3>1, <3>2 DEF After
  <2>3. IsFiniteSet(A) /\ Cardinality(A) \in Nat /\ Cardinality(B) \in Nat
    BY <2>1, AfterFinite
  <2>4. Cardinality(A) <= RateLimit
    BY RateParts
  <2> HIDE DEF A, B
  <2>5. Cardinality(B) <= Cardinality(A)
    BY <2>2, <2>3, FS_Subset
  <2>6. Cardinality(B) <= RateLimit
    BY <2>3, <2>4, <2>5, Numbers
  <2>7. QED  BY <2>6 DEF B
<1>6. ASSUME NEW t \in (now' - Window)..MaxTime
      PROVE  RateAt(s, t)'
  <2>1. t \in (now - Window)..MaxTime
    BY <1>1, <1>2, Numbers DEF RateFacts
  <2>2. RateAt(s, t)
    BY <2>1, RateParts
  <2>3. QED  BY <1>2, <1>4, <2>2 DEF RateAt, After
<1>7. QED  BY <1>2, <1>5, <1>6 DEF RateInv, RateAt, After

\* The limiter's part of the invariant is kept by every step.
LEMMA NextRate ==
    ASSUME TypeOK, [Next]_vars, NEW s \in Servers, RateInv(s)
    PROVE  RateInv(s)'
<1>0. WorkTyped /\ RateFacts(s)
  BY TypeParts, RateTyped
<1>1. ASSUME NEW z \in Servers,
             \/ (\E k \in Sites : View(z, k)) \/ Decline(z) \/ Close(z) \/ Boot(z)
             \/ Enqueue(z) \/ Return(z) \/ Abandon(z)
      PROVE  RateInv(s)'
  <2>1. hits' = hits /\ starts' = starts /\ now' = now /\ work' = work
    BY <1>1 DEF View, Decline, Close, Boot, Enqueue, Return, Abandon
  <2>2. QED  BY <2>1, RateSame DEF KeepsClaim
<1>2. ASSUME NEW z \in Servers, Forget(z)
      PROVE  RateInv(s)'
  <2>1. CASE z = s
    BY <1>2, <2>1, Forgotten
  <2>2. CASE z # s
    <3>1. hits'[s] = hits[s] /\ starts'[s] = starts[s] /\ now' = now
      BY <1>0, <1>2, <2>2 DEF Forget, RateFacts
    <3>2. \A v \in Staff(s) : work'[v] = work[v]
      BY <1>2, <2>2 DEF Forget, Staff
    <3>3. QED  BY <3>1, <3>2, RateSame DEF KeepsClaim
  <2>3. QED  BY <2>1, <2>2
<1>3. ASSUME NEW w \in Workers, Leave(w) \/ Fetch(w) \/ GiveUp(w)
      PROVE  RateInv(s)'
  <2>1. /\ hits' = hits /\ starts' = starts /\ now' = now
        /\ work[w].pc # "claiming" /\ \A v \in Workers \ {w} : work'[v] = work[v]
    BY <1>0, <1>3 DEF Leave, Fetch, GiveUp, WorkTyped
  <2>2. work'[w].pc # "claiming"
    <3>1. CASE Leave(w)
      BY <1>0, <3>1 DEF Leave, WorkTyped, State
    <3>2. CASE Fetch(w)
      BY <1>0, <3>2 DEF Fetch, WorkTyped, State
    <3>3. CASE GiveUp(w)
      BY <1>0, <3>3, IdleTyped DEF GiveUp, WorkTyped
    <3>4. QED  BY <1>3, <3>1, <3>2, <3>3
  <2>3. \A v \in Workers : KeepsClaim(v)
    BY <2>1, <2>2 DEF KeepsClaim
  <2>4. QED  BY <2>1, <2>3, RateSame DEF Staff
<1>4. ASSUME NEW w \in Workers, Complete(w)
      PROVE  RateInv(s)'
  <2>1. hits' = hits /\ starts' = starts /\ now' = now /\ work[w].pc # "claiming" /\ work'[w] = Idle
    BY <1>4 DEF Complete
  <2>2. \A v \in Workers : KeepsClaim(v)
    BY <1>4, <2>1, IdleTyped, OthersKeepClaim DEF KeepsClaim
  <2>3. QED  BY <2>1, <2>2, RateSame DEF Staff
<1>5. ASSUME NEW w \in Workers, Take(w) \/ Defer(w) \/ Claim(w) \/ ClaimNothing(w) \/ ClaimUnanswered(w)
      PROVE  RateInv(s)'
  <2>1. CASE Home[w] = s
    <3>1. CASE Take(w) /\ life[s] = "up"
      BY <2>1, <3>1, Reserved
    <3>2. CASE (Take(w) /\ life[s] # "up") \/ Defer(w)
      <4>1. hits'[s] = activeRateHits(hits[s], now) /\ starts' = starts /\ now' = now /\ work' = work
        BY <1>0, <2>1, <3>2 DEF Take, Defer, RateFacts
      <4>2. QED  BY <4>1, Swept
    <3>3. CASE Claim(w)
      BY <2>1, <3>3, Started
    <3>4. CASE ClaimNothing(w) \/ ClaimUnanswered(w)
      <4>1. /\ work[w].pc = "claiming" /\ work'[w] = Idle /\ now' = now /\ starts' = starts
            /\ hits' = [hits EXCEPT ![Home[w]] = refund(@, work[w].since)]
        BY <1>0, <3>4 DEF ClaimNothing, ClaimUnanswered, Refused, WorkTyped
      <4>2. \A v \in Workers \ {w} : KeepsClaim(v)
        BY <3>4, OthersKeepClaim
      <4>3. QED  BY <2>1, <4>1, <4>2, GivenBack
    <3>5. QED  BY <1>5, <3>1, <3>2, <3>3, <3>4
  <2>2. CASE Home[w] # s
    <3>1. hits'[s] = hits[s] /\ starts'[s] = starts[s] /\ now' = now
      <4>1. CASE Take(w) \/ Defer(w)
        BY <1>0, <2>2, <4>1 DEF Take, Defer, RateFacts
      <4>2. CASE Claim(w) \/ ClaimNothing(w) \/ ClaimUnanswered(w)
        BY <1>0, <2>2, <4>2 DEF Claim, ClaimNothing, ClaimUnanswered, Refused, RateFacts
      <4>3. QED  BY <1>5, <4>1, <4>2
    <3>2. \A v \in Workers \ {w} : KeepsClaim(v)
      BY <1>5, OthersKeepClaim
    <3>3. QED  BY <2>2, <3>1, <3>2, RateSame DEF Staff
  <2>3. QED  BY <2>1, <2>2
<1>6. ASSUME NEW k \in Sites, Corrupt(k)
      PROVE  RateInv(s)'
  BY <1>6, RateSame DEF Corrupt, process, KeepsClaim
<1>7. CASE Tick
  BY <1>7, WindowMoves
<1>8. CASE UNCHANGED vars
  BY <1>8, RateSame DEF vars, KeepsClaim
<1>9. QED
  BY <1>1, <1>2, <1>3, <1>4, <1>5, <1>6, <1>7, <1>8 DEF Next, ServerStep, Closed, Kill, Refresh
-----------------------------------------------------------------------------
(* The theorems.                                                           *)

\* The inductive invariant holds in the initial states.
LEMMA InitInv == Init => SiteIconsInv
<1> SUFFICES ASSUME Init
             PROVE  SiteIconsInv
  OBVIOUS
<1>1. /\ \A w \in Workers : work[w] = Idle
      /\ \A s \in Servers : /\ jobs[s] = <<>> /\ pending[s] = {} /\ deferred[s] = {}
                            /\ hits[s] = <<>> /\ starts[s] = <<>>
  BY DEF Init
<1>2. TableTyped
  <2>1. PICK known \in SUBSET Sites :
          /\ Cardinality(known) <= RowLimit
          /\ rows \in [known -> [icon : {"good", "corrupt"}, expires : {0, Year},
                                 claim : {Free}, updated : {0}]]
    BY DEF Init
  <2>2. [icon : {"good", "corrupt"}, expires : {0, Year}, claim : {Free}, updated : {0}] \subseteq Icon
    BY Numbers DEF Icon
  <2>3. DOMAIN rows = known /\ rows \in [known -> Icon]
    BY <2>1, <2>2
  <2>4. QED  BY <2>1, <2>3 DEF TableTyped
<1>3. TimesTyped
  BY Numbers DEF TimesTyped, Init
<1>4. QueuesTyped
  <2>1. <<>> \in Seq(Job) /\ <<>> \in Seq(Nat)
    OBVIOUS
  <2>2. QED  BY <2>1 DEF QueuesTyped, Init
<1>5. WorkTyped
  BY IdleTyped DEF WorkTyped, Init
<1>6. TypeOK
  BY <1>2, <1>3, <1>4, <1>5, TypeParts
<1>7. WorkersInv
  BY <1>1, IdleTyped DEF WorkersInv, WorkerInv, BudgetInv, LeaseInv, Busy, Holds
<1>8. ASSUME NEW s \in Servers
      PROVE  SlotInv(s)
  <2>1. DOMAIN Running(s) = {}
    BY <1>1, IdleTyped DEF Running, Staff, Busy
  <2>2. QED  BY <1>1, <2>1, SlotsEmpty DEF SlotInv
<1>9. ASSUME NEW s \in Servers
      PROVE  RateInv(s)
  <2>1. \A t : After(hits[s], t) = {} /\ After(starts[s], t) = {} /\ ClaimingAfter(s, t) = {}
    BY <1>1, IdleTyped DEF After, ClaimingAfter, Staff
  <2>2. Cardinality({}) = 0
    BY FS_EmptySet
  <2>3. \A t : /\ Cardinality(After(hits[s], t)) = 0 /\ Cardinality(After(starts[s], t)) = 0
               /\ Cardinality(ClaimingAfter(s, t)) = 0
    BY <2>1, <2>2
  <2>4. 0 <= RateLimit
    BY Numbers
  <2>5. QED  BY <2>3, <2>4 DEF RateInv
<1>10. QED  BY <1>6, <1>7, <1>8, <1>9 DEF SiteIconsInv, ServersInv

\* Every step keeps the inductive invariant.
LEMMA StepInv == SiteIconsInv /\ [Next]_vars => SiteIconsInv'
<1> SUFFICES ASSUME SiteIconsInv, [Next]_vars
             PROVE  SiteIconsInv'
  OBVIOUS
<1>1. TypeOK /\ WorkersInv /\ ServersInv
  BY DEF SiteIconsInv
<1>2. WorkersTyped
  BY <1>1 DEF WorkersInv, WorkerInv, WorkersTyped
<1>3. TypeOK'
  BY <1>1, <1>2, NextType
<1>4. WorkersInv'
  BY <1>1, NextWorkers
<1>5. \A s \in Servers : SlotInv(s)' /\ RateInv(s)'
  BY <1>1, NextSlots, NextRate DEF ServersInv
<1>6. QED  BY <1>3, <1>4, <1>5 DEF SiteIconsInv, ServersInv

\* The inductive invariant holds in every reachable state.
THEOREM SiteIconsInductive == Spec => []SiteIconsInv
  BY InitInv, StepInv, PTL DEF Spec

\* The table, the queue and the workers keep their types, and the user never
\* has more than RowLimit rows.
THEOREM TypesKept == Spec => []TypeOK
<1>1. SiteIconsInv => TypeOK
  BY DEF SiteIconsInv
<1>2. QED  BY <1>1, SiteIconsInductive, PTL

\* Two workers fetch the same site at the same time only if one of them
\* exceeded a budget or lost its row.
THEOREM LeaseExcludes == Spec => []OneFetch
<1>1. SiteIconsInv => OneFetch
  BY LeasesExclude DEF SiteIconsInv
<1>2. QED  BY <1>1, SiteIconsInductive, PTL

\* A fetch that a later claim of its site overtook stores nothing.
THEOREM OvertakenStoreNothing == Spec => OldFetchesFenced
<1>1. SiteIconsInv /\ [Next]_vars =>
        [\A w \in Workers :
            (work[w].pc = "completing" /\ work[w].superseded /\ work'[w].pc = "idle")
              => rows' = rows]_vars
  BY FencesHold DEF SiteIconsInv
<1>2. QED  BY <1>1, SiteIconsInductive, PTL DEF Spec, OldFetchesFenced

\* Every slot belongs to one job that is waiting, deferred or with a worker.
THEOREM SlotsNeverLeak == Spec => []SlotsAccounted
<1>1. SiteIconsInv => SlotsAccounted
  BY SlotsCount DEF SiteIconsInv
<1>2. QED  BY <1>1, SiteIconsInductive, PTL

\* No window has more than RateLimit claimed refreshes, whatever was refunded.
THEOREM RefundsKeepRate == Spec => []RateKept
<1>1. SiteIconsInv => RateKept
  <2> SUFFICES ASSUME SiteIconsInv, NEW s \in Servers
               PROVE  Cardinality(After(starts[s], now - Window)) <= RateLimit
    BY DEF RateKept
  <2>1. RateFacts(s) /\ RateInv(s)
    BY RateTyped DEF SiteIconsInv, ServersInv
  <2> DEFINE t == now - Window
  <2>2. RateAt(s, t) /\ Cardinality(After(hits[s], t)) <= RateLimit
    BY <2>1, RateParts DEF RateFacts
  <2>3. /\ Cardinality(After(starts[s], t)) \in Nat /\ Cardinality(After(hits[s], t)) \in Nat
        /\ Cardinality(ClaimingAfter(s, t)) \in Nat
    BY <2>1 DEF RateFacts
  <2> HIDE DEF t
  <2>4. Cardinality(After(starts[s], t)) <= RateLimit
    BY <2>2, <2>3, Numbers DEF RateAt
  <2>5. QED  BY <2>4 DEF t
<1>2. QED  BY <1>1, SiteIconsInductive, PTL
=============================================================================
