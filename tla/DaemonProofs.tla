---------------------------- MODULE DaemonProofs ----------------------------
(***************************************************************************)
(* Proofs about Reporter and Daemon. Of Reporter for every set of segments *)
(* and producers, every bound and every pending.json an earlier build can  *)
(* have left; of Daemon, that whatever requests, signals and time-outs do, *)
(* run() uses the Reporter as module Reporter assumes, and an orderly stop *)
(* loses nothing that its producer has parted with.                        *)
(***************************************************************************)
EXTENDS Daemon, FiniteSetTheorems, TLAPS

USE IngestAssumption, ReporterAssumption

-----------------------------------------------------------------------------
(* Records and sequences of records.                                       *)

\* The canonical record of a segment has an identity, and computing it from
\* what the producer handed over or from itself gives the same record.
LEMMA CanonicalFacts ==
    /\ Canonical \subseteq Record
    /\ \A r \in Canonical : Valid(r) /\ ensureIdentity(r) = r
    /\ \A r \in Canonical : r = ensureIdentity(Raw(r.seg))
    /\ \A s \in Segments : /\ Raw(s) \in Record /\ Raw(s).seg = s
                           /\ ensureIdentity(Raw(s)) \in Canonical
                           /\ ensureIdentity(Raw(s)).seg = s
<1>1. ASSUME NEW s \in Segments
      PROVE  /\ Raw(s) \in Record /\ Raw(s).seg = s
             /\ ensureIdentity(Raw(s)) \in Record
             /\ ensureIdentity(Raw(s)).seg = s
             /\ Valid(ensureIdentity(Raw(s)))
             /\ ensureIdentity(ensureIdentity(Raw(s))) = ensureIdentity(Raw(s))
  <2>1. CASE s \in Unidentified
    <3>1. Raw(s) = [seg |-> s, id |-> "missing"]
      BY <2>1 DEF Raw
    <3>2. ensureIdentity(Raw(s)) = [seg |-> s, id |-> "derived"]
      BY <3>1 DEF ensureIdentity, Valid
    <3>3. QED  BY <3>1, <3>2 DEF Record, IdKind, Valid, ensureIdentity
  <2>2. CASE s \notin Unidentified
    <3>1. Raw(s) = [seg |-> s, id |-> "minted"]
      BY <2>2 DEF Raw
    <3>2. ensureIdentity(Raw(s)) = [seg |-> s, id |-> "minted"]
      BY <3>1 DEF ensureIdentity, Valid
    <3>3. QED  BY <3>1, <3>2 DEF Record, IdKind, Valid, ensureIdentity
  <2>3. QED  BY <2>1, <2>2
<1>2. \A r \in Canonical : \E s \in Segments : r = ensureIdentity(Raw(s))
  BY DEF Canonical
<1>3. \A s \in Segments : ensureIdentity(Raw(s)) \in Canonical
  BY DEF Canonical
<1>4. ASSUME NEW r \in Canonical
      PROVE  r \in Record /\ Valid(r) /\ ensureIdentity(r) = r /\ r = ensureIdentity(Raw(r.seg))
  <2>1. PICK s \in Segments : r = ensureIdentity(Raw(s))
    BY <1>2
  <2>2. QED  BY <2>1, <1>1
<1>5. QED  BY <1>1, <1>3, <1>4

\* The segments of a line of records and of an extended line.
LEMMA SegsFacts ==
    ASSUME NEW R
    PROVE  /\ Segs(<<>>) = {}
           /\ \A a \in Seq(R), b \in Seq(R) : Segs(a \o b) = Segs(a) \union Segs(b)
           /\ \A a \in Seq(R), r \in R : Segs(Append(a, r)) = Segs(a) \union {r.seg}
           /\ \A a \in Seq(R) : SegsOf(Recs(a)) = Segs(a) /\ Recs(a) \subseteq R
<1>1. Segs(<<>>) = {}
  BY DEF Segs
<1>2. ASSUME NEW a \in Seq(R), NEW b \in Seq(R)
      PROVE  Segs(a \o b) = Segs(a) \union Segs(b)
  <2>1. Segs(a \o b) \subseteq Segs(a) \union Segs(b)
    BY DEF Segs
  <2>2. Segs(a) \subseteq Segs(a \o b)
    BY DEF Segs
  <2>3. ASSUME NEW i \in DOMAIN b
        PROVE  b[i].seg \in Segs(a \o b)
    <3>1. /\ Len(a) + i \in DOMAIN (a \o b)
          /\ (a \o b)[Len(a) + i] = b[i]
      OBVIOUS
    <3>2. QED  BY <3>1 DEF Segs
  <2>4. QED  BY <2>1, <2>2, <2>3 DEF Segs
<1>3. ASSUME NEW a \in Seq(R), NEW r \in R
      PROVE  Segs(Append(a, r)) = Segs(a) \union {r.seg}
  <2>1. /\ DOMAIN Append(a, r) = DOMAIN a \union {Len(a) + 1}
        /\ \A i \in DOMAIN a : Append(a, r)[i] = a[i]
        /\ Append(a, r)[Len(a) + 1] = r
    OBVIOUS
  <2>2. QED  BY <2>1 DEF Segs
<1>4. ASSUME NEW a \in Seq(R)
      PROVE  SegsOf(Recs(a)) = Segs(a) /\ Recs(a) \subseteq R
  BY DEF SegsOf, Recs, Segs
<1>5. QED  BY <1>1, <1>2, <1>3, <1>4

\* Giving the records of a file their identities changes no segment.
LEMMA IdentifyFacts ==
    ASSUME NEW q \in Seq(FileRecord)
    PROVE  Identify(q) \in Seq(Canonical) /\ Segs(Identify(q)) = Segs(q)
<1>1. \A i \in DOMAIN q : ensureIdentity(q[i]) \in Canonical
                          /\ ensureIdentity(q[i]).seg = q[i].seg
  <2>1. \A i \in DOMAIN q : q[i] \in FileRecord
    OBVIOUS
  <2>2. QED  BY <2>1, CanonicalFacts DEF FileRecord
<1>2. DOMAIN Identify(q) = 1..Len(q) /\ Len(q) \in Nat
  BY DEF Identify
<1>3. Identify(q) \in Seq(Canonical)
  BY <1>1, <1>2 DEF Identify
<1>4. QED  BY <1>1, <1>3 DEF Segs, Identify

\* Executing a request of canonical records settles all their segments, adds
\* only canonical rows, and forgets nothing.
LEMMA InsertFacts ==
    ASSUME NEW recs \in SUBSET Canonical, NEW old \in SUBSET Canonical
    PROVE  /\ Insert(old, recs) \subseteq Canonical
           /\ old \subseteq Insert(old, recs)
           /\ SegsOf(Insert(old, recs)) = SegsOf(old) \union (SegsOf(recs) \ Backwards)
           /\ SegsOf(Rejected(recs)) = SegsOf(recs) \intersect Backwards
  BY CanonicalFacts DEF Insert, Rejected, SegsOf
-----------------------------------------------------------------------------
(* Initial states.                                                         *)

\* The initial states: nothing is in memory, and all the file holds is accepted.
LEMMA InitIInv == Init => IInv
<1> SUFFICES ASSUME Init PROVE IInv
  OBVIOUS
<1> DEFINE RawRecs == {Raw(s) : s \in Segments}
<1>1. pending \in Seq(RawRecs)
  BY DEF Init
<1>2. pending \in Seq(FileRecord) /\ pending \in Seq(Record)
  BY <1>1, CanonicalFacts DEF FileRecord
<1>3. Segs(pending) \subseteq Segments
  <2>1. \A i \in DOMAIN pending : pending[i] \in Record
    BY <1>2
  <2>2. \A r \in Record : r.seg \in Segments
    BY DEF Record
  <2>3. QED  BY <2>1, <2>2 DEF Segs
<1>4. Segs(<<>>) = {} /\ SegsOf({}) = {}
  BY DEF Segs, SegsOf
<1>5. TypeOK
  <2>1. pc \in [Producers -> {"idle", "signal"}]
    BY DEF Init
  <2>2. accepted \subseteq Segments
    BY <1>3 DEF Init
  <2>3. /\ phase = "down" /\ flusher = "select" /\ signal = FALSE /\ due = FALSE
        /\ queue = <<>> /\ batch = <<>> /\ tmp = <<>>
        /\ rows = {} /\ orphans = {} /\ discarded = {} /\ faults = {}
    BY DEF Init
  <2>4. signal \in BOOLEAN /\ due \in BOOLEAN
    BY <2>3
  <2>5. queue \in Seq(Identified) /\ batch \in Seq(Identified) /\ tmp \in Seq(Identified)
    BY <2>3
  <2>6. /\ rows \subseteq Identified /\ orphans \subseteq SUBSET Identified
        /\ discarded \subseteq Segments /\ faults \subseteq Fault
        /\ phase \in Phase /\ flusher \in Flusher
    BY <2>3 DEF Phase, Flusher
  <2>7. QED  BY <1>2, <2>1, <2>2, <2>4, <2>5, <2>6 DEF TypeOK
<1>6. CanonicalInv
  BY <1>2 DEF Init, CanonicalInv
<1>7. ShapeInv
  BY <1>4 DEF Init, ShapeInv
<1>8. AcceptedInv
  BY <1>4 DEF Init, AcceptedInv, Held, Settled
<1>9. NoLoss
  BY <1>4 DEF Init, NoLoss, Held, Settled
<1>10. FileInv
  BY DEF Init, FileInv
<1>11. SavedInv
  BY DEF Init, SavedInv
<1>12. QED  BY <1>5, <1>6, <1>7, <1>8, <1>9, <1>10, <1>11 DEF IInv, LooseInv
-----------------------------------------------------------------------------
(* Every step keeps records canonical.                                     *)

\* Steps that move no record.
Still ==
    \/ StartUnread \/ Wake \/ SkipFlush \/ ServerRefuse
    \/ Cancel \/ BeginShutdown \/ CheckRemaining \/ SaveFails
    \/ \E p \in Producers : Signal(p)

\* A step that moves no record leaves what is held and settled as it was.
LEMMA StillFacts ==
    Still => UNCHANGED <<queue, batch, pending, tmp, rows, orphans, discarded, accepted>>
  BY DEF Still, StartUnread, Wake, SkipFlush, ServerRefuse, Cancel, BeginShutdown,
         CheckRemaining, SaveFails, Signal, volatile, server

\* The steps of a Reporter whose producers are held to nothing but that there is
\* a process: what run() makes sure of (module Daemon) is not used about them.
Step ==
    \/ Still
    \/ Start
    \/ \E p \in Producers, s \in Segments \ Backwards : phase # "down" /\ Enqueue(p, s)
    \/ TakeBatch \/ ServerCommit \/ ClientAck \/ ClientFail
    \/ LateCommit \/ WriteTemp \/ Rename \/ Exit \/ Kill

\* The disjuncts of Next, the steps that move no record taken together.
LEMMA NextCases ==
    ASSUME Next
    PROVE  \/ Still
           \/ Start
           \/ \E p \in Producers, s \in Segments \ Backwards : Working /\ Enqueue(p, s)
           \/ TakeBatch \/ ServerCommit \/ ClientAck \/ ClientFail
           \/ LateCommit \/ WriteTemp \/ Rename \/ Exit \/ Kill
  BY DEF Next, Produce, Flush, Stop, Still

\* The steps of the specification are among them.
LEMMA NextIsStep == Next => Step
  BY NextCases DEF Step, Working

\* The records of an abandoned request are those of the batch.
LEMMA AbandonFacts ==
    ASSUME Abandon
    PROVE  \A o \in orphans' : o \in orphans \/ o = Recs(batch)
  BY DEF Abandon

\* Every step keeps what is past ensureIdentity canonical.
LEMMA StepCanonical == LooseInv /\ [Step]_vars => CanonicalInv'
<1> SUFFICES ASSUME LooseInv, [Step]_vars PROVE CanonicalInv'
  OBVIOUS
<1> USE DEF CanonicalInv
<1>0. CanonicalInv
  BY DEF LooseInv
<1>1. Recs(batch) \subseteq Canonical
  BY <1>0, SegsFacts
<1>2. CASE Still
  BY <1>0, <1>2, StillFacts
<1>3. CASE Start
  <2>1. queue' \in Seq(Canonical)
    <3>1. Identify(pending) \in Seq(Canonical)
      BY <1>0, IdentifyFacts
    <3>2. queue' = Identify(pending) \o queue
      BY <1>3 DEF Start
    <3>3. QED  BY <1>0, <3>1, <3>2
  <2>2. pending' \in Seq(FileRecord)
    <3>1. pending' = <<>> \/ pending' = pending
      BY <1>3 DEF Start
    <3>2. pending \in Seq(FileRecord) /\ <<>> \in Seq(FileRecord)
      BY <1>0
    <3>3. QED  BY <3>1, <3>2
  <2>3. QED  BY <1>0, <1>3, <2>1, <2>2 DEF Start, server
<1>4. ASSUME NEW p \in Producers, NEW s \in Segments, Enqueue(p, s)
      PROVE  CanonicalInv'
  <2>1. queue' \in Seq(Canonical)
    BY <1>0, <1>4, CanonicalFacts DEF Enqueue
  <2>2. QED  BY <1>0, <1>4, <2>1 DEF Enqueue, server
<1>5. CASE TakeBatch
  BY <1>0, <1>5 DEF TakeBatch, server
<1>6. CASE ServerCommit
  BY <1>0, <1>1, <1>6, InsertFacts DEF ServerCommit
<1>7. CASE ClientAck
  BY <1>0, <1>7 DEF ClientAck, server
<1>8. CASE ClientFail
  <2>1. queue' \in Seq(Canonical)
    BY <1>0, <1>8 DEF ClientFail
  <2>2. \A o \in orphans' : o \subseteq Canonical
    BY <1>0, <1>1, <1>8, AbandonFacts DEF ClientFail
  <2>3. QED  BY <1>0, <1>8, <2>1, <2>2 DEF ClientFail
<1>9. CASE LateCommit
  <2>1. PICK o \in orphans : /\ orphans' = orphans \ {o}
                             /\ rows' = Insert(rows, o) \/ rows' = rows
    BY <1>9 DEF LateCommit
  <2>2. rows' \subseteq Canonical
    <3>1. o \in SUBSET Canonical /\ rows \in SUBSET Canonical
      BY <1>0, <2>1
    <3>2. Insert(rows, o) \subseteq Canonical
      BY <3>1, InsertFacts
    <3>3. QED  BY <2>1, <3>1, <3>2
  <2>3. QED  BY <1>0, <1>9, <2>1, <2>2 DEF LateCommit, volatile
<1>10. CASE WriteTemp
  BY <1>0, <1>10 DEF WriteTemp, server
<1>11. CASE Rename
  <2>1. pending' \in Seq(FileRecord)
    <3>1. Canonical \subseteq FileRecord
      BY DEF FileRecord
    <3>2. pending' = tmp /\ tmp \in Seq(Canonical)
      BY <1>0, <1>11 DEF Rename
    <3>3. QED  BY <3>1, <3>2
  <2>2. QED  BY <1>0, <1>11, <2>1 DEF Rename, server
<1>12. CASE Exit
  BY <1>0, <1>12 DEF Exit, Forget
<1>13. CASE Kill
  <2>1. \A o \in orphans' : o \subseteq Canonical
    BY <1>0, <1>1, <1>13, AbandonFacts DEF Kill
  <2>2. QED  BY <1>0, <1>13, <2>1 DEF Kill, Forget
<1>14. CASE UNCHANGED vars
  BY <1>0, <1>14 DEF vars, volatile, server
<1>15. QED
  BY <1>2, <1>3, <1>4, <1>5, <1>6, <1>7, <1>8, <1>9, <1>10, <1>11, <1>12, <1>13, <1>14 DEF Step
-----------------------------------------------------------------------------
(* Every step keeps the types.                                             *)

\* Every step keeps the types: queues stay sequences of records.
LEMMA StepType == LooseInv /\ [Step]_vars => TypeOK'
<1> DEFINE Stages == /\ phase \in Phase /\ flusher \in Flusher /\ faults \subseteq Fault
                     /\ accepted \subseteq Segments
           Wakeups == /\ signal \in BOOLEAN /\ due \in BOOLEAN
                      /\ pc \in [Producers -> {"idle", "signal"}]
<1> SUFFICES ASSUME LooseInv, [Step]_vars PROVE TypeOK'
  OBVIOUS
<1>1. CanonicalInv /\ CanonicalInv' /\ TypeOK /\ AcceptedInv
  BY StepCanonical DEF LooseInv
<1>2. /\ queue' \in Seq(Identified) /\ batch' \in Seq(Identified) /\ tmp' \in Seq(Identified)
      /\ rows' \subseteq Identified /\ orphans' \subseteq SUBSET Identified
  <2>1. Canonical \subseteq Identified
    BY CanonicalFacts DEF Identified, Valid
  <2>2. QED  BY <1>1, <2>1 DEF CanonicalInv
<1>3. pending' \in Seq(Record)
  <2>1. FileRecord \subseteq Record
    BY CanonicalFacts DEF FileRecord
  <2>2. QED  BY <1>1, <2>1 DEF CanonicalInv
<1>4. Stages'
  <2>1. CASE UNCHANGED vars
    BY <1>1, <2>1 DEF vars, volatile, server, TypeOK
  <2>2. CASE Still
    BY <1>1, <2>2 DEF TypeOK, Phase, Flusher, Fault, Still, StartUnread, Wake, SkipFlush,
       ServerRefuse, Cancel, BeginShutdown, CheckRemaining, SaveFails, Signal, volatile, server
  <2>3. ASSUME NEW p \in Producers, NEW s \in Segments \ Backwards, Enqueue(p, s)
        PROVE  Stages'
    BY <1>1, <2>3 DEF TypeOK, Enqueue
  <2>4. CASE Start \/ TakeBatch \/ ServerCommit \/ ClientAck \/ ClientFail
    BY <1>1, <2>4 DEF TypeOK, Phase, Flusher, Start, TakeBatch, ServerCommit, ClientAck, ClientFail
  <2>5. CASE LateCommit \/ WriteTemp \/ Rename \/ Exit \/ Kill
    BY <1>1, <2>5 DEF TypeOK, Phase, Flusher, Fault, LateCommit, WriteTemp, Rename, Exit, Kill,
       Forget, volatile
  <2>6. QED  BY <2>1, <2>2, <2>3, <2>4, <2>5 DEF Step
<1>5. Wakeups'
  <2>1. Wakeups
    BY <1>1 DEF TypeOK
  <2>2. CASE UNCHANGED <<signal, pc, due>>
    BY <2>1, <2>2
  <2>3. CASE Still \/ UNCHANGED vars
    BY <2>1, <2>3 DEF Still, StartUnread, Wake, SkipFlush, ServerRefuse, Cancel, BeginShutdown,
       CheckRemaining, SaveFails, Signal, volatile, vars
  <2>4. ASSUME NEW p \in Producers, NEW s \in Segments \ Backwards, Enqueue(p, s)
        PROVE  Wakeups'
    BY <2>1, <2>4 DEF Enqueue
  <2>5. CASE Start \/ TakeBatch \/ ServerCommit \/ ClientAck \/ ClientFail
    BY <2>1, <2>5 DEF Start, TakeBatch, ServerCommit, ClientAck, ClientFail
  <2>6. CASE LateCommit \/ WriteTemp \/ Rename \/ Exit \/ Kill
    BY <2>1, <2>6 DEF LateCommit, WriteTemp, Rename, Exit, Kill, Forget, volatile
  <2>7. QED  BY <2>3, <2>4, <2>5, <2>6 DEF Step
<1>6. discarded' \subseteq Segments
  <2>1. SegsOf(Canonical) \subseteq Segments
    BY CanonicalFacts DEF SegsOf, Record
  <2>2. \A recs \in SUBSET Canonical : SegsOf(Rejected(recs)) \subseteq Segments
    BY <2>1 DEF SegsOf, Rejected
  <2>3. Recs(batch) \subseteq Canonical /\ discarded \subseteq Segments
    BY <1>1, SegsFacts DEF CanonicalInv, TypeOK
  <2>4. CASE ServerCommit
    BY <2>2, <2>3, <2>4 DEF ServerCommit
  <2>5. CASE LateCommit
    BY <1>1, <2>2, <2>3, <2>5 DEF LateCommit, CanonicalInv
  <2>6. CASE UNCHANGED discarded
    BY <2>3, <2>6
  <2>7. \/ UNCHANGED discarded \/ ServerCommit \/ LateCommit
    BY StillFacts DEF Step, Start, Enqueue, TakeBatch, ClientAck, ClientFail, WriteTemp,
       Rename, Exit, Kill, Forget, vars, server
  <2>8. QED  BY <2>4, <2>5, <2>6, <2>7
<1>7. QED  BY <1>2, <1>3, <1>4, <1>5, <1>6 DEF TypeOK
-----------------------------------------------------------------------------
(* What every step does to the segments held and settled.                  *)

\* Copies are moved, or dropped because they are settled.
Keeps ==
    /\ UNCHANGED <<rows, discarded, accepted>>
    /\ Held' \subseteq Held /\ Held \subseteq Held' \union Settled
    /\ faults \subseteq faults'

Takes(s) ==
    /\ UNCHANGED <<rows, discarded, faults>>
    /\ accepted' = accepted \union {s}
    /\ Held' = Held \union {s}

Settles(S) ==
    /\ S \subseteq accepted
    /\ SegsOf(rows') = SegsOf(rows) \union (S \ Backwards)
    /\ discarded' = discarded \union (S \intersect Backwards)
    /\ Held' = Held
    /\ UNCHANGED <<accepted, faults>>

\* Copies are lost, which takes a fault.
Drops ==
    /\ UNCHANGED <<rows, discarded, accepted>>
    /\ Held' \subseteq Held
    /\ faults \subseteq faults' /\ faults' # {}

\* What only memory held ends with the process.
Leaves ==
    /\ UNCHANGED <<rows, discarded, accepted, pending, faults>>
    /\ Held' = Segs(pending)

\* An Enqueue holds one segment more.
LEMMA EnqueueTakes ==
    ASSUME LooseInv, NEW p, NEW s \in Segments, Enqueue(p, s)
    PROVE  Takes(s)
<1>1. /\ queue' = Append(queue, ensureIdentity(Raw(s)))
      /\ ensureIdentity(Raw(s)) \in Canonical /\ ensureIdentity(Raw(s)).seg = s
      /\ queue \in Seq(Canonical)
  BY CanonicalFacts DEF Enqueue, LooseInv, CanonicalInv
<1>2. Segs(queue') = Segs(queue) \union {s}
  BY <1>1, SegsFacts
<1>3. QED  BY <1>2 DEF Takes, Enqueue, Held, server

\* How each step moves segments between the places that hold them.
LEMMA Moves ==
    ASSUME LooseInv, Step
    PROVE  \/ Keeps \/ Drops \/ (Exit /\ Leaves)
           \/ \E s \in Segments \ Backwards : Takes(s)
           \/ \E S \in SUBSET Segments : Settles(S)
<1>0. /\ TypeOK /\ CanonicalInv /\ ShapeInv /\ FileInv /\ AcceptedInv
      /\ Segs(<<>>) = {}
      /\ Settled \subseteq accepted /\ accepted \subseteq Segments
  BY SegsFacts DEF LooseInv, AcceptedInv, TypeOK
<1>1. CASE Still
  <2>1. faults \subseteq faults'
    BY <1>1 DEF Still, StartUnread, Wake, SkipFlush, ServerRefuse, Cancel, BeginShutdown,
       CheckRemaining, SaveFails, Signal
  <2>2. QED  BY <1>1, <2>1, StillFacts DEF Keeps, Held
<1>2. CASE Start
  <2>1. queue = <<>> /\ batch = <<>>
    BY <1>0, <1>2 DEF Start, ShapeInv
  <2>2. queue' = Identify(pending)
    <3>1. Identify(pending) \in Seq(Canonical)
      BY <1>0, IdentifyFacts DEF CanonicalInv
    <3>2. QED  BY <1>2, <2>1, <3>1 DEF Start
  <2>3. Segs(queue') = Segs(pending)
    BY <1>0, <2>2, IdentifyFacts DEF CanonicalInv
  <2>4. batch' = <<>> /\ (pending' = <<>> \/ pending' = pending)
    BY <1>2, <2>1 DEF Start
  <2>5. Held' = Held
    BY <1>0, <2>1, <2>3, <2>4 DEF Held
  <2>6. QED  BY <1>2, <2>5 DEF Keeps, Start, server
<1>3. ASSUME NEW p \in Producers, NEW s \in Segments \ Backwards, Enqueue(p, s)
      PROVE  Takes(s)
  BY <1>3, EnqueueTakes
<1>4. CASE TakeBatch
  <2>1. batch = <<>>
    BY <1>0, <1>4 DEF TakeBatch, ShapeInv
  <2>2. Held' = Held
    BY <1>0, <1>4, <2>1 DEF TakeBatch, Held
  <2>3. QED  BY <1>4, <2>2 DEF Keeps, TakeBatch, server
<1>5. CASE ServerCommit
  <2>1. /\ Recs(batch) \in SUBSET Canonical /\ SegsOf(Recs(batch)) = Segs(batch)
        /\ rows \in SUBSET Canonical
    BY <1>0, SegsFacts DEF CanonicalInv
  <2>2. /\ SegsOf(rows') = SegsOf(rows) \union (Segs(batch) \ Backwards)
        /\ discarded' = discarded \union (Segs(batch) \intersect Backwards)
    BY <1>5, <2>1, InsertFacts DEF ServerCommit
  <2>3. Segs(batch) \subseteq accepted
    BY <1>0 DEF AcceptedInv, Held
  <2>4. Settles(Segs(batch))
    BY <1>5, <2>2, <2>3 DEF Settles, ServerCommit, Held
  <2>5. QED  BY <1>0, <2>3, <2>4
<1>6. CASE ClientAck
  <2>1. batch' = <<>> /\ Segs(batch) \subseteq Settled
    BY <1>0, <1>6 DEF ClientAck, ShapeInv
  <2>2. QED  BY <1>0, <1>6, <2>1 DEF Keeps, ClientAck, Held, server
<1>7. CASE ClientFail
  <2>1. queue' = batch \o queue /\ batch' = <<>>
    BY <1>7 DEF ClientFail
  <2>2. Segs(queue') = Segs(batch) \union Segs(queue)
    BY <1>0, <2>1, SegsFacts DEF CanonicalInv
  <2>3. QED  BY <1>0, <1>7, <2>1, <2>2 DEF Keeps, ClientFail, Held
<1>8. CASE LateCommit
  <2>1. PICK o \in orphans :
           \/ /\ rows' = Insert(rows, o)
              /\ discarded' = discarded \union SegsOf(Rejected(o))
           \/ UNCHANGED <<rows, discarded>>
    BY <1>8 DEF LateCommit
  <2>2. o \in SUBSET Canonical /\ rows \in SUBSET Canonical
    BY <1>0 DEF CanonicalInv
  <2>3. /\ SegsOf(Insert(rows, o)) = SegsOf(rows) \union (SegsOf(o) \ Backwards)
        /\ SegsOf(Rejected(o)) = SegsOf(o) \intersect Backwards
    BY <2>2, InsertFacts
  <2>4. SegsOf(o) \subseteq accepted /\ Held' = Held /\ UNCHANGED <<accepted, faults>>
    BY <1>0, <1>8 DEF AcceptedInv, LateCommit, Held, volatile
  <2>5. CASE UNCHANGED <<rows, discarded>>
    BY <2>4, <2>5 DEF Keeps
  <2>6. CASE /\ rows' = Insert(rows, o)
             /\ discarded' = discarded \union SegsOf(Rejected(o))
    <3>1. Settles(SegsOf(o))
      BY <2>3, <2>4, <2>6 DEF Settles
    <3>2. QED  BY <1>0, <2>4, <3>1
  <2>7. QED  BY <2>1, <2>5, <2>6
<1>9. CASE WriteTemp
  BY <1>9 DEF Keeps, WriteTemp, Held, server
<1>10. CASE Rename
  <2>1. Segs(tmp) \subseteq Segs(queue) /\ batch = <<>> /\ phase # "down"
    BY <1>0, <1>10 DEF Rename, ShapeInv
  <2>2. queue' = queue /\ batch' = batch /\ pending' = tmp
    BY <1>10 DEF Rename
  <2>3. Held' = Segs(queue)
    BY <1>0, <2>1, <2>2 DEF Held
  <2>4. faults = {} => Held \subseteq Segs(queue) \union Settled
    BY <1>0, <2>1 DEF FileInv, Held
  <2>5. QED  BY <1>10, <2>3, <2>4 DEF Keeps, Drops, Rename, Held, server
<1>11. CASE Exit
  <2>1. queue' = <<>> /\ batch' = <<>> /\ pending' = pending
    BY <1>11 DEF Exit, Forget
  <2>2. Held' = Segs(pending)
    BY <1>0, <2>1 DEF Held
  <2>3. QED  BY <1>11, <2>2 DEF Leaves, Exit, Forget
<1>12. CASE Kill
  <2>1. queue' = <<>> /\ batch' = <<>> /\ pending' = pending
    BY <1>12 DEF Kill, Forget
  <2>2. Held' \subseteq Held
    BY <1>0, <2>1 DEF Held
  <2>3. QED
    <3>1. UNCHANGED <<rows, discarded, accepted>> /\ faults' = faults \union {"kill"}
      BY <1>12 DEF Kill, Forget
    <3>2. QED  BY <2>2, <3>1 DEF Drops
<1>13. QED
  BY <1>1, <1>2, <1>3, <1>4, <1>5, <1>6, <1>7, <1>8, <1>9, <1>10, <1>11, <1>12 DEF Step
-----------------------------------------------------------------------------
(* Every step keeps the inductive invariant.                               *)

\* Settling is final, and what joins the accepted segments is held.
LEMMA StepSettles ==
    ASSUME LooseInv, [Step]_vars
    PROVE  Settled \subseteq Settled' /\ accepted' \subseteq accepted \union Held'
<1>1. CASE UNCHANGED vars
  BY <1>1 DEF vars, server, Settled
<1>2. CASE Step
  BY <1>2, Moves DEF Keeps, Drops, Leaves, Takes, Settles, Settled
<1>3. QED  BY <1>1, <1>2

\* While the process lives and nothing fails, what is held or settled remains so.
LEMMA StepKeeps ==
    ASSUME LooseInv, [Step]_vars, ~Exit, faults' = {}
    PROVE  Held \union Settled \subseteq Held' \union Settled'
<1>1. CASE UNCHANGED vars
  BY <1>1 DEF vars, volatile, server, Held, Settled
<1>2. CASE Step
  BY <1>2, Moves DEF Keeps, Drops, Takes, Settles, Settled
<1>3. QED  BY <1>1, <1>2

\* Under the specification the process ends with everything saved.
LEMMA NextMoves ==
    ASSUME IInv, Next
    PROVE  \/ Keeps \/ Drops
           \/ \E s \in Segments \ Backwards : Takes(s)
           \/ \E S \in SUBSET Segments : Settles(S)
<1>0. LooseInv /\ ShapeInv /\ FileInv /\ SavedInv
  BY DEF IInv, LooseInv
<1>1. CASE Exit /\ Leaves
  <2>1. phase = "done" /\ batch = <<>>
    BY <1>0, <1>1 DEF Exit, ShapeInv
  <2>2. faults = {} => Segs(queue) \subseteq Segs(pending)
    BY <1>0, <2>1 DEF SavedInv
  <2>3. faults = {} => Held' = Held
    BY <1>1, <2>1, <2>2, SegsFacts DEF Leaves, Held
  <2>4. Held' \subseteq Held
    BY <1>1 DEF Leaves, Held
  <2>5. QED  BY <1>1, <2>3, <2>4 DEF Keeps, Drops, Leaves
<1>2. QED  BY <1>0, <1>1, Moves, NextIsStep

\* No step drops an accepted segment unless it is a fault.
LEMMA NextNoLoss == IInv /\ [Next]_vars => NoLoss'
<1> SUFFICES ASSUME IInv, [Next]_vars PROVE NoLoss'
  OBVIOUS
<1>0. NoLoss /\ Settled \subseteq accepted
  BY DEF IInv, LooseInv, AcceptedInv
<1>1. CASE UNCHANGED vars
  BY <1>0, <1>1 DEF NoLoss, vars, volatile, server, Held, Settled
<1>2. CASE Keeps
  BY <1>0, <1>2 DEF NoLoss, Keeps, Settled
<1>3. CASE Drops
  BY <1>3 DEF NoLoss, Drops
<1>4. ASSUME NEW s \in Segments, Takes(s) PROVE NoLoss'
  BY <1>0, <1>4 DEF NoLoss, Takes, Settled
<1>5. ASSUME NEW S \in SUBSET Segments, Settles(S) PROVE NoLoss'
  BY <1>0, <1>5 DEF NoLoss, Settles, Settled
<1>6. QED  BY <1>1, <1>2, <1>3, <1>4, <1>5, NextMoves

\* No step holds or settles a segment nobody handed over.
LEMMA StepAccepted == LooseInv /\ [Step]_vars => AcceptedInv'
<1> SUFFICES ASSUME LooseInv, [Step]_vars PROVE AcceptedInv'
  OBVIOUS
<1> DEFINE Known == /\ Held \union Settled \subseteq accepted
                    /\ SegsOf(rows) \intersect Backwards = {}
                    /\ discarded \subseteq Backwards
           Sent == \A o \in orphans : SegsOf(o) \subseteq accepted
<1>0. Known /\ Sent
  BY DEF LooseInv, AcceptedInv
<1>1. Known'
  <2>1. CASE UNCHANGED vars
    BY <1>0, <2>1 DEF vars, volatile, server, Held, Settled
  <2>2. CASE Keeps
    BY <1>0, <2>2 DEF Keeps, Settled
  <2>3. CASE Drops
    BY <1>0, <2>3 DEF Drops, Settled
  <2>4. ASSUME NEW s \in Segments, Takes(s) PROVE Known'
    BY <1>0, <2>4 DEF Takes, Settled
  <2>5. ASSUME NEW S \in SUBSET Segments, Settles(S) PROVE Known'
    BY <1>0, <2>5 DEF Settles, Settled
  <2>6. CASE Leaves
    BY <1>0, <2>6 DEF Leaves, Settled, Held
  <2>7. QED  BY <2>1, <2>2, <2>3, <2>4, <2>5, <2>6, Moves
<1>2. Sent'
  <2>1. SegsOf(Recs(batch)) \subseteq accepted
    BY <1>0, SegsFacts DEF LooseInv, CanonicalInv, Held
  <2>2. accepted \subseteq accepted'
    <3>1. CASE UNCHANGED vars
      BY <3>1 DEF vars
    <3>2. CASE Step
      BY <3>2, Moves DEF Keeps, Drops, Leaves, Takes, Settles
    <3>3. QED  BY <3>1, <3>2
  <2>3. \A o \in orphans' : o \in orphans \/ o = Recs(batch)
    <3>1. CASE ClientFail \/ Kill
      BY <3>1, AbandonFacts DEF ClientFail, Kill
    <3>2. CASE UNCHANGED vars
      BY <3>2 DEF vars, server
    <3>3. CASE ~(ClientFail \/ Kill) /\ Step
      <4>1. orphans' \subseteq orphans
        BY <3>3, StillFacts DEF Step, Start, Enqueue, TakeBatch, ServerCommit, ClientAck,
           LateCommit, WriteTemp, Rename, Exit, server
      <4>2. QED  BY <4>1
    <3>4. QED  BY <3>1, <3>2, <3>3
  <2>4. QED  BY <1>0, <2>1, <2>2, <2>3
<1>3. QED  BY <1>1, <1>2 DEF AcceptedInv

\* Every step keeps records where the phase of the process has them.
LEMMA StepShape == LooseInv /\ [Step]_vars => ShapeInv' /\ FileInv'
<1> SUFFICES ASSUME LooseInv, [Step]_vars PROVE ShapeInv' /\ FileInv'
  OBVIOUS
<1>0. /\ TypeOK /\ CanonicalInv /\ ShapeInv /\ FileInv
      /\ Segs(<<>>) = {}
  BY SegsFacts DEF LooseInv
<1>1. CASE UNCHANGED vars
  BY <1>0, <1>1 DEF ShapeInv, FileInv, vars, volatile, server, Settled
<1>2. CASE Still
  BY <1>0, <1>2 DEF ShapeInv, FileInv, Still, StartUnread, Wake, SkipFlush, ServerRefuse, Cancel,
     BeginShutdown, CheckRemaining, SaveFails, Signal, volatile, server, Settled
<1>3. CASE Start
  <2>1. queue = <<>> /\ batch = <<>> /\ flusher = "select"
    BY <1>0, <1>3 DEF Start, ShapeInv
  <2>2. Identify(pending) \in Seq(Canonical) /\ Segs(Identify(pending)) = Segs(pending)
    BY <1>0, IdentifyFacts DEF CanonicalInv
  <2>3. Segs(queue') = Segs(pending)
    BY <1>3, <2>1, <2>2 DEF Start
  <2>4. /\ phase' = "running" /\ batch' = <<>> /\ flusher' = "select"
        /\ pending' = <<>> \/ pending' = pending
    BY <1>3, <2>1 DEF Start
  <2>5. ShapeInv'
    BY <2>4 DEF ShapeInv
  <2>6. FileInv'
    BY <1>0, <2>3, <2>4 DEF FileInv
  <2>7. QED  BY <2>5, <2>6
<1>4. ASSUME NEW p \in Producers, NEW s \in Segments \ Backwards, phase # "down", Enqueue(p, s)
      PROVE  ShapeInv' /\ FileInv'
  <2>1. /\ queue' = Append(queue, ensureIdentity(Raw(s)))
        /\ ensureIdentity(Raw(s)) \in Canonical /\ ensureIdentity(Raw(s)).seg = s
    BY <1>4, CanonicalFacts DEF Enqueue
  <2>2. Segs(queue) \subseteq Segs(queue')
    BY <1>0, <2>1, SegsFacts DEF CanonicalInv
  <2>3. /\ phase # "down"
        /\ UNCHANGED <<phase, batch, flusher, pending, tmp, rows, discarded, faults>>
    BY <1>4 DEF Enqueue, server
  <2>4. QED  BY <1>0, <2>2, <2>3 DEF ShapeInv, FileInv, Settled
<1>5. CASE TakeBatch
  BY <1>0, <1>5 DEF ShapeInv, FileInv, TakeBatch, server, Settled
<1>6. CASE ServerCommit
  <2>1. /\ Recs(batch) \in SUBSET Canonical /\ SegsOf(Recs(batch)) = Segs(batch)
        /\ rows \in SUBSET Canonical
    BY <1>0, SegsFacts DEF CanonicalInv
  <2>2. /\ SegsOf(rows') = SegsOf(rows) \union (Segs(batch) \ Backwards)
        /\ discarded' = discarded \union (Segs(batch) \intersect Backwards)
    BY <1>6, <2>1, InsertFacts DEF ServerCommit
  <2>3. Settled \subseteq Settled' /\ Segs(batch) \subseteq Settled'
    BY <2>2 DEF Settled
  <2>4. QED  BY <1>0, <1>6, <2>3 DEF ShapeInv, FileInv, ServerCommit
<1>7. CASE ClientAck
  BY <1>0, <1>7 DEF ShapeInv, FileInv, ClientAck, server, Settled
<1>8. CASE ClientFail
  <2>1. Segs(queue') = Segs(batch) \union Segs(queue)
    BY <1>0, <1>8, SegsFacts DEF ClientFail, CanonicalInv
  <2>2. QED  BY <1>0, <1>8, <2>1 DEF ShapeInv, FileInv, ClientFail, Settled
<1>9. CASE LateCommit
  <2>1. Settled \subseteq Settled'
    <3>1. CASE UNCHANGED <<rows, discarded>>
      BY <3>1 DEF Settled
    <3>2. ASSUME NEW S \in SUBSET Segments, Settles(S) PROVE Settled \subseteq Settled'
      BY <3>2 DEF Settles, Settled
    <3>3. Step
      BY <1>9 DEF Step
    <3>4. QED  BY <3>1, <3>2, <3>3, Moves DEF Keeps, Drops, Leaves, Takes
  <2>2. QED  BY <1>0, <1>9, <2>1 DEF ShapeInv, FileInv, LateCommit, volatile
<1>10. CASE WriteTemp
  BY <1>0, <1>10 DEF ShapeInv, FileInv, WriteTemp, server, Settled
<1>11. CASE Rename
  BY <1>0, <1>11 DEF ShapeInv, FileInv, Rename, server, Settled
<1>12. CASE Exit \/ Kill
  BY <1>12 DEF ShapeInv, FileInv, Exit, Kill, Forget
<1>13. QED
  BY <1>1, <1>2, <1>3, <1>4, <1>5, <1>6, <1>7, <1>8, <1>9, <1>10, <1>11, <1>12 DEF Step

\* What producers do does not matter to the loose part of the invariant.
LEMMA StepLoose == LooseInv /\ [Step]_vars => LooseInv'
  BY StepCanonical, StepType, StepAccepted, StepShape DEF LooseInv

\* Nobody enqueues once Shutdown saves, so all that is left is saved.
LEMMA NextSaved == IInv /\ [Next]_vars => SavedInv'
<1> SUFFICES ASSUME IInv, [Next]_vars PROVE SavedInv'
  OBVIOUS
<1>0. ShapeInv /\ SavedInv /\ Segs(<<>>) = {}
  BY SegsFacts DEF IInv, LooseInv
<1>1. CASE UNCHANGED vars \/ Still
  BY <1>0, <1>1 DEF SavedInv, vars, volatile, server, Still, StartUnread, Wake, SkipFlush,
     ServerRefuse, Cancel, BeginShutdown, CheckRemaining, SaveFails, Signal
<1>2. ASSUME NEW p \in Producers, NEW s \in Segments, Working, Enqueue(p, s)
      PROVE  SavedInv'
  BY <1>2 DEF SavedInv, Enqueue, Working
<1>3. CASE Start \/ TakeBatch
  BY <1>3 DEF SavedInv, Start, TakeBatch
<1>4. CASE ServerCommit \/ ClientAck \/ ClientFail
  <2>1. ~(phase \in {"save", "rename", "done"})
    BY <1>0, <1>4 DEF ShapeInv, ServerCommit, ClientAck, ClientFail
  <2>2. phase' = phase
    BY <1>4 DEF ServerCommit, ClientAck, ClientFail
  <2>3. QED  BY <2>1, <2>2 DEF SavedInv
<1>5. CASE LateCommit
  BY <1>0, <1>5 DEF SavedInv, LateCommit, volatile
<1>6. CASE WriteTemp
  BY <1>6 DEF SavedInv, WriteTemp
<1>7. CASE Rename
  BY <1>0, <1>7 DEF SavedInv, Rename
<1>8. CASE Exit \/ Kill
  BY <1>8 DEF SavedInv, Exit, Kill, Forget
<1>9. QED  BY <1>1, <1>2, <1>3, <1>4, <1>5, <1>6, <1>7, <1>8, NextCases

\* Every step of the specification keeps the inductive invariant.
LEMMA NextIInv == IInv /\ [Next]_vars => IInv'
  BY StepLoose, NextSaved, NextNoLoss, NextIsStep DEF IInv

\* The inductive invariant holds in every reachable state.
LEMMA InductiveInvariant == Spec => []IInv
  BY InitIInv, NextIInv, PTL DEF Spec

\* Every state is well formed, whatever the constants.
THEOREM TypeCorrect == Spec => []TypeOK
<1>1. IInv => TypeOK
  BY DEF IInv, LooseInv
<1>2. QED  BY <1>1, InductiveInvariant, PTL

\* Without a kill or a failing file operation no segment disappears between
\* Enqueue (or pending.json) and the server, however requests fail or straggle.
THEOREM NothingLost == Spec => []NoLoss
<1>1. IInv => NoLoss
  BY DEF IInv
<1>2. QED  BY <1>1, InductiveInvariant, PTL

\* However often a segment is sent, it has at most one row.
THEOREM AtMostOneRow == Spec => []StoredOnce
<1>1. IInv => StoredOnce
  <2>1. ASSUME IInv, NEW r1 \in rows, NEW r2 \in rows, r1.seg = r2.seg
        PROVE  r1 = r2
    <3>1. r1 \in Canonical /\ r2 \in Canonical
      BY <2>1 DEF IInv, LooseInv, CanonicalInv
    <3>2. QED  BY <2>1, <3>1, CanonicalFacts
  <2>2. QED  BY <2>1 DEF StoredOnce
<1>2. QED  BY <1>1, InductiveInvariant, PTL
-----------------------------------------------------------------------------
(* Wake-ups.                                                               *)

\* A queue that an Enqueue filled is never slept through: until it is taken, a
\* wake-up is about to be sent, in flushCh, or received.
THEOREM WakeupsArrive == Spec => []NoLostWakeup
<1>1. Init => WakeInv
  BY DEF Init, WakeInv, NoLostWakeup
<1>2. ASSUME IInv, WakeInv, [Next]_vars
      PROVE  WakeInv'
  <2>0. /\ WakeInv /\ ShapeInv /\ pc \in [Producers -> {"idle", "signal"}]
        /\ queue \in Seq(Canonical) /\ batch \in Seq(Canonical)
    BY <1>2 DEF IInv, LooseInv, TypeOK, CanonicalInv
  <2>1. ASSUME NEW p \in Producers, NEW s \in Segments, Working, Enqueue(p, s)
        PROVE  WakeInv'
    <3>1. queue' = Append(queue, ensureIdentity(Raw(s))) /\ queue' # <<>>
      BY <2>0, <2>1, CanonicalFacts DEF Enqueue
    <3>2. phase' # "down" /\ UNCHANGED <<phase, signal, flusher>>
      BY <2>1 DEF Enqueue, Working
    <3>3. CASE pc' = [pc EXCEPT ![p] = "signal"]
      BY <2>0, <3>1, <3>2, <3>3 DEF WakeInv, NoLostWakeup
    <3>4. CASE UNCHANGED <<pc, due>>
      BY <2>0, <3>1, <3>2, <3>4 DEF WakeInv, NoLostWakeup
    <3>5. QED  BY <2>1, <3>3, <3>4 DEF Enqueue
  <2>2. ASSUME NEW p \in Producers, Signal(p)
        PROVE  WakeInv'
    BY <2>0, <2>2 DEF Signal, WakeInv, NoLostWakeup
  <2>3. CASE Wake \/ TakeBatch \/ SkipFlush
    BY <2>0, <2>3 DEF Wake, TakeBatch, SkipFlush, WakeInv, NoLostWakeup
  <2>4. CASE ClientFail
    <3>1. queue' = batch \o queue /\ (queue # <<>> => queue' # <<>>)
      BY <2>0, <2>4 DEF ClientFail
    <3>2. QED  BY <2>0, <2>4, <3>1 DEF ClientFail, WakeInv, NoLostWakeup
  <2>5. CASE ServerCommit \/ ServerRefuse \/ ClientAck \/ LateCommit
    BY <2>0, <2>5 DEF ServerCommit, ServerRefuse, ClientAck, LateCommit, volatile, WakeInv,
       NoLostWakeup
  <2>6. CASE \/ Start \/ StartUnread \/ Cancel \/ BeginShutdown \/ CheckRemaining
             \/ WriteTemp \/ Rename \/ SaveFails \/ Exit \/ Kill
    BY <2>0, <2>6 DEF Start, StartUnread, Cancel, BeginShutdown, CheckRemaining, WriteTemp,
       Rename, SaveFails, Exit, Kill, Forget, volatile, WakeInv, NoLostWakeup
  <2>7. CASE UNCHANGED vars
    BY <2>0, <2>7 DEF vars, volatile, WakeInv, NoLostWakeup
  <2>8. QED  BY <1>2, <2>1, <2>2, <2>3, <2>4, <2>5, <2>6, <2>7, NextCases DEF Still
<1>3. WakeInv => NoLostWakeup
  BY DEF WakeInv
<1>4. QED  BY <1>1, <1>2, <1>3, InductiveInvariant, PTL DEF Spec
-----------------------------------------------------------------------------
(* The waiting line, and the refinement.                                   *)

\* The records waiting in a live daemon never change order: the line only grows
\* at its end and only loses the acknowledged batch at its front.
THEOREM LineKeepsOrder == Spec => FIFO
<1>1. ASSUME IInv, Next, phase # "down", phase' # "down"
      PROVE  LineMoves
  <2>0. ShapeInv /\ queue \in Seq(Canonical) /\ batch \in Seq(Canonical)
    BY <1>1 DEF IInv, LooseInv, CanonicalInv
  <2>1. CASE UNCHANGED <<queue, batch>>
    BY <2>1 DEF LineMoves, Line
  <2>2. ASSUME NEW p \in Producers, NEW s \in Segments \ Backwards, Enqueue(p, s)
        PROVE  LineMoves
    <3>1. PICK r \in Canonical : queue' = Append(queue, r)
      BY <2>2, CanonicalFacts DEF Enqueue
    <3>2. batch' = batch
      BY <2>2 DEF Enqueue
    <3>3. Line' = Append(Line, r)
      BY <2>0, <3>1, <3>2 DEF Line
    <3>4. r \in Identified
      BY CanonicalFacts DEF Identified, Valid
    <3>5. QED  BY <3>3, <3>4 DEF LineMoves
  <2>3. CASE TakeBatch
    <3>1. batch = <<>> /\ batch' = queue /\ queue' = <<>>
      BY <2>0, <2>3 DEF TakeBatch, ShapeInv
    <3>2. QED  BY <2>0, <3>1 DEF LineMoves, Line
  <2>4. CASE ClientAck
    <3>1. batch' = <<>> /\ queue' = queue /\ flusher = "committed"
      BY <2>4 DEF ClientAck
    <3>2. QED  BY <2>0, <3>1 DEF LineMoves, Line
  <2>5. CASE ClientFail
    <3>1. batch' = <<>> /\ queue' = batch \o queue
      BY <2>5 DEF ClientFail
    <3>2. QED  BY <2>0, <3>1 DEF LineMoves, Line
  <2>6. \/ UNCHANGED <<queue, batch>>
        \/ \E p \in Producers, s \in Segments \ Backwards : Enqueue(p, s)
        \/ TakeBatch \/ ClientAck \/ ClientFail
    BY <1>1, NextCases, StillFacts DEF Start, ServerCommit, LateCommit, WriteTemp, Rename,
       Exit, Kill, Forget, volatile
  <2>7. QED  BY <2>1, <2>2, <2>3, <2>4, <2>5, <2>6
<1>2. IInv /\ [Next]_vars => [phase # "down" /\ phase' # "down" => LineMoves]_vars
  BY <1>1
<1>3. QED  BY <1>2, InductiveInvariant, PTL DEF Spec, FIFO

\* The Reporter keeps the promise of Delivery: for every segment, handing over,
\* storing, discarding and losing happen only as Delivery allows.
THEOREM ReporterImplementsDelivery == Spec => ImplementsDelivery
<1> DEFINE L == [s \in Segments |-> StageOf(s)]
           faulty == faults # {}
<1>1. ASSUME Init PROVE Promise!Init
  <2>1. /\ rows = {} /\ discarded = {} /\ faults = {}
        /\ queue = <<>> /\ batch = <<>> /\ accepted = Segs(pending)
    BY <1>1 DEF Init
  <2>2. Held = accepted /\ SegsOf(rows) = {}
    BY <2>1, SegsFacts DEF Held, SegsOf
  <2>3. \A s \in Segments : StageOf(s) \in {"new", "held"}
    BY <2>1, <2>2 DEF StageOf
  <2>4. QED  BY <2>1, <2>3 DEF Promise!Init
<1>2. ASSUME IInv, [Next]_vars PROVE [Promise!Next]_(Promise!vars)
  <2>0. /\ Held \union Settled \subseteq accepted /\ accepted \subseteq Segments
        /\ SegsOf(rows) \intersect Backwards = {} /\ discarded \subseteq Backwards
    BY <1>2 DEF IInv, LooseInv, AcceptedInv, TypeOK
  <2>1. CASE UNCHANGED vars
    <3>1. L' = L /\ faulty' = faulty
      BY <2>1 DEF StageOf, vars, volatile, server, Held
    <3>2. QED  BY <3>1 DEF Promise!vars
  <2>2. CASE Keeps
    <3>1. \A s \in Segments : StageOf(s)' = StageOf(s)
      BY <2>2 DEF Keeps, StageOf, Settled
    <3>2. L' = L
      BY <3>1
    <3>3. CASE faulty' = faulty
      BY <3>2, <3>3 DEF Promise!vars
    <3>4. CASE faulty' # faulty
      <4>1. faulty' = TRUE
        BY <2>2, <3>4 DEF Keeps
      <4>2. Promise!Lose({})
        BY <3>2, <4>1 DEF Promise!Lose
      <4>3. QED  BY <4>2 DEF Promise!Next
    <3>5. QED  BY <3>3, <3>4
  <2>3. CASE Drops
    <3> DEFINE Lost == {s \in Segments : StageOf(s) # StageOf(s)'}
    <3>1. \A s \in Lost : StageOf(s) = "held" /\ StageOf(s)' = "lost"
      BY <2>0, <2>3 DEF Drops, StageOf
    <3>2. L' = [s \in Segments |-> IF s \in Lost THEN "lost" ELSE L[s]]
      BY <3>1
    <3>3. faulty' = TRUE
      BY <2>3 DEF Drops
    <3>4. Promise!Lose(Lost)
      BY <3>1, <3>2, <3>3 DEF Promise!Lose
    <3>5. QED  BY <3>4 DEF Promise!Next
  <2>4. ASSUME NEW s \in Segments, Takes(s) PROVE [Promise!Next]_(Promise!vars)
    <3>1. \A t \in Segments : t # s => StageOf(t)' = StageOf(t)
      BY <2>4 DEF Takes, StageOf
    <3>2. faulty' = faulty
      BY <2>4 DEF Takes
    <3>3. CASE StageOf(s) \in {"new", "lost"}
      <4>1. StageOf(s)' = "held"
        BY <2>4, <3>3 DEF Takes, StageOf
      <4>2. L' = [L EXCEPT ![s] = "held"]
        BY <3>1, <4>1
      <4>3. Promise!Accept(s)
        BY <3>2, <3>3, <4>2 DEF Promise!Accept
      <4>4. QED  BY <4>3 DEF Promise!Next
    <3>4. CASE StageOf(s) \notin {"new", "lost"}
      <4>1. StageOf(s)' = StageOf(s)
        BY <2>4, <3>4 DEF Takes, StageOf
      <4>2. L' = L
        BY <3>1, <4>1
      <4>3. QED  BY <3>2, <4>2 DEF Promise!vars
    <3>5. QED  BY <3>3, <3>4
  <2>5. ASSUME NEW S \in SUBSET Segments, Settles(S) PROVE [Promise!Next]_(Promise!vars)
    <3> DEFINE Done == {s \in S : StageOf(s) \in {"held", "lost"}}
    <3>1. \A s \in Segments \ Done : StageOf(s)' = StageOf(s)
      BY <2>0, <2>5 DEF Settles, StageOf
    <3>2. \A s \in Done : StageOf(s)' = IF s \in Backwards THEN "discarded" ELSE "stored"
      BY <2>0, <2>5 DEF Settles, StageOf
    <3>3. faulty' = faulty
      BY <2>5 DEF Settles
    <3>4. L' = [s \in Segments |-> IF s \notin Done THEN L[s]
                                   ELSE IF s \in Backwards THEN "discarded" ELSE "stored"]
      BY <3>1, <3>2
    <3>5. Done \in SUBSET Segments /\ Promise!Settle(Done)
      BY <3>3, <3>4 DEF Promise!Settle
    <3>6. QED  BY <3>5 DEF Promise!Next
  <2>6. QED  BY <1>2, <2>1, <2>2, <2>3, <2>4, <2>5, NextMoves
<1>3. QED  BY <1>1, <1>2, InductiveInvariant, PTL DEF Spec, ImplementsDelivery, Promise!Spec
-----------------------------------------------------------------------------
(* The daemon around the Reporter.                                         *)

USE DaemonAssumption

-----------------------------------------------------------------------------
(* The steps of the daemon.                                                *)

\* Steps that do not touch the Reporter.
Aside ==
    \/ Bind \/ BindFails \/ TrackerOpens \/ TrackerReturns
    \/ \E h \in Handlers : Request(h) \/ Reject(h) \/ Decode(h) \/ Reply(h)
    \/ ServeShutdown \/ ServeDrained \/ GraceOver

\* Such a step leaves the Reporter's variables alone.
LEMMA AsideFacts == Aside => UNCHANGED vars
  BY DEF Aside, Bind, BindFails, TrackerOpens, TrackerReturns, Request, Reject, Decode, Reply,
         ServeShutdown, ServeDrained, GraceOver, allVars

\* The disjuncts of DaemonNext, those that do not touch the Reporter together.
LEMMA DaemonCases ==
    ASSUME DaemonNext
    PROVE  \/ Aside \/ GoLive \/ TrackerCloses
           \/ \E h \in Handlers : HandlerEnqueues(h)
           \/ Interrupt \/ AcceptError \/ ShutdownReporter \/ End
           \/ FlushStep \/ OtherStep \/ \E p \in Producers : SignalStep(p)
  BY DEF DaemonNext, Handle, Aside

\* What kept Serve from waiting is not forgotten.
LEMMA MishapsStay ==
    ASSUME [DaemonNext]_allVars
    PROVE  mishaps \subseteq mishaps'
<1>1. CASE Aside \/ UNCHANGED allVars
  BY <1>1 DEF Aside, Bind, BindFails, TrackerOpens, TrackerReturns, Request, Reject, Decode, Reply,
     ServeShutdown, ServeDrained, GraceOver, allVars, daemonVars, history
<1>2. QED
  BY <1>1, DaemonCases DEF GoLive, TrackerCloses, HandlerEnqueues, Interrupt, AcceptError,
     ShutdownReporter, End, Vanish, FlushStep, OtherStep, SignalStep, daemonVars, history

-----------------------------------------------------------------------------
(* Room for what is about to be enqueued.                                  *)

\* The segments handlers have yet to enqueue.
Unqueued == {hs \in Handlers \X Segments : hs[2] \in left[hs[1]]}

\* The four counts Waiting adds up are natural numbers.
Counted ==
    /\ IsFiniteSet(Unqueued) /\ Cardinality(Unqueued) \in Nat
    /\ Len(queue) \in Nat /\ Len(batch) \in Nat
    /\ open = {} => Cardinality(open) = 0
    /\ open # {} => Cardinality(open) = 1
    /\ Cardinality(open) \in Nat /\ Waiting \in Nat
    /\ Waiting = Len(queue) + Len(batch) + Cardinality(open) + Cardinality(Unqueued)

\* Finitely many handlers with finitely many segments each: the counts are defined.
LEMMA CountFacts == LooseInv /\ LifeInv => Counted
<1> SUFFICES ASSUME LooseInv, LifeInv PROVE Counted
  OBVIOUS
<1>1. IsFiniteSet(Unqueued)
  BY FS_Product, FS_Subset DEF Unqueued
<1>2. Cardinality(Unqueued) \in Nat
  BY <1>1, FS_CardinalityType
<1>3. /\ open = {} => Cardinality(open) = 0
      /\ open # {} => Cardinality(open) = 1
  <2>1. CASE open = {}
    BY <2>1, FS_EmptySet
  <2>2. ASSUME NEW s, open = {s}
        PROVE  Cardinality(open) = 1 /\ open # {}
    BY <2>2, FS_Singleton
  <2>3. QED  BY <2>1, <2>2 DEF LifeInv
<1>4. Len(queue) \in Nat /\ Len(batch) \in Nat
  BY DEF LooseInv, CanonicalInv
<1>5. Cardinality(open) \in Nat
  BY <1>3
<1>6. Waiting = Len(queue) + Len(batch) + Cardinality(open) + Cardinality(Unqueued)
  BY DEF Waiting, Unqueued
<1>7. QED  BY <1>1, <1>2, <1>3, <1>4, <1>5, <1>6 DEF Counted

\* When the tracker or a handler enqueues, the room for it was set aside.
LEMMA RoomLeft ==
    ASSUME DaemonInv, open # {} \/ \E h \in Handlers : left[h] # {}
    PROVE  Len(queue) + Len(batch) < MaxHeld
<1>1. LooseInv /\ LifeInv /\ Waiting <= MaxHeld /\ left \in [Handlers -> SUBSET Replayed]
  BY DEF DaemonInv, BoundInv, RequestInv
<1>2. CASE open # {}
  BY <1>1, <1>2, CountFacts DEF Counted
<1>3. ASSUME NEW h \in Handlers, NEW s \in left[h]
      PROVE  Cardinality(Unqueued) # 0
  <2>1. <<h, s>> \in Unqueued
    BY <1>1 DEF Unqueued
  <2>2. QED  BY <1>1, <2>1, CountFacts, FS_EmptySet DEF Counted
<1>4. QED  BY <1>1, <1>2, <1>3, CountFacts DEF Counted

\* Every step of the daemon is a step of the Reporter, and without mishaps one
\* that its specification allows.
LEMMA StepOfReporter ==
    ASSUME DaemonInv, [DaemonNext]_allVars
    PROVE  [Step]_vars /\ (mishaps' = {} => [Next]_vars)
<1>0. LifeInv /\ RequestInv
  BY DEF DaemonInv
<1>1. CASE Aside \/ UNCHANGED allVars
  BY <1>1, AsideFacts DEF allVars
<1>2. CASE GoLive
  BY <1>2 DEF GoLive, Step, Still, Next
<1>3. CASE TrackerCloses
  <2>1. SUFFICES ASSUME NEW s \in open, Enqueue(Tracker, s)
                 PROVE  Step /\ Next
    BY <1>3 DEF TrackerCloses
  <2>2. /\ phase \in {"running", "draining"}
        /\ s \in Native \ accepted
    BY <1>0, <1>3 DEF TrackerCloses, LifeInv
  <2>3. s \in (Segments \ Backwards) \ (accepted \ Replayed)
    BY <2>2 DEF Native
  <2>4. Len(queue) + Len(batch) < MaxHeld
    BY <2>1, RoomLeft
  <2>5. QED  BY <2>1, <2>2, <2>3, <2>4 DEF Step, Next, Produce, Working
<1>4. ASSUME NEW h \in Handlers, HandlerEnqueues(h)
      PROVE  Step /\ (mishaps' = {} => Next)
  <2>1. PICK s \in left[h] : Enqueue(h, s)
    BY <1>4 DEF HandlerEnqueues
  <2>2. s \in Segments \ Backwards /\ s \in Replayed
    BY <1>0 DEF RequestInv
  <2>3. phase # "down" /\ (mishaps = {} => serve # "returned")
    BY <1>0, <1>4 DEF RequestInv, HandlerInv, HandlerEnqueues
  <2>4. mishaps = {} => Working
    BY <1>0, <2>3 DEF LifeInv, Working
  <2>5. mishaps' = mishaps
    BY <1>4 DEF HandlerEnqueues, history
  <2>6. Len(queue) + Len(batch) < MaxHeld
    BY <2>1, RoomLeft
  <2>7. Step
    BY <2>1, <2>2, <2>3 DEF Step
  <2>8. Working => Next
    BY <2>1, <2>2, <2>6 DEF Next, Produce
  <2>9. QED  BY <2>4, <2>5, <2>7, <2>8
<1>5. CASE Interrupt \/ AcceptError
  BY <1>5 DEF Interrupt, AcceptError, Step, Still, Next
<1>6. CASE ShutdownReporter
  <2>1. mishaps = {} => ProducersDone
    BY <1>0, <1>6 DEF ShutdownReporter, LifeInv, RequestInv, HandlerInv, ProducersDone
  <2>2. mishaps' = mishaps
    BY <1>6 DEF ShutdownReporter, daemonVars
  <2>3. QED  BY <1>6, <2>1, <2>2 DEF ShutdownReporter, Step, Still, Next, Stop
<1>7. CASE End
  BY <1>7 DEF End, Step, Next, Stop
<1>8. CASE FlushStep
  BY <1>8 DEF FlushStep, Flush, Step, Still, Next, Stop
<1>9. CASE OtherStep
  BY <1>9 DEF OtherStep, Step, Still, Next
<1>10. ASSUME NEW p \in Producers, SignalStep(p)
       PROVE  Step /\ Next
  BY <1>10 DEF SignalStep, Step, Still, Next, Produce
<1>11. QED
  BY <1>1, <1>2, <1>3, <1>4, <1>5, <1>6, <1>7, <1>8, <1>9, <1>10, DaemonCases

\* The steps that are the Reporter's alone.
Internal ==
    \/ Interrupt \/ AcceptError \/ ShutdownReporter \/ FlushStep \/ OtherStep
    \/ \E p \in Producers : SignalStep(p)

\* Such a step enqueues nothing, and no request moves.
LEMMA InternalFacts ==
    ASSUME DaemonInv, Internal
    PROVE  /\ UNCHANGED <<bound, tracking, open, Requests, acked, accepted>>
           /\ Len(queue') + Len(batch') <= Len(queue) + Len(batch)
<1>1. queue \in Seq(Canonical) /\ batch \in Seq(Canonical) /\ ShapeInv
  BY DEF DaemonInv, LooseInv, CanonicalInv
<1>2. CASE FlushStep
  <2>1. UNCHANGED daemonVars
    BY <1>2 DEF FlushStep
  <2>2. CASE TakeBatch
    BY <1>1, <2>1, <2>2 DEF TakeBatch, ShapeInv, daemonVars, Requests
  <2>3. CASE ClientAck
    BY <1>1, <2>1, <2>3 DEF ClientAck, daemonVars, Requests
  <2>4. CASE ClientFail
    BY <1>1, <2>1, <2>4 DEF ClientFail, daemonVars, Requests
  <2>5. CASE Wake \/ SkipFlush \/ ServerCommit \/ ServerRefuse
    BY <1>1, <2>1, <2>5 DEF Wake, SkipFlush, ServerCommit, ServerRefuse, daemonVars, Requests
  <2>6. CASE CheckRemaining \/ WriteTemp \/ Rename
    BY <1>1, <2>1, <2>6 DEF CheckRemaining, WriteTemp, Rename, volatile, daemonVars, Requests
  <2>7. QED  BY <1>2, <2>2, <2>3, <2>4, <2>5, <2>6 DEF FlushStep, Flush
<1>3. CASE ~FlushStep
  BY <1>1, <1>3 DEF Internal, Interrupt, AcceptError, ShutdownReporter, BeginShutdown, Cancel,
     OtherStep, LateCommit, SaveFails, SignalStep, Signal, volatile, daemonVars, Requests
<1>4. QED  BY <1>2, <1>3

\* Room stays set aside for whatever is on its way to the queue.
LEMMA NextBound ==
    ASSUME DaemonInv, [DaemonNext]_allVars, LooseInv', LifeInv'
    PROVE  BoundInv'
<1> DEFINE Coming == open # {} \/ \E h \in Handlers : left[h] # {}
<1>0. /\ LooseInv /\ LifeInv /\ RequestInv /\ BoundInv
      /\ queue \in Seq(Canonical) /\ batch \in Seq(Canonical)
      /\ left \in [Handlers -> SUBSET Replayed]
  BY DEF DaemonInv, LooseInv, CanonicalInv, RequestInv
<1>1. Counted /\ Counted'
  BY <1>0, CountFacts, PTL
<1>2. CASE UNCHANGED <<open, left>> /\ Len(queue') + Len(batch') <= Len(queue) + Len(batch)
  <2>1. Unqueued' = Unqueued /\ open' = open /\ left' = left
    BY <1>2 DEF Unqueued
  <2>2. Waiting' <= Waiting
    BY <1>2, <1>1, <2>1 DEF Counted
  <2>3. QED  BY <1>0, <1>1, <2>1, <2>2 DEF BoundInv, Counted
<1>3. ASSUME NEW h \in Handlers, Request(h)
      PROVE  BoundInv'
  <2>1. PICK S \in SUBSET (Replayed \ acked) \ {{}} :
           Waiting + Cardinality(S) <= MaxHeld /\ left' = [left EXCEPT ![h] = S]
    BY <1>3 DEF Request
  <2>2. left[h] = {} /\ UNCHANGED <<queue, batch, open>>
    BY <1>0, <1>3 DEF Request, RequestInv, HandlerInv, vars, volatile
  <2>3. Unqueued' = Unqueued \union ({h} \X S) /\ Unqueued \intersect ({h} \X S) = {}
    BY <1>0, <2>1, <2>2 DEF Unqueued
  <2>4. IsFiniteSet(S) /\ IsFiniteSet({h}) /\ Cardinality({h}) = 1
    BY <2>1, FS_Subset, FS_Singleton
  <2>5. IsFiniteSet({h} \X S) /\ Cardinality({h} \X S) = Cardinality(S) /\ Cardinality(S) \in Nat
    <3>1. Cardinality(S) \in Nat
      BY <2>4, FS_CardinalityType
    <3>2. IsFiniteSet({h} \X S) /\ Cardinality({h} \X S) = Cardinality({h}) * Cardinality(S)
      BY <2>4, FS_Product
    <3>3. QED  BY <2>4, <3>1, <3>2
  <2>6. Cardinality(Unqueued') = Cardinality(Unqueued) + Cardinality(S)
    <3>1. IsFiniteSet(Unqueued)
      BY <1>1 DEF Counted
    <3>2. Cardinality(Unqueued \union ({h} \X S))
             = Cardinality(Unqueued) + Cardinality({h} \X S) - Cardinality(Unqueued \intersect ({h} \X S))
      BY <2>5, <3>1, FS_Union
    <3>3. Cardinality(Unqueued \intersect ({h} \X S)) = 0
      BY <2>3, FS_EmptySet
    <3>4. Cardinality(Unqueued) \in Nat
      BY <1>1 DEF Counted
    <3>5. QED  BY <2>3, <2>5, <3>2, <3>3, <3>4
  <2>7. Waiting' = Waiting + Cardinality(S)
    BY <1>1, <2>2, <2>5, <2>6 DEF Counted
  <2>8. QED  BY <2>1, <2>7 DEF BoundInv, Counted
<1>4. ASSUME NEW h \in Handlers, Reject(h) \/ Reply(h)
      PROVE  BoundInv'
  <2>1. left' = [left EXCEPT ![h] = {}] /\ UNCHANGED <<queue, batch, open>>
    BY <1>4 DEF Reject, Reply, Finish, vars, volatile
  <2>2. Unqueued' \subseteq Unqueued
    BY <1>0, <2>1 DEF Unqueued
  <2>3. Cardinality(Unqueued') <= Cardinality(Unqueued)
    BY <1>1, <2>2, FS_Subset DEF Counted
  <2>4. Waiting' <= Waiting
    BY <1>1, <2>1, <2>3 DEF Counted
  <2>5. Coming' => Coming
    BY <1>0, <2>1
  <2> HIDE DEF Coming
  <2>6. Coming => Waiting <= MaxHeld
    BY <1>0 DEF BoundInv, Coming
  <2>7. Waiting \in Nat /\ Waiting' \in Nat /\ MaxHeld \in Nat
    BY <1>1 DEF Counted
  <2>8. Coming' => Waiting' <= MaxHeld
    BY <2>4, <2>5, <2>6, <2>7
  <2>9. QED  BY <2>8 DEF BoundInv, Coming
<1>5. CASE TrackerOpens
  <2>1. open = {} /\ Waiting < MaxHeld /\ UNCHANGED <<queue, batch, left>>
    BY <1>5 DEF TrackerOpens, vars, volatile, Requests
  <2>2. Unqueued' = Unqueued
    BY <2>1 DEF Unqueued
  <2>3. Waiting' <= Waiting + 1
    BY <1>1, <2>1, <2>2 DEF Counted
  <2>4. QED  BY <1>1, <2>1, <2>3 DEF BoundInv, Counted
<1>6. CASE TrackerCloses
  <2>1. /\ open # {} /\ open' = {} /\ UNCHANGED <<left, batch>>
        /\ \/ \E s : queue' = Append(queue, ensureIdentity(Raw(s)))
           \/ queue' = queue
    BY <1>6 DEF TrackerCloses, Enqueue, vars, volatile, Requests
  <2>2. Len(queue') <= Len(queue) + 1
    BY <1>0, <1>1, <2>1 DEF Counted
  <2>3. Unqueued' = Unqueued
    BY <2>1 DEF Unqueued
  <2>4. Waiting' <= Waiting
    BY <1>1, <2>1, <2>2, <2>3 DEF Counted
  <2>5. QED  BY <1>0, <1>1, <2>1, <2>4 DEF BoundInv, Counted
<1>7. ASSUME NEW h \in Handlers, HandlerEnqueues(h)
      PROVE  BoundInv'
  <2>1. PICK s \in left[h] : Enqueue(h, s) /\ left' = [left EXCEPT ![h] = @ \ {s}]
    BY <1>7 DEF HandlerEnqueues
  <2>2. Len(queue') = Len(queue) + 1 /\ batch' = batch /\ open' = open
    BY <1>0, <1>7, <2>1 DEF Enqueue, HandlerEnqueues
  <2>3. <<h, s>> \in Unqueued
    BY <1>0, <2>1 DEF Unqueued
  <2>4. Unqueued' = Unqueued \ {<<h, s>>}
    <3>1. \A k \in Handlers : left'[k] = IF k = h THEN left[h] \ {s} ELSE left[k]
      BY <1>0, <2>1
    <3>2. \A hs \in Handlers \X Segments :
             hs[2] \in left'[hs[1]] <=> hs[2] \in left[hs[1]] /\ hs # <<h, s>>
      BY <3>1
    <3>3. QED  BY <3>2 DEF Unqueued
  <2>5. Cardinality(Unqueued') = Cardinality(Unqueued) - 1
    BY <1>1, <2>3, <2>4, FS_RemoveElement DEF Counted
  <2>6. Waiting' = Waiting
    BY <1>1, <2>2, <2>5 DEF Counted
  <2>7. Coming
    BY <2>1
  <2>8. QED  BY <1>0, <2>6, <2>7 DEF BoundInv, Counted
<1>8. CASE GoLive
  <2>1. open = {} /\ (\A h \in Handlers : left[h] = {}) /\ UNCHANGED <<open, left>>
    BY <1>0, <1>8 DEF GoLive, Start, StartUnread, LifeInv, RequestInv, HandlerInv, Requests
  <2>2. QED  BY <2>1 DEF BoundInv, Counted
<1>9. CASE End
  BY <1>9 DEF End, Vanish, BoundInv
<1>10. CASE Internal
  BY <1>2, <1>10, InternalFacts DEF Requests
<1>11. CASE Aside \/ UNCHANGED allVars
  <2>1. UNCHANGED <<queue, batch>>
    BY <1>11, AsideFacts DEF allVars, vars, volatile
  <2>2. CASE UNCHANGED <<open, left>>
    BY <1>2, <1>1, <2>1, <2>2 DEF Counted
  <2>3. \/ UNCHANGED <<open, left>> \/ TrackerOpens
        \/ \E h \in Handlers : Request(h) \/ Reject(h) \/ Reply(h)
    BY <1>11 DEF Aside, Bind, BindFails, TrackerReturns, Decode, ServeShutdown, ServeDrained,
       GraceOver, allVars, daemonVars, Requests
  <2>4. QED  BY <1>3, <1>4, <1>5, <2>2, <2>3
<1>12. QED
  BY <1>5, <1>6, <1>7, <1>8, <1>9, <1>10, <1>11, DaemonCases DEF Internal
-----------------------------------------------------------------------------
(* What is going on in each phase.                                         *)

\* A flush step stays in a phase that leaves the rest of run() where it was.
LEMMA FlushPhases ==
    ASSUME FlushStep, ShapeInv, TypeOK
    PROVE  /\ UNCHANGED daemonVars /\ UNCHANGED <<pc, accepted, faults>>
           /\ \/ phase' = phase
              \/ phase \in {"final", "save", "rename"} /\ phase' \in {"save", "rename", "done"}
  BY DEF FlushStep, Flush, Wake, TakeBatch, SkipFlush, ServerCommit, ServerRefuse, ClientAck,
         ClientFail, CheckRemaining, WriteTemp, Rename, volatile, server

\* run() starts and ends its parts in step with the Reporter's phases.
LEMMA NextLife ==
    ASSUME DaemonInv, [DaemonNext]_allVars
    PROVE  LifeInv'
<1>0. /\ LifeInv /\ RequestInv /\ ShapeInv /\ TypeOK
      /\ pc \in [Producers -> {"idle", "signal"}]
  BY DEF DaemonInv, LooseInv, TypeOK
<1>1. CASE Aside \/ UNCHANGED allVars
  <2>1. UNCHANGED <<phase, pc, accepted>>
    BY <1>1, AsideFacts DEF allVars, vars, volatile
  <2>2. CASE UNCHANGED <<tracking, open, serve, mishaps>>
    BY <1>0, <2>1, <2>2 DEF LifeInv
  <2>3. CASE TrackerOpens \/ TrackerReturns
    BY <1>0, <2>1, <2>3 DEF LifeInv, TrackerOpens, TrackerReturns, history
  <2>4. CASE ServeShutdown \/ ServeDrained \/ GraceOver
    BY <1>0, <2>1, <2>4 DEF LifeInv, ServeShutdown, ServeDrained, GraceOver, history
  <2>5. QED
    BY <1>1, <2>2, <2>3, <2>4 DEF Aside, Bind, BindFails, Request, Reject, Decode, Reply, allVars,
       daemonVars, history
<1>2. CASE GoLive
  <2>1. /\ phase = "down" /\ phase' = "running" /\ UNCHANGED <<pc, accepted>>
        /\ tracking' = TRUE /\ serve' = "serving" /\ UNCHANGED <<open, mishaps>>
    BY <1>2 DEF GoLive, Start, StartUnread, volatile, history
  <2>2. QED  BY <1>0, <2>1 DEF LifeInv
<1>3. CASE TrackerCloses
  <2>1. /\ tracking /\ open' = {} /\ UNCHANGED <<phase, tracking, serve, mishaps>>
    BY <1>3 DEF TrackerCloses, Enqueue, vars, history
  <2>2. QED  BY <1>0, <2>1 DEF LifeInv
<1>4. ASSUME NEW h \in Handlers, HandlerEnqueues(h)
      PROVE  LifeInv'
  <2>1. PICK s \in left[h] : Enqueue(h, s)
    BY <1>4 DEF HandlerEnqueues
  <2>2. s \in Replayed
    BY <1>0, <2>1 DEF RequestInv
  <2>3. /\ UNCHANGED <<phase, tracking, open, serve, mishaps>>
        /\ accepted' = accepted \union {s}
        /\ pc'[Tracker] = pc[Tracker]
    BY <1>0, <1>4, <2>1 DEF HandlerEnqueues, Enqueue, history
  <2>4. \A t \in Native \ accepted : t \in Native \ accepted'
    BY <2>2, <2>3 DEF Native
  <2>5. QED  BY <1>0, <2>3, <2>4 DEF LifeInv
<1>5. CASE Interrupt \/ AcceptError
  BY <1>0, <1>5 DEF LifeInv, Interrupt, AcceptError, Cancel, volatile, daemonVars
<1>6. CASE ShutdownReporter
  BY <1>0, <1>6 DEF LifeInv, ShutdownReporter, BeginShutdown, daemonVars
<1>7. CASE End
  <2>1. /\ phase' = "down" /\ pc' = [p \in Producers |-> "idle"] /\ tracking' = FALSE
        /\ open' = {} /\ serve' = "off" /\ mishaps' = mishaps
    BY <1>7 DEF End, Exit, Kill, Forget, Vanish, history
  <2>2. QED  BY <1>0, <2>1 DEF LifeInv
<1>8. CASE FlushStep
  <2>1. /\ UNCHANGED <<tracking, open, serve, mishaps, pc, accepted>>
        /\ \/ phase' = phase
           \/ phase \in {"final", "save", "rename"} /\ phase' \in {"save", "rename", "done"}
    BY <1>0, <1>8, FlushPhases DEF daemonVars
  <2>2. QED  BY <1>0, <2>1 DEF LifeInv
<1>9. CASE OtherStep
  BY <1>0, <1>9 DEF LifeInv, OtherStep, LateCommit, SaveFails, volatile, daemonVars
<1>10. ASSUME NEW p \in Producers, SignalStep(p)
       PROVE  LifeInv'
  BY <1>0, <1>10 DEF LifeInv, SignalStep, Signal, daemonVars
<1>11. QED
  BY <1>1, <1>2, <1>3, <1>4, <1>5, <1>6, <1>7, <1>8, <1>9, <1>10, DaemonCases

\* While the process lives, what a handler has enqueued is not lost.
LEMMA HandedOver ==
    ASSUME DaemonInv, [DaemonNext]_allVars, ~End, NEW S, faults = {} => Survive(S)
    PROVE  faults' = {} => S \subseteq Held' \union Settled'
<1>1. LooseInv /\ [Step]_vars
  BY StepOfReporter DEF DaemonInv
<1>2. ~Exit
  <2>1. SUFFICES ASSUME Exit PROVE FALSE
    OBVIOUS
  <2>2. phase = "done" /\ phase' = "down"
    BY <2>1 DEF Exit, Forget
  <2>3. CASE Aside \/ UNCHANGED allVars
    BY <2>2, <2>3, AsideFacts DEF allVars, vars
  <2>4. QED
    BY <2>2, <2>3, DaemonCases DEF GoLive, Start, StartUnread, TrackerCloses, HandlerEnqueues,
       Enqueue, vars, Interrupt, AcceptError, Cancel, ShutdownReporter, BeginShutdown, FlushStep,
       Flush, Wake, TakeBatch, SkipFlush, ServerCommit, ServerRefuse, ClientAck, ClientFail,
       CheckRemaining, WriteTemp, Rename, OtherStep, LateCommit, SaveFails, SignalStep, Signal
<1>3. faults \subseteq faults'
  BY <1>1, Moves DEF vars, Keeps, Drops, Leaves, Takes, Settles
<1>4. QED  BY <1>1, <1>2, <1>3, StepKeeps DEF Survive

\* Requests keep their types.
LEMMA RequestTypes ==
    ASSUME DaemonInv, [DaemonNext]_allVars
    PROVE  /\ handler' \in [Handlers -> {"idle", "reading", "queueing"}]
           /\ body' \in [Handlers -> SUBSET Replayed] /\ left' \in [Handlers -> SUBSET Replayed]
           /\ conn' \in [Handlers -> BOOLEAN]
<1>0. /\ handler \in [Handlers -> {"idle", "reading", "queueing"}]
      /\ body \in [Handlers -> SUBSET Replayed] /\ left \in [Handlers -> SUBSET Replayed]
      /\ conn \in [Handlers -> BOOLEAN]
  BY DEF DaemonInv, RequestInv
<1>1. ASSUME NEW h \in Handlers, Request(h) \/ Reject(h) \/ Decode(h) \/ Reply(h)
      PROVE  /\ handler' \in [Handlers -> {"idle", "reading", "queueing"}]
             /\ body' \in [Handlers -> SUBSET Replayed] /\ left' \in [Handlers -> SUBSET Replayed]
             /\ conn' \in [Handlers -> BOOLEAN]
  <2>1. CASE Request(h)
    BY <1>0, <2>1 DEF Request
  <2>2. CASE Reject(h) \/ Reply(h)
    BY <1>0, <2>2 DEF Reject, Reply, Finish
  <2>3. CASE Decode(h)
    BY <1>0, <2>3 DEF Decode
  <2>4. QED  BY <1>1, <2>1, <2>2, <2>3
<1>2. CASE Bind \/ BindFails \/ TrackerOpens \/ TrackerReturns \/ ServeShutdown \/ ServeDrained
           \/ UNCHANGED allVars \/ GoLive \/ TrackerCloses \/ Internal
  BY <1>0, <1>2, InternalFacts DEF Bind, BindFails, TrackerOpens, TrackerReturns, ServeShutdown,
     ServeDrained, GoLive, TrackerCloses, allVars, daemonVars, Requests
<1>3. CASE GraceOver \/ End
  BY <1>0, <1>3 DEF GraceOver, End, Vanish
<1>4. ASSUME NEW h \in Handlers, HandlerEnqueues(h)
      PROVE  /\ handler' \in [Handlers -> {"idle", "reading", "queueing"}]
             /\ body' \in [Handlers -> SUBSET Replayed] /\ left' \in [Handlers -> SUBSET Replayed]
             /\ conn' \in [Handlers -> BOOLEAN]
  BY <1>0, <1>4 DEF HandlerEnqueues
<1>5. QED  BY <1>1, <1>2, <1>3, <1>4, DaemonCases DEF Aside, Internal

\* A request is answered by a handler that has enqueued its body in this process,
\* and never once its connection was closed.
LEMMA NextHandler ==
    ASSUME DaemonInv, [DaemonNext]_allVars, NEW k \in Handlers
    PROVE  HandlerInv(k)'
<1> DEFINE S == body[k] \ left[k]
<1>0. /\ LifeInv /\ RequestInv /\ HandlerInv(k) /\ LooseInv
      /\ handler \in [Handlers -> {"idle", "reading", "queueing"}]
      /\ body \in [Handlers -> SUBSET Replayed] /\ left \in [Handlers -> SUBSET Replayed]
      /\ conn \in [Handlers -> BOOLEAN] /\ pc \in [Producers -> {"idle", "signal"}]
  BY DEF DaemonInv, RequestInv, LooseInv, TypeOK
<1>1. ~End /\ faults' = {} => S \subseteq Held' \union Settled'
  BY <1>0, HandedOver DEF HandlerInv
<1>2. ASSUME NEW h \in Handlers, Request(h) \/ Reject(h) \/ Decode(h) \/ Reply(h)
      PROVE  HandlerInv(k)'
  <2>1. UNCHANGED <<phase, pc, serve, mishaps>> /\ ~End
    BY <1>2, <1>0 DEF Request, Reject, Decode, Reply, history, vars, volatile, End, Exit, Kill, Forget,
       LifeInv, RequestInv, HandlerInv
  <2>2. CASE k # h
    <3>1. handler'[k] = handler[k] /\ body'[k] = body[k] /\ left'[k] = left[k] /\ conn'[k] = conn[k]
      BY <1>0, <1>2, <2>2 DEF Request, Reject, Decode, Reply, Finish
    <3>2. QED  BY <1>0, <1>1, <2>1, <3>1 DEF HandlerInv, Survive
  <2>3. CASE k = h /\ Request(h)
    <3>1. /\ handler'[k] = "reading" /\ left'[k] = body'[k] /\ handler[k] = "idle"
          /\ serve \in {"serving", "draining"}
      BY <1>0, <2>3 DEF Request
    <3>2. QED  BY <1>0, <2>1, <3>1 DEF HandlerInv, LifeInv, Survive
  <2>4. CASE k = h /\ Decode(h)
    <3>1. /\ handler'[k] = "queueing" /\ left'[k] = left[k] /\ body'[k] = body[k] /\ conn'[k] = conn[k]
          /\ handler[k] = "reading"
      BY <1>0, <2>4 DEF Decode
    <3>2. QED  BY <1>0, <1>1, <2>1, <3>1 DEF HandlerInv, Survive
  <2>5. CASE k = h /\ (Reject(h) \/ Reply(h))
    <3>1. /\ handler'[k] = "idle" /\ left'[k] = {} /\ body'[k] = {} /\ conn'[k] = FALSE
          /\ pc[k] = "idle"
      BY <1>0, <2>5 DEF Reject, Reply, Finish, HandlerInv
    <3>2. QED  BY <1>0, <2>1, <3>1 DEF HandlerInv, Survive
  <2>6. QED  BY <1>2, <2>2, <2>3, <2>4, <2>5
<1>3. CASE HandlerEnqueues(k)
  <2>1. PICK s \in left[k] : Enqueue(k, s) /\ left' = [left EXCEPT ![k] = @ \ {s}]
    BY <1>3 DEF HandlerEnqueues
  <2>2. s \in Held'
    BY <1>0, <2>1, EnqueueTakes DEF Takes
  <2>3. /\ UNCHANGED <<phase, serve, mishaps, handler, body, conn>> /\ handler[k] = "queueing"
        /\ left'[k] = left[k] \ {s} /\ phase' # "down"
    BY <1>0, <1>3, <2>1 DEF HandlerEnqueues, Enqueue, history, HandlerInv
  <2>4. ~End
    BY <2>3 DEF End, Exit, Kill, Forget
  <2>5. faults' = {} => body'[k] \ left'[k] \subseteq Held' \union Settled'
    BY <1>1, <2>2, <2>3, <2>4 DEF Survive
  <2>6. QED  BY <1>0, <2>3, <2>5 DEF HandlerInv, Survive
<1>4. ASSUME NEW h \in Handlers, HandlerEnqueues(h), h # k
      PROVE  HandlerInv(k)'
  <2>1. PICK s \in left[h] : Enqueue(h, s) /\ left' = [left EXCEPT ![h] = @ \ {s}]
    BY <1>4 DEF HandlerEnqueues
  <2>2. /\ UNCHANGED <<phase, serve, mishaps, handler, body, conn>>
        /\ left'[k] = left[k] /\ pc'[k] = pc[k] /\ phase' # "down"
    BY <1>0, <1>4, <2>1 DEF HandlerEnqueues, Enqueue, history, HandlerInv, RequestInv
  <2>3. ~End
    BY <2>2 DEF End, Exit, Kill, Forget
  <2>4. QED  BY <1>0, <1>1, <2>2, <2>3 DEF HandlerInv, Survive
<1>5. CASE ServeShutdown \/ ServeDrained \/ GraceOver
  <2>1. UNCHANGED <<phase, pc, handler, body, left>> /\ phase' # "down"
    BY <1>0, <1>5 DEF ServeShutdown, ServeDrained, GraceOver, vars, volatile, Requests, LifeInv
  <2>2. ~End
    BY <2>1 DEF End, Exit, Kill, Forget
  <2>3. CASE ServeShutdown
    BY <1>0, <1>1, <2>1, <2>2, <2>3 DEF HandlerInv, Survive, ServeShutdown, Requests
  <2>4. CASE ServeDrained
    BY <1>0, <1>1, <2>1, <2>2, <2>4 DEF HandlerInv, Survive, ServeDrained, Requests
  <2>5. CASE GraceOver
    <3>1. conn'[k] = FALSE /\ mishaps' # {}
      BY <2>5 DEF GraceOver
    <3>2. QED  BY <1>0, <1>1, <2>1, <2>2, <3>1 DEF HandlerInv, Survive
  <2>6. QED  BY <1>5, <2>3, <2>4, <2>5
<1>6. CASE GoLive
  <2>1. /\ phase = "down" /\ phase' # "down" /\ serve' = "serving"
        /\ UNCHANGED <<pc, handler, body, left, conn>>
    BY <1>6 DEF GoLive, Start, StartUnread, volatile, Requests
  <2>2. ~End
    BY <2>1 DEF End, Exit, Kill, Forget
  <2>3. QED  BY <1>0, <1>1, <2>1, <2>2 DEF HandlerInv, Survive
<1>7. CASE End
  <2>1. /\ handler'[k] = "idle" /\ left'[k] = {} /\ body'[k] = {} /\ ~conn'[k] /\ pc'[k] = "idle"
    BY <1>7 DEF End, Exit, Kill, Forget, Vanish
  <2>2. QED  BY <2>1 DEF HandlerInv, Survive
<1>8. CASE Internal /\ ~End
  <2>1. UNCHANGED <<handler, body, left, conn>>
    BY <1>8, InternalFacts DEF Requests
  <2>2. pc'[k] = pc[k] \/ pc'[k] = "idle"
    BY <1>0, <1>8, FlushPhases DEF Internal, LooseInv, Interrupt, AcceptError, Cancel,
       ShutdownReporter, BeginShutdown, OtherStep, LateCommit, SaveFails, SignalStep, Signal, volatile
  <2>3. phase' = "down" => phase = "down"
    BY <1>0, <1>8, FlushPhases DEF Internal, LooseInv, Interrupt, AcceptError, Cancel,
       ShutdownReporter, BeginShutdown, OtherStep, LateCommit, SaveFails, SignalStep, Signal, volatile
  <2>4. \/ UNCHANGED <<serve, mishaps>>
        \/ "accept" \in mishaps'
    BY <1>8 DEF Internal, Interrupt, AcceptError, ShutdownReporter, FlushStep, OtherStep,
       SignalStep, daemonVars
  <2>5. QED  BY <1>0, <1>1, <1>8, <2>1, <2>2, <2>3, <2>4 DEF HandlerInv, Survive
<1>9. CASE /\ UNCHANGED <<phase, pc, serve, handler, body, left, conn, mishaps>>
           /\ ~End
  BY <1>0, <1>1, <1>9 DEF HandlerInv, Survive
<1>10. CASE TrackerCloses
  <2>1. /\ UNCHANGED <<phase, serve, handler, body, left, conn, mishaps>>
        /\ pc'[k] = pc[k] /\ phase' # "down"
    BY <1>0, <1>10 DEF TrackerCloses, Enqueue, vars, volatile, Requests, history, LifeInv
  <2>2. ~End
    BY <2>1 DEF End, Exit, Kill, Forget
  <2>3. QED  BY <1>0, <1>1, <2>1, <2>2 DEF HandlerInv, Survive
<1>11. CASE ~End /\ (Bind \/ BindFails \/ TrackerOpens \/ TrackerReturns \/ UNCHANGED allVars)
  BY <1>9, <1>11 DEF Bind, BindFails, TrackerOpens, TrackerReturns, allVars, daemonVars, vars,
     volatile, Requests, history
<1>12. QED
  BY <1>2, <1>3, <1>4, <1>5, <1>6, <1>7, <1>8, <1>10, <1>11, DaemonCases DEF Aside, Internal
-----------------------------------------------------------------------------
(* What must not be lost.                                                  *)

\* Once Shutdown saves, what it saves is all that anyone may count on: handlers
\* that outlast the grace period only repeat what an extension still holds.
LEMMA NextOwed ==
    ASSUME DaemonInv, [DaemonNext]_allVars
    PROVE  OwedInv'
<1> DEFINE Saved == /\ phase = "rename" => Owed \subseteq Segs(tmp) \union Settled
                    /\ phase = "done" => Owed \subseteq Segs(pending) \union Settled
<1> SUFFICES ASSUME faults' = {}, "accept" \notin mishaps'
             PROVE  Survive(Owed)' /\ Saved'
  BY DEF OwedInv
<1>0. /\ LifeInv /\ RequestInv /\ LooseInv /\ ShapeInv /\ FileInv /\ TypeOK
      /\ [Step]_vars /\ Settled \subseteq Settled'
  BY StepOfReporter, StepSettles DEF DaemonInv, LooseInv
<1>1. faults = {} /\ "accept" \notin mishaps
  <2>1. faults \subseteq faults'
    BY <1>0, Moves DEF vars, Keeps, Drops, Leaves, Takes, Settles
  <2>2. mishaps \subseteq mishaps'
    BY MishapsStay
  <2>3. QED  BY <2>1, <2>2
<1>2. Survive(Owed) /\ Saved
  BY <1>1 DEF DaemonInv, OwedInv
<1>3. ~End => Owed \subseteq Held' \union Settled'
  BY <1>1, <1>2, HandedOver
<1>4. CASE ~End /\ Owed' = Owed /\ UNCHANGED <<phase, tmp, pending>>
  <2>1. Saved'
    BY <1>0, <1>2, <1>4 DEF Survive
  <2>2. QED  BY <1>3, <1>4, <2>1 DEF Survive
<1>5. CASE ~End /\ Owed' = Owed /\ phase' \notin {"rename", "done"}
  BY <1>3, <1>5 DEF Survive
<1>6. ASSUME NEW h \in Handlers, Reply(h)
      PROVE  Survive(Owed)' /\ Saved'
  <2>1. /\ UNCHANGED <<phase, tmp, pending, accepted>> /\ phase' # "down"
        /\ left[h] = {} /\ HandlerInv(h)
    BY <1>0, <1>6 DEF Reply, vars, volatile, RequestInv, HandlerInv
  <2>2. ~End
    BY <2>1 DEF End, Exit, Kill, Forget
  <2>3. CASE acked' = acked
    BY <1>4, <2>1, <2>2, <2>3 DEF Owed
  <2>4. CASE conn[h] /\ acked' = acked \union body[h]
    <3>1. body[h] \subseteq Held' \union Settled'
      <4>1. faults = {} => Survive(body[h])
        BY <2>1 DEF HandlerInv
      <4>2. QED  BY <2>2, <4>1, HandedOver
    <3>2. phase' \notin {"rename", "done"}
      BY <1>0, <1>1, <2>1, <2>4 DEF HandlerInv, LifeInv
    <3>3. Owed' = Owed \union body[h]
      BY <2>1, <2>4 DEF Owed
    <3>4. QED  BY <1>3, <2>2, <3>1, <3>2, <3>3 DEF Survive
  <2>5. QED  BY <1>6, <2>3, <2>4 DEF Reply
<1>7. CASE TrackerCloses
  <2>1. /\ phase' \in {"running", "draining"} /\ acked' = acked
        /\ accepted' \subseteq accepted \union Held'
    BY <1>0, <1>7, StepSettles DEF TrackerCloses, Enqueue, vars, history, LifeInv
  <2>2. ~End
    BY <2>1 DEF End, Exit, Kill, Forget
  <2>3. QED  BY <1>3, <2>1, <2>2 DEF Survive, Owed
<1>8. ASSUME NEW h \in Handlers, HandlerEnqueues(h)
      PROVE  Survive(Owed)' /\ Saved'
  <2>1. PICK s \in left[h] : Enqueue(h, s)
    BY <1>8 DEF HandlerEnqueues
  <2>2. s \in Replayed /\ phase' # "down"
    BY <1>0, <1>8, <2>1 DEF RequestInv, HandlerInv, HandlerEnqueues, Enqueue
  <2>3. Owed' = Owed /\ UNCHANGED <<phase, tmp, pending>>
    BY <1>8, <2>1, <2>2 DEF HandlerEnqueues, Enqueue, history, Owed
  <2>4. ~End
    BY <2>2 DEF End, Exit, Kill, Forget
  <2>5. QED  BY <1>4, <2>3, <2>4
<1>9. CASE GoLive
  <2>1. phase' = "running" /\ Owed' = Owed
    BY <1>9 DEF GoLive, Start, StartUnread, history, Owed
  <2>2. ~End
    BY <2>1 DEF End, Exit, Kill, Forget
  <2>3. QED  BY <1>5, <2>1, <2>2
<1>10. CASE End
  <2>1. Exit
    BY <1>10 DEF End, Kill
  <2>2. /\ phase = "done" /\ phase' = "down" /\ Owed' = Owed /\ pending' = pending
        /\ Settled' = Settled
    BY <1>10, <2>1 DEF End, Exit, Forget, Vanish, history, Owed, Settled
  <2>3. QED  BY <1>2, <2>2 DEF Survive, Held
<1>11. CASE FlushStep /\ ~End
  <2>1. Owed' = Owed
    BY <1>0, <1>11, FlushPhases DEF Owed, daemonVars, history
  <2>2. CASE WriteTemp
    <3>1. phase' = "rename" /\ tmp' = queue /\ batch = <<>> /\ UNCHANGED <<pending, rows, discarded>>
      BY <1>0, <2>2 DEF WriteTemp, ShapeInv, server
    <3>2. Segs(pending) \subseteq Segs(queue) \union Settled
      BY <1>0, <1>1, <2>2, <3>1, SegsFacts DEF FileInv, WriteTemp
    <3>3. Owed \subseteq Segs(queue) \union Settled
      BY <1>2, <3>1, <3>2, SegsFacts DEF Survive, Held
    <3>4. QED  BY <1>0, <1>3, <1>11, <2>1, <3>1, <3>3 DEF Survive
  <2>3. CASE Rename
    <3>1. phase = "rename" /\ phase' = "done" /\ pending' = tmp
      BY <2>3 DEF Rename
    <3>2. QED  BY <1>0, <1>2, <1>3, <1>11, <2>1, <3>1 DEF Survive
  <2>4. CASE CheckRemaining
    <3>1. phase = "final" /\ batch = <<>> /\ UNCHANGED <<pending, queue>>
      BY <1>0, <2>4 DEF CheckRemaining, ShapeInv, volatile
    <3>2. CASE queue # <<>>
      BY <1>3, <1>11, <2>1, <2>4, <3>2 DEF CheckRemaining, Survive
    <3>3. CASE queue = <<>>
      <4>1. phase' = "done"
        BY <2>4, <3>3 DEF CheckRemaining
      <4>2. Owed \subseteq Segs(pending) \union Settled
        BY <1>2, <3>1, <3>3, SegsFacts DEF Survive, Held
      <4>3. QED  BY <1>0, <1>3, <1>11, <2>1, <3>1, <4>1, <4>2 DEF Survive
    <3>4. QED  BY <3>2, <3>3
  <2>5. CASE Flush
    <3>1. UNCHANGED <<phase, tmp, pending>>
      BY <2>5 DEF Flush, Wake, TakeBatch, SkipFlush, ServerCommit, ServerRefuse, ClientAck, ClientFail
    <3>2. QED  BY <1>4, <1>11, <2>1, <3>1
  <2>6. QED  BY <1>11, <2>2, <2>3, <2>4, <2>5 DEF FlushStep
<1>12. CASE ~End /\ (Interrupt \/ AcceptError \/ ShutdownReporter \/ OtherStep
                     \/ \E p \in Producers : SignalStep(p))
  <2>1. Owed' = Owed
    BY <1>12, InternalFacts DEF Internal, Owed
  <2>2. \/ UNCHANGED <<phase, tmp, pending>>
        \/ phase' \notin {"rename", "done"}
    BY <1>12 DEF Interrupt, AcceptError, Cancel, ShutdownReporter, BeginShutdown, OtherStep,
       LateCommit, SaveFails, SignalStep, Signal, volatile
  <2>3. QED  BY <1>4, <1>5, <1>12, <2>1, <2>2
<1>13. CASE (Aside \/ UNCHANGED allVars) /\ ~End /\ acked' = acked
  BY <1>4, <1>13, AsideFacts DEF allVars, vars, volatile, Owed
<1>14. CASE (Aside \/ UNCHANGED allVars) /\ acked' # acked
  BY <1>6, <1>14 DEF Aside, Bind, BindFails, TrackerOpens, TrackerReturns, Request, Reject, Decode,
     ServeShutdown, ServeDrained, GraceOver, allVars, daemonVars, history
<1>15. QED
  BY <1>7, <1>8, <1>9, <1>10, <1>11, <1>12, <1>13, <1>14, DaemonCases
-----------------------------------------------------------------------------
(* The theorems.                                                           *)

\* The daemon's invariant holds whatever requests, signals and faults do.
LEMMA DaemonInductive == DaemonSpec => []DaemonInv
<1>1. ASSUME DaemonInit PROVE DaemonInv
  <2>1. IInv /\ LooseInv
    BY <1>1, InitIInv DEF DaemonInit, IInv
  <2>2. LifeInv
    BY <1>1 DEF DaemonInit, Init, LifeInv
  <2>3. RequestInv
    BY <1>1 DEF DaemonInit, Init, RequestInv, HandlerInv, Survive
  <2>4. BoundInv
    BY <1>1 DEF DaemonInit, BoundInv
  <2>5. OwedInv
    <3>1. NoLoss /\ acked = {} /\ phase = "down"
      BY <1>1, <2>1 DEF DaemonInit, Init, IInv
    <3>2. QED  BY <3>1 DEF OwedInv, Owed, NoLoss, Survive
  <2>6. QED  BY <2>1, <2>2, <2>3, <2>4, <2>5 DEF DaemonInv
<1>2. ASSUME DaemonInv, [DaemonNext]_allVars PROVE DaemonInv'
  <2>1. LooseInv' /\ (mishaps' = {} => IInv')
    <3>1. mishaps' = {} => mishaps = {}
      BY <1>2, MishapsStay
    <3>2. QED  BY <1>2, <3>1, StepOfReporter, StepLoose, NextIInv DEF DaemonInv
  <2>2. LifeInv'
    BY <1>2, NextLife
  <2>3. RequestInv'
    BY <1>2, RequestTypes, NextHandler DEF RequestInv
  <2>4. BoundInv'
    BY <1>2, <2>1, <2>2, NextBound
  <2>5. OwedInv'
    BY <1>2, NextOwed
  <2>6. QED  BY <2>1, <2>2, <2>3, <2>4, <2>5 DEF DaemonInv
<1>3. QED  BY <1>1, <1>2, PTL DEF DaemonSpec

\* An orderly stop and start loses nothing its producer has parted with, even
\* with handlers that outlast the grace period.
THEOREM OrderlyStopKeepsRecords == DaemonSpec => []AckedSurvive
<1>1. DaemonInv => AckedSurvive
  BY DEF DaemonInv, OwedInv, Owed, AckedSurvive
<1>2. QED  BY <1>1, DaemonInductive, PTL

\* Without mishaps every behaviour of the daemon is one of module Reporter: what
\* is proved there of producers that stop in time holds of run() as it is.
THEOREM RunUsesReporterAsMeant == DaemonSpec => KeepsReporterContract
<1>1. DaemonInit => Init
  BY DEF DaemonInit
<1>2. DaemonInv /\ [DaemonNext]_allVars => [mishaps' = {} => Next]_vars
  BY StepOfReporter
<1>3. QED  BY <1>1, <1>2, DaemonInductive, PTL DEF DaemonSpec, KeepsReporterContract

\* However a stop goes, whoever outlives it, a segment has at most one row.
THEOREM DaemonStoresOnce == DaemonSpec => []StoredOnce
<1>1. DaemonInv => StoredOnce
  <2>1. ASSUME DaemonInv, NEW r1 \in rows, NEW r2 \in rows, r1.seg = r2.seg
        PROVE  r1 = r2
    <3>1. r1 \in Canonical /\ r2 \in Canonical
      BY <2>1 DEF DaemonInv, LooseInv, CanonicalInv
    <3>2. QED  BY <2>1, <3>1, CanonicalFacts
  <2>2. QED  BY <2>1 DEF StoredOnce
<1>2. QED  BY <1>1, DaemonInductive, PTL
=============================================================================
