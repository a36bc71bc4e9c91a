----------------------------- MODULE TrackerProofs -----------------------------
(***************************************************************************)
(* Proofs about Tracker for every interval, delay, threshold and bound of  *)
(* its clocks, and every set of windows: records do not overlap, do not    *)
(* span a sleep, do not run on without the user, and work is credited.     *)
(***************************************************************************)
EXTENDS Tracker, SequenceTheorems, TLAPS

\* The record of the open segment c that ends at `at'.
Closes(c, at, r) ==
    /\ r.start = c.start
    /\ r.end.mono = at.mono /\ r.end.wall = c.start.wall + (at.mono - c.start.mono)
    /\ c.start.mono < at.mono

\* new is old with the record of the open segment in cur, unless it has no length.
Cut(old, new, cur, at) ==
    \/ new = old /\ \A c \in cur : at.mono <= c.start.mono
    \/ \E c \in cur, r \in Record : Closes(c, at, r) /\ new = Append(old, r)

\* finalize adds at most one record, that of the open segment.
LEMMA FinalizeFacts ==
    ASSUME NEW recs \in Seq(Record), NEW cur \in SUBSET Segment, \A c, d \in cur : c = d,
           NEW at \in Time
    PROVE  finalize(recs, cur, at) \in Seq(Record) /\ Cut(recs, finalize(recs, cur, at), cur, at)
<1>1. CASE \E c \in cur : elapsed(c.start, at) > 0
  <2>1. PICK c \in cur : elapsed(c.start, at) > 0
    BY <1>1
  <2>2. c = CHOOSE d \in cur : TRUE
    OBVIOUS
  <2> DEFINE r == [window |-> c.window, start |-> c.start,
                   end |-> Plus(c.start, elapsed(c.start, at))]
  <2>3. finalize(recs, cur, at) = Append(recs, r)
    BY <1>1, <2>2 DEF finalize
  <2>4. r \in Record /\ Closes(c, at, r)
    <3>1. /\ c.window \in Windows /\ c.start \in Time
          /\ c.start.wall \in Int /\ c.start.mono \in Int /\ at.mono \in Int
      BY DEF Segment, Time
    <3> DEFINE d == at.mono - c.start.mono
               e == [wall |-> c.start.wall - (-d), mono |-> c.start.mono - (-d)]
    <3>2. Plus(c.start, elapsed(c.start, at)) = e
      BY DEF Plus, Minus, elapsed
    <3>3. e \in Time /\ e.mono = at.mono /\ e.wall = c.start.wall + (at.mono - c.start.mono)
      BY <3>1 DEF Time
    <3>4. c.start.mono < at.mono
      BY <2>1, <3>1 DEF elapsed
    <3> HIDE DEF e
    <3>5. QED  BY <3>1, <3>2, <3>3, <3>4 DEF Record, Closes
  <2> HIDE DEF r
  <2>5. QED  BY <2>3, <2>4 DEF Cut
<1>2. CASE ~ \E c \in cur : elapsed(c.start, at) > 0
  <2>1. finalize(recs, cur, at) = recs
    BY <1>2 DEF finalize
  <2>2. \A c \in cur : at.mono <= c.start.mono
    BY <1>2 DEF elapsed, Time, Segment
  <2>3. QED  BY <2>1, <2>2 DEF Cut
<1>3. QED  BY <1>1, <1>2

\* Nothing is finalized when nothing is open.
LEMMA NothingOpen ==
    ASSUME NEW recs, NEW at
    PROVE  finalize(recs, {}, at) = recs
  BY DEF finalize

\* What a poll that reads the window does: it keeps the segment; or it cuts it, at
\* the last poll before a sleep, at the last touch, or now.
Keeps(info) ==
    /\ enqueued' = enqueued /\ current' = current
    /\ current # {} => ~suspended(Now) /\ ~Away(info)
    /\ ~Away(info) => current # {}

Cuts(info, at) ==
    /\ Cut(enqueued, enqueued', current, at)
    /\ current' = IF Away(info) THEN {} ELSE startNew(info, Now)
    /\ \/ at \in lastPoll /\ suspended(Now)
       \/ at = Now /\ ~suspended(Now) /\ ~Away(info)
       \/ at = Minus(Now, idleTime) /\ ~suspended(Now) /\ Away(info)

\* A poll that reads the window does one or the other.
LEMMA Polled ==
    ASSUME TypeInv, ClockInv, NEW info \in Windows \union {NoWindow}, ReadWindow(info)
    PROVE  /\ pc = "idle" /\ PollEnds /\ lastPoll' = {Now}
           /\ mishaps' = IF info = NoWindow THEN mishaps \union {"none"} ELSE mishaps
           /\ Keeps(info) \/ \E at \in Time : Cuts(info, at)
           /\ state' = IF Away(info) THEN "idle" ELSE "tracking"
           /\ enqueued' \in Seq(Record)
<1> DEFINE t == CHOOSE t \in lastPoll : TRUE
           split == suspended(Now)
           ago == Minus(Now, idleTime)
           recs == IF split THEN finalize(enqueued, current, t) ELSE enqueued
           cur == IF split THEN {} ELSE current
<1>1. /\ pc = "idle" /\ PollEnds /\ lastPoll' = {Now}
      /\ mishaps' = IF info = NoWindow THEN mishaps \union {"none"} ELSE mishaps
  BY DEF ReadWindow
<1>2. \/ /\ state = "tracking" /\ Away(info)
         /\ enqueued' = finalize(recs, cur, ago) /\ current' = {} /\ state' = "idle"
      \/ /\ state = "tracking" /\ ~Away(info) /\ state' = state
         /\ IF \E c \in cur : c.window = info
              THEN enqueued' = recs /\ current' = cur
              ELSE enqueued' = finalize(recs, cur, Now) /\ current' = startNew(info, Now)
      \/ /\ state = "idle" /\ Away(info) /\ state' = state
         /\ enqueued' = recs /\ current' = cur
      \/ /\ state = "idle" /\ ~Away(info)
         /\ enqueued' = recs /\ current' = startNew(info, Now) /\ state' = "tracking"
  BY DEF ReadWindow, Switch
<1>3. Now \in Time /\ ago \in Time
  BY DEF TypeInv, Now, Minus, Time
<1>4. split => t \in lastPoll /\ t \in Time
  BY DEF suspended, TypeInv
<1>5. state = "idle" => current = {}
  BY DEF ClockInv
<1>6. enqueued \in Seq(Record) /\ current \in SUBSET Segment /\ \A c, d \in current : c = d
  BY DEF TypeInv
<1>7. CASE split
  <2>1. recs \in Seq(Record) /\ Cut(enqueued, recs, current, t)
    BY <1>4, <1>6, <1>7, FinalizeFacts
  <2>2. cur = {} /\ (current = {} => recs = enqueued)
    BY <1>7, NothingOpen
  <2> HIDE DEF recs, cur, t, ago
  <2>3. enqueued' = recs
    BY <1>2, <2>2, NothingOpen
  <2>4. current' = IF Away(info) THEN {} ELSE startNew(info, Now)
    BY <1>2, <2>2
  <2>5. Cuts(info, t)
    BY <1>4, <1>7, <2>1, <2>3, <2>4 DEF Cuts
  <2>6. QED  BY <1>1, <1>2, <1>4, <1>7, <2>1, <2>3, <2>5 DEF TypeInv
<1>8. CASE ~split
  <2>1. recs = enqueued /\ cur = current
    BY <1>8
  <2> HIDE DEF recs, cur, t
  <2>2. CASE state = "tracking" /\ Away(info)
    <3>1. enqueued' = finalize(enqueued, current, ago) /\ current' = {}
      BY <1>2, <2>1, <2>2
    <3> HIDE DEF ago
    <3>2. Cut(enqueued, enqueued', current, ago) /\ enqueued' \in Seq(Record)
      BY <1>3, <1>6, <3>1, FinalizeFacts
    <3>3. Cuts(info, ago)
      BY <1>8, <2>2, <3>1, <3>2 DEF Cuts, ago
    <3>4. QED  BY <1>1, <1>2, <1>3, <2>2, <3>2, <3>3
  <2>3. CASE state = "tracking" /\ ~Away(info) /\ \E c \in cur : c.window = info
    <3>1. Keeps(info)
      BY <1>2, <1>8, <2>1, <2>3 DEF Keeps
    <3>2. QED  BY <1>1, <1>2, <1>6, <2>3, <3>1 DEF Keeps
  <2>4. CASE state = "tracking" /\ ~Away(info) /\ ~ \E c \in cur : c.window = info
    <3>1. enqueued' = finalize(enqueued, current, Now) /\ current' = startNew(info, Now)
      BY <1>2, <2>1, <2>4
    <3>2. Cut(enqueued, enqueued', current, Now) /\ enqueued' \in Seq(Record)
      BY <1>3, <1>6, <3>1, FinalizeFacts
    <3>3. Cuts(info, Now)
      BY <1>8, <2>4, <3>1, <3>2 DEF Cuts
    <3>4. QED  BY <1>1, <1>2, <1>3, <2>4, <3>2, <3>3
  <2>5. CASE state = "idle" /\ Away(info)
    <3>1. Keeps(info)
      BY <1>2, <1>5, <2>1, <2>5 DEF Keeps
    <3>2. QED  BY <1>1, <1>2, <1>6, <2>5, <3>1 DEF Keeps
  <2>6. CASE state = "idle" /\ ~Away(info)
    <3>1. Cuts(info, Now)
      BY <1>2, <1>5, <1>8, <2>1, <2>6 DEF Cuts, Cut
    <3>2. QED  BY <1>1, <1>2, <1>3, <1>6, <2>1, <2>6, <3>1
  <2>7. QED  BY <1>2, <2>2, <2>3, <2>4, <2>5, <2>6
<1>9. QED  BY <1>7, <1>8

\* Shutdown cuts the open segment now.
LEMMA Ended ==
    ASSUME TypeInv, Return
    PROVE  /\ Now \in Time /\ Cut(enqueued, enqueued', current, Now) /\ enqueued' \in Seq(Record)
           /\ current' = {} /\ pc = "ticker" /\ pc' = "returned"
           /\ UNCHANGED <<clocks, user, deadline, idleTime, state, lastPoll, naps, mishaps>>
<1>1. Now \in Time
  BY DEF TypeInv, Now, Time
<1>2. enqueued' = finalize(enqueued, current, Now)
  BY DEF Return
<1>3. QED  BY <1>1, <1>2, FinalizeFacts DEF Return, TypeInv
-----------------------------------------------------------------------------
(* Types and clocks.                                                       *)

\* TypeInv is kept by every step.
LEMMA NextType ==
    ASSUME TypeInv, ClockInv, Next
    PROVE  TypeInv'
<1>1. CASE Environment
  <2>1. UNCHANGED <<pc, deadline, idleTime, tracker>>
    BY <1>1 DEF Environment, Tick, Input, Sleep
  <2>2. CASE Tick
    BY <2>1, <2>2 DEF TypeInv, Tick, tracker, user
  <2>3. CASE Input
    BY <2>1, <2>3 DEF TypeInv, Input, tracker, clocks
  <2>4. CASE Sleep
    <3>1. PICK d \in 1..(MaxSlept - slept) :
            slept' = slept + d /\ naps' = naps \union {[from |-> Now.wall, to |-> Now.wall + d]}
      BY <2>4 DEF Sleep
    <3>2. UNCHANGED <<mono, user>>
      BY <2>4 DEF Sleep
    <3>3. Now.wall \in Int /\ d \in Nat /\ slept + d \in Nat
      BY TrackerAssumption DEF TypeInv, Now
    <3>4. naps' \in SUBSET [from : Int, to : Int]
      BY <3>1, <3>3 DEF TypeInv
    <3>5. QED  BY <2>1, <3>1, <3>2, <3>3, <3>4 DEF TypeInv, tracker, user
  <2>5. QED  BY <1>1, <2>2, <2>3, <2>4 DEF Environment
<1>2. CASE ReadIdle
  BY <1>2, TrackerAssumption DEF TypeInv, ClockInv, ReadIdle, clocks, user, tracker
<1>3. CASE WindowFails
  BY <1>3, TrackerAssumption DEF TypeInv, WindowFails, PollEnds, clocks, user, tracker
<1>4. CASE Return
  BY <1>4, Ended DEF TypeInv, clocks, user
<1>5. ASSUME NEW info \in Windows \union {NoWindow}, ReadWindow(info)
      PROVE  TypeInv'
  <2>1. /\ pc' = "ticker" /\ deadline' \in Int /\ idleTime' = 0 /\ UNCHANGED <<clocks, user, naps>>
        /\ lastPoll' = {Now} /\ Now \in Time /\ enqueued' \in Seq(Record)
        /\ state' \in {"tracking", "idle"}
    BY <1>5, Polled, TrackerAssumption DEF TypeInv, PollEnds, Now, Time
  <2>2. current' \in SUBSET Segment /\ \A c, d \in current' : c = d
    <3>1. CASE Keeps(info)
      BY <3>1 DEF Keeps, TypeInv
    <3>2. ASSUME NEW at \in Time, Cuts(info, at)
          PROVE  current' \in SUBSET Segment /\ \A c, d \in current' : c = d
      <4>1. CASE Away(info)
        BY <3>2, <4>1 DEF Cuts
      <4>2. CASE ~Away(info)
        BY <2>1, <3>2, <4>2 DEF Cuts, Away, startNew, Segment
      <4>3. QED  BY <4>1, <4>2
    <3>3. QED  BY <1>5, <3>1, <3>2, Polled
  <2>3. QED  BY <2>1, <2>2 DEF TypeInv, clocks, user
<1>6. QED  BY <1>1, <1>2, <1>3, <1>4, <1>5 DEF Next

\* Time as it passes for a moment already past.
LEMMA StillPast ==
    ASSUME TypeInv, NEW t \in Time, Past(t), mono' \in Nat, slept' \in Nat, mono <= mono', slept <= slept'
    PROVE  Past(t)'
  BY DEF TypeInv, Past, Offset, Time

\* ClockInv is kept by every step.
LEMMA NextClock ==
    ASSUME TypeInv, ClockInv, Next, TypeInv'
    PROVE  ClockInv'
<1> DEFINE ago(t) == "window" \notin mishaps =>
                       IF pc = "idle" THEN t.mono <= began
                       ELSE began <= t.mono /\ t.mono <= began + PollDelay
           older(c) == \E t \in lastPoll : c.start.mono <= t.mono /\ Offset(c.start) <= Offset(t)
<1>1. CASE Environment
  <2>1. UNCHANGED <<pc, deadline, idleTime, state, current, lastPoll, enqueued, mishaps>> /\ pc # "returned"
    BY <1>1 DEF Environment, Tick, Input, Sleep, tracker
  <2>2. mono <= mono' /\ slept <= slept' /\ mono' \in Nat /\ slept' \in Nat
    BY <1>1, TrackerAssumption DEF Environment, Tick, Input, Sleep, clocks, TypeInv
  <2>3. (\A t \in lastPoll : Past(t)') /\ (\A c \in current : Past(c.start)')
    BY <2>2, StillPast DEF ClockInv, TypeInv, Segment
  <2>4. lastInput' \in inputs' /\ lastInput' <= mono' /\ \A m \in inputs' : m <= lastInput'
    BY <1>1 DEF Environment, Tick, Input, Sleep, clocks, user, TypeInv, ClockInv
  <2>5. /\ began' = began /\ began <= mono'
        /\ pc = "idle" => mono' <= began + PollDelay
        /\ pc = "ticker" => mono' <= began + PollInterval \/ mono' <= began + PollDelay
    BY <1>1, <2>1, TrackerAssumption DEF Environment, Tick, Input, Sleep, clocks, user, TypeInv, ClockInv, began
  <2>6. naps' = {} => slept' = 0
    BY <1>1 DEF Environment, Tick, Input, Sleep, clocks, user, TypeInv, ClockInv
  <2>7. (\A t \in lastPoll : ago(t)') /\ (\A c \in current : older(c)')
    BY <2>1, <2>5 DEF ClockInv, Offset
  <2>8. QED  BY <2>1, <2>3, <2>4, <2>5, <2>6, <2>7 DEF ClockInv
<1>2. CASE ReadIdle
  <2>1. /\ UNCHANGED <<mono, slept, lastInput, inputs, state, current, lastPoll, enqueued, naps>>
        /\ pc = "ticker" /\ pc' = "idle" /\ mono >= deadline /\ deadline' = mono + PollDelay
        /\ "window" \notin mishaps' => "window" \notin mishaps
    BY <1>2 DEF ReadIdle, clocks, user, tracker
  <2>2. began' = mono
    BY <2>1, TrackerAssumption DEF began, TypeInv
  <2>3. \A t \in lastPoll : ago(t)'
    BY <2>1, <2>2 DEF ClockInv, Past
  <2>4. mono <= mono + PollDelay /\ mono <= mono
    BY TrackerAssumption DEF TypeInv
  <2>5. QED  BY <2>1, <2>2, <2>3, <2>4 DEF ClockInv, Past, Offset
<1>3. CASE WindowFails
  <2>1. /\ UNCHANGED <<mono, slept, lastInput, inputs, state, current, lastPoll, enqueued, naps>>
        /\ pc = "idle" /\ pc' = "ticker" /\ deadline' = deadline - PollDelay + PollInterval
        /\ "window" \in mishaps'
    BY <1>3 DEF WindowFails, PollEnds, clocks, user, tracker
  <2>2. began' = began
    BY <2>1, TrackerAssumption DEF began, TypeInv
  <2>3. QED  BY <2>1, <2>2 DEF ClockInv, Past, Offset
<1>4. CASE Return
  <2>1. /\ UNCHANGED <<mono, slept, lastInput, inputs, state, lastPoll, naps, mishaps, deadline>>
        /\ pc = "ticker" /\ pc' = "returned" /\ current' = {}
    BY <1>4, Ended DEF clocks, user
  <2>2. began' = began
    BY <2>1 DEF began
  <2>3. QED  BY <2>1, <2>2 DEF ClockInv, Past, Offset
<1>5. ASSUME NEW info \in Windows \union {NoWindow}, ReadWindow(info)
      PROVE  ClockInv'
  <2>1. /\ UNCHANGED <<mono, slept, lastInput, inputs, naps>>
        /\ pc = "idle" /\ pc' = "ticker" /\ deadline' = deadline - PollDelay + PollInterval
        /\ lastPoll' = {Now} /\ state' = IF Away(info) THEN "idle" ELSE "tracking"
    BY <1>5, Polled DEF PollEnds, clocks, user
  <2>2. began' = began
    BY <2>1, TrackerAssumption DEF began, TypeInv
  <2>3. /\ Now.mono = mono /\ Offset(Now) = slept /\ mono \in Nat /\ slept \in Nat
        /\ slept <= slept /\ 0 <= slept
    BY DEF Now, Offset, TypeInv
  <2>4. /\ \A c \in current' : c.start.mono <= mono /\ 0 <= Offset(c.start) /\ Offset(c.start) <= slept
        /\ Away(info) => current' = {}
    <3>1. CASE Keeps(info)
      BY <3>1 DEF Keeps, ClockInv, Past
    <3>2. ASSUME NEW at \in Time, Cuts(info, at)
          PROVE  /\ \A c \in current' : c.start.mono <= mono /\ 0 <= Offset(c.start) /\ Offset(c.start) <= slept
                 /\ Away(info) => current' = {}
      BY <2>3, <3>2 DEF Cuts, startNew
    <3>3. QED  BY <1>5, <3>1, <3>2, Polled
  <2>5. \A t \in lastPoll' : Past(t)' /\ ago(t)'
    BY <2>1, <2>2, <2>3 DEF ClockInv, Past, Offset
  <2>6. \A c \in current' : Past(c.start)' /\ older(c)'
    BY <2>1, <2>3, <2>4 DEF Past, Offset
  <2>7. QED  BY <2>1, <2>2, <2>4, <2>5, <2>6 DEF ClockInv
<1>6. QED  BY <1>1, <1>2, <1>3, <1>4, <1>5 DEF Next

\* Stuttering keeps all of it.
LEMMA Stutters ==
    ASSUME TrackerInv, UNCHANGED vars
    PROVE  TrackerInv'
<1>1. /\ UNCHANGED <<mono, slept, lastInput, inputs, pc, deadline, idleTime, state, current, lastPoll>>
      /\ UNCHANGED <<enqueued, naps, mishaps>>
  BY DEF vars, clocks, user, tracker
<1>2. Now' = Now /\ began' = began
  BY <1>1 DEF Now, began
<1>3. TypeInv' /\ ClockInv' /\ NapInv'
  BY <1>1, <1>2 DEF TrackerInv, TypeInv, ClockInv, NapInv, Past, Offset
<1>4. IdleInv'
  BY <1>1, <1>2 DEF TrackerInv, IdleInv, Touched
<1>5. CreditInv'
  BY <1>1, <1>2 DEF TrackerInv, CreditInv, Credited, Records
<1>6. Disjoint' /\ NapsCutRecords'
  BY <1>1, <1>2 DEF TrackerInv, Disjoint, NapsCutRecords, Records
<1>7. IdleBounded'
  BY <1>1 DEF TrackerInv, IdleBounded, Touched
<1>8. QED  BY <1>3, <1>4, <1>5, <1>6, <1>7 DEF TrackerInv
-----------------------------------------------------------------------------
(* The wall clock: records, the open segment and sleeps.                   *)

\* A segment that is cut when it may be ends before now, and after it started.
CutEnds(c, at) == at.mono <= mono => c.start.wall + (at.mono - c.start.mono) <= Now.wall

\* So it is for the open segment.
LEMMA CutInTime ==
    ASSUME TypeInv, ClockInv, NEW c \in current, NEW at \in Time
    PROVE  CutEnds(c, at)
  BY DEF TypeInv, ClockInv, Past, Offset, Now, CutEnds, Segment, Time

\* Where a poll cuts, it is not later than now.
LEMMA CutsPast ==
    ASSUME TypeInv, ClockInv, NEW info, NEW at \in Time, Cuts(info, at)
    PROVE  at.mono <= mono
<1>1. CASE at \in lastPoll
  BY <1>1 DEF ClockInv, Past
<1>2. CASE at = Now \/ at = Minus(Now, idleTime)
  BY <1>2 DEF TypeInv, Now, Minus
<1>3. QED  BY <1>1, <1>2 DEF Cuts

\* Disjoint in terms of the sequence.
LEMMA DisjointParts ==
    Disjoint <=>
        /\ \A i \in DOMAIN enqueued : /\ enqueued[i].start.wall < enqueued[i].end.wall
                                      /\ enqueued[i].end.wall <= Now.wall
                                      /\ \A c \in current : enqueued[i].end.wall <= c.start.wall
        /\ \A i, j \in DOMAIN enqueued : i < j => enqueued[i].end.wall <= enqueued[j].start.wall
  BY DEF Disjoint, Records

\* One more record, or none, with nothing open after it but what starts now.
LEMMA CutDisjoint ==
    ASSUME TypeInv, ClockInv, Disjoint, NEW at \in Time, at.mono <= mono,
           Cut(enqueued, enqueued', current, at), enqueued' \in Seq(Record),
           Now'.wall = Now.wall, \A c \in current' : c.start = Now
    PROVE  Disjoint'
<1>1. CASE enqueued' = enqueued
  BY <1>1 DEF Disjoint, Records
<1>2. ASSUME NEW c \in current, NEW r \in Record, Closes(c, at, r), enqueued' = Append(enqueued, r)
      PROVE  Disjoint'
  <2>1. enqueued \in Seq(Record)
    BY DEF TypeInv
  <2> DEFINE q == enqueued
             n == Len(q)
  <2>2. /\ n \in Nat /\ DOMAIN q = 1..n /\ DOMAIN enqueued' = 1..(n + 1)
        /\ \A i \in 1..n : enqueued'[i] = q[i] /\ q[i] \in Record
        /\ enqueued'[n + 1] = r
    BY <1>2, <2>1
  <2>3. r.start.wall < r.end.wall /\ r.end.wall <= Now.wall /\ r.start = c.start
    <3>1. c.start.wall \in Int /\ c.start.mono \in Int /\ at.mono \in Int
      BY DEF TypeInv, Segment, Time
    <3>2. QED  BY <1>2, <3>1, CutInTime DEF Closes, CutEnds
  <2>4. /\ \A i \in 1..n : q[i].start.wall < q[i].end.wall /\ q[i].end.wall <= Now.wall
                           /\ q[i].end.wall <= c.start.wall
        /\ \A i, j \in 1..n : i < j => q[i].end.wall <= q[j].start.wall
    BY <2>2, DisjointParts
  <2>5. \A i \in 1..(n + 1) : i \in 1..n \/ i = n + 1
    BY <2>2
  <2> HIDE DEF n, q
  <2>6. ASSUME NEW i \in DOMAIN enqueued'
        PROVE  /\ enqueued'[i].start.wall < enqueued'[i].end.wall /\ enqueued'[i].end.wall <= Now'.wall
               /\ \A d \in current' : enqueued'[i].end.wall <= d.start.wall
    BY <2>2, <2>3, <2>4, <2>5
  <2>7. ASSUME NEW i \in DOMAIN enqueued', NEW j \in DOMAIN enqueued', i < j
        PROVE  enqueued'[i].end.wall <= enqueued'[j].start.wall
    <3>1. i \in 1..n /\ (j \in 1..n \/ j = n + 1)
      BY <2>2, <2>5, <2>7
    <3>2. QED  BY <2>2, <2>3, <2>4, <2>7, <3>1
  <2>8. QED  BY <2>6, <2>7 DEF Disjoint, Records
<1>3. QED  BY <1>1, <1>2 DEF Cut

\* Disjoint is kept by every step.
LEMMA NextDisjoint ==
    ASSUME TypeInv, ClockInv, Disjoint, Next
    PROVE  Disjoint'
<1>1. CASE Environment \/ ReadIdle \/ WindowFails
  <2>1. enqueued' = enqueued /\ current' = current /\ Now'.wall \in Int /\ Now.wall \in Int /\ Now.wall <= Now'.wall
    BY <1>1, TrackerAssumption
       DEF Environment, Tick, Input, Sleep, ReadIdle, WindowFails, PollEnds, clocks, tracker, Now, TypeInv
  <2>2. \A r \in Records : r.end.wall \in Int
    <3>1. \A i \in DOMAIN enqueued : enqueued[i] \in Record
      BY DEF TypeInv
    <3>2. QED  BY <3>1 DEF Records, Record, Time
  <2>3. QED  BY <2>1, <2>2 DEF Disjoint, Records
<1>2. CASE Return
  <2>1. /\ Now' = Now /\ Now.mono <= mono /\ Now \in Time
        /\ Cut(enqueued, enqueued', current, Now) /\ enqueued' \in Seq(Record) /\ current' = {}
    BY <1>2, Ended DEF Now, clocks, TypeInv
  <2>2. QED  BY <2>1, CutDisjoint
<1>3. ASSUME NEW info \in Windows \union {NoWindow}, ReadWindow(info)
      PROVE  Disjoint'
  <2>1. Now' = Now /\ enqueued' \in Seq(Record)
    BY <1>3, Polled DEF PollEnds, clocks, Now
  <2>2. CASE Keeps(info)
    BY <2>1, <2>2 DEF Keeps, Disjoint, Records
  <2>3. ASSUME NEW at \in Time, Cuts(info, at)
        PROVE  Disjoint'
    <3>1. /\ at.mono <= mono /\ Cut(enqueued, enqueued', current, at)
          /\ \A c \in current' : c.start = Now
      BY <2>3, CutsPast DEF Cuts, startNew
    <3>2. QED  BY <2>1, <3>1, CutDisjoint
  <2>4. QED  BY <1>3, <2>2, <2>3, Polled
<1>4. QED  BY <1>1, <1>2, <1>3 DEF Next

\* A long sleep that no poll has looked for is found by the next one: without a
\* suspension, every open segment started after every long sleep.
LEMMA Unsuspended ==
    ASSUME TypeInv, ClockInv, NapInv, ~suspended(Now), NEW c \in current,
           NEW n \in naps, n.to - n.from >= suspendGapThreshold
    PROVE  ~(c.start.wall <= n.from)
<1>1. /\ n.from \in Int /\ n.to \in Int /\ mono \in Nat /\ slept \in Nat
      /\ \A t \in lastPoll : t \in Time
      /\ c.start \in Time
  BY DEF TypeInv, Segment
<1>2. n.from < n.to /\ n.to <= Now.wall /\ Now.wall = mono + slept
  BY DEF NapInv, Now
<1>3. PICK t \in lastPoll : TRUE
  BY DEF ClockInv
<1>4. (Now.wall - t.wall) - elapsed(t, Now) = slept - Offset(t) /\ Offset(t) \in Int
  BY <1>1, <1>3 DEF Now, elapsed, Offset, Time
<1>5. ~(slept - Offset(t) >= suspendGapThreshold)
  BY <1>3, <1>4 DEF suspended
<1>6. n.to <= t.wall
  BY <1>1, <1>2, <1>3, <1>4, <1>5, TrackerAssumption DEF NapInv
<1>7. c.start.wall <= n.from => t.wall <= n.from
  BY <1>3 DEF NapInv
<1>8. t.wall \in Int /\ c.start.wall \in Int
  BY <1>1, <1>3 DEF Time
<1>9. QED  BY <1>1, <1>2, <1>6, <1>7, <1>8

\* NapInv is kept by every step.
LEMMA NextNaps ==
    ASSUME TypeInv, ClockInv, NapInv, Next
    PROVE  NapInv'
<1>0. /\ naps \in SUBSET [from : Int, to : Int] /\ mono \in Nat /\ slept \in Nat
      /\ \A t \in lastPoll : t \in Time /\ t.mono <= mono /\ 0 <= Offset(t) /\ Offset(t) <= slept
      /\ \A c \in current : c.start \in Time
  BY DEF TypeInv, ClockInv, Past, Segment
<1>1. CASE Environment \/ ReadIdle \/ WindowFails
  <2>0. current' = current /\ lastPoll' = lastPoll
    BY <1>1 DEF Environment, Tick, Input, Sleep, ReadIdle, WindowFails, PollEnds, tracker
  <2>1. CASE Sleep
    <3>1. PICK d \in 1..(MaxSlept - slept) :
            slept' = slept + d /\ naps' = naps \union {[from |-> Now.wall, to |-> Now.wall + d]}
      BY <2>1 DEF Sleep
    <3>2. mono' = mono /\ Now.wall = mono + slept /\ Now'.wall = mono + slept + d /\ d \in Nat /\ d > 0
      BY <1>0, <2>1, <3>1, TrackerAssumption DEF Sleep, Now
    <3>3. ASSUME NEW n \in naps
          PROVE  /\ n.from < n.to /\ n.to <= Now'.wall
                 /\ \A t \in lastPoll' :
                      n.to <= t.wall \/ (t.wall <= n.from /\ n.to - n.from <= slept' - Offset(t))
                 /\ n.to - n.from >= suspendGapThreshold =>
                      \A c \in current', t \in lastPoll' : c.start.wall <= n.from => t.wall <= n.from
      <4>1. n.from \in Int /\ n.to \in Int /\ \A t \in lastPoll : Offset(t) \in Int
        BY <1>0 DEF Offset, Time
      <4>2. QED  BY <1>0, <2>0, <3>1, <3>2, <3>3, <4>1 DEF NapInv
    <3>4. \A t \in lastPoll : t.wall <= Now.wall /\ d <= slept' - Offset(t)
      BY <1>0, <3>1, <3>2 DEF Offset, Time
    <3>5. QED  BY <1>0, <2>0, <3>1, <3>2, <3>3, <3>4 DEF NapInv, Offset
  <2>2. CASE ~Sleep
    <3>1. naps' = naps /\ slept' = slept /\ Now.wall <= Now'.wall /\ Now.wall \in Int /\ Now'.wall \in Int
      BY <1>0, <1>1, <2>2
         DEF Environment, Tick, Input, ReadIdle, WindowFails, PollEnds, clocks, user, Now
    <3>2. QED  BY <1>0, <2>0, <3>1 DEF NapInv, Offset
  <2>3. QED  BY <2>1, <2>2
<1>2. CASE Return
  <2>1. UNCHANGED <<mono, slept, naps, lastPoll>> /\ current' = {}
    BY <1>2, Ended DEF clocks
  <2>2. QED  BY <2>1 DEF NapInv, Now, Offset
<1>3. ASSUME NEW info \in Windows \union {NoWindow}, ReadWindow(info)
      PROVE  NapInv'
  <2>1. UNCHANGED <<mono, slept, naps>> /\ lastPoll' = {Now} /\ Now' = Now
    BY <1>3, Polled DEF PollEnds, clocks, user, Now
  <2>2. ASSUME NEW n \in naps, n.to - n.from >= suspendGapThreshold, NEW c \in current'
        PROVE  ~(c.start.wall <= n.from)
    <3>0. n.from \in Int /\ n.to \in Int /\ n.from < n.to /\ n.to <= Now.wall /\ Now.wall = mono + slept
      BY <1>0 DEF NapInv, Now
    <3>1. CASE Keeps(info)
      BY <2>2, <3>1, Unsuspended DEF Keeps
    <3>2. ASSUME NEW at \in Time, Cuts(info, at)
          PROVE  ~(c.start.wall <= n.from)
      <4>1. c.start = Now
        BY <3>2 DEF Cuts, startNew
      <4>2. QED  BY <1>0, <3>0, <4>1 DEF Now
    <3>3. QED  BY <1>3, <3>1, <3>2, Polled
  <2>3. QED  BY <2>1, <2>2 DEF NapInv
<1>4. QED  BY <1>1, <1>2, <1>3 DEF Next

\* What a cut leaves: the records there were, and perhaps one more at the end.
LEMMA CutFacts ==
    ASSUME TypeInv, NEW at, Cut(enqueued, enqueued', current, at), NEW i \in DOMAIN enqueued'
    PROVE  \/ i \in DOMAIN enqueued /\ enqueued'[i] = enqueued[i]
           \/ /\ i = Len(enqueued') /\ enqueued'[i] \in Record
              /\ \E c \in current : Closes(c, at, enqueued'[i])
<1>1. CASE enqueued' = enqueued
  BY <1>1
<1>2. ASSUME NEW c \in current, NEW r \in Record, Closes(c, at, r), enqueued' = Append(enqueued, r)
      PROVE  \/ i \in DOMAIN enqueued /\ enqueued'[i] = enqueued[i]
             \/ i = Len(enqueued') /\ enqueued'[i] = r
  <2>1. enqueued \in Seq(Record)
    BY DEF TypeInv
  <2>2. QED  BY <1>2, <2>1
<1>3. QED  BY <1>1, <1>2 DEF Cut

\* NapsCutRecords is kept by every step.
LEMMA NextNapsCut ==
    ASSUME TypeInv, ClockInv, NapInv, Disjoint, NapsCutRecords, Next
    PROVE  NapsCutRecords'
<1> DEFINE Long(n) == n.to - n.from >= suspendGapThreshold
           Apart(i, n) == enqueued[i].start.wall <= n.from => enqueued[i].end.wall <= n.from
<1>0. /\ naps \in SUBSET [from : Int, to : Int] /\ mono \in Nat /\ slept \in Nat
      /\ PollInterval \in Nat /\ PollDelay \in Nat
  BY TrackerAssumption DEF TypeInv
<1>1. pc # "returned" => \A n \in naps : Long(n) => \A i \in DOMAIN enqueued : Apart(i, n)
  BY DEF NapsCutRecords
<1>2. CASE Environment \/ ReadIdle \/ WindowFails
  <2>1. enqueued' = enqueued /\ pc # "returned" /\ pc' # "returned"
    BY <1>2 DEF Environment, Tick, Input, Sleep, ReadIdle, WindowFails, PollEnds, tracker
  <2>2. \A n \in naps' : n \in naps \/ n.from = Now.wall
    BY <1>2 DEF Environment, Tick, Input, Sleep, ReadIdle, WindowFails, PollEnds
  <2>3. \A i \in DOMAIN enqueued : enqueued[i].end.wall <= Now.wall
    BY DEF Disjoint, Records
  <2>4. QED  BY <1>1, <2>1, <2>2, <2>3 DEF NapsCutRecords
<1>3. ASSUME NEW info \in Windows \union {NoWindow}, ReadWindow(info)
      PROVE  NapsCutRecords'
  <2>1. naps' = naps /\ pc = "idle" /\ pc' # "returned"
    BY <1>3, Polled DEF PollEnds
  <2>2. CASE Keeps(info)
    BY <1>1, <2>1, <2>2 DEF NapsCutRecords, Keeps
  <2>3. ASSUME NEW at \in Time, Cuts(info, at), NEW n \in naps, Long(n), NEW i \in DOMAIN enqueued'
        PROVE  enqueued'[i].start.wall <= n.from => enqueued'[i].end.wall <= n.from
    <3>1. CASE i \in DOMAIN enqueued /\ enqueued'[i] = enqueued[i]
      BY <1>1, <2>1, <2>3, <3>1
    <3>2. ASSUME NEW c \in current, NEW r \in Record, r = enqueued'[i], Closes(c, at, r),
                 r.start.wall <= n.from
          PROVE  r.end.wall <= n.from
      <4>1. c.start.wall <= n.from
        BY <3>2 DEF Closes
      <4>2. at \in lastPoll
        BY <2>3, <4>1, Unsuspended DEF Cuts
      <4>3. at.wall <= n.from
        BY <2>3, <4>1, <4>2 DEF NapInv
      <4>4. Offset(c.start) <= Offset(at)
        BY <4>2 DEF ClockInv, TypeInv
      <4>5. c.start \in Time /\ n.from \in Int
        BY <1>0 DEF TypeInv, Segment
      <4>6. QED  BY <3>2, <4>3, <4>4, <4>5 DEF Closes, Offset, Time
    <3>3. QED  BY <2>3, <3>1, <3>2, CutFacts DEF Cuts
  <2>4. QED  BY <1>3, <2>1, <2>2, <2>3, Polled DEF NapsCutRecords
<1>4. CASE Return
  <2>1. /\ naps' = naps /\ mishaps' = mishaps /\ pc = "ticker" /\ pc' = "returned" /\ Now \in Time
        /\ Cut(enqueued, enqueued', current, Now)
    BY <1>4, Ended
  <2>2. ASSUME NEW n \in naps, Long(n), NEW i \in DOMAIN enqueued', enqueued'[i].start.wall <= n.from
        PROVE  \/ enqueued'[i].end.wall <= n.from
               \/ /\ i = Len(enqueued')
                  /\ "window" \in mishaps \/ enqueued'[i].end.wall <= n.from + Slack
    <3>1. CASE i \in DOMAIN enqueued /\ enqueued'[i] = enqueued[i]
      BY <1>1, <2>1, <2>2, <3>1
    <3>2. ASSUME NEW c \in current, NEW r \in Record, r = enqueued'[i], Closes(c, Now, r),
                 "window" \notin mishaps
          PROVE  r.end.wall <= n.from + Slack
      <4>1. c.start.wall <= n.from
        BY <2>2, <3>2 DEF Closes
      <4>2. PICK t \in lastPoll : c.start.mono <= t.mono /\ Offset(c.start) <= Offset(t)
        BY DEF ClockInv
      <4>3. t.wall <= n.from
        BY <2>2, <4>1, <4>2 DEF NapInv
      <4>4. mono <= t.mono + Slack
        <5>1. began <= t.mono /\ (mono <= began + PollInterval \/ mono <= began + PollDelay)
          BY <2>1, <3>2, <4>2 DEF ClockInv
        <5>2. t.mono \in Int /\ began \in Int
          BY <1>0, <4>2 DEF TypeInv, Time, began
        <5>3. QED  BY <1>0, <5>1, <5>2 DEF Slack
      <4>5. c.start \in Time /\ t \in Time /\ n.from \in Int /\ Slack \in Nat
        BY <1>0, <4>2 DEF TypeInv, Segment, Slack
      <4>6. r.end.wall = c.start.wall + (mono - c.start.mono)
        BY <3>2 DEF Closes, Now
      <4>7. QED  BY <1>0, <4>2, <4>3, <4>4, <4>5, <4>6 DEF Offset, Time
    <3>3. QED  BY <2>1, <3>1, <3>2, CutFacts
  <2>3. QED  BY <2>1, <2>2 DEF NapsCutRecords
<1>5. QED  BY <1>2, <1>3, <1>4 DEF Next
-----------------------------------------------------------------------------
(* The user: records without one.                                          *)

Clean == mishaps \intersect {"idle", "window"} = {}

\* A touch in the n moments up to x, as far as is known after the step.
Later(x, n) == \E m \in inputs' : m <= x /\ x < m + n

\* Who was there stays recorded as having been there.
LEMMA StaysTouched ==
    ASSUME NEW x, NEW n, Touched(x, n), inputs \subseteq inputs'
    PROVE  Later(x, n)
  BY DEF Touched, Later

\* What the poll under way has read.
LEMMA IdleRead ==
    ASSUME TypeInv, ClockInv, IdleInv, Clean, pc = "idle"
    PROVE  /\ began - idleTime \in inputs /\ began - idleTime \in Nat
           /\ mono \in Nat /\ began \in Int /\ idleTime \in Nat
           /\ began - idleTime <= began /\ began <= mono /\ mono <= began + PollDelay
           /\ PollDelay \in Nat /\ PollInterval \in Nat /\ IdleThreshold \in Nat /\ IdleThreshold > 0
           /\ IdleThreshold + Slack = IdleThreshold + PollInterval + PollDelay
<1>1. began \in Int /\ idleTime \in Nat /\ mono \in Nat
  BY TrackerAssumption DEF TypeInv, began
<1>2. began - idleTime \in inputs
  BY DEF IdleInv, Clean
<1>3. began - idleTime <= began
  BY <1>1
<1>4. IdleThreshold + Slack = IdleThreshold + PollInterval + PollDelay
  BY TrackerAssumption DEF Slack
<1>5. QED  BY <1>1, <1>2, <1>3, <1>4, TrackerAssumption DEF TypeInv, ClockInv

\* A moment after the reading is not long after the touch it found, if it found one.
LEMMA AfterReading ==
    ASSUME TypeInv, ClockInv, IdleInv, Clean, pc = "idle", NEW x \in Int,
           began - idleTime <= x, x <= mono,
           idleTime < IdleThreshold \/ x <= began - idleTime + PollDelay
    PROVE  Touched(x, IdleThreshold + PollDelay) /\ Touched(x, IdleThreshold + Slack)
<1> DEFINE m == began - idleTime
<1>1. m \in inputs /\ m <= x /\ x < m + (IdleThreshold + PollDelay) /\ x < m + (IdleThreshold + Slack)
  BY IdleRead
<1> HIDE DEF m
<1>2. QED  BY <1>1 DEF Touched

\* All the time an open segment has been open, the user was not far, up to any
\* moment that the poll under way has read as close enough.
LEMMA SegmentTouched ==
    ASSUME TypeInv, ClockInv, IdleInv, Clean, pc = "idle", NEW c \in current, NEW y \in Int,
           y <= began \/ (y <= mono /\ (idleTime < IdleThreshold \/ y <= began - idleTime + PollDelay))
    PROVE  \A x \in c.start.mono..y : Touched(x, IdleThreshold + Slack)
<1> SUFFICES ASSUME NEW x \in c.start.mono..y
             PROVE  Touched(x, IdleThreshold + Slack)
  OBVIOUS
<1>1. c.start.mono \in Int /\ x \in Int /\ x <= y
  BY DEF TypeInv, Segment, Time
<1>2. CASE x <= began
  <2>1. PICK t \in lastPoll : TRUE
    BY DEF ClockInv
  <2>2. x \in c.start.mono..began
    BY <1>1, <1>2, IdleRead
  <2>3. QED  BY <2>1, <2>2 DEF IdleInv, Clean
<1>3. CASE ~(x <= began)
  <2>1. began - idleTime <= x /\ x <= mono /\ (idleTime < IdleThreshold \/ x <= began - idleTime + PollDelay)
    BY <1>1, <1>3, IdleRead
  <2>2. QED  BY <1>1, <2>1, AfterReading
<1>4. QED  BY <1>2, <1>3

\* Between two polls the user was not far either.
LEMMA Rested ==
    ASSUME TypeInv, ClockInv, IdleInv, Clean, pc = "ticker", NEW c \in current
    PROVE  \A x \in c.start.mono..mono : Touched(x, IdleThreshold + Slack)
<1> SUFFICES ASSUME NEW x \in c.start.mono..mono
             PROVE  Touched(x, IdleThreshold + Slack)
  OBVIOUS
<1>0. /\ c.start.mono \in Int /\ x \in Int /\ x <= mono /\ mono \in Nat /\ began \in Int
      /\ PollDelay \in Nat /\ PollInterval \in Nat /\ IdleThreshold \in Nat
      /\ inputs \in SUBSET Nat
  BY TrackerAssumption DEF TypeInv, Segment, Time, began
<1>1. PICK t \in lastPoll : TRUE
  BY DEF ClockInv
<1>2. t.mono \in Int /\ began <= t.mono
  BY <1>1 DEF TypeInv, Time, ClockInv, Clean
<1>3. CASE x <= t.mono
  <2>1. x \in c.start.mono..t.mono
    BY <1>0, <1>2, <1>3
  <2>2. QED  BY <1>1, <2>1 DEF IdleInv, Clean
<1>4. CASE ~(x <= t.mono)
  <2>1. PICK m \in inputs : m <= began /\ began < m + IdleThreshold
    BY <1>1 DEF IdleInv, Clean, Touched
  <2>2. mono <= began + PollInterval \/ mono <= began + PollDelay
    BY DEF ClockInv
  <2>3. m <= x /\ x < m + (IdleThreshold + (PollInterval + PollDelay))
    BY <1>0, <1>2, <1>4, <2>1, <2>2
  <2>4. QED  BY <2>1, <2>3 DEF Touched, Slack
<1>5. QED  BY <1>3, <1>4

\* Where a poll cuts, the user has just been there.
LEMMA CutTouched ==
    ASSUME TypeInv, ClockInv, IdleInv, Clean, pc = "idle", NEW info, NEW at \in Time, Cuts(info, at),
           NEW c \in current
    PROVE  /\ \A x \in c.start.mono..at.mono : Touched(x, IdleThreshold + Slack)
           /\ Touched(at.mono, IdleThreshold + PollDelay)
<1>0. at.mono \in Int
  BY DEF Time
<1>1. CASE at \in lastPoll
  <2>1. at.mono <= began
    BY <1>1 DEF ClockInv, Clean
  <2>2. Touched(at.mono, IdleThreshold + PollDelay)
    BY <1>1 DEF IdleInv, Clean
  <2>3. QED  BY <1>0, <2>1, <2>2, SegmentTouched
<1>2. CASE at = Now /\ ~Away(info)
  <2>1. at.mono = mono /\ idleTime < IdleThreshold
    BY <1>2, IdleRead DEF Now, Away
  <2>2. at.mono <= mono /\ began - idleTime <= at.mono
    BY <2>1, IdleRead
  <2>3. QED  BY <1>0, <2>1, <2>2, SegmentTouched, AfterReading
<1>3. CASE at = Minus(Now, idleTime)
  <2>1. at.mono = mono - idleTime
    BY <1>3 DEF Now, Minus
  <2>2. at.mono <= mono /\ began - idleTime <= at.mono /\ at.mono <= began - idleTime + PollDelay
    BY <2>1, IdleRead
  <2>3. QED  BY <1>0, <2>2, SegmentTouched, AfterReading
<1>4. QED  BY <1>1, <1>2, <1>3 DEF Cuts

\* IdleBounded is kept by every step.
LEMMA NextIdleBounded ==
    ASSUME TypeInv, ClockInv, IdleInv, IdleBounded, Next
    PROVE  IdleBounded'
<1> DEFINE OK(r) == /\ \A t \in r.start.mono..r.end.mono : Touched(t, IdleThreshold + Slack)
                    /\ Touched(r.end.mono, IdleThreshold + PollDelay)
<1>0. mishaps \subseteq mishaps' /\ inputs \subseteq inputs'
  <2>1. CASE Environment \/ ReadIdle \/ WindowFails \/ Return
    BY <2>1 DEF Environment, Tick, Input, Sleep, ReadIdle, WindowFails, PollEnds, Return, user
  <2>2. ASSUME NEW info \in Windows \union {NoWindow}, ReadWindow(info)
        PROVE  mishaps \subseteq mishaps' /\ inputs \subseteq inputs'
    BY <2>2, Polled DEF PollEnds, user
  <2>3. QED  BY <2>1, <2>2 DEF Next
<1> SUFFICES ASSUME Clean'
             PROVE  \A i \in DOMAIN enqueued' :
                      /\ \A t \in enqueued'[i].start.mono..enqueued'[i].end.mono :
                           Later(t, IdleThreshold + Slack)
                      /\ \/ Later(enqueued'[i].end.mono, IdleThreshold + PollDelay)
                         \/ pc' = "returned" /\ i = Len(enqueued')
  BY DEF IdleBounded, Clean, Touched, Later
<1>1. Clean
  BY <1>0 DEF Clean
<1>2. pc # "returned" => \A i \in DOMAIN enqueued : OK(enqueued[i])
  BY <1>1 DEF IdleBounded, Clean
<1>3. \A r : OK(r) => /\ \A t \in r.start.mono..r.end.mono : Later(t, IdleThreshold + Slack)
                      /\ Later(r.end.mono, IdleThreshold + PollDelay)
  BY <1>0, StaysTouched
<1> HIDE DEF OK
<1>4. CASE Environment \/ ReadIdle \/ WindowFails
  <2>1. enqueued' = enqueued /\ pc # "returned"
    BY <1>4 DEF Environment, Tick, Input, Sleep, ReadIdle, WindowFails, PollEnds, tracker
  <2>2. QED  BY <1>2, <1>3, <2>1
<1>5. ASSUME NEW info \in Windows \union {NoWindow}, ReadWindow(info), NEW i \in DOMAIN enqueued'
      PROVE  OK(enqueued'[i])
  <2>1. pc = "idle"
    BY <1>5, Polled
  <2>2. CASE Keeps(info)
    BY <1>2, <1>5, <2>1, <2>2 DEF Keeps
  <2>3. ASSUME NEW at \in Time, Cuts(info, at)
        PROVE  OK(enqueued'[i])
    <3>1. CASE i \in DOMAIN enqueued /\ enqueued'[i] = enqueued[i]
      BY <1>2, <2>1, <3>1
    <3>2. ASSUME NEW c \in current, Closes(c, at, enqueued'[i])
          PROVE  OK(enqueued'[i])
      BY <1>1, <2>1, <2>3, <3>2, CutTouched DEF Closes, OK
    <3>3. QED  BY <1>5, <2>3, <3>1, <3>2, CutFacts DEF Cuts
  <2>4. QED  BY <1>5, <2>2, <2>3, Polled
<1>6. CASE Return
  <2>1. pc = "ticker" /\ pc' = "returned" /\ Cut(enqueued, enqueued', current, Now)
    BY <1>6, Ended
  <2>2. ASSUME NEW i \in DOMAIN enqueued'
        PROVE  \/ OK(enqueued'[i])
               \/ /\ i = Len(enqueued')
                  /\ \A t \in enqueued'[i].start.mono..enqueued'[i].end.mono : Touched(t, IdleThreshold + Slack)
    <3>1. CASE i \in DOMAIN enqueued /\ enqueued'[i] = enqueued[i]
      BY <1>2, <2>1, <3>1
    <3>2. ASSUME NEW c \in current, Closes(c, Now, enqueued'[i])
          PROVE  \A t \in enqueued'[i].start.mono..enqueued'[i].end.mono : Touched(t, IdleThreshold + Slack)
      <4>1. enqueued'[i].start = c.start /\ enqueued'[i].end.mono = mono
        BY <3>2 DEF Closes, Now
      <4>2. QED  BY <1>1, <2>1, <4>1, Rested
    <3>3. QED  BY <2>1, <3>1, <3>2, CutFacts
  <2>3. QED  BY <1>0, <1>3, <2>1, <2>2, StaysTouched
<1>7. QED  BY <1>3, <1>4, <1>5, <1>6 DEF Next

\* IdleInv is kept by every step.
LEMMA NextIdle ==
    ASSUME TypeInv, ClockInv, IdleInv, Next
    PROVE  IdleInv'
<1>1. CASE Environment
  <2>1. /\ UNCHANGED <<pc, deadline, idleTime, state, current, lastPoll, mishaps>> /\ began' = began
        /\ inputs \subseteq inputs' /\ \A m \in inputs' : m \in inputs \/ m = mono
    BY <1>1 DEF Environment, Tick, Input, Sleep, tracker, user, clocks, began
  <2>2. mono \in Nat /\ began \in Int /\ began <= mono
    BY TrackerAssumption DEF TypeInv, ClockInv, began
  <2>3. \A x, n : Touched(x, n) => Later(x, n)
    BY <2>1, StaysTouched
  <2>4. QED  BY <2>1, <2>2, <2>3 DEF IdleInv, Touched, Later
<1>2. CASE ReadIdle
  <2>1. /\ UNCHANGED <<mono, slept, lastInput, inputs, state, current, lastPoll>>
        /\ pc = "ticker" /\ pc' = "idle" /\ deadline' = mono + PollDelay
        /\ (idleTime' = mono - lastInput /\ mishaps' = mishaps) \/ "idle" \in mishaps'
    BY <1>2 DEF ReadIdle, clocks, user, tracker
  <2>2. began' = mono /\ mono \in Nat /\ lastInput \in Nat
    BY <2>1, TrackerAssumption DEF began, TypeInv
  <2>3. CASE idleTime' = mono - lastInput /\ mishaps' = mishaps /\ Clean
    <3>1. began' - idleTime' = lastInput /\ lastInput \in inputs /\ \A m \in inputs : m <= lastInput
      BY <2>2, <2>3 DEF ClockInv
    <3>2. ASSUME NEW c \in current, NEW t \in lastPoll
          PROVE  /\ Touched(t.mono, IdleThreshold + PollDelay)
                 /\ \A x \in c.start.mono..mono : Touched(x, IdleThreshold + Slack)
      BY <2>1, <2>3, Rested DEF IdleInv, Clean
    <3>3. QED  BY <2>1, <2>2, <3>1, <3>2 DEF IdleInv, Touched
  <2>4. QED  BY <2>1, <2>3 DEF IdleInv, Clean
<1>3. CASE WindowFails
  BY <1>3 DEF WindowFails, IdleInv
<1>4. CASE Return
  <2>1. current' = {} /\ pc' = "returned"
    BY <1>4, Ended
  <2>2. QED  BY <2>1 DEF IdleInv
<1>5. ASSUME NEW info \in Windows \union {NoWindow}, ReadWindow(info)
      PROVE  IdleInv'
  <2>1. /\ UNCHANGED <<mono, inputs>>
        /\ pc = "idle" /\ pc' = "ticker" /\ deadline' = deadline - PollDelay + PollInterval
        /\ lastPoll' = {Now} /\ mishaps \subseteq mishaps'
    BY <1>5, Polled DEF PollEnds, clocks, user
  <2>2. began' = began /\ mono \in Int /\ Now.mono = mono
    BY <2>1, TrackerAssumption DEF began, TypeInv, Now
  <2>3. ASSUME Clean, NEW c \in current'
        PROVE  /\ Touched(mono, IdleThreshold + PollDelay) /\ Touched(began, IdleThreshold)
               /\ \A x \in c.start.mono..mono : Touched(x, IdleThreshold + Slack)
    <3>1. ~Away(info) /\ (c \in current \/ c.start = Now)
      <4>1. CASE Keeps(info)
        BY <2>3, <4>1 DEF Keeps
      <4>2. ASSUME NEW at \in Time, Cuts(info, at)
            PROVE  ~Away(info) /\ c.start = Now
        BY <2>3, <4>2 DEF Cuts, startNew
      <4>3. QED  BY <1>5, <4>1, <4>2, Polled
    <3>2. idleTime < IdleThreshold
      BY <2>1, <2>3, <3>1, IdleRead DEF Away
    <3>3. Touched(mono, IdleThreshold + PollDelay) /\ Touched(mono, IdleThreshold + Slack)
      <4>1. mono <= mono /\ began - idleTime <= mono
        BY <2>1, <2>3, IdleRead
      <4>2. QED  BY <2>1, <2>2, <2>3, <3>2, <4>1, AfterReading
    <3>4. Touched(began, IdleThreshold)
      <4>1. began < (began - idleTime) + IdleThreshold
        BY <2>1, <2>3, <3>2, IdleRead
      <4>2. QED  BY <2>1, <2>3, <4>1, IdleRead DEF Touched
    <3>5. \A x \in c.start.mono..mono : Touched(x, IdleThreshold + Slack)
      <4>1. CASE c \in current
        <5>1. mono <= mono
          BY <2>2
        <5>2. QED  BY <2>1, <2>2, <2>3, <3>2, <4>1, <5>1, SegmentTouched
      <4>2. CASE c.start = Now
        BY <2>2, <3>3, <4>2
      <4>3. QED  BY <3>1, <4>1, <4>2
    <3>6. QED  BY <3>3, <3>4, <3>5
  <2>4. Clean' => Clean
    BY <2>1 DEF Clean
  <2>5. QED  BY <2>1, <2>2, <2>3, <2>4 DEF IdleInv, Clean, Touched
<1>6. QED  BY <1>1, <1>2, <1>3, <1>4, <1>5 DEF Next
-----------------------------------------------------------------------------
(* The user: work without a record.                                        *)

Calm == mishaps = {} /\ naps = {}

\* Without a sleep no poll finds one.
LEMMA CalmPoll ==
    ASSUME TypeInv, ClockInv, Calm
    PROVE  ~suspended(Now)
<1> SUFFICES ASSUME NEW t \in lastPoll, (Now.wall - t.wall) - elapsed(t, Now) >= suspendGapThreshold
             PROVE  FALSE
  BY DEF suspended
<1>1. t \in Time /\ mono \in Nat /\ slept = 0 /\ Offset(t) = 0
  BY DEF TypeInv, ClockInv, Past, Calm, Offset, Time
<1>2. (Now.wall - t.wall) - elapsed(t, Now) = 0
  BY <1>1 DEF Now, elapsed, Offset, Time
<1>3. QED  BY <1>2, TrackerAssumption

\* A touch that follows another at once is credited at once.
LEMMA CreditNow ==
    ASSUME TypeInv, ClockInv, CreditInv, Calm, pc # "returned", NEW m \in inputs, Follows(mono, m)
    PROVE  Credited(mono) /\ began < m + IdleThreshold
           /\ (pc = "idle" => m < began /\ m + Slack < began)
<1>0. /\ mono \in Nat /\ began \in Int /\ m \in Nat /\ Slack = PollInterval + PollDelay
      /\ PollInterval \in Nat /\ PollDelay \in Nat /\ IdleThreshold \in Nat
      /\ m + Slack + PollDelay < mono /\ mono < m + IdleThreshold
      /\ \A t \in lastPoll : t.mono \in Int /\ t.mono <= mono
      /\ \A c \in current : c.start.mono \in Int
  BY TrackerAssumption DEF TypeInv, ClockInv, Past, Follows, Slack, began, Time, Segment
<1>1. m < began /\ began < m + IdleThreshold /\ (pc = "idle" => m + Slack < began)
  <2>1. CASE pc = "ticker"
    <3>1. began <= mono /\ (mono <= began + PollInterval \/ mono <= began + PollDelay)
      BY <2>1 DEF ClockInv
    <3>2. QED  BY <1>0, <2>1, <3>1
  <2>2. CASE pc = "idle"
    <3>1. began <= mono /\ mono <= began + PollDelay
      BY <2>2 DEF ClockInv
    <3>2. QED  BY <1>0, <2>2, <3>1
  <2>3. QED  BY <2>1, <2>2 DEF TypeInv
<1>2. PICK c \in current : TRUE
  BY <1>1 DEF CreditInv, Calm, TypeInv
<1>3. PICK t \in lastPoll : c.start.mono <= t.mono
  BY <1>2 DEF ClockInv
<1>4. CASE c.start.mono < mono
  BY <1>1, <1>2, <1>4 DEF Credited
<1>5. CASE ~(c.start.mono < mono)
  <2>1. t.mono = mono
    BY <1>0, <1>2, <1>3, <1>5
  <2>2. Credited(mono)
    BY <1>3, <2>1 DEF CreditInv, Calm
  <2>3. QED  BY <1>1, <2>2
<1>6. QED  BY <1>4, <1>5

\* What was credited stays so when the segment is cut at or after it.
LEMMA CutCredits ==
    ASSUME TypeInv, NEW at \in Time, Cut(enqueued, enqueued', current, at), NEW x \in Int,
           Credited(x), x <= at.mono
    PROVE  Credited(x)'
<1>0. enqueued \in Seq(Record) /\ \A c, d \in current : c = d
  BY DEF TypeInv
<1>1. CASE \E r \in Records : r.start.mono <= x /\ x <= r.end.mono
  <2>1. PICK i \in DOMAIN enqueued : enqueued[i].start.mono <= x /\ x <= enqueued[i].end.mono
    BY <1>1 DEF Records
  <2>2. i \in DOMAIN enqueued' /\ enqueued'[i] = enqueued[i]
    BY <1>0, <2>1 DEF Cut
  <2>3. QED  BY <2>1, <2>2 DEF Credited, Records
<1>2. ASSUME NEW c \in current, c.start.mono < x
      PROVE  Credited(x)'
  <2>1. c.start.mono \in Int /\ at.mono \in Int
    BY DEF TypeInv, Segment, Time
  <2>2. PICK r \in Record : Closes(c, at, r) /\ enqueued' = Append(enqueued, r)
    BY <1>0, <1>2, <2>1 DEF Cut
  <2>3. r.start.mono <= x /\ x <= r.end.mono
    BY <1>2, <2>1, <2>2 DEF Closes
  <2>4. Len(enqueued) + 1 \in DOMAIN enqueued' /\ enqueued'[Len(enqueued) + 1] = r
    BY <1>0, <2>2
  <2>5. QED  BY <2>3, <2>4 DEF Credited, Records
<1>3. QED  BY <1>1, <1>2 DEF Credited

\* A poll that has a recent touch to see does not find the user away.
LEMMA SeesTouch ==
    ASSUME TypeInv, ClockInv, IdleInv, Calm, pc = "idle", NEW m \in inputs,
           m < began, began < m + IdleThreshold, NEW info, info # NoWindow
    PROVE  ~Away(info)
<1>1. Clean
  BY DEF Calm, Clean
<1>2. m <= began - idleTime /\ m \in Nat
  BY <1>1 DEF IdleInv, Clean, TypeInv
<1>3. idleTime < IdleThreshold
  BY <1>1, <1>2, IdleRead
<1>4. QED  BY <1>1, <1>3, IdleRead DEF Away

\* CreditInv is kept by every step.
LEMMA NextCredit ==
    ASSUME TypeInv, ClockInv, IdleInv, CreditInv, Next
    PROVE  CreditInv'
<1>0. /\ mono \in Nat /\ began \in Int /\ Slack = PollInterval + PollDelay
      /\ PollInterval \in Nat /\ PollDelay \in Nat /\ IdleThreshold \in Nat /\ Slack \in Nat
      /\ \A m \in inputs : m \in Nat /\ m <= mono
      /\ \A t \in lastPoll : t.mono \in Int /\ t.mono <= mono
  BY TrackerAssumption DEF TypeInv, ClockInv, Past, Slack, began, Time
<1>1. CASE Environment
  <2>1. /\ UNCHANGED <<pc, deadline, current, lastPoll, enqueued, mishaps>> /\ began' = began
        /\ pc # "returned"
    BY <1>1 DEF Environment, Tick, Input, Sleep, tracker, began
  <2>2. CASE Sleep
    BY <2>2 DEF Sleep, CreditInv
  <2>3. CASE Tick
    BY <2>1, <2>3 DEF Tick, CreditInv, Credited, Records, user
  <2>4. CASE Input
    <3>1. inputs' = inputs \union {mono} /\ naps' = naps
      BY <2>4 DEF Input
    <3>2. ASSUME Calm, NEW m0 \in inputs', NEW m \in inputs', Follows(m, m0)
          PROVE  Credited(m)
      <4>1. m0 + Slack + PollDelay < m
        BY <3>2 DEF Follows
      <4>2. m0 \in inputs
        BY <1>0, <3>1, <4>1
      <4>3. CASE m \in inputs
        BY <3>2, <4>2, <4>3 DEF CreditInv, Calm
      <4>4. CASE m = mono
        BY <2>1, <3>2, <4>2, <4>4, CreditNow
      <4>5. QED  BY <3>1, <4>3, <4>4
    <3>3. ASSUME Calm, NEW m \in inputs', NEW t \in lastPoll, Follows(t.mono, m)
          PROVE  Credited(t.mono)
      <4>1. m \in inputs
        BY <1>0, <3>1, <3>3 DEF Follows
      <4>2. QED  BY <3>3, <4>1 DEF CreditInv, Calm
    <3>4. ASSUME Calm, NEW m \in inputs', m < began, began < m + IdleThreshold
          PROVE  /\ pc = "ticker" => current # {}
                 /\ pc = "idle" /\ m + Slack < began => current # {}
      <4>1. m \in inputs
        BY <1>0, <3>1, <3>4 DEF ClockInv
      <4>2. QED  BY <3>4, <4>1 DEF CreditInv, Calm
    <3>5. QED  BY <2>1, <3>1, <3>2, <3>3, <3>4 DEF CreditInv, Calm, Credited, Records
  <2>5. QED  BY <1>1, <2>2, <2>3, <2>4 DEF Environment
<1>2. CASE ReadIdle
  <2>1. /\ UNCHANGED <<mono, inputs, current, lastPoll, enqueued, naps>>
        /\ pc = "ticker" /\ pc' = "idle" /\ deadline' = mono + PollDelay
        /\ mishaps' = {} => mishaps = {}
    BY <1>2 DEF ReadIdle, clocks, user, tracker
  <2>2. began' = mono
    BY <1>0, <2>1 DEF began
  <2>3. ASSUME Calm, NEW m \in inputs, mono < m + IdleThreshold, m + Slack < mono
        PROVE  current # {}
    <3>1. began <= mono /\ (mono <= began + PollInterval \/ mono <= began + PollDelay)
      BY <2>1 DEF ClockInv
    <3>2. m < began /\ began < m + IdleThreshold
      BY <1>0, <2>3, <3>1
    <3>3. QED  BY <2>1, <2>3, <3>2 DEF CreditInv, Calm
  <2>4. QED  BY <2>1, <2>2, <2>3 DEF CreditInv, Calm, Credited, Records
<1>3. CASE WindowFails
  BY <1>3 DEF WindowFails, CreditInv
<1>4. CASE Return
  <2>1. /\ UNCHANGED <<mono, inputs, lastPoll, naps, mishaps>> /\ Now \in Time /\ Now.mono = mono
        /\ Cut(enqueued, enqueued', current, Now) /\ pc' = "returned"
    BY <1>4, Ended DEF clocks, user, Now
  <2>2. ASSUME NEW x \in Int, x <= mono, Credited(x)
        PROVE  Credited(x)'
    BY <2>1, <2>2, CutCredits
  <2>3. ASSUME Calm, NEW m0 \in inputs, NEW m \in inputs, Follows(m, m0)
        PROVE  Credited(m)'
    BY <1>0, <2>2, <2>3 DEF CreditInv, Calm
  <2>4. ASSUME Calm, NEW m \in inputs, NEW t \in lastPoll, Follows(t.mono, m)
        PROVE  Credited(t.mono)'
    <3>1. Credited(t.mono) /\ t.mono \in Int /\ t.mono <= mono
      BY <1>0, <2>4 DEF CreditInv, Calm
    <3> DEFINE x == t.mono
    <3> HIDE DEF x
    <3>2. Credited(x)'
      BY <2>2, <3>1 DEF x
    <3>3. QED  BY <3>2 DEF x
  <2>5. QED  BY <2>1, <2>3, <2>4 DEF CreditInv, Calm
<1>5. ASSUME NEW info \in Windows \union {NoWindow}, ReadWindow(info)
      PROVE  CreditInv'
  <2>1. /\ UNCHANGED <<mono, inputs, naps>>
        /\ pc = "idle" /\ pc' = "ticker" /\ deadline' = deadline - PollDelay + PollInterval
        /\ lastPoll' = {Now} /\ Now.mono = mono /\ Now \in Time
        /\ mishaps' = {} => mishaps = {} /\ info # NoWindow
    <3>1. Now.mono = mono /\ Now \in Time
      BY DEF Now, TypeInv, Time
    <3>2. mishaps' = IF info = NoWindow THEN mishaps \union {"none"} ELSE mishaps
      BY <1>5, Polled
    <3>3. pc = "idle" /\ PollEnds /\ lastPoll' = {Now}
      BY <1>5, Polled
    <3>4. mishaps' = {} => mishaps = {} /\ info # NoWindow
      BY <3>2
    <3>5. QED  BY <3>1, <3>3, <3>4 DEF PollEnds, clocks, user
  <2>2. began' = began
    BY <1>0, <2>1, TrackerAssumption DEF began, TypeInv
  <2> SUFFICES ASSUME Calm, info # NoWindow
               PROVE  CreditInv'
    BY <2>1 DEF CreditInv, Calm
  <2>3. ASSUME NEW m \in inputs, m < began, began < m + IdleThreshold
        PROVE  ~Away(info) /\ current' # {}
    <3>1. ~Away(info)
      BY <2>1, <2>3, SeesTouch
    <3>2. CASE Keeps(info)
      BY <3>1, <3>2 DEF Keeps
    <3>3. ASSUME NEW at \in Time, Cuts(info, at)
          PROVE  current' # {}
      BY <3>1, <3>3 DEF Cuts, startNew
    <3>4. QED  BY <1>5, <3>1, <3>2, <3>3, Polled
  <2>4. ASSUME NEW x \in Int, Credited(x), x <= mono,
               Away(info) => x <= mono - idleTime
        PROVE  Credited(x)'
    <3>1. CASE Keeps(info)
      BY <2>4, <3>1 DEF Keeps, Credited, Records
    <3>2. ASSUME NEW at \in Time, Cuts(info, at)
          PROVE  Credited(x)'
      <4>1. x <= at.mono
        BY <2>1, <2>4, <3>2, CalmPoll DEF Cuts, Minus, Now
      <4>2. QED  BY <2>4, <3>2, <4>1, CutCredits DEF Cuts
    <3>3. QED  BY <1>5, <3>1, <3>2, Polled
  <2>5. ASSUME NEW m \in inputs, Follows(mono, m)
        PROVE  Credited(mono)'
    <3>1. Credited(mono) /\ m < began /\ began < m + IdleThreshold
      BY <2>1, <2>5, CreditNow
    <3>2. mono \in Int /\ mono <= mono /\ ~Away(info)
      BY <1>0, <2>3, <3>1
    <3> DEFINE x == mono
    <3>3. \A y \in Int : y = mono => Credited(y)'
      BY <2>4, <3>1, <3>2
    <3>4. QED  BY <2>1, <3>2, <3>3
  <2>6. ASSUME NEW m0 \in inputs, NEW m \in inputs, Follows(m, m0)
        PROVE  Credited(m)'
    <3>1. Credited(m) /\ m \in Int /\ m <= mono
      BY <1>0, <2>6 DEF CreditInv, Calm
    <3>2. Clean
      BY DEF Calm, Clean
    <3>3. Away(info) => m <= mono - idleTime
      <4>1. CASE m < began
        <5>1. m <= began - idleTime
          BY <2>1, <3>2, <4>1 DEF IdleInv, Clean
        <5>2. QED  BY <1>0, <2>1, <3>2, <5>1, IdleRead
      <4>2. CASE ~(m < began)
        <5>1. m0 + Slack + PollDelay < m /\ m < m0 + IdleThreshold /\ mono <= began + PollDelay
          BY <2>1, <2>6 DEF Follows, ClockInv
        <5>2. m0 < began /\ began < m0 + IdleThreshold
          BY <1>0, <4>2, <5>1
        <5>3. QED  BY <2>3, <5>2
      <4>3. QED  BY <4>1, <4>2
    <3>4. QED  BY <2>4, <3>1, <3>3
  <2>7. \A t \in lastPoll' : \A m \in inputs : Follows(t.mono, m) => t.mono = mono /\ Credited(mono)'
    BY <2>1, <2>5
  <2>8. QED  BY <2>1, <2>2, <2>3, <2>6, <2>7 DEF CreditInv, Follows
<1>6. QED  BY <1>1, <1>2, <1>3, <1>4, <1>5 DEF Next
-----------------------------------------------------------------------------
(* The theorems.                                                           *)

\* The inductive invariant holds in the initial state.
LEMMA InitInv == Init => TrackerInv
<1> SUFFICES ASSUME Init
             PROVE  TrackerInv
  OBVIOUS
<1>1. TypeInv
  BY TrackerAssumption DEF Init, TypeInv
<1>2. began = 0
  BY TrackerAssumption DEF Init, began
<1>3. ClockInv /\ NapInv /\ IdleInv
  BY <1>2, TrackerAssumption DEF Init, ClockInv, NapInv, IdleInv
<1>4. CreditInv
  BY <1>2, TrackerAssumption DEF Init, CreditInv, Follows, Slack
<1>5. Disjoint /\ NapsCutRecords /\ IdleBounded
  BY DEF Init, Disjoint, NapsCutRecords, IdleBounded, Records
<1>6. QED  BY <1>1, <1>3, <1>4, <1>5 DEF TrackerInv

\* Every step keeps it.
LEMMA StepInv == TrackerInv /\ [Next]_vars => TrackerInv'
<1> SUFFICES ASSUME TrackerInv, [Next]_vars
             PROVE  TrackerInv'
  OBVIOUS
<1>1. CASE Next
  <2>1. TypeInv' /\ ClockInv'
    BY <1>1, NextType, NextClock DEF TrackerInv
  <2>2. NapInv' /\ Disjoint' /\ NapsCutRecords'
    BY <1>1, NextNaps, NextDisjoint, NextNapsCut DEF TrackerInv
  <2>3. IdleInv' /\ IdleBounded' /\ CreditInv'
    BY <1>1, NextIdle, NextIdleBounded, NextCredit DEF TrackerInv
  <2>4. QED  BY <2>1, <2>2, <2>3 DEF TrackerInv
<1>2. CASE UNCHANGED vars
  BY <1>2, Stutters
<1>3. QED  BY <1>1, <1>2

\* The inductive invariant holds in every reachable state.
THEOREM TrackerInductive == Spec => []TrackerInv
  BY InitInv, StepInv, PTL DEF Spec

\* Records have a length, follow each other and end before the open segment.
THEOREM RecordsDisjoint == Spec => []Disjoint
<1>1. TrackerInv => Disjoint
  BY DEF TrackerInv
<1>2. QED  BY <1>1, TrackerInductive, PTL

\* No record spans a long sleep, but for a shutdown right after the wake.
THEOREM SleepCutsRecords == Spec => []NapsCutRecords
<1>1. TrackerInv => NapsCutRecords
  BY DEF TrackerInv
<1>2. QED  BY <1>1, TrackerInductive, PTL

\* With detectors that answer no record runs on without the user.
THEOREM IdleTimeIsCut == Spec => []IdleBounded
<1>1. TrackerInv => IdleBounded
  BY DEF TrackerInv
<1>2. QED  BY <1>1, TrackerInductive, PTL

\* In calm conditions a touch that follows another is in a record.
THEOREM WorkIsCredited == Spec => []InputCredited
<1>1. TrackerInv => InputCredited
  <2> SUFFICES ASSUME TrackerInv, Calm, NEW m0 \in inputs, NEW m \in inputs, Follows(m, m0)
               PROVE  \/ \E r \in Records : r.start.mono <= m /\ m <= r.end.mono
                      \/ \E c \in current : c.start.mono <= m
    BY DEF InputCredited, Calm
  <2>1. Credited(m)
    BY DEF TrackerInv, CreditInv, Calm
  <2>2. m \in Int /\ \A c \in current : c.start.mono \in Int
    BY DEF TrackerInv, TypeInv, Segment, Time
  <2>3. QED  BY <2>1, <2>2 DEF Credited
<1>2. QED  BY <1>1, TrackerInductive, PTL
=============================================================================
