------------------------------- MODULE Tracker -------------------------------
(***************************************************************************)
(* The native tracker (internal/tracker/tracker.go): a poll loop that      *)
(* reads how long the user has been idle and which window has the focus,   *)
(* and cuts the time between into records.                                 *)
(*                                                                         *)
(* Time is counted in units on two clocks, as time.Time does.  The         *)
(* monotonic clock stands still while the machine sleeps, the wall clock   *)
(* does not; a step of the wall clock looks like a sleep.  The user and    *)
(* the machine are part of the model: input, changes of window and sleep   *)
(* come at any moment, also between the two readings of one poll.          *)
(***************************************************************************)
EXTENDS Integers, Sequences, FiniteSets

CONSTANTS
    Windows,        \* what WindowInfo tells apart: app name and title
    NoWindow,       \* ErrNoActiveWindow
    PollInterval,   \* Config.PollInterval
    PollDelay,      \* bound on the time one poll takes
    IdleThreshold,  \* Config.IdleThreshold
    suspendGapThreshold,
    MaxTime,        \* bound on the monotonic clock
    MaxSlept        \* bound on the time slept

ASSUME TrackerAssumption ==
    /\ NoWindow \notin Windows
    /\ PollInterval \in Nat \ {0} /\ PollDelay \in Nat
    /\ IdleThreshold \in Nat \ {0} /\ suspendGapThreshold \in Nat \ {0}
    /\ MaxTime \in Nat /\ MaxSlept \in Nat

VARIABLES
    mono,       \* the monotonic clock
    slept,      \* how far the wall clock is ahead of it
    lastInput,  \* when the user last touched the machine, on the monotonic clock
    pc,         \* "ticker", "idle": poll has read the idle time, "returned"
    deadline,   \* when the ticker fires, or the poll is over at the latest
    idleTime,   \* what the poll under way read
    state,      \* Tracker.state
    current,    \* Tracker.current: {} or a singleton
    lastPoll,   \* Tracker.lastPoll: {} while zero, or a singleton
    enqueued,   \* the records handed to Reporter.Enqueue
    inputs,     \* history: the moments the user touched the machine
    naps,       \* history: the sleeps, on the wall clock
    mishaps     \* history: which readings failed or found nothing

clocks == <<mono, slept>>
user == <<lastInput, inputs>>
tracker == <<state, current, lastPoll, enqueued>>
vars == <<clocks, user, pc, deadline, idleTime, tracker, naps, mishaps>>

\* A time.Time: both readings.
Time == [wall : Int, mono : Int]
Now == [wall |-> mono + slept, mono |-> mono]
Minus(t, d) == [wall |-> t.wall - d, mono |-> t.mono - d]
Plus(t, d) == Minus(t, -d)

\* monotonicElapsed
elapsed(from, to) == to.mono - from.mono

Init ==
    /\ mono = 0 /\ slept = 0
    /\ lastInput = 0 /\ inputs = {0}
    /\ pc = "ticker" /\ deadline = PollInterval /\ idleTime = 0
    /\ state = "tracking" /\ current = {} /\ lastPoll = {}
    /\ enqueued = <<>>
    /\ naps = {} /\ mishaps = {}
-----------------------------------------------------------------------------
(* The user and the machine.                                               *)

Tick ==
    /\ pc # "returned"
    /\ mono < MaxTime /\ mono < deadline
    /\ mono' = mono + 1
    /\ UNCHANGED <<slept, user, pc, deadline, idleTime, tracker, naps, mishaps>>

Input ==
    /\ lastInput # mono
    /\ lastInput' = mono
    /\ inputs' = inputs \union {mono}
    /\ UNCHANGED <<clocks, pc, deadline, idleTime, tracker, naps, mishaps>>

Sleep ==
    \E d \in 1..(MaxSlept - slept) :
        /\ slept' = slept + d
        /\ naps' = naps \union {[from |-> Now.wall, to |-> Now.wall + d]}
        /\ UNCHANGED <<mono, user, pc, deadline, idleTime, tracker, mishaps>>
-----------------------------------------------------------------------------
(* The poll loop.                                                          *)

\* Mutant: finalize does not drop a segment that ends before it starts.
finalizeAny(recs, cur, at) ==
    recs \o [i \in 1..Cardinality(cur) |->
        LET c == CHOOSE c \in cur : TRUE
        IN  [window |-> c.window, start |-> c.start,
             end |-> Plus(c.start, elapsed(c.start, at))]]

\* finalize: the records after the segment in cur, if any, ends at `at'.
finalize(recs, cur, at) ==
    IF \E c \in cur : elapsed(c.start, at) > 0
      THEN LET c == CHOOSE c \in cur : TRUE
           IN  Append(recs, [window |-> c.window, start |-> c.start,
                             end |-> Plus(c.start, elapsed(c.start, at))])
      ELSE recs

\* startNew
startNew(info, now) == {[window |-> info, start |-> now]}

\* Switching windows: finalize, then startNew.  Mutant: without finalize.
SwitchDropping(recs, cur, info, now) ==
    enqueued' = recs /\ current' = startNew(info, now)

Switch(recs, cur, info, now) ==
    enqueued' = finalize(recs, cur, now) /\ current' = startNew(info, now)

\* Mutant: the wall times keep their monotonic reading, which Sub then prefers.
suspendedUnrounded(now) ==
    \E t \in lastPoll : (now.mono - t.mono) - elapsed(t, now) >= suspendGapThreshold

\* suspended: the wall clock has run ahead since the last poll.
suspended(now) ==
    \E t \in lastPoll : (now.wall - t.wall) - elapsed(t, now) >= suspendGapThreshold

\* poll reads the idle time; an error counts as no idle time at all.
ReadIdle ==
    /\ pc = "ticker" /\ mono >= deadline
    /\ pc' = "idle"
    /\ deadline' = mono + PollDelay
    /\ \/ idleTime' = mono - lastInput /\ UNCHANGED mishaps
       \/ idleTime' = 0 /\ mishaps' = mishaps \union {"idle"}
    /\ UNCHANGED <<clocks, user, tracker, naps>>

\* The poll is over; the ticker fires an interval after the poll began, which
\* may have passed already.
PollEnds ==
    /\ pc' = "ticker"
    /\ deadline' = deadline - PollDelay + PollInterval
    /\ idleTime' = 0
    /\ UNCHANGED <<clocks, user, naps>>

\* ActiveWindow fails: poll returns and leaves everything as it was.
WindowFails ==
    /\ pc = "idle"
    /\ PollEnds
    /\ mishaps' = mishaps \union {"window"}
    /\ UNCHANGED tracker

\* Nobody is there: nothing has the focus, or the user has been idle too long.
\* Mutant: only the focus counts.
AwayByFocus(info) == info = NoWindow

Away(info) == info = NoWindow \/ idleTime >= IdleThreshold

\* poll from ActiveWindow's answer on.
ReadWindow(info) ==
    LET now == Now
        split == suspended(now)
        recs == IF split THEN finalize(enqueued, current, CHOOSE t \in lastPoll : TRUE)
                         ELSE enqueued
        cur == IF split THEN {} ELSE current
    IN
    /\ pc = "idle"
    /\ PollEnds
    /\ mishaps' = IF info = NoWindow THEN mishaps \union {"none"} ELSE mishaps
    /\ lastPoll' = {now}
    /\ \/ /\ state = "tracking" /\ Away(info)
          /\ enqueued' = finalize(recs, cur, Minus(now, idleTime))
          /\ current' = {}
          /\ state' = "idle"
       \/ /\ state = "tracking" /\ ~Away(info)
          /\ IF \E c \in cur : c.window = info
               THEN enqueued' = recs /\ current' = cur
               ELSE Switch(recs, cur, info, now)
          /\ UNCHANGED state
       \/ /\ state = "idle" /\ Away(info)
          /\ enqueued' = recs /\ current' = cur
          /\ UNCHANGED state
       \/ /\ state = "idle" /\ ~Away(info)
          /\ enqueued' = recs /\ current' = startNew(info, now)
          /\ state' = "tracking"

\* ctx is cancelled: Run closes the open segment and returns.
Return ==
    /\ pc = "ticker"
    /\ pc' = "returned"
    /\ enqueued' = finalize(enqueued, current, Now)
    /\ current' = {}
    /\ UNCHANGED <<clocks, user, deadline, idleTime, state, lastPoll, naps, mishaps>>
-----------------------------------------------------------------------------
Environment == pc # "returned" /\ (Tick \/ Input \/ Sleep)

Next ==
    \/ Environment
    \/ ReadIdle \/ WindowFails \/ Return
    \/ \E info \in Windows \union {NoWindow} : ReadWindow(info)

Spec == Init /\ [][Next]_vars
-----------------------------------------------------------------------------
(* Properties.                                                             *)

Records == {enqueued[i] : i \in DOMAIN enqueued}

\* On the wall clock the user reads, records have a length, follow each other
\* without overlap, and end before the segment now open started and before now,
\* however idle backdating, sleep and failed readings interleave.
Disjoint ==
    /\ \A r \in Records : r.start.wall < r.end.wall /\ r.end.wall <= Now.wall
    /\ \A i \in DOMAIN enqueued : \A j \in DOMAIN enqueued :
         i < j => enqueued[i].end.wall <= enqueued[j].start.wall
    /\ \A r \in Records : \A c \in current : r.end.wall <= c.start.wall

\* A sleep of suspendGapThreshold or more is never inside a record, nor is any
\* work done after it counted before it.  Shutdown may be the first thing to run
\* after a wake: only then does the last record end later than the sleep began,
\* by no more than the time until the next poll would have noticed.
Slack == PollInterval + PollDelay
NapsCutRecords ==
    \A n \in naps : n.to - n.from >= suspendGapThreshold =>
        \A i \in DOMAIN enqueued :
            enqueued[i].start.wall <= n.from =>
                \/ enqueued[i].end.wall <= n.from
                \/ /\ pc = "returned" /\ i = Len(enqueued)
                   /\ "window" \in mishaps \/ enqueued[i].end.wall <= n.from + Slack

\* While both detectors answer, no record runs on without the user: a record ends
\* within IdleThreshold of a touch (and PollDelay: the reading may be that old),
\* and only one that shutdown closed, or a pause that ended just before a poll,
\* can add the time between two polls to it.
Touched(t, within) == \E m \in inputs : m <= t /\ t < m + within
IdleBounded ==
    mishaps \intersect {"idle", "window"} = {} =>
        \A i \in DOMAIN enqueued :
            LET r == enqueued[i] IN
            /\ \A t \in r.start.mono..r.end.mono : Touched(t, IdleThreshold + Slack)
            /\ \/ Touched(r.end.mono, IdleThreshold + PollDelay)
               \/ pc = "returned" /\ i = Len(enqueued)

\* While both detectors answer, a window has the focus and the machine stays
\* awake, no work goes unrecorded: a touch that follows another closely enough for
\* the user not to be idle, yet so much later that a poll began and ended between
\* them, lies in a record or in the open segment, and at once.
Follows(m, m0) == m0 + Slack + PollDelay < m /\ m < m0 + IdleThreshold
InputCredited ==
    mishaps = {} /\ naps = {} =>
        \A m0, m \in inputs :
            Follows(m, m0) =>
                \/ \E r \in Records : r.start.mono <= m /\ m <= r.end.mono
                \/ \E c \in current : c.start.mono <= m
-----------------------------------------------------------------------------
(* The inductive invariant.                                                *)

Segment == [window : Windows, start : Time]
Record == [window : Windows, start : Time, end : Time]

TypeInv ==
    /\ mono \in Nat /\ slept \in Nat /\ lastInput \in Nat
    /\ pc \in {"ticker", "idle", "returned"} /\ deadline \in Int /\ idleTime \in Nat
    /\ state \in {"tracking", "idle"}
    /\ current \in SUBSET Segment /\ \A c, d \in current : c = d
    /\ lastPoll \in SUBSET Time /\ \A t, u \in lastPoll : t = u
    /\ enqueued \in Seq(Record)
    /\ inputs \in SUBSET Nat /\ naps \in SUBSET [from : Int, to : Int]

\* When the poll under way, or else the last one, read the idle time.
began == deadline - (IF pc = "idle" THEN PollDelay ELSE PollInterval)

\* How much had been slept by then.
Offset(t) == t.wall - t.mono
Past(t) == t.mono <= mono /\ 0 <= Offset(t) /\ Offset(t) <= slept

\* Polls follow each other in time, and an open segment is older than the last.
ClockInv ==
    /\ lastInput \in inputs /\ lastInput <= mono /\ \A m \in inputs : m <= lastInput
    /\ began <= mono
    /\ pc = "idle" => mono <= began + PollDelay
    /\ pc = "ticker" => mono <= began + PollInterval \/ mono <= began + PollDelay
    /\ \A t \in lastPoll :
         /\ Past(t)
         /\ "window" \notin mishaps =>
              IF pc = "idle" THEN t.mono <= began
              ELSE began <= t.mono /\ t.mono <= began + PollDelay
    /\ \A c \in current :
         /\ Past(c.start)
         /\ \E t \in lastPoll : c.start.mono <= t.mono /\ Offset(c.start) <= Offset(t)
    /\ state = "idle" => current = {}
    /\ naps = {} => slept = 0

\* A sleep is before the last poll, or the next one finds it; a long one that an
\* open segment would hold has not been looked for yet.
NapInv ==
    \A n \in naps :
        /\ n.from < n.to /\ n.to <= Now.wall
        /\ \A t \in lastPoll :
             \/ n.to <= t.wall
             \/ t.wall <= n.from /\ n.to - n.from <= slept - Offset(t)
        /\ n.to - n.from >= suspendGapThreshold =>
             \A c \in current, t \in lastPoll : c.start.wall <= n.from => t.wall <= n.from

\* With detectors that answer: what the poll under way read; and the user was there
\* when the last poll left a segment open, and all the time it has been open.
IdleInv ==
    mishaps \intersect {"idle", "window"} = {} =>
        /\ pc = "idle" => /\ began - idleTime \in inputs
                          /\ \A m \in inputs : m < began => m <= began - idleTime
        /\ \A c \in current, t \in lastPoll :
             /\ Touched(t.mono, IdleThreshold + PollDelay)
             /\ pc = "ticker" => Touched(began, IdleThreshold)
             /\ \A x \in c.start.mono..(IF pc = "idle" THEN began ELSE t.mono) :
                  Touched(x, IdleThreshold + Slack)

\* A moment is credited once and for all: a record has it, or the open segment
\* will, which began before it.
Credited(x) ==
    \/ \E r \in Records : r.start.mono <= x /\ x <= r.end.mono
    \/ \E c \in current : c.start.mono < x

\* A poll that had a recent touch to see left a segment open.
CreditInv ==
    mishaps = {} /\ naps = {} =>
        /\ \A m \in inputs : m < began /\ began < m + IdleThreshold =>
             /\ pc = "ticker" => current # {}
             /\ pc = "idle" /\ m + Slack < began => current # {}
        /\ \A m \in inputs : \A t \in lastPoll : Follows(t.mono, m) => Credited(t.mono)
        /\ \A m0, m \in inputs : Follows(m, m0) => Credited(m)

TrackerInv ==
    /\ TypeInv /\ ClockInv /\ NapInv /\ IdleInv /\ CreditInv
    /\ Disjoint /\ NapsCutRecords /\ IdleBounded
=============================================================================
