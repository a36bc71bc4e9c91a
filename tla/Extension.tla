------------------------------ MODULE Extension ------------------------------
(***************************************************************************)
(* The browser extension's tracking core (extension/background-core.js).   *)
(* Every browser event is a task on one promise chain; a task is a         *)
(* sequence of awaits over two stores, and the worker may be killed at     *)
(* each of them.  The storage survives, the chain does not.                *)
(*                                                                         *)
(* `todo' is what is left of the task that runs, one operation per await   *)
(* that a kill, the options page or the clock can fall behind.  The        *)
(* browser, the user, the options page and the daemon do what they like,   *)
(* save that each change the browser sees raises its event, in order.      *)
(***************************************************************************)
EXTENDS Integers, Sequences, SequencesExt, FiniteSets, Ordered

CONSTANTS
    Pages,          \* what a tab may show, as [tab, url, title]
    Rules,          \* what the saved rules may cover: sets of urls
    MIN_DURATION,   \* MIN_DURATION_MS
    IDLE_INTERVAL,  \* IDLE_SECONDS
    QUEUE_LIMIT,
    MaxTime,        \* bound on the clock
    MaxChain,       \* bound on the events that wait
    MaxSegments     \* bound on the segments: no event is raised beyond it

ASSUME ExtensionAssumption ==
    /\ \A p \in Pages : DOMAIN p = {"tab", "url", "title"}
    /\ Rules \subseteq SUBSET {p.url : p \in Pages}
    /\ MIN_DURATION \in Nat \ {0} /\ IDLE_INTERVAL \in Nat \ {0}
    /\ QUEUE_LIMIT \in Nat \ {0}
    /\ MaxTime \in Nat /\ MaxChain \in Nat /\ MaxSegments \in Nat

VARIABLES
    now,        \* Date.now()
    tab,        \* the page the browser's front tab shows
    focused,    \* whether the browser's window has the focus
    word,       \* api.idle: "active", "idle" or "locked"
    ignored,    \* storage.local: the rules, as the urls they cover; what
                \* trackable refuses, private and not web, is as if covered
    queue,      \* storage.local: the records not yet delivered
    current,    \* storage.session: {} or the segment being timed
    source,     \* storage.session: the idle source
    alarm,      \* whether the idle alarm is set
    awake,      \* whether the worker runs
    chain,      \* the tasks that wait
    todo,       \* the rest of the task that runs
    minted,     \* how many segments were given an identity
    received,   \* what the daemon accepted
    dropped,    \* history: the segments left out on purpose
    replaced    \* history: the segments another one was written over

browser == <<now, tab, focused, word, ignored>>
storage == <<queue, current, source, alarm>>
worker == <<awake, chain, todo>>
history == <<minted, received, dropped, replaced>>
vars == <<browser, storage, worker, history>>

Init ==
    /\ now = 0 /\ tab \in Pages /\ focused = TRUE /\ word = "active"
    /\ ignored \in Rules
    /\ queue = <<>> /\ current = {} /\ source = "daemon" /\ alarm = FALSE
    /\ awake = TRUE /\ chain = <<>> /\ todo = <<[do |-> "resolve"]>>
    /\ minted = 0 /\ received = {} /\ dropped = {} /\ replaced = {}
-----------------------------------------------------------------------------
(* The operations a task is made of, and the rules of logic.js.            *)

finalize(at) == [do |-> "finalize", at |-> at]
enqueue(rec) == [do |-> "enqueue", rec |-> rec]
clear == [do |-> "clear"]
start(page, at) == [do |-> "start", page |-> page, at |-> at]
open(page, at) == [do |-> "open", page |-> page, at |-> at]
write(page, at) == [do |-> "write", page |-> page, at |-> at]
deliver == [do |-> "deliver"]
send(batch) == [do |-> "send", batch |-> batch]
remove(batch) == [do |-> "remove", batch |-> batch]
forget(patterns) == [do |-> "forget", patterns |-> patterns]
purge(patterns) == [do |-> "purge", patterns |-> patterns]

Ids(S) == {x.id : x \in S}

\* The record of the open segment, if it is worth keeping; isIgnored is
\* membership in the rules.
buildRecord(at) ==
    {[id |-> c.id, page |-> c.page, start |-> c.start, end |-> at] :
        c \in {c \in current : at - c.start >= MIN_DURATION /\ c.page.url \notin ignored}}

queueHasRecord(id) == id \in Ids(ToSet(queue))

trimQueue(q) == IF Len(q) <= QUEUE_LIMIT THEN q ELSE Tail(q)

filterIgnored(q, patterns) ==
    Entries(q, {i \in DOMAIN q : q[i].page.url \notin patterns})

recordKey(r) == <<r.start, r.page.url>>

removeDelivered(q, batch) ==
    Entries(q, {i \in DOMAIN q : recordKey(q[i]) \notin {recordKey(s) : s \in batch}})

\* askDaemonIdle: what the daemon says, and whom that leaves in charge.
Usable == source' = "daemon"
Unusable == source' = "browser"

\* userIsActive answers b.
userIsActive(b) ==
    \/ word = "active" /\ b /\ UNCHANGED source
    \/ word = "locked" /\ ~b /\ UNCHANGED source
    \/ word = "idle" /\ (Usable \/ (~b /\ Unusable))

\* idleEndsAt
idleEndsAt(state) == IF state = "idle" THEN now - IDLE_INTERVAL ELSE now
-----------------------------------------------------------------------------
(* The steps of a task.                                                    *)

At(do) == awake /\ todo # <<>> /\ Head(todo).do = do
op == Head(todo)
rest == Tail(todo)
Then(ops) == todo' = ops \o rest /\ UNCHANGED <<awake, chain>>

\* Mutant: the session copy is cleared before the queue has the record.
HandOverClearing(recs) == <<clear>> \o SetToSeq({enqueue(r) : r \in recs})
\* Queue first, then clear.
HandOver(recs) == SetToSeq({enqueue(r) : r \in recs}) \o <<clear>>

\* finalize up to the writes: what to keep is settled.
Finalize ==
    LET recs == buildRecord(op.at) IN
    /\ At("finalize")
    /\ Then(HandOver(recs))
    /\ dropped' = dropped \union (Ids(current) \ Ids(recs))
    /\ UNCHANGED <<browser, storage, minted, received, replaced>>

Enqueue ==
    LET q == IF queueHasRecord(op.rec.id) THEN queue ELSE Append(queue, op.rec) IN
    /\ At("enqueue")
    /\ Then(<<>>)
    /\ queue' = trimQueue(q)
    /\ dropped' = dropped \union (Ids(ToSet(q)) \ Ids(ToSet(trimQueue(q))))
    /\ UNCHANGED <<browser, current, source, alarm, minted, received, replaced>>

\* writeCurrent(null)
Clear ==
    /\ At("clear")
    /\ Then(<<>>)
    /\ current' = {}
    /\ UNCHANGED <<browser, queue, source, alarm, history>>

\* switchTo: the next segment starts only if the user is present.
Start ==
    /\ At("start")
    /\ \E b \in BOOLEAN :
        /\ userIsActive(b)
        /\ Then(IF b THEN <<open(op.page, op.at)>> ELSE <<>>)
    /\ UNCHANGED <<browser, queue, current, alarm, history>>

\* A segment that is still open is not closed first: what it timed is gone.
Overwrite ==
    LET long == {c \in current : now - c.start >= MIN_DURATION} IN
    /\ replaced' = replaced \union Ids(long)
    /\ dropped' = dropped \union Ids(current \ long)

\* startTracking up to the write.
Open ==
    /\ At("open")
    /\ IF op.page.url \in ignored
         THEN Then(<<clear>>) /\ Overwrite
         ELSE Then(<<write(op.page, op.at)>>) /\ UNCHANGED <<dropped, replaced>>
    /\ UNCHANGED <<browser, storage, minted, received>>

\* writeCurrent, with syncIdlePoll before it.
Write ==
    /\ At("write")
    /\ Then(<<>>)
    /\ minted' = minted + 1
    /\ current' = {[id |-> minted', page |-> op.page, start |-> op.at]}
    /\ alarm' = TRUE
    /\ Overwrite
    /\ UNCHANGED <<browser, queue, source, received>>

\* deliver up to the request: what the rules cover by now is never sent.
Deliver ==
    LET batch == filterIgnored(queue, ignored) IN
    /\ At("deliver")
    /\ queue' = batch
    /\ dropped' = dropped \union (Ids(ToSet(queue)) \ Ids(ToSet(batch)))
    /\ Then(IF batch = <<>> THEN <<>> ELSE <<send(ToSet(batch))>>)
    /\ UNCHANGED <<browser, current, source, alarm, minted, received, replaced>>

\* The request: it fails, or the daemon has the batch and its answer is lost,
\* or the answer comes.
Send ==
    /\ At("send")
    /\ \/ Then(<<>>) /\ UNCHANGED received
       \/ Then(<<>>) /\ received' = received \union op.batch
       \/ Then(<<remove(op.batch)>>) /\ received' = received \union op.batch
    /\ UNCHANGED <<browser, storage, minted, dropped, replaced>>

RemoveSent ==
    /\ At("remove")
    /\ Then(<<>>)
    /\ queue' = removeDelivered(queue, op.batch)
    /\ UNCHANGED <<browser, current, source, alarm, history>>
-----------------------------------------------------------------------------
(* Recovery.                                                               *)

\* Mutant: delivery runs before the session copy is looked at.
resumeDelivering(keep, ops) == <<deliver>> \o ops \o <<[do |-> IF keep THEN "repair" ELSE "seed"]>>

\* resume: first what resolveRecoveredSegment does, then delivery.
resume(keep, ops) == ops \o <<deliver, [do |-> IF keep THEN "repair" ELSE "seed"]>>

\* The same tab with the same url, under whatever title.
SamePlace(p, q) == p.tab = q.tab /\ p.url = q.url

\* Mutant: the focus is not asked for.
stillShown(c) == SamePlace(c.page, tab)
\* stillActive, without the question to the daemon.  The title is not compared: a
\* segment whose title event died with the worker goes on under its old title.
stillInFront(c) == focused /\ SamePlace(c.page, tab)

\* resolveRecoveredSegment
Resolve ==
    LET usable == {c \in current : c.page.url \notin ignored}
        live == {c \in usable : ~queueHasRecord(c.id)}
    IN
    /\ At("resolve")
    /\ dropped' = dropped \union Ids(current \ usable)
    /\ \/ /\ live = {}
          /\ Then(resume(FALSE, IF current = {} THEN <<>> ELSE <<clear>>))
          /\ UNCHANGED source
       \/ \E c \in live, b \in BOOLEAN :
            /\ userIsActive(b)
            /\ Then(IF b /\ stillInFront(c)
                      THEN resume(TRUE, <<>>)
                      ELSE resume(FALSE, <<finalize(idleEndsAt(word))>>))
    /\ UNCHANGED <<browser, queue, current, alarm, minted, received, replaced>>

\* Mutant: the alarm is taken for granted.
RepairNothing ==
    At("repair") /\ Then(<<>>) /\ UNCHANGED <<browser, storage, history>>

\* The segment goes on: set the alarm if it did not survive.
Repair ==
    /\ At("repair")
    /\ Then(<<>>)
    /\ alarm' = TRUE
    /\ UNCHANGED <<browser, queue, current, source, history>>

\* No segment: start one for a user who is present and looks at the browser.
Seed ==
    /\ At("seed")
    /\ \E b \in BOOLEAN :
        /\ userIsActive(b)
        /\ Then(IF b /\ focused THEN <<open(tab, now)>> ELSE <<>>)
    /\ UNCHANGED <<browser, queue, current, alarm, history>>

\* The rules changed: forget the segment they cover, then the records.
Forget ==
    LET covered == {c \in current : c.page.url \in op.patterns} IN
    /\ At("forget")
    /\ Then(<<>>)
    /\ current' = current \ covered
    /\ dropped' = dropped \union Ids(covered)
    /\ UNCHANGED <<browser, queue, source, alarm, minted, received, replaced>>

Purge ==
    LET kept == filterIgnored(queue, op.patterns) IN
    /\ At("purge")
    /\ Then(<<>>)
    /\ queue' = kept
    /\ dropped' = dropped \union (Ids(ToSet(queue)) \ Ids(ToSet(kept)))
    /\ UNCHANGED <<browser, current, source, alarm, minted, received, replaced>>
-----------------------------------------------------------------------------
(* The listeners: the next event becomes the task.                         *)

event == Head(chain)
Begin(kind, ops) ==
    /\ event.kind = kind
    /\ todo' = ops

switchTo(page) == <<finalize(now), start(page, now), deliver>>
Close(at) == <<finalize(at), deliver>>

\* api.tabs.get: what a tab shows by now, known only of the one in front.
Shown(id) == {page \in Pages : page.tab = id /\ (id = tab.tab => page = tab)}

OnActivated ==
    /\ event.kind = "activated"
    /\ \/ ~focused /\ todo' = <<>>
       \/ focused /\ \E page \in Shown(event.page.tab) : todo' = switchTo(page)
       \/ /\ focused /\ event.page.tab # tab.tab     \* the tab is gone: the call fails
          /\ todo' = <<finalize(now)>>
    /\ UNCHANGED <<source, alarm>>

\* shouldSwitch
OnUpdated ==
    /\ Begin("updated", IF focused /\ \A c \in current : c.page # event.page
                          THEN switchTo(event.page) ELSE <<>>)
    /\ UNCHANGED <<source, alarm>>

OnFocusChanged ==
    /\ Begin("focus", switchTo(tab)) \/ Begin("blur", Close(now))
    /\ UNCHANGED <<source, alarm>>

OnRemoved ==
    /\ Begin("removed", IF \E c \in current : c.page.tab = event.page.tab
                          THEN Close(now) ELSE <<>>)
    /\ UNCHANGED <<source, alarm>>

\* The daemon answers that the user has been idle since some moment.
DaemonIdle(kind) == Usable /\ \E since \in 0..now : Begin(kind, Close(since))
DaemonActive(kind) == Usable /\ Begin(kind, <<>>)

\* pollIdle
OnAlarm ==
    \/ /\ current = {}
       /\ Begin("alarm", <<>>)
       /\ alarm' = FALSE
       /\ UNCHANGED source
    \/ /\ current # {}
       /\ \/ DaemonIdle("alarm")
          \/ DaemonActive("alarm")
          \/ Unusable /\ Begin("alarm", <<>>)
       /\ UNCHANGED alarm

OnStateChanged ==
    /\ \/ Begin("locked", Close(idleEndsAt("locked"))) /\ UNCHANGED source
       \/ source = "daemon" /\ (DaemonIdle("idle") \/ DaemonActive("idle"))
       \/ Unusable /\ Begin("idle", Close(idleEndsAt("idle")))
       \/ /\ Begin("active", IF focused THEN <<open(tab, now)>> ELSE <<>>)
          /\ UNCHANGED source
    /\ UNCHANGED alarm

\* Mutant: only the open segment is checked against the new rules.
OnRulesChangedForgetting ==
    /\ Begin("rules", <<forget(event.patterns)>>)
    /\ UNCHANGED <<source, alarm>>

OnRulesChanged ==
    /\ Begin("rules", <<forget(event.patterns), purge(event.patterns)>>)
    /\ UNCHANGED <<source, alarm>>

OnSuspend == Begin("suspend", <<deliver>>) /\ UNCHANGED <<source, alarm>>

Dispatch ==
    /\ awake /\ todo = <<>> /\ chain # <<>>
    /\ \/ OnActivated \/ OnUpdated \/ OnFocusChanged \/ OnRemoved
       \/ OnAlarm \/ OnStateChanged \/ OnRulesChanged \/ OnSuspend
    /\ chain' = Tail(chain)
    /\ UNCHANGED <<browser, queue, current, awake, history>>
-----------------------------------------------------------------------------
(* The browser, the user and the options page.                             *)

\* An event joins the chain; it wakes a worker that sleeps, which recovers first.
Raise(events) ==
    /\ minted < MaxSegments
    /\ Len(chain) + Len(events) <= MaxChain
    /\ awake' = TRUE
    /\ chain' = chain \o events
    /\ todo' = IF awake THEN todo ELSE <<[do |-> "resolve"]>>
    /\ UNCHANGED <<storage, history>>

Tick ==
    /\ now < MaxTime
    /\ now' = now + 1
    /\ UNCHANGED <<tab, focused, word, ignored, storage, worker, history>>

\* Another url or title in the same tab, another tab, or the next one because
\* this one was closed.
Show ==
    \E page \in Pages \ {tab} :
        /\ tab' = page
        /\ \/ page.tab = tab.tab /\ Raise(<<[kind |-> "updated", page |-> page]>>)
           \/ page.tab # tab.tab /\ Raise(<<[kind |-> "activated", page |-> page]>>)
           \/ /\ page.tab # tab.tab
              /\ Raise(<<[kind |-> "removed", page |-> tab],
                         [kind |-> "activated", page |-> page]>>)
        /\ UNCHANGED <<now, focused, word, ignored>>

ChangeFocus ==
    /\ focused' = ~focused
    /\ Raise(<<[kind |-> IF focused THEN "blur" ELSE "focus"]>>)
    /\ UNCHANGED <<now, tab, word, ignored>>

ChangeState ==
    /\ word' \in {"active", "idle", "locked"} \ {word}
    /\ Raise(<<[kind |-> word']>>)
    /\ UNCHANGED <<now, tab, focused, ignored>>

FireAlarm ==
    /\ alarm
    /\ Raise(<<[kind |-> "alarm"]>>)
    /\ UNCHANGED browser

\* The options page saves other rules.
ChangeRules ==
    /\ ignored' \in Rules \ {ignored}
    /\ Raise(<<[kind |-> "rules", patterns |-> ignored']>>)
    /\ UNCHANGED <<now, tab, focused, word>>

\* Firefox is about to unload the page, which does nothing.
Suspend ==
    /\ awake /\ todo = <<>> /\ chain = <<>>
    /\ Raise(<<[kind |-> "suspend"]>>)
    /\ UNCHANGED browser

\* The worker ends where it is.  Chrome may lose its alarm, too.
Kill ==
    /\ awake
    /\ awake' = FALSE /\ chain' = <<>> /\ todo' = <<>>
    /\ alarm' \in {alarm, FALSE}
    /\ UNCHANGED <<browser, queue, current, source, history>>

\* The browser ends and starts: the session storage is gone, onStartup recovers.
Restart ==
    /\ minted < MaxSegments
    /\ current' = {} /\ source' = "daemon" /\ alarm' \in {alarm, FALSE}
    /\ dropped' = dropped \union Ids(current)
    /\ awake' = TRUE /\ chain' = <<>> /\ todo' = <<[do |-> "resolve"]>>
    /\ word' = "active"
    /\ UNCHANGED <<now, tab, focused, ignored, queue, minted, received, replaced>>

Task ==
    \/ Dispatch
    \/ Finalize \/ Enqueue \/ Clear \/ Start \/ Open \/ Write
    \/ Deliver \/ Send \/ RemoveSent
    \/ Resolve \/ Repair \/ Seed \/ Forget \/ Purge

Environment ==
    \/ Tick \/ Show \/ ChangeFocus \/ ChangeState \/ FireAlarm \/ ChangeRules
    \/ Suspend \/ Kill \/ Restart

Next == Task \/ Environment

Spec == Init /\ [][Next]_vars
-----------------------------------------------------------------------------
(* Properties.                                                             *)

\* However kills, lost answers and restarts fall, a segment that was worth keeping
\* is somewhere: still timed, queued, or with the daemon; and the queue, whose
\* oldest records fall out, is never longer than its limit.
NothingLost ==
    /\ Len(queue) <= QUEUE_LIMIT
    /\ 1..minted \subseteq
         Ids(current) \union Ids(ToSet(queue)) \union Ids(received)
         \union dropped \union replaced

\* The daemon stores one record per identity and ignores what comes later, so an
\* identity is never given two ends; and no moment is in two records.
OneStory ==
    LET known == received \union ToSet(queue) IN
    \A r, s \in known :
        /\ r.start + MIN_DURATION <= r.end /\ r.end <= now
        /\ r = s \/ r.end <= s.start \/ s.end <= r.start

AtRest == awake /\ chain = <<>> /\ todo = <<>>

\* Once the chain is drained, no page that a rule covers is left in any storage,
\* whichever task read the rules before they changed and whatever a kill cut off.
RulesKept ==
    AtRest => \A r \in current \union ToSet(queue) : r.page.url \notin ignored

\* Once the chain is drained, an open segment has the alarm that will end it, also
\* after the browser lost the alarm with the worker.
PollRuns == AtRest /\ current # {} => alarm

\* Once the chain is drained, only the tab in front and the url it shows are timed,
\* although events carry the tab as it was and a kill drops those that waited.  The
\* title may be an old one (stillActive ignores it).
RightPage == AtRest => \A c \in current : focused /\ SamePlace(c.page, tab)

\* "switchTo finalizes the current segment and starts a new one in a single step,
\* which is what every event below actually wants" (background-core.js:386-387): no
\* segment is written over.
NeverOverwritten == replaced = {}
-----------------------------------------------------------------------------
(* The inductive invariant.                                                *)

Segment == [id : Nat, page : Pages, start : Nat]
Record == [id : Nat, page : Pages, start : Nat, end : Nat]

\* What an operation carries.
Operation(o) ==
    /\ o.do \in {"resolve", "finalize", "enqueue", "clear", "start", "open", "write",
                 "deliver", "send", "remove", "repair", "seed", "forget", "purge"}
    /\ o.do = "finalize" => o.at \in Int
    /\ o.do = "enqueue" => o.rec \in Record
    /\ o.do \in {"start", "open", "write"} => o.page \in Pages /\ o.at \in Nat
    /\ o.do \in {"send", "remove"} => o.batch \in SUBSET Record
    /\ o.do \in {"forget", "purge"} => o.patterns \in Rules

Event(e) ==
    /\ e.kind \in {"activated", "updated", "removed", "focus", "blur", "active", "idle",
                   "locked", "alarm", "rules", "suspend"}
    /\ e.kind \in {"activated", "updated", "removed"} => e.page \in Pages
    /\ e.kind = "rules" => e.patterns \in Rules

IsList(s) == Len(s) \in Nat /\ s = [i \in 1..Len(s) |-> s[i]]

TypeInv ==
    /\ now \in Nat /\ tab \in Pages /\ focused \in BOOLEAN
    /\ word \in {"active", "idle", "locked"} /\ ignored \in Rules
    /\ queue \in Seq(Record) /\ received \in SUBSET Record
    /\ \A c \in current : c \in Segment /\ current = {c}
    /\ alarm \in BOOLEAN /\ awake \in BOOLEAN
    /\ minted \in Nat /\ dropped \in SUBSET Nat /\ replaced \in SUBSET Nat
    /\ IsList(todo) /\ \A i \in 1..Len(todo) : Operation(todo[i])
    /\ IsList(chain) /\ \A i \in 1..Len(chain) : Event(chain[i])

\* The next operation is one of these.
Upcoming(dos) == Len(todo) > 0 /\ todo[1].do \in dos

\* What waits behind the next operation reads the storage when its turn comes; only
\* the clearing of the segment belongs to the operation before it.
PlanInv ==
    /\ ~awake => todo = <<>> /\ chain = <<>>
    /\ \A i \in 2..Len(todo) :
        \/ todo[i].do \in {"start", "deliver", "repair", "seed", "purge"}
        \/ i = 2 /\ todo[2].do = "clear" /\ todo[1].do = "enqueue"
    /\ Upcoming({"enqueue"}) => Len(todo) > 1 /\ todo[2].do = "clear"
    /\ Upcoming({"resolve"}) => Len(todo) = 1

Known == received \union ToSet(queue)

\* What is known ended by the moment t.
EndedBy(t) == \A r \in Known : r.end <= t

\* The open segment is newer than all that is known, or its record is in the queue
\* and the next thing that happens to it is to be cleared or compared with the queue.
Fresh(c) == EndedBy(c.start) /\ c.id \notin Ids(Known)
HandedOver(c) ==
    c.id \in Ids(ToSet(queue)) /\ (awake => Upcoming({"resolve", "clear"}))

StoryInv ==
    /\ OneStory
    /\ \A r \in Known : r.id <= minted
    /\ \A c \in current :
        /\ c.start <= now /\ c.id \in 1..minted
        /\ Fresh(c) \/ HandedOver(c)
    /\ Upcoming({"finalize"}) => todo[1].at <= now
    /\ Upcoming({"enqueue"}) =>
        LET r == todo[1].rec IN
        /\ r.start + MIN_DURATION <= r.end /\ r.end <= now
        /\ current = {[id |-> r.id, page |-> r.page, start |-> r.start]}
    /\ \A i \in 1..Len(todo) : todo[i].do \in {"start", "open", "write"} =>
        /\ todo[i].at <= now /\ EndedBy(todo[i].at)
        /\ Upcoming({"finalize"}) => todo[1].at <= todo[i].at
        /\ Upcoming({"enqueue"}) => todo[1].rec.end <= todo[i].at
    /\ Upcoming({"send", "remove"}) => todo[1].batch \subseteq Known
    /\ Upcoming({"remove"}) => todo[1].batch \subseteq received

\* A segment may be cleared once something else has it.
KeptInv ==
    /\ NothingLost
    /\ Upcoming({"clear"}) => Ids(current) \subseteq Ids(Known) \union dropped \union replaced

Waiting(kinds) == {i \in 1..Len(chain) : chain[i].kind \in kinds}
IsLast(i, S) == i \in S /\ \A j \in S : j <= i

\* What the rules cover is about to go, and nothing they cover is about to come.
RulesHold ==
    /\ (\E c \in current : c.page.url \in ignored) => Upcoming({"resolve", "clear", "forget"})
    /\ (\E r \in ToSet(queue) : r.page.url \in ignored) =>
          \E i \in 1..Len(todo) : todo[i].do \in {"resolve", "deliver", "purge"}
    /\ Upcoming({"enqueue"}) => todo[1].rec.page.url \notin ignored
    /\ Upcoming({"write"}) => todo[1].page.url \notin ignored
    /\ \A i \in 1..Len(todo) :
          todo[i].do \in {"forget", "purge"} => todo[i].patterns = ignored

\* The last change of the rules that waits is the newest; when none waits, they hold.
RulesInv ==
    /\ \A i \in 1..Len(chain) : IsLast(i, Waiting({"rules"})) => chain[i].patterns = ignored
    /\ awake /\ Waiting({"rules"}) = {} => RulesHold

\* The open segment is about to end.
Closing == Upcoming({"resolve", "finalize", "enqueue", "clear"})

\* A segment without an alarm is about to end, or to have its alarm repaired.
AlarmInv ==
    awake /\ current # {} /\ ~alarm =>
        Closing \/ \E i \in 1..Len(todo) : todo[i].do = "repair"

Turns == Waiting({"focus", "blur"})
Shows == Waiting({"activated", "updated"})

\* What is timed is in front, whatever its title; what is about to be is what is in
\* front.
FrontHolds ==
    /\ \A c \in current : Closing \/ (focused /\ (Shows = {} => SamePlace(c.page, tab)))
    /\ \A i \in 1..Len(todo) : todo[i].do \in {"start", "open", "write"} =>
          focused /\ (Shows = {} => todo[i].page = tab)

\* The last event of a kind that waits tells what is so now; when none waits, the
\* segment is right.
FrontInv ==
    /\ \A i \in 1..Len(chain) : IsLast(i, Turns) => (chain[i].kind = "focus") = focused
    /\ \A i \in 1..Len(chain) : IsLast(i, Shows) => chain[i].page = tab
    /\ awake /\ Turns = {} => FrontHolds

ExtensionInv ==
    TypeInv /\ PlanInv /\ StoryInv /\ KeptInv /\ RulesInv /\ AlarmInv /\ FrontInv
=============================================================================
