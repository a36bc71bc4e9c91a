# A TLA+ model of trackkr

trackkr records which window and which web page a person works in. A daemon (`trackkrd`, Go)
polls the desktop, a browser extension (JavaScript) times pages and hands its records to the
daemon on a loopback port, and the daemon uploads everything to a server (Go, PostgreSQL) that
deduplicates, categorises and draws it. This directory holds the TLA+ modules that model the
parts where time, concurrency, crashes and lost messages decide whether an hour of work is
recorded once, twice or not at all; the TLC configurations that check them; and proofs that
TLAPS checks.

Run inside this directory:

    tlc -workers 2 -config MCReporter.cfg MCReporter
    tlapm DaemonProofs.tla
    tlapm TrackerProofs.tla
    tlapm ExtensionProofs.tla
    tlapm SiteIconsProofs.tla
    tlapm AppIconsProofs.tla
    tlapm SwayProofs.tla
    tlapm DedupProofs.tla
    tlapm WebProofs.tla

## The system

    window/idle detectors --> Tracker --\
                                         Enqueue --> Reporter --POST--> server --> PostgreSQL
    browser events --> extension --POST--> ExtensionServer --/  |
                       (storage)      <--GET idle--             pending.json

| component | source | state it keeps | operations | what is hard | what makes it correct |
|---|---|---|---|---|---|
| Tracker | `internal/tracker/tracker.go` | open segment, tracking/idle, last poll | poll, finalize | suspend, two clocks, backdated ends, failing detectors | records disjoint, none across a sleep, none without the user |
| Reporter | `internal/tracker/reporter.go` | queue, batch in flight, wake-up channel, `pending.json` | Enqueue, flush, Shutdown, load, save | lost replies, late execution, crash, shutdown race | nothing lost, one row each, in order, delivered in the end |
| ExtensionServer | `internal/tracker/extension.go` | running handlers | Serve, handleActivity, handleIdle | handlers that outlive Serve | a 202 is a promise |
| daemon life cycle | `cmd/trackkrd/main.go` | which goroutines run | start, cancel, drain, final flush | order of coming up and going down | the Reporter is shut down when nobody uses it any more |
| extension core | `extension/background-core.js`, `logic.js` | session: open segment, idle source; local: queue, rules; alarm; promise chain | one task per browser event, recovery | killed at any await, unreliable idle API, rules changing | nothing lost, one identity per record, no ignored page kept |
| app icons | `app_icon.go`, icon half of `reporter.go`, `app_icons.go` | cache, loads in flight, handed-over icons, queue, retry time, limiter, table | ask, load, evict, hand over, upload, isolate, store | artwork that changes under way, split batches, throttling | none forgotten, none asked for twice at once, a throttled one waits |
| sway/session detectors | `idle_sway_linux.go`, `sway_linux.go`, `session_linux.go` | connection, socket path; child process, idle mark | request, rediscover; start, mark, restart, read | late replies, process exit against reader, compositors that move | windows of the right compositor, no invented idleness, recovery |
| ingest | `internal/server/handlers_api.go`, `internal/db/queries.go` | `activity_records` | insert, replay | replay, invalid rows | unique identity, acknowledged rejection |
| site icons | `site_icon_refresher.go`, `site_icons.go`, `queries.go` | job queue, slots, limiter, claim lease | enqueue, defer, claim, complete, Close | several processes, expiry, full queue | one fetch at a time, a late one stores nothing, no slot lost |
| dedup, summaries | `activity_dedup.go`, `browser_family.go`, `queries.go` | tables | queries | boundaries, bounds on rows and work | each moment is counted once, cuts are admitted |
| categories, overrides | `queries.go`, `handlers_categories.go` | tables | transactions | concurrent limits, several queries to a page | limit kept, shares add up |
| timeline, detail pages | `timeline.go`, `handlers_detail.go`, `handlers_web.go` | none | window, merge, scale, layout, page | boundaries, changes of the clock | bars and labels stand where their time is, pages agree |
| limiter of logins, sessions | `middleware.go`, `session.go` | attempts per address | reserve, release, reset | release against reserve | never more than the limit |

Components interact by calls (`Tracker`, `ExtensionServer` call `Reporter.Enqueue`), by HTTP
(extension to daemon, daemon to server; a request may be executed although its client never
hears of it) and by files and browser storage that outlive the process that wrote them.
`PROJECT.json` lists every component, also those that are not modelled and why, and every hazard
with the line where it bites.

## Modules

| module | models | notes |
|---|---|---|
| `Ingest` | identities (`identity.go`), rejection and insertion on the server | operators only |
| `Delivery` | abstract: how far each segment has come | what the Reporter promises |
| `Reporter` | `reporter.go` without icons, the server behind it, the life of the process | EXTENDS `Ingest`, implements `Delivery` |
| `DaemonProofs` | theorems about `Reporter` and `Daemon` | TLAPS |
| `TrackerProofs`, `ExtensionProofs`, `SiteIconsProofs`, `AppIconsProofs`, `SwayProofs` | theorems about the module each is named for | TLAPS |
| `Daemon` | `run()`, the extension server, the tracker's hand-over | composes with the actions of `Reporter` |
| `Tracker` | the poll loop on two clocks | the user and the machine are part of it |
| `Extension` | the extension's worker, its storages, the browser | EXTENDS `Ordered` |
| `SiteIcons` | the image request, the refresh queue and workers of `site_icon_refresher.go`, the leases in `site_icons` | several server processes, one user |
| `AppIcons` | the cache and its worker, the tracker's hand-over, the Reporter's upload, the handler, limiter and table behind it | EXTENDS `Ordered` |
| `Sway` | the window detector on sway's socket, the supervisor of `swayidle`, the discovery both use, the route `/idle` | stands alone |
| `Dedup` | `activity_dedup.go`, `browser_family.go`: coverage, timeline, totals, category shares | operators, with a reference by moments |
| `Timeline` | days and weeks, the drawn window, bars, axis, marks; the detail page's arithmetic | operators, EXTENDS `Dedup` |
| `Web` | the tables of one user, the handlers that change them, pages of several queries, the limiter | EXTENDS `Timeline`, `Ordered` |
| `DedupProofs` | lemmas about the operators of `Dedup` | TLAPS |
| `WebProofs` | theorems about `Web`, days, weeks and charts of `Timeline` included | EXTENDS `DedupProofs`; TLAPS |
| `Ordered` | sorting by numbers and by a given order, filtering a sequence | operators that proofs can reason about |
| `MC...` | constants for TLC | |

**Reporter.** The variable `queue` is `Reporter.queue`, `batch` the copy `flush` took, `signal`
is `flushCh`, `pending` and `tmp` are the two files. Each mutex section is one action
(`Enqueue`, `TakeBatch`, `ClientFail` = requeue); what happens between them interleaves:
`Signal` after `Enqueue`'s unlock, `ServerCommit` and `ServerRefuse` after the POST left,
`ClientAck` or `ClientFail` when the reply comes or not. A request its client gave up on is an
orphan that the server may execute at any later moment (`LateCommit`), in any process life.
`Start` and `StartUnread` are `loadPending`; `WriteTemp` and `Rename` are `savePending`. `phase`
follows `run()`. `accepted`, `discarded`, `faults` and `due` are histories.

A record is its segment and the kind of its identity. UUIDs do not collide and `Derive` is a
function of the content; both are abstracted to that.

**Daemon.** The same variables, plus who is running. Every step is one of `run()`, of the tracker
(`TrackerOpens`, `TrackerCloses`, `TrackerReturns`), of a request handler (`Request`, `Decode`,
`HandlerEnqueues`, `Reply`) or of the Reporter. Nothing here keeps a producer from calling
`Enqueue` at the wrong time but the order in which the code waits; `KeepsReporterContract` checks
that each step is one that `Reporter` allows, so what is proved of `Reporter` holds of the daemon.

**Tracker.** `Now` carries a wall and a monotonic reading, like `time.Time`. `mono` is the time
the process experiences, `slept` how far the wall clock is ahead; a sleep adds to the second only.
`ReadIdle` and `ReadWindow` are the two halves of `poll`: input, a tick (up to `PollDelay`) or a
sleep may fall between. `current` and `lastPoll` are sets with at most one element for Go's nil and
zero. A window stands for app name and title. The truncation of a duration to whole seconds is the
unit of time.

**Extension.** `chain` holds the events that wait, `todo` the remaining operations of the task
that runs; each action is the code between two awaits that something can fall between: a kill, a
tick, the options page. `Dispatch` is a listener up to its first such await. A `Kill` empties both
and keeps the storages, and may take the alarm; the next event wakes the worker, which recovers
first (`Resolve`, `Deliver`, `Repair` or `Seed`). The question to the daemon whether the user is
idle is answered within a step, in every way `readIdleReply` distinguishes. A page is a
record of tab, url and title, and each comparison is the code's: `shouldSwitch` by all three, a
removed tab by its id, recovery (`stillInFront` for `stillActive`) by tab and url, rules by url.
Rules are the set of urls they cover; a page `trackable` refuses is treated by the code as one they
cover and is not told apart. There is one window.

**SiteIcons.** `rows` is the user's part of the table; everything else belongs to one process and
dies with it. `View` and `Enqueue` are the two halves of `handleSiteIcon`: the row is read, and the
job that follows from it may be enqueued after the row has changed. `pending` is the map of jobs
with a slot, `jobs` the channel, `deferred` the timers of `deferJob`, `hits` the limiter. A worker
goes through `Take` (the select, `reserve`, and the reading of the clock that starts `refresh`),
`Claim` or one of its failures, `Fetch`, and `Complete` or `GiveUp`; each database call is one
transaction under the user's advisory lock, and a claim that commits without its answer arriving
(`ClaimUnanswered`) is told apart. There is one user, so that the limit of the queue and that of
the user bound the same set, and the limiter's sweep of other users has no effect. The two
readings of the clock in `run` and `refresh`, one after the other without a wait between, are one.
A lease is its own token in the code, a time to the microsecond; on the model's coarse clock it
carries its worker, so that readings that differ in fact do not collide. `Tick` keeps a phase
within its context's budget, except for the workers of `MayStall`, whose process may be suspended
between two steps; such a worker is `late`. `evicted`, `superseded` and `starts` are histories.

**AppIcons.** `entries`, `inFlight`, `requests` and `closed` are the fields of `appIconCache`,
`loading` the worker between `run`'s receive and `finishLoad`; `appIcons` is the tracker's memory of
what it handed over, `icons`, `retryAt` and `failures` the Reporter's. `Poll` is `iconForApp` and
`maybeEnqueueAppIcon` in one step, since both run in the poll loop; it is as atomic as the code
needs it to be, since the fields it touches are guarded by three mutexes and nothing else changes
them in between but removals. An upload goes through `Flush`, an answer of the server (`Serve`,
`GiveUp`) and `React`; during isolation `React` asks for the next single icon. A request given up
may be executed later (`Late`). What a bad icon is, is a constant; `Serve`'s 413 stands for a body
beyond the limit and is a fault here, since the client's own bound keeps under it. `taken` and
`refused` are histories. A restarted daemon remembers nothing, in the model as in the code.

**Sway.** `live` is the set of compositors that run and `session` the one the user works in.
A behaviour watches one of the two detectors (`watch`), for they share nothing else. A request of
the window detector is `ActiveWindow`, up to two attempts, a scan, and a third (`call` says where it
is); `conn.unread` counts replies that arrived after their request was given up, which the next one
would read. For `swayidle` the model has what `-w` and its configuration make it do: a mark after
`effectiveTimeout` without input, a mark at the next input, in order, through a pipe. `idleAge` is
the age of `idleSince`, `quiet` the true one. `/idle` is `Ask`, `ReadIdleTime`, `Reply`.

**Dedup, Timeline, Web.** Time is an integer whose unit is a part of a second, because the rules for
slices below a second and the rounding of totals are about such parts. A row carries an `override`
set, as the joined query returns it. Maps of the code are functions, sorted slices are sequences,
and a heap is the set of what it holds with its order. `Dedup` ends with the reference: the moments
of a row that no page of its browser covers, and the timeline as it would be without limits
(`fullTimeline`, `firstOf`). A zone has one change of its offset, and `date` is
what Go's `time.Date` does with it. In `Web` each statement or transaction is a step: the creation of
a category is three under a row lock, a dashboard reads records, defaults and categories in three,
and the record editor reads page after page (a page is the set of its rows; how they stand on it is layout). Requests interleave; pages that are computed from
one set of rows are checked in every state where nothing is under way (`quiet`). An account says
what its user does, so that one run covers users of different kinds without their product.

## What the runs check

| run | instance | states | shows |
|---|---|---|---|
| `MCReporter.cfg` | 3 segments, one backwards, one without identity; old `pending.json` with two; one producer; `FlushSize` 1; 2 records held, 1 orphan | 460 000 | the seven properties of `Reporter` |
| `MCReporterKill.cfg` | the same | violated | see Findings 1 |
| `MCDaemon.cfg` | 3 segments, tracker, one handler; `FlushSize` 1; 1 record held | 1.1 million | hand-overs survive, contract kept, shutdown completes |
| `MCDaemonAccept.cfg` | as `MCDaemon` | violated | see Findings 2 |
| `MCTracker.cfg` | 2 windows, 5 units of time, threshold 3, gap 2, 2 units of sleep | 3 million | the four properties of `Tracker` |
| `MCExtension.cfg` | a tab with two titles of one url, another tab; rules that cover the first url or none; 2 units of time, 2 events waiting, 2 segments, queue limit 1 | 8.5 million | the five properties of `Extension` |
| `MCExtensionActive.cfg` | 1 event waiting | violated | see Findings 3 |
| `MCSiteIcons.cfg` | 2 processes of one worker, one may stall; 2 sites, 1 row kept; 5 units of time, a lease of 4 | 1.9 million | a lease excludes and fences |
| `MCSiteIconsQueue.cfg` | 1 process of two workers; queue and user limit 2, rate limit 1 in a window of 2 | 590 000 | slots, limiter and `Close` |
| `MCWeb.cfg` | ten users: rows of every overlap on 4 units of time, five zones, one who edits, one who pages, one who logs in | 200 000 | the nine properties of `Web` |
| `MCAppIcons.cfg` | 2 applications, one updated once and with a bad icon; all maps but the queue hold one; 3 moments, one fault | 6 million | the three properties of `AppIcons` |
| `MCSway.cfg` | 2 names of compositors; a threshold of one and a half seconds | 490 000 | the three properties of `Sway` |

*Reporter.* `NoLoss`: without a kill or file error a segment is queued, in flight, on disk or
dealt with. `StoredOnce`: replays land on one row. `NoLostWakeup`: a queue at `FlushSize` has a
wake-up on its way. `FIFO` (an action property): the batch in flight and the queue behind it form
a line that grows at its end and loses the acknowledged batch at its front.
`ImplementsDelivery`: every step is one of `Delivery`'s or a stutter, under `StageOf`.
`EventuallySettled`: every segment is stored, or rejected for good, unless a fault lost it.

*Daemon.* `AckedSurvive`: what a producer parted with (the tracker by enqueueing, the extension
by seeing the 202) survives an orderly stop and start, also when the grace period ends with
handlers running. `KeepsReporterContract` as above, while handlers end in time.
`ShutdownCompletes`: no handler, flush or signal is waited for for ever.

*Tracker.* `Disjoint`: on the wall clock records have a length, follow each other, and end before
the open segment starts. `NapsCutRecords`: no record spans a sleep of `suspendGapThreshold`; the
one exception the code has (cancelled as the first thing after waking) is bounded by one poll.
`IdleBounded`: no record runs on without input for longer than the threshold and one poll.
`InputCredited`: a touch that follows another, with a whole poll between them, lies in a record or in the open segment, and at once. The exceptions in these
formulas are conduct of the code that the model turned up: a window detector that fails returns
from `poll` before `lastPoll` is set.

*Extension.* `NothingLost`: a segment worth keeping is timed, queued or received, wherever the
worker was killed, unless it was left out on purpose (short, covered by a rule, beyond the queue's
limit, which holds) or overwritten as in Finding 3. `OneStory`: an identity never has two ends and no moment is in two records.
`RulesKept`, `PollRuns` and `RightPage` speak of the worker at rest (awake, nothing waiting): no
covered page is left in storage, an open segment has its alarm, and only the tab in front and the url
it shows are timed. The title may be an old one (see Conduct worth knowing). Each tab of the instance
shows one url, so that a segment of another url in the front tab is left to the theorem.

*SiteIcons.* `OneFetch`: two workers, of whatever processes, never fetch one site at a time while
both keep their budgets and the row is there; the assumption it needs, `ClaimLease` longer than two
database budgets and a fetch, is part of `SiteIconsAssumption` and holds of the source's constants.
`OldFetchesFenced`: a worker whose site was claimed again after it stores nothing, late or not.
`SlotsAccounted`: each slot belongs to exactly one job in the channel, with a timer or with a
worker, so that no slot is lost and a job that comes back finds room. `RateKept`: claimed refreshes
of a window stay within the limit although reservations are refunded out of order.
`CloseReturns`: `Close` waits for no timer, no full channel and no fetch.

*AppIcons.* `IconsKept`: what the tracker will not hand over again was stored, is queued, or was
refused by itself, so that neither an icon that changes under way nor a bad one in its batch nor a
lost answer forgets another. `LoadsOwned`: a key in flight is in the channel or being loaded, once;
a key left over would never be asked for again. `WaitsItsTurn`: after a 429 the process is not
throttled again at once, which relates the Reporter's clock to the server's window.

*Sway.* `RightWindow` (an action property): a tree that is reported is the reply to the request just
made, and the detector leaves a compositor only after that one failed to answer. `IdleTrue`: neither
the poll loop nor a browser is told of more idle time than there was, but for a resume on its way.
`Recovers`: when a compositor stays the only one, its windows are reported and its idle user is seen,
whatever name it has, without a restart of the daemon.

*Web.* `CountedOnce`: the binary searches and prefix sums agree with the moments, for totals and
pieces alike. `TimelineHonest`: what is cut is said to be cut, and what stays is the earliest part.
`CategorySplit`: shares add up to the applications, no share is off by a second, every one has a
category that exists, and the editor names the same. `ChartTrue`: day, week and span charts hold
their rows at their places, with labels and gaps. `DetailTrue`: the page of an application or site
agrees with the dashboard. `PeriodsTile`: days and weeks leave no gap and do not overlap across a
change of the clock. `PagesComplete`: who pages to the end has seen every record that was there from
the start, once. `LimitKept`: no more categories than allowed, and nothing dangles.
`AttemptsBounded`: attempts in a window stay within the limit, but for slots that another request's
`release` took.

Each property fails with the mutant of the code named for it in `PROJECT.json`; a mutant stands
right before the definition it changes.

### Bounds

`MaxHeld` pauses producers: with 2 a batch in flight meets a record behind it, which is what
requeue, order and the shutdown race need; with `FlushSize` 1 both must be signalled. `MCDaemon`
holds one, since it composes and repeats nothing of `Reporter`'s own properties. One orphan is enough for a late execution to
meet a resend. `MaxTime`, `MaxSlept`, `PollDelay` bound `Tracker`'s clocks: five units hold an idle
threshold, a sleep and a resume; poll delays are checked to be zero in the run, while sleeps and
input still fall between the two readings. `MaxSegments` stops the raising of events: tasks that
were begun still mint a segment each, so two-segment histories always run to rest; `MaxChain` 2
lets a closed tab raise its two events. The queue limit 1 makes every second record trim the queue.
In `MCSiteIcons`
the clock runs one unit past a lease taken at the start, so that a stalled worker comes back after a
second claim of its row; `MaxMishaps` 2 allows a kill or a damaged picture together with a stop, and
one row kept for two sites makes the second claim prune. The queue's run has a window shorter than a
refresh's lifetime, so that reservations expire, are refunded and are waited for in one history.
In `MCAppIcons` the cache, its channel and the tracker's memory hold one of two keys, so that each
of them evicts or is full; the Reporter's queue holds both, and `Fits` never refuses. In `MCWeb`
three rows in every position on four units (two units to a second) make intervals touch, nest,
overlap and cross the window; the day has six hours, so that the padding, the widening and both
edges of `chartWindow` occur; two categories against three names, three wishes and two requests
reach the limit; a page of one row against three makes the cursor matter. `Cap` in `MCSway` is above
the threshold, and ages beyond it are not told apart; `MaxPipe` 2 lets a mark wait behind another.
Where time or the users' actions stop (`Tracker`, `Extension`, `SiteIcons`, `AppIcons`, `Web`, `Sway`) the system may stop too, and deadlock is not checked.

### Fairness

Liveness is checked for `Reporter`, `Daemon`, `SiteIcons` and `Sway`. Weak fairness is on what the code retries or
bounds by itself: the ticker, the timeout of the HTTP client, the end of a flush, the grace period
of `Serve`. The server is assumed to store a batch once it was asked often enough (strong fairness
of `ServerCommit`): no retry helps against one that refuses for ever. Producers, handlers, kills
and file errors are not fair: a client may stall for ever. The tracker's return is strongly fair:
`select` picks at random between a tick and the cancelled context. In `SiteIcons` a refresh moves
on because each of its calls has a context that ends, and a worker or timer whose context is done
returns (`Leave`, `Abandon`); that a worker takes another job, that a timer fires or that the clock
advances is not assumed. In `Sway` the poll loop, the supervisor and
`swayidle` go on (weak fairness), and a request or a probe that may be answered in time again and
again is answered once (strong fairness): a compositor that misses every deadline for ever is not
one that came back. That a compositor starts, or that the user does anything, is not assumed.
`Tracker` and `Extension` have
safety properties only, since browser and user promise nothing.

## What is proved

Each proof holds for every value of the constants that the module's assumptions admit: any number
of segments, producers, handlers, workers, pages, rows, any limit and any budget. Assumptions give
the constants their types and, where the code relies on it, a relation: a lease longer than the
budgets of a refresh (`SiteIconsAssumption`), an upload that is not larger than what a user may have
(`FlushLimit <= UserLimit`, `AppIconsAssumption`), finitely many handlers and segments, none of which
is both backwards and from an old file (`DaemonAssumption`), and a browser whose name on the pages is
a name of its own in the tables (`FamilyAssumption`).

No property below is inductive as it stands. The invariant a proof rests on is in the last section
of the module it is about (for the limits in `WebProofs`), in named parts, and TLC checked it on
a small instance before it was proved.

**`DaemonProofs`**, of `Reporter`: `TypeCorrect`, `NothingLost` (`NoLoss`), `AtMostOneRow` (`StoredOnce`),
`WakeupsArrive` (`NoLostWakeup`), `LineKeepsOrder` (`FIFO`) and `ReporterImplementsDelivery`. All but
`WakeupsArrive` rest on `IInv`: that a batch may be forgotten on a 201 needs to know that the server settled it
(`ShapeInv`: `flusher = "committed"` implies its segments are settled); that `loadPending` may
overwrite nothing needs the queue to be empty when no process runs; that `Exit` loses nothing needs
the queue to be on disk in phase `done`; a file that could not be removed needs `FileInv`; and one
row per segment needs every record to be the canonical one of its segment on every path
(`CanonicalInv`). `AcceptedInv` says that nothing is held or settled that was not handed over, which
the refinement uses for its first step. `IInv` is split into what needs no saved queue (`LooseInv`)
and what does (`SavedInv`), since the daemon keeps the first one also where a handler outlives the
Reporter. `WakeInv` adds that a flush that was woken finds something to take.

Of `Daemon`: `OrderlyStopKeepsRecords` (`AckedSurvive`), `RunUsesReporterAsMeant`
(`KeepsReporterContract`), and `DaemonStoresOnce`, which carries `StoredOnce` over. `LifeInv` is the
order in which `run()` waits: who may still enqueue in which phase. `RequestInv` says where the
segments of a request are at each point of its handler, and `OwedInv` that what was acknowledged has
reached the Reporter.

**`TrackerProofs`**: `RecordsDisjoint` (`Disjoint`), `SleepCutsRecords` (`NapsCutRecords`),
`IdleTimeIsCut` (`IdleBounded`), `WorkIsCredited` (`InputCredited`). `ClockInv` relates the readings
that the poll loop keeps (open segment, last poll, deadline) to the two clocks; `NapInv` says that a
sleep which no poll has noticed lies after the last poll, so the gap between them shows it; `IdleInv` that the idle time
in hand is as old as the poll; `CreditInv` that a poll that had a recent touch to see left a segment
open. Trying to prove `InputCredited` showed that an earlier statement of it held only while polls
take less time than their interval; the distance between two touches now includes a poll's own time
(`Follows`).

**`ExtensionProofs`**: `NothingIsLost` (`NothingLost`), `EachMomentOnce` (`OneStory`), `CoveredPagesGo`
(`RulesKept`), `AlarmsRun` (`PollRuns`), `FrontIsTimed` (`RightPage`). `PlanInv` says what may stand
behind the next operation of a task; `StoryInv` that a segment's record is in the queue before
the segment is cleared, and that the two, which a kill can leave side by side, are one story. `NothingLost`
needs `OneStory`, because an acknowledged record is removed by its identity (`KeptInv`). What the
worker owes at rest is stated for every state as a debt: the rules hold unless an event that tells of
their change is still waiting (`RulesInv`), the alarm is set unless a step that sets it is planned
(`AlarmInv`), and the page in front is, up to its title, the one that is timed, or the one that the events in `chain`
will lead to (`FrontInv`).

**`SiteIconsProofs`**: `TypesKept` (`TypeOK`), `LeaseExcludes` (`OneFetch`), `OvertakenStoreNothing`
(`OldFetchesFenced`), `SlotsNeverLeak` (`SlotsAccounted`), `RefundsKeepRate` (`RateKept`). A worker
that is not late has used less of its lease than its phase allows (`BudgetInv`), and holds the token
in the row unless a later claim overtook it (`LeaseInv`); a key is in one place only: in the channel, with a
timer or with a worker (`SlotInv`). That the limiter keeps its rate although reservations are refunded
in any order is a statement about every moment of the window: since then there are no more claimed
refreshes and claims under way than reservations (`RateInv`).

**`AppIconsProofs`**: `IconsAreKept` (`IconsKept`), `LoadsAreOwned` (`LoadsOwned`), `ThrottledOnceOnly`
(`WaitsItsTurn`). `KeptInv` is what an answer says of the batch it answers: a 200 that it is stored
(the pruning of the table spares a batch that fits the limit), a 422 that a bad icon is in it, a 413 that it has more than
one. `TurnInv` says that at `retryAt` the oldest hit the limiter knew of is over.

**`SwayProofs`**: `IdleIsTrue` (`IdleTrue`), `TreeIsTheRightOne` (`RightWindow`). While a request is made
its connection has no reply left to read (`WindowInv`), and a scan has found each compositor that ran all
along and that it has passed (`ScanInv`). `ChildInv` says that `swayidle`'s timer is not ahead of the
user, and that the last mark in its pipe says what it believes of him.

**`WebProofs`**: `CategoryLimit` (`LimitKept`), `AttemptLimited` (`AttemptsBounded`), `PagingIsComplete`
(`PagesComplete`). That an insertion keeps the limit needs to know that who has counted found room and
still holds the lock of the user's row, and that nobody creates without it (`LockInv`); that the new
category is a new one needs the ids to be below `nextCategory` (`CategoryInv`); a deletion leaves
nothing that dangles because every default and override points to a category, `Uncategorized`, or a
record that is there (`ReferenceInv`). `UpdateCategory` and `DeleteCategory` take no lock, and the
proof shows that they need none. The limiter's invariant counts since every moment of the window, as
`RateInv` does (`Covered`). A reader has seen nothing that lies behind his cursor, and what he has yet
to see of what was there does (`CursorInv`); that a page which is not the last one has a last row,
ahead of all that is left, is `PageFacts`, and that SQL finds what Go names is `SubjectAgrees`.

The pages: `CategoriesAddUp` (`CategorySplit`), `NoSecondTwice` (`CountedOnce`), `TimelineIsHonest`
(`TimelineHonest`), `DaysTile` (`PeriodsTile`) and `ChartsTell` (`ChartTrue`). `DashInv` joins what a page needs of the tables: the two
invariants above, rows with their columns and numbers of their own (`RowsInv`), and what a page has
read so far (`PageInv`: one override at most per row, a default that existed when it was read and, unless
one was deleted since, still does). The rest is about operators and holds for any rows:
`visibleUncoveredDuration`'s two binary searches and its prefix of gaps credit what
the moments say (`PrefixFacts` and the lemmas around it); the method of the largest remainder makes parts that add up to the
rounded total, each less than a second off (`ApportionFacts`); the heap with its budget keeps the
earliest slices; a midnight plus `n` days is the midnight `n` days later (`MidnightSteps`), from which the
days of a week follow by induction (`DaysAre`). For the charts: every moment of a joined bar is a moment of one
of its rows, by induction over the fold (`MergeFacts`); the hours before a time that the axis keeps grow
by one with each hour a row touches, so that what is left of a row stands on the compressed axis as long as it is
and in order (`BelowFacts`, `KeptStands`); and the window of a day stays on whole hours while it is widened and
pushed back into the day (`WidenedFits`, `PushedFits`, `DayFits`).

`DaysTile` has a hypothesis: in each user's zone every midnight of the wall clock comes exactly once.
It holds of the zones of `MCWeb` and of every zone that changes its clock away from midnight. Without it the
property is false of the code: where midnight is skipped, `time.Date` and `AddDate` make a day that ends an
hour into the next one; where it is repeated, the hour before the second midnight is in no day of
its own (see Conduct worth knowing). `ChartsTell` needs that, and that the clock changes by an hour or not at
all (`ByTheHour`), which holds of the zones of `MCWeb` too: with a change by half an hour TLC finds a day whose last
half hour has no place on the axis. `ViewAssumption` says of the views that a rolling one has a span and a tick.

The proofs go action by action and, under an action, part by part. Lemmas about sequences, filters and
counting come first in each module. Where a proof needs the least of a set of numbers, or that a set of
positions can be listed in order, it takes a smallest counterexample (`NatLessThanWellFounded` and
`WFMin` of the library). `FS_...` are the library's theorems on finite sets.

The library's induction theorems take an operator, which the provers cannot instantiate. `DedupProofs`
states induction with a set instead: a set that holds 0 and with each number the next one holds every
number (`Numbers`), and likewise for finite sets. The claim to be proved is put into a
comprehension (`P == {n \in Nat : ...}`). This is how the sums, the folds and the recursive
functions of `Dedup` and `Timeline` are reasoned about.

Only model-checked: liveness (`EventuallySettled`, `ShutdownCompletes`, `CloseReturns`, `Recovers`),
which the prover cannot do; and `DetailTrue`, whose part on the share of a site is about rounding: with seconds as coarse as
the totals themselves the share of the largest site can round to more than 100.

## Findings

1. `reporter.go:510`: `pending.json` is removed when it has been loaded, before the server has its
   records. `docs/plan.md:266` persists the queue "so records survive daemon restarts"; a kill in
   between loses them (`MCReporterKill.cfg`).
2. `extension.go:210`: the comment above `Serve` says it does not return until every handler has
   finished; on an accept error it does, and a record the extension saw a 202 for can be lost
   (`MCDaemonAccept.cfg`).
3. `background-core.js:519`: the idle API's return to "active" calls `startTracking` without
   `finalize`, so a segment that was left open on the daemon's word is overwritten and its time is
   never recorded. Lines 386-387 say that every event wants both (`MCExtensionActive.cfg`).

Two remarks on `docs/phase8-site-favicons-plan.md`, which no run is about: its cache contract
says that a failed attempt advances `expires_at` by a year, while `refresh` keeps a failure that is
not definitive for an hour only; and it gives duplicate jobs of a user and site one slot, while a
repair and an ordinary refresh of one site have a slot each. `SiteIcons` follows the code.

## Conduct worth knowing

Met while modelling; no document of the repository contradicts it, or no run is about it.

- `activity_dedup.go:254`: a category deleted between the query of the defaults and that of the
  categories leaves a total with neither name nor colour on that page. `CategorySplit` excepts it
  (`page.stale`).
- `middleware.go:174`: `release` takes the newest reservation of the host, which may be another
  request's. `AttemptsBounded` counts these (`strays`).
- `timeline.go:90`: `dayBounds` returns "the wall-clock day containing t". In a zone whose clock is put
  forward at midnight the day starts at 01:00 and `AddDate` ends it at 01:00 of the next, so two days overlap;
  where it is put back across midnight, the hour before the second midnight is in no day. And `timeline.go:244` indexes the axis by whole hours, which a change of half an
  hour shifts. The zones of `MCWeb` change by whole hours, away from midnight.
- `reporter.go:479`: a late upload that the client gave up on may store an older icon over a newer
  one; the tracker hands the newer one over again only after `Refresh`.
- `background-core.js:727`: `stillActive` compares tab and url and ignores the title, as
  `tests/chrome.test.js:395` says. When a kill drops the event of a new title, recovery keeps the
  segment, and its record carries the old title until an event starts the next one.
- `extension.go:274`: whether the detector is usable and its idle time are asked in two steps. One
  that stops in between is answered as not idle. After a restart of `swayidle` an idle user counts
  as present for up to the threshold.
- `sway_linux.go:237`: if the session's compositor hangs and a nested one answers, rediscovery
  adopts the nested one; `RightWindow` excepts a compositor that missed a deadline.
- `reporter.go:494`: an unreadable `pending.json` stays on disk and is overwritten by the next
  `savePending`. `Reporter` counts it as a fault (`StartUnread`), after which nothing is promised.

## Not modelled, and the plan

Not modelled for good: rendering, cryptography, image decoding and the search of icon themes
(`icon_xdg_linux.go`), platform calls, the favicon fetcher, migrations, and the start and stop of the
HTTP server. Inside the modelled parts: the text of records, names and categories, HTTP status codes
that lead to the same branch, the truncation of over-long records in `toRecord` and
`clampSuspendedInterval`, segments stored by old builds of the extension, a browser with several
windows, storage calls of the extension that fail without a kill, the walk of sway's window tree,
several users of the web side (each has his own rows; the limiter's hosts are independent), and the
truncation of sites after 25.

Left to do: a refinement of a more abstract limiter, of which `SiteIcons`, `AppIcons` and `Web` each have their own.
