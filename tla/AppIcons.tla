------------------------------ MODULE AppIcons -------------------------------
(* The way of an application's icon: the detector's cache with its worker     *)
(* (tracker/app_icon.go), the tracker that hands icons over and the Reporter  *)
(* that uploads them (tracker/reporter.go), and the handler and table of the  *)
(* server (server/app_icons.go, db/queries.go). One device; another device    *)
(* of the user may upload too.                                                *)
EXTENDS Integers, SequencesExt, FiniteSetsExt, Ordered

CONSTANTS
    Apps,               \* the keys of applications, numbers in their order
    Bad,                \* <<key, icon>> that the server will not take
    CacheLimit, WorkerQueueLimit, Positive, Negative,   \* the cache
    StateLimit, Refresh,                                \* the tracker
    QueueLimit, FlushLimit, RetryMin, RetryMax,         \* the Reporter
    RateLimit, RateWindow, UserLimit,                   \* the server
    Updated,            \* the applications that are updated
    MaxNow, MaxIcon, MaxFaults  \* bounds: the clock, new artwork, faults

VARIABLES
    now, installed,     \* the clock, and each application's artwork: 1..MaxIcon
    stage,              \* the daemon: "up", "draining" (its context is done), "flushed"
    entries,            \* appIconCache.entries: key -> [icon, expires]; icon is {} or {i}
    inFlight, requests, loading, closed,
    appIcons,           \* Tracker.appIcons: key -> [icon, at]
    icons,              \* Reporter.icons: key -> icon
    retryAt, failures,
    post,               \* the upload: see Idle
    hits, late,         \* the server: its limiter, and requests still running
    table,              \* app_icons: <<key, icon>>, the last seen first
    faults,
    taken, refused,     \* histories: what the server stored, what it answered 4xx alone
    throttled           \* the last answer of this process was a 429

machine == <<now, installed>>
cache == <<entries, inFlight, requests, loading, closed>>
queue == <<icons, retryAt, failures>>
server == <<hits, table, late>>
histories == <<taken, refused, throttled>>
vars == <<machine, stage, cache, appIcons, queue, post, server, faults, histories>>

ASSUME AppIconsAssumption ==
    /\ Apps \subseteq Nat /\ {CacheLimit, WorkerQueueLimit, StateLimit, QueueLimit, FlushLimit,
                              RateLimit, UserLimit} \subseteq Nat \ {0}
    /\ RetryMin \in Nat \ {0} /\ RetryMax \in Nat /\ RetryMax >= RetryMin /\ RateWindow \in Nat \ {0}
    /\ {Positive, Negative, Refresh, MaxNow, MaxIcon, MaxFaults} \subseteq Nat
    /\ FlushLimit <= UserLimit

\* batch: what is asked now; todo: what isolation still has to ask; answer:
\* the status, "none" while there is none.
Idle == [batch |-> <<>>, todo |-> <<>>, alone |-> FALSE, answer |-> "none", wait |-> 0]

Init ==
    /\ now = 0 /\ installed = [a \in Apps |-> 1] /\ stage = "up"
    /\ entries = <<>> /\ inFlight = {} /\ requests = <<>> /\ loading = {} /\ closed = FALSE
    /\ appIcons = <<>> /\ icons = <<>> /\ retryAt = 0 /\ failures = 0
    /\ post = Idle /\ hits = <<>> /\ table = <<>> /\ late = {} /\ faults = 0
    /\ taken = {} /\ refused = {} /\ throttled = FALSE

without(f, k) == Restrict(f, DOMAIN f \ {k})
with(f, k, v) == [x \in DOMAIN f \union {k} |-> IF x = k THEN v ELSE f[x]]

\* The keys that are first by time.
oldest(time) == {k \in DOMAIN time : \A j \in DOMAIN time : time[k] <= time[j]}
-----------------------------------------------------------------------------
(* A poll looks at the window of an application.                           *)

\* EnqueueAppIcon: FALSE if a new key cannot fit.
Fits(a) == a \in DOMAIN icons \/ Cardinality(DOMAIN icons) < QueueLimit

\* maybeEnqueueAppIcon, with evictAppIconState.
maybeEnqueueAppIcon(a, i) ==
    LET known == a \in DOMAIN appIcons
        due == ~known \/ appIcons[a].icon # i \/ now >= appIcons[a].at + Refresh
        full == ~known /\ Cardinality(DOMAIN appIcons) >= StateLimit
        goes == oldest([k \in DOMAIN appIcons |-> appIcons[k].at])
    IN  IF due /\ Fits(a)
        THEN /\ icons' = with(icons, a, i)
             /\ appIcons' = with(IF full THEN without(appIcons, Min(goes)) ELSE appIcons,
                                 a, [icon |-> i, at |-> now])
             /\ UNCHANGED <<retryAt, failures>>
        ELSE UNCHANGED <<appIcons, queue>>

\* Mutant: the key stays in flight when the worker's queue is full.
AskForgetting(a) ==
    /\ entries' = without(entries, a)
    /\ inFlight' = inFlight \union {a}
    /\ requests' = IF a \notin inFlight /\ Len(requests) < WorkerQueueLimit
                   THEN Append(requests, a) ELSE requests
    /\ UNCHANGED <<loading, closed>>

\* iconForApp without a fresh entry: the worker is asked, once. What enters
\* the map in flight leaves it again if the channel is full.
Ask(a) ==
    LET goes == a \notin inFlight /\ Len(requests) < WorkerQueueLimit
    IN  /\ entries' = without(entries, a)
        /\ inFlight' = IF goes THEN inFlight \union {a} ELSE inFlight
        /\ requests' = IF goes THEN Append(requests, a) ELSE requests
        /\ UNCHANGED <<loading, closed>>

Poll(a) ==
    /\ stage = "up"
    /\ IF a \in DOMAIN entries /\ now < entries[a].expires
       THEN /\ IF entries[a].icon = {} THEN UNCHANGED <<appIcons, queue>>
               ELSE maybeEnqueueAppIcon(a, Max(entries[a].icon))
            /\ UNCHANGED cache
       ELSE Ask(a) /\ UNCHANGED <<appIcons, queue>>
    /\ UNCHANGED <<machine, stage, post, server, faults, histories>>
-----------------------------------------------------------------------------
(* The worker of the cache.                                                *)

\* run: what is queued when the context ends is cancelled.
TakeRequest ==
    /\ requests # <<>> /\ loading = {} /\ ~closed
    /\ requests' = Tail(requests)
    /\ IF stage # "up"
       THEN inFlight' = inFlight \ {Head(requests)} /\ UNCHANGED loading
       ELSE /\ \E found \in {{}, {installed[Head(requests)]}} :
                 loading' = {[key |-> Head(requests), icon |-> found]}
            /\ UNCHANGED inFlight
    /\ UNCHANGED <<machine, stage, entries, closed, appIcons, queue, post, server, faults, histories>>

\* loadAndCache after the load, with finishLoad and evictOneLocked.
FinishLoad ==
    /\ \E l \in loading :
         LET full == l.key \notin DOMAIN entries /\ Cardinality(DOMAIN entries) >= CacheLimit
             entry == [icon |-> l.icon,
                       expires |-> now + IF l.icon = {} THEN Negative ELSE Positive]
         IN  /\ inFlight' = inFlight \ {l.key}
             /\ IF stage # "up" \/ closed THEN UNCHANGED entries
                ELSE \E gone \in IF full THEN oldest([k \in DOMAIN entries |-> entries[k].expires]) ELSE {l.key} :
                       entries' = with(without(entries, gone), l.key, entry)
    /\ loading' = {}
    /\ UNCHANGED <<machine, stage, requests, closed, appIcons, queue, post, server, faults, histories>>

Close ==
    /\ stage # "up" /\ ~closed
    /\ closed' = TRUE
    /\ UNCHANGED <<machine, stage, entries, inFlight, requests, loading, appIcons, queue, post,
                   server, faults, histories>>
-----------------------------------------------------------------------------
(* The Reporter's upload.                                                  *)

\* flushAppIconsWithBackoff up to the request: the first keys in order.
Flush ==
    /\ post = Idle /\ icons # <<>> /\ stage # "flushed"
    /\ stage = "up" => now >= retryAt
    /\ LET first == {a \in DOMAIN icons : Cardinality({b \in DOMAIN icons : b < a}) < FlushLimit}
       IN  \E keys \in [1..Cardinality(first) -> first] :
             /\ Lists(keys, first)
             /\ post' = [Idle EXCEPT !.batch = [n \in 1..Cardinality(first) |-> <<keys[n], icons[keys[n]]>>]]
    /\ stage' = IF stage = "draining" THEN "flushed" ELSE stage
    /\ UNCHANGED <<machine, cache, appIcons, queue, server, faults, histories>>

\* Mutant: whatever is queued under the key is taken as uploaded.
removeByKey(batch) == icons' = Restrict(icons, DOMAIN icons \ {p[1] : p \in Range(batch)})

\* removeMatchingAppIcons: only if the queued icon is the uploaded one.
removeMatchingAppIcons(batch) ==
    icons' = Restrict(icons, {a \in DOMAIN icons : <<a, icons[a]>> \notin Range(batch)})

clearAppIconRetry == retryAt' = 0 /\ failures' = 0

\* What doubles with each failure, up to a limit.
Backoff == Min({RetryMin * <<1, 2, 4, 8, 16>>[Min({failures, 4}) + 1], RetryMax})

\* Mutant: the backoff alone decides.
deferByBackoff(wait) ==
    /\ failures' = failures + 1
    /\ retryAt' = now + Backoff

deferAppIconRetry(wait) ==
    /\ failures' = failures + 1
    /\ retryAt' = now + Max({wait, Backoff})

\* isPermanentAppIconStatus
Permanent == {"400", "413", "422"}

\* The next request of isolateRejectedAppIcons, or its end.
Isolate(todo) ==
    IF todo = <<>> THEN post' = Idle /\ clearAppIconRetry
    ELSE /\ post' = [Idle EXCEPT !.batch = <<Head(todo)>>, !.todo = Tail(todo), !.alone = TRUE]
         /\ UNCHANGED <<retryAt, failures>>

\* What the answer makes of the queue. "lost" is an error of the client.
React ==
    /\ post.answer # "none"
    /\ \/ /\ post.answer = "200" \/ (post.answer \in Permanent /\ Len(post.batch) = 1)
          /\ removeMatchingAppIcons(post.batch)
          /\ Isolate(post.todo)
       \/ /\ post.answer \in Permanent /\ Len(post.batch) > 1
          /\ Isolate(post.batch)
          /\ UNCHANGED icons
       \/ /\ post.answer \in {"lost", "429", "500"}
          /\ deferAppIconRetry(post.wait)
          /\ post' = Idle
          /\ UNCHANGED icons
    /\ throttled' = (post.answer = "429")
    /\ refused' = IF post.answer \in Permanent /\ Len(post.batch) = 1
                  THEN refused \union Range(post.batch) ELSE refused
    /\ UNCHANGED <<machine, stage, cache, appIcons, server, faults, taken>>
-----------------------------------------------------------------------------
(* The server: handleAppIconUpload.                                        *)

answered(status, wait) == post' = [post EXCEPT !.answer = status, !.wait = wait]

activeRateHits ==
    LET live == {i \in DOMAIN hits : hits[i] > now - RateWindow}
    IN  IF live = {} THEN <<>> ELSE SubSeq(hits, Min(live), Len(hits))

\* UpsertAppIcons: the batch's rows are the last seen now, and the rows past
\* UserLimit are pruned.
Upsert(batch) ==
    LET keys == {p[1] : p \in Range(batch)}
        others == Entries(table, {i \in DOMAIN table : table[i][1] \notin keys})
    IN  \E rows \in SetToSeqs(Range(batch)) :
          table' = SubSeq(rows \o others, 1, Min({UserLimit, Len(rows \o others)}))

\* What of the batch is stored when its transaction commits.
stored(batch) == taken' = taken \union (Range(batch) \intersect Range(table'))

\* A request that is answered in time: throttled, rejected, failed or stored.
Serve ==
    /\ post.batch # <<>> /\ post.answer = "none" /\ stage # "draining"
    /\ LET full == Len(activeRateHits) >= RateLimit
           bad == Range(post.batch) \intersect Bad # {}
       IN  \/ /\ full
              /\ hits' = activeRateHits
              /\ answered("429", Max({activeRateHits[1] + RateWindow - now, 1}))
              /\ UNCHANGED <<table, taken, faults>>
           \/ /\ ~full
              /\ hits' = Append(activeRateHits, now)
              /\ \/ /\ Len(post.batch) > 1 /\ faults < MaxFaults  \* the body is too large
                    /\ answered("413", 0) /\ faults' = faults + 1
                    /\ UNCHANGED <<table, taken>>
                 \/ /\ bad
                    /\ answered("422", 0)
                    /\ UNCHANGED <<table, taken, faults>>
                 \/ /\ ~bad /\ faults < MaxFaults                 \* the database failed
                    /\ answered("500", 0) /\ faults' = faults + 1
                    /\ UNCHANGED <<table, taken>>
                 \/ /\ ~bad
                    /\ Upsert(post.batch) /\ stored(post.batch) /\ answered("200", 0)
                    /\ UNCHANGED faults
    /\ UNCHANGED <<machine, stage, cache, appIcons, queue, late, refused, throttled>>

\* The client gives up: the request never arrived, or runs on without it.
\* When the daemon's context is done it always does.
GiveUp ==
    /\ post.batch # <<>> /\ post.answer = "none"
    /\ IF stage = "draining" THEN UNCHANGED faults
       ELSE faults < MaxFaults /\ faults' = faults + 1
    /\ answered("lost", 0)
    /\ \/ UNCHANGED <<hits, late>>
       \/ /\ Len(activeRateHits) < RateLimit
          /\ hits' = Append(activeRateHits, now)
          /\ late' = IF Range(post.batch) \intersect Bad = {} THEN late \union {post.batch} ELSE late
    /\ UNCHANGED <<machine, stage, cache, appIcons, queue, table, histories>>

Late ==
    /\ \E batch \in late :
         /\ Upsert(batch) /\ stored(batch)
         /\ late' = late \ {batch}
    /\ UNCHANGED <<machine, stage, cache, appIcons, queue, post, hits, faults, refused, throttled>>

\* Another device of the user uploads the icon of an application of its own.
OtherDevice ==
    /\ faults < MaxFaults /\ faults' = faults + 1
    /\ Upsert(<<<<Max(Apps) + 1, 1>>>>)
    /\ UNCHANGED <<machine, stage, cache, appIcons, queue, post, hits, late, histories>>
-----------------------------------------------------------------------------
Tick ==
    /\ now < MaxNow /\ now' = now + 1
    /\ UNCHANGED <<installed, stage, cache, appIcons, queue, post, server, faults, histories>>

\* The application is updated.
NewArtwork(a) ==
    /\ a \in Updated /\ installed[a] < MaxIcon
    /\ installed' = [installed EXCEPT ![a] = @ + 1]
    /\ UNCHANGED <<now, stage, cache, appIcons, queue, post, server, faults, histories>>

\* The daemon is told to stop, and its context is done.
Stop ==
    /\ stage = "up" /\ faults < MaxFaults /\ faults' = faults + 1
    /\ stage' = "draining"
    /\ UNCHANGED <<machine, cache, appIcons, queue, post, server, histories>>

\* It ends after its last flush, and is started again.
Restart ==
    /\ stage # "up" /\ post = Idle /\ (stage = "flushed" \/ icons = <<>>)
    /\ stage' = "up"
    /\ entries' = <<>> /\ inFlight' = {} /\ requests' = <<>> /\ loading' = {} /\ closed' = FALSE
    /\ appIcons' = <<>> /\ icons' = <<>> /\ retryAt' = 0 /\ failures' = 0
    /\ throttled' = FALSE
    /\ UNCHANGED <<machine, post, server, faults, taken, refused>>

Next ==
    \/ \E a \in Apps : Poll(a) \/ NewArtwork(a)
    \/ TakeRequest \/ FinishLoad \/ Close
    \/ Flush \/ React \/ Serve \/ GiveUp \/ Late \/ OtherDevice
    \/ Tick \/ Stop \/ Restart

Spec == Init /\ [][Next]_vars
-----------------------------------------------------------------------------
\* What the tracker will not hand over again was stored, is on its way or
\* queued, or was refused by itself: an icon that changes while it is
\* uploaded, a bad one in its batch, throttling and lost answers forget none
\* (removeMatchingAppIcons, isolateRejectedAppIcons, maybeEnqueueAppIcon).
IconsKept ==
    \A a \in DOMAIN appIcons :
      LET it == <<a, appIcons[a].icon>>
      IN  \/ it \in taken \/ (it \in refused /\ it \in Bad)
          \/ a \in DOMAIN icons /\ icons[a] = appIcons[a].icon

\* A key in flight is queued or being loaded, once, so that no icon is given
\* up for ever; and neither map outgrows its limit (appIconCache).
LoadsOwned ==
    /\ ~closed => inFlight = Range(requests) \union {l.key : l \in loading}
    /\ IsInjective(requests) /\ \A l \in loading : l.key \notin Range(requests)
    /\ Cardinality(DOMAIN entries) <= CacheLimit
    /\ Cardinality(DOMAIN appIcons) <= StateLimit

\* Who waits as long as a 429 asks is let in: a process is never throttled
\* twice in a row, but for the last flush of a daemon that stops
\* (deferAppIconRetry against slidingWindowLimiter).
WaitsItsTurn ==
    [][(post'.answer = "429" /\ post.answer = "none") => ~throttled \/ stage # "up"]_vars
-----------------------------------------------------------------------------
(* The inductive invariant.                                                *)

Pairs == Nat \X Nat
Choice(c) == \A i \in c : i \in Nat /\ c = {i}
Upload == [batch : Seq(Pairs), todo : Seq(Pairs), alone : BOOLEAN, wait : Nat,
           answer : {"none", "lost", "200", "413", "422", "429", "500"}]

TypeInv ==
    /\ now \in Nat /\ installed \in [Apps -> Nat] /\ stage \in {"up", "draining", "flushed"}
    /\ \A k \in DOMAIN entries : Choice(entries[k].icon)
    /\ requests \in Seq(Apps) /\ inFlight \subseteq Apps
    /\ \A l \in loading : l.key \in Apps /\ Choice(l.icon) /\ loading = {l}
    /\ closed \in BOOLEAN /\ closed => stage # "up"
    /\ DOMAIN appIcons \subseteq Apps /\ \A k \in DOMAIN appIcons : appIcons[k].at \in Nat
    /\ DOMAIN icons \subseteq Apps /\ \A k \in DOMAIN icons : icons[k] \in Nat
    /\ retryAt \in Nat /\ failures \in Nat /\ post \in Upload /\ hits \in Seq(Nat)
    /\ Len(table) \in Nat /\ DOMAIN table = 1..Len(table) /\ late \subseteq Seq(Pairs)
    /\ throttled \in BOOLEAN

\* The maps are finite, the channel holds no more than it was made for.
CacheInv ==
    /\ LoadsOwned
    /\ IsFiniteSet(DOMAIN entries) /\ IsFiniteSet(DOMAIN appIcons) /\ IsFiniteSet(DOMAIN icons)

\* What an answer says of the batch it answers: a 200 that it is stored, a 422 that
\* a bad icon is among it; and a batch of one is never too large.
KeptInv ==
    /\ IconsKept
    /\ Len(post.batch) <= FlushLimit
    /\ post.answer = "200" => Range(post.batch) \subseteq taken
    /\ post.answer = "422" => Range(post.batch) \intersect Bad # {}
    /\ post.answer = "413" => Len(post.batch) > 1

\* The oldest hit the limiter knows is over when a throttled process asks again.
Over(t) == hits # <<>> => hits[1] + RateWindow <= t

TurnInv ==
    /\ Len(hits) <= RateLimit
    /\ post.answer = "429" => Over(now + post.wait)
    /\ throttled /\ stage = "up" /\ post.answer = "none" =>
         /\ Over(retryAt)
         /\ post.batch # <<>> => now >= retryAt

AppIconsInv == TypeInv /\ CacheInv /\ KeptInv /\ TurnInv
=============================================================================
