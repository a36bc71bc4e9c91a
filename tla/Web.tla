-------------------------------- MODULE Web ---------------------------------
(* The web side of the server: the tables of one user, the handlers that      *)
(* change them (handlers_categories.go, handlers_web.go), the pages that      *)
(* read them in several queries, and the limiter of login attempts. Every     *)
(* statement or transaction is a step; requests interleave between them.      *)
EXTENDS Timeline, Ordered

CONSTANTS
    Accounts,           \* the users TLC chooses from, see AccountType
    Devices, Names, Requests, Visitors,
    CategoryUserLimit,
    RecordLimit, WorkLimit,     \* ActivityRecordLimit, activityDedupWorkLimit
    KnownLimit, Views,
    PageLimit,          \* EditableActivityRecordLimit
    AttemptLimit, AttemptWindow, MaxNow

VARIABLES
    account,            \* the user: what may happen to him, and how often
    devices, records,   \* tables; a record has no override of its own
    categories,         \* table: id -> name
    assignments,        \* table: application key -> category
    overrides,          \* table: id of a record -> category or Uncategorized
    nextRecord, nextCategory, edits,
    userLock,           \* the requests that hold the user's row FOR UPDATE
    creating,           \* requests in CreateCategory
    page,               \* a dashboard between its queries
    editor,             \* a reader who pages through an application's records
    now, attempts,      \* attemptLimiter.attempts of one host
    logins, tried, strays

tables == <<devices, records, categories, assignments, overrides, nextRecord, nextCategory, edits>>
limiter == <<now, attempts, logins, tried, strays>>
vars == <<account, tables, userLock, creating, page, editor, limiter>>

\* The rows that may be reported (others are turned away), how many, the
\* changes the user makes, the pages he opens, the logins he tries, the zone
\* and window he looks at, and ActivitySourceLimit.
AccountType(a) ==
    /\ DOMAIN a = {"rows", "limit", "edits", "requests", "logins", "zone", "window", "source"}
    /\ \A r \in a.rows : /\ DOMAIN r = {"device", "producer", "app", "url", "title", "start", "end"}
                         /\ {r.device, r.start, r.end} \subseteq Int /\ r.start < r.end
    /\ {a.window.start, a.window.end} \subseteq Int /\ {a.limit, a.source} \subseteq Nat
    /\ {a.zone.at, a.zone.before, a.zone.after} \subseteq Int

ASSUME WebAssumption ==
    /\ \A a \in Accounts : AccountType(a)
    /\ {CategoryUserLimit, RecordLimit, WorkLimit, KnownLimit, PageLimit, AttemptLimit} \subseteq Nat
    /\ PageLimit > 0 /\ AttemptWindow \in Nat \ {0} /\ MaxNow \in Nat

ASSUME ViewAssumption ==
    \A v \in Views : \/ v.kind \in {"day", "week"}
                     \/ v.kind = "rolling" /\ v.span \in Nat /\ v.tick \in Nat \ {0}

\* An upsert into a table.
with(f, k, v) == [x \in DOMAIN f \union {k} |-> IF x = k THEN v ELSE f[x]]

\* What a query returns: records with the override joined.
joined(r) == with(r, "override", IF r.id \in DOMAIN overrides THEN {overrides[r.id]} ELSE {})

\* queryActivityRecords: the rows of the window in order, and whether the
\* source limit cut them.
present(w) == {joined(r) : r \in {x \in records : x.start < w.end /\ x.end > w.start}}
queryActivityRecords(w) ==
    LET rows == sortedRows(present(w))
    IN  [rows |-> SubSeq(rows, 1, Min({Len(rows), account.source})), cut |-> Len(rows) > account.source]

\* GetActivitySummary, but for the categories: the timeline and the totals.
timelineOf(q, limit, work) == [timeline(q.rows, limit, work) EXCEPT !.truncated = @ \/ q.cut]
GetActivitySummary(w, limit, work) ==
    with(timelineOf(queryActivityRecords(w), limit, work), "totals",
         totals(visited(Range(queryActivityRecords(w).rows), w)))

\* ListKnownApplications: the latest pairs of producer and name, folded.
ListKnownApplications(since) ==
    LET pairs == {<<r.producer, r.app>> : r \in {x \in records : x.end >= since}}
        of(p) == {r \in records : <<r.producer, r.app>> = p}
        seen(p) == Max({r.end : r \in of(p)})
        kept == {p \in pairs : Cardinality({q \in pairs : seen(q) > seen(p)}) < KnownLimit}
        key(p) == AppKeys[canonicalAppName(CHOOSE r \in of(p) : TRUE)]
    IN  [k \in {key(p) : p \in kept} |-> Max({seen(p) : p \in {x \in kept : key(x) = k}})]

NoPage == [pc |-> "closed", rows |-> <<>>, assigned |-> <<>>, known |-> {}, stale |-> FALSE]
NoEditor == [pc |-> "closed", app |-> "", cursor |-> {}, shown |-> <<>>, present |-> {}]

Init ==
    /\ account \in Accounts
    /\ devices = Devices /\ records = {} /\ categories = <<>> /\ assignments = <<>>
    /\ overrides = <<>> /\ nextRecord = 1 /\ nextCategory = 1 /\ edits = 0
    /\ userLock = {} /\ creating = [q \in Requests |-> "idle"]
    /\ page = NoPage /\ editor = NoEditor
    /\ now = 0 /\ attempts = <<>> /\ strays = 0 /\ tried = <<>>
    /\ logins = [v \in Visitors |-> [pc |-> "away", at |-> 0]]
-----------------------------------------------------------------------------
(* Records come and go.                                                    *)

\* A bound: for a user who changes nothing the rows arrive in their order,
\* since what the pages show depends on the set of rows only.
InOrder(row) == account.edits > 0 \/ \A r \in records : r.start <= row.start

\* The row as the table keeps it.
numbered(row) == with(row, "id", nextRecord)

\* InsertActivityRecords, for a device that has its key.
Ingest ==
    \E row \in account.rows :
        /\ row.device \in devices /\ nextRecord <= account.limit
        /\ InOrder(row)
        /\ nextRecord' = nextRecord + 1
        /\ records' = records \union {numbered(row)}
        /\ UNCHANGED <<account, devices, categories, assignments, overrides, nextCategory, edits,
                       userLock, creating, page, editor, limiter>>

\* handleDeleteDevice; its records and their overrides cascade.
DeleteDevice(d) ==
    /\ d \in devices /\ edits < account.edits
    /\ edits' = edits + 1
    /\ devices' = devices \ {d}
    /\ records' = {r \in records : r.device # d}
    /\ overrides' = [i \in {r.id : r \in records'} \intersect DOMAIN overrides |-> overrides[i]]
    /\ editor' = [editor EXCEPT !.present = @ \intersect {r.id : r \in records'}]
    /\ UNCHANGED <<account, categories, assignments, nextRecord, nextCategory, userLock, creating, page, limiter>>
-----------------------------------------------------------------------------
(* Categories.                                                             *)

\* Mutant: the user's row is not locked.
LockNothing(q) ==
    /\ creating[q] = "idle" /\ edits < account.edits
    /\ edits' = edits + 1
    /\ creating' = [creating EXCEPT ![q] = "locked"]
    /\ UNCHANGED <<account, devices, records, categories, assignments, overrides, nextRecord,
                   nextCategory, userLock, page, editor, limiter>>

\* CreateCategory locks the user's row, then counts, then inserts.
LockUser(q) ==
    /\ creating[q] = "idle" /\ userLock = {} /\ edits < account.edits
    /\ edits' = edits + 1
    /\ userLock' = {q}
    /\ creating' = [creating EXCEPT ![q] = "locked"]
    /\ UNCHANGED <<account, devices, records, categories, assignments, overrides, nextRecord, nextCategory,
                   page, editor, limiter>>

Rollback(q) ==
    /\ userLock' = userLock \ {q}
    /\ creating' = [creating EXCEPT ![q] = "idle"]
    /\ UNCHANGED <<account, tables, page, editor, limiter>>

CountCategories(q) ==
    /\ creating[q] = "locked"
    /\ IF Cardinality(DOMAIN categories) >= CategoryUserLimit
       THEN Rollback(q)
       ELSE /\ creating' = [creating EXCEPT ![q] = "counted"]
            /\ UNCHANGED <<account, tables, userLock, page, editor, limiter>>

\* The insert and the commit; a taken name is a unique violation.
InsertCategory(q) ==
    /\ creating[q] = "counted"
    /\ \E name \in Names :
         IF name \in Range(categories)
         THEN Rollback(q)
         ELSE /\ categories' = with(categories, nextCategory, name)
              /\ nextCategory' = nextCategory + 1
              /\ userLock' = userLock \ {q}
              /\ creating' = [creating EXCEPT ![q] = "idle"]
              /\ UNCHANGED <<account, devices, records, assignments, overrides, nextRecord, edits,
                             page, editor, limiter>>

UpdateCategory(c) ==
    /\ c \in DOMAIN categories /\ edits < account.edits
    /\ edits' = edits + 1
    /\ \E name \in Names :
         /\ \A d \in DOMAIN categories : categories[d] = name => d = c
         /\ categories' = [categories EXCEPT ![c] = name]
    /\ UNCHANGED <<account, devices, records, assignments, overrides, nextRecord, nextCategory,
                   userLock, creating, page, editor, limiter>>

\* The defaults and the overrides that point to it cascade. A page that has
\* read the defaults and not yet the categories is now stale.
DeleteCategory(c) ==
    /\ c \in DOMAIN categories /\ edits < account.edits
    /\ edits' = edits + 1
    /\ categories' = [d \in DOMAIN categories \ {c} |-> categories[d]]
    /\ assignments' = [k \in {j \in DOMAIN assignments : assignments[j] # c} |-> assignments[k]]
    /\ overrides' = [i \in {j \in DOMAIN overrides : overrides[j] # c} |-> overrides[i]]
    /\ page' = [page EXCEPT !.stale = @ \/ (page.pc = "assigned" /\ c \in Range(page.assigned))]
    /\ UNCHANGED <<account, devices, records, nextRecord, nextCategory, userLock, creating, editor, limiter>>

\* setAppCategory; a choice is {} or one category, which exists by the join.
setAppCategory(key, choice) ==
    assignments' = IF choice = {} THEN [k \in DOMAIN assignments \ {key} |-> assignments[k]]
                   ELSE with(assignments, key, Max(choice))

SetActivityRecordCategoryOverride(i, choice) ==
    /\ overrides' = with(overrides, i, Max(choice \union {Uncategorized}))
    /\ UNCHANGED assignments

DeleteActivityRecordCategoryOverride(i) ==
    /\ overrides' = [j \in DOMAIN overrides \ {i} |-> overrides[j]]
    /\ UNCHANGED assignments

\* One transaction: the application's default, and the record inherits it.
SetActivityRecordApplicationCategory(r, choice) ==
    /\ setAppCategory(AppKeys[canonicalAppName(r)], choice)
    /\ overrides' = [j \in DOMAIN overrides \ {r.id} |-> overrides[j]]

\* What the form asks for; anything else is a 400 and changes nothing.
handleSetRecordCategory(r, scope, action, choice) ==
    /\ action = "set" <=> choice # {}
    /\ \/ /\ scope = "record" /\ action \in {"set", "uncategorized"}
          /\ SetActivityRecordCategoryOverride(r.id, choice)
       \/ /\ scope = "record" /\ action = "inherit"
          /\ DeleteActivityRecordCategoryOverride(r.id)
       \/ /\ scope = "application" /\ action \in {"set", "uncategorized"}
          /\ SetActivityRecordApplicationCategory(r, choice)

\* handleSetAppCategory takes the key of any application that is listed.
Recategorise ==
    /\ edits < account.edits
    /\ edits' = edits + 1
    /\ \E choice \in {{}} \union {{c} : c \in DOMAIN categories} :
         \/ \E key \in DOMAIN ListKnownApplications(0) :
              setAppCategory(key, choice) /\ UNCHANGED overrides
         \/ \E r \in records, scope \in {"record", "application"},
               action \in {"set", "uncategorized", "inherit"} :
              handleSetRecordCategory(r, scope, action, choice)
    /\ UNCHANGED <<account, devices, records, categories, nextRecord, nextCategory,
                   userLock, creating, page, editor, limiter>>

Categorise ==
    \/ \E q \in Requests : LockUser(q) \/ CountCategories(q) \/ InsertCategory(q)
    \/ \E c \in DOMAIN categories : UpdateCategory(c) \/ DeleteCategory(c)
    \/ Recategorise
-----------------------------------------------------------------------------
(* The dashboard: GetActivitySummary and getCategoryTotals, three queries.  *)

ReadRecords ==
    /\ page.pc = "closed" /\ "dashboard" \in account.requests /\ records # {}
    /\ page' = [NoPage EXCEPT !.pc = "read", !.rows = queryActivityRecords(account.window).rows]
    /\ UNCHANGED <<account, tables, userLock, creating, editor, limiter>>

ReadAssignments ==
    /\ page.pc = "read"
    /\ LET keys == {AppKeys[canonicalAppName(r)] : r \in Range(page.rows)}
       IN  page' = [page EXCEPT !.pc = "assigned",
                       !.assigned = [k \in keys \intersect DOMAIN assignments |-> assignments[k]]]
    /\ UNCHANGED <<account, tables, userLock, creating, editor, limiter>>

ReadCategories ==
    /\ page.pc = "assigned"
    /\ page' = [page EXCEPT !.pc = "shown", !.known = DOMAIN categories]
    /\ UNCHANGED <<account, tables, userLock, creating, editor, limiter>>

ClosePage ==
    /\ page.pc = "shown"
    /\ page' = NoPage
    /\ UNCHANGED <<account, tables, userLock, creating, editor, limiter>>

\* What the page publishes; nothing if no time has a category.
publishedCategories(p, w) ==
    LET tots == categoryTotals(visited(Range(p.rows), w), p.assigned, p.known)
        nothing == /\ DOMAIN p.assigned = {}
                   /\ \A r \in Range(p.rows) : r.override \subseteq {Uncategorized}
    IN  IF nothing \/ DOMAIN tots = {Uncategorized} THEN <<>> ELSE tots

(* The record editor of a detail page: ListEditableActivityRecords by keyset. *)

\* ORDER BY ended_at DESC, id DESC.
ahead(a, b) == a.end > b.end \/ (a.end = b.end /\ a.id > b.id)

\* LIMIT n.
foremost(rows, n) == {r \in rows : Cardinality({x \in rows : ahead(x, r)}) < n}
rearmost(rows) == CHOOSE r \in rows : \A x \in rows : x = r \/ ahead(x, r)

\* Mutant: the cursor is the end of the last row alone.
editableRowsByEnd(app, cursor, w) ==
    {r \in records : /\ r.start < w.end /\ r.end > w.start
                     /\ editableSubject(app, r)
                     /\ \A c \in cursor : r.end < c.end}

\* The rows of an application after the cursor.
editableRows(app, cursor, w) ==
    {r \in records : /\ r.start < w.end /\ r.end > w.start
                     /\ editableSubject(app, r)
                     /\ \A c \in cursor : ahead(c, r)}

\* A page of them, and the cursor to the next if there is one.
editablePage(app, cursor, w) ==
    LET rows == editableRows(app, cursor, w)
        kept == foremost(rows, PageLimit)
        last == rearmost(kept)
    IN  [records |-> kept,
         next |-> IF Cardinality(rows) > PageLimit THEN {[end |-> last.end, id |-> last.id]} ELSE {}]

shownBy(app, w) == {r.id : r \in {x \in records : x.start < w.end /\ x.end > w.start
                                                  /\ canonicalAppName(x) = app}}

\* populateRecordEditor: the category shown beside a record.
shownCategory(r, assigned, known) ==
    LET key == AppKeys[canonicalAppName(r)]
    IN  CASE r.override # {} -> Max((r.override \intersect known) \union {Uncategorized})
          [] r.override = {} /\ key \in DOMAIN assigned -> assigned[key]
          [] OTHER -> Uncategorized

OpenEditor(app) ==
    /\ editor.pc = "closed" /\ "editor" \in account.requests
    /\ editor' = [NoEditor EXCEPT !.pc = "open", !.app = app, !.present = shownBy(app, account.window)]
    /\ UNCHANGED <<account, tables, userLock, creating, page, limiter>>

NextPage ==
    /\ editor.pc = "open"
    /\ LET p == editablePage(editor.app, editor.cursor, account.window)
       IN  editor' = [editor EXCEPT
                        !.shown = Append(@, {r.id : r \in p.records}),
                        !.cursor = p.next,
                        !.pc = IF p.next = {} THEN "read" ELSE "open"]
    /\ UNCHANGED <<account, tables, userLock, creating, page, limiter>>

CloseEditor ==
    /\ editor.pc = "read"
    /\ editor' = NoEditor
    /\ UNCHANGED <<account, tables, userLock, creating, page, limiter>>

Read ==
    \/ ReadRecords \/ ReadAssignments \/ ReadCategories \/ ClosePage
    \/ \E r \in records : OpenEditor(canonicalAppName(r))
    \/ NextPage \/ CloseEditor
-----------------------------------------------------------------------------
(* Logging in and registering: handleLogin, handleRegister.                *)

\* attemptLimiter.sweep.
sweep(times) == Entries(times, {i \in DOMAIN times : times[i] > now - AttemptWindow})

Reserve(v) ==
    /\ account.logins > 0 /\ logins[v].pc = "away"
    /\ IF Len(sweep(attempts)) >= AttemptLimit
       THEN /\ attempts' = sweep(attempts)
            /\ UNCHANGED <<logins, tried>>
       ELSE /\ attempts' = Append(sweep(attempts), now)
            /\ logins' = [logins EXCEPT ![v] = [pc |-> "trying", at |-> now]]
            /\ tried' = Append(tried, <<v, now>>)
    /\ UNCHANGED <<account, tables, userLock, creating, page, editor, now, strays>>

Leaves(v) ==
    /\ logins[v].pc = "trying"
    /\ logins' = [logins EXCEPT ![v] = [pc |-> "away", at |-> 0]]
    /\ UNCHANGED <<account, tables, userLock, creating, page, editor, now>>

\* Mutant: an attempt that fails gives its reservation back.
FailsReleasing(v) ==
    /\ Leaves(v)
    /\ attempts' = SubSeq(attempts, 1, Len(attempts) - 1)
    /\ UNCHANGED <<tried, strays>>

\* An unknown name, a wrong password, or any registration: the attempt counts.
Fails(v) == Leaves(v) /\ UNCHANGED <<attempts, tried, strays>>

\* q with one occurrence of e less, if it has one.
without(q, e) ==
    LET at == {i \in DOMAIN q : q[i] = e}
    IN  IF at = {} THEN q ELSE Entries(q, DOMAIN q \ {CHOOSE i \in at : TRUE})

\* The lookup failed for another reason: release takes the newest
\* reservation, which may be another request's. (Bound: strays.)
Release(v) ==
    LET mine == <<v, logins[v].at>>
        stray == attempts # <<>> /\ (Last(attempts) # logins[v].at \/ mine \notin Range(tried))
    IN  /\ Leaves(v) /\ strays < account.logins
        /\ attempts' = SubSeq(attempts, 1, Len(attempts) - 1)
        /\ strays' = IF stray THEN strays + 1 ELSE strays
        /\ tried' = without(tried, mine)

\* A login clears the history of the host, requests in flight included.
Succeeds(v) ==
    /\ Leaves(v)
    /\ attempts' = <<>> /\ tried' = <<>>
    /\ UNCHANGED strays

Tick ==
    /\ account.logins > 0 /\ now < MaxNow
    /\ now' = now + 1
    /\ tried' = Entries(tried, {i \in DOMAIN tried : tried[i][2] > now' - AttemptWindow})
    /\ UNCHANGED <<account, tables, userLock, creating, page, editor, attempts, logins, strays>>

LogIn == \E v \in Visitors : Reserve(v) \/ Fails(v) \/ Release(v) \/ Succeeds(v)

Next ==
    \/ Ingest \/ Categorise \/ Read \/ LogIn \/ Tick
    \/ \E d \in Devices : DeleteDevice(d)

Spec == Init /\ [][Next]_vars
-----------------------------------------------------------------------------
(* What the pages promise.                                                 *)

rowsOf(w) == queryActivityRecords(w).rows
lengthsOf(s) == sumOf([i \in s |-> i.end - i.start])
quiet == page.pc = "closed" /\ editor.pc = "closed" /\ edits = 0

\* No second counts twice: a desktop row of a browser is credited with the
\* stretches in which that browser reported no page on that device, whatever
\* overlaps, nests or touches, and with nothing shorter than a second
\* (activity_dedup.go: visibleUncoveredDuration and visitUncovered agree).
CountedOnce ==
    quiet =>
    LET rows == rowsOf(account.window)
        all == Range(rows)
    IN  \A r \in {x \in all : desktopCoverageKey(x) # {}} :
          /\ effectiveDuration(all, r, account.window)
               = lengthsOf(clearRuns(all, r, clip(r, account.window)))
          /\ visitUncovered(r, coverageOf(all, r), Len(rows)).complete
          /\ {p \in visitUncovered(r, coverageOf(all, r), Len(rows)).pieces :
                p.end - p.start >= Second} = clearRuns(all, r, r)

\* The timeline says when it is incomplete, and what it keeps is the earliest
\* part: with work left over, exactly the first RecordLimit slices
\* (boundedActivityRecords, timelineBudget, ActivitySourceLimit).
TimelineHonest ==
    quiet =>
    LET w == account.window
        cut == queryActivityRecords(w).cut
        full == fullTimeline(Range(rowsOf(w)))
        first == firstOf(full, RecordLimit)
    IN  \A work \in (0..WorkLimit) \union {account.limit * account.limit} :
          LET t == timelineOf(queryActivityRecords(w), RecordLimit, work)
          IN  /\ Range(t.records) \subseteq full /\ Len(t.records) <= RecordLimit
              /\ t.truncated \/ Range(t.records) = fullTimeline(present(w))
              /\ work = account.limit * account.limit =>
                   Range(t.records) = first /\ (t.truncated <=> cut \/ first # full)

splits(time, assigned, known) ==
    /\ sumOf(categoryTotals(time, assigned, known)) = sumOf(totals(time))
    /\ \A app \in applications(time) :
         LET parts == shares(time, app, assigned, known)
             exact(d) == timeOf(time, {r \in recordsOf(time, app) : destination(r, assigned, known) = d})
         IN  \A d \in DOMAIN parts : parts[d] * Second - exact(d) \in (1 - Second)..(Second - 1)

\* The categories of a page add up to its applications: no second is lost or
\* made by rounding, no share is off by a second, and every share belongs to
\* a category that existed when the page was read, unless the category was
\* deleted between the last two queries; and the record editor would name the
\* same category for each record (getCategoryTotals, populateRecordEditor).
CategorySplit ==
    page.pc = "shown" =>
    /\ splits(visited(Range(page.rows), account.window), page.assigned, page.known)
    /\ page.stale \/ DOMAIN publishedCategories(page, account.window)
                       \subseteq page.known \union {Uncategorized}
    /\ \A r \in Range(page.rows) :
         shownCategory(r, page.assigned, page.known) = destination(r, page.assigned, page.known)

windowHolds(w, all, asked) ==
    /\ asked.start <= w.start /\ w.end <= asked.end
    /\ w.end - w.start >= Min({MinChartWindow, asked.end - asked.start})
    /\ \A r \in Range(all) : clip(r, w) = clip(r, asked)

barHolds(b, chart, w, span) ==
    LET c == clip(b.row, w)
    IN  /\ b.x >= 0 /\ b.x + b.width <= span
        /\ b.width \in {c.end - c.start, span \div MinBarParts, span - b.x}
        /\ \A a \in chart.bars : clip(a.row, w).start < c.start => a.x < b.x

markHolds(m, chart, cellWidth) ==
    LET before == {n \in chart.marks : n.at < m.at}
    IN  /\ sumOf([n \in before |-> n.span * cellWidth])
             = minutesAt(chart.scale, chart.window, m.at)
        /\ m.gapBefore <=> chart.scale # {} /\ before # {} /\ \A n \in before : n.at # m.at - Hour

chartHolds(chart, all, asked, view) ==
    LET w == chart.window
    IN  /\ windowHolds(w, all, asked)
        /\ {b.row : b \in chart.bars} = within(Range(mergeAdjacentActivity(all)), w)
        /\ \A b \in chart.bars : barHolds(b, chart, w, axisLength(chart.scale, w))
        /\ \A h \in chart.scale : \E r \in Range(all) : h \in touched(r, w)
        /\ \A m \in chart.marks : markHolds(m, chart, IF view.kind = "rolling" THEN view.tick ELSE Hour)

\* A chart tells the truth in every view: a day's window lies in the day,
\* holds all its activity and is long enough; every row in the window has a
\* bar on the axis, wide as the row is long or the narrowest bar; no bar
\* starts left of an earlier row's; on a compressed axis every hour has
\* activity and every jump is marked; and each label stands where its time is
\* on the axis (timeline.go).
ChartTrue ==
    (quiet /\ records # {}) =>
    \A view \in Views :
      LET z == account.zone
          t == account.window.start
          drawn(all, asked) == chartHolds(chartOf(view, all, all, z, t), all, asked, view)
          ask(asked) == drawn(rowsOf(asked), asked)
      IN  ask(parseWindow(view, z, t))

clipped(rows, w) == sumOf([r \in within(rows, w) |-> clip(r, w).end - clip(r, w).start])

\* mine is the application's part of rows.
appHolds(app, rows, mine, time, w) ==
    LET moments(s, d) == UNION {(r.start)..(r.end - 1) : r \in {x \in Range(s) : x.device = d}}
        listed == detailSessions(mine, w)
        chart == layoutFocusRange(rows, mine, w, Hour)
    IN  /\ \A d \in Devices : moments(mergeAdjacentActivity(mine), d) = moments(mine, d)
        /\ clipped(Range(mine), w) >= applicationTime(time, app)
        /\ Len(listed.sessions) = Min({listed.count, SessionMax})
        /\ \A b \in chart.bars : \E c \in chart.context : c.row.device = b.row.device /\ c.x <= b.x

daysHold(rows, week) ==
    LET days == detailDays(rows, account.zone, week)
        pieces == sumOf([d \in DOMAIN days |-> Cardinality(within(Range(rows), d))])
        off == 2 * (Second * sumOf(days) - clipped(Range(rows), week))
    IN  -(Second * pieces) <= off /\ off <= Second * pieces

\* The page of one application or site agrees with the dashboard it was
\* opened from: its stretches cover the same moments as the dashboard's rows
\* of the subject, its listed time is not less than the total it is given,
\* its bars stand on context bars, its share is at most the whole, the days of
\* a week add up but for half a second a piece, and each application has a row on the page where its default is set
\* (handlers_detail.go; ListKnownApplications).
DetailTrue ==
    quiet =>
    LET w == account.window
        all == Range(rowsOf(w))
        enough == account.limit * account.limit
        sites == GetSiteTotals(all, w)
        holds(activity) ==
            /\ \A app \in DOMAIN activity.totals :
                 /\ appHolds(app, activity.records, matchDetailRecords("app", app, activity.records),
                             visited(all, w), w)
                 /\ sharePercent(activity.totals[app], activity.totals) \in 0..100
                 /\ AppKeys[app] \in DOMAIN ListKnownApplications(w.start)
            /\ daysHold(activity.records, weekBounds(account.zone, w.start))
            /\ \A site \in DOMAIN sites : sharePercent(sites[site], activity.totals) \in 0..100
    IN  holds(GetActivitySummary(w, enough, enough))

\* Days and weeks tile time across a change of the clock: each moment lies in
\* its own day, the next day starts where it ends, and a week is its days
\* (timeline.go:73, weekBounds).
PeriodsTile ==
    (quiet /\ records = {}) =>
    LET z == account.zone
    IN  \A t \in (z.at - DaysPerWeek * Day)..(z.at + DaysPerWeek * Day) :
          LET day == dayBounds(z, t)
              week == weekBounds(z, t)
              days == daysOf(z, week)
          IN  /\ day.start <= t /\ t < day.end
              /\ dayBounds(z, day.end).start = day.end
              /\ day \in days /\ Cardinality(days) = DaysPerWeek
              /\ lengthsOf(days) = week.end - week.start
              /\ weekBounds(z, week.end).start = week.end

\* Whoever pages through an application's records to the end has seen every
\* record that was there from the start, and none twice, whatever arrived or
\* went meanwhile (ListEditableActivityRecords; its SQL filter agrees with
\* canonicalAppName).
PagesComplete ==
    editor.pc = "read" =>
        /\ editor.present \subseteq UNION Range(editor.shown)
        /\ \A i, j \in DOMAIN editor.shown : i < j => editor.shown[i] \intersect editor.shown[j] = {}

\* A user has no more categories than the limit, no two of a name, and no
\* default or override points to a category or record that is gone, whatever
\* requests interleave (CreateCategory; migrations/000008).
LimitKept ==
    /\ Cardinality(DOMAIN categories) <= CategoryUserLimit
    /\ IsInjective(categories)
    /\ Range(assignments) \subseteq DOMAIN categories
    /\ Range(overrides) \subseteq DOMAIN categories \union {Uncategorized}
    /\ DOMAIN overrides \subseteq {r.id : r \in records}

\* In any window no more attempts that failed or are under way than the limit
\* allows, but for those whose slot another request's release took
\* (middleware.go: attemptLimiter).
AttemptsBounded == Len(tried) <= AttemptLimit + strays
-----------------------------------------------------------------------------
(* The inductive invariant of the limiter.                                 *)

\* The entries of q that lie in P, one for each time they occur.
Times(q, P) == {i \in DOMAIN q : q[i] \in P}

\* Since any moment of the window, no more attempts are remembered that failed
\* or are under way than have a slot, but for the strays.
Slots(t) == {x \in Nat : x > t}
Tries(t) == {e \in Visitors \X Nat : e[2] > t}
Covered ==
    \A t \in Int :
        t >= now - AttemptWindow =>
            Cardinality(Times(tried, Tries(t))) <= Cardinality(Times(attempts, Slots(t))) + strays

LimiterTyped ==
    /\ now \in Nat /\ strays \in Nat
    /\ attempts \in Seq(Nat) /\ Len(attempts) <= AttemptLimit
    /\ logins \in [Visitors -> [pc : {"away", "trying"}, at : Nat]]
    /\ tried \in Seq(Visitors \X Nat)
    /\ \A i \in DOMAIN tried : tried[i][2] > now - AttemptWindow

AttemptInv == LimiterTyped /\ Covered
-----------------------------------------------------------------------------
(* The inductive invariant of the record editor.                           *)

\* A record is found by its id, and ids are not used again.
RecordsNumbered ==
    /\ account \in Accounts /\ IsFiniteSet(records) /\ nextRecord \in Nat
    /\ \A r \in records : r.id \in Nat /\ r.id < nextRecord /\ r.end \in Int
    /\ \A r, x \in records : r.id = x.id => r = x

\* What a reader has seen lies up to the cursor, and what he has yet to see of
\* what was there lies behind it.
Seen == UNION Range(editor.shown)
CursorInv ==
    /\ editor.cursor = {} => editor.shown = <<>>
    /\ \A c \in editor.cursor : c.end \in Int /\ c.id \in Nat
    /\ \A r \in records, c \in editor.cursor : r.id \in Seen => ~ahead(c, r)
    /\ \A r \in records :
         r.id \in editor.present =>
            /\ r.start < account.window.end /\ r.end > account.window.start
            /\ editableSubject(editor.app, r)
            /\ r.id \in Seen \/ \A c \in editor.cursor : ahead(c, r)

ReaderInv ==
    /\ DOMAIN editor = DOMAIN NoEditor /\ editor.pc \in {"closed", "open", "read"}
    /\ editor.shown \in Seq(SUBSET (0..(nextRecord - 1)))
    /\ editor.present \subseteq {r.id : r \in records}
    /\ \A i, j \in DOMAIN editor.shown : i < j => editor.shown[i] \intersect editor.shown[j] = {}
    /\ editor.pc = "open" => CursorInv
    /\ editor.pc = "read" => editor.present \subseteq Seen

EditorInv == RecordsNumbered /\ ReaderInv
-----------------------------------------------------------------------------
(* The inductive invariant of the dashboard.                               *)

\* The rows of the table as they were reported, under a number of their own.
RowsInv ==
    /\ nextRecord \in 1..(account.limit + 1)
    /\ \A r \in records :
         /\ DOMAIN r = {"id", "device", "producer", "app", "url", "title", "start", "end"}
         /\ r.id > 0 /\ {r.device, r.start, r.end} \subseteq Int /\ r.start < r.end

\* What a page has read so far: rows with at most one override, defaults that
\* existed when they were read, and unless one was deleted since, still do.
PageInv ==
    /\ DOMAIN page = DOMAIN NoPage /\ page.pc \in {"closed", "read", "assigned", "shown"}
    /\ IsFiniteSet(Range(page.rows))
    /\ \A r \in Range(page.rows) : /\ {r.start, r.end} \subseteq Int
                                   /\ \A c \in r.override : c \in Nat /\ r.override = {c}
    /\ Range(page.assigned) \subseteq Nat
    /\ page.pc = "assigned" /\ ~page.stale => Range(page.assigned) \subseteq DOMAIN categories
    /\ page.pc = "shown" /\ ~page.stale => Range(page.assigned) \subseteq page.known
=============================================================================
