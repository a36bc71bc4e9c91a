------------------------------- MODULE Dedup --------------------------------
(* The arithmetic of the summaries: internal/db/activity_dedup.go and         *)
(* browser_family.go. Time is an integer; Second is its unit's number in a    *)
(* second, so that lengths below a second and the rounding of totals exist.   *)
(* A row has [id, device, producer, app, url, title, start, end, override]:   *)
(* url is the site of its URL or "", override the set with the category of    *)
(* its override, {Uncategorized} for an explicit none, or {} for no override. *)
EXTENDS Integers, Sequences, SequencesExt, FiniteSetsExt, Ordered

CONSTANTS
    Second,     \* units of time in a second
    AppKeys     \* name of an application -> its normalised key

ASSUME DedupAssumption == Second \in Nat \ {0}

Uncategorized == 0

\* The sum of the values of a function.
sumOf(f) == MapThenSumSet(LAMBDA x : f[x], DOMAIN f)
-----------------------------------------------------------------------------
(* Browser families.                                                       *)

browserFamilies ==
    {[producer |-> "firefox", canonical |-> "Firefox", desktopKeys |-> {"firefox"}],
     [producer |-> "chrome", canonical |-> "Google Chrome",
      desktopKeys |-> {"google chrome", "google-chrome"}]}

\* The name of a family is one of its own.
ASSUME FamilyAssumption == \A f \in browserFamilies : AppKeys[f.canonical] \in f.desktopKeys

familyForProducer(producer) == {f \in browserFamilies : f.producer = producer}
familyForDesktopName(app) == {f \in browserFamilies : AppKeys[app] \in f.desktopKeys}

\* The producer decides before the stored name does.
canonicalAppName(r) ==
    LET family == IF familyForProducer(r.producer) # {}
                  THEN familyForProducer(r.producer)
                  ELSE familyForDesktopName(r.app)
    IN  IF family = {} THEN r.app ELSE (CHOOSE f \in family : TRUE).canonical

\* The filter of the record editor, which restates canonicalAppName in SQL.
editableSubject(name, r) ==
    LET known == {f \in browserFamilies : f.canonical = name}
        browser == familyForProducer(r.producer) # {}
    IN  IF known = {}
        THEN ~browser /\ r.app = name
        ELSE \E f \in known : \/ r.producer = f.producer
                              \/ ~browser /\ AppKeys[r.app] \in f.desktopKeys

\* What a row covers, and what may cover it: at most one key of device and family.
browserCoverageKey(r) ==
    {<<r.device, f.producer>> : f \in {g \in familyForProducer(r.producer) : r.url # ""}}
desktopCoverageKey(r) ==
    {<<r.device, f.producer>> :
        f \in {g \in familyForDesktopName(r.app) : r.producer = "desktop"}}
-----------------------------------------------------------------------------
(* Coverage: sorted disjoint intervals, and binary searches in them.        *)

isValid(r) == r.start < r.end

durationAtLeast(d) == IF d < Second THEN 0 ELSE d

\* sort.Search: the first index of 1..n where the monotone P holds, or n + 1.
Search(n, P(_)) == Min({i \in 1..n : P(i)} \union {n + 1})

\* Intervals by their start, and then by their end.
startsBefore(a, b) == a.start < b.start \/ (a.start = b.start /\ a.end < b.end)
byStart(s) == Sorted(s, {p \in s \X s : startsBefore(p[1], p[2])})

\* Mutant: an interval inside the last one shortens it.
mergeNestedShort(intervals) ==
    LET add(merged, i) ==
            IF merged = <<>> \/ i.start > Last(merged).end
            THEN Append(merged, i)
            ELSE [merged EXCEPT ![Len(merged)].end = i.end]
    IN  FoldLeft(add, <<>>, byStart(intervals))

mergeActivityIntervals(intervals) ==
    LET add(merged, i) ==
            IF merged = <<>> \/ i.start > Last(merged).end
            THEN Append(merged, i)
            ELSE [merged EXCEPT ![Len(merged)].end = Max({@, i.end})]
    IN  FoldLeft(add, <<>>, byStart(intervals))

intervals(rows) == {[start |-> r.start, end |-> r.end] : r \in rows}

\* newActivityDeduplicator, for the rows that key covers.
coverage(rows, key) ==
    mergeActivityIntervals(intervals({r \in rows : isValid(r) /\ key \in browserCoverageKey(r)}))

coverageOf(rows, r) == coverage(rows, CHOOSE key \in desktopCoverageKey(r) : TRUE)

visibleGapPrefix(c) ==
    LET prefix[i \in 1..Len(c)] ==
            IF i = 1 THEN 0 ELSE prefix[i - 1] + durationAtLeast(c[i].start - c[i - 1].end)
    IN  prefix

\* How much of the interval s the intervals of c leave, without what is
\* shorter than a second.
visibleUncoveredDuration(c, s) ==
    LET left == Search(Len(c), LAMBDA i : c[i].end > s.start)
        last == Search(Len(c), LAMBDA i : c[i].start >= s.end) - 1
    IN  IF left > last
        THEN durationAtLeast(s.end - s.start)
        ELSE durationAtLeast(Min({c[left].start, s.end}) - s.start)
             + (visibleGapPrefix(c)[last] - visibleGapPrefix(c)[left])
             + durationAtLeast(s.end - Max({c[last].end, s.start}))

\* The pieces of s outside c, found with at most budget looks at c.
visitUncovered(s, c, budget) ==
    LET left == Search(Len(c), LAMBDA i : c[i].end > s.start)
        right == Search(Len(c), LAMBDA i : c[i].start >= s.end)
        stop == Max({left, Min({right, left + budget})})
        cursor(i) == IF i = left THEN s.start ELSE c[i - 1].end
        gaps == {i \in left..(stop - 1) : c[i].start > cursor(i)}
        complete == right <= stop
        tail == IF complete /\ cursor(stop) < s.end
                THEN {[start |-> cursor(stop), end |-> s.end]} ELSE {}
    IN  [pieces |-> {[start |-> cursor(i), end |-> c[i].start] : i \in gaps} \union tail,
         spent |-> stop - left, complete |-> complete]
-----------------------------------------------------------------------------
(* The timeline: effective rows, bounded by a heap and by a budget of work. *)

\* compareActivityRecords.
Before(a, b) ==
    \/ a.start < b.start
    \/ a.start = b.start /\ a.device < b.device
    \/ a.start = b.start /\ a.device = b.device /\ a.id < b.id

sortedRows(rows) == Sorted(rows, {p \in rows \X rows : Before(p[1], p[2])})

\* Mutant: only a row that replaces another is remembered as truncation.
addSilently(b, r, limit) ==
    LET top == CHOOSE m \in b.kept : \A x \in b.kept : x = m \/ Before(x, m)
    IN  IF Cardinality(b.kept) < limit
        THEN [b EXCEPT !.kept = @ \union {r}]
        ELSE IF limit > 0 /\ Before(r, top)
             THEN [kept |-> (b.kept \ {top}) \union {r}, truncated |-> TRUE]
             ELSE b

\* boundedActivityRecords.add; the top of the heap is the last row kept.
add(b, r, limit) ==
    LET top == CHOOSE m \in b.kept : \A x \in b.kept : x = m \/ Before(x, m)
    IN  IF Cardinality(b.kept) < limit
        THEN [b EXCEPT !.kept = @ \union {r}]
        ELSE [b EXCEPT !.truncated = TRUE,
                       !.kept = IF limit > 0 /\ Before(r, top) THEN (@ \ {top}) \union {r} ELSE @]

addAll(b, rows, limit) == FoldSet(LAMBDA r, x : add(x, r, limit), b, rows)

\* The slices of r that are worth a bar.
slicesOf(r, pieces) ==
    {[r EXCEPT !.start = p.start, !.end = p.end] :
        p \in {q \in pieces : q.end - q.start >= Second}}

\* The visit v of the row r, after which an incomplete one is the last.
afterVisit(x, r, v, limit) ==
    [b |-> [addAll(x.b, slicesOf(r, v.pieces), limit) EXCEPT !.truncated = @ \/ ~v.complete],
     work |-> x.work + v.spent, stopped |-> ~v.complete]

sortedRecords(b) == [records |-> sortedRows(b.kept), truncated |-> b.truncated]

\* rows is a sequence in the order of the query.
timeline(rows, limit, workLimit) ==
    LET all == Range(rows)
        whole == {r \in all : isValid(r) /\ desktopCoverageKey(r) = {}}
        visit(x, r) ==
            IF x.stopped \/ ~isValid(r) \/ desktopCoverageKey(r) = {} THEN x
            ELSE afterVisit(x, r, visitUncovered(r, coverageOf(all, r), workLimit - x.work), limit)
        empty == [kept |-> {}, truncated |-> FALSE]
    IN  sortedRecords(FoldLeft(visit, [b |-> addAll(empty, whole, limit), work |-> 0, stopped |-> FALSE], rows).b)
-----------------------------------------------------------------------------
(* Totals of a window [start, end].                                         *)

clip(r, w) == [start |-> Max({r.start, w.start}), end |-> Min({r.end, w.end})]

\* The time a row is credited with in the window w.
effectiveDuration(rows, r, w) ==
    LET overlap == clip(r, w)
    IN  IF ~isValid(r) \/ overlap.start >= overlap.end THEN 0
        ELSE IF desktopCoverageKey(r) = {} THEN overlap.end - overlap.start
        ELSE visibleUncoveredDuration(coverageOf(rows, r), overlap)

\* visitEffectiveDurations: the rows with any time, and their time. What
\* follows takes it as the parameter time.
visited(rows, w) ==
    LET time == [r \in rows |-> effectiveDuration(rows, r, w)]
    IN  [r \in {x \in rows : time[x] > 0} |-> time[r]]

\* math.Round of a duration's seconds.
Rounded(d) == (2 * d + Second) \div (2 * Second)

timeOf(time, rows) == sumOf([r \in rows |-> time[r]])

applications(time) == {canonicalAppName(r) : r \in DOMAIN time}
recordsOf(time, app) == {r \in DOMAIN time : canonicalAppName(r) = app}
applicationTime(time, app) == timeOf(time, recordsOf(time, app))

totals(time) == [app \in applications(time) |-> Rounded(applicationTime(time, app))]

\* The category a row counts for. A dangling or NULL override is none; a
\* default is taken as the query returned it.
destination(r, assignments, categories) ==
    LET key == AppKeys[canonicalAppName(r)]
    IN  IF r.override # {}
        THEN IF r.override \subseteq categories THEN Max(r.override) ELSE Uncategorized
        ELSE IF key \in DOMAIN assignments THEN assignments[key] ELSE Uncategorized

\* Mutant: every part is rounded on its own.
sharesRounded(time, app, assignments, categories) ==
    LET to(r) == destination(r, assignments, categories)
    IN  [d \in {to(r) : r \in recordsOf(time, app)} |->
            Rounded(timeOf(time, {r \in recordsOf(time, app) : to(r) = d}))]

\* Largest remainder: seconds in parts as large as the times of part.
apportioned(seconds, part) ==
    LET remaining == seconds - sumOf([d \in DOMAIN part |-> part[d] \div Second])
        ahead(a, b) == \/ part[a] % Second > part[b] % Second
                       \/ part[a] % Second = part[b] % Second /\ a < b
        rank(d) == Cardinality({e \in DOMAIN part : ahead(e, d)})
    IN  [d \in DOMAIN part |-> part[d] \div Second + (IF rank(d) < remaining THEN 1 ELSE 0)]

\* The parts of one application's rounded seconds.
shares(time, app, assignments, categories) ==
    LET to(r) == destination(r, assignments, categories)
    IN  apportioned(Rounded(applicationTime(time, app)),
                    [d \in {to(r) : r \in recordsOf(time, app)} |->
                        timeOf(time, {r \in recordsOf(time, app) : to(r) = d})])

\* The sums of the parts, but for empty ones.
summed(parts) ==
    LET sum(d) == sumOf([app \in DOMAIN parts |-> IF d \in DOMAIN parts[app] THEN parts[app][d] ELSE 0])
    IN  [d \in {e \in UNION {DOMAIN parts[app] : app \in DOMAIN parts} : sum(e) > 0} |-> sum(d)]

categoryTotals(time, assignments, categories) ==
    summed([app \in applications(time) |-> shares(time, app, assignments, categories)])
-----------------------------------------------------------------------------
(* Reference: the same by moments. A moment of a desktop row of a browser is *)
(* covered when the browser reported a page at that moment on that device.   *)

covered(rows, r, m) ==
    \E x \in rows : /\ desktopCoverageKey(r) \intersect browserCoverageKey(x) # {}
                    /\ x.start <= m /\ m < x.end

\* The longest runs of moments of the interval s in which r is not covered
\* and that last a second.
clearRuns(rows, r, s) ==
    LET clear == {m \in s.start..(s.end - 1) : ~covered(rows, r, m)}
    IN  {[start |-> ab[1], end |-> ab[2] + 1] :
            ab \in {xy \in clear \X clear :
                /\ xy[2] + 1 - xy[1] >= Second
                /\ xy[1]..xy[2] \subseteq clear
                /\ xy[1] - 1 \notin clear /\ xy[2] + 1 \notin clear}}

\* The timeline without limits: a bar for each such run, and the other rows.
fullTimeline(rows) ==
    (UNION {slicesOf(r, clearRuns(rows, r, r)) : r \in {x \in rows : desktopCoverageKey(x) # {}}})
    \union {r \in rows : desktopCoverageKey(r) = {}}

\* The first n rows.
firstOf(rows, n) == {r \in rows : Cardinality({x \in rows : Before(x, r)}) < n}
=============================================================================
