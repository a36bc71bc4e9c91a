------------------------------ MODULE Timeline ------------------------------
(* The chart and the detail page: internal/server/timeline.go and the pure    *)
(* parts of handlers_detail.go and handlers_web.go. A zone has one change of  *)
(* its offset; a window is an interval [start, end] of absolute time.         *)
EXTENDS Dedup

CONSTANTS
    Hour, Day,          \* lengths, in units of time
    DaysPerWeek,
    MinChartWindow,     \* the shortest window of a chart that fits the day
    MinBarParts,        \* a bar is at least this part of the axis wide
    SessionMax          \* detailSessionMax

ASSUME TimelineAssumption ==
    /\ Hour \in Nat \ {0} /\ DaysPerWeek \in Nat \ {0}
    /\ Day \in Nat \ {0} /\ Day % Hour = 0 /\ MinChartWindow \in 0..Day
    /\ MinChartWindow % Hour = 0 /\ MinBarParts \in Nat \ {0} /\ SessionMax \in Nat
-----------------------------------------------------------------------------
(* The wall clock, as Go's time package keeps it.                           *)

offset(z, t) == IF t < z.at THEN z.before ELSE z.after
wall(z, t) == t + offset(z, t)

\* time.Date: a first guess at the offset, taken as if w were UTC, is kept if
\* it is right for the time it leads to, and else replaced once.
date(z, w) ==
    LET guess == offset(z, w)
        t == w - guess
    IN  IF guess = 0 \/ offset(z, t) = guess THEN t ELSE w - offset(z, t)

\* Mutant: n times 24 hours.
addHours(z, t, n) == t + n * Day

\* time.AddDate(0, 0, n).
addDays(z, t, n) == date(z, wall(z, t) + n * Day)

dayBounds(z, t) ==
    LET start == date(z, (wall(z, t) \div Day) * Day)
    IN  [start |-> start, end |-> addDays(z, start, 1)]

weekBounds(z, t) ==
    LET today == dayBounds(z, t).start
        monday == addDays(z, today, -((wall(z, today) \div Day) % DaysPerWeek))
    IN  [start |-> monday, end |-> addDays(z, monday, DaysPerWeek)]

\* dayMarks, detailDays: the days of a week.
daysOf(z, w) ==
    LET day[i \in Nat] == IF i = 0 THEN w.start ELSE addDays(z, day[i - 1], 1)
        starts == {day[i] : i \in {j \in 0..(2 * DaysPerWeek) : day[j] < w.end}}
    IN  {[start |-> s, end |-> addDays(z, s, 1)] : s \in starts}

floorHour(z, t) == date(z, (wall(z, t) \div Hour) * Hour)
ceilHour(z, t) == IF floorHour(z, t) = t THEN t ELSE floorHour(z, t) + Hour
-----------------------------------------------------------------------------
(* The drawn window and the bars.                                           *)

\* clampToWindow, as a set: what of the rows lies in the window.
within(rows, w) == {r \in rows : clip(r, w).start < clip(r, w).end}

\* The hours of the intervals seen, and one on each side.
activeHours(seen, z) ==
    [start |-> floorHour(z, Min({s.start : s \in seen})) - Hour,
     end |-> ceilHour(z, Max({s.end : s \in seen})) + Hour]

\* As long as MinChartWindow at least, by whole hours on both sides.
widened(w) ==
    LET deficit == Max({0, MinChartWindow - (w.end - w.start)})
        back == ((deficit + Hour) \div (2 * Hour)) * Hour
    IN  [start |-> w.start - back, end |-> w.end + (deficit - back)]

\* Mutant: what the edge of the day cuts off is not given to the other side.
chartWindowClipped(rows, z, day) ==
    LET seen == {clip(r, day) : r \in within(rows, day)}
    IN  IF seen = {} THEN day ELSE clip(widened(activeHours(seen, z)), day)

\* Cut to the hours with activity and one on each side, widened to
\* MinChartWindow, and pushed back into the day: first later, then earlier.
chartWindow(rows, z, day) ==
    LET seen == {clip(r, day) : r \in within(rows, day)}
        later(w) == [start |-> Max({w.start, day.start}),
                     end |-> w.end + Max({0, day.start - w.start})]
        earlier(w) == [start |-> Max({day.start, w.start - Max({0, w.end - day.end})}),
                       end |-> Min({w.end, day.end})]
    IN  IF seen = {} THEN day ELSE earlier(later(widened(activeHours(seen, z))))

\* Mutant: rows of one application are joined over a pause.
mergeBridging(rows) ==
    LET put(merged, r) ==
            LET i == Max({j \in 1..Len(merged) : merged[j].device = r.device} \union {0})
            IN  IF i > 0 /\ merged[i].app = r.app
                THEN [merged EXCEPT ![i].end = Max({@, r.end}),
                                    ![i].title = IF @ = r.title THEN @ ELSE ""]
                ELSE Append(merged, r)
    IN  FoldLeft(put, <<>>, rows)

\* Touching rows of one application become one bar; rows is sorted.
mergeAdjacentActivity(rows) ==
    LET put(merged, r) ==
            LET i == Max({j \in 1..Len(merged) : merged[j].device = r.device} \union {0})
            IN  IF i > 0 /\ merged[i].app = r.app /\ r.start <= merged[i].end
                THEN [merged EXCEPT ![i].end = Max({@, r.end}),
                                    ![i].title = IF @ = r.title THEN @ ELSE ""]
                ELSE Append(merged, r)
    IN  FoldLeft(put, <<>>, rows)

\* newActiveHourScale: the hours of the window that rows touch, or {} for the
\* linear axis, when there is nothing to drop.
hoursOf(w) == (w.end - w.start) \div Hour
touched(r, w) ==
    LET c == clip(r, w)
    IN  ((c.start - w.start) \div Hour)..((c.end - w.start - 1) \div Hour)
activeHourScale(rows, w) ==
    LET active == (0..(hoursOf(w) - 1)) \intersect UNION {touched(r, w) : r \in within(rows, w)}
    IN  IF Cardinality(active) = hoursOf(w) THEN {} ELSE active

\* Where a time falls on the axis.
minutesAt(scale, w, t) ==
    LET hour == (t - w.start) \div Hour
        keptBefore(h) == Cardinality({k \in scale : k < h}) * Hour
    IN  IF scale = {} THEN t - w.start
        ELSE IF hour \in scale THEN keptBefore(hour) + ((t - w.start) % Hour)
        ELSE keptBefore(hour)

axisLength(scale, w) == IF scale = {} THEN w.end - w.start ELSE Cardinality(scale) * Hour

\* toBar: at most one bar.
toBar(r, w, scale) ==
    LET c == clip(r, w)
        span == axisLength(scale, w)
        x == minutesAt(scale, w, c.start)
        width == Max({minutesAt(scale, w, c.end) - x, span \div MinBarParts})
    IN  {b \in {[row |-> r, x |-> x, width |-> Min({width, span - x})]} :
            c.start < c.end /\ b.width > 0}

(* The cells of the axis: where each begins, its width in hours, and whether *)
(* a break is drawn before it.                                              *)

cell(at, span, gapBefore) == [at |-> at, span |-> span, gapBefore |-> gapBefore]
marks(scale, w) ==
    {cell(w.start + h * Hour, 1, h - 1 \notin scale /\ \E k \in scale : k < h) : h \in scale}
tickMarks(w, step) ==
    {cell(w.start + k * step, 1, FALSE) : k \in 0..((w.end - w.start - 1) \div step)}
hourMarks(w) == tickMarks(w, Hour)
dayMarks(z, w) == {cell(d.start, (d.end - d.start) \div Hour, FALSE) : d \in daysOf(z, w)}

\* layoutFocused: the subject's bars over those of the context, on one axis.
layoutFocused(all, subject, w, cells, scale) ==
    LET bars(rows) == UNION {toBar(r, w, scale) : r \in Range(mergeAdjacentActivity(rows))}
    IN  [window |-> w, scale |-> scale, marks |-> cells,
         context |-> bars(all), bars |-> bars(subject)]

\* layoutFocusDay; layout is this with the rows as their own subject.
onScale(all, subject, w, scale) ==
    layoutFocused(all, subject, w, IF scale = {} THEN hourMarks(w) ELSE marks(scale, w), scale)
compressed(all, subject, w) ==
    onScale(all, subject, w, activeHourScale(Range(mergeAdjacentActivity(all)), w))
layoutFocusDay(all, subject, z, day) == compressed(all, subject, chartWindow(Range(all), z, day))

layoutFocusWeek(all, subject, z, w) == layoutFocused(all, subject, w, dayMarks(z, w), {})
layoutFocusRange(all, subject, w, tick) == layoutFocused(all, subject, w, tickMarks(w, tick), {})

\* A view is a day, a week, or the span that ends now, which is drawn whole.
parseWindow(view, z, t) ==
    CASE view.kind = "day" -> dayBounds(z, t)
      [] view.kind = "week" -> weekBounds(z, t)
      [] view.kind = "rolling" -> [start |-> t - view.span, end |-> t]

chartOf(view, all, subject, z, t) ==
    LET w == parseWindow(view, z, t)
    IN  CASE view.kind = "day" -> layoutFocusDay(all, subject, z, w)
          [] view.kind = "week" -> layoutFocusWeek(all, subject, z, w)
          [] view.kind = "rolling" -> layoutFocusRange(all, subject, w, view.tick)
-----------------------------------------------------------------------------
(* The detail page of one application or site.                              *)

detailSubject(kind, r) == IF kind = "app" THEN canonicalAppName(r) ELSE r.url

matchDetailRecords(kind, name, rows) == SelectSeq(rows, LAMBDA r : detailSubject(kind, r) = name)

\* The stretches listed, their number and the longest of them.
detailSessions(rows, w) ==
    LET shown == SelectSeq(mergeAdjacentActivity(rows), LAMBDA r : within({r}, w) # {})
        lengths == [i \in DOMAIN shown |-> clip(shown[i], w).end - clip(shown[i], w).start]
    IN  [sessions |-> SubSeq(shown, 1, Min({Len(shown), SessionMax})), count |-> Len(shown),
         longest |-> Max({0} \union {Rounded(lengths[i]) : i \in DOMAIN lengths})]

\* The days of a week with the time of the rows in each.
detailDays(rows, z, w) ==
    [day \in daysOf(z, w) |->
        sumOf([r \in within(Range(rows), day) |-> Rounded(clip(r, day).end - clip(r, day).start)])]

\* GetSiteTotals: overlaps are not removed here; its cut after 25 sites is left out.
siteTime(rows, w, site) ==
    sumOf([r \in {x \in within(rows, w) : isValid(x) /\ x.url = site} |-> clip(r, w).end - clip(r, w).start])
GetSiteTotals(rows, w) ==
    [site \in {r.url : r \in within(rows, w)} \ {""} |-> Rounded(siteTime(rows, w, site))]

sharePercent(seconds, tots) ==
    LET tracked == sumOf(tots)
    IN  IF tracked <= 0 \/ seconds <= 0 THEN 0 ELSE (200 * seconds + tracked) \div (2 * tracked)
=============================================================================
