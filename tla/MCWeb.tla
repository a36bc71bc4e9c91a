-------------------------------- MODULE MCWeb ---------------------------------
(* Users whose rows overlap in every way, whose days change the clock, who    *)
(* edit categories, who page, who log in.                                     *)
EXTENDS Web

MCAppKeys == [a \in {"Google Chrome", "google-chrome", "Firefox", "firefox", "Chrome"} |->
                CASE a \in {"Google Chrome"} -> "google chrome"
                  [] a = "google-chrome" -> "google-chrome"
                  [] a \in {"Firefox", "firefox"} -> "firefox"
                  [] a = "Chrome" -> "chrome"]

row(d, p, a, u, s, e) == [device |-> d, producer |-> p, app |-> a, url |-> u, title |-> "t",
                          start |-> s, end |-> e]
spans(n) == {<<s, e>> \in (0..n) \X (0..n) : s < e}
still == [at |-> 0, before |-> 0, after |-> 0]

overlapping(n, source) ==
    [rows |-> UNION {{row(1, "desktop", "google-chrome", "", x[1], x[2]),
                      row(1, "chrome", "Chrome", "site", x[1], x[2]),
                      row(1, "chrome", "Chrome", "", x[1], x[2]),
                      row(2, "chrome", "Chrome", "site", x[1], x[2])} : x \in spans(n)},
     limit |-> 3, edits |-> 0, requests |-> {}, logins |-> 0, zone |-> still,
     window |-> [start |-> 1, end |-> n], source |-> source]

\* Days of six hours of two units each, weeks of three days, and a change of
\* the clock on the second day.
travelling(zone) ==
    [rows |-> {row(s[1], "desktop", a, "", x[1], x[2]) : a \in {"firefox", "Chrome"},
                 <<s, x>> \in {y \in {<<1, 3>>, <<2, 1>>} \X spans(24) : y[2][2] - y[2][1] = y[1][2]}},
     limit |-> 2, edits |-> 0, requests |-> {}, logins |-> 0, zone |-> zone,
     window |-> [start |-> 8, end |-> 9], source |-> 3]
zones == {[at |-> 0, before |-> 0, after |-> 0],
          [at |-> 12, before |-> -4, after |-> -2], [at |-> 12, before |-> -2, after |-> -4],
          [at |-> 6, before |-> 2, after |-> 4], [at |-> 6, before |-> 4, after |-> 2]}

editing ==
    [rows |-> {row(1, "desktop", "google-chrome", "", 0, 3), row(1, "desktop", "firefox", "", 3, 4),
               row(1, "chrome", "Chrome", "site", 1, 2)},
     limit |-> 2, edits |-> 4, requests |-> {"dashboard"}, logins |-> 0, zone |-> still,
     window |-> [start |-> 0, end |-> 6], source |-> 3]

paging ==
    [rows |-> {row(d, x, "google-chrome", "", 0, e) : d \in {1, 2}, x \in {"desktop", "chrome"}, e \in {2, 3}},
     limit |-> 3, edits |-> 1, requests |-> {"editor"}, logins |-> 0, zone |-> still,
     window |-> [start |-> 0, end |-> 6], source |-> 3]

visiting == [editing EXCEPT !.rows = {}, !.edits = 0, !.requests = {}, !.logins = 2]

MCViews == {[kind |-> "day"], [kind |-> "week"], [kind |-> "rolling", span |-> 6, tick |-> 3]}

MCSymmetry == Permutations(Names) \union Permutations(Requests) \union Permutations(Visitors)

MCAccounts == {overlapping(4, 3), overlapping(3, 2), editing, paging, visiting} \union {travelling(z) : z \in zones}
=============================================================================
