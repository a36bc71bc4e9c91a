----------------------------- MODULE SiteIcons ------------------------------
(***************************************************************************)
(* The site icons of one user: the handler that asks for a refresh         *)
(* (internal/server/site_icons.go), the queue, limiter and workers of      *)
(* siteIconRefresher (site_icon_refresher.go), and the transactions of     *)
(* internal/db/queries.go that lease a row of site_icons to one worker.    *)
(*                                                                         *)
(* Several server processes share the table: a new release starts before   *)
(* the old one has stopped, and a killed one leaves its leases behind.     *)
(*                                                                         *)
(* Time passes only as the code's contexts allow: a phase of a refresh     *)
(* ends within its budget, unless its process stalls (MayStall).           *)
(***************************************************************************)
EXTENDS Integers, SequencesExt, FiniteSetsExt

CONSTANTS
    Servers,          \* processes
    Workers,          \* goroutines running siteIconRefresher.run
    Home,             \* the process each worker belongs to
    MayStall,         \* workers whose process may be suspended for a while
    Sites,            \* keys of the user's rows
    QueueLimit,       \* siteIconQueueLimit
    UserPendingLimit, \* siteIconUserPendingLimit
    RateLimit,        \* siteIconRateLimit
    Window,           \* siteIconRateWindow
    DatabaseBudget,   \* siteIconDatabaseBudget
    FetchBudget,      \* siteIconFetchBudget
    ClaimLease,       \* siteIconClaimLease
    TransientRetry,   \* siteIconTransientRetry
    Year,             \* how long an answer of the site is kept
    RowLimit,         \* db.SiteIconUserLimit
    MaxTime,          \* bound on the clock
    MaxViews,         \* bound on the image requests that ask for a refresh
    MaxMishaps        \* bound on stops, kills and corrupted rows

ASSUME SiteIconsAssumption ==
    /\ IsFiniteSet(Sites) /\ IsFiniteSet(Workers)
    /\ Home \in [Workers -> Servers] /\ MayStall \subseteq Workers
    /\ {QueueLimit, UserPendingLimit, RateLimit, RowLimit} \subseteq Nat \ {0}
    /\ {Window, DatabaseBudget, FetchBudget, TransientRetry, Year, MaxTime, MaxViews, MaxMishaps}
         \subseteq Nat \ {0}
    /\ ClaimLease \in Nat
    /\ ClaimLease > 2 * DatabaseBudget + FetchBudget

VARIABLES
    now,      \* the wall clock
    rows,     \* site_icons: a function on the sites that have a row
    life,     \* "up", "closing" (Close cancelled ctx) or "down", per process
    reader,   \* the job an image request of the process is about to enqueue
    jobs,     \* the channel
    pending,  \* the map of jobs that have a slot
    deferred, \* jobs waiting for the limiter, with the time they return
    hits,     \* the limiter's reservations
    work,     \* where each worker is
    starts,   \* history: the times of the reservations that led to a claim
    views,    \* image requests so far that asked for a refresh
    mishaps   \* stops, kills and corruptions so far

vars == <<now, rows, life, reader, jobs, pending, deferred, hits, work, starts, views, mishaps>>
process == <<life, reader, jobs, pending, deferred, hits, work, starts>>

Job == [site : Sites, repair : BOOLEAN]
NoJob == [site |-> "none", repair |-> FALSE]
Free == [until |-> -1, by |-> "none"] \* a claim_until that is NULL

Idle == [pc |-> "idle", job |-> NoJob, since |-> 0, until |-> 0, icon |-> "none",
         attempted |-> 0, late |-> FALSE, evicted |-> FALSE, superseded |-> FALSE]

Busy(w) == work[w].pc \in {"claiming", "fetching", "completing"}
Holds(w) == work[w].pc \in {"fetching", "completing"}
Staff(s) == {w \in Workers : Home[w] = s}

\* The lease, which is its own token: readings of the clock, to the
\* microsecond, by different workers are taken to differ.
claimUntil(w) == [until |-> work[w].since + ClaimLease, by |-> w]

Init ==
    /\ now = 0
    /\ \E known \in SUBSET Sites :
         /\ Cardinality(known) <= RowLimit
         /\ rows \in [known -> [icon : {"good", "corrupt"}, expires : {0, Year},
                               claim : {Free}, updated : {0}]]
    /\ life = [s \in Servers |-> "up"]
    /\ reader = [s \in Servers |-> NoJob]
    /\ jobs = [s \in Servers |-> <<>>]
    /\ pending = [s \in Servers |-> {}]
    /\ deferred = [s \in Servers |-> {}]
    /\ hits = [s \in Servers |-> <<>>]
    /\ work = [w \in Workers |-> Idle]
    /\ starts = [s \in Servers |-> <<>>]
    /\ views = 0 /\ mishaps = 0
-----------------------------------------------------------------------------
(* An image request: handleSiteIcon reads the row, then asks for a refresh. *)

\* The row is served as it is: neither stale nor corrupt.
Fresh(k) == k \in DOMAIN rows /\ rows[k].expires > now

\* handleSiteIcon: SELECT, and what to ask for; a fresh row that is sound,
\* a picture or a known absence, asks for nothing.
View(s, k) ==
    /\ life[s] # "down"
    /\ reader[s] = NoJob
    /\ views < MaxViews
    /\ views' = views + 1
    /\ Fresh(k) => rows[k].icon = "corrupt"
    /\ reader' = [reader EXCEPT ![s] = [site |-> k, repair |-> Fresh(k)]]
    /\ UNCHANGED <<now, rows, life, jobs, pending, deferred, hits, work, starts, mishaps>>

\* Whether enqueue takes the job: it has no slot yet and there is room.
Room(s) ==
    /\ Cardinality(pending[s]) < QueueLimit
    /\ Cardinality(pending[s]) < UserPendingLimit
    /\ Len(jobs[s]) < QueueLimit

\* enqueue sends the job and gives it a slot; once ctx is done, the select
\* may still choose the send.
Enqueue(s) ==
    /\ reader[s] \in Job \ pending[s]
    /\ Room(s)
    /\ jobs' = [jobs EXCEPT ![s] = Append(@, reader[s])]
    /\ pending' = [pending EXCEPT ![s] = @ \union {reader[s]}]
    /\ reader' = [reader EXCEPT ![s] = NoJob]
    /\ UNCHANGED <<now, rows, life, deferred, hits, work, starts, views, mishaps>>

\* The job has a slot already, there is no room, or ctx is done.
Decline(s) ==
    /\ reader[s] # NoJob
    /\ reader[s] \in pending[s] \/ ~Room(s) \/ life[s] = "closing"
    /\ reader' = [reader EXCEPT ![s] = NoJob]
    /\ UNCHANGED <<now, rows, life, jobs, pending, deferred, hits, work, starts, views, mishaps>>
-----------------------------------------------------------------------------
(* The limiter and the slots.                                              *)

\* activeRateHits: the reservations from the first that still counts at time t.
activeRateHits(seq, t) ==
    LET live == {i \in DOMAIN seq : seq[i] > t - Window}
    IN  IF live = {} THEN <<>> ELSE SubSeq(seq, Min(live), Len(seq))

\* reserve: the window has room for one more.
Allowed(s) == Len(activeRateHits(hits[s], now)) < RateLimit

\* refund: the last reservation made at that time is given back.
refund(seq, t) ==
    LET mine == {i \in DOMAIN seq : seq[i] = t}
    IN  IF mine = {} THEN seq ELSE RemoveAt(seq, Max(mine))

\* finish: the job's slot is free again.
finish(s, job) == pending' = [pending EXCEPT ![s] = @ \ {job}]

\* run receives a job. reserve reads the clock; refresh reads it again at
\* once, and both readings are "since". Once Close has cancelled ctx the
\* select may still choose the job, whose claim then fails and is refunded.
Take(w) ==
    LET s == Home[w]
        job == Head(jobs[s])
        active == activeRateHits(hits[s], now)
    IN  /\ life[s] # "down"
        /\ work[w].pc = "idle"
        /\ jobs[s] # <<>>
        /\ Allowed(s)
        /\ jobs' = [jobs EXCEPT ![s] = Tail(@)]
        /\ IF life[s] = "up"
             THEN /\ hits' = [hits EXCEPT ![s] = Append(active, now)]
                  /\ work' = [work EXCEPT ![w] = [Idle EXCEPT
                               !.pc = "claiming", !.job = job,
                               !.since = now, !.until = now + DatabaseBudget]]
                  /\ UNCHANGED pending
             ELSE /\ hits' = [hits EXCEPT ![s] = active]
                  /\ finish(s, job)
                  /\ UNCHANGED work
        /\ UNCHANGED <<now, rows, life, reader, deferred, starts, views, mishaps>>

\* Mutant: a deferred job gives up its slot while it waits.
DeferFinishing(w) ==
    LET s == Home[w]
        active == activeRateHits(hits[s], now)
    IN  /\ life[s] # "down"
        /\ work[w].pc = "idle"
        /\ jobs[s] # <<>>
        /\ ~Allowed(s)
        /\ jobs' = [jobs EXCEPT ![s] = Tail(@)]
        /\ hits' = [hits EXCEPT ![s] = active]
        /\ deferred' = [deferred EXCEPT ![s] = @ \union
                          {[job |-> Head(jobs[s]), at |-> active[1] + Window]}]
        /\ finish(s, Head(jobs[s]))
        /\ UNCHANGED <<now, rows, life, reader, work, starts, views, mishaps>>

\* deferJob: the limiter is full, a timer brings the job back.
Defer(w) ==
    LET s == Home[w]
        active == activeRateHits(hits[s], now)
    IN  /\ life[s] # "down"
        /\ work[w].pc = "idle"
        /\ jobs[s] # <<>>
        /\ ~Allowed(s)
        /\ jobs' = [jobs EXCEPT ![s] = Tail(@)]
        /\ hits' = [hits EXCEPT ![s] = active]
        /\ deferred' = [deferred EXCEPT ![s] = @ \union
                          {[job |-> Head(jobs[s]), at |-> active[1] + Window]}]
        /\ UNCHANGED <<now, rows, life, reader, pending, work, starts, views, mishaps>>

\* The timer fired: the job goes back to the channel, with its slot.
Return(s) ==
    \E d \in deferred[s] :
        /\ d.at <= now
        /\ Len(jobs[s]) < QueueLimit
        /\ deferred' = [deferred EXCEPT ![s] = @ \ {d}]
        /\ jobs' = [jobs EXCEPT ![s] = Append(@, d.job)]
        /\ UNCHANGED <<now, rows, life, reader, pending, hits, work, starts, views, mishaps>>

\* Mutant: the timer is waited for even when ctx is done.
AbandonWhenDue(s) ==
    \E d \in deferred[s] :
        /\ life[s] = "closing"
        /\ d.at <= now
        /\ deferred' = [deferred EXCEPT ![s] = @ \ {d}]
        /\ finish(s, d.job)
        /\ UNCHANGED <<now, rows, life, reader, jobs, hits, work, starts, views, mishaps>>

\* ctx is done first.
Abandon(s) ==
    \E d \in deferred[s] :
        /\ life[s] = "closing"
        /\ deferred' = [deferred EXCEPT ![s] = @ \ {d}]
        /\ finish(s, d.job)
        /\ UNCHANGED <<now, rows, life, reader, jobs, hits, work, starts, views, mishaps>>
-----------------------------------------------------------------------------
(* The refresh: claim, fetch, complete.                                    *)

\* Mutant: nothing is pruned.
PrunedNever(rs) == {rs}

\* pruneSiteIcons keeps the RowLimit rows updated last; rows updated within
\* one unit of time may be in either order.
Pruned(rs) ==
    {Restrict(rs, keep) : keep \in
        {K \in SUBSET DOMAIN rs :
            /\ Cardinality(K) = Min({RowLimit, Cardinality(DOMAIN rs)})
            /\ \A x \in K, y \in DOMAIN rs \ K : rs[x].updated >= rs[y].updated}}

\* Mutant: a repair takes a row that is leased.
ClaimableRepairing(w) ==
    LET k == work[w].job.site
    IN  k \in DOMAIN rows =>
          \/ work[w].job.repair
          \/ rows[k].expires <= work[w].since /\ rows[k].claim.until <= work[w].since

\* The WHERE of the upsert: the row is expired, or to be repaired, and free.
Claimable(w) ==
    LET k == work[w].job.site
    IN  k \in DOMAIN rows =>
          /\ work[w].job.repair \/ rows[k].expires <= work[w].since
          /\ rows[k].claim.until <= work[w].since

\* The row as the claim leaves it: a new one has no picture and is expired.
Leased(w) ==
    LET k == work[w].job.site
        old == IF k \in DOMAIN rows THEN rows[k]
               ELSE [icon |-> "none", expires |-> work[w].since]
    IN  [icon |-> old.icon, expires |-> old.expires,
         claim |-> claimUntil(w), updated |-> work[w].since]

\* The table with that row.
Upserted(w) ==
    LET k == work[w].job.site
    IN  [x \in DOMAIN rows \union {k} |-> IF x = k THEN Leased(w) ELSE rows[x]]

\* What the workers v learn from a transaction that w commits: not a thing;
\* but history records whose row is gone, and who was overtaken by a claim.
Marked(v, rs, w, claimed) ==
    LET k == work[v].job.site
    IN  IF ~Holds(v) THEN work[v]
        ELSE [work[v] EXCEPT !.evicted = @ \/ k \notin DOMAIN rs,
                             !.superseded = @ \/ (claimed /\ k = work[w].job.site)]

\* ClaimSiteIconRefresh commits and its answer arrives.
Claim(w) ==
    /\ work[w].pc = "claiming"
    /\ Claimable(w)
    /\ \E rs \in Pruned(Upserted(w)) :
         /\ rows' = rs
         /\ work' = [v \in Workers |->
              IF v = w THEN [work[w] EXCEPT !.pc = "fetching", !.until = now + FetchBudget,
                                            !.evicted = work[w].job.site \notin DOMAIN rs]
              ELSE Marked(v, rs, w, TRUE)]
    /\ starts' = [starts EXCEPT ![Home[w]] = Append(@, work[w].since)]
    /\ UNCHANGED <<now, life, reader, jobs, pending, deferred, hits, views, mishaps>>

\* The refresh is over without a fetch: refunded and finished.
Refused(w) ==
    /\ hits' = [hits EXCEPT ![Home[w]] = refund(@, work[w].since)]
    /\ finish(Home[w], work[w].job)

\* The row is fresh or leased, or the transaction failed, by its budget or
\* by Close.
ClaimNothing(w) ==
    /\ work[w].pc = "claiming"
    /\ Refused(w)
    /\ work' = [work EXCEPT ![w] = Idle]
    /\ UNCHANGED <<now, rows, life, reader, jobs, deferred, starts, views, mishaps>>

\* It committed, but the answer was lost: the lease stays, nobody fetches.
ClaimUnanswered(w) ==
    /\ work[w].pc = "claiming"
    /\ Claimable(w)
    /\ \E rs \in Pruned(Upserted(w)) :
         /\ rows' = rs
         /\ work' = [v \in Workers |->
                       IF v = w THEN Idle ELSE Marked(v, rs, w, TRUE)]
    /\ Refused(w)
    /\ UNCHANGED <<now, life, reader, jobs, deferred, starts, views, mishaps>>

\* Fetch returned a picture that validates ("good"), the site has none
\* ("none"), or something failed ("error").
Fetch(w) ==
    /\ work[w].pc = "fetching"
    /\ life[Home[w]] = "up"
    /\ \E result \in {"good", "none", "error"} :
         work' = [work EXCEPT ![w].pc = "completing", ![w].icon = result,
                              ![w].attempted = now, ![w].until = now + DatabaseBudget]
    /\ UNCHANGED <<now, rows, life, reader, jobs, pending, deferred, hits, starts, views, mishaps>>

\* Mutant: the UPDATE does not compare the token.
CompletedAnyway(w) ==
    LET k == work[w].job.site
        lifetime == IF work[w].icon = "error" THEN TransientRetry ELSE Year
    IN  IF k \in DOMAIN rows
          THEN [rows EXCEPT ![k] = [
                  icon |-> IF work[w].icon = "good" THEN "good" ELSE @.icon,
                  expires |-> work[w].attempted + lifetime,
                  claim |-> Free, updated |-> work[w].attempted]]
          ELSE rows

\* The UPDATE of CompleteSiteIconRefresh; without a picture the old one stays.
Completed(w) ==
    LET k == work[w].job.site
        lifetime == IF work[w].icon = "error" THEN TransientRetry ELSE Year
    IN  IF k \in DOMAIN rows /\ rows[k].claim = claimUntil(w)
          THEN [rows EXCEPT ![k] = [
                  icon |-> IF work[w].icon = "good" THEN "good" ELSE @.icon,
                  expires |-> work[w].attempted + lifetime,
                  claim |-> Free, updated |-> work[w].attempted]]
          ELSE rows

\* CompleteSiteIconRefresh commits, answered or not; or no row has the token.
Complete(w) ==
    /\ work[w].pc = "completing"
    /\ \E rs \in Pruned(Completed(w)) :
         /\ rows' = rs
         /\ work' = [v \in Workers |-> IF v = w THEN Idle ELSE Marked(v, rs, w, FALSE)]
    /\ finish(Home[w], work[w].job)
    /\ UNCHANGED <<now, life, reader, jobs, deferred, hits, starts, views, mishaps>>

\* Mutant: a refresh that stored nothing is refunded.
GiveUpRefunding(w) ==
    /\ work[w].pc = "completing" \/ (work[w].pc = "fetching" /\ life[Home[w]] = "closing")
    /\ work' = [work EXCEPT ![w] = Idle]
    /\ Refused(w)
    /\ UNCHANGED <<now, rows, life, reader, jobs, deferred, starts, views, mishaps>>

\* It failed; or Close cancelled the fetch, and nothing can be stored after.
GiveUp(w) ==
    /\ work[w].pc = "completing" \/ (work[w].pc = "fetching" /\ life[Home[w]] = "closing")
    /\ work' = [work EXCEPT ![w] = Idle]
    /\ finish(Home[w], work[w].job)
    /\ UNCHANGED <<now, rows, life, reader, jobs, deferred, hits, starts, views, mishaps>>
-----------------------------------------------------------------------------
(* The process, the clock and the disk.                                    *)

\* Close cancels ctx, and waits.
Close(s) ==
    /\ life[s] = "up"
    /\ mishaps < MaxMishaps
    /\ mishaps' = mishaps + 1
    /\ life' = [life EXCEPT ![s] = "closing"]
    /\ UNCHANGED <<now, rows, reader, jobs, pending, deferred, hits, work, starts, views>>

\* run sees that ctx is done.
Leave(w) ==
    /\ life[Home[w]] = "closing"
    /\ work[w].pc = "idle"
    /\ work' = [work EXCEPT ![w].pc = "gone"]
    /\ UNCHANGED <<now, rows, life, reader, jobs, pending, deferred, hits, starts, views, mishaps>>

\* The process ends and its memory with it.
Forget(s) ==
    /\ life' = [life EXCEPT ![s] = "down"]
    /\ reader' = [reader EXCEPT ![s] = NoJob]
    /\ jobs' = [jobs EXCEPT ![s] = <<>>]
    /\ pending' = [pending EXCEPT ![s] = {}]
    /\ deferred' = [deferred EXCEPT ![s] = {}]
    /\ hits' = [hits EXCEPT ![s] = <<>>]
    /\ starts' = [starts EXCEPT ![s] = <<>>]
    /\ work' = [w \in Workers |-> IF Home[w] = s THEN Idle ELSE work[w]]
    /\ UNCHANGED <<now, rows, views>>

\* wait.Wait returns: the workers and the deferred jobs are through.
Closed(s) ==
    /\ life[s] = "closing"
    /\ \A w \in Staff(s) : work[w].pc = "gone"
    /\ deferred[s] = {}
    /\ Forget(s)
    /\ UNCHANGED mishaps

Kill(s) ==
    /\ life[s] # "down"
    /\ mishaps < MaxMishaps
    /\ mishaps' = mishaps + 1
    /\ Forget(s)

\* newSiteIconRefresher.
Boot(s) ==
    /\ life[s] = "down"
    /\ life' = [life EXCEPT ![s] = "up"]
    /\ UNCHANGED <<now, rows, reader, jobs, pending, deferred, hits, work, starts, views, mishaps>>

\* A stored picture no longer matches its digest.
Corrupt(k) ==
    /\ k \in DOMAIN rows
    /\ rows[k].icon = "good"
    /\ mishaps < MaxMishaps
    /\ mishaps' = mishaps + 1
    /\ rows' = [rows EXCEPT ![k].icon = "corrupt"]
    /\ UNCHANGED <<now, process, views>>

\* The clock: only a stalled worker outlives the budget of its phase.
Tick ==
    /\ now < MaxTime
    /\ \A w \in Workers \ MayStall : Busy(w) => now < work[w].until
    /\ now' = now + 1
    /\ work' = [w \in Workers |->
                  [work[w] EXCEPT !.late = @ \/ (Busy(w) /\ now = work[w].until)]]
    /\ UNCHANGED <<rows, life, reader, jobs, pending, deferred, hits, starts, views, mishaps>>

ServerStep(s) ==
    \/ \E k \in Sites : View(s, k)
    \/ Enqueue(s) \/ Decline(s)
    \/ Return(s) \/ Abandon(s)
    \/ Close(s) \/ Closed(s) \/ Kill(s) \/ Boot(s)

Refresh(w) == Claim(w) \/ ClaimNothing(w) \/ ClaimUnanswered(w) \/ Fetch(w) \/ Complete(w) \/ GiveUp(w)

Next ==
    \/ \E s \in Servers : ServerStep(s)
    \/ \E w \in Workers : Take(w) \/ Defer(w) \/ Leave(w) \/ Refresh(w)
    \/ \E k \in Sites : Corrupt(k)
    \/ Tick

Spec == Init /\ [][Next]_vars

\* Contexts end what waits on the network, a goroutine whose ctx is done
\* returns, and wait.Wait returns; nothing is said of Take, of the timers or
\* of the clock.
Fairness ==
    /\ \A w \in Workers : WF_vars(Refresh(w)) /\ WF_vars(Leave(w))
    /\ \A s \in Servers : WF_vars(Abandon(s)) /\ WF_vars(Closed(s))

FairSpec == Spec /\ Fairness
-----------------------------------------------------------------------------
(* Properties.                                                             *)

\* Types; and after every transaction the user has at most RowLimit rows,
\* whichever rows the claims and completions of several processes pruned.
TypeOK ==
    /\ now \in 0..MaxTime /\ views \in 0..MaxViews /\ mishaps \in 0..MaxMishaps
    /\ DOMAIN rows \subseteq Sites /\ Cardinality(DOMAIN rows) <= RowLimit
    /\ rows \in [DOMAIN rows ->
         [icon : {"none", "good", "corrupt"}, expires : Nat,
          claim : [until : Nat, by : Workers] \union {Free}, updated : Nat]]
    /\ life \in [Servers -> {"up", "closing", "down"}]
    /\ reader \in [Servers -> Job \union {NoJob}]
    /\ jobs \in [Servers -> Seq(Job)] /\ pending \in [Servers -> SUBSET Job]
    /\ deferred \in [Servers -> SUBSET [job : Job, at : Nat]]
    /\ hits \in [Servers -> Seq(Nat)] /\ starts \in [Servers -> Seq(Nat)]
    /\ work \in [Workers ->
         [pc : {"idle", "claiming", "fetching", "completing", "gone"},
          job : Job \union {NoJob}, since : Nat, until : Nat,
          icon : {"none", "good", "error"}, attempted : Nat,
          late : BOOLEAN, evicted : BOOLEAN, superseded : BOOLEAN]]

\* Every slot belongs to exactly one job that is in the channel, with the
\* limiter's timer or with a worker, so that a slot is never leaked and the
\* channel always has room for a job that the timer brings back.
SlotsAccounted ==
    \A s \in Servers :
        LET waiting == Range(jobs[s])
            timed == {d.job : d \in deferred[s]}
            running == {work[w].job : w \in {v \in Staff(s) : Busy(v)}}
        IN  /\ pending[s] = waiting \union timed \union running
            /\ Cardinality(pending[s]) =
                 Len(jobs[s]) + Cardinality(deferred[s])
                   + Cardinality({w \in Staff(s) : Busy(w)})
            /\ deferred[s] # {} => Len(jobs[s]) < QueueLimit

\* The lease outlasts a refresh that keeps its budgets: no other worker, of
\* any process, fetches the same site meanwhile, unless the row was pruned.
OneFetch ==
    \A v, w \in Workers :
        (/\ v # w /\ Holds(v) /\ Holds(w)
         /\ work[v].job.site = work[w].job.site)
           => \E x \in {v, w} : work[x].late \/ work[x].evicted

\* A fetch that was overtaken by a later claim of its site stores nothing:
\* neither its picture nor its failure replaces what the later one found.
OldFetchesFenced ==
    [][\A w \in Workers :
        (work[w].pc = "completing" /\ work[w].superseded /\ work'[w].pc = "idle")
          => rows' = rows]_vars

\* The positions of what happened after time t.
After(seq, t) == {i \in DOMAIN seq : seq[i] > t}

\* A process starts at most RateLimit claimed refreshes of the user in any
\* window, although reservations are refunded in any order.
RateKept == \A s \in Servers : Cardinality(After(starts[s], now - Window)) <= RateLimit

\* Close returns: no worker and no deferred job keeps it waiting.
CloseReturns == \A s \in Servers : life[s] = "closing" ~> life[s] # "closing"
-----------------------------------------------------------------------------
(* The inductive invariant: what holds in every state and carries over every *)
(* step, from which the properties above follow.                           *)

\* A worker that is not late is within the budget of its phase, and with the
\* budgets of the phases before it within the lease.
BudgetInv(w) ==
    Busy(w) /\ ~work[w].late =>
        /\ now <= work[w].until
        /\ work[w].until <= work[w].since + DatabaseBudget
             + (IF Holds(w) THEN FetchBudget ELSE 0)
             + (IF work[w].pc = "completing" THEN DatabaseBudget ELSE 0)

\* A worker that fetches has its row unless it was pruned, with its token
\* unless a claim overtook it; and no claim does before the lease is over.
LeaseInv(w) ==
    LET k == work[w].job.site
    IN  /\ Busy(w) => work[w].since <= now
        /\ work[w].pc = "claiming" => ~work[w].superseded
        /\ Holds(w) /\ ~work[w].evicted => k \in DOMAIN rows
        /\ Holds(w) /\ ~work[w].evicted /\ ~work[w].superseded => rows[k].claim = claimUntil(w)
        /\ Holds(w) /\ ~work[w].evicted /\ work[w].superseded =>
             work[w].since + ClaimLease <= now
        /\ Holds(w) /\ work[w].superseded /\ k \in DOMAIN rows => rows[k].claim # claimUntil(w)

\* No job is in two places, so that slots can be counted by their jobs: those
\* of the channel q, of the timers d and of the workers r have the slots p.
OnePlaceEach(q, d, r, p) ==
    /\ IsInjective(q) /\ IsInjective(r)
    /\ \A x, y \in d : x.job = y.job => x = y
    /\ \A x \in d : x.job \notin Range(q) \union Range(r)
    /\ Range(q) \intersect Range(r) = {}
    /\ p = Range(q) \union {x.job : x \in d} \union Range(r)

Running(s) == [w \in {v \in Staff(s) : Busy(v)} |-> work[w].job]

SlotInv(s) ==
    /\ OnePlaceEach(jobs[s], deferred[s], Running(s), pending[s])
    /\ IsFiniteSet(pending[s]) /\ Cardinality(pending[s]) <= QueueLimit

\* The workers about to claim whose reservation is later than t.
ClaimingAfter(s, t) == {w \in Staff(s) : work[w].pc = "claiming" /\ work[w].since > t}

\* Since any moment of the window, no more refreshes were started or are being
\* claimed than there are reservations, of which there are never too many.
RateInv(s) ==
    /\ Cardinality(After(hits[s], now - Window)) <= RateLimit
    /\ \A t \in (now - Window)..MaxTime :
         Cardinality(After(starts[s], t))
           + Cardinality(ClaimingAfter(s, t))
             <= Cardinality(After(hits[s], t))

WorkerInv(w) == BudgetInv(w) /\ LeaseInv(w) /\ (Busy(w) => work[w].job \in Job)

WorkersInv == \A w \in Workers : WorkerInv(w)
ServersInv == \A s \in Servers : SlotInv(s) /\ RateInv(s)

SiteIconsInv == TypeOK /\ WorkersInv /\ ServersInv
=============================================================================
