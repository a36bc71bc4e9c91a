-------------------------------- MODULE Sway ---------------------------------
(* The two Linux detectors that live with a Wayland compositor: the window    *)
(* detector on sway's IPC socket (tracker/sway_linux.go) and the idle         *)
(* detector that supervises swayidle (tracker/idle_sway_linux.go), with the   *)
(* discovery of sockets both use (tracker/session_linux.go) and the route     *)
(* that tells a browser of idle time (tracker/extension.go). They share       *)
(* nothing but the compositors, so a behaviour has one of them: see watch.    *)
EXTENDS Integers, SequencesExt, FiniteSetsExt

CONSTANTS
    Paths,              \* names a compositor may listen at, numbers in their order
    PerSecond,          \* ticks of the model in a second
    Threshold,          \* the configured idle threshold, in ticks
    Cap,                \* bound: ages are told apart up to here
    MaxPipe             \* bound: marks that wait in swayidle's pipe

ASSUME SwayAssumption ==
    /\ Paths \subseteq Nat \ {0} /\ {PerSecond, Threshold, MaxPipe} \subseteq Nat \ {0}
    /\ Cap \in Nat

VARIABLES
    watch,              \* which detector: "window" or "idle"
    stopping,           \* its context is done
    env,                \* SWAYSOCK and WAYLAND_DISPLAY, inherited; 0 is unset
    session, live,      \* the compositor in use (0: none), and all that run
    scan,               \* a discovery: what is left to dial, what answered, and
                        \* what did all along since the scan began
    call, socketPath, conn, answer,             \* the window detector
    quiet,              \* the age of the user's last input
    sup, child, pipe,   \* the supervisor, swayidle, and the marks on their way
    running, idleAge,   \* idleAge: the age of idleSince
    asked               \* a request of /idle

compositor == <<session, live>>
window == <<call, socketPath, conn, answer>>
idle == <<sup, child, pipe, running, idleAge, asked>>
vars == <<watch, stopping, env, compositor, scan, window, quiet, idle>>

None == -1
NoConn == [path |-> 0, up |-> FALSE, unread |-> 0]
NoScan == [todo |-> {}, found |-> {}, steady |-> {}]
NoChild == [on |-> 0, alive |-> FALSE, timer |-> 0, notified |-> FALSE]
NotAsked == [state |-> "none", age |-> 0, excused |-> FALSE]

Init ==
    /\ watch \in {"window", "idle"} /\ stopping = FALSE
    /\ env \in Paths \union {0}
    /\ session \in Paths /\ live = {session}
    /\ scan = NoScan
    /\ call = "construct" /\ socketPath = 0 /\ conn = NoConn
    /\ answer = [from |-> 0, stale |-> FALSE]
    /\ quiet = 0
    /\ sup = "discover" /\ child = NoChild /\ pipe = <<>>
    /\ running = FALSE /\ idleAge = None /\ asked = NotAsked

older(age) == IF age = None THEN None ELSE Min({age + 1, Cap})

\* effectiveTimeout: whole seconds, rounded up. Its ceiling is not reached.
effectiveTimeout == ((Threshold + PerSecond - 1) \div PerSecond) * PerSecond
-----------------------------------------------------------------------------
(* The compositors and the user.                                           *)

\* A compositor at p goes: its connections break, and a swayidle on it ends.
gone(p) ==
    /\ live' = live \ {p}
    /\ scan' = [scan EXCEPT !.steady = @ \ {p}]
    /\ conn' = IF conn.path = p THEN [conn EXCEPT !.up = FALSE] ELSE conn
    /\ child' = IF child.on = p THEN [child EXCEPT !.alive = FALSE] ELSE child

SessionEnds ==
    /\ session # 0
    /\ gone(session) /\ session' = 0
    /\ UNCHANGED <<watch, stopping, env, call, socketPath, answer, quiet, sup, pipe, running,
                   idleAge, asked>>

\* It starts again, as a rule under another name.
SessionStarts(p) ==
    /\ session = 0 /\ p \notin live
    /\ session' = p /\ live' = live \union {p}
    /\ UNCHANGED <<watch, stopping, env, scan, window, quiet, idle>>

\* A nested compositor, or another seat of the user.
NestedStarts(p) ==
    /\ p \notin live
    /\ live' = live \union {p}
    /\ UNCHANGED <<watch, stopping, env, session, scan, window, quiet, idle>>

NestedEnds(p) ==
    /\ p \in live \ {session}
    /\ gone(p)
    /\ UNCHANGED <<watch, stopping, env, session, call, socketPath, answer, quiet, sup, pipe,
                   running, idleAge, asked>>

Compositors ==
    \/ SessionEnds
    \/ \E p \in Paths : SessionStarts(p) \/ NestedStarts(p) \/ NestedEnds(p)

\* The user does something; a swayidle that had told of idle tells of it.
Input ==
    /\ watch = "idle" /\ session # 0
    /\ quiet' = 0
    /\ asked' = [asked EXCEPT !.excused = TRUE]
    /\ IF child.alive /\ child.on = session
       THEN /\ child' = [child EXCEPT !.timer = 0, !.notified = FALSE]
            /\ pipe' = IF child.notified THEN Append(pipe, "resume") ELSE pipe
       ELSE UNCHANGED <<child, pipe>>
    /\ UNCHANGED <<watch, stopping, env, compositor, scan, window, sup, running, idleAge>>

Tick ==
    /\ watch = "idle"
    /\ quiet' = older(quiet)
    /\ child' = IF child.alive THEN [child EXCEPT !.timer = older(@)] ELSE child
    /\ idleAge' = older(idleAge)
    /\ UNCHANGED <<watch, stopping, env, compositor, scan, window, sup, pipe, running, asked>>

Cancel ==
    /\ ~stopping /\ (watch = "window" => call # "construct")
    /\ stopping' = TRUE
    /\ UNCHANGED <<watch, env, compositor, scan, window, quiet, idle>>
-----------------------------------------------------------------------------
(* Discovery: liveSockets dials the names one by one.                      *)

discover == scan' = [todo |-> Paths, found |-> {}, steady |-> live]

\* acceptCandidate: what is not live does not accept; what is live may be too
\* slow for the version probe, which only the window detector sends.
scanned(p, answers) ==
    scan' = [todo |-> scan.todo \ {p},
             found |-> IF p \in live /\ answers THEN scan.found \union {p} ELSE scan.found,
             steady |-> IF answers THEN scan.steady ELSE scan.steady \ {p}]

Scan(answers) ==
    /\ scan.todo # {}
    /\ scanned(Min(scan.todo), answers)
    /\ UNCHANGED <<watch, stopping, env, compositor, window, quiet, idle>>

TooSlow == watch = "window" /\ scan.todo # {} /\ Min(scan.todo) \in live /\ Scan(FALSE)

\* The only one, or 0 for the errors.
exactlyOne(live_) == IF Cardinality(live_) = 1 THEN CHOOSE p \in live_ : TRUE ELSE 0
-----------------------------------------------------------------------------
(* The window detector.                                                    *)

rest == UNCHANGED <<watch, stopping, env, compositor, quiet, idle>>

connected(p) == socketPath' = p /\ conn' = [NoConn EXCEPT !.path = p, !.up = TRUE]

\* NewSwayWindowDetector: SWAYSOCK if it can be dialled, or what a scan finds.
\* The daemon does not start without it, and is started again.
Construct ==
    /\ watch = "window" /\ call = "construct" /\ scan.todo = {}
    /\ IF env \in live THEN connected(env) /\ call' = "none" /\ UNCHANGED scan
       ELSE discover /\ call' = "constructing" /\ UNCHANGED <<socketPath, conn>>
    /\ UNCHANGED answer /\ rest

Constructed ==
    /\ call = "constructing" /\ scan.todo = {}
    /\ LET p == exactlyOne(scan.found)
       IN  IF p \in live THEN connected(p) /\ call' = "none"
           ELSE call' = "construct" /\ UNCHANGED <<socketPath, conn>>
    /\ scan' = NoScan
    /\ UNCHANGED answer /\ rest

ActiveWindow ==
    /\ watch = "window" /\ call = "none" /\ ~stopping
    /\ call' = "first"
    /\ UNCHANGED <<socketPath, conn, answer, scan>> /\ rest

\* connLocked.
used == IF conn.path # 0 THEN conn
        ELSE [path |-> socketPath, up |-> socketPath \in live, unread |-> 0]

attempting == watch = "window" /\ call \in {"first", "second", "third"}

\* attemptLocked that reads a reply: the oldest on the stream.
Answered ==
    /\ attempting /\ ~stopping /\ used.up
    /\ conn' = used
    /\ answer' = [from |-> used.path, stale |-> used.unread > 0]
    /\ call' = "none"
    /\ UNCHANGED <<socketPath, scan>> /\ rest

\* Mutant: the connection is kept when a request failed.
keepConn(late) == conn' = IF used.up THEN [used EXCEPT !.unread = @ + late] ELSE NoConn

\* dropConnLocked: whatever was still to come on it is not read.
dropConn(late) == conn' = NoConn

\* attemptLocked that fails: no connection, a broken one, or no reply in time,
\* which is on its way nonetheless. request tries again, then scans.
Failed ==
    /\ attempting
    /\ \E late \in IF used.up /\ used.unread = 0 THEN {0, 1} ELSE {0} : dropConn(late)
    /\ call' = CASE stopping -> "none" [] call = "first" -> "second"
                 [] call = "second" -> "scan" [] OTHER -> "none"
    /\ IF call' = "scan" THEN discover ELSE UNCHANGED scan
    /\ answer' = IF call' = "none" THEN [from |-> 0, stale |-> FALSE] ELSE answer
    /\ UNCHANGED socketPath /\ rest

\* rediscoverLocked.
Rediscovered ==
    /\ call = "scan" /\ scan.todo = {}
    /\ LET p == exactlyOne(scan.found)
       IN  IF p \notin {0, socketPath}
           THEN socketPath' = p /\ conn' = NoConn /\ call' = "third" /\ UNCHANGED answer
           ELSE /\ call' = "none" /\ answer' = [from |-> 0, stale |-> FALSE]
                /\ UNCHANGED <<socketPath, conn>>
    /\ scan' = NoScan
    /\ rest

CloseWindow ==
    /\ watch = "window" /\ stopping /\ call = "none"
    /\ call' = "closed" /\ conn' = NoConn
    /\ UNCHANGED <<socketPath, answer, scan>> /\ rest
-----------------------------------------------------------------------------
(* The idle detector.                                                      *)

same == UNCHANGED <<watch, stopping, env, compositor, window, quiet>>

\* applyDisplay begins.
Discover ==
    /\ watch = "idle" /\ sup = "discover" /\ scan.todo = {}
    /\ IF stopping THEN sup' = "done" /\ UNCHANGED scan ELSE discover /\ sup' = "start"
    /\ UNCHANGED <<child, pipe, running, idleAge, asked>> /\ same

\* Mutant: the child gets the display the daemon was started with.
inheritedDisplay == env

\* The only display there is, or the one inherited.
applyDisplay == IF exactlyOne(scan.found) # 0 THEN exactlyOne(scan.found) ELSE env

\* runOnce: swayidle starts, and ends at once if it has no display.
Start ==
    /\ sup = "start" /\ scan.todo = {}
    /\ IF stopping THEN sup' = "done" /\ UNCHANGED <<child, running>>
       ELSE /\ child' = [NoChild EXCEPT !.on = applyDisplay, !.alive = applyDisplay \in live]
            /\ running' = TRUE /\ sup' = "consume"
    /\ scan' = NoScan
    /\ UNCHANGED <<pipe, idleAge, asked>> /\ same

\* swayidle's timeout is over; with -w the marks keep their order.
Notify ==
    /\ child.alive /\ ~child.notified /\ child.timer >= effectiveTimeout /\ Len(pipe) < MaxPipe
    /\ child' = [child EXCEPT !.notified = TRUE]
    /\ pipe' = Append(pipe, "idle")
    /\ UNCHANGED <<scan, sup, running, idleAge, asked>> /\ same

\* consume with markIdle, which dates back, and markActive.
Consume ==
    /\ sup = "consume" /\ pipe # <<>>
    /\ idleAge' = IF Head(pipe) = "idle" THEN effectiveTimeout ELSE None
    /\ pipe' = Tail(pipe)
    /\ UNCHANGED <<scan, sup, child, running, asked>> /\ same

\* swayidle ends by itself, or by the SIGTERM of a supervisor that stops.
ChildDies ==
    /\ child.alive
    /\ child' = [child EXCEPT !.alive = FALSE]
    /\ UNCHANGED <<scan, sup, pipe, running, idleAge, asked>> /\ same

\* Mutant: the idle state outlives the process that would have ended it.
ExitedForgetting ==
    /\ sup = "consume" /\ ~child.alive /\ pipe = <<>>
    /\ sup' = IF stopping THEN "done" ELSE "delay"
    /\ running' = (stopping /\ running)
    /\ UNCHANGED <<scan, child, pipe, idleAge, asked>> /\ same

\* The stream is at its end, and run goes on.
Exited ==
    /\ sup = "consume" /\ ~child.alive /\ pipe = <<>>
    /\ sup' = IF stopping THEN "done" ELSE "delay"
    /\ running' = (stopping /\ running)
    /\ idleAge' = IF stopping THEN idleAge ELSE None
    /\ UNCHANGED <<scan, child, pipe, asked>> /\ same

Restart ==
    /\ sup = "delay"
    /\ sup' = IF stopping THEN "done" ELSE "discover"
    /\ UNCHANGED <<scan, child, pipe, running, idleAge, asked>> /\ same

\* Close: it waits for the supervisor, or for a child that would not end.
CloseIdle ==
    /\ watch = "idle" /\ stopping /\ sup \in {"done", "consume"} /\ running
    /\ running' = FALSE /\ idleAge' = None
    /\ UNCHANGED <<scan, sup, child, pipe, asked>> /\ same

\* What swayidle still has to say of the user who is back, or could not say.
owed == \/ ~child.alive \/ child.on # session
        \/ "resume" \in Range(pipe)

\* handleIdle: usable, then the idle time, then the clock.
Ask ==
    /\ watch = "idle" /\ asked.state = "none" /\ running
    /\ asked' = [NotAsked EXCEPT !.state = "usable"]
    /\ UNCHANGED <<scan, sup, child, pipe, running, idleAge>> /\ same

ReadIdleTime ==
    /\ asked.state = "usable"
    /\ asked' = [state |-> "read", age |-> Max({idleAge, 0}), excused |-> owed]
    /\ UNCHANGED <<scan, sup, child, pipe, running, idleAge>> /\ same

Reply ==
    /\ asked.state = "read"
    /\ asked' = NotAsked
    /\ UNCHANGED <<scan, sup, child, pipe, running, idleAge>> /\ same
-----------------------------------------------------------------------------
Window == Construct \/ Constructed \/ ActiveWindow \/ Answered \/ Failed \/ Rediscovered \/ CloseWindow
Supervisor == Discover \/ Start \/ Consume \/ Exited \/ Restart
Idle == Supervisor \/ Notify \/ ChildDies \/ CloseIdle \/ Ask \/ ReadIdleTime \/ Reply

Next == Compositors \/ Input \/ Tick \/ Cancel \/ Scan(TRUE) \/ TooSlow \/ Window \/ Idle

\* The daemon's goroutines go on and time passes, swayidle keeps its timeout,
\* and a compositor does not miss every deadline for ever.
Fairness ==
    /\ WF_vars(Construct \/ Constructed \/ ActiveWindow \/ Failed \/ Rediscovered)
    /\ SF_vars(Answered) /\ \A p \in Paths : SF_vars(p \in scan.todo /\ Scan(TRUE) /\ p \notin scan.todo')
    /\ WF_vars(Supervisor) /\ WF_vars(Notify) /\ WF_vars(Tick)

Spec == Init /\ [][Next]_vars /\ Fairness
-----------------------------------------------------------------------------
\* A tree that is reported is the reply to the request just made, never the
\* late one of a request given up; and the detector leaves a compositor only
\* if it did not answer: another one beside it draws no window reports
\* (request, attemptLocked, rediscoverLocked, exactlyOne).
RightWindow ==
    [][/\ ~answer'.stale
       /\ socketPath \notin {0, socketPath'} => socketPath \notin scan.steady]_vars

\* Nobody is called idle for longer than since the last input, but for a
\* resume on its way: not over a restart of swayidle or of the compositor,
\* and not in the answer a browser gets (markIdle, run, handleIdle).
IdleTrue ==
    /\ idleAge # None /\ ~owed => idleAge <= quiet
    /\ asked.state = "read" /\ asked.age >= Threshold /\ ~asked.excused => asked.age <= quiet

\* A compositor that came up, wherever, and stays the only one, is found: its
\* windows are reported, and an idle user is seen to be idle, without a
\* restart of the daemon (rediscoverLocked, applyDisplay, run).
Recovers ==
    \A p \in Paths :
      <>[](session = p /\ live = {p} /\ ~stopping) =>
        /\ watch = "window" => []<>(answer.from = p)
        /\ watch = "idle" /\ <>[](quiet = Cap) /\ <>[][~ChildDies]_vars
             => <>[](running /\ idleAge >= Threshold)
-----------------------------------------------------------------------------
(* The inductive invariant.                                                *)

Displays == Paths \union {0}
Marks == {"idle", "resume"}

TypeInv ==
    /\ env \in Displays /\ session \in Displays /\ live \subseteq Paths
    /\ scan \in [todo : SUBSET Paths, found : SUBSET Paths, steady : SUBSET Paths]
    /\ socketPath \in Displays /\ conn \in [path : Displays, up : BOOLEAN, unread : Nat]
    /\ quiet \in 0..Cap
    /\ child \in [on : Displays, alive : BOOLEAN, timer : 0..Cap, notified : BOOLEAN]
    /\ pipe \in Seq(Marks) /\ idleAge \in Nat \union {None}
    /\ asked \in [state : {"none", "usable", "read"}, age : Nat, excused : BOOLEAN]

\* What has been dialled and ran all along is among what was found.
ScanInv ==
    /\ IsFiniteSet(scan.found) /\ scan.steady \subseteq live
    /\ scan.steady \ scan.todo \subseteq scan.found

\* No connection has a reply still to come, and until the detector is made it has no path.
WindowInv ==
    /\ conn.unread = 0 /\ ~answer.stale
    /\ call \in {"construct", "constructing"} => socketPath = 0

\* swayidle's own timer runs no longer than the user is quiet; what it told of
\* last is the last mark that waits; and without it nobody is idle.
ChildInv ==
    /\ child.alive => sup = "consume" /\ child.on \in live
    /\ child.alive /\ child.on = session => child.timer <= quiet
    /\ child.alive /\ child.notified => child.timer >= effectiveTimeout
    /\ child.alive /\ ~child.notified =>
         /\ pipe # <<>> => pipe[Len(pipe)] = "resume"
         /\ idleAge # None => pipe # <<>>
    /\ sup # "consume" => pipe = <<>>
    /\ sup \in {"discover", "start", "delay"} => idleAge = None

SwayInv == TypeInv /\ ScanInv /\ WindowInv /\ ChildInv /\ IdleTrue
=============================================================================
