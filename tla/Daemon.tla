------------------------------- MODULE Daemon -------------------------------
(***************************************************************************)
(* trackkrd's run() (cmd/trackkrd/main.go): the order in which the         *)
(* listener, the Reporter, the tracker and the extension server come up    *)
(* and go down, with every request handler of the extension server         *)
(* (internal/tracker/extension.go) interleaving with all of them.          *)
(*                                                                         *)
(* The Reporter's actions are those of module Reporter; here run() decides *)
(* when they may happen, and nothing else keeps a producer from calling    *)
(* Enqueue.                                                                *)
(***************************************************************************)
EXTENDS Reporter

CONSTANTS
    Tracker,   \* the tracker's goroutine
    Handlers   \* goroutines serving POST /extension/activity

\* toRecord drops a record shorter than a second, so no handler enqueues one that
\* ends before it starts.
ASSUME DaemonAssumption ==
    /\ Tracker \notin Handlers
    /\ Producers = Handlers \union {Tracker}
    /\ Replayed \intersect Backwards = {}
    /\ IsFiniteSet(Handlers) /\ IsFiniteSet(Segments)

VARIABLES
    bound,    \* whether this run of the daemon holds the extension port
    tracking, \* whether Tracker.Run has yet to return
    open,     \* the segment Tracker.current is timing: {} or a singleton
    serve,    \* where ExtensionServer.Serve is
    handler,  \* where each request is
    body,     \* the segments each request carries
    left,     \* those its handler has yet to enqueue
    conn,     \* whether the reply can still reach the extension
    acked,    \* history: segments the extension saw a 202 for and forgot
    mishaps   \* history: what kept Serve from waiting for its handlers

daemonVars == <<bound, tracking, open, serve, handler, body, left, conn, acked, mishaps>>
history == <<acked, mishaps>>
allVars == <<vars, daemonVars>>

Native == Segments \ (Replayed \union Backwards)

Requests == <<handler, body, left, conn>>

\* Records waiting, or about to wait, in memory; MaxHeld bounds them.
Waiting ==
    Len(queue) + Len(batch) + Cardinality(open)
      + Cardinality({hs \in Handlers \X Segments : hs[2] \in left[hs[1]]})

DaemonInit ==
    /\ Init
    /\ bound = FALSE /\ tracking = FALSE /\ open = {} /\ serve = "off"
    /\ handler = [h \in Handlers |-> "idle"]
    /\ body = [h \in Handlers |-> {}] /\ left = [h \in Handlers |-> {}]
    /\ conn = [h \in Handlers |-> FALSE]
    /\ acked = {} /\ mishaps = {}
-----------------------------------------------------------------------------
(* Coming up: bind, then load.                                             *)

\* ListenExtension gets the port.
Bind ==
    /\ phase = "down" /\ ~bound
    /\ bound' = TRUE
    /\ UNCHANGED <<vars, tracking, open, serve, Requests, history>>

\* The port is taken: run returns before anything was loaded.
BindFails ==
    /\ phase = "down" /\ ~bound
    /\ UNCHANGED allVars

\* NewReporter, then the goroutines and Tracker.Run.
GoLive ==
    /\ bound
    /\ Start \/ StartUnread
    /\ tracking' = TRUE
    /\ serve' = "serving"
    /\ UNCHANGED <<bound, open, Requests, history>>
-----------------------------------------------------------------------------
(* The tracker.                                                            *)

\* startNew, also by a poll that was under way when ctx was cancelled.
TrackerOpens ==
    /\ tracking
    /\ pc[Tracker] = "idle"
    /\ open = {}
    /\ Waiting < MaxHeld
    /\ \E s \in Native \ accepted : open' = {s}
    /\ UNCHANGED <<vars, bound, tracking, serve, Requests, history>>

\* finalize, while polling or because ctx is done; a segment of less than a
\* second is dropped.
TrackerCloses ==
    /\ tracking
    /\ \E s \in open : Enqueue(Tracker, s) \/ UNCHANGED vars
    /\ open' = {}
    /\ UNCHANGED <<bound, tracking, serve, Requests, history>>

\* Run returns once ctx is done and the open segment is finalized.
TrackerReturns ==
    /\ tracking /\ phase = "draining"
    /\ open = {} /\ pc[Tracker] = "idle"
    /\ tracking' = FALSE
    /\ UNCHANGED <<vars, bound, open, serve, Requests, history>>
-----------------------------------------------------------------------------
(* Requests.                                                               *)

\* A POST from the extension, which repeats what it saw no 202 for.  Shutdown
\* also waits for a connection that was accepted just before it.
Request(h) ==
    /\ serve \in {"serving", "draining"}
    /\ handler[h] = "idle"
    /\ \E S \in SUBSET (Replayed \ acked) \ {{}} :
         /\ Waiting + Cardinality(S) <= MaxHeld
         /\ body' = [body EXCEPT ![h] = S]
         /\ left' = [left EXCEPT ![h] = S]
    /\ handler' = [handler EXCEPT ![h] = "reading"]
    /\ conn' = [conn EXCEPT ![h] = TRUE]
    /\ UNCHANGED <<vars, bound, tracking, open, serve, history>>

\* The handler returns.
Finish(h) ==
    /\ handler' = [handler EXCEPT ![h] = "idle"]
    /\ body' = [body EXCEPT ![h] = {}]
    /\ left' = [left EXCEPT ![h] = {}]
    /\ conn' = [conn EXCEPT ![h] = FALSE]

\* The body is rejected, incomplete, or its connection gone: nothing is queued.
Reject(h) ==
    /\ handler[h] = "reading"
    /\ Finish(h)
    /\ UNCHANGED <<vars, bound, tracking, open, serve, history>>

\* handleActivity has decoded the body from a connection that was still open.
Decode(h) ==
    /\ handler[h] = "reading" /\ conn[h]
    /\ handler' = [handler EXCEPT ![h] = "queueing"]
    /\ UNCHANGED <<vars, bound, tracking, open, serve, body, left, conn, history>>

\* Its loop enqueues the records one by one.
HandlerEnqueues(h) ==
    /\ handler[h] = "queueing"
    /\ \E s \in left[h] :
         /\ Enqueue(h, s)
         /\ left' = [left EXCEPT ![h] = @ \ {s}]
    /\ UNCHANGED <<bound, tracking, open, serve, handler, body, conn, history>>

\* It answers 202, which reaches the extension unless the connection is closed,
\* breaks, or the extension has given up waiting.
Reply(h) ==
    /\ handler[h] = "queueing" /\ left[h] = {} /\ pc[h] = "idle"
    /\ \/ conn[h] /\ acked' = acked \union body[h]
       \/ UNCHANGED acked
    /\ Finish(h)
    /\ UNCHANGED <<vars, bound, tracking, open, serve, mishaps>>
-----------------------------------------------------------------------------
(* Going down.                                                             *)

\* SIGINT or SIGTERM.
Interrupt == Cancel /\ UNCHANGED daemonVars

\* Mutant: the failure is noted but ctx is not cancelled.
AcceptErrorKeepsRunning ==
    /\ serve = "serving" /\ phase = "running"
    /\ serve' = "returned"
    /\ mishaps' = mishaps \union {"accept"}
    /\ UNCHANGED <<vars, bound, tracking, open, Requests, acked>>

\* Accept fails for good: Serve returns at once and its goroutine cancels ctx.
AcceptError ==
    /\ serve = "serving"
    /\ Cancel
    /\ serve' = "returned"
    /\ mishaps' = mishaps \union {"accept"}
    /\ UNCHANGED <<bound, tracking, open, Requests, acked>>

\* ctx is done: http.Server.Shutdown closes the listener and waits.
ServeShutdown ==
    /\ phase = "draining" /\ serve = "serving"
    /\ serve' = "draining"
    /\ UNCHANGED <<vars, bound, tracking, open, Requests, history>>

\* Mutant: Serve returns as soon as http.Server.Serve does.
ServeDrainedAtOnce ==
    /\ serve = "draining"
    /\ serve' = "returned"
    /\ UNCHANGED <<vars, bound, tracking, open, Requests, history>>

\* Every handler has finished.
ServeDrained ==
    /\ serve = "draining"
    /\ \A h \in Handlers : handler[h] = "idle"
    /\ serve' = "returned"
    /\ UNCHANGED <<vars, bound, tracking, open, Requests, history>>

\* The grace period is over: the connections are closed under the handlers.
GraceOver ==
    /\ serve = "draining"
    /\ \E h \in Handlers : handler[h] # "idle"
    /\ serve' = "returned"
    /\ conn' = [h \in Handlers |-> FALSE]
    /\ mishaps' = mishaps \union {"grace"}
    /\ UNCHANGED <<vars, bound, tracking, open, handler, body, left, acked>>

\* Mutant: run() does not wait for the listener's goroutine.
ShutdownReporterEarly ==
    /\ ~tracking
    /\ BeginShutdown
    /\ UNCHANGED daemonVars

\* Tracker.Run and wg.Wait have returned; Reporter.Shutdown.
ShutdownReporter ==
    /\ ~tracking /\ serve = "returned"
    /\ BeginShutdown
    /\ UNCHANGED daemonVars

\* The process ends and takes its requests with it.
Vanish ==
    /\ bound' = FALSE /\ tracking' = FALSE /\ open' = {} /\ serve' = "off"
    /\ handler' = [h \in Handlers |-> "idle"]
    /\ body' = [h \in Handlers |-> {}] /\ left' = [h \in Handlers |-> {}]
    /\ conn' = [h \in Handlers |-> FALSE]
    /\ UNCHANGED history

End == (Exit \/ Kill) /\ Vanish
-----------------------------------------------------------------------------
\* Steps of the Reporter that involve no other part of the daemon.
FlushStep == (Flush \/ CheckRemaining \/ WriteTemp \/ Rename) /\ UNCHANGED daemonVars
SignalStep(p) == Signal(p) /\ UNCHANGED daemonVars
OtherStep == (LateCommit \/ SaveFails) /\ UNCHANGED daemonVars

Handle(h) == Reject(h) \/ Decode(h) \/ HandlerEnqueues(h) \/ Reply(h)

DaemonNext ==
    \/ Bind \/ BindFails \/ GoLive
    \/ TrackerOpens \/ TrackerCloses \/ TrackerReturns
    \/ \E h \in Handlers : Request(h) \/ Handle(h)
    \/ Interrupt \/ AcceptError \/ ServeShutdown \/ ServeDrained \/ GraceOver
    \/ ShutdownReporter \/ End
    \/ FlushStep \/ OtherStep \/ \E p \in Producers : SignalStep(p)

DaemonSpec == DaemonInit /\ [][DaemonNext]_allVars

\* A stopping daemon: timeouts end a flush and the grace period, the tracker's
\* select takes ctx.Done() sooner or later.  Handlers are not fair: a client may
\* stall its body for ever.
DaemonFairness ==
    /\ WF_allVars(FlushStep) /\ \A p \in Producers : WF_allVars(SignalStep(p))
    /\ WF_allVars(TrackerCloses) /\ SF_allVars(TrackerReturns)
    /\ WF_allVars(ServeShutdown \/ ServeDrained \/ GraceOver)
    /\ WF_allVars(ShutdownReporter \/ (Exit /\ Vanish))

DaemonFairSpec == DaemonSpec /\ DaemonFairness
-----------------------------------------------------------------------------
(* Properties.                                                             *)

\* A record its producer has parted with survives an orderly stop and start,
\* even when handlers outlast the grace period: the tracker parts with a segment
\* when it enqueues it, the extension when it sees the 202.  It then waits in the
\* daemon or in pending.json until the server has dealt with it.
Survive(S) == S \subseteq Held \union Settled
AckedSurvive ==
    faults = {} /\ "accept" \notin mishaps => Survive(acked \union (accepted \ Replayed))

\* While handlers end within the grace period, run() uses the Reporter the way
\* its specification assumes: nobody enqueues, or is about to signal, once
\* Reporter.Shutdown has begun, and the tracker hands each segment over once.
KeepsReporterContract == Init /\ [][mishaps' = {} => Next]_vars

\* A daemon told to stop, or whose listener failed, ends: run() waits for no
\* handler, flush or signal for ever, however a client behaves.
ShutdownCompletes == (phase = "draining" \/ serve = "returned") ~> phase = "down"

\* extension.go, lines 183 to 189: Serve "does not return until every in-flight
\* handler has finished", because otherwise records "would live only in memory
\* and vanish with the process".  So a record the extension saw a 202 for, and
\* forgot, is never lost without a fault, whatever made Serve return.
ServeWaits == faults = {} => Survive(acked)
-----------------------------------------------------------------------------
(* The inductive invariant the proofs use.                                 *)

\* What run() has going in each phase of the Reporter.
LifeInv ==
    /\ mishaps \subseteq {"accept", "grace"}
    /\ tracking \in BOOLEAN /\ serve \in {"off", "serving", "draining", "returned"}
    /\ serve = "off" <=> phase = "down"
    /\ serve = "serving" => phase \in {"running", "draining"}
    /\ serve = "draining" => phase = "draining"
    /\ tracking => phase \in {"running", "draining"}
    /\ ~tracking => open = {} /\ pc[Tracker] = "idle"
    /\ open = {} \/ \E s \in Native \ accepted : open = {s}

\* Where a request can be; nothing is answered once its connection is closed.
HandlerInv(h) ==
    /\ handler[h] # "queueing" => pc[h] = "idle"
    /\ handler[h] = "idle" => left[h] = {} /\ ~conn[h]
    /\ handler[h] = "reading" => left[h] = body[h]
    /\ phase = "down" => handler[h] = "idle"
    /\ serve = "returned" /\ "accept" \notin mishaps => ~conn[h]
    /\ serve = "returned" /\ mishaps = {} => handler[h] = "idle"
    /\ faults = {} => Survive(body[h] \ left[h])

RequestInv ==
    /\ handler \in [Handlers -> {"idle", "reading", "queueing"}]
    /\ body \in [Handlers -> SUBSET Replayed] /\ left \in [Handlers -> SUBSET Replayed]
    /\ conn \in [Handlers -> BOOLEAN]
    /\ \A h \in Handlers : HandlerInv(h)

\* Nothing is about to be enqueued that was not counted when it arrived.
BoundInv == open # {} \/ (\E h \in Handlers : left[h] # {}) => Waiting <= MaxHeld

\* What must not be lost, and where it is once Shutdown has saved it.
Owed == acked \union (accepted \ Replayed)
OwedInv ==
    faults = {} /\ "accept" \notin mishaps =>
        /\ Survive(Owed)
        /\ phase = "rename" => Owed \subseteq Segs(tmp) \union Settled
        /\ phase = "done" => Owed \subseteq Segs(pending) \union Settled

\* A run without mishaps keeps the whole invariant of the Reporter.
DaemonInv ==
    /\ LooseInv /\ (mishaps = {} => IInv)
    /\ LifeInv /\ RequestInv /\ BoundInv /\ OwedInv
=============================================================================
