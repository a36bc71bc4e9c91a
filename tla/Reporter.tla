------------------------------ MODULE Reporter ------------------------------
(***************************************************************************)
(* The daemon's Reporter (internal/tracker/reporter.go) between the        *)
(* producers that enqueue records and the server that stores them: the     *)
(* in-memory queue, the one batch in flight, pending.json, and the life of *)
(* the process around them (cmd/trackkrd/main.go).                         *)
(*                                                                         *)
(* The queue's mutex makes each of Enqueue's append, flush's copy-and-     *)
(* empty and requeue one step.  Everything between those steps interleaves *)
(* here: an append and its wake-up signal, a POST and what the server does *)
(* with it, the reply and the client's giving up.                          *)
(***************************************************************************)
EXTENDS Ingest, Naturals, Sequences, FiniteSets

CONSTANTS
    Producers,   \* goroutines that call Enqueue
    Replayed,    \* segments an extension may hand over more than once
    OldPending,  \* segments in the pending.json an earlier build left
    FlushSize,   \* Config.FlushSize
    MaxHeld,     \* bound: producers pause while this many records wait
    MaxOrphans   \* bound: abandoned requests the server may still execute

ASSUME ReporterAssumption ==
    /\ Replayed \subseteq Segments
    /\ OldPending \in Seq(Segments)
    /\ FlushSize \in Nat \ {0}
    /\ MaxHeld \in Nat
    /\ MaxOrphans \in Nat

VARIABLES
    phase,     \* where the process is in run(), "down" when there is none
    queue,     \* Reporter.queue
    batch,     \* the batch flush copied out of the queue
    flusher,   \* where the goroutine that flushes is
    signal,    \* whether flushCh (capacity one) holds a wake-up
    pc,        \* "signal": this producer has appended and will now signal
    pending,   \* contents of pending.json; <<>> when it is absent
    tmp,       \* contents of pending.json.tmp
    rows,      \* the server's activity_records
    orphans,   \* requests the client gave up on that may still be executed
    accepted,  \* history: segments handed to Enqueue or found on disk
    discarded, \* history: segments the server turned away with a 201
    faults,    \* history: the faults that have happened
    due        \* history: an Enqueue filled the queue since it was last taken

volatile == <<queue, batch, flusher, signal, pc, tmp, due>>
server == <<rows, orphans, discarded>>
vars == <<phase, volatile, pending, server, accepted, faults>>

Phase == {"down", "running", "draining", "final", "save", "rename", "done"}
Flusher == {"select", "flush", "sent", "committed", "refused"}
Fault == {"kill", "read", "write"}

Recs(q) == {q[i] : i \in DOMAIN q}
Segs(q) == {q[i].seg : i \in DOMAIN q}

\* Mutant: a loaded record without an identity gets a fresh one.
IdentifyFresh(q) == [i \in DOMAIN q |-> [q[i] EXCEPT !.id = "minted"]]

\* Mutant: the file's records are taken as they are.
IdentifyNothing(q) == q

\* loadPending gives every record an identity before it joins the queue.
Identify(q) == [i \in DOMAIN q |-> ensureIdentity(q[i])]
-----------------------------------------------------------------------------
(* The daemon starts.                                                      *)

Init ==
    /\ phase = "down"
    /\ queue = <<>> /\ batch = <<>> /\ tmp = <<>>
    /\ flusher = "select"
    /\ signal = FALSE /\ due = FALSE
    /\ pc = [p \in Producers |-> "idle"]
    /\ pending = [i \in DOMAIN OldPending |-> Raw(OldPending[i])]
    /\ rows = {} /\ orphans = {} /\ discarded = {}
    /\ accepted = Segs(pending)
    /\ faults = {}

\* NewReporter and loadPending: the file's records go to the front of the
\* queue and the file is removed; a failing os.Remove is ignored.
Start ==
    /\ phase = "down"
    /\ phase' = "running"
    /\ queue' = Identify(pending) \o queue
    /\ \/ pending' = <<>>
       \/ UNCHANGED pending
    /\ UNCHANGED <<batch, flusher, signal, pc, tmp, due, server, accepted, faults>>

\* loadPending cannot read or parse the file: it stays and the queue is empty.
StartUnread ==
    /\ phase = "down"
    /\ pending # <<>>
    /\ phase' = "running"
    /\ faults' = faults \union {"read"}
    /\ UNCHANGED <<volatile, pending, server, accepted>>
-----------------------------------------------------------------------------
(* Producers.                                                              *)

\* Enqueue up to the unlock: append, and decide whether to signal.
Enqueue(p, s) ==
    /\ pc[p] = "idle"
    /\ queue' = Append(queue, ensureIdentity(Raw(s)))
    /\ accepted' = accepted \union {s}
    /\ IF Len(queue') >= FlushSize
         THEN pc' = [pc EXCEPT ![p] = "signal"] /\ due' = TRUE
         ELSE UNCHANGED <<pc, due>>
    /\ UNCHANGED <<phase, batch, flusher, signal, pending, tmp, server, faults>>

\* Enqueue after the unlock: a send that never blocks on a full flushCh.
Signal(p) ==
    /\ pc[p] = "signal"
    /\ pc' = [pc EXCEPT ![p] = "idle"]
    /\ signal' = TRUE
    /\ UNCHANGED <<phase, queue, batch, flusher, pending, tmp, server, accepted, faults, due>>
-----------------------------------------------------------------------------
(* The flush loop.                                                         *)

\* Run's select takes the ticker or a wake-up.
Wake ==
    /\ phase = "running"
    /\ flusher = "select"
    /\ flusher' = "flush"
    /\ \/ UNCHANGED signal           \* <-ticker.C
       \/ signal /\ signal' = FALSE  \* <-r.flushCh
    /\ UNCHANGED <<phase, queue, batch, pc, pending, tmp, server, accepted, faults, due>>

\* flush copies the queue out, empties it and POSTs the copy.
TakeBatch ==
    /\ phase \in {"running", "final"}
    /\ flusher = "flush"
    /\ queue # <<>>
    /\ batch' = queue
    /\ queue' = <<>>
    /\ flusher' = "sent"
    /\ due' = FALSE
    /\ UNCHANGED <<phase, signal, pc, pending, tmp, server, accepted, faults>>

\* flush finds nothing to send, or ctx is dead before anything was sent.
SkipFlush ==
    /\ flusher = "flush"
    /\ queue = <<>> \/ phase = "draining"
    /\ flusher' = "select"
    /\ UNCHANGED <<phase, queue, batch, signal, pc, pending, tmp, server, accepted, faults, due>>

\* Mutant: one backwards record makes the handler refuse the whole request.
ServerCommitAllOrNothing ==
    /\ flusher = "sent"
    /\ Rejected(Recs(batch)) = {}
    /\ rows' = Insert(rows, Recs(batch))
    /\ flusher' = "committed"
    /\ UNCHANGED <<phase, queue, batch, signal, pc, pending, tmp, orphans, discarded,
                   accepted, faults, due>>

\* HandleIngestActivity runs to the end and a 201 is on its way.
ServerCommit ==
    /\ flusher = "sent"
    /\ rows' = Insert(rows, Recs(batch))
    /\ discarded' = discarded \union SegsOf(Rejected(Recs(batch)))
    /\ flusher' = "committed"
    /\ UNCHANGED <<phase, queue, batch, signal, pc, pending, tmp, orphans, accepted, faults, due>>

\* Any other status: bad key, database error, a proxy's 5xx.  Nothing is stored.
ServerRefuse ==
    /\ flusher = "sent"
    /\ flusher' = "refused"
    /\ UNCHANGED <<phase, queue, batch, signal, pc, pending, tmp, server, accepted, faults, due>>

\* Mutant: a successful flush empties flushCh as well.
ClientAckDrains ==
    /\ flusher = "committed"
    /\ batch' = <<>>
    /\ flusher' = "select"
    /\ signal' = FALSE
    /\ UNCHANGED <<phase, queue, pc, pending, tmp, server, accepted, faults, due>>

\* The 201 arrives and flush forgets the batch.
ClientAck ==
    /\ flusher = "committed"
    /\ batch' = <<>>
    /\ flusher' = "select"
    /\ UNCHANGED <<phase, queue, signal, pc, pending, tmp, server, accepted, faults, due>>

\* A request nobody waits for any more either never reached the server or is
\* still to be executed there.
Abandon ==
    \/ UNCHANGED orphans
    \/ /\ Cardinality(orphans) < MaxOrphans
       /\ orphans' = orphans \union {Recs(batch)}

\* Mutant: requeue puts the batch behind newer records.
ClientFailBehind ==
    /\ flusher \in {"sent", "committed", "refused"}
    /\ queue' = queue \o batch
    /\ batch' = <<>>
    /\ flusher' = "select"
    /\ IF flusher = "sent" THEN Abandon ELSE UNCHANGED orphans
    /\ UNCHANGED <<phase, signal, pc, pending, tmp, rows, discarded, accepted, faults, due>>

\* An error, a timeout, a cancelled ctx or a status other than 201: requeue.
ClientFail ==
    /\ flusher \in {"sent", "committed", "refused"}
    /\ queue' = batch \o queue
    /\ batch' = <<>>
    /\ flusher' = "select"
    /\ IF flusher = "sent" THEN Abandon ELSE UNCHANGED orphans
    /\ UNCHANGED <<phase, signal, pc, pending, tmp, rows, discarded, accepted, faults, due>>

\* The server executes a request its client has given up on, or drops it.
LateCommit ==
    \E o \in orphans :
        /\ orphans' = orphans \ {o}
        /\ \/ /\ rows' = Insert(rows, o)
              /\ discarded' = discarded \union SegsOf(Rejected(o))
           \/ UNCHANGED <<rows, discarded>>
        /\ UNCHANGED <<phase, volatile, pending, accepted, faults>>
-----------------------------------------------------------------------------
(* The daemon stops.                                                       *)

\* ctx is cancelled: a signal, or the listener failed.
Cancel ==
    /\ phase = "running"
    /\ phase' = "draining"
    /\ UNCHANGED <<volatile, pending, server, accepted, faults>>

\* Mutant: run() does not wait for the flush loop before Shutdown.
BeginShutdownEarly ==
    /\ phase = "draining"
    /\ phase' = "final"
    /\ flusher' = "flush"
    /\ UNCHANGED <<queue, batch, signal, pc, pending, tmp, server, accepted, faults, due>>

\* wg.Wait has returned, so the loop is over; Shutdown's own flush begins.
BeginShutdown ==
    /\ phase = "draining"
    /\ flusher = "select"
    /\ phase' = "final"
    /\ flusher' = "flush"
    /\ UNCHANGED <<queue, batch, signal, pc, pending, tmp, server, accepted, faults, due>>

\* Shutdown looks at what its flush left.
CheckRemaining ==
    /\ phase = "final"
    /\ flusher = "select"
    /\ phase' = IF queue = <<>> THEN "done" ELSE "save"
    /\ UNCHANGED <<volatile, pending, server, accepted, faults>>

\* savePending writes the queue to the temporary file ...
WriteTemp ==
    /\ phase = "save"
    /\ tmp' = queue
    /\ phase' = "rename"
    /\ UNCHANGED <<queue, batch, flusher, signal, pc, pending, server, accepted, faults, due>>

\* ... and renames it over pending.json.
Rename ==
    /\ phase = "rename"
    /\ pending' = tmp
    /\ tmp' = <<>>
    /\ phase' = "done"
    /\ UNCHANGED <<queue, batch, flusher, signal, pc, server, accepted, faults, due>>

\* MkdirAll, WriteFile or Rename fails; Shutdown returns the error.
SaveFails ==
    /\ phase \in {"save", "rename"}
    /\ phase' = "done"
    /\ faults' = faults \union {"write"}
    /\ UNCHANGED <<volatile, pending, server, accepted>>

\* Whatever only memory held is gone with the process.
Forget ==
    /\ phase' = "down"
    /\ queue' = <<>> /\ batch' = <<>> /\ tmp' = <<>>
    /\ flusher' = "select"
    /\ signal' = FALSE /\ due' = FALSE
    /\ pc' = [p \in Producers |-> "idle"]
    /\ UNCHANGED <<pending, rows, discarded, accepted>>

\* run returns.
Exit ==
    /\ phase = "done"
    /\ Forget
    /\ UNCHANGED <<orphans, faults>>

\* The process is killed, or the machine loses power.
Kill ==
    /\ phase # "down"
    /\ Forget
    /\ IF flusher = "sent" THEN Abandon ELSE UNCHANGED orphans
    /\ faults' = faults \union {"kill"}
-----------------------------------------------------------------------------
\* Producers are goroutines run() waits for before Shutdown: they call Enqueue
\* while the daemon runs or drains, and are done when Shutdown begins.  Daemon
\* checks that run() keeps that promise.  The tracker hands a segment over once;
\* an extension repeats one whose 202 it did not see.
Working == phase \in {"running", "draining"}
ProducersDone == \A p \in Producers : pc[p] = "idle"

Produce(p) ==
    \/ /\ Working
       /\ Len(queue) + Len(batch) < MaxHeld
       /\ \E s \in (Segments \ Backwards) \ (accepted \ Replayed) : Enqueue(p, s)
    \/ Signal(p)

Flush ==
    \/ Wake \/ TakeBatch \/ SkipFlush
    \/ ServerCommit \/ ServerRefuse \/ ClientAck \/ ClientFail

Stop ==
    \/ ProducersDone /\ BeginShutdown
    \/ CheckRemaining \/ WriteTemp \/ Rename \/ Exit

Next ==
    \/ Start \/ StartUnread
    \/ \E p \in Producers : Produce(p)
    \/ Flush \/ LateCommit
    \/ Cancel \/ Stop
    \/ SaveFails \/ Kill

Spec == Init /\ [][Next]_vars

\* The loop's ticker keeps firing, every wait in flush has a timeout, a stopping
\* daemon runs to its end and is started again.  The server is assumed to answer
\* now and then: it may refuse or time out any number of times, not for ever.
Fairness ==
    /\ WF_vars(Start)
    /\ WF_vars(Wake) /\ WF_vars(TakeBatch) /\ WF_vars(SkipFlush)
    /\ WF_vars(ClientAck \/ ClientFail)
    /\ SF_vars(ServerCommit)
    /\ WF_vars(Stop) /\ \A p \in Producers : WF_vars(Signal(p))

FairSpec == Spec /\ Fairness
-----------------------------------------------------------------------------
(* Properties.                                                             *)

\* Every variable has its type.  Only pending.json, which an earlier build may have
\* written, holds records without an identity: whatever a reload, a requeue or a
\* retry puts into the queue can be told from every other record.
TypeOK ==
    /\ phase \in Phase
    /\ queue \in Seq(Identified) /\ batch \in Seq(Identified)
    /\ pending \in Seq(Record) /\ tmp \in Seq(Identified)
    /\ flusher \in Flusher
    /\ signal \in BOOLEAN /\ due \in BOOLEAN
    /\ pc \in [Producers -> {"idle", "signal"}]
    /\ rows \subseteq Identified
    /\ orphans \subseteq SUBSET Identified
    /\ accepted \subseteq Segments /\ discarded \subseteq Segments
    /\ faults \subseteq Fault

\* Segments some copy of which is still on its way to the server.
Held == Segs(queue) \union Segs(batch) \union Segs(pending)

\* Segments the server has dealt with: stored, or turned away for good.
Settled == SegsOf(rows) \union discarded

\* No segment that was enqueued or found on disk disappears: while no process
\* was killed and no file operation failed, it is queued, in flight, in
\* pending.json or dealt with by the server -- across requeues, lost replies,
\* clean restarts and a pending.json that could not be removed.
NoLoss == faults = {} => accepted \subseteq Held \union Settled

\* A segment has at most one row however often it is sent: a lost reply, a
\* request executed after its client gave up, a reloaded pending.json and a
\* queue written before record ids existed all land on the same identity.
StoredOnce == \A r1, r2 \in rows : r1.seg = r2.seg => r1 = r2

\* An Enqueue that filled the queue to FlushSize is never slept through: a
\* wake-up is on its way, in flushCh, or already taken, until the queue is.
NoLostWakeup ==
    phase = "running" /\ due =>
        signal \/ flusher = "flush" \/ \E p \in Producers : pc[p] = "signal"

\* Records waiting in a live daemon keep their order: the line of the batch in
\* flight and the queue behind it only grows at its end, and only loses, from
\* its front, exactly the batch the server acknowledged.
Line == batch \o queue
LineMoves ==
    \/ Line' = Line
    \/ \E r \in Identified : Line' = Append(Line, r)
    \/ flusher = "committed" /\ Line' = queue
FIFO == [][phase # "down" /\ phase' # "down" => LineMoves]_vars

\* What the Reporter promises its producers, without queues and files: how far
\* each segment has come follows the Delivery specification.  In particular a
\* stored segment stays stored, only a backwards one is discarded, and losing a
\* segment takes a fault.
StageOf(s) ==
    IF s \in SegsOf(rows) THEN "stored"
    ELSE IF s \in discarded THEN "discarded"
    ELSE IF s \in Held THEN "held"
    ELSE IF s \in accepted THEN "lost" ELSE "new"

Promise == INSTANCE Delivery
    WITH life <- [s \in Segments |-> StageOf(s)], faulty <- faults # {}

ImplementsDelivery == Promise!Spec

\* Every segment handed over is eventually dealt with unless a fault loses it:
\* a refused, timed-out or half-lost request is retried for as long as it takes,
\* and a permanently invalid record cannot keep the rest of its batch waiting.
EventuallySettled ==
    \A s \in Segments : s \in accepted ~> (s \in Settled \/ faults # {})

\* docs/plan.md, line 266: the queue is persisted "so records survive daemon
\* restarts".  While no file operation fails, what pending.json held at the
\* outset is still on its way or dealt with, even after a kill and a restart.
PersistedSurvive ==
    faults \subseteq {"kill"} =>
        {OldPending[i] : i \in DOMAIN OldPending} \subseteq Held \union Settled
-----------------------------------------------------------------------------
(* The inductive invariant the proofs use; its parts are also checked.     *)

\* The record a segment travels as once it has passed ensureIdentity.
Canonical == {ensureIdentity(Raw(s)) : s \in Segments}

\* What pending.json may hold: an earlier build wrote records as handed over.
FileRecord == Canonical \union {Raw(s) : s \in Segments}

\* Everything past ensureIdentity is canonical, so the identity of a segment is
\* the same on every path.
CanonicalInv ==
    /\ queue \in Seq(Canonical) /\ batch \in Seq(Canonical) /\ tmp \in Seq(Canonical)
    /\ rows \subseteq Canonical
    /\ \A o \in orphans : o \subseteq Canonical
    /\ pending \in Seq(FileRecord)

\* Where records can be, by the phase of the process and of its flush.
ShapeInv ==
    /\ phase = "down" => queue = <<>> /\ batch = <<>> /\ flusher = "select"
    /\ flusher \in {"select", "flush"} => batch = <<>>
    /\ phase \in {"save", "rename", "done"} => flusher = "select"
    /\ phase = "rename" => Segs(tmp) \subseteq Segs(queue)
    /\ flusher = "committed" => Segs(batch) \subseteq Settled

\* A pending.json that could not be removed repeats what was loaded from it.
FileInv ==
    phase # "down" /\ faults = {} =>
        Segs(pending) \subseteq Segs(queue) \union Segs(batch) \union Settled

\* Nothing is on its way or settled that nobody handed over.
AcceptedInv ==
    /\ Held \union Settled \subseteq accepted
    /\ \A o \in orphans : SegsOf(o) \subseteq accepted
    /\ SegsOf(rows) \intersect Backwards = {}
    /\ discarded \subseteq Backwards

\* What holds even of a Reporter whose producers do not stop before Shutdown.
LooseInv == TypeOK /\ CanonicalInv /\ ShapeInv /\ FileInv /\ AcceptedInv

\* Shutdown saves all that is left, because nobody adds to it any more.
SavedInv ==
    /\ phase = "rename" => Segs(queue) \subseteq Segs(tmp)
    /\ phase = "done" /\ faults = {} => Segs(queue) \subseteq Segs(pending)

IInv == LooseInv /\ SavedInv /\ NoLoss

\* A queue that is due is not empty, so a flush that was woken does take it.
WakeInv ==
    /\ NoLostWakeup
    /\ due => queue # <<>> /\ phase # "down"
=============================================================================
