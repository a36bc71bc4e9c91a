------------------------------ MODULE Delivery ------------------------------
(***************************************************************************)
(* What the path from a producer to the server promises for each segment,  *)
(* without queues, batches, files or requests: a segment handed over is    *)
(* held until the server has dealt with it, storing is final, only a       *)
(* backwards segment is discarded, and only a fault can lose one.          *)
(***************************************************************************)
CONSTANTS Segments, Backwards

VARIABLES
    life,    \* how far each segment has come
    faulty   \* whether a process was killed or a file operation failed

vars == <<life, faulty>>

Stage == {"new", "held", "stored", "discarded", "lost"}

TypeOK == life \in [Segments -> Stage] /\ faulty \in BOOLEAN

\* An earlier build may have left segments behind.
Init ==
    /\ life \in [Segments -> {"new", "held"}]
    /\ faulty = FALSE

\* A producer hands a segment over, again if it was lost.
Accept(s) ==
    /\ life[s] \in {"new", "lost"}
    /\ life' = [life EXCEPT ![s] = "held"]
    /\ UNCHANGED faulty

\* The server deals with a batch; a straggling copy of a lost segment counts.
Settle(S) ==
    /\ \A s \in S : life[s] \in {"held", "lost"}
    /\ life' = [s \in Segments |->
                  IF s \notin S THEN life[s]
                  ELSE IF s \in Backwards THEN "discarded" ELSE "stored"]
    /\ UNCHANGED faulty

\* A fault, or its late consequence.
Lose(S) ==
    /\ \A s \in S : life[s] = "held"
    /\ life' = [s \in Segments |-> IF s \in S THEN "lost" ELSE life[s]]
    /\ faulty' = TRUE

Next ==
    \/ \E s \in Segments : Accept(s)
    \/ \E S \in SUBSET Segments : Settle(S) \/ Lose(S)

Spec == Init /\ [][Next]_vars
=============================================================================
