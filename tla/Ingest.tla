------------------------------- MODULE Ingest -------------------------------
(***************************************************************************)
(* What POST /api/v1/activity does to the activity_records table: the      *)
(* identity a record travels under, the rows the handler turns away, and   *)
(* the insertion that leaves a known identity alone.                       *)
(*                                                                         *)
(* A segment is one stretch of activity closed by a producer (the native   *)
(* tracker or a browser extension).  A record is a segment travelling      *)
(* under an identity; how the identity text is made does not matter to the *)
(* table, only which records share it:                                     *)
(*   "minted"   the UUID identity.New gave the segment when it was closed, *)
(*   "derived"  the UUID identity.Derive computes from the content,        *)
(*   "missing"  no usable identity.                                        *)
(* UUID collisions are left out, so a segment and the kind of its identity *)
(* name the identity, and a record with an identity IS its unique key.     *)
(***************************************************************************)
CONSTANTS
    Segments,       \* the segments producers close
    Unidentified,   \* those whose producer gives them no usable record id
    Backwards       \* those that do not start before they end

ASSUME IngestAssumption ==
    /\ Unidentified \subseteq Segments
    /\ Backwards \subseteq Segments

IdKind == {"minted", "derived", "missing"}

Record == [seg : Segments, id : IdKind]

\* A record the queue may hold: ensureIdentity has seen it.
Identified == {r \in Record : r.id # "missing"}

\* The record as its producer hands it over.
Raw(s) == [seg |-> s, id |-> IF s \in Unidentified THEN "missing" ELSE "minted"]

\* identity.Valid on the record id.
Valid(r) == r.id # "missing"

\* Record.ensureIdentity: a valid id is kept, any other is derived from content.
ensureIdentity(r) == IF Valid(r) THEN r ELSE [r EXCEPT !.id = "derived"]

SegsOf(recs) == {r.seg : r \in recs}

\* Mutant: the handler no longer checks that started_at is before ended_at.
RejectedUnordered(recs) == {r \in recs : ~Valid(r)}

\* The rows of a request the handler turns away yet acknowledges.
Rejected(recs) == {r \in recs : ~Valid(r) \/ r.seg \in Backwards}

\* InsertActivityRecords: a row whose (device_id, record_id) is present is left
\* as it is, every other row is added, and all of them in one transaction.
Insert(rows, recs) == rows \union (recs \ Rejected(recs))
=============================================================================
