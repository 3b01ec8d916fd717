---------------------------- MODULE CanonicalStore ----------------------------
(***************************************************************************)
(* What the capture pipeline and the deletion workflow use of              *)
(* CanonicalSqliteStore: the raw events, one per deduplication key, the    *)
(* parser errors, the deletion operations and the reset cutoff.  Each      *)
(* operation is one SQLite transaction under BEGIN IMMEDIATE, so it is one *)
(* step; one that throws leaves the database as it was.                    *)
(***************************************************************************)
EXTENDS CaptureIdentities

CONSTANTS
    Kind,       \* per key, how ingestion classifies its event
    Target,     \* per deletion, the identities its target stands for
    NoEvent     \* no row for a key

Kinds == {"supported", "unsupported", "invalid"}

ASSUME KindAssumption == Kind \in [Keys -> Kinds]
ASSUME TargetAssumption == Target \in [Deletions -> SUBSET Keys]
ASSUME NoEventAssumption == NoEvent \notin Kinds

VARIABLES
    raw,        \* parse_status of the raw event of a key, or NoEvent
    rejected,   \* keys with a parser error for an invalid identity
    operation,  \* status of each deletion operation
    expired     \* keys whose event is at or before the store's reset cutoff

storeVars == <<raw, rejected, operation, expired>>

OperationStatuses == {"none", "running", "failed", "completing", "completed"}

StoreInit ==
    /\ raw = [k \in Keys |-> NoEvent]
    /\ rejected = {}
    /\ operation = [d \in Deletions |-> "none"]
    /\ expired = {}

StoreTypeOK ==
    /\ raw \in [Keys -> {"supported", "unsupported", NoEvent}]
    /\ rejected \in SUBSET Keys
    /\ operation \in [Deletions -> OperationStatuses]
    /\ expired \in SUBSET Keys

\* hasActiveDeletion: a failed operation still counts, it is to be resumed.
ActiveDeletion ==
    \E d \in Deletions : operation[d] \in {"running", "failed", "completing"}

\* The tombstones: only completed operations contribute their identities.
Tombstoned(k) == \E d \in Deletions : operation[d] = "completed" /\ k \in Target[d]

\* Why an event is a duplicate to the store without having been recorded.
Dropped(k) == k \in expired \/ Tombstoned(k)

\* ingestQueueItem throws, before or inside its transaction.
IngestBlocked(k) == k \notin expired /\ ActiveDeletion

\* What a completed ingestion reports, and the row it leaves.
IngestResult(k) ==
    IF Dropped(k) THEN "duplicate"
    ELSE IF Kind[k] = "invalid" THEN "rejected"
    ELSE IF raw[k] = "supported" THEN "duplicate"
    ELSE IF Kind[k] = "supported" /\ raw[k] = NoEvent THEN "stored"
    ELSE "unsupported"

\* #recordRejected leaves a parser error for an invalid identity.
Rejection(k) == IF Dropped(k) \/ Kind[k] # "invalid" THEN {} ELSE {k}

Ingest(k) ==
    /\ ~ IngestBlocked(k)
    /\ raw' = IF Dropped(k) \/ Kind[k] = "invalid" \/ raw[k] # NoEvent THEN raw
              ELSE [raw EXCEPT ![k] = Kind[k]]
    /\ rejected' = rejected \cup Rejection(k)
    /\ UNCHANGED <<operation, expired>>
-------------------------------------------------------------------------------
(* Deletion operations.  The store knows a target by its digest, so a second *)
(* request for a target, under whatever id, finds the operation there is.    *)

InStatus(S) == {d \in Deletions : operation[d] \in S}
SameTarget(d) == {o \in Deletions : Target[o] = Target[d]}
Unfinished == InStatus({"running", "failed", "completing"})

SetStatus(d, status) ==
    /\ operation' = [operation EXCEPT ![d] = status]
    /\ UNCHANGED <<raw, rejected, expired>>

\* Mutant: a failed operation is not resumed.
BeginDeletionAnew(d, r) ==
    LET active == InStatus({"running", "completing"})
        done == InStatus({"completed"}) \cap SameTarget(d)
    IN  \/ /\ r \in active \cap SameTarget(d)
           /\ UNCHANGED storeVars
        \/ /\ active = {}
           /\ r \in done
           /\ UNCHANGED storeVars
        \/ /\ active = {} /\ done = {}
           /\ r = d /\ operation[d] = "none"
           /\ SetStatus(r, "running")

\* beginDeletion(target of d, d) returns operation r: the active one, the
\* completed one, the failed one, resumed, or else a new one under the id d.
BeginDeletion(d, r) ==
    LET active == InStatus({"running", "completing"})
        done == InStatus({"completed"}) \cap SameTarget(d)
        failed == InStatus({"failed"})
    IN  \/ /\ r \in active \cap SameTarget(d)
           /\ UNCHANGED storeVars
        \/ /\ active = {}
           /\ r \in done
           /\ UNCHANGED storeVars
        \/ /\ active = {} /\ done = {}
           /\ r \in failed \cap SameTarget(d)
           /\ SetStatus(r, "running")
        \/ /\ active = {} /\ done = {} /\ failed = {}
           /\ r = d /\ operation[d] = "none"
           /\ SetStatus(r, "running")

\* It throws when an operation on another target is active, or has failed and
\* is to be resumed first.
BeginDeletionThrows(d) ==
    LET active == InStatus({"running", "completing"})
    IN  /\ Unfinished # {} /\ Unfinished \cap SameTarget(d) = {}
        /\ active = {} => InStatus({"completed"}) \cap SameTarget(d) = {}

\* The canonical rows of the target, in one transaction.
DeleteCanonicalTarget(d) ==
    /\ operation[d] = "running"
    /\ raw' = [k \in Keys |-> IF k \in Target[d] THEN NoEvent ELSE raw[k]]
    /\ rejected' = rejected \ Target[d]
    /\ UNCHANGED <<operation, expired>>

PrepareDeletionCompletion(d) ==
    operation[d] = "running" /\ SetStatus(d, "completing")

CompleteDeletion(d) ==
    operation[d] = "completing" /\ SetStatus(d, "completed")

\* The service fails an operation only while it is running.
FailDeletion(d) ==
    IF operation[d] = "running" THEN SetStatus(d, "failed")
    ELSE UNCHANGED storeVars
===============================================================================
