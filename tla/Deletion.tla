------------------------------- MODULE Deletion -------------------------------
(***************************************************************************)
(* DeletionService.delete beside the capture pipeline.  A deletion erases  *)
(* a target from the canonical store and from the queue while producers    *)
(* and a worker run go on; the queue's barrier and the store's operation   *)
(* keep them out, and tombstones on both sides keep the target from coming *)
(* back.  Deletions hold the knowledge-projection lease and so come one at *)
(* a time; each may be cut short anywhere, by an error (which marks the    *)
(* operation failed) or by a crash (which marks nothing).                  *)
(***************************************************************************)
EXTENDS CapturePipeline

VARIABLES
    del,       \* the delete() call in progress, or None
    planned,   \* operations with plannedSourceIds: their erasure has begun
    snapshot   \* the events a worker run has read to project, or None

deletionVars == <<del, planned, snapshot>>
allVars == <<vars, deletionVars>>

\* `want` is the id delete() was called with, `op` the operation it works on;
\* `checked` calls have a preflight (capture retention) under the barrier.
DeleteSteps == {"guard", "begin", "held", "erase", "block", "sweep", "rebuild",
                "verify", "complete", "lift"}

Delete == [want : Deletions, op : Deletions \cup {None}, pc : DeleteSteps,
           checked : BOOLEAN]

Pipeline == <<used, run, dirty, projected>>
Deleting(pc) == del # None /\ del.pc = pc
Proceed(pc) == del' = [del EXCEPT !.pc = pc]
Return == del' = None
-------------------------------------------------------------------------------
(* Up to the operation *)

\* Mutant: the barrier of a call that died in its preflight is not recognised.
DeadBarrierCompleted == barrier # None /\ operation[barrier] = "completed"

\* A barrier that stands for no operation, or for one that is completed, is a
\* dead call's.
DeadBarrier == barrier # None /\ operation[barrier] \in {"none", "completed"}

StartDelete(d, checked) ==
    /\ del = None
    /\ checked => operation[d] = "none"
    /\ IF DeadBarrier THEN EndDeletionBarrier(barrier) ELSE UNCHANGED queueVars
    /\ del' = [want |-> d, op |-> None, checked |-> checked,
               pc |-> IF checked THEN "guard" ELSE "begin"]
    /\ UNCHANGED <<storeVars, pipelineVars, planned, snapshot>>

\* The preflight runs under the barrier, before there is an operation.
GuardCapture ==
    /\ Deleting("guard")
    /\ IF barrier \in {None, del.want}
       THEN BeginDeletionBarrier(del.want) /\ Proceed("begin")
       ELSE UNCHANGED queueVars /\ Return
    /\ UNCHANGED <<storeVars, pipelineVars, planned, snapshot>>

\* The barrier of a checked call that came to nothing is taken down.
Unguard == IF del.checked THEN EndDeletionBarrier(del.want) ELSE UNCHANGED queueVars

Begin(r) ==
    /\ Deleting("begin")
    /\ BeginDeletion(del.want, r)
    /\ IF r = del.want THEN UNCHANGED queueVars ELSE Unguard
    /\ del' = [del EXCEPT !.op = r, !.pc = "held"]
    /\ UNCHANGED <<pipelineVars, planned, snapshot>>

\* beginDeletion or the preflight throws.
BeginThrows ==
    /\ Deleting("begin")
    /\ \/ BeginDeletionThrows(del.want) /\ NoFault
       \/ Fault
    /\ Unguard
    /\ Return
    /\ UNCHANGED <<storeVars, Pipeline, planned, snapshot>>
-------------------------------------------------------------------------------
(* The operation, under its lease *)

\* A completed operation has only its barrier to lift; the others raise it.
RaiseBarrier ==
    /\ Deleting("held")
    /\ IF barrier \notin {None, del.op}
       THEN Return /\ FailDeletion(del.op) /\ UNCHANGED queueVars
       ELSE /\ UNCHANGED storeVars
            /\ IF operation[del.op] = "completed"
               THEN EndDeletionBarrier(del.op) /\ Return
               ELSE /\ BeginDeletionBarrier(del.op)
                    /\ Proceed(IF operation[del.op] = "completing"
                               THEN "complete" ELSE "erase")
    /\ UNCHANGED <<pipelineVars, planned, snapshot>>

\* The code brings the episodes up to date just before, to find what depends on
\* the target; `projected` stands for all projections, which wait for Rebuild.
Erase ==
    /\ Deleting("erase")
    /\ DeleteCanonicalTarget(del.op)
    /\ planned' = planned \cup {del.op}
    /\ Proceed("block")
    /\ UNCHANGED <<queueVars, pipelineVars, snapshot>>

Block ==
    /\ Deleting("block")
    /\ BlockIdentities(Target[del.op])
    /\ Proceed("sweep")
    /\ UNCHANGED <<storeVars, pipelineVars, planned, snapshot>>

\* Cut short, it has removed some of the items.
Sweep(S) ==
    /\ Deleting("sweep")
    /\ DeleteByIdentifiers(Target[del.op], S)
    /\ IF S = Matching(Target[del.op])
       THEN Proceed("rebuild") /\ UNCHANGED storeVars /\ NoFault
       ELSE Return /\ FailDeletion(del.op) /\ Fault
    /\ UNCHANGED <<Pipeline, planned, snapshot>>

\* It rebuilds the projections that name events, of the events they know.
Rebuild ==
    /\ Deleting("rebuild")
    /\ projected' = projected \cap Supported
    /\ Proceed("verify")
    /\ UNCHANGED <<queueVars, storeVars, used, run, dirty, faults, planned, snapshot>>

\* The deletion gate.
Remaining(d) == \/ Held(Target[d]) # {}
                \/ \E k \in Target[d] : raw[k] # NoEvent \/ k \in rejected

Verify ==
    /\ Deleting("verify")
    /\ IF Remaining(del.op) THEN Return /\ FailDeletion(del.op)
       ELSE Proceed("complete") /\ PrepareDeletionCompletion(del.op)
    /\ UNCHANGED <<queueVars, pipelineVars, planned, snapshot>>

Complete ==
    /\ Deleting("complete")
    /\ CompleteDeletion(del.op)
    /\ Proceed("lift")
    /\ UNCHANGED <<queueVars, pipelineVars, planned, snapshot>>

LiftBarrier ==
    /\ Deleting("lift")
    /\ EndDeletionBarrier(del.op)
    /\ Return
    /\ UNCHANGED <<storeVars, pipelineVars, planned, snapshot>>

\* A call throws: the lease, the evidence ledger, the store, the queue, the
\* transient cleanup.  The barrier stays unless the operation is completed.
DeleteFails ==
    /\ del # None /\ del.pc \notin {"guard", "begin"}
    /\ Fault
    /\ FailDeletion(del.op)
    /\ Return
    /\ UNCHANGED <<queueVars, Pipeline, planned, snapshot>>

DeleteCrashes ==
    /\ del # None
    /\ Fault
    /\ Return
    /\ UNCHANGED <<queueVars, storeVars, Pipeline, planned, snapshot>>
-------------------------------------------------------------------------------
(* The worker's projections beside a deletion: it reads the events once and  *)
(* writes what it built from them later; the write is refused while an       *)
(* operation is unfinished, and when it would bring back a deleted identity. *)

ReadEvents ==
    /\ At("project")
    /\ run.marked
    /\ snapshot = None
    /\ snapshot' = Supported
    /\ UNCHANGED <<vars, del, planned>>

\* Mutant: the tombstones are not looked at before the write.
WriteProjectionsUnchecked ==
    /\ At("project")
    /\ snapshot # None
    /\ snapshot' = None
    /\ IF ActiveDeletion THEN run' = None /\ UNCHANGED projected
       ELSE Go("unmark") /\ projected' = snapshot
    /\ UNCHANGED <<queueVars, storeVars, used, dirty, faults, del, planned>>

WriteProjections ==
    /\ At("project")
    /\ snapshot # None
    /\ snapshot' = None
    /\ IF ActiveDeletion \/ \E k \in snapshot : Tombstoned(k)
       THEN run' = None /\ UNCHANGED projected
       ELSE Go("unmark") /\ projected' = snapshot
    /\ UNCHANGED <<queueVars, storeVars, used, dirty, faults, del, planned>>

NothingToProject == At("project") /\ ~ run.marked /\ Project

RunStops == (ProjectFails \/ Crash) /\ snapshot' = None
-------------------------------------------------------------------------------
DeletionInit == Init /\ del = None /\ planned = {} /\ snapshot = None

CaptureNext ==
    \/ /\ \/ \E i \in Ids, k \in Keys : Publish(i, k) \/ PublishAgain(i, k)
          \/ \E S \in SUBSET Ids :
                (\E w \in Claimants : StartRun(w, S)) \/ Recover(S)
          \/ \E i \in Ids : ClaimNext(i)
          \/ EndBatch \/ MarkDirty \/ IngestItem \/ IngestThrows
          \/ SettleClaim \/ RetryUnsettled \/ RetryFailed
          \/ NothingToProject \/ Unmark
          \/ \E i \in Ids : TimePasses(i)
       /\ UNCHANGED deletionVars
    \/ ReadEvents \/ WriteProjections
    \/ RunStops /\ UNCHANGED <<del, planned>>

DeleteStep ==
    \/ GuardCapture
    \/ \E r \in Deletions : Begin(r)
    \/ BeginThrows
    \/ RaiseBarrier \/ Erase \/ Block
    \/ \E S \in SUBSET Ids : Sweep(S)
    \/ Rebuild \/ Verify \/ Complete \/ LiftBarrier

DeletionNext ==
    \/ CaptureNext
    \/ \E d \in Deletions, checked \in BOOLEAN : StartDelete(d, checked)
    \/ DeleteStep
    \/ DeleteFails \/ DeleteCrashes

DeletionSpec == DeletionInit /\ [][DeletionNext]_allVars

\* The user runs a deletion again that did not finish, or whose barrier is up,
\* and its calls then meet no fault for ever.
Unsettled(d) == operation[d] \in {"running", "failed", "completing"} \/ barrier = d

DeletionFairSpec ==
    /\ DeletionSpec
    /\ WF_allVars(DeleteStep /\ NoFault)
    /\ \A d \in Deletions : SF_allVars(Unsettled(d) /\ StartDelete(d, FALSE))
-------------------------------------------------------------------------------
\* What a completed deletion erased is gone, and stays gone whatever producers
\* publish again, a worker has in hand or had read to project: no canonical
\* row, no parser error, no queue item and no projection has it.
ErasedForGood ==
    \A d \in InStatus({"completed"}) : \A k \in Target[d] :
        /\ raw[k] = NoEvent /\ k \notin rejected /\ k \notin projected
        /\ Matching({k}) = {}

\* A deletion that has begun is completed, if it is called again for as long as it
\* is not; and its barrier is lifted in the end, also one that was left behind by a
\* crash between the operation's completion and the barrier's removal.
DeletionsFinish ==
    /\ \A d \in Deletions : operation[d] = "running" ~> operation[d] = "completed"
    /\ barrier # None ~> barrier = None
===============================================================================
