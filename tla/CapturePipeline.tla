--------------------------- MODULE CapturePipeline ---------------------------
(***************************************************************************)
(* From a captured event to a canonical fact: producers publish events in  *)
(* the durable queue, and a leased worker run (runCaptureWorkerOnce around *)
(* CaptureWorker.runOnce) claims items, ingests them in the canonical      *)
(* store and settles the claims, then rebuilds the projections and removes *)
(* the dirty marker.  The worker lease lets one run at a time do this; a   *)
(* run may die between any two steps, a queue or store call may fail, and  *)
(* a claim may expire under a run that is slow.                            *)
(***************************************************************************)
EXTENDS CaptureQueue, CanonicalStore

CONSTANT MaxFaults   \* bound on crashes, failed calls and expired claims

VARIABLES
    used,       \* ids given out so far: queueItemIds are random UUIDs
    run,        \* the worker run that holds the lease, or None
    dirty,      \* the projection-dirty marker exists
    projected,  \* keys of the events the projections were rebuilt from
    faults

pipelineVars == <<used, run, dirty, projected, faults>>
vars == <<queueVars, storeVars, pipelineVars>>

RunSteps == {"recover", "next", "claimed", "marked", "settling", "failing",
             "unsettled", "project", "unmark"}
Results == {"none", "stored", "duplicate", "unsupported", "rejected"}

Run == [worker : Claimants, pc : RunSteps, id : Ids \cup {None},
        key : Keys \cup {None}, attempts : Nat, result : Results, marked : BOOLEAN]

Supported == {k \in Keys : raw[k] = "supported"}

Fault == faults < MaxFaults /\ faults' = faults + 1
NoFault == UNCHANGED faults
-------------------------------------------------------------------------------
(* Producers: the capture writer, the reconciler, the adapter's self-test *)

Publish(i, k) ==
    /\ i \notin used
    /\ used' = used \cup {i}
    /\ EnqueueIfSourceAbsent(i, k)
    /\ UNCHANGED <<storeVars, run, dirty, projected, faults>>

\* enqueue, which adapter verification calls, does not look for an earlier item.
PublishAgain(i, k) ==
    /\ i \notin used
    /\ used' = used \cup {i}
    /\ Enqueue(i, k)
    /\ UNCHANGED <<storeVars, run, dirty, projected, faults>>
-------------------------------------------------------------------------------
(* The start of a run *)

\* A run that has taken the lease prunes and reads the marker.  Cut short, it
\* leaves some of the old items behind.
StartRun(w, S) ==
    /\ run = None
    /\ PruneAcknowledged(S)
    /\ IF S = OldAcknowledged
       THEN /\ run' = [worker |-> w, pc |-> "recover", id |-> None,
                       key |-> None, attempts |-> 0, result |-> "none", marked |-> dirty]
            /\ NoFault
       ELSE UNCHANGED run /\ Fault
    /\ UNCHANGED <<storeVars, used, dirty, projected>>

At(pc) == run # None /\ run.pc = pc
Go(pc) == run' = [run EXCEPT !.pc = pc]

NextItem == run' = [run EXCEPT !.pc = "next", !.id = None, !.key = None,
                               !.attempts = 0, !.result = "none"]

\* Under a barrier recoverExpiredClaims returns without looking at the queue.
Recover(S) ==
    /\ At("recover")
    /\ \/ /\ RecoverExpiredClaims(S)
          /\ IF S = ExpiredClaims THEN Go("next") /\ NoFault
                                  ELSE run' = None /\ Fault
       \/ /\ barrier # None
          /\ S = {}
          /\ Go("next") /\ NoFault
          /\ UNCHANGED queueVars
    /\ UNCHANGED <<storeVars, used, dirty, projected>>
-------------------------------------------------------------------------------
(* The batch loop *)

ClaimNext(i) ==
    /\ At("next")
    /\ Claim(i, run.worker)
    /\ run' = [run EXCEPT !.pc = "claimed", !.id = i, !.key = item[i].key,
                          !.attempts = item[i].attempts + 1]
    /\ UNCHANGED <<storeVars, used, dirty, projected, faults>>

\* The loop ends: the batch is full, nothing is left to claim, capture was
\* disabled or the circuit breaker opened.
EndBatch ==
    /\ At("next")
    /\ Go("project")
    /\ UNCHANGED <<queueVars, storeVars, used, dirty, projected, faults>>

\* Mutant: the marker is left to be written after the mutation.
MarkDirtyLater ==
    /\ At("claimed")
    /\ run' = [run EXCEPT !.pc = "marked", !.marked = TRUE]
    /\ UNCHANGED <<queueVars, storeVars, used, dirty, projected, faults>>

\* onCanonicalMutationPending comes before the mutation.
MarkDirty ==
    /\ At("claimed")
    /\ run' = [run EXCEPT !.pc = "marked", !.marked = TRUE]
    /\ dirty' = TRUE
    /\ UNCHANGED <<queueVars, storeVars, used, projected, faults>>

IngestItem ==
    /\ At("marked")
    /\ Ingest(run.key)
    /\ run' = [run EXCEPT !.pc = "settling",
                          !.result = IngestResult(run.key)]
    /\ UNCHANGED <<queueVars, used, dirty, projected, faults>>

\* Marking or ingesting throws: a write error, or an active deletion.
IngestThrows ==
    /\ \/ At("claimed") /\ Fault
       \/ At("marked") /\ Fault
       \/ At("marked") /\ IngestBlocked(run.key) /\ NoFault
    /\ Go("failing")
    /\ UNCHANGED <<queueVars, storeVars, used, dirty, projected>>
-------------------------------------------------------------------------------
(* Settling the claim.  A transition throws when the claim is no longer    *)
(* active, or by a fault that struck before or after its write.            *)

Transition(write, done, thrown) ==
    \/ write /\ done /\ NoFault
    \/ (write \/ UNCHANGED queueVars) /\ thrown /\ Fault
    \/ /\ ~ ActiveClaim(run.id, run.worker, run.attempts)
       /\ UNCHANGED queueVars /\ thrown /\ NoFault

\* Mutant: any completed ingestion is acknowledged.
SettleClaimAnyway ==
    /\ At("settling")
    /\ Transition(Acknowledge(run.id, run.worker, run.attempts),
                  NextItem, Go("unsettled"))
    /\ UNCHANGED <<storeVars, used, dirty, projected>>

SettleClaim ==
    /\ At("settling")
    /\ \/ /\ run.result \in {"stored", "duplicate"}
          /\ Transition(Acknowledge(run.id, run.worker, run.attempts),
                        NextItem, Go("unsettled"))
       \/ /\ run.result \in {"unsupported", "rejected"}
          /\ Transition(DeadLetter(run.id, run.worker, run.attempts),
                        NextItem, Go("unsettled"))
    /\ UNCHANGED <<storeVars, used, dirty, projected>>

\* Mutant: the second chance is charged like a failed ingestion.
RetryUnsettledCharged ==
    /\ At("unsettled")
    /\ Transition(Retry(run.id, run.worker, run.attempts), NextItem, run' = None)
    /\ UNCHANGED <<storeVars, used, dirty, projected>>

\* The second chance after a commit; when it throws too, the run is over.
RetryUnsettled ==
    /\ At("unsettled")
    /\ Transition(RetryAfterCommit(run.id, run.worker, run.attempts),
                  NextItem, run' = None)
    /\ UNCHANGED <<storeVars, used, dirty, projected>>

RetryFailed ==
    /\ At("failing")
    /\ Transition(Retry(run.id, run.worker, run.attempts),
                  NextItem, run' = None)
    /\ UNCHANGED <<storeVars, used, dirty, projected>>
-------------------------------------------------------------------------------
(* The end of a run *)

\* A marked run rebuilds every projection from the events there are.
Project ==
    /\ At("project")
    /\ IF run.marked THEN projected' = Supported /\ Go("unmark")
                     ELSE run' = None /\ UNCHANGED projected
    /\ UNCHANGED <<queueVars, storeVars, used, dirty, faults>>

\* A projection that fails leaves the marker for the next run.
ProjectFails ==
    /\ At("project")
    /\ run.marked
    /\ run' = None
    /\ Fault
    /\ UNCHANGED <<queueVars, storeVars, used, dirty, projected>>

Unmark ==
    /\ At("unmark")
    /\ dirty' = FALSE
    /\ run' = None
    /\ UNCHANGED <<queueVars, storeVars, used, projected, faults>>

\* The worker process dies; the operating system releases its leases.
Crash ==
    /\ run # None
    /\ Fault
    /\ run' = None
    /\ UNCHANGED <<queueVars, storeVars, used, dirty, projected>>
-------------------------------------------------------------------------------
(* Time.  A claim that expires under a live run is a fault of that run.    *)

Overtaken(i) == run # None /\ run.id = i

TimePasses(i) ==
    /\ Elapse(i)
    /\ IF Overtaken(i) THEN Fault ELSE NoFault
    /\ UNCHANGED <<storeVars, used, run, dirty, projected>>
-------------------------------------------------------------------------------
Init ==
    /\ QueueInit
    /\ StoreInit
    /\ used = {}
    /\ run = None
    /\ dirty = FALSE
    /\ projected = {}
    /\ faults = 0

RunNext ==
    \/ \E S \in SUBSET Ids :
          (\E w \in Claimants : StartRun(w, S)) \/ Recover(S)
    \/ \E i \in Ids : ClaimNext(i)
    \/ EndBatch \/ MarkDirty \/ IngestItem \/ IngestThrows
    \/ SettleClaim \/ RetryUnsettled \/ RetryFailed
    \/ Project \/ ProjectFails \/ Unmark
    \/ Crash

Next ==
    \/ \E i \in Ids, k \in Keys : Publish(i, k) \/ PublishAgain(i, k)
    \/ RunNext
    \/ \E i \in Ids : TimePasses(i)

Spec == Init /\ [][Next]_vars

\* The worker is run again and again and a run that meets no fault goes on;
\* deadlines pass; and as each run scans the whole .active listing in order,
\* an item that stays claimable is claimed.
FairSpec ==
    /\ Spec
    /\ WF_vars(RunNext /\ NoFault)
    /\ \A i \in Ids : SF_vars(ClaimNext(i)) /\ WF_vars(TimePasses(i))
-------------------------------------------------------------------------------
QueueTypeOK ==
    /\ item \in [Ids -> Item \cup {None}]
    /\ source \in [Keys -> Ids \cup {None}]
    /\ barrier \in Deletions \cup {None}
    /\ blocked \in SUBSET Keys
    /\ cutoff \in SUBSET Keys

TypeOK ==
    /\ QueueTypeOK
    /\ StoreTypeOK
    /\ used \in SUBSET Ids
    /\ run \in Run \cup {None}
    /\ dirty \in BOOLEAN
    /\ projected \in SUBSET Keys
    /\ faults \in Nat

\* The queue never reports done what the store does not have: an acknowledged
\* item's event is a canonical fact, or one the user had deleted or reset away.
AcknowledgedIsRecorded ==
    \A i \in InState({"acknowledged"}) :
        raw[item[i].key] = "supported" \/ Dropped(item[i].key)

\* A dead letter always has its reason: an event the store could not use, or
\* an attempt budget spent to the end.
DeadLetterIsExplained ==
    \A i \in InState({"dead-letter"}) :
        \/ item[i].failures >= MaxAttempts
        \/ raw[item[i].key] = "unsupported"
        \/ item[i].key \in rejected

\* Both: no item leaves the queue's hands without its reason.
SettledIsExplained == AcknowledgedIsRecorded /\ DeadLetterIsExplained

\* "Queue-transition failures after commit use a separate retry path that
\* cannot consume the event-processing attempt budget": while a run has the
\* store's answer for its item, no step adds to that item's failures.
CommittedKeepsBudget ==
    [][run # None /\ run.result # "none" /\ run.id \in Published
          /\ item'[run.id] # None
       => item'[run.id].failures = item[run.id].failures]_vars

\* Whatever stops a run, projections that lag behind the canonical events
\* leave the marker that makes the next run rebuild them.
LagIsMarked == projected # Supported => dirty

\* What a run carries in memory agrees with the queue and the store, also
\* after its claim was lost: the item it names is still the same event, the
\* store's answer still stands, no attempt is charged once there is one, and
\* before it mutates anything, or takes the marker away, the marker says so.
Answered(k, result) ==
    \/ /\ result \in {"stored", "duplicate"}
       /\ raw[k] = "supported" \/ Dropped(k)
    \/ result = "unsupported" /\ raw[k] = "unsupported"
    \/ result = "rejected" /\ k \in rejected

AtItem == {"claimed", "marked", "settling", "failing", "unsettled"}

RunIsHonest ==
    run # None =>
        /\ run.pc \in AtItem =>
              /\ run.id \in used /\ run.key \in Keys
              /\ item[run.id] # None => item[run.id].key = run.key
        /\ IF run.pc \in {"settling", "unsettled"}
           THEN Answered(run.key, run.result) ELSE run.result = "none"
        /\ run.marked => dirty
        /\ run.pc \in {"marked", "unmark"} => run.marked
        /\ run.pc = "unmark" => projected = Supported

\* Every item file has an id that was given out.
IdsAreUsed == Published \subseteq used

PipelineInv ==
    /\ TypeOK /\ IdsAreUsed /\ RunIsHonest
    /\ AcknowledgedIsRecorded /\ DeadLetterIsExplained /\ LagIsMarked

\* The pipeline as its producers see it.
Delivery == INSTANCE CaptureDelivery WITH
    captured <- {item[i].key : i \in Published} \cup Supported,
    recorded <- Supported,
    refused <- {item[i].key : i \in InState({"dead-letter"})}

\* No step, crash or redelivery loses a captured event or withdraws its fact.
NothingIsLost == Delivery!SafeSpec

\* Every captured event is recorded or refused in the end.
EverythingIsAnswered == Delivery!Spec

===============================================================================
