----------------------------- MODULE RecordsReset -----------------------------
(***************************************************************************)
(* resetAllRecords: an installation's records are cleared from the queue,  *)
(* the canonical store and the knowledge index, in that many steps, by a   *)
(* call that may die between any two of them and is then called again.  A  *)
(* journal says that it is pending; the cutoffs it leaves behind keep what *)
(* happened before it from coming back, and stand in for the tombstones of *)
(* earlier deletions, which it clears too.                                 *)
(***************************************************************************)
EXTENDS Naturals, FiniteSets

CONSTANTS
    Events,
    Victims,   \* the target of the one deletion there may be
    None,
    MaxClock,  \* bound on the clock
    MaxResets, \* bound on resets
    MaxFaults  \* bound on deaths and failed steps

ASSUME NoneIsNoJournal == None \notin [id : Nat, cutoff : Nat]

VARIABLES
    clock,
    time,        \* when each event happened, or None
    queue,       \* events with an item in the capture queue
    tombs,       \* the queue's tombstones
    queueCutoff, \* .records-reset-cutoff
    barrier,     \* the id in .deletion/active: a reset's number, Deletion, or None
    facts,       \* events in the canonical store
    erased,      \* the store's tombstones
    storeCutoff, \* record_reset
    operation,   \* status of the deletion operation
    generation,  \* <database>.restore.generation
    index,       \* events the knowledge index speaks of
    journal,     \* records-reset.pending.json: [id, cutoff], or None
    reset,       \* where the reset call is, or "idle"
    del,         \* where the delete() call is, or "idle"
    worker,      \* the event a worker run holds, or None
    reader,      \* a process with the store open: [generation, saw], or None
    resets, faults

queueVars == <<queue, tombs, queueCutoff, barrier>>
storeVars == <<facts, erased, storeCutoff, operation, generation>>
others == <<del, worker, reader>>
vars == <<clock, time, queueVars, storeVars, index, journal, reset, others,
          resets, faults>>

Deletion == 0

Past(e) == time[e] # None
ResetSteps == {"idle", "stop", "journal", "barrier", "store", "cutoff", "unlink",
               "index", "lift", "done"}
DeleteSteps == {"idle", "guard", "begin", "raise", "erase", "complete", "lift"}

\* isUpgradeMaintenanceActive: a pending journal, or a live reset.
Maintenance == journal # None \/ reset # "idle"

\* The constructor of the store and every method of it look at the journal.
StoreOpens == journal = None

Fault == faults < MaxFaults /\ faults' = faults + 1
-------------------------------------------------------------------------------
(* Producers, a worker, and somebody who has the store open without a lease *)

Tick ==
    /\ clock < MaxClock /\ clock' = clock + 1
    /\ UNCHANGED <<time, queueVars, storeVars, index, journal, reset, others, resets, faults>>

Happen(e) ==
    /\ ~ Past(e)
    /\ time' = [time EXCEPT ![e] = clock]
    /\ UNCHANGED <<clock, queueVars, storeVars, index, journal, reset, others, resets, faults>>

Predates(e) == time[e] <= queueCutoff

\* An event may be submitted late, and again from its session's file.
Submit(e) ==
    /\ Past(e) /\ e \notin queue
    /\ barrier = None /\ e \notin tombs /\ ~ Predates(e)
    /\ queue' = queue \cup {e}
    /\ UNCHANGED <<clock, time, tombs, queueCutoff, barrier, storeVars, index,
                   journal, reset, others, resets, faults>>

Claim(e) ==
    /\ worker = None /\ ~ Maintenance
    /\ e \in queue /\ barrier = None
    /\ worker' = e
    /\ UNCHANGED <<clock, time, queueVars, storeVars, index, journal, reset, del,
                   reader, resets, faults>>

\* ingestQueueItem, then the projections of the run.
Ingest ==
    /\ worker # None
    /\ LET Kept == StoreOpens /\ operation \notin {"running", "failed"} /\ worker \notin erased
                   /\ time[worker] > storeCutoff
       IN  facts' = facts \cup (IF Kept THEN {worker} ELSE {})
    /\ LET Throws == ~ StoreOpens \/ operation \in {"running", "failed"}
       IN  /\ index' = IF Throws THEN index ELSE facts'
           /\ queue' = IF Throws THEN queue ELSE queue \ {worker}
    /\ worker' = None
    /\ UNCHANGED <<clock, time, tombs, queueCutoff, barrier, erased, storeCutoff,
                   operation, generation, journal, reset, del, reader, resets, faults>>

WorkerDies ==
    /\ worker # None /\ Fault
    /\ worker' = None
    /\ UNCHANGED <<clock, time, queueVars, storeVars, index, journal, reset, del, reader, resets>>

Open ==
    /\ reader = None /\ StoreOpens
    /\ reader' = [generation |-> generation, saw |-> facts]
    /\ UNCHANGED <<clock, time, queueVars, storeVars, index, journal, reset, del, worker, resets, faults>>

GoodHandle == StoreOpens /\ reader.generation = generation

\* It writes something that repeats what it saw; a stale handle is refused, and
\* so is a row of a deleted identity.
WriteBack ==
    /\ reader # None
    /\ facts' = IF GoodHandle /\ operation \notin {"running", "failed"}
                THEN facts \cup (reader.saw \ erased) ELSE facts
    /\ reader' = None
    /\ UNCHANGED <<clock, time, queueVars, erased, storeCutoff, operation, generation,
                   index, journal, reset, del, worker, resets, faults>>
-------------------------------------------------------------------------------
(* The deletion of Victims, whose barrier may be left behind *)

DeadBarrier == barrier # None /\ (barrier # Deletion \/ operation \in {"none", "completed"})

StartDelete(pc) ==
    /\ del = "idle" /\ reset = "idle" /\ StoreOpens
    /\ barrier' = IF DeadBarrier THEN None ELSE barrier
    /\ operation = "completed" => barrier # None
    /\ del' = IF operation = "completed" THEN "lift"
              ELSE IF operation = "none" THEN pc ELSE "raise"
    /\ UNCHANGED <<clock, time, queue, tombs, queueCutoff, storeVars, index,
                   journal, reset, worker, reader, resets, faults>>

DeleteStep ==
    /\ \/ /\ del = "guard" /\ del' = "begin" /\ barrier' = Deletion
          /\ UNCHANGED <<queue, tombs, storeVars, index>>
       \/ /\ del = "begin" /\ del' = "raise" /\ operation' = "running"
          /\ UNCHANGED <<queue, tombs, barrier, facts, erased, storeCutoff, generation, index>>
       \/ /\ del = "raise" /\ del' = "erase" /\ barrier' = Deletion /\ operation' = "running"
          /\ UNCHANGED <<queue, tombs, facts, erased, storeCutoff, generation, index>>
       \/ /\ del = "erase" /\ del' = "complete"
          /\ facts' = facts \ Victims /\ erased' = Victims
          /\ queue' = queue \ Victims /\ tombs' = Victims /\ index' = index \ Victims
          /\ UNCHANGED <<barrier, storeCutoff, operation, generation>>
       \/ /\ del = "complete" /\ del' = "lift" /\ operation' = "completed"
          /\ UNCHANGED <<queue, tombs, barrier, facts, erased, storeCutoff, generation, index>>
       \/ /\ del = "lift" /\ del' = "idle" /\ barrier' = None
          /\ UNCHANGED <<queue, tombs, storeVars, index>>
    /\ UNCHANGED <<clock, time, queueCutoff, journal, reset, worker, reader, resets, faults>>

DeleteDies ==
    /\ del # "idle" /\ Fault
    /\ del' = "idle"
    /\ operation' \in IF operation = "running" THEN {"running", "failed"} ELSE {operation}
    /\ UNCHANGED <<clock, time, queueVars, facts, erased, storeCutoff, generation,
                   index, journal, reset, worker, reader, resets>>
-------------------------------------------------------------------------------
(* The reset call *)

At(pc) == reset = pc
Rest == UNCHANGED <<clock, time, others, resets, faults>>

\* It drains the worker and whoever holds the projection lease, a deletion
\* among them, and stops the extensions.
StartReset ==
    /\ At("idle") /\ del = "idle" /\ worker = None
    /\ journal = None => resets < MaxResets
    /\ reset' = "journal"
    /\ resets' = IF journal = None THEN resets + 1 ELSE resets
    /\ UNCHANGED <<clock, time, queueVars, storeVars, index, journal, others, faults>>

\* A pending journal is taken up; with none an unfinished deletion refuses.
WriteJournal ==
    /\ At("journal")
    /\ IF journal # None THEN reset' = "barrier" /\ UNCHANGED journal
       ELSE IF operation \in {"running", "failed"} THEN reset' = "idle" /\ UNCHANGED journal
       ELSE reset' = "barrier" /\ journal' = [id |-> resets, cutoff |-> clock]
    /\ Rest /\ UNCHANGED <<queueVars, storeVars, index>>

\* Mutant: the barrier it has raised itself stops a call that resumes.
RaiseBarrierOnce ==
    /\ At("barrier")
    /\ IF barrier = None THEN barrier' = journal.id /\ reset' = "store"
       ELSE reset' = "idle" /\ UNCHANGED barrier
    /\ Rest /\ UNCHANGED <<queue, tombs, queueCutoff, storeVars, index, journal>>

\* beginDeletionBarrier throws at another's barrier: the reset is paused.
RaiseBarrier ==
    /\ At("barrier")
    /\ IF barrier \in {None, journal.id}
       THEN barrier' = journal.id /\ reset' = "store"
       ELSE reset' = "idle" /\ UNCHANGED barrier
    /\ Rest /\ UNCHANGED <<queue, tombs, queueCutoff, storeVars, index, journal>>

\* One transaction; the new generation is published before it commits.
ClearStore ==
    /\ At("store") /\ reset' = "cutoff"
    /\ facts' = {} /\ erased' = {} /\ operation' = "none"
    /\ storeCutoff' = journal.cutoff
    /\ generation' = generation + 1
    /\ Rest /\ UNCHANGED <<queueVars, index, journal>>

\* The commit fails after the generation was published.
ClearStoreFails ==
    /\ At("store") /\ Fault
    /\ reset' = "idle"
    /\ generation' = generation + 1
    /\ UNCHANGED <<clock, time, queueVars, facts, erased, storeCutoff, operation,
                   index, journal, others, resets>>

\* Mutant: the queue is emptied without a cutoff.
PublishNothing ==
    /\ At("cutoff") /\ reset' = "unlink"
    /\ Rest /\ UNCHANGED <<queueVars, storeVars, index, journal>>

\* clearAllRecords of the queue publishes its cutoff and then unlinks every
\* file but that and the barrier, tombstones included; it may stop half way.
PublishCutoff ==
    /\ At("cutoff") /\ reset' = "unlink"
    /\ queueCutoff' = journal.cutoff
    /\ Rest /\ UNCHANGED <<queue, tombs, barrier, storeVars, index, journal>>

Unlink(S) ==
    /\ At("unlink")
    /\ S \subseteq queue
    /\ queue' = queue \ S
    /\ IF S = queue THEN reset' = "index" /\ tombs' = {} /\ UNCHANGED faults
                    ELSE reset' = "idle" /\ tombs' \in SUBSET tombs /\ Fault
    /\ UNCHANGED <<clock, time, queueCutoff, barrier, storeVars, index, journal, others, resets>>

\* The index is rebuilt of nothing, and the three are verified to be empty.
ClearIndex ==
    /\ At("index")
    /\ index' = {}
    /\ reset' = IF facts = {} /\ queue = {} THEN "lift" ELSE "idle"
    /\ Rest /\ UNCHANGED <<queueVars, storeVars, journal>>

Lift ==
    \/ /\ At("lift") /\ reset' = "done" /\ barrier' = None
       /\ Rest /\ UNCHANGED <<queue, tombs, queueCutoff, storeVars, index, journal>>
    \/ /\ At("done") /\ reset' = "idle" /\ journal' = None
       /\ Rest /\ UNCHANGED <<queueVars, storeVars, index>>

ResetDies ==
    /\ reset # "idle" /\ Fault
    /\ reset' = "idle"
    /\ UNCHANGED <<clock, time, queueVars, storeVars, index, journal, others, resets>>
-------------------------------------------------------------------------------
Init ==
    /\ clock = 1 /\ time = [e \in Events |-> None]
    /\ queue = {} /\ tombs = {} /\ queueCutoff = 0 /\ barrier = None
    /\ facts = {} /\ erased = {} /\ storeCutoff = 0 /\ operation = "none"
    /\ generation = 0 /\ index = {} /\ journal = None
    /\ reset = "idle" /\ del = "idle" /\ worker = None /\ reader = None
    /\ resets = 0 /\ faults = 0

ResetStep ==
    \/ WriteJournal \/ RaiseBarrier \/ ClearStore \/ PublishCutoff
    \/ Unlink(queue) \/ ClearIndex \/ Lift

Next ==
    \/ Tick \/ Ingest \/ WorkerDies \/ Open \/ WriteBack
    \/ \E e \in Events : Happen(e) \/ Submit(e) \/ Claim(e)
    \/ StartDelete("guard") \/ StartDelete("begin") \/ DeleteStep \/ DeleteDies
    \/ StartReset \/ ResetStep \/ ClearStoreFails \/ ResetDies
    \/ \E S \in SUBSET Events : Unlink(S)

Spec == Init /\ [][Next]_vars

\* Runs and calls go on, and the user repeats a clear action that is pending.
Fairness ==
    /\ WF_vars(ResetStep) /\ WF_vars(DeleteStep) /\ WF_vars(Ingest)
    /\ SF_vars(journal # None /\ StartReset)
FairSpec == Spec /\ Fairness
-------------------------------------------------------------------------------
\* What happened before the cutoff of a reset that has finished is gone for
\* good: no event of before is in the queue, the store or the index, whoever
\* submits it again, had it in hand or had read it, and also if the deletion
\* that once kept it out has lost its tombstones to the reset.
Cleared(e) == Past(e) /\ time[e] <= storeCutoff
NothingClearedReturns ==
    journal = None /\ reset = "idle" =>
        \A e \in Events : Cleared(e) => e \notin queue \cup facts \cup index

\* A reset clears the tombstones of a deletion, but only when its cutoff has
\* taken over: what the deletion kept out of queue and store is kept out still.
KeptOut(e) == /\ e \in tombs => e \in tombs' \/ time[e] <= queueCutoff'
              /\ e \in erased => e \in erased' \/ time[e] <= storeCutoff'

VictimsStayOut ==
    \A e \in Victims :
        Past(e) /\ (journal # None => time[e] <= journal.cutoff) => KeptOut(e)

\* Nothing that was cleared comes back: neither what happened before the cutoff nor
\* what an earlier deletion kept out, although its tombstones are cleared.
ClearedStaysOut == [][NothingClearedReturns' /\ VictimsStayOut]_vars

\* A reset that has raised its barrier is finished by calling it again, and
\* capture resumes.
BegunIsFinished == journal # None /\ barrier = journal.id ~> journal = None

===============================================================================
