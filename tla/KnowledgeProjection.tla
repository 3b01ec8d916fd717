-------------------------- MODULE KnowledgeProjection --------------------------
(***************************************************************************)
(* How what the canonical store knows reaches the knowledge index, when a  *)
(* worker run, a reconciliation, a learner run, a knowledge command and the *)
(* adapter all change it and nothing but process leases and the file       *)
(* projection-dirty.json connects them.  Leases are named pipes: they come *)
(* free when their holder dies.  The marker is a name anybody may write    *)
(* and only the worker removes, without looking at what it says.           *)
(***************************************************************************)
EXTENDS Naturals, FiniteSets

CONSTANTS
    Events,    \* what raw events, enrichments and migrations contribute
    Lessons,   \* what the learner and the user contribute
    None,
    MaxFaults, \* bound on deaths and failed steps
    MaxToggles \* bound on enabled and disabled capabilities

Actors == {"worker", "reconciler", "learner", "control", "adapter"}
Leases == {"capture-worker", "learning-inference", "knowledge-projection"}
Capabilities == {"retrieval", "correction_learning"}

\* No event has a lesson's id, and None is no process.
ASSUME NamesDiffer == Events \cap Lessons = {} /\ None \notin Actors

VARIABLES
    events,   \* in the store
    known,    \* those the derived knowledge rows take account of
    lessons,  \* rows of lessons in the store
    revoked,  \* those the user has revoked
    index,    \* what the knowledge index was last written from
    marker,   \* projection-dirty.json exists
    on,       \* capabilities the adapter's state has enabled
    lease,    \* the holder of each lease
    at,       \* where each actor is
    read,     \* the rows it has read to publish
    change,   \* the row an actor has changed and not yet marked or published
    marked,   \* the worker's projectionMarked
    saw,      \* the capabilities the worker read after its batch
    failed,   \* a projection of the worker's run failed
    was,      \* history: what was due in the index when the worker read them
    lost,     \* history: what is due with nothing left to bring it there
    faults, toggles

storeVars == <<events, known, lessons, revoked>>
workerVars == <<marked, saw, failed, was>>
bounds == <<faults, toggles>>
vars == <<storeVars, index, marker, on, lease, at, read, change, workerVars,
          lost, bounds>>

\* knowledgeCandidates: the rows a projection is made from.
Rows == known \cup (lessons \ revoked)

\* What the index ought to have, once every projection is up to date.
Due == IF "retrieval" \notin on THEN {}
       ELSE (lessons \ revoked)
            \cup (IF "correction_learning" \in on THEN events ELSE known)

\* isUpgradeMaintenanceActive
Maintenance == at["adapter"] \in {"begun", "learner drained", "drained", "alone",
                                  "migrated"}
-------------------------------------------------------------------------------
(* Leases and entering *)

Go(a, pc) == at' = [at EXCEPT ![a] = pc]
Take(a, l) == lease[l] = None /\ lease' = [lease EXCEPT ![l] = a]
Without(a) == [l \in Leases |-> IF lease[l] = a THEN None ELSE lease[l]]
Finish(a) == lease' = Without(a) /\ Go(a, "idle")
Fault == faults < MaxFaults /\ faults' = faults + 1

Own(a) == IF a = "learner" THEN "learning-inference" ELSE "capture-worker"
Entering == {"worker", "reconciler", "learner"}

\* A run that has ended remembers nothing.
Forget == marked' = FALSE /\ saw' = {} /\ failed' = FALSE /\ was' = {}

Quiet == UNCHANGED <<storeVars, index, marker, on, read, change, lost, bounds>>

Look(a) ==
    /\ at[a] = "idle" /\ ~ Maintenance
    /\ Go(a, "looked")
    /\ Quiet /\ UNCHANGED <<lease, workerVars>>

Acquire(a) ==
    /\ at[a] = "looked"
    /\ \/ Take(a, Own(a)) /\ Go(a, "leased")
       \/ lease[Own(a)] # None /\ Finish(a)
    /\ Quiet /\ UNCHANGED workerVars

\* Mutant: a run does not look for a marker an earlier one has left.
RecheckUnaware(a) ==
    /\ at[a] = "leased"
    /\ IF Maintenance THEN Finish(a) ELSE Go(a, "running") /\ UNCHANGED lease
    /\ Quiet /\ UNCHANGED workerVars

\* It looks again under the lease; the worker then looks whether it is marked.
Recheck(a) ==
    /\ at[a] = "leased"
    /\ IF Maintenance THEN Finish(a) ELSE Go(a, "running") /\ UNCHANGED lease
    /\ IF a = "worker" /\ ~ Maintenance
       THEN marked' = marker /\ UNCHANGED <<saw, failed, was>>
       ELSE UNCHANGED workerVars
    /\ Quiet
-------------------------------------------------------------------------------
(* Publishing: read the rows and write the index, under the lease *)

TakeProjection(a, from, to) ==
    /\ at[a] = from
    /\ Take(a, "knowledge-projection")
    /\ Go(a, to)
    /\ Quiet /\ UNCHANGED workerVars

\* Mutant: the lease is given back before the index is written.
ReadRowsOnly(a) ==
    /\ at[a] = "read"
    /\ read' = [read EXCEPT ![a] = Rows]
    /\ Go(a, "write")
    /\ lease' = [lease EXCEPT !["knowledge-projection"] = None]
    /\ UNCHANGED <<storeVars, index, marker, on, change, workerVars, lost, bounds>>

ReadRows(a) ==
    /\ at[a] = "read"
    /\ read' = [read EXCEPT ![a] = Rows]
    /\ Go(a, "write")
    /\ UNCHANGED <<storeVars, index, marker, on, lease, change, workerVars, lost, bounds>>

WriteIndex(a) ==
    /\ at[a] = "write"
    /\ index' = read[a]
    /\ read' = [read EXCEPT ![a] = {}]
    /\ lost' = lost \ read[a]
    /\ change' = [change EXCEPT ![a] = {}]
    /\ IF a = "worker"
       THEN /\ lease' = [lease EXCEPT !["knowledge-projection"] = None]
            /\ Go(a, "unmark")
       ELSE Finish(a)
    /\ UNCHANGED <<storeVars, marker, on, workerVars, bounds>>
-------------------------------------------------------------------------------
(* The worker *)

MarkDirty ==
    /\ at["worker"] = "running" /\ ~ marked
    /\ marker' = TRUE /\ marked' = TRUE /\ lost' = {}
    /\ UNCHANGED <<storeVars, index, on, lease, at, read, change, saw, failed,
                   was, bounds>>

Store(e) ==
    /\ at["worker"] = "running" /\ marked
    /\ e \notin events
    /\ events' = events \cup {e}
    /\ UNCHANGED <<known, lessons, revoked, index, marker, on, lease, at, read,
                   change, workerVars, lost, bounds>>

\* `marked` is projectionRequired: what is stored has been marked before.
EndBatch ==
    /\ at["worker"] = "running"
    /\ saw' = on /\ was' = Due
    /\ Go("worker", IF marked THEN "derive" ELSE IF "retrieval" \in on THEN "wait" ELSE "unmark")
    /\ Quiet /\ UNCHANGED <<lease, marked, failed>>

\* Corrections and their lifecycle; an error is kept for the end of the run.
Derive ==
    /\ at["worker"] = "derive"
    /\ \/ /\ known' = IF "correction_learning" \in saw THEN events ELSE known
          /\ UNCHANGED <<failed, bounds>>
       \/ "correction_learning" \in saw /\ Fault /\ failed' = TRUE /\ UNCHANGED <<known, toggles>>
    /\ Go("worker", IF "retrieval" \in saw THEN "wait" ELSE "unmark")
    /\ UNCHANGED <<events, lessons, revoked, index, marker, on, lease, read, change,
                   marked, saw, was, lost>>

\* With nothing to project, and an index of the current vocabulary.
NothingToPublish ==
    /\ at["worker"] = "read" /\ ~ marked
    /\ lease' = [lease EXCEPT !["knowledge-projection"] = None]
    /\ Go("worker", "unmark")
    /\ Quiet /\ UNCHANGED workerVars

\* Five seconds for the lease.
WaitExpires ==
    /\ at["worker"] = "wait" /\ lease["knowledge-projection"] # None
    /\ failed' = TRUE
    /\ Go("worker", "unmark")
    /\ Quiet /\ UNCHANGED <<lease, marked, saw, was>>

\* Mutant: an error of a projection does not keep the marker.
UnmarkAnyway ==
    /\ at["worker"] = "unmark"
    /\ IF ~ marked THEN UNCHANGED <<marker, lost>>
       ELSE marker' = FALSE /\ lost' = lost \cup (Due \ (index \cup was))
    /\ Finish("worker") /\ Forget
    /\ UNCHANGED <<storeVars, index, on, read, change, bounds>>

\* The marker is removed by name: what has become due since the run read the
\* capabilities, and is not in what it published, loses it.
Unmark ==
    /\ at["worker"] = "unmark"
    /\ IF failed \/ ~ marked THEN UNCHANGED <<marker, lost>>
       ELSE marker' = FALSE /\ lost' = lost \cup (Due \ (index \cup was))
    /\ Finish("worker") /\ Forget
    /\ UNCHANGED <<storeVars, index, on, read, change, bounds>>
-------------------------------------------------------------------------------
(* The reconciler and the learner commit first and mark then *)

Enrich(e) ==
    /\ at["reconciler"] = "running"
    /\ e \notin events
    /\ events' = events \cup {e}
    /\ change' = [change EXCEPT !["reconciler"] = {e}]
    /\ Go("reconciler", "mark")
    /\ UNCHANGED <<known, lessons, revoked, index, marker, on, lease, read,
                   workerVars, lost, bounds>>

Commit(x) ==
    /\ at["learner"] = "running"
    /\ x \notin lessons
    /\ lessons' = lessons \cup {x}
    /\ change' = [change EXCEPT !["learner"] = {x}]
    /\ Go("learner", "mark")
    /\ UNCHANGED <<events, known, revoked, index, marker, on, lease, read,
                   workerVars, lost, bounds>>

Mark(a) ==
    /\ at[a] \in {"mark", "migrated"}
    /\ marker' = TRUE /\ lost' = {}
    /\ change' = [change EXCEPT ![a] = {}]
    /\ CASE a = "reconciler" -> Go(a, "running") /\ UNCHANGED lease
         [] a = "learner" -> Go(a, "try") /\ UNCHANGED lease
         [] a = "adapter" -> Finish(a)
    /\ UNCHANGED <<storeVars, index, on, read, workerVars, bounds>>

\* It tries for the projection lease once, and looks at maintenance again.
Busy ==
    /\ at["learner"] = "try" /\ lease["knowledge-projection"] # None
    /\ Finish("learner")
    /\ Quiet /\ UNCHANGED workerVars

StillEnabled ==
    /\ at["learner"] = "check"
    /\ IF Maintenance THEN Finish("learner") ELSE Go("learner", "read") /\ UNCHANGED lease
    /\ Quiet /\ UNCHANGED workerVars

NothingToDo(a) ==
    /\ at[a] = IF a = "control" THEN "open" ELSE "running"
    /\ Finish(a)
    /\ Quiet /\ UNCHANGED workerVars
-------------------------------------------------------------------------------
(* Knowledge commands, which wait for the projection lease and publish *)

Remember(x) ==
    /\ at["control"] = "open"
    /\ x \notin lessons
    /\ lessons' = lessons \cup {x}
    /\ change' = [change EXCEPT !["control"] = {x}]
    /\ Go("control", "read")
    /\ UNCHANGED <<events, known, revoked, index, marker, on, lease, read,
                   workerVars, lost, bounds>>

\* A repeated revocation publishes again, for one that was cut short.
Revoke(x) ==
    /\ at["control"] = "open"
    /\ x \in lessons
    /\ revoked' = revoked \cup {x}
    /\ Go("control", "read")
    /\ UNCHANGED <<events, known, lessons, index, marker, on, lease, read, change,
                   workerVars, lost, bounds>>
-------------------------------------------------------------------------------
(* The adapter: capabilities, and an upgrade that drains everybody *)

Enable(c) ==
    /\ at["adapter"] = "idle" /\ toggles < MaxToggles
    /\ c \notin on /\ on' = on \cup {c}
    /\ change' = [change EXCEPT !["adapter"] = Events \cup Lessons]
    /\ Go("adapter", "mark")
    /\ toggles' = toggles + 1
    /\ UNCHANGED <<storeVars, index, marker, lease, read, workerVars, lost, faults>>

\* What is not due any more is not missing.
Disable(c) ==
    /\ at["adapter"] = "idle" /\ toggles < MaxToggles
    /\ c \in on /\ on' = on \ {c}
    /\ toggles' = toggles + 1
    /\ UNCHANGED <<storeVars, index, marker, lease, at, read, change, workerVars,
                   lost, faults>>

BeginUpgrade ==
    /\ at["adapter"] = "idle"
    /\ Go("adapter", "begun")
    /\ Quiet /\ UNCHANGED <<lease, workerVars>>

Drain(l, from, to) ==
    /\ at["adapter"] = from
    /\ Take("adapter", l)
    /\ Go("adapter", to)
    /\ Quiet /\ UNCHANGED workerVars

\* A migration changes what the rows say, and then marks.
Migrate(e) ==
    /\ at["adapter"] = "alone"
    /\ e \notin events
    /\ events' = events \cup {e}
    /\ change' = [change EXCEPT !["adapter"] = {e}]
    /\ Go("adapter", "migrated")
    /\ UNCHANGED <<known, lessons, revoked, index, marker, on, lease, read,
                   workerVars, lost, bounds>>

\* The drain's deadline passes, or there is nothing to migrate.
UpgradeReturns ==
    /\ at["adapter"] \in {"begun", "learner drained", "drained", "alone"}
    /\ Finish("adapter")
    /\ Quiet /\ UNCHANGED workerVars
-------------------------------------------------------------------------------
\* A process dies, or throws: its leases come free.  What it had changed and
\* not marked or published is lost to the index.
Die(a) ==
    /\ at[a] # "idle" /\ Fault
    /\ Finish(a)
    /\ IF a = "worker" THEN Forget ELSE UNCHANGED workerVars
    /\ read' = [read EXCEPT ![a] = {}]
    /\ change' = [change EXCEPT ![a] = {}]
    /\ lost' = IF marker THEN lost ELSE lost \cup (change[a] \cap (Due \ index))
    /\ UNCHANGED <<storeVars, index, marker, on, toggles>>
-------------------------------------------------------------------------------
Init ==
    /\ events = {} /\ known = {} /\ lessons = {} /\ revoked = {} /\ index = {}
    /\ marker = FALSE /\ on = {"retrieval"}
    /\ lease = [l \in Leases |-> None] /\ at = [a \in Actors |-> "idle"]
    /\ read = [a \in Actors |-> {}] /\ change = [a \in Actors |-> {}]
    /\ marked = FALSE /\ saw = {} /\ failed = FALSE /\ was = {} /\ lost = {}
    /\ faults = 0 /\ toggles = 0

WorkerStep ==
    \/ Look("worker") \/ Acquire("worker") \/ Recheck("worker")
    \/ MarkDirty \/ EndBatch \/ Derive \/ NothingToPublish
    \/ TakeProjection("worker", "wait", "read") \/ WaitExpires
    \/ ReadRows("worker") \/ WriteIndex("worker") \/ Unmark
    \/ \E e \in Events : Store(e)

OtherStep ==
    \/ \E a \in {"reconciler", "learner"} :
          Look(a) \/ Acquire(a) \/ Recheck(a)
    \/ \E a \in {"reconciler", "learner", "control"} : NothingToDo(a)
    \/ \E a \in {"reconciler", "learner", "adapter"} : Mark(a)
    \/ \E e \in Events : Enrich(e) \/ Migrate(e)
    \/ \E x \in Lessons : Commit(x) \/ Remember(x) \/ Revoke(x)
    \/ TakeProjection("learner", "try", "check") \/ Busy \/ StillEnabled
    \/ TakeProjection("control", "idle", "open")
    \/ \E a \in {"learner", "control"} : ReadRows(a) \/ WriteIndex(a)
    \/ \E c \in Capabilities : Enable(c) \/ Disable(c)
    \/ BeginUpgrade \/ UpgradeReturns
    \/ Drain("learning-inference", "begun", "learner drained")
    \/ Drain("capture-worker", "learner drained", "drained")
    \/ Drain("knowledge-projection", "drained", "alone")

Next == WorkerStep \/ OtherStep \/ \E a \in Actors : Die(a)

Spec == Init /\ [][Next]_vars

\* The extension starts a worker run again and again.
FairSpec == Spec /\ WF_vars(WorkerStep)
-------------------------------------------------------------------------------
Pending == UNION {change[a] : a \in Actors}

\* What is due in the index and not there has the marker, or somebody about to
\* set it or to publish.  The only ways to lose that are those `lost` names: a
\* process that dies between its commit and its marker or publication, and a
\* worker that removes the marker when more has become due since its batch.
LagIsExplained == marker \/ Due \ index \subseteq lost \cup Pending

\* No writer brings a revoked rule back, or drops what another has published:
\* everybody reads the rows under the lease it writes under.  And while an upgrade
\* migrates nobody else changes the store, the index or the marker, though
\* everybody looks at maintenance before it has its lease.
NoWriterIsOvertaken ==
    [][/\ index \ revoked \subseteq index'
       /\ index' \cap revoked' \subseteq index
       /\ at["adapter"] \in {"alone", "migrated"} /\ at'["adapter"] = at["adapter"]
            => UNCHANGED <<storeVars, index, marker>>]_vars

\* When everybody else comes to rest, the worker's runs bring everything that
\* is due into the index that is not lost, whatever failed before.
Calm == \A a \in Actors \ {"worker"} : at[a] = "idle"
TheIndexCatchesUp == <>[]Calm => <>[](Due \ index \subseteq lost)
===============================================================================
