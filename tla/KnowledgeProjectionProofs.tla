----------------------- MODULE KnowledgeProjectionProofs -----------------------
(***************************************************************************)
(* What is proved of KnowledgeProjection, for every set of events and      *)
(* lessons and every number of faults and toggles: whatever is due in the  *)
(* index and not there is explained, and no writer is overtaken.           *)
(*                                                                         *)
(* The invariant says why.  Whoever reads the rows, writes the index or    *)
(* publishes a command has the projection lease, so that there is one at   *)
(* a time and neither the index nor what is revoked changes between its    *)
(* read and its write.  Without the marker everything due is a row and in  *)
(* the index, or explained; and the worker removes the marker only when    *)
(* what it was meant to publish has come, through the rows and what was    *)
(* read, into the index.                                                   *)
(*                                                                         *)
(* And of KnowledgeSearch, for every set of rules and requests and every   *)
(* limit: what a search answers is sound.  Rules have different places in  *)
(* the order of the index, so that a route's rules are numbered without a  *)
(* gap, and a page that comes back short is the last of its route.  Hence  *)
(* while nothing changes all of a route that is done has been seen; when   *)
(* something does, looking again at the end is what keeps the answer to    *)
(* rows as they are now.                                                   *)
(***************************************************************************)
EXTENDS KnowledgeProjection, KnowledgeSearch, FiniteSetTheorems, WellFoundedInduction, TLAPS

Projection == "knowledge-projection"

\* What is needed of the types.
Maps ==
    /\ at = [a \in Actors |-> at[a]] /\ lease = [l \in Leases |-> lease[l]]
    /\ read = [a \in Actors |-> read[a]] /\ change = [a \in Actors |-> change[a]]

Stored ==
    /\ known \subseteq events /\ events \subseteq Events
    /\ lessons \subseteq Lessons /\ revoked \subseteq lessons
    /\ index \subseteq known \cup lessons

\* The leases an actor needs where it is.
Needs(a, pc, l) ==
    \/ /\ l = Projection
       /\ \/ pc \in {"read", "write", "check", "alone", "migrated"}
          \/ a = "control" /\ pc # "idle"
    \/ a \in Entering /\ l = Own(a) /\ pc \notin {"idle", "looked"}
    \/ /\ a = "adapter" /\ l = "learning-inference"
       /\ pc \in {"learner drained", "drained", "alone", "migrated"}
    \/ /\ a = "adapter" /\ l = "capture-worker"
       /\ pc \in {"drained", "alone", "migrated"}

Holding == \A a \in Actors : \A l \in Leases : Needs(a, at[a], l) => lease[l] = a

\* What is changed and neither marked nor published yet.
Changes ==
    /\ \A a \in Actors : change[a] # {} =>
          at[a] \in IF a = "control" THEN {"read", "write"} ELSE {"mark", "migrated"}
    /\ change["worker"] = {} /\ change["control"] \subseteq lessons \ revoked

\* A worker that has something to derive has marked it.
MarkedRun ==
    /\ marked => marker
    /\ at["worker"] = "derive" =>
          /\ marked
          /\ "retrieval" \notin saw => was = {}
          /\ was \subseteq lessons \cup (IF "correction_learning" \in saw THEN events ELSE known)

\* What was due at the batch and is still worth a row.
Meant == was \cap Rows

\* What a worker's run was meant to publish is in the rows, then in what is
\* read, then in the index, whoever writes that.
Publishing ==
    marked /\ ~ failed =>
       /\ at["worker"] \in {"wait", "read", "write", "unmark"} => was \subseteq known \cup lessons
       /\ at["worker"] = "unmark" => Meant \subseteq index
       /\ \A a \in Actors :
             at[a] = "write" /\ at["worker"] \in {"write", "unmark"} => Meant \subseteq read[a]

\* What a reader has read is as good as the index.
Good(a) ==
    /\ read[a] \subseteq Rows /\ index \ revoked \subseteq read[a]
    /\ marker \/ \A x \in Due : \/ x \in read[a] \cup lost
                                \/ \E b \in Actors \ {a} : x \in change[b]
Readers == \A a \in Actors : at[a] = "write" => Good(a)

Explained(x) == x \in lost \/ \E a \in Actors : x \in change[a]
Lag == marker \/ \A x \in Due : (x \in Rows /\ x \in index) \/ Explained(x)

IInv == /\ Maps /\ Stored /\ Holding /\ Changes
        /\ MarkedRun /\ Publishing /\ Readers /\ Lag
-------------------------------------------------------------------------------
\* What an actor may do with the leases: take free ones and give back its own.
Leasing(a) ==
    /\ lease' = [l \in Leases |-> lease'[l]]
    /\ \A l \in Leases : lease'[l] = lease[l] \/ lease[l] \in {None, a}

LEMMA LeaseKept == ASSUME Maps, NEW a, UNCHANGED lease PROVE Leasing(a)
BY DEF Maps, Leasing

LEMMA LeaseTaken == ASSUME Maps, NEW a, NEW l, Take(a, l) PROVE Leasing(a)
BY DEF Maps, Leasing, Take

LEMMA LeasesReturned == ASSUME NEW a, lease' = Without(a) PROVE Leasing(a)
BY DEF Leasing, Without

\* Who moves on holding what it needs there takes nothing from anybody.
LEMMA MoveKeepsHolding ==
    ASSUME Maps, Holding, NEW a \in Actors, NEW pc, Go(a, pc), Leasing(a),
           \A l \in Leases : Needs(a, pc, l) => lease'[l] = a
    PROVE  Holding'
<1>1. \A b \in Actors : at'[b] = IF b = a THEN pc ELSE at[b]
  BY DEF Maps, Go
<1>2. SUFFICES ASSUME NEW b \in Actors, NEW l \in Leases, Needs(b, at'[b], l)
               PROVE  lease'[l] = b
  BY DEF Holding, Needs
<1>3. CASE b = a
  BY <1>1, <1>2, <1>3
<1>4. CASE b # a
  <2>1. Needs(b, at[b], l)
    BY <1>1, <1>2, <1>4
  <2>2. lease[l] = b
    BY <2>1 DEF Holding
  <2> QED BY <2>2, <1>4, NamesDiffer DEF Leasing
<1> QED BY <1>3, <1>4

\* Two actors that need the projection lease are one.
LEMMA OneHolds ==
    ASSUME Holding, NEW a \in Actors, NEW b \in Actors,
           Needs(a, at[a], Projection), Needs(b, at[b], Projection)
    PROVE  a = b
BY DEF Holding, Projection, Leases

\* A step that moves an actor and changes neither rows nor index nor marker.
\* It must hold what it needs, keep its changes where they belong, and it does
\* not come to write.
Moving(a, pc) == Go(a, pc) /\ Leasing(a) /\ \A l \in Leases : Needs(a, pc, l) => lease'[l] = a

LEMMA QuietStep ==
    ASSUME IInv, Quiet, NEW a \in Actors, NEW pc, Moving(a, pc), pc # "write",
           change[a] = {},
           MarkedRun', Publishing'
    PROVE  IInv'
<1>1. \A b \in Actors : at'[b] = IF b = a THEN pc ELSE at[b]
  BY DEF IInv, Maps, Moving, Go
<1>2. Maps' /\ Stored'
  BY DEF IInv, Maps, Stored, Moving, Go, Leasing, Quiet, storeVars
<1>3. Holding'
  BY MoveKeepsHolding DEF IInv, Moving
<1>4. Changes'
  BY <1>1 DEF IInv, Changes, Quiet, storeVars, Actors
<1>5. Readers'
  BY <1>1 DEF IInv, Readers, Good, Rows, Due, Quiet, storeVars
<1>6. Lag'
  BY DEF IInv, Lag, Explained, Rows, Due, Quiet, storeVars
<1> QED BY <1>2, <1>3, <1>4, <1>5, <1>6 DEF IInv
-------------------------------------------------------------------------------
(* Entering, waiting and leaving: quiet steps *)

\* Whoever goes home holds nothing it needs.
LEMMA FinishMoves == ASSUME Maps, NEW a \in Actors, Finish(a) PROVE Moving(a, "idle")
<1>1. Leasing(a)
  BY LeasesReturned DEF Finish
<1>2. \A l \in Leases : ~ Needs(a, "idle", l)
  BY DEF Needs
<1> QED BY <1>1, <1>2 DEF Moving, Finish

\* A run that is not the worker's, or has nothing marked, owes no publication.
LEMMA NotTheWorkers ==
    ASSUME IInv, Quiet, UNCHANGED workerVars, NEW a \in Actors, NEW pc, Go(a, pc),
           pc # "write", a = "worker" => pc \in {"idle", "looked", "leased"}
    PROVE  MarkedRun' /\ Publishing'
<1>1. \A b \in Actors : at'[b] = IF b = a THEN pc ELSE at[b]
  BY DEF IInv, Maps, Go
<1>2. MarkedRun'
  BY <1>1 DEF IInv, MarkedRun, Quiet, workerVars, storeVars, Actors
<1>3. Publishing'
  BY <1>1 DEF IInv, Publishing, Meant, Rows, Quiet, workerVars, storeVars, Actors
<1> QED BY <1>2, <1>3

\* Elsewhere an actor has nothing left to mark or to publish.
LEMMA NothingPending ==
    ASSUME Changes, NEW a \in Actors,
           at[a] \notin {"read", "write", "mark", "migrated"} \/ a = "worker"
    PROVE  change[a] = {}
BY DEF Changes

LEMMA LookKeeps == ASSUME IInv, NEW a \in Entering, Look(a) PROVE IInv'
<1>1. a \in Actors
  BY DEF Entering, Actors
<1>2. Moving(a, "looked")
  <2>1. Leasing(a)
    BY LeaseKept DEF Look, IInv
  <2> QED BY <2>1 DEF Moving, Look, Needs, Entering
<1>3. MarkedRun' /\ Publishing'
  BY <1>1, NotTheWorkers DEF Look
<1>4. change[a] = {}
  BY <1>1, NothingPending DEF IInv, Look
<1> QED BY <1>1, <1>2, <1>3, <1>4, QuietStep DEF Look

LEMMA AcquireKeeps == ASSUME IInv, NEW a \in Entering, Acquire(a) PROVE IInv'
<1>1. a \in Actors /\ Own(a) \in Leases /\ Own(a) # Projection
  BY DEF Entering, Actors, Own, Leases, Projection
<1>2. change[a] = {}
  BY <1>1, NothingPending DEF IInv, Acquire
<1>3. CASE Take(a, Own(a)) /\ Go(a, "leased")
  <2>1. Moving(a, "leased")
    <3>1. Leasing(a) /\ lease'[Own(a)] = a
      BY <1>1, <1>3, LeaseTaken DEF Take, IInv, Maps
    <3>2. \A l \in Leases : Needs(a, "leased", l) => l = Own(a)
      BY DEF Needs, Entering
    <3> QED BY <1>3, <3>1, <3>2 DEF Moving
  <2>2. MarkedRun' /\ Publishing'
    BY <1>1, <1>3, NotTheWorkers DEF Acquire
  <2> QED BY <1>1, <1>2, <2>1, <2>2, QuietStep DEF Acquire
<1>4. CASE Finish(a)
  <2>1. MarkedRun' /\ Publishing'
    BY <1>1, <1>4, NotTheWorkers DEF Acquire, Finish
  <2>2. Moving(a, "idle")
    BY <1>1, <1>4, FinishMoves DEF IInv
  <2> QED BY <1>1, <1>2, <2>1, <2>2, QuietStep DEF Acquire
<1> QED BY <1>3, <1>4 DEF Acquire

\* The worker that finds the marker set takes it for its own.
LEMMA RecheckKeeps == ASSUME IInv, NEW a \in Entering, Recheck(a) PROVE IInv'
<1>1. a \in Actors /\ at[a] = "leased"
  BY DEF Entering, Actors, Recheck
<1>2. change[a] = {}
  BY <1>1 DEF IInv, Changes, Entering
<1>3. CASE Maintenance
  <2>1. Finish(a) /\ UNCHANGED workerVars
    BY <1>3 DEF Recheck
  <2>2. MarkedRun' /\ Publishing'
    BY <1>1, <2>1, NotTheWorkers DEF Recheck, Finish
  <2>3. Moving(a, "idle")
    BY <1>1, <2>1, FinishMoves DEF IInv
  <2> QED BY <1>1, <1>2, <2>2, <2>3, QuietStep DEF Recheck
<1>4. CASE ~ Maintenance
  <2>1. Go(a, "running") /\ UNCHANGED lease /\ Quiet
    BY <1>4 DEF Recheck
  <2>2. Moving(a, "running")
    <3>1. \A l \in Leases : Needs(a, "running", l) => Needs(a, at[a], l)
      BY <1>1 DEF Needs, Entering
    <3> QED BY <1>1, <2>1, <3>1, LeaseKept DEF Moving, IInv, Holding
  <2>3. MarkedRun' /\ Publishing'
    <3>1. CASE a = "worker"
      <4>1. at'["worker"] = "running" /\ marked' = marker /\ marker' = marker
        BY <1>1, <1>4, <2>1, <3>1 DEF Recheck, Go, IInv, Maps, Quiet
      <4> QED BY <4>1 DEF MarkedRun, Publishing
    <3>2. CASE a # "worker"
      BY <1>1, <1>4, <2>1, <3>2, NotTheWorkers DEF Recheck
    <3> QED BY <3>1, <3>2
  <2> QED BY <1>1, <1>2, <2>1, <2>2, <2>3, QuietStep
<1> QED BY <1>3, <1>4

\* An actor that goes home without having changed anything.
LEMMA HomeKeeps ==
    ASSUME IInv, Quiet, UNCHANGED workerVars, NEW a \in Actors, Finish(a),
           change[a] = {}
    PROVE  IInv'
<1>1. Moving(a, "idle")
  BY FinishMoves DEF IInv
<1>2. MarkedRun' /\ Publishing'
  BY NotTheWorkers DEF Finish
<1> QED BY <1>1, <1>2, QuietStep

LEMMA LeavingKeeps ==
    ASSUME IInv,
           \/ \E a \in {"reconciler", "learner", "control"} : NothingToDo(a)
           \/ Busy \/ UpgradeReturns
    PROVE  IInv'
<1>1. ASSUME NEW a \in {"reconciler", "learner", "control"}, NothingToDo(a) PROVE IInv'
  BY <1>1, HomeKeeps DEF NothingToDo, IInv, Changes, Actors
<1>2. CASE Busy
  BY <1>2, HomeKeeps DEF Busy, IInv, Changes, Actors
<1>3. CASE UpgradeReturns
  BY <1>3, HomeKeeps, NothingPending DEF UpgradeReturns, IInv, Actors
<1> QED BY <1>1, <1>2, <1>3

\* Taking the projection lease, and looking again under it.
LEMMA TakeProjectionKeeps ==
    ASSUME IInv,
           \/ TakeProjection("worker", "wait", "read")
           \/ TakeProjection("learner", "try", "check")
           \/ TakeProjection("control", "idle", "open")
    PROVE  IInv'
<1>1. ASSUME NEW a \in Actors, NEW from, NEW to, TakeProjection(a, from, to),
             \/ a = "worker" /\ from = "wait" /\ to = "read"
             \/ a = "learner" /\ from = "try" /\ to = "check"
             \/ a = "control" /\ from = "idle" /\ to = "open"
      PROVE  IInv'
  <2>1. Leasing(a) /\ lease'[Projection] = a
    BY <1>1, LeaseTaken DEF TakeProjection, Take, IInv, Maps, Projection, Leases
  <2>2. \A l \in Leases : lease'[l] = lease[l] \/ l = Projection
    BY <1>1 DEF TakeProjection, Take, IInv, Maps, Projection
  <2>3. \A l \in Leases : Needs(a, to, l) => l = Projection \/ Needs(a, from, l)
    BY <1>1 DEF Needs, Entering
  <2>4. Moving(a, to)
    BY <1>1, <2>1, <2>2, <2>3 DEF Moving, TakeProjection, IInv, Holding
  <2>5. change[a] = {}
    BY <1>1 DEF TakeProjection, IInv, Changes
  <2>6. \A b \in Actors : at'[b] = IF b = a THEN to ELSE at[b]
    BY <1>1 DEF TakeProjection, Go, IInv, Maps
  <2>7. MarkedRun'
    BY <1>1, <2>6 DEF TakeProjection, IInv, MarkedRun, Quiet, workerVars, storeVars, Actors
  <2>8. Publishing'
    BY <1>1, <2>6 DEF TakeProjection, IInv, Publishing, Meant, Rows, Quiet, workerVars,
                      storeVars, Actors
  <2> QED BY <1>1, <2>4, <2>5, <2>7, <2>8, QuietStep DEF TakeProjection
<1> QED BY <1>1 DEF Actors

LEMMA StillEnabledKeeps == ASSUME IInv, StillEnabled PROVE IInv'
<1>1. "learner" \in Actors /\ change["learner"] = {}
  BY DEF Actors, IInv, Changes, StillEnabled
<1>2. CASE Maintenance
  BY <1>1, <1>2, HomeKeeps DEF StillEnabled
<1>3. CASE ~ Maintenance
  <2>1. Go("learner", "read") /\ UNCHANGED lease /\ Quiet /\ UNCHANGED workerVars
    BY <1>3 DEF StillEnabled
  <2>2. Moving("learner", "read")
    <3>1. \A l \in Leases : Needs("learner", "read", l) => Needs("learner", at["learner"], l)
      BY DEF Needs, Entering, StillEnabled
    <3> QED BY <1>1, <2>1, <3>1, LeaseKept DEF Moving, IInv, Holding
  <2>3. MarkedRun' /\ Publishing'
    BY <1>1, <2>1, NotTheWorkers
  <2> QED BY <1>1, <2>1, <2>2, <2>3, QuietStep
<1> QED BY <1>2, <1>3

LEMMA BeginUpgradeKeeps == ASSUME IInv, BeginUpgrade PROVE IInv'
<1>1. "adapter" \in Actors
  BY DEF Actors
<1>2. Moving("adapter", "begun")
  BY LeaseKept DEF Moving, BeginUpgrade, IInv, Needs, Entering
<1>3. MarkedRun' /\ Publishing'
  BY <1>1, NotTheWorkers DEF BeginUpgrade
<1> QED BY <1>1, <1>2, <1>3, QuietStep, NothingPending DEF BeginUpgrade, IInv

\* A drain waits for one lease after the other, and keeps those it has.
LEMMA DrainKeeps ==
    ASSUME IInv,
           \/ Drain("learning-inference", "begun", "learner drained")
           \/ Drain("capture-worker", "learner drained", "drained")
           \/ Drain("knowledge-projection", "drained", "alone")
    PROVE  IInv'
<1>1. ASSUME NEW l \in Leases, NEW from, NEW to, Drain(l, from, to),
             \/ l = "learning-inference" /\ from = "begun" /\ to = "learner drained"
             \/ l = "capture-worker" /\ from = "learner drained" /\ to = "drained"
             \/ l = "knowledge-projection" /\ from = "drained" /\ to = "alone"
      PROVE  IInv'
  <2>1. "adapter" \in Actors
    BY DEF Actors
  <2>2. Leasing("adapter") /\ lease'[l] = "adapter"
    BY <1>1, LeaseTaken DEF Drain, Take, IInv, Maps
  <2>3. \A m \in Leases : lease'[m] = lease[m] \/ m = l
    BY <1>1 DEF Drain, Take, IInv, Maps
  <2>4. \A m \in Leases : Needs("adapter", to, m) => m = l \/ Needs("adapter", from, m)
    <3>1. ~ ("adapter" \in Entering)
      BY DEF Entering
    <3>2. CASE from = "begun" /\ to = "learner drained" /\ l = "learning-inference"
      BY <3>1, <3>2 DEF Needs
    <3>3. CASE from = "learner drained" /\ to = "drained" /\ l = "capture-worker"
      BY <3>1, <3>3 DEF Needs
    <3>4. CASE from = "drained" /\ to = "alone" /\ l = "knowledge-projection"
      BY <3>1, <3>4 DEF Needs, Projection
    <3> QED BY <1>1, <3>2, <3>3, <3>4
  <2>5. \A m \in Leases : Needs("adapter", from, m) => lease[m] = "adapter"
    BY <1>1, <2>1 DEF Drain, IInv, Holding
  <2>7. Moving("adapter", to)
    BY <1>1, <2>2, <2>3, <2>4, <2>5, Zenon DEF Moving, Drain
  <2>6. MarkedRun' /\ Publishing'
    BY <1>1, <2>1, NotTheWorkers DEF Drain
  <2> QED BY <1>1, <2>1, <2>7, <2>6, QuietStep, NothingPending DEF Drain, IInv
<1> QED BY <1>1 DEF Leases
-------------------------------------------------------------------------------
(* The worker's run *)

\* It remembers what is due when it reads the capabilities: all that is in the
\* rows, or will be once the corrections have been derived.
LEMMA EndBatchKeeps == ASSUME IInv, EndBatch PROVE IInv'
<1> DEFINE pc == IF marked THEN "derive" ELSE IF "retrieval" \in on THEN "wait" ELSE "unmark"
<1>1. "worker" \in Actors /\ Go("worker", pc)
  BY DEF Actors, EndBatch
<1>2. at'["worker"] = pc
  BY <1>1 DEF Go, IInv, Maps
<1>3. Moving("worker", pc)
  <2>1. \A l \in Leases : Needs("worker", pc, l) => Needs("worker", "running", l)
    BY DEF Needs, Entering
  <2> QED BY <1>1, <2>1, LeaseKept DEF Moving, EndBatch, IInv, Holding
<1>4. MarkedRun'
  <2>1. was' = IF "retrieval" \notin on THEN {}
               ELSE (lessons \ revoked) \cup (IF "correction_learning" \in on THEN events ELSE known)
    BY DEF EndBatch, Due
  <2> QED BY <1>2, <2>1 DEF IInv, MarkedRun, EndBatch, Quiet, storeVars
<1>5. Publishing'
  BY <1>2 DEF Publishing, EndBatch
<1> QED BY <1>1, <1>3, <1>4, <1>5, QuietStep, NothingPending DEF EndBatch, IInv

LEMMA NothingToPublishKeeps == ASSUME IInv, NothingToPublish PROVE IInv'
<1>1. "worker" \in Actors /\ at'["worker"] = "unmark"
  BY DEF Actors, NothingToPublish, Go, IInv, Maps
<1>2. Moving("worker", "unmark")
  <2>1. lease[Projection] = "worker"
    BY DEF IInv, Holding, Needs, NothingToPublish, Actors, Leases, Projection
  <2>2. Leasing("worker")
    BY <2>1 DEF Leasing, NothingToPublish, IInv, Maps, Projection
  <2>3. \A l \in Leases : Needs("worker", "unmark", l) =>
                              l # Projection /\ Needs("worker", "read", l)
    BY DEF Needs, Entering, Own, Projection
  <2> QED BY <1>1, <2>2, <2>3 DEF Moving, NothingToPublish, IInv, Holding, Maps, Projection
<1>3. MarkedRun' /\ Publishing'
  BY <1>1 DEF MarkedRun, Publishing, NothingToPublish, workerVars
<1> QED BY <1>1, <1>2, <1>3, QuietStep, NothingPending DEF NothingToPublish, IInv

LEMMA WaitExpiresKeeps == ASSUME IInv, WaitExpires PROVE IInv'
<1>1. "worker" \in Actors /\ at'["worker"] = "unmark"
  BY DEF Actors, WaitExpires, Go, IInv, Maps
<1>2. Moving("worker", "unmark")
  <2>1. \A l \in Leases : Needs("worker", "unmark", l) => Needs("worker", "wait", l)
    BY DEF Needs, Entering
  <2> QED BY <1>1, <2>1, LeaseKept DEF Moving, WaitExpires, IInv, Holding
<1>3. MarkedRun' /\ Publishing'
  BY <1>1 DEF IInv, MarkedRun, Publishing, WaitExpires, Quiet
<1> QED BY <1>1, <1>2, <1>3, QuietStep, NothingPending DEF WaitExpires, IInv

\* A marker set is an explanation of everything.
LEMMA MarkerExplains ==
    ASSUME marker', \A a \in Actors : at'[a] = "write" =>
                       read'[a] \subseteq Rows' /\ index' \ revoked' \subseteq read'[a]
    PROVE  Readers' /\ Lag'
BY DEF Readers, Good, Lag

LEMMA MarkDirtyKeeps == ASSUME IInv, MarkDirty PROVE IInv'
<1>1. Maps' /\ Stored' /\ Holding' /\ Changes'
  BY DEF IInv, Maps, Stored, Holding, Changes, MarkDirty, storeVars
<1>2. MarkedRun'
  BY DEF MarkDirty, MarkedRun
<1>3. Publishing'
  BY DEF MarkDirty, Publishing
<1>4. Readers' /\ Lag'
  BY MarkerExplains DEF IInv, Readers, Good, Rows, MarkDirty, storeVars
<1> QED BY <1>1, <1>2, <1>3, <1>4 DEF IInv

LEMMA StoreKeeps == ASSUME IInv, NEW e \in Events, Store(e) PROVE IInv'
<1>1. Maps' /\ Stored' /\ Holding' /\ Changes'
  BY DEF IInv, Maps, Stored, Holding, Changes, Store, workerVars
<1>2. MarkedRun' /\ Publishing'
  BY DEF IInv, MarkedRun, Publishing, Meant, Rows, Store, workerVars
<1>3. Readers' /\ Lag'
  BY MarkerExplains DEF IInv, MarkedRun, Readers, Good, Rows, Store, workerVars
<1> QED BY <1>1, <1>2, <1>3 DEF IInv

\* Deriving, or failing to: the rows only grow, and hold what the batch stored.
LEMMA DeriveKeeps == ASSUME IInv, Derive PROVE IInv'
<1> DEFINE pc == IF "retrieval" \in saw THEN "wait" ELSE "unmark"
<1>1. "worker" \in Actors /\ Go("worker", pc) /\ marked
  BY DEF Actors, Derive, IInv, MarkedRun
<1>2. \A b \in Actors : at'[b] = IF b = "worker" THEN pc ELSE at[b]
  BY <1>1 DEF Go, IInv, Maps
<1>3. known \subseteq known' /\ known' \subseteq events'
  BY DEF Derive, IInv, Stored
<1>4. Maps' /\ Stored'
  BY <1>3 DEF IInv, Maps, Stored, Derive, Go
<1>5. Holding'
  <2>1. \A l \in Leases : Needs("worker", pc, l) => Needs("worker", "derive", l)
    BY DEF Needs, Entering
  <2> QED BY <1>1, <2>1, LeaseKept, MoveKeepsHolding DEF Derive, IInv, Holding
<1>6. Changes'
  BY <1>2 DEF IInv, Changes, Derive, Actors
<1>7. MarkedRun'
  BY <1>1, <1>2 DEF IInv, MarkedRun, Derive
<1>8. Publishing'
  <2>1. SUFFICES ASSUME ~ failed' PROVE was \subseteq known' \cup lessons /\ (pc = "unmark" => was = {})
    BY <1>1, <1>2, <2>1 DEF Publishing, Meant, Derive
  <2> QED BY <1>1, <1>2, <2>1 DEF IInv, MarkedRun, Derive
<1>9. Readers' /\ Lag'
  <2>1. marker'
    BY <1>1 DEF IInv, MarkedRun, Derive
  <2> QED BY <1>2, <1>3, <2>1, MarkerExplains DEF IInv, Readers, Good, Rows, Derive
<1> QED BY <1>4, <1>5, <1>6, <1>7, <1>8, <1>9 DEF IInv

\* What is due and known at all is a row, and not revoked.
LEMMA DueIsARow ==
    ASSUME Stored, NEW x \in Due, x \in known \cup lessons
    PROVE  x \in Rows /\ x \notin revoked
BY NamesDiffer DEF Stored, Due, Rows

\* What the run was meant to publish and what is not due any more needs no
\* marker; what became due since is what `lost` gains.
LEMMA UnmarkKeeps == ASSUME IInv, Unmark PROVE IInv'
<1>1. "worker" \in Actors /\ Finish("worker")
  BY DEF Actors, Unmark
<1>2. \A b \in Actors : at'[b] = IF b = "worker" THEN "idle" ELSE at[b]
  BY <1>1 DEF Finish, Go, IInv, Maps
<1>3. Maps' /\ Stored' /\ Changes'
  BY <1>1, <1>2, FinishMoves DEF IInv, Maps, Stored, Changes, Unmark, Finish, Go, Moving,
                               Leasing, storeVars
<1>4. Holding'
  BY <1>1, FinishMoves, MoveKeepsHolding DEF IInv, Moving
<1>5. MarkedRun' /\ Publishing'
  BY <1>1, <1>2 DEF MarkedRun, Publishing, Unmark, Forget
<1>6. Due' = Due /\ Rows' = Rows
  BY DEF Due, Rows, Unmark, storeVars
<1>7. CASE failed \/ ~ marked
  <2>1. Readers' /\ Lag'
    BY <1>2, <1>6, <1>7 DEF IInv, Readers, Good, Lag, Explained, Unmark, storeVars
  <2> QED BY <1>3, <1>4, <1>5, <2>1 DEF IInv
<1>8. CASE marked /\ ~ failed
  <2>1. was \subseteq known \cup lessons /\ Meant \subseteq index
    BY <1>8 DEF IInv, Publishing, Unmark
  <2>2. lost' = lost \cup (Due \ (index \cup was)) /\ UNCHANGED <<index, read, change, revoked>>
    BY <1>8 DEF Unmark, storeVars
  <2>3. ASSUME NEW x \in Due, x \notin lost'
        PROVE  x \in Rows /\ x \notin revoked /\ x \in index
    <3>1. x \in index \cup was
      BY <2>2, <2>3
    <3>2. x \in Rows /\ x \notin revoked
      BY <2>1, <2>3, <3>1, DueIsARow DEF IInv, Stored
    <3> QED BY <2>1, <3>1, <3>2 DEF Meant
  <2>4. Lag'
    BY <1>6, <2>2, <2>3 DEF Lag, Explained
  <2>5. Readers'
    BY <1>2, <1>6, <2>2, <2>3 DEF IInv, Readers, Good
  <2> QED BY <1>3, <1>4, <1>5, <2>4, <2>5 DEF IInv
<1> QED BY <1>7, <1>8
-------------------------------------------------------------------------------
(* Publishing *)

LEMMA ReadRowsKeeps ==
    ASSUME IInv, NEW a \in {"worker", "learner", "control"}, ReadRows(a) PROVE IInv'
<1>1. a \in Actors /\ Projection \in Leases /\ Needs(a, at[a], Projection)
  BY DEF Actors, Leases, Projection, Needs, ReadRows
<1>2. \A b \in Actors : /\ at'[b] = IF b = a THEN "write" ELSE at[b]
                        /\ read'[b] = IF b = a THEN Rows ELSE read[b]
  BY DEF ReadRows, Go, IInv, Maps
<1>3. \A b \in Actors : at'[b] = "write" => b = a
  BY <1>1, <1>2, OneHolds DEF Needs, IInv
<1>4. Maps' /\ Stored'
  BY DEF IInv, Maps, Stored, ReadRows, Go, storeVars
<1>5. Holding'
  <2>1. \A l \in Leases : Needs(a, "write", l) => Needs(a, "read", l)
    BY DEF Needs, Entering
  <2> QED BY <1>1, <2>1, LeaseKept, MoveKeepsHolding DEF ReadRows, IInv, Holding
<1>6. Changes'
  BY <1>2 DEF IInv, Changes, ReadRows, storeVars, Actors
<1>7. MarkedRun' /\ Rows' = Rows /\ Due' = Due
  BY <1>2 DEF IInv, MarkedRun, Rows, Due, ReadRows, storeVars, workerVars, Actors
<1>8. Publishing'
  <2>1. UNCHANGED <<was, marked, failed, known, lessons, index>>
    BY DEF ReadRows, storeVars, workerVars
  <2>2. at'["worker"] \in {"wait", "read", "write", "unmark"} =>
           at["worker"] \in {"wait", "read", "write", "unmark"}
    BY <1>2 DEF ReadRows, Actors
  <2>3. at'["worker"] = "unmark" => at["worker"] = "unmark"
    BY <1>2 DEF Actors
  <2> QED BY <1>2, <1>3, <1>7, <2>1, <2>2, <2>3 DEF IInv, Publishing, Meant
<1>9. Readers'
  <2>1. index \ revoked \subseteq Rows
    BY DEF IInv, Stored, Rows
  <2>2. change[a] \subseteq Rows
    BY <1>1 DEF IInv, Changes, Rows, ReadRows
  <2>3. marker \/ \A x \in Due : x \in Rows \cup lost \/ \E b \in Actors \ {a} : x \in change[b]
    BY <2>2 DEF IInv, Lag, Explained
  <2>4. Good(a)'
    BY <1>1, <1>2, <1>7, <2>1, <2>3 DEF Good, ReadRows, storeVars
  <2> QED BY <1>3, <2>4 DEF Readers
<1>10. Lag'
  BY <1>7 DEF IInv, Lag, Explained, ReadRows, storeVars
<1> QED BY <1>4, <1>5, <1>6, <1>7, <1>8, <1>9, <1>10 DEF IInv

LEMMA WriteIndexKeeps ==
    ASSUME IInv, NEW a \in {"worker", "learner", "control"}, WriteIndex(a) PROVE IInv'
<1> DEFINE pc == IF a = "worker" THEN "unmark" ELSE "idle"
<1>1. a \in Actors /\ Projection \in Leases /\ Needs(a, at[a], Projection) /\ at[a] = "write"
  BY DEF Actors, Leases, Projection, Needs, WriteIndex
<1>2. Go(a, pc) /\ Good(a)
  BY <1>1 DEF WriteIndex, Finish, IInv, Readers
<1>3. \A b \in Actors : /\ at'[b] = IF b = a THEN pc ELSE at[b]
                        /\ read'[b] = IF b = a THEN {} ELSE read[b]
                        /\ change'[b] = IF b = a THEN {} ELSE change[b]
  BY <1>2 DEF WriteIndex, Go, IInv, Maps
<1>4. \A b \in Actors : b # a => at[b] # "write"
  BY <1>1, OneHolds DEF Needs, IInv
<1>5. Leasing(a) /\ \A l \in Leases : Needs(a, pc, l) => lease'[l] = a
  <2>1. CASE a # "worker"
    BY <1>1, <2>1, FinishMoves DEF WriteIndex, IInv, Moving
  <2>2. CASE a = "worker"
    <3>1. lease[Projection] = "worker" /\ lease' = [lease EXCEPT ![Projection] = None]
      BY <1>1, <2>2 DEF IInv, Holding, WriteIndex, Projection
    <3>2. Leasing("worker")
      BY <3>1 DEF Leasing, IInv, Maps
    <3>3. \A l \in Leases : Needs("worker", "unmark", l) =>
                                l # Projection /\ Needs("worker", "write", l)
      BY DEF Needs, Entering, Own, Projection
    <3> QED BY <1>1, <2>2, <3>1, <3>2, <3>3 DEF IInv, Holding, Maps
  <2> QED BY <2>1, <2>2
<1>6. Holding'
  BY <1>1, <1>2, <1>5, MoveKeepsHolding DEF IInv
<1>7. Rows' = Rows /\ Due' = Due /\ index' = read[a]
  BY DEF Rows, Due, WriteIndex, storeVars
<1>8. Maps' /\ Stored'
  BY <1>2, <1>5, <1>7 DEF IInv, Maps, Stored, WriteIndex, Go, Leasing, Good, Rows, storeVars
<1>9. Changes'
  BY <1>3 DEF IInv, Changes, WriteIndex, storeVars, Actors
<1>10. MarkedRun'
  BY <1>3 DEF IInv, MarkedRun, WriteIndex, storeVars, workerVars, Actors
<1>11. Publishing'
  <2>1. UNCHANGED <<was, marked, failed, known, lessons>> /\ Meant' = Meant
    BY <1>7 DEF WriteIndex, storeVars, workerVars, Meant
  <2>2. at'["worker"] \in {"wait", "read", "write", "unmark"} =>
           at["worker"] \in {"wait", "read", "write", "unmark"}
    BY <1>1, <1>3 DEF Actors
  <2>3. at'["worker"] = "unmark" => at["worker"] \in {"write", "unmark"}
    BY <1>1, <1>3 DEF Actors
  <2> QED BY <1>1, <1>3, <1>4, <1>7, <2>1, <2>2, <2>3 DEF IInv, Publishing
<1>12. Readers'
  BY <1>3, <1>4 DEF Readers
<1>13. Lag'
  <2>1. UNCHANGED marker /\ lost' = lost \ read[a]
    BY DEF WriteIndex
  <2> QED BY <1>2, <1>3, <1>7, <2>1 DEF Lag, Good, Explained
<1> QED BY <1>6, <1>8, <1>9, <1>10, <1>11, <1>12, <1>13 DEF IInv
-------------------------------------------------------------------------------
(* Changing the store *)

\* Where a change leaves its actor: it marks or publishes next.
LEMMA ChangeMoves ==
    ASSUME IInv, NEW a \in Actors, NEW pc, Go(a, pc), UNCHANGED lease,
           \A l \in Leases : Needs(a, pc, l) => Needs(a, at[a], l)
    PROVE  /\ Holding' /\ at' = [b \in Actors |-> at'[b]]
           /\ \A b \in Actors : at'[b] = IF b = a THEN pc ELSE at[b]
<1>1. Holding'
  BY LeaseKept, MoveKeepsHolding DEF IInv, Holding
<1> QED BY <1>1 DEF IInv, Maps, Go

\* The events an actor adds are explained by its change until it marks them.
LEMMA AddedIsExplained ==
    ASSUME IInv, NEW e \in Events, NEW a \in {"reconciler", "adapter"}, NEW pc \in {"mark", "migrated"},
           events' = events \cup {e}, change' = [change EXCEPT ![a] = {e}], Go(a, pc),
           change[a] = {}, \A l \in Leases : Needs(a, pc, l) => Needs(a, at[a], l),
           UNCHANGED <<known, lessons, revoked, index, marker, on, lease, read, workerVars, lost>>
    PROVE  IInv'
<1>1. a \in Actors
  BY DEF Actors
<1>2. /\ Holding' /\ at' = [b \in Actors |-> at'[b]]
      /\ \A b \in Actors : at'[b] = IF b = a THEN pc ELSE at[b]
  BY <1>1, ChangeMoves
<1>3. \A b \in Actors : change'[b] = IF b = a THEN {e} ELSE change[b]
  BY DEF IInv, Maps
<1>4. Maps' /\ Stored'
  BY <1>2 DEF IInv, Maps, Stored
<1>5. Changes'
  BY <1>2, <1>3 DEF IInv, Changes, Actors
<1>6. MarkedRun' /\ Publishing'
  BY <1>1, <1>2 DEF IInv, MarkedRun, Publishing, Meant, Rows, workerVars, Actors
<1>7. Due' \subseteq Due \cup {e} /\ Rows' = Rows
  BY DEF Due, Rows
<1>8. Readers'
  BY <1>1, <1>2, <1>3, <1>7 DEF IInv, Readers, Good
<1>9. Lag'
  BY <1>1, <1>3, <1>7 DEF IInv, Lag, Explained
<1> QED BY <1>2, <1>4, <1>5, <1>6, <1>8, <1>9 DEF IInv

LEMMA EnrichKeeps == ASSUME IInv, NEW e \in Events, Enrich(e) PROVE IInv'
<1>1. \A l \in Leases : Needs("reconciler", "mark", l) => Needs("reconciler", "running", l)
  BY DEF Needs, Entering
<1>2. change["reconciler"] = {}
  BY NothingPending DEF IInv, Enrich, Actors
<1> QED BY <1>1, <1>2, AddedIsExplained DEF Enrich

LEMMA MigrateKeeps == ASSUME IInv, NEW e \in Events, Migrate(e) PROVE IInv'
<1>1. \A l \in Leases : Needs("adapter", "migrated", l) => Needs("adapter", "alone", l)
  BY DEF Needs, Entering
<1>2. change["adapter"] = {}
  BY NothingPending DEF IInv, Migrate, Actors
<1> QED BY <1>1, <1>2, AddedIsExplained DEF Migrate

\* A lesson that is added: a worker that is about to publish does not mean it.
LEMMA LearntIsExplained ==
    ASSUME IInv, NEW x \in Lessons, x \notin lessons, NEW a \in {"learner", "control"}, NEW pc,
           lessons' = lessons \cup {x}, change' = [change EXCEPT ![a] = {x}], Go(a, pc),
           change[a] = {}, \A l \in Leases : Needs(a, pc, l) => Needs(a, at[a], l),
           \/ a = "learner" /\ pc = "mark"
           \/ a = "control" /\ pc = "read",
           UNCHANGED <<events, known, revoked, index, marker, on, lease, read, workerVars, lost>>
    PROVE  IInv'
<1>1. a \in Actors
  BY DEF Actors
<1>2. /\ Holding' /\ at' = [b \in Actors |-> at'[b]]
      /\ \A b \in Actors : at'[b] = IF b = a THEN pc ELSE at[b]
  BY <1>1, ChangeMoves
<1>3. \A b \in Actors : change'[b] = IF b = a THEN {x} ELSE change[b]
  BY DEF IInv, Maps
<1>4. Maps' /\ Stored'
  BY <1>2 DEF IInv, Maps, Stored
<1>5. x \notin revoked
  BY DEF IInv, Stored
<1>6. Changes'
  BY <1>2, <1>3, <1>5 DEF IInv, Changes, Actors
<1>7. MarkedRun'
  BY <1>1, <1>2 DEF IInv, MarkedRun, workerVars, Actors
<1>8. Due' \subseteq Due \cup {x} /\ Rows' = Rows \cup {x}
  BY <1>5 DEF Due, Rows
<1>9. Publishing'
  <2>1. SUFFICES ASSUME marked, ~ failed,
                        at["worker"] \in {"wait", "read", "write", "unmark"}
                 PROVE  was \subseteq known \cup lessons' /\ Meant' = Meant
    BY <1>1, <1>2 DEF IInv, Publishing, workerVars, Actors
  <2>2. was \subseteq known \cup lessons
    BY <2>1 DEF IInv, Publishing
  <2>3. x \notin was
    BY <2>2, NamesDiffer DEF IInv, Stored
  <2> QED BY <1>8, <2>2, <2>3 DEF Meant, workerVars
<1>10. Readers'
  BY <1>1, <1>2, <1>3, <1>8 DEF IInv, Readers, Good
<1>11. Lag'
  BY <1>1, <1>3, <1>8 DEF IInv, Lag, Explained
<1> QED BY <1>2, <1>4, <1>6, <1>7, <1>9, <1>10, <1>11 DEF IInv

LEMMA CommitKeeps == ASSUME IInv, NEW x \in Lessons, Commit(x) PROVE IInv'
<1>1. \A l \in Leases : Needs("learner", "mark", l) => Needs("learner", "running", l)
  BY DEF Needs, Entering
<1>2. change["learner"] = {}
  BY NothingPending DEF IInv, Commit, Actors
<1> QED BY <1>1, <1>2, LearntIsExplained DEF Commit

LEMMA RememberKeeps == ASSUME IInv, NEW x \in Lessons, Remember(x) PROVE IInv'
<1>1. \A l \in Leases : Needs("control", "read", l) => Needs("control", "open", l)
  BY DEF Needs, Entering
<1>2. change["control"] = {}
  BY NothingPending DEF IInv, Remember, Actors
<1> QED BY <1>1, <1>2, LearntIsExplained DEF Remember

\* Nobody else is between its read and its write when the user revokes.
LEMMA RevokeKeeps == ASSUME IInv, NEW x \in Lessons, Revoke(x) PROVE IInv'
<1>1. "control" \in Actors /\ Projection \in Leases /\ Needs("control", at["control"], Projection)
  BY DEF Actors, Leases, Projection, Needs, Revoke
<1>2. \A l \in Leases : Needs("control", "read", l) => Needs("control", at["control"], l)
  BY DEF Needs, Entering, Revoke
<1>3. /\ Holding' /\ at' = [b \in Actors |-> at'[b]]
      /\ \A b \in Actors : at'[b] = IF b = "control" THEN "read" ELSE at[b]
  BY <1>1, <1>2, ChangeMoves DEF Revoke
<1>4. \A b \in Actors : at'[b] # "write"
  BY <1>1, <1>3, OneHolds DEF Needs, IInv
<1>5. Maps' /\ Stored'
  BY <1>3 DEF IInv, Maps, Stored, Revoke
<1>6. Changes'
  BY <1>1, <1>3, NothingPending DEF IInv, Changes, Revoke, Actors
<1>7. Rows' \subseteq Rows /\ Due' \subseteq Due /\ \A y \in Due' : y \in Rows => y \in Rows'
  BY NamesDiffer DEF IInv, Stored, Rows, Due, Revoke
<1>8. MarkedRun'
  BY <1>1, <1>3 DEF IInv, MarkedRun, Revoke, workerVars, Actors
<1>9. Publishing'
  BY <1>1, <1>3, <1>4, <1>7 DEF IInv, Publishing, Meant, Revoke, workerVars, Actors
<1>10. Readers'
  BY <1>4 DEF Readers
<1>11. Lag'
  BY <1>7 DEF IInv, Lag, Explained, Revoke
<1> QED BY <1>3, <1>5, <1>6, <1>8, <1>9, <1>10, <1>11 DEF IInv

LEMMA MarkKeeps ==
    ASSUME IInv, NEW a \in {"reconciler", "learner", "adapter"}, Mark(a) PROVE IInv'
<1> DEFINE pc == IF a = "reconciler" THEN "running" ELSE IF a = "learner" THEN "try" ELSE "idle"
<1>1. a \in Actors /\ Go(a, pc)
  BY DEF Actors, Mark, Finish
<1>2. Moving(a, pc)
  <2>1. CASE a = "adapter"
    BY <1>1, <2>1, FinishMoves DEF Mark, IInv
  <2>2. CASE a # "adapter"
    <3>1. \A l \in Leases : Needs(a, pc, l) => Needs(a, at[a], l)
      BY <2>2 DEF Needs, Entering, Mark
    <3>2. UNCHANGED lease
      BY <2>2 DEF Mark
    <3> QED BY <1>1, <3>1, <3>2, LeaseKept DEF Moving, IInv, Holding
  <2> QED BY <2>1, <2>2
<1>3. Holding'
  BY <1>1, <1>2, MoveKeepsHolding DEF IInv, Moving
<1>4. \A b \in Actors : /\ at'[b] = IF b = a THEN pc ELSE at[b]
                        /\ change'[b] = IF b = a THEN {} ELSE change[b]
  BY <1>1 DEF Mark, Go, IInv, Maps
<1>5. Maps' /\ Stored'
  BY <1>1, <1>2 DEF IInv, Maps, Stored, Mark, Go, Moving, Leasing, storeVars
<1>6. Changes'
  BY <1>4 DEF IInv, Changes, Mark, storeVars, Actors
<1>7. MarkedRun' /\ Publishing'
  BY <1>1, <1>4 DEF IInv, MarkedRun, Publishing, Meant, Rows, Mark, storeVars, workerVars, Actors
<1>8. Readers' /\ Lag'
  BY <1>4, MarkerExplains DEF IInv, Readers, Good, Rows, Mark, storeVars
<1> QED BY <1>3, <1>5, <1>6, <1>7, <1>8 DEF IInv
-------------------------------------------------------------------------------
(* Capabilities, and processes that die *)

LEMMA EnableKeeps == ASSUME IInv, NEW c, Enable(c) PROVE IInv'
<1>1. "adapter" \in Actors /\ \A l \in Leases : ~ Needs("adapter", "mark", l)
  BY DEF Actors, Needs, Entering
<1>2. /\ Holding' /\ at' = [b \in Actors |-> at'[b]]
      /\ \A b \in Actors : at'[b] = IF b = "adapter" THEN "mark" ELSE at[b]
  BY <1>1, ChangeMoves DEF Enable
<1>3. \A b \in Actors : change'[b] = IF b = "adapter" THEN Events \cup Lessons ELSE change[b]
  BY DEF IInv, Maps, Enable
<1>4. Maps' /\ Stored'
  BY <1>2 DEF IInv, Maps, Stored, Enable, storeVars
<1>5. Changes'
  BY <1>2, <1>3 DEF IInv, Changes, Enable, storeVars, Actors
<1>6. MarkedRun' /\ Publishing'
  BY <1>1, <1>2 DEF IInv, MarkedRun, Publishing, Meant, Rows, Enable, storeVars, workerVars, Actors
<1>7. Due' \subseteq change'["adapter"] /\ Rows' = Rows
  BY <1>1, <1>3 DEF IInv, Stored, Due, Rows, Enable, storeVars
<1>8. Readers'
  BY <1>1, <1>2, <1>7 DEF IInv, Readers, Good, Enable, storeVars
<1>9. Lag'
  BY <1>1, <1>7 DEF Lag, Explained
<1> QED BY <1>2, <1>4, <1>5, <1>6, <1>8, <1>9 DEF IInv

LEMMA DisableKeeps == ASSUME IInv, NEW c, Disable(c) PROVE IInv'
<1>1. Due' \subseteq Due /\ Rows' = Rows
  BY DEF IInv, Stored, Due, Rows, Disable, storeVars
<1>2. Maps' /\ Stored' /\ Holding' /\ Changes'
  BY DEF IInv, Maps, Stored, Holding, Changes, Disable, storeVars
<1>3. MarkedRun' /\ Publishing'
  BY DEF IInv, MarkedRun, Publishing, Meant, Rows, Disable, storeVars, workerVars
<1>4. Readers' /\ Lag'
  BY <1>1 DEF IInv, Readers, Good, Lag, Explained, Disable, storeVars
<1> QED BY <1>2, <1>3, <1>4 DEF IInv

\* What a process that dies had pending and is not in the index is lost; what
\* is in the index is in what any other reader has read.
LEMMA DieKeeps == ASSUME IInv, NEW a \in Actors, Die(a) PROVE IInv'
<1>1. \A b \in Actors : /\ at'[b] = IF b = a THEN "idle" ELSE at[b]
                        /\ read'[b] = IF b = a THEN {} ELSE read[b]
                        /\ change'[b] = IF b = a THEN {} ELSE change[b]
  BY DEF Die, Finish, Go, IInv, Maps
<1>2. Maps' /\ Stored'
  BY FinishMoves DEF IInv, Maps, Stored, Die, Finish, Go, Moving, Leasing, storeVars
<1>3. Holding'
  BY FinishMoves, MoveKeepsHolding DEF IInv, Die, Moving
<1>4. Changes'
  BY <1>1 DEF IInv, Changes, Die, storeVars, Actors
<1>5. MarkedRun' /\ Publishing'
  <2>1. CASE a = "worker"
    BY <1>1, <2>1 DEF Die, Forget, MarkedRun, Publishing
  <2>2. CASE a # "worker"
    BY <1>1, <2>2 DEF IInv, MarkedRun, Publishing, Meant, Rows, Die, storeVars, workerVars, Actors
  <2> QED BY <2>1, <2>2
<1>6. UNCHANGED <<Rows, Due, index, revoked, marker>>
  BY DEF Rows, Due, Die, storeVars
<1>7. ASSUME ~ marker, NEW x \in Due, x \in lost \/ x \in change[a]
      PROVE  x \in lost' \/ (x \in index /\ x \in Rows /\ x \notin revoked)
  <2>1. lost' = lost \cup (change[a] \cap (Due \ index))
    BY <1>7 DEF Die
  <2>2. x \in index => x \in Rows /\ x \notin revoked
    BY <1>7, DueIsARow DEF IInv, Stored
  <2> QED BY <1>7, <2>1, <2>2
<1>8. Readers'
  <2>1. SUFFICES ASSUME NEW b \in Actors, at'[b] = "write", ~ marker, NEW x \in Due
                 PROVE  x \in read'[b] \cup lost' \/ \E d \in Actors \ {b} : x \in change'[d]
    BY <1>1, <1>6 DEF IInv, Readers, Good
  <2>2. b # a /\ at[b] = "write" /\ read'[b] = read[b]
    BY <1>1, <2>1
  <2>3. index \ revoked \subseteq read[b]
    BY <2>2 DEF IInv, Readers, Good
  <2>4. x \in read[b] \cup lost \/ \E d \in Actors \ {b} : x \in change[d]
    BY <2>1, <2>2 DEF IInv, Readers, Good
  <2> QED BY <1>1, <1>7, <2>1, <2>2, <2>3, <2>4
<1>9. Lag'
  BY <1>1, <1>6, <1>7 DEF IInv, Lag, Explained
<1> QED BY <1>2, <1>3, <1>4, <1>5, <1>8, <1>9 DEF IInv
-------------------------------------------------------------------------------
LEMMA InitHolds == Init => IInv
<1> SUFFICES ASSUME Init PROVE IInv
  OBVIOUS
<1>1. Maps /\ Stored /\ Changes
  BY DEF Init, Maps, Stored, Changes, Actors
<1>2. Holding
  BY DEF Init, Holding, Needs, Actors, Leases
<1>3. MarkedRun /\ Publishing /\ Readers /\ Lag
  BY DEF Init, MarkedRun, Publishing, Readers, Lag, Due, Actors
<1> QED BY <1>1, <1>2, <1>3 DEF IInv

LEMMA WorkerStepKeeps == ASSUME IInv, WorkerStep PROVE IInv'
<1>1. "worker" \in Entering
  BY DEF Entering
<1>2. CASE Look("worker") \/ Acquire("worker") \/ Recheck("worker")
  BY <1>1, <1>2, LookKeeps, AcquireKeeps, RecheckKeeps
<1>3. CASE MarkDirty \/ EndBatch \/ Derive \/ \E e \in Events : Store(e)
  BY <1>3, MarkDirtyKeeps, EndBatchKeeps, DeriveKeeps, StoreKeeps
<1>4. CASE TakeProjection("worker", "wait", "read") \/ WaitExpires \/ NothingToPublish
  BY <1>4, TakeProjectionKeeps, WaitExpiresKeeps, NothingToPublishKeeps
<1>5. CASE ReadRows("worker") \/ WriteIndex("worker") \/ Unmark
  BY <1>5, ReadRowsKeeps, WriteIndexKeeps, UnmarkKeeps
<1> QED BY <1>2, <1>3, <1>4, <1>5 DEF WorkerStep

LEMMA OtherStepKeeps == ASSUME IInv, OtherStep PROVE IInv'
<1>1. ASSUME NEW a \in {"reconciler", "learner"}, Look(a) \/ Acquire(a) \/ Recheck(a)
      PROVE  IInv'
  BY <1>1, LookKeeps, AcquireKeeps, RecheckKeeps DEF Entering
<1>2. CASE \/ \E a \in {"reconciler", "learner", "control"} : NothingToDo(a)
           \/ Busy \/ UpgradeReturns
  BY <1>2, LeavingKeeps
<1>3. ASSUME NEW a \in {"reconciler", "learner", "adapter"}, Mark(a) PROVE IInv'
  BY <1>3, MarkKeeps
<1>4. ASSUME NEW e \in Events, Enrich(e) \/ Migrate(e) PROVE IInv'
  BY <1>4, EnrichKeeps, MigrateKeeps
<1>5. ASSUME NEW x \in Lessons, Commit(x) \/ Remember(x) \/ Revoke(x) PROVE IInv'
  BY <1>5, CommitKeeps, RememberKeeps, RevokeKeeps
<1>6. CASE TakeProjection("learner", "try", "check") \/ TakeProjection("control", "idle", "open")
  BY <1>6, TakeProjectionKeeps
<1>7. ASSUME NEW a \in {"learner", "control"}, ReadRows(a) \/ WriteIndex(a) PROVE IInv'
  BY <1>7, ReadRowsKeeps, WriteIndexKeeps
<1>8. CASE (\E c \in Capabilities : Enable(c) \/ Disable(c)) \/ BeginUpgrade \/ StillEnabled
  BY <1>8, EnableKeeps, DisableKeeps, BeginUpgradeKeeps, StillEnabledKeeps
<1>9. CASE \/ Drain("learning-inference", "begun", "learner drained")
           \/ Drain("capture-worker", "learner drained", "drained")
           \/ Drain("knowledge-projection", "drained", "alone")
  BY <1>9, DrainKeeps
<1> QED BY <1>1, <1>2, <1>3, <1>4, <1>5, <1>6, <1>7, <1>8, <1>9 DEF OtherStep

LEMMA StutterKeeps == ASSUME IInv, UNCHANGED vars PROVE IInv'
BY DEF IInv, Maps, Stored, Holding, Changes, MarkedRun, Publishing, Meant, Readers, Good, Lag,
       Explained, Rows, Due, vars, storeVars, workerVars, bounds

\* The invariant holds in every reachable state.
THEOREM InvariantHolds == Spec => []IInv
<1>1. IInv /\ [Next]_vars => IInv'
  BY WorkerStepKeeps, OtherStepKeeps, DieKeeps, StutterKeeps DEF Next
<1> QED BY <1>1, InitHolds, PTL DEF Spec
-------------------------------------------------------------------------------
\* What is due in the index and not there is marked, about to be marked or
\* published, or among what `lost` names: of the worker, the reconciler, the
\* learner, the commands and the adapter none loses anything else.
THEOREM LagIsAlwaysExplained == Spec => []LagIsExplained
<1>1. IInv => LagIsExplained
  BY DEF IInv, Lag, Explained, LagIsExplained, Pending
<1> QED BY <1>1, InvariantHolds, PTL

\* Only a reader's write changes the index, and it drops nothing but what has
\* been revoked and brings nothing revoked back.
LEMMA IndexIsKept ==
    ASSUME IInv, [Next]_vars
    PROVE  index \ revoked \subseteq index' /\ index' \cap revoked' \subseteq index
<1>1. CASE \E a \in {"worker", "learner", "control"} : WriteIndex(a)
  <2>1. PICK a \in {"worker", "learner", "control"} : WriteIndex(a)
    BY <1>1
  <2>2. Good(a)
    BY <2>1 DEF WriteIndex, IInv, Readers, Actors
  <2>3. index' = read[a] /\ revoked' = revoked
    BY <2>1 DEF WriteIndex, storeVars
  <2> QED BY <2>2, <2>3, NamesDiffer DEF Good, Rows, IInv, Stored
<1>2. CASE ~ \E a \in {"worker", "learner", "control"} : WriteIndex(a)
  <2>1. UNCHANGED index
    BY <1>2, Zenon
       DEF Next, WorkerStep, OtherStep, vars, Quiet, Look, Acquire, Recheck, TakeProjection,
           ReadRows, MarkDirty, Store, EndBatch, Derive, NothingToPublish, WaitExpires, Unmark,
           Enrich, Commit, Mark, Busy, StillEnabled, NothingToDo, Remember, Revoke, Enable,
           Disable, BeginUpgrade, Drain, Migrate, UpgradeReturns, Die
  <2> QED BY <2>1
<1> QED BY <1>1, <1>2

\* Everybody who would change the store, the index or the marker needs a lease
\* that an upgrade which migrates has.
LEMMA UpgradeIsAlone ==
    ASSUME IInv, at["adapter"] \in {"alone", "migrated"}
    PROVE  /\ at["worker"] \in {"idle", "looked"} /\ at["reconciler"] \in {"idle", "looked"}
           /\ at["learner"] \in {"idle", "looked"} /\ at["control"] = "idle"
<1>1. \A l \in Leases : lease[l] = "adapter"
  BY DEF IInv, Holding, Needs, Actors, Leases, Projection
<1>2. \A a \in Actors \ {"adapter"}, l \in Leases : ~ Needs(a, at[a], l)
  BY <1>1 DEF IInv, Holding
<1> QED BY <1>2 DEF Needs, Actors, Leases, Entering, Own, Projection

LEMMA NobodyMigratesWithOthers ==
    ASSUME IInv, [Next]_vars, at["adapter"] \in {"alone", "migrated"}, at'["adapter"] = at["adapter"]
    PROVE  UNCHANGED <<storeVars, index, marker>>
<1>1. CASE UNCHANGED vars
  BY <1>1 DEF vars
<1>2. CASE WorkerStep
  BY <1>2, UpgradeIsAlone
     DEF WorkerStep, Look, Acquire, Recheck, Quiet, MarkDirty, EndBatch, Derive, NothingToPublish,
         TakeProjection, WaitExpires, ReadRows, WriteIndex, Unmark, Store
<1>3. ASSUME NEW a \in Actors, Die(a) PROVE UNCHANGED <<storeVars, index, marker>>
  BY <1>3 DEF Die
<1>4. CASE OtherStep
  <2>1. ASSUME NEW a \in {"reconciler", "learner"}, Look(a) \/ Acquire(a) \/ Recheck(a)
        PROVE  UNCHANGED <<storeVars, index, marker>>
    BY <2>1 DEF Look, Acquire, Recheck, Quiet
  <2>2. ASSUME NEW a \in {"reconciler", "learner", "adapter"}, Mark(a)
        PROVE  at'["adapter"] = "idle"
    BY <2>2, UpgradeIsAlone DEF Mark, Finish, Go, IInv, Maps, Actors
  <2>3. ASSUME NEW e \in Events, Enrich(e) \/ Migrate(e) PROVE at'["adapter"] = "migrated" /\ at["adapter"] = "alone"
    BY <2>3, UpgradeIsAlone DEF Enrich, Migrate, Go, IInv, Maps, Actors
  <2>4. ~ \E x \in Lessons : Commit(x) \/ Remember(x) \/ Revoke(x)
    BY UpgradeIsAlone DEF Commit, Remember, Revoke
  <2>5. ~ \E a \in {"learner", "control"} : ReadRows(a) \/ WriteIndex(a)
    BY UpgradeIsAlone DEF ReadRows, WriteIndex
  <2>6. ASSUME \/ \E a \in {"reconciler", "learner", "control"} : NothingToDo(a)
               \/ TakeProjection("learner", "try", "check") \/ Busy \/ StillEnabled
               \/ TakeProjection("control", "idle", "open")
               \/ \E c \in Capabilities : Enable(c) \/ Disable(c)
               \/ BeginUpgrade \/ UpgradeReturns
               \/ Drain("learning-inference", "begun", "learner drained")
               \/ Drain("capture-worker", "learner drained", "drained")
               \/ Drain("knowledge-projection", "drained", "alone")
        PROVE  UNCHANGED <<storeVars, index, marker>>
    BY <2>6 DEF NothingToDo, TakeProjection, Busy, StillEnabled, Enable, Disable, BeginUpgrade,
                UpgradeReturns, Drain, Quiet
  <2> QED BY <1>4, <2>1, <2>2, <2>3, <2>4, <2>5, <2>6 DEF OtherStep
<1> QED BY <1>1, <1>2, <1>3, <1>4 DEF Next

\* No writer brings a revoked rule back or drops what another has published,
\* and nobody changes anything while an upgrade migrates.
THEOREM NobodyIsOvertaken == Spec => NoWriterIsOvertaken
<1>1. IInv /\ [Next]_vars =>
         [/\ index \ revoked \subseteq index'
          /\ index' \cap revoked' \subseteq index
          /\ at["adapter"] \in {"alone", "migrated"} /\ at'["adapter"] = at["adapter"]
               => UNCHANGED <<storeVars, index, marker>>]_vars
  BY IndexIsKept, NobodyMigratesWithOthers
<1> QED BY <1>1, InvariantHolds, PTL DEF Spec, NoWriterIsOvertaken
-------------------------------------------------------------------------------
(* KnowledgeSearch: its types *)

Revisions == Nat \cup {Absent}
Hits == [rule : Rules, rev : Revisions, route : Nat]
Read ==
    [of : Nat, route : Nat, finds : SUBSET Rules, from : Nat, size : Nat \ {0},
     reply : {Absent} \cup [ok : BOOLEAN, hits : SUBSET Hits]]

ShelfTypes ==
    /\ row \in [Rules -> [rev : Nat, admitted : BOOLEAN] \cup {Absent}]
    /\ entry \in [Rules -> Revisions] /\ ranking \in Orders
    /\ \/ publishing = Absent
       \/ /\ publishing = [here |-> publishing.here, rows |-> publishing.rows]
          /\ publishing.rows \in [DOMAIN publishing.rows -> Revisions]
    /\ calm \in BOOLEAN /\ edits \in Nat /\ searches \in Nat

SearchTypes ==
    /\ search = [at |-> search.at, routes |-> search.routes, offset |-> search.offset,
                 done |-> search.done, due |-> search.due, examined |-> search.examined,
                 hits |-> search.hits, found |-> search.found]
    /\ search.routes \in Seq(SUBSET Rules) /\ search.offset \in [Routes -> Nat]
    /\ search.examined \in Nat
    /\ search.hits \subseteq Hits /\ IsFiniteSet(search.hits)
    /\ search.found \subseteq [rule : Rules, rev : Revisions] /\ IsFiniteSet(search.found)

\* No more reads than the backend allows are under way.
ReadTypes ==
    /\ reads \in Seq(Read) /\ Len(reads) <= MaxPendingReads
    /\ \A n \in DOMAIN reads : reads[n].reply # Absent => IsFiniteSet(reads[n].reply.hits)
-------------------------------------------------------------------------------
(* KnowledgeSearch: its invariant *)

\* A read of the search under way asks for the next page of a route that waits for it,
\* and while nothing has changed its reply is still that page.
Answers(r) ==
    /\ r.route \in search.due /\ r.route \in Routes
    /\ r.finds = search.routes[r.route] /\ r.from = search.offset[r.route]
    /\ r.reply # Absent => \A h \in r.reply.hits : h.route = r.route
    /\ calm /\ r.reply # Absent /\ r.reply.ok => r.reply.hits = Page(r)

\* What is left of searches that gave up cannot be taken for a read of this one, and
\* no route waits for two.
ReadsAreOwn ==
    /\ \A n \in DOMAIN reads : reads[n].of <= searches
    /\ Active => \A n \in DOMAIN reads : reads[n].of = searches => Answers(reads[n])
    /\ Active => \A m, n \in DOMAIN reads :
          reads[m].of = searches /\ reads[n].of = searches
          /\ reads[m].route = reads[n].route => m = n

\* A rule that was seen is among the hits, or not to be had, or there is one that says
\* the same among what was found.
Seen(k) ==
    \/ \E h \in search.hits : h.rule = k
    \/ ~ Admissible([rule |-> k, rev |-> entry[k]])
    \/ \E f \in search.found : Guidance[f.rule] = Guidance[k]

\* All rules of a route up to its offset, and all of one that is done, were seen.
Looked(i) == \A k \in Finds(search.routes[i]) :
    i \in search.done \/ Before(k, search.routes[i]) < search.offset[i] => Seen(k)

SearchIsHonest ==
    Active =>
      /\ \A f, g \in search.found : SameGuidance(f, g) => f = g
      /\ \A h \in search.hits : h.route \in Routes
      /\ search.at = "asking" => search.due = {} /\ search.hits = {}
      /\ calm =>
           /\ \A h \in search.hits : h.rev = entry[h.rule]
           /\ \A f \in search.found : Admissible(f)
           /\ \A i \in Routes : Looked(i)

SearchInv ==
    ShelfTypes /\ SearchTypes /\ ReadTypes /\ ReadsAreOwn /\ SearchIsHonest
-------------------------------------------------------------------------------
(* KnowledgeSearch: the places of rules, and pages of them *)

\* How many come before a rule tells the rules that a route finds apart: they are
\* numbered from 0, without a gap.
LEMMA FoundAreNumbered ==
    ASSUME NEW route \in SUBSET Rules, ranking \in Orders
    PROVE  /\ IsFiniteSet(Finds(route))
           /\ Cardinality(Finds(route)) \in Nat
           /\ \A k \in Finds(route) : Before(k, route) \in 0 .. Cardinality(Finds(route)) - 1
           /\ \A j, k \in Finds(route) : Before(j, route) = Before(k, route) => j = k
           /\ \A m \in 0 .. Cardinality(Finds(route)) - 1 :
                 \E k \in Finds(route) : Before(k, route) = m
  <1> DEFINE F == Finds(route)
             C == Cardinality(F)
             R == 0 .. C - 1
             Lower(k) == {j \in F : ranking[j] < ranking[k]}
             f == [k \in F |-> Cardinality(Lower(k))]
  <1>1. F \subseteq Rules /\ IsFiniteSet(F)
    BY SearchAssumption, FS_Subset DEF Finds
  <1>2. C \in Nat
    BY <1>1, FS_CardinalityType
  <1>3. \A k \in F : ranking[k] \in Nat
    BY <1>1, SearchAssumption
  <1>4. \A j, k \in F : ranking[j] = ranking[k] => j = k
    BY <1>1, SearchAssumption
  <1>5. \A k \in F : Before(k, route) = Cardinality(Lower(k)) /\ f[k] = Cardinality(Lower(k))
    BY DEF Before
  <1> HIDE DEF F
  <1>6. \A k \in F : IsFiniteSet(Lower(k)) /\ Cardinality(Lower(k)) \in R
    <2> SUFFICES ASSUME NEW k \in F PROVE IsFiniteSet(Lower(k)) /\ Cardinality(Lower(k)) \in R
      OBVIOUS
    <2>1. Lower(k) \subseteq F \ {k}
      BY <1>3
    <2>2. IsFiniteSet(F \ {k}) /\ Cardinality(F \ {k}) = C - 1
      BY <1>1, FS_RemoveElement
    <2>3. IsFiniteSet(Lower(k)) /\ Cardinality(Lower(k)) <= Cardinality(F \ {k})
      BY <2>1, <2>2, FS_Subset
    <2>4. Cardinality(Lower(k)) \in Nat
      BY <2>3, FS_CardinalityType
    <2> HIDE DEF Lower, C
    <2> QED BY <2>2, <2>3, <2>4, <1>2
  <1>7. ASSUME NEW j \in F, NEW k \in F, ranking[j] < ranking[k]
        PROVE  f[j] < f[k]
    <2>1. Lower(j) \subseteq Lower(k) /\ j \in Lower(k) /\ j \notin Lower(j)
      BY <1>3, <1>7
    <2>2. /\ Cardinality(Lower(j)) <= Cardinality(Lower(k))
          /\ Cardinality(Lower(k)) = Cardinality(Lower(j)) => Lower(k) = Lower(j)
      BY <2>1, <1>6, FS_Subset
    <2>3. Cardinality(Lower(j)) \in Nat /\ Cardinality(Lower(k)) \in Nat
      BY <1>6, FS_CardinalityType
    <2>4. Cardinality(Lower(j)) < Cardinality(Lower(k))
      <3> HIDE DEF Lower
      <3> QED BY <2>1, <2>2, <2>3
    <2> QED BY <2>4, <1>5
  <1>8. \A j, k \in F : f[j] = f[k] => j = k
    <2> SUFFICES ASSUME NEW j \in F, NEW k \in F, f[j] = f[k], j # k PROVE FALSE
      OBVIOUS
    <2>1. f[j] \in Nat /\ f[k] \in Nat
      BY <1>5, <1>6
    <2>2. ranking[j] < ranking[k] \/ ranking[k] < ranking[j]
      BY <1>3, <1>4
    <2>3. f[j] < f[k] \/ f[k] < f[j]
      BY <2>2, <1>7
    <2> QED BY <2>1, <2>3
  <1>9. f \in Injection(F, R)
    <2>1. f \in [F -> R]
      BY <1>6
    <2> HIDE DEF f, R
    <2> QED BY <2>1, <1>8 DEF Injection, IsInjective
  <1>10. IsFiniteSet(R) /\ Cardinality(R) = C
    BY <1>2, FS_Interval
  <1>11. f \in Surjection(F, R)
    <2> HIDE DEF f, R
    <2> QED BY <1>9, <1>10, FS_Injection
  <1>12. \A m \in R : \E k \in F : f[k] = m
    BY <1>11 DEF Surjection
  <1>13. \A k \in F : Before(k, route) = f[k] /\ f[k] \in R
    BY <1>5, <1>6
  <1> HIDE DEF f
  <1> QED BY <1>1, <1>2, <1>8, <1>12, <1>13 DEF F


\* A page has at most as many rules as it has room for; and one that has fewer is
\* the last of its route.
LEMMA ShortPageIsLast ==
    ASSUME NEW route \in SUBSET Rules, ranking \in Orders, NEW from \in Nat,
           NEW size \in Nat, size > 0
    PROVE  LET G == {k \in Finds(route) : Before(k, route) \in from .. from + size - 1}
           IN  /\ IsFiniteSet(G) /\ Cardinality(G) \in Nat /\ Cardinality(G) <= size
               /\ Cardinality(G) < size =>
                     \A k \in Finds(route) : Before(k, route) < from + size
  <1> DEFINE F == Finds(route)
             C == Cardinality(F)
             I == from .. from + size - 1
             G == {k \in F : Before(k, route) \in I}
             f == [k \in G |-> Before(k, route)]
  <1> USE DEF Injection, Surjection, IsInjective
  <1>1. /\ IsFiniteSet(F) /\ C \in Nat
        /\ \A k \in F : Before(k, route) \in 0 .. C - 1
        /\ \A j, k \in F : Before(j, route) = Before(k, route) => j = k
        /\ \A m \in 0 .. C - 1 : \E k \in F : Before(k, route) = m
    BY FoundAreNumbered
  <1> HIDE DEF F
  <1>2. IsFiniteSet(G) /\ Cardinality(G) \in Nat
    BY <1>1, FS_Subset, FS_CardinalityType
  <1>3. IsFiniteSet(I) /\ Cardinality(I) = size
    BY FS_Interval
  <1>4. Cardinality(G) <= size
    <2>1. f \in [G -> I] /\ \A j, k \in G : f[j] = f[k] => j = k
      BY <1>1
    <2> HIDE DEF f, G, I
    <2>2. f \in Injection(G, I)
      BY <2>1
    <2> QED BY <2>2, <1>3, FS_Injection
  <1>5. ASSUME NEW k \in F, ~ Before(k, route) < from + size
        PROVE  size <= Cardinality(G)
    <2>1. f \in [G -> I]
      OBVIOUS
    <2>2. ASSUME NEW m \in I PROVE \E j \in G : f[j] = m
      <3>1. m \in Nat /\ m < from + size /\ Before(k, route) \in Nat /\ Before(k, route) <= C - 1
        BY <1>1
      <3>2. m \in 0 .. C - 1
        BY <3>1, <1>1, <1>5
      <3>3. PICK j \in F : Before(j, route) = m
        BY <3>2, <1>1
      <3> QED BY <3>3
    <2> HIDE DEF f, G, I
    <2>3. f \in Surjection(G, I)
      BY <2>1, <2>2
    <2> QED BY <2>3, <1>2, <1>3, FS_Surjection
  <1>6. ASSUME Cardinality(G) < size, NEW k \in F PROVE Before(k, route) < from + size
    <2> HIDE DEF G
    <2> QED BY <1>5, <1>6, <1>2
  <1>7. /\ IsFiniteSet(G) /\ Cardinality(G) \in Nat /\ Cardinality(G) <= size
        /\ Cardinality(G) < size => \A k \in F : Before(k, route) < from + size
    BY <1>2, <1>4, <1>6
  <1> QED BY <1>7 DEF F

\* So a page that was read, and what it means to come back with fewer hits than asked for.
LEMMA PageIsRight ==
    ASSUME NEW r, r.finds \in SUBSET Rules, r.from \in Nat, r.size \in Nat, r.size > 0,
           ranking \in Orders
    PROVE  /\ IsFiniteSet(Page(r)) /\ Cardinality(Page(r)) \in Nat
           /\ \A k \in Finds(r.finds) :
                 /\ r.from <= Before(k, r.finds)
                 /\ Before(k, r.finds) < r.from + Cardinality(Page(r))
                 => \E h \in Page(r) : h.rule = k
           /\ Cardinality(Page(r)) < r.size =>
                 \A k \in Finds(r.finds) :
                    r.from <= Before(k, r.finds) => \E h \in Page(r) : h.rule = k
  <1> DEFINE F == Finds(r.finds)
             b(k) == Before(k, r.finds)
             G == {k \in F : b(k) \in r.from .. r.from + r.size - 1}
             hit(k) == [rule |-> k, rev |-> entry[k], route |-> r.route]
             f == [k \in G |-> hit(k)]
  <1>1. /\ IsFiniteSet(G) /\ Cardinality(G) \in Nat /\ Cardinality(G) <= r.size
        /\ Cardinality(G) < r.size => \A k \in F : b(k) < r.from + r.size
    BY ShortPageIsLast
  <1>2. Page(r) = {hit(k) : k \in G}
    BY DEF Page
  <1>3. \A k \in F : b(k) \in Nat
    BY FoundAreNumbered
  <1> HIDE DEF F, b
  <1>4. f \in Bijection(G, Page(r))
    <2>1. f \in [G -> Page(r)] /\ \A h \in Page(r) : \E k \in G : f[k] = h
      BY <1>2
    <2>2. \A j, k \in G : f[j] = f[k] => j = k
      OBVIOUS
    <2> HIDE DEF f, G
    <2> QED BY <2>1, <2>2 DEF Bijection, Injection, Surjection, IsInjective
  <1>5. IsFiniteSet(Page(r)) /\ Cardinality(Page(r)) = Cardinality(G)
    <2> HIDE DEF f, G
    <2> QED BY <1>1, <1>4, FS_Bijection DEF ExistsBijection
  <1>6. \A k \in F : r.from <= b(k) /\ b(k) < r.from + r.size => \E h \in Page(r) : h.rule = k
    <2> SUFFICES ASSUME NEW k \in F, r.from <= b(k), b(k) < r.from + r.size
                 PROVE  \E h \in Page(r) : h.rule = k
      OBVIOUS
    <2>1. k \in G
      BY <1>3
    <2>2. hit(k) \in Page(r) /\ hit(k).rule = k
      BY <2>1, <1>2
    <2> QED BY <2>2
  <1> HIDE DEF G
  <1>7. \A k \in F : b(k) < r.from + Cardinality(G) => b(k) < r.from + r.size
    BY <1>1, <1>3
  <1> QED BY <1>1, <1>5, <1>6, <1>7 DEF F, b

\* What is needed of the constants, in the form it is needed.
LEMMA SearchBounds ==
    /\ IsFiniteSet(Rules) /\ SearchLimit \in Nat /\ PageSize \in Nat /\ MaxCandidates \in Nat
    /\ MaxPendingReads \in Nat /\ \A q \in Requests : q \in Seq(SUBSET Rules)
  BY SearchAssumption

\* Where the index and its order have not changed, a page is what it was.
LEMMA SamePlaces ==
    ASSUME UNCHANGED <<entry, ranking>>
    PROVE  /\ \A route : Finds(route)' = Finds(route)
           /\ \A k, route : Before(k, route)' = Before(k, route)
           /\ \A r : Page(r)' = Page(r)
  <1>1. ASSUME NEW route PROVE Finds(route)' = Finds(route)
    BY DEF Finds
  <1>2. ASSUME NEW k, NEW route PROVE Before(k, route)' = Before(k, route)
    BY DEF Before, Finds
  <1>3. ASSUME NEW r PROVE Page(r)' = Page(r)
    BY DEF Before, Finds, Page
  <1> QED BY <1>1, <1>2, <1>3

\* The search and its reads are left alone; the store and the index may change, but not
\* under a search that goes on to count as calm.
Undisturbed ==
    /\ UNCHANGED <<reads, search, searches>>
    /\ Active /\ calm' => calm /\ UNCHANGED <<row, entry, ranking>>

LEMMA FrameKept ==
    ASSUME SearchTypes, ReadTypes, ReadsAreOwn, SearchIsHonest, Undisturbed
    PROVE  (SearchTypes /\ ReadTypes /\ ReadsAreOwn /\ SearchIsHonest)'
  <1> USE DEF Undisturbed
  <1>1. SearchTypes' /\ ReadTypes'
    BY DEF SearchTypes, ReadTypes, Routes
  <1>2. Active' = Active
    BY DEF Active
  <1>3. ASSUME NEW n \in DOMAIN reads, Active, Answers(reads[n]) PROVE Answers(reads[n])'
    <2>1. CASE calm'
      BY <1>3, <2>1, SamePlaces DEF Answers, Routes
    <2>2. CASE ~ calm'
      BY <1>3, <2>2 DEF Answers, Routes
    <2> QED BY <2>1, <2>2
  <1>4. ReadsAreOwn'
    BY <1>2, <1>3 DEF ReadsAreOwn
  <1>5. ASSUME Active, calm', NEW i, Looked(i) PROVE Looked(i)'
    BY <1>5, SamePlaces DEF Looked, Seen, Admissible
  <1>6. SearchIsHonest'
    BY <1>2, <1>5 DEF SearchIsHonest, SameGuidance, Routes, Admissible
  <1> QED BY <1>1, <1>4, <1>6

\* A search that has given up knows nothing.
LEMMA DegradedIsKnown ==
    /\ Degraded = [at |-> "degraded", routes |-> <<>>, offset |-> [i \in DOMAIN <<>> |-> 0],
                   done |-> {}, due |-> {}, examined |-> 0, hits |-> {}, found |-> {}]
    /\ <<>> \in Seq(SUBSET Rules) /\ [i \in DOMAIN <<>> |-> 0] \in [DOMAIN <<>> -> Nat]
    /\ IsFiniteSet({})
  <1>1. [i \in DOMAIN <<>> |-> 0] \in [DOMAIN <<>> -> Nat] /\ <<>> \in Seq(SUBSET Rules)
    OBVIOUS
  <1> DEFINE o == [i \in DOMAIN <<>> |-> 0]
  <1>2. NoSearch = [at |-> "asking", routes |-> <<>>, offset |-> o, done |-> {}, due |-> {},
                    examined |-> 0, hits |-> {}, found |-> {}]
    BY DEF NoSearch, NewSearch
  <1> HIDE DEF o
  <1>3. Degraded = [NoSearch EXCEPT !.at = "degraded"]
    BY DEF Degraded
  <1>4. Degraded = [at |-> "degraded", routes |-> <<>>, offset |-> o, done |-> {}, due |-> {},
                    examined |-> 0, hits |-> {}, found |-> {}]
    BY <1>2, <1>3
  <1> QED BY <1>1, <1>4, FS_EmptySet DEF o

LEMMA DegradedKept ==
    ASSUME search' = Degraded, ReadTypes',
           (\A n \in DOMAIN reads : reads[n].of <= searches)'
    PROVE  (SearchTypes /\ ReadTypes /\ ReadsAreOwn /\ SearchIsHonest)'
  <1>1. ~ Active'
    BY DegradedIsKnown DEF Active
  <1>2. ReadsAreOwn' /\ SearchIsHonest'
    BY <1>1 DEF ReadsAreOwn, SearchIsHonest
  <1>3. SearchTypes'
    BY DegradedIsKnown DEF SearchTypes, Routes
  <1> QED BY <1>2, <1>3

\* Without reads there is nothing a search could take for the answer of one.
LEMMA EmptiedKept ==
    ASSUME SearchTypes, ReadTypes, ReadsAreOwn, SearchIsHonest,
           reads' = <<>>, search' = search \/ search' = Degraded,
           UNCHANGED <<shelf, calm, searches>>
    PROVE  (SearchTypes /\ ReadTypes /\ ReadsAreOwn /\ SearchIsHonest)'
  <1>1. ReadTypes' /\ (\A n \in DOMAIN reads : reads[n].of <= searches)'
    BY SearchBounds DEF ReadTypes
  <1>2. CASE search' = Degraded
    BY <1>1, <1>2, DegradedKept
  <1>3. CASE search' = search
    <2>1. SearchTypes'
      BY <1>3 DEF SearchTypes, Routes
    <2>2. ReadsAreOwn'
      BY DEF ReadsAreOwn
    <2>3. Active' = Active
      BY <1>3 DEF Active
    <2>4. ASSUME NEW i, Looked(i) PROVE Looked(i)'
      BY <1>3, <2>4, SamePlaces DEF Looked, Seen, Admissible, shelf
    <2>5. SearchIsHonest'
      BY <1>3, <2>3, <2>4 DEF SearchIsHonest, SameGuidance, Routes, Admissible, shelf
    <2> QED BY <1>1, <2>1, <2>2, <2>5
  <1> QED BY <1>2, <1>3
-------------------------------------------------------------------------------
(* The store, the index and the read worker *)

LEMMA EditKept == ASSUME SearchInv, NEW k \in Rules, Edit(k) PROVE SearchInv'
  <1>1. Undisturbed
    BY DEF Undisturbed, Edit
  <1>2. PICK new \in {[rev |-> edits + 1, admitted |-> TRUE], Absent}
                     \cup (IF row[k] = Absent THEN {} ELSE {[row[k] EXCEPT !.admitted = ~ @]}) :
           row' = [row EXCEPT ![k] = new]
    BY DEF Edit
  <1>3. new \in [rev : Nat, admitted : BOOLEAN] \cup {Absent}
    <2> DEFINE R == [rev : Nat, admitted : BOOLEAN]
    <2>1. row[k] \in R \cup {Absent} /\ edits \in Nat
      BY DEF SearchInv, ShelfTypes
    <2>2. CASE new = [rev |-> edits + 1, admitted |-> TRUE]
      BY <2>1, <2>2
    <2>3. ASSUME new = [row[k] EXCEPT !.admitted = ~ @], row[k] # Absent PROVE new \in R
      <3>1. row[k] = [rev |-> row[k].rev, admitted |-> row[k].admitted] /\ row[k].rev \in Nat
        BY <2>1, <2>3
      <3>2. new = [rev |-> row[k].rev, admitted |-> ~ row[k].admitted]
        BY <2>3, <3>1
      <3>3. (~ row[k].admitted) \in BOOLEAN
        BY Zenon
      <3> QED BY <3>1, <3>2, <3>3
    <2> QED BY <1>2, <2>2, <2>3
  <1>4. ShelfTypes'
    BY <1>2, <1>3 DEF SearchInv, ShelfTypes, Edit
  <1> QED BY <1>1, <1>4, FrameKept DEF SearchInv

LEMMA PublishBeginsKept ==
    ASSUME SearchInv, NEW S \in SUBSET Rules, NEW here \in BOOLEAN, PublishBegins(S, here)
    PROVE  SearchInv'
  <1>1. Undisturbed
    BY DEF Undisturbed, PublishBegins, shelf, budget
  <1>2. \A k \in S : (IF row[k] = Absent THEN Absent ELSE row[k].rev) \in Revisions
    BY DEF SearchInv, ShelfTypes, Revisions
  <1>3. ShelfTypes'
    BY <1>2 DEF SearchInv, ShelfTypes, PublishBegins, shelf, budget
  <1> QED BY <1>1, <1>3, FrameKept DEF SearchInv

LEMMA PublishingKept ==
    ASSUME SearchInv, StopReadWorker \/ PublishEnds \/ PublishFails
    PROVE  SearchInv'
  <1>1. CASE StopReadWorker
    <2>1. Undisturbed
      BY <1>1 DEF Undisturbed, StopReadWorker, shelf, budget
    <2>2. ShelfTypes'
      BY <1>1 DEF SearchInv, ShelfTypes, StopReadWorker, shelf, budget
    <2> QED BY <2>1, <2>2, FrameKept DEF SearchInv
  <1>2. CASE PublishEnds
    <2>1. Undisturbed
      BY <1>2 DEF Undisturbed, PublishEnds, Published, budget
    <2>2. entry' \in [Rules -> Revisions]
      BY <1>2 DEF SearchInv, ShelfTypes, PublishEnds, Published
    <2>3. calm' \in BOOLEAN
      BY <1>2, Zenon DEF PublishEnds
    <2>4. ShelfTypes'
      BY <1>2, <2>2, <2>3 DEF SearchInv, ShelfTypes, PublishEnds, Published, budget
    <2> QED BY <2>1, <2>4, FrameKept DEF SearchInv
  <1>3. CASE PublishFails
    <2>1. Undisturbed
      BY <1>3 DEF Undisturbed, PublishFails, Published, Mishap
    <2>2. ShelfTypes'
      BY <1>3 DEF SearchInv, ShelfTypes, PublishFails, Published, Mishap
    <2> QED BY <2>1, <2>2, FrameKept DEF SearchInv
  <1> QED BY <1>1, <1>2, <1>3

LEMMA ReadWorkerKept ==
    ASSUME SearchInv,
           CancelReadWorker \/ StartReadWorker \/ FailPendingReads \/ Close \/ Reopen
    PROVE  SearchInv'
  <1>1. ShelfTypes'
    BY DEF SearchInv, ShelfTypes, CancelReadWorker, StartReadWorker, FailPendingReads, Close,
           Reopen, Mishap, shelf, budget
  <1>2. CASE CancelReadWorker \/ FailPendingReads \/ Close
    <2>1. /\ reads' = <<>> /\ (search' = search \/ search' = Degraded)
          /\ UNCHANGED <<shelf, calm, searches>>
      BY <1>2 DEF CancelReadWorker, FailPendingReads, Close, Rejected, Mishap, budget
    <2> QED BY <2>1, <1>1, EmptiedKept DEF SearchInv
  <1>3. CASE StartReadWorker \/ Reopen
    <2>1. Undisturbed
      BY <1>3 DEF StartReadWorker, Reopen, Mishap, shelf, budget, Undisturbed
    <2> QED BY <2>1, <1>1, FrameKept DEF SearchInv
  <1> QED BY <1>2, <1>3

LEMMA PageTypes ==
    ASSUME ShelfTypes, NEW r \in Read
    PROVE  Page(r) \subseteq Hits /\ IsFiniteSet(Page(r))
  <1>1. r.finds \in SUBSET Rules /\ r.from \in Nat /\ r.size \in Nat /\ r.size > 0 /\ r.route \in Nat
    BY DEF Read
  <1>2. IsFiniteSet(Page(r))
    BY <1>1, PageIsRight DEF ShelfTypes
  <1>3. ASSUME NEW k \in Finds(r.finds)
        PROVE  [rule |-> k, rev |-> entry[k], route |-> r.route] \in Hits
    BY <1>1 DEF Finds, Hits, ShelfTypes
  <1> QED BY <1>2, <1>3 DEF Page

LEMMA ServeReadKept == ASSUME SearchInv, ServeRead PROVE SearchInv'
  <1>1. PICK n \in DOMAIN reads :
           /\ reads[n].reply = Absent
           /\ \/ reads' = [reads EXCEPT ![n].reply = [ok |-> TRUE, hits |-> Page(reads[n])]]
                 /\ UNCHANGED budget
              \/ reads' = [reads EXCEPT ![n].reply = [ok |-> FALSE, hits |-> {}]] /\ Mishap
    BY DEF ServeRead
  <1>2. UNCHANGED <<shelf, publishing, search, calm, searches, edits>>
    BY <1>1 DEF ServeRead, budget, Mishap
  <1>3. ShelfTypes'
    BY <1>2 DEF SearchInv, ShelfTypes, shelf
  <1> DEFINE q == reads[n]
  <1>4. q \in Read /\ reads \in Seq(Read)
    BY DEF SearchInv, ReadTypes
  <1>5. PICK rep : /\ rep \in [ok : BOOLEAN, hits : SUBSET Hits] /\ IsFiniteSet(rep.hits)
                   /\ \A h \in rep.hits : h.route = q.route
                   /\ rep.ok => rep.hits = Page(q)
                   /\ reads' = [reads EXCEPT ![n].reply = rep]
    <2>1. Page(q) \subseteq Hits /\ IsFiniteSet(Page(q)) /\ \A h \in Page(q) : h.route = q.route
      BY <1>4, PageTypes DEF SearchInv, Page
    <2>2. CASE reads' = [reads EXCEPT ![n].reply = [ok |-> TRUE, hits |-> Page(q)]]
      <3> QED BY <2>1, <2>2
    <2>3. CASE reads' = [reads EXCEPT ![n].reply = [ok |-> FALSE, hits |-> {}]]
      BY <2>3, FS_EmptySet
    <2> QED BY <1>1, <2>2, <2>3
  <1> DEFINE new == [of |-> q.of, route |-> q.route, finds |-> q.finds, from |-> q.from,
                     size |-> q.size, reply |-> rep]
  <1>6. new \in Read /\ new = [q EXCEPT !.reply = rep]
    <2>1. q = [of |-> q.of, route |-> q.route, finds |-> q.finds, from |-> q.from,
               size |-> q.size, reply |-> q.reply]
      BY <1>4 DEF Read
    <2>2. new \in Read
      BY <1>4, <1>5 DEF Read
    <2> QED BY <2>1, <2>2
  <1>7. reads' = [reads EXCEPT ![n] = new]
    BY <1>5, <1>6
  <1>8. Page(new) = Page(q)
    BY DEF Page
  <1>9. /\ new.of = q.of /\ new.route = q.route /\ new.finds = q.finds /\ new.from = q.from
        /\ new.reply = rep
    OBVIOUS
  <1> HIDE DEF new
  <1>10. /\ reads' \in Seq(Read) /\ DOMAIN reads' = DOMAIN reads /\ Len(reads') = Len(reads)
         /\ \A m \in DOMAIN reads : reads'[m] = IF m = n THEN new ELSE reads[m]
    BY <1>4, <1>6, <1>7
  <1>11. SearchTypes' /\ Active' = Active /\ UNCHANGED <<search, searches, calm>>
    BY <1>2 DEF SearchInv, SearchTypes, Routes, Active
  <1>12. ReadTypes'
    BY <1>5, <1>9, <1>10 DEF SearchInv, ReadTypes
  <1>13. ASSUME NEW m \in DOMAIN reads, Answers(reads[m]) PROVE Answers(reads[m])'
    <2>1. UNCHANGED <<entry, ranking, search, calm>>
      BY <1>2 DEF shelf
    <2>2. CASE m # n
      BY <1>10, <1>13, <2>1, <2>2, SamePlaces DEF Answers, Routes
    <2>3. CASE m = n
      <3>1. \A r : Page(r)' = Page(r)
        BY <2>1, SamePlaces
      <3>2. reads'[m] = new /\ reads[m] = q
        BY <1>10, <2>3
      <3>3. Page(reads[m])' = Page(new)
        BY <3>1, <3>2
      <3> QED BY <1>5, <1>8, <1>9, <1>13, <2>1, <3>2, <3>3 DEF Answers, Routes
    <2> QED BY <2>2, <2>3
  <1>14. ReadsAreOwn'
    BY <1>9, <1>10, <1>11, <1>13 DEF SearchInv, ReadsAreOwn
  <1>15. ASSUME NEW i, Looked(i) PROVE Looked(i)'
    BY <1>2, <1>15, SamePlaces DEF Looked, Seen, Admissible, shelf
  <1>16. SearchIsHonest'
    BY <1>2, <1>11, <1>15 DEF SearchInv, SearchIsHonest, SameGuidance, Routes, Admissible, shelf
  <1> QED BY <1>3, <1>11, <1>12, <1>14, <1>16 DEF SearchInv

-------------------------------------------------------------------------------
(* The retriever *)

LEMMA BeginKept == ASSUME SearchInv, Begin PROVE SearchInv'
  <1>1. PICK q \in Requests : search' = NewSearch(q)
    BY DEF Begin
  <1>2. /\ searches' = searches + 1 /\ searches \in Nat /\ calm' = TRUE
        /\ UNCHANGED <<row, entry, ranking, publishing, reads, edits>>
    BY DEF Begin, SearchInv, ShelfTypes, shelf
  <1>3. ShelfTypes'
    BY <1>2 DEF SearchInv, ShelfTypes
  <1>4. q \in Seq(SUBSET Rules)
    BY SearchBounds
  <1>5. SearchTypes'
    BY <1>1, <1>4, FS_EmptySet DEF SearchTypes, Routes, NewSearch
  <1>6. ReadTypes'
    BY <1>2 DEF SearchInv, ReadTypes
  <1>7. \A n \in DOMAIN reads : reads[n].of \in Nat /\ reads[n].of <= searches
    <2>1. \A r \in Read : r.of \in Nat
      BY DEF Read
    <2> QED BY <2>1 DEF SearchInv, ReadTypes, ReadsAreOwn
  <1>8. ReadsAreOwn'
    BY <1>2, <1>7 DEF ReadsAreOwn
  <1>9. ASSUME NEW i \in Routes' PROVE Looked(i)'
    <2>1. \A route \in SUBSET Rules : \A k \in Finds(route) : Before(k, route) \in Nat
      BY FoundAreNumbered DEF SearchInv, ShelfTypes
    <2>2. (\A route \in SUBSET Rules : \A k \in Finds(route) : Before(k, route) \in Nat)'
      BY <1>2, <2>1, SamePlaces
    <2>3. search'.routes[i] \in SUBSET Rules /\ search'.offset[i] = 0 /\ search'.done = {}
      BY <1>1, <1>4, <1>9 DEF Routes, NewSearch
    <2> QED BY <2>2, <2>3 DEF Looked
  <1>10. SearchIsHonest'
    BY <1>1, <1>9 DEF SearchIsHonest, NewSearch
  <1> QED BY <1>3, <1>5, <1>6, <1>8, <1>10 DEF SearchInv

LEMMA DeadlinePassesKept == ASSUME SearchInv, DeadlinePasses PROVE SearchInv'
  <1>1. ShelfTypes' /\ ReadTypes' /\ (\A n \in DOMAIN reads : reads[n].of <= searches)'
    BY DEF SearchInv, ShelfTypes, ReadTypes, ReadsAreOwn, DeadlinePasses, shelf, budget
  <1> QED BY <1>1, DegradedKept DEF DeadlinePasses, SearchInv

\* The size of a page is a number, of a finite set of routes.
LEMMA SizesAreNumbers ==
    ASSUME SearchTypes
    PROVE  IsFiniteSet(Routes) /\ \A i \in Routes : SizeOf(i) \in Nat
  <1>1. Routes = 1 .. Len(search.routes) /\ Len(search.routes) \in Nat
    BY DEF SearchTypes, Routes
  <1>2. IsFiniteSet(Routes)
    BY <1>1, FS_Interval
  <1>3. ASSUME NEW i \in Routes PROVE SizeOf(i) \in Nat
    <2> DEFINE c == Cardinality({j \in Routes \ search.done : j < i})
               reserved == search.examined + PageSize * c
               left == IF reserved >= MaxCandidates THEN 0 ELSE MaxCandidates - reserved
    <2>1. c \in Nat
      BY <1>2, FS_Subset, FS_CardinalityType
    <2> HIDE DEF c
    <2>2. PageSize * c \in Nat
      BY <2>1, SearchBounds
    <2>3. reserved \in Nat
      BY <2>2 DEF SearchTypes
    <2> HIDE DEF reserved
    <2>4. left \in Nat
      BY <2>3, SearchBounds
    <2>5. SizeOf(i) = IF i \in search.done THEN 0 ELSE IF left < PageSize THEN left ELSE PageSize
      BY DEF SizeOf, reserved, c
    <2> HIDE DEF left
    <2> QED BY <2>4, <2>5, SearchBounds
  <1> QED BY <1>2, <1>3

\* What is asked for next: of some of the routes a page, where the last one ended.
LEMMA NextPagesAreNext ==
    ASSUME SearchTypes, ShelfTypes, NEW pages \in NextPages
    PROVE  /\ pages \in Seq(Read)
           /\ \A n \in DOMAIN pages :
                 LET r == pages[n] IN
                 /\ r.of = searches /\ r.route \in Routes /\ r.finds = search.routes[r.route]
                 /\ r.from = search.offset[r.route] /\ r.reply = Absent
           /\ \A m, n \in DOMAIN pages : pages[m].route = pages[n].route => m = n
  <1> DEFINE wanted == {i \in Routes : SizeOf(i) > 0}
             c == Cardinality(wanted)
  <1>1. c \in Nat
    BY SizesAreNumbers, FS_Subset, FS_CardinalityType
  <1>2. PICK t \in [1 .. c -> wanted] :
           /\ \A m, n \in DOMAIN t : m < n => t[m] < t[n]
           /\ pages = [n \in DOMAIN t |-> PageOf(t[n])]
    BY DEF NextPages
  <1>3. ASSUME NEW i \in wanted
        PROVE  PageOf(i) \in Read /\ PageOf(i).route = i /\ PageOf(i).of = searches
               /\ PageOf(i).finds = search.routes[i] /\ PageOf(i).from = search.offset[i]
               /\ PageOf(i).reply = Absent
    <2>1. i \in Routes /\ SizeOf(i) \in Nat \ {0}
      BY SizesAreNumbers
    <2>2. /\ search.routes[i] \in SUBSET Rules /\ search.offset[i] \in Nat /\ i \in Nat
          /\ searches \in Nat
      BY <2>1 DEF SearchTypes, ShelfTypes, Routes
    <2> QED BY <2>1, <2>2 DEF PageOf, Read
  <1>4. wanted \subseteq Routes /\ wanted \subseteq Nat
    BY DEF SearchTypes, Routes
  <1> HIDE DEF wanted, c
  <1>5. DOMAIN t = 1 .. c /\ \A n \in 1 .. c : t[n] \in wanted /\ pages[n] = PageOf(t[n])
    BY <1>2
  <1>6. pages \in [1 .. c -> Read]
    BY <1>2, <1>3, <1>5
  <1>7. pages \in Seq(Read) /\ DOMAIN pages = 1 .. c
    BY <1>1, <1>6
  <1>8. ASSUME NEW m \in 1 .. c, NEW n \in 1 .. c, pages[m].route = pages[n].route PROVE m = n
    <2>1. t[m] = t[n]
      BY <1>3, <1>5, <1>8
    <2>2. t[m] \in Nat /\ t[n] \in Nat
      BY <1>4, <1>5
    <2>4. m \in Nat /\ n \in Nat
      BY <1>1
    <2>3. ~ (m < n) /\ ~ (n < m)
      BY <1>2, <1>5, <2>1, <2>2
    <2> QED BY <2>3, <2>4
  <1>9. ASSUME NEW n \in 1 .. c
        PROVE  LET r == pages[n] IN
               /\ r.of = searches /\ r.route \in Routes /\ r.finds = search.routes[r.route]
               /\ r.from = search.offset[r.route] /\ r.reply = Absent
    <2>1. PICK i \in wanted : pages[n] = PageOf(i)
      BY <1>5
    <2>2. i \in Routes
      BY <1>4
    <2> QED BY <1>3, <2>1, <2>2
  <1> QED BY <1>7, <1>8, <1>9

LEMMA AskPagesKept == ASSUME SearchInv, AskPages PROVE SearchInv'
  <1>1. PICK pages \in NextPages :
           IF Len(pages) <= Room
           THEN /\ reads' = reads \o pages
                /\ search' = [search EXCEPT !.at = "reading", !.hits = {},
                                            !.due = {pages[n].route : n \in DOMAIN pages}]
           ELSE /\ reads' = reads \o SubSeq(pages, 1, Room)
                /\ search' = Degraded
    BY DEF AskPages
  <1>2. /\ search.at = "asking" /\ Active
        /\ UNCHANGED <<row, entry, ranking, publishing, calm, searches, edits>>
    BY DEF AskPages, Active, shelf, budget
  <1>3. ShelfTypes' /\ SearchTypes /\ ShelfTypes /\ ReadTypes /\ searches \in Nat
    BY <1>2 DEF SearchInv, ShelfTypes
  <1>4. /\ pages \in Seq(Read)
        /\ \A n \in DOMAIN pages :
              LET r == pages[n] IN
              /\ r.of = searches /\ r.route \in Routes /\ r.finds = search.routes[r.route]
              /\ r.from = search.offset[r.route] /\ r.reply = Absent
        /\ \A m, n \in DOMAIN pages : pages[m].route = pages[n].route => m = n
    BY <1>3, NextPagesAreNext
  <1>5. Room \in Nat /\ (Room = 0 \/ Room = MaxPendingReads - Len(reads)) /\ Len(reads) \in Nat
    BY <1>3, SearchBounds DEF Room, ReadTypes
  <1>6. PICK more \in Seq(Read) :
           /\ reads' = reads \o more /\ Len(more) <= Room
           /\ \A n \in DOMAIN more : more[n].of = searches /\ more[n].reply = Absent
           /\ more = pages \/ search' = Degraded
    <2>1. CASE Len(pages) <= Room
      BY <1>1, <1>4, <2>1
    <2>2. CASE ~ (Len(pages) <= Room)
      <3> DEFINE more == SubSeq(pages, 1, Room)
      <3>1. /\ more \in Seq(Read) /\ Len(more) = Room
            /\ \A n \in 1 .. Room : more[n] = pages[n] /\ n \in DOMAIN pages
        BY <1>4, <1>5, <2>2
      <3>2. reads' = reads \o more /\ search' = Degraded
        BY <1>1, <2>2
      <3> HIDE DEF more
      <3>3. \A n \in DOMAIN more : more[n].of = searches /\ more[n].reply = Absent
        <4>1. DOMAIN more = 1 .. Room
          BY <3>1
        <4> QED BY <1>4, <3>1, <4>1
      <3>4. Len(more) <= Room
        BY <1>5, <3>1
      <3> QED BY <3>1, <3>2, <3>3, <3>4
    <2> QED BY <2>1, <2>2
  <1>7. /\ reads' \in Seq(Read) /\ Len(reads') = Len(reads) + Len(more)
        /\ \A n \in DOMAIN reads' :
              \/ n \in DOMAIN reads /\ reads'[n] = reads[n]
              \/ n - Len(reads) \in DOMAIN more /\ reads'[n] = more[n - Len(reads)]
    BY <1>3, <1>6 DEF ReadTypes
  <1>8. ReadTypes'
    <2>1. Len(reads') <= MaxPendingReads
      BY <1>3, <1>5, <1>6, <1>7, SearchBounds DEF ReadTypes
    <2>2. ASSUME NEW n \in DOMAIN reads', reads'[n].reply # Absent
          PROVE  IsFiniteSet(reads'[n].reply.hits)
      BY <1>3, <1>6, <1>7, <2>2 DEF ReadTypes
    <2> QED BY <1>7, <2>1, <2>2 DEF ReadTypes
  <1>9. (\A n \in DOMAIN reads : reads[n].of <= searches)'
    BY <1>2, <1>3, <1>6, <1>7 DEF SearchInv, ReadsAreOwn
  <1>10. \A n \in DOMAIN reads : reads[n].of # searches
    BY <1>2 DEF SearchInv, ReadsAreOwn, Answers, SearchIsHonest
  <1>11. CASE search' = Degraded
    BY <1>3, <1>8, <1>9, <1>11, DegradedKept DEF SearchInv
  <1>12. CASE search' # Degraded
    <2> DEFINE due == {pages[n].route : n \in DOMAIN pages}
    <2>1. more = pages /\ search' = [search EXCEPT !.at = "reading", !.hits = {}, !.due = due]
      BY <1>1, <1>6, <1>12
    <2> HIDE DEF due
    <2>2. /\ search'.at = "reading" /\ search'.hits = {} /\ search'.due = due
          /\ search'.routes = search.routes /\ search'.offset = search.offset
          /\ search'.done = search.done /\ search'.found = search.found
          /\ search'.examined = search.examined
          /\ search' = [at |-> search'.at, routes |-> search'.routes, offset |-> search'.offset,
                        done |-> search'.done, due |-> search'.due,
                        examined |-> search'.examined, hits |-> search'.hits,
                        found |-> search'.found]
      BY <1>3, <2>1 DEF SearchTypes
    <2>3. SearchTypes'
      BY <1>3, <2>2, FS_EmptySet DEF SearchTypes, Routes
    <2>4. \A n \in DOMAIN reads' : reads'[n].of = searches =>
             n - Len(reads) \in DOMAIN pages /\ reads'[n] = pages[n - Len(reads)]
      BY <1>7, <1>10, <2>1
    <2>5. ASSUME NEW n \in DOMAIN reads', reads'[n].of = searches PROVE Answers(reads[n])'
      <3> DEFINE m == n - Len(reads)
      <3>1. m \in DOMAIN pages /\ reads'[n] = pages[m]
        BY <2>4, <2>5
      <3> HIDE DEF m
      <3> QED BY <1>2, <1>4, <2>2, <3>1 DEF Answers, Routes, due
    <2>6. ReadsAreOwn'
      <3>1. ASSUME NEW m \in DOMAIN reads', NEW n \in DOMAIN reads',
                   reads'[m].of = searches, reads'[n].of = searches,
                   reads'[m].route = reads'[n].route
            PROVE  m = n
        <4>1. m - Len(reads) = n - Len(reads)
          BY <1>4, <2>4, <3>1
        <4> QED BY <4>1, <1>5, <1>7, <3>1
      <3> QED BY <1>2, <1>9, <2>5, <3>1 DEF ReadsAreOwn
    <2>7. ASSUME NEW i, Looked(i) PROVE Looked(i)'
      <3>1. search.hits = {}
        BY <1>2 DEF SearchInv, SearchIsHonest
      <3> QED BY <1>2, <2>2, <2>7, <3>1, SamePlaces DEF Looked, Seen, Admissible
    <2>8. SearchIsHonest'
      BY <1>2, <2>2, <2>7 DEF SearchInv, SearchIsHonest, SameGuidance, Routes, Admissible
    <2> QED BY <1>3, <1>8, <2>3, <2>6, <2>8 DEF SearchInv
  <1> QED BY <1>11, <1>12

LEMMA TailsAre ==
    ASSUME NEW s \in Seq(Read), s # <<>>
    PROVE  /\ Tail(s) \in Seq(Read) /\ Len(Tail(s)) = Len(s) - 1 /\ Len(s) \in Nat
           /\ 1 \in DOMAIN s /\ Head(s) = s[1] /\ Head(s) \in Read
           /\ \A n \in DOMAIN Tail(s) :
                 n \in Nat /\ n + 1 # 1 /\ n + 1 \in DOMAIN s /\ Tail(s)[n] = s[n + 1]
  OBVIOUS

\* A reply that is taken: the hits of the page, and what is known of its route.
LEMMA TakenKept ==
    ASSUME SearchInv, NEW r \in Read, NEW n, NEW i, reads # <<>>, r = Head(reads),
           n = Cardinality(r.reply.hits), i = r.route,
           r.reply # Absent, r.reply.ok, reads' = Tail(reads),
           search.at = "reading", r.of = searches,
           search' = [search EXCEPT
                             !.due = @ \ {r.route}, !.hits = @ \cup r.reply.hits,
                             !.offset[r.route] = @ + n, !.examined = @ + n,
                             !.done = IF n < r.size THEN @ \cup {r.route} ELSE @],
           UNCHANGED <<shelf, publishing, readWorker, calm, budget>>
    PROVE  (SearchTypes /\ ReadTypes /\ ReadsAreOwn /\ SearchIsHonest)'
  <1> USE DEF SearchInv
  <1> DEFINE H == r.reply.hits
  <1>1. UNCHANGED <<row, entry, ranking, calm, searches>>
    BY DEF shelf, budget
  <1>2. /\ reads \in Seq(Read) /\ reads' \in Seq(Read) /\ Len(reads') = Len(reads) - 1
        /\ Len(reads) \in Nat /\ 1 \in DOMAIN reads /\ r = reads[1]
        /\ \A m \in DOMAIN reads' :
              m \in Nat /\ m + 1 # 1 /\ m + 1 \in DOMAIN reads /\ reads'[m] = reads[m + 1]
    BY TailsAre DEF ReadTypes
  <1>3. /\ Active /\ Answers(r)
        /\ \A m \in DOMAIN reads : reads[m].of = searches /\ reads[m].route = i => m = 1
    BY <1>2 DEF ReadsAreOwn, Active
  <1>4. /\ i \in search.due /\ i \in Routes /\ r.finds = search.routes[i]
        /\ r.from = search.offset[i] /\ \A h \in H : h.route = i
        /\ calm => H = Page(r)
    BY <1>3 DEF Answers
  <1>5. IsFiniteSet(H) /\ n \in Nat /\ H \subseteq Hits
    <2>1. IsFiniteSet(H)
      BY <1>2 DEF ReadTypes
    <2>2. r.reply \in [ok : BOOLEAN, hits : SUBSET Hits]
      BY DEF Read
    <2> QED BY <2>1, <2>2, FS_CardinalityType
  <1>6. /\ search'.at = "reading" /\ search'.routes = search.routes
        /\ search'.found = search.found /\ search'.due = search.due \ {i}
        /\ search'.hits = search.hits \cup H
        /\ search'.offset = [search.offset EXCEPT ![i] = @ + n]
        /\ search'.examined = search.examined + n
        /\ search'.done = IF n < r.size THEN search.done \cup {i} ELSE search.done
        /\ search' = [at |-> search'.at, routes |-> search'.routes, offset |-> search'.offset,
                      done |-> search'.done, due |-> search'.due,
                      examined |-> search'.examined, hits |-> search'.hits,
                      found |-> search'.found]
    BY DEF SearchTypes
  <1>7. SearchTypes'
    <2>1. search'.offset \in [Routes -> Nat] /\ Routes' = Routes
      BY <1>4, <1>5, <1>6 DEF SearchTypes, Routes
    <2>2. IsFiniteSet(search'.hits) /\ search'.hits \subseteq Hits
      BY <1>5, <1>6, FS_Union DEF SearchTypes
    <2> QED BY <1>5, <1>6, <2>1, <2>2 DEF SearchTypes
  <1>8. ReadTypes'
    <2>1. Len(reads') <= MaxPendingReads
      BY <1>2, SearchBounds DEF ReadTypes
    <2>2. ASSUME NEW m \in DOMAIN reads', reads'[m].reply # Absent
          PROVE  IsFiniteSet(reads'[m].reply.hits)
      BY <1>2, <2>2 DEF ReadTypes
    <2> QED BY <1>2, <2>1, <2>2 DEF ReadTypes
  <1>9. ASSUME NEW m \in DOMAIN reads', reads'[m].of = searches PROVE Answers(reads[m])'
    <2>1. Answers(reads[m + 1]) /\ reads'[m] = reads[m + 1] /\ reads[m + 1].route # i
      BY <1>2, <1>3, <1>9 DEF ReadsAreOwn
    <2>2. UNCHANGED <<entry, ranking>>
      BY <1>1
    <2> QED BY <1>1, <1>6, <2>1, <2>2, SamePlaces DEF Answers, Routes, SearchTypes
  <1>10. ReadsAreOwn'
    <2>1. \A l, m \in DOMAIN reads' :
             reads'[l].of = searches /\ reads'[m].of = searches
             /\ reads'[l].route = reads'[m].route => l = m
      <3>1. ASSUME NEW l \in DOMAIN reads', NEW m \in DOMAIN reads', reads'[l].of = searches,
                   reads'[m].of = searches, reads'[l].route = reads'[m].route
            PROVE  l = m
        <4>1. l + 1 = m + 1
          BY <1>2, <1>3, <3>1 DEF ReadsAreOwn
        <4> QED BY <1>2, <4>1
      <3> QED BY <3>1
    <2>2. \A m \in DOMAIN reads' : reads'[m].of <= searches
      BY <1>2 DEF ReadsAreOwn
    <2> QED BY <1>1, <1>9, <2>1, <2>2 DEF ReadsAreOwn
  <1>11. ASSUME NEW k, Seen(k) PROVE Seen(k)'
    BY <1>1, <1>6, <1>11 DEF Seen, Admissible
  <1>12. ASSUME calm, NEW j \in Routes, Looked(j) PROVE Looked(j)'
    <2>1. UNCHANGED <<entry, ranking>>
      BY <1>1
    <2>2. CASE j # i
      <3>1. (j \in search'.done => j \in search.done) /\ search'.offset[j] = search.offset[j]
        BY <1>6, <2>2 DEF SearchTypes
      <3> QED BY <1>6, <1>11, <1>12, <2>1, <3>1, SamePlaces DEF Looked
    <2>3. CASE j = i
      <3> DEFINE route == search.routes[i]
      <3>1. /\ r.finds = route /\ r.from = search.offset[i] /\ H = Page(r) /\ n \in Nat
            /\ r.finds \in SUBSET Rules /\ r.from \in Nat /\ r.size \in Nat /\ r.size > 0
            /\ ranking \in Orders
        BY <1>4, <1>5, <1>12 DEF Read, ShelfTypes
      <3>2. ASSUME NEW k \in Finds(route), i \in search'.done \/ Before(k, route) < search'.offset[i]
            PROVE  Seen(k)'
        <4>1. Before(k, route) \in Nat
          BY <3>1, FoundAreNumbered
        <4>2. CASE i \in search.done \/ Before(k, route) < search.offset[i]
          BY <1>11, <1>12, <2>3, <4>2 DEF Looked
        <4>3. CASE i \notin search.done /\ ~ (Before(k, route) < search.offset[i])
          <5>1. search'.offset[i] = r.from + n
            BY <1>4, <1>6 DEF SearchTypes
          <5>2. r.from <= Before(k, route) /\ (n < r.size \/ Before(k, route) < r.from + n)
            BY <1>6, <3>1, <3>2, <4>1, <4>3, <5>1
          <5>3. /\ k \in Finds(r.finds) /\ r.from <= Before(k, r.finds)
                /\ n < r.size \/ Before(k, r.finds) < r.from + n
            BY <3>1, <3>2, <5>2
          <5>4. n = Cardinality(Page(r))
            BY <3>1
          <5>5. \E h \in Page(r) : h.rule = k
            <6> HIDE DEF H
            <6> QED BY ONLY <3>1, <5>3, <5>4, PageIsRight
          <5> QED BY <1>6, <3>1, <5>5 DEF Seen
        <4> QED BY <4>2, <4>3
      <3> QED BY <1>6, <2>1, <2>3, <3>2, SamePlaces DEF Looked
    <2> QED BY <2>2, <2>3
  <1>13. SearchIsHonest'
    <2>1. \A h \in search'.hits : h.route \in Routes
      BY <1>3, <1>4, <1>6 DEF SearchIsHonest
    <2>2. ASSUME calm PROVE \A h \in search'.hits : h.rev = entry[h.rule]
      BY <1>3, <1>4, <1>6, <2>2 DEF SearchIsHonest, Page
    <2>3. calm => \A f \in search'.found : Admissible(f)'
      BY <1>1, <1>3, <1>6 DEF SearchIsHonest, Admissible
    <2> QED BY <1>1, <1>3, <1>6, <1>12, <2>1, <2>2, <2>3 DEF SearchIsHonest, SameGuidance, Routes
  <1> QED BY <1>7, <1>8, <1>10, <1>13

\* Of a set of naturals one is the least.
LEMMA LeastOf ==
    ASSUME NEW T, T \subseteq Nat, T # {} PROVE \E n \in T : \A m \in T : n <= m
  <1> DEFINE R == {ss \in Nat \X Nat : ss[1] < ss[2]}
  <1>1. IsWellFoundedOn(R, Nat)
    BY NatLessThanWellFounded, Zenon DEF OpToRel
  <1> HIDE DEF R
  <1>2. PICK n \in T : \A m \in T : ~ (<<m, n>> \in R)
    BY <1>1, WFMin
  <1>3. ASSUME NEW m \in T PROVE n <= m
    <2>1. <<m, n>> \notin R
      BY <1>2
    <2> QED BY <2>1 DEF R
  <1> QED BY <1>2, <1>3

LEMMA DeliverKept == ASSUME SearchInv, Deliver PROVE SearchInv'
  <1> DEFINE r == Head(reads)
             n == Cardinality(r.reply.hits)
  <1>1. /\ reads # <<>> /\ reads' = Tail(reads) /\ r.reply # Absent
        /\ search' = IF search.at # "reading" \/ r.of # searches THEN search
                     ELSE IF ~ r.reply.ok THEN Degraded
                     ELSE [search EXCEPT
                             !.due = @ \ {r.route}, !.hits = @ \cup r.reply.hits,
                             !.offset[r.route] = @ + n, !.examined = @ + n,
                             !.done = IF n < r.size THEN @ \cup {r.route} ELSE @]
        /\ UNCHANGED <<shelf, publishing, readWorker, calm, budget>>
    BY DEF Deliver
  <1>2. ShelfTypes'
    BY <1>1 DEF SearchInv, ShelfTypes, shelf, budget
  <1>3. reads \in Seq(Read) /\ r \in Read
    BY <1>1, TailsAre DEF SearchInv, ReadTypes
  <1>4. /\ reads' \in Seq(Read) /\ Len(reads') = Len(reads) - 1 /\ Len(reads) \in Nat
        /\ \A m \in DOMAIN reads' :
              m \in Nat /\ m + 1 \in DOMAIN reads /\ reads'[m] = reads[m + 1]
        /\ 1 \in DOMAIN reads /\ r = reads[1]
    BY <1>1, <1>3, TailsAre
  <1>5. UNCHANGED <<row, entry, ranking, calm, searches>>
    BY <1>1 DEF shelf, budget
  <1> HIDE DEF r
  <1>6. ReadTypes'
    <2>1. Len(reads') <= MaxPendingReads
      BY <1>4, SearchBounds DEF SearchInv, ReadTypes
    <2>2. ASSUME NEW m \in DOMAIN reads', reads'[m].reply # Absent
          PROVE  IsFiniteSet(reads'[m].reply.hits)
      BY <1>4, <2>2 DEF SearchInv, ReadTypes
    <2> QED BY <1>4, <2>1, <2>2 DEF ReadTypes
  <1>7. (\A m \in DOMAIN reads : reads[m].of <= searches)'
    BY <1>4, <1>5 DEF SearchInv, ReadsAreOwn
  <1>8. CASE search' = Degraded
    BY <1>2, <1>6, <1>7, <1>8, DegradedKept DEF SearchInv
  <1>9. CASE search' = search
    <2>1. SearchTypes' /\ Active' = Active
      BY <1>9 DEF SearchInv, SearchTypes, Routes, Active
    <2>2. ASSUME NEW m \in DOMAIN reads, Answers(reads[m]), NEW l \in DOMAIN reads',
                 reads'[l] = reads[m]
          PROVE  Answers(reads[l])'
      <3>1. UNCHANGED <<entry, ranking>>
        BY <1>5
      <3> QED BY <1>5, <1>9, <2>2, <3>1, SamePlaces DEF Answers, Routes
    <2>3. ReadsAreOwn'
      <3>1. Active => \A m \in DOMAIN reads' : reads'[m].of = searches => Answers(reads[m])'
        BY <1>4, <2>2 DEF SearchInv, ReadsAreOwn
      <3>2. ASSUME Active, NEW l \in DOMAIN reads', NEW m \in DOMAIN reads', reads'[l].of = searches,
                   reads'[m].of = searches, reads'[l].route = reads'[m].route
            PROVE  l = m
        <4>1. l + 1 = m + 1
          BY <1>4, <3>2 DEF SearchInv, ReadsAreOwn
        <4> QED BY <1>4, <4>1
      <3> QED BY <1>5, <1>7, <2>1, <3>1, <3>2 DEF ReadsAreOwn
    <2>4. ASSUME NEW i, Looked(i) PROVE Looked(i)'
      BY <1>5, <1>9, <2>4, SamePlaces DEF Looked, Seen, Admissible
    <2>5. SearchIsHonest'
      BY <1>5, <1>9, <2>1, <2>4 DEF SearchInv, SearchIsHonest, SameGuidance, Routes, Admissible
    <2> QED BY <1>2, <1>6, <2>1, <2>3, <2>5 DEF SearchInv
  <1>10. CASE search' # search /\ search' # Degraded
    <2>1. /\ search.at = "reading" /\ r.of = searches /\ r.reply.ok
          /\ search' = [search EXCEPT
                             !.due = @ \ {r.route}, !.hits = @ \cup r.reply.hits,
                             !.offset[r.route] = @ + n, !.examined = @ + n,
                             !.done = IF n < r.size THEN @ \cup {r.route} ELSE @]
      BY <1>1, <1>10
    <2> HIDE DEF n
    <2>2. (SearchTypes /\ ReadTypes /\ ReadsAreOwn /\ SearchIsHonest)'
      BY <1>1, <1>3, <2>1, TakenKept DEF r, n
    <2> QED BY <1>2, <2>2 DEF SearchInv
  <1> QED BY <1>8, <1>9, <1>10

\* Of the hits on a rule one is of the last route that has it.
LEMMA LastCounts ==
    ASSUME SearchTypes, \A h \in search.hits : h.route \in Routes, NEW k,
           \E h \in search.hits : h.rule = k
    PROVE  \E h \in Unique(search.hits) : h.rule = k
  <1> DEFINE c == Len(search.routes)
             T == {m \in Nat : \E h \in search.hits : h.rule = k /\ c - h.route = m}
  <1>1. Routes = 1 .. c /\ c \in Nat
    BY DEF SearchTypes, Routes
  <1>2. PICK g \in search.hits : g.rule = k
    OBVIOUS
  <1>3. g.route \in Nat /\ g.route <= c
    BY <1>1
  <1>4. c - g.route \in T
    BY <1>1, <1>2, <1>3
  <1> HIDE DEF T
  <1>5. PICK m \in T : \A l \in T : m <= l
    BY <1>4, LeastOf DEF T
  <1>6. PICK h \in search.hits : h.rule = k /\ c - h.route = m
    BY <1>5 DEF T
  <1>7. ASSUME NEW f \in search.hits, f.rule = h.rule PROVE f.route <= h.route
    <2>1. f.route \in Nat /\ f.route <= c /\ h.route \in Nat /\ h.route <= c
      BY <1>1
    <2>2. c - f.route \in T
      BY <1>1, <1>6, <1>7, <2>1 DEF T
    <2>3. c - h.route <= c - f.route
      BY <1>5, <1>6, <2>2
    <2> QED BY ONLY <1>1, <2>1, <2>3
  <1>8. h \in Unique(search.hits)
    BY <1>7 DEF Unique
  <1> QED BY <1>6, <1>8

LEMMA FreshIsFinite ==
    ASSUME NEW H, IsFiniteSet(H), H \subseteq Hits
    PROVE  LET fresh == {[rule |-> h.rule, rev |-> h.rev] : h \in H}
           IN  IsFiniteSet(fresh) /\ fresh \subseteq [rule : Rules, rev : Revisions]
  <1> DEFINE fresh == {[rule |-> h.rule, rev |-> h.rev] : h \in H}
             f == [h \in H |-> [rule |-> h.rule, rev |-> h.rev]]
  <1>1. f \in Surjection(H, fresh)
    <2>1. f \in [H -> fresh] /\ \A x \in fresh : \E h \in H : f[h] = x
      OBVIOUS
    <2> HIDE DEF f, fresh
    <2> QED BY <2>1 DEF Surjection
  <1>2. IsFiniteSet(fresh)
    <2> HIDE DEF f, fresh
    <2> QED BY <1>1, FS_Surjection
  <1>3. fresh \subseteq [rule : Rules, rev : Revisions]
    BY DEF Hits
  <1> QED BY <1>2, <1>3

Represented(k, found) == \E f \in found : Guidance[f.rule] = Guidance[k]

\* What the search has after it has looked at its pages.
LEMMA TakingIsSound ==
    ASSUME SearchInv, NEW S, search.at = "reading", Takes(S)
    PROVE  LET found == search.found \cup S IN
           /\ found \subseteq [rule : Rules, rev : Revisions] /\ IsFiniteSet(found)
           /\ Cardinality(found) <= SearchLimit
           /\ \A f, g \in found : SameGuidance(f, g) => f = g
           /\ calm => \A f \in found : Admissible(f)
           /\ calm /\ Cardinality(found) # SearchLimit =>
                 \A i \in Routes : \A k \in Finds(search.routes[i]) :
                    (i \in search.done \/ Before(k, search.routes[i]) < search.offset[i])
                    /\ Admissible([rule |-> k, rev |-> entry[k]]) => Represented(k, found)
  <1> USE DEF SearchInv
  <1> DEFINE F == [rule : Rules, rev : Revisions]
             fresh == {[rule |-> h.rule, rev |-> h.rev] :
                         h \in {g \in Unique(search.hits) : Admissible(g)}}
             all == {[rule |-> h.rule, rev |-> h.rev] : h \in search.hits}
             new == {h \in fresh : \A f \in search.found : ~ SameGuidance(f, h)}
             found == search.found \cup S
  <1>1. /\ S \subseteq new
        /\ \A f, g \in S : SameGuidance(f, g) => f = g
        /\ Cardinality(found) <= SearchLimit
        /\ Cardinality(found) = SearchLimit \/ \A h \in new : \E f \in S : SameGuidance(f, h)
    BY DEF Takes
  <1>2. Active
    BY DEF Active
  <1>3. fresh \subseteq all
    BY DEF Unique
  <1>4. IsFiniteSet(all) /\ all \subseteq F
    BY FreshIsFinite DEF SearchTypes
  <1>5. S \subseteq F /\ IsFiniteSet(S)
    <2> HIDE DEF all
    <2>1. S \subseteq all
      BY <1>1, <1>3
    <2> QED BY <1>4, <2>1, FS_Subset
  <1>6. found \subseteq F /\ IsFiniteSet(found)
    BY <1>5, FS_Union DEF SearchTypes
  <1>7. \A f, g \in found : SameGuidance(f, g) => f = g
    <2>1. \A f \in search.found, g \in S : ~ SameGuidance(f, g) /\ ~ SameGuidance(g, f)
      BY <1>1 DEF SameGuidance
    <2>2. \A f, g \in search.found : SameGuidance(f, g) => f = g
      BY <1>2 DEF SearchIsHonest
    <2> QED BY <1>1, <2>1, <2>2
  <1>8. ASSUME NEW f \in fresh PROVE Admissible(f)
    <2>1. PICK h \in search.hits : Admissible(h) /\ f = [rule |-> h.rule, rev |-> h.rev]
      BY DEF Unique
    <2>2. f.rule = h.rule /\ f.rev = h.rev
      BY <2>1
    <2> QED BY <2>1, <2>2 DEF Admissible
  <1>9. calm => \A f \in found : Admissible(f)
    <2> HIDE DEF fresh
    <2> QED BY <1>1, <1>2, <1>8 DEF SearchIsHonest
  <1>10. ASSUME calm, Cardinality(found) # SearchLimit, NEW i \in Routes,
                NEW k \in Finds(search.routes[i]),
                i \in search.done \/ Before(k, search.routes[i]) < search.offset[i],
                Admissible([rule |-> k, rev |-> entry[k]])
         PROVE  Represented(k, found)
    <2> DEFINE x == [rule |-> k, rev |-> entry[k]]
    <2>1. Seen(k)
      BY <1>2, <1>10 DEF SearchIsHonest, Looked
    <2>2. CASE \E f \in search.found : Guidance[f.rule] = Guidance[k]
      BY <2>2 DEF Represented
    <2>3. CASE /\ \E h \in search.hits : h.rule = k
               /\ \A f \in search.found : Guidance[f.rule] # Guidance[k]
      <3>1. PICK h \in Unique(search.hits) : h.rule = k
        BY <1>2, <2>3, LastCounts DEF SearchIsHonest
      <3>2. h.rev = entry[k]
        BY <1>2, <1>10, <3>1 DEF SearchIsHonest, Unique
      <3>3. Admissible(h) /\ x = [rule |-> h.rule, rev |-> h.rev]
        BY <1>10, <3>1, <3>2 DEF Admissible
      <3>4. x \in fresh
        BY <3>1, <3>3
      <3>5. x \in new
        BY <2>3, <3>4 DEF SameGuidance
      <3>6. PICK f \in S : SameGuidance(f, x)
        BY <1>1, <1>10, <3>5
      <3>7. Guidance[f.rule] = Guidance[k]
        BY <3>6 DEF SameGuidance
      <3> QED BY <3>7 DEF Represented
    <2> QED BY <1>10, <2>1, <2>2, <2>3 DEF Seen
  <1> HIDE DEF found
  <1> QED BY <1>1, <1>6, <1>7, <1>9, <1>10 DEF found

\* The four ways a look at the pages ends.
LEMMA ExamineEnds ==
    ASSUME SearchInv, NEW S, Examine(S)
    PROVE  LET found == search.found \cup S IN
           /\ search.at = "reading" /\ search.due = {} /\ Takes(S)
           /\ UNCHANGED <<row, entry, ranking, publishing, reads, calm, searches, edits>>
           /\ \/ search' = Degraded
              \/ search'.at = "asking" /\ search'.found = found
                 /\ Cardinality(found) # SearchLimit
              \/ search'.at \in {"answered", "partial"} /\ search'.found = Revalidate(found)
           /\ search' # Degraded =>
                 /\ search'.routes = search.routes /\ search'.offset = search.offset
                 /\ search'.done = search.done /\ search'.due = search.due
                 /\ search'.examined = search.examined /\ search'.hits = {}
                 /\ search' = [at |-> search'.at, routes |-> search'.routes,
                               offset |-> search'.offset, done |-> search'.done,
                               due |-> search'.due, examined |-> search'.examined,
                               hits |-> search'.hits, found |-> search'.found]
  <1> DEFINE found == search.found \cup S
             again == Revalidate(found)
  <1>1. /\ search.at = "reading" /\ search.due = {} /\ Takes(S)
        /\ UNCHANGED <<row, entry, ranking, publishing, reads, calm, searches, edits>>
    BY DEF Examine, shelf, budget
  <1>2. \/ search' = Degraded
        \/ /\ search' = [search EXCEPT !.at = "asking", !.found = found, !.hits = {}]
           /\ Cardinality(found) # SearchLimit
        \/ search' = [search EXCEPT !.at = "answered", !.found = again, !.hits = {}]
        \/ search' = [search EXCEPT !.at = "partial", !.found = again, !.hits = {}]
    BY DEF Examine, Answer
  <1>3. SearchTypes
    BY DEF SearchInv
  <1> HIDE DEF found, again
  <1>4. CASE search' = [search EXCEPT !.at = "asking", !.found = found, !.hits = {}]
             /\ Cardinality(found) # SearchLimit
    BY <1>1, <1>3, <1>4 DEF SearchTypes, found
  <1>5. CASE search' = [search EXCEPT !.at = "answered", !.found = again, !.hits = {}]
    BY <1>1, <1>3, <1>5 DEF SearchTypes, found, again
  <1>6. CASE search' = [search EXCEPT !.at = "partial", !.found = again, !.hits = {}]
    BY <1>1, <1>3, <1>6 DEF SearchTypes, found, again
  <1>7. CASE search' = Degraded
    BY <1>1, <1>7
  <1> QED BY <1>2, <1>4, <1>5, <1>6, <1>7

LEMMA ExamineKept == ASSUME SearchInv, NEW S, Examine(S) PROVE SearchInv'
  <1> USE DEF SearchInv
  <1> DEFINE found == search.found \cup S
  <1>1. /\ search.at = "reading" /\ search.due = {} /\ Takes(S)
        /\ UNCHANGED <<row, entry, ranking, publishing, reads, calm, searches, edits>>
        /\ \/ search' = Degraded
           \/ search'.at = "asking" /\ search'.found = found /\ Cardinality(found) # SearchLimit
           \/ search'.at \in {"answered", "partial"} /\ search'.found = Revalidate(found)
        /\ search' # Degraded =>
              /\ search'.routes = search.routes /\ search'.offset = search.offset
              /\ search'.done = search.done /\ search'.due = search.due
              /\ search'.examined = search.examined /\ search'.hits = {}
              /\ search' = [at |-> search'.at, routes |-> search'.routes,
                            offset |-> search'.offset, done |-> search'.done,
                            due |-> search'.due, examined |-> search'.examined,
                            hits |-> search'.hits, found |-> search'.found]
    BY ExamineEnds
  <1>2. /\ found \subseteq [rule : Rules, rev : Revisions] /\ IsFiniteSet(found)
        /\ Cardinality(found) <= SearchLimit
        /\ \A f, g \in found : SameGuidance(f, g) => f = g
        /\ calm => \A f \in found : Admissible(f)
        /\ calm /\ Cardinality(found) # SearchLimit =>
              \A i \in Routes : \A k \in Finds(search.routes[i]) :
                 (i \in search.done \/ Before(k, search.routes[i]) < search.offset[i])
                 /\ Admissible([rule |-> k, rev |-> entry[k]]) => Represented(k, found)
    BY <1>1, TakingIsSound
  <1> HIDE DEF found
  <1>3. ShelfTypes' /\ ReadTypes'
    BY <1>1 DEF ShelfTypes, ReadTypes
  <1>4. \A n \in DOMAIN reads : reads[n].of <= searches /\ reads[n].of # searches
    BY <1>1 DEF ReadsAreOwn, Answers, Active
  <1>5. CASE search' = Degraded
    BY <1>1, <1>3, <1>4, <1>5, DegradedKept
  <1>6. CASE search' # Degraded
    <2>1. search'.found \subseteq found /\ IsFiniteSet(search'.found)
      <3>1. search'.found \subseteq found
        BY <1>1, <1>6 DEF Revalidate
      <3> QED BY <1>2, <3>1, FS_Subset
    <2>2. SearchTypes'
      BY <1>1, <1>2, <1>6, <2>1, FS_EmptySet DEF SearchTypes, Routes
    <2>3. ReadsAreOwn'
      BY <1>1, <1>4 DEF ReadsAreOwn
    <2>4. CASE Active'
      <3>1. search'.at = "asking" /\ search'.found = found /\ Cardinality(found) # SearchLimit
        BY <1>1, <1>6, <2>4 DEF Active
      <3>2. ASSUME calm, NEW i \in Routes PROVE Looked(i)'
        <4>1. UNCHANGED <<entry, ranking>> /\ search'.routes = search.routes
              /\ search'.done = search.done /\ search'.offset = search.offset
          BY <1>1, <1>6
        <4>2. ASSUME NEW k \in Finds(search.routes[i]),
                     i \in search.done \/ Before(k, search.routes[i]) < search.offset[i]
              PROVE  Seen(k)'
          BY <1>1, <1>2, <3>1, <3>2, <4>2 DEF Seen, Represented, Admissible
        <4> QED BY <4>1, <4>2, SamePlaces DEF Looked
      <3>3. SearchIsHonest'
        BY <1>1, <1>2, <1>6, <3>1, <3>2 DEF SearchIsHonest, SameGuidance, Routes, Admissible
      <3> QED BY <1>3, <2>2, <2>3, <3>3
    <2>5. CASE ~ Active'
      BY <1>3, <2>2, <2>3, <2>5 DEF SearchIsHonest
    <2> QED BY <2>4, <2>5
  <1> QED BY <1>5, <1>6
-------------------------------------------------------------------------------
(* The theorems *)

\* Every behaviour of a search keeps to the invariant: what is found is told apart, a
\* reply that is taken is the page that was asked for, and while nothing has changed
\* the rules before a route's offset, and all of a finished route, have been seen.
THEOREM SearchInvariantHolds == SearchSpec => []SearchInv
  <1>1. SearchInit => SearchInv
    <2> SUFFICES ASSUME SearchInit PROVE SearchInv
      OBVIOUS
    <2>1. ShelfTypes
      BY DEF SearchInit, ShelfTypes, Revisions
    <2>2. search = [at |-> "idle", routes |-> <<>>, offset |-> [i \in DOMAIN <<>> |-> 0],
                    done |-> {}, due |-> {}, examined |-> 0, hits |-> {}, found |-> {}]
      <3> DEFINE o == [i \in DOMAIN <<>> |-> 0]
      <3>1. NoSearch = [at |-> "asking", routes |-> <<>>, offset |-> o, done |-> {}, due |-> {},
                        examined |-> 0, hits |-> {}, found |-> {}]
        BY DEF NoSearch, NewSearch
      <3> HIDE DEF o
      <3>2. search = [NoSearch EXCEPT !.at = "idle"]
        BY DEF SearchInit
      <3>3. search = [at |-> "idle", routes |-> <<>>, offset |-> o, done |-> {}, due |-> {},
                      examined |-> 0, hits |-> {}, found |-> {}]
        BY <3>1, <3>2
      <3> QED BY <3>3 DEF o
    <2>3. SearchTypes
      BY <2>2, DegradedIsKnown DEF SearchTypes, Routes
    <2>4. ~ Active
      BY <2>2 DEF Active
    <2>5. ReadTypes /\ ReadsAreOwn /\ SearchIsHonest
      BY <2>4, SearchBounds DEF SearchInit, ReadTypes, ReadsAreOwn, SearchIsHonest
    <2> QED BY <2>1, <2>3, <2>5 DEF SearchInv
  <1>2. SearchInv /\ [SearchNext]_searchVars => SearchInv'
    <2> SUFFICES ASSUME SearchInv, [SearchNext]_searchVars PROVE SearchInv'
      OBVIOUS
    <2>1. CASE UNCHANGED searchVars
      <3>1. Undisturbed /\ ShelfTypes'
        BY <2>1 DEF searchVars, Undisturbed, SearchInv, ShelfTypes
      <3> QED BY <3>1, FrameKept DEF SearchInv
    <2>2. ASSUME NEW k \in Rules, Edit(k) PROVE SearchInv'
      BY <2>2, EditKept
    <2>3. ASSUME NEW S \in SUBSET Rules, NEW here \in BOOLEAN, PublishBegins(S, here)
          PROVE  SearchInv'
      BY <2>3, PublishBeginsKept
    <2>4. CASE StopReadWorker \/ PublishEnds \/ PublishFails
      BY <2>4, PublishingKept
    <2>5. CASE CancelReadWorker \/ StartReadWorker \/ FailPendingReads \/ Close \/ Reopen
      BY <2>5, ReadWorkerKept
    <2>6. CASE ServeRead
      BY <2>6, ServeReadKept
    <2>7. CASE Begin
      BY <2>7, BeginKept
    <2>8. CASE AskPages
      BY <2>8, AskPagesKept
    <2>9. CASE Deliver
      BY <2>9, DeliverKept
    <2>10. CASE DeadlinePasses
      BY <2>10, DeadlinePassesKept
    <2>11. ASSUME NEW S, Examine(S) PROVE SearchInv'
      BY <2>11, ExamineKept
    <2>12. CASE \E k \in Rules, here \in BOOLEAN : PublishBegins({k}, here)
      <3>1. PICK k \in Rules, here \in BOOLEAN : PublishBegins({k}, here)
        BY <2>12
      <3> QED BY <2>3, <3>1
    <2>13. CASE PublishBegins(Rules, FALSE)
      BY <2>3, <2>13
    <2> QED
      BY <2>1, <2>2, <2>4, <2>5, <2>6, <2>7, <2>8, <2>9, <2>10, <2>11, <2>12, <2>13
      DEF SearchNext
  <1> QED BY <1>1, <1>2, PTL DEF SearchSpec

\* A search ends in an answer only by looking at its pages; and what it answers is
\* admitted as it is, says nothing twice, and is complete if nothing has changed.
THEOREM AnswersAreAlwaysSound == SearchSpec => AnswersAreSound
  <1> DEFINE Sound == search.at = "reading" /\ search'.at \in {"answered", "partial"} => AnswerIsSound
  <1>1. SearchInv /\ [SearchNext]_searchVars => [Sound]_searchVars
    <2> SUFFICES ASSUME SearchInv, SearchNext, search.at = "reading",
                        search'.at \in {"answered", "partial"}
                 PROVE  AnswerIsSound
      OBVIOUS
    <2>1. search' # search /\ search' # Degraded
      BY DegradedIsKnown
    <2>2. PICK S : Examine(S)
      <3>1. ASSUME Deliver PROVE FALSE
        <4> DEFINE r == Head(reads)
                   n == Cardinality(r.reply.hits)
        <4>1. search' = [search EXCEPT
                             !.due = @ \ {r.route}, !.hits = @ \cup r.reply.hits,
                             !.offset[r.route] = @ + n, !.examined = @ + n,
                             !.done = IF n < r.size THEN @ \cup {r.route} ELSE @]
          BY <2>1, <3>1 DEF Deliver
        <4> HIDE DEF r, n
        <4>2. search'.at = search.at
          BY <4>1 DEF SearchInv, SearchTypes
        <4> QED BY <4>2
      <3>2. ~ Begin /\ ~ AskPages
        BY DEF Begin, AskPages, Active
      <3>3. \A k \in Rules : ~ Edit(k)
        BY <2>1 DEF Edit
      <3>4. \A T, here : ~ PublishBegins(T, here)
        BY <2>1 DEF PublishBegins
      <3>5. ~ (StopReadWorker \/ PublishEnds \/ PublishFails \/ ServeRead \/ StartReadWorker \/ Reopen)
        BY <2>1 DEF StopReadWorker, PublishEnds, PublishFails, Published, ServeRead,
                    StartReadWorker, Reopen
      <3>6. ~ (CancelReadWorker \/ FailPendingReads \/ Close \/ DeadlinePasses)
        BY <2>1 DEF CancelReadWorker, FailPendingReads, Close, DeadlinePasses, Rejected
      <3> QED BY <3>1, <3>2, <3>3, <3>4, <3>5, <3>6 DEF SearchNext
    <2> DEFINE found == search.found \cup S
    <2>3. /\ search.due = {} /\ Takes(S) /\ search'.found = Revalidate(found)
          /\ search'.done = search.done
      BY <2>1, <2>2, ExamineEnds
    <2>4. /\ found \subseteq [rule : Rules, rev : Revisions] /\ IsFiniteSet(found)
          /\ Cardinality(found) <= SearchLimit
          /\ \A f, g \in found : SameGuidance(f, g) => f = g
          /\ calm => \A f \in found : Admissible(f)
          /\ calm /\ Cardinality(found) # SearchLimit =>
                \A i \in Routes : \A k \in Finds(search.routes[i]) :
                   (i \in search.done \/ Before(k, search.routes[i]) < search.offset[i])
                   /\ Admissible([rule |-> k, rev |-> entry[k]]) => Represented(k, found)
      BY <2>3, TakingIsSound
    <2> HIDE DEF found
    <2> DEFINE answer == search'.found
    <2>5. answer \subseteq found /\ \A f \in answer : Admissible(f)
      BY <2>3 DEF Revalidate
    <2>6. Cardinality(answer) <= SearchLimit
      <3>1. Cardinality(answer) <= Cardinality(found) /\ IsFiniteSet(answer)
        BY <2>4, <2>5, FS_Subset
      <3>2. Cardinality(answer) \in Nat /\ Cardinality(found) \in Nat
        BY <2>4, <3>1, FS_CardinalityType
      <3> QED BY <2>4, <3>1, <3>2, SearchBounds
    <2>7. ASSUME search'.done = Routes, calm, Cardinality(answer) < SearchLimit,
                 NEW i \in Routes, NEW k \in search.routes[i], entry[k] # Absent,
                 Admissible([rule |-> k, rev |-> entry[k]])
          PROVE  \E f \in answer : Guidance[f.rule] = Guidance[k]
      <3>1. answer = found
        BY <2>3, <2>4, <2>7 DEF Revalidate
      <3>2. Cardinality(found) # SearchLimit
        BY <2>7, <3>1, SearchBounds
      <3>3. k \in Finds(search.routes[i]) /\ i \in search.done
        BY <2>3, <2>7 DEF Finds
      <3> QED BY <2>4, <2>7, <3>1, <3>2, <3>3 DEF Represented
    <2> QED BY <2>4, <2>5, <2>6, <2>7 DEF AnswerIsSound
  <1> QED BY <1>1, SearchInvariantHolds, PTL DEF SearchSpec, AnswersAreSound
===============================================================================
