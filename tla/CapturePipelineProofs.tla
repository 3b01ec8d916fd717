------------------------ MODULE CapturePipelineProofs ------------------------
(***************************************************************************)
(* Proofs about CapturePipeline, for any ids, keys, claimants and budgets, *)
(* and, at the end, about Deletion, which composes it with a delete() call.*)
(***************************************************************************)
EXTENDS Deletion, TLAPS

USE DEF Terminal, States, Kinds, OperationStatuses, RunSteps, Results

(* What the queue does to an item keeps it an item of the same event.      *)
LEMMA SettledIsItem ==
    ASSUME NEW it \in Item, NEW s \in Terminal
    PROVE  /\ Settled(it, s) \in Item
           /\ Settled(it, s).key = it.key
           /\ Settled(it, s).failures = it.failures
           /\ Settled(it, s).state = s
  BY DEF Settled, Item

\* claimNext hands out a queue item again: same event, same failures.
LEMMA ClaimedIsItem ==
    ASSUME NEW it \in Item, NEW c \in Claimants
    PROVE  /\ Claimed(it, c) \in Item
           /\ Claimed(it, c).key = it.key
           /\ Claimed(it, c).failures = it.failures
           /\ Claimed(it, c).state = "claimed"
<1> DEFINE n == it.attempts + 1
           r == [it EXCEPT !.state = "claimed", !.attempts = n,
                           !.holder = c, !.elapsed = FALSE]
<1>1. Claimed(it, c) = r
  BY DEF Claimed
<1>2. n \in Nat
  BY DEF Item
<1> HIDE DEF n
<1>3. r \in Item /\ r.key = it.key /\ r.failures = it.failures /\ r.state = "claimed"
  BY <1>2, NoneAssumption DEF Item
<1> QED
  BY <1>1, <1>3

\* #retryClaimed requeues or dead-letters an item, the latter only when the
\* failures it counted reach the maximum.
LEMMA RetriedIsItem ==
    ASSUME NEW it \in Item, NEW counted \in BOOLEAN
    PROVE  /\ Retried(it, counted) \in Item
           /\ Retried(it, counted).key = it.key
           /\ Retried(it, counted).state \in {"retry", "dead-letter"}
           /\ Retried(it, counted).state = "dead-letter"
                => Retried(it, counted).failures >= MaxAttempts
           /\ ~ counted => /\ Retried(it, counted).state = "retry"
                           /\ Retried(it, counted).failures = it.failures
<1> DEFINE n == it.failures + (IF counted THEN 1 ELSE 0)
           s == IF counted /\ n >= MaxAttempts THEN "dead-letter" ELSE "retry"
           r == [it EXCEPT !.state = s, !.failures = n,
                           !.holder = None, !.elapsed = FALSE]
<1>1. Retried(it, counted) = r
  BY DEF Retried
<1>2. n \in Nat /\ (~ counted => n = it.failures) /\ s \in {"retry", "dead-letter"}
  BY DEF Item
<1>3. s = "dead-letter" => n >= MaxAttempts
  OBVIOUS
<1>4. ~ counted => s = "retry"
  OBVIOUS
<1> HIDE DEF n, s
<1>5. /\ r \in Item
      /\ r.key = it.key
      /\ r.state = s
      /\ r.failures = n
  BY <1>2 DEF Item
<1> QED
  BY <1>1, <1>2, <1>3, <1>4, <1>5
-------------------------------------------------------------------------------
(* What each queue operation does, one lemma for each way it changes items. *)

\* enqueue and enqueueIfSourceAbsent add one pending item.
LEMMA EnqueueEffect ==
    ASSUME QueueTypeOK, NEW i \in Ids, NEW k \in Keys, Enqueue(i, k)
    PROVE  /\ QueueTypeOK'
           /\ item[i] = None
           /\ item' = [item EXCEPT ![i] = Pending(k)]
           /\ Pending(k) \in Item
<1>1. Pending(k) \in Item
  BY DEF Pending, Item
<1>2. item' \in [Ids -> Item \cup {None}]
  BY <1>1 DEF Enqueue, QueueTypeOK
<1>3. source' \in [Keys -> Ids \cup {None}]
  BY DEF Enqueue, QueueTypeOK
<1> QED
  BY <1>1, <1>2, <1>3 DEF Enqueue, QueueTypeOK

(* What every step does to an item it neither publishes nor settles: with   *)
(* no run at work it may prune it once acknowledged; else it leaves its     *)
(* event and a settled state alone, and never charges it a failure.         *)
Kept(j) ==
    IF item[j] = None THEN item'[j] = None
    ELSE \/ item'[j] = None /\ item[j].state = "acknowledged" /\ run = None
         \/ /\ item'[j] \in Item
            /\ item'[j].key = item[j].key
            /\ item'[j].failures = item[j].failures
            /\ item[j].state = "dead-letter" => item'[j].state = "dead-letter"
            /\ item'[j].state \in Terminal => item[j].state = item'[j].state

QuietStep == QueueTypeOK' /\ \A j \in Ids : Kept(j)

\* A step that leaves the queue alone is quiet.
LEMMA StutterIsQuiet ==
    ASSUME QueueTypeOK, UNCHANGED queueVars
    PROVE  QuietStep
  BY DEF QueueTypeOK, queueVars, QuietStep, Kept

\* So is one that rewrites one live item without charging it a failure,
LEMMA OneItemIsQuiet ==
    ASSUME QueueTypeOK, NEW i \in Ids, NEW it \in Item, item[i] \in Item,
           item' = [item EXCEPT ![i] = it],
           it.key = item[i].key, it.failures = item[i].failures,
           it.state \notin Terminal, item[i].state # "dead-letter",
           UNCHANGED <<source, barrier, blocked, cutoff>>
    PROVE  QuietStep
<1>1. QueueTypeOK'
  BY DEF QueueTypeOK
<1>2. ASSUME NEW j \in Ids PROVE Kept(j)
  <2>1. CASE j = i
    BY <2>1, NoneAssumption DEF QueueTypeOK, Kept
  <2>2. CASE j # i
    BY <2>2 DEF QueueTypeOK, Kept
  <2> QED
    BY <2>1, <2>2
<1> QED
  BY <1>1, <1>2 DEF QuietStep

\* claimNext is such a step,
LEMMA ClaimIsQuiet ==
    ASSUME QueueTypeOK, NEW i \in Ids, NEW c \in Claimants, Claim(i, c)
    PROVE  QuietStep /\ item[i] \in Item
<1>1. item[i] \in Item /\ item[i].state \in {"pending", "retry"}
  BY DEF Claim, Claimable, InState, Published, QueueTypeOK
<1>2. item' = [item EXCEPT ![i] = Claimed(item[i], c)]
  BY DEF Claim
<1>3. UNCHANGED <<source, barrier, blocked, cutoff>>
  BY DEF Claim
<1> QED
  BY <1>1, <1>2, <1>3, ClaimedIsItem, OneItemIsQuiet

\* the passing of a deadline is,
LEMMA ElapseIsQuiet ==
    ASSUME QueueTypeOK, NEW i \in Ids, Elapse(i)
    PROVE  QuietStep
<1> DEFINE it == [item[i] EXCEPT !.elapsed = TRUE]
<1>1. item[i] \in Item
  BY DEF Elapse, InState, Published, QueueTypeOK
<1>2. /\ it \in Item /\ it.key = item[i].key
      /\ it.failures = item[i].failures /\ it.state = item[i].state
  BY <1>1 DEF Item
<1>3. item' = [item EXCEPT ![i] = it]
  BY DEF Elapse
<1>4. QueueTypeOK'
  BY <1>2, <1>3 DEF Elapse, QueueTypeOK
<1>5. ASSUME NEW j \in Ids PROVE Kept(j)
  <2>1. CASE j = i
    BY <2>1, <1>1, <1>2, <1>3, NoneAssumption DEF QueueTypeOK, Kept
  <2>2. CASE j # i
    BY <2>2, <1>3 DEF QueueTypeOK, Kept
  <2> QED
    BY <2>1, <2>2
<1> QED
  BY <1>4, <1>5 DEF QuietStep

\* recoverExpiredClaims is, however many of the expired claims it reaches,
LEMMA RecoverIsQuiet ==
    ASSUME QueueTypeOK, NEW S \in SUBSET Ids, RecoverExpiredClaims(S)
    PROVE  QuietStep
<1>1. ASSUME NEW j \in S
      PROVE  /\ item[j] \in Item /\ item[j].state = "claimed"
             /\ item'[j] = Retried(item[j], FALSE)
             /\ item'[j] \in Item /\ item'[j].key = item[j].key
             /\ item'[j].failures = item[j].failures /\ item'[j].state = "retry"
  <2>1. item[j] \in Item /\ item[j].state = "claimed"
    BY DEF RecoverExpiredClaims, ExpiredClaims, InState, Published, QueueTypeOK
  <2>2. item'[j] = Retried(item[j], FALSE)
    BY DEF RecoverExpiredClaims
  <2>3. /\ Retried(item[j], FALSE) \in Item
        /\ Retried(item[j], FALSE).key = item[j].key
        /\ Retried(item[j], FALSE).failures = item[j].failures
        /\ Retried(item[j], FALSE).state = "retry"
    <3> DEFINE it == item[j]
    <3>1. it \in Item /\ FALSE \in BOOLEAN /\ ~ FALSE
      BY <2>1
    <3> HIDE DEF it
    <3>2. /\ Retried(it, FALSE) \in Item
          /\ Retried(it, FALSE).key = it.key
          /\ Retried(it, FALSE).failures = it.failures
          /\ Retried(it, FALSE).state = "retry"
      BY <3>1, RetriedIsItem, Zenon
    <3> QED
      BY <3>2 DEF it
  <2>4. /\ item'[j] \in Item /\ item'[j].key = item[j].key
        /\ item'[j].failures = item[j].failures /\ item'[j].state = "retry"
    BY <2>2, <2>3, Zenon
  <2> QED
    BY <2>1, <2>2, <2>4, Zenon
<1>2. ASSUME NEW j \in Ids \ S PROVE item'[j] = item[j]
  BY DEF RecoverExpiredClaims
<1>3. item' \in [Ids -> Item \cup {None}]
  BY <1>1, <1>2 DEF RecoverExpiredClaims, QueueTypeOK
<1>4. QueueTypeOK'
  BY <1>3 DEF RecoverExpiredClaims, QueueTypeOK
<1>5. ASSUME NEW j \in Ids PROVE Kept(j)
  <2>1. CASE j \in S
    BY <2>1, <1>1, NoneAssumption DEF Kept
  <2>2. CASE j \notin S
    BY <2>2, <1>2 DEF QueueTypeOK, Kept
  <2> QED
    BY <2>1, <2>2
<1> QED
  BY <1>4, <1>5 DEF QuietStep

\* and pruneAcknowledged is, between runs.
LEMMA PruneIsQuiet ==
    ASSUME QueueTypeOK, run = None, NEW S \in SUBSET Ids, PruneAcknowledged(S)
    PROVE  QuietStep
<1>1. ASSUME NEW j \in S
      PROVE  item[j] # None /\ item[j].state = "acknowledged" /\ item'[j] = None
  BY DEF PruneAcknowledged, RemoveItems, OldAcknowledged, InState, Published
<1>2. ASSUME NEW j \in Ids \ S PROVE item'[j] = item[j]
  BY DEF PruneAcknowledged, RemoveItems
<1>3. QueueTypeOK'
  BY DEF PruneAcknowledged, RemoveItems, QueueTypeOK
<1>4. ASSUME NEW j \in Ids PROVE Kept(j)
  <2>1. CASE j \in S
    BY <2>1, <1>1 DEF Kept
  <2>2. CASE j \notin S
    BY <2>2, <1>2 DEF QueueTypeOK, Kept
  <2> QED
    BY <2>1, <2>2
<1> QED
  BY <1>3, <1>4 DEF QuietStep
-------------------------------------------------------------------------------
(* Settling touches the claimed item only.                                  *)
SettledStep(x) ==
    /\ QueueTypeOK'
    /\ item[x] \in Item /\ item[x].state = "claimed"
    /\ item'[x] \in Item /\ item'[x].key = item[x].key
    /\ \A j \in Ids \ {x} : Kept(j)

\* A settlement changes the one item whose active claim it names.
LEMMA SettleEffect ==
    ASSUME QueueTypeOK, NEW i \in Ids, NEW c, NEW n, NEW it,
           Settle(i, c, n, it),
           item[i] \in Item => it \in Item /\ it.key = item[i].key
    PROVE  SettledStep(i) /\ item'[i] = it
<1>1. item[i] \in Item /\ item[i].state = "claimed"
  BY DEF Settle, ActiveClaim, InState, Published, QueueTypeOK
<1>2. item' = [item EXCEPT ![i] = it] /\ it \in Item /\ it.key = item[i].key
  BY <1>1 DEF Settle
<1>3. QueueTypeOK'
  BY <1>2 DEF Settle, QueueTypeOK
<1>4. item'[i] = it
  BY <1>2 DEF QueueTypeOK
<1>5. ASSUME NEW j \in Ids \ {i} PROVE Kept(j)
  BY <1>2 DEF QueueTypeOK, Kept
<1> QED
  BY <1>1, <1>2, <1>3, <1>4, <1>5 DEF SettledStep

\* acknowledge and deadLetter leave the failures as they were.
LEMMA TerminalSettles ==
    ASSUME QueueTypeOK, NEW i \in Ids, NEW c, NEW n, NEW s \in Terminal,
           Settle(i, c, n, Settled(item[i], s))
    PROVE  /\ SettledStep(i)
           /\ item'[i].state = s
           /\ item'[i].failures = item[i].failures
<1>1. ASSUME item[i] \in Item
      PROVE  /\ Settled(item[i], s) \in Item
             /\ Settled(item[i], s).key = item[i].key
             /\ Settled(item[i], s).failures = item[i].failures
             /\ Settled(item[i], s).state = s
  BY <1>1, SettledIsItem
<1>2. SettledStep(i) /\ item'[i] = Settled(item[i], s)
  BY <1>1, SettleEffect
<1> QED
  BY <1>1, <1>2 DEF SettledStep

\* retry either requeues the item or dead-letters it with its budget spent.
LEMMA RetrySettles ==
    ASSUME QueueTypeOK, NEW i \in Ids, NEW c, NEW n, Retry(i, c, n)
    PROVE  /\ SettledStep(i)
           /\ item'[i].state \in {"retry", "dead-letter"}
           /\ item'[i].state = "dead-letter" => item'[i].failures >= MaxAttempts
<1>1. ASSUME item[i] \in Item
      PROVE  /\ Retried(item[i], TRUE) \in Item
             /\ Retried(item[i], TRUE).key = item[i].key
             /\ Retried(item[i], TRUE).state \in {"retry", "dead-letter"}
             /\ Retried(item[i], TRUE).state = "dead-letter"
                  => Retried(item[i], TRUE).failures >= MaxAttempts
  BY <1>1, RetriedIsItem
<1>2. SettledStep(i) /\ item'[i] = Retried(item[i], TRUE)
  BY <1>1, SettleEffect DEF Retry
<1> QED
  BY <1>1, <1>2 DEF SettledStep

\* retryAfterCommit never dead-letters and charges nothing.
LEMMA RetryAfterCommitIsQuiet ==
    ASSUME QueueTypeOK, NEW i \in Ids, NEW c, NEW n, RetryAfterCommit(i, c, n)
    PROVE  QuietStep
<1>1. ASSUME item[i] \in Item
      PROVE  /\ Retried(item[i], FALSE) \in Item
             /\ Retried(item[i], FALSE).key = item[i].key
             /\ Retried(item[i], FALSE).failures = item[i].failures
             /\ Retried(item[i], FALSE).state = "retry"
  BY <1>1, RetriedIsItem
<1>2. SettledStep(i) /\ item'[i] = Retried(item[i], FALSE)
  BY <1>1, SettleEffect DEF RetryAfterCommit
<1>3. Kept(i)
  BY <1>1, <1>2, NoneAssumption DEF SettledStep, Kept
<1> QED
  BY <1>2, <1>3 DEF SettledStep, QuietStep
-------------------------------------------------------------------------------
(* What every step does to the store: its rows stay.                        *)
StoreKeeps ==
    /\ StoreTypeOK'
    /\ \A k \in Keys : raw[k] # NoEvent => raw'[k] = raw[k]
    /\ rejected \subseteq rejected'
    /\ UNCHANGED <<operation, expired>>

\* A step that leaves the store alone withdraws nothing from it.
LEMMA StutterKeepsStore ==
    ASSUME StoreTypeOK, UNCHANGED storeVars
    PROVE  StoreKeeps
  BY DEF StoreTypeOK, storeVars, StoreKeeps

\* ingestQueueItem withdraws nothing and leaves the row it reports.
LEMMA IngestKeepsStore ==
    ASSUME StoreTypeOK, NEW k \in Keys, Ingest(k),
           NEW r, r = IngestResult(k)
    PROVE  StoreKeeps /\ Answered(k, r)'
<1>1. Kind[k] \in Kinds
  BY KindAssumption
<1>2. Dropped(k)' = Dropped(k)
  BY DEF Ingest, Dropped, Tombstoned
<1>3. StoreKeeps
  BY <1>1, NoEventAssumption DEF Ingest, Rejection, StoreTypeOK, StoreKeeps
<1>4. CASE Dropped(k)
  BY <1>3, <1>2, <1>4 DEF IngestResult, Answered
<1>5. CASE ~ Dropped(k) /\ Kind[k] = "invalid"
  BY <1>3, <1>2, <1>5 DEF IngestResult, Answered, Ingest, Rejection, StoreTypeOK
<1>6. CASE ~ Dropped(k) /\ Kind[k] # "invalid"
  BY <1>3, <1>1, <1>2, <1>6, NoEventAssumption DEF IngestResult, Answered, Ingest, Rejection, StoreTypeOK
<1> QED
  BY <1>3, <1>4, <1>5, <1>6
-------------------------------------------------------------------------------
(* The invariant, item by item.                                             *)
ItemSafe(j) ==
    item[j] # None =>
        /\ j \in used
        /\ item[j].state = "acknowledged" =>
              raw[item[j].key] = "supported" \/ Dropped(item[j].key)
        /\ item[j].state = "dead-letter" =>
              \/ item[j].failures >= MaxAttempts
              \/ raw[item[j].key] = "unsupported"
              \/ item[j].key \in rejected

\* The invariants about items, item by item,
LEMMA ItemwiseSafe ==
    (\A j \in Ids : ItemSafe(j))
      <=> IdsAreUsed /\ AcknowledgedIsRecorded /\ DeadLetterIsExplained
  BY DEF ItemSafe, IdsAreUsed, AcknowledgedIsRecorded, DeadLetterIsExplained,
         InState, Published

\* and so in the next state.
LEMMA ItemwiseSafeNext ==
    ASSUME \A j \in Ids : ItemSafe(j)'
    PROVE  (IdsAreUsed /\ AcknowledgedIsRecorded /\ DeadLetterIsExplained)'
  BY DEF ItemSafe, IdsAreUsed, AcknowledgedIsRecorded, DeadLetterIsExplained,
         InState, Published

\* An item that is kept stays safe in a store that withdraws nothing.
LEMMA KeptIsSafe ==
    ASSUME TypeOK, NEW j \in Ids, ItemSafe(j), Kept(j), StoreKeeps,
           used \subseteq used'
    PROVE  ItemSafe(j)'
<1>1. CASE item[j] = None
  BY <1>1 DEF Kept, ItemSafe
<1>2. CASE item[j] # None /\ item'[j] = None
  BY <1>2 DEF ItemSafe
<1>3. CASE item[j] # None /\ item'[j] # None
  <2>1. /\ item[j] \in Item /\ item'[j].key = item[j].key /\ item[j].key \in Keys
        /\ item'[j].failures = item[j].failures
        /\ item'[j].state \in Terminal => item[j].state = item'[j].state
    BY <1>3 DEF Kept, TypeOK, QueueTypeOK, Item
  <2> DEFINE k == item[j].key
  <2>2. /\ Dropped(k)' = Dropped(k)
        /\ raw[k] = "supported" => raw'[k] = "supported"
        /\ raw[k] = "unsupported" => raw'[k] = "unsupported"
        /\ k \in rejected => k \in rejected'
    BY <2>1, NoEventAssumption DEF StoreKeeps, Dropped, Tombstoned
  <2> QED
    BY <1>3, <2>1, <2>2 DEF ItemSafe
<1> QED
  BY <1>1, <1>2, <1>3

\* The items of a step that publishes and settles nothing.
LEMMA QuietIsSafe ==
    ASSUME PipelineInv, QuietStep, StoreKeeps, used \subseteq used'
    PROVE  (IdsAreUsed /\ AcknowledgedIsRecorded /\ DeadLetterIsExplained)'
<1>1. \A j \in Ids : ItemSafe(j)
  BY ItemwiseSafe DEF PipelineInv
<1>2. \A j \in Ids : ItemSafe(j)'
  BY <1>1, KeptIsSafe DEF PipelineInv, QuietStep
<1> QED
  BY <1>2, ItemwiseSafeNext

\* The items of a step that settles x.
LEMMA SettledIsSafe ==
    ASSUME PipelineInv, NEW x \in Ids, SettledStep(x), ItemSafe(x)',
           UNCHANGED <<storeVars, used>>
    PROVE  (IdsAreUsed /\ AcknowledgedIsRecorded /\ DeadLetterIsExplained)'
<1>1. \A j \in Ids : ItemSafe(j)
  BY ItemwiseSafe DEF PipelineInv
<1>2. StoreKeeps
  BY StutterKeepsStore DEF PipelineInv, TypeOK
<1>3. ASSUME NEW j \in Ids \ {x} PROVE ItemSafe(j)'
  BY <1>1, <1>2, KeptIsSafe DEF PipelineInv, SettledStep
<1>4. \A j \in Ids : ItemSafe(j)'
  BY <1>3
<1> QED
  BY <1>4, ItemwiseSafeNext

\* No step gives the item a run names to another event.
ItemKeepsKey(j) ==
    item'[j] # None => item[j] # None /\ item'[j].key = item[j].key

\* A kept item keeps its event,
LEMMA KeptKeepsKey ==
    ASSUME NEW j \in Ids, Kept(j)
    PROVE  ItemKeepsKey(j)
  BY DEF Kept, ItemKeepsKey

\* and so does a settled one.
LEMMA SettledKeepsKey ==
    ASSUME TypeOK, NEW x \in Ids, SettledStep(x), NEW j \in Ids
    PROVE  ItemKeepsKey(j)
  BY KeptKeepsKey, NoneAssumption DEF SettledStep, ItemKeepsKey
-------------------------------------------------------------------------------
(* The run, step by step.  A step that leaves the store alone keeps its     *)
(* answers; one that settles or keeps items keeps the run's item its own.   *)

\* The run is at its item: what RunIsHonest says of it then.
HoldsItem ==
    /\ run \in Run /\ run.id \in used /\ run.id \in Ids /\ run.key \in Keys
    /\ item[run.id] # None => item[run.id].key = run.key

\* What RunIsHonest says of a run at an item.
LEMMA RunHoldsItem ==
    ASSUME PipelineInv, run # None, run.pc \in AtItem
    PROVE  HoldsItem
  BY DEF PipelineInv, TypeOK, RunIsHonest, HoldsItem

\* A step that does not touch the run.
LEMMA IdleRunIsHonest ==
    ASSUME PipelineInv, UNCHANGED <<run, dirty, projected, storeVars>>,
           used \subseteq used', \A j \in used : ItemKeepsKey(j)
    PROVE  RunIsHonest'
<1>1. CASE run = None
  BY <1>1 DEF RunIsHonest
<1>2. CASE run # None
  <2>1. run.pc \in AtItem =>
           /\ run.id \in used' /\ run.key \in Keys
           /\ item'[run.id] # None => item'[run.id].key = run.key
    BY <1>2, RunHoldsItem DEF HoldsItem, ItemKeepsKey
  <2>2. run.pc \in {"settling", "unsettled"} => Answered(run.key, run.result)'
    <3> SUFFICES ASSUME run.pc \in {"settling", "unsettled"}
                 PROVE  Answered(run.key, run.result)'
      OBVIOUS
    <3>1. Answered(run.key, run.result)
      BY <1>2 DEF PipelineInv, RunIsHonest
    <3> QED
      BY <3>1 DEF storeVars, Answered, Dropped, Tombstoned
  <2>3. Supported' = Supported
    BY DEF Supported, storeVars
  <2> QED
    BY <1>2, <2>1, <2>2, <2>3 DEF PipelineInv, RunIsHonest
<1> QED
  BY <1>1, <1>2

\* A step that moves the run on at its item, with the store's answer or none.
LEMMA MovedRunIsHonest ==
    ASSUME PipelineInv, run # None, run.pc \in AtItem,
           NEW pc \in {"unsettled", "failing"}, run' = [run EXCEPT !.pc = pc],
           UNCHANGED <<dirty, storeVars, used>>, ItemKeepsKey(run.id),
           pc = "unsettled" => run.pc = "settling",
           pc = "failing" => run.pc \in {"claimed", "marked"}
    PROVE  RunIsHonest' /\ run' \in Run
<1>1. HoldsItem
  BY RunHoldsItem
<1>2. /\ run' \in Run /\ run'.pc = pc /\ run'.id = run.id /\ run'.key = run.key
      /\ run'.result = run.result /\ run'.marked = run.marked
  BY <1>1 DEF HoldsItem, Run, AtItem
<1>3. /\ run'.id \in used' /\ run'.key \in Keys
      /\ item'[run'.id] # None => item'[run'.id].key = run'.key
  BY <1>1, <1>2 DEF HoldsItem, ItemKeepsKey
<1>4. pc = "unsettled" => Answered(run.key, run.result)'
  <2> SUFFICES ASSUME pc = "unsettled" PROVE Answered(run.key, run.result)'
    OBVIOUS
  <2>1. Answered(run.key, run.result)
    BY DEF PipelineInv, RunIsHonest
  <2>2. /\ raw' = raw /\ rejected' = rejected
        /\ operation' = operation /\ expired' = expired
    BY DEF storeVars
  <2> QED
    BY <1>2, <2>1, <2>2 DEF Answered, Dropped, Tombstoned
<1>5. pc = "failing" => run'.result = "none"
  BY <1>2 DEF PipelineInv, RunIsHonest
<1>6. run'.marked => dirty'
  BY <1>2 DEF PipelineInv, RunIsHonest
<1> QED
  BY <1>2, <1>3, <1>4, <1>5, <1>6 DEF RunIsHonest, AtItem

\* A step after which the run is on its way to the next item, or over.
LEMMA FreeRunIsHonest ==
    ASSUME PipelineInv, run # None, UNCHANGED dirty, NextItem \/ run' = None
    PROVE  RunIsHonest' /\ run' \in Run \cup {None}
<1>1. CASE run' = None
  BY <1>1 DEF RunIsHonest
<1>2. CASE NextItem
  <2>1. run \in Run
    BY DEF PipelineInv, TypeOK
  <2>2. /\ run' \in Run /\ run'.pc = "next"
        /\ run'.marked = run.marked /\ run'.result = "none"
    BY <1>2, <2>1 DEF NextItem, Run
  <2> QED
    BY <2>2 DEF PipelineInv, RunIsHonest, AtItem
<1> QED
  BY <1>1, <1>2
-------------------------------------------------------------------------------
(* One lemma for each kind of step.                                         *)

\* The marker covers the lag as long as neither changes.
LEMMA QuietLag ==
    ASSUME PipelineInv, UNCHANGED <<dirty, projected, storeVars>>
    PROVE  LagIsMarked'
  BY DEF PipelineInv, LagIsMarked, Supported, storeVars

\* Producers preserve the invariant.
LEMMA PublishStep ==
    ASSUME PipelineInv, NEW i \in Ids, NEW k \in Keys,
           Publish(i, k) \/ PublishAgain(i, k)
    PROVE  PipelineInv'
<1>1. /\ Enqueue(i, k) /\ i \notin used /\ used' = used \cup {i}
      /\ UNCHANGED <<storeVars, run, dirty, projected, faults>>
  BY DEF Publish, PublishAgain, EnqueueIfSourceAbsent
<1>2. QueueTypeOK'  /\ item' = [item EXCEPT ![i] = Pending(k)]
  BY <1>1, EnqueueEffect DEF PipelineInv, TypeOK
<1>3. TypeOK'
  BY <1>1, <1>2 DEF PipelineInv, TypeOK, StoreTypeOK, storeVars
<1>4. ASSUME NEW j \in Ids PROVE ItemSafe(j)'
  <2>1. CASE j = i
    BY <1>1, <1>2, <2>1 DEF ItemSafe, Pending, PipelineInv, TypeOK, QueueTypeOK
  <2>2. CASE j # i
    <3>1. ItemSafe(j)
      BY ItemwiseSafe DEF PipelineInv
    <3>2. item'[j] = item[j]
      BY <1>2, <2>2 DEF PipelineInv, TypeOK, QueueTypeOK
    <3> QED
      BY <1>1, <3>1, <3>2 DEF ItemSafe, storeVars, Dropped, Tombstoned
  <2> QED
    BY <2>1, <2>2
<1>5. \A j \in used : ItemKeepsKey(j)
  BY <1>1, <1>2 DEF ItemKeepsKey, PipelineInv, TypeOK, QueueTypeOK
<1>6. RunIsHonest'
  BY <1>1, <1>5, IdleRunIsHonest
<1>7. LagIsMarked'
  BY <1>1, QuietLag
<1> QED
  BY <1>3, <1>4, <1>6, <1>7, ItemwiseSafeNext DEF PipelineInv

\* The passing of a deadline preserves it.
LEMMA TimeStep ==
    ASSUME PipelineInv, NEW i \in Ids, TimePasses(i)
    PROVE  PipelineInv'
<1>1. QuietStep
  BY ElapseIsQuiet DEF TimePasses, PipelineInv, TypeOK
<1>2. UNCHANGED <<storeVars, used, run, dirty, projected>> /\ faults' \in Nat
  BY DEF TimePasses, Fault, NoFault, PipelineInv, TypeOK
<1>3. TypeOK'
  BY <1>1, <1>2 DEF QuietStep, PipelineInv, TypeOK, StoreTypeOK, storeVars
<1>4. StoreKeeps
  BY <1>2, StutterKeepsStore DEF PipelineInv, TypeOK
<1>5. (IdsAreUsed /\ AcknowledgedIsRecorded /\ DeadLetterIsExplained)'
  BY <1>1, <1>2, <1>4, QuietIsSafe
<1>6. \A j \in used : ItemKeepsKey(j)
  BY <1>1, KeptKeepsKey DEF QuietStep, PipelineInv, TypeOK
<1>7. RunIsHonest' /\ LagIsMarked'
  BY <1>2, <1>6, IdleRunIsHonest, QuietLag
<1> QED
  BY <1>3, <1>5, <1>7 DEF PipelineInv

\* A step that is quiet for the queue, leaves the store and the projections
\* alone, and moves the run in an honest way.
LEMMA QuietRunStep ==
    ASSUME PipelineInv, QuietStep, UNCHANGED <<storeVars, used, projected>>,
           faults' \in Nat, dirty' \in BOOLEAN, run' \in Run \cup {None},
           RunIsHonest', LagIsMarked'
    PROVE  PipelineInv'
<1>1. StoreKeeps
  BY StutterKeepsStore DEF PipelineInv, TypeOK
<1>2. (IdsAreUsed /\ AcknowledgedIsRecorded /\ DeadLetterIsExplained)'
  BY <1>1, QuietIsSafe
<1>3. TypeOK'
  BY DEF QuietStep, PipelineInv, TypeOK, StoreTypeOK, storeVars
<1> QED
  BY <1>2, <1>3 DEF PipelineInv

\* The start of a run preserves it: it takes the marker into account.
LEMMA StartRunStep ==
    ASSUME PipelineInv, NEW w \in Claimants, NEW S \in SUBSET Ids, StartRun(w, S)
    PROVE  PipelineInv'
<1>1. QuietStep
  BY PruneIsQuiet DEF StartRun, PipelineInv, TypeOK
<1>2. /\ UNCHANGED <<storeVars, used, dirty, projected>>
      /\ faults' \in Nat /\ dirty' \in BOOLEAN
  BY DEF StartRun, Fault, NoFault, PipelineInv, TypeOK
<1>3. run' \in Run \cup {None} /\ RunIsHonest'
  <2>1. CASE run' = None
    BY <2>1 DEF RunIsHonest
  <2>2. CASE run' # None
    <3>1. run' = [worker |-> w, pc |-> "recover", id |-> None, key |-> None,
                  attempts |-> 0, result |-> "none", marked |-> dirty]
      BY <2>2 DEF StartRun
    <3>2. run' \in Run
      BY <3>1 DEF Run, PipelineInv, TypeOK
    <3>3. run'.pc = "recover" /\ run'.marked = dirty /\ run'.result = "none"
      BY <3>1
    <3> QED
      BY <1>2, <3>2, <3>3 DEF RunIsHonest, AtItem
  <2> QED
    BY <2>1, <2>2
<1> QED
  BY <1>1, <1>2, <1>3, QuietLag, QuietRunStep

\* A run between items: whatever it does next, it carries no answer.
LEMMA BetweenItems ==
    ASSUME PipelineInv, run # None, run.pc \in {"recover", "next"},
           NEW pc \in {"next", "project"},
           run' = [run EXCEPT !.pc = pc], UNCHANGED dirty
    PROVE  run' \in Run \cup {None} /\ RunIsHonest'
<1>1. run \in Run
  BY DEF PipelineInv, TypeOK
<1>2. /\ run' \in Run /\ run'.pc = pc
      /\ run'.marked = run.marked /\ run'.result = run.result
  BY <1>1 DEF Run
<1> QED
  BY <1>2 DEF PipelineInv, RunIsHonest, AtItem

\* Claim recovery preserves it.
LEMMA RecoverStep ==
    ASSUME PipelineInv, NEW S \in SUBSET Ids, Recover(S)
    PROVE  PipelineInv'
<1>1. QuietStep
  BY RecoverIsQuiet, StutterIsQuiet DEF Recover, PipelineInv, TypeOK
<1>2. /\ UNCHANGED <<storeVars, used, dirty, projected>>
      /\ faults' \in Nat /\ dirty' \in BOOLEAN
  BY DEF Recover, Fault, NoFault, PipelineInv, TypeOK
<1>3. run' \in Run \cup {None} /\ RunIsHonest'
  <2>1. run # None /\ run.pc = "recover" /\ (run' = None \/ run' = [run EXCEPT !.pc = "next"])
    BY DEF Recover, At, Go
  <2>2. CASE run' = None
    BY <2>2 DEF RunIsHonest
  <2>3. CASE run' = [run EXCEPT !.pc = "next"]
    BY <1>2, <2>1, <2>3, BetweenItems
  <2> QED
    BY <2>1, <2>2, <2>3
<1> QED
  BY <1>1, <1>2, <1>3, QuietLag, QuietRunStep

\* The end of the batch loop preserves it.
LEMMA EndBatchStep ==
    ASSUME PipelineInv, EndBatch
    PROVE  PipelineInv'
<1>1. QuietStep
  BY StutterIsQuiet DEF EndBatch, PipelineInv, TypeOK
<1>2. /\ UNCHANGED <<storeVars, used, dirty, projected>>
      /\ faults' \in Nat /\ dirty' \in BOOLEAN
  BY DEF EndBatch, PipelineInv, TypeOK
<1>3. run' \in Run \cup {None} /\ RunIsHonest'
  BY <1>2, BetweenItems DEF EndBatch, At, Go
<1> QED
  BY <1>1, <1>2, <1>3, QuietLag, QuietRunStep

\* A claim preserves it: the run takes the item's event along.
LEMMA ClaimStep ==
    ASSUME PipelineInv, NEW i \in Ids, ClaimNext(i)
    PROVE  PipelineInv'
<1>1. run # None /\ run \in Run /\ run.worker \in Claimants
  BY DEF ClaimNext, At, PipelineInv, TypeOK, Run
<1>2. QuietStep /\ item[i] \in Item
  BY <1>1, ClaimIsQuiet DEF ClaimNext, PipelineInv, TypeOK
<1>3. /\ UNCHANGED <<storeVars, used, dirty, projected>>
      /\ faults' \in Nat /\ dirty' \in BOOLEAN
  BY DEF ClaimNext, PipelineInv, TypeOK
<1> DEFINE n == item[i].attempts + 1
<1>4. item[i] # None /\ item[i].key \in Keys /\ n \in Nat /\ i \in used
  BY <1>2, NoneAssumption DEF Item, PipelineInv, IdsAreUsed, Published
<1>5. run' = [run EXCEPT !.pc = "claimed", !.id = i, !.key = item[i].key,
                         !.attempts = n]
  BY DEF ClaimNext
<1>6. run.pc = "next"
  BY DEF ClaimNext, At
<1> HIDE DEF n
<1>7. /\ run' \in Run /\ run'.pc = "claimed" /\ run'.id = i
      /\ run'.key = item[i].key /\ run'.marked = run.marked
      /\ run'.result = run.result
  BY <1>1, <1>4, <1>5 DEF Run
<1>8. item'[i] # None => item'[i].key = item[i].key
  BY <1>2, KeptKeepsKey DEF QuietStep, ItemKeepsKey
<1>9. RunIsHonest'
  BY <1>1, <1>3, <1>4, <1>6, <1>7, <1>8 DEF PipelineInv, RunIsHonest, AtItem
<1> QED
  BY <1>2, <1>3, <1>7, <1>9, QuietLag, QuietRunStep

\* Writing the marker preserves it.
LEMMA MarkStep ==
    ASSUME PipelineInv, MarkDirty
    PROVE  PipelineInv'
<1>1. QuietStep
  BY StutterIsQuiet DEF MarkDirty, PipelineInv, TypeOK
<1>2. /\ UNCHANGED <<storeVars, used, projected>>
      /\ faults' \in Nat /\ dirty' = TRUE
  BY DEF MarkDirty, PipelineInv, TypeOK
<1>3. HoldsItem /\ run.result = "none"
  BY RunHoldsItem DEF MarkDirty, At, AtItem, PipelineInv, RunIsHonest
<1>4. /\ run' \in Run /\ run'.pc = "marked" /\ run'.id = run.id
      /\ run'.key = run.key /\ run'.marked = TRUE /\ run'.result = "none"
  BY <1>3 DEF MarkDirty, HoldsItem, Run
<1>5. item' = item
  BY DEF MarkDirty, queueVars
<1>6. RunIsHonest'
  BY <1>2, <1>3, <1>4, <1>5 DEF RunIsHonest, HoldsItem, AtItem
<1>7. LagIsMarked'
  BY <1>2 DEF LagIsMarked
<1> QED
  BY <1>1, <1>2, <1>4, <1>6, <1>7, QuietRunStep

\* Ingestion preserves it: the marker was written before the mutation.
LEMMA IngestStep ==
    ASSUME PipelineInv, IngestItem
    PROVE  PipelineInv'
<1>1. HoldsItem /\ run # None /\ run.pc = "marked" /\ run.marked /\ dirty
  BY RunHoldsItem DEF IngestItem, At, AtItem, PipelineInv, RunIsHonest
<1>2. PICK k \in Keys, r \in Results : k = run.key /\ r = IngestResult(k)
  BY <1>1 DEF HoldsItem, IngestResult
<1>3. StoreKeeps /\ Answered(k, r)'
  <2>1. Ingest(k)
    BY <1>2 DEF IngestItem
  <2> QED
    BY <1>2, <2>1, IngestKeepsStore DEF PipelineInv, TypeOK
<1>5. /\ run' \in Run /\ run'.pc = "settling" /\ run'.id = run.id
      /\ run'.key = k /\ run'.marked /\ run'.result = r
  BY <1>1, <1>2 DEF IngestItem, HoldsItem, Run
<1>6. QuietStep /\ item' = item
  BY StutterIsQuiet DEF IngestItem, PipelineInv, TypeOK, queueVars
<1>7. dirty' /\ UNCHANGED <<used, dirty, projected, faults>>
  BY <1>1 DEF IngestItem
<1>8. (IdsAreUsed /\ AcknowledgedIsRecorded /\ DeadLetterIsExplained)'
  BY <1>3, <1>6, <1>7, QuietIsSafe
<1>9. TypeOK'
  BY <1>3, <1>5, <1>6, <1>7 DEF QuietStep, StoreKeeps, PipelineInv, TypeOK
<1>10. RunIsHonest'
  <2>1. Answered(run.key, run.result)'
    BY <1>3, <1>5 DEF Answered, Dropped, Tombstoned
  <2> QED
    BY <1>1, <1>2, <1>5, <1>6, <1>7, <2>1 DEF RunIsHonest, HoldsItem, AtItem
<1>11. LagIsMarked'
  BY <1>7 DEF LagIsMarked
<1> QED
  BY <1>8, <1>9, <1>10, <1>11 DEF PipelineInv

\* A failed ingestion preserves it.
LEMMA ThrowStep ==
    ASSUME PipelineInv, IngestThrows
    PROVE  PipelineInv'
<1>1. QuietStep /\ item' = item
  BY StutterIsQuiet DEF IngestThrows, PipelineInv, TypeOK, queueVars
<1>2. /\ UNCHANGED <<storeVars, used, dirty, projected>>
      /\ faults' \in Nat /\ dirty' \in BOOLEAN
  BY DEF IngestThrows, Fault, NoFault, PipelineInv, TypeOK
<1>3. run # None /\ run.pc \in {"claimed", "marked"} /\ run' = [run EXCEPT !.pc = "failing"]
  BY DEF IngestThrows, At, Go
<1>4. ItemKeepsKey(run.id)
  BY <1>1 DEF ItemKeepsKey
<1>5. run' \in Run /\ RunIsHonest'
  BY <1>2, <1>3, <1>4, MovedRunIsHonest DEF AtItem
<1> QED
  BY <1>1, <1>2, <1>5, QuietLag, QuietRunStep

\* The second chance after a commit preserves it.
LEMMA RetryUnsettledStep ==
    ASSUME PipelineInv, RetryUnsettled
    PROVE  PipelineInv'
<1>1. HoldsItem /\ run # None
  BY RunHoldsItem DEF RetryUnsettled, At, AtItem
<1>2. QuietStep
  <2>1. UNCHANGED queueVars \/ RetryAfterCommit(run.id, run.worker, run.attempts)
    BY DEF RetryUnsettled, Transition
  <2> QED
    BY <1>1, <2>1, StutterIsQuiet, RetryAfterCommitIsQuiet DEF HoldsItem, PipelineInv, TypeOK
<1>3. /\ UNCHANGED <<storeVars, used, dirty, projected>>
      /\ faults' \in Nat /\ dirty' \in BOOLEAN
  BY DEF RetryUnsettled, Transition, Fault, NoFault, PipelineInv, TypeOK
<1>4. NextItem \/ run' = None
  BY DEF RetryUnsettled, Transition
<1>5. run' \in Run \cup {None} /\ RunIsHonest'
  BY <1>1, <1>3, <1>4, FreeRunIsHonest
<1> QED
  BY <1>2, <1>3, <1>5, QuietLag, QuietRunStep

\* What a step that settles x must show; everything else is as it was.
LEMMA SettledRunStep ==
    ASSUME PipelineInv, NEW x \in Ids, SettledStep(x), ItemSafe(x)',
           UNCHANGED <<storeVars, used, dirty, projected>>,
           faults' \in Nat, run' \in Run \cup {None}, RunIsHonest'
    PROVE  PipelineInv'
<1>1. (IdsAreUsed /\ AcknowledgedIsRecorded /\ DeadLetterIsExplained)'
  BY SettledIsSafe
<1>2. LagIsMarked'
  BY QuietLag
<1>3. TypeOK'
  BY DEF SettledStep, PipelineInv, TypeOK, StoreTypeOK, storeVars
<1> QED
  BY <1>1, <1>2, <1>3 DEF PipelineInv

\* The retry of a failed ingestion preserves it.
LEMMA RetryFailedStep ==
    ASSUME PipelineInv, RetryFailed
    PROVE  PipelineInv'
<1>1. HoldsItem /\ run # None
  BY RunHoldsItem DEF RetryFailed, At, AtItem
<1>2. /\ UNCHANGED <<storeVars, used, dirty, projected>>
      /\ faults' \in Nat /\ dirty' \in BOOLEAN
  BY DEF RetryFailed, Transition, Fault, NoFault, PipelineInv, TypeOK
<1>3. NextItem \/ run' = None
  BY DEF RetryFailed, Transition
<1>4. run' \in Run \cup {None} /\ RunIsHonest'
  BY <1>1, <1>2, <1>3, FreeRunIsHonest
<1>5. CASE UNCHANGED queueVars
  BY <1>2, <1>4, <1>5, StutterIsQuiet, QuietLag, QuietRunStep DEF PipelineInv, TypeOK
<1>6. CASE Retry(run.id, run.worker, run.attempts)
  <2>1. PICK x \in Ids : x = run.id
    BY <1>1 DEF HoldsItem
  <2>2. /\ SettledStep(x)
        /\ item'[x].state \in {"retry", "dead-letter"}
        /\ item'[x].state = "dead-letter" => item'[x].failures >= MaxAttempts
    BY <1>6, <2>1, RetrySettles DEF PipelineInv, TypeOK
  <2>3. ItemSafe(x)'
    BY <1>1, <1>2, <2>1, <2>2 DEF ItemSafe, HoldsItem
  <2> QED
    BY <1>2, <1>4, <2>2, <2>3, SettledRunStep
<1> QED
  BY <1>5, <1>6 DEF RetryFailed, Transition

\* Settling a claim preserves it: the store's answer explains the state.
LEMMA SettleClaimStep ==
    ASSUME PipelineInv, SettleClaim
    PROVE  PipelineInv'
<1>1. /\ HoldsItem /\ run # None /\ run.pc = "settling"
      /\ Answered(run.key, run.result)
  BY RunHoldsItem DEF SettleClaim, At, AtItem, PipelineInv, RunIsHonest
<1>2. /\ UNCHANGED <<storeVars, used, dirty, projected>>
      /\ faults' \in Nat /\ dirty' \in BOOLEAN
  BY DEF SettleClaim, Transition, Fault, NoFault, PipelineInv, TypeOK
<1>3. NextItem \/ run' = [run EXCEPT !.pc = "unsettled"]
  BY DEF SettleClaim, Transition, Go
<1>4. ASSUME ItemKeepsKey(run.id)
      PROVE  run' \in Run \cup {None} /\ RunIsHonest'
  <2>1. CASE NextItem
    BY <1>1, <1>2, <2>1, FreeRunIsHonest
  <2>2. CASE run' = [run EXCEPT !.pc = "unsettled"]
    BY <1>1, <1>2, <1>4, <2>2, MovedRunIsHonest DEF AtItem
  <2> QED
    BY <1>3, <2>1, <2>2
<1>5. CASE UNCHANGED queueVars
  <2>1. QuietStep /\ ItemKeepsKey(run.id)
    BY <1>5, StutterIsQuiet DEF PipelineInv, TypeOK, ItemKeepsKey, queueVars
  <2> QED
    BY <1>2, <1>4, <2>1, QuietLag, QuietRunStep
<1>6. PICK x \in Ids : x = run.id
  BY <1>1 DEF HoldsItem
<1>7. CASE /\ run.result \in {"stored", "duplicate"}
           /\ Acknowledge(run.id, run.worker, run.attempts)
  <2>1. SettledStep(x) /\ item'[x].state = "acknowledged"
    BY <1>6, <1>7, TerminalSettles DEF Acknowledge, PipelineInv, TypeOK
  <2>2. raw[run.key] = "supported" \/ Dropped(run.key)
    BY <1>1, <1>7 DEF Answered
  <2>3. item[x] # None /\ item'[x].key = run.key
    BY <1>1, <1>6, <2>1, NoneAssumption DEF SettledStep, HoldsItem
  <2>4. ItemSafe(x)'
    BY <1>1, <1>2, <1>6, <2>1, <2>2, <2>3
       DEF ItemSafe, HoldsItem, storeVars, Dropped, Tombstoned
  <2>5. ItemKeepsKey(run.id)
    BY <1>6, <2>1, SettledKeepsKey DEF PipelineInv
  <2> QED
    BY <1>2, <1>4, <2>1, <2>4, <2>5, SettledRunStep
<1>8. CASE /\ run.result \in {"unsupported", "rejected"}
           /\ DeadLetter(run.id, run.worker, run.attempts)
  <2>1. SettledStep(x) /\ item'[x].state = "dead-letter"
    BY <1>6, <1>8, TerminalSettles DEF DeadLetter, PipelineInv, TypeOK
  <2>2. raw[run.key] = "unsupported" \/ run.key \in rejected
    BY <1>1, <1>8 DEF Answered
  <2>3. item[x] # None /\ item'[x].key = run.key
    BY <1>1, <1>6, <2>1, NoneAssumption DEF SettledStep, HoldsItem
  <2>4. ItemSafe(x)'
    BY <1>1, <1>2, <1>6, <2>1, <2>2, <2>3
       DEF ItemSafe, HoldsItem, storeVars
  <2>5. ItemKeepsKey(run.id)
    BY <1>6, <2>1, SettledKeepsKey DEF PipelineInv
  <2> QED
    BY <1>2, <1>4, <2>1, <2>4, <2>5, SettledRunStep
<1> QED
  BY <1>5, <1>7, <1>8 DEF SettleClaim, Transition

\* Rebuilding the projections preserves it: they then have every event there is.
LEMMA ProjectStep ==
    ASSUME PipelineInv, Project
    PROVE  PipelineInv'
<1>1. QuietStep
  BY StutterIsQuiet DEF Project, PipelineInv, TypeOK
<1>2. StoreKeeps
  BY StutterKeepsStore DEF Project, PipelineInv, TypeOK
<1>3. (IdsAreUsed /\ AcknowledgedIsRecorded /\ DeadLetterIsExplained)'
  BY <1>1, <1>2, QuietIsSafe DEF Project
<1>4. run # None /\ run \in Run /\ run.pc = "project" /\ run.result = "none"
  BY DEF Project, At, PipelineInv, TypeOK, RunIsHonest
<1>5. Supported' = Supported
  BY DEF Project, Supported, storeVars
<1>6. CASE run.marked
  <2>1. /\ run' \in Run /\ run'.pc = "unmark" /\ run'.marked /\ run'.result = "none"
    BY <1>4, <1>6 DEF Project, Go, Run
  <2>2. projected' = Supported' /\ dirty' = dirty /\ dirty
    BY <1>4, <1>5, <1>6 DEF Project, PipelineInv, RunIsHonest
  <2>3. RunIsHonest' /\ LagIsMarked'
    BY <2>1, <2>2 DEF RunIsHonest, LagIsMarked, AtItem
  <2>4. projected' \in SUBSET Keys
    BY <1>6 DEF Project, Supported
  <2>5. TypeOK'
    BY <1>1, <1>2, <2>1, <2>4 DEF Project, QuietStep, StoreKeeps, PipelineInv, TypeOK
  <2> QED
    BY <1>3, <2>3, <2>5 DEF PipelineInv
<1>7. CASE ~ run.marked
  <2>1. run' = None /\ UNCHANGED <<storeVars, used, dirty, projected, faults>>
    BY <1>7 DEF Project
  <2>2. RunIsHonest' /\ LagIsMarked'
    BY <2>1, QuietLag DEF RunIsHonest
  <2> QED
    BY <1>1, <2>1, <2>2, QuietRunStep DEF PipelineInv, TypeOK
<1> QED
  BY <1>6, <1>7

\* The steps that end a run and leave the rest alone.
LEMMA RunEndsStep ==
    ASSUME PipelineInv, ProjectFails \/ Crash \/ Unmark
    PROVE  PipelineInv'
<1>1. QuietStep
  BY StutterIsQuiet DEF ProjectFails, Crash, Unmark, PipelineInv, TypeOK
<1>2. /\ UNCHANGED <<storeVars, used, projected>>
      /\ run' = None /\ (dirty' = dirty \/ dirty' = FALSE)
      /\ faults' = faults \/ faults' = faults + 1
  BY DEF ProjectFails, Crash, Unmark, Fault
<1>3. RunIsHonest' /\ faults' \in Nat /\ dirty' \in BOOLEAN
  <2>1. faults \in Nat /\ dirty \in BOOLEAN
    BY DEF PipelineInv, TypeOK
  <2>2. faults' \in Nat
    BY <1>2, <2>1
  <2>3. dirty' \in BOOLEAN
    BY <1>2, <2>1, Zenon
  <2> QED
    BY <1>2, <2>2, <2>3 DEF RunIsHonest
<1>4. CASE dirty' = dirty
  BY <1>1, <1>2, <1>3, <1>4, QuietLag, QuietRunStep
<1>5. CASE Unmark
  <2>1. projected = Supported
    BY <1>5 DEF Unmark, At, PipelineInv, RunIsHonest
  <2>2. LagIsMarked'
    BY <1>2, <2>1 DEF LagIsMarked, Supported, storeVars
  <2> QED
    BY <1>1, <1>2, <1>3, <2>2, QuietRunStep
<1> QED
  BY <1>4, <1>5 DEF ProjectFails, Crash

\* Stuttering preserves it.
LEMMA StutterStep ==
    ASSUME PipelineInv, UNCHANGED vars
    PROVE  PipelineInv'
<1>1. QuietStep
  BY StutterIsQuiet DEF vars, PipelineInv, TypeOK
<1>2. UNCHANGED <<storeVars, used, run, dirty, projected, faults>> /\ item' = item
  BY DEF vars, pipelineVars, queueVars
<1>3. \A j \in used : ItemKeepsKey(j)
  BY <1>2 DEF ItemKeepsKey
<1>4. RunIsHonest' /\ LagIsMarked'
  BY <1>2, <1>3, IdleRunIsHonest, QuietLag
<1> QED
  BY <1>1, <1>2, <1>4, QuietRunStep DEF PipelineInv, TypeOK
-------------------------------------------------------------------------------
(* The invariant is inductive.                                              *)

\* The initial states satisfy the invariant.
LEMMA PipelineInit ==
    ASSUME Init
    PROVE  PipelineInv
<1>1. TypeOK
  BY DEF Init, QueueInit, StoreInit, TypeOK, QueueTypeOK, StoreTypeOK
<1>2. Published = {} /\ Supported = {}
  BY NoEventAssumption DEF Init, QueueInit, StoreInit, Published, Supported
<1>3. IdsAreUsed /\ AcknowledgedIsRecorded /\ DeadLetterIsExplained
  BY <1>2 DEF IdsAreUsed, AcknowledgedIsRecorded, DeadLetterIsExplained, InState
<1>4. RunIsHonest /\ LagIsMarked
  BY <1>2 DEF Init, RunIsHonest, LagIsMarked
<1> QED
  BY <1>1, <1>3, <1>4 DEF PipelineInv

\* Every step preserves the invariant.
LEMMA PipelineStep ==
    ASSUME PipelineInv, [Next]_vars
    PROVE  PipelineInv'
<1>1. CASE \E i \in Ids, k \in Keys : Publish(i, k) \/ PublishAgain(i, k)
  BY <1>1, PublishStep
<1>2. CASE \E S \in SUBSET Ids : \E w \in Claimants : StartRun(w, S)
  BY <1>2, StartRunStep
<1>3. CASE \E S \in SUBSET Ids : Recover(S)
  BY <1>3, RecoverStep
<1>4. CASE \E i \in Ids : ClaimNext(i)
  BY <1>4, ClaimStep
<1>5. CASE EndBatch \/ MarkDirty \/ IngestItem \/ IngestThrows
  BY <1>5, EndBatchStep, MarkStep, IngestStep, ThrowStep
<1>6. CASE SettleClaim \/ RetryUnsettled \/ RetryFailed
  BY <1>6, SettleClaimStep, RetryUnsettledStep, RetryFailedStep
<1>7. CASE Project \/ ProjectFails \/ Unmark \/ Crash
  BY <1>7, ProjectStep, RunEndsStep
<1>8. CASE \E i \in Ids : TimePasses(i)
  BY <1>8, TimeStep
<1>9. CASE UNCHANGED vars
  BY <1>9, StutterStep
<1> QED
  BY <1>1, <1>2, <1>3, <1>4, <1>5, <1>6, <1>7, <1>8, <1>9 DEF Next, RunNext

\* Whatever the numbers of items, keys, workers and faults: the parts of the
\* invariant hold in every state of every behaviour.
THEOREM InvariantHolds == Spec => []PipelineInv
<1>1. Init => PipelineInv
  BY PipelineInit
<1>2. PipelineInv /\ [Next]_vars => PipelineInv'
  BY PipelineStep
<1> QED
  BY <1>1, <1>2, PTL DEF Spec

\* An acknowledgement never runs ahead of the canonical fact, and no item is
\* given up without a cause.
THEOREM SettlementsAreSound == Spec => []SettledIsExplained
<1>1. PipelineInv => SettledIsExplained
  BY DEF PipelineInv, SettledIsExplained
<1> QED
  BY <1>1, InvariantHolds, PTL

\* Projections that lag behind the events are marked for a rebuild.
THEOREM LagIsAlwaysMarked == Spec => []LagIsMarked
  BY InvariantHolds, PTL DEF PipelineInv

\* What a run remembers stays true of the queue and the store.
THEOREM RunsAreHonest == Spec => []RunIsHonest
  BY InvariantHolds, PTL DEF PipelineInv

\* Every variable keeps its type: no operation on an item that is gone or of
\* an unknown owner leaves a value no reader of the queue would accept.
THEOREM TypesAreCorrect == Spec => []TypeOK
  BY InvariantHolds, PTL DEF PipelineInv
-------------------------------------------------------------------------------
(* What a step does to the items, in four kinds.                            *)

Publishes == \E i \in Ids \ used, k \in Keys : Enqueue(i, k)

Answers ==
    /\ run # None /\ run.pc = "settling" /\ SettledStep(run.id)
    /\ item'[run.id].failures = item[run.id].failures

Charges == run # None /\ run.pc = "failing" /\ SettledStep(run.id)

\* A step settles an item, or is quiet, or publishes one.
LEMMA StepKinds ==
    ASSUME PipelineInv, [Next]_vars
    PROVE  QuietStep \/ Publishes \/ Answers \/ Charges
<1> QueueTypeOK
  BY DEF PipelineInv, TypeOK
<1>1. CASE \E i \in Ids, k \in Keys : Publish(i, k) \/ PublishAgain(i, k)
  BY <1>1 DEF Publishes, Publish, PublishAgain, EnqueueIfSourceAbsent
<1>2. CASE \E S \in SUBSET Ids : \E w \in Claimants : StartRun(w, S)
  BY <1>2, PruneIsQuiet DEF StartRun
<1>3. CASE \E S \in SUBSET Ids : Recover(S)
  BY <1>3, RecoverIsQuiet, StutterIsQuiet DEF Recover
<1>4. CASE \E i \in Ids : ClaimNext(i)
  BY <1>4, ClaimIsQuiet DEF ClaimNext, At, PipelineInv, TypeOK, Run
<1>5. CASE UNCHANGED queueVars
  BY <1>5, StutterIsQuiet
<1>6. CASE SettleClaim
  <2>1. run # None /\ run.pc = "settling" /\ HoldsItem
    BY <1>6, RunHoldsItem DEF SettleClaim, At, AtItem
  <2>2. PICK x \in Ids : x = run.id
    BY <2>1 DEF HoldsItem
  <2>3. \/ UNCHANGED queueVars
        \/ \E s \in Terminal :
              Settle(x, run.worker, run.attempts, Settled(item[x], s))
    BY <1>6, <2>2 DEF SettleClaim, Transition, Acknowledge, DeadLetter
  <2> QED
    BY <2>1, <2>2, <2>3, StutterIsQuiet, TerminalSettles DEF Answers
<1>7. CASE RetryUnsettled
  <2>1. PICK x \in Ids : x = run.id
    BY <1>7, RunHoldsItem DEF RetryUnsettled, At, AtItem, HoldsItem
  <2> QED
    BY <1>7, <2>1, StutterIsQuiet, RetryAfterCommitIsQuiet
       DEF RetryUnsettled, Transition
<1>8. CASE RetryFailed
  <2>1. PICK x \in Ids : x = run.id
    BY <1>8, RunHoldsItem DEF RetryFailed, At, AtItem, HoldsItem
  <2> QED
    BY <1>8, <2>1, StutterIsQuiet, RetrySettles DEF RetryFailed, Transition, At, Charges
<1>9. CASE \E i \in Ids : TimePasses(i)
  BY <1>9, ElapseIsQuiet DEF TimePasses
<1>10. CASE EndBatch \/ MarkDirty \/ IngestItem \/ IngestThrows
  BY <1>5, <1>10 DEF EndBatch, MarkDirty, IngestItem, IngestThrows
<1>11. CASE Project \/ ProjectFails \/ Unmark \/ Crash
  BY <1>5, <1>11 DEF Project, ProjectFails, Unmark, Crash
<1>12. CASE UNCHANGED vars
  BY <1>5, <1>12 DEF vars
<1> QED
  BY <1>1, <1>2, <1>3, <1>4, <1>6, <1>7, <1>8, <1>9, <1>10, <1>11, <1>12
     DEF Next, RunNext

\* While a run has the store's answer for its item, nothing charges the item.
THEOREM BudgetIsKept == Spec => CommittedKeepsBudget
<1> DEFINE Uncharged == run # None /\ run.result # "none" /\ run.id \in Published
                    /\ item'[run.id] # None
                    => item'[run.id].failures = item[run.id].failures
<1>1. ASSUME PipelineInv, [Next]_vars PROVE Uncharged
  <2> SUFFICES ASSUME run # None, run.result # "none", run.id \in Published,
                      item'[run.id] # None
               PROVE  item'[run.id].failures = item[run.id].failures
    OBVIOUS
  <2>1. run.pc \in {"settling", "unsettled"} /\ run.id \in Ids /\ item[run.id] # None
    BY <1>1 DEF PipelineInv, RunIsHonest, Published
  <2>2. CASE QuietStep
    BY <2>1, <2>2 DEF QuietStep, Kept
  <2>3. CASE Publishes
    BY <1>1, <2>1, <2>3 DEF Publishes, Enqueue, PipelineInv, TypeOK, QueueTypeOK
  <2>4. CASE Answers
    BY <2>4 DEF Answers
  <2>5. CASE Charges
    BY <2>1, <2>5 DEF Charges
  <2> QED
    BY <1>1, <2>2, <2>3, <2>4, <2>5, StepKinds
<1> QED
  BY <1>1, InvariantHolds, PTL DEF Spec, CommittedKeepsBudget
-------------------------------------------------------------------------------
(* The pipeline implements CaptureDelivery.  Without deletions and resets   *)
(* nothing is dropped, and a run at its item keeps it from being pruned.    *)
Undisturbed ==
    /\ operation = [d \in Deletions |-> "none"]
    /\ expired = {}
    /\ run # None /\ run.pc \in AtItem => item[run.id] # None

\* No event is dropped while no deletion and no reset has taken place.
LEMMA NothingIsDropped ==
    ASSUME Undisturbed, NEW k PROVE ~ Dropped(k)
  BY DEF Undisturbed, Dropped, Tombstoned

\* The pipeline itself performs no deletion and no reset.
LEMMA DeletionsStay ==
    ASSUME [Next]_vars PROVE UNCHANGED <<operation, expired>>
<1>1. CASE UNCHANGED storeVars
  BY <1>1 DEF storeVars
<1>2. CASE IngestItem
  BY <1>2 DEF IngestItem, Ingest
<1>3. Next => UNCHANGED storeVars \/ IngestItem
  BY DEF Next, RunNext, Publish, PublishAgain, StartRun, Recover, ClaimNext,
         EndBatch, MarkDirty, IngestThrows, SettleClaim, RetryUnsettled,
         RetryFailed, Project, ProjectFails, Unmark, Crash, TimePasses
<1> QED
  BY <1>1, <1>2, <1>3 DEF vars

\* The run of the next state is at its item only if it was before, or has
\* just claimed it.
LEMMA RunStaysAtItem ==
    ASSUME PipelineInv, [Next]_vars, run' # None, run'.pc \in AtItem
    PROVE  /\ run # None
           /\ \/ run.pc \in AtItem /\ run'.id = run.id
              \/ run'.id \in Published
<1> run \in Run \cup {None}
  BY DEF PipelineInv, TypeOK
<1>1. CASE run' = run
  <2>1. run.pc \in AtItem /\ run # None
    BY <1>1
  <2> QED
    BY <1>1, <2>1
<1>2. CASE \E i \in Ids : ClaimNext(i)
  <2>1. PICK i \in Ids : ClaimNext(i)
    BY <1>2
  <2>2. run # None /\ i \in Published
    BY <2>1 DEF ClaimNext, At, Claim, Claimable, InState
  <2>3. run'.id = i
    BY <2>1, <2>2 DEF ClaimNext, Run
  <2> QED
    BY <2>2, <2>3
<1>3. CASE MarkDirty \/ IngestItem \/ IngestThrows
  BY <1>3 DEF MarkDirty, IngestItem, IngestThrows, At, Go, Run, AtItem
<1>4. CASE SettleClaim \/ RetryUnsettled \/ RetryFailed
  BY <1>4 DEF SettleClaim, RetryUnsettled, RetryFailed, Transition, NextItem,
              At, Go, Run, AtItem
<1>5. CASE \E w \in Claimants, S \in SUBSET Ids : StartRun(w, S)
  <2>1. run = None /\ (run' = run \/ run'.pc = "recover")
    BY <1>5 DEF StartRun
  <2> QED
    BY <1>1, <2>1 DEF AtItem
<1>6. CASE \/ \E S \in SUBSET Ids : Recover(S)
           \/ EndBatch \/ Project \/ ProjectFails \/ Unmark \/ Crash
  BY <1>6 DEF Recover, EndBatch, Project, ProjectFails, Unmark, Crash, At, Go,
              Run, AtItem
<1>7. Next => \/ run' = run
              \/ \E i \in Ids : ClaimNext(i)
              \/ MarkDirty \/ IngestItem \/ IngestThrows
              \/ SettleClaim \/ RetryUnsettled \/ RetryFailed
              \/ \E w \in Claimants, S \in SUBSET Ids : StartRun(w, S)
              \/ \E S \in SUBSET Ids : Recover(S)
              \/ EndBatch \/ Project \/ ProjectFails \/ Unmark \/ Crash
  BY DEF Next, RunNext, Publish, PublishAgain, TimePasses
<1> QED
  BY <1>1, <1>2, <1>3, <1>4, <1>5, <1>6, <1>7 DEF vars, pipelineVars

\* It stays so: an item leaves the queue between runs only.
LEMMA UndisturbedStep ==
    ASSUME PipelineInv, Undisturbed, [Next]_vars
    PROVE  Undisturbed'
<1>1. UNCHANGED <<operation, expired>>
  BY DeletionsStay
<1>2. ASSUME run' # None, run'.pc \in AtItem PROVE item'[run'.id] # None
  <2>1. run # None /\ run'.id \in Published
    <3>1. run.pc \in AtItem => run.id \in Published
      BY <1>2, RunStaysAtItem, RunHoldsItem DEF Undisturbed, HoldsItem, Published
    <3> QED
      BY <1>2, <3>1, RunStaysAtItem
  <2>2. CASE QuietStep
    BY <2>1, <2>2, NoneAssumption DEF QuietStep, Kept, Published
  <2>3. CASE Publishes
    BY <2>1, <2>3 DEF Publishes, Enqueue, Published, PipelineInv, TypeOK, QueueTypeOK
  <2>4. CASE Answers \/ Charges
    <3>1. SettledStep(run.id)
      BY <2>4 DEF Answers, Charges
    <3>2. run'.id # run.id => Kept(run'.id)
      BY <2>1, <3>1 DEF SettledStep, Published
    <3> QED
      BY <2>1, <3>1, <3>2, NoneAssumption DEF SettledStep, Kept, Published
  <2> QED
    BY <2>2, <2>3, <2>4, StepKinds
<1> QED
  BY <1>1, <1>2 DEF Undisturbed

Captured == {item[i].key : i \in Published} \cup Supported
DeadKeys == {item[i].key : i \in InState({"dead-letter"})}

\* A key stays captured: its item stays, or was pruned with its fact recorded.
LEMMA CapturedGrows ==
    ASSUME PipelineInv, Undisturbed, [Next]_vars
    PROVE  Captured \subseteq Captured' /\ Supported \subseteq Supported'
<1>1. StoreKeeps
  <2>1. CASE UNCHANGED storeVars
    BY <2>1, StutterKeepsStore DEF PipelineInv, TypeOK
  <2>2. CASE IngestItem
    <3>1. run.key \in Keys
      BY <2>2, RunHoldsItem DEF IngestItem, At, AtItem, HoldsItem
    <3>2. PICK k \in Keys, r \in Results : k = run.key /\ r = IngestResult(k)
      BY <3>1 DEF IngestResult
    <3> QED
      BY <2>2, <3>2, IngestKeepsStore DEF IngestItem, PipelineInv, TypeOK
  <2>3. Next => UNCHANGED storeVars \/ IngestItem
    BY DEF Next, RunNext, Publish, PublishAgain, StartRun, Recover, ClaimNext,
           EndBatch, MarkDirty, IngestThrows, SettleClaim, RetryUnsettled,
           RetryFailed, Project, ProjectFails, Unmark, Crash, TimePasses
  <2> QED
    BY <2>1, <2>2, <2>3 DEF vars
<1>2. Supported \subseteq Supported'
  BY <1>1, NoEventAssumption DEF Supported, StoreKeeps
<1>3. ASSUME NEW j \in Published PROVE item[j].key \in Captured'
  <2> j \in Ids /\ item[j] \in Item /\ item[j].key \in Keys
    BY DEF Published, PipelineInv, TypeOK, QueueTypeOK, Item
  <2>1. CASE item'[j] # None /\ item'[j].key = item[j].key
    BY <2>1 DEF Captured, Published
  <2>2. CASE item'[j] = None /\ item[j].state = "acknowledged"
    <3>1. raw[item[j].key] = "supported"
      BY <2>2, NothingIsDropped DEF PipelineInv, AcknowledgedIsRecorded, InState
    <3> QED
      BY <1>2, <3>1 DEF Supported, Captured
  <2>3. CASE QuietStep
    BY <2>1, <2>2, <2>3, NoneAssumption DEF QuietStep, Kept, Published
  <2>4. CASE Publishes
    BY <2>1, <2>4 DEF Publishes, Enqueue, Published, PipelineInv, TypeOK, QueueTypeOK
  <2>5. CASE Answers \/ Charges
    <3>1. SettledStep(run.id)
      BY <2>5 DEF Answers, Charges
    <3> QED
      BY <2>1, <2>2, <3>1, NoneAssumption DEF SettledStep, Kept, Published
  <2> QED
    BY <2>3, <2>4, <2>5, StepKinds
<1> QED
  BY <1>2, <1>3 DEF Captured

\* A quiet step implements CaptureDelivery,
LEMMA QuietDelivers ==
    ASSUME PipelineInv, QuietStep, UNCHANGED storeVars, Captured \subseteq Captured'
    PROVE  UNCHANGED <<Captured, Supported, DeadKeys>>
<1>1. Supported' = Supported
  BY DEF Supported, storeVars
<1>2. ASSUME NEW j \in Published'
      PROVE  /\ j \in Published /\ item'[j].key = item[j].key
             /\ item'[j].state = "dead-letter" => item[j].state = "dead-letter"
  BY DEF Published, QuietStep, Kept
<1>3. Captured' = Captured
  BY <1>1, <1>2 DEF Captured
<1>4. ASSUME NEW j \in Published, item[j].state = "dead-letter"
      PROVE  /\ j \in Published' /\ item'[j].key = item[j].key
             /\ item'[j].state = "dead-letter"
  BY <1>4, NoneAssumption DEF Published, QuietStep, Kept
<1>5. DeadKeys' = DeadKeys
  BY <1>2, <1>4 DEF DeadKeys, InState
<1> QED
  BY <1>1, <1>3, <1>5

\* and a publication does,
LEMMA PublishDelivers ==
    ASSUME PipelineInv, NEW i \in Ids, NEW k \in Keys, Enqueue(i, k),
           UNCHANGED storeVars
    PROVE  Captured' = Captured \cup {k} /\ UNCHANGED <<Supported, DeadKeys>>
<1>1. Supported' = Supported
  BY DEF Supported, storeVars
<1>2. /\ item[i] = None /\ item'[i] = Pending(k) /\ Pending(k) \in Item
      /\ \A j \in Ids : j # i => item'[j] = item[j]
  BY EnqueueEffect DEF PipelineInv, TypeOK, QueueTypeOK
<1>3. Pending(k) # None /\ Pending(k).key = k /\ Pending(k).state # "dead-letter"
  BY <1>2, NoneAssumption DEF Pending
<1>4. Published' = Published \cup {i} /\ i \notin Published
  BY <1>2, <1>3 DEF Published
<1>5. \A j \in Published : item'[j] = item[j]
  BY <1>2, <1>4 DEF Published
<1>6. Captured' = Captured \cup {k}
  BY <1>1, <1>2, <1>3, <1>4, <1>5 DEF Captured
<1>7. DeadKeys' = DeadKeys
  BY <1>2, <1>3, <1>4, <1>5 DEF DeadKeys, InState
<1> QED
  BY <1>1, <1>6, <1>7

\* and a settlement,
LEMMA SettledDelivers ==
    ASSUME PipelineInv, NEW x \in Ids, SettledStep(x), run # None,
           UNCHANGED storeVars, Captured \subseteq Captured'
    PROVE  /\ UNCHANGED <<Captured, Supported>>
           /\ item[x].key \in Captured \cap Keys
           /\ DeadKeys' = DeadKeys \/ DeadKeys' = DeadKeys \cup {item[x].key}
<1>1. Supported' = Supported
  BY DEF Supported, storeVars
<1>2. /\ x \in Published /\ x \in Published' /\ item'[x].key = item[x].key
      /\ item[x].state # "dead-letter" /\ item[x].key \in Keys
  BY NoneAssumption DEF SettledStep, Published, Item
<1>3. ASSUME NEW j \in Published'
      PROVE  /\ j \in Published /\ item'[j].key = item[j].key
             /\ item'[j].state = "dead-letter" => j = x \/ item[j].state = "dead-letter"
  BY <1>2 DEF Published, SettledStep, Kept
<1>4. Captured' = Captured /\ item[x].key \in Captured
  BY <1>1, <1>2, <1>3 DEF Captured
<1>5. ASSUME NEW j \in Published, item[j].state = "dead-letter"
      PROVE  /\ j \in Published' /\ item'[j].key = item[j].key
             /\ item'[j].state = "dead-letter"
  BY <1>2, <1>5, NoneAssumption DEF Published, SettledStep, Kept
<1>6. CASE item'[x].state = "dead-letter"
  <2>1. DeadKeys' = DeadKeys \cup {item[x].key}
    BY <1>2, <1>3, <1>5, <1>6 DEF DeadKeys, InState
  <2> QED
    BY <1>1, <1>2, <1>4, <2>1
<1>7. CASE item'[x].state # "dead-letter"
  <2>1. DeadKeys' = DeadKeys
    BY <1>2, <1>3, <1>5, <1>7 DEF DeadKeys, InState
  <2> QED
    BY <1>1, <1>2, <1>4, <2>1
<1> QED
  BY <1>6, <1>7

\* and an ingestion.
LEMMA IngestDelivers ==
    ASSUME PipelineInv, Undisturbed, IngestItem
    PROVE  /\ UNCHANGED <<Captured, DeadKeys>>
           /\ run.key \in Captured \cap Keys
           /\ Supported' = Supported \/ Supported' = Supported \cup {run.key}
<1>1. item' = item
  BY DEF IngestItem, queueVars
<1>2. run # None /\ run.pc \in AtItem /\ HoldsItem
  BY RunHoldsItem DEF IngestItem, At, AtItem
<1>3. run.key \in Captured
  BY <1>2 DEF Undisturbed, HoldsItem, Captured, Published
<1>4. Supported' = Supported \/ Supported' = Supported \cup {run.key}
  <2>1. PICK k \in Keys : k = run.key
    BY <1>2 DEF HoldsItem
  <2>2. raw' = raw \/ (raw[k] = NoEvent /\ raw' = [raw EXCEPT ![k] = Kind[k]])
    BY <2>1 DEF IngestItem, Ingest
  <2>3. CASE raw' = raw
    BY <2>3 DEF Supported
  <2>4. CASE raw[k] = NoEvent /\ raw' = [raw EXCEPT ![k] = Kind[k]]
    <3>1. /\ raw'[k] = Kind[k] /\ raw[k] # "supported"
          /\ \A m \in Keys : m # k => raw'[m] = raw[m]
      BY <2>4, NoEventAssumption DEF PipelineInv, TypeOK, StoreTypeOK
    <3>2. CASE Kind[k] = "supported"
      BY <2>1, <3>1, <3>2 DEF Supported
    <3>3. CASE Kind[k] # "supported"
      BY <2>1, <3>1, <3>3 DEF Supported
    <3> QED
      BY <3>2, <3>3
  <2> QED
    BY <2>2, <2>3, <2>4
<1> DEFINE K == {item[i].key : i \in Published}
<1>5. Captured' = Captured
  <2>1. K' = K
    BY <1>1 DEF Published
  <2>2. Captured = K \cup Supported /\ Captured' = K' \cup Supported'
    BY DEF Captured
  <2> HIDE DEF K
  <2> QED
    BY <1>3, <1>4, <2>1, <2>2
<1>6. DeadKeys' = DeadKeys
  BY <1>1 DEF DeadKeys, InState, Published
<1> QED
  BY <1>2, <1>3, <1>4, <1>5, <1>6 DEF HoldsItem

\* The same, in the words of CaptureDelivery.
DeliveryStutters == UNCHANGED <<Captured, Supported, DeadKeys>>
DeliveryCaptures(k) ==
    Captured' = Captured \cup {k} /\ UNCHANGED <<Supported, DeadKeys>>
DeliveryRecords(k) ==
    /\ k \in Captured \ Supported /\ Supported' = Supported \cup {k}
    /\ UNCHANGED <<Captured, DeadKeys>>
DeliveryRefuses(k) ==
    /\ k \in Captured \ DeadKeys /\ DeadKeys' = DeadKeys \cup {k}
    /\ UNCHANGED <<Captured, Supported>>

\* Each of the four cases is a step of CaptureDelivery, or a stutter of it.
LEMMA DeliveryWords ==
    ASSUME \/ DeliveryStutters
           \/ \E k \in Keys : DeliveryCaptures(k) \/ DeliveryRecords(k) \/ DeliveryRefuses(k)
    PROVE  [Delivery!Next]_(Delivery!vars)
  BY DEF DeliveryStutters, DeliveryCaptures, DeliveryRecords, DeliveryRefuses,
         Captured, DeadKeys, Delivery!vars, Delivery!Next, Delivery!Capture,
         Delivery!Record, Delivery!Refuse

\* Every step of the pipeline implements a step of CaptureDelivery.
LEMMA DeliveryStep ==
    ASSUME PipelineInv, Undisturbed, [Next]_vars
    PROVE  [Delivery!Next]_(Delivery!vars)
<1> DEFINE Goal == \/ DeliveryStutters
                   \/ \E k \in Keys : \/ DeliveryCaptures(k)
                                      \/ DeliveryRecords(k)
                                      \/ DeliveryRefuses(k)
<1> SUFFICES Goal
  BY DeliveryWords
<1>1. Captured \subseteq Captured'
  BY CapturedGrows
<1>2. CASE IngestItem
  <2>1. PICK k \in Keys : k = run.key
    BY <1>2, IngestDelivers
  <2>2. CASE Supported' = Supported \/ k \in Supported
    BY <1>2, <2>1, <2>2, IngestDelivers DEF DeliveryStutters
  <2>3. CASE k \notin Supported /\ Supported' = Supported \cup {k}
    BY <1>2, <2>1, <2>3, IngestDelivers DEF DeliveryRecords
  <2> QED
    BY <1>2, <2>1, <2>2, <2>3, IngestDelivers
<1>3. CASE UNCHANGED storeVars
  <2>1. CASE QuietStep
    BY <1>1, <1>3, <2>1, QuietDelivers DEF DeliveryStutters
  <2>2. CASE Publishes
    BY <1>3, <2>2, PublishDelivers DEF Publishes, DeliveryCaptures
  <2>3. CASE Answers \/ Charges
    <3>1. run # None /\ SettledStep(run.id) /\ run.id \in Ids
      BY <2>3, RunHoldsItem DEF Answers, Charges, AtItem, HoldsItem
    <3>2. PICK k \in Keys : k = item[run.id].key
      BY <1>1, <1>3, <3>1, SettledDelivers
    <3>3. /\ UNCHANGED <<Captured, Supported>> /\ k \in Captured
          /\ DeadKeys' = DeadKeys \/ DeadKeys' = DeadKeys \cup {k}
      BY <1>1, <1>3, <3>1, <3>2, SettledDelivers
    <3>4. CASE k \in DeadKeys \/ DeadKeys' = DeadKeys
      BY <3>3, <3>4 DEF DeliveryStutters
    <3>5. CASE k \notin DeadKeys /\ DeadKeys' = DeadKeys \cup {k}
      BY <3>3, <3>5 DEF DeliveryRefuses
    <3> QED
      BY <3>3, <3>4, <3>5
  <2> QED
    BY <2>1, <2>2, <2>3, StepKinds
<1>4. Next => UNCHANGED storeVars \/ IngestItem
  BY DEF Next, RunNext, Publish, PublishAgain, StartRun, Recover, ClaimNext,
         EndBatch, MarkDirty, IngestThrows, SettleClaim, RetryUnsettled,
         RetryFailed, Project, ProjectFails, Unmark, Crash, TimePasses
<1> QED
  BY <1>2, <1>3, <1>4 DEF vars

\* Whatever the numbers of items, keys, workers and faults: no behaviour loses
\* a captured event, records one that was not captured, or takes back a fact
\* or a refusal, so the pipeline implements the contract of CaptureDelivery.
THEOREM DeliveryIsImplemented == Spec => NothingIsLost
<1>1. Init => Undisturbed
  BY DEF Init, StoreInit, Undisturbed
<1>2. PipelineInv /\ Undisturbed /\ [Next]_vars => Undisturbed'
  BY UndisturbedStep
<1>3. Init => Delivery!Init
  <2>1. Init => Published = {} /\ Supported = {}
    BY NoEventAssumption DEF Init, QueueInit, StoreInit, Published, Supported
  <2> QED
    BY <2>1 DEF Delivery!Init, InState
<1>4. PipelineInv /\ Undisturbed /\ [Next]_vars => [Delivery!Next]_(Delivery!vars)
  BY DeliveryStep
<1> QED
  BY <1>1, <1>2, <1>3, <1>4, InvariantHolds, PTL
     DEF Spec, NothingIsLost, Delivery!SafeSpec
-------------------------------------------------------------------------------
(***************************************************************************)
(* What is proved of Deletion, for any ids, keys, claimants, deletions and *)
(* faults: what a completed deletion erased is gone for good.              *)
(*                                                                         *)
(* The invariant follows a call through its steps.  The canonical rows,    *)
(* once erased, stay away while the operation is unfinished, because       *)
(* nothing is ingested or projected then, and after it is completed,       *)
(* because its tombstones are looked at; the queue's tombstones do the     *)
(* same for its items.  A call that dies begins again from the erasure.    *)
(***************************************************************************)

RunForm ==
    run # None =>
        /\ run = [worker |-> run.worker, pc |-> run.pc, id |-> run.id, key |-> run.key,
                  attempts |-> run.attempts, result |-> run.result, marked |-> run.marked]
        /\ run.worker \in Claimants

\* What is needed of the types.
Types ==
    /\ QueueTypeOK /\ RunForm
    /\ raw = [k \in Keys |-> raw[k]]
    /\ operation = [d \in Deletions |-> operation[d]]
    /\ del # None => /\ del = [want |-> del.want, op |-> del.op, pc |-> del.pc,
                               checked |-> del.checked]
                     /\ del.want \in Deletions
                     /\ del.pc \notin {"guard", "begin"} => del.op \in Deletions

\* The places of a call that has erased the canonical rows, has blocked the
\* target in the queue, has emptied the queue of it, and has the projections
\* rebuilt without it.
Erased == {"block", "sweep", "rebuild", "verify"}
Blocked == {"sweep", "rebuild", "verify"}

OffTheStore(k) == raw[k] = NoEvent /\ k \notin rejected
OffTheQueue(k) == k \in blocked /\ \A i \in Ids : item[i] # None => item[i].key # k

CallIsOnItsWay ==
    del # None =>
        /\ del.pc = "held" => operation[del.op] \in {"running", "completing", "completed"}
        /\ del.pc \in Erased \cup {"erase"} => operation[del.op] = "running"
        /\ del.pc \in Erased => \A k \in Target[del.op] : OffTheStore(k)
        /\ del.pc \in Blocked => Target[del.op] \subseteq blocked
        /\ del.pc = "verify" => Target[del.op] \cap projected = {}

GoneForGood ==
    \A d \in InStatus({"completing", "completed"}) : \A k \in Target[d] :
        OffTheStore(k) /\ OffTheQueue(k) /\ k \notin projected

IInv == Types /\ CallIsOnItsWay /\ GoneForGood
-------------------------------------------------------------------------------
(* What a step does to the queue, as far as a deletion is concerned         *)

\* It publishes nothing that is blocked, unblocks nothing, and an item keeps
\* its event.
QueueMoves ==
    /\ QueueTypeOK' /\ blocked \subseteq blocked'
    /\ \A i \in Ids : item'[i] # None =>
          item'[i].key \notin blocked \/ (item[i] # None /\ item'[i].key = item[i].key)

LEMMA StillOffTheQueue ==
    ASSUME QueueMoves, NEW k, OffTheQueue(k) PROVE OffTheQueue(k)'
BY DEF QueueMoves, OffTheQueue

LEMMA NoQueueMoves == ASSUME QueueTypeOK, UNCHANGED queueVars PROVE QueueMoves
BY DEF QueueMoves, QueueTypeOK, queueVars

LEMMA QuietMoves ==
    ASSUME QuietStep, blocked' = blocked PROVE QueueMoves
BY DEF QuietStep, Kept, QueueMoves

LEMMA SettledMoves ==
    ASSUME NEW i \in Ids, SettledStep(i), blocked' = blocked PROVE QueueMoves
<1>1. item[i] # None
  BY NoneAssumption DEF SettledStep
<1> QED BY <1>1 DEF SettledStep, Kept, QueueMoves

LEMMA EnqueueMoves ==
    ASSUME QueueTypeOK, NEW i \in Ids, NEW k \in Keys, Enqueue(i, k) PROVE QueueMoves
<1>1. QueueTypeOK' /\ item' = [item EXCEPT ![i] = Pending(k)]
  BY EnqueueEffect
<1>2. Pending(k).key = k
  BY DEF Pending
<1>3. k \notin blocked /\ blocked' = blocked
  BY DEF Enqueue, Refused
<1> QED BY <1>1, <1>2, <1>3 DEF QueueTypeOK, QueueMoves

LEMMA SettleMoves ==
    ASSUME QueueTypeOK, NEW i, NEW c, NEW n,
           \/ Acknowledge(i, c, n) \/ DeadLetter(i, c, n)
           \/ Retry(i, c, n) \/ RetryAfterCommit(i, c, n)
    PROVE  QueueMoves
<1>1. i \in Ids /\ blocked' = blocked
  BY DEF Acknowledge, DeadLetter, Retry, RetryAfterCommit, Settle, ActiveClaim, InState, Published
<1>2. CASE Acknowledge(i, c, n) \/ DeadLetter(i, c, n)
  BY <1>1, <1>2, TerminalSettles, SettledMoves DEF Acknowledge, DeadLetter, Terminal
<1>3. CASE Retry(i, c, n)
  BY <1>1, <1>3, RetrySettles, SettledMoves
<1>4. CASE RetryAfterCommit(i, c, n)
  BY <1>1, <1>4, RetryAfterCommitIsQuiet, QuietMoves
<1> QED BY <1>2, <1>3, <1>4

LEMMA RemoveMoves ==
    ASSUME QueueTypeOK, NEW S \in SUBSET Ids, RemoveItems(S),
           blocked \subseteq blocked', blocked' \subseteq Keys, UNCHANGED <<barrier, cutoff>>
    PROVE  /\ QueueMoves
           /\ \A i \in Ids : item'[i] = IF i \in S THEN None ELSE item[i]
BY DEF RemoveItems, QueueTypeOK, QueueMoves
-------------------------------------------------------------------------------
(* The capture pipeline beside a deletion                                   *)

\* A run keeps its claimant, and an ended run is none.
LEMMA RunMoves ==
    ASSUME RunForm, run # None,
           \/ run' = None \/ UNCHANGED run
           \/ NextItem \/ \E pc : Go(pc)
           \/ \E pc, i, k, n : run' = [run EXCEPT !.pc = pc, !.id = i, !.key = k, !.attempts = n]
           \/ \E pc, b : run' = [run EXCEPT !.pc = pc, !.marked = b]
           \/ \E pc, r : run' = [run EXCEPT !.pc = pc, !.result = r]
    PROVE  RunForm'
<1>1. CASE run' = None \/ UNCHANGED run
  BY <1>1 DEF RunForm
<1>2. ASSUME NEW pc, Go(pc) PROVE RunForm'
  BY <1>2 DEF RunForm, Go
<1>3. CASE NextItem
  BY <1>3 DEF RunForm, NextItem
<1>4. ASSUME NEW pc, NEW i, NEW k, NEW n,
             run' = [run EXCEPT !.pc = pc, !.id = i, !.key = k, !.attempts = n]
      PROVE  RunForm'
  BY <1>4 DEF RunForm
<1>5. ASSUME NEW pc, NEW b, run' = [run EXCEPT !.pc = pc, !.marked = b] PROVE RunForm'
  BY <1>5 DEF RunForm
<1>6. ASSUME NEW pc, NEW r, run' = [run EXCEPT !.pc = pc, !.result = r] PROVE RunForm'
  BY <1>6 DEF RunForm
<1>7. (\E pc : Go(pc)) => RunForm'
  BY <1>2, Zenon
<1>8. (\E pc, i, k, n : run' = [run EXCEPT !.pc = pc, !.id = i, !.key = k, !.attempts = n])
         => RunForm'
  BY <1>4, Zenon
<1>9. (\E pc, b : run' = [run EXCEPT !.pc = pc, !.marked = b]) => RunForm'
  BY <1>5, Zenon
<1>10. (\E pc, r : run' = [run EXCEPT !.pc = pc, !.result = r]) => RunForm'
  BY <1>6, Zenon
<1> QED BY <1>1, <1>3, <1>7, <1>8, <1>9, <1>10, Zenon

\* What a step of the pipeline may do: to the queue what is said above, to the
\* store at most an ingestion, to the projections what a snapshot that is not
\* refused says, and nothing to a deletion.
Stored == UNCHANGED storeVars \/ \E k : Ingest(k)
Projected ==
    projected' # projected =>
        /\ projected' = snapshot /\ ~ ActiveDeletion
        /\ \A k \in snapshot : ~ Tombstoned(k)
Captures == QueueMoves /\ RunForm' /\ Stored /\ Projected /\ del' = del

LEMMA PublishCaptures ==
    ASSUME Types, NEW i \in Ids, NEW k \in Keys, Publish(i, k) \/ PublishAgain(i, k),
           UNCHANGED deletionVars
    PROVE  Captures
<1>1. QueueMoves
  BY EnqueueMoves DEF Types, Publish, PublishAgain, EnqueueIfSourceAbsent
<1> QED BY <1>1 DEF Types, RunForm, Publish, PublishAgain, Captures, Stored, Projected, deletionVars

LEMMA StartRunCaptures ==
    ASSUME Types, NEW S \in SUBSET Ids, NEW w \in Claimants, StartRun(w, S), UNCHANGED deletionVars
    PROVE  Captures
<1>1. QueueMoves
  BY PruneIsQuiet, QuietMoves DEF Types, StartRun, PruneAcknowledged
<1>2. RunForm'
  BY DEF Types, RunForm, StartRun
<1> QED BY <1>1, <1>2 DEF StartRun, Captures, Stored, Projected, deletionVars

LEMMA RecoverCaptures ==
    ASSUME Types, NEW S \in SUBSET Ids, Recover(S), UNCHANGED deletionVars
    PROVE  Captures
<1>1. QueueMoves
  BY RecoverIsQuiet, QuietMoves, NoQueueMoves DEF Types, Recover, RecoverExpiredClaims
<1>2. RunForm'
  BY RunMoves DEF Types, Recover, At
<1> QED BY <1>1, <1>2 DEF Recover, Captures, Stored, Projected, deletionVars

LEMMA ClaimCaptures ==
    ASSUME Types, NEW i \in Ids, ClaimNext(i), UNCHANGED deletionVars
    PROVE  Captures
<1>1. run.worker \in Claimants /\ run # None
  BY DEF Types, RunForm, ClaimNext, At
<1>2. QueueMoves
  BY <1>1, ClaimIsQuiet, QuietMoves DEF Types, ClaimNext, Claim
<1>3. RunForm'
  BY <1>1, RunMoves DEF Types, ClaimNext
<1> QED BY <1>2, <1>3 DEF ClaimNext, Captures, Stored, Projected, deletionVars

LEMMA IngestCaptures ==
    ASSUME Types, EndBatch \/ MarkDirty \/ IngestItem \/ IngestThrows, UNCHANGED deletionVars
    PROVE  Captures
<1>1. QueueMoves
  BY NoQueueMoves DEF Types, EndBatch, MarkDirty, IngestItem, IngestThrows
<1>2. RunForm'
  BY RunMoves DEF Types, EndBatch, MarkDirty, IngestItem, IngestThrows, At
<1>3. Stored /\ Projected
  BY DEF EndBatch, MarkDirty, IngestItem, IngestThrows, Stored, Projected
<1> QED BY <1>1, <1>2, <1>3 DEF Captures, deletionVars

LEMMA SettleCaptures ==
    ASSUME Types, SettleClaim \/ RetryUnsettled \/ RetryFailed, UNCHANGED deletionVars
    PROVE  Captures
<1>1. QueueMoves
  BY SettleMoves, NoQueueMoves DEF Types, SettleClaim, RetryUnsettled, RetryFailed, Transition
<1>2. RunForm'
  BY RunMoves DEF Types, SettleClaim, RetryUnsettled, RetryFailed, Transition, At
<1>3. Stored /\ Projected
  BY DEF SettleClaim, RetryUnsettled, RetryFailed, Stored, Projected
<1> QED BY <1>1, <1>2, <1>3 DEF Captures, deletionVars

\* A run's projections: of a snapshot that nothing has been erased from.
LEMMA ProjectCaptures ==
    ASSUME Types,
           \/ (NothingToProject \/ Unmark) /\ UNCHANGED deletionVars
           \/ ReadEvents \/ WriteProjections
           \/ RunStops /\ UNCHANGED <<del, planned>>
    PROVE  Captures
<1>1. QueueMoves
  BY NoQueueMoves DEF Types, NothingToProject, Project, Unmark, ReadEvents, WriteProjections, RunStops,
                      ProjectFails, Crash, vars
<1>2. RunForm'
  BY RunMoves DEF Types, NothingToProject, Project, Unmark, ReadEvents, WriteProjections, RunStops,
                  ProjectFails, Crash, vars, pipelineVars, At
<1>3. Stored
  BY DEF Stored, NothingToProject, Project, Unmark, ReadEvents, WriteProjections, RunStops,
         ProjectFails, Crash, vars
<1>4. Projected
  BY DEF Projected, NothingToProject, Project, Unmark, ReadEvents, WriteProjections, RunStops,
         ProjectFails, Crash, vars, pipelineVars
<1>5. del' = del
  BY DEF NothingToProject, Unmark, ReadEvents, WriteProjections, RunStops, deletionVars
<1> QED BY <1>1, <1>2, <1>3, <1>4, <1>5 DEF Captures

LEMMA TimeCaptures ==
    ASSUME Types, NEW i \in Ids, TimePasses(i), UNCHANGED deletionVars PROVE Captures
<1>1. QueueMoves
  BY ElapseIsQuiet, QuietMoves DEF Types, TimePasses, Elapse
<1> QED BY <1>1 DEF Types, RunForm, TimePasses, Captures, Stored, Projected, deletionVars

LEMMA CaptureCaptures == ASSUME Types, CaptureNext PROVE Captures
BY PublishCaptures, StartRunCaptures, RecoverCaptures, ClaimCaptures, IngestCaptures,
   SettleCaptures, ProjectCaptures, TimeCaptures, Zenon DEF CaptureNext

\* An ingestion leaves alone what has been erased, be its operation unfinished
\* or completed.
LEMMA StillOffTheStore ==
    ASSUME Types, Stored, NEW k \in Keys, OffTheStore(k), ActiveDeletion \/ Tombstoned(k)
    PROVE  OffTheStore(k)'
<1>1. CASE UNCHANGED storeVars
  BY <1>1 DEF OffTheStore, storeVars
<1>2. ASSUME NEW j, Ingest(j) PROVE OffTheStore(k)'
  <2>1. CASE Dropped(j)
    BY <1>2, <2>1 DEF Ingest, Rejection, OffTheStore
  <2>2. CASE ~ Dropped(j)
    <3>1. j # k
      BY <1>2, <2>2 DEF Ingest, IngestBlocked, Dropped
    <3> QED BY <1>2, <3>1 DEF Ingest, Rejection, OffTheStore, Types
  <2> QED BY <2>1, <2>2
<1> QED BY <1>1, <1>2 DEF Stored

LEMMA CaptureKeeps == ASSUME IInv, CaptureNext PROVE IInv'
<1>1. Captures /\ del' = del /\ operation' = operation
  BY CaptureCaptures DEF IInv, Captures, Stored, Ingest, storeVars
<1>2. raw' = [k \in Keys |-> raw'[k]]
  BY <1>1 DEF IInv, Types, Captures, Stored, Ingest, storeVars
<1>3. Types'
  BY <1>1, <1>2 DEF IInv, Types, Captures, QueueMoves
<1>4. CallIsOnItsWay'
  <2>1. SUFFICES ASSUME del # None, del.pc \in Erased \cup {"erase"} PROVE CallIsOnItsWay'
    BY <1>1, <2>1 DEF IInv, CallIsOnItsWay, Erased, Blocked
  <2>2. del.op \in Deletions /\ operation[del.op] = "running" /\ ActiveDeletion
    BY <2>1 DEF IInv, Types, CallIsOnItsWay, Erased, ActiveDeletion
  <2>3. projected' = projected
    BY <1>1, <2>2 DEF Captures, Projected
  <2>4. Target[del.op] \subseteq Keys
    BY <2>2, TargetAssumption
  <2>5. \A k \in Target[del.op] : OffTheStore(k) => OffTheStore(k)'
    BY <1>1, <2>2, <2>4, StillOffTheStore DEF IInv, Captures
  <2> QED BY <1>1, <2>2, <2>3, <2>5 DEF IInv, CallIsOnItsWay, Captures, QueueMoves
<1>5. GoneForGood'
  <2>1. SUFFICES ASSUME NEW d \in Deletions, operation[d] \in {"completing", "completed"},
                        NEW k \in Target[d]
                 PROVE  OffTheStore(k)' /\ OffTheQueue(k)' /\ k \notin projected'
    BY <1>1 DEF GoneForGood, InStatus
  <2>2. OffTheStore(k) /\ OffTheQueue(k) /\ k \notin projected /\ k \in Keys
    BY <2>1, TargetAssumption DEF IInv, GoneForGood, InStatus
  <2>3. ActiveDeletion \/ Tombstoned(k)
    BY <2>1 DEF ActiveDeletion, Tombstoned
  <2>4. OffTheStore(k)' /\ OffTheQueue(k)'
    BY <1>1, <2>2, <2>3, StillOffTheStore, StillOffTheQueue DEF IInv, Captures
  <2>5. k \notin projected'
    BY <1>1, <2>2, <2>3 DEF Captures, Projected
  <2> QED BY <2>4, <2>5
<1> QED BY <1>3, <1>4, <1>5 DEF IInv
-------------------------------------------------------------------------------
(* The deletion's own steps                                                 *)

\* A step that brings back nothing it erased earlier and completes nothing.
LEMMA GoneStaysGone ==
    ASSUME IInv, QueueMoves, projected' \subseteq projected,
           \A k \in Keys : OffTheStore(k) => OffTheStore(k)',
           \A d \in Deletions : operation'[d] \in {"completing", "completed"} =>
                                    operation[d] \in {"completing", "completed"}
    PROVE  GoneForGood'
<1>1. SUFFICES ASSUME NEW d \in Deletions, operation[d] \in {"completing", "completed"},
                      NEW k \in Target[d]
               PROVE  OffTheStore(k)' /\ OffTheQueue(k)' /\ k \notin projected'
  BY DEF GoneForGood, InStatus
<1>2. OffTheStore(k) /\ OffTheQueue(k) /\ k \notin projected /\ k \in Keys
  BY <1>1, TargetAssumption DEF IInv, GoneForGood, InStatus
<1> QED BY <1>2, StillOffTheQueue

\* What the operations of the store do to the status of a deletion.
LEMMA StatusSet ==
    ASSUME Types, NEW d \in Deletions, NEW s, SetStatus(d, s)
    PROVE  /\ operation' = [o \in Deletions |-> operation'[o]]
           /\ \A o \in Deletions : operation'[o] = IF o = d THEN s ELSE operation[o]
           /\ UNCHANGED <<raw, rejected>>
BY DEF Types, SetStatus

LEMMA Fails ==
    ASSUME Types, NEW d \in Deletions, FailDeletion(d)
    PROVE  /\ operation' = [o \in Deletions |-> operation'[o]]
           /\ \A o \in Deletions : operation'[o] \in {"completing", "completed"} =>
                                       operation[o] \in {"completing", "completed"}
           /\ UNCHANGED <<raw, rejected>>
<1>1. CASE SetStatus(d, "failed")
  BY <1>1, StatusSet
<1>2. CASE UNCHANGED storeVars
  BY <1>2 DEF storeVars, Types
<1> QED BY <1>1, <1>2 DEF FailDeletion

\* A barrier set and lifted.
LEMMA BarrierMoves ==
    ASSUME QueueTypeOK, NEW d \in Deletions,
           BeginDeletionBarrier(d) \/ EndDeletionBarrier(d) \/ UNCHANGED queueVars
    PROVE  QueueMoves
BY NoQueueMoves DEF BeginDeletionBarrier, EndDeletionBarrier, QueueMoves, QueueTypeOK

\* The call before it has erased anything, or after it has returned.
LEMMA OffTheWay ==
    ASSUME IInv, QueueMoves, UNCHANGED <<run, raw, rejected, projected>>,
           operation' = [d \in Deletions |-> operation'[d]],
           \A d \in Deletions : operation'[d] \in {"completing", "completed"} =>
                                    operation[d] \in {"completing", "completed"},
           del' # None =>
              /\ del' = [want |-> del'.want, op |-> del'.op, pc |-> del'.pc, checked |-> del'.checked]
              /\ del'.want \in Deletions
              /\ del'.pc \notin {"guard", "begin"} => del'.op \in Deletions
              /\ del'.pc \notin Erased
              /\ del'.pc = "held" => operation'[del'.op] \in {"running", "completing", "completed"}
              /\ del'.pc = "erase" => operation'[del'.op] = "running"
    PROVE  IInv'
<1>1. Types'
  BY DEF IInv, Types, RunForm, QueueMoves
<1>2. CallIsOnItsWay'
  BY DEF CallIsOnItsWay, Erased, Blocked
<1>3. GoneForGood'
  BY GoneStaysGone DEF OffTheStore
<1> QED BY <1>1, <1>2, <1>3 DEF IInv

LEMMA StartDeleteKeeps ==
    ASSUME IInv, NEW d \in Deletions, NEW checked \in BOOLEAN, StartDelete(d, checked) PROVE IInv'
<1>1. QueueMoves
  <2>1. DeadBarrier => barrier \in Deletions
    BY DEF IInv, Types, QueueTypeOK, DeadBarrier
  <2> QED BY <2>1, BarrierMoves, NoQueueMoves DEF StartDelete, IInv, Types
<1>2. UNCHANGED <<run, raw, rejected, projected, operation>>
  BY DEF StartDelete, storeVars, pipelineVars
<1>3. /\ del'.want \in Deletions /\ del'.pc \in {"guard", "begin"}
      /\ del' = [want |-> del'.want, op |-> del'.op, pc |-> del'.pc, checked |-> del'.checked]
  BY DEF StartDelete
<1> QED BY <1>1, <1>2, <1>3, OffTheWay DEF IInv, Types, Erased

LEMMA GuardKeeps == ASSUME IInv, GuardCapture PROVE IInv'
<1>1. del # None /\ del.want \in Deletions
  BY DEF IInv, Types, GuardCapture, Deleting
<1>2. QueueMoves
  BY <1>1, BarrierMoves DEF IInv, Types, GuardCapture
<1>3. UNCHANGED <<run, raw, rejected, projected, operation>>
  BY DEF GuardCapture, storeVars, pipelineVars
<1>4. del' # None =>
         /\ del' = [want |-> del'.want, op |-> del'.op, pc |-> del'.pc, checked |-> del'.checked]
         /\ del'.want \in Deletions /\ del'.pc = "begin"
  BY <1>1 DEF GuardCapture, Proceed, Return, IInv, Types
<1> QED BY <1>2, <1>3, <1>4, OffTheWay DEF IInv, Types, Erased

LEMMA BeginKeeps == ASSUME IInv, NEW r \in Deletions, Begin(r) PROVE IInv'
<1>1. del # None /\ del.want \in Deletions
  BY DEF IInv, Types, Begin, Deleting
<1>2. QueueMoves
  BY <1>1, BarrierMoves DEF IInv, Types, Begin, Unguard
<1>3. UNCHANGED storeVars \/ SetStatus(r, "running")
  BY DEF Begin, BeginDeletion
<1>4. /\ operation' = [o \in Deletions |-> operation'[o]]
      /\ \A d \in Deletions : operation'[d] \in {"completing", "completed"} =>
                                  operation[d] \in {"completing", "completed"}
      /\ UNCHANGED <<raw, rejected>>
  BY <1>3, StatusSet DEF IInv, Types, storeVars
<1>5. UNCHANGED <<run, projected>>
  BY DEF Begin, pipelineVars
<1>6. /\ del' = [want |-> del'.want, op |-> del'.op, pc |-> del'.pc, checked |-> del'.checked]
      /\ del'.want \in Deletions /\ del'.pc = "held" /\ del'.op = r
  BY <1>1 DEF Begin, IInv, Types
<1>7. operation'[r] \in {"running", "completing", "completed"}
  BY <1>3, StatusSet DEF IInv, Types, Begin, BeginDeletion, InStatus, SetStatus, storeVars
<1> QED BY <1>2, <1>4, <1>5, <1>6, <1>7, OffTheWay DEF Erased

LEMMA BeginThrowsKeeps == ASSUME IInv, BeginThrows PROVE IInv'
<1>1. del # None /\ del.want \in Deletions
  BY DEF IInv, Types, BeginThrows, Deleting
<1>2. QueueMoves
  BY <1>1, BarrierMoves DEF IInv, Types, BeginThrows, Unguard
<1>3. UNCHANGED <<run, raw, rejected, projected, operation>> /\ del' = None
  BY DEF BeginThrows, Return, storeVars, Pipeline
<1> QED BY <1>2, <1>3, OffTheWay DEF IInv, Types

LEMMA RaiseBarrierKeeps == ASSUME IInv, RaiseBarrier PROVE IInv'
<1>1. del # None /\ del.op \in Deletions /\ del.want \in Deletions
  BY DEF IInv, Types, RaiseBarrier, Deleting
<1>2. QueueMoves
  BY <1>1, BarrierMoves DEF IInv, Types, RaiseBarrier
<1>3. UNCHANGED <<run, projected>>
  BY DEF RaiseBarrier, pipelineVars
<1>4. CASE Return /\ FailDeletion(del.op)
  BY <1>1, <1>2, <1>3, <1>4, Fails, OffTheWay DEF Return, IInv
<1>5. CASE Return /\ UNCHANGED storeVars
  BY <1>2, <1>3, <1>5, OffTheWay DEF Return, IInv, Types, storeVars
<1>6. CASE /\ Proceed(IF operation[del.op] = "completing" THEN "complete" ELSE "erase")
           /\ UNCHANGED storeVars /\ operation[del.op] # "completed"
  <2>1. /\ del' = [want |-> del'.want, op |-> del'.op, pc |-> del'.pc, checked |-> del'.checked]
        /\ del'.want = del.want /\ del'.op = del.op
        /\ del'.pc = IF operation[del.op] = "completing" THEN "complete" ELSE "erase"
    BY <1>1, <1>6 DEF Proceed, IInv, Types
  <2>2. UNCHANGED <<raw, rejected, operation>>
    BY <1>6 DEF storeVars
  <2>3. del'.pc = "erase" => operation[del.op] = "running"
    BY <1>1, <1>6, <2>1 DEF IInv, CallIsOnItsWay, RaiseBarrier, Deleting
  <2> QED BY <1>1, <1>2, <1>3, <2>1, <2>2, <2>3, OffTheWay DEF Erased, IInv, Types
<1> QED BY <1>4, <1>5, <1>6 DEF RaiseBarrier

\* A call that proceeds under its operation.
LEMMA Proceeds ==
    ASSUME Types, del # None, NEW pc, Proceed(pc)
    PROVE  /\ del' # None =>
                 /\ del' = [want |-> del'.want, op |-> del'.op, pc |-> del'.pc, checked |-> del'.checked]
                 /\ del'.want \in Deletions
           /\ del'.op = del.op /\ del'.pc = pc
BY DEF Types, Proceed

\* The canonical rows go: from here they stay away.
LEMMA EraseKeeps == ASSUME IInv, Erase PROVE IInv'
<1>1. del # None /\ del.op \in Deletions /\ Target[del.op] \subseteq Keys
  BY TargetAssumption DEF IInv, Types, Erase, Deleting
<1>2. /\ del' # None => /\ del' = [want |-> del'.want, op |-> del'.op, pc |-> del'.pc,
                                    checked |-> del'.checked]
                        /\ del'.want \in Deletions
      /\ del'.op = del.op /\ del'.pc = "block"
  BY <1>1, Proceeds DEF IInv, Erase
<1>3. QueueMoves
  BY NoQueueMoves DEF IInv, Types, Erase
<1>4. /\ raw' = [k \in Keys |-> IF k \in Target[del.op] THEN NoEvent ELSE raw[k]]
      /\ rejected' = rejected \ Target[del.op] /\ operation[del.op] = "running"
      /\ UNCHANGED <<operation, run, projected>>
  BY DEF Erase, DeleteCanonicalTarget, pipelineVars
<1>5. Types'
  BY <1>1, <1>2, <1>3, <1>4 DEF IInv, Types, RunForm, QueueMoves
<1>6. CallIsOnItsWay'
  BY <1>1, <1>2, <1>4 DEF CallIsOnItsWay, Erased, Blocked, OffTheStore
<1>7. GoneForGood'
  BY <1>3, <1>4, GoneStaysGone DEF OffTheStore
<1> QED BY <1>5, <1>6, <1>7 DEF IInv

\* Then the queue: tombstones first, and the items after them.
LEMMA BlockKeeps == ASSUME IInv, Block PROVE IInv'
<1>1. del # None /\ del.pc = "block" /\ del.op \in Deletions /\ Target[del.op] \subseteq Keys
  BY TargetAssumption DEF IInv, Types, Block, Deleting
<1>2. /\ del' # None => /\ del' = [want |-> del'.want, op |-> del'.op, pc |-> del'.pc,
                                    checked |-> del'.checked]
                        /\ del'.want \in Deletions
      /\ del'.op = del.op /\ del'.pc = "sweep"
  BY <1>1, Proceeds DEF IInv, Block
<1>3. QueueMoves /\ blocked' = blocked \cup Target[del.op]
  BY <1>1 DEF IInv, Types, QueueTypeOK, Block, BlockIdentities, QueueMoves
<1>4. UNCHANGED <<raw, rejected, operation, run, projected>>
  BY DEF Block, storeVars, pipelineVars
<1>5. Types'
  BY <1>1, <1>2, <1>3, <1>4 DEF IInv, Types, RunForm, QueueMoves
<1>6. CallIsOnItsWay'
  BY <1>1, <1>2, <1>3, <1>4 DEF IInv, CallIsOnItsWay, Erased, Blocked, OffTheStore
<1>7. GoneForGood'
  BY <1>3, <1>4, GoneStaysGone DEF OffTheStore
<1> QED BY <1>5, <1>6, <1>7 DEF IInv

LEMMA SweepKeeps == ASSUME IInv, NEW S \in SUBSET Ids, Sweep(S) PROVE IInv'
<1>1. del # None /\ del.pc = "sweep" /\ del.op \in Deletions
  BY DEF IInv, Types, Sweep, Deleting
<1>2. QueueMoves
  <2>1. blocked' = blocked \cup {item[i].key : i \in Matching(Target[del.op])}
    BY DEF Sweep, DeleteByIdentifiers
  <2>2. {item[i].key : i \in Matching(Target[del.op])} \subseteq Keys
    BY <1>1, TargetAssumption DEF Matching
  <2> QED BY <2>1, <2>2, RemoveMoves DEF IInv, Types, QueueTypeOK, Sweep, DeleteByIdentifiers
<1>3. UNCHANGED <<run, projected>>
  BY DEF Sweep, Pipeline
<1>4. CASE Proceed("rebuild") /\ UNCHANGED storeVars
  <2>1. /\ del' # None => /\ del' = [want |-> del'.want, op |-> del'.op, pc |-> del'.pc,
                                      checked |-> del'.checked]
                          /\ del'.want \in Deletions
        /\ del'.op = del.op /\ del'.pc = "rebuild"
    BY <1>1, <1>4, Proceeds DEF IInv
  <2>2. UNCHANGED <<raw, rejected, operation>>
    BY <1>4 DEF storeVars
  <2>3. Types'
    BY <1>1, <1>2, <1>3, <2>1, <2>2 DEF IInv, Types, RunForm, QueueMoves
  <2>4. CallIsOnItsWay'
    BY <1>1, <1>2, <1>3, <2>1, <2>2 DEF IInv, CallIsOnItsWay, Erased, Blocked, OffTheStore, QueueMoves
  <2>5. GoneForGood'
    BY <1>2, <1>3, <2>2, GoneStaysGone DEF OffTheStore
  <2> QED BY <2>3, <2>4, <2>5 DEF IInv
<1>5. CASE Return /\ FailDeletion(del.op)
  BY <1>1, <1>2, <1>3, <1>5, Fails, OffTheWay DEF Return, IInv
<1> QED BY <1>4, <1>5 DEF Sweep

\* The projections are rebuilt of what is there, which the target is not.
LEMMA RebuildKeeps == ASSUME IInv, Rebuild PROVE IInv'
<1>1. del # None /\ del.pc = "rebuild" /\ del.op \in Deletions
  BY DEF IInv, Types, Rebuild, Deleting
<1>2. /\ del' # None => /\ del' = [want |-> del'.want, op |-> del'.op, pc |-> del'.pc,
                                    checked |-> del'.checked]
                        /\ del'.want \in Deletions
      /\ del'.op = del.op /\ del'.pc = "verify"
  BY <1>1, Proceeds DEF IInv, Rebuild
<1>3. QueueMoves
  BY NoQueueMoves DEF IInv, Types, Rebuild
<1>4. UNCHANGED <<raw, rejected, operation, run, blocked>> /\ projected' = projected \cap Supported
  BY DEF Rebuild, storeVars, queueVars
<1>5. Types'
  BY <1>1, <1>2, <1>3, <1>4 DEF IInv, Types, RunForm, QueueMoves
<1>6. CallIsOnItsWay'
  <2>1. \A k \in Target[del.op] : OffTheStore(k)
    BY <1>1 DEF IInv, CallIsOnItsWay, Erased
  <2>2. Target[del.op] \cap projected' = {}
    BY <1>4, <2>1, NoEventAssumption DEF Supported, OffTheStore, Kinds
  <2> QED BY <1>1, <1>2, <1>4, <2>1, <2>2 DEF IInv, CallIsOnItsWay, Erased, Blocked, OffTheStore
<1>7. GoneForGood'
  BY <1>3, <1>4, GoneStaysGone DEF OffTheStore
<1> QED BY <1>5, <1>6, <1>7 DEF IInv

\* The gate sees that nothing is left, and the operation is as good as completed.
LEMMA VerifyKeeps == ASSUME IInv, Verify PROVE IInv'
<1>1. del # None /\ del.pc = "verify" /\ del.op \in Deletions
  BY DEF IInv, Types, Verify, Deleting
<1>2. QueueMoves /\ UNCHANGED <<item, blocked>>
  BY NoQueueMoves DEF IInv, Types, Verify, queueVars
<1>3. UNCHANGED <<run, projected>>
  BY DEF Verify, pipelineVars
<1>4. CASE Return /\ FailDeletion(del.op)
  BY <1>1, <1>2, <1>3, <1>4, Fails, OffTheWay DEF Return, IInv
<1>5. CASE ~ Remaining(del.op) /\ Proceed("complete") /\ PrepareDeletionCompletion(del.op)
  <2>1. /\ del' # None => /\ del' = [want |-> del'.want, op |-> del'.op, pc |-> del'.pc,
                                      checked |-> del'.checked]
                          /\ del'.want \in Deletions
        /\ del'.op = del.op /\ del'.pc = "complete"
    BY <1>1, <1>5, Proceeds DEF IInv
  <2>2. /\ operation' = [o \in Deletions |-> operation'[o]]
        /\ \A o \in Deletions : operation'[o] = IF o = del.op THEN "completing" ELSE operation[o]
        /\ UNCHANGED <<raw, rejected>>
    BY <1>1, <1>5, StatusSet DEF IInv, PrepareDeletionCompletion
  <2>3. Types'
    BY <1>1, <1>2, <1>3, <2>1, <2>2 DEF IInv, Types, RunForm, QueueMoves
  <2>4. CallIsOnItsWay'
    BY <2>1 DEF CallIsOnItsWay, Erased, Blocked
  <2>5. \A k \in Target[del.op] : OffTheStore(k) /\ OffTheQueue(k) /\ k \notin projected
    BY <1>1, <1>5 DEF IInv, CallIsOnItsWay, Erased, Blocked, Remaining, Held, Published, OffTheQueue
  <2>6. GoneForGood'
    <3>1. \A d \in Deletions : operation'[d] \in {"completing", "completed"} =>
              d = del.op \/ operation[d] \in {"completing", "completed"}
      BY <2>2
    <3>2. \A d \in Deletions : operation'[d] \in {"completing", "completed"} =>
              \A k \in Target[d] : OffTheStore(k) /\ OffTheQueue(k) /\ k \notin projected
      BY <2>5, <3>1 DEF IInv, GoneForGood, InStatus
    <3> QED BY <1>2, <1>3, <2>2, <3>2 DEF GoneForGood, InStatus, OffTheStore, OffTheQueue
  <2> QED BY <2>3, <2>4, <2>6 DEF IInv
<1> QED BY <1>4, <1>5 DEF Verify

LEMMA CompleteKeeps == ASSUME IInv, Complete PROVE IInv'
<1>1. del # None /\ del.op \in Deletions /\ operation[del.op] = "completing"
  BY DEF IInv, Types, Complete, Deleting, CompleteDeletion
<1>2. /\ del' # None => /\ del' = [want |-> del'.want, op |-> del'.op, pc |-> del'.pc,
                                    checked |-> del'.checked]
                        /\ del'.want \in Deletions
      /\ del'.op = del.op /\ del'.pc = "lift"
  BY <1>1, Proceeds DEF IInv, Complete
<1>3. QueueMoves
  BY NoQueueMoves DEF IInv, Types, Complete
<1>4. /\ operation' = [o \in Deletions |-> operation'[o]]
      /\ \A o \in Deletions : operation'[o] = IF o = del.op THEN "completed" ELSE operation[o]
      /\ UNCHANGED <<raw, rejected, run, projected>>
  BY <1>1, StatusSet DEF IInv, Complete, CompleteDeletion, pipelineVars
<1> QED BY <1>1, <1>2, <1>3, <1>4, OffTheWay DEF Erased

LEMMA ReturnsKeep == ASSUME IInv, LiftBarrier \/ DeleteFails \/ DeleteCrashes PROVE IInv'
<1>1. del # None /\ del' = None
  BY DEF LiftBarrier, DeleteFails, DeleteCrashes, Deleting, Return
<1>2. UNCHANGED <<run, projected>>
  BY DEF LiftBarrier, DeleteFails, DeleteCrashes, pipelineVars, Pipeline
<1>3. CASE LiftBarrier
  <2>1. del.op \in Deletions
    BY <1>3 DEF IInv, Types, LiftBarrier, Deleting
  <2>2. QueueMoves
    BY <1>3, <2>1, BarrierMoves DEF IInv, Types, LiftBarrier
  <2> QED BY <1>1, <1>2, <1>3, <2>2, OffTheWay DEF LiftBarrier, IInv, Types, storeVars
<1>4. CASE DeleteFails
  <2>1. del.op \in Deletions /\ FailDeletion(del.op)
    BY <1>4 DEF IInv, Types, DeleteFails
  <2>2. QueueMoves
    BY <1>4, NoQueueMoves DEF IInv, Types, DeleteFails
  <2> QED BY <1>1, <1>2, <2>1, <2>2, Fails, OffTheWay DEF IInv
<1>5. CASE DeleteCrashes
  <2>1. QueueMoves
    BY <1>5, NoQueueMoves DEF IInv, Types, DeleteCrashes
  <2> QED BY <1>1, <1>2, <1>5, <2>1, OffTheWay DEF DeleteCrashes, IInv, Types, storeVars
<1> QED BY <1>3, <1>4, <1>5
-------------------------------------------------------------------------------
LEMMA DeletionInitHolds == DeletionInit => IInv
<1> SUFFICES ASSUME DeletionInit PROVE IInv
  OBVIOUS
<1>1. QueueTypeOK
  BY DEF DeletionInit, Init, QueueInit, QueueTypeOK
<1>2. Types
  BY <1>1 DEF DeletionInit, Init, StoreInit, Types, RunForm
<1> QED BY <1>2 DEF DeletionInit, Init, StoreInit, IInv, CallIsOnItsWay, GoneForGood, InStatus

LEMMA DeletionStutters == ASSUME IInv, UNCHANGED allVars PROVE IInv'
<1>1. QueueMoves
  BY NoQueueMoves DEF IInv, Types, allVars, vars
<1> QED BY <1>1 DEF IInv, Types, RunForm, QueueMoves, CallIsOnItsWay, GoneForGood, InStatus, OffTheStore,
                    OffTheQueue, allVars, vars, queueVars, storeVars, pipelineVars, deletionVars

LEMMA DeletionKeeps == ASSUME IInv, [DeletionNext]_allVars PROVE IInv'
<1>1. CASE DeleteStep
  BY <1>1, GuardKeeps, BeginKeeps, BeginThrowsKeeps, RaiseBarrierKeeps, EraseKeeps, BlockKeeps,
     SweepKeeps, RebuildKeeps, VerifyKeeps, CompleteKeeps, ReturnsKeep DEF DeleteStep
<1> QED BY <1>1, CaptureKeeps, StartDeleteKeeps, ReturnsKeep, DeletionStutters DEF DeletionNext

\* The invariant holds in every reachable state.
THEOREM DeletionInvariantHolds == DeletionSpec => []IInv
BY DeletionInitHolds, DeletionKeeps, PTL DEF DeletionSpec

\* What a completed deletion erased is gone from the store, the queue and the
\* projections, and stays gone, whatever producers publish again, a worker has in
\* hand or had read to project, and however often the call was cut short.
THEOREM ErasureIsForGood == DeletionSpec => []ErasedForGood
<1>1. IInv => ErasedForGood
  BY DEF IInv, GoneForGood, InStatus, ErasedForGood, OffTheStore, OffTheQueue, Matching, Published
<1> QED BY <1>1, DeletionInvariantHolds, PTL
===============================================================================
