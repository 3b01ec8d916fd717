-------------------------- MODULE RecordsResetProofs --------------------------
(***************************************************************************)
(* What is proved of RecordsReset, for every set of events, every clock    *)
(* and every number of resets and faults: nothing that was cleared comes   *)
(* back.                                                                   *)
(*                                                                         *)
(* The invariant says why.  The store never has a row of before its        *)
(* cutoff, and whoever has read one has a handle of an older generation.   *)
(* The queue and the index may have some while the journal is there, but   *)
(* the journal goes only after both have been emptied behind the two       *)
(* cutoffs, and no worker and no deletion runs before that.                *)
(***************************************************************************)
EXTENDS RecordsReset, TLAPS

\* What is needed of the types.
Types ==
    /\ {clock, queueCutoff, storeCutoff, generation, resets} \subseteq Nat
    /\ time \in [Events -> Nat \cup {None}]
    /\ queue \cup facts \cup index \subseteq Events
    /\ worker # None => worker \in Events /\ Past(worker)
    /\ journal # None => journal \in [id : Nat, cutoff : Nat]
    /\ reader # None => reader.generation \in Nat /\ reader.generation <= generation

\* What happened after a cutoff.
Fresh(S, cutoff) == \A e \in S : Past(e) /\ time[e] > cutoff

\* How far the reset has taken its cutoff.
Progress ==
    /\ reset \in {"barrier", "store", "cutoff", "unlink", "index", "lift", "done"}
          => journal # None
    /\ reset \in {"cutoff", "unlink", "index", "lift", "done"} => storeCutoff = journal.cutoff
    /\ reset \in {"unlink", "index", "lift", "done"} => queueCutoff = journal.cutoff
    /\ journal = None => queueCutoff = storeCutoff

\* While a reset is pending or under way nobody has an event or deletes.
Alone == Maintenance => worker = None /\ del = "idle"

StoreIsFresh ==
    /\ Fresh(facts, storeCutoff)
    /\ reader # None /\ reader.generation = generation =>
          reader.saw \subseteq Events /\ Fresh(reader.saw, storeCutoff)
QueueIsFresh ==
    journal = None \/ reset \in {"index", "lift", "done"} => Fresh(queue, queueCutoff)
IndexIsFresh ==
    journal = None \/ reset \in {"lift", "done"} => Fresh(index, storeCutoff)

IInv == /\ Types /\ Progress /\ Alone
        /\ StoreIsFresh /\ QueueIsFresh /\ IndexIsFresh

-------------------------------------------------------------------------------
(* Producers, workers and readers *)

LEMMA TickKeeps == ASSUME IInv, Tick PROVE IInv'
BY DEF IInv, Types, Progress, Alone, Maintenance, StoreIsFresh, QueueIsFresh, IndexIsFresh,
       Fresh, Past, Tick, queueVars, storeVars, others

\* An event that happens now was in none of the stores before.
LEMMA HappenKeeps == ASSUME IInv, NEW e \in Events, Happen(e) PROVE IInv'
<1>1. \A d \in Events : Past(d) => time'[d] = time[d]
  BY DEF IInv, Types, Happen
<1>3. Types'
  BY <1>1 DEF IInv, Types, Happen, Past, queueVars, storeVars, others
<1>4. Progress' /\ Alone'
  BY DEF IInv, Progress, Alone, Maintenance, Happen, queueVars, storeVars, others
<1>5. StoreIsFresh' /\ QueueIsFresh' /\ IndexIsFresh'
  BY <1>1 DEF IInv, Types, StoreIsFresh, QueueIsFresh, IndexIsFresh, Fresh, Past, Happen,
              queueVars, storeVars, others
<1> QED BY <1>3, <1>4, <1>5 DEF IInv

LEMMA SubmitKeeps == ASSUME IInv, NEW e \in Events, Submit(e) PROVE IInv'
<1>1. Types' /\ Progress' /\ Alone'
  BY DEF IInv, Types, Progress, Alone, Maintenance, Past, Submit, storeVars, others
<1>2. StoreIsFresh' /\ IndexIsFresh'
  BY DEF IInv, StoreIsFresh, IndexIsFresh, Fresh, Past, Submit, storeVars, others
<1>3. QueueIsFresh'
  BY DEF IInv, Types, QueueIsFresh, Fresh, Past, Submit, Predates
<1> QED BY <1>1, <1>2, <1>3 DEF IInv

LEMMA ClaimKeeps == ASSUME IInv, NEW e \in Events, Claim(e) PROVE IInv'
<1>1. Past(e)
  BY DEF IInv, QueueIsFresh, Fresh, Claim, Maintenance
<1>2. Types' /\ Progress' /\ Alone'
  BY <1>1 DEF IInv, Types, Progress, Alone, Maintenance, Past, Claim, queueVars, storeVars
<1>3. StoreIsFresh' /\ QueueIsFresh' /\ IndexIsFresh'
  BY DEF IInv, StoreIsFresh, QueueIsFresh, IndexIsFresh, Fresh, Past, Claim, queueVars, storeVars
<1> QED BY <1>2, <1>3 DEF IInv

\* A worker has an event in hand only while nothing is pending.
LEMMA IngestKeeps == ASSUME IInv, Ingest PROVE IInv'
<1>1. worker \in Events /\ Past(worker) /\ journal = None /\ reset = "idle"
  BY DEF IInv, Types, Alone, Maintenance, Ingest
<1>2. facts' \subseteq facts \cup {worker} /\ (worker \in facts' => worker \in facts \/ time[worker] > storeCutoff)
  BY DEF Ingest
<1>3. Fresh(facts', storeCutoff)
  BY <1>1, <1>2 DEF IInv, StoreIsFresh, Fresh
<1>4. index' \in {index, facts'} /\ queue' \subseteq queue
  BY DEF Ingest
<1>5. UNCHANGED <<clock, time, queueCutoff, storeCutoff, generation, resets, journal, reset, del, reader>>
      /\ worker' = None
  BY DEF Ingest
<1>6. Types' /\ Progress' /\ Alone'
  BY <1>1, <1>2, <1>4, <1>5 DEF IInv, Types, Progress, Alone, Maintenance, Past
<1>7. StoreIsFresh' /\ QueueIsFresh' /\ IndexIsFresh'
  BY <1>1, <1>3, <1>4, <1>5 DEF IInv, StoreIsFresh, QueueIsFresh, IndexIsFresh, Fresh, Past
<1> QED BY <1>6, <1>7 DEF IInv

LEMMA WorkerDiesKeeps == ASSUME IInv, WorkerDies PROVE IInv'
BY DEF IInv, Types, Progress, Alone, Maintenance, StoreIsFresh, QueueIsFresh, IndexIsFresh,
       Fresh, Past, WorkerDies, queueVars, storeVars

LEMMA OpenKeeps == ASSUME IInv, Open PROVE IInv'
<1>1. Types' /\ Progress' /\ Alone'
  BY DEF IInv, Types, Progress, Alone, Maintenance, Past, Open, queueVars, storeVars
<1>2. StoreIsFresh' /\ QueueIsFresh' /\ IndexIsFresh'
  BY DEF IInv, Types, StoreIsFresh, QueueIsFresh, IndexIsFresh, Fresh, Past, Open, queueVars, storeVars
<1> QED BY <1>1, <1>2 DEF IInv

\* A handle of this generation has read nothing that was cleared.
LEMMA WriteBackKeeps == ASSUME IInv, WriteBack PROVE IInv'
<1>1. Fresh(facts', storeCutoff) /\ facts' \subseteq Events
  BY DEF IInv, Types, StoreIsFresh, Fresh, WriteBack, GoodHandle
<1>2. Types' /\ Progress' /\ Alone'
  BY <1>1 DEF IInv, Types, Progress, Alone, Maintenance, Past, WriteBack, queueVars
<1>3. StoreIsFresh' /\ QueueIsFresh' /\ IndexIsFresh'
  BY <1>1 DEF IInv, StoreIsFresh, QueueIsFresh, IndexIsFresh, Fresh, Past, WriteBack, queueVars
<1> QED BY <1>2, <1>3 DEF IInv
-------------------------------------------------------------------------------
(* The deletion only takes rows away, and runs while nothing is pending *)

LEMMA StartDeleteKeeps == ASSUME IInv, NEW pc, StartDelete(pc) PROVE IInv'
<1>1. Types' /\ Progress'
  BY DEF IInv, Types, Progress, Past, StartDelete, storeVars
<1>2. Alone'
  BY DEF IInv, Alone, Maintenance, StartDelete, StoreOpens
<1>3. StoreIsFresh' /\ QueueIsFresh' /\ IndexIsFresh'
  BY DEF IInv, StoreIsFresh, QueueIsFresh, IndexIsFresh, Fresh, Past, StartDelete, storeVars
<1> QED BY <1>1, <1>2, <1>3 DEF IInv

LEMMA DeleteKeeps == ASSUME IInv, DeleteStep \/ DeleteDies PROVE IInv'
<1>1. /\ facts' \subseteq facts /\ queue' \subseteq queue /\ index' \subseteq index
      /\ UNCHANGED <<clock, time, queueCutoff, storeCutoff, generation, resets, journal, reset,
                     worker, reader>>
  BY DEF DeleteStep, DeleteDies, queueVars, storeVars
<1>2. ~ Maintenance
  BY DEF IInv, Alone, DeleteStep, DeleteDies
<1>3. Types' /\ Progress' /\ Alone'
  BY <1>1, <1>2 DEF IInv, Types, Progress, Alone, Maintenance, Past
<1>4. StoreIsFresh' /\ QueueIsFresh' /\ IndexIsFresh'
  BY <1>1 DEF IInv, StoreIsFresh, QueueIsFresh, IndexIsFresh, Fresh, Past
<1> QED BY <1>3, <1>4 DEF IInv
-------------------------------------------------------------------------------
(* The reset *)

LEMMA StartResetKeeps == ASSUME IInv, StartReset PROVE IInv'
<1>1. Types' /\ Progress' /\ Alone'
  BY DEF IInv, Types, Progress, Alone, Maintenance, Past, StartReset, queueVars, storeVars, others
<1>2. StoreIsFresh' /\ QueueIsFresh' /\ IndexIsFresh'
  BY DEF IInv, StoreIsFresh, QueueIsFresh, IndexIsFresh, Fresh, Past, StartReset, queueVars,
         storeVars, others
<1> QED BY <1>1, <1>2 DEF IInv

LEMMA WriteJournalKeeps == ASSUME IInv, WriteJournal PROVE IInv'
<1> DEFINE new == [id |-> resets, cutoff |-> clock]
<1>1. new \in [id : Nat, cutoff : Nat] /\ new # None
  BY NoneIsNoJournal DEF IInv, Types
<1> HIDE DEF new
<1>2. /\ journal' = journal \/ (journal = None /\ journal' = new)
      /\ reset' \in {"barrier", "idle"} /\ At("journal")
      /\ reset' = "barrier" => journal # None \/ journal' = new
  BY DEF WriteJournal, new
<1>3. /\ journal' = None => journal = None
      /\ reset' \in {"barrier", "idle"} /\ (reset' = "barrier" => journal' # None)
  BY <1>1, <1>2
<1>4. Types' /\ Progress' /\ Alone'
  BY <1>1, <1>2, <1>3
     DEF IInv, Types, Progress, Alone, Maintenance, Past, WriteJournal, Rest, At, queueVars, storeVars, others
<1>5. StoreIsFresh' /\ QueueIsFresh' /\ IndexIsFresh'
  BY <1>2, <1>3 DEF IInv, StoreIsFresh, QueueIsFresh, IndexIsFresh, Fresh, Past, WriteJournal, Rest,
                     queueVars, storeVars, others
<1> QED BY <1>4, <1>5 DEF IInv

LEMMA RaiseBarrierKeeps == ASSUME IInv, RaiseBarrier PROVE IInv'
<1>1. Types' /\ Progress' /\ Alone'
  BY DEF IInv, Types, Progress, Alone, Maintenance, Past, RaiseBarrier, Rest, At, storeVars, others
<1>2. StoreIsFresh' /\ QueueIsFresh' /\ IndexIsFresh'
  BY DEF IInv, Progress, StoreIsFresh, QueueIsFresh, IndexIsFresh, Fresh, Past, RaiseBarrier, Rest, At,
         storeVars, others
<1> QED BY <1>1, <1>2 DEF IInv

\* The store is empty behind its new cutoff, and every handle is old.
LEMMA ClearStoreKeeps == ASSUME IInv, ClearStore PROVE IInv'
<1>1. journal # None /\ journal.cutoff \in Nat
  BY DEF IInv, Types, Progress, ClearStore, At
<1>2. Types' /\ Progress' /\ Alone'
  BY <1>1 DEF IInv, Types, Progress, Alone, Maintenance, Past, ClearStore, Rest, At, queueVars, others
<1>3. StoreIsFresh'
  BY DEF IInv, Types, StoreIsFresh, Fresh, ClearStore, Rest, others
<1>4. QueueIsFresh' /\ IndexIsFresh'
  BY <1>1 DEF QueueIsFresh, IndexIsFresh, ClearStore
<1> QED BY <1>2, <1>3, <1>4 DEF IInv

LEMMA ClearStoreFailsKeeps == ASSUME IInv, ClearStoreFails PROVE IInv'
<1>1. journal # None
  BY DEF IInv, Progress, ClearStoreFails, At
<1>2. Types' /\ Progress' /\ Alone'
  BY <1>1 DEF IInv, Types, Progress, Alone, Maintenance, Past, ClearStoreFails, At, queueVars, others
<1>3. StoreIsFresh'
  BY DEF IInv, Types, StoreIsFresh, Fresh, Past, ClearStoreFails, others
<1>4. QueueIsFresh' /\ IndexIsFresh'
  BY <1>1 DEF QueueIsFresh, IndexIsFresh, ClearStoreFails
<1> QED BY <1>2, <1>3, <1>4 DEF IInv

LEMMA PublishCutoffKeeps == ASSUME IInv, PublishCutoff PROVE IInv'
<1>1. journal # None /\ journal.cutoff \in Nat
  BY DEF IInv, Types, Progress, PublishCutoff, At
<1>2. Types' /\ Progress' /\ Alone'
  BY <1>1 DEF IInv, Types, Progress, Alone, Maintenance, Past, PublishCutoff, Rest, At, storeVars, others
<1>3. StoreIsFresh'
  BY DEF IInv, StoreIsFresh, Fresh, Past, PublishCutoff, Rest, storeVars, others
<1>4. QueueIsFresh' /\ IndexIsFresh'
  BY <1>1 DEF QueueIsFresh, IndexIsFresh, PublishCutoff
<1> QED BY <1>2, <1>3, <1>4 DEF IInv

LEMMA UnlinkKeeps == ASSUME IInv, NEW S, Unlink(S) PROVE IInv'
<1>1. journal # None /\ journal' = journal /\ reset' \in {"index", "idle"}
  BY DEF IInv, Progress, Unlink, At
<1>2. Types' /\ Progress' /\ Alone'
  BY <1>1 DEF IInv, Types, Progress, Alone, Maintenance, Past, Unlink, At, storeVars, others
<1>3. StoreIsFresh' /\ IndexIsFresh'
  BY <1>1 DEF IInv, StoreIsFresh, IndexIsFresh, Fresh, Past, Unlink, storeVars, others
<1>4. QueueIsFresh'
  BY <1>1 DEF QueueIsFresh, Fresh, Unlink
<1> QED BY <1>2, <1>3, <1>4 DEF IInv

LEMMA ClearIndexKeeps == ASSUME IInv, ClearIndex PROVE IInv'
<1>1. journal # None
  BY DEF IInv, Progress, ClearIndex, At
<1>2. Types' /\ Progress' /\ Alone'
  BY <1>1 DEF IInv, Types, Progress, Alone, Maintenance, Past, ClearIndex, Rest, At, queueVars, storeVars, others
<1>3. StoreIsFresh' /\ QueueIsFresh' /\ IndexIsFresh'
  BY <1>1 DEF IInv, StoreIsFresh, QueueIsFresh, IndexIsFresh, Fresh, Past, ClearIndex, Rest, At,
              queueVars, storeVars, others
<1> QED BY <1>2, <1>3 DEF IInv

LEMMA LiftKeeps == ASSUME IInv, Lift PROVE IInv'
<1>1. Types' /\ Progress' /\ Alone'
  BY DEF IInv, Types, Progress, Alone, Maintenance, Past, Lift, Rest, At, queueVars, storeVars, others
<1>2. StoreIsFresh' /\ QueueIsFresh' /\ IndexIsFresh'
  BY DEF IInv, StoreIsFresh, QueueIsFresh, IndexIsFresh, Fresh, Past, Lift, Rest, At,
         queueVars, storeVars, others
<1> QED BY <1>1, <1>2 DEF IInv

LEMMA ResetDiesKeeps == ASSUME IInv, ResetDies PROVE IInv'
BY DEF IInv, Types, Progress, Alone, Maintenance, StoreIsFresh, QueueIsFresh, IndexIsFresh,
       Fresh, Past, ResetDies, queueVars, storeVars, others
-------------------------------------------------------------------------------
LEMMA InitHolds == Init => IInv
BY DEF Init, IInv, Types, Progress, Alone, Maintenance, StoreIsFresh, QueueIsFresh, IndexIsFresh,
       Fresh, Past

LEMMA ResetStepKeeps == ASSUME IInv, ResetStep PROVE IInv'
BY WriteJournalKeeps, RaiseBarrierKeeps, ClearStoreKeeps, PublishCutoffKeeps, UnlinkKeeps,
   ClearIndexKeeps, LiftKeeps DEF ResetStep

LEMMA StutterKeeps == ASSUME IInv, UNCHANGED vars PROVE IInv'
BY DEF IInv, Types, Progress, Alone, Maintenance, StoreIsFresh, QueueIsFresh, IndexIsFresh,
       Fresh, Past, vars, queueVars, storeVars, others

LEMMA NextKeeps == ASSUME IInv, [Next]_vars PROVE IInv'
<1>1. CASE Tick \/ Ingest \/ WorkerDies \/ Open \/ WriteBack
  BY <1>1, TickKeeps, IngestKeeps, WorkerDiesKeeps, OpenKeeps, WriteBackKeeps
<1>2. ASSUME NEW e \in Events, Happen(e) \/ Submit(e) \/ Claim(e) PROVE IInv'
  BY <1>2, HappenKeeps, SubmitKeeps, ClaimKeeps
<1>3. CASE StartDelete("guard") \/ StartDelete("begin") \/ DeleteStep \/ DeleteDies
  BY <1>3, StartDeleteKeeps, DeleteKeeps
<1>4. CASE StartReset \/ ResetStep \/ ClearStoreFails \/ ResetDies
  BY <1>4, StartResetKeeps, ResetStepKeeps, ClearStoreFailsKeeps, ResetDiesKeeps
<1>5. ASSUME NEW S \in SUBSET Events, Unlink(S) PROVE IInv'
  BY <1>5, UnlinkKeeps
<1>6. CASE UNCHANGED vars
  BY <1>6, StutterKeeps
<1> QED BY <1>1, <1>2, <1>3, <1>4, <1>5, <1>6 DEF Next

\* The invariant holds in every reachable state.
THEOREM InvariantHolds == Spec => []IInv
BY InitHolds, NextKeeps, PTL DEF Spec

\* With no reset pending or under way everything is fresh.
LEMMA NothingReturns == ASSUME IInv PROVE NothingClearedReturns
<1>1. SUFFICES ASSUME journal = None, NEW e \in Events, Cleared(e)
               PROVE  e \notin queue \cup facts \cup index
  BY DEF NothingClearedReturns
<1>2. time[e] \in Nat /\ ~ (time[e] > storeCutoff) /\ storeCutoff \in Nat
  BY <1>1 DEF IInv, Types, Cleared, Past
<1>3. Fresh(queue, storeCutoff) /\ Fresh(facts, storeCutoff) /\ Fresh(index, storeCutoff)
  BY <1>1 DEF IInv, Progress, StoreIsFresh, QueueIsFresh, IndexIsFresh
<1> QED BY <1>2, <1>3 DEF Fresh

\* Tombstones go only when the cutoff that stands in for them is there.
LEMMA TombstonesAreReplaced == ASSUME IInv, [Next]_vars PROVE VictimsStayOut
<1>1. CASE ClearStore
  BY <1>1 DEF VictimsStayOut, KeptOut, ClearStore, At, IInv, Progress, queueVars
<1>2. CASE \E S : Unlink(S)
  BY <1>2 DEF VictimsStayOut, KeptOut, Unlink, At, IInv, Progress, storeVars
<1>3. CASE DeleteStep
  BY <1>3 DEF VictimsStayOut, KeptOut, DeleteStep, storeVars
<1>4. CASE UNCHANGED <<tombs, erased>>
  BY <1>4 DEF VictimsStayOut, KeptOut
<1>5. ClearStore \/ (\E S : Unlink(S)) \/ DeleteStep \/ UNCHANGED <<tombs, erased>>
  <2>1. CASE ResetStep
    BY <2>1 DEF ResetStep, WriteJournal, RaiseBarrier, PublishCutoff, ClearIndex, Lift, Rest,
                queueVars, storeVars
  <2>2. CASE UNCHANGED vars
    BY <2>2 DEF vars, queueVars, storeVars
  <2>3. CASE Next /\ ~ ResetStep
    BY <2>3 DEF Next, Tick, Ingest, WorkerDies, Open, WriteBack, Happen, Submit, Claim,
                StartDelete, DeleteDies, StartReset, ClearStoreFails, ResetDies, queueVars, storeVars
  <2> QED BY <2>1, <2>2, <2>3
<1> QED BY <1>1, <1>2, <1>3, <1>4, <1>5

\* Nothing that was cleared comes back: neither what happened before the cutoff,
\* whoever has it in hand, had read it or submits it again, nor what an earlier
\* deletion kept out.
THEOREM ClearedNeverReturns == Spec => ClearedStaysOut
<1>1. IInv /\ IInv' /\ [Next]_vars => [NothingClearedReturns' /\ VictimsStayOut]_vars
  <2>1. ASSUME IInv' PROVE NothingClearedReturns'
    BY <2>1, NothingReturns, PTL
  <2> QED BY <2>1, TombstonesAreReplaced
<1> QED BY <1>1, InvariantHolds, PTL DEF Spec, ClearedStaysOut
===============================================================================
