----------------------------- MODULE CaptureQueue -----------------------------
(***************************************************************************)
(* The durable capture queue seen one item at a time: what every operation *)
(* of WindowsCaptureQueue promises, with each operation (or, for the bulk  *)
(* operations, each file it finishes) one step.  Operations run under the  *)
(* queue's named-pipe lease, one at a time, so a step is atomic here;      *)
(* CaptureQueueFiles opens each operation into the file writes it makes    *)
(* and implements this module.                                             *)
(*                                                                         *)
(* A moment in time is not modelled by a clock but by the one fact about   *)
(* it the code tests: `elapsed` says that the deadline of the item's state *)
(* (claimExpiresAt, nextAttemptAt, acknowledgedAt + retention) has passed. *)
(***************************************************************************)
EXTENDS CaptureIdentities, Naturals, FiniteSets

CONSTANTS
    Ids,          \* queue item ids, one per published file
    Claimants,    \* claimOwnerIds
    MaxAttempts,  \* WindowsCaptureQueueOptions.maxAttempts
    None          \* no item, no owner, no barrier

ASSUME MaxAttemptsAssumption == MaxAttempts \in Nat \ {0}

States == {"pending", "claimed", "retry", "acknowledged", "dead-letter"}
Terminal == {"acknowledged", "dead-letter"}

\* Only a claimed item has a holder.
Item ==
    {it \in [key : Keys, state : States, attempts : Nat, failures : Nat,
             holder : Claimants \cup {None}, elapsed : BOOLEAN] :
        it.holder # None <=> it.state = "claimed"}

ASSUME NoneAssumption ==
    /\ None \notin Item /\ None \notin Ids /\ None \notin Claimants
    /\ None \notin Keys /\ None \notin Deletions

VARIABLES
    item,     \* the content of <id>.json, or None when there is no such file
    source,   \* per key, the item a valid .source-<key>.idx names, or None
    barrier,  \* the deletion id in .deletion/active, or None
    blocked,  \* keys with a deletion tombstone
    cutoff    \* keys whose event timestamp is at or before the reset cutoff

queueVars == <<item, source, barrier, blocked, cutoff>>

Published == {i \in Ids : item[i] # None}
InState(S) == {i \in Published : item[i].state \in S}

QueueInit ==
    /\ item = [i \in Ids |-> None]
    /\ source = [k \in Keys |-> None]
    /\ barrier = None
    /\ blocked = {}
    /\ cutoff = {}
-------------------------------------------------------------------------------
(* Publication *)

Pending(k) == [key |-> k, state |-> "pending", attempts |-> 0, failures |-> 0,
               holder |-> None, elapsed |-> FALSE]

\* enqueue and enqueueIfSourceAbsent give up on the same sources: the first
\* throws DeletedCaptureSourceError, the second reports a duplicate.
Refused(k) == k \in blocked \cup cutoff

\* enqueue publishes an item for a key that already has one, and then leaves
\* the source index with its first owner.
Enqueue(i, k) ==
    /\ item[i] = None
    /\ barrier = None
    /\ ~ Refused(k)
    /\ item' = [item EXCEPT ![i] = Pending(k)]
    /\ source' = [source EXCEPT ![k] = IF @ = None THEN i ELSE @]
    /\ UNCHANGED <<barrier, blocked, cutoff>>

EnqueueIfSourceAbsent(i, k) ==
    /\ source[k] = None
    /\ Enqueue(i, k)

\* initialize, rebuilding the indexes, gives an unowned key to an item of it.
IndexSource(i) ==
    /\ i \in Published
    /\ source[item[i].key] = None
    /\ source' = [source EXCEPT ![item[i].key] = i]
    /\ UNCHANGED <<item, barrier, blocked, cutoff>>
-------------------------------------------------------------------------------
(* Claim and settlement *)

Claimable ==
    {i \in InState({"pending", "retry"}) :
        item[i].state = "retry" => item[i].elapsed}

Claimed(it, c) == [it EXCEPT !.state = "claimed", !.attempts = @ + 1,
                             !.holder = c, !.elapsed = FALSE]

Claim(i, c) ==
    /\ barrier = None
    /\ i \in Claimable
    /\ item' = [item EXCEPT ![i] = Claimed(@, c)]
    /\ UNCHANGED <<source, barrier, blocked, cutoff>>

\* #assertActiveClaim: the attempt number fences a claim that was recovered
\* and handed out again, even to the same claimant.
ActiveClaim(i, c, n) ==
    /\ i \in InState({"claimed"})
    /\ item[i].holder = c
    /\ item[i].attempts = n
    /\ ~ item[i].elapsed

Settled(it, s) == [it EXCEPT !.state = s, !.holder = None, !.elapsed = FALSE]

\* #retryClaimed, counting the failure or not.
Retried(it, counted) ==
    LET n == it.failures + (IF counted THEN 1 ELSE 0)
        s == IF counted /\ n >= MaxAttempts THEN "dead-letter" ELSE "retry"
    IN  [it EXCEPT !.state = s, !.failures = n,
                   !.holder = None, !.elapsed = FALSE]

Settle(i, c, n, settled) ==
    /\ ActiveClaim(i, c, n)
    /\ item' = [item EXCEPT ![i] = settled]
    /\ UNCHANGED <<source, barrier, blocked, cutoff>>

Acknowledge(i, c, n) == Settle(i, c, n, Settled(item[i], "acknowledged"))
DeadLetter(i, c, n) == Settle(i, c, n, Settled(item[i], "dead-letter"))
Retry(i, c, n) == Settle(i, c, n, Retried(item[i], TRUE))
RetryAfterCommit(i, c, n) == Settle(i, c, n, Retried(item[i], FALSE))
-------------------------------------------------------------------------------
(* Bulk operations.  S is the set of items an operation reaches: all the   *)
(* items it selects, or fewer when a crash or an error cuts it short.      *)

\* Mutant: a claim of the last attempt is not recovered.
ExpiredClaimsUnspent ==
    {i \in InState({"claimed"}) : item[i].elapsed /\ item[i].attempts < MaxAttempts}

ExpiredClaims == {i \in InState({"claimed"}) : item[i].elapsed}

RecoverExpiredClaims(S) ==
    /\ barrier = None
    /\ S \subseteq ExpiredClaims
    /\ item' = [i \in Ids |-> IF i \in S THEN Retried(item[i], FALSE)
                                         ELSE item[i]]
    /\ UNCHANGED <<source, barrier, blocked, cutoff>>

\* The items of S go, and with each the source index if it is theirs.
RemoveItems(S) ==
    /\ item' = [i \in Ids |-> IF i \in S THEN None ELSE item[i]]
    /\ source' = [k \in Keys |-> IF source[k] \in S THEN None ELSE source[k]]

\* Mutant: retention takes every settled item.
OldSettled == InState(Terminal)

OldAcknowledged == {i \in InState({"acknowledged"}) : item[i].elapsed}

PruneAcknowledged(S) ==
    /\ S \subseteq OldAcknowledged
    /\ RemoveItems(S)
    /\ UNCHANGED <<barrier, blocked, cutoff>>
-------------------------------------------------------------------------------
(* Barrier, deletion and reset *)

BeginDeletionBarrier(d) ==
    /\ barrier \in {None, d}
    /\ barrier' = d
    /\ UNCHANGED <<item, source, blocked, cutoff>>

EndDeletionBarrier(d) ==
    /\ barrier \in {None, d}
    /\ barrier' = None
    /\ UNCHANGED <<item, source, blocked, cutoff>>

BlockIdentities(K) ==
    /\ blocked' = blocked \cup K
    /\ UNCHANGED <<item, source, barrier, cutoff>>

Matching(K) == {i \in Published : item[i].key \in K}

\* remainingIdentities, remainingIdentifiers: the keys of K that an item or a
\* source index still names.
Held(K) == {k \in K : source[k] # None \/ \E i \in Published : item[i].key = k}

\* deleteByIdentifiers writes the tombstones of every match before it
\* unlinks the first one.
DeleteByIdentifiers(K, S) ==
    /\ S \subseteq Matching(K)
    /\ RemoveItems(S)
    /\ blocked' = blocked \cup {item[i].key : i \in Matching(K)}
    /\ UNCHANGED <<barrier, cutoff>>

\* clearAllRecords publishes the new cutoff, then unlinks every file but the
\* barrier and the cutoff marker, in any order: the items of S, the source
\* indexes of K and the tombstones of B.
ClearAllRecords(C, S, K, B) ==
    /\ barrier # None
    /\ cutoff \subseteq C
    /\ cutoff' = C
    /\ S \subseteq Published
    /\ item' = [i \in Ids |-> IF i \in S THEN None ELSE item[i]]
    /\ source' = [k \in Keys |-> IF k \in K \/ source[k] \in S
                                 THEN None ELSE source[k]]
    /\ blocked' = blocked \ B
    /\ UNCHANGED barrier
-------------------------------------------------------------------------------
(* Time *)

Elapse(i) ==
    /\ i \in InState({"claimed", "retry", "acknowledged"})
    /\ ~ item[i].elapsed
    /\ item' = [item EXCEPT ![i] = [@ EXCEPT !.elapsed = TRUE]]
    /\ UNCHANGED <<source, barrier, blocked, cutoff>>
-------------------------------------------------------------------------------
QueueNext ==
    \/ \E i \in Ids, k \in Keys :
          Enqueue(i, k) \/ EnqueueIfSourceAbsent(i, k)
    \/ \E i \in Ids, c \in Claimants :
          \/ Claim(i, c)
          \/ \E n \in {item[j].attempts : j \in Published} :
                \/ Acknowledge(i, c, n)
                \/ DeadLetter(i, c, n)
                \/ Retry(i, c, n)
                \/ RetryAfterCommit(i, c, n)
    \/ \E S \in SUBSET Ids : RecoverExpiredClaims(S) \/ PruneAcknowledged(S)
    \/ \E d \in Deletions : BeginDeletionBarrier(d) \/ EndDeletionBarrier(d)
    \/ \E K \in SUBSET Keys :
          \/ BlockIdentities(K)
          \/ \E S \in SUBSET Ids : DeleteByIdentifiers(K, S)
    \/ \E C, K, B \in SUBSET Keys, S \in SUBSET Ids :
          ClearAllRecords(C, S, K, B)
    \/ \E i \in Ids : Elapse(i) \/ IndexSource(i)

QueueSpec == QueueInit /\ [][QueueNext]_queueVars
===============================================================================
