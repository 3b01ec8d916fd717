--------------------------- MODULE CaptureFilesProofs ---------------------------
(***************************************************************************)
(* What is proved of the two parts of the capture that work on files: the  *)
(* durable queue, which is kept in them, and the reconciler, which reads   *)
(* the session's own.                                                      *)
(*                                                                         *)
(* CaptureQueueFiles, for any ids, keys, processes and                     *)
(* faults: the sequences of file writes, cut short anywhere by a crash or  *)
(* an error, implement CaptureQueue.                                       *)
(* The invariant says of the operation that holds the lease what it found  *)
(* when it began and still relies on.  Nothing else writes the files while *)
(* it runs and time is counted between operations, so that what it read    *)
(* stays true until its own next write; a source is reserved before its    *)
(* item is published, tombstones are written before the first item is      *)
(* unlinked, and an item taken away keeps no valid index.                  *)
(*                                                                         *)
(* CaptureReconciler, for every file, budget, memory and bound: the        *)
(* reconciler takes nothing of a time when nothing was to be observed, and *)
(* nothing that was deleted.  The invariant follows the time from which a  *)
(* pass takes lines.  While capture is on and the extension has joined,    *)
(* the later of both times is after every line of a time when nothing was  *)
(* captured; a pass that looked then keeps that time, and what it observed *)
(* since is no such line, so nothing in the queue or the store speaks of   *)
(* one.                                                                    *)
(***************************************************************************)
EXTENDS CaptureQueueFiles, CaptureReconciler, FiniteSetTheorems, TLAPS

IsItem(it) == it \in Contract!Item

FilesTyped ==
    /\ item = [i \in Ids |-> item[i]]
    /\ \A i \in Ids : item[i] = None \/ IsItem(item[i])
    /\ index = [k \in Keys |-> index[k]]
    /\ \A k \in Keys : index[k] = None \/ index[k] \in Ids
    /\ blocked \subseteq Keys /\ cutoff \subseteq Keys

\* Where an operation of each kind can be.
Places(kind) ==
    CASE kind = "enqueue" -> {"unlinkIndex", "linkIndex", "touchActive", "rename",
                              "unlinkOwned"}
      [] kind = "write" -> {"touchActive", "rename", "touchAcked", "dropActive"}
      [] kind \in {"claim", "recover"} -> {"scan", "touchAcked", "dropActive"}
      [] kind = "requeue" -> {"next", "touchActive", "rename"}
      [] kind = "prune" -> {"scan", "next", "unlinkItem", "unlinkActive",
                            "unlinkAcked", "unlinkOwned"}
      [] kind = "delete" -> {"tombstone", "next", "unlinkItem", "unlinkActive",
                             "unlinkAcked", "unlinkOwned", "finish"}
      [] kind = "block" -> {"tombstone"}
      [] kind = "clear" -> {"wipe"}
      [] kind = "initialize" -> {"next", "touchAcked", "dropActive", "touchLive",
                                 "claimIndex", "finish"}
      [] OTHER -> {}

Form(o) == o = [proc |-> o.proc, kind |-> o.kind, pc |-> o.pc, id |-> o.id,
                new |-> o.new, todo |-> o.todo, hits |-> o.hits, keys |-> o.keys]

OpTyped(o) ==
    /\ Form(o)
    /\ o.proc \in Procs
    /\ o.pc \in Places(o.kind)
    /\ o.kind \in {"enqueue", "write", "claim", "block"} => o.todo = {}
    /\ o.kind \in {"enqueue", "claim", "recover", "requeue"} => barrier = None
    /\ o.kind \in {"block", "delete", "clear"} => barrier # None
    /\ o.kind \in {"block", "delete"} => o.keys \subseteq Keys
    /\ o.kind = "claim" => o.hits = {}

\* enqueue found no item under this id and its source open; the source is
\* reserved, by this item or by the owner that was found, before it publishes.
Publishing(o, k) ==
    /\ o.keys = {k} /\ o.new = Contract!Pending(k) /\ ~ Contract!Refused(k)
    /\ o.id \in Ids /\ item[o.id] = None
    /\ o.pc \in {"unlinkIndex", "linkIndex"} => ~ Valid(k)
    /\ o.pc \in {"touchActive", "rename"} => Valid(k) \/ index[k] = o.id

Enqueuing(o) == o.kind = "enqueue" => \E k \in Keys : Publishing(o, k)

\* A claim or a settlement is still allowed when its rename comes.
Claims(o) ==
    /\ barrier = None
    /\ o.id \in Contract!Claimable
    /\ o.new = Contract!Claimed(item[o.id], o.proc)

Settles(o) ==
    /\ Contract!ActiveClaim(o.id, o.proc, item[o.id].attempts)
    /\ o.new \in {Contract!Settled(item[o.id], "acknowledged"),
                  Contract!Settled(item[o.id], "dead-letter"),
                  Contract!Retried(item[o.id], TRUE),
                  Contract!Retried(item[o.id], FALSE)}

WritingOne(o) ==
    o.kind = "write" /\ o.pc \in {"touchActive", "rename"} => Claims(o) \/ Settles(o)

\* What a scan chose is still what it was chosen for, until it is rewritten.
Recovering(o) == o.kind = "recover" => o.hits \subseteq Contract!ExpiredClaims

Requeuing(o) ==
    o.kind = "requeue" =>
        /\ o.todo \subseteq Contract!ExpiredClaims
        /\ o.pc # "next" => /\ o.id \in Contract!ExpiredClaims \ o.todo
                            /\ o.new = Contract!Retried(item[o.id], FALSE)

Pruning(o) ==
    o.kind = "prune" =>
        /\ o.hits \subseteq Contract!OldAcknowledged \/ o.pc # "scan"
        /\ o.todo \subseteq Contract!OldAcknowledged \/ o.pc = "scan"
        /\ o.pc = "unlinkItem" => o.id \in Contract!OldAcknowledged \ o.todo

\* Every item a deletion selects is either still to be taken or gone, and is
\* tombstoned before the first one goes.
Deleting(o) ==
    o.kind = "delete" =>
        LET here == IF o.pc = "unlinkItem" THEN {o.id} ELSE {}
        IN  /\ Contract!Matching(o.keys) = o.todo \cup here
            /\ o.todo \cap here = {}
            /\ \A i \in o.todo \cup here : o.pc # "tombstone" => item[i].key \in blocked
            /\ o.pc = "finish" => o.todo = {}

Initializing(o) ==
    o.kind = "initialize" =>
        /\ o.todo \subseteq Published
        /\ o.pc \notin {"next", "finish"} => o.id \in Published

\* Where the item's index is about to go, no item of its id is left.
Emptied(o) ==
    o.pc \in {"unlinkActive", "unlinkAcked", "unlinkOwned"} =>
        o.id \in Ids /\ item[o.id] = None /\ o.new.key \in Keys

OpHolds(o) ==
    /\ OpTyped(o) /\ Enqueuing(o) /\ WritingOne(o) /\ Recovering(o) /\ Requeuing(o)
    /\ Pruning(o) /\ Deleting(o) /\ Initializing(o) /\ Emptied(o)

IInv == FilesTyped /\ (op # None => OpHolds(op))
-------------------------------------------------------------------------------
(* Items *)

LEMMA ItemFields ==
    ASSUME NEW it, IsItem(it)
    PROVE  /\ it.key \in Keys /\ it.failures \in Nat /\ it.attempts \in Nat
           /\ it.state \in Contract!States /\ it.elapsed \in BOOLEAN
           /\ it # None
           /\ it = [key |-> it.key, state |-> it.state, attempts |-> it.attempts,
                    failures |-> it.failures, holder |-> it.holder,
                    elapsed |-> it.elapsed]
BY ContractAssumption DEF IsItem, Contract!Item

\* An item may be any record of these fields with a holder just when claimed.
LEMMA ItemOf ==
    ASSUME NEW it,
           it = [key |-> it.key, state |-> it.state, attempts |-> it.attempts,
                 failures |-> it.failures, holder |-> it.holder,
                 elapsed |-> it.elapsed],
           it.key \in Keys, it.failures \in Nat, it.attempts \in Nat,
           it.state \in Contract!States, it.elapsed \in BOOLEAN,
           \/ it.state = "claimed" /\ it.holder \in Procs
           \/ it.state # "claimed" /\ it.holder = None
    PROVE  IsItem(it)
BY ContractAssumption DEF IsItem, Contract!Item

LEMMA PendingIsItem ==
    ASSUME NEW k \in Keys
    PROVE  IsItem(Contract!Pending(k)) /\ Contract!Pending(k).key = k
BY ItemOf DEF Contract!Pending, Contract!States

\* An item rewritten with a new state, holder and counts.
LEMMA RewrittenIsItem ==
    ASSUME NEW it, IsItem(it), NEW t \in Contract!States, NEW n \in Nat, NEW m \in Nat,
           NEW c, (t = "claimed" /\ c \in Procs) \/ (t # "claimed" /\ c = None),
           NEW new,
           new = [key |-> it.key, state |-> t, attempts |-> n, failures |-> m,
                  holder |-> c, elapsed |-> FALSE]
    PROVE  IsItem(new) /\ new.key = it.key /\ new.state = t
<1>1. /\ new.key = it.key /\ new.state = t /\ new.attempts = n /\ new.failures = m
      /\ new.holder = c /\ new.elapsed = FALSE
  OBVIOUS
<1> QED
  BY <1>1, ItemFields, ItemOf

LEMMA ClaimedIsItem ==
    ASSUME NEW it, IsItem(it), NEW c \in Procs
    PROVE  IsItem(Contract!Claimed(it, c)) /\ Contract!Claimed(it, c).key = it.key
<1>0. it = [key |-> it.key, state |-> it.state, attempts |-> it.attempts,
            failures |-> it.failures, holder |-> it.holder, elapsed |-> it.elapsed]
  BY ItemFields
<1>1. Contract!Claimed(it, c) =
        [key |-> it.key, state |-> "claimed", attempts |-> it.attempts + 1,
         failures |-> it.failures, holder |-> c, elapsed |-> FALSE]
  <2>1. Contract!Claimed(it, c) =
          [it EXCEPT !.state = "claimed", !.attempts = it.attempts + 1,
                     !.holder = c, !.elapsed = FALSE]
    BY DEF Contract!Claimed
  <2> QED
    BY <1>0, <2>1
<1>2. it.attempts + 1 \in Nat /\ it.failures \in Nat /\ "claimed" \in Contract!States
  BY ItemFields DEF Contract!States
<1> QED
  BY <1>1, <1>2, RewrittenIsItem

LEMMA SettledIsItem ==
    ASSUME NEW it, IsItem(it), NEW s \in Contract!Terminal
    PROVE  IsItem(Contract!Settled(it, s)) /\ Contract!Settled(it, s).key = it.key
<1>0. it = [key |-> it.key, state |-> it.state, attempts |-> it.attempts,
            failures |-> it.failures, holder |-> it.holder, elapsed |-> it.elapsed]
  BY ItemFields
<1>1. Contract!Settled(it, s) =
        [key |-> it.key, state |-> s, attempts |-> it.attempts,
         failures |-> it.failures, holder |-> None, elapsed |-> FALSE]
  <2>1. Contract!Settled(it, s) =
          [it EXCEPT !.state = s, !.holder = None, !.elapsed = FALSE]
    BY DEF Contract!Settled
  <2> QED
    BY <1>0, <2>1
<1>2. s \in Contract!States /\ s # "claimed"
  BY DEF Contract!States, Contract!Terminal
<1> QED
  BY <1>1, <1>2, ItemFields, RewrittenIsItem

LEMMA RetriedIsItem ==
    ASSUME NEW it, IsItem(it), NEW counted \in BOOLEAN
    PROVE  /\ IsItem(Contract!Retried(it, counted))
           /\ Contract!Retried(it, counted).key = it.key
           /\ ~ counted => Contract!Retried(it, counted).state = "retry"
<1> DEFINE n == it.failures + (IF counted THEN 1 ELSE 0)
           s == IF counted /\ n >= MaxAttempts THEN "dead-letter" ELSE "retry"
<1>1. PICK m : m = n
  OBVIOUS
<1>2. PICK t : t = s
  OBVIOUS
<1>3. m \in Nat
  BY <1>1, ItemFields
<1>4. t \in {"dead-letter", "retry"} /\ (~ counted => t = "retry")
  BY <1>2
<1>5. Contract!Retried(it, counted) =
        [it EXCEPT !.state = t, !.failures = m, !.holder = None, !.elapsed = FALSE]
  BY <1>1, <1>2 DEF Contract!Retried
<1> HIDE DEF n, s
<1>0. it = [key |-> it.key, state |-> it.state, attempts |-> it.attempts,
            failures |-> it.failures, holder |-> it.holder, elapsed |-> it.elapsed]
  BY ItemFields
<1>6. Contract!Retried(it, counted) =
        [key |-> it.key, state |-> t, attempts |-> it.attempts, failures |-> m,
         holder |-> None, elapsed |-> FALSE]
  BY <1>0, <1>5
<1>7. t \in Contract!States /\ t # "claimed"
  BY <1>4 DEF Contract!States
<1> QED
  BY <1>3, <1>4, <1>6, <1>7, ItemFields, RewrittenIsItem

LEMMA ElapsedIsItem ==
    ASSUME NEW it, IsItem(it)
    PROVE  /\ IsItem([it EXCEPT !.elapsed = TRUE])
           /\ [it EXCEPT !.elapsed = TRUE].key = it.key
BY ItemFields, ItemOf, ContractAssumption DEF IsItem, Contract!Item

LEMMA PublishedAreItems ==
    ASSUME FilesTyped, NEW i \in Published
    PROVE  IsItem(item[i]) /\ item[i].key \in Keys
<1>1. IsItem(item[i])
  BY DEF FilesTyped, Published, Contract!Published
<1> QED
  BY <1>1, ItemFields

\* The sets of items the contract speaks of are of items that exist.
LEMMA SetsArePublished ==
    /\ Contract!Published = {i \in Ids : item[i] # None}
    /\ Contract!Claimable \subseteq Published
    /\ Contract!ExpiredClaims \subseteq Published
    /\ Contract!OldAcknowledged \subseteq Published
    /\ \A K : Contract!Matching(K) = {i \in Published : item[i].key \in K}
    /\ \A i, c, n : Contract!ActiveClaim(i, c, n) => i \in Published
BY DEF Published, Contract!Published, Contract!Claimable, Contract!ExpiredClaims,
       Contract!OldAcknowledged, Contract!Matching, Contract!InState,
       Contract!ActiveClaim
-------------------------------------------------------------------------------
(* The lease *)

LEMMA OpenLease ==
    ASSUME NEW p, NEW kind
    PROVE  /\ Form(Lease(p, kind))
           /\ Lease(p, kind).proc = p /\ Lease(p, kind).kind = kind
           /\ Lease(p, kind).todo = {} /\ Lease(p, kind).hits = {}
BY DEF Lease, Form

LEMMA Going ==
    ASSUME NEW o, Form(o), NEW x, NEW q, q = [o EXCEPT !.pc = x]
    PROVE  /\ Form(q) /\ q.proc = o.proc /\ q.kind = o.kind /\ q.pc = x
           /\ q.id = o.id /\ q.new = o.new /\ q.todo = o.todo /\ q.hits = o.hits
           /\ q.keys = o.keys
BY DEF Form

LEMMA ForKeys ==
    ASSUME NEW o, Form(o), NEW K, NEW q, q = [o EXCEPT !.keys = K]
    PROVE  /\ Form(q) /\ q.proc = o.proc /\ q.kind = o.kind /\ q.pc = o.pc
           /\ q.id = o.id /\ q.new = o.new /\ q.todo = o.todo /\ q.hits = o.hits
           /\ q.keys = K
BY DEF Form

LEMMA BeginningToWrite ==
    ASSUME NEW o, Form(o), NEW i, NEW new, NEW q, q = Writing(o, i, new)
    PROVE  /\ Form(q) /\ q.proc = o.proc /\ q.kind = o.kind
           /\ q.pc \in {"touchActive", "rename"}
           /\ q.id = i /\ q.new = new /\ q.todo = o.todo /\ q.hits = o.hits
           /\ q.keys = o.keys
<1>1. PICK x : /\ x = IF new.state \in Terminal THEN "rename" ELSE "touchActive"
  OBVIOUS
<1>2. x \in {"touchActive", "rename"}
  BY <1>1
<1>3. q = [o EXCEPT !.id = i, !.new = new, !.pc = x]
  BY <1>1 DEF Writing
<1> QED
  BY <1>2, <1>3 DEF Form

\* The kinds of operation that can be at a place.
LEMMA KindsAt ==
    ASSUME NEW o, OpTyped(o)
    PROVE  /\ o.pc \in {"unlinkIndex", "linkIndex"} => o.kind = "enqueue"
           /\ o.pc \in {"touchActive", "rename"} =>
                 o.kind \in {"enqueue", "write", "requeue"}
           /\ o.pc \in {"touchAcked", "dropActive"} =>
                 o.kind \in {"write", "claim", "recover", "initialize"}
           /\ o.pc = "scan" => o.kind \in {"claim", "recover", "prune"}
           /\ o.pc = "next" => o.kind \in {"requeue", "prune", "delete", "initialize"}
           /\ o.pc \in {"unlinkItem", "unlinkActive", "unlinkAcked"} =>
                 o.kind \in {"prune", "delete"}
           /\ o.pc = "unlinkOwned" => o.kind \in {"enqueue", "prune", "delete"}
           /\ o.pc = "tombstone" => o.kind \in {"block", "delete"}
           /\ o.pc \in {"touchLive", "claimIndex"} => o.kind = "initialize"
           /\ o.pc = "finish" => o.kind \in {"delete", "initialize"}
           /\ o.pc = "wipe" => o.kind = "clear"
<1>1. o.pc \in Places(o.kind)
  BY DEF OpTyped
<1>2. CASE o.kind = "enqueue"
  BY <1>1, <1>2 DEF Places
<1>3. CASE o.kind = "write"
  BY <1>1, <1>3 DEF Places
<1>4. CASE o.kind \in {"claim", "recover"}
  BY <1>1, <1>4 DEF Places
<1>5. CASE o.kind = "requeue"
  BY <1>1, <1>5 DEF Places
<1>6. CASE o.kind = "prune"
  BY <1>1, <1>6 DEF Places
<1>7. CASE o.kind = "delete"
  BY <1>1, <1>7 DEF Places
<1>8. CASE o.kind = "block"
  BY <1>1, <1>8 DEF Places
<1>9. CASE o.kind = "clear"
  BY <1>1, <1>9 DEF Places
<1>10. CASE o.kind = "initialize"
  BY <1>1, <1>10 DEF Places
<1>11. o.kind \in {"enqueue", "write", "claim", "recover", "requeue", "prune", "delete",
                   "block", "clear", "initialize"}
  BY <1>1 DEF Places
<1> QED
  BY <1>2, <1>3, <1>4, <1>5, <1>6, <1>7, <1>8, <1>9, <1>10, <1>11
-------------------------------------------------------------------------------
(* Steps that leave items, indexes, barrier and tombstones as they are *)

Unmoved == UNCHANGED <<item, index, barrier, blocked, cutoff>>

LEMMA UnmovedHolds ==
    ASSUME NEW o, Unmoved, OpHolds(o)
    PROVE  OpHolds(o)'
<1>1. OpTyped(o)'
  BY DEF Unmoved, OpHolds, OpTyped
<1>2. Enqueuing(o)'
  BY DEF Unmoved, OpHolds, Enqueuing, Publishing, Valid, Contract!Refused
<1>3. WritingOne(o)'
  BY DEF Unmoved, OpHolds, WritingOne, Claims, Settles, Contract!Claimable,
     Contract!ActiveClaim, Contract!InState, Contract!Published
<1>4. Recovering(o)' /\ Requeuing(o)'
  BY DEF Unmoved, OpHolds, Recovering, Requeuing, Contract!ExpiredClaims, Contract!InState,
     Contract!Published
<1>5. Pruning(o)'
  BY DEF Unmoved, OpHolds, Pruning, Contract!OldAcknowledged, Contract!InState,
     Contract!Published
<1>6. Deleting(o)'
  BY DEF Unmoved, OpHolds, Deleting, Contract!Matching, Contract!Published
<1>7. Initializing(o)' /\ Emptied(o)'
  BY DEF Unmoved, OpHolds, Initializing, Emptied, Published, Contract!Published
<1> QED
  BY <1>1, <1>2, <1>3, <1>4, <1>5, <1>6, <1>7 DEF OpHolds

\* It is enough that the operation goes on in the state as it was.
LEMMA UnmovedStep ==
    ASSUME IInv, Unmoved,
           op' = None \/ op' = op \/ \E o : o = op' /\ OpHolds(o)
    PROVE  IInv'
<1>1. FilesTyped'
  BY DEF IInv, FilesTyped, Unmoved, IsItem
<1>2. ASSUME op' # None PROVE OpHolds(op)'
  <2>1. PICK o : o = op' /\ OpHolds(o)
    BY <1>2 DEF IInv
  <2>2. OpHolds(o)'
    BY <2>1, UnmovedHolds
  <2> QED
    BY <2>1, <2>2
<1> QED
  BY <1>1, <1>2 DEF IInv

\* The operation goes on to its next place, and what it relies on with it.
LEMMA GoesOn ==
    ASSUME NEW o, OpHolds(o), NEW x, NEW q, q = [o EXCEPT !.pc = x],
           \/ o.pc = "touchActive" /\ x = "rename"
           \/ o.pc = "touchAcked" /\ x = "dropActive"
           \/ o.pc = "dropActive" /\ o.kind \in {"claim", "recover"} /\ x = "scan"
           \/ o.pc \in {"dropActive", "touchLive"} /\ o.kind = "initialize" /\ x = "claimIndex"
           \/ o.pc = "unlinkActive" /\ x \in {"unlinkAcked", "unlinkOwned"}
           \/ o.pc = "unlinkAcked" /\ x = "unlinkOwned"
           \/ o.pc \in {"touchActive", "rename"} /\ o.kind = "enqueue" /\ x = "unlinkOwned"
    PROVE  OpHolds(q)
<1>1. OpTyped(o) /\ Form(o)
  BY DEF OpHolds, OpTyped
<1>2. /\ Form(q) /\ q.proc = o.proc /\ q.kind = o.kind /\ q.pc = x
      /\ q.id = o.id /\ q.new = o.new /\ q.todo = o.todo /\ q.hits = o.hits
      /\ q.keys = o.keys
  BY <1>1, Going
<1>3. OpTyped(q)
  BY <1>1, <1>2, KindsAt DEF OpTyped, Places
<1>4. Enqueuing(q)
  <2>1. ASSUME NEW k \in Keys, Publishing(o, k), o.kind = "enqueue" PROVE Publishing(q, k)
    BY <1>1, <1>2, <2>1, KindsAt DEF Publishing
  <2> QED
    BY <1>2, <2>1 DEF Enqueuing, OpHolds
<1>5. WritingOne(q)
  BY <1>1, <1>2, KindsAt DEF OpHolds, WritingOne, Claims, Settles
<1>6. Recovering(q)
  BY <1>1, <1>2, KindsAt DEF OpHolds, Recovering
<1>7. Requeuing(q)
  BY <1>1, <1>2, KindsAt DEF OpHolds, Requeuing
<1>8. Pruning(q)
  BY <1>1, <1>2, KindsAt DEF OpHolds, Pruning
<1>9. Deleting(q)
  BY <1>1, <1>2, KindsAt DEF OpHolds, Deleting
<1>10. Initializing(q)
  BY <1>1, <1>2, KindsAt DEF OpHolds, Initializing
<1>11. Emptied(q)
  <2>1. CASE x # "unlinkOwned"
    BY <1>1, <1>2, <2>1, KindsAt DEF OpHolds, Emptied
  <2>2. CASE o.pc \in {"unlinkActive", "unlinkAcked"}
    BY <1>2, <2>2 DEF OpHolds, Emptied
  <2>3. CASE o.kind = "enqueue"
    <3>1. PICK k \in Keys : Publishing(o, k)
      BY <2>3 DEF OpHolds, Enqueuing
    <3> QED
      BY <1>2, <3>1, PendingIsItem DEF Publishing, Emptied
  <2> QED
    BY <2>1, <2>2, <2>3
<1> QED
  BY <1>3, <1>4, <1>5, <1>6, <1>7, <1>8, <1>9, <1>10, <1>11 DEF OpHolds

\* Between two items of a bulk operation, and after the last one.
LEMMA NextOne ==
    ASSUME NEW o, OpHolds(o), NEW x, NEW q, q = [o EXCEPT !.pc = x],
           \/ /\ o.kind \in {"prune", "delete"} /\ o.pc = "unlinkOwned"
           \/ /\ o.kind = "initialize" /\ o.pc = "claimIndex"
           \/ /\ o.kind = "delete" /\ o.pc = "tombstone"
              /\ \A i \in o.todo : item[i].key \in blocked,
           \/ x = "next"
           \/ x = "finish" /\ o.todo = {} /\ o.kind \in {"delete", "initialize"}
    PROVE  OpHolds(q)
<1>1. OpTyped(o) /\ Form(o)
  BY DEF OpHolds, OpTyped
<1>2. /\ Form(q) /\ q.proc = o.proc /\ q.kind = o.kind /\ q.pc = x
      /\ q.id = o.id /\ q.new = o.new /\ q.todo = o.todo /\ q.hits = o.hits
      /\ q.keys = o.keys
  BY <1>1, Going
<1>3. OpTyped(q)
  BY <1>1, <1>2 DEF OpTyped, Places
<1>4. Pruning(q)
  BY <1>2 DEF OpHolds, Pruning
<1>5. Deleting(q)
  BY <1>2 DEF OpHolds, Deleting
<1>6. Initializing(q)
  BY <1>2 DEF OpHolds, Initializing
<1> QED
  BY <1>2, <1>3, <1>4, <1>5, <1>6 DEF OpHolds, Enqueuing, WritingOne, Recovering,
     Requeuing, Emptied

LEMMA TouchActiveKeeps == ASSUME IInv, TouchActive PROVE IInv'
<1>1. op # None /\ op.pc = "touchActive" /\ OpHolds(op) /\ Unmoved
  BY DEF IInv, TouchActive, At, Unmoved, marks
<1>2. op' = [op EXCEPT !.pc = "rename"]
  BY DEF TouchActive, Go
<1> QED
  BY <1>1, <1>2, GoesOn, UnmovedStep

LEMMA TouchAcknowledgedKeeps == ASSUME IInv, TouchAcknowledged PROVE IInv'
<1>1. op # None /\ op.pc = "touchAcked" /\ OpHolds(op) /\ Unmoved
  BY DEF IInv, TouchAcknowledged, At, Unmoved, marks
<1>2. op' = [op EXCEPT !.pc = "dropActive"]
  BY DEF TouchAcknowledged, Go
<1> QED
  BY <1>1, <1>2, GoesOn, UnmovedStep

LEMMA TouchLiveKeeps == ASSUME IInv, TouchLive PROVE IInv'
<1>1. op # None /\ op.pc = "touchLive" /\ OpHolds(op) /\ OpTyped(op) /\ Unmoved
  BY DEF IInv, TouchLive, At, Unmoved, marks, OpHolds
<1>2. op' = [op EXCEPT !.pc = "claimIndex"] /\ op.kind = "initialize"
  BY <1>1, KindsAt DEF TouchLive, Go
<1> QED
  BY <1>1, <1>2, GoesOn, UnmovedStep

LEMMA DropActiveKeeps == ASSUME IInv, DropActive PROVE IInv'
<1>1. op # None /\ op.pc = "dropActive" /\ OpHolds(op) /\ OpTyped(op) /\ Unmoved
  BY DEF IInv, DropActive, At, Unmoved, marks, OpHolds
<1>2. op.kind \in {"write", "claim", "recover", "initialize"}
  BY <1>1, KindsAt
<1>3. CASE op.kind \in {"claim", "recover"}
  <2>1. op' = [op EXCEPT !.pc = "scan"]
    BY <1>3 DEF DropActive, Go
  <2> QED
    BY <1>1, <1>3, <2>1, GoesOn, UnmovedStep
<1>4. CASE op.kind = "initialize"
  <2>1. op' = [op EXCEPT !.pc = "claimIndex"]
    BY <1>4 DEF DropActive, Go
  <2> QED
    BY <1>1, <1>4, <2>1, GoesOn, UnmovedStep
<1>5. CASE op.kind = "write"
  <2>1. op.todo = {} /\ Continue
    BY <1>1, <1>5 DEF DropActive, OpTyped
  <2>2. op' = None
    BY <1>5, <2>1 DEF Continue
  <2> QED
    BY <1>1, <2>2, UnmovedStep
<1> QED
  BY <1>2, <1>3, <1>4, <1>5

LEMMA UnlinkActiveKeeps == ASSUME IInv, UnlinkActive PROVE IInv'
<1>1. op # None /\ op.pc = "unlinkActive" /\ OpHolds(op) /\ Unmoved
  BY DEF IInv, UnlinkActive, At, Unmoved, marks
<1>2. PICK x \in {"unlinkAcked", "unlinkOwned"} : op' = [op EXCEPT !.pc = x]
  BY DEF UnlinkActive, Go
<1> QED
  BY <1>1, <1>2, GoesOn, UnmovedStep

LEMMA UnlinkAckedKeeps == ASSUME IInv, UnlinkAcked PROVE IInv'
<1>1. op # None /\ op.pc = "unlinkAcked" /\ OpHolds(op) /\ Unmoved
  BY DEF IInv, UnlinkAcked, At, Unmoved, marks
<1>2. op' = [op EXCEPT !.pc = "unlinkOwned"]
  BY DEF UnlinkAcked, Go
<1> QED
  BY <1>1, <1>2, GoesOn, UnmovedStep

LEMMA EndsQuietly ==
    ASSUME IInv, FinishInitialize \/ \E p \in Procs : Crash(p) PROVE IInv'
<1>1. Unmoved /\ (op' = None \/ op' = op)
  BY DEF FinishInitialize, Crash, Release, Unmoved, marks, disk
<1> QED
  BY <1>1, UnmovedStep

LEMMA WriteErrorKeeps == ASSUME IInv, WriteError PROVE IInv'
<1>1. op # None /\ OpHolds(op) /\ Unmoved
  BY DEF IInv, WriteError, Unmoved, marks, disk
<1>2. CASE op.kind = "enqueue" /\ op.pc \in {"touchActive", "rename"}
  <2>1. op' = [op EXCEPT !.pc = "unlinkOwned"]
    BY <1>2 DEF WriteError
  <2> QED
    BY <1>1, <1>2, <2>1, GoesOn, UnmovedStep
<1>3. CASE ~ (op.kind = "enqueue" /\ op.pc \in {"touchActive", "rename"})
  <2>1. op' = None
    BY <1>3 DEF WriteError
  <2> QED
    BY <1>1, <2>1, UnmovedStep
<1> QED
  BY <1>2, <1>3
-------------------------------------------------------------------------------
(* Operations that begin *)

LEMMA Starting ==
    ASSUME IInv, NEW p, NEW q, Start(p, q), OpHolds(q)
    PROVE  IInv'
BY UnmovedStep DEF Start, Unmoved, disk, marks

LEMMA InitializeKeeps == ASSUME IInv, NEW p \in Procs, Initialize(p) PROVE IInv'
<1>1. PICK T \in {{}, Published}, x \in {"finish", "next"} :
        /\ Start(p, [Lease(p, "initialize") EXCEPT !.pc = x, !.todo = T])
        /\ x = "finish" => T = {}
  BY DEF Initialize
<1>2. PICK o : o = Lease(p, "initialize")
  OBVIOUS
<1>3. Form(o) /\ o.proc = p /\ o.kind = "initialize" /\ o.todo = {} /\ o.hits = {}
  BY <1>2, OpenLease
<1>4. PICK q : q = [o EXCEPT !.pc = x, !.todo = T]
  OBVIOUS
<1>5. /\ Form(q) /\ q.proc = p /\ q.kind = "initialize" /\ q.pc = x /\ q.todo = T
      /\ q.hits = {}
  BY <1>4, <1>3 DEF Form
<1>6. OpHolds(q)
  BY <1>1, <1>5 DEF OpHolds, OpTyped, Places, Enqueuing, WritingOne, Recovering,
     Requeuing, Pruning, Deleting, Initializing, Emptied
<1> QED
  BY <1>2, <1>1, <1>4, <1>6, Starting

LEMMA BeginEnqueueKeeps ==
    ASSUME IInv, NEW p \in Procs, NEW i \in Ids, NEW k \in Keys, BeginEnqueue(p, i, k)
    PROVE  IInv'
<1> DEFINE o == [Lease(p, "enqueue") EXCEPT !.keys = {k}]
<1>1. PICK q : Start(p, q) /\ q = IF Valid(k)
                    THEN Writing(o, i, Contract!Pending(k))
                    ELSE [o EXCEPT !.id = i, !.new = Contract!Pending(k),
                                   !.pc = IF index[k] = None THEN "linkIndex"
                                          ELSE "unlinkIndex"]
  BY DEF BeginEnqueue
<1>2. /\ Form(o) /\ o.proc = p /\ o.kind = "enqueue" /\ o.todo = {} /\ o.hits = {}
      /\ o.keys = {k}
  BY OpenLease, ForKeys
<1>3. /\ Form(q) /\ q.proc = p /\ q.kind = "enqueue" /\ q.todo = {} /\ q.hits = {}
      /\ q.keys = {k} /\ q.id = i /\ q.new = Contract!Pending(k)
      /\ \/ Valid(k) /\ q.pc \in {"touchActive", "rename"}
         \/ ~ Valid(k) /\ q.pc \in {"linkIndex", "unlinkIndex"}
  <2>1. CASE Valid(k)
    <3>1. q = Writing(o, i, Contract!Pending(k))
      BY <1>1, <2>1
    <3> HIDE DEF o
    <3> QED
      BY <1>2, <2>1, <3>1, BeginningToWrite
  <2>2. CASE ~ Valid(k)
    <3>1. PICK x \in {"linkIndex", "unlinkIndex"} :
            q = [o EXCEPT !.id = i, !.new = Contract!Pending(k), !.pc = x]
      BY <1>1, <2>2
    <3> HIDE DEF o
    <3> QED
      BY <1>2, <2>2, <3>1 DEF Form
  <2> QED
    BY <2>1, <2>2
<1>4. barrier = None /\ item[i] = None /\ ~ Contract!Refused(k)
  BY DEF BeginEnqueue
<1>5. OpTyped(q) /\ Enqueuing(q)
  <2>1. Publishing(q, k)
    BY <1>3, <1>4 DEF Publishing
  <2> QED
    BY <1>3, <1>4, <2>1 DEF OpTyped, Places, Enqueuing
<1>6. OpHolds(q)
  BY <1>3, <1>5 DEF OpHolds, WritingOne, Recovering, Requeuing, Pruning, Deleting,
     Initializing, Emptied
<1> QED
  BY <1>1, <1>6, Starting

LEMMA BeginClaimKeeps == ASSUME IInv, NEW p \in Procs, BeginClaim(p) PROVE IInv'
<1>1. PICK q : q = [Lease(p, "claim") EXCEPT !.pc = "scan"]
  OBVIOUS
<1>2. /\ Form(q) /\ q.proc = p /\ q.kind = "claim" /\ q.pc = "scan" /\ q.todo = {}
      /\ q.hits = {}
  BY <1>1, OpenLease, Going
<1>3. op' = q /\ Unmoved /\ barrier = None
  BY <1>1 DEF BeginClaim, Unmoved, disk, marks
<1>4. OpHolds(q)
  BY <1>2, <1>3 DEF OpHolds, OpTyped, Places, Enqueuing, WritingOne, Recovering,
     Requeuing, Pruning, Deleting, Initializing, Emptied
<1> QED
  BY <1>3, <1>4, UnmovedStep

LEMMA BeginRecoverKeeps == ASSUME IInv, NEW p \in Procs, BeginRecover(p) PROVE IInv'
<1>1. PICK o : o = Lease(p, "recover")
  OBVIOUS
<1>2. Form(o) /\ o.proc = p /\ o.kind = "recover" /\ o.todo = {} /\ o.hits = {}
  BY <1>1, OpenLease
<1>3. PICK q : q = [o EXCEPT !.pc = "scan", !.todo = active]
  OBVIOUS
<1>4. /\ Form(q) /\ q.proc = p /\ q.kind = "recover" /\ q.pc = "scan" /\ q.hits = {}
  BY <1>3, <1>2 DEF Form
<1>5. Start(p, q) /\ barrier = None
  BY <1>3, <1>1 DEF BeginRecover
<1>6. OpHolds(q)
  BY <1>4, <1>5 DEF OpHolds, OpTyped, Places, Enqueuing, WritingOne, Recovering,
     Requeuing, Pruning, Deleting, Initializing, Emptied
<1> QED
  BY <1>5, <1>6, Starting

LEMMA BeginPruneKeeps == ASSUME IInv, NEW p \in Procs, BeginPrune(p) PROVE IInv'
<1>1. PICK o : o = Lease(p, "prune")
  OBVIOUS
<1>2. Form(o) /\ o.proc = p /\ o.kind = "prune" /\ o.todo = {} /\ o.hits = {}
  BY <1>1, OpenLease
<1>3. PICK q : q = [o EXCEPT !.pc = "scan", !.todo = acked]
  OBVIOUS
<1>4. /\ Form(q) /\ q.proc = p /\ q.kind = "prune" /\ q.pc = "scan" /\ q.hits = {}
  BY <1>3, <1>2 DEF Form
<1>5. Start(p, q)
  BY <1>3, <1>1 DEF BeginPrune
<1>6. OpHolds(q)
  BY <1>4, <1>5 DEF OpHolds, OpTyped, Places, Enqueuing, WritingOne, Recovering,
     Requeuing, Pruning, Deleting, Initializing, Emptied
<1> QED
  BY <1>5, <1>6, Starting

LEMMA BlockIdentitiesKeeps ==
    ASSUME IInv, NEW p \in Procs, NEW K \in SUBSET Keys, BlockIdentities(p, K)
    PROVE  IInv'
<1>1. PICK o : o = Lease(p, "block")
  OBVIOUS
<1>2. Form(o) /\ o.proc = p /\ o.kind = "block" /\ o.todo = {} /\ o.hits = {}
  BY <1>1, OpenLease
<1>3. PICK q : q = [o EXCEPT !.pc = "tombstone", !.keys = K]
  OBVIOUS
<1>4. /\ Form(q) /\ q.proc = p /\ q.kind = "block" /\ q.pc = "tombstone"
      /\ q.todo = {} /\ q.keys = K
  BY <1>3, <1>2 DEF Form
<1>5. Start(p, q) /\ barrier # None
  BY <1>3, <1>1 DEF BlockIdentities
<1>6. OpHolds(q)
  BY <1>4, <1>5 DEF OpHolds, OpTyped, Places, Enqueuing, WritingOne, Recovering,
     Requeuing, Pruning, Deleting, Initializing, Emptied
<1> QED
  BY <1>5, <1>6, Starting

LEMMA BeginDeleteKeeps ==
    ASSUME IInv, NEW p \in Procs, NEW K \in SUBSET Keys, BeginDelete(p, K)
    PROVE  IInv'
<1>1. PICK o : o = Lease(p, "delete")
  OBVIOUS
<1>2. Form(o) /\ o.proc = p /\ o.kind = "delete" /\ o.todo = {} /\ o.hits = {}
  BY <1>1, OpenLease
<1>3. PICK q : q = [o EXCEPT !.pc = "tombstone", !.keys = K,
                                              !.todo = Contract!Matching(K)]
  OBVIOUS
<1>4. /\ Form(q) /\ q.proc = p /\ q.kind = "delete" /\ q.pc = "tombstone"
      /\ q.todo = Contract!Matching(K) /\ q.keys = K
  BY <1>3, <1>2 DEF Form
<1>5. Start(p, q) /\ barrier # None
  BY <1>3, <1>1 DEF BeginDelete
<1>6. Deleting(q)
  BY <1>4 DEF Deleting
<1>7. OpHolds(q)
  BY <1>4, <1>5, <1>6 DEF OpHolds, OpTyped, Places, Enqueuing, WritingOne, Recovering,
     Requeuing, Pruning, Initializing, Emptied
<1> QED
  BY <1>5, <1>7, Starting

LEMMA BeginSettleKeeps ==
    ASSUME IInv, NEW p \in Procs, NEW i \in Ids, BeginSettle(p, i)
    PROVE  IInv'
<1> DEFINE News == {Contract!Settled(item[i], "acknowledged"),
                    Contract!Settled(item[i], "dead-letter"),
                    Contract!Retried(item[i], TRUE),
                    Contract!Retried(item[i], FALSE)}
<1>1. Contract!ActiveClaim(i, p, item[i].attempts)
  BY DEF BeginSettle
<1>2. PICK new \in News : Start(p, Writing(Lease(p, "write"), i, new))
  BY DEF BeginSettle
<1>3. PICK q : q = Writing(Lease(p, "write"), i, new)
  OBVIOUS
<1>4. /\ Form(q) /\ q.proc = p /\ q.kind = "write" /\ q.pc \in {"touchActive", "rename"}
      /\ q.id = i /\ q.new = new /\ q.todo = {}
  BY <1>3, OpenLease, BeginningToWrite
<1>5. Settles(q)
  BY <1>1, <1>2, <1>4 DEF Settles
<1>6. WritingOne(q)
  BY <1>5 DEF WritingOne
<1>7. OpHolds(q)
  BY <1>4, <1>6 DEF OpHolds, OpTyped, Places, Enqueuing, Recovering,
     Requeuing, Pruning, Deleting, Initializing, Emptied
<1> QED
  BY <1>2, <1>3, <1>7, Starting

LEMMA BeginClearKeeps ==
    ASSUME IInv, NEW p \in Procs, NEW C \in SUBSET Keys, BeginClear(p, C)
    PROVE  IInv'
<1>1. PICK q : q = [Lease(p, "clear") EXCEPT !.pc = "wipe"]
  OBVIOUS
<1>2. Form(q) /\ q.proc = p /\ q.kind = "clear" /\ q.pc = "wipe"
  BY <1>1, OpenLease, Going
<1>3. /\ op' = q /\ cutoff' = C /\ barrier # None
      /\ UNCHANGED <<item, index, barrier, blocked>>
  BY <1>1 DEF BeginClear, disk
<1>4. OpHolds(q)'
  BY <1>2, <1>3 DEF OpHolds, OpTyped, Places, Enqueuing, WritingOne, Recovering,
     Requeuing, Pruning, Deleting, Initializing, Emptied
<1>5. FilesTyped'
  BY <1>3 DEF IInv, FilesTyped, IsItem
<1> QED
  BY <1>3, <1>4, <1>5 DEF IInv

LEMMA BarrierKeeps ==
    ASSUME IInv, NEW p, NEW d, BeginBarrier(p, d) \/ EndBarrier(p, d)
    PROVE  IInv'
<1>1. op' = None /\ UNCHANGED <<item, index, blocked, cutoff>>
  BY DEF BeginBarrier, EndBarrier, disk
<1> QED
  BY <1>1 DEF IInv, FilesTyped, IsItem
-------------------------------------------------------------------------------
(* Scans, and the items of bulk operations *)

\* A claim and a recovery go on past a name they do not take, and put a
\* settled item's name where it belongs before they go on.
LEMMA ScansOn ==
    ASSUME NEW o, OpHolds(o), o.pc = "scan", o.kind \in {"claim", "recover"},
           NEW q, Form(q), q.proc = o.proc, q.kind = o.kind,
           q.pc \in {"scan", "touchAcked", "dropActive"}, q.todo \subseteq o.todo,
           \/ q.hits = o.hits
           \/ /\ o.kind = "recover"
              /\ q.hits \subseteq o.hits \cup Contract!ExpiredClaims
    PROVE  OpHolds(q)
<1>1. OpTyped(q)
  BY DEF OpHolds, OpTyped, Places
<1>2. Recovering(q)
  BY DEF OpHolds, Recovering
<1> QED
  BY <1>1, <1>2 DEF OpHolds, Enqueuing, WritingOne, Requeuing, Pruning, Deleting,
     Initializing, Emptied

LEMMA MeetActiveKeeps ==
    ASSUME IInv, op # None, op.pc = "scan", op.kind \in {"claim", "recover"},
           NEW n, NEW found, MeetActive(n, found), OpHolds(found), Unmoved
    PROVE  IInv'
<1>0. OpHolds(op) /\ Form(op)
  BY DEF IInv, OpHolds, OpTyped
<1>1. CASE item[n] = None
  <2>1. op' = [op EXCEPT !.todo = op.todo \ {n}]
    BY <1>1 DEF MeetActive
  <2>2. PICK q : q = op'
    OBVIOUS
  <2>3. /\ Form(q) /\ q.proc = op.proc /\ q.kind = op.kind /\ q.pc = op.pc
        /\ q.todo = op.todo \ {n} /\ q.hits = op.hits
    BY <1>0, <2>1, <2>2 DEF Form
  <2>4. OpHolds(q)
    BY <1>0, <2>3, ScansOn
  <2> QED
    BY <2>2, <2>4, UnmovedStep
<1>2. CASE item[n] # None /\ item[n].state \in Terminal
  <2>1. PICK x \in {"touchAcked", "dropActive"} :
          op' = [op EXCEPT !.todo = op.todo \ {n}, !.id = n, !.pc = x]
    BY <1>2 DEF MeetActive
  <2>2. PICK q : q = op'
    OBVIOUS
  <2>3. /\ Form(q) /\ q.proc = op.proc /\ q.kind = op.kind /\ q.pc = x
        /\ q.todo = op.todo \ {n} /\ q.hits = op.hits
    BY <1>0, <2>1, <2>2 DEF Form
  <2>4. OpHolds(q)
    BY <1>0, <2>3, ScansOn
  <2> QED
    BY <2>2, <2>4, UnmovedStep
<1>3. CASE item[n] # None /\ item[n].state \notin Terminal
  <2>1. op' = found
    BY <1>3 DEF MeetActive
  <2> QED
    BY <2>1, UnmovedStep
<1> QED
  BY <1>1, <1>2, <1>3

LEMMA ScanClaimKeeps == ASSUME IInv, ScanClaim PROVE IInv'
<1>1. op # None /\ op.pc = "scan" /\ op.kind = "claim" /\ OpHolds(op) /\ OpTyped(op)
  BY DEF ScanClaim, At, IInv, OpHolds
<1>2. Unmoved
  BY DEF ScanClaim, Unmoved, marks
<1>3. PICK n : MeetActive(n,
                IF n \in Contract!Claimable /\ item[n].attempts < MaxClaims
                THEN Writing([op EXCEPT !.kind = "write"], n,
                             Contract!Claimed(item[n], op.proc))
                ELSE op)
  BY DEF ScanClaim
<1>4. CASE n \in Contract!Claimable /\ item[n].attempts < MaxClaims
  <2>1. PICK o : o = [op EXCEPT !.kind = "write"]
    OBVIOUS
  <2>2. /\ Form(o) /\ o.proc = op.proc /\ o.kind = "write" /\ o.todo = op.todo
    BY <1>1, <2>1 DEF OpTyped, Form
  <2>3. PICK q : q = Writing(o, n, Contract!Claimed(item[n], op.proc))
    OBVIOUS
  <2>4. /\ Form(q) /\ q.proc = op.proc /\ q.kind = "write"
        /\ q.pc \in {"touchActive", "rename"}
        /\ q.id = n /\ q.new = Contract!Claimed(item[n], op.proc) /\ q.todo = op.todo
    BY <2>2, <2>3, BeginningToWrite
  <2>5. op.proc \in Procs /\ op.todo = {} /\ barrier = None
    BY <1>1 DEF OpTyped
  <2>6. Claims(q)
    BY <1>4, <2>4, <2>5 DEF Claims
  <2>7. OpHolds(q)
    BY <2>4, <2>5, <2>6 DEF OpHolds, OpTyped, Places, Enqueuing, WritingOne, Recovering,
       Requeuing, Pruning, Deleting, Initializing, Emptied
  <2>8. MeetActive(n, q)
    BY <1>3, <1>4, <2>1, <2>3
  <2> QED
    BY <1>1, <1>2, <2>7, <2>8, MeetActiveKeeps
<1>5. CASE ~ (n \in Contract!Claimable /\ item[n].attempts < MaxClaims)
  <2>1. MeetActive(n, op)
    BY <1>3, <1>5
  <2> QED
    BY <1>1, <1>2, <2>1, MeetActiveKeeps
<1> QED
  BY <1>4, <1>5

LEMMA ScanRecoverKeeps == ASSUME IInv, ScanRecover PROVE IInv'
<1>1. op # None /\ op.pc = "scan" /\ op.kind = "recover" /\ OpHolds(op) /\ Form(op)
  BY DEF ScanRecover, At, IInv, OpHolds, OpTyped
<1>2. Unmoved
  BY DEF ScanRecover, Unmoved, marks
<1>3. PICK n : MeetActive(n, [op EXCEPT !.todo = @ \ {n},
                                !.hits = @ \cup ({n} \cap Contract!ExpiredClaims)])
  BY DEF ScanRecover
<1>4. PICK q : q = [op EXCEPT !.todo = op.todo \ {n},
                              !.hits = op.hits \cup ({n} \cap Contract!ExpiredClaims)]
  OBVIOUS
<1>5. /\ Form(q) /\ q.proc = op.proc /\ q.kind = op.kind /\ q.pc = op.pc
      /\ q.todo = op.todo \ {n}
      /\ q.hits = op.hits \cup ({n} \cap Contract!ExpiredClaims)
  BY <1>1, <1>4 DEF Form
<1>6. OpHolds(q)
  BY <1>1, <1>5, ScansOn
<1>7. MeetActive(n, q)
  BY <1>3, <1>4
<1> QED
  BY <1>1, <1>2, <1>6, <1>7, MeetActiveKeeps

LEMMA ScanPruneKeeps == ASSUME IInv, ScanPrune PROVE IInv'
<1>1. op # None /\ op.pc = "scan" /\ op.kind = "prune" /\ OpHolds(op) /\ Form(op)
  BY DEF ScanPrune, At, IInv, OpHolds, OpTyped
<1>2. Unmoved
  BY DEF ScanPrune, Unmoved, marks
<1>3. PICK n : op' = [op EXCEPT !.todo = op.todo \ {n},
                                !.hits = op.hits \cup ({n} \cap Contract!OldAcknowledged)]
  BY DEF ScanPrune
<1>4. PICK q : q = op'
  OBVIOUS
<1>5. /\ Form(q) /\ q.proc = op.proc /\ q.kind = op.kind /\ q.pc = op.pc
      /\ q.todo = op.todo \ {n}
      /\ q.hits = op.hits \cup ({n} \cap Contract!OldAcknowledged)
  BY <1>1, <1>3, <1>4 DEF Form
<1>6. OpHolds(q)
  BY <1>1, <1>5 DEF OpHolds, OpTyped, Enqueuing, WritingOne, Recovering, Requeuing,
     Pruning, Deleting, Initializing, Emptied
<1> QED
  BY <1>2, <1>4, <1>6, UnmovedStep

LEMMA ScanDoneKeeps == ASSUME IInv, ScanDone PROVE IInv'
<1>1. op # None /\ op.pc = "scan" /\ OpHolds(op) /\ OpTyped(op) /\ Form(op)
  BY DEF ScanDone, At, IInv, OpHolds, OpTyped
<1>2. Unmoved
  BY DEF ScanDone, Unmoved, marks, disk
<1>3. CASE op.hits = {}
  <2>1. op' = None
    BY <1>3 DEF ScanDone
  <2> QED
    BY <1>2, <2>1, UnmovedStep
<1>4. CASE op.hits # {}
  <2>1. op.kind \in {"recover", "prune"} /\ op.todo = {}
    BY <1>1, <1>4, KindsAt DEF OpTyped, ScanDone
  <2>2. PICK kind : kind = IF op.kind = "recover" THEN "requeue" ELSE op.kind
    OBVIOUS
  <2>3. op' = [op EXCEPT !.todo = op.todo \cup op.hits, !.hits = {}, !.kind = kind,
                         !.pc = "next"]
    BY <1>4, <2>2 DEF ScanDone
  <2>4. PICK q : q = op'
    OBVIOUS
  <2>5. /\ Form(q) /\ q.proc = op.proc /\ q.kind = kind /\ q.pc = "next"
        /\ q.todo = op.hits /\ q.hits = {}
    BY <1>1, <2>1, <2>3, <2>4 DEF Form
  <2>6. OpTyped(q)
    BY <1>1, <2>1, <2>2, <2>5 DEF OpTyped, Places
  <2>7. Requeuing(q)
    BY <1>1, <2>1, <2>2, <2>5 DEF OpHolds, Recovering, Requeuing
  <2>8. Pruning(q)
    BY <1>1, <2>1, <2>2, <2>5 DEF OpHolds, Pruning
  <2>9. OpHolds(q)
    BY <2>1, <2>2, <2>5, <2>6, <2>7, <2>8 DEF OpHolds, Enqueuing, WritingOne, Recovering,
       Deleting, Initializing, Emptied
  <2> QED
    BY <1>2, <2>4, <2>9, UnmovedStep
<1> QED
  BY <1>3, <1>4

LEMMA NextItemKeeps == ASSUME IInv, NextItem PROVE IInv'
<1>1. op # None /\ op.pc = "next" /\ OpHolds(op) /\ OpTyped(op) /\ Form(op)
  BY DEF NextItem, At, IInv, OpHolds, OpTyped
<1>2. Unmoved
  BY DEF NextItem, Unmoved, marks, disk
<1>3. op.kind \in {"requeue", "prune", "delete", "initialize"}
  BY <1>1, KindsAt
<1>4. PICK i \in op.todo :
          op' = CASE op.kind = "requeue" ->
                        Writing(Next1(i), i, Contract!Retried(item[i], FALSE))
                  [] op.kind = "initialize" ->
                        [Next1(i) EXCEPT !.pc =
                            IF item[i].state = "acknowledged" THEN "touchAcked"
                            ELSE IF item[i].state = "dead-letter" THEN "dropActive"
                            ELSE "touchLive"]
                  [] OTHER -> [Next1(i) EXCEPT !.pc = "unlinkItem"]
  BY DEF NextItem
<1>5. PICK o : o = [op EXCEPT !.todo = op.todo \ {i}, !.id = i]
  OBVIOUS
<1>6. /\ Next1(i) = o
      /\ Form(o) /\ o.proc = op.proc /\ o.kind = op.kind /\ o.pc = op.pc /\ o.id = i
      /\ o.todo = op.todo \ {i} /\ o.keys = op.keys /\ o.hits = op.hits
  BY <1>1, <1>5 DEF Next1, Form
<1>7. PICK q : q = op'
  OBVIOUS
<1>8. CASE op.kind = "requeue"
  <2>0. PICK new : new = Contract!Retried(item[i], FALSE)
    OBVIOUS
  <2>1. q = Writing(o, i, new)
    BY <1>4, <1>6, <1>7, <1>8, <2>0
  <2>2. /\ Form(q) /\ q.proc = op.proc /\ q.kind = "requeue"
        /\ q.pc \in {"touchActive", "rename"}
        /\ q.id = i /\ q.new = new /\ q.todo = op.todo \ {i}
    BY <1>6, <1>8, <2>1, BeginningToWrite
  <2>3. Requeuing(q)
    BY <1>1, <1>4, <1>8, <2>0, <2>2 DEF OpHolds, Requeuing
  <2>4. OpTyped(q)
    BY <1>1, <1>8, <2>2 DEF OpTyped, Places
  <2>5. OpHolds(q)
    BY <2>2, <2>3, <2>4 DEF OpHolds, Enqueuing, WritingOne, Recovering, Pruning,
       Deleting, Initializing, Emptied
  <2> QED
    BY <1>2, <1>7, <2>5, UnmovedStep
<1>9. CASE op.kind = "initialize"
  <2>1. PICK x \in {"touchAcked", "dropActive", "touchLive"} : q = [o EXCEPT !.pc = x]
    BY <1>4, <1>6, <1>7, <1>9
  <2>2. /\ Form(q) /\ q.proc = op.proc /\ q.kind = "initialize" /\ q.pc = x
        /\ q.id = i /\ q.todo = op.todo \ {i}
    BY <1>6, <1>9, <2>1, Going
  <2>3. Initializing(q)
    BY <1>1, <1>4, <1>9, <2>2 DEF OpHolds, Initializing
  <2>4. OpTyped(q)
    BY <1>1, <2>2 DEF OpTyped, Places
  <2>5. OpHolds(q)
    BY <2>2, <2>3, <2>4 DEF OpHolds, Enqueuing, WritingOne, Recovering, Requeuing,
       Pruning, Deleting, Emptied
  <2> QED
    BY <1>2, <1>7, <2>5, UnmovedStep
<1>10. CASE op.kind \in {"prune", "delete"}
  <2>1. q = [o EXCEPT !.pc = "unlinkItem"]
    BY <1>4, <1>6, <1>7, <1>10
  <2>2. /\ Form(q) /\ q.proc = op.proc /\ q.kind = op.kind /\ q.pc = "unlinkItem"
        /\ q.id = i /\ q.todo = op.todo \ {i} /\ q.keys = op.keys
    BY <1>6, <2>1, Going
  <2>3. Pruning(q)
    BY <1>1, <1>4, <2>2 DEF OpHolds, Pruning
  <2>4. Deleting(q)
    <3>1. CASE op.kind = "delete"
      <4>1. /\ Contract!Matching(op.keys) = op.todo
            /\ \A j \in op.todo : item[j].key \in blocked
        BY <1>1, <3>1 DEF OpHolds, Deleting
      <4> QED
        BY <1>4, <2>2, <4>1 DEF Deleting
    <3>2. CASE op.kind # "delete"
      BY <2>2, <3>2 DEF Deleting
    <3> QED
      BY <3>1, <3>2
  <2>5. OpTyped(q)
    BY <1>1, <1>10, <2>2 DEF OpTyped, Places
  <2>6. OpHolds(q)
    BY <1>10, <2>2, <2>3, <2>4, <2>5 DEF OpHolds, Enqueuing, WritingOne, Recovering,
       Requeuing, Initializing, Emptied
  <2> QED
    BY <1>2, <1>7, <2>6, UnmovedStep
<1> QED
  BY <1>3, <1>8, <1>9, <1>10
-------------------------------------------------------------------------------
(* Steps that move an index, an item or a tombstone *)

\* An operation that publishes nothing does not rely on the indexes, and more
\* tombstones are no harm to it.
LEMMA IndexMoveHolds ==
    ASSUME NEW o, OpHolds(o), o.kind # "enqueue", UNCHANGED <<item, barrier>>,
           blocked \subseteq blocked'
    PROVE  OpHolds(o)'
<1>1. OpTyped(o)'
  BY DEF OpHolds, OpTyped
<1>2. Enqueuing(o)'
  BY DEF OpHolds, Enqueuing
<1>3. WritingOne(o)'
  BY DEF OpHolds, WritingOne, Claims, Settles, Contract!Claimable,
     Contract!ActiveClaim, Contract!InState, Contract!Published
<1>4. Recovering(o)' /\ Requeuing(o)'
  BY DEF OpHolds, Recovering, Requeuing, Contract!ExpiredClaims, Contract!InState,
     Contract!Published
<1>5. Pruning(o)'
  BY DEF OpHolds, Pruning, Contract!OldAcknowledged, Contract!InState,
     Contract!Published
<1>6. Deleting(o)'
  BY DEF OpHolds, Deleting, Contract!Matching, Contract!Published
<1>7. Initializing(o)' /\ Emptied(o)'
  BY DEF OpHolds, Initializing, Emptied, Published, Contract!Published
<1> QED
  BY <1>1, <1>2, <1>3, <1>4, <1>5, <1>6, <1>7 DEF OpHolds

\* What the end of an item amounts to.
LEMMA Continues ==
    ASSUME NEW o, OpHolds(o), o = op, Continue,
           \/ /\ o.kind \in {"prune", "delete"} /\ o.pc = "unlinkOwned"
           \/ /\ o.kind = "initialize" /\ o.pc = "claimIndex"
           \/ /\ o.kind = "delete" /\ o.pc = "tombstone"
              /\ \A i \in o.todo : item[i].key \in blocked
    PROVE  op' = None \/ \E q : q = op' /\ OpHolds(q) /\ q.kind = o.kind
<1>0. Form(o) /\ o.kind \in {"prune", "delete", "initialize"}
  BY DEF OpHolds, OpTyped
<1>1. CASE o.todo # {}
  <2>1. PICK q : q = op' /\ q = [o EXCEPT !.pc = "next"]
    BY <1>1 DEF Continue
  <2>2. OpHolds(q) /\ q.kind = o.kind
    BY <1>0, <2>1, Going, NextOne
  <2> QED
    BY <2>1, <2>2
<1>2. CASE o.todo = {} /\ o.kind \in {"delete", "initialize"}
  <2>1. PICK q : q = op' /\ q = [o EXCEPT !.pc = "finish"]
    BY <1>2 DEF Continue
  <2>2. OpHolds(q) /\ q.kind = o.kind
    BY <1>0, <1>2, <2>1, Going, NextOne
  <2> QED
    BY <2>1, <2>2
<1>3. CASE o.todo = {} /\ o.kind = "prune"
  BY <1>3 DEF Continue
<1> QED
  BY <1>0, <1>1, <1>2, <1>3

LEMMA IndexTyped ==
    ASSUME FilesTyped, UNCHANGED <<item, blocked, cutoff>>,
           NEW k, NEW v, v = None \/ v \in Ids,
           index' = [index EXCEPT ![k] = v]
    PROVE  FilesTyped'
BY DEF FilesTyped, IsItem

LEMMA UnlinkStaleIndexKeeps == ASSUME IInv, UnlinkStaleIndex PROVE IInv'
<1>1. op # None /\ op.pc = "unlinkIndex" /\ OpHolds(op) /\ OpTyped(op) /\ Form(op)
  BY DEF UnlinkStaleIndex, At, IInv, OpHolds, OpTyped
<1>2. op.kind = "enqueue"
  BY <1>1, KindsAt
<1>3. PICK k \in Keys : Publishing(op, k)
  BY <1>1, <1>2 DEF OpHolds, Enqueuing
<1>4. index' = [index EXCEPT ![k] = None] /\ UNCHANGED <<item, barrier, blocked, cutoff>>
  BY <1>3 DEF UnlinkStaleIndex, Publishing, marks
<1>5. PICK q : q = op'
  OBVIOUS
<1>6. q = [op EXCEPT !.pc = "linkIndex"]
  BY <1>5 DEF UnlinkStaleIndex, Go
<1>7. /\ Form(q) /\ q.proc = op.proc /\ q.kind = "enqueue" /\ q.pc = "linkIndex"
      /\ q.id = op.id /\ q.new = op.new /\ q.todo = op.todo /\ q.hits = op.hits
      /\ q.keys = op.keys
  BY <1>1, <1>2, <1>6, Going
<1>8. FilesTyped'
  BY <1>4, IndexTyped DEF IInv
<1>9. index'[k] = None
  BY <1>4 DEF IInv, FilesTyped
<1>10. Publishing(q, k)'
  BY <1>3, <1>4, <1>7, <1>9 DEF Publishing, Valid, Contract!Refused
<1>11. OpTyped(q)'
  BY <1>1, <1>2, <1>4, <1>7 DEF OpTyped, Places
<1>12. OpHolds(q)'
  BY <1>7, <1>10, <1>11 DEF OpHolds, Enqueuing, WritingOne, Recovering, Requeuing,
     Pruning, Deleting, Initializing, Emptied
<1> QED
  BY <1>5, <1>8, <1>12 DEF IInv

LEMMA LinkIndexKeeps == ASSUME IInv, LinkIndex PROVE IInv'
<1>1. op # None /\ op.pc = "linkIndex" /\ OpHolds(op) /\ OpTyped(op) /\ Form(op)
  BY DEF LinkIndex, At, IInv, OpHolds, OpTyped
<1>2. op.kind = "enqueue"
  BY <1>1, KindsAt
<1>3. PICK k \in Keys : Publishing(op, k)
  BY <1>1, <1>2 DEF OpHolds, Enqueuing
<1>4. index' = [index EXCEPT ![k] = op.id] /\ UNCHANGED <<item, barrier, blocked, cutoff>>
  BY <1>3 DEF LinkIndex, Publishing, marks
<1>5. PICK q : q = op'
  OBVIOUS
<1>6. q = Writing(op, op.id, op.new)
  BY <1>5 DEF LinkIndex
<1>7. /\ Form(q) /\ q.proc = op.proc /\ q.kind = "enqueue"
      /\ q.pc \in {"touchActive", "rename"}
      /\ q.id = op.id /\ q.new = op.new /\ q.todo = op.todo /\ q.hits = op.hits
      /\ q.keys = op.keys
  BY <1>1, <1>2, <1>6, BeginningToWrite
<1>8. FilesTyped'
  BY <1>3, <1>4, IndexTyped DEF IInv, Publishing
<1>9. index'[k] = op.id
  BY <1>4 DEF IInv, FilesTyped
<1>10. Publishing(q, k)'
  BY <1>3, <1>4, <1>7, <1>9 DEF Publishing, Contract!Refused
<1>11. OpTyped(q)'
  BY <1>1, <1>2, <1>4, <1>7 DEF OpTyped, Places
<1>12. OpHolds(q)'
  BY <1>7, <1>10, <1>11 DEF OpHolds, Enqueuing, WritingOne, Recovering, Requeuing,
     Pruning, Deleting, Initializing, Emptied
<1> QED
  BY <1>5, <1>8, <1>12 DEF IInv

\* The way of the operations whose index, or tombstone, has just moved.
LEMMA MovesOn ==
    ASSUME op' # None => \E q : q = op' /\ OpHolds(q) /\ q.kind # "enqueue",
           UNCHANGED <<item, barrier>>, blocked \subseteq blocked', FilesTyped'
    PROVE  IInv'
<1>1. ASSUME op' # None PROVE OpHolds(op)'
  <2>1. PICK q : q = op' /\ OpHolds(q) /\ q.kind # "enqueue"
    BY <1>1
  <2>2. OpHolds(q)'
    BY <2>1, IndexMoveHolds
  <2> QED
    BY <2>1, <2>2
<1> QED
  BY <1>1 DEF IInv

LEMMA UnlinkOwnedIndexKeeps == ASSUME IInv, UnlinkOwnedIndex PROVE IInv'
<1>1. op # None /\ op.pc = "unlinkOwned" /\ OpHolds(op) /\ OpTyped(op)
  BY DEF UnlinkOwnedIndex, At, IInv, OpHolds
<1>2. Continue /\ UNCHANGED <<item, barrier, blocked, cutoff>>
  BY DEF UnlinkOwnedIndex, marks
<1>3. FilesTyped'
  <2>1. index' = [index EXCEPT ![op.new.key] =
                    IF index[op.new.key] = op.id THEN None ELSE index[op.new.key]]
    BY DEF UnlinkOwnedIndex
  <2>2. op.new.key \in Keys
    BY <1>1 DEF OpHolds, Emptied
  <2> QED
    BY <1>2, <2>1, <2>2 DEF IInv, FilesTyped, IsItem
<1>4. op.kind \in {"enqueue", "prune", "delete"}
  BY <1>1, KindsAt
<1>5. CASE op.kind = "enqueue"
  <2>1. op' = None
    BY <1>1, <1>2, <1>5 DEF Continue, OpTyped
  <2> QED
    BY <1>3, <2>1 DEF IInv
<1>6. CASE op.kind \in {"prune", "delete"}
  <2>1. op' = None \/ \E q : q = op' /\ OpHolds(q) /\ q.kind = op.kind
    BY <1>1, <1>2, <1>6, Continues
  <2> QED
    BY <1>2, <1>3, <1>6, <2>1, MovesOn
<1> QED
  BY <1>4, <1>5, <1>6

LEMMA ClaimIndexKeeps == ASSUME IInv, ClaimIndex PROVE IInv'
<1>1. op # None /\ op.pc = "claimIndex" /\ OpHolds(op) /\ OpTyped(op)
  BY DEF ClaimIndex, At, IInv, OpHolds
<1>2. op.kind = "initialize"
  BY <1>1, KindsAt
<1>3. op.id \in Published /\ op.id \in Ids
  BY <1>1, <1>2 DEF OpHolds, Initializing, Published, Contract!Published
<1>4. UNCHANGED <<item, barrier, blocked, cutoff>>
  BY DEF ClaimIndex, marks
<1>5. FilesTyped'
  <2>1. \/ index' = index
        \/ index' = [index EXCEPT ![item[op.id].key] = None]
        \/ index' = [index EXCEPT ![item[op.id].key] = op.id]
    BY DEF ClaimIndex
  <2> QED
    BY <1>3, <1>4, <2>1 DEF IInv, FilesTyped, IsItem
<1>6. CASE UNCHANGED op
  BY <1>1, <1>2, <1>4, <1>5, <1>6, MovesOn
<1>7. CASE Continue
  <2>1. op' = None \/ \E q : q = op' /\ OpHolds(q) /\ q.kind = op.kind
    BY <1>1, <1>2, <1>7, Continues
  <2> QED
    BY <1>2, <1>4, <1>5, <2>1, MovesOn
<1> QED
  BY <1>6, <1>7 DEF ClaimIndex

LEMMA SweepIndexesKeeps == ASSUME IInv, SweepIndexes PROVE IInv'
<1>1. op # None /\ op.kind = "delete" /\ OpHolds(op)
  BY DEF SweepIndexes, At, IInv
<1>2. UNCHANGED <<item, barrier, blocked, cutoff>> /\ (op' = None \/ op' = op)
  BY DEF SweepIndexes, marks, Release
<1>3. FilesTyped'
  <2>1. index' = index \/ \E k \in Keys : index' = [index EXCEPT ![k] = None]
    BY DEF SweepIndexes
  <2> QED
    BY <1>2, <2>1 DEF IInv, FilesTyped, IsItem
<1> QED
  BY <1>1, <1>2, <1>3, MovesOn

LEMMA TombstoneKeeps == ASSUME IInv, Tombstone PROVE IInv'
<1> DEFINE all == IF op.kind = "block" THEN op.keys ELSE {item[i].key : i \in op.todo}
<1>1. op # None /\ op.pc = "tombstone" /\ OpHolds(op) /\ OpTyped(op)
  BY DEF Tombstone, At, IInv, OpHolds
<1>2. op.kind \in {"block", "delete"}
  BY <1>1, KindsAt
<1>3. all \subseteq Keys
  <2>1. CASE op.kind = "block"
    BY <1>1, <2>1 DEF OpTyped
  <2>2. CASE op.kind = "delete"
    <3>1. op.todo \subseteq Published
      BY <1>1, <2>2, SetsArePublished DEF OpHolds, Deleting
    <3>2. \A i \in Published : item[i].key \in Keys
      BY PublishedAreItems DEF IInv
    <3> QED
      BY <2>2, <3>1, <3>2
  <2> QED
    BY <1>2, <2>1, <2>2
<1>4. UNCHANGED <<item, index, barrier, cutoff>>
  BY DEF Tombstone, disk
<1>5. \/ all \subseteq blocked /\ Continue /\ blocked' = blocked
      \/ op' = op /\ \E k \in all : blocked' = blocked \cup {k}
  BY DEF Tombstone
<1>6. FilesTyped' /\ blocked \subseteq blocked'
  BY <1>3, <1>4, <1>5 DEF IInv, FilesTyped, IsItem
<1>7. CASE op' = op
  BY <1>1, <1>2, <1>4, <1>6, <1>7, MovesOn
<1>8. CASE all \subseteq blocked /\ Continue /\ op.kind = "block"
  <2>1. op' = None
    BY <1>1, <1>8 DEF Continue, OpTyped
  <2> QED
    BY <1>6, <2>1 DEF IInv
<1>9. CASE all \subseteq blocked /\ Continue /\ op.kind = "delete"
  <2>1. \A i \in op.todo : item[i].key \in blocked
    BY <1>9
  <2>2. op' = None \/ \E q : q = op' /\ OpHolds(q) /\ q.kind = op.kind
    BY <1>1, <1>9, <2>1, Continues
  <2> QED
    BY <1>4, <1>6, <1>9, <2>2, MovesOn
<1> QED
  BY <1>2, <1>5, <1>7, <1>8, <1>9
-------------------------------------------------------------------------------
(* Steps that move an item *)

\* What a rename publishes is an item, of the event the file already had.
LEMMA RenamedIsItem ==
    ASSUME FilesTyped, OpHolds(op), op.pc = "rename"
    PROVE  /\ op.id \in Ids /\ IsItem(op.new)
           /\ op.kind = "enqueue" \/ (item[op.id] # None /\ op.new.key = item[op.id].key)
<1>1. OpTyped(op) /\ op.proc \in Procs
  BY DEF OpHolds, OpTyped
<1>2. op.kind \in {"enqueue", "write", "requeue"}
  BY <1>1, KindsAt
<1>3. CASE op.kind = "enqueue"
  <2>1. PICK k \in Keys : Publishing(op, k)
    BY <1>3 DEF OpHolds, Enqueuing
  <2> QED
    BY <1>3, <2>1, PendingIsItem DEF Publishing
<1>4. ASSUME NEW i, i = op.id, i \in Published,
             \/ op.new = Contract!Claimed(item[i], op.proc)
             \/ \E s \in Terminal : op.new = Contract!Settled(item[i], s)
             \/ \E counted \in BOOLEAN : op.new = Contract!Retried(item[i], counted)
      PROVE  op.id \in Ids /\ IsItem(op.new) /\ item[op.id] # None
             /\ op.new.key = item[op.id].key
  <2>1. IsItem(item[i]) /\ i \in Ids /\ item[i] # None
    BY <1>4, PublishedAreItems DEF Published, Contract!Published
  <2>2. CASE op.new = Contract!Claimed(item[i], op.proc)
    BY <1>1, <1>4, <2>1, <2>2, ClaimedIsItem
  <2>3. CASE \E s \in Terminal : op.new = Contract!Settled(item[i], s)
    BY <1>4, <2>1, <2>3, SettledIsItem DEF Terminal
  <2>4. CASE \E counted \in BOOLEAN : op.new = Contract!Retried(item[i], counted)
    BY <1>4, <2>1, <2>4, RetriedIsItem
  <2> QED
    BY <1>4, <2>2, <2>3, <2>4
<1>5. CASE op.kind = "write"
  <2>1. Claims(op) \/ Settles(op)
    BY <1>5 DEF OpHolds, WritingOne
  <2>2. CASE Claims(op)
    BY <1>4, <2>2, SetsArePublished DEF Claims
  <2>3. CASE Settles(op)
    <3>1. op.id \in Published
      BY <2>3, SetsArePublished DEF Settles
    <3>2. \/ \E s \in Terminal : op.new = Contract!Settled(item[op.id], s)
          \/ \E counted \in BOOLEAN : op.new = Contract!Retried(item[op.id], counted)
      BY <2>3 DEF Settles, Terminal, Contract!Terminal
    <3> QED
      BY <1>4, <3>1, <3>2
  <2> QED
    BY <2>1, <2>2, <2>3
<1>6. CASE op.kind = "requeue"
  <2>1. op.id \in Contract!ExpiredClaims /\ op.new = Contract!Retried(item[op.id], FALSE)
    BY <1>6 DEF OpHolds, Requeuing
  <2> QED
    BY <1>4, <2>1, SetsArePublished
<1> QED
  BY <1>2, <1>3, <1>5, <1>6

LEMMA ItemTyped ==
    ASSUME FilesTyped, UNCHANGED <<index, blocked, cutoff>>,
           NEW i, NEW v, v = None \/ IsItem(v),
           item' = [item EXCEPT ![i] = v]
    PROVE  FilesTyped'
BY DEF FilesTyped, IsItem

LEMMA RenameKeeps == ASSUME IInv, Rename PROVE IInv'
<1>1. op # None /\ op.pc = "rename" /\ OpHolds(op) /\ OpTyped(op) /\ Form(op)
  BY DEF Rename, At, IInv, OpHolds, OpTyped
<1>2. op.kind \in {"enqueue", "write", "requeue"}
  BY <1>1, KindsAt
<1>3. op.id \in Ids /\ IsItem(op.new)
  BY <1>1, RenamedIsItem DEF IInv
<1>4. /\ item' = [item EXCEPT ![op.id] = op.new]
      /\ UNCHANGED <<index, barrier, blocked, cutoff>>
  BY DEF Rename, marks
<1>5. FilesTyped'
  BY <1>3, <1>4, ItemTyped DEF IInv
<1>6. PICK q : q = op'
  OBVIOUS
<1>7. CASE op.new.state \in Terminal
  <2>1. PICK x \in {"touchAcked", "dropActive"} : q = [op EXCEPT !.pc = x]
    BY <1>6, <1>7 DEF Rename, Go
  <2>2. Form(q) /\ q.proc = op.proc /\ q.kind = op.kind /\ q.pc = x /\ q.todo = op.todo
    BY <1>1, <2>1, Going
  <2>3. op.kind = "write"
    <3>1. ASSUME op.kind = "enqueue" PROVE FALSE
      <4>1. PICK k \in Keys : Publishing(op, k)
        BY <1>1, <3>1 DEF OpHolds, Enqueuing
      <4>2. op.new.state = "pending"
        BY <4>1 DEF Publishing, Contract!Pending
      <4> QED
        BY <1>7, <4>2 DEF Terminal, Contract!Terminal
    <3>2. ASSUME op.kind = "requeue" PROVE FALSE
      <4>1. /\ op.new = Contract!Retried(item[op.id], FALSE)
            /\ op.id \in Contract!ExpiredClaims
        BY <1>1, <3>2 DEF OpHolds, Requeuing
      <4>2. IsItem(item[op.id])
        BY <4>1, SetsArePublished, PublishedAreItems DEF IInv
      <4>3. op.new.state = "retry"
        BY <4>1, <4>2, RetriedIsItem
      <4> QED
        BY <1>7, <4>3 DEF Terminal, Contract!Terminal
    <3> QED
      BY <1>2, <3>1, <3>2
  <2>4. OpTyped(q)'
    BY <1>1, <1>4, <2>2, <2>3 DEF OpTyped, Places
  <2>5. OpHolds(q)'
    BY <2>2, <2>3, <2>4 DEF OpHolds, Enqueuing, WritingOne, Recovering, Requeuing,
       Pruning, Deleting, Initializing, Emptied
  <2> QED
    BY <1>5, <1>6, <2>5 DEF IInv
<1>8. CASE op.new.state \notin Terminal
  <2>1. Continue
    BY <1>8 DEF Rename
  <2>2. CASE op.kind \in {"enqueue", "write"}
    <3>1. op' = None
      BY <1>1, <2>1, <2>2 DEF Continue, OpTyped
    <3> QED
      BY <1>5, <3>1 DEF IInv
  <2>3. CASE op.kind = "requeue"
    <3>1. CASE op.todo = {}
      <4>1. op' = None
        BY <2>1, <2>3, <3>1 DEF Continue
      <4> QED
        BY <1>5, <4>1 DEF IInv
    <3>2. CASE op.todo # {}
      <4>1. q = [op EXCEPT !.pc = "next"]
        BY <1>6, <2>1, <3>2 DEF Continue
      <4>2. /\ Form(q) /\ q.proc = op.proc /\ q.kind = op.kind /\ q.pc = "next"
            /\ q.todo = op.todo /\ q.hits = op.hits
        BY <1>1, <4>1, Going
      <4>3. op.todo \subseteq Contract!ExpiredClaims /\ op.id \notin op.todo
        BY <1>1, <2>3 DEF OpHolds, Requeuing
      <4>4. \A i \in Ids : i # op.id => item'[i] = item[i]
        BY <1>4 DEF IInv, FilesTyped
      <4>5. op.todo \subseteq Contract!ExpiredClaims'
        BY <4>3, <4>4 DEF Contract!ExpiredClaims, Contract!InState, Contract!Published
      <4>6. Requeuing(q)'
        BY <4>2, <4>5 DEF Requeuing
      <4>7. OpTyped(q)'
        BY <1>1, <1>4, <2>3, <4>2 DEF OpTyped, Places
      <4>8. OpHolds(q)'
        BY <2>3, <4>2, <4>6, <4>7 DEF OpHolds, Enqueuing, WritingOne, Recovering,
           Pruning, Deleting, Initializing, Emptied
      <4> QED
        BY <1>5, <1>6, <4>8 DEF IInv
    <3> QED
      BY <3>1, <3>2
  <2> QED
    BY <1>2, <2>2, <2>3
<1> QED
  BY <1>7, <1>8

LEMMA UnlinkItemKeeps == ASSUME IInv, UnlinkItem PROVE IInv'
<1>1. op # None /\ op.pc = "unlinkItem" /\ OpHolds(op) /\ OpTyped(op) /\ Form(op)
  BY DEF UnlinkItem, At, IInv, OpHolds, OpTyped
<1>2. op.kind \in {"prune", "delete"}
  BY <1>1, KindsAt
<1>3. op.id \in Published
  <2>1. CASE op.kind = "prune"
    BY <1>1, <2>1, SetsArePublished DEF OpHolds, Pruning
  <2>2. CASE op.kind = "delete"
    BY <1>1, <2>2, SetsArePublished DEF OpHolds, Deleting
  <2> QED
    BY <1>2, <2>1, <2>2
<1>4. /\ op.id \in Ids /\ IsItem(item[op.id]) /\ item[op.id].key \in Keys
  BY <1>3, PublishedAreItems DEF IInv, Published, Contract!Published
<1>5. /\ item' = [item EXCEPT ![op.id] = None]
      /\ UNCHANGED <<index, barrier, blocked, cutoff>>
  BY DEF UnlinkItem, marks
<1>6. FilesTyped'
  BY <1>5, ItemTyped DEF IInv
<1>7. PICK q : q = op'
  OBVIOUS
<1>8. q = [op EXCEPT !.pc = "unlinkActive", !.new = item[op.id]]
  BY <1>7 DEF UnlinkItem
<1>9. /\ Form(q) /\ q.proc = op.proc /\ q.kind = op.kind /\ q.pc = "unlinkActive"
      /\ q.id = op.id /\ q.new = item[op.id] /\ q.todo = op.todo /\ q.keys = op.keys
  BY <1>1, <1>8 DEF Form
<1>10. item'[op.id] = None /\ \A i \in Ids : i # op.id => item'[i] = item[i]
  BY <1>4, <1>5 DEF IInv, FilesTyped
<1>11. OpTyped(q)'
  BY <1>1, <1>2, <1>5, <1>9 DEF OpTyped, Places
<1>12. Emptied(q)'
  BY <1>4, <1>9, <1>10 DEF Emptied
<1>13. Pruning(q)'
  <2>1. CASE op.kind = "prune"
    <3>1. op.todo \subseteq Contract!OldAcknowledged /\ op.id \notin op.todo
      BY <1>1, <2>1 DEF OpHolds, Pruning
    <3>2. op.todo \subseteq Contract!OldAcknowledged'
      BY <1>10, <3>1 DEF Contract!OldAcknowledged, Contract!InState, Contract!Published
    <3> QED
      BY <1>9, <3>2 DEF Pruning
  <2>2. CASE op.kind # "prune"
    BY <1>9, <2>2 DEF Pruning
  <2> QED
    BY <2>1, <2>2
<1>14. Deleting(q)'
  <2>1. CASE op.kind = "delete"
    <3>1. /\ Contract!Matching(op.keys) = op.todo \cup {op.id} /\ op.id \notin op.todo
          /\ \A i \in op.todo : item[i].key \in blocked
      BY <1>1, <2>1 DEF OpHolds, Deleting
    <3>2. {i \in Ids : item'[i] # None /\ item'[i].key \in op.keys} = op.todo
      BY <1>10, <3>1 DEF Contract!Matching, Contract!Published
    <3>3. \A i \in op.todo : item'[i].key \in blocked'
      BY <1>5, <1>10, <3>1 DEF Contract!Matching, Contract!Published
    <3> QED
      BY <1>9, <3>2, <3>3 DEF Deleting, Contract!Matching, Contract!Published
  <2>2. CASE op.kind # "delete"
    BY <1>9, <2>2 DEF Deleting
  <2> QED
    BY <2>1, <2>2
<1>15. OpHolds(q)'
  BY <1>2, <1>9, <1>11, <1>12, <1>13, <1>14 DEF OpHolds, Enqueuing, WritingOne,
     Recovering, Requeuing, Initializing
<1> QED
  BY <1>6, <1>7, <1>15 DEF IInv

LEMMA WipeKeeps == ASSUME IInv, Wipe PROVE IInv'
<1>1. op # None /\ op.pc = "wipe" /\ OpHolds(op) /\ OpTyped(op)
  BY DEF Wipe, At, IInv, OpHolds
<1>2. op.kind = "clear"
  BY <1>1, KindsAt
<1>3. op' = op /\ UNCHANGED <<barrier, cutoff>>
  BY DEF Wipe
<1>4. FilesTyped'
  <2>1. /\ item' = item \/ \E i \in Ids : item' = [item EXCEPT ![i] = None]
        /\ index' = index \/ \E k \in Keys : index' = [index EXCEPT ![k] = None]
        /\ blocked' \subseteq blocked
    BY DEF Wipe, Published, Contract!Published
  <2> QED
    BY <1>3, <2>1 DEF IInv, FilesTyped, IsItem
<1>5. OpHolds(op)'
  BY <1>1, <1>2, <1>3 DEF OpHolds, OpTyped, Places, Enqueuing, WritingOne, Recovering,
     Requeuing, Pruning, Deleting, Initializing, Emptied
<1> QED
  BY <1>4, <1>5 DEF IInv

LEMMA FinishClearKeeps == ASSUME IInv, FinishClear PROVE IInv'
<1>1. op' = None /\ UNCHANGED <<item, index, blocked, cutoff>>
  BY DEF FinishClear, Release
<1> QED
  BY <1>1 DEF IInv, FilesTyped, IsItem

LEMMA ElapseKeeps == ASSUME IInv, NEW i \in Ids, Elapse(i) PROVE IInv'
<1>1. op' = None /\ UNCHANGED <<index, blocked, cutoff>>
  BY DEF Elapse, marks
<1>2. i \in Published
  BY DEF Elapse, Contract!InState, Published
<1>3. PICK v : v = [item[i] EXCEPT !.elapsed = TRUE]
  OBVIOUS
<1>4. IsItem(v)
  BY <1>2, <1>3, PublishedAreItems, ElapsedIsItem DEF IInv
<1>5. item' = [item EXCEPT ![i] = v]
  BY <1>3 DEF Elapse
<1>6. FilesTyped'
  BY <1>1, <1>4, <1>5, ItemTyped DEF IInv
<1> QED
  BY <1>1, <1>6 DEF IInv
-------------------------------------------------------------------------------
LEMMA StepKeeps == ASSUME IInv, Next PROVE IInv'
<1>1. ASSUME NEW p \in Procs, Begin(p) PROVE IInv'
  BY <1>1, InitializeKeeps, BeginEnqueueKeeps, BeginClaimKeeps, BeginSettleKeeps,
     BeginRecoverKeeps, BeginPruneKeeps, BlockIdentitiesKeeps, BeginDeleteKeeps,
     BeginClearKeeps, BarrierKeeps DEF Begin
<1>2. ASSUME Step PROVE IInv'
  BY <1>2, UnlinkStaleIndexKeeps, LinkIndexKeeps, TouchActiveKeeps, RenameKeeps,
     TouchAcknowledgedKeeps, DropActiveKeeps, ScanClaimKeeps, ScanRecoverKeeps,
     ScanPruneKeeps, ScanDoneKeeps, NextItemKeeps, UnlinkItemKeeps, UnlinkActiveKeeps,
     UnlinkAckedKeeps, UnlinkOwnedIndexKeeps, TombstoneKeeps, SweepIndexesKeeps,
     TouchLiveKeeps, ClaimIndexKeeps, EndsQuietly, WipeKeeps, FinishClearKeeps DEF Step
<1> QED
  BY <1>1, <1>2, EndsQuietly, WriteErrorKeeps, ElapseKeeps DEF Next

\* Whatever the numbers of items, keys, processes and faults: the operation
\* that holds the lease finds the files as it left them, and what it chose
\* an item for still holds of the item when it writes.
THEOREM InvariantHolds == Spec => []IInv
<1>1. Init => IInv
  BY DEF Init, IInv, FilesTyped
<1>2. IInv /\ [Next]_vars => IInv'
  <2>1. IInv /\ UNCHANGED vars => IInv'
    BY UnmovedStep DEF vars, Unmoved
  <2> QED
    BY <2>1, StepKeeps
<1> QED
  BY <1>1, <1>2, PTL DEF Spec
-------------------------------------------------------------------------------
(* The steps as steps of the contract.  Only a rename, the unlinking of an *)
(* item, a tombstone, an index given to an item and the files of a reset   *)
(* are visible in it.                                                      *)

Stutter == UNCHANGED Contract!queueVars
Implements == [Contract!QueueNext]_(Contract!queueVars)

\* The source a key has depends on its index and the item named there.
LEMMA SameSource ==
    ASSUME \A k \in Keys : /\ Valid(k)' <=> Valid(k)
                           /\ Valid(k) => index'[k] = index[k]
    PROVE  ValidSource' = ValidSource
BY DEF ValidSource

LEMMA Stutters ==
    ASSUME UNCHANGED <<item, barrier, blocked, cutoff>>, ValidSource' = ValidSource
    PROVE  Implements
BY DEF Implements, Contract!queueVars

LEMMA UnmovedStutters == ASSUME Unmoved PROVE Implements
<1>1. ValidSource' = ValidSource
  BY DEF Unmoved, ValidSource, Valid
<1> QED
  BY <1>1, Stutters DEF Unmoved

\* An index without a valid owner may come or go, as long as none is given one.
LEMMA StaleStutters ==
    ASSUME FilesTyped, UNCHANGED <<item, barrier, blocked, cutoff>>,
           NEW k \in Keys, ~ Valid(k), NEW v, v = None \/ item[v] = None,
           index' = [index EXCEPT ![k] = v]
    PROVE  Implements
<1>1. index'[k] = v /\ \A j \in Keys : j # k => index'[j] = index[j]
  BY DEF FilesTyped
<1>2. ValidSource' = ValidSource
  BY <1>1, SameSource DEF Valid
<1> QED
  BY <1>2, Stutters

\* An item rewritten keeps its event, so its sources stay as they are.
LEMMA RewritingKeepsSources ==
    ASSUME FilesTyped, NEW i \in Published, NEW new, IsItem(new), new.key = item[i].key,
           item' = [item EXCEPT ![i] = new], index' = index
    PROVE  ValidSource' = ValidSource
<1>1. i \in Ids /\ item[i] # None /\ new # None
  BY ItemFields DEF Published, Contract!Published
<1>2. item'[i] = new /\ \A j \in Ids : j # i => item'[j] = item[j]
  BY <1>1 DEF FilesTyped
<1>3. \A k \in Keys : Valid(k)' <=> Valid(k)
  BY <1>1, <1>2 DEF Valid, FilesTyped
<1> QED
  BY <1>3, SameSource

\* An item unlinked takes the sources it owned along.
LEMMA UnlinkingRemoves ==
    ASSUME FilesTyped, NEW i \in Ids, item' = [item EXCEPT ![i] = None], index' = index
    PROVE  Contract!RemoveItems({i})
<1>1. item'[i] = None /\ \A j \in Ids : j # i => item'[j] = item[j]
  BY DEF FilesTyped
<1>2. item' = [j \in Ids |-> IF j \in {i} THEN None ELSE item[j]]
  BY DEF FilesTyped
<1>3. ASSUME NEW k \in Keys
      PROVE  ValidSource'[k] = IF ValidSource[k] \in {i} THEN None ELSE ValidSource[k]
  <2>1. CASE index[k] = None
    BY <2>1, ContractAssumption DEF ValidSource, Valid
  <2>2. CASE index[k] = i
    BY <1>1, <2>2, ContractAssumption DEF ValidSource, Valid
  <2>3. CASE index[k] \in Ids /\ index[k] # i
    BY <1>1, <2>3, ContractAssumption DEF ValidSource, Valid
  <2> QED
    BY <2>1, <2>2, <2>3 DEF FilesTyped
<1>4. ValidSource' = [k \in Keys |-> ValidSource'[k]]
  BY DEF ValidSource
<1> QED
  BY <1>2, <1>3, <1>4 DEF Contract!RemoveItems

LEMMA BeginStutters ==
    ASSUME NEW p \in Procs,
           \/ Initialize(p) \/ BeginClaim(p) \/ BeginRecover(p) \/ BeginPrune(p)
           \/ \E i \in Ids, k \in Keys : BeginEnqueue(p, i, k)
           \/ \E i \in Ids : BeginSettle(p, i)
           \/ \E K \in SUBSET Keys : BlockIdentities(p, K) \/ BeginDelete(p, K)
           \/ Crash(p)
    PROVE  Implements
<1>1. Unmoved
  BY DEF Initialize, BeginClaim, BeginRecover, BeginPrune, BeginEnqueue, BeginSettle,
     BlockIdentities, BeginDelete, Crash, Start, Unmoved, disk, marks
<1> QED
  BY <1>1, UnmovedStutters

LEMMA StepStutters ==
    ASSUME \/ TouchActive \/ TouchAcknowledged \/ DropActive \/ ScanClaim \/ ScanRecover
           \/ ScanPrune \/ ScanDone \/ NextItem \/ UnlinkActive \/ UnlinkAcked
           \/ TouchLive \/ FinishInitialize \/ WriteError \/ FinishClear
    PROVE  Implements
<1>1. CASE FinishClear
  <2>1. blocked = {} /\ UNCHANGED <<item, index, barrier, blocked, cutoff>>
    BY <1>1 DEF FinishClear
  <2> QED
    BY <2>1, UnmovedStutters DEF Unmoved
<1>2. CASE ~ FinishClear
  <2>1. Unmoved
    BY <1>2 DEF TouchActive, TouchAcknowledged, DropActive, ScanClaim, ScanRecover,
       ScanPrune, ScanDone, NextItem, UnlinkActive, UnlinkAcked, TouchLive,
       FinishInitialize, WriteError, Unmoved, disk, marks
  <2> QED
    BY <2>1, UnmovedStutters
<1> QED
  BY <1>1, <1>2

LEMMA BarrierImplements ==
    ASSUME NEW p \in Procs, NEW d \in Deletions, BeginBarrier(p, d) \/ EndBarrier(p, d)
    PROVE  Implements
<1>1. ValidSource' = ValidSource /\ UNCHANGED <<item, blocked, cutoff>>
  BY DEF BeginBarrier, EndBarrier, disk, ValidSource, Valid
<1>2. Contract!BeginDeletionBarrier(d) \/ Contract!EndDeletionBarrier(d)
  BY <1>1 DEF BeginBarrier, EndBarrier, Contract!BeginDeletionBarrier,
     Contract!EndDeletionBarrier
<1> QED
  BY <1>2 DEF Implements, Contract!QueueNext

LEMMA ClearsSome ==
    ASSUME NEW C \in SUBSET Keys, NEW S \in SUBSET Ids, NEW K \in SUBSET Keys,
           NEW B \in SUBSET Keys, Contract!ClearAllRecords(C, S, K, B)
    PROVE  Implements
<1>1. Contract!QueueNext
  BY Zenon DEF Contract!QueueNext
<1> QED
  BY <1>1 DEF Implements

LEMMA BeginClearImplements ==
    ASSUME IInv, NEW p \in Procs, NEW C \in SUBSET Keys, BeginClear(p, C)
    PROVE  Implements
<1>1. /\ ValidSource' = ValidSource /\ UNCHANGED <<item, index, barrier, blocked>>
      /\ cutoff' = C /\ cutoff \subseteq C /\ barrier # None
  BY DEF BeginClear, disk, ValidSource, Valid
<1>2. item' = [i \in Ids |-> IF i \in {} THEN None ELSE item[i]]
  BY <1>1 DEF IInv, FilesTyped
<1>3. ValidSource' = [k \in Keys |-> IF k \in {} \/ ValidSource[k] \in {}
                                     THEN None ELSE ValidSource[k]]
  BY <1>1 DEF ValidSource
<1>4. Contract!ClearAllRecords(C, {}, {}, {})
  BY <1>1, <1>2, <1>3 DEF Contract!ClearAllRecords
<1> QED
  BY <1>4, ClearsSome

LEMMA ElapseImplements == ASSUME IInv, NEW i \in Ids, Elapse(i) PROVE Implements
<1>1. i \in Published /\ UNCHANGED <<index, barrier, blocked, cutoff>>
  BY DEF Elapse, marks, Contract!InState, Published
<1>2. PICK v : v = [item[i] EXCEPT !.elapsed = TRUE]
  OBVIOUS
<1>3. IsItem(v) /\ v.key = item[i].key
  BY <1>1, <1>2, PublishedAreItems, ElapsedIsItem DEF IInv
<1>4. item' = [item EXCEPT ![i] = v]
  BY <1>2 DEF Elapse
<1>5. ValidSource' = ValidSource
  BY <1>1, <1>3, <1>4, RewritingKeepsSources DEF IInv
<1>6. Contract!Elapse(i)
  BY <1>1, <1>5 DEF Elapse, Contract!Elapse
<1>7. Contract!QueueNext
  BY <1>6 DEF Contract!QueueNext
<1> QED
  BY <1>7 DEF Implements

LEMMA UnlinkStaleIndexImplements == ASSUME IInv, UnlinkStaleIndex PROVE Implements
<1>1. op # None /\ op.pc = "unlinkIndex" /\ OpHolds(op) /\ OpTyped(op)
  BY DEF UnlinkStaleIndex, At, IInv, OpHolds
<1>2. PICK k \in Keys : Publishing(op, k)
  BY <1>1, KindsAt DEF OpHolds, Enqueuing
<1>3. /\ index' = [index EXCEPT ![k] = None] /\ ~ Valid(k)
      /\ UNCHANGED <<item, barrier, blocked, cutoff>>
  BY <1>1, <1>2 DEF UnlinkStaleIndex, Publishing, marks
<1> QED
  BY <1>3, StaleStutters DEF IInv

LEMMA LinkIndexImplements == ASSUME IInv, LinkIndex PROVE Implements
<1>1. op # None /\ op.pc = "linkIndex" /\ OpHolds(op) /\ OpTyped(op)
  BY DEF LinkIndex, At, IInv, OpHolds
<1>2. PICK k \in Keys : Publishing(op, k)
  BY <1>1, KindsAt DEF OpHolds, Enqueuing
<1>3. /\ index' = [index EXCEPT ![k] = op.id] /\ ~ Valid(k) /\ item[op.id] = None
      /\ UNCHANGED <<item, barrier, blocked, cutoff>>
  BY <1>1, <1>2 DEF LinkIndex, Publishing, marks
<1> QED
  BY <1>3, StaleStutters DEF IInv

\* The rename of enqueue publishes, and a source that had no owner has one.
LEMMA EnqueueImplements ==
    ASSUME IInv, Rename, op.kind = "enqueue"
    PROVE  Implements
<1>1. op # None /\ op.pc = "rename" /\ OpHolds(op) /\ OpTyped(op)
  BY DEF Rename, At, IInv, OpHolds
<1>2. PICK k \in Keys : Publishing(op, k)
  BY <1>1 DEF OpHolds, Enqueuing
<1>3. PICK i \in Ids : i = op.id
  BY <1>2 DEF Publishing
<1>4. /\ item[i] = None /\ ~ Contract!Refused(k) /\ barrier = None
      /\ Valid(k) \/ index[k] = i
  BY <1>1, <1>2, <1>3 DEF Publishing, OpTyped
<1>5. /\ item' = [item EXCEPT ![i] = Contract!Pending(k)]
      /\ UNCHANGED <<index, barrier, blocked, cutoff>>
  BY <1>2, <1>3 DEF Rename, Publishing, marks
<1>6. PICK new : new = Contract!Pending(k)
  OBVIOUS
<1>7. new # None /\ new.key = k
  BY <1>6, PendingIsItem, ItemFields
<1>8. item'[i] = new /\ \A j \in Ids : j # i => item'[j] = item[j]
  BY <1>5, <1>6 DEF IInv, FilesTyped
<1>9. ASSUME NEW k2 \in Keys, k2 # k PROVE ValidSource'[k2] = ValidSource[k2]
  <2>1. Valid(k2)' <=> Valid(k2)
    BY <1>4, <1>5, <1>7, <1>8, <1>9 DEF Valid, IInv, FilesTyped
  <2> QED
    BY <1>5, <2>1 DEF ValidSource
<1>10. ValidSource'[k] = IF ValidSource[k] = None THEN i ELSE ValidSource[k]
  <2>1. CASE Valid(k)
    <3>1. index[k] \in Ids /\ index[k] # i
      BY <1>4, <2>1 DEF Valid, IInv, FilesTyped
    <3>2. Valid(k)'
      BY <1>5, <1>8, <2>1, <3>1 DEF Valid
    <3> QED
      BY <1>5, <2>1, <3>1, <3>2, ContractAssumption DEF ValidSource
  <2>2. CASE ~ Valid(k)
    <3>1. index[k] = i /\ index'[k] = i
      BY <1>4, <1>5, <2>2
    <3>2. Valid(k)'
      BY <1>7, <1>8, <3>1, ContractAssumption DEF Valid
    <3> QED
      BY <2>2, <3>1, <3>2 DEF ValidSource
  <2> QED
    BY <2>1, <2>2
<1>11. ValidSource' = [ValidSource EXCEPT ![k] = IF @ = None THEN i ELSE @]
  <2>1. /\ ValidSource = [j \in Keys |-> ValidSource[j]]
        /\ ValidSource' = [j \in Keys |-> ValidSource'[j]]
    BY DEF ValidSource
  <2> QED
    BY <1>9, <1>10, <2>1
<1>12. Contract!Enqueue(i, k)
  BY <1>4, <1>5, <1>11 DEF Contract!Enqueue
<1>13. Contract!QueueNext
  BY <1>12 DEF Contract!QueueNext
<1> QED
  BY <1>13 DEF Implements

\* The rename of a claim or of a settlement.
LEMMA WriteImplements ==
    ASSUME IInv, Rename, op.kind = "write"
    PROVE  Implements
<1>1. op # None /\ op.pc = "rename" /\ OpHolds(op) /\ OpTyped(op)
  BY DEF Rename, At, IInv, OpHolds
<1>2. /\ op.id \in Ids /\ IsItem(op.new) /\ item[op.id] # None
      /\ op.new.key = item[op.id].key
  BY <1>1, RenamedIsItem DEF IInv
<1>3. PICK i \in Ids : i = op.id
  BY <1>2
<1>4. PICK new : new = op.new
  OBVIOUS
<1>5. /\ item' = [item EXCEPT ![i] = new]
      /\ UNCHANGED <<index, barrier, blocked, cutoff>>
  BY <1>3, <1>4 DEF Rename, marks
<1>6. i \in Published
  BY <1>2, <1>3 DEF Published, Contract!Published
<1>7. ValidSource' = ValidSource
  BY <1>2, <1>3, <1>4, <1>5, <1>6, RewritingKeepsSources DEF IInv
<1>8. PICK c \in Procs : c = op.proc
  BY <1>1 DEF OpTyped
<1>9. Claims(op) \/ Settles(op)
  BY <1>1 DEF OpHolds, WritingOne
<1>10. CASE Claims(op)
  <2>1. Contract!Claim(i, c)
    BY <1>3, <1>4, <1>5, <1>7, <1>8, <1>10 DEF Claims, Contract!Claim
  <2>2. Contract!QueueNext
    BY <2>1 DEF Contract!QueueNext
  <2> QED
    BY <2>2 DEF Implements
<1>11. CASE Settles(op)
  <2>1. PICK n : n = item[i].attempts
    OBVIOUS
  <2>2. Contract!ActiveClaim(i, c, n)
    BY <1>3, <1>8, <1>11, <2>1 DEF Settles
  <2>3. \/ new = Contract!Settled(item[i], "acknowledged")
        \/ new = Contract!Settled(item[i], "dead-letter")
        \/ new = Contract!Retried(item[i], TRUE)
        \/ new = Contract!Retried(item[i], FALSE)
    BY <1>3, <1>4, <1>11 DEF Settles
  <2>4. Contract!Settle(i, c, n, new)
    BY <1>5, <1>7, <2>2 DEF Contract!Settle
  <2>5. \/ Contract!Acknowledge(i, c, n) \/ Contract!DeadLetter(i, c, n)
        \/ Contract!Retry(i, c, n) \/ Contract!RetryAfterCommit(i, c, n)
    BY <2>3, <2>4, Zenon DEF Contract!Acknowledge, Contract!DeadLetter, Contract!Retry,
       Contract!RetryAfterCommit
  <2>6. n \in {item[j].attempts : j \in Contract!Published}
    BY <1>6, <2>1 DEF Published
  <2>7. Contract!QueueNext
    BY <2>5, <2>6, Zenon DEF Contract!QueueNext
  <2> QED
    BY <2>7 DEF Implements
<1> QED
  BY <1>9, <1>10, <1>11

\* The rename of an expired claim that goes back to the queue.
LEMMA RequeueImplements ==
    ASSUME IInv, Rename, op.kind = "requeue"
    PROVE  Implements
<1>1. op # None /\ op.pc = "rename" /\ OpHolds(op) /\ OpTyped(op)
  BY DEF Rename, At, IInv, OpHolds
<1>2. /\ op.id \in Ids /\ IsItem(op.new) /\ item[op.id] # None
      /\ op.new.key = item[op.id].key
  BY <1>1, RenamedIsItem DEF IInv
<1>3. PICK i \in Ids : i = op.id
  BY <1>2
<1>4. PICK new : new = op.new
  OBVIOUS
<1>5. /\ item' = [item EXCEPT ![i] = new]
      /\ UNCHANGED <<index, barrier, blocked, cutoff>>
  BY <1>3, <1>4 DEF Rename, marks
<1>6. i \in Published
  BY <1>2, <1>3 DEF Published, Contract!Published
<1>7. ValidSource' = ValidSource
  BY <1>2, <1>3, <1>4, <1>5, <1>6, RewritingKeepsSources DEF IInv
<1>8. /\ barrier = None /\ i \in Contract!ExpiredClaims
      /\ new = Contract!Retried(item[i], FALSE)
  BY <1>1, <1>3, <1>4 DEF OpTyped, OpHolds, Requeuing
<1>9. item' = [j \in Ids |-> IF j \in {i} THEN Contract!Retried(item[j], FALSE)
                                          ELSE item[j]]
  BY <1>5, <1>8 DEF IInv, FilesTyped
<1>10. Contract!RecoverExpiredClaims({i})
  BY <1>5, <1>7, <1>8, <1>9 DEF Contract!RecoverExpiredClaims
<1>11. Contract!QueueNext
  <2>1. {i} \in SUBSET Ids
    OBVIOUS
  <2> QED
    BY <1>10, <2>1 DEF Contract!QueueNext
<1> QED
  BY <1>11 DEF Implements

LEMMA RenameImplements == ASSUME IInv, Rename PROVE Implements
<1>1. op.kind \in {"enqueue", "write", "requeue"}
  BY KindsAt DEF Rename, At, IInv, OpHolds
<1> QED
  BY <1>1, EnqueueImplements, WriteImplements, RequeueImplements

\* An item that goes: old enough to be pruned, or selected by a deletion and
\* tombstoned.
LEMMA UnlinkItemImplements == ASSUME IInv, UnlinkItem PROVE Implements
<1>1. op # None /\ op.pc = "unlinkItem" /\ OpHolds(op) /\ OpTyped(op)
  BY DEF UnlinkItem, At, IInv, OpHolds
<1>2. op.kind \in {"prune", "delete"}
  BY <1>1, KindsAt
<1>3. item' = [item EXCEPT ![op.id] = None] /\ UNCHANGED <<index, barrier, blocked, cutoff>>
  BY DEF UnlinkItem, marks
<1>4. CASE op.kind = "prune"
  <2>1. op.id \in Contract!OldAcknowledged
    BY <1>1, <1>4 DEF OpHolds, Pruning
  <2>2. PICK i \in Ids : i = op.id
    BY <2>1 DEF Contract!OldAcknowledged, Contract!InState, Contract!Published
  <2>3. Contract!RemoveItems({i})
    BY <1>3, <2>2, UnlinkingRemoves DEF IInv
  <2>4. Contract!PruneAcknowledged({i})
    BY <1>3, <2>1, <2>2, <2>3 DEF Contract!PruneAcknowledged
  <2>5. {i} \in SUBSET Ids
    OBVIOUS
  <2>6. Contract!QueueNext
    BY <2>4, <2>5 DEF Contract!QueueNext
  <2> QED
    BY <2>6 DEF Implements
<1>5. CASE op.kind = "delete"
  <2>1. op.id \in Contract!Matching(op.keys) /\ item[op.id].key \in blocked
    BY <1>1, <1>5 DEF OpHolds, Deleting
  <2>2. PICK i \in Published : i = op.id
    BY <2>1, SetsArePublished
  <2>3. i \in Ids /\ item[i].key \in Keys
    BY <2>2, PublishedAreItems DEF Published, Contract!Published, IInv
  <2>4. PICK k \in Keys : k = item[i].key
    BY <2>3
  <2>5. Contract!RemoveItems({i})
    BY <1>3, <2>2, <2>3, UnlinkingRemoves DEF IInv
  <2>6. /\ Contract!Matching({k}) = {j \in Published : item[j].key = k}
        /\ {i} \subseteq Contract!Matching({k})
    BY <2>2, <2>4, SetsArePublished
  <2>7. {item[j].key : j \in Contract!Matching({k})} = {k}
    BY <2>6
  <2>8. Contract!DeleteByIdentifiers({k}, {i})
    BY <1>3, <2>1, <2>2, <2>4, <2>5, <2>6, <2>7 DEF Contract!DeleteByIdentifiers
  <2>9. {i} \in SUBSET Ids /\ {k} \in SUBSET Keys
    BY <2>3
  <2>10. Contract!QueueNext
    BY <2>8, <2>9 DEF Contract!QueueNext
  <2> QED
    BY <2>10 DEF Implements
<1> QED
  BY <1>2, <1>4, <1>5

LEMMA UnlinkOwnedIndexImplements == ASSUME IInv, UnlinkOwnedIndex PROVE Implements
<1>1. op # None /\ op.pc = "unlinkOwned" /\ OpHolds(op)
  BY DEF UnlinkOwnedIndex, At, IInv
<1>2. op.id \in Ids /\ item[op.id] = None /\ op.new.key \in Keys
  BY <1>1 DEF OpHolds, Emptied
<1>3. PICK k \in Keys : k = op.new.key
  BY <1>2
<1>4. /\ index' = [index EXCEPT ![k] = IF index[k] = op.id THEN None ELSE index[k]]
      /\ UNCHANGED <<item, barrier, blocked, cutoff>>
  BY <1>3 DEF UnlinkOwnedIndex, marks
<1>5. CASE index[k] = op.id
  <2>1. ~ Valid(k) /\ index' = [index EXCEPT ![k] = None]
    BY <1>2, <1>4, <1>5 DEF Valid
  <2> QED
    BY <1>4, <2>1, StaleStutters DEF IInv
<1>6. CASE index[k] # op.id
  <2>1. index' = index
    BY <1>4, <1>6 DEF IInv, FilesTyped
  <2> QED
    BY <1>4, <2>1, UnmovedStutters DEF Unmoved
<1> QED
  BY <1>5, <1>6

LEMMA TombstoneImplements == ASSUME IInv, Tombstone PROVE Implements
<1>1. blocked' \subseteq Keys
  BY TombstoneKeeps DEF IInv, FilesTyped
<1>2. UNCHANGED <<item, index, barrier, cutoff>>
  BY DEF Tombstone, disk
<1>3. blocked' = blocked \/ \E k : blocked' = blocked \cup {k}
  BY DEF Tombstone
<1>4. PICK K \in SUBSET Keys : blocked' = blocked \cup K
  BY <1>1, <1>3
<1>5. ValidSource' = ValidSource
  BY <1>2 DEF ValidSource, Valid
<1>6. Contract!BlockIdentities(K)
  BY <1>2, <1>4, <1>5 DEF Contract!BlockIdentities
<1>7. Contract!QueueNext
  BY <1>6 DEF Contract!QueueNext
<1> QED
  BY <1>7 DEF Implements

\* When the orphans are swept no item that matches is left, so no source of
\* the deletion has an owner.
LEMMA SweepIndexesImplements == ASSUME IInv, SweepIndexes PROVE Implements
<1>1. op # None /\ op.pc = "finish" /\ op.kind = "delete" /\ OpHolds(op)
  BY DEF SweepIndexes, At, IInv
<1>2. Contract!Matching(op.keys) = {}
  BY <1>1 DEF OpHolds, Deleting
<1>3. UNCHANGED <<item, barrier, blocked, cutoff>>
  BY DEF SweepIndexes, marks
<1>4. CASE index' = index
  BY <1>3, <1>4, UnmovedStutters DEF Unmoved
<1>5. CASE index' # index
  <2>1. PICK k \in Keys : /\ index' = [index EXCEPT ![k] = None]
                          /\ k \in op.keys \/ item[index[k]] = None
    BY <1>5 DEF SweepIndexes
  <2>2. ~ Valid(k)
    BY <1>2, <2>1 DEF Valid, IInv, FilesTyped, Contract!Matching, Contract!Published
  <2> QED
    BY <1>3, <2>1, <2>2, StaleStutters DEF IInv
<1> QED
  BY <1>4, <1>5

\* initialize takes a stale index away, and gives a source to an item of it.
LEMMA ClaimIndexImplements == ASSUME IInv, ClaimIndex PROVE Implements
<1>1. op # None /\ op.pc = "claimIndex" /\ OpHolds(op) /\ OpTyped(op)
  BY DEF ClaimIndex, At, IInv, OpHolds
<1>2. PICK i \in Published : i = op.id
  BY <1>1, KindsAt DEF OpHolds, Initializing
<1>3. i \in Ids /\ item[i] # None /\ item[i].key \in Keys
  BY PublishedAreItems DEF IInv, Published, Contract!Published
<1>4. PICK k \in Keys : k = item[i].key
  BY <1>3
<1>5. UNCHANGED <<item, barrier, blocked, cutoff>>
  BY DEF ClaimIndex, marks
<1>6. \/ index' = index
      \/ ~ Valid(k) /\ index' = [index EXCEPT ![k] = None]
      \/ ~ Valid(k) /\ index' = [index EXCEPT ![k] = i]
  BY <1>2, <1>4 DEF ClaimIndex
<1>7. CASE index' = index
  BY <1>5, <1>7, UnmovedStutters DEF Unmoved
<1>8. CASE ~ Valid(k) /\ index' = [index EXCEPT ![k] = None]
  BY <1>5, <1>8, StaleStutters DEF IInv
<1>9. CASE ~ Valid(k) /\ index' = [index EXCEPT ![k] = i]
  <2>1. index'[k] = i /\ \A j \in Keys : j # k => index'[j] = index[j]
    BY <1>9 DEF IInv, FilesTyped
  <2>2. Valid(k)' /\ \A j \in Keys : j # k => (Valid(j)' <=> Valid(j))
    BY <1>3, <1>4, <1>5, <2>1, ContractAssumption DEF Valid
  <2>3. ValidSource' = [ValidSource EXCEPT ![k] = i]
    BY <2>1, <2>2 DEF ValidSource
  <2>4. ValidSource[k] = None
    BY <1>9 DEF ValidSource
  <2>5. Contract!IndexSource(i)
    BY <1>2, <1>4, <1>5, <2>3, <2>4 DEF Contract!IndexSource, Published
  <2>6. Contract!QueueNext
    BY <1>3, <2>5 DEF Contract!QueueNext
  <2> QED
    BY <2>6 DEF Implements
<1> QED
  BY <1>6, <1>7, <1>8, <1>9

\* A reset takes the files away one by one, behind the cutoff it published.
LEMMA WipeImplements == ASSUME IInv, Wipe PROVE Implements
<1>1. op # None /\ op.pc = "wipe" /\ OpTyped(op)
  BY DEF Wipe, At, IInv, OpHolds
<1>2. barrier # None /\ UNCHANGED <<barrier, cutoff>> /\ cutoff \in SUBSET Keys
  BY <1>1, KindsAt DEF OpTyped, Wipe, IInv, FilesTyped
<1>3. \/ Unmoved
      \/ \E i \in Published : item' = [item EXCEPT ![i] = None] /\ UNCHANGED <<index, blocked>>
      \/ \E k \in Keys : index' = [index EXCEPT ![k] = None] /\ UNCHANGED <<item, blocked>>
      \/ \E k \in blocked : blocked' = blocked \ {k} /\ UNCHANGED <<item, index>>
  BY <1>2 DEF Wipe, Unmoved
<1>4. CASE Unmoved
  BY <1>4, UnmovedStutters
<1>5. ASSUME NEW i \in Published, item' = [item EXCEPT ![i] = None],
             UNCHANGED <<index, blocked>>
      PROVE  Implements
  <2>1. i \in Ids
    BY DEF Published, Contract!Published
  <2>2. Contract!RemoveItems({i})
    BY <1>5, <2>1, UnlinkingRemoves DEF IInv
  <2>3. ValidSource' = [k \in Keys |-> IF k \in {} \/ ValidSource[k] \in {i}
                                       THEN None ELSE ValidSource[k]]
    BY <2>2 DEF Contract!RemoveItems
  <2>4. Contract!ClearAllRecords(cutoff, {i}, {}, {})
    BY <1>2, <1>5, <2>2, <2>3 DEF Contract!RemoveItems, Contract!ClearAllRecords, Published
  <2>5. {i} \in SUBSET Ids
    BY <2>1
  <2> QED
    BY <1>2, <2>4, <2>5, ClearsSome
<1>6. ASSUME NEW k \in Keys, index' = [index EXCEPT ![k] = None],
             UNCHANGED <<item, blocked>>
      PROVE  Implements
  <2>1. index'[k] = None /\ \A j \in Keys : j # k => index'[j] = index[j]
    BY <1>6 DEF IInv, FilesTyped
  <2>2. ~ Valid(k)' /\ \A j \in Keys : j # k => (Valid(j)' <=> Valid(j))
    BY <1>6, <2>1 DEF Valid
  <2>3. ValidSource' = [j \in Keys |-> IF j \in {k} \/ ValidSource[j] \in {}
                                       THEN None ELSE ValidSource[j]]
    BY <2>1, <2>2 DEF ValidSource
  <2>4. item' = [i \in Ids |-> IF i \in {} THEN None ELSE item[i]]
    BY <1>6 DEF IInv, FilesTyped
  <2>5. Contract!ClearAllRecords(cutoff, {}, {k}, {})
    BY <1>2, <1>6, <2>3, <2>4 DEF Contract!ClearAllRecords
  <2> QED
    BY <1>2, <2>5, ClearsSome
<1>7. ASSUME NEW k \in blocked, blocked' = blocked \ {k}, UNCHANGED <<item, index>>
      PROVE  Implements
  <2>1. ValidSource' = [j \in Keys |-> IF j \in {} \/ ValidSource[j] \in {}
                                       THEN None ELSE ValidSource[j]]
    BY <1>7 DEF ValidSource, Valid
  <2>2. item' = [i \in Ids |-> IF i \in {} THEN None ELSE item[i]]
    BY <1>7 DEF IInv, FilesTyped
  <2>3. Contract!ClearAllRecords(cutoff, {}, {}, {k})
    BY <1>2, <1>7, <2>1, <2>2 DEF Contract!ClearAllRecords
  <2>4. {k} \in SUBSET Keys
    BY DEF IInv, FilesTyped
  <2> QED
    BY <1>2, <2>3, <2>4, ClearsSome
<1> QED
  BY <1>3, <1>4, <1>5, <1>6, <1>7
-------------------------------------------------------------------------------
\* Every step of the files is a step of the contract or none of it.
LEMMA StepImplements == ASSUME IInv, Next PROVE Implements
<1>1. ASSUME NEW p \in Procs, Begin(p) PROVE Implements
  BY <1>1, BeginStutters, BeginClearImplements, BarrierImplements DEF Begin
<1>2. ASSUME Step PROVE Implements
  BY <1>2, StepStutters, UnlinkStaleIndexImplements, LinkIndexImplements,
     RenameImplements, UnlinkItemImplements, UnlinkOwnedIndexImplements,
     TombstoneImplements, SweepIndexesImplements, ClaimIndexImplements, WipeImplements
     DEF Step
<1> QED
  BY <1>1, <1>2, BeginStutters, StepStutters, ElapseImplements DEF Next

\* Whatever the numbers of items, keys, processes and faults: the queue as
\* files, cut short anywhere by a crash or a failed write, is an
\* implementation of the queue seen one item at a time.
THEOREM FilesImplementContract == Spec => ImplementsContract
<1>1. Init => Contract!QueueInit
  BY DEF Init, Contract!QueueInit, ValidSource, Valid
<1>2. IInv /\ [Next]_vars => [Contract!QueueNext]_(Contract!queueVars)
  <2>1. IInv /\ UNCHANGED vars => Implements
    BY UnmovedStutters DEF vars, Unmoved
  <2> QED
    BY <2>1, StepImplements DEF Implements
<1> QED
  BY <1>1, <1>2, InvariantHolds, PTL DEF Spec, ImplementsContract, Contract!QueueSpec
-------------------------------------------------------------------------------
(* CaptureReconciler *)

Maps ==
    /\ at = [l \in Line |-> at[l]]
    /\ queue = [i \in Identities |-> queue[i]]
    /\ row = [i \in Identities |-> row[i]]
    /\ capture = [on |-> capture.on, updatedAt |-> capture.updatedAt]

\* The host writes line after line; nothing is of a time that has not come.
Times ==
    /\ clock \in Nat \ {0} /\ half \in BOOLEAN
    /\ capture.updatedAt \in Nat /\ joined \in Nat
    /\ \A l \in Line : at[l] \in Nat /\ at[l] <= clock
    /\ \E k \in 0 .. Lines : Written = 1 .. k
    /\ unseen \subseteq Written

\* A line that was written and is not one of those nobody was to observe.
Seen(l) == l \in Written /\ l \notin unseen

\* An event that speaks of seen lines alone.
Known(i) == Seen(i[1]) /\ (i[2] = "derived" => Seen(Completes[i[1]]))

Taken ==
    /\ \A i \in live : i \in Identities /\ Known(i)
    /\ \A i \in Identities : Stored(i) => Known(i) /\ i \notin erased

\* A time after everything unseen
After(t) == t \in Nat \ {0} /\ \A l \in unseen : at[l] < t

JoinedLater == capture.on /\ joined # 0 => After(Minimum)

Looked == pass # Absent /\ pass.step = "looked"

PassForm ==
    /\ Looked => pass = [step |-> "looked", minimum |-> pass.minimum]
    /\ Reading => /\ pass = [step |-> "reading", retry |-> pass.retry, left |-> pass.left,
                             end |-> pass.end, todo |-> pass.todo]
                  /\ pass.end \in Int /\ pass.end <= Lines
                  /\ \/ pass.todo = <<>>
                     \/ \E l \in Line : Completes[l] # 0 /\ pass.todo = <<Derived(l)>>
    /\ pass # Absent => Looked \/ Reading

\* What a pass knows, and what is kept of it for the next one
Progress(p) ==
    /\ p = [minimum |-> p.minimum, line |-> p.line, observed |-> p.observed,
            pending |-> p.pending, replay |-> p.replay, complete |-> p.complete]
    /\ p.line \in Nat /\ p.minimum \in Nat \ {0}
    /\ \A l \in p.observed : l \in Line /\ at[l] >= p.minimum

ObservedSince ==
    /\ progress # Absent => Progress(progress)
    /\ Looked => After(pass.minimum)
    /\ Reading => Progress(progress) /\ After(progress.minimum)

ReconcilerInv == Maps /\ Times /\ Taken /\ JoinedLater /\ PassForm /\ ObservedSince
-------------------------------------------------------------------------------
(* The data *)

LEMMA WhatIdentitiesAre ==
    ASSUME NEW i
    PROVE  i \in Identities <=>
             \E l \in Line : i = Native(l) \/ (Completes[l] # 0 /\ i = Derived(l))
<1>1. \A l \in Line : ToSet(Values(l)) = IF Completes[l] = 0 THEN {Native(l)}
                                        ELSE {Native(l), Derived(l)}
  BY DEF ToSet, Values
<1> QED BY <1>1 DEF Identities

LEMMA LinesOfIdentities ==
    ASSUME NEW i \in Identities
    PROVE  /\ i[1] \in Line
           /\ i[2] = "derived" => Completes[i[1]] \in Line
<1>1. PICK l \in Line : i = Native(l) \/ (Completes[l] # 0 /\ i = Derived(l))
  BY WhatIdentitiesAre
<1> QED BY <1>1, LinesAssumption DEF Native, Derived, Line

LEMMA SizeOfPrefix ==
    ASSUME NEW k \in Nat, Written = 1 .. k PROVE Cardinality(Written) = k
BY FS_Interval

LEMMA LaterOfTwo ==
    ASSUME NEW a \in Nat, NEW b \in Nat
    PROVE  Max({a, b}) \in {a, b} /\ Max({a, b}) >= a /\ Max({a, b}) >= b
<1> DEFINE S == {a, b}
<1>1. \E x \in S : \A y \in S : x >= y
  OBVIOUS
<1> HIDE DEF S
<1>2. Max(S) \in S /\ \A y \in S : Max(S) >= y
  BY <1>1, Zenon DEF Max
<1> QED BY <1>2 DEF S

\* What memory a pass starts with
LEMMA FreshProgress ==
    ASSUME NEW m \in Nat \ {0} PROVE Progress(Fresh(m)) /\ Fresh(m).minimum = m
BY DEF Progress, Fresh

LEMMA ForgettingKeeps ==
    ASSUME NEW p, Progress(p), NEW i
    PROVE  Progress(Forget(p, i)) /\ Forget(p, i).minimum = p.minimum
<1>1. \A q : LET r == [p EXCEPT !.pending = q]
            IN  Progress(r) /\ r.minimum = p.minimum
  BY DEF Progress
<1>2. \E q : Forget(p, i) = [p EXCEPT !.pending = q]
  BY DEF Forget
<1> QED BY <1>1, <1>2, Zenon

LEMMA RememberingKeeps ==
    ASSUME NEW p, Progress(p), NEW i
    PROVE  Progress(Remember(p, i)) /\ Remember(p, i).minimum = p.minimum
<1>1. ASSUME NEW q, NEW r, r = [p EXCEPT !.pending = q] PROVE Progress(r) /\ r.minimum = p.minimum
  BY <1>1 DEF Progress
<1>2. ASSUME NEW q, NEW r, r = [p EXCEPT !.pending = q, !.replay = TRUE]
      PROVE  Progress(r) /\ r.minimum = p.minimum
  BY <1>2 DEF Progress
<1> DEFINE all == Append(Forget(p, i).pending, i)
<1>3. Remember(p, i) = IF Len(all) > MaxPending
                       THEN [p EXCEPT !.pending = Tail(all), !.replay = TRUE]
                       ELSE [p EXCEPT !.pending = all]
  BY Zenon DEF Remember
<1> QED BY <1>1, <1>2, <1>3, Zenon
-------------------------------------------------------------------------------
(* The host, the user and the live capture *)

\* A step of the pass, or one that changes at most what is stored.
LEMMA NothingOfTheHost ==
    ASSUME ReconcilerInv, UNCHANGED <<clock, at, half, unseen, capture, joined>>,
           live' \subseteq live,
           queue' = [i \in Identities |-> queue'[i]], row' = [i \in Identities |-> row'[i]],
           \A i \in Identities : Stored(i)' =>
                (Stored(i) \/ Known(i)) /\ i \notin erased',
           PassForm', ObservedSince'
    PROVE  ReconcilerInv'
<1>1. Maps' /\ Times' /\ JoinedLater'
  BY DEF ReconcilerInv, Maps, Times, JoinedLater, After, Written, Minimum
<1>2. \A i : Known(i)' <=> Known(i)
  BY DEF Known, Seen, Written
<1>3. Taken'
  BY <1>2 DEF ReconcilerInv, Taken
<1> QED BY <1>1, <1>3 DEF ReconcilerInv

LEMMA PassIsKept ==
    ASSUME ReconcilerInv, UNCHANGED <<pass, progress, at, unseen>>
    PROVE  PassForm' /\ ObservedSince'
BY DEF ReconcilerInv, PassForm, ObservedSince, Looked, Reading, Progress, After

\* A new line is unseen only if nobody looks, or looked before it was written.
LEMMA BeginKeeps == ASSUME ReconcilerInv, BeginLine PROVE ReconcilerInv'
<1>0. PICK l : l = Cardinality(Written) + 1
  OBVIOUS
<1>1. PICK k \in 0 .. Lines : Written = 1 .. k
  BY DEF ReconcilerInv, Times
<1>2. l = k + 1 /\ k < Lines /\ k \in Nat /\ l \in Line
  BY <1>0, <1>1, SizeOfPrefix, LinesAssumption DEF BeginLine, Line
<1>3. /\ at' = [at EXCEPT ![l] = clock + 1] /\ clock' = clock + 1 /\ half' = TRUE
      /\ unseen' = IF (capture.on /\ joined # 0) \/ pass # Absent THEN unseen ELSE unseen \cup {l}
      /\ UNCHANGED <<capture, queue, row, erased, joined, progress, pass>>
  BY <1>0 DEF BeginLine, storeVars, passVars
<1>4. live' \subseteq live \/ (capture.on /\ joined # 0 /\ live' \subseteq
        live \cup {i \in ToSet(Values(l)) :
                      i = Derived(l) => at[Completes[l]] >= joined /\ Completes[l] \notin unseen})
  BY <1>0 DEF BeginLine
<1>5. \A m \in Line : at'[m] = IF m = l THEN clock + 1 ELSE at[m]
  BY <1>2, <1>3 DEF ReconcilerInv, Maps
<1>6. l \notin Written /\ at[l] = 0
  BY <1>1, <1>2 DEF Written
<1>7. Written' = Written \cup {l}
  <2>1. clock + 1 # 0
    BY DEF ReconcilerInv, Times
  <2> QED BY <1>2, <1>5, <2>1 DEF Written
<1>8. Written' = 1 .. k + 1 /\ k + 1 \in 0 .. Lines
  BY <1>1, <1>2, <1>7, LinesAssumption
<1>9. Maps'
  BY <1>3 DEF ReconcilerInv, Maps
<1>10. Times'
  <2>1. unseen' \subseteq Written'
    BY <1>3, <1>7 DEF ReconcilerInv, Times
  <2> QED BY <1>3, <1>5, <1>8, <2>1 DEF ReconcilerInv, Times
<1>11. \A i : Known(i) => Known(i)'
  BY <1>3, <1>6, <1>7 DEF Known, Seen
<1>12. \A i \in live' : i \in Identities /\ Known(i)'
  <2>1. ASSUME NEW i \in ToSet(Values(l)), capture.on /\ joined # 0,
               i = Derived(l) => at[Completes[l]] >= joined /\ Completes[l] \notin unseen
        PROVE  i \in Identities /\ Known(i)'
    <3>1. i = Native(l) \/ (Completes[l] # 0 /\ i = Derived(l))
      BY <2>1 DEF ToSet, Values
    <3>2. i \in Identities
      BY <1>2, <3>1, WhatIdentitiesAre
    <3>3. Seen(l)'
      BY <1>3, <1>6, <1>7, <2>1 DEF Seen, ReconcilerInv, Times
    <3>4. CASE i = Native(l)
      BY <3>2, <3>3, <3>4 DEF Known, Native
    <3>5. CASE Completes[l] # 0 /\ i = Derived(l)
      <4>1. Completes[l] \in Line
        BY <1>2, <3>5, LinesAssumption DEF Line
      <4>2. at[Completes[l]] # 0
        BY <2>1, <3>5, <4>1 DEF ReconcilerInv, Times
      <4>3. Seen(Completes[l])'
        BY <1>3, <1>7, <2>1, <3>5, <4>1, <4>2 DEF Seen, Written
      <4> QED BY <3>2, <3>3, <3>5, <4>3 DEF Known, Derived
    <3> QED BY <3>1, <3>4, <3>5
  <2> QED BY <1>4, <1>11, <2>1 DEF ReconcilerInv, Taken
<1>13. Taken'
  BY <1>3, <1>11, <1>12 DEF ReconcilerInv, Taken, Stored
<1>14. \A t : After(t) /\ unseen' = unseen => After(t)'
  BY <1>5, <1>6 DEF After, ReconcilerInv, Times, Written
<1>15. JoinedLater'
  BY <1>3, <1>14 DEF ReconcilerInv, JoinedLater, Minimum
<1>16. \A p : Progress(p) => Progress(p)'
  BY <1>5, <1>6 DEF Progress
<1>17. ObservedSince' /\ PassForm'
  BY <1>3, <1>14, <1>16 DEF ReconcilerInv, ObservedSince, PassForm, Looked, Reading
<1> QED BY <1>9, <1>10, <1>13, <1>15, <1>17 DEF ReconcilerInv

\* The time of a toggle or a joining is after all that was written before it.
LEMMA NowIsAfter == ASSUME ReconcilerInv PROVE After(clock + 1) /\ \A l \in unseen : at[l] <= clock
BY DEF ReconcilerInv, Times, After, Written

LEMMA LaterIsAfter ==
    ASSUME ReconcilerInv, NEW a \in Nat, NEW b \in Nat, After(a) \/ After(b)
    PROVE  After(Max({a, b}))
<1>1. Max({a, b}) \in Nat /\ Max({a, b}) >= a /\ Max({a, b}) >= b
  BY LaterOfTwo
<1>2. \A l \in unseen : at[l] \in Nat
  BY DEF ReconcilerInv, Times, Written
<1> QED BY <1>1, <1>2 DEF After

LEMMA ToggleKeeps == ASSUME ReconcilerInv, Toggle PROVE ReconcilerInv'
<1>1. /\ clock' = clock + 1 /\ capture' = [on |-> ~ capture.on, updatedAt |-> clock + 1]
      /\ UNCHANGED <<at, half, unseen, live, queue, row, erased, joined, progress, pass>>
  BY DEF Toggle, storeVars, passVars
<1>2. /\ clock + 1 \in Nat /\ joined \in Nat /\ clock \in Nat
      /\ capture'.updatedAt = clock + 1
  BY <1>1 DEF ReconcilerInv, Times
<1>3. After(Max({clock + 1, joined}))
  BY <1>2, NowIsAfter, LaterIsAfter
<1>4. JoinedLater'
  BY <1>1, <1>2, <1>3 DEF JoinedLater, Minimum, After
<1>5. Maps'
  BY <1>1 DEF ReconcilerInv, Maps
<1>6. Times'
  BY <1>1, <1>2 DEF ReconcilerInv, Times, Written
<1>7. Taken'
  BY <1>1 DEF ReconcilerInv, Taken, Stored, Known, Seen, Written
<1> QED BY <1>1, <1>4, <1>5, <1>6, <1>7, PassIsKept DEF ReconcilerInv

LEMMA JoinKeeps == ASSUME ReconcilerInv, Join PROVE ReconcilerInv'
<1>1. /\ clock' = clock + 1 /\ joined' = clock + 1
      /\ UNCHANGED <<at, half, unseen, live, queue, row, erased, capture, progress, pass>>
  BY DEF Join, storeVars, passVars
<1>2. /\ clock + 1 \in Nat /\ capture.updatedAt \in Nat /\ clock \in Nat
  BY DEF ReconcilerInv, Times
<1>3. After(Max({capture.updatedAt, clock + 1}))
  BY <1>2, NowIsAfter, LaterIsAfter
<1>4. JoinedLater'
  BY <1>1, <1>3 DEF JoinedLater, Minimum, After
<1>5. Maps'
  BY <1>1 DEF ReconcilerInv, Maps
<1>6. Times'
  BY <1>1, <1>2 DEF ReconcilerInv, Times, Written
<1>7. Taken'
  BY <1>1 DEF ReconcilerInv, Taken, Stored, Known, Seen, Written
<1> QED BY <1>1, <1>4, <1>5, <1>6, <1>7, PassIsKept DEF ReconcilerInv

\* Its end takes everything along that is only in memory.
LEMMA LeaveKeeps == ASSUME ReconcilerInv, Leave PROVE ReconcilerInv'
<1>1. /\ joined' = 0 /\ live' = {} /\ progress' = Absent /\ pass' = Absent
      /\ UNCHANGED <<clock, at, half, unseen, queue, row, erased, capture>>
  BY DEF Leave, storeVars, hostVars
<1>2. PassForm' /\ ObservedSince' /\ JoinedLater'
  BY <1>1 DEF PassForm, ObservedSince, JoinedLater, Looked, Reading
<1>3. Maps' /\ Times'
  BY <1>1 DEF ReconcilerInv, Maps, Times, Written
<1>4. Taken'
  BY <1>1 DEF ReconcilerInv, Taken, Stored, Known, Seen, Written
<1> QED BY <1>2, <1>3, <1>4 DEF ReconcilerInv

\* The end of a line, and a deletion that begins
LEMMA SmallStepsKeep == ASSUME ReconcilerInv, End \/ Delete \/ UNCHANGED reconcilerVars PROVE ReconcilerInv'
<1>1. /\ UNCHANGED <<clock, at, unseen, live, queue, row, erased, capture, joined, progress, pass>>
      /\ half' \in BOOLEAN
  BY DEF End, Delete, reconcilerVars, hostVars, storeVars, passVars, ReconcilerInv, Times
<1>2. Maps' /\ Times' /\ JoinedLater'
  BY <1>1 DEF ReconcilerInv, Maps, Times, Written, JoinedLater, Minimum, After
<1>3. Taken'
  BY <1>1 DEF ReconcilerInv, Taken, Stored, Known, Seen, Written
<1> QED BY <1>1, <1>2, <1>3, PassIsKept DEF ReconcilerInv

LEMMA SubmitKeeps == ASSUME ReconcilerInv, NEW i \in Identities, Submit(i) PROVE ReconcilerInv'
<1>1. /\ i \in live /\ live' = live \ {i}
      /\ UNCHANGED <<clock, at, half, unseen, row, erased, capture, joined, progress, pass>>
      /\ \/ UNCHANGED queue
         \/ i \notin erased /\ \E copy : queue' = [queue EXCEPT ![i] = copy]
  BY DEF Submit, hostVars, storeVars, passVars, Duplicate, Blocked
<1>2. /\ queue' = [j \in Identities |-> queue'[j]]
      /\ \A j \in Identities : j # i => queue'[j] = queue[j]
      /\ i \notin erased \/ queue' = queue
  BY <1>1 DEF ReconcilerInv, Maps
<1>3. Known(i)
  BY <1>1 DEF ReconcilerInv, Taken
<1>4. \A j \in Identities : Stored(j)' => (Stored(j) \/ Known(j)) /\ j \notin erased'
  BY <1>1, <1>2, <1>3 DEF Stored, ReconcilerInv, Taken
<1>5. row' = [j \in Identities |-> row'[j]]
  BY <1>1 DEF ReconcilerInv, Maps
<1> QED BY <1>1, <1>2, <1>4, <1>5, PassIsKept, NothingOfTheHost

LEMMA WorkKeeps == ASSUME ReconcilerInv, Work PROVE ReconcilerInv'
<1>1. /\ row' = [i \in Identities |-> IF row[i] # Absent \/ i \in erased THEN row[i] ELSE queue[i]]
      /\ queue' = [i \in Identities |-> Absent]
      /\ UNCHANGED <<clock, at, half, unseen, live, erased, capture, joined, progress, pass>>
  BY DEF Work, hostVars, passVars, Blocked
<1>2. \A i \in Identities : Stored(i)' => (Stored(i) \/ Known(i)) /\ i \notin erased'
  BY <1>1 DEF Stored, ReconcilerInv, Taken
<1>3. /\ queue' = [i \in Identities |-> queue'[i]]
      /\ row' = [i \in Identities |-> row'[i]]
  BY <1>1
<1> QED BY <1>1, <1>2, <1>3, PassIsKept, NothingOfTheHost

LEMMA EraseKeeps == ASSUME ReconcilerInv, Erase PROVE ReconcilerInv'
<1> DEFINE ids == {Native(l) : l \in Victims}
<1>1. /\ erased' = erased \cup ids
      /\ row' = [i \in Identities |-> IF i \in ids THEN Absent ELSE row[i]]
      /\ queue' = [i \in Identities |-> IF i \in ids THEN Absent ELSE queue[i]]
      /\ UNCHANGED <<clock, at, half, unseen, live, capture, joined, progress, pass>>
  BY DEF Erase, hostVars, passVars
<1> HIDE DEF ids
<1>2. \A i \in Identities : Stored(i)' => (Stored(i) \/ Known(i)) /\ i \notin erased'
  BY <1>1 DEF Stored, ReconcilerInv, Taken
<1>3. /\ queue' = [i \in Identities |-> queue'[i]]
      /\ row' = [i \in Identities |-> row'[i]]
  BY <1>1
<1> QED BY <1>1, <1>2, <1>3, PassIsKept, NothingOfTheHost
-------------------------------------------------------------------------------
(* A pass *)

\* What a step of a pass that touches nothing but the pass has to show.
LEMMA PassAloneKeeps ==
    ASSUME ReconcilerInv, UNCHANGED <<hostVars, capture, live, queue, storeVars, joined>>,
           PassForm', ObservedSince'
    PROVE  ReconcilerInv'
<1>1. \A i \in Identities : Stored(i)' => (Stored(i) \/ Known(i)) /\ i \notin erased'
  BY DEF Stored, ReconcilerInv, Taken, storeVars
<1>2. /\ queue' = [i \in Identities |-> queue'[i]]
      /\ row' = [i \in Identities |-> row'[i]]
  BY DEF ReconcilerInv, Maps, storeVars
<1> QED BY <1>1, <1>2, NothingOfTheHost DEF hostVars

LEMMA LookKeeps == ASSUME ReconcilerInv, Look PROVE ReconcilerInv'
<1>1. /\ pass = Absent /\ joined # 0 /\ capture.on
      /\ pass' = [step |-> "looked", minimum |-> Minimum]
      /\ UNCHANGED <<hostVars, capture, live, queue, storeVars, joined, progress>>
      /\ UNCHANGED <<at, unseen>>
  BY DEF Look, hostVars
<1>2. /\ pass'.step = "looked" /\ pass'.minimum = Minimum
      /\ pass' = [step |-> "looked", minimum |-> pass'.minimum]
  BY <1>1
<1>3. After(Minimum)
  BY <1>1 DEF ReconcilerInv, JoinedLater
<1>4. PassForm'
  BY <1>2 DEF PassForm, Looked, Reading
<1>5. ObservedSince'
  BY <1>1, <1>2, <1>3 DEF ReconcilerInv, ObservedSince, Looked, Reading, Progress, After
<1> QED BY <1>1, <1>4, <1>5, PassAloneKeeps

\* What it remembers was observed since the time it looks back to now.
LEMMA OpenKeeps == ASSUME ReconcilerInv, Open PROVE ReconcilerInv'
<1>1. /\ Looked /\ After(pass.minimum) /\ pass.minimum \in Nat \ {0}
  BY DEF Open, ReconcilerInv, ObservedSince, Looked, After
<1>2. /\ progress' = Remembered(pass.minimum)
      /\ \E retry, left : pass' = [step |-> "reading", retry |-> retry, left |-> left,
                                   end |-> Readable, todo |-> <<>>]
      /\ UNCHANGED <<hostVars, capture, live, queue, storeVars, joined>>
      /\ UNCHANGED <<at, unseen>>
  BY DEF Open, hostVars
<1>3. Progress(progress') /\ progress'.minimum = pass.minimum
  <2>1. CASE Remembered(pass.minimum) = Fresh(pass.minimum)
    BY <1>1, <1>2, <2>1, FreshProgress
  <2>2. CASE progress # Absent /\ progress.minimum = pass.minimum
             /\ Remembered(pass.minimum) = progress
    BY <1>2, <2>2 DEF ReconcilerInv, ObservedSince
  <2> QED BY <2>1, <2>2 DEF Remembered
<1>4. Readable \in Int /\ Readable <= Lines
  <2>1. PICK k \in 0 .. Lines : Written = 1 .. k
    BY DEF ReconcilerInv, Times
  <2>2. k \in Nat /\ k <= Lines /\ Cardinality(Written) = k
    BY <2>1, SizeOfPrefix, LinesAssumption
  <2> QED BY <2>2, LinesAssumption DEF Readable, Size
<1>5. PassForm'
  BY <1>2, <1>4 DEF PassForm, Looked, Reading
<1>6. ObservedSince'
  <2>1. After(progress'.minimum)
    BY <1>1, <1>3
  <2>2. (\A l \in unseen' : at'[l] < progress'.minimum) /\ progress'.minimum \in Nat \ {0}
    BY <1>2, <2>1 DEF After
  <2> QED BY <1>2, <1>3, <2>2 DEF ObservedSince, Looked, Reading, Progress, After
<1> QED BY <1>2, <1>5, <1>6, PassAloneKeeps

\* A reading pass goes on with progress of the same time.
LEMMA ReadingGoesOn ==
    ASSUME ReconcilerInv, Reading, UNCHANGED <<at, unseen>>,
           Progress(progress'), progress'.minimum = progress.minimum,
           pass'.step = "reading"
    PROVE  ObservedSince'
<1>1. After(progress.minimum)
  BY DEF ReconcilerInv, ObservedSince
<1>2. (\A l \in unseen' : at'[l] < progress'.minimum) /\ progress'.minimum \in Nat \ {0}
  BY <1>1 DEF After
<1> QED BY <1>2 DEF ObservedSince, Looked, Reading, Progress, After

\* The form of a pass that reads
Reads(p) == p = [step |-> p.step, retry |-> p.retry, left |-> p.left, end |-> p.end, todo |-> p.todo]

HandedOn(p, q, todo) == \E left : q = [p EXCEPT !.todo = todo, !.left = left]

LEMMA ReadingForm ==
    ASSUME Reading, PassForm, pass'.step = "reading", Reads(pass'), pass'.end = pass.end,
           \/ pass'.todo = <<>>
           \/ \E l \in Line : Completes[l] # 0 /\ pass'.todo = <<Derived(l)>>
    PROVE  PassForm'
BY DEF PassForm, Looked, Reading, Reads

\* A repair touches only what the store has, and nothing deleted.
LEMMA RepairKeeps ==
    ASSUME ReconcilerInv, NEW p, Progress(p), NEW i, row[i] # Absent, Repair(p, i)
    PROVE  /\ Progress(progress') /\ progress'.minimum = p.minimum
           /\ row' = [j \in Identities |-> row'[j]]
           /\ \A j \in Identities : row'[j] # Absent => row[j] # Absent
<1>1. progress' = Forget(p, i)
  BY DEF Repair
<1>2. (\E copy : row' = [row EXCEPT ![i] = copy]) \/ row' = row
  BY DEF Repair
<1>3. /\ row' = [j \in Identities |-> row'[j]]
      /\ \A j \in Identities : row'[j] # Absent => row[j] # Absent
  BY <1>2 DEF ReconcilerInv, Maps
<1> QED BY <1>1, <1>3, ForgettingKeeps

LEMMA RetryKeeps == ASSUME ReconcilerInv, Retry PROVE ReconcilerInv'
<1>1. /\ Reading /\ Progress(progress)
      /\ pass' = [pass EXCEPT !.retry = Tail(@)]
      /\ UNCHANGED <<hostVars, capture, live, queue, erased, joined>>
      /\ UNCHANGED <<at, unseen>>
  BY DEF Retry, ReconcilerInv, ObservedSince, hostVars
<1>2. PassForm' /\ pass'.step = "reading"
  <2>1. ASSUME NEW p, NEW q, NEW r, Reads(p), q = [p EXCEPT !.retry = r]
        PROVE  Reads(q) /\ q.step = p.step /\ q.end = p.end /\ q.todo = p.todo
    BY <2>1 DEF Reads
  <2>2. /\ Reads(pass) /\ pass.step = "reading"
        /\ pass.todo = <<>> \/ \E l \in Line : Completes[l] # 0 /\ pass.todo = <<Derived(l)>>
    BY <1>1 DEF ReconcilerInv, PassForm, Reads, Reading
  <2>3. \E r : pass' = [pass EXCEPT !.retry = r]
    BY <1>1
  <2>4. Reads(pass') /\ pass'.step = pass.step /\ pass'.end = pass.end /\ pass'.todo = pass.todo
    BY <2>1, <2>2, <2>3, Zenon
  <2> QED BY <1>1, <2>2, <2>4, ReadingForm DEF ReconcilerInv
<1> DEFINE i == Head(pass.retry)
<1>3. \/ row[i] = Absent /\ progress' = [progress EXCEPT !.pending = Append(Forget(progress, i).pending, i)]
                       /\ row' = row
      \/ row[i] # Absent /\ progress' = Forget(progress, i) /\ row' = row
      \/ row[i] # Absent /\ Repair(progress, i)
  BY DEF Retry
<1> HIDE DEF i
<1>4. ASSUME NEW q, NEW r, r = [progress EXCEPT !.pending = q]
      PROVE  Progress(r) /\ r.minimum = progress.minimum
  BY <1>1, <1>4 DEF Progress
<1>5. /\ Progress(progress') /\ progress'.minimum = progress.minimum
      /\ row' = [j \in Identities |-> row'[j]]
      /\ \A j \in Identities : row'[j] # Absent => row[j] # Absent
  <2>0. row = [j \in Identities |-> row[j]]
    BY DEF ReconcilerInv, Maps
  <2>1. CASE progress' = [progress EXCEPT !.pending = Append(Forget(progress, i).pending, i)]
             /\ row' = row
    BY <1>4, <2>0, <2>1, Zenon
  <2>2. CASE progress' = Forget(progress, i) /\ row' = row
    BY <1>1, <2>0, <2>2, ForgettingKeeps
  <2>3. CASE row[i] # Absent /\ Repair(progress, i)
    BY <1>1, <2>3, RepairKeeps
  <2> QED BY <1>3, <2>1, <2>2, <2>3
<1>6. ObservedSince'
  BY <1>1, <1>2, <1>5, ReadingGoesOn
<1>7. \A j \in Identities : Stored(j)' => (Stored(j) \/ Known(j)) /\ j \notin erased'
  BY <1>1, <1>5 DEF Stored, ReconcilerInv, Taken
<1>8. queue' = [j \in Identities |-> queue'[j]] /\ live' \subseteq live
  BY <1>1 DEF ReconcilerInv, Maps
<1> QED BY <1>1, <1>2, <1>5, <1>6, <1>7, <1>8, NothingOfTheHost DEF hostVars

\* What was observed since the time of a pass is not unseen.
LEMMA ObservedIsKnown ==
    ASSUME ReconcilerInv, Reading, NEW i \in Identities, Observed(i)
    PROVE  Known(i)
<1>1. Progress(progress) /\ After(progress.minimum)
  BY DEF ReconcilerInv, ObservedSince
<1>2. i[1] \in Line /\ (i[2] = "derived" => Completes[i[1]] \in Line)
  BY LinesOfIdentities
<1>3. \A l \in Line : at[l] \in Nat /\ (at[l] >= progress.minimum => Seen(l))
  BY <1>1 DEF ReconcilerInv, Times, After, Progress, Seen, Written
<1>4. Seen(i[1])
  BY <1>2, <1>3 DEF Observed
<1>5. ASSUME i[2] = "derived" PROVE Seen(Completes[i[1]])
  <2>1. Completes[i[1]] \in Line /\ Completes[i[1]] # 0
    BY <1>2, <1>5 DEF Line
  <2>2. at[Completes[i[1]]] >= progress.minimum
    BY <1>1, <2>1 DEF Observed, Progress
  <2> QED BY <1>3, <2>1, <2>2
<1> QED BY <1>4, <1>5 DEF Known

\* The events of a line are handled one after the other.
LEMMA WhatIsToDo ==
    ASSUME ReconcilerInv, Reading, Todo # <<>>
    PROVE  /\ Head(Todo) \in Identities
           /\ Head(Todo)[1] \in Line
           /\ \/ Tail(Todo) = <<>>
              \/ \E l \in Line : Completes[l] # 0 /\ Tail(Todo) = <<Derived(l)>>
<1>1. CASE \E l \in Line : Completes[l] # 0 /\ Todo = <<Derived(l)>>
  <2>1. PICK l \in Line : Completes[l] # 0 /\ Todo = <<Derived(l)>>
    BY <1>1
  <2>2. Head(Todo) = Derived(l) /\ Tail(Todo) = <<>>
    BY <2>1
  <2> QED BY <2>1, <2>2, WhatIdentitiesAre DEF Derived
<1>2. CASE \E l \in Line : Todo = Values(l)
  <2>1. PICK l \in Line : Todo = Values(l)
    BY <1>2
  <2>2. Head(Todo) = Native(l)
    BY <2>1 DEF Values
  <2>3. Tail(Todo) = <<>> \/ (Completes[l] # 0 /\ Tail(Todo) = <<Derived(l)>>)
    BY <2>1 DEF Values
  <2>4. Native(l) \in Identities
    BY WhatIdentitiesAre
  <2>5. Native(l)[1] \in Line
    BY DEF Native
  <2> QED BY <2>2, <2>3, <2>4, <2>5, Zenon
<1>3. progress.line \in Nat /\ pass.end \in Int /\ pass.end <= Lines
  BY DEF ReconcilerInv, ObservedSince, Progress, PassForm
<1>4. progress.line < pass.end => progress.line + 1 \in Line
  BY <1>3, LinesAssumption DEF Line
<1>5. \/ pass.todo = <<>>
      \/ \E l \in Line : Completes[l] # 0 /\ pass.todo = <<Derived(l)>>
  BY DEF ReconcilerInv, PassForm
<1> QED BY <1>1, <1>2, <1>4, <1>5 DEF Todo

\* A line that was handled: the pass remembers whether it was observed.
LEMMA HandlingKeeps ==
    ASSUME NEW p, Progress(p), NEW r, NEW line \in Nat, NEW observed,
           \A l \in observed : l \in Line /\ at[l] >= p.minimum,
           r = [p EXCEPT !.line = line, !.observed = observed]
    PROVE  Progress(r) /\ r.minimum = p.minimum
BY DEF Progress

LEMMA HandleKeeps == ASSUME ReconcilerInv, Handle PROVE ReconcilerInv'
<1> DEFINE i == Head(Todo)
           last == Len(Todo) = 1
           new == Observed(i) /\ row[i] = Absent
           line == IF last THEN progress.line + 1 ELSE progress.line
           observed == IF Observed(i) THEN progress.observed \cup {i[1]} ELSE progress.observed
           p == [progress EXCEPT !.line = line, !.observed = observed]
<1>1. /\ Reading /\ Todo # <<>> /\ Progress(progress)
      /\ \E left : pass' = [pass EXCEPT !.todo = Tail(Todo), !.left = left]
      /\ UNCHANGED <<hostVars, capture, live, erased, joined>>
      /\ UNCHANGED <<at, unseen>>
  BY DEF Handle, ReconcilerInv, ObservedSince, hostVars
<1>2. queue' = IF new /\ ~ Duplicate(i) THEN [queue EXCEPT ![i] = FileCopy(i)] ELSE queue
  BY DEF Handle
<1>3. \/ Observed(i) /\ ~ new /\ Repair(p, i)
      \/ progress' = Remember(p, i) /\ row' = row
      \/ progress' = p /\ row' = row
  BY DEF Handle
<1>4. /\ i \in Identities /\ i[1] \in Line
      /\ \/ Tail(Todo) = <<>>
         \/ \E l \in Line : Completes[l] # 0 /\ Tail(Todo) = <<Derived(l)>>
  BY <1>1, WhatIsToDo
<1>5. Observed(i) => Known(i)
  BY <1>1, <1>4, ObservedIsKnown
<1>6. Progress(p) /\ p.minimum = progress.minimum
  <2>1. line \in Nat
    BY <1>1 DEF Progress
  <2>2. \A l \in observed : l \in Line /\ at[l] >= progress.minimum
    BY <1>1, <1>4 DEF Progress, Observed
  <2> HIDE DEF line, observed
  <2> QED BY <1>1, <2>1, <2>2, HandlingKeeps, Zenon
<1> HIDE DEF p, i
<1>7. /\ Progress(progress') /\ progress'.minimum = progress.minimum
      /\ row' = [j \in Identities |-> row'[j]]
      /\ \A j \in Identities : row'[j] # Absent => row[j] # Absent
  <2>0. row = [j \in Identities |-> row[j]]
    BY DEF ReconcilerInv, Maps
  <2>1. CASE Observed(i) /\ ~ new /\ Repair(p, i)
    BY <1>6, <2>1, RepairKeeps
  <2>2. CASE progress' = Remember(p, i) /\ row' = row
    BY <1>6, <2>0, <2>2, RememberingKeeps
  <2>3. CASE progress' = p /\ row' = row
    BY <1>6, <2>0, <2>3
  <2> QED BY <1>3, <2>1, <2>2, <2>3
<1>8. PassForm' /\ pass'.step = "reading"
  <2>1. ASSUME NEW a, NEW b, NEW todo, Reads(a), HandedOn(a, b, todo)
        PROVE  Reads(b) /\ b.step = a.step /\ b.end = a.end /\ b.todo = todo
    BY <2>1 DEF Reads, HandedOn
  <2>2. Reads(pass) /\ pass.step = "reading"
    BY <1>1 DEF ReconcilerInv, PassForm, Reads, Reading
  <2>3. HandedOn(pass, pass', Tail(Todo))
    BY <1>1 DEF HandedOn
  <2>4. Reads(pass') /\ pass'.step = pass.step /\ pass'.end = pass.end /\ pass'.todo = Tail(Todo)
    BY <2>1, <2>2, <2>3, Zenon
  <2> QED BY <1>1, <1>4, <2>2, <2>4, ReadingForm DEF ReconcilerInv
<1>9. ObservedSince'
  BY <1>1, <1>7, <1>8, ReadingGoesOn
<1>10. /\ queue' = [j \in Identities |-> queue'[j]]
       /\ \A j \in Identities : queue'[j] # Absent => queue[j] # Absent \/ (j = i /\ new /\ i \notin erased)
  <2>1. (queue' = [queue EXCEPT ![i] = FileCopy(i)] /\ new /\ i \notin erased) \/ queue' = queue
    BY <1>2 DEF Duplicate, Blocked
  <2> HIDE DEF new
  <2> QED BY <2>1 DEF ReconcilerInv, Maps
<1>11. \A j \in Identities : Stored(j)' => (Stored(j) \/ Known(j)) /\ j \notin erased'
  BY <1>1, <1>5, <1>7, <1>10 DEF Stored, ReconcilerInv, Taken
<1>12. live' \subseteq live
  BY <1>1
<1> QED BY <1>1, <1>7, <1>8, <1>9, <1>10, <1>11, <1>12, NothingOfTheHost DEF hostVars

LEMMA FailKeeps == ASSUME ReconcilerInv, Fail PROVE ReconcilerInv'
<1>1. /\ pass' = Absent /\ progress' = Absent
      /\ UNCHANGED <<hostVars, capture, live, queue, storeVars, joined>>
  BY DEF Fail
<1>2. PassForm' /\ ObservedSince'
  BY <1>1 DEF PassForm, ObservedSince, Looked, Reading
<1> QED BY <1>1, <1>2, PassAloneKeeps

LEMMA FinishKeeps == ASSUME ReconcilerInv, Finish PROVE ReconcilerInv'
<1>1. /\ pass' = Absent /\ Progress(progress)
      /\ \E end : progress' = [progress EXCEPT !.complete = end]
      /\ UNCHANGED <<hostVars, capture, live, queue, storeVars, joined>>
      /\ UNCHANGED <<at, unseen>>
  BY DEF Finish, ReconcilerInv, ObservedSince, hostVars
<1>2. ASSUME NEW r, NEW end, r = [progress EXCEPT !.complete = end] PROVE Progress(r)
  BY <1>1, <1>2 DEF Progress
<1>3. Progress(progress')
  BY <1>1, <1>2, Zenon
<1>4. PassForm' /\ ObservedSince'
  BY <1>1, <1>3 DEF PassForm, ObservedSince, Looked, Reading, Progress
<1> QED BY <1>1, <1>4, PassAloneKeeps
-------------------------------------------------------------------------------
LEMMA InitHolds == ASSUME ReconcilerInit PROVE ReconcilerInv
<1>1. /\ clock = 1 /\ at = [l \in Line |-> 0] /\ half = FALSE /\ unseen = {}
      /\ \E on \in BOOLEAN : capture = [on |-> on, updatedAt |-> 1]
      /\ live = {} /\ queue = [i \in Identities |-> Absent] /\ row = [i \in Identities |-> Absent]
      /\ joined = 0 /\ progress = Absent /\ pass = Absent
  BY DEF ReconcilerInit
<1>2. Maps
  BY <1>1 DEF Maps
<1>3. Written = {} /\ Written = 1 .. 0 /\ 0 \in 0 .. Lines
  BY <1>1, LinesAssumption DEF Written
<1>4. Times
  <2>1. \E k \in 0 .. Lines : Written = 1 .. k
    BY <1>3
  <2>2. /\ clock \in Nat \ {0} /\ half \in BOOLEAN /\ capture.updatedAt \in Nat /\ joined \in Nat
        /\ unseen \subseteq Written /\ \A l \in Line : at[l] \in Nat /\ at[l] <= clock
    <3>1. PICK on : capture = [on |-> on, updatedAt |-> 1]
      BY <1>1
    <3>2. capture.updatedAt = 1
      BY <3>1
    <3>3. \A l \in Line : at[l] = 0
      BY <1>1
    <3>4. clock = 1 /\ half \in BOOLEAN /\ unseen = {} /\ joined = 0
      BY <1>1
    <3> QED BY <3>2, <3>3, <3>4
  <2> QED BY <2>1, <2>2 DEF Times
<1>5. Taken
  BY <1>1 DEF Taken, Stored
<1>6. JoinedLater /\ PassForm /\ ObservedSince
  BY <1>1 DEF JoinedLater, PassForm, ObservedSince, Looked, Reading
<1> QED BY <1>2, <1>4, <1>5, <1>6 DEF ReconcilerInv

LEMMA NextKeeps == ASSUME ReconcilerInv, [ReconcilerNext]_reconcilerVars PROVE ReconcilerInv'
BY BeginKeeps, ToggleKeeps, JoinKeeps, LeaveKeeps, SmallStepsKeep, SubmitKeeps, WorkKeeps,
   EraseKeeps, LookKeeps, OpenKeeps, RetryKeeps, HandleKeeps, FailKeeps, FinishKeeps
   DEF ReconcilerNext, Loop, PassStep

\* While capture is on and the extension has joined, the time from which a pass
\* takes lines is after every line nobody was to observe, and every pass keeps one.
THEOREM ReconcilerInvariantHolds == ReconcilerSpec => []ReconcilerInv
<1>1. ReconcilerInit => ReconcilerInv
  BY InitHolds
<1>2. ReconcilerInv /\ [ReconcilerNext]_reconcilerVars => ReconcilerInv'
  BY NextKeeps
<1> QED BY <1>1, <1>2, PTL DEF ReconcilerSpec

\* Neither the queue nor the store ever has an event that speaks of a line of a time
\* when the extension had not joined or capture was off, nor one that was deleted.
THEOREM OnlyTheObservedIsTaken == ReconcilerSpec => []OnlyTheObserved
<1>1. ASSUME ReconcilerInv, NEW l \in unseen, NEW i \in Speaking(l) PROVE ~ Stored(i)
  <2>1. i \in Identities /\ (i[1] = l \/ (i[2] = "derived" /\ Completes[i[1]] = l))
    BY DEF Speaking
  <2>2. ~ Known(i)
    BY <2>1 DEF Known, Seen
  <2> QED BY <1>1, <2>1, <2>2 DEF ReconcilerInv, Taken
<1>2. ASSUME ReconcilerInv PROVE \A i \in Identities : Stored(i) => i \notin erased
  BY <1>2 DEF ReconcilerInv, Taken
<1>3. ReconcilerInv => OnlyTheObserved
  BY <1>1, <1>2, Zenon DEF OnlyTheObserved
<1> QED BY <1>3, ReconcilerInvariantHolds, PTL
===============================================================================
