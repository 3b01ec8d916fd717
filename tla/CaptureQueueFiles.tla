-------------------------- MODULE CaptureQueueFiles ---------------------------
(***************************************************************************)
(* WindowsCaptureQueue as the files it keeps.  An item is one JSON file;   *)
(* .source-<key>.idx reserves a source, names under .active and            *)
(* .acknowledged let the worker find items without reading every file, and *)
(* .deletion holds the barrier and the tombstones.                         *)
(*                                                                         *)
(* Each operation is the sequence of file writes it performs.  The named   *)
(* pipe lease lets one operation of one process run at a time, so `op` is  *)
(* the only operation in progress.  A process may die between two writes   *)
(* (Crash: the operating system drops its lease) and a write may fail      *)
(* (WriteError: the operation throws).  Left out are the temporary files   *)
(* (only deletion reads them, to sweep what a crash left) and the          *)
(* quarantine, where a file that does not parse is put aside.              *)
(***************************************************************************)
EXTENDS CaptureIdentities, Naturals, FiniteSets

CONSTANTS
    Ids, MaxAttempts, None,
    Procs,        \* processes that open the queue; each is its own claimant
    SelfTestKeys, \* keys published with enqueue rather than enqueueIfSourceAbsent
    MaxClaims,    \* bound on the attempts of an item
    MaxFaults     \* bound on crashes and write errors

VARIABLES
    item, barrier, blocked, cutoff,
    index,     \* content of .source-<key>.idx: an id, or None when absent
    active,    \* names under .active
    acked,     \* names under .acknowledged
    migrated,  \* the .indexes-v2 marker exists
    ready,     \* processes whose queue object is initialized
    names,     \* per process, the claim candidates left from its last listing
    op,        \* the operation holding the lease, or None
    wiping,    \* a records reset has begun and not finished
    faults     \* crashes and write errors so far

vars == <<item, barrier, blocked, cutoff, index, active, acked, migrated,
          ready, names, op, wiping, faults>>

\* An index names an item that exists and has its key, or it is treated as
\* absent and removed when met (#validatedSourceIndex).
Valid(k) == index[k] # None /\ item[index[k]] # None /\ item[index[k]].key = k

ValidSource == [k \in Keys |-> IF Valid(k) THEN index[k] ELSE None]

Contract == INSTANCE CaptureQueue WITH Claimants <- Procs, source <- ValidSource

\* What the contract assumes of its parameters.
ASSUME ContractAssumption ==
    /\ MaxAttempts \in Nat \ {0}
    /\ None \notin Contract!Item /\ None \notin Ids /\ None \notin Procs
    /\ None \notin Keys /\ None \notin Deletions

Terminal == Contract!Terminal
Published == Contract!Published

\* Names of an unused lease slot: every operation starts from this record.
Lease(p, kind) == [proc |-> p, kind |-> kind, pc |-> "next", id |-> None,
                   new |-> None, todo |-> {}, hits |-> {}, keys |-> {}]

\* An operation ends by releasing the lease.
Release == op' = None

\* #write: a live state names the item in .active before the rename publishes
\* it, a terminal one updates the state index after the rename.
Writing(o, i, new) ==
    [o EXCEPT !.id = i, !.new = new,
              !.pc = IF new.state \in Terminal THEN "rename" ELSE "touchActive"]

disk == <<item, index, active, acked, migrated>>
marks == <<barrier, blocked, cutoff, wiping>>

Start(p, o) ==
    /\ op = None
    /\ op' = o
    /\ UNCHANGED <<disk, marks, ready, names, faults>>
-------------------------------------------------------------------------------
(* The operations: what each reads under the lease before its first write *)

Initialize(p) ==
    /\ p \notin ready
    /\ LET rebuild == IF migrated THEN {} ELSE Published
       IN  Start(p, [Lease(p, "initialize") EXCEPT
                        !.pc = IF rebuild = {} THEN "finish" ELSE "next",
                        !.todo = rebuild])

\* enqueue and enqueueIfSourceAbsent; a stale index is unlinked first, and
\* enqueue leaves an index another item owns alone.
BeginEnqueue(p, i, k) ==
    /\ p \in ready
    /\ item[i] = None
    /\ barrier = None
    /\ ~ Contract!Refused(k)
    /\ Valid(k) => k \in SelfTestKeys
    /\ LET o == [Lease(p, "enqueue") EXCEPT !.keys = {k}]
       IN  Start(p, IF Valid(k)
                    THEN Writing(o, i, Contract!Pending(k))
                    ELSE [o EXCEPT !.id = i, !.new = Contract!Pending(k),
                                   !.pc = IF index[k] = None THEN "linkIndex"
                                          ELSE "unlinkIndex"])

\* claimNext lists .active again only when its last listing is used up.
BeginClaim(p) ==
    /\ p \in ready
    /\ barrier = None
    /\ op = None
    /\ op' = [Lease(p, "claim") EXCEPT !.pc = "scan"]
    /\ names' = [names EXCEPT ![p] = IF @ = {} THEN active ELSE @]
    /\ UNCHANGED <<disk, marks, ready, faults>>

\* acknowledge, deadLetter, retry and retryAfterCommit of an active claim.
BeginSettle(p, i) ==
    /\ p \in ready
    /\ i \in Published
    /\ Contract!ActiveClaim(i, p, item[i].attempts)
    /\ \E new \in {Contract!Settled(item[i], "acknowledged"),
                   Contract!Settled(item[i], "dead-letter"),
                   Contract!Retried(item[i], TRUE),
                   Contract!Retried(item[i], FALSE)} :
          Start(p, Writing(Lease(p, "write"), i, new))

\* Mutant: expired claims are requeued under a barrier.
BeginRecoverAnyway(p) ==
    /\ p \in ready
    /\ Start(p, [Lease(p, "recover") EXCEPT !.pc = "scan", !.todo = active])

BeginRecover(p) ==
    /\ p \in ready
    /\ barrier = None
    /\ Start(p, [Lease(p, "recover") EXCEPT !.pc = "scan", !.todo = active])

BeginPrune(p) ==
    /\ p \in ready
    /\ Start(p, [Lease(p, "prune") EXCEPT !.pc = "scan", !.todo = acked])

\* The deletion service is the only caller of the next two, under its barrier.
BlockIdentities(p, K) ==
    /\ p \in ready
    /\ barrier # None
    /\ Start(p, [Lease(p, "block") EXCEPT !.pc = "tombstone", !.keys = K])

BeginDelete(p, K) ==
    /\ p \in ready
    /\ barrier # None
    /\ Start(p, [Lease(p, "delete") EXCEPT
                    !.pc = "tombstone", !.keys = K,
                    !.todo = Contract!Matching(K)])

\* clearAllRecords, under a barrier the reset holds.
BeginClear(p, C) ==
    /\ p \in ready
    /\ barrier # None
    /\ cutoff \subseteq C
    /\ op = None
    /\ op' = [Lease(p, "clear") EXCEPT !.pc = "wipe"]
    /\ cutoff' = C
    /\ wiping' = TRUE
    /\ UNCHANGED <<disk, barrier, blocked, ready, names, faults>>

BeginBarrier(p, d) ==
    /\ p \in ready
    /\ op = None
    /\ barrier = None
    /\ barrier' = d
    /\ UNCHANGED <<disk, blocked, cutoff, wiping, ready, names, op, faults>>

\* The reset ends its barrier only after clearAllRecords and a verification
\* that the queue is empty.
EndBarrier(p, d) ==
    /\ p \in ready
    /\ op = None
    /\ barrier = d
    /\ ~ wiping
    /\ barrier' = None
    /\ UNCHANGED <<disk, blocked, cutoff, wiping, ready, names, op, faults>>
-------------------------------------------------------------------------------
(* Steps of the operation that holds the lease *)

At(pc) == op # None /\ op.pc = pc
Go(pc) == op' = [op EXCEPT !.pc = pc]

\* The item at hand is done: on to the next one, or the end.
Continue == op' = IF op.todo # {} THEN [op EXCEPT !.pc = "next"]
                  ELSE IF op.kind \in {"initialize", "delete"}
                       THEN [op EXCEPT !.pc = "finish"]
                       ELSE None

UnlinkStaleIndex ==
    /\ At("unlinkIndex")
    /\ \E k \in op.keys : index' = [index EXCEPT ![k] = None]
    /\ Go("linkIndex")
    /\ UNCHANGED <<item, active, acked, migrated, marks, ready, names, faults>>

LinkIndex ==
    /\ At("linkIndex")
    /\ \E k \in op.keys : index' = [index EXCEPT ![k] = op.id]
    /\ op' = Writing(op, op.id, op.new)
    /\ UNCHANGED <<item, active, acked, migrated, marks, ready, names, faults>>

TouchActive ==
    /\ At("touchActive")
    /\ active' = active \cup {op.id}
    /\ Go("rename")
    /\ UNCHANGED <<item, index, acked, migrated, marks, ready, names, faults>>

Rename ==
    /\ At("rename")
    /\ item' = [item EXCEPT ![op.id] = op.new]
    /\ IF op.new.state \in Terminal
       THEN Go(IF op.new.state = "acknowledged" THEN "touchAcked"
                                                ELSE "dropActive")
       ELSE Continue
    /\ UNCHANGED <<index, active, acked, migrated, marks, ready, names, faults>>

TouchAcknowledged ==
    /\ At("touchAcked")
    /\ acked' = acked \cup {op.id}
    /\ Go("dropActive")
    /\ UNCHANGED <<item, index, active, migrated, marks, ready, names, faults>>

\* After a scan met the item, the scan goes on; after a write, the write is over.
DropActive ==
    /\ At("dropActive")
    /\ active' = active \ {op.id}
    /\ CASE op.kind \in {"claim", "recover"} -> Go("scan")
         [] op.kind = "initialize" -> Go("claimIndex")
         [] OTHER -> Continue
    /\ UNCHANGED <<item, index, acked, migrated, marks, ready, names, faults>>
-------------------------------------------------------------------------------
(* Scans.  #readIndexed removes a name that no longer fits its item. *)

\* The name n of .active is met: what the scan does with it.
MeetActive(n, found) ==
    IF item[n] = None
    THEN /\ active' = active \ {n}
         /\ op' = [op EXCEPT !.todo = @ \ {n}]
    ELSE /\ UNCHANGED active
         /\ op' = IF item[n].state \in Terminal
                  THEN [op EXCEPT !.todo = @ \ {n}, !.id = n,
                                  !.pc = IF item[n].state = "acknowledged"
                                         THEN "touchAcked" ELSE "dropActive"]
                  ELSE found

ScanClaim ==
    /\ At("scan") /\ op.kind = "claim"
    /\ \E n \in names[op.proc] :
          /\ names' = [names EXCEPT ![op.proc] = @ \ {n}]
          /\ MeetActive(n,
                IF n \in Contract!Claimable /\ item[n].attempts < MaxClaims
                THEN Writing([op EXCEPT !.kind = "write"], n,
                             Contract!Claimed(item[n], op.proc))
                ELSE op)
    /\ UNCHANGED <<item, index, acked, migrated, marks, ready, faults>>

ScanRecover ==
    /\ At("scan") /\ op.kind = "recover"
    /\ \E n \in op.todo :
          MeetActive(n, [op EXCEPT !.todo = @ \ {n},
                                   !.hits = @ \cup ({n} \cap Contract!ExpiredClaims)])
    /\ UNCHANGED <<item, index, acked, migrated, marks, ready, names, faults>>

\* The scan ends at the first name that is not old, so that a name that no
\* longer fits its item may not be met.
ScanPrune ==
    /\ At("scan") /\ op.kind = "prune"
    /\ \E n \in op.todo :
          /\ \/ n \notin Contract!InState({"acknowledged"}) /\ acked' = acked \ {n}
             \/ UNCHANGED acked
          /\ op' = [op EXCEPT !.todo = @ \ {n},
                              !.hits = @ \cup ({n} \cap Contract!OldAcknowledged)]
    /\ UNCHANGED <<item, index, active, migrated, marks, ready, names, faults>>

ScanDone ==
    /\ At("scan")
    /\ IF op.kind = "claim" THEN names[op.proc] = {} ELSE op.todo = {}
    /\ op' = IF op.hits = {} THEN None
             ELSE [op EXCEPT !.todo = @ \cup op.hits, !.hits = {},
                             !.kind = IF @ = "recover" THEN "requeue" ELSE @,
                             !.pc = "next"]
    /\ UNCHANGED <<disk, marks, ready, names, faults>>
-------------------------------------------------------------------------------
(* Bulk operations, item by item *)

Next1(i) == [op EXCEPT !.todo = @ \ {i}, !.id = i]

NextItem ==
    /\ At("next")
    /\ \E i \in op.todo :
          op' = CASE op.kind = "requeue" ->
                        Writing(Next1(i), i, Contract!Retried(item[i], FALSE))
                  [] op.kind = "initialize" ->
                        [Next1(i) EXCEPT !.pc =
                            IF item[i].state = "acknowledged" THEN "touchAcked"
                            ELSE IF item[i].state = "dead-letter" THEN "dropActive"
                            ELSE "touchLive"]
                  [] OTHER -> [Next1(i) EXCEPT !.pc = "unlinkItem"]
    /\ UNCHANGED <<disk, marks, ready, names, faults>>

\* pruneAcknowledged and deleteByIdentifiers take an item away: its file, its
\* state index names, and the source index if the item owns it.
UnlinkItem ==
    /\ At("unlinkItem")
    /\ item' = [item EXCEPT ![op.id] = None]
    /\ op' = [op EXCEPT !.pc = "unlinkActive", !.new = item[op.id]]
    /\ UNCHANGED <<index, active, acked, migrated, marks, ready, names, faults>>

UnlinkActive ==
    /\ At("unlinkActive")
    /\ active' = active \ {op.id}
    /\ Go(IF op.new.state = "acknowledged" THEN "unlinkAcked" ELSE "unlinkOwned")
    /\ UNCHANGED <<item, index, acked, migrated, marks, ready, names, faults>>

UnlinkAcked ==
    /\ At("unlinkAcked")
    /\ acked' = acked \ {op.id}
    /\ Go("unlinkOwned")
    /\ UNCHANGED <<item, index, active, migrated, marks, ready, names, faults>>

UnlinkOwnedIndex ==
    /\ At("unlinkOwned")
    /\ index' = [index EXCEPT ![op.new.key] = IF @ = op.id THEN None ELSE @]
    /\ Continue
    /\ UNCHANGED <<item, active, acked, migrated, marks, ready, names, faults>>

\* blockIdentities, and deleteByIdentifiers before it unlinks anything: one
\* tombstone file per identity.
Tombstone ==
    /\ At("tombstone")
    /\ LET due == (IF op.kind = "block" THEN op.keys
                   ELSE {item[i].key : i \in op.todo}) \ blocked
       IN  IF due = {} THEN /\ Continue
                            /\ UNCHANGED blocked
           ELSE /\ \E k \in due : blocked' = blocked \cup {k}
                /\ UNCHANGED op
    /\ UNCHANGED <<disk, barrier, cutoff, wiping, ready, names, faults>>

\* ... and orphan indexes last.
SweepIndexes ==
    /\ At("finish") /\ op.kind = "delete"
    /\ LET orphans == {k \in Keys : /\ index[k] # None
                                    /\ k \in op.keys \/ item[index[k]] = None}
       IN  IF orphans = {} THEN /\ Release
                                /\ UNCHANGED index
           ELSE /\ \E k \in orphans : index' = [index EXCEPT ![k] = None]
                /\ UNCHANGED op
    /\ UNCHANGED <<item, active, acked, migrated, marks, ready, names, faults>>
-------------------------------------------------------------------------------
(* initialize rebuilds both indexes when .indexes-v2 is missing *)

TouchLive ==
    /\ At("touchLive")
    /\ active' = active \cup {op.id}
    /\ Go("claimIndex")
    /\ UNCHANGED <<item, index, acked, migrated, marks, ready, names, faults>>

\* #claimSourceIndex: replaces a stale index, leaves a valid one.
ClaimIndex ==
    /\ At("claimIndex")
    /\ LET k == item[op.id].key
       IN  IF Valid(k) THEN /\ Continue
                            /\ UNCHANGED index
           ELSE IF index[k] # None
                THEN /\ index' = [index EXCEPT ![k] = None]
                     /\ UNCHANGED op
                ELSE /\ index' = [index EXCEPT ![k] = op.id]
                     /\ Continue
    /\ UNCHANGED <<item, active, acked, migrated, marks, ready, names, faults>>

FinishInitialize ==
    /\ At("finish") /\ op.kind = "initialize"
    /\ migrated' = TRUE
    /\ ready' = ready \cup {op.proc}
    /\ Release
    /\ UNCHANGED <<item, index, active, acked, marks, names, faults>>
-------------------------------------------------------------------------------
(* clearAllRecords unlinks every file, then recreates the empty layout *)

Wipe ==
    /\ At("wipe")
    /\ \/ \E i \in Published : /\ item' = [item EXCEPT ![i] = None]
                               /\ UNCHANGED <<index, active, acked, migrated, blocked>>
       \/ \E k \in Keys : /\ index[k] # None
                          /\ index' = [index EXCEPT ![k] = None]
                          /\ UNCHANGED <<item, active, acked, migrated, blocked>>
       \/ \E i \in active : /\ active' = active \ {i}
                            /\ UNCHANGED <<item, index, acked, migrated, blocked>>
       \/ \E i \in acked : /\ acked' = acked \ {i}
                           /\ UNCHANGED <<item, index, active, migrated, blocked>>
       \/ \E k \in blocked : /\ blocked' = blocked \ {k}
                             /\ UNCHANGED <<item, index, active, acked, migrated>>
       \/ /\ migrated /\ migrated' = FALSE
          /\ UNCHANGED <<item, index, active, acked, blocked>>
    /\ UNCHANGED <<barrier, cutoff, wiping, ready, names, op, faults>>

FinishClear ==
    /\ At("wipe")
    /\ Published = {} /\ active = {} /\ acked = {} /\ blocked = {} /\ ~ migrated
    /\ \A k \in Keys : index[k] = None
    /\ migrated' = TRUE
    /\ names' = [names EXCEPT ![op.proc] = {}]
    /\ wiping' = FALSE
    /\ Release
    /\ UNCHANGED <<item, index, active, acked, barrier, blocked, cutoff, ready, faults>>
-------------------------------------------------------------------------------
(* Faults and time *)

\* The process dies: its lease, its queue object and its operation are gone.
Crash(p) ==
    /\ faults < MaxFaults
    /\ p \in ready \/ (op # None /\ op.proc = p)
    /\ faults' = faults + 1
    /\ ready' = ready \ {p}
    /\ names' = [names EXCEPT ![p] = {}]
    /\ op' = IF op # None /\ op.proc = p THEN None ELSE op
    /\ UNCHANGED <<disk, marks>>

\* A write of the operation throws.  enqueue takes back the index it reserved
\* unless the item was published all the same; every other operation stops.
WriteError ==
    /\ op # None
    /\ faults < MaxFaults
    /\ faults' = faults + 1
    /\ op' = IF op.kind = "enqueue" /\ op.pc \in {"touchActive", "rename"}
             THEN [op EXCEPT !.pc = "unlinkOwned"]
             ELSE None
    /\ UNCHANGED <<disk, marks, ready, names>>

Elapse(i) ==
    /\ i \in Contract!InState({"claimed", "retry", "acknowledged"})
    /\ ~ item[i].elapsed
    /\ op = None
    /\ item' = [item EXCEPT ![i] = [@ EXCEPT !.elapsed = TRUE]]
    /\ UNCHANGED <<index, active, acked, migrated, marks, ready, names, op, faults>>
-------------------------------------------------------------------------------
Init ==
    /\ item = [i \in Ids |-> None]
    /\ index = [k \in Keys |-> None]
    /\ barrier = None /\ blocked = {} /\ cutoff = {}
    /\ active = {} /\ acked = {} /\ migrated = FALSE
    /\ ready = {} /\ names = [p \in Procs |-> {}]
    /\ op = None /\ wiping = FALSE /\ faults = 0

Begin(p) ==
    \/ Initialize(p)
    \/ \E i \in Ids, k \in Keys : BeginEnqueue(p, i, k)
    \/ BeginClaim(p)
    \/ \E i \in Ids : BeginSettle(p, i)
    \/ BeginRecover(p)
    \/ BeginPrune(p)
    \/ \E K \in SUBSET Keys :
          BlockIdentities(p, K) \/ BeginDelete(p, K) \/ BeginClear(p, K)
    \/ \E d \in Deletions : BeginBarrier(p, d) \/ EndBarrier(p, d)

Step ==
    \/ UnlinkStaleIndex \/ LinkIndex \/ TouchActive \/ Rename
    \/ TouchAcknowledged \/ DropActive
    \/ ScanClaim \/ ScanRecover \/ ScanPrune \/ ScanDone
    \/ NextItem \/ UnlinkItem \/ UnlinkActive \/ UnlinkAcked \/ UnlinkOwnedIndex
    \/ Tombstone \/ SweepIndexes
    \/ TouchLive \/ ClaimIndex \/ FinishInitialize
    \/ Wipe \/ FinishClear

Next ==
    \/ \E p \in Procs : Begin(p) \/ Crash(p)
    \/ Step
    \/ WriteError
    \/ \E i \in Ids : Elapse(i)

Spec == Init /\ [][Next]_vars

\* An operation under way finishes, a process opens the queue, and the worker
\* keeps recovering expired claims, once per run: each run does, and the
\* installed entry runs the worker in a loop.
FairSpec ==
    /\ Spec
    /\ WF_vars(Step)
    /\ \A p \in Procs : SF_vars(Initialize(p)) /\ SF_vars(BeginRecover(p))
-------------------------------------------------------------------------------
\* Every operation, crash and error amounts to steps of the queue's contract.
ImplementsContract == Contract!QueueSpec

===============================================================================
