--------------------------- MODULE CaptureDelivery ---------------------------
(***************************************************************************)
(* What capture promises for a source event once it is durably queued: it  *)
(* is never lost, it becomes one canonical fact or is refused explicitly,  *)
(* and one of the two does happen.  Queue items, claims, redeliveries,     *)
(* crashes and retention are not visible here.                             *)
(***************************************************************************)
EXTENDS CaptureIdentities

VARIABLES
    captured,  \* keys accepted by the durable queue
    recorded,  \* keys with a canonical fact
    refused    \* keys with a dead letter

vars == <<captured, recorded, refused>>

Init == captured = {} /\ recorded = {} /\ refused = {}

Capture(k) == /\ captured' = captured \cup {k}
              /\ UNCHANGED <<recorded, refused>>

Record(k) == /\ k \in captured \ recorded
             /\ recorded' = recorded \cup {k}
             /\ UNCHANGED <<captured, refused>>

Refuse(k) == /\ k \in captured \ refused
             /\ refused' = refused \cup {k}
             /\ UNCHANGED <<captured, recorded>>

\* The first answer to an event, whichever it is.
Answer(k) == k \notin recorded \cup refused /\ (Record(k) \/ Refuse(k))

Next == \E k \in Keys : Capture(k) \/ Record(k) \/ Refuse(k)

SafeSpec == Init /\ [][Next]_vars

Spec == SafeSpec /\ \A k \in Keys : WF_vars(Answer(k))
===============================================================================
