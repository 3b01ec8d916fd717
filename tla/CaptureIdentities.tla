-------------------------- MODULE CaptureIdentities --------------------------
(***************************************************************************)
(* The identities the queue and the canonical store share.  A key stands   *)
(* for one source event with every identity it is known by (deduplication  *)
(* key, event id, session id, parent event id): the code tombstones and    *)
(* looks them up together.                                                 *)
(***************************************************************************)
CONSTANTS
    Keys,       \* deduplication keys of captured source events
    Deletions   \* ids of the operations that may hold the queue's barrier
===============================================================================
