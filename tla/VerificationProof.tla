--------------------------- MODULE VerificationProof ---------------------------
(***************************************************************************)
(* Captured events, as the domain builders read them, and when one of them *)
(* proves a user's correction: a check that passed, run by an operation     *)
(* that traces back to the correction through events of the same session   *)
(* and workspace.  A log is a set of events with an id each.                *)
(***************************************************************************)
EXTENDS Naturals, FiniteSets, Sequences, SequencesExt

CONSTANT None

trustedExecution(e) == e.trust \in {"tool", "system"}

verificationTypes == {"test.completed", "build.completed", "verification.completed"}

isVerificationEvent(e) == e.type \in verificationTypes /\ trustedExecution(e)

verificationOutcome(e) ==
    CASE ~ isVerificationEvent(e) -> "unknown"
      [] e.status \notin {None, "succeeded", "failed"} -> "unknown"
      [] e.status = "failed" \/ e.exit \notin {None, "zero"} -> "failed"
      [] OTHER -> IF e.status = "succeeded" \/ e.exit = "zero" THEN "succeeded" ELSE "unknown"

\* A workspace whose identity was redacted, or is not a repository's, is None.
sameVerificationWorkspace(l, r) ==
    l.repo # None /\ l.worktree # None /\ l.repo = r.repo /\ l.worktree = r.worktree

\* byTimestampAndId
Earlier(l, r) == l.at < r.at \/ (l.at = r.at /\ l.id < r.id)
InOrder(S) == SetToSortSeq(S, Earlier)

WithIds(ids, log) == {e \in log : e.id \in ids}
Ids(S) == {e.id : e \in S}

\* The chain of parents from an operation to the correction, without the latter.
ChainTo(operation, correction, log) ==
    LET chain[child \in log, visited \in SUBSET Ids(log)] ==
            LET parents == {p \in log : p.id = child.parent /\ p.id \notin visited} IN
            IF parents = {} THEN None
            ELSE LET p == CHOOSE p \in parents : TRUE
                 IN  CASE p.id = correction.id -> {child.id}
                       [] p.id # correction.id
                          /\ \/ p.session # correction.session
                             \/ ~ sameVerificationWorkspace(correction, p)
                             \/ p.trust \in {"user", "external-content"}
                             \/ p.at < correction.at \/ p.at > child.at -> None
                       [] OTHER -> LET rest == chain[p, visited \cup {p.id}]
                                   IN  IF rest = None THEN None ELSE rest \cup {child.id}
    IN  chain[operation, {}]

\* The operations (one, or none) that bind the check v to the correction c.
boundVerificationOperation(c, v, log) ==
    IF ~ /\ v.binding # None /\ v.binding.correction = c.id
         /\ c.type = "user.corrected" /\ c.trust = "user"
         /\ isVerificationEvent(v)
         /\ sameVerificationWorkspace(c, v)
         /\ c.session # None /\ c.session = v.session
         /\ c.at < v.at
    THEN {}
    ELSE {o \in log :
            /\ o.id = v.binding.operation
            /\ o.type = "tool.started" /\ trustedExecution(o)
            /\ sameVerificationWorkspace(c, o) /\ o.session = c.session
            /\ o.operation # None /\ o.operation = v.operation
            /\ o.command
            /\ c.at <= o.at /\ o.at < v.at
            /\ ChainTo(o, c, log) # None}

Binds(c, v, log) == boundVerificationOperation(c, v, log) # {}

verificationProofEventIds(c, v, log) ==
    UNION {ChainTo(o, c, log) : o \in boundVerificationOperation(c, v, log)}

\* Corrections, earliest first, each of which claims an operation of its own.
independentlyVerifiedCorrections(corrections, verifications, log) ==
    LET Claim(done, c) ==
            LET free == {<<o.session, o.operation>> :
                           o \in UNION {boundVerificationOperation(c, v, log) :
                                          v \in {w \in verifications :
                                                   verificationOutcome(w) = "succeeded"}}}
                        \ done.operations
            IN  IF free = {} THEN done
                ELSE [operations |-> done.operations \cup {CHOOSE f \in free : TRUE},
                      matched |-> done.matched \cup {c.id}]
    IN  FoldLeft(Claim, [operations |-> {}, matched |-> {}], InOrder(corrections)).matched

\* What proves the checks v: each is bound to a correction by an operation.
ProofOf(verifications, log) ==
    UNION {LET c == WithIds({v.binding.correction}, log)
           IN  {v.binding.operation}
               \cup UNION {verificationProofEventIds(x, v, log) : x \in c} :
             v \in {w \in verifications : w.binding # None}}
===============================================================================
