-------------------------- MODULE KnowledgeLifecycle ---------------------------
(***************************************************************************)
(* From correction keys to knowledge: one candidate for each key, its state *)
(* from what proves it, from what the user and the program have said about  *)
(* it since, and from the other versions of its topic.                     *)
(***************************************************************************)
EXTENDS KnowledgeAdmission

CONSTANT VersionBefore(_, _) \* the order of knowledge ids, which are digests

evidenceMarks(verified) ==
    (IF verified # {} THEN {"externally_verified"} ELSE {})
    \cup (IF Cardinality(verified) >= 2 THEN {"repeated_evidence"} ELSE {})

tierFromMarks(marks) ==
    CASE "repeated_evidence" \in marks -> "repeated_evidence"
      [] "externally_verified" \in marks /\ "repeated_evidence" \notin marks ->
           "externally_verified"
      [] marks = {"user_confirmed"} -> "user_confirmed"
      [] marks = {} -> "inferred"

\* The feedback that counts: what only a user may say is ignored from others.
Counted(feedback) ==
    {f \in feedback : /\ f.kind \notin {"irrelevant", "mute_session"}
                      /\ f.kind \in {"confirm", "set_scope", "strengthen"} => f.source = "user"}

applyFeedback(c, f) ==
    CASE f.kind = "confirm" ->
           LET marks == c.marks \cup {"user_confirmed"}
           IN  [c EXCEPT !.marks = marks, !.tier = tierFromMarks(marks),
                         !.state = IF marks = {"user_confirmed"} THEN "candidate" ELSE "active"]
      [] f.kind \in {"correct", "conflict", "weaken"} ->
           [c EXCEPT !.state = "disputed", !.tier = "disputed"]
      [] f.kind \in Archiving -> [c EXCEPT !.state = "archived", !.expiresAt = f.at]
      [] f.kind = "set_scope" -> [c EXCEPT !.scope = f.scope, !.scopeId = f.scopeId]
      [] OTHER -> c

InTheLightOf(told, c) == FoldLeft(applyFeedback, c, InOrder(told))
-------------------------------------------------------------------------------
\* A candidate as its evidence alone makes it.
Derived(key, counters, episodes, log, opportunities) ==
    LET base == key.sources \cup key.verifications
                \cup ProofOf(WithIds(key.verifications, log), log)
        evidence == base \cup Ids(counters)
        marks == evidenceMarks(independentlyVerifiedCorrections(
                    WithIds(key.sources, log), WithIds(key.verifications, log), log))
        applicable == {o \in opportunities : o.key = key.id /\ o.applicable}
    IN  [id |-> key.id, topic |-> key.id.topic, content |-> key.id.expected,
         createdAt |-> key.createdAt,
         scope |-> key.id.topic.scope, scopeId |-> key.id.topic.scopeId,
         evidence |-> evidence,
         episodes |-> {x.sessions : x \in {y \in episodes : y.sourceEvents \cap evidence # {}}},
         marks |-> marks, tier |-> tierFromMarks(marks),
         state |-> IF marks = {} THEN "candidate" ELSE "active",
         expiresAt |-> None, supersedes |-> None,
         coverage |-> Cardinality(applicable),
         observed |-> Cardinality({o \in applicable : o.outcomeKnown}),
         applied |-> 0, harmful |-> 0, helpful |-> 0]

\* The opinions that stand: the last a user gave on each thing it was about.
Opinions(k, createdAt, feedback) ==
    LET given == {f \in About(k, createdAt, feedback) :
                    f.source = "user" /\ f.kind \in {"strengthen", "correct"}}
    IN  {f \in given : \A g \in given : g.about = f.about => g = f \/ Earlier(g, f)}

Applications(k, createdAt, feedback, uses, opportunities) ==
    LET applied == {u \in uses : k \in u.applied /\ u.at >= createdAt}
    IN  {<<"request", u.id>> : u \in applied}
        \cup {<<"request", f.about>> : f \in Opinions(k, createdAt, feedback)}
        \cup {<<"episode", o.episode>> :
                o \in {p \in opportunities : /\ p.key = k /\ p.applicable /\ p.applied
                                             /\ ~ \E u \in applied : u.episode = p.episode}}

\* A candidate, with the feedback on it applied in order and what is still
\* unresolved at the end.
Candidate(key, episodes, log, feedback, uses, opportunities) ==
    LET base == key.sources \cup key.verifications
                \cup ProofOf(WithIds(key.verifications, log), log)
        counters == directKnowledgeCounterevidence(base, key.createdAt, log)
        told == About(key.id, key.createdAt, feedback)
        derived == Derived(key, counters, episodes, log, opportunities)
        heard == InTheLightOf(told, derived)
        unresolved == Unresolved(key.id, key.createdAt, counters, feedback)
        opinions == Opinions(key.id, key.createdAt, feedback)
    IN  [derived EXCEPT
            !.marks = heard.marks, !.scope = heard.scope, !.scopeId = heard.scopeId,
            !.expiresAt = IF Archived(unresolved) THEN heard.expiresAt ELSE None,
            !.tier = IF unresolved = {} THEN heard.tier ELSE "disputed",
            !.state = IF unresolved = {} THEN heard.state
                      ELSE IF Archived(unresolved) THEN "archived" ELSE "disputed",
            !.applied = Cardinality(Applications(key.id, key.createdAt, feedback, uses, opportunities)),
            !.harmful = Cardinality({f \in opinions : f.kind = "correct"}),
            !.helpful = Cardinality({f \in opinions : f.kind = "strengthen"})]

\* reconcileTopicVersions: of the active versions of a topic, the one that was
\* corrected last stands and the others are superseded by it.
reconcileTopicVersions(candidates, log) ==
    LET Stated(c) == Greatest({e.at : e \in {f \in parsedCorrections(log) : correctionKeyId(f) = c.id}})
        Later(c, d) == Stated(c) > Stated(d) \/ (Stated(c) = Stated(d) /\ VersionBefore(d.id, c.id))
        Rivals(c) == {d \in candidates \ {c} : d.topic = c.topic /\ d.state = "active"}
        Overtaken(c) == \E d \in Rivals(c) : Later(d, c)
        Next(c) == {d \in Rivals(c) : \A r \in Rivals(c) : r = d \/ Later(d, r)}
    IN  {IF c.state # "active" THEN c
         ELSE IF Overtaken(c) THEN [c EXCEPT !.state = "superseded"]
         ELSE [c EXCEPT !.supersedes = IF Rivals(c) = {} THEN None
                                       ELSE (CHOOSE d \in Next(c) : TRUE).id] :
           c \in candidates}

\* The whole build: candidates, those not admitted held back, and the topics.
Lifecycle(keys, episodes, log, allFeedback, uses, opportunities) ==
    LET feedback == Counted(allFeedback)
        candidates == {Candidate(k, episodes, log, feedback, uses, opportunities) : k \in keys}
        admitted == {IF c.state = "active" /\ Reasons(c, keys, episodes, log, feedback, uses) # {}
                     THEN [c EXCEPT !.state = "candidate"] ELSE c : c \in candidates}
    IN  reconcileTopicVersions(admitted, log)
===============================================================================
