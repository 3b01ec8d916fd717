-------------------------- MODULE KnowledgeAdmission ---------------------------
(***************************************************************************)
(* What counts against a piece of knowledge, and whether what is derived    *)
(* from corrections may be used: its proof must be whole, bound to each     *)
(* correction, found in the same episode, and not owed to the knowledge     *)
(* itself having been recalled while it was being proved.                  *)
(* Feedback is a record [id, at, target, kind, source, resolves, scope,    *)
(* scopeId, about, applied]; a use of context [id, at, session, episode,   *)
(* returned, applied, candidates].                                         *)
(***************************************************************************)
EXTENDS CorrectionCapture

Failing(e) == e.type = "change.reverted" \/ verificationOutcome(e) = "failed"

\* The parents of a failure, through other failures, reach the evidence.
Descends(failure, evidence, log) ==
    LET reaches[child \in log, visited \in SUBSET Ids(log)] ==
            \E p \in log :
                /\ p.id = child.parent /\ p.id \notin visited
                /\ sameVerificationWorkspace(p, child) /\ p.at <= child.at
                /\ \/ p.id \in evidence
                   \/ trustedExecution(p) /\ Failing(p) /\ reaches[p, visited \cup {p.id}]
    IN  reaches[failure, {}]

directKnowledgeCounterevidence(evidence, createdAt, log) ==
    {e \in log :
        /\ trustedExecution(e) /\ e.at >= createdAt /\ Failing(e)
        /\ \/ Descends(e, evidence, log)
           \/ e.binding # None
              /\ \E c \in WithIds({e.binding.correction} \cap evidence, log) : Binds(c, e, log)}

Against == {"correct", "conflict", "weaken", "stale", "revoke"}
Archiving == {"stale", "revoke"}

About(k, createdAt, feedback) == {f \in feedback : f.target = k /\ f.at >= createdAt}

\* Mutant: any confirmation resolves all that is against the knowledge.
UnresolvedForgiving(k, createdAt, counters, feedback) ==
    LET told == About(k, createdAt, feedback)
        yes == {f \in told : f.kind = "confirm" /\ f.source = "user"}
    IN  {e \in counters \cup {f \in told : f.kind \in Against} : \A y \in yes : y.at <= e.at}

\* knowledgeEvidenceState: what is against it and has not been resolved since.
Unresolved(k, createdAt, counters, feedback) ==
    LET told == About(k, createdAt, feedback)
        yes == {f \in told : f.kind = "confirm" /\ f.source = "user"}
    IN  {e \in counters \cup {f \in told : f.kind \in Against} :
           ~ \E y \in yes : e.id \in y.resolves /\ e.at < y.at}

Archived(unresolved) == \E e \in unresolved : "kind" \in DOMAIN e /\ e.kind \in Archiving
-------------------------------------------------------------------------------
(* Admission *)

\* recordRecallsKnowledge.  That no evidence is itself a reference to a recalled
\* piece of knowledge or to a request (recalledReferences) always holds here:
\* evidence is events, and their ids are never those.
Recalls(u, k) == k \in u.applied \cup u.returned

validScope(scope, scopeId) == (scope = "personal") <=> (scopeId = None)

\* The user has given the candidate the scope it has.
UserScoped(c, feedback) ==
    \E f \in About(c.id, c.createdAt, feedback) :
        f.kind = "set_scope" /\ f.source = "user" /\ f.scope = c.scope /\ f.scopeId = c.scopeId

\* A correction and a check that proves it, in one episode.
PairedEpisodes(c, v, episodes, log) ==
    {x \in episodes : {c.id, v.id} \subseteq x.sourceEvents
                      /\ verificationOutcome(v) = "succeeded" /\ Binds(c, v, log)}

\* What speaks for a candidate's corrections.
CorrectionReasons(c, keys, episodes, log) ==
    LET sources == UNION {k.sources : k \in keys}
        Verifications(id) == UNION {k.verifications : k \in {j \in keys : id \in j.sources}}
        Paired(id) == UNION {PairedEpisodes(e, v, episodes, log) :
                               e \in WithIds({id}, log), v \in WithIds(Verifications(id), log)}
    IN  (IF \A id \in sources : \E e \in WithIds({id}, log) :
               e.type = "user.corrected" /\ e.trust = "user"
         THEN {} ELSE {"invalid_correction_source"})
        \cup (IF \A id \in sources : Paired(id) # {} THEN {}
              ELSE {"unverified_correction_occurrence"})
        \cup (IF \A id \in sources : Paired(id) = {}
                    \/ \E x \in Paired(id) : x.sessions \in c.episodes
              THEN {} ELSE {"incomplete_proof_chain"})

\* Mutant: knowledge may be recalled between a correction and its proof.
VerificationReasonsTrusting(c, v, keys, episodes, log, uses) ==
    (IF trustedExecution(v) THEN {} ELSE {"untrusted_verification_evidence"})
    \cup (IF verificationOutcome(v) = "succeeded" THEN {} ELSE {"invalid_verification_evidence"})

\* What speaks for one of its checks.
VerificationReasons(c, v, keys, episodes, log, uses) ==
    LET sources == WithIds(UNION {k.sources : k \in keys}, log)
        own == {e \in WithIds(UNION {k.sources : k \in {j \in keys : v.id \in j.verifications}}, log) :
                  v.binding # None /\ v.binding.correction = e.id}
        paired == {x \in episodes : v.id \in x.sourceEvents
                     /\ \E e \in own : e.id \in x.sourceEvents /\ Binds(e, v, log)}
        Since(x) == Least({e.at : e \in {o \in own : o.id \in x.sourceEvents}})
    IN  (IF trustedExecution(v) THEN {} ELSE {"untrusted_verification_evidence"})
        \cup (IF verificationOutcome(v) = "succeeded" THEN {} ELSE {"invalid_verification_evidence"})
        \cup (IF \E e \in sources : Binds(e, v, log) THEN {} ELSE {"unbound_verification_evidence"})
        \cup (IF paired # {} THEN {} ELSE {"unpaired_verification_evidence"})
        \cup (IF \E x \in paired : x.sessions \notin c.episodes THEN {"incomplete_proof_chain"} ELSE {})
        \cup (IF \E x \in paired, u \in uses :
                    /\ u.episode = x.sessions /\ Recalls(u, c.id)
                    /\ Since(x) <= u.at /\ u.at <= v.at
              THEN {"recalled_knowledge_evidence"} ELSE {})

\* What is derived from corrections, as a rule of the user's own is not.
Derives(c) == "manual" \notin DOMAIN c.topic

\* evaluateCandidate: why a candidate is refused.
Reasons(c, allKeys, episodes, log, feedback, uses) ==
    LET keys == {k \in allKeys : k.sources \cap c.evidence # {}}
        sources == UNION {k.sources : k \in keys}
        checks == WithIds(UNION {k.verifications : k \in keys}, log)
        counters == directKnowledgeCounterevidence(c.evidence, c.createdAt, log)
        common == IF Unresolved(c.id, c.createdAt, counters, feedback) = {} THEN {}
                  ELSE {"unresolved_counterevidence"}
    IN  IF ~ Derives(c) THEN common
        ELSE IF keys = {} THEN common \cup {"missing_correction_key"}
        ELSE common
          \cup (IF sources \cup Ids(checks) \cup ProofOf(checks, log) \subseteq c.evidence THEN {}
                ELSE {"incomplete_proof_chain"})
          \cup (IF \A k \in keys : k.id.expected = c.content THEN {} ELSE {"content_mismatch"})
          \cup (IF \A k \in keys : k.id.topic.trigger = c.topic.trigger THEN {}
                ELSE {"missing_applicability"})
          \cup (IF /\ validScope(c.scope, c.scopeId)
                   /\ \A k \in keys :
                        /\ validScope(k.id.topic.scope, k.id.topic.scopeId)
                        /\ \/ c.scope = k.id.topic.scope /\ c.scopeId = k.id.topic.scopeId
                           \/ UserScoped(c, feedback)
                THEN {} ELSE {"scope_mismatch"})
          \cup CorrectionReasons(c, keys, episodes, log)
          \cup (IF checks = {} THEN {"missing_verification_evidence"}
                ELSE UNION {VerificationReasons(c, v, keys, episodes, log, uses) : v \in checks})
          \cup (IF /\ "repeated_evidence" \in c.marks
                   /\ Cardinality(independentlyVerifiedCorrections(WithIds(sources, log), checks, log)) < 2
                THEN {"insufficient_independent_verification"} ELSE {})
===============================================================================
