------------------------------- MODULE Knowledge -------------------------------
(***************************************************************************)
(* Learning from corrections, end to end.  Sessions are captured; the      *)
(* worker groups them into episodes, takes correction keys from them and    *)
(* rebuilds the knowledge rows, each in a transaction of its own; sessions  *)
(* ask for knowledge and judge what they were given; the user reviews,     *)
(* revokes, replaces and mutes.  These are different processes: each may    *)
(* come between two steps of another, and the worker may stop anywhere.    *)
(***************************************************************************)
EXTENDS KnowledgeLifecycle

CONSTANTS
    Requests, \* the requests for context
    Scripts   \* what may happen in a behaviour, its inputs and its bounds:
              \*   turns      of each session, the events that are captured next
              \*   gaps       how long it may have been since the last events
              \*   asks       [session, repo, branch] of a request
              \*   decides    pairs of sessions, at most `decided` times
              \*   judges     <<source, action>>, what is said of what was returned
              \*   remembers  what the user has remembered; with the judgements
              \*              and what the user controls, at most `said` times

\* Turns are sequences of events, which get their time when they are captured.
ASSUME ScriptsAssumption ==
    \A s \in Scripts :
        /\ s.gaps \subseteq Nat
        /\ \A x \in DOMAIN s.turns :
              /\ Len(s.turns[x]) \in Nat
              /\ \A i \in 1..Len(s.turns[x]) :
                    LET events == s.turns[x][i]
                    IN  Len(events) \in Nat \ {0} /\ DOMAIN events = 1..Len(events)

VARIABLES
    script,    \* one of Scripts
    turn,      \* how much of each session has been captured
    clock,
    log,       \* the canonical events
    decisions, \* grouping corrections
    episodes, keys, opportunities, \* the projections of the log
    rows,      \* knowledge_candidates
    receipts,  \* the knowledge that was replaced by a confirmed rule
    feedback,  \* feedback_events
    uses,      \* context_use_records
    muted,     \* sessions
    dirty,     \* a projection is due
    worker,    \* what the worker is doing: [at, computed]
    request,   \* the state of each request
    review     \* what the user has been shown, or None

facts == <<script, turn, log>>
grouped == <<decisions, episodes>>
derived == <<keys, opportunities>>
told == <<receipts, feedback, muted>>
vars == <<script, turn, clock, log, decisions, episodes, keys, opportunities, rows, receipts,
          feedback, uses, muted, dirty, worker, request, review>>

Idle == [at |-> "idle", computed |-> {}]
Row(k) == CHOOSE r \in rows : r.id = k
RowIds == {r.id : r \in rows}
Sessions == DOMAIN script.turns

Init ==
    /\ script \in Scripts
    /\ turn = [s \in Sessions |-> 0] /\ clock = 0 /\ log = {}
    /\ decisions = {} /\ episodes = {} /\ keys = {} /\ opportunities = {}
    /\ rows = {} /\ receipts = {} /\ feedback = {} /\ uses = {} /\ muted = {}
    /\ dirty = FALSE /\ worker = Idle
    /\ request = [q \in Requests |-> [at |-> "new"]]
    /\ review = None
-------------------------------------------------------------------------------
(* Capture *)

Captured(e, time) == [f \in DOMAIN e \cup {"at"} |-> IF f = "at" THEN time ELSE e[f]]

\* The next turn of a session, one event a minute.  The worker that stores it
\* is the one that projects, so it does not store while it projects.
Capture(s, gap) ==
    /\ worker = Idle /\ turn[s] < Len(script.turns[s])
    /\ LET next == script.turns[s][turn[s] + 1]
       IN  /\ log' = log \cup {Captured(next[i], clock + gap + i - 1) : i \in DOMAIN next}
           /\ clock' = clock + gap + Len(next) - 1
    /\ turn' = [turn EXCEPT ![s] = @ + 1]
    /\ dirty' = TRUE
    /\ UNCHANGED <<script, grouped, derived, rows, told, uses, worker, request, review>>
-------------------------------------------------------------------------------
(* Projection *)

\* A record of use belongs to the one episode of its session it was made in.
Bound(u, xs) ==
    LET own == {x \in xs : /\ u.session \in x.sessions /\ u.at >= x.startedAt
                           /\ x.finishedAt = None \/ u.at <= x.finishedAt}
    IN  [u EXCEPT !.episode = IF Cardinality(own) = 1 THEN (CHOOSE x \in own : TRUE).sessions
                              ELSE None]

\* replaceWorkEpisodeProjection
Regroup(taken) ==
    /\ decisions' = taken
    /\ episodes' = Build("connected", log, taken)
    /\ uses' = {Bound(u, episodes') : u \in uses}

Group ==
    /\ worker = Idle /\ dirty
    /\ Regroup(decisions)
    /\ worker' = [worker EXCEPT !.at = "correct"]
    /\ UNCHANGED <<facts, clock, derived, rows, told, dirty, request, review>>

\* The user decides about two sessions: the decision is kept with the episodes
\* it makes, and overrules an earlier one.
Decide(p, action) ==
    /\ worker = Idle /\ Cardinality(decisions) < script.decided
    /\ clock' = clock + 1
    /\ Regroup(decisions \cup {[id |-> Cardinality(decisions), at |-> clock', sessions |-> p,
                                action |-> action]})
    /\ UNCHANGED <<facts, derived, rows, told, dirty, worker, request, review>>

\* CorrectionCaptureProjector, with the knowledge there was before.
Correct ==
    /\ worker.at = "correct"
    /\ keys' = correctionKeys(episodes, log)
    /\ opportunities' = Opportunities(episodes, log, rows, uses)
    /\ worker' = [worker EXCEPT !.at = "read"]
    /\ UNCHANGED <<facts, clock, grouped, rows, told, uses, dirty, request, review>>

\* The uses in the episodes that hold evidence, all that the lifecycle reads.
Relevant ==
    LET evidence == UNION {k.sources \cup k.verifications : k \in keys}
        held == {x.sessions : x \in {y \in episodes : y.sourceEvents \cap evidence # {}}}
    IN  {u \in uses : u.episode \in held}

\* KnowledgeLifecycleProjector reads everything it builds from...
Read ==
    /\ worker.at = "read"
    /\ worker' = [at |-> "write",
                  computed |-> Lifecycle(keys, episodes, log, feedback, Relevant, opportunities)]
    /\ UNCHANGED <<facts, clock, grouped, derived, rows, told, uses, dirty, request, review>>

\* Mutant: what has been superseded comes back with the next rebuild.
RetainNothing(c) == c

\* #retainSupersededKnowledge: what was superseded once stays so.
Retain(c) ==
    IF c.state # "archived"
       /\ (c.id \in receipts \/ \E r \in rows : r.id = c.id /\ r.state = "superseded")
    THEN [c EXCEPT !.state = "superseded"] ELSE c

\* ... and writes the rows, whatever has been said since it read.
Write ==
    /\ worker.at = "write"
    /\ rows' = {Retain(c) : c \in worker.computed}
               \cup {r \in rows : /\ r.id \notin {c.id : c \in worker.computed}
                                  /\ ~ Derives(r) \/ r.state = "superseded"}
    /\ worker' = Idle /\ dirty' = FALSE
    /\ UNCHANGED <<facts, clock, grouped, derived, told, uses, request, review>>

\* The worker stops; what it has done stays, and the projection is still due.
Stop ==
    /\ worker # Idle
    /\ worker' = Idle
    /\ UNCHANGED <<facts, clock, grouped, derived, rows, told, uses, dirty, request, review>>
-------------------------------------------------------------------------------
(* Retrieval *)

AUTOMATIC_RETRIEVAL_EVIDENCE_TIERS == {"externally_verified", "repeated_evidence", "user_confirmed"}

scopeMatches(scope, scopeId, ask) ==
    \/ scope = "personal"
    \/ scope = "repository" /\ scopeId = ask.repo
    \/ scope = "branch" /\ None \notin {ask.repo, ask.branch} /\ scopeId = <<ask.repo, ask.branch>>

\* knowledgeCandidatesWithUnavailableSources: an episode it came from is gone.
Unavailable(r) == ~ r.episodes \subseteq {x.sessions : x \in episodes}

References(e) ==
    {e.parent} \cup (IF e.binding = None THEN {} ELSE {e.binding.correction, e.binding.operation})

\* All that events lead back to, and the checks of the keys taken from them.
LeadBack(start) ==
    LET lead[found \in SUBSET log] ==
            LET ids == Ids(found)
                more == found \cup WithIds((UNION {References(e) : e \in found})
                            \cup UNION {k.verifications : k \in {j \in keys : j.sources \cap ids # {}}}, log)
            IN  IF more = found THEN found ELSE lead[more]
    IN  lead[start]

\* knowledgeAdmissionEvidence: of the log, what the row's evidence and what is
\* said to be resolved lead back to, so that a later failure counts only when a
\* rebuild has seen it; of the episodes, those the row names, with their uses.
AdmissionEvidence(r) ==
    [log |-> LeadBack(WithIds(r.evidence
                              \cup UNION {f.resolves : f \in {g \in feedback : g.target = r.id}}, log)),
     episodes |-> {x \in episodes : x.sessions \in r.episodes},
     uses |-> {u \in uses : u.episode \in r.episodes}]

\* What the admission policy says of a row now.
Admitted(r) ==
    LET read == AdmissionEvidence(r)
    IN  Reasons(r, keys, read.episodes, read.log, feedback, read.uses) = {}

Eligible(r, ask) ==
    /\ r.state = "active" /\ r.tier \in AUTOMATIC_RETRIEVAL_EVIDENCE_TIERS
    /\ r.expiresAt = None \/ r.expiresAt > clock
    /\ scopeMatches(r.scope, r.scopeId, ask)

ReturnedTo(s) == UNION {u.returned : u \in {w \in uses : w.session = s}}

Used(q, ask, at, items, candidates) ==
    [id |-> q, at |-> at, session |-> ask.session, episode |-> None, returned |-> items,
     applied |-> {}, candidates |-> candidates]

\* Mutant: two requests of a session run at once.
FreeAlways(s) == TRUE

\* withSessionLock: one request of a session at a time.
Free(s) == \A q \in Requests : request[q].at \in {"searching", "found"} => request[q].ask.session # s

\* A request reads what its session has been given before and whether it is muted.
Start(q, ask) ==
    /\ request[q].at = "new" /\ Free(ask.session)
    /\ IF ask.session \in muted
       THEN /\ request' = [request EXCEPT ![q] = [at |-> "done"]]
            /\ uses' = uses \cup {Used(q, ask, clock, {}, {})}
       ELSE /\ request' = [request EXCEPT ![q] = [at |-> "searching", ask |-> ask, time |-> clock,
                                                 previous |-> ReturnedTo(ask.session),
                                                 items |-> {}]]
            /\ UNCHANGED uses
    /\ UNCHANGED <<facts, clock, grouped, derived, rows, told, dirty, worker, review>>

\* Rows the index finds: it may lag, run late or be cut short, and find fewer;
\* each is checked against the store when the search ends.
Find(q) ==
    /\ request[q].at = "searching"
    /\ \E found \in SUBSET {r \in rows : /\ Eligible(r, request[q].ask)
                                         /\ ~ Unavailable(r) /\ Admitted(r)
                                         /\ r.id \notin request[q].previous} :
          request' = [request EXCEPT ![q].at = "found", ![q].items = {r.id : r \in found}]
    /\ UNCHANGED <<facts, clock, grouped, derived, rows, told, uses, dirty, worker, review>>

\* The use is recorded and the items are returned.
Return(q) ==
    /\ request[q].at = "found"
    /\ uses' = uses \cup {Used(q, request[q].ask, request[q].time, request[q].items, request[q].items)}
    /\ request' = [request EXCEPT ![q] = [at |-> "done"]]
    /\ UNCHANGED <<facts, clock, grouped, derived, rows, told, dirty, worker, review>>
-------------------------------------------------------------------------------
(* What is said of it *)

Kind(action) == CASE action = "helpful" -> "strengthen"
                  [] action = "wrong" -> "correct"
                  [] OTHER -> action

Said(k, source, action, about, resolves, applied) ==
    [id |-> 1000 + Cardinality(feedback), at |-> clock + 1, target |-> k, kind |-> Kind(action),
     source |-> source, resolves |-> resolves, about |-> about, applied |-> applied,
     scope |-> IF action = "set_scope" THEN "personal" ELSE None, scopeId |-> None]

\* #knowledgeEvidenceState: what is unresolved against a row, given some feedback.
UnresolvedIds(r, given) ==
    Ids(Unresolved(r.id, r.createdAt,
                   directKnowledgeCounterevidence(r.evidence, r.createdAt, log), given))

\* A confirmation makes a row active when it leaves nothing against it.
Confirmed(r, f) ==
    LET before == UnresolvedIds(r, feedback)
        left == Unresolved(r.id, r.createdAt,
                           directKnowledgeCounterevidence(r.evidence, r.createdAt, log),
                           feedback \cup {f})
        marked == [r EXCEPT !.marks = @ \cup {"user_confirmed"}]
    IN  IF before = {} /\ r.state \in {"disputed", "archived", "superseded"} THEN marked
        ELSE IF left # {}
        THEN [marked EXCEPT !.tier = "disputed",
                            !.state = IF Archived(left) \/ r.state = "archived"
                                      THEN "archived" ELSE "disputed"]
        ELSE [marked EXCEPT !.tier = IF @ \in {"inferred", "disputed"} THEN "user_confirmed" ELSE @,
                            !.state = "active"]

\* updatedCandidate, of what the user says only.
Updated(r, f, applied) ==
    LET n == IF applied THEN 1 ELSE 0 IN
    CASE f.kind = "strengthen" -> [r EXCEPT !.applied = @ + n, !.helpful = @ + n]
      [] f.kind = "correct" -> [r EXCEPT !.state = "disputed", !.tier = "disputed",
                                         !.applied = @ + n, !.harmful = @ + n]
      [] f.kind = "stale" -> [r EXCEPT !.state = "archived", !.expiresAt = f.at]
      [] f.kind = "revoke" -> [r EXCEPT !.state = "archived"]
      [] f.kind = "confirm" -> Confirmed(r, f)
      [] f.kind = "set_scope" -> [r EXCEPT !.scope = f.scope, !.scopeId = f.scopeId]
      [] OTHER -> r

UserOnly == {"confirm", "revoke", "set_scope", "mute_session"}

\* A session judges what a request of its own returned to it.
Judge(u, k, source, action, resolves, applied) ==
    /\ Cardinality(feedback) < script.said
    /\ k \in u.returned /\ k \in RowIds /\ ~ Unavailable(Row(k))
    /\ action \in UserOnly => source = "user"
    /\ action # "confirm" => resolves = {}
    /\ resolves \subseteq UnresolvedIds(Row(k), feedback)
    /\ LET f == Said(k, source, action, u.id, resolves, applied /\ source = "user")
       IN  /\ ~ \E g \in feedback : [g EXCEPT !.id = f.id, !.at = f.at] = f
           /\ feedback' = feedback \cup {f}
           /\ rows' = IF source # "user" \/ action \in {"irrelevant", "mute_session"} THEN rows
                      ELSE (rows \ {Row(k)}) \cup {Retain(Updated(Row(k), f, applied))}
           /\ muted' = IF action = "mute_session" THEN muted \cup {u.session} ELSE muted
           /\ uses' = IF applied /\ source = "user"
                      THEN (uses \ {u}) \cup {[u EXCEPT !.applied = @ \cup {k}]} ELSE uses
    /\ clock' = clock + 1
    /\ UNCHANGED <<facts, grouped, derived, receipts, dirty, worker, request, review>>
-------------------------------------------------------------------------------
(* What the user decides about it *)

\* The user is shown a row, and what is unresolved against it.
Review(r) ==
    /\ Cardinality(feedback) < script.said
    /\ review' = [row |-> r, unresolved |-> UnresolvedIds(r, feedback)]
    /\ UNCHANGED <<facts, clock, grouped, derived, rows, told, uses, dirty, worker, request>>

\* The row is what the user was shown (its digest).
Current(seen) == seen.row \in rows

Revoke ==
    /\ review # None /\ Current(review) /\ review.row.state # "archived"
    /\ Cardinality(feedback) < script.said
    /\ LET r == review.row
           f == Said(r.id, "user", "revoke", 1000 + Cardinality(feedback), {}, FALSE)
       IN  /\ feedback' = feedback \cup {f}
           /\ rows' = (rows \ {Row(r.id)}) \cup {Retain([Row(r.id) EXCEPT !.state = "archived"])}
    /\ clock' = clock + 1 /\ review' = None
    /\ UNCHANGED <<facts, grouped, derived, receipts, muted, uses, dirty, worker, request>>

\* knowledge correct, which needs no review.
Dispute(k) ==
    /\ Cardinality(feedback) < script.said
    /\ ~ (Row(k).state = "disputed" /\ Row(k).tier = "disputed")
    /\ feedback' = feedback \cup {Said(k, "user", "wrong", 1000 + Cardinality(feedback), {}, FALSE)}
    /\ rows' = (rows \ {Row(k)})
               \cup {Retain([Row(k) EXCEPT !.state = "disputed", !.tier = "disputed"])}
    /\ clock' = clock + 1
    /\ UNCHANGED <<facts, grouped, derived, receipts, muted, uses, dirty, worker, request, review>>

\* A rule of the user's own, which nothing derives.  Its name is unlike any other
\* that replaces something: the code makes it of what was reviewed.
ManualRow(name, content, scope, scopeId, previous) ==
    [id |-> [topic |-> [manual |-> name], expected |-> content],
     topic |-> [manual |-> name], content |-> content, createdAt |-> clock + 1,
     scope |-> scope, scopeId |-> scopeId, evidence |-> {}, episodes |-> {},
     marks |-> {"user_confirmed"}, tier |-> "user_confirmed", state |-> "active",
     expiresAt |-> None, supersedes |-> previous, coverage |-> 0, observed |-> 0,
     applied |-> 0, harmful |-> 0, helpful |-> 0]

\* resolve: the user's rule takes the place of one they reviewed, with all that
\* was against it resolved.
Resolve ==
    /\ review # None /\ Cardinality(feedback) < script.said
    /\ Current(review)
    /\ LET r == Row(review.row.id)
       IN  /\ UnresolvedIds(r, feedback) = review.unresolved
           /\ ~ (r.state = "disputed" /\ review.unresolved = {})
           /\ r.state # "superseded" /\ ~ Unavailable(r)
           /\ rows' = (rows \ {r})
                      \cup {[r EXCEPT !.state = "superseded"],
                            ManualRow(1 + Cardinality(feedback), r.content, r.scope, r.scopeId, r.id)}
           /\ feedback' = feedback \cup {Said(r.id, "user", "confirm", 1000 + Cardinality(feedback),
                                              review.unresolved, FALSE)}
           /\ receipts' = receipts \cup {r.id}
    /\ clock' = clock + 1 /\ review' = None
    /\ UNCHANGED <<facts, grouped, derived, muted, uses, dirty, worker, request>>

\* remember
Remember(content) ==
    /\ Cardinality(feedback) < script.said
    /\ \A r \in rows : r.id # ManualRow(0, content, "personal", None, None).id
    /\ rows' = rows \cup {ManualRow(0, content, "personal", None, None)}
    /\ clock' = clock + 1
    /\ UNCHANGED <<facts, grouped, derived, told, uses, dirty, worker, request, review>>

Mute(k, s) ==
    /\ Cardinality(feedback) < script.said /\ s \notin muted
    /\ feedback' = feedback \cup {Said(k, "user", "mute_session", 1000 + Cardinality(feedback), {}, FALSE)}
    /\ muted' = muted \cup {s}
    /\ clock' = clock + 1
    /\ UNCHANGED <<facts, grouped, derived, rows, receipts, uses, dirty, worker, request, review>>
-------------------------------------------------------------------------------
WorkerStep == Group \/ Correct \/ Read \/ Write

Next ==
    \/ \E s \in Sessions, gap \in script.gaps : Capture(s, gap)
    \/ WorkerStep \/ Stop
    \/ \E p \in script.decides, action \in {"merge", "split"} : Decide(p, action)
    \/ \E q \in Requests : (\E ask \in script.asks : Start(q, ask)) \/ Find(q) \/ Return(q)
    \/ \E u \in uses, j \in script.judges, applied \in BOOLEAN : \E k \in u.returned :
          \E resolves \in SUBSET (IF k \in RowIds THEN UnresolvedIds(Row(k), feedback) ELSE {}) :
             Judge(u, k, j[1], j[2], resolves, applied)
    \/ \E r \in rows : Review(r)
    \/ Revoke \/ Resolve
    \/ \E k \in RowIds : Dispute(k) \/ \E s \in Sessions : Mute(k, s)
    \/ \E content \in script.remembers : Remember(content)

Spec == Init /\ [][Next]_vars
-------------------------------------------------------------------------------
(* Properties *)

\* Whatever the sessions share, comparing only the pairs that the index of the
\* worker finds makes the same episodes as comparing those that share something
\* or come close, and as comparing all (the modes of EpisodeBuilder.build).
ModesAgree ==
    worker.at = "correct" =>
        \A mode \in {"all", "sparse"} : Build(mode, log, decisions) = episodes

\* Two sessions that the user has set apart, and has not put together again, are
\* in no episode together, whatever else draws each of them to a third
\* (mergeClusters).
SplitsHold ==
    \A x \in episodes : \A p \in Pairs(x.sessions) : Decision(p, decisions) # "split"

\* Both: sessions are grouped as the evidence and the user would have it.
GroupingIsSound == ModesAgree /\ SplitsHold

\* Two requests of one session are never given the same piece of knowledge,
\* though either may be overtaken while it searches (withSessionLock).
ReturnedOnce ==
    \A u, w \in uses : u # w /\ u.session = w.session => u.returned \cap w.returned = {}

\* Once everything is projected, the version of a topic that was corrected last,
\* if it is proved and nothing is unresolved against it, is the one that is
\* active (reconcileTopicVersions; docs/architecture.md:1290-1293).
LatestVersionStands ==
    LET Stated(r) == Greatest({e.at : e \in {f \in parsedCorrections(log) : correctionKeyId(f) = r.id}})
        Proved(r) == /\ Derives(r) /\ "externally_verified" \in r.marks /\ Admitted(r)
                     /\ r.state # "archived" /\ r.id \notin receipts
    IN  ~ dirty /\ worker = Idle =>
            \A r \in rows :
               Proved(r) /\ (\A v \in rows : v.topic = r.topic /\ Proved(v) => Stated(v) <= Stated(r))
               => r.state = "active"

\* What a confirmed rule has replaced never comes back, whatever the worker had
\* read before, and whatever is said of it later (#retainSupersededKnowledge).
ReplacedStays == \A r \in rows : r.id \in receipts => r.state \in {"superseded", "archived"}

\* Knowledge that somebody has spoken against is not returned to a request that
\* starts later, until the user confirms it again knowing of what was said; the
\* row may say otherwise, when the worker wrote it from what it read before.
RefutedIsWithheld ==
    [][\A q \in Requests : request[q].at = "found" /\ request'[q].at = "done" =>
          \A k \in request[q].items : \A f \in feedback :
             /\ f.target = k /\ f.kind \in Against /\ f.at <= request[q].time
             => \E y \in feedback : /\ y.target = k /\ y.kind = "confirm" /\ y.source = "user"
                                   /\ f.id \in y.resolves /\ f.at < y.at]_vars

\* Knowledge proves nothing about itself: what is found was not returned, in an
\* episode it is proved in, between a correction and the check that proves it.
ProofStands ==
    [][\A q \in Requests : request[q].at = "searching" /\ request'[q].at = "found" =>
          \A k \in request'[q].items : \A c, v \in WithIds(Row(k).evidence, log) :
             Binds(c, v, log) =>
                ~ \E u \in uses : \E x \in episodes :
                     /\ {c.id, v.id} \subseteq x.sourceEvents /\ u.episode = x.sessions
                     /\ k \in u.returned /\ c.at <= u.at /\ u.at <= v.at]_vars
===============================================================================
