---------------------------- MODULE EpisodeBuilder -----------------------------
(***************************************************************************)
(* How sessions are grouped into work episodes: what two sessions share is  *)
(* weighed, what the user has decided about a pair overrules it, and groups *)
(* are joined only when every pair across them belongs together.  The       *)
(* worker compares only the pairs an index finds ("connected"); comparing   *)
(* all of them, or the sparse ones, must not make a difference.            *)
(***************************************************************************)
EXTENDS VerificationProof, Integers

CONSTANTS
    Day,        \* 24 hours, on the clock of the events
    Proximity,  \* <<gap, weight>> of temporalWeight, nearest first
    Ancestor(_, _) \* isAncestor: the first commit is an ancestor of the second

Modes == {"all", "sparse", "connected"}
SESSION_FEATURES == {"branches", "commits", "files", "issues", "pullRequests",
                     "testOrErrors", "tokens"}

\* Weights and thresholds, in thousandths.
associatedThreshold == 850
candidateThreshold == 550
Weight == [branches |-> 720, commits |-> 990, pullRequests |-> 980, issues |-> 960,
           testOrErrors |-> 780]
MaximumWeight == Weight @@ [files |-> 800, tokens |-> 650, temporal |-> 650, ancestry |-> 550]
Corroborating == {"files", "issues", "pullRequests", "testOrErrors", "tokens", "temporal"}

Greatest(S) == CHOOSE x \in S : \A y \in S : y <= x
Least(S) == CHOOSE x \in S : \A y \in S : x <= y
-------------------------------------------------------------------------------
(* What an event is to an episode *)

isInternalWorkSource(e) == e.internal /\ e.trust # "user"
isUserMessage(e) == e.trust = "user" /\ e.type \in {"prompt.submitted", "user.corrected"}
                    /\ e.text # "empty"
isUserGoal(e) == isUserMessage(e) /\ e.text = "meaningful"
isCreatedCommitEvent(e) == e.type = "git.commit" /\ trustedExecution(e) /\ e.created

isSubstantiveWork(e) ==
    /\ ~ isInternalWorkSource(e)
    /\ \/ isUserGoal(e)
       \/ e.type = "agent.message" /\ e.trust = "model" /\ e.text = "meaningful"
       \/ /\ trustedExecution(e) /\ e.type # "agent.message"
          /\ \/ isCreatedCommitEvent(e) /\ e.commit # None
             \/ isVerificationEvent(e)
             \/ e.type = "file.changed" /\ e.files # {}
             \/ e.type \in {"tool.started", "tool.completed", "tool.failed"} /\ e.detail
             \/ /\ e.type \in {"issue.linked", "pull_request.updated", "review.received",
                               "change.reverted"}
                /\ e.text = "meaningful" \/ e.detail

\* A prompt of nobody's, or one that says nothing, refers to nothing.
Refers(e) == e.type = "prompt.submitted" => isUserGoal(e)
-------------------------------------------------------------------------------
(* Sessions *)

\* What one event adds to a feature of its session.
FeatureOf(e, feature) ==
    CASE feature = "branches" -> {e.branch} \ {None}
      [] feature = "commits" -> IF isCreatedCommitEvent(e) THEN {e.commit} \ {None} ELSE {}
      [] feature = "files" -> IF e.type = "file.changed" THEN e.files ELSE {}
      [] feature = "issues" -> IF Refers(e) THEN e.issues ELSE {}
      [] feature = "pullRequests" -> IF Refers(e) THEN e.pullRequests ELSE {}
      [] feature = "testOrErrors" ->
           IF e.type \in {"build.completed", "session.error", "test.completed", "tool.failed"}
           THEN e.signatures ELSE {}
      [] feature = "tokens" -> IF isUserGoal(e) THEN e.tokens ELSE {}

sessionSummary(s, events) ==
    LET repos == {e.repo : e \in events} \ {None} IN
    [session |-> s, events |-> events,
     startMs |-> Least({e.at : e \in events}), endMs |-> Greatest({e.at : e \in events}),
     repoId |-> IF Cardinality(repos) = 1 THEN CHOOSE r \in repos : TRUE ELSE None,
     repoKey |-> IF Cardinality(repos) = 1 THEN <<"known", CHOOSE r \in repos : TRUE>>
                 ELSE <<"unknown", s>>,
     feature |-> [f \in SESSION_FEATURES |-> UNION {FeatureOf(e, f) : e \in events}]]

internalWork(events) ==
    ~ (\E e \in events : isUserMessage(e)) /\ \E e \in events : isInternalWorkSource(e)

\* The sessions that are work, without what the product itself did in them.
WorkEvents(s, log) ==
    LET events == {e \in log : e.session = s}
    IN  IF internalWork(events) \/ ~ \E e \in events : isSubstantiveWork(e) THEN {}
        ELSE {e \in events : ~ isInternalWorkSource(e)}

Summaries(log) ==
    LET worked == {s \in {e.session : e \in log} \ {None} : WorkEvents(s, log) # {}}
    IN  [s \in worked |-> sessionSummary(s, WorkEvents(s, log))]
-------------------------------------------------------------------------------
(* What two sessions have in common *)

temporalWeight(l, r) ==
    LET gap == Greatest({l.startMs, r.startMs}) - Least({l.endMs, r.endMs})
        near == SelectSeq(Proximity, LAMBDA step : gap <= step[1])
    IN  IF near = <<>> THEN 0 ELSE near[1][2]

\* overlap: the shared values and their share of all, in thousandths.
Shared(f, l, r) == l.feature[f] \cap r.feature[f]
jaccard(f, l, r) ==
    LET all == Cardinality(l.feature[f] \cup r.feature[f])
    IN  IF all = 0 THEN 0 ELSE (1000 * Cardinality(Shared(f, l, r))) \div all

AncestryConnects(l, r) ==
    l.repoId # None /\ l.repoId = r.repoId
    /\ \E c \in l.feature["commits"], d \in r.feature["commits"] :
          Ancestor(c, d) \/ Ancestor(d, c)

\* The signals of a pair of one repository, with their weights.
Signals(l, r) ==
    LET same == {f \in DOMAIN Weight : Shared(f, l, r) # {}}
        part(f, least) == least + ((MaximumWeight[f] - least) * jaccard(f, l, r)) \div 1000
        files == IF Shared("files", l, r) = {} THEN <<>> ELSE "files" :> part("files", 650)
        tokens == IF jaccard("tokens", l, r) < 250 THEN <<>> ELSE "tokens" :> part("tokens", 400)
        temporal == IF temporalWeight(l, r) = 0 THEN <<>>
                    ELSE "temporal" :> temporalWeight(l, r)
        found == [f \in same |-> Weight[f]] @@ files @@ tokens @@ temporal
    IN  IF DOMAIN found \cap Corroborating # {} /\ AncestryConnects(l, r)
        THEN found @@ ("ancestry" :> 550) ELSE found

\* What the signals leave open, in millionths: the product of their complements.
Doubt(weights) ==
    FoldSet(LAMBDA f, doubt : (doubt * (1000 - weights[f])) \div 1000, 1000000, DOMAIN weights)
Confident(weights, threshold) == Doubt(weights) <= (1000 - threshold) * 1000
-------------------------------------------------------------------------------
(* What the user has decided *)

\* correctionMap: the last decision about a pair, or None.
Decision(pair, corrections) ==
    LET about == {c \in corrections : pair \subseteq c.sessions}
    IN  IF about = {} THEN None
        ELSE (CHOOSE c \in about : \A d \in about : c = d \/ Earlier(d, c)).action

DecidedAt(pair, corrections) ==
    Greatest({c.at : c \in {d \in corrections : pair \subseteq d.sessions}})
-------------------------------------------------------------------------------
(* Which pairs are compared *)

Pairs(S) == {p \in SUBSET S : Cardinality(p) = 2}
First(p) == CHOOSE s \in p : \A t \in p : s <= t
Second(p) == CHOOSE s \in p : \A t \in p : t <= s
Decided(p, corrections) == \E c \in corrections : p \subseteq c.sessions

\* The features two sessions share, by the postings of their repository.
Posted(l, r) == {f \in SESSION_FEATURES : Shared(f, l, r) # {}}

\* sessionIntervals, a tree over the sessions by start, and its visit: those
\* whose time comes within a day of the session l's.
Near(l, sums, repo) ==
    LET entries == SetToSortSeq({s \in DOMAIN sums : sums[s].repoKey = repo},
                                LAMBDA s, t : \/ sums[s].startMs < sums[t].startMs
                                              \/ sums[s].startMs = sums[t].startMs /\ s < t)
        maximumEnd(b, e) == Greatest({sums[entries[i]].endMs : i \in (b + 1)..e})
        visit[b \in 0..Len(entries), e \in 0..Len(entries)] ==
            IF b >= e \/ maximumEnd(b, e) < l.startMs - Day THEN {}
            ELSE LET middle == (b + e) \div 2
                     node == sums[entries[middle + 1]]
                 IN  visit[b, middle]
                     \cup IF node.startMs > l.endMs + Day THEN {}
                          ELSE (IF node.endMs >= l.startMs - Day THEN {node.session} ELSE {})
                               \cup visit[middle + 1, e]
    IN  visit[0, Len(entries)]

\* Mutant: the bound takes two sessions that are close for as little as it can be.
BoundTooLow(bits) == LET w == [MaximumWeight EXCEPT !["temporal"] = 250]
                     IN  Doubt([f \in bits |-> w[f]]) <= (1000 - associatedThreshold) * 1000 + 10

\* couldAssociate: the most these bits could be worth, with some slack.
CouldAssociate(bits) ==
    Doubt([f \in bits |-> MaximumWeight[f]]) <= (1000 - associatedThreshold) * 1000 + 10

ConnectedPairs(sums, corrections) ==
    {p \in Pairs(DOMAIN sums) :
        LET l == sums[First(p)]
            r == sums[Second(p)]
            near == IF r.session \in Near(l, sums, l.repoKey) THEN {"temporal"} ELSE {}
            bits == IF l.repoKey = r.repoKey THEN Posted(l, r) \cup near ELSE {}
            ancestry == IF /\ l.repoId # None /\ l.repoId = r.repoId
                           /\ l.feature["commits"] # {} /\ r.feature["commits"] # {}
                           /\ bits \cap Corroborating # {}
                        THEN {"ancestry"} ELSE {}
        IN  \/ Decided(p, corrections)
            \/ bits # {} /\ CouldAssociate(bits \cup ancestry)}

\* Those that share a feature, or that a sweep by start finds still going on
\* less than a day before.
SparsePairs(sums, corrections) ==
    {p \in Pairs(DOMAIN sums) :
        LET l == sums[First(p)]
            r == sums[Second(p)]
            early == IF r.startMs < l.startMs THEN r ELSE l
            late == IF r.startMs < l.startMs THEN l ELSE r
        IN  \/ Decided(p, corrections)
            \/ /\ l.repoKey = r.repoKey
               /\ Posted(l, r) # {} \/ early.endMs >= late.startMs - Day}

PairsOf(mode, sums, corrections) ==
    CASE mode = "all" -> Pairs(DOMAIN sums)
      [] mode = "sparse" -> SparsePairs(sums, corrections)
      [] mode = "connected" -> ConnectedPairs(sums, corrections)
-------------------------------------------------------------------------------
(* Associations and groups *)

Association(p, sums, corrections) ==
    LET l == sums[First(p)]
        r == sums[Second(p)]
        weights == IF l.repoKey = r.repoKey THEN Signals(l, r) ELSE <<>>
        decision == Decision(p, corrections)
    IN  [pair |-> p, decision |-> decision,
         createdAt |-> IF decision = None THEN Least({l.startMs, r.startMs})
                       ELSE DecidedAt(p, corrections),
         doubt |-> IF decision = None THEN Doubt(weights) ELSE 0,
         status |-> CASE decision = "split" -> "rejected"
                      [] decision = "merge" -> "associated"
                      [] OTHER -> IF Confident(weights, associatedThreshold) THEN "associated"
                                  ELSE IF Confident(weights, candidateThreshold) THEN "candidate"
                                  ELSE "rejected"]

Associations(mode, sums, corrections) ==
    {a \in {Association(p, sums, corrections) : p \in PairsOf(mode, sums, corrections)} :
        \/ mode = "all" \/ a.status = "associated" \/ a.decision # None
        \/ mode = "sparse" /\ a.status = "candidate"}

\* The order of association ids: hashes of the two session ids.
PairBefore(p, q) == First(p) < First(q) \/ (First(p) = First(q) /\ Second(p) < Second(q))

\* mergeClusters: the groups of a pair become one, unless a split or, for what
\* the user did not ask for, a pair that is not associated stands between them.
mergeClusters(clusters, a, requireCompleteLink, associations) ==
    LET parts == {c \in clusters : c \cap a.pair # {}}
        across == {p \in Pairs(UNION parts) : \A c \in parts : ~ p \subseteq c}
        split == \E x \in associations : x.pair \in across /\ x.decision = "split"
        linked == \A p \in across : \E x \in associations : x.pair = p /\ x.status = "associated"
    IN  IF split \/ (requireCompleteLink /\ ~ linked) THEN clusters
        ELSE (clusters \ parts) \cup {UNION parts}

completeLinkClusters(sessions, associations) ==
    LET explicit == SetToSortSeq({a \in associations : a.decision = "merge"},
                        LAMBDA a, b : \/ a.createdAt < b.createdAt
                                      \/ a.createdAt = b.createdAt /\ PairBefore(a.pair, b.pair))
        automatic == SetToSortSeq({a \in associations : a.status = "associated"
                                                        /\ a.decision = None},
                        LAMBDA a, b : \/ a.doubt < b.doubt
                                      \/ a.doubt = b.doubt /\ PairBefore(a.pair, b.pair))
        asked == FoldLeft(LAMBDA c, a : mergeClusters(c, a, FALSE, associations),
                          {{s} : s \in sessions}, explicit)
    IN  FoldLeft(LAMBDA c, a : mergeClusters(c, a, TRUE, associations), asked, automatic)
-------------------------------------------------------------------------------
(* Episodes *)

Latest(S) == CHOOSE e \in S : \A f \in S : e = f \/ Earlier(f, e)
Earliest(S) == CHOOSE e \in S : \A f \in S : e = f \/ Earlier(e, f)

outcome(events) ==
    LET reverted == {e \in events : e.type = "change.reverted" /\ trustedExecution(e)}
        results == {e \in events : isVerificationEvent(e)}
        latest == IF results = {} THEN "unknown" ELSE verificationOutcome(Latest(results))
    IN  CASE reverted # {} -> [outcome |-> "reverted", qualification |-> "qualified"]
          [] reverted = {} /\ latest = "failed" ->
               [outcome |-> "failure", qualification |-> "qualified"]
          [] reverted = {} /\ latest = "succeeded" ->
               [outcome |-> "success", qualification |-> "censored"]
          [] OTHER -> [outcome |-> "unknown", qualification |-> "open"]

\* The end of a session, unless something was done or started after it.
Closures(events) ==
    LET ends == {e \in events : e.type = "session.ended" /\ e.trust \in {"system", "user"}}
    IN  IF ends = {} \/ \E e \in events : /\ e.at > Latest(ends).at
                                          /\ isSubstantiveWork(e) \/ e.type = "session.started"
        THEN {} ELSE {Latest(ends)}

episodeFromCluster(cluster, sums, associations, corrections) ==
    LET events == UNION {sums[s].events : s \in cluster}
        goals == {e \in events : isUserGoal(e)}
        work == {e \in events : isSubstantiveWork(e)}
        closures == UNION {Closures(sums[s].events) : s \in cluster}
        repos == {sums[s].repoId : s \in cluster} \ {None}
        inner == {a \in associations : a.pair \subseteq cluster /\ a.status = "associated"}
    IN  [sessions |-> cluster, sourceEvents |-> Ids(events),
         startedAt |-> Earliest(events).at, lastActivityAt |-> Latest(events).at,
         finishedAt |-> IF Cardinality(closures) = Cardinality(cluster)
                        THEN Latest(closures).at ELSE None,
         goal |-> IF goals # {} THEN Earliest(goals).id ELSE Earliest(work).id,
         repo |-> IF Cardinality(repos) = 1 THEN CHOOSE r \in repos : TRUE ELSE None,
         branches |-> {e.branch : e \in events} \ {None},
         outcome |-> outcome(events),
         doubt |-> Greatest({0} \cup {a.doubt : a \in inner}),
         corrections |-> {c.id : c \in {d \in corrections : d.sessions \cap cluster # {}}}]

Build(mode, log, corrections) ==
    LET sums == Summaries(log)
        associations == Associations(mode, sums, corrections)
    IN  {episodeFromCluster(c, sums, associations, corrections) :
           c \in completeLinkClusters(DOMAIN sums, associations)}
===============================================================================
