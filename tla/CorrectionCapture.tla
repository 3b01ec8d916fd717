--------------------------- MODULE CorrectionCapture ---------------------------
(***************************************************************************)
(* From the user's corrections to correction keys, and to the later         *)
(* episodes in which a key could have helped.  A key is what a correction   *)
(* says: two corrections that say the same are occurrences of one key.      *)
(***************************************************************************)
EXTENDS EpisodeBuilder

Scopes == {"personal", "workflow", "repository", "branch"}

\* The scope a correction asks for, and the identity the event lends it.
ScopeOf(e) == IF e.says.scope = None THEN "repository" ELSE e.says.scope
ScopeIdOf(e) ==
    CASE ScopeOf(e) = "repository" -> e.repo
      [] ScopeOf(e) = "branch" -> IF None \in {e.repo, e.branch} THEN None
                                  ELSE <<e.repo, e.branch>>
      [] ScopeOf(e) = "workflow" -> e.says.scopeId
      [] OTHER -> None

\* The first thing that keeps a correction from being one, or None.
issue(e) ==
    LET checks == <<
            <<"untrusted_correction", e.trust # "user">>,
            <<"ambiguous_field", e.says.ambiguous>>,
            <<"missing_field", None \in {e.says.violated, e.says.expected, e.says.trigger}>>,
            <<"invalid_scope", ScopeOf(e) \notin Scopes>>,
            <<"missing_scope_identity", ScopeOf(e) # "personal" /\ ScopeIdOf(e) = None>> >>
        found == SelectSeq(checks, LAMBDA c : c[2])
    IN  IF found = <<>> THEN None ELSE found[1][1]

\* What the key of a correction is a digest of.
correctionKeyId(e) ==
    [topic |-> [violated |-> e.says.violated, trigger |-> e.says.trigger,
                scope |-> ScopeOf(e), scopeId |-> ScopeIdOf(e),
                taskFamily |-> e.says.taskFamily, subsystem |-> e.says.subsystem],
     expected |-> e.says.expected]

parsedCorrections(log) == {e \in log : e.type = "user.corrected" /\ issue(e) = None}

\* A correction in its episode, with the checks after it that prove it.
occurrenceFor(e, episodes, log) ==
    LET own == {x \in episodes : e.id \in x.sourceEvents} IN
    [event |-> e, key |-> correctionKeyId(e),
     episode |-> IF own = {} THEN None ELSE (CHOOSE x \in own : TRUE).sessions,
     verification |-> IF own = {} THEN {}
                      ELSE {v \in WithIds((CHOOSE x \in own : TRUE).sourceEvents, log) :
                              /\ v.at > e.at /\ verificationOutcome(v) = "succeeded"
                              /\ Binds(e, v, log)}]

Occurrences(episodes, log) == {occurrenceFor(e, episodes, log) : e \in parsedCorrections(log)}

correctionKeys(episodes, log) ==
    LET all == Occurrences(episodes, log)
    IN  {LET group == {o \in all : o.key = k}
         IN  [id |-> k, createdAt |-> Least({o.event.at : o \in group}),
              sources |-> {o.event.id : o \in group},
              verifications |-> Ids(UNION {o.verification : o \in group})] :
           k \in {o.key : o \in all}}
-------------------------------------------------------------------------------
(* Opportunities *)

\* What an episode begins with: its first prompt.
Prompt(x, log) == {e \in WithIds(x.sourceEvents, log) :
                     /\ e.type = "prompt.submitted"
                     /\ \A f \in WithIds(x.sourceEvents, log) :
                           f.type = "prompt.submitted" => f = e \/ Earlier(e, f)}
InitialTokens(x, log) == UNION {e.words : e \in Prompt(x, log)}
InitialField(x, f, log) == IF Prompt(x, log) = {} THEN None
                           ELSE (CHOOSE e \in Prompt(x, log) : TRUE).says[f]

scopeMatchesEpisode(key, x, log) ==
    LET topic == key.id.topic IN
    CASE topic.scope = "personal" -> TRUE
      [] topic.scope = "repository" -> x.repo = topic.scopeId
      [] topic.scope = "branch" -> x.repo # None
                                   /\ \E b \in x.branches : <<x.repo, b>> = topic.scopeId
      [] topic.scope = "workflow" -> InitialField(x, "scopeId", log) = topic.scopeId

\* triggerRelevance: how much of the trigger's words the episode begins with.
TriggerShare(key, x, log) ==
    LET words == key.id.topic.trigger
    IN  IF words = {} THEN 0
        ELSE (100 * Cardinality(words \cap InitialTokens(x, log))) \div Cardinality(words)

\* Whether a dimension the key names is the episode's, and whether none other is asked for.
Dimensions == {"taskFamily", "subsystem"}
Shares(key, f, x, log) == key.id.topic[f] # None /\ InitialField(x, f, log) = key.id.topic[f]
Fits(key, f, x, log) == key.id.topic[f] = None \/ Shares(key, f, x, log)

\* The knowledge of a key that was there when the episode began.
knowledgeCandidatesForKey(key, candidates, x) ==
    {c \in candidates : /\ c.createdAt <= x.startedAt
                        /\ c.evidence \cap (key.sources \cup key.verifications) # {}}

opportunity(key, x, occurrences, candidates, uses) ==
    LET repeated == {o.event.at : o \in {p \in occurrences : p.episode = x.sessions}}
        related == knowledgeCandidatesForKey(key, candidates, x)
        applicable == {u \in uses :
                         /\ u.episode = x.sessions /\ u.at >= x.startedAt
                         /\ IF repeated # {} THEN u.at <= Least(repeated)
                            ELSE x.finishedAt = None \/ u.at <= x.finishedAt}
        available == {c.id : c \in {d \in related : d.state = "active"}}
                     \cup ({c.id : c \in related} \cap UNION {u.returned : u \in applicable})
    IN  [key |-> key.id, episode |-> x.sessions, createdAt |-> x.startedAt,
         repeated |-> repeated # {},
         available |-> available # {},
         applied |-> \E u \in applicable : u.applied \cap available # {},
         outcomeKnown |-> x.outcome.qualification = "qualified"]

\* The episodes, after the key was first proved, in which it could have mattered.
Opportunities(episodes, log, candidates, uses) ==
    LET all == Occurrences(episodes, log)
        Of(key) == {o \in all : o.key = key.id}
        Proved(key) == {v.at : v \in UNION {o.verification : o \in Of(key)}}
        Meets(key, x) ==
            /\ x.startedAt > Least(Proved(key))
            /\ scopeMatchesEpisode(key, x, log)
            /\ \/ TriggerShare(key, x, log) >= 50
               \/ \E f \in Dimensions : Shares(key, f, x, log)
        proved == {key \in correctionKeys(episodes, log) : Proved(key) # {}}
    IN  UNION {{opportunity(key, x, Of(key), candidates, uses)
                  @@ [applicable |-> /\ TriggerShare(key, x, log) = 100
                                     /\ \A f \in Dimensions : Fits(key, f, x, log)] :
                  x \in {y \in episodes : Meets(key, y)}} : key \in proved}
===============================================================================
