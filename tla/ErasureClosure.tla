---------------------------- MODULE ErasureClosure ----------------------------
(***************************************************************************)
(* What goes with what is erased.  The canonical store holds captured      *)
(* events, which refer to each other, and rows that were derived from them *)
(* or say something of them: episodes, associations, branch contexts,      *)
(* correction keys and opportunities, knowledge, learning jobs and their   *)
(* proposals, feedback, mutes and uses.  deleteCanonicalTarget selects     *)
(* what follows from a source, a session, an episode or a piece of         *)
(* knowledge, writes its plan into the operation, and erases it in one     *)
(* transaction; DeletionService rebuilds what can be rebuilt around it and *)
(* lets its gate look for remains.  A call may end between any two of      *)
(* these steps, and the next one goes on from the plan.                    *)
(*                                                                         *)
(* The queue's side, its barrier and its tombstones are in Deletion.       *)
(***************************************************************************)
EXTENDS Naturals, FiniteSets

CONSTANTS
    Events,
    SessionOf,   \* per event
    RefersTo,      \* per event, the events its envelope names, its own source alias apart
    Linked,      \* the pairs of sessions that are associated
    Corrects, Proves,   \* an event that corrects, and the check that proves it
    Jobs,
    LearnsFrom,  \* per learning job, the event of its window
    Learns,      \* per job, the lessons its proposals propose
    Reviewed,    \* per job, the lessons they were reviewed against and replace
    Rules,       \* ids of rules the user writes
    NoTarget,
    MaxSayings,  \* bound on what users say and sessions are given
    MaxDeletions, MaxInterrupts   \* bounds

EventSessions == {SessionOf[e] : e \in Events}
Learnable == UNION {Learns[j] : j \in Jobs}
KnowledgeIds == Learnable \cup Rules \cup {"fact"}

ASSUME FiniteAssumption ==
    /\ IsFiniteSet(Events) /\ IsFiniteSet(Jobs) /\ IsFiniteSet(Linked)
    /\ \A j \in Jobs : IsFiniteSet(Learns[j])

\* Ids of different kinds differ.
ASSUME IdsDiffer ==
    /\ Rules \cap (Learnable \cup EventSessions \cup {"fact", "word"}) = {}
    /\ "fact" \notin Learnable /\ "word" \notin EventSessions
    /\ NoTarget \notin {"source", "session", "episode", "knowledge"}
                         \X (Events \cup EventSessions \cup KnowledgeIds \cup SUBSET EventSessions)

VARIABLES
    raw,        \* raw_events
    stored,     \* the rows of every other table
    tombs,      \* the blocked identities of completed operations
    suppressed, \* learning_suppressions and the targets of knowledge deletions
    operation,  \* the operation that is not completed, with its plan
    completed,  \* the targets of those that are
    call,       \* where the delete() call is, or "idle"
    sayings, interrupts

erasureVars == <<raw, stored, tombs, suppressed, operation, completed, call, sayings, interrupts>>

\* A reference is to an event, a session or an episode, or to a row of a table.
EventRefs(S) == {<<"event", e>> : e \in S}
SessionRefs(T) == {<<"session", s>> : s \in T}
Piece(k) == <<"knowledge", k>>

RowOf(table, id, refs) == [self |-> <<table, id>>, refs |-> refs, state |-> "row", replaces |-> {}]
Knowledge(id, refs, state, replaces) ==
    [self |-> Piece(id), refs |-> refs \cup {Piece(k) : k \in replaces},
     state |-> state, replaces |-> replaces]

Table(r) == r.self[1]
Id(r) == r.self[2]
In(table) == {r \in stored : Table(r) = table}
Known(k) == \E r \in stored : r.self = Piece(k)

NoOperation ==
    [target |-> NoTarget, sources |-> {}, sessions |-> {}, seeds |-> {}, dependents |-> {}]
DeletionIsActive == operation.target # NoTarget

ErasureInit ==
    /\ raw = {} /\ stored = {} /\ tombs = {} /\ suppressed = {}
    /\ operation = NoOperation /\ call = "idle"
    /\ sayings = 0 /\ completed = {} /\ interrupts = 0
-------------------------------------------------------------------------------
(* What is derived from the events *)

Present(T) == {SessionOf[e] : e \in T}

\* The episodes of the sessions that have events, an id being its sessions.
GroupsOf(T) ==
    {p \in (SUBSET Present(T)) \ {{}} :
        /\ \A s, t \in p : s = t \/ {s, t} \in Linked
        /\ \A s \in p, t \in Present(T) \ p : {s, t} \notin Linked}

Of(T, p) == {e \in T : SessionOf[e] \in p}

EpisodeRows(T) ==
    {RowOf("work_episode", p, EventRefs(Of(T, p)) \cup SessionRefs(p)) : p \in GroupsOf(T)}
LinkRows(T) ==
    {RowOf("link", p, EventRefs(Of(T, p)) \cup SessionRefs(p)) :
        p \in {q \in Linked : q \subseteq Present(T)}}
ContextRows(T) ==
    IF T = {} THEN {}
    ELSE {RowOf("context", "branch", EventRefs(T) \cup {<<"episode", p>> : p \in GroupsOf(T)})}

\* replaceWorkEpisodeProjection also binds the uses to the episodes there are.
Rebound(use, T) ==
    [use EXCEPT !.refs = {x \in @ : x[1] # "episode"}
                         \cup {<<"episode", p>> :
                             p \in {q \in GroupsOf(T) : \E s \in q : <<"session", s>> \in use.refs}}]

WithEpisodes(R, T) ==
    {r \in R : Table(r) \notin {"work_episode", "link", "use"}}
      \cup {Rebound(r, T) : r \in {u \in R : Table(u) = "use"}}
      \cup EpisodeRows(T) \cup LinkRows(T)

ProjectionOf(T) == EpisodeRows(T) \cup LinkRows(T) \cup ContextRows(T)

\* The store refuses a projection that names what was erased.
Refused(R) ==
    \E r \in R :
        (r.refs \cup (IF Table(r) = "work_episode" THEN {<<"episode", Id(r)>>} ELSE {})) \cap tombs # {}

WithContexts(R, T) == {r \in R : Table(r) # "context"} \cup ContextRows(T)

\* The correction key, the opportunity and the knowledge of a proved correction.
Proved(T) == {Corrects, Proves} \subseteq T
CorrectionRows(T) ==
    IF ~ Proved(T) THEN {}
    ELSE {RowOf("key", "key", EventRefs({Corrects, Proves}))}
         \cup {RowOf("opportunity", p, {<<"episode", p>>, <<"key", "key">>}) : p \in GroupsOf(T)}

CandidateRows(T) ==
    IF ~ Proved(T) \/ "fact" \in suppressed THEN {}
    ELSE {Knowledge("fact", EventRefs({Corrects, Proves}) \cup
                      {<<"episode", p>> : p \in {q \in GroupsOf(T) : SessionOf[Corrects] \in q}},
                    IF \E r \in stored : r.self = Piece("fact") /\ r.state = "superseded"
                    THEN "superseded" ELSE "active", {})}

\* A worker run; what the user replaced is kept though it is no longer derived.
WithCorrections(R, T) ==
    {r \in R : /\ Table(r) \notin {"key", "opportunity"}
               /\ r.self = Piece("fact") => r.state = "superseded" /\ CandidateRows(T) = {}}
      \cup CorrectionRows(T) \cup CandidateRows(T)

Project ==
    /\ ~ DeletionIsActive
    /\ ~ Refused(ProjectionOf(raw) \cup CorrectionRows(raw) \cup CandidateRows(raw))
    /\ stored' = WithCorrections(WithContexts(WithEpisodes(stored, raw), raw), raw)
    /\ UNCHANGED <<raw, tombs, suppressed, operation, completed, call, sayings, interrupts>>
-------------------------------------------------------------------------------
(* Capture, the learner and the users *)

\* captureEnvelopeDeletionBlocked: by itself, its session or what it refers to.
Blocked(e) == (EventRefs({e} \cup RefersTo[e]) \cup SessionRefs({SessionOf[e]})) \cap tombs # {}

Ingest(e) ==
    /\ ~ DeletionIsActive /\ e \notin raw /\ ~ Blocked(e)
    /\ raw' = raw \cup {e}
    /\ UNCHANGED <<stored, tombs, suppressed, operation, completed, call, sayings, interrupts>>

\* A job, its proposals and the lessons they make; those they replace are superseded.
Learn(j) ==
    /\ ~ DeletionIsActive
    /\ LearnsFrom[j] \in raw /\ ~ \E r \in In("job") : Id(r) = j
    /\ Learns[j] \cap suppressed = {}
    /\ \A k \in Reviewed[j] : \E r \in stored : r.self = Piece(k) /\ r.state = "candidate"
    /\ stored' = {IF Table(r) = "knowledge" /\ Id(r) \in Reviewed[j]
                THEN [r EXCEPT !.state = "superseded"] ELSE r : r \in stored}
         \cup {RowOf("job", j, EventRefs({LearnsFrom[j]}))}
         \cup {RowOf("proposal", <<j, k>>, {<<"job", j>>, Piece(k)} \cup {Piece(x) : x \in Reviewed[j]}) :
                  k \in Learns[j]}
         \cup {Knowledge(k, EventRefs({LearnsFrom[j]}), "candidate", {}) : k \in Learns[j]}
    /\ UNCHANGED <<raw, tombs, suppressed, operation, completed, call, sayings, interrupts>>

Say(more) ==
    /\ ~ DeletionIsActive /\ sayings < MaxSayings
    /\ sayings' = sayings + 1
    /\ stored' = more
    /\ UNCHANGED <<raw, tombs, suppressed, operation, completed, call, interrupts>>

\* replaceKnowledgeWithConfirmedRule
Replace(k, rule) ==
    /\ Known(k) /\ ~ Known(rule) /\ k # rule
    /\ {k, rule} \cap suppressed = {}
    /\ \E old \in stored :
         /\ old.self = Piece(k) /\ old.state # "superseded"
         /\ Say((stored \ {old}) \cup
                {[old EXCEPT !.state = "superseded"],
                 Knowledge(rule, {}, "active", {k}),
                 RowOf("feedback", <<rule, k>>, {Piece(k), Piece(rule)})})

\* recordKnowledgeFeedback: a word on a piece of knowledge; muting a session for
\* it also leaves a row of its own.
Speak(k) ==
    /\ Known(k) /\ ~ \E r \in stored : r.self = <<"feedback", <<"word", k>>>>
    /\ Say(stored \cup {RowOf("feedback", <<"word", k>>, {Piece(k)})})

MuteSession(k, s) ==
    /\ Known(k) /\ s \in Present(raw)
    /\ Say(stored \cup {RowOf("feedback", <<s, k>>, {Piece(k), <<"session", s>>}),
                      RowOf("mute", s, {Piece(k), <<"session", s>>, <<"feedback", <<s, k>>>>})})

\* appendContextUseRecord, bound to an episode at the next rebuild.
Use(s) ==
    /\ s \in Present(raw) /\ ~ \E r \in In("use") : Id(r) = s
    /\ Say(stored \cup {RowOf("use", s, {<<"session", s>>} \cup
                          {r.self : r \in In("context")
                                               \cup {k \in In("knowledge") : k.state = "active"}})})
-------------------------------------------------------------------------------
(* deleteCanonicalTarget *)

Targets ==
    {<<"source", e>> : e \in raw} \cup
    {<<"session", x>> : x \in Present(raw)} \cup
    {<<"episode", Id(r)>> : r \in In("work_episode")} \cup
    {<<"knowledge", Id(r)>> : r \in In("knowledge")}

\* What is reached from a set on the edges: it is grown until nothing is added.
Reached(A, edge) ==
    LET from[X \in SUBSET DOMAIN edge] ==
            LET more == X \cup UNION {edge[x] : x \in X} IN IF more = X THEN X ELSE from[more]
    IN  from[A]

Is(type) == operation.target[1] = type
TargetId == operation.target[2]

TargetEpisode == {r \in In("work_episode") : Is("episode") /\ Id(r) = TargetId}

\* The sessions that are erased as such.
TargetSessions ==
    operation.sessions \cup (IF Is("session") THEN {TargetId} ELSE {})
                \cup UNION {Id(r) : r \in TargetEpisode}

\* The events of the target, and all that refer to them.
Named == operation.sources \cup (IF Is("source") THEN {TargetId} ELSE {})
                    \cup UNION {Of(raw, Id(r)) : r \in TargetEpisode}

Selected ==
    Reached({e \in raw : \/ e \in Named \/ SessionOf[e] \in TargetSessions
                         \/ RefersTo[e] \cap Named # {}},
            [x \in raw |-> {e \in raw : x \in RefersTo[e]}])

Sources == Named \cup Selected

\* Episodes some of whose events go: what refers to them goes, they are rebuilt.
Seeds ==
    LET erased == EventRefs(Selected)
    IN  operation.seeds \cup (IF Is("episode") THEN {TargetId} ELSE {})
          \cup {Id(r) : r \in {x \in In("work_episode") :
                   \/ x.refs \cap erased # {}
                   \/ Is("session") /\ TargetId \in Id(x)}}

ProposalsOf(J) == {p \in In("proposal") : Id(p)[1] \in J}

\* The lessons that go with some jobs.
LessonsOf(J) == {Id(p)[2] : p \in ProposalsOf(J)} \cup (IF Is("knowledge") THEN {TargetId} ELSE {})

\* Mutant: what was reviewed against a forgotten lesson is left.
AffectedJobsUnreviewed ==
    {Id(r) : r \in {x \in In("job") :
        \/ EventRefs(Sources) \cap x.refs # {}
        \/ Is("knowledge") /\ \E p \in In("proposal") : Id(p) = <<Id(x), TargetId>>}}

\* The jobs that propose some knowledge or were reviewed against it.
JobsOn(ids) == {Id(p)[1] : p \in {q \in In("proposal") : \E k \in ids : Piece(k) \in q.refs}}

\* The jobs whose window has an erased event and, on and on, those that propose
\* what goes or were reviewed against it.
AffectedJobs ==
    LET erased == EventRefs(Sources)
        first == {j \in Jobs : \E r \in In("job") : Id(r) = j /\ r.refs \cap erased # {}}
        forgotten == IF Is("knowledge") THEN {TargetId} ELSE {}
    IN  Reached(first \cup JobsOn(forgotten),
                [j \in Jobs |-> JobsOn({Id(p)[2] : p \in ProposalsOf({j})})])

AffectedLessons == LET jobs == AffectedJobs IN LessonsOf(jobs)

LearningRefs ==
    LET jobs == AffectedJobs
    IN  {Piece(k) : k \in LessonsOf(jobs)} \cup {<<"job", j>> : j \in jobs}
          \cup {p.self : p \in ProposalsOf(jobs)}

\* The plan is in the operation before anything is erased.
Select ==
    /\ call = "select"
    /\ operation' = [operation EXCEPT !.sources = Sources, !.sessions = TargetSessions,
                        !.seeds = Seeds, !.dependents = @ \cup LearningRefs]
    /\ call' = "erase"
    /\ UNCHANGED <<raw, stored, tombs, suppressed, completed, sayings, interrupts>>

\* The sessions nothing is left of; a source's are looked at too.
RemovedSessions ==
    LET going == Selected IN (operation.sessions \cup Present(going)) \ Present(raw \ going)

\* bodyReferences: of some rows, those that name what goes, and on and on those
\* that name these.
Dependent(R, typed) ==
    Reached({r \in R : r.refs \cap typed # {}}, [x \in R |-> {r \in R : x.self \in r.refs}])

\* deleteFeedbackRows: what a user's word was of is archived when the word goes,
\* but for a muted session.
Shaken(gone) ==
    UNION {{x[2] : x \in {y \in r.refs : y[1] = "knowledge"}} :
             r \in {f \in gone : Table(f) = "feedback" /\ Id(f)[1] \notin EventSessions}}

\* What is left of knowledge that stood for the forgotten, or was spoken of.
After(r, shaken) ==
    IF Table(r) = "knowledge" /\ Is("knowledge") /\ TargetId \in r.replaces
    THEN [r EXCEPT !.refs = @ \ {Piece(TargetId)}, !.replaces = @ \ {TargetId},
                   !.state = "archived"]
    ELSE IF Table(r) = "knowledge" /\ Id(r) \in shaken /\ r.state # "superseded"
    THEN [r EXCEPT !.state = "archived"]
    ELSE r

\* What is left when the lessons are erased with their jobs, and of it the episodes
\* and associations of which something is erased.
Kept ==
    {r \in stored :
        Table(r) \in {"job", "proposal", "knowledge"} => r.self \notin operation.dependents}

Split ==
    LET removed == RemovedSessions
    IN  {r \in Kept : \/ Table(r) = "work_episode" /\ Is("episode") /\ Id(r) = TargetId
                      \/ Table(r) \in {"work_episode", "link"} /\ Id(r) \cap removed # {}}

Typed == EventRefs(operation.sources) \cup SessionRefs(RemovedSessions)
           \cup {<<"episode", p>> : p \in operation.seeds} \cup operation.dependents

\* The rows that name any of it, in the tables that are looked at.
Examined ==
    {r \in Kept \ Split : /\ Table(r) \notin {"job", "proposal", "work_episode"}
                          /\ Table(r) = "knowledge" => ~ Is("knowledge")}

Gone == Dependent(Examined, Typed)

\* The transaction.
Erase ==
    LET split == Split
        gone == Gone
        shaken == Shaken(gone)
    IN /\ call = "erase"
       /\ raw' = raw \ Selected
       /\ stored' = {After(r, shaken) : r \in Kept \ (split \cup gone)}
       /\ suppressed' = suppressed \cup AffectedLessons
       /\ operation' = [operation EXCEPT !.dependents =
                   @ \cup {r.self : r \in split}
                     \cup {r.self : r \in {x \in gone :
                                               Table(x) \notin {"link", "context", "mute"}}}]
       /\ call' = "settle"
       /\ UNCHANGED <<tombs, completed, sayings, interrupts>>
-------------------------------------------------------------------------------
(* DeletionService.delete *)

Step(from, to) == call = from /\ call' = to

\* beginDeletion; a target that was completed is only reported.  An episode is
\* named by an id the user has, its sessions.
Begin(t) ==
    /\ ~ DeletionIsActive /\ t \notin completed /\ Cardinality(completed) < MaxDeletions
    /\ Step("idle", "rebuild")
    /\ operation' = [NoOperation EXCEPT !.target = t]
    /\ UNCHANGED <<raw, stored, tombs, suppressed, completed, sayings, interrupts>>

\* A failed operation is resumed by the next call for its target.
Resume ==
    /\ DeletionIsActive /\ Step("idle", "rebuild")
    /\ UNCHANGED <<raw, stored, tombs, suppressed, operation, completed, sayings, interrupts>>

Rebuild ==
    /\ ~ Refused(ProjectionOf(raw)) /\ Step("rebuild", "select")
    /\ stored' = WithEpisodes(stored, raw)
    /\ UNCHANGED <<raw, tombs, suppressed, operation, completed, sayings, interrupts>>

Settle ==
    /\ ~ Refused(ProjectionOf(raw)) /\ Step("settle", "gate")
    /\ stored' = WithContexts(WithEpisodes(stored, raw), raw)
    /\ UNCHANGED <<raw, tombs, suppressed, operation, completed, sayings, interrupts>>

\* The call throws, and the operation stays failed.
Fail ==
    /\ Refused(ProjectionOf(raw)) /\ call \in {"rebuild", "settle"} /\ call' = "idle"
    /\ UNCHANGED <<raw, stored, tombs, suppressed, operation, completed, sayings, interrupts>>

\* typedSourceIdentities, and the tombstones of completeDeletion
Identities ==
    EventRefs(operation.sources) \cup
    (IF Is("session") \/ Is("episode") THEN SessionRefs(operation.sessions) ELSE {}) \cup
    (IF Is("episode") THEN {<<"episode", TargetId>>} ELSE {})

\* remainingDeletionIdentities looks at the events, at the windows of jobs, at
\* episodes and associations and at mutes; remainingIdentifiers looks in every
\* table for the rows that went and for what names them.
RemainingIdentities ==
    (UNION {EventRefs({e} \cup RefersTo[e]) \cup SessionRefs({SessionOf[e]}) :
              e \in raw \cup UNION {{x \in Events : <<"event", x>> \in j.refs} : j \in In("job")}})
      \cup (UNION {r.refs : r \in In("link") \cup In("mute")})
      \cup UNION {r.refs \cup {<<"episode", Id(r)>>} : r \in In("work_episode")}

Records(r) ==
    {r.self} \cup (IF Table(r) = "mute" THEN {x \in r.refs : x[1] = "feedback"} ELSE r.refs)

Remains(r) == Records(r) \cap operation.dependents # {}

Remaining == (RemainingIdentities \cap Identities # {}) \/ \E r \in stored : Remains(r)

\* The operation fails, and stays, where the gate does not pass.
Gate ==
    /\ Step("gate", "idle")
    /\ IF Remaining
       THEN UNCHANGED <<tombs, operation, completed>>
       ELSE /\ tombs' = tombs \cup Identities /\ operation' = NoOperation
            /\ completed' = completed \cup {operation.target}
    /\ UNCHANGED <<raw, stored, suppressed, sayings, interrupts>>

\* The process ends, or a step throws.
Interrupt ==
    /\ call # "idle" /\ interrupts < MaxInterrupts
    /\ call' = "idle" /\ interrupts' = interrupts + 1
    /\ UNCHANGED <<raw, stored, tombs, suppressed, operation, completed, sayings>>

ErasureNext ==
    \/ \E e \in Events : Ingest(e)
    \/ Project
    \/ \E j \in Jobs : Learn(j)
    \/ \E k \in Learnable \cup {"fact"}, r \in Rules : Replace(k, r)
    \/ \E k \in KnowledgeIds : Speak(k)
    \/ \E k \in KnowledgeIds, s \in EventSessions : MuteSession(k, s)
    \/ \E s \in EventSessions : Use(s)
    \/ \E t \in Targets : Begin(t)
    \/ Resume \/ Rebuild \/ Select \/ Erase \/ Settle \/ Fail \/ Gate \/ Interrupt

ErasureSpec == ErasureInit /\ [][ErasureNext]_erasureVars
-------------------------------------------------------------------------------
\* A rule a user wrote in place of a lesson that went with another one.
Stranded(r) == Id(r) \in Rules /\ \E k \in r.replaces : Piece(k) \in operation.dependents

\* ErasedIsGone: when no deletion is under way, nothing in any table names an
\* event, a session or an episode that was erased, or a piece of knowledge that
\* was forgotten, however it came to name it, and no event does.  And what is
\* erased is what the gate expects: the only trace it ever finds, and refuses the
\* deletion for, is in a rule of the user's that stands for a lesson which went
\* along with another.
ErasedIsGone ==
    /\ ~ DeletionIsActive =>
          /\ \A e \in raw : ~ Blocked(e)
          /\ \A r \in stored :
                /\ r.refs \cap (tombs \cup {Piece(k) : k \in suppressed}) = {}
                /\ r.self \notin {Piece(k) : k \in suppressed}
    /\ call = "gate" =>
          /\ RemainingIdentities \cap Identities = {}
          /\ \A r \in stored : Remains(r) => Table(r) = "knowledge" /\ Stranded(r)
===============================================================================
