---------------------------- MODULE LearnedLessons ----------------------------
(***************************************************************************)
(* What becomes of a model's answer: lessons in prose, as rows of          *)
(* knowledge_candidates with the tables beside them.  A learner run, alone *)
(* under the learning-inference lease, shows the model the lessons it has, *)
(* and commits the answer against what they have become.  A lesson may be  *)
(* renewed by an independent task, disputed by one of the same concept,    *)
(* replaced, archived at its expiry and revived; the user may judge it at  *)
(* any time; a notice is published once; and an idle run may have a model  *)
(* describe it for the search (discovery enrichment).                      *)
(*                                                                         *)
(* An answer has one proposal, reviewed and accepted; all wordings here    *)
(* share one canonicalKey.  The queue of jobs is LearningJobs.             *)
(***************************************************************************)
EXTENDS Integers, FiniteSets, FiniteSetsExt

CONSTANTS
    Lessons,       \* knowledge ids
    Wordings,      \* rule, trigger and exclusions
    Home,          \* per wording, the lesson of its rule and trigger
    Windows,
    Task,          \* per window its task: only different tasks are independent
    Prompted,      \* windows of a user's prompt, whose lessons are conventions
    AttemptLimit,  \* three in the code
    Life,          \* a window's expiry, from its creation
    MaxClock, MaxRevision, MaxAnswers, MaxFaults, MaxWords,   \* bounds
    Nothing

VARIABLES
    now,
    content,      \* per window, the revision of its sources; 0 before it happened
    born,         \* when it did
    recalled,     \* per window of an agent, the lessons its session was given
    lessons,      \* knowledge_candidates
    proposals,    \* learning_proposals
    autoExpiry,   \* learning_auto_expiry
    conflicts,    \* learning_relation_conflicts
    noticeWork,   \* learning_notice_work
    notices,      \* learning_notices
    enrichment,   \* discovery_enrichment, by lesson
    judged,       \* lessons with a user's feedback
    forgotten,    \* tombstones
    deletion,     \* the lesson being forgotten, or Nothing
    learner,      \* the holder of the learning-inference lease, or Nothing
    notifier,     \* the lessons a publisher has claimed, or Nothing
    announced,    \* per lesson, notices the user saw
    answers, faults, words

sources == <<content, born, recalled>>
tables == <<lessons, proposals, autoExpiry, conflicts>>
noticeTables == <<noticeWork, notices>>
userVars == <<judged, forgotten, deletion>>
lessonBounds == <<answers, faults, words>>
proseVars == <<now, sources, tables, noticeTables, enrichment, userVars, learner,
               notifier, announced, lessonBounds>>

States == {"candidate", "active", "disputed", "archived", "superseded"}

Rows == [state : States, wording : Wordings, source : Windows, expires : 0..MaxClock + Life]
Proposals ==
    [lesson : Lessons, wording : Wordings, window : Windows, revision : 1..MaxRevision]

ASSUME LessonsAssumption ==
    /\ Home \in [Wordings -> Lessons]
    /\ {Life, MaxClock} \subseteq Nat /\ MaxRevision \in Nat \ {0}
    /\ Nothing \notin Lessons \cup Rows

ProseInit ==
    /\ now = 0
    /\ content = [w \in Windows |-> 0] /\ born = [w \in Windows |-> 0]
    /\ recalled = [w \in Windows |-> {}]
    /\ lessons = [l \in Lessons |-> Nothing] /\ proposals = {}
    /\ autoExpiry = {} /\ conflicts = {}
    /\ noticeWork = {} /\ notices = {}
    /\ enrichment = [l \in Lessons |-> Nothing]
    /\ judged = {} /\ forgotten = {} /\ deletion = Nothing
    /\ learner = Nothing /\ notifier = Nothing /\ announced = [l \in Lessons |-> 0]
    /\ answers = 0 /\ faults = 0 /\ words = 0
-------------------------------------------------------------------------------
(* What the store answers *)

HasActiveDeletion == deletion # Nothing
IsKnown(l) == lessons[l] # Nothing
Expiry(w) == born[w] + Life
Expired(row) == row.expires <= now

\* The accepted proposals of a lesson with its present wording and sources.
ReviewedProposals(l) ==
    {p \in proposals :
        p.lesson = l /\ p.wording = lessons[l].wording /\ p.window = lessons[l].source}

SourcesCurrent(p) == content[p.window] = p.revision

\* Mutant: the user's word is not looked for.
MutableWhateverSaid(l) ==
    \/ lessons[l].state = "candidate"
    \/ lessons[l].state = "disputed" /\ l \in conflicts
    \/ lessons[l].state = "archived" /\ l \in autoExpiry

\* #automaticLearningMutable
Mutable(l) ==
    /\ \/ lessons[l].state = "candidate"
       \/ lessons[l].state = "disputed" /\ l \in conflicts
       \/ lessons[l].state = "archived" /\ l \in autoExpiry
    /\ l \notin judged \cup forgotten

\* learningSourceUse, and with it the admission of a lesson: its sources are
\* what was reviewed, and its session had not been given the lesson itself.
Usable(l) ==
    /\ IsKnown(l) /\ lessons[l].state = "candidate" /\ ~ Expired(lessons[l])
    /\ \E p \in ReviewedProposals(l) : SourcesCurrent(p) /\ l \notin recalled[p.window]

NoticeEligible(l) == Usable(l) /\ Mutable(l)
-------------------------------------------------------------------------------
(* Sessions *)

Tick ==
    /\ now < MaxClock /\ now' = now + 1
    /\ UNCHANGED <<sources, tables, noticeTables, enrichment, userVars, learner,
                   notifier, announced, lessonBounds>>

\* The session of a window may have been given lessons.
CaptureWindow(w) ==
    /\ content[w] = 0
    /\ ~ HasActiveDeletion
    /\ content' = [content EXCEPT ![w] = 1]
    /\ born' = [born EXCEPT ![w] = now]
    /\ \E given \in {{}, {l \in Lessons : Usable(l)}} :
         recalled' = [recalled EXCEPT ![w] = given]
    /\ UNCHANGED <<now, tables, noticeTables, enrichment, userVars, learner,
                   notifier, announced, lessonBounds>>

\* A late enrichment of its events.
Enrich(w) ==
    /\ content[w] \in 1..(MaxRevision - 1)
    /\ ~ HasActiveDeletion
    /\ content' = [content EXCEPT ![w] = @ + 1]
    /\ UNCHANGED <<now, born, recalled, tables, noticeTables, enrichment, userVars,
                   learner, notifier, announced, lessonBounds>>
-------------------------------------------------------------------------------
(* The user: KnowledgeControlService and feedback *)

\* Revoking and `stale` archive, `wrong` disputes, confirming makes a rule of the
\* lesson or, where it was refuted, resolves that; resolving may also replace it
\* by a rule of the user's own (kept elsewhere); `helpful` only counts.
Verdicts(l) ==
    CASE lessons[l].state = "superseded" -> {"superseded", "archived"}
      [] lessons[l].state = "archived" /\ l \notin judged ->
           {"superseded", "disputed", "archived"}
      [] lessons[l].state = "disputed" /\ l \notin judged -> {"disputed", "archived"}
      [] OTHER -> {"archived", "disputed", "superseded", "active", lessons[l].state}

GiveVerdict(l) ==
    /\ words < MaxWords /\ words' = words + 1
    /\ IsKnown(l) /\ ~ HasActiveDeletion
    /\ \E s \in Verdicts(l) : lessons' = [lessons EXCEPT ![l].state = s]
    /\ judged' = judged \cup {l}
    /\ UNCHANGED <<now, sources, proposals, autoExpiry, conflicts, noticeTables, enrichment,
                   forgotten, deletion, learner, notifier, announced, answers, faults>>

ForgetLesson(l) ==
    /\ words < MaxWords /\ words' = words + 1
    /\ IsKnown(l) /\ ~ HasActiveDeletion
    /\ deletion' = l
    /\ forgotten' = forgotten \cup {l}
    /\ UNCHANGED <<now, sources, tables, noticeTables, enrichment, judged, learner,
                   notifier, announced, answers, faults>>

\* The deletion waits for the learner and holds the projection lease.
EraseLesson ==
    /\ HasActiveDeletion /\ learner = Nothing /\ notifier = Nothing
    /\ lessons' = [lessons EXCEPT ![deletion] = Nothing]
    /\ proposals' = {p \in proposals : p.lesson # deletion}
    /\ autoExpiry' = autoExpiry \ {deletion} /\ conflicts' = conflicts \ {deletion}
    /\ noticeWork' = noticeWork \ {deletion} /\ notices' = notices \ {deletion}
    /\ enrichment' = [enrichment EXCEPT ![deletion] = Nothing]
    /\ judged' = judged \ {deletion}
    /\ deletion' = Nothing
    /\ UNCHANGED <<now, sources, forgotten, learner, notifier, announced, lessonBounds>>
-------------------------------------------------------------------------------
(* The learner: an answer *)

At(pc) == learner # Nothing /\ learner.pc = pc

\* The lessons are shown as they are when the window is read.
AskModel(w) ==
    /\ learner = Nothing /\ answers < MaxAnswers
    /\ content[w] > 0 /\ Expiry(w) > now /\ ~ HasActiveDeletion
    /\ learner' = [pc |-> "infer", window |-> w, revision |-> content[w], seen |-> lessons]
    /\ answers' = answers + 1
    /\ UNCHANGED <<now, sources, tables, noticeTables, enrichment, userVars,
                   notifier, announced, faults, words>>

Proposal(l, x) ==
    [lesson |-> l, wording |-> x, window |-> learner.window, revision |-> learner.revision]

NewRow(x) ==
    [state |-> "candidate", wording |-> x, source |-> learner.window,
     expires |-> Expiry(learner.window)]

\* What the commit looks at again in its transaction.
StillSent ==
    /\ ~ HasActiveDeletion
    /\ content[learner.window] = learner.revision
    /\ now < Expiry(learner.window)

\* learningProposalWasRecalled asks it of an agent's findings only; and nothing
\* that was forgotten is learned again.
Admits(l) ==
    /\ l \notin forgotten
    /\ (learner.window \in Prompted) \/ (l \notin recalled[learner.window])

\* A relation holds of the lesson exactly as it was shown, if it is of the same
\* kind and still rests on its sources.
Related(t) ==
    /\ IsKnown(t) /\ lessons[t] = learner.seen[t] /\ Mutable(t)
    /\ \E p \in proposals :
         /\ p.lesson = t /\ p.wording = lessons[t].wording /\ p.window = lessons[t].source
         /\ SourcesCurrent(p)
         /\ (p.window \in Prompted) <=> (learner.window \in Prompted)

\* Lessons of the concept with another wording.
Contradicted(l, x) ==
    {k \in Lessons \ {l} :
        /\ IsKnown(k) /\ lessons[k].state \in {"candidate", "active", "archived"}
        /\ lessons[k].wording # x
        /\ \E p \in proposals : p.lesson = k}

\* The earlier answers an existing row rests on.
Prior(l) == {p \in ReviewedProposals(l) :
                <<p.window, p.revision>> # <<learner.window, learner.revision>>}

Independent(l) ==
    /\ Prior(l) # {}
    /\ \A p \in Prior(l) : Task[p.window] # Task[learner.window]

\* The same window, whose sources were completed since.
Reassessment(l) ==
    /\ lessons[l].state = "candidate"
    /\ \E p \in Prior(l) : p.window = learner.window
    /\ \A p \in Prior(l) : ~ SourcesCurrent(p)

PutInDispute(S) ==
    /\ lessons' = [l \in Lessons |->
                     IF l \in S THEN [lessons[l] EXCEPT !.state = "disputed"] ELSE lessons[l]]
    /\ conflicts' = conflicts \cup S
    /\ noticeWork' = noticeWork \ S
    /\ UNCHANGED autoExpiry

\* A lesson just written is put up for a notice if it can be used.
Announce(l) == noticeWork' = IF NoticeEligible(l)' THEN noticeWork \cup {l} ELSE noticeWork

Insert(l, x) ==
    /\ lessons' = [lessons EXCEPT ![l] = NewRow(x)]
    /\ UNCHANGED <<autoExpiry, conflicts>>
    /\ Announce(l)

\* Only independent evidence renews the expiry.
Refresh(l, x) ==
    LET both == {lessons[l].expires, Expiry(learner.window)}
        until == IF Independent(l) THEN Max(both) ELSE Min(both)
    IN /\ lessons' = [lessons EXCEPT ![l] = [NewRow(x) EXCEPT !.expires = until]]
       /\ autoExpiry' = autoExpiry \ {l}
       /\ conflicts' = conflicts \ {l}
       /\ Announce(l)

\* The proposal is kept; what becomes of an existing row depends on whether the
\* evidence is independent, and whether it says the same.
Record(l, x, equivalent) ==
    LET same == equivalent \/ (x = lessons[l].wording /\ lessons[l].state # "disputed")
        kept == proposals' = proposals \cup {Proposal(l, x)}
    IN  \/ ~ IsKnown(l) /\ kept /\ Insert(l, x)
        \/ /\ IsKnown(l) /\ Mutable(l)
           /\ Reassessment(l) \/ (Independent(l) /\ same)
           /\ kept /\ Refresh(l, x)
        \/ /\ IsKnown(l) /\ Mutable(l)
           /\ ~ Reassessment(l) /\ Independent(l) /\ ~ equivalent /\ x # lessons[l].wording
           /\ UNCHANGED proposals /\ PutInDispute({l})
        \/ /\ IsKnown(l)
           /\ \/ ~ Mutable(l)
              \/ ~ Reassessment(l) /\ ~ Independent(l)
              \/ ~ Reassessment(l) /\ ~ same /\ x = lessons[l].wording
           /\ kept /\ UNCHANGED <<lessons, autoExpiry, conflicts, noticeWork>>

Answered ==
    /\ learner' = Nothing
    /\ UNCHANGED <<now, sources, notices, enrichment, userVars, notifier, announced,
                   lessonBounds>>

\* A wording on its own.  Others of the concept stop it: nobody of them is on
\* offer until they are reviewed together.
Alone(x) ==
    LET l == Home[x] IN
    /\ At("infer") /\ StillSent /\ Admits(l)
    /\ Answered
    /\ IF Contradicted(l, x) # {}
       THEN /\ PutInDispute({k \in Contradicted(l, x) :
                               Mutable(k) /\ lessons[k].state = "candidate"})
            /\ UNCHANGED proposals
       ELSE Record(l, x, FALSE)

\* The reviewer takes it for the lesson t.
Equivalent(t, x) ==
    /\ At("infer") /\ StillSent /\ Admits(t) /\ Related(t)
    /\ Answered
    /\ Record(t, x, TRUE)

\* The user's convention replaces t; if there is a lesson of its rule already,
\* it is told apart by an id of its own.
Supersede(t, l, x) ==
    /\ At("infer") /\ StillSent /\ Admits(l) /\ Related(t)
    /\ learner.window \in Prompted
    /\ ~ IsKnown(l) /\ l # t
    /\ IF IsKnown(Home[x]) THEN l \notin {Home[y] : y \in Wordings} ELSE l = Home[x]
    /\ Answered
    /\ proposals' = proposals \cup {Proposal(l, x)}
    /\ lessons' = [lessons EXCEPT ![l] = NewRow(x), ![t].state = "superseded"]
    /\ autoExpiry' = autoExpiry \ {t}
    /\ conflicts' = conflicts \ {t}
    /\ noticeWork' = (IF NoticeEligible(l)' THEN noticeWork \cup {l} ELSE noticeWork) \ {t}

\* No answer, a refused one, or the end of the process.
GiveUp ==
    /\ At("infer")
    /\ learner' = Nothing
    /\ UNCHANGED <<now, sources, tables, noticeTables, enrichment, userVars,
                   notifier, announced, lessonBounds>>
-------------------------------------------------------------------------------
(* The learner: archiveExpiredLearning *)

\* The lesson is read before the transaction that archives it...
ReadExpired(l) ==
    /\ learner = Nothing /\ ~ HasActiveDeletion
    /\ IsKnown(l) /\ lessons[l].state = "candidate" /\ Expired(lessons[l])
    /\ learner' = [pc |-> "archive", lesson |-> l, row |-> lessons[l]]
    /\ UNCHANGED <<now, sources, tables, noticeTables, enrichment, userVars,
                   notifier, announced, lessonBounds>>

\* ... which writes it whatever it has become.
Archive ==
    /\ At("archive")
    /\ LET l == learner.lesson IN
       /\ lessons' = [lessons EXCEPT ![l] = [learner.row EXCEPT !.state = "archived"]]
       /\ autoExpiry' = autoExpiry \cup {l}
       /\ noticeWork' = noticeWork \ {l}
    /\ learner' = Nothing
    /\ UNCHANGED <<now, sources, proposals, conflicts, notices, enrichment, userVars,
                   notifier, announced, lessonBounds>>
-------------------------------------------------------------------------------
(* The publisher: notifyLearningActivation, under the projection lease *)

StartNotifier ==
    /\ notifier = Nothing /\ ~ HasActiveDeletion /\ noticeWork # {}
    /\ notifier' = {}
    /\ UNCHANGED <<now, sources, tables, noticeTables, enrichment, userVars,
                   learner, announced, lessonBounds>>

\* Mutant: what was announced once is not remembered.
ClaimAgain(l) ==
    /\ notifier # Nothing /\ l \in noticeWork \ notifier
    /\ ~ HasActiveDeletion /\ NoticeEligible(l)
    /\ notifier' = notifier \cup {l}
    /\ notices' = notices \cup {l}
    /\ noticeWork' = noticeWork \ {l}
    /\ UNCHANGED <<now, sources, tables, enrichment, userVars, learner, announced,
                   lessonBounds>>

\* claimLearningActivationNotice: a lesson that is not eligible keeps its place
\* at the end of the list, one that was announced before is only taken off it.
Claim(l) ==
    /\ notifier # Nothing /\ l \in noticeWork \ notifier
    /\ ~ HasActiveDeletion /\ NoticeEligible(l)
    /\ notifier' = IF l \in notices THEN notifier ELSE notifier \cup {l}
    /\ notices' = notices \cup {l}
    /\ noticeWork' = noticeWork \ {l}
    /\ UNCHANGED <<now, sources, tables, enrichment, userVars, learner, announced,
                   lessonBounds>>

Publish ==
    /\ notifier # Nothing
    /\ announced' = [l \in Lessons |->
                       IF l \in notifier THEN announced[l] + 1 ELSE announced[l]]
    /\ notifier' = Nothing
    /\ UNCHANGED <<now, sources, tables, noticeTables, enrichment, userVars, learner,
                   lessonBounds>>

\* releaseLearningActivationNotice, of everything claimed.
FailToPublish ==
    /\ notifier # Nothing /\ notifier # {}
    /\ faults < MaxFaults /\ faults' = faults + 1
    /\ notices' = notices \ notifier
    /\ noticeWork' = noticeWork \cup {l \in notifier : IsKnown(l)}
    /\ notifier' = Nothing
    /\ UNCHANGED <<now, sources, tables, enrichment, userVars, learner, announced, answers,
                   words>>

\* The process ends; what it claimed stays claimed.
NotifierDies ==
    /\ notifier # Nothing
    /\ faults < MaxFaults /\ faults' = faults + 1
    /\ notifier' = Nothing
    /\ UNCHANGED <<now, sources, tables, noticeTables, enrichment, userVars, learner,
                   announced, answers, words>>
-------------------------------------------------------------------------------
(* Discovery enrichment: an idle learner has a lesson described for the search *)

\* What a description is of: the lesson's wording and sources, and what was said
\* of it (knowledgeDiscoveryDigest and #discoverySourceDigest).
Digest(l) == <<lessons[l].wording, lessons[l].source, content[lessons[l].source],
               {p \in proposals : p.lesson = l}>>

\* #discoveryEligible; a rule the user confirmed is admitted as long as it stands.
DiscoveryEligible(l) ==
    /\ ~ HasActiveDeletion /\ IsKnown(l)
    /\ Usable(l) \/ (lessons[l].state = "active" /\ ~ Expired(lessons[l]))

\* Mutant: the lesson the job was made of is not compared.
CandidateAnyway(l, job) == DiscoveryEligible(l)

\* discoveryEnrichmentCandidate
DiscoveryEnrichmentCandidate(l, job) == DiscoveryEligible(l) /\ Digest(l) = job.digest

\* discoveryProfiles: what the search is given.
Described(l) ==
    /\ enrichment[l] # Nothing /\ enrichment[l].state = "accepted"
    /\ DiscoveryEnrichmentCandidate(l, enrichment[l])

\* scheduleDiscoveryEnrichment: a job stands for its digests, whatever became of it.
Scheduled ==
    [l \in Lessons |->
        IF /\ DiscoveryEligible(l)
           /\ enrichment[l] = Nothing \/ enrichment[l].digest # Digest(l)
        THEN [state |-> "pending", attempts |-> 0, digest |-> Digest(l), about |-> Nothing]
        ELSE enrichment[l]]

\* discoveryEnrichmentJob, one whose time has come; a job still running was left
\* by a process that ended.
Due(jobs) ==
    {l \in Lessons :
        /\ jobs[l] # Nothing
        /\ \/ /\ jobs[l].state \in {"pending", "paused", "failed"}
              /\ jobs[l].attempts < AttemptLimit
           \/ jobs[l].state = "running"}

\* The job is looked at before a model is asked.  The attempt is counted first.
Describe ==
    /\ learner = Nothing /\ ~ HasActiveDeletion
    /\ \E l \in Due(Scheduled) :
         LET job == Scheduled[l]
             becomes(s) == /\ enrichment' = [Scheduled EXCEPT ![l].state = s]
                           /\ UNCHANGED <<learner, lessonBounds>>
         IN  \/ ~ DiscoveryEnrichmentCandidate(l, job) /\ becomes("superseded")
             \/ /\ DiscoveryEnrichmentCandidate(l, job) /\ job.attempts >= AttemptLimit
                /\ becomes("failed")
             \/ /\ DiscoveryEnrichmentCandidate(l, job) /\ job.attempts < AttemptLimit
                /\ enrichment' =
                     [Scheduled EXCEPT ![l].state = "running", ![l].attempts = @ + 1]
                /\ learner' = [pc |-> "describe", lesson |-> l, about |-> Digest(l)]
                /\ UNCHANGED lessonBounds
    /\ UNCHANGED <<now, sources, tables, noticeTables, userVars, notifier, announced>>

\* The end of a run.  While a deletion is under way it can write nothing.
EndDescription(s, attempts, about) ==
    /\ At("describe")
    /\ enrichment' = IF HasActiveDeletion THEN enrichment
                     ELSE [enrichment EXCEPT ![learner.lesson] =
                             [@ EXCEPT !.state = s, !.attempts = attempts, !.about = about]]
    /\ learner' = Nothing
    /\ UNCHANGED <<now, sources, tables, noticeTables, userVars, notifier, announced,
                   answers, words>>

Attempts == enrichment[learner.lesson].attempts
StillMeant == DiscoveryEnrichmentCandidate(learner.lesson, enrichment[learner.lesson])

\* The review refuses the description, or it is stored, if the lesson is the one
\* that was described.
CommitReview(s) ==
    /\ At("describe") /\ StillMeant
    /\ EndDescription(s, Attempts, IF s = "accepted" THEN learner.about ELSE Nothing)
    /\ UNCHANGED faults

Outdated ==
    /\ At("describe") /\ ~ StillMeant
    /\ EndDescription("superseded", Attempts, Nothing)
    /\ UNCHANGED faults

\* The model fails; or the day's budget is used up before the review, and the
\* attempt is given back.
Fails ==
    /\ At("describe")
    /\ faults < MaxFaults /\ faults' = faults + 1
    /\ \/ EndDescription("failed", Attempts, Nothing)
       \/ StillMeant /\ EndDescription("paused", Attempts - 1, Nothing)

DescriberDies ==
    /\ At("describe")
    /\ faults < MaxFaults /\ faults' = faults + 1
    /\ learner' = Nothing
    /\ UNCHANGED <<now, sources, tables, noticeTables, enrichment, userVars, notifier,
                   announced, answers, words>>
-------------------------------------------------------------------------------
Learner ==
    \/ \E w \in Windows : AskModel(w)
    \/ \E x \in Wordings : Alone(x)
    \/ \E x \in Wordings, t \in Lessons : Equivalent(t, x)
    \/ \E x \in Wordings, t, l \in Lessons : Supersede(t, l, x)
    \/ GiveUp
    \/ \E l \in Lessons : ReadExpired(l)
    \/ Archive

Describer == Describe \/ CommitReview("accepted") \/ CommitReview("rejected") \/ Outdated

Notifier == StartNotifier \/ (\E l \in Lessons : Claim(l)) \/ Publish

User == \E l \in Lessons : GiveVerdict(l) \/ ForgetLesson(l)

ProseNext ==
    \/ Tick \/ (\E w \in Windows : CaptureWindow(w) \/ Enrich(w))
    \/ User \/ EraseLesson
    \/ Learner
    \/ Describer \/ Fails \/ DescriberDies
    \/ Notifier \/ FailToPublish \/ NotifierDies

ProseSpec == ProseInit /\ [][ProseNext]_proseVars
-------------------------------------------------------------------------------
(* Properties *)

TypeOK ==
    /\ now \in 0..MaxClock
    /\ content \in [Windows -> 0..MaxRevision] /\ born \in [Windows -> 0..MaxClock]
    /\ recalled \in [Windows -> SUBSET Lessons]
    /\ lessons \in [Lessons -> Rows \cup {Nothing}]
    /\ proposals \subseteq Proposals
    /\ autoExpiry \cup conflicts \cup noticeWork \cup notices \cup judged \cup forgotten
         \subseteq Lessons
    /\ deletion \in Lessons \cup {Nothing}
    /\ notifier = Nothing \/ notifier \subseteq Lessons
    /\ announced \in [Lessons -> Nat]

\* A model's answer, asked before or after it, changes no lesson the user has
\* judged, and brings none back that was forgotten (#automaticLearningMutable;
\* `Existing user controls always win`).  Archiving what has expired may write
\* over a word given meanwhile, but never puts the lesson back on offer.
UserWordStands(l) ==
    /\ l \in judged \cap judged' =>
         lessons'[l] = lessons[l] \/ learner' = learner \/ lessons'[l].state = "archived"
    /\ l \in forgotten /\ ~ IsKnown(l) => ~ IsKnown(l)'

OnOffer(l) == IsKnown(l) /\ lessons[l].state = "candidate"

\* An answer that was not reviewed against the other lessons of its concept leaves
\* none of another wording on offer, but those the user has judged, and puts its
\* own on offer only where it is the only voice (the peers are disputed before
\* anything is inserted).
YieldsToPeers(x) ==
    /\ \A k \in Lessons \ {Home[x]} : OnOffer(k)' /\ lessons'[k].wording # x => k \in judged
    /\ OnOffer(Home[x])' /\ lessons'[Home[x]] # lessons[Home[x]]
         => \A k \in Lessons : OnOffer(k)' => lessons'[k].wording = x

\* An answer yields to the user, and one on its own to the lessons of its concept,
\* however they came to be.
AnswersYield ==
    [][/\ \A l \in Lessons : UserWordStands(l)
       /\ \A x \in Wordings : Alone(x) => YieldsToPeers(x)]_proseVars

\* A lesson the search may use is announced or waits for it, and it is announced
\* once, through disputes, renewals, failed and crashed publishers
\* (learning_notice_work and learning_notices).
ToldOnce ==
    \A l \in Lessons :
        announced[l] <= 1 /\ (NoticeEligible(l) => l \in noticeWork \cup notices)

\* What the search is told of a lesson was written about it as it is, its wording
\* and its sources, though both may change while the model writes and after
\* (commitDiscoveryEnrichment, discoveryProfiles).
DescribedAsItIs ==
    \A l \in Lessons : Described(l) => enrichment[l].about = Digest(l)
===============================================================================
