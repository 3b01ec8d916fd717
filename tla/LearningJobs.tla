------------------------------ MODULE LearningJobs ------------------------------
(***************************************************************************)
(* LearningCoordinator.run and the tables it works on.  Ingestion marks    *)
(* what it changed; a learner run, alone under the learning-inference      *)
(* lease, turns the marks into prompt work, the work into jobs (one per    *)
(* revision of a window), and sends one job's window to a model, whose     *)
(* answer is committed only if the window is still what was sent.  Other   *)
(* processes capture, delete and switch learning off meanwhile, and the    *)
(* run may die anywhere.                                                   *)
(*                                                                         *)
(* A step is what the run does between two accesses to the store that      *)
(* another process can come between.  A window's earlier revisions are     *)
(* superseded for good and their attempts and expiry are carried into the  *)
(* latest, so only the latest job of a window is kept here.                *)
(***************************************************************************)
EXTENDS Integers, FiniteSets, FiniteSetsExt

CONSTANTS
    Windows,       \* learning windows (anchors: a prompt, or an agent's summary)
    Tasks, Task,   \* per window its task; a task's windows share one budget
    AttemptLimit,  \* three in the code
    DailyLimit,    \* dailyLimit, reservations a day
    Day,           \* a day, in ticks of the clock
    Life,          \* the longest a new window has to its expiry
    Deadline,      \* deadlineMs
    MaxClock, MaxRevision, MaxFaults, MaxToggles,   \* bounds
    None

ASSUME BudgetAssumption ==
    {AttemptLimit, DailyLimit, Day, Life} \subseteq Nat \ {0} /\ Deadline \in Nat
ASSUME TaskAssumption == Task \in [Windows -> Tasks]

VARIABLES
    clock,
    spent,      \* learning_attempts of the current day
    content,    \* per window, the revision of its sources; 0 when there are none
    changes,    \* learning_event_changes, by the window they touch
    work,       \* learning_prompt_work
    jobs,       \* per window, its latest job, or None
    lessons,    \* <<window, revision>> whose proposals are stored
    enabled,    \* automatic learning is on
    deletion,   \* the deletion in progress, or None
    learner,    \* the learner run, or None: whoever holds the lease
    erased,     \* tasks that were deleted
    charged,    \* per task, attempts made and not given back
    refused,    \* windows that were refused a job because of a deletion
    faults, toggles

sourceVars == <<content, changes, work>>
historyVars == <<erased, charged, refused>>
boundVars == <<faults, toggles>>
outside == <<clock, content, enabled, deletion, erased, boundVars>>
vars == <<clock, spent, sourceVars, jobs, lessons, enabled, deletion, learner,
          historyVars, boundVars>>

Live == {"pending", "running", "waiting_evidence", "paused", "failed"}
Final == {"archived", "cancelled"}
JobStates == Live \cup Final \cup {"evaluated", "superseded"}

Job == [revision : Nat, state : JobStates, attempts : Nat, expires : Nat,
        deadline : Int, retryAfter : Int, tooLarge : BOOLEAN]

ASSUME NoneIsNoJob == None \notin Job

Steps == {"maintain", "evidence", "schedule", "complete", "pick", "prepare", "reserve",
          "start", "infer", "answered", "commit"}

\* `now` is the clock when the run began, `left` what is left of the page in
\* hand, `seen` the revisions read with it, `before` the attempts before the call.
Learner == [pc : Steps, now : Nat, left : SUBSET Windows,
            seen : [Windows -> 0..MaxRevision], window : Windows \cup {None},
            before : 0..AttemptLimit, reviewed : BOOLEAN]

Init ==
    /\ clock = 0 /\ spent = 0
    /\ content = [w \in Windows |-> 0] /\ changes = {} /\ work = {}
    /\ jobs = [w \in Windows |-> None] /\ lessons = {}
    /\ enabled = TRUE /\ deletion = None /\ learner = None
    /\ erased = {} /\ charged = [t \in Tasks |-> 0] /\ refused = {}
    /\ faults = 0 /\ toggles = 0
-------------------------------------------------------------------------------
(* What the store answers *)

HasActiveDeletion == deletion # None
WindowsOf(t) == {w \in Windows : Task[w] = t}
JobsOf(t) == {w \in WindowsOf(t) : jobs[w] # None}

\* learningAttemptCount: the attempts of the whole task.
AttemptCount(t) == Max({jobs[w].attempts : w \in JobsOf(t)} \cup {0})

SourcesCurrent(w) == jobs[w] # None /\ content[w] = jobs[w].revision

\* What becomes of a job whose sources changed, or are gone.
Stale(w) == IF content[w] = 0 THEN "cancelled" ELSE "superseded"

Tomorrow(now) == (now \div Day + 1) * Day

\* transitionLearningJob refuses while a deletion is active.
Transition(w, job) ==
    IF HasActiveDeletion \/ jobs[w] = None THEN UNCHANGED jobs
    ELSE jobs' = [jobs EXCEPT ![w] = job]

ToState(w, s) == Transition(w, [jobs[w] EXCEPT !.state = s])

\* reserveLearningAttempt
Reservable == ~HasActiveDeletion /\ spent < DailyLimit
-------------------------------------------------------------------------------
(* The processes around the learner *)

Tick ==
    /\ clock < MaxClock
    /\ clock' = clock + 1
    /\ spent' = IF clock' % Day = 0 THEN 0 ELSE spent
    /\ UNCHANGED <<sourceVars, jobs, lessons, enabled, deletion, learner,
                   historyVars, boundVars>>

\* Ingestion, or an enrichment, gives a window new sources and marks them; both
\* are refused for what is deleted and, whatever they are of, under a deletion.
Capture(w) ==
    /\ content[w] < MaxRevision
    /\ Task[w] \notin erased
    /\ ~HasActiveDeletion
    /\ content' = [content EXCEPT ![w] = @ + 1]
    /\ changes' = changes \cup {w}
    /\ UNCHANGED <<clock, spent, work, jobs, lessons, enabled, deletion, learner,
                   historyVars, boundVars>>

Toggle ==
    /\ toggles < MaxToggles
    /\ enabled' = ~enabled
    /\ toggles' = toggles + 1
    /\ UNCHANGED <<clock, spent, sourceVars, jobs, lessons, deletion, learner,
                   historyVars, faults>>

BeginDeletion(t) ==
    /\ deletion = None
    /\ t \notin erased
    /\ deletion' = [task |-> t, step |-> "begun"]
    /\ UNCHANGED <<clock, spent, sourceVars, jobs, lessons, enabled, learner,
                   historyVars, boundVars>>

\* Mutant: the deletion does not wait for the learner.
DrainNothing ==
    /\ deletion # None /\ deletion.step = "begun"
    /\ deletion' = [deletion EXCEPT !.step = "drained"]
    /\ UNCHANGED <<clock, spent, sourceVars, jobs, lessons, enabled, learner,
                   historyVars, boundVars>>

\* transientCleanup has the learner's lease for a moment.
Drain ==
    /\ deletion # None /\ deletion.step = "begun"
    /\ learner = None
    /\ deletion' = [deletion EXCEPT !.step = "drained"]
    /\ UNCHANGED <<clock, spent, sourceVars, jobs, lessons, enabled, learner,
                   historyVars, boundVars>>

Erase ==
    /\ deletion # None /\ deletion.step = "drained"
    /\ LET gone == WindowsOf(deletion.task) IN
       /\ content' = [w \in Windows |-> IF w \in gone THEN 0 ELSE content[w]]
       /\ changes' = changes \ gone
       /\ work' = work \ gone
       /\ jobs' = [w \in Windows |-> IF w \in gone THEN None ELSE jobs[w]]
       /\ lessons' = {l \in lessons : l[1] \notin gone}
    /\ erased' = erased \cup {deletion.task}
    /\ deletion' = [deletion EXCEPT !.step = "erased"]
    /\ UNCHANGED <<clock, spent, enabled, learner, charged, refused, boundVars>>

CompleteDeletion ==
    /\ deletion # None /\ deletion.step = "erased"
    /\ deletion' = None
    /\ UNCHANGED <<clock, spent, sourceVars, jobs, lessons, enabled, learner,
                   historyVars, boundVars>>
-------------------------------------------------------------------------------
(* A learner run: up to the choice of a job *)

At(pc) == learner # None /\ learner.pc = pc
Goto(pc) == learner' = [learner EXCEPT !.pc = pc]
Stop == learner' = None
Done(w) == learner' = [learner EXCEPT !.left = @ \ {w}]
Page(pc, S) == learner' = [learner EXCEPT !.pc = pc, !.left = S]

Expired(w, now) == jobs[w] # None /\ jobs[w].expires <= now
Overdue(w, now) == jobs[w] # None /\ jobs[w].state = "running" /\ jobs[w].deadline <= now

MaintenanceDue(now) ==
    {w \in Windows : \/ Expired(w, now) /\ jobs[w].state \notin Final
                     \/ Overdue(w, now)}

EvidenceDue(now) ==
    {w \in Windows : jobs[w] # None /\ jobs[w].state = "waiting_evidence" /\ ~Expired(w, now)}

InferenceDue(now) ==
    {w \in Windows :
        /\ jobs[w] # None /\ jobs[w].state \in {"pending", "paused", "failed"}
        /\ ~jobs[w].tooLarge /\ jobs[w].attempts < AttemptLimit
        /\ ~Expired(w, now) /\ jobs[w].retryAfter <= now}

StartRun ==
    /\ learner = None /\ enabled /\ ~HasActiveDeletion
    /\ learner' = [pc |-> "maintain", now |-> clock, left |-> MaintenanceDue(clock),
                   seen |-> content, window |-> None, before |-> 0, reviewed |-> FALSE]
    /\ UNCHANGED <<outside, spent, changes, work, jobs, lessons, charged, refused>>

\* Mutant: a job that was running when its process died is never taken up.
MaintainExpired(w) ==
    /\ At("maintain") /\ w \in learner.left
    /\ IF Expired(w, learner.now) THEN ToState(w, "archived") ELSE UNCHANGED jobs
    /\ Done(w)
    /\ UNCHANGED <<outside, spent, changes, work, lessons, charged, refused>>

\* A job past its expiry is archived; one left running is taken up again.
Maintain(w) ==
    /\ At("maintain") /\ w \in learner.left
    /\ ToState(w, IF Expired(w, learner.now) THEN "archived"
                  ELSE IF jobs[w].attempts >= AttemptLimit THEN "failed" ELSE "pending")
    /\ Done(w)
    /\ UNCHANGED <<outside, spent, changes, work, lessons, charged, refused>>

ReadEvidence ==
    /\ At("maintain") /\ learner.left = {}
    /\ Page("evidence", EvidenceDue(learner.now))
    /\ UNCHANGED <<outside, spent, changes, work, jobs, lessons, charged, refused>>

\* What a stored proposal waits for has not come, or cannot come any more.
Evidence(w) ==
    /\ At("evidence") /\ w \in learner.left
    /\ IF ~SourcesCurrent(w) THEN ToState(w, Stale(w))
       ELSE \E s \in {"evaluated", "waiting_evidence"} : ToState(w, s)
    /\ Done(w)
    /\ UNCHANGED <<outside, spent, changes, work, lessons, charged, refused>>

\* It has come: the proposals are qualified, without a call of the model, by
\* the time of the run.  The sources were current before an await.
Qualify(w) ==
    /\ At("evidence") /\ w \in learner.left
    /\ IF ~enabled THEN Stop /\ UNCHANGED jobs
       ELSE /\ \E s \in {"evaluated", "waiting_evidence"} :
                 IF SourcesCurrent(w) /\ ~Expired(w, learner.now)
                 THEN ToState(w, s) ELSE UNCHANGED jobs
            /\ Done(w)
    /\ UNCHANGED <<outside, spent, changes, work, lessons, charged, refused>>

\* Mutant: the work is taken off the list when it is read.
ReadAndForget ==
    /\ At("evidence") /\ learner.left = {}
    /\ \E page \in SUBSET (work \cup changes) :
         /\ work' = (work \cup changes) \ page
         /\ changes' = {}
         /\ learner' = [learner EXCEPT !.pc = "schedule", !.left = page, !.seen = content]
    /\ UNCHANGED <<outside, spent, jobs, lessons, charged, refused>>

\* learningPromptWork: one transaction moves the marks to the list and reads a
\* page of it, with the events.  Work that is not settled yet waits.
ReadWork ==
    /\ At("evidence") /\ learner.left = {}
    /\ IF HasActiveDeletion
       THEN Page("schedule", {}) /\ UNCHANGED <<changes, work>>
       ELSE /\ work' = work \cup changes
            /\ changes' = {}
            /\ \E page \in SUBSET work' :
                 learner' = [learner EXCEPT !.pc = "schedule", !.left = page, !.seen = content]
    /\ UNCHANGED <<outside, spent, jobs, lessons, charged, refused>>

\* A window whose job was cancelled or archived gets no other.
Closed(w) == jobs[w] # None /\ jobs[w].state \in Final

\* Mutant: a revision starts with a fresh budget.
NoAttempts(w) == 0

\* A revision, or another window of the task, continues the budget...
CarriedAttempts(w) == AttemptCount(Task[w])

\* ... and the expiry of the first.  A first window is as old as its prompt.
Expiries(w) ==
    IF JobsOf(Task[w]) # {} THEN {Min({jobs[v].expires : v \in JobsOf(Task[w])})}
    ELSE {clock + n : n \in 1..Life}

Saved(w) == jobs[w] # None /\ <<w, jobs[w].revision>> \in lessons

\* The proposals of the earlier revision that still hold are kept for evidence.
Keeps(w) == Saved(w) /\ jobs[w].state \in {"waiting_evidence", "superseded"}

\* A pause outlives the revision; stored proposals may do without a review.
FirstStates(w, keep) ==
    IF jobs[w] # None /\ jobs[w].state = "paused" THEN {"paused"}
    ELSE IF Saved(w) THEN {"pending", IF keep THEN "waiting_evidence" ELSE "evaluated"}
    ELSE {"pending"}

\* scheduleLearningWindow, of the revision that was read.
Schedule(w) ==
    /\ At("schedule") /\ w \in learner.left
    /\ IF \/ HasActiveDeletion \/ content[w] # learner.seen[w]
          \/ jobs[w] # None /\ jobs[w].revision = content[w]
          \/ Closed(w)
       THEN /\ UNCHANGED <<jobs, lessons>>
            /\ refused' = IF HasActiveDeletion THEN refused \cup {w} ELSE refused
       ELSE \E keep \in IF Keeps(w) THEN BOOLEAN ELSE {FALSE}, e \in Expiries(w) :
            \E s \in FirstStates(w, keep) :
              /\ jobs' = [jobs EXCEPT ![w] =
                    [revision |-> content[w], state |-> s, attempts |-> CarriedAttempts(w),
                     expires |-> e, deadline |-> 0, tooLarge |-> FALSE,
                     retryAfter |-> IF s = "paused" THEN jobs[w].retryAfter ELSE 0]]
              /\ lessons' = IF keep THEN lessons \cup {<<w, content[w]>>} ELSE lessons
              /\ UNCHANGED refused
    /\ learner' = [learner EXCEPT !.pc = "complete", !.window = w, !.left = @ \ {w}]
    /\ UNCHANGED <<outside, spent, changes, work, charged>>

\* completeLearningPromptWork does not ask whether a job came of the work.
Complete ==
    /\ At("complete")
    /\ work' = work \ {learner.window}
    /\ Goto("schedule")
    /\ UNCHANGED <<outside, spent, changes, jobs, lessons, charged, refused>>
-------------------------------------------------------------------------------
(* A learner run: one job *)

Pick ==
    /\ At("schedule") /\ learner.left = {}
    /\ \/ /\ InferenceDue(learner.now) = {}
          /\ Stop
          /\ UNCHANGED jobs
       \/ \E w \in InferenceDue(learner.now) :
            IF SourcesCurrent(w)
            THEN /\ learner' = [learner EXCEPT !.pc = "prepare", !.window = w]
                 /\ UNCHANGED jobs
            ELSE ToState(w, Stale(w)) /\ Stop
    /\ UNCHANGED <<outside, spent, changes, work, lessons, charged, refused>>

\* The input may be too large for good, and another window of the task may
\* have used the budget up.
Prepare ==
    /\ At("prepare")
    /\ LET w == learner.window
           n == AttemptCount(Task[w])
       IN
       \/ ~enabled /\ Stop /\ UNCHANGED jobs
       \/ enabled /\ Transition(w, [jobs[w] EXCEPT !.state = "failed", !.tooLarge = TRUE]) /\ Stop
       \/ /\ enabled /\ n >= AttemptLimit
          /\ Transition(w, [jobs[w] EXCEPT !.state = "failed", !.attempts = n]) /\ Stop
       \/ /\ enabled /\ n < AttemptLimit
          /\ learner' = [learner EXCEPT !.pc = "reserve", !.before = n]
          /\ UNCHANGED jobs
    /\ UNCHANGED <<outside, spent, changes, work, lessons, charged, refused>>

Reserve ==
    /\ At("reserve")
    /\ IF Reservable
       THEN spent' = spent + 1 /\ Goto("start") /\ UNCHANGED jobs
       ELSE /\ Transition(learner.window, [jobs[learner.window] EXCEPT
                   !.state = "paused", !.retryAfter = Tomorrow(learner.now)])
            /\ Stop /\ UNCHANGED spent
    /\ UNCHANGED <<outside, changes, work, lessons, charged, refused>>

\* The attempt is written down before the call.
Start ==
    /\ At("start")
    /\ Transition(learner.window, [jobs[learner.window] EXCEPT !.state = "running",
           !.attempts = learner.before + 1, !.deadline = learner.now + Deadline,
           !.retryAfter = 0])
    /\ IF HasActiveDeletion THEN Stop /\ UNCHANGED charged
       ELSE /\ Goto("infer")
            /\ charged' = [charged EXCEPT ![Task[learner.window]] = @ + 1]
    /\ UNCHANGED <<outside, spent, changes, work, lessons, refused>>

\* The catch of run(): a pause gives the attempt back.  `pause` is why, None
\* for any other failure; learning that is off comes before the rest.
Fail(pause, tooLarge) ==
    LET w == learner.window
        paused == pause # None \/ ~enabled
        later == CASE ~enabled \/ pause = "host_stopped" -> clock
                   [] pause = "daily_budget" -> Tomorrow(clock)
                   [] OTHER -> clock + 1
        s == IF ~SourcesCurrent(w) THEN Stale(w)
             ELSE IF Expired(w, clock) THEN "archived"
             ELSE IF paused THEN "paused" ELSE "failed"
    IN /\ Transition(w, [jobs[w] EXCEPT !.state = s,
              !.attempts = IF paused THEN learner.before ELSE @,
              !.retryAfter = IF paused THEN later ELSE 0, !.tooLarge = tooLarge])
       /\ charged' = IF paused /\ ~HasActiveDeletion
                     THEN [charged EXCEPT ![Task[w]] = @ - 1] ELSE charged
       /\ Stop

\* Before a second request, the review's, the provider asks for a reservation
\* and takes a refusal for a spent budget.
Review ==
    /\ At("infer") /\ ~learner.reviewed
    /\ IF Reservable /\ enabled /\ SourcesCurrent(learner.window)
       THEN /\ spent' = spent + 1
            /\ learner' = [learner EXCEPT !.reviewed = TRUE]
            /\ UNCHANGED <<jobs, charged>>
       ELSE Fail("daily_budget", FALSE) /\ UNCHANGED spent
    /\ UNCHANGED <<outside, changes, work, lessons, refused>>

Answer ==
    /\ At("infer")
    /\ Goto("answered")
    /\ UNCHANGED <<outside, spent, changes, work, jobs, lessons, charged, refused>>

\* It fails, times out, is unavailable or is cancelled with the host.
InferenceFails(pause, tooLarge) ==
    /\ At("infer") /\ faults < MaxFaults
    /\ tooLarge => pause = None
    /\ Fail(pause, tooLarge)
    /\ faults' = faults + 1
    /\ UNCHANGED <<clock, content, enabled, deletion, erased, toggles, spent, changes,
                   work, lessons, refused>>

\* The checks when the answer is there; what does not validate has failed.
Submit ==
    /\ At("answered")
    /\ LET w == learner.window IN
       IF ~enabled THEN Fail(None, FALSE)
       ELSE IF ~SourcesCurrent(w) \/ HasActiveDeletion
       THEN ToState(w, Stale(w)) /\ Stop /\ UNCHANGED charged
       ELSE IF Expired(w, clock)
       THEN ToState(w, "archived") /\ Stop /\ UNCHANGED charged
       ELSE \/ Goto("commit") /\ UNCHANGED <<jobs, charged>>
            \/ Fail(None, FALSE)
    /\ UNCHANGED <<outside, spent, changes, work, lessons, refused>>

\* Mutant: the transaction trusts the checks before it.
Trusting(w) == jobs[w] # None /\ jobs[w].state = "running"

Committable(w) ==
    /\ jobs[w] # None /\ jobs[w].state = "running"
    /\ ~Expired(w, clock) /\ ~HasActiveDeletion /\ SourcesCurrent(w)

\* commitLearningResult checks again, in its transaction.  No rule is an
\* answer too; a rule at odds with an earlier lesson fails the job, and so does
\* one that admission throws out; refused, the job is left running.
Commit ==
    /\ At("commit")
    /\ LET w == learner.window IN
       IF Committable(w)
       THEN \/ /\ \E s \in {"evaluated", "waiting_evidence"} : ToState(w, s)
               /\ lessons' = lessons \cup {<<w, jobs[w].revision>>}
               /\ Stop /\ UNCHANGED charged
            \/ /\ \E s \in {"evaluated", "failed"} : ToState(w, s)
               /\ Stop /\ UNCHANGED <<lessons, charged>>
            \/ Fail(None, FALSE) /\ UNCHANGED lessons
       ELSE Stop /\ UNCHANGED <<jobs, lessons, charged>>
    /\ UNCHANGED <<outside, spent, changes, work, refused>>

\* The run ends at an await because the host stops, or its process dies.
Die ==
    /\ learner # None /\ faults < MaxFaults
    /\ Stop
    /\ faults' = faults + 1
    /\ UNCHANGED <<clock, content, enabled, deletion, erased, toggles, spent, changes,
                   work, jobs, lessons, charged, refused>>
-------------------------------------------------------------------------------
Run ==
    \/ StartRun \/ ReadEvidence \/ ReadWork \/ Complete \/ Pick \/ Prepare
    \/ Reserve \/ Start \/ Review \/ Answer \/ Submit \/ Commit
    \/ \E w \in Windows : Maintain(w) \/ Evidence(w) \/ Qualify(w) \/ Schedule(w)

Around ==
    \/ Toggle \/ Drain \/ Erase \/ CompleteDeletion \/ Die
    \/ \E w \in Windows : Capture(w)
    \/ \E t \in Tasks : BeginDeletion(t)
    \/ \E pause \in {"unavailable", "host_stopped", None}, tooLarge \in BOOLEAN :
         InferenceFails(pause, tooLarge)

Next == Tick \/ Run \/ Around

Spec == Init /\ [][Next]_vars

\* The extension starts a run every little while, and time passes.
FairSpec == Spec /\ WF_vars(Tick) /\ WF_vars(Run)
-------------------------------------------------------------------------------
(* Properties *)

\* The attempts the jobs of a task carry are the calls that were made for it and
\* not given back, and never more than the limit: over revisions, over the
\* summaries of one task, over crashes, refusals and pauses.
AttemptsAreCounted ==
    \A t \in Tasks \ erased : charged[t] = AttemptCount(t) /\ charged[t] <= AttemptLimit

\* Sources that no job of their window has seen, unless the window is closed.
Unseen(w) ==
    /\ content[w] > 0
    /\ jobs[w] = None \/ jobs[w].revision # content[w]
    /\ jobs[w] = None \/ jobs[w].state \notin Final

\* A window whose sources no job has seen is marked, or on the list, or was
\* refused a job because of a deletion: through crashes, pauses, superseded
\* jobs and changes that come while the work is done.
NoChangeIsForgotten == \A w \in Windows : Unseen(w) => w \in changes \cup work \cup refused

\* A model does not work on what has been erased.
NoModelOnTheErased ==
    At("infer") \/ At("answered") \/ At("commit") => Task[learner.window] \notin erased

\* Lessons are stored of what the window holds at that moment, and never under
\* a deletion, however long the model took to answer; and a job that was cancelled
\* or archived stays so until it is erased.
LessonsAreOfTheMoment ==
    [][/\ \A l \in lessons' \ lessons : content[l[1]] = l[2] /\ ~HasActiveDeletion
       /\ \A w \in Windows :
            jobs[w] # None /\ jobs[w].state \in Final => jobs'[w] \in {None, jobs[w]}]_vars

IsRunning(w) ==
    jobs[w] # None /\ jobs[w].state = "running" /\ jobs[w].deadline <= MaxClock

\* A job does not stay running, whatever became of its run: another takes it up,
\* once learning stays on and no deletion is left half done.  (A deadline past
\* the bound of the clock is one that never comes.)
RunningIsTakenUp ==
    <>[](enabled /\ ~HasActiveDeletion) => \A w \in Windows : IsRunning(w) ~> ~IsRunning(w)
===============================================================================
