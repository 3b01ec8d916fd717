----------------------------- MODULE LearningProofs -----------------------------
(***************************************************************************)
(* What is proved of LearningJobs, for every number of windows, tasks,     *)
(* revisions and faults: no model works on what has been erased, no change *)
(* is forgotten, the attempts are counted and the lessons are of the       *)
(* moment.                                                                 *)
(*                                                                         *)
(* The first invariant says what a deletion leaves: once it has had the    *)
(* learner's lease, no run goes on before it is over; an erased task has   *)
(* no job, no source and no work; so a later run finds nothing of it to    *)
(* take up.  The second, on top of it, follows the run that is under way:  *)
(* the jobs of its page and its choice are open, nothing else makes or     *)
(* counts a job meanwhile, and what changed since its page was read is     *)
(* marked again.                                                           *)
(***************************************************************************)
EXTENDS LearningJobs, TLAPS

Gone(w) == Task[w] \in erased

\* What is needed of the types.
Maps ==
    /\ jobs = [w \in Windows |-> jobs[w]]
    /\ content = [w \in Windows |-> content[w]]
    /\ changes \subseteq Windows /\ work \subseteq Windows

RunForm ==
    learner # None =>
        learner = [pc |-> learner.pc, now |-> learner.now, left |-> learner.left,
                   seen |-> learner.seen, window |-> learner.window,
                   before |-> learner.before, reviewed |-> learner.reviewed]

DeletionForm ==
    deletion # None => deletion = [task |-> deletion.task, step |-> deletion.step]

DrainedAlone ==
    deletion # None /\ deletion.step \in {"drained", "erased"} => learner = None

NothingLeft ==
    \A w \in Windows : Gone(w) =>
        jobs[w] = None /\ content[w] = 0 /\ w \notin changes /\ w \notin work

PageIsThere == learner # None => \A w \in learner.left : w \in Windows /\ ~Gone(w)

Chosen == {"prepare", "reserve", "start", "infer", "answered", "commit"}

ChosenIsThere ==
    learner # None /\ learner.pc \in Chosen =>
        learner.window \in Windows /\ ~Gone(learner.window)

IInv == /\ Maps /\ RunForm /\ DeletionForm /\ DrainedAlone
        /\ NothingLeft /\ PageIsThere /\ ChosenIsThere

\* A step on the jobs that makes none where there was none.
Local ==
    /\ jobs' = [w \in Windows |-> jobs'[w]]
    /\ \A w \in Windows : jobs[w] = None => jobs'[w] = None
-------------------------------------------------------------------------------
LEMMA UnchangedIsLocal == ASSUME Maps, UNCHANGED jobs PROVE Local
BY DEF Maps, Local

\* A transition changes the job it is given, if there is one, and no other.
LEMMA TransitionIsLocal ==
    ASSUME Maps, NEW w, NEW job, Transition(w, job) PROVE Local
<1>1. CASE jobs' = jobs
  BY <1>1 DEF Maps, Local
<1>2. CASE jobs[w] # None /\ jobs' = [jobs EXCEPT ![w] = job]
  BY <1>2 DEF Maps, Local
<1> QED BY <1>1, <1>2, Zenon DEF Transition

LEMMA ToStateIsLocal ==
    ASSUME Maps, NEW w, NEW s, ToState(w, s) PROVE Local
BY TransitionIsLocal, Zenon DEF ToState

\* The catch of a run ends it and is local too.
LEMMA FailIsLocal ==
    ASSUME Maps, NEW pause, NEW tooLarge, Fail(pause, tooLarge)
    PROVE  Local /\ learner' = None
BY TransitionIsLocal, Zenon DEF Fail, Stop

\* A step of a run is safe when it only takes work away, its page and its
\* window stay what they were, and it is local.
LEMMA StepOfTheRun ==
    ASSUME IInv, learner # None, Local,
           UNCHANGED <<content, changes, deletion, erased>>, work' \subseteq work,
           RunForm', PageIsThere', ChosenIsThere'
    PROVE  IInv'
<1>1. Maps'
  BY DEF IInv, Maps, Local
<1>2. DeletionForm'
  BY DEF IInv, DeletionForm
<1>3. DrainedAlone'
  BY DEF IInv, DrainedAlone
<1>4. NothingLeft'
  BY DEF IInv, NothingLeft, Local, Gone
<1> QED BY <1>1, <1>2, <1>3, <1>4 DEF IInv

\* A run that ends has no page and no window.
LEMMA LastStepOfTheRun ==
    ASSUME IInv, learner # None, Local, learner' = None,
           UNCHANGED <<content, changes, deletion, erased>>, work' \subseteq work
    PROVE  IInv'
<1>1. RunForm' /\ PageIsThere' /\ ChosenIsThere'
  BY DEF RunForm, PageIsThere, ChosenIsThere
<1> QED BY <1>1, StepOfTheRun

-------------------------------------------------------------------------------
(* What the run does with its page and its window *)

\* The page is worked off, before any window is chosen.
LEMMA PageStepsKeepInvariant ==
    ASSUME IInv, NEW w \in Windows,
           Maintain(w) \/ Evidence(w) \/ Qualify(w)
    PROVE  IInv'
<1>1. /\ learner # None /\ learner.pc \in {"maintain", "evidence"}
      /\ learner' = None \/ learner' = [learner EXCEPT !.left = @ \ {w}]
  BY DEF Maintain, Evidence, Qualify, At, Done, Stop
<1>2. UNCHANGED <<content, changes, deletion, erased, work>>
  BY DEF Maintain, Evidence, Qualify, outside
<1>3. Local
  <2>1. CASE Maintain(w)
    <3>1. PICK s : ToState(w, s)
      BY <2>1, Zenon DEF Maintain
    <3> QED BY <3>1, ToStateIsLocal DEF IInv
  <2>2. CASE Evidence(w)
    <3>1. PICK s : ToState(w, s)
      BY <2>2, Zenon DEF Evidence
    <3> QED BY <3>1, ToStateIsLocal DEF IInv
  <2>3. CASE Qualify(w)
    <3>1. UNCHANGED jobs \/ \E s : ToState(w, s)
      BY <2>3, Zenon DEF Qualify
    <3> QED BY <3>1, ToStateIsLocal, UnchangedIsLocal, Zenon DEF IInv
  <2> QED BY <2>1, <2>2, <2>3
<1>4. CASE learner' = None
  BY <1>1, <1>2, <1>3, <1>4, LastStepOfTheRun
<1>5. CASE learner' = [learner EXCEPT !.left = @ \ {w}]
  <2>1. RunForm' /\ PageIsThere' /\ ChosenIsThere'
    BY <1>1, <1>2, <1>5 DEF IInv, RunForm, PageIsThere, ChosenIsThere, Chosen, Gone
  <2> QED BY <1>1, <1>2, <1>3, <2>1, StepOfTheRun
<1> QED BY <1>1, <1>4, <1>5

\* A run begins with windows that have a job, so with none that is erased.
LEMMA StartRunKeepsInvariant == ASSUME IInv, StartRun PROVE IInv'
<1>1. learner = None /\ deletion = None
  BY DEF StartRun, HasActiveDeletion
<1>2. learner' = [pc |-> "maintain", now |-> clock, left |-> MaintenanceDue(clock),
                  seen |-> content, window |-> None, before |-> 0, reviewed |-> FALSE]
  BY DEF StartRun
<1>3. UNCHANGED <<content, changes, work, jobs, deletion, erased>>
  BY DEF StartRun, outside
<1>4. \A w \in MaintenanceDue(clock) : w \in Windows /\ ~Gone(w)
  BY DEF MaintenanceDue, Expired, Overdue, IInv, NothingLeft
<1>5. RunForm' /\ ChosenIsThere'
  BY <1>2 DEF RunForm, ChosenIsThere, Chosen
<1>6. PageIsThere'
  BY <1>2, <1>3, <1>4 DEF PageIsThere, Gone
<1>7. Maps' /\ DeletionForm' /\ DrainedAlone' /\ NothingLeft'
  BY <1>1, <1>3 DEF IInv, Maps, DeletionForm, DrainedAlone, NothingLeft, Gone
<1> QED BY <1>5, <1>6, <1>7 DEF IInv

\* So does the page of stored proposals.
LEMMA ReadEvidenceKeepsInvariant == ASSUME IInv, ReadEvidence PROVE IInv'
<1>1. learner # None /\ learner' = [learner EXCEPT !.pc = "evidence",
                                       !.left = EvidenceDue(learner.now)]
  BY DEF ReadEvidence, At, Page
<1>2. UNCHANGED <<content, changes, deletion, erased, work, jobs>>
  BY DEF ReadEvidence, outside
<1>3. \A w \in EvidenceDue(learner.now) : w \in Windows /\ ~Gone(w)
  BY DEF EvidenceDue, IInv, NothingLeft
<1>4. RunForm' /\ PageIsThere' /\ ChosenIsThere'
  BY <1>1, <1>2, <1>3 DEF IInv, RunForm, PageIsThere, ChosenIsThere, Chosen, Gone
<1>5. Local
  BY <1>2, UnchangedIsLocal DEF IInv
<1> QED BY <1>1, <1>2, <1>4, <1>5, StepOfTheRun

\* The page of work is of what is marked or listed, and an erased window is
\* neither.
LEMMA ReadWorkKeepsInvariant == ASSUME IInv, ReadWork PROVE IInv'
<1>1. learner # None /\ UNCHANGED <<content, deletion, erased, jobs>>
  BY DEF ReadWork, outside, At
<1>2. Local
  BY <1>1, UnchangedIsLocal DEF IInv
<1>3. CASE HasActiveDeletion
  <2>1. UNCHANGED <<changes, work>>
        /\ learner' = [learner EXCEPT !.pc = "schedule", !.left = {}]
    BY <1>3 DEF ReadWork, Page
  <2>2. RunForm' /\ PageIsThere' /\ ChosenIsThere'
    BY <2>1, <1>1 DEF IInv, RunForm, PageIsThere, ChosenIsThere, Chosen
  <2> QED BY <1>1, <1>2, <2>1, <2>2, StepOfTheRun
<1>4. CASE ~HasActiveDeletion
  <2>1. work' = work \cup changes /\ changes' = {}
    BY <1>4 DEF ReadWork
  <2>2. PICK page \in SUBSET work' :
          learner' = [learner EXCEPT !.pc = "schedule", !.left = page, !.seen = content]
    BY <1>4 DEF ReadWork
  <2>3. \A w \in page : w \in Windows /\ ~Gone(w)
    BY <2>1 DEF IInv, Maps, NothingLeft
  <2>4. RunForm' /\ PageIsThere' /\ ChosenIsThere'
    BY <1>1, <2>2, <2>3 DEF IInv, RunForm, PageIsThere, ChosenIsThere, Chosen, Gone
  <2>5. Maps' /\ NothingLeft'
    BY <1>1, <2>1 DEF IInv, Maps, NothingLeft, Gone
  <2>6. DeletionForm' /\ DrainedAlone'
    BY <1>1, <1>4 DEF IInv, DeletionForm, DrainedAlone, HasActiveDeletion
  <2> QED BY <2>4, <2>5, <2>6 DEF IInv
<1> QED BY <1>3, <1>4

\* A job is made for a window of the page, which is not erased.
LEMMA ScheduleKeepsInvariant ==
    ASSUME IInv, NEW w \in Windows, Schedule(w) PROVE IInv'
<1>1. learner # None /\ w \in learner.left /\ ~Gone(w)
      /\ learner' = [learner EXCEPT !.pc = "complete", !.window = w, !.left = @ \ {w}]
      /\ UNCHANGED <<content, changes, deletion, erased, work>>
  BY DEF Schedule, outside, At, IInv, PageIsThere
<1>2. \/ jobs' = jobs
      \/ \E job : jobs' = [jobs EXCEPT ![w] = job]
  BY Zenon DEF Schedule
<1>3. /\ jobs' = [v \in Windows |-> jobs'[v]]
      /\ \A v \in Windows : v # w => jobs'[v] = jobs[v]
  BY <1>2 DEF IInv, Maps
<1>4. RunForm' /\ PageIsThere' /\ ChosenIsThere'
  BY <1>1 DEF IInv, RunForm, PageIsThere, ChosenIsThere, Chosen, Gone
<1>5. Maps' /\ NothingLeft'
  BY <1>1, <1>3 DEF IInv, Maps, NothingLeft, Gone
<1>6. DeletionForm' /\ DrainedAlone'
  BY <1>1 DEF IInv, DeletionForm, DrainedAlone
<1> QED BY <1>4, <1>5, <1>6 DEF IInv

LEMMA CompleteKeepsInvariant == ASSUME IInv, Complete PROVE IInv'
<1>1. learner # None /\ work' \subseteq work
      /\ learner' = [learner EXCEPT !.pc = "schedule"]
      /\ UNCHANGED <<content, changes, deletion, erased, jobs>>
  BY DEF Complete, outside, At, Goto
<1>2. RunForm' /\ PageIsThere' /\ ChosenIsThere'
  BY <1>1 DEF IInv, RunForm, PageIsThere, ChosenIsThere, Chosen, Gone
<1>3. Local
  BY <1>1, UnchangedIsLocal DEF IInv
<1> QED BY <1>1, <1>2, <1>3, StepOfTheRun
-------------------------------------------------------------------------------
(* What the run does with the job it chose *)

\* The run stays with its window, whatever it does next.
WindowIsKept ==
    /\ learner # None /\ learner.pc \in Chosen
    /\ \/ \E pc : learner' = [learner EXCEPT !.pc = pc]
       \/ \E n : learner' = [learner EXCEPT !.pc = "reserve", !.before = n]
       \/ learner' = [learner EXCEPT !.reviewed = TRUE]

LEMMA KeepingTheWindow ==
    ASSUME IInv, WindowIsKept, Local,
           UNCHANGED <<content, changes, deletion, erased, work>>
    PROVE  IInv'
<1>1. RunForm'
  BY DEF IInv, RunForm, WindowIsKept
<1>2. learner'.window = learner.window /\ learner'.left = learner.left
  BY DEF IInv, RunForm, WindowIsKept
<1>3. PageIsThere' /\ ChosenIsThere'
  BY <1>2 DEF IInv, PageIsThere, ChosenIsThere, WindowIsKept, Gone
<1> QED BY <1>1, <1>3, StepOfTheRun DEF WindowIsKept

\* The job is chosen among those that are due.
LEMMA PickKeepsInvariant == ASSUME IInv, Pick PROVE IInv'
<1>1. learner # None /\ UNCHANGED <<content, changes, deletion, erased, work>>
  BY DEF Pick, At, outside
<1>2. CASE learner' = None /\ Local
  BY <1>1, <1>2, LastStepOfTheRun
<1>3. CASE /\ UNCHANGED jobs
           /\ \E w \in InferenceDue(learner.now) :
                learner' = [learner EXCEPT !.pc = "prepare", !.window = w]
  <2>1. PICK w \in InferenceDue(learner.now) :
          learner' = [learner EXCEPT !.pc = "prepare", !.window = w]
    BY <1>3
  <2>2. w \in Windows /\ ~Gone(w)
    BY DEF InferenceDue, IInv, NothingLeft
  <2>3. RunForm' /\ PageIsThere' /\ ChosenIsThere'
    BY <1>1, <2>1, <2>2 DEF IInv, RunForm, PageIsThere, ChosenIsThere, Gone
  <2>4. Local
    BY <1>3, UnchangedIsLocal DEF IInv
  <2> QED BY <1>1, <2>3, <2>4, StepOfTheRun
<1>4. \/ learner' = None /\ (UNCHANGED jobs \/ \E w, s : ToState(w, s))
      \/ /\ UNCHANGED jobs
         /\ \E w \in InferenceDue(learner.now) :
              learner' = [learner EXCEPT !.pc = "prepare", !.window = w]
  BY Zenon DEF Pick, Stop
<1> QED BY <1>2, <1>3, <1>4, ToStateIsLocal, UnchangedIsLocal, Zenon DEF IInv

\* Every other step of the choice keeps the window or ends the run.
LEMMA ChoiceStepsKeepInvariant ==
    ASSUME IInv,
           \/ Prepare \/ Reserve \/ Start \/ Review \/ Answer \/ Submit \/ Commit
           \/ \E pause, tooLarge : InferenceFails(pause, tooLarge)
    PROVE  IInv'
<1>1. learner # None /\ learner.pc \in Chosen
  BY DEF Prepare, Reserve, Start, Review, Answer, Submit, Commit, InferenceFails, At, Chosen
<1>2. UNCHANGED <<content, changes, deletion, erased, work>>
  BY DEF Prepare, Reserve, Start, Review, Answer, Submit, Commit, InferenceFails, outside
<1>3. /\ \/ UNCHANGED jobs
         \/ \E w, job : Transition(w, job)
         \/ \E w, s : ToState(w, s)
         \/ \E pause, tooLarge : Fail(pause, tooLarge)
      /\ \/ learner' = None
         \/ \E pc : learner' = [learner EXCEPT !.pc = pc]
         \/ \E n : learner' = [learner EXCEPT !.pc = "reserve", !.before = n]
         \/ learner' = [learner EXCEPT !.reviewed = TRUE]
  <2>1. CASE Prepare
    BY <2>1, Zenon DEF Prepare, Stop
  <2>2. CASE Reserve
    BY <2>2, Zenon DEF Reserve, Stop, Goto
  <2>3. CASE Start
    BY <2>3, Zenon DEF Start, Stop, Goto
  <2>4. CASE Review
    BY <2>4, Zenon DEF Review, Fail, Stop
  <2>5. CASE Answer
    BY <2>5, Zenon DEF Answer, Goto
  <2>6. CASE Submit
    BY <2>6, Zenon DEF Submit, Fail, Stop, Goto
  <2>7. CASE Commit
    BY <2>7, Zenon DEF Commit, Fail, Stop
  <2>8. CASE \E pause, tooLarge : InferenceFails(pause, tooLarge)
    BY <2>8, Zenon DEF InferenceFails, Fail, Stop
  <2> QED BY <2>1, <2>2, <2>3, <2>4, <2>5, <2>6, <2>7, <2>8
<1>4. Local
  BY <1>3, UnchangedIsLocal, TransitionIsLocal, ToStateIsLocal, FailIsLocal, Zenon DEF IInv
<1>5. CASE learner' = None
  BY <1>1, <1>2, <1>4, <1>5, LastStepOfTheRun
<1>6. CASE WindowIsKept
  BY <1>2, <1>4, <1>6, KeepingTheWindow
<1> QED BY <1>1, <1>3, <1>5, <1>6, Zenon DEF WindowIsKept

LEMMA DieKeepsInvariant == ASSUME IInv, Die PROVE IInv'
<1>1. /\ learner # None /\ learner' = None
      /\ UNCHANGED <<content, changes, deletion, erased, work, jobs>>
  BY DEF Die, Stop
<1> QED BY <1>1, UnchangedIsLocal, LastStepOfTheRun DEF IInv
-------------------------------------------------------------------------------
(* The processes around the learner *)

LEMMA OutsideKeepsInvariant == ASSUME IInv, Tick \/ Toggle \/ UNCHANGED vars PROVE IInv'
<1>1. UNCHANGED <<content, changes, work, jobs, deletion, erased, learner>>
  BY DEF Tick, Toggle, vars, sourceVars, historyVars, boundVars
<1> QED BY <1>1 DEF IInv, Maps, RunForm, DeletionForm, DrainedAlone, NothingLeft,
                    PageIsThere, ChosenIsThere, Gone

\* Nothing erased comes back.
LEMMA CaptureKeepsInvariant ==
    ASSUME IInv, NEW w \in Windows, Capture(w) PROVE IInv'
<1>1. /\ ~Gone(w)
      /\ content' = [content EXCEPT ![w] = @ + 1] /\ changes' = changes \cup {w}
      /\ UNCHANGED <<work, jobs, deletion, erased, learner>>
  BY DEF Capture, Gone, historyVars
<1>2. Maps' /\ NothingLeft'
  BY <1>1 DEF IInv, Maps, NothingLeft, Gone
<1>3. RunForm' /\ DeletionForm' /\ DrainedAlone' /\ PageIsThere' /\ ChosenIsThere'
  BY <1>1 DEF IInv, RunForm, DeletionForm, DrainedAlone, PageIsThere, ChosenIsThere, Gone
<1> QED BY <1>2, <1>3 DEF IInv

\* A deletion begins beside a run; it has the lease only when the run is over.
LEMMA DeletionStepsKeepInvariant ==
    ASSUME IInv, (\E t \in Tasks : BeginDeletion(t)) \/ Drain \/ CompleteDeletion
    PROVE  IInv'
<1>1. UNCHANGED <<content, changes, work, jobs, erased, learner>>
  BY DEF BeginDeletion, Drain, CompleteDeletion, sourceVars, historyVars
<1>2. DeletionForm' /\ DrainedAlone'
  <2>1. CASE \E t \in Tasks : BeginDeletion(t)
    BY <2>1 DEF BeginDeletion, DeletionForm, DrainedAlone
  <2>2. CASE Drain
    BY <2>2, <1>1 DEF Drain, IInv, DeletionForm, DrainedAlone
  <2>3. CASE CompleteDeletion
    BY <2>3 DEF CompleteDeletion, DeletionForm, DrainedAlone
  <2> QED BY <2>1, <2>2, <2>3
<1> QED BY <1>1, <1>2 DEF IInv, Maps, RunForm, NothingLeft, PageIsThere, ChosenIsThere, Gone

\* Erasing leaves nothing of the task, and no run is there to hold a piece.
LEMMA EraseKeepsInvariant == ASSUME IInv, Erase PROVE IInv'
<1>1. learner = None /\ learner' = None
  BY DEF Erase, IInv, DrainedAlone
<1>2. /\ content' = [w \in Windows |-> IF Task[w] = deletion.task THEN 0 ELSE content[w]]
      /\ jobs' = [w \in Windows |-> IF Task[w] = deletion.task THEN None ELSE jobs[w]]
      /\ changes' = {w \in changes : Task[w] # deletion.task}
      /\ work' = {w \in work : Task[w] # deletion.task}
      /\ erased' = erased \cup {deletion.task}
  BY DEF Erase, WindowsOf, IInv, Maps
<1>3. Maps'
  BY <1>2 DEF IInv, Maps
<1>4. NothingLeft'
  BY <1>2 DEF IInv, Maps, NothingLeft, Gone
<1>5. DeletionForm'
  BY DEF Erase, IInv, DeletionForm
<1> QED BY <1>1, <1>3, <1>4, <1>5
        DEF IInv, RunForm, DrainedAlone, PageIsThere, ChosenIsThere
-------------------------------------------------------------------------------
LEMMA InitHasInvariant == ASSUME Init PROVE IInv
BY DEF Init, IInv, Maps, RunForm, DeletionForm, DrainedAlone, NothingLeft, PageIsThere,
       ChosenIsThere, Gone

LEMMA NextKeepsInvariant == ASSUME IInv, [Next]_vars PROVE IInv'
<1>1. CASE Tick \/ Toggle \/ UNCHANGED vars
  BY <1>1, OutsideKeepsInvariant
<1>2. CASE \E w \in Windows : Maintain(w) \/ Evidence(w) \/ Qualify(w)
  BY <1>2, PageStepsKeepInvariant
<1>3. CASE \E w \in Windows : Schedule(w)
  BY <1>3, ScheduleKeepsInvariant
<1>4. CASE StartRun \/ ReadEvidence \/ ReadWork \/ Complete \/ Pick \/ Die
  BY <1>4, StartRunKeepsInvariant, ReadEvidenceKeepsInvariant, ReadWorkKeepsInvariant,
     CompleteKeepsInvariant, PickKeepsInvariant, DieKeepsInvariant
<1>5. CASE \/ Prepare \/ Reserve \/ Start \/ Review \/ Answer \/ Submit \/ Commit
           \/ \E pause, tooLarge : InferenceFails(pause, tooLarge)
  BY <1>5, ChoiceStepsKeepInvariant
<1>6. CASE \E w \in Windows : Capture(w)
  BY <1>6, CaptureKeepsInvariant
<1>7. CASE (\E t \in Tasks : BeginDeletion(t)) \/ Drain \/ CompleteDeletion
  BY <1>7, DeletionStepsKeepInvariant
<1>8. CASE Erase
  BY <1>8, EraseKeepsInvariant
<1> QED BY <1>1, <1>2, <1>3, <1>4, <1>5, <1>6, <1>7, <1>8, Zenon DEF Next, Run, Around

\* The inductive invariant holds in every state.
THEOREM InvariantHolds == Spec => []IInv
<1>1. Init => IInv
  BY InitHasInvariant
<1>2. IInv /\ [Next]_vars => IInv'
  BY NextKeepsInvariant
<1> QED BY <1>1, <1>2, PTL DEF Spec

\* A model does not work on what has been erased: not on a window of a task
\* whose deletion went by while the run was waiting for the answer.
THEOREM ErasedIsLeftAlone == Spec => []NoModelOnTheErased
<1>1. IInv => NoModelOnTheErased
  BY DEF IInv, ChosenIsThere, Chosen, NoModelOnTheErased, At, Gone
<1> QED BY <1>1, InvariantHolds, PTL
-------------------------------------------------------------------------------
(* What the jobs say of the calls that were made and of the sources.  The  *)
(* run in hand is why it is inductive: the job it works on is open, and no *)
(* other process makes, changes or counts one before the run is over.      *)

Open(w) == jobs[w] # None /\ jobs[w].state \notin Final

JobTypes == \A w \in Windows : content[w] \in Nat /\ (jobs[w] # None => jobs[w] \in Job)

\* The expiry of the first job is that of every job of the task.
SameExpiry ==
    \A v, w \in Windows :
        Task[v] = Task[w] /\ jobs[v] # None /\ jobs[w] # None
            => jobs[v].expires = jobs[w].expires

\* The most attempts of a task's jobs, without a choice among them.
IsCount(t, n) ==
    /\ n \in Nat
    /\ \A w \in JobsOf(t) : jobs[w].attempts <= n
    /\ n = 0 \/ \E w \in JobsOf(t) : jobs[w].attempts = n

Counted ==
    /\ charged = [t \in Tasks |-> charged[t]]
    /\ \A t \in Tasks \ erased : IsCount(t, charged[t]) /\ charged[t] <= AttemptLimit

RunTypes ==
    /\ clock \in Nat
    /\ learner # None => learner.now \in Nat /\ learner.before \in Nat

PageIsOpen ==
    learner # None /\ learner.pc \in {"maintain", "evidence"} =>
        \A w \in learner.left : Open(w)

ChosenIsOpen == learner # None /\ learner.pc \in Chosen => Open(learner.window)

\* Between the look at the budget and the call, and while the call is out.
InHand ==
    learner # None =>
        LET w == learner.window IN
        /\ learner.pc \in {"reserve", "start"} =>
              learner.before = charged[Task[w]] /\ learner.before < AttemptLimit
        /\ learner.pc \in {"infer", "answered", "commit"} =>
              /\ charged[Task[w]] = learner.before + 1
              /\ jobs[w].attempts = learner.before + 1
              /\ \A v \in JobsOf(Task[w]) \ {w} : jobs[v].attempts <= learner.before

\* Whatever changed since the page was read is marked again.
SeenIsCurrent ==
    learner # None /\ learner.pc \in {"schedule", "complete"} =>
        \A w \in learner.left : content[w] # learner.seen[w] => w \in changes

DoneIsSeen ==
    learner # None /\ learner.pc = "complete" =>
        (Unseen(learner.window) => learner.window \in changes \cup refused)

Data == JobTypes /\ SameExpiry /\ Counted /\ NoChangeIsForgotten
RunPart == RunTypes /\ PageIsOpen /\ ChosenIsOpen /\ InHand /\ SeenIsCurrent /\ DoneIsSeen
JInv == Data /\ RunPart
-------------------------------------------------------------------------------
\* The count is what the model computes with a maximum.
LEMMA CountIsMax ==
    ASSUME NEW t, NEW n, IsCount(t, n), JobTypes
    PROVE  AttemptCount(t) = n
<1> DEFINE S == {jobs[w].attempts : w \in JobsOf(t)} \cup {0}
<1>1. S \subseteq Nat
  BY DEF JobsOf, WindowsOf, JobTypes, Job
<1>2. n \in S /\ \A y \in S : n >= y
  BY DEF IsCount
<1> HIDE DEF S
<1>3. \A x \in S : (\A y \in S : x >= y) => x = n
  BY <1>1, <1>2
<1>4. Max(S) \in S /\ \A y \in S : Max(S) >= y
  BY <1>2, Zenon DEF Max
<1>5. Max(S) = n
  BY <1>3, <1>4
<1> QED BY <1>5 DEF AttemptCount, S

\* A transition of a job that is there changes it, unless a deletion is active.
LEMMA TransitionOfOne ==
    ASSUME Maps, NEW w \in Windows, NEW job, jobs[w] # None, Transition(w, job)
    PROVE  \/ HasActiveDeletion /\ jobs' = jobs
           \/ /\ ~HasActiveDeletion
              /\ jobs' = [v \in Windows |-> IF v = w THEN job ELSE jobs[v]]
BY DEF Transition, Maps

\* One job is changed, or made, of a window that is not closed and whose sources
\* it has if it did not have them before.
OneJob(w, job) ==
    /\ job \in Job
    /\ jobs' = [v \in Windows |-> IF v = w THEN job ELSE jobs[v]]
    /\ job.revision = content[w] \/ (Open(w) /\ job.revision = jobs[w].revision)
    /\ \A v \in JobsOf(Task[w]) : job.expires = jobs[v].expires

LEMMA OneJobTypes ==
    ASSUME JobTypes, NEW w \in Windows, NEW job, OneJob(w, job), UNCHANGED content
    PROVE  JobTypes' /\ job # None
BY NoneIsNoJob DEF OneJob, JobTypes

LEMMA OneJobExpires ==
    ASSUME SameExpiry, NEW w \in Windows, NEW job, OneJob(w, job)
    PROVE  SameExpiry'
<1>1. \A v \in Windows : jobs'[v] = IF v = w THEN job ELSE jobs[v]
  BY DEF OneJob
<1>2. \A v \in Windows : Task[v] = Task[w] /\ jobs[v] # None => job.expires = jobs[v].expires
  BY DEF OneJob, JobsOf, WindowsOf
<1> QED BY <1>1, <1>2 DEF SameExpiry

LEMMA OneJobIsMarked ==
    ASSUME NoChangeIsForgotten, NEW w \in Windows, NEW job, OneJob(w, job), job # None,
           UNCHANGED <<content, changes, work>>, refused \subseteq refused'
    PROVE  NoChangeIsForgotten'
<1>1. \A v \in Windows : jobs'[v] = IF v = w THEN job ELSE jobs[v]
  BY DEF OneJob
<1>2. ASSUME NEW v \in Windows, Unseen(v)' PROVE Unseen(v)
  <2>1. CASE v = w
    BY <1>1, <1>2, <2>1 DEF Unseen, OneJob, Open
  <2>2. CASE v # w
    BY <1>1, <1>2, <2>2 DEF Unseen
  <2> QED BY <2>1, <2>2
<1> QED BY <1>2 DEF NoChangeIsForgotten

\* The count of the task goes with the job's attempts.
LEMMA OneJobCounts ==
    ASSUME JobTypes, Counted, NEW w \in Windows, NEW job, OneJob(w, job), job # None,
           UNCHANGED erased, NEW n \in Nat, n <= AttemptLimit,
           charged' = [t \in Tasks |-> IF t = Task[w] THEN n ELSE charged[t]],
           job.attempts <= n,
           \A v \in JobsOf(Task[w]) \ {w} : jobs[v].attempts <= n,
           \/ n = 0 \/ job.attempts = n
           \/ \E v \in JobsOf(Task[w]) \ {w} : jobs[v].attempts = n
    PROVE  Counted'
<1>1. \A v \in Windows : jobs'[v] = IF v = w THEN job ELSE jobs[v]
  BY DEF OneJob
<1>2. charged' = [t \in Tasks |-> charged'[t]]
      /\ \A t \in Tasks : charged'[t] = IF t = Task[w] THEN n ELSE charged[t]
  OBVIOUS
<1>3. ASSUME NEW t \in Tasks \ erased PROVE IsCount(t, charged[t])' /\ charged'[t] <= AttemptLimit
  <2>1. CASE t = Task[w]
    <3>1. JobsOf(t)' = JobsOf(t) \cup {w}
      BY <1>1, <2>1 DEF JobsOf, WindowsOf
    <3>2. charged'[t] = n
      BY <1>2, <2>1
    <3>3. \A v \in JobsOf(t)' : jobs'[v].attempts <= n
      BY <1>1, <2>1, <3>1 DEF JobsOf, WindowsOf
    <3>4. n = 0 \/ \E v \in JobsOf(t)' : jobs'[v].attempts = n
      BY <1>1, <2>1, <3>1 DEF JobsOf, WindowsOf
    <3> QED BY <3>2, <3>3, <3>4 DEF IsCount
  <2>2. CASE t # Task[w]
    <3>1. JobsOf(t)' = JobsOf(t) /\ \A v \in JobsOf(t) : jobs'[v] = jobs[v]
      BY <1>1, <2>2 DEF JobsOf, WindowsOf
    <3>2. charged'[t] = charged[t]
      BY <1>2, <2>2
    <3> QED BY <3>1, <3>2 DEF IsCount, Counted
  <2> QED BY <2>1, <2>2
<1> QED BY <1>2, <1>3 DEF Counted
-------------------------------------------------------------------------------
(* Steps that change at most how the jobs stand: their revisions, attempts *)
(* and expiry stay, and a job that is closed stays closed.                 *)

Relabels ==
    /\ jobs' = [v \in Windows |-> jobs'[v]]
    /\ \A v \in Windows :
         \/ jobs'[v] = jobs[v]
         \/ /\ Open(v) /\ jobs'[v] \in Job
            /\ jobs'[v].revision = jobs[v].revision
            /\ jobs'[v].attempts = jobs[v].attempts
            /\ jobs'[v].expires = jobs[v].expires

Still == UNCHANGED <<clock, content, deletion, erased>>

LEMMA RelabellingKeepsData ==
    ASSUME Maps, Data, Relabels,
           UNCHANGED <<content, erased, charged>>,
           changes \cup work \cup refused \subseteq changes' \cup work' \cup refused'
    PROVE  Data'
<1>1. \A v \in Windows : (jobs'[v] = None) <=> (jobs[v] = None)
  BY NoneIsNoJob DEF Relabels, Open
<1>2. \A v \in Windows : jobs[v] # None =>
        /\ jobs'[v].attempts = jobs[v].attempts
        /\ jobs'[v].expires = jobs[v].expires
        /\ jobs'[v].revision = jobs[v].revision
  BY DEF Relabels
<1>3. \A t : JobsOf(t)' = JobsOf(t)
  BY <1>1 DEF JobsOf, WindowsOf
<1>4. JobTypes'
  BY DEF Data, JobTypes, Relabels
<1>5. SameExpiry'
  BY <1>1, <1>2 DEF Data, SameExpiry
<1>6. \A t, n : IsCount(t, n) => IsCount(t, n)'
  BY <1>2, <1>3 DEF IsCount, JobsOf, WindowsOf
<1>7. Counted'
  BY <1>6 DEF Data, Counted
<1>8. \A v \in Windows : Unseen(v)' => Unseen(v)
  BY <1>1, <1>2 DEF Unseen, Relabels, Open
<1>9. NoChangeIsForgotten'
  BY <1>8 DEF Data, NoChangeIsForgotten
<1> QED BY <1>4, <1>5, <1>7, <1>9 DEF Data

\* A run that is over has nothing in hand.
LEMMA NothingInHand ==
    ASSUME learner' = None, RunPart, clock' = clock PROVE RunPart'
BY DEF RunPart, RunTypes, PageIsOpen, ChosenIsOpen, InHand, SeenIsCurrent, DoneIsSeen

\* A transition that only changes how the job stands
LEMMA TransitionRelabels ==
    ASSUME Maps, NEW w \in Windows, Open(w), NEW job \in Job, Transition(w, job),
           job.revision = jobs[w].revision, job.attempts = jobs[w].attempts,
           job.expires = jobs[w].expires
    PROVE  /\ Relabels
           /\ \A v \in Windows : v # w => jobs'[v] = jobs[v]
<1>1. jobs' = jobs \/ jobs' = [v \in Windows |-> IF v = w THEN job ELSE jobs[v]]
  BY TransitionOfOne DEF Open
<1>2. CASE jobs' = jobs
  BY <1>2 DEF Relabels, Maps
<1>3. CASE jobs' = [v \in Windows |-> IF v = w THEN job ELSE jobs[v]]
  <2>1. \A v \in Windows : jobs'[v] = IF v = w THEN job ELSE jobs[v]
    BY <1>3
  <2> QED BY <1>3, <2>1 DEF Relabels
<1> QED BY <1>1, <1>2, <1>3

LEMMA ToStateRelabels ==
    ASSUME Maps, JobTypes, NEW w \in Windows, Open(w), NEW s \in JobStates, ToState(w, s)
    PROVE  /\ Relabels
           /\ \A v \in Windows : v # w => jobs'[v] = jobs[v]
<1> DEFINE job == [jobs[w] EXCEPT !.state = s]
<1>1. jobs[w] \in Job
  BY DEF JobTypes, Open
<1>2. /\ job \in Job /\ job.revision = jobs[w].revision
      /\ job.attempts = jobs[w].attempts /\ job.expires = jobs[w].expires
  BY <1>1 DEF Job
<1>3. Transition(w, job)
  BY DEF ToState
<1> HIDE DEF job
<1> QED BY <1>2, <1>3, TransitionRelabels

LEMMA StillRelabels == ASSUME Maps, UNCHANGED jobs PROVE Relabels
BY DEF Maps, Relabels

\* What LessonsAreOfTheMoment says of a step.
Moment ==
    /\ \A l \in lessons' \ lessons : content[l[1]] = l[2] /\ ~HasActiveDeletion
    /\ \A w \in Windows :
         jobs[w] # None /\ jobs[w].state \in Final => jobs'[w] \in {None, jobs[w]}

LEMMA RelabellingStep ==
    ASSUME Maps, JInv, Relabels, RunPart',
           UNCHANGED <<content, erased, charged>>,
           changes \cup work \cup refused \subseteq changes' \cup work' \cup refused',
           \A l \in lessons' \ lessons : content[l[1]] = l[2] /\ ~HasActiveDeletion
    PROVE  JInv' /\ Moment
<1>1. Moment
  BY DEF Moment, Relabels, Open
<1> QED BY <1>1, RelabellingKeepsData DEF JInv

LEMMA LastRelabelling ==
    ASSUME Maps, JInv, Relabels, learner' = None,
           UNCHANGED <<clock, content, erased, charged>>,
           changes \cup work \cup refused \subseteq changes' \cup work' \cup refused',
           \A l \in lessons' \ lessons : content[l[1]] = l[2] /\ ~HasActiveDeletion
    PROVE  JInv' /\ Moment
BY NothingInHand, RelabellingStep DEF JInv
-------------------------------------------------------------------------------
(* The processes around the learner *)

LEMMA OutsideKeeps == ASSUME IInv, JInv, Tick \/ Toggle \/ UNCHANGED vars PROVE JInv' /\ Moment
<1>1. UNCHANGED <<content, changes, work, jobs, lessons, deletion, erased, learner, charged,
                  refused>>
  BY DEF Tick, Toggle, vars, sourceVars, historyVars, boundVars
<1>2. clock' \in Nat
  BY DEF Tick, Toggle, vars, JInv, RunPart, RunTypes
<1>3. RunPart'
  BY <1>1, <1>2 DEF JInv, RunPart, RunTypes, PageIsOpen, ChosenIsOpen, InHand, SeenIsCurrent,
     DoneIsSeen, Open, Unseen, JobsOf, WindowsOf
<1> QED BY <1>1, <1>3, StillRelabels, RelabellingStep DEF IInv

LEMMA CaptureKeeps ==
    ASSUME IInv, JInv, NEW w \in Windows, Capture(w) PROVE JInv' /\ Moment
<1>1. /\ content' = [content EXCEPT ![w] = @ + 1] /\ changes' = changes \cup {w}
      /\ UNCHANGED <<work, jobs, lessons, erased, learner, charged, refused, clock>>
  BY DEF Capture, historyVars
<1>2. \A v \in Windows : content'[v] = IF v = w THEN content[w] + 1 ELSE content[v]
  BY <1>1 DEF IInv, Maps
<1>3. JobTypes'
  BY <1>1, <1>2 DEF JInv, Data, JobTypes
<1>4. SameExpiry' /\ Counted'
  BY <1>1 DEF JInv, Data, SameExpiry, Counted, IsCount, JobsOf, WindowsOf
<1>5. \A v \in Windows : Unseen(v)' => v = w \/ Unseen(v)
  BY <1>1, <1>2 DEF Unseen
<1>6. NoChangeIsForgotten'
  BY <1>1, <1>5 DEF JInv, Data, NoChangeIsForgotten
<1>7. RunTypes' /\ PageIsOpen' /\ ChosenIsOpen' /\ InHand'
  BY <1>1 DEF JInv, RunPart, RunTypes, PageIsOpen, ChosenIsOpen, InHand, Open, JobsOf, WindowsOf
<1>8. SeenIsCurrent'
  BY <1>1, <1>2 DEF IInv, PageIsThere, JInv, RunPart, SeenIsCurrent
<1>9. DoneIsSeen'
  <2>1. CASE learner # None /\ learner.window = w
    BY <1>1, <2>1 DEF DoneIsSeen
  <2>2. CASE learner # None /\ learner.window # w
    <3>1. Unseen(learner.window)' => Unseen(learner.window)
      BY <1>1, <2>2 DEF Unseen, IInv, Maps
    <3> QED BY <1>1, <3>1 DEF JInv, RunPart, DoneIsSeen
  <2> QED BY <1>1, <2>1, <2>2 DEF DoneIsSeen
<1>10. Moment
  BY <1>1 DEF Moment
<1> QED BY <1>3, <1>4, <1>6, <1>7, <1>8, <1>9, <1>10 DEF JInv, Data, RunPart

LEMMA DeletionStepsKeep ==
    ASSUME IInv, JInv, (\E t \in Tasks : BeginDeletion(t)) \/ Drain \/ CompleteDeletion
    PROVE  JInv' /\ Moment
<1>1. UNCHANGED <<content, changes, work, jobs, lessons, erased, learner, charged, refused, clock>>
  BY DEF BeginDeletion, Drain, CompleteDeletion, sourceVars, historyVars
<1>2. RunPart'
  BY <1>1 DEF JInv, RunPart, RunTypes, PageIsOpen, ChosenIsOpen, InHand, SeenIsCurrent,
     DoneIsSeen, Open, Unseen, JobsOf, WindowsOf
<1> QED BY <1>1, <1>2, StillRelabels, RelabellingStep DEF IInv

LEMMA EraseKeeps == ASSUME IInv, JInv, Erase PROVE JInv' /\ Moment
<1>1. learner' = None
  BY DEF Erase, IInv, DrainedAlone
<1>2. /\ content' = [w \in Windows |-> IF Task[w] = deletion.task THEN 0 ELSE content[w]]
      /\ jobs' = [w \in Windows |-> IF Task[w] = deletion.task THEN None ELSE jobs[w]]
      /\ changes' = {w \in changes : Task[w] # deletion.task}
      /\ work' = {w \in work : Task[w] # deletion.task}
      /\ erased' = erased \cup {deletion.task}
      /\ UNCHANGED <<charged, refused, clock>>
      /\ lessons' \subseteq lessons
  BY DEF Erase, WindowsOf, IInv, Maps
<1>3. \A w \in Windows : IF Task[w] = deletion.task THEN content'[w] = 0 /\ jobs'[w] = None
                         ELSE content'[w] = content[w] /\ jobs'[w] = jobs[w]
  BY <1>2
<1>4. JobTypes' /\ SameExpiry'
  BY <1>3 DEF JInv, Data, JobTypes, SameExpiry
<1>5. ASSUME NEW t \in Tasks \ erased'
      PROVE  IsCount(t, charged[t])' /\ charged'[t] <= AttemptLimit
  <2>1. t \in Tasks \ erased /\ t # deletion.task
    BY <1>2
  <2>2. JobsOf(t)' = JobsOf(t) /\ \A w \in JobsOf(t) : jobs'[w] = jobs[w]
    BY <1>3, <2>1 DEF JobsOf, WindowsOf
  <2> QED BY <1>2, <2>1, <2>2 DEF JInv, Data, Counted, IsCount
<1>6. Counted'
  BY <1>2, <1>5 DEF JInv, Data, Counted
<1>7. \A w \in Windows : Unseen(w)' => Unseen(w) /\ Task[w] # deletion.task
  BY <1>3 DEF Unseen
<1>8. NoChangeIsForgotten'
  BY <1>2, <1>7 DEF JInv, Data, NoChangeIsForgotten
<1>9. Moment
  BY <1>2, <1>3 DEF Moment
<1> QED BY <1>1, <1>2, <1>4, <1>6, <1>8, <1>9, NothingInHand DEF JInv, Data

LEMMA DieKeeps == ASSUME IInv, JInv, Die PROVE JInv' /\ Moment
<1>1. /\ learner' = None
      /\ UNCHANGED <<clock, content, erased, charged, changes, work, refused, lessons, jobs>>
  BY DEF Die, Stop
<1> QED BY <1>1, StillRelabels, LastRelabelling DEF IInv
-------------------------------------------------------------------------------
(* The run before it has a job *)

LEMMA StartRunKeeps == ASSUME IInv, JInv, StartRun PROVE JInv' /\ Moment
<1>1. learner' = [pc |-> "maintain", now |-> clock, left |-> MaintenanceDue(clock),
                  seen |-> content, window |-> None, before |-> 0, reviewed |-> FALSE]
  BY DEF StartRun
<1>2. UNCHANGED <<clock, content, changes, work, jobs, lessons, erased, charged, refused>>
  BY DEF StartRun, outside
<1>3. \A w \in MaintenanceDue(clock) : Open(w)
  BY DEF MaintenanceDue, Expired, Overdue, Open, Final
<1>4. PageIsOpen'
  BY <1>1, <1>2, <1>3 DEF PageIsOpen, Open
<1>5. RunTypes' /\ ChosenIsOpen' /\ InHand' /\ SeenIsCurrent' /\ DoneIsSeen'
  BY <1>1, <1>2 DEF JInv, RunPart, RunTypes, ChosenIsOpen, InHand, SeenIsCurrent, DoneIsSeen, Chosen
<1> QED BY <1>2, <1>4, <1>5, StillRelabels, RelabellingStep DEF IInv, RunPart

\* The jobs of a page are open until the run has dealt with each.
LEMMA PageStepsKeep ==
    ASSUME IInv, JInv, NEW w \in Windows, Maintain(w) \/ Evidence(w) \/ Qualify(w)
    PROVE  JInv' /\ Moment
<1>1. /\ learner # None /\ learner.pc \in {"maintain", "evidence"} /\ w \in learner.left
      /\ learner' = None \/ learner' = [learner EXCEPT !.left = @ \ {w}]
  BY DEF Maintain, Evidence, Qualify, At, Done, Stop
<1>2. UNCHANGED <<clock, content, changes, work, lessons, erased, charged, refused>>
  BY DEF Maintain, Evidence, Qualify, outside
<1>3. Open(w)
  BY <1>1 DEF JInv, RunPart, PageIsOpen
<1>4. Relabels /\ \A v \in Windows : v # w => jobs'[v] = jobs[v]
  <2>1. CASE Maintain(w)
    <3>1. PICK s \in {"archived", "failed", "pending"} : ToState(w, s)
      BY <2>1 DEF Maintain
    <3>2. s \in JobStates
      BY DEF JobStates, Live, Final
    <3> QED BY <1>3, <3>1, <3>2, ToStateRelabels DEF IInv, JInv, Data
  <2>2. CASE Evidence(w)
    <3>1. PICK s \in {"cancelled", "superseded", "evaluated", "waiting_evidence"} : ToState(w, s)
      BY <2>2 DEF Evidence, Stale
    <3>2. s \in JobStates
      BY DEF JobStates, Live, Final
    <3> QED BY <1>3, <3>1, <3>2, ToStateRelabels DEF IInv, JInv, Data
  <2>3. CASE Qualify(w)
    <3>1. UNCHANGED jobs \/ \E s \in {"evaluated", "waiting_evidence"} : ToState(w, s)
      BY <2>3 DEF Qualify
    <3>2. {"evaluated", "waiting_evidence"} \subseteq JobStates
      BY DEF JobStates, Live
    <3>3. CASE UNCHANGED jobs
      BY <3>3, StillRelabels DEF IInv
    <3>4. CASE \E s \in {"evaluated", "waiting_evidence"} : ToState(w, s)
      BY <1>3, <3>2, <3>4, ToStateRelabels DEF IInv, JInv, Data
    <3> QED BY <3>1, <3>3, <3>4
  <2> QED BY <2>1, <2>2, <2>3
<1>5. CASE learner' = None
  BY <1>2, <1>4, <1>5, LastRelabelling DEF IInv
<1>6. CASE learner' = [learner EXCEPT !.left = @ \ {w}]
  <2>1. /\ learner'.pc = learner.pc /\ learner'.left = learner.left \ {w}
        /\ learner'.now = learner.now /\ learner'.before = learner.before
    BY <1>1, <1>6 DEF IInv, RunForm
  <2>2. PageIsOpen'
    BY <1>1, <1>4, <2>1 DEF IInv, PageIsThere, JInv, RunPart, PageIsOpen, Open
  <2>3. RunTypes' /\ ChosenIsOpen' /\ InHand' /\ SeenIsCurrent' /\ DoneIsSeen'
    BY <1>1, <1>2, <2>1
    DEF JInv, RunPart, RunTypes, ChosenIsOpen, InHand, SeenIsCurrent, DoneIsSeen, Chosen
  <2> QED BY <1>2, <1>4, <2>2, <2>3, RelabellingStep DEF IInv, RunPart
<1> QED BY <1>1, <1>5, <1>6

LEMMA ReadEvidenceKeeps == ASSUME IInv, JInv, ReadEvidence PROVE JInv' /\ Moment
<1>1. learner # None /\ learner' = [learner EXCEPT !.pc = "evidence",
                                       !.left = EvidenceDue(learner.now)]
  BY DEF ReadEvidence, At, Page
<1>2. UNCHANGED <<clock, content, changes, work, jobs, lessons, erased, charged, refused>>
  BY DEF ReadEvidence, outside
<1>3. \A w \in EvidenceDue(learner.now) : Open(w)
  BY DEF EvidenceDue, Open, Final
<1>4. /\ learner'.pc = "evidence" /\ learner'.left = EvidenceDue(learner.now)
      /\ learner'.now = learner.now /\ learner'.before = learner.before
  BY <1>1 DEF IInv, RunForm
<1>5. PageIsOpen'
  BY <1>2, <1>3, <1>4 DEF PageIsOpen, Open
<1>6. RunTypes' /\ ChosenIsOpen' /\ InHand' /\ SeenIsCurrent' /\ DoneIsSeen'
  BY <1>1, <1>2, <1>4
  DEF JInv, RunPart, RunTypes, ChosenIsOpen, InHand, SeenIsCurrent, DoneIsSeen, Chosen
<1> QED BY <1>2, <1>5, <1>6, StillRelabels, RelabellingStep DEF IInv, RunPart

\* The page is read with the events of its windows, and what changes from now on
\* is marked.
LEMMA ReadWorkKeeps == ASSUME IInv, JInv, ReadWork PROVE JInv' /\ Moment
<1>1. UNCHANGED <<clock, content, jobs, lessons, erased, charged, refused>>
  BY DEF ReadWork, outside
<1>2. changes \cup work \subseteq changes' \cup work'
  BY DEF ReadWork
<1>3. learner # None /\ learner.pc = "evidence"
  BY DEF ReadWork, At
<1>4. /\ learner'.pc = "schedule" /\ learner'.now = learner.now /\ learner'.before = learner.before
      /\ HasActiveDeletion => learner'.left = {}
  BY <1>3 DEF ReadWork, Page, IInv, RunForm
<1>5. RunTypes' /\ PageIsOpen' /\ ChosenIsOpen' /\ InHand' /\ DoneIsSeen'
  BY <1>1, <1>3, <1>4 DEF JInv, RunPart, RunTypes, PageIsOpen, ChosenIsOpen, InHand, DoneIsSeen, Chosen
<1>6. SeenIsCurrent'
  <2>1. CASE HasActiveDeletion
    BY <1>4, <2>1 DEF SeenIsCurrent
  <2>2. CASE ~HasActiveDeletion
    <3>1. learner'.seen = content
      BY <1>3, <2>2 DEF ReadWork, IInv, RunForm
    <3> QED BY <1>1, <3>1 DEF SeenIsCurrent
  <2> QED BY <2>1, <2>2
<1> QED BY <1>1, <1>2, <1>5, <1>6, StillRelabels, RelabellingStep DEF IInv, RunPart

\* The earliest expiry of a task's jobs is that of each of them.
LEMMA ExpiryIsKept ==
    ASSUME JInv, NEW w \in Windows, NEW e \in Expiries(w)
    PROVE  e \in Nat /\ \A v \in JobsOf(Task[w]) : e = jobs[v].expires
<1>1. CASE JobsOf(Task[w]) = {}
  BY <1>1, BudgetAssumption DEF Expiries, JInv, RunPart, RunTypes
<1>2. CASE JobsOf(Task[w]) # {}
  <2> DEFINE S == {jobs[v].expires : v \in JobsOf(Task[w])}
  <2>1. PICK u \in JobsOf(Task[w]) : TRUE
    BY <1>2
  <2>2. \A v \in JobsOf(Task[w]) : jobs[v].expires = jobs[u].expires
    BY <2>1 DEF JobsOf, WindowsOf, JInv, Data, SameExpiry
  <2>3. S = {jobs[u].expires} /\ jobs[u].expires \in Nat
    BY <2>1, <2>2 DEF JobsOf, WindowsOf, JInv, Data, JobTypes, Job
  <2>4. e = Min(S)
    BY <1>2 DEF Expiries
  <2> HIDE DEF S
  <2>5. \E x \in S : \A y \in S : x <= y
    BY <2>3
  <2>6. Min(S) \in S
    BY <2>5, Zenon DEF Min
  <2> QED BY <2>2, <2>3, <2>4, <2>6
<1> QED BY <1>1, <1>2

LEMMA CountOfTask ==
    ASSUME IInv, JInv, NEW w \in Windows, ~Gone(w)
    PROVE  /\ Task[w] \in Tasks \ erased
           /\ AttemptCount(Task[w]) = charged[Task[w]]
           /\ IsCount(Task[w], charged[Task[w]]) /\ charged[Task[w]] <= AttemptLimit
<1>1. Task[w] \in Tasks \ erased
  BY TaskAssumption DEF Gone
<1> QED BY <1>1, CountIsMax DEF JInv, Data, Counted

\* The steps that make or count a job.
LEMMA OneJobStep ==
    ASSUME Maps, JInv, NEW w \in Windows, ~Gone(w), NEW job, OneJob(w, job),
           Task[w] \in Tasks, ~Closed(w),
           UNCHANGED <<content, changes, work, erased>>, refused \subseteq refused',
           NEW n \in Nat, n <= AttemptLimit,
           charged' = [t \in Tasks |-> IF t = Task[w] THEN n ELSE charged[t]],
           job.attempts <= n,
           \A v \in JobsOf(Task[w]) \ {w} : jobs[v].attempts <= n,
           \/ n = 0 \/ job.attempts = n
           \/ \E v \in JobsOf(Task[w]) \ {w} : jobs[v].attempts = n,
           \A l \in lessons' \ lessons : content[l[1]] = l[2] /\ ~HasActiveDeletion
    PROVE  Data' /\ Moment
<1>1. JobTypes' /\ job # None
  BY OneJobTypes DEF JInv, Data
<1>2. SameExpiry'
  BY OneJobExpires DEF JInv, Data
<1>3. NoChangeIsForgotten'
  BY <1>1, OneJobIsMarked DEF JInv, Data
<1>4. Counted'
  BY <1>1, OneJobCounts DEF JInv, Data
<1>5. Moment
  <2>1. \A v \in Windows : jobs'[v] = IF v = w THEN job ELSE jobs[v]
    BY DEF OneJob
  <2> QED BY <2>1 DEF Moment, Closed
<1> QED BY <1>1, <1>2, <1>3, <1>4, <1>5 DEF Data

LEMMA ScheduleKeeps ==
    ASSUME IInv, JInv, NEW w \in Windows, Schedule(w) PROVE JInv' /\ Moment
<1>1. /\ learner # None /\ learner.pc = "schedule" /\ w \in learner.left /\ ~Gone(w)
      /\ learner' = [learner EXCEPT !.pc = "complete", !.window = w, !.left = @ \ {w}]
      /\ UNCHANGED <<clock, content, changes, work, erased, charged>>
  BY DEF Schedule, outside, At, IInv, PageIsThere
<1>2. /\ learner'.pc = "complete" /\ learner'.window = w /\ learner'.left = learner.left \ {w}
      /\ learner'.now = learner.now /\ learner'.before = learner.before
      /\ learner'.seen = learner.seen
  BY <1>1 DEF IInv, RunForm
<1>3. RunTypes' /\ PageIsOpen' /\ ChosenIsOpen' /\ InHand' /\ SeenIsCurrent'
  BY <1>1, <1>2
  DEF JInv, RunPart, RunTypes, PageIsOpen, ChosenIsOpen, InHand, SeenIsCurrent, Chosen
<1> DEFINE refusal == \/ HasActiveDeletion \/ content[w] # learner.seen[w]
                      \/ (jobs[w] # None /\ jobs[w].revision = content[w])
                      \/ Closed(w)
<1>4. CASE refusal
  <2>1. /\ UNCHANGED <<jobs, lessons>>
        /\ refused' = IF HasActiveDeletion THEN refused \cup {w} ELSE refused
    BY <1>4 DEF Schedule
  <2>2. Unseen(w)' => Unseen(w)
    BY <1>1, <2>1 DEF Unseen
  <2>3. Unseen(w) => HasActiveDeletion \/ content[w] # learner.seen[w]
    BY <1>4 DEF Unseen, Closed
  <2>4. content[w] # learner.seen[w] => w \in changes
    BY <1>1 DEF JInv, RunPart, SeenIsCurrent
  <2>5. DoneIsSeen'
    BY <1>1, <1>2, <2>1, <2>2, <2>3, <2>4 DEF DoneIsSeen
  <2> QED BY <1>1, <1>3, <2>1, <2>5, StillRelabels, RelabellingStep DEF IInv, RunPart
<1>5. CASE ~refusal
  <2>0. PICK keep \in BOOLEAN, e \in Expiries(w) : \E s \in FirstStates(w, keep) :
          /\ jobs' = [jobs EXCEPT ![w] =
                [revision |-> content[w], state |-> s, attempts |-> CarriedAttempts(w),
                 expires |-> e, deadline |-> 0, tooLarge |-> FALSE,
                 retryAfter |-> IF s = "paused" THEN jobs[w].retryAfter ELSE 0]]
          /\ lessons' = IF keep THEN lessons \cup {<<w, content[w]>>} ELSE lessons
          /\ UNCHANGED refused
    BY <1>5 DEF Schedule
  <2>1. PICK s \in FirstStates(w, keep) :
          /\ jobs' = [jobs EXCEPT ![w] =
                [revision |-> content[w], state |-> s, attempts |-> CarriedAttempts(w),
                 expires |-> e, deadline |-> 0, tooLarge |-> FALSE,
                 retryAfter |-> IF s = "paused" THEN jobs[w].retryAfter ELSE 0]]
          /\ lessons' = IF keep THEN lessons \cup {<<w, content[w]>>} ELSE lessons
          /\ UNCHANGED refused
    BY <2>0
  <2> DEFINE n == charged[Task[w]]
             r == IF s = "paused" THEN jobs[w].retryAfter ELSE 0
             job == [revision |-> content[w], state |-> s, attempts |-> n, expires |-> e,
                     deadline |-> 0, tooLarge |-> FALSE, retryAfter |-> r]
  <2>2. /\ Task[w] \in Tasks /\ CarriedAttempts(w) = n /\ n <= AttemptLimit
        /\ IsCount(Task[w], n)
    BY <1>1, CountOfTask DEF CarriedAttempts
  <2>3. n \in Nat /\ \A v \in JobsOf(Task[w]) : jobs[v].attempts <= n
    BY <2>2 DEF IsCount
  <2>4. e \in Nat /\ \A v \in JobsOf(Task[w]) : e = jobs[v].expires
    BY ExpiryIsKept
  <2>5. s \in JobStates /\ r \in Int
    <3>1. s = "paused" => jobs[w] # None
      BY DEF FirstStates
    <3>2. r \in Int
      BY <3>1 DEF JInv, Data, JobTypes, Job
    <3> QED BY <3>2 DEF FirstStates, JobStates, Live
  <2>6. content[w] \in Nat
    BY DEF JInv, Data, JobTypes
  <2>7. /\ job \in Job /\ job.revision = content[w] /\ job.attempts = n /\ job.expires = e
    BY <2>3, <2>4, <2>5, <2>6 DEF Job
  <2>8. jobs' = [v \in Windows |-> IF v = w THEN job ELSE jobs[v]]
    BY <2>1, <2>2 DEF IInv, Maps
  <2>9. charged' = [t \in Tasks |-> IF t = Task[w] THEN n ELSE charged[t]]
    BY <1>1 DEF JInv, Data, Counted
  <2>10. \A l \in lessons' \ lessons : content[l[1]] = l[2] /\ ~HasActiveDeletion
    BY <1>5, <2>1
  <2>11. ~Closed(w) /\ refused \subseteq refused'
    BY <1>5, <2>1
  <2> HIDE DEF n, r, job, refusal
  <2>12. OneJob(w, job)
    BY <2>4, <2>7, <2>8 DEF OneJob
  <2>13. Data' /\ Moment
    BY <1>1, <2>2, <2>3, <2>7, <2>9, <2>10, <2>11, <2>12, OneJobStep DEF IInv
  <2>14. DoneIsSeen'
    <3>1. jobs'[w] = job
      BY <2>8
    <3>2. ~Unseen(w)'
      BY <1>1, <2>7, <2>12, <3>1, OneJobTypes DEF Unseen, JInv, Data
    <3> QED BY <1>2, <3>2 DEF DoneIsSeen
  <2> QED BY <1>3, <2>13, <2>14 DEF JInv, RunPart
<1> QED BY <1>4, <1>5

\* Work leaves the list when a job has its sources, or they are marked again.
LEMMA CompleteKeeps == ASSUME IInv, JInv, Complete PROVE JInv' /\ Moment
<1>1. /\ learner # None /\ learner.pc = "complete"
      /\ work' = work \ {learner.window} /\ learner' = [learner EXCEPT !.pc = "schedule"]
      /\ UNCHANGED <<clock, content, changes, jobs, lessons, erased, charged, refused>>
  BY DEF Complete, outside, At, Goto
<1>2. /\ learner'.pc = "schedule" /\ learner'.left = learner.left /\ learner'.now = learner.now
      /\ learner'.before = learner.before /\ learner'.seen = learner.seen
  BY <1>1 DEF IInv, RunForm
<1>3. JobTypes' /\ SameExpiry' /\ Counted'
  BY <1>1 DEF JInv, Data, JobTypes, SameExpiry, Counted, IsCount, JobsOf, WindowsOf
<1>4. NoChangeIsForgotten'
  BY <1>1 DEF JInv, Data, RunPart, DoneIsSeen, NoChangeIsForgotten, Unseen
<1>5. RunTypes' /\ PageIsOpen' /\ ChosenIsOpen' /\ InHand' /\ SeenIsCurrent' /\ DoneIsSeen'
  BY <1>1, <1>2 DEF JInv, RunPart, RunTypes, PageIsOpen, ChosenIsOpen, InHand, SeenIsCurrent,
     DoneIsSeen, Chosen
<1>6. Moment
  BY <1>1 DEF Moment
<1> QED BY <1>3, <1>4, <1>5, <1>6 DEF JInv, Data, RunPart
-------------------------------------------------------------------------------
(* The run with a job *)

\* A step of the run within its choice, that changes no job.
LEMMA ChoiceGoesOn ==
    ASSUME IInv, JInv, learner # None, ChosenIsOpen', InHand', learner'.now = learner.now,
           learner'.before \in Nat, learner'.pc \in Chosen,
           UNCHANGED <<clock, content, changes, work, jobs, lessons, erased, charged, refused>>
    PROVE  JInv' /\ Moment
<1>1. RunTypes' /\ PageIsOpen' /\ SeenIsCurrent' /\ DoneIsSeen'
  BY DEF JInv, RunPart, RunTypes, PageIsOpen, SeenIsCurrent, DoneIsSeen, Chosen
<1> QED BY <1>1, StillRelabels, RelabellingStep DEF IInv, RunPart

LEMMA TomorrowIsATime == ASSUME NEW n \in Nat PROVE Tomorrow(n) \in Int
<1>1. Day \in Nat /\ Day > 0
  BY BudgetAssumption
<1>2. n \div Day \in Int
  BY <1>1
<1> QED BY <1>1, <1>2 DEF Tomorrow

LEMMA PickKeeps == ASSUME IInv, JInv, Pick PROVE JInv' /\ Moment
<1>1. /\ learner # None
      /\ UNCHANGED <<clock, content, changes, work, lessons, erased, charged, refused>>
  BY DEF Pick, At, outside
<1>2. \A w \in InferenceDue(learner.now) : w \in Windows /\ Open(w)
  BY DEF InferenceDue, Open, Final
<1>3. CASE learner' = None /\ UNCHANGED jobs
  BY <1>1, <1>3, StillRelabels, LastRelabelling DEF IInv
<1>4. ASSUME NEW w \in InferenceDue(learner.now), ToState(w, Stale(w)), learner' = None
      PROVE  JInv' /\ Moment
  <2>1. Stale(w) \in JobStates
    BY DEF Stale, JobStates, Final
  <2>2. Relabels
    BY <1>2, <1>4, <2>1, ToStateRelabels DEF IInv, JInv, Data
  <2> QED BY <1>1, <1>4, <2>2, LastRelabelling DEF IInv
<1>5. ASSUME NEW w \in InferenceDue(learner.now), UNCHANGED jobs,
             learner' = [learner EXCEPT !.pc = "prepare", !.window = w]
      PROVE  JInv' /\ Moment
  <2>1. /\ learner'.pc = "prepare" /\ learner'.window = w /\ learner'.now = learner.now
        /\ learner'.before = learner.before
    BY <1>1, <1>5 DEF IInv, RunForm
  <2>2. ChosenIsOpen' /\ InHand'
    BY <1>2, <1>5, <2>1 DEF ChosenIsOpen, InHand, Open
  <2> QED BY <1>1, <1>5, <2>1, <2>2, ChoiceGoesOn DEF JInv, RunPart, RunTypes, Chosen
<1>6. \/ learner' = None /\ UNCHANGED jobs
      \/ \E w \in InferenceDue(learner.now) :
            \/ UNCHANGED jobs /\ learner' = [learner EXCEPT !.pc = "prepare", !.window = w]
            \/ ToState(w, Stale(w)) /\ learner' = None
  BY Zenon DEF Pick, Stop
<1> QED BY <1>3, <1>4, <1>5, <1>6

\* What is known of the window of a run
LEMMA WindowInHand ==
    ASSUME IInv, JInv, learner # None, learner.pc \in Chosen
    PROVE  /\ learner.window \in Windows /\ ~Gone(learner.window) /\ Open(learner.window)
           /\ jobs[learner.window] \in Job /\ ~Closed(learner.window)
           /\ Task[learner.window] \in Tasks
<1>1. learner.window \in Windows /\ ~Gone(learner.window) /\ Open(learner.window)
  BY DEF IInv, ChosenIsThere, JInv, RunPart, ChosenIsOpen
<1> QED BY <1>1, TaskAssumption DEF JInv, Data, JobTypes, Open, Closed

LEMMA PrepareKeeps == ASSUME IInv, JInv, Prepare PROVE JInv' /\ Moment
<1> DEFINE w == learner.window
           n == AttemptCount(Task[w])
<1>1. /\ learner # None /\ learner.pc = "prepare"
      /\ UNCHANGED <<clock, content, changes, work, lessons, erased, charged, refused>>
  BY DEF Prepare, At, outside
<1>2. /\ w \in Windows /\ ~Gone(w) /\ Open(w) /\ jobs[w] \in Job /\ ~Closed(w)
      /\ Task[w] \in Tasks
  BY <1>1, WindowInHand DEF Chosen
<1>3. n = charged[Task[w]] /\ IsCount(Task[w], n) /\ n <= AttemptLimit
  BY <1>2, CountOfTask
<1> HIDE DEF n
<1>4. CASE learner' = None /\ UNCHANGED jobs
  BY <1>1, <1>4, StillRelabels, LastRelabelling DEF IInv
<1>5. CASE /\ learner' = None
           /\ Transition(w, [jobs[w] EXCEPT !.state = "failed", !.tooLarge = TRUE])
  <2> DEFINE job == [jobs[w] EXCEPT !.state = "failed", !.tooLarge = TRUE]
  <2>1. /\ job \in Job /\ job.revision = jobs[w].revision
        /\ job.attempts = jobs[w].attempts /\ job.expires = jobs[w].expires
    BY <1>2 DEF Job, JobStates, Live
  <2> HIDE DEF job
  <2>2. Transition(w, job)
    BY <1>5 DEF job
  <2>3. Relabels
    BY <1>2, <2>1, <2>2, TransitionRelabels DEF IInv
  <2> QED BY <1>1, <1>5, <2>3, LastRelabelling DEF IInv
<1>6. CASE /\ learner' = None
           /\ Transition(w, [jobs[w] EXCEPT !.state = "failed", !.attempts = n])
  <2> DEFINE job == [jobs[w] EXCEPT !.state = "failed", !.attempts = n]
  <2>1. n \in Nat /\ \A v \in JobsOf(Task[w]) : jobs[v].attempts <= n
    BY <1>3 DEF IsCount
  <2>2. /\ job \in Job /\ job.revision = jobs[w].revision
        /\ job.attempts = n /\ job.expires = jobs[w].expires
    BY <1>2, <2>1 DEF Job, JobStates, Live
  <2> HIDE DEF job
  <2>3. \/ jobs' = jobs
        \/ jobs' = [v \in Windows |-> IF v = w THEN job ELSE jobs[v]]
    BY <1>2, <1>6, TransitionOfOne DEF Open, job, IInv
  <2>4. CASE jobs' = jobs
    BY <1>1, <1>6, <2>4, StillRelabels, LastRelabelling DEF IInv
  <2>5. CASE jobs' = [v \in Windows |-> IF v = w THEN job ELSE jobs[v]]
    <3>1. \A v \in JobsOf(Task[w]) : job.expires = jobs[v].expires
      BY <1>2, <2>2 DEF JInv, Data, SameExpiry, JobsOf, WindowsOf, Open
    <3>2. OneJob(w, job)
      BY <1>2, <2>2, <2>5, <3>1 DEF OneJob
    <3>3. charged' = [t \in Tasks |-> IF t = Task[w] THEN n ELSE charged[t]]
      BY <1>1, <1>3 DEF JInv, Data, Counted
    <3>4. Data' /\ Moment
      BY <1>1, <1>2, <1>3, <2>1, <2>2, <3>2, <3>3, OneJobStep DEF IInv
    <3> QED BY <1>1, <1>6, <3>4, NothingInHand DEF JInv
  <2> QED BY <2>3, <2>4, <2>5
<1>7. CASE /\ n < AttemptLimit /\ UNCHANGED jobs
           /\ learner' = [learner EXCEPT !.pc = "reserve", !.before = n]
  <2>1. /\ learner'.pc = "reserve" /\ learner'.before = n /\ learner'.window = w
        /\ learner'.now = learner.now
    BY <1>1, <1>7 DEF IInv, RunForm
  <2>2. ChosenIsOpen' /\ InHand'
    BY <1>1, <1>2, <1>3, <1>7, <2>1 DEF ChosenIsOpen, InHand, Open
  <2> QED BY <1>1, <1>3, <1>7, <2>1, <2>2, ChoiceGoesOn DEF IsCount, Chosen
<1> QED BY <1>4, <1>5, <1>6, <1>7, Zenon DEF Prepare, Stop, n

LEMMA ReserveKeeps == ASSUME IInv, JInv, Reserve PROVE JInv' /\ Moment
<1> DEFINE w == learner.window
           job == [jobs[w] EXCEPT !.state = "paused", !.retryAfter = Tomorrow(learner.now)]
<1>1. /\ learner # None /\ learner.pc = "reserve"
      /\ UNCHANGED <<clock, content, changes, work, lessons, erased, charged, refused>>
  BY DEF Reserve, At, outside
<1>2. w \in Windows /\ Open(w) /\ jobs[w] \in Job
  BY <1>1, WindowInHand DEF Chosen
<1>3. CASE Reservable
  <2>1. UNCHANGED jobs /\ learner' = [learner EXCEPT !.pc = "start"]
    BY <1>3 DEF Reserve, Goto
  <2>2. /\ learner'.pc = "start" /\ learner'.before = learner.before
        /\ learner'.window = w /\ learner'.now = learner.now
    BY <1>1, <2>1 DEF IInv, RunForm
  <2>3. ChosenIsOpen' /\ InHand'
    BY <1>1, <1>2, <2>1, <2>2 DEF ChosenIsOpen, JInv, RunPart, InHand, Open
  <2> QED BY <1>1, <2>1, <2>2, <2>3, ChoiceGoesOn DEF JInv, RunPart, RunTypes, Chosen
<1>4. CASE ~Reservable
  <2>1. learner' = None /\ Transition(w, job)
    BY <1>4 DEF Reserve, Stop
  <2>2. Tomorrow(learner.now) \in Int
    BY <1>1, TomorrowIsATime DEF JInv, RunPart, RunTypes
  <2>3. /\ job \in Job /\ job.revision = jobs[w].revision
        /\ job.attempts = jobs[w].attempts /\ job.expires = jobs[w].expires
    BY <1>2, <2>2 DEF Job, JobStates, Live
  <2> HIDE DEF job
  <2>4. Relabels
    BY <1>2, <2>1, <2>3, TransitionRelabels DEF IInv
  <2> QED BY <1>1, <2>1, <2>4, LastRelabelling DEF IInv
<1> QED BY <1>3, <1>4

\* The attempt is counted where it is written down.
LEMMA StartKeeps == ASSUME IInv, JInv, Start PROVE JInv' /\ Moment
<1> DEFINE w == learner.window
           n == learner.before + 1
           d == learner.now + Deadline
           r == 0
           job == [jobs[w] EXCEPT !.state = "running", !.attempts = n,
                                  !.deadline = d, !.retryAfter = r]
<1>1. /\ learner # None /\ learner.pc = "start"
      /\ UNCHANGED <<clock, content, changes, work, lessons, erased, refused>>
      /\ Transition(w, job)
  BY DEF Start, At, outside
<1>2. /\ w \in Windows /\ ~Gone(w) /\ Open(w) /\ jobs[w] \in Job /\ ~Closed(w)
      /\ Task[w] \in Tasks
  BY <1>1, WindowInHand DEF Chosen
<1>3. /\ learner.before = charged[Task[w]] /\ learner.before < AttemptLimit
      /\ IsCount(Task[w], learner.before)
  BY <1>1, <1>2, CountOfTask DEF JInv, RunPart, InHand
<1>4. /\ learner.before \in Nat
      /\ \A v \in JobsOf(Task[w]) : jobs[v].attempts <= learner.before
      /\ \A v \in JobsOf(Task[w]) : jobs[v].attempts \in Nat
  BY <1>3 DEF IsCount, JInv, Data, JobTypes, Job, JobsOf, WindowsOf
<1>5. CASE HasActiveDeletion
  <2>1. learner' = None /\ UNCHANGED <<jobs, charged>>
    BY <1>1, <1>2, <1>5 DEF Start, Stop, Transition
  <2> QED BY <1>1, <2>1, StillRelabels, LastRelabelling DEF IInv
<1>6. CASE ~HasActiveDeletion
  <2>1. /\ learner' = [learner EXCEPT !.pc = "infer"]
        /\ charged' = [charged EXCEPT ![Task[w]] = @ + 1]
    BY <1>6 DEF Start, Goto
  <2>2. learner.now \in Nat /\ Deadline \in Nat /\ AttemptLimit \in Nat
    BY <1>1, BudgetAssumption DEF JInv, RunPart, RunTypes
  <2>3. n \in Nat /\ n <= AttemptLimit /\ d \in Int /\ r \in Int
    BY <1>3, <1>4, <2>2
  <2> HIDE DEF n, d, r, job
  <2>4. /\ job \in Job /\ job.revision = jobs[w].revision
        /\ job.attempts = n /\ job.expires = jobs[w].expires
        /\ job.state = "running"
    <3> DEFINE s == "running"
               j == jobs[w]
    <3>1. s \in JobStates /\ j \in Job
      BY <1>2 DEF JobStates, Live
    <3>2. job = [j EXCEPT !.state = s, !.attempts = n, !.deadline = d, !.retryAfter = r]
      BY DEF job
    <3> HIDE DEF s, j
    <3>3. /\ job \in Job /\ job.revision = j.revision /\ job.attempts = n
          /\ job.expires = j.expires /\ job.state = s
      BY <2>3, <3>1, <3>2 DEF Job
    <3>4. s = "running" /\ j = jobs[w]
      BY DEF s, j
    <3> HIDE DEF w
    <3> QED BY <3>3, <3>4, Zenon
  <2>5. charged' = [t \in Tasks |-> IF t = Task[w] THEN n ELSE charged[t]]
    <3>1. n = charged[Task[w]] + 1
      BY <1>3 DEF n
    <3>2. charged = [t \in Tasks |-> charged[t]]
      BY DEF JInv, Data, Counted
    <3> QED BY <1>2, <2>1, <3>1, <3>2
  <2>6. /\ learner'.pc = "infer" /\ learner'.before = learner.before
        /\ learner'.window = w /\ learner'.now = learner.now
    BY <1>1, <2>1 DEF IInv, RunForm
  <2>7. \A v \in JobsOf(Task[w]) \ {w} : jobs[v].attempts <= n
    BY <1>4 DEF n
  <2>8. jobs' = [v \in Windows |-> IF v = w THEN job ELSE jobs[v]]
    BY <1>1, <1>2, <1>6, TransitionOfOne DEF Open, IInv
  <2>9. \A v \in JobsOf(Task[w]) : job.expires = jobs[v].expires
    BY <1>2, <2>4 DEF JInv, Data, SameExpiry, JobsOf, WindowsOf, Open
  <2>10. OneJob(w, job)
    BY <1>2, <2>4, <2>8, <2>9 DEF OneJob
  <2>11. Data' /\ Moment
    BY <1>1, <1>2, <2>4, <2>3, <2>5, <2>7, <2>10, OneJobStep DEF IInv
  <2>12. job # None
    BY <1>1, <1>2, <2>10, OneJobTypes DEF JInv, Data
  <2>13. \A v \in Windows : jobs'[v] = IF v = w THEN job ELSE jobs[v]
    BY <2>8
  <2>14. ChosenIsOpen'
    BY <1>2, <2>4, <2>6, <2>12, <2>13 DEF ChosenIsOpen, Open, Final
  <2>15. \A v \in Windows : Task[v] = Task[w] /\ jobs'[v] # None /\ v # w =>
            v \in JobsOf(Task[w]) /\ jobs'[v] = jobs[v]
    BY <2>13 DEF JobsOf, WindowsOf
  <2>16. charged'[Task[w]] = n
    BY <1>2, <2>5
  <2>17. jobs'[w] = job
    BY <1>2, <2>13
  <2>18. \A v \in Windows : Task[v] = Task[w] /\ jobs'[v] # None /\ v # w =>
            jobs'[v].attempts <= learner.before
    BY <1>4, <2>15
  <2>19. InHand'
    BY <2>4, <2>6, <2>16, <2>17, <2>18 DEF InHand, n, JobsOf, WindowsOf
  <2>20. RunTypes' /\ PageIsOpen' /\ SeenIsCurrent' /\ DoneIsSeen'
    BY <1>1, <2>6 DEF JInv, RunPart, RunTypes, PageIsOpen, SeenIsCurrent, DoneIsSeen
  <2> QED BY <2>11, <2>14, <2>19, <2>20 DEF JInv, RunPart
<1> QED BY <1>5, <1>6

InCall == learner # None /\ learner.pc \in {"infer", "answered", "commit"}

\* The catch of the run charges the attempt or gives it back, to the job and to
\* the count alike.
LEMMA FailKeeps ==
    ASSUME IInv, JInv, InCall, NEW pause, NEW tooLarge \in BOOLEAN, Fail(pause, tooLarge),
           UNCHANGED <<clock, content, changes, work, lessons, erased, refused>>
    PROVE  JInv' /\ Moment
<1> DEFINE w == learner.window
           paused == pause # None \/ ~enabled
           later == CASE ~enabled \/ pause = "host_stopped" -> clock
                      [] pause = "daily_budget" -> Tomorrow(clock)
                      [] OTHER -> clock + 1
           s == IF ~SourcesCurrent(w) THEN Stale(w)
                ELSE IF Expired(w, clock) THEN "archived"
                ELSE IF paused THEN "paused" ELSE "failed"
           a == IF paused THEN learner.before ELSE jobs[w].attempts
           r == IF paused THEN later ELSE 0
           n == IF paused THEN learner.before ELSE charged[Task[w]]
           job == [jobs[w] EXCEPT !.state = s, !.attempts = a, !.retryAfter = r,
                                  !.tooLarge = tooLarge]
<1>1. /\ w \in Windows /\ ~Gone(w) /\ Open(w) /\ jobs[w] \in Job /\ ~Closed(w)
      /\ Task[w] \in Tasks
  BY WindowInHand DEF InCall, Chosen
<1>2. /\ charged[Task[w]] = learner.before + 1 /\ jobs[w].attempts = learner.before + 1
      /\ \A v \in JobsOf(Task[w]) \ {w} : jobs[v].attempts <= learner.before
      /\ IsCount(Task[w], charged[Task[w]]) /\ charged[Task[w]] <= AttemptLimit
  BY <1>1, CountOfTask DEF InCall, JInv, RunPart, InHand
<1>3. learner.before \in Nat /\ clock \in Nat
  BY DEF InCall, JInv, RunPart, RunTypes
<1>4. Transition(w, job) /\ learner' = None
  BY DEF Fail, Stop
<1>5. charged' = IF paused /\ ~HasActiveDeletion
                 THEN [charged EXCEPT ![Task[w]] = @ - 1] ELSE charged
  BY DEF Fail
<1>6. CASE HasActiveDeletion
  <2>1. UNCHANGED <<jobs, charged>>
    BY <1>4, <1>5, <1>6 DEF Transition
  <2> QED BY <1>4, <2>1, StillRelabels, LastRelabelling DEF IInv
<1>7. CASE ~HasActiveDeletion
  <2>1. later \in Int
    BY <1>3, TomorrowIsATime
  <2>2. s \in JobStates
    BY DEF Stale, JobStates, Live, Final
  <2>3. a \in Nat /\ r \in Int
    BY <1>2, <1>3, <2>1
  <2>4. n \in Nat /\ n <= AttemptLimit /\ a = n
    BY <1>2, <1>3, BudgetAssumption
  <2>5. charged' = [t \in Tasks |-> IF t = Task[w] THEN n ELSE charged[t]]
    BY <1>1, <1>2, <1>3, <1>5, <1>7 DEF JInv, Data, Counted
  <2>6. \A v \in JobsOf(Task[w]) \ {w} : jobs[v].attempts <= n
    <3>1. \A v \in JobsOf(Task[w]) : jobs[v].attempts \in Nat
      BY DEF JInv, Data, JobTypes, Job, JobsOf, WindowsOf
    <3> QED BY <1>2, <1>3, <3>1
  <2> HIDE DEF s, a, r, n, later, paused
  <2>7. /\ job \in Job /\ job.revision = jobs[w].revision
        /\ job.attempts = a /\ job.expires = jobs[w].expires
    BY <1>1, <2>2, <2>3 DEF Job
  <2> HIDE DEF job
  <2>8. jobs' = [v \in Windows |-> IF v = w THEN job ELSE jobs[v]]
    BY <1>1, <1>4, <1>7, TransitionOfOne DEF Open, IInv
  <2>9. \A v \in JobsOf(Task[w]) : job.expires = jobs[v].expires
    BY <1>1, <2>7 DEF JInv, Data, SameExpiry, JobsOf, WindowsOf, Open
  <2>10. OneJob(w, job)
    BY <1>1, <2>7, <2>8, <2>9 DEF OneJob
  <2>11. Data' /\ Moment
    BY <1>1, <2>4, <2>5, <2>6, <2>7, <2>10, OneJobStep DEF IInv
  <2> QED BY <1>4, <2>11, NothingInHand DEF JInv
<1> QED BY <1>6, <1>7

\* A step of the run within the call: the window, the budget and the job stay.
LEMMA CallGoesOn ==
    ASSUME IInv, JInv, InCall,
           \/ \E pc \in {"answered", "commit"} : learner' = [learner EXCEPT !.pc = pc]
           \/ learner' = [learner EXCEPT !.reviewed = TRUE],
           UNCHANGED <<clock, content, changes, work, jobs, lessons, erased, charged, refused>>
    PROVE  JInv' /\ Moment
<1>1. /\ learner'.pc \in {"infer", "answered", "commit"} /\ learner'.before = learner.before
      /\ learner'.window = learner.window /\ learner'.now = learner.now
  BY DEF InCall, IInv, RunForm
<1>2. ChosenIsOpen' /\ InHand'
  BY <1>1 DEF InCall, Chosen, JInv, RunPart, ChosenIsOpen, InHand, Open, JobsOf, WindowsOf
<1> QED BY <1>1, <1>2, ChoiceGoesOn DEF InCall, Chosen, JInv, RunPart, RunTypes

\* The run ends with its job in another state.
LEMMA CallEnds ==
    ASSUME IInv, JInv, InCall, learner' = None,
           \/ UNCHANGED jobs
           \/ \E s \in JobStates : ToState(learner.window, s),
           \A l \in lessons' \ lessons : content[l[1]] = l[2] /\ ~HasActiveDeletion,
           UNCHANGED <<clock, content, changes, work, erased, charged, refused>>
    PROVE  JInv' /\ Moment
<1>1. learner.window \in Windows /\ Open(learner.window)
  BY WindowInHand DEF InCall, Chosen
<1>2. CASE UNCHANGED jobs
  BY <1>2, StillRelabels, LastRelabelling DEF IInv
<1>3. CASE \E s \in JobStates : ToState(learner.window, s)
  BY <1>1, <1>3, ToStateRelabels, LastRelabelling DEF IInv, JInv, Data
<1> QED BY <1>2, <1>3

LEMMA ReviewKeeps == ASSUME IInv, JInv, Review PROVE JInv' /\ Moment
<1>1. /\ InCall
      /\ UNCHANGED <<clock, content, changes, work, lessons, erased, refused>>
  BY DEF Review, At, outside, InCall
<1>2. \/ UNCHANGED <<jobs, charged>> /\ learner' = [learner EXCEPT !.reviewed = TRUE]
      \/ Fail("daily_budget", FALSE)
  BY Zenon DEF Review
<1>3. CASE UNCHANGED <<jobs, charged>> /\ learner' = [learner EXCEPT !.reviewed = TRUE]
  BY <1>1, <1>3, CallGoesOn
<1>4. CASE Fail("daily_budget", FALSE)
  BY <1>1, <1>4, FailKeeps
<1> QED BY <1>2, <1>3, <1>4

LEMMA AnswerKeeps == ASSUME IInv, JInv, Answer PROVE JInv' /\ Moment
<1>1. /\ InCall /\ learner' = [learner EXCEPT !.pc = "answered"]
      /\ UNCHANGED <<clock, content, changes, work, jobs, lessons, erased, charged, refused>>
  BY DEF Answer, At, Goto, outside, InCall
<1> QED BY <1>1, CallGoesOn

LEMMA InferenceFailsKeeps ==
    ASSUME IInv, JInv, NEW pause, NEW tooLarge \in BOOLEAN, InferenceFails(pause, tooLarge)
    PROVE  JInv' /\ Moment
<1>1. /\ InCall /\ Fail(pause, tooLarge)
      /\ UNCHANGED <<clock, content, changes, work, lessons, erased, refused>>
  BY DEF InferenceFails, At, InCall
<1> QED BY <1>1, FailKeeps

LEMMA SubmitKeeps == ASSUME IInv, JInv, Submit PROVE JInv' /\ Moment
<1>1. /\ InCall
      /\ UNCHANGED <<clock, content, changes, work, lessons, erased, refused>>
  BY DEF Submit, At, outside, InCall
<1>2. CASE Fail(None, FALSE)
  BY <1>1, <1>2, FailKeeps
<1>3. CASE UNCHANGED <<jobs, charged>> /\ learner' = [learner EXCEPT !.pc = "commit"]
  BY <1>1, <1>3, CallGoesOn
<1>4. ASSUME NEW s \in {Stale(learner.window), "archived"}, ToState(learner.window, s),
             learner' = None, UNCHANGED charged
      PROVE  JInv' /\ Moment
  <2>1. s \in JobStates
    BY DEF Stale, JobStates, Final
  <2> QED BY <1>1, <1>4, <2>1, CallEnds
<1>5. \/ Fail(None, FALSE)
      \/ UNCHANGED <<jobs, charged>> /\ learner' = [learner EXCEPT !.pc = "commit"]
      \/ \E s \in {Stale(learner.window), "archived"} :
            ToState(learner.window, s) /\ learner' = None /\ UNCHANGED charged
  BY Zenon DEF Submit, Stop, Goto
<1> QED BY <1>2, <1>3, <1>4, <1>5

\* The transaction looks again at all that a lesson must be true to.
LEMMA CommitKeeps == ASSUME IInv, JInv, Commit PROVE JInv' /\ Moment
<1> DEFINE w == learner.window
<1>1. /\ InCall
      /\ UNCHANGED <<clock, content, changes, work, erased, refused>>
  BY DEF Commit, At, outside, InCall
<1>2. CASE Fail(None, FALSE) /\ UNCHANGED lessons
  BY <1>1, <1>2, FailKeeps
<1>3. CASE /\ Committable(w) /\ lessons' = lessons \cup {<<w, jobs[w].revision>>}
           /\ learner' = None /\ UNCHANGED charged
           /\ \E s \in {"evaluated", "waiting_evidence"} : ToState(w, s)
  <2>1. \A l \in lessons' \ lessons : content[l[1]] = l[2] /\ ~HasActiveDeletion
    BY <1>3 DEF Committable, SourcesCurrent
  <2>2. {"evaluated", "waiting_evidence"} \subseteq JobStates
    BY DEF JobStates, Live
  <2> QED BY <1>1, <1>3, <2>1, <2>2, CallEnds
<1>4. CASE /\ UNCHANGED <<lessons, charged>> /\ learner' = None
           /\ \E s \in {"evaluated", "failed"} : ToState(w, s)
  <2>1. {"evaluated", "failed"} \subseteq JobStates
    BY DEF JobStates, Live
  <2> QED BY <1>1, <1>4, <2>1, CallEnds
<1>5. CASE learner' = None /\ UNCHANGED <<jobs, lessons, charged>>
  BY <1>1, <1>5, CallEnds
<1> QED BY <1>2, <1>3, <1>4, <1>5, Zenon DEF Commit, Stop
-------------------------------------------------------------------------------
LEMMA InitIsCounted == ASSUME Init PROVE JInv
<1>1. JobTypes /\ SameExpiry /\ NoChangeIsForgotten
  BY DEF Init, JobTypes, SameExpiry, NoChangeIsForgotten, Unseen
<1>2. \A t \in Tasks : IsCount(t, charged[t]) /\ charged[t] <= AttemptLimit
  BY BudgetAssumption DEF Init, IsCount, JobsOf, WindowsOf
<1>3. Counted
  BY <1>2 DEF Init, Counted
<1>4. RunPart
  BY DEF Init, RunPart, RunTypes, PageIsOpen, ChosenIsOpen, InHand, SeenIsCurrent, DoneIsSeen
<1> QED BY <1>1, <1>3, <1>4 DEF JInv, Data

LEMMA NextIsCounted == ASSUME IInv, JInv, [Next]_vars PROVE JInv' /\ Moment
<1>1. CASE Tick \/ Toggle \/ UNCHANGED vars
  BY <1>1, OutsideKeeps
<1>2. CASE \E w \in Windows : Maintain(w) \/ Evidence(w) \/ Qualify(w)
  BY <1>2, PageStepsKeep
<1>3. CASE \E w \in Windows : Schedule(w)
  BY <1>3, ScheduleKeeps
<1>4. CASE StartRun \/ ReadEvidence \/ ReadWork \/ Complete \/ Pick \/ Prepare \/ Die
  BY <1>4, StartRunKeeps, ReadEvidenceKeeps, ReadWorkKeeps, CompleteKeeps, PickKeeps,
     PrepareKeeps, DieKeeps
<1>5. CASE Reserve \/ Start \/ Review \/ Answer \/ Submit \/ Commit
  BY <1>5, ReserveKeeps, StartKeeps, ReviewKeeps, AnswerKeeps, SubmitKeeps, CommitKeeps
<1>6. CASE \E pause \in {"unavailable", "host_stopped", None}, tooLarge \in BOOLEAN :
             InferenceFails(pause, tooLarge)
  BY <1>6, InferenceFailsKeeps
<1>7. CASE \E w \in Windows : Capture(w)
  BY <1>7, CaptureKeeps
<1>8. CASE (\E t \in Tasks : BeginDeletion(t)) \/ Drain \/ CompleteDeletion
  BY <1>8, DeletionStepsKeep
<1>9. CASE Erase
  BY <1>9, EraseKeeps
<1> QED BY <1>1, <1>2, <1>3, <1>4, <1>5, <1>6, <1>7, <1>8, <1>9, Zenon DEF Next, Run, Around

\* The jobs say what was charged and what is to be done, in every state.
THEOREM JobsAreInOrder == Spec => []JInv
<1>1. Init => JInv
  BY InitIsCounted
<1>2. IInv /\ JInv /\ [Next]_vars => JInv'
  BY NextIsCounted
<1> QED BY <1>1, <1>2, InvariantHolds, PTL DEF Spec

\* A window whose sources no job has seen is marked, listed, or was refused a job
\* because of a deletion, however the run that should have seen to it ended.
THEOREM ChangesAreRemembered == Spec => []NoChangeIsForgotten
<1>1. JInv => NoChangeIsForgotten
  BY DEF JInv, Data
<1> QED BY <1>1, JobsAreInOrder, PTL

\* The attempts that the jobs of a task carry are the calls that were made for it
\* and not given back, and never more than the limit.
THEOREM BudgetIsHonest == Spec => []AttemptsAreCounted
<1>1. JInv => AttemptsAreCounted
  BY CountIsMax DEF JInv, Data, Counted, AttemptsAreCounted
<1> QED BY <1>1, JobsAreInOrder, PTL

\* A lesson is stored of what its window holds at that moment and never under a
\* deletion, and a job that was cancelled or archived is never taken up again.
THEOREM LessonsAreTimely == Spec => LessonsAreOfTheMoment
<1>1. IInv /\ JInv /\ [Next]_vars => Moment
  BY NextIsCounted
<1>2. Moment => [/\ \A l \in lessons' \ lessons : content[l[1]] = l[2] /\ ~HasActiveDeletion
                 /\ \A w \in Windows :
                      jobs[w] # None /\ jobs[w].state \in Final
                          => jobs'[w] \in {None, jobs[w]}]_vars
  BY DEF Moment
<1> QED BY <1>1, <1>2, JobsAreInOrder, InvariantHolds, PTL DEF Spec, LessonsAreOfTheMoment
===============================================================================
