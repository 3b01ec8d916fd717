--------------------------- MODULE CaptureReconciler ---------------------------
(***************************************************************************)
(* What the live capture of a session missed or took without its content   *)
(* is recovered from the session's own file, which the host appends to:    *)
(* reconcileCurrentSessionCapture, pass by pass, a bounded number of lines *)
(* at a time, with what it remembers between two passes in memory.  It is  *)
(* not to take what was never observed: what happened before the extension *)
(* joined, while capture was off, or what was deleted.                     *)
(*                                                                         *)
(* A line is one event; the completion of a tool also yields evidence that *)
(* is derived from it and its start.  Of its content only matters whether  *)
(* it is whole: "omitted" is recoverable, "cut" at the copy limit is not.  *)
(* Two things of this system never have the same time.                     *)
(***************************************************************************)
EXTENDS Naturals, SequencesExt, FiniteSetsExt

CONSTANTS
    Lines,         \* how many lines the host writes at most
    Completes,     \* the line of the start that a line completes, or 0
    Long,          \* lines whose content is over the copy limit
    Victims,       \* lines that may be deleted
    Budget,        \* maxEvents of a pass
    MaxPending,    \* repairs remembered (500)
    Absent,
    MaxJoins, MaxToggles \* bounds

ASSUME BudgetAssumption == Budget \in Nat \ {0} /\ MaxPending \in Nat \ {0}
ASSUME LinesAssumption == Lines \in Nat /\ Completes \in [1 .. Lines -> 0 .. Lines]

VARIABLES
    clock,
    at,        \* when each line was begun, or 0
    half,      \* the last line is not yet ended
    unseen,    \* lines of a time when nothing was captured
    capture,   \* the adapter's state: [on, updatedAt]
    live,      \* events the live capture is about to submit
    queue,     \* the copy of each event in the queue, or Absent
    row,       \* what the store effectively has of each event, or Absent
    erased,    \* tombstones
    deleting,  \* a deletion is under way, behind its barrier
    joined,    \* when the extension joined the session, or 0
    progress,  \* what it remembers between two passes, or Absent
    pass,      \* a pass under way, or Absent
    refused,   \* repairs given up because of a deletion under way
    toggles, joins

hostVars == <<clock, at, half, unseen>>
bounds == <<toggles, joins>>
storeVars == <<row, erased, deleting>>
passVars == <<progress, pass, refused>>
reconcilerVars == <<hostVars, capture, live, queue, storeVars, joined, passVars, bounds>>

Line == 1 .. Lines
Native(l) == <<l, "native">>
Derived(l) == <<l, "derived">>

\* CopilotEventMapper.map, additionalEvents
Values(l) == IF Completes[l] = 0 THEN <<Native(l)>> ELSE <<Native(l), Derived(l)>>

Identities == UNION {ToSet(Values(l)) : l \in Line}
Written == {l \in Line : at[l] # 0}
Size == Cardinality(Written) - (IF half THEN 1 ELSE 0)

\* captureEnvelopeCompleteness of the file's copy, and of the store's
FileCopy(i) == IF i[1] \in Long THEN "cut" ELSE "whole"
Complete(i) == row[i] = "whole"
-------------------------------------------------------------------------------
(* The host, the user and the live capture *)

BeginLine ==
    /\ Cardinality(Written) < Lines /\ ~ half
    /\ LET l == Cardinality(Written) + 1
           heard == {i \in ToSet(Values(l)) :
                        i = Derived(l) => at[Completes[l]] >= joined /\ Completes[l] \notin unseen}
       IN  /\ at' = [at EXCEPT ![l] = clock + 1]
           /\ unseen' = IF (capture.on /\ joined # 0) \/ pass # Absent THEN unseen ELSE unseen \cup {l}
           /\ live' = IF capture.on /\ joined # 0 THEN live \cup heard ELSE live
    /\ clock' = clock + 1 /\ half' = TRUE
    /\ UNCHANGED <<capture, queue, storeVars, joined, passVars, bounds>>

End ==
    /\ half /\ half' = FALSE
    /\ UNCHANGED <<clock, at, unseen, capture, live, queue, storeVars, joined, passVars, bounds>>

\* A disabled capability stops the live capture; what it had is still submitted.
Toggle ==
    /\ toggles < MaxToggles /\ toggles' = toggles + 1
    /\ clock' = clock + 1
    /\ capture' = [on |-> ~ capture.on, updatedAt |-> clock + 1]
    /\ UNCHANGED <<at, half, unseen, live, queue, storeVars, joined, passVars, joins>>

Join ==
    /\ joined = 0 /\ joins < MaxJoins /\ joins' = joins + 1
    /\ clock' = clock + 1 /\ joined' = clock + 1
    /\ UNCHANGED <<at, half, unseen, capture, live, queue, storeVars, passVars, toggles>>

\* The extension's process ends, by a crash or not; its memory goes with it.
Leave ==
    /\ joined # 0 /\ joined' = 0
    /\ live' = {} /\ progress' = Absent /\ pass' = Absent
    /\ UNCHANGED <<hostVars, capture, queue, storeVars, refused, bounds>>

Blocked(i) == i \in erased

\* enqueueIfSourceAbsent answers "duplicate" for each of them.
Duplicate(i) == queue[i] # Absent \/ Blocked(i)

\* enqueueIfSourceAbsent: the copy may lack content the host left out; or it is lost.
Submit(i) ==
    /\ i \in live /\ live' = live \ {i}
    /\ \/ UNCHANGED queue
       \/ /\ ~ deleting /\ ~ Duplicate(i) /\ row[i] = Absent
          /\ \E copy \in {"omitted", FileCopy(i)} : queue' = [queue EXCEPT ![i] = copy]
    /\ UNCHANGED <<hostVars, capture, storeVars, joined, passVars, bounds>>
-------------------------------------------------------------------------------
(* The worker, deletions and resets *)

\* A run of the worker, under the lease a pass needs too
Work ==
    /\ pass = Absent /\ ~ deleting
    /\ \E i \in Identities : queue[i] # Absent
    /\ row' = [i \in Identities |-> IF row[i] # Absent \/ Blocked(i) THEN row[i] ELSE queue[i]]
    /\ queue' = [i \in Identities |-> Absent]
    /\ UNCHANGED <<hostVars, capture, live, erased, deleting, joined, passVars, bounds>>

\* A deletion is registered in the store and raises its barrier in the queue, ...
Delete ==
    /\ ~ deleting /\ deleting' = TRUE
    /\ \E l \in Victims : row[Native(l)] # Absent
    /\ UNCHANGED <<hostVars, capture, live, queue, row, erased, joined, passVars, bounds>>

\* ... and erases before both are lifted.
Erase ==
    /\ deleting /\ deleting' = FALSE
    /\ LET ids == {Native(l) : l \in Victims}
       IN  /\ erased' = erased \cup ids
           /\ row' = [i \in Identities |-> IF i \in ids THEN Absent ELSE row[i]]
           /\ queue' = [i \in Identities |-> IF i \in ids THEN Absent ELSE queue[i]]
    /\ UNCHANGED <<hostVars, capture, live, joined, passVars, bounds>>
-------------------------------------------------------------------------------
(* A pass *)

\* Mutant: only the time of joining bounds what is observed.
SinceJoined == joined

\* minimumTimestamp.  What an earlier pass stored is of an earlier joining, and the
\* last reset, which stopped the session, is earlier too.
Minimum == Max({capture.updatedAt, joined})

Fresh(minimum) ==
    [minimum |-> minimum, line |-> 0, observed |-> {}, pending |-> <<>>,
     replay |-> FALSE, complete |-> Absent]

\* The state is read before and after the worker's lease is taken; from here on
\* it is not read again.
Look ==
    /\ pass = Absent /\ joined # 0 /\ capture.on
    /\ pass' = [step |-> "looked", minimum |-> Minimum]
    /\ UNCHANGED <<hostVars, capture, live, queue, storeVars, joined, progress, refused, bounds>>

\* Mutant: what did not fit among the remembered repairs is not looked for again.
RememberedAnyway(minimum) ==
    IF progress # Absent /\ progress.minimum = minimum THEN progress ELSE Fresh(minimum)

\* reconciliationFor: memory of another observation is dropped, and so is one that
\* forgot repairs, once the end of the file was reached.
Remembered(minimum) ==
    IF /\ progress # Absent /\ progress.minimum = minimum
       /\ ~ (progress.replay /\ ~ half /\ progress.complete = Size)
    THEN progress ELSE Fresh(minimum)

\* requireCompleteLines
Readable == Size

\* The pending repairs to try again are chosen and the file's size is read.
Open ==
    /\ pass # Absent /\ pass.step = "looked"
    /\ LET p == Remembered(pass.minimum)
           n == Min({Len(p.pending), Budget \div 2})
       IN  /\ progress' = p
           /\ pass' = [step |-> "reading", retry |-> SubSeq(p.pending, 1, n),
                       left |-> Max({1, Budget - n}), end |-> Readable, todo |-> <<>>]
    /\ UNCHANGED <<hostVars, capture, live, queue, storeVars, joined, refused, bounds>>

Reading == pass # Absent /\ pass.step = "reading"
Forget(p, i) == [p EXCEPT !.pending = SelectSeq(@, LAMBDA j : j # i)]

\* rememberPending: the oldest gives way.
Remember(p, i) ==
    LET pending == Append(Forget(p, i).pending, i)
    IN  IF Len(pending) > MaxPending
        THEN [p EXCEPT !.pending = Tail(pending), !.replay = TRUE]
        ELSE [p EXCEPT !.pending = pending]

\* mergeMissingContent: content once recorded is not replaced.
MissingContent(i) == row[i] = "omitted"

\* enrichRawEvent
Refuses(i) == deleting \/ Blocked(i)

\* repairCapture: only a whole copy repairs; whatever comes of it, it is not tried
\* again.
Repair(p, i) ==
    /\ progress' = Forget(p, i)
    /\ LET repairs == FileCopy(i) = "whole" /\ MissingContent(i)
       IN  /\ row' = IF repairs /\ ~ Refuses(i) THEN [row EXCEPT ![i] = "whole"] ELSE row
           /\ refused' = IF repairs /\ Refuses(i) THEN refused \cup {i} ELSE refused

\* A repair of an earlier pass: its event may have reached the store by now.
Retry ==
    /\ Reading /\ pass.retry # <<>>
    /\ pass' = [pass EXCEPT !.retry = Tail(@)]
    /\ LET i == Head(pass.retry)
       IN  IF row[i] = Absent
           THEN /\ progress' = [progress EXCEPT !.pending = Append(Forget(progress, i).pending, i)]
                /\ UNCHANGED <<row, refused>>
           ELSE IF Complete(i) THEN progress' = Forget(progress, i) /\ UNCHANGED <<row, refused>>
           ELSE Repair(progress, i)
    /\ UNCHANGED <<hostVars, capture, live, queue, erased, deleting, joined, bounds>>

\* The events still to handle of the line a pass is at
Todo ==
    IF pass.todo # <<>> THEN pass.todo
    ELSE IF pass.left > 0 /\ progress.line < pass.end THEN Values(progress.line + 1)
    ELSE <<>>

\* Evidence that names a start which was not observed is not observed either.
Observed(i) ==
    /\ at[i[1]] >= progress.minimum
    /\ Completes[i[1]] = 0 \/ Completes[i[1]] \in progress.observed

\* onEvent, for one event of the line; the line is behind it after the last.
Handle ==
    /\ Reading /\ pass.retry = <<>> /\ Todo # <<>>
    /\ LET i == Head(Todo)
           last == Len(Todo) = 1
           new == Observed(i) /\ row[i] = Absent
           p == [progress EXCEPT !.line = IF last THEN @ + 1 ELSE @,
                                 !.observed = IF Observed(i) THEN @ \cup {i[1]} ELSE @]
       IN  /\ ~ (new /\ deleting)
           /\ pass' = [pass EXCEPT !.todo = Tail(Todo), !.left = IF last THEN @ - 1 ELSE @]
           /\ queue' = IF new /\ ~ Duplicate(i) THEN [queue EXCEPT ![i] = FileCopy(i)] ELSE queue
           /\ IF Observed(i) /\ ~ new /\ ~ Complete(i) THEN Repair(p, i)
              ELSE /\ progress' = IF new /\ Duplicate(i) THEN Remember(p, i) ELSE p
                   /\ UNCHANGED <<row, refused>>
    /\ UNCHANGED <<hostVars, capture, live, erased, deleting, joined, bounds>>

\* The queue is behind a barrier: the pass fails, and the next one starts afresh.
Fail ==
    /\ Reading /\ pass.retry = <<>> /\ Todo # <<>> /\ deleting
    /\ LET i == Head(Todo) IN Observed(i) /\ row[i] = Absent
    /\ pass' = Absent /\ progress' = Absent
    /\ UNCHANGED <<hostVars, capture, live, queue, storeVars, joined, refused, bounds>>

\* The end of the file or of the budget
Finish ==
    /\ Reading /\ pass.retry = <<>> /\ Todo = <<>>
    /\ pass' = Absent
    /\ progress' = [progress EXCEPT !.complete = IF progress.line >= pass.end THEN progress.line ELSE Absent]
    /\ UNCHANGED <<hostVars, capture, live, queue, storeVars, joined, refused, bounds>>

PassStep == Look \/ Open \/ Retry \/ Handle \/ Fail \/ Finish

\* drainWorker
Loop == Work \/ PassStep
-------------------------------------------------------------------------------
ReconcilerInit ==
    /\ clock = 1 /\ at = [l \in Line |-> 0] /\ half = FALSE /\ unseen = {}
    /\ \E on \in BOOLEAN : capture = [on |-> on, updatedAt |-> 1]
    /\ live = {} /\ queue = [i \in Identities |-> Absent]
    /\ row = [i \in Identities |-> Absent] /\ erased = {} /\ deleting = FALSE
    /\ joined = 0 /\ progress = Absent /\ pass = Absent /\ refused = {}
    /\ toggles = 0 /\ joins = 0

ReconcilerNext ==
    \/ BeginLine \/ End \/ Toggle \/ Join \/ Leave \/ Delete \/ Erase
    \/ \E i \in Identities : Submit(i)
    \/ Loop

ReconcilerSpec == ReconcilerInit /\ [][ReconcilerNext]_reconcilerVars

\* The background loop runs worker and pass again and again; a line is written to
\* its end; a registered deletion is carried through.
FairReconcilerSpec ==
    /\ ReconcilerSpec /\ WF_reconcilerVars(PassStep) /\ SF_reconcilerVars(Work) /\ WF_reconcilerVars(End)
    /\ WF_reconcilerVars(Erase)
    /\ \A i \in Identities : WF_reconcilerVars(Submit(i))
-------------------------------------------------------------------------------
Stored(i) == queue[i] # Absent \/ row[i] # Absent

\* What speaks of a line of the session
Speaking(l) == {i \in Identities : i[1] = l \/ (i[2] = "derived" /\ Completes[i[1]] = l)}

\* What happened before the extension joined or while capture was off is not taken
\* from the file afterwards, not even as the start of evidence; nor does anything
\* deleted come back.
OnlyTheObserved ==
    /\ \A l \in unseen : \A i \in Speaking(l) : ~ Stored(i)
    /\ \A i \in Identities : Stored(i) => i \notin erased

\* The best copy there is
Recovered(i) ==
    \/ i \in erased \cup refused
    \/ row[i] # Absent /\ (\/ Complete(i) \/ FileCopy(i) = "cut" \/ row[i] = "cut")

Outside(i) ==
    \E l \in {i[1], Completes[i[1]]} \ {0} : at[l] < Minimum

\* As long as capture is on and the extension stays, whatever of the session was
\* observed is in the store at last, and whole if the file has it whole.
EverythingIsRecovered ==
    []<>(capture.on /\ joined # 0) =>
        []<>(\A i \in Identities : at[i[1]] # 0 => Recovered(i) \/ Outside(i))
===============================================================================
