----------------------------- MODULE CaptureWriter -----------------------------
(***************************************************************************)
(* AsyncCaptureWriter and its BoundedCaptureBuffer, in the Copilot         *)
(* extension's process.  Callbacks submit events and never wait; a drain   *)
(* hands them to the durable queue one by one.  A full buffer first gives  *)
(* up contents and then events, and keeps gap records of what it gave up,  *)
(* which the drain reports once no event is left.                          *)
(*                                                                         *)
(* Node runs one callback at a time, from one await to the next, so a step *)
(* here is what one callback does.  An enqueue that throws has published   *)
(* nothing: the rename is the last thing it does (#write).                 *)
(***************************************************************************)
EXTENDS Integers, FiniteSets, Sequences, FiniteSetsExt, SequencesExt

CONSTANTS
    Events,          \* source events, each submitted once at most
    Context,         \* per event, its workspace (repository, branch, commit, ...)
    NoWorkspace,     \* the context of an event, or a mixed gap, without a workspace
    WithContent,     \* events that carry content
    Size, BareSize,  \* per event, its bytes with and without the content
    MaxItems, MaxBytes, MaxGapContexts,   \* BoundedCaptureBufferOptions
    MaxFaults        \* bound on the enqueues that throw

ASSUME LimitsAssumption == {MaxItems, MaxBytes, MaxGapContexts} \subseteq Nat \ {0}

VARIABLES
    items,      \* the buffered events, oldest first
    gaps,       \* the buffered gaps, oldest first
    held,       \* the gap whose enqueue is awaited, if there is one
    draining,   \* what the drain awaits: "item", "gap", or "no" when there is none
    scheduled,  \* a drain waits for setImmediate
    timer,      \* the retry timer runs
    closing,    \* stop() was called
    stopped,    \* stop() has returned
    flushed,    \* ... and what it returned
    stored,     \* events in the order the queue took them, new to it or not
    reported,   \* gaps the queue took
    submitted,  \* the events submitted so far, in order
    degraded, lost, late,   \* those whose content, or who themselves, were given up
    faults

buffer == <<items, gaps, held>>
schedule == <<scheduled, timer>>
lifecycle == <<closing, stopped, flushed>>
durable == <<stored, reported>>
outcomes == <<submitted, degraded, lost, late>>
writerVars == <<buffer, draining, schedule, lifecycle, durable, outcomes, faults>>

Gap == [context : {Context[e] : e \in Events} \cup {NoWorkspace}, mixed : BOOLEAN,
        dropped : Nat, omitted : Nat, first : Events, last : Events]

Bytes == MapThenSumSet(LAMBDA n : items[n].bytes, DOMAIN items)
HasWork == items # <<>> \/ gaps # <<>>
Draining == draining # "no"
-------------------------------------------------------------------------------
(* BoundedCaptureBuffer *)

Overflow(bytes) == Len(items) >= MaxItems \/ Bytes + bytes > MaxBytes

\* mergeMixedGap
Merged(g, h) ==
    [g EXCEPT !.context = NoWorkspace, !.mixed = TRUE, !.last = h.last,
              !.dropped = @ + h.dropped, !.omitted = @ + h.omitted]

\* What #recordGap does to the last gap of the same context.
Aggregated(g, h) ==
    [g EXCEPT !.dropped = @ + h.dropped, !.omitted = @ + h.omitted, !.last = h.last]

\* #recordGap: aggregate with the last gap of the same context, or else begin
\* a gap, or merge when gaps are at their limit, of contexts or of bytes.
RecordGap(g) ==
    IF gaps # <<>> /\ Last(gaps).context = g.context
    THEN gaps' = [gaps EXCEPT ![Len(gaps)] = Aggregated(@, g)]
    ELSE \/ /\ Len(gaps) < MaxGapContexts
            /\ gaps' = Append(gaps, g)
         \/ gaps' = IF gaps = <<>>
                    THEN <<[g EXCEPT !.context = NoWorkspace, !.mixed = TRUE]>>
                    ELSE [gaps EXCEPT ![Len(gaps)] = Merged(@, g)]

\* Mutant: a gap that no longer fits is given up.
RestoreGapIfRoom(g) ==
    gaps' = IF Len(gaps) < MaxGapContexts THEN <<g>> \o gaps ELSE gaps

\* restoreGap: back to the front, merged when gaps are at their limit.
RestoreGap(g) ==
    \/ /\ Len(gaps) < MaxGapContexts
       /\ gaps' = <<g>> \o gaps
    \/ /\ gaps # <<>>
       /\ gaps' = <<Merged(g, Head(gaps))>> \o Tail(gaps)

Push(e, bytes) == items' = Append(items, [event |-> e, bytes |-> bytes])

GapOf(e, dropped) ==
    [context |-> Context[e], mixed |-> FALSE, dropped |-> dropped,
     omitted |-> IF e \in WithContent THEN 1 ELSE 0, first |-> e, last |-> e]

Offer(e) ==
    \/ /\ ~ Overflow(Size[e])
       /\ Push(e, Size[e])
       /\ UNCHANGED <<gaps, degraded, lost>>
    \/ /\ Overflow(Size[e]) /\ ~ Overflow(BareSize[e])
       /\ Push(e, BareSize[e])
       /\ RecordGap(GapOf(e, 0))
       /\ degraded' = degraded \cup {e}
       /\ UNCHANGED lost
    \/ /\ Overflow(Size[e]) /\ Overflow(BareSize[e])
       /\ RecordGap(GapOf(e, 1))
       /\ lost' = lost \cup {e}
       /\ UNCHANGED <<items, degraded>>
-------------------------------------------------------------------------------
(* AsyncCaptureWriter *)

\* #scheduleDrain
ScheduleDrain(immediate) ==
    IF stopped \/ Draining \/ scheduled \/ (~ immediate /\ (closing \/ timer))
    THEN UNCHANGED schedule
    ELSE scheduled' = TRUE /\ timer' = FALSE

Submit(e) ==
    /\ e \notin Range(submitted)
    /\ submitted' = Append(submitted, e)
    /\ IF closing
       THEN late' = late \cup {e} /\ UNCHANGED <<items, gaps, degraded, lost, schedule>>
       ELSE Offer(e) /\ ScheduleDrain(FALSE) /\ UNCHANGED late
    /\ UNCHANGED <<held, draining, lifecycle, durable, faults>>

\* The drain's loop up to its next await: the oldest of the events `its`, or
\* the oldest gap when there is none.
DrainOn(its) ==
    /\ items' = its
    /\ IF stopped \/ (its = <<>> /\ gaps = <<>>)
       THEN draining' = "no" /\ held' = <<>> /\ UNCHANGED gaps
       ELSE IF its # <<>>
       THEN draining' = "item" /\ held' = <<>> /\ UNCHANGED gaps
       ELSE draining' = "gap" /\ held' = <<Head(gaps)>> /\ gaps' = Tail(gaps)

\* setImmediate calls #drain, which a writer stopped in between ignores.
StartDrain ==
    /\ scheduled
    /\ scheduled' = FALSE
    /\ DrainOn(items)
    /\ UNCHANGED <<timer, lifecycle, durable, outcomes, faults>>

ItemStored ==
    /\ draining = "item"
    /\ stored' = Append(stored, Head(items).event)
    /\ DrainOn(Tail(items))
    /\ UNCHANGED <<schedule, lifecycle, reported, outcomes, faults>>

GapReported ==
    /\ draining = "gap"
    /\ reported' = reported \cup {Head(held)}
    /\ DrainOn(items)
    /\ UNCHANGED <<schedule, lifecycle, stored, outcomes, faults>>

\* Mutant: no retry is arranged.
EnqueueThrowsForGood ==
    /\ Draining
    /\ faults < MaxFaults /\ faults' = faults + 1
    /\ IF draining = "gap" THEN RestoreGap(Head(held)) ELSE UNCHANGED gaps
    /\ draining' = "no" /\ held' = <<>>
    /\ UNCHANGED <<items, schedule, lifecycle, durable, outcomes>>

EnqueueThrows ==
    /\ Draining
    /\ faults < MaxFaults /\ faults' = faults + 1
    /\ IF draining = "gap" THEN RestoreGap(Head(held)) ELSE UNCHANGED gaps
    /\ draining' = "no" /\ held' = <<>>
    /\ timer' = ~ stopped
    /\ UNCHANGED <<items, scheduled, lifecycle, durable, outcomes>>

RetryTimerFires ==
    /\ timer
    /\ timer' = FALSE
    /\ scheduled' = (scheduled \/ ~ (stopped \/ closing \/ Draining))
    /\ UNCHANGED <<buffer, draining, lifecycle, durable, outcomes, faults>>

\* stop() closes the writer and, in flush(), drains what is left by polling.
Stop ==
    /\ ~ closing
    /\ closing' = TRUE
    /\ IF HasWork THEN ScheduleDrain(TRUE) ELSE UNCHANGED schedule
    /\ UNCHANGED <<buffer, draining, stopped, flushed, durable, outcomes, faults>>

FlushPolls ==
    /\ closing /\ ~ stopped
    /\ HasWork
    /\ ScheduleDrain(TRUE)
    /\ UNCHANGED <<buffer, draining, lifecycle, durable, outcomes, faults>>

\* Mutant: an enqueue under way is not waited for.
StopReturnsDraining ==
    /\ closing /\ ~ stopped
    /\ stopped' = TRUE
    /\ flushed' = ~ (scheduled \/ HasWork)
    /\ timer' = FALSE
    /\ UNCHANGED <<buffer, draining, scheduled, closing, durable, outcomes, faults>>

\* The buffer is drained, or the deadline passes first.
StopReturns ==
    /\ closing /\ ~ stopped
    /\ stopped' = TRUE
    /\ flushed' = ~ (Draining \/ scheduled \/ HasWork)
    /\ timer' = FALSE
    /\ UNCHANGED <<buffer, draining, scheduled, closing, durable, outcomes, faults>>
-------------------------------------------------------------------------------
WriterInit ==
    /\ items = <<>> /\ gaps = <<>> /\ held = <<>>
    /\ draining = "no" /\ scheduled = FALSE /\ timer = FALSE
    /\ closing = FALSE /\ stopped = FALSE /\ flushed = FALSE
    /\ stored = <<>> /\ reported = {}
    /\ submitted = <<>> /\ degraded = {} /\ lost = {} /\ late = {}
    /\ faults = 0

WriterCallback == StartDrain \/ ItemStored \/ GapReported \/ EnqueueThrows \/ RetryTimerFires

WriterNext ==
    \/ \E e \in Events : Submit(e)
    \/ WriterCallback
    \/ Stop \/ FlushPolls \/ StopReturns

WriterSpec == WriterInit /\ [][WriterNext]_writerVars

\* Node runs every callback that is due, and every enqueue comes to an end.
FairWriterSpec == WriterSpec /\ WF_writerVars(WriterCallback)
-------------------------------------------------------------------------------
\* "A full buffer must not silently drop data": the gaps that are buffered, on
\* their way and reported add up to the events and the contents given up,
\* however gaps are aggregated, merged, taken and given back meanwhile.
Kept == held \o gaps
Dropped(s) == SumFunction([n \in DOMAIN s |-> s[n].dropped])
Omitted(s) == SumFunction([n \in DOMAIN s |-> s[n].omitted])
DroppedOf(S) == SumFunction([g \in S |-> g.dropped])
OmittedOf(S) == SumFunction([g \in S |-> g.omitted])

LossIsAccounted ==
    /\ Dropped(Kept) + DroppedOf(reported) = Cardinality(lost)
    /\ Omitted(Kept) + OmittedOf(reported) = Cardinality((lost \cup degraded) \cap WithContent)

\* s is the events that were accepted, each once, in the order of submission.
IsWhatWasAccepted(s) ==
    /\ Range(s) = Range(submitted) \ (lost \cup late)
    /\ \A i, j \in DOMAIN s : \A m, n \in DOMAIN submitted :
          i < j /\ s[i] = submitted[m] /\ s[j] = submitted[n] => m < n

\* Every accepted event is in the queue or in the buffer, once, in the order of
\* submission, though the drain reads the head before it awaits the queue and
\* shifts it afterwards, and callbacks push new events meanwhile.  And stop()
\* says that it flushed only when everything is in the queue: every accepted
\* event, and a report of every event that was given up before.
FlushedIsDurable ==
    /\ IsWhatWasAccepted(stored \o [n \in DOMAIN items |-> items[n].event])
    /\ flushed => IsWhatWasAccepted(stored) /\ DroppedOf(reported) = Cardinality(lost)

\* What is in the buffer reaches the queue once the queue takes events again.
EventuallyDrained ==
    HasWork \/ held # <<>> ~> (~ HasWork /\ held = <<>>) \/ closing
===============================================================================
