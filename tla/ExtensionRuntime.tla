--------------------------- MODULE ExtensionRuntime ----------------------------
(***************************************************************************)
(* CopilotExtensionCapture in the Copilot extension's process, with the    *)
(* timers of its entry: the host's events reach the mapper, workspaces are *)
(* refreshed from Git in the background, and a shutdown waits for what is  *)
(* under way before the extension's registration is given up.              *)
(*                                                                         *)
(* Node runs one callback at a time, from one await to the next.  A crash  *)
(* ends the process anywhere and frees its leases.                         *)
(***************************************************************************)
EXTENDS ContextPublisher

CONSTANT MaxEvents  \* bound on what happens to the extension: moves, commits and
                    \* messages, changed capabilities, failures, processes started

VARIABLES
    enabled,        \* #enabled: events are captured
    refresh,        \* the refresh under way; it is fresh while the workspace's
                    \* #workspaceGeneration is the one it was scheduled in
    again,          \* #refreshWorkspacePending
    stage,          \* how far the shutdown is
    tasks,          \* background work under way when its scheduling stopped
    wanted,         \* the capabilities in the adapter's state
    alive,          \* the extension's process runs
    events

runtimeVars == <<enabled, refresh, again>>
processVars == <<stage, tasks, alive>>

NoRefresh == [phase |-> "none"]
Due == [phase |-> "due", fresh |-> TRUE]
Closing == stage # "open"

Happens == events < MaxEvents /\ events' = events + 1
-------------------------------------------------------------------------------
(* CopilotExtensionCapture *)

\* #scheduleWorkspaceRefresh: at most one is under way, and one more is wanted.
ScheduleRefresh(p, moved) ==
    IF refresh.phase # "none"
    THEN /\ again' = TRUE /\ pub' = p
         /\ refresh' = IF moved THEN [refresh EXCEPT !.fresh = FALSE] ELSE refresh
    ELSE /\ refresh' = Due /\ pub' = RefreshStarted(p)
         /\ UNCHANGED again

\* session.start and session.context_changed, captured or not.
HostMoves(d, complete) ==
    /\ Happens
    /\ here' = d
    /\ IF ~ alive \/ Closing
       THEN UNCHANGED <<mapperVars, runtimeVars, publisherVars, entryVars>>
       ELSE /\ MapContext(d, complete)
            /\ rechecking' = TRUE /\ said' = NoApproval
            /\ ScheduleRefresh(Observed(pub, ws', "session"), TRUE)
            /\ UNCHANGED <<operations, evidence, enabled, lease, file, producers,
                           active, accepting>>
    /\ UNCHANGED <<head, running, processVars, wanted>>

ToolStarts(t) ==
    /\ running[t] = NotRunning
    /\ running' = [running EXCEPT ![t] = [at |-> here, gap |-> ~ (alive /\ enabled)]]
    /\ IF alive /\ ~ Closing /\ enabled THEN MapToolStart(t) ELSE UNCHANGED operations
    /\ UNCHANGED <<here, head, ws, pending, evidence, runtimeVars, publisherVars,
                   entryVars, processVars, wanted, events>>

\* A tool may have committed.
ToolCompletes(t, commits) ==
    /\ running[t] # NotRunning
    /\ running' = [running EXCEPT ![t] = NotRunning]
    /\ IF commits
       THEN /\ here \in Repos /\ Happens
            /\ head' = [head EXCEPT ![here] = @ + 1]
       ELSE UNCHANGED <<head, events>>
    /\ IF ~ alive \/ Closing
       THEN UNCHANGED <<operations, evidence, refresh, again, rechecking, pub>>
       ELSE /\ IF enabled THEN MapToolComplete(t) ELSE UNCHANGED <<operations, evidence>>
            /\ ScheduleRefresh(pub, FALSE)
            /\ rechecking' = (rechecking \/ refresh.phase = "none")
    /\ UNCHANGED <<here, ws, pending, enabled, lease, file, producers,
                   active, accepting, said, processVars, wanted>>

\* setImmediate calls refreshWorkspace, which asks Git about the directory the
\* mapper has by then.
RefreshAsks ==
    /\ alive /\ refresh.phase = "due"
    /\ refresh' = [phase |-> "asked", fresh |-> refresh.fresh,
                   snapshot |-> Resolved(ws.cwd)]
    /\ UNCHANGED <<hostVars, mapperVars, enabled, again, publisherVars,
                   entryVars, processVars, wanted, events>>

\* The end of a refresh: p is the publisher after its answer and r whether its
\* workspace is to be verified still.
RefreshSettles(p, more, r) ==
    /\ again' = FALSE
    /\ IF more
       THEN /\ refresh' = Due
            /\ pub' = RefreshStarted(p) /\ rechecking' = TRUE
       ELSE refresh' = NoRefresh /\ pub' = p /\ rechecking' = r

\* Mutant: an answer is taken whatever changed since it was asked for.
RefreshAnswersAnyway ==
    /\ alive /\ refresh.phase = "asked"
    /\ UpdateWorkspace(refresh.snapshot)
    /\ RefreshSettles(Observed(pub, refresh.snapshot, "refresh"), again,
                      refresh.snapshot.state = "unknown")
    /\ UNCHANGED <<hostVars, operations, evidence, enabled, lease, file,
                   producers, active, accepting, said, processVars, wanted, events>>

\* The answer is taken if nothing changed since the refresh was scheduled.
\* Otherwise it adds the parents of the commit it shares with the workspace, or
\* asks for another refresh.
RefreshAnswers ==
    /\ alive /\ refresh.phase = "asked"
    /\ LET snapshot == refresh.snapshot
           fresh == refresh.fresh
           parents == ~ fresh /\ snapshot.commit # NoCommit /\ snapshot.commit = ws.commit
       IN  /\ IF fresh THEN UpdateWorkspace(snapshot)
              ELSE IF parents THEN UpdateWorkspace(ws)
              ELSE UNCHANGED <<ws, pending>>
           /\ IF fresh \/ parents
              THEN RefreshSettles(Observed(pub, ws', "refresh"), again,
                                  ws'.state = "unknown")
              ELSE RefreshSettles(pub, again \/ snapshot.commit # NoCommit, rechecking)
    /\ UNCHANGED <<hostVars, operations, evidence, enabled, lease, file,
                   producers, active, accepting, said, processVars, wanted, events>>

RefreshFails ==
    /\ alive /\ refresh.phase = "asked"
    /\ Happens
    /\ RefreshSettles(pub, again, rechecking)
    /\ UNCHANGED <<hostVars, mapperVars, enabled, lease, file, producers,
                   active, accepting, said, processVars, wanted>>

WriteFails ==
    /\ alive /\ Happens
    /\ PublishFails
    /\ UNCHANGED <<hostVars, mapperVars, runtimeVars, processVars, wanted>>

\* setEnabled
SetEnabled(on) ==
    IF Closing \/ on = enabled
    THEN UNCHANGED <<enabled, operations, running>>
    ELSE /\ enabled' = on
         /\ ResetCaptureChain
         /\ running' = [t \in Tools |->
                          IF running[t] = NotRunning THEN NotRunning
                          ELSE [running[t] EXCEPT !.gap = TRUE]]
-------------------------------------------------------------------------------
(* runInstalledCopilotExtension *)

\* flushMetrics, once a second: the capabilities as they are by now, and the
\* publisher if there is none.
Tick ==
    /\ alive /\ active
    /\ IF wanted = "nothing"
       THEN /\ accepting' = FALSE
            /\ stage' = IF stage = "open" THEN "closing" ELSE stage
            /\ SetEnabled(FALSE)
            /\ UNCHANGED publisherVars
       ELSE /\ SetEnabled(wanted = "capture")
            /\ EnsurePublisher
            /\ UNCHANGED <<accepting, stage>>
    /\ UNCHANGED <<here, head, ws, pending, evidence, refresh, again, active,
                   rechecking, said, tasks, alive, wanted, events>>

\* The first refresh, and one when the last began thirty seconds ago.
RefreshWorkspace ==
    /\ alive /\ active /\ ~ Closing
    /\ refresh.phase = "none"
    /\ ScheduleRefresh(pub, FALSE)
    /\ rechecking' = TRUE
    /\ UNCHANGED <<hostVars, mapperVars, enabled, lease, file, producers,
                   active, accepting, said, processVars, wanted, events>>

Publish ==
    /\ alive
    /\ PublishBegins \/ PublishEnds \/ PublisherStops
    /\ UNCHANGED <<hostVars, mapperVars, runtimeVars, processVars, wanted, events>>

\* drainWorker: no pass follows one that ends once scheduling has stopped.
TaskEnds(task) ==
    /\ alive /\ task \in tasks
    /\ tasks' = tasks \ {task}
    /\ UNCHANGED <<hostVars, mapperVars, runtimeVars, publisherVars, entryVars, stage,
                   alive, wanted, events>>
-------------------------------------------------------------------------------
(* Shutdown, restart *)

\* session.shutdown, after which no context is accepted, or SIGTERM.
ShutdownBegins ==
    /\ alive /\ stage = "open"
    /\ stage' = "closing"
    /\ accepting' \in {FALSE, accepting}
    /\ UNCHANGED <<hostVars, mapperVars, runtimeVars, publisherVars, active, rechecking,
                   said, tasks, alive, wanted, events>>

\* Refreshes have settled and the writer has stopped, or their deadline passed:
\* scheduling stops, perhaps amid a pass of the worker and one of learning.
WriterStops ==
    /\ alive /\ stage = "closing"
    /\ stage' = "stopping" /\ active' = FALSE
    /\ tasks' \in SUBSET {"worker", "learning"}
    /\ UNCHANGED <<hostVars, mapperVars, runtimeVars, publisherVars, accepting, rechecking,
                   said, alive, wanted, events>>

\* stopRuntime waits for background work, and then stops publishing.
StopPublishing ==
    /\ alive /\ stage = "stopping" /\ tasks = {}
    /\ stage' = "unpublishing"
    /\ accepting' = FALSE /\ said' = NoApproval
    /\ pub' = IF pub.phase = "on" THEN [pub EXCEPT !.phase = "stopping"] ELSE pub
    /\ UNCHANGED <<hostVars, mapperVars, runtimeVars, lease, file, producers, active,
                   rechecking, tasks, alive, wanted, events>>

\* A publisher that was starting or stopping has stopped as well: the session
\* is disconnected and the registration released.
ReleaseRegistration ==
    /\ alive /\ stage = "unpublishing" /\ pub.phase = "none"
    /\ stage' = "released"
    /\ UNCHANGED <<hostVars, mapperVars, runtimeVars, publisherVars, entryVars, tasks,
                   alive, wanted, events>>

\* The process ends, after its shutdown or before.
ProcessEnds ==
    /\ alive /\ alive' = FALSE
    /\ pub' = NoPublisher
    /\ lease' = IF lease = "producer" THEN "none" ELSE lease
    /\ refresh' = NoRefresh /\ again' = FALSE
    /\ tasks' = {} /\ stage' = "open"
    /\ ws' = Unknown(here) /\ pending' = FALSE /\ ResetCaptureChain
    /\ enabled' = FALSE
    /\ active' = FALSE /\ accepting' = FALSE /\ rechecking' = FALSE /\ said' = NoApproval
    /\ running' = [t \in Tools |-> IF running[t] = NotRunning THEN NotRunning
                                   ELSE [running[t] EXCEPT !.gap = TRUE]]
    /\ UNCHANGED <<here, head, evidence, file, producers, wanted, events>>

ProcessStarts ==
    /\ ~ alive /\ wanted # "nothing"
    /\ Happens
    /\ alive' = TRUE
    /\ ws' = Resolved(here)
    /\ enabled' = (wanted = "capture")
    /\ active' = TRUE /\ accepting' = TRUE
    /\ UNCHANGED <<hostVars, pending, operations, evidence, refresh, again,
                   publisherVars, rechecking, said, stage, tasks, wanted>>

\* The user changes the capabilities.
CapabilitiesChange(w) ==
    /\ Happens
    /\ w # wanted /\ wanted' = w
    /\ UNCHANGED <<hostVars, mapperVars, runtimeVars, publisherVars, entryVars,
                   processVars>>

InitRuntime ==
    /\ here \in Dirs /\ head = [d \in Dirs |-> 0]
    /\ running = [t \in Tools |-> NotRunning]
    /\ InitMapper
    /\ active = FALSE /\ accepting = FALSE /\ rechecking = FALSE /\ said = NoApproval
    /\ pub = NoPublisher /\ lease = "none" /\ file = NoFile /\ producers = 0
    /\ enabled = FALSE /\ refresh = NoRefresh /\ again = FALSE
    /\ stage = "open" /\ tasks = {} /\ wanted = "capture"
    /\ alive = FALSE /\ events = 0

Callback ==
    \/ RefreshAsks \/ RefreshAnswers \/ RefreshFails
    \/ Tick \/ RefreshWorkspace \/ Publish \/ WriteFails
    \/ \E task \in {"worker", "learning"} : TaskEnds(task)
    \/ ShutdownBegins \/ WriterStops \/ StopPublishing \/ ReleaseRegistration

RuntimeNext ==
    \/ \E d \in Dirs, complete \in BOOLEAN : HostMoves(d, complete)
    \/ \E t \in Tools : ToolStarts(t) \/ \E commits \in BOOLEAN : ToolCompletes(t, commits)
    \/ Callback
    \/ ProcessEnds \/ ProcessStarts
    \/ \E w \in {"capture", "retrieval", "nothing"} : CapabilitiesChange(w)
===============================================================================
