--------------------------- MODULE ContextPublisher ----------------------------
(***************************************************************************)
(* TrustedSessionContextPublisher, and the part of the extension's entry   *)
(* that starts, feeds, fails and stops it.  The publisher keeps a file     *)
(* with the session's workspace and the user's last approval, which the    *)
(* MCP server believes while the publisher holds its leases.               *)
(*                                                                         *)
(* The entry has one publisher at a time: the next one is constructed only *)
(* when the one before it has stopped, so its phase is one variable.       *)
(***************************************************************************)
EXTENDS EventMapper

VARIABLES
    active,     \* runtimeActive
    accepting,  \* contextAccepting
    rechecking, \* workspaceRefreshing
    said,       \* lastMessage, said while the publisher starts
    pub,        \* the publisher
    lease,      \* who holds the session's lease: "producer", "reader" or "none"
    file,       \* the session's context record
    producers   \* producer identities given out

publisherVars == <<pub, lease, file, producers>>
entryVars == <<active, accepting, rechecking, said>>

NoApproval == <<>>
NoFile == [producer |-> 0]
NoPublisher == [phase |-> "none", out |-> NoFile]
-------------------------------------------------------------------------------
(* The publisher.  Its methods take and return its state. *)

\* beginWorkspaceRefresh
BeginWorkspaceRefresh(p) == [p EXCEPT !.refreshing = TRUE, !.dirty = TRUE]

\* updateWorkspace: another workspace is another version, and ends the approval.
UpdatePublished(p, w) ==
    IF w = p.ws
    THEN [p EXCEPT !.refreshing = FALSE, !.dirty = TRUE]
    ELSE [p EXCEPT !.refreshing = FALSE, !.dirty = TRUE, !.ws = w,
                   !.revision = @ + 1, !.approval = NoApproval]

\* Mutant: only an approval replaces an approval.
ObserveApproval(p, m) ==
    IF m = NoApproval THEN p ELSE [p EXCEPT !.approval = m, !.dirty = TRUE]

\* observeUserMessage: only an approval's text is kept.
ObserveUserMessage(p, m) == [p EXCEPT !.approval = m, !.dirty = TRUE]

\* The record #writePending writes.
Record(p) ==
    [producer |-> p.id, version |-> <<p.id, p.revision>>, cwd |-> p.ws.cwd,
     state |-> IF p.refreshing THEN "unknown" ELSE p.ws.state, by |-> p.ws.by,
     commit |-> IF p.refreshing THEN NoCommit ELSE p.ws.commit,
     approval |-> p.approval]
-------------------------------------------------------------------------------
(* The entry *)

\* Mutant: a session's event is believed as a refresh is.
ObservedAtOnce(p, w, source) ==
    IF ~ (active /\ accepting /\ p.phase = "on") THEN p
    ELSE IF w.state = "unknown"
    THEN BeginWorkspaceRefresh(
             IF w.cwd # p.ws.cwd THEN UpdatePublished(p, Unknown(w.cwd)) ELSE p)
    ELSE UpdatePublished(p, w)

\* observeWorkspace: what a session's event says is published once it is
\* verified; until then the directory is, without a repository.
Observed(p, w, source) ==
    IF ~ (active /\ accepting /\ p.phase = "on") THEN p
    ELSE IF source = "session" \/ w.state = "unknown"
    THEN BeginWorkspaceRefresh(
             IF w.cwd # p.ws.cwd THEN UpdatePublished(p, Unknown(w.cwd)) ELSE p)
    ELSE UpdatePublished(p, w)

\* onWorkspaceRefreshStarted
RefreshStarted(p) == IF p.phase = "on" THEN BeginWorkspaceRefresh(p) ELSE p

\* ensurePublisher up to the lease, which a reader's probe may hold just then.
EnsurePublisher ==
    IF active /\ accepting /\ pub.phase = "none" /\ lease = "none"
    THEN /\ producers' = producers + 1
         /\ lease' = "producer"
         /\ pub' = [phase |-> "starting", id |-> producers + 1, ws |-> ws,
                    revision |-> 0, refreshing |-> FALSE, approval |-> NoApproval,
                    dirty |-> TRUE, out |-> NoFile]
         /\ UNCHANGED file
    ELSE UNCHANGED publisherVars

PublishBegins ==
    /\ pub.phase \in {"starting", "on"} /\ pub.out = NoFile /\ pub.dirty
    /\ pub' = [pub EXCEPT !.out = Record(pub), !.dirty = FALSE]
    /\ UNCHANGED <<lease, file, producers, entryVars>>

\* The rest of ensurePublisher once start() has returned.
Started(p) ==
    IF ~ (active /\ accepting) THEN [p EXCEPT !.phase = "stopping"]
    ELSE LET on == UpdatePublished([p EXCEPT !.phase = "on"], ws)
             checked == IF rechecking THEN BeginWorkspaceRefresh(on) ELSE on
         IN  IF said = NoApproval THEN checked ELSE ObserveUserMessage(checked, said)

\* The file is replaced.  #writePending goes on while there is more to write,
\* and a publisher that was starting has started.
PublishEnds ==
    /\ pub.out # NoFile
    /\ file' = pub.out
    /\ LET written == IF pub.dirty
                      THEN [pub EXCEPT !.out = Record(pub), !.dirty = FALSE]
                      ELSE [pub EXCEPT !.out = NoFile]
       IN  pub' = IF pub.phase = "starting" THEN Started(written) ELSE written
    /\ said' = IF pub.phase = "starting" THEN NoApproval ELSE said
    /\ UNCHANGED <<lease, producers, active, accepting, rechecking>>

\* A write fails.  start() gives its leases up; afterwards failPublisher stops
\* the publisher, and a stop that was waiting for the write gives up too.
PublishFails ==
    /\ pub.out # NoFile
    /\ IF pub.phase = "on"
       THEN /\ pub' = [pub EXCEPT !.phase = "stopping", !.out = NoFile]
            /\ UNCHANGED lease
       ELSE pub' = NoPublisher /\ lease' = "none"
    /\ UNCHANGED <<file, producers, entryVars>>

\* stop(): the record goes if it is this producer's, then the leases.
PublisherStops ==
    /\ pub.phase = "stopping" /\ pub.out = NoFile
    /\ file' = IF file.producer = pub.id THEN NoFile ELSE file
    /\ lease' = "none" /\ pub' = NoPublisher
    /\ UNCHANGED <<producers, entryVars>>
===============================================================================
