------------------------------ MODULE EventMapper ------------------------------
(***************************************************************************)
(* CopilotEventMapper: every event it maps carries the workspace it holds, *)
(* which the host's events and the answers of refreshes replace; and a     *)
(* tool's completion becomes evidence only against its recorded start.     *)
(*                                                                         *)
(* The host's session is in a directory, which may be the worktree of a    *)
(* repository.  Branch, worktree and commit parents follow the commit, and *)
(* malformed events, which change nothing, are left out.                   *)
(***************************************************************************)
EXTENDS Integers, FiniteSets, Sequences

CONSTANTS
    Dirs,       \* directories the session can be in
    Repos,      \* those that are worktrees of a repository
    Tools       \* tool calls of the session

ASSUME ReposAssumption == Repos \subseteq Dirs

VARIABLES
    here,       \* the session's directory, as the host has it
    head,       \* per directory, its HEAD
    running,    \* per tool call, what is true of it: "no", or where it began
                \* and whether capture was off since
    ws,         \* #workspace
    pending,    \* #workspacePending: the host is yet to tell the Git context
    operations, \* #operations: per tool call, the workspace of its recorded start
    evidence    \* derived evidence handed to the writer

hostVars == <<here, head, running>>
mapperVars == <<ws, pending, operations, evidence>>

NoCommit == -1
NotRunning == [at |-> "nowhere", gap |-> FALSE]
NoOperation == [recorded |-> FALSE]
-------------------------------------------------------------------------------
(* Workspaces: "by" says whether Git or the host identified the repository, *)
(* whose names for one repository differ.                                   *)

Unknown(d) == [cwd |-> d, state |-> "unknown", by |-> "host", commit |-> NoCommit]

\* resolveSession, through refreshWorkspace.
Resolved(d) ==
    IF d \in Repos
    THEN [cwd |-> d, state |-> "known", by |-> "git", commit |-> head[d]]
    ELSE [cwd |-> d, state |-> "outside", by |-> "git", commit |-> NoCommit]

\* #contextWorkspace: the same worktree keeps the identity it has.
ContextWorkspace(d) ==
    IF d \in Repos
    THEN [cwd |-> d, state |-> "known", commit |-> head[d],
          by |-> IF ws.cwd = d /\ ws.state = "known" THEN ws.by ELSE "host"]
    ELSE [cwd |-> d, state |-> "outside", by |-> "host", commit |-> NoCommit]

\* A context without its Git part: of what is known only the repository of the
\* same worktree stays.
PendingWorkspace(d) ==
    IF ws.cwd = d /\ ws.state = "known"
    THEN [ws EXCEPT !.commit = NoCommit]
    ELSE Unknown(d)
-------------------------------------------------------------------------------
\* A mapper knows the directory it was made with, and nothing of its Git.
InitMapper ==
    /\ ws = Unknown(here) /\ pending = FALSE
    /\ operations = [t \in Tools |-> NoOperation] /\ evidence = {}

\* session.start and session.context_changed
MapContext(d, complete) ==
    /\ ws' = IF complete THEN ContextWorkspace(d) ELSE PendingWorkspace(d)
    /\ pending' = ~ complete

\* updateWorkspace
UpdateWorkspace(w) == ws' = w /\ pending' = FALSE

\* tool.execution_start
MapToolStart(t) ==
    operations' = [operations EXCEPT ![t] =
                     [recorded |-> TRUE, ws |-> ws, pending |-> pending]]

SameRepository(op) ==
    /\ ~ op.pending /\ ~ pending
    /\ op.ws.state = "known" /\ ws.state = "known"
    /\ <<op.ws.cwd, op.ws.by, op.ws.commit>> = <<ws.cwd, ws.by, ws.commit>>

\* tool.execution_complete: evidence of a verification in one workspace.
MapToolComplete(t) ==
    /\ operations' = [operations EXCEPT ![t] = NoOperation]
    /\ evidence' =
         IF operations[t].recorded /\ SameRepository(operations[t])
         THEN evidence \cup {[at |-> operations[t].ws.cwd, began |-> running[t].at,
                              ended |-> here, gap |-> running[t].gap]}
         ELSE evidence

\* resetCaptureChain
ResetCaptureChain == operations' = [t \in Tools |-> NoOperation]
===============================================================================
