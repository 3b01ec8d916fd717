---------------------------- MODULE SessionContext -----------------------------
(***************************************************************************)
(* A Copilot session end to end: the host and its user, the extension that *)
(* captures the session and publishes its trusted context, and the MCP     *)
(* server of the same session, which believes that context, proposes       *)
(* feedback to the user and applies what the user's own message approves.  *)
(*                                                                         *)
(* The age limits of a record, of its repository and of an approval only   *)
(* add refusals, which a call may meet here at any time.                   *)
(***************************************************************************)
EXTENDS ExtensionRuntime

CONSTANTS
    Operations,     \* feedback the agent may propose
    MaxCalls        \* bound on the agent's calls of the MCP server

VARIABLES
    reader,     \* the MCP server's reading of the context
    shown,      \* proposals shown, with their codes
    applied,    \* feedback applied
    lastSaid,   \* the user's last message: an approval or something else
    calls

userVars == <<shown, applied, lastSaid, calls>>
runtimeAll == <<hostVars, mapperVars, runtimeVars, processVars, wanted, entryVars>>
vars == <<runtimeAll, events, publisherVars, reader, userVars>>

Idle == [at |-> "idle"]
Other == <<"other">>

\* approvalCode
ApprovalCode(op, context) == <<op, context.cwd, context.version>>
-------------------------------------------------------------------------------
(* The user *)

\* A message: the listener begins a refresh and tells the publisher.  While
\* there is none the message is kept for the one that starts, and while that
\* waits for the one before it to stop.
UserSays(m) ==
    /\ Happens
    /\ lastSaid' = m
    /\ LET approval == IF m = Other THEN NoApproval ELSE m
           heard == IF pub.phase = "on"
                    THEN BeginWorkspaceRefresh(ObserveUserMessage(pub, approval))
                    ELSE pub
       IN  IF ~ (alive /\ active /\ accepting)
           THEN UNCHANGED <<rechecking, said, refresh, again, pub>>
           ELSE /\ rechecking' = TRUE
                /\ \/ pub.phase \in {"starting", "stopping"} /\ said' = approval
                   \/ pub.phase # "starting" /\ UNCHANGED said
                /\ IF Closing THEN pub' = heard /\ UNCHANGED <<refresh, again>>
                   ELSE ScheduleRefresh(heard, FALSE)
    /\ UNCHANGED <<hostVars, mapperVars, enabled, lease, file, producers,
                   active, accepting, processVars, wanted, reader, shown,
                   applied, calls>>
-------------------------------------------------------------------------------
(* readTrustedSessionContext, under the guard of one reader at a time *)

\* The session's lease is tried: whoever gets it knows there is no producer.
\* Otherwise the record is read, later perhaps, but a producer that is gone by
\* then is found out all the same.
ReadBegins ==
    /\ reader = Idle /\ calls < MaxCalls /\ calls' = calls + 1
    /\ IF lease = "none"
       THEN reader' = [at |-> "probing"] /\ lease' = "reader"
       ELSE /\ reader' = IF file = NoFile THEN Idle
                         ELSE [at |-> "checking", context |-> file]
            /\ UNCHANGED lease
    /\ UNCHANGED <<runtimeAll, events, pub, file, producers, shown, applied, lastSaid>>

ProbeEnds ==
    /\ reader.at = "probing"
    /\ reader' = Idle /\ lease' = "none"
    /\ UNCHANGED <<runtimeAll, events, pub, file, producers, userVars>>

\* tools/call: without a known repository there is no call.
Unavailable(context) == context.state = "unknown"

\* callTool, feedback: the approval of this very proposal applies it; otherwise
\* its code is shown.
Feedback(op, context) ==
    LET code == ApprovalCode(op, context)
        proposal == [op |-> op, code |-> code, version |-> context.version]
    IN  IF Unavailable(context) THEN UNCHANGED <<shown, applied>>
        ELSE IF context.approval = code
        THEN applied' = applied \cup {proposal} /\ UNCHANGED shown
        ELSE shown' = shown \cup {proposal} /\ UNCHANGED applied

\* The record is believed if its producer lives, and if it is not too old.
ReadEnds(op) ==
    /\ reader.at = "checking"
    /\ reader' = Idle
    /\ \/ UNCHANGED <<shown, applied>>
       \/ /\ pub.phase # "none" /\ pub.id = reader.context.producer
          /\ Feedback(op, reader.context)
    /\ UNCHANGED <<runtimeAll, events, publisherVars, lastSaid, calls>>
-------------------------------------------------------------------------------
Init ==
    /\ InitRuntime
    /\ reader = Idle /\ shown = {} /\ applied = {} /\ lastSaid = NoApproval
    /\ calls = 0

Next ==
    \/ RuntimeNext /\ UNCHANGED <<reader, userVars>>
    \/ \E m \in {s.code : s \in shown} \cup {Other} : UserSays(m)
    \/ ReadBegins \/ ProbeEnds
    \/ \E op \in Operations : ReadEnds(op)

Spec == Init /\ [][Next]_vars
-------------------------------------------------------------------------------
MapperInPlace == alive /\ ~ Closing => ws.cwd = here

EvidenceInPlace ==
    \A e \in evidence : e.at = e.began /\ e.ended = e.began /\ ~ e.gap

\* What is captured is captured in its place: the mapper's workspace is where the
\* host's session is, whatever late answers of refreshes say, and evidence is
\* derived only of a tool call that began and ended in the workspace it names,
\* with capture on all the while.
CapturedInPlace == MapperInPlace /\ EvidenceInPlace

Settled == pub.phase = "on" /\ ~ pub.dirty /\ pub.out = NoFile

\* Once the publisher has nothing left to write, the record on disk is its own, it
\* is of the session's directory, and a repository it gives as known is the one
\* Git identified, at the mapper's commit.
PublishedIsCurrent ==
    Settled /\ active /\ accepting /\ ~ Closing =>
        /\ file.producer = pub.id
        /\ file.cwd = here
        /\ file.state # "unknown" => file.by = "git" /\ file.commit = ws.commit

\* An approval that a settled record holds for its own workspace is what the user
\* said last.
WithdrawnStays ==
    Settled /\ active /\ accepting /\ file.approval # NoApproval
            /\ file.approval[3] = file.version =>
        file.approval = lastSaid

AppliedAsShown == applied \subseteq shown

\* Feedback is applied only as it was shown to the user, in the very version of the
\* workspace it was shown for; and a later message of the user withdraws an
\* approval that was not used yet.
ApprovalsAreHonoured == AppliedAsShown /\ WithdrawnStays
===============================================================================
