----------------------------- MODULE ExtensionProofs -----------------------------
(***************************************************************************)
(* What is proved of the Copilot extension's process: of SessionContext,   *)
(* for any directories, repositories, tools and operations and any number  *)
(* of events and calls, and of CaptureWriter, for any events of any sizes  *)
(* and any limits of the buffer.  What is captured is captured in its      *)
(* place, what is published settles on it, and feedback is applied as the  *)
(* user approved it; what a full buffer gave up is accounted for, and what *)
(* it accepted reaches the queue in order or stays.                        *)
(*                                                                         *)
(* The invariant of SessionContext says what late answers cannot undo.  A  *)
(* refresh that is fresh asked about the directory the mapper is in; one   *)
(* that is not has another behind it, and until that has answered the      *)
(* publisher says nothing of the repository.  What the publisher has not   *)
(* to write is what it wrote.  An approval is the code of something shown, *)
(* and the one that speaks of this publisher is the user's last word.      *)
(*                                                                         *)
(* The invariant of CaptureWriter says that the gaps kept and the gaps     *)
(* reported began with different events: a set of reports loses none.  Its *)
(* sums are over sequences of any length, so their laws come first, by     *)
(* induction: a set of naturals has a least element, since < is well       *)
(* founded on Nat.                                                         *)
(***************************************************************************)
EXTENDS SessionContext, CaptureWriter, FiniteSetTheorems, WellFoundedInduction, TLAPS

(* SessionContext *)

Recordings ==
    \A t \in Tools : operations[t].recorded =>
        /\ alive
        /\ ~ Closing => /\ enabled /\ operations[t].ws.cwd = running[t].at
                        /\ ~ running[t].gap

WorkspaceForm(w) == w = [cwd |-> w.cwd, state |-> w.state, by |-> w.by, commit |-> w.commit]

\* A refresh: what it was told is of the directory the mapper is in, unless
\* another one follows it.
Refreshing ==
    \/ refresh = NoRefresh
    \/ /\ \/ refresh = [phase |-> "due", fresh |-> refresh.fresh]
          \/ /\ refresh = [phase |-> "asked", fresh |-> refresh.fresh,
                           snapshot |-> refresh.snapshot]
             /\ WorkspaceForm(refresh.snapshot) /\ refresh.snapshot.by = "git"
             /\ refresh.fresh => refresh.snapshot.cwd = ws.cwd
       /\ refresh.fresh \in BOOLEAN
       /\ ~ refresh.fresh => again

Mapping ==
    /\ WorkspaceForm(ws)
    /\ MapperInPlace
    /\ alive /\ ~ rechecking => ws.by = "git"

Maps ==
    /\ running = [t \in Tools |-> running[t]] /\ operations = [t \in Tools |-> operations[t]]
    /\ rechecking \in BOOLEAN

MapperInv == Maps /\ Recordings /\ EvidenceInPlace /\ Mapping /\ Refreshing

\* A process that has not begun.
Asleep ==
    ~ alive => pub = NoPublisher /\ stage = "open" /\ refresh = NoRefresh /\ ~ again

PublisherForm(p) ==
    /\ p = [phase |-> p.phase, id |-> p.id, ws |-> p.ws, revision |-> p.revision,
            refreshing |-> p.refreshing, approval |-> p.approval,
            dirty |-> p.dirty, out |-> p.out]
    /\ p.phase \in {"starting", "on", "stopping"}
    /\ p.id \in Nat \ {0}
    /\ p.refreshing \in BOOLEAN /\ p.dirty \in BOOLEAN

\* What the publisher has not to write, it is writing or has written.
Written(p, f) ==
    p.phase \in {"starting", "on"} /\ ~ p.dirty =>
        IF p.out = NoFile THEN f = Record(p) ELSE p.out = Record(p)

InPlace(p) ==
    p.phase = "on" /\ active /\ accepting /\ ~ Closing =>
        /\ p.ws.cwd = here
        /\ ~ p.refreshing /\ p.ws.state # "unknown" =>
              p.ws.by = "git" /\ p.ws.commit = ws.commit

Publishing ==
    /\ producers \in Nat
    /\ pub = NoPublisher \/ (PublisherForm(pub) /\ pub.id <= producers)
    /\ Written(pub, file)

Codes == {s.code : s \in shown}
Approved(a) == a = NoApproval \/ a \in Codes

\* Proposals name the version of the workspace they were shown for.
Proposals ==
    /\ \A s \in shown : /\ s = [op |-> s.op, code |-> s.code, version |-> s.version]
                        /\ s.code = <<s.op, s.code[2], s.version>>
                        /\ s.version[1] \in 1 .. producers
    /\ applied \subseteq shown

RecordForm(f) ==
    f = NoFile \/ /\ f.producer \in 1 .. producers /\ f.version[1] = f.producer
                  /\ Approved(f.approval)

Approvals ==
    /\ RecordForm(file)
    /\ reader.at = "checking" => RecordForm(reader.context)
    /\ Approved(said)
    /\ pub # NoPublisher => /\ Approved(pub.approval) /\ RecordForm(pub.out)
                            /\ pub.phase = "starting" => pub.approval = NoApproval

\* What still speaks of this publisher is what the user said last.
LastWord ==
    active /\ accepting =>
        /\ pub.phase = "starting" /\ said # NoApproval /\ said[3][1] = pub.id => said = lastSaid
        /\ pub.phase = "on" /\ pub.approval # NoApproval /\ pub.approval[3][1] = pub.id =>
              pub.approval = lastSaid

IInv ==
    /\ MapperInv /\ Asleep
    /\ Publishing /\ InPlace(pub) /\ Proposals /\ Approvals /\ LastWord
-------------------------------------------------------------------------------
(* The publisher's methods *)

\* A refresh that begins hides the repository, and is to be written.
LEMMA BegunForm ==
    ASSUME NEW p, PublisherForm(p), NEW q, q = BeginWorkspaceRefresh(p)
    PROVE  /\ PublisherForm(q) /\ q.refreshing /\ q.dirty
           /\ q.phase = p.phase /\ q.id = p.id /\ q.ws = p.ws
           /\ q.approval = p.approval /\ q.out = p.out
  BY DEF PublisherForm, BeginWorkspaceRefresh

\* An update publishes the workspace; it keeps the approval or ends it.
LEMMA UpdatedForm ==
    ASSUME NEW p, PublisherForm(p), NEW w, NEW q, q = UpdatePublished(p, w)
    PROVE  /\ PublisherForm(q) /\ ~ q.refreshing /\ q.dirty
           /\ q.phase = p.phase /\ q.id = p.id /\ q.ws = w
           /\ q.approval \in {p.approval, NoApproval} /\ q.out = p.out
<1>1. CASE w = p.ws
  BY <1>1 DEF PublisherForm, UpdatePublished
<1>2. CASE w # p.ws
  BY <1>2 DEF PublisherForm, UpdatePublished
<1> QED BY <1>1, <1>2

\* A message replaces the approval.
LEMMA HeardForm ==
    ASSUME NEW p, PublisherForm(p), NEW m, NEW q, q = ObserveUserMessage(p, m)
    PROVE  /\ PublisherForm(q) /\ q.dirty /\ q.refreshing = p.refreshing
           /\ q.phase = p.phase /\ q.id = p.id /\ q.ws = p.ws
           /\ q.approval = m /\ q.out = p.out
  BY DEF PublisherForm, ObserveUserMessage

\* q is p after some methods of a publisher that is on, and no more approved.
Later(p, q) ==
    \/ q = p
    \/ /\ PublisherForm(p) /\ PublisherForm(q)
       /\ p.phase = "on" /\ q.phase = "on" /\ q.id = p.id /\ q.out = p.out /\ q.dirty
       /\ q.approval \in {p.approval, NoApproval}

LEMMA LaterIsTransitive ==
    ASSUME NEW p, NEW q, NEW r, Later(p, q), Later(q, r)
    PROVE  Later(p, r)
  BY DEF Later

\* Of what is observed only a refresh's answer may be said to be the repository.
LEMMA ObservedForm ==
    ASSUME NEW p, PublisherForm(p), NEW w, NEW s, NEW q, q = Observed(p, w, s)
    PROVE  /\ Later(p, q)
           /\ active /\ accepting /\ p.phase = "on" =>
                 \/ q.refreshing /\ q.ws.cwd = w.cwd
                 \/ s # "session" /\ q.ws = w
<1>1. CASE ~ (active /\ accepting /\ p.phase = "on")
  BY <1>1 DEF Observed, Later
<1>2. CASE /\ active /\ accepting /\ p.phase = "on"
           /\ ~ (s = "session" \/ w.state = "unknown")
  <2>1. q = UpdatePublished(p, w)
    BY <1>2 DEF Observed
  <2> QED BY <2>1, <1>2, UpdatedForm DEF Later
<1>3. CASE /\ active /\ accepting /\ p.phase = "on"
           /\ s = "session" \/ w.state = "unknown"
  <2>1. PICK u : u = IF w.cwd # p.ws.cwd THEN UpdatePublished(p, Unknown(w.cwd)) ELSE p
    OBVIOUS
  <2>2. q = BeginWorkspaceRefresh(u)
    BY <1>3, <2>1 DEF Observed
  <2>3. /\ PublisherForm(u) /\ u.ws.cwd = w.cwd
        /\ u.phase = "on" /\ u.id = p.id /\ u.out = p.out
        /\ u.approval \in {p.approval, NoApproval}
    <3>1. CASE w.cwd = p.ws.cwd
      BY <3>1, <2>1, <1>3
    <3>2. CASE w.cwd # p.ws.cwd
      <4>1. u = UpdatePublished(p, Unknown(w.cwd))
        BY <3>2, <2>1
      <4>2. u.ws = Unknown(w.cwd)
        BY <4>1, UpdatedForm
      <4> QED BY <4>1, <4>2, <1>3, UpdatedForm DEF Unknown
    <3> QED BY <3>1, <3>2
  <2> QED BY <2>2, <2>3, <1>3, BegunForm DEF Later
<1> QED BY <1>1, <1>2, <1>3

LEMMA RefreshStartedForm ==
    ASSUME NEW p, PublisherForm(p), NEW q, q = RefreshStarted(p)
    PROVE  /\ Later(p, q) /\ q.ws = p.ws
           /\ p.phase = "on" => q.refreshing
<1>1. CASE p.phase = "on"
  BY <1>1, BegunForm DEF RefreshStarted, Later
<1>2. CASE p.phase # "on"
  BY <1>2 DEF RefreshStarted, Later
<1> QED BY <1>1, <1>2

\* No publisher observes nothing.
LEMMA NobodyObserves ==
    ASSUME NEW w, NEW s
    PROVE  /\ Observed(NoPublisher, w, s) = NoPublisher
           /\ RefreshStarted(NoPublisher) = NoPublisher
  BY DEF Observed, RefreshStarted, NoPublisher
-------------------------------------------------------------------------------
(* What is left alone *)

MapperStays == UNCHANGED <<hostVars, mapperVars, runtimeVars, stage, alive, rechecking>>
UserStays == UNCHANGED <<reader, userVars>>

LEMMA MapperFrame ==
    ASSUME MapperInv, MapperStays
    PROVE  MapperInv'
<1>1. Recordings'
  BY DEF MapperInv, MapperStays, Recordings, hostVars, mapperVars, runtimeVars, Closing
<1>2. Maps' /\ EvidenceInPlace'
  BY DEF MapperInv, MapperStays, Maps, EvidenceInPlace, hostVars, mapperVars
<1>3. Mapping' /\ Refreshing'
  BY DEF MapperInv, MapperStays, Mapping, MapperInPlace, Refreshing, WorkspaceForm,
         hostVars, mapperVars, runtimeVars, Closing
<1> QED BY <1>1, <1>2, <1>3 DEF MapperInv

LEMMA ProposalsStay ==
    ASSUME Proposals, UNCHANGED <<producers, shown, applied>>
    PROVE  Proposals'
  BY DEF Proposals

\* What is approved, and a record, stays so while nothing shown is forgotten.
LEMMA RecordStays ==
    ASSUME NEW f, RecordForm(f), producers \in Nat, producers' \in Nat,
           producers' >= producers, shown \subseteq shown'
    PROVE  RecordForm(f)'
<1>1. CASE f = NoFile
  BY <1>1 DEF RecordForm
<1>2. CASE f # NoFile
  <2>1. f.producer \in 1 .. producers' /\ f.version[1] = f.producer
    BY <1>2 DEF RecordForm
  <2>2. Approved(f.approval)'
    BY <1>2 DEF RecordForm, Approved, Codes
  <2> QED BY <2>1, <2>2 DEF RecordForm
<1> QED BY <1>1, <1>2

LEMMA ApprovedStays ==
    ASSUME NEW a, Approved(a), shown \subseteq shown'
    PROVE  Approved(a)'
  BY DEF Approved, Codes

\* Whatever the publisher's methods made of it, what it has to write is to be
\* written, and it holds no approval that it had not.
LEMMA PublisherGoesOn ==
    ASSUME Publishing, Proposals, Approvals, LastWord,
           NEW q, q = pub', Later(pub, q),
           UNCHANGED <<file, producers, reader, shown, applied, lastSaid>>,
           said' \in {said, NoApproval},
           active' /\ accepting' => (active /\ accepting) \/ pub = NoPublisher
    PROVE  Publishing' /\ Proposals' /\ Approvals' /\ LastWord'
<1>1. producers \in Nat /\ producers' = producers /\ shown \subseteq shown'
  BY DEF Publishing
<1>2. Proposals'
  BY ProposalsStay
<1>3. RecordForm(file)' /\ (reader.at = "checking" => RecordForm(reader.context))'
  BY <1>1, RecordStays DEF Approvals, RecordForm, Approved, Codes
<1>4. Approved(said)'
  BY <1>1 DEF Approvals, Approved, Codes
<1>5. CASE q = pub
  <2>1. Publishing'
    BY <1>5 DEF Publishing, Written, PublisherForm, Record, NoPublisher
  <2>2. Approvals'
    BY <1>5, <1>1, <1>3, <1>4 DEF Approvals, RecordForm, Approved, Codes
  <2>3. LastWord'
    BY <1>5 DEF LastWord, NoPublisher
  <2> QED BY <1>2, <2>1, <2>2, <2>3
<1>6. CASE q # pub
  <2>1. /\ PublisherForm(pub) /\ PublisherForm(q)
        /\ pub.phase = "on" /\ q.phase = "on" /\ q.id = pub.id /\ q.out = pub.out /\ q.dirty
        /\ q.approval \in {pub.approval, NoApproval}
    BY <1>6 DEF Later
  <2>2. pub # NoPublisher /\ q # NoPublisher
    BY <2>1 DEF NoPublisher
  <2>3. pub.id <= producers
    BY <2>2 DEF Publishing
  <2>4. Publishing'
    <3>1. PublisherForm(q) /\ q.id <= producers'
      BY <2>1, <2>3, <1>1
    <3>2. Written(q, file)
      BY <2>1 DEF Written
    <3>3. PublisherForm(pub)' /\ pub'.id <= producers'
      BY <3>1 DEF PublisherForm
    <3>4. Written(pub, file)'
      BY <3>2 DEF Written, Record
    <3> QED BY <1>1, <3>3, <3>4 DEF Publishing
  <2>5. Approved(q.approval)' /\ RecordForm(q.out)'
    <3>1. Approved(pub.approval) /\ RecordForm(pub.out)
      BY <2>2 DEF Approvals
    <3>2. Approved(q.approval)
      BY <3>1, <2>1 DEF Approved
    <3>3. RecordForm(q.out)
      BY <3>1, <2>1
    <3> QED BY <3>2, <3>3, <1>1, ApprovedStays, RecordStays
  <2>6. Approvals'
    BY <2>1, <2>5, <1>3, <1>4 DEF Approvals, RecordForm, Approved, Codes
  <2>7. LastWord'
    BY <2>1, <2>2 DEF LastWord
  <2> QED BY <1>2, <2>4, <2>6, <2>7
<1> QED BY <1>5, <1>6

\* The place stays, and what is said of it, or nothing is said.
LEMMA PlaceStays ==
    ASSUME InPlace(pub), NEW q, q = pub', Later(pub, q), q # NoPublisher => q.ws = pub.ws,
           pub.phase = "on" /\ pub.refreshing => q.refreshing,
           UNCHANGED <<here, ws>>, active' /\ accepting' => active /\ accepting,
           ~ Closing' => ~ Closing
    PROVE  InPlace(pub)'
  BY DEF InPlace, Later, NoPublisher, Closing, PublisherForm
-------------------------------------------------------------------------------
(* The host's events *)

\* A refresh that is wanted is scheduled, or is behind the one under way.
LEMMA ScheduledForm ==
    ASSUME Refreshing, NEW p, NEW moved \in BOOLEAN, ScheduleRefresh(p, moved),
           ~ moved => ws' = ws
    PROVE  Refreshing' /\ refresh' # NoRefresh
<1>1. CASE refresh.phase = "none"
  <2>1. refresh' = Due
    BY <1>1 DEF ScheduleRefresh
  <2> QED BY <2>1 DEF Refreshing, Due, NoRefresh
<1>2. CASE refresh.phase # "none" /\ ~ moved
  BY <1>2 DEF ScheduleRefresh, Refreshing, NoRefresh, WorkspaceForm
<1>3. CASE refresh.phase # "none" /\ moved
  <2>1. PICK r : r = refresh
    OBVIOUS
  <2>2. PICK q : q = [r EXCEPT !.fresh = FALSE]
    OBVIOUS
  <2>3. refresh' = q /\ again'
    BY <1>3, <2>1, <2>2 DEF ScheduleRefresh
  <2>4. CASE r = [phase |-> "due", fresh |-> r.fresh]
    <3>1. r = [phase |-> r.phase, fresh |-> r.fresh] /\ r.phase = "due"
      BY <2>4
    <3>2. q = [phase |-> q.phase, fresh |-> q.fresh] /\ q.phase = "due" /\ q.fresh = FALSE
      BY <2>2, <3>1
    <3>3. q = [phase |-> "due", fresh |-> q.fresh]
      BY <3>2
    <3>4. refresh' # NoRefresh
      BY <3>2, <2>3 DEF NoRefresh
    <3>5. /\ refresh' = [phase |-> "due", fresh |-> refresh'.fresh]
          /\ refresh'.fresh = FALSE /\ again'
      BY <3>2, <3>3, <2>3
    <3> QED BY <3>4, <3>5 DEF Refreshing
  <2>5. CASE r = [phase |-> "asked", fresh |-> r.fresh, snapshot |-> r.snapshot]
    <3>1. /\ r = [phase |-> r.phase, fresh |-> r.fresh, snapshot |-> r.snapshot]
          /\ r.phase = "asked"
      BY <2>5
    <3>2. /\ q = [phase |-> q.phase, fresh |-> q.fresh, snapshot |-> q.snapshot]
          /\ q.phase = "asked" /\ q.fresh = FALSE /\ q.snapshot = r.snapshot
      BY <2>2, <3>1
    <3>3. q = [phase |-> "asked", fresh |-> q.fresh, snapshot |-> q.snapshot]
      BY <3>2
    <3>4. WorkspaceForm(r.snapshot) /\ r.snapshot.by = "git"
      BY <1>3, <2>1, <2>5 DEF Refreshing, NoRefresh
    <3>5. refresh' # NoRefresh
      BY <3>2, <2>3 DEF NoRefresh
    <3>6. /\ refresh' = [phase |-> "asked", fresh |-> refresh'.fresh,
                         snapshot |-> refresh'.snapshot]
          /\ refresh'.fresh = FALSE /\ again' /\ refresh'.snapshot = r.snapshot
      BY <3>2, <3>3, <2>3
    <3>7. WorkspaceForm(refresh'.snapshot) /\ refresh'.snapshot.by = "git"
      BY <3>4, <3>6
    <3>8. WorkspaceForm(refresh.snapshot)'
      BY <3>7 DEF WorkspaceForm
    <3> QED BY <3>5, <3>6, <3>7, <3>8 DEF Refreshing
  <2> QED BY <1>3, <2>1, <2>4, <2>5 DEF Refreshing, NoRefresh
<1> QED BY <1>1, <1>2, <1>3

\* Scheduling one hides the repository, if none is under way.
LEMMA ScheduledPublisher ==
    ASSUME NEW p, p = NoPublisher \/ PublisherForm(p), NEW moved, ScheduleRefresh(p, moved)
    PROVE  /\ Later(p, pub')
           /\ p # NoPublisher => pub'.ws = p.ws
           /\ p.phase = "on" /\ p.refreshing => pub'.refreshing
           /\ p = NoPublisher => pub' = NoPublisher
<1>1. pub' = p \/ pub' = RefreshStarted(p)
  BY DEF ScheduleRefresh
<1>2. CASE pub' = p
  BY <1>2 DEF Later
<1>3. CASE pub' = RefreshStarted(p) /\ PublisherForm(p)
  BY <1>3, RefreshStartedForm DEF NoPublisher, PublisherForm
<1>4. CASE pub' = RefreshStarted(p) /\ p = NoPublisher
  BY <1>4, NobodyObserves DEF Later, NoPublisher
<1> QED BY <1>1, <1>2, <1>3, <1>4

LEMMA MovedForm ==
    ASSUME WorkspaceForm(ws), NEW d, NEW c, MapContext(d, c)
    PROVE  WorkspaceForm(ws') /\ ws'.cwd = d
<1>1. WorkspaceForm(ContextWorkspace(d)) /\ ContextWorkspace(d).cwd = d
  BY DEF ContextWorkspace, WorkspaceForm
<1>2. WorkspaceForm(PendingWorkspace(d)) /\ PendingWorkspace(d).cwd = d
  BY DEF PendingWorkspace, WorkspaceForm, Unknown
<1> QED BY <1>1, <1>2 DEF MapContext

LEMMA HostMovesStep ==
    ASSUME IInv, NEW d, NEW c \in BOOLEAN, HostMoves(d, c), UserStays
    PROVE  IInv'
<1>1. UNCHANGED <<reader, shown, applied, lastSaid>>
  BY DEF UserStays, userVars
<1>2. CASE ~ alive \/ Closing
  <2>1. /\ UNCHANGED <<mapperVars, runtimeVars, publisherVars, entryVars, processVars>>
        /\ UNCHANGED <<head, running>>
    BY <1>2 DEF HostMoves
  <2>2. MapperInv'
    <3>1. Maps' /\ EvidenceInPlace' /\ Refreshing'
      BY <2>1 DEF IInv, MapperInv, Maps, EvidenceInPlace, Refreshing, WorkspaceForm,
                  mapperVars, runtimeVars, entryVars
    <3>2. Recordings'
      BY <2>1, <1>2 DEF IInv, MapperInv, Recordings, Closing, mapperVars, runtimeVars,
                        processVars
    <3>3. Mapping'
      BY <2>1, <1>2 DEF IInv, MapperInv, Mapping, MapperInPlace, WorkspaceForm, Closing,
                        mapperVars, entryVars, processVars
    <3> QED BY <3>1, <3>2, <3>3 DEF MapperInv
  <2>3. Asleep'
    BY <2>1 DEF IInv, Asleep, publisherVars, processVars, runtimeVars
  <2>4. Publishing' /\ Proposals' /\ Approvals' /\ LastWord'
    BY <2>1, <1>1, PublisherGoesOn DEF IInv, Later, publisherVars, entryVars
  <2>5. InPlace(pub)'
    <3>1. CASE ~ alive
      BY <3>1, <2>1 DEF IInv, Asleep, InPlace, NoPublisher, publisherVars
    <3>2. CASE Closing
      BY <3>2, <2>1 DEF InPlace, Closing, processVars
    <3> QED BY <1>2, <3>1, <3>2
  <2> QED BY <2>2, <2>3, <2>4, <2>5 DEF IInv
<1>3. CASE alive /\ ~ Closing
  <2>1. /\ MapContext(d, c) /\ here' = d
        /\ rechecking' = TRUE /\ said' = NoApproval
        /\ ScheduleRefresh(Observed(pub, ws', "session"), TRUE)
        /\ UNCHANGED <<operations, evidence, enabled, lease, file, producers,
                       active, accepting>>
        /\ UNCHANGED <<head, running, processVars>>
    BY <1>3 DEF HostMoves
  <2>2. WorkspaceForm(ws') /\ ws'.cwd = d
    BY <2>1, MovedForm DEF IInv, MapperInv, Mapping
  <2>3. MapperInv'
    <3>1. Maps' /\ EvidenceInPlace'
      BY <2>1 DEF IInv, MapperInv, Maps, EvidenceInPlace
    <3>2. Refreshing'
      BY <2>1, ScheduledForm DEF IInv, MapperInv
    <3>3. Recordings'
      BY <2>1, <1>3 DEF IInv, MapperInv, Recordings, Closing, processVars
    <3>4. Mapping'
      BY <2>1, <2>2 DEF Mapping, MapperInPlace, WorkspaceForm
    <3> QED BY <3>1, <3>2, <3>3, <3>4 DEF MapperInv
  <2>4. Asleep'
    BY <2>1, <1>3 DEF Asleep, processVars
  <2>5. PICK p : p = Observed(pub, ws', "session")
    OBVIOUS
  <2>6. /\ Later(pub, p) /\ (p = NoPublisher \/ PublisherForm(p))
        /\ active /\ accepting /\ pub.phase = "on" => p.refreshing /\ p.ws.cwd = d
    <3>1. CASE pub = NoPublisher
      BY <3>1, <2>5, NobodyObserves DEF Later, NoPublisher
    <3>2. CASE PublisherForm(pub)
      BY <3>2, <2>5, <2>2, ObservedForm DEF Later
    <3> QED BY <3>1, <3>2 DEF IInv, Publishing
  <2>7. ScheduleRefresh(p, TRUE)
    BY <2>1, <2>5
  <2>8. /\ Later(p, pub')
        /\ p # NoPublisher => pub'.ws = p.ws
        /\ p.phase = "on" /\ p.refreshing => pub'.refreshing
    BY <2>6, <2>7, ScheduledPublisher
  <2>9. Later(pub, pub')
    BY <2>6, <2>8, LaterIsTransitive
  <2>10. Publishing' /\ Proposals' /\ Approvals' /\ LastWord'
    BY <2>1, <2>9, <1>1, PublisherGoesOn DEF IInv
  <2>11. InPlace(pub)'
    <3> SUFFICES ASSUME pub'.phase = "on", active', accepting'
                 PROVE  pub'.ws.cwd = here' /\ pub'.refreshing
      BY DEF InPlace
    <3>1. pub.phase = "on" /\ p.phase = "on"
      BY <2>9, <2>6, <2>8 DEF Later
    <3>2. p.refreshing /\ p.ws.cwd = d /\ p # NoPublisher
      BY <3>1, <2>6, <2>1 DEF NoPublisher
    <3> QED BY <3>1, <3>2, <2>8, <2>1
  <2> QED BY <2>3, <2>4, <2>10, <2>11 DEF IInv
<1> QED BY <1>2, <1>3
-------------------------------------------------------------------------------
(* Tools *)

LEMMA ToolStartsStep ==
    ASSUME IInv, NEW t \in Tools, ToolStarts(t), UserStays
    PROVE  IInv'
<1>1. /\ running' = [running EXCEPT ![t] = [at |-> here, gap |-> ~ (alive /\ enabled)]]
      /\ IF alive /\ ~ Closing /\ enabled THEN MapToolStart(t) ELSE UNCHANGED operations
      /\ UNCHANGED <<here, head, ws, pending, evidence, runtimeVars, publisherVars,
                     entryVars, processVars>>
      /\ UNCHANGED <<reader, shown, applied, lastSaid>>
  BY DEF ToolStarts, UserStays, userVars
<1>2. MapperInv'
  <2>1. Mapping' /\ EvidenceInPlace' /\ Refreshing'
    BY <1>1 DEF IInv, MapperInv, Mapping, MapperInPlace, EvidenceInPlace, Refreshing,
                WorkspaceForm, Closing, runtimeVars, entryVars, processVars
  <2>2. Maps'
    BY <1>1 DEF IInv, MapperInv, Maps, MapToolStart, entryVars
  <2>3. Recordings'
    <3> SUFFICES ASSUME NEW u \in Tools, operations'[u].recorded
                 PROVE  /\ alive'
                        /\ ~ Closing' => /\ enabled' /\ operations'[u].ws.cwd = running'[u].at
                                         /\ ~ running'[u].gap
      BY DEF Recordings
    <3>1. UNCHANGED <<alive, enabled, stage>>
      BY <1>1 DEF runtimeVars, processVars
    <3>2. CASE alive /\ ~ Closing /\ enabled
      <4>1. operations' = [operations EXCEPT ![t] =
                             [recorded |-> TRUE, ws |-> ws, pending |-> pending]]
        BY <1>1, <3>2 DEF MapToolStart
      <4>2. ws.cwd = here
        BY <3>2 DEF IInv, MapperInv, Mapping, MapperInPlace
      <4>3. CASE u = t
        <5>1. /\ operations'[u] = [recorded |-> TRUE, ws |-> ws, pending |-> pending]
              /\ running'[u] = [at |-> here, gap |-> ~ (alive /\ enabled)]
          BY <4>3, <4>1, <1>1 DEF IInv, MapperInv, Maps
        <5>2. operations'[u].ws.cwd = running'[u].at
          BY <5>1, <4>2
        <5>3. running'[u].gap = ~ (alive /\ enabled)
          BY <5>1
        <5> QED BY <5>2, <5>3, <3>1, <3>2
      <4>4. CASE u # t
        <5>1. operations'[u] = operations[u] /\ running'[u] = running[u]
          BY <4>4, <4>1, <1>1 DEF IInv, MapperInv, Maps
        <5> QED BY <5>1, <3>1 DEF IInv, MapperInv, Recordings, Closing
      <4> QED BY <4>3, <4>4
    <3>3. CASE ~ (alive /\ ~ Closing /\ enabled)
      <4>1. operations' = operations
        BY <1>1, <3>3
      <4> QED BY <4>1, <3>1, <3>3 DEF IInv, MapperInv, Recordings, Closing
    <3> QED BY <3>2, <3>3
  <2> QED BY <2>1, <2>2, <2>3 DEF MapperInv
<1>3. Asleep'
  BY <1>1 DEF IInv, Asleep, publisherVars, processVars, runtimeVars
<1>4. Publishing' /\ Proposals' /\ Approvals' /\ LastWord'
  BY <1>1, PublisherGoesOn DEF IInv, Later, publisherVars, entryVars
<1>5. InPlace(pub)'
  BY <1>1 DEF IInv, InPlace, publisherVars, entryVars, processVars, Closing
<1> QED BY <1>2, <1>3, <1>4, <1>5 DEF IInv

LEMMA ToolCompletesStep ==
    ASSUME IInv, NEW t \in Tools, NEW commits \in BOOLEAN, ToolCompletes(t, commits),
           UserStays
    PROVE  IInv'
<1>1. /\ running' = [running EXCEPT ![t] = NotRunning]
      /\ UNCHANGED <<here, ws, pending, enabled, lease, file, producers,
                     active, accepting, said, processVars, wanted>>
      /\ UNCHANGED <<reader, shown, applied, lastSaid>>
  BY DEF ToolCompletes, UserStays, userVars
<1>2. CASE ~ alive \/ Closing
  <2>1. UNCHANGED <<operations, evidence, refresh, again, rechecking, pub>>
    BY <1>2 DEF ToolCompletes
  <2>2. Recordings'
    BY <1>1, <1>2, <2>1 DEF IInv, MapperInv, Recordings, Closing, processVars
  <2>3. Maps' /\ Mapping' /\ EvidenceInPlace' /\ Refreshing'
    BY <1>1, <2>1 DEF IInv, MapperInv, Maps, Mapping, MapperInPlace, EvidenceInPlace,
                      Refreshing, WorkspaceForm, Closing, processVars
  <2>4. Asleep'
    BY <1>1, <2>1 DEF IInv, Asleep, processVars
  <2>5. Publishing' /\ Proposals' /\ Approvals' /\ LastWord'
    BY <1>1, <2>1, PublisherGoesOn DEF IInv, Later
  <2>6. InPlace(pub)'
    BY <1>1, <2>1 DEF IInv, InPlace, processVars, Closing
  <2> QED BY <2>2, <2>3, <2>4, <2>5, <2>6 DEF IInv, MapperInv
<1>3. CASE alive /\ ~ Closing
  <2>1. /\ IF enabled THEN MapToolComplete(t) ELSE UNCHANGED <<operations, evidence>>
        /\ ScheduleRefresh(pub, FALSE)
        /\ rechecking' = (rechecking \/ refresh.phase = "none")
    BY <1>3 DEF ToolCompletes
  <2>2. ws.cwd = here
    BY <1>3 DEF IInv, MapperInv, Mapping, MapperInPlace
  <2>3. Maps'
    BY <1>1, <2>1 DEF IInv, MapperInv, Maps, MapToolComplete
  <2>4. Recordings'
    <3> SUFFICES ASSUME NEW u \in Tools, operations'[u].recorded
                 PROVE  enabled /\ operations'[u].ws.cwd = running'[u].at /\ ~ running'[u].gap
      BY <1>1, <1>3 DEF Recordings, processVars
    <3>1. CASE enabled
      <4>1. operations' = [operations EXCEPT ![t] = NoOperation]
        BY <3>1, <2>1 DEF MapToolComplete
      <4>2. u # t /\ operations'[u] = operations[u] /\ running'[u] = running[u]
        BY <4>1, <1>1 DEF IInv, MapperInv, Maps, NoOperation
      <4> QED BY <4>2, <1>3 DEF IInv, MapperInv, Recordings
    <3>2. CASE ~ enabled
      BY <3>2, <2>1, <1>3 DEF IInv, MapperInv, Recordings
    <3> QED BY <3>1, <3>2
  <2>5. EvidenceInPlace'
    <3>1. CASE ~ enabled \/ ~ (operations[t].recorded /\ SameRepository(operations[t]))
      <4>1. evidence' = evidence
        BY <3>1, <2>1 DEF MapToolComplete
      <4> QED BY <4>1 DEF IInv, MapperInv, EvidenceInPlace
    <3>2. CASE enabled /\ operations[t].recorded /\ SameRepository(operations[t])
      <4>1. PICK e : e = [at |-> operations[t].ws.cwd, began |-> running[t].at,
                          ended |-> here, gap |-> running[t].gap]
        OBVIOUS
      <4>2. evidence' = evidence \cup {e}
        BY <4>1, <3>2, <2>1 DEF MapToolComplete
      <4>3. operations[t].ws.cwd = running[t].at /\ ~ running[t].gap
        BY <3>2, <1>3 DEF IInv, MapperInv, Recordings
      <4>4. operations[t].ws.cwd = here
        BY <3>2, <2>2 DEF SameRepository
      <4>5. e.at = e.began /\ e.ended = e.began /\ e.gap = running[t].gap
        BY <4>1, <4>3, <4>4
      <4> QED BY <4>2, <4>3, <4>5 DEF IInv, MapperInv, EvidenceInPlace
    <3> QED BY <3>1, <3>2
  <2>6. Refreshing'
    BY <1>1, <2>1, ScheduledForm DEF IInv, MapperInv
  <2>7. Mapping'
    BY <1>1, <2>1 DEF IInv, MapperInv, Maps, Mapping, MapperInPlace, WorkspaceForm,
                      Closing, processVars
  <2>8. Asleep'
    BY <1>1, <1>3 DEF Asleep, processVars
  <2>9. /\ Later(pub, pub') /\ (pub' # NoPublisher => pub'.ws = pub.ws)
        /\ pub.phase = "on" /\ pub.refreshing => pub'.refreshing
    BY <2>1, ScheduledPublisher DEF IInv, Publishing
  <2>10. Publishing' /\ Proposals' /\ Approvals' /\ LastWord'
    BY <1>1, <2>9, PublisherGoesOn DEF IInv
  <2>11. InPlace(pub)'
    BY <1>1, <2>9, PlaceStays DEF IInv, processVars, Closing
  <2> QED BY <2>3, <2>4, <2>5, <2>6, <2>7, <2>8, <2>10, <2>11 DEF IInv, MapperInv
<1> QED BY <1>2, <1>3
-------------------------------------------------------------------------------
(* Refreshes *)

LEMMA ResolvedForm ==
    ASSUME NEW d
    PROVE  WorkspaceForm(Resolved(d)) /\ Resolved(d).cwd = d /\ Resolved(d).by = "git"
  BY DEF Resolved, WorkspaceForm

\* What a refresh leaves alone.
LEMMA RefreshLeaves ==
    ASSUME IInv,
           UNCHANGED <<hostVars, operations, evidence, enabled, stage, alive>>,
           rechecking' \in BOOLEAN
    PROVE  Maps' /\ Recordings' /\ EvidenceInPlace'
<1>1. Maps' /\ EvidenceInPlace'
  BY DEF IInv, MapperInv, Maps, EvidenceInPlace, hostVars
<1>2. Recordings'
  BY DEF IInv, MapperInv, Recordings, Closing, hostVars
<1> QED BY <1>1, <1>2

LEMMA RefreshAsksStep ==
    ASSUME IInv, RefreshAsks, UserStays
    PROVE  IInv'
<1>1. /\ alive /\ refresh.phase = "due"
      /\ refresh' = [phase |-> "asked", fresh |-> refresh.fresh,
                     snapshot |-> Resolved(ws.cwd)]
      /\ UNCHANGED <<hostVars, mapperVars, enabled, again, publisherVars, entryVars,
                     processVars>>
      /\ UNCHANGED <<reader, shown, applied, lastSaid>>
  BY DEF RefreshAsks, UserStays, userVars
<1>2. refresh.fresh \in BOOLEAN /\ (~ refresh.fresh => again)
  BY <1>1 DEF IInv, MapperInv, Refreshing, NoRefresh
<1>3. Refreshing'
  <2>1. PICK s : s = Resolved(ws.cwd)
    OBVIOUS
  <2>2. /\ refresh' = [phase |-> "asked", fresh |-> refresh'.fresh,
                       snapshot |-> refresh'.snapshot]
        /\ refresh'.fresh = refresh.fresh /\ refresh'.snapshot = s
    BY <1>1, <2>1
  <2>3. WorkspaceForm(s) /\ s.cwd = ws.cwd /\ s.by = "git"
    BY <2>1, ResolvedForm
  <2>4. WorkspaceForm(refresh.snapshot)'
    BY <2>2, <2>3 DEF WorkspaceForm
  <2>5. ws' = ws /\ again' = again
    BY <1>1 DEF mapperVars
  <2> QED BY <2>2, <2>3, <2>4, <2>5, <1>2 DEF Refreshing
<1>4. Maps' /\ Recordings' /\ EvidenceInPlace'
  BY <1>1, RefreshLeaves DEF IInv, MapperInv, Maps, mapperVars, entryVars, processVars
<1>5. Mapping' /\ Asleep'
  BY <1>1 DEF IInv, MapperInv, Mapping, MapperInPlace, WorkspaceForm, Asleep, Closing,
              hostVars, mapperVars, entryVars, processVars
<1>6. Publishing' /\ Proposals' /\ Approvals' /\ LastWord'
  BY <1>1, PublisherGoesOn DEF IInv, Later, publisherVars, entryVars
<1>7. InPlace(pub)'
  BY <1>1 DEF IInv, InPlace, hostVars, mapperVars, publisherVars, entryVars,
              processVars, Closing
<1> QED BY <1>3, <1>4, <1>5, <1>6, <1>7 DEF IInv, MapperInv

\* The end of a refresh: another one, or none.
LEMMA SettledForm ==
    ASSUME NEW p, p = NoPublisher \/ PublisherForm(p), NEW more \in BOOLEAN,
           NEW r \in BOOLEAN, RefreshSettles(p, more, r)
    PROVE  /\ Refreshing' /\ rechecking' \in BOOLEAN
           /\ (more => rechecking') /\ (~ more => rechecking' = r)
           /\ Later(p, pub') /\ (p # NoPublisher => pub'.ws = p.ws)
           /\ p.phase = "on" /\ p.refreshing => pub'.refreshing
           /\ more /\ p.phase = "on" => pub'.refreshing
           /\ p = NoPublisher => pub' = NoPublisher
<1>1. CASE more
  <2>1. refresh' = Due /\ pub' = RefreshStarted(p) /\ rechecking' = TRUE
    BY <1>1 DEF RefreshSettles
  <2>2. Refreshing'
    BY <2>1 DEF Refreshing, Due
  <2>3. CASE PublisherForm(p)
    BY <2>1, <2>2, <2>3, <1>1, RefreshStartedForm DEF NoPublisher, PublisherForm
  <2>4. CASE p = NoPublisher
    BY <2>1, <2>2, <2>4, <1>1, NobodyObserves DEF NoPublisher, Later
  <2> QED BY <2>3, <2>4
<1>2. CASE ~ more
  <2>1. refresh' = NoRefresh /\ pub' = p /\ rechecking' = r
    BY <1>2 DEF RefreshSettles
  <2> QED BY <2>1, <1>2 DEF Refreshing, Later
<1> QED BY <1>1, <1>2

\* What an answer makes of the publisher before it settles: `more` says whether
\* another refresh follows, r whether the workspace is to be verified still.
Outcome(p, more, r) ==
    /\ RefreshSettles(p, more, r)
    /\ Later(pub, p) /\ (p = NoPublisher \/ PublisherForm(p))
    /\ WorkspaceForm(ws') /\ ws'.cwd = ws.cwd
    /\ ~ more /\ ~ r => ws'.by = "git"
    /\ active /\ accepting /\ pub.phase = "on" =>
          \/ p.refreshing /\ p.ws.cwd = ws.cwd
          \/ p.ws = ws' /\ (more \/ ws'.by = "git")
          \/ ws' = ws /\ p = pub

LEMMA RefreshAnswersStep ==
    ASSUME IInv, RefreshAnswers, UserStays
    PROVE  IInv'
<1>1. /\ alive /\ refresh.phase = "asked"
      /\ UNCHANGED <<hostVars, operations, evidence, enabled, lease, file,
                     producers, active, accepting, said, processVars>>
      /\ UNCHANGED <<reader, shown, applied, lastSaid>>
  BY DEF RefreshAnswers, UserStays, userVars
<1>2. PICK s, f : s = refresh.snapshot /\ f = refresh.fresh
  OBVIOUS
<1>3. /\ WorkspaceForm(s) /\ s.by = "git" /\ f \in BOOLEAN
      /\ f => s.cwd = ws.cwd
      /\ ~ f => again
  BY <1>1, <1>2 DEF IInv, MapperInv, Refreshing, NoRefresh
<1>4. PICK m \in BOOLEAN : m <=> again
  OBVIOUS
<1>5. WorkspaceForm(ws) /\ (~ Closing => ws.cwd = here) /\ (~ rechecking => ws.by = "git")
      /\ rechecking \in BOOLEAN
  BY <1>1 DEF IInv, MapperInv, Mapping, MapperInPlace, Maps
<1>6. \E p : \E more, r \in BOOLEAN : Outcome(p, more, r)
  <2>1. CASE f
    <3>1. ws' = s
      BY <2>1, <1>2 DEF RefreshAnswers, UpdateWorkspace
    <3>2. PICK p : p = Observed(pub, s, "refresh")
      OBVIOUS
    <3>3. RefreshSettles(p, again, s.state = "unknown")
      BY <2>1, <3>1, <3>2, <1>2 DEF RefreshAnswers
    <3>4. RefreshSettles(p, m, s.state = "unknown")
      BY <3>3, <1>4 DEF RefreshSettles
    <3>5. /\ Later(pub, p) /\ (p = NoPublisher \/ PublisherForm(p))
          /\ active /\ accepting /\ pub.phase = "on" =>
                (p.refreshing /\ p.ws.cwd = s.cwd) \/ p.ws = s
      <4>1. CASE pub = NoPublisher
        BY <4>1, <3>2, NobodyObserves DEF Later, NoPublisher
      <4>2. CASE PublisherForm(pub)
        BY <4>2, <3>2, ObservedForm DEF Later
      <4> QED BY <4>1, <4>2 DEF IInv, Publishing
    <3>6. PICK r \in BOOLEAN : r = (s.state = "unknown")
      OBVIOUS
    <3>7. RefreshSettles(p, m, r)
      BY <3>4, <3>6
    <3>8. Outcome(p, m, r)
      BY <3>1, <3>5, <3>7, <2>1, <1>3 DEF Outcome
    <3> QED BY <3>8
  <2>2. CASE ~ f /\ s.commit # NoCommit /\ s.commit = ws.commit
    <3>1. ws' = ws
      BY <2>2, <1>2 DEF RefreshAnswers, UpdateWorkspace
    <3>2. PICK p : p = Observed(pub, ws, "refresh")
      OBVIOUS
    <3>3. RefreshSettles(p, again, ws.state = "unknown")
      BY <2>2, <3>1, <3>2, <1>2 DEF RefreshAnswers
    <3>4. RefreshSettles(p, TRUE, ws.state = "unknown")
      BY <3>3, <2>2, <1>3 DEF RefreshSettles
    <3>5. /\ Later(pub, p) /\ (p = NoPublisher \/ PublisherForm(p))
          /\ active /\ accepting /\ pub.phase = "on" =>
                (p.refreshing /\ p.ws.cwd = ws.cwd) \/ p.ws = ws
      <4>1. CASE pub = NoPublisher
        BY <4>1, <3>2, NobodyObserves DEF Later, NoPublisher
      <4>2. CASE PublisherForm(pub)
        BY <4>2, <3>2, ObservedForm DEF Later
      <4> QED BY <4>1, <4>2 DEF IInv, Publishing
    <3>6. PICK r \in BOOLEAN : r = (ws.state = "unknown")
      OBVIOUS
    <3>7. RefreshSettles(p, TRUE, r)
      BY <3>4, <3>6
    <3>8. Outcome(p, TRUE, r)
      BY <3>1, <3>5, <3>7, <1>5 DEF Outcome
    <3> QED BY <3>8
  <2>3. CASE ~ f /\ ~ (s.commit # NoCommit /\ s.commit = ws.commit)
    <3>1. UNCHANGED ws /\ RefreshSettles(pub, again \/ s.commit # NoCommit, rechecking)
      BY <2>3, <1>2 DEF RefreshAnswers
    <3>2. RefreshSettles(pub, TRUE, rechecking)
      BY <3>1, <2>3, <1>3 DEF RefreshSettles
    <3>3. PICK p : p = pub
      OBVIOUS
    <3>4. PICK r \in BOOLEAN : r = rechecking
      BY <1>5
    <3>5. RefreshSettles(p, TRUE, r)
      BY <3>2, <3>3, <3>4
    <3>6. Outcome(p, TRUE, r)
      BY <3>1, <3>3, <3>5, <3>4, <1>5 DEF Outcome, Later, IInv, Publishing
    <3> QED BY <3>6
  <2> QED BY <2>1, <2>2, <2>3, <1>3
<1>7. PICK p : \E more, r \in BOOLEAN : Outcome(p, more, r)
  BY <1>6
<1>8. PICK more \in BOOLEAN, r \in BOOLEAN : Outcome(p, more, r)
  BY <1>7
<1>9. /\ RefreshSettles(p, more, r)
      /\ Later(pub, p) /\ (p = NoPublisher \/ PublisherForm(p))
      /\ WorkspaceForm(ws') /\ ws'.cwd = ws.cwd
      /\ ~ more /\ ~ r => ws'.by = "git"
      /\ active /\ accepting /\ pub.phase = "on" =>
            \/ p.refreshing /\ p.ws.cwd = ws.cwd
            \/ p.ws = ws' /\ (more \/ ws'.by = "git")
            \/ ws' = ws /\ p = pub
  BY <1>8 DEF Outcome
<1>10. /\ Refreshing' /\ rechecking' \in BOOLEAN
       /\ (more => rechecking') /\ (~ more => rechecking' = r)
       /\ Later(p, pub') /\ (p # NoPublisher => pub'.ws = p.ws)
       /\ p.phase = "on" /\ p.refreshing => pub'.refreshing
       /\ more /\ p.phase = "on" => pub'.refreshing
  BY <1>9, SettledForm
<1>11. MapperInv'
  <2>1. Maps' /\ Recordings' /\ EvidenceInPlace'
    BY <1>1, <1>10, RefreshLeaves DEF processVars
  <2>2. Mapping'
    BY <1>1, <1>5, <1>9, <1>10
       DEF Mapping, MapperInPlace, WorkspaceForm, Closing, hostVars, processVars
  <2> QED BY <2>1, <2>2, <1>10 DEF MapperInv
<1>12. Asleep'
  BY <1>1 DEF Asleep, processVars
<1>13. Later(pub, pub')
  BY <1>9, <1>10, LaterIsTransitive
<1>14. Publishing' /\ Proposals' /\ Approvals' /\ LastWord'
  BY <1>1, <1>13, PublisherGoesOn DEF IInv
<1>15. InPlace(pub)'
  <2> SUFFICES ASSUME pub'.phase = "on", active, accepting, ~ Closing
               PROVE  /\ pub'.ws.cwd = here
                      /\ ~ pub'.refreshing /\ pub'.ws.state # "unknown" =>
                            pub'.ws.by = "git" /\ pub'.ws.commit = ws'.commit
    BY <1>1 DEF InPlace, hostVars, processVars, Closing
  <2>1. pub.phase = "on" /\ p.phase = "on" /\ p # NoPublisher
    BY <1>9, <1>10, <1>13 DEF Later, NoPublisher
  <2>2. pub'.ws = p.ws /\ (p.refreshing \/ more => pub'.refreshing)
    BY <1>10, <2>1
  <2>3. CASE p.refreshing /\ p.ws.cwd = ws.cwd
    BY <2>2, <2>3, <1>5
  <2>4. CASE p.ws = ws' /\ (more \/ ws'.by = "git")
    BY <2>2, <2>4, <1>5, <1>9
  <2>5. CASE ws' = ws /\ p = pub
    BY <2>1, <2>2, <2>5, <1>10 DEF IInv, InPlace
  <2> QED BY <2>1, <2>3, <2>4, <2>5, <1>9
<1> QED BY <1>11, <1>12, <1>14, <1>15 DEF IInv
LEMMA RefreshFailsStep ==
    ASSUME IInv, RefreshFails, UserStays
    PROVE  IInv'
<1>1. /\ alive /\ RefreshSettles(pub, again, rechecking)
      /\ UNCHANGED <<hostVars, mapperVars, enabled, lease, file, producers,
                     active, accepting, said, processVars>>
      /\ UNCHANGED <<reader, shown, applied, lastSaid>>
  BY DEF RefreshFails, UserStays, userVars
<1>2. PICK m \in BOOLEAN : m <=> again
  OBVIOUS
<1>3. RefreshSettles(pub, m, rechecking)
  BY <1>1, <1>2 DEF RefreshSettles
<1>4. /\ Refreshing' /\ rechecking' \in BOOLEAN
      /\ (m => rechecking') /\ (~ m => rechecking' = rechecking)
      /\ Later(pub, pub') /\ (pub # NoPublisher => pub'.ws = pub.ws)
      /\ pub.phase = "on" /\ pub.refreshing => pub'.refreshing
      /\ pub = NoPublisher => pub' = NoPublisher
  <2>1. rechecking \in BOOLEAN /\ (pub = NoPublisher \/ PublisherForm(pub))
    BY DEF IInv, MapperInv, Maps, Publishing
  <2> QED BY <2>1, <1>3, SettledForm
<1>5. Maps' /\ Recordings' /\ EvidenceInPlace'
  BY <1>1, <1>4, RefreshLeaves DEF mapperVars, processVars
<1>6. Mapping'
  BY <1>1, <1>4 DEF IInv, MapperInv, Mapping, MapperInPlace, WorkspaceForm, Closing,
                    hostVars, mapperVars, processVars
<1>7. Asleep'
  BY <1>1 DEF Asleep, processVars
<1>8. Publishing' /\ Proposals' /\ Approvals' /\ LastWord'
  BY <1>1, <1>4, PublisherGoesOn DEF IInv
<1>9. InPlace(pub)'
  <2>1. pub' # NoPublisher => pub'.ws = pub.ws
    BY <1>4
  <2>2. UNCHANGED <<here, ws, active, accepting, stage>>
    BY <1>1 DEF hostVars, mapperVars, processVars
  <2> QED BY <2>1, <2>2, <1>4, PlaceStays DEF IInv, Closing
<1> QED BY <1>4, <1>5, <1>6, <1>7, <1>8, <1>9 DEF IInv, MapperInv

LEMMA RefreshWorkspaceStep ==
    ASSUME IInv, RefreshWorkspace, UserStays
    PROVE  IInv'
<1>1. /\ alive /\ ~ Closing /\ ScheduleRefresh(pub, FALSE) /\ rechecking' = TRUE
      /\ UNCHANGED <<hostVars, mapperVars, enabled, lease, file, producers,
                     active, accepting, said, processVars>>
      /\ UNCHANGED <<reader, shown, applied, lastSaid>>
  BY DEF RefreshWorkspace, UserStays, userVars
<1>2. Refreshing'
  BY <1>1, ScheduledForm DEF IInv, MapperInv, mapperVars
<1>3. /\ Later(pub, pub') /\ (pub' # NoPublisher => pub'.ws = pub.ws)
      /\ pub.phase = "on" /\ pub.refreshing => pub'.refreshing
  BY <1>1, ScheduledPublisher DEF IInv, Publishing
<1>4. Maps' /\ Recordings' /\ EvidenceInPlace'
  BY <1>1, RefreshLeaves DEF mapperVars, processVars
<1>5. Mapping' /\ Asleep'
  BY <1>1 DEF IInv, MapperInv, Mapping, MapperInPlace, WorkspaceForm, Closing, Asleep,
              hostVars, mapperVars, processVars
<1>6. Publishing' /\ Proposals' /\ Approvals' /\ LastWord'
  BY <1>1, <1>3, PublisherGoesOn DEF IInv
<1>7. InPlace(pub)'
  <2>1. UNCHANGED <<here, ws, active, accepting, stage>>
    BY <1>1 DEF hostVars, mapperVars, processVars
  <2> QED BY <2>1, <1>3, PlaceStays DEF IInv, Closing
<1> QED BY <1>2, <1>4, <1>5, <1>6, <1>7 DEF IInv, MapperInv
-------------------------------------------------------------------------------
(* The entry *)

\* Capture is switched: no operation recorded before counts.
LEMMA SwitchedForm ==
    ASSUME MapperInv, NEW on \in BOOLEAN, SetEnabled(on),
           UNCHANGED <<here, evidence, alive, rechecking>>, Closing => Closing'
    PROVE  Maps' /\ Recordings' /\ EvidenceInPlace'
<1>1. EvidenceInPlace'
  BY DEF MapperInv, EvidenceInPlace
<1>2. CASE Closing \/ on = enabled
  <2>1. UNCHANGED <<enabled, operations, running>>
    BY <1>2 DEF SetEnabled
  <2> QED BY <2>1, <1>1 DEF MapperInv, Maps, Recordings
<1>3. CASE ~ (Closing \/ on = enabled)
  <2>1. /\ operations' = [t \in Tools |-> NoOperation]
        /\ running' = [t \in Tools |->
                          IF running[t] = NotRunning THEN NotRunning
                          ELSE [running[t] EXCEPT !.gap = TRUE]]
    BY <1>3 DEF SetEnabled, ResetCaptureChain
  <2>2. Maps'
    BY <2>1 DEF MapperInv, Maps
  <2>3. Recordings'
    BY <2>1 DEF Recordings, NoOperation
  <2> QED BY <1>1, <2>2, <2>3
<1> QED BY <1>2, <1>3

\* A new publisher has written nothing, holds no approval, and has a name of its own.
LEMMA EnsuredForm ==
    ASSUME IInv, EnsurePublisher,
           UNCHANGED <<here, ws, active, accepting, stage, said, reader, shown, applied,
                       lastSaid>>
    PROVE  Publishing' /\ InPlace(pub)' /\ Proposals' /\ Approvals' /\ LastWord'
<1>1. CASE ~ (active /\ accepting /\ pub.phase = "none" /\ lease = "none")
  <2>1. UNCHANGED publisherVars
    BY <1>1 DEF EnsurePublisher
  <2>2. Publishing' /\ Proposals' /\ Approvals' /\ LastWord'
    BY <2>1, PublisherGoesOn DEF IInv, Later, publisherVars
  <2> QED BY <2>1, <2>2 DEF IInv, InPlace, publisherVars, Closing
<1>2. CASE active /\ accepting /\ pub.phase = "none" /\ lease = "none"
  <2>1. PICK n, p : /\ n = producers + 1
                    /\ p = [phase |-> "starting", id |-> n, ws |-> ws,
                            revision |-> 0, refreshing |-> FALSE, approval |-> NoApproval,
                            dirty |-> TRUE, out |-> NoFile]
    OBVIOUS
  <2>2. producers' = n /\ pub' = p /\ UNCHANGED file
    BY <1>2, <2>1 DEF EnsurePublisher
  <2>3. producers \in Nat /\ n \in Nat \ {0} /\ producers' >= producers
    BY <2>1, <2>2 DEF IInv, Publishing
  <2>4. /\ PublisherForm(p) /\ p.dirty /\ p.id = n /\ p.phase = "starting"
        /\ p.approval = NoApproval /\ p.out = NoFile
    BY <2>1, <2>3 DEF PublisherForm
  <2>5. Publishing'
    <3>1. PublisherForm(pub)' /\ pub'.id <= producers'
      BY <2>2, <2>3, <2>4 DEF PublisherForm
    <3>2. Written(pub, file)'
      BY <2>2, <2>4 DEF Written, Record
    <3> QED BY <3>1, <3>2, <2>2, <2>3 DEF Publishing
  <2>6. InPlace(pub)'
    BY <2>2, <2>4 DEF InPlace
  <2>7. Proposals'
    BY <2>2, <2>3 DEF IInv, Proposals
  <2>8. Approvals'
    <3>1. RecordForm(file)' /\ (reader.at = "checking" => RecordForm(reader.context))'
      BY <2>2, <2>3, RecordStays DEF IInv, Approvals, RecordForm, Approved, Codes
    <3>2. Approved(said)'
      BY DEF IInv, Approvals, Approved, Codes
    <3> QED BY <2>2, <2>4, <3>1, <3>2 DEF Approvals, RecordForm, Approved
  <2>9. LastWord'
    <3>1. said # NoApproval => said[3][1] # n
      <4> SUFFICES ASSUME said # NoApproval PROVE said[3][1] # n
        OBVIOUS
      <4>1. PICK s \in shown : said = s.code
        BY DEF IInv, Approvals, Approved, Codes
      <4>2. s.code = <<s.op, s.code[2], s.version>> /\ s.version[1] \in 1 .. producers
        BY DEF IInv, Proposals
      <4>3. said[3] = s.version
        BY <4>1, <4>2
      <4> QED BY <4>2, <4>3, <2>1, <2>3
    <3> QED BY <3>1, <2>2, <2>4 DEF LastWord
  <2> QED BY <2>5, <2>6, <2>7, <2>8, <2>9, <1>2
<1> QED BY <1>1, <1>2

LEMMA TickStep ==
    ASSUME IInv, Tick, UserStays
    PROVE  IInv'
<1>1. /\ alive /\ active
      /\ UNCHANGED <<here, head, ws, pending, evidence, refresh, again, active,
                     rechecking, said, tasks, alive>>
      /\ UNCHANGED <<reader, shown, applied, lastSaid>>
  BY DEF Tick, UserStays, userVars
<1>2. PICK on \in BOOLEAN : SetEnabled(on)
  BY DEF Tick
<1>3. \/ UNCHANGED publisherVars /\ accepting' = FALSE /\ Closing'
      \/ EnsurePublisher /\ UNCHANGED <<accepting, stage>>
  BY DEF Tick, Closing
<1>4. Closing => Closing'
  BY <1>3 DEF Closing
<1>5. Maps' /\ Recordings' /\ EvidenceInPlace'
  BY <1>1, <1>2, <1>4, SwitchedForm DEF IInv
<1>6. Mapping' /\ Refreshing'
  BY <1>1, <1>4 DEF IInv, MapperInv, Mapping, MapperInPlace, Refreshing, WorkspaceForm
<1>7. Asleep'
  BY <1>1 DEF Asleep
<1>8. CASE UNCHANGED publisherVars /\ accepting' = FALSE
  <2>1. Publishing' /\ Proposals' /\ Approvals' /\ LastWord'
    BY <1>1, <1>8, PublisherGoesOn DEF IInv, Later, publisherVars
  <2>2. InPlace(pub)'
    BY <1>8 DEF InPlace
  <2> QED BY <1>5, <1>6, <1>7, <2>1, <2>2 DEF IInv, MapperInv
<1>9. CASE EnsurePublisher /\ UNCHANGED <<accepting, stage>>
  <2>1. Publishing' /\ InPlace(pub)' /\ Proposals' /\ Approvals' /\ LastWord'
    BY <1>1, <1>9, EnsuredForm
  <2> QED BY <1>5, <1>6, <1>7, <2>1 DEF IInv, MapperInv
<1> QED BY <1>3, <1>8, <1>9

\* Steps towards the end that leave the publisher alone.
LEMMA EndingStep ==
    ASSUME IInv, UserStays,
           ShutdownBegins \/ WriterStops \/ ReleaseRegistration
               \/ \E task \in {"worker", "learning"} : TaskEnds(task)
    PROVE  IInv'
<1>1. /\ alive /\ alive' = alive
      /\ UNCHANGED <<hostVars, mapperVars, runtimeVars, publisherVars, rechecking, said>>
      /\ UNCHANGED <<reader, shown, applied, lastSaid>>
      /\ active' /\ accepting' => active /\ accepting
      /\ Closing => Closing'
  <2>1. UNCHANGED <<reader, shown, applied, lastSaid>>
    BY DEF UserStays, userVars
  <2>2. CASE ShutdownBegins
    <3>1. accepting' \in {FALSE, accepting}
      BY <2>2 DEF ShutdownBegins
    <3>2. accepting' = FALSE \/ accepting' = accepting
      BY <3>1
    <3>3. accepting' => accepting
      BY <3>2, Zenon
    <3> QED BY <2>1, <2>2, <3>3 DEF ShutdownBegins, Closing
  <2>3. CASE WriterStops
    BY <2>1, <2>3 DEF WriterStops, Closing
  <2>4. CASE ReleaseRegistration
    BY <2>1, <2>4 DEF ReleaseRegistration, Closing, entryVars
  <2>5. ASSUME NEW task, TaskEnds(task)
        PROVE  /\ alive /\ alive' = alive
               /\ UNCHANGED <<hostVars, mapperVars, runtimeVars, publisherVars, entryVars,
                              stage>>
    BY <2>5 DEF TaskEnds
  <2>6. CASE \E task \in {"worker", "learning"} : TaskEnds(task)
    BY <2>1, <2>5, <2>6 DEF entryVars, Closing
  <2> QED BY <2>2, <2>3, <2>4, <2>6
<1>2. Maps' /\ EvidenceInPlace' /\ Refreshing'
  BY <1>1 DEF IInv, MapperInv, Maps, EvidenceInPlace, Refreshing, WorkspaceForm,
              hostVars, mapperVars, runtimeVars
<1>3. Recordings'
  BY <1>1 DEF IInv, MapperInv, Recordings, hostVars, mapperVars, runtimeVars
<1>4. Mapping' /\ Asleep'
  BY <1>1 DEF IInv, MapperInv, Mapping, MapperInPlace, WorkspaceForm, Asleep,
              hostVars, mapperVars
<1>5. Publishing' /\ Proposals' /\ Approvals' /\ LastWord'
  BY <1>1, PublisherGoesOn DEF IInv, Later, publisherVars
<1>6. InPlace(pub)'
  BY <1>1 DEF IInv, InPlace, hostVars, mapperVars, publisherVars
<1> QED BY <1>2, <1>3, <1>4, <1>5, <1>6 DEF IInv, MapperInv

LEMMA CapabilitiesChangeStep ==
    ASSUME IInv, NEW w, CapabilitiesChange(w), UserStays
    PROVE  IInv'
<1>1. /\ UNCHANGED <<hostVars, mapperVars, runtimeVars, publisherVars, entryVars,
                     processVars>>
      /\ UNCHANGED <<reader, shown, applied, lastSaid>>
  BY DEF CapabilitiesChange, UserStays, userVars
<1>2. MapperInv'
  BY <1>1, MapperFrame DEF IInv, MapperStays, entryVars, processVars
<1>3. Publishing' /\ Proposals' /\ Approvals' /\ LastWord'
  BY <1>1, PublisherGoesOn DEF IInv, Later, publisherVars, entryVars
<1>4. InPlace(pub)' /\ Asleep'
  BY <1>1 DEF IInv, InPlace, Asleep, Closing, hostVars, mapperVars, publisherVars,
              runtimeVars, entryVars, processVars
<1> QED BY <1>2, <1>3, <1>4 DEF IInv
-------------------------------------------------------------------------------
(* The publisher's writes *)

LEMMA DoneForm ==
    ASSUME NEW p, PublisherForm(p), NEW q, q = [p EXCEPT !.out = NoFile]
    PROVE  /\ PublisherForm(q) /\ q.out = NoFile /\ q.dirty = p.dirty
           /\ q.phase = p.phase /\ q.id = p.id /\ q.ws = p.ws
           /\ q.refreshing = p.refreshing /\ q.approval = p.approval
           /\ Record(q) = Record(p)
  BY DEF PublisherForm, Record

LEMMA PhaseForm ==
    ASSUME NEW p, PublisherForm(p), NEW ph \in {"on", "stopping"}, NEW q,
           q = [p EXCEPT !.phase = ph]
    PROVE  /\ PublisherForm(q) /\ q.phase = ph /\ q.id = p.id /\ q.out = p.out
           /\ q.approval = p.approval
  BY DEF PublisherForm

\* A record names its producer, and is not the absence of a file.
LEMMA RecordedForm ==
    ASSUME NEW p, PublisherForm(p), p.id <= producers, producers \in Nat,
           Approved(p.approval)
    PROVE  RecordForm(Record(p)) /\ Record(p) # NoFile
<1>1. PICK r : r = Record(p)
  OBVIOUS
<1>2. r.producer = p.id /\ r.version = <<p.id, p.revision>> /\ r.approval = p.approval
  BY <1>1 DEF Record
<1>3. p.id \in 1 .. producers /\ r.version[1] = p.id
  BY <1>2 DEF PublisherForm
<1>4. r # NoFile
  BY <1>2, <1>3 DEF NoFile
<1> QED BY <1>1, <1>2, <1>3, <1>4 DEF RecordForm

\* What is to be shown of the new publisher q and file f, when nothing else of
\* what was approved has changed.
LEMMA PublisherChanges ==
    ASSUME IInv, UNCHANGED <<producers, reader, shown, applied>>, said' \in {said, NoApproval},
           NEW q, q = pub', NEW f, f = file', RecordForm(f),
           q = NoPublisher \/ /\ PublisherForm(q) /\ q.id <= producers
                              /\ Approved(q.approval) /\ RecordForm(q.out)
                              /\ q.phase # "starting" \/ q.approval = NoApproval
                              /\ Written(q, f)
    PROVE  Publishing' /\ Proposals' /\ Approvals'
<1>1. Proposals'
  BY ProposalsStay DEF IInv
<1>2. producers \in Nat /\ producers' = producers
  BY DEF IInv, Publishing
<1>3. Written(q, f)
  BY DEF Written, NoPublisher
<1>4. Written(pub, file)'
  BY <1>3 DEF Written, Record
<1>5. Publishing'
  BY <1>2, <1>4 DEF Publishing, PublisherForm
<1>6. RecordForm(file)' /\ (reader.at = "checking" => RecordForm(reader.context))'
      /\ Approved(said)'
  BY DEF IInv, Approvals, RecordForm, Approved, Codes
<1>7. Approvals'
  BY <1>6 DEF Approvals, RecordForm, Approved, Codes
<1> QED BY <1>1, <1>5, <1>7

LEMMA PublishBeginsStep ==
    ASSUME IInv, PublishBegins, UNCHANGED <<hostVars, mapperVars, stage, reader, shown, applied,
                                            lastSaid>>
    PROVE  Publishing' /\ InPlace(pub)' /\ Proposals' /\ Approvals' /\ LastWord'
<1>1. PICK p, r : p = pub /\ r = Record(pub)
  OBVIOUS
<1>2. PICK q : q = [p EXCEPT !.out = r, !.dirty = FALSE]
  OBVIOUS
<1>3. /\ p.phase \in {"starting", "on"} /\ p.out = NoFile /\ p.dirty
      /\ pub' = q /\ UNCHANGED <<lease, file, producers, entryVars>>
  BY <1>1, <1>2 DEF PublishBegins
<1>4. p # NoPublisher
  BY <1>3 DEF NoPublisher
<1>5. PublisherForm(p) /\ p.id <= producers /\ producers \in Nat
  BY <1>1, <1>4 DEF IInv, Publishing
<1>6. Approved(p.approval) /\ (p.phase = "starting" => p.approval = NoApproval)
      /\ RecordForm(file)
  BY <1>1, <1>4 DEF IInv, Approvals
<1>7. RecordForm(r) /\ r # NoFile
  BY <1>1, <1>5, <1>6, RecordedForm
<1>8. /\ PublisherForm(q) /\ q.out = r /\ q.dirty = FALSE
      /\ q.phase = p.phase /\ q.id = p.id /\ q.ws = p.ws
      /\ q.refreshing = p.refreshing /\ q.approval = p.approval
      /\ Record(q) = Record(p)
  BY <1>2, <1>5 DEF PublisherForm, Record
<1>9. Written(q, file)
  BY <1>1, <1>7, <1>8 DEF Written
<1>10. Publishing' /\ Proposals' /\ Approvals'
  BY <1>3, <1>5, <1>6, <1>7, <1>8, <1>9, PublisherChanges DEF entryVars
<1>11. InPlace(pub)'
  BY <1>1, <1>3, <1>8 DEF IInv, InPlace, Closing, hostVars, mapperVars, entryVars
<1>12. LastWord'
  BY <1>1, <1>3, <1>8 DEF IInv, LastWord, entryVars
<1> QED BY <1>10, <1>11, <1>12

\* A publisher that has started says where the mapper is, unless that is to be
\* verified, and has heard what the user said meanwhile.
LEMMA StartedForm ==
    ASSUME NEW p, PublisherForm(p), p.phase = "starting", p.approval = NoApproval,
           NEW q, q = Started(p)
    PROVE  /\ PublisherForm(q) /\ q.id = p.id /\ q.out = p.out
           /\ q.phase \in {"on", "stopping"} /\ q.approval \in {NoApproval, said}
           /\ q.phase = "on" => q.dirty /\ q.ws = ws /\ (q.refreshing \/ ~ rechecking)
<1>1. CASE ~ (active /\ accepting)
  BY <1>1, PhaseForm DEF Started
<1>2. CASE active /\ accepting
  <2>1. PICK a : a = [p EXCEPT !.phase = "on"]
    OBVIOUS
  <2>2. PICK b : b = UpdatePublished(a, ws)
    OBVIOUS
  <2>3. PICK c : c = IF rechecking THEN BeginWorkspaceRefresh(b) ELSE b
    OBVIOUS
  <2>4. q = IF said = NoApproval THEN c ELSE ObserveUserMessage(c, said)
    BY <1>2, <2>1, <2>2, <2>3 DEF Started
  <2>5. PublisherForm(a) /\ a.phase = "on" /\ a.id = p.id /\ a.out = p.out
        /\ a.approval = NoApproval
    BY <2>1, PhaseForm
  <2>6. /\ PublisherForm(b) /\ b.dirty /\ b.phase = "on" /\ b.id = p.id /\ b.ws = ws
        /\ b.approval = NoApproval /\ b.out = p.out
    BY <2>2, <2>5, UpdatedForm
  <2>7. /\ PublisherForm(c) /\ c.dirty /\ c.phase = "on" /\ c.id = p.id /\ c.ws = ws
        /\ c.approval = NoApproval /\ c.out = p.out /\ (c.refreshing \/ ~ rechecking)
    <3>1. CASE rechecking
      BY <3>1, <2>3, <2>6, BegunForm
    <3>2. CASE ~ rechecking
      BY <3>2, <2>3, <2>6
    <3> QED BY <3>1, <3>2
  <2>8. CASE said = NoApproval
    BY <2>4, <2>7, <2>8
  <2>9. CASE said # NoApproval
    BY <2>4, <2>7, <2>9, HeardForm
  <2> QED BY <2>8, <2>9
<1> QED BY <1>1, <1>2

LEMMA PublishEndsStep ==
    ASSUME IInv, alive, PublishEnds,
           UNCHANGED <<hostVars, mapperVars, stage, reader, shown, applied, lastSaid>>
    PROVE  Publishing' /\ InPlace(pub)' /\ Proposals' /\ Approvals' /\ LastWord'
<1>1. PICK p, r : p = pub /\ r = Record(pub)
  OBVIOUS
<1>2. PICK w : w = IF p.dirty THEN [p EXCEPT !.out = r, !.dirty = FALSE]
                   ELSE [p EXCEPT !.out = NoFile]
  OBVIOUS
<1>3. PICK q, f : q = pub' /\ f = file'
  OBVIOUS
<1>4. /\ p.out # NoFile /\ f = p.out
      /\ q = IF p.phase = "starting" THEN Started(w) ELSE w
      /\ said' = IF p.phase = "starting" THEN NoApproval ELSE said
      /\ UNCHANGED <<lease, producers, active, accepting, rechecking>>
  BY <1>1, <1>2, <1>3 DEF PublishEnds
<1>5. p # NoPublisher
  BY <1>4 DEF NoPublisher
<1>6. PublisherForm(p) /\ p.id <= producers /\ producers \in Nat /\ Written(p, file)
  BY <1>1, <1>5 DEF IInv, Publishing
<1>7. Approved(p.approval) /\ (p.phase = "starting" => p.approval = NoApproval)
      /\ RecordForm(p.out) /\ Approved(said)
  BY <1>1, <1>5 DEF IInv, Approvals
<1>8. RecordForm(r) /\ r # NoFile
  BY <1>1, <1>6, <1>7, RecordedForm
<1>9. /\ PublisherForm(w) /\ w.phase = p.phase /\ w.id = p.id /\ w.ws = p.ws
      /\ w.refreshing = p.refreshing /\ w.approval = p.approval /\ Record(w) = Record(p)
      /\ w.dirty = FALSE
      /\ p.dirty => w.out = r
      /\ ~ p.dirty => w.out = NoFile
  <2>1. CASE p.dirty
    <3>1. w = [p EXCEPT !.out = r, !.dirty = FALSE]
      BY <2>1, <1>2
    <3> QED BY <3>1, <2>1, <1>6 DEF PublisherForm, Record
  <2>2. CASE ~ p.dirty
    <3>1. w = [p EXCEPT !.out = NoFile]
      BY <2>2, <1>2
    <3>2. p.dirty = FALSE
      BY <2>2, <1>6 DEF PublisherForm
    <3> QED BY <3>1, <3>2, <2>2, <1>6, DoneForm
  <2> QED BY <2>1, <2>2
<1>10. Written(w, f)
  BY <1>1, <1>4, <1>6, <1>8, <1>9 DEF Written
<1>11. RecordForm(w.out)
  BY <1>6, <1>8, <1>9 DEF RecordForm, PublisherForm
<1>12. CASE p.phase = "starting"
  <2>1. /\ PublisherForm(q) /\ q.id = p.id /\ q.out = w.out
        /\ q.phase \in {"on", "stopping"} /\ q.approval \in {NoApproval, said}
        /\ q.phase = "on" => q.dirty /\ q.ws = ws /\ (q.refreshing \/ ~ rechecking)
    <3>1. q = Started(w)
      BY <1>4, <1>12
    <3>2. w.phase = "starting" /\ w.approval = NoApproval
      BY <1>7, <1>9, <1>12
    <3> QED BY <3>1, <3>2, <1>9, StartedForm
  <2>2. Approved(q.approval) /\ Written(q, f) /\ q.phase # "starting"
    BY <2>1, <1>7 DEF Approved, Written
  <2>3. Publishing' /\ Proposals' /\ Approvals'
    BY <1>3, <1>4, <1>6, <1>7, <1>11, <2>1, <2>2, PublisherChanges
  <2>4. InPlace(pub)'
    <3> SUFFICES ASSUME q.phase = "on", ~ Closing
                 PROVE  /\ q.ws.cwd = here
                        /\ ~ q.refreshing /\ q.ws.state # "unknown" =>
                              q.ws.by = "git" /\ q.ws.commit = ws.commit
      BY <1>3 DEF InPlace, hostVars, mapperVars, Closing
    <3> QED BY <2>1 DEF IInv, MapperInv, Mapping, MapperInPlace
  <2>5. LastWord'
    <3>1. q.phase # "starting"
      BY <2>2
    <3>2. ASSUME active, accepting, q.phase = "on", q.approval # NoApproval,
                 q.approval[3][1] = q.id
          PROVE  q.approval = lastSaid
      <4>1. q.approval = said /\ said # NoApproval /\ said[3][1] = p.id
        BY <3>2, <2>1
      <4> QED BY <4>1, <3>2, <1>1, <1>12 DEF IInv, LastWord
    <3> QED BY <3>1, <3>2, <1>3, <1>4 DEF LastWord
  <2> QED BY <2>3, <2>4, <2>5
<1>13. CASE p.phase # "starting"
  <2>1. q = w /\ said' = said
    BY <1>4, <1>13
  <2>2. Publishing' /\ Proposals' /\ Approvals'
    BY <1>3, <1>4, <1>6, <1>7, <1>9, <1>10, <1>11, <1>13, <2>1, PublisherChanges
  <2>3. InPlace(pub)'
    BY <1>1, <1>3, <1>4, <1>9, <2>1 DEF IInv, InPlace, Closing, hostVars, mapperVars
  <2>4. LastWord'
    BY <1>1, <1>3, <1>4, <1>9, <2>1 DEF IInv, LastWord
  <2> QED BY <2>2, <2>3, <2>4
<1> QED BY <1>12, <1>13
LEMMA PublisherStopsStep ==
    ASSUME IInv, PublisherStops, UNCHANGED <<reader, shown, applied, lastSaid>>
    PROVE  Publishing' /\ InPlace(pub)' /\ Proposals' /\ Approvals' /\ LastWord'
<1>1. pub' = NoPublisher /\ file' \in {NoFile, file} /\ UNCHANGED <<producers, entryVars>>
  BY DEF PublisherStops
<1>2. PICK f : f = file' /\ RecordForm(f)
  BY <1>1 DEF IInv, Approvals, RecordForm
<1>3. Publishing' /\ Proposals' /\ Approvals'
  BY <1>1, <1>2, PublisherChanges DEF entryVars
<1>4. InPlace(pub)' /\ LastWord'
  BY <1>1 DEF InPlace, LastWord, NoPublisher
<1> QED BY <1>3, <1>4

LEMMA PublishFailsStep ==
    ASSUME IInv, PublishFails, UNCHANGED <<reader, shown, applied, lastSaid>>
    PROVE  Publishing' /\ InPlace(pub)' /\ Proposals' /\ Approvals' /\ LastWord'
<1>1. pub.out # NoFile /\ UNCHANGED <<file, producers, entryVars>>
  BY DEF PublishFails
<1>2. RecordForm(file)
  BY DEF IInv, Approvals
<1>3. CASE pub.phase = "on"
  <2>1. PICK p : p = pub
    OBVIOUS
  <2>2. PICK q : q = [p EXCEPT !.phase = "stopping", !.out = NoFile]
    OBVIOUS
  <2>3. pub' = q
    BY <2>1, <2>2, <1>3 DEF PublishFails
  <2>4. p # NoPublisher
    BY <2>1, <1>3 DEF NoPublisher
  <2>5. PublisherForm(p) /\ p.id <= producers /\ Approved(p.approval)
    BY <2>1, <2>4 DEF IInv, Publishing, Approvals
  <2>6. /\ PublisherForm(q) /\ q.phase = "stopping" /\ q.out = NoFile /\ q.id = p.id
        /\ q.approval = p.approval
    BY <2>2, <2>5 DEF PublisherForm
  <2>7. Written(q, file) /\ RecordForm(q.out)
    BY <2>6 DEF Written, RecordForm
  <2>8. Publishing' /\ Proposals' /\ Approvals'
    BY <1>1, <1>2, <2>3, <2>5, <2>6, <2>7, PublisherChanges DEF entryVars
  <2>9. InPlace(pub)' /\ LastWord'
    BY <2>3, <2>6 DEF InPlace, LastWord
  <2> QED BY <2>8, <2>9
<1>4. CASE pub.phase # "on"
  <2>1. pub' = NoPublisher
    BY <1>4 DEF PublishFails
  <2>2. Publishing' /\ Proposals' /\ Approvals'
    BY <1>1, <1>2, <2>1, PublisherChanges DEF entryVars
  <2>3. InPlace(pub)' /\ LastWord'
    BY <2>1 DEF InPlace, LastWord, NoPublisher
  <2> QED BY <2>2, <2>3
<1> QED BY <1>3, <1>4

LEMMA PublishStep ==
    ASSUME IInv, Publish \/ WriteFails, UserStays
    PROVE  IInv'
<1>1. /\ alive /\ UNCHANGED <<hostVars, mapperVars, runtimeVars, processVars>>
      /\ PublishBegins \/ PublishEnds \/ PublisherStops \/ PublishFails
      /\ UNCHANGED <<reader, shown, applied, lastSaid>>
  BY DEF Publish, WriteFails, UserStays, userVars
<1>2. UNCHANGED <<stage, alive, rechecking>>
  BY <1>1 DEF processVars, entryVars, PublishBegins, PublishEnds, PublisherStops, PublishFails
<1>3. MapperInv'
  BY <1>1, <1>2, MapperFrame DEF IInv, MapperStays
<1>4. Asleep'
  BY <1>1, <1>2 DEF Asleep
<1>5. Publishing' /\ InPlace(pub)' /\ Proposals' /\ Approvals' /\ LastWord'
  BY <1>1, <1>2, PublishBeginsStep, PublishEndsStep, PublisherStopsStep, PublishFailsStep
<1> QED BY <1>3, <1>4, <1>5 DEF IInv

LEMMA StopPublishingStep ==
    ASSUME IInv, StopPublishing, UserStays
    PROVE  IInv'
<1>1. /\ alive /\ stage' = "unpublishing" /\ accepting' = FALSE /\ said' = NoApproval
      /\ pub' = IF pub.phase = "on" THEN [pub EXCEPT !.phase = "stopping"] ELSE pub
      /\ UNCHANGED <<hostVars, mapperVars, runtimeVars, lease, file, producers, active,
                     rechecking, alive>>
      /\ UNCHANGED <<reader, shown, applied, lastSaid>>
  BY DEF StopPublishing, UserStays, userVars
<1>2. Maps' /\ EvidenceInPlace' /\ Refreshing'
  BY <1>1 DEF IInv, MapperInv, Maps, EvidenceInPlace, Refreshing, WorkspaceForm,
              hostVars, mapperVars, runtimeVars
<1>3. Recordings' /\ Mapping' /\ Asleep'
  BY <1>1 DEF IInv, MapperInv, Recordings, Mapping, MapperInPlace, WorkspaceForm, Asleep,
              Closing, mapperVars
<1>4. CASE pub.phase = "on"
  <2>1. PICK p, q : p = pub /\ q = pub'
    OBVIOUS
  <2>2. q = [p EXCEPT !.phase = "stopping"]
    BY <2>1, <1>1, <1>4
  <2>3. p # NoPublisher
    BY <2>1, <1>4 DEF NoPublisher
  <2>4. /\ PublisherForm(p) /\ p.id <= producers /\ Approved(p.approval) /\ RecordForm(p.out)
        /\ RecordForm(file)
    BY <2>1, <2>3 DEF IInv, Publishing, Approvals
  <2>5. /\ PublisherForm(q) /\ q.phase = "stopping" /\ q.id = p.id /\ q.out = p.out
        /\ q.approval = p.approval
    BY <2>2, <2>4, PhaseForm
  <2>6. Written(q, file)
    BY <2>5 DEF Written
  <2>7. Publishing' /\ Proposals' /\ Approvals'
    BY <1>1, <2>1, <2>4, <2>5, <2>6, PublisherChanges
  <2>8. InPlace(pub)' /\ LastWord'
    BY <1>1 DEF InPlace, LastWord
  <2> QED BY <1>2, <1>3, <2>7, <2>8 DEF IInv, MapperInv
<1>5. CASE pub.phase # "on"
  <2>1. Later(pub, pub')
    BY <1>1, <1>5 DEF Later
  <2>2. Publishing' /\ Proposals' /\ Approvals' /\ LastWord'
    BY <1>1, <2>1, PublisherGoesOn DEF IInv
  <2>3. InPlace(pub)'
    BY <1>1 DEF InPlace
  <2> QED BY <1>2, <1>3, <2>2, <2>3 DEF IInv, MapperInv
<1> QED BY <1>4, <1>5
-------------------------------------------------------------------------------
(* Processes *)

LEMMA ProcessEndsStep ==
    ASSUME IInv, ProcessEnds, UserStays
    PROVE  IInv'
<1>1. /\ alive' = FALSE /\ pub' = NoPublisher /\ refresh' = NoRefresh /\ again' = FALSE
      /\ stage' = "open" /\ ws' = Unknown(here) /\ ResetCaptureChain
      /\ active' = FALSE /\ rechecking' = FALSE /\ said' = NoApproval
      /\ running' = [t \in Tools |-> IF running[t] = NotRunning THEN NotRunning
                                     ELSE [running[t] EXCEPT !.gap = TRUE]]
      /\ UNCHANGED <<here, head, evidence, file, producers>>
      /\ UNCHANGED <<reader, shown, applied, lastSaid>>
  BY DEF ProcessEnds, UserStays, userVars
<1>2. MapperInv'
  <2>1. Maps' /\ EvidenceInPlace'
    BY <1>1 DEF IInv, MapperInv, Maps, EvidenceInPlace, ResetCaptureChain
  <2>2. Recordings'
    BY <1>1 DEF Recordings, ResetCaptureChain, NoOperation
  <2>3. Mapping' /\ Refreshing'
    BY <1>1 DEF Mapping, MapperInPlace, Refreshing, Unknown, WorkspaceForm
  <2> QED BY <2>1, <2>2, <2>3 DEF MapperInv
<1>3. Asleep'
  BY <1>1 DEF Asleep
<1>4. Publishing' /\ Proposals' /\ Approvals'
  <2>1. PICK f : f = file' /\ RecordForm(f)
    BY <1>1 DEF IInv, Approvals, RecordForm
  <2> QED BY <1>1, <2>1, PublisherChanges
<1>5. InPlace(pub)' /\ LastWord'
  BY <1>1 DEF InPlace, LastWord
<1> QED BY <1>2, <1>3, <1>4, <1>5 DEF IInv

LEMMA ProcessStartsStep ==
    ASSUME IInv, ProcessStarts, UserStays
    PROVE  IInv'
<1>1. /\ ~ alive /\ alive' = TRUE /\ ws' = Resolved(here)
      /\ UNCHANGED <<hostVars, pending, operations, evidence, refresh, again,
                     publisherVars, rechecking, said, stage>>
      /\ UNCHANGED <<reader, shown, applied, lastSaid>>
  BY DEF ProcessStarts, UserStays, userVars
<1>2. pub = NoPublisher /\ stage = "open" /\ refresh = NoRefresh
  BY <1>1 DEF IInv, Asleep
<1>3. MapperInv'
  <2>1. Maps' /\ EvidenceInPlace'
    BY <1>1 DEF IInv, MapperInv, Maps, EvidenceInPlace, hostVars
  <2>2. Recordings'
    BY <1>1 DEF IInv, MapperInv, Recordings, hostVars
  <2>3. Mapping'
    <3>1. PICK w : w = Resolved(here)
      OBVIOUS
    <3>2. WorkspaceForm(w) /\ w.cwd = here /\ w.by = "git"
      BY <3>1, ResolvedForm
    <3> QED BY <1>1, <3>1, <3>2 DEF Mapping, MapperInPlace, WorkspaceForm, hostVars
  <2>4. Refreshing'
    BY <1>1, <1>2 DEF Refreshing
  <2> QED BY <2>1, <2>2, <2>3, <2>4 DEF MapperInv
<1>4. Asleep'
  BY <1>1 DEF Asleep
<1>5. Publishing' /\ Proposals' /\ Approvals' /\ LastWord'
  BY <1>1, <1>2, PublisherGoesOn DEF IInv, Later, publisherVars
<1>6. InPlace(pub)'
  BY <1>1, <1>2 DEF InPlace, NoPublisher, publisherVars
<1> QED BY <1>3, <1>4, <1>5, <1>6 DEF IInv
-------------------------------------------------------------------------------
(* The user and the MCP server *)

LEMMA UserSaysStep ==
    ASSUME IInv, NEW m \in Codes \cup {Other}, UserSays(m)
    PROVE  IInv'
<1>1. /\ lastSaid' = m
      /\ UNCHANGED <<hostVars, mapperVars, enabled, lease, file, producers,
                     active, accepting, processVars, reader, shown, applied>>
  BY DEF UserSays
<1>2. PICK a : a = IF m = Other THEN NoApproval ELSE m
  OBVIOUS
<1>3. Approved(a) /\ (a # NoApproval => a = m)
  BY <1>2 DEF Approved
<1>4. PICK h : h = IF pub.phase = "on"
                   THEN BeginWorkspaceRefresh(ObserveUserMessage(pub, a)) ELSE pub
  OBVIOUS
<1>5. CASE ~ (alive /\ active /\ accepting)
  <2>1. UNCHANGED <<rechecking, said, refresh, again, pub>>
    BY <1>5 DEF UserSays
  <2>2. MapperInv'
    BY <1>1, <2>1, MapperFrame DEF IInv, MapperStays, runtimeVars, processVars
  <2>3. Asleep' /\ InPlace(pub)' /\ Publishing' /\ Proposals'
    BY <1>1, <2>1 DEF IInv, Asleep, InPlace, Publishing, PublisherForm, Written, Record,
                      Proposals, Closing, hostVars, mapperVars, processVars
  <2>4. Approvals'
    BY <1>1, <2>1 DEF IInv, Approvals, RecordForm, Approved, Codes
  <2>5. LastWord'
    <3>1. active' /\ accepting' => pub' = NoPublisher
      BY <1>1, <1>5, <2>1 DEF IInv, Asleep
    <3> QED BY <3>1 DEF LastWord, NoPublisher
  <2> QED BY <2>2, <2>3, <2>4, <2>5 DEF IInv
<1>6. CASE alive /\ active /\ accepting
  <2>1. /\ rechecking' = TRUE
        /\ \/ pub.phase \in {"starting", "stopping"} /\ said' = a
           \/ pub.phase # "starting" /\ UNCHANGED said
        /\ IF Closing THEN pub' = h /\ UNCHANGED <<refresh, again>>
           ELSE ScheduleRefresh(h, FALSE)
    BY <1>2, <1>4, <1>6 DEF UserSays
  <2>2. MapperInv'
    <3>1. Maps' /\ Recordings' /\ EvidenceInPlace'
      BY <1>1, <2>1, RefreshLeaves DEF mapperVars, processVars
    <3>2. Mapping'
      BY <1>1, <2>1 DEF IInv, MapperInv, Mapping, MapperInPlace, WorkspaceForm, Closing,
                        hostVars, mapperVars, processVars
    <3>3. Refreshing'
      <4>1. CASE Closing
        BY <4>1, <1>1, <2>1 DEF IInv, MapperInv, Refreshing, WorkspaceForm, mapperVars
      <4>2. CASE ~ Closing
        BY <4>2, <1>1, <2>1, ScheduledForm DEF IInv, MapperInv, mapperVars
      <4> QED BY <4>1, <4>2
    <3> QED BY <3>1, <3>2, <3>3 DEF MapperInv
  <2>3. Asleep'
    BY <1>1, <1>6 DEF Asleep, processVars
  <2>4. Proposals'
    BY <1>1, ProposalsStay DEF IInv
  <2>5. Approved(said') /\ RecordForm(file)
        /\ (reader.at = "checking" => RecordForm(reader.context))
    BY <1>3, <2>1 DEF IInv, Approvals
  <2>6. pub' = h \/ pub' = RefreshStarted(h)
    BY <2>1 DEF ScheduleRefresh
  <2>7. CASE pub.phase = "on"
    <3>1. PICK o, q : o = ObserveUserMessage(pub, a) /\ q = pub'
      OBVIOUS
    <3>2. pub # NoPublisher
      BY <2>7 DEF NoPublisher
    <3>3. PublisherForm(pub) /\ pub.id <= producers /\ RecordForm(pub.out)
      BY <3>2 DEF IInv, Publishing, Approvals
    <3>4. /\ PublisherForm(o) /\ o.phase = "on" /\ o.id = pub.id /\ o.ws = pub.ws
          /\ o.approval = a /\ o.out = pub.out
      BY <2>7, <3>1, <3>3, HeardForm
    <3>5. /\ PublisherForm(h) /\ h.refreshing /\ h.dirty /\ h.phase = "on"
          /\ h.id = pub.id /\ h.ws = pub.ws /\ h.approval = a /\ h.out = pub.out
      BY <2>7, <1>4, <3>1, <3>4, BegunForm
    <3>6. /\ PublisherForm(q) /\ q.refreshing /\ q.dirty /\ q.phase = "on"
          /\ q.id = pub.id /\ q.ws = pub.ws /\ q.approval \in {a, NoApproval}
          /\ q.out = pub.out
      <4>1. CASE q = h
        BY <4>1, <3>5
      <4>2. CASE q = RefreshStarted(h)
        BY <4>2, <3>5, RefreshStartedForm DEF Later
      <4> QED BY <2>6, <3>1, <4>1, <4>2
    <3>7. Written(q, file) /\ Approved(q.approval)
      BY <3>6, <1>3 DEF Written, Approved
    <3>8. Publishing'
      <4>1. PublisherForm(pub)' /\ pub'.id <= producers'
        BY <1>1, <3>1, <3>3, <3>6 DEF PublisherForm
      <4>2. Written(pub, file)'
        BY <1>1, <3>1, <3>7 DEF Written, Record
      <4> QED BY <1>1, <4>1, <4>2 DEF IInv, Publishing
    <3>9. Approvals'
      BY <1>1, <2>5, <3>1, <3>3, <3>6, <3>7 DEF Approvals, RecordForm, Approved, Codes
    <3>10. InPlace(pub)'
      BY <1>1, <1>6, <2>7, <3>1, <3>6
         DEF IInv, InPlace, Closing, hostVars, processVars
    <3>11. LastWord'
      BY <1>1, <1>3, <3>1, <3>6 DEF LastWord
    <3> QED BY <2>2, <2>3, <2>4, <3>8, <3>9, <3>10, <3>11 DEF IInv
  <2>8. CASE pub.phase # "on"
    <3>1. pub' = pub
      BY <2>6, <2>8, <1>4 DEF RefreshStarted
    <3>2. Publishing' /\ InPlace(pub)'
      BY <1>1, <3>1 DEF IInv, InPlace, Publishing, PublisherForm, Written, Record, Closing,
                        hostVars, mapperVars, processVars
    <3>3. Approvals'
      BY <1>1, <2>5, <3>1 DEF IInv, Approvals, RecordForm, Approved, Codes
    <3>4. LastWord'
      BY <1>1, <1>3, <2>1, <2>8, <3>1 DEF LastWord
    <3> QED BY <2>2, <2>3, <2>4, <3>2, <3>3, <3>4 DEF IInv
  <2> QED BY <2>7, <2>8
<1> QED BY <1>5, <1>6

\* A proposal that is applied was shown: its approval is the code of one that was,
\* which names it.
LEMMA FeedbackStep ==
    ASSUME Proposals, producers \in Nat, NEW op, NEW c, RecordForm(c), c # NoFile,
           Feedback(op, c), UNCHANGED producers
    PROVE  Proposals' /\ shown \subseteq shown'
<1>1. PICK k : k = ApprovalCode(op, c)
  OBVIOUS
<1>2. PICK s : s = [op |-> op, code |-> k, version |-> c.version]
  OBVIOUS
<1>3. k = <<op, c.cwd, c.version>>
  BY <1>1 DEF ApprovalCode
<1>4. s.op = op /\ s.code = k /\ s.version = c.version
  BY <1>2
<1>5. c.version[1] \in 1 .. producers /\ Approved(c.approval)
  BY DEF RecordForm
<1>6. CASE Unavailable(c)
  BY <1>6 DEF Feedback, Proposals
<1>7. CASE ~ Unavailable(c) /\ c.approval = k
  <2>1. applied' = applied \cup {s} /\ shown' = shown
    BY <1>7, <1>1, <1>2 DEF Feedback
  <2>2. k # NoApproval
    BY <1>3 DEF NoApproval
  <2>3. PICK u \in shown : u.code = k
    BY <1>5, <1>7, <2>2 DEF Approved, Codes
  <2>4. /\ u = [op |-> u.op, code |-> u.code, version |-> u.version]
        /\ u.code = <<u.op, u.code[2], u.version>>
    BY DEF Proposals
  <2>5. u.op = op /\ u.version = c.version
    BY <2>3, <2>4, <1>3
  <2>6. u = s
    BY <2>3, <2>4, <2>5, <1>2
  <2> QED BY <2>1, <2>6 DEF Proposals
<1>8. CASE ~ Unavailable(c) /\ c.approval # k
  <2>1. shown' = shown \cup {s} /\ applied' = applied
    BY <1>8, <1>1, <1>2 DEF Feedback
  <2>2. /\ s = [op |-> s.op, code |-> s.code, version |-> s.version]
        /\ s.code = <<s.op, s.code[2], s.version>>
        /\ s.version[1] \in 1 .. producers
    <3>1. s.code[2] = c.cwd
      BY <1>3, <1>4
    <3> QED BY <1>2, <1>3, <1>4, <1>5, <3>1
  <2> QED BY <2>1, <2>2 DEF Proposals
<1> QED BY <1>6, <1>7, <1>8

LEMMA ReaderStep ==
    ASSUME IInv, ReadBegins \/ ProbeEnds \/ \E op \in Operations : ReadEnds(op)
    PROVE  IInv'
<1>1. UNCHANGED <<runtimeAll, events, pub, file, producers, lastSaid>>
  <2>1. ASSUME NEW op, ReadEnds(op)
        PROVE  UNCHANGED <<runtimeAll, events, pub, file, producers, lastSaid>>
    BY <2>1 DEF ReadEnds, publisherVars
  <2> QED BY <2>1 DEF ReadBegins, ProbeEnds, userVars
<1>2. MapperInv'
  BY <1>1, MapperFrame DEF IInv, MapperStays, runtimeAll, entryVars, processVars
<1>3. Asleep' /\ InPlace(pub)' /\ Publishing' /\ LastWord'
  BY <1>1 DEF IInv, Asleep, InPlace, Publishing, PublisherForm, Written, Record, LastWord,
              Closing, runtimeAll, hostVars, mapperVars, runtimeVars, entryVars, processVars
<1>4. producers \in Nat /\ UNCHANGED <<pub, file, said, producers>>
  BY <1>1 DEF IInv, Publishing, runtimeAll, entryVars
<1>5. /\ Proposals' /\ shown \subseteq shown'
      /\ reader'.at = "checking" => RecordForm(reader'.context)
  <2>1. CASE ReadBegins
    <3>1. UNCHANGED <<shown, applied>>
      BY <2>1 DEF ReadBegins
    <3>2. reader'.at = "checking" => reader'.context = file
      BY <2>1 DEF ReadBegins, Idle
    <3> QED BY <3>1, <3>2, <1>4, ProposalsStay DEF IInv, Approvals
  <2>2. CASE ProbeEnds
    BY <2>2, <1>4, ProposalsStay DEF IInv, ProbeEnds, Idle, userVars
  <2>3. ASSUME NEW op, ReadEnds(op)
        PROVE  /\ Proposals' /\ shown \subseteq shown'
               /\ reader'.at = "checking" => RecordForm(reader'.context)
    <3>1. reader'.at # "checking"
      BY <2>3 DEF ReadEnds, Idle
    <3>2. CASE UNCHANGED <<shown, applied>>
      BY <3>1, <3>2, <1>4, ProposalsStay DEF IInv
    <3>3. CASE /\ pub.phase # "none" /\ pub.id = reader.context.producer
               /\ Feedback(op, reader.context)
      <4>1. RecordForm(reader.context)
        BY <2>3 DEF IInv, Approvals, ReadEnds
      <4>2. pub # NoPublisher
        BY <3>3 DEF NoPublisher
      <4>3. pub.id \in Nat \ {0}
        BY <4>2 DEF IInv, Publishing, PublisherForm
      <4>4. reader.context # NoFile
        BY <3>3, <4>3 DEF NoFile
      <4> QED BY <3>1, <3>3, <4>1, <4>4, <1>4, FeedbackStep DEF IInv
    <3> QED BY <2>3, <3>2, <3>3 DEF ReadEnds
  <2> QED BY <2>1, <2>2, <2>3
<1>6. Approvals'
  <2>1. PICK f, c, a, p : f = file /\ c = reader'.context /\ a = said /\ p = pub
    OBVIOUS
  <2>2. file' = f /\ reader'.context = c /\ said' = a /\ pub' = p
    BY <1>4, <2>1
  <2>3. RecordForm(f)' /\ Approved(a)'
    <3>1. RecordForm(f) /\ Approved(a)
      BY <2>1 DEF IInv, Approvals
    <3> QED BY <3>1, <1>4, <1>5, RecordStays, ApprovedStays
  <2>4. reader'.at = "checking" => RecordForm(c)'
    <3> SUFFICES ASSUME reader'.at = "checking" PROVE RecordForm(c)'
      OBVIOUS
    <3>1. RecordForm(c)
      BY <1>5, <2>1
    <3> QED BY <3>1, <1>4, <1>5, RecordStays
  <2>5. p # NoPublisher => /\ Approved(p.approval)' /\ RecordForm(p.out)'
                           /\ p.phase = "starting" => p.approval = NoApproval
    <3> SUFFICES ASSUME p # NoPublisher
                 PROVE  /\ Approved(p.approval)' /\ RecordForm(p.out)'
                        /\ p.phase = "starting" => p.approval = NoApproval
      OBVIOUS
    <3>1. /\ Approved(p.approval) /\ RecordForm(p.out)
          /\ p.phase = "starting" => p.approval = NoApproval
      BY <2>1 DEF IInv, Approvals
    <3> QED BY <3>1, <1>4, <1>5, RecordStays, ApprovedStays
  <2> QED BY <2>2, <2>3, <2>4, <2>5 DEF Approvals, RecordForm, Approved, Codes
<1> QED BY <1>2, <1>3, <1>5, <1>6 DEF IInv
-------------------------------------------------------------------------------
LEMMA InitHolds == Init => IInv
<1> SUFFICES ASSUME Init PROVE IInv
  OBVIOUS
<1>1. /\ running = [t \in Tools |-> NotRunning] /\ InitMapper
      /\ rechecking = FALSE /\ said = NoApproval
      /\ pub = NoPublisher /\ file = NoFile /\ producers = 0
      /\ refresh = NoRefresh /\ again = FALSE /\ stage = "open" /\ alive = FALSE
      /\ reader = Idle /\ shown = {} /\ applied = {}
  BY DEF Init, InitRuntime
<1>2. MapperInv
  BY <1>1 DEF MapperInv, InitMapper, Maps, Recordings, NoOperation, EvidenceInPlace,
              Mapping, MapperInPlace, WorkspaceForm, Unknown, Refreshing
<1>3. Asleep /\ Publishing /\ InPlace(pub)
  BY <1>1 DEF Asleep, Publishing, InPlace, Written, NoPublisher
<1>4. Proposals /\ Approvals /\ LastWord
  BY <1>1 DEF Proposals, Approvals, LastWord, RecordForm, Approved, Idle, NoPublisher
<1> QED BY <1>2, <1>3, <1>4 DEF IInv

LEMMA StutterStep ==
    ASSUME IInv, UNCHANGED vars
    PROVE  IInv'
<1>1. /\ UNCHANGED <<hostVars, mapperVars, runtimeVars, processVars, entryVars>>
      /\ UNCHANGED <<publisherVars, reader, shown, applied, lastSaid>>
  BY DEF vars, runtimeAll, userVars
<1>2. MapperInv'
  BY <1>1, MapperFrame DEF IInv, MapperStays, entryVars, processVars
<1>3. Publishing' /\ Proposals' /\ Approvals' /\ LastWord'
  BY <1>1, PublisherGoesOn DEF IInv, Later, publisherVars, entryVars
<1>4. InPlace(pub)' /\ Asleep'
  BY <1>1 DEF IInv, InPlace, Asleep, Closing, hostVars, mapperVars, publisherVars,
              runtimeVars, entryVars, processVars
<1> QED BY <1>2, <1>3, <1>4 DEF IInv

\* The inductive invariant: what refreshes, publisher, records and approvals have
\* to do with where the session is and what was shown and said.
THEOREM InvariantHolds == Spec => []IInv
<1>1. ASSUME IInv, [Next]_vars PROVE IInv'
  <2>1. CASE RuntimeNext /\ UserStays
    <3>1. ASSUME NEW d \in Dirs, NEW c \in BOOLEAN, HostMoves(d, c) PROVE IInv'
      BY <1>1, <2>1, <3>1, HostMovesStep
    <3>2. ASSUME NEW t \in Tools, ToolStarts(t) PROVE IInv'
      BY <1>1, <2>1, <3>2, ToolStartsStep
    <3>3. ASSUME NEW t \in Tools, NEW c \in BOOLEAN, ToolCompletes(t, c) PROVE IInv'
      BY <1>1, <2>1, <3>3, ToolCompletesStep
    <3>4. CASE Callback
      BY <1>1, <2>1, <3>4, RefreshAsksStep, RefreshAnswersStep, RefreshFailsStep, TickStep,
         RefreshWorkspaceStep, PublishStep, EndingStep, StopPublishingStep DEF Callback
    <3>5. CASE ProcessEnds \/ ProcessStarts
      BY <1>1, <2>1, <3>5, ProcessEndsStep, ProcessStartsStep
    <3>6. ASSUME NEW w, CapabilitiesChange(w) PROVE IInv'
      BY <1>1, <2>1, <3>6, CapabilitiesChangeStep
    <3> QED BY <2>1, <3>1, <3>2, <3>3, <3>4, <3>5, <3>6 DEF RuntimeNext
  <2>2. ASSUME NEW m \in {s.code : s \in shown} \cup {Other}, UserSays(m) PROVE IInv'
    BY <1>1, <2>2, UserSaysStep DEF Codes
  <2>3. CASE ReadBegins \/ ProbeEnds \/ \E op \in Operations : ReadEnds(op)
    BY <1>1, <2>3, ReaderStep
  <2>4. CASE UNCHANGED vars
    BY <1>1, <2>4, StutterStep
  <2> QED BY <1>1, <2>1, <2>2, <2>3, <2>4 DEF Next, UserStays
<1> QED BY <1>1, InitHolds, PTL DEF Spec

\* What is captured is captured in its place, and evidence is of a tool call that
\* began and ended in the workspace it names, with capture on all the while.
THEOREM CaptureIsInPlace == Spec => []CapturedInPlace
<1>1. IInv => CapturedInPlace
  BY DEF IInv, MapperInv, Mapping, CapturedInPlace
<1> QED BY <1>1, InvariantHolds, PTL

\* A publisher that has nothing left to write has its own record on disk, of the
\* session's directory; a repository it gives as known is the one Git identified.
THEOREM PublishedIsAlwaysCurrent == Spec => []PublishedIsCurrent
<1>1. ASSUME IInv PROVE PublishedIsCurrent
  <2> SUFFICES ASSUME Settled, active, accepting, ~ Closing
               PROVE  /\ file.producer = pub.id /\ file.cwd = here
                      /\ file.state # "unknown" => file.by = "git" /\ file.commit = ws.commit
    BY DEF PublishedIsCurrent
  <2>1. pub # NoPublisher
    BY DEF Settled, NoPublisher
  <2>2. file = Record(pub) /\ PublisherForm(pub)
    BY <1>1, <2>1 DEF IInv, Publishing, Written, Settled
  <2>3. /\ pub.ws.cwd = here
        /\ ~ pub.refreshing /\ pub.ws.state # "unknown" =>
              pub.ws.by = "git" /\ pub.ws.commit = ws.commit
    BY <1>1 DEF IInv, InPlace, Settled
  <2>4. CASE pub.refreshing
    <3>1. file.producer = pub.id /\ file.cwd = pub.ws.cwd /\ file.state = "unknown"
      BY <2>2, <2>4 DEF Record
    <3> QED BY <3>1, <2>3
  <2>5. CASE ~ pub.refreshing
    <3>1. /\ file.producer = pub.id /\ file.cwd = pub.ws.cwd /\ file.state = pub.ws.state
          /\ file.by = pub.ws.by /\ file.commit = pub.ws.commit
      BY <2>2, <2>5 DEF Record
    <3> QED BY <3>1, <2>3, <2>5
  <2> QED BY <2>4, <2>5
<1> QED BY <1>1, InvariantHolds, PTL

\* Feedback is applied only as it was shown, and an approval that a settled record
\* holds for its own workspace is the user's last word.
THEOREM ApprovalsAreAlwaysHonoured == Spec => []ApprovalsAreHonoured
<1>1. ASSUME IInv PROVE ApprovalsAreHonoured
  <2>1. AppliedAsShown
    BY <1>1 DEF IInv, Proposals, AppliedAsShown
  <2>2. WithdrawnStays
    <3> SUFFICES ASSUME Settled, active, accepting, file.approval # NoApproval,
                        file.approval[3] = file.version
                 PROVE  file.approval = lastSaid
      BY DEF WithdrawnStays
    <3>1. pub # NoPublisher
      BY DEF Settled, NoPublisher
    <3>2. file = Record(pub)
      BY <1>1, <3>1 DEF IInv, Publishing, Written, Settled
    <3>3. file.approval = pub.approval /\ file.version = <<pub.id, pub.revision>>
      BY <3>2 DEF Record
    <3>4. pub.approval[3][1] = pub.id
      BY <3>3
    <3> QED BY <1>1, <3>3, <3>4 DEF IInv, LastWord, Settled
  <2> QED BY <2>1, <2>2 DEF ApprovalsAreHonoured
<1> QED BY <1>1, InvariantHolds, PTL
-------------------------------------------------------------------------------
(* CaptureWriter: the laws of sums *)

\* A set of naturals has a least element; so what holds of 0, and of n + 1 if it
\* holds of n, holds of every natural.
LEMMA Least ==
    ASSUME NEW T, T \subseteq Nat, T # {} PROVE \E n \in T : \A m \in T : n <= m
<1> DEFINE R == {ss \in Nat \X Nat : ss[1] < ss[2]}
<1>1. IsWellFoundedOn(R, Nat)
  BY NatLessThanWellFounded, Zenon DEF OpToRel
<1> HIDE DEF R
<1>2. PICK n \in T : \A m \in T : ~ (<<m, n>> \in R)
  BY <1>1, WFMin
<1>3. ASSUME NEW m \in T PROVE n <= m
  <2>1. <<m, n>> \notin R
    BY <1>2
  <2> QED BY <2>1 DEF R
<1> QED BY <1>2, <1>3

LEMMA Induct == ASSUME NEW T, 0 \in T, \A n \in Nat : n \in T => n + 1 \in T PROVE \A n \in Nat : n \in T
<1> SUFFICES ASSUME NEW k \in Nat, k \notin T PROVE FALSE
  OBVIOUS
<1> DEFINE U == {n \in Nat : n \notin T}
<1>1. U \subseteq Nat /\ U # {}
  OBVIOUS
<1>2. PICK n \in U : \A m \in U : n <= m
  BY <1>1, Least
<1>3. n # 0 /\ n \in Nat /\ n - 1 \in Nat
  OBVIOUS
<1>4. n - 1 \in T
   BY <1>2, <1>3
<1> QED BY <1>3, <1>4

Sums(f, D, it) ==
  it = [s \in SUBSET D |-> IF s = {} THEN 0 ELSE f[CHOOSE x \in s : TRUE] + it[s \ {CHOOSE x \in s : TRUE}]]

LEMMA SumIs == ASSUME NEW f, NEW D PROVE SumFunctionOnSet(f, D) = (CHOOSE it : Sums(f, D, it))[D]
  BY Zenon DEF SumFunctionOnSet, FoldFunctionOnSet, MapThenFoldSet, Sums

\* One step of a sum, which takes an element by choice.
Step(f, it, s) == IF s = {} THEN 0 ELSE f[CHOOSE x \in s : TRUE] + it[s \ {CHOOSE x \in s : TRUE}]

LEMMA SumExists ==
    ASSUME NEW D, IsFiniteSet(D), NEW f, \A x \in D : f[x] \in Nat
    PROVE  \E it : Sums(f, D, it) /\ it \in [SUBSET D -> Nat]
<1> DEFINE Upto(n, it) == \A s \in SUBSET D : Cardinality(s) <= n => it[s] = Step(f, it, s)
           T == {n \in Nat : \E it \in [SUBSET D -> Nat] : Upto(n, it)}
<1>1. ASSUME NEW s \in SUBSET D, s # {}
      PROVE  \E c \in s : /\ c = (CHOOSE x \in s : TRUE)
                          /\ IsFiniteSet(s \ {c}) /\ s \ {c} \in SUBSET D
                          /\ Cardinality(s) \in Nat /\ Cardinality(s \ {c}) = Cardinality(s) - 1
  <2>1. PICK c \in s : c = (CHOOSE x \in s : TRUE)
    BY <1>1
  <2>2. IsFiniteSet(s) /\ Cardinality(s) \in Nat
    BY FS_Subset, FS_CardinalityType
  <2> QED BY <2>1, <2>2, FS_RemoveElement
<1>2. 0 \in T
  <2> DEFINE it == [s \in SUBSET D |-> 0]
  <2>1. it \in [SUBSET D -> Nat]
    OBVIOUS
  <2>2. ASSUME NEW s \in SUBSET D, Cardinality(s) <= 0 PROVE s = {}
    BY <2>2, FS_Subset, FS_CardinalityType, FS_EmptySet
  <2>3. Upto(0, it)
    BY <2>2 DEF Step
  <2> QED BY <2>1, <2>3
<1>3. ASSUME NEW n \in Nat, n \in T PROVE n + 1 \in T
  <2>1. PICK it \in [SUBSET D -> Nat] : Upto(n, it)
    BY <1>3
  <2> DEFINE jt == [s \in SUBSET D |-> Step(f, it, s)]
  <2>2. ASSUME NEW s \in SUBSET D PROVE Step(f, it, s) \in Nat
    BY <1>1 DEF Step
  <2>3. jt \in [SUBSET D -> Nat]
    BY <2>2
  <2>4. ASSUME NEW s \in SUBSET D, Cardinality(s) <= n + 1 PROVE jt[s] = Step(f, jt, s)
    <3>1. CASE s = {}
      BY <3>1 DEF Step
    <3>2. CASE s # {}
      <4>1. PICK c \in s : /\ c = (CHOOSE x \in s : TRUE) /\ s \ {c} \in SUBSET D
                           /\ Cardinality(s) \in Nat /\ Cardinality(s \ {c}) = Cardinality(s) - 1
        BY <3>2, <1>1
      <4>2. it[s \ {c}] = Step(f, it, s \ {c})
        BY <2>1, <4>1, <2>4
      <4>3. jt[s \ {c}] = Step(f, it, s \ {c}) /\ jt[s] = Step(f, it, s)
        BY <4>1
      <4> HIDE DEF jt
      <4>4. Step(f, it, s) = f[c] + it[s \ {c}] /\ Step(f, jt, s) = f[c] + jt[s \ {c}]
        BY <3>2, <4>1 DEF Step
      <4> QED BY <4>2, <4>3, <4>4
    <3> QED BY <3>1, <3>2
  <2>5. Upto(n + 1, jt)
    BY <2>4
  <2> HIDE DEF jt, Upto
  <2> QED BY <2>3, <2>5
<1> HIDE DEF T
<1>4. Cardinality(D) \in Nat /\ Cardinality(D) \in T
  BY <1>2, <1>3, Induct, FS_CardinalityType
<1> USE DEF T
<1>5. PICK it \in [SUBSET D -> Nat] : Upto(Cardinality(D), it)
  BY <1>4
<1>6. \A s \in SUBSET D : it[s] = Step(f, it, s)
  BY <1>5, FS_Subset
<1>7. Sums(f, D, it)
  BY <1>6 DEF Sums, Step
<1> QED BY <1>7

SumOn(f, D, it) == it \in [SUBSET D -> Nat] /\ \A s \in SUBSET D : it[s] = Step(f, it, s)

LEMMA SumIsOne ==
    ASSUME NEW D, IsFiniteSet(D), NEW f, \A x \in D : f[x] \in Nat
    PROVE  \E it : SumOn(f, D, it) /\ SumFunctionOnSet(f, D) = it[D]
<1> DEFINE it == CHOOSE i : Sums(f, D, i)
<1>1. Sums(f, D, it)
  BY SumExists
<1>2. SumFunctionOnSet(f, D) = it[D]
  BY SumIs
<1> HIDE DEF it
<1>3. PICK jt : Sums(f, D, jt) /\ jt \in [SUBSET D -> Nat]
  BY SumExists
<1>4. \A s \in SUBSET D : it[s] = Step(f, it, s) /\ jt[s] = Step(f, jt, s)
  <2>1. /\ it = [s \in SUBSET D |-> Step(f, it, s)]
        /\ jt = [s \in SUBSET D |-> Step(f, jt, s)]
    BY <1>1, <1>3, Zenon DEF Sums, Step
  <2> HIDE DEF Step
  <2> QED BY <2>1
<1>5. it = [s \in SUBSET D |-> it[s]]
  BY <1>1 DEF Sums
<1> DEFINE T == {n \in Nat : \A s \in SUBSET D : Cardinality(s) = n => it[s] = jt[s]}
<1>6. 0 \in T
  <2>1. ASSUME NEW s \in SUBSET D, Cardinality(s) = 0 PROVE it[s] = jt[s]
    <3>1. s = {}
      BY <2>1, FS_Subset, FS_EmptySet
    <3> QED BY <3>1, <1>4 DEF Step
  <2> QED BY <2>1
<1>7. ASSUME NEW n \in Nat, n \in T PROVE n + 1 \in T
  <2>1. ASSUME NEW s \in SUBSET D, Cardinality(s) = n + 1 PROVE it[s] = jt[s]
    <3>1. s # {}
      BY <2>1, FS_EmptySet
    <3>2. PICK c \in s : c = (CHOOSE x \in s : TRUE)
      BY <3>1
    <3>3. Cardinality(s \ {c}) = n /\ s \ {c} \in SUBSET D
      <4>1. IsFiniteSet(s)
        BY FS_Subset
      <4>2. Cardinality(s \ {c}) = Cardinality(s) - 1
        BY <4>1, FS_RemoveElement
      <4> QED BY <2>1, <4>2
    <3>4. it[s \ {c}] = jt[s \ {c}]
      BY <1>7, <3>3
    <3> QED BY <3>1, <3>2, <3>4, <1>4 DEF Step
  <2> QED BY <2>1
<1>8. \A n \in Nat : n \in T
  <2> HIDE DEF T
  <2> QED BY <1>6, <1>7, Induct
<1>9. \A s \in SUBSET D : it[s] = jt[s]
  BY <1>8, FS_Subset, FS_CardinalityType
<1>10. it \in [SUBSET D -> Nat]
  BY <1>3, <1>5, <1>9
<1> QED BY <1>2, <1>4, <1>10 DEF SumOn

\* It does not matter which element is taken.
LEMMA SumTakes ==
    ASSUME NEW D, IsFiniteSet(D), NEW f, \A x \in D : f[x] \in Nat, NEW it, SumOn(f, D, it)
    PROVE  \A s \in SUBSET D : \A a \in s : it[s] = f[a] + it[s \ {a}]
<1> DEFINE T == {n \in Nat : \A s \in SUBSET D : Cardinality(s) = n =>
                                \A a \in s : it[s] = f[a] + it[s \ {a}]}
<1>1. 0 \in T
  BY FS_Subset, FS_EmptySet
<1>2. ASSUME NEW n \in Nat, n \in T PROVE n + 1 \in T
  <2>1. ASSUME NEW s \in SUBSET D, Cardinality(s) = n + 1, NEW a \in s
        PROVE  it[s] = f[a] + it[s \ {a}]
    <3>1. PICK c \in s : c = (CHOOSE x \in s : TRUE)
      OBVIOUS
    <3>2. it[s] = f[c] + it[s \ {c}]
      BY <3>1 DEF SumOn, Step
    <3>3. CASE a = c
      BY <3>2, <3>3
    <3>4. CASE a # c
      <4>1. /\ Cardinality(s \ {c}) = n /\ s \ {c} \in SUBSET D
            /\ Cardinality(s \ {a}) = n /\ s \ {a} \in SUBSET D
        <5>1. IsFiniteSet(s)
          BY FS_Subset
        <5>2. /\ Cardinality(s \ {c}) = Cardinality(s) - 1
              /\ Cardinality(s \ {a}) = Cardinality(s) - 1
          BY <5>1, FS_RemoveElement
        <5> QED BY <2>1, <5>2
      <4>2. it[s \ {c}] = f[a] + it[(s \ {c}) \ {a}] /\ it[s \ {a}] = f[c] + it[(s \ {a}) \ {c}]
        BY <1>2, <4>1, <3>4
      <4>3. PICK r \in SUBSET D : r = (s \ {c}) \ {a} /\ r = (s \ {a}) \ {c}
        OBVIOUS
      <4>4. it[r] \in Nat /\ f[a] \in Nat /\ f[c] \in Nat
        BY DEF SumOn
      <4>5. it[s] = f[c] + (f[a] + it[r]) /\ it[s \ {a}] = f[c] + it[r]
        BY <3>2, <4>2, <4>3
      <4> QED BY <4>4, <4>5
    <3> QED BY <3>3, <3>4
  <2> QED BY <2>1
<1> HIDE DEF T
<1>3. \A n \in Nat : n \in T
  BY <1>1, <1>2, Induct
<1> USE DEF T
<1> QED BY <1>3, FS_Subset, FS_CardinalityType

\* Where two functions are the same, so are their sums.
LEMMA SumsAgree ==
    ASSUME NEW D, IsFiniteSet(D), NEW E, NEW f, NEW g, NEW it, NEW jt,
           SumOn(f, D, it), SumOn(g, E, jt),
           \A x \in D \cap E : f[x] = g[x]
    PROVE  \A s \in SUBSET (D \cap E) : it[s] = jt[s]
<1> DEFINE T == {n \in Nat : \A s \in SUBSET (D \cap E) : Cardinality(s) = n => it[s] = jt[s]}
<1>1. 0 \in T
  <2>1. ASSUME NEW s \in SUBSET (D \cap E), Cardinality(s) = 0 PROVE it[s] = jt[s]
    <3>1. s = {}
      BY <2>1, FS_Subset, FS_EmptySet
    <3> QED BY <3>1 DEF SumOn, Step
  <2> QED BY <2>1
<1>2. ASSUME NEW n \in Nat, n \in T PROVE n + 1 \in T
  <2>1. ASSUME NEW s \in SUBSET (D \cap E), Cardinality(s) = n + 1 PROVE it[s] = jt[s]
    <3>1. s # {}
      BY <2>1, FS_EmptySet
    <3>2. PICK c \in s : c = (CHOOSE x \in s : TRUE)
      BY <3>1
    <3>3. Cardinality(s \ {c}) = n /\ s \ {c} \in SUBSET (D \cap E)
      <4>1. IsFiniteSet(s)
        BY FS_Subset
      <4>2. Cardinality(s \ {c}) = Cardinality(s) - 1
        BY <4>1, FS_RemoveElement
      <4> QED BY <2>1, <4>2
    <3>4. it[s \ {c}] = jt[s \ {c}] /\ f[c] = g[c]
      BY <1>2, <3>3
    <3>5. it[s] = Step(f, it, s) /\ jt[s] = Step(g, jt, s)
      BY DEF SumOn
    <3> QED BY <3>1, <3>2, <3>4, <3>5 DEF Step
  <2> QED BY <2>1
<1> HIDE DEF T
<1>3. \A n \in Nat : n \in T
  BY <1>1, <1>2, Induct
<1> USE DEF T
<1> QED BY <1>3, FS_Subset, FS_CardinalityType

\* The laws of SumFunction.
LEMMA SumNothing ==
    ASSUME NEW f, DOMAIN f = {}
    PROVE  SumFunction(f) = 0
<1>1. PICK it : SumOn(f, {}, it) /\ SumFunctionOnSet(f, {}) = it[{}]
  BY SumIsOne, FS_EmptySet
<1> QED BY <1>1 DEF SumOn, Step, SumFunction

LEMMA SumIsNat ==
    ASSUME NEW D, IsFiniteSet(D), NEW f \in [D -> Nat]
    PROVE  SumFunction(f) \in Nat
<1>1. PICK it : SumOn(f, D, it) /\ SumFunctionOnSet(f, D) = it[D]
  BY SumIsOne
<1> QED BY <1>1 DEF SumOn, SumFunction

\* g is f with a value more.
With(D, f, a, E, g) ==
    /\ f \in [D -> Nat] /\ a \notin D
    /\ E = D \cup {a} /\ g \in [E -> Nat] /\ \A x \in D : g[x] = f[x]

LEMMA SumAdd ==
    ASSUME NEW D, IsFiniteSet(D), NEW f, NEW a, NEW E, NEW g, With(D, f, a, E, g)
    PROVE  SumFunction(g) = SumFunction(f) + g[a]
<1>0. /\ f \in [D -> Nat] /\ a \notin D
      /\ E = D \cup {a} /\ g \in [E -> Nat] /\ \A x \in D : g[x] = f[x]
  BY DEF With
<1>1. IsFiniteSet(E)
  BY <1>0, FS_AddElement
<1>2. PICK it : SumOn(f, D, it) /\ SumFunctionOnSet(f, D) = it[D]
  BY <1>0, SumIsOne
<1>3. PICK jt : SumOn(g, E, jt) /\ SumFunctionOnSet(g, E) = jt[E]
  BY <1>0, <1>1, SumIsOne
<1>4. jt[E] = g[a] + jt[E \ {a}]
  BY <1>0, <1>1, <1>3, SumTakes
<1>5. it[D] = jt[D]
  <2>1. D \in SUBSET (D \cap E) /\ \A x \in D \cap E : f[x] = g[x]
    BY <1>0
  <2> QED BY <2>1, <1>2, <1>3, SumsAgree
<1>6. E \ {a} = D /\ DOMAIN f = D /\ DOMAIN g = E
  BY <1>0
<1>7. it[D] \in Nat /\ g[a] \in Nat
  BY <1>0, <1>2 DEF SumOn
<1>8. SumFunction(f) = it[D] /\ SumFunction(g) = jt[E]
  BY <1>2, <1>3, <1>6 DEF SumFunction
<1>9. jt[E] = g[a] + it[D]
  BY <1>4, <1>5, <1>6
<1> QED BY <1>7, <1>8, <1>9

\* g is f with another value at a.
Changed(D, f, g, a) ==
    /\ f \in [D -> Nat] /\ g \in [D -> Nat]
    /\ a \in D /\ \A x \in D \ {a} : g[x] = f[x]

LEMMA SumChange ==
    ASSUME NEW D, IsFiniteSet(D), NEW f, NEW g, NEW a, Changed(D, f, g, a)
    PROVE  SumFunction(g) + f[a] = SumFunction(f) + g[a]
<1>1. PICK h, E : E = D \ {a} /\ h = [x \in E |-> f[x]]
  OBVIOUS
<1>2. With(E, h, a, D, f) /\ With(E, h, a, D, g) /\ h \in [E -> Nat] /\ f[a] \in Nat /\ g[a] \in Nat
  BY <1>1 DEF With, Changed
<1>3. IsFiniteSet(E)
  BY <1>1, FS_RemoveElement DEF Changed
<1>4. SumFunction(h) \in Nat
  BY <1>2, <1>3, SumIsNat
<1>5. SumFunction(f) = SumFunction(h) + f[a]
  BY <1>2, <1>3, SumAdd
<1>6. SumFunction(g) = SumFunction(h) + g[a]
  BY <1>2, <1>3, SumAdd
<1> QED BY <1>2, <1>4, <1>5, <1>6

LEMMA Intervals ==
    ASSUME NEW k \in Nat
    PROVE  /\ IsFiniteSet(1 .. k)
           /\ k + 1 \notin 1 .. k
           /\ 1 .. k + 1 = (1 .. k) \cup {k + 1}
<1>1. IsFiniteSet(1 .. k)
  BY FS_Interval
<1>2. k + 1 \notin 1 .. k
  OBVIOUS
<1>3. 1 .. k + 1 = (1 .. k) \cup {k + 1}
  OBVIOUS
<1> QED BY <1>1, <1>2, <1>3

LEMMA SumUpto ==
    ASSUME NEW k \in Nat, NEW f, NEW g, With(1 .. k, f, k + 1, 1 .. k + 1, g)
    PROVE  SumFunction(g) = SumFunction(f) + g[k + 1]
<1>1. PICK D, E, a : D = 1 .. k /\ E = 1 .. k + 1 /\ a = k + 1
  OBVIOUS
<1>2. IsFiniteSet(D)
  BY <1>1, Intervals
<1>3. With(D, f, a, E, g)
  BY <1>1
<1>4. SumFunction(g) = SumFunction(f) + g[a]
  BY <1>2, <1>3, SumAdd
<1> QED BY <1>1, <1>4

\* The same values one place further on, behind another one.
Behind(k, f, g) ==
    /\ f \in [1 .. k -> Nat] /\ g \in [1 .. k + 1 -> Nat]
    /\ \A i \in 1 .. k : g[i + 1] = f[i]

LEMMA SumBehindNone ==
    ASSUME NEW f, NEW g, Behind(0, f, g)
    PROVE  SumFunction(g) = g[1] + SumFunction(f)
<1>1. With(1 .. 0, f, 0 + 1, 1 .. 0 + 1, g) /\ g[1] \in Nat /\ DOMAIN f = {}
  BY DEF Behind, With
<1>2. SumFunction(g) = SumFunction(f) + g[0 + 1]
  BY <1>1, SumUpto
<1>3. SumFunction(f) = 0
  BY <1>1, SumNothing
<1> QED BY <1>1, <1>2, <1>3

LEMMA SumBehindMore ==
    ASSUME NEW k \in Nat, NEW f, NEW g, Behind(k + 1, f, g),
           \A p, q : Behind(k, p, q) => SumFunction(q) = q[1] + SumFunction(p)
    PROVE  SumFunction(g) = g[1] + SumFunction(f)
<1>1. PICK p, q : p = [i \in 1 .. k |-> f[i]] /\ q = [i \in 1 .. k + 1 |-> g[i]]
  OBVIOUS
<1>2. Behind(k, p, q)
  BY <1>1 DEF Behind
<1>3. With(1 .. k, p, k + 1, 1 .. k + 1, f)
  <2>1. p \in [1 .. k -> Nat] /\ f \in [1 .. k + 1 -> Nat] /\ \A i \in 1 .. k : f[i] = p[i]
    BY <1>1 DEF Behind
  <2> QED BY <2>1, Intervals DEF With
<1>9. With(1 .. k + 1, q, k + 1 + 1, 1 .. k + 1 + 1, g)
  <2>1. PICK m \in Nat : m = k + 1
    OBVIOUS
  <2>2. q \in [1 .. m -> Nat] /\ g \in [1 .. m + 1 -> Nat] /\ \A i \in 1 .. m : g[i] = q[i]
    BY <1>1, <2>1 DEF Behind
  <2>3. With(1 .. m, q, m + 1, 1 .. m + 1, g)
    BY <2>2, Intervals DEF With
  <2> QED BY <2>1, <2>3
<1>4. /\ p \in [1 .. k -> Nat] /\ q[1] = g[1] /\ g[1] \in Nat
      /\ g[k + 1 + 1] = f[k + 1] /\ f[k + 1] \in Nat
  BY <1>1 DEF Behind
<1>5. SumFunction(q) = q[1] + SumFunction(p)
  BY <1>2
<1>6. SumFunction(f) = SumFunction(p) + f[k + 1]
  BY <1>3, SumUpto
<1>7. SumFunction(g) = SumFunction(q) + g[k + 1 + 1]
  BY <1>9, SumUpto
<1>8. SumFunction(p) \in Nat
  <2>1. PICK D : D = 1 .. k
    OBVIOUS
  <2>2. IsFiniteSet(D) /\ p \in [D -> Nat]
    BY <1>4, <2>1, Intervals
  <2> QED BY <2>2, SumIsNat
<1> QED BY <1>4, <1>5, <1>6, <1>7, <1>8

LEMMA SumBehind ==
    ASSUME NEW k \in Nat, NEW f, NEW g, Behind(k, f, g)
    PROVE  SumFunction(g) = g[1] + SumFunction(f)
<1> DEFINE T == {n \in Nat : \A p, q : Behind(n, p, q) => SumFunction(q) = q[1] + SumFunction(p)}
<1>1. 0 \in T
  BY SumBehindNone
<1>2. ASSUME NEW n \in Nat, n \in T PROVE n + 1 \in T
  <2>1. \A p, q : Behind(n, p, q) => SumFunction(q) = q[1] + SumFunction(p)
    BY <1>2
  <2>2. ASSUME NEW p, NEW q, Behind(n + 1, p, q)
        PROVE  SumFunction(q) = q[1] + SumFunction(p)
    BY <2>1, <2>2, SumBehindMore
  <2> QED BY <2>2
<1>3. \A n \in Nat : n \in T
  <2> HIDE DEF T
  <2> QED BY <1>1, <1>2, Induct
<1> QED BY <1>3
-------------------------------------------------------------------------------
(* What gaps give an account of *)

LEMMA GapForm ==
    ASSUME NEW g \in Gap
    PROVE  /\ g = [context |-> g.context, mixed |-> g.mixed, dropped |-> g.dropped,
                   omitted |-> g.omitted, first |-> g.first, last |-> g.last]
           /\ g.dropped \in Nat /\ g.omitted \in Nat /\ g.first \in Events
  BY DEF Gap

LEMMA CountsAreNat ==
    ASSUME NEW s \in Seq(Gap)
    PROVE  Dropped(s) \in Nat /\ Omitted(s) \in Nat
<1>1. IsFiniteSet(DOMAIN s)
  BY FS_Interval
<1>2. /\ [n \in DOMAIN s |-> s[n].dropped] \in [DOMAIN s -> Nat]
      /\ [n \in DOMAIN s |-> s[n].omitted] \in [DOMAIN s -> Nat]
  BY GapForm
<1> QED BY <1>1, <1>2, SumIsNat DEF Dropped, Omitted

\* A gap more.
LEMMA CountAppended ==
    ASSUME NEW s \in Seq(Gap), NEW g \in Gap
    PROVE  /\ Dropped(Append(s, g)) = Dropped(s) + g.dropped
           /\ Omitted(Append(s, g)) = Omitted(s) + g.omitted
<1>1. PICK t, k : t = Append(s, g) /\ k = Len(s)
  OBVIOUS
<1>2. /\ k \in Nat /\ DOMAIN s = 1 .. k /\ DOMAIN t = 1 .. k + 1
      /\ t[k + 1] = g /\ \A n \in 1 .. k : t[n] = s[n] /\ s[n] \in Gap
  BY <1>1
<1>3. Dropped(t) = Dropped(s) + g.dropped
  <2>1. PICK p, q : p = [n \in DOMAIN s |-> s[n].dropped] /\ q = [n \in DOMAIN t |-> t[n].dropped]
    OBVIOUS
  <2>2. With(1 .. k, p, k + 1, 1 .. k + 1, q) /\ q[k + 1] = g.dropped
    <3>1. PICK D, E, a : D = 1 .. k /\ E = 1 .. k + 1 /\ a = k + 1
      OBVIOUS
    <3>2. E = D \cup {a} /\ a \notin D
      BY <1>2, <3>1, Intervals
    <3>3. With(D, p, a, E, q) /\ q[a] = g.dropped
      BY <3>1, <3>2, <1>2, <2>1, GapForm DEF With
    <3> QED BY <3>1, <3>3
  <2>3. Dropped(s) = SumFunction(p) /\ Dropped(t) = SumFunction(q)
    BY <2>1 DEF Dropped
  <2>4. SumFunction(q) = SumFunction(p) + q[k + 1]
    BY <1>2, <2>2, SumUpto
  <2> QED BY <2>2, <2>3, <2>4
<1>4. Omitted(t) = Omitted(s) + g.omitted
  <2>1. PICK p, q : p = [n \in DOMAIN s |-> s[n].omitted] /\ q = [n \in DOMAIN t |-> t[n].omitted]
    OBVIOUS
  <2>2. With(1 .. k, p, k + 1, 1 .. k + 1, q) /\ q[k + 1] = g.omitted
    <3>1. PICK D, E, a : D = 1 .. k /\ E = 1 .. k + 1 /\ a = k + 1
      OBVIOUS
    <3>2. E = D \cup {a} /\ a \notin D
      BY <1>2, <3>1, Intervals
    <3>3. With(D, p, a, E, q) /\ q[a] = g.omitted
      BY <3>1, <3>2, <1>2, <2>1, GapForm DEF With
    <3> QED BY <3>1, <3>3
  <2>3. Omitted(s) = SumFunction(p) /\ Omitted(t) = SumFunction(q)
    BY <2>1 DEF Omitted
  <2>4. SumFunction(q) = SumFunction(p) + q[k + 1]
    BY <1>2, <2>2, SumUpto
  <2> QED BY <2>2, <2>3, <2>4
<1> QED BY <1>1, <1>3, <1>4

\* Another gap in the place of one.
LEMMA CountChanged ==
    ASSUME NEW s \in Seq(Gap), NEW t \in Seq(Gap), Len(t) = Len(s), NEW k \in 1 .. Len(s),
           \A n \in 1 .. Len(s) : n # k => t[n] = s[n]
    PROVE  /\ Dropped(t) + s[k].dropped = Dropped(s) + t[k].dropped
           /\ Omitted(t) + s[k].omitted = Omitted(s) + t[k].omitted
<1>1. PICK D : /\ D = 1 .. Len(s) /\ DOMAIN s = D /\ DOMAIN t = D
               /\ \A n \in D : s[n] \in Gap /\ t[n] \in Gap
  OBVIOUS
<1>2. IsFiniteSet(D)
  BY <1>1, FS_Interval
<1>3. Dropped(t) + s[k].dropped = Dropped(s) + t[k].dropped
  <2>1. PICK p, q : p = [n \in DOMAIN s |-> s[n].dropped] /\ q = [n \in DOMAIN t |-> t[n].dropped]
    OBVIOUS
  <2>2. Changed(D, p, q, k) /\ p[k] = s[k].dropped /\ q[k] = t[k].dropped
    BY <1>1, <2>1, GapForm DEF Changed
  <2>3. Dropped(s) = SumFunction(p) /\ Dropped(t) = SumFunction(q)
    BY <2>1 DEF Dropped
  <2>4. SumFunction(q) + p[k] = SumFunction(p) + q[k]
    BY <1>2, <2>2, SumChange
  <2> QED BY <2>2, <2>3, <2>4
<1>4. Omitted(t) + s[k].omitted = Omitted(s) + t[k].omitted
  <2>1. PICK p, q : p = [n \in DOMAIN s |-> s[n].omitted] /\ q = [n \in DOMAIN t |-> t[n].omitted]
    OBVIOUS
  <2>2. Changed(D, p, q, k) /\ p[k] = s[k].omitted /\ q[k] = t[k].omitted
    BY <1>1, <2>1, GapForm DEF Changed
  <2>3. Omitted(s) = SumFunction(p) /\ Omitted(t) = SumFunction(q)
    BY <2>1 DEF Omitted
  <2>4. SumFunction(q) + p[k] = SumFunction(p) + q[k]
    BY <1>2, <2>2, SumChange
  <2> QED BY <2>2, <2>3, <2>4
<1> QED BY <1>3, <1>4

\* The first gap and the others.
LEMMA CountSplit ==
    ASSUME NEW s \in Seq(Gap), s # <<>>
    PROVE  /\ Dropped(s) = Head(s).dropped + Dropped(Tail(s))
           /\ Omitted(s) = Head(s).omitted + Omitted(Tail(s))
<1>1. PICK t : t = Tail(s)
  OBVIOUS
<1>2. PICK k \in Nat : k = Len(t)
  BY <1>1
<1>3. /\ DOMAIN s = 1 .. k + 1 /\ DOMAIN t = 1 .. k /\ s[1] = Head(s)
      /\ \A n \in 1 .. k : n + 1 \in 1 .. k + 1 /\ t[n] = s[n + 1] /\ t[n] \in Gap
      /\ \A n \in 1 .. k + 1 : s[n] \in Gap
      /\ 1 \in 1 .. k + 1
  BY <1>1, <1>2
<1>4. Dropped(s) = Head(s).dropped + Dropped(t)
  <2>1. PICK p, q : p = [n \in DOMAIN t |-> t[n].dropped] /\ q = [n \in DOMAIN s |-> s[n].dropped]
    OBVIOUS
  <2>2. /\ p \in [1 .. k -> Nat] /\ q \in [1 .. k + 1 -> Nat]
        /\ \A n \in 1 .. k : q[n + 1] = p[n]
        /\ q[1] = Head(s).dropped
    BY <1>3, <2>1, GapForm
  <2>3. Dropped(t) = SumFunction(p) /\ Dropped(s) = SumFunction(q)
    BY <2>1 DEF Dropped
  <2>4. Behind(k, p, q)
    BY <2>2 DEF Behind
  <2> QED BY <2>2, <2>3, <2>4, SumBehind
<1>5. Omitted(s) = Head(s).omitted + Omitted(t)
  <2>1. PICK p, q : p = [n \in DOMAIN t |-> t[n].omitted] /\ q = [n \in DOMAIN s |-> s[n].omitted]
    OBVIOUS
  <2>2. /\ p \in [1 .. k -> Nat] /\ q \in [1 .. k + 1 -> Nat]
        /\ \A n \in 1 .. k : q[n + 1] = p[n]
        /\ q[1] = Head(s).omitted
    BY <1>3, <2>1, GapForm
  <2>3. Omitted(t) = SumFunction(p) /\ Omitted(s) = SumFunction(q)
    BY <2>1 DEF Omitted
  <2>4. Behind(k, p, q)
    BY <2>2 DEF Behind
  <2> QED BY <2>2, <2>3, <2>4, SumBehind
<1> QED BY <1>1, <1>4, <1>5

\* One more gap that was reported.
LEMMA CountReported ==
    ASSUME NEW R, R \subseteq Gap, IsFiniteSet(R), NEW g \in Gap, g \notin R
    PROVE  /\ DroppedOf(R \cup {g}) = DroppedOf(R) + g.dropped
           /\ OmittedOf(R \cup {g}) = OmittedOf(R) + g.omitted
           /\ DroppedOf(R) \in Nat /\ OmittedOf(R) \in Nat
<1>1. DroppedOf(R \cup {g}) = DroppedOf(R) + g.dropped /\ DroppedOf(R) \in Nat
  <2>1. PICK p, q, E : E = R \cup {g} /\ p = [h \in R |-> h.dropped] /\ q = [h \in E |-> h.dropped]
    OBVIOUS
  <2>2. With(R, p, g, E, q) /\ p \in [R -> Nat] /\ q[g] = g.dropped
    BY <2>1, GapForm DEF With
  <2>3. DroppedOf(R) = SumFunction(p) /\ DroppedOf(E) = SumFunction(q)
    BY <2>1 DEF DroppedOf
  <2>4. SumFunction(q) = SumFunction(p) + q[g]
    BY <2>2, SumAdd
  <2> QED BY <2>1, <2>2, <2>3, <2>4, SumIsNat
<1>2. OmittedOf(R \cup {g}) = OmittedOf(R) + g.omitted /\ OmittedOf(R) \in Nat
  <2>1. PICK p, q, E : E = R \cup {g} /\ p = [h \in R |-> h.omitted] /\ q = [h \in E |-> h.omitted]
    OBVIOUS
  <2>2. With(R, p, g, E, q) /\ p \in [R -> Nat] /\ q[g] = g.omitted
    BY <2>1, GapForm DEF With
  <2>3. OmittedOf(R) = SumFunction(p) /\ OmittedOf(E) = SumFunction(q)
    BY <2>1 DEF OmittedOf
  <2>4. SumFunction(q) = SumFunction(p) + q[g]
    BY <2>2, SumAdd
  <2> QED BY <2>1, <2>2, <2>3, <2>4, SumIsNat
<1> QED BY <1>1, <1>2
-------------------------------------------------------------------------------
(* The inductive invariant *)

Item == [event : Events, bytes : {Size[e] : e \in Events} \cup {BareSize[e] : e \in Events}]

EventsOf(its) == [n \in DOMAIN its |-> its[n].event]

\* The gaps that are kept began with different events, and with others than the
\* gaps that were reported.
AreApart(kept, told, those) ==
    /\ \A i, j \in DOMAIN kept : kept[i].first = kept[j].first => i = j
    /\ \A i \in DOMAIN kept : kept[i].first \in those /\ \A g \in told : g.first # kept[i].first
    /\ \A g \in told : g.first \in those

WriterTypes ==
    /\ items \in Seq(Item) /\ gaps \in Seq(Gap)
    /\ reported \subseteq Gap /\ IsFiniteSet(reported)
    /\ stored \in Seq(Events) /\ submitted \in Seq(Events)
    /\ lost \cup degraded \cup late \subseteq Range(submitted)
    /\ IsFiniteSet(lost) /\ IsFiniteSet(degraded)
    /\ draining \in {"no", "item", "gap"}

\* What the drain awaits, it holds; and it is not scheduled meanwhile.
DrainIsInOrder ==
    /\ IF draining = "gap" THEN \E g \in Gap : held = <<g>> ELSE held = <<>>
    /\ draining = "item" => items # <<>>
    /\ scheduled => ~ Draining

\* A writer that flushed is at rest.
FlushIsFinal ==
    flushed => /\ closing /\ stopped /\ ~ Draining /\ ~ scheduled
               /\ items = <<>> /\ gaps = <<>>

WriterInv ==
    /\ WriterTypes
    /\ DrainIsInOrder
    /\ FlushIsFinal
    /\ AreApart(Kept, reported, Range(submitted))
    /\ LossIsAccounted
    /\ IsWhatWasAccepted(stored \o EventsOf(items))
-------------------------------------------------------------------------------
(* What is kept when a gap is recorded, taken, reported or given back *)

Mixed(g) == [g EXCEPT !.context = NoWorkspace, !.mixed = TRUE]

\* l tells of what g tells of, beyond k.
Extends(k, l, g) ==
    \/ \E h \in Gap : /\ l = Append(k, h)
                      /\ h.first = g.first /\ h.dropped = g.dropped /\ h.omitted = g.omitted
    \/ \E i \in 1 .. Len(k) :
         /\ l \in Seq(Gap) /\ Len(l) = Len(k)
         /\ \A n \in 1 .. Len(k) : n # i => l[n] = k[n]
         /\ l[i].first = k[i].first
         /\ l[i].dropped = k[i].dropped + g.dropped
         /\ l[i].omitted = k[i].omitted + g.omitted

LEMMA ExtendsCounts ==
    ASSUME NEW k \in Seq(Gap), NEW l, NEW g \in Gap, Extends(k, l, g)
    PROVE  /\ Dropped(l) = Dropped(k) + g.dropped
           /\ Omitted(l) = Omitted(k) + g.omitted
<1>1. CASE \E h \in Gap : /\ l = Append(k, h)
                          /\ h.first = g.first /\ h.dropped = g.dropped /\ h.omitted = g.omitted
  BY <1>1, CountAppended
<1>2. CASE \E i \in 1 .. Len(k) :
             /\ l \in Seq(Gap) /\ Len(l) = Len(k)
             /\ \A n \in 1 .. Len(k) : n # i => l[n] = k[n]
             /\ l[i].first = k[i].first
             /\ l[i].dropped = k[i].dropped + g.dropped
             /\ l[i].omitted = k[i].omitted + g.omitted
  <2>1. PICK i \in 1 .. Len(k) :
             /\ l \in Seq(Gap) /\ Len(l) = Len(k)
             /\ \A n \in 1 .. Len(k) : n # i => l[n] = k[n]
             /\ l[i].dropped = k[i].dropped + g.dropped
             /\ l[i].omitted = k[i].omitted + g.omitted
    BY <1>2
  <2>2. /\ Dropped(l) + k[i].dropped = Dropped(k) + l[i].dropped
        /\ Omitted(l) + k[i].omitted = Omitted(k) + l[i].omitted
    BY <2>1, CountChanged
  <2>3. k[i] \in Gap
    OBVIOUS
  <2>4. k[i].dropped \in Nat /\ k[i].omitted \in Nat /\ g.dropped \in Nat /\ g.omitted \in Nat
    BY <2>3, GapForm
  <2>5. Dropped(l) \in Nat /\ Dropped(k) \in Nat /\ Omitted(l) \in Nat /\ Omitted(k) \in Nat
    BY <2>1, CountsAreNat
  <2>8. l[i].dropped = k[i].dropped + g.dropped /\ l[i].omitted = k[i].omitted + g.omitted
    BY <2>1
  <2>6. Dropped(l) = Dropped(k) + g.dropped
    <3>1. PICK a \in Nat, b \in Nat, c \in Nat, e \in Nat :
             a = Dropped(l) /\ b = k[i].dropped /\ c = Dropped(k) /\ e = g.dropped
      BY <2>4, <2>5
    <3>2. a + b = c + (b + e)
      BY ONLY <2>2, <2>8, <3>1, Zenon
    <3>3. a = c + e
      BY ONLY <3>1, <3>2
    <3> QED BY ONLY <3>1, <3>3, Zenon
  <2>7. Omitted(l) = Omitted(k) + g.omitted
    <3>1. PICK a \in Nat, b \in Nat, c \in Nat, e \in Nat :
             a = Omitted(l) /\ b = k[i].omitted /\ c = Omitted(k) /\ e = g.omitted
      BY <2>4, <2>5
    <3>2. a + b = c + (b + e)
      BY ONLY <2>2, <2>8, <3>1, Zenon
    <3>3. a = c + e
      BY ONLY <3>1, <3>2
    <3> QED BY ONLY <3>1, <3>3, Zenon
  <2> QED BY <2>6, <2>7
<1> QED BY <1>1, <1>2 DEF Extends

LEMMA ExtendsApart ==
    ASSUME NEW k \in Seq(Gap), NEW l, NEW g \in Gap, Extends(k, l, g),
           NEW R, NEW S, AreApart(k, R, S), g.first \notin S
    PROVE  AreApart(l, R, S \cup {g.first})
<1>1. CASE \E h \in Gap : l = Append(k, h) /\ h.first = g.first
  <2>1. PICK h \in Gap : l = Append(k, h) /\ h.first = g.first
    BY <1>1
  <2>2. PICK m \in Nat : m = Len(k)
    OBVIOUS
  <2>3. /\ DOMAIN k = 1 .. m /\ DOMAIN l = 1 .. m + 1
        /\ \A n \in 1 .. m : l[n] = k[n]
        /\ l[m + 1] = h
    BY <2>1, <2>2
  <2>4. \A i \in 1 .. m + 1 : i \in 1 .. m \/ i = m + 1
    OBVIOUS
  <2> QED BY <2>1, <2>3, <2>4 DEF AreApart
<1>2. CASE \E i \in 1 .. Len(k) :
             /\ l \in Seq(Gap) /\ Len(l) = Len(k)
             /\ \A n \in 1 .. Len(k) : n # i => l[n] = k[n]
             /\ l[i].first = k[i].first
  <2>1. PICK D : D = DOMAIN k /\ D = DOMAIN l /\ \A n \in D : l[n].first = k[n].first
    BY <1>2
  <2> QED BY <2>1 DEF AreApart
<1> QED BY <1>1, <1>2 DEF Extends

LEMMA ExtendsBehind ==
    ASSUME NEW k \in Seq(Gap), NEW l, NEW g \in Gap, Extends(k, l, g), NEW h \in Gap
    PROVE  Extends(<<h>> \o k, <<h>> \o l, g)
<1>1. CASE \E f \in Gap : /\ l = Append(k, f)
                          /\ f.first = g.first /\ f.dropped = g.dropped /\ f.omitted = g.omitted
  <2>1. PICK f \in Gap : /\ l = Append(k, f)
                         /\ f.first = g.first /\ f.dropped = g.dropped /\ f.omitted = g.omitted
    BY <1>1
  <2>2. <<h>> \o Append(k, f) = Append(<<h>> \o k, f)
    OBVIOUS
  <2> QED BY <2>1, <2>2 DEF Extends
<1>2. CASE \E i \in 1 .. Len(k) :
             /\ l \in Seq(Gap) /\ Len(l) = Len(k)
             /\ \A n \in 1 .. Len(k) : n # i => l[n] = k[n]
             /\ l[i].first = k[i].first
             /\ l[i].dropped = k[i].dropped + g.dropped
             /\ l[i].omitted = k[i].omitted + g.omitted
  <2>1. PICK i \in 1 .. Len(k) :
             /\ l \in Seq(Gap) /\ Len(l) = Len(k)
             /\ \A n \in 1 .. Len(k) : n # i => l[n] = k[n]
             /\ l[i].first = k[i].first
             /\ l[i].dropped = k[i].dropped + g.dropped
             /\ l[i].omitted = k[i].omitted + g.omitted
    BY <1>2
  <2>2. PICK p, q : p = <<h>> \o k /\ q = <<h>> \o l
    OBVIOUS
  <2>3. /\ p \in Seq(Gap) /\ q \in Seq(Gap) /\ Len(p) = Len(k) + 1 /\ Len(q) = Len(p)
        /\ p[1] = h /\ q[1] = h
        /\ \A n \in 1 .. Len(k) : p[n + 1] = k[n] /\ q[n + 1] = l[n]
    BY <2>1, <2>2
  <2>4. ASSUME NEW n \in 1 .. Len(p), n # i + 1 PROVE q[n] = p[n]
    <3>1. CASE n = 1
      BY <3>1, <2>3
    <3>2. CASE n # 1
      <4>1. PICK m \in 1 .. Len(k) : n = m + 1
        BY <3>2, <2>3
      <4>2. m # i
        BY <4>1, <2>4
      <4>3. l[m] = k[m]
        BY <4>2, <2>1
      <4>4. p[m + 1] = k[m] /\ q[m + 1] = l[m]
        BY <2>3
      <4> QED BY ONLY <4>1, <4>3, <4>4, Zenon
    <3> QED BY <3>1, <3>2
  <2>5. i + 1 \in 1 .. Len(p) /\ q[i + 1] = l[i] /\ p[i + 1] = k[i]
    BY <2>3
  <2>6. Extends(p, q, g)
    BY <2>1, <2>3, <2>4, <2>5 DEF Extends
  <2> QED BY <2>2, <2>6
<1> QED BY <1>1, <1>2 DEF Extends

\* A gap that takes up what another one tells of.
LEMMA GapsJoin ==
    ASSUME NEW o \in Gap, NEW g \in Gap
    PROVE  /\ Merged(o, g) \in Gap /\ Merged(o, g).first = o.first
           /\ Merged(o, g).dropped = o.dropped + g.dropped
           /\ Merged(o, g).omitted = o.omitted + g.omitted
           /\ Aggregated(o, g) \in Gap /\ Aggregated(o, g).first = o.first
           /\ Aggregated(o, g).dropped = o.dropped + g.dropped
           /\ Aggregated(o, g).omitted = o.omitted + g.omitted
           /\ Mixed(o) \in Gap /\ Mixed(o).first = o.first
           /\ Mixed(o).dropped = o.dropped /\ Mixed(o).omitted = o.omitted
<1>1. PICK c, x, d0, n0, f, t :
        /\ o = [context |-> c, mixed |-> x, dropped |-> d0, omitted |-> n0, first |-> f, last |-> t]
        /\ c \in {Context[e] : e \in Events} \cup {NoWorkspace} /\ x \in BOOLEAN
        /\ d0 \in Nat /\ n0 \in Nat /\ f \in Events /\ t \in Events
  BY DEF Gap
<1>2. g.dropped \in Nat /\ g.omitted \in Nat /\ g.last \in Events
  BY DEF Gap
<1>3. PICK d, n, z : d = o.dropped + g.dropped /\ n = o.omitted + g.omitted /\ z = g.last
  OBVIOUS
<1>4. PICK q : q = [o EXCEPT !.context = NoWorkspace, !.mixed = TRUE, !.last = z,
                             !.dropped = d, !.omitted = n]
  OBVIOUS
<1>5. PICK r : r = [o EXCEPT !.dropped = d, !.omitted = n, !.last = z]
  OBVIOUS
<1>6. PICK v : v = [o EXCEPT !.context = NoWorkspace, !.mixed = TRUE]
  OBVIOUS
<1>7. /\ q = [context |-> NoWorkspace, mixed |-> TRUE, dropped |-> d, omitted |-> n, first |-> f, last |-> z]
      /\ r = [context |-> c, mixed |-> x, dropped |-> d, omitted |-> n, first |-> f, last |-> z]
      /\ v = [context |-> NoWorkspace, mixed |-> TRUE, dropped |-> d0, omitted |-> n0, first |-> f, last |-> t]
  BY <1>1, <1>4, <1>5, <1>6
<1>8. d \in Nat /\ n \in Nat /\ z \in Events
  BY <1>1, <1>2, <1>3
<1>9. q \in Gap /\ r \in Gap /\ v \in Gap
  BY <1>1, <1>7, <1>8 DEF Gap
<1>10. o.dropped = d0 /\ o.omitted = n0 /\ o.first = f
  BY <1>1
<1>11. Merged(o, g) = q /\ Aggregated(o, g) = r /\ Mixed(o) = v
  BY <1>3, <1>4, <1>5, <1>6, Zenon DEF Merged, Aggregated, Mixed
<1>12. /\ q.first = f /\ q.dropped = d /\ q.omitted = n
       /\ r.first = f /\ r.dropped = d /\ r.omitted = n
       /\ v.first = f /\ v.dropped = d0 /\ v.omitted = n0
  BY <1>7
<1> QED BY ONLY <1>3, <1>9, <1>10, <1>11, <1>12, Zenon

LEMMA RecordGapExtends ==
    ASSUME gaps \in Seq(Gap), NEW g \in Gap, RecordGap(g)
    PROVE  gaps' \in Seq(Gap) /\ Extends(gaps, gaps', g)
<1>1. ASSUME gaps # <<>>, NEW c, gaps' = [gaps EXCEPT ![Len(gaps)] = c],
             c = Aggregated(gaps[Len(gaps)], g) \/ c = Merged(gaps[Len(gaps)], g)
      PROVE  gaps' \in Seq(Gap) /\ Extends(gaps, gaps', g)
  <2>1. PICK i \in 1 .. Len(gaps) : i = Len(gaps)
    BY <1>1
  <2>2. PICK o \in Gap : o = gaps[i]
    OBVIOUS
  <2>3. /\ c \in Gap /\ c.first = o.first
        /\ c.dropped = o.dropped + g.dropped /\ c.omitted = o.omitted + g.omitted
    <3>1. gaps[Len(gaps)] = o
      BY <2>1, <2>2
    <3>2. c = Aggregated(o, g) \/ c = Merged(o, g)
      BY <1>1, <3>1, Zenon
    <3> QED BY <3>2, GapsJoin
  <2>4. gaps' = [gaps EXCEPT ![i] = c]
    BY <1>1, <2>1
  <2> QED BY <2>2, <2>3, <2>4 DEF Extends
<1>2. CASE gaps # <<>> /\ gaps' = [gaps EXCEPT ![Len(gaps)] = Aggregated(@, g)]
  <2>1. gaps' = [gaps EXCEPT ![Len(gaps)] = Aggregated(gaps[Len(gaps)], g)]
    BY <1>2, Zenon
  <2> QED BY <1>1, <1>2, <2>1
<1>3. CASE gaps' = Append(gaps, g)
  BY <1>3 DEF Extends
<1>4. CASE gaps = <<>> /\ gaps' = <<[g EXCEPT !.context = NoWorkspace, !.mixed = TRUE]>>
  <2>1. PICK h : h = Mixed(g)
    OBVIOUS
  <2>2. h \in Gap /\ h.first = g.first /\ h.dropped = g.dropped /\ h.omitted = g.omitted
    BY <2>1, GapsJoin
  <2>3. gaps' = <<h>>
    BY <1>4, <2>1, Zenon DEF Mixed
  <2>4. gaps' = Append(gaps, h)
    BY <1>4, <2>3
  <2> QED BY <2>2, <2>4 DEF Extends
<1>5. CASE gaps # <<>> /\ gaps' = [gaps EXCEPT ![Len(gaps)] = Merged(@, g)]
  <2>1. gaps' = [gaps EXCEPT ![Len(gaps)] = Merged(gaps[Len(gaps)], g)]
    BY <1>5, Zenon
  <2> QED BY <1>1, <1>5, <2>1
<1> QED BY <1>2, <1>3, <1>4, <1>5 DEF RecordGap

LEMMA TailIsSeq == ASSUME NEW T, NEW s \in Seq(T), s # <<>> PROVE Tail(s) \in Seq(T)
  OBVIOUS

LEMMA ConsForm ==
    ASSUME NEW c \in Gap, NEW t \in Seq(Gap)
    PROVE  <<c>> \o t \in Seq(Gap) /\ <<c>> \o t # <<>> /\ Head(<<c>> \o t) = c /\ Tail(<<c>> \o t) = t
<1>1. <<c>> \o t \in Seq(Gap) /\ Len(<<c>> \o t) = Len(t) + 1
  OBVIOUS
<1>2. (<<c>> \o t)[1] = c
  OBVIOUS
<1>3. Tail(<<c>> \o t) = t
  <2>1. PICK k, u : k = <<c>> \o t /\ u = Tail(k)
    OBVIOUS
  <2>2. u \in Seq(Gap) /\ Len(u) = Len(t) /\ \A n \in 1 .. Len(t) : u[n] = t[n]
    BY <2>1
  <2>3. u = t
    BY <2>2
  <2> QED BY <2>1, <2>3
<1> QED BY <1>1, <1>2, <1>3

\* Giving a gap back loses no account.
LEMMA RestoreGapKeeps ==
    ASSUME gaps \in Seq(Gap), NEW g \in Gap, RestoreGap(g), NEW R, NEW S,
           AreApart(<<g>> \o gaps, R, S)
    PROVE  /\ gaps' \in Seq(Gap)
           /\ AreApart(gaps', R, S)
           /\ Dropped(gaps') = Dropped(<<g>> \o gaps)
           /\ Omitted(gaps') = Omitted(<<g>> \o gaps)
<1>1. PICK k, d : d = gaps /\ k = <<g>> \o d
  OBVIOUS
<1>2. d \in Seq(Gap) /\ k \in Seq(Gap) /\ k # <<>> /\ Head(k) = g /\ Tail(k) = d
  BY <1>1, ConsForm
<1>3. CASE gaps' = <<g>> \o gaps
  BY <1>1, <1>2, <1>3
<1>4. CASE gaps # <<>> /\ gaps' = <<Merged(g, Head(gaps))>> \o Tail(gaps)
  <2>0. d # <<>>
    BY <1>1, <1>4
  <2>14. PICK h \in Gap : h = Head(d)
    BY <1>2, <2>0
  <2>15. PICK t \in Seq(Gap) : t = Tail(d)
    BY <1>2, <2>0, TailIsSeq
  <2>1. h = Head(d) /\ t = Tail(d)
    BY <2>14, <2>15
  <2>2. PICK c : c = Merged(g, h)
    OBVIOUS
  <2>3. /\ c \in Gap /\ c.first = g.first
        /\ c.dropped = g.dropped + h.dropped /\ c.omitted = g.omitted + h.omitted
    BY <2>2, GapsJoin
  <2>10. /\ g.dropped \in Nat /\ g.omitted \in Nat /\ h.dropped \in Nat /\ h.omitted \in Nat
    BY DEF Gap
  <2>4. PICK l : l = <<c>> \o t
    OBVIOUS
  <2>5. l \in Seq(Gap) /\ l # <<>> /\ Head(l) = c /\ Tail(l) = t
    BY <2>3, <2>4, ConsForm
  <2>11. l = gaps'
    BY <1>1, <1>4, <2>1, <2>2, <2>4
  <2>12. d # <<>>
    BY <1>1, <1>4
  <2>6. /\ Dropped(l) = c.dropped + Dropped(t) /\ Omitted(l) = c.omitted + Omitted(t)
        /\ Dropped(d) = h.dropped + Dropped(t) /\ Omitted(d) = h.omitted + Omitted(t)
        /\ Dropped(k) = g.dropped + Dropped(d) /\ Omitted(k) = g.omitted + Omitted(d)
    BY <1>2, <2>1, <2>5, <2>12, CountSplit
  <2>7. Dropped(t) \in Nat /\ Omitted(t) \in Nat
    BY CountsAreNat
  <2>8. Dropped(l) = Dropped(k) /\ Omitted(l) = Omitted(k)
    <3>1. Dropped(l) = (g.dropped + h.dropped) + Dropped(t) /\ Dropped(k) = g.dropped + (h.dropped + Dropped(t))
      BY ONLY <2>3, <2>6, Zenon
    <3>2. Omitted(l) = (g.omitted + h.omitted) + Omitted(t) /\ Omitted(k) = g.omitted + (h.omitted + Omitted(t))
      BY ONLY <2>3, <2>6, Zenon
    <3> QED BY ONLY <3>1, <3>2, <2>7, <2>10
  <2>9. AreApart(l, R, S)
    <3>1. PICK m \in Nat : m = Len(t)
      OBVIOUS
    <3>2. /\ DOMAIN l = 1 .. m + 1 /\ DOMAIN k = 1 .. m + 2
          /\ l[1].first = k[1].first
          /\ \A n \in 1 .. m + 1 : n # 1 => n + 1 \in 1 .. m + 2 /\ l[n] = k[n + 1]
      BY <3>1, <1>1, <2>1, <2>12, <2>3, <2>4
    <3>3. PICK s : s = [n \in 1 .. m + 1 |-> IF n = 1 THEN 1 ELSE n + 1]
      OBVIOUS
    <3>4. \A i, j \in DOMAIN l : s[i] = s[j] => i = j
      BY <3>2, <3>3
    <3>5. \A i \in DOMAIN l : s[i] \in DOMAIN k /\ l[i].first = k[s[i]].first
      BY <3>2, <3>3
    <3>6. AreApart(k, R, S)
      BY <1>1
    <3> QED BY ONLY <3>4, <3>5, <3>6 DEF AreApart
  <2> QED BY <1>1, <2>5, <2>8, <2>9, <2>11
<1> QED BY <1>3, <1>4 DEF RestoreGap

\* The drain takes the first gap when no event is left, and holds what it takes.
LEMMA DrainOnKeeps ==
    ASSUME NEW its \in Seq(Item), gaps \in Seq(Gap), DrainOn(its)
    PROVE  /\ items' = its /\ gaps' \in Seq(Gap) /\ draining' \in {"no", "item", "gap"}
           /\ held' \o gaps' = gaps
           /\ IF draining' = "gap" THEN \E g \in Gap : held' = <<g>> ELSE held' = <<>>
           /\ draining' = "item" => items' # <<>>
<1>1. CASE held' = <<>> /\ gaps' = gaps /\ draining' = "no" /\ items' = its
  BY <1>1
<1>2. CASE held' = <<>> /\ gaps' = gaps /\ draining' = "item" /\ items' = its /\ its # <<>>
  BY <1>2
<1>3. CASE held' = <<Head(gaps)>> /\ gaps' = Tail(gaps) /\ draining' = "gap" /\ items' = its /\ gaps # <<>>
  <2>1. Head(gaps) \in Gap /\ Tail(gaps) \in Seq(Gap)
    BY <1>3
  <2>2. <<Head(gaps)>> \o Tail(gaps) = gaps
    BY <1>3
  <2> QED BY <1>3, <2>1, <2>2
<1> QED BY <1>1, <1>2, <1>3 DEF DrainOn

\* What is kept is a sequence of gaps.
LEMMA KeptIsSeq ==
    ASSUME gaps \in Seq(Gap), DrainIsInOrder
    PROVE  Kept \in Seq(Gap)
<1>1. held \in Seq(Gap)
  <2>1. CASE draining = "gap"
    BY <2>1 DEF DrainIsInOrder
  <2>2. CASE draining # "gap"
    BY <2>2 DEF DrainIsInOrder
  <2> QED BY <2>1, <2>2
<1> QED BY <1>1 DEF Kept

LEMMA ReportKeeps ==
    ASSUME NEW k \in Seq(Gap), k # <<>>, NEW R, R \subseteq Gap, IsFiniteSet(R), NEW S, AreApart(k, R, S)
    PROVE  /\ AreApart(Tail(k), R \cup {Head(k)}, S)
           /\ Dropped(Tail(k)) + DroppedOf(R \cup {Head(k)}) = Dropped(k) + DroppedOf(R)
           /\ Omitted(Tail(k)) + OmittedOf(R \cup {Head(k)}) = Omitted(k) + OmittedOf(R)
<1>1. PICK g \in Gap : g = Head(k)
  OBVIOUS
<1>2. PICK t \in Seq(Gap) : t = Tail(k)
  BY TailIsSeq
<1>3. PICK m \in Nat : m = Len(t)
  OBVIOUS
<1>4. /\ DOMAIN k = 1 .. m + 1 /\ DOMAIN t = 1 .. m /\ k[1] = g
      /\ \A n \in 1 .. m : n + 1 \in 1 .. m + 1 /\ n + 1 # 1 /\ t[n] = k[n + 1]
      /\ 1 \in 1 .. m + 1
      /\ \A i, j \in 1 .. m : i + 1 = j + 1 => i = j
  BY <1>1, <1>2, <1>3
<1>5. AreApart(t, R \cup {g}, S)
  <2>1. \A i, j \in 1 .. m + 1 : k[i].first = k[j].first => i = j
    BY <1>4 DEF AreApart
  <2>2. /\ \A i \in 1 .. m + 1 : k[i].first \in S /\ \A h \in R : h.first # k[i].first
        /\ \A h \in R : h.first \in S
    BY <1>4 DEF AreApart
  <2>3. \A i, j \in 1 .. m : t[i].first = t[j].first => i = j
    BY <1>4, <2>1
  <2>4. \A i \in 1 .. m : t[i].first \in S /\ t[i].first # g.first /\ \A h \in R : h.first # t[i].first
    BY <1>4, <2>1, <2>2
  <2>5. g.first \in S
    BY <1>4, <2>2
  <2>6. \A i \in 1 .. m : \A h \in R \cup {g} : h.first # t[i].first
    BY <2>4
  <2>7. \A h \in R \cup {g} : h.first \in S
    BY <2>2, <2>5
  <2> QED BY ONLY <1>4, <2>3, <2>4, <2>6, <2>7, Zenon DEF AreApart
<1>6. g \notin R
  BY <1>4 DEF AreApart
<1>7. /\ Dropped(k) = g.dropped + Dropped(t) /\ Omitted(k) = g.omitted + Omitted(t)
  BY <1>1, <1>2, CountSplit
<1>8. /\ DroppedOf(R \cup {g}) = DroppedOf(R) + g.dropped
      /\ OmittedOf(R \cup {g}) = OmittedOf(R) + g.omitted
      /\ DroppedOf(R) \in Nat /\ OmittedOf(R) \in Nat
  BY <1>6, CountReported
<1>9. Dropped(t) \in Nat /\ Omitted(t) \in Nat /\ g.dropped \in Nat /\ g.omitted \in Nat
  BY CountsAreNat, GapForm
<1>10. Dropped(t) + DroppedOf(R \cup {g}) = Dropped(k) + DroppedOf(R)
  BY ONLY <1>7, <1>8, <1>9
<1>11. Omitted(t) + OmittedOf(R \cup {g}) = Omitted(k) + OmittedOf(R)
  BY ONLY <1>7, <1>8, <1>9
<1> QED BY <1>1, <1>2, <1>5, <1>10, <1>11

\* What was told and is kept accounts for what was given up.
Accounts(k, R, those, bare) ==
    /\ Dropped(k) + DroppedOf(R) = Cardinality(those)
    /\ Omitted(k) + OmittedOf(R) = Cardinality((those \cup bare) \cap WithContent)

LEMMA GivingUp ==
    ASSUME NEW those, NEW bare, IsFiniteSet(those), IsFiniteSet(bare), NEW e, e \notin those \cup bare
    PROVE  /\ Cardinality(those \cup {e}) = Cardinality(those) + 1
           /\ Cardinality(((those \cup bare) \cup {e}) \cap WithContent)
              = Cardinality((those \cup bare) \cap WithContent) + (IF e \in WithContent THEN 1 ELSE 0)
           /\ Cardinality(those) \in Nat /\ Cardinality((those \cup bare) \cap WithContent) \in Nat
<1>1. PICK U : U = (those \cup bare) \cap WithContent
  OBVIOUS
<1>2. IsFiniteSet(those \cup bare)
  BY FS_Union
<1>3. IsFiniteSet(U)
  BY <1>1, <1>2, FS_Subset
<1>4. e \notin U /\ e \notin those
  BY <1>1
<1>5. Cardinality(those \cup {e}) = Cardinality(those) + 1 /\ Cardinality(those) \in Nat
  BY <1>4, FS_AddElement, FS_CardinalityType
<1>6. Cardinality(U \cup {e}) = Cardinality(U) + 1 /\ Cardinality(U) \in Nat
  BY <1>3, <1>4, FS_AddElement, FS_CardinalityType
<1>7. CASE e \in WithContent
  <2>1. ((those \cup bare) \cup {e}) \cap WithContent = U \cup {e}
    BY <1>1, <1>7
  <2> QED BY <1>1, <1>5, <1>6, <1>7, <2>1
<1>8. CASE e \notin WithContent
  <2>1. ((those \cup bare) \cup {e}) \cap WithContent = U
    BY <1>1, <1>8
  <2> QED BY <1>1, <1>5, <1>6, <1>8, <2>1
<1> QED BY <1>7, <1>8

LEMMA GapOfForm ==
    ASSUME NEW e \in Events, NEW d \in {0, 1}
    PROVE  /\ GapOf(e, d) \in Gap /\ GapOf(e, d).first = e /\ GapOf(e, d).dropped = d
           /\ GapOf(e, d).omitted = IF e \in WithContent THEN 1 ELSE 0
  BY DEF GapOf, Gap

LEMMA AccountsGrow ==
    ASSUME NEW k \in Seq(Gap), NEW l, NEW R, R \subseteq Gap, IsFiniteSet(R), NEW those, NEW bare,
           IsFiniteSet(those), IsFiniteSet(bare), Accounts(k, R, those, bare),
           NEW e \in Events, e \notin those \cup bare, NEW d \in {0, 1}, Extends(k, l, GapOf(e, d))
    PROVE  IF d = 1 THEN Accounts(l, R, those \cup {e}, bare) ELSE Accounts(l, R, those, bare \cup {e})
<1>1. PICK o \in {0, 1} : o = IF e \in WithContent THEN 1 ELSE 0
  OBVIOUS
<1>2. Dropped(l) = Dropped(k) + d /\ Omitted(l) = Omitted(k) + o
  BY <1>1, GapOfForm, ExtendsCounts
<1>3. PICK D, O : D = DroppedOf(R) /\ O = OmittedOf(R)
  OBVIOUS
<1>4. D \in Nat /\ O \in Nat
  <2>1. PICK p, q : p = [h \in R |-> h.dropped] /\ q = [h \in R |-> h.omitted]
    OBVIOUS
  <2>2. p \in [R -> Nat] /\ q \in [R -> Nat]
    BY <2>1, GapForm
  <2> QED BY <2>1, <2>2, <1>3, SumIsNat DEF DroppedOf, OmittedOf
<1>5. Dropped(k) \in Nat /\ Omitted(k) \in Nat
  BY CountsAreNat
<1>6. /\ Cardinality(those \cup {e}) = Cardinality(those) + 1
      /\ Cardinality(((those \cup bare) \cup {e}) \cap WithContent)
         = Cardinality((those \cup bare) \cap WithContent) + o
      /\ Cardinality(those) \in Nat /\ Cardinality((those \cup bare) \cap WithContent) \in Nat
  <2>1. Cardinality(((those \cup bare) \cup {e}) \cap WithContent)
        = Cardinality((those \cup bare) \cap WithContent) + (IF e \in WithContent THEN 1 ELSE 0)
    BY GivingUp
  <2>2. /\ Cardinality(those \cup {e}) = Cardinality(those) + 1
        /\ Cardinality(those) \in Nat /\ Cardinality((those \cup bare) \cap WithContent) \in Nat
    BY GivingUp
  <2> QED BY ONLY <1>1, <2>1, <2>2, Zenon
<1>7. /\ (those \cup {e}) \cup bare = (those \cup bare) \cup {e}
      /\ those \cup (bare \cup {e}) = (those \cup bare) \cup {e}
  OBVIOUS
<1>8. /\ Dropped(k) + D = Cardinality(those)
      /\ Omitted(k) + O = Cardinality((those \cup bare) \cap WithContent)
  BY <1>3 DEF Accounts
<1>9. /\ Dropped(l) + D = Cardinality(those) + d
      /\ Omitted(l) + O = Cardinality((those \cup bare) \cap WithContent) + o
  BY <1>2, <1>4, <1>5, <1>8
<1>10. CASE d = 1
  BY <1>3, <1>6, <1>7, <1>9, <1>10 DEF Accounts
<1>11. CASE d = 0
  <2>1. Dropped(l) + D = Cardinality(those)
    BY <1>6, <1>9, <1>11
  <2> QED BY <1>3, <1>6, <1>7, <1>9, <1>11, <2>1 DEF Accounts
<1> QED BY <1>10, <1>11
-------------------------------------------------------------------------------
(* The order in which events are kept *)

\* s is the events of the sequence `all` without those given up, in its order.
IsWithout(s, all, those) ==
    /\ Range(s) = Range(all) \ those
    /\ \A i, j \in DOMAIN s : \A m, n \in DOMAIN all :
          i < j /\ s[i] = all[m] /\ s[j] = all[n] => m < n

LEMMA AcceptedIsWithout ==
    ASSUME NEW s PROVE IsWhatWasAccepted(s) <=> IsWithout(s, submitted, lost \cup late)
  BY DEF IsWhatWasAccepted, IsWithout

LEMMA RangeAppend ==
    ASSUME NEW T, NEW s \in Seq(T), NEW e
    PROVE  Range(Append(s, e)) = Range(s) \cup {e}
<1>1. PICK m \in Nat : m = Len(s)
  OBVIOUS
<1>2. PICK t : t = Append(s, e)
  OBVIOUS
<1>3. /\ DOMAIN s = 1 .. m /\ DOMAIN t = 1 .. m + 1
      /\ t[m + 1] = e /\ \A n \in 1 .. m : t[n] = s[n]
  BY <1>1, <1>2
<1>4. 1 .. m + 1 = (1 .. m) \cup {m + 1}
  BY Intervals
<1>5. Range(t) = {t[n] : n \in (1 .. m) \cup {m + 1}} /\ Range(s) = {s[n] : n \in 1 .. m}
  BY <1>3, <1>4 DEF Range
<1>6. {t[n] : n \in (1 .. m) \cup {m + 1}} = {s[n] : n \in 1 .. m} \cup {e}
  BY <1>3
<1> QED BY <1>2, <1>5, <1>6

LEMMA WithoutGrows ==
    ASSUME NEW s \in Seq(Events), NEW all \in Seq(Events), NEW those, those \subseteq Range(all),
           IsWithout(s, all, those), NEW e \in Events, e \notin Range(all)
    PROVE  /\ IsWithout(Append(s, e), Append(all, e), those)
           /\ IsWithout(s, Append(all, e), those \cup {e})
<1>1. PICK a, m : a = Append(all, e) /\ m = Len(all)
  OBVIOUS
<1>2. PICK t, k : t = Append(s, e) /\ k = Len(s)
  OBVIOUS
<1>3. /\ m \in Nat /\ DOMAIN all = 1 .. m /\ DOMAIN a = 1 .. m + 1
      /\ a[m + 1] = e /\ \A n \in 1 .. m : a[n] = all[n] /\ n < m + 1
      /\ \A n \in 1 .. m + 1 : n \in 1 .. m \/ n = m + 1
  BY <1>1
<1>4. /\ k \in Nat /\ DOMAIN s = 1 .. k /\ DOMAIN t = 1 .. k + 1
      /\ t[k + 1] = e /\ \A n \in 1 .. k : t[n] = s[n]
      /\ \A n \in 1 .. k + 1 : n \in 1 .. k \/ n = k + 1
      /\ \A i \in 1 .. k + 1 : ~ (k + 1 < i)
  BY <1>2
<1>5. Range(a) = Range(all) \cup {e} /\ Range(t) = Range(s) \cup {e} /\ Range(s) = Range(all) \ those
  BY <1>1, <1>2, RangeAppend DEF IsWithout
<1>6. (\A n \in 1 .. m : all[n] # e) /\ (\A n \in 1 .. k : s[n] # e)
  BY <1>3, <1>4, <1>5 DEF Range
<1>7. \A i, j \in 1 .. k : \A p, q \in 1 .. m : i < j /\ s[i] = all[p] /\ s[j] = all[q] => p < q
  BY <1>3, <1>4 DEF IsWithout
<1>8. ASSUME NEW i \in 1 .. k, NEW j \in 1 .. k, NEW p \in 1 .. m + 1, NEW q \in 1 .. m + 1,
             i < j, s[i] = a[p], s[j] = a[q]
      PROVE  p < q
  <2>1. p \in 1 .. m /\ q \in 1 .. m
    BY <1>3, <1>6, <1>8
  <2> QED BY <1>3, <1>7, <1>8, <2>1
<1>9. ASSUME NEW i \in 1 .. k + 1, NEW j \in 1 .. k + 1, NEW p \in 1 .. m + 1, NEW q \in 1 .. m + 1,
             i < j, t[i] = a[p], t[j] = a[q]
      PROVE  p < q
  <2>1. i \in 1 .. k
    BY <1>4, <1>9
  <2>2. CASE j \in 1 .. k
    BY <1>4, <1>8, <1>9, <2>1, <2>2
  <2>3. CASE j = k + 1
    <3>1. q = m + 1
      BY <1>3, <1>4, <1>6, <1>9, <2>3
    <3>2. p \in 1 .. m
      BY <1>3, <1>4, <1>6, <1>9, <2>1
    <3> QED BY <1>3, <3>1, <3>2
  <2> QED BY <1>4, <2>2, <2>3
<1>10. Range(t) = Range(a) \ those
  BY <1>5
<1>11. Range(s) = Range(a) \ (those \cup {e})
  BY <1>5
<1>12. IsWithout(t, a, those)
  <2>1. DOMAIN t = 1 .. k + 1 /\ DOMAIN a = 1 .. m + 1
    BY <1>3, <1>4
  <2> QED BY ONLY <2>1, <1>9, <1>10, Zenon DEF IsWithout
<1>13. IsWithout(s, a, those \cup {e})
  <2>1. DOMAIN s = 1 .. k /\ DOMAIN a = 1 .. m + 1
    BY <1>3, <1>4
  <2> QED BY ONLY <2>1, <1>8, <1>11, Zenon DEF IsWithout
<1> QED BY <1>1, <1>2, <1>12, <1>13

LEMMA ItemForm == ASSUME NEW it \in Item PROVE it.event \in Events
  BY DEF Item

\* What is behind the queue's events in the buffer.
LEMMA QueueForms ==
    ASSUME NEW s \in Seq(Events), NEW its \in Seq(Item)
    PROVE  /\ EventsOf(its) \in Seq(Events)
           /\ s \o EventsOf(its) \in Seq(Events)
           /\ its = <<>> => s \o EventsOf(its) = s
<1>1. \A n \in 1 .. Len(its) : its[n].event \in Events
  <2>1. \A n \in 1 .. Len(its) : its[n] \in Item
    OBVIOUS
  <2> QED BY <2>1, ItemForm
<1>2. EventsOf(its) \in Seq(Events) /\ Len(EventsOf(its)) = Len(its)
  BY <1>1 DEF EventsOf
<1>3. its = <<>> => EventsOf(its) = <<>>
  BY <1>2
<1> QED BY <1>2, <1>3

LEMMA PushedBehind ==
    ASSUME NEW s \in Seq(Events), NEW its \in Seq(Item), NEW it \in Item
    PROVE  s \o EventsOf(Append(its, it)) = Append(s \o EventsOf(its), it.event)
<1>1. EventsOf(Append(its, it)) = Append(EventsOf(its), it.event)
  BY DEF EventsOf, Item
<1>2. EventsOf(its) \in Seq(Events) /\ it.event \in Events
  BY QueueForms DEF Item
<1> QED BY <1>1, <1>2

LEMMA ShiftedBehind ==
    ASSUME NEW s \in Seq(Events), NEW its \in Seq(Item), its # <<>>
    PROVE  /\ Append(s, Head(its).event) \in Seq(Events)
           /\ Append(s, Head(its).event) \o EventsOf(Tail(its)) = s \o EventsOf(its)
<1>1. PICK e \in Events : e = Head(its).event
  <2>1. Head(its) \in Item
    OBVIOUS
  <2> QED BY <2>1, ItemForm
<1>2. PICK t \in Seq(Events) : t = EventsOf(Tail(its))
  <2>1. Tail(its) \in Seq(Item)
    OBVIOUS
  <2> QED BY <2>1, QueueForms
<1>3. EventsOf(its) = <<e>> \o t
  BY <1>1, <1>2 DEF EventsOf
<1>4. Append(s, e) \o t = s \o (<<e>> \o t)
  OBVIOUS
<1> QED BY <1>1, <1>2, <1>3, <1>4
-------------------------------------------------------------------------------
(* The steps *)

\* The part of the invariant that is about the order of events.
OrderIsKept == IsWhatWasAccepted(stored \o EventsOf(items))

LEMMA LossIs == LossIsAccounted <=> Accounts(Kept, reported, lost, degraded)
  BY DEF LossIsAccounted, Accounts

LEMMA OrderIs == OrderIsKept <=> IsWithout(stored \o EventsOf(items), submitted, lost \cup late)
  BY AcceptedIsWithout DEF OrderIsKept

LEMMA StartsInvariant == WriterInit => WriterInv
<1> SUFFICES ASSUME WriterInit PROVE WriterInv
  OBVIOUS
<1>1. /\ items = <<>> /\ gaps = <<>> /\ held = <<>> /\ draining = "no" /\ scheduled = FALSE
      /\ flushed = FALSE /\ stored = <<>> /\ reported = {} /\ submitted = <<>>
      /\ degraded = {} /\ lost = {} /\ late = {}
  BY DEF WriterInit
<1>2. Range(submitted) = {}
  BY <1>1 DEF Range
<1>3. WriterTypes
  BY <1>1, <1>2, FS_EmptySet DEF WriterTypes
<1>4. DrainIsInOrder /\ FlushIsFinal
  BY <1>1 DEF DrainIsInOrder, FlushIsFinal, Draining
<1>5. Kept = <<>>
  BY <1>1 DEF Kept
<1>6. AreApart(Kept, reported, Range(submitted))
  BY <1>1, <1>5 DEF AreApart
<1>7. Dropped(Kept) = 0 /\ Omitted(Kept) = 0
  <2>1. PICK p, q : p = [n \in DOMAIN Kept |-> Kept[n].dropped] /\ q = [n \in DOMAIN Kept |-> Kept[n].omitted]
    OBVIOUS
  <2>2. DOMAIN p = {} /\ DOMAIN q = {}
    BY <1>5, <2>1
  <2> QED BY <2>1, <2>2, SumNothing DEF Dropped, Omitted
<1>8. DroppedOf({}) = 0 /\ OmittedOf({}) = 0
  <2>1. PICK p, q : p = [g \in {} |-> g.dropped] /\ q = [g \in {} |-> g.omitted]
    OBVIOUS
  <2>2. DOMAIN p = {} /\ DOMAIN q = {}
    BY <2>1
  <2> QED BY <2>1, <2>2, SumNothing DEF DroppedOf, OmittedOf
<1>9. LossIsAccounted
  <2>1. (lost \cup degraded) \cap WithContent = {}
    BY <1>1
  <2> QED BY <1>1, <1>7, <1>8, <2>1, FS_EmptySet DEF LossIsAccounted
<1>10. IsWhatWasAccepted(stored \o EventsOf(items))
  <2>1. stored \o EventsOf(items) = <<>>
    <3>1. EventsOf(items) = <<>>
      BY <1>1 DEF EventsOf
    <3> QED BY <1>1, <3>1
  <2>2. Range(stored \o EventsOf(items)) = {}
    BY <2>1 DEF Range
  <2> QED BY <1>2, <2>1, <2>2 DEF IsWhatWasAccepted
<1> QED BY <1>3, <1>4, <1>6, <1>9, <1>10 DEF WriterInv

\* ScheduleDrain schedules no drain beside the one under way.
LEMMA SchedulesOne ==
    ASSUME NEW immediate, ScheduleDrain(immediate), scheduled => ~ Draining, UNCHANGED draining
    PROVE  /\ (scheduled => ~ Draining)'
           /\ scheduled' # scheduled => ~ stopped
  BY DEF ScheduleDrain, schedule, Draining

\* An event is taken, or a gap tells of it.
LEMMA OfferKeeps ==
    ASSUME WriterInv, NEW e \in Events, e \notin Range(submitted), ~ closing,
           submitted' = Append(submitted, e), Offer(e),
           UNCHANGED <<held, draining, lifecycle, durable, late>>
    PROVE  /\ WriterTypes'
           /\ AreApart(Kept, reported, Range(submitted))'
           /\ LossIsAccounted'
           /\ OrderIsKept'
<1>1. /\ WriterTypes /\ DrainIsInOrder /\ AreApart(Kept, reported, Range(submitted))
      /\ LossIsAccounted /\ OrderIsKept
  BY DEF WriterInv, OrderIsKept
<1>2. /\ held' = held /\ draining' = draining /\ stored' = stored /\ reported' = reported
      /\ late' = late
  BY DEF durable
<1>3. submitted' \in Seq(Events) /\ Range(submitted') = Range(submitted) \cup {e}
  BY <1>1, RangeAppend DEF WriterTypes
<1>4. PICK s \in Seq(Events) : s = stored \o EventsOf(items)
  BY <1>1, QueueForms DEF WriterTypes
<1>5. /\ IsWithout(s, submitted, lost \cup late)
      /\ lost \cup late \subseteq Range(submitted) /\ submitted \in Seq(Events)
      /\ e \notin lost \cup degraded /\ IsFiniteSet(lost) /\ IsFiniteSet(degraded)
      /\ IsFiniteSet(lost \cup {e}) /\ IsFiniteSet(degraded \cup {e})
  BY <1>1, <1>4, OrderIs, FS_AddElement DEF WriterTypes
<1>6. /\ IsWithout(Append(s, e), submitted', lost \cup late)
      /\ IsWithout(s, submitted', (lost \cup late) \cup {e})
  BY <1>5, WithoutGrows
<1>7. Kept \in Seq(Gap) /\ Accounts(Kept, reported, lost, degraded)
  BY <1>1, KeptIsSeq, LossIs DEF WriterTypes
<1>8. ASSUME NEW b, b = Size[e] \/ b = BareSize[e], Push(e, b)
      PROVE  items' \in Seq(Item) /\ stored \o EventsOf(items') = Append(s, e)
  <2>1. PICK it \in Item : it = [event |-> e, bytes |-> b]
    BY <1>8 DEF Item
  <2>2. items' = Append(items, it) /\ it.event = e
    BY <1>8, <2>1 DEF Push
  <2> QED BY <1>1, <1>4, <2>2, PushedBehind DEF WriterTypes
<1>9. ASSUME NEW d \in {0, 1}, RecordGap(GapOf(e, d))
      PROVE  /\ gaps' \in Seq(Gap) /\ Kept' \in Seq(Gap)
             /\ Extends(Kept, Kept', GapOf(e, d))
  <2>1. PICK g \in Gap : g = GapOf(e, d)
    BY GapOfForm
  <2>2. gaps' \in Seq(Gap) /\ Extends(gaps, gaps', g)
    BY <1>1, <1>9, <2>1, RecordGapExtends DEF WriterTypes
  <2>3. CASE draining = "gap"
    <3>1. PICK h \in Gap : held = <<h>>
      BY <1>1, <2>3 DEF DrainIsInOrder
    <3>2. Kept = <<h>> \o gaps /\ Kept' = <<h>> \o gaps'
      BY <1>2, <3>1 DEF Kept
    <3>3. Extends(<<h>> \o gaps, <<h>> \o gaps', g)
      BY <1>1, <2>2, ExtendsBehind DEF WriterTypes
    <3>4. <<h>> \o gaps' \in Seq(Gap)
      BY <2>2, ConsForm
    <3> QED BY <2>1, <2>2, <3>2, <3>3, <3>4
  <2>4. CASE draining # "gap"
    <3>1. Kept = gaps /\ Kept' = gaps'
      BY <1>1, <1>2, <2>2, <2>4 DEF DrainIsInOrder, Kept, WriterTypes
    <3> QED BY <2>1, <2>2, <3>1
  <2> QED BY <2>3, <2>4
<1>10. ASSUME NEW d \in {0, 1}, Extends(Kept, Kept', GapOf(e, d))
       PROVE  AreApart(Kept', reported, Range(submitted) \cup {e})
  <2>1. PICK g \in Gap : g = GapOf(e, d) /\ g.first = e
    BY GapOfForm
  <2>2. AreApart(Kept', reported, Range(submitted) \cup {g.first})
    BY <1>1, <1>7, <1>10, <2>1, ExtendsApart
  <2> QED BY <2>1, <2>2
<1>11. CASE Push(e, Size[e]) /\ UNCHANGED <<gaps, degraded, lost>>
  <2>1. items' \in Seq(Item) /\ stored \o EventsOf(items') = Append(s, e)
    BY <1>8, <1>11
  <2>2. Kept' = Kept
    BY <1>2, <1>11 DEF Kept
  <2>3. WriterTypes'
    BY <1>1, <1>2, <1>3, <1>11, <2>1 DEF WriterTypes
  <2>4. AreApart(Kept', reported', Range(submitted'))
    BY <1>1, <1>2, <1>3, <2>2 DEF AreApart
  <2>5. LossIsAccounted'
    BY <1>1, <1>2, <1>11, <2>2 DEF LossIsAccounted
  <2>6. OrderIsKept'
    <3>1. lost' \cup late' = lost \cup late /\ stored' \o EventsOf(items') = Append(s, e)
      BY <1>2, <1>11, <2>1
    <3> QED BY <1>6, <3>1 DEF OrderIsKept, IsWhatWasAccepted, IsWithout
  <2> QED BY <2>3, <2>4, <2>5, <2>6
<1>12. CASE Push(e, BareSize[e]) /\ RecordGap(GapOf(e, 0)) /\ degraded' = degraded \cup {e} /\ lost' = lost
  <2>1. items' \in Seq(Item) /\ stored \o EventsOf(items') = Append(s, e)
    BY <1>8, <1>12
  <2>2. /\ gaps' \in Seq(Gap) /\ Kept' \in Seq(Gap)
        /\ Extends(Kept, Kept', GapOf(e, 0))
    BY <1>9, <1>12
  <2>3. WriterTypes'
    BY <1>1, <1>2, <1>3, <1>5, <1>12, <2>1, <2>2 DEF WriterTypes
  <2>4. AreApart(Kept', reported', Range(submitted'))
    BY <1>2, <1>3, <1>10, <2>2
  <2>5. LossIsAccounted'
    <3>1. PICK d \in {0, 1} : d = 0
      OBVIOUS
    <3>2. IF d = 1 THEN Accounts(Kept', reported, lost \cup {e}, degraded)
                   ELSE Accounts(Kept', reported, lost, degraded \cup {e})
      <4>1. reported \subseteq Gap /\ IsFiniteSet(reported)
        BY <1>1 DEF WriterTypes
      <4>2. Extends(Kept, Kept', GapOf(e, d)) /\ e \notin lost \cup degraded
        BY <1>5, <2>2, <3>1
      <4> QED BY <1>5, <1>7, <4>1, <4>2, AccountsGrow
    <3>3. Accounts(Kept', reported, lost, degraded \cup {e})
      BY <3>1, <3>2
    <3> QED BY <1>2, <1>12, <3>3 DEF LossIsAccounted, Accounts
  <2>6. OrderIsKept'
    <3>1. lost' \cup late' = lost \cup late /\ stored' \o EventsOf(items') = Append(s, e)
      BY <1>2, <1>12, <2>1
    <3> QED BY <1>6, <3>1 DEF OrderIsKept, IsWhatWasAccepted, IsWithout
  <2> QED BY <2>3, <2>4, <2>5, <2>6
<1>13. CASE RecordGap(GapOf(e, 1)) /\ lost' = lost \cup {e} /\ UNCHANGED <<items, degraded>>
  <2>1. /\ gaps' \in Seq(Gap) /\ Kept' \in Seq(Gap)
        /\ Extends(Kept, Kept', GapOf(e, 1))
    BY <1>9, <1>13
  <2>2. WriterTypes'
    BY <1>1, <1>2, <1>3, <1>5, <1>13, <2>1 DEF WriterTypes
  <2>3. AreApart(Kept', reported', Range(submitted'))
    BY <1>2, <1>3, <1>10, <2>1
  <2>4. LossIsAccounted'
    <3>1. Accounts(Kept', reported, lost \cup {e}, degraded)
      BY <1>1, <1>5, <1>7, <2>1, AccountsGrow DEF WriterTypes
    <3> QED BY <1>2, <1>13, <3>1 DEF LossIsAccounted, Accounts
  <2>5. OrderIsKept'
    <3>1. lost' \cup late' = (lost \cup late) \cup {e} /\ stored' \o EventsOf(items') = s
      BY <1>2, <1>4, <1>13
    <3> QED BY <1>6, <3>1 DEF OrderIsKept, IsWhatWasAccepted, IsWithout
  <2> QED BY <2>2, <2>3, <2>4, <2>5
<1> QED BY <1>11, <1>12, <1>13 DEF Offer

LEMMA SubmitKeeps == ASSUME WriterInv, NEW e \in Events, Submit(e) PROVE WriterInv'
<1>1. /\ WriterTypes /\ DrainIsInOrder /\ FlushIsFinal /\ AreApart(Kept, reported, Range(submitted))
      /\ LossIsAccounted /\ OrderIsKept
  BY DEF WriterInv, OrderIsKept
<1>2. /\ e \notin Range(submitted) /\ submitted' = Append(submitted, e)
      /\ UNCHANGED <<held, draining, lifecycle, durable>>
  BY DEF Submit
<1>3. CASE closing
  <2>1. late' = late \cup {e} /\ UNCHANGED <<items, gaps, degraded, lost, schedule>>
    BY <1>3 DEF Submit
  <2>2. submitted' \in Seq(Events) /\ Range(submitted') = Range(submitted) \cup {e}
    BY <1>1, <1>2, RangeAppend DEF WriterTypes
  <2>3. Kept' = Kept /\ reported' = reported /\ stored' = stored /\ items' = items
    BY <1>2, <2>1 DEF Kept, durable
  <2>4. WriterTypes'
    BY <1>1, <1>2, <2>1, <2>2, <2>3 DEF WriterTypes
  <2>5. DrainIsInOrder' /\ FlushIsFinal'
    BY <1>1, <1>2, <2>1 DEF DrainIsInOrder, FlushIsFinal, Draining, schedule, lifecycle
  <2>6. AreApart(Kept', reported', Range(submitted'))
    BY <1>1, <2>2, <2>3 DEF AreApart
  <2>7. LossIsAccounted'
    BY <1>1, <2>1, <2>3 DEF LossIsAccounted
  <2>8. OrderIsKept'
    <3>1. PICK s \in Seq(Events) : s = stored \o EventsOf(items)
      BY <1>1, QueueForms DEF WriterTypes
    <3>2. IsWithout(s, submitted, lost \cup late)
      BY <1>1, <3>1, OrderIs
    <3>3. IsWithout(s, submitted', (lost \cup late) \cup {e})
      BY <1>1, <1>2, <3>2, WithoutGrows DEF WriterTypes
    <3>4. lost' \cup late' = (lost \cup late) \cup {e} /\ stored' \o EventsOf(items') = s
      BY <2>1, <2>3, <3>1
    <3> QED BY <3>3, <3>4 DEF OrderIsKept, IsWhatWasAccepted, IsWithout
  <2> QED BY <2>4, <2>5, <2>6, <2>7, <2>8 DEF WriterInv, OrderIsKept
<1>4. CASE ~ closing
  <2>1. Offer(e) /\ ScheduleDrain(FALSE) /\ UNCHANGED late
    BY <1>4 DEF Submit
  <2>2. WriterTypes' /\ AreApart(Kept, reported, Range(submitted))' /\ LossIsAccounted' /\ OrderIsKept'
    BY <1>2, <1>4, <2>1, OfferKeeps
  <2>3. DrainIsInOrder'
    <3>1. (scheduled => ~ Draining)'
      BY <1>1, <1>2, <2>1, SchedulesOne DEF DrainIsInOrder
    <3>2. draining = "item" => items' # <<>>
      <4>1. items' = items \/ \E b : Push(e, b)
        BY <2>1 DEF Offer
      <4>2. ASSUME NEW b, Push(e, b) PROVE items' # <<>>
        BY <1>1, <4>2 DEF Push, WriterTypes
      <4> QED BY <1>1, <4>1, <4>2 DEF DrainIsInOrder
    <3> QED BY <1>1, <1>2, <3>1, <3>2 DEF DrainIsInOrder
  <2>4. FlushIsFinal'
    BY <1>1, <1>2, <1>4 DEF FlushIsFinal, lifecycle
  <2> QED BY <2>2, <2>3, <2>4 DEF WriterInv, OrderIsKept
<1> QED BY <1>3, <1>4

\* A drain begins: what is kept stays.
LEMMA StartDrainKeeps == ASSUME WriterInv, StartDrain PROVE WriterInv'
<1>1. /\ WriterTypes /\ DrainIsInOrder /\ FlushIsFinal /\ AreApart(Kept, reported, Range(submitted))
      /\ LossIsAccounted /\ OrderIsKept
  BY DEF WriterInv, OrderIsKept
<1>2. /\ scheduled /\ scheduled' = FALSE /\ DrainOn(items)
      /\ UNCHANGED <<timer, lifecycle, durable, outcomes, faults>>
  BY DEF StartDrain
<1>3. /\ items' = items /\ gaps' \in Seq(Gap) /\ draining' \in {"no", "item", "gap"}
      /\ held' \o gaps' = gaps
      /\ IF draining' = "gap" THEN \E g \in Gap : held' = <<g>> ELSE held' = <<>>
      /\ draining' = "item" => items' # <<>>
  BY <1>1, <1>2, DrainOnKeeps DEF WriterTypes
<1>4. Kept' = Kept
  <2>1. held = <<>>
    BY <1>1, <1>2 DEF DrainIsInOrder, Draining
  <2>2. <<>> \o gaps = gaps
    BY <1>1 DEF WriterTypes
  <2> QED BY <1>3, <2>1, <2>2 DEF Kept
<1>5. /\ stored' = stored /\ reported' = reported /\ submitted' = submitted
      /\ degraded' = degraded /\ lost' = lost /\ late' = late
      /\ closing' = closing /\ stopped' = stopped /\ flushed' = flushed
  BY <1>2 DEF durable, outcomes, lifecycle
<1>6. WriterTypes'
  BY <1>1, <1>3, <1>5 DEF WriterTypes
<1>7. DrainIsInOrder'
  BY <1>2, <1>3 DEF DrainIsInOrder
<1>8. FlushIsFinal'
  BY <1>1, <1>2, <1>5 DEF FlushIsFinal
<1>9. AreApart(Kept', reported', Range(submitted'))
  BY <1>1, <1>4, <1>5
<1>10. LossIsAccounted' /\ OrderIsKept'
  BY <1>1, <1>3, <1>4, <1>5 DEF LossIsAccounted, OrderIsKept, IsWhatWasAccepted
<1> QED BY <1>6, <1>7, <1>8, <1>9, <1>10 DEF WriterInv, OrderIsKept

\* An event is in the queue before it leaves the buffer.
LEMMA ItemStoredKeeps == ASSUME WriterInv, ItemStored PROVE WriterInv'
<1>1. /\ WriterTypes /\ DrainIsInOrder /\ FlushIsFinal /\ AreApart(Kept, reported, Range(submitted))
      /\ LossIsAccounted /\ OrderIsKept
  BY DEF WriterInv, OrderIsKept
<1>2. /\ draining = "item" /\ stored' = Append(stored, Head(items).event) /\ DrainOn(Tail(items))
      /\ UNCHANGED <<schedule, lifecycle, reported, outcomes, faults>>
  BY DEF ItemStored
<1>3. items # <<>> /\ held = <<>> /\ ~ scheduled /\ ~ flushed
  BY <1>1, <1>2 DEF DrainIsInOrder, Draining, FlushIsFinal
<1>4. PICK its \in Seq(Item) : its = Tail(items)
  BY <1>1, <1>3, TailIsSeq DEF WriterTypes
<1>5. /\ items' = its /\ gaps' \in Seq(Gap) /\ draining' \in {"no", "item", "gap"}
      /\ held' \o gaps' = gaps
      /\ IF draining' = "gap" THEN \E g \in Gap : held' = <<g>> ELSE held' = <<>>
      /\ draining' = "item" => items' # <<>>
  BY <1>1, <1>2, <1>4, DrainOnKeeps DEF WriterTypes
<1>6. Kept' = Kept
  <2>1. <<>> \o gaps = gaps
    BY <1>1 DEF WriterTypes
  <2> QED BY <1>3, <1>5, <2>1 DEF Kept
<1>7. stored' \in Seq(Events) /\ stored' \o EventsOf(items') = stored \o EventsOf(items)
  BY <1>1, <1>2, <1>3, <1>4, <1>5, ShiftedBehind DEF WriterTypes
<1>8. /\ reported' = reported /\ submitted' = submitted /\ scheduled' = scheduled
      /\ degraded' = degraded /\ lost' = lost /\ late' = late
      /\ closing' = closing /\ stopped' = stopped /\ flushed' = flushed
  BY <1>2 DEF outcomes, lifecycle, schedule
<1>9. WriterTypes'
  BY <1>1, <1>5, <1>7, <1>8 DEF WriterTypes
<1>10. DrainIsInOrder' /\ FlushIsFinal'
  BY <1>3, <1>5, <1>8 DEF DrainIsInOrder, FlushIsFinal
<1>11. AreApart(Kept', reported', Range(submitted'))
  BY <1>1, <1>6, <1>8
<1>12. LossIsAccounted'
  BY <1>1, <1>6, <1>8 DEF LossIsAccounted
<1>13. OrderIsKept'
  BY <1>1, <1>7, <1>8 DEF OrderIsKept, IsWhatWasAccepted
<1> QED BY <1>9, <1>10, <1>11, <1>12, <1>13 DEF WriterInv, OrderIsKept

\* The gap that was held is reported, and is kept no more.
LEMMA GapReportedKeeps == ASSUME WriterInv, GapReported PROVE WriterInv'
<1>1. /\ WriterTypes /\ DrainIsInOrder /\ FlushIsFinal /\ AreApart(Kept, reported, Range(submitted))
      /\ LossIsAccounted /\ OrderIsKept
  BY DEF WriterInv, OrderIsKept
<1>2. /\ draining = "gap" /\ reported' = reported \cup {Head(held)} /\ DrainOn(items)
      /\ UNCHANGED <<schedule, lifecycle, stored, outcomes, faults>>
  BY DEF GapReported
<1>3. ~ scheduled /\ ~ flushed
  BY <1>1, <1>2 DEF DrainIsInOrder, Draining, FlushIsFinal
<1>4. PICK g \in Gap : held = <<g>>
  BY <1>1, <1>2 DEF DrainIsInOrder
<1>5. /\ items' = items /\ gaps' \in Seq(Gap) /\ draining' \in {"no", "item", "gap"}
      /\ held' \o gaps' = gaps
      /\ IF draining' = "gap" THEN \E h \in Gap : held' = <<h>> ELSE held' = <<>>
      /\ draining' = "item" => items' # <<>>
  BY <1>1, <1>2, DrainOnKeeps DEF WriterTypes
<1>6. PICK k : k = Kept
  OBVIOUS
<1>7. k \in Seq(Gap) /\ k # <<>> /\ Head(k) = g /\ Tail(k) = gaps
  <2>1. k = <<g>> \o gaps
    BY <1>4, <1>6 DEF Kept
  <2> QED BY <1>1, <2>1, ConsForm DEF WriterTypes
<1>8. Kept' = Tail(k) /\ reported' = reported \cup {Head(k)}
  <2>1. Head(held) = g
    BY <1>4
  <2> QED BY <1>2, <1>5, <1>7, <2>1 DEF Kept
<1>9. /\ AreApart(Tail(k), reported \cup {Head(k)}, Range(submitted))
      /\ Dropped(Tail(k)) + DroppedOf(reported \cup {Head(k)}) = Dropped(k) + DroppedOf(reported)
      /\ Omitted(Tail(k)) + OmittedOf(reported \cup {Head(k)}) = Omitted(k) + OmittedOf(reported)
  BY <1>1, <1>6, <1>7, ReportKeeps DEF WriterTypes
<1>10. /\ stored' = stored /\ submitted' = submitted /\ scheduled' = scheduled
       /\ degraded' = degraded /\ lost' = lost /\ late' = late
       /\ closing' = closing /\ stopped' = stopped /\ flushed' = flushed
  BY <1>2 DEF outcomes, lifecycle, schedule
<1>11. reported' \subseteq Gap /\ IsFiniteSet(reported')
  BY <1>1, <1>7, <1>8, FS_AddElement DEF WriterTypes
<1>12. WriterTypes'
  BY <1>1, <1>5, <1>10, <1>11 DEF WriterTypes
<1>13. DrainIsInOrder' /\ FlushIsFinal'
  BY <1>3, <1>5, <1>10 DEF DrainIsInOrder, FlushIsFinal
<1>14. AreApart(Kept', reported', Range(submitted'))
  BY <1>8, <1>9, <1>10
<1>15. LossIsAccounted'
  BY <1>1, <1>6, <1>8, <1>9, <1>10 DEF LossIsAccounted
<1>16. OrderIsKept'
  BY <1>1, <1>5, <1>10 DEF OrderIsKept, IsWhatWasAccepted
<1> QED BY <1>12, <1>13, <1>14, <1>15, <1>16 DEF WriterInv, OrderIsKept

\* An event that was not taken is still in the buffer, and so is a gap that was
\* not, alone or with the next one.
LEMMA EnqueueThrowsKeeps == ASSUME WriterInv, EnqueueThrows PROVE WriterInv'
<1>1. /\ WriterTypes /\ DrainIsInOrder /\ FlushIsFinal /\ AreApart(Kept, reported, Range(submitted))
      /\ LossIsAccounted /\ OrderIsKept
  BY DEF WriterInv, OrderIsKept
<1>2. /\ Draining /\ draining' = "no" /\ held' = <<>>
      /\ IF draining = "gap" THEN RestoreGap(Head(held)) ELSE UNCHANGED gaps
      /\ UNCHANGED <<items, scheduled, lifecycle, durable, outcomes>>
  BY DEF EnqueueThrows
<1>3. ~ flushed /\ ~ scheduled
  BY <1>1, <1>2 DEF DrainIsInOrder, FlushIsFinal
<1>4. /\ gaps' \in Seq(Gap) /\ AreApart(gaps', reported, Range(submitted))
      /\ Dropped(gaps') = Dropped(Kept) /\ Omitted(gaps') = Omitted(Kept)
  <2>1. CASE draining = "gap"
    <3>1. PICK g \in Gap : held = <<g>>
      BY <1>1, <2>1 DEF DrainIsInOrder
    <3>2. Kept = <<g>> \o gaps
      BY <3>1 DEF Kept
    <3>3. RestoreGap(g)
      BY <1>2, <2>1, <3>1
    <3> QED BY <1>1, <3>2, <3>3, RestoreGapKeeps DEF WriterTypes
  <2>2. CASE draining # "gap"
    <3>1. Kept = gaps /\ gaps' = gaps
      BY <1>1, <1>2, <2>2 DEF DrainIsInOrder, Kept, WriterTypes
    <3> QED BY <1>1, <3>1 DEF WriterTypes
  <2> QED BY <2>1, <2>2
<1>5. Kept' = gaps'
  BY <1>2, <1>4 DEF Kept
<1>6. /\ items' = items /\ stored' = stored /\ reported' = reported /\ submitted' = submitted
      /\ scheduled' = scheduled /\ degraded' = degraded /\ lost' = lost /\ late' = late
      /\ closing' = closing /\ stopped' = stopped /\ flushed' = flushed
  BY <1>2 DEF outcomes, lifecycle, durable
<1>7. WriterTypes'
  BY <1>1, <1>2, <1>4, <1>6 DEF WriterTypes
<1>8. DrainIsInOrder' /\ FlushIsFinal'
  BY <1>2, <1>3, <1>6 DEF DrainIsInOrder, FlushIsFinal
<1>9. AreApart(Kept', reported', Range(submitted'))
  BY <1>4, <1>5, <1>6
<1>10. LossIsAccounted'
  BY <1>1, <1>4, <1>5, <1>6 DEF LossIsAccounted
<1>11. OrderIsKept'
  BY <1>1, <1>6 DEF OrderIsKept, IsWhatWasAccepted
<1> QED BY <1>7, <1>8, <1>9, <1>10, <1>11 DEF WriterInv, OrderIsKept

\* Nothing that is kept is touched by the steps that only arrange for a drain,
\* or wait for one.
LEMMA RestKeeps ==
    ASSUME WriterInv, UNCHANGED <<buffer, draining, durable, outcomes>>,
           DrainIsInOrder', FlushIsFinal'
    PROVE  WriterInv'
<1>1. /\ items' = items /\ gaps' = gaps /\ held' = held /\ draining' = draining
      /\ stored' = stored /\ reported' = reported /\ submitted' = submitted
      /\ degraded' = degraded /\ lost' = lost /\ late' = late
  BY DEF outcomes, durable, buffer
<1>2. WriterTypes'
  BY <1>1 DEF WriterInv, WriterTypes
<1>3. Kept' = Kept
  BY <1>1 DEF Kept
<1>4. AreApart(Kept', reported', Range(submitted'))
  BY <1>1, <1>3 DEF WriterInv
<1>5. LossIsAccounted'
  BY <1>1, <1>3 DEF WriterInv, LossIsAccounted
<1>6. IsWhatWasAccepted(stored \o EventsOf(items))'
  BY <1>1 DEF WriterInv, IsWhatWasAccepted
<1> QED BY <1>2, <1>4, <1>5, <1>6 DEF WriterInv

LEMMA ArrangementsKeep ==
    ASSUME WriterInv, RetryTimerFires \/ Stop \/ FlushPolls \/ StopReturns
    PROVE  WriterInv'
<1>1. DrainIsInOrder /\ FlushIsFinal
  BY DEF WriterInv
<1>2. CASE RetryTimerFires
  <2>1. /\ scheduled' = (scheduled \/ ~ (stopped \/ closing \/ Draining))
        /\ UNCHANGED <<buffer, draining, lifecycle, durable, outcomes, faults>>
    BY <1>2 DEF RetryTimerFires
  <2>2. DrainIsInOrder'
    BY <1>1, <2>1 DEF DrainIsInOrder, Draining, buffer
  <2>3. FlushIsFinal'
    BY <1>1, <2>1 DEF FlushIsFinal, Draining, buffer, lifecycle
  <2> QED BY <2>1, <2>2, <2>3, RestKeeps
<1>3. CASE Stop \/ FlushPolls
  <2>1. /\ UNCHANGED <<buffer, draining, stopped, flushed, durable, outcomes, faults>>
        /\ ~ stopped \/ ~ closing
        /\ ScheduleDrain(TRUE) \/ UNCHANGED schedule
    BY <1>3 DEF Stop, FlushPolls, lifecycle
  <2>2. (scheduled => ~ Draining)'
    BY <1>1, <2>1, SchedulesOne DEF DrainIsInOrder, schedule, Draining
  <2>3. DrainIsInOrder'
    BY <1>1, <2>1, <2>2 DEF DrainIsInOrder, buffer
  <2>4. ~ flushed /\ flushed' = flushed
    BY <1>1, <2>1 DEF FlushIsFinal
  <2>5. FlushIsFinal'
    BY <2>4 DEF FlushIsFinal
  <2> QED BY <2>1, <2>3, <2>5, RestKeeps
<1>4. CASE StopReturns
  <2>1. /\ UNCHANGED <<buffer, draining, scheduled, closing, durable, outcomes, faults>>
        /\ closing /\ stopped' = TRUE
        /\ flushed' = ~ (Draining \/ scheduled \/ HasWork)
    BY <1>4 DEF StopReturns
  <2>2. DrainIsInOrder'
    BY <1>1, <2>1 DEF DrainIsInOrder, Draining, buffer
  <2>3. FlushIsFinal'
    BY <2>1 DEF FlushIsFinal, Draining, HasWork, buffer
  <2> QED BY <2>1, <2>2, <2>3, RestKeeps
<1> QED BY <1>2, <1>3, <1>4

\* WriterInv is inductive.
THEOREM WriterInvariantHolds == WriterSpec => []WriterInv
<1>1. WriterInit => WriterInv
  BY StartsInvariant
<1>2. WriterInv /\ [WriterNext]_writerVars => WriterInv'
  <2> SUFFICES ASSUME WriterInv, [WriterNext]_writerVars PROVE WriterInv'
    OBVIOUS
  <2>1. ASSUME NEW e \in Events, Submit(e) PROVE WriterInv'
    BY <2>1, SubmitKeeps
  <2>2. CASE StartDrain
    BY <2>2, StartDrainKeeps
  <2>3. CASE ItemStored
    BY <2>3, ItemStoredKeeps
  <2>4. CASE GapReported
    BY <2>4, GapReportedKeeps
  <2>5. CASE EnqueueThrows
    BY <2>5, EnqueueThrowsKeeps
  <2>6. CASE RetryTimerFires \/ Stop \/ FlushPolls \/ StopReturns
    BY <2>6, ArrangementsKeep
  <2>7. CASE UNCHANGED writerVars
    <3>1. UNCHANGED <<buffer, draining, durable, outcomes, schedule, lifecycle>>
      BY <2>7 DEF writerVars
    <3>2. DrainIsInOrder' /\ FlushIsFinal'
      BY <3>1 DEF WriterInv, DrainIsInOrder, FlushIsFinal, Draining, buffer, schedule, lifecycle
    <3> QED BY <3>1, <3>2, RestKeeps
  <2> QED BY <2>1, <2>2, <2>3, <2>4, <2>5, <2>6, <2>7 DEF WriterNext, WriterCallback
<1> QED BY <1>1, <1>2, PTL DEF WriterSpec

\* The gaps that are buffered, on their way and reported add up to the events
\* and the contents given up.
THEOREM LossIsAlwaysAccounted == WriterSpec => []LossIsAccounted
<1>1. WriterInv => LossIsAccounted
  BY DEF WriterInv
<1> QED BY <1>1, WriterInvariantHolds, PTL

\* Every accepted event is in the queue or in the buffer, in order; and stop()
\* says that it flushed only when all of it is in the queue.
THEOREM FlushedIsAlwaysDurable == WriterSpec => []FlushedIsDurable
<1>1. WriterInv => FlushedIsDurable
  <2> SUFFICES ASSUME WriterInv PROVE FlushedIsDurable
    OBVIOUS
  <2>1. IsWhatWasAccepted(stored \o [n \in DOMAIN items |-> items[n].event])
    BY DEF WriterInv, EventsOf
  <2>2. ASSUME flushed PROVE IsWhatWasAccepted(stored) /\ DroppedOf(reported) = Cardinality(lost)
    <3>1. items = <<>> /\ gaps = <<>> /\ held = <<>>
      BY <2>2 DEF WriterInv, FlushIsFinal, DrainIsInOrder, Draining
    <3>2. stored \o EventsOf(items) = stored
      BY <3>1, QueueForms DEF WriterInv, WriterTypes
    <3>3. IsWhatWasAccepted(stored)
      BY <3>2 DEF WriterInv
    <3>4. Dropped(Kept) = 0
      <4>1. PICK p : p = [n \in DOMAIN Kept |-> Kept[n].dropped]
        OBVIOUS
      <4>2. Kept = <<>>
        BY <3>1 DEF Kept
      <4>3. DOMAIN p = {}
        BY <4>1, <4>2
      <4> QED BY <4>1, <4>3, SumNothing DEF Dropped
    <3>5. DroppedOf(reported) \in Nat
      <4>1. PICK p : p = [g \in reported |-> g.dropped]
        OBVIOUS
      <4>2. p \in [reported -> Nat] /\ IsFiniteSet(reported)
        BY <4>1, GapForm DEF WriterInv, WriterTypes
      <4> QED BY <4>1, <4>2, SumIsNat DEF DroppedOf
    <3>6. DroppedOf(reported) = Cardinality(lost)
      BY <3>4, <3>5 DEF WriterInv, LossIsAccounted
    <3> QED BY <3>3, <3>6
  <2> QED BY <2>1, <2>2 DEF FlushedIsDurable
<1> QED BY <1>1, WriterInvariantHolds, PTL
===============================================================================
