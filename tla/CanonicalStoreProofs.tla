-------------------------- MODULE CanonicalStoreProofs --------------------------
(***************************************************************************)
(* What is proved of the knowledge that corrections make, of the lessons   *)
(* an agent is told, and of what goes with what is erased.                 *)
(*                                                                         *)
(* Knowledge, for all sessions, turns, gaps, decisions and judgements: no  *)
(* session is given the same piece of knowledge twice, what a confirmed    *)
(* rule has replaced stays replaced, and what was spoken against is not    *)
(* returned to a request that starts later until the user confirms it      *)
(* knowing of what was said.  The argument is about time.  Feedback counts *)
(* only when it is no older than the row it is about, and a rebuild gives  *)
(* a row its age anew; so the invariant says that the age of what is       *)
(* derived is that of a correction in the log, which only gets more of     *)
(* them, all later, and that whatever was said has such a correction, or   *)
(* a rule of the user's, before it.  What a row that is found rests on is  *)
(* read when the search ends and is then compared with what was said until *)
(* the request was made.                                                   *)
(*                                                                         *)
(* LearnedLessons, for every set of lessons, wordings and windows and      *)
(* every bound: an answer yields to the user and to the lessons of its     *)
(* concept, a lesson is announced once and does not drop off the list, and *)
(* is described as it is.  The invariant says what a lesson rests on: as   *)
(* long as it is known there is a reviewed answer with its wording and its *)
(* source, so an answer that is only kept cannot make it eligible behind   *)
(* the back of the notices; and what a run under way still holds of it.    *)
(*                                                                         *)
(* ErasureClosure, for all events, references, associations and jobs: when *)
(* no deletion is under way nothing names what was erased or forgotten,    *)
(* and the gate refuses a deletion only for a rule of the user's that      *)
(* stands for a lesson which went along with another.  The selections are  *)
(* least closed sets, so that what a second call selects, after the first  *)
(* ended anywhere, is in the first one's plan; the invariant says what the *)
(* plan holds at each step of the call, which rows may name it, and that a *)
(* lesson has its job, its proposal and its event until the plan has them. *)
(***************************************************************************)
EXTENDS Knowledge, LearnedLessons, ErasureClosure, FiniteSetTheorems, WellFoundedInduction, TLAPS

-------------------------------------------------------------------------------
(* Knowledge: what the proofs rest on *)

\* The corrections a key is made of, as the log has them.
CorrectionsOf(k) == {e \in parsedCorrections(log) : correctionKeyId(e) = k}

\* The ids of the user's own rules.
Manual(k) == "manual" \in DOMAIN k.topic

IsRow(r) ==
    /\ r = [f \in DOMAIN r |-> r[f]] /\ {"id", "topic", "createdAt", "state"} \subseteq DOMAIN r
    /\ r.topic = r.id.topic

IsUse(u) == u = [f \in DOMAIN u |-> u[f]] /\ {"session", "returned", "applied", "episode"} \subseteq DOMAIN u

UniqueIds(S) == \A r, s \in S : r.id = s.id => r = s

\* What is derived is as old as the first correction it is derived from, however
\* much has been captured since.
Dated(c) ==
    /\ c.createdAt \in Nat /\ c.createdAt <= clock
    /\ ~ Manual(c.id) => /\ CorrectionsOf(c.id) # {}
                         /\ \A e \in CorrectionsOf(c.id) : c.createdAt <= e.at

Clocked ==
    /\ script \in Scripts /\ turn = [s \in Sessions |-> turn[s]] /\ \A s \in Sessions : turn[s] \in Nat
    /\ clock \in Nat /\ \A e \in log : e.at \in Nat /\ e.at <= clock
    /\ IsFiniteSet(feedback)

KeysAreDated == UniqueIds(keys) /\ \A k \in keys : ~ Manual(k.id) /\ Dated(k)

ComputedAreDated ==
    worker.at = "write" =>
        /\ UniqueIds(worker.computed)
        /\ \A c \in worker.computed : IsRow(c) /\ ~ Manual(c.id) /\ Dated(c)

\* A rule of the user's is named after how much they had said.
RowsAreDated ==
    /\ UniqueIds(rows)
    /\ \A r \in rows :
          /\ IsRow(r) /\ Dated(r)
          /\ Manual(r.id) => \E n \in 0..Cardinality(feedback) : r.id.topic.manual = n

\* Nothing was said of a piece of knowledge before there was any.
Founded(k, t) ==
    IF Manual(k) THEN \E r \in rows : r.id = k /\ r.createdAt <= t
    ELSE \E e \in CorrectionsOf(k) : e.at <= t

FeedbackIsFounded == \A f \in feedback : f.at \in Nat /\ f.at <= clock /\ Founded(f.target, f.at)

ReceiptsAreKept == \A k \in receipts : Manual(k) => k \in RowIds

Active(q) == request[q].at \in {"searching", "found"}

\* All that was said against what is returned is resolved, but what was said since
\* the request was made.
AnsweredUntil(k, t) ==
    \A f \in feedback : f.target = k /\ f.kind \in Against /\ f.at <= t =>
        \E y \in feedback : /\ y.target = k /\ y.kind = "confirm" /\ y.source = "user"
                            /\ f.id \in y.resolves /\ f.at < y.at

\* While it searches, a request knows all that its session has been given.
RequestsAreServed ==
    /\ request = [q \in Requests |-> request[q]] /\ \A u \in uses : IsUse(u)
    /\ \A q, o \in Requests : q # o /\ Active(q) /\ Active(o) => request[q].ask.session # request[o].ask.session
    /\ \A q \in Requests : Active(q) =>
          /\ {"at", "ask", "time", "previous", "items"} \subseteq DOMAIN request[q]
          /\ request[q].time \in Nat /\ request[q].time <= clock
          /\ \A u \in uses : u.session = request[q].ask.session => u.returned \subseteq request[q].previous
    /\ \A q \in Requests : request[q].at = "found" =>
          /\ request[q].items \cap request[q].previous = {}
          /\ \A k \in request[q].items : AnsweredUntil(k, request[q].time)

\* What the worker and the users make of the log.
Dating ==
    /\ Clocked /\ KeysAreDated /\ ComputedAreDated /\ RowsAreDated
    /\ FeedbackIsFounded /\ ReceiptsAreKept /\ ReplacedStays

KnowledgeInv == Dating /\ RequestsAreServed /\ ReturnedOnce
-------------------------------------------------------------------------------
(* Keys and candidates *)

\* A set of naturals has a least element.
LEMMA LeastOf ==
    ASSUME NEW T, T \subseteq Nat, T # {} PROVE Least(T) \in T /\ \A m \in T : Least(T) <= m
<1> DEFINE R == {ss \in Nat \X Nat : ss[1] < ss[2]}
<1>1. IsWellFoundedOn(R, Nat)
  BY NatLessThanWellFounded, Zenon DEF OpToRel
<1> HIDE DEF R
<1>2. PICK n \in T : \A m \in T : ~ (<<m, n>> \in R)
  BY <1>1, WFMin
<1>3. ASSUME NEW m \in T PROVE n <= m
  <2>1. <<m, n>> \notin R
    BY <1>2
  <2> QED BY <2>1 DEF R
<1> QED BY <1>2, <1>3 DEF Least

LEMMA OccurrenceIs ==
    ASSUME NEW e, NEW es, NEW lg
    PROVE  occurrenceFor(e, es, lg).event = e /\ occurrenceFor(e, es, lg).key = correctionKeyId(e)
BY DEF occurrenceFor

\* A derived key is never that of a rule of the user's.
LEMMA NothingDerivedIsManual == \A e : ~ Manual(correctionKeyId(e))
BY DEF Manual, correctionKeyId

TheKey(x, all) ==
    LET group == {o \in all : o.key = x}
    IN  [id |-> x, createdAt |-> Least({o.event.at : o \in group}),
         sources |-> {o.event.id : o \in group},
         verifications |-> Ids(UNION {o.verification : o \in group})]

LEMMA KeysAsSet ==
    ASSUME NEW es, NEW lg
    PROVE  correctionKeys(es, lg) = {TheKey(x, Occurrences(es, lg)) : x \in {o.key : o \in Occurrences(es, lg)}}
BY Zenon DEF correctionKeys, TheKey

LEMMA TheKeyIs ==
    ASSUME NEW x, NEW all
    PROVE  TheKey(x, all).id = x
           /\ TheKey(x, all).createdAt = Least({o.event.at : o \in {p \in all : p.key = x}})
BY DEF TheKey

\* The keys of a log: one for each thing its corrections say, as old as the first.
LEMMA KeysAre ==
    ASSUME Clocked, NEW es, NEW k \in correctionKeys(es, log)
    PROVE  ~ Manual(k.id) /\ Dated(k)
<1> DEFINE all == Occurrences(es, log)
           group(x) == {o \in all : o.key = x}
<1>1. PICK x \in {o.key : o \in all} : k.id = x /\ k.createdAt = Least({o.event.at : o \in group(x)})
  <2>1. PICK x \in {o.key : o \in all} : k = TheKey(x, all)
    BY KeysAsSet
  <2>2. TheKey(x, all).id = x /\ TheKey(x, all).createdAt = Least({o.event.at : o \in group(x)})
    BY TheKeyIs
  <2> QED BY <2>1, <2>2
<1>2. \A o \in all : o.event \in parsedCorrections(log) /\ o.key = correctionKeyId(o.event)
  BY OccurrenceIs DEF Occurrences
<1>3. \A e \in parsedCorrections(log) : \E o \in all : o.event = e /\ o.key = correctionKeyId(e)
  BY OccurrenceIs DEF Occurrences
<1>4. CorrectionsOf(x) = {o.event : o \in group(x)}
  BY <1>2, <1>3 DEF CorrectionsOf
<1> HIDE DEF all
<1> DEFINE T == {o.event.at : o \in group(x)}
<1>5. T \subseteq Nat /\ T # {} /\ \A t \in T : t <= clock
  <2>1. parsedCorrections(log) \subseteq log
    BY DEF parsedCorrections
  <2> QED BY <1>1, <1>2, <2>1 DEF Clocked
<1>6. k.createdAt \in T /\ \A t \in T : k.createdAt <= t
  BY <1>1, <1>5, LeastOf
<1>7. \A e \in CorrectionsOf(x) : e.at \in T
  BY <1>4
<1>8. CorrectionsOf(x) # {} /\ ~ Manual(x)
  BY <1>1, <1>2, <1>4, NothingDerivedIsManual
<1> QED BY <1>1, <1>5, <1>6, <1>7, <1>8 DEF Dated

LEMMA KeysAreUnique == ASSUME NEW es, NEW lg PROVE UniqueIds(correctionKeys(es, lg))
<1> DEFINE all == Occurrences(es, lg)
<1>1. \A k \in correctionKeys(es, lg) : k = TheKey(k.id, all)
  <2> SUFFICES ASSUME NEW k \in correctionKeys(es, lg) PROVE k = TheKey(k.id, all)
    OBVIOUS
  <2>1. PICK x : k = TheKey(x, all)
    BY KeysAsSet
  <2>2. TheKey(x, all).id = x
    BY TheKeyIs
  <2> QED BY <2>1, <2>2
<1> QED BY <1>1 DEF UniqueIds

\* The parts of a row that nothing changes.
SameRow(r, s) == IsRow(s) /\ s.id = r.id /\ s.createdAt = r.createdAt

\* A candidate has the identity of its key.
LEMMA DerivedIs ==
    ASSUME NEW k, NEW cs, NEW es, NEW lg, NEW os
    PROVE  SameRow(k, Derived(k, cs, es, lg, os))
<1> DEFINE d == Derived(k, cs, es, lg, os)
<1>1. /\ d = [f \in DOMAIN d |-> d[f]] /\ {"id", "topic", "createdAt", "state"} \subseteq DOMAIN d
      /\ d.id = k.id /\ d.createdAt = k.createdAt /\ d.topic = k.id.topic
  BY DEF Derived
<1> QED BY <1>1 DEF IsRow, SameRow

Judged(d, marks, scope, scopeId, until, tier, state, applied, harmful, helpful) ==
    [d EXCEPT !.marks = marks, !.scope = scope, !.scopeId = scopeId, !.expiresAt = until,
              !.tier = tier, !.state = state, !.applied = applied, !.harmful = harmful,
              !.helpful = helpful]

LEMMA JudgedIs ==
    ASSUME NEW d, IsRow(d), NEW marks, NEW scope, NEW scopeId, NEW until, NEW tier, NEW state,
           NEW applied, NEW harmful, NEW helpful
    PROVE  SameRow(d, Judged(d, marks, scope, scopeId, until, tier, state, applied, harmful, helpful))
<1> DEFINE j == Judged(d, marks, scope, scopeId, until, tier, state, applied, harmful, helpful)
<1>1. /\ j = [f \in DOMAIN j |-> j[f]] /\ DOMAIN j = DOMAIN d
      /\ j.id = d.id /\ j.createdAt = d.createdAt /\ j.topic = d.topic
  BY DEF IsRow, Judged
<1> QED BY <1>1 DEF IsRow, SameRow

LEMMA CandidateIs ==
    ASSUME NEW key, NEW episodes0, NEW log0, NEW feedback0, NEW uses0, NEW opportunities0
    PROVE  SameRow(key, Candidate(key, episodes0, log0, feedback0, uses0, opportunities0))
<1> DEFINE c == Candidate(key, episodes0, log0, feedback0, uses0, opportunities0)
           base == key.sources \cup key.verifications
                   \cup ProofOf(WithIds(key.verifications, log0), log0)
           counters == directKnowledgeCounterevidence(base, key.createdAt, log0)
           d == Derived(key, counters, episodes0, log0, opportunities0)
           heard == InTheLightOf(About(key.id, key.createdAt, feedback0), d)
           unresolved == Unresolved(key.id, key.createdAt, counters, feedback0)
           opinions == Opinions(key.id, key.createdAt, feedback0)
<1>1. c = Judged(d, heard.marks, heard.scope, heard.scopeId,
                 IF Archived(unresolved) THEN heard.expiresAt ELSE None,
                 IF unresolved = {} THEN heard.tier ELSE "disputed",
                 IF unresolved = {} THEN heard.state
                 ELSE IF Archived(unresolved) THEN "archived" ELSE "disputed",
                 Cardinality(Applications(key.id, key.createdAt, feedback0, uses0, opportunities0)),
                 Cardinality({f \in opinions : f.kind = "correct"}),
                 Cardinality({f \in opinions : f.kind = "strengthen"}))
  BY Zenon DEF Candidate, Judged
<1>2. SameRow(key, d)
  BY DerivedIs
<1> HIDE DEF d, heard, unresolved, opinions, counters, base
<1>3. SameRow(d, c)
  BY <1>1, <1>2, JudgedIs DEF SameRow
<1> QED BY <1>2, <1>3 DEF SameRow

InState(c, s) == [c EXCEPT !.state = s]

LEMMA InStateIs == ASSUME NEW c, IsRow(c), NEW s PROVE SameRow(c, InState(c, s)) /\ InState(c, s).state = s
<1> DEFINE j == InState(c, s)
<1>1. /\ j = [f \in DOMAIN j |-> j[f]] /\ DOMAIN j = DOMAIN c /\ j.state = s
      /\ j.id = c.id /\ j.createdAt = c.createdAt /\ j.topic = c.topic
  BY DEF IsRow, InState
<1> QED BY <1>1 DEF IsRow, SameRow

\* What the versions of a topic make of one of them.
Reconciled(c, candidates, lg) ==
    LET Stated(x) == Greatest({e.at : e \in {f \in parsedCorrections(lg) : correctionKeyId(f) = x.id}})
        Later(x, d) == Stated(x) > Stated(d) \/ (Stated(x) = Stated(d) /\ VersionBefore(d.id, x.id))
        Rivals(x) == {d \in candidates \ {x} : d.topic = x.topic /\ d.state = "active"}
        Overtaken(x) == \E d \in Rivals(x) : Later(d, x)
        NextOf(x) == {d \in Rivals(x) : \A r \in Rivals(x) : r = d \/ Later(d, r)}
    IN  IF c.state # "active" THEN c
        ELSE IF Overtaken(c) THEN [c EXCEPT !.state = "superseded"]
        ELSE [c EXCEPT !.supersedes = IF Rivals(c) = {} THEN None
                                      ELSE (CHOOSE d \in NextOf(c) : TRUE).id]

LEMMA ReconcileAsSet ==
    ASSUME NEW S, NEW lg
    PROVE  reconcileTopicVersions(S, lg) = {Reconciled(c, S, lg) : c \in S}
BY Zenon DEF reconcileTopicVersions, Reconciled

LEMMA ReconciledIs ==
    ASSUME NEW S, NEW lg, NEW c, IsRow(c)
    PROVE  SameRow(c, Reconciled(c, S, lg))
<1> DEFINE j == Reconciled(c, S, lg)
<1>1. j = c \/ j = InState(c, "superseded") \/ \E v : j = [c EXCEPT !.supersedes = v]
  BY Zenon DEF Reconciled, InState
<1> HIDE DEF j
<1>2. CASE \E v : j = [c EXCEPT !.supersedes = v]
  <2>1. /\ j = [f \in DOMAIN j |-> j[f]] /\ DOMAIN j = DOMAIN c
        /\ j.id = c.id /\ j.createdAt = c.createdAt /\ j.topic = c.topic
    BY <1>2 DEF IsRow
  <2> QED BY <2>1 DEF IsRow, SameRow, j
<1> QED BY <1>1, <1>2, InStateIs DEF SameRow, j

\* A build has one candidate for each key.
LEMMA LifecycleIs ==
    ASSUME NEW ks, UniqueIds(ks), NEW es, NEW lg, NEW fb, NEW us, NEW os
    PROVE  LET built == Lifecycle(ks, es, lg, fb, us, os)
           IN  UniqueIds(built) /\ \A c \in built : \E k \in ks : SameRow(k, c)
<1> DEFINE counted == Counted(fb)
           candidate(k) == Candidate(k, es, lg, counted, us, os)
           first == {candidate(k) : k \in ks}
           held(c) == IF c.state = "active" /\ Reasons(c, ks, es, lg, counted, us) # {}
                      THEN InState(c, "candidate") ELSE c
           second == {held(c) : c \in first}
<1>1. Lifecycle(ks, es, lg, fb, us, os) = reconcileTopicVersions(second, lg)
  BY Zenon DEF Lifecycle, InState
<1>2. \A k \in ks : SameRow(k, candidate(k))
  BY CandidateIs
<1>3. \A c \in first : SameRow(c, held(c))
  <2> SUFFICES ASSUME NEW k \in ks PROVE SameRow(candidate(k), held(candidate(k)))
    OBVIOUS
  <2>1. IsRow(candidate(k))
    BY <1>2 DEF SameRow
  <2> HIDE DEF candidate
  <2> QED BY <2>1, InStateIs DEF SameRow
<1> HIDE DEF candidate, held
<1>4. \A c \in second : SameRow(c, Reconciled(c, second, lg))
  BY <1>3, ReconciledIs DEF SameRow
<1>5. Lifecycle(ks, es, lg, fb, us, os) = {Reconciled(c, second, lg) : c \in second}
  BY <1>1, ReconcileAsSet
<1>6. UniqueIds(second)
  BY <1>2, <1>3 DEF UniqueIds, SameRow
<1>7. \A c \in second : \E k \in ks : SameRow(k, c)
  BY <1>2, <1>3 DEF SameRow
<1> HIDE DEF second
<1> QED BY <1>4, <1>5, <1>6, <1>7 DEF UniqueIds, SameRow

-------------------------------------------------------------------------------
(* What the worker and the users make of the log *)

\* Time goes on, and what is captured comes after what there was.
LogGrows ==
    /\ clock' \in Nat /\ clock <= clock' /\ log \subseteq log'
    /\ \A e \in log' \ log : e.at \in Nat /\ clock <= e.at

LEMMA CorrectionsStay ==
    ASSUME LogGrows
    PROVE  \A k : CorrectionsOf(k) \subseteq CorrectionsOf(k)' /\ CorrectionsOf(k)' \ CorrectionsOf(k) \subseteq log' \ log
BY DEF LogGrows, CorrectionsOf, parsedCorrections

LEMMA DatedStays == ASSUME LogGrows, Clocked PROVE \A c : Dated(c) => Dated(c)'
<1> SUFFICES ASSUME NEW c, Dated(c) PROVE Dated(c)'
  OBVIOUS
<1>1. c.createdAt \in Nat /\ c.createdAt <= clock /\ clock' \in Nat /\ clock <= clock' /\ clock \in Nat
  BY DEF Dated, LogGrows, Clocked
<1>2. c.createdAt <= clock'
  BY <1>1
<1>3. ASSUME ~ Manual(c.id)
      PROVE  CorrectionsOf(c.id)' # {} /\ \A e \in CorrectionsOf(c.id)' : c.createdAt <= e.at
  <2>1. CorrectionsOf(c.id)' # {}
    BY <1>3, CorrectionsStay DEF Dated
  <2>2. ASSUME NEW e \in CorrectionsOf(c.id)' PROVE c.createdAt <= e.at
    <3>1. CASE e \in CorrectionsOf(c.id)
      BY <1>3, <3>1 DEF Dated
    <3>2. CASE e \notin CorrectionsOf(c.id)
      <4>1. e.at \in Nat /\ clock <= e.at
        BY <2>2, <3>2, CorrectionsStay DEF LogGrows
      <4> QED BY ONLY <4>1, <1>1
    <3> QED BY <3>1, <3>2
  <2> QED BY <2>1, <2>2
<1> QED BY <1>1, <1>2, <1>3 DEF Dated, Manual

LEMMA RetainIs ==
    ASSUME NEW c, IsRow(c)
    PROVE  /\ SameRow(c, Retain(c))
           /\ c.id \in receipts => Retain(c).state \in {"superseded", "archived"}
<1>1. Retain(c) = InState(c, "superseded") \/ (Retain(c) = c /\ (c.id \in receipts => c.state = "archived"))
  BY Zenon DEF Retain, InState
<1> QED BY <1>1, InStateIs DEF SameRow

\* A row by its id.
LEMMA RowIs ==
    ASSUME RowsAreDated
    PROVE  /\ \A k \in RowIds : Row(k) \in rows /\ Row(k).id = k
           /\ \A r \in rows : r.id \in RowIds /\ Row(r.id) = r
<1>1. ASSUME NEW k \in RowIds PROVE Row(k) \in rows /\ Row(k).id = k
  BY DEF Row, RowIds
<1>2. ASSUME NEW r \in rows PROVE r.id \in RowIds /\ Row(r.id) = r
  <2>1. r.id \in RowIds
    BY DEF RowIds
  <2> QED BY <1>1, <2>1 DEF RowsAreDated, UniqueIds
<1> QED BY <1>1, <1>2

\* What the log says stands while it grows and nothing else happens.
LEMMA GrowingKeeps ==
    ASSUME Dating, LogGrows, Clocked', UNCHANGED <<keys, worker, rows, feedback, receipts>>
    PROVE  Dating'
<1>1. \A c : Dated(c) => Dated(c)'
  BY DatedStays DEF Dating
<1>2. KeysAreDated'
  BY <1>1 DEF Dating, KeysAreDated, UniqueIds, Manual
<1>3. ComputedAreDated'
  BY <1>1 DEF Dating, ComputedAreDated, UniqueIds, Manual, IsRow
<1>4. RowsAreDated'
  BY <1>1 DEF Dating, RowsAreDated, UniqueIds, Manual, IsRow
<1>5. FeedbackIsFounded'
  <2> SUFFICES ASSUME NEW f \in feedback PROVE f.at <= clock' /\ Founded(f.target, f.at)'
    BY DEF Dating, FeedbackIsFounded
  <2>1. f.at \in Nat /\ f.at <= clock /\ Founded(f.target, f.at) /\ clock <= clock' /\ clock \in Nat /\ clock' \in Nat
    BY DEF Dating, FeedbackIsFounded, LogGrows, Clocked
  <2>2. f.at <= clock'
    BY ONLY <2>1
  <2> QED BY <2>1, <2>2, CorrectionsStay DEF Founded, Manual
<1>6. ReceiptsAreKept' /\ ReplacedStays'
  BY DEF Dating, ReceiptsAreKept, ReplacedStays, RowIds, Manual
<1> QED BY <1>2, <1>3, <1>4, <1>5, <1>6 DEF Dating

LEMMA CaptureDates ==
    ASSUME Dating, NEW s \in Sessions, NEW gap \in script.gaps, Capture(s, gap) PROVE Dating' /\ clock <= clock'
<1> DEFINE next == script.turns[s][turn[s] + 1]
           new == {Captured(next[i], clock + gap + i - 1) : i \in DOMAIN next}
<1>1. /\ turn[s] < Len(script.turns[s])
      /\ log' = log \cup new /\ clock' = clock + gap + Len(next) - 1
      /\ turn' = [turn EXCEPT ![s] = @ + 1]
      /\ UNCHANGED <<script, keys, worker, rows, feedback, receipts>>
  BY DEF Capture, derived, told
<1>2. turn[s] \in Nat /\ Len(script.turns[s]) \in Nat /\ gap \in Nat /\ clock \in Nat
  BY ScriptsAssumption DEF Dating, Clocked, Sessions
<1>3. turn[s] + 1 \in 1..Len(script.turns[s])
  BY <1>1, <1>2
<1>4. Len(next) \in Nat \ {0} /\ DOMAIN next = 1..Len(next)
  BY <1>3, ScriptsAssumption DEF Dating, Clocked, Sessions
<1> HIDE DEF next
<1>5. \A e \in new : e.at \in Nat /\ clock <= e.at /\ e.at <= clock'
  <2> SUFFICES ASSUME NEW i \in DOMAIN next
               PROVE  LET e == Captured(next[i], clock + gap + i - 1)
                      IN  e.at \in Nat /\ clock <= e.at /\ e.at <= clock'
    OBVIOUS
  <2>1. Captured(next[i], clock + gap + i - 1).at = clock + gap + i - 1
    BY DEF Captured
  <2>2. i \in 1..Len(next)
    BY <1>4
  <2> QED BY <1>1, <1>2, <1>4, <2>1, <2>2
<1>6. clock' \in Nat /\ clock <= clock'
  BY <1>1, <1>2, <1>4
<1> HIDE DEF new
<1>7. LogGrows
  BY <1>1, <1>5, <1>6 DEF LogGrows
<1>8. Clocked'
  <2>1. \A e \in log' : e.at \in Nat /\ e.at <= clock'
    <3>1. \A e \in log : e.at \in Nat /\ e.at <= clock
      BY DEF Dating, Clocked
    <3>2. ASSUME NEW e \in log PROVE e.at \in Nat /\ e.at <= clock'
      <4>1. e.at \in Nat /\ e.at <= clock
        BY <3>1
      <4> QED BY ONLY <4>1, <1>2, <1>6
    <3> QED BY <1>1, <1>5, <3>2
  <2>2. turn' = [x \in Sessions' |-> turn'[x]] /\ \A x \in Sessions' : turn'[x] \in Nat
    <3>1. Sessions' = Sessions
      BY <1>1 DEF Sessions
    <3>2. turn = [x \in Sessions |-> turn[x]] /\ \A x \in Sessions : turn[x] \in Nat
      BY DEF Dating, Clocked
    <3>3. turn' = [x \in Sessions |-> IF x = s THEN turn[s] + 1 ELSE turn[x]]
      BY <1>1, <3>2
    <3> QED BY <1>2, <3>1, <3>2, <3>3
  <2> QED BY <1>1, <1>6, <2>1, <2>2 DEF Dating, Clocked, Sessions
<1> QED BY <1>1, <1>6, <1>7, <1>8, GrowingKeeps

LEMMA StaysClocked ==
    ASSUME Clocked, clock' \in Nat, clock <= clock', IsFiniteSet(feedback'), UNCHANGED <<script, turn, log>>
    PROVE  Clocked' /\ LogGrows
<1>1. \A e \in log : e.at <= clock'
  <2> SUFFICES ASSUME NEW e \in log PROVE e.at <= clock'
    OBVIOUS
  <2>1. e.at \in Nat /\ e.at <= clock /\ clock \in Nat
    BY DEF Clocked
  <2> QED BY ONLY <2>1, clock' \in Nat, clock <= clock'
<1> QED BY <1>1 DEF Clocked, LogGrows, Sessions

\* Steps that read or take nothing of this.
LEMMA OthersDate ==
    ASSUME Dating, UNCHANGED <<script, turn, clock, log, keys, worker, rows, feedback, receipts>>
    PROVE  Dating'
<1>1. Clocked' /\ LogGrows
  BY StaysClocked DEF Dating, Clocked
<1> QED BY <1>1, GrowingKeeps

LEMMA DecideDates ==
    ASSUME Dating, NEW p, NEW action, Decide(p, action) PROVE Dating'
<1>1. clock' = clock + 1 /\ UNCHANGED <<script, turn, log, keys, worker, rows, feedback, receipts>>
  BY DEF Decide, facts, derived, told
<1>2. Clocked' /\ LogGrows
  BY <1>1, StaysClocked DEF Dating, Clocked
<1> QED BY <1>1, <1>2, GrowingKeeps

\* The worker, but for its write.
LEMMA WorkerDates ==
    ASSUME Dating, Clocked', UNCHANGED <<script, turn, clock, log, rows, feedback, receipts>>,
           KeysAreDated', ComputedAreDated'
    PROVE  Dating'
<1>1. LogGrows
  BY StaysClocked DEF Dating, Clocked
<1>2. \A c : Dated(c) => Dated(c)'
  BY <1>1, DatedStays DEF Dating
<1>3. RowsAreDated'
  BY <1>2 DEF Dating, RowsAreDated, UniqueIds, Manual, IsRow
<1>4. FeedbackIsFounded'
  BY <1>1, CorrectionsStay DEF Dating, FeedbackIsFounded, Founded, Manual
<1>5. ReceiptsAreKept' /\ ReplacedStays'
  BY DEF Dating, ReceiptsAreKept, ReplacedStays, RowIds, Manual
<1> QED BY <1>3, <1>4, <1>5 DEF Dating

LEMMA GroupDates == ASSUME Dating, Group \/ Stop PROVE Dating'
<1>1. /\ UNCHANGED <<script, turn, clock, log, rows, feedback, receipts, keys>>
      /\ worker' = [worker EXCEPT !.at = "correct"] \/ worker' = Idle
  BY DEF Group, Stop, facts, derived, told
<1>2. worker'.at # "write"
  BY <1>1 DEF Idle, Group, Stop
<1>3. Clocked' /\ LogGrows
  BY <1>1, StaysClocked DEF Dating, Clocked
<1>4. KeysAreDated'
  BY <1>1, <1>3, DatedStays DEF Dating, KeysAreDated, UniqueIds, Manual
<1> QED BY <1>1, <1>2, <1>3, <1>4, WorkerDates DEF ComputedAreDated

LEMMA CorrectDates == ASSUME Dating, Correct PROVE Dating'
<1>1. /\ UNCHANGED <<script, turn, clock, log, rows, feedback, receipts>>
      /\ keys' = correctionKeys(episodes, log)
      /\ worker' = [worker EXCEPT !.at = "read"]
  BY DEF Correct, facts, told
<1>2. worker'.at # "write"
  BY <1>1 DEF Correct
<1>3. Clocked' /\ LogGrows
  BY <1>1, StaysClocked DEF Dating, Clocked
<1>4. KeysAreDated'
  <2>1. UniqueIds(keys')
    BY <1>1, KeysAreUnique
  <2>2. \A k \in keys' : ~ Manual(k.id) /\ Dated(k)
    BY <1>1, KeysAre DEF Dating
  <2> QED BY <1>3, <2>1, <2>2, DatedStays DEF Dating, KeysAreDated, UniqueIds, Manual
<1> QED BY <1>1, <1>2, <1>3, <1>4, WorkerDates DEF ComputedAreDated

LEMMA ReadDates == ASSUME Dating, Read PROVE Dating'
<1> DEFINE built == Lifecycle(keys, episodes, log, feedback, Relevant, opportunities)
<1>1. /\ UNCHANGED <<script, turn, clock, log, rows, feedback, receipts, keys>>
      /\ worker' = [at |-> "write", computed |-> built]
  BY DEF Read, facts, told, derived
<1>2. UniqueIds(built) /\ \A c \in built : \E k \in keys : SameRow(k, c)
  BY LifecycleIs DEF Dating, KeysAreDated
<1>3. worker'.computed = built
  BY <1>1
<1> HIDE DEF built
<1>4. \A c \in built : IsRow(c) /\ ~ Manual(c.id) /\ Dated(c)
  BY <1>2 DEF SameRow, Dating, KeysAreDated, Dated
<1>5. Clocked' /\ LogGrows
  BY <1>1, StaysClocked DEF Dating, Clocked
<1>6. \A c : Dated(c) => Dated(c)'
  BY <1>5, DatedStays DEF Dating
<1>7. KeysAreDated'
  BY <1>1, <1>6 DEF Dating, KeysAreDated, UniqueIds, Manual
<1>8. ComputedAreDated'
  BY <1>2, <1>3, <1>4, <1>6 DEF ComputedAreDated, UniqueIds, Manual, IsRow
<1> QED BY <1>1, <1>5, <1>7, <1>8, WorkerDates

LEMMA WriteDates == ASSUME Dating, Write PROVE Dating'
<1> DEFINE built == worker.computed
           written == {Retain(c) : c \in built}
           kept == {r \in rows : r.id \notin {c.id : c \in built} /\ (~ Derives(r) \/ r.state = "superseded")}
<1>1. /\ UNCHANGED <<script, turn, clock, log, feedback, receipts, keys>>
      /\ worker.at = "write" /\ worker' = Idle /\ rows' = written \cup kept
  BY DEF Write, facts, told, derived
<1>2. \A c \in built : /\ IsRow(c) /\ ~ Manual(c.id) /\ Dated(c) /\ SameRow(c, Retain(c))
                       /\ c.id \in receipts => Retain(c).state \in {"superseded", "archived"}
  BY <1>1, RetainIs DEF Dating, ComputedAreDated
<1>3. UniqueIds(built)
  BY <1>1 DEF Dating, ComputedAreDated
<1> HIDE DEF built
<1>4. \A r \in rows : Manual(r.id) => r \in kept
  BY <1>2 DEF Dating, RowsAreDated, IsRow, Derives, Manual
<1>5. UniqueIds(rows')
  <2>1. UniqueIds(written)
    BY <1>2, <1>3 DEF UniqueIds, SameRow
  <2>2. UniqueIds(kept)
    BY DEF Dating, RowsAreDated, UniqueIds
  <2>3. \A r \in written, s \in kept : r.id # s.id
    BY <1>2 DEF SameRow
  <2> HIDE DEF written, kept
  <2> QED BY <1>1, <2>1, <2>2, <2>3 DEF UniqueIds
<1>6. \A r \in rows' : /\ IsRow(r) /\ Dated(r)
                       /\ Manual(r.id) => r \in rows
                       /\ r.id \in receipts => r.state \in {"superseded", "archived"}
  <2>1. \A r \in written : /\ IsRow(r) /\ Dated(r) /\ ~ Manual(r.id)
                           /\ r.id \in receipts => r.state \in {"superseded", "archived"}
    BY <1>2 DEF SameRow, Dated
  <2>2. \A r \in kept : /\ IsRow(r) /\ Dated(r) /\ r \in rows
                        /\ r.id \in receipts => r.state \in {"superseded", "archived"}
    BY DEF Dating, RowsAreDated, ReplacedStays
  <2> QED BY <1>1, <2>1, <2>2
<1>7. \A r \in rows : Manual(r.id) => r \in rows'
  BY <1>1, <1>4
<1> HIDE DEF written, kept
<1>8. Clocked' /\ LogGrows
  BY <1>1, StaysClocked DEF Dating, Clocked
<1>9. KeysAreDated'
  BY <1>1, <1>8, DatedStays DEF Dating, KeysAreDated, UniqueIds, Manual
<1>10. ComputedAreDated'
  BY <1>1 DEF ComputedAreDated, Idle
<1>11. RowsAreDated'
  <2> SUFFICES ASSUME NEW r \in rows'
               PROVE  /\ IsRow(r) /\ Dated(r)'
                      /\ Manual(r.id) => \E n \in 0..Cardinality(feedback) : r.id.topic.manual = n
    BY <1>1, <1>5 DEF RowsAreDated, UniqueIds, IsRow, Manual
  <2> QED BY <1>6, <1>8, DatedStays DEF Dating, RowsAreDated
<1>12. FeedbackIsFounded'
  BY <1>1, <1>7, <1>8, CorrectionsStay DEF Dating, FeedbackIsFounded, Founded, Manual
<1>13. ReceiptsAreKept' /\ ReplacedStays'
  BY <1>1, <1>6, <1>7 DEF Dating, ReceiptsAreKept, ReplacedStays, RowIds, Manual
<1> QED BY <1>8, <1>9, <1>10, <1>11, <1>12, <1>13 DEF Dating

\* A word on a piece of knowledge, after all that was said before.
Speaks(f, k) ==
    /\ k \in RowIds /\ f.target = k /\ f.at = clock + 1
    /\ feedback' = feedback \cup {f} /\ clock' = clock + 1
    /\ UNCHANGED <<script, turn, log, keys, worker>>

LEMMA SpokenIsLater ==
    ASSUME Dating, NEW f, NEW k, Speaks(f, k)
    PROVE  /\ Clocked' /\ LogGrows /\ f \notin feedback
           /\ Cardinality(feedback') = Cardinality(feedback) + 1 /\ Cardinality(feedback) \in Nat
<1>1. clock \in Nat /\ IsFiniteSet(feedback)
  BY DEF Dating, Clocked
<1>2. f \notin feedback
  <2> SUFFICES ASSUME f \in feedback PROVE FALSE
    OBVIOUS
  <2>1. f.at \in Nat /\ f.at <= clock /\ f.at = clock + 1
    BY DEF Dating, FeedbackIsFounded, Speaks
  <2> QED BY ONLY <2>1, <1>1
<1>3. IsFiniteSet(feedback') /\ Cardinality(feedback') = Cardinality(feedback) + 1
  BY <1>1, <1>2, FS_AddElement DEF Speaks
<1>4. Cardinality(feedback) \in Nat
  BY <1>1, FS_CardinalityType
<1>5. clock' \in Nat /\ clock <= clock'
  BY <1>1 DEF Speaks
<1>6. Clocked' /\ LogGrows
  BY <1>3, <1>5, StaysClocked DEF Dating, Speaks
<1> QED BY <1>2, <1>3, <1>4, <1>6

\* A row there was, with its age and its name; more may be known of it.
Lasting(r, s) ==
    /\ SameRow(r, s)
    /\ s.id \in receipts' => s.state \in {"superseded", "archived"}

LEMMA SpeakingDates ==
    ASSUME Dating, NEW f, NEW k, Speaks(f, k), receipts \subseteq receipts', receipts' \subseteq RowIds \cup receipts,
           UniqueIds(rows'),
           \A r \in rows : \E s \in rows' : SameRow(r, s),
           \A s \in rows' :
              \/ \E r \in rows : Lasting(r, s)
              \/ /\ IsRow(s) /\ Manual(s.id) /\ s.createdAt = clock' /\ s.id \notin receipts'
                 /\ s.id.topic.manual \in 0..Cardinality(feedback')
    PROVE  Dating'
<1>1. /\ Clocked' /\ LogGrows /\ f \notin feedback
      /\ Cardinality(feedback') = Cardinality(feedback) + 1 /\ Cardinality(feedback) \in Nat
  BY SpokenIsLater
<1>2. \A c : Dated(c) => Dated(c)'
  BY <1>1, DatedStays DEF Dating
<1>3. KeysAreDated'
  BY <1>2 DEF Dating, KeysAreDated, UniqueIds, Manual, Speaks
<1>4. ComputedAreDated'
  BY <1>2 DEF Dating, ComputedAreDated, UniqueIds, Manual, IsRow, Speaks
<1>5. ASSUME NEW s \in rows', NEW r \in rows, Lasting(r, s)
      PROVE  /\ IsRow(s) /\ Dated(s)'
             /\ Manual(s.id) => \E n \in 0..Cardinality(feedback') : s.id.topic.manual = n
  <2>1. Dated(r)' /\ SameRow(r, s)
    BY <1>2, <1>5 DEF Dating, RowsAreDated, Lasting
  <2>2. Dated(s)'
    BY <2>1 DEF SameRow, Dated, Manual
  <2>3. ASSUME Manual(s.id) PROVE \E n \in 0..Cardinality(feedback') : s.id.topic.manual = n
    <3>1. PICK n \in 0..Cardinality(feedback) : s.id.topic.manual = n
      BY <2>1, <2>3 DEF Dating, RowsAreDated, SameRow
    <3> QED BY <1>1, <3>1
  <2> QED BY <2>1, <2>2, <2>3 DEF SameRow
<1>6. ASSUME NEW s \in rows', IsRow(s), Manual(s.id), s.createdAt = clock',
             s.id.topic.manual \in 0..Cardinality(feedback')
      PROVE  /\ IsRow(s) /\ Dated(s)'
             /\ Manual(s.id) => \E n \in 0..Cardinality(feedback') : s.id.topic.manual = n
  <2>1. s.createdAt \in Nat /\ s.createdAt <= clock'
    BY <1>1, <1>6 DEF Clocked
  <2> QED BY <1>6, <2>1 DEF Dated, Manual
<1>7. RowsAreDated'
  BY <1>5, <1>6 DEF RowsAreDated, UniqueIds, IsRow, Manual
<1>8. FeedbackIsFounded'
  <2> SUFFICES ASSUME NEW g \in feedback' PROVE g.at \in Nat /\ g.at <= clock' /\ Founded(g.target, g.at)'
    BY DEF FeedbackIsFounded
  <2>1. CASE g \in feedback
    <3>1. g.at \in Nat /\ g.at <= clock /\ clock \in Nat /\ clock' \in Nat /\ clock <= clock' /\ Founded(g.target, g.at)
      BY <1>1, <2>1 DEF Dating, FeedbackIsFounded, LogGrows, Clocked
    <3>2. g.at <= clock'
      BY ONLY <3>1
    <3>3. Founded(g.target, g.at)'
      BY <1>1, <3>1, CorrectionsStay DEF Founded, SameRow, Manual
    <3> QED BY <3>1, <3>2, <3>3
  <2>2. CASE g = f
    <3>1. g.at = clock' /\ g.at \in Nat /\ g.at <= clock' /\ clock \in Nat /\ clock <= clock'
      BY <1>1, <2>2 DEF Speaks, Dating, Clocked
    <3>2. PICK r \in rows : r.id = k /\ IsRow(r) /\ Dated(r)
      BY DEF Speaks, RowIds, Dating, RowsAreDated
    <3>3. Founded(k, g.at)'
      <4>1. CASE Manual(k)
        <5>1. PICK s \in rows' : s.id = k /\ s.createdAt = r.createdAt
          BY <3>2 DEF SameRow
        <5>2. s.createdAt <= g.at
          BY <3>1, <3>2, <5>1 DEF Dated
        <5> QED BY <4>1, <5>1, <5>2 DEF Founded, Manual
      <4>2. CASE ~ Manual(k)
        <5>1. PICK e \in CorrectionsOf(k) : TRUE
          BY <3>2, <4>2 DEF Dated
        <5>2. e.at \in Nat /\ e.at <= clock
          BY DEF CorrectionsOf, parsedCorrections, Dating, Clocked
        <5>3. e.at <= g.at
          BY ONLY <3>1, <5>2
        <5>4. e \in CorrectionsOf(k)'
          BY <1>1, CorrectionsStay
        <5> QED BY <4>2, <5>3, <5>4 DEF Founded, Manual
      <4> QED BY <4>1, <4>2
    <3> QED BY <2>2, <3>1, <3>3 DEF Speaks
  <2> QED BY <2>1, <2>2 DEF Speaks
<1>9. ReceiptsAreKept'
  <2> SUFFICES ASSUME NEW x \in receipts', Manual(x) PROVE x \in RowIds'
    BY DEF ReceiptsAreKept, Manual
  <2>1. x \in RowIds
    BY DEF Dating, ReceiptsAreKept
  <2> QED BY <2>1 DEF RowIds, SameRow
<1>10. ReplacedStays'
  BY DEF ReplacedStays, Lasting
<1> QED BY <1>1, <1>3, <1>4, <1>7, <1>8, <1>9, <1>10 DEF Dating

\* Fields of a row that may change.
Marked(c, m) == [c EXCEPT !.marks = m]
Graded(c, t, s) == [c EXCEPT !.tier = t, !.state = s]
Praised(c, a, h) == [c EXCEPT !.applied = a, !.helpful = h]
Blamed(c, s, t, a, h) == [c EXCEPT !.state = s, !.tier = t, !.applied = a, !.harmful = h]
Lapsed(c, s, t) == [c EXCEPT !.state = s, !.expiresAt = t]
Scoped(c, s, t) == [c EXCEPT !.scope = s, !.scopeId = t]

LEMMA FieldsChange ==
    ASSUME NEW c, IsRow(c)
    PROVE  /\ \A m : SameRow(c, Marked(c, m))
           /\ \A t, s : SameRow(c, Graded(c, t, s))
           /\ \A a, h : SameRow(c, Praised(c, a, h))
           /\ \A s, t, a, h : SameRow(c, Blamed(c, s, t, a, h))
           /\ \A s, t : SameRow(c, Lapsed(c, s, t)) /\ SameRow(c, Scoped(c, s, t))
<1> DEFINE Spared(j) == /\ j = [f \in DOMAIN j |-> j[f]] /\ DOMAIN j = DOMAIN c
                        /\ j.id = c.id /\ j.createdAt = c.createdAt /\ j.topic = c.topic
<1>1. ASSUME NEW j, Spared(j) PROVE SameRow(c, j)
  BY <1>1 DEF IsRow, SameRow
<1>2. \A m : Spared(Marked(c, m))
  BY DEF IsRow, Marked
<1>3. \A t, s : Spared(Graded(c, t, s))
  BY DEF IsRow, Graded
<1>5. \A a, h : Spared(Praised(c, a, h))
  BY DEF IsRow, Praised
<1>6. ASSUME NEW s, NEW t, NEW a, NEW h PROVE Spared(Blamed(c, s, t, a, h))
  <2> DEFINE j == Blamed(c, s, t, a, h)
  <2>1. DOMAIN j = DOMAIN c
    BY DEF Blamed
  <2>2. j = [f \in DOMAIN j |-> j[f]]
    BY DEF IsRow, Blamed
  <2>3. j.id = c.id
    BY DEF IsRow, Blamed
  <2>4. j.createdAt = c.createdAt
    BY DEF IsRow, Blamed
  <2>5. j.topic = c.topic
    BY DEF IsRow, Blamed
  <2> QED BY <2>1, <2>2, <2>3, <2>4, <2>5
<1>7. \A s, t : Spared(Lapsed(c, s, t))
  BY DEF IsRow, Lapsed
<1>8. \A s, t : Spared(Scoped(c, s, t))
  BY DEF IsRow, Scoped
<1> HIDE DEF Spared
<1> QED BY <1>1, <1>2, <1>3, <1>5, <1>6, <1>7, <1>8

\* What is said of a row leaves it the row it was.
LEMMA ConfirmedIs == ASSUME NEW r, IsRow(r), NEW f PROVE SameRow(r, Confirmed(r, f))
<1> DEFINE marked == Marked(r, r.marks \cup {"user_confirmed"})
           j == Confirmed(r, f)
           before == UnresolvedIds(r, feedback)
           left == Unresolved(r.id, r.createdAt,
                              directKnowledgeCounterevidence(r.evidence, r.createdAt, log),
                              feedback \cup {f})
<1>1. \/ j = marked
      \/ j = Graded(marked, "disputed",
                    IF Archived(left) \/ r.state = "archived" THEN "archived" ELSE "disputed")
      \/ j = Graded(marked, IF marked.tier \in {"inferred", "disputed"} THEN "user_confirmed"
                            ELSE marked.tier, "active")
  BY Zenon DEF Confirmed, Marked, Graded
<1>2. SameRow(r, marked)
  BY FieldsChange
<1> HIDE DEF marked, j
<1>3. SameRow(marked, j)
  BY <1>1, <1>2, FieldsChange DEF SameRow
<1> QED BY <1>2, <1>3 DEF SameRow, j

LEMMA UpdatedIs ==
    ASSUME NEW r, IsRow(r), NEW f, NEW applied PROVE SameRow(r, Updated(r, f, applied))
<1> DEFINE j == Updated(r, f, applied)
<1>1. \/ j = r \/ j = Confirmed(r, f) \/ j = InState(r, "archived")
      \/ \E a, h : j = Praised(r, a, h)
      \/ \E a, h : j = Blamed(r, "disputed", "disputed", a, h)
      \/ j = Lapsed(r, "archived", f.at)
      \/ j = Scoped(r, f.scope, f.scopeId)
  BY Zenon DEF Updated, Praised, Blamed, Lapsed, InState, Scoped
<1> HIDE DEF j
<1> QED BY <1>1, FieldsChange, ConfirmedIs, InStateIs DEF SameRow, j

\* A word on a row, which may change it.
LEMMA SpeakingOfOneDates ==
    ASSUME Dating, NEW f, NEW k, Speaks(f, k), UNCHANGED receipts, NEW x, SameRow(Row(k), x),
           rows' \in {rows, (rows \ {Row(k)}) \cup {Retain(x)}}
    PROVE  Dating'
<1>1. k \in RowIds /\ Row(k) \in rows /\ Row(k).id = k /\ IsRow(Row(k))
  BY RowIs DEF Speaks, Dating, RowsAreDated
<1>2. SameRow(Row(k), Retain(x)) /\ (k \in receipts => Retain(x).state \in {"superseded", "archived"})
  BY <1>1, RetainIs DEF SameRow
<1>3. Lasting(Row(k), Retain(x))
  BY <1>1, <1>2 DEF Lasting, SameRow
<1>4. \A r \in rows : SameRow(r, r) /\ Lasting(r, r)
  BY DEF Dating, RowsAreDated, ReplacedStays, SameRow, Lasting
<1>5. UniqueIds(rows')
  BY <1>1, <1>2 DEF Dating, RowsAreDated, UniqueIds, SameRow
<1>6. \A r \in rows : \E s \in rows' : SameRow(r, s)
  BY <1>1, <1>2, <1>4
<1>7. \A s \in rows' : \E r \in rows : Lasting(r, s)
  BY <1>1, <1>3, <1>4
<1> QED BY <1>5, <1>6, <1>7, SpeakingDates

LEMMA JudgeDates ==
    ASSUME Dating, NEW u, NEW k, NEW source, NEW action, NEW resolves, NEW applied,
           Judge(u, k, source, action, resolves, applied)
    PROVE  Dating'
<1> DEFINE f == Said(k, source, action, u.id, resolves, applied /\ source = "user")
           x == Updated(Row(k), f, applied)
<1>1. /\ k \in RowIds /\ feedback' = feedback \cup {f} /\ clock' = clock + 1
      /\ UNCHANGED <<script, turn, log, keys, worker, receipts>>
      /\ rows' \in {rows, (rows \ {Row(k)}) \cup {Retain(x)}}
  BY DEF Judge, facts, derived
<1>2. IsRow(Row(k))
  BY <1>1, RowIs DEF Dating, RowsAreDated
<1>3. SameRow(Row(k), x)
  BY <1>2, UpdatedIs
<1>4. Speaks(f, k)
  BY <1>1 DEF Said, Speaks
<1> HIDE DEF f, x
<1> QED BY <1>1, <1>3, <1>4, SpeakingOfOneDates

LEMMA RevokeDates == ASSUME Dating, Revoke PROVE Dating'
<1> DEFINE k == review.row.id
           f == Said(k, "user", "revoke", 1000 + Cardinality(feedback), {}, FALSE)
           x == InState(Row(k), "archived")
<1>1. /\ k \in RowIds /\ feedback' = feedback \cup {f} /\ clock' = clock + 1
      /\ UNCHANGED <<script, turn, log, keys, worker, receipts>>
      /\ rows' = (rows \ {Row(k)}) \cup {Retain(x)}
  BY DEF Revoke, Current, RowIds, facts, derived, InState
<1>2. IsRow(Row(k))
  BY <1>1, RowIs DEF Dating, RowsAreDated
<1>3. SameRow(Row(k), x)
  BY <1>2, InStateIs
<1>4. Speaks(f, k)
  BY <1>1 DEF Said, Speaks
<1> HIDE DEF f, x, k
<1> QED BY <1>1, <1>3, <1>4, SpeakingOfOneDates

LEMMA DisputeDates == ASSUME Dating, NEW k \in RowIds, Dispute(k) PROVE Dating'
<1> DEFINE f == Said(k, "user", "wrong", 1000 + Cardinality(feedback), {}, FALSE)
           x == [Row(k) EXCEPT !.state = "disputed", !.tier = "disputed"]
<1>1. /\ feedback' = feedback \cup {f} /\ clock' = clock + 1
      /\ UNCHANGED <<script, turn, log, keys, worker, receipts>>
      /\ rows' = (rows \ {Row(k)}) \cup {Retain(x)}
  BY DEF Dispute, facts, derived
<1>2. IsRow(Row(k))
  BY RowIs DEF Dating, RowsAreDated
<1>3. x = [Row(k) EXCEPT !.tier = "disputed", !.state = "disputed"]
  OBVIOUS
<1>4. SameRow(Row(k), x)
  BY <1>2, <1>3, FieldsChange, Zenon DEF Graded
<1>5. Speaks(f, k)
  BY <1>1 DEF Said, Speaks
<1> HIDE DEF f, x
<1> QED BY <1>1, <1>4, <1>5, SpeakingOfOneDates

LEMMA MuteDates == ASSUME Dating, NEW k \in RowIds, NEW s, Mute(k, s) PROVE Dating'
<1> DEFINE f == Said(k, "user", "mute_session", 1000 + Cardinality(feedback), {}, FALSE)
<1>1. /\ feedback' = feedback \cup {f} /\ clock' = clock + 1
      /\ UNCHANGED <<script, turn, log, keys, worker, receipts, rows>>
  BY DEF Mute, facts, derived
<1>2. SameRow(Row(k), Row(k))
  BY RowIs DEF Dating, RowsAreDated, SameRow
<1>3. Speaks(f, k)
  BY <1>1 DEF Said, Speaks
<1> HIDE DEF f
<1> QED BY <1>1, <1>2, <1>3, SpeakingOfOneDates

LEMMA ManualRowIs ==
    ASSUME NEW n, NEW text, NEW scope, NEW scopeId, NEW previous
    PROVE  LET m == ManualRow(n, text, scope, scopeId, previous)
           IN  IsRow(m) /\ Manual(m.id) /\ m.createdAt = clock + 1 /\ m.id.topic.manual = n
BY DEF ManualRow, IsRow, Manual

LEMMA ResolveDates == ASSUME Dating, Resolve PROVE Dating'
<1> DEFINE k == review.row.id
           f == Said(k, "user", "confirm", 1000 + Cardinality(feedback), review.unresolved, FALSE)
           x == InState(Row(k), "superseded")
           n == 1 + Cardinality(feedback)
           m == ManualRow(n, Row(k).content, Row(k).scope, Row(k).scopeId, k)
<1>1. k \in RowIds
  BY DEF Resolve, Current, RowIds
<1>2. Row(k) \in rows /\ Row(k).id = k /\ IsRow(Row(k))
  BY <1>1, RowIs DEF Dating, RowsAreDated
<1>3. /\ feedback' = feedback \cup {f} /\ clock' = clock + 1
      /\ UNCHANGED <<script, turn, log, keys, worker>>
      /\ receipts' = receipts \cup {k}
      /\ rows' = (rows \ {Row(k)}) \cup {x, m}
  <2>1. feedback' = feedback \cup {f}
    <3>1. feedback' = feedback \cup {Said(Row(k).id, "user", "confirm", 1000 + Cardinality(feedback),
                                          review.unresolved, FALSE)}
      BY Zenon DEF Resolve
    <3> QED BY <1>2, <3>1
  <2>2. receipts' = receipts \cup {k}
    BY <1>2, Zenon DEF Resolve
  <2>3. rows' = (rows \ {Row(k)}) \cup {x, m}
    BY <1>2, Zenon DEF Resolve, InState
  <2>4. clock' = clock + 1 /\ UNCHANGED <<script, turn, log, keys, worker>>
    BY DEF Resolve, facts, derived
  <2> QED BY <2>1, <2>2, <2>3, <2>4
<1>4. SameRow(Row(k), x) /\ x.state = "superseded"
  BY <1>2, InStateIs
<1>5. Speaks(f, k)
  BY <1>1, <1>3 DEF Said, Speaks
<1> HIDE DEF f, k
<1>6. Cardinality(feedback') = Cardinality(feedback) + 1 /\ Cardinality(feedback) \in Nat
  BY <1>5, SpokenIsLater
<1>7. IsRow(m) /\ Manual(m.id) /\ m.createdAt = clock' /\ m.id.topic.manual = n
  BY <1>3, ManualRowIs
<1> HIDE DEF x, m
<1>8. \A r \in rows : r.id # m.id
  <2> SUFFICES ASSUME NEW r \in rows, r.id = m.id PROVE FALSE
    OBVIOUS
  <2>1. PICK i \in 0..Cardinality(feedback) : r.id.topic.manual = i
    BY <1>7 DEF Dating, RowsAreDated
  <2> QED BY <1>6, <1>7, <2>1
<1>9. m.id \notin receipts'
  <2>1. m.id \notin RowIds
    BY <1>8 DEF RowIds
  <2> QED BY <1>1, <1>3, <1>7, <2>1 DEF Dating, ReceiptsAreKept
<1>10. UniqueIds(rows')
  BY <1>2, <1>3, <1>4, <1>8 DEF Dating, RowsAreDated, UniqueIds, SameRow
<1>11. \A r \in rows : SameRow(r, r)
  BY DEF Dating, RowsAreDated, SameRow
<1>12. \A r \in rows : \E s \in rows' : SameRow(r, s)
  BY <1>3, <1>4, <1>11
<1>13. \A r \in rows \ {Row(k)} : Lasting(r, r)
  <2> SUFFICES ASSUME NEW r \in rows \ {Row(k)} PROVE r.id \in receipts' => r.state \in {"superseded", "archived"}
    BY <1>11 DEF Lasting
  <2>1. r.id # k
    BY <1>2 DEF Dating, RowsAreDated, UniqueIds
  <2> QED BY <1>3, <2>1 DEF Dating, ReplacedStays
<1>14. Lasting(Row(k), x)
  BY <1>4 DEF Lasting
<1>15. m.id.topic.manual \in 0..Cardinality(feedback')
  BY <1>6, <1>7
<1>16. \A s \in rows' :
          \/ \E r \in rows : Lasting(r, s)
          \/ /\ IsRow(s) /\ Manual(s.id) /\ s.createdAt = clock' /\ s.id \notin receipts'
             /\ s.id.topic.manual \in 0..Cardinality(feedback')
  <2> SUFFICES ASSUME NEW s \in rows', s # m PROVE \E r \in rows : Lasting(r, s)
    BY <1>7, <1>9, <1>15
  <2> QED BY <1>2, <1>3, <1>13, <1>14
<1> QED BY <1>1, <1>3, <1>5, <1>10, <1>12, <1>16, SpeakingDates

\* What the user has remembered is a row more.
LEMMA RememberDates == ASSUME Dating, NEW text, Remember(text) PROVE Dating'
<1>0. PICK m : m = ManualRow(0, text, "personal", None, None)
  OBVIOUS
<1>1. /\ \A r \in rows : r.id # m.id
      /\ rows' = rows \cup {m} /\ clock' = clock + 1
      /\ UNCHANGED <<script, turn, log, keys, worker, feedback, receipts>>
  BY <1>0 DEF Remember, facts, told, derived
<1>2. IsRow(m) /\ Manual(m.id) /\ m.createdAt = clock' /\ m.id.topic.manual = 0
  BY <1>0, <1>1, ManualRowIs
<1>3. clock \in Nat /\ clock' \in Nat /\ clock <= clock'
  BY <1>1 DEF Dating, Clocked
<1>4. Clocked' /\ LogGrows
  BY <1>1, <1>3, StaysClocked DEF Dating, Clocked
<1>5. \A c : Dated(c) => Dated(c)'
  BY <1>4, DatedStays DEF Dating
<1>6. KeysAreDated'
  BY <1>1, <1>5 DEF Dating, KeysAreDated, UniqueIds, Manual
<1>7. ComputedAreDated'
  BY <1>1, <1>5 DEF Dating, ComputedAreDated, UniqueIds, Manual, IsRow
<1>8. Dated(m)'
  BY <1>2, <1>3 DEF Dated, Manual
<1>9. Cardinality(feedback) \in Nat
  BY FS_CardinalityType DEF Dating, Clocked
<1>10. RowsAreDated'
  <2>1. UniqueIds(rows')
    BY <1>1 DEF Dating, RowsAreDated, UniqueIds
  <2>2. 0 \in 0..Cardinality(feedback)
    BY <1>9
  <2>3. \A r \in rows' : /\ IsRow(r) /\ Dated(r)'
                         /\ Manual(r.id) => \E i \in 0..Cardinality(feedback) : r.id.topic.manual = i
    BY <1>1, <1>2, <1>5, <1>8, <2>2 DEF Dating, RowsAreDated
  <2> QED BY <1>1, <2>1, <2>3 DEF RowsAreDated, UniqueIds, IsRow, Manual
<1>11. FeedbackIsFounded'
  <2> SUFFICES ASSUME NEW f \in feedback PROVE f.at \in Nat /\ f.at <= clock' /\ Founded(f.target, f.at)'
    BY <1>1 DEF FeedbackIsFounded
  <2>1. f.at \in Nat /\ f.at <= clock /\ Founded(f.target, f.at)
    BY DEF Dating, FeedbackIsFounded
  <2>2. f.at <= clock'
    BY ONLY <1>3, <2>1
  <2> QED BY <1>1, <1>4, <2>1, <2>2, CorrectionsStay DEF Founded, Manual
<1>12. m.id \notin receipts
  BY <1>1, <1>2 DEF Dating, ReceiptsAreKept, RowIds
<1>13. ReceiptsAreKept' /\ ReplacedStays'
  BY <1>1, <1>12 DEF Dating, ReceiptsAreKept, ReplacedStays, RowIds, Manual
<1> QED BY <1>4, <1>6, <1>7, <1>10, <1>11, <1>13 DEF Dating

-------------------------------------------------------------------------------
(* What the requests are given *)

SameUse(u, w) == IsUse(w) /\ w.session = u.session /\ w.returned = u.returned

LEMMA BoundIs == ASSUME NEW u, IsUse(u), NEW xs PROVE SameUse(u, Bound(u, xs))
<1> DEFINE j == Bound(u, xs)
<1>1. \E e : j = [u EXCEPT !.episode = e]
  BY Zenon DEF Bound
<1> HIDE DEF j
<1>2. PICK e : j = [u EXCEPT !.episode = e]
  BY <1>1
<1>3. /\ j = [f \in DOMAIN j |-> j[f]] /\ DOMAIN j = DOMAIN u
      /\ j.session = u.session /\ j.returned = u.returned
  BY <1>2 DEF IsUse
<1> QED BY <1>3 DEF IsUse, SameUse, j

\* Steps that take nothing from the records of use, whatever is said since.
LEMMA ServedStays ==
    ASSUME Dating, RequestsAreServed, ReturnedOnce, request' = request,
           clock' \in Nat, clock <= clock', feedback \subseteq feedback',
           \A f \in feedback' \ feedback : f.at \in Nat /\ clock < f.at,
           \A w \in uses' : \E u \in uses : SameUse(u, w),
           \A w, x \in uses' : w # x => \E u, v \in uses : u # v /\ SameUse(u, w) /\ SameUse(v, x)
    PROVE  RequestsAreServed' /\ ReturnedOnce'
<1>1. ReturnedOnce'
  BY DEF ReturnedOnce, SameUse
<1>2. \A w \in uses' : IsUse(w)
  BY DEF SameUse
<1>3. ASSUME NEW q \in Requests, Active(q)
      PROVE  /\ request[q].time <= clock'
             /\ \A u \in uses' : u.session = request[q].ask.session => u.returned \subseteq request[q].previous
  <2>1. request[q].time \in Nat /\ request[q].time <= clock /\ clock \in Nat
    BY <1>3 DEF RequestsAreServed, Dating, Clocked
  <2>2. request[q].time <= clock'
    BY ONLY <2>1, clock' \in Nat, clock <= clock'
  <2> QED BY <1>3, <2>2 DEF RequestsAreServed, SameUse
<1>4. ASSUME NEW q \in Requests, request[q].at = "found", NEW k \in request[q].items
      PROVE  AnsweredUntil(k, request[q].time)'
  <2>1. Active(q) /\ AnsweredUntil(k, request[q].time)
    BY <1>4 DEF RequestsAreServed, Active
  <2>2. request[q].time \in Nat /\ request[q].time <= clock /\ clock \in Nat
    BY <2>1 DEF RequestsAreServed, Dating, Clocked
  <2>3. \A f \in feedback' : f.at <= request[q].time => f \in feedback
    <3> SUFFICES ASSUME NEW f \in feedback' \ feedback, f.at <= request[q].time PROVE FALSE
      OBVIOUS
    <3>1. f.at \in Nat /\ clock < f.at
      OBVIOUS
    <3> QED BY ONLY <2>2, <3>1, f.at <= request[q].time
  <2> QED BY <2>1, <2>3 DEF AnsweredUntil
<1> QED BY <1>1, <1>2, <1>3, <1>4 DEF RequestsAreServed, Active, IsUse

\* Steps that only let time pass.
LEMMA PassingServes ==
    ASSUME Dating, RequestsAreServed, ReturnedOnce, clock' \in Nat, clock <= clock',
           UNCHANGED <<request, feedback, uses>>
    PROVE  RequestsAreServed' /\ ReturnedOnce'
<1>1. \A u \in uses : SameUse(u, u)
  BY DEF RequestsAreServed, SameUse
<1> QED BY <1>1, ServedStays

LEMMA RegroupServes ==
    ASSUME Dating, RequestsAreServed, ReturnedOnce, clock' \in Nat, clock <= clock',
           UNCHANGED <<request, feedback>>, NEW taken, Regroup(taken)
    PROVE  RequestsAreServed' /\ ReturnedOnce'
<1>1. PICK xs : uses' = {Bound(u, xs) : u \in uses}
  BY DEF Regroup
<1>2. \A u \in uses : SameUse(u, Bound(u, xs))
  BY BoundIs DEF RequestsAreServed
<1>3. \A w \in uses' : \E u \in uses : SameUse(u, w)
  BY <1>1, <1>2
<1>4. \A w, x \in uses' : w # x => \E u, v \in uses : u # v /\ SameUse(u, w) /\ SameUse(v, x)
  <2> SUFFICES ASSUME NEW u \in uses, NEW v \in uses, Bound(u, xs) # Bound(v, xs)
               PROVE  u # v /\ SameUse(u, Bound(u, xs)) /\ SameUse(v, Bound(v, xs))
    BY <1>1
  <2> QED BY <1>2
<1> QED BY <1>3, <1>4, ServedStays

\* A word, which a session may add to the record of what it was given.
LEMMA SpeakingServes ==
    ASSUME Dating, RequestsAreServed, ReturnedOnce, request' = request, NEW f, NEW k, Speaks(f, k),
           \/ uses' = uses
           \/ \E u \in uses : \E a : uses' = (uses \ {u}) \cup {[u EXCEPT !.applied = a]}
    PROVE  RequestsAreServed' /\ ReturnedOnce'
<1>1. clock \in Nat /\ clock' \in Nat /\ clock <= clock' /\ f.at = clock' /\ clock < clock'
  BY DEF Speaks, Dating, Clocked
<1>2. feedback \subseteq feedback' /\ \A g \in feedback' \ feedback : g.at \in Nat /\ clock < g.at
  BY <1>1 DEF Speaks
<1>3. \A u \in uses : SameUse(u, u)
  BY DEF RequestsAreServed, SameUse
<1>4. CASE uses' = uses
  BY <1>1, <1>2, <1>3, <1>4, ServedStays
<1>5. CASE \E u \in uses : \E a : uses' = (uses \ {u}) \cup {[u EXCEPT !.applied = a]}
  <2>1. PICK u \in uses : \E a : uses' = (uses \ {u}) \cup {[u EXCEPT !.applied = a]}
    BY <1>5
  <2>0. PICK a : uses' = (uses \ {u}) \cup {[u EXCEPT !.applied = a]}
    BY <2>1
  <2> DEFINE j == [u EXCEPT !.applied = a]
  <2>2. /\ j = [x \in DOMAIN j |-> j[x]] /\ DOMAIN j = DOMAIN u
        /\ j.session = u.session /\ j.returned = u.returned
    BY DEF RequestsAreServed, IsUse
  <2>3. SameUse(u, j)
    BY <2>2 DEF RequestsAreServed, IsUse, SameUse
  <2> HIDE DEF j
  <2>4. uses' = (uses \ {u}) \cup {j}
    BY <2>0 DEF j
  <2>5. \A w \in uses' : \E v \in uses : SameUse(v, w)
    BY <1>3, <2>3, <2>4
  <2>6. \A w, x \in uses' : w # x => \E v, y \in uses : v # y /\ SameUse(v, w) /\ SameUse(y, x)
    <3> SUFFICES ASSUME NEW w \in uses', NEW x \in uses', w # x
                 PROVE  \E v, y \in uses : v # y /\ SameUse(v, w) /\ SameUse(y, x)
      OBVIOUS
    <3>1. CASE w \in uses \ {u} /\ x \in uses \ {u}
      BY <1>3, <3>1
    <3>2. CASE w \in uses \ {u} /\ x = j
      BY <1>3, <2>3, <3>2
    <3>3. CASE w = j /\ x \in uses \ {u}
      BY <1>3, <2>3, <3>3
    <3> QED BY <2>4, <3>1, <3>2, <3>3
  <2> QED BY <1>1, <1>2, <2>5, <2>6, ServedStays
<1> QED BY <1>4, <1>5

LEMMA UsedIs ==
    ASSUME NEW q, NEW ask, NEW at, NEW items, NEW candidates
    PROVE  LET u == Used(q, ask, at, items, candidates)
           IN  IsUse(u) /\ u.session = ask.session /\ u.returned = items
BY DEF Used, IsUse

LEMMA StartServes ==
    ASSUME Dating, RequestsAreServed, ReturnedOnce, NEW q \in Requests, NEW ask, Start(q, ask)
    PROVE  RequestsAreServed' /\ ReturnedOnce'
<1>1. UNCHANGED <<clock, feedback>> /\ request[q].at = "new" /\ Free(ask.session)
  BY DEF Start, told
<1>2. ~ Active(q) /\ \A o \in Requests : Active(o) => request[o].ask.session # ask.session
  BY <1>1 DEF Active, Free
<1>3. CASE ask.session \in muted
  <2>1. PICK w : w = Used(q, ask, clock, {}, {})
    OBVIOUS
  <2>2. request' = [request EXCEPT ![q] = [at |-> "done"]] /\ uses' = uses \cup {w}
    BY <1>3, <2>1 DEF Start
  <2>3. IsUse(w) /\ w.returned = {}
    BY <2>1, UsedIs
  <2>4. /\ request' = [o \in Requests |-> request'[o]]
        /\ \A o \in Requests : request'[o] = IF o = q THEN [at |-> "done"] ELSE request[o]
    BY <2>2 DEF RequestsAreServed
  <2>5. \A o \in Requests : Active(o)' => o # q /\ Active(o) /\ request'[o] = request[o]
    BY <2>4 DEF Active
  <2>6. \A o \in Requests : request'[o].at = "found" => request'[o] = request[o] /\ Active(o)
    BY <2>4 DEF Active
  <2>7. ReturnedOnce'
    BY <2>2, <2>3 DEF ReturnedOnce
  <2> QED BY <1>1, <2>2, <2>3, <2>4, <2>5, <2>6, <2>7 DEF RequestsAreServed, AnsweredUntil, IsUse
<1>4. CASE ask.session \notin muted
  <2>1. PICK r : r = [at |-> "searching", ask |-> ask, time |-> clock,
                      previous |-> ReturnedTo(ask.session), items |-> {}]
    OBVIOUS
  <2>2. request' = [request EXCEPT ![q] = r] /\ uses' = uses
    BY <1>4, <2>1 DEF Start
  <2>3. /\ request' = [o \in Requests |-> request'[o]]
        /\ \A o \in Requests : request'[o] = IF o = q THEN r ELSE request[o]
    BY <2>2 DEF RequestsAreServed
  <2>4. /\ {"at", "ask", "time", "previous", "items"} \subseteq DOMAIN r
        /\ r.at = "searching" /\ r.ask = ask /\ r.time \in Nat /\ r.time <= clock
        /\ \A u \in uses : u.session = ask.session => u.returned \subseteq r.previous
    BY <2>1 DEF ReturnedTo, Dating, Clocked
  <2>5. \A o \in Requests : o # q => (Active(o)' <=> Active(o)) /\ request'[o] = request[o]
    BY <2>3 DEF Active
  <2>6. request'[q] = r
    BY <2>3
  <2>7. ASSUME NEW o \in Requests, NEW p \in Requests, o # p, Active(o)', Active(p)'
        PROVE  request'[o].ask.session # request'[p].ask.session
    BY <1>2, <2>4, <2>5, <2>6, <2>7 DEF RequestsAreServed
  <2>8. ASSUME NEW o \in Requests, Active(o)'
        PROVE  /\ {"at", "ask", "time", "previous", "items"} \subseteq DOMAIN request'[o]
               /\ request'[o].time \in Nat /\ request'[o].time <= clock
               /\ \A u \in uses : u.session = request'[o].ask.session => u.returned \subseteq request'[o].previous
    <3>1. CASE o = q
      BY <2>4, <2>6, <3>1
    <3>2. CASE o # q
      <4>1. Active(o) /\ request'[o] = request[o]
        BY <2>5, <2>8, <3>2
      <4> QED BY <4>1 DEF RequestsAreServed
    <3> QED BY <3>1, <3>2
  <2>9. ASSUME NEW o \in Requests, request'[o].at = "found"
        PROVE  /\ request'[o].items \cap request'[o].previous = {}
               /\ \A k \in request'[o].items : AnsweredUntil(k, request'[o].time)
    <3>1. o # q
      BY <2>4, <2>6, <2>9
    <3>2. request'[o] = request[o]
      BY <2>5, <3>1
    <3> QED BY <2>9, <3>2 DEF RequestsAreServed
  <2>10. UNCHANGED <<clock, feedback, uses>>
    BY <1>1, <2>2
  <2>11. ReturnedOnce'
    BY <2>10 DEF ReturnedOnce
  <2>12. request' = [o \in Requests |-> request'[o]]
    BY <2>3
  <2> QED BY <2>7, <2>8, <2>9, <2>10, <2>11, <2>12 DEF RequestsAreServed, AnsweredUntil, IsUse
<1> QED BY <1>3, <1>4

\* What is admitted has had an answer to all that was said against it.
LEMMA AdmittedIsAnswered ==
    ASSUME Dating, NEW r \in rows, Admitted(r), NEW t PROVE AnsweredUntil(r.id, t)
<1> SUFFICES ASSUME NEW f \in feedback, f.target = r.id, f.kind \in Against, f.at <= t
             PROVE  \E y \in feedback : /\ y.target = r.id /\ y.kind = "confirm" /\ y.source = "user"
                                        /\ f.id \in y.resolves /\ f.at < y.at
  BY DEF AnsweredUntil
<1> DEFINE read == AdmissionEvidence(r)
           counters == directKnowledgeCounterevidence(r.evidence, r.createdAt, read.log)
<1>1. Reasons(r, keys, read.episodes, read.log, feedback, read.uses) = {}
  BY Zenon DEF Admitted
<1> HIDE DEF read
<1>2. Unresolved(r.id, r.createdAt, counters, feedback) = {}
  <2> SUFFICES ASSUME Unresolved(r.id, r.createdAt, counters, feedback) # {} PROVE FALSE
    OBVIOUS
  <2>1. "unresolved_counterevidence" \in Reasons(r, keys, read.episodes, read.log, feedback, read.uses)
    BY Zenon DEF Reasons
  <2> QED BY <1>1, <2>1
<1> HIDE DEF counters
<1>3. Founded(r.id, f.at) /\ f.at \in Nat
  BY DEF Dating, FeedbackIsFounded
<1>4. IsRow(r) /\ Dated(r) /\ UniqueIds(rows)
  BY DEF Dating, RowsAreDated
<1>5. r.createdAt <= f.at
  <2>1. CASE Manual(r.id)
    BY <1>3, <1>4, <2>1 DEF Founded, UniqueIds
  <2>2. CASE ~ Manual(r.id)
    <3>1. PICK e \in CorrectionsOf(r.id) : e.at <= f.at
      BY <1>3, <2>2 DEF Founded
    <3>2. r.createdAt \in Nat /\ r.createdAt <= e.at
      BY <1>4, <2>2 DEF Dated
    <3>3. e.at \in Nat
      BY DEF CorrectionsOf, parsedCorrections, Dating, Clocked
    <3> QED BY ONLY <1>3, <3>1, <3>2, <3>3
  <2> QED BY <2>1, <2>2
<1>6. f \in About(r.id, r.createdAt, feedback)
  BY <1>5 DEF About
<1>7. PICK y \in About(r.id, r.createdAt, feedback) :
         y.kind = "confirm" /\ y.source = "user" /\ f.id \in y.resolves /\ f.at < y.at
  BY <1>2, <1>6 DEF Unresolved
<1> QED BY <1>7 DEF About

LEMMA FindServes ==
    ASSUME Dating, RequestsAreServed, ReturnedOnce, NEW q \in Requests, Find(q)
    PROVE  RequestsAreServed' /\ ReturnedOnce'
<1>1. UNCHANGED <<clock, feedback, uses>> /\ request[q].at = "searching"
  BY DEF Find, told
<1>2. PICK found \in SUBSET {r \in rows : /\ Eligible(r, request[q].ask)
                                          /\ ~ Unavailable(r) /\ Admitted(r)
                                          /\ r.id \notin request[q].previous} :
         request' = [request EXCEPT ![q].at = "found", ![q].items = {r.id : r \in found}]
  BY Zenon DEF Find
<1>3. /\ \A k \in {r.id : r \in found} : AnsweredUntil(k, request[q].time)
      /\ {r.id : r \in found} \cap request[q].previous = {}
  BY <1>2, AdmittedIsAnswered
<1>4. PICK items : items = {r.id : r \in found}
  OBVIOUS
<1>5. Active(q) /\ {"at", "ask", "time", "previous", "items"} \subseteq DOMAIN request[q]
  BY <1>1 DEF Active, RequestsAreServed
<1>6. request' = [request EXCEPT ![q].at = "found", ![q].items = items]
  BY <1>2, <1>4
<1>7. /\ request' = [o \in Requests |-> request'[o]]
      /\ \A o \in Requests : o # q => request'[o] = request[o]
      /\ request'[q] = [request[q] EXCEPT !.at = "found", !.items = items]
  BY <1>6 DEF RequestsAreServed
<1>8. /\ DOMAIN request'[q] = DOMAIN request[q]
      /\ request'[q].at = "found" /\ request'[q].items = items /\ request'[q].ask = request[q].ask
      /\ request'[q].time = request[q].time /\ request'[q].previous = request[q].previous
  BY <1>5, <1>7
<1>9. \A o \in Requests : Active(o)' <=> Active(o)
  BY <1>5, <1>7, <1>8 DEF Active
<1>10. ASSUME NEW o \in Requests, NEW p \in Requests, o # p, Active(o)', Active(p)'
       PROVE  request'[o].ask.session # request'[p].ask.session
  <2>1. Active(o) /\ Active(p)
    BY <1>9, <1>10
  <2>2. request'[o].ask = request[o].ask /\ request'[p].ask = request[p].ask
    BY <1>7, <1>8
  <2> QED BY <1>10, <2>1, <2>2 DEF RequestsAreServed
<1>11. ASSUME NEW o \in Requests, Active(o)'
       PROVE  /\ {"at", "ask", "time", "previous", "items"} \subseteq DOMAIN request'[o]
              /\ request'[o].time \in Nat /\ request'[o].time <= clock
              /\ \A u \in uses : u.session = request'[o].ask.session => u.returned \subseteq request'[o].previous
  <2>1. Active(o)
    BY <1>9, <1>11
  <2>2. /\ DOMAIN request'[o] = DOMAIN request[o] /\ request'[o].time = request[o].time
        /\ request'[o].ask = request[o].ask /\ request'[o].previous = request[o].previous
    BY <1>7, <1>8
  <2> QED BY <2>1, <2>2 DEF RequestsAreServed
<1>12. ASSUME NEW o \in Requests, request'[o].at = "found"
       PROVE  /\ request'[o].items \cap request'[o].previous = {}
              /\ \A k \in request'[o].items : AnsweredUntil(k, request'[o].time)
  <2>1. CASE o = q
    BY <1>3, <1>4, <1>8, <2>1
  <2>2. CASE o # q
    <3>1. request'[o] = request[o]
      BY <1>7, <2>2
    <3> QED BY <1>12, <3>1 DEF RequestsAreServed
  <2> QED BY <2>1, <2>2
<1>13. ReturnedOnce'
  BY <1>1 DEF ReturnedOnce
<1> QED BY <1>1, <1>7, <1>10, <1>11, <1>12, <1>13 DEF RequestsAreServed, AnsweredUntil, IsUse

LEMMA ReturnServes ==
    ASSUME Dating, RequestsAreServed, ReturnedOnce, NEW q \in Requests, Return(q)
    PROVE  RequestsAreServed' /\ ReturnedOnce'
<1>1. UNCHANGED <<clock, feedback>> /\ request[q].at = "found" /\ Active(q)
  BY DEF Return, told, Active
<1>2. PICK w : w = Used(q, request[q].ask, request[q].time, request[q].items, request[q].items)
  OBVIOUS
<1>3. uses' = uses \cup {w} /\ request' = [request EXCEPT ![q] = [at |-> "done"]]
  BY <1>2 DEF Return
<1>4. IsUse(w) /\ w.session = request[q].ask.session /\ w.returned = request[q].items
  BY <1>2, UsedIs
<1>5. /\ request' = [o \in Requests |-> request'[o]]
      /\ \A o \in Requests : request'[o] = IF o = q THEN [at |-> "done"] ELSE request[o]
  BY <1>3 DEF RequestsAreServed
<1>6. \A o \in Requests : Active(o)' => o # q /\ Active(o) /\ request'[o] = request[o]
  BY <1>5 DEF Active
<1>7. \A o \in Requests : request'[o].at = "found" => request'[o] = request[o]
  BY <1>5
<1>8. \A u \in uses : u.session = w.session => u.returned \cap w.returned = {}
  BY <1>1, <1>4 DEF RequestsAreServed
<1>9. ReturnedOnce'
  BY <1>3, <1>8 DEF ReturnedOnce
<1>10. \A o \in Requests : Active(o)' => request'[o].ask.session # w.session
  BY <1>1, <1>4, <1>6 DEF RequestsAreServed
<1> QED BY <1>1, <1>3, <1>4, <1>5, <1>6, <1>7, <1>9, <1>10 DEF RequestsAreServed, AnsweredUntil, IsUse
-------------------------------------------------------------------------------
(* The invariant *)

LEMMA KnowledgeStarts == ASSUME Init PROVE KnowledgeInv
<1>1. Clocked
  BY FS_EmptySet DEF Init, Clocked
<1>2. /\ KeysAreDated /\ ComputedAreDated /\ RowsAreDated /\ FeedbackIsFounded /\ ReceiptsAreKept
      /\ ReplacedStays /\ ReturnedOnce
  BY DEF Init, Idle, KeysAreDated, ComputedAreDated, RowsAreDated, FeedbackIsFounded, ReceiptsAreKept,
         ReplacedStays, ReturnedOnce, UniqueIds
<1>3. RequestsAreServed
  BY DEF Init, RequestsAreServed, Active
<1> QED BY <1>1, <1>2, <1>3 DEF KnowledgeInv, Dating

LEMMA KnowledgeContinues == ASSUME KnowledgeInv, Next PROVE KnowledgeInv'
<1> USE DEF KnowledgeInv
<1>1. ASSUME NEW s \in Sessions, NEW gap \in script.gaps, Capture(s, gap) PROVE KnowledgeInv'
  <2>1. Dating' /\ clock <= clock'
    BY <1>1, CaptureDates
  <2>2. UNCHANGED <<request, feedback, uses>>
    BY <1>1 DEF Capture, told
  <2> QED BY <2>1, <2>2, PassingServes DEF Dating, Clocked
<1>2. CASE Group
  <2>1. Dating' /\ UNCHANGED <<clock, request, feedback>> /\ Regroup(decisions)
    BY <1>2, GroupDates DEF Group, told
  <2>2. clock' \in Nat /\ clock <= clock'
    BY <2>1 DEF Dating, Clocked
  <2> QED BY <2>1, <2>2, RegroupServes
<1>3. ASSUME NEW p, NEW action, Decide(p, action) PROVE KnowledgeInv'
  <2>1. Dating' /\ clock' = clock + 1 /\ UNCHANGED <<request, feedback>> /\ \E taken : Regroup(taken)
    BY <1>3, DecideDates DEF Decide, told
  <2>2. clock' \in Nat /\ clock <= clock'
    BY <2>1 DEF Dating, Clocked
  <2> QED BY <2>1, <2>2, RegroupServes
<1>4. CASE Correct \/ Read \/ Write \/ Stop
  <2>1. Dating'
    BY <1>4, CorrectDates, ReadDates, WriteDates, GroupDates
  <2>2. UNCHANGED <<clock, request, feedback, uses>>
    BY <1>4 DEF Correct, Read, Write, Stop, told
  <2>3. clock' \in Nat /\ clock <= clock'
    BY <2>2 DEF Dating, Clocked
  <2> QED BY <2>1, <2>2, <2>3, PassingServes
<1>5. ASSUME NEW q \in Requests, (\E ask : Start(q, ask)) \/ Find(q) \/ Return(q) PROVE KnowledgeInv'
  <2>1. UNCHANGED <<script, turn, clock, log, keys, worker, rows, feedback, receipts>>
    BY <1>5 DEF Start, Find, Return, facts, derived, told
  <2>2. Dating'
    BY <2>1, OthersDate
  <2> QED BY <1>5, <2>2, StartServes, FindServes, ReturnServes
<1>6. ASSUME NEW u \in uses, NEW k, NEW source, NEW action, NEW resolves, NEW applied,
             Judge(u, k, source, action, resolves, applied)
      PROVE  KnowledgeInv'
  <2>1. Dating'
    BY <1>6, JudgeDates
  <2>2. PICK f : f = Said(k, source, action, u.id, resolves, applied /\ source = "user")
    OBVIOUS
  <2>3. /\ k \in RowIds /\ feedback' = feedback \cup {f} /\ clock' = clock + 1
        /\ UNCHANGED <<script, turn, log, keys, worker, request>>
        /\ uses' = uses \/ uses' = (uses \ {u}) \cup {[u EXCEPT !.applied = @ \cup {k}]}
    BY <1>6, <2>2 DEF Judge, facts, derived
  <2>4. Speaks(f, k)
    BY <2>2, <2>3 DEF Said, Speaks
  <2>5. [u EXCEPT !.applied = @ \cup {k}] = [u EXCEPT !.applied = u.applied \cup {k}]
    OBVIOUS
  <2> QED BY <2>1, <2>3, <2>4, <2>5, SpeakingServes
<1>7. ASSUME NEW r \in rows, Review(r) PROVE KnowledgeInv'
  <2>1. UNCHANGED <<script, turn, clock, log, keys, worker, rows, feedback, receipts, request, uses>>
    BY <1>7 DEF Review, facts, derived, told
  <2>2. Dating' /\ clock' \in Nat /\ clock <= clock'
    BY <2>1, OthersDate DEF Dating, Clocked
  <2> QED BY <2>1, <2>2, PassingServes
<1>8. CASE Revoke
  <2>1. PICK k, f : k = review.row.id /\ f = Said(k, "user", "revoke", 1000 + Cardinality(feedback), {}, FALSE)
    OBVIOUS
  <2>2. /\ k \in RowIds /\ feedback' = feedback \cup {f} /\ clock' = clock + 1
        /\ UNCHANGED <<script, turn, log, keys, worker, request, uses>>
    BY <1>8, <2>1 DEF Revoke, Current, RowIds, facts, derived
  <2>3. Speaks(f, k)
    BY <2>1, <2>2 DEF Said, Speaks
  <2> QED BY <1>8, <2>2, <2>3, RevokeDates, SpeakingServes
<1>9. CASE Resolve
  <2> DEFINE k == review.row.id
             f == Said(k, "user", "confirm", 1000 + Cardinality(feedback), review.unresolved, FALSE)
  <2>1. k \in RowIds
    BY <1>9 DEF Resolve, Current, RowIds
  <2>2. Row(k).id = k
    BY <2>1, RowIs DEF Dating
  <2>3. /\ feedback' = feedback \cup {f} /\ clock' = clock + 1
        /\ UNCHANGED <<script, turn, log, keys, worker, request, uses>>
    <3>1. feedback' = feedback \cup {f}
      <4>1. feedback' = feedback \cup {Said(Row(k).id, "user", "confirm", 1000 + Cardinality(feedback),
                                            review.unresolved, FALSE)}
        BY <1>9, Zenon DEF Resolve
      <4> QED BY <2>2, <4>1
    <3>2. clock' = clock + 1 /\ UNCHANGED <<script, turn, log, keys, worker, request, uses>>
      BY <1>9 DEF Resolve, facts, derived
    <3> QED BY <3>1, <3>2
  <2>4. Speaks(f, k)
    BY <2>1, <2>3 DEF Said, Speaks
  <2> HIDE DEF k, f
  <2>5. Dating'
    BY <1>9, ResolveDates
  <2> QED BY <2>3, <2>4, <2>5, SpeakingServes
<1>10. ASSUME NEW k \in RowIds, Dispute(k) PROVE KnowledgeInv'
  <2>1. PICK f : f = Said(k, "user", "wrong", 1000 + Cardinality(feedback), {}, FALSE)
    OBVIOUS
  <2>2. /\ feedback' = feedback \cup {f} /\ clock' = clock + 1
        /\ UNCHANGED <<script, turn, log, keys, worker, request, uses>>
    BY <1>10, <2>1 DEF Dispute, facts, derived
  <2>3. Speaks(f, k)
    BY <2>1, <2>2 DEF Said, Speaks
  <2> QED BY <1>10, <2>2, <2>3, DisputeDates, SpeakingServes
<1>11. ASSUME NEW k \in RowIds, NEW s, Mute(k, s) PROVE KnowledgeInv'
  <2>1. PICK f : f = Said(k, "user", "mute_session", 1000 + Cardinality(feedback), {}, FALSE)
    OBVIOUS
  <2>2. /\ feedback' = feedback \cup {f} /\ clock' = clock + 1
        /\ UNCHANGED <<script, turn, log, keys, worker, request, uses>>
    BY <1>11, <2>1 DEF Mute, facts, derived
  <2>3. Speaks(f, k)
    BY <2>1, <2>2 DEF Said, Speaks
  <2> QED BY <1>11, <2>2, <2>3, MuteDates, SpeakingServes
<1>12. ASSUME NEW text, Remember(text) PROVE KnowledgeInv'
  <2>1. Dating' /\ clock' = clock + 1 /\ UNCHANGED <<request, feedback, uses>>
    BY <1>12, RememberDates DEF Remember, told
  <2>2. clock' \in Nat /\ clock <= clock'
    BY <2>1 DEF Dating, Clocked
  <2> QED BY <2>1, <2>2, PassingServes
<1> QED BY <1>1, <1>2, <1>3, <1>4, <1>5, <1>6, <1>7, <1>8, <1>9, <1>10, <1>11, <1>12 DEF Next, WorkerStep

LEMMA KnowledgePauses == ASSUME KnowledgeInv, UNCHANGED vars PROVE KnowledgeInv'
<1>1. UNCHANGED <<script, turn, clock, log, keys, worker, rows, feedback, receipts, request, uses>>
  BY DEF vars
<1>2. Dating' /\ clock' \in Nat /\ clock <= clock'
  BY <1>1, OthersDate DEF KnowledgeInv, Dating, Clocked
<1> QED BY <1>1, <1>2, PassingServes DEF KnowledgeInv

\* What the proofs of the properties rest on: everything is dated, named and
\* founded on what was captured or said, and requests know what they must.
THEOREM KnowledgeInvariantHolds == Spec => []KnowledgeInv
<1>1. Init => KnowledgeInv
  BY KnowledgeStarts
<1>2. KnowledgeInv /\ [Next]_vars => KnowledgeInv'
  BY KnowledgeContinues, KnowledgePauses
<1> QED BY <1>1, <1>2, PTL DEF Spec

\* Whatever the sessions ask and in whichever order their requests are
\* overtaken, no session is given the same piece of knowledge twice
\* (withSessionLock, automaticContext).
THEOREM RepliesDoNotRepeat == Spec => []ReturnedOnce
<1>1. KnowledgeInv => ReturnedOnce
  BY DEF KnowledgeInv
<1> QED BY <1>1, KnowledgeInvariantHolds, PTL

\* What a confirmed rule has replaced stays replaced, through every rebuild and
\* whatever is said of it later (#retainSupersededKnowledge).
THEOREM ReplacedKnowledgeStays == Spec => []ReplacedStays
<1>1. KnowledgeInv => ReplacedStays
  BY DEF KnowledgeInv, Dating
<1> QED BY <1>1, KnowledgeInvariantHolds, PTL

\* No request returns what was spoken against before it started and has not been
\* confirmed since (evaluateCandidate, knowledgeEvidenceState).
THEOREM RefutedKnowledgeIsWithheld == Spec => RefutedIsWithheld
<1>1. KnowledgeInv /\ [Next]_vars
      => [\A q \in Requests : request[q].at = "found" /\ request'[q].at = "done" =>
            \A k \in request[q].items : \A f \in feedback :
               /\ f.target = k /\ f.kind \in Against /\ f.at <= request[q].time
               => \E y \in feedback : /\ y.target = k /\ y.kind = "confirm" /\ y.source = "user"
                                     /\ f.id \in y.resolves /\ f.at < y.at]_vars
  BY DEF KnowledgeInv, RequestsAreServed, AnsweredUntil
<1> QED BY <1>1, KnowledgeInvariantHolds, PTL DEF Spec, RefutedIsWithheld

-------------------------------------------------------------------------------
(* LearnedLessons: the invariant *)

IsDescription(job) ==
    job = [state |-> job.state, attempts |-> job.attempts, digest |-> job.digest,
           about |-> job.about]

\* A lesson rests on a reviewed answer; what was answered is of a revision there was.
Rested ==
    /\ \A l \in Lessons : IsKnown(l) => ReviewedProposals(l) # {}
    /\ \A p \in proposals : p.revision <= content[p.window]

\* Only the lesson being forgotten may be known and forgotten, and nothing that is
\* gone is judged.
Buried ==
    /\ HasActiveDeletion => deletion \in forgotten /\ IsKnown(deletion)
    /\ \A l \in forgotten : IsKnown(l) => deletion = l
    /\ \A l \in judged : IsKnown(l)

\* What the learner holds on to while others act
Held ==
    /\ At("infer") =>
         /\ learner.window \in Windows
         /\ learner.revision \in 1..MaxRevision /\ learner.revision <= content[learner.window]
    /\ At("archive") =>
         /\ learner.lesson \in Lessons /\ learner.row \in Rows /\ IsKnown(learner.lesson)
         /\ lessons[learner.lesson].wording = learner.row.wording
         /\ lessons[learner.lesson].source = learner.row.source
    /\ At("describe") =>
         /\ learner.lesson \in Lessons
         /\ IsDescription(enrichment[learner.lesson])
         /\ learner.about = enrichment[learner.lesson].digest

Claimed == IF notifier = Nothing THEN {} ELSE notifier

\* A notice is on its way or was seen once, and then remembered.
Noticed ==
    \A l \in Lessons :
        /\ announced[l] <= 1
        /\ l \in Claimed => announced[l] = 0
        /\ l \in Claimed \/ announced[l] > 0 => l \in notices \cup forgotten

Waiting == \A l \in Lessons : NoticeEligible(l) => l \in noticeWork \cup notices

DescribedSo ==
    /\ enrichment = [l \in Lessons |-> enrichment[l]]
    /\ \A l \in Lessons : enrichment[l] # Nothing =>
         /\ IsDescription(enrichment[l])
         /\ enrichment[l].state = "accepted" => enrichment[l].about = enrichment[l].digest

LessonsInv ==
    TypeOK /\ Rested /\ Buried /\ Held /\ Noticed /\ Waiting /\ DescribedSo
-------------------------------------------------------------------------------
LEMMA OneOfTwo ==
    ASSUME NEW a \in Int, NEW b \in Int
    PROVE  Max({a, b}) \in {a, b} /\ Min({a, b}) \in {a, b}
<1> DEFINE S == {a, b}
<1>1. (\E x \in S : \A y \in S : x >= y) /\ (\E x \in S : \A y \in S : x <= y)
  OBVIOUS
<1> HIDE DEF S
<1>2. Max(S) \in S /\ Min(S) \in S
  BY <1>1, Zenon DEF Max, Min
<1> QED BY <1>2 DEF S

LEMMA ExpiryIsLate ==
    ASSUME TypeOK, NEW w \in Windows
    PROVE  Expiry(w) \in 0..MaxClock + Life
<1>1. born[w] \in Nat /\ born[w] <= MaxClock
  BY LessonsAssumption DEF TypeOK
<1> QED BY <1>1, LessonsAssumption DEF Expiry

\* What a lesson is used for needs its row, its proposals and the user's silence.
LEMMA EligibleBefore ==
    ASSUME TypeOK, TypeOK', NEW l \in Lessons, NoticeEligible(l)',
           lessons'[l] = lessons[l], now <= now',
           \A p \in proposals' : p.lesson = l => p \in proposals,
           \A p \in proposals : content'[p.window] = p.revision =>
               content[p.window] = p.revision /\ recalled'[p.window] = recalled[p.window],
           l \in judged => l \in judged', l \in forgotten => l \in forgotten'
    PROVE  NoticeEligible(l)
<1>1. /\ lessons'[l] # Nothing /\ lessons'[l].state = "candidate"
      /\ ~ (lessons'[l].expires <= now')
      /\ l \notin judged' /\ l \notin forgotten'
  BY DEF NoticeEligible, Usable, Mutable, IsKnown, Expired
<1>2. PICK p \in proposals' :
        /\ p.lesson = l /\ p.wording = lessons'[l].wording /\ p.window = lessons'[l].source
        /\ content'[p.window] = p.revision /\ l \notin recalled'[p.window]
  BY DEF NoticeEligible, Usable, ReviewedProposals, SourcesCurrent
<1>3. p \in proposals /\ content[p.window] = p.revision /\ l \notin recalled[p.window]
  BY <1>2
<1>4. p \in ReviewedProposals(l) /\ SourcesCurrent(p)
  BY <1>2, <1>3 DEF ReviewedProposals, SourcesCurrent
<1>5. lessons[l].expires \in Int /\ now \in Int /\ now' \in Int
  BY <1>1, LessonsAssumption DEF TypeOK, Rows
<1>6. ~ Expired(lessons[l])
  BY <1>1, <1>5 DEF Expired
<1>7. Usable(l)
  BY <1>1, <1>3, <1>4, <1>6 DEF Usable, IsKnown
<1> QED BY <1>1, <1>7 DEF NoticeEligible, Mutable

LEMMA WaitingKept ==
    ASSUME LessonsInv, TypeOK', now <= now',
           \A l \in Lessons : NoticeEligible(l)' =>
               \/ l \in noticeWork' \cup notices'
               \/ /\ lessons'[l] = lessons[l]
                  /\ \A p \in proposals' : p.lesson = l => p \in proposals
                  /\ l \in judged => l \in judged'
                  /\ l \in forgotten => l \in forgotten'
                  /\ l \in noticeWork \cup notices => l \in noticeWork' \cup notices',
           \A p \in proposals : content'[p.window] = p.revision =>
               content[p.window] = p.revision /\ recalled'[p.window] = recalled[p.window]
    PROVE  Waiting'
<1>1. ASSUME NEW l \in Lessons, NoticeEligible(l)' PROVE l \in noticeWork' \cup notices'
  <2>1. CASE /\ lessons'[l] = lessons[l]
             /\ \A p \in proposals' : p.lesson = l => p \in proposals
             /\ l \in judged => l \in judged'
             /\ l \in forgotten => l \in forgotten'
             /\ l \in noticeWork \cup notices => l \in noticeWork' \cup notices'
    <3>1. NoticeEligible(l)
      BY <1>1, <2>1, EligibleBefore DEF LessonsInv
    <3> QED BY <2>1, <3>1 DEF LessonsInv, Waiting
  <2> QED BY <1>1, <2>1
<1> QED BY <1>1 DEF Waiting

\* Lessons keep their text, and what they rest on.
LEMMA RestedKept ==
    ASSUME Rested, proposals \subseteq proposals',
           \A l \in Lessons : IsKnown(l)' =>
               /\ IsKnown(l) /\ lessons'[l].wording = lessons[l].wording
               /\ lessons'[l].source = lessons[l].source,
           \A p \in proposals' : p.revision <= content'[p.window]
    PROVE  Rested'
<1>1. ASSUME NEW l \in Lessons, IsKnown(l)' PROVE ReviewedProposals(l)' # {}
  <2>1. PICK p : p \in ReviewedProposals(l)
    BY <1>1 DEF Rested
  <2>2. p \in ReviewedProposals(l)'
    BY <1>1, <2>1 DEF ReviewedProposals
  <2> QED BY <2>2
<1> QED BY <1>1 DEF Rested
-------------------------------------------------------------------------------
(* Steps that touch no lesson *)

StoreUntouched == UNCHANGED <<sources, tables, noticeTables, enrichment, userVars, announced>>

LEMMA UntouchedKeeps ==
    ASSUME LessonsInv, StoreUntouched, now <= now', now' \in 0..MaxClock,
           notifier' = Nothing \/ notifier' \subseteq Claimed, Held'
    PROVE  LessonsInv'
<1>1. TypeOK'
  BY DEF LessonsInv, TypeOK, StoreUntouched, sources, tables, noticeTables, userVars, Claimed
<1>2. Rested'
  BY DEF LessonsInv, StoreUntouched, sources, tables, Rested, ReviewedProposals, IsKnown
<1>3. Buried'
  BY DEF LessonsInv, StoreUntouched, tables, userVars, Buried, HasActiveDeletion, IsKnown
<1>4. Noticed'
  BY DEF LessonsInv, StoreUntouched, noticeTables, userVars, Noticed, Claimed
<1>5. Waiting'
  BY <1>1, WaitingKept DEF StoreUntouched, sources, tables, noticeTables, userVars
<1>6. DescribedSo'
  BY DEF LessonsInv, StoreUntouched, DescribedSo, IsDescription
<1> QED BY <1>1, <1>2, <1>3, <1>4, <1>5, <1>6 DEF LessonsInv

LEMMA HeldStays ==
    ASSUME Held, StoreUntouched, learner' = learner PROVE Held'
BY DEF Held, StoreUntouched, sources, tables, At, IsKnown, IsDescription

LEMMA TickKeeps == ASSUME LessonsInv, Tick PROVE LessonsInv'
<1>1. StoreUntouched /\ learner' = learner /\ notifier' = notifier
  BY DEF Tick, StoreUntouched
<1>2. now \in Nat /\ now' = now + 1 /\ now' \in 0..MaxClock
  BY LessonsAssumption DEF Tick, LessonsInv, TypeOK
<1> QED BY <1>1, <1>2, UntouchedKeeps, HeldStays DEF LessonsInv, Claimed

LEMMA AskModelKeeps ==
    ASSUME LessonsInv, NEW w \in Windows, AskModel(w) PROVE LessonsInv'
<1>1. StoreUntouched /\ now' = now /\ notifier' = notifier
  BY DEF AskModel, StoreUntouched
<1>2. now \in 0..MaxClock /\ now <= now
  BY LessonsAssumption DEF LessonsInv, TypeOK
<1>3. content[w] \in 1..MaxRevision /\ content[w] <= content[w]
  BY LessonsAssumption DEF AskModel, LessonsInv, TypeOK
<1>4. learner' = [pc |-> "infer", window |-> w, revision |-> content[w], seen |-> lessons]
  BY DEF AskModel
<1>5. Held'
  BY <1>1, <1>3, <1>4 DEF Held, At, StoreUntouched, sources
<1> QED BY <1>1, <1>2, <1>5, UntouchedKeeps DEF Claimed

LEMMA LearnerStopsKeeps ==
    ASSUME LessonsInv, StoreUntouched, now' = now, notifier' = notifier, learner' = Nothing
    PROVE  LessonsInv'
<1>1. now \in 0..MaxClock /\ now <= now
  BY LessonsAssumption DEF LessonsInv, TypeOK
<1>2. Held'
  BY DEF Held, At
<1> QED BY <1>1, <1>2, UntouchedKeeps DEF Claimed

LEMMA GiveUpKeeps == ASSUME LessonsInv, GiveUp \/ DescriberDies PROVE LessonsInv'
BY LearnerStopsKeeps DEF GiveUp, DescriberDies, StoreUntouched

LEMMA ReadExpiredKeeps ==
    ASSUME LessonsInv, NEW l \in Lessons, ReadExpired(l) PROVE LessonsInv'
<1>1. StoreUntouched /\ now' = now /\ notifier' = notifier
  BY DEF ReadExpired, StoreUntouched
<1>2. now \in 0..MaxClock /\ now <= now
  BY LessonsAssumption DEF LessonsInv, TypeOK
<1>3. learner' = [pc |-> "archive", lesson |-> l, row |-> lessons[l]] /\ IsKnown(l)
  BY DEF ReadExpired
<1>4. lessons[l] \in Rows
  BY <1>3 DEF IsKnown, LessonsInv, TypeOK
<1>5. Held'
  BY <1>1, <1>3, <1>4 DEF Held, At, StoreUntouched, tables, IsKnown
<1> QED BY <1>1, <1>2, <1>5, UntouchedKeeps DEF Claimed

LEMMA PublisherMovesKeep == ASSUME LessonsInv, StartNotifier \/ NotifierDies PROVE LessonsInv'
<1>1. StoreUntouched /\ now' = now /\ learner' = learner /\ (notifier' = {} \/ notifier' = Nothing)
  BY DEF StartNotifier, NotifierDies, StoreUntouched
<1>2. now \in 0..MaxClock /\ now <= now
  BY LessonsAssumption DEF LessonsInv, TypeOK
<1> QED BY <1>1, <1>2, UntouchedKeeps, HeldStays DEF LessonsInv, Claimed

-------------------------------------------------------------------------------
(* Sessions and the user *)

LEMMA SourcesMoveKeeps ==
    ASSUME LessonsInv, TypeOK', \A w \in Windows : content[w] <= content'[w],
           \A p \in proposals : content'[p.window] = p.revision =>
               content[p.window] = p.revision /\ recalled'[p.window] = recalled[p.window],
           UNCHANGED <<now, tables, noticeTables, enrichment, userVars, learner, notifier, announced>>
    PROVE  LessonsInv'
<1>1. Rested'
  <2>1. ASSUME NEW p \in proposals PROVE p.revision <= content'[p.window]
    <3>1. p.window \in Windows /\ p.revision \in Int /\ p.revision <= content[p.window]
      BY LessonsAssumption DEF LessonsInv, TypeOK, Rested, Proposals
    <3>2. content[p.window] <= content'[p.window] /\ content[p.window] \in Int /\ content'[p.window] \in Int
      BY <3>1, LessonsAssumption DEF LessonsInv, TypeOK
    <3> QED BY <3>1, <3>2
  <2> QED BY <2>1, RestedKept DEF LessonsInv, tables, IsKnown
<1>2. Buried' /\ Noticed' /\ DescribedSo'
  BY DEF LessonsInv, Buried, Noticed, DescribedSo, tables, userVars, noticeTables, HasActiveDeletion,
         IsKnown, Claimed, IsDescription
<1>3. Held'
  <2>1. ASSUME At("infer")
        PROVE  learner.revision <= content'[learner.window]
    <3>1. /\ learner.window \in Windows /\ learner.revision \in Int
          /\ learner.revision <= content[learner.window]
      BY <2>1, LessonsAssumption DEF LessonsInv, Held
    <3>2. /\ content[learner.window] <= content'[learner.window]
          /\ content[learner.window] \in Int /\ content'[learner.window] \in Int
      BY <3>1, LessonsAssumption DEF LessonsInv, TypeOK
    <3> QED BY <3>1, <3>2
  <2> QED BY <2>1 DEF LessonsInv, Held, At, tables, IsKnown, IsDescription
<1>4. now \in Int /\ now <= now'
  BY LessonsAssumption DEF LessonsInv, TypeOK
<1>5. Waiting'
  BY <1>4, WaitingKept DEF tables, noticeTables, userVars
<1> QED BY <1>1, <1>2, <1>3, <1>5 DEF LessonsInv

LEMMA CaptureWindowKeeps ==
    ASSUME LessonsInv, NEW w \in Windows, CaptureWindow(w) PROVE LessonsInv'
<1>1. /\ content[w] = 0 /\ content' = [content EXCEPT ![w] = 1]
      /\ born' = [born EXCEPT ![w] = now]
      /\ UNCHANGED <<now, tables, noticeTables, enrichment, userVars, learner, notifier, announced>>
  BY DEF CaptureWindow
<1>2. PICK given \in SUBSET Lessons : recalled' = [recalled EXCEPT ![w] = given]
  BY DEF CaptureWindow
<1>3. TypeOK'
  <2>1. content' \in [Windows -> 0..MaxRevision] /\ born' \in [Windows -> 0..MaxClock]
    BY <1>1, LessonsAssumption DEF LessonsInv, TypeOK
  <2>2. recalled' \in [Windows -> SUBSET Lessons]
    BY <1>2 DEF LessonsInv, TypeOK
  <2> QED BY <1>1, <2>1, <2>2 DEF LessonsInv, TypeOK, tables, noticeTables, userVars
<1>4. \A v \in Windows : content[v] <= content'[v]
  BY <1>1, LessonsAssumption DEF LessonsInv, TypeOK
<1>5. ASSUME NEW p \in proposals
      PROVE  p.window \in Windows /\ p.window # w
  BY <1>1, LessonsAssumption DEF LessonsInv, TypeOK, Rested, Proposals
<1>6. \A p \in proposals : content'[p.window] = content[p.window] /\ recalled'[p.window] = recalled[p.window]
  BY <1>1, <1>2, <1>5 DEF LessonsInv, TypeOK
<1> QED BY <1>1, <1>3, <1>4, <1>6, SourcesMoveKeeps

LEMMA EnrichKeeps ==
    ASSUME LessonsInv, NEW w \in Windows, Enrich(w) PROVE LessonsInv'
<1>1. /\ content[w] \in 1..(MaxRevision - 1) /\ content' = [content EXCEPT ![w] = content[w] + 1]
      /\ UNCHANGED <<now, born, recalled, tables, noticeTables, enrichment, userVars, learner,
                     notifier, announced>>
  BY DEF Enrich
<1>2. TypeOK'
  <2>1. content' \in [Windows -> 0..MaxRevision]
    BY <1>1, LessonsAssumption DEF LessonsInv, TypeOK
  <2> QED BY <1>1, <2>1 DEF LessonsInv, TypeOK, tables, noticeTables, userVars
<1>3. \A v \in Windows : content[v] <= content'[v]
  BY <1>1, LessonsAssumption DEF LessonsInv, TypeOK
<1>4. ASSUME NEW p \in proposals, content'[p.window] = p.revision
      PROVE  content[p.window] = p.revision
  <2>1. /\ p.window \in Windows /\ p.revision \in Int /\ p.revision <= content[p.window]
        /\ content[w] \in Int
    BY <1>1, LessonsAssumption DEF LessonsInv, TypeOK, Rested, Proposals
  <2>2. p.window # w
    BY <1>1, <1>4, <2>1 DEF LessonsInv, TypeOK
  <2> QED BY <1>1, <1>4, <2>1, <2>2 DEF LessonsInv, TypeOK
<1> QED BY <1>1, <1>2, <1>3, <1>4, SourcesMoveKeeps

\* A word of the user's on one lesson: its state may change, its text does not.
LEMMA GiveVerdictKeeps ==
    ASSUME LessonsInv, NEW l \in Lessons, GiveVerdict(l) PROVE LessonsInv'
<1>1. /\ IsKnown(l) /\ ~ HasActiveDeletion /\ judged' = judged \cup {l}
      /\ UNCHANGED <<now, sources, proposals, autoExpiry, conflicts, noticeTables, enrichment,
                     forgotten, deletion, learner, notifier, announced>>
  BY DEF GiveVerdict
<1>2. lessons[l] \in Rows
  BY <1>1 DEF IsKnown, LessonsInv, TypeOK
<1>3. PICK s \in States : lessons' = [lessons EXCEPT ![l].state = s]
  <2>1. Verdicts(l) \subseteq States
    BY <1>2 DEF Verdicts, States, Rows
  <2> QED BY <2>1 DEF GiveVerdict
<1> DEFINE made == [lessons[l] EXCEPT !.state = s]
<1>4. made \in Rows /\ made.wording = lessons[l].wording /\ made.source = lessons[l].source
  BY <1>2 DEF Rows
<1>5. lessons' = [lessons EXCEPT ![l] = made]
  BY <1>3
<1> HIDE DEF made
<1>6. TypeOK'
  <2>1. lessons' \in [Lessons -> Rows \cup {Nothing}]
    BY <1>4, <1>5 DEF LessonsInv, TypeOK
  <2> QED BY <1>1, <2>1 DEF LessonsInv, TypeOK, sources, noticeTables
<1>7. \A k \in Lessons : /\ k # l => lessons'[k] = lessons[k]
                         /\ k = l => lessons'[k] = made
  BY <1>5 DEF LessonsInv, TypeOK
<1>8. IsKnown(l)' /\ \A k \in Lessons : IsKnown(k)' <=> IsKnown(k)
  BY <1>1, <1>4, <1>7, LessonsAssumption DEF IsKnown
<1>9. Rested'
  <2>1. \A k \in Lessons : IsKnown(k)' =>
          /\ IsKnown(k) /\ lessons'[k].wording = lessons[k].wording
          /\ lessons'[k].source = lessons[k].source
    BY <1>4, <1>7, <1>8
  <2>2. \A p \in proposals' : p.revision <= content'[p.window]
    BY <1>1 DEF LessonsInv, Rested, sources
  <2> QED BY <1>1, <2>1, <2>2, RestedKept DEF LessonsInv
<1>10. Buried'
  <2>1. \A k \in forgotten \cup judged : k \in Lessons
    BY DEF LessonsInv, TypeOK
  <2> QED BY <1>1, <1>8, <2>1 DEF LessonsInv, Buried, HasActiveDeletion
<1>11. Held'
  <2>1. ASSUME NEW k \in Lessons, IsKnown(k)
        PROVE  IsKnown(k)' /\ lessons'[k].wording = lessons[k].wording
               /\ lessons'[k].source = lessons[k].source
    BY <1>4, <1>7, <1>8, <2>1 DEF IsKnown
  <2> QED BY <1>1, <2>1 DEF LessonsInv, Held, At, sources, IsDescription
<1>12. Noticed' /\ DescribedSo'
  BY <1>1 DEF LessonsInv, Noticed, DescribedSo, noticeTables, Claimed, IsDescription
<1>13. Waiting'
  <2>1. now \in Int /\ now <= now'
    BY <1>1, LessonsAssumption DEF LessonsInv, TypeOK
  <2>2. \A k \in Lessons : NoticeEligible(k)' => k # l
    BY <1>1 DEF NoticeEligible, Mutable
  <2> QED BY <1>1, <1>6, <1>7, <2>1, <2>2, WaitingKept DEF sources, noticeTables
<1> QED BY <1>6, <1>9, <1>10, <1>11, <1>12, <1>13 DEF LessonsInv

LEMMA ForgetLessonKeeps ==
    ASSUME LessonsInv, NEW l \in Lessons, ForgetLesson(l) PROVE LessonsInv'
<1>1. /\ IsKnown(l) /\ ~ HasActiveDeletion
      /\ deletion' = l /\ forgotten' = forgotten \cup {l}
      /\ UNCHANGED <<now, sources, tables, noticeTables, enrichment, judged, learner, notifier, announced>>
  BY DEF ForgetLesson
<1>2. TypeOK'
  BY <1>1 DEF LessonsInv, TypeOK, sources, tables, noticeTables
<1>3. Rested' /\ Held' /\ DescribedSo' /\ Noticed'
  BY <1>1 DEF LessonsInv, Rested, ReviewedProposals, Held, At, DescribedSo, Noticed, sources, tables,
              noticeTables, IsKnown, IsDescription, Claimed
<1>4. Buried'
  <2>1. \A k \in forgotten : ~ IsKnown(k)
    BY <1>1, LessonsAssumption DEF LessonsInv, Buried, HasActiveDeletion, TypeOK
  <2> QED BY <1>1, <2>1 DEF LessonsInv, Buried, IsKnown, tables
<1>5. Waiting'
  <2>1. now \in Int /\ now <= now'
    BY <1>1, LessonsAssumption DEF LessonsInv, TypeOK
  <2> QED BY <1>1, <1>2, <2>1, WaitingKept DEF sources, tables, noticeTables
<1> QED BY <1>2, <1>3, <1>4, <1>5 DEF LessonsInv

LEMMA EraseLessonKeeps == ASSUME LessonsInv, EraseLesson PROVE LessonsInv'
<1>1. PICK d \in Lessons :
      /\ d = deletion /\ d \in forgotten /\ learner = Nothing /\ notifier = Nothing
      /\ lessons' = [lessons EXCEPT ![d] = Nothing]
      /\ proposals' = {p \in proposals : p.lesson # d}
      /\ autoExpiry' = autoExpiry \ {d} /\ conflicts' = conflicts \ {d}
      /\ noticeWork' = noticeWork \ {d} /\ notices' = notices \ {d}
      /\ enrichment' = [enrichment EXCEPT ![d] = Nothing]
      /\ judged' = judged \ {d} /\ deletion' = Nothing
      /\ UNCHANGED <<now, sources, forgotten, learner, notifier, announced>>
  BY DEF EraseLesson, HasActiveDeletion, LessonsInv, TypeOK, Buried
<1>2. TypeOK'
  <2>1. lessons' \in [Lessons -> Rows \cup {Nothing}]
    BY <1>1 DEF LessonsInv, TypeOK
  <2> QED BY <1>1, <2>1 DEF LessonsInv, TypeOK, sources
<1>3. /\ \A k \in Lessons : k # d => lessons'[k] = lessons[k]
      /\ ~ IsKnown(d)' /\ \A k \in Lessons : IsKnown(k)' => k # d /\ IsKnown(k)
  <2>1. lessons' = [lessons EXCEPT ![d] = Nothing] /\ lessons \in [Lessons -> Rows \cup {Nothing}]
    BY <1>1 DEF LessonsInv, TypeOK
  <2>2. \A k \in Lessons : lessons'[k] = IF k = d THEN Nothing ELSE lessons[k]
    BY <2>1
  <2> QED BY <1>1, <2>2 DEF IsKnown
<1>4. Rested'
  <2>1. ASSUME NEW l \in Lessons, IsKnown(l)' PROVE ReviewedProposals(l)' # {}
    <3>1. l # d /\ lessons'[l] = lessons[l] /\ IsKnown(l)
      BY <1>3, <2>1
    <3>2. PICK p : p \in ReviewedProposals(l)
      BY <3>1 DEF LessonsInv, Rested
    <3>3. p \in ReviewedProposals(l)'
      BY <1>1, <3>1, <3>2 DEF ReviewedProposals
    <3> QED BY <3>3
  <2> QED BY <1>1, <2>1 DEF LessonsInv, Rested, sources
<1>5. Buried'
  <2>1. \A k \in forgotten : IsKnown(k)' => k = d
    BY <1>3, <1>1 DEF LessonsInv, Buried, TypeOK
  <2>2. \A k \in Lessons : k # d => (IsKnown(k)' <=> IsKnown(k))
    BY <1>3 DEF IsKnown
  <2>3. \A k \in judged : k \in Lessons /\ IsKnown(k)
    BY DEF LessonsInv, TypeOK, Buried
  <2> QED BY <1>1, <1>3, <2>1, <2>2, <2>3 DEF Buried, HasActiveDeletion
<1>6. Held'
  BY <1>1 DEF Held, At
<1>7. Noticed'
  BY <1>1 DEF LessonsInv, Noticed, Claimed
<1>8. DescribedSo'
  BY <1>1 DEF LessonsInv, DescribedSo, IsDescription
<1>9. Waiting'
  <2>1. now \in Int /\ now <= now'
    BY <1>1, LessonsAssumption DEF LessonsInv, TypeOK
  <2>2. \A k \in Lessons : NoticeEligible(k)' => k # d
    BY <1>3 DEF NoticeEligible, Usable
  <2> QED BY <1>1, <1>2, <1>3, <2>1, <2>2, WaitingKept DEF sources
<1> QED BY <1>2, <1>4, <1>5, <1>6, <1>7, <1>8, <1>9 DEF LessonsInv

-------------------------------------------------------------------------------
(* An answer *)

Disputes(S) ==
    /\ S \subseteq Lessons /\ \A k \in S : IsKnown(k) /\ Mutable(k)
    /\ PutInDispute(S) /\ UNCHANGED proposals

\* A text is written over what may be changed, with the answer it rests on.
NewText(l, made) ==
    /\ l \in Lessons /\ l \notin forgotten /\ (IsKnown(l) => Mutable(l))
    /\ made \in Rows /\ made.source = learner.window
    /\ proposals' = proposals \cup {Proposal(l, made.wording)}

Writes(l, made) ==
    /\ NewText(l, made)
    /\ lessons' = [lessons EXCEPT ![l] = made]
    /\ autoExpiry' \subseteq autoExpiry /\ conflicts' \subseteq conflicts
    /\ Announce(l)

\* An answer that is only kept makes nothing eligible that was not.
Keeps(l, x) ==
    /\ l \in Lessons /\ IsKnown(l) /\ x \in Wordings
    /\ proposals' = proposals \cup {Proposal(l, x)}
    /\ UNCHANGED <<lessons, autoExpiry, conflicts, noticeWork>>
    /\ NoticeEligible(l)' /\ Proposal(l, x) \notin proposals =>
         lessons[l].wording # x \/ lessons[l].source # learner.window

LEMMA ProposalIsRight ==
    ASSUME LessonsInv, At("infer"), NEW l \in Lessons, NEW x \in Wordings
    PROVE  /\ Proposal(l, x) \in Proposals
           /\ Proposal(l, x).lesson = l /\ Proposal(l, x).wording = x
           /\ Proposal(l, x).window = learner.window
           /\ Proposal(l, x).revision <= content[learner.window]
BY DEF LessonsInv, Held, Proposal, Proposals

LEMMA NewRowIsRow ==
    ASSUME LessonsInv, At("infer"), NEW x \in Wordings
    PROVE  /\ NewRow(x) \in Rows /\ NewRow(x).state = "candidate"
           /\ NewRow(x).wording = x /\ NewRow(x).source = learner.window
<1>1. learner.window \in Windows /\ Expiry(learner.window) \in 0..MaxClock + Life
  BY ExpiryIsLate DEF LessonsInv, Held
<1> QED BY <1>1 DEF NewRow, Rows, States

LEMMA RefreshedRow ==
    ASSUME LessonsInv, At("infer"), NEW l \in Lessons, IsKnown(l), NEW x \in Wordings, Refresh(l, x)
    PROVE  \E made \in Rows :
             /\ made.state = "candidate" /\ made.wording = x /\ made.source = learner.window
             /\ lessons' = [lessons EXCEPT ![l] = made]
             /\ autoExpiry' \subseteq autoExpiry /\ conflicts' \subseteq conflicts
             /\ Announce(l)
<1> DEFINE both == {lessons[l].expires, Expiry(learner.window)}
           until == IF Independent(l) THEN Max(both) ELSE Min(both)
           made == [NewRow(x) EXCEPT !.expires = until]
<1>1. lessons[l].expires \in 0..MaxClock + Life
  BY DEF IsKnown, LessonsInv, TypeOK, Rows
<1>2. learner.window \in Windows /\ Expiry(learner.window) \in 0..MaxClock + Life
  BY ExpiryIsLate DEF LessonsInv, Held
<1>3. Max(both) \in both /\ Min(both) \in both
  <2>1. lessons[l].expires \in Int /\ Expiry(learner.window) \in Int
    BY <1>1, <1>2, LessonsAssumption
  <2> QED BY <2>1, OneOfTwo
<1>4. until \in 0..MaxClock + Life
  BY <1>1, <1>2, <1>3
<1>5. lessons' = [lessons EXCEPT ![l] = made]
  BY DEF Refresh
<1> HIDE DEF until
<1>6. /\ made \in Rows /\ made.state = "candidate" /\ made.wording = x /\ made.source = learner.window
  BY <1>4, NewRowIsRow DEF Rows
<1> HIDE DEF made
<1>7. autoExpiry' \subseteq autoExpiry /\ conflicts' \subseteq conflicts /\ Announce(l)
  BY DEF Refresh
<1> QED BY <1>5, <1>6, <1>7

\* What the reviewed answers of a lesson from one window say of it
LEMMA OnlyThisRevision ==
    ASSUME LessonsInv, At("infer"), StillSent, NEW l \in Lessons, IsKnown(l),
           lessons[l].state = "candidate", lessons[l].source = learner.window, ~ Reassessment(l)
    PROVE  Proposal(l, lessons[l].wording) \in proposals
<1>1. PICK p : p \in ReviewedProposals(l)
  BY DEF LessonsInv, Rested
<1>2. /\ p \in proposals /\ p.lesson = l /\ p.wording = lessons[l].wording
      /\ p.window = learner.window /\ p \in Proposals
  BY <1>1 DEF ReviewedProposals, LessonsInv, TypeOK
<1>3. CASE p.revision = learner.revision
  <2>1. p = Proposal(l, lessons[l].wording)
    BY <1>2, <1>3 DEF Proposal, Proposals
  <2> QED BY <1>2, <2>1
<1>4. CASE p.revision # learner.revision
  <2>1. p \in Prior(l)
    BY <1>1, <1>4 DEF Prior
  <2>2. \A q \in Prior(l) : ~ SourcesCurrent(q)
    <3>1. ASSUME NEW q \in Prior(l) PROVE ~ SourcesCurrent(q)
      <4>1. q.window = learner.window /\ q.revision # learner.revision
        BY DEF Prior, ReviewedProposals
      <4> QED BY <4>1 DEF SourcesCurrent, StillSent
    <3> QED BY <3>1
  <2> QED BY <1>2, <2>1, <2>2 DEF Reassessment
<1> QED BY <1>3, <1>4

\* Every way to record an answer is one of the three.
LEMMA RecordIsOneOfThree ==
    ASSUME LessonsInv, At("infer"), StillSent, NEW l \in Lessons, NEW x \in Wordings, NEW e \in BOOLEAN,
           l \notin forgotten, judged' = judged, Record(l, x, e)
    PROVE  \/ IsKnown(l) /\ Disputes({l})
           \/ \E made \in Rows : made.state = "candidate" /\ made.wording = x /\ Writes(l, made)
           \/ Keeps(l, x)
<1> DEFINE kept == proposals' = proposals \cup {Proposal(l, x)}
           same == e \/ (x = lessons[l].wording /\ lessons[l].state # "disputed")
<1>1. CASE ~ IsKnown(l) /\ kept /\ Insert(l, x)
  <2>1. Writes(l, NewRow(x))
    BY <1>1, NewRowIsRow DEF Insert, Writes, NewText
  <2> QED BY <2>1, NewRowIsRow
<1>2. CASE IsKnown(l) /\ Mutable(l) /\ kept /\ Refresh(l, x)
  <2>1. PICK made \in Rows :
             /\ made.state = "candidate" /\ made.wording = x /\ made.source = learner.window
             /\ lessons' = [lessons EXCEPT ![l] = made]
             /\ autoExpiry' \subseteq autoExpiry /\ conflicts' \subseteq conflicts
             /\ Announce(l)
    BY <1>2, RefreshedRow
  <2>2. Writes(l, made)
    BY <1>2, <2>1 DEF Writes, NewText
  <2> QED BY <2>1, <2>2
<1>3. CASE IsKnown(l) /\ Mutable(l) /\ UNCHANGED proposals /\ PutInDispute({l})
  BY <1>3 DEF Disputes
<1>4. CASE /\ IsKnown(l)
           /\ \/ ~ Mutable(l)
              \/ ~ Reassessment(l) /\ ~ Independent(l)
              \/ ~ Reassessment(l) /\ ~ same /\ x = lessons[l].wording
           /\ kept /\ UNCHANGED <<lessons, autoExpiry, conflicts, noticeWork>>
  <2>1. ASSUME NoticeEligible(l)', lessons[l].wording = x, lessons[l].source = learner.window
        PROVE  Proposal(l, x) \in proposals
    <3>1. lessons[l].state = "candidate" /\ l \notin judged' /\ l \notin forgotten
      BY <1>4, <2>1 DEF NoticeEligible, Usable, Mutable
    <3>2. CASE ~ Reassessment(l)
      BY <1>4, <2>1, <3>1, <3>2, OnlyThisRevision
    <3>3. CASE ~ Mutable(l)
      BY <3>1, <3>3 DEF Mutable
    <3> QED BY <1>4, <3>2, <3>3
  <2> QED BY <1>4, <2>1 DEF Keeps
<1> QED BY <1>1, <1>2, <1>3, <1>4, Zenon DEF Record

-------------------------------------------------------------------------------
\* What every answer leaves in order: a text that is new rests on the answer.
Rewritten(k) ==
    /\ k \notin forgotten
    /\ lessons'[k].source = learner.window
    /\ Proposal(k, lessons'[k].wording) \in proposals'

LEMMA AnswerKeeps ==
    ASSUME LessonsInv, At("infer"), Answered, TypeOK', Waiting',
           proposals \subseteq proposals',
           \A p \in proposals' : p \in proposals \/
               (p.window = learner.window /\ p.revision = learner.revision),
           \A k \in Lessons : IsKnown(k) => IsKnown(k)',
           \A k \in Lessons : IsKnown(k)' =>
               \/ Rewritten(k)
               \/ /\ IsKnown(k) /\ lessons'[k].wording = lessons[k].wording
                  /\ lessons'[k].source = lessons[k].source
    PROVE  LessonsInv'
<1>1. /\ learner' = Nothing
      /\ UNCHANGED <<now, sources, notices, enrichment, userVars, notifier, announced>>
  BY DEF Answered
<1>2. Rested'
  <2>1. ASSUME NEW k \in Lessons, IsKnown(k)' PROVE ReviewedProposals(k)' # {}
    <3>1. CASE Rewritten(k)
      <4> DEFINE p == Proposal(k, lessons'[k].wording)
      <4>1. /\ p \in proposals' /\ p.lesson = k /\ p.wording = lessons'[k].wording
            /\ p.window = lessons'[k].source
        BY <3>1 DEF Rewritten, Proposal
      <4> QED BY <4>1 DEF ReviewedProposals
    <3>2. CASE /\ IsKnown(k) /\ lessons'[k].wording = lessons[k].wording
               /\ lessons'[k].source = lessons[k].source
      <4>1. PICK p : p \in ReviewedProposals(k)
        BY <3>2 DEF LessonsInv, Rested
      <4>2. p \in ReviewedProposals(k)'
        BY <3>2, <4>1 DEF ReviewedProposals
      <4> QED BY <4>2
    <3> QED BY <2>1, <3>1, <3>2
  <2>2. \A p \in proposals' : p.revision <= content'[p.window]
    BY <1>1 DEF LessonsInv, Rested, Held, sources
  <2> QED BY <2>1, <2>2 DEF Rested
<1>3. Buried'
  <2>1. HasActiveDeletion' => HasActiveDeletion /\ deletion \in Lessons
    BY <1>1 DEF HasActiveDeletion, userVars, LessonsInv, TypeOK
  <2>2. \A k \in forgotten \cup judged : k \in Lessons
    BY DEF LessonsInv, TypeOK
  <2> QED BY <1>1, <2>1, <2>2 DEF LessonsInv, Buried, userVars, Rewritten
<1>4. Held'
  BY <1>1 DEF Held, At
<1>5. Noticed' /\ DescribedSo'
  BY <1>1 DEF LessonsInv, Noticed, DescribedSo, userVars, Claimed, IsDescription
<1> QED BY <1>2, <1>3, <1>4, <1>5 DEF LessonsInv

LEMMA NowStays == ASSUME TypeOK, now' = now PROVE now <= now'
BY LessonsAssumption DEF TypeOK

LEMMA DisputesKeep ==
    ASSUME LessonsInv, At("infer"), Answered, NEW S, Disputes(S)
    PROVE  LessonsInv' /\ \A l \in Lessons : UserWordStands(l)
<1>1. /\ learner' = Nothing
      /\ UNCHANGED <<now, sources, notices, enrichment, userVars, notifier, announced>>
      /\ proposals' = proposals
  BY DEF Answered, Disputes
<1>2. /\ S \subseteq Lessons /\ \A k \in S : IsKnown(k) /\ Mutable(k)
      /\ conflicts' = conflicts \cup S /\ noticeWork' = noticeWork \ S /\ autoExpiry' = autoExpiry
      /\ \A k \in Lessons : lessons'[k] = IF k \in S THEN [lessons[k] EXCEPT !.state = "disputed"]
                                        ELSE lessons[k]
      /\ lessons' = [k \in Lessons |-> lessons'[k]]
  BY DEF Disputes, PutInDispute
<1>3. ASSUME NEW k \in S
      PROVE  /\ lessons'[k] \in Rows /\ lessons'[k].state = "disputed"
             /\ lessons'[k].wording = lessons[k].wording /\ lessons'[k].source = lessons[k].source
             /\ lessons[k] \in Rows
  <2>1. lessons[k] \in Rows
    BY <1>2 DEF IsKnown, LessonsInv, TypeOK
  <2>2. lessons'[k] = [lessons[k] EXCEPT !.state = "disputed"]
    BY <1>2
  <2> QED BY <2>1, <2>2 DEF Rows, States
<1>4. TypeOK'
  <2>1. lessons' \in [Lessons -> Rows \cup {Nothing}]
    BY <1>2, <1>3 DEF LessonsInv, TypeOK
  <2> QED BY <1>1, <1>2, <2>1 DEF LessonsInv, TypeOK, sources, userVars
<1>5. \A k \in Lessons : (IsKnown(k)' <=> IsKnown(k))
  BY <1>2, <1>3, LessonsAssumption DEF IsKnown
<1>6. Waiting'
  <2>1. ASSUME NEW k \in Lessons, NoticeEligible(k)' PROVE k \notin S
    <3>1. lessons'[k].state = "candidate"
      BY <2>1 DEF NoticeEligible, Usable
    <3> QED BY <1>3, <3>1
  <2> QED BY <1>1, <1>2, <1>4, <2>1, WaitingKept, NowStays DEF sources, userVars, LessonsInv
<1>7. LessonsInv'
  BY <1>1, <1>2, <1>3, <1>4, <1>5, <1>6, AnswerKeeps
<1>8. ASSUME NEW l \in Lessons PROVE UserWordStands(l)
  <2>1. l \in judged => lessons'[l] = lessons[l]
    BY <1>2 DEF Mutable
  <2> QED BY <1>5, <2>1 DEF UserWordStands
<1> QED BY <1>7, <1>8

LEMMA KeepsKeep ==
    ASSUME LessonsInv, At("infer"), Answered, NEW l \in Lessons, NEW x \in Wordings, Keeps(l, x)
    PROVE  LessonsInv' /\ \A k \in Lessons : UserWordStands(k)
<1>1. /\ learner' = Nothing
      /\ UNCHANGED <<now, sources, notices, enrichment, userVars, notifier, announced>>
      /\ proposals' = proposals \cup {Proposal(l, x)}
      /\ UNCHANGED <<lessons, autoExpiry, conflicts, noticeWork>>
  BY DEF Answered, Keeps
<1>2. /\ Proposal(l, x) \in Proposals
      /\ Proposal(l, x).lesson = l /\ Proposal(l, x).wording = x
      /\ Proposal(l, x).window = learner.window
      /\ Proposal(l, x).revision = learner.revision
  BY ProposalIsRight DEF Proposal
<1>3. TypeOK'
  BY <1>1, <1>2 DEF LessonsInv, TypeOK, sources, userVars
<1>4. Waiting'
  <2>1. ASSUME NEW k \in Lessons, NoticeEligible(k)' PROVE NoticeEligible(k)
    <3>1. CASE k # l \/ Proposal(l, x) \in proposals
      <4>1. \A p \in proposals' : p.lesson = k => p \in proposals
        BY <1>1, <1>2, <3>1
      <4> QED BY <1>1, <1>3, <2>1, <4>1, EligibleBefore, NowStays DEF sources, userVars, LessonsInv
    <3>2. CASE k = l /\ Proposal(l, x) \notin proposals
      <4>1. lessons[l].wording # x \/ lessons[l].source # learner.window
        BY <2>1, <3>2 DEF Keeps
      <4>2. Proposal(l, x) \notin ReviewedProposals(l)'
        BY <1>1, <1>2, <4>1 DEF ReviewedProposals
      <4>3. ReviewedProposals(l)' = ReviewedProposals(l)
        BY <1>1, <4>2 DEF ReviewedProposals
      <4>4. \A p : SourcesCurrent(p)' = SourcesCurrent(p)
        BY <1>1 DEF SourcesCurrent, sources
      <4> QED BY <1>1, <2>1, <3>2, <4>3, <4>4
              DEF NoticeEligible, Usable, Mutable, IsKnown, Expired, sources, userVars
    <3> QED BY <3>1, <3>2
  <2> QED BY <1>1, <2>1 DEF LessonsInv, Waiting
<1>5. \A k \in Lessons : IsKnown(k)' <=> IsKnown(k)
  BY <1>1 DEF IsKnown
<1>6. LessonsInv'
  BY <1>1, <1>2, <1>3, <1>4, <1>5, AnswerKeeps
<1>7. \A k \in Lessons : UserWordStands(k)
  BY <1>1, <1>5 DEF UserWordStands
<1> QED BY <1>6, <1>7


\* A text is written, and others are replaced by it.
Replaces(l, made, T) ==
    /\ NewText(l, made) /\ made.state = "candidate"
    /\ T \subseteq Lessons \ {l} /\ \A k \in T : IsKnown(k) /\ Mutable(k)
    /\ lessons' = [k \in Lessons |-> IF k = l THEN made
                                     ELSE IF k \in T THEN [lessons[k] EXCEPT !.state = "superseded"]
                                     ELSE lessons[k]]
    /\ autoExpiry' \subseteq autoExpiry /\ conflicts' \subseteq conflicts
    /\ noticeWork' = (IF NoticeEligible(l)' THEN noticeWork \cup {l} ELSE noticeWork) \ T

LEMMA ReplacesKeep ==
    ASSUME LessonsInv, At("infer"), Answered, NEW l, NEW made, NEW T, Replaces(l, made, T)
    PROVE  LessonsInv' /\ \A k \in Lessons : UserWordStands(k)
<1>1. /\ learner' = Nothing
      /\ UNCHANGED <<now, sources, notices, enrichment, userVars, notifier, announced>>
  BY DEF Answered
<1>2. /\ l \in Lessons /\ l \notin forgotten /\ (IsKnown(l) => Mutable(l))
      /\ made \in Rows /\ made.source = learner.window
      /\ proposals' = proposals \cup {Proposal(l, made.wording)}
      /\ T \subseteq Lessons /\ l \notin T /\ \A k \in T : IsKnown(k) /\ Mutable(k)
      /\ autoExpiry' \subseteq autoExpiry /\ conflicts' \subseteq conflicts
      /\ noticeWork' = (IF NoticeEligible(l)' THEN noticeWork \cup {l} ELSE noticeWork) \ T
      /\ lessons' = [k \in Lessons |-> lessons'[k]]
      /\ lessons'[l] = made
      /\ \A k \in T : lessons'[k] = [lessons[k] EXCEPT !.state = "superseded"]
      /\ \A k \in Lessons : k # l /\ k \notin T => lessons'[k] = lessons[k]
  BY DEF Replaces, NewText
<1>3. ASSUME NEW k \in T
      PROVE  /\ lessons'[k] \in Rows /\ lessons'[k].state = "superseded"
             /\ lessons'[k].wording = lessons[k].wording /\ lessons'[k].source = lessons[k].source
  <2>1. lessons[k] \in Rows
    BY <1>2 DEF IsKnown, LessonsInv, TypeOK
  <2>2. lessons'[k] = [lessons[k] EXCEPT !.state = "superseded"]
    BY <1>2
  <2> QED BY <2>1, <2>2 DEF Rows, States
<1>4. made.wording \in Wordings
  BY <1>2 DEF Rows
<1>5. /\ Proposal(l, made.wording) \in Proposals
      /\ Proposal(l, made.wording).lesson = l
      /\ Proposal(l, made.wording).window = learner.window
      /\ Proposal(l, made.wording).revision = learner.revision
  BY <1>2, <1>4, ProposalIsRight DEF Proposal
<1>6. TypeOK'
  <2>1. lessons' \in [Lessons -> Rows \cup {Nothing}]
    BY <1>2, <1>3 DEF LessonsInv, TypeOK
  <2> QED BY <1>1, <1>2, <1>5, <2>1 DEF LessonsInv, TypeOK, sources, userVars
<1>7. IsKnown(l)' /\ \A k \in Lessons : k # l => (IsKnown(k)' <=> IsKnown(k))
  BY <1>2, <1>3, LessonsAssumption DEF IsKnown
<1>8. Waiting'
  <2>1. ASSUME NEW k \in Lessons, NoticeEligible(k)' PROVE k \notin T
    <3>1. lessons'[k].state = "candidate"
      BY <2>1 DEF NoticeEligible, Usable
    <3> QED BY <1>3, <3>1
  <2>2. \A k \in Lessons \ {l} : \A p \in proposals' : p.lesson = k => p \in proposals
    BY <1>2, <1>5
  <2> QED BY <1>1, <1>2, <1>6, <2>1, <2>2, WaitingKept, NowStays DEF sources, userVars, LessonsInv
<1>9. LessonsInv'
  <2>1. Rewritten(l)
    BY <1>2 DEF Rewritten
  <2> QED BY <1>1, <1>2, <1>3, <1>5, <1>6, <1>7, <1>8, <2>1, AnswerKeeps
<1>10. ASSUME NEW k \in Lessons PROVE UserWordStands(k)
  <2>1. k \in judged => lessons'[k] = lessons[k]
    BY <1>2 DEF Mutable, LessonsInv, Buried
  <2> QED BY <1>2, <1>7, <2>1 DEF UserWordStands
<1> QED BY <1>9, <1>10

LEMMA WritesKeep ==
    ASSUME LessonsInv, At("infer"), Answered, NEW l, NEW made, made.state = "candidate", Writes(l, made)
    PROVE  LessonsInv' /\ \A k \in Lessons : UserWordStands(k)
<1>1. Replaces(l, made, {})
  BY DEF Replaces, Writes, NewText, Announce, LessonsInv, TypeOK
<1> QED BY <1>1, ReplacesKeep


LEMMA RecordKeeps ==
    ASSUME LessonsInv, At("infer"), StillSent, Answered, NEW l \in Lessons, NEW x \in Wordings,
           NEW e \in BOOLEAN, l \notin forgotten, Record(l, x, e)
    PROVE  LessonsInv' /\ \A k \in Lessons : UserWordStands(k)
<1>1. judged' = judged
  BY DEF Answered, userVars
<1>2. CASE IsKnown(l) /\ Disputes({l})
  BY <1>2, DisputesKeep
<1>3. CASE \E made \in Rows : made.state = "candidate" /\ made.wording = x /\ Writes(l, made)
  BY <1>3, WritesKeep
<1>4. CASE Keeps(l, x)
  BY <1>4, KeepsKeep
<1> QED BY <1>1, <1>2, <1>3, <1>4, RecordIsOneOfThree

LEMMA AloneKeeps ==
    ASSUME LessonsInv, NEW x \in Wordings, Alone(x)
    PROVE  LessonsInv' /\ \A l \in Lessons : UserWordStands(l)
<1> DEFINE l == Home[x]
           S == {k \in Contradicted(l, x) : Mutable(k) /\ lessons[k].state = "candidate"}
<1>1. /\ At("infer") /\ StillSent /\ Answered /\ l \in Lessons /\ l \notin forgotten
  BY LessonsAssumption DEF Alone, Admits
<1>2. CASE Contradicted(l, x) # {}
  <2>1. Disputes(S)
    BY <1>2 DEF Alone, Disputes, Contradicted
  <2> HIDE DEF S
  <2> QED BY <1>1, <2>1, DisputesKeep
<1>3. CASE Contradicted(l, x) = {}
  <2>1. Record(l, x, FALSE)
    BY <1>3 DEF Alone
  <2> HIDE DEF l
  <2> QED BY <1>1, <2>1, RecordKeeps
<1> QED BY <1>2, <1>3

LEMMA EquivalentKeeps ==
    ASSUME LessonsInv, NEW x \in Wordings, NEW t \in Lessons, Equivalent(t, x)
    PROVE  LessonsInv' /\ \A l \in Lessons : UserWordStands(l)
<1>1. At("infer") /\ StillSent /\ Answered /\ t \notin forgotten /\ Record(t, x, TRUE)
  BY DEF Equivalent, Admits
<1> QED BY <1>1, RecordKeeps

LEMMA SupersedeKeeps ==
    ASSUME LessonsInv, NEW x \in Wordings, NEW t \in Lessons, NEW l \in Lessons, Supersede(t, l, x)
    PROVE  LessonsInv' /\ \A k \in Lessons : UserWordStands(k)
<1>1. /\ At("infer") /\ Answered /\ l \notin forgotten /\ IsKnown(t) /\ Mutable(t)
      /\ ~ IsKnown(l) /\ l # t
      /\ proposals' = proposals \cup {Proposal(l, x)}
      /\ lessons' = [lessons EXCEPT ![l] = NewRow(x), ![t].state = "superseded"]
      /\ autoExpiry' = autoExpiry \ {t} /\ conflicts' = conflicts \ {t}
      /\ noticeWork' = (IF NoticeEligible(l)' THEN noticeWork \cup {l} ELSE noticeWork) \ {t}
  BY DEF Supersede, Admits, Related
<1>2. /\ NewRow(x) \in Rows /\ NewRow(x).state = "candidate"
      /\ NewRow(x).wording = x /\ NewRow(x).source = learner.window
  BY <1>1, NewRowIsRow
<1> DEFINE made == NewRow(x)
<1> HIDE DEF made
<1>3. lessons' = [k \in Lessons |-> IF k = l THEN made
                                    ELSE IF k \in {t} THEN [lessons[k] EXCEPT !.state = "superseded"]
                                    ELSE lessons[k]]
  <2>1. lessons' = [lessons EXCEPT ![l] = made, ![t].state = "superseded"]
    BY <1>1 DEF made
  <2> QED BY <1>1, <2>1 DEF LessonsInv, TypeOK
<1>4. Replaces(l, made, {t})
  BY <1>1, <1>2, <1>3 DEF Replaces, NewText, made
<1> QED BY <1>1, <1>4, ReplacesKeep
-------------------------------------------------------------------------------
(* What has expired, notices and descriptions *)

LEMMA ArchiveKeeps ==
    ASSUME LessonsInv, Archive
    PROVE  LessonsInv' /\ \A k \in Lessons : UserWordStands(k)
<1>1. PICK l \in Lessons : l = learner.lesson
  BY DEF Archive, LessonsInv, Held
<1> DEFINE made == [learner.row EXCEPT !.state = "archived"]
<1>2. /\ learner.row \in Rows /\ IsKnown(l)
      /\ lessons[l].wording = learner.row.wording /\ lessons[l].source = learner.row.source
  BY <1>1 DEF Archive, LessonsInv, Held
<1>3. PICK r \in Rows :
        /\ r.state = "archived" /\ r.wording = lessons[l].wording /\ r.source = lessons[l].source
        /\ lessons' = [lessons EXCEPT ![l] = r]
  <2>1. made \in Rows /\ made.state = "archived" /\ made.wording = learner.row.wording
        /\ made.source = learner.row.source
    BY <1>2 DEF Rows, States
  <2>2. lessons' = [lessons EXCEPT ![l] = made]
    BY <1>1 DEF Archive
  <2> HIDE DEF made
  <2> QED BY <1>2, <2>1, <2>2
<1>4. /\ autoExpiry' = autoExpiry \cup {l} /\ noticeWork' = noticeWork \ {l}
      /\ learner' = Nothing
      /\ UNCHANGED <<now, sources, proposals, conflicts, notices, enrichment, userVars, notifier, announced>>
  BY <1>1 DEF Archive
<1>5. lessons'[l] = r /\ \A k \in Lessons : k # l => lessons'[k] = lessons[k]
  BY <1>3 DEF LessonsInv, TypeOK
<1>6. \A k \in Lessons : IsKnown(k)' <=> IsKnown(k)
  BY <1>2, <1>5, LessonsAssumption DEF IsKnown
<1>7. TypeOK'
  <2>1. lessons' \in [Lessons -> Rows \cup {Nothing}]
    BY <1>3 DEF LessonsInv, TypeOK
  <2> QED BY <1>4, <2>1 DEF LessonsInv, TypeOK, sources, userVars
<1>8. Rested'
  <2>1. \A p \in proposals' : p.revision <= content'[p.window]
    BY <1>4 DEF LessonsInv, Rested, sources
  <2> QED BY <1>3, <1>4, <1>5, <1>6, <2>1, RestedKept DEF LessonsInv
<1>9. Buried'
  <2>1. \A k \in forgotten \cup judged : k \in Lessons
    BY DEF LessonsInv, TypeOK
  <2>2. HasActiveDeletion' => HasActiveDeletion /\ deletion \in Lessons
    BY <1>4 DEF HasActiveDeletion, userVars, LessonsInv, TypeOK
  <2> QED BY <1>4, <1>6, <2>1, <2>2 DEF LessonsInv, Buried, userVars
<1>10. Held' /\ Noticed' /\ DescribedSo'
  BY <1>4 DEF LessonsInv, Held, At, Noticed, DescribedSo, userVars, Claimed, IsDescription
<1>11. Waiting'
  <2>1. \A k \in Lessons : NoticeEligible(k)' => k # l
    BY <1>3, <1>5 DEF NoticeEligible, Usable
  <2> QED BY <1>4, <1>5, <1>7, <2>1, WaitingKept, NowStays DEF sources, userVars, LessonsInv
<1>12. ASSUME NEW k \in Lessons PROVE UserWordStands(k)
  BY <1>3, <1>5, <1>6 DEF UserWordStands
<1> QED BY <1>7, <1>8, <1>9, <1>10, <1>11, <1>12 DEF LessonsInv

\* What the publisher does touches the notices alone.
LEMMA PublishingKeeps ==
    ASSUME LessonsInv, TypeOK', Noticed', Waiting',
           UNCHANGED <<sources, tables, enrichment, userVars, learner>>
    PROVE  LessonsInv'
<1>1. Rested' /\ Buried' /\ DescribedSo' /\ Held'
  BY DEF LessonsInv, Rested, ReviewedProposals, Buried, DescribedSo, Held, At, HasActiveDeletion,
         IsKnown, IsDescription, sources, tables, userVars
<1> QED BY <1>1 DEF LessonsInv

LEMMA ClaimKeeps ==
    ASSUME LessonsInv, NEW l \in Lessons, Claim(l) PROVE LessonsInv'
<1>1. /\ notifier # Nothing /\ l \in noticeWork /\ l \notin notifier
      /\ notifier' = (IF l \in notices THEN notifier ELSE notifier \cup {l})
      /\ notices' = notices \cup {l} /\ noticeWork' = noticeWork \ {l}
      /\ l \notin forgotten
      /\ UNCHANGED <<now, sources, tables, enrichment, userVars, learner, announced>>
  BY DEF Claim, NoticeEligible, Mutable
<1>2. TypeOK'
  BY <1>1 DEF LessonsInv, TypeOK, sources, tables, userVars
<1>3. Noticed'
  <2>1. Claimed = notifier /\ Claimed' \subseteq notifier'
    BY <1>1 DEF Claimed
  <2>2. l \notin notices => announced[l] = 0
    BY <1>1 DEF LessonsInv, Noticed, TypeOK
  <2> QED BY <1>1, <2>1, <2>2 DEF LessonsInv, Noticed, userVars
<1>4. Waiting'
  BY <1>1, <1>2, WaitingKept, NowStays DEF sources, tables, userVars, LessonsInv
<1> QED BY <1>1, <1>2, <1>3, <1>4, PublishingKeeps

LEMMA PublishKeeps == ASSUME LessonsInv, Publish PROVE LessonsInv'
<1>1. /\ notifier # Nothing /\ notifier' = Nothing
      /\ \A l \in Lessons : announced'[l] = IF l \in notifier THEN announced[l] + 1 ELSE announced[l]
      /\ announced' = [l \in Lessons |-> announced'[l]]
      /\ UNCHANGED <<now, sources, tables, noticeTables, enrichment, userVars, learner>>
  BY DEF Publish
<1>2. TypeOK'
  <2>1. \A l \in Lessons : announced'[l] \in Nat
    BY <1>1 DEF LessonsInv, TypeOK
  <2> QED BY <1>1, <2>1 DEF LessonsInv, TypeOK, sources, tables, noticeTables, userVars
<1>3. Noticed'
  <2>1. Claimed = notifier /\ Claimed' = {}
    BY <1>1 DEF Claimed
  <2> QED BY <1>1, <2>1 DEF LessonsInv, Noticed, userVars, noticeTables
<1>4. Waiting'
  BY <1>1, <1>2, WaitingKept, NowStays DEF sources, tables, noticeTables, userVars, LessonsInv
<1> QED BY <1>1, <1>2, <1>3, <1>4, PublishingKeeps

LEMMA FailToPublishKeeps == ASSUME LessonsInv, FailToPublish PROVE LessonsInv'
<1>1. /\ notifier # Nothing /\ notifier' = Nothing
      /\ notices' = notices \ notifier
      /\ noticeWork' = noticeWork \cup {l \in notifier : IsKnown(l)}
      /\ UNCHANGED <<now, sources, tables, enrichment, userVars, learner, announced>>
  BY DEF FailToPublish
<1>2. TypeOK'
  BY <1>1 DEF LessonsInv, TypeOK, sources, tables, userVars
<1>3. Noticed'
  <2>1. Claimed = notifier /\ Claimed' = {}
    BY <1>1 DEF Claimed
  <2> QED BY <1>1, <2>1, <1>2 DEF LessonsInv, Noticed, userVars, TypeOK
<1>4. Waiting'
  <2>1. \A l \in Lessons : NoticeEligible(l)' => IsKnown(l)
    BY <1>1 DEF NoticeEligible, Usable, IsKnown, tables
  <2> QED BY <1>1, <1>2, <2>1, WaitingKept, NowStays DEF sources, tables, userVars, LessonsInv
<1> QED BY <1>1, <1>2, <1>3, <1>4, PublishingKeeps


\* What the description of a lesson changes: the lesson's job alone.
LEMMA DescribingKeeps ==
    ASSUME LessonsInv, DescribedSo', Held',
           UNCHANGED <<now, sources, tables, noticeTables, userVars, notifier, announced>>
    PROVE  LessonsInv'
<1>1. TypeOK'
  BY DEF LessonsInv, TypeOK, sources, tables, noticeTables, userVars
<1>2. Rested' /\ Buried' /\ Noticed'
  BY DEF LessonsInv, Rested, ReviewedProposals, Buried, Noticed, HasActiveDeletion, IsKnown, Claimed,
         sources, tables, noticeTables, userVars
<1>3. Waiting'
  BY <1>1, WaitingKept, NowStays DEF sources, tables, noticeTables, userVars, LessonsInv
<1> QED BY <1>1, <1>2, <1>3 DEF LessonsInv

\* A job whose fields are as they should be
Sound(job) ==
    job # Nothing =>
        /\ IsDescription(job)
        /\ job.state = "accepted" => job.about = job.digest

LEMMA ScheduledAreSound ==
    ASSUME LessonsInv
    PROVE  /\ Scheduled = [l \in Lessons |-> Scheduled[l]]
           /\ \A l \in Lessons : Sound(Scheduled[l])
<1>1. ASSUME NEW l \in Lessons PROVE Sound(Scheduled[l])
  <2> DEFINE new == [state |-> "pending", attempts |-> 0, digest |-> Digest(l), about |-> Nothing]
  <2>1. Scheduled[l] = new \/ Scheduled[l] = enrichment[l]
    BY DEF Scheduled
  <2>2. Sound(new)
    BY DEF Sound, IsDescription
  <2>3. Sound(enrichment[l])
    BY DEF LessonsInv, DescribedSo, Sound
  <2> QED BY <2>1, <2>2, <2>3
<1> QED BY <1>1 DEF Scheduled

LEMMA SoundAfter ==
    ASSUME NEW jobs, jobs = [l \in Lessons |-> jobs[l]], \A l \in Lessons : Sound(jobs[l]),
           NEW l \in Lessons, NEW job, IsDescription(job), job.state = "accepted" => job.about = job.digest,
           enrichment' = [jobs EXCEPT ![l] = job]
    PROVE  DescribedSo'
<1>1. enrichment'[l] = job /\ \A k \in Lessons : k # l => enrichment'[k] = jobs[k]
  OBVIOUS
<1>2. enrichment' = [k \in Lessons |-> enrichment'[k]]
  OBVIOUS
<1> QED BY <1>1, <1>2 DEF DescribedSo, Sound, IsDescription

Ended(job, new, s, a, about) ==
    new = [job EXCEPT !.state = s, !.attempts = a, !.about = about]
Started(job, new, a) == new = [job EXCEPT !.state = "running", !.attempts = a]

LEMMA FieldsAfter ==
    ASSUME NEW job, IsDescription(job), NEW s, NEW a, NEW about, NEW new, Ended(job, new, s, a, about)
    PROVE  IsDescription(new) /\ new.state = s /\ new.about = about /\ new.digest = job.digest
<1>1. job = [state |-> job.state, attempts |-> job.attempts, digest |-> job.digest, about |-> job.about]
  BY DEF IsDescription
<1>2. new = [state |-> s, attempts |-> a, digest |-> job.digest, about |-> about]
  BY <1>1 DEF Ended
<1> QED BY <1>2 DEF IsDescription

LEMMA FieldsOfStarted ==
    ASSUME NEW job, IsDescription(job), NEW a, NEW new, Started(job, new, a)
    PROVE  IsDescription(new) /\ new.state = "running" /\ new.digest = job.digest
<1>1. job = [state |-> job.state, attempts |-> job.attempts, digest |-> job.digest, about |-> job.about]
  BY DEF IsDescription
<1>2. new = [state |-> "running", attempts |-> a, digest |-> job.digest, about |-> job.about]
  BY <1>1 DEF Started
<1> QED BY <1>2 DEF IsDescription

LEMMA DescribeKeeps == ASSUME LessonsInv, Describe PROVE LessonsInv'
<1>1. /\ learner = Nothing
      /\ UNCHANGED <<now, sources, tables, noticeTables, userVars, notifier, announced>>
  BY DEF Describe
<1>2. PICK l \in Due(Scheduled) :
        \/ /\ \/ enrichment' = [Scheduled EXCEPT ![l].state = "superseded"]
              \/ enrichment' = [Scheduled EXCEPT ![l].state = "failed"]
           /\ learner' = learner
        \/ /\ DiscoveryEnrichmentCandidate(l, Scheduled[l])
           /\ enrichment' = [Scheduled EXCEPT ![l].state = "running", ![l].attempts = @ + 1]
           /\ learner' = [pc |-> "describe", lesson |-> l, about |-> Digest(l)]
  BY DEF Describe
<1>3. l \in Lessons /\ Scheduled[l] # Nothing
  BY <1>2 DEF Due
<1>4. /\ Scheduled = [k \in Lessons |-> Scheduled[k]]
      /\ \A k \in Lessons : Sound(Scheduled[k])
  BY ScheduledAreSound
<1> DEFINE job == Scheduled[l]
<1>5. IsDescription(job)
  BY <1>3, <1>4 DEF Sound
<1>6. ASSUME NEW s, s # "accepted", enrichment' = [Scheduled EXCEPT ![l].state = s], learner' = learner
      PROVE  LessonsInv'
  <2> DEFINE new == [job EXCEPT !.state = s]
  <2>1. IsDescription(new) /\ new.state = s
    BY <1>5 DEF IsDescription
  <2>2. enrichment' = [Scheduled EXCEPT ![l] = new]
    BY <1>6
  <2> HIDE DEF new
  <2>3. DescribedSo'
    BY <1>3, <1>4, <1>6, <2>1, <2>2, SoundAfter
  <2>4. Held'
    BY <1>1, <1>6 DEF Held, At
  <2> QED BY <1>1, <2>3, <2>4, DescribingKeeps
<1>7. CASE /\ DiscoveryEnrichmentCandidate(l, job)
           /\ enrichment' = [Scheduled EXCEPT ![l].state = "running", ![l].attempts = @ + 1]
           /\ learner' = [pc |-> "describe", lesson |-> l, about |-> Digest(l)]
  <2> DEFINE new == [job EXCEPT !.state = "running", !.attempts = @ + 1]
  <2>1. IsDescription(new) /\ new.state = "running" /\ new.digest = job.digest
    <3> DEFINE a == job.attempts + 1
    <3>1. Started(job, new, a)
      BY DEF Started
    <3> HIDE DEF new, job, a
    <3> QED BY <1>5, <3>1, FieldsOfStarted
  <2>2. enrichment' = [Scheduled EXCEPT ![l] = new]
    BY <1>7
  <2> HIDE DEF new
  <2>3. DescribedSo'
    BY <1>3, <1>4, <2>1, <2>2, SoundAfter
  <2>4. Held'
    <3>1. enrichment'[l] = new
      BY <1>3, <1>4, <2>2
    <3>2. Digest(l) = job.digest
      BY <1>7 DEF DiscoveryEnrichmentCandidate
    <3> QED BY <1>3, <1>7, <2>1, <3>1, <3>2 DEF Held, At, IsDescription
  <2> QED BY <1>1, <2>3, <2>4, DescribingKeeps
<1> QED BY <1>2, <1>6, <1>7

LEMMA EndDescriptionKeeps ==
    ASSUME LessonsInv, NEW s, NEW a, NEW about, EndDescription(s, a, about),
           s = "accepted" => about = learner.about
    PROVE  LessonsInv'
<1>1. /\ At("describe") /\ learner' = Nothing
      /\ UNCHANGED <<now, sources, tables, noticeTables, userVars, notifier, announced>>
  BY DEF EndDescription
<1>2. PICK l \in Lessons : l = learner.lesson
  BY <1>1 DEF LessonsInv, Held
<1>3. IsDescription(enrichment[l]) /\ learner.about = enrichment[l].digest
  BY <1>1, <1>2 DEF LessonsInv, Held
<1>4. Held'
  BY <1>1 DEF Held, At
<1>5. DescribedSo'
  <2>1. CASE enrichment' = enrichment
    BY <2>1 DEF LessonsInv, DescribedSo, IsDescription
  <2>2. CASE ~ HasActiveDeletion
    <3> DEFINE new == [enrichment[l] EXCEPT !.state = s, !.attempts = a, !.about = about]
    <3>1. /\ IsDescription(new) /\ new.state = s /\ new.about = about
          /\ new.digest = enrichment[l].digest
      <4>1. Ended(enrichment[l], new, s, a, about)
        BY DEF Ended
      <4> HIDE DEF new
      <4> QED BY <1>3, <4>1, FieldsAfter
    <3>2. enrichment' = [enrichment EXCEPT ![l] = new]
      BY <1>2, <2>2 DEF EndDescription
    <3> HIDE DEF new
    <3>3. /\ enrichment = [k \in Lessons |-> enrichment[k]]
          /\ \A k \in Lessons : Sound(enrichment[k])
      BY DEF LessonsInv, DescribedSo, Sound
    <3> QED BY <1>3, <3>1, <3>2, <3>3, SoundAfter
  <2> QED BY <2>1, <2>2 DEF EndDescription
<1> QED BY <1>1, <1>4, <1>5, DescribingKeeps

LEMMA DescriberKeeps ==
    ASSUME LessonsInv,
           \/ CommitReview("accepted") \/ CommitReview("rejected") \/ Outdated \/ Fails
    PROVE  LessonsInv'
<1>1. CASE CommitReview("accepted")
  <2>1. EndDescription("accepted", Attempts, learner.about)
    BY <1>1 DEF CommitReview
  <2> QED BY <2>1, EndDescriptionKeeps
<1>2. CASE CommitReview("rejected")
  <2>1. EndDescription("rejected", Attempts, Nothing)
    BY <1>2 DEF CommitReview
  <2> QED BY <2>1, EndDescriptionKeeps
<1>3. CASE Outdated
  <2>1. EndDescription("superseded", Attempts, Nothing)
    BY <1>3 DEF Outdated
  <2> QED BY <2>1, EndDescriptionKeeps
<1>4. CASE Fails
  <2>1. EndDescription("failed", Attempts, Nothing) \/ EndDescription("paused", Attempts - 1, Nothing)
    BY <1>4 DEF Fails
  <2> QED BY <2>1, EndDescriptionKeeps
<1> QED BY <1>1, <1>2, <1>3, <1>4
-------------------------------------------------------------------------------
LEMMA ProseInitHolds == ASSUME ProseInit PROVE LessonsInv
<1>1. TypeOK
  BY LessonsAssumption DEF ProseInit, TypeOK
<1>2. Rested /\ Buried /\ Waiting
  BY DEF ProseInit, Rested, Buried, Waiting, IsKnown, HasActiveDeletion, NoticeEligible, Usable
<1>3. Held /\ Noticed /\ DescribedSo
  BY DEF ProseInit, Held, At, Noticed, Claimed, DescribedSo
<1> QED BY <1>1, <1>2, <1>3 DEF LessonsInv

\* Steps that are not an answer leave the rows to the user and to erasure.
AnswerStep ==
    \/ \E x \in Wordings : Alone(x)
    \/ \E x \in Wordings, t \in Lessons : Equivalent(t, x)
    \/ \E x \in Wordings, t, l \in Lessons : Supersede(t, l, x)
    \/ Archive

LEMMA AnswerStepKeeps ==
    ASSUME LessonsInv, AnswerStep PROVE LessonsInv' /\ \A l \in Lessons : UserWordStands(l)
BY AloneKeeps, EquivalentKeeps, SupersedeKeeps, ArchiveKeeps DEF AnswerStep

LEMMA ProseNextKeeps == ASSUME LessonsInv, [ProseNext]_proseVars PROVE LessonsInv'
<1>1. CASE UNCHANGED proseVars
  <2>1. StoreUntouched /\ learner' = learner /\ now' = now /\ notifier' = notifier
    BY <1>1 DEF proseVars, StoreUntouched
  <2>2. now \in 0..MaxClock /\ now <= now
    BY LessonsAssumption DEF LessonsInv, TypeOK
  <2> QED BY <2>1, <2>2, UntouchedKeeps, HeldStays DEF LessonsInv, Claimed
<1>2. CASE Tick \/ (\E w \in Windows : CaptureWindow(w) \/ Enrich(w)) \/ User \/ EraseLesson
  BY <1>2, TickKeeps, CaptureWindowKeeps, EnrichKeeps, GiveVerdictKeeps, ForgetLessonKeeps, EraseLessonKeeps
     DEF User
<1>3. CASE Learner
  BY <1>3, AskModelKeeps, GiveUpKeeps, ReadExpiredKeeps, AnswerStepKeeps DEF Learner, AnswerStep
<1>4. CASE Describer \/ Fails \/ DescriberDies
  BY <1>4, DescribeKeeps, DescriberKeeps, GiveUpKeeps DEF Describer
<1>5. CASE Notifier \/ FailToPublish \/ NotifierDies
  BY <1>5, PublisherMovesKeep, ClaimKeeps, PublishKeeps, FailToPublishKeeps DEF Notifier
<1> QED BY <1>1, <1>2, <1>3, <1>4, <1>5 DEF ProseNext

\* A known lesson rests on a reviewed answer, a forgotten one is known only while it
\* is being erased, a notice is claimed or was seen once and then remembered, a lesson
\* the search may use has one or waits for it, and an accepted description is of the
\* digest its job was made of.
THEOREM LessonsInvariantHolds == ProseSpec => []LessonsInv
<1>1. ProseInit => LessonsInv
  BY ProseInitHolds
<1>2. LessonsInv /\ [ProseNext]_proseVars => LessonsInv'
  BY ProseNextKeeps
<1> QED BY <1>1, <1>2, PTL DEF ProseSpec

\* The rows, the proposals, the lists and the claims are what they are said to be.
THEOREM LessonsAreTyped == ProseSpec => []TypeOK
<1>1. LessonsInv => TypeOK
  BY DEF LessonsInv
<1> QED BY <1>1, LessonsInvariantHolds, PTL

\* The user is told of a lesson at most once, and one the search may use is
\* announced or waits for it, whatever becomes of it and of its publishers.
THEOREM ToldAtMostOnce == ProseSpec => []ToldOnce
<1>1. LessonsInv => ToldOnce
  BY DEF LessonsInv, Noticed, Waiting, ToldOnce
<1> QED BY <1>1, LessonsInvariantHolds, PTL

\* What the search is told of a lesson was written about it as it is.
THEOREM DescriptionsAreOfTheLesson == ProseSpec => []DescribedAsItIs
<1>1. LessonsInv => DescribedAsItIs
  BY DEF LessonsInv, DescribedSo, DescribedAsItIs, Described, DiscoveryEnrichmentCandidate
<1> QED BY <1>1, LessonsInvariantHolds, PTL

LEMMA OthersLeaveTheUserAlone ==
    ASSUME LessonsInv, [ProseNext]_proseVars, ~ AnswerStep, NEW l \in Lessons PROVE UserWordStands(l)
<1>1. CASE UNCHANGED lessons
  BY <1>1 DEF UserWordStands, IsKnown
<1>2. CASE \E k \in Lessons : GiveVerdict(k)
  <2>1. PICK k \in Lessons : GiveVerdict(k)
    BY <1>2
  <2>2. /\ learner' = learner /\ IsKnown(k)
        /\ \E made : lessons' = [lessons EXCEPT ![k] = made]
    BY <2>1 DEF GiveVerdict
  <2>3. k # l => lessons'[l] = lessons[l]
    BY <2>2 DEF LessonsInv, TypeOK
  <2> QED BY <2>2, <2>3 DEF UserWordStands, IsKnown
<1>3. CASE EraseLesson
  <2>1. learner' = learner /\ lessons' = [lessons EXCEPT ![deletion] = Nothing]
    BY <1>3 DEF EraseLesson
  <2>2. lessons'[l] = lessons[l] \/ lessons'[l] = Nothing
    BY <2>1 DEF LessonsInv, TypeOK
  <2> QED BY <2>1, <2>2 DEF UserWordStands, IsKnown
<1>4. CASE UNCHANGED proseVars
  BY <1>1, <1>4 DEF proseVars, tables
<1>5. CASE Tick \/ (\E w \in Windows : CaptureWindow(w) \/ Enrich(w)) \/ \E k \in Lessons : ForgetLesson(k)
  BY <1>1, <1>5 DEF Tick, CaptureWindow, Enrich, ForgetLesson, tables
<1>6. CASE (\E w \in Windows : AskModel(w)) \/ GiveUp \/ \E k \in Lessons : ReadExpired(k)
  BY <1>1, <1>6 DEF AskModel, GiveUp, ReadExpired, tables
<1>7. CASE Describer \/ Fails \/ DescriberDies
  BY <1>1, <1>7 DEF Describer, Describe, CommitReview, Outdated, Fails, EndDescription, DescriberDies, tables
<1>8. CASE Notifier \/ FailToPublish \/ NotifierDies
  BY <1>1, <1>8 DEF Notifier, StartNotifier, Claim, Publish, FailToPublish, NotifierDies, tables
<1> QED BY <1>2, <1>3, <1>4, <1>5, <1>6, <1>7, <1>8 DEF ProseNext, User, Learner, AnswerStep

\* What an answer on its own leaves on offer
LEMMA AloneYieldsToPeers ==
    ASSUME LessonsInv, NEW x \in Wordings, Alone(x) PROVE YieldsToPeers(x)
<1> DEFINE l == Home[x]
           S == {k \in Contradicted(l, x) : Mutable(k) /\ lessons[k].state = "candidate"}
<1>1. /\ l \in Lessons /\ ~ HasActiveDeletion /\ StillSent /\ Answered /\ At("infer") /\ l \notin forgotten
  BY LessonsAssumption DEF Alone, StillSent, Admits
<1>2. ASSUME NEW k \in Lessons \ {l}, OnOffer(k), lessons[k].wording # x
      PROVE  k \in Contradicted(l, x) /\ (k \notin judged => Mutable(k))
  <2>1. k \notin forgotten
    BY <1>1, <1>2, LessonsAssumption DEF LessonsInv, Buried, HasActiveDeletion, OnOffer
  <2>2. PICK p \in proposals : p.lesson = k
    BY <1>2 DEF LessonsInv, Rested, OnOffer, ReviewedProposals
  <2> QED BY <1>2, <2>1, <2>2 DEF Contradicted, OnOffer, Mutable
<1>3. CASE Contradicted(l, x) # {}
  <2>1. PutInDispute(S)
    BY <1>3 DEF Alone
  <2>2. \A k \in Lessons : lessons'[k] = IF k \in S THEN [lessons[k] EXCEPT !.state = "disputed"]
                                       ELSE lessons[k]
    BY <2>1 DEF PutInDispute
  <2>3. ASSUME NEW k \in S PROVE lessons'[k].state = "disputed"
    <3>1. k \in Lessons /\ lessons[k] \in Rows
      BY DEF Contradicted, IsKnown, LessonsInv, TypeOK
    <3>2. lessons'[k] = [lessons[k] EXCEPT !.state = "disputed"]
      BY <2>2, <3>1
    <3> QED BY <3>1, <3>2 DEF Rows
  <2>4. ASSUME NEW k \in Lessons \ {l}, OnOffer(k)', lessons'[k].wording # x PROVE k \in judged
    <3>1. k \notin S
      BY <2>3, <2>4 DEF OnOffer
    <3>2. lessons'[k] = lessons[k]
      BY <2>2, <3>1
    <3>3. OnOffer(k) /\ lessons[k].wording # x
      BY <2>4, <3>2 DEF OnOffer, IsKnown
    <3> QED BY <1>2, <3>1, <3>3 DEF OnOffer
  <2>5. lessons'[l] = lessons[l]
    BY <1>1, <2>2 DEF Contradicted
  <2> QED BY <2>4, <2>5 DEF YieldsToPeers
<1>4. CASE Contradicted(l, x) = {}
  <2>1. \A k \in Lessons \ {l} : OnOffer(k) => lessons[k].wording = x
    BY <1>2, <1>4
  <2>2. Record(l, x, FALSE) /\ judged' = judged
    BY <1>4 DEF Alone, Answered, userVars
  <2> HIDE DEF l
  <2>3. \/ IsKnown(l) /\ Disputes({l})
        \/ \E made \in Rows : made.state = "candidate" /\ made.wording = x /\ Writes(l, made)
        \/ Keeps(l, x)
    BY <1>1, <2>2, RecordIsOneOfThree
  <2>4. \A k \in Lessons \ {l} : lessons'[k] = lessons[k]
    <3>1. CASE Disputes({l})
      BY <3>1 DEF Disputes, PutInDispute
    <3>2. CASE \E made \in Rows : Writes(l, made)
      BY <3>2 DEF Writes, LessonsInv, TypeOK
    <3>3. CASE Keeps(l, x)
      BY <3>3 DEF Keeps
    <3> QED BY <2>3, <3>1, <3>2, <3>3
  <2>5. \A k \in Lessons \ {l} : OnOffer(k)' => lessons'[k].wording = x
    BY <2>1, <2>4 DEF OnOffer, IsKnown
  <2>6. OnOffer(l)' /\ lessons'[l] # lessons[l] => lessons'[l].wording = x
    <3>1. CASE IsKnown(l) /\ Disputes({l})
      <4>1. lessons'[l] = [lessons[l] EXCEPT !.state = "disputed"] /\ lessons[l] \in Rows
        BY <1>1, <3>1 DEF Disputes, PutInDispute, IsKnown, LessonsInv, TypeOK
      <4>2. lessons'[l].state = "disputed"
        BY <4>1 DEF Rows
      <4> QED BY <4>2 DEF OnOffer
    <3>2. CASE \E made \in Rows : made.wording = x /\ Writes(l, made)
      BY <1>1, <3>2 DEF Writes, LessonsInv, TypeOK
    <3>3. CASE Keeps(l, x)
      BY <3>3 DEF Keeps
    <3> QED BY <2>3, <3>1, <3>2, <3>3
  <2>7. YieldsToPeers(x)
    <3>1. \A k \in Lessons : k = l \/ k \in Lessons \ {l}
      OBVIOUS
    <3> QED BY <2>5, <2>6, <3>1 DEF YieldsToPeers, l
  <2> QED BY <2>7
<1> QED BY <1>3, <1>4

\* A model's answer changes nothing the user has judged and brings nothing back that
\* was forgotten; and one that was not reviewed against the other lessons of its
\* concept leaves no other voice on offer, and adds none to others.
THEOREM AnswersAlwaysYield == ProseSpec => AnswersYield
<1>1. ASSUME LessonsInv, [ProseNext]_proseVars
      PROVE  [/\ \A l \in Lessons : UserWordStands(l)
              /\ \A x \in Wordings : Alone(x) => YieldsToPeers(x)]_proseVars
  <2>1. \A l \in Lessons : UserWordStands(l)
    BY <1>1, AnswerStepKeeps, OthersLeaveTheUserAlone
  <2>2. \A x \in Wordings : Alone(x) => YieldsToPeers(x)
    BY <1>1, AloneYieldsToPeers
  <2> QED BY <2>1, <2>2
<1> QED BY <1>1, LessonsInvariantHolds, PTL DEF ProseSpec, AnswersYield

-------------------------------------------------------------------------------
(* ErasureClosure: the invariant *)

\* References and ids of some kinds.
OnlyOf(refs, kinds) == \A x \in refs : x[1] \in kinds /\ x = <<x[1], x[2]>>

TargetIds ==
    ({"source"} \X Events) \cup ({"session"} \X EventSessions)
      \cup ({"episode"} \X ((SUBSET EventSessions) \ {{}})) \cup ({"knowledge"} \X KnowledgeIds)

\* What the feedback of an id is of: a piece of knowledge, and the session that is
\* muted for it or the rule that replaces it.
FeedbackRefs(id) ==
    {Piece(id[2])} \cup (IF id[1] = "word" THEN {}
                         ELSE IF id[1] \in Rules THEN {Piece(id[1])} ELSE {<<"session", id[1]>>})

IsEpisode(r) == OnlyOf(r.refs, {"event", "session"}) /\ Id(r) # {} /\ Id(r) \subseteq EventSessions
IsLink(r) == OnlyOf(r.refs, {"event", "session"})
IsContext(r) == OnlyOf(r.refs, {"event", "episode"})
IsKey(r) == r = RowOf("key", "key", EventRefs({Corrects, Proves}))
IsOpportunity(r) == r.refs = {<<"episode", Id(r)>>, <<"key", "key">>}
IsJob(r) == Id(r) \in Jobs /\ r.refs = EventRefs({LearnsFrom[Id(r)]})
IsProposal(r) ==
    \E j \in Jobs : \E k \in Learns[j] :
        /\ Id(r) = <<j, k>> /\ Reviewed[j] \subseteq Learnable
        /\ r.refs = {<<"job", j>>, Piece(k)} \cup {Piece(x) : x \in Reviewed[j]}
IsFeedback(r) == r.refs = FeedbackRefs(Id(r))
IsMute(r) == \E s, k \in KnowledgeIds \cup EventSessions :
                 r.refs = {Piece(k), <<"session", s>>, <<"feedback", <<s, k>>>>}
IsUseRow(r) == OnlyOf(r.refs, {"session", "episode", "context", "knowledge"})
IsPiece(r) ==
    /\ Id(r) \in KnowledgeIds
    /\ r.state = "candidate" => Id(r) \in Learnable
    /\ Id(r) \in Rules => r.refs = {Piece(k) : k \in r.replaces}
    /\ Id(r) \notin Rules => OnlyOf(r.refs, {"event", "episode"}) /\ r.replaces = {}

Tables ==
    {"work_episode", "link", "context", "key", "opportunity", "job", "proposal", "feedback", "mute", "use",
     "knowledge"}

ShapeOfTable(r) ==
    /\ Table(r) = "work_episode" => IsEpisode(r)
    /\ Table(r) = "link" => IsLink(r)
    /\ Table(r) = "context" => IsContext(r)
    /\ Table(r) = "key" => IsKey(r)
    /\ Table(r) = "opportunity" => IsOpportunity(r)
    /\ Table(r) = "job" => IsJob(r)
    /\ Table(r) = "proposal" => IsProposal(r)
    /\ Table(r) = "feedback" => IsFeedback(r)
    /\ Table(r) = "mute" => IsMute(r)
    /\ Table(r) = "use" => IsUseRow(r)
    /\ Table(r) = "knowledge" => IsPiece(r)

HasShape(r) ==
    /\ r = [self |-> r.self, refs |-> r.refs, state |-> r.state, replaces |-> r.replaces]
    /\ r.self = <<Table(r), Id(r)>> /\ Table(r) \in Tables
    /\ Table(r) # "knowledge" => r.state = "row" /\ r.replaces = {}
    /\ ShapeOfTable(r)

DependentKinds ==
    {"knowledge", "job", "proposal", "work_episode", "link", "feedback", "use", "key", "opportunity"}

OperationFits ==
    /\ operation = [target |-> operation.target, sources |-> operation.sources, sessions |-> operation.sessions,
                    seeds |-> operation.seeds, dependents |-> operation.dependents]
    /\ operation.target \in {NoTarget} \cup TargetIds
    /\ call \in {"idle", "rebuild", "select", "erase", "settle", "gate"}
    /\ ~ DeletionIsActive => call = "idle" /\ operation = NoOperation
    /\ OnlyOf(operation.dependents, DependentKinds)
    /\ DeletionIsActive =>
          /\ Is("knowledge") => operation.sources = {} /\ operation.sessions = {}
          /\ Is("episode") => \/ operation.sessions = TargetId
                              \/ operation.sessions = {} /\ operation.sources = {}

\* Nothing that is left names what a completed operation erased.
TombsAreFree ==
    /\ OnlyOf(tombs, {"event", "session", "episode"})
    /\ \A e \in raw : ~ Blocked(e)
    /\ \A r \in stored : r.refs \cap tombs = {}

\* Rows that would be taken for each other have different ids.
SelvesDiffer(R) ==
    \A r, x \in R :
        /\ r.self = x.self
        /\ Table(r) = "use" \/ (Table(r) = "knowledge" /\ Id(r) \notin Learnable)
        => r = x

\* A job's event is there; a lesson's job, with the proposal of it, is.
JobsHaveEvents(R, T) == \A r \in R : Table(r) = "job" => LearnsFrom[Id(r)] \in T

LessonsHaveJobs(R) ==
    \A r \in R : Table(r) = "knowledge" /\ Id(r) \in Learnable =>
        \E j \in Jobs :
            /\ Id(r) \in Learns[j] /\ r.refs = EventRefs({LearnsFrom[j]})
            /\ \E x \in R : x.self = <<"job", j>>
            /\ \E x \in R : x.self = <<"proposal", <<j, Id(r)>>>>

RowsFit(R, T) ==
    /\ IsFiniteSet(R) /\ \A r \in R : HasShape(r)
    /\ SelvesDiffer(R) /\ JobsHaveEvents(R, T) /\ LessonsHaveJobs(R)

\* The plan has a proposal with all that it names, or nothing of it.
PlanIsWhole ==
    \A q \in In("proposal") :
        ({q.self} \cup q.refs) \cap operation.dependents # {} =>
            {q.self, <<"job", Id(q)[1]>>, Piece(Id(q)[2])} \subseteq operation.dependents

\* What an erasure put into the plan does not come back while the operation lasts.
DependentsStayAway ==
    /\ \A r \in stored : Table(r) \in {"feedback", "use", "key", "opportunity"} => r.self \notin operation.dependents
    /\ \A x \in operation.dependents :
          x[1] \in {"work_episode", "link"} => ~ x[2] \subseteq Present(raw)

\* Only a user's rule may name what is suppressed, as long as the operation lasts.
SuppressedIsGone ==
    \A k \in suppressed, r \in stored :
        /\ r.self # Piece(k)
        /\ Piece(k) \in r.refs =>
              /\ Table(r) = "knowledge" /\ DeletionIsActive
              /\ Piece(k) \in operation.dependents

Planned ==
    /\ call \in {"select", "erase"} => In("work_episode") = EpisodeRows(raw)
    /\ call = "erase" =>
          /\ Named \subseteq operation.sources /\ TargetSessions \subseteq operation.sessions
          /\ \A e \in raw : \/ SessionOf[e] \in operation.sessions
                            \/ RefersTo[e] \cap operation.sources # {}
                            => e \in operation.sources
          /\ Is("episode") => TargetId \in operation.seeds
          /\ Is("knowledge") => Piece(TargetId) \in operation.dependents
          /\ \A r \in In("job") : r.refs \cap EventRefs(operation.sources) # {} =>
                 r.self \in operation.dependents

\* What the operation erased, by itself.
ErasedRefs ==
    EventRefs(operation.sources) \cup SessionRefs(operation.sessions)
      \cup (IF Is("episode") THEN {<<"episode", TargetId>>} ELSE {})

Rebuilt == {"work_episode", "link", "context"}

RowIsClean(r) ==
    /\ r.self \notin operation.dependents
    /\ r.refs \cap ErasedRefs = {}
    /\ r.refs \cap operation.dependents # {} => Table(r) = "knowledge" /\ Stranded(r)

ErasedIsClean ==
    /\ call \in {"settle", "gate"} =>
          /\ \A e \in raw : /\ e \notin operation.sources /\ SessionOf[e] \notin operation.sessions
                            /\ RefersTo[e] \cap operation.sources = {}
          /\ Is("episode") => TargetId \notin GroupsOf(raw)
          /\ \A r \in stored : Table(r) \notin Rebuilt => RowIsClean(r)
    /\ call = "gate" => \A r \in stored : Table(r) \in Rebuilt => r \in ProjectionOf(raw)

\* What does not depend on where the call is.
StoreInv ==
    /\ raw \subseteq Events /\ RowsFit(stored, raw)
    /\ TombsAreFree /\ PlanIsWhole /\ DependentsStayAway /\ SuppressedIsGone

ErasureInv == OperationFits /\ StoreInv /\ Planned /\ ErasedIsClean
-------------------------------------------------------------------------------
(* ErasureClosure: what is reached *)

ClosedOn(X, edge) == \A x \in X : edge[x] \subseteq X

Grown(X, edge) == X \cup UNION {edge[x] : x \in X}

\* The function that Reached applies.
Growth(edge) ==
    CHOOSE g : g = [X \in SUBSET DOMAIN edge |-> IF Grown(X, edge) = X THEN X ELSE g[Grown(X, edge)]]

LEMMA ReachedIsGrowth == \A A, edge : Reached(A, edge) = Growth(edge)[A]
BY DEF Reached, Growth, Grown

\* There is such a function, that of the least closed sets.
LEMMA GrowthIs ==
    ASSUME NEW edge, \A x \in DOMAIN edge : edge[x] \subseteq DOMAIN edge
    PROVE  Growth(edge) = [X \in SUBSET DOMAIN edge |->
              IF Grown(X, edge) = X THEN X ELSE Growth(edge)[Grown(X, edge)]]
<1> DEFINE D == DOMAIN edge
           G(X) == Grown(X, edge)
           it == [X \in SUBSET D |->
                     {y \in D : \A Z \in SUBSET D : X \subseteq Z /\ ClosedOn(Z, edge) => y \in Z}]
<1>1. ASSUME NEW X \in SUBSET D PROVE G(X) \in SUBSET D /\ X \subseteq G(X)
  BY DEF Grown
<1>2. ASSUME NEW X \in SUBSET D, G(X) = X PROVE it[X] = X
  <2>1. ClosedOn(X, edge)
    BY <1>2 DEF ClosedOn, Grown
  <2> QED BY <2>1
<1>3. ASSUME NEW X \in SUBSET D PROVE it[X] = it[G(X)]
  <2>1. ASSUME NEW Z \in SUBSET D, ClosedOn(Z, edge) PROVE X \subseteq Z <=> G(X) \subseteq Z
    BY <2>1 DEF ClosedOn, Grown
  <2>2. it[G(X)] = {y \in D : \A Z \in SUBSET D : G(X) \subseteq Z /\ ClosedOn(Z, edge) => y \in Z}
    BY <1>1
  <2> QED BY <2>1, <2>2
<1>4. it = [X \in SUBSET D |-> IF G(X) = X THEN X ELSE it[G(X)]]
  <2>1. ASSUME NEW X \in SUBSET D PROVE it[X] = IF G(X) = X THEN X ELSE it[G(X)]
    BY <1>2, <1>3
  <2> HIDE DEF G
  <2>2. it = [X \in SUBSET D |-> it[X]]
    OBVIOUS
  <2> HIDE DEF it
  <2> QED BY <2>1, <2>2, Zenon
<1>5. \E g : g = [X \in SUBSET D |-> IF G(X) = X THEN X ELSE g[G(X)]]
  <2> HIDE DEF it
  <2> QED BY <1>4, Zenon
<1> QED BY <1>5, Zenon DEF Growth

\* On a finite graph it is the least closed set: the growth ends.
LEMMA ReachedIs ==
    ASSUME NEW edge, IsFiniteSet(DOMAIN edge), \A x \in DOMAIN edge : edge[x] \subseteq DOMAIN edge,
           NEW A, A \subseteq DOMAIN edge
    PROVE  /\ A \subseteq Reached(A, edge) /\ Reached(A, edge) \subseteq DOMAIN edge
           /\ ClosedOn(Reached(A, edge), edge)
           /\ \A B : A \subseteq B /\ (\A x \in B \cap DOMAIN edge : edge[x] \subseteq B)
                     => Reached(A, edge) \subseteq B
<1> DEFINE D == DOMAIN edge
           g == Growth(edge)
           Good(X) == /\ X \subseteq g[X] /\ g[X] \subseteq D /\ ClosedOn(g[X], edge)
                      /\ \A B : X \subseteq B /\ (\A x \in B \cap D : edge[x] \subseteq B) => g[X] \subseteq B
           left(X) == Cardinality(D \ X)
           bad == {X \in SUBSET D : ~ Good(X)}
           T == {left(X) : X \in bad}
<1>1. ASSUME NEW X \in SUBSET D
      PROVE  g[X] = IF Grown(X, edge) = X THEN X ELSE g[Grown(X, edge)]
  BY GrowthIs, Zenon
<1>2. \A X \in SUBSET D : left(X) \in Nat
  BY FS_Subset, FS_CardinalityType
<1>3. bad = {}
  <2> SUFFICES ASSUME bad # {} PROVE FALSE
    OBVIOUS
  <2>1. PICK X \in bad : \A Y \in bad : left(X) <= left(Y)
    <3>1. T \subseteq Nat /\ T # {}
      <4>1. bad \subseteq SUBSET D
        OBVIOUS
      <4> HIDE DEF bad, left
      <4> QED BY <1>2, <4>1
    <3> HIDE DEF T
    <3>2. Least(T) \in T /\ \A m \in T : Least(T) <= m
      BY <3>1, LeastOf
    <3>3. PICK X \in bad : Least(T) = left(X)
      BY <3>2, Zenon DEF T
    <3>4. ASSUME NEW Y \in bad PROVE left(X) <= left(Y)
      <4>1. left(Y) \in T
        BY DEF T
      <4> QED BY <4>1, <3>2, <3>3
    <3> QED BY <3>3, <3>4, Zenon
  <2> DEFINE Y == Grown(X, edge)
  <2>2. X \subseteq Y /\ Y \subseteq D
    BY DEF Grown
  <2>3. CASE Y = X
    <3>1. g[X] = X
      BY <1>1, <2>3
    <3>2. ClosedOn(X, edge)
      BY <2>3 DEF ClosedOn, Grown
    <3> QED BY <3>1, <3>2
  <2>4. CASE Y # X
    <3>1. left(Y) < left(X)
      <4>1. D \ Y \in SUBSET (D \ X) /\ D \ Y # D \ X
        BY <2>2, <2>4
      <4>2. IsFiniteSet(D \ X)
        BY FS_Subset
      <4>3. left(Y) <= left(X) /\ left(Y) # left(X)
        BY <4>1, <4>2, FS_Subset
      <4> QED BY <4>3, <2>2, <1>2
    <3>2. Good(Y)
      <4>1. ASSUME ~ Good(Y) PROVE FALSE
        <5>1. Y \in bad
          BY <4>1, <2>2, Zenon
        <5>2. left(X) <= left(Y) /\ left(X) \in Nat /\ left(Y) \in Nat
          BY <5>1, <2>1, <2>2, <1>2, Zenon
        <5> QED BY ONLY <5>2, <3>1
      <4> QED BY <4>1, Zenon
    <3>3. g[X] = g[Y]
      BY <1>1, <2>4
    <3>4. ASSUME NEW B, X \subseteq B, \A x \in B \cap D : edge[x] \subseteq B PROVE Y \subseteq B
      BY <3>4 DEF Grown
    <3>5. X \subseteq g[X] /\ g[X] \subseteq D /\ ClosedOn(g[X], edge)
      BY <3>2, <3>3, <2>2
    <3>6. ASSUME NEW B, X \subseteq B, \A x \in B \cap D : edge[x] \subseteq B PROVE g[X] \subseteq B
      BY <3>2, <3>3, <3>4, <3>6
    <3> QED BY <3>5, <3>6
  <2> QED BY <2>3, <2>4
<1>4. Good(A)
  BY <1>3
<1>5. Reached(A, edge) = g[A]
  BY ReachedIsGrowth
<1> QED BY <1>4, <1>5

\* A function on a finite set has finitely many values.
LEMMA FiniteImage ==
    ASSUME NEW f, IsFiniteSet(DOMAIN f) PROVE IsFiniteSet({f[x] : x \in DOMAIN f})
<1> DEFINE T == {f[x] : x \in DOMAIN f}
           h == [x \in DOMAIN f |-> f[x]]
<1>1. h \in Surjection(DOMAIN f, T)
  BY DEF Surjection
<1> QED BY <1>1, FS_Surjection
-------------------------------------------------------------------------------
(* References and rows *)

LEMMA RefsAre ==
    /\ \A T, e : <<"event", e>> \in EventRefs(T) <=> e \in T
    /\ \A T, s : <<"session", s>> \in SessionRefs(T) <=> s \in T
    /\ \A T : OnlyOf(EventRefs(T), {"event"}) /\ OnlyOf(SessionRefs(T), {"session"})
    /\ \A T, U : T \subseteq U => EventRefs(T) \subseteq EventRefs(U) /\ SessionRefs(T) \subseteq SessionRefs(U)
    /\ \A k : Piece(k)[1] = "knowledge" /\ Piece(k)[2] = k
BY DEF EventRefs, SessionRefs, Piece, OnlyOf

LEMMA KindsApart ==
    ASSUME NEW P, NEW Q, NEW p, NEW q, OnlyOf(P, p), OnlyOf(Q, q), p \cap q = {}
    PROVE  P \cap Q = {}
BY DEF OnlyOf

LEMMA KindsGrow ==
    ASSUME NEW P, NEW p, NEW q, OnlyOf(P, p), p \subseteq q
    PROVE  OnlyOf(P, q)
BY DEF OnlyOf

LEMMA KindsJoin ==
    ASSUME NEW P, NEW Q, NEW p, OnlyOf(P, p), OnlyOf(Q, p)
    PROVE  OnlyOf(P \cup Q, p)
BY DEF OnlyOf

LEMMA KindsShrink ==
    ASSUME NEW P, NEW Q, NEW p, OnlyOf(P, p), Q \subseteq P
    PROVE  OnlyOf(Q, p)
BY DEF OnlyOf

LEMMA RowOfIs ==
    \A table, id, refs :
        LET r == RowOf(table, id, refs)
        IN  /\ r = [self |-> r.self, refs |-> r.refs, state |-> r.state, replaces |-> r.replaces]
            /\ r.self = <<table, id>> /\ Table(r) = table /\ Id(r) = id
            /\ r.refs = refs /\ r.state = "row" /\ r.replaces = {}
BY DEF RowOf, Table, Id

LEMMA KnowledgeIs ==
    \A id, refs, state, replaces :
        LET r == Knowledge(id, refs, state, replaces)
        IN  /\ r = [self |-> r.self, refs |-> r.refs, state |-> r.state, replaces |-> r.replaces]
            /\ r.self = <<"knowledge", id>> /\ Table(r) = "knowledge" /\ Id(r) = id
            /\ r.refs = refs \cup {Piece(k) : k \in replaces} /\ r.state = state /\ r.replaces = replaces
BY DEF Knowledge, Table, Id, Piece

\* A row of a table has the shape of the table.
LEMMA RowsHaveShape ==
    ASSUME NEW table, table \in Tables, table # "knowledge", NEW id, NEW refs, ShapeOfTable(RowOf(table, id, refs))
    PROVE  HasShape(RowOf(table, id, refs))
<1> DEFINE r == RowOf(table, id, refs)
<1>1. /\ r = [self |-> r.self, refs |-> r.refs, state |-> r.state, replaces |-> r.replaces]
      /\ r.self = <<table, id>> /\ Table(r) = table /\ Id(r) = id
      /\ r.refs = refs /\ r.state = "row" /\ r.replaces = {}
  BY DEF RowOf, Table, Id
<1>2. ShapeOfTable(r)
  OBVIOUS
<1> HIDE DEF r
<1>3. HasShape(r)
  BY <1>1, <1>2, Zenon DEF HasShape
<1> QED BY <1>3 DEF r

\* Of what kinds the references of a row are.
LEMMA KindsOfRefs ==
    ASSUME NEW r, HasShape(r)
    PROVE  /\ Table(r) \in {"work_episode", "link"} => OnlyOf(r.refs, {"event", "session"})
           /\ Table(r) = "context" => OnlyOf(r.refs, {"event", "episode"})
           /\ Table(r) \in {"job", "key"} => OnlyOf(r.refs, {"event"})
           /\ Table(r) = "opportunity" => OnlyOf(r.refs, {"episode", "key"})
           /\ Table(r) = "proposal" => OnlyOf(r.refs, {"job", "knowledge"})
           /\ Table(r) = "feedback" => OnlyOf(r.refs, {"knowledge", "session"})
           /\ Table(r) = "mute" => OnlyOf(r.refs, {"knowledge", "session", "feedback"})
           /\ Table(r) = "use" => OnlyOf(r.refs, {"session", "episode", "context", "knowledge"})
           /\ Table(r) = "knowledge" /\ Id(r) \in Rules => OnlyOf(r.refs, {"knowledge"})
           /\ Table(r) = "knowledge" /\ Id(r) \notin Rules => OnlyOf(r.refs, {"event", "episode"})
<1>1. Table(r) \in {"work_episode", "link"} => OnlyOf(r.refs, {"event", "session"})
  BY DEF HasShape, ShapeOfTable, IsEpisode, IsLink
<1>2. Table(r) = "context" => OnlyOf(r.refs, {"event", "episode"})
  BY DEF HasShape, ShapeOfTable, IsContext
<1>3. Table(r) = "job" => OnlyOf(r.refs, {"event"})
  BY RefsAre DEF HasShape, ShapeOfTable, IsJob
<1>4. Table(r) = "key" => OnlyOf(r.refs, {"event"})
  <2>1. Table(r) = "key" => r.refs = EventRefs({Corrects, Proves})
    BY RowOfIs DEF HasShape, ShapeOfTable, IsKey
  <2> QED BY <2>1, RefsAre
<1>5. Table(r) = "opportunity" => OnlyOf(r.refs, {"episode", "key"})
  BY DEF HasShape, ShapeOfTable, IsOpportunity, OnlyOf
<1>6. Table(r) = "proposal" => OnlyOf(r.refs, {"job", "knowledge"})
  BY DEF HasShape, ShapeOfTable, IsProposal, OnlyOf, Piece
<1>7. Table(r) = "feedback" => OnlyOf(r.refs, {"knowledge", "session"})
  BY DEF HasShape, ShapeOfTable, IsFeedback, FeedbackRefs, OnlyOf, Piece
<1>8. Table(r) = "mute" => OnlyOf(r.refs, {"knowledge", "session", "feedback"})
  BY DEF HasShape, ShapeOfTable, IsMute, OnlyOf, Piece
<1>9. Table(r) = "use" => OnlyOf(r.refs, {"session", "episode", "context", "knowledge"})
  BY DEF HasShape, ShapeOfTable, IsUseRow
<1>10. Table(r) = "knowledge" /\ Id(r) \in Rules => OnlyOf(r.refs, {"knowledge"})
  BY DEF HasShape, ShapeOfTable, IsPiece, OnlyOf, Piece
<1>11. Table(r) = "knowledge" /\ Id(r) \notin Rules => OnlyOf(r.refs, {"event", "episode"})
  BY DEF HasShape, ShapeOfTable, IsPiece
<1> QED BY <1>1, <1>2, <1>3, <1>4, <1>5, <1>6, <1>7, <1>8, <1>9, <1>10, <1>11
-------------------------------------------------------------------------------
(* The closures *)

\* What is selected is the least set that has the target's events and sessions and
\* whatever refers to them.
LEMMA SelectedIs ==
    ASSUME raw \subseteq Events
    PROVE  /\ Selected \subseteq raw
           /\ \A e \in raw :
                 \/ e \in Named \/ SessionOf[e] \in TargetSessions \/ RefersTo[e] \cap (Named \cup Selected) # {}
                 => e \in Selected
           /\ \A B : (\A e \in raw :
                         \/ e \in Named \/ SessionOf[e] \in TargetSessions \/ RefersTo[e] \cap (Named \cup B) # {}
                         => e \in B)
                     => Selected \subseteq B
<1> DEFINE A == {e \in raw : \/ e \in Named \/ SessionOf[e] \in TargetSessions
                             \/ RefersTo[e] \cap Named # {}}
           edge == [x \in raw |-> {e \in raw : x \in RefersTo[e]}]
<1>1. Selected = Reached(A, edge)
  BY DEF Selected
<1>2. IsFiniteSet(DOMAIN edge) /\ (\A x \in DOMAIN edge : edge[x] \subseteq DOMAIN edge) /\ A \subseteq DOMAIN edge
  BY FiniteAssumption, FS_Subset
<1> HIDE DEF A, edge
<1>3. /\ A \subseteq Selected /\ Selected \subseteq DOMAIN edge /\ ClosedOn(Selected, edge)
      /\ \A B : A \subseteq B /\ (\A x \in B \cap DOMAIN edge : edge[x] \subseteq B) => Selected \subseteq B
  BY <1>1, <1>2, ReachedIs
<1>4. Selected \subseteq raw
  BY <1>3 DEF edge
<1>5. ASSUME NEW e \in raw,
             e \in Named \/ SessionOf[e] \in TargetSessions \/ RefersTo[e] \cap (Named \cup Selected) # {}
      PROVE  e \in Selected
  <2>1. CASE e \in Named \/ SessionOf[e] \in TargetSessions \/ RefersTo[e] \cap Named # {}
    BY <2>1, <1>3 DEF A
  <2>2. CASE RefersTo[e] \cap Selected # {}
    <3>1. PICK x \in Selected : x \in RefersTo[e]
      BY <2>2
    <3>2. e \in edge[x]
      BY <3>1, <1>4 DEF edge
    <3> QED BY <3>1, <3>2, <1>3 DEF ClosedOn
  <2> QED BY <2>1, <2>2, <1>5
<1>6. ASSUME NEW B,
             \A e \in raw : \/ e \in Named \/ SessionOf[e] \in TargetSessions
                            \/ RefersTo[e] \cap (Named \cup B) # {}
                            => e \in B
      PROVE  Selected \subseteq B
  <2>1. A \subseteq B
    BY <1>6 DEF A
  <2>2. \A x \in B \cap DOMAIN edge : edge[x] \subseteq B
    BY <1>6 DEF edge
  <2> QED BY <2>1, <2>2, <1>3
<1> QED BY <1>4, <1>5, <1>6

LEMMA ProposalsHaveJobs ==
    ASSUME NEW q, HasShape(q), Table(q) = "proposal"
    PROVE  /\ Id(q)[1] \in Jobs /\ Id(q)[2] \in Learnable /\ Id(q) = <<Id(q)[1], Id(q)[2]>>
           /\ <<"job", Id(q)[1]>> \in q.refs /\ Piece(Id(q)[2]) \in q.refs
           /\ \A k : Piece(k) \in q.refs => k \in Learnable
<1>1. PICK j \in Jobs : \E k \in Learns[j] :
          /\ Id(q) = <<j, k>> /\ Reviewed[j] \subseteq Learnable
          /\ q.refs = {<<"job", j>>, Piece(k)} \cup {Piece(x) : x \in Reviewed[j]}
  BY DEF HasShape, ShapeOfTable, IsProposal
<1>2. PICK k \in Learns[j] :
          /\ Id(q) = <<j, k>> /\ Reviewed[j] \subseteq Learnable
          /\ q.refs = {<<"job", j>>, Piece(k)} \cup {Piece(x) : x \in Reviewed[j]}
  BY <1>1
<1>3. k \in Learnable
  BY DEF Learnable
<1> QED BY <1>2, <1>3 DEF Piece

LEMMA JobsOnAre ==
    ASSUME \A r \in stored : HasShape(r), NEW ids
    PROVE  /\ JobsOn(ids) \subseteq Jobs
           /\ \A j : j \in JobsOn(ids) <=> \E q \in stored : /\ Table(q) = "proposal" /\ Id(q)[1] = j
                                                             /\ \E k \in ids : Piece(k) \in q.refs
BY ProposalsHaveJobs DEF JobsOn, In

\* The jobs that are affected are the least set that has those of erased events, and
\* those which propose or were reviewed against what goes with it.
LEMMA AffectedJobsAre ==
    ASSUME \A r \in stored : HasShape(r)
    PROVE  /\ AffectedJobs \subseteq Jobs
           /\ \A r \in In("job") : r.refs \cap EventRefs(Sources) # {} => Id(r) \in AffectedJobs
           /\ \A q \in In("proposal") :
                 (\E k \in AffectedLessons : Piece(k) \in q.refs) => Id(q)[1] \in AffectedJobs
           /\ \A B : /\ \A r \in In("job") : r.refs \cap EventRefs(Sources) # {} => Id(r) \in B
                     /\ \A q \in In("proposal") : Is("knowledge") /\ Piece(TargetId) \in q.refs => Id(q)[1] \in B
                     /\ \A p, q \in In("proposal") : Id(p)[1] \in B /\ Piece(Id(p)[2]) \in q.refs => Id(q)[1] \in B
                     => AffectedJobs \subseteq B
<1> DEFINE first == {j \in Jobs : \E r \in In("job") : Id(r) = j /\ r.refs \cap EventRefs(Sources) # {}}
           ofTarget == IF Is("knowledge") THEN {TargetId} ELSE {}
           A == first \cup JobsOn(ofTarget)
           edge == [j \in Jobs |-> JobsOn({Id(p)[2] : p \in ProposalsOf({j})})]
<1>1. AffectedJobs = Reached(A, edge)
  BY DEF AffectedJobs
<1>2. IsFiniteSet(DOMAIN edge) /\ (\A x \in DOMAIN edge : edge[x] \subseteq DOMAIN edge) /\ A \subseteq DOMAIN edge
  BY FiniteAssumption, JobsOnAre
<1>3. DOMAIN edge = Jobs
  OBVIOUS
<1>4. ASSUME NEW j \in Jobs, NEW x
      PROVE  x \in edge[j] <=> \E p, q \in In("proposal") : Id(p)[1] = j /\ Id(q)[1] = x /\ Piece(Id(p)[2]) \in q.refs
  <2>1. edge[j] = JobsOn({Id(p)[2] : p \in ProposalsOf({j})})
    OBVIOUS
  <2> HIDE DEF edge
  <2> QED BY <2>1, JobsOnAre DEF ProposalsOf, In
<1>5. ASSUME NEW r \in In("job"), r.refs \cap EventRefs(Sources) # {} PROVE Id(r) \in A
  BY <1>5 DEF In, HasShape, ShapeOfTable, IsJob
<1>6. ASSUME NEW q \in In("proposal"), Is("knowledge"), Piece(TargetId) \in q.refs PROVE Id(q)[1] \in A
  <2>1. Id(q)[1] \in JobsOn(ofTarget)
    BY <1>6, JobsOnAre DEF In
  <2> QED BY <2>1
<1>7. ASSUME NEW x \in A
      PROVE  \/ \E r \in In("job") : Id(r) = x /\ r.refs \cap EventRefs(Sources) # {}
             \/ \E q \in In("proposal") : Is("knowledge") /\ Piece(TargetId) \in q.refs /\ Id(q)[1] = x
  <2>1. CASE x \in first
    BY <2>1
  <2>2. CASE x \in JobsOn(ofTarget)
    BY <2>2, JobsOnAre DEF In
  <2> QED BY <2>1, <2>2
<1> HIDE DEF A, edge
<1>8. /\ A \subseteq AffectedJobs /\ AffectedJobs \subseteq DOMAIN edge /\ ClosedOn(AffectedJobs, edge)
      /\ \A B : A \subseteq B /\ (\A x \in B \cap DOMAIN edge : edge[x] \subseteq B) => AffectedJobs \subseteq B
  BY <1>1, <1>2, ReachedIs
<1>9. ASSUME NEW q \in In("proposal"), NEW k \in AffectedLessons, Piece(k) \in q.refs
      PROVE  Id(q)[1] \in AffectedJobs
  <2>1. k \in LessonsOf(AffectedJobs)
    BY DEF AffectedLessons
  <2>2. CASE k \in (IF Is("knowledge") THEN {TargetId} ELSE {})
    BY <2>2, <1>6, <1>8, <1>9
  <2>3. CASE \E p \in In("proposal") : Id(p)[1] \in AffectedJobs /\ k = Id(p)[2]
    <3>1. PICK p \in In("proposal") : Id(p)[1] \in AffectedJobs /\ k = Id(p)[2]
      BY <2>3
    <3>2. Id(q)[1] \in edge[Id(p)[1]]
      BY <3>1, <1>9, <1>4, <1>8, <1>3
    <3> QED BY <3>1, <3>2, <1>8 DEF ClosedOn
  <2> QED BY <2>1, <2>2, <2>3 DEF LessonsOf, ProposalsOf
<1>10. ASSUME NEW B,
              \A r \in In("job") : r.refs \cap EventRefs(Sources) # {} => Id(r) \in B,
              \A q \in In("proposal") : Is("knowledge") /\ Piece(TargetId) \in q.refs => Id(q)[1] \in B,
              \A p, q \in In("proposal") : Id(p)[1] \in B /\ Piece(Id(p)[2]) \in q.refs => Id(q)[1] \in B
       PROVE  AffectedJobs \subseteq B
  <2>1. A \subseteq B
    BY <1>7, <1>10
  <2>2. \A x \in B \cap DOMAIN edge : edge[x] \subseteq B
    BY <1>3, <1>4, <1>10
  <2> QED BY <2>1, <2>2, <1>8
<1> QED BY <1>3, <1>5, <1>8, <1>9, <1>10

\* What is gone are the least rows that name what is erased, or name such a row.
LEMMA GoneIs ==
    ASSUME IsFiniteSet(stored)
    PROVE  /\ Gone \subseteq Examined /\ Examined \subseteq stored
           /\ \A x \in Examined : x.refs \cap Typed # {} => x \in Gone
           /\ \A x \in Examined, g \in Gone : g.self \in x.refs => x \in Gone
           /\ \A B : /\ \A x \in Examined : x.refs \cap Typed # {} => x \in B
                     /\ \A x, g \in Examined : g \in B /\ g.self \in x.refs => x \in B
                     => Gone \subseteq B
<1> DEFINE A == {r \in Examined : r.refs \cap Typed # {}}
           edge == [x \in Examined |-> {r \in Examined : x.self \in r.refs}]
<1>1. Gone = Reached(A, edge)
  BY DEF Gone, Dependent
<1>2. Examined \subseteq stored
  BY DEF Examined, Kept
<1>3. IsFiniteSet(DOMAIN edge) /\ (\A x \in DOMAIN edge : edge[x] \subseteq DOMAIN edge) /\ A \subseteq DOMAIN edge
  BY <1>2, FS_Subset
<1>4. DOMAIN edge = Examined /\ \A x, r \in Examined : r \in edge[x] <=> x.self \in r.refs
  OBVIOUS
<1>5. \A x \in Examined : x \in A <=> x.refs \cap Typed # {}
  OBVIOUS
<1>6. A \subseteq Examined /\ \A x \in Examined : edge[x] \subseteq Examined
  OBVIOUS
<1> HIDE DEF A, edge
<1>7. /\ A \subseteq Gone /\ Gone \subseteq DOMAIN edge /\ ClosedOn(Gone, edge)
      /\ \A B : A \subseteq B /\ (\A x \in B \cap DOMAIN edge : edge[x] \subseteq B) => Gone \subseteq B
  BY <1>1, <1>3, ReachedIs
<1>8. ASSUME NEW x \in Examined, NEW g \in Gone, g.self \in x.refs PROVE x \in Gone
  BY <1>4, <1>7, <1>8 DEF ClosedOn
<1>9. ASSUME NEW B,
             \A x \in Examined : x.refs \cap Typed # {} => x \in B,
             \A x, g \in Examined : g \in B /\ g.self \in x.refs => x \in B
      PROVE  Gone \subseteq B
  <2>1. A \subseteq B
    BY <1>5, <1>6, <1>9
  <2>2. \A x \in B \cap DOMAIN edge : edge[x] \subseteq B
    BY <1>4, <1>6, <1>9
  <2> QED BY <2>1, <2>2, <1>7
<1> QED BY <1>2, <1>4, <1>5, <1>7, <1>8, <1>9
-------------------------------------------------------------------------------
(* Sets of rows *)

WithState(r, state) == [r EXCEPT !.state = state]

LEMMA WithStateIs ==
    ASSUME NEW r, HasShape(r), Table(r) = "knowledge", NEW state, state # "candidate"
    PROVE  LET x == WithState(r, state)
           IN  HasShape(x) /\ x.self = r.self /\ x.refs = r.refs /\ Table(x) = Table(r) /\ Id(x) = Id(r)
               /\ x.state = state /\ x.replaces = r.replaces
<1> DEFINE x == WithState(r, state)
<1>1. r = [self |-> r.self, refs |-> r.refs, state |-> r.state, replaces |-> r.replaces]
  BY Zenon DEF HasShape
<1>2. x = [self |-> r.self, refs |-> r.refs, state |-> state, replaces |-> r.replaces]
  BY <1>1 DEF WithState
<1>3. x.self = r.self /\ x.refs = r.refs /\ x.state = state /\ x.replaces = r.replaces
  BY <1>2
<1>4. x = [self |-> x.self, refs |-> x.refs, state |-> x.state, replaces |-> x.replaces]
  BY <1>2
<1>5. Table(x) = Table(r) /\ Id(x) = Id(r)
  BY <1>3 DEF Table, Id
<1> HIDE DEF x
<1>6. IsPiece(x)
  BY <1>3, <1>5 DEF HasShape, ShapeOfTable, IsPiece
<1>7. HasShape(x)
  BY <1>3, <1>4, <1>5, <1>6 DEF HasShape, ShapeOfTable
<1> QED BY <1>3, <1>5, <1>7 DEF x

\* Rows that are changed but not moved.
LEMMA ChangedRowsFit ==
    ASSUME NEW R, NEW T, RowsFit(R, T), NEW f, DOMAIN f = R,
           \A r \in R : /\ HasShape(f[r]) /\ f[r].self = r.self
                        /\ Table(r) = "knowledge" => f[r].refs = r.refs \/ Id(r) \notin Learnable
    PROVE  RowsFit({f[r] : r \in R}, T)
<1> DEFINE Q == {f[r] : r \in R}
<1>1. IsFiniteSet(Q)
  BY FiniteImage DEF RowsFit
<1>2. \A r \in R : Table(f[r]) = Table(r) /\ Id(f[r]) = Id(r)
  BY DEF Table, Id
<1>3. SelvesDiffer(Q)
  BY <1>2 DEF RowsFit, SelvesDiffer
<1>4. JobsHaveEvents(Q, T)
  BY <1>2 DEF RowsFit, JobsHaveEvents
<1>5. LessonsHaveJobs(Q)
  <2> SUFFICES ASSUME NEW y \in Q, Table(y) = "knowledge", Id(y) \in Learnable
               PROVE  \E j \in Jobs :
                        /\ Id(y) \in Learns[j] /\ y.refs = EventRefs({LearnsFrom[j]})
                        /\ \E x \in Q : x.self = <<"job", j>>
                        /\ \E x \in Q : x.self = <<"proposal", <<j, Id(y)>>>>
    BY Zenon DEF LessonsHaveJobs
  <2>3. PICK r \in R : y = f[r]
    OBVIOUS
  <2>4. Table(r) = "knowledge" /\ Id(r) = Id(y) /\ Id(r) \in Learnable /\ y.refs = r.refs
    BY <2>3, <1>2
  <2>1. PICK j \in Jobs : /\ Id(r) \in Learns[j] /\ r.refs = EventRefs({LearnsFrom[j]})
                          /\ \E x \in R : x.self = <<"job", j>>
                          /\ \E x \in R : x.self = <<"proposal", <<j, Id(r)>>>>
    BY <2>4 DEF RowsFit, LessonsHaveJobs
  <2>2. ASSUME NEW x \in R PROVE \E z \in Q : z.self = x.self
    <3>1. f[x] \in Q /\ f[x].self = x.self
      OBVIOUS
    <3> QED BY <3>1
  <2> HIDE DEF Q
  <2>5. \E x \in Q : x.self = <<"job", j>>
    BY <2>1, <2>2
  <2>6. <<"proposal", <<j, Id(y)>>>> = <<"proposal", <<j, Id(r)>>>>
    BY <2>4
  <2>7. \E x \in Q : x.self = <<"proposal", <<j, Id(y)>>>>
    BY <2>1, <2>2, <2>6, Zenon
  <2>8. Id(y) \in Learns[j] /\ y.refs = EventRefs({LearnsFrom[j]})
    BY <2>1, <2>4
  <2> QED BY <2>5, <2>7, <2>8, Zenon
<1> QED BY <1>1, <1>3, <1>4, <1>5 DEF RowsFit

\* Rows that are added.
LEMMA AddedRowsFit ==
    ASSUME NEW R, NEW T, RowsFit(R, T), NEW N, IsFiniteSet(N),
           \A r \in N : /\ HasShape(r)
                        /\ Table(r) = "job" => LearnsFrom[Id(r)] \in T
                        /\ \/ Table(r) = "use" \/ (Table(r) = "knowledge" /\ Id(r) \notin Learnable)
                           => \A x \in R \cup N : x.self = r.self => x = r
                        /\ Table(r) = "knowledge" /\ Id(r) \in Learnable =>
                              \E j \in Jobs :
                                  /\ Id(r) \in Learns[j] /\ r.refs = EventRefs({LearnsFrom[j]})
                                  /\ \E x \in R \cup N : x.self = <<"job", j>>
                                  /\ \E x \in R \cup N : x.self = <<"proposal", <<j, Id(r)>>>>
    PROVE  RowsFit(R \cup N, T)
<1>1. IsFiniteSet(R \cup N)
  BY FS_Union DEF RowsFit
<1>2. SelvesDiffer(R \cup N)
  BY DEF RowsFit, SelvesDiffer, Table, Id
<1>3. JobsHaveEvents(R \cup N, T)
  BY DEF RowsFit, JobsHaveEvents
<1>4. LessonsHaveJobs(R \cup N)
  <2> SUFFICES ASSUME NEW r \in R \cup N, Table(r) = "knowledge", Id(r) \in Learnable
               PROVE  \E j \in Jobs :
                        /\ Id(r) \in Learns[j] /\ r.refs = EventRefs({LearnsFrom[j]})
                        /\ \E x \in R \cup N : x.self = <<"job", j>>
                        /\ \E x \in R \cup N : x.self = <<"proposal", <<j, Id(r)>>>>
    BY DEF LessonsHaveJobs
  <2>1. CASE r \in N
    BY <2>1
  <2>2. CASE r \in R
    BY <2>2 DEF RowsFit, LessonsHaveJobs
  <2> QED BY <2>1, <2>2
<1> QED BY <1>1, <1>2, <1>3, <1>4 DEF RowsFit

\* Rows that are taken away, but for the jobs and proposals of lessons that are left.
LEMMA FewerRowsFit ==
    ASSUME NEW R, NEW T, NEW U, RowsFit(R, T), NEW Q, Q \subseteq R,
           \A r \in Q : Table(r) = "job" => LearnsFrom[Id(r)] \in U,
           \A x \in R \ Q, r \in Q, j \in Jobs :
               /\ Table(r) = "knowledge" /\ r.refs = EventRefs({LearnsFrom[j]})
               /\ \E y \in R : y.self = <<"job", j>>
               /\ \E y \in R : y.self = <<"proposal", <<j, Id(r)>>>>
               => x.self # <<"job", j>> /\ x.self # <<"proposal", <<j, Id(r)>>>>
    PROVE  RowsFit(Q, U)
<1>1. IsFiniteSet(Q) /\ \A r \in Q : HasShape(r)
  BY FS_Subset DEF RowsFit
<1>2. SelvesDiffer(Q) /\ JobsHaveEvents(Q, U)
  BY DEF RowsFit, SelvesDiffer, JobsHaveEvents
<1>3. LessonsHaveJobs(Q)
  <2> SUFFICES ASSUME NEW r \in Q, Table(r) = "knowledge", Id(r) \in Learnable
               PROVE  \E j \in Jobs :
                        /\ Id(r) \in Learns[j] /\ r.refs = EventRefs({LearnsFrom[j]})
                        /\ \E x \in Q : x.self = <<"job", j>>
                        /\ \E x \in Q : x.self = <<"proposal", <<j, Id(r)>>>>
    BY DEF LessonsHaveJobs
  <2>1. PICK j \in Jobs : /\ Id(r) \in Learns[j] /\ r.refs = EventRefs({LearnsFrom[j]})
                          /\ \E x \in R : x.self = <<"job", j>>
                          /\ \E x \in R : x.self = <<"proposal", <<j, Id(r)>>>>
    BY DEF RowsFit, LessonsHaveJobs
  <2> QED BY <2>1
<1> QED BY <1>1, <1>2, <1>3 DEF RowsFit

\* What the rebuilds make of rows.

LEMMA GroupsAre ==
    ASSUME NEW T, T \subseteq Events
    PROVE  /\ IsFiniteSet(GroupsOf(T)) /\ Present(T) \subseteq EventSessions
           /\ \A p \in GroupsOf(T) : p # {} /\ p \subseteq Present(T)
<1>1. IsFiniteSet(T)
  BY FiniteAssumption, FS_Subset
<1>2. IsFiniteSet(Present(T))
  <2> DEFINE f == [e \in T |-> SessionOf[e]]
  <2>1. IsFiniteSet({f[e] : e \in DOMAIN f})
    BY <1>1, FiniteImage
  <2>2. Present(T) = {f[e] : e \in DOMAIN f}
    BY DEF Present
  <2> QED BY <2>1, <2>2
<1>3. IsFiniteSet(SUBSET Present(T))
  BY <1>2, FS_SUBSET
<1>4. GroupsOf(T) \subseteq SUBSET Present(T)
  BY DEF GroupsOf
<1>5. IsFiniteSet(GroupsOf(T))
  BY <1>3, <1>4, FS_Subset
<1>6. Present(T) \subseteq EventSessions
  BY DEF Present, EventSessions
<1> QED BY <1>5, <1>6 DEF GroupsOf
LEMMA EpisodeRowsAre ==
    ASSUME NEW T, T \subseteq Events
    PROVE  /\ IsFiniteSet(EpisodeRows(T))
           /\ \A r \in EpisodeRows(T) :
                 /\ HasShape(r) /\ Table(r) = "work_episode" /\ Id(r) \in GroupsOf(T)
                 /\ r.refs = EventRefs(Of(T, Id(r))) \cup SessionRefs(Id(r))
           /\ \A p \in GroupsOf(T) : \E r \in EpisodeRows(T) : Id(r) = p
<1> DEFINE f == [p \in GroupsOf(T) |-> RowOf("work_episode", p, EventRefs(Of(T, p)) \cup SessionRefs(p))]
<1>1. IsFiniteSet({f[p] : p \in DOMAIN f})
  <2>1. IsFiniteSet(DOMAIN f)
    BY GroupsAre
  <2> HIDE DEF f
  <2> QED BY <2>1, FiniteImage
<1>2. EpisodeRows(T) = {f[p] : p \in DOMAIN f}
  BY DEF EpisodeRows
<1>3. ASSUME NEW p \in GroupsOf(T)
      PROVE  LET r == f[p] IN
             /\ HasShape(r) /\ Table(r) = "work_episode" /\ Id(r) = p
             /\ r.refs = EventRefs(Of(T, p)) \cup SessionRefs(p)
  <2> DEFINE refs == EventRefs(Of(T, p)) \cup SessionRefs(p)
             r == RowOf("work_episode", p, refs)
  <2>1. Table(r) = "work_episode" /\ Id(r) = p /\ r.refs = refs
    BY DEF RowOf, Table, Id
  <2>2. p # {} /\ p \subseteq EventSessions
    BY GroupsAre
  <2>3. OnlyOf(refs, {"event", "session"})
    BY RefsAre DEF OnlyOf
  <2> HIDE DEF refs
  <2>4. IsEpisode(r)
    BY <2>1, <2>2, <2>3 DEF IsEpisode
  <2>5. ShapeOfTable(r)
    BY <2>1, <2>4 DEF ShapeOfTable
  <2>6. HasShape(r)
    BY <2>5, RowsHaveShape DEF Tables
  <2>7. f[p] = r
    BY DEF refs
  <2> HIDE DEF r, f
  <2> QED BY <2>1, <2>6, <2>7 DEF refs
<1>4. DOMAIN f = GroupsOf(T)
  OBVIOUS
<1> HIDE DEF f
<1>5. ASSUME NEW r \in EpisodeRows(T)
      PROVE  /\ HasShape(r) /\ Table(r) = "work_episode" /\ Id(r) \in GroupsOf(T)
             /\ r.refs = EventRefs(Of(T, Id(r))) \cup SessionRefs(Id(r))
  <2>1. PICK p \in GroupsOf(T) : r = f[p]
    BY <1>2, <1>4
  <2> QED BY <2>1, <1>3
<1>6. ASSUME NEW p \in GroupsOf(T) PROVE \E r \in EpisodeRows(T) : Id(r) = p
  <2>1. f[p] \in EpisodeRows(T) /\ Id(f[p]) = p
    BY <1>2, <1>3, <1>4
  <2> QED BY <2>1
<1> QED BY <1>1, <1>2, <1>5, <1>6

LEMMA LinkRowsAre ==
    ASSUME NEW T, T \subseteq Events
    PROVE  /\ IsFiniteSet(LinkRows(T))
           /\ \A r \in LinkRows(T) :
                 /\ HasShape(r) /\ Table(r) = "link" /\ Id(r) \subseteq Present(T)
                 /\ r.refs = EventRefs(Of(T, Id(r))) \cup SessionRefs(Id(r))
<1> DEFINE L == {q \in Linked : q \subseteq Present(T)}
           f == [p \in L |-> RowOf("link", p, EventRefs(Of(T, p)) \cup SessionRefs(p))]
<1>1. IsFiniteSet({f[p] : p \in DOMAIN f})
  <2>1. IsFiniteSet(DOMAIN f)
    BY FiniteAssumption, FS_Subset
  <2> HIDE DEF f
  <2> QED BY <2>1, FiniteImage
<1>2. LinkRows(T) = {f[p] : p \in DOMAIN f}
  BY DEF LinkRows
<1>3. ASSUME NEW p \in L
      PROVE  LET r == f[p] IN
             /\ HasShape(r) /\ Table(r) = "link" /\ Id(r) = p
             /\ r.refs = EventRefs(Of(T, p)) \cup SessionRefs(p)
  <2> DEFINE refs == EventRefs(Of(T, p)) \cup SessionRefs(p)
             r == RowOf("link", p, refs)
  <2>1. Table(r) = "link" /\ Id(r) = p /\ r.refs = refs
    BY RowOfIs
  <2>2. OnlyOf(refs, {"event", "session"})
    BY RefsAre DEF OnlyOf
  <2> HIDE DEF refs
  <2>3. IsLink(r)
    BY <2>1, <2>2 DEF IsLink
  <2>4. ShapeOfTable(r)
    BY <2>1, <2>3 DEF ShapeOfTable
  <2>5. HasShape(r)
    BY <2>4, RowsHaveShape DEF Tables
  <2>6. f[p] = r
    BY DEF refs
  <2> HIDE DEF r, f
  <2> QED BY <2>1, <2>5, <2>6 DEF refs
<1>4. DOMAIN f = L
  OBVIOUS
<1> HIDE DEF f
<1>5. ASSUME NEW r \in LinkRows(T)
      PROVE  /\ HasShape(r) /\ Table(r) = "link" /\ Id(r) \subseteq Present(T)
             /\ r.refs = EventRefs(Of(T, Id(r))) \cup SessionRefs(Id(r))
  <2>1. PICK p \in L : r = f[p]
    BY <1>2, <1>4
  <2> QED BY <2>1, <1>3
<1> QED BY <1>1, <1>2, <1>5

LEMMA ContextRowsAre ==
    ASSUME NEW T, T \subseteq Events
    PROVE  /\ IsFiniteSet(ContextRows(T))
           /\ \A r \in ContextRows(T) :
                 /\ HasShape(r) /\ Table(r) = "context" /\ r.self = <<"context", "branch">>
                 /\ r.refs = EventRefs(T) \cup {<<"episode", p>> : p \in GroupsOf(T)}
<1> DEFINE refs == EventRefs(T) \cup {<<"episode", p>> : p \in GroupsOf(T)}
           r == RowOf("context", "branch", refs)
<1>1. Table(r) = "context" /\ Id(r) = "branch" /\ r.refs = refs /\ r.self = <<"context", "branch">>
  BY RowOfIs
<1>2. OnlyOf(refs, {"event", "episode"})
  BY RefsAre DEF OnlyOf
<1> HIDE DEF refs
<1>3. IsContext(r)
  BY <1>1, <1>2 DEF IsContext
<1>4. ShapeOfTable(r)
  BY <1>1, <1>3 DEF ShapeOfTable
<1>5. HasShape(r)
  BY <1>4, RowsHaveShape DEF Tables
<1>6. ContextRows(T) \subseteq {r}
  BY DEF ContextRows, refs
<1> HIDE DEF r
<1>7. IsFiniteSet(ContextRows(T))
  BY <1>6, FS_Singleton, FS_Subset
<1> QED BY <1>1, <1>5, <1>6, <1>7 DEF refs

LEMMA CorrectionRowsAre ==
    ASSUME NEW T, T \subseteq Events
    PROVE  /\ IsFiniteSet(CorrectionRows(T))
           /\ \A r \in CorrectionRows(T) : HasShape(r) /\ Table(r) \in {"key", "opportunity"}
<1> DEFINE k == RowOf("key", "key", EventRefs({Corrects, Proves}))
           f == [p \in GroupsOf(T) |-> RowOf("opportunity", p, {<<"episode", p>>, <<"key", "key">>})]
           O == {f[p] : p \in DOMAIN f}
<1>1. IsFiniteSet(O) /\ IsFiniteSet({k})
  <2>1. IsFiniteSet(DOMAIN f)
    BY GroupsAre
  <2>2. IsFiniteSet({k})
    BY FS_Singleton
  <2> HIDE DEF f
  <2>3. IsFiniteSet({f[p] : p \in DOMAIN f})
    BY <2>1, FiniteImage
  <2> QED BY <2>2, <2>3
<1>2. IsFiniteSet({k} \cup O)
  BY <1>1, FS_Union
<1>3. CorrectionRows(T) \subseteq {k} \cup O
  BY DEF CorrectionRows
<1>4. HasShape(k) /\ Table(k) = "key"
  <2>1. Table(k) = "key"
    BY RowOfIs
  <2>2. ShapeOfTable(k)
    BY <2>1 DEF ShapeOfTable, IsKey
  <2> QED BY <2>1, <2>2, RowsHaveShape DEF Tables
<1>5. ASSUME NEW p \in GroupsOf(T) PROVE HasShape(f[p]) /\ Table(f[p]) = "opportunity"
  <2> DEFINE refs == {<<"episode", p>>, <<"key", "key">>}
             r == RowOf("opportunity", p, refs)
  <2>1. Table(r) = "opportunity" /\ Id(r) = p /\ r.refs = refs
    BY RowOfIs
  <2>2. IsOpportunity(r)
    BY <2>1 DEF IsOpportunity
  <2>3. ShapeOfTable(r)
    BY <2>1, <2>2 DEF ShapeOfTable
  <2>4. HasShape(r)
    BY <2>3, RowsHaveShape DEF Tables
  <2> QED BY <2>1, <2>4
<1> HIDE DEF k, f
<1>6. IsFiniteSet(CorrectionRows(T))
  BY <1>2, <1>3, FS_Subset
<1>7. DOMAIN f = GroupsOf(T)
  BY DEF f
<1> QED BY <1>3, <1>4, <1>5, <1>6, <1>7

LEMMA CandidateRowsAre ==
    ASSUME NEW T
    PROVE  /\ IsFiniteSet(CandidateRows(T))
           /\ \A r, x \in CandidateRows(T) : r = x
           /\ \A r \in CandidateRows(T) :
                 HasShape(r) /\ Table(r) = "knowledge" /\ Id(r) = "fact" /\ "fact" \notin suppressed
<1> DEFINE refs == EventRefs({Corrects, Proves}) \cup
                   {<<"episode", p>> : p \in {q \in GroupsOf(T) : SessionOf[Corrects] \in q}}
           state == IF \E r \in stored : r.self = Piece("fact") /\ r.state = "superseded"
                    THEN "superseded" ELSE "active"
           k == Knowledge("fact", refs, state, {})
<1>1. CandidateRows(T) \subseteq {k} /\ (CandidateRows(T) # {} => "fact" \notin suppressed)
  BY DEF CandidateRows
<1>2. OnlyOf(refs, {"event", "episode"})
  BY RefsAre DEF OnlyOf
<1>3. state # "candidate"
  OBVIOUS
<1> HIDE DEF refs, state
<1>4. /\ k = [self |-> k.self, refs |-> k.refs, state |-> k.state, replaces |-> k.replaces]
      /\ k.self = <<"knowledge", "fact">> /\ Table(k) = "knowledge" /\ Id(k) = "fact"
      /\ k.refs = refs /\ k.state = state /\ k.replaces = {}
  BY DEF Knowledge, Table, Id, Piece
<1> HIDE DEF k
<1>5. IsPiece(k)
  BY <1>2, <1>3, <1>4, IdsDiffer DEF IsPiece, KnowledgeIds
<1>6. ShapeOfTable(k)
  BY <1>4, <1>5 DEF ShapeOfTable
<1>7. HasShape(k)
  <2>1. Table(k) \in Tables /\ k.self = <<Table(k), Id(k)>>
    BY <1>4 DEF Tables
  <2> QED BY <1>4, <1>6, <2>1, Zenon DEF HasShape
<1>8. IsFiniteSet(CandidateRows(T))
  BY <1>1, FS_Singleton, FS_Subset
<1> QED BY <1>1, <1>4, <1>7, <1>8

LEMMA ReboundIs ==
    ASSUME NEW u, HasShape(u), Table(u) = "use", NEW T
    PROVE  LET r == Rebound(u, T)
           IN  /\ HasShape(r) /\ r.self = u.self /\ Table(r) = "use" /\ Id(r) = Id(u)
               /\ r.refs \subseteq u.refs \cup {<<"episode", p>> : p \in GroupsOf(T)}
<1> DEFINE refs == {x \in u.refs : x[1] # "episode"} \cup
                   {<<"episode", p>> : p \in {q \in GroupsOf(T) : \E s \in q : <<"session", s>> \in u.refs}}
           r == Rebound(u, T)
<1>1. u = [self |-> u.self, refs |-> u.refs, state |-> u.state, replaces |-> u.replaces]
  BY Zenon DEF HasShape
<1>2. r = [u EXCEPT !.refs = refs]
  BY DEF Rebound
<1>3. OnlyOf(u.refs, {"session", "episode", "context", "knowledge"})
  BY KindsOfRefs
<1>4. OnlyOf(refs, {"session", "episode", "context", "knowledge"})
  BY <1>3 DEF OnlyOf
<1>5. refs \subseteq u.refs \cup {<<"episode", p>> : p \in GroupsOf(T)}
  OBVIOUS
<1> HIDE DEF refs, r
<1>6. r = [self |-> u.self, refs |-> refs, state |-> u.state, replaces |-> u.replaces]
  BY <1>1, <1>2
<1>7. r.self = u.self /\ r.refs = refs /\ r.state = u.state /\ r.replaces = u.replaces
  BY <1>6
<1>8. r = [self |-> r.self, refs |-> r.refs, state |-> r.state, replaces |-> r.replaces]
  BY <1>6
<1>9. Table(r) = "use" /\ Id(r) = Id(u)
  BY <1>7 DEF Table, Id
<1>10. ShapeOfTable(r)
  BY <1>4, <1>7, <1>9 DEF ShapeOfTable, IsUseRow
<1>11. HasShape(r)
  <2>1. u.self = <<Table(u), Id(u)>> /\ Table(u) # "knowledge" /\ Table(u) \in Tables /\ u.state = "row" /\ u.replaces = {}
    BY DEF HasShape
  <2> QED BY <1>7, <1>8, <1>9, <1>10, <2>1 DEF HasShape
<1> QED BY <1>5, <1>7, <1>9, <1>11 DEF r

LEMMA WithEpisodesIs ==
    ASSUME NEW R, NEW U, RowsFit(R, U), NEW T, T \subseteq Events
    PROVE  /\ RowsFit(WithEpisodes(R, T), U)
           /\ \A r \in WithEpisodes(R, T) :
                 \/ r \in R /\ Table(r) \notin {"work_episode", "link", "use"}
                 \/ \E u \in R : Table(u) = "use" /\ r = Rebound(u, T)
                 \/ r \in EpisodeRows(T) \cup LinkRows(T)
           /\ \A r \in R : Table(r) \notin {"work_episode", "link", "use"} => r \in WithEpisodes(R, T)
           /\ EpisodeRows(T) \subseteq WithEpisodes(R, T)
<1> DEFINE P == {r \in R : Table(r) \notin {"work_episode", "link"}}
           f == [r \in P |-> IF Table(r) = "use" THEN Rebound(r, T) ELSE r]
           Q == {f[r] : r \in P}
           N == EpisodeRows(T) \cup LinkRows(T)
<1>1. RowsFit(P, U)
  <2>1. P \subseteq R
    OBVIOUS
  <2>2. \A r \in P : Table(r) = "job" => LearnsFrom[Id(r)] \in U
    BY DEF RowsFit, JobsHaveEvents
  <2>3. \A x \in R \ P : Table(x) \in {"work_episode", "link"}
    OBVIOUS
  <2>4. \A x \in R \ P : \A r, j : x.self # <<"job", j>> /\ x.self # <<"proposal", <<j, Id(r)>>>>
    <3> HIDE DEF P
    <3>1. ASSUME NEW x \in R \ P, NEW r, NEW j
          PROVE  x.self # <<"job", j>> /\ x.self # <<"proposal", <<j, Id(r)>>>>
      BY <2>3 DEF Table
    <3> QED BY <3>1, Zenon
  <2> HIDE DEF P
  <2> QED BY <2>1, <2>2, <2>4, FewerRowsFit
<1>2. RowsFit(Q, U)
  <2>1. ASSUME NEW r \in P
        PROVE  HasShape(f[r]) /\ f[r].self = r.self /\ (Table(r) = "knowledge" => f[r].refs = r.refs)
    BY ReboundIs DEF RowsFit
  <2>2. DOMAIN f = P
    OBVIOUS
  <2> HIDE DEF P, f
  <2> QED BY <1>1, <2>1, <2>2, ChangedRowsFit
<1>3. IsFiniteSet(N) /\ \A r \in N : HasShape(r) /\ Table(r) \in {"work_episode", "link"}
  BY EpisodeRowsAre, LinkRowsAre, FS_Union
<1>4. WithEpisodes(R, T) = Q \cup N
  <2>1. ASSUME NEW r \in P
        PROVE  f[r] \in {x \in R : Table(x) \notin {"work_episode", "link", "use"}}
                        \cup {Rebound(x, T) : x \in {u \in R : Table(u) = "use"}}
    OBVIOUS
  <2>2. ASSUME NEW x \in R, Table(x) \notin {"work_episode", "link", "use"} PROVE x \in Q
    <3>1. x \in P /\ f[x] = x
      BY <2>2
    <3> QED BY <3>1
  <2>3. ASSUME NEW x \in R, Table(x) = "use" PROVE Rebound(x, T) \in Q
    <3>1. x \in P /\ f[x] = Rebound(x, T)
      BY <2>3
    <3> QED BY <3>1
  <2>4. Q = {x \in R : Table(x) \notin {"work_episode", "link", "use"}}
              \cup {Rebound(x, T) : x \in {u \in R : Table(u) = "use"}}
    <3> HIDE DEF f
    <3> QED BY <2>1, <2>2, <2>3
  <2> HIDE DEF Q
  <2> QED BY <2>4 DEF WithEpisodes
<1>5. RowsFit(Q \cup N, U)
  <2> HIDE DEF Q, N
  <2> QED BY <1>2, <1>3, AddedRowsFit
<1> QED BY <1>4, <1>5 DEF WithEpisodes

LEMMA WithContextsIs ==
    ASSUME NEW R, NEW U, RowsFit(R, U), NEW T, T \subseteq Events
    PROVE  RowsFit(WithContexts(R, T), U)
<1> DEFINE P == {r \in R : Table(r) # "context"}
           N == ContextRows(T)
<1>1. RowsFit(P, U)
  <2>1. P \subseteq R
    OBVIOUS
  <2>2. \A r \in P : Table(r) = "job" => LearnsFrom[Id(r)] \in U
    BY DEF RowsFit, JobsHaveEvents
  <2>3. \A x \in R \ P : Table(x) = "context"
    OBVIOUS
  <2>4. \A x \in R \ P : \A r, j : x.self # <<"job", j>> /\ x.self # <<"proposal", <<j, Id(r)>>>>
    <3> HIDE DEF P
    <3>1. ASSUME NEW x \in R \ P, NEW r, NEW j
          PROVE  x.self # <<"job", j>> /\ x.self # <<"proposal", <<j, Id(r)>>>>
      BY <2>3 DEF Table
    <3> QED BY <3>1, Zenon
  <2> HIDE DEF P
  <2> QED BY <2>1, <2>2, <2>4, FewerRowsFit
<1>2. IsFiniteSet(N) /\ \A r \in N : HasShape(r) /\ Table(r) = "context"
  BY ContextRowsAre
<1> HIDE DEF P, N
<1>3. RowsFit(P \cup N, U)
  BY <1>1, <1>2, AddedRowsFit
<1> QED BY <1>3 DEF WithContexts, P, N

LEMMA WithCorrectionsIs ==
    ASSUME NEW R, NEW U, RowsFit(R, U), NEW T, T \subseteq Events
    PROVE  RowsFit(WithCorrections(R, T), U)
<1> DEFINE P == {r \in R : /\ Table(r) \notin {"key", "opportunity"}
                           /\ r.self = Piece("fact") => r.state = "superseded" /\ CandidateRows(T) = {}}
           N == CorrectionRows(T) \cup CandidateRows(T)
<1>1. RowsFit(P, U)
  <2>1. P \subseteq R
    OBVIOUS
  <2>2. \A r \in P : Table(r) = "job" => LearnsFrom[Id(r)] \in U
    BY DEF RowsFit, JobsHaveEvents
  <2>3. \A x \in R \ P : Table(x) \in {"key", "opportunity", "knowledge"}
    BY DEF Piece, Table
  <2>4. \A x \in R \ P : \A r, j : x.self # <<"job", j>> /\ x.self # <<"proposal", <<j, Id(r)>>>>
    <3> HIDE DEF P
    <3>1. ASSUME NEW x \in R \ P, NEW r, NEW j
          PROVE  x.self # <<"job", j>> /\ x.self # <<"proposal", <<j, Id(r)>>>>
      BY <2>3 DEF Table
    <3> QED BY <3>1, Zenon
  <2> HIDE DEF P
  <2> QED BY <2>1, <2>2, <2>4, FewerRowsFit
<1>2. IsFiniteSet(N) /\ \A r \in N : HasShape(r) /\ Table(r) \in {"key", "opportunity", "knowledge"}
  BY CorrectionRowsAre, CandidateRowsAre, FS_Union
<1>3. ASSUME NEW r \in N, Table(r) = "knowledge"
      PROVE  Id(r) = "fact" /\ \A x \in P \cup N : x.self = r.self => x = r
  <2>1. r \in CandidateRows(T)
    BY <1>3, CorrectionRowsAre
  <2>2. Id(r) = "fact" /\ r.self = Piece("fact")
    BY <2>1, CandidateRowsAre DEF HasShape, Piece
  <2>3. \A x \in P : x.self # r.self
    BY <2>1, <2>2
  <2>4. \A x \in CorrectionRows(T) : x.self # r.self
    BY <2>2, CorrectionRowsAre DEF Table, Piece
  <2> QED BY <2>1, <2>2, <2>3, <2>4, CandidateRowsAre
<1> HIDE DEF P, N
<1>4. RowsFit(P \cup N, U)
  BY <1>1, <1>2, <1>3, IdsDiffer, AddedRowsFit
<1> QED BY <1>4 DEF WithCorrections, P, N
-------------------------------------------------------------------------------
(* When no deletion is under way *)

IsFree(r) == r.refs \cap tombs = {} /\ \A k \in suppressed : r.self # Piece(k) /\ Piece(k) \notin r.refs

LEMMA NotInTombs ==
    ASSUME ErasureInv
    PROVE  /\ \A e \in raw : <<"event", e>> \notin tombs
           /\ \A s \in Present(raw) : <<"session", s>> \notin tombs
           /\ \A x \in tombs : x[1] \in {"event", "session", "episode"}
<1>1. ASSUME NEW e \in raw PROVE <<"event", e>> \notin tombs /\ <<"session", SessionOf[e]>> \notin tombs
  <2>1. ~ Blocked(e)
    BY DEF ErasureInv, StoreInv, TombsAreFree
  <2>2. /\ <<"event", e>> \in EventRefs({e} \cup RefersTo[e])
        /\ <<"session", SessionOf[e]>> \in SessionRefs({SessionOf[e]})
    BY RefsAre
  <2> QED BY <2>1, <2>2 DEF Blocked
<1>2. \A x \in tombs : x[1] \in {"event", "session", "episode"}
  BY DEF ErasureInv, StoreInv, TombsAreFree, OnlyOf
<1> QED BY <1>1, <1>2 DEF Present

LEMMA RowsAreFree ==
    ASSUME ErasureInv, ~ DeletionIsActive
    PROVE  \A r \in stored : IsFree(r)
BY DEF ErasureInv, StoreInv, TombsAreFree, SuppressedIsGone, IsFree

LEMMA KnownIsFree ==
    ASSUME ErasureInv
    PROVE  /\ \A k : Known(k) => k \notin suppressed
           /\ \A r \in stored : Table(r) = "knowledge" => Known(Id(r)) /\ r.self = Piece(Id(r))
<1>1. \A k : Known(k) => k \notin suppressed
  BY DEF ErasureInv, StoreInv, SuppressedIsGone, Known
<1>2. \A r \in stored : Table(r) = "knowledge" => r.self = Piece(Id(r))
  BY DEF ErasureInv, StoreInv, RowsFit, HasShape, Piece
<1> QED BY <1>1, <1>2 DEF Known

LEMMA QuietStep ==
    ASSUME ErasureInv, ~ DeletionIsActive,
           UNCHANGED <<raw, tombs, suppressed, operation, call>>,
           RowsFit(stored', raw), \A r \in stored' : IsFree(r)
    PROVE  ErasureInv'
<1>1. call = "idle" /\ operation = NoOperation /\ operation.dependents = {}
  BY DEF ErasureInv, StoreInv, OperationFits, NoOperation
<1>2. raw' \subseteq Events /\ RowsFit(stored', raw')
  BY DEF ErasureInv, StoreInv
<1>3. OperationFits'
  BY DEF ErasureInv, StoreInv, OperationFits, DeletionIsActive, Is, TargetId
<1>4. TombsAreFree'
  BY DEF ErasureInv, StoreInv, TombsAreFree, Blocked, IsFree
<1>5. PlanIsWhole' /\ DependentsStayAway'
  BY <1>1 DEF PlanIsWhole, DependentsStayAway
<1>6. SuppressedIsGone'
  BY DEF SuppressedIsGone, IsFree
<1>7. Planned' /\ ErasedIsClean'
  BY <1>1 DEF Planned, ErasedIsClean
<1> QED BY <1>2, <1>3, <1>4, <1>5, <1>6, <1>7 DEF ErasureInv, StoreInv

LEMMA IngestKeeps ==
    ASSUME ErasureInv, NEW e \in Events, Ingest(e) PROVE ErasureInv'
<1>1. /\ ~ DeletionIsActive /\ ~ Blocked(e) /\ raw' = raw \cup {e}
      /\ UNCHANGED <<stored, tombs, suppressed, operation, call>>
  BY DEF Ingest
<1>2. call = "idle" /\ operation = NoOperation /\ operation.dependents = {}
  BY <1>1 DEF ErasureInv, StoreInv, OperationFits, NoOperation
<1>3. raw' \subseteq Events
  BY <1>1 DEF ErasureInv, StoreInv
<1>4. RowsFit(stored', raw')
  <2>1. JobsHaveEvents(stored', raw')
    BY <1>1 DEF ErasureInv, StoreInv, RowsFit, JobsHaveEvents
  <2> QED BY <1>1, <2>1 DEF ErasureInv, StoreInv, RowsFit
<1>5. OperationFits'
  BY <1>1 DEF ErasureInv, StoreInv, OperationFits, DeletionIsActive, Is, TargetId
<1>6. TombsAreFree'
  BY <1>1 DEF ErasureInv, StoreInv, TombsAreFree, Blocked
<1>7. PlanIsWhole' /\ DependentsStayAway'
  BY <1>1, <1>2 DEF PlanIsWhole, DependentsStayAway
<1>8. SuppressedIsGone'
  BY <1>1 DEF ErasureInv, StoreInv, SuppressedIsGone, DeletionIsActive
<1>9. Planned' /\ ErasedIsClean'
  BY <1>1, <1>2 DEF Planned, ErasedIsClean
<1> QED BY <1>3, <1>4, <1>5, <1>6, <1>7, <1>8, <1>9 DEF ErasureInv, StoreInv

\* What Refused asks of rows.
LEMMA NotRefused ==
    ASSUME NEW R, ~ Refused(R), NEW r \in R
    PROVE  /\ r.refs \cap tombs = {}
           /\ Table(r) = "work_episode" => <<"episode", Id(r)>> \notin tombs
BY DEF Refused

\* The rows of a rebuild from the events there are, when it is not refused.
LEMMA RebuiltRowsAreFree ==
    ASSUME ErasureInv, ~ Refused(ProjectionOf(raw))
    PROVE  /\ \A r \in EpisodeRows(raw) \cup LinkRows(raw) \cup ContextRows(raw) :
                 r.refs \cap tombs = {} /\ \A k : r.self # Piece(k) /\ Piece(k) \notin r.refs
           /\ \A p \in GroupsOf(raw) : <<"episode", p>> \notin tombs
<1>0. raw \subseteq Events
  BY DEF ErasureInv, StoreInv
<1>1. ASSUME NEW r \in EpisodeRows(raw) \cup LinkRows(raw) \cup ContextRows(raw)
      PROVE  r.refs \cap tombs = {} /\ \A k : r.self # Piece(k) /\ Piece(k) \notin r.refs
  <2>1. r \in ProjectionOf(raw)
    BY DEF ProjectionOf
  <2>2. r.refs \cap tombs = {}
    BY <2>1, NotRefused
  <2>3. HasShape(r) /\ Table(r) \in {"work_episode", "link", "context"}
    BY <1>0, EpisodeRowsAre, LinkRowsAre, ContextRowsAre
  <2>4. \A k : r.self # Piece(k)
    BY <2>3 DEF Table, Piece
  <2>5. OnlyOf(r.refs, {"event", "session"}) \/ OnlyOf(r.refs, {"event", "episode"})
    BY <2>3, KindsOfRefs
  <2>6. \A k : Piece(k) \notin r.refs
    BY <2>5 DEF OnlyOf, Piece
  <2> QED BY <2>2, <2>4, <2>6
<1>2. ASSUME NEW p \in GroupsOf(raw) PROVE <<"episode", p>> \notin tombs
  <2>1. PICK r \in EpisodeRows(raw) : Id(r) = p /\ Table(r) = "work_episode"
    BY <1>0, EpisodeRowsAre
  <2>2. r \in ProjectionOf(raw)
    BY DEF ProjectionOf
  <2> QED BY <2>1, <2>2, NotRefused
<1> QED BY <1>1, <1>2

LEMMA ReboundIsFree ==
    ASSUME ErasureInv, ~ Refused(ProjectionOf(raw)), NEW u \in stored, Table(u) = "use"
    PROVE  /\ Rebound(u, raw).refs \cap tombs = {}
           /\ \A k \in suppressed : Rebound(u, raw).self # Piece(k) /\ Piece(k) \notin Rebound(u, raw).refs
<1> DEFINE r == Rebound(u, raw)
<1>1. HasShape(u)
  BY DEF ErasureInv, StoreInv, RowsFit
<1>2. r.self = u.self /\ r.refs \subseteq u.refs \cup {<<"episode", p>> : p \in GroupsOf(raw)}
  BY <1>1, ReboundIs
<1>3. u.refs \cap tombs = {}
  BY DEF ErasureInv, StoreInv, TombsAreFree
<1>4. \A k \in suppressed : u.self # Piece(k) /\ Piece(k) \notin u.refs
  BY DEF ErasureInv, StoreInv, SuppressedIsGone
<1> HIDE DEF r
<1>5. r.refs \cap tombs = {}
  BY <1>2, <1>3, RebuiltRowsAreFree
<1>6. \A k : Piece(k) \notin {<<"episode", p>> : p \in GroupsOf(raw)}
  BY DEF Piece
<1> QED BY <1>2, <1>4, <1>5, <1>6 DEF r

LEMMA ProjectKeeps ==
    ASSUME ErasureInv, Project PROVE ErasureInv'
<1> DEFINE R1 == WithEpisodes(stored, raw)
           R2 == WithContexts(R1, raw)
           R3 == WithCorrections(R2, raw)
           N == ProjectionOf(raw) \cup CorrectionRows(raw) \cup CandidateRows(raw)
<1>1. ~ DeletionIsActive /\ ~ Refused(N) /\ stored' = R3 /\ UNCHANGED <<raw, tombs, suppressed, operation, call>>
  BY DEF Project
<1>2. raw \subseteq Events /\ RowsFit(stored, raw)
  BY DEF ErasureInv, StoreInv
<1>3. RowsFit(R1, raw)
  BY <1>2, WithEpisodesIs
<1>4. RowsFit(R2, raw)
  <2> HIDE DEF R1
  <2> QED BY <1>2, <1>3, WithContextsIs
<1>5. RowsFit(R3, raw)
  <2> HIDE DEF R2
  <2> QED BY <1>2, <1>4, WithCorrectionsIs
<1>6. ASSUME NEW r \in R3
      PROVE  \/ r \in stored \/ (\E u \in stored : Table(u) = "use" /\ r = Rebound(u, raw))
             \/ r \in EpisodeRows(raw) \cup LinkRows(raw) \cup ContextRows(raw)
             \/ r \in CorrectionRows(raw) \cup CandidateRows(raw)
  <2>1. r \in R2 \/ r \in CorrectionRows(raw) \cup CandidateRows(raw)
    BY DEF WithCorrections
  <2>2. r \in R2 => r \in R1 \/ r \in ContextRows(raw)
    BY DEF WithContexts
  <2>3. r \in R1 => \/ r \in stored \/ (\E u \in stored : Table(u) = "use" /\ r = Rebound(u, raw))
                    \/ r \in EpisodeRows(raw) \cup LinkRows(raw)
    BY <1>2, WithEpisodesIs
  <2> HIDE DEF R1, R2
  <2> QED BY <2>1, <2>2, <2>3
<1> HIDE DEF R1, R2, R3
<1>7. ~ Refused(ProjectionOf(raw))
  BY <1>1 DEF Refused, N
<1>8. ASSUME NEW r \in CorrectionRows(raw) \cup CandidateRows(raw) PROVE IsFree(r)
  <2>1. r.refs \cap tombs = {}
    BY <1>1, NotRefused DEF N
  <2>2. CASE r \in CorrectionRows(raw)
    <3>1. HasShape(r) /\ Table(r) \in {"key", "opportunity"}
      BY <1>2, <2>2, CorrectionRowsAre
    <3>2. OnlyOf(r.refs, {"event"}) \/ OnlyOf(r.refs, {"episode", "key"})
      BY <3>1, KindsOfRefs
    <3>3. \A k : Piece(k) \notin r.refs
      BY <3>2 DEF OnlyOf, Piece
    <3>4. \A k : r.self # Piece(k)
      BY <3>1 DEF Table, Piece
    <3> QED BY <2>1, <3>3, <3>4 DEF IsFree
  <2>3. CASE r \in CandidateRows(raw)
    <3>1. HasShape(r) /\ Table(r) = "knowledge" /\ Id(r) = "fact" /\ "fact" \notin suppressed
      BY <2>3, CandidateRowsAre
    <3>2. OnlyOf(r.refs, {"event", "episode"})
      BY <3>1, KindsOfRefs, IdsDiffer
    <3>3. \A k : Piece(k) \notin r.refs
      BY <3>2 DEF OnlyOf, Piece
    <3>4. \A k : r.self = Piece(k) => k = "fact"
      BY <3>1 DEF Id, Piece
    <3> QED BY <2>1, <3>1, <3>3, <3>4 DEF IsFree
  <2> QED BY <2>2, <2>3
<1>9. ASSUME NEW r \in R3 PROVE IsFree(r)
  <2>1. CASE r \in stored
    BY <1>1, <2>1, RowsAreFree
  <2>2. CASE \E u \in stored : Table(u) = "use" /\ r = Rebound(u, raw)
    BY <1>7, <2>2, ReboundIsFree DEF IsFree
  <2>3. CASE r \in EpisodeRows(raw) \cup LinkRows(raw) \cup ContextRows(raw)
    BY <1>7, <2>3, RebuiltRowsAreFree DEF IsFree
  <2> QED BY <1>6, <1>8, <2>1, <2>2, <2>3
<1> QED BY <1>1, <1>5, <1>9, QuietStep
LEMMA FeedbackIs ==
    ASSUME NEW a, NEW k
    PROVE  LET r == RowOf("feedback", <<a, k>>, FeedbackRefs(<<a, k>>))
           IN  HasShape(r) /\ Table(r) = "feedback" /\ Id(r) = <<a, k>> /\ r.refs = FeedbackRefs(<<a, k>>)
<1> DEFINE r == RowOf("feedback", <<a, k>>, FeedbackRefs(<<a, k>>))
<1>1. Table(r) = "feedback" /\ Id(r) = <<a, k>> /\ r.refs = FeedbackRefs(<<a, k>>)
  BY RowOfIs
<1>2. ShapeOfTable(r)
  BY <1>1 DEF ShapeOfTable, IsFeedback
<1>3. HasShape(r)
  BY <1>2, RowsHaveShape DEF Tables
<1> QED BY <1>1, <1>3

\* References that are neither blocked nor suppressed.
FreeRef(x) == x \notin tombs /\ \A k \in suppressed : x # Piece(k)

LEMMA FreeRefs ==
    ASSUME ErasureInv
    PROVE  /\ \A k : Known(k) \/ k \notin suppressed => FreeRef(Piece(k))
           /\ \A x : x[1] \in Tables \ {"knowledge"} => FreeRef(x)
           /\ \A s \in Present(raw) : FreeRef(<<"session", s>>)
           /\ \A e \in raw : FreeRef(<<"event", e>>)
<1>1. ASSUME NEW k, Known(k) \/ k \notin suppressed PROVE FreeRef(Piece(k))
  BY <1>1, KnownIsFree, NotInTombs DEF FreeRef, Piece
<1>2. ASSUME NEW x, x[1] \in Tables \ {"knowledge"} PROVE FreeRef(x)
  BY <1>2, NotInTombs DEF FreeRef, Piece, Tables
<1>3. ASSUME NEW s \in Present(raw) PROVE FreeRef(<<"session", s>>)
  BY NotInTombs DEF FreeRef, Piece
<1>4. ASSUME NEW e \in raw PROVE FreeRef(<<"event", e>>)
  BY NotInTombs DEF FreeRef, Piece
<1> QED BY <1>1, <1>2, <1>3, <1>4

LEMMA FreeRows ==
    ASSUME NEW r, \A x \in r.refs : FreeRef(x), FreeRef(r.self) PROVE IsFree(r)
BY DEF FreeRef, IsFree

LEMMA SpeakKeeps ==
    ASSUME ErasureInv, NEW k \in KnowledgeIds, Speak(k) PROVE ErasureInv'
<1> DEFINE r == RowOf("feedback", <<"word", k>>, {Piece(k)})
<1>1. /\ ~ DeletionIsActive /\ Known(k) /\ stored' = stored \cup {r}
      /\ UNCHANGED <<raw, tombs, suppressed, operation, call>>
  BY DEF Speak, Say
<1>2. FeedbackRefs(<<"word", k>>) = {Piece(k)}
  BY DEF FeedbackRefs
<1>3. HasShape(r) /\ Table(r) = "feedback" /\ r.refs = {Piece(k)}
  BY <1>2, FeedbackIs
<1>4. r.self[1] \in Tables \ {"knowledge"}
  BY <1>3 DEF Table, Tables
<1> HIDE DEF r
<1>5. IsFree(r)
  BY <1>1, <1>3, <1>4, FreeRefs, FreeRows
<1>6. RowsFit(stored \cup {r}, raw)
  <2>1. RowsFit(stored, raw)
    BY DEF ErasureInv, StoreInv
  <2>2. IsFiniteSet({r})
    BY FS_Singleton
  <2> QED BY <2>1, <2>2, <1>3, AddedRowsFit
<1> QED BY <1>1, <1>5, <1>6, RowsAreFree, QuietStep

LEMMA MuteSessionKeeps ==
    ASSUME ErasureInv, NEW k \in KnowledgeIds, NEW s, MuteSession(k, s) PROVE ErasureInv'
<1> DEFINE f == RowOf("feedback", <<s, k>>, {Piece(k), <<"session", s>>})
           refs == {Piece(k), <<"session", s>>, <<"feedback", <<s, k>>>>}
           m == RowOf("mute", s, refs)
<1>1. /\ ~ DeletionIsActive /\ Known(k) /\ s \in Present(raw) /\ stored' = stored \cup {f, m}
      /\ UNCHANGED <<raw, tombs, suppressed, operation, call>>
  BY DEF MuteSession, Say
<1>2. s \in EventSessions
  BY <1>1, GroupsAre DEF ErasureInv, StoreInv
<1>3. FeedbackRefs(<<s, k>>) = {Piece(k), <<"session", s>>}
  BY <1>2, IdsDiffer DEF FeedbackRefs
<1>4. HasShape(f) /\ Table(f) = "feedback" /\ f.refs = {Piece(k), <<"session", s>>}
  BY <1>3, FeedbackIs
<1>5. Table(m) = "mute" /\ m.refs = refs
  BY RowOfIs
<1>6. HasShape(m)
  <2>1. IsMute(m)
    BY <1>2, <1>5 DEF IsMute
  <2>2. ShapeOfTable(m)
    BY <1>5, <2>1 DEF ShapeOfTable
  <2> QED BY <2>2, RowsHaveShape DEF Tables
<1>7. f.self[1] \in Tables \ {"knowledge"} /\ m.self[1] \in Tables \ {"knowledge"}
  BY <1>4, <1>5 DEF Table, Tables
<1>8. <<"feedback", <<s, k>>>>[1] \in Tables \ {"knowledge"}
  BY DEF Tables
<1> HIDE DEF f, m
<1>9. IsFree(f) /\ IsFree(m)
  BY <1>1, <1>4, <1>5, <1>7, <1>8, FreeRefs, FreeRows
<1>10. RowsFit(stored \cup {f, m}, raw)
  <2>1. IsFiniteSet({f, m})
    <3>1. IsFiniteSet({f}) /\ {f, m} = {f} \cup {m}
      BY FS_Singleton
    <3> QED BY <3>1, FS_AddElement
  <2>2. RowsFit(stored, raw)
    BY DEF ErasureInv, StoreInv
  <2> QED BY <2>1, <2>2, <1>4, <1>5, <1>6, AddedRowsFit
<1> QED BY <1>1, <1>9, <1>10, RowsAreFree, QuietStep

LEMMA UseKeeps ==
    ASSUME ErasureInv, NEW s, Use(s) PROVE ErasureInv'
<1> DEFINE named == In("context") \cup {k \in In("knowledge") : k.state = "active"}
           refs == {<<"session", s>>} \cup {x.self : x \in named}
           r == RowOf("use", s, refs)
<1>1. /\ ~ DeletionIsActive /\ s \in Present(raw) /\ (~ \E x \in In("use") : Id(x) = s)
      /\ stored' = stored \cup {r}
      /\ UNCHANGED <<raw, tombs, suppressed, operation, call>>
  BY DEF Use, Say
<1>2. \A x \in stored : HasShape(x)
  BY DEF ErasureInv, StoreInv, RowsFit
<1>3. ASSUME NEW x \in named
      PROVE  /\ x.self = <<x.self[1], x.self[2]>> /\ x.self[1] \in {"context", "knowledge"} /\ FreeRef(x.self)
  <2>1. x \in stored /\ HasShape(x) /\ Table(x) \in {"context", "knowledge"}
    BY <1>2 DEF In
  <2>2. x.self = <<x.self[1], x.self[2]>>
    BY <2>1 DEF HasShape, Table, Id
  <2>3. Table(x) = "knowledge" => x.self = Piece(Id(x)) /\ Known(Id(x))
    BY <2>1, KnownIsFree
  <2>4. x.self[1] = Table(x)
    BY DEF Table
  <2>5. Table(x) = "context" => x.self[1] \in Tables \ {"knowledge"}
    BY <2>4 DEF Tables
  <2> QED BY <2>1, <2>2, <2>3, <2>4, <2>5, FreeRefs
<1>4. Table(r) = "use" /\ r.refs = refs /\ r.self = <<"use", s>> /\ Id(r) = s
  BY RowOfIs
<1> HIDE DEF named
<1>5. OnlyOf(refs, {"session", "episode", "context", "knowledge"})
  BY <1>3 DEF OnlyOf
<1>6. \A x \in refs : FreeRef(x)
  BY <1>1, <1>3, FreeRefs
<1> HIDE DEF refs
<1>7. HasShape(r)
  <2>1. ShapeOfTable(r)
    BY <1>4, <1>5 DEF ShapeOfTable, IsUseRow
  <2> QED BY <2>1, RowsHaveShape DEF Tables
<1> HIDE DEF r
<1>8. r.self[1] \in Tables \ {"knowledge"}
  BY <1>4 DEF Tables
<1>9. IsFree(r)
  BY <1>4, <1>6, <1>8, FreeRefs, FreeRows
<1>10. \A x \in stored : x.self # r.self
  BY <1>1, <1>4 DEF In, Table, Id
<1>11. RowsFit(stored \cup {r}, raw)
  <2>1. RowsFit(stored, raw)
    BY DEF ErasureInv, StoreInv
  <2>2. IsFiniteSet({r})
    BY FS_Singleton
  <2> QED BY <2>1, <2>2, <1>4, <1>7, <1>10, AddedRowsFit
<1> QED BY <1>1, <1>9, <1>11, RowsAreFree, QuietStep

LEMMA ReplaceKeeps ==
    ASSUME ErasureInv, NEW k \in Learnable \cup {"fact"}, NEW rule \in Rules, Replace(k, rule) PROVE ErasureInv'
<1>1. /\ Known(k) /\ ~ Known(rule) /\ k \notin suppressed /\ rule \notin suppressed
      /\ \E old \in stored :
           /\ old.self = Piece(k) /\ old.state # "superseded"
           /\ Say((stored \ {old}) \cup
                  {[old EXCEPT !.state = "superseded"], Knowledge(rule, {}, "active", {k}),
                   RowOf("feedback", <<rule, k>>, {Piece(k), Piece(rule)})})
  BY DEF Replace
<1>2. PICK old \in stored :
         /\ old.self = Piece(k) /\ old.state # "superseded"
         /\ Say((stored \ {old}) \cup
                {[old EXCEPT !.state = "superseded"], Knowledge(rule, {}, "active", {k}),
                 RowOf("feedback", <<rule, k>>, {Piece(k), Piece(rule)})})
  BY <1>1
<1> DEFINE n == WithState(old, "superseded")
           m == Knowledge(rule, {}, "active", {k})
           f == RowOf("feedback", <<rule, k>>, {Piece(k), Piece(rule)})
           g == [r \in stored |-> IF r = old THEN n ELSE r]
           R == {g[r] : r \in DOMAIN g}
<1>3. /\ ~ DeletionIsActive /\ stored' = (stored \ {old}) \cup {n, m, f}
      /\ UNCHANGED <<raw, tombs, suppressed, operation, call>>
  BY <1>2 DEF Say, WithState
<1>4. RowsFit(stored, raw) /\ HasShape(old) /\ Table(old) = "knowledge"
  BY <1>2 DEF ErasureInv, StoreInv, RowsFit, Table, Piece
<1>5. HasShape(n) /\ n.self = old.self /\ n.refs = old.refs
  BY <1>4, WithStateIs
<1> HIDE DEF n
<1>6. stored' = R \cup {m, f}
  <2>1. R = (stored \ {old}) \cup {n}
    OBVIOUS
  <2> QED BY <1>3, <2>1
<1>7. RowsFit(R, raw)
  <2>1. DOMAIN g = stored
    OBVIOUS
  <2>2. \A r \in stored : HasShape(g[r]) /\ g[r].self = r.self /\ g[r].refs = r.refs
    BY <1>4, <1>5 DEF RowsFit
  <2> HIDE DEF g
  <2> QED BY <1>4, <2>1, <2>2, ChangedRowsFit
<1>8. /\ m = [self |-> m.self, refs |-> m.refs, state |-> m.state, replaces |-> m.replaces]
      /\ m.self = <<"knowledge", rule>> /\ Table(m) = "knowledge" /\ Id(m) = rule
      /\ m.refs = {Piece(k)} /\ m.state = "active" /\ m.replaces = {k}
  BY DEF Knowledge, Table, Id, Piece
<1>9. HasShape(m)
  <2> HIDE DEF m
  <2>1. IsPiece(m)
    BY <1>8 DEF IsPiece, KnowledgeIds
  <2>2. ShapeOfTable(m)
    BY <1>8, <2>1 DEF ShapeOfTable
  <2>3. m.self = <<Table(m), Id(m)>> /\ Table(m) \in Tables
    BY <1>8 DEF Tables
  <2> QED BY <1>8, <2>2, <2>3, Zenon DEF HasShape
<1>10. FeedbackRefs(<<rule, k>>) = {Piece(k), Piece(rule)}
  BY IdsDiffer DEF FeedbackRefs
<1>11. HasShape(f) /\ Table(f) = "feedback" /\ f.refs = {Piece(k), Piece(rule)}
  BY <1>10, FeedbackIs
<1>12. \A r \in R : r.self # m.self
  <2>1. \A r \in stored : r.self # m.self
    BY <1>1, <1>8 DEF Known, Piece
  <2>2. \A r \in R : \E x \in stored : r.self = x.self
    BY <1>5
  <2> HIDE DEF R, m
  <2> QED BY <2>1, <2>2
<1>13. f.self # m.self
  BY <1>11, <1>8 DEF Table
<1>14. rule \notin Learnable
  BY IdsDiffer
<1> HIDE DEF m, f, R
<1>15. RowsFit(R \cup {m, f}, raw)
  <2>1. IsFiniteSet({m, f})
    <3>1. IsFiniteSet({m}) /\ {m, f} = {m} \cup {f}
      BY FS_Singleton
    <3> QED BY <3>1, FS_AddElement
  <2> QED BY <2>1, <1>7, <1>8, <1>9, <1>11, <1>12, <1>13, <1>14, AddedRowsFit
<1>16. IsFree(m) /\ IsFree(f) /\ IsFree(n)
  <2>1. FreeRef(Piece(k)) /\ FreeRef(Piece(rule)) /\ m.self = Piece(rule)
    BY <1>1, <1>8, FreeRefs DEF Piece
  <2>2. f.self[1] \in Tables \ {"knowledge"}
    BY <1>11 DEF Table, Tables
  <2>3. IsFree(m) /\ IsFree(f)
    BY <2>1, <2>2, <1>8, <1>11, FreeRefs, FreeRows
  <2>4. IsFree(old)
    BY <1>3, RowsAreFree
  <2> QED BY <2>3, <2>4, <1>5 DEF IsFree
<1>17. \A r \in stored' : IsFree(r)
  BY <1>3, <1>16, RowsAreFree
<1> QED BY <1>3, <1>6, <1>15, <1>17, QuietStep

LEMMA LearnKeeps ==
    ASSUME ErasureInv, NEW j \in Jobs, Learn(j) PROVE ErasureInv'
<1> DEFINE refs == EventRefs({LearnsFrom[j]})
           propose == {<<"job", j>>} \cup {Piece(x) : x \in Reviewed[j]}
           J == RowOf("job", j, refs)
           P(k) == RowOf("proposal", <<j, k>>, {<<"job", j>>, Piece(k)} \cup {Piece(x) : x \in Reviewed[j]})
           L(k) == Knowledge(k, refs, "candidate", {})
           g == [r \in stored |-> IF Table(r) = "knowledge" /\ Id(r) \in Reviewed[j]
                                  THEN WithState(r, "superseded") ELSE r]
           p == [k \in Learns[j] |-> P(k)]
           l == [k \in Learns[j] |-> L(k)]
           R == {g[r] : r \in DOMAIN g}
           N == {J} \cup ({p[k] : k \in DOMAIN p} \cup {l[k] : k \in DOMAIN l})
<1>1. /\ ~ DeletionIsActive /\ LearnsFrom[j] \in raw /\ Learns[j] \cap suppressed = {}
      /\ \A k \in Reviewed[j] : \E r \in stored : r.self = Piece(k) /\ r.state = "candidate"
      /\ UNCHANGED <<raw, tombs, suppressed, operation, call>>
  BY DEF Learn
<1>2. stored' = R \cup N
  <2>1. stored' = {IF Table(r) = "knowledge" /\ Id(r) \in Reviewed[j]
                   THEN [r EXCEPT !.state = "superseded"] ELSE r : r \in stored}
           \cup {J} \cup {P(k) : k \in Learns[j]} \cup {L(k) : k \in Learns[j]}
    BY DEF Learn
  <2>2. {IF Table(r) = "knowledge" /\ Id(r) \in Reviewed[j]
         THEN [r EXCEPT !.state = "superseded"] ELSE r : r \in stored} = R
    BY DEF WithState
  <2>3. {P(k) : k \in Learns[j]} = {p[k] : k \in DOMAIN p} /\ {L(k) : k \in Learns[j]} = {l[k] : k \in DOMAIN l}
    OBVIOUS
  <2> HIDE DEF R, J, P, L, p, l
  <2> QED BY <2>1, <2>2, <2>3
<1>3. RowsFit(stored, raw) /\ \A r \in stored : HasShape(r)
  BY DEF ErasureInv, StoreInv, RowsFit
<1>4. Reviewed[j] \subseteq Learnable /\ \A k \in Reviewed[j] : Known(k)
  <2>1. ASSUME NEW k \in Reviewed[j] PROVE k \in Learnable /\ Known(k)
    <3>1. PICK r \in stored : r.self = Piece(k) /\ r.state = "candidate"
      BY <1>1
    <3>2. Table(r) = "knowledge" /\ Id(r) = k
      BY <3>1 DEF Table, Id, Piece
    <3> QED BY <3>1, <3>2, <1>3 DEF HasShape, ShapeOfTable, IsPiece, Known
  <2> QED BY <2>1
<1>5. ASSUME NEW r \in stored
      PROVE  /\ HasShape(g[r]) /\ g[r].self = r.self /\ g[r].refs = r.refs
  BY <1>3, WithStateIs
<1>6. DOMAIN g = stored /\ DOMAIN p = Learns[j] /\ DOMAIN l = Learns[j]
  OBVIOUS
<1>7. RowsFit(R, raw)
  <2> HIDE DEF g
  <2> QED BY <1>3, <1>5, <1>6, ChangedRowsFit
<1>8. HasShape(J) /\ Table(J) = "job" /\ Id(J) = j /\ J.refs = refs /\ J.self = <<"job", j>>
  <2>1. Table(J) = "job" /\ Id(J) = j /\ J.refs = refs /\ J.self = <<"job", j>>
    BY DEF RowOf, Table, Id
  <2>2. ShapeOfTable(J)
    BY <2>1 DEF ShapeOfTable, IsJob
  <2>3. HasShape(J)
    BY <2>2, RowsHaveShape DEF Tables
  <2> QED BY <2>1, <2>3
<1>9. ASSUME NEW k \in Learns[j]
      PROVE  /\ HasShape(p[k]) /\ Table(p[k]) = "proposal" /\ p[k].self = <<"proposal", <<j, k>>>>
             /\ p[k].refs = {<<"job", j>>, Piece(k)} \cup {Piece(x) : x \in Reviewed[j]}
  <2> DEFINE named == {<<"job", j>>, Piece(k)} \cup {Piece(x) : x \in Reviewed[j]}
             q == RowOf("proposal", <<j, k>>, named)
  <2>1. Table(q) = "proposal" /\ Id(q) = <<j, k>> /\ q.refs = named /\ q.self = <<"proposal", <<j, k>>>>
    BY DEF RowOf, Table, Id
  <2>2. IsProposal(q)
    BY <2>1, <1>4 DEF IsProposal
  <2>3. ShapeOfTable(q)
    BY <2>1, <2>2 DEF ShapeOfTable
  <2>4. HasShape(q)
    BY <2>3, RowsHaveShape DEF Tables
  <2>5. p[k] = q
    OBVIOUS
  <2> HIDE DEF q, p
  <2> QED BY <2>1, <2>4, <2>5
<1>10. ASSUME NEW k \in Learns[j]
       PROVE  /\ HasShape(l[k]) /\ Table(l[k]) = "knowledge" /\ Id(l[k]) = k /\ k \in Learnable
              /\ l[k].refs = refs /\ l[k].self = Piece(k)
  <2> DEFINE y == L(k)
  <2>1. /\ y = [self |-> y.self, refs |-> y.refs, state |-> y.state, replaces |-> y.replaces]
        /\ y.self = <<"knowledge", k>> /\ Table(y) = "knowledge" /\ Id(y) = k
        /\ y.refs = refs /\ y.state = "candidate" /\ y.replaces = {}
    BY DEF Knowledge, Table, Id, Piece
  <2>2. k \in Learnable
    BY DEF Learnable
  <2>3. k \notin Rules
    BY <2>2, IdsDiffer
  <2>4. OnlyOf(refs, {"event", "episode"})
    BY RefsAre DEF OnlyOf
  <2>5. l[k] = y
    OBVIOUS
  <2> HIDE DEF y, l
  <2>6. IsPiece(y)
    BY <2>1, <2>2, <2>3, <2>4 DEF IsPiece, KnowledgeIds
  <2>7. ShapeOfTable(y)
    BY <2>1, <2>6 DEF ShapeOfTable
  <2>8. y.self = <<Table(y), Id(y)>> /\ Table(y) \in Tables
    BY <2>1 DEF Tables
  <2>9. HasShape(y)
    BY <2>1, <2>7, <2>8, Zenon DEF HasShape
  <2> QED BY <2>1, <2>2, <2>5, <2>9 DEF Piece
<1> HIDE DEF J, g, p, l, R
<1>11. IsFiniteSet(N)
  <2>1. IsFiniteSet(Learns[j]) /\ IsFiniteSet({J})
    BY FiniteAssumption, FS_Singleton
  <2>2. IsFiniteSet({p[k] : k \in DOMAIN p}) /\ IsFiniteSet({l[k] : k \in DOMAIN l})
    BY <2>1, <1>6, FiniteImage
  <2> QED BY <2>1, <2>2, FS_Union
<1>12. ASSUME NEW r \in N
       PROVE  \/ r = J \/ \E k \in Learns[j] : r = p[k] \/ r = l[k]
  BY <1>6
<1>13. ASSUME NEW k \in Learns[j]
       PROVE  /\ \E x \in R \cup N : x.self = <<"job", j>>
              /\ \E x \in R \cup N : x.self = <<"proposal", <<j, k>>>>
  <2>1. J \in N /\ p[k] \in N
    BY <1>6
  <2> HIDE DEF N
  <2> QED BY <2>1, <1>8, <1>9
<1> HIDE DEF N
<1>14. ASSUME NEW r \in N
       PROVE  /\ HasShape(r)
              /\ Table(r) = "job" => LearnsFrom[Id(r)] \in raw
              /\ Table(r) # "use" /\ (Table(r) = "knowledge" => Id(r) \in Learnable)
              /\ Table(r) = "knowledge" /\ Id(r) \in Learnable =>
                    /\ Id(r) \in Learns[j] /\ r.refs = EventRefs({LearnsFrom[j]})
                    /\ \E x \in R \cup N : x.self = <<"job", j>>
                    /\ \E x \in R \cup N : x.self = <<"proposal", <<j, Id(r)>>>>
  <2>1. CASE r = J
    BY <2>1, <1>1, <1>8
  <2>2. CASE \E k \in Learns[j] : r = p[k]
    BY <2>2, <1>9
  <2>3. CASE \E k \in Learns[j] : r = l[k]
    BY <2>3, <1>10, <1>13
  <2> QED BY <2>1, <2>2, <2>3, <1>12
<1>15. RowsFit(R \cup N, raw)
  <2>1. ASSUME NEW r \in N, Table(r) = "knowledge" /\ Id(r) \in Learnable
        PROVE  \E x \in Jobs :
                  /\ Id(r) \in Learns[x] /\ r.refs = EventRefs({LearnsFrom[x]})
                  /\ \E y \in R \cup N : y.self = <<"job", x>>
                  /\ \E y \in R \cup N : y.self = <<"proposal", <<x, Id(r)>>>>
    BY <2>1, <1>14
  <2>2. \A r \in N : /\ HasShape(r)
                     /\ Table(r) = "job" => LearnsFrom[Id(r)] \in raw
                     /\ Table(r) # "use" /\ (Table(r) = "knowledge" => Id(r) \in Learnable)
    BY <1>14, Zenon
  <2> QED BY <1>7, <1>11, <2>1, <2>2, AddedRowsFit
<1>16. ASSUME NEW r \in R PROVE IsFree(r)
  <2>1. PICK x \in stored : r = g[x]
    BY <1>6 DEF R
  <2>2. IsFree(x)
    BY <1>1, RowsAreFree
  <2> QED BY <2>1, <2>2, <1>5 DEF IsFree
<1>17. \A x \in refs : FreeRef(x)
  BY <1>1, FreeRefs DEF EventRefs
<1>18. FreeRef(<<"job", j>>) /\ \A k : FreeRef(<<"proposal", k>>)
  BY FreeRefs DEF Tables
<1>19. \A k \in Learns[j] \cup Reviewed[j] : FreeRef(Piece(k))
  BY <1>1, <1>4, FreeRefs
<1>20. ASSUME NEW r \in N PROVE IsFree(r)
  <2>1. CASE r = J
    BY <2>1, <1>8, <1>17, <1>18, FreeRows
  <2>2. CASE \E k \in Learns[j] : r = p[k]
    BY <2>2, <1>9, <1>18, <1>19, FreeRows
  <2>3. CASE \E k \in Learns[j] : r = l[k]
    BY <2>3, <1>10, <1>17, <1>19, FreeRows
  <2> QED BY <2>1, <2>2, <2>3, <1>12
<1> QED BY <1>1, <1>2, <1>15, <1>16, <1>20, QuietStep
-------------------------------------------------------------------------------
(* While a deletion is under way *)

LEMMA BeginKeeps ==
    ASSUME ErasureInv, NEW t \in Targets, Begin(t) PROVE ErasureInv'
<1>1. /\ ~ DeletionIsActive /\ call' = "rebuild" /\ operation' = [NoOperation EXCEPT !.target = t]
      /\ UNCHANGED <<raw, stored, tombs, suppressed>>
  BY DEF Begin, Step
<1>2. /\ operation'.target = t /\ operation'.sources = {} /\ operation'.sessions = {}
      /\ operation'.dependents = {}
      /\ operation' = [target |-> operation'.target, sources |-> operation'.sources,
                       sessions |-> operation'.sessions, seeds |-> operation'.seeds,
                       dependents |-> operation'.dependents]
  BY <1>1 DEF NoOperation
<1>3. t \in TargetIds
  <2>1. raw \subseteq Events /\ \A r \in stored : HasShape(r)
    BY DEF ErasureInv, StoreInv, RowsFit
  <2>2. Present(raw) \subseteq EventSessions
    BY <2>1, GroupsAre
  <2>3. ASSUME NEW r \in In("work_episode") PROVE Id(r) \in (SUBSET EventSessions) \ {{}}
    BY <2>1 DEF In, HasShape, ShapeOfTable, IsEpisode
  <2>4. ASSUME NEW r \in In("knowledge") PROVE Id(r) \in KnowledgeIds
    BY <2>1 DEF In, HasShape, ShapeOfTable, IsPiece
  <2>5. CASE t \in {<<"source", e>> : e \in raw}
    BY <2>1, <2>5 DEF TargetIds
  <2>6. CASE t \in {<<"session", x>> : x \in Present(raw)}
    BY <2>2, <2>6 DEF TargetIds
  <2>7. CASE t \in {<<"episode", Id(r)>> : r \in In("work_episode")}
    BY <2>3, <2>7 DEF TargetIds
  <2>8. CASE t \in {<<"knowledge", Id(r)>> : r \in In("knowledge")}
    BY <2>4, <2>8 DEF TargetIds
  <2> QED BY <2>5, <2>6, <2>7, <2>8 DEF Targets
<1>4. t # NoTarget
  BY <1>3, IdsDiffer DEF TargetIds
<1>5. DeletionIsActive'
  BY <1>2, <1>4 DEF DeletionIsActive
<1>6. OperationFits'
  BY <1>1, <1>2, <1>3, <1>5 DEF OperationFits, OnlyOf
<1>7. TombsAreFree' /\ raw' \subseteq Events /\ RowsFit(stored, raw)'
  BY <1>1 DEF ErasureInv, StoreInv, TombsAreFree, Blocked
<1>8. PlanIsWhole' /\ DependentsStayAway'
  BY <1>2 DEF PlanIsWhole, DependentsStayAway
<1>9. SuppressedIsGone'
  BY <1>1 DEF ErasureInv, StoreInv, SuppressedIsGone
<1>10. Planned' /\ ErasedIsClean'
  BY <1>1 DEF Planned, ErasedIsClean
<1> QED BY <1>6, <1>7, <1>8, <1>9, <1>10 DEF ErasureInv, StoreInv

LEMMA StoreStays ==
    ASSUME StoreInv, UNCHANGED <<raw, stored, tombs, suppressed, operation>> PROVE StoreInv'
BY DEF StoreInv, TombsAreFree, Blocked, PlanIsWhole, In, DependentsStayAway, SuppressedIsGone, DeletionIsActive

\* Where only the call goes on, or ends.
LEMMA CallKeeps ==
    ASSUME ErasureInv, DeletionIsActive, call' \in {"idle", "rebuild"},
           UNCHANGED <<raw, stored, tombs, suppressed, operation>>
    PROVE  ErasureInv'
<1>1. OperationFits'
  BY DEF ErasureInv, OperationFits, DeletionIsActive, Is, TargetId
<1>2. StoreInv'
  BY StoreStays DEF ErasureInv
<1>3. Planned' /\ ErasedIsClean'
  BY DEF Planned, ErasedIsClean
<1> QED BY <1>1, <1>2, <1>3 DEF ErasureInv

\* A rebuild of the episodes, and of the contexts.
LEMMA RebuiltStore ==
    ASSUME ErasureInv, ~ Refused(ProjectionOf(raw)), UNCHANGED <<raw, tombs, suppressed, operation>>,
           \/ stored' = WithEpisodes(stored, raw)
           \/ stored' = WithContexts(WithEpisodes(stored, raw), raw)
    PROVE  /\ StoreInv'
           /\ \A r \in stored' :
                 \/ r \in stored /\ Table(r) \notin {"work_episode", "link", "use"}
                 \/ \E u \in stored : Table(u) = "use" /\ r = Rebound(u, raw)
                 \/ r \in EpisodeRows(raw) \cup LinkRows(raw) \cup ContextRows(raw)
<1>1. raw \subseteq Events /\ RowsFit(stored, raw) /\ \A r \in stored : HasShape(r)
  BY DEF ErasureInv, StoreInv, RowsFit
<1> DEFINE R == WithEpisodes(stored, raw)
<1>2. /\ RowsFit(R, raw)
      /\ \A r \in R : \/ r \in stored /\ Table(r) \notin {"work_episode", "link", "use"}
                      \/ \E u \in stored : Table(u) = "use" /\ r = Rebound(u, raw)
                      \/ r \in EpisodeRows(raw) \cup LinkRows(raw)
  BY <1>1, WithEpisodesIs
<1> HIDE DEF R
<1>3. RowsFit(WithContexts(R, raw), raw)
  BY <1>1, <1>2, WithContextsIs
<1>4. RowsFit(stored', raw')
  BY <1>2, <1>3 DEF R
<1>5. stored' \subseteq R \cup ContextRows(raw)
  BY DEF WithContexts, R
<1>6. ASSUME NEW r \in stored'
      PROVE  \/ r \in stored /\ Table(r) \notin {"work_episode", "link", "use"}
             \/ \E u \in stored : Table(u) = "use" /\ r = Rebound(u, raw)
             \/ r \in EpisodeRows(raw) \cup LinkRows(raw) \cup ContextRows(raw)
  BY <1>2, <1>5
<1>7. ASSUME NEW r \in stored'
      PROVE  /\ r.refs \cap tombs = {}
             /\ \/ r \in stored
                \/ /\ \A k \in suppressed : r.self # Piece(k) /\ Piece(k) \notin r.refs
                   /\ Table(r) \in {"use", "work_episode", "link", "context"}
                   /\ Table(r) = "use" => \E u \in stored : Table(u) = "use" /\ u.self = r.self
  <2>1. CASE r \in stored
    BY <2>1 DEF ErasureInv, StoreInv, TombsAreFree
  <2>2. ASSUME NEW u \in stored, Table(u) = "use", r = Rebound(u, raw)
        PROVE  /\ r.refs \cap tombs = {} /\ Table(r) = "use" /\ r.self = u.self
               /\ \A k \in suppressed : r.self # Piece(k) /\ Piece(k) \notin r.refs
    BY <1>1, <2>2, ReboundIs, ReboundIsFree
  <2>3. CASE r \in EpisodeRows(raw) \cup LinkRows(raw) \cup ContextRows(raw)
    <3>1. Table(r) \in {"work_episode", "link", "context"}
      BY <1>1, <2>3, EpisodeRowsAre, LinkRowsAre, ContextRowsAre
    <3> QED BY <2>3, <3>1, RebuiltRowsAreFree
  <2> QED BY <2>1, <2>2, <2>3, <1>6
<1>8. TombsAreFree'
  BY <1>7 DEF ErasureInv, StoreInv, TombsAreFree, Blocked
<1>9. SuppressedIsGone'
  BY <1>7 DEF ErasureInv, StoreInv, SuppressedIsGone, DeletionIsActive
<1>10. PlanIsWhole'
  <2>1. \A q \in stored' : Table(q) = "proposal" => q \in stored
    BY <1>7
  <2> QED BY <2>1 DEF ErasureInv, StoreInv, PlanIsWhole, In
<1>11. DependentsStayAway'
  <2>1. ASSUME NEW r \in stored', Table(r) \in {"feedback", "use", "key", "opportunity"}
        PROVE  r.self \notin operation.dependents
    <3>1. \E u \in stored : Table(u) \in {"feedback", "use", "key", "opportunity"} /\ u.self = r.self
      BY <1>7, <2>1
    <3> QED BY <3>1 DEF ErasureInv, StoreInv, DependentsStayAway
  <2> QED BY <2>1 DEF ErasureInv, StoreInv, DependentsStayAway
<1>12. raw' \subseteq Events
  BY <1>1
<1> QED BY <1>4, <1>6, <1>8, <1>9, <1>10, <1>11, <1>12 DEF StoreInv

LEMMA RebuildKeeps ==
    ASSUME ErasureInv, Rebuild PROVE ErasureInv'
<1>1. /\ ~ Refused(ProjectionOf(raw)) /\ call = "rebuild" /\ call' = "select"
      /\ stored' = WithEpisodes(stored, raw) /\ UNCHANGED <<raw, tombs, suppressed, operation>>
  BY DEF Rebuild, Step
<1>2. StoreInv'
  BY <1>1, RebuiltStore
<1>3. OperationFits'
  BY <1>1 DEF ErasureInv, OperationFits, DeletionIsActive, Is, TargetId
<1>4. In("work_episode")' = EpisodeRows(raw)
  <2>1. raw \subseteq Events /\ RowsFit(stored, raw) /\ \A r \in stored : HasShape(r)
    BY DEF ErasureInv, StoreInv, RowsFit
  <2>2. /\ EpisodeRows(raw) \subseteq stored'
        /\ \A r \in stored' : \/ r \in stored /\ Table(r) \notin {"work_episode", "link", "use"}
                              \/ \E u \in stored : Table(u) = "use" /\ r = Rebound(u, raw)
                              \/ r \in EpisodeRows(raw) \cup LinkRows(raw)
    BY <1>1, <2>1, WithEpisodesIs
  <2>3. \A r \in EpisodeRows(raw) : Table(r) = "work_episode"
    BY <2>1, EpisodeRowsAre
  <2>4. \A r \in LinkRows(raw) : Table(r) = "link"
    BY <2>1, LinkRowsAre
  <2>5. \A u \in stored : Table(u) = "use" => Table(Rebound(u, raw)) = "use"
    BY <2>1, ReboundIs
  <2> QED BY <2>2, <2>3, <2>4, <2>5 DEF In
<1>5. Planned' /\ ErasedIsClean'
  BY <1>1, <1>4 DEF Planned, ErasedIsClean
<1> QED BY <1>2, <1>3, <1>5 DEF ErasureInv

\* What is derived from the events that are left names nothing that was erased.
LEMMA ProjectionIsClean ==
    ASSUME ErasureInv, call \in {"settle", "gate"}, NEW r \in ProjectionOf(raw)
    PROVE  /\ r.self \notin operation.dependents
           /\ r.refs \cap ErasedRefs = {} /\ r.refs \cap operation.dependents = {}
<1>1. raw \subseteq Events
  BY DEF ErasureInv, StoreInv
<1>2. /\ \A e \in raw : e \notin operation.sources /\ SessionOf[e] \notin operation.sessions
      /\ Is("episode") => TargetId \notin GroupsOf(raw)
  BY DEF ErasureInv, ErasedIsClean
<1>3. \A s \in Present(raw) : s \notin operation.sessions
  BY <1>2 DEF Present
<1>4. /\ HasShape(r) /\ Table(r) \in {"work_episode", "link", "context"}
      /\ Table(r) \in {"work_episode", "link"} =>
            Id(r) \subseteq Present(raw) /\ r.refs = EventRefs(Of(raw, Id(r))) \cup SessionRefs(Id(r))
      /\ Table(r) = "context" => r.refs = EventRefs(raw) \cup {<<"episode", p>> : p \in GroupsOf(raw)}
  BY <1>1, EpisodeRowsAre, LinkRowsAre, ContextRowsAre, GroupsAre DEF ProjectionOf
<1>5. r.refs \cap operation.dependents = {}
  <2>1. OnlyOf(operation.dependents, DependentKinds)
    BY DEF ErasureInv, OperationFits
  <2>2. OnlyOf(r.refs, {"event", "session"}) \/ OnlyOf(r.refs, {"event", "episode"})
    BY <1>4, KindsOfRefs
  <2> QED BY <2>1, <2>2, KindsApart DEF DependentKinds
<1>6. r.self \notin operation.dependents
  <2>1. r.self = <<Table(r), Id(r)>>
    BY <1>4 DEF HasShape
  <2>2. \A x \in operation.dependents :
           /\ x[1] # "context"
           /\ x[1] \in {"work_episode", "link"} => ~ x[2] \subseteq Present(raw)
    BY DEF ErasureInv, StoreInv, OperationFits, OnlyOf, DependentKinds, DependentsStayAway
  <2> QED BY <2>1, <2>2, <1>4
<1>7. r.refs \cap ErasedRefs = {}
  <2>1. CASE Table(r) \in {"work_episode", "link"}
    <3>1. \A e \in Of(raw, Id(r)) : e \in raw
      BY DEF Of
    <3>2. r.refs = EventRefs(Of(raw, Id(r))) \cup SessionRefs(Id(r)) /\ Id(r) \subseteq Present(raw)
      BY <2>1, <1>4
    <3> QED BY <3>1, <3>2, <1>2, <1>3 DEF ErasedRefs, EventRefs, SessionRefs
  <2>2. CASE Table(r) = "context"
    <3>1. r.refs = EventRefs(raw) \cup {<<"episode", p>> : p \in GroupsOf(raw)}
      BY <2>2, <1>4
    <3> QED BY <3>1, <1>2 DEF ErasedRefs, EventRefs, SessionRefs
  <2> QED BY <2>1, <2>2, <1>4
<1> QED BY <1>5, <1>6, <1>7

LEMMA SettleKeeps ==
    ASSUME ErasureInv, Settle PROVE ErasureInv'
<1>1. /\ ~ Refused(ProjectionOf(raw)) /\ call = "settle" /\ call' = "gate"
      /\ stored' = WithContexts(WithEpisodes(stored, raw), raw) /\ UNCHANGED <<raw, tombs, suppressed, operation>>
  BY DEF Settle, Step
<1>2. StoreInv'
  BY <1>1, RebuiltStore
<1>3. OperationFits'
  BY <1>1 DEF ErasureInv, OperationFits, DeletionIsActive, Is, TargetId
<1>4. Planned'
  BY <1>1 DEF Planned
<1>5. raw \subseteq Events /\ (\A r \in stored : HasShape(r)) /\ OnlyOf(operation.dependents, DependentKinds)
  BY DEF ErasureInv, OperationFits, StoreInv, RowsFit
<1>6. ASSUME NEW r \in stored'
      PROVE  \/ r \in stored /\ Table(r) \notin Rebuilt
             \/ \E u \in stored : Table(u) = "use" /\ r = Rebound(u, raw)
             \/ r \in ProjectionOf(raw) /\ Table(r) \in Rebuilt
  <2>1. \/ r \in stored /\ Table(r) \notin {"work_episode", "link", "use"}
        \/ \E u \in stored : Table(u) = "use" /\ r = Rebound(u, raw)
        \/ r \in EpisodeRows(raw) \cup LinkRows(raw) \cup ContextRows(raw)
    BY <1>1, RebuiltStore
  <2>2. r \in ContextRows(raw) \/ Table(r) # "context"
    BY <1>1 DEF WithContexts
  <2>3. r \in EpisodeRows(raw) \cup LinkRows(raw) \cup ContextRows(raw) =>
            r \in ProjectionOf(raw) /\ Table(r) \in Rebuilt
    BY <1>5, EpisodeRowsAre, LinkRowsAre, ContextRowsAre DEF ProjectionOf, Rebuilt
  <2> QED BY <2>1, <2>2, <2>3 DEF Rebuilt
<1>7. ASSUME NEW r \in stored', Table(r) \notin Rebuilt PROVE RowIsClean(r)
  <2>1. \A x \in stored : Table(x) \notin Rebuilt => RowIsClean(x)
    BY <1>1 DEF ErasureInv, ErasedIsClean
  <2>2. ASSUME NEW u \in stored, Table(u) = "use", r = Rebound(u, raw) PROVE RowIsClean(r)
    <3>1. RowIsClean(u)
      BY <2>1, <2>2 DEF Rebuilt
    <3>2. u.self = r.self /\ r.refs \subseteq u.refs \cup {<<"episode", p>> : p \in GroupsOf(raw)}
      BY <1>5, <2>2, ReboundIs
    <3>3. \A p \in GroupsOf(raw) : <<"episode", p>> \notin ErasedRefs
      <4>1. Is("episode") => TargetId \notin GroupsOf(raw)
        BY <1>1 DEF ErasureInv, ErasedIsClean
      <4> QED BY <4>1 DEF ErasedRefs, EventRefs, SessionRefs
    <3>4. \A p : <<"episode", p>> \notin operation.dependents
      BY <1>5 DEF OnlyOf, DependentKinds
    <3>5. u.refs \cap operation.dependents = {}
      BY <2>2, <3>1 DEF RowIsClean
    <3> QED BY <3>1, <3>2, <3>3, <3>4, <3>5 DEF RowIsClean
  <2> QED BY <2>1, <2>2, <1>6, <1>7
<1>8. ASSUME NEW r \in stored', Table(r) \in Rebuilt PROVE r \in ProjectionOf(raw)
  <2>1. \A u \in stored : Table(u) = "use" => Table(Rebound(u, raw)) = "use"
    BY <1>5, ReboundIs
  <2> QED BY <2>1, <1>6, <1>8 DEF Rebuilt
<1>9. \A r : RowIsClean(r) => RowIsClean(r)'
  BY <1>1 DEF RowIsClean, ErasedRefs, Stranded, Is, TargetId
<1>10. ErasedIsClean'
  BY <1>1, <1>7, <1>8, <1>9 DEF ErasureInv, ErasedIsClean, Is, TargetId
<1> QED BY <1>2, <1>3, <1>4, <1>10 DEF ErasureInv

\* The gate finds nothing: what the operation named becomes a tombstone.
LEMMA GatePasses ==
    ASSUME ErasureInv, call = "gate", ~ Remaining, call' = "idle", tombs' = tombs \cup Identities,
           operation' = NoOperation, UNCHANGED <<raw, stored, suppressed>>
    PROVE  ErasureInv'
<1>1. /\ RemainingIdentities \cap Identities = {}
      /\ \A r \in stored : Records(r) \cap operation.dependents = {}
  BY DEF Remaining, Remains
<1>2. Identities \subseteq ErasedRefs /\ OnlyOf(Identities, {"event", "session", "episode"})
  BY DEF Identities, ErasedRefs, OnlyOf, EventRefs, SessionRefs
<1>3. ASSUME NEW r \in stored PROVE r.refs \cap ErasedRefs = {}
  <2>1. CASE Table(r) \in Rebuilt
    BY <2>1, ProjectionIsClean DEF ErasureInv, ErasedIsClean
  <2>2. CASE Table(r) \notin Rebuilt
    BY <2>2 DEF ErasureInv, ErasedIsClean, RowIsClean
  <2> QED BY <2>1, <2>2
<1>4. TombsAreFree'
  <2>1. OnlyOf(tombs, {"event", "session", "episode"}) /\ (\A e \in raw : ~ Blocked(e))
        /\ (\A r \in stored : r.refs \cap tombs = {})
    BY DEF ErasureInv, StoreInv, TombsAreFree
  <2>2. OnlyOf(tombs', {"event", "session", "episode"})
    BY <1>2, <2>1, KindsJoin
  <2>3. \A r \in stored : r.refs \cap tombs' = {}
    BY <1>2, <1>3, <2>1
  <2>4. ASSUME NEW e \in raw
        PROVE  (EventRefs({e} \cup RefersTo[e]) \cup SessionRefs({SessionOf[e]})) \cap tombs' = {}
    <3>1. (EventRefs({e} \cup RefersTo[e]) \cup SessionRefs({SessionOf[e]})) \subseteq RemainingIdentities
      BY DEF RemainingIdentities
    <3>2. (EventRefs({e} \cup RefersTo[e]) \cup SessionRefs({SessionOf[e]})) \cap tombs = {}
      BY <2>1 DEF Blocked
    <3> QED BY <3>1, <3>2, <1>1
  <2> QED BY <2>2, <2>3, <2>4 DEF TombsAreFree, Blocked
<1>5. SuppressedIsGone'
  <2>1. ASSUME NEW k \in suppressed, NEW r \in stored PROVE r.self # Piece(k) /\ Piece(k) \notin r.refs
    <3>1. /\ r.self # Piece(k)
          /\ Piece(k) \in r.refs => Table(r) = "knowledge" /\ Piece(k) \in operation.dependents
      BY DEF ErasureInv, StoreInv, SuppressedIsGone
    <3>2. Table(r) = "knowledge" => r.refs \subseteq Records(r)
      BY DEF Records
    <3> QED BY <3>1, <3>2, <1>1
  <2> QED BY <2>1 DEF SuppressedIsGone
<1>6. OperationFits'
  BY DEF OperationFits, NoOperation, DeletionIsActive, OnlyOf
<1>7. PlanIsWhole' /\ DependentsStayAway'
  BY DEF PlanIsWhole, DependentsStayAway, NoOperation
<1>8. Planned' /\ ErasedIsClean'
  BY DEF Planned, ErasedIsClean
<1> QED BY <1>4, <1>5, <1>6, <1>7, <1>8 DEF ErasureInv, StoreInv

LEMMA GateKeeps ==
    ASSUME ErasureInv, Gate PROVE ErasureInv'
<1>1. call = "gate" /\ call' = "idle" /\ UNCHANGED <<raw, stored, suppressed>>
  BY DEF Gate, Step
<1>2. DeletionIsActive
  BY <1>1 DEF ErasureInv, OperationFits
<1>3. CASE Remaining
  BY <1>1, <1>2, <1>3, CallKeeps DEF Gate
<1>4. CASE ~ Remaining
  BY <1>1, <1>4, GatePasses DEF Gate
<1> QED BY <1>3, <1>4

-------------------------------------------------------------------------------
(* The plan *)

\* What a proposal names: its job, and lessons.
LEMMA ProposalNamesItsJob ==
    ASSUME NEW q, HasShape(q), Table(q) = "proposal", NEW j, <<"job", j>> \in q.refs
    PROVE  j = Id(q)[1]
<1>1. PICK i \in Jobs : \E k \in Learns[i] :
          Id(q) = <<i, k>> /\ q.refs = {<<"job", i>>, Piece(k)} \cup {Piece(x) : x \in Reviewed[i]}
  BY DEF HasShape, ShapeOfTable, IsProposal
<1> QED BY <1>1 DEF Piece

\* A target that names no events and no sessions selects none.
LEMMA NothingNamed ==
    ASSUME raw \subseteq Events, Named = {}, TargetSessions = {} PROVE Sources = {} /\ Selected = {}
<1>1. \A e \in raw : \/ e \in Named \/ SessionOf[e] \in TargetSessions \/ RefersTo[e] \cap (Named \cup {}) # {}
                     => e \in {}
  OBVIOUS
<1>2. Selected \subseteq {}
  BY <1>1, SelectedIs
<1> QED BY <1>2 DEF Sources

LEMMA PlannedOperationFits ==
    ASSUME ErasureInv, DeletionIsActive
    PROVE  /\ Is("knowledge") => Sources = {} /\ TargetSessions = {}
           /\ Is("episode") => TargetSessions = TargetId \/ (TargetSessions = {} /\ Sources = {})
<1>1. raw \subseteq Events
  BY DEF ErasureInv, StoreInv
<1>2. /\ Is("knowledge") => operation.sources = {} /\ operation.sessions = {}
      /\ Is("episode") => operation.sessions = TargetId \/ (operation.sessions = {} /\ operation.sources = {})
  BY DEF ErasureInv, OperationFits
<1>3. ASSUME ~ Is("source"), ~ Is("session"), TargetEpisode = {}, operation.sources = {}, operation.sessions = {}
      PROVE  Sources = {} /\ TargetSessions = {}
  <2>1. Named = {} /\ TargetSessions = {}
    BY <1>3 DEF Named, TargetSessions
  <2> QED BY <1>1, <2>1, NothingNamed
<1>4. CASE Is("knowledge")
  <2>1. TargetEpisode = {} /\ ~ Is("source") /\ ~ Is("session") /\ ~ Is("episode")
    BY <1>4 DEF TargetEpisode, Is
  <2> QED BY <1>2, <1>3, <1>4, <2>1
<1>5. CASE Is("episode")
  <2>1. ~ Is("source") /\ ~ Is("session") /\ ~ Is("knowledge")
    BY <1>5 DEF Is
  <2>2. \A r \in TargetEpisode : Id(r) = TargetId
    BY DEF TargetEpisode
  <2>3. CASE operation.sessions = TargetId
    BY <2>1, <2>2, <2>3 DEF TargetSessions
  <2>4. CASE operation.sessions = {} /\ operation.sources = {}
    <3>1. CASE TargetEpisode = {}
      BY <2>1, <2>4, <3>1, <1>3
    <3>2. CASE TargetEpisode # {}
      BY <2>1, <2>2, <2>4, <3>2 DEF TargetSessions
    <3> QED BY <3>1, <3>2
  <2> QED BY <2>1, <2>3, <2>4, <1>2, <1>5
<1> QED BY <1>4, <1>5

LEMMA LearningRefsAre ==
    ASSUME \A r \in stored : HasShape(r)
    PROVE  /\ OnlyOf(LearningRefs, {"knowledge", "job", "proposal"})
           /\ \A j : <<"job", j>> \in LearningRefs <=> j \in AffectedJobs
           /\ \A k : Piece(k) \in LearningRefs <=> k \in AffectedLessons
           /\ \A q \in In("proposal") : q.self \in LearningRefs <=> Id(q)[1] \in AffectedJobs
           /\ \A q \in In("proposal") : Id(q)[1] \in AffectedJobs => Id(q)[2] \in AffectedLessons
           /\ Is("knowledge") => TargetId \in AffectedLessons
<1> DEFINE jobs == AffectedJobs
           P == ProposalsOf(jobs)
           L == LessonsOf(jobs)
<1>1. LearningRefs = {Piece(k) : k \in L} \cup {<<"job", j>> : j \in jobs} \cup {p.self : p \in P}
  BY DEF LearningRefs
<1>2. AffectedLessons = L
  BY DEF AffectedLessons
<1>3. P = {p \in In("proposal") : Id(p)[1] \in jobs}
  BY DEF ProposalsOf
<1>4. L = {Id(p)[2] : p \in P} \cup (IF Is("knowledge") THEN {TargetId} ELSE {})
  BY DEF LessonsOf
<1>5. \A p \in In("proposal") : p.self = <<"proposal", Id(p)>>
  BY DEF In, HasShape
<1> HIDE DEF jobs, P, L
<1>6. OnlyOf(LearningRefs, {"knowledge", "job", "proposal"})
  BY <1>1, <1>3, <1>5 DEF OnlyOf, Piece
<1>7. \A j : <<"job", j>> \in LearningRefs <=> j \in jobs
  BY <1>1, <1>3, <1>5 DEF Piece
<1>8. \A k : Piece(k) \in LearningRefs <=> k \in L
  BY <1>1, <1>3, <1>5 DEF Piece
<1>9. \A q \in In("proposal") : q.self \in LearningRefs <=> Id(q)[1] \in jobs
  BY <1>1, <1>3, <1>5 DEF Piece
<1>10. \A q \in In("proposal") : Id(q)[1] \in jobs => Id(q)[2] \in L
  BY <1>3, <1>4
<1>11. Is("knowledge") => TargetId \in L
  BY <1>4
<1> QED BY <1>2, <1>6, <1>7, <1>8, <1>9, <1>10, <1>11 DEF jobs

LEMMA SelectKeeps ==
    ASSUME ErasureInv, Select PROVE ErasureInv'
<1>1. /\ call = "select" /\ call' = "erase" /\ UNCHANGED <<raw, stored, tombs, suppressed>>
      /\ operation' = [operation EXCEPT !.sources = Sources, !.sessions = TargetSessions, !.seeds = Seeds,
                                        !.dependents = @ \cup LearningRefs]
  BY DEF Select
<1>2. DeletionIsActive
  BY <1>1 DEF ErasureInv, OperationFits
<1>3. /\ operation' = [target |-> operation'.target, sources |-> operation'.sources,
                       sessions |-> operation'.sessions, seeds |-> operation'.seeds,
                       dependents |-> operation'.dependents]
      /\ operation'.target = operation.target /\ operation'.sources = Sources
      /\ operation'.sessions = TargetSessions /\ operation'.seeds = Seeds
      /\ operation'.dependents = operation.dependents \cup LearningRefs
  <2>1. operation = [target |-> operation.target, sources |-> operation.sources, sessions |-> operation.sessions,
                     seeds |-> operation.seeds, dependents |-> operation.dependents]
    BY DEF ErasureInv, OperationFits
  <2> HIDE DEF DeletionIsActive
  <2> QED BY <1>1, <2>1
<1>4. raw \subseteq Events /\ \A r \in stored : HasShape(r)
  BY DEF ErasureInv, StoreInv, RowsFit
<1>5. /\ OnlyOf(LearningRefs, {"knowledge", "job", "proposal"})
      /\ \A j : <<"job", j>> \in LearningRefs <=> j \in AffectedJobs
      /\ \A k : Piece(k) \in LearningRefs <=> k \in AffectedLessons
      /\ \A q \in In("proposal") : q.self \in LearningRefs <=> Id(q)[1] \in AffectedJobs
      /\ \A q \in In("proposal") : Id(q)[1] \in AffectedJobs => Id(q)[2] \in AffectedLessons
      /\ Is("knowledge") => TargetId \in AffectedLessons
  BY <1>4, LearningRefsAre
<1>6. /\ TargetId' = TargetId /\ DeletionIsActive' /\ \A type : Is(type)' = Is(type)
  BY <1>2, <1>3 DEF TargetId, DeletionIsActive, Is
<1>7. OperationFits'
  <2>1. OnlyOf(operation.dependents, DependentKinds) /\ operation.target \in {NoTarget} \cup TargetIds
    BY DEF ErasureInv, OperationFits
  <2>2. OnlyOf(operation'.dependents, DependentKinds)
    <3>1. OnlyOf(LearningRefs, DependentKinds)
      BY <1>5, KindsGrow DEF DependentKinds
    <3> QED BY <2>1, <3>1, <1>3, KindsJoin
  <2>3. /\ Is("knowledge") => operation'.sources = {} /\ operation'.sessions = {}
        /\ Is("episode") => \/ operation'.sessions = TargetId
                            \/ operation'.sessions = {} /\ operation'.sources = {}
    BY <1>2, <1>3, PlannedOperationFits
  <2> QED BY <1>1, <1>3, <1>6, <2>1, <2>2, <2>3 DEF OperationFits
<1>8. PlanIsWhole'
  <2>1. ASSUME NEW q \in In("proposal"), ({q.self} \cup q.refs) \cap operation'.dependents # {}
        PROVE  {q.self, <<"job", Id(q)[1]>>, Piece(Id(q)[2])} \subseteq operation'.dependents
    <3>1. q \in stored /\ HasShape(q) /\ Table(q) = "proposal"
      BY <1>4 DEF In
    <3>2. CASE ({q.self} \cup q.refs) \cap operation.dependents # {}
      BY <1>3, <3>2 DEF ErasureInv, StoreInv, PlanIsWhole
    <3>3. ASSUME NEW x \in {q.self} \cup q.refs, x \in LearningRefs PROVE Id(q)[1] \in AffectedJobs
      <4>1. CASE x = q.self
        BY <1>5, <3>3, <4>1
      <4>2. CASE x \in q.refs
        <5>1. OnlyOf(q.refs, {"job", "knowledge"})
          BY <3>1, KindsOfRefs
        <5>2. x = <<"job", x[2]>> \/ x = Piece(x[2])
          BY <4>2, <5>1 DEF OnlyOf, Piece
        <5>3. CASE x = <<"job", x[2]>>
          BY <3>1, <3>3, <4>2, <5>3, <1>5, ProposalNamesItsJob
        <5>4. CASE x = Piece(x[2])
          BY <3>3, <4>2, <5>4, <1>4, <1>5, AffectedJobsAre
        <5> QED BY <5>2, <5>3, <5>4
      <4> QED BY <4>1, <4>2
    <3>4. CASE Id(q)[1] \in AffectedJobs
      BY <3>4, <1>3, <1>5
    <3> QED BY <3>2, <3>3, <3>4, <2>1, <1>3
  <2> QED BY <1>1, <2>1 DEF PlanIsWhole, In
<1>9. DependentsStayAway'
  <2>1. \A x \in LearningRefs : x[1] \in {"knowledge", "job", "proposal"}
    BY <1>5 DEF OnlyOf
  <2>2. \A r \in stored : Table(r) \in {"feedback", "use", "key", "opportunity"} =>
            r.self \notin operation.dependents /\ r.self \notin LearningRefs
    <3>1. \A r \in stored : r.self[1] = Table(r)
      BY DEF Table
    <3> QED BY <2>1, <3>1 DEF ErasureInv, StoreInv, DependentsStayAway
  <2> QED BY <1>1, <1>3, <2>1, <2>2 DEF ErasureInv, StoreInv, DependentsStayAway
<1>10. SuppressedIsGone'
  BY <1>1, <1>3, <1>6 DEF ErasureInv, StoreInv, SuppressedIsGone
<1>11. TombsAreFree' /\ raw' \subseteq Events /\ RowsFit(stored, raw)'
  BY <1>1 DEF ErasureInv, StoreInv, TombsAreFree, Blocked
<1>12. Planned'
  <2>1. In("work_episode")' = EpisodeRows(raw)'
    BY <1>1 DEF ErasureInv, Planned, In, EpisodeRows, GroupsOf, Of, Present, RowOf, EventRefs, SessionRefs
  <2>2. TargetEpisode' = TargetEpisode
    BY <1>1, <1>6 DEF TargetEpisode, In
  <2>3. Named' \subseteq operation'.sources
    <3>1. Named' = Sources \cup (IF Is("source") THEN {TargetId} ELSE {})
                       \cup UNION {Of(raw, Id(r)) : r \in TargetEpisode}
      BY <1>1, <1>3, <1>6, <2>2 DEF Named, Of
    <3> QED BY <3>1, <1>3 DEF Sources, Named
  <2>4. TargetSessions' \subseteq operation'.sessions
    <3>1. TargetSessions' = TargetSessions \cup (IF Is("session") THEN {TargetId} ELSE {})
                               \cup UNION {Id(r) : r \in TargetEpisode}
      BY <1>3, <1>6, <2>2 DEF TargetSessions
    <3> QED BY <3>1, <1>3 DEF TargetSessions
  <2>5. \A e \in raw : SessionOf[e] \in TargetSessions \/ RefersTo[e] \cap Sources # {} => e \in Sources
    BY <1>4, SelectedIs DEF Sources
  <2>6. Is("episode") => TargetId \in Seeds
    BY DEF Seeds
  <2>7. Is("knowledge") => Piece(TargetId) \in operation'.dependents
    BY <1>3, <1>5
  <2>8. ASSUME NEW r \in In("job"), r.refs \cap EventRefs(Sources) # {} PROVE r.self \in operation'.dependents
    <3>1. r.self = <<"job", Id(r)>>
      BY <1>4 DEF In, HasShape
    <3>2. Id(r) \in AffectedJobs
      BY <2>8, <1>4, AffectedJobsAre
    <3> QED BY <3>1, <3>2, <1>3, <1>5
  <2>9. \A r \in In("job")' : r.refs \cap EventRefs(operation'.sources) # {} => r.self \in operation'.dependents
    BY <1>1, <1>3, <2>8 DEF In
  <2>10. \A e \in raw' : \/ SessionOf[e] \in operation'.sessions
                         \/ RefersTo[e] \cap operation'.sources # {}
                         => e \in operation'.sources
    BY <1>1, <1>3, <2>5
  <2>11. /\ Is("episode")' => TargetId' \in operation'.seeds
         /\ Is("knowledge")' => Piece(TargetId') \in operation'.dependents
    BY <1>3, <1>6, <2>6, <2>7
  <2> QED BY <2>1, <2>3, <2>4, <2>9, <2>10, <2>11 DEF Planned, EventRefs, Piece
<1>13. ErasedIsClean'
  BY <1>1 DEF ErasedIsClean
<1> QED BY <1>7, <1>8, <1>9, <1>10, <1>11, <1>12, <1>13 DEF ErasureInv, StoreInv

-------------------------------------------------------------------------------
(* The erasure *)

\* What is erased is what the plan says.
LEMMA ErasedAsPlanned ==
    ASSUME ErasureInv, call = "erase"
    PROVE  /\ Selected = raw \cap operation.sources /\ Sources = operation.sources
           /\ \A e \in raw \ Selected : /\ e \notin operation.sources /\ SessionOf[e] \notin operation.sessions
                                        /\ RefersTo[e] \cap operation.sources = {}
<1>1. raw \subseteq Events
  BY DEF ErasureInv, StoreInv
<1>2. /\ Named \subseteq operation.sources /\ TargetSessions \subseteq operation.sessions
      /\ \A e \in raw : SessionOf[e] \in operation.sessions \/ RefersTo[e] \cap operation.sources # {}
                        => e \in operation.sources
  BY DEF ErasureInv, Planned
<1>3. operation.sources \subseteq Named
  BY DEF Named
<1>4. Selected \subseteq raw /\ \A e \in raw : e \in Named => e \in Selected
  BY <1>1, SelectedIs
<1>5. Selected \subseteq operation.sources
  <2>1. \A e \in raw : \/ e \in Named \/ SessionOf[e] \in TargetSessions
                       \/ RefersTo[e] \cap (Named \cup operation.sources) # {}
                       => e \in operation.sources
    BY <1>2
  <2> QED BY <1>1, <2>1, SelectedIs
<1>6. Selected = raw \cap operation.sources /\ Sources = operation.sources
  BY <1>2, <1>3, <1>4, <1>5 DEF Sources
<1> QED BY <1>2, <1>6

\* The sessions of the plan, and nothing of what is left, are removed.
LEMMA RemovedAsPlanned ==
    ASSUME ErasureInv, call = "erase"
    PROVE  /\ operation.sessions \subseteq RemovedSessions
           /\ RemovedSessions \cap Present(raw \ Selected) = {}
<1>1. \A e \in raw \ Selected : SessionOf[e] \notin operation.sessions
  BY ErasedAsPlanned
<1>2. operation.sessions \cap Present(raw \ Selected) = {}
  BY <1>1 DEF Present
<1>3. RemovedSessions = (operation.sessions \cup Present(Selected)) \ Present(raw \ Selected)
  BY DEF RemovedSessions
<1> QED BY <1>2, <1>3

\* The jobs and lessons that go are those of the plan.
LEMMA LearningAsPlanned ==
    ASSUME ErasureInv, call = "erase"
    PROVE  \A k \in AffectedLessons : Piece(k) \in operation.dependents
<1>1. \A r \in stored : HasShape(r)
  BY DEF ErasureInv, StoreInv, RowsFit
<1>2. \A q \in In("proposal") :
         ({q.self} \cup q.refs) \cap operation.dependents # {} =>
             <<"job", Id(q)[1]>> \in operation.dependents /\ Piece(Id(q)[2]) \in operation.dependents
  BY DEF ErasureInv, StoreInv, PlanIsWhole
<1>3. \A q \in In("proposal") : <<"job", Id(q)[1]>> \in q.refs /\ Piece(Id(q)[2]) \in q.refs
  BY <1>1, ProposalsHaveJobs DEF In
<1>4. /\ Is("knowledge") => Piece(TargetId) \in operation.dependents
      /\ \A r \in In("job") : r.refs \cap EventRefs(operation.sources) # {} => r.self \in operation.dependents
  BY DEF ErasureInv, Planned
<1> DEFINE B == {j \in Jobs : <<"job", j>> \in operation.dependents}
<1>5. AffectedJobs \subseteq B
  <2>1. ASSUME NEW r \in In("job"), r.refs \cap EventRefs(Sources) # {} PROVE Id(r) \in B
    <3>1. r.self = <<"job", Id(r)>> /\ Id(r) \in Jobs
      BY <1>1 DEF In, HasShape, ShapeOfTable, IsJob
    <3> QED BY <2>1, <3>1, <1>4, ErasedAsPlanned
  <2>2. \A q \in In("proposal") : Id(q)[1] \in Jobs
    BY <1>1, ProposalsHaveJobs DEF In
  <2>3. \A q \in In("proposal") : Is("knowledge") /\ Piece(TargetId) \in q.refs => Id(q)[1] \in B
    BY <1>2, <1>4, <2>2
  <2>4. \A p, q \in In("proposal") : Id(p)[1] \in B /\ Piece(Id(p)[2]) \in q.refs => Id(q)[1] \in B
    BY <1>2, <1>3, <2>2
  <2> HIDE DEF B
  <2> QED BY <1>1, <2>1, <2>3, <2>4, AffectedJobsAre
<1>6. ASSUME NEW k \in AffectedLessons PROVE Piece(k) \in operation.dependents
  <2>1. AffectedLessons = {Id(p)[2] : p \in {q \in In("proposal") : Id(q)[1] \in AffectedJobs}}
                            \cup (IF Is("knowledge") THEN {TargetId} ELSE {})
    BY DEF AffectedLessons, LessonsOf, ProposalsOf
  <2>2. ASSUME NEW p \in In("proposal"), Id(p)[1] \in AffectedJobs PROVE Piece(Id(p)[2]) \in operation.dependents
    BY <2>2, <1>2, <1>3, <1>5
  <2> QED BY <2>1, <2>2, <1>4
<1> QED BY <1>6

\* Jobs and proposals that are not in the plan, and the lessons they make, stay.
LEMMA LearningStays ==
    ASSUME ErasureInv, call = "erase"
    PROVE  /\ \A r \in Kept : Table(r) = "job" => LearnsFrom[Id(r)] \in raw \ Selected
           /\ \A r \in Kept : Table(r) \in {"job", "proposal"} => r \notin Split /\ r \notin Gone
           /\ \A r \in Gone : Table(r) = "knowledge" => Id(r) \notin Learnable
<1>1. IsFiniteSet(stored) /\ (\A r \in stored : HasShape(r)) /\ JobsHaveEvents(stored, raw) /\ LessonsHaveJobs(stored)
  BY DEF ErasureInv, StoreInv, RowsFit
<1>2. /\ Kept \subseteq stored
      /\ \A r \in Kept : Table(r) \in {"job", "proposal", "knowledge"} => r.self \notin operation.dependents
  BY DEF Kept
<1>3. Selected = raw \cap operation.sources
  BY ErasedAsPlanned
<1>4. ASSUME NEW r \in Kept, Table(r) = "job" PROVE LearnsFrom[Id(r)] \in raw \ Selected
  <2>1. LearnsFrom[Id(r)] \in raw
    BY <1>1, <1>2, <1>4 DEF JobsHaveEvents
  <2>2. r.refs = EventRefs({LearnsFrom[Id(r)]})
    BY <1>1, <1>2, <1>4 DEF HasShape, ShapeOfTable, IsJob
  <2>3. r.refs \cap EventRefs(operation.sources) = {}
    BY <1>2, <1>4 DEF ErasureInv, Planned, In
  <2>4. LearnsFrom[Id(r)] \notin operation.sources
    BY <2>2, <2>3 DEF EventRefs
  <2> QED BY <2>1, <2>4, <1>3
<1>5. Gone \subseteq Examined
  BY <1>1, GoneIs
<1>6. ASSUME NEW r \in Kept, Table(r) \in {"job", "proposal"} PROVE r \notin Split /\ r \notin Gone
  BY <1>5, <1>6 DEF Split, Examined
<1>7. ASSUME NEW r \in Examined, Table(r) = "knowledge", Id(r) \in Learnable
      PROVE  OnlyOf(r.refs, {"event"}) /\ r.refs \cap EventRefs(operation.sources) = {}
  <2>1. r \in Kept /\ r \in stored
    BY <1>2 DEF Examined
  <2>2. PICK j \in Jobs : /\ r.refs = EventRefs({LearnsFrom[j]})
                          /\ \E x \in stored : x.self = <<"job", j>>
                          /\ \E x \in stored : x.self = <<"proposal", <<j, Id(r)>>>>
    BY <1>1, <1>7, <2>1 DEF LessonsHaveJobs
  <2>3. PICK x \in stored : x.self = <<"job", j>>
    BY <2>2
  <2>4. PICK q \in stored : q.self = <<"proposal", <<j, Id(r)>>>>
    BY <2>2
  <2>5. Table(x) = "job" /\ Id(x) = j /\ Table(q) = "proposal" /\ Id(q) = <<j, Id(r)>>
    BY <2>3, <2>4 DEF Table, Id
  <2>6. x.self \notin operation.dependents
    <3>1. r.self = Piece(Id(r)) /\ r.self \notin operation.dependents
      BY <1>1, <1>2, <1>7, <2>1 DEF HasShape, Piece
    <3>2. <<"job", j>> \in q.refs
      BY <1>1, <2>5, ProposalsHaveJobs
    <3>3. q \in In("proposal") /\ Id(q)[2] = Id(r)
      BY <2>5 DEF In
    <3>4. ({q.self} \cup q.refs) \cap operation.dependents # {} => Piece(Id(r)) \in operation.dependents
      BY <3>3 DEF ErasureInv, StoreInv, PlanIsWhole
    <3> QED BY <2>3, <3>1, <3>2, <3>4
  <2>7. x \in Kept
    BY <2>6 DEF Kept
  <2>8. LearnsFrom[j] \notin operation.sources
    BY <1>3, <1>4, <2>5, <2>7
  <2>9. OnlyOf(EventRefs({LearnsFrom[j]}), {"event"})
    BY RefsAre
  <2>10. EventRefs({LearnsFrom[j]}) \cap EventRefs(operation.sources) = {}
    BY <2>8 DEF EventRefs
  <2> QED BY <2>2, <2>9, <2>10
<1>8. ASSUME NEW r \in Gone, Table(r) = "knowledge" PROVE Id(r) \notin Learnable
  <2> DEFINE B == {x \in Examined : ~ (Table(x) = "knowledge" /\ Id(x) \in Learnable)}
  <2>1. ASSUME NEW x \in Examined, x.refs \cap Typed # {} PROVE x \in B
    <3>1. SUFFICES ASSUME Table(x) = "knowledge", Id(x) \in Learnable PROVE FALSE
      OBVIOUS
    <3>2. OnlyOf(x.refs, {"event"}) /\ x.refs \cap EventRefs(operation.sources) = {}
      BY <3>1, <1>7
    <3>3. OnlyOf(operation.dependents, DependentKinds)
      BY DEF ErasureInv, OperationFits
    <3>4. x.refs \cap operation.dependents = {}
      BY <3>2, <3>3, KindsApart DEF DependentKinds
    <3>5. x.refs \cap (SessionRefs(RemovedSessions) \cup {<<"episode", p>> : p \in operation.seeds}) = {}
      BY <3>2 DEF OnlyOf, SessionRefs
    <3> QED BY <2>1, <3>2, <3>4, <3>5 DEF Typed
  <2>2. ASSUME NEW x \in Examined, NEW g \in Examined, g.self \in x.refs PROVE x \in B
    <3>1. SUFFICES ASSUME Table(x) = "knowledge", Id(x) \in Learnable PROVE FALSE
      OBVIOUS
    <3>2. OnlyOf(x.refs, {"event"})
      BY <3>1, <1>7
    <3>3. g \in stored
      BY <1>2 DEF Examined
    <3>4. g.self = <<Table(g), Id(g)>> /\ Table(g) \in Tables
      BY <1>1, <3>3 DEF HasShape
    <3> QED BY <2>2, <3>2, <3>4 DEF OnlyOf, Tables
  <2> HIDE DEF B
  <2>3. Gone \subseteq B
    BY <1>1, <2>1, <2>2, GoneIs
  <2> QED BY <2>3, <1>8 DEF B
<1> QED BY <1>4, <1>6, <1>8

\* Knowledge that a row stands for no longer, or that is archived.
LEMMA AfterIs ==
    ASSUME NEW r, HasShape(r), NEW shaken
    PROVE  LET x == After(r, shaken)
           IN  /\ HasShape(x) /\ x.self = r.self /\ Table(x) = Table(r) /\ Id(x) = Id(r)
               /\ x.refs \subseteq r.refs /\ (Table(r) # "knowledge" => x = r)
               /\ Table(r) = "knowledge" => x.refs = r.refs \/ Id(r) \notin Learnable
<1> DEFINE x == After(r, shaken)
<1>1. r = [self |-> r.self, refs |-> r.refs, state |-> r.state, replaces |-> r.replaces]
      /\ r.self = <<Table(r), Id(r)>> /\ Table(r) \in Tables
  BY Zenon DEF HasShape
<1>2. CASE Table(r) = "knowledge" /\ Is("knowledge") /\ TargetId \in r.replaces
  <2>1. x = [r EXCEPT !.refs = r.refs \ {Piece(TargetId)}, !.replaces = r.replaces \ {TargetId}, !.state = "archived"]
    BY <1>2 DEF After
  <2>2. x = [self |-> r.self, refs |-> r.refs \ {Piece(TargetId)}, state |-> "archived",
             replaces |-> r.replaces \ {TargetId}]
    BY <1>1, <2>1
  <2> HIDE DEF x
  <2>3. x.self = r.self /\ x.refs = r.refs \ {Piece(TargetId)} /\ x.state = "archived"
        /\ x.replaces = r.replaces \ {TargetId} /\ Table(x) = Table(r) /\ Id(x) = Id(r)
    BY <2>2 DEF Table, Id
  <2>4. IsPiece(r)
    BY <1>2 DEF HasShape, ShapeOfTable
  <2>5. Id(r) \in Rules /\ r.refs = {Piece(k) : k \in r.replaces} /\ Id(r) \in KnowledgeIds
    BY <1>2, <2>4 DEF IsPiece
  <2>6. x.refs = {Piece(k) : k \in x.replaces}
    BY <2>3, <2>5 DEF Piece
  <2>7. IsPiece(x)
    BY <2>3, <2>5, <2>6 DEF IsPiece
  <2>8. x = [self |-> x.self, refs |-> x.refs, state |-> x.state, replaces |-> x.replaces]
    BY <2>2, <2>3
  <2>9. ShapeOfTable(x)
    BY <1>2, <2>3, <2>7 DEF ShapeOfTable
  <2>10. HasShape(x)
    BY <1>1, <1>2, <2>3, <2>8, <2>9, Zenon DEF HasShape
  <2> QED BY <1>2, <2>3, <2>5, <2>10, IdsDiffer DEF x
<1>3. CASE x = WithState(r, "archived") /\ Table(r) = "knowledge"
  BY <1>3, WithStateIs
<1>4. CASE x = r
  BY <1>4
<1>5. x = r \/ (x = WithState(r, "archived") /\ Table(r) = "knowledge")
      \/ (Table(r) = "knowledge" /\ Is("knowledge") /\ TargetId \in r.replaces)
  BY DEF After, WithState
<1> QED BY <1>2, <1>3, <1>4, <1>5

\* What is left of the rows.
Left == Kept \ (Split \cup Gone)
Parted == {r.self : r \in Split}
Lost == {r.self : r \in {x \in Gone : Table(x) \notin {"link", "context", "mute"}}}

LEMMA LeftRowsFit ==
    ASSUME ErasureInv, call = "erase"
    PROVE  RowsFit(Left, raw \ Selected)
<1>1. RowsFit(stored, raw) /\ \A r \in stored : HasShape(r)
  BY DEF ErasureInv, StoreInv, RowsFit
<1>2. Left \subseteq stored /\ Left \subseteq Kept
  BY DEF Left, Kept
<1>3. \A r \in Left : Table(r) = "job" => LearnsFrom[Id(r)] \in raw \ Selected
  BY <1>2, LearningStays
<1>4. ASSUME NEW x \in stored \ Left, NEW r \in Left, NEW j \in Jobs,
             Table(r) = "knowledge", \E y \in stored : y.self = <<"proposal", <<j, Id(r)>>>>,
             x.self = <<"job", j>> \/ x.self = <<"proposal", <<j, Id(r)>>>>
      PROVE  FALSE
  <2>1. Table(x) \in {"job", "proposal"}
    BY <1>4 DEF Table
  <2>2. x \notin Kept
    BY <1>4, <2>1, LearningStays DEF Left
  <2>3. x.self \in operation.dependents
    BY <1>4, <2>2 DEF Kept
  <2>4. PICK q \in stored : q.self = <<"proposal", <<j, Id(r)>>>>
    BY <1>4
  <2>5. q \in In("proposal") /\ Id(q) = <<j, Id(r)>> /\ Table(q) = "proposal"
    BY <2>4 DEF In, Table, Id
  <2>6. <<"job", j>> \in q.refs
    BY <1>1, <2>5, ProposalsHaveJobs
  <2>7. ({q.self} \cup q.refs) \cap operation.dependents # {}
    BY <1>4, <2>3, <2>4, <2>6
  <2>8. Piece(Id(r)) \in operation.dependents
    <3>1. Piece(Id(q)[2]) \in operation.dependents
      BY <2>5, <2>7 DEF ErasureInv, StoreInv, PlanIsWhole
    <3> QED BY <2>5, <3>1
  <2>9. r.self = Piece(Id(r)) /\ r.self \notin operation.dependents
    BY <1>1, <1>2, <1>4 DEF HasShape, Piece, Kept
  <2> QED BY <2>8, <2>9
<1>5. \A x \in stored \ Left, r \in Left, j \in Jobs :
         /\ Table(r) = "knowledge" /\ r.refs = EventRefs({LearnsFrom[j]})
         /\ \E y \in stored : y.self = <<"job", j>>
         /\ \E y \in stored : y.self = <<"proposal", <<j, Id(r)>>>>
         => x.self # <<"job", j>> /\ x.self # <<"proposal", <<j, Id(r)>>>>
  BY <1>4
<1> QED BY <1>1, <1>2, <1>3, <1>5, FewerRowsFit

\* What the transaction adds to the plan.
LEMMA PartedAndLost ==
    ASSUME ErasureInv, call = "erase"
    PROVE  /\ OnlyOf(Parted, {"work_episode", "link"})
           /\ OnlyOf(Lost, {"key", "opportunity", "feedback", "use", "knowledge"})
           /\ \A x \in Parted : ~ x[2] \subseteq Present(raw \ Selected)
<1>1. IsFiniteSet(stored) /\ \A r \in stored : HasShape(r)
  BY DEF ErasureInv, StoreInv, RowsFit
<1>2. \A r \in stored : r.self = <<Table(r), Id(r)>> /\ Table(r) \in Tables
  BY <1>1 DEF HasShape
<1>3. Gone \subseteq Examined /\ Examined \subseteq stored /\ Kept \subseteq stored
  BY <1>1, GoneIs DEF Kept
<1>4. \A r \in Split : r \in stored /\ Table(r) \in {"work_episode", "link"}
  BY <1>3 DEF Split
<1>5. \A r \in Gone : r \in stored /\ Table(r) \notin {"job", "proposal", "work_episode"}
  BY <1>3 DEF Examined
<1>6. OnlyOf(Parted, {"work_episode", "link"})
  BY <1>2, <1>4 DEF Parted, OnlyOf
<1>7. OnlyOf(Lost, {"key", "opportunity", "feedback", "use", "knowledge"})
  BY <1>2, <1>5 DEF Lost, OnlyOf, Tables
<1>8. ASSUME NEW r \in Split PROVE ~ Id(r) \subseteq Present(raw \ Selected)
  <2>1. CASE Id(r) \cap RemovedSessions # {}
    BY <2>1, RemovedAsPlanned
  <2>2. CASE Table(r) = "work_episode" /\ Is("episode") /\ Id(r) = TargetId
    <3>1. r \in TargetEpisode
      BY <1>4, <2>2 DEF TargetEpisode, In
    <3>2. Id(r) \subseteq operation.sessions
      BY <3>1 DEF ErasureInv, Planned, TargetSessions
    <3>3. Id(r) # {}
      BY <1>1, <1>4, <2>2 DEF HasShape, ShapeOfTable, IsEpisode
    <3> QED BY <3>2, <3>3, RemovedAsPlanned
  <2> QED BY <2>1, <2>2 DEF Split
<1>9. \A x \in Parted : ~ x[2] \subseteq Present(raw \ Selected)
  BY <1>8 DEF Parted, Id
<1> QED BY <1>6, <1>7, <1>9

\* No row that is left would be taken for one that was lost.
LEMMA LeftIsNotLost ==
    ASSUME ErasureInv, call = "erase", NEW r \in Left PROVE r.self \notin Lost
<1>1. SelvesDiffer(stored) /\ IsFiniteSet(stored) /\ \A x \in stored : HasShape(x)
  BY DEF ErasureInv, StoreInv, RowsFit
<1>2. Gone \subseteq Examined /\ Examined \subseteq stored
  BY <1>1, GoneIs
<1>3. r \in stored /\ r \notin Gone
  BY DEF Left, Kept
<1>4. SUFFICES ASSUME NEW g \in Gone, Table(g) \notin {"link", "context", "mute"}, g.self = r.self PROVE r = g
  BY <1>3 DEF Lost
<1>5. g \in stored /\ Table(g) = Table(r) /\ Id(g) = Id(r) /\ Table(g) \notin {"job", "proposal", "work_episode"}
  BY <1>2, <1>4 DEF Table, Id, Examined
<1>6. HasShape(r) /\ HasShape(g)
  BY <1>1, <1>3, <1>5
<1>7. /\ r = [self |-> r.self, refs |-> r.refs, state |-> r.state, replaces |-> r.replaces]
      /\ g = [self |-> g.self, refs |-> g.refs, state |-> g.state, replaces |-> g.replaces]
      /\ Table(r) # "knowledge" => r.state = "row" /\ r.replaces = {} /\ g.state = "row" /\ g.replaces = {}
  BY <1>5, <1>6, Zenon DEF HasShape
<1>8. CASE Table(r) \in {"opportunity", "feedback"}
  <2>1. r.refs = g.refs
    BY <1>5, <1>6, <1>8 DEF HasShape, ShapeOfTable, IsOpportunity, IsFeedback
  <2> QED BY <1>4, <1>7, <1>8, <2>1
<1>9. CASE Table(r) = "key"
  BY <1>5, <1>6, <1>9 DEF HasShape, ShapeOfTable, IsKey
<1>10. CASE Table(r) = "use"
  BY <1>1, <1>3, <1>4, <1>5, <1>10 DEF SelvesDiffer
<1>11. CASE Table(r) = "knowledge"
  <2>1. Id(g) \notin Learnable
    BY <1>5, <1>11, LearningStays
  <2> QED BY <1>1, <1>3, <1>4, <1>5, <1>11, <2>1 DEF SelvesDiffer
<1>12. Table(r) \in Tables
  BY <1>6 DEF HasShape
<1> QED BY <1>4, <1>5, <1>8, <1>9, <1>10, <1>11, <1>12 DEF Tables

\* What a row that is left names, and is, is not erased.
LEMMA LeftSelfStays ==
    ASSUME ErasureInv, call = "erase", NEW r \in Left, Table(r) \notin Rebuilt
    PROVE  r.self \notin operation.dependents \cup Parted \cup Lost
<1>1. r \in Kept /\ r \in stored
  BY DEF Left, Kept
<1>2. HasShape(r) /\ OnlyOf(operation.dependents, DependentKinds)
  BY <1>1 DEF ErasureInv, OperationFits, StoreInv, RowsFit
<1>3. r.self = <<Table(r), Id(r)>> /\ Table(r) \in Tables
  BY <1>2 DEF HasShape
<1>4. r.self \notin operation.dependents
  <2>1. CASE Table(r) \in {"job", "proposal", "knowledge"}
    BY <1>1, <2>1 DEF Kept
  <2>2. CASE Table(r) \in {"feedback", "use", "key", "opportunity"}
    BY <1>1, <2>2 DEF ErasureInv, StoreInv, DependentsStayAway
  <2>3. CASE Table(r) = "mute"
    BY <1>2, <1>3, <2>3 DEF OnlyOf, DependentKinds
  <2> QED BY <1>3, <2>1, <2>2, <2>3 DEF Tables, Rebuilt
<1>5. r.self \notin Parted
  BY <1>3, PartedAndLost DEF OnlyOf, Rebuilt
<1>6. r.self \notin Lost
  BY LeftIsNotLost
<1> QED BY <1>4, <1>5, <1>6

LEMMA LeftNamesNothingErased ==
    ASSUME ErasureInv, call = "erase", NEW r \in Left, Table(r) \notin Rebuilt
    PROVE  r.refs \cap ErasedRefs = {}
<1>1. r \in Kept /\ r \in stored /\ r \notin Split /\ r \notin Gone
  BY DEF Left, Kept
<1>2. HasShape(r) /\ IsFiniteSet(stored)
  BY <1>1 DEF ErasureInv, StoreInv, RowsFit
<1>3. ErasedRefs \subseteq Typed /\ OnlyOf(ErasedRefs, {"event", "session", "episode"})
  <2>1. Is("episode") => TargetId \in operation.seeds
    BY DEF ErasureInv, Planned
  <2>2. SessionRefs(operation.sessions) \subseteq SessionRefs(RemovedSessions)
    BY RemovedAsPlanned, RefsAre
  <2>3. OnlyOf(ErasedRefs, {"event", "session", "episode"})
    BY DEF ErasedRefs, OnlyOf, EventRefs, SessionRefs
  <2> QED BY <2>1, <2>2, <2>3 DEF ErasedRefs, Typed
<1>4. CASE r \in Examined
  BY <1>1, <1>2, <1>3, <1>4, GoneIs
<1>5. CASE Table(r) = "job"
  <2>1. r.refs = EventRefs({LearnsFrom[Id(r)]})
    BY <1>2, <1>5 DEF HasShape, ShapeOfTable, IsJob
  <2>2. LearnsFrom[Id(r)] \notin operation.sources
    BY <1>1, <1>5, LearningStays, ErasedAsPlanned
  <2> QED BY <2>1, <2>2 DEF ErasedRefs, EventRefs, SessionRefs
<1>6. CASE Table(r) = "proposal"
  BY <1>2, <1>3, <1>6, KindsOfRefs, KindsApart
<1>7. CASE Table(r) = "knowledge" /\ Is("knowledge")
  <2>1. operation.sources = {} /\ operation.sessions = {} /\ ~ Is("episode")
    BY <1>7 DEF ErasureInv, OperationFits, Is
  <2> QED BY <2>1 DEF ErasedRefs, EventRefs, SessionRefs
<1> QED BY <1>1, <1>4, <1>5, <1>6, <1>7 DEF Examined, Rebuilt

LEMMA LeftNamesNothingLost ==
    ASSUME ErasureInv, call = "erase", NEW r \in Left, Table(r) \notin Rebuilt, Table(r) # "knowledge"
    PROVE  r.refs \cap (operation.dependents \cup Parted \cup Lost) = {}
<1>1. r \in Kept /\ r \in stored /\ r \notin Split /\ r \notin Gone
  BY DEF Left, Kept
<1>2. HasShape(r) /\ IsFiniteSet(stored) /\ (\A x \in stored : HasShape(x)) /\ Table(r) \in Tables
  BY <1>1 DEF ErasureInv, StoreInv, RowsFit, HasShape
<1>3. OnlyOf(operation.dependents, DependentKinds)
  BY DEF ErasureInv, OperationFits
<1>4. r.refs \cap Parted = {}
  <2>1. OnlyOf(r.refs, {"event", "session", "episode", "key", "job", "knowledge", "feedback", "context"})
    BY <1>2, KindsOfRefs DEF OnlyOf, Tables, Rebuilt
  <2> QED BY <2>1, PartedAndLost, KindsApart
<1>5. CASE r \in Examined
  <2>1. r.refs \cap operation.dependents = {}
    BY <1>1, <1>2, <1>5, GoneIs DEF Typed
  <2>2. \A g \in Gone : g.self \notin r.refs
    BY <1>1, <1>2, <1>5, GoneIs
  <2> QED BY <2>1, <2>2, <1>4 DEF Lost
<1>6. CASE Table(r) = "job"
  <2>1. OnlyOf(r.refs, {"event"})
    BY <1>2, <1>6, KindsOfRefs
  <2>2. r.refs \cap operation.dependents = {}
    BY <2>1, <1>3, KindsApart DEF DependentKinds
  <2>3. r.refs \cap Lost = {}
    BY <2>1, PartedAndLost, KindsApart
  <2> QED BY <2>2, <2>3, <1>4
<1>7. CASE Table(r) = "proposal"
  <2>1. r \in In("proposal") /\ r.self \notin operation.dependents
    BY <1>1, <1>7 DEF In, Kept
  <2>2. r.refs \cap operation.dependents = {}
    BY <2>1 DEF ErasureInv, StoreInv, PlanIsWhole
  <2>3. ASSUME NEW g \in Gone, g.self \in r.refs PROVE FALSE
    <3>1. g \in Examined /\ g \in stored
      BY <1>2, GoneIs
    <3>2. g.self = <<Table(g), Id(g)>> /\ Table(g) # "job"
      BY <3>1, <1>2 DEF HasShape, Examined
    <3>3. OnlyOf(r.refs, {"job", "knowledge"})
      BY <1>2, <1>7, KindsOfRefs
    <3>4. Table(g) = "knowledge" /\ g.self = Piece(Id(g))
      BY <2>3, <3>2, <3>3 DEF OnlyOf, Piece
    <3>5. Id(g) \in Learnable
      BY <1>2, <1>7, <2>3, <3>4, ProposalsHaveJobs
    <3> QED BY <3>4, <3>5, LearningStays
  <2> QED BY <2>2, <2>3, <1>4 DEF Lost
<1> QED BY <1>1, <1>5, <1>6, <1>7 DEF Examined, Rebuilt

LEMMA EraseKeeps ==
    ASSUME ErasureInv, Erase PROVE ErasureInv'
<1>1. /\ call = "erase" /\ call' = "settle" /\ raw' = raw \ Selected
      /\ suppressed' = suppressed \cup AffectedLessons /\ UNCHANGED tombs
      /\ stored' = {After(r, Shaken(Gone)) : r \in Left}
      /\ operation' = [operation EXCEPT !.dependents = @ \cup Parted \cup Lost]
  BY DEF Erase, Left, Parted, Lost
<1>2. DeletionIsActive
  BY <1>1 DEF ErasureInv, OperationFits
<1>3. /\ operation' = [target |-> operation'.target, sources |-> operation'.sources,
                       sessions |-> operation'.sessions, seeds |-> operation'.seeds,
                       dependents |-> operation'.dependents]
      /\ operation'.target = operation.target /\ operation'.sources = operation.sources
      /\ operation'.sessions = operation.sessions /\ operation'.seeds = operation.seeds
      /\ operation'.dependents = operation.dependents \cup Parted \cup Lost
  <2>1. operation = [target |-> operation.target, sources |-> operation.sources, sessions |-> operation.sessions,
                     seeds |-> operation.seeds, dependents |-> operation.dependents]
    BY DEF ErasureInv, OperationFits
  <2> QED BY <1>1, <2>1
<1>4. /\ TargetId' = TargetId /\ DeletionIsActive' /\ (\A type : Is(type)' = Is(type)) /\ ErasedRefs' = ErasedRefs
  BY <1>2, <1>3 DEF TargetId, DeletionIsActive, Is, ErasedRefs
<1>5. /\ raw \subseteq Events /\ RowsFit(stored, raw) /\ (\A r \in stored : HasShape(r))
      /\ OnlyOf(operation.dependents, DependentKinds) /\ operation.target \in {NoTarget} \cup TargetIds
  BY DEF ErasureInv, OperationFits, StoreInv, RowsFit
<1>6. Left \subseteq stored
  BY DEF Left, Kept
<1>7. /\ OnlyOf(Parted, {"work_episode", "link"})
      /\ OnlyOf(Lost, {"key", "opportunity", "feedback", "use", "knowledge"})
      /\ \A x \in Parted : ~ x[2] \subseteq Present(raw')
  BY <1>1, PartedAndLost
<1>8. OnlyOf(operation'.dependents, DependentKinds)
  <2>1. OnlyOf(Parted, DependentKinds) /\ OnlyOf(Lost, DependentKinds)
    BY <1>7, KindsGrow DEF DependentKinds
  <2> QED BY <1>3, <1>5, <2>1, KindsJoin
<1>9. OperationFits'
  BY <1>1, <1>3, <1>4, <1>5, <1>8 DEF ErasureInv, OperationFits
<1>10. \A e \in raw' : /\ e \notin operation.sources /\ SessionOf[e] \notin operation.sessions
                       /\ RefersTo[e] \cap operation.sources = {}
  BY <1>1, ErasedAsPlanned
<1> DEFINE f == [r \in Left |-> After(r, Shaken(Gone))]
<1>11. ASSUME NEW r \in Left
       PROVE  /\ HasShape(f[r]) /\ f[r].self = r.self /\ Table(f[r]) = Table(r) /\ Id(f[r]) = Id(r)
              /\ f[r].refs \subseteq r.refs /\ (Table(r) # "knowledge" => f[r] = r)
              /\ Table(r) = "knowledge" => f[r].refs = r.refs \/ Id(r) \notin Learnable
  <2>1. f[r] = After(r, Shaken(Gone)) /\ HasShape(r)
    BY <1>5, <1>6
  <2> HIDE DEF f
  <2> QED BY <2>1, AfterIs
<1>12. stored' = {f[r] : r \in Left} /\ DOMAIN f = Left
  BY <1>1
<1> HIDE DEF f
<1>13. RowsFit(stored', raw')
  <2>1. RowsFit(Left, raw \ Selected)
    BY <1>1, LeftRowsFit
  <2>2. \A r \in Left : /\ HasShape(f[r]) /\ f[r].self = r.self
                        /\ Table(r) = "knowledge" => f[r].refs = r.refs \/ Id(r) \notin Learnable
    BY <1>11
  <2>3. RowsFit({f[r] : r \in Left}, raw \ Selected)
    BY <1>12, <2>1, <2>2, ChangedRowsFit
  <2> QED BY <1>1, <1>12, <2>3
<1>14. \A x \in stored' : \E r \in Left : /\ HasShape(x) /\ x.self = r.self /\ Table(x) = Table(r) /\ Id(x) = Id(r)
                                          /\ x.refs \subseteq r.refs /\ (Table(r) # "knowledge" => x = r)
  BY <1>11, <1>12
<1>15. ASSUME NEW x \in stored', Table(x) \notin Rebuilt
       PROVE  /\ x.self \notin operation'.dependents /\ x.refs \cap ErasedRefs = {}
              /\ x.refs \cap operation'.dependents # {} => Table(x) = "knowledge" /\ Stranded(x)'
  <2>1. PICK r \in Left : /\ HasShape(x) /\ x.self = r.self /\ Table(x) = Table(r) /\ Id(x) = Id(r)
                          /\ x.refs \subseteq r.refs /\ (Table(r) # "knowledge" => x = r)
    BY <1>14
  <2>2. x.self \notin operation'.dependents
    BY <1>1, <1>3, <1>15, <2>1, LeftSelfStays
  <2>3. x.refs \cap ErasedRefs = {}
    BY <1>1, <1>15, <2>1, LeftNamesNothingErased
  <2>4. CASE Table(x) # "knowledge"
    BY <1>1, <1>3, <1>15, <2>1, <2>2, <2>3, <2>4, LeftNamesNothingLost
  <2>5. CASE Table(x) = "knowledge"
    <3>1. IsPiece(x)
      BY <2>1, <2>5 DEF HasShape, ShapeOfTable
    <3>2. CASE Id(x) \in Rules
      <4>1. x.refs = {Piece(k) : k \in x.replaces}
        BY <3>1, <3>2 DEF IsPiece
      <4>2. x.refs \cap operation'.dependents # {} => \E k \in x.replaces : Piece(k) \in operation'.dependents
        BY <4>1
      <4> QED BY <2>2, <2>3, <2>5, <3>2, <4>2 DEF Stranded
    <3>3. CASE Id(x) \notin Rules
      <4>1. OnlyOf(x.refs, {"event", "episode"})
        BY <3>1, <3>3 DEF IsPiece
      <4>2. x.refs \cap operation'.dependents = {}
        BY <1>8, <4>1, KindsApart DEF DependentKinds
      <4> QED BY <2>2, <2>3, <4>2
    <3> QED BY <3>2, <3>3
  <2> QED BY <2>4, <2>5
<1>16. TombsAreFree'
  <2>1. \A x \in stored' : x.refs \cap tombs = {}
    BY <1>6, <1>14 DEF ErasureInv, StoreInv, TombsAreFree
  <2>2. raw' \subseteq raw
    BY <1>1
  <2> QED BY <1>1, <2>1, <2>2 DEF ErasureInv, StoreInv, TombsAreFree, Blocked
<1>17. PlanIsWhole'
  <2>1. ASSUME NEW q \in stored', Table(q) = "proposal" PROVE ({q.self} \cup q.refs) \cap operation'.dependents = {}
    BY <1>15, <2>1 DEF Rebuilt
  <2> QED BY <2>1 DEF PlanIsWhole, In
<1>18. DependentsStayAway'
  <2>1. \A r \in stored' : Table(r) \in {"feedback", "use", "key", "opportunity"} => r.self \notin operation'.dependents
    BY <1>15 DEF Rebuilt
  <2>2. ASSUME NEW x \in operation'.dependents, x[1] \in {"work_episode", "link"} PROVE ~ x[2] \subseteq Present(raw')
    <3>1. CASE x \in operation.dependents
      <4>1. ~ x[2] \subseteq Present(raw)
        BY <2>2, <3>1 DEF ErasureInv, StoreInv, DependentsStayAway
      <4>2. Present(raw') \subseteq Present(raw)
        BY <1>1 DEF Present
      <4> QED BY <4>1, <4>2
    <3>2. CASE x \in Parted
      BY <1>7, <3>2
    <3>3. x \notin Lost
      BY <1>7, <2>2 DEF OnlyOf
    <3> QED BY <1>3, <3>1, <3>2, <3>3
  <2>3. Present(raw)' = Present(raw')
    BY DEF Present
  <2> QED BY <2>1, <2>2, <2>3 DEF DependentsStayAway
<1>19. SuppressedIsGone'
  <2>1. ASSUME NEW k \in suppressed', NEW x \in stored'
        PROVE  /\ x.self # Piece(k)
               /\ Piece(k) \in x.refs => Table(x) = "knowledge" /\ Piece(k) \in operation'.dependents
    <3>1. PICK r \in Left : /\ HasShape(x) /\ x.self = r.self /\ Table(x) = Table(r) /\ x.refs \subseteq r.refs
      BY <1>14
    <3>2. CASE k \in suppressed
      BY <1>3, <1>6, <3>1, <3>2 DEF ErasureInv, StoreInv, SuppressedIsGone
    <3>3. CASE k \in AffectedLessons
      <4>1. Piece(k) \in operation.dependents
        BY <1>1, <3>3, LearningAsPlanned
      <4>2. x.self # Piece(k)
        <5>1. r.self = Piece(k) => Table(r) = "knowledge"
          BY DEF Table, Piece
        <5> QED BY <3>1, <4>1, <5>1 DEF Left, Kept
      <4>3. Piece(k) \in x.refs => Table(x) = "knowledge"
        <5>1. CASE Table(x) \in Rebuilt
          <6>1. OnlyOf(x.refs, {"event", "session"}) \/ OnlyOf(x.refs, {"event", "episode"})
            BY <3>1, <5>1, KindsOfRefs DEF Rebuilt
          <6> QED BY <6>1 DEF OnlyOf, Piece
        <5>2. CASE Table(x) \notin Rebuilt
          BY <1>3, <1>15, <4>1, <5>2
        <5> QED BY <5>1, <5>2
      <4> QED BY <1>3, <4>1, <4>2, <4>3
    <3> QED BY <1>1, <3>2, <3>3
  <2> QED BY <1>4, <2>1 DEF SuppressedIsGone
<1>20. Is("episode") => TargetId \notin GroupsOf(raw')
  <2>1. SUFFICES ASSUME Is("episode"), TargetId \in GroupsOf(raw') PROVE FALSE
    OBVIOUS
  <2>2. TargetId # {} /\ TargetId \subseteq Present(raw')
    BY <1>1, <1>5, <2>1, GroupsAre
  <2>3. operation.sessions \cap Present(raw') = {}
    BY <1>10 DEF Present
  <2>4. CASE operation.sessions = TargetId
    BY <2>2, <2>3, <2>4
  <2>5. CASE operation.sessions = {} /\ operation.sources = {}
    <3>1. raw' = raw
      BY <1>1, <2>5, ErasedAsPlanned
    <3>2. PICK r \in EpisodeRows(raw) : Id(r) = TargetId
      BY <1>5, <2>1, <3>1, EpisodeRowsAre
    <3>3. r \in TargetEpisode
      BY <1>1, <2>1, <3>2 DEF ErasureInv, Planned, TargetEpisode
    <3>4. TargetId \subseteq operation.sessions
      BY <1>1, <3>2, <3>3 DEF ErasureInv, Planned, TargetSessions
    <3> QED BY <2>2, <2>5, <3>4
  <2> QED BY <2>1, <2>4, <2>5, <1>2 DEF ErasureInv, OperationFits
<1>21. ErasedIsClean'
  <2>1. GroupsOf(raw)' = GroupsOf(raw')
    BY DEF GroupsOf, Present
  <2>2. \A x \in stored' : Table(x) \notin Rebuilt => RowIsClean(x)'
    BY <1>4, <1>15 DEF RowIsClean
  <2> QED BY <1>1, <1>3, <1>4, <1>10, <1>20, <2>1, <2>2 DEF ErasedIsClean
<1>22. Planned'
  BY <1>1 DEF Planned
<1>23. raw' \subseteq Events
  BY <1>1, <1>5
<1>24. RowsFit(stored, raw)' = RowsFit(stored', raw')
  BY DEF RowsFit, SelvesDiffer, JobsHaveEvents, LessonsHaveJobs
<1> QED BY <1>9, <1>13, <1>16, <1>17, <1>18, <1>19, <1>21, <1>22, <1>23, <1>24 DEF ErasureInv, StoreInv

-------------------------------------------------------------------------------
(* The theorems of ErasureClosure *)

LEMMA InitiallyErasable == ErasureInit => ErasureInv
<1> SUFFICES ASSUME ErasureInit PROVE ErasureInv
  OBVIOUS
<1>1. /\ raw = {} /\ stored = {} /\ tombs = {} /\ suppressed = {}
      /\ operation = NoOperation /\ call = "idle"
  BY DEF ErasureInit
<1>2. OperationFits
  BY <1>1 DEF OperationFits, NoOperation, DeletionIsActive, OnlyOf
<1>3. RowsFit(stored, raw)
  BY <1>1, FS_EmptySet DEF RowsFit, SelvesDiffer, JobsHaveEvents, LessonsHaveJobs
<1>4. TombsAreFree
  BY <1>1 DEF TombsAreFree, OnlyOf
<1>5. PlanIsWhole /\ DependentsStayAway
  BY <1>1 DEF PlanIsWhole, DependentsStayAway, In, NoOperation
<1>6. SuppressedIsGone /\ Planned /\ ErasedIsClean
  BY <1>1 DEF SuppressedIsGone, Planned, ErasedIsClean
<1> QED BY <1>1, <1>2, <1>3, <1>4, <1>5, <1>6 DEF ErasureInv, StoreInv

LEMMA ErasureStepKeeps == ErasureInv /\ [ErasureNext]_erasureVars => ErasureInv'
<1> SUFFICES ASSUME ErasureInv, [ErasureNext]_erasureVars PROVE ErasureInv'
  OBVIOUS
<1>1. ASSUME NEW e \in Events, Ingest(e) PROVE ErasureInv'
  BY <1>1, IngestKeeps
<1>2. CASE Project
  BY <1>2, ProjectKeeps
<1>3. ASSUME NEW j \in Jobs, Learn(j) PROVE ErasureInv'
  BY <1>3, LearnKeeps
<1>4. ASSUME NEW k \in Learnable \cup {"fact"}, NEW r \in Rules, Replace(k, r) PROVE ErasureInv'
  BY <1>4, ReplaceKeeps
<1>5. ASSUME NEW k \in KnowledgeIds, Speak(k) PROVE ErasureInv'
  BY <1>5, SpeakKeeps
<1>6. ASSUME NEW k \in KnowledgeIds, NEW s \in EventSessions, MuteSession(k, s) PROVE ErasureInv'
  BY <1>6, MuteSessionKeeps
<1>7. ASSUME NEW s \in EventSessions, Use(s) PROVE ErasureInv'
  BY <1>7, UseKeeps
<1>8. ASSUME NEW t \in Targets, Begin(t) PROVE ErasureInv'
  BY <1>8, BeginKeeps
<1>9. CASE Resume
  <2>1. DeletionIsActive /\ call' = "rebuild" /\ UNCHANGED <<raw, stored, tombs, suppressed, operation>>
    BY <1>9 DEF Resume, Step
  <2> QED BY <2>1, CallKeeps
<1>10. CASE Rebuild
  BY <1>10, RebuildKeeps
<1>11. CASE Select
  BY <1>11, SelectKeeps
<1>12. CASE Erase
  BY <1>12, EraseKeeps
<1>13. CASE Settle
  BY <1>13, SettleKeeps
<1>14. CASE Fail \/ Interrupt
  <2>1. call # "idle" /\ call' = "idle" /\ UNCHANGED <<raw, stored, tombs, suppressed, operation>>
    BY <1>14 DEF Fail, Interrupt
  <2>2. DeletionIsActive
    BY <2>1 DEF ErasureInv, OperationFits
  <2> QED BY <2>1, <2>2, CallKeeps
<1>15. CASE Gate
  BY <1>15, GateKeeps
<1>16. CASE UNCHANGED erasureVars
  <2>1. UNCHANGED <<raw, stored, tombs, suppressed, operation, call>>
    BY <1>16 DEF erasureVars
  <2>2. StoreInv'
    BY <2>1, StoreStays DEF ErasureInv
  <2>3. OperationFits'
    BY <2>1 DEF ErasureInv, OperationFits, DeletionIsActive, Is, TargetId
  <2>4. Planned'
    <3>1. /\ TargetId' = TargetId /\ (\A type : Is(type)' = Is(type))
          /\ (\A table : In(table)' = In(table)) /\ EpisodeRows(raw)' = EpisodeRows(raw)
      BY <2>1 DEF Is, TargetId, In
    <3>2. TargetEpisode' = TargetEpisode
      BY <3>1 DEF TargetEpisode
    <3>3. Named' = Named /\ TargetSessions' = TargetSessions
      BY <2>1, <3>1, <3>2 DEF Named, TargetSessions
    <3> QED BY <2>1, <3>1, <3>3 DEF ErasureInv, Planned
  <2>5. \A r : RowIsClean(r) => RowIsClean(r)'
    BY <2>1 DEF RowIsClean, ErasedRefs, Stranded, Is, TargetId
  <2>6. ProjectionOf(raw)' = ProjectionOf(raw) /\ GroupsOf(raw)' = GroupsOf(raw)
    BY <2>1
  <2>7. ErasedIsClean'
    BY <2>1, <2>5, <2>6 DEF ErasureInv, ErasedIsClean, Is, TargetId
  <2> QED BY <2>2, <2>3, <2>4, <2>7 DEF ErasureInv
<1> QED BY <1>1, <1>2, <1>3, <1>4, <1>5, <1>6, <1>7, <1>8, <1>9, <1>10, <1>11, <1>12, <1>13, <1>14, <1>15, <1>16
        DEF ErasureNext

\* When the gate looks, it finds at most a rule that is stranded.
LEMMA GateFindsNothing ==
    ASSUME ErasureInv, call = "gate"
    PROVE  /\ RemainingIdentities \cap Identities = {}
           /\ \A r \in stored : Remains(r) => Table(r) = "knowledge" /\ Stranded(r)
<1>1. (\A r \in stored : HasShape(r)) /\ JobsHaveEvents(stored, raw)
  BY DEF ErasureInv, StoreInv, RowsFit
<1>2. \A e \in raw : /\ e \notin operation.sources /\ SessionOf[e] \notin operation.sessions
                     /\ RefersTo[e] \cap operation.sources = {}
  BY DEF ErasureInv, ErasedIsClean
<1>3. ASSUME NEW r \in stored
      PROVE  /\ r.refs \cap ErasedRefs = {} /\ r.self \notin operation.dependents
             /\ r.refs \cap operation.dependents # {} => Table(r) = "knowledge" /\ Stranded(r)
  <2>1. CASE Table(r) \in Rebuilt
    <3>1. r \in ProjectionOf(raw)
      BY <2>1 DEF ErasureInv, ErasedIsClean
    <3> QED BY <3>1, ProjectionIsClean
  <2>2. CASE Table(r) \notin Rebuilt
    BY <2>2 DEF ErasureInv, ErasedIsClean, RowIsClean
  <2> QED BY <2>1, <2>2
<1>4. Identities \subseteq ErasedRefs
  BY DEF Identities, ErasedRefs
<1>5. ASSUME NEW e \in raw
      PROVE  (EventRefs({e} \cup RefersTo[e]) \cup SessionRefs({SessionOf[e]})) \cap ErasedRefs = {}
  BY <1>2 DEF EventRefs, SessionRefs, ErasedRefs
<1>6. ASSUME NEW j \in In("job"), NEW x \in Events, <<"event", x>> \in j.refs PROVE x \in raw
  <2>1. j \in stored /\ Table(j) = "job" /\ HasShape(j)
    BY <1>1 DEF In
  <2>2. j.refs = EventRefs({LearnsFrom[Id(j)]}) /\ LearnsFrom[Id(j)] \in raw
    BY <1>1, <2>1 DEF HasShape, ShapeOfTable, IsJob, JobsHaveEvents
  <2> QED BY <1>6, <2>2 DEF EventRefs
<1>7. ASSUME NEW r \in In("work_episode") PROVE <<"episode", Id(r)>> \notin ErasedRefs
  <2>1. r \in stored /\ Table(r) = "work_episode"
    BY DEF In
  <2>2. r \in ProjectionOf(raw)
    BY <2>1 DEF ErasureInv, ErasedIsClean, Rebuilt
  <2>3. Id(r) \in GroupsOf(raw)
    <3>1. raw \subseteq Events
      BY DEF ErasureInv, StoreInv
    <3>2. r \in EpisodeRows(raw)
      BY <2>1, <2>2, <3>1, LinkRowsAre, ContextRowsAre DEF ProjectionOf
    <3> QED BY <3>1, <3>2, EpisodeRowsAre
  <2>4. Is("episode") => TargetId \notin GroupsOf(raw)
    BY DEF ErasureInv, ErasedIsClean
  <2> QED BY <2>3, <2>4 DEF ErasedRefs, EventRefs, SessionRefs
<1>8. RemainingIdentities \cap Identities = {}
  <2>1. SUFFICES ASSUME NEW x \in RemainingIdentities PROVE x \notin ErasedRefs
    BY <1>4
  <2>2. ASSUME NEW e \in raw \cup UNION {{y \in Events : <<"event", y>> \in j.refs} : j \in In("job")},
               x \in EventRefs({e} \cup RefersTo[e]) \cup SessionRefs({SessionOf[e]})
        PROVE  x \notin ErasedRefs
    BY <1>5, <1>6, <2>2
  <2>3. ASSUME NEW r \in In("link") \cup In("mute"), x \in r.refs PROVE x \notin ErasedRefs
    BY <1>3, <2>3 DEF In
  <2>4. ASSUME NEW r \in In("work_episode"), x \in r.refs \cup {<<"episode", Id(r)>>} PROVE x \notin ErasedRefs
    BY <1>3, <1>7, <2>4 DEF In
  <2> DEFINE there == raw \cup UNION {{y \in Events : <<"event", y>> \in j.refs} : j \in In("job")}
  <2>5. \/ \E e \in there : x \in EventRefs({e} \cup RefersTo[e]) \cup SessionRefs({SessionOf[e]})
        \/ \E r \in In("link") \cup In("mute") : x \in r.refs
        \/ \E r \in In("work_episode") : x \in r.refs \cup {<<"episode", Id(r)>>}
    BY <2>1 DEF RemainingIdentities
  <2> QED BY <2>2, <2>3, <2>4, <2>5
<1>9. ASSUME NEW r \in stored, Remains(r) PROVE Table(r) = "knowledge" /\ Stranded(r)
  <2>1. Records(r) \subseteq {r.self} \cup r.refs
    BY DEF Records
  <2> QED BY <1>3, <1>9, <2>1 DEF Remains
<1> QED BY <1>8, <1>9

LEMMA IsGone == ErasureInv => ErasedIsGone
<1> SUFFICES ASSUME ErasureInv PROVE ErasedIsGone
  OBVIOUS
<1>1. ASSUME ~ DeletionIsActive
      PROVE  /\ \A e \in raw : ~ Blocked(e)
             /\ \A r \in stored :
                   /\ r.refs \cap (tombs \cup {Piece(k) : k \in suppressed}) = {}
                   /\ r.self \notin {Piece(k) : k \in suppressed}
  <2>1. \A r \in stored : IsFree(r)
    BY <1>1, RowsAreFree
  <2> QED BY <2>1 DEF ErasureInv, StoreInv, TombsAreFree, IsFree
<1> QED BY <1>1, GateFindsNothing DEF ErasedIsGone

\* The plan holds together, the rows have the shape of their tables, and what is
\* erased stays erased while the rest of deleteCanonicalTarget and of the service's
\* delete runs, is interrupted and is taken up again.
THEOREM ErasureInvariantHolds == ErasureSpec => []ErasureInv
<1>1. ErasureInit => ErasureInv
  BY InitiallyErasable
<1>2. ErasureInv /\ [ErasureNext]_erasureVars => ErasureInv'
  BY ErasureStepKeeps
<1> QED BY <1>1, <1>2, PTL DEF ErasureSpec

\* When no deletion is under way, nothing in any table names what was erased or
\* forgotten; and the gate only ever refuses a deletion for a rule of the user's that
\* stands for a lesson which went along with another.
THEOREM ErasedStaysGone == ErasureSpec => []ErasedIsGone
<1>1. ErasureInv => ErasedIsGone
  BY IsGone
<1> QED BY <1>1, ErasureInvariantHolds, PTL
===============================================================================
