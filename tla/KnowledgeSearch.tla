---------------------------- MODULE KnowledgeSearch ----------------------------
(***************************************************************************)
(* A search of the knowledge index.  The retriever reads the index page by *)
(* page, several routes at a time, through a read worker that may time     *)
(* out, break and be replaced; meanwhile other processes change the rows   *)
(* of the store and publish the index.  What a page names is checked       *)
(* against the store when it comes, and once more before it is answered.   *)
(* KnowledgeProjection says when somebody publishes; here a row has a       *)
(* content, and the index an order.                                        *)
(***************************************************************************)
EXTENDS Naturals, Sequences, FiniteSets

CONSTANTS
    Rules,           \* knowledge ids
    Requests,        \* each a sequence of routes, as the rules the route finds
    Guidance,        \* of each rule, what it says: rules that say the same take one place
    Orders,          \* orders the index may find rules in: of each rule its place
    Absent,          \* no row, no reply, nobody
    SearchLimit, PageSize, MaxCandidates, MaxPendingReads,
    MaxSearches, MaxEdits, MaxMishaps \* bounds

\* Rows of the same rank are found in the order of their ids, so no two rules have the
\* same place.
ASSUME SearchAssumption ==
    /\ IsFiniteSet(Rules)
    /\ Requests \subseteq Seq(SUBSET Rules)
    /\ Orders \subseteq [Rules -> Nat]
    /\ \A o \in Orders : \A j, k \in Rules : o[j] = o[k] => j = k
    /\ {SearchLimit, PageSize, MaxCandidates, MaxPendingReads} \subseteq Nat \ {0}

VARIABLES
    row,        \* of each rule, its row in the store if it is not archived: its revision,
                \* and whether what it rests on admits it
    entry,      \* of each rule, the revision the index finds it with
    ranking,    \* the order the index finds rules in: of each rule its place
    publishing, \* the publisher that holds the projection lease: what it has read
    readWorker, \* the read worker of the process that searches
    reads,      \* #pendingReadRequests, with the reply the worker has sent
    search,     \* the search under way, or the last one
    calm,       \* history: neither store nor index has changed since it began
    searches, edits, mishaps

searchVars == <<row, entry, ranking, publishing, readWorker, reads, search, calm,
                searches, edits, mishaps>>
shelf == <<row, entry, ranking>>
budget == <<searches, edits, mishaps>>

Active == search.at \in {"asking", "reading"}
NewSearch(q) == [at |-> "asking", routes |-> q, offset |-> [i \in DOMAIN q |-> 0],
                 done |-> {}, due |-> {}, examined |-> 0, hits |-> {}, found |-> {}]
NoSearch == NewSearch(<<>>)
Routes == DOMAIN search.routes
Degraded == [NoSearch EXCEPT !.at = "degraded"]

\* A search that waits for a read is rejected with it.
Rejected == IF search.at = "reading" /\ search.due # {} THEN Degraded ELSE search

Mishap == mishaps < MaxMishaps /\ mishaps' = mishaps + 1 /\ UNCHANGED <<searches, edits>>
-------------------------------------------------------------------------------
(* What there is to find *)

\* The user, the worker, the learner or a deletion changes a row, or what admits it.
Edit(k) ==
    /\ edits < MaxEdits /\ edits' = edits + 1
    /\ \E new \in {[rev |-> edits + 1, admitted |-> TRUE], Absent}
                  \cup (IF row[k] = Absent THEN {} ELSE {[row[k] EXCEPT !.admitted = ~ @]}) :
          row' = [row EXCEPT ![k] = new]
    /\ calm' = (calm /\ ~ Active)
    /\ UNCHANGED <<entry, ranking, publishing, readWorker, reads, search, searches, mishaps>>

\* synchronize and rebuild publish every row, index those of one rule.  One of them
\* may be by the process that searches, for the feedback it was given.
PublishBegins(S, here) ==
    /\ publishing = Absent
    /\ here => readWorker # "closed"
    /\ publishing' = [here |-> here,
                      rows |-> [k \in S |-> IF row[k] = Absent THEN Absent ELSE row[k].rev]]
    /\ UNCHANGED <<shelf, readWorker, reads, search, calm, budget>>

\* A write stops the readWorker first, and gives up while it has reads.
StopReadWorker ==
    /\ publishing # Absent /\ publishing.here
    /\ readWorker \in {"up", "broken"}
    /\ IF reads # <<>> THEN publishing' = Absent /\ UNCHANGED readWorker
       ELSE readWorker' = "stopped" /\ UNCHANGED publishing
    /\ UNCHANGED <<shelf, reads, search, calm, budget>>

\* The transaction over, the readWorker is started again.
Published ==
    /\ publishing # Absent
    /\ publishing.here => readWorker \in {"stopped", "gone"}
    /\ publishing' = Absent
    /\ readWorker' = IF publishing.here THEN "up" ELSE readWorker
    /\ UNCHANGED <<row, reads, search>>

PublishEnds ==
    /\ Published
    /\ entry' = [k \in Rules |-> IF k \in DOMAIN publishing.rows THEN publishing.rows[k] ELSE entry[k]]
    /\ ranking' \in Orders
    /\ calm' = (calm /\ (Active => entry' = entry /\ ranking' = ranking))
    /\ UNCHANGED budget

PublishFails ==
    /\ Published /\ Mishap
    /\ UNCHANGED <<entry, ranking, calm>>
-------------------------------------------------------------------------------
(* The readWorker: a thread that answers in order *)

\* The rules a route finds, how many come before each, and a page of them.
Finds(route) == {k \in route : entry[k] # Absent}
Before(k, route) == Cardinality({j \in Finds(route) : ranking[j] < ranking[k]})
Page(r) ==
    {[rule |-> k, rev |-> entry[k], route |-> r.route] :
        k \in {j \in Finds(r.finds) : Before(j, r.finds) \in r.from .. r.from + r.size - 1}}

ServeRead ==
    /\ readWorker = "up"
    /\ \E n \in DOMAIN reads :
          /\ reads[n].reply = Absent /\ \A m \in 1 .. n - 1 : reads[m].reply # Absent
          /\ \/ reads' = [reads EXCEPT ![n].reply = [ok |-> TRUE, hits |-> Page(reads[n])]]
                /\ UNCHANGED budget
             \/ reads' = [reads EXCEPT ![n].reply = [ok |-> FALSE, hits |-> {}]] /\ Mishap
    /\ UNCHANGED <<shelf, publishing, readWorker, search, calm>>

\* A read that takes too long takes every other with it: the worker is replaced, and
\* there is none until it has ended.
CancelReadWorker ==
    /\ readWorker = "up" /\ reads # <<>>
    /\ readWorker' = "leaving" /\ reads' = <<>> /\ search' = Rejected
    /\ UNCHANGED <<shelf, publishing, calm, budget>>

StartReadWorker ==
    /\ readWorker = "leaving"
    /\ \/ readWorker' = "up" /\ UNCHANGED budget
       \/ readWorker' = "gone" /\ Mishap
    /\ UNCHANGED <<shelf, publishing, reads, search, calm>>

\* A worker that failed is not replaced; only a write starts another.
FailPendingReads ==
    /\ readWorker = "up" /\ Mishap
    /\ readWorker' = "broken" /\ reads' = <<>> /\ search' = Rejected
    /\ UNCHANGED <<shelf, publishing, calm>>

\* A command has a backend of its own, closed at its end.
Close ==
    /\ ~ Active /\ readWorker # "closed"
    /\ publishing # Absent => ~ publishing.here
    /\ readWorker' = "closed" /\ reads' = <<>>
    /\ UNCHANGED <<shelf, publishing, search, calm, budget>>

Reopen ==
    /\ readWorker = "closed" /\ readWorker' = "up"
    /\ UNCHANGED <<shelf, publishing, reads, search, calm, budget>>
-------------------------------------------------------------------------------
(* The retriever *)

Begin ==
    /\ ~ Active /\ readWorker # "closed"
    /\ searches < MaxSearches /\ searches' = searches + 1
    /\ \E q \in Requests : search' = NewSearch(q)
    /\ calm' = TRUE
    /\ UNCHANGED <<shelf, publishing, readWorker, reads, edits, mishaps>>

\* A page of an open route, within what the routes before it leave of the budget.
SizeOf(i) ==
    LET reserved == search.examined
                    + PageSize * Cardinality({j \in Routes \ search.done : j < i})
        left == IF reserved >= MaxCandidates THEN 0 ELSE MaxCandidates - reserved
    IN  IF i \in search.done THEN 0 ELSE IF left < PageSize THEN left ELSE PageSize

PageOf(i) ==
    [of |-> searches, route |-> i, finds |-> search.routes[i], from |-> search.offset[i],
     size |-> SizeOf(i), reply |-> Absent]

\* The pages of the routes that get one, route by route.
NextPages ==
    LET wanted == {i \in Routes : SizeOf(i) > 0}
    IN  {[n \in DOMAIN s |-> PageOf(s[n])] :
            s \in {t \in [1 .. Cardinality(wanted) -> wanted] :
                      \A m, n \in DOMAIN t : m < n => t[m] < t[n]}}

\* What the backend takes of them: a read beyond its bound, or without a worker, is
\* refused, and with it the search; the reads before it are still under way.
Room == IF readWorker = "up" THEN MaxPendingReads - Len(reads) ELSE 0

AskPages ==
    /\ search.at = "asking"
    /\ \E pages \in NextPages :
          IF Len(pages) <= Room
          THEN /\ reads' = reads \o pages
               /\ search' = [search EXCEPT !.at = "reading", !.hits = {},
                                           !.due = {pages[n].route : n \in DOMAIN pages}]
          ELSE /\ reads' = reads \o SubSeq(pages, 1, Room)
               /\ search' = Degraded
    /\ UNCHANGED <<shelf, publishing, readWorker, calm, budget>>

\* A reply, to this search or to one that has given up.
Deliver ==
    /\ reads # <<>> /\ Head(reads).reply # Absent
    /\ reads' = Tail(reads)
    /\ LET r == Head(reads)
           n == Cardinality(r.reply.hits)
       IN  search' = IF search.at # "reading" \/ r.of # searches THEN search
                     ELSE IF ~ r.reply.ok THEN Degraded
                     ELSE [search EXCEPT
                             !.due = @ \ {r.route}, !.hits = @ \cup r.reply.hits,
                             !.offset[r.route] = @ + n, !.examined = @ + n,
                             !.done = IF n < r.size THEN @ \cup {r.route} ELSE @]
    /\ UNCHANGED <<shelf, publishing, readWorker, calm, budget>>

DeadlinePasses ==
    /\ Active
    /\ search' = Degraded
    /\ UNCHANGED <<shelf, publishing, readWorker, reads, calm, budget>>

\* A rule that two routes find counts as the later one saw it.
Unique(hits) == {h \in hits : \A g \in hits : g.rule = h.rule => g.route <= h.route}

\* What the store has of it is what the index said, and it is admitted.
Admissible(h) == row[h.rule] = [rev |-> h.rev, admitted |-> TRUE]

SameGuidance(f, g) == Guidance[f.rule] = Guidance[g.rule]

\* What the search takes of a page, in an order of its own, until it has enough.
Takes(S) ==
    LET fresh == {[rule |-> h.rule, rev |-> h.rev] :
                    h \in {g \in Unique(search.hits) : Admissible(g)}}
        new == {h \in fresh : \A f \in search.found : ~ SameGuidance(f, h)}
    IN  /\ S \subseteq new
        /\ \A f, g \in S : SameGuidance(f, g) => f = g
        /\ LET n == Cardinality(search.found \cup S)
           IN  /\ n <= SearchLimit
               /\ n = SearchLimit \/ \A h \in new : \E f \in S : SameGuidance(f, h)

\* Mutant: nothing is looked at again.
RevalidateNothing(found) == found

\* #revalidate: once more, at the end.
Revalidate(found) == {f \in found : Admissible(f)}

Answer(status, found) ==
    [search EXCEPT !.at = status, !.found = Revalidate(found), !.hits = {}]

Examine(S) ==
    /\ search.at = "reading" /\ search.due = {}
    /\ Takes(S)
    /\ LET found == search.found \cup S
           complete == search.hits = {} \/ Cardinality(found) = SearchLimit \/ search.done = Routes
       IN  search' = IF complete THEN Answer("answered", found)
                     ELSE IF search.examined < MaxCandidates
                          THEN [search EXCEPT !.at = "asking", !.found = found, !.hits = {}]
                     ELSE IF found # {} THEN Answer("partial", found)
                     ELSE Degraded
    /\ UNCHANGED <<shelf, publishing, readWorker, reads, calm, budget>>
-------------------------------------------------------------------------------
SearchInit ==
    /\ row = [k \in Rules |-> [rev |-> 0, admitted |-> TRUE]]
    /\ entry = [k \in Rules |-> 0] /\ ranking \in Orders
    /\ publishing = Absent /\ readWorker = "up" /\ reads = <<>>
    /\ search = [NoSearch EXCEPT !.at = "idle"] /\ calm = TRUE
    /\ searches = 0 /\ edits = 0 /\ mishaps = 0

SearchNext ==
    \/ \E k \in Rules : Edit(k)
    \/ \E k \in Rules, here \in BOOLEAN : PublishBegins({k}, here)
    \/ PublishBegins(Rules, FALSE)
    \/ StopReadWorker \/ PublishEnds \/ PublishFails
    \/ ServeRead \/ CancelReadWorker \/ StartReadWorker \/ FailPendingReads \/ Close \/ Reopen
    \/ Begin \/ AskPages \/ Deliver \/ DeadlinePasses
    \/ \E S \in SUBSET {[rule |-> h.rule, rev |-> h.rev] : h \in search.hits} : Examine(S)

SearchSpec == SearchInit /\ [][SearchNext]_searchVars
-------------------------------------------------------------------------------
\* What is answered: only rows as they are now, once each; and a search that is not
\* said to be partial has everything that the index and the store agree on, unless
\* it has enough, or either has changed since it began.  The exception is a search
\* whose last pages were empty when the budget left none for another route: it ends
\* as if there were nothing left.
AnswerIsSound ==
    LET answer == search'.found IN
    /\ \A f \in answer : Admissible(f)
    /\ Cardinality(answer) <= SearchLimit
    /\ \A f, g \in answer : SameGuidance(f, g) => f = g
    /\ search'.at = "answered" /\ search'.done = Routes /\ calm
       /\ Cardinality(answer) < SearchLimit =>
          \A k \in UNION {search.routes[i] : i \in Routes} :
             entry[k] # Absent /\ Admissible([rule |-> k, rev |-> entry[k]])
                => \E f \in answer : Guidance[f.rule] = Guidance[k]

\* Paging over an index that others publish, through a readWorker that fails, never makes
\* an answer of what was withdrawn meanwhile, and a page that was not read, or not
\* asked for, is not taken for the end of what there is.
AnswersAreSound ==
    [][search.at = "reading" /\ search'.at \in {"answered", "partial"} => AnswerIsSound]_searchVars
===============================================================================
