------------------------------- MODULE MCLessons -------------------------------
(***************************************************************************)
(* The instances of Knowledge, where knowledge is what the sessions'       *)
(* events prove, of LearnedLessons, where it is what a model made of them, *)
(* and of ErasureClosure, where both are erased.  A behaviour is of one of *)
(* them.                                                                   *)
(***************************************************************************)
EXTENDS MCKnowledge, LearnedLessons, ErasureClosure

VARIABLE side  \* "proof", "prose" or "erasure"

\* Two wordings of one rule, one of another, and an id for what replaces a lesson
\* of a known rule; three tasks, the first of a prompt.
InstanceHome == "x" :> "l1" @@ "x2" :> "l1" @@ "y" :> "l2"
InstanceTask == "w1" :> "t1" @@ "w2" :> "t2" @@ "w3" :> "t3"

\* The windows come in order, the last after an answer, and the first alone is
\* enriched.  A behaviour either has notices, or a word of the user's or
\* descriptions; with notices there is no enrichment, and no recall.  Notices,
\* descriptions and faults come in behaviours of at most two answers.
Announcing == notices # {} \/ notifier # Nothing
Describing == \E l \in DOMAIN enrichment : enrichment[l] # Nothing
Followed ==
    /\ content["w2"] > 0 => content["w1"] > 0
    /\ content["w3"] > 0 => content["w2"] > 0 /\ answers > 0
    /\ answers > 0 => content["w2"] > 0
    /\ content["w2"] < 2 /\ content["w3"] < 2
    /\ Announcing => answers <= 2 /\ words = 0 /\ ~ Describing /\ content["w1"] = 1 /\ recalled["w3"] = {}
    /\ faults > 0 => answers <= 2
    /\ Describing => answers <= 2 /\ content["w3"] = 0

\* A correction and its check in one session, and an associated session that goes
\* on from them; two lessons of one window and one reviewed against the first.
InstanceSession == "e1" :> "s" @@ "e2" :> "s" @@ "e3" :> "t"
InstanceRefers == "e1" :> {} @@ "e2" :> {"e1"} @@ "e3" :> {"e2"}
InstanceLinked == {{"s", "t"}}
InstanceWindow == "j1" :> "e2" @@ "j2" :> "e3"
InstanceLearns == "j1" :> {"l1", "l2"} @@ "j2" :> {"l3"}
InstanceReviewed == "j1" :> {} @@ "j2" :> {"l1"}

Proven == side = "proof" /\ Next /\ UNCHANGED <<side, proseVars, erasureVars>>
Prose == side = "prose" /\ ProseNext /\ UNCHANGED <<side, vars, erasureVars>>
Erasure == side = "erasure" /\ ErasureNext /\ UNCHANGED <<side, vars, proseVars>>

LessonsInit ==
    /\ Init /\ ProseInit /\ ErasureInit
    /\ side = "proof" \/ (side \in {"prose", "erasure"} /\ script = Recurring)
LessonsSpec == LessonsInit /\ [][Proven \/ Prose \/ Erasure]_<<side, vars, proseVars, erasureVars>>
===============================================================================
