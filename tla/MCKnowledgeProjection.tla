------------------------- MODULE MCKnowledgeProjection -------------------------
(***************************************************************************)
(* The instances of KnowledgeProjection, which says when the index is      *)
(* published, and of KnowledgeSearch, which reads it meanwhile.  A         *)
(* behaviour is of one of them.                                            *)
(***************************************************************************)
EXTENDS KnowledgeProjection, KnowledgeSearch, TLC

VARIABLE part \* "index" or "search"

\* Two rules say the same.  A request whose first route finds these, and one whose
\* first finds the third alone; the second route of each finds all.
MCRequests == {<<{"a", "b"}, {"a", "b", "c"}>>, <<{"c"}, {"a", "b", "c"}>>}
MCGuidance == "a" :> "x" @@ "b" :> "x" @@ "c" :> "y"
Forwards == "a" :> 1 @@ "b" :> 2 @@ "c" :> 3
Backwards == "a" :> 3 @@ "b" :> 2 @@ "c" :> 1
MCOrders == {Forwards, Backwards}

Publishing == part = "index" /\ Next /\ UNCHANGED <<part, searchVars>>
Searching == part = "search" /\ SearchNext /\ UNCHANGED <<part, vars>>
Working == part = "index" /\ WorkerStep /\ UNCHANGED <<part, searchVars>>

ProjectionInit ==
    /\ Init /\ SearchInit
    /\ part = "search" \/ (part = "index" /\ ranking = Forwards)
ProjectionSpec ==
    /\ ProjectionInit /\ [][Publishing \/ Searching]_<<part, vars, searchVars>>
    /\ WF_<<part, vars, searchVars>>(Working)
===============================================================================
