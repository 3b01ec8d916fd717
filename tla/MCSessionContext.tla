--------------------------- MODULE MCSessionContext ----------------------------
(***************************************************************************)
(* An instance of SessionContext.  The tool of the session is followed     *)
(* until there is a publisher; with one, the agent and its user.           *)
(***************************************************************************)
EXTENDS SessionContext

Followed ==
    IF producers = 0 THEN calls = 0
    ELSE evidence = {} /\ \A t \in Tools : running[t] = NotRunning /\ ~ operations[t].recorded
===============================================================================
