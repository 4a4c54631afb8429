--------------------------- MODULE MCAgentGraph ----------------------------
(***************************************************************************)
(* Values for the constants of AgentGraph.                                 *)
(***************************************************************************)
EXTENDS AgentGraphClaims

\* One command of each risk, and one that only the agents of the other domain may run.
MCValidated ==
  [a \in Agents |->
     [k \in Commands |->
        CASE k = "read"   -> "none"
          [] k = "edit"   -> "elevated"
          [] k = "delete" -> IF a = "os_engineer" THEN "denied" ELSE "critical"]]
=============================================================================
