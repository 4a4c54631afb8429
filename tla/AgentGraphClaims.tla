-------------------------- MODULE AgentGraphClaims --------------------------
(***************************************************************************)
(* What the product documents and the comments of the code say of the      *)
(* orchestration core, where AgentGraph shows the code does otherwise.     *)
(***************************************************************************)
EXTENDS AgentGraph

\* PRD_Brain, Stage 4: "User rejects -> ABORT": a command the user only ever rejected is
\* not run.  approve_hitl resumes the graph whatever "approved" says.
RejectAborts == \A p \in Tickets : ticket[p].decided = {FALSE} => ticket[p].execs = 0

\* PRD_main: "Execution is paused, and the user must approve or reject the action": a
\* flagged command is not run before the user has said anything.  A new query on the paused
\* session resets hitl_pending and leaves hitl_command.
RunsOnlyIfDecided == \A p \in Tickets : ticket[p].execs > 0 => ticket[p].decided # {}

\* PRD_Brain, 13: "Every destructive command in Mode 3 requires human approval, regardless
\* of how confident the agent or LLM Gate is": no command of critical risk is run on the
\* gate's word alone.
CriticalNeedsHuman == "critical" \notin unattended

\* intent_analyzer.py, "Unconditionally clear transient agent outputs from the previous turn
\* so they don't bleed into the current turn": in a turn that was cleared, an error is the
\* turn's own.  The field error is not among those cleared, and is never reset later.
ErrorIsOwn ==
  \A s \in Sessions : \A st \in StatesOf(s) :
    st.cleared => st.error \in {None, st.request_id}
=============================================================================
