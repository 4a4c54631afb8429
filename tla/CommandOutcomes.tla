-------------------------- MODULE CommandOutcomes ---------------------------
(***************************************************************************)
(* What becomes of one command given to CommandExecutor.execute, as far as *)
(* the agents can tell: the seam between AgentGraph, which chooses one of  *)
(* these outcomes, and Executor, which shows that there are no others.     *)
(***************************************************************************)

\* "unstarted" is an approved command whose process could not be created (exit codes 127 and
\* -1); "quit" is a command that ran and was ended by SIGQUIT: its exit code, -3, is the one
\* that stands for "requires_hitl".
OutcomeKinds == {"denied", "rejected", "requires_hitl", "unstarted", "ran", "quit"}

\* validated: what validate_command answered, "denied" or the risk of an approved command.
OutcomesOf(validated, skip_gate, may_quit) ==
  IF validated = "denied" THEN {"denied"}
  ELSE {"unstarted", "ran"} \cup (IF may_quit THEN {"quit"} ELSE {})
         \cup IF validated = "none" \/ skip_gate THEN {} ELSE {"rejected", "requires_hitl"}

\* Did the command run?
Runs(outcome) == outcome \in {"ran", "quit"}

\* exit_code == -3: the agent pauses and puts the command up for approval.
PausesOn(outcome) == outcome \in {"requires_hitl", "quit"}
=============================================================================
