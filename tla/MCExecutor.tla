----------------------------- MODULE MCExecutor -----------------------------
(***************************************************************************)
(* Values for the constants of Executor: a few commands in full, which     *)
(* Validator validates in mode 3 as the executor of their agent would.     *)
(***************************************************************************)
EXTENDS ExecutorClaims

V == INSTANCE Validator

\* A command of the cloud agents, by its verb.
CloudCommand(verb) ==
  [ns |-> "cli", word |-> verb, root |-> verb, script |-> FALSE, marks |-> {},
   form |-> "absent", inner |-> [ns |-> "tool", word |-> "ps", root |-> "ps", marks |-> {}]]

MCCommands == {"list", "restart", "delete", "delete quietly"}
MCText ==
  [k \in MCCommands |->
     IF k = "delete quietly"
     THEN [CloudCommand("delete") EXCEPT !.marks = {"destructive_word", "dangerous_flag"}]
     ELSE CloudCommand(k)]
MCValidated ==
  [k \in MCCommands |-> CASE k = "list"    -> "none"
                          [] k = "restart" -> "elevated"
                          [] k = "delete"  -> "critical"
                          [] OTHER         -> "denied"]

\* The table is what Validator answers.
ASSUME MCValidatedIsValidators ==
  \A k \in MCCommands : MCValidated[k] = V!ValidatedAs(MCText[k], "cloud", 3, "elevated")

\* The list is one of kubectl, with a key file and no login; the restart has no credential;
\* the deletions are gcloud's.
MCInjects ==
  [k \in MCCommands |-> CASE k = "list"    -> "key_file"
                          [] k = "restart" -> "nothing"
                          [] OTHER         -> "login"]

MCTenantOf == [e \in Execs |-> IF e = 1 THEN "t1" ELSE "t2"]
=============================================================================
