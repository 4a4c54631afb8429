-------------------------- MODULE ExecutorClaims ----------------------------
(***************************************************************************)
(* What the documents say of the execution of commands, where Executor     *)
(* shows the code does otherwise.                                          *)
(***************************************************************************)
EXTENDS Executor

\* README: "Each tenant runs in complete isolation": a command whose credential is activated
\* by a login prefix runs as the account of its own tenant.  The prefix activates the account
\* in the one gcloud configuration of the server; another call may come between.
RunsAsItself ==
  \A e \in Execs : proc[e] = "alive" /\ Injects[exec[e].cmd] = "login" =>
    ran_as[e] = TenantOf[e]
=============================================================================
