-------------------------- MODULE CommandPromise ----------------------------
(***************************************************************************)
(* What CommandExecutor promises of one call of execute, without saying    *)
(* how: a command that is not validated is never run; one with a risk is   *)
(* run only after the gate let it pass, or when the gate was to be         *)
(* skipped; a command is started at most once; and the caller is told one  *)
(* of the outcomes of CommandOutcomes, "ran" or "quit" exactly when the    *)
(* command was started.                                                    *)
(***************************************************************************)
EXTENDS CommandOutcomes

CONSTANTS Execs, Requests   \* calls of execute; [validated, skip_gate] of a call

VARIABLES
  asked,    \* what was asked
  passed,   \* did the gate let it pass?
  state     \* "idle", "open", "started", "lost" or the outcome

vars == <<asked, passed, state>>

Init ==
  /\ asked \in [Execs -> Requests]
  /\ passed = [e \in Execs |-> FALSE]
  /\ state = [e \in Execs |-> "idle"]

\* A request; a denied one may be answered at once.
Ask(e, r) ==
  /\ state[e] = "idle"
  /\ asked' = [asked EXCEPT ![e] = r]
  /\ state' = [state EXCEPT ![e] = IF r.validated = "denied" THEN "denied" ELSE "open"]
  /\ UNCHANGED passed

Pass(e) ==
  /\ state[e] = "open" /\ ~passed[e]
  /\ asked[e].validated # "none" /\ ~asked[e].skip_gate
  /\ passed' = [passed EXCEPT ![e] = TRUE]
  /\ UNCHANGED <<asked, state>>

MayRun(e) == asked[e].validated = "none" \/ asked[e].skip_gate \/ passed[e]

StartCommand(e) ==
  /\ state[e] = "open" /\ MayRun(e)
  /\ state' = [state EXCEPT ![e] = "started"]
  /\ UNCHANGED <<asked, passed>>

\* The gate's refusals come only from a gate that did not let it pass.
Tell(e, outcome) ==
  /\ state[e] \in {"open", "started"}
  /\ outcome \in OutcomesOf(asked[e].validated, asked[e].skip_gate, TRUE)
  /\ Runs(outcome) <=> state[e] = "started"
  /\ outcome = "unstarted" <=> state[e] = "open" /\ MayRun(e)
  /\ state' = [state EXCEPT ![e] = outcome]
  /\ UNCHANGED <<asked, passed>>

\* The process of the server dies: nobody is told.
Lose ==
  /\ state' = [e \in Execs |-> IF state[e] \in {"open", "started"} THEN "lost" ELSE state[e]]
  /\ UNCHANGED <<asked, passed>>

Next ==
  \/ \E e \in Execs, r \in Requests : Ask(e, r)
  \/ \E e \in Execs : Pass(e) \/ StartCommand(e)
  \/ \E e \in Execs, outcome \in OutcomeKinds : Tell(e, outcome)
  \/ Lose

Spec == Init /\ [][Next]_vars
=============================================================================
