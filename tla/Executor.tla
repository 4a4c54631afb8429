------------------------------ MODULE Executor ------------------------------
(***************************************************************************)
(* execution/executor.py, execution/security_gate.py and the credentials   *)
(* of vault/credential_resolver.py around a call: several calls of         *)
(* CommandExecutor.execute in one server process, of agents of several     *)
(* tenants, with the operating system's processes they start.              *)
(*                                                                         *)
(* A call runs alone between two awaits: the gate's model call, the        *)
(* creation of the process, the wait for its output, the wait for a killed *)
(* process.  The processes run on their own.  All of them share one gcloud *)
(* configuration, and with it one active account.                          *)
(***************************************************************************)
EXTENDS Naturals, FiniteSets, CommandOutcomes

CONSTANTS
  Execs,       \* calls of execute
  Tenants,
  TenantOf,    \* the tenant on whose behalf a call is made
  Commands,    \* commands, as given to an agent's executor
  Validated,   \* Validated[k]: what validate_command answers for k
  Injects,     \* Injects[k]: what resolve_credentials adds to k
  MaxCrashes   \* bound: crashes of the server process

Risks == {"none", "elevated", "critical"}
NoTenant == "no tenant"

ASSUME ExecutorAssumption ==
  /\ NoTenant \notin Tenants
  /\ Commands # {}
  /\ TenantOf \in [Execs -> Tenants]
  /\ Validated \in [Commands -> Risks \cup {"denied"}]
  /\ Injects \in [Commands -> {"nothing", "key_file", "login"}]
  /\ MaxCrashes \in Nat

VARIABLES
  exec,     \* exec[e]: the call
  proc,     \* proc[e]: the process of its command
  code,     \* code[e]: the exit code of a process that is gone
  keys,     \* calls whose temporary key file is on disk
  account,  \* the active account of gcloud: the tenant whose key was activated last
  ran_as,   \* history: the account a command with a login prefix ran as
  crashes

vars == <<exec, proc, code, keys, account, ran_as, crashes>>

-----------------------------------------------------------------------------
\* Exit codes as the caller sees them: "0" stands for all without a meaning of their own,
\* "None" for a timeout.
ExitCodes == {"0", "-1", "-3", "127", "None"}

Decisions == {"approved", "rejected", "requires_hitl"}

ResultRecord ==
  [ exit_code : ExitCodes,
    validated_by : {"blocked", "security_gate_rejected", "security_gate_hitl",
                    "blocklist_pass", "security_gate_approved"},
    gate_invoked : BOOLEAN,
    gate_decision : Decisions \cup {""} ]

NoResult == [exit_code |-> "None", validated_by |-> "blocked", gate_invoked |-> FALSE,
             gate_decision |-> ""]

\* A call: where it is, what it was given, what the gate decided (history, "" before), and
\* its result.
ExecRecord ==
  [ pc : {"idle", "gate", "spawning", "running", "killed", "done", "raised", "lost"},
    cmd : Commands, skip_gate : BOOLEAN, gate : Decisions \cup {""},
    spawned : BOOLEAN, result : ResultRecord ]

\* "login" and "logged_in" are the stages of a login prefix, "alive" is the command proper.
\* When the shell has ended, a child it left in the background may hold its output ("piped")
\* or have its output elsewhere ("detached").
ProcStates == {"none", "login", "logged_in", "alive", "piped", "detached", "gone"}

InFlight(e) == exec[e].pc \in {"gate", "spawning", "running", "killed"}
Risk(e)     == Validated[exec[e].cmd]

Init ==
  /\ exec = [e \in Execs |-> [pc |-> "idle", cmd |-> CHOOSE k \in Commands : TRUE,
                              skip_gate |-> FALSE, gate |-> "", spawned |-> FALSE,
                              result |-> NoResult]]
  /\ proc = [e \in Execs |-> "none"]
  /\ code = [e \in Execs |-> "0"]
  /\ keys = {}
  /\ account = NoTenant
  /\ ran_as = [e \in Execs |-> NoTenant]
  /\ crashes = 0

-----------------------------------------------------------------------------
(***************************************************************************)
(* The call.                                                               *)
(***************************************************************************)
\* Mutant: the key file is removed only after a command that was started.
RemoveIfSpawned(e) == IF exec[e].spawned THEN keys \ {e} ELSE keys

\* The with block around execute removes the key file however execute ends.
RemoveKey(e) == keys \ {e}

Finish(e, result) ==
  /\ exec' = [exec EXCEPT ![e].pc = "done", ![e].result = result]
  /\ keys' = RemoveKey(e)

\* Mutant: only critical commands are reviewed.
ReviewsCritical(risk, skip_gate) == ~skip_gate /\ risk = "critical"

\* Is this command reviewed by the gate?
Reviews(risk, skip_gate) == ~skip_gate /\ risk \in {"elevated", "critical"}

\* Credentials, validation, and the start of the gate, without an await between them: a
\* denied command is answered and its key file gone in the same step.
Begin(e, k, skip_gate) ==
  /\ exec[e].pc = "idle"
  /\ IF Validated[k] = "denied"
     THEN /\ exec' = [exec EXCEPT ![e].pc = "done", ![e].cmd = k, ![e].skip_gate = skip_gate,
                                  ![e].result = [NoResult EXCEPT !.exit_code = "-1"]]
          /\ UNCHANGED keys
     ELSE /\ exec' = [exec EXCEPT ![e].pc = IF Reviews(Validated[k], skip_gate)
                                            THEN "gate" ELSE "spawning",
                                  ![e].cmd = k, ![e].skip_gate = skip_gate]
          /\ keys' = IF Injects[k] = "nothing" THEN keys ELSE keys \cup {e}
  /\ UNCHANGED <<proc, code, account, ran_as, crashes>>

\* The credential cannot be built: its value is JSON but no object, or the directory or the
\* file cannot be written.  The exception ends the agent before execute is called.  The key
\* file of a gcloud login is written before the with block that removes it is entered: a
\* write that fails leaves it.
BuildFails(e, k) ==
  /\ exec[e].pc = "idle" /\ Injects[k] # "nothing"
  /\ exec' = [exec EXCEPT ![e].pc = "raised"]
  /\ \/ UNCHANGED keys
     \/ Injects[k] = "login" /\ keys' = keys \cup {e}
  /\ UNCHANGED <<proc, code, account, ran_as, crashes>>

\* Mutant: a command to be approved by a human is answered like a rejected one.
HitlLikeRejected(decision) ==
  [exit_code |-> "-1", gate_invoked |-> TRUE, gate_decision |-> decision,
   validated_by |-> IF decision = "rejected" THEN "security_gate_rejected"
                                             ELSE "security_gate_hitl"]

\* Mutant: the stage put together from the decision.
StageFromDecision(decision) ==
  [exit_code |-> IF decision = "rejected" THEN "-1" ELSE "-3",
   validated_by |-> IF decision = "rejected" THEN "security_gate_rejected"
                                             ELSE "security_gate_requires_hitl",
   gate_invoked |-> TRUE, gate_decision |-> decision]

\* The results of a gate that did not approve.
Refusal(decision) ==
  [exit_code |-> IF decision = "rejected" THEN "-1" ELSE "-3",
   validated_by |-> IF decision = "rejected" THEN "security_gate_rejected"
                                             ELSE "security_gate_hitl",
   gate_invoked |-> TRUE, gate_decision |-> decision]

\* review_command: a failed model call, or an answer that cannot be read, is "rejected".
GateAnswers(e) ==
  /\ exec[e].pc = "gate"
  /\ \/ /\ exec' = [exec EXCEPT ![e].pc = "spawning", ![e].gate = "approved"]
        /\ UNCHANGED keys
     \/ \E decision \in {"rejected", "requires_hitl"} :
          /\ exec' = [exec EXCEPT ![e].pc = "done", ![e].gate = decision,
                                  ![e].result = Refusal(decision)]
          /\ keys' = RemoveKey(e)
  /\ UNCHANGED <<proc, code, account, ran_as, crashes>>

\* The shell is created; it starts with the login prefix if there is one.
Spawn(e) ==
  /\ exec[e].pc = "spawning"
  /\ exec' = [exec EXCEPT ![e].pc = "running", ![e].spawned = TRUE]
  /\ proc' = [proc EXCEPT ![e] = IF Injects[exec[e].cmd] = "login" THEN "login" ELSE "alive"]
  /\ UNCHANGED <<code, keys, account, ran_as, crashes>>

\* FileNotFoundError (127), or any other exception (-1).  Neither tells of the gate.
SpawnFails(e) ==
  /\ exec[e].pc = "spawning"
  /\ \E exit_code \in {"127", "-1"} :
       Finish(e, [exit_code |-> exit_code, validated_by |-> "blocklist_pass",
                  gate_invoked |-> FALSE, gate_decision |-> ""])
  /\ UNCHANGED <<proc, code, account, ran_as, crashes>>

\* Mutant: a skipped gate is reported as one that was invoked.
ForgetSkip(e) == Risk(e) \in {"elevated", "critical"}

\* gate_was_invoked, computed again after the run.
GateWasInvoked(e) == Risk(e) \in {"elevated", "critical"} /\ ~exec[e].skip_gate

\* Mutant: the output is not waited for.
AnyProcess(e) == proc[e] # "none"

\* communicate() returns when the shell has ended and its output is closed.
OutputComplete(e) == proc[e] \in {"detached", "gone"}

Collect(e) ==
  /\ exec[e].pc = "running" /\ OutputComplete(e)
  /\ Finish(e, [exit_code |-> code[e],
                validated_by |-> IF GateWasInvoked(e) THEN "security_gate_approved"
                                                      ELSE "blocklist_pass",
                gate_invoked |-> GateWasInvoked(e),
                gate_decision |-> IF GateWasInvoked(e) THEN "approved" ELSE ""])
  /\ UNCHANGED <<proc, code, account, ran_as, crashes>>

\* Mutant: no timeout: wait_for without one.
NeverExpires(e) == FALSE

\* The timeout may expire whenever the output is not complete.
Expired(e) == exec[e].pc = "running"

\* process.kill() ends the shell.  What the shell had started goes on, unless the shell had
\* become the command itself (the last command of a shell script replaces it).
Timeout(e) ==
  /\ Expired(e)
  /\ exec' = [exec EXCEPT ![e].pc = "killed"]
  /\ \/ proc[e] # "logged_in" /\ UNCHANGED proc
     \/ proc[e] \in {"login", "logged_in", "alive"} /\ proc' = [proc EXCEPT ![e] = "gone"]
  /\ UNCHANGED <<code, keys, account, ran_as, crashes>>

\* There may be no shell left to kill: process.kill() raises ProcessLookupError, which
\* execute answers as any other exception.
KillFails(e) ==
  /\ Expired(e) /\ OutputComplete(e)
  /\ Finish(e, [exit_code |-> "-1", validated_by |-> "blocklist_pass",
                gate_invoked |-> FALSE, gate_decision |-> ""])
  /\ UNCHANGED <<proc, code, account, ran_as, crashes>>

\* process.wait(), then the result: here validated_by looks at the risk only.
Reap(e) ==
  /\ exec[e].pc = "killed"
  /\ Finish(e, [exit_code |-> "None",
                validated_by |-> IF Risk(e) = "none" THEN "blocklist_pass"
                                                     ELSE "security_gate_approved",
                gate_invoked |-> GateWasInvoked(e),
                gate_decision |-> IF GateWasInvoked(e) THEN "approved" ELSE ""])
  /\ UNCHANGED <<proc, code, account, ran_as, crashes>>

-----------------------------------------------------------------------------
(***************************************************************************)
(* The processes.  The shell goes on after the login if it is still there. *)
(***************************************************************************)
ShellAlive(e) == exec[e].pc \in {"running", "lost"}

LogIn(e) ==
  /\ proc[e] = "login"
  /\ account' = TenantOf[e]
  /\ proc' = [proc EXCEPT ![e] = IF ShellAlive(e) THEN "logged_in" ELSE "gone"]
  /\ UNCHANGED <<exec, code, keys, ran_as, crashes>>

\* A login that fails ends the shell: the command proper is not run.
LoginFails(e) ==
  /\ proc[e] = "login"
  /\ proc' = [proc EXCEPT ![e] = "gone"]
  /\ UNCHANGED <<exec, code, keys, account, ran_as, crashes>>

\* gcloud reads the active account when it starts.
StartLoggedIn(e) ==
  /\ proc[e] = "logged_in"
  /\ proc' = [proc EXCEPT ![e] = "alive"]
  /\ ran_as' = [ran_as EXCEPT ![e] = account]
  /\ UNCHANGED <<exec, code, keys, account, crashes>>

\* A command ends by itself, or by SIGHUP (-1) or SIGQUIT (-3); it may leave a child behind.
Exit(e) ==
  /\ proc[e] = "alive"
  /\ \E left \in {"piped", "detached", "gone"} : proc' = [proc EXCEPT ![e] = left]
  /\ \E exit_code \in {"0", "-1", "-3"} : code' = [code EXCEPT ![e] = exit_code]
  /\ UNCHANGED <<exec, keys, account, ran_as, crashes>>

\* The child ends, or closes the output it has from the shell.
ChildGoes(e) ==
  /\ \/ proc[e] = "piped" /\ proc' = [proc EXCEPT ![e] = "detached"]
     \/ proc[e] \in {"piped", "detached"} /\ proc' = [proc EXCEPT ![e] = "gone"]
  /\ UNCHANGED <<exec, code, keys, account, ran_as, crashes>>

\* The server process dies: key files and processes stay.
Crash ==
  /\ crashes < MaxCrashes
  /\ \E e \in Execs : InFlight(e)
  /\ exec' = [e \in Execs |-> IF InFlight(e) THEN [exec[e] EXCEPT !.pc = "lost"] ELSE exec[e]]
  /\ crashes' = crashes + 1
  /\ UNCHANGED <<proc, code, keys, account, ran_as>>

Step(e) ==
  \/ GateAnswers(e) \/ Spawn(e) \/ SpawnFails(e)
  \/ Collect(e) \/ Timeout(e) \/ KillFails(e) \/ Reap(e)

Next ==
  \/ \E e \in Execs, k \in Commands, skip_gate \in BOOLEAN : Begin(e, k, skip_gate)
  \/ \E e \in Execs, k \in Commands : BuildFails(e, k)
  \/ \E e \in Execs : Step(e)
  \/ \E e \in Execs : LogIn(e) \/ LoginFails(e) \/ StartLoggedIn(e) \/ Exit(e) \/ ChildGoes(e)
  \/ Crash

Spec == Init /\ [][Next]_vars

\* The event loop runs a call that can go on, and timeouts expire; commands need not end.
FairSpec == Spec /\ \A e \in Execs : WF_vars(Step(e))

-----------------------------------------------------------------------------
(***************************************************************************)
(* What became of a call, and the promise of CommandPromise.               *)
(***************************************************************************)
Done(e) == exec[e].pc = "done"

\* Seen from what happened, not from the exit code: refused by the validator or by the gate,
\* not started, or run (its shell was: the login may have failed).  A run that ended by
\* SIGQUIT is told by its code.
Outcome(r) ==
  IF Validated[r.cmd] = "denied" THEN "denied"
  ELSE IF r.gate \in {"rejected", "requires_hitl"} THEN r.gate
  ELSE IF ~r.spawned THEN "unstarted"
  ELSE IF r.result.exit_code = "-3" THEN "quit" ELSE "ran"

\* The state of CommandPromise a call (its record) stands for: one whose credential could not
\* be built was never made.
PromisedState(r) ==
  CASE r.pc \in {"idle", "raised"} -> "idle"
    [] r.pc = "lost"               -> "lost"
    [] r.pc = "done"               -> Outcome(r)
    [] r.pc \in {"gate", "spawning", "running", "killed"} /\ r.spawned  -> "started"
    [] r.pc \in {"gate", "spawning", "running", "killed"} /\ ~r.spawned -> "open"

Promise ==
  INSTANCE CommandPromise WITH
    Requests <- [validated : Risks \cup {"denied"}, skip_gate : BOOLEAN],
    asked    <- [e \in Execs |-> [validated |-> Validated[exec[e].cmd],
                                  skip_gate |-> exec[e].skip_gate]],
    passed   <- [e \in Execs |-> exec[e].gate = "approved"],
    state    <- [e \in Execs |-> PromisedState(exec[e])]

-----------------------------------------------------------------------------
(***************************************************************************)
(* Properties.                                                             *)
(***************************************************************************)

\* Type invariant: every variable holds what the code may put there.
TypeOK ==
  /\ exec \in [Execs -> ExecRecord]
  /\ proc \in [Execs -> ProcStates]
  /\ code \in [Execs -> {"0", "-1", "-3"}]
  /\ keys \subseteq Execs
  /\ account \in Tenants \cup {NoTenant}
  /\ ran_as \in [Execs -> Tenants \cup {NoTenant}]
  /\ crashes \in 0 .. MaxCrashes

\* execute implements CommandPromise: nothing is run that was not validated and, where the
\* gate is asked, let pass; nothing is started twice; the outcomes are those the agents are
\* modelled with, through timeouts, failures and crashes.
KeepsPromise == Promise!Spec

\* The agents can rely on the exit code -3: it is returned exactly for the commands to be
\* paused on, those the gate put up for approval and the runs that ended by SIGQUIT.
PauseCodeIsExact ==
  \A e \in Execs : Done(e) => (exec[e].result.exit_code = "-3" <=> PausesOn(Outcome(exec[e])))

\* However execute ends, the key file goes with it: one is on disk only for a call that is
\* under way, that a crash interrupted, or that was never made because the file could not be
\* written (credential_resolver.py:137-139 is outside the block that removes it).  And a
\* command that can still be collected has its key file, whatever other calls end.
KeyFilesAreHeld ==
  /\ \A e \in keys : InFlight(e) \/ exec[e].pc \in {"lost", "raised"}
  /\ \A e \in Execs : exec[e].pc = "running" /\ Injects[exec[e].cmd] # "nothing" => e \in keys

\* When the caller has its answer the shell is over and nobody can write to its output any
\* more, unless the answer is that it timed out: then what the shell had started may go on,
\* and without its key file.  (A child with its output elsewhere is not waited for.)
AnsweredIsOver ==
  \A e \in Execs : Done(e) /\ proc[e] \notin {"none", "detached", "gone"} =>
    exec[e].result.exit_code = "None"

\* The audit record tells of the gate what happened: where it says that the gate was invoked,
\* or names a decision or a stage of the gate, the gate was asked about this very call and
\* decided so.  One record is excepted: of a command that timed out with its gate skipped,
\* validated_by says security_gate_approved (executor.py:295).
AuditInventsNothing ==
  \A e \in Execs : LET r == exec[e].result IN Done(e) =>
    /\ r.gate_invoked \/ r.gate_decision # "" =>
         r.gate_invoked /\ exec[e].gate = r.gate_decision /\ ~exec[e].skip_gate
    /\ r.validated_by = "security_gate_rejected" => exec[e].gate = "rejected"
    /\ r.validated_by = "security_gate_hitl" => exec[e].gate = "requires_hitl"
    /\ r.validated_by = "security_gate_approved" =>
         exec[e].gate = "approved" \/ (exec[e].skip_gate /\ r.exit_code = "None")

\* Every call returns, although commands need not end: the timeout sees to it.
EveryCallReturns == \A e \in Execs : InFlight(e) ~> ~InFlight(e)
=============================================================================
