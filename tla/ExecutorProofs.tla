--------------------------- MODULE ExecutorProofs ---------------------------
(***************************************************************************)
(* Theorems about Executor, for any number of calls, tenants and commands. *)
(*                                                                         *)
(* The invariant is one of each call by itself (CallOK): where a call is   *)
(* tells what the gate has said of it, whether its process was created and *)
(* whether it holds a key file; a call that is done keeps what the         *)
(* properties ask of its result.  No step of another call, and no process, *)
(* disturbs it.                                                            *)
(***************************************************************************)
EXTENDS Executor, TLAPS

USE DEF Risks, Decisions, ExitCodes, ProcStates

\* What the gate has said of a call that may go on to its process: it approved where it was
\* asked, and it was not asked otherwise.
Cleared(r) ==
  /\ Validated[r.cmd] # "denied"
  /\ r.gate = IF Reviews(Validated[r.cmd], r.skip_gate) THEN "approved" ELSE ""

\* What a result tells of the gate is what the gate did.
GateAsTold(r) ==
  /\ r.result.gate_invoked \/ r.result.gate_decision # "" =>
       r.result.gate_invoked /\ r.gate = r.result.gate_decision /\ ~r.skip_gate
  /\ r.result.validated_by = "security_gate_rejected" => r.gate = "rejected"
  /\ r.result.validated_by = "security_gate_hitl" => r.gate = "requires_hitl"
  /\ r.result.validated_by = "security_gate_approved" =>
       r.gate = "approved" \/ (r.skip_gate /\ r.result.exit_code = "None")

\* A result that agrees with what happened.
ResultOK(r, p) ==
  /\ r.result.exit_code = "-3" <=> PausesOn(Outcome(r))
  /\ p \notin {"none", "detached", "gone"} => r.result.exit_code = "None"
  /\ GateAsTold(r)

\* The invariant of a call: its record r, the state p of its process, and whether it holds a
\* key file.
CallOK(r, p, held) ==
  /\ r.pc = "idle" => r.gate = "" /\ ~r.spawned /\ p = "none" /\ ~held
  /\ r.pc = "gate" =>
       /\ Validated[r.cmd] # "denied" /\ Reviews(Validated[r.cmd], r.skip_gate)
       /\ r.gate = "" /\ ~r.spawned /\ p = "none"
  /\ r.pc = "spawning" => Cleared(r) /\ ~r.spawned /\ p = "none"
  /\ r.pc = "running" => Cleared(r) /\ r.spawned /\ p # "none"
  /\ r.pc = "killed" => Cleared(r) /\ r.spawned /\ p \notin {"none", "logged_in"}
  /\ r.pc \in {"gate", "spawning", "running", "killed"} /\ Injects[r.cmd] # "nothing" => held
  /\ r.pc = "done" => ResultOK(r, p) /\ ~held

IInv == TypeOK /\ \A e \in Execs : CallOK(exec[e], proc[e], e \in keys)

\* The outcome of a call, case by case.
LEMMA OutcomeCases ==
  ASSUME NEW r
  PROVE  /\ Validated[r.cmd] = "denied" => Outcome(r) = "denied"
         /\ Validated[r.cmd] # "denied" /\ r.gate \in {"rejected", "requires_hitl"} =>
              Outcome(r) = r.gate
         /\ Validated[r.cmd] # "denied" /\ r.gate \in {"approved", ""} /\ r.spawned =>
              Outcome(r) = IF r.result.exit_code = "-3" THEN "quit" ELSE "ran"
         /\ Validated[r.cmd] # "denied" /\ r.gate \in {"approved", ""} /\ ~r.spawned =>
              Outcome(r) = "unstarted"
BY DEF Outcome

\* Init establishes the invariant.
LEMMA InitInv == Init => IInv
<1> SUFFICES ASSUME Init PROVE IInv
  OBVIOUS
<1> USE ExecutorAssumption DEF ExecutorAssumption
<1> DEFINE any == CHOOSE k \in Commands : TRUE
<1>1. any \in Commands
  OBVIOUS
<1>2. NoResult \in ResultRecord
  BY DEF NoResult, ResultRecord
<1>3. exec \in [Execs -> ExecRecord]
  <2>1. [pc |-> "idle", cmd |-> any, skip_gate |-> FALSE, gate |-> "", spawned |-> FALSE,
         result |-> NoResult] \in ExecRecord
    BY <1>1, <1>2 DEF ExecRecord
  <2> QED BY <2>1 DEF Init
<1>4. TypeOK
  <2>1. proc \in [Execs -> ProcStates] /\ code \in [Execs -> {"0", "-1", "-3"}]
    BY DEF Init
  <2>2. ran_as \in [Execs -> Tenants \cup {NoTenant}] /\ account \in Tenants \cup {NoTenant}
    BY DEF Init
  <2>3. keys = {} /\ crashes = 0
    BY DEF Init
  <2>4. 0 \in 0 .. MaxCrashes
    OBVIOUS
  <2> QED BY <1>3, <2>1, <2>2, <2>3, <2>4 DEF TypeOK
<1>5. ASSUME NEW e \in Execs PROVE CallOK(exec[e], proc[e], e \in keys)
  BY <1>5 DEF Init, CallOK
<1> QED BY <1>4, <1>5 DEF IInv

-----------------------------------------------------------------------------
(***************************************************************************)
(* Steps.                                                                  *)
(***************************************************************************)
\* A step of call e: its record becomes r, its process p, and its key file may come or go;
\* the other calls keep theirs.
LEMMA MoveInv ==
  ASSUME IInv, NEW e \in Execs, NEW r \in ExecRecord, NEW p \in ProcStates,
         exec' = [exec EXCEPT ![e] = r], proc' = [proc EXCEPT ![e] = p],
         keys' \in {keys, keys \cup {e}, keys \ {e}},
         UNCHANGED <<code, account, ran_as, crashes>>, CallOK(r, p, e \in keys')
  PROVE  IInv'
<1>1. TypeOK'
  BY DEF IInv, TypeOK
<1>2. ASSUME NEW d \in Execs PROVE CallOK(exec'[d], proc'[d], d \in keys')
  <2>1. CASE d = e
    BY <2>1 DEF IInv, TypeOK
  <2>2. CASE d # e
    <3>1. exec'[d] = exec[d] /\ proc'[d] = proc[d] /\ (d \in keys' <=> d \in keys)
      BY <2>2 DEF IInv, TypeOK
    <3>2. CallOK(exec[d], proc[d], d \in keys)
      BY DEF IInv
    <3> QED BY <3>1, <3>2 DEF CallOK
  <2> QED BY <2>1, <2>2
<1> QED BY <1>1, <1>2 DEF IInv

\* What is known of a call.
LEMMA CallFacts ==
  ASSUME IInv, NEW e \in Execs
  PROVE  /\ exec[e] \in ExecRecord /\ proc[e] \in ProcStates /\ code[e] \in {"0", "-1", "-3"}
         /\ CallOK(exec[e], proc[e], e \in keys)
         /\ proc = [proc EXCEPT ![e] = proc[e]]
BY DEF IInv, TypeOK

\* A call that ends: it has a result that agrees with what happened, and no key file.
LEMMA FinishInv ==
  ASSUME IInv, NEW e \in Execs, NEW gate \in Decisions \cup {""}, NEW result \in ResultRecord,
         NEW r, r = [exec[e] EXCEPT !.pc = "done", !.gate = gate, !.result = result],
         exec' = [exec EXCEPT ![e] = r], keys' = keys \ {e},
         UNCHANGED <<proc, code, account, ran_as, crashes>>, ResultOK(r, proc[e])
  PROVE  IInv'
<1>0. exec[e] \in ExecRecord
  BY CallFacts
<1>1. r \in ExecRecord /\ r.pc = "done"
  BY <1>0 DEF ExecRecord
<1>2. CallOK(r, proc[e], e \in keys')
  BY <1>1 DEF CallOK
<1>3. proc[e] \in ProcStates /\ proc' = [proc EXCEPT ![e] = proc[e]]
  BY CallFacts
<1>4. UNCHANGED <<code, account, ran_as, crashes>>
  OBVIOUS
<1> QED BY <1>1, <1>2, <1>3, <1>4, MoveInv

\* A denied call is done at once; any other takes its key file and goes to the gate or on.
LEMMA BeginStep ==
  ASSUME IInv, NEW e \in Execs, NEW k \in Commands, NEW skip_gate \in BOOLEAN,
         Begin(e, k, skip_gate)
  PROVE  IInv'
<1>0. exec[e] \in ExecRecord /\ exec[e].pc = "idle" /\ CallOK(exec[e], proc[e], e \in keys)
  BY CallFacts DEF Begin
<1>1. Validated[k] \in Risks \cup {"denied"} /\ Injects[k] \in {"nothing", "key_file", "login"}
  BY ExecutorAssumption DEF ExecutorAssumption
<1>2. UNCHANGED <<proc, code, account, ran_as, crashes>>
  BY DEF Begin
<1>3. CASE Validated[k] = "denied"
  <2> DEFINE result == [NoResult EXCEPT !.exit_code = "-1"]
             r == [exec[e] EXCEPT !.pc = "done", !.cmd = k, !.skip_gate = skip_gate,
                                  !.result = result]
  <2>1. result \in ResultRecord /\ result.exit_code = "-1" /\ ~result.gate_invoked
        /\ result.gate_decision = "" /\ result.validated_by = "blocked"
    BY DEF NoResult, ResultRecord
  <2>2. r \in ExecRecord /\ r.pc = "done" /\ r.cmd = k /\ r.result = result
    BY <1>0, <2>1 DEF ExecRecord
  <2>3. exec' = [exec EXCEPT ![e] = r] /\ keys' = keys
    BY <1>3 DEF Begin
  <2> HIDE DEF r, result
  <2>4. proc[e] = "none" /\ e \notin keys /\ Outcome(r) = "denied"
    BY <1>0, <1>3, <2>2, OutcomeCases DEF CallOK
  <2>5. ResultOK(r, proc[e])
    BY <2>1, <2>2, <2>4 DEF ResultOK, GateAsTold, PausesOn
  <2>6. CallOK(r, proc[e], e \in keys')
    BY <2>2, <2>3, <2>4, <2>5 DEF CallOK
  <2>7. keys' \in {keys, keys \cup {e}, keys \ {e}} /\ UNCHANGED <<code, account, ran_as, crashes>>
    BY <1>2, <2>3
  <2>8. proc[e] \in ProcStates /\ proc' = [proc EXCEPT ![e] = proc[e]]
    BY <1>2, CallFacts
  <2> QED BY <2>2, <2>3, <2>6, <2>7, <2>8, MoveInv
<1>4. CASE Validated[k] # "denied"
  <2> DEFINE r == [exec[e] EXCEPT !.pc = IF Reviews(Validated[k], skip_gate)
                                         THEN "gate" ELSE "spawning",
                                  !.cmd = k, !.skip_gate = skip_gate]
  <2>1. r \in ExecRecord /\ r.cmd = k /\ r.skip_gate = skip_gate /\ r.gate = exec[e].gate
        /\ r.spawned = exec[e].spawned
        /\ r.pc = IF Reviews(Validated[k], skip_gate) THEN "gate" ELSE "spawning"
    BY <1>0 DEF ExecRecord
  <2>2. exec' = [exec EXCEPT ![e] = r]
        /\ keys' = IF Injects[k] = "nothing" THEN keys ELSE keys \cup {e}
    BY <1>4 DEF Begin
  <2> HIDE DEF r
  <2>3. proc[e] = "none" /\ exec[e].gate = "" /\ ~exec[e].spawned
    BY <1>0 DEF CallOK
  <2>4. Injects[k] # "nothing" => e \in keys'
    BY <2>2
  <2>5. CallOK(r, proc[e], e \in keys')
    BY <1>4, <2>1, <2>3, <2>4 DEF CallOK, Cleared
  <2>6. keys' \in {keys, keys \cup {e}, keys \ {e}} /\ UNCHANGED <<code, account, ran_as, crashes>>
    BY <1>2, <2>2
  <2>7. proc[e] \in ProcStates /\ proc' = [proc EXCEPT ![e] = proc[e]]
    BY <1>2, CallFacts
  <2> QED BY <2>1, <2>2, <2>5, <2>6, <2>7, MoveInv
<1> QED BY <1>3, <1>4

\* A call that is not made, its key file left or not.
LEMMA BuildFailsStep ==
  ASSUME IInv, NEW e \in Execs, NEW k \in Commands, BuildFails(e, k)
  PROVE  IInv'
<1> DEFINE r == [exec[e] EXCEPT !.pc = "raised"]
<1>0. exec[e] \in ExecRecord /\ proc[e] \in ProcStates /\ proc' = [proc EXCEPT ![e] = proc[e]]
  BY CallFacts DEF BuildFails
<1>1. r \in ExecRecord /\ r.pc = "raised"
  BY <1>0 DEF ExecRecord
<1>2. exec' = [exec EXCEPT ![e] = r] /\ keys' \in {keys, keys \cup {e}, keys \ {e}}
      /\ UNCHANGED <<code, account, ran_as, crashes>>
  BY DEF BuildFails
<1> HIDE DEF r
<1>3. CallOK(r, proc[e], e \in keys')
  BY <1>1 DEF CallOK
<1> QED BY <1>0, <1>1, <1>2, <1>3, MoveInv

\* An approval lets the call on; a refusal ends it and gives up the key file.
LEMMA GateStep ==
  ASSUME IInv, NEW e \in Execs, GateAnswers(e)
  PROVE  IInv'
<1>0. exec[e] \in ExecRecord /\ exec[e].pc = "gate" /\ CallOK(exec[e], proc[e], e \in keys)
  BY CallFacts DEF GateAnswers
<1>1. UNCHANGED <<proc, code, account, ran_as, crashes>>
  BY DEF GateAnswers
<1>2. CASE exec' = [exec EXCEPT ![e].pc = "spawning", ![e].gate = "approved"] /\ UNCHANGED keys
  <2> DEFINE r == [exec[e] EXCEPT !.pc = "spawning", !.gate = "approved"]
  <2>1. r \in ExecRecord /\ r.cmd = exec[e].cmd /\ r.skip_gate = exec[e].skip_gate
        /\ r.gate = "approved" /\ r.spawned = exec[e].spawned /\ r.pc = "spawning"
    BY <1>0 DEF ExecRecord
  <2>2. exec' = [exec EXCEPT ![e] = r]
    BY <1>2
  <2> HIDE DEF r
  <2>3. CallOK(r, proc[e], e \in keys')
    BY <1>0, <1>2, <2>1 DEF CallOK, Cleared
  <2>4. keys' \in {keys, keys \cup {e}, keys \ {e}} /\ UNCHANGED <<code, account, ran_as, crashes>>
    BY <1>1, <1>2
  <2>5. proc[e] \in ProcStates /\ proc' = [proc EXCEPT ![e] = proc[e]]
    BY <1>1, CallFacts
  <2> QED BY <2>1, <2>2, <2>3, <2>4, <2>5, MoveInv
<1>3. ASSUME NEW decision \in {"rejected", "requires_hitl"},
             exec' = [exec EXCEPT ![e].pc = "done", ![e].gate = decision,
                                  ![e].result = Refusal(decision)],
             keys' = keys \ {e}
      PROVE  IInv'
  <2> DEFINE r == [exec[e] EXCEPT !.pc = "done", !.gate = decision, !.result = Refusal(decision)]
  <2>1. Refusal(decision) \in ResultRecord
    BY <1>3 DEF Refusal, ResultRecord
  <2>2. r \in ExecRecord /\ r.cmd = exec[e].cmd /\ r.skip_gate = exec[e].skip_gate
        /\ r.gate = decision /\ r.result = Refusal(decision)
    BY <1>0, <2>1 DEF ExecRecord
  <2>3. ResultOK(r, proc[e])
    <3> HIDE DEF r
    <3>1. proc[e] = "none" /\ ~r.skip_gate /\ Validated[r.cmd] # "denied"
      BY <1>0, <2>2 DEF CallOK, Reviews
    <3>2. Outcome(r) = decision
      BY <2>2, <3>1, OutcomeCases
    <3>3. r.result.exit_code = (IF decision = "rejected" THEN "-1" ELSE "-3")
          /\ r.result.gate_invoked /\ r.result.gate_decision = decision
          /\ r.result.validated_by = (IF decision = "rejected" THEN "security_gate_rejected"
                                                              ELSE "security_gate_hitl")
      BY <2>2 DEF Refusal
    <3>4. GateAsTold(r)
      BY <1>3, <2>2, <3>1, <3>3 DEF GateAsTold
    <3> QED BY <1>3, <2>2, <3>1, <3>2, <3>3, <3>4 DEF ResultOK, PausesOn
  <2>4. exec' = [exec EXCEPT ![e] = r]
    BY <1>3
  <2> QED BY <1>1, <1>3, <2>1, <2>3, <2>4, FinishInv
<1> QED BY <1>2, <1>3 DEF GateAnswers, RemoveKey

\* The process is created.
LEMMA SpawnStep ==
  ASSUME IInv, NEW e \in Execs, Spawn(e)
  PROVE  IInv'
<1> DEFINE r == [exec[e] EXCEPT !.pc = "running", !.spawned = TRUE]
           p == IF Injects[exec[e].cmd] = "login" THEN "login" ELSE "alive"
<1>0. exec[e] \in ExecRecord /\ exec[e].pc = "spawning" /\ CallOK(exec[e], proc[e], e \in keys)
  BY CallFacts DEF Spawn
<1>1. r \in ExecRecord /\ r.cmd = exec[e].cmd /\ r.skip_gate = exec[e].skip_gate
      /\ r.gate = exec[e].gate /\ r.spawned /\ r.pc = "running"
  BY <1>0 DEF ExecRecord
<1>2. exec' = [exec EXCEPT ![e] = r] /\ proc' = [proc EXCEPT ![e] = p] /\ keys' = keys
      /\ UNCHANGED <<code, account, ran_as, crashes>>
  BY DEF Spawn
<1>3. CallOK(r, p, e \in keys')
  BY <1>0, <1>1, <1>2 DEF CallOK, Cleared
<1>4. p \in ProcStates
  OBVIOUS
<1> QED BY <1>1, <1>2, <1>3, <1>4, MoveInv

\* The process cannot be created.
LEMMA SpawnFailsStep ==
  ASSUME IInv, NEW e \in Execs, SpawnFails(e)
  PROVE  IInv'
<1>0. exec[e] \in ExecRecord /\ exec[e].pc = "spawning" /\ CallOK(exec[e], proc[e], e \in keys)
  BY CallFacts DEF SpawnFails
<1>1. PICK exit_code \in {"127", "-1"} :
        Finish(e, [exit_code |-> exit_code, validated_by |-> "blocklist_pass",
                   gate_invoked |-> FALSE, gate_decision |-> ""])
  BY DEF SpawnFails
<1> DEFINE result == [exit_code |-> exit_code, validated_by |-> "blocklist_pass",
                      gate_invoked |-> FALSE, gate_decision |-> ""]
           r == [exec[e] EXCEPT !.pc = "done", !.gate = exec[e].gate, !.result = result]
<1>2. result \in ResultRecord
  BY DEF ResultRecord
<1>3. r \in ExecRecord /\ r.cmd = exec[e].cmd /\ r.gate = exec[e].gate
      /\ r.spawned = exec[e].spawned /\ r.result = result
  BY <1>0, <1>2 DEF ExecRecord
<1>4. ResultOK(r, proc[e])
  <2> HIDE DEF r
  <2>1. proc[e] = "none" /\ ~r.spawned /\ Validated[r.cmd] # "denied" /\ r.gate \in {"approved", ""}
    BY <1>0, <1>3 DEF CallOK, Cleared
  <2>2. Outcome(r) = "unstarted"
    BY <2>1, OutcomeCases
  <2>3. r.result.exit_code # "-3" /\ r.result.gate_invoked = FALSE /\ r.result.gate_decision = ""
        /\ r.result.validated_by = "blocklist_pass"
    <3>1. result.exit_code = exit_code /\ result.gate_invoked = FALSE /\ result.gate_decision = ""
          /\ result.validated_by = "blocklist_pass"
      OBVIOUS
    <3>2. exit_code # "-3"
      OBVIOUS
    <3> HIDE DEF result
    <3> QED BY <1>3, <3>1, <3>2
  <2>4. ~PausesOn(Outcome(r))
    BY <2>2 DEF PausesOn
  <2> QED BY <2>1, <2>3, <2>4 DEF ResultOK, GateAsTold
<1>5. exec' = [exec EXCEPT ![e] = r] /\ keys' = keys \ {e}
  BY <1>0, <1>1 DEF Finish, RemoveKey, ExecRecord
<1>6. UNCHANGED <<proc, code, account, ran_as, crashes>>
  BY DEF SpawnFails
<1>7. exec[e].gate \in Decisions \cup {""}
  BY <1>0 DEF ExecRecord
<1> QED BY <1>2, <1>4, <1>5, <1>6, <1>7, FinishInv

\* A started call that ends, with the record of its gate computed again or without one: the
\* result agrees with what happened, whatever the exit code.
LEMMA StartedEnds ==
  ASSUME IInv, NEW e \in Execs, exec[e].pc \in {"running", "killed"},
         NEW exit_code \in ExitCodes, NEW stage \in {"blocklist_pass", "security_gate_approved"},
         NEW told \in BOOLEAN, told => GateWasInvoked(e),
         stage = "security_gate_approved" =>
           GateWasInvoked(e) \/ (Risk(e) # "none" /\ exit_code = "None"),
         Finish(e, [exit_code |-> exit_code, validated_by |-> stage, gate_invoked |-> told,
                    gate_decision |-> IF told THEN "approved" ELSE ""]),
         proc[e] \notin {"none", "detached", "gone"} => exit_code = "None",
         UNCHANGED <<proc, code, account, ran_as, crashes>>
  PROVE  IInv'
<1> DEFINE result == [exit_code |-> exit_code, validated_by |-> stage, gate_invoked |-> told,
                      gate_decision |-> IF told THEN "approved" ELSE ""]
           r == [exec[e] EXCEPT !.pc = "done", !.gate = exec[e].gate, !.result = result]
<1>0. exec[e] \in ExecRecord /\ CallOK(exec[e], proc[e], e \in keys)
  BY CallFacts
<1>2. result \in ResultRecord
  BY DEF ResultRecord
<1>3. r \in ExecRecord /\ r.cmd = exec[e].cmd /\ r.gate = exec[e].gate
      /\ r.spawned = exec[e].spawned /\ r.result = result /\ r.skip_gate = exec[e].skip_gate
  BY <1>0, <1>2 DEF ExecRecord
<1>4. Cleared(exec[e]) /\ exec[e].spawned
  BY <1>0 DEF CallOK
<1>5. ResultOK(r, proc[e])
  <2> HIDE DEF r
  <2>1. r.spawned /\ Validated[r.cmd] # "denied" /\ r.gate \in {"approved", ""}
    BY <1>3, <1>4 DEF Cleared
  <2>2. Outcome(r) = IF r.result.exit_code = "-3" THEN "quit" ELSE "ran"
    BY <2>1, OutcomeCases
  <2>3. r.result.exit_code = exit_code /\ r.result.gate_invoked = told
        /\ r.result.gate_decision = (IF told THEN "approved" ELSE "")
        /\ r.result.validated_by = stage
    <3>1. result.exit_code = exit_code /\ result.gate_invoked = told
          /\ result.gate_decision = (IF told THEN "approved" ELSE "")
          /\ result.validated_by = stage
      OBVIOUS
    <3> HIDE DEF result
    <3> QED BY <1>3, <3>1
  <2>4. GateWasInvoked(e) => r.gate = "approved" /\ ~r.skip_gate
    BY <1>3, <1>4 DEF Cleared, Reviews, GateWasInvoked, Risk
  <2>5. Risk(e) # "none" => r.gate = "approved" \/ r.skip_gate
    <3>1. Risk(e) \in Risks
      BY <1>0, <1>4, ExecutorAssumption DEF ExecutorAssumption, ExecRecord, Cleared, Risk
    <3> QED BY <1>3, <1>4, <3>1 DEF Cleared, Reviews, Risk
  <2>6. r.result.exit_code = "-3" <=> PausesOn(Outcome(r))
    BY <2>2 DEF PausesOn
  <2>7. r.result.gate_invoked \/ r.result.gate_decision # "" =>
          r.result.gate_invoked /\ r.result.gate_decision = "approved" /\ GateWasInvoked(e)
    BY <2>3
  <2>8. GateAsTold(r)
    BY <2>3, <2>4, <2>5, <2>7 DEF GateAsTold
  <2> QED BY <2>3, <2>6, <2>8 DEF ResultOK
<1>6. exec' = [exec EXCEPT ![e] = r] /\ keys' = keys \ {e}
  BY <1>0 DEF Finish, RemoveKey, ExecRecord
<1>7. exec[e].gate \in Decisions \cup {""}
  BY <1>0 DEF ExecRecord
<1> QED BY <1>2, <1>5, <1>6, <1>7, FinishInv

\* A call takes the output of a shell that has ended.
LEMMA CollectStep ==
  ASSUME IInv, NEW e \in Execs, Collect(e)
  PROVE  IInv'
<1> DEFINE stage == IF GateWasInvoked(e) THEN "security_gate_approved" ELSE "blocklist_pass"
<1>1. exec[e].pc \in {"running", "killed"} /\ proc[e] \in {"detached", "gone"}
      /\ code[e] \in ExitCodes
  BY CallFacts DEF Collect, OutputComplete
<1>2. stage \in {"blocklist_pass", "security_gate_approved"}
      /\ (stage = "security_gate_approved" => GateWasInvoked(e))
      /\ GateWasInvoked(e) \in BOOLEAN
  BY DEF GateWasInvoked
<1>3. Finish(e, [exit_code |-> code[e], validated_by |-> stage,
                 gate_invoked |-> GateWasInvoked(e),
                 gate_decision |-> IF GateWasInvoked(e) THEN "approved" ELSE ""])
  BY DEF Collect
<1>4. UNCHANGED <<proc, code, account, ran_as, crashes>>
  BY DEF Collect
<1> HIDE DEF stage
<1> QED BY <1>1, <1>2, <1>3, <1>4, StartedEnds

\* The shell is killed.
LEMMA TimeoutStep ==
  ASSUME IInv, NEW e \in Execs, Timeout(e)
  PROVE  IInv'
<1>0. exec[e] \in ExecRecord /\ exec[e].pc = "running" /\ CallOK(exec[e], proc[e], e \in keys)
      /\ proc[e] \in ProcStates
  BY CallFacts DEF Timeout, Expired
<1>1. PICK p \in ProcStates : proc' = [proc EXCEPT ![e] = p] /\ p \notin {"none", "logged_in"}
  <2>1. CASE proc[e] # "logged_in" /\ UNCHANGED proc
    BY <1>0, <2>1, CallFacts DEF CallOK
  <2>2. CASE proc' = [proc EXCEPT ![e] = "gone"]
    BY <2>2
  <2> QED BY <2>1, <2>2 DEF Timeout
<1> DEFINE r == [exec[e] EXCEPT !.pc = "killed"]
<1>2. r \in ExecRecord /\ r.cmd = exec[e].cmd /\ r.skip_gate = exec[e].skip_gate
      /\ r.gate = exec[e].gate /\ r.spawned = exec[e].spawned /\ r.pc = "killed"
  BY <1>0 DEF ExecRecord
<1>3. exec' = [exec EXCEPT ![e] = r] /\ keys' = keys /\ UNCHANGED <<code, account, ran_as, crashes>>
  BY DEF Timeout
<1> HIDE DEF r
<1>4. CallOK(r, p, e \in keys')
  BY <1>0, <1>1, <1>2, <1>3 DEF CallOK, Cleared
<1> QED BY <1>1, <1>2, <1>3, <1>4, MoveInv

\* There is no shell left to kill.
LEMMA KillFailsStep ==
  ASSUME IInv, NEW e \in Execs, KillFails(e)
  PROVE  IInv'
<1>1. exec[e].pc \in {"running", "killed"} /\ proc[e] \in {"detached", "gone"}
      /\ "-1" \in ExitCodes
  BY DEF KillFails, Expired, OutputComplete
<1>2. Finish(e, [exit_code |-> "-1", validated_by |-> "blocklist_pass", gate_invoked |-> FALSE,
                 gate_decision |-> IF FALSE THEN "approved" ELSE ""])
  BY DEF KillFails
<1>3. UNCHANGED <<proc, code, account, ran_as, crashes>>
  BY DEF KillFails
<1> QED BY <1>1, <1>2, <1>3, StartedEnds

\* A call whose shell was killed ends with its answer.
LEMMA ReapStep ==
  ASSUME IInv, NEW e \in Execs, Reap(e)
  PROVE  IInv'
<1> DEFINE stage == IF Risk(e) = "none" THEN "blocklist_pass" ELSE "security_gate_approved"
<1>1. exec[e].pc \in {"running", "killed"} /\ "None" \in ExitCodes
  BY DEF Reap
<1>2. stage \in {"blocklist_pass", "security_gate_approved"}
      /\ (stage = "security_gate_approved" => Risk(e) # "none")
      /\ GateWasInvoked(e) \in BOOLEAN
  BY DEF GateWasInvoked
<1>3. Finish(e, [exit_code |-> "None", validated_by |-> stage,
                 gate_invoked |-> GateWasInvoked(e),
                 gate_decision |-> IF GateWasInvoked(e) THEN "approved" ELSE ""])
  BY DEF Reap
<1>4. UNCHANGED <<proc, code, account, ran_as, crashes>>
  BY DEF Reap
<1> HIDE DEF stage
<1> QED BY <1>1, <1>2, <1>3, <1>4, StartedEnds

\* A step of a process: it goes on or it is gone; after a kill it does not come to the
\* second stage of a login.
LEMMA ProcessInv ==
  ASSUME IInv, NEW e \in Execs, NEW p \in {"logged_in", "alive", "piped", "detached", "gone"},
         proc[e] # "none", proc[e] = "detached" => p = "gone", proc[e] # "gone",
         exec[e].pc = "killed" => p # "logged_in",
         proc' = [proc EXCEPT ![e] = p], UNCHANGED <<exec, keys, crashes>>,
         code' \in [Execs -> {"0", "-1", "-3"}], account' \in Tenants \cup {NoTenant},
         ran_as' \in [Execs -> Tenants \cup {NoTenant}]
  PROVE  IInv'
<1>1. TypeOK'
  BY DEF IInv, TypeOK
<1>2. ASSUME NEW d \in Execs PROVE CallOK(exec'[d], proc'[d], d \in keys')
  <2>0. exec'[d] = exec[d] /\ (d \in keys' <=> d \in keys) /\ CallOK(exec[d], proc[d], d \in keys)
    BY DEF IInv
  <2>1. CASE d = e
    <3>1. proc'[d] = p
      BY <2>1 DEF IInv, TypeOK
    <3>2. CallOK(exec[d], p, d \in keys)
      BY <2>0, <2>1 DEF CallOK, ResultOK
    <3> QED BY <2>0, <3>1, <3>2 DEF CallOK
  <2>2. CASE d # e
    <3>1. proc'[d] = proc[d]
      BY <2>2 DEF IInv, TypeOK
    <3> QED BY <2>0, <3>1 DEF CallOK
  <2> QED BY <2>1, <2>2
<1> QED BY <1>1, <1>2 DEF IInv

\* The steps of the processes.
LEMMA ProcessStep ==
  ASSUME IInv, NEW e \in Execs,
         LogIn(e) \/ LoginFails(e) \/ StartLoggedIn(e) \/ Exit(e) \/ ChildGoes(e)
  PROVE  IInv'
<1> USE ExecutorAssumption DEF ExecutorAssumption
<1>0. code \in [Execs -> {"0", "-1", "-3"}] /\ account \in Tenants \cup {NoTenant}
      /\ ran_as \in [Execs -> Tenants \cup {NoTenant}] /\ CallOK(exec[e], proc[e], e \in keys)
  BY DEF IInv, TypeOK
<1>1. CASE LogIn(e)
  <2> DEFINE p == IF ShellAlive(e) THEN "logged_in" ELSE "gone"
  <2>1. p \in {"logged_in", "gone"} /\ (exec[e].pc = "killed" => p # "logged_in")
    BY DEF ShellAlive
  <2>2. proc[e] = "login" /\ proc' = [proc EXCEPT ![e] = p] /\ UNCHANGED <<exec, keys, crashes>>
        /\ code' = code /\ ran_as' = ran_as /\ account' \in Tenants \cup {NoTenant}
    BY <1>1 DEF LogIn
  <2> HIDE DEF p
  <2> QED BY <1>0, <2>1, <2>2, ProcessInv
<1>2. CASE LoginFails(e)
  BY <1>0, <1>2, ProcessInv DEF LoginFails
<1>3. CASE StartLoggedIn(e)
  BY <1>0, <1>3, ProcessInv DEF StartLoggedIn
<1>4. CASE Exit(e)
  <2>1. code' \in [Execs -> {"0", "-1", "-3"}]
    BY <1>0, <1>4 DEF Exit
  <2>2. PICK left \in {"piped", "detached", "gone"} : proc' = [proc EXCEPT ![e] = left]
    BY <1>4 DEF Exit
  <2>3. proc[e] = "alive" /\ UNCHANGED <<exec, keys, crashes>>
        /\ account' = account /\ ran_as' = ran_as
    BY <1>4 DEF Exit
  <2> QED BY <1>0, <2>1, <2>2, <2>3, ProcessInv
<1>5. CASE ChildGoes(e)
  BY <1>0, <1>5, ProcessInv DEF ChildGoes
<1> QED BY <1>1, <1>2, <1>3, <1>4, <1>5

\* The server dies: the calls under way are lost; the others keep what they had.
LEMMA CrashStep == IInv /\ Crash => IInv'
<1> SUFFICES ASSUME IInv, Crash PROVE IInv'
  OBVIOUS
<1> USE ExecutorAssumption DEF ExecutorAssumption
<1>1. \A e \in Execs : exec[e] \in ExecRecord
  BY DEF IInv, TypeOK
<1>2. \A e \in Execs :
        exec'[e] = IF InFlight(e) THEN [exec[e] EXCEPT !.pc = "lost"] ELSE exec[e]
  BY DEF Crash
<1>3. \A e \in Execs : [exec[e] EXCEPT !.pc = "lost"] \in ExecRecord
  BY <1>1 DEF ExecRecord
<1>4. exec' \in [Execs -> ExecRecord]
  <2>1. exec' = [e \in Execs |-> IF InFlight(e) THEN [exec[e] EXCEPT !.pc = "lost"] ELSE exec[e]]
    BY DEF Crash
  <2> HIDE DEF ExecRecord, InFlight
  <2> QED BY <1>1, <1>3, <2>1
<1>5. TypeOK'
  BY <1>4 DEF IInv, TypeOK, Crash
<1>6. ASSUME NEW e \in Execs PROVE CallOK(exec'[e], proc'[e], e \in keys')
  <2>0. proc' = proc /\ keys' = keys /\ CallOK(exec[e], proc[e], e \in keys)
    BY DEF IInv, Crash
  <2>1. CASE InFlight(e)
    <3>1. exec'[e].pc = "lost"
      BY <1>1, <1>2, <2>1 DEF ExecRecord
    <3> QED BY <3>1 DEF CallOK
  <2>2. CASE ~InFlight(e)
    BY <1>2, <2>0, <2>2
  <2> QED BY <2>1, <2>2
<1> QED BY <1>5, <1>6 DEF IInv

\* A step that changes nothing.
LEMMA StutterStep == IInv /\ UNCHANGED vars => IInv'
<1> SUFFICES ASSUME IInv, UNCHANGED vars PROVE IInv'
  OBVIOUS
<1>1. exec' = exec /\ proc' = proc /\ keys' = keys
  BY DEF vars
<1>2. TypeOK'
  BY DEF IInv, TypeOK, vars
<1>3. \A e \in Execs : CallOK(exec'[e], proc'[e], e \in keys')
  BY <1>1 DEF IInv
<1> QED BY <1>2, <1>3 DEF IInv

\* Every step keeps the invariant.
LEMMA NextInv == IInv /\ [Next]_vars => IInv'
<1> SUFFICES ASSUME IInv, [Next]_vars PROVE IInv'
  OBVIOUS
<1>1. CASE \E e \in Execs, k \in Commands, skip_gate \in BOOLEAN : Begin(e, k, skip_gate)
  BY <1>1, BeginStep
<1>2. CASE \E e \in Execs : Step(e)
  BY <1>2, GateStep, SpawnStep, SpawnFailsStep, CollectStep, TimeoutStep, KillFailsStep,
     ReapStep DEF Step
<1>3. CASE \E e \in Execs : LogIn(e) \/ LoginFails(e) \/ StartLoggedIn(e) \/ Exit(e) \/ ChildGoes(e)
  BY <1>3, ProcessStep
<1>4. CASE Crash
  BY <1>4, CrashStep
<1>5. CASE UNCHANGED vars
  BY <1>5, StutterStep
<1>6. CASE \E e \in Execs, k \in Commands : BuildFails(e, k)
  BY <1>6, BuildFailsStep
<1> QED BY <1>1, <1>2, <1>3, <1>4, <1>5, <1>6 DEF Next

\* The invariant holds in every reachable state.
LEMMA Inductive == Spec => []IInv
BY InitInv, NextInv, PTL DEF Spec

-----------------------------------------------------------------------------
(***************************************************************************)
(* Theorems.                                                               *)
(***************************************************************************)
\* Every variable holds what the code may put there.
THEOREM TypeCorrect == Spec => []TypeOK
<1>1. IInv => TypeOK
  BY DEF IInv
<1> QED BY <1>1, Inductive, PTL

\* The agents can rely on the exit code -3: it is returned exactly for the commands the gate
\* put up for approval and for the runs that ended by SIGQUIT.
THEOREM PauseCode == Spec => []PauseCodeIsExact
<1>1. IInv => PauseCodeIsExact
  BY DEF IInv, CallOK, ResultOK, PauseCodeIsExact, Done
<1> QED BY <1>1, Inductive, PTL

\* A key file on disk belongs to a call under way, to one lost in a crash or to one that was
\* never made because the file could not be written; and a command that can be collected has
\* its key file.
THEOREM KeyFiles == Spec => []KeyFilesAreHeld
<1>1. IInv => KeyFilesAreHeld
  <2> SUFFICES ASSUME IInv PROVE KeyFilesAreHeld
    OBVIOUS
  <2>1. \A e \in Execs : exec[e].pc \in {"idle", "gate", "spawning", "running", "killed",
                                        "done", "raised", "lost"}
    BY DEF IInv, TypeOK, ExecRecord
  <2>2. keys \subseteq Execs
    BY DEF IInv, TypeOK
  <2>3. \A e \in Execs : CallOK(exec[e], proc[e], e \in keys)
    BY DEF IInv
  <2> QED BY <2>1, <2>2, <2>3 DEF CallOK, KeyFilesAreHeld, InFlight
<1> QED BY <1>1, Inductive, PTL

\* When the caller has its answer the shell is over and its output closed, unless the answer
\* is a timeout.
THEOREM Answered == Spec => []AnsweredIsOver
<1>1. IInv => AnsweredIsOver
  BY DEF IInv, CallOK, ResultOK, AnsweredIsOver, Done
<1> QED BY <1>1, Inductive, PTL

\* The audit record tells of the gate what happened, but for the stage of a command that timed
\* out with its gate skipped.
THEOREM Audit == Spec => []AuditInventsNothing
<1>1. IInv => AuditInventsNothing
  BY DEF IInv, CallOK, ResultOK, GateAsTold, AuditInventsNothing, Done
<1> QED BY <1>1, Inductive, PTL

-----------------------------------------------------------------------------
(***************************************************************************)
(* Implementation of CommandPromise.  Every step of a call is the step of  *)
(* the promise it stands for; a timeout and the steps of the processes are *)
(* stuttering steps.                                                       *)
(***************************************************************************)
\* What is asked by a call, and the variables of the promise.
Request(r) == [validated |-> Validated[r.cmd], skip_gate |-> r.skip_gate]

AskedOf  == [e \in Execs |-> Request(exec[e])]
PassedOf == [e \in Execs |-> exec[e].gate = "approved"]
StateOf  == [e \in Execs |-> PromisedState(exec[e])]

\* The step of one call, seen from the promise.
LEMMA PromiseMove ==
  ASSUME IInv, NEW e \in Execs, NEW r, exec' = [exec EXCEPT ![e] = r]
  PROVE  /\ AskedOf' = [AskedOf EXCEPT ![e] = Request(r)]
         /\ PassedOf' = [PassedOf EXCEPT ![e] = (r.gate = "approved")]
         /\ StateOf' = [StateOf EXCEPT ![e] = PromisedState(r)]
         /\ Request(r) = Request(exec[e]) => AskedOf' = AskedOf
         /\ r.gate = exec[e].gate => PassedOf' = PassedOf
         /\ PromisedState(r) = PromisedState(exec[e]) => StateOf' = StateOf
<1>1. \A d \in Execs : exec'[d] = IF d = e THEN r ELSE exec[d]
  BY DEF IInv, TypeOK
<1>2. AskedOf' = [d \in Execs |-> IF d = e THEN Request(r) ELSE Request(exec[d])]
  BY <1>1 DEF AskedOf
<1>3. PassedOf' = [d \in Execs |-> IF d = e THEN r.gate = "approved"
                                            ELSE exec[d].gate = "approved"]
  BY <1>1 DEF PassedOf
<1>4. StateOf' = [d \in Execs |-> IF d = e THEN PromisedState(r) ELSE PromisedState(exec[d])]
  BY <1>1 DEF StateOf
<1>5. Request(r) = Request(exec[e]) => AskedOf' = AskedOf
  BY <1>2 DEF AskedOf
<1>6. r.gate = exec[e].gate => PassedOf' = PassedOf
  BY <1>3 DEF PassedOf
<1>7. PromisedState(r) = PromisedState(exec[e]) => StateOf' = StateOf
  BY <1>4 DEF StateOf
<1> QED BY <1>2, <1>3, <1>4, <1>5, <1>6, <1>7 DEF AskedOf, PassedOf, StateOf

\* The variables of the promise at one call.
LEMMA PromiseFacts ==
  ASSUME NEW e \in Execs
  PROVE  /\ AskedOf[e].validated = Validated[exec[e].cmd]
         /\ AskedOf[e].skip_gate = exec[e].skip_gate
         /\ PassedOf[e] = (exec[e].gate = "approved")
         /\ StateOf[e] = PromisedState(exec[e])
BY DEF AskedOf, PassedOf, StateOf, Request

\* The state of the promise, case by case.
LEMMA StateCases ==
  ASSUME NEW r \in ExecRecord
  PROVE  /\ r.pc \in {"idle", "raised"} => PromisedState(r) = "idle"
         /\ r.pc = "lost" => PromisedState(r) = "lost"
         /\ r.pc = "done" => PromisedState(r) = Outcome(r)
         /\ r.pc \in {"gate", "spawning", "running", "killed"} /\ r.spawned =>
              PromisedState(r) = "started"
         /\ r.pc \in {"gate", "spawning", "running", "killed"} /\ ~r.spawned =>
              PromisedState(r) = "open"
<1>1. CASE r.pc \in {"idle", "raised", "lost"}
  BY <1>1 DEF PromisedState
<1>2. CASE r.pc = "done"
  BY <1>2 DEF PromisedState
<1>3. CASE r.pc \in {"gate", "spawning", "running", "killed"} /\ r.spawned
  BY <1>3 DEF PromisedState
<1>4. CASE r.pc \in {"gate", "spawning", "running", "killed"} /\ ~r.spawned
  BY <1>4 DEF PromisedState
<1>5. r.pc \in {"idle", "gate", "spawning", "running", "killed", "done", "raised", "lost"}
  BY DEF ExecRecord
<1> QED BY <1>1, <1>2, <1>3, <1>4, <1>5

MayRunOf(e) == AskedOf[e].validated = "none" \/ AskedOf[e].skip_gate \/ PassedOf[e]

\* The steps of the promise, in these terms.
LEMMA AskIsPromised ==
  ASSUME NEW e \in Execs, NEW q \in [validated : Risks \cup {"denied"}, skip_gate : BOOLEAN],
         StateOf[e] = "idle", AskedOf' = [AskedOf EXCEPT ![e] = q], PassedOf' = PassedOf,
         StateOf' = [StateOf EXCEPT ![e] = IF q.validated = "denied" THEN "denied" ELSE "open"]
  PROVE  Promise!Next
<1>1. Promise!Ask(e, q)
  BY DEF Promise!Ask, AskedOf, PassedOf, StateOf, Request
<1> QED BY <1>1 DEF Promise!Next

\* The gate lets a command pass.
LEMMA PassIsPromised ==
  ASSUME NEW e \in Execs, StateOf[e] = "open", ~PassedOf[e], AskedOf[e].validated # "none",
         ~AskedOf[e].skip_gate, AskedOf' = AskedOf, PassedOf' = [PassedOf EXCEPT ![e] = TRUE],
         StateOf' = StateOf
  PROVE  Promise!Next
<1>1. Promise!Pass(e)
  BY DEF Promise!Pass, AskedOf, PassedOf, StateOf, Request
<1> QED BY <1>1 DEF Promise!Next

\* A command is started.
LEMMA StartIsPromised ==
  ASSUME NEW e \in Execs, StateOf[e] = "open", MayRunOf(e), AskedOf' = AskedOf,
         PassedOf' = PassedOf, StateOf' = [StateOf EXCEPT ![e] = "started"]
  PROVE  Promise!Next
<1>1. Promise!StartCommand(e)
  BY DEF Promise!StartCommand, Promise!MayRun, MayRunOf, AskedOf, PassedOf, StateOf, Request
<1> QED BY <1>1 DEF Promise!Next

\* An outcome is told.
LEMMA TellIsPromised ==
  ASSUME NEW e \in Execs, NEW o \in OutcomeKinds, StateOf[e] \in {"open", "started"},
         o \in OutcomesOf(AskedOf[e].validated, AskedOf[e].skip_gate, TRUE),
         Runs(o) <=> StateOf[e] = "started",
         o = "unstarted" <=> StateOf[e] = "open" /\ MayRunOf(e),
         AskedOf' = AskedOf, PassedOf' = PassedOf, StateOf' = [StateOf EXCEPT ![e] = o]
  PROVE  Promise!Next
<1>1. Promise!Tell(e, o)
  BY DEF Promise!Tell, Promise!MayRun, Promise!OutcomesOf, Promise!Runs, OutcomesOf, Runs,
         MayRunOf, AskedOf, PassedOf, StateOf, Request
<1> QED BY <1>1 DEF Promise!Next, Promise!OutcomeKinds, OutcomeKinds

\* The server dies.
LEMMA LoseIsPromised ==
  ASSUME AskedOf' = AskedOf, PassedOf' = PassedOf,
         StateOf' = [e \in Execs |-> IF StateOf[e] \in {"open", "started"} THEN "lost"
                                                                          ELSE StateOf[e]]
  PROVE  Promise!Next
<1>1. Promise!Lose
  BY DEF Promise!Lose, AskedOf, PassedOf, StateOf, Request
<1> QED BY <1>1 DEF Promise!Next

\* A step that does not show.
LEMMA QuietIsPromised ==
  ASSUME AskedOf' = AskedOf, PassedOf' = PassedOf, StateOf' = StateOf
  PROVE  UNCHANGED Promise!vars
BY DEF Promise!vars, AskedOf, PassedOf, StateOf, Request

\* A request.
LEMMA BeginKeeps ==
  ASSUME IInv, NEW e \in Execs, NEW k \in Commands, NEW skip_gate \in BOOLEAN,
         Begin(e, k, skip_gate)
  PROVE  Promise!Next
<1> DEFINE q == [validated |-> Validated[k], skip_gate |-> skip_gate]
<1>0. exec[e] \in ExecRecord /\ exec[e].pc = "idle" /\ CallOK(exec[e], proc[e], e \in keys)
  BY CallFacts DEF Begin
<1>1. q \in [validated : Risks \cup {"denied"}, skip_gate : BOOLEAN] /\ q.validated = Validated[k]
  BY ExecutorAssumption DEF ExecutorAssumption
<1>2. StateOf[e] = "idle" /\ exec[e].gate = "" /\ ~exec[e].spawned
  BY <1>0, PromiseFacts, StateCases DEF CallOK
<1>3. CASE Validated[k] = "denied"
  <2> DEFINE r == [exec[e] EXCEPT !.pc = "done", !.cmd = k, !.skip_gate = skip_gate,
                                  !.result = [NoResult EXCEPT !.exit_code = "-1"]]
  <2>1. r.pc = "done" /\ r.cmd = k /\ r.skip_gate = skip_gate /\ r.gate = exec[e].gate
    BY <1>0 DEF ExecRecord
  <2>2. r \in ExecRecord
    <3>1. [NoResult EXCEPT !.exit_code = "-1"] \in ResultRecord
      BY DEF NoResult, ResultRecord
    <3> QED BY <1>0, <3>1 DEF ExecRecord
  <2>3. exec' = [exec EXCEPT ![e] = r]
    BY <1>3 DEF Begin
  <2> HIDE DEF r
  <2>4. Request(r) = q /\ PromisedState(r) = "denied"
    <3>1. Request(r) = q
      BY <2>1 DEF Request
    <3>2. PromisedState(r) = Outcome(r)
      BY <2>1, <2>2, StateCases
    <3>3. Outcome(r) = "denied"
      BY <1>3, <2>1 DEF Outcome
    <3> QED BY <3>1, <3>2, <3>3
  <2> HIDE DEF q
  <2>5. AskedOf' = [AskedOf EXCEPT ![e] = q] /\ PassedOf' = PassedOf
        /\ StateOf' = [StateOf EXCEPT ![e] = "denied"]
    <3>1. /\ AskedOf' = [AskedOf EXCEPT ![e] = Request(r)]
          /\ StateOf' = [StateOf EXCEPT ![e] = PromisedState(r)]
          /\ PassedOf' = PassedOf
      BY <2>1, <2>3, PromiseMove
    <3> QED BY <2>4, <3>1
  <2> QED BY <1>1, <1>2, <1>3, <2>5, AskIsPromised
<1>4. CASE Validated[k] # "denied"
  <2> DEFINE r == [exec[e] EXCEPT !.pc = IF Reviews(Validated[k], skip_gate)
                                         THEN "gate" ELSE "spawning",
                                  !.cmd = k, !.skip_gate = skip_gate]
  <2>1. r \in ExecRecord /\ r.cmd = k /\ r.skip_gate = skip_gate /\ r.gate = exec[e].gate
        /\ r.spawned = exec[e].spawned /\ r.pc \in {"gate", "spawning"}
    BY <1>0 DEF ExecRecord
  <2>2. exec' = [exec EXCEPT ![e] = r]
    BY <1>4 DEF Begin
  <2> HIDE DEF r
  <2>3. Request(r) = q /\ PromisedState(r) = "open"
    <3>1. Request(r) = q
      BY <2>1 DEF Request
    <3>2. ~r.spawned /\ r.pc \in {"gate", "spawning", "running", "killed"}
      BY <1>2, <2>1
    <3>3. PromisedState(r) = "open"
      BY <2>1, <3>2, StateCases
    <3> QED BY <3>1, <3>3
  <2> HIDE DEF q
  <2>4. AskedOf' = [AskedOf EXCEPT ![e] = q] /\ PassedOf' = PassedOf
        /\ StateOf' = [StateOf EXCEPT ![e] = "open"]
    <3>1. /\ AskedOf' = [AskedOf EXCEPT ![e] = Request(r)]
          /\ StateOf' = [StateOf EXCEPT ![e] = PromisedState(r)]
          /\ PassedOf' = PassedOf
      BY <2>1, <2>2, PromiseMove
    <3> QED BY <2>3, <3>1
  <2> QED BY <1>1, <1>2, <1>4, <2>4, AskIsPromised
<1> QED BY <1>3, <1>4

\* A call that is not made does not show.
LEMMA BuildFailsKeeps ==
  ASSUME IInv, NEW e \in Execs, NEW k \in Commands, BuildFails(e, k)
  PROVE  UNCHANGED Promise!vars
<1> DEFINE r == [exec[e] EXCEPT !.pc = "raised"]
<1>0. exec[e] \in ExecRecord /\ exec[e].pc = "idle"
  BY CallFacts DEF BuildFails
<1>1. r \in ExecRecord /\ r.cmd = exec[e].cmd /\ r.skip_gate = exec[e].skip_gate
      /\ r.gate = exec[e].gate /\ r.pc = "raised"
  BY <1>0 DEF ExecRecord
<1>2. exec' = [exec EXCEPT ![e] = r]
  BY DEF BuildFails
<1> HIDE DEF r
<1>3. PromisedState(r) = PromisedState(exec[e])
  BY <1>0, <1>1, StateCases
<1>4. Request(r) = Request(exec[e])
  BY <1>1 DEF Request
<1> QED BY <1>1, <1>2, <1>3, <1>4, PromiseMove, QuietIsPromised

\* A call that ends with an answer: its outcome is one that may be told.
LEMMA TellKeeps ==
  ASSUME IInv, NEW e \in Execs, NEW r \in ExecRecord, exec' = [exec EXCEPT ![e] = r],
         exec[e].pc \in {"gate", "spawning", "running", "killed"}, r.pc = "done",
         r.cmd = exec[e].cmd, r.skip_gate = exec[e].skip_gate,
         r.gate = "approved" <=> exec[e].gate = "approved",
         Outcome(r) \in OutcomesOf(Validated[r.cmd], r.skip_gate, TRUE),
         Runs(Outcome(r)) <=> exec[e].spawned,
         Outcome(r) = "unstarted" <=>
           ~exec[e].spawned /\ (Validated[r.cmd] = "none" \/ r.skip_gate \/ r.gate = "approved")
  PROVE  Promise!Next
<1>0. exec[e] \in ExecRecord
  BY CallFacts
<1>1. StateOf[e] = IF exec[e].spawned THEN "started" ELSE "open"
  BY <1>0, PromiseFacts, StateCases
<1>2. AskedOf' = AskedOf
  BY PromiseMove DEF Request
<1>3. PassedOf' = PassedOf
  <2>1. PassedOf' = [PassedOf EXCEPT ![e] = PassedOf[e]]
    <3>1. PassedOf' = [PassedOf EXCEPT ![e] = (r.gate = "approved")]
      BY PromiseMove
    <3>2. (r.gate = "approved") = (exec[e].gate = "approved")
      OBVIOUS
    <3>3. PassedOf[e] = (exec[e].gate = "approved")
      BY PromiseFacts
    <3> QED BY <3>1, <3>2, <3>3
  <2> QED BY <2>1 DEF PassedOf
<1>4. StateOf' = [StateOf EXCEPT ![e] = Outcome(r)]
  <2>1. PromisedState(r) = Outcome(r)
    BY StateCases
  <2>2. StateOf' = [StateOf EXCEPT ![e] = PromisedState(r)]
    BY PromiseMove
  <2> QED BY <2>1, <2>2
<1>5. Outcome(r) \in OutcomeKinds
  BY DEF OutcomesOf, OutcomeKinds
<1>6. /\ Outcome(r) \in OutcomesOf(AskedOf[e].validated, AskedOf[e].skip_gate, TRUE)
      /\ Runs(Outcome(r)) <=> StateOf[e] = "started"
      /\ Outcome(r) = "unstarted" <=> StateOf[e] = "open" /\ MayRunOf(e)
  BY <1>1, PromiseFacts DEF MayRunOf
<1> QED BY <1>1, <1>2, <1>3, <1>4, <1>5, <1>6, TellIsPromised

\* The gate's answer.
LEMMA GateKeeps ==
  ASSUME IInv, NEW e \in Execs, GateAnswers(e)
  PROVE  Promise!Next
<1>0. exec[e] \in ExecRecord /\ exec[e].pc = "gate" /\ CallOK(exec[e], proc[e], e \in keys)
  BY CallFacts DEF GateAnswers
<1>1. Validated[exec[e].cmd] \in {"elevated", "critical"} /\ ~exec[e].skip_gate
      /\ exec[e].gate = "" /\ ~exec[e].spawned
  BY <1>0 DEF CallOK, Reviews
<1>2. CASE exec' = [exec EXCEPT ![e].pc = "spawning", ![e].gate = "approved"]
  <2> DEFINE r == [exec[e] EXCEPT !.pc = "spawning", !.gate = "approved"]
  <2>1. r \in ExecRecord /\ r.cmd = exec[e].cmd /\ r.skip_gate = exec[e].skip_gate
        /\ r.gate = "approved" /\ r.spawned = exec[e].spawned /\ r.pc = "spawning"
    BY <1>0 DEF ExecRecord
  <2>2. exec' = [exec EXCEPT ![e] = r]
    BY <1>2
  <2> HIDE DEF r
  <2>3. PromisedState(r) = "open" /\ StateOf[e] = "open"
    BY <1>0, <1>1, <2>1, StateCases, PromiseFacts
  <2>4. AskedOf' = AskedOf /\ StateOf' = StateOf
    <3>1. Request(r) = Request(exec[e]) /\ PromisedState(r) = PromisedState(exec[e])
      BY <2>1, <2>3, PromiseFacts DEF Request
    <3> QED BY <2>2, <3>1, PromiseMove
  <2>5. PassedOf' = [PassedOf EXCEPT ![e] = TRUE]
    <3>1. PassedOf' = [PassedOf EXCEPT ![e] = (r.gate = "approved")]
      BY <2>2, PromiseMove
    <3>2. (r.gate = "approved") = TRUE
      BY <2>1
    <3> QED BY <3>1, <3>2
  <2>6. ~PassedOf[e] /\ AskedOf[e].validated # "none" /\ ~AskedOf[e].skip_gate
    BY <1>1, PromiseFacts
  <2> QED BY <2>3, <2>4, <2>5, <2>6, PassIsPromised
<1>3. ASSUME NEW decision \in {"rejected", "requires_hitl"},
             exec' = [exec EXCEPT ![e].pc = "done", ![e].gate = decision,
                                  ![e].result = Refusal(decision)]
      PROVE  Promise!Next
  <2> DEFINE r == [exec[e] EXCEPT !.pc = "done", !.gate = decision, !.result = Refusal(decision)]
  <2>1. Refusal(decision) \in ResultRecord
    BY <1>3 DEF Refusal, ResultRecord
  <2>2. r \in ExecRecord /\ r.cmd = exec[e].cmd /\ r.skip_gate = exec[e].skip_gate
        /\ r.gate = decision /\ r.pc = "done"
    BY <1>0, <2>1 DEF ExecRecord
  <2>3. exec' = [exec EXCEPT ![e] = r]
    BY <1>3
  <2> HIDE DEF r
  <2>4. Outcome(r) = decision
    BY <1>1, <2>2 DEF Outcome
  <2>5. Outcome(r) \in OutcomesOf(Validated[r.cmd], r.skip_gate, TRUE)
    BY <1>1, <2>2, <2>4 DEF OutcomesOf
  <2>6. ~Runs(Outcome(r)) /\ Outcome(r) # "unstarted" /\ r.gate # "approved"
    BY <2>2, <2>4 DEF Runs
  <2> QED BY <1>0, <1>1, <2>2, <2>3, <2>5, <2>6, TellKeeps
<1> QED BY <1>2, <1>3 DEF GateAnswers

\* A command is started only if it may run.
LEMMA SpawnKeeps ==
  ASSUME IInv, NEW e \in Execs, Spawn(e)
  PROVE  Promise!Next
<1> DEFINE r == [exec[e] EXCEPT !.pc = "running", !.spawned = TRUE]
<1>0. exec[e] \in ExecRecord /\ exec[e].pc = "spawning" /\ CallOK(exec[e], proc[e], e \in keys)
  BY CallFacts DEF Spawn
<1>1. r \in ExecRecord /\ r.cmd = exec[e].cmd /\ r.skip_gate = exec[e].skip_gate
      /\ r.gate = exec[e].gate /\ r.spawned /\ r.pc = "running"
  BY <1>0 DEF ExecRecord
<1>2. exec' = [exec EXCEPT ![e] = r]
  BY DEF Spawn
<1> HIDE DEF r
<1>3. Cleared(exec[e]) /\ ~exec[e].spawned
  BY <1>0 DEF CallOK
<1>4. StateOf[e] = "open" /\ PromisedState(r) = "started"
  BY <1>0, <1>1, <1>3, StateCases, PromiseFacts
<1>5. AskedOf' = AskedOf /\ PassedOf' = PassedOf
  BY <1>1, <1>2, PromiseMove DEF Request
<1>6. StateOf' = [StateOf EXCEPT ![e] = "started"]
  <2>1. StateOf' = [StateOf EXCEPT ![e] = PromisedState(r)]
    BY <1>2, PromiseMove
  <2> QED BY <1>4, <2>1
<1>7. MayRunOf(e)
  <2>1. Validated[exec[e].cmd] \in Risks \cup {"denied"}
    BY <1>0, ExecutorAssumption DEF ExecutorAssumption, ExecRecord
  <2> QED BY <1>3, <2>1, PromiseFacts DEF Cleared, Reviews, MayRunOf
<1> QED BY <1>4, <1>5, <1>6, <1>7, StartIsPromised

\* A call that ends with result, its gate's answer as it was.
LEMMA EndKeeps ==
  ASSUME IInv, NEW e \in Execs, exec[e].pc \in {"spawning", "running", "killed"},
         NEW result \in ResultRecord, Finish(e, result)
  PROVE  Promise!Next
<1> DEFINE r == [exec[e] EXCEPT !.pc = "done", !.result = result]
<1>0. exec[e] \in ExecRecord /\ CallOK(exec[e], proc[e], e \in keys)
  BY CallFacts
<1>1. r \in ExecRecord /\ r.cmd = exec[e].cmd /\ r.skip_gate = exec[e].skip_gate
      /\ r.gate = exec[e].gate /\ r.spawned = exec[e].spawned /\ r.pc = "done"
  BY <1>0 DEF ExecRecord
<1>2. exec' = [exec EXCEPT ![e] = r]
  BY DEF Finish
<1> HIDE DEF r
<1>3. Cleared(exec[e])
  BY <1>0 DEF CallOK
<1>4. Validated[exec[e].cmd] \in Risks
  BY <1>0, <1>3, ExecutorAssumption DEF ExecutorAssumption, ExecRecord, Cleared
<1>5. Validated[r.cmd] = "none" \/ r.skip_gate \/ r.gate = "approved"
  BY <1>1, <1>3, <1>4 DEF Cleared, Reviews
<1>6. CASE exec[e].spawned
  <2>1. Outcome(r) \in {"ran", "quit"}
    BY <1>1, <1>3, <1>6 DEF Outcome, Cleared
  <2>2. Outcome(r) \in OutcomesOf(Validated[r.cmd], r.skip_gate, TRUE)
    BY <1>1, <1>4, <2>1 DEF OutcomesOf
  <2>3. Runs(Outcome(r)) /\ Outcome(r) # "unstarted"
    BY <2>1 DEF Runs
  <2> QED BY <1>0, <1>1, <1>2, <1>6, <2>2, <2>3, TellKeeps
<1>7. CASE ~exec[e].spawned
  <2>1. Outcome(r) = "unstarted"
    BY <1>1, <1>3, <1>7 DEF Outcome, Cleared
  <2>2. Outcome(r) \in OutcomesOf(Validated[r.cmd], r.skip_gate, TRUE)
    BY <1>1, <1>4, <2>1 DEF OutcomesOf
  <2>3. ~Runs(Outcome(r))
    BY <2>1 DEF Runs
  <2> QED BY <1>0, <1>1, <1>2, <1>5, <1>7, <2>1, <2>2, <2>3, TellKeeps
<1> QED BY <1>6, <1>7

\* The ends of SpawnFails, Collect, KillFails and Reap.
LEMMA EndsKeep ==
  ASSUME IInv, NEW e \in Execs, SpawnFails(e) \/ Collect(e) \/ KillFails(e) \/ Reap(e)
  PROVE  Promise!Next
<1>1. CASE SpawnFails(e)
  <2>1. PICK exit_code \in {"127", "-1"} :
          Finish(e, [exit_code |-> exit_code, validated_by |-> "blocklist_pass",
                     gate_invoked |-> FALSE, gate_decision |-> ""])
    BY <1>1 DEF SpawnFails
  <2>2. [exit_code |-> exit_code, validated_by |-> "blocklist_pass",
         gate_invoked |-> FALSE, gate_decision |-> ""] \in ResultRecord
    BY DEF ResultRecord
  <2> QED BY <1>1, <2>1, <2>2, EndKeeps DEF SpawnFails
<1>2. CASE Collect(e)
  <2> DEFINE result == [exit_code |-> code[e],
                        validated_by |-> IF GateWasInvoked(e) THEN "security_gate_approved"
                                                              ELSE "blocklist_pass",
                        gate_invoked |-> GateWasInvoked(e),
                        gate_decision |-> IF GateWasInvoked(e) THEN "approved" ELSE ""]
  <2>1. result \in ResultRecord
    <3>1. code[e] \in ExitCodes /\ GateWasInvoked(e) \in BOOLEAN
      BY CallFacts DEF GateWasInvoked
    <3> QED BY <3>1 DEF ResultRecord
  <2>2. exec[e].pc \in {"spawning", "running", "killed"} /\ Finish(e, result)
    BY <1>2 DEF Collect
  <2> HIDE DEF result
  <2> QED BY <2>1, <2>2, EndKeeps
<1>3. CASE Reap(e)
  <2> DEFINE result == [exit_code |-> "None",
                        validated_by |-> IF Risk(e) = "none" THEN "blocklist_pass"
                                                             ELSE "security_gate_approved",
                        gate_invoked |-> GateWasInvoked(e),
                        gate_decision |-> IF GateWasInvoked(e) THEN "approved" ELSE ""]
  <2>1. result \in ResultRecord
    <3>1. GateWasInvoked(e) \in BOOLEAN
      BY DEF GateWasInvoked
    <3> QED BY <3>1 DEF ResultRecord
  <2>2. exec[e].pc \in {"spawning", "running", "killed"} /\ Finish(e, result)
    BY <1>3 DEF Reap
  <2> HIDE DEF result
  <2> QED BY <2>1, <2>2, EndKeeps
<1>4. CASE KillFails(e)
  <2> DEFINE result == [exit_code |-> "-1", validated_by |-> "blocklist_pass",
                        gate_invoked |-> FALSE, gate_decision |-> ""]
  <2>1. result \in ResultRecord
    BY DEF ResultRecord
  <2>2. exec[e].pc \in {"spawning", "running", "killed"} /\ Finish(e, result)
    BY <1>4 DEF KillFails, Expired
  <2> HIDE DEF result
  <2> QED BY <2>1, <2>2, EndKeeps
<1> QED BY <1>1, <1>2, <1>3, <1>4

\* A timeout does not show: the call is still started.
LEMMA TimeoutKeeps ==
  ASSUME IInv, NEW e \in Execs, Timeout(e)
  PROVE  UNCHANGED Promise!vars
<1> DEFINE r == [exec[e] EXCEPT !.pc = "killed"]
<1>0. exec[e] \in ExecRecord /\ exec[e].pc = "running" /\ CallOK(exec[e], proc[e], e \in keys)
  BY CallFacts DEF Timeout, Expired
<1>1. r \in ExecRecord /\ r.cmd = exec[e].cmd /\ r.skip_gate = exec[e].skip_gate
      /\ r.gate = exec[e].gate /\ r.spawned = exec[e].spawned /\ r.pc = "killed"
  BY <1>0 DEF ExecRecord
<1>2. exec' = [exec EXCEPT ![e] = r]
  BY DEF Timeout
<1> HIDE DEF r
<1>3. exec[e].spawned
  BY <1>0 DEF CallOK
<1>4. PromisedState(r) = PromisedState(exec[e])
  BY <1>0, <1>1, <1>3, StateCases
<1>5. Request(r) = Request(exec[e])
  BY <1>1 DEF Request
<1> QED BY <1>1, <1>2, <1>4, <1>5, PromiseMove, QuietIsPromised

\* A step that leaves the calls alone does not show.
LEMMA SameCalls ==
  ASSUME exec' = exec
  PROVE  UNCHANGED Promise!vars
<1>1. AskedOf' = AskedOf /\ PassedOf' = PassedOf /\ StateOf' = StateOf
  BY DEF AskedOf, PassedOf, StateOf, Request, PromisedState, Outcome
<1> QED BY <1>1, QuietIsPromised

\* A crash loses the calls under way and no others.
LEMMA CrashKeeps == IInv /\ Crash => Promise!Next
<1> SUFFICES ASSUME IInv, Crash PROVE Promise!Next
  OBVIOUS
<1>1. exec' = [e \in Execs |-> IF InFlight(e) THEN [exec[e] EXCEPT !.pc = "lost"] ELSE exec[e]]
  BY DEF Crash
<1>2. ASSUME NEW e \in Execs
      PROVE  /\ Request(exec'[e]) = Request(exec[e])
             /\ (exec'[e].gate = "approved") = (exec[e].gate = "approved")
             /\ PromisedState(exec'[e]) = IF StateOf[e] \in {"open", "started"} THEN "lost"
                                                                              ELSE StateOf[e]
  <2>0. exec[e] \in ExecRecord /\ CallOK(exec[e], proc[e], e \in keys)
    BY CallFacts
  <2>1. StateOf[e] = PromisedState(exec[e])
    BY PromiseFacts
  <2>2. CASE InFlight(e)
    <3> DEFINE r == [exec[e] EXCEPT !.pc = "lost"]
    <3>1. r \in ExecRecord /\ r.cmd = exec[e].cmd /\ r.skip_gate = exec[e].skip_gate
          /\ r.gate = exec[e].gate /\ r.pc = "lost"
      BY <2>0 DEF ExecRecord
    <3>2. exec'[e] = r
      BY <1>1, <2>2
    <3> HIDE DEF r
    <3>3. StateOf[e] \in {"open", "started"}
      BY <2>0, <2>1, <2>2, StateCases DEF InFlight
    <3>4. PromisedState(r) = "lost"
      BY <3>1, StateCases
    <3> QED BY <3>1, <3>2, <3>3, <3>4 DEF Request
  <2>3. CASE ~InFlight(e)
    <3>1. exec'[e] = exec[e]
      BY <1>1, <2>3
    <3>2. exec[e].pc \in {"idle", "done", "raised", "lost"}
      BY <2>0, <2>3 DEF InFlight, ExecRecord
    <3>3. exec[e].pc = "done" => Outcome(exec[e]) \notin {"open", "started"}
      BY <2>0 DEF Outcome
    <3>4. StateOf[e] \notin {"open", "started"}
      BY <2>0, <2>1, <3>2, <3>3, StateCases
    <3> QED BY <2>1, <3>1, <3>4
  <2> QED BY <2>2, <2>3
<1>3. AskedOf' = AskedOf
  BY <1>2 DEF AskedOf
<1>4. PassedOf' = PassedOf
  BY <1>2 DEF PassedOf
<1>5. StateOf' = [e \in Execs |-> IF StateOf[e] \in {"open", "started"} THEN "lost"
                                                                      ELSE StateOf[e]]
  <2>1. StateOf' = [e \in Execs |-> PromisedState(exec'[e])]
    BY DEF StateOf
  <2> QED BY <1>2, <2>1
<1> QED BY <1>3, <1>4, <1>5, LoseIsPromised

\* Every step is a step of the promise, or does not show.
LEMMA NextKeeps == IInv /\ [Next]_vars => [Promise!Next]_(Promise!vars)
<1> SUFFICES ASSUME IInv, [Next]_vars PROVE Promise!Next \/ UNCHANGED Promise!vars
  OBVIOUS
<1>1. CASE \E e \in Execs, k \in Commands, skip_gate \in BOOLEAN : Begin(e, k, skip_gate)
  BY <1>1, BeginKeeps
<1>2. CASE \E e \in Execs : Step(e)
  BY <1>2, GateKeeps, SpawnKeeps, EndsKeep, TimeoutKeeps DEF Step
<1>3. CASE \E e \in Execs : LogIn(e) \/ LoginFails(e) \/ StartLoggedIn(e) \/ Exit(e) \/ ChildGoes(e)
  <2>1. exec' = exec
    BY <1>3 DEF LogIn, LoginFails, StartLoggedIn, Exit, ChildGoes
  <2> QED BY <2>1, SameCalls
<1>4. CASE Crash
  BY <1>4, CrashKeeps
<1>5. CASE UNCHANGED vars
  BY <1>5, SameCalls DEF vars
<1>6. CASE \E e \in Execs, k \in Commands : BuildFails(e, k)
  BY <1>6, BuildFailsKeeps
<1> QED BY <1>1, <1>2, <1>3, <1>4, <1>5, <1>6 DEF Next

\* The initial states are initial states of the promise.
LEMMA InitKeeps == Init => Promise!Init
<1> SUFFICES ASSUME Init PROVE Promise!Init
  OBVIOUS
<1> USE ExecutorAssumption DEF ExecutorAssumption
<1> DEFINE any == CHOOSE k \in Commands : TRUE
<1>1. any \in Commands /\ Validated[any] \in Risks \cup {"denied"}
  OBVIOUS
<1>2. \A e \in Execs : exec[e].pc = "idle" /\ exec[e].gate = "" /\ exec[e].cmd = any
                      /\ exec[e].skip_gate = FALSE
  BY DEF Init
<1> HIDE DEF any
<1>3. AskedOf \in [Execs -> [validated : Risks \cup {"denied"}, skip_gate : BOOLEAN]]
  BY <1>1, <1>2 DEF AskedOf, Request
<1>4. PassedOf = [e \in Execs |-> FALSE]
  BY <1>2 DEF PassedOf
<1>5. StateOf = [e \in Execs |-> "idle"]
  <2>1. \A e \in Execs : PromisedState(exec[e]) = "idle"
    BY <1>2 DEF PromisedState
  <2> QED BY <2>1 DEF StateOf
<1> QED BY <1>3, <1>4, <1>5 DEF Promise!Init, AskedOf, PassedOf, StateOf, Request

\* execute implements CommandPromise: a command is started once at most, only validated, and
\* with a risk only after the gate let it pass or where it was to be skipped; the caller is
\* told what became of it.
THEOREM Implements == Spec => KeepsPromise
BY InitKeeps, NextKeeps, Inductive, PTL DEF Spec, KeepsPromise, Promise!Spec

=============================================================================
