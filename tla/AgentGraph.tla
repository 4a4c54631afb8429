----------------------------- MODULE AgentGraph -----------------------------
(***************************************************************************)
(* The orchestration core of the VCE: the two HTTP handlers that start and *)
(* resume an analysis (api/routes/analyze.py) and the LangGraph state      *)
(* machine they drive (agents/graph.py and the node functions), over the   *)
(* per-session checkpoints of AsyncSqliteSaver.                            *)
(*                                                                         *)
(* A call is one HTTP request.  Between two awaits a call runs alone (one  *)
(* asyncio loop); calls interleave at awaits.  Every call works on its own *)
(* copy of the agent state (call[c].st) and saves it in the checkpoint of  *)
(* its session when a node returns; the last save wins.                    *)
(*                                                                         *)
(* What the language models answer is chosen with \E.  Texts are           *)
(* abstracted to the set of requests whose data went into them.            *)
(***************************************************************************)
EXTENDS Naturals, FiniteSets, CommandOutcomes

CONSTANTS
  Sessions,              \* session ids (= LangGraph thread ids)
  Agents,                \* the specialist nodes of the graph
  Commands,              \* commands the agents' models may ask for
  Validated,             \* Validated[a][k]: what validate_command answers agent a for k
  Intents,               \* what the intent model may answer
  router_max_iterations, \* config.py
  cmd_enabled,           \* config.py
  cmd_max_iterations,    \* config.py
  cmd_max_per_session,   \* config.py
  Decisions,             \* the values of "approved" the users send
  Faults,                \* the failures that may happen
  Overlap,               \* may two calls be in flight on one session?
  MaxCalls,              \* bound: HTTP requests
  MaxTickets,            \* bound: commands flagged for approval
  MaxCrashes             \* bound: process crashes

Calls   == 1 .. MaxCalls
Tickets == 1 .. MaxTickets
None    == 0             \* no request, no ticket
Risks   == {"none", "elevated", "critical"}
FaultKinds == {"embedding", "empty_query", "intent_llm", "router_parse", "agent_llm",
               "review_llm", "raise", "sigquit"}

ASSUME ConstantsAssumption ==
  /\ Sessions # {} /\ Agents # {} /\ Commands # {}
  /\ Validated \in [Agents -> [Commands -> Risks \cup {"denied"}]]
  /\ Agents \cap {"intent_analyzer", "router", "human_approval", "security_review",
                  "unused", "embedding", "loading", "resuming", "react", "ended",
                  "persisting", "start", "end", "requires_approval", "completed",
                  "failed", "http_500", "lost"} = {}
  /\ Intents \subseteq {"CONTINUATION", "NEW_TOPIC", "IRRELEVANT", "AMBIGUOUS"}
  /\ router_max_iterations \in Nat \ {0}
  /\ cmd_enabled \in BOOLEAN
  /\ cmd_max_iterations \in Nat \ {0}
  /\ cmd_max_per_session \in Nat \ {0}
  /\ Decisions \subseteq BOOLEAN
  /\ Faults \subseteq FaultKinds
  /\ Overlap \in BOOLEAN
  /\ MaxCalls \in Nat /\ MaxTickets \in Nat /\ MaxCrashes \in Nat

VARIABLES
  status,   \* status[s]: the row of the sessions table
  thread,   \* thread[s]: the checkpoint: the next node and the saved agent state
  call,     \* call[c]: one HTTP request
  ticket,   \* history: the commands flagged for approval and what became of them
  issued,   \* number of tickets issued
  unattended, \* history: risk signals of commands run that no human was asked about
  crashes   \* number of crashes

vars == <<status, thread, call, ticket, issued, unattended, crashes>>

-----------------------------------------------------------------------------
(***************************************************************************)
(* State.                                                                  *)
(***************************************************************************)
Reqs  == Calls \cup {None}
Nodes == {"intent_analyzer", "router", "human_approval", "security_review"} \cup Agents

\* AgentState, the fields control depends on.  "cleared" is a history field: the
\* intent analyzer reset the transient fields for this request.  The analyses, the log of
\* commands and the final output are the sets of requests whose data they carry.
AgentState ==
  [ request_id        : Reqs,
    user_query        : BOOLEAN,         \* is there one?  (it may be empty)
    intent_status     : {"", "CONTINUATION", "NEW_TOPIC", "IRRELEVANT"},
    error             : Reqs,            \* the request that set it, None if unset
    analysis          : [Agents -> SUBSET Calls],
    command_log       : SUBSET Calls,
    final_by          : Reqs,            \* the request whose review wrote final_output
    final_of          : SUBSET Calls,
    router_iterations : Nat,
    command_count     : Nat,
    hitl_pending      : BOOLEAN,
    hitl_command      : Tickets \cup {None},
    cleared           : BOOLEAN ]

EmptyState ==
  [ request_id |-> None, user_query |-> FALSE, intent_status |-> "", error |-> None,
    analysis |-> [a \in Agents |-> {}], command_log |-> {}, final_by |-> None,
    final_of |-> {}, router_iterations |-> 0, command_count |-> 0, hitl_pending |-> FALSE,
    hitl_command |-> None, cleared |-> FALSE ]

Statuses  == {"none", "analyzing", "completed", "failed"}
Answers   == {"requires_approval", "completed", "failed", "http_500", "lost"}
CallSteps == {"unused", "embedding", "loading", "resuming", "react", "ended", "persisting"}
               \cup Nodes \cup Answers

CallRecord ==
  [ pc : CallSteps, kind : {"analyze", "approve"}, sess : Sessions, st : AgentState,
    who : Agents, iteration : Nat, count : Nat ]

\* by: the request that put the command up; turns: those in whose turn an agent took it up;
\* execs: how often it was run since; cuts: how many of these runs' agents never returned.
TicketRecord ==
  [ sess : Sessions, cmd : Commands, gate : OutcomeKinds, by : Reqs,
    decided : SUBSET BOOLEAN, turns : SUBSET Reqs, execs : Nat, cuts : Nat ]

\* A call that is not running keeps nothing but where it ended.
Resting(pc) ==
  [ pc |-> pc, kind |-> "analyze", sess |-> CHOOSE s \in Sessions : TRUE,
    st |-> EmptyState, who |-> CHOOSE a \in Agents : TRUE, iteration |-> 0, count |-> 0 ]

Idle(c)     == call[c].pc \in {"unused"} \cup Answers
InFlight(c) == ~Idle(c)

\* Calls and tickets are numbered in the order they appear.
NextCall(c) == call[c].pc = "unused" /\ \A d \in 1 .. (c - 1) : call[d].pc # "unused"

MayStart(c, s) ==
  /\ NextCall(c)
  /\ Overlap \/ \A d \in Calls : InFlight(d) => call[d].sess # s

Init ==
  /\ status = [s \in Sessions |-> "none"]
  /\ thread = [s \in Sessions |-> [next |-> "start", st |-> EmptyState]]
  /\ call   = [c \in Calls |-> Resting("unused")]
  /\ ticket = [p \in Tickets |->
                 [sess |-> CHOOSE s \in Sessions : TRUE, cmd |-> CHOOSE k \in Commands : TRUE,
                  gate |-> "requires_hitl", by |-> None, decided |-> {}, turns |-> {},
                  execs |-> 0, cuts |-> 0]]
  /\ issued = 0
  /\ unattended = {}
  /\ crashes = 0

-----------------------------------------------------------------------------
(***************************************************************************)
(* Steps every node shares (LangGraph): a node that returns saves the next *)
(* node and the state it returned; END ends the run; a run that is routed  *)
(* to human_approval stops before it (interrupt_before).                   *)
(***************************************************************************)
\* Mutant: the graph is compiled without interrupt_before.
InterruptsNowhere(node) == FALSE

Interrupts(node) == node = "human_approval"

Return(c, next, st) ==
  /\ thread' = [thread EXCEPT ![call[c].sess] = [next |-> next, st |-> st]]
  /\ call' = [call EXCEPT ![c].st = st,
                          ![c].pc = IF next = "end" \/ Interrupts(next) THEN "ended" ELSE next,
                          ![c].iteration = 0, ![c].count = 0]

Answer(c, pc) == call' = [call EXCEPT ![c] = Resting(pc)]

History == <<ticket, issued, unattended>>

\* The agents of these calls will not return: what a waiting command did is not saved.
CutOff(calls) ==
  ticket' = [p \in Tickets |->
               IF \E c \in calls : call[c].pc = "react" /\ call[c].st.hitl_command = p
               THEN [ticket[p] EXCEPT !.cuts = ticket[p].execs] ELSE ticket[p]]

\* An exception a node does not catch: the run stops, its checkpoint stays at the node, also
\* when the agent was in its loop and had run commands (an answer whose "command" is null, a
\* credential whose JSON is no object, an audit record that cannot be written).
\* analyze_query marks the session failed, approve_hitl does not.
Raise(c) ==
  /\ "raise" \in Faults
  /\ call[c].pc \in {"loading", "resuming", "intent_analyzer", "router", "react",
                     "security_review"} \cup Agents
  /\ status' = IF call[c].kind = "analyze"
               THEN [status EXCEPT ![call[c].sess] = "failed"] ELSE status
  /\ Answer(c, "http_500")
  /\ CutOff({c})
  /\ UNCHANGED <<thread, issued, unattended, crashes>>

-----------------------------------------------------------------------------
(***************************************************************************)
(* analyze_query: everything up to the await of the embedding, the         *)
(* embedding, then the graph on the session's thread.                      *)
(***************************************************************************)
Submit(c, s) ==
  /\ MayStart(c, s)
  /\ status' = [status EXCEPT ![s] = "analyzing"]
  /\ call' = [call EXCEPT ![c].pc = "embedding", ![c].kind = "analyze", ![c].sess = s]
  /\ UNCHANGED <<thread, History, crashes>>

\* The embedding is awaited outside the try: its failure leaves the session analyzing.
EmbedQuery(c) ==
  /\ call[c].pc = "embedding"
  /\ \/ call' = [call EXCEPT ![c].pc = "loading"]
     \/ "embedding" \in Faults /\ Answer(c, "http_500")
  /\ UNCHANGED <<status, thread, History, crashes>>

\* ainvoke with a new input restarts the thread at the entry node, whatever it was
\* waiting for, with the saved state plus the keys of the input.
StartGraph(c) ==
  /\ call[c].pc = "loading"
  /\ \E asks \in {TRUE} \cup (IF "empty_query" \in Faults THEN {FALSE} ELSE {}) :
       Return(c, "intent_analyzer",
              [thread[call[c].sess].st EXCEPT !.request_id = c, !.user_query = asks,
                                              !.cleared = FALSE])
  /\ UNCHANGED <<status, History, crashes>>

(***************************************************************************)
(* approve_hitl: whatever "approved" says, ainvoke(None) goes on where the *)
(* thread stopped.  The history records what the user said of the command  *)
(* that was waiting.                                                       *)
(***************************************************************************)
Approve(c, s, approved) ==
  /\ MayStart(c, s)
  /\ status[s] # "none"
  /\ call' = [call EXCEPT ![c].pc = "resuming", ![c].kind = "approve", ![c].sess = s]
  /\ ticket' = IF thread[s].next = "human_approval" /\ thread[s].st.hitl_command # None
               THEN [ticket EXCEPT ![thread[s].st.hitl_command].decided = @ \cup {approved}]
               ELSE ticket
  /\ UNCHANGED <<status, thread, issued, unattended, crashes>>

ResumeGraph(c) ==
  LET saved == thread[call[c].sess] IN
  /\ call[c].pc = "resuming"
  /\ IF saved.next = "start"
     THEN Answer(c, "http_500")
     ELSE call' = [call EXCEPT ![c].st = saved.st,
                               ![c].pc = IF saved.next = "end" THEN "ended" ELSE saved.next]
  /\ UNCHANGED <<status, thread, History, crashes>>

\* Mutant: the handler does not look at hitl_pending.
StatusOfPaused(st) == IF st.error # None THEN "failed" ELSE "completed"

StatusOf(st) ==
  IF st.hitl_pending THEN "analyzing" ELSE IF st.error # None THEN "failed" ELSE "completed"

\* The tail of both handlers: the session's status, then the final turn and its embedding.
Finish(c) ==
  LET st == call[c].st IN
  /\ call[c].pc = "ended"
  /\ status' = [status EXCEPT ![call[c].sess] = StatusOf(st)]
  /\ IF st.hitl_pending \/ st.final_by = None
     THEN Answer(c, IF st.hitl_pending THEN "requires_approval" ELSE StatusOf(st))
     ELSE call' = [call EXCEPT ![c].pc = "persisting"]
  /\ UNCHANGED <<thread, History, crashes>>

PersistFinal(c) ==
  /\ call[c].pc = "persisting"
  /\ \/ /\ Answer(c, IF call[c].st.error # None THEN "failed" ELSE "completed")
        /\ UNCHANGED status
     \/ /\ "embedding" \in Faults
        /\ status' = IF call[c].kind = "analyze"
                     THEN [status EXCEPT ![call[c].sess] = "failed"] ELSE status
        /\ Answer(c, "http_500")
  /\ UNCHANGED <<thread, History, crashes>>

-----------------------------------------------------------------------------
(***************************************************************************)
(* intent_analyzer.                                                        *)
(***************************************************************************)
\* Mutants: the analyses, or hitl_pending, are not reset.
KeepAnalyses(st) ==
  [st EXCEPT !.command_log = {}, !.final_by = None, !.final_of = {},
             !.router_iterations = 0, !.command_count = 0, !.hitl_pending = FALSE,
             !.cleared = TRUE]
KeepPending(st) ==
  [st EXCEPT !.analysis = [a \in Agents |-> {}], !.command_log = {}, !.final_by = None,
             !.final_of = {}, !.router_iterations = 0, !.command_count = 0, !.cleared = TRUE]

ClearTransient(st) ==
  [st EXCEPT !.analysis = [a \in Agents |-> {}], !.command_log = {}, !.final_by = None,
             !.final_of = {}, !.router_iterations = 0, !.command_count = 0,
             !.hitl_pending = FALSE, !.cleared = TRUE]

\* For the last two intents the node calls a method ShortTermMemory does not have; the
\* exception lands in its own handler, which answers NEW_TOPIC.
IntentStatus(intent) == IF intent \in {"IRRELEVANT", "AMBIGUOUS"} THEN "NEW_TOPIC" ELSE intent

\* _route_after_intent
RouteAfterIntent(st) == IF st.intent_status = "IRRELEVANT" THEN "security_review" ELSE "router"

\* A failed model call (or an unreadable answer) is also NEW_TOPIC, with nothing cleared, and
\* so is an empty query, about which the model is not asked.
AnalyzedState(st) ==
  LET kept == {[st EXCEPT !.intent_status = "NEW_TOPIC"]} IN
  IF ~st.user_query THEN kept
  ELSE {[ClearTransient(st) EXCEPT !.intent_status = IntentStatus(i)] : i \in Intents}
         \cup IF "intent_llm" \in Faults THEN kept ELSE {}

IntentAnalyzer(c) ==
  /\ call[c].pc = "intent_analyzer"
  /\ \E st \in AnalyzedState(call[c].st) : Return(c, RouteAfterIntent(st), st)
  /\ UNCHANGED <<status, History, crashes>>

(***************************************************************************)
(* router.                                                                 *)
(***************************************************************************)
\* Mutants: the "error" route is not mapped to END; the last iteration skips the review.
ErrorNotMapped(st, target) ==
  IF st.error # None THEN "error"
  ELSE IF st.router_iterations >= router_max_iterations THEN "security_review" ELSE target
EndAtTheLimit(st, target) ==
  IF st.error # None \/ st.router_iterations >= router_max_iterations THEN "end" ELSE target

\* _route_after_router: target is the delegate_to the node just stored.
RouteAfterRouter(st, target) ==
  IF st.error # None THEN "end"
  ELSE IF st.router_iterations >= router_max_iterations THEN "security_review"
  ELSE target

\* Mutant: the router does not count.
ForgetIteration(st) == st

\* The router's own count of its iterations, in the state it returns.
CountIteration(st) == [st EXCEPT !.router_iterations = @ + 1]

\* The model's delegate_to, overridden in the last iteration.  An answer that cannot be
\* parsed ends the loop without counting the iteration; an empty query is an error.
Router(c) ==
  LET st      == CountIteration(call[c].st)
      refused == [call[c].st EXCEPT !.error = call[c].st.request_id]
  IN
  /\ call[c].pc = "router"
  /\ \/ /\ call[c].st.user_query
        /\ \E target \in Agents \cup {"security_review"} :
             Return(c, RouteAfterRouter(st, IF st.router_iterations >= router_max_iterations
                                            THEN "security_review" ELSE target), st)
     \/ /\ call[c].st.user_query /\ "router_parse" \in Faults
        /\ Return(c, RouteAfterRouter(call[c].st, "security_review"), call[c].st)
     \/ /\ ~call[c].st.user_query
        /\ Return(c, RouteAfterRouter(refused, "security_review"), refused)
  /\ UNCHANGED <<status, History, crashes>>

(***************************************************************************)
(* The specialist agents.  Commands go through CommandExecutor.execute,    *)
(* here the possible outcomes of one command (module Executor has the      *)
(* details).                                                               *)
(***************************************************************************)
Outcomes(validated, skip_gate) == OutcomesOf(validated, skip_gate, "sigquit" \in Faults)

\* _route_after_agent
RouteAfterAgent(st) == IF st.hitl_pending THEN "human_approval" ELSE "router"

\* A command that waited for approval is run first, without the gate and without a look at
\* the limit, by whichever agent the router chose, which validates it by its own lists.  (One
\* that waits because it ended by SIGQUIT waits together with the login prefix of its
\* credential, if it had one, and then it is denied.)
ResumesCommand(st) == ~st.hitl_pending /\ st.hitl_command # None

RunApproved(a, p, req) ==
  \E outcome \in Outcomes(Validated[a][ticket[p].cmd], TRUE)
                 \cup (IF ticket[p].gate = "quit" THEN {"denied"} ELSE {}) :
    ticket' = [ticket EXCEPT ![p].turns = @ \cup {req},
                             ![p].execs = IF Runs(outcome) THEN @ + 1 ELSE @]

\* What it printed is logged (every way out of the agent saves the log), in whatever turn.
EnterAgent(c, a) ==
  LET st == call[c].st IN
  /\ call[c].pc = a
  /\ IF ResumesCommand(st)
     THEN /\ RunApproved(a, st.hitl_command, st.request_id)
          /\ call' = [call EXCEPT ![c].pc = "react", ![c].who = a, ![c].iteration = 1,
                                  ![c].count = st.command_count + 1,
                                  ![c].st.command_log = @ \cup {ticket[st.hitl_command].by}]
     ELSE /\ UNCHANGED ticket
          /\ call' = [call EXCEPT ![c].pc = "react", ![c].who = a, ![c].iteration = 1,
                                  ![c].count = st.command_count]
  /\ UNCHANGED <<status, thread, issued, unattended, crashes>>

OsEngineer(c)    == "os_engineer" \in Agents /\ EnterAgent(c, "os_engineer")
CloudEngineer(c) == "cloud_engineer" \in Agents /\ EnterAgent(c, "cloud_engineer")
FinopsAgent(c)   == "finops_agent" \in Agents /\ EnterAgent(c, "finops_agent")

\* Mutant: the command that waited is not cleared.
DoneKeepingCommand(c, sources) ==
  [call[c].st EXCEPT !.analysis[call[c].who] = sources, !.command_count = call[c].count]

\* What an agent returns when it is done: its analysis, the commands it counted, and no
\* command left waiting.
DoneState(c, sources) ==
  [call[c].st EXCEPT !.analysis[call[c].who] = sources, !.command_count = call[c].count,
                     !.hitl_command = None]

Leave(c, st) == Return(c, RouteAfterAgent(st), st)

Looping(c) == call[c].pc = "react" /\ call[c].iteration <= cmd_max_iterations

ReactError(c) ==
  /\ Looping(c) /\ "agent_llm" \in Faults
  /\ Leave(c, [DoneState(c, {call[c].st.request_id}) EXCEPT !.error = call[c].st.request_id])
  /\ UNCHANGED <<status, History, crashes>>

\* What an agent's model was told: the query, the router's instruction, which was written
\* over the analyses so far, and the outputs of the commands.  The conversation the intent
\* analyzer tells on purpose (of a continued topic, the relevant earlier turns) is not counted.
Analyses(st) == UNION {st.analysis[a] : a \in Agents}
Told(st) == {st.request_id} \cup Analyses(st) \cup st.command_log

\* No action in the answer: it is appended to the analysis.
ReactAnswer(c) ==
  /\ Looping(c)
  /\ Leave(c, DoneState(c, Told(call[c].st)))
  /\ UNCHANGED <<status, History, crashes>>

\* Mutant: off by one.
PastLimit(count) == count > cmd_max_per_session

\* The limit of commands: the action is refused and the loop goes on, as it is when commands
\* are disabled.
AtLimit(count) == count >= cmd_max_per_session

ReactRefuse(c) ==
  /\ Looping(c) /\ (AtLimit(call[c].count) \/ ~cmd_enabled)
  /\ call' = [call EXCEPT ![c].iteration = @ + 1]
  /\ UNCHANGED <<status, thread, History, crashes>>

\* A command that is not paused on is counted and logged, whether it ran or not.
ReactCommand(c) ==
  /\ Looping(c) /\ cmd_enabled /\ ~AtLimit(call[c].count)
  /\ \E k \in Commands :
       LET validated == Validated[call[c].who][k] IN
       \E outcome \in Outcomes(validated, FALSE) :
         /\ ~PausesOn(outcome)
         /\ unattended' = IF Runs(outcome) THEN unattended \cup {validated} ELSE unattended
  /\ call' = [call EXCEPT ![c].iteration = @ + 1, ![c].count = @ + 1,
                          ![c].st.command_log = @ \cup {call[c].st.request_id}]
  /\ UNCHANGED <<status, thread, ticket, issued, crashes>>

\* The record of a command put up for approval.
NewTicket(c, k, outcome) ==
  [sess |-> call[c].sess, cmd |-> k, gate |-> outcome, by |-> call[c].st.request_id,
   decided |-> {}, turns |-> {}, execs |-> 0, cuts |-> 0]

\* HITL: the command is neither run (unless it was, and ended by SIGQUIT), counted nor
\* logged; it becomes the one that waits.
ReactPause(c) ==
  /\ Looping(c) /\ cmd_enabled /\ ~AtLimit(call[c].count)
  /\ issued < MaxTickets
  /\ \E k \in Commands :
       LET validated == Validated[call[c].who][k] IN
       \E outcome \in Outcomes(validated, FALSE) :
         /\ PausesOn(outcome)
         /\ ticket' = [ticket EXCEPT ![issued + 1] = NewTicket(c, k, outcome)]
         /\ unattended' = IF Runs(outcome) THEN unattended \cup {validated} ELSE unattended
  /\ issued' = issued + 1
  /\ Leave(c, [call[c].st EXCEPT !.hitl_pending = TRUE, !.hitl_command = issued + 1,
                                 !.command_count = call[c].count])
  /\ UNCHANGED <<status, crashes>>

\* Iterations used up: one more model call, whose answer (or error) is the analysis.
ReactExhausted(c) ==
  /\ call[c].pc = "react" /\ call[c].iteration > cmd_max_iterations
  /\ Leave(c, DoneState(c, Told(call[c].st)))
  /\ UNCHANGED <<status, History, crashes>>

(***************************************************************************)
(* human_approval runs when the thread is resumed; security_review is the  *)
(* only node that writes final_output.                                     *)
(***************************************************************************)
HumanApproval(c) ==
  /\ call[c].pc = "human_approval"
  /\ Return(c, "router", [call[c].st EXCEPT !.hitl_pending = FALSE])
  /\ UNCHANGED <<status, History, crashes>>

\* With nothing to review the output says so; if the review fails it is withheld.  The log
\* of commands is reviewed with the analyses.
SecurityReview(c) ==
  LET st      == call[c].st
      sources == IF Analyses(st) = {} THEN {} ELSE Analyses(st) \cup st.command_log
  IN
  /\ call[c].pc = "security_review"
  /\ \/ Return(c, "end", [st EXCEPT !.final_by = st.request_id, !.final_of = sources])
     \/ /\ "review_llm" \in Faults /\ sources # {}
        /\ Return(c, "end", [st EXCEPT !.final_by = st.request_id, !.final_of = {},
                                       !.error = st.request_id])
  /\ UNCHANGED <<status, History, crashes>>

-----------------------------------------------------------------------------
\* The process dies: calls in flight are lost, the database stays.
Crash ==
  /\ crashes < MaxCrashes
  /\ \E c \in Calls : InFlight(c)
  /\ crashes' = crashes + 1
  /\ call' = [c \in Calls |-> IF InFlight(c) THEN Resting("lost") ELSE call[c]]
  /\ CutOff(Calls)
  /\ UNCHANGED <<status, thread, issued, unattended>>

\* One step of a call in flight.
Step(c) ==
  \/ EmbedQuery(c) \/ StartGraph(c) \/ ResumeGraph(c)
  \/ IntentAnalyzer(c) \/ Router(c)
  \/ OsEngineer(c) \/ CloudEngineer(c) \/ FinopsAgent(c)
  \/ ReactError(c) \/ ReactAnswer(c) \/ ReactRefuse(c) \/ ReactCommand(c)
  \/ ReactPause(c) \/ ReactExhausted(c)
  \/ HumanApproval(c) \/ SecurityReview(c)
  \/ Finish(c) \/ PersistFinal(c) \/ Raise(c)

Next ==
  \/ \E c \in Calls, s \in Sessions : Submit(c, s)
  \/ \E c \in Calls, s \in Sessions, d \in Decisions : Approve(c, s, d)
  \/ \E c \in Calls : Step(c)
  \/ Crash

Spec == Init /\ [][Next]_vars

\* The event loop runs every call that can go on, and every model call ends in an answer
\* or an exception.  Users need not call, and the process need not crash.
FairSpec == Spec /\ \A c \in Calls : WF_vars(Step(c))

-----------------------------------------------------------------------------
(***************************************************************************)
(* The commands put up for approval, as Approvals sees them: one that an   *)
(* agent has run waits no longer, although the agent has not returned yet, *)
(* and waits again when the agent is cut off.                              *)
(***************************************************************************)
Waits(s) == thread[s].st.hitl_command

Waiting(s) == IF Waits(s) # None /\ ticket[Waits(s)].execs = ticket[Waits(s)].cuts
              THEN {Waits(s)} ELSE {}
Running(s) == IF Waits(s) # None /\ ticket[Waits(s)].execs # ticket[Waits(s)].cuts
              THEN {Waits(s)} ELSE {}

Asked ==
  INSTANCE Approvals WITH
    asked   <- 1 .. issued,
    waiting <- [s \in Sessions |-> Waiting(s)],
    running <- [s \in Sessions |-> Running(s)],
    decided <- [p \in Tickets |-> ticket[p].decided],
    runs    <- [p \in Tickets |-> ticket[p].execs],
    cuts    <- [p \in Tickets |-> ticket[p].cuts]

-----------------------------------------------------------------------------
(***************************************************************************)
(* Properties.                                                             *)
(***************************************************************************)

\* Type invariant: every variable holds what the code may put there; in particular a
\* checkpoint is always at a node (or at the start or the end) with a whole agent state.
TypeOK ==
  /\ status \in [Sessions -> Statuses]
  /\ thread \in [Sessions -> [next : Nodes \cup {"start", "end"}, st : AgentState]]
  /\ call \in [Calls -> CallRecord]
  /\ ticket \in [Tickets -> TicketRecord]
  /\ issued \in 0 .. MaxTickets
  /\ unattended \in SUBSET (Risks \cup {"denied"})
  /\ crashes \in 0 .. MaxCrashes

\* The states a session is in: the saved one and the copies of the calls in flight.
StatesOf(s) == {thread[s].st} \cup {call[c].st : c \in {d \in Calls : call[d].sess = s}}

\* A turn never counts more commands than cmd_max_per_session, although an approved command
\* is run without a look at the limit: a command waits only while there is room for it.
WithinLimit(st) ==
  /\ st.command_count <= cmd_max_per_session
  /\ st.hitl_command # None => st.command_count < cmd_max_per_session
LimitHolds ==
  /\ \A s \in Sessions : \A st \in StatesOf(s) : WithinLimit(st)
  /\ \A c \in Calls : call[c].count <= cmd_max_per_session

\* With calls on a session one after the other: in the turn that put a command up for
\* approval no agent takes it up before the user has said something of it, whatever fails,
\* crashes or is resumed in between.  (A later turn may: RunsOnlyIfDecided.)
AskedInItsTurn == \A p \in Tickets : ticket[p].by \in ticket[p].turns => ticket[p].decided # {}

\* Through pauses, resumptions, crashes and calls that overlap: when the intent analyzer has
\* cleared the turn, whatever the analyses, the log of commands and the final output carry
\* of another request of the session came by a command that request had put up for approval
\* and an agent took up in this turn; and if the error of another request is still there,
\* they carry nothing at all.  (What Told does not count is left aside here, too.)
Known(tickets, s, req) ==
  {req} \cup {tickets[p].by : p \in {q \in Tickets : tickets[q].sess = s
                                                  /\ req \in tickets[q].turns}}
OwnData(st, known) ==
  st.cleared =>
    /\ Analyses(st) \cup st.command_log \cup st.final_of \subseteq known
    /\ st.final_by \in {None, st.request_id}
    /\ st.error \notin {None, st.request_id} =>
         Analyses(st) \cup st.command_log \cup st.final_of = {} /\ st.final_by = None
NoBleed ==
  \A s \in Sessions : \A st \in StatesOf(s) : OwnData(st, Known(ticket, s, st.request_id))

\* Security review is mandatory: a graph run that ends without an error and without a
\* command waiting ends with a final output its own request's review wrote.
Reviewed(st) == st.error = None /\ ~st.hitl_pending => st.final_by = st.request_id
ReviewedAtTheEnd ==
  /\ \A s \in Sessions : thread[s].next = "end" => Reviewed(thread[s].st)
  /\ \A c \in Calls : call[c].pc \in {"ended", "persisting"} => Reviewed(call[c].st)

\* A thread stops at human_approval only with hitl_pending set.  In a turn the intent
\* analyzer has cleared, what the user is asked is a real question: there is a command to
\* approve, and the turn does not move on, or end, with hitl_pending still set.  (A turn it
\* did not clear may be left with the hitl_pending of an earlier one.)
PauseIsAQuestion ==
  \A s \in Sessions : LET th == thread[s] IN
    /\ th.next = "human_approval" => th.st.hitl_pending
    /\ th.st.cleared /\ th.st.hitl_pending =>
         th.next = "human_approval" /\ th.st.hitl_command # None

\* With calls on a session one after the other, a command put up for approval is run again
\* only if an exception or a crash cut off the agent that had run it.
AtMostOnce == \A p \in Tickets : ticket[p].execs <= ticket[p].cuts + 1

\* Under the same condition the graph implements Approvals: only a command that waits is
\* decided on and run, and one that was run by an agent that returned, was replaced or was
\* dropped never waits again, through pauses, new queries, failing models, exceptions,
\* crashes and resumed threads.
KeepsApprovals == Asked!Spec

\* With calls on a session one after the other, a session shown as completed is one whose
\* thread is at its end, without an error, not asking for approval, and reviewed by its own
\* request.  (A command may still wait behind it: one of an earlier turn that this turn's
\* router sent to no agent.)
CompletedIsDone ==
  \A s \in Sessions : status[s] = "completed" =>
    /\ thread[s].next = "end" /\ thread[s].st.error = None /\ ~thread[s].st.hitl_pending
    /\ thread[s].st.final_by = thread[s].st.request_id

\* Every request is answered: the loops of the router and of the agents end.
EveryCallEnds == \A c \in Calls : InFlight(c) ~> Idle(c)
=============================================================================
