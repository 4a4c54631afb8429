-------------------------- MODULE AgentGraphProofs --------------------------
(***************************************************************************)
(* Proofs about AgentGraph, for every value of the constants: the type     *)
(* invariant and the safety properties that hold whatever overlaps, fails  *)
(* or crashes; those that hold when requests on a session come one after   *)
(* the other, the implementation of Approvals among them; and the measure  *)
(* by which every request comes to its end.                                *)
(***************************************************************************)
EXTENDS AgentGraph, TLAPS

-----------------------------------------------------------------------------
(***************************************************************************)
(* Lemmas on the operators of the model.                                   *)
(***************************************************************************)

\* The state a thread starts from is an agent state with nothing in it.
LEMMA EmptyStateType == EmptyState \in AgentState
BY DEF EmptyState, AgentState, Reqs, Calls, Tickets, None

\* A call at rest is a call record, for every answer.
LEMMA RestingType ==
  ASSUME NEW pc \in {"unused"} \cup Answers
  PROVE  Resting(pc) \in CallRecord
<1>1. (CHOOSE s \in Sessions : TRUE) \in Sessions
  BY ConstantsAssumption
<1>2. (CHOOSE a \in Agents : TRUE) \in Agents
  BY ConstantsAssumption
<1> QED
  BY <1>1, <1>2, EmptyStateType DEF Resting, CallRecord, CallSteps

\* A call that goes to another step keeps being a call record.
LEMMA CallUpdateType ==
  ASSUME TypeOK, NEW c \in Calls, NEW r \in CallRecord, call' = [call EXCEPT ![c] = r]
  PROVE  call' \in [Calls -> CallRecord]
BY DEF TypeOK

\* A node's return is well typed when its next node and its state are.
LEMMA ReturnType ==
  ASSUME TypeOK, NEW c \in Calls, NEW next \in Nodes \cup {"end"}, NEW st \in AgentState,
         Return(c, next, st)
  PROVE  /\ thread' \in [Sessions -> [next : Nodes \cup {"start", "end"}, st : AgentState]]
         /\ call' \in [Calls -> CallRecord]
<1>1. call[c].sess \in Sessions
  BY DEF TypeOK, CallRecord
<1>2. thread' \in [Sessions -> [next : Nodes \cup {"start", "end"}, st : AgentState]]
  BY <1>1 DEF TypeOK, Return
<1> DEFINE pc == IF next = "end" \/ Interrupts(next) THEN "ended" ELSE next
           r  == [call[c] EXCEPT !.st = st, !.pc = pc, !.iteration = 0, !.count = 0]
<1>3. pc \in CallSteps
  BY DEF CallSteps
<1>4. call[c] \in CallRecord
  BY DEF TypeOK
<1>5. r \in CallRecord
  BY <1>3, <1>4 DEF CallRecord
<1>6. call' = [call EXCEPT ![c] = r]
  BY <1>4 DEF Return, CallRecord, TypeOK
<1>7. call' \in [Calls -> CallRecord]
  BY <1>5, <1>6, CallUpdateType
<1> QED
  BY <1>2, <1>7

\* An answered call is well typed.
LEMMA AnswerType ==
  ASSUME TypeOK, NEW c \in Calls, NEW pc \in Answers, Answer(c, pc)
  PROVE  call' \in [Calls -> CallRecord]
BY RestingType DEF TypeOK, Answer

\* What the intent analyzer returns is an agent state.
LEMMA AnalyzedType ==
  ASSUME NEW st \in AgentState, NEW st2 \in AnalyzedState(st)
  PROVE  st2 \in AgentState
<1>1. \A i \in Intents : IntentStatus(i) \in {"CONTINUATION", "NEW_TOPIC"}
  BY ConstantsAssumption DEF IntentStatus
<1>2. [a \in Agents |-> {}] \in [Agents -> SUBSET Calls]
  OBVIOUS
<1>3. ClearTransient(st) \in AgentState
  BY <1>2 DEF ClearTransient, AgentState, Reqs, Calls, None
<1>4. ASSUME NEW i \in Intents
      PROVE  [ClearTransient(st) EXCEPT !.intent_status = IntentStatus(i)] \in AgentState
  BY <1>1, <1>3 DEF AgentState
<1>5. [st EXCEPT !.intent_status = "NEW_TOPIC"] \in AgentState
  BY DEF AgentState
<1> QED
  BY <1>4, <1>5 DEF AnalyzedState

\* The routers return nodes.
LEMMA RouteTypes ==
  ASSUME NEW st \in AgentState, NEW target \in Agents \cup {"security_review"}
  PROVE  /\ RouteAfterIntent(st) \in {"router", "security_review"}
         /\ RouteAfterRouter(st, target) \in Agents \cup {"security_review", "end"}
         /\ RouteAfterAgent(st) \in {"router", "human_approval"}
BY DEF RouteAfterIntent, RouteAfterRouter, RouteAfterAgent

\* What an agent returns when it is done is an agent state.
LEMMA DoneStateType ==
  ASSUME TypeOK, NEW c \in Calls, NEW sources \in SUBSET Calls
  PROVE  DoneState(c, sources) \in AgentState
<1>1. call[c].st \in AgentState /\ call[c].who \in Agents /\ call[c].count \in Nat
  BY DEF TypeOK, CallRecord
<1> DEFINE analysis == [call[c].st.analysis EXCEPT ![call[c].who] = sources]
<1>2. analysis \in [Agents -> SUBSET Calls]
  BY <1>1 DEF AgentState
<1>3. DoneState(c, sources) = [call[c].st EXCEPT !.analysis = analysis,
                                 !.command_count = call[c].count, !.hitl_command = None]
  BY <1>1 DEF DoneState, AgentState
<1> QED
  BY <1>1, <1>2, <1>3 DEF AgentState

-----------------------------------------------------------------------------
(***************************************************************************)
(* The inductive invariant.  The properties speak of what is saved and of  *)
(* what is waiting; the invariant adds what a call carries from one node   *)
(* to the next: at which steps a copy of the state may have a question     *)
(* pending, that a call knows of no command that was not flagged in its    *)
(* session, and that a waiting command leaves room under the limit.        *)
(***************************************************************************)

\* A command that waits in a state of session s is one of its own flagged commands.
Flagged(s, st, tickets, n) ==
  st.hitl_command # None => st.hitl_command <= n /\ tickets[st.hitl_command].sess = s

Good(s, st, tickets, n) ==
  /\ WithinLimit(st)
  /\ OwnData(st, Known(tickets, s, st.request_id))
  /\ Flagged(s, st, tickets, n)

\* Where a state cannot have an error: the router sends a run with an error to its end.
Clean == Agents \cup {"react", "security_review"}

\* What is true of a state saved with its next node.
AtNode(next, st) ==
  /\ next = "end" => Reviewed(st)
  /\ next = "human_approval" => st.hitl_pending
  /\ st.cleared /\ st.hitl_pending => next = "human_approval" /\ st.hitl_command # None
  /\ next # "start" => st.request_id # None
  /\ next \in Clean => st.error = None

\* The steps of a call before the graph runs, and after it was answered.
Outside == {"unused", "embedding", "loading", "resuming"} \cup Answers

\* What is true of the state a call carries at a step.
AtStep(pc, st) ==
  /\ pc \in {"ended", "persisting"} => Reviewed(st)
  /\ st.cleared /\ st.hitl_pending => pc \in {"human_approval", "ended"}
  /\ pc = "unused" => st = EmptyState
  /\ pc \notin Outside => st.request_id # None
  /\ pc \in Clean => st.error = None

ThreadOK(s, th, tickets, n) == Good(s, th.st, tickets, n) /\ AtNode(th.next, th.st)
CallOK(r, tickets, n) ==
  Good(r.sess, r.st, tickets, n) /\ AtStep(r.pc, r.st) /\ r.count <= cmd_max_per_session
TicketOK(p, tk, n) ==
  IF p <= n THEN tk.by \in Calls ELSE tk.turns = {} /\ tk.execs = 0 /\ tk.cuts = 0

IInv ==
  /\ TypeOK
  /\ \A s \in Sessions : ThreadOK(s, thread[s], ticket, issued)
  /\ \A c \in Calls : CallOK(call[c], ticket, issued)
  /\ \A p \in Tickets : TicketOK(p, ticket[p], issued)

\* What a step may do to the tickets, and to the variables the invariant only types.
TicketsGrow ==
  /\ ticket' \in [Tickets -> TicketRecord]
  /\ issued' \in 0 .. MaxTickets /\ issued <= issued'
  /\ \A p \in Tickets : p <= issued => /\ ticket'[p].sess = ticket[p].sess
                                       /\ ticket'[p].by = ticket[p].by
                                       /\ ticket[p].turns \subseteq ticket'[p].turns
  /\ \A p \in Tickets : TicketOK(p, ticket'[p], issued')

RestTyped ==
  /\ status' \in [Sessions -> Statuses]
  /\ unattended' \in SUBSET (Risks \cup {"denied"})
  /\ crashes' \in 0 .. MaxCrashes

-----------------------------------------------------------------------------
(***************************************************************************)
(* What the invariant needs of a step, by the kind of step.                *)
(***************************************************************************)

\* Tickets that grow are known of no less.
LEMMA KnownGrows ==
  ASSUME IInv, TicketsGrow, NEW s \in Sessions, NEW req
  PROVE  Known(ticket, s, req) \subseteq Known(ticket', s, req)
<1>1. SUFFICES ASSUME NEW p \in Tickets, ticket[p].sess = s, req \in ticket[p].turns
               PROVE  /\ ticket'[p].by = ticket[p].by /\ ticket'[p].sess = s
                      /\ req \in ticket'[p].turns
  BY DEF Known
<1>2. p <= issued
  BY <1>1 DEF IInv, TicketOK
<1> QED
  BY <1>1, <1>2 DEF TicketsGrow

\* What a state may carry, it may carry when more is known.
LEMMA KnowsMore ==
  ASSUME NEW st, NEW known, NEW more, known \subseteq more, OwnData(st, known)
  PROVE  OwnData(st, more)
BY DEF OwnData

\* Good states stay good.
LEMMA GoodStays ==
  ASSUME IInv, TicketsGrow, NEW s \in Sessions, NEW st \in AgentState,
         Good(s, st, ticket, issued)
  PROVE  Good(s, st, ticket', issued')
<1>0. OwnData(st, Known(ticket', s, st.request_id))
  BY KnownGrows, KnowsMore DEF Good
<1>1. CASE st.hitl_command = None
  BY <1>0, <1>1 DEF Good, Flagged
<1>2. CASE st.hitl_command # None
  <2> DEFINE p == st.hitl_command
  <2>1. p \in Tickets
    BY <1>2 DEF AgentState
  <2>2. p <= issued /\ ticket[p].sess = s
    BY <1>2 DEF Good, Flagged
  <2>3. ticket'[p].sess = s
    BY <2>1, <2>2 DEF TicketsGrow
  <2>4. p \in Nat /\ issued \in Nat /\ issued' \in Nat /\ issued <= issued'
    BY <2>1, ConstantsAssumption DEF Tickets, IInv, TypeOK, TicketsGrow
  <2>5. p <= issued'
    BY <2>2, <2>4
  <2> QED
    BY <1>0, <2>3, <2>5 DEF Good, Flagged
<1> QED
  BY <1>1, <1>2

\* So do steps that leave the tickets alone.
LEMMA TicketsStay ==
  ASSUME IInv, UNCHANGED <<ticket, issued>>
  PROVE  TicketsGrow
BY DEF IInv, TypeOK, TicketsGrow

\* The empty state is good in every session.
LEMMA EmptyGood ==
  ASSUME NEW s, NEW tickets, NEW n
  PROVE  Good(s, EmptyState, tickets, n)
<1>1. cmd_max_per_session \in Nat \ {0}
  BY ConstantsAssumption
<1> QED
  BY <1>1 DEF Good, WithinLimit, OwnData, Flagged, EmptyState, None

\* A call that is answered has nothing left to be wrong.
LEMMA RestingOK ==
  ASSUME NEW pc \in {"unused"} \cup Answers, NEW tickets, NEW n
  PROVE  CallOK(Resting(pc), tickets, n)
<1>1. cmd_max_per_session \in Nat \ {0}
  BY ConstantsAssumption
<1>2. Good(Resting(pc).sess, EmptyState, tickets, n)
  BY EmptyGood
<1>3. Resting(pc).st = EmptyState /\ Resting(pc).pc = pc /\ Resting(pc).count = 0
  BY DEF Resting
<1>4. AtStep(pc, EmptyState)
  BY DEF AtStep, EmptyState, Answers, Outside
<1> QED
  BY <1>1, <1>2, <1>3, <1>4 DEF CallOK

\* The calls and the threads a step does not touch stay as the invariant wants them.
LEMMA OthersStay ==
  ASSUME IInv, TicketsGrow
  PROVE  /\ \A s \in Sessions : ThreadOK(s, thread[s], ticket', issued')
         /\ \A c \in Calls : CallOK(call[c], ticket', issued')
<1>1. \A s \in Sessions : thread[s].st \in AgentState
  BY DEF IInv, TypeOK
<1>2. \A c \in Calls : call[c].st \in AgentState /\ call[c].sess \in Sessions
  BY DEF IInv, TypeOK, CallRecord
<1> QED
  BY <1>1, <1>2, GoodStays DEF IInv, ThreadOK, CallOK

\* A call that moves on without saving anything.
LEMMA MoveInv ==
  ASSUME IInv, TicketsGrow, RestTyped, thread' = thread,
         NEW c \in Calls, NEW r \in CallRecord, call' = [call EXCEPT ![c] = r],
         CallOK(r, ticket', issued')
  PROVE  IInv'
<1>1. call' \in [Calls -> CallRecord]
  BY CallUpdateType DEF IInv
<1>2. TypeOK'
  BY <1>1 DEF IInv, TypeOK, TicketsGrow, RestTyped
<1>3. \A s \in Sessions : ThreadOK(s, thread'[s], ticket', issued')
  BY OthersStay
<1>4. \A d \in Calls : CallOK(call'[d], ticket', issued')
  BY OthersStay DEF IInv, TypeOK
<1> QED
  BY <1>2, <1>3, <1>4 DEF IInv, TicketsGrow

\* A call that is answered.
LEMMA AnswerInv ==
  ASSUME IInv, TicketsGrow, RestTyped, thread' = thread,
         NEW c \in Calls, NEW pc \in Answers, Answer(c, pc)
  PROVE  IInv'
<1>1. Resting(pc) \in CallRecord
  BY RestingType
<1>2. CallOK(Resting(pc), ticket', issued')
  BY RestingOK
<1> QED
  BY <1>1, <1>2, MoveInv DEF Answer

\* A node that returns a good state that fits the node it is saved with.
LEMMA ReturnInv ==
  ASSUME IInv, TicketsGrow, RestTyped,
         NEW c \in Calls, NEW next \in Nodes \cup {"end"}, NEW st \in AgentState,
         Return(c, next, st), Good(call[c].sess, st, ticket', issued'), AtNode(next, st)
  PROVE  IInv'
<1>1. TypeOK'
  BY ReturnType DEF IInv, TypeOK, TicketsGrow, RestTyped
<1>2. call[c] \in CallRecord /\ call[c].sess \in Sessions
  BY DEF IInv, TypeOK, CallRecord
<1>3. ASSUME NEW s \in Sessions
      PROVE  ThreadOK(s, thread'[s], ticket', issued')
  <2>1. CASE s = call[c].sess
    <3>1. thread'[s] = [next |-> next, st |-> st]
      BY <2>1 DEF IInv, TypeOK, Return
    <3> QED
      BY <2>1, <3>1 DEF ThreadOK
  <2>2. CASE s # call[c].sess
    <3>1. thread'[s] = thread[s]
      BY <2>2 DEF IInv, TypeOK, Return
    <3> QED
      BY <3>1, OthersStay
  <2> QED
    BY <2>1, <2>2
<1>4. ASSUME NEW d \in Calls
      PROVE  CallOK(call'[d], ticket', issued')
  <2>1. CASE d = c
    <3>1. /\ call'[c].st = st /\ call'[c].sess = call[c].sess /\ call'[c].count = 0
          /\ call'[c].pc = IF next = "end" \/ next = "human_approval" THEN "ended" ELSE next
      BY <1>2 DEF IInv, TypeOK, Return, CallRecord, Interrupts
    <3>2. AtStep(call'[c].pc, st)
      <4>1. next # "ended" /\ next # "persisting" /\ next # "unused" /\ "ended" \notin Clean
        BY ConstantsAssumption DEF Nodes, Clean
      <4>2. next # "start"
        BY ConstantsAssumption DEF Nodes
      <4> QED
        BY <3>1, <4>1, <4>2 DEF AtStep, AtNode, Reviewed
    <3>3. cmd_max_per_session \in Nat
      BY ConstantsAssumption
    <3> QED
      BY <2>1, <3>1, <3>2, <3>3 DEF CallOK
  <2>2. CASE d # c
    <3>1. call'[d] = call[d]
      BY <2>2 DEF IInv, TypeOK, Return
    <3> QED
      BY <3>1, OthersStay
  <2> QED
    BY <2>1, <2>2
<1> QED
  BY <1>1, <1>3, <1>4 DEF IInv, TicketsGrow

-----------------------------------------------------------------------------
(***************************************************************************)
(* The actions.                                                            *)
(***************************************************************************)

\* What the invariant says of a call and of the thread of its session, in one place.
LEMMA CallFacts ==
  ASSUME IInv, NEW c \in Calls
  PROVE  /\ call[c] \in CallRecord
         /\ call[c].pc \in CallSteps /\ call[c].sess \in Sessions /\ call[c].who \in Agents
         /\ call[c].st \in AgentState /\ call[c].count \in Nat /\ call[c].iteration \in Nat
         /\ CallOK(call[c], ticket, issued)
         /\ thread[call[c].sess].st \in AgentState
         /\ thread[call[c].sess].next \in Nodes \cup {"start", "end"}
         /\ ThreadOK(call[c].sess, thread[call[c].sess], ticket, issued)
BY DEF IInv, TypeOK, CallRecord

\* The parameters are what the assumptions say.
LEMMA LimitType == cmd_max_per_session \in Nat \ {0}
BY ConstantsAssumption

\* The names of the steps are not names of agents.
LEMMA AgentNames ==
  ASSUME NEW a \in Agents
  PROVE  /\ a \in Nodes
         /\ a \notin {"intent_analyzer", "router", "human_approval", "security_review",
                      "unused", "embedding", "loading", "resuming", "react", "ended",
                      "persisting", "start", "end"}
BY ConstantsAssumption DEF Nodes

\* The empty state fits every step before the graph runs.
LEMMA EmptyAtStep ==
  ASSUME NEW pc \in {"unused", "embedding", "loading", "resuming"}
  PROVE  AtStep(pc, EmptyState)
BY DEF AtStep, EmptyState, Outside

\* A query arrives: the call awaits its embedding.
LEMMA SubmitStep ==
  ASSUME IInv, NEW c \in Calls, NEW s \in Sessions, Submit(c, s)
  PROVE  IInv'
<1> DEFINE r == [call[c] EXCEPT !.pc = "embedding", !.kind = "analyze", !.sess = s]
<1>1. TicketsGrow /\ RestTyped /\ thread' = thread /\ UNCHANGED <<ticket, issued>>
  BY TicketsStay DEF IInv, TypeOK, Submit, History, RestTyped, Statuses
<1>2. call[c].st = EmptyState /\ call[c].count <= cmd_max_per_session
  BY CallFacts DEF Submit, MayStart, NextCall, CallOK, AtStep
<1>3. call' = [call EXCEPT ![c] = r]
  BY CallFacts DEF Submit, IInv, TypeOK, CallRecord
<1>4. r \in CallRecord /\ r.st = EmptyState /\ r.pc = "embedding" /\ r.count = call[c].count
  BY <1>2, CallFacts DEF CallRecord, CallSteps
<1>5. CallOK(r, ticket', issued')
  BY <1>2, <1>4, EmptyGood, EmptyAtStep DEF CallOK
<1> QED
  BY <1>1, <1>3, <1>4, <1>5, MoveInv

\* An approval arrives: the command that waits is marked decided, its call resumes.
LEMMA ApproveStep ==
  ASSUME IInv, NEW c \in Calls, NEW s \in Sessions, NEW d \in Decisions, Approve(c, s, d)
  PROVE  IInv'
<1> DEFINE r == [call[c] EXCEPT !.pc = "resuming", !.kind = "approve", !.sess = s]
           p == thread[s].st.hitl_command
<1>1. RestTyped /\ thread' = thread
  BY DEF IInv, TypeOK, Approve, RestTyped
<1>2. TicketsGrow
  <2>1. CASE ticket' = ticket
    BY <2>1, TicketsStay DEF Approve
  <2>2. CASE p # None /\ ticket' = [ticket EXCEPT ![p].decided = @ \cup {d}]
    <3>1. p \in Tickets
      BY <2>2 DEF IInv, TypeOK, AgentState
    <3>2. d \in BOOLEAN
      BY ConstantsAssumption
    <3>3. ticket[p] \in TicketRecord
      BY <3>1 DEF IInv, TypeOK
    <3>4. [ticket[p] EXCEPT !.decided = @ \cup {d}] \in TicketRecord
      BY <3>2, <3>3 DEF TicketRecord
    <3>5. ticket' = [ticket EXCEPT ![p] = [ticket[p] EXCEPT !.decided = @ \cup {d}]]
      BY <2>2, <3>1, <3>3 DEF IInv, TypeOK, TicketRecord
    <3>6. ticket' \in [Tickets -> TicketRecord]
      BY <3>4, <3>5 DEF IInv, TypeOK
    <3>7. \A q \in Tickets : /\ ticket'[q].sess = ticket[q].sess
                             /\ ticket'[q].by = ticket[q].by
                             /\ ticket'[q].turns = ticket[q].turns
                             /\ ticket'[q].execs = ticket[q].execs
                             /\ ticket'[q].cuts = ticket[q].cuts
      BY <3>1, <3>3, <3>5 DEF IInv, TypeOK, TicketRecord
    <3> QED
      BY <3>6, <3>7 DEF TicketsGrow, TicketOK, IInv, TypeOK, Approve
  <2> QED
    BY <2>1, <2>2 DEF Approve
<1>3. call[c].st = EmptyState /\ call[c].count <= cmd_max_per_session
  BY CallFacts DEF Approve, MayStart, NextCall, CallOK, AtStep
<1>4. call' = [call EXCEPT ![c] = r]
  BY CallFacts DEF Approve, IInv, TypeOK, CallRecord
<1>5. r \in CallRecord /\ r.st = EmptyState /\ r.pc = "resuming" /\ r.count = call[c].count
  BY <1>3, CallFacts DEF CallRecord, CallSteps
<1>6. CallOK(r, ticket', issued')
  BY <1>3, <1>5, EmptyGood, EmptyAtStep DEF CallOK
<1> QED
  BY <1>1, <1>2, <1>4, <1>5, <1>6, MoveInv

\* Agents that are cut off change the count of the cuts alone.
LEMMA CutOffGrows ==
  ASSUME IInv, NEW calls \in SUBSET Calls, CutOff(calls), issued' = issued
  PROVE  /\ TicketsGrow
         /\ \A p \in Tickets :
              /\ ticket'[p].sess = ticket[p].sess /\ ticket'[p].by = ticket[p].by
              /\ ticket'[p].decided = ticket[p].decided /\ ticket'[p].turns = ticket[p].turns
              /\ ticket'[p].execs = ticket[p].execs
              /\ ticket'[p].cuts =
                   IF \E c \in calls : call[c].pc = "react" /\ call[c].st.hitl_command = p
                   THEN ticket[p].execs ELSE ticket[p].cuts
<1>1. ASSUME NEW p \in Tickets
      PROVE  /\ ticket'[p] \in TicketRecord
             /\ ticket'[p].sess = ticket[p].sess /\ ticket'[p].by = ticket[p].by
             /\ ticket'[p].decided = ticket[p].decided /\ ticket'[p].turns = ticket[p].turns
             /\ ticket'[p].execs = ticket[p].execs
             /\ ticket'[p].cuts =
                  IF \E c \in calls : call[c].pc = "react" /\ call[c].st.hitl_command = p
                  THEN ticket[p].execs ELSE ticket[p].cuts
  <2>1. ticket[p] \in TicketRecord
    BY DEF IInv, TypeOK
  <2>2. CASE \E c \in calls : call[c].pc = "react" /\ call[c].st.hitl_command = p
    <3>1. ticket'[p] = [ticket[p] EXCEPT !.cuts = ticket[p].execs]
      BY <2>2 DEF CutOff
    <3> QED
      BY <2>1, <2>2, <3>1 DEF TicketRecord
  <2>3. CASE ~\E c \in calls : call[c].pc = "react" /\ call[c].st.hitl_command = p
    <3>1. ticket'[p] = ticket[p]
      BY <2>3 DEF CutOff
    <3> QED
      BY <2>1, <2>3, <3>1
  <2> QED
    BY <2>2, <2>3
<1>2. ticket' \in [Tickets -> TicketRecord]
  BY <1>1 DEF CutOff
<1>3. \A p \in Tickets : TicketOK(p, ticket'[p], issued')
  BY <1>1 DEF IInv, TicketOK
<1> QED
  BY <1>1, <1>2, <1>3 DEF TicketsGrow, IInv, TypeOK

\* An exception ends the call and leaves the thread where it was.
LEMMA RaiseStep ==
  ASSUME IInv, NEW c \in Calls, Raise(c)
  PROVE  IInv'
<1>1. RestTyped /\ thread' = thread /\ Answer(c, "http_500")
  BY DEF IInv, TypeOK, Raise, RestTyped, Statuses
<1>2. TicketsGrow
  BY CutOffGrows DEF Raise
<1> QED
  BY <1>1, <1>2, AnswerInv DEF Answers

\* The embedding is there, or it failed.
LEMMA EmbedQueryStep ==
  ASSUME IInv, NEW c \in Calls, EmbedQuery(c)
  PROVE  IInv'
<1> DEFINE r == [call[c] EXCEPT !.pc = "loading"]
<1>1. TicketsGrow /\ RestTyped /\ thread' = thread /\ UNCHANGED <<ticket, issued>>
  BY TicketsStay DEF IInv, TypeOK, EmbedQuery, History, RestTyped
<1>2. CASE Answer(c, "http_500")
  BY <1>1, <1>2, AnswerInv DEF Answers
<1>3. CASE call' = [call EXCEPT ![c].pc = "loading"]
  <2>1. call' = [call EXCEPT ![c] = r]
    BY <1>3
  <2>2. r \in CallRecord /\ r.sess = call[c].sess /\ r.st = call[c].st /\ r.pc = "loading"
        /\ r.count = call[c].count
    BY CallFacts DEF CallRecord, CallSteps
  <2>3. CallOK(r, ticket', issued')
    <3>1. "loading" \notin Clean
      BY ConstantsAssumption DEF Clean
    <3> QED
      BY <1>1, <2>2, <3>1, CallFacts DEF CallOK, AtStep, EmbedQuery, Outside
  <2> QED
    BY <1>1, <2>1, <2>2, <2>3, MoveInv
<1> QED
  BY <1>2, <1>3 DEF EmbedQuery

\* The thread restarts at the intent analyzer with the saved state.
LEMMA StartGraphStep ==
  ASSUME IInv, NEW c \in Calls, StartGraph(c)
  PROVE  IInv'
<1> DEFINE old == thread[call[c].sess].st
<1>0. old \in AgentState /\ Good(call[c].sess, old, ticket, issued)
  BY CallFacts DEF ThreadOK
<1>1. PICK asks \in BOOLEAN :
        Return(c, "intent_analyzer", [old EXCEPT !.request_id = c, !.user_query = asks,
                                                 !.cleared = FALSE])
  BY DEF StartGraph
<1> DEFINE st == [old EXCEPT !.request_id = c, !.user_query = asks, !.cleared = FALSE]
<1>2. TicketsGrow /\ RestTyped /\ UNCHANGED <<ticket, issued>>
  BY TicketsStay DEF IInv, TypeOK, StartGraph, History, RestTyped
<1>3. st \in AgentState
  BY <1>0, <1>1 DEF AgentState, Reqs
<1>4. Good(call[c].sess, st, ticket', issued')
  <2>1. /\ st.cleared = FALSE /\ st.command_count = old.command_count
        /\ st.hitl_command = old.hitl_command
    BY <1>0 DEF AgentState
  <2> QED
    BY <1>0, <1>2, <2>1 DEF Good, WithinLimit, OwnData, Flagged
<1>5. AtNode("intent_analyzer", st)
  <2>1. c # None /\ "intent_analyzer" \notin Clean
    BY ConstantsAssumption DEF Calls, None, Clean
  <2> QED
    BY <1>0, <2>1 DEF AtNode, AgentState
<1> QED
  BY <1>1, <1>2, <1>3, <1>4, <1>5, ReturnInv DEF Nodes

\* The thread goes on with the saved state.
LEMMA ResumeGraphStep ==
  ASSUME IInv, NEW c \in Calls, ResumeGraph(c)
  PROVE  IInv'
<1> DEFINE saved == thread[call[c].sess]
           pc == IF saved.next = "end" THEN "ended" ELSE saved.next
           r == [call[c] EXCEPT !.st = saved.st, !.pc = pc]
<1>1. TicketsGrow /\ RestTyped /\ thread' = thread /\ UNCHANGED <<ticket, issued>>
  BY TicketsStay DEF IInv, TypeOK, ResumeGraph, History, RestTyped
<1>2. CASE saved.next = "start"
  BY <1>1, <1>2, AnswerInv DEF Answers, ResumeGraph
<1>3. CASE saved.next # "start"
  <2>1. call' = [call EXCEPT ![c] = r]
    BY <1>3, CallFacts DEF ResumeGraph, IInv, TypeOK, CallRecord
  <2>2. pc \in CallSteps
    BY <1>3, CallFacts DEF CallSteps
  <2>3. r \in CallRecord /\ r.sess = call[c].sess /\ r.st = saved.st /\ r.pc = pc
        /\ r.count = call[c].count
    BY <2>2, CallFacts DEF CallRecord
  <2>4. AtStep(pc, saved.st)
    <3>1. saved.next \notin {"ended", "persisting", "unused"}
      BY CallFacts, ConstantsAssumption DEF Nodes
    <3> QED
      <4>1. "ended" \notin Clean
        BY ConstantsAssumption DEF Clean
      <4> QED
        BY <1>3, <3>1, <4>1, CallFacts DEF AtStep, ThreadOK, AtNode
  <2>5. CallOK(r, ticket', issued')
    BY <1>1, <2>3, <2>4, CallFacts DEF CallOK, ThreadOK
  <2> QED
    BY <1>1, <2>1, <2>3, <2>5, MoveInv
<1> QED
  BY <1>2, <1>3

\* The tail of the handlers keeps the thread.
LEMMA FinishStep ==
  ASSUME IInv, NEW c \in Calls, Finish(c)
  PROVE  IInv'
<1> DEFINE r == [call[c] EXCEPT !.pc = "persisting"]
<1>1. StatusOf(call[c].st) \in {"analyzing", "failed", "completed"}
  BY DEF StatusOf
<1>2. TicketsGrow /\ RestTyped /\ thread' = thread /\ UNCHANGED <<ticket, issued>>
  BY <1>1, TicketsStay DEF IInv, TypeOK, Finish, History, RestTyped, Statuses
<1>3. CASE call[c].st.hitl_pending \/ call[c].st.final_by = None
  <2>1. PICK pc \in {"requires_approval", "failed", "completed"} : Answer(c, pc)
    BY <1>3 DEF Finish, StatusOf
  <2> QED
    BY <1>2, <2>1, AnswerInv DEF Answers
<1>4. CASE ~(call[c].st.hitl_pending \/ call[c].st.final_by = None)
  <2>1. call' = [call EXCEPT ![c] = r]
    BY <1>4 DEF Finish
  <2>2. r \in CallRecord /\ r.sess = call[c].sess /\ r.st = call[c].st /\ r.pc = "persisting"
        /\ r.count = call[c].count
    BY CallFacts DEF CallRecord, CallSteps
  <2>3. CallOK(r, ticket', issued')
    <3>1. "persisting" \notin Clean
      BY ConstantsAssumption DEF Clean
    <3> QED
      BY <1>2, <1>4, <2>2, <3>1, CallFacts DEF CallOK, AtStep, Finish, Outside, Answers
  <2> QED
    BY <1>2, <2>1, <2>2, <2>3, MoveInv
<1> QED
  BY <1>3, <1>4

\* Writing the final turn keeps the thread.
LEMMA PersistFinalStep ==
  ASSUME IInv, NEW c \in Calls, PersistFinal(c)
  PROVE  IInv'
<1>1. TicketsGrow /\ RestTyped /\ thread' = thread
  BY TicketsStay DEF IInv, TypeOK, PersistFinal, History, RestTyped, Statuses
<1>2. PICK pc \in {"failed", "completed", "http_500"} : Answer(c, pc)
  BY DEF PersistFinal
<1> QED
  BY <1>1, <1>2, AnswerInv DEF Answers

\* The intent analyzer clears the turn, or keeps it as it was found.
LEMMA IntentAnalyzerStep ==
  ASSUME IInv, NEW c \in Calls, IntentAnalyzer(c)
  PROVE  IInv'
<1> DEFINE old == call[c].st
<1>1. TicketsGrow /\ RestTyped /\ UNCHANGED <<ticket, issued>>
  BY TicketsStay DEF IInv, TypeOK, IntentAnalyzer, History, RestTyped
<1>2. old \in AgentState /\ Good(call[c].sess, old, ticket, issued)
      /\ ~(old.cleared /\ old.hitl_pending) /\ old.request_id # None
  BY CallFacts DEF CallOK, AtStep, IntentAnalyzer, Outside, Answers
<1>3. PICK st \in AnalyzedState(old) : Return(c, RouteAfterIntent(st), st)
  BY DEF IntentAnalyzer
<1>4. st \in AgentState
  BY <1>2, <1>3, AnalyzedType
<1>5. Good(call[c].sess, st, ticket, issued) /\ ~(st.cleared /\ st.hitl_pending)
      /\ st.request_id = old.request_id /\ st.intent_status # "IRRELEVANT"
  <2>1. CASE st = [old EXCEPT !.intent_status = "NEW_TOPIC"]
    <3>1. /\ st.command_count = old.command_count /\ st.hitl_command = old.hitl_command
          /\ st.analysis = old.analysis /\ st.command_log = old.command_log
          /\ st.final_of = old.final_of /\ st.final_by = old.final_by
          /\ st.hitl_pending = old.hitl_pending /\ st.request_id = old.request_id
          /\ st.cleared = old.cleared /\ st.error = old.error
          /\ st.intent_status = "NEW_TOPIC"
      BY <1>2, <2>1 DEF AgentState
    <3> QED
      BY <1>2, <3>1 DEF Good, WithinLimit, OwnData, Analyses, Flagged
  <2>2. CASE \E i \in Intents : st = [ClearTransient(old) EXCEPT !.intent_status = IntentStatus(i)]
    <3>0. PICK i \in Intents :
            st = [ClearTransient(old) EXCEPT !.intent_status = IntentStatus(i)]
      BY <2>2
    <3>1. /\ st.command_count = 0 /\ st.hitl_command = old.hitl_command
          /\ st.analysis = [a \in Agents |-> {}] /\ st.final_of = {} /\ st.final_by = None
          /\ st.command_log = {}
          /\ st.hitl_pending = FALSE /\ st.request_id = old.request_id
      BY <1>2, <3>0 DEF ClearTransient, AgentState
    <3>2. st.intent_status # "IRRELEVANT"
      BY <1>2, <3>0, ConstantsAssumption DEF ClearTransient, AgentState, IntentStatus
    <3>3. Analyses(st) = {}
      BY <3>1 DEF Analyses
    <3> QED
      BY <1>2, <3>1, <3>2, <3>3, LimitType DEF Good, WithinLimit, OwnData, Flagged
  <2> QED
    BY <1>3, <2>1, <2>2 DEF AnalyzedState
<1>6. RouteAfterIntent(st) = "router" /\ "router" \notin Clean
  BY <1>5, ConstantsAssumption DEF RouteAfterIntent, Clean
<1>7. AtNode("router", st)
  BY <1>2, <1>5, <1>6 DEF AtNode
<1> QED
  BY <1>1, <1>3, <1>4, <1>5, <1>6, <1>7, ReturnInv DEF Nodes

\* The router counts its iteration and chooses the next node.
LEMMA RouterStep ==
  ASSUME IInv, NEW c \in Calls, Router(c)
  PROVE  IInv'
<1> DEFINE old == call[c].st
           counted == CountIteration(old)
           refused == [old EXCEPT !.error = old.request_id]
<1>1. TicketsGrow /\ RestTyped /\ UNCHANGED <<ticket, issued>>
  BY TicketsStay DEF IInv, TypeOK, Router, History, RestTyped
<1>2. old \in AgentState /\ Good(call[c].sess, old, ticket, issued)
      /\ ~(old.cleared /\ old.hitl_pending) /\ old.request_id # None
  BY CallFacts DEF CallOK, AtStep, Router, Outside, Answers
<1>3. counted \in AgentState /\ Good(call[c].sess, counted, ticket, issued)
      /\ ~(counted.cleared /\ counted.hitl_pending) /\ counted.request_id # None
  <2>1. old.router_iterations + 1 \in Nat
    <3>1. old.router_iterations \in Nat
      BY <1>2 DEF AgentState
    <3> QED
      BY <3>1
  <2>2. counted = [old EXCEPT !.router_iterations = old.router_iterations + 1]
    BY DEF CountIteration
  <2>3. counted \in AgentState
    BY <1>2, <2>1, <2>2 DEF AgentState
  <2>4. /\ counted.command_count = old.command_count
        /\ counted.hitl_command = old.hitl_command /\ counted.hitl_pending = old.hitl_pending
        /\ counted.cleared = old.cleared /\ counted.request_id = old.request_id
        /\ counted.analysis = old.analysis /\ counted.command_log = old.command_log
        /\ counted.final_of = old.final_of /\ counted.final_by = old.final_by
        /\ counted.error = old.error
    BY <1>2, <2>2 DEF AgentState
  <2> QED
    BY <1>2, <2>3, <2>4 DEF Good, WithinLimit, OwnData, Analyses, Flagged
<1>8. refused \in AgentState /\ Good(call[c].sess, refused, ticket, issued)
      /\ ~(refused.cleared /\ refused.hitl_pending) /\ refused.request_id # None
  <2>1. /\ refused.command_count = old.command_count
        /\ refused.hitl_command = old.hitl_command /\ refused.hitl_pending = old.hitl_pending
        /\ refused.cleared = old.cleared /\ refused.request_id = old.request_id
        /\ refused.analysis = old.analysis /\ refused.command_log = old.command_log
        /\ refused.final_of = old.final_of /\ refused.final_by = old.final_by
        /\ refused.error = old.request_id
    BY <1>2 DEF AgentState
  <2>2. refused \in AgentState
    BY <1>2 DEF AgentState
  <2> QED
    BY <1>2, <2>1, <2>2 DEF Good, WithinLimit, OwnData, Analyses, Flagged
<1>4. PICK st \in {old, counted, refused}, target \in Agents \cup {"security_review"} :
        Return(c, RouteAfterRouter(st, target), st)
  <2>1. CASE \E target \in Agents \cup {"security_review"} :
               Return(c, RouteAfterRouter(counted,
                         IF counted.router_iterations >= router_max_iterations
                         THEN "security_review" ELSE target), counted)
    BY <2>1
  <2>2. CASE Return(c, RouteAfterRouter(old, "security_review"), old)
    BY <2>2
  <2>3. CASE Return(c, RouteAfterRouter(refused, "security_review"), refused)
    BY <2>3
  <2> QED
    BY <2>1, <2>2, <2>3 DEF Router
<1>5. PICK next : next = RouteAfterRouter(st, target)
  OBVIOUS
<1>6. next \in Agents \cup {"security_review", "end"} /\ (next = "end" <=> st.error # None)
  BY <1>5, AgentNames DEF RouteAfterRouter
<1>7. AtNode(next, st)
  <2>1. "end" \notin Clean
    BY ConstantsAssumption DEF Clean
  <2> QED
    BY <1>2, <1>3, <1>4, <1>6, <1>8, <2>1, AgentNames DEF AtNode, Reviewed
<1> QED
  BY <1>1, <1>2, <1>3, <1>4, <1>5, <1>6, <1>7, <1>8, ReturnInv DEF Nodes

\* An agent starts, and runs the command that waited: what was done before its loop.
LEMMA TakesUp ==
  ASSUME IInv, NEW c \in Calls, NEW a \in Agents, EnterAgent(c, a),
         ResumesCommand(call[c].st)
  PROVE  LET p == call[c].st.hitl_command IN
         /\ p \in Tickets /\ p <= issued /\ ticket[p].sess = call[c].sess
         /\ ticket'[p].turns = ticket[p].turns \cup {call[c].st.request_id}
         /\ ticket'[p].execs \in {ticket[p].execs, ticket[p].execs + 1}
         /\ ticket'[p].by = ticket[p].by /\ ticket'[p].sess = ticket[p].sess
         /\ ticket'[p].cuts = ticket[p].cuts /\ ticket'[p].decided = ticket[p].decided
         /\ \A q \in Tickets \ {p} : ticket'[q] = ticket[q]
         /\ ticket' \in [Tickets -> TicketRecord]
<1> DEFINE st == call[c].st
           p == st.hitl_command
<1>1. st \in AgentState /\ Good(call[c].sess, st, ticket, issued)
  BY CallFacts DEF CallOK
<1>2. p \in Tickets /\ p <= issued /\ ticket[p].sess = call[c].sess
  BY <1>1 DEF ResumesCommand, AgentState, Good, Flagged
<1>3. PICK n \in {ticket[p].execs, ticket[p].execs + 1} :
        ticket' = [ticket EXCEPT ![p].turns = @ \cup {st.request_id}, ![p].execs = n]
  BY <1>2 DEF EnterAgent, RunApproved
<1>4. ticket[p] \in TicketRecord
  BY <1>2 DEF IInv, TypeOK
<1>5. n \in Nat
  BY <1>4 DEF TicketRecord
<1> DEFINE new == [ticket[p] EXCEPT !.turns = @ \cup {st.request_id}, !.execs = n]
<1>6. new \in TicketRecord
  BY <1>1, <1>4, <1>5 DEF TicketRecord, AgentState
<1>7. ticket' = [ticket EXCEPT ![p] = new]
  BY <1>2, <1>3, <1>4 DEF IInv, TypeOK, TicketRecord
<1>8. ticket' \in [Tickets -> TicketRecord] /\ ticket'[p] = new
      /\ \A q \in Tickets \ {p} : ticket'[q] = ticket[q]
  BY <1>2, <1>6, <1>7 DEF IInv, TypeOK
<1>9. /\ new.turns = ticket[p].turns \cup {st.request_id} /\ new.execs = n
      /\ new.by = ticket[p].by /\ new.sess = ticket[p].sess /\ new.cuts = ticket[p].cuts
      /\ new.decided = ticket[p].decided
  BY <1>4 DEF TicketRecord
<1> QED
  BY <1>2, <1>3, <1>8, <1>9

\* What it printed came by a ticket of the session that this turn took up.
LEMMA EnterAgentStep ==
  ASSUME IInv, NEW c \in Calls, NEW a \in Agents, EnterAgent(c, a)
  PROVE  IInv'
<1> DEFINE st == call[c].st
           p == st.hitl_command
           count == st.command_count + IF ResumesCommand(st) THEN 1 ELSE 0
           log == IF ResumesCommand(st) THEN st.command_log \cup {ticket[p].by}
                  ELSE st.command_log
           st2 == [st EXCEPT !.command_log = log]
           r == [call[c] EXCEPT !.pc = "react", !.who = a, !.iteration = 1, !.count = count,
                                !.st = st2]
<1>1. RestTyped /\ thread' = thread /\ issued' = issued
  BY DEF IInv, TypeOK, EnterAgent, RestTyped
<1>2. st \in AgentState /\ Good(call[c].sess, st, ticket, issued)
      /\ ~(st.cleared /\ st.hitl_pending) /\ st.request_id # None /\ st.error = None
  <2>1. a \notin {"human_approval", "ended"} /\ a \notin Outside /\ a \in Clean
    BY ConstantsAssumption DEF Outside, Answers, Clean
  <2> QED
    BY <2>1, CallFacts DEF CallOK, AtStep, EnterAgent
<1>3. TicketsGrow
  <2>1. CASE ~ResumesCommand(st)
    BY <1>1, <2>1, TicketsStay DEF EnterAgent
  <2>2. CASE ResumesCommand(st)
    <3>1. \A q \in Tickets : TicketOK(q, ticket'[q], issued')
      BY <1>1, <2>2, TakesUp DEF IInv, TicketOK
    <3> QED
      BY <1>1, <2>2, <3>1, TakesUp DEF TicketsGrow, IInv, TypeOK
  <2> QED
    BY <2>1, <2>2
<1>4. count \in Nat /\ count <= cmd_max_per_session
  <2>1. st.command_count \in Nat /\ st.command_count <= cmd_max_per_session
    BY <1>2 DEF AgentState, Good, WithinLimit
  <2>2. CASE ResumesCommand(st)
    <3>1. st.command_count < cmd_max_per_session
      BY <1>2, <2>2 DEF ResumesCommand, Good, WithinLimit
    <3> QED
      BY <2>1, <2>2, <3>1, LimitType
  <2>3. CASE ~ResumesCommand(st)
    BY <2>1, <2>3
  <2> QED
    BY <2>2, <2>3
<1>5. call' = [call EXCEPT ![c] = r]
  <2>1. CASE ResumesCommand(st)
    <3>1. [st EXCEPT !.command_log = @ \cup {ticket[p].by}] = st2 /\ count = st.command_count + 1
      BY <1>2, <2>1 DEF AgentState
    <3>2. call' = [call EXCEPT ![c].pc = "react", ![c].who = a, ![c].iteration = 1,
                               ![c].count = count, ![c].st = st2]
      BY <2>1, <3>1, CallFacts DEF EnterAgent, IInv, TypeOK, CallRecord
    <3> HIDE DEF st2, count
    <3> QED
      BY <3>2, CallFacts DEF IInv, TypeOK, CallRecord
  <2>2. CASE ~ResumesCommand(st)
    <3>1. log = st.command_log
      BY <2>2
    <3>2. count = st.command_count
      <4>1. count = st.command_count + 0
        BY <2>2
      <4>2. st.command_count \in Nat
        BY <1>2 DEF AgentState
      <4> HIDE DEF st, count
      <4> QED
        BY <4>1, <4>2
    <3>3. st2 = [st EXCEPT !.command_log = st.command_log]
      BY <3>1
    <3>4. [st EXCEPT !.command_log = st.command_log] = st
      BY <1>2 DEF AgentState
    <3>5. r = [call[c] EXCEPT !.pc = "react", !.who = a, !.iteration = 1, !.count = count]
      <4>1. call[c] = [call[c] EXCEPT !.st = call[c].st]
        BY CallFacts DEF CallRecord
      <4>2. st2 = st
        BY <3>3, <3>4
      <4> HIDE DEF st2, count
      <4> QED
        BY <4>1, <4>2, CallFacts DEF CallRecord
    <3>6. call' = [call EXCEPT ![c].pc = "react", ![c].who = a, ![c].iteration = 1,
                               ![c].count = count]
      BY <2>2, <3>2 DEF EnterAgent
    <3> HIDE DEF r
    <3> QED
      BY <3>5, <3>6, CallFacts DEF IInv, TypeOK, CallRecord
  <2> QED
    BY <2>1, <2>2
<1>6. log \subseteq Calls
  <2>1. CASE ResumesCommand(st)
    <3>1. ticket[p].by \in Calls
      BY <2>1, TakesUp DEF IInv, TicketOK
    <3> QED
      BY <1>2, <2>1, <3>1 DEF AgentState
  <2>2. CASE ~ResumesCommand(st)
    BY <1>2, <2>2 DEF AgentState
  <2> QED
    BY <2>1, <2>2
<1>7. /\ st2 \in AgentState
      /\ st2.command_log = log /\ st2.cleared = st.cleared /\ st2.error = None
      /\ st2.hitl_pending = st.hitl_pending /\ st2.hitl_command = p
      /\ st2.request_id = st.request_id /\ st2.command_count = st.command_count
      /\ st2.analysis = st.analysis /\ st2.final_of = st.final_of
      /\ st2.final_by = st.final_by
  BY <1>2, <1>6 DEF AgentState
<1>8. r \in CallRecord /\ r.sess = call[c].sess /\ r.st = st2 /\ r.pc = "react"
      /\ r.count = count
  BY <1>4, <1>7, CallFacts DEF CallRecord, CallSteps
<1>9. Good(call[c].sess, st, ticket', issued')
  BY <1>2, <1>3, CallFacts, GoodStays
<1>10. Good(call[c].sess, st2, ticket', issued')
  <2> DEFINE known == Known(ticket', call[c].sess, st.request_id)
  <2>1. ResumesCommand(st) => ticket[p].by \in known
    BY TakesUp DEF Known
  <2>2. OwnData(st2, known)
    BY <1>7, <1>9, <2>1 DEF Good, OwnData, Analyses
  <2> QED
    BY <1>7, <1>9, <2>2 DEF Good, WithinLimit, Flagged
<1>11. CallOK(r, ticket', issued')
  BY <1>2, <1>4, <1>7, <1>8, <1>10 DEF CallOK, AtStep
<1> QED
  BY <1>1, <1>3, <1>5, <1>8, <1>11, MoveInv

\* What holds of the call in the loop of an agent.
LEMMA ReactFacts ==
  ASSUME IInv, NEW c \in Calls, call[c].pc = "react"
  PROVE  /\ call[c].st \in AgentState /\ Good(call[c].sess, call[c].st, ticket, issued)
         /\ ~(call[c].st.cleared /\ call[c].st.hitl_pending)
         /\ call[c].who \in Agents /\ call[c].count \in Nat
         /\ call[c].count <= cmd_max_per_session
         /\ call[c].st.request_id \in Calls /\ call[c].st.error = None
BY CallFacts DEF CallOK, AtStep, AgentState, Reqs, Outside, Answers, Clean

\* What the model of an agent was told is known in its turn.
LEMMA ToldKnown ==
  ASSUME IInv, NEW c \in Calls, call[c].pc = "react"
  PROVE  /\ Told(call[c].st) \subseteq Calls
         /\ call[c].st.cleared =>
              Told(call[c].st) \subseteq Known(ticket, call[c].sess, call[c].st.request_id)
<1>1. Analyses(call[c].st) \subseteq Calls /\ call[c].st.command_log \subseteq Calls
  <2>1. \A a \in Agents : call[c].st.analysis[a] \subseteq Calls
    BY ReactFacts DEF AgentState
  <2>2. call[c].st.command_log \subseteq Calls
    BY ReactFacts DEF AgentState
  <2>3. Analyses(call[c].st) \subseteq Calls
    BY <2>1 DEF Analyses
  <2> QED
    BY <2>2, <2>3
<1>2. call[c].st.request_id \in Known(ticket, call[c].sess, call[c].st.request_id)
  BY DEF Known
<1> QED
  BY <1>1, <1>2, ReactFacts DEF Told, Good, OwnData

\* An agent that is done leaves a good state, whatever of its own turn it analysed.
LEMMA DoneStateGood ==
  ASSUME IInv, NEW c \in Calls, call[c].pc = "react", NEW sources \in SUBSET Calls,
         call[c].st.cleared =>
           sources \subseteq Known(ticket, call[c].sess, call[c].st.request_id)
  PROVE  /\ DoneState(c, sources) \in AgentState
         /\ Good(call[c].sess, DoneState(c, sources), ticket, issued)
         /\ ~(DoneState(c, sources).cleared /\ DoneState(c, sources).hitl_pending)
         /\ DoneState(c, sources).error = call[c].st.error
         /\ DoneState(c, sources).request_id = call[c].st.request_id
<1> DEFINE old == call[c].st
           st == DoneState(c, sources)
<1>1. st \in AgentState
  BY DoneStateType DEF IInv
<1>2. /\ st.cleared = old.cleared /\ st.hitl_pending = old.hitl_pending
      /\ st.error = old.error /\ st.request_id = old.request_id
      /\ st.final_of = old.final_of /\ st.final_by = old.final_by
      /\ st.command_log = old.command_log
      /\ st.command_count = call[c].count /\ st.hitl_command = None
      /\ st.analysis = [old.analysis EXCEPT ![call[c].who] = sources]
  BY ReactFacts DEF DoneState, AgentState
<1>3. \A a \in Agents : st.analysis[a] = IF a = call[c].who THEN sources ELSE old.analysis[a]
  BY <1>2, ReactFacts DEF AgentState
<1>4. OwnData(st, Known(ticket, call[c].sess, st.request_id))
  <2>1. Analyses(st) \subseteq Analyses(old) \cup sources
    BY <1>3 DEF Analyses
  <2> QED
    BY <1>2, <2>1, ReactFacts DEF OwnData, Good
<1>5. WithinLimit(st) /\ Flagged(call[c].sess, st, ticket, issued)
  BY <1>2, ReactFacts DEF WithinLimit, Flagged
<1> QED
  BY <1>1, <1>2, <1>4, <1>5, ReactFacts DEF Good

\* Leaving with a good state, without a question unless the state says so.
LEMMA LeaveInv ==
  ASSUME IInv, TicketsGrow, RestTyped, NEW c \in Calls, NEW st \in AgentState,
         Leave(c, st), Good(call[c].sess, st, ticket', issued'),
         st.cleared /\ st.hitl_pending => st.hitl_command # None,
         st.request_id # None
  PROVE  IInv'
<1>1. PICK next \in {"human_approval", "router"} :
        next = RouteAfterAgent(st) /\ (next = "human_approval" <=> st.hitl_pending)
  BY DEF RouteAfterAgent, AgentState
<1>2. AtNode(next, st)
  BY <1>1, ConstantsAssumption DEF AtNode, Clean
<1> QED
  BY <1>1, <1>2, ReturnInv DEF Leave, Nodes

\* A failed model call ends the agent with an error.
LEMMA ReactErrorStep ==
  ASSUME IInv, NEW c \in Calls, ReactError(c)
  PROVE  IInv'
<1> DEFINE q == call[c].st.request_id
           done == DoneState(c, {q})
           st == [done EXCEPT !.error = q]
<1>1. TicketsGrow /\ RestTyped /\ UNCHANGED <<ticket, issued>> /\ Leave(c, st)
  BY TicketsStay DEF IInv, TypeOK, ReactError, History, RestTyped
<1>2. q \in Calls /\ q # None
  BY ReactFacts, ConstantsAssumption DEF ReactError, Looping, Calls, None
<1>3. done \in AgentState /\ Good(call[c].sess, done, ticket, issued)
      /\ ~(done.cleared /\ done.hitl_pending) /\ done.request_id = q
  <2>1. {q} \in SUBSET Calls /\ {q} \subseteq Known(ticket, call[c].sess, q)
    BY <1>2 DEF Known
  <2> QED
    BY <2>1, DoneStateGood DEF ReactError, Looping
<1>4. st \in AgentState /\ Good(call[c].sess, st, ticket, issued)
      /\ ~(st.cleared /\ st.hitl_pending) /\ st.request_id = q
  <2>1. /\ st.command_count = done.command_count /\ st.hitl_command = done.hitl_command
        /\ st.hitl_pending = done.hitl_pending /\ st.cleared = done.cleared
        /\ st.request_id = done.request_id /\ st.analysis = done.analysis
        /\ st.command_log = done.command_log /\ st.final_of = done.final_of
        /\ st.final_by = done.final_by /\ st.error = q
    BY <1>3 DEF AgentState
  <2>2. st \in AgentState
    BY <1>2, <1>3 DEF AgentState, Reqs
  <2> QED
    BY <1>3, <2>1, <2>2 DEF Good, WithinLimit, OwnData, Analyses, Flagged
<1> QED
  BY <1>1, <1>2, <1>4, LeaveInv

\* A final answer is added to the analysis of the agent.
LEMMA ReactAnswerStep ==
  ASSUME IInv, NEW c \in Calls, ReactAnswer(c)
  PROVE  IInv'
<1> DEFINE old == call[c].st
           q == old.request_id
           sources == Told(old)
           done == DoneState(c, sources)
<1>1. TicketsGrow /\ RestTyped /\ UNCHANGED <<ticket, issued>> /\ Leave(c, done)
  BY TicketsStay DEF IInv, TypeOK, ReactAnswer, History, RestTyped
<1>2. q \in Calls /\ q # None
  BY ReactFacts, ConstantsAssumption DEF ReactAnswer, Looping, Calls, None
<1>3. sources \in SUBSET Calls
      /\ (old.cleared => sources \subseteq Known(ticket, call[c].sess, q))
  BY ToldKnown DEF ReactAnswer, Looping
<1>4. done \in AgentState /\ Good(call[c].sess, done, ticket, issued)
      /\ ~(done.cleared /\ done.hitl_pending) /\ done.request_id = q
  BY <1>3, DoneStateGood DEF ReactAnswer, Looping
<1> QED
  BY <1>1, <1>2, <1>4, LeaveInv

\* The last answer is the analysis of the agent.
LEMMA ReactExhaustedStep ==
  ASSUME IInv, NEW c \in Calls, ReactExhausted(c)
  PROVE  IInv'
<1> DEFINE q == call[c].st.request_id
           done == DoneState(c, Told(call[c].st))
<1>1. TicketsGrow /\ RestTyped /\ UNCHANGED <<ticket, issued>> /\ Leave(c, done)
  BY TicketsStay DEF IInv, TypeOK, ReactExhausted, History, RestTyped
<1>2. q \in Calls /\ q # None
  BY ReactFacts, ConstantsAssumption DEF ReactExhausted, Calls, None
<1>3. done \in AgentState /\ Good(call[c].sess, done, ticket, issued)
      /\ ~(done.cleared /\ done.hitl_pending) /\ done.request_id = q
  BY <1>2, ToldKnown, DoneStateGood DEF ReactExhausted
<1> QED
  BY <1>1, <1>2, <1>3, LeaveInv

\* A step that stays in the loop of the agent, with its count within the limit.
LEMMA LoopInv ==
  ASSUME IInv, TicketsGrow, RestTyped, thread' = thread, NEW c \in Calls,
         call[c].pc = "react", NEW n \in Nat, NEW i \in Nat, n <= cmd_max_per_session,
         NEW log \in SUBSET Calls,
         log \subseteq call[c].st.command_log \cup {call[c].st.request_id},
         call' = [call EXCEPT ![c].iteration = i, ![c].count = n, ![c].st.command_log = log]
  PROVE  IInv'
<1> DEFINE old == call[c].st
           st == [old EXCEPT !.command_log = log]
           r == [call[c] EXCEPT !.iteration = i, !.count = n, !.st = st]
<1>1. call' = [call EXCEPT ![c] = r]
  BY CallFacts DEF IInv, TypeOK, CallRecord
<1>2. /\ st \in AgentState
      /\ st.command_log = log /\ st.cleared = old.cleared /\ st.error = old.error
      /\ st.hitl_pending = old.hitl_pending /\ st.hitl_command = old.hitl_command
      /\ st.request_id = old.request_id /\ st.command_count = old.command_count
      /\ st.analysis = old.analysis /\ st.final_of = old.final_of
      /\ st.final_by = old.final_by
  BY CallFacts DEF AgentState
<1>3. r \in CallRecord /\ r.sess = call[c].sess /\ r.st = st /\ r.pc = call[c].pc
      /\ r.count = n
  BY <1>2, CallFacts DEF CallRecord
<1>4. Good(call[c].sess, old, ticket', issued') /\ AtStep("react", old)
  BY OthersStay DEF CallOK
<1>5. Good(call[c].sess, st, ticket', issued')
  <2>1. old.request_id \in Known(ticket', call[c].sess, old.request_id)
    BY DEF Known
  <2>2. old.error = None
    BY ReactFacts
  <2>3. OwnData(st, Known(ticket', call[c].sess, old.request_id))
    BY <1>2, <1>4, <2>1, <2>2 DEF Good, OwnData, Analyses
  <2> QED
    BY <1>2, <1>4, <2>3 DEF Good, WithinLimit, Flagged
<1>6. AtStep("react", st)
  BY <1>2, <1>4 DEF AtStep, Outside, Answers
<1>7. CallOK(r, ticket', issued')
  BY <1>3, <1>5, <1>6 DEF CallOK
<1> QED
  BY <1>1, <1>3, <1>7, MoveInv

\* The count and the log a call has are those it has.
LEMMA SameCountAndLog ==
  ASSUME NEW r \in CallRecord, NEW i
  PROVE  [r EXCEPT !.iteration = i]
           = [r EXCEPT !.iteration = i, !.count = r.count, !.st.command_log = r.st.command_log]
<1>1. r.st \in AgentState
  BY DEF CallRecord
<1>2. [r.st EXCEPT !.command_log = r.st.command_log] = r.st
  BY <1>1 DEF AgentState
<1> DEFINE st == [r.st EXCEPT !.command_log = r.st.command_log]
<1>3. st = r.st
  BY <1>2
<1> HIDE DEF st
<1>4. [r EXCEPT !.iteration = i] = [r EXCEPT !.iteration = i, !.count = r.count, !.st = st]
  BY <1>3 DEF CallRecord
<1> QED
  BY <1>4 DEF st

\* A refused command only costs an iteration.
LEMMA ReactRefuseStep ==
  ASSUME IInv, NEW c \in Calls, ReactRefuse(c)
  PROVE  IInv'
<1> DEFINE n == call[c].count
           i == call[c].iteration + 1
<1>1. TicketsGrow /\ RestTyped /\ thread' = thread /\ call[c].pc = "react"
  BY TicketsStay DEF IInv, TypeOK, ReactRefuse, Looping, History, RestTyped
<1>2. n \in Nat /\ i \in Nat /\ n <= cmd_max_per_session
  BY <1>1, ReactFacts, CallFacts
<1> DEFINE log == call[c].st.command_log
<1>3. call' = [call EXCEPT ![c].iteration = i, ![c].count = n, ![c].st.command_log = log]
  <2>1. call[c] \in CallRecord /\ call \in [Calls -> CallRecord]
    BY CallFacts DEF IInv, TypeOK
  <2>2. call' = [call EXCEPT ![c].iteration = i]
    BY DEF ReactRefuse
  <2>3. [call[c] EXCEPT !.iteration = i]
          = [call[c] EXCEPT !.iteration = i, !.count = n, !.st.command_log = log]
    BY <2>1, SameCountAndLog
  <2> HIDE DEF i, n, log
  <2> QED
    BY <2>1, <2>2, <2>3
<1>4. log \in SUBSET Calls
  BY CallFacts DEF AgentState
<1> QED
  BY <1>1, <1>2, <1>3, <1>4, LoopInv

\* A command that is not paused on is counted, below the limit.
LEMMA ReactCommandStep ==
  ASSUME IInv, NEW c \in Calls, ReactCommand(c)
  PROVE  IInv'
<1> DEFINE n == call[c].count + 1
           i == call[c].iteration + 1
<1>1. RestTyped
  <2>1. PICK k \in Commands :
          unattended' \in {unattended, unattended \cup {Validated[call[c].who][k]}}
    BY DEF ReactCommand
  <2>2. Validated[call[c].who][k] \in Risks \cup {"denied"}
    BY CallFacts, ConstantsAssumption
  <2> QED
    BY <2>1, <2>2 DEF IInv, TypeOK, ReactCommand, RestTyped
<1>2. TicketsGrow /\ thread' = thread /\ call[c].pc = "react"
  BY TicketsStay DEF ReactCommand, Looping
<1>3. n \in Nat /\ i \in Nat /\ n <= cmd_max_per_session
  BY <1>2, ReactFacts, CallFacts, LimitType DEF ReactCommand, AtLimit
<1> DEFINE log == call[c].st.command_log \cup {call[c].st.request_id}
<1>4. call' = [call EXCEPT ![c].iteration = i, ![c].count = n, ![c].st.command_log = log]
  BY CallFacts DEF ReactCommand, IInv, TypeOK, CallRecord, AgentState
<1>5. log \in SUBSET Calls
  BY <1>2, ReactFacts, CallFacts DEF AgentState
<1> QED
  BY <1>1, <1>2, <1>3, <1>4, <1>5, LoopInv

\* A command that is paused on is a new ticket of the session.
LEMMA ReactPauseStep ==
  ASSUME IInv, NEW c \in Calls, ReactPause(c)
  PROVE  IInv'
<1> DEFINE old == call[c].st
           p == issued + 1
           st == [old EXCEPT !.hitl_pending = TRUE, !.hitl_command = p,
                             !.command_count = call[c].count]
<1>0. issued' = p /\ Leave(c, st) /\ call[c].pc = "react"
  BY DEF ReactPause, Looping
<1>1. RestTyped /\ issued' = p /\ Leave(c, st) /\ call[c].pc = "react"
  <2>1. PICK k \in Commands :
          unattended' \in {unattended, unattended \cup {Validated[call[c].who][k]}}
    BY DEF ReactPause
  <2>2. Validated[call[c].who][k] \in Risks \cup {"denied"}
    BY CallFacts, ConstantsAssumption
  <2> QED
    BY <1>0, <2>1, <2>2 DEF IInv, TypeOK, ReactPause, RestTyped
<1>2. p \in Tickets /\ p \in Nat /\ issued \in Nat /\ issued <= p /\ p # None
  BY ConstantsAssumption DEF ReactPause, IInv, TypeOK, Tickets, None
<1>3. PICK k \in Commands, outcome \in OutcomeKinds :
        ticket' = [ticket EXCEPT ![p] = NewTicket(c, k, outcome)]
  <2>1. PICK k \in Commands : \E outcome \in Outcomes(Validated[call[c].who][k], FALSE) :
          ticket' = [ticket EXCEPT ![p] = NewTicket(c, k, outcome)]
    BY DEF ReactPause, NewTicket
  <2>2. Outcomes(Validated[call[c].who][k], FALSE) \subseteq OutcomeKinds
    BY DEF Outcomes, OutcomesOf, OutcomeKinds
  <2> QED
    BY <2>1, <2>2
<1>4. TicketsGrow
  <2> DEFINE new == NewTicket(c, k, outcome)
  <2>1. new \in TicketRecord /\ new.by \in Calls
    BY <1>0, CallFacts, ReactFacts DEF TicketRecord, NewTicket, Reqs
  <2>2. ticket' \in [Tickets -> TicketRecord]
    BY <1>3, <2>1 DEF IInv, TypeOK
  <2>3. ticket'[p] = new /\ \A t \in Tickets : t # p => ticket'[t] = ticket[t]
    BY <1>2, <1>3 DEF IInv, TypeOK
  <2>4. \A t \in Tickets : t \in Nat
    BY ConstantsAssumption DEF Tickets
  <2>5. \A t \in Tickets : t <= issued => ticket'[t] = ticket[t]
    BY <1>2, <2>3, <2>4
  <2>6. \A t \in Tickets : TicketOK(t, ticket'[t], issued')
    BY <1>1, <1>2, <2>1, <2>3, <2>4 DEF IInv, TicketOK
  <2>7. issued' \in 0 .. MaxTickets /\ issued <= issued'
    BY <1>1, <1>2, ConstantsAssumption DEF Tickets
  <2> QED
    BY <2>2, <2>5, <2>6, <2>7 DEF TicketsGrow
<1>5. st \in AgentState
  <2>1. old \in AgentState /\ call[c].count \in Nat /\ p \in Tickets \cup {None}
    BY <1>1, <1>2, ReactFacts
  <2> QED
    BY <2>1 DEF AgentState
<1>6. /\ st.cleared = old.cleared /\ st.request_id = old.request_id
      /\ st.analysis = old.analysis /\ st.final_of = old.final_of
      /\ st.final_by = old.final_by /\ st.command_count = call[c].count
      /\ st.hitl_command = p /\ st.command_log = old.command_log /\ st.error = old.error
  BY <1>1, ReactFacts DEF AgentState
<1>7. Good(call[c].sess, st, ticket', issued')
  <2>1. OwnData(st, Known(ticket', call[c].sess, st.request_id))
    <3>1. Good(call[c].sess, old, ticket', issued')
      BY <1>1, <1>4, ReactFacts, CallFacts, GoodStays
    <3> QED
      BY <1>6, <3>1 DEF Good, OwnData, Analyses
  <2>2. WithinLimit(st)
    BY <1>1, <1>6, LimitType, ReactFacts DEF WithinLimit, ReactPause, AtLimit
  <2>3. ticket'[p].sess = call[c].sess
    BY <1>2, <1>3 DEF IInv, TypeOK, NewTicket
  <2>4. Flagged(call[c].sess, st, ticket', issued')
    BY <1>1, <1>2, <1>6, <2>3 DEF Flagged
  <2> QED
    BY <2>1, <2>2, <2>4 DEF Good
<1>8. st.request_id # None
  BY <1>1, <1>6, ReactFacts, ConstantsAssumption DEF Calls, None
<1> QED
  BY <1>1, <1>2, <1>4, <1>5, <1>6, <1>7, <1>8, LeaveInv

\* The node after the pause resets hitl_pending.
LEMMA HumanApprovalStep ==
  ASSUME IInv, NEW c \in Calls, HumanApproval(c)
  PROVE  IInv'
<1> DEFINE old == call[c].st
           st == [old EXCEPT !.hitl_pending = FALSE]
<1>1. TicketsGrow /\ RestTyped /\ UNCHANGED <<ticket, issued>> /\ Return(c, "router", st)
  BY TicketsStay DEF IInv, TypeOK, HumanApproval, History, RestTyped
<1>2. old \in AgentState /\ Good(call[c].sess, old, ticket, issued) /\ old.request_id # None
  BY CallFacts DEF CallOK, AtStep, HumanApproval, Outside, Answers
<1>3. st \in AgentState /\ Good(call[c].sess, st, ticket, issued) /\ ~st.hitl_pending
      /\ st.request_id # None
  <2>1. /\ st.command_count = old.command_count /\ st.hitl_command = old.hitl_command
        /\ st.analysis = old.analysis /\ st.command_log = old.command_log
        /\ st.final_of = old.final_of /\ st.final_by = old.final_by
        /\ st.request_id = old.request_id /\ st.cleared = old.cleared /\ st.error = old.error
        /\ ~st.hitl_pending /\ st \in AgentState
    BY <1>2 DEF AgentState
  <2> QED
    BY <1>2, <2>1 DEF Good, WithinLimit, OwnData, Analyses, Flagged
<1>4. AtNode("router", st)
  BY <1>3, ConstantsAssumption DEF AtNode, Clean
<1> QED
  BY <1>1, <1>3, <1>4, ReturnInv DEF Nodes

\* The review writes the final output from the analyses of the turn.
LEMMA SecurityReviewStep ==
  ASSUME IInv, NEW c \in Calls, SecurityReview(c)
  PROVE  IInv'
<1> DEFINE old == call[c].st
           q == old.request_id
           sources == IF Analyses(old) = {} THEN {} ELSE Analyses(old) \cup old.command_log
<1>1. TicketsGrow /\ RestTyped /\ UNCHANGED <<ticket, issued>>
  BY TicketsStay DEF IInv, TypeOK, SecurityReview, History, RestTyped
<1>2. old \in AgentState /\ Good(call[c].sess, old, ticket, issued)
      /\ ~(old.cleared /\ old.hitl_pending) /\ q # None /\ old.error = None
  BY CallFacts DEF CallOK, AtStep, SecurityReview, Outside, Answers, Clean
<1>3. q \in Calls /\ sources \in SUBSET Calls
  <2>1. q \in Calls
    BY <1>2 DEF AgentState, Reqs
  <2>2. \A a \in Agents : old.analysis[a] \subseteq Calls
    BY <1>2 DEF AgentState
  <2>3. old.command_log \subseteq Calls
    BY <1>2 DEF AgentState
  <2> QED
    BY <2>1, <2>2, <2>3 DEF Analyses
<1>4. PICK e \in {old.error, q}, of \in {sources, {}} :
        Return(c, "end", [old EXCEPT !.final_by = q, !.final_of = of, !.error = e])
  <2>1. [old EXCEPT !.final_by = q, !.final_of = sources]
          = [old EXCEPT !.final_by = q, !.final_of = sources, !.error = old.error]
    BY <1>2 DEF AgentState
  <2> QED
    BY <2>1 DEF SecurityReview
<1>5. PICK st : st = [old EXCEPT !.final_by = q, !.final_of = of, !.error = e]
  OBVIOUS
<1>6. st \in AgentState
  BY <1>2, <1>3, <1>4, <1>5 DEF AgentState, Reqs
<1>7. /\ st.cleared = old.cleared /\ st.request_id = q /\ st.analysis = old.analysis
      /\ st.final_of = of /\ st.final_by = q /\ st.command_count = old.command_count
      /\ st.hitl_command = old.hitl_command /\ st.hitl_pending = old.hitl_pending
      /\ st.command_log = old.command_log /\ st.error \in {None, q}
  BY <1>2, <1>4, <1>5 DEF AgentState
<1>8. Good(call[c].sess, st, ticket', issued')
  <2> DEFINE known == Known(ticket, call[c].sess, q)
  <2>1. old.cleared => sources \subseteq known
    BY <1>2 DEF Good, OwnData
  <2>2. OwnData(st, known)
    BY <1>2, <1>4, <1>7, <2>1 DEF Good, OwnData, Analyses
  <2> QED
    BY <1>1, <1>2, <1>7, <2>2 DEF Good, WithinLimit, Flagged
<1>9. AtNode("end", st)
  BY <1>2, <1>7, ConstantsAssumption DEF AtNode, Reviewed, Clean
<1> QED
  BY <1>1, <1>4, <1>5, <1>6, <1>8, <1>9, ReturnInv

\* A crash leaves the threads alone.
LEMMA CrashStep ==
  ASSUME IInv, Crash
  PROVE  IInv'
<1>1. TicketsGrow /\ UNCHANGED <<issued, thread, status, unattended>>
  BY CutOffGrows DEF Crash
<1>2. RestTyped
  BY ConstantsAssumption DEF IInv, TypeOK, Crash, RestTyped
<1>3. \A c \in Calls : call'[c] \in {call[c], Resting("lost")}
  BY DEF Crash
<1>4. call' \in [Calls -> CallRecord]
  <2>1. Resting("lost") \in CallRecord
    BY RestingType DEF Answers
  <2> QED
    BY <2>1 DEF IInv, TypeOK, Crash
<1>5. \A c \in Calls : CallOK(call'[c], ticket', issued')
  <2>1. CallOK(Resting("lost"), ticket', issued')
    BY RestingOK DEF Answers
  <2> QED
    BY <1>1, <1>3, <2>1, OthersStay
<1>6. TypeOK'
  BY <1>1, <1>2, <1>4 DEF IInv, TypeOK, TicketsGrow, RestTyped
<1> QED
  BY <1>1, <1>5, <1>6, OthersStay DEF IInv, TicketsGrow

-----------------------------------------------------------------------------
(***************************************************************************)
(* The invariant is inductive.                                             *)
(***************************************************************************)

\* Init establishes the invariant.
LEMMA InitInv == Init => IInv
<1> SUFFICES ASSUME Init PROVE IInv
  OBVIOUS
<1>1. (CHOOSE s \in Sessions : TRUE) \in Sessions /\ (CHOOSE k \in Commands : TRUE) \in Commands
  BY ConstantsAssumption
<1>2. MaxTickets \in Nat /\ MaxCrashes \in Nat
  BY ConstantsAssumption
<1>3. Resting("unused") \in CallRecord
  BY RestingType
<1>4. ticket \in [Tickets -> TicketRecord]
  BY <1>1 DEF Init, TicketRecord, OutcomeKinds, Reqs
<1>5. TypeOK
  BY <1>2, <1>3, <1>4, EmptyStateType DEF Init, TypeOK, Statuses
<1>6. \A s \in Sessions : ThreadOK(s, thread[s], ticket, issued)
  <2>1. AtNode("start", EmptyState)
    BY DEF AtNode, EmptyState
  <2> QED
    BY <2>1, EmptyGood DEF Init, ThreadOK
<1>7. \A c \in Calls : CallOK(call[c], ticket, issued)
  BY RestingOK DEF Init
<1>8. \A p \in Tickets : TicketOK(p, ticket[p], issued)
  <2>1. \A p \in Tickets : ~(p <= 0)
    BY ConstantsAssumption DEF Tickets
  <2> QED
    BY <2>1 DEF Init, TicketOK
<1> QED
  BY <1>5, <1>6, <1>7, <1>8 DEF IInv

\* A step in which nothing changes.
LEMMA StutterInv ==
  ASSUME IInv, UNCHANGED vars
  PROVE  IInv'
BY DEF IInv, TypeOK, vars

\* One step of one call.
LEMMA StepInv ==
  ASSUME IInv, NEW c \in Calls, Step(c)
  PROVE  IInv'
<1>1. ASSUME EmbedQuery(c) \/ StartGraph(c) \/ ResumeGraph(c) PROVE IInv'
  BY <1>1, EmbedQueryStep, StartGraphStep, ResumeGraphStep
<1>2. ASSUME IntentAnalyzer(c) \/ Router(c) PROVE IInv'
  BY <1>2, IntentAnalyzerStep, RouterStep
<1>3. ASSUME OsEngineer(c) \/ CloudEngineer(c) \/ FinopsAgent(c) PROVE IInv'
  BY <1>3, EnterAgentStep DEF OsEngineer, CloudEngineer, FinopsAgent
<1>4. ASSUME ReactError(c) \/ ReactAnswer(c) \/ ReactRefuse(c) PROVE IInv'
  BY <1>4, ReactErrorStep, ReactAnswerStep, ReactRefuseStep
<1>5. ASSUME ReactCommand(c) \/ ReactPause(c) \/ ReactExhausted(c) PROVE IInv'
  BY <1>5, ReactCommandStep, ReactPauseStep, ReactExhaustedStep
<1>6. ASSUME HumanApproval(c) \/ SecurityReview(c) PROVE IInv'
  BY <1>6, HumanApprovalStep, SecurityReviewStep
<1>7. ASSUME Finish(c) \/ PersistFinal(c) \/ Raise(c) PROVE IInv'
  BY <1>7, FinishStep, PersistFinalStep, RaiseStep
<1> QED
  BY <1>1, <1>2, <1>3, <1>4, <1>5, <1>6, <1>7 DEF Step

\* Every step keeps the invariant.
LEMMA NextInv == IInv /\ [Next]_vars => IInv'
<1> SUFFICES ASSUME IInv, [Next]_vars PROVE IInv'
  OBVIOUS
<1>1. ASSUME NEW c \in Calls, NEW s \in Sessions, Submit(c, s) PROVE IInv'
  BY <1>1, SubmitStep
<1>2. ASSUME NEW c \in Calls, NEW s \in Sessions, NEW d \in Decisions, Approve(c, s, d)
      PROVE  IInv'
  BY <1>2, ApproveStep
<1>3. ASSUME NEW c \in Calls, Step(c) PROVE IInv'
  BY <1>3, StepInv
<1>4. ASSUME Crash PROVE IInv'
  BY <1>4, CrashStep
<1>5. ASSUME UNCHANGED vars PROVE IInv'
  BY <1>5, StutterInv
<1> QED
  BY <1>1, <1>2, <1>3, <1>4, <1>5 DEF Next

\* The invariant holds in every reachable state.
LEMMA Inductive == Spec => []IInv
BY InitInv, NextInv, PTL DEF Spec

-----------------------------------------------------------------------------
(***************************************************************************)
(* The theorems: what follows from the invariant, for every number of      *)
(* sessions, agents, calls, tickets and crashes, every answer of the       *)
(* validator, and whether or not calls on one session overlap.             *)
(***************************************************************************)

\* The sessions table, the checkpoints and the calls always hold what the code may put there.
THEOREM TypeCorrect == Spec => []TypeOK
<1>1. IInv => TypeOK
  BY DEF IInv
<1> QED
  BY <1>1, Inductive, PTL

\* A state of a session is good, wherever it is.
LEMMA StatesGood ==
  ASSUME IInv, NEW s \in Sessions, NEW st \in StatesOf(s)
  PROVE  Good(s, st, ticket, issued)
BY DEF IInv, ThreadOK, CallOK, StatesOf

\* No turn counts more commands than cmd_max_per_session, approved commands included.
THEOREM CommandLimit == Spec => []LimitHolds
<1>1. IInv => LimitHolds
  BY StatesGood DEF LimitHolds, IInv, CallOK, Good
<1> QED
  BY <1>1, Inductive, PTL

\* What a cleared turn shows of another request came by a command of that request this turn
\* took up, and with the error of another request it shows nothing, whatever overlaps, is cut
\* off or crashes.
THEOREM TurnsDoNotBleed == Spec => []NoBleed
<1>1. IInv => NoBleed
  BY StatesGood DEF NoBleed, Good
<1> QED
  BY <1>1, Inductive, PTL

\* No run ends, without an error or a question, around the security review.
THEOREM ReviewIsMandatory == Spec => []ReviewedAtTheEnd
<1>1. IInv => ReviewedAtTheEnd
  BY DEF ReviewedAtTheEnd, IInv, ThreadOK, AtNode, CallOK, AtStep
<1> QED
  BY <1>1, Inductive, PTL

\* A thread stops for a human only with hitl_pending set; a cleared turn has it set only
\* there, and with a command to approve.
THEOREM PausesAreQuestions == Spec => []PauseIsAQuestion
<1>1. IInv => PauseIsAQuestion
  BY DEF PauseIsAQuestion, IInv, ThreadOK, AtNode
<1> QED
  BY <1>1, Inductive, PTL

\* A node that returns.
LEMMA ReturnedCall ==
  ASSUME IInv, NEW c \in Calls, NEW next, NEW st, Return(c, next, st)
  PROVE  /\ \A d \in Calls : d # c => call'[d] = call[d]
         /\ call'[c].st = st
         /\ call'[c].pc = IF next = "end" \/ Interrupts(next) THEN "ended" ELSE next
BY DEF Return, IInv, TypeOK, CallRecord

-----------------------------------------------------------------------------
(***************************************************************************)
(* Requests on a session one after the other.  Then what a call carries is *)
(* what is saved, and nobody else changes it: the invariant Serial adds    *)
(* that to IInv.                                                           *)
(***************************************************************************)
IdlePc == {"unused"} \cup Answers

\* The steps of a call that has loaded the thread of its session.
Loaded == Nodes \cup {"react", "ended", "persisting"}

\* The same request, with the same question, the same command waiting and the same rounds.
SameTurn(st, st2) ==
  /\ st2.request_id = st.request_id /\ st2.hitl_pending = st.hitl_pending
  /\ st2.hitl_command = st.hitl_command /\ st2.router_iterations = st.router_iterations

\* A call has the state of its thread, except that an agent in its loop has logged commands,
\* and ends only where the thread ended or pauses.
InStep(r, th) ==
  r.pc \in Loaded =>
    /\ SameTurn(th.st, r.st)
    /\ r.pc # "react" => r.st = th.st
    /\ r.pc \in {"ended", "persisting"} => th.next \in {"end", "human_approval"}
    /\ r.pc = "persisting" => ~r.st.hitl_pending

DoneThread(th) ==
  /\ th.next = "end" /\ th.st.error = None /\ ~th.st.hitl_pending
  /\ th.st.final_by = th.st.request_id

OneCall ==
  \A c, d \in Calls : InFlight(c) /\ InFlight(d) /\ call[c].sess = call[d].sess => c = d

\* While a session is shown as completed no call runs its graph.
Resumes(pc) == pc \in {"resuming", "ended", "persisting"}

Serial ==
  /\ IInv /\ ~Overlap
  /\ OneCall
  /\ \A c \in Calls : InFlight(c) =>
       /\ InStep(call[c], thread[call[c].sess])
       /\ status[call[c].sess] = "completed" => Resumes(call[c].pc)
  /\ \A s \in Sessions : status[s] = "completed" => DoneThread(thread[s])

\* A step of call c on session s, after which the call is r.
Acts(c, s, r) ==
  /\ call' = [call EXCEPT ![c] = r]
  /\ (InFlight(c) /\ call[c].sess = s) \/ MayStart(c, s)
  /\ r.pc \in IdlePc \/ r.sess = s
  /\ \A t \in Sessions : t # s => thread'[t] = thread[t] /\ status'[t] = status[t]

\* Nobody else is under way on the session of a call that takes a step.
LEMMA Alone ==
  ASSUME Serial, NEW c \in Calls, NEW s \in Sessions,
         (InFlight(c) /\ call[c].sess = s) \/ MayStart(c, s),
         NEW d \in Calls, d # c, InFlight(d)
  PROVE  call[d].sess # s
BY DEF Serial, OneCall, MayStart

\* A step keeps the invariant when it is right for its own call and session.
LEMMA SerialStep ==
  ASSUME Serial, IInv', NEW c \in Calls, NEW s \in Sessions, NEW r, Acts(c, s, r),
         r.pc \notin IdlePc =>
           InStep(r, thread'[s]) /\ (status'[s] = "completed" => Resumes(r.pc)),
         status'[s] = "completed" => DoneThread(thread'[s])
  PROVE  Serial'
<1>1. call'[c] = r /\ \A d \in Calls : d # c => call'[d] = call[d]
  BY DEF Acts, Serial, IInv, TypeOK
<1>2. \A d \in Calls : d # c /\ InFlight(d)' =>
        InFlight(d) /\ call[d].sess # s /\ call[d].sess \in Sessions
  BY <1>1, Alone DEF Acts, InFlight, Idle, Serial, IInv, TypeOK, CallRecord
<1>3. InFlight(c)' => r.sess = s /\ r.pc \notin IdlePc
  BY <1>1 DEF Acts, InFlight, Idle, IdlePc
<1>4. OneCall'
  BY <1>1, <1>2, <1>3 DEF Serial, OneCall
<1>5. ASSUME NEW d \in Calls, InFlight(d)'
      PROVE  /\ InStep(call'[d], thread'[call'[d].sess])
             /\ status'[call'[d].sess] = "completed" => Resumes(call'[d].pc)
  <2>1. CASE d = c
    BY <1>1, <1>3, <1>5, <2>1
  <2>2. CASE d # c
    BY <1>1, <1>2, <1>5, <2>2 DEF Acts, Serial
  <2> QED
    BY <2>1, <2>2
<1>6. \A t \in Sessions : status'[t] = "completed" => DoneThread(thread'[t])
  BY DEF Acts, Serial
<1> QED
  BY <1>4, <1>5, <1>6 DEF Serial

\* The names of the steps, apart.
LEMMA StepNames ==
  ASSUME NEW pc \in Nodes
  PROVE  /\ pc \notin IdlePc
         /\ pc \notin {"embedding", "loading", "resuming", "react", "ended", "persisting",
                       "start", "end"}
BY ConstantsAssumption DEF Nodes, IdlePc, Answers

\* A node returns.
LEMMA SerialReturn ==
  ASSUME Serial, IInv', NEW c \in Calls, InFlight(c), ~Resumes(call[c].pc), status' = status,
         NEW next \in Nodes \cup {"end"}, NEW st, Return(c, next, st)
  PROVE  /\ Serial'
         /\ call'[c].pc \in Nodes \cup {"ended"}
         /\ thread'[call[c].sess].st = st
         /\ \E r : Acts(c, call[c].sess, r)
<1> DEFINE s  == call[c].sess
           pc == IF next = "end" \/ Interrupts(next) THEN "ended" ELSE next
           r  == [call[c] EXCEPT !.st = st, !.pc = pc, !.iteration = 0, !.count = 0]
<1>1. call[c] \in CallRecord /\ s \in Sessions
  BY CallFacts DEF Serial
<1>2. call' = [call EXCEPT ![c] = r] /\ thread' = [thread EXCEPT ![s] = [next |-> next, st |-> st]]
  BY <1>1 DEF Return, CallRecord, Serial, IInv, TypeOK
<1>3. r.sess = s /\ r.st = st /\ r.pc = pc
  BY <1>1 DEF CallRecord
<1>4. thread'[s] = [next |-> next, st |-> st] /\ \A t \in Sessions : t # s => thread'[t] = thread[t]
  BY <1>1, <1>2 DEF Serial, IInv, TypeOK
<1>5. call'[c] = r
  BY <1>2 DEF Serial, IInv, TypeOK
<1> HIDE DEF r
<1>6. Acts(c, s, r)
  BY <1>2, <1>3, <1>4 DEF Acts
<1>7. pc # "persisting" /\ (pc = "ended" => next \in {"end", "human_approval"})
  BY StepNames DEF Interrupts
<1>8. status[s] # "completed"
  BY DEF Serial
<1>9. Serial'
  BY <1>1, <1>3, <1>4, <1>6, <1>7, <1>8, SerialStep DEF InStep, SameTurn
<1> QED
  BY <1>3, <1>4, <1>5, <1>6, <1>9

\* A call is answered: it may say completed only of a thread that is done.
LEMMA SerialAnswer ==
  ASSUME Serial, IInv', NEW c \in Calls, InFlight(c), thread' = thread,
         NEW pc \in Answers, Answer(c, pc),
         status' = status \/ \E v : /\ status' = [status EXCEPT ![call[c].sess] = v]
                                    /\ v = "completed" => DoneThread(thread[call[c].sess])
  PROVE  Serial'
<1> DEFINE s == call[c].sess
<1>1. s \in Sessions
  BY CallFacts DEF Serial
<1>2. Acts(c, s, Resting(pc)) /\ Resting(pc).pc \in IdlePc
  BY DEF Acts, Answer, Resting, IdlePc, Serial, IInv, TypeOK
<1>3. status'[s] = "completed" => DoneThread(thread'[s])
  BY <1>1 DEF Serial, IInv, TypeOK
<1> QED
  BY <1>1, <1>2, <1>3, SerialStep

-----------------------------------------------------------------------------
\* A request arrives on a session where none is under way.
LEMMA SubmitSerial ==
  ASSUME Serial, IInv', NEW c \in Calls, NEW s \in Sessions, Submit(c, s)
  PROVE  Serial'
<1> DEFINE r == [call[c] EXCEPT !.pc = "embedding", !.kind = "analyze", !.sess = s]
<1>1. call' = [call EXCEPT ![c] = r] /\ r.sess = s /\ r.pc = "embedding"
  BY CallFacts DEF Submit, Serial, IInv, TypeOK, CallRecord
<1>2. status'[s] = "analyzing" /\ \A t \in Sessions : t # s => status'[t] = status[t]
  BY DEF Submit, Serial, IInv, TypeOK
<1>3. r.pc \notin Loaded
  BY <1>1, StepNames DEF Loaded
<1> HIDE DEF r
<1>4. Acts(c, s, r)
  BY <1>1, <1>2 DEF Acts, Submit
<1> QED
  BY <1>1, <1>2, <1>3, <1>4, SerialStep DEF InStep

LEMMA ApproveSerial ==
  ASSUME Serial, IInv', NEW c \in Calls, NEW s \in Sessions, NEW d \in Decisions,
         Approve(c, s, d)
  PROVE  Serial'
<1> DEFINE r == [call[c] EXCEPT !.pc = "resuming", !.kind = "approve", !.sess = s]
<1>1. call' = [call EXCEPT ![c] = r] /\ r.sess = s /\ r.pc = "resuming"
  BY CallFacts DEF Approve, Serial, IInv, TypeOK, CallRecord
<1>2. r.pc \notin Loaded
  BY <1>1, StepNames DEF Loaded
<1>3. status' = status /\ thread' = thread
  BY DEF Approve
<1> HIDE DEF r
<1>4. Acts(c, s, r)
  BY <1>1, <1>3 DEF Acts, Approve
<1>5. status'[s] = "completed" => DoneThread(thread'[s])
  BY <1>3 DEF Serial
<1> QED
  BY <1>1, <1>2, <1>4, <1>5, SerialStep DEF InStep, Resumes

\* The nodes, and the agents when they leave their loop, return.
LEMMA NodeReturns ==
  ASSUME Serial, NEW c \in Calls,
         \/ StartGraph(c) \/ IntentAnalyzer(c) \/ Router(c)
         \/ ReactError(c) \/ ReactAnswer(c) \/ ReactPause(c) \/ ReactExhausted(c)
         \/ HumanApproval(c) \/ SecurityReview(c)
  PROVE  /\ InFlight(c) /\ ~Resumes(call[c].pc) /\ status' = status
         /\ \E next \in Nodes \cup {"end"} : \E st : Return(c, next, st)
<1>1. call[c].pc \in {"loading", "intent_analyzer", "router", "react", "human_approval",
                      "security_review"}
  BY DEF StartGraph, IntentAnalyzer, Router, ReactError, ReactAnswer, ReactPause,
         ReactExhausted, Looping, HumanApproval, SecurityReview
<1>2. InFlight(c) /\ ~Resumes(call[c].pc)
  BY <1>1 DEF InFlight, Idle, Answers, Resumes
<1>3. status' = status
  BY DEF StartGraph, IntentAnalyzer, Router, ReactError, ReactAnswer, ReactPause,
         ReactExhausted, HumanApproval, SecurityReview
<1>4. {"intent_analyzer", "router", "human_approval", "security_review"} \subseteq Nodes
      /\ Agents \subseteq Nodes
  BY DEF Nodes
<1>5. CASE Router(c)
  <2>1. \E target \in Agents \cup {"security_review"} :
          \E st : Return(c, RouteAfterRouter(st, target), st)
    BY <1>5 DEF Router
  <2> PICK target \in Agents \cup {"security_review"} :
        \E st : Return(c, RouteAfterRouter(st, target), st)
    BY <2>1
  <2>2. PICK st : Return(c, RouteAfterRouter(st, target), st)
    OBVIOUS
  <2>3. RouteAfterRouter(st, target) \in Nodes \cup {"end"}
    BY <1>4 DEF RouteAfterRouter
  <2> QED
    BY <1>2, <1>3, <2>2, <2>3
<1>6. CASE IntentAnalyzer(c)
  <2>1. PICK st : Return(c, RouteAfterIntent(st), st)
    BY <1>6 DEF IntentAnalyzer
  <2>2. RouteAfterIntent(st) \in Nodes
    BY <1>4 DEF RouteAfterIntent
  <2> QED
    BY <1>2, <1>3, <2>1, <2>2
<1>7. CASE ReactError(c) \/ ReactAnswer(c) \/ ReactPause(c) \/ ReactExhausted(c)
  <2>1. PICK st : Return(c, RouteAfterAgent(st), st)
    BY <1>7 DEF ReactError, ReactAnswer, ReactPause, ReactExhausted, Leave
  <2>2. RouteAfterAgent(st) \in Nodes
    BY <1>4 DEF RouteAfterAgent
  <2> QED
    BY <1>2, <1>3, <2>1, <2>2
<1>8. CASE StartGraph(c) \/ HumanApproval(c) \/ SecurityReview(c)
  <2>1. PICK next \in {"intent_analyzer", "router", "end"} : \E st : Return(c, next, st)
    BY <1>8 DEF StartGraph, HumanApproval, SecurityReview
  <2> QED
    BY <1>2, <1>3, <1>4, <2>1
<1> QED
  BY <1>5, <1>6, <1>7, <1>8

\* A call that goes on with the state it has, without saving.
LEMMA SerialMove ==
  ASSUME Serial, IInv', NEW c \in Calls, InFlight(c), ~Resumes(call[c].pc),
         thread' = thread, status' = status, NEW r, call' = [call EXCEPT ![c] = r],
         r.sess = call[c].sess, r.pc \notin {"ended", "persisting"},
         r.pc \in Loaded => /\ call[c].pc \in Loaded /\ r.pc = "react"
                            /\ SameTurn(call[c].st, r.st)
  PROVE  Serial'
<1> DEFINE s == call[c].sess
<1>1. s \in Sessions
  BY CallFacts DEF Serial
<1>2. Acts(c, s, r)
  BY DEF Acts
<1>3. status'[s] # "completed"
  BY DEF Serial
<1>4. InStep(r, thread'[s])
  BY DEF InStep, SameTurn, Serial
<1> QED
  BY <1>1, <1>2, <1>3, <1>4, SerialStep

LEMMA EmbedSerial ==
  ASSUME Serial, IInv', NEW c \in Calls, EmbedQuery(c)
  PROVE  Serial'
<1> DEFINE r == [call[c] EXCEPT !.pc = "loading"]
<1>1. InFlight(c) /\ ~Resumes(call[c].pc)
  BY DEF EmbedQuery, InFlight, Idle, Answers, Resumes
<1>2. CASE Answer(c, "http_500")
  BY <1>1, <1>2, SerialAnswer DEF EmbedQuery, Answers
<1>3. CASE call' = [call EXCEPT ![c].pc = "loading"]
  <2>1. call' = [call EXCEPT ![c] = r] /\ r.sess = call[c].sess /\ r.pc = "loading"
    BY <1>3, CallFacts DEF Serial, CallRecord
  <2>2. r.pc \notin Loaded
    BY <2>1, StepNames DEF Loaded
  <2> QED
    BY <1>1, <2>1, <2>2, SerialMove DEF EmbedQuery
<1> QED
  BY <1>2, <1>3 DEF EmbedQuery

\* The thread of a completed session is at its end, and the call that resumes it ends.
LEMMA ResumeSerial ==
  ASSUME Serial, IInv', NEW c \in Calls, ResumeGraph(c)
  PROVE  Serial'
<1> DEFINE s == call[c].sess
           saved == thread[s]
           pc == IF saved.next = "end" THEN "ended" ELSE saved.next
           r == [call[c] EXCEPT !.st = saved.st, !.pc = pc]
<1>1. InFlight(c) /\ s \in Sessions /\ saved.next \in Nodes \cup {"start", "end"}
  BY CallFacts DEF ResumeGraph, InFlight, Idle, Answers, Serial
<1>2. CASE saved.next = "start"
  BY <1>1, <1>2, SerialAnswer DEF ResumeGraph, Answers
<1>3. CASE saved.next # "start"
  <2>1. call' = [call EXCEPT ![c] = r] /\ r.sess = s /\ r.pc = pc /\ r.st = saved.st
    BY <1>3, CallFacts DEF ResumeGraph, Serial, IInv, TypeOK, CallRecord
  <2>2. thread' = thread /\ status' = status
    BY DEF ResumeGraph
  <2>3. saved.next # "end" => pc \notin {"ended", "persisting"}
    BY <1>1, <1>3, StepNames
  <2> HIDE DEF r
  <2>4. Acts(c, s, r)
    BY <1>1, <2>1, <2>2 DEF Acts
  <2>5. InStep(r, thread'[s])
    BY <2>1, <2>2, <2>3 DEF InStep, SameTurn
  <2>6. status'[s] = "completed" => Resumes(r.pc) /\ DoneThread(thread'[s])
    BY <1>1, <2>1, <2>2 DEF Serial, DoneThread, Resumes
  <2> QED
    BY <1>1, <2>4, <2>5, <2>6, SerialStep
<1> QED
  BY <1>2, <1>3

\* An agent starts its loop, or goes on in it: the call keeps its session, and its state but
\* for the log of commands.
LEMMA LoopKeeps ==
  ASSUME TypeOK, NEW c \in Calls,
         (\E a \in Agents : EnterAgent(c, a)) \/ ReactRefuse(c) \/ ReactCommand(c)
  PROVE  /\ call[c].pc \in Agents \cup {"react"} /\ thread' = thread /\ status' = status
         /\ call'[c].pc = "react" /\ call'[c].sess = call[c].sess
         /\ SameTurn(call[c].st, call'[c].st)
         /\ \A d \in Calls : d # c => call'[d] = call[d]
         /\ \/ call[c].pc \in Agents /\ call'[c].iteration = 1
            \/ /\ call[c].pc = "react" /\ call[c].iteration <= cmd_max_iterations
               /\ call'[c].iteration = call[c].iteration + 1
<1>1. call \in [Calls -> CallRecord] /\ call[c] \in CallRecord /\ call[c].st \in AgentState
  BY DEF TypeOK, CallRecord
<1>2. CASE \E a \in Agents : EnterAgent(c, a)
  <2>1. PICK a \in Agents : EnterAgent(c, a)
    BY <1>2
  <2>2. call[c].pc = a /\ thread' = thread /\ status' = status
    BY <2>1 DEF EnterAgent
  <2>3. CASE ResumesCommand(call[c].st)
    <3> DEFINE log == call[c].st.command_log \cup {ticket[call[c].st.hitl_command].by}
               n   == call[c].st.command_count + 1
    <3>1. call' = [call EXCEPT ![c].pc = "react", ![c].who = a, ![c].iteration = 1,
                               ![c].count = n, ![c].st.command_log = log]
      BY <2>1, <2>3 DEF EnterAgent
    <3> HIDE DEF log, n
    <3> QED
      BY <1>1, <2>2, <3>1 DEF CallRecord, AgentState, SameTurn
  <2>4. CASE ~ResumesCommand(call[c].st)
    <3>1. PICK n : call' = [call EXCEPT ![c].pc = "react", ![c].who = a, ![c].iteration = 1,
                                       ![c].count = n]
      BY <2>1, <2>4 DEF EnterAgent
    <3> QED
      BY <1>1, <2>2, <3>1 DEF CallRecord, SameTurn
  <2> QED
    BY <2>3, <2>4
<1>3. CASE ReactRefuse(c)
  <2>1. /\ call' = [call EXCEPT ![c].iteration = @ + 1]
        /\ call[c].pc = "react" /\ call[c].iteration <= cmd_max_iterations
        /\ thread' = thread /\ status' = status
    BY <1>3 DEF ReactRefuse, Looping
  <2> QED
    BY <1>1, <2>1 DEF CallRecord, SameTurn
<1>4. CASE ReactCommand(c)
  <2>1. /\ call' = [call EXCEPT ![c].iteration = @ + 1, ![c].count = @ + 1,
                                ![c].st.command_log = @ \cup {call[c].st.request_id}]
        /\ call[c].pc = "react" /\ call[c].iteration <= cmd_max_iterations
        /\ thread' = thread /\ status' = status
    BY <1>4 DEF ReactCommand, Looping
  <2> QED
    BY <1>1, <2>1 DEF CallRecord, AgentState, SameTurn
<1> QED
  BY <1>2, <1>3, <1>4

LEMMA LoopSerial ==
  ASSUME Serial, IInv', NEW c \in Calls,
         (\E a \in Agents : EnterAgent(c, a)) \/ ReactRefuse(c) \/ ReactCommand(c)
  PROVE  Serial'
<1>1. /\ call[c].pc \in Agents \cup {"react"} /\ thread' = thread /\ status' = status
      /\ call'[c].pc = "react" /\ call'[c].sess = call[c].sess
      /\ SameTurn(call[c].st, call'[c].st)
      /\ \A d \in Calls : d # c => call'[d] = call[d]
  BY LoopKeeps DEF Serial, IInv
<1>2. call' = [call EXCEPT ![c] = call'[c]]
  BY <1>1 DEF Serial, IInv, TypeOK
<1>3. InFlight(c) /\ ~Resumes(call[c].pc) /\ call[c].pc \in Loaded
  BY <1>1, StepNames DEF Nodes, IdlePc, InFlight, Idle, Answers, Resumes, Loaded
<1> QED
  BY <1>1, <1>2, <1>3, SerialMove

\* The status a call writes is that of the thread.
LEMMA FinishSerial ==
  ASSUME Serial, IInv', NEW c \in Calls, Finish(c)
  PROVE  Serial'
<1> DEFINE s  == call[c].sess
           st == call[c].st
           r  == [call[c] EXCEPT !.pc = "persisting"]
<1>1. InFlight(c) /\ s \in Sessions /\ call[c].pc = "ended" /\ thread' = thread
  BY CallFacts DEF Finish, InFlight, Idle, Answers, Serial
<1>2. /\ st = thread[s].st /\ thread[s].next \in {"end", "human_approval"}
      /\ (thread[s].next = "human_approval" => st.hitl_pending)
      /\ Reviewed(st)
  BY <1>1, CallFacts DEF Serial, InStep, Loaded, ThreadOK, AtNode, CallOK, AtStep
<1>3. StatusOf(st) = "completed" => DoneThread(thread[s])
  BY <1>2 DEF StatusOf, DoneThread, Reviewed
<1>4. status' = [status EXCEPT ![s] = StatusOf(st)]
  BY DEF Finish
<1>5. CASE st.hitl_pending \/ st.final_by = None
  <2>1. PICK pc \in Answers : Answer(c, pc)
    BY <1>5 DEF Finish, StatusOf, Answers
  <2> QED
    BY <1>1, <1>3, <1>4, <2>1, SerialAnswer
<1>6. CASE ~(st.hitl_pending \/ st.final_by = None)
  <2>1. call' = [call EXCEPT ![c] = r] /\ r.sess = s /\ r.pc = "persisting" /\ r.st = st
    BY <1>6, CallFacts DEF Finish, Serial, CallRecord
  <2> HIDE DEF r
  <2>2. status'[s] = StatusOf(st) /\ \A t \in Sessions : t # s => status'[t] = status[t]
    BY <1>1, <1>4 DEF Serial, IInv, TypeOK
  <2>3. Acts(c, s, r) /\ InStep(r, thread'[s])
    BY <1>1, <1>2, <1>6, <2>1, <2>2 DEF Acts, InStep, SameTurn
  <2> QED
    BY <1>1, <1>3, <2>1, <2>2, <2>3, SerialStep DEF Resumes
<1> QED
  BY <1>5, <1>6

LEMMA PersistSerial ==
  ASSUME Serial, IInv', NEW c \in Calls, PersistFinal(c)
  PROVE  Serial'
<1>1. InFlight(c) /\ thread' = thread
  BY DEF PersistFinal, InFlight, Idle, Answers
<1>2. PICK pc \in Answers : Answer(c, pc)
  BY DEF PersistFinal, Answers
<1>3. status' \in {status, [status EXCEPT ![call[c].sess] = "failed"]}
  BY DEF PersistFinal
<1> QED
  BY <1>1, <1>2, <1>3, SerialAnswer

LEMMA RaiseSerial ==
  ASSUME Serial, IInv', NEW c \in Calls, Raise(c)
  PROVE  Serial'
<1>1. InFlight(c)
  <2>1. \/ call[c].pc \in {"loading", "resuming", "react"}
        \/ call[c].pc \in Nodes
    BY DEF Raise, Nodes
  <2> QED
    BY <2>1, StepNames DEF InFlight, Idle, Answers, IdlePc
<1>2. status' \in {status, [status EXCEPT ![call[c].sess] = "failed"]} /\ thread' = thread
  BY DEF Raise
<1> QED
  BY <1>1, <1>2, SerialAnswer DEF Raise, Answers

\* Every step keeps the invariant, crashes included: the threads stay, and so do the sessions.
LEMMA NextSerial == Serial /\ [Next]_vars => Serial'
<1> SUFFICES ASSUME Serial, [Next]_vars PROVE Serial'
  OBVIOUS
<1>1. IInv'
  BY NextInv DEF Serial
<1>2. ASSUME NEW c \in Calls, Step(c) PROVE Serial'
  <2>1. CASE EmbedQuery(c) \/ ResumeGraph(c)
    BY <1>1, <2>1, EmbedSerial, ResumeSerial
  <2>2. CASE \/ OsEngineer(c) \/ CloudEngineer(c) \/ FinopsAgent(c)
             \/ ReactRefuse(c) \/ ReactCommand(c)
    BY <1>1, <2>2, LoopSerial DEF OsEngineer, CloudEngineer, FinopsAgent
  <2>3. CASE Finish(c) \/ PersistFinal(c) \/ Raise(c)
    BY <1>1, <2>3, FinishSerial, PersistSerial, RaiseSerial
  <2>4. CASE \/ StartGraph(c) \/ IntentAnalyzer(c) \/ Router(c)
             \/ ReactError(c) \/ ReactAnswer(c) \/ ReactPause(c) \/ ReactExhausted(c)
             \/ HumanApproval(c) \/ SecurityReview(c)
    BY <1>1, <2>4, NodeReturns, SerialReturn
  <2> QED
    BY <1>2, <2>1, <2>2, <2>3, <2>4 DEF Step
<1>3. CASE Crash
  <2>1. ASSUME NEW c \in Calls PROVE ~InFlight(c)'
    <3>1. call'[c] = IF InFlight(c) THEN Resting("lost") ELSE call[c]
      BY <1>3 DEF Crash
    <3>2. Resting("lost").pc = "lost"
      BY DEF Resting
    <3>3. call'[c].pc \in {"unused"} \cup Answers
      BY <3>1, <3>2 DEF InFlight, Idle, Answers
    <3> QED
      BY <3>3 DEF InFlight, Idle
  <2> QED
    BY <1>1, <1>3, <2>1 DEF Crash, Serial, OneCall
<1>4. CASE UNCHANGED vars
  BY <1>1, <1>4 DEF vars, Serial, OneCall, InFlight, Idle
<1> QED
  BY <1>1, <1>2, <1>3, <1>4, SubmitSerial, ApproveSerial DEF Next

LEMMA InitSerial == Init /\ ~Overlap => Serial
<1> SUFFICES ASSUME Init, ~Overlap PROVE Serial
  OBVIOUS
<1>1. \A c \in Calls : ~InFlight(c)
  BY DEF Init, Resting, InFlight, Idle
<1> QED
  BY <1>1, InitInv DEF Init, Serial, OneCall

\* With requests on a session one after the other, a session shown as completed has a thread
\* that ended reviewed, without an error or a question, through crashes and failures too.
THEOREM CompletedMeansDone == ASSUME ~Overlap PROVE Spec => []CompletedIsDone
<1>1. Init => Serial
  BY InitSerial
<1>2. Serial => CompletedIsDone
  BY DEF Serial, CompletedIsDone, DoneThread
<1> QED
  BY <1>1, <1>2, NextSerial, PTL DEF Spec

-----------------------------------------------------------------------------
(***************************************************************************)
(* A command that waited runs once, when requests come one after the       *)
(* other, and once more for every agent that was cut off after it ran it.  *)
(***************************************************************************)
InLoop(s) == \E c \in Calls : call[c].sess = s /\ call[c].pc = "react"

\* Only the agent that is in its loop may have run the command its thread still shows.
Fresh(s) ==
  Waits(s) # None /\ ~InLoop(s) => ticket[Waits(s)].execs = ticket[Waits(s)].cuts

\* A command was run once more than its agents were cut off, or not.
Counted == \A p \in Tickets : ticket[p].execs \in {ticket[p].cuts, ticket[p].cuts + 1}

Once ==
  /\ Serial
  /\ Counted
  /\ \A s \in Sessions : Fresh(s)

\* A step of call c, under way or arriving on session s, that touches no other session.
Own(c, s) == (InFlight(c) /\ call[c].sess = s) \/ MayStart(c, s)

OnlyOn(c, s) ==
  /\ Own(c, s)
  /\ \A d \in Calls : d # c => call'[d] = call[d]
  /\ call'[c].pc \in IdlePc \/ call'[c].sess = s
  /\ \A t \in Sessions : t # s => thread'[t] = thread[t]

\* A step that runs a command not at all.
SameRuns(p) == ticket'[p].execs = ticket[p].execs /\ ticket'[p].cuts = ticket[p].cuts

\* A step keeps the invariant when it does so for its own session.
LEMMA OnceStep ==
  ASSUME Once, Serial', NEW c \in Calls, NEW s \in Sessions, OnlyOn(c, s), Counted', Fresh(s)',
         \A t \in Sessions : t # s /\ Waits(t) # None => SameRuns(Waits(t))
  PROVE  Once'
<1>1. ASSUME NEW t \in Sessions, t # s PROVE Fresh(t)'
  <2>1. Waits(t)' = Waits(t)
    BY <1>1 DEF OnlyOn, Waits
  <2>2. InLoop(t) => InLoop(t)'
    <3>1. ASSUME NEW d \in Calls, call[d].sess = t, call[d].pc = "react" PROVE call'[d] = call[d]
      <4>1. InFlight(d) /\ ~MayStart(d, s)
        BY <3>1 DEF InFlight, Idle, Answers, MayStart, NextCall
      <4> QED
        BY <1>1, <3>1, <4>1 DEF OnlyOn, Own
    <3> QED
      BY <3>1 DEF InLoop
  <2>3. Fresh(t)
    BY DEF Once
  <2> QED
    BY <1>1, <2>1, <2>2, <2>3 DEF Fresh, SameRuns
<1> QED
  BY <1>1 DEF Once

\* The request that has a session, and is not in its loop, is the only one there.
LEMMA OutsideLoop ==
  ASSUME Once, NEW c \in Calls, NEW s \in Sessions, Own(c, s),
         call[c].pc # "react" \/ MayStart(c, s)
  PROVE  ~InLoop(s)
<1>1. ASSUME NEW d \in Calls, call[d].sess = s, call[d].pc = "react" PROVE FALSE
  <2>1. InFlight(d)
    BY <1>1 DEF InFlight, Idle, Answers
  <2>2. d # c \/ MayStart(c, s)
    BY <1>1
  <2>3. ~MayStart(c, s)
    BY <1>1, <2>1 DEF MayStart, Once, Serial
  <2> QED
    BY <1>1, <2>1, <2>2, <2>3, Alone DEF Own, Once
<1> QED
  BY <1>1 DEF InLoop

\* Outside the loop, what keeps the tickets and the command that waits keeps the invariant.
LEMMA OnceKeeps ==
  ASSUME Once, Serial', NEW c \in Calls, NEW s \in Sessions, OnlyOn(c, s),
         call[c].pc # "react" \/ MayStart(c, s),
         Waits(s)' \in {Waits(s), None},
         \A p \in Tickets : SameRuns(p)
  PROVE  Once'
<1>1. ~InLoop(s)
  BY OutsideLoop DEF OnlyOn
<1>2. \A t \in Sessions : Waits(t) \in Tickets \cup {None}
  BY DEF Waits, Once, Serial, IInv, TypeOK, AgentState
<1>3. Counted'
  BY DEF Once, Counted, SameRuns
<1>4. Fresh(s)'
  BY <1>1, <1>2 DEF Once, Fresh, SameRuns
<1> QED
  BY <1>2, <1>3, <1>4, OnceStep

\* A call that returns or is answered touches its own session only.
LEMMA ReturnOn ==
  ASSUME Serial, NEW c \in Calls, InFlight(c), NEW next \in Nodes \cup {"end"}, NEW st,
         Return(c, next, st), NEW s, s = call[c].sess
  PROVE  OnlyOn(c, s) /\ Waits(s)' = st.hitl_command
<1>1. call \in [Calls -> CallRecord] /\ call[c] \in CallRecord /\ call[c].sess \in Sessions
  BY CallFacts DEF Serial, IInv, TypeOK
<1>2. \A d \in Calls : d # c => call'[d] = call[d]
  BY <1>1 DEF Return
<1>3. call'[c].sess = call[c].sess
  BY <1>1 DEF Return, CallRecord
<1>4. /\ \A t \in Sessions : t # call[c].sess => thread'[t] = thread[t]
      /\ thread'[call[c].sess].st = st
  BY <1>1 DEF Return, Serial, IInv, TypeOK
<1> QED
  BY <1>2, <1>3, <1>4 DEF OnlyOn, Own, Waits

LEMMA AnswerOn ==
  ASSUME Serial, NEW c \in Calls, InFlight(c), NEW pc \in Answers, Answer(c, pc),
         thread' = thread, NEW s, s = call[c].sess
  PROVE  OnlyOn(c, s)
<1>1. /\ \A d \in Calls : d # c => call'[d] = call[d]
      /\ call'[c].pc = pc
  BY DEF Answer, Resting, Serial, IInv, TypeOK
<1> QED
  BY <1>1 DEF OnlyOn, Own, IdlePc

\* The calls that go on without saving: before the graph, at its end, and when they start.
LEMMA MoveOn ==
  ASSUME Serial, NEW c \in Calls, NEW s \in Sessions, Own(c, s), thread' = thread,
         NEW r, call' = [call EXCEPT ![c] = r], r.sess = s
  PROVE  OnlyOn(c, s)
BY DEF OnlyOn, Serial, IInv, TypeOK

\* A node that returns keeps the invariant when it saves the command that waits as it was.
LEMMA ReturnOnce ==
  ASSUME Once, Serial', NEW c \in Calls, InFlight(c), call[c].pc # "react", ticket' = ticket,
         NEW next \in Nodes \cup {"end"}, NEW st, Return(c, next, st),
         st.hitl_command = Waits(call[c].sess)
  PROVE  Once' /\ \A t \in Sessions : Waits(t)' = Waits(t)
<1>1. PICK s \in Sessions : s = call[c].sess
  BY CallFacts DEF Once, Serial
<1>2. OnlyOn(c, s) /\ Waits(s)' = Waits(s)
  BY <1>1, ReturnOn DEF Once
<1>3. \A t \in Sessions : Waits(t)' = Waits(t)
  BY <1>2 DEF OnlyOn, Waits
<1> QED
  BY <1>1, <1>2, <1>3, OnceKeeps DEF SameRuns

\* The nodes but the agents save the request, and the command that waits, as they were.
LEMMA NodesKeep ==
  ASSUME IInv, NEW c \in Calls,
         IntentAnalyzer(c) \/ Router(c) \/ HumanApproval(c) \/ SecurityReview(c)
  PROVE  /\ call[c].pc \in {"intent_analyzer", "router", "human_approval", "security_review"}
         /\ ticket' = ticket /\ issued' = issued
         /\ \E next \in Nodes \cup {"end"} : \E st :
              /\ Return(c, next, st) /\ st.hitl_command = call[c].st.hitl_command
              /\ st.request_id = call[c].st.request_id
<1> DEFINE st == call[c].st
           Same(st2) == st2.hitl_command = st.hitl_command /\ st2.request_id = st.request_id
<1>1. /\ call[c].pc \in {"intent_analyzer", "router", "human_approval", "security_review"}
      /\ ticket' = ticket /\ issued' = issued
  BY DEF IntentAnalyzer, Router, HumanApproval, SecurityReview, History
<1>2. st \in AgentState
  BY CallFacts
<1>3. {"intent_analyzer", "router", "human_approval", "security_review"} \subseteq Nodes
      /\ Agents \subseteq Nodes
  BY DEF Nodes
<1>4. SUFFICES \E next \in Nodes \cup {"end"} : \E st2 : Return(c, next, st2) /\ Same(st2)
  BY <1>1
<1>5. CASE IntentAnalyzer(c)
  <2>1. PICK st2 \in AnalyzedState(st) : Return(c, RouteAfterIntent(st2), st2)
    BY <1>5 DEF IntentAnalyzer
  <2>2. Same(st2)
    <3>1. [a \in Agents |-> {}] \in [Agents -> SUBSET Calls]
      OBVIOUS
    <3>2. ClearTransient(st) \in AgentState /\ Same(ClearTransient(st))
      BY <1>2, <3>1 DEF ClearTransient, AgentState, Reqs, None
    <3>3. \A st3 \in AgentState : \A v :
            /\ [st3 EXCEPT !.intent_status = v].hitl_command = st3.hitl_command
            /\ [st3 EXCEPT !.intent_status = v].request_id = st3.request_id
      BY DEF AgentState
    <3>4. \E st3 \in {st, ClearTransient(st)} : \E v : st2 = [st3 EXCEPT !.intent_status = v]
      BY <2>1 DEF AnalyzedState
    <3> QED
      BY <1>2, <3>2, <3>3, <3>4
  <2>3. RouteAfterIntent(st2) \in Nodes
    BY <1>3 DEF RouteAfterIntent
  <2> QED
    BY <2>1, <2>2, <2>3
<1>6. CASE Router(c)
  <2> DEFINE refused == [st EXCEPT !.error = st.request_id]
  <2>1. PICK target \in Agents \cup {"security_review"},
             st2 \in {CountIteration(st), st, refused} :
          Return(c, RouteAfterRouter(st2, target), st2)
    BY <1>6 DEF Router
  <2>2. Same(st2)
    BY <1>2 DEF CountIteration, AgentState
  <2>3. RouteAfterRouter(st2, target) \in Nodes \cup {"end"}
    BY <1>3 DEF RouteAfterRouter
  <2> QED
    BY <2>1, <2>2, <2>3
<1>7. CASE HumanApproval(c)
  <2> DEFINE st2 == [st EXCEPT !.hitl_pending = FALSE]
  <2>1. Same(st2)
    BY <1>2 DEF AgentState
  <2>2. Return(c, "router", st2)
    BY <1>7 DEF HumanApproval
  <2> HIDE DEF st2, Same
  <2> QED
    BY <1>3, <2>1, <2>2
<1>8. CASE SecurityReview(c)
  <2> DEFINE Passed(of)   == [st EXCEPT !.final_by = st.request_id, !.final_of = of]
             Withheld(of) == [st EXCEPT !.final_by = st.request_id, !.final_of = of,
                                        !.error = st.request_id]
  <2>1. \A of : Same(Passed(of)) /\ Same(Withheld(of))
    BY <1>2 DEF AgentState
  <2>2. \E of : Return(c, "end", Passed(of)) \/ Return(c, "end", Withheld(of))
    BY <1>8 DEF SecurityReview
  <2> HIDE DEF Passed, Withheld, Same
  <2> QED
    BY <2>1, <2>2
<1> QED
  BY <1>5, <1>6, <1>7, <1>8

\* An agent that is done saves the request as it was, and no command.
LEMMA DoneKeeps ==
  ASSUME IInv, NEW c \in Calls, ReactError(c) \/ ReactAnswer(c) \/ ReactExhausted(c)
  PROVE  /\ call[c].pc = "react" /\ ticket' = ticket /\ issued' = issued
         /\ \E next \in Nodes \cup {"end"} : \E st :
              /\ Return(c, next, st) /\ st.hitl_command = None
              /\ st.request_id = call[c].st.request_id
<1> DEFINE Done(st) == st.hitl_command = None /\ st.request_id = call[c].st.request_id
<1>1. call[c].pc = "react" /\ ticket' = ticket /\ issued' = issued
  BY DEF ReactError, ReactAnswer, ReactExhausted, Looping, History
<1>2. \A sources : /\ Done(DoneState(c, sources))
                   /\ \A e : Done([DoneState(c, sources) EXCEPT !.error = e])
  <2>1. call[c].st \in AgentState
    BY CallFacts
  <2> QED
    BY <2>1 DEF DoneState, AgentState
<1> HIDE DEF Done
<1>3. PICK st : Leave(c, st) /\ Done(st)
  <2>1. CASE ReactError(c)
    BY <1>2, <2>1 DEF ReactError
  <2>2. CASE ReactAnswer(c) \/ ReactExhausted(c)
    BY <1>2, <2>2 DEF ReactAnswer, ReactExhausted
  <2> QED
    BY <2>1, <2>2
<1>4. RouteAfterAgent(st) \in Nodes
  BY DEF RouteAfterAgent, Nodes
<1> QED
  BY <1>1, <1>3, <1>4 DEF Leave, Done

\* A request that starts its graph takes over the command that waits.
LEMMA StartKeeps ==
  ASSUME IInv, NEW c \in Calls, StartGraph(c)
  PROVE  /\ call[c].pc = "loading" /\ ticket' = ticket /\ issued' = issued
         /\ "intent_analyzer" \in Nodes
         /\ \E st : /\ Return(c, "intent_analyzer", st) /\ st.request_id = c
                    /\ st.hitl_command = Waits(call[c].sess)
<1> DEFINE saved == thread[call[c].sess].st
           Asking(asks) == [saved EXCEPT !.request_id = c, !.user_query = asks, !.cleared = FALSE]
<1>1. saved \in AgentState
  BY CallFacts
<1>2. \A asks : Asking(asks).hitl_command = Waits(call[c].sess) /\ Asking(asks).request_id = c
  BY <1>1 DEF Waits, AgentState
<1>3. \E asks : Return(c, "intent_analyzer", Asking(asks))
  BY DEF StartGraph
<1> HIDE DEF Asking
<1> QED
  BY <1>2, <1>3 DEF StartGraph, History, Nodes

LEMMA NodesOnce ==
  ASSUME Once, Serial', NEW c \in Calls,
         \/ StartGraph(c) \/ IntentAnalyzer(c) \/ Router(c) \/ HumanApproval(c)
         \/ SecurityReview(c)
  PROVE  Once' /\ \A t \in Sessions : Waits(t)' = Waits(t)
<1>1. CASE StartGraph(c)
  <2>1. InFlight(c) /\ call[c].pc # "react"
    BY <1>1 DEF StartGraph, InFlight, Idle, Answers
  <2> QED
    BY <1>1, <2>1, StartKeeps, ReturnOnce DEF Once, Serial
<1>2. CASE IntentAnalyzer(c) \/ Router(c) \/ HumanApproval(c) \/ SecurityReview(c)
  <2>1. call[c].pc \in {"intent_analyzer", "router", "human_approval", "security_review"}
    BY <1>2, NodesKeep DEF Once, Serial
  <2>2. InFlight(c) /\ call[c].pc # "react"
    BY <2>1 DEF InFlight, Idle, Answers
  <2>3. call[c].st.hitl_command = Waits(call[c].sess)
    BY <2>1, <2>2 DEF Once, Serial, InStep, Loaded, Nodes, SameTurn, Waits
  <2> QED
    BY <1>2, <2>2, <2>3, NodesKeep, ReturnOnce DEF Once, Serial
<1> QED
  BY <1>1, <1>2

\* A step that saves nothing keeps it too.
LEMMA CallsOnce ==
  ASSUME Once, Serial', NEW c \in Calls,
         EmbedQuery(c) \/ ResumeGraph(c) \/ Finish(c) \/ PersistFinal(c)
  PROVE  Once' /\ \E s \in Sessions : s = call[c].sess /\ OnlyOn(c, s)
<1>1. InFlight(c) /\ call[c].pc # "react" /\ ticket' = ticket /\ thread' = thread
  <2>1. InFlight(c) /\ call[c].pc # "react"
    BY DEF EmbedQuery, ResumeGraph, Finish, PersistFinal, InFlight, Idle, Answers
  <2> QED
    BY <2>1 DEF EmbedQuery, ResumeGraph, Finish, PersistFinal, History
<1>2. call[c] \in CallRecord /\ call \in [Calls -> CallRecord]
  BY CallFacts DEF Once, Serial, IInv, TypeOK
<1>3. PICK s \in Sessions : s = call[c].sess
  BY CallFacts DEF Once, Serial
<1>4. ASSUME NEW pc \in Answers, Answer(c, pc) PROVE OnlyOn(c, s)
  BY <1>1, <1>3, <1>4, AnswerOn DEF Once
<1>5. ASSUME NEW r, call' = [call EXCEPT ![c] = r], r.sess = s PROVE OnlyOn(c, s)
  BY <1>1, <1>3, <1>5, MoveOn DEF Own, Once
<1>6. CASE EmbedQuery(c)
  <2>1. call' = [call EXCEPT ![c].pc = "loading"] => OnlyOn(c, s)
    <3> DEFINE r == [call[c] EXCEPT !.pc = "loading"]
    <3>1. [call EXCEPT ![c].pc = "loading"] = [call EXCEPT ![c] = r] /\ r.sess = s
      BY <1>2, <1>3 DEF CallRecord
    <3> QED
      BY <1>5, <3>1
  <2>2. OnlyOn(c, s)
    BY <1>4, <1>6, <2>1 DEF EmbedQuery, Answers
  <2> QED
    BY <1>1, <2>2, <1>3, OnceKeeps DEF Waits, SameRuns
<1>7. CASE ResumeGraph(c)
  <2> DEFINE saved == thread[call[c].sess]
             pc    == IF saved.next = "end" THEN "ended" ELSE saved.next
             r     == [call[c] EXCEPT !.st = saved.st, !.pc = pc]
  <2>1. call' = [call EXCEPT ![c].st = saved.st, ![c].pc = pc] => OnlyOn(c, s)
    <3>1. [call EXCEPT ![c].st = saved.st, ![c].pc = pc] = [call EXCEPT ![c] = r] /\ r.sess = s
      BY <1>2, <1>3 DEF CallRecord
    <3> HIDE DEF r, pc
    <3> QED
      BY <1>5, <3>1
  <2>2. OnlyOn(c, s)
    BY <1>4, <1>7, <2>1 DEF ResumeGraph, Answers
  <2> QED
    BY <1>1, <2>2, <1>3, OnceKeeps DEF Waits, SameRuns
<1>8. CASE Finish(c)
  <2>1. call' = [call EXCEPT ![c].pc = "persisting"] => OnlyOn(c, s)
    <3> DEFINE r == [call[c] EXCEPT !.pc = "persisting"]
    <3>1. [call EXCEPT ![c].pc = "persisting"] = [call EXCEPT ![c] = r] /\ r.sess = s
      BY <1>2, <1>3 DEF CallRecord
    <3> QED
      BY <1>5, <3>1
  <2>2. (\E pc \in Answers : Answer(c, pc)) \/ call' = [call EXCEPT ![c].pc = "persisting"]
    BY <1>8 DEF Finish, StatusOf, Answers
  <2>3. OnlyOn(c, s)
    BY <1>4, <2>1, <2>2
  <2> QED
    BY <1>1, <2>3, <1>3, OnceKeeps DEF Waits, SameRuns
<1>9. CASE PersistFinal(c)
  <2>1. \E pc \in Answers : Answer(c, pc)
    BY <1>9 DEF PersistFinal, Answers
  <2> QED
    BY <1>1, <1>4, <2>1, <1>3, OnceKeeps DEF Waits, SameRuns
<1> QED
  BY <1>6, <1>7, <1>8, <1>9

\* What the user said of a command, and how often it ran, stays.
SameHistory(p) == SameRuns(p) /\ ticket'[p].decided = ticket[p].decided

\* The command that waits in s is run, for the first time since an agent was cut off; it
\* waits nowhere else.
RunsWaiting(s) ==
  LET p == Waits(s) IN
  /\ p \in Tickets /\ ticket[p].execs = ticket[p].cuts
  /\ ticket'[p].execs = ticket[p].execs + 1
  /\ ticket'[p].cuts = ticket[p].cuts /\ ticket'[p].decided = ticket[p].decided
  /\ \A q \in Tickets : q # p => SameHistory(q)
  /\ \A t \in Sessions : t # s => Waits(t) # p

\* The command that waits in a session is one of its own, and waits in no other.
LEMMA WaitsOwn ==
  ASSUME IInv, NEW s \in Sessions
  PROVE  /\ Waits(s) \in Tickets \cup {None} /\ None \notin Tickets
         /\ Waits(s) # None => Waits(s) <= issued /\ ticket[Waits(s)].sess = s
<1>1. thread[s].st \in AgentState /\ Good(s, thread[s].st, ticket, issued)
  BY DEF IInv, ThreadOK, TypeOK
<1>2. Waits(s) \in Tickets \cup {None}
  BY <1>1 DEF Waits, AgentState
<1>3. Waits(s) # None => Waits(s) <= issued /\ ticket[Waits(s)].sess = s
  BY <1>1 DEF Waits, Good, Flagged
<1>4. None \notin Tickets
  BY DEF Tickets, None
<1> QED
  BY <1>2, <1>3, <1>4

\* An agent that enters its loop may run the command that waits; while it is in the loop
\* nothing of it is run again.
LEMMA LoopOnce ==
  ASSUME Once, Serial', NEW c \in Calls,
         (\E a \in Agents : EnterAgent(c, a)) \/ ReactRefuse(c) \/ ReactCommand(c)
  PROVE  /\ Once'
         /\ (\A p \in Tickets : SameHistory(p)) \/ \E s \in Sessions : RunsWaiting(s)
<1>0. PICK s \in Sessions : s = call[c].sess
  BY CallFacts DEF Once, Serial
<1> DEFINE p == Waits(s)
<1>1. /\ call[c].pc \in Agents \cup {"react"} /\ thread' = thread
      /\ call'[c].pc = "react" /\ call'[c].sess = s
      /\ \A d \in Calls : d # c => call'[d] = call[d]
  BY <1>0, LoopKeeps DEF Once, Serial, IInv
<1>2. InFlight(c) /\ call[c].pc \in Loaded
  BY <1>1, StepNames DEF Nodes, IdlePc, InFlight, Idle, Answers, Loaded
<1>3. OnlyOn(c, s)
  BY <1>0, <1>1, <1>2 DEF OnlyOn, Own
<1>4. Fresh(s)'
  BY <1>1 DEF Fresh, InLoop
<1>5. CASE \A q \in Tickets : SameHistory(q)
  <2>1. \A t \in Sessions : Waits(t) \in Tickets \cup {None}
    BY WaitsOwn DEF Once, Serial
  <2>2. Counted'
    BY <1>5 DEF Once, Counted, SameHistory, SameRuns
  <2> QED
    BY <1>3, <1>4, <1>5, <2>1, <2>2, OnceStep DEF SameHistory
<1>6. ASSUME NEW a \in Agents, EnterAgent(c, a), ResumesCommand(call[c].st)
      PROVE  /\ Once'
             /\ (\A q \in Tickets : SameHistory(q)) \/ \E u \in Sessions : RunsWaiting(u)
  <2>1. call[c].st.hitl_command = p /\ p \in Tickets /\ ticket[p].sess = s
    <3>1. call[c].st.hitl_command = p
      BY <1>0, <1>2 DEF Once, Serial, InStep, SameTurn, Waits
    <3> QED
      BY <1>0, <1>6, <3>1, TakesUp DEF Once, Serial
  <2>2. /\ ticket'[p].execs \in {ticket[p].execs, ticket[p].execs + 1}
        /\ ticket'[p].cuts = ticket[p].cuts /\ ticket'[p].decided = ticket[p].decided
        /\ \A q \in Tickets \ {p} : ticket'[q] = ticket[q]
    BY <1>6, <2>1, TakesUp DEF Once, Serial
  <2>3. CASE ticket'[p].execs = ticket[p].execs
    BY <1>5, <2>2, <2>3 DEF SameHistory, SameRuns
  <2>4. CASE ticket'[p].execs = ticket[p].execs + 1
    <3>1. ~InLoop(s)
      <4>1. call[c].pc # "react"
        BY <1>6, StepNames DEF EnterAgent, Nodes
      <4> QED
        BY <1>3, <4>1, OutsideLoop DEF OnlyOn
    <3>2. ticket[p].execs = ticket[p].cuts
      BY <2>1, <3>1, WaitsOwn DEF Once, Serial, Fresh
    <3>3. Counted'
      BY <2>2, <2>4, <3>2 DEF Once, Counted
    <3>4. \A t \in Sessions : t # s => Waits(t) # p /\ (Waits(t) # None => SameRuns(Waits(t)))
      BY <2>1, <2>2, WaitsOwn DEF Once, Serial, SameRuns
    <3>5. RunsWaiting(s)
      BY <2>1, <2>2, <2>4, <3>2, <3>4 DEF RunsWaiting, SameHistory, SameRuns
    <3> QED
      BY <1>3, <1>4, <3>3, <3>4, <3>5, OnceStep
  <2> QED
    BY <2>2, <2>3, <2>4
<1>7. ASSUME ticket' = ticket
      PROVE  \A q \in Tickets : SameHistory(q)
  BY <1>7 DEF SameHistory, SameRuns
<1>8. CASE \E a \in Agents : EnterAgent(c, a)
  <2>1. PICK a \in Agents : EnterAgent(c, a)
    BY <1>8
  <2>2. CASE ~ResumesCommand(call[c].st)
    BY <1>5, <1>7, <2>1, <2>2 DEF EnterAgent
  <2> QED
    BY <1>6, <2>1, <2>2
<1>9. CASE ReactRefuse(c) \/ ReactCommand(c)
  BY <1>5, <1>7, <1>9 DEF ReactRefuse, ReactCommand, History
<1> QED
  BY <1>8, <1>9

\* Another command, or none, waits in session s.
WaitsFor(s, p) == Waits(s)' = p /\ \A t \in Sessions : t # s => Waits(t)' = Waits(t)

\* An agent that is done clears the command that waited.
LEMMA DoneOnce ==
  ASSUME Once, Serial', NEW c \in Calls, ReactError(c) \/ ReactAnswer(c) \/ ReactExhausted(c)
  PROVE  Once' /\ \E s \in Sessions : WaitsFor(s, None)
<1>1. PICK s \in Sessions : s = call[c].sess
  BY CallFacts DEF Once, Serial
<1>2. InFlight(c) /\ ticket' = ticket
  BY DEF ReactError, ReactAnswer, ReactExhausted, Looping, History, InFlight, Idle, Answers
<1>3. OnlyOn(c, s) /\ Waits(s)' = None
  BY <1>1, <1>2, DoneKeeps, ReturnOn DEF Once, Serial
<1>4. Counted' /\ Fresh(s)'
  BY <1>2, <1>3 DEF Fresh, Once, Counted
<1>5. WaitsFor(s, None)
  BY <1>3 DEF OnlyOn, WaitsFor, Waits
<1> QED
  BY <1>2, <1>3, <1>4, <1>5, OnceStep DEF SameRuns

\* A command put up for approval was not run in the place of another one.
LEMMA PauseOnce ==
  ASSUME Once, Serial', NEW c \in Calls, ReactPause(c)
  PROVE  Once' /\ \E s \in Sessions : WaitsFor(s, issued + 1)
<1> DEFINE n   == issued + 1
           st  == [call[c].st EXCEPT !.hitl_pending = TRUE, !.hitl_command = n,
                                     !.command_count = call[c].count]
<1>1. PICK s \in Sessions : s = call[c].sess
  BY CallFacts DEF Once, Serial
<1>2. InFlight(c) /\ Leave(c, st) /\ n \in Tickets
  BY DEF ReactPause, Looping, InFlight, Idle, Answers, Once, Serial, IInv, TypeOK, Tickets
<1>3. st.hitl_command = n
  <2>1. call[c].st \in AgentState
    BY CallFacts DEF Once, Serial
  <2> QED
    BY <2>1 DEF AgentState
<1>4. /\ ticket'[n].execs = 0 /\ ticket'[n].cuts = 0
      /\ \A q \in Tickets : q # n => ticket'[q] = ticket[q]
  BY <1>2 DEF ReactPause, NewTicket, Once, Serial, IInv, TypeOK
<1> HIDE DEF st
<1>5. RouteAfterAgent(st) \in Nodes
  BY DEF RouteAfterAgent, Nodes
<1>6. OnlyOn(c, s) /\ Waits(s)' = n
  BY <1>1, <1>2, <1>3, <1>5, ReturnOn DEF Leave, Once
<1>7. Counted' /\ Fresh(s)'
  BY <1>4, <1>6 DEF Fresh, Once, Counted
<1>8. ASSUME NEW t \in Sessions, Waits(t) # None
      PROVE  SameRuns(Waits(t))
  <2>1. Waits(t) \in Tickets /\ Waits(t) <= issued
    BY <1>8, WaitsOwn DEF Once, Serial
  <2>2. issued \in Nat /\ Waits(t) \in Nat
    BY <2>1 DEF Tickets, Once, Serial, IInv, TypeOK
  <2> QED
    BY <1>4, <2>1, <2>2 DEF SameRuns
<1>9. WaitsFor(s, n)
  BY <1>6 DEF OnlyOn, WaitsFor, Waits
<1> QED
  BY <1>6, <1>7, <1>8, <1>9, OnceStep

\* Requests arrive where none is under way; an approval runs nothing by itself.
LEMMA ArriveOnce ==
  ASSUME Once, Serial', NEW c \in Calls, NEW s \in Sessions,
         Submit(c, s) \/ \E d \in Decisions : Approve(c, s, d)
  PROVE  Once' /\ OnlyOn(c, s)
<1>1. MayStart(c, s) /\ thread' = thread
  BY DEF Submit, Approve
<1>2. call[c] \in CallRecord /\ call \in [Calls -> CallRecord]
  BY CallFacts DEF Once, Serial, IInv, TypeOK
<1>3. OnlyOn(c, s)
  <2>1. ASSUME NEW pc \in {"embedding", "resuming"}, NEW kind,
               call' = [call EXCEPT ![c].pc = pc, ![c].kind = kind, ![c].sess = s]
        PROVE  OnlyOn(c, s)
    <3> DEFINE r == [call[c] EXCEPT !.pc = pc, !.kind = kind, !.sess = s]
    <3>1. call' = [call EXCEPT ![c] = r] /\ r.sess = s
      BY <1>2, <2>1 DEF CallRecord
    <3> HIDE DEF r
    <3> QED
      BY <1>1, <3>1, MoveOn DEF Own, Once
  <2> QED
    BY <2>1 DEF Submit, Approve
<1>4. \A p \in Tickets : SameRuns(p)
  <2>1. CASE ticket' = ticket
    BY <2>1 DEF SameRuns
  <2>2. CASE \E q, d : ticket' = [ticket EXCEPT ![q].decided = @ \cup {d}]
    BY <2>2 DEF Once, Serial, IInv, TypeOK, TicketRecord, SameRuns
  <2> QED
    BY <2>1, <2>2 DEF Submit, Approve, History
<1> QED
  BY <1>1, <1>3, <1>4, OnceKeeps DEF Waits

\* The calls that end without returning: what they ran runs again.
Lost(calls) ==
  /\ thread' = thread /\ issued' = issued /\ CutOff(calls)
  /\ \A c \in calls : call'[c].pc # "react"
  /\ \A c \in Calls \ calls : call'[c] = call[c]

LEMMA RaiseLoses ==
  ASSUME TypeOK, NEW c \in Calls, Raise(c)
  PROVE  Lost({c})
BY DEF TypeOK, Raise, Answer, Resting, Lost

LEMMA CrashLoses ==
  ASSUME TypeOK, Crash
  PROVE  Lost(Calls)
<1>1. \A c \in Calls : call'[c].pc # "react"
  <2>1. \A c \in Calls : call'[c] = IF InFlight(c) THEN Resting("lost") ELSE call[c]
    BY DEF Crash
  <2>2. Resting("lost").pc = "lost"
    BY DEF Resting
  <2> QED
    BY <2>1, <2>2 DEF InFlight, Idle, Answers
<1> QED
  BY <1>1 DEF Crash, Lost

\* The command of an agent that is cut off waits as if it had not run.
LEMMA LostOnce ==
  ASSUME Once, Serial', NEW calls \in SUBSET Calls, Lost(calls)
  PROVE  Once'
<1>1. \A p \in Tickets :
        /\ ticket'[p].execs = ticket[p].execs
        /\ ticket'[p].cuts =
             IF \E c \in calls : call[c].pc = "react" /\ call[c].st.hitl_command = p
             THEN ticket[p].execs ELSE ticket[p].cuts
  BY CutOffGrows DEF Once, Serial, Lost
<1>2. Counted'
  BY <1>1 DEF Once, Counted
<1>3. ASSUME NEW s \in Sessions PROVE Fresh(s)'
  <2> DEFINE p == Waits(s)
  <2>1. SUFFICES ASSUME p # None, ~InLoop(s)' PROVE (ticket'[p].execs = ticket'[p].cuts)
    BY DEF Fresh, Waits, Lost
  <2>2. p \in Tickets
    BY <2>1, WaitsOwn DEF Once, Serial
  <2>3. CASE InLoop(s)
    <3>1. PICK c \in Calls : call[c].sess = s /\ call[c].pc = "react"
      BY <2>3 DEF InLoop
    <3>2. c \in calls
      BY <2>1, <3>1 DEF Lost, InLoop
    <3>3. call[c].st.hitl_command = p
      <4>1. InFlight(c)
        BY <3>1 DEF InFlight, Idle, Answers
      <4> QED
        BY <3>1, <4>1 DEF Once, Serial, InStep, Loaded, SameTurn, Waits
    <3> QED
      BY <1>1, <2>2, <3>1, <3>2, <3>3
  <2>4. CASE ~InLoop(s)
    BY <1>1, <2>1, <2>2, <2>4 DEF Once, Fresh
  <2> QED
    BY <2>3, <2>4
<1> QED
  BY <1>2, <1>3 DEF Once

LEMMA NextOnce == Once /\ [Next]_vars => Once'
<1> SUFFICES ASSUME Once, [Next]_vars PROVE Once'
  OBVIOUS
<1>1. Serial' /\ TypeOK
  BY NextSerial DEF Once, Serial, IInv
<1>2. ASSUME NEW c \in Calls, Step(c) PROVE Once'
  <2>1. CASE \/ StartGraph(c) \/ IntentAnalyzer(c) \/ Router(c) \/ HumanApproval(c)
             \/ SecurityReview(c)
    BY <1>1, <2>1, NodesOnce
  <2>2. CASE EmbedQuery(c) \/ ResumeGraph(c) \/ Finish(c) \/ PersistFinal(c)
    BY <1>1, <2>2, CallsOnce
  <2>3. CASE \/ OsEngineer(c) \/ CloudEngineer(c) \/ FinopsAgent(c)
             \/ ReactRefuse(c) \/ ReactCommand(c)
    BY <1>1, <2>3, LoopOnce DEF OsEngineer, CloudEngineer, FinopsAgent
  <2>4. CASE ReactError(c) \/ ReactAnswer(c) \/ ReactExhausted(c) \/ ReactPause(c)
    BY <1>1, <2>4, DoneOnce, PauseOnce
  <2>5. CASE Raise(c)
    BY <1>1, <2>5, RaiseLoses, LostOnce
  <2> QED
    BY <1>2, <2>1, <2>2, <2>3, <2>4, <2>5 DEF Step
<1>3. CASE Crash
  BY <1>1, <1>3, CrashLoses, LostOnce
<1>4. CASE UNCHANGED vars
  BY <1>1, <1>4 DEF vars, Once, Counted, Fresh, Waits, InLoop
<1> QED
  BY <1>1, <1>2, <1>3, <1>4, ArriveOnce DEF Next

LEMMA InitOnce == Init /\ ~Overlap => Once
<1> SUFFICES ASSUME Init, ~Overlap PROVE Once
  OBVIOUS
<1>1. Counted /\ \A s \in Sessions : Waits(s) = None
  <2>1. \A p \in Tickets : ticket[p].execs = 0 /\ ticket[p].cuts = 0
    BY DEF Init
  <2>2. \A s \in Sessions : thread[s].st = EmptyState
    BY DEF Init
  <2>3. EmptyState.hitl_command = None
    BY DEF EmptyState
  <2>4. Counted
    BY <2>1 DEF Counted
  <2> QED
    BY <2>2, <2>3, <2>4 DEF Waits
<1> QED
  BY <1>1, InitSerial DEF Once, Fresh

\* With requests on a session one after the other, a command that waited for approval runs
\* once more at most than agents were cut off, by an exception or a crash, after running it.
THEOREM ApprovedRunsOnce ==
  ASSUME ~Overlap
  PROVE  Spec => []AtMostOnce
<1>1. Init => Once
  BY InitOnce
<1>2. Once => AtMostOnce
  BY DEF Once, Counted, AtMostOnce, Serial, IInv, TypeOK, TicketRecord
<1> QED
  BY <1>1, <1>2, NextOnce, PTL DEF Spec

-----------------------------------------------------------------------------
(***************************************************************************)
(* Under the same condition the graph implements Approvals.                *)
(***************************************************************************)
WaitingOf == [s \in Sessions |-> Waiting(s)]
RunningOf == [s \in Sessions |-> Running(s)]
DecidedOf == [p \in Tickets |-> ticket[p].decided]
RunsOf    == [p \in Tickets |-> ticket[p].execs]
CutsOf    == [p \in Tickets |-> ticket[p].cuts]

\* Nobody was asked about a command that was not put up.
NotAsked == \A p \in Tickets : p > issued => ticket[p].decided = {}

\* The session of a step sees it, the others do not.
LEMMA OneSession ==
  ASSUME NEW s \in Sessions, NEW w, NEW r, Waiting(s)' = w, Running(s)' = r,
         \A t \in Sessions : t # s => Waiting(t)' = Waiting(t) /\ Running(t)' = Running(t)
  PROVE  /\ WaitingOf' = [WaitingOf EXCEPT ![s] = w]
         /\ RunningOf' = [RunningOf EXCEPT ![s] = r]
BY DEF WaitingOf, RunningOf

\* A session whose command, and its history, a step leaves alone does not see the step.
LEMMA UnseenBy ==
  ASSUME NEW s \in Sessions, Waits(s)' = Waits(s), Waits(s) # None => SameRuns(Waits(s))
  PROVE  Waiting(s)' = Waiting(s) /\ Running(s)' = Running(s)
BY DEF Waiting, Running, SameRuns

\* What a step leaves alone of the commands, the promise does not see.
LEMMA SameApprovals ==
  ASSUME Once, NotAsked, issued' = issued, \A s \in Sessions : Waits(s)' = Waits(s),
         \A p \in Tickets : SameHistory(p)
  PROVE  NotAsked' /\ UNCHANGED Asked!vars
<1>1. \A s \in Sessions : Waiting(s)' = Waiting(s) /\ Running(s)' = Running(s)
  BY UnseenBy, WaitsOwn DEF SameHistory, Once, Serial
<1>2. /\ WaitingOf' = WaitingOf /\ RunningOf' = RunningOf
      /\ DecidedOf' = DecidedOf /\ RunsOf' = RunsOf /\ CutsOf' = CutsOf
  BY <1>1 DEF WaitingOf, RunningOf, DecidedOf, RunsOf, CutsOf, SameHistory, SameRuns
<1>3. NotAsked'
  BY DEF NotAsked, SameHistory
<1> QED
  BY <1>2, <1>3 DEF Asked!vars, WaitingOf, RunningOf, DecidedOf, RunsOf, CutsOf

\* A command is put up for approval.
LEMMA PauseAsks ==
  ASSUME Once, NotAsked, Serial', NEW c \in Calls, ReactPause(c)
  PROVE  NotAsked' /\ \E s \in Sessions, p \in Tickets : Asked!Ask(s, p)
<1> DEFINE n == issued + 1
<1>1. PICK s \in Sessions : WaitsFor(s, n)
  BY PauseOnce
<1>2. issued \in Nat /\ n \in Tickets /\ issued' = n /\ n # None
  BY DEF ReactPause, Once, Serial, IInv, TypeOK, Tickets, None
<1>3. /\ ticket'[n].execs = 0 /\ ticket'[n].decided = {} /\ ticket'[n].cuts = 0
      /\ \A q \in Tickets : q # n => ticket'[q] = ticket[q]
  BY <1>2 DEF ReactPause, NewTicket, Once, Serial, IInv, TypeOK
<1>4. ticket[n].execs = 0 /\ ticket[n].decided = {} /\ ticket[n].cuts = 0
  <2>1. TicketOK(n, ticket[n], issued) /\ ~(n <= issued)
    BY <1>2 DEF Once, Serial, IInv
  <2>2. ticket[n].execs = 0 /\ ticket[n].cuts = 0
    BY <2>1 DEF TicketOK
  <2> QED
    BY <1>2, <2>2 DEF NotAsked
<1>5. WaitingOf' = [WaitingOf EXCEPT ![s] = {n}] /\ RunningOf' = [RunningOf EXCEPT ![s] = {}]
  <2>1. Waiting(s)' = {n} /\ Running(s)' = {}
    BY <1>1, <1>2, <1>3 DEF WaitsFor, Waiting, Running
  <2>2. ASSUME NEW t \in Sessions, t # s
        PROVE  Waiting(t)' = Waiting(t) /\ Running(t)' = Running(t)
    <3>1. Waits(t)' = Waits(t)
      BY <1>1, <2>2 DEF WaitsFor
    <3>2. Waits(t) # None => Waits(t) \in Tickets /\ Waits(t) # n
      BY <1>2, WaitsOwn DEF Tickets, Once, Serial
    <3> QED
      BY <1>3, <3>1, <3>2, UnseenBy DEF SameRuns
  <2> HIDE DEF n
  <2> QED
    BY <2>1, <2>2, OneSession
<1>6. DecidedOf' = DecidedOf /\ RunsOf' = RunsOf /\ CutsOf' = CutsOf
  BY <1>3, <1>4 DEF DecidedOf, RunsOf, CutsOf
<1>7. n \in Tickets \ (1 .. issued) /\ 1 .. issued' = (1 .. issued) \cup {n}
  BY <1>2
<1>8. NotAsked'
  BY <1>2, <1>3 DEF NotAsked, Tickets
<1> HIDE DEF n
<1> QED
  BY <1>5, <1>6, <1>7, <1>8
     DEF Asked!Ask, WaitingOf, RunningOf, DecidedOf, RunsOf, CutsOf

\* A user's decision is on the command that waits.
LEMMA ApproveDecides ==
  ASSUME Once, NotAsked, NEW c \in Calls, NEW s \in Sessions, NEW d \in Decisions,
         Approve(c, s, d)
  PROVE  NotAsked' /\ (Asked!Decide(s, d) \/ UNCHANGED Asked!vars)
<1> DEFINE p == Waits(s)
<1>1. thread' = thread /\ issued' = issued /\ Own(c, s) /\ MayStart(c, s)
  BY DEF Approve, Own
<1>2. \A t \in Sessions : Waits(t)' = Waits(t)
  BY <1>1 DEF Waits
<1>3. CASE ticket' = ticket
  BY <1>1, <1>2, <1>3, SameApprovals DEF SameHistory, SameRuns
<1>4. CASE p # None /\ ticket' = [ticket EXCEPT ![p].decided = @ \cup {d}]
  <2>1. p \in Tickets /\ p <= issued /\ ticket[p].execs = ticket[p].cuts
    <3>1. ~InLoop(s)
      BY <1>1, OutsideLoop
    <3> QED
      BY <1>4, <3>1, WaitsOwn DEF Once, Serial, Fresh
  <2>2. Waiting(s) = {p}
    BY <1>4, <2>1 DEF Waiting
  <2>3. /\ ticket'[p].decided = ticket[p].decided \cup {d} /\ SameRuns(p)
        /\ \A q \in Tickets : q # p => ticket'[q] = ticket[q]
    BY <1>4, <2>1 DEF Once, Serial, IInv, TypeOK, TicketRecord, SameRuns
  <2>4. \A q \in Tickets : SameRuns(q)
    BY <2>3 DEF SameRuns
  <2>5. /\ WaitingOf' = WaitingOf /\ RunningOf' = RunningOf
        /\ RunsOf' = RunsOf /\ CutsOf' = CutsOf
    <3>1. \A t \in Sessions : Waiting(t)' = Waiting(t) /\ Running(t)' = Running(t)
      BY <1>2, <2>4, WaitsOwn, UnseenBy DEF Once, Serial
    <3> QED
      BY <2>4, <3>1 DEF WaitingOf, RunningOf, RunsOf, CutsOf, SameRuns
  <2>6. DecidedOf' = [DecidedOf EXCEPT ![p] = @ \cup {d}]
    BY <2>1, <2>3 DEF DecidedOf
  <2>7. NotAsked'
    BY <1>1, <2>1, <2>3 DEF NotAsked, Tickets, Once, Serial, IInv, TypeOK
  <2>8. p \in WaitingOf[s]
    BY <2>2 DEF WaitingOf
  <2> HIDE DEF p
  <2> QED
    BY <1>1, <2>5, <2>6, <2>7, <2>8
       DEF Asked!Decide, WaitingOf, RunningOf, DecidedOf, RunsOf, CutsOf
<1> QED
  BY <1>3, <1>4 DEF Approve, Waits

\* An agent that runs it takes it away.
LEMMA LoopRuns ==
  ASSUME Once, NotAsked, Serial', NEW c \in Calls,
         (\E a \in Agents : EnterAgent(c, a)) \/ ReactRefuse(c) \/ ReactCommand(c)
  PROVE  NotAsked' /\ (UNCHANGED Asked!vars \/ \E s \in Sessions : Asked!Run(s))
<1>1. thread' = thread /\ issued' = issued
  BY DEF EnterAgent, ReactRefuse, ReactCommand, History
<1>2. \A t \in Sessions : Waits(t)' = Waits(t)
  BY <1>1 DEF Waits
<1>3. CASE \A p \in Tickets : SameHistory(p)
  BY <1>1, <1>2, <1>3, SameApprovals
<1>4. CASE \E s \in Sessions : RunsWaiting(s)
  <2>1. PICK s \in Sessions : RunsWaiting(s)
    BY <1>4
  <2> DEFINE p == Waits(s)
  <2>2. /\ p \in Tickets /\ p # None /\ ticket[p].execs = ticket[p].cuts
        /\ ticket[p].execs \in Nat
    BY <2>1 DEF RunsWaiting, Tickets, None, Once, Serial, IInv, TypeOK, TicketRecord
  <2>3. /\ ticket'[p].execs = ticket[p].execs + 1
        /\ \A q \in Tickets : /\ ticket'[q].decided = ticket[q].decided
                              /\ ticket'[q].cuts = ticket[q].cuts
        /\ \A q \in Tickets : q # p => SameRuns(q)
    BY <2>1, <2>2 DEF RunsWaiting, SameHistory, SameRuns
  <2>4. Waiting(s) = {p} /\ Waiting(s)' = {} /\ Running(s)' = {p}
    BY <1>2, <2>2, <2>3 DEF Waiting, Running
  <2>5. ASSUME NEW t \in Sessions, t # s
        PROVE  Waiting(t)' = Waiting(t) /\ Running(t)' = Running(t)
    <3>1. Waits(t) # p
      BY <2>1, <2>5 DEF RunsWaiting
    <3> QED
      BY <1>2, <2>3, <3>1, UnseenBy, WaitsOwn DEF Once, Serial
  <2>6. /\ WaitingOf' = [WaitingOf EXCEPT ![s] = {}]
        /\ RunningOf' = [RunningOf EXCEPT ![s] = WaitingOf[s]]
        /\ DecidedOf' = DecidedOf /\ CutsOf' = CutsOf
    <3>1. WaitingOf[s] = {p}
      BY <2>4 DEF WaitingOf
    <3>2. DecidedOf' = DecidedOf /\ CutsOf' = CutsOf
      BY <2>3 DEF DecidedOf, CutsOf
    <3> QED
      BY <2>4, <2>5, <3>1, <3>2, OneSession
  <2>7. RunsOf' = [RunsOf EXCEPT ![p] = @ + 1]
    BY <2>2, <2>3 DEF RunsOf, SameRuns
  <2>8. NotAsked'
    BY <1>1, <2>3 DEF NotAsked
  <2>9. p \in WaitingOf[s]
    BY <2>4 DEF WaitingOf
  <2> HIDE DEF p
  <2>10. Asked!Run(s)
    BY <1>1, <2>6, <2>7, <2>9
       DEF Asked!Run, WaitingOf, RunningOf, DecidedOf, RunsOf, CutsOf
  <2> QED
    BY <2>8, <2>10
<1> QED
  BY <1>3, <1>4, LoopOnce

\* An agent that is done has settled it.
LEMMA DoneSettles ==
  ASSUME Once, NotAsked, Serial', NEW c \in Calls,
         ReactError(c) \/ ReactAnswer(c) \/ ReactExhausted(c)
  PROVE  NotAsked' /\ \E s \in Sessions : Asked!Settle(s)
<1>1. PICK s \in Sessions : WaitsFor(s, None)
  BY DoneOnce
<1>2. ticket' = ticket /\ issued' = issued
  BY DEF ReactError, ReactAnswer, ReactExhausted, History
<1>3. WaitingOf' = [WaitingOf EXCEPT ![s] = {}] /\ RunningOf' = [RunningOf EXCEPT ![s] = {}]
  <2>1. Waiting(s)' = {} /\ Running(s)' = {}
    BY <1>1 DEF WaitsFor, Waiting, Running
  <2>2. \A t \in Sessions : t # s => Waiting(t)' = Waiting(t) /\ Running(t)' = Running(t)
    BY <1>1, <1>2 DEF WaitsFor, Waiting, Running
  <2> QED
    BY <2>1, <2>2, OneSession
<1>4. DecidedOf' = DecidedOf /\ RunsOf' = RunsOf /\ CutsOf' = CutsOf /\ NotAsked'
  BY <1>2 DEF DecidedOf, RunsOf, CutsOf, NotAsked
<1> QED
  BY <1>2, <1>3, <1>4
     DEF Asked!Settle, WaitingOf, RunningOf, DecidedOf, RunsOf, CutsOf

\* An exception or a crash cuts off who ran it: it waits again.
LEMMA LostCuts ==
  ASSUME Once, NotAsked, Serial', NEW calls \in SUBSET Calls, Lost(calls)
  PROVE  NotAsked' /\ \E cutoff \in SUBSET Sessions : Asked!Cut(cutoff)
<1> DEFINE Hit(p) == \E c \in calls : call[c].pc = "react" /\ call[c].st.hitl_command = p
           cutoff == {s \in Sessions : Waits(s) # None /\ Hit(Waits(s))}
<1>1. /\ issued' = issued /\ \A s \in Sessions : Waits(s)' = Waits(s)
      /\ \A p \in Tickets : /\ ticket'[p].decided = ticket[p].decided
                            /\ ticket'[p].execs = ticket[p].execs
                            /\ ticket'[p].cuts = IF Hit(p) THEN ticket[p].execs
                                                 ELSE ticket[p].cuts
  BY CutOffGrows DEF Once, Serial, Lost, Waits
<1>2. \A p \in Tickets : ticket[p].execs \in {ticket[p].cuts, ticket[p].cuts + 1}
                         /\ ticket[p].cuts \in Nat
  BY DEF Once, Counted, Serial, IInv, TypeOK, TicketRecord
<1>3. ASSUME NEW p \in Tickets, Hit(p)
      PROVE  \E s \in cutoff : Waits(s) = p
  <2>1. PICK c \in calls : call[c].pc = "react" /\ call[c].st.hitl_command = p
    BY <1>3
  <2>2. InFlight(c) /\ call[c].sess \in Sessions
    BY <2>1, CallFacts DEF InFlight, Idle, Answers, Once, Serial
  <2>3. Waits(call[c].sess) = p /\ p # None
    BY <2>1, <2>2 DEF Once, Serial, InStep, Loaded, SameTurn, Waits, Tickets, None
  <2> QED
    BY <1>3, <2>2, <2>3
<1> HIDE DEF Hit
<1>4. ASSUME NEW s \in Sessions
      PROVE  /\ Waiting(s)' = IF s \in cutoff THEN Waiting(s) \cup Running(s) ELSE Waiting(s)
             /\ Running(s)' = IF s \in cutoff THEN {} ELSE Running(s)
  <2>1. CASE Waits(s) = None
    BY <1>1, <2>1 DEF Waiting, Running
  <2>2. CASE Waits(s) # None
    <3>1. Waits(s) \in Tickets
      BY <2>2, WaitsOwn DEF Once, Serial
    <3>2. CASE s \in cutoff
      <4>1. ticket'[Waits(s)].execs = ticket'[Waits(s)].cuts
        BY <1>1, <3>1, <3>2
      <4>2. Waiting(s)' = {Waits(s)} /\ Running(s)' = {}
        BY <1>1, <2>2, <4>1 DEF Waiting, Running
      <4>3. Waiting(s) \cup Running(s) = {Waits(s)}
        BY <2>2 DEF Waiting, Running
      <4> QED
        BY <3>2, <4>2, <4>3
    <3>3. CASE s \notin cutoff
      <4>1. SameRuns(Waits(s))
        BY <1>1, <2>2, <3>1, <3>3 DEF SameRuns
      <4> QED
        BY <1>1, <3>3, <4>1, UnseenBy
    <3> QED
      BY <3>2, <3>3
  <2> QED
    BY <2>1, <2>2
<1>5. ASSUME NEW p \in Tickets
      PROVE  ticket'[p].cuts = IF \E s \in cutoff : p \in RunningOf[s]
                               THEN ticket[p].cuts + 1 ELSE ticket[p].cuts
  <2>1. CASE \E s \in cutoff : p \in RunningOf[s]
    <3>1. PICK s \in cutoff : p \in Running(s)
      BY <2>1 DEF RunningOf
    <3>2. p = Waits(s) /\ ticket[p].execs # ticket[p].cuts
      BY <3>1 DEF Running
    <3> QED
      BY <1>1, <1>2, <2>1, <3>1, <3>2
  <2>2. CASE ~\E s \in cutoff : p \in RunningOf[s]
    <3>1. CASE Hit(p)
      <4>1. PICK s \in cutoff : Waits(s) = p
        BY <1>3, <3>1
      <4>2. ticket[p].execs = ticket[p].cuts
        BY <2>2, <4>1 DEF RunningOf, Running
      <4> QED
        BY <1>1, <2>2, <4>2
    <3>2. CASE ~Hit(p)
      BY <1>1, <2>2, <3>2
    <3> QED
      BY <3>1, <3>2
  <2> QED
    BY <2>1, <2>2
<1> HIDE DEF cutoff
<1>6. WaitingOf' = [s \in Sessions |-> IF s \in cutoff THEN WaitingOf[s] \cup RunningOf[s]
                                      ELSE WaitingOf[s]]
  BY <1>4 DEF WaitingOf, RunningOf
<1>7. RunningOf' = [s \in Sessions |-> IF s \in cutoff THEN {} ELSE RunningOf[s]]
  BY <1>4 DEF RunningOf
<1>8. CutsOf' = [p \in Tickets |-> IF \E s \in cutoff : p \in RunningOf[s]
                                  THEN CutsOf[p] + 1 ELSE CutsOf[p]]
  BY <1>5 DEF CutsOf
<1>9. DecidedOf' = DecidedOf /\ RunsOf' = RunsOf /\ NotAsked'
  BY <1>1 DEF DecidedOf, RunsOf, NotAsked
<1>10. cutoff \in SUBSET Sessions
  BY DEF cutoff
<1> QED
  BY <1>1, <1>6, <1>7, <1>8, <1>9, <1>10
     DEF Asked!Cut, WaitingOf, RunningOf, DecidedOf, RunsOf, CutsOf

\* Every step is one of Approvals, or leaves the commands alone.
LEMMA NextApproves ==
  Once /\ NotAsked /\ [Next]_vars => NotAsked' /\ [Asked!Next]_Asked!vars
<1> SUFFICES ASSUME Once, NotAsked, [Next]_vars PROVE NotAsked' /\ [Asked!Next]_Asked!vars
  OBVIOUS
<1>1. Serial' /\ TypeOK
  BY NextSerial DEF Once, Serial, IInv
<1>2. ASSUME ticket' = ticket, issued' = issued, \A s \in Sessions : Waits(s)' = Waits(s)
      PROVE  NotAsked' /\ [Asked!Next]_Asked!vars
  BY <1>2, SameApprovals DEF SameHistory, SameRuns
<1>3. ASSUME NEW c \in Calls, Step(c) PROVE NotAsked' /\ [Asked!Next]_Asked!vars
  <2>1. CASE \/ StartGraph(c) \/ IntentAnalyzer(c) \/ Router(c) \/ HumanApproval(c)
             \/ SecurityReview(c)
    <3>1. ticket' = ticket /\ issued' = issued
      BY <2>1 DEF StartGraph, IntentAnalyzer, Router, HumanApproval, SecurityReview, History
    <3> QED
      BY <1>1, <1>2, <2>1, <3>1, NodesOnce
  <2>2. CASE EmbedQuery(c) \/ ResumeGraph(c) \/ Finish(c) \/ PersistFinal(c)
    BY <1>2, <2>2 DEF EmbedQuery, ResumeGraph, Finish, PersistFinal, History, Waits
  <2>3. CASE \/ OsEngineer(c) \/ CloudEngineer(c) \/ FinopsAgent(c)
             \/ ReactRefuse(c) \/ ReactCommand(c)
    BY <1>1, <2>3, LoopRuns DEF OsEngineer, CloudEngineer, FinopsAgent, Asked!Next
  <2>4. CASE ReactError(c) \/ ReactAnswer(c) \/ ReactExhausted(c)
    BY <1>1, <2>4, DoneSettles DEF Asked!Next
  <2>5. CASE ReactPause(c)
    BY <1>1, <2>5, PauseAsks DEF Asked!Next
  <2>6. CASE Raise(c)
    BY <1>1, <2>6, RaiseLoses, LostCuts DEF Asked!Next
  <2> QED
    BY <1>3, <2>1, <2>2, <2>3, <2>4, <2>5, <2>6 DEF Step
<1>4. ASSUME NEW c \in Calls, NEW s \in Sessions, Submit(c, s)
      PROVE  NotAsked' /\ [Asked!Next]_Asked!vars
  BY <1>2, <1>4 DEF Submit, History, Waits
<1>5. ASSUME NEW c \in Calls, NEW s \in Sessions, NEW d \in Decisions, Approve(c, s, d)
      PROVE  NotAsked' /\ [Asked!Next]_Asked!vars
  BY <1>5, ApproveDecides, ConstantsAssumption DEF Asked!Next
<1>6. CASE Crash
  BY <1>1, <1>6, CrashLoses, LostCuts DEF Asked!Next
<1>7. CASE UNCHANGED vars
  BY <1>2, <1>7 DEF vars, Waits
<1> QED
  BY <1>3, <1>4, <1>5, <1>6, <1>7 DEF Next

LEMMA InitApproves == Init => NotAsked /\ Asked!Init
<1> SUFFICES ASSUME Init PROVE NotAsked /\ Asked!Init
  OBVIOUS
<1>1. \A p \in Tickets : ticket[p].decided = {} /\ ticket[p].execs = 0 /\ ticket[p].cuts = 0
  BY DEF Init
<1>2. \A s \in Sessions : Waits(s) = None
  <2>1. \A s \in Sessions : thread[s].st = EmptyState
    BY DEF Init
  <2>2. EmptyState.hitl_command = None
    BY DEF EmptyState
  <2> QED
    BY <2>1, <2>2 DEF Waits
<1>3. WaitingOf = [s \in Sessions |-> {}] /\ RunningOf = [s \in Sessions |-> {}]
  BY <1>2 DEF WaitingOf, RunningOf, Waiting, Running
<1>4. /\ DecidedOf = [p \in Tickets |-> {}] /\ RunsOf = [p \in Tickets |-> 0]
      /\ CutsOf = [p \in Tickets |-> 0] /\ NotAsked
  BY <1>1 DEF DecidedOf, RunsOf, CutsOf, NotAsked
<1>5. 1 .. issued = {}
  BY DEF Init
<1> QED
  BY <1>3, <1>4, <1>5 DEF Asked!Init, WaitingOf, RunningOf, DecidedOf, RunsOf, CutsOf

\* With requests on a session one after the other, whatever fails or crashes, the graph
\* implements Approvals: one command waits in a session at most, only that one is decided on
\* and run, what was run runs again only if who ran it was cut off, and what an agent
\* settled, or another command replaced, never waits again.
THEOREM ImplementsApprovals ==
  ASSUME ~Overlap
  PROVE  Spec => KeepsApprovals
<1>1. Init => Once /\ NotAsked /\ Asked!Init
  BY InitOnce, InitApproves
<1>2. Once /\ NotAsked /\ [Next]_vars => (Once /\ NotAsked)' /\ [Asked!Next]_Asked!vars
  BY NextOnce, NextApproves
<1> QED
  BY <1>1, <1>2, PTL DEF Spec, KeepsApprovals, Asked!Spec

-----------------------------------------------------------------------------
(***************************************************************************)
(* In its own turn a command runs only after the user was asked.  The      *)
(* invariant: while nothing was said of it, its thread stops at the        *)
(* question and no request works on the session.  A query that comes in    *)
(* takes the command into a turn of its own, for it is a request the       *)
(* command did not come from.                                              *)
(***************************************************************************)
Early   == {"unused", "embedding", "loading"}
Working == Nodes \cup {"react", "resuming"}

\* A request that has started its graph, and so will not start it again.
Begun(r) == r # None => call[r].pc \notin Early

Undecided(s) ==
  /\ Waits(s) # None /\ ticket[Waits(s)].decided = {}
  /\ ticket[Waits(s)].by = thread[s].st.request_id

Parked(s) ==
  Undecided(s) => /\ thread[s].next = "human_approval"
                  /\ \A c \in Calls : call[c].sess = s => call[c].pc \notin Working

Turns ==
  /\ Once
  /\ AskedInItsTurn
  /\ \A s \in Sessions : Parked(s) /\ Begun(thread[s].st.request_id)
  /\ \A p \in Tickets : p <= issued => Begun(ticket[p].by)

\* Decisions stay, and a ticket stays with the request that put it up.
Remembers ==
  /\ issued' \in Nat /\ issued <= issued'
  /\ \A p \in Tickets : p <= issued => /\ ticket'[p].by = ticket[p].by
                                       /\ ticket[p].decided \subseteq ticket'[p].decided

\* A session whose thread and calls a step leaves alone stays parked.
LEMMA ParkedStays ==
  ASSUME Turns, Remembers, NEW s \in Sessions, thread'[s] = thread[s],
         \A c \in Calls : call'[c].sess = s /\ call'[c].pc \in Working =>
           call[c].sess = s /\ call[c].pc \in Working
  PROVE  Parked(s)'
<1>1. Waits(s)' = Waits(s) /\ (Waits(s) # None => Waits(s) \in Tickets /\ Waits(s) <= issued)
  BY WaitsOwn DEF Waits, Turns, Once, Serial
<1>2. Undecided(s)' => Undecided(s)
  BY <1>1 DEF Undecided, Remembers
<1> QED
  BY <1>2 DEF Parked, Turns

\* A step of one call keeps the invariant when it is right for its session.
LEMMA TurnsStep ==
  ASSUME Turns, Once', NEW c \in Calls, NEW s \in Sessions, OnlyOn(c, s), Remembers,
         AskedInItsTurn', Parked(s)',
         call[c].pc \in Early \/ call'[c].pc \notin Early,
         \/ thread'[s].st.request_id = thread[s].st.request_id
         \/ thread'[s].st.request_id = c /\ call'[c].pc \notin Early,
         \A p \in Tickets : p <= issued' /\ ~(p <= issued) =>
           ticket'[p].by = thread[s].st.request_id
  PROVE  Turns'
<1>0. /\ \A t \in Sessions : thread[t].st.request_id \in Reqs
      /\ \A p \in Tickets : ticket[p].by \in Reqs
  BY DEF Turns, Once, Serial, IInv, TypeOK, AgentState, TicketRecord
<1>1. ASSUME NEW r \in Reqs, Begun(r) PROVE Begun(r)'
  BY <1>1 DEF Begun, OnlyOn, Reqs
<1> HIDE DEF Begun
<1>2. c # None /\ (call'[c].pc \notin Early => Begun(c)')
  BY DEF Begun, Calls, None
<1>3. ASSUME NEW t \in Sessions PROVE Begun(thread[t].st.request_id)'
  <2>1. CASE t # s
    BY <1>0, <1>1, <2>1 DEF OnlyOn, Turns
  <2>2. CASE t = s
    BY <1>0, <1>1, <1>2, <2>2 DEF Turns
  <2> QED
    BY <2>1, <2>2
<1>4. ASSUME NEW p \in Tickets, p <= issued' PROVE Begun(ticket[p].by)'
  <2>1. CASE p <= issued
    BY <1>0, <1>1, <2>1 DEF Turns, Remembers
  <2>2. CASE ~(p <= issued)
    BY <1>0, <1>1, <1>4, <2>2 DEF Turns
  <2> QED
    BY <2>1, <2>2
<1>5. ASSUME NEW t \in Sessions PROVE Parked(t)'
  <2>1. CASE t # s
    <3>1. \A d \in Calls : call'[d].sess = t /\ call'[d].pc \in Working =>
            call[d].sess = t /\ call[d].pc \in Working
      BY <2>1, StepNames DEF OnlyOn, Working, IdlePc, Answers
    <3> QED
      BY <2>1, <3>1, ParkedStays DEF OnlyOn
  <2> QED
    BY <2>1
<1> QED
  BY <1>3, <1>4, <1>5 DEF Turns

\* Steps that leave the tickets alone forget nothing.
LEMMA TicketsRemembered ==
  ASSUME Turns, ticket' = ticket, issued' = issued
  PROVE  Remembers /\ AskedInItsTurn'
         /\ \A p \in Tickets : ~(p <= issued' /\ ~(p <= issued))
BY DEF Turns, Once, Serial, IInv, TypeOK, Remembers, AskedInItsTurn

\* A call at work on a session works on the command that waits there, about which the user
\* was asked, or which came from another turn.
LEMMA WorkedOn ==
  ASSUME Turns, NEW c \in Calls, call[c].pc \in Nodes \cup {"react"}
  PROVE  /\ InFlight(c) /\ call[c].sess \in Sessions /\ ~Undecided(call[c].sess)
         /\ call[c].st.request_id = thread[call[c].sess].st.request_id
         /\ call[c].st.hitl_command = Waits(call[c].sess)
<1>1. InFlight(c) /\ call[c].sess \in Sessions
  BY StepNames, CallFacts DEF InFlight, Idle, IdlePc, Answers, Turns, Once, Serial
<1>2. ~Undecided(call[c].sess)
  BY <1>1 DEF Turns, Parked, Working
<1>3. SameTurn(thread[call[c].sess].st, call[c].st)
  BY <1>1 DEF Turns, Once, Serial, InStep, Loaded
<1> QED
  BY <1>1, <1>2, <1>3 DEF SameTurn, Waits

\* A return that saves the request, and the command that waits or none, keeps it.
LEMMA ReturnTurns ==
  ASSUME Turns, Once', NEW c \in Calls, call[c].pc \in Nodes \cup {"react"},
         ticket' = ticket, issued' = issued,
         NEW next \in Nodes \cup {"end"}, NEW st, Return(c, next, st),
         st.hitl_command \in {call[c].st.hitl_command, None},
         st.request_id = call[c].st.request_id
  PROVE  Turns'
<1> PICK s : s = call[c].sess
  OBVIOUS
<1>1. InFlight(c) /\ s \in Sessions /\ ~Undecided(s)
  BY WorkedOn
<1>2. OnlyOn(c, s) /\ Waits(s)' = st.hitl_command
  BY <1>1, ReturnOn DEF Turns, Once
<1>3. thread'[s].st = st
  BY <1>1 DEF Return, Turns, Once, Serial, IInv, TypeOK
<1>4. call'[c].pc \in Nodes \cup {"ended"}
  BY ReturnedCall DEF Turns, Once, Serial
<1>5. ~Undecided(s)'
  BY <1>1, <1>2, <1>3, WorkedOn DEF Undecided
<1>6. call'[c].pc \notin Early
  BY <1>4, StepNames DEF Early, IdlePc
<1> QED
  BY <1>1, <1>2, <1>3, <1>5, <1>6, WorkedOn, TicketsRemembered, TurnsStep DEF Parked

\* A new query makes the command that waits one of another turn.
LEMMA StartTurns ==
  ASSUME Turns, Once', NEW c \in Calls, StartGraph(c)
  PROVE  Turns'
<1> PICK s : s = call[c].sess
  OBVIOUS
<1>1. PICK st : /\ Return(c, "intent_analyzer", st) /\ st.request_id = c
                /\ st.hitl_command = Waits(s)
  BY StartKeeps DEF Turns, Once, Serial
<1>2. /\ call[c].pc = "loading" /\ ticket' = ticket /\ issued' = issued
      /\ "intent_analyzer" \in Nodes
  BY StartKeeps DEF Turns, Once, Serial
<1>3. InFlight(c) /\ s \in Sessions
  BY <1>2, CallFacts DEF InFlight, Idle, Answers, Turns, Once, Serial
<1>4. OnlyOn(c, s) /\ Waits(s)' = Waits(s)
  BY <1>1, <1>2, <1>3, ReturnOn DEF Turns, Once
<1>5. thread'[s].st.request_id = c
  BY <1>1, <1>3 DEF Return, Turns, Once, Serial, IInv, TypeOK
<1>6. call'[c].pc \notin Early
  <2>1. call'[c].pc = "intent_analyzer"
    BY <1>1, <1>2, ReturnedCall DEF Interrupts, Turns, Once, Serial
  <2> QED
    BY <2>1 DEF Early
<1>7. ~Undecided(s)'
  <2>1. SUFFICES ASSUME Waits(s) # None PROVE ticket[Waits(s)].by # c
    BY <1>2, <1>4, <1>5 DEF Undecided
  <2>2. Waits(s) \in Tickets /\ Waits(s) <= issued
    BY <1>3, <2>1, WaitsOwn DEF Turns, Once, Serial
  <2>3. c # None
    BY DEF Calls, None
  <2> QED
    BY <1>2, <2>2, <2>3 DEF Turns, Begun, Early
<1> QED
  BY <1>2, <1>3, <1>4, <1>5, <1>6, <1>7, TicketsRemembered, TurnsStep DEF Parked

\* Outside its loop and its nodes a call changes neither thread nor tickets.
LEMMA CallsTurns ==
  ASSUME Turns, Once', NEW c \in Calls,
         EmbedQuery(c) \/ ResumeGraph(c) \/ Finish(c) \/ PersistFinal(c)
  PROVE  Turns'
<1>1. ticket' = ticket /\ issued' = issued /\ thread' = thread
  BY DEF EmbedQuery, ResumeGraph, Finish, PersistFinal, History
<1>2. PICK s \in Sessions : s = call[c].sess /\ OnlyOn(c, s)
  BY CallsOnce DEF Turns, Once
<1>3. /\ call \in [Calls -> CallRecord] /\ call[c] \in CallRecord
      /\ thread[s].next \in Nodes \cup {"start", "end"}
  BY <1>2, CallFacts DEF Turns, Once, Serial, IInv, TypeOK
<1>4. /\ call[c].pc \in Early \/ call'[c].pc \notin Early
      /\ call'[c].pc \in Working => call[c].pc \in Working
  <2>1. ASSUME NEW pc \in Answers, Answer(c, pc)
        PROVE  call'[c].pc \notin Early /\ call'[c].pc \notin Working
    <3>1. call'[c].pc = pc
      BY <1>3, <2>1 DEF Answer, Resting
    <3> QED
      BY <3>1, StepNames DEF Early, Working, IdlePc, Answers
  <2>2. CASE EmbedQuery(c)
    <3>1. call[c].pc \in Early
      BY <2>2 DEF EmbedQuery, Early
    <3>2. CASE call' = [call EXCEPT ![c].pc = "loading"]
      <4>1. call'[c].pc = "loading"
        BY <1>3, <3>2 DEF CallRecord
      <4> QED
        BY <3>1, <4>1, StepNames DEF Working
    <3> QED
      BY <2>1, <2>2, <3>1, <3>2 DEF EmbedQuery, Answers
  <2>3. CASE ResumeGraph(c)
    <3>1. call[c].pc \in Working
      BY <2>3 DEF ResumeGraph, Working
    <3>2. CASE thread[s].next # "start"
      <4>1. call'[c].pc = IF thread[s].next = "end" THEN "ended" ELSE thread[s].next
        BY <1>2, <1>3, <2>3, <3>2 DEF ResumeGraph, CallRecord
      <4>2. call'[c].pc \in Nodes \cup {"ended"}
        BY <1>3, <3>2, <4>1
      <4> QED
        BY <3>1, <4>2, StepNames DEF Early, IdlePc
    <3> QED
      BY <1>2, <2>1, <2>3, <3>1, <3>2 DEF ResumeGraph, Answers
  <2>4. CASE Finish(c)
    <3>1. CASE call' = [call EXCEPT ![c].pc = "persisting"]
      <4>1. call'[c].pc = "persisting"
        BY <1>3, <3>1 DEF CallRecord
      <4> QED
        BY <4>1, StepNames DEF Early, Working
    <3>2. (\E pc \in Answers : Answer(c, pc)) \/ call' = [call EXCEPT ![c].pc = "persisting"]
      BY <2>4 DEF Finish, StatusOf, Answers
    <3> QED
      BY <2>1, <3>1, <3>2
  <2>5. CASE PersistFinal(c)
    BY <2>1, <2>5 DEF PersistFinal, Answers
  <2> QED
    BY <2>2, <2>3, <2>4, <2>5
<1>5. \A d \in Calls : call'[d].sess = s /\ call'[d].pc \in Working =>
        call[d].sess = s /\ call[d].pc \in Working
  BY <1>2, <1>4 DEF OnlyOn
<1>6. Parked(s)'
  BY <1>1, <1>5, ParkedStays, TicketsRemembered
<1> QED
  BY <1>1, <1>2, <1>4, <1>6, TicketsRemembered, TurnsStep

\* An agent takes up a command only of which its turn knows the user's answer, or of which it
\* is not the turn.
LEMMA LoopTurns ==
  ASSUME Turns, Once', NEW c \in Calls,
         (\E a \in Agents : EnterAgent(c, a)) \/ ReactRefuse(c) \/ ReactCommand(c)
  PROVE  Turns'
<1> PICK s : s = call[c].sess
  OBVIOUS
<1>1. /\ call[c].pc \in Agents \cup {"react"} /\ thread' = thread
      /\ call'[c].pc = "react" /\ call'[c].sess = s
      /\ \A d \in Calls : d # c => call'[d] = call[d]
  BY LoopKeeps DEF Turns, Once, Serial, IInv
<1>2. call[c].pc \in Nodes \cup {"react"}
  BY <1>1 DEF Nodes
<1>3. InFlight(c) /\ s \in Sessions /\ ~Undecided(s)
  BY <1>2, WorkedOn
<1>4. OnlyOn(c, s)
  BY <1>1, <1>3 DEF OnlyOn, Own
<1>5. Remembers /\ AskedInItsTurn' /\ issued' = issued
  <2>1. CASE ticket' = ticket
    <3>1. issued' = issued
      BY DEF EnterAgent, ReactRefuse, ReactCommand, History
    <3> QED
      BY <2>1, <3>1, TicketsRemembered
  <2>2. ASSUME NEW a \in Agents, EnterAgent(c, a), ResumesCommand(call[c].st)
        PROVE  Remembers /\ AskedInItsTurn' /\ issued' = issued
    <3> DEFINE p == Waits(s)
    <3>1. call[c].st.hitl_command = p /\ call[c].st.request_id = thread[s].st.request_id
      BY <1>2, WorkedOn
    <3>2. /\ p \in Tickets
          /\ ticket'[p].turns = ticket[p].turns \cup {thread[s].st.request_id}
          /\ ticket'[p].by = ticket[p].by /\ ticket'[p].decided = ticket[p].decided
          /\ \A q \in Tickets \ {p} : ticket'[q] = ticket[q]
      BY <2>2, <3>1, TakesUp DEF Turns, Once, Serial
    <3>3. issued' = issued /\ issued \in Nat
      <4>1. issued' = issued
        BY <2>2 DEF EnterAgent
      <4> QED
        BY <4>1 DEF Turns, Once, Serial, IInv, TypeOK
    <3>4. p # None
      BY <3>2 DEF Tickets, None
    <3>5. AskedInItsTurn'
      BY <1>3, <3>2, <3>4 DEF Undecided, Turns, AskedInItsTurn
    <3>6. Remembers
      BY <3>2, <3>3 DEF Remembers
    <3> QED
      BY <3>3, <3>5, <3>6
  <2>3. CASE \E a \in Agents : EnterAgent(c, a)
    BY <2>1, <2>2, <2>3 DEF EnterAgent
  <2>4. CASE ReactRefuse(c) \/ ReactCommand(c)
    BY <2>1, <2>4 DEF ReactRefuse, ReactCommand, History
  <2> QED
    BY <2>3, <2>4
<1>6. Parked(s)'
  <2>1. \A d \in Calls : call'[d].sess = s /\ call'[d].pc \in Working =>
          call[d].sess = s /\ call[d].pc \in Working
    BY <1>1, <1>2 DEF Working
  <2> QED
    BY <1>1, <1>3, <1>5, <2>1, ParkedStays
<1>7. call'[c].pc \notin Early
  BY <1>1 DEF Early
<1> QED
  BY <1>1, <1>3, <1>4, <1>5, <1>6, <1>7, TurnsStep

\* A command put up for approval stops its turn.
LEMMA PauseTurns ==
  ASSUME Turns, Once', NEW c \in Calls, ReactPause(c)
  PROVE  Turns'
<1> PICK s, n : s = call[c].sess /\ n = issued + 1
  OBVIOUS
<1> DEFINE st == [call[c].st EXCEPT !.hitl_pending = TRUE, !.hitl_command = n,
                                    !.command_count = call[c].count]
<1>1. call[c].pc = "react" /\ n \in Tickets /\ issued' = n /\ issued \in Nat
  BY DEF ReactPause, Looping, Turns, Once, Serial, IInv, TypeOK, Tickets
<1>2. /\ InFlight(c) /\ s \in Sessions
      /\ call[c].st.request_id = thread[s].st.request_id
  BY <1>1, WorkedOn
<1>3. st.hitl_pending = TRUE /\ st.request_id = thread[s].st.request_id
  <2>1. call[c].st \in AgentState
    BY CallFacts DEF Turns, Once, Serial
  <2> QED
    BY <1>2, <2>1 DEF AgentState
<1>4. /\ ticket'[n].by = call[c].st.request_id /\ ticket'[n].turns = {}
      /\ \A q \in Tickets : q # n => ticket'[q] = ticket[q]
  BY <1>1 DEF ReactPause, NewTicket, Turns, Once, Serial, IInv, TypeOK
<1>5. Leave(c, st)
  BY DEF ReactPause
<1> HIDE DEF st
<1>6. RouteAfterAgent(st) = "human_approval" /\ "human_approval" \in Nodes
  BY <1>3 DEF RouteAfterAgent, Nodes
<1>7. OnlyOn(c, s)
  BY <1>2, <1>5, <1>6, ReturnOn DEF Leave, Turns, Once
<1>8. thread'[s] = [next |-> "human_approval", st |-> st]
  BY <1>2, <1>5, <1>6 DEF Leave, Return, Turns, Once, Serial, IInv, TypeOK
<1>9. call'[c].pc = "ended"
  BY <1>5, <1>6, ReturnedCall DEF Leave, Interrupts, Turns, Once, Serial
<1>10. Parked(s)'
  <2>1. ASSUME NEW d \in Calls, call'[d].sess = s, call'[d].pc \in Working PROVE FALSE
    <3>1. d # c /\ call'[d] = call[d]
      BY <1>7, <1>9, <2>1, StepNames DEF OnlyOn, Working
    <3>2. InFlight(d)
      BY <2>1, <3>1, StepNames DEF InFlight, Idle, IdlePc, Answers, Working
    <3> QED
      BY <1>2, <2>1, <3>1, <3>2 DEF Turns, Once, Serial, OneCall
  <2> QED
    BY <1>8, <2>1 DEF Parked
<1>11. Remembers
  BY <1>1, <1>4 DEF Remembers, Tickets
<1>12. AskedInItsTurn'
  BY <1>1, <1>4 DEF Turns, AskedInItsTurn
<1>13. \A p \in Tickets : p <= issued' /\ ~(p <= issued) => p = n
  BY <1>1 DEF Tickets
<1> QED
  BY <1>2, <1>3, <1>4, <1>7, <1>8, <1>9, <1>10, <1>11, <1>12, <1>13, TurnsStep DEF Early

\* A user's answer is about the command the thread stops at.
LEMMA ApproveTurns ==
  ASSUME Turns, Once', NEW c \in Calls, NEW s \in Sessions, NEW d \in Decisions,
         Approve(c, s, d)
  PROVE  Turns'
<1> DEFINE p == Waits(s)
<1>1. OnlyOn(c, s) /\ thread' = thread /\ issued' = issued
  BY ArriveOnce DEF Approve, Turns, Once
<1>2. call'[c].pc = "resuming"
  BY CallFacts DEF Approve, Turns, Once, Serial, IInv, TypeOK, CallRecord
<1>3. issued \in Nat /\ issued' \in Nat
  BY <1>1 DEF Turns, Once, Serial, IInv, TypeOK
<1>4. CASE thread[s].next = "human_approval" /\ p # None
  <2>1. ticket' = [ticket EXCEPT ![p].decided = @ \cup {d}]
    BY <1>4 DEF Approve, Waits
  <2>2. p \in Tickets
    BY <1>4, WaitsOwn DEF Turns, Once, Serial
  <2>3. /\ ticket'[p].decided = ticket[p].decided \cup {d}
        /\ ticket'[p].by = ticket[p].by /\ ticket'[p].turns = ticket[p].turns
        /\ \A q \in Tickets : q # p => ticket'[q] = ticket[q]
    BY <2>1, <2>2 DEF Turns, Once, Serial, IInv, TypeOK, TicketRecord
  <2>4. Remembers /\ AskedInItsTurn'
    BY <1>1, <1>3, <2>3 DEF Remembers, Turns, AskedInItsTurn
  <2>5. ~Undecided(s)'
    BY <1>1, <2>3 DEF Undecided, Waits
  <2> QED
    BY <1>1, <1>2, <2>4, <2>5, TurnsStep DEF Parked, Early
<1>5. CASE ~(thread[s].next = "human_approval" /\ p # None)
  <2>1. ticket' = ticket
    BY <1>5 DEF Approve, Waits
  <2>2. ~Undecided(s)'
    BY <1>1, <1>5, <2>1 DEF Undecided, Waits, Turns, Parked
  <2> QED
    BY <1>1, <1>2, <2>1, <2>2, TicketsRemembered, TurnsStep DEF Parked, Early
<1> QED
  BY <1>4, <1>5

\* A query that arrives is not yet at work.
LEMMA SubmitTurns ==
  ASSUME Turns, Once', NEW c \in Calls, NEW s \in Sessions, Submit(c, s)
  PROVE  Turns'
<1>1. /\ OnlyOn(c, s) /\ thread' = thread /\ ticket' = ticket /\ issued' = issued
      /\ call[c].pc = "unused"
  BY ArriveOnce DEF Submit, MayStart, NextCall, History, Turns, Once
<1>2. call'[c].pc = "embedding"
  BY CallFacts DEF Submit, Turns, Once, Serial, IInv, TypeOK, CallRecord
<1>3. Parked(s)'
  <2>1. \A d \in Calls : call'[d].sess = s /\ call'[d].pc \in Working =>
          call[d].sess = s /\ call[d].pc \in Working
    BY <1>1, <1>2, StepNames DEF OnlyOn, Working
  <2> QED
    BY <1>1, <2>1, ParkedStays, TicketsRemembered
<1> QED
  BY <1>1, <1>3, TicketsRemembered, TurnsStep DEF Early

\* Calls that are cut off leave the threads and the decisions alone.
LEMMA LostTurns ==
  ASSUME Turns, Once', NEW calls \in SUBSET Calls, Lost(calls),
         \A c \in calls : call'[c].pc \notin Working /\ (call[c].pc \in Early \/ call'[c].pc \notin Early)
  PROVE  Turns'
<1>1. /\ thread' = thread /\ issued' = issued /\ issued \in Nat
      /\ \A c \in Calls \ calls : call'[c] = call[c]
  BY DEF Lost, Turns, Once, Serial, IInv, TypeOK
<1>2. \A p \in Tickets : /\ ticket'[p].by = ticket[p].by /\ ticket'[p].turns = ticket[p].turns
                         /\ ticket'[p].decided = ticket[p].decided
  BY CutOffGrows DEF Lost, Turns, Once, Serial
<1>3. Remembers /\ AskedInItsTurn'
  BY <1>1, <1>2 DEF Remembers, AskedInItsTurn, Turns
<1>4. \A s \in Sessions : Parked(s)'
  <2>1. \A c \in Calls : call'[c].pc \in Working => call'[c] = call[c]
    BY <1>1
  <2> QED
    BY <1>1, <1>3, <2>1, ParkedStays
<1>5. ASSUME NEW r \in Reqs, Begun(r) PROVE Begun(r)'
  BY <1>1, <1>5 DEF Begun, Reqs
<1>6. \A s \in Sessions : thread[s].st.request_id \in Reqs
  BY DEF Turns, Once, Serial, IInv, TypeOK, AgentState
<1>7. \A p \in Tickets : ticket[p].by \in Reqs
  BY DEF Turns, Once, Serial, IInv, TypeOK, TicketRecord
<1> HIDE DEF Begun
<1> QED
  BY <1>1, <1>2, <1>3, <1>4, <1>5, <1>6, <1>7 DEF Turns

LEMMA NextTurns == Turns /\ [Next]_vars => Turns'
<1> SUFFICES ASSUME Turns, [Next]_vars PROVE Turns'
  OBVIOUS
<1>1. Once' /\ TypeOK /\ IInv
  BY NextOnce DEF Turns, Once, Serial, IInv
<1>2. ASSUME NEW c \in Calls, Step(c) PROVE Turns'
  <2>1. CASE IntentAnalyzer(c) \/ Router(c) \/ HumanApproval(c) \/ SecurityReview(c)
    <3>1. call[c].pc \in Nodes
      BY <1>1, <2>1, NodesKeep DEF Nodes
    <3> QED
      BY <1>1, <2>1, <3>1, NodesKeep, ReturnTurns
  <2>2. CASE ReactError(c) \/ ReactAnswer(c) \/ ReactExhausted(c)
    BY <1>1, <2>2, DoneKeeps, ReturnTurns
  <2>3. CASE EmbedQuery(c) \/ ResumeGraph(c) \/ Finish(c) \/ PersistFinal(c)
    BY <1>1, <2>3, CallsTurns
  <2>4. CASE \/ OsEngineer(c) \/ CloudEngineer(c) \/ FinopsAgent(c)
             \/ ReactRefuse(c) \/ ReactCommand(c)
    BY <1>1, <2>4, LoopTurns DEF OsEngineer, CloudEngineer, FinopsAgent
  <2>5. CASE StartGraph(c) \/ ReactPause(c)
    BY <1>1, <2>5, StartTurns, PauseTurns
  <2>6. CASE Raise(c)
    <3>1. call'[c].pc = "http_500"
      BY <1>1, <2>6 DEF Raise, Answer, Resting, TypeOK
    <3> QED
      BY <1>1, <2>6, <3>1, RaiseLoses, LostTurns, StepNames DEF Working, Early, IdlePc, Answers
  <2> QED
    BY <1>2, <2>1, <2>2, <2>3, <2>4, <2>5, <2>6 DEF Step
<1>3. CASE Crash
  <2>1. \A c \in Calls : call'[c].pc \in Answers \/ (call'[c] = call[c] /\ call[c].pc = "unused")
    <3>1. \A c \in Calls : call'[c] = IF InFlight(c) THEN Resting("lost") ELSE call[c]
      BY <1>3 DEF Crash
    <3>2. Resting("lost").pc = "lost"
      BY DEF Resting
    <3> QED
      BY <3>1, <3>2 DEF InFlight, Idle, Answers
  <2>2. \A c \in Calls : /\ call'[c].pc \notin Working
                         /\ call[c].pc \in Early \/ call'[c].pc \notin Early
    BY <2>1, StepNames DEF Working, Early, IdlePc, Answers
  <2> QED
    BY <1>1, <1>3, <2>2, CrashLoses, LostTurns
<1>4. CASE UNCHANGED vars
  BY <1>1, <1>4 DEF vars, Turns, AskedInItsTurn, Parked, Undecided, Begun, Waits
<1> QED
  BY <1>1, <1>2, <1>3, <1>4, SubmitTurns, ApproveTurns DEF Next

\* With requests on a session one after the other, no agent takes up a command in the turn
\* it came from before the user has said something of it, whatever fails or crashes.
THEOREM AskedBeforeItRuns ==
  ASSUME ~Overlap
  PROVE  Spec => []AskedInItsTurn
<1>1. Init => Turns
  <2> SUFFICES ASSUME Init PROVE Turns
    OBVIOUS
  <2>1. \A s \in Sessions : thread[s].st = EmptyState
    BY DEF Init
  <2>2. EmptyState.hitl_command = None /\ EmptyState.request_id = None
    BY DEF EmptyState
  <2>3. AskedInItsTurn
    BY DEF Init, AskedInItsTurn
  <2>4. \A s \in Sessions : Parked(s) /\ Begun(thread[s].st.request_id)
    BY <2>1, <2>2 DEF Parked, Undecided, Waits, Begun
  <2>5. \A p \in Tickets : ~(p <= issued)
    BY DEF Init, Tickets
  <2> QED
    BY <2>3, <2>4, <2>5, InitOnce DEF Turns
<1>2. Turns => AskedInItsTurn
  BY DEF Turns
<1> QED
  BY <1>1, <1>2, NextTurns, PTL DEF Spec

-----------------------------------------------------------------------------
(***************************************************************************)
(* Requests end: the part of EveryCallEnds that is no liveness.  Every     *)
(* step of a request brings it closer to its answer, by a measure that no  *)
(* other request and no crash raises.                                      *)
(***************************************************************************)

\* What one round of an agent and the router takes at most.
Round == cmd_max_iterations + 3

RoundsLeft(st) ==
  IF st.router_iterations >= router_max_iterations THEN 0
  ELSE router_max_iterations - st.router_iterations

AtRouter(st) == 4 + RoundsLeft(st) * Round

TurnsLeft(i) == IF i > cmd_max_iterations THEN 1 ELSE cmd_max_iterations + 2 - i

\* The steps a request may still take, when it stands at pc.
StepsLeft(r) ==
  CASE r.pc \in IdlePc           -> 0
    [] r.pc = "persisting"       -> 1
    [] r.pc = "ended"            -> 2
    [] r.pc = "security_review"  -> 3
    [] r.pc = "router"           -> AtRouter(r.st)
    [] r.pc = "human_approval"   -> AtRouter(r.st) + 1
    [] r.pc = "react"            -> AtRouter(r.st) + TurnsLeft(r.iteration)
    [] r.pc \in Agents           -> AtRouter(r.st) + cmd_max_iterations + 2
    [] r.pc = "intent_analyzer"  -> 5 + router_max_iterations * Round
    [] r.pc = "loading"          -> 6 + router_max_iterations * Round
    [] r.pc = "embedding"        -> 7 + router_max_iterations * Round
    [] r.pc = "resuming"         -> 4 + (router_max_iterations + 1) * Round

MaxSteps == 4 + (router_max_iterations + 1) * Round

Closer ==
  \A c \in Calls : InFlight(c) =>
    /\ StepsLeft(call'[c]) <= StepsLeft(call[c])
    /\ Step(c) => StepsLeft(call'[c]) < StepsLeft(call[c])

InReach ==
  \A c \in Calls : StepsLeft(call[c]) \in 0 .. MaxSteps /\ (StepsLeft(call[c]) = 0 <=> Idle(c))

\* The measure at every place of a request.
LEMMA StepsAt ==
  ASSUME NEW r
  PROVE  /\ r.pc \in IdlePc          => StepsLeft(r) = 0
         /\ r.pc = "persisting"      => StepsLeft(r) = 1
         /\ r.pc = "ended"           => StepsLeft(r) = 2
         /\ r.pc = "security_review" => StepsLeft(r) = 3
         /\ r.pc = "router"          => StepsLeft(r) = AtRouter(r.st)
         /\ r.pc = "human_approval"  => StepsLeft(r) = AtRouter(r.st) + 1
         /\ r.pc = "react"           => StepsLeft(r) = AtRouter(r.st) + TurnsLeft(r.iteration)
         /\ r.pc \in Agents          => StepsLeft(r) = AtRouter(r.st) + cmd_max_iterations + 2
         /\ r.pc = "intent_analyzer" => StepsLeft(r) = 5 + router_max_iterations * Round
         /\ r.pc = "loading"         => StepsLeft(r) = 6 + router_max_iterations * Round
         /\ r.pc = "embedding"       => StepsLeft(r) = 7 + router_max_iterations * Round
         /\ r.pc = "resuming"        => StepsLeft(r) = MaxSteps
BY ConstantsAssumption DEF StepsLeft, IdlePc, Answers, MaxSteps

\* The rounds an agent state leaves to the router, and their product with the length of one.
LEMMA RoundFacts ==
  ASSUME NEW st \in AgentState
  PROVE  /\ Round \in Nat /\ Round >= 4 /\ router_max_iterations \in Nat
         /\ RoundsLeft(st) \in 0 .. router_max_iterations
         /\ AtRouter(st) \in Nat /\ 4 <= AtRouter(st)
         /\ AtRouter(st) <= 4 + router_max_iterations * Round
         /\ router_max_iterations * Round \in Nat
         /\ MaxSteps = 4 + router_max_iterations * Round + Round
<1>1. Round \in Nat /\ Round >= 4 /\ router_max_iterations \in Nat
  BY ConstantsAssumption DEF Round
<1>2. RoundsLeft(st) \in 0 .. router_max_iterations
  <2>1. st.router_iterations \in Nat
    BY DEF AgentState
  <2> QED
    BY <1>1, <2>1 DEF RoundsLeft
<1>3. \A m, n, k \in Nat : m <= n => m * k \in Nat /\ m * k <= n * k
  <2>1. \A m, d, k \in Nat : (m + d) * k = m * k + d * k /\ m * k \in Nat /\ d * k \in Nat
    OBVIOUS
  <2>2. ASSUME NEW m \in Nat, NEW n \in Nat, NEW k \in Nat, m <= n
        PROVE  m * k \in Nat /\ m * k <= n * k
    <3>1. n - m \in Nat /\ n = m + (n - m)
      BY <2>2
    <3>2. n * k = m * k + (n - m) * k /\ m * k \in Nat /\ (n - m) * k \in Nat
      BY <2>1, <3>1
    <3> QED
      BY <3>2
  <2> QED
    BY <2>2
<1>4. RoundsLeft(st) * Round \in Nat /\ RoundsLeft(st) * Round <= router_max_iterations * Round
  BY <1>1, <1>2, <1>3
<1>5. router_max_iterations * Round \in Nat
  BY <1>1, <1>3
<1>6. (router_max_iterations + 1) * Round = router_max_iterations * Round + Round
  BY <1>1
<1> QED
  BY <1>1, <1>2, <1>4, <1>5, <1>6 DEF AtRouter, MaxSteps

\* A round of the router takes one of the rounds left.
LEMMA RoundTaken ==
  ASSUME NEW st \in AgentState, st.router_iterations + 1 < router_max_iterations
  PROVE  AtRouter(CountIteration(st)) + Round = AtRouter(st)
<1> DEFINE m == RoundsLeft(CountIteration(st))
<1>1. CountIteration(st).router_iterations = st.router_iterations + 1
  BY DEF CountIteration, AgentState
<1>2. RoundsLeft(st) = m + 1 /\ m \in Nat /\ Round \in Nat
  <2>1. st.router_iterations \in Nat /\ router_max_iterations \in Nat /\ Round \in Nat
    BY RoundFacts DEF AgentState
  <2> QED
    BY <1>1, <2>1 DEF RoundsLeft
<1>3. (m + 1) * Round = m * Round + Round /\ m * Round \in Nat
  BY <1>2
<1> QED
  BY <1>2, <1>3 DEF AtRouter

\* A request that is not answered has a step to take, and no more than MaxSteps.
LEMMA StepsBounded ==
  ASSUME IInv, NEW c \in Calls
  PROVE  /\ StepsLeft(call[c]) \in 0 .. MaxSteps
         /\ StepsLeft(call[c]) = 0 <=> Idle(c)
<1> DEFINE r == call[c]
<1>1. r \in CallRecord /\ r.st \in AgentState /\ r.pc \in CallSteps /\ r.iteration \in Nat
  BY CallFacts
<1> HIDE DEF r
<1>2. TurnsLeft(r.iteration) \in 1 .. (cmd_max_iterations + 2) /\ cmd_max_iterations \in Nat
  BY <1>1, ConstantsAssumption DEF TurnsLeft
<1>3. Round = cmd_max_iterations + 3
  BY DEF Round
<1>4. Idle(c) <=> r.pc \in IdlePc
  BY DEF r, Idle, IdlePc
<1>5. r.pc \in IdlePc \/ StepsLeft(r) \in 1 .. MaxSteps
  BY <1>1, <1>2, <1>3, RoundFacts, StepsAt DEF CallSteps, Nodes, IdlePc
<1>6. MaxSteps \in Nat
  BY <1>1, RoundFacts
<1>7. r.pc \in IdlePc => StepsLeft(r) = 0
  BY StepsAt
<1> QED
  BY <1>4, <1>5, <1>6, <1>7 DEF r

LEMMA AnsweredCall ==
  ASSUME IInv, NEW c \in Calls, InFlight(c), NEW pc \in Answers, Answer(c, pc)
  PROVE  /\ \A d \in Calls : d # c => call'[d] = call[d]
         /\ StepsLeft(call'[c]) < StepsLeft(call[c])
<1>1. (\A d \in Calls : d # c => call'[d] = call[d]) /\ call'[c] = Resting(pc)
  BY DEF Answer, IInv, TypeOK
<1>2. StepsLeft(Resting(pc)) = 0
  BY StepsAt DEF Resting, IdlePc
<1>3. StepsLeft(call[c]) \in Nat /\ StepsLeft(call[c]) # 0
  BY StepsBounded, RoundFacts, CallFacts DEF InFlight
<1> QED
  BY <1>1, <1>2, <1>3

\* What an agent state keeps for the router.
LEMMA SameRounds ==
  ASSUME NEW st, NEW st2, st2.router_iterations = st.router_iterations
  PROVE  AtRouter(st2) = AtRouter(st)
BY DEF AtRouter, RoundsLeft

\* The steps before and after the graph.
LEMMA HandlersCloser ==
  ASSUME IInv, NEW c \in Calls,
         \/ EmbedQuery(c) \/ StartGraph(c) \/ ResumeGraph(c)
         \/ Finish(c) \/ PersistFinal(c) \/ Raise(c)
  PROVE  /\ \A d \in Calls : d # c => call'[d] = call[d]
         /\ StepsLeft(call'[c]) < StepsLeft(call[c])
<1>1. InFlight(c)
  BY StepNames DEF EmbedQuery, StartGraph, ResumeGraph, Finish, PersistFinal, Raise, InFlight,
                   Idle, Answers, Nodes, IdlePc
<1>2. call[c] \in CallRecord /\ call \in [Calls -> CallRecord] /\ call[c].st \in AgentState
  BY CallFacts DEF IInv, TypeOK
<1>3. ASSUME NEW pc \in Answers, Answer(c, pc)
      PROVE  /\ \A d \in Calls : d # c => call'[d] = call[d]
             /\ StepsLeft(call'[c]) < StepsLeft(call[c])
  BY <1>1, <1>3, AnsweredCall
<1>4. CASE EmbedQuery(c)
  <2>1. CASE call' = [call EXCEPT ![c].pc = "loading"]
    <3>1. /\ \A d \in Calls : d # c => call'[d] = call[d]
          /\ call'[c].pc = "loading" /\ call[c].pc = "embedding"
      BY <1>2, <1>4, <2>1 DEF EmbedQuery, CallRecord
    <3> QED
      BY <1>2, <3>1, StepsAt, RoundFacts
  <2> QED
    BY <1>3, <1>4, <2>1 DEF EmbedQuery, Answers
<1>5. CASE StartGraph(c)
  <2>1. PICK st : Return(c, "intent_analyzer", st) /\ call[c].pc = "loading"
    BY <1>5 DEF StartGraph
  <2> QED
    BY <1>2, <2>1, ReturnedCall, StepsAt, RoundFacts DEF Interrupts
<1>6. CASE ResumeGraph(c)
  <2> DEFINE saved == thread[call[c].sess]
  <2>1. CASE saved.next = "start"
    BY <1>3, <1>6, <2>1 DEF ResumeGraph, Answers
  <2>2. CASE saved.next # "start"
    <3>1. /\ \A d \in Calls : d # c => call'[d] = call[d]
          /\ call'[c].pc = IF saved.next = "end" THEN "ended" ELSE saved.next
          /\ call'[c].st = saved.st /\ call[c].pc = "resuming"
      BY <1>2, <1>6, <2>2 DEF ResumeGraph, CallRecord
    <3>2. saved.next \in Nodes \cup {"end"} /\ saved.st \in AgentState
      BY <2>2, CallFacts
    <3>3. call'[c].pc \in Nodes \cup {"ended"}
      BY <3>1, <3>2
    <3>4. Round = cmd_max_iterations + 3 /\ cmd_max_iterations \in Nat
      BY ConstantsAssumption DEF Round
    <3> HIDE DEF saved
    <3> QED
      BY <3>1, <3>2, <3>3, <3>4, StepsAt, RoundFacts DEF Nodes
  <2> QED
    BY <2>1, <2>2
<1>7. CASE Finish(c)
  <2>1. CASE call' = [call EXCEPT ![c].pc = "persisting"]
    <3>1. /\ \A d \in Calls : d # c => call'[d] = call[d]
          /\ call'[c].pc = "persisting" /\ call[c].pc = "ended"
      BY <1>2, <1>7, <2>1 DEF Finish, CallRecord
    <3> QED
      BY <3>1, StepsAt
  <2> QED
    BY <1>3, <1>7, <2>1 DEF Finish, StatusOf, Answers
<1>8. CASE PersistFinal(c) \/ Raise(c)
  BY <1>3, <1>8 DEF PersistFinal, Raise, Answers
<1> QED
  BY <1>4, <1>5, <1>6, <1>7, <1>8

\* The intent analyzer, the human's node and the review.
LEMMA NodesCloser ==
  ASSUME IInv, NEW c \in Calls, IntentAnalyzer(c) \/ HumanApproval(c) \/ SecurityReview(c)
  PROVE  /\ \A d \in Calls : d # c => call'[d] = call[d]
         /\ StepsLeft(call'[c]) < StepsLeft(call[c])
<1>1. call[c].st \in AgentState
  BY CallFacts
<1>2. CASE IntentAnalyzer(c)
  <2>1. PICK st \in AnalyzedState(call[c].st) : Return(c, RouteAfterIntent(st), st)
    BY <1>2 DEF IntentAnalyzer
  <2>2. st \in AgentState
    BY <1>1, <2>1, AnalyzedType
  <2>3. call[c].pc = "intent_analyzer" /\ RouteAfterIntent(st) \in {"router", "security_review"}
    BY <1>2 DEF IntentAnalyzer, RouteAfterIntent
  <2> QED
    BY <2>1, <2>2, <2>3, ReturnedCall, StepsAt, RoundFacts DEF Interrupts
<1>3. CASE HumanApproval(c)
  <2> DEFINE st == [call[c].st EXCEPT !.hitl_pending = FALSE]
  <2>1. st.router_iterations = call[c].st.router_iterations
    BY <1>1 DEF AgentState
  <2>2. Return(c, "router", st) /\ call[c].pc = "human_approval"
    BY <1>3 DEF HumanApproval
  <2> HIDE DEF st
  <2> QED
    BY <1>1, <2>1, <2>2, ReturnedCall, SameRounds, StepsAt, RoundFacts DEF Interrupts
<1>4. CASE SecurityReview(c)
  <2>1. PICK st : Return(c, "end", st) /\ call[c].pc = "security_review"
    BY <1>4 DEF SecurityReview
  <2> QED
    BY <2>1, ReturnedCall, StepsAt
<1> QED
  BY <1>2, <1>3, <1>4

\* The router takes a round to send the request to an agent, or sends it to its end.
LEMMA RouterCloser ==
  ASSUME IInv, NEW c \in Calls, Router(c)
  PROVE  /\ \A d \in Calls : d # c => call'[d] = call[d]
         /\ StepsLeft(call'[c]) < StepsLeft(call[c])
<1> DEFINE st == call[c].st
<1>1. st \in AgentState /\ call[c].pc = "router"
  BY CallFacts DEF Router
<1>2. StepsLeft(call[c]) = AtRouter(st) /\ AtRouter(st) \in Nat /\ 4 <= AtRouter(st)
  BY <1>1, StepsAt, RoundFacts
<1>3. ASSUME NEW next \in {"end", "security_review"}, NEW st2, Return(c, next, st2)
      PROVE  /\ \A d \in Calls : d # c => call'[d] = call[d]
             /\ StepsLeft(call'[c]) < StepsLeft(call[c])
  BY <1>2, <1>3, ReturnedCall, StepsAt DEF Interrupts
<1>4. ASSUME NEW a \in Agents, Return(c, a, CountIteration(st)),
             st.router_iterations + 1 < router_max_iterations
      PROVE  /\ \A d \in Calls : d # c => call'[d] = call[d]
             /\ StepsLeft(call'[c]) < StepsLeft(call[c])
  <2>1. /\ \A d \in Calls : d # c => call'[d] = call[d]
        /\ call'[c].st = CountIteration(st) /\ call'[c].pc = a
    BY <1>4, ReturnedCall, AgentNames DEF Interrupts
  <2>2. CountIteration(st) \in AgentState
    <3>1. st.router_iterations + 1 \in Nat
      <4>1. st.router_iterations \in Nat
        BY <1>1 DEF AgentState
      <4> QED
        BY <4>1
    <3> QED
      BY <1>1, <3>1 DEF CountIteration, AgentState
  <2>3. AtRouter(CountIteration(st)) + Round = AtRouter(st)
        /\ AtRouter(CountIteration(st)) \in Nat
    BY <1>1, <1>4, <2>2, RoundTaken, RoundFacts
  <2>4. Round = cmd_max_iterations + 3 /\ cmd_max_iterations \in Nat
    BY ConstantsAssumption DEF Round
  <2> QED
    BY <1>2, <2>1, <2>3, <2>4, StepsAt
<1>5. CASE \E target \in Agents \cup {"security_review"} :
             Return(c, RouteAfterRouter(CountIteration(st),
                                        IF CountIteration(st).router_iterations
                                             >= router_max_iterations
                                        THEN "security_review" ELSE target),
                    CountIteration(st))
  <2>1. CountIteration(st).router_iterations = st.router_iterations + 1
        /\ st.router_iterations \in Nat /\ router_max_iterations \in Nat
    BY <1>1, ConstantsAssumption DEF CountIteration, AgentState
  <2> DEFINE st2 == CountIteration(st)
             to(target) == IF st2.router_iterations >= router_max_iterations
                           THEN "security_review" ELSE target
  <2>2. PICK target \in Agents \cup {"security_review"} :
          Return(c, RouteAfterRouter(st2, to(target)), st2)
    BY <1>5
  <2>3. \/ RouteAfterRouter(st2, to(target)) \in {"end", "security_review"}
        \/ /\ RouteAfterRouter(st2, to(target)) = target /\ target \in Agents
           /\ ~(st2.router_iterations >= router_max_iterations)
    BY DEF RouteAfterRouter
  <2> QED
    BY <1>3, <1>4, <2>1, <2>2, <2>3
<1>6. CASE Return(c, RouteAfterRouter(st, "security_review"), st)
  <2>1. RouteAfterRouter(st, "security_review") \in {"end", "security_review"}
    BY DEF RouteAfterRouter
  <2> QED
    BY <1>3, <1>6, <2>1
<1>7. ASSUME NEW refused, Return(c, RouteAfterRouter(refused, "security_review"), refused)
      PROVE  /\ \A d \in Calls : d # c => call'[d] = call[d]
             /\ StepsLeft(call'[c]) < StepsLeft(call[c])
  <2>1. RouteAfterRouter(refused, "security_review") \in {"end", "security_review"}
    BY DEF RouteAfterRouter
  <2> QED
    BY <1>3, <1>7, <2>1
<1> QED
  BY <1>5, <1>6, <1>7 DEF Router

\* An agent goes on in its loop, or back to the router, or stops at a question.
LEMMA AgentsCloser ==
  ASSUME IInv, NEW c \in Calls,
         \/ \E a \in Agents : EnterAgent(c, a)
         \/ ReactError(c) \/ ReactAnswer(c) \/ ReactRefuse(c) \/ ReactCommand(c)
         \/ ReactPause(c) \/ ReactExhausted(c)
  PROVE  /\ \A d \in Calls : d # c => call'[d] = call[d]
         /\ StepsLeft(call'[c]) < StepsLeft(call[c])
<1> DEFINE st == call[c].st
<1>1. /\ st \in AgentState /\ call[c].iteration \in Nat /\ call \in [Calls -> CallRecord]
      /\ call[c] \in CallRecord
  BY CallFacts DEF IInv, TypeOK
<1>2. cmd_max_iterations \in Nat \ {0} /\ AtRouter(st) \in Nat /\ 4 <= AtRouter(st)
  BY <1>1, ConstantsAssumption, RoundFacts
<1>3. CASE \E a \in Agents : EnterAgent(c, a)
  <2>1. call[c].pc \in Agents /\ call'[c].iteration = 1
    <3>1. call[c].pc \in Agents
      BY <1>3 DEF EnterAgent
    <3> QED
      BY <1>3, <3>1, LoopKeeps, AgentNames DEF IInv
  <2>2. /\ call'[c].pc = "react" /\ AtRouter(call'[c].st) = AtRouter(st)
        /\ \A d \in Calls : d # c => call'[d] = call[d]
    BY <1>3, LoopKeeps, SameRounds DEF IInv, SameTurn
  <2>3. TurnsLeft(1) = cmd_max_iterations + 1
    BY <1>2 DEF TurnsLeft
  <2> QED
    BY <1>2, <2>1, <2>2, <2>3, StepsAt
<1>4. CASE ReactRefuse(c) \/ ReactCommand(c)
  <2>1. /\ call[c].pc = "react" /\ call[c].iteration <= cmd_max_iterations
        /\ call'[c].iteration = call[c].iteration + 1
    <3>1. call[c].pc = "react"
      BY <1>4 DEF ReactRefuse, ReactCommand, Looping
    <3> QED
      BY <1>4, <3>1, LoopKeeps, AgentNames DEF IInv
  <2>2. /\ call'[c].pc = "react" /\ AtRouter(call'[c].st) = AtRouter(st)
        /\ \A d \in Calls : d # c => call'[d] = call[d]
    BY <1>4, LoopKeeps, SameRounds DEF IInv, SameTurn
  <2>3. TurnsLeft(call'[c].iteration) < TurnsLeft(call[c].iteration)
        /\ TurnsLeft(call'[c].iteration) \in Nat /\ TurnsLeft(call[c].iteration) \in Nat
    BY <1>1, <1>2, <2>1 DEF TurnsLeft
  <2> QED
    BY <1>2, <2>1, <2>2, <2>3, StepsAt
<1>5. CASE ReactError(c) \/ ReactAnswer(c) \/ ReactPause(c) \/ ReactExhausted(c)
  <2>1. call[c].pc = "react" /\ TurnsLeft(call[c].iteration) \in Nat \ {0}
    <3>1. call[c].pc = "react"
      BY <1>5 DEF ReactError, ReactAnswer, ReactPause, ReactExhausted, Looping
    <3> QED
      BY <1>1, <1>2, <3>1 DEF TurnsLeft
  <2>2. \A sources : DoneState(c, sources).router_iterations = st.router_iterations
    BY <1>1 DEF DoneState, AgentState
  <2>3. \A sources, e :
          [DoneState(c, sources) EXCEPT !.error = e].router_iterations = st.router_iterations
    BY <1>1 DEF DoneState, AgentState
  <2>4. \A p, n : [st EXCEPT !.hitl_pending = TRUE, !.hitl_command = p,
                             !.command_count = n].router_iterations = st.router_iterations
    BY <1>1 DEF AgentState
  <2>5. PICK st2 : Leave(c, st2) /\ st2.router_iterations = st.router_iterations
    <3>1. CASE ReactError(c) \/ ReactAnswer(c) \/ ReactExhausted(c)
      BY <2>2, <2>3, <3>1 DEF ReactError, ReactAnswer, ReactExhausted
    <3>2. CASE ReactPause(c)
      <4>1. Leave(c, [st EXCEPT !.hitl_pending = TRUE, !.hitl_command = issued + 1,
                                !.command_count = call[c].count])
        BY <3>2 DEF ReactPause
      <4> QED
        BY <2>4, <4>1
    <3> QED
      BY <1>5, <3>1, <3>2
  <2>6. RouteAfterAgent(st2) \in {"router", "human_approval"}
    BY DEF RouteAfterAgent
  <2>7. /\ \A d \in Calls : d # c => call'[d] = call[d]
        /\ call'[c].st = st2 /\ call'[c].pc \in {"router", "ended"}
    BY <2>5, <2>6, ReturnedCall DEF Leave, Interrupts
  <2> QED
    BY <1>2, <2>1, <2>5, <2>7, SameRounds, StepsAt
<1> QED
  BY <1>3, <1>4, <1>5

LEMMA StepCloser ==
  ASSUME IInv, NEW c \in Calls, Step(c)
  PROVE  /\ \A d \in Calls : d # c => call'[d] = call[d]
         /\ StepsLeft(call'[c]) < StepsLeft(call[c])
<1>1. CASE \/ EmbedQuery(c) \/ StartGraph(c) \/ ResumeGraph(c)
           \/ Finish(c) \/ PersistFinal(c) \/ Raise(c)
  BY <1>1, HandlersCloser
<1>2. CASE IntentAnalyzer(c) \/ HumanApproval(c) \/ SecurityReview(c)
  BY <1>2, NodesCloser
<1>3. CASE Router(c)
  BY <1>3, RouterCloser
<1>4. CASE \/ OsEngineer(c) \/ CloudEngineer(c) \/ FinopsAgent(c)
           \/ ReactError(c) \/ ReactAnswer(c) \/ ReactRefuse(c) \/ ReactCommand(c)
           \/ ReactPause(c) \/ ReactExhausted(c)
  BY <1>4, AgentsCloser DEF OsEngineer, CloudEngineer, FinopsAgent
<1> QED
  BY <1>1, <1>2, <1>3, <1>4 DEF Step

LEMMA NextCloser == IInv /\ [Next]_vars => Closer
<1> SUFFICES ASSUME IInv, [Next]_vars, NEW c \in Calls, InFlight(c)
             PROVE  /\ StepsLeft(call'[c]) <= StepsLeft(call[c])
                    /\ Step(c) => StepsLeft(call'[c]) < StepsLeft(call[c])
  BY DEF Closer
<1>1. StepsLeft(call[c]) \in Nat
  BY StepsBounded, CallFacts, RoundFacts
<1>2. Step(c) => StepsLeft(call'[c]) < StepsLeft(call[c])
  BY StepCloser
<1>3. StepsLeft(call'[c]) <= StepsLeft(call[c])
  <2>1. CASE \E d \in Calls : Step(d)
    <3>1. PICK d \in Calls : Step(d)
      BY <2>1
    <3>2. CASE d = c
      <4>1. StepsLeft(call'[c]) \in Nat
        <5>1. IInv'
          BY NextInv
        <5>2. (StepsLeft(call[c]) \in 0 .. MaxSteps)'
          BY <5>1, StepsBounded, PTL
        <5> QED
          BY <5>2
      <4> QED
        BY <1>1, <3>1, <3>2, <4>1, StepCloser
    <3>3. CASE d # c
      BY <1>1, <3>1, <3>3, StepCloser
    <3> QED
      BY <3>2, <3>3
  <2>2. CASE \E d \in Calls, s \in Sessions :
               Submit(d, s) \/ \E a \in Decisions : Approve(d, s, a)
    <3>1. PICK d \in Calls, s \in Sessions :
            Submit(d, s) \/ \E a \in Decisions : Approve(d, s, a)
      BY <2>2
    <3>2. call[d].pc = "unused" /\ \A e \in Calls : e # d => call'[e] = call[e]
      BY <3>1 DEF Submit, Approve, MayStart, NextCall, IInv, TypeOK
    <3>3. c # d
      BY <3>2 DEF InFlight, Idle
    <3> QED
      BY <1>1, <3>2, <3>3
  <2>3. CASE Crash
    <3>1. call'[c] = Resting("lost")
      BY <2>3 DEF Crash
    <3>2. StepsLeft(Resting("lost")) = 0
      BY StepsAt DEF Resting, IdlePc, Answers
    <3> QED
      BY <1>1, <3>1, <3>2
  <2>4. CASE UNCHANGED vars
    BY <1>1, <2>4 DEF vars
  <2> QED
    BY <2>1, <2>2, <2>3, <2>4 DEF Next
<1> QED
  BY <1>2, <1>3

\* Every step a request takes brings it closer to its answer, and nothing another request or a
\* crash does takes it further away; it starts at most MaxSteps away, and it is answered when
\* none are left.  Rounds of the router, turns of the agents, pauses and faults included.
THEOREM RequestsAreFinite == Spec => [][Closer]_vars /\ []InReach
<1>1. IInv => InReach
  BY StepsBounded DEF InReach
<1> QED
  BY <1>1, Inductive, NextCloser, PTL DEF Spec
=============================================================================
