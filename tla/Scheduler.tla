----------------------------- MODULE Scheduler -----------------------------
(***************************************************************************)
(* The way into the graph that nobody waits at: the hourly, daily and      *)
(* monthly FinOps jobs (api/scheduler.py).                                 *)
(*                                                                         *)
(* A job goes over the tenants it found when it fired, one after the       *)
(* other, each with a connection of its own; several jobs and the requests *)
(* run on one event loop and overlap wherever a job awaits: the probe and  *)
(* the graph.  Everything in between is one step.  What a statement of a   *)
(* tenant's turn raises (a write refused by a lock, a model that cannot be *)
(* reached, a broken file) is only logged, and the next tenant follows.    *)
(***************************************************************************)
EXTENDS FiniteSets

CONSTANTS
  Jobs,    \* finops_hourly_job, finops_daily_job, finops_monthly_job
  Tenants  \* names of directories under data_dir

ASSUME SchedulerAssumption == IsFiniteSet(Tenants)

VARIABLES
  known,     \* tenants that have a vce.db
  cycle,     \* cycle[j]: the run of a job
  open,      \* the connections of jobs, as <<job, tenant>>
  session,   \* session[j][t]: status of the last session of a job at a tenant
  abandoned  \* history: <<j, t>> whose last session an exception or a crash left behind

vars == <<known, cycle, open, session, abandoned>>

-----------------------------------------------------------------------------
\* "none" is a session that was never created; the others are IncidentStatus.
Status    == {"none", "pending", "analyzing", "completed", "failed"}
Unsettled == {"pending", "analyzing"}

\* What became of a tenant in a cycle: its session was settled, or an error was logged.
Ends == {"none", "settled", "logged"}

\* names is what the glob found; at is the tenant whose turn it is, if any.
CycleRecord ==
  [ pc : {"idle", "next", "probing", "running"}, names : SUBSET Tenants,
    left : SUBSET Tenants, at : SUBSET Tenants, told : [Tenants -> Ends] ]

Idle == [pc |-> "idle", names |-> {}, left |-> {}, at |-> {},
         told |-> [t \in Tenants |-> "none"]]

Init ==
  /\ known = {}
  /\ cycle = [j \in Jobs |-> Idle]
  /\ open = {}
  /\ session = [j \in Jobs |-> [t \in Tenants |-> "none"]]
  /\ abandoned = {}

-----------------------------------------------------------------------------
(***************************************************************************)
(* run_finops_analysis.                                                    *)
(***************************************************************************)
\* APScheduler starts no second run of a job that has not ended (max_instances is 1).
Fire(j) ==
  /\ cycle[j].pc = "idle"
  /\ cycle' = [cycle EXCEPT ![j] = [Idle EXCEPT !.pc = "next", !.names = known,
                                                !.left = known]]
  /\ UNCHANGED <<known, open, session, abandoned>>

\* Mutants: a tenant that failed is tried again; an exception ends the loop; the connection
\* is closed at the end of the try block.
Requeue(j, t, end) ==
  cycle' = [cycle EXCEPT ![j].pc = "next", ![j].at = {}, ![j].told[t] = end,
                         ![j].left = IF end = "logged" THEN @ \cup {t} ELSE @ \ {t}]
EndAtAnError(j, t, end) ==
  cycle' = [cycle EXCEPT ![j].pc = IF end = "logged" THEN "idle" ELSE "next", ![j].at = {},
                         ![j].told[t] = end, ![j].left = @ \ {t}]
CloseIfSettled(j, t) ==
  open' = IF session'[j][t] \in Unsettled THEN open ELSE open \ {<<j, t>>}

\* except and finally: the error is logged and the loop goes on.
Proceed(j, t, end) ==
  cycle' = [cycle EXCEPT ![j].pc = "next", ![j].at = {}, ![j].told[t] = end,
                         ![j].left = @ \ {t}]

CloseConnection(j, t) == open' = open \ {<<j, t>>}

\* create_connection up to the await of the environment profile; either may raise.
OpenTenant(j, t) ==
  /\ cycle[j].pc = "next" /\ t \in cycle[j].left
  /\ \/ /\ cycle' = [cycle EXCEPT ![j].pc = "probing", ![j].at = {t}, ![j].left = @ \ {t}]
        /\ open' = open \cup {<<j, t>>}
     \/ Proceed(j, t, "logged") /\ UNCHANGED open
  /\ UNCHANGED <<known, session, abandoned>>

\* The synthetic session, its status, the first turn, the graph: one step, which may raise
\* before and after each of the writes, or in the probe before it.
CreateSession(j, t) ==
  /\ cycle[j].pc = "probing" /\ t \in cycle[j].at
  /\ \/ /\ session' = [session EXCEPT ![j][t] = "analyzing"]
        /\ cycle' = [cycle EXCEPT ![j].pc = "running"]
        /\ abandoned' = abandoned \ {<<j, t>>}
        /\ UNCHANGED open
     \/ \E s \in Unsettled :
          /\ session' = [session EXCEPT ![j][t] = s]
          /\ abandoned' = abandoned \cup {<<j, t>>}
          /\ CloseConnection(j, t) /\ Proceed(j, t, "logged")
     \/ /\ UNCHANGED <<session, abandoned>>
        /\ CloseConnection(j, t) /\ Proceed(j, t, "logged")
  /\ UNCHANGED known

\* Mutant: only a report is settled.
CompletedOnly(old, result) == IF result = "error" THEN old ELSE "completed"

\* A run that stopped for an approval has no error either, and is completed: its question
\* goes with the MemorySaver.
FinalStatus(old, result) == IF result = "error" THEN "failed" ELSE "completed"

\* The graph returns, with or without an error, and the status is written.
GraphReturns(j, t) ==
  /\ cycle[j].pc = "running" /\ t \in cycle[j].at
  /\ \E result \in {"report", "pause", "error"} :
       session' = [session EXCEPT ![j][t] = FinalStatus(@, result)]
  /\ CloseConnection(j, t) /\ Proceed(j, t, "settled")
  /\ UNCHANGED <<known, abandoned>>

\* It raises, or the status cannot be written: the session stays as it is.
GraphRaises(j, t) ==
  /\ cycle[j].pc = "running" /\ t \in cycle[j].at
  /\ abandoned' = abandoned \cup {<<j, t>>}
  /\ UNCHANGED <<known, session>>
  /\ CloseConnection(j, t) /\ Proceed(j, t, "logged")

EndCycle(j) ==
  /\ cycle[j].pc = "next" /\ cycle[j].left = {}
  /\ cycle' = [cycle EXCEPT ![j].pc = "idle"]
  /\ UNCHANGED <<known, open, session, abandoned>>

-----------------------------------------------------------------------------
\* The first request of a tenant creates its database.
NewTenant(t) ==
  /\ t \notin known /\ known' = known \cup {t}
  /\ UNCHANGED <<cycle, open, session, abandoned>>

Crash ==
  /\ cycle' = [j \in Jobs |-> Idle] /\ open' = {}
  /\ abandoned' = abandoned \cup
       UNION {{<<j, t>> : t \in {u \in cycle[j].at : cycle[j].pc = "running"}} : j \in Jobs}
  /\ UNCHANGED <<known, session>>

Work(j) ==
  \/ \E t \in Tenants : \/ OpenTenant(j, t) \/ CreateSession(j, t)
                        \/ GraphReturns(j, t) \/ GraphRaises(j, t)
  \/ EndCycle(j)

Next ==
  \/ \E j \in Jobs : Fire(j) \/ Work(j)
  \/ \E t \in Tenants : NewTenant(t)
  \/ Crash

Spec == Init /\ [][Next]_vars

\* What a job awaits ends: probe commands are given up after their timeout, and a run of the
\* graph ends (AgentGraph, EveryCallEnds).
FairSpec == Spec /\ \A j \in Jobs : WF_vars(Work(j))

-----------------------------------------------------------------------------
\* Type invariant, with where the connections are: a job holds one to the tenant whose turn it
\* is and no other, however that turn ends.
TypeOK ==
  /\ known \subseteq Tenants
  /\ cycle \in [Jobs -> CycleRecord]
  /\ open = UNION {{<<j, t>> : t \in cycle[j].at} : j \in Jobs}
  /\ session \in [Jobs -> [Tenants -> Status]]
  /\ abandoned \subseteq Jobs \X Tenants

\* A cycle that ended has dealt with every tenant it began with, whatever happened to the
\* tenants before it: each has a settled session or an error in the log.
EveryTenantTried ==
  \A j \in Jobs : cycle[j].pc = "idle" =>
    \A t \in cycle[j].names : cycle[j].told[t] # "none"

\* A scheduled session that is not settled is being worked on, or was left by an exception
\* or a crash: a run whose graph returned, with an error or not, never leaves one.
UnsettledIsExplained ==
  \A j \in Jobs, t \in Tenants : session[j][t] \in Unsettled =>
    \/ cycle[j].pc = "running" /\ t \in cycle[j].at
    \/ <<j, t>> \in abandoned

\* A cycle ends, although jobs overlap and tenants fail: otherwise the job never fires again.
CycleEnds == \A j \in Jobs : cycle[j].pc # "idle" ~> cycle[j].pc = "idle"
=============================================================================
