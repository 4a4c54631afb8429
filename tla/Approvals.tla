----------------------------- MODULE Approvals ------------------------------
(***************************************************************************)
(* What becomes of the commands put up for approval, without saying how:   *)
(* at most one waits, or runs, in a session; only the one that waits is    *)
(* decided on or run; whoever runs it may be cut off, and then it waits    *)
(* again; and a command that was run to the end, or whose place another    *)
(* one or the end of a turn took, never waits again.  (Which decision it   *)
(* was is not asked: see RejectAborts in AgentGraphClaims.)                *)
(***************************************************************************)
EXTENDS Naturals

CONSTANTS Sessions, Tickets

VARIABLES
  asked,    \* the commands put up so far
  waiting,  \* waiting[s]: the command that waits in session s, a set of at most one
  running,  \* running[s]: the one an agent of session s has run and not yet reported
  decided,  \* decided[p]: what users said of it
  runs,     \* runs[p]: how often it was run
  cuts      \* cuts[p]: how many of these runs were cut off

vars == <<asked, waiting, running, decided, runs, cuts>>

Init ==
  /\ asked = {}
  /\ waiting = [s \in Sessions |-> {}]
  /\ running = [s \in Sessions |-> {}]
  /\ decided = [p \in Tickets |-> {}]
  /\ runs = [p \in Tickets |-> 0]
  /\ cuts = [p \in Tickets |-> 0]

\* A command is put up once; the one that waited in the session is dropped.
Ask(s, p) ==
  /\ p \in Tickets \ asked
  /\ asked' = asked \cup {p}
  /\ waiting' = [waiting EXCEPT ![s] = {p}]
  /\ running' = [running EXCEPT ![s] = {}]
  /\ UNCHANGED <<decided, runs, cuts>>

Decide(s, approved) ==
  /\ \E p \in waiting[s] : decided' = [decided EXCEPT ![p] = @ \cup {approved}]
  /\ UNCHANGED <<asked, waiting, running, runs, cuts>>

Run(s) ==
  /\ \E p \in waiting[s] : runs' = [runs EXCEPT ![p] = @ + 1]
  /\ waiting' = [waiting EXCEPT ![s] = {}]
  /\ running' = [running EXCEPT ![s] = waiting[s]]
  /\ UNCHANGED <<asked, decided, cuts>>

\* Those who ran the commands of these sessions are gone, at once.
Cut(cutoff) ==
  /\ waiting' = [s \in Sessions |-> IF s \in cutoff THEN waiting[s] \cup running[s]
                                   ELSE waiting[s]]
  /\ running' = [s \in Sessions |-> IF s \in cutoff THEN {} ELSE running[s]]
  /\ cuts' = [p \in Tickets |-> IF \E s \in cutoff : p \in running[s]
                               THEN cuts[p] + 1 ELSE cuts[p]]
  /\ UNCHANGED <<asked, decided, runs>>

\* The agent that took it up is done, whether it ran it or not.
Settle(s) ==
  /\ waiting' = [waiting EXCEPT ![s] = {}]
  /\ running' = [running EXCEPT ![s] = {}]
  /\ UNCHANGED <<asked, decided, runs, cuts>>

Next ==
  \/ \E s \in Sessions :
       \/ \E p \in Tickets : Ask(s, p)
       \/ \E approved \in BOOLEAN : Decide(s, approved)
       \/ Run(s) \/ Settle(s)
  \/ \E cutoff \in SUBSET Sessions : Cut(cutoff)

Spec == Init /\ [][Next]_vars
=============================================================================
