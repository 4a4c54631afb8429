--------------------------- MODULE SchedulerProofs ---------------------------
(***************************************************************************)
(* Proofs about Scheduler, for any jobs and any tenants: every tenant of a *)
(* cycle has its turn, connections are closed, and a session that is not   *)
(* settled is explained.                                                   *)
(***************************************************************************)
EXTENDS Scheduler, Naturals, FiniteSetTheorems, TLAPS

\* Who is where in a cycle: a tenant of it has had its turn, has it now, or waits for it.
TurnsOf(c) ==
  /\ \A t \in c.names : c.told[t] # "none" \/ t \in c.left \/ t \in c.at
  /\ c.pc \in {"idle", "next"} => c.at = {}
  /\ c.pc = "idle" => c.left = {}
  /\ \A t, u \in c.at : t = u

Turns == \A j \in Jobs : TurnsOf(cycle[j])

\* The connections of cycles c.
Held(c) == UNION {{<<j, t>> : t \in c[j].at} : j \in Jobs}

IInv == TypeOK /\ Turns /\ UnsettledIsExplained

-----------------------------------------------------------------------------
LEMMA IdleFacts == Idle \in CycleRecord /\ TurnsOf(Idle) /\ Idle.pc = "idle" /\ Idle.at = {}
BY DEF Idle, CycleRecord, Ends, TurnsOf

\* A pair is held when its tenant has its turn.
LEMMA HeldPairs ==
  ASSUME NEW c, NEW p
  PROVE  p \in Held(c) <=> \E j \in Jobs : \E t \in c[j].at : p = <<j, t>>
BY DEF Held

\* The end of a turn: the cycle goes on with the next tenant, and its connection is closed.
LEMMA EndOfTurn ==
  ASSUME TypeOK, Turns, NEW j \in Jobs, NEW t \in Tenants, NEW end \in {"settled", "logged"},
         t \in cycle[j].at \/ (cycle[j].at = {} /\ t \in cycle[j].left),
         Proceed(j, t, end), CloseConnection(j, t)
  PROVE  /\ cycle' \in [Jobs -> CycleRecord] /\ Turns' /\ open' = Held(cycle')
         /\ \A i \in Jobs : i # j => cycle'[i] = cycle[i]
<1> DEFINE c == cycle[j]
           d == [c EXCEPT !.pc = "next", !.at = {}, !.told[t] = end, !.left = @ \ {t}]
<1>1. cycle' = [cycle EXCEPT ![j] = d] BY DEF Proceed
<1>2. c \in CycleRecord /\ TurnsOf(c) BY DEF TypeOK, Turns
<1>3. d \in CycleRecord BY <1>2 DEF CycleRecord, Ends
<1>4. /\ d.pc = "next" /\ d.at = {} /\ d.names = c.names /\ d.left = c.left \ {t}
      /\ d.told = [c.told EXCEPT ![t] = end] /\ c.told \in [Tenants -> Ends]
      /\ c.names \subseteq Tenants
  BY <1>2 DEF CycleRecord
<1>5. TurnsOf(d)
  <2>1. ASSUME NEW u \in d.names PROVE d.told[u] # "none" \/ u \in d.left \/ u \in d.at
    <3>1. CASE u = t BY <1>4, <3>1
    <3>2. CASE u # t
      <4>1. d.told[u] = c.told[u] BY <1>4, <2>1, <3>2
      <4>2. u \notin c.at BY <1>2, <3>2 DEF TurnsOf
      <4> QED BY <1>2, <1>4, <2>1, <3>2, <4>1, <4>2 DEF TurnsOf
    <3> QED BY <3>1, <3>2
  <2> QED BY <1>4, <2>1 DEF TurnsOf
<1>6. cycle' \in [Jobs -> CycleRecord] /\ cycle'[j] = d
        /\ \A i \in Jobs : i # j => cycle'[i] = cycle[i]
  BY <1>1, <1>3 DEF TypeOK
<1>7. Turns' BY <1>5, <1>6 DEF Turns
<1>8. open' = Held(cycle')
  <2>1. \A p : p \in open' <=> p \in open /\ p # <<j, t>> BY DEF CloseConnection
  <2>2. open = Held(cycle) BY DEF TypeOK, Held
  <2>3. \A u \in c.at : u = t BY <1>2 DEF TurnsOf
  <2>4. \A p : p \in open <=> \E i \in Jobs : \E u \in cycle[i].at : p = <<i, u>>
    BY <2>2, HeldPairs
  <2>5. cycle'[j].at = {} /\ \A i \in Jobs : i # j => cycle'[i].at = cycle[i].at
    BY <1>4, <1>6
  <2>6. \A p : p \in open' <=> \E i \in Jobs : \E u \in cycle'[i].at : p = <<i, u>>
    BY <2>1, <2>3, <2>4, <2>5
  <2> QED BY <2>6 DEF Held
<1> QED BY <1>6, <1>7, <1>8

-----------------------------------------------------------------------------
LEMMA InitIInv == Init => IInv
<1> SUFFICES ASSUME Init PROVE IInv OBVIOUS
<1>1. \A j \in Jobs : cycle[j] = Idle BY DEF Init
<1>2. Turns BY <1>1, IdleFacts DEF Turns
<1>3. Held(cycle) = {} BY <1>1, IdleFacts, HeldPairs
<1>4. TypeOK BY <1>3, IdleFacts DEF Init, TypeOK, Held, Status
<1>5. UnsettledIsExplained BY DEF Init, UnsettledIsExplained, Unsettled
<1> QED BY <1>2, <1>4, <1>5 DEF IInv

LEMMA FireStep ==
  ASSUME IInv, NEW j \in Jobs, Fire(j) PROVE IInv'
<1> DEFINE d == [Idle EXCEPT !.pc = "next", !.names = known, !.left = known]
<1> USE DEF IInv
<1>1. cycle' = [cycle EXCEPT ![j] = d] /\ open' = open /\ session' = session
        /\ abandoned' = abandoned /\ known' = known /\ cycle[j].pc = "idle"
  BY DEF Fire
<1>2. d \in CycleRecord /\ TurnsOf(d) /\ d.at = {} BY DEF TypeOK, Idle, CycleRecord, Ends, TurnsOf
<1>3. cycle' \in [Jobs -> CycleRecord] /\ cycle'[j] = d
        /\ \A i \in Jobs : i # j => cycle'[i] = cycle[i]
  BY <1>1, <1>2 DEF TypeOK
<1>4. cycle[j].at = {} BY <1>1 DEF Turns, TurnsOf
<1>5. Held(cycle') = Held(cycle)
  <2>1. \A i \in Jobs : cycle'[i].at = cycle[i].at BY <1>2, <1>3, <1>4
  <2> QED BY <2>1 DEF Held
<1>6. TypeOK' BY <1>1, <1>3, <1>5 DEF TypeOK, Held
<1>7. Turns' BY <1>2, <1>3 DEF Turns
<1>8. UnsettledIsExplained' BY <1>1, <1>3, <1>4 DEF UnsettledIsExplained
<1> QED BY <1>6, <1>7, <1>8

LEMMA OpenStep ==
  ASSUME IInv, NEW j \in Jobs, NEW t \in Tenants, OpenTenant(j, t) PROVE IInv'
<1> USE DEF IInv
<1>1. session' = session /\ abandoned' = abandoned /\ known' = known
        /\ cycle[j].pc = "next" /\ t \in cycle[j].left
  BY DEF OpenTenant
<1>2. cycle[j].at = {} BY <1>1 DEF Turns, TurnsOf
<1>3. CASE Proceed(j, t, "logged") /\ open' = open
  <2>1. <<j, t>> \notin open BY <1>2, HeldPairs DEF TypeOK, Held
  <2>2. CloseConnection(j, t) BY <1>3, <2>1 DEF CloseConnection
  <2>3. /\ cycle' \in [Jobs -> CycleRecord] /\ Turns' /\ open' = Held(cycle')
        /\ \A i \in Jobs : i # j => cycle'[i] = cycle[i]
    BY <1>1, <1>2, <1>3, <2>2, EndOfTurn
  <2>4. TypeOK' BY <1>1, <2>3 DEF TypeOK, Held
  <2>5. UnsettledIsExplained' BY <1>1, <1>2, <2>3 DEF UnsettledIsExplained
  <2> QED BY <2>3, <2>4, <2>5
<1>4. CASE /\ cycle' = [cycle EXCEPT ![j].pc = "probing", ![j].at = {t}, ![j].left = @ \ {t}]
           /\ open' = open \cup {<<j, t>>}
  <2> DEFINE c == cycle[j]
             d == [c EXCEPT !.pc = "probing", !.at = {t}, !.left = @ \ {t}]
  <2>1. c \in CycleRecord /\ TurnsOf(c) BY DEF TypeOK, Turns
  <2>2. /\ d \in CycleRecord /\ d.at = {t} /\ d.pc = "probing" /\ d.left = c.left \ {t}
        /\ d.names = c.names /\ d.told = c.told
    BY <2>1 DEF CycleRecord
  <2>3. TurnsOf(d) BY <1>2, <2>1, <2>2 DEF TurnsOf
  <2>4. cycle' \in [Jobs -> CycleRecord] /\ cycle'[j] = d
          /\ \A i \in Jobs : i # j => cycle'[i] = cycle[i]
    BY <1>4, <2>2 DEF TypeOK
  <2>5. open' = Held(cycle')
    <3>1. \A p : p \in open <=> \E i \in Jobs : \E u \in cycle[i].at : p = <<i, u>>
      BY HeldPairs DEF TypeOK, Held
    <3>2. cycle'[j].at = {t} /\ \A i \in Jobs : i # j => cycle'[i].at = cycle[i].at
      BY <2>2, <2>4
    <3>3. \A p : p \in open' <=> p \in open \/ p = <<j, t>> BY <1>4
    <3>4. \A p : p \in open' <=> \E i \in Jobs : \E u \in cycle'[i].at : p = <<i, u>>
      BY <1>2, <3>1, <3>2, <3>3
    <3> QED BY <3>4 DEF Held
  <2>6. TypeOK' BY <1>1, <2>4, <2>5 DEF TypeOK, Held
  <2>7. Turns' BY <2>3, <2>4 DEF Turns
  <2>8. UnsettledIsExplained' BY <1>1, <1>2, <2>4 DEF UnsettledIsExplained
  <2> QED BY <2>6, <2>7, <2>8
<1> QED BY <1>3, <1>4 DEF OpenTenant

-----------------------------------------------------------------------------
\* A turn that ends with the session of its tenant explained.
LEMMA TurnStep ==
  ASSUME IInv, NEW j \in Jobs, NEW t \in Tenants, t \in cycle[j].at,
         NEW end \in {"settled", "logged"}, Proceed(j, t, end), CloseConnection(j, t),
         known' = known, session' \in [Jobs -> [Tenants -> Status]],
         abandoned' \subseteq Jobs \X Tenants, abandoned \subseteq abandoned',
         \A i \in Jobs : \A u \in Tenants :
           session'[i][u] = session[i][u] \/ (i = j /\ u = t),
         session'[j][t] \in Unsettled => <<j, t>> \in abandoned'
  PROVE  IInv'
<1> USE DEF IInv
<1>1. /\ cycle' \in [Jobs -> CycleRecord] /\ Turns' /\ open' = Held(cycle')
      /\ \A i \in Jobs : i # j => cycle'[i] = cycle[i]
  BY EndOfTurn
<1>2. TypeOK' BY <1>1 DEF TypeOK, Held
<1>3. \A u \in cycle[j].at : u = t BY DEF Turns, TurnsOf
<1>4. UnsettledIsExplained' BY <1>1, <1>3 DEF UnsettledIsExplained
<1> QED BY <1>1, <1>2, <1>4

LEMMA CreateStep ==
  ASSUME IInv, NEW j \in Jobs, NEW t \in Tenants, CreateSession(j, t) PROVE IInv'
<1> USE DEF IInv
<1>1. known' = known /\ cycle[j].pc = "probing" /\ t \in cycle[j].at BY DEF CreateSession
<1>2. CASE /\ session' = [session EXCEPT ![j][t] = "analyzing"]
           /\ cycle' = [cycle EXCEPT ![j].pc = "running"]
           /\ abandoned' = abandoned \ {<<j, t>>}
           /\ UNCHANGED open
  <2> DEFINE c == cycle[j]
             d == [c EXCEPT !.pc = "running"]
  <2>1. c \in CycleRecord /\ TurnsOf(c) BY DEF TypeOK, Turns
  <2>2. /\ d \in CycleRecord /\ d.pc = "running" /\ d.at = c.at /\ d.left = c.left
        /\ d.names = c.names /\ d.told = c.told
    BY <2>1 DEF CycleRecord
  <2>3. TurnsOf(d) BY <2>1, <2>2 DEF TurnsOf
  <2>4. cycle' \in [Jobs -> CycleRecord] /\ cycle'[j] = d
          /\ \A i \in Jobs : i # j => cycle'[i] = cycle[i]
    BY <1>2, <2>2 DEF TypeOK
  <2>5. Held(cycle') = Held(cycle)
    <3>1. \A i \in Jobs : cycle'[i].at = cycle[i].at BY <2>2, <2>4
    <3> QED BY <3>1 DEF Held
  <2>6. session' \in [Jobs -> [Tenants -> Status]] BY <1>2 DEF TypeOK, Status
  <2>7. TypeOK' BY <1>1, <1>2, <2>4, <2>5, <2>6 DEF TypeOK, Held
  <2>8. Turns' BY <2>3, <2>4 DEF Turns
  <2>9. ASSUME NEW i \in Jobs, NEW u \in Tenants, session'[i][u] \in Unsettled
        PROVE  (cycle'[i].pc = "running" /\ u \in cycle'[i].at) \/ <<i, u>> \in abandoned'
    <3>1. CASE i = j /\ u = t BY <1>1, <2>2, <2>4, <3>1
    <3>2. CASE ~(i = j /\ u = t)
      <4>1. session'[i][u] = session[i][u] BY <1>2, <3>2 DEF TypeOK
      <4>2. (cycle[i].pc = "running" /\ u \in cycle[i].at) \/ <<i, u>> \in abandoned
        BY <2>9, <4>1 DEF UnsettledIsExplained
      <4> QED BY <1>1, <1>2, <2>2, <2>4, <3>2, <4>2
    <3> QED BY <3>1, <3>2
  <2> QED BY <2>7, <2>8, <2>9 DEF UnsettledIsExplained
<1>3. ASSUME NEW s \in Unsettled, session' = [session EXCEPT ![j][t] = s],
             abandoned' = abandoned \cup {<<j, t>>},
             CloseConnection(j, t), Proceed(j, t, "logged")
      PROVE  IInv'
  <2>1. session' \in [Jobs -> [Tenants -> Status]] BY <1>3 DEF TypeOK, Status, Unsettled
  <2>2. \A i \in Jobs : \A u \in Tenants :
          session'[i][u] = session[i][u] \/ (i = j /\ u = t)
    BY <1>3 DEF TypeOK
  <2>3. /\ abandoned' \subseteq Jobs \X Tenants /\ abandoned \subseteq abandoned'
        /\ <<j, t>> \in abandoned'
    BY <1>3 DEF TypeOK
  <2>4. Proceed(j, t, "logged") /\ CloseConnection(j, t) BY <1>3
  <2> HIDE DEF IInv
  <2> QED BY <1>1, <2>1, <2>2, <2>3, <2>4, TurnStep
<1>4. CASE /\ UNCHANGED <<session, abandoned>>
           /\ CloseConnection(j, t) /\ Proceed(j, t, "logged")
  <2>1. session' = session /\ abandoned' = abandoned BY <1>4
  <2>2. session[j][t] \in Unsettled => <<j, t>> \in abandoned
    BY <1>1 DEF UnsettledIsExplained
  <2>3. session' \in [Jobs -> [Tenants -> Status]] /\ abandoned' \subseteq Jobs \X Tenants
    BY <2>1 DEF TypeOK
  <2> QED BY <1>1, <1>4, <2>1, <2>2, <2>3, TurnStep
<1> QED BY <1>2, <1>3, <1>4 DEF CreateSession

LEMMA ReturnStep ==
  ASSUME IInv, NEW j \in Jobs, NEW t \in Tenants, GraphReturns(j, t) PROVE IInv'
<1> USE DEF IInv
<1>1. PICK status \in {"failed", "completed"} :
        session' = [session EXCEPT ![j][t] = status]
  BY DEF GraphReturns, FinalStatus
<1>2. session' \in [Jobs -> [Tenants -> Status]] BY <1>1 DEF TypeOK, Status
<1>3. /\ \A i \in Jobs : \A u \in Tenants :
           session'[i][u] = session[i][u] \/ (i = j /\ u = t)
      /\ session'[j][t] \notin Unsettled
  BY <1>1 DEF TypeOK, Unsettled
<1>4. /\ t \in cycle[j].at /\ known' = known /\ abandoned' = abandoned
      /\ Proceed(j, t, "settled") /\ CloseConnection(j, t)
  BY DEF GraphReturns
<1>5. abandoned' \subseteq Jobs \X Tenants BY <1>4 DEF TypeOK
<1> QED BY <1>2, <1>3, <1>4, <1>5, TurnStep

LEMMA RaiseStep ==
  ASSUME IInv, NEW j \in Jobs, NEW t \in Tenants, GraphRaises(j, t) PROVE IInv'
<1> USE DEF IInv
<1>1. /\ t \in cycle[j].at /\ known' = known /\ session' = session
      /\ abandoned' = abandoned \cup {<<j, t>>}
      /\ Proceed(j, t, "logged") /\ CloseConnection(j, t)
  BY DEF GraphRaises
<1>2. session' \in [Jobs -> [Tenants -> Status]] /\ abandoned' \subseteq Jobs \X Tenants
  BY <1>1 DEF TypeOK
<1> QED BY <1>1, <1>2, TurnStep

LEMMA EndStep ==
  ASSUME IInv, NEW j \in Jobs, EndCycle(j) PROVE IInv'
<1> USE DEF IInv
<1> DEFINE c == cycle[j]
           d == [c EXCEPT !.pc = "idle"]
<1>1. cycle' = [cycle EXCEPT ![j] = d] /\ open' = open /\ session' = session
        /\ abandoned' = abandoned /\ known' = known /\ c.pc = "next" /\ c.left = {}
  BY DEF EndCycle
<1>2. c \in CycleRecord /\ TurnsOf(c) BY DEF TypeOK, Turns
<1>3. /\ d \in CycleRecord /\ d.pc = "idle" /\ d.at = c.at /\ d.left = c.left
      /\ d.names = c.names /\ d.told = c.told
  BY <1>2 DEF CycleRecord
<1>4. TurnsOf(d) BY <1>1, <1>2, <1>3 DEF TurnsOf
<1>5. cycle' \in [Jobs -> CycleRecord] /\ cycle'[j] = d
        /\ \A i \in Jobs : i # j => cycle'[i] = cycle[i]
  BY <1>1, <1>3 DEF TypeOK
<1>6. Held(cycle') = Held(cycle)
  <2>1. \A i \in Jobs : cycle'[i].at = cycle[i].at BY <1>3, <1>5
  <2> QED BY <2>1 DEF Held
<1>7. TypeOK' BY <1>1, <1>5, <1>6 DEF TypeOK, Held
<1>8. Turns' BY <1>4, <1>5 DEF Turns
<1>9. UnsettledIsExplained' BY <1>1, <1>5 DEF UnsettledIsExplained
<1> QED BY <1>7, <1>8, <1>9

LEMMA CrashStep == ASSUME IInv, Crash PROVE IInv'
<1> USE DEF IInv
<1>1. (\A j \in Jobs : cycle'[j] = Idle) /\ cycle' \in [Jobs -> CycleRecord]
  BY IdleFacts DEF Crash
<1>2. Turns' BY <1>1, IdleFacts DEF Turns
<1>3. Held(cycle') = {} BY <1>1, IdleFacts, HeldPairs
<1>4. /\ abandoned' \subseteq Jobs \X Tenants
      /\ abandoned \subseteq abandoned'
      /\ \A j \in Jobs : \A t \in cycle[j].at :
           cycle[j].pc = "running" => <<j, t>> \in abandoned'
  <2>1. \A j \in Jobs : cycle[j].at \subseteq Tenants BY DEF TypeOK, CycleRecord
  <2> QED BY <2>1 DEF Crash, TypeOK
<1>5. known' = known /\ session' = session /\ open' = {} BY DEF Crash
<1>6. TypeOK' BY <1>1, <1>3, <1>4, <1>5 DEF TypeOK, Held
<1>7. UnsettledIsExplained' BY <1>4, <1>5 DEF UnsettledIsExplained
<1> QED BY <1>2, <1>6, <1>7

LEMMA NextIInv == IInv /\ [Next]_vars => IInv'
<1> SUFFICES ASSUME IInv, [Next]_vars PROVE IInv' OBVIOUS
<1>1. CASE \E j \in Jobs : Fire(j) BY <1>1, FireStep
<1>2. CASE \E j \in Jobs : Work(j)
  BY <1>2, OpenStep, CreateStep, ReturnStep, RaiseStep, EndStep DEF Work
<1>3. CASE \E t \in Tenants : NewTenant(t)
  BY <1>3 DEF NewTenant, IInv, TypeOK, Turns, UnsettledIsExplained
<1>4. CASE Crash BY <1>4, CrashStep
<1>5. CASE UNCHANGED vars
  BY <1>5 DEF vars, IInv, TypeOK, Turns, UnsettledIsExplained
<1> QED BY <1>1, <1>2, <1>3, <1>4, <1>5 DEF Next

LEMMA InvariantHolds == Spec => []IInv
BY InitIInv, NextIInv, PTL DEF Spec

-----------------------------------------------------------------------------
\* Type correctness, and the connections: a job holds one to the tenant whose turn it is and
\* no other, whatever raised in the turns before (the finally of run_finops_analysis).
THEOREM TypeCorrect == Spec => []TypeOK
<1>1. IInv => TypeOK BY DEF IInv
<1> QED BY <1>1, InvariantHolds, PTL

\* A cycle that ended has dealt with every tenant it found when it fired: an exception at one
\* does not keep the loop of run_finops_analysis from the others.
THEOREM TenantsTried == Spec => []EveryTenantTried
<1>1. IInv => EveryTenantTried BY DEF IInv, Turns, TurnsOf, EveryTenantTried
<1> QED BY <1>1, InvariantHolds, PTL

\* A session of a job that is not settled is under way, or was left by an exception or a
\* crash.
THEOREM UnsettledExplained == Spec => []UnsettledIsExplained
<1>1. IInv => UnsettledIsExplained BY DEF IInv
<1> QED BY <1>1, InvariantHolds, PTL

-----------------------------------------------------------------------------
(***************************************************************************)
(* The half of CycleEnds that needs no fairness: a cycle has finitely many *)
(* tenants to go to, and whatever a step of it does, an exception          *)
(* included, brings its end nearer.                                        *)
(***************************************************************************)
\* Where the turn of a tenant is, counted from its end; the tenants left come first.
Place(pc) == CASE pc = "probing" -> 3 [] pc = "running" -> 2 [] pc = "next" -> 1 [] pc = "idle" -> 0

NearerEnd(c, d) ==
  \/ d.left \subseteq c.left /\ d.left # c.left
  \/ d.left = c.left /\ Place(d.pc) < Place(c.pc)

\* A step of the job brings the end of its cycle nearer; no other step touches the cycle,
\* unless it is a crash, which ends it.
CyclesNear ==
  \A j \in Jobs : cycle[j].pc # "idle" =>
    \/ NearerEnd(cycle[j], cycle'[j])
    \/ ~Work(j) /\ cycle'[j] \in {cycle[j], Idle}

FiniteCycles == \A j \in Jobs : IsFiniteSet(cycle[j].left)

\* What the steps of a turn do to its cycle.
LEMMA ProceedsNear ==
  ASSUME TypeOK, NEW j \in Jobs, NEW t \in Tenants, NEW end, Proceed(j, t, end),
         t \in cycle[j].left \/ cycle[j].pc \in {"probing", "running"}
  PROVE  NearerEnd(cycle[j], cycle'[j])
<1> DEFINE c == cycle[j]
<1>1. /\ cycle'[j].left = c.left \ {t} /\ cycle'[j].pc = "next"
  BY DEF TypeOK, CycleRecord, Proceed
<1>2. CASE t \in c.left BY <1>1, <1>2 DEF NearerEnd
<1>3. CASE t \notin c.left /\ c.pc \in {"probing", "running"}
  <2>1. cycle'[j].left = c.left BY <1>1, <1>3
  <2>2. Place("next") < Place(c.pc) BY <1>3 DEF Place
  <2> QED BY <1>1, <2>1, <2>2 DEF NearerEnd
<1> QED BY <1>2, <1>3

LEMMA WorkNear ==
  ASSUME TypeOK, NEW j \in Jobs, Work(j)
  PROVE  /\ NearerEnd(cycle[j], cycle'[j])
         /\ \A i \in Jobs : i # j => cycle'[i] = cycle[i]
<1> DEFINE c == cycle[j]
<1>1. cycle \in [Jobs -> CycleRecord] /\ c \in CycleRecord BY DEF TypeOK
<1>2. ASSUME NEW t \in Tenants, NEW end, Proceed(j, t, end),
             t \in c.left \/ c.pc \in {"probing", "running"}
      PROVE  NearerEnd(c, cycle'[j]) /\ \A i \in Jobs : i # j => cycle'[i] = cycle[i]
  <2>1. \A i \in Jobs : i # j => cycle'[i] = cycle[i] BY <1>1, <1>2 DEF Proceed
  <2> QED BY <1>2, <2>1, ProceedsNear
<1>3. ASSUME NEW t \in Tenants, t \in c.left,
             cycle' = [cycle EXCEPT ![j].pc = "probing", ![j].at = {t}, ![j].left = @ \ {t}]
      PROVE  NearerEnd(c, cycle'[j]) /\ \A i \in Jobs : i # j => cycle'[i] = cycle[i]
  <2>1. cycle'[j].left = c.left \ {t} BY <1>1, <1>3 DEF CycleRecord
  <2> QED BY <1>1, <1>3, <2>1 DEF NearerEnd
<1>4. ASSUME NEW pc, cycle' = [cycle EXCEPT ![j].pc = pc], Place(pc) < Place(c.pc)
      PROVE  NearerEnd(c, cycle'[j]) /\ \A i \in Jobs : i # j => cycle'[i] = cycle[i]
  BY <1>1, <1>4 DEF CycleRecord, NearerEnd
<1>5. Place("running") < Place("probing") /\ Place("idle") < Place("next") BY DEF Place
<1> QED
  BY <1>2, <1>3, <1>4, <1>5 DEF Work, OpenTenant, CreateSession, GraphReturns, GraphRaises, EndCycle

LEMMA NextNear == TypeOK /\ [Next]_vars => CyclesNear
<1> SUFFICES ASSUME TypeOK, [Next]_vars, NEW j \in Jobs, cycle[j].pc # "idle"
             PROVE  \/ NearerEnd(cycle[j], cycle'[j])
                    \/ ~Work(j) /\ cycle'[j] \in {cycle[j], Idle}
  BY DEF CyclesNear
<1>1. CASE Work(j) BY <1>1, WorkNear
<1>2. CASE ~Work(j)
  <2>1. ASSUME NEW i \in Jobs, Work(i) PROVE cycle'[j] = cycle[j] BY <1>2, <2>1, WorkNear
  <2>2. ASSUME NEW i \in Jobs, Fire(i) PROVE cycle'[j] = cycle[j] BY <2>2 DEF Fire, TypeOK
  <2>3. ASSUME (\E t \in Tenants : NewTenant(t)) \/ UNCHANGED vars PROVE cycle'[j] = cycle[j]
    BY <2>3 DEF NewTenant, vars
  <2>4. ASSUME Crash PROVE cycle'[j] = Idle BY <2>4 DEF Crash
  <2> QED BY <1>2, <2>1, <2>2, <2>3, <2>4 DEF Next
<1> QED BY <1>1, <1>2

\* A cycle is at its end after finitely many of its own steps, each of which brings the end
\* nearer, and no failure of a tenant sends it back.
THEOREM CyclesAreFinite == Spec => []FiniteCycles /\ [][CyclesNear]_vars
<1>1. TypeOK => FiniteCycles
  BY SchedulerAssumption, FS_Subset DEF TypeOK, CycleRecord, FiniteCycles
<1> QED BY <1>1, NextNear, TypeCorrect, PTL DEF Spec
=============================================================================
