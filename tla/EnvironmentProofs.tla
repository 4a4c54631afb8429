------------------------- MODULE EnvironmentProofs -------------------------
(***************************************************************************)
(* Proofs about Environment, for every number of runs, nodes, accounts and *)
(* probe commands and every duration: profiles are served while they are   *)
(* fresh although probes overlap, and prompt caches only to runs that were *)
(* told what the cache holds, and only while they stay good for a while.   *)
(***************************************************************************)
EXTENDS Environment, TLAPS

\* The time that is kept is the time the probe of the cached profile began.
Stamped == \A p \in cached : p.began = stamp

\* So is the time an analysis that probes asked.
ProbesBegan == \A r \in Runs : run[r].pc = "probing" => run[r].profile.began = run[r].since

\* An entry holds what its key says, and expires early enough.
EntriesMatch ==
  \A e \in active : /\ e.name.node = e.key.node /\ e.name.context = e.key.context
                    /\ e.expiry + Buffer <= e.name.expires + Latency

\* What GoodForTheBuffer says, without the clock.
NamesLast ==
  \A r \in Runs : run[r].pc = "thinking" =>
    \A n \in Nodes : \A name \in run[r].name[n] :
      run[r].asked + Buffer <= name.expires + Latency

IInv == TypeOK /\ Stamped /\ ProbesBegan /\ EntriesMatch /\ ServedFresh /\ OwnContext /\ NamesLast

-----------------------------------------------------------------------------
LEMMA NoProfileType == NoProfile \in Profile
BY EnvironmentAssumption DEF NoProfile, Profile, Facts, Time

LEMMA IdleType == Idle \in RunRecord
BY NoProfileType, EnvironmentAssumption DEF Idle, RunRecord, Time

\* The parts of IInv about runs, for one of them.
GoodRun(rr) ==
  /\ rr \in RunRecord
  /\ rr.pc = "probing" => rr.profile.began = rr.since
  /\ rr.pc \in {"building", "thinking"} =>
       rr.profile.began = rr.since \/ rr.since - rr.profile.began < CACHE_TTL_SECONDS
  /\ rr.pc = "thinking" =>
       /\ \A n \in Described : \A name \in rr.name[n] :
            name.node = n /\ name.context = Context(rr.profile)
       /\ \A n \in Nodes : \A name \in rr.name[n] : rr.asked + Buffer <= name.expires + Latency

\* The parts about the two caches.
GoodCaches ==
  /\ now \in Time /\ identity \in Identities /\ stamp \in Time
  /\ cached \in SUBSET Profile /\ \A p, q \in cached : p = q
  /\ active \in SUBSET Entry /\ \A e, f \in active : e.key = f.key => e = f
  /\ Stamped /\ EntriesMatch

LEMMA PartsOfIInv ==
  IInv <=> GoodCaches /\ run \in [Runs -> RunRecord] /\ \A r \in Runs : GoodRun(run[r])
BY DEF IInv, GoodCaches, GoodRun, TypeOK, Stamped, ProbesBegan, EntriesMatch, ServedFresh,
       Served, OwnContext, NamesLast

LEMMA PartsPrimed ==
  ASSUME GoodCaches', run' \in [Runs -> RunRecord], \A r \in Runs : GoodRun(run'[r])
  PROVE  IInv'
BY DEF IInv, GoodCaches, GoodRun, TypeOK, Stamped, ProbesBegan, EntriesMatch, ServedFresh,
       Served, OwnContext, NamesLast

LEMMA IdleIsGood == GoodRun(Idle)
BY IdleType DEF GoodRun, Idle

\* A step that changes the record of one run to a good one, and no cache, keeps IInv.
LEMMA OneRunChanges ==
  ASSUME GoodCaches', run \in [Runs -> RunRecord], \A s \in Runs : GoodRun(run[s]),
         NEW r \in Runs, NEW rr, GoodRun(rr), run' = [run EXCEPT ![r] = rr]
  PROVE  IInv'
<1>1. run' \in [Runs -> RunRecord] BY DEF GoodRun
<1>2. \A s \in Runs : GoodRun(run'[s]) OBVIOUS
<1> QED BY <1>1, <1>2, PartsPrimed

LEMMA InitIInv == Init => IInv
<1> SUFFICES ASSUME Init PROVE IInv OBVIOUS
<1>1. GoodCaches
  BY EnvironmentAssumption DEF Init, GoodCaches, Time, Stamped, EntriesMatch
<1>2. run \in [Runs -> RunRecord] /\ \A r \in Runs : GoodRun(run[r])
  BY IdleIsGood, IdleType DEF Init
<1> QED BY <1>1, <1>2, PartsOfIInv

-----------------------------------------------------------------------------
LEMMA AskKeeps ==
  ASSUME IInv, NEW r \in Runs, AskProfile(r) PROVE IInv'
<1>1. GoodCaches /\ run \in [Runs -> RunRecord] /\ \A s \in Runs : GoodRun(run[s])
  BY PartsOfIInv
<1>2. GoodCaches' BY <1>1 DEF GoodCaches, AskProfile, Stamped, EntriesMatch
<1>3. CASE \E p \in cached :
             /\ now - stamp < CACHE_TTL_SECONDS
             /\ run' = [run EXCEPT ![r].pc = "building", ![r].since = now, ![r].profile = p]
  <2>1. PICK p \in cached :
          /\ now - stamp < CACHE_TTL_SECONDS
          /\ run' = [run EXCEPT ![r].pc = "building", ![r].since = now, ![r].profile = p]
    BY <1>3
  <2> DEFINE rr == [run[r] EXCEPT !.pc = "building", !.since = now, !.profile = p]
  <2>2. run' = [run EXCEPT ![r] = rr] BY <1>1, <2>1 DEF RunRecord
  <2>3. rr \in RunRecord BY <1>1 DEF GoodCaches, RunRecord
  <2>4. p.began = stamp BY <1>1 DEF GoodCaches, Stamped
  <2>5. rr.pc = "building" /\ rr.since = now /\ rr.profile = p BY <1>1 DEF RunRecord
  <2>6. GoodRun(rr) BY <2>1, <2>3, <2>4, <2>5 DEF GoodRun
  <2> HIDE DEF rr
  <2> QED BY <1>1, <1>2, <2>2, <2>6, OneRunChanges
<1>4. CASE run' = [run EXCEPT ![r].pc = "probing", ![r].since = now, ![r].profile.began = now]
  <2> DEFINE pp == [run[r].profile EXCEPT !.began = now]
             rr == [run[r] EXCEPT !.pc = "probing", !.since = now, !.profile = pp]
  <2>1. run' = [run EXCEPT ![r] = rr] BY <1>1, <1>4 DEF RunRecord, Profile
  <2>2. pp \in Profile /\ pp.began = now BY <1>1 DEF GoodCaches, RunRecord, Profile
  <2>3. run[r] \in RunRecord /\ now \in Time BY <1>1 DEF GoodCaches
  <2> HIDE DEF pp
  <2>4. rr \in RunRecord /\ rr.pc = "probing" /\ rr.since = now /\ rr.profile = pp
    BY <2>2, <2>3 DEF RunRecord
  <2>5. GoodRun(rr) BY <2>2, <2>4 DEF GoodRun
  <2> HIDE DEF rr
  <2> QED BY <1>1, <1>2, <2>1, <2>5, OneRunChanges
<1> QED BY <1>3, <1>4 DEF AskProfile

LEMMA ProbeKeeps ==
  ASSUME IInv, NEW r \in Runs, ProbeCommand(r) PROVE IInv'
<1>1. GoodCaches /\ run \in [Runs -> RunRecord] /\ \A s \in Runs : GoodRun(run[s])
  BY PartsOfIInv
<1>2. GoodCaches' BY <1>1 DEF GoodCaches, ProbeCommand, Stamped, EntriesMatch
<1>3. PICK fact \in {identity, Unknown} :
        run' = [run EXCEPT ![r].profile.facts[run[r].step] = fact, ![r].step = @ + 1]
  BY DEF ProbeCommand
<1> DEFINE k  == run[r].step
           ff == [run[r].profile.facts EXCEPT ![k] = fact]
           pp == [run[r].profile EXCEPT !.facts = ff]
           rr == [run[r] EXCEPT !.profile = pp, !.step = k + 1]
<1>4. run' = [run EXCEPT ![r] = rr] BY <1>1, <1>3 DEF RunRecord, Profile
<1>5. k \in 1 .. Probes
  BY <1>1, EnvironmentAssumption DEF RunRecord, ProbeCommand
<1>6. fact \in Identities \cup {Unknown} BY <1>1, <1>3 DEF GoodCaches
<1>7. run[r] \in RunRecord BY <1>1
<1>8. run[r].profile \in Profile BY <1>7 DEF RunRecord
<1>9. run[r].profile.facts \in Facts BY <1>8 DEF Profile
<1>10. ff \in Facts BY <1>9, <1>6 DEF Facts
<1>11. pp \in Profile /\ pp.began = run[r].profile.began BY <1>8, <1>10 DEF Profile
<1>12. k + 1 \in 1 .. (Probes + 1) BY <1>5, EnvironmentAssumption
<1>13. rr \in RunRecord /\ rr.pc = run[r].pc /\ rr.since = run[r].since /\ rr.profile = pp
  BY <1>7, <1>11, <1>12 DEF RunRecord
<1>14. GoodRun(rr)
  BY <1>1, <1>13, <1>11 DEF GoodRun, ProbeCommand
<1> HIDE DEF rr
<1> QED BY <1>1, <1>2, <1>4, <1>14, OneRunChanges

LEMMA KeepKeeps ==
  ASSUME IInv, NEW r \in Runs, KeepProfile(r) PROVE IInv'
<1>1. GoodCaches /\ run \in [Runs -> RunRecord] /\ \A s \in Runs : GoodRun(run[s])
  BY PartsOfIInv
<1>2. run[r].profile \in Profile /\ run[r].since \in Time /\ run[r].pc = "probing"
  BY <1>1 DEF RunRecord, KeepProfile
<1>3. run[r].profile.began = run[r].since BY <1>1, <1>2 DEF GoodRun
<1>4. GoodCaches'
  BY <1>1, <1>2, <1>3 DEF GoodCaches, KeepProfile, Stamped, EntriesMatch
<1> DEFINE rr == [run[r] EXCEPT !.pc = "building", !.step = 1]
<1>5. run' = [run EXCEPT ![r] = rr] BY <1>1 DEF KeepProfile, RunRecord
<1>6. run[r] \in RunRecord /\ 1 \in 1 .. (Probes + 1) BY <1>1, EnvironmentAssumption
<1>7. rr \in RunRecord /\ rr.pc = "building" /\ rr.since = run[r].since
        /\ rr.profile = run[r].profile
  BY <1>6 DEF RunRecord
<1>8. GoodRun(rr) BY <1>3, <1>7 DEF GoodRun
<1> HIDE DEF rr
<1> QED BY <1>1, <1>4, <1>5, <1>8, OneRunChanges

\* ProbeRaises and EndRun.
LEMMA DropKeeps ==
  ASSUME IInv, NEW r \in Runs, run' = [run EXCEPT ![r] = Idle],
         UNCHANGED <<now, identity, cached, stamp, active>>
  PROVE  IInv'
<1>1. GoodCaches /\ run \in [Runs -> RunRecord] /\ \A s \in Runs : GoodRun(run[s])
  BY PartsOfIInv
<1>2. GoodCaches' BY <1>1 DEF GoodCaches, Stamped, EntriesMatch
<1> QED BY <1>1, <1>2, IdleIsGood, OneRunChanges

-----------------------------------------------------------------------------
LEMMA ContextType ==
  ASSUME NEW profile \in Profile PROVE Context(profile) \in Contexts
BY DEF Context, Contexts, Profile

\* What is remembered under a key is what the key says.
LEMMA KeyMatches ==
  ASSUME NEW n \in Nodes, NEW profile \in Profile, now \in Nat
  PROVE  /\ Key(n, profile) \in [node : Nodes, context : Contexts]
         /\ Made(n, profile) \in CacheName
         /\ Made(n, profile).node = n /\ Key(n, profile).node = n
         /\ Made(n, profile).context = Key(n, profile).context
         /\ Made(n, profile).expires = now + ttl
         /\ n \in Described => Key(n, profile).context = Context(profile)
<1>1. Context(profile) \in Contexts /\ {} \in Contexts BY ContextType DEF Contexts
<1>2. now + ttl \in Int BY EnvironmentAssumption
<1> QED BY <1>1, <1>2 DEF Key, Made, CacheName

LEMMA BuildKeeps ==
  ASSUME IInv, NEW r \in Runs, BuildGraph(r) PROVE IInv'
<1>1. GoodCaches /\ run \in [Runs -> RunRecord] /\ \A s \in Runs : GoodRun(run[s])
  BY PartsOfIInv
<1> DEFINE profile == run[r].profile
           found   == [n \in Nodes |-> {e \in Keyed(Key(n, profile)) : now < e.expiry}]
           missing == {n \in Nodes : found[n] = {}}
<1>2. run[r].pc = "building" /\ UNCHANGED <<identity, cached, stamp>> BY DEF BuildGraph
<1>3. PICK created \in SUBSET missing, took \in 0 .. Latency :
        /\ active' =
             (active \ UNION {Keyed(Key(n, profile)) : n \in missing})
               \cup {[key |-> Key(n, profile), name |-> Made(n, profile),
                      expiry |-> Expiry(took)] : n \in created}
        /\ run' = [run EXCEPT ![r].pc = "thinking", ![r].asked = now,
                              ![r].name = [n \in Nodes |->
                                IF n \in created THEN {Made(n, profile)}
                                ELSE {e.name : e \in found[n]}]]
        /\ now' = now + took
  BY DEF BuildGraph
<1>4. profile \in Profile /\ run[r] \in RunRecord BY <1>1 DEF RunRecord
<1>5. now \in Nat /\ took \in Nat /\ took <= Latency /\ Latency \in Nat /\ ttl \in Nat
        /\ Buffer \in Nat /\ Buffer <= ttl
  BY <1>1, EnvironmentAssumption DEF GoodCaches, Time
<1>6. Expiry(took) = now + took + ttl - Buffer BY DEF Expiry
<1> HIDE DEF profile
<1>7. \A n \in Nodes :
        /\ Key(n, profile) \in [node : Nodes, context : Contexts]
        /\ Made(n, profile) \in CacheName
        /\ Made(n, profile).node = n /\ Key(n, profile).node = n
        /\ Made(n, profile).context = Key(n, profile).context
        /\ Made(n, profile).expires = now + ttl
        /\ n \in Described => Key(n, profile).context = Context(profile)
  BY <1>4, <1>5, KeyMatches
<1> DEFINE New(n) == [key |-> Key(n, profile), name |-> Made(n, profile),
                      expiry |-> Expiry(took)]
<1>8. created \subseteq Nodes /\ \A n \in created : n \in missing OBVIOUS
<1>9. Expiry(took) \in Int /\ Expiry(took) + Buffer <= now + ttl + Latency
  BY <1>5, <1>6
<1>10. \A n \in created : New(n) \in Entry BY <1>7, <1>8, <1>9 DEF Entry
<1>11. active' \subseteq active \cup {New(n) : n \in created} BY <1>3
<1>12. GoodCaches'
  <2>1. active' \in SUBSET Entry BY <1>1, <1>10, <1>11 DEF GoodCaches
  <2>2. ASSUME NEW e \in active', NEW f \in active', e.key = f.key PROVE e = f
    <3>1. CASE e \in active /\ f \in active BY <1>1, <2>2, <3>1 DEF GoodCaches
    <3>2. CASE \E n \in created : e = New(n)
      <4>1. PICK n \in created : e = New(n) BY <3>2
      <4>2. e.key = Key(n, profile) BY <4>1
      <4>3. f \notin Keyed(Key(n, profile)) \/ \E m \in created : f = New(m)
        BY <1>3, <1>8
      <4>4. f \notin active \/ f \in Keyed(Key(n, profile)) BY <2>2, <4>2 DEF Keyed
      <4>5. PICK m \in created : f = New(m) BY <1>11, <4>3, <4>4
      <4>6. Key(m, profile) = Key(n, profile) BY <2>2, <4>2, <4>5
      <4>7. m = n BY <1>7, <1>8, <4>6
      <4> QED BY <4>1, <4>5, <4>7
    <3>3. CASE \E n \in created : f = New(n)
      <4>1. PICK n \in created : f = New(n) BY <3>3
      <4>2. f.key = Key(n, profile) BY <4>1
      <4>3. e \notin Keyed(Key(n, profile)) \/ \E m \in created : e = New(m)
        BY <1>3, <1>8
      <4>4. e \notin active \/ e \in Keyed(Key(n, profile)) BY <2>2, <4>2 DEF Keyed
      <4>5. PICK m \in created : e = New(m) BY <1>11, <4>3, <4>4
      <4>6. Key(m, profile) = Key(n, profile) BY <2>2, <4>2, <4>5
      <4>7. m = n BY <1>7, <1>8, <4>6
      <4> QED BY <4>1, <4>5, <4>7
    <3> QED BY <1>11, <3>1, <3>2, <3>3
  <2>3. ASSUME NEW e \in active'
        PROVE  /\ e.name.node = e.key.node /\ e.name.context = e.key.context
               /\ e.expiry + Buffer <= e.name.expires + Latency
    <3>1. CASE e \in active BY <1>1, <3>1 DEF GoodCaches, EntriesMatch
    <3>2. CASE \E n \in created : e = New(n)
      <4>1. PICK n \in created : e = New(n) BY <3>2
      <4>2. e.name = Made(n, profile) /\ e.key = Key(n, profile) /\ e.expiry = Expiry(took)
        BY <4>1
      <4> QED BY <1>7, <1>8, <1>9, <4>2
    <3> QED BY <1>11, <3>1, <3>2
  <2>4. now' \in Time BY <1>3, <1>5 DEF Time
  <2> QED BY <1>1, <1>2, <2>1, <2>2, <2>3, <2>4 DEF GoodCaches, Stamped, EntriesMatch
<1> DEFINE nn == [n \in Nodes |-> IF n \in created THEN {Made(n, profile)}
                                  ELSE {e.name : e \in found[n]}]
           rr == [run[r] EXCEPT !.pc = "thinking", !.asked = now, !.name = nn]
<1>13. run' = [run EXCEPT ![r] = rr] BY <1>1, <1>3 DEF RunRecord
<1>14. \A n \in Nodes : \A e \in found[n] :
         e \in active /\ e.key = Key(n, profile) /\ now < e.expiry
  BY DEF Keyed
<1>15. \A e \in active : e \in Entry /\ e.name \in CacheName BY <1>1 DEF GoodCaches, Entry
<1> HIDE DEF found
<1>16. \A n \in Nodes : \A name \in nn[n] :
         /\ name \in CacheName
         /\ name.node = n /\ (n \in Described => name.context = Context(profile))
         /\ now + Buffer <= name.expires + Latency
  <2> SUFFICES ASSUME NEW n \in Nodes, NEW name \in nn[n]
               PROVE  /\ name \in CacheName
                      /\ name.node = n /\ (n \in Described => name.context = Context(profile))
                      /\ now + Buffer <= name.expires + Latency
    OBVIOUS
  <2>1. CASE n \in created
    <3>1. name = Made(n, profile) BY <2>1
    <3> QED BY <1>5, <1>7, <3>1
  <2>2. CASE n \notin created
    <3>1. PICK e \in found[n] : name = e.name BY <2>2
    <3>2. e \in active /\ e.key = Key(n, profile) /\ now < e.expiry BY <1>14
    <3>3. /\ e.name.node = e.key.node /\ e.name.context = e.key.context
          /\ e.expiry + Buffer <= e.name.expires + Latency
      BY <1>1, <3>2 DEF GoodCaches, EntriesMatch
    <3>4. e.expiry \in Int /\ name.expires \in Int /\ name \in CacheName
      BY <1>15, <3>1, <3>2 DEF Entry, CacheName
    <3> QED BY <1>5, <1>7, <3>1, <3>2, <3>3, <3>4
  <2> QED BY <2>1, <2>2
<1>17. nn \in [Nodes -> SUBSET CacheName] BY <1>16
<1> HIDE DEF nn
<1>18. rr \in RunRecord /\ rr.pc = "thinking" /\ rr.asked = now /\ rr.name = nn
         /\ rr.profile = profile /\ rr.since = run[r].since
  BY <1>4, <1>5, <1>17 DEF RunRecord, Time, profile
<1>19. profile.began = run[r].since \/ run[r].since - profile.began < CACHE_TTL_SECONDS
  BY <1>1, <1>2 DEF GoodRun, profile
<1>20. GoodRun(rr) BY <1>16, <1>18, <1>19, EnvironmentAssumption DEF GoodRun
<1> HIDE DEF rr
<1> QED BY <1>1, <1>12, <1>13, <1>20, OneRunChanges

-----------------------------------------------------------------------------
LEMMA NextIInv == IInv /\ [Next]_vars => IInv'
<1> SUFFICES ASSUME IInv, [Next]_vars PROVE IInv' OBVIOUS
<1>0. GoodCaches /\ run \in [Runs -> RunRecord] /\ \A s \in Runs : GoodRun(run[s])
  BY PartsOfIInv
<1>1. ASSUME NEW r \in Runs, AskProfile(r) PROVE IInv' BY <1>1, AskKeeps
<1>2. ASSUME NEW r \in Runs, Step(r) PROVE IInv'
  BY <1>2, ProbeKeeps, KeepKeeps, DropKeeps DEF Step, ProbeRaises
<1>3. ASSUME NEW r \in Runs, BuildGraph(r) PROVE IInv' BY <1>3, BuildKeeps
<1>4. ASSUME NEW r \in Runs, EndRun(r) PROVE IInv' BY <1>4, DropKeeps DEF EndRun
<1>5. ASSUME NEW i \in Identities, LogIn(i) PROVE IInv'
  <2>1. GoodCaches' BY <1>0, <1>5 DEF GoodCaches, LogIn, Stamped, EntriesMatch
  <2> QED BY <1>0, <1>5, <2>1, PartsPrimed DEF LogIn
<1>6. CASE Tick
  <2>1. GoodCaches' BY <1>0, <1>6 DEF GoodCaches, Tick, Time, Stamped, EntriesMatch
  <2> QED BY <1>0, <1>6, <2>1, PartsPrimed DEF Tick
<1>7. CASE Restart
  <2>1. GoodCaches' BY <1>0, <1>7 DEF GoodCaches, Restart, Time, Stamped, EntriesMatch
  <2>2. run' = [r \in Runs |-> Idle] BY <1>7 DEF Restart
  <2>3. run' \in [Runs -> RunRecord] /\ \A r \in Runs : GoodRun(run'[r])
    BY <2>2, IdleIsGood, IdleType
  <2> QED BY <2>1, <2>3, PartsPrimed
<1>8. CASE UNCHANGED vars
  BY <1>8 DEF vars, IInv, TypeOK, Stamped, ProbesBegan, EntriesMatch, ServedFresh, Served,
              OwnContext, NamesLast
<1> QED BY <1>1, <1>2, <1>3, <1>4, <1>5, <1>6, <1>7, <1>8 DEF Next

\* Every analysis, both caches and the clock are always what TypeOK says: there is one cached
\* profile at most, and one prompt cache for a node, prompt and context.
THEOREM TypeCorrect == Spec => []TypeOK
<1>1. IInv => TypeOK BY DEF IInv
<1> QED BY InitIInv, NextIInv, <1>1, PTL DEF Spec

\* get_environment_profile never hands out a profile that was older than its time to live
\* when it was asked for, however many probes overlap and in whatever order they end.
THEOREM FreshProfiles == Spec => []ServedFresh
<1>1. IInv => ServedFresh BY DEF IInv
<1> QED BY InitIInv, NextIInv, <1>1, PTL DEF Spec

\* A prompt cache is used only in runs that were given the profile it was made from.
THEOREM SharedCachesMatch == Spec => []OwnContext
<1>1. IInv => OwnContext BY DEF IInv
<1> QED BY InitIInv, NextIInv, <1>1, PTL DEF Spec

\* For the buffer, less the time it took to create them, a run's prompt caches stay good.
THEOREM CachesLast == Spec => []GoodForTheBuffer
<1>1. IInv => GoodForTheBuffer
  <2> SUFFICES ASSUME IInv, NEW r \in Runs, run[r].pc = "thinking",
                      now < run[r].asked + Buffer - Latency,
                      NEW n \in Nodes, NEW name \in run[r].name[n]
               PROVE  now < name.expires
    BY DEF GoodForTheBuffer
  <2>1. run[r].asked + Buffer <= name.expires + Latency BY DEF IInv, NamesLast
  <2>2. run[r] \in RunRecord /\ now \in Nat BY DEF IInv, TypeOK, Time
  <2>3. run[r].asked \in Nat /\ run[r].name[n] \subseteq CacheName
    BY <2>2 DEF RunRecord, Time
  <2>4. name.expires \in Int BY <2>3 DEF CacheName
  <2> QED BY <2>1, <2>2, <2>3, <2>4, EnvironmentAssumption
<1> QED BY InitIInv, NextIInv, <1>1, PTL DEF Spec
=============================================================================
