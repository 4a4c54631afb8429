---------------------------- MODULE Environment ----------------------------
(***************************************************************************)
(* What an analysis is told about its surroundings, and for how long that  *)
(* is good: the environment profile with its process-global cache          *)
(* (discovery/probe.py) and the prompt caches at the model's provider that *)
(* are created from it (cache_manager.py).                                 *)
(*                                                                         *)
(* A run is one analysis: it asks for a profile, builds its graph (here    *)
(* every node gets the name of a prompt cache, or none) and calls models   *)
(* with these names until it ends.  Probing is awaited command by command, *)
(* so runs overlap there; building is synchronous.  The probe asks gcloud, *)
(* whose one configuration every command's login changes (see Executor).   *)
(*                                                                         *)
(* A prompt cache is named by what it is: for which node, with which       *)
(* context, and when the provider drops it.                                *)
(***************************************************************************)
EXTENDS Integers, FiniteSets

CONSTANTS
  Runs,               \* analyses that may be under way at a time
  Nodes,              \* the nodes of the graph that have a prompt
  Described,          \* those whose prompt holds the profile (not the security review)
  Identities,         \* the accounts gcloud may be logged in as
  Host,               \* the one of the machine itself
  Probes,             \* number of commands of a probe (5 in the code)
  CACHE_TTL_SECONDS,  \* of a profile
  ttl,                \* of a prompt cache, at the provider
  Buffer,             \* "5-minute buffer" before its expiration
  Latency,            \* how long the provider may take to create one
  MaxTime             \* bound: the clock

Unknown == "unknown"  \* what a probe command tells when it fails

ASSUME EnvironmentAssumption ==
  /\ Described \subseteq Nodes /\ IsFiniteSet(Nodes)
  /\ Host \in Identities /\ Unknown \notin Identities
  /\ Probes \in Nat \ {0}
  /\ CACHE_TTL_SECONDS \in Nat /\ ttl \in Nat /\ Buffer \in 0 .. ttl /\ Latency \in Nat
  /\ MaxTime \in Nat

VARIABLES
  now,      \* time.monotonic() and time.time()
  identity, \* the active account of gcloud
  cached,   \* _cached_profile
  stamp,    \* _cache_timestamp
  active,   \* CacheManager._active_caches
  run       \* run[r]: one analysis

vars == <<now, identity, cached, stamp, active, run>>

-----------------------------------------------------------------------------
Time  == Nat
Facts == [1 .. Probes -> Identities \cup {Unknown}]

\* A profile tells of whom every command told; began is history: when its probe began.
Profile   == [facts : Facts, began : Time]
NoProfile == [facts |-> [i \in 1 .. Probes |-> Unknown], began |-> 0]

\* to_prompt_context: the facts, but not when they were found.  A prompt has at most one
\* context, a node at most one name.
Context(profile) == {profile.facts}
Contexts         == SUBSET Facts

CacheName == [node : Nodes, context : Contexts, expires : Int]

\* since is the time the profile was asked for, asked the time the graph was built; step is
\* the number of the next probe command.
RunRecord ==
  [ pc : {"idle", "probing", "building", "thinking"}, since : Time, step : 1 .. (Probes + 1),
    profile : Profile, asked : Time, name : [Nodes -> SUBSET CacheName] ]

Idle == [pc |-> "idle", since |-> 0, step |-> 1, profile |-> NoProfile, asked |-> 0,
         name |-> [n \in Nodes |-> {}]]

Init ==
  /\ now = 0 /\ identity = Host
  /\ cached = {} /\ stamp = 0
  /\ active = {}
  /\ run = [r \in Runs |-> Idle]

-----------------------------------------------------------------------------
(***************************************************************************)
(* get_environment_profile.                                                *)
(***************************************************************************)
\* cached is a set of at most one profile; the clock is read before anything is awaited.
AskProfile(r) ==
  /\ run[r].pc = "idle"
  /\ \/ \E p \in cached :
          /\ now - stamp < CACHE_TTL_SECONDS
          /\ run' = [run EXCEPT ![r].pc = "building", ![r].since = now, ![r].profile = p]
     \/ /\ cached = {} \/ now - stamp >= CACHE_TTL_SECONDS
        /\ run' = [run EXCEPT ![r].pc = "probing", ![r].since = now,
                              ![r].profile.began = now]
  /\ UNCHANGED <<now, identity, cached, stamp, active>>

\* _run_probe_command: a fact about whom gcloud is at that moment, or an error.
ProbeCommand(r) ==
  /\ run[r].pc = "probing" /\ run[r].step <= Probes
  /\ \E fact \in {identity, Unknown} :
       run' = [run EXCEPT ![r].profile.facts[run[r].step] = fact, ![r].step = @ + 1]
  /\ UNCHANGED <<now, identity, cached, stamp, active>>

\* Mutant: the time is taken after the probe.
KeepAtTheEnd(r) ==
  /\ run[r].pc = "probing" /\ run[r].step = Probes + 1
  /\ cached' = {run[r].profile} /\ stamp' = now
  /\ run' = [run EXCEPT ![r].pc = "building", ![r].step = 1]
  /\ UNCHANGED <<now, identity, active>>

\* The profile and the time its probe began replace what is cached, also a newer one.
KeepProfile(r) ==
  /\ run[r].pc = "probing" /\ run[r].step = Probes + 1
  /\ cached' = {run[r].profile} /\ stamp' = run[r].since
  /\ run' = [run EXCEPT ![r].pc = "building", ![r].step = 1]
  /\ UNCHANGED <<now, identity, active>>

\* An answer that is not the list the code expects raises; the analysis is answered 500.
ProbeRaises(r) ==
  /\ run[r].pc = "probing" /\ run[r].step <= Probes
  /\ run' = [run EXCEPT ![r] = Idle]
  /\ UNCHANGED <<now, identity, cached, stamp, active>>

-----------------------------------------------------------------------------
(***************************************************************************)
(* build_agent_graph: get_or_create_cache for every node.                  *)
(***************************************************************************)
\* Mutant: the key leaves the context out.
KeyOfNode(n, profile) == [node |-> n, context |-> {}]

\* _compute_cache_key: the hash of model, prompt and context.
Key(n, profile) ==
  [node |-> n, context |-> IF n \in Described THEN Context(profile) ELSE {}]

Entry == [key : [node : Nodes, context : Contexts], name : CacheName, expiry : Int]

\* Mutant: the expired entry is left in the table.
KeyedAndGood(key) == {e \in active : e.key = key /\ now < e.expiry}

Keyed(key) == {e \in active : e.key = key}

\* What a cache is created from, whatever it is remembered under.
Made(n, profile) ==
  [node |-> n, context |-> IF n \in Described THEN Context(profile) ELSE {},
   expires |-> now + ttl]

\* Mutant: without the buffer.
NoBuffer(took) == now + took + ttl

\* The clock is read again after the provider answered.
Expiry(took) == now + took + ttl - Buffer

\* An entry is used until its expiry; after that it is removed and the cache is created
\* again, which may fail (too small, or any error): the node then runs without one.
\* "took" is the time the provider needs, taken once for all the caches of a graph.
BuildGraph(r) ==
  LET profile == run[r].profile
      found   == [n \in Nodes |-> {e \in Keyed(Key(n, profile)) : now < e.expiry}]
      missing == {n \in Nodes : found[n] = {}}
  IN
  /\ run[r].pc = "building"
  /\ \E created \in SUBSET missing, took \in 0 .. Latency :
       /\ now + took <= MaxTime
       /\ active' =
            (active \ UNION {Keyed(Key(n, profile)) : n \in missing})
              \cup {[key |-> Key(n, profile), name |-> Made(n, profile),
                     expiry |-> Expiry(took)] : n \in created}
       /\ run' = [run EXCEPT ![r].pc = "thinking", ![r].asked = now,
                             ![r].name = [n \in Nodes |->
                               IF n \in created THEN {Made(n, profile)}
                               ELSE {e.name : e \in found[n]}]]
       /\ now' = now + took
  /\ UNCHANGED <<identity, cached, stamp>>

\* The run calls its models, with the same names, for as long as it lasts.
EndRun(r) ==
  /\ run[r].pc = "thinking"
  /\ run' = [run EXCEPT ![r] = Idle]
  /\ UNCHANGED <<now, identity, cached, stamp, active>>

-----------------------------------------------------------------------------
\* A command's login prefix (credential_resolver) changes the account of gcloud.
LogIn(i) == identity' = i /\ UNCHANGED <<now, cached, stamp, active, run>>

Tick == now < MaxTime /\ now' = now + 1 /\ UNCHANGED <<identity, cached, stamp, active, run>>

\* Both caches are in memory only.
Restart ==
  /\ cached' = {} /\ stamp' = 0 /\ active' = {}
  /\ run' = [r \in Runs |-> Idle]
  /\ UNCHANGED <<now, identity>>

Step(r) == ProbeCommand(r) \/ KeepProfile(r) \/ ProbeRaises(r)

Next ==
  \/ \E r \in Runs : AskProfile(r) \/ Step(r) \/ BuildGraph(r) \/ EndRun(r)
  \/ \E i \in Identities : LogIn(i)
  \/ Tick \/ Restart

Spec == Init /\ [][Next]_vars

-----------------------------------------------------------------------------
\* Type invariant: at most one profile is cached, and one prompt cache under a key.
TypeOK ==
  /\ now \in Time /\ identity \in Identities /\ stamp \in Time
  /\ cached \in SUBSET Profile /\ \A p, q \in cached : p = q
  /\ active \in SUBSET Entry /\ \A e, f \in active : e.key = f.key => e = f
  /\ run \in [Runs -> RunRecord]

Served(r) == run[r].pc \in {"building", "thinking"}

\* Nobody is given a profile whose probe began CACHE_TTL_SECONDS or more before it was asked
\* for, although probes overlap and the older of two may be stored last.
ServedFresh ==
  \A r \in Runs : Served(r) =>
    \/ run[r].profile.began = run[r].since
    \/ run[r].since - run[r].profile.began < CACHE_TTL_SECONDS

\* The names a run uses were made from the profile it was given, by whatever run they were
\* made: no node reasons about another environment than its run was told of.
OwnContext ==
  \A r \in Runs : run[r].pc = "thinking" =>
    \A n \in Described : \A name \in run[r].name[n] :
      name.node = n /\ name.context = Context(run[r].profile)

\* A name that is handed out stays good at the provider for the buffer, less what the
\* provider needed to create it; a run that lasts longer may lose its caches.
GoodForTheBuffer ==
  \A r \in Runs : run[r].pc = "thinking" /\ now < run[r].asked + Buffer - Latency =>
    \A n \in Nodes : \A name \in run[r].name[n] : now < name.expires
=============================================================================
