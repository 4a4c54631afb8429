# Formal verification of VCE-HQ

VCE-HQ is a multi-tenant advisor for infrastructure: a FastAPI server that gives a user's
question (or an alert) to a LangGraph of language-model agents, lets these agents run shell
commands under a validator and a security gate, pauses for a human where the gate asks for
one, and reviews every answer before it is returned. This directory holds TLA+ modules that
model the parts of `src/src/vce_hq/` where order, interleaving, failure and bounds matter,
the TLC configurations that check them on small instances, and TLAPS proofs of the main
safety properties for all instances. Paths below are relative to `src/src/vce_hq/`.

To check: `tlc -workers 2 -config <run>.cfg <module>.tla` for the runs listed below, and
`tlapm <module>.tla` for the modules whose names end in `Proofs`.

## 1. Inventory

### 1.1 Components

| Component | State it keeps | Operations | What makes it correct |
|---|---|---|---|
| **Orchestration graph** (`agents/graph.py`, `state.py`, `intent_analyzer.py`, `router.py`, `os_/cloud_/finops_*.py`, `security_review.py`) | one checkpoint per session (next node, agent state), in SQLite | nodes intent_analyzer, router, three agents with a ReAct loop, human_approval, security_review; routing functions; interrupt before human_approval | loops end; limits hold across pauses; a run ends reviewed or with an error; data of one turn enters the next only by a command it left waiting; a paused thread has a question; an approved command runs once, unless its agent is cut off |
| **Analysis API** (`api/routes/analyze.py`, `db/short_term.py`) | sessions, turns, command log, token usage | POST analyze, POST approve; GETs | the status says what the thread is; every request is answered |
| **Validator** (`execution/validator.py`) | none | `validate_command` | modes only add; the risk only tags; no route around the lists |
| **Executor and gate** (`execution/executor.py`, `security_gate.py`) | processes under way | `execute`, `review_command` | nothing runs that was not validated and let pass; exit codes are what callers take them for; records tell the truth; it always returns |
| **Credential resolution** (`vault/credential_resolver.py`) | temporary key files, the server's gcloud configuration | `resolve_credentials` around a call | key files live as long as the call, failures of their own apart; commands run under their own account |
| **Vault** (`vault/manager.py`, `api/routes/credentials.py`) | credentials table | store, rotate, delete, verify, list | what agents use is what is stored last |
| **Inventory sweeps** (`vault/inventory.py`) | background tasks | capture: purge, run, embed, store | the stored inventory is that of one sweep of an existing credential |
| **Knowledge store** (`ingestion/`, `db/long_term.py`, `api/routes/knowledge.py`, `agents/rag.py`) | chunks and vectors, two tables | ingest, delete, store, search | re-ingestion replaces; what is answered as stored is in both tables |
| **Accounts** (`auth/`, `db/migrations.py`) | users table, tokens held by clients | login, change password, create, list, delete; the admin is seeded by every new connection | one user per name; an admin remains; who was let in by an endpoint of `auth/` stays entitled until its handler ended |
| **Environment probe, context cache** (`discovery/probe.py`, `cache_manager.py`) | process-global caches | get profile, get or create a context | a profile is never served beyond its lifetime; a prompt cache is used only in the environment it was made for, and before the provider drops it |
| **Scheduler** (`api/scheduler.py`) | sessions and connections of its own | hourly, daily and monthly reports over all tenants | a failing tenant does not keep the others from their turn; connections are closed, sessions settled, cycles end |
| **Webhooks** (`api/routes/webhooks.py`, `webhooks/`) | sessions of their own | alerts as queries | none: every alert fails (section 5) |
| **Connections, app** (`api/dependencies.py`, `db/connection.py`, `api/app.py`) | one connection per tenant | get or create | all calls of a tenant share one transaction |
| **Read-only endpoints, embeddings, models, configuration** | none | reads, external calls | - |
| **Web client, scripts, deployment** (`src/frontend`, `src/scratch`, `src/deploy.sh`) | none | presentation | - |

### 1.2 How they interact

A request (`analyze`) sets the session's status, awaits the embedding of the query, builds
the graph and awaits `ainvoke` on the session's thread. The graph runs node after node and
saves a checkpoint after each; the agents call `resolve_credentials` and
`CommandExecutor.execute`, which validates, asks the gate, and starts a shell. Exit code -3
tells the agent that the gate wants a human: it returns with `hitl_pending` and
`hitl_command` set, and the graph stops before `human_approval`. `approve` calls
`ainvoke(None)`, which goes on from the checkpoint; the next agent that runs finds
`hitl_command` and executes it with `skip_gate`. After the graph ended, the handler writes
the status and embeds the final turn.

The server is one asyncio process: between two awaits a handler runs alone, and handlers
interleave at awaits. The shells it starts are processes of their own. All requests
of one tenant share one SQLite connection, all calls of all tenants one gcloud configuration.
Storing or refreshing a credential starts a sweep, a background task with a connection of its
own; LangGraph's checkpoints are written to the same file over a third.

Before the graph is built, `analyze` awaits the environment profile, which is cached for an hour
for all tenants and tells of the account gcloud has at that moment; building the graph creates
or finds a prompt cache per node from it. The scheduler does the same for every tenant it finds,
without a user. Every request first passes the accounts: a thread opens a connection (and seeds
the admin if it finds none), then the token is looked up in the event loop. In `auth/routes.py`
role and handler follow without an await; every other endpoint first has the rest of its
dependencies resolved in threads and then awaits models, probes and commands, so other requests
run in between.

### 1.3 What is hard

* Requests on one session that overlap work on copies of one checkpoint; the last save wins.
* State lives across turns, pauses and restarts, and is cleared field by field; an exception
  leaves the checkpoint where it was.
* Every external call (models, embeddings, processes) may fail, and the code handles each
  failure differently: fail closed (gate, review), fail open (intent), by ending the loop
  (router), by an exit code (executor), or not at all (the embedding of the query).
* A result is told by numbers with several meanings (-1, -3), or computed again later.
* What is looked up before an await or in a thread is used after it: the role behind a token,
  the credential of a command, the time of a probe, the name of a prompt cache.
* Timeouts kill a shell and not what it started, and a command may leave a child in the
  background; a crash, or a write that fails, leaves files.
* A statement that raises leaves its transaction open, nothing rolls it back, and on the shared
  connection the next request of the tenant commits it, or is refused by another's lock.

The hazards, each at its line and with the properties that watch it, are in `PROJECT.json`.

## 2. The modules

| Module | Models |
|---|---|
| `AgentGraph` | the graph, its agents and the two handlers around it |
| `AgentGraphClaims` | sentences of the documents about it that the code does not keep |
| `Approvals` | what becomes of the commands put up for approval, without saying how (abstract) |
| `CommandOutcomes` | the seam: what can become of one command, as an agent can tell |
| `Validator` | `validate_command` as operators, and what is asked of it |
| `CommandPromise` | what a call of `execute` promises, without saying how (abstract) |
| `Executor` | `execute`, the gate, credentials around a call, processes, crashes |
| `ExecutorClaims` | sentences of the documents about it that the code does not keep |
| `Library` | what the long-term memory promises of its documents (abstract) |
| `KnowledgeStore` | ingestion, sweeps and credentials of a tenant over SQLite |
| `KnowledgeStoreClaims` | sentences of the documents about it that the code does not keep |
| `Accounts` | users, roles, tokens, and the admin that connections seed |
| `Environment` | the cached environment profile and the prompt caches made from it |
| `Vault` | the credentials of a tenant, and what commands get of them |
| `VaultClaims` | a sentence of the documents about it that the code does not keep |
| `Scheduler` | the jobs that run the graph for every tenant |
| `MCAgentGraph`, `MCValidator`, `MCExecutor`, `MCVault` | values and generators for TLC |
| `AgentGraphProofs`, `ExecutorProofs`, `ValidatorProofs`, `KnowledgeStoreProofs`, `AccountsProofs`, `EnvironmentProofs`, `VaultProofs`, `SchedulerProofs` | theorems |

`AgentGraph` and `CommandPromise` use the same table, `CommandOutcomes!OutcomesOf`:
`AgentGraph` chooses a command's outcome from it, and `Executor` is shown to implement
`CommandPromise`, which answers from it only. So the graph is checked against exactly the
outcomes the executor can produce. `AgentGraph` itself is shown to implement `Approvals`, and
`KnowledgeStore` to implement `Library`. `MCExecutor` in turn computes what its commands are
validated as by instantiating `Validator`.

The other modules meet at what they choose freely: `Vault` says which credential a call of
`Executor` has, and as whom it runs; `LogIn` of `Environment` is the login prefix of such a
call, seen by a probe; `EveryCallEnds` of `AgentGraph` is the fairness `Scheduler` assumes of
the graph; the names of credentials and their transactions are in `KnowledgeStore`, their
values in `Vault`.

### 2.1 AgentGraph

`call[c]` is one HTTP request: `pc` is the await it stands at or the node it is about to run,
`st` its copy of the agent state, `iteration` and `count` the local variables of an agent's
loop. `thread[s]` is the checkpoint, `status[s]` the row of the session. `ticket` is a
history variable: each command that was put up for approval, by which request (`by`), what
users said of it, in whose turns agents took it up (`turns`), how often it was run afterwards
(`execs`), and how many of these runs' agents never returned (`cuts`); `unattended` is the
history of risks run without a human.

| Action | Code |
|---|---|
| `Submit`, `EmbedQuery`, `StartGraph` | `analyze_query`, cut at its awaits |
| `Approve`, `ResumeGraph` | `approve_hitl` |
| `Finish`, `PersistFinal` | the tail of both handlers: status, final turn and its embedding |
| `IntentAnalyzer`, `Router`, `HumanApproval`, `SecurityReview` | the nodes, each with its failures |
| `OsEngineer`, `CloudEngineer`, `FinopsAgent` (`EnterAgent`) | an agent up to its loop, the resumed command included |
| `ReactError`, `ReactAnswer`, `ReactRefuse`, `ReactCommand`, `ReactPause`, `ReactExhausted` | one turn of the loop, or its end |
| `Raise` | an exception no node catches, also in the loop of an agent after its commands ran: an answer whose `command` is null (`os_engineer.py:544`), a credential whose JSON is no object (`credential_resolver.py:131`), an audit write that fails |
| `Crash` | the process dies; the database stays |

A node that returns does so by `Return`: it saves the checkpoint and moves the call on, as
LangGraph does. What is behind `ainvoke` (checkpoints after every node, `interrupt_before`,
restart at the entry on new input, resume on `None`) is LangGraph's, modelled from how the
code uses it and marked external.

Data is abstracted to where it came from: an analysis, the log of commands and the final output
are the sets of requests whose data went into them. What an agent was told (`Told`) goes into
its analysis: the query, the analyses so far (through the router's instruction) and the outputs
of commands, that of a resumed command of an earlier request included (`EnterAgent` logs it
under `by`). The conversation the intent analyzer tells on purpose is not counted. `error` is
the request that set it, a command is a member of a small set with the answer of the validator
per agent (`Validated[a][k]`). `cleared` is a history field: this turn passed the clearing block
of the intent analyzer.

`KeepsApprovals` is the refinement of `Approvals`: a command is asked for when `ReactPause` has
issued its ticket, waits while its thread shows it in `hitl_command` and each of its runs was cut
off (`execs = cuts`), is running while one was not, and is decided on by `Approve`. `ReactPause`
is `Ask`, `Approve` on a pause is `Decide`, an agent that enters its loop with the command is
`Run`, one that returns is `Settle`, whether it ran the command or cleared it, and `Raise` and
`Crash` are `Cut` for the commands that are running; everything else stutters. So
a command that was run waits again exactly when its agent did not return.

### 2.2 Validator

A command is a record of what the patterns and the verb extraction tell apart: the CLI
namespace, the word after it and its root up to a dash, whether it is a script, the set of
patterns found in its text, and for `gcloud compute ssh` what the pattern of line 754 makes of
`--command` and the command inside. `Forms` says what it makes of it: there is no `--command`
(refused); it finds nothing, since it wants a `=`, quotes and a single line (`unread`: allowed
without a look); it finds an empty command (refused), the very one that will run (`whole`), or a
part of it or another one (`cut`: it ends at the first quote of either kind and looks at the
first `--command` only). The verb tables are those of the source; the order of the rejections in
`validate_command` is that of its returns. Every pattern may be present or absent: the
regular expressions are not modelled, their use is.

### 2.3 Executor

`exec[e]` is one call with the await it stands at (`gate`, `spawning`, `running`, `killed`),
`proc[e]` and `code[e]` its process, `keys` the temporary key files on disk, `account` the
active account of the one gcloud configuration. `Begin` is everything up to the first await;
`BuildFails` a credential that cannot be built, which raises before `execute` is called and may
leave the key file of a gcloud login (`vault/credential_resolver.py:137-139` is outside the block
that removes it). `GateAnswers`, `Spawn`, `SpawnFails`, `Collect`, `Timeout`, `KillFails` and
`Reap` are the awaits and what follows them; `LogIn`, `LoginFails`, `StartLoggedIn`, `Exit` and
`ChildGoes` the shell, the command and its children on their own. A child the shell leaves in the
background may hold its output (`piped`; `communicate` waits for it) or have its output elsewhere
(`detached`; nothing waits for it). `KillFails` is `process.kill()` with no shell left, answered
-1 as any exception. `Finish` is the only end of a call: the result, and the `finally` of
`resolve_credentials` around it.

### 2.4 KnowledgeStore

`rows` and `vecs` are the two tables of a chunk as committed; `writer` is the connection that
holds the write lock and `dirty` the rows it has inserted and not committed. `op[o]` is one
ingestion or one sweep, with the await it stands at.

| Action | Code |
|---|---|
| `Ingest`, `StoreChunks` | `IngestionPipeline.ingest` before and after its awaits |
| `DeleteDocument` | the DELETE endpoint |
| `StoreCredential`, `RefreshInventory`, `DeleteCredential` | the endpoints of the vault and the sweeps they schedule |
| `StartSweep`, `NoSweep`, `SweepOne` | `capture_inventory` up to its first command, or its early return; a command, its embedding and its chunk |
| `OtherRead`, `OtherWrite` | what else requests do on the shared connection |
| `SaveCheckpoint` | LangGraph's insert and commit, two awaits |
| `Crash` | the process dies; what is committed stays |

The checkpointer writes in a thread of its own, so `StoreChunks` may meet its lock at the first
chunk or after some whole ones. What SQLite and Python's `sqlite3` do is external and was tried
out with that library: a transaction begins before a writing statement and only a commit or a
close ends it; a statement a table refuses keeps the write lock (`Refused`, `HalfStored`); a
writer that finds the lock taken raises (`Locked`), and since it waits in the event loop, the
holder cannot give the lock back meanwhile. After such a refusal the shared connection is in a
transaction that has not read (`begun`); its first read fixes what it sees (`reading`); when
another connection then commits it can never write again (`stale`). A sweep's connection reads
nothing after its start, so for it that needs no state.

`KeepsLibrary` is the refinement of `Library`, where a step is about one document: it takes all
of it away or nothing, and only adds to the others. The texts held and those found are what is
committed in `rows` and in `vecs`, by document; promised are the ingestions that are done and
not replaced since. What is still in an open transaction is not there for `Library`, although
later commits of other requests bring it; the refinement says that this, too, only adds.

### 2.5 Accounts

`user[i]` is a row, `token` the names in valid tokens, `req[r]` a request and `loop` the
request that has the event loop. `get_auth_db` is a plain function, so FastAPI runs it, and with
it the migrations, in a thread: `LookForAdmin` and `SeedAdmin` interleave with everything.
In `auth/routes.py` there is no await from the look-up of the token to the commit, so a handler
keeps the loop (`Authenticate` takes it, the handler's last step gives it back); `CheckName` and
`CreateUser` are two steps because the password is hashed in between, while threads go on. A
request to any other endpoint (`call`) does not keep it: after its token was checked it is
`serving` - dependencies in threads, then awaits - until `EndCall`, and anything may happen to its
account meanwhile.

### 2.6 Environment

`cached` and `stamp` are `_cached_profile` and `_cache_timestamp`, `active` the table of
prompt caches, `run[r]` one analysis from the profile it asks for to its end, `identity` the
account of gcloud, which `LogIn` changes. `AskProfile`, `ProbeCommand` and `KeepProfile` cut
`get_environment_profile` at its awaits; `BuildGraph` is `get_or_create_cache` for every node,
synchronous but for the time the provider takes, and with any of the creations failing. A
profile is what its commands told of, a prompt cache what it was made from and when it dies.

### 2.7 Vault

`rows` is the credentials table with the two copies of each value, hash and ciphertext, both
made with the `secret` of the server of that time; `call[c]` a command from `Resolve` (the
choice of its credential, before the gate) over `Start` to `End`; `account` what gcloud is
logged in as. `given` is a history variable, what the tenant stored last under each name;
`overtaken` are the calls whose credential changed after the choice. `Injection` is the table
of the four builders over kinds of text, with their failures.

### 2.8 Scheduler

`cycle[j]` is the run of a job: the tenants its glob found, those left, the one whose turn it
is. `OpenTenant`, `CreateSession` and `GraphReturns`/`GraphRaises` cut a turn at its two awaits;
each may raise anywhere, which is logged, and `Proceed` and `CloseConnection` are the `except`,
the `finally` and the loop around them. APScheduler's rule that a job does not run twice at
the same time is external.

## 3. The runs

Passing runs:

| Run | Instance | Shows |
|---|---|---|
| `graph_serial` | 1 session, 3 requests one after the other, OS and cloud agent, a command denied to the one and critical for the other, 3 router iterations, 2 loop iterations, 2 commands, 2 tickets, a crash, exceptions in every node, every failure but SIGQUIT | that the graph implements `Approvals`; that a command waits for its user in its own turn; that the limit is carried through pauses; what completed means; that every request ends |
| `graph_overlap` | 1 session, 3 requests at once, the FinOps agent, 1 crash, exceptions after a command ran, empty queries, SIGQUIT; fail-open intent left out | clearing, review, pauses: what survives races |
| `validator` | every command of at most 2 patterns over verbs of each table | the three properties of `validate_command` |
| `executor` | 2 calls of 2 tenants, 4 commands (no risk with key file, elevated, critical with login, denied), credentials that cannot be built, children left behind, 1 crash | the properties of the executor, the refinement, and that calls return |
| `knowledge` | a document of at most 2 chunks, a credential with 2 commands, 3 operations, every failure, crashes, checkpoints; operations on one document one after the other | that the store implements `Library`, what is answered is stored, versions do not mix, and locks are given back |
| `accounts` | 2 requests of every kind, those to other endpoints included, 2 names, 2 rows, 2 passwords, crashes | the properties of the accounts, and that every request ends |
| `environment` | 2 analyses, 1 node, 2 accounts, 1 probe command, profiles that live 2 ticks and prompt caches that live 3 with a buffer of 2, restarts | both caches are fresh and belong to their run |
| `vault` | 2 names, 2 providers, 2 kinds of text (a key, an incomplete object), 3 tools, 2 commands, 2 stored credentials, a restart with another secret | the two copies agree; commands get what is stored |
| `scheduler` | 2 jobs, 2 tenants, every failure, crashes | turns, connections, sessions, and that cycles end |

The properties, in a sentence each (the comments in the modules say more):

* `LimitHolds` - a turn never counts more than `cmd_max_per_session` commands, although the
  resumed command is not compared with the limit.
* `AskedInItsTurn` - in the turn that put a command up no agent takes it up before the user has
  said something of it, whatever fails, crashes or is resumed. For requests one after the other.
  (A later turn may: `RunsOnlyIfDecided` below.)
* `NoBleed` - after the clearing block, whatever of another request is in the analyses, the log and
  the final output came by a command which that request had put up and this turn ran; under an
  error another request left, they are empty.
* `ReviewedAtTheEnd` - no run ends without its own review, an error, or a pause.
* `PauseIsAQuestion` - a thread stops for a human only with `hitl_pending` set; in a cleared turn
  there is then a command to approve, and `hitl_pending` is set nowhere else.
* `KeepsApprovals` - `AgentGraph` implements `Approvals`: only a command that waits is decided on
  and run; one that was run by an agent that returned, was replaced or dropped never waits again;
  one whose agent an exception or a crash cut off does, and runs again. `AtMostOnce` (a command
  runs at most once more than its agents were cut off) follows. For requests one after the other.
* `CompletedIsDone` - a completed session has a thread at its end, reviewed by its own request,
  without an error and with no pause pending. A command of an earlier turn may still wait behind
  it: the router of this turn sent it to no agent. For requests one after the other.
* `EveryCallEnds`, `EveryCallReturns` - liveness, below.
* `HigherModesOnlyAdd` - what one mode approves a higher one approves. `TagsNeverReject` - the
  risk is a tag. `SshNoWeaker` - where the ssh check finds the very command that will run
  (`whole`), it is denied if it would be denied directly; of the other forms nothing is claimed.
* `KeepsPromise` - `Executor` implements `CommandPromise`.
* `PauseCodeIsExact` - exit code -3 is returned exactly where an agent is to pause.
* `KeyFilesAreHeld` - a key file is on disk only for a call under way, one a crash interrupted, or
  one never made because its file could not be written; a command that can still be collected has
  its key file.
* `AnsweredIsOver` - when a call is answered, but for a timeout, its shell is over and nobody can
  write to its output. A child with its output elsewhere may live on.
* `AuditInventsNothing` - where a record names the gate (`gate_invoked`, `gate_decision`,
  `validated_by`), the gate was asked about this call and decided so. Excepted is `validated_by`
  of a command that timed out with its gate skipped (`executor.py:295`).
* `KeepsLibrary` - `KnowledgeStore` implements `Library`: documents go whole, a search finds
  nothing without its text (`VectorsHaveRows`), and what was promised is found. (Not the other
  way round: a row may be left without its vector, `ChunksAreAtomic` below.)
* `AnsweredIsStored` - what was answered as ingested is in both tables until it is replaced,
  whatever fails or crashes beside it.
* `OneVersion` - no document is a mixture of versions, although failed operations leave rows
  behind, some of them in a transaction that is still open.
* `LocksEnd` - a sweep gives the write lock back.
* `AdminRemains` - while there is an account there is an admin, although two may delete each
  other in overlapping requests.
* `AuthorityHolds` - what a token was checked for is still so when a handler of `auth/routes.py`
  acts. The other endpoints may go on for an account that was deleted meanwhile.
* `RowsAreKept` - only its owner changes a row, and only the password: neither the seed nor a
  restart puts a default back.
* `ServedFresh` - no profile is given out that is older than its lifetime, although the older
  of two overlapping probes may be stored last.
* `OwnContext` - the prompt caches of a run were made from the profile the run was given.
* `GoodForTheBuffer` - a prompt cache that is given out lives for the buffer, less the time its
  creation took.
* `VerifiedIsRead` - what verifies is what was stored last, and what agents read is the same,
  through rotations, changes of the secret and rows of before encryption.
* `GivenIsHeld` - a command gets what is stored for its tool, unless that changed after the
  choice.
* `EveryTenantTried` - a cycle that ended has dealt with every tenant it found.
* `UnsettledIsExplained` - a scheduled session is left unsettled by an exception or a crash only.
* `EveryRequestEnds`, `CycleEnds` - liveness, below.
* `TypeOK` of `Scheduler` includes that connections are open exactly for the tenants whose turn
  it is.

Violated runs (each with a finding in `PROJECT.json` that quotes the sentence it refutes):
`claim_reject` (a rejected command runs), `claim_account` (commands share the active account of
gcloud), `claim_standing` (gcloud stays logged in with a key that was deleted).

Further sentences the code does not keep are stated in `AgentGraphClaims` and
`KnowledgeStoreClaims` and have no run of their own; TLC refutes each when it is named as the
INVARIANT of the run in brackets:

* `RunsOnlyIfDecided` (`graph_serial`) - a new query on a paused session runs the flagged
  command, in a turn of its own, although nobody decided; `src/PRD_main_vB1.2.md:381` "Execution is paused, and the
  user must approve or reject the action via the UI."
* `CriticalNeedsHuman` (`graph_serial`) - a critical command runs on the gate's word;
  `src/PRD_Brain_vB1.2.md:502` "Every destructive command in Mode 3 requires human approval".
* `ErrorIsOwn` (`graph_serial`) - an error is never cleared and ends every later turn of the
  session, in spite of the comment at `agents/intent_analyzer.py:172`.
* `ChunksAreAtomic` (`knowledge`) - the row of a chunk whose vector was refused is committed by
  the next request; `db/long_term.py:65` "This is an atomic operation".
* `ReplacesThePrevious` (`knowledge` with `Overlap`) - two uploads at the same time both stay;
  `api/routes/knowledge.py:77` "replaces the previous version (idempotent)".

### 3.1 Bounds, and why they are enough

* `MaxCalls = 3`: a request that pauses, one that approves (or a new query), and one more
  after or beside it. Serial properties need the third to see what the second left behind;
  two overlapping calls and a third that reads what they left are the shapes of a race on one
  checkpoint. Sessions share nothing in the model but the counter of tickets, so one suffices
  for TLC; the proofs are for any number.
* `router_max_iterations` 3 and `cmd_max_iterations` 2: the limit can be reached by routing,
  by pausing and by refusing, and the last iteration differs from the others.
* `cmd_max_per_session` 2 in `graph_serial`: a command counted before a pause and one after it,
  through resumes and failed intents. It is 1 with overlap, where the limit is not checked.
* `MaxTickets`: a second pause after the first; the bound is a guard of `ReactPause`.
* `MaxMarks = 2`: every rule looks at one pattern, or at a pair.
* Executor: two calls are needed for the shared account and for a file removed by the wrong
  call; a third adds no new relation, and the proofs are for any number.
* `MaxCrashes` bounds crashes of the graph and the executor; a crash loses every call in
  flight. In `KnowledgeStore` crashes are not bounded.
* Knowledge store: 2 chunks or commands give a first, a middle and a last point of failure; of
  3 operations the first may leave an open transaction, the second meet it, and the third
  replace both. One document and one credential: operations on different documents meet only
  in the transactions, which those two already share.
* Validator: `Forms` has the five things the ssh pattern can make of a command.
* Executor processes: a child left behind is `piped` or `detached`; more children add nothing.
* Accounts: the seed, two admins who delete each other, and a name that is freed and taken
  again need two requests, two rows and two names, of which one is `admin`.
* Environment: two analyses give overlapping probes and a shared prompt cache; the clock runs
  to 3, past the lifetime of a profile (2) and the use of a prompt cache (1 or 2, which dies at
  3 or later).
* Vault: two credentials that compete for one tool (a GCP one for gcloud and kubectl), one that
  is stored again after a deletion is the bound `MaxStores`; a second secret and one restart make
  rows unreadable.
* Scheduler: two tenants, so that one follows a failure; two jobs at the same tenant.
* Symmetry is not used.

`CHECK_DEADLOCK FALSE` is set in the runs of the graph and the executor: when all requests of
the bounded instance are answered the system rests; in those of the environment (the clock ends)
and the vault (no credential left to change, all commands waiting) for the bounds. The other runs
never stop.

### 3.2 Fairness

`FairSpec` of `AgentGraph` and `Executor` assumes weak fairness of `Step(c)` for every call: the
event loop runs what can run, and a model call ends in an answer or an exception. In `Executor`
that includes the expiry of the timeout, which is the code's own `wait_for`; commands themselves
are not fair, they may run for ever. Requests, users' decisions, crashes and the ends of
processes are not fair. The gate's model call has no timeout in the code: that it ends rests on
the client library. In `KnowledgeStore` weak fairness of `Step(o)` says that an ingestion or a
sweep goes on: the commands of a sweep have a timeout, and the embedding service answers or
fails; that a statement succeeds is not assumed. In `Accounts` the thread and the handler of a
request go on (weak fairness of `Step(r)`), and a request that is ready gets the event loop
although others pass (strong fairness of `Login`, `Authenticate` and `EndCall`): asyncio serves
its queue in order, the handlers of `auth/routes.py` wait for nothing, and those of the other
endpoints wait, without the loop, for models, probes and commands that answer, fail or time out.
In `Scheduler` weak fairness of `Work(j)` is that of one turn: the commands of a probe have
timeouts, and the graph ends. The runs with only safety properties use `Spec`.

## 4. What is proved

All theorems are for every value of the constants that satisfies the modules' assumptions
(`ConstantsAssumption`, `ExecutorAssumption`, `StoreAssumption`, `AccountsAssumption`,
`EnvironmentAssumption`, `VaultAssumption`, `SchedulerAssumption`), among them overlapping calls,
all faults and any number of crashes. Five theorems assume more, since without it the code does
not keep what they say: `CompletedMeansDone`, `ApprovedRunsOnce`, `ImplementsApprovals`,
`AskedBeforeItRuns` and `VersionsDoNotMix` assume `~Overlap`: calls on a session, or operations on
a document, come one after the other. Exceptions and crashes are not excluded anywhere.

**AgentGraphProofs.** `TypeCorrect`, `CommandLimit`, `TurnsDoNotBleed`, `ReviewIsMandatory`,
`PausesAreQuestions`. The properties speak of what is
saved and what is waiting; they are not inductive, since they say nothing of a call halfway
through a node. `IInv` adds, for every thread and every call in flight:
  - `Good`: the state is within the limit, holds when it was cleared only what it may (`OwnData`:
    its own data and that of the commands this turn took up, nothing under another's error), and
    a waiting command is a ticket of this session;
  - `AtNode(next, st)` for a checkpoint: at the end it is reviewed, at human_approval
    `hitl_pending` is set, a cleared turn has it set nowhere else and only with a command to
    approve, after the start there is a request, and before an agent or the review no error;
  - `AtStep(pc, st)` for a call in flight: the same at its steps, where `ended` may also be
    the end at a pause; and its local count is within the limit;
  - `TicketOK`: a ticket was put up by a request, and one not issued yet has no turns or runs.

That the tickets only grow (`KnownGrows`) is what lets the data of a state stay explained when
other calls go on.

The limit is the case where the strengthening matters most: the resumed command is counted
without being compared, so the invariant says that a state with a waiting command has room
for it (`WithinLimit`), and every step that saves such a state has to keep that room.

Almost every action is an instance of `Return` (a node returns), `Answer` (a call ends) or a
move within a call; `ReturnInv`, `AnswerInv` and `MoveInv` say once what each needs, and one
lemma per action supplies it. Because the invariant is about each checkpoint and each copy
alone, it survives overlap: whichever copy is saved last satisfies it.

`CompletedMeansDone` needs more: that the call which writes the status has seen the thread as it
is. The invariant `Serial` says that at most one call is under way on a session, that its copy
is what the thread holds (`InStep`), and that a completed session has a thread that is done. It
holds through crashes and every fault.

`ApprovedRunsOnce` and `ImplementsApprovals` rest on `Once`, which adds `Fresh`: outside the loop
of an agent the command a thread shows has no run that was not cut off. A resumed agent runs it on
entering its loop; every way out of the loop by a return, four of them, takes it from the thread;
and the ways out that save nothing, an exception or a crash, count as cut off (`CutOff`). So
`AtMostOnce` is what the code keeps: `execs <= cuts + 1`.

`AskedBeforeItRuns` rests on `Turns`: while nothing was said of a command of the turn a thread is
in, the thread stops at `human_approval` and no request works on the session (`Parked`). An
approval is what sets a request to work there, and is a decision; a new query takes the command
into a turn of its own, because the request it carries has begun only now (`Begun`).

`RequestsAreFinite` is the half of `EveryCallEnds` that needs no fairness, for every instance and
with overlap and crashes: `StepsLeft` is a natural number for each call, 0 just when it is
answered, at most `MaxSteps` = 4 + (`router_max_iterations` + 1) * (`cmd_max_iterations` + 3); each
step of the call makes it smaller, and no other step makes it larger. It counts the rounds of
the router that are left, and within a round the turns of the loop; a resume of a checkpoint
others have moved stays within the bound because every checkpoint does.

**ExecutorProofs.** `TypeCorrect`, `PauseCode`, `KeyFiles`, `Answered`, `Audit` from an
invariant `CallOK` per call that ties its place, its gate decision, its process, its key file
and its result (`GateAsTold`) together, for calls that were never made (`raised`) too; and `Implements`: `Spec => Promise!Spec`. The refinement maps a call
to `idle`, `open`, `started`, `lost` or its outcome; `GateAnswers` (approval) is `Pass`,
`Spawn` is `StartCommand`, each end is `Tell`, a crash is `Lose`, and processes stutter. `Outcome`
is computed from what happened (the gate's answer, whether the shell was started) and not
from the exit code, so that the promise is about the world and not about the result's own
words; `PauseCodeIsExact` then relates the two.

**ValidatorProofs.** Lemmas about `validate_command` for every command record, and from them
the three invariants of the run, the one about ssh for the form `whole`.

**KnowledgeStoreProofs.** `VectorsKeepRows`: `VectorsHaveRows` is inductive as it stands, since
every commit adds what is in the open transaction, which holds rows only, and every deletion
takes the same chunks from both tables. `AnswersAreStored`: `AnsweredIsStored` says nothing of
operations under way, so `IInv` adds that each has a whole record, that only a credential's
inventory is swept and the sweep has commands left, and that an ingestion that is done and not replaced is stored.
Every action either adds to the tables (`MoveInv`) or deletes a document and marks the other
operations on it as replaced (`TakeInv`). `TypeCorrect` adds the types of the tables and of the
transactions over them (`DbOK`).

What the transactions hold is in `SInv`: the write lock of a sweep belongs to one still under way
and covers its own chunks, the shared one covers chunks of ingestions (`WriterOK`), and the
shared connection sees what is committed unless it is stale (`SnapshotOK`). From it follow
`DeletionsAreWhole` - a connection that can write sees all of a document, its own uncommitted
rows included, so a deletion leaves nothing of it in either table or in a transaction - and
`LocksAreBounded`, the half of `LocksEnd` that needs no fairness: who holds the lock has commands
left, each of its steps is one less, and nothing gives it one more. All these hold with
overlapping operations.

`VersionsDoNotMix` does not. Its invariant `VInv` speaks of what is committed and what is in the
open transaction together (`Pending`): all there is of a document is of one operation, and once
an operation under way has taken its document over, all there is of it is its own - unless it is
an ingestion on a stale connection, which saw less but cannot write either (`OwnsIts`).

`ImplementsLibrary` puts these together: every step is about one document (`StepAbout`), and such
a step is one of `Library` (`AboutHandles`); the clause of `Library` about one maker is asked for
only with `~Overlap`, where `VInv` gives it.

**AccountsProofs.** `TypeCorrect`, `AdminsRemain`, `AuthorityIsCurrent`, `NamesAreUnique`,
`RowsKept`. `AdminRemains` alone is not inductive: a deletion keeps an admin only because the one
who deletes is one at that moment, which is `AuthorityHolds`, and that is kept by the deletions
of others only because they cannot happen meanwhile, which is `LoopHeld`: a request to
`auth/routes.py` past its check has the loop. `RowsKept` is an action property and follows from the same invariant.

**EnvironmentProofs.** `TypeCorrect`, `FreshProfiles`, `SharedCachesMatch`, `CachesLast`. The
older of two probes may overwrite the newer one, so nothing can be said of the order of
profiles; `Stamped` says instead that the stamp is the time the cached profile began, whichever
it is, and `ProbesBegan` that a probe under way began when its run asked. `EntriesMatch` ties an
entry's key to what it was made from and its expiry to the provider's, and `NamesLast` carries
that to the runs that hold the name.

**VaultProofs.** `TypeCorrect`, `CopiesAgree`, `CommandsGetTheirs`. `RowsHoldGiven` says that a
row holds what was stored last, in the hash and, if there is one, in the ciphertext, whatever
the secret is now; only then does a ciphertext that opens agree with a hash that verifies.

**SchedulerProofs.** `TypeCorrect`, `TenantsTried`, `UnsettledExplained`. `Turns` says where every
tenant of a cycle is: it has had its turn, has it, or waits; at most one has it. The lemma
`EndOfTurn` is the end of a turn however it came, `TurnStep` the same with its session. `CyclesAreFinite` is the half
of `CycleEnds` that needs no fairness: each step of a job leaves fewer tenants, or brings the
turn of the one it has nearer to its end; no failure sends it back.

**Only model-checked.** Liveness (`EveryCallEnds`, `EveryCallReturns`, `LocksEnd`,
`EveryRequestEnds`, `CycleEnds`): fairness and ENABLED are out of the prover's reach. For the
first, the third and the last the measure that makes them true is proved, as said above. Every
invariant and every refinement the runs check is stated by a theorem.

## 5. What the model leaves out

* Text: prompts, answers, output, its truncation, how documents are cut into chunks, search.
* Turns, token usage and the rows of the command log, except that writing them may fail (`Raise`).
* The GET endpoints, and the components listed as not modelled in `PROJECT.json`.
* Cryptography: a hash, a ciphertext and a token are what they were made of. Resolutions of
  incidents, which only tests store.
* Webhooks: `_process_event` calls a graph that has a checkpointer without a thread id, which
  LangGraph refuses before any node runs (`api/routes/webhooks.py:141`, `agents/graph.py:137`):
  every alert is answered 500 and its session failed, though `src/README.md:5` describes alerts
  as the first way into the system. There is no behaviour to model beyond that step.
* Two server processes on one database: the code runs one (`uvicorn` without workers).

Some behaviour met while modelling that no run states as a property:

* The intents IRRELEVANT and AMBIGUOUS never take effect: `intent_analyzer.py` calls
  `log_bot_message`, which `ShortTermMemory` does not have, and falls into its own handler.
* An approved command may never run (the router is at its last iteration and goes to the
  review); it is then still there in the next turn.
* `cmd_max_per_session` is per turn in fact: the count is cleared with every query.
* The kill switch `cmd_enabled` is not looked at for a resumed command.
* The check of script endpoints against the cloud blocklist can never match (every pattern
  needs a blank, an endpoint has none), and verbs with a dash in the tables
  (`daemon-reload`, `can-i`, ...) can match only as the name of a program.
* The tables put `install`, `remove` and `create` under destructive;
  `src/PRD_Brain_vB1.2.md:377` lists them as mutating.
* The verb of `gcloud compute ssh web-1 ...` is the first part of the machine's name, so an ssh
  command has the risk of an unknown program, or of a verb a machine is named after; the
  comment at `execution/validator.py:206` says it is treated as read.
* After a timeout the audit record names the gate as the approving stage for every command with
  a risk, also when the gate was skipped (`executor.py:295`, the exception in
  `AuditInventsNothing`), and after a failed start it names the blocklist for one the gate
  approved (line 342).
* A key file whose write fails (`vault/credential_resolver.py:137-139`) stays on disk: the block that
  removes it is entered later, and the exception ends the run of the graph.
* An ssh command whose `--command` the pattern of `execution/validator.py:754` does not find (a blank
  for the `=`, several lines, no quotes) is allowed without a look, and of several only the first
  is looked at.
* A completed session may have a command waiting that its last turn sent to no agent; a later turn
  runs it, and its output goes into the answer of that turn.
* An analysis, an upload or any other request outside `auth/` goes on after its account was
  deleted: the token is looked up once, before its dependencies and awaits.
* The shared connection of a tenant can become unable to write until the process restarts
  (`stale`, section 2.4), and a credential name that exists (409) makes it hold the write lock
  until the tenant's next write: sweeps lose chunks meanwhile, checkpoints of running graphs
  fail.
* A sweep passes the login prefix of its credential in the environment, where nothing runs it;
  the timeout of its commands does not kill them.
* A token is valid by the name in it: one of a deleted account works for a user created later
  under that name, the admin that is seeded again included. The seed comes back whenever a
  connection finds no user named admin, although `src/PRD_main_vB1.2.md:318` speaks of the
  initial installation.
* The two caches of the environment are for all tenants: a failed probe command is an
  unknown fact for an hour, and after a command's login the probe tells of that account, though
  `discovery/probe.py:74` says it is the platform's host. `api/scheduler.py:56` says "no cache
  reuse" and calls `get_environment_profile()` without `force_refresh`, which nothing passes.
  A run keeps the prompt cache names of its start and may outlive them.
* An incomplete Azure object is injected as far as it goes, where the log says it is skipped;
  an incomplete AWS object is split at its first colon and injected as two keys. JSON that is no
  object makes the builders raise. A newer GCP key hides a kubeconfig from kubectl. A row that
  cannot be decrypted is skipped, and an older credential used in its place. Where the log says
  "command will run unauthenticated" (`vault/credential_resolver.py:339`), it runs as the server,
  or as whom gcloud is logged in.
* The plaintext of a credential is read before the gate is awaited; a credential rotated or
  deleted meanwhile is still used (`overtaken`).
* A scheduled run that pauses is marked completed, and its question is lost with its in-memory
  checkpointer, though `api/scheduler.py:71` says that scheduled runs never need one that lasts.
  One that raises leaves its session `analyzing` for good.
* The query is embedded after the session was set to `analyzing` and outside the `try`
  (`api/routes/analyze.py:120`); a failure there leaves it so. An ingestion deletes the old
  chunks before it computes the new ones (`ingestion/pipeline.py:152`): a failure leaves no version.
  A credential deleted during its sweep gets its inventory afterwards (`vault/manager.py:242`). A
  crash or an exception after an approved command ran and before its agent returned leaves it
  waiting, and the next resume runs it again (`agents/os_engineer.py:223`).
* The head of `execution/executor.py` says that no command is run through a shell; every call
  of the agents passes `use_shell=True`.

## 6. Plan

Done in this order, the most important behaviour first: `AgentGraph` with its proofs,
`Validator`, `Executor` with `CommandPromise` and its proofs, `KnowledgeStore`, `Accounts`,
`Environment`, `Vault` and `Scheduler` with theirs; then `Approvals` and `Library` with the
proofs that `AgentGraph` and `KnowledgeStore` implement them. Next:

1. The measures behind `EveryCallReturns` and `EveryRequestEnds`, as for the other three.
2. `Chunker` - the pieces of a document as a fold over its segments: nothing is lost, and how
   long a piece can be.
