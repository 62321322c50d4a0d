# pdlcflow, verified

TLA+ models of the pdlcflow engine (`src/services/pdlc-engine`), of the workflow graph it drives
(`src/packages/pdlc-graph`) and of the Studio that shows it, the TLC configurations that check
them, and TLAPS proofs about them. Paths below are relative to `src/`; `E/` stands for
`services/pdlc-engine/app/`, `G/` for `packages/pdlc-graph/pdlc_graph/` and `S/` for
`apps/studio/src/`.

## The system

pdlcflow runs a product life cycle (Initialization, Inception, Construction, Operation) as one
LangGraph thread per conversation. A client posts a *command*; the engine drives the thread's
graph until it stops at an *interrupt* (an approval gate, a round of questions) or ends; a human
*resolves* the open interaction and the graph goes on. `/night-shift` runs Construction and
Operation without a human after one agreement, the Contract Party.

| component | state it keeps | operations | talks to | what makes it correct | module |
|---|---|---|---|---|---|
| turn runtime (`E/runtime/graph_runner.py`, `ports.py`, `E/routes/commands.py`, `approval_gates.py`) | checkpoint per thread, gate records, frames | start, resume, sync pending, resolve | graph, store, bus | a verdict reaches the question it was given to, once; store, checkpoint and frames agree | `TurnRuntime` |
| meta graph and phases (`G/graphs/`) | `PDLCState` | one node per step, gates, asks | stores, VCS, deploy port | nothing ships unasked; production is out of reach | `Lifecycle` |
| night shift, Sentinel (`G/graphs/night_shift.py`, `G/sentinel/`) | flags, progress log, verdict | preflight, contract, two firings, outcomes | build and ship subgraphs | one human gate; it ends; success means shipped | `Lifecycle` |
| utilities (`G/graphs/utility/`) | `utility_command`, register | hotfix, rollback, override, ... | register | routed once, deploys to what was agreed | `Lifecycle` |
| build loop (`G/graphs/build/`) | tasks, waves, strikes | TDD cycle, strike panel | test runner | replay does not change what happened; waves respect dependencies | `BuildLoop` |
| execution backends (`E/runtime/workspace.py`, `vcs_backend.py`, `deploy_backend.py`, `test_backend.py`, `security_backend.py`) | clones on the host, the repository | acquire, test, scan, merge, push, deploy | git, the operator's commands | what ships is what was merged and what was merged is what was pushed | `Checkout` |
| Arq worker, event bus, WebSocket, Studio (`E/runtime/dispatch.py`, `redis_bus.py`, `S/store`, `S/lib/ws.ts`) | job queue, frame history, the thread store of the page | enqueue, publish, replay, follow, open a thread | turn runtime | the page shows what the thread waits at | `Delivery` |
| LLM resilience (`E/llm/breaker.py`, `rate_limit.py`, `E/runtime/llm_backend.py`) | breaker keys that expire, counters | allow, record, complete, stream | Redis, providers | the chain is walked in order; a lockout ends | `Failover` |
| model administration (`E/routes/admin/models*.py`) | rows per scope, versions | save, preset, clear key, roll back, import | database, secret store | history tells the truth; keys stay with their provider | `ConfigStore` |
| settings caches (prompts, MCP bindings, quotas, prices, secrets) | a dictionary per process | look up, fill, invalidate | database | staleness is bounded | `TenantCaches` |
| clickstream, budgets (`E/clickstream/`) | bounded queue, events, alert rows | emit, drain, evaluate | sink, database | emit never blocks; each threshold is reported once | `Clickstream` |
| task and transcript stores (`E/persistence/`) | rows or dictionaries | create, depend, claim, append, delete | database | ids, edges and order | `Stores` |
| entities and import (`E/routes/entities.py`, `migrate.py`, `E/analytics/store.py`) | rows, secrets, events, documents | create, rename, move, delete, import | all stores | references hold; an import is there, once | `Workspace` |
| tests and readiness (`E/llm/probe.py`, `E/routes/health.py`) | chips, rate window, status, cached check | test, edit, loop, scrape | providers, database | what it says is or was just true | `Probes` |
| authentication, rendering, party meetings, evals, listings and reports | none or plain rows | formatting, one decision per request | database | request and response, nothing to interleave | none |

What is hard: FastAPI runs every synchronous handler on a thread pool, so two requests on one
thread interleave; a turn writes the checkpoint, the gate store and the bus one after the other and
may raise in between; a restart keeps some of these and loses others; the state of a thread
outlives the run that wrote it, and every later command starts on top of it; the night shift must
take every decision without a human, and end; keys expire by themselves and caches live in
processes that do not hear of each other; several turns use one clone that nothing locks; an
import writes to five stores with no transaction over them and is run again when it fails; a page
hears of one turn by two ways in either order. `PROJECT.json` lists the hazards at their lines.

## The modules

| module | role |
|---|---|
| `TurnRuntime` | handlers as processes over checkpoints, gate store and frames |
| `Conversation` | the abstract promise of a thread to its users |
| `TurnRefinement` | the mapping under which `TurnRuntime` implements `Conversation` |
| `TurnRuntimeProofs` | types, question-and-answer invariants, store and frames after a turn, and the refinement of `Conversation`, for all constants |
| `Lifecycle` | one thread through the meta graph, the night shift and the utilities |
| `ProjectProofs` | what ships was agreed to and the night shift keeps its word (`Lifecycle`); references hold and imports are kept (`Workspace`), for all constants |
| `BuildLoop` | Construction's waves, TDD loop, strike panels and test layers, with the replay of a node |
| `BuildLoopProofs` | panels hear their own answers, the wave search ends and orders, replays leave no trace, for all constants |
| `Checkout` | clones, merges, pushes and deployments of several turns |
| `CheckoutProofs` | merges are true and clones keep apart, for all constants |
| `Delivery` | frames, replies and the page they reach, with three ways to run a turn |
| `DeliveryProofs` | what the page shows is right and its answers arrive, for all constants |
| `Failover` | completions over the failover chain and the breaker's keys |
| `ProviderProofs` | the chain is walked in order (`Failover`); tests and readiness are true (`Probes`), for all constants |
| `ConfigStore` | the model configuration and its history under concurrent transactions |
| `TenantCaches` | five settings cached in processes that share nothing |
| `SettingsProofs` | staleness is bounded and quotas bind (`TenantCaches`); keys stay home and the history is true (`ConfigStore`), for all constants |
| `Clickstream` | the queue, the drain thread and the budget alerts of several workers |
| `RecordsProofs` | an alert is sent at most once and was earned, the oldest event goes first (`Clickstream`); plans and talk are kept (`Stores`), for all constants |
| `Stores` | tasks, dependencies, claims and transcripts, in a dictionary or in the database |
| `Workspace` | entities, repositories' tokens and the import |
| `Probes` | tests of a configuration, their limiter, the probe loop and the readiness cache |
| `Nothing` | Python's `None`, one constant for the models a proof module holds side by side |
| `MC...` | constants for TLC, one per model |

The modules share no variables: each takes what the others do to it as choices of its environment.
`TurnRuntime` runs any graph, `Lifecycle` is that graph with its turns one after the other,
`BuildLoop` is one of its nodes in detail, `Checkout` another; `Delivery` takes a turn as one step
and follows its outcome outwards; `Stores` is below both. `TurnRefinement` composes the turn runtime
with its promise.

### TurnRuntime

A graph is abstracted to the interrupts it meets: a *run* (one command) meets interrupts
`1 .. Last` and may end early, since conditional edges skip nodes. `graph[t]` is the latest
checkpoint of thread `t` (run, position, parked or not), `status`/`asks` are the gate records,
`frame[t]` the last frame on the thread's channel. Each handler `r` has a program counter and its
locals. The actions follow the code:

| action | code |
|---|---|
| `Invoke` | `commands.py invoke`: any thread, whatever its state, because the session id is the client's |
| `ResolveCheck`, `ResolveMark` | `approval_gates.py resolve`: the status check, then the write |
| `Load`, `RunStart`, `RunResume`, `RunNothing`, `Walk` | `graph.invoke` in `GraphRunner._advance`: checkpoint read, the input applied, nodes up to the next interrupt or the end |
| `SyncRead`, `SyncClose`, `SyncOpen`, `Publish` | `_sync_pending`, one action per shared access |
| `Fail` | an exception in the turn: in a node, or in any of the reads of the checkpoint before, between and after the writes of `_sync_pending` |
| `Restart` | the process dies: handlers, gate store and bus history are lost, checkpoints only with `MemorySaver` (`Durable = FALSE`) |

`fed`, `excuse`, `overlapped` and `recommanded` are history variables: which interrupt consumed
which gate's answer, how a thread's last turn came to grief, and whether its clients overlapped
requests or sent a command over an open question. LangGraph itself is not in the repository; that
`Command(resume=v)` is consumed by the pending interrupt, and that a checkpoint is saved after every
step, is taken from how `graph_runner.py` uses it.

### Lifecycle

`at`/`turn` is the thread's position; each node of the meta graph, the phase subgraphs, the night
shift and the utilities is an action of that name. `state` is the part of `PDLCState` that routes,
gates and records, as the running nodes see it; `kept` is the meta graph's own checkpoint of it,
which gets a subgraph's result only when the subgraph ends: that is why a command that replaces an
unfinished run forgets what the run did to the state (the version number among it) but not what it
did to the world (`register`, `main`). Documents, party minutes, brainstorm log and LLM texts are
left out; a node that only writes those is `Pass`. What an LLM or a scanner decides is a
nondeterministic choice (the UX branch, smoke results, scan results, whether a node that may ask
does ask).

`Break` is any exception, before or after the node's external effects. `consents`, `passed` and
`cut` are history variables.

### BuildLoop

`build_loop` and `test_phase` are single nodes that pause inside; on every answer the node runs
again from its top and its k-th `interrupt()` returns the k-th answer (LangGraph, external).
`walk` is what the running node holds in locals, lost at every pause; `answers` are those given to
the node; `state` is the subgraph's state, written when the node returns; `kept` the meta graph's,
written when the subgraph ends. A client's task list may come annotated, wholly or in part, or not
at all; Plan's own is annotated by `build_tree` with `planned_waves`, and `compute_waves` believes
an annotation when every task has one. Tasks are kept in the order of the list (`InListOrder`).
One action per unit-test run (`RunUnit`), panel outcome (`AutoPick`, `TakeAnswer`, `PanelAsks`),
finished task (`Refactor`) and node. `Verdicts` and `Failing` are the two runners: the simulator
is a function of its arguments, the subprocess runner says anything. The wave search `level` is
modelled as it runs, with its memo and its cycle guard, as a stack of frames (`Level`). A strike
record remembers which question the human saw who made its choice (`asked`).

### Checkout

What `Lifecycle` takes for one step (`Execute`) and `BuildLoop` for a verdict, command by command.
`dirs[b]` is the clone in `workspace_dir/<project>/<branch>`: what HEAD is, its local branches,
what it last fetched, and whether a conflict or an abandoned lock is in git's way. A branch is the
set of commits it contains, so that "is an ancestor" is inclusion. `Ask` is a node that calls a
backend (tests and scans alike, or `merge_to_main` followed by `deploy`); `Acquire`, `CloneEnds`,
`Fetch`, `Heads` and `Checkout` are `RepoWorkspace.acquire`, one git command each, because another
turn of the project may run its own in the same directory between any two; `CheckoutMain`,
`Merge`, `Abort` and `Push` are `GitVCS.merge_to_main`; `Deploy` runs the operator's command and
records the deployment. `Develop` is somebody else's push, `Kill` the time limit of `run` (SIGKILL
leaves `index.lock`), `Restart` the engine's death. Every git command that is not checked
(`check=False`) may fail without a trace. `woe` is a history variable: the worst thing that befell
a turn.

### Delivery

One thread in full, the page, and other clients that command and answer too. `mode` is the
deployment: in-memory bus, Redis bus, or Redis with Arq workers. `server` is what the engine has
of the thread: its turns, the gate it waits at (`current`, the checkpoint's), the open records and
all the records the API's process has (`open`, `known`; under Arq the worker has its own, which
nobody reads), and, as history, at which turn the API was last restarted. `Restart` cuts handlers
and sockets off and empties the gate store, a bus in memory, and perhaps a checkpointer in memory.
`request[s]` is an HTTP request under way (`AcceptStart`, `AcceptResolve`, `AcceptOpen`,
`RunTurn`, `RequestFails`, `Publish`, `Reply`), `jobs` and `worker` the Arq side. `frames` is the
channel's bounded history; a socket replays it (`Connect`), then follows (`Subscribe`), and what
is published in between is the `gap` of the Redis bus.

The page is one store for all threads, so the model keeps which one it shows (`studio.view`: none,
this one `here`, another `away`) and what the page does about the others: it starts or opens one
(`Visit`), answers it (`AnswerAfar`) and gets its frames (`DeliverAfar`), each of which may end
with the other's interaction, `Foreign`, on the screen (`Intrude`). `Start` is `ChatPanel`'s send:
every one has a session of its own, so the page starts this thread once; a client that names the
session commands it again (`Recommand`). `OpenThread` and `Visit` have no guard on a request that
is out, `Continue` (`continueThread`) runs no turn. `conn[c]` are the sockets `connect` has opened
for this thread, several at a time: the cleanup closes a socket, but the timer that will open the
next one runs on, so a socket that was lost when the page left comes back, `left` (`Leave`,
`Opens`). `excuse` and `left` are history: why the page may be behind, and what was under way when
it left.

### Failover

`complete()` and `stream()` of `FactoryCompletionBackend` walk the primary provider and then the
chain; each Redis command of `CircuitBreaker` (`ReadState`, `SeeWindow`, `TakeProbe`, ...) and of
the rate limiter is a step, and each may fail (`Outage`), after which the code fails open. Keys
carry a time to live and `Tick` ages them; a key set without one stays (`NoExpiry`). `call[c]` is
a completion: its rank in the chain, the last error, and who has spoken. The breaker is keyed by
account, so two fallbacks at one vendor share it.

### ConfigStore

`live` is `org_llm_config`/`agent_llm_config`, `versions` the history. A request is a transaction
at READ COMMITTED: `PutOrg`, `PutAgent`, `ApplyPreset`, `ClearKey`, `DeleteAgent`, `PutPrices`,
`Import` and `Rollback` plan it, `Begin` fixes its timestamp, `Record` reads the prior state of a
scope and writes the version (with the retention), `Write` upserts the scope and keeps its row
locked to the end, `Abort` undoes all. What is planned was read in an earlier transaction: a save
carries the keys of its fallbacks over from the chain it has `seen`, by position and provider,
while the row's own key stays whatever it is when the save commits. The listing reads the versions
and the live rows in two statements (`ReadVersions`, `ReadLive`). A row is its provider, key
reference, price sheet and chain of fallbacks, each with a provider and a reference; a reference is
typed in (an encrypted blob, of one admin for one provider, keyless ones too), a pointer into a
vault, or none. The two checks on save and the importer's are modelled as they are written.
`EachKey` is what the export, the import and a rollback share: a row with each of its keys replaced
by what becomes of it. `moved` is a history variable: the scopes whose provider was changed under
their key.

### TenantCaches

A behaviour is about one of five dictionaries: `kind` is chosen at the start, since they share
nothing. `Lookup`, `Load`, `Store` are a turn's read with its fill, an admin's action commits to
`db` and leaves `pending[p]` until `Invalidate`; a rollback and an import (`RollbackConfig`,
`ImportConfig`) write prices too and invalidate only secrets. `Acquire` is the rate limiter's
counter of a minute, `RefuseTool`, `CallTool`, `ToolAnswers`, `ToolFails` are MCP's negative cache
and call cap. `age[v]` remembers how long ago a value was in force.

### Clickstream

`Emit`, `DropOldest`, `PutAgain` are the three steps of `emit_envelope`, on several threads;
`Take`, `Write`, `Check`, `Evaluate`, `Record`, `Report` the drain thread: the batch, the sink,
the budget's interval, the read of the spend, the `insert .. on conflict do nothing returning` and
the event that goes into the thread's own queue. `AnotherWorker` is the same in another process,
as far as the tables show it. Spend saturates at `MaxSpend`.

### Stores

A turn plans (`Draw`, `Insert`: the minted number and the row; `AddDependencies`) and then records
what was said (`Say`, `WriteEntry`: the maximum and the row). With `store = "memory"` the two halves
of a step are one, and an entry is never lost to a constraint. A turn may begin in a project that is
gone, since nothing looks for it: a plan fails then on the foreign key of its tasks, talk does not.
`ImportTask` upserts by external id. Claims, the deletion of a project or a squad and the failure
of a node come between any two transactions. A table is a function from the places of its rows, in
the order in which they came; what is deleted leaves its place empty (`Extended`, `Restrict`).

### Workspace

`rows` is every entity table in one, by id. The routes are a transaction each, but for a
repository, whose token goes to the secret backend before its row is inserted (`StoreToken`,
`InsertRepository`); the `env` backend keeps nothing and returns a reference all the same. An
import is `LookUp`/`NoInitiative`, `Resolve`, then, per event, `Check`, `Mark`, `AppendEvent` in
the analytics store, `PutArtifact` per document and `Answer`; any step may fail, and the client
runs the import again. `mode` says which stores are in the database; with analytics there,
`ingest` takes in nothing.

### Probes

`Testing` is `POST /llm/test`: the limiter (`Arrive`, `Admit`), the configuration it reads
(`Load`, `Candidate`), the call (`Probe`), the chip (`Persist`); `Editing` the routes that change
the same rows meanwhile. `Looping` is `instance_health_loop`, `Serving` the cached database check.
`Turns` lets the provider and the database fail and come back.

## What the runs check

Each run answers one question about one model; a property that is a conjunction is made of named
parts, each stated with its own comment in the module.

| run | bounds | what it shows |
|---|---|---|
| `TurnRuntime_overlap` | 1 thread, 2 handlers, 3 gate ids, 2 interrupts, 2 runs, 1 restart with durable checkpoints | a verdict reaches its own question, once; there is one current question; store, frame and checkpoint agree after a normal turn; a superseded record is final; an accepted answer is used; every step is a step of `Conversation` |
| `Lifecycle_thread` | 2 commands of any kind, 3 seeds, 3 environments | what ships was agreed to, under a new version and not in production (`ShipsAsAgreed`); the night shift asks once, before it decides, and reports success only for what it shipped (`NightShiftKeepsItsWord`); it ends |
| `BuildLoop_replay` | all 64 dependency relations without self-loops on 3 tasks, annotated and half-annotated lists, failures 0, 2, 3 on 2 tasks (7 on 3), both runners, then a second build | waves are a build order; answers reach the panel they were given to; replays leave no trace; builds end |
| `Checkout_shared` | 2 turns on 2 branches, 2 requests, 2 commits besides the first, 1 kill or crash | what is recorded and deployed was merged and what was pushed is what is tested and merged, but for named excuses (`MergesAreTrue`); no clone carries one feature's work or wreckage to another turn (`ClonesKeepApart`) |
| `Delivery_frames` | 2 requests in flight, 2 sockets, 2 turns, a history of 1 frame, 1 token frame with Redis; lost sockets, restarts, reloads, openings and dealings with other threads: 2 in memory, 1 otherwise | frames come once and in order; the page shows what its thread waits at, but for named excuses, and nothing of a thread it has left, but for what was under way; answers find their record unless a restart or the worker has taken it; in memory the page catches up with every outcome since the last restart |
| `Failover_breaker` | 2 calls, one streaming, primary and 2 fallbacks at one account, threshold 2, all lifetimes 1 tick | no answer is spliced from two models; a lockout ends; calls end |
| `ConfigStore_history` | 2 admins, 2 transactions, org and 1 persona, 2 providers (env-keyed, keyless), 6 forms to save with chains of up to 2, 2 files to import, 2 kept versions, fresh or with a history | the history tells what changed; keys stay with their provider unless it is changed under them (`KeysStayHome`); edits keep the keys they have read (`EditsKeepKeys`) |
| `TenantCaches_stale` | 2 processes, 2 values and none, lifetimes of 1 and 2 ticks, a minute of 2 | staleness is bounded and its reasons are the named ones (for prices, rollbacks and imports among them); a tenant never runs on the operator's key; quotas bind |
| `Clickstream_budget` | 1 emitter and the drain, a queue of 1, batches of 1, spend up to 2 units, 2 months, 2 budgets (an early and a full threshold; a raised limit), both kinds of sink | an alert is sent at most once; it was earned; the oldest event goes first; a crossing is recorded in the end |
| `Stores_import` | 2 turns, 2 projects, plans of 2 tasks, 1 import, 1 branch, both stores | ids, edges, claims; order of a transcript, and what is left of it when its project is deleted |
| `Workspace_import` | 4 ids, 2 names, 2 imports, 2 events, 3 requests, empty and filled tables, 3 deployments | references hold, and tokens where a backend keeps them; what an import says is there is there, once |
| `Probes_health` | 2 admins, 2 scrapers, 2 providers, 2 keys, 2 tests per window of 2 ticks, 3 acts, 2 failures | chips are true and tests bounded; readiness is recent; the status catches up |

*Why the bounds are enough.* Two handlers on one thread give every interleaving of a resolve with a
resolve, with a command and with itself; three gate ids let a record be resolved, superseded and
replaced; two interrupts let a verdict land on the wrong one; two runs let the state of the first
meet the second. The gate id bound only stops new turns (`IdLeft`), never one in progress, and the
constraint `DrawnInOrder` loses only renamings of the ids. TLC runs one thread: that threads do not
disturb each other through the shared store is what the proofs show, for any number of them. In
`Lifecycle` every stale-state hazard needs one run to leave something and one to find it: two
commands. `Seeds` covers the keys that preflight and `prepare` read; a client that seeds
`deploy_target` or `version` itself could send a hotfix anywhere, and such seeds are not in the
model. Rollback versions are those up to the current one.

In `BuildLoop` the numbers of failures fall on each side of the third strike and of the cap of
six; two hard tasks give an answer another panel to go astray to, and the second build starts on
what a finished, broken or abandoned one left. Cycles are among the relations on purpose: a client
seeds the task list and nothing rejects them. In the other models two of a kind are what a race
needs: two turns in one directory or two, two transactions over one scope, two processes with a
cache, two imports of one history. A queue of one is full at once, a history of one frame forgets
at once. Two commits are a feature's and its merge, or two features' whose merges conflict or one
after the other do not fit any more. `Apart` in `MCProbes` cuts off behaviours that use the
console and the readiness check at once: the two share only the clock. `Telling` in `MCStores`
cuts off deletions from the dictionary, which change nothing there, and claims beside
talk, which never see each other: a behaviour that breaks a property breaks it without them.
In `MCDelivery` two breaks are what a stray reconnection needs (the socket is lost, the page comes
back); in memory both happen, with Redis the second socket is there because a page mounts the
thread again. In `MCConfigStore` the six forms are those that differ in what they do to a chain of
two: add, keep, drop, reorder, replace the own key, change the own provider; the two admins are
interchangeable.

Symmetry is used only where no liveness is checked.

*Fairness.* Handlers are threads of a live process: weak fairness on each handler's next step
(`TurnRuntime`), on the node that runs (`Lifecycle`, `BuildLoop`), on every step of a completion
and of time (`Failover`: clients have timeouts), on handlers, worker, socket and delivery
(`Delivery`: the client reconnects by itself), on the loop (`Probes`: it is a task of the event
loop and its probes have a time limit). In `Clickstream` threads, reports and time are weakly
fair, and taking, writing and evaluating strongly so: the sink and the database may fail, but not
for ever, and the organization goes on spending. Humans, clients and crashes get none, so "is
answered" is never promised. `CHECK_DEADLOCK FALSE` where a system may rest for ever: a thread may
be finished or wait for a human, an admin may have nothing to do.

*The properties are conditional where the code is.* The turn runtime has no per-thread lock, so
its promises hold for threads whose clients neither overlap requests nor send a command over an
open question (`Trusted`). The same form is used elsewhere: `Overlapped` (`Stores`, `Workspace`),
`overlapped`, `lost` and `moved` (`ConfigStore`), `excused` (`TenantCaches`), `woe` (`Checkout`),
`excuse` and `left` (`Delivery`). A condition is
written as weak as TLC allows: it names the event that breaks the promise and nothing else.

## Where code and documents differ

Met while modelling; each is what the models do, and most are the conditions of a property.

Turn runtime and graphs:
* `E/routes/approval_gates.py:92-97` checks a record's status and then writes it, with nothing in
  between to stop another handler; `services/pdlc-engine/tests/test_inception_flow.py:107` says
  "The same interaction can't be resolved twice."
* `E/runtime/graph_runner.py:240` leaves a thread's older open record open beside the new one, so
  its verdict can resume the new question.
* The only gate store is in memory (`E/runtime/ports.py:139`), so after a restart a thread parked in
  PostgreSQL waits at a gate no id can answer; `ports.py:7` announces Postgres rows.
* `utility_command` is never cleared: `E/routes/commands.py:92` leaves the key out, the checkpoint
  keeps it and the thread's next phase command runs the utility again.
* A merge that raises (`G/graphs/ship/ship.py:123`) ends the turn without an outcome and with
  `night_shift_active` set; `docs/wiki/11-night-shift.md:50-51, 101-106` lists it as an abort.
* A night shift completes in spite of scan findings: `G/graphs/night_shift.py:41` makes abort
  markers of required checks only, while `G/graphs/ship/verify.py:124-126` calls findings "a hard
  block". To see it, add `BlockedIsNotCompleted` to `Lifecycle_thread.cfg`.
* The subprocess test runner is not a function of its arguments (`E/runtime/test_backend.py:28`),
  which `G/test_runner_port.py:8-9` calls load-bearing: an answer may decide another task's panel.
* `DECISIONS.md` is rendered from the conversation's own list (`G/graphs/utility/decide.py:37-48`)
  and replaces what other conversations wrote; `docs/wiki/12-utilities.md:144-149` calls it
  append-only.

Execution:
* The release tag is a lightweight one and `push --follow-tags` sends annotated tags only
  (`E/runtime/vcs_backend.py:53-54`), so the tag stays in the clone.
* A branch nobody pushed, or a remote that is unreachable at `fetch` or `ls-remote`, makes the merge
  "already up to date", which is reported as a success (`E/runtime/workspace.py:109-121`,
  `vcs_backend.py:5-7`).
* The deploy command runs on the feature branch, fetched again, not on the merge; and if the
  workspace cannot be had, in the engine's own directory (`E/runtime/deploy_backend.py:47-48`).
* A killed git command leaves a lock that nothing removes. A scan without a workspace is "skipped"
  and passes. Checks before a feature exists see the default branch as it was cloned.

Delivery:
* `openThread` returns the oldest open record of a thread; a reply may overwrite a newer frame;
  under Arq every resolve is a 404, since the record is in the worker, and the immediate reply
  wipes a pending interaction. A frame published between replay and subscription reaches no one
  (`E/runtime/redis_bus.py:62`).
* The cleanup of `connect` does not stop a reconnection that is due, and `open` does not look at
  `closed` (`S/lib/ws.ts:49-61`): the socket of a thread that was left opens again, replays, and
  its interaction appears in another thread's view. So does a late reply, and what another thread
  of the page waits at appears in this one: there is one store for all (`Foreign`, `Intrude`).
* After a restart of the API a gate store in memory is empty (`E/runtime/ports.py:139-140`), while
  the page, and the history in Redis, still show the gate: its answer is a 404
  (`AnswersFindTheirGate` says that this and Arq are the only reasons).
* Opening a thread clears what is shown before the request is sent; if it fails nothing is shown
  until the next turn, and nothing in `S/components/ThreadSidebar.tsx:43-45` or `SideDrawer.tsx`
  keeps a user from opening one while a turn runs. `ChatPanel.tsx:115-120` sends a new session id
  every time, so each send starts another thread.

LLM, settings and clickstream:
* The breaker admits more than one probe if its keys expire at different times; a stream whose last
  fallbacks are skipped ends without a word or an error.
* A rollback and an import write price overrides (`E/routes/admin/models_versions.py:200-237,
  439-496`) and do not invalidate the price cache, not even in their own process;
  `E/llm/factory.py:271-273` says that admin writes do. So a price is fresh at once in the process
  that wrote it only after a `PUT` (`ServedIsCurrent` excuses the others, for a time to live).
* A row keeps its own key when its provider is changed without naming a new one
  (`E/routes/admin/models.py:468-480`, and the presets): the next call sends it to the new
  provider, while `factory.py:220-222` says, of a key that is inherited, that "an Anthropic key
  must never be sent to OpenAI" (`moved`, in `OwnKeysMatch`).
* A fallback's key typed in by one admin between another's read of the chain (`models.py:440-446`)
  and write (`:481`) is overwritten by position, while the docstring (`:12-13`) says a save
  without a key leaves the stored one intact (`req[a].seen # old`, in `FallbackKeysKept`).
  Reordering two fallbacks of one provider swaps their endpoints and leaves the keys in place.
* An export of a chain with a typed key of an env-keyed fallback cannot be imported again: the
  ciphertext stays out of the file and the importer then refuses it with a 422
  (`models_versions.py:373-379`; `RoundTrip` says that this is the only case).
* `list_versions` reads versions and live rows in two statements (`models_versions.py:125-136`):
  a save that commits in between appears as the last version's difference.
* A rollback or import may leave a fallback without a key, which then falls back to the operator's
  (`E/routes/admin/models.py:277-281` forbids that on save only); two saves of one scope at a time
  record the same prior state ("no drift possible", `models.py:338-343`); a vault pointer is a
  path, so a rollback gets the newer key.
* `_turn_calls` counts the tool calls of a thread, not of a turn, and is cleared for all threads
  at a thousand (`E/runtime/mcp_backend.py:243`).
* With a stream sink the events table stays empty and budgets never alert; "exactly once"
  (`E/clickstream/budget.py:8`) is at most once, since the event follows the commit; when two
  threads overtake each other it is the newest event that is dropped
  (`docs/wiki/14-monitoring.md:90-91`).

Stores, import and health:
* Nothing refuses a turn of a project that was deleted, neither `E/routes/commands.py:97-118,
  157-195` nor the gates' resolve, and `thread_transcript` has no foreign key (migration
  `0005:18-26`): a conversation open in another tab leaves transcript rows that nothing removes,
  though `E/routes/entities.py:459` deletes a project's transcripts. `OrphansAreExplained` says
  that such a turn, or one the deletion cut into, is the only way.
* With `secrets_backend = "env"` a repository's token is stored nowhere
  (`E/secretstore/__init__.py:48-53`); the row refers to a variable named by a fresh id
  (`E/routes/entities.py:151-152`), `has_token` is true, and it resolves to nothing.
* With analytics in PostgreSQL an import's events never land: `ingest` does nothing
  (`E/analytics/postgres_store.py:45-46`), while `E/routes/migrate.py:7-13` says they are ingested
  and the route answers that all is well, with a count of 0.
* Nothing makes an external id unique, so an import run twice at once doubles its tasks
  (`E/routes/migrate.py:19-20`, "skips duplicates"); imported `bd-N` collide with minted ones; a
  node that creates tasks and runs again creates them again.
* An import never creates an initiative: `created_at` has neither a value nor a default, the
  statement fails and the import goes on without (`migrate.py:127` and
  `services/pdlc-engine/tests/test_integration.py:1131-1133` say it does). An event whose row
  raises is marked as seen and never comes.
* Probes leave the organization's extra headers out ("the same egress path",
  `E/routes/admin/models.py:658`); a saved test that finds no key, no provider or no model leaves
  the old chip; edits clear none. `probe_allowed` counts per process and without a lock.

## What is proved

For every set of threads, handlers and gate ids, any number of interrupts, runs and restarts, and
both checkpointers, from `TurnRuntimeAssumption` alone:

* `TypeCorrect`: `TypeOK`, with `HandlerInv`. Types are not inductive by themselves: that a turn's
  new position is a checkpoint needs that a handler at work has a thread, that it carries a gate
  whose record exists, and that a parked checkpoint has work left. `HandlerInv` says this.
* `VerdictsReachTheirQuestions`, `QuestionsAreAnsweredOnce`, `OneQuestionIsCurrent` and
  `SupersededStays`, from the inductive invariant `AnswersInv` (`AnswersAreRight`). The argument:
  as long as a thread is trusted, at most one handler is at work on it (`Serial`); marking the
  record closes the thread's only open one, so that nothing is open while a turn is at work
  (`NothingOpenAtWork`); the turn works from the latest checkpoint (`WorksFromLatest`), still
  parked on the interrupt whose record it carries (`AnswerIsForPause`); and the interrupts that
  consumed an answer lie behind the thread's position, strictly so while one can still be asked or
  answered (`FedIsPast`). The last is what excludes a second answer: a turn that raises *after*
  its interrupt consumed the answer leaves the thread parked on it, with no record.
* `StoreIsRight` and `FrameIsRight`: `StoreMatchesCheckpoint` and `FrameMatchesCheckpoint`. Both
  speak of a thread at rest, and the turn publishes in several steps, so `RestInv` carries them
  through the turn: the store is right from the moment the turn has written it, the frame once it
  is published, and both stay so until the thread's next request.
* `EngineConverses`: the safety of `ImplementsConversation` (its initial states and steps; `None`
  must not be a question, `NoneIsNoQuestion`). Beyond the invariants above it needs that runs are
  counted within their bound (`RunsAreCounted`), that past the resume a carried answer was used
  (`CarriedIsUsed`), and that a thread whose turn came to grief offers nothing to answer
  (`StuckOffersNothing`): `TalkInv`. Then what a client sees of a thread is a function of where
  its handlers are (`WorkView`, `RestView`, `LostView`), a handler moves no thread but its own,
  and there only the resume, the failure and the end of a turn show: they are `Use`, `Break`, and
  `Ask` or `Finish`.

For every set of emitting threads, any queue, batches, budgets and months, from
`ClickstreamAssumption`:

* `ThresholdsAreReportedOnce`: `AlertedOnce`. It is not inductive, since it does not say why the
  drain thread may report what it holds. `OnceInv` adds that (`ReportsAreItsOwn`): whatever the
  thread is about to report is in the ledger and was not reported, and nobody else can report it,
  because another worker's insert returns only thresholds that were not in the ledger. A restart
  in between loses the report, never repeats it.
* `OldestGoFirstAlways`: `OldestGoFirst`, an action property. The invariant behind it,
  `RoomWasMade`, says that a thread which has made room, and whose room nobody took since, finds
  some at its second attempt. (One that was overtaken may have to give its own event up; the
  property says so.)
* `AlertsAreEarnedAlways`: `AlertsAreEarned`. Spend, month and budget change between the
  evaluation and the insert, so the invariant (`EarnInv`) speaks of the insert's arguments too:
  whatever is in the ledger, or about to be, is earned by what its month has spent and some budget
  that has been in force. It is kept because the spend of a month, and with it the sum of the
  months since, only grows (`SpentGrows`, `LandAdds`, `EarnedStays`).

For every set of environments, production names and seeds, any number of commands and breaks
anywhere, from `LifecycleAssumption` alone:

* `ShipmentsAreAgreed`: `ShipsAsAgreed`. Three of its conjuncts need more than they say. That what
  `execute` finds approved was approved *in this run* (`ApprovedHere`) holds because no path
  reaches `execute` around the gate, which writes the flag a previous run left, whatever the
  verdict. That versions are new needs that a run ships once (`ShipsOnce`) and that the state's
  version is the last one shipped, behind it in the meta graph's copy `kept` while a subgraph is
  under way (`VersionsGrow`). That production is out of reach needs that neither copy of the
  state, nor a shipment about to begin, names it (`TargetsAreSafe`).
* `NightShiftIsTrue`: `NightShiftKeepsItsWord`. `night_shift_active` is true in the runs of the
  night shift and in no other (`ShiftIsOne`), and past the contract such a run has one; whoever
  can still report success has merged, deployed and passed (`ShiftHasShipped`).

Both follow from the inductive invariant `LifeInv` (`ProjectProofs`). Most nodes touch nothing it
speaks of; one lemma covers them (`QuietKeeps`), and each of the others has its own.

For every set of tasks, any plans, runners' verdicts and number of builds, from `BuildAssumption`:

* `HumansAreHeardAlways`: `HumansAreHeard`. That the k-th answer on file is for the k-th panel of
  the walk is not in the state: a pause wipes the walk out. The inductive invariant (`IInv`)
  therefore says what a replay will find: the answers on file are to the panels of the build's
  hard tasks in the order of the walk (`AnswersHold`), the walk has taken as many as it has panels
  behind it (`Taken`), and what it holds of its open task is what the runner would say again
  (`OnTask`). `TestsHold` does the same for the test layers, `QuestionsDiffer` follows by counting
  panels. Where the runner is not a function of its arguments this is false; the property names
  that condition.
* `WavesAreRightAlways`: `WavesAreRight`. Both halves are about an algorithm that runs inside one
  node: the recursive search `level`, with its memo and its guard against cycles. That it ends for
  every relation is a lexicographic measure that each of its steps lowers, by well-founded
  induction; that it orders is an invariant of its stack and memo; that every task is walked
  exactly once holds for cyclic relations too, since every listed task gets some wave and the
  waves are read off one after the other. The hypothesis `AnnotationClimbs` is about plans whose
  tasks all carry a wave: the code believes those without a look at the dependencies, and a client
  may seed a wrong one. Of annotations that the engine makes itself it is the lemma
  `PlanAnnotates`; of the plans TLC runs it is an assumption `MCBuildLoop` states and TLC
  evaluates.
* `ReplaysLeaveNoTrace`: `ReplayLeavesNoTrace`. While the loop runs, the lists of the walk are
  those of its first `i - 1` tasks and nothing else, plus the attempts of the open one
  (`Through`), and the subgraph's state is what preflight seeded (`Seeded`), whatever an earlier
  build left there; after the node returns the state is the walk's end (`LeftBehind`). Together:
  `TraceInv`.

For every set of turns, branches and bounds, from `CheckoutAssumption` and `NoneIsNothing` (a
clone that is not there is no clone):

* `MergesAreTrueAlways` and `ClonesKeepApartAlways`: `MergesAreTrue`, `ClonesKeepApart`. Nothing
  locks a clone, so an invariant about what a turn finds in it has to say who else may be there. A
  turn that is alone in its clone (`AloneIsAlone`) is followed command by command, from what it
  fetched to what it deploys (`TurnsAreSound`, `RecordsAreTrue`); of the others it is enough what
  their commits carry (`CarriedWasAsked`: a feature reaches a clone's main, or the remote's, only
  when its merge was asked for) and which wreck they may leave, and for whom (`WrecksAreKnown`).

For any number of requests, turns, frames and breaks, from `DeliveryAssumption`:

* `ViewStaysRight` and `AnswersArrive`: `ViewIsRight`, `AnswersFindTheirGate`. The invariant has
  one part per place a turn's outcome can be in: on its way in a request (`RequestsFit`), in the
  worker (`WorkerFits`), in the history and the socket's buffer (`WireFits`), in the page
  (`ViewFits`, `PendingFits`); `Arrives` says which of them still has what the page lacks, and
  `LeftFits` what a page that has gone elsewhere may still hear of the thread. What all these
  places hold was true when it was told, and the server moves on: `Told` (of the newest turn, its
  gate) and `Known` (a gate the API has a record of, or had before its last restart) are
  kept by whatever the server does (`Moves`, `Serves`), since it tells nothing else.

For any number of callers, any chain and lifetimes, from `FailoverAssumption`:

* `AttemptsStayInOrder`: `AttemptsAreInOrder`. `Sound` says of each completion what the code need
  not check since its control flow got it there: no word was said by a candidate that is left, and
  the error that led to a fallback was retriable. The breaker's keys need only their types: the
  promise holds whatever Redis answers or fails to answer.

For any number of processes, names and times to live, from `CachesAssumption`:

* `ServedIsCurrentAlways`: `ServedIsCurrent`. The invariant adds what makes staleness add up: the
  age of a cached value and the time its entry has left are together at most a time to live
  (`EntryTrue`), a value about to be stored was in force this very tick, and one in use less than
  a time to live ago (`LookTrue`). In the process that wrote it is the committed one, unless the
  invalidation is still to come or the write was one that does none (`Accounted`).
* `QuotaBindsAlways`: `QuotaBinds`. Calls were admitted under quotas that differ per process and
  moment; `Witnessed` keeps, for the count of the minute, a limit that admitted so many and was in
  force since a time to live before the minute began.

For any number of admins, scrapers, tests and acts, from `ProbesAssumption` and
`RequestsAssumption`:

* `TestsAreTrueAlways`: `TestsAreTrue`. That a chip is true must already be known of the test that
  will leave it: between its read of the configuration and the chip (`JobIsTrue`) it was made with
  what calls use, unless the rows were edited meanwhile. The limiter has no lock: a request reads
  the list and writes it back, so an admission may be missing from the list, and from the copy a
  thread is about to write, only because it is old or because one of the overlapping requests wiped
  it (`LimiterHolds`); the list itself is never longer than the limit.
* `ReadyIsRecentAlways`: `ReadyIsRecent`. `ReadinessHolds` says when a check or a cached answer can
  contradict the database at all: only if it was begun before the database last changed.

For any number of turns, projects, plans and imports, in the dictionary and in the database, from
`StoresAssumption`; the inductive invariant is `RecordsHold`:

* `PlansHoldAlways`: `PlansHold`. That a plan is whole needs that its rows stay as long as its
  project does (`MadeHolds`), that a minted number is at most the next (`RowsHold`), and why each
  edge is there (`EdgesHold`). Ids are counted, not drawn from a sequence: if a row has the number
  a turn has drawn and not yet inserted, the turn that wrote it overlaps with it. In the dictionary
  the counter gives no number twice (`DictHolds`).
* `TalkIsKeptAlways`: `TalkIsKept`. The number a turn has read and not yet written is above every
  number in the thread but those of turns that overlap with it (`NumbersHold`); whoever still runs
  in a dropped project was cut off by the deletion or came after it (`CutsHold`), and only these
  leave rows behind.

For any finite sets of events and imports, any ids and documents, from `WorkspaceAssumption` and
`StartsAssumption` (a start has rows that refer to rows, none of them half made); the inductive
invariant is `WorkspaceInv`:

* `EntitiesHoldAlways`: `EntitiesHold`. A repository's token must be in the secret store before
  its row is, where a backend keeps one (`TokensKept`), and two applications of one name must be
  traced to imports that overlapped while both are still drawn and not inserted (`TwinsHold`,
  `MeetsHold`).
* `ImportsAreKeptAlways`: `ImportsAreKept`. An event is marked as seen before it is there, so what
  an import skips is there, is about to be added, or was marked by an import that failed
  (`SeenHolds`), where analytics are not in PostgreSQL; there none is ever added (`NoneLand`),
  which the property states as well; whoever adds the same event overlaps (`EventsHold`); between
  its two counts an import has added exactly what the store has grown by, unless others added too
  (`NumbersHold`); what a document shows was written by the import or a later one (`FilesHold`).

For any number of admins, scopes, providers, transactions and kept versions, from
`ConfigStoreAssumption`, `RowAssumption` (a row is not `None`), `SeedsAssumption` (a seed is a state
the routes leave behind) and `DocumentsAssumption` (a document passes the importer's validation);
the inductive invariant is `ConfigInv`:

* `KeysStayHomeAlways`: `KeysStayHome`. A key is with its provider not only in the rows but in what
  every open transaction is about to write and in the history it may roll back to (`ShapesHold`),
  and likewise no fallback bills the operator as long as no key was lost (`NobodyElsePays`). A
  row's own key is at home in the scopes whose provider was not changed under it; a transaction
  that is planned does not know whether it will do that, only its commit does (`KeysHome`). That
  an export imports as what it was, or is refused for a typed key it left out, is a fact about
  rows whose fallbacks' keys are at home.
* `DiffsAreTrueAlways`: `DiffsAreTrue`. The console shows the difference between a version and the
  *next* one, so the history of a scope must be a chain: each version's row is the prior row of the
  next, the last one's is the live row (`HistoryTrue`). A commit appends one link and the
  retention removes from the other end: what goes is closed downwards. For that, a transaction
  alone with its scopes must know their prior rows, be later than all of their versions, and both
  until it commits (`AsksTrue`); two open transactions with a scope in common are among those the
  property excuses (`Apart`). What a listing has read is itself a chain, and its end is the live
  row or there is a later version by now (`PagesTrue`).
* `EditsKeepKeysAlways`: `EditsKeepKeys`, an action property: of the steps only the commit of a
  request touches the rows, and what it writes over an own key it did not ask for is the key that
  is there *then*, not when it was planned (`OwnKeysKept`). A fallback's key is the one that was
  there when the chain was read (`KeyJob`), so it is kept unless the chain was replaced since
  (`FallbackKeysKept`).

Only model-checked:

* every liveness property (`CallsEnd`, `BuildsEnd`, `NightShiftEnds`, `CrossingsAreRecorded`,
  `AcceptedAnswerIsUsed`, `LockoutEnds`, `CatchesUp`, `StatusCatchesUp`) and the liveness half of
  `Conversation`'s refinement: the prover knows neither fairness nor ENABLED.

Every invariant and every action property that a run checks is a theorem.

What shaped the models the proofs are about: the provers cannot use the library's theorems about
an operator given as a parameter, and so neither `SelectSeq` nor an induction over one. Where the
code filters a list, or sums one, the model says it by a recursive function (`InListOrder`,
`SpentSince`), and an induction is over a set, by the well-foundedness of `<` on the naturals
(`Induct`). A table whose rows are deleted in the middle is a function from places, not a sequence
that is filtered (`Stores`), and a row whose keys are replaced is built by an operator that takes
the replacement (`EachKey`). A proof module about two models holds their theorems one after the
other; the models share no variables, only `None`.

## Not modelled, and why

* Building LLM clients, presets, price tables, tier maps and cost sums (`E/llm/factory.py`,
  `presets.py`, `E/routes/admin/pricing.py` beyond `put_budget`): look-ups in constants; what they
  are given (which provider and whose key) is modelled.
* Prompt texts, personas, document and diagram rendering, markdown and visual exports: formatting.
* Party meetings: an LLM's text per speaker, recorded; their turns follow a list.
* Evals and tracing: offline, or decoration of calls that are modelled.
* Authentication, row-level security, OIDC and roles: one decision per request, from one token; the
  models start where a request is allowed. Tenants appear only where state is shared
  (`TenantCaches`, `Probes`).
* Listings, reports, dashboards and analytics queries: reads.
* The migration tool's reading of a repository (`tools/pdlc-migrate/pdlc_migrate/scan.py`): what
  it posts, and that it posts it again, is the input of `Workspace`.
* Artifact keys, versions and signed URLs of the object store; deployment descriptors (Helm,
  Compose).
* What commands of the operator do (tests, scanners, deploy): any outcome.

## Left to do

Models: the object store's artifact versions, and the meetings if they come to share state. Proofs:
none of the properties above but the liveness ones, which wait for a prover that knows fairness.
