# SilkRoute in TLA+

Models, checks and proofs for `src/` (ScientiaCapital/silkroute): an AI agent
orchestrator whose daemon takes tasks from a Redis queue, whose supervisor runs
multi-step sessions kept in Postgres, and whose research engine keeps or reverts
commits of a git branch. All modules are written from the source; line numbers
are in `PROJECT.json` (`map`).

## 1. The system

| Part | State it keeps | Operations | Interacts with |
|---|---|---|---|
| Task queue (`daemon/queue.py`) | Redis LIST, HASH, two counters; local shadows of the counters | submit, consume, record_result, drain, init_counters | every process that builds a `TaskQueue` on the same Redis |
| Daemon (`daemon/server.py`, `worker.py`, `lifecycle.py`) | worker tasks, shutdown event, open connections, PID file | start, client connection, stop, drain, shutdown | queue, scheduler, agent loop |
| Scheduler (`daemon/scheduler.py`) | APScheduler jobs | nightly scan, Ralph cycle, research cycle | queue, supervisor, research engine |
| Task API (`api/app.py`, `api/routes/tasks.py`) | its own `TaskQueue` object | POST /tasks, status, result | queue |
| Supervisor (`mantis/supervisor/`) | a row per session; each run's copy of the plan, its context and its `BudgetTracker` | create, run, retry, time out, checkpoint, resume, cancel | Postgres, child runtimes |
| Ralph (`mantis/supervisor/ralph.py`) | none of its own | cycle: ask the budget, take up to 3 tasks, run each as a session | queue, supervisor, cost books |
| Orchestrator (`mantis/orchestrator/`) | plan, shared `BudgetTracker` | decompose, allocate, run stages, aggregate, stream | decomposers, child runtimes |
| Decomposers (`mantis/orchestrator/*decomposer.py`) | LRU cache of LLM plans | keyword split, LLM plan, fall-back | orchestrator, LLM |
| Context manager (`mantis/context/`) | entries in order, a token account | set with eviction, snapshot, restore | supervisor |
| Agent loop (`agent/loop.py`) | session, stream queue, pending DB writes | iterate, call tools, stop | providers, DB, stream consumers |
| Tools, sandbox, MCP bridge, skills (`agent/tools.py`, `agent/sandbox.py`, `mcp_bridge/`, `mantis/skills/`) | a registry per run, one sandbox per process, open server connections | register, mount, offer, parse, dispatch, export | files, processes, HTTP, MCP peers |
| Classifier and router (`agent/classifier.py`, `agent/router.py`, `providers/models.py`) | the table of models | classify, select, resolve transport, base and key | agent loop |
| Memories (`agent/memory.py`, `db/repositories/memories.py`) | rows per scope | remember, recall, forget | agent loop, Postgres |
| Cost books (`db/repositories/`, `agent/cost_guard.py`, `api/routes/budget.py`, `projects.py`) | projects, cost rows, two rolled-up tables | log, rollup, backfill, gates, pages | Postgres, scheduler |
| Pools (`db/pool.py`, `daemon/redis_pool.py`) | a singleton | get, close | every coroutine |
| Migrations (`db/migrations.py`) | `schema_migrations` | list, run | Postgres |
| Live demo (`api/routes/demo.py`) | a semaphore, a queue per stream | admit, stream, time out, clean up | agent loop, clients |
| Research engine (`autoresearch/engine.py`) | git branch, ledger, playbook, pending commit | propose, evaluate, keep, revert | git, LLM, target |
| Self-healing room (`autoresearch/heal.py`, `playbook.py`, `targets/room_health.py`, `demo/mock_epiphan_mcp.py`) | a room, a playbook | score, edit, detect, act, verify | research engine, MCP server |
| Settings, CLI, read routes, dashboard, scripts | - | reads and pass-through | - |

Hard behaviours, and where they bite (the full list, line by line, is
`hazards` in `PROJECT.json`):

* queue and daemon: every method is several Redis commands with awaits in
  between, two processes share the list, BLPOP takes a task away before it has
  run, a Redis command may raise after it took effect, shutdown must order four
  things (scheduler, socket, drain, workers);
* supervisor: nothing locks a session, runs and cancels overwrite the whole
  row, a run can die between two checkpoints, a step can time out in the middle
  of a retry;
* orchestrator: concurrent sub-tasks reserve from one budget and a stage
  timeout cancels some of them;
* agent loop: a bounded stream queue with a sentinel, several early returns;
* research engine: a timeout or a crash between the commit, the ledger and the
  memory write;
* around them: singletons that several coroutines create and close, migration
  runners and daemon processes that look at shared state and then act on it,
  a stream whose client, agent and timer end in any order, a tool server that
  dies between a heal and its verification, a process-wide sandbox that every
  run sets, a cycle that takes three tasks off Redis before it runs the first,
  a page whose figures are read one after the other while calls are logged.

What makes each part correct: **queue** - FIFO, at-most-once, bounded backlog,
honest counters; **daemon** - nothing submitted inside it is dropped silently,
shutdown ends; **supervisor** - dependencies respected, no step stranded, the
row consistent with itself, the budget overshot by at most one step, every run
ends; **orchestrator** - reservations never exceed the budget, every reservation
settled once, dependencies before dependants; **agent loop** - every stream
ends; **engine** - the branch and the ledger agree on what was kept;
**decomposers** - every word of the task in one sub-task, in order; **context** -
an exact account, and no entry given up without need; **tools** - every call
answered, a refused one without effect; **router** - the tier asked for, with the
key that its transport takes; **memories and books** - the best of what was
said, never more than what was spent; **pools, migrations, daemon files** - one
pool, each migration once and in order, one daemon; **live demo** - no slot lost
or doubled, one ending frame; **room** - what is reported healed is healthy.

## 2. Modules

| Module | Models | Notes |
|---|---|---|
| `TaskQueue` | the Redis commands of `TaskQueue`'s methods, one operator each | no Next of its own: the callers take the commands step by step |
| `Daemon` | the daemon process, the API process, their submitters and workers around one `TaskQueue` | EXTENDS `TaskQueue` |
| `TaskLedger` | what the queue promises: one FIFO pass of every request | abstract specification |
| `DaemonProofs` | theorems about `Daemon`, that it implements `TaskLedger` among them | |
| `Supervisor` | one session row, the coroutines that run it and those that cancel it | |
| `SupervisorProofs` | theorems about `Supervisor` | |
| `Orchestrator` | one invoke or stream: stages, shared budget, timeouts | |
| `OrchestratorProofs` | theorems about `Orchestrator` | |
| `AgentLoop` | runs of `run_agent` on one project, with the DB and the stream queue | |
| `AgentLoopProofs` | theorems about `AgentLoop` and `ModelRouter` | |
| `ResearchEngine` | sessions of the research engine over a git branch | one run checks it directly, one within `MCServices` |
| `KeptBranch` | what the engine promises of its branch and its ledger: one candidate at a time, judged once, kept or not | abstract specification |
| `ResearchProofs` | theorems about `ResearchEngine`, that it implements `KeptBranch` among them, and about `RoomHealth` | |
| `Pools` | `get_pool` and `close_pool` of the singleton | |
| `Migrations` | runs of `apply_migrations` on one database | |
| `DaemonLife` | the PID file, the socket file and the heartbeat of several daemon processes | what a process does with its queue is `Daemon`'s |
| `InfraProofs` | theorems about `Pools`, `Migrations`, `DaemonLife`, `Toolbox`, `LiveDemo`, `ToolHandlers` | |
| `LiveDemo` | `GET /demo/stream?live=true` for several clients | |
| `Decompose` | the three decomposers, the LLM's with parser and cache | |
| `ContextStore` | `ContextManager` | |
| `Ralph` | cycles of `RalphController` beside the daemon's workers | |
| `ServiceProofs` | theorems about `Ralph`, `ContextStore`, `Memories`, `CostBooks`, `Decompose` | |
| `CostBooks` | projects, cost rows, rollups, the budget page and gate | |
| `Memories` | remember, recall, forget | |
| `ModelRouter` | task to model, transport, base URL and key | |
| `Toolbox` | registries, mounted servers, the sandbox and the tool calls of concurrent runs | |
| `ToolHandlers` | one tool call: parsing, checks, deeds, answer; paging and search | |
| `RoomHealth` | mock room, playbook, its score, and the heal cycle | |
| `Tally` | a sum as the size of a set of units | used wherever the code adds up costs or tokens |
| `Sums` | lemmas about `Tally`, on counting and on least numbers | used by the proofs |
| `MCDaemon`, `MCSupervisor`, `MCOrchestrator`, `MCAgentLoop` | constants and symmetry for TLC | |
| `MCServing` | `Orchestrator`, `LiveDemo` and `Pools` for TLC | EXTENDS `MCOrchestrator` |
| `MCServices` | `ResearchEngine` and the other small components for TLC | |

`MCServing` and `MCServices` put components with no common variable into one
run. The variable `running` names the one that moves in a behaviour, and the
others stay parked in an initial state, so the state space is the sum of the
components' and not their product, and each keeps its own Init, Next and
fairness.

The modules stand side by side as the processes do: `Daemon` sees of an agent
only that it may return or not, `Supervisor` and `Orchestrator` see of a child
its status and its cost, and `AgentLoop` is what is behind all three.

Where the code adds up (`sum(...)`, `SUM(...)`, a running total), the models use
`Tally!Total`: the sum of `f` over a finite set is the number of pairs of an
element and a unit it has. It is the same number as a fold's, and the lemmas of
`Sums` about it (one element changed, added or taken away; one sum below
another) follow from those on cardinalities, where a fold would need induction.
For the same reason "the first one that ..." is a choice of the least place:
the first best model of a list, the first rule of a playbook that matches.

### TaskQueue and Daemon

A step of `Daemon` is the code between two awaits: `submit` is `SubmitCheck`
(LLEN against maxsize), `SubmitPush` (RPUSH), `SubmitCount` (INCR);
`worker_loop` is `WorkerCheckEvent`, `WorkerPollTimeout` or `WorkerPop`,
`WorkerRunAgent`, `WorkerStore` (HSET), `WorkerCount` (INCR); `shutdown` is
`ServerCloseFrontDoor`, `ServerDrainRead` (LRANGE), `ServerDrainDelete` (DEL)
and one of `ServerWorkersDone` and `ServerCancelWorkers`. A request is a pair
(submitter, number) in place of its uuid; its content never matters. The list
is a sequence, the result hash the set of ids it holds. `accepted`, `starts`
and `lost` are history variables: what was ever pushed, how often each request
reached `run_agent`, and what died with its holder.

Faults: the daemon is killed, the API process restarts, a Redis command raises
before or after it took effect (`SubmitFails`, `WorkerFails`,
`ServerDrainFails`). A worker that meets a Redis error is dead for good, as in
the code.

### Supervisor

`row` is the session's row, with the checkpoint as a field. `Save` (the last
UPDATE of `_run_session`) writes status, plan, context and cost; `Checkpoint`
writes checkpoint and cost only; `CancelRead` and `CancelWrite` are
`cancel_session`'s SELECT and UPDATE of all it read. Each runner has its own
`plan`, `context` and `spent`, as each request builds its own objects. The loop
of `_run_session` is `SkipStep`, `BudgetGate`, `StartStep`, `LeaveLoop`;
`_execute_step` is `ChildSucceeds`, `ChildFails` (then `RetryAgain`), `GiveUp`,
and `StepTimeout`, which may interrupt an attempt or a backoff sleep.
`StepRefused` is the child factory or the step's config raising before any
handler: the run ends and writes nothing. A crash
ends every runner and leaves the row. The context keeps of each step's entry
the status, which is what a `<id>.status == completed` condition reads.

The model simplifies: conditions are of that one form; costs are whole units;
`checkpoint_enabled` is on; memory recall, which only adds text to the context,
is left out. A step's cost is arbitrary up to `MaxCost`, so a child may exceed
the budget limit it was given, as a child's own loop can by one call.

### Orchestrator

Money is in cents. `plan` is what a decomposer returned; `SubTasks` cuts it to
`max_sub_tasks`, `Allocated` is `allocate_budget`. `PlaceWave` and
`ComputeStages` are Kahn's loop in `OrchestrationPlan.stages`, run before
anything starts, and refuse a cyclic plan; `BeginStage` .. `EndStage` run its
waves one after the other. Within a stage, `StartSubTask` reserves (or
`RefuseSubTask`, or `FactoryRaises`, which is outside every handler and ends the
invocation while the others run on), and `ChildReturns`, `ChildRaises` settle.
`StageTimeout` cancels what runs, `CallerCancels` the whole invocation. A child
may cost more than it was given, by up to `MaxOverrun`. Simplified: outputs are
left out; no `RetryMiddleware` is ever in the chain, so the retry loop runs
once; `max_iterations` is positive, so validation never rejects a sub-task.

### AgentLoop

`Callers` call `run_agent` again and again on one project. `pc` names the await
a run is at. `CreateSession`, `ReadSpend`, `Admit`/`Refuse`, `CloseRefused` are
the part before the loop, and `DbInitFails` its two handlers, which drop the
pool and go on whatever was being done. An iteration is `CallLLM`, then
`FinalAnswer`, `ToolCalls` and `ToolsDone`, `LLMFails` or `LLMMalformed`; its DB
writes go into `updates` and `logs` and end by `UpdateEnds` and `LogEnds` in any
order, with effect or without. `Flush`, `CloseSession` and `PutSentinel` follow
the loop. `Push` is `put_nowait`, which drops; the sentinel's `put` waits.
`ConsumerLeaves` and `CallerCancels` cancel a run where it waits: the writes it
waits for in `gather` die with it, those of a run in its loop go on. A caller
calls again when the writes of its last run have ended, which bounds the model.
The daily cap and the hourly breaker look at other spans of time than the
month, and refuse freely.

### ResearchEngine

An experiment's edit is its number and a tree is a set of edits; `branch`,
`staged` and `unstaged` are git's state, `ledger` is `results.tsv`, `cache` the
tree whose evaluation the target remembers. A step is the code between two
awaits: `BeginExperiment`, `Commit` (the answer of the LLM, applied and
committed), `Keep` or `Discard` (the answer of the evaluation), `Remembered`.
`TimesOut` and `Raises` run the handler: `HandleFailure` with `Rollback`, which
resets only a candidate that is HEAD, the crash row and the counter; `Handled`
is its memory write and the breaker. `CommitFails` (`git add`, or `git commit`) and `RollbackFails` are git
commands that raise; `git checkout .` runs without `check=True`, so
`RevertIfDirty` may leave the edits without a word (`engine.py:468-472`); `Kill` is a kill at an await or inside the commit. A new
session starts from what the last one left. Not modelled: scores (keeping is a
free choice), errors of the ledger's file, `rev-parse` failing right after a
commit, kills inside the other synchronous sections. `--experiment-timeout` is
taken as positive.

`BranchSpec` is the engine's promise, `KeptBranch`, under the refinement mapping
that takes the branch without the commit that is being judged for the trunk, that
commit for the candidate, and the ledger for the verdicts. It has no git, timeout
or kill: what they can do to a reader is its `Abandon` (no verdict) and `Withdraw`
(a kept commit taken back straight after its verdict, see section 3).

### Pools, Migrations, DaemonLife

`Pools` is the double-checked lock of `get_pool` (`PoolGet`, `PoolEnter`,
`PoolCreated`, `PoolFailed`), cancellation in the wait or in the creation, and
`close_pool`, which takes no lock (`PoolClose`, `PoolClosed`). asyncio's lock
wakes its waiters in order, so the line is a sequence.

`Migrations` takes a runner through `MigList` (the one read of
`schema_migrations`), then `MigExecute`, `MigInsert`, `MigCommit` for each
pending file; `MigFail` is an error or a dead process at any of them. The
primary key is the guard of `MigInsert`: it waits for another transaction that
holds the same key, and fails on a committed one.

`DaemonLife` has a step for each system call on the PID file or the socket file,
and a kill after any of them. The processes may be of several users:
`LifeMaySignal` says who may signal whom, and `_is_process_running` takes a
process that it may not signal for a dead one. `lifeUnseen` remembers that two
processes were at the files at once, because check and write of the PID file are
not one step, or that a live daemon of another user was overlooked; `LifeSafe`
speaks of the behaviours where neither happened. A failed heartbeat
task raises out of `heartbeat.stop` and ends the shutdown there
(`LifeStopBeat`), so the PID file stays, which the next start finds stale.

### LiveDemo

A request waits up to a second for one of the semaphore's slots (`LiveAdmit`,
`LiveBusy`), starts `run_agent` as a task, sends the first frame and enters the
try block (`LiveTaken`); a client that leaves before that leaves the agent
running without a slot (`LiveLeaveEarly`). The agent's events come from
`LiveIterate`, `LiveConclude`, `LiveRunOut`, its sentinel from `LiveAgentEnds`;
`LiveAgentBreaks` is an agent that raises. `LiveRead` makes the frames, the
timeout and the client's departure lead to the cleanup, which waits for the
agent and gives the slot back (`LiveEnd`). The scripted replay and the heal
stream of the same file are left out.

### Decompose, ContextStore, Memories

`Decompose` has `_split_compound` over texts of words and separators (`DecSplit`;
a longer separator cut at a shorter one leaves a piece of itself), the chain of
`KeywordDecomposer`, and `LLMDecomposer` with `_parse_response` (`DecParse`),
the LRU cache and the fall-back. A sub-task is the set of places of the text
that it holds: every place is numbered with the cell that it falls into, and the
parts are the cells that hold a word. The cache, an `OrderedDict`, is the
function from its keys and the relation "entered before" between them;
`decUsed` and `decLast` are history, what was asked for and in which order last.

`ContextStore` is `set` with the eviction it ends with, `snapshot`, `restore`,
`from_legacy_dict` and `to_legacy_dict`. The dict is a function and the relation
between its earlier and later keys, so an eviction is a set of keys that nothing
left behind precedes; a JSONB column gives a dict back in the
order of its keys (numbers in the model), which is not the order of insertion.

`Memories` is `remember` (cut to 500 characters, upsert with GREATEST), the
recall query with its order and limit, the token budget of the prompt, and
`forget`. `memGiven` is history.

### Ralph and CostBooks

`Ralph` is one cycle at a time beside submitters and workers of the same queue:
`RalphGate`, `RalphTake` (one `consume`), then the execution of each plan and the
ways a cycle breaks off. What it took is in memory only. A plan's session is one
step, `Supervisor` has its inside. Its children get a config without the project
(`orchestrator/runtime.py:265-269`), so every session of Ralph's is paid by
"default", whoever's task it runs, where a worker's run is paid by the task's own
project. A cycle that breaks off in a session has paid what that one spent so far
(`RalphAbort`). `RalphOverrun` is what a session may cost above its budget, its
retried attempts, which no tracker has, included. Tasks of a project without a
row (the scans' project "scheduler" for one) make the session's INSERT raise.

`CostBooks` has a statement per step: calls logged, rollup of a day's totals,
then of its models, backfill, deletion of projects, and the budget page, whose
figures are read one after the other. `bookJob` is the nightly job between its
two statements.

### ModelRouter, Toolbox, ToolHandlers

`ModelRouter` holds the table of models with what routing reads of it, and the
cascade of `select_model`; a request is the trigger lists and capabilities its
text matches, the environment the proxy's switch and the keys that are set. All
of them are enumerated.

`Toolbox` builds the registries of concurrent runs: the built-in tools and the
sandbox global (`ToolCreateRegistry`), each MCP server (`ToolConnect`), the
catalog (`ToolOffer`); then the calls of each iteration. A cancelled run closes no
connection (`ToolCancel`).

`ToolHandlers` writes each handler as its sequence of checks, which only read,
and deeds, each with the way it fails; any set of them may fail. `Execute`
is the registry's call, `DispatchTool` the MCP server's. `PageRead` is the
paging of `read_file`, with the cut at 20,000 characters (`fits` is how many
whole lines those hold), `GrepBlock` the lines around a match, and the
search of `search_grep` is taken line by line (`HandSearch`, `HandLine`,
`HandFound`), with its stop at the limit and its silent skip of files that are
binary or cannot be opened (`HandSkip`); all are checked against what
their parameter descriptions say, a page up to the cut that it announces, a
search on the files that it can read.

### RoomHealth

The mock device's faults and actions, `read_signals` with its healthy defaults,
the playbook's rules, the score against the fixtures (pass rate, fault types,
lint; exact numbers where the code has floats), and the heal cycle (`SpawnMock`,
`Detect`, `Act`, `Verify`) with a tool server that dies at any step (`MockDies`).

A rule is an id, an action and `when`, which gives some signals the set of values
that satisfy their condition; so any condition can be written, and one on a
signal that does not exist. A file has rules (malformed ones among them), or
loads as nothing, or raises. The LLM may write any file of `RoomPlaybooks`
within the limit on the diff (`WriteCandidate`), and `Judge` keeps it for a
higher score, or for the same one in fewer lines (`ShouldKeep`). A heal cycle
runs on the file as it lies there, judged or not.

`HealingSound` has three parts. What is reported healed is healthy, while the
tool server answers. A fault is cured if one of its fixtures passes *by the rule
that decides in the mock's room* (`sure`): the perfect score alone does not
promise it. And a file that is kept remediates no fewer fixtures than the one
before, or one fewer when it repairs the lint, whose 63 points of 630 are more
than a scenario's 42.

## 3. Runs

| Run | Question | Bounds | Size |
|---|---|---|---|
| `daemon_safety` | `QueueSound` (types, at-most-once), counters, the daemon's own requests, and `LedgerSpec` | 1 connection, 1 cron job, 1 API handler, 2 workers, maxsize 1, 1 request each, 1 fault | 3.1M states |
| `daemon_backlog` | how far the backlog passes maxsize | 1 connection, 1 API handler, 2 requests each, limits 1 and 2, 1 worker, no fault | 0.8M |
| `daemon_liveness` | `ShutdownCompletes`, `QueuedIsServed` | as `daemon_safety` without the cron job | 10^5 |
| `daemon_drain_gap` | **violation**: drain deletes what it does not return | no faults | - |
| `supervisor_safety` | what the row may hold: `SessionSound` (types, and a final status that its plan supports), `NoStepStranded`, `OrderRespected`, `SpendBounded` | 2 runners, 1 canceller, 2 steps of which the first waits for the last, 1 retry, 1 crash, 1 DB error | 2.3M |
| `supervisor_solo` | `CompletionStands`, `RunEnds` | 1 runner, 3 steps, 2 crashes, 1 canceller | 0.2M |
| `supervisor_resume_gap` | **violation**: resume repeats a step its checkpoint shows completed | 1 runner, 1 crash | - |
| `supervisor_cancel_overwritten` | **violation**: a run overwrites a cancel | 1 runner, 1 canceller | - |
| `agent_loop` | the row, the session's and the project's spend, the end of the stream: `RowTellsSession`, `SessionSpendBounded`, `ProjectSound`, `StreamEndSound` | 2 callers, 1 of them streaming with a queue of 1, 2 iterations, costs 0 and 1, limit 1, project budget 1 | 3.4M |
| `serving` | orchestrator: order, shared budget, reported status and cost, `InvokeEnds`; live demo: `LiveKept`; pools: `PoolSafe`, `PoolServes` | every graph on 3 sub-tasks and a chain of 4 cut to 3, equal and mixed tiers, budgets 2 and 8 cents, overrun 1; 2 streams for 1 slot, 1 iteration; 3 callers, 2 pools | 0.4M |
| `services` | research engine: `BranchTellsLedger`, `CacheFresh`, `BranchSpec`, `SessionEnds`; one property each for the router, migrations, daemon files, tool handlers, toolbox, decomposers, healing, context, Ralph, cost books, memories | below | 0.8M |
| `research_memory_timeout` | **violation**: a timeout takes a kept commit back | 1 session of 2 experiments | - |

Bounds of `services` (`MCServices.cfg`): 2 research sessions of 3 experiments,
breaker at 2, 1 git error; 2 migration runners on 3 files; 3 daemon processes, one of them another user's; 2
agent runs in 2 workspaces with 1 tool server, 1 iteration and a cap of 1 call; 2 files of 3 lines, each readable or not, 3 matches, pages cut after any line; texts of up to 5 words and separators, 3
tasks for a plan cache of 2; 24 playbooks over 13 rules (the shipped ones,
narrowed, widened, pointless, malformed and doubled ones; the first or the last
rule of the shipped file rewritten, files that grow, break and are repaired),
of which the theorem assumes nothing; 3 context keys, 3 sets, 4 tokens; 5 Ralph tasks, one of them of a project without a row, budget 2 per plan with an overrun of 1, daily cap 2, 1
abort; 2 days of costs, 2 calls logged; 3 rows of memory. The router needs no
bound: every request and environment is an initial state.

Why these bounds:

* the races of the queue need two processes, two workers and a full list, which
  maxsize 1 gives with one request each; three submitters are enough to
  overshoot maxsize by two. One fault at each possible point shows what a single
  failure leaves behind, and the next start after it; the theorems lift the bound;
* in the supervisor two runners and a canceller are all the pairs of writers,
  two steps with a dependency and a condition give every step status, the plan
  order against the dependency order tells readiness from position, and a budget
  of one unit with steps of cost one reaches the gate;
* in the agent loop two iterations are enough for updates out of order, two
  callers for a gate that both pass, a queue of one for a dropped event at every
  push; callers return without end, so the project's budget is really used up;
* three sub-tasks give chains, forks, joins and every cycle; a budget of two
  cents makes the one-cent floor exceed the total, eight does not;
* two research sessions show what a kill or a failed reset leaves to the next
  one, three experiments what a failure does between two kept ones;
* three pool callers are one that creates, one in line behind it and one that
  sees the pool; two pools are one closed and its successor. Two runners and
  three files let one runner fail behind the other with something left to do.
  Three daemon processes are a stale file, its finder and a latecomer, who may be
  of another user;
* two streams for one slot make one wait, time out or take over at every stage
  of the other; two agent runs show one's sandbox or tools to the other;
* caches, stores and pages are filled past their limit: 3 plans for a cache of
  2, 3 entries of up to 3 tokens for 4, 3 lines for every window of a page; 5
  Ralph tasks for a cycle that takes 3, so a second cycle finds the rest.

Deadlock is checked except where the system really stops: an orchestration that
is over, the engine after its last session, a migration run, a demo stream.

Each property has a mutant: a definition of the model changed the way a bug in
the code would, in the module beside the definition (`mutants` in
`PROJECT.json`); TLC finds the property violated under each.

### What the violations show

* `daemon_drain_gap` - `drain` reads the list and deletes the key in two
  commands (`queue.py:150-152`); what the API process pushes in between is
  deleted and in no log, though the docstring says drained tasks are returned
  "so they can be logged". Within the daemon the property holds, and is proved
  (`DaemonRequestsAreAccounted`): shutdown closes its own front doors first.
* `supervisor_resume_gap` - checkpoints write `checkpoint_json` only, and
  resume takes the steps' statuses from `plan_json`, so a step completed before
  a crash runs, and is paid for, again. The test that says "Resume from
  checkpoint should skip completed steps." prepares a `plan_json` no crash
  leaves.
* `supervisor_cancel_overwritten` - `cancel_session` answers "cancelled", and
  the run in progress goes on and writes its own status over it.
* `research_memory_timeout` - the pending commit is forgotten only after the
  memory write (`engine.py:313`), which runs under the experiment's timeout; a
  timeout there rolls back a commit that the ledger has as kept, though
  `_record_outcome_memory` says that it "can't roll back real state".
  `KeptUnlessTimedOut`, a part of `BranchTellsLedger`, is what does hold.

### What the models contain that no run is about

Behaviours that a reader of the code may not expect, met while modelling. The
models have them unless it says otherwise, and the properties are stated so that
they hold with them.

Agent and tools:
* a search does not tell which files it could not read (`tools.py:395-397`), so
  its "No matches found" may be about none of them; `read_file` cuts a long page
  and says so (`tools.py:214`);
* a run that the budgets refuse ends without the sentinel that `loop.py:69-71`
  promises, and if `close_session` raises in that place the run goes on as if
  admitted, with its costs unlogged (`loop.py:177,184`); `StreamEndSound` and
  `RowTellsSession` speak of the other runs;
* of the tool calls of an answer only five are run (`loop.py:361`), and the
  surplus ones get no tool message;
* the sandbox is a global that every run replaces (`tools.py:38-41`), so a
  concurrent run's command may get another's workspace; `ToolboxSound` is about
  the run that set it last;
* in proxy mode a model that the proxy does not know is called directly and
  without its key (`router.py:216`); `RouteSound` speaks of the models it knows.

Supervisor, Ralph and orchestrator:
* a session may spend its budget once per resume, since each makes a new
  tracker; `SpendBounded` is about one run and the row it writes. It is also
  about what is recorded: the tracker is charged for a child that succeeded only
  (`runtime.py:389-391`), so what failed attempts cost is in no session's total;
* a step whose runtime type or config is refused ends the run outside every
  handler (`runtime.py:330-336`): the row stays "running";
* a dependency that the API copied names no step (`api/routes/supervisor.py:105`),
  and the run ends with its session "running";
* Ralph's budget is given to each plan (`settings.py:227` says per cycle); a
  task of a project without a row, such as the scans' "scheduler", aborts the
  cycle, and the plans after it are lost; no task that Ralph takes gets a result
  in the queue;
* a child that raises is settled at cost 0, whatever it spent;
* the LLM decomposer caches by task alone, and its plan may make a sub-task
  depend on itself, which the orchestrator's cycle check refuses;
* the keyword splitter drops what stands before the first number of a numbered
  list;
* a restored context is in the order of its JSONB keys, which decides what is
  evicted next.

Daemon, database and API:
* an error in the heartbeat task raises out of its `stop` and ends the shutdown
  there (`server.py:106`, `heartbeat.py:46-53`);
* the daemon builds its scheduler without pool and supervisor settings
  (`server.py:71`): its rollup job gets no pool and its Ralph job is never
  registered. `CostBooks` and `Ralph` model the jobs as given what they need;
* the PID file is removed before the socket, and its check and its write are two
  steps; `LifeSafe` speaks of processes that did not meet there;
* a live daemon of another user reads as not running (`PermissionError`,
  `lifecycle.py:44-45`): its PID file and socket are removed, as far as the
  directory lets the second user, and a second daemon serves. `LifeSafe` speaks
  of behaviours in which nobody overlooked one so;
* a day is the daemon's in one place and the database's in another (not
  modelled: one clock);
* the deletion of a project with costs is answered 400, not 409, if its name
  contains "default" (`api/routes/projects.py:127`; answers are not modelled).

Research and demo:
* a kill between a commit and its judgement leaves the commit, and the next
  session takes it for its baseline; what a failed commit staged goes into the
  next one (`engine.py:460`);
* a tool server that is dead at the second reading reads as healthy
  (`heal.py:62`), so its heal counts; `HealingSound` speaks of a live one;
* a playbook with the perfect score may leave a fault of the mock: a rule for
  `device_state: offline, storage_mounted: false` passes the fixture
  (`fault_scenarios.json:44`) and does not match the mock's room
  (`mock_epiphan_mcp.py:68`), whose storage stays mounted. Likewise `cpu_percent: 97`, a scalar,
  does not match the mock's 97.0 (`playbook.py:118`);
* a kept file may remediate one fixture fewer than the one before, when it
  repairs the lint (`LintTrade`), though the header of the rules says that the
  engine "keeps changes that remediate more faults";
* the header of `remediation_rules.yaml:27` says "intentionally incomplete", but
  its rules handle every fault; the incomplete seed is
  `tests/fixtures/seed_remediation_rules.yaml`;
* a demo client that leaves before the first frame leaves its agent running
  outside the slots.

## 4. Fairness

* `Daemon!Fairness`: a coroutine that can run does run (the event loop is fair),
  and a connected client sends or hangs up, because `reader.read` has no
  timeout and `wait_closed` waits for its handler. Nobody must connect, start
  or stop the daemon. `ShutdownCompletes` assumes nothing about agents;
  `QueuedIsServed` assumes that `run_agent` returns, its loop being bounded by
  `max_iterations`.
* `Supervisor!FairSpec`: each runner's own steps, the timer of the step timeout
  among them. No child need ever return, no DB write need succeed, nobody need
  resume.
* `Orchestrator` (in `ServingSpec`): the steps of the loop and of the sub-tasks
  that can run, and the timer of the stage. No child need ever answer;
  `InvokeEnds` says nothing of `stream`, which has no timeout.
* `LiveDemo!LiveFairness` and `Pools!PoolFairness` (in `ServingSpec`): what a
  stream does by itself, its timer included, and what a caller of the pool does
  by itself, where a connection attempt succeeds or fails in the end. No client
  need read or leave, nobody need close the pool.
* `ResearchEngine` (in `ServicesSpec`): the engine's own steps and its timers.
  Neither the LLM nor an evaluation need answer; the memory write has its own
  timeout. The other parts of `services` have safety and action properties only
  and need no fairness.
* `AgentLoop` has no liveness property: its loop ends only if LLM and tools
  answer. That its stream ends is stated as safety (`StreamEndSound`).

## 5. Proofs

Every theorem holds for every value of the constants that satisfies the named
assumption of its module:

| Module | Assumption |
|---|---|
| `Daemon` | the three kinds of submitters are disjoint and finite, workers finitely many, limits positive, `NoTask` is no request |
| `Supervisor` | the types of the plan's parameters, a positive budget; `CompletionIsKept` also has `Solo` (below) |
| `Orchestrator` | plans with dependencies among their ids, natural budgets |
| `AgentLoop` | finitely many callers, positive bounds, costs up to `MaxCost` |
| `ResearchEngine` | natural bounds, at least one experiment, a breaker of at least one |
| `Pools`, `Migrations`, `DaemonLife` | finitely many callers, natural bounds; `LifeNobody` is no process, `LifeMaySignal` is between processes |
| `Toolbox`, `ToolHandlers`, `Decompose` | the bounds are natural numbers, the cap on tool calls is positive |
| `LiveDemo` | finitely many streams, at least one slot and one iteration |
| `ContextStore` | finitely many keys, which are numbers (their order is that of JSONB) |
| `Memories` | a cut and a token count for every content, positive importances, the global scope is no project |
| `CostBooks` | finitely many models, each with a tier, at least one day, costs are numbers |
| `Ralph` | numbers |
| `RoomHealth` | the shipped file and its seed are among those the LLM may write, which are otherwise any files over any rules; the fixtures and the mock are the code's |
| `ModelRouter` | none: the table of models is the code's |

`Solo` says that there is one runner and that no database write fails. It is what the run
`supervisor_solo` has, and what the property is stated for: a second runner works
on its own copy of the plan and writes it over the first one's session, and after a
checkpoint that failed (which is only logged) a resumed session starts from a
context that lacks a completed step.

| Theorem | Property | Argument |
|---|---|---|
| `DaemonProofs!TypeCorrect` | `TypeOK` | per action |
| `DaemonProofs!AtMostOnceHolds` | `AtMostOnce` | a request is fresh, queued once, or held by one worker and started once; numbers of a submitter only grow |
| `DaemonProofs!QueueIsSound` | `QueueSound` | the two theorems above it |
| `DaemonProofs!BacklogBounded` | `BoundedBacklog` | backlog plus the submitters between LLEN and RPUSH stays below the limit plus all submitters |
| `DaemonProofs!DaemonRequestsAreAccounted` | `DaemonRequestsAccounted` | once the door is closed no submitter of the daemon is inside submit; during the drain every queued request of its own is in the snapshot |
| `DaemonProofs!CountersAreHonest` | `CountersNeverOverstate` | `CounterInv`: the counters plus what is owed to them (workers between HSET and INCR, submitters between RPUSH and INCR) stay at or below what was stored and accepted |
| `DaemonProofs!DaemonImplementsLedger` | `LedgerSpec` | the at-most-once invariant, and one ledger step or a stutter per action |
| `SupervisorProofs!TypeCorrect` | `TypeOK` | per action; attempts stay within `MaxRetries` |
| `SupervisorProofs!NoStepIsStranded` | `NoStepStranded` | inductive with the types: only a runner that executes no step writes |
| `SupervisorProofs!OrderIsRespected` | `OrderRespected` | terminal steps stay terminal; a step leaves pending only when ready |
| `SupervisorProofs!StatusIsHonest` | `StatusTellsPlan` | only the last UPDATE writes the three statuses, from the plan it saves |
| `SupervisorProofs!CompletionIsKept` | `CompletionStands` | under `Solo`. `KeptInv`: what the row shows as completed is in its context or its checkpoint, a canceller's view is no newer than the row (`ViewsKeep`), and a run's plan holds what the row completed and its context what the plan completed (`RunsKeep`) |
| `SupervisorProofs!SessionIsSound` | `SessionSound` | `TypeCorrect` and `StatusIsHonest` |
| `SupervisorProofs!SpendIsBounded` | `SpendBounded` | strengthened: a run that executes a step is still below its budget; views are bounded too |
| `OrchestratorProofs!DependenciesComeFirst` | `DependenciesFirst` | `OrderInv`: a stage is a wave of what is past, and what is past has ended |
| `OrchestratorProofs!BudgetIsHeld` | `BudgetHeld` | `BudgetInv`: the account is at most the total plus one overrun for each sub-task that has ended, and an open reservation never passes it |
| `OrchestratorProofs!ReportIsSound` | `ReportSound` | `PurseInv`, `AccountInv`: the tracker holds the reservations of what runs plus the costs of what ended, and only a cancelled sub-task leaves a reservation behind; with `CompletedIsHonest` |
| `OrchestratorProofs!CompletedIsHonest` | `CompletedMeansAll` | `ReportInv`: a set of sub-tasks that wait for each other is disjoint from all that Kahn's loop placed, so once it placed all the stages leave none behind |
| `AgentLoopProofs!TypeCorrect` | `TypeOK` | with `SpendInv`, which bounds the iterations inside the loop |
| `AgentLoopProofs!ProjectIsSound` | `ProjectSound` | `BillInv`: every cost in the books was spent by a session. `MoneyInv`: what is logged plus what each admitted caller may still owe stays below the budget plus one session's cap per caller |
| `AgentLoopProofs!SessionSpendIsBounded` | `SessionSpendBounded` | `SpendInv`: inside an iteration there is room for the estimate |
| `AgentLoopProofs!RowIsHonest` | `RowTellsSession` | `RowInv`: a row has a final status only when nothing is under way |
| `AgentLoopProofs!StreamEndIsLast` | `StreamEndMeansSettled` | `RowInv` and `StreamInv`: a sentinel is in a queue only if its run is done |
| `AgentLoopProofs!SentinelIsDelivered` | part of `StreamEndSound` | `StreamInv`: the sentinel is the last thing put, and `Tail` keeps the last |
| `AgentLoopProofs!StreamEndIsSound` | `StreamEndSound` | the two theorems above it |
| `AgentLoopProofs!RouteIsSound` | `RouteSound` | the cascade picks the largest local model that fits (`BestLocalModelSound`) or the tier's first model of the highest score, and no list has a western model before a Chinese one (`CloudPickSound`); `RouteInv`: what was sent is what transport, base and key resolve to for the model picked |
| `InfraProofs!PoolIsSingle` | `PoolSafe` | `PoolInv`: the lock is held by the one who creates, who saw no pool after taking it, and a closer closes what `_pool` named |
| `InfraProofs!MigrationsAreSafe` | `MigSafe` | `MigBehind`: what a runner still has to do follows what is recorded or under way; `MigKeyHeld`: an uncommitted key has one holder |
| `InfraProofs!DaemonIsOne` | `LifeSafe` | `LifeAlone`: unless two processes met at the files or one overlooked another user's, at most one that lives is past its look at the PID file |
| `InfraProofs!ToolboxIsSound` | `ToolboxSound` | `ToolInv`: whoever provides a tool of a catalog is the process or a server whose connection is open; between iterations what was asked is answered, up to the cap; the sandbox is the workspace of the run that set it last |
| `InfraProofs!HandlersAreSound` | `HandlersSound` | `HandShapes`: checks and deeds read off each handler; `HandSearching`: the matches of a search so far are those before the place it has come to in the files that are not skipped, cut at the limit (`SkipKept`); `PageLines`: a page is an initial stretch of what was asked |
| `InfraProofs!LiveIsSafe` | the safety half of `LiveKept` | `LiveInv`: per stream, where the generator, the agent and the queue can be at once; free slots plus slots held make the semaphore's start |
| `ServiceProofs!RalphIsSound` | `RalphSound` | `RalphPlaced`: the four places of a task are disjoint and without repetition, so their sizes add up; `RalphPaid`: what was spent and what the plans left may still cost (`Due`) fit under the bound together |
| `ServiceProofs!ContextIsKept` | `CtxBudgetKept` | `CtxInv`: the relation is a total order of the keys and the account is their sum, over any snapshot too; an eviction takes the earliest evictable ones, and no more than needed |
| `ServiceProofs!MemoriesAreSound` | `MemSound` | `MemInv`: a row for each scope and content at most, with the highest importance ever given |
| `ServiceProofs!BooksAreSound` | `BooksSound` | `BookInv`: a rolled-up row was the sum of its day's calls when written, and calls are only added, so no row or page exceeds what was logged |
| `ServiceProofs!DecomposersAreSound` | `DecSound` | `PartsKeepPlaces`, `SplitHolds`: cells are numbered in the order of places, so parts are disjoint, in order, and leave out separators only; `DecCacheInv`: the cache's order is that of last use |
| `ResearchProofs!BranchIsHonest` | `BranchTellsLedger` | `IdsInv` and `CandidateInv`: ids are on the branch once, the pending commit is HEAD until it is judged, and then the last row tells whether it still is; `Judged`: a pending commit is given up only when kept or off the branch; `KeptTold`: a rollback strikes the experiment of the last row only |
| `ResearchProofs!CacheIsFresh` | `CacheFresh` | carried over the memory writes, where no step changes the tree without dropping the cache |
| `ResearchProofs!EngineKeepsBranch` | `BranchSpec` | one step of the abstract branch or a stutter per action, from the invariant of `BranchIsHonest` and `KeptOnTop`: while a kept experiment is remembered, its commit is HEAD |
| `ResearchProofs!HealingIsSound` | `HealingSound` | `CycleTold`: what each step of a heal cycle knows of the room; the rule that decides is the same in fixture and room, so the action is the one expected, which cures (`SureIsCure`). A kept file (`KeptIsNoWorse`): fixtures that pass exceed their fault types by two at most (`TypesAndScenarios`), so more types cannot make up for fewer fixtures, and the lint's points for one at most |

`TypeCorrect` and `AtMostOnceHolds` of `DaemonProofs`, `TypeCorrect` and
`StatusIsHonest` of `SupervisorProofs`, and `StreamEndIsLast` are the parts that
`QueueIsSound`, `SessionIsSound` and `StreamEndIsSound` put together.

`RouteIsSound` is about a table that the code fixes, so what the proof adds to
the run is the reason.

Only model-checked:

* liveness (`ShutdownCompletes`, `QueuedIsServed`, `RunEnds`, `InvokeEnds`,
  `SessionEnds`, `PoolServes`, the other half of `LiveKept`): it needs ENABLED,
  which the prover cannot do;
* the properties of the four violation runs, which the code does not have.

## 6. Not modelled, and what is left

Not modelled, because no state of theirs changes in an order that matters: the
orchestrator's middleware around a child (checks of one call, log lines), the
research engine's code target and LLM client (a subprocess and HTTP calls, whose
answers are free choices in `ResearchEngine`), the HTTP API's authentication,
runtime and read routes, configuration, CLI and network guard, dashboard, SQL
schema and scripts, the handlers of the built-in skills (one HTTP or LLM call
each). Left out of modelled components: the supervisor's `stream` (no database,
no timeout, no budget) and `delete_supervisor_session`, which nothing calls; the demo's scripted replay and heal
stream; scores in `ResearchEngine` (`RoomHealth` has them).

What could follow:

1. `stream` of the supervisor, as a second way to execute a plan.
2. The plan cache and the context store as implementations of one abstract
   least-recently-used store, whose order their invariants already describe.
